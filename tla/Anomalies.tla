----------------------------- MODULE Anomalies -----------------------------
(***************************************************************************)
(* The anomalies of QLAD-flow in the browser: the store that Dashboard and *)
(* Anomalies share (data/anomalies), the filters of the page, its list in  *)
(* sections with "more" at its end, and the aggregation that answers it    *)
(* (routes/anomalies.js).  The error that the store keeps changes what is  *)
(* rendered and nothing that is stored or asked for, and is left out; the  *)
(* details of one subject are in AnomalyDetails.                           *)
(***************************************************************************)
EXTENDS RequestWatcher, Naturals, SequencesExt

CONSTANTS Event,      \* anomalies: [subject, type, server, start, end]
          FilterOf,   \* values that may be picked for "type" and for "server"
          SearchText, \* what is typed in the search field: a subject it finds
          Sort,       \* orders that are picked: the key and the direction,
                      \* which the Sort component lets users turn
          Time,       \* times that are picked
          DayAgo, Now, \* the range of the Dashboard
          SECTIONS,   \* Today, Last 7 days, Last 30 days
          pageSize    \* 20

\* The type, the number of the autonomous system and the label of an anomaly go
\* with its subject, and so are not told apart from it.
ASSUME AnomaliesAssumption ==
  /\ IsFiniteSet(Event) /\ Event # {}
  /\ \A e, f \in Event : e.subject = f.subject => e.type = f.type
  /\ \A e \in Event : e.end \in Nat
  /\ Sort \subseteq {"most_recent", "count"} \X {"asc", "desc"}
  /\ {<<"most_recent", "desc">>, <<"count", "desc">>} \subseteq Sort
  /\ SECTIONS \in Seq(Nat)
  /\ pageSize \in Nat \ {0}

VARIABLES stored,     \* the anomalies in the database
          anomalies   \* the store

anomaliesVars == <<stored, anomalies>>

Filter == {f \in SUBSET ({"type"} \X FilterOf["type"] \cup {"server"} \X FilterOf["server"]) :
             \A x, y \in f : x[1] = y[1] => x = y}

NoConfig == [sort |-> NONE, from |-> NONE, to |-> NONE]
PageConfig == [NoConfig EXCEPT !.sort = <<"most_recent", "desc">>]
DashboardConfig == [sort |-> <<"count", "desc">>, from |-> DayAgo, to |-> Now]

Blank == [config |-> NoConfig, query |-> NONE, filter |-> {}, sort |-> NONE, from |-> NONE,
          to |-> NONE, disable_whitelist |-> FALSE, result |-> NONE]

AnomaliesInit ==
  /\ stored \in SUBSET Event
  /\ anomalies = Blank

-----------------------------------------------------------------------------
(* GET /anomalies: the anomalies that match are grouped by subject, the    *)
(* whitelist is applied to the groups, and the first of them are sent.     *)

Matches(u) ==
  {e \in stored : /\ u.query \in {NONE, e.subject}
                  /\ \A f \in u.filter : e[f[1]] = f[2]
                  /\ u.from # NONE => e.start >= u.from
                  /\ u.to # NONE => e.end <= u.to}

Group(subject, events) ==
  [subject |-> subject, most_recent |-> Max({e.end : e \in events}),
   count |-> Cardinality(events)]

Groups(u) == {Group(s, {e \in Matches(u) : e.subject = s}) : s \in {e.subject : e \in Matches(u)}}

\* x may come before y, in that direction.
InOrder(x, y, direction) == IF direction = "asc" THEN x <= y ELSE x >= y

Listing(u, rules) ==
  LET shown == {g \in Groups(u) : u.disable_whitelist \/ g.subject \notin rules}
      total == Cardinality(shown)
      all   == CHOOSE s \in [1..total -> shown] :
                 \A i, j \in 1..total : i < j =>
                   s[i] # s[j] /\ InOrder(s[i][u.sort[1]], s[j][u.sort[1]], u.sort[2])
  IN  [total |-> total, items |-> SubSeq(all, 1, Min({u.count, total}))]

\* POST /anomalies
PostAnomaly(e) ==
  /\ e \notin stored
  /\ stored' = stored \cup {e}
  /\ UNCHANGED anomalies

-----------------------------------------------------------------------------
(* Actions and reducer *)

Or(x, y) == IF x # NONE THEN x ELSE y

buildParams(a) ==
  [query |-> a.query, filter |-> a.filter, sort |-> Or(a.sort, a.config.sort),
   from |-> Or(a.from, a.config.from), to |-> Or(a.to, a.config.to),
   disable_whitelist |-> a.disable_whitelist, count |-> pageSize]

Subjects == {e.subject : e \in Event}

\* What the Dashboard asks for, and what the page may.
AnomalyUrls ==
  {[query |-> NONE, filter |-> {}, sort |-> <<"count", "desc">>, from |-> DayAgo, to |-> Now,
    disable_whitelist |-> FALSE, count |-> pageSize]}
  \cup [query : SearchText \cup {NONE}, filter : Filter, sort : Sort, from : Time \cup {NONE},
        to : Time \cup {NONE}, disable_whitelist : BOOLEAN,
        count : pageSize..pageSize + Cardinality(Subjects) - 1]

\* LOAD and UNLOAD.  What LOAD is given of from and to stays in the config.
AnomaliesLoad(config) ==
  [Blank EXCEPT !.config = config, !.sort = config.sort]
AnomaliesUnload == [anomalies EXCEPT !.result = NONE]

\* The handlers store what was picked and watch the url that goes with it.
Refine(a, r) ==
  /\ anomalies' = a
  /\ WatchApi(AnomalyUrls, Watch(buildParams(a), r))
  /\ UNCHANGED stored

\* AnomalyFilter: "All" has no value and clears the filter.
FilterAnomalies(name, value, r) ==
  LET others == {f \in anomalies.filter : f[1] # name}
  IN  Refine([anomalies EXCEPT
               !.filter = IF value = NONE THEN others ELSE others \cup {<<name, value>>}], r)

SortAnomalies(sort, r) == Refine([anomalies EXCEPT !.sort = sort], r)
QueryAnomalies(query, r) == Refine([anomalies EXCEPT !.query = query], r)

DisableWhitelist(r) == Refine([anomalies EXCEPT !.disable_whitelist = ~@], r)

\* One end of the time range; a range that ends before it starts is an error.
\* The request is built with state.whitelist, which does not exist, in the
\* place of state.disable_whitelist.
FilterTimeRange(end, time, r) ==
  LET a == [anomalies EXCEPT ![end] = time]
  IN  /\ a.from # NONE /\ a.to # NONE => a.from <= a.to
      /\ anomalies' = a
      /\ WatchApi(AnomalyUrls, Watch(buildParams([a EXCEPT !.disable_whitelist = FALSE]), r))
      /\ UNCHANGED stored

AnomaliesSuccess(listing) == [anomalies EXCEPT !.result = listing]

-----------------------------------------------------------------------------
(* The list *)

\* Faulty variant: without the section that takes the rest.
TakenByDates(items) ==
  LET taken[k \in 0..Len(SECTIONS) + 1] ==
        IF k = 0 THEN 0
        ELSE IF k > Len(SECTIONS) THEN taken[k - 1]
        ELSE Max({n \in taken[k - 1]..Len(items) :
                    \A i \in taken[k - 1] + 1..n :
                      InOrder(items[i].most_recent, SECTIONS[k], anomalies.sort[2])})
  IN  taken

\* How many items the first k sections take, in the order of the list: each
\* goes on while the items are recent enough, or in ascending order while they
\* are old enough, and "Earlier" takes the rest.
TakenBy(items) ==
  LET taken[k \in 0..Len(SECTIONS) + 1] ==
        IF k = 0 THEN 0
        ELSE IF k > Len(SECTIONS) THEN Len(items)
        ELSE Max({n \in taken[k - 1]..Len(items) :
                    \A i \in taken[k - 1] + 1..n :
                      InOrder(items[i].most_recent, SECTIONS[k], anomalies.sort[2])})
  IN  taken

Offered(n) == /\ n = Len(anomalies.result.items)
              /\ n > 0 /\ n < anomalies.result.total

\* Where the sections begin and end; by another order there is one.
Cuts(items) ==
  LET taken == TakenBy(items)
  IN  IF anomalies.sort # NONE /\ anomalies.sort[1] = "most_recent"
        THEN {<<taken[k - 1], taken[k]>> : k \in 1..Len(SECTIONS) + 1}
        ELSE {<<0, Len(items)>>}

\* The sections that are not empty: their items, and whether more is offered.
Sections ==
  LET items == anomalies.result.items
  IN  {[items |-> SubSeq(items, c[1] + 1, c[2]), more |-> Offered(c[2])] :
         c \in {c \in Cuts(items) : c[1] < c[2]}}

\* The list asks for one more page than it shows.
MoreAnomalies(r) ==
  /\ anomalies.result # NONE /\ \E s \in Sections : s.more
  /\ LET count == Len(anomalies.result.items) + pageSize
     IN  WatchApi(AnomalyUrls, Watch([buildParams(anomalies) EXCEPT !.count = count], r))
  /\ UNCHANGED anomaliesVars

-----------------------------------------------------------------------------
(* Properties *)

\* The list shows every anomaly of the result once, in its order, and offers
\* more exactly when the server has more, also while the result still is the
\* answer for another order than the one the sections are made for.
EveryItemShownOnce ==
  anomalies.result # NONE =>
    /\ \A i \in DOMAIN anomalies.result.items :
         Cardinality({s \in Sections : \E k \in DOMAIN s.items :
                                         s.items[k] = anomalies.result.items[i]}) = 1
    /\ (\E s \in Sections : s.more)
         <=> 0 < Len(anomalies.result.items) /\ Len(anomalies.result.items) < anomalies.result.total
=============================================================================
