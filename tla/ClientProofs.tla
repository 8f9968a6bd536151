---------------------------- MODULE ClientProofs ----------------------------
(***************************************************************************)
(* Proofs about Client for any anomalies, windows, servers, picks and      *)
(* requests.  What the pages watch is a matter of three parts of the state *)
(* that different modules keep: the watchers, the parameters in the        *)
(* stores and the page that is mounted.  That they agree needs to know     *)
(* which urls a store can ask for at all (or a handler would stop the      *)
(* wrong ones) and, for "more", how long an answer can be.  That the list  *)
(* shows every item once is about an answer and where it is cut: it has    *)
(* each group once, and the cuts come in order from its first item to its  *)
(* last.                                                                   *)
(***************************************************************************)
EXTENDS Client, SharedProofs, FiniteSetTheorems, SequenceTheorems

\* An answer of GET /anomalies: no more groups than there are subjects, and
\* each of them once.
IsListing(l) ==
  /\ Len(l.items) \in Nat /\ l.total \in Nat
  /\ l.total <= Cardinality(Subjects)
  /\ DOMAIN l.items = 1..Len(l.items)
  /\ \A i, j \in 1..Len(l.items) : l.items[i] = l.items[j] => i = j

\* The two stores.
StatsOK ==
  dnsstats \in [status : {dnsstats.status}, timeRange : TimeRange, server : Server,
                stats : {dnsstats.stats}, error : {dnsstats.error}]

Configs == {NoConfig, PageConfig, DashboardConfig}

AnomaliesTyped(a) ==
  a \in [config : Configs, query : SearchText \cup {NONE}, filter : Filter,
         sort : Sort \cup {NONE}, from : Time \cup {NONE}, to : Time \cup {NONE},
         disable_whitelist : BOOLEAN, result : {a.result}]

AnomaliesOK ==
  /\ stored \subseteq Event
  /\ AnomaliesTyped(anomalies)
  /\ anomalies.result # NONE => IsListing(anomalies.result)
  /\ scene = "anomalies" => anomalies.config = PageConfig /\ anomalies.sort \in Sort

\* Answers, which only a request that has been created can be waiting for.
AnswersOK ==
  /\ pollBusy \subseteq created
  /\ DOMAIN reply = Requests
  /\ \A r \in Requests :
       /\ uri[r] = NONE => reply[r] = NONE
       /\ uri[r] \in AnomalyUrls /\ reply[r] \notin {NONE, LOST} => IsListing(reply[r])

\* A url with other values of two fields.
Changed(u, count, wl) == [u EXCEPT !.count = count, !.disable_whitelist = wl]

\* The url of a list with these parameters, more or less of it, with or without
\* the whitelist.
Asks(a, u) ==
  \E wl \in BOOLEAN : Changed(buildParams(a), u.count, wl) = u

\* What the mounted page watches.
PageOK ==
  ~broken =>
    /\ Watched \cap StatsUrls =
         CASE scene = "dashboard" -> {StatsUrl(Last24h, NONE)}
           [] scene = "traffic"   -> {StatsUrl(dnsstats.timeRange, dnsstats.server)}
           [] OTHER               -> {}
    /\ IF scene \in ShowsAnomalies
         THEN \E u \in AnomalyUrls : Watched \cap AnomalyUrls = {u} /\ Asks(anomalies, u)
         ELSE Watched \cap AnomalyUrls = {}

ClientInv == WatchersOK /\ AnswersOK /\ StatsOK /\ AnomaliesOK /\ PageOK

-----------------------------------------------------------------------------
(* Urls *)

\* No url is of both stores.
LEMMA UrlsApart ==
  /\ StatsUrls \cap AnomalyUrls = {}
  /\ StatsUrls \subseteq Urls /\ AnomalyUrls \subseteq Urls
  /\ \A u \in Urls : u \in StatsUrls \/ u \in AnomalyUrls
<1>1. \A u \in StatsUrls : DOMAIN u = {"timeRange", "server"}
  BY DEF StatsUrls
<1>2. \A u \in AnomalyUrls : "query" \in DOMAIN u
  BY DEF AnomalyUrls
<1>3. "query" \notin {"timeRange", "server"}
  OBVIOUS
<1>. QED BY <1>1, <1>2, <1>3, ClientAssumption

LEMMA SubjectsFinite ==
  /\ IsFiniteSet(Subjects) /\ Cardinality(Subjects) \in Nat /\ Cardinality(Subjects) >= 1
<1> DEFINE f == [e \in Event |-> e.subject]
<1>1. f \in Surjection(Event, Subjects)
  BY DEF Surjection, Subjects
<1>2. IsFiniteSet(Subjects)
  BY <1>1, FS_Surjection, AnomaliesAssumption
<1>3. Subjects # {}
  BY AnomaliesAssumption DEF Subjects
<1>. QED BY <1>2, <1>3, FS_CardinalityType, FS_EmptySet

\* A url from its parts, and that of a list.
Url(q, f, s, from, to, wl, count) ==
  [query |-> q, filter |-> f, sort |-> s, from |-> from, to |-> to,
   disable_whitelist |-> wl, count |-> count]

ListUrl(a, wl, count) ==
  Url(a.query, a.filter, Or(a.sort, a.config.sort), Or(a.from, a.config.from),
      Or(a.to, a.config.to), wl, count)

\* Two fields of a url replaced.
LEMMA UrlChanged ==
  ASSUME NEW q, NEW f, NEW s, NEW from, NEW to, NEW wl, NEW c, NEW wl2, NEW c2
  PROVE  Changed(Url(q, f, s, from, to, wl, c), c2, wl2) = Url(q, f, s, from, to, wl2, c2)
<1> DEFINE p == Url(q, f, s, from, to, wl, c)
           p2 == Url(q, f, s, from, to, wl2, c2)
           e == [p EXCEPT !.count = c2, !.disable_whitelist = wl2]
           S == {"query", "filter", "sort", "from", "to", "disable_whitelist", "count"}
<1> USE DEF Url
<1>1. DOMAIN p = S
  OBVIOUS
<1>2. \A x \in S : e[x] = p2[x]
  <2>1. e.query = q /\ e.filter = f /\ e.sort = s /\ e.from = from /\ e.to = to
    OBVIOUS
  <2>2. e.disable_whitelist = wl2 /\ e.count = c2
    OBVIOUS
  <2>3. p2.query = q /\ p2.filter = f /\ p2.sort = s /\ p2.from = from /\ p2.to = to
    OBVIOUS
  <2>4. p2.disable_whitelist = wl2 /\ p2.count = c2
    OBVIOUS
  <2> HIDE DEF e, p2
  <2>. QED BY <2>1, <2>2, <2>3, <2>4
<1>3. e = [x \in S |-> e[x]]
  BY <1>1
<1>4. p2 = [x \in S |-> p2[x]]
  OBVIOUS
<1>5. e = p2
  <2> HIDE DEF e, p2
  <2>. QED BY <1>2, <1>3, <1>4
<1>. QED BY <1>5 DEF Changed

LEMMA ListUrlAsks ==
  ASSUME NEW a, NEW wl \in BOOLEAN, NEW count
  PROVE  Asks(a, ListUrl(a, wl, count))
<1>1. ListUrl(a, wl, count).count = count
  BY DEF ListUrl, Url
<1>2. buildParams(a) = ListUrl(a, a.disable_whitelist, pageSize)
  BY DEF buildParams, ListUrl, Url
<1>3. Changed(buildParams(a), count, wl) = ListUrl(a, wl, count)
  BY <1>2, UrlChanged DEF ListUrl
<1>. QED BY <1>1, <1>3 DEF Asks

\* What the page asks for with the parameters of its store.
LEMMA ListUrlTyped ==
  ASSUME NEW a, AnomaliesTyped(a), a.config = PageConfig, a.sort \in Sort,
         NEW wl \in BOOLEAN, NEW count \in pageSize..pageSize + Cardinality(Subjects) - 1
  PROVE  ListUrl(a, wl, count) \in AnomalyUrls
<1>1. a.query \in SearchText \cup {NONE} /\ a.filter \in Filter
      /\ a.from \in Time \cup {NONE} /\ a.to \in Time \cup {NONE}
  BY DEF AnomaliesTyped
<1>2. PageConfig.from = NONE /\ PageConfig.to = NONE /\ PageConfig.sort = <<"most_recent", "desc">>
  BY DEF PageConfig, NoConfig
<1>3. Or(a.from, a.config.from) \in Time \cup {NONE} /\ Or(a.to, a.config.to) \in Time \cup {NONE}
  BY <1>1, <1>2 DEF Or
<1>4. Or(a.sort, a.config.sort) \in Sort
  BY <1>2, AnomaliesAssumption DEF Or
<1>. QED BY <1>1, <1>3, <1>4 DEF ListUrl, Url, AnomalyUrls

LEMMA ParamsAreUrl ==
  ASSUME NEW a, AnomaliesTyped(a), a.config = PageConfig, a.sort \in Sort
  PROVE  buildParams(a) \in AnomalyUrls /\ Asks(a, buildParams(a))
<1>1. a.disable_whitelist \in BOOLEAN
  BY DEF AnomaliesTyped
<1>2. pageSize \in pageSize..pageSize + Cardinality(Subjects) - 1
  BY SubjectsFinite, AnomaliesAssumption
<1>3. buildParams(a) = ListUrl(a, a.disable_whitelist, pageSize)
  BY DEF buildParams, ListUrl, Url
<1>. QED BY <1>1, <1>2, <1>3, ListUrlAsks, ListUrlTyped

\* A finite set can be put in the order of a key, in either direction.
LEMMA SortableBothWays ==
  ASSUME NEW S, IsFiniteSet(S), NEW key \in [S -> Nat], NEW direction
  PROVE  \E s \in [1..Cardinality(S) -> S] :
           \A i, j \in 1..Cardinality(S) :
             i < j => s[i] # s[j] /\ InOrder(key[s[i]], key[s[j]], direction)
<1>1. PICK n \in Nat : n = Cardinality(S)
  BY FS_CardinalityType
<1>2. PICK s \in [1..n -> S] :
        \A i, j \in 1..n : i < j => s[i] # s[j] /\ key[s[i]] >= key[s[j]]
  BY <1>1, Sortable
<1>3. CASE direction # "asc"
  BY <1>1, <1>2, <1>3 DEF InOrder
<1>4. CASE direction = "asc"
  <2> DEFINE rev == [i \in 1..n |-> s[n + 1 - i]]
  <2>1. \A i \in 1..n : n + 1 - i \in 1..n /\ rev[i] = s[n + 1 - i]
    OBVIOUS
  <2>2. rev \in [1..n -> S]
    BY <2>1
  <2>. HIDE DEF rev
  <2>3. ASSUME NEW i \in 1..n, NEW j \in 1..n, i < j
        PROVE  rev[i] # rev[j] /\ key[rev[i]] <= key[rev[j]]
    <3>1. n + 1 - j < n + 1 - i /\ n + 1 - j \in 1..n /\ n + 1 - i \in 1..n
      BY <2>1, <2>3
    <3>2. s[n + 1 - j] # s[n + 1 - i] /\ key[s[n + 1 - j]] >= key[s[n + 1 - i]]
      BY <1>2, <3>1
    <3>3. key[rev[i]] \in Nat /\ key[rev[j]] \in Nat
      BY <2>2
    <3>. QED BY <2>1, <3>2, <3>3
  <2>. QED BY <1>1, <1>4, <2>2, <2>3 DEF InOrder
<1>. QED BY <1>3, <1>4

\* The answer to any list: groups of different subjects.
LEMMA ListingOK ==
  ASSUME stored \subseteq Event, NEW u \in AnomalyUrls
  PROVE  IsListing(Listing(u, whitelist))
<1> DEFINE shown == {g \in Groups(u) : u.disable_whitelist \/ g.subject \notin whitelist}
           total == Cardinality(shown)
           Sorted(seq) == \A i, j \in 1..total : i < j =>
                            seq[i] # seq[j] /\ InOrder(seq[i][u.sort[1]], seq[j][u.sort[1]], u.sort[2])
           all == CHOOSE seq \in [1..total -> shown] : Sorted(seq)
           n == Min({u.count, total})
<1>1. Listing(u, whitelist) = [total |-> total, items |-> SubSeq(all, 1, n)]
  BY DEF Listing
<1>0. /\ Matches(u) \subseteq Event
      /\ \A g \in shown : \E x \in Subjects :
           /\ g = Group(x, {e \in Matches(u) : e.subject = x}) /\ g.subject = x
           /\ {e \in Matches(u) : e.subject = x} # {}
  <2>1. Matches(u) \subseteq Event
    BY DEF Matches
  <2>2. \A x : Group(x, {e \in Matches(u) : e.subject = x}).subject = x
    BY DEF Group
  <2>3. \A x \in {e.subject : e \in Matches(u)} :
          x \in Subjects /\ {e \in Matches(u) : e.subject = x} # {}
    BY <2>1 DEF Subjects
  <2>. QED BY <2>1, <2>2, <2>3 DEF Groups
<1>. HIDE DEF shown
<1>2. IsFiniteSet(shown) /\ total \in Nat /\ total <= Cardinality(Subjects)
  <2> DEFINE f == [g \in shown |-> g.subject]
  <2> DEFINE G(x) == Group(x, {e \in Matches(u) : e.subject = x})
  <2>0. \A g \in shown : \E x \in Subjects : g = G(x) /\ g.subject = x
    BY <1>0
  <2>1. \A g, h \in shown : g.subject = h.subject => g = h
    <3>. HIDE DEF G
    <3>. QED BY <2>0
  <2>2. f \in Injection(shown, Subjects)
    BY <1>0, <2>1 DEF Injection, IsInjective
  <2>. QED BY <2>2, SubjectsFinite, FS_Injection, FS_CardinalityType
<1>20. \A g \in shown : g[u.sort[1]] \in Nat
  <2> SUFFICES ASSUME NEW g \in shown PROVE g[u.sort[1]] \in Nat
    OBVIOUS
  <2>1. PICK x \in Subjects : /\ g = Group(x, {e \in Matches(u) : e.subject = x})
                              /\ {e \in Matches(u) : e.subject = x} # {}
    BY <1>0
  <2> DEFINE events == {e \in Matches(u) : e.subject = x}
             ends == {e.end : e \in events}
  <2>2. IsFiniteSet(events) /\ Cardinality(events) \in Nat
    BY <1>0, AnomaliesAssumption, FS_Subset, FS_CardinalityType
  <2>3. ends \in SUBSET Nat /\ ends # {} /\ IsFiniteSet(ends)
    <3>1. events \subseteq Event /\ events # {}
      BY <1>0, <2>1
    <3> DEFINE end == [e \in events |-> e.end]
    <3>2. end \in Surjection(events, ends)
      BY DEF Surjection
    <3>3. IsFiniteSet(ends)
      BY <2>2, <3>2, FS_Surjection
    <3>. HIDE DEF events
    <3>. QED BY <3>1, <3>3, AnomaliesAssumption
  <2>. HIDE DEF ends, events
  <2>4. Max(ends) \in Nat
    BY <2>3, FiniteGreatest DEF Max
  <2>5. g.most_recent = Max(ends) /\ g.count = Cardinality(events)
    BY <2>1 DEF Group, events, ends
  <2>6. u.sort[1] \in {"most_recent", "count"}
    BY AnomaliesAssumption DEF AnomalyUrls
  <2>. QED BY <2>2, <2>4, <2>5, <2>6
<1>21. all \in [1..total -> shown] /\ Sorted(all)
  <2> DEFINE key == [g \in shown |-> g[u.sort[1]]]
  <2>1. key \in [shown -> Nat]
    BY <1>20
  <2>. HIDE DEF key
  <2>2. PICK seq \in [1..total -> shown] :
          \A i, j \in 1..total : i < j => seq[i] # seq[j] /\ InOrder(key[seq[i]], key[seq[j]], u.sort[2])
    BY <1>2, <2>1, SortableBothWays
  <2>3. Sorted(seq)
    <3>1. \A i \in 1..total : key[seq[i]] = seq[i][u.sort[1]]
      BY DEF key
    <3>. QED BY <2>2, <3>1
  <2>. HIDE DEF Sorted
  <2>. QED BY <2>3
<1>3. u.count \in Nat
  <2>1. \A c \in pageSize..pageSize + Cardinality(Subjects) - 1 : c \in Nat
    BY SubjectsFinite, AnomaliesAssumption
  <2>. QED BY <2>1, AnomaliesAssumption DEF AnomalyUrls
<1>. HIDE DEF all
<1>4. n \in Nat /\ n <= total
  <2>. HIDE DEF total
  <2>1. \E x \in {u.count, total} : \A y \in {u.count, total} : x <= y
    <3>1. u.count <= total \/ total <= u.count
      BY <1>2, <1>3
    <3>. QED BY <1>2, <1>3, <3>1
  <2>. QED BY <1>2, <1>3, <2>1 DEF Min
<1>. HIDE DEF n
<1>5. /\ Len(SubSeq(all, 1, n)) = n /\ DOMAIN SubSeq(all, 1, n) = 1..n
      /\ \A i \in 1..n : SubSeq(all, 1, n)[i] = all[i]
  <2>1. \A i \in 1..n : all[i] \in shown
    BY <1>2, <1>4, <1>21
  <2>2. /\ SubSeq(all, 1, n) \in Seq(shown)
        /\ Len(SubSeq(all, 1, n)) = IF 1 <= n THEN n - 1 + 1 ELSE 0
        /\ \A i \in 1..n - 1 + 1 : SubSeq(all, 1, n)[i] = all[1 + i - 1]
    BY <1>4, <2>1, SubSeqProperties
  <2>3. n - 1 + 1 = n /\ \A i \in 1..n : 1 + i - 1 = i
    BY <1>4
  <2>. QED BY <1>4, <2>2, <2>3
<1>6. \A i, j \in 1..n : all[i] = all[j] => i = j
  <2> SUFFICES ASSUME NEW i \in 1..n, NEW j \in 1..n, i < j PROVE all[i] # all[j]
    BY <1>4
  <2>. QED BY <1>2, <1>4, <1>21
<1>. HIDE DEF total
<1>. QED BY <1>1, <1>2, <1>4, <1>5, <1>6 DEF IsListing

-----------------------------------------------------------------------------
(* The watcher as the pages use it *)

\* Watching the urls of w after stopping those in S.
LEMMA WatchesMany ==
  ASSUME WatchersOK, AnswersOK, NEW S \in SUBSET Urls, NEW D \in SUBSET Urls,
         NEW w \in [D -> Requests], WatchApi(S, w)
  PROVE  WatchersOK' /\ AnswersOK' /\ Watched' = (Watched \ S) \cup D
<1>1. WatchersOK'
  BY WatchKeeps
<1>2. created' = created \cup Registered(w)
  BY CreatedGrows
<1>3. /\ pollBusy' = pollBusy \cup Registered(w) /\ reply' = reply
      /\ Registered(w) \cap created = {} /\ uri' = UriAfter(w)
      /\ statusWatchers' = [u \in Urls |-> IF u \in D THEN w[u]
                                           ELSE IF u \in S THEN NONE ELSE statusWatchers[u]]
  BY DEF WatchApi, IsNew
<1>4. Watched' = (Watched \ S) \cup D
  BY <1>3, WatcherAssumption DEF Watched
<1>5. ASSUME NEW r \in Requests
      PROVE  /\ uri'[r] = NONE => uri[r] = NONE
             /\ uri'[r] = uri[r] \/ reply[r] = NONE
  <2>1. CASE r \in Registered(w)
    <3>1. r \in created' /\ r \notin created
      BY <1>2, <1>3, <2>1
    <3>. QED BY <3>1 DEF created, AnswersOK
  <2>2. CASE r \notin Registered(w)
    BY <1>3, <2>2 DEF UriAfter
  <2>. QED BY <2>1, <2>2
<1>6. AnswersOK'
  BY <1>2, <1>3, <1>5 DEF AnswersOK
<1>. QED BY <1>1, <1>4, <1>6

\* Watching one url.
LEMMA WatchesOne ==
  ASSUME WatchersOK, AnswersOK, NEW S \in SUBSET Urls, NEW u \in Urls, NEW r,
         WatchApi(S, Watch(u, r))
  PROVE  WatchersOK' /\ AnswersOK' /\ Watched' = (Watched \ S) \cup {u}
<1>1. r \in Requests
  BY DEF WatchApi, IsNew, Registered, Watch
<1>2. Watch(u, r) \in [{u} -> Requests]
  BY <1>1 DEF Watch
<1>. QED BY <1>2, WatchesMany

\* Stopping urls, alone or in a callback that has no other effect.
LEMMA Unwatches ==
  ASSUME WatchersOK, AnswersOK, NEW S \in SUBSET Urls, UnwatchApi(S)
  PROVE  WatchersOK' /\ AnswersOK' /\ Watched' = Watched \ S
<1>1. Unwatch(S) /\ UNCHANGED <<uri, pollBusy, reply>>
  BY DEF UnwatchApi
<1>2. WatchersOK' /\ created' = created
  BY <1>1, UnwatchKeeps DEF WatchersOK, created
<1>3. Watched' = Watched \ S
  BY <1>1, WatcherAssumption DEF Unwatch, Watched
<1>. QED BY <1>1, <1>2, <1>3 DEF AnswersOK

\* A tick, an answer and its callback leave the watchers alone.
LEMMA Answering ==
  ASSUME WatchersOK, AnswersOK, stored \subseteq Event,
         \/ _poll
         \/ \E r \in Requests :
              \/ uri[r] # NONE /\ Answer(r, Served(uri[r]))
              \/ Answer(r, LOST)
              \/ Deliver(r, {}) \/ DeliverThrows(r)
  PROVE  WatchersOK' /\ AnswersOK' /\ Watched' = Watched
<1>1. CASE _poll
  BY <1>1 DEF _poll, WatchersOK, AnswersOK, created, Watched, TimerWhileRequests,
              EveryRequestCanBeStopped
<1>2. ASSUME NEW r \in Requests, NEW x, Answer(r, x),
             x = LOST \/ (uri[r] # NONE /\ x = Served(uri[r]))
      PROVE  WatchersOK' /\ AnswersOK' /\ Watched' = Watched
  <2>1. UNCHANGED <<_requests, statusWatchers, _pollTimer, uri, pollBusy>>
    BY <1>2 DEF Answer
  <2>2. uri[r] \in Urls
    BY <1>2 DEF Answer, AnswersOK, created, WatchersOK
  <2>3. uri[r] \in AnomalyUrls /\ x # LOST => IsListing(x)
    BY <1>2, ListingOK, UrlsApart DEF Served
  <2>4. AnswersOK'
    BY <1>2, <2>1, <2>2, <2>3, WatcherAssumption DEF Answer, AnswersOK, created
  <2>. QED BY <2>1, <2>4 DEF WatchersOK, Watched, created, TimerWhileRequests, EveryRequestCanBeStopped
<1>3. ASSUME NEW r \in Requests, Deliver(r, {}) \/ DeliverThrows(r)
      PROVE  WatchersOK' /\ AnswersOK' /\ Watched' = Watched
  <2>1. uri' = uri /\ pollBusy' \subseteq pollBusy /\ reply' = [reply EXCEPT ![r] = NONE]
    BY <1>3 DEF Deliver, DeliverThrows
  <2>2. AnswersOK'
    BY <2>1 DEF AnswersOK, created
  <2>3. CASE Deliver(r, {})
    <3>1. Unwatch({})
      BY <2>3 DEF Deliver
    <3>2. WatchersOK'
      BY <2>1, <3>1, UnwatchKeeps DEF WatchersOK, created
    <3>3. Watched' = Watched
      BY <3>1 DEF Unwatch, Watched, WatchersOK
    <3>. QED BY <2>2, <3>2, <3>3
  <2>4. CASE DeliverThrows(r)
    BY <2>2, <2>4 DEF DeliverThrows, WatchersOK, Watched, created, TimerWhileRequests,
                      EveryRequestCanBeStopped
  <2>. QED BY <1>3, <2>3, <2>4
<1>. QED BY <1>1, <1>2, <1>3

-----------------------------------------------------------------------------
(* The pages *)

LEMMA BlankTyped ==
  ASSUME NEW c \in Configs
  PROVE  /\ AnomaliesTyped(AnomaliesLoad(c)) /\ AnomaliesLoad(c).config = c
         /\ AnomaliesLoad(c).sort = c.sort /\ AnomaliesLoad(c).result = NONE
         /\ AnomaliesTyped(Blank) /\ Blank.result = NONE
<1>1. c.sort \in Sort \cup {NONE}
  <2>1. NoConfig.sort = NONE /\ PageConfig.sort = <<"most_recent", "desc">>
        /\ DashboardConfig.sort = <<"count", "desc">>
    BY DEF NoConfig, PageConfig, DashboardConfig
  <2>. QED BY <2>1, AnomaliesAssumption DEF Configs
<1>2. {} \in Filter /\ NoConfig \in Configs
  BY DEF Filter, Configs
<1>3. AnomaliesTyped(Blank) /\ Blank.result = NONE
  BY <1>2 DEF Blank, AnomaliesTyped
<1>4. AnomaliesLoad(c) \in [config : Configs, query : SearchText \cup {NONE}, filter : Filter,
         sort : Sort \cup {NONE}, from : Time \cup {NONE}, to : Time \cup {NONE},
         disable_whitelist : BOOLEAN, result : {NONE}]
      /\ AnomaliesLoad(c).config = c /\ AnomaliesLoad(c).sort = c.sort
  BY <1>1, <1>2 DEF Blank, AnomaliesLoad
<1>5. AnomaliesLoad(c).result = NONE
  BY <1>4
<1>. QED BY <1>3, <1>4, <1>5 DEF AnomaliesTyped

LEMMA ParamsAsk ==
  ASSUME NEW a, a.disable_whitelist \in BOOLEAN
  PROVE  Asks(a, buildParams(a))
<1>1. buildParams(a) = ListUrl(a, a.disable_whitelist, pageSize)
  BY DEF buildParams, ListUrl, Url
<1>. QED BY <1>1, ListUrlAsks

\* What a page asks for when it is opened.
LEMMA LoadedUrl ==
  ASSUME NEW c \in {PageConfig, DashboardConfig}
  PROVE  /\ buildParams(AnomaliesLoad(c)) \in AnomalyUrls
         /\ Asks(AnomaliesLoad(c), buildParams(AnomaliesLoad(c)))
<1>1. c \in Configs
  BY DEF Configs
<1>2. AnomaliesLoad(c).disable_whitelist \in BOOLEAN
  BY <1>1, BlankTyped DEF AnomaliesTyped
<1>3. CASE c = PageConfig
  <2>1. AnomaliesLoad(c).sort \in Sort
    BY <1>1, <1>3, BlankTyped, AnomaliesAssumption DEF PageConfig, NoConfig
  <2>. QED BY <1>1, <1>3, <2>1, BlankTyped, ParamsAreUrl
<1>4. CASE c = DashboardConfig
  <2> DEFINE a == AnomaliesLoad(c)
  <2>1. /\ a.query = NONE /\ a.filter = {} /\ a.sort = c.sort /\ a.from = NONE
        /\ a.to = NONE /\ a.disable_whitelist = FALSE /\ a.config = c
    BY DEF AnomaliesLoad, Blank
  <2>2. c.from = DayAgo /\ c.to = Now /\ c.sort = <<"count", "desc">>
    BY <1>4 DEF DashboardConfig
  <2>. HIDE DEF a
  <2>5. Or(a.sort, a.config.sort) = <<"count", "desc">> /\ Or(a.from, a.config.from) = DayAgo
        /\ Or(a.to, a.config.to) = Now
    BY <2>1, <2>2 DEF Or
  <2>3. buildParams(a)
          = [query |-> NONE, filter |-> {}, sort |-> <<"count", "desc">>, from |-> DayAgo, to |-> Now,
             disable_whitelist |-> FALSE, count |-> pageSize]
    BY <2>1, <2>5 DEF buildParams
  <2>4. buildParams(a) \in AnomalyUrls
    BY <2>3 DEF AnomalyUrls
  <2>. QED BY <1>2, <2>4, ParamsAsk DEF a
<1>. QED BY <1>3, <1>4

\* A page that is left leaves nothing behind.
LEMMA Unloaded ==
  ASSUME PageOK, ~broken
  PROVE  Watched \ Unloads(scene) = {} /\ Unloads(scene) \in SUBSET Urls
<1>1. Watched \subseteq Urls
  BY DEF Watched
<1>2. scene \notin ShowsStats => Watched \cap StatsUrls = {}
  BY DEF PageOK, ShowsStats
<1>3. scene \notin ShowsAnomalies => Watched \cap AnomalyUrls = {}
  BY DEF PageOK
<1>. QED BY <1>1, <1>2, <1>3, UrlsApart DEF Unloads

\* The parameters of the statistics survive what the reducer does otherwise.
LEMMA StatsKept ==
  ASSUME StatsOK, NEW d,
         \/ d = StatsLoad \/ d = StatsUnload \/ d = StatsFailure
         \/ \E stats : d = StatsSuccess(stats)
  PROVE  /\ d \in [status : {d.status}, timeRange : TimeRange, server : Server,
                   stats : {d.stats}, error : {d.error}]
         /\ d.timeRange = dnsstats.timeRange /\ d.server = dnsstats.server
BY DEF StatsOK, StatsLoad, StatsUnload, StatsFailure, StatsSuccess

\* Opening a page: what was shown is stopped, what is shown now is watched.
LEMMA OpenKeeps ==
  ASSUME ClientInv, NEW page, Open(page)
  PROVE  ClientInv'
<1>1. /\ page \in {"dashboard", "traffic", "anomalies"} /\ ~broken
      /\ WatchApi(Unloads(scene), Watches(page)) /\ scene' = page
      /\ stored' = stored /\ broken' = broken
  BY DEF Open, May
<1>2. Watched \ Unloads(scene) = {} /\ Unloads(scene) \in SUBSET Urls
  BY <1>1, Unloaded DEF ClientInv
<1>3. Last24h \in TimeRange /\ \A t \in TimeRange, s \in Server \cup {NONE} : StatsUrl(t, s) \in StatsUrls
  BY DnsStatsAssumption DEF StatsUrl, StatsUrls
<1>4. StatsOK' /\ dnsstats'.timeRange = dnsstats.timeRange /\ dnsstats'.server = dnsstats.server
  <2>1. dnsstats' \in {dnsstats, StatsLoad, StatsUnload}
    BY DEF Open
  <2>. QED BY <2>1, StatsKept DEF ClientInv, StatsOK
<1>5. CASE page = "dashboard"
  <2> DEFINE u == StatsUrl(Last24h, NONE)
             v == buildParams(AnomaliesLoad(DashboardConfig))
             w == Watches(page)
  <2>1. w = [x \in {u, v} |-> IF x = u THEN Fresh(1) ELSE Fresh(2)]
    BY <1>5 DEF Watches
  <2>2. u \in StatsUrls /\ v \in AnomalyUrls /\ Asks(AnomaliesLoad(DashboardConfig), v)
    BY <1>3, LoadedUrl
  <2>3. anomalies' = AnomaliesLoad(DashboardConfig)
    BY <1>5 DEF Open
  <2>. HIDE DEF u, v
  <2>4. w \in [{u, v} -> Requests]
    <3>1. Registered(w) \subseteq Requests /\ DOMAIN w = {u, v}
      BY <1>1, <2>1 DEF WatchApi, IsNew
    <3>. QED BY <2>1, <3>1 DEF Registered
  <2>5. {u, v} \in SUBSET Urls
    BY <2>2, UrlsApart
  <2>. HIDE DEF w
  <2>6. WatchApi(Unloads(scene), w)
    BY <1>1 DEF w
  <2>7. WatchersOK' /\ AnswersOK' /\ Watched' = {u, v}
    BY <1>2, <2>4, <2>5, <2>6, WatchesMany DEF ClientInv
  <2>8. AnomaliesOK'
    BY <1>1, <1>5, <2>3, BlankTyped DEF ClientInv, AnomaliesOK, Configs
  <2>9. Watched' \cap StatsUrls = {u} /\ Watched' \cap AnomalyUrls = {v}
    BY <2>2, <2>7, UrlsApart
  <2>10. PageOK'
    <3>1. Asks(anomalies', v)
      BY <2>2, <2>3
    <3>2. scene' \in ShowsAnomalies /\ scene' = "dashboard"
      BY <1>1, <1>5 DEF ShowsAnomalies
    <3>. QED BY <2>2, <2>9, <3>1, <3>2 DEF PageOK, u
  <2>. QED BY <1>4, <2>7, <2>8, <2>10 DEF ClientInv
<1>6. CASE page = "traffic"
  <2>1. PICK u, r : u = StatsUrl(dnsstats.timeRange, dnsstats.server) /\ r = Fresh(1)
    OBVIOUS
  <2>2. u \in StatsUrls
    BY <1>3, <2>1 DEF ClientInv, StatsOK
  <2>3. WatchApi(Unloads(scene), Watch(u, r))
    BY <1>1, <1>6, <2>1 DEF Watches
  <2>4. WatchersOK' /\ AnswersOK' /\ Watched' = {u}
    BY <1>2, <2>2, <2>3, UrlsApart, WatchesOne DEF ClientInv
  <2>5. anomalies' \in {anomalies, AnomaliesUnload}
    BY <1>6 DEF Open
  <2>6. AnomaliesOK'
    <3>1. AnomaliesTyped(anomalies) => AnomaliesTyped(AnomaliesUnload) /\ AnomaliesUnload.result = NONE
      BY DEF AnomaliesTyped, AnomaliesUnload
    <3>. QED BY <1>1, <1>6, <2>5, <3>1 DEF ClientInv, AnomaliesOK
  <2>7. Watched' \cap StatsUrls = {u} /\ Watched' \cap AnomalyUrls = {}
    BY <2>2, <2>4, UrlsApart
  <2>8. PageOK'
    <3>1. scene' = "traffic" /\ scene' \notin ShowsAnomalies
      BY <1>1, <1>6 DEF ShowsAnomalies
    <3>2. u = StatsUrl(dnsstats'.timeRange, dnsstats'.server)
      BY <1>4, <2>1
    <3>. QED BY <2>7, <3>1, <3>2 DEF PageOK
  <2>. QED BY <1>4, <2>4, <2>6, <2>8 DEF ClientInv
<1>7. CASE page = "anomalies"
  <2>1. PICK u, r : u = buildParams(AnomaliesLoad(PageConfig)) /\ r = Fresh(1)
    OBVIOUS
  <2>2. u \in AnomalyUrls /\ Asks(AnomaliesLoad(PageConfig), u)
    BY <2>1, LoadedUrl
  <2>3. WatchApi(Unloads(scene), Watch(u, r))
    BY <1>1, <1>7, <2>1 DEF Watches
  <2>4. WatchersOK' /\ AnswersOK' /\ Watched' = {u}
    BY <1>2, <2>2, <2>3, UrlsApart, WatchesOne DEF ClientInv
  <2>5. anomalies' = AnomaliesLoad(PageConfig)
    BY <1>7 DEF Open
  <2>6. AnomaliesOK'
    <3>1. PageConfig.sort \in Sort /\ PageConfig \in Configs
      BY AnomaliesAssumption DEF PageConfig, NoConfig, Configs
    <3>. QED BY <1>1, <2>5, <3>1, BlankTyped DEF ClientInv, AnomaliesOK
  <2>7. Watched' \cap StatsUrls = {} /\ Watched' \cap AnomalyUrls = {u}
    BY <2>2, <2>4, UrlsApart
  <2>8. PageOK'
    <3>1. scene' = "anomalies" /\ scene' \in ShowsAnomalies
      BY <1>1, <1>7 DEF ShowsAnomalies
    <3>2. Asks(anomalies', u)
      BY <2>2, <2>5
    <3>. QED BY <2>2, <2>7, <3>1, <3>2 DEF PageOK
  <2>. QED BY <1>4, <2>4, <2>6, <2>8 DEF ClientInv
<1>. QED BY <1>1, <1>5, <1>6, <1>7

\* Leaving for a page that watches nothing, or for one that breaks at once.
LEMMA LeaveKeeps ==
  ASSUME ClientInv, NEW page \in {"detail", "other"}, NEW got, Leave(page, got)
  PROVE  ClientInv'
<1>1. ~broken /\ UnwatchApi(Unloads(scene)) /\ scene' = page /\ stored' = stored
  BY DEF Leave
<1>2. Watched \ Unloads(scene) = {} /\ Unloads(scene) \in SUBSET Urls
  BY <1>1, Unloaded DEF ClientInv
<1>3. WatchersOK' /\ AnswersOK' /\ Watched' = {}
  BY <1>1, <1>2, Unwatches DEF ClientInv
<1>4. StatsOK'
  <2>1. dnsstats' \in {dnsstats, StatsLoad, StatsUnload}
    BY DEF Leave
  <2>. QED BY <2>1, StatsKept DEF ClientInv, StatsOK
<1>5. AnomaliesOK'
  <2>1. anomalies' \in {anomalies, AnomaliesUnload} /\ scene' # "anomalies"
    BY <1>1 DEF Leave
  <2>2. AnomaliesTyped(anomalies) => AnomaliesTyped(AnomaliesUnload) /\ AnomaliesUnload.result = NONE
    BY DEF AnomaliesTyped, AnomaliesUnload
  <2>. QED BY <1>1, <2>1, <2>2 DEF ClientInv, AnomaliesOK
<1>6. PageOK'
  BY <1>1, <1>3 DEF PageOK, ShowsAnomalies
<1>. QED BY <1>3, <1>4, <1>5, <1>6 DEF ClientInv

LEMMA OpenBreaksKeeps ==
  ASSUME ClientInv, OpenBreaks
  PROVE  ClientInv'
<1>1. /\ UnwatchApi(Unloads(scene)) /\ scene' = "traffic" /\ broken'
      /\ UNCHANGED <<statsVars, anomaliesVars>> /\ Unloads(scene) \in SUBSET Urls
  BY UrlsApart DEF OpenBreaks, Unloads
<1>2. WatchersOK' /\ AnswersOK'
  BY <1>1, Unwatches DEF ClientInv
<1>. QED BY <1>1, <1>2 DEF ClientInv, StatsOK, AnomaliesOK, PageOK, statsVars, anomaliesVars

\* Another range or server on the page of the traffic.
LEMMA TrafficKeeps ==
  ASSUME ClientInv, TrafficStep
  PROVE  ClientInv'
<1>1. /\ scene = "traffic" /\ scene' = scene /\ ~broken /\ broken' = broken
      /\ UNCHANGED anomaliesVars
  BY DEF TrafficStep, OnPage, May
<1>2. PICK timeRange, server, r :
        /\ timeRange \in TimeRange /\ server \in Server
        /\ WatchApi(StatsUrls, Watch(StatsUrl(timeRange, server), r))
        /\ dnsstats' \in [status : {dnsstats'.status}, timeRange : TimeRange, server : Server,
                          stats : {dnsstats'.stats}, error : {dnsstats'.error}]
        /\ dnsstats'.timeRange = timeRange /\ dnsstats'.server = server
  <2>0. StatsOK
    BY DEF ClientInv
  <2>1. ASSUME NEW t \in TimeRange, ChangeTimeRange(t, Fresh(1))
        PROVE  /\ WatchApi(StatsUrls, Watch(StatsUrl(t, dnsstats.server), Fresh(1)))
               /\ dnsstats' \in [status : {dnsstats'.status}, timeRange : TimeRange, server : Server,
                                 stats : {dnsstats'.stats}, error : {dnsstats'.error}]
               /\ dnsstats'.timeRange = t /\ dnsstats'.server = dnsstats.server
               /\ dnsstats.server \in Server
    BY <2>0, <2>1 DEF ChangeTimeRange, StatsOK
  <2>2. ASSUME NEW s \in Server, SetServer(s, Fresh(1))
        PROVE  /\ WatchApi(StatsUrls, Watch(StatsUrl(dnsstats.timeRange, s), Fresh(1)))
               /\ dnsstats' \in [status : {dnsstats'.status}, timeRange : TimeRange, server : Server,
                                 stats : {dnsstats'.stats}, error : {dnsstats'.error}]
               /\ dnsstats'.timeRange = dnsstats.timeRange /\ dnsstats'.server = s
               /\ dnsstats.timeRange \in TimeRange
    BY <2>0, <2>2 DEF SetServer, StatsOK
  <2>3. \/ \E t \in TimeRange : ChangeTimeRange(t, Fresh(1))
        \/ \E s \in Server : SetServer(s, Fresh(1))
    BY DEF TrafficStep
  <2>. QED BY <2>1, <2>2, <2>3
<1>3. PICK u : u = StatsUrl(timeRange, server)
  OBVIOUS
<1>4. u \in StatsUrls
  BY <1>2, <1>3 DEF StatsUrl, StatsUrls
<1>5. WatchersOK' /\ AnswersOK' /\ Watched' = (Watched \ StatsUrls) \cup {u}
  BY <1>2, <1>3, <1>4, UrlsApart, WatchesOne DEF ClientInv
<1>6. Watched' \cap StatsUrls = {u} /\ Watched' \cap AnomalyUrls = {}
  BY <1>1, <1>4, <1>5, UrlsApart DEF ClientInv, PageOK, ShowsAnomalies
<1>7. StatsOK'
  BY <1>2 DEF StatsOK
<1>8. AnomaliesOK'
  BY <1>1 DEF ClientInv, AnomaliesOK, anomaliesVars
<1>9. PageOK'
  <2>1. u = StatsUrl(dnsstats'.timeRange, dnsstats'.server)
    BY <1>2, <1>3
  <2>. QED BY <1>1, <1>6, <2>1 DEF PageOK, ShowsAnomalies
<1>. QED BY <1>5, <1>7, <1>8, <1>9 DEF ClientInv

\* Another url of the list for its page.
LEMMA ListChanged ==
  ASSUME ClientInv, scene = "anomalies", ~broken, UNCHANGED <<stored, statsVars, scene, broken>>,
         AnomaliesTyped(anomalies'), anomalies'.config = PageConfig, anomalies'.sort \in Sort,
         anomalies'.result = anomalies.result,
         NEW u \in AnomalyUrls, Asks(anomalies', u), NEW r, WatchApi(AnomalyUrls, Watch(u, r))
  PROVE  ClientInv'
<1>1. WatchersOK' /\ AnswersOK' /\ Watched' = (Watched \ AnomalyUrls) \cup {u}
  BY UrlsApart, WatchesOne DEF ClientInv
<1>2. Watched' \cap StatsUrls = {} /\ Watched' \cap AnomalyUrls = {u}
  BY <1>1, UrlsApart DEF ClientInv, PageOK
<1>3. StatsOK'
  BY DEF ClientInv, StatsOK, statsVars
<1>4. AnomaliesOK'
  BY DEF ClientInv, AnomaliesOK
<1>5. PageOK'
  BY <1>2 DEF PageOK, ShowsAnomalies
<1>. QED BY <1>1, <1>3, <1>4, <1>5 DEF ClientInv

\* Another filter, order, search, range or whitelist, or more of the list.
LEMMA RefineKeeps ==
  ASSUME ClientInv, RefineStep
  PROVE  ClientInv'
<1>1. /\ scene = "anomalies" /\ ~broken /\ UNCHANGED <<statsVars, scene, broken>>
      /\ AnomaliesTyped(anomalies) /\ anomalies.config = PageConfig /\ anomalies.sort \in Sort
  BY DEF RefineStep, OnPage, May, ClientInv, AnomaliesOK
<1>2. ASSUME NEW a, NEW r, AnomaliesTyped(a), a.config = PageConfig, a.sort \in Sort,
             a.result = anomalies.result, Refine(a, r)
      PROVE  ClientInv'
  <2>1. PICK u : u = buildParams(a)
    OBVIOUS
  <2>2. u \in AnomalyUrls /\ Asks(a, u)
    BY <1>2, <2>1, ParamsAreUrl
  <2>3. WatchApi(AnomalyUrls, Watch(u, r)) /\ anomalies' = a /\ stored' = stored
    BY <1>2, <2>1 DEF Refine
  <2>. QED BY <1>1, <1>2, <2>2, <2>3, ListChanged
<1>3. ASSUME NEW name \in {"type", "server"}, NEW value \in FilterOf[name] \cup {NONE},
             FilterAnomalies(name, value, Fresh(1))
      PROVE  ClientInv'
  <2> DEFINE others == {f \in anomalies.filter : f[1] # name}
             picked == IF value = NONE THEN others ELSE others \cup {<<name, value>>}
             a == [anomalies EXCEPT !.filter = picked]
  <2>1. picked \in Filter
    <3>0. anomalies.filter \in Filter
      BY <1>1 DEF AnomaliesTyped
    <3>1. <<name, value>>[1] = name
      OBVIOUS
    <3>2. value # NONE => <<name, value>> \in {"type"} \X FilterOf["type"] \cup {"server"} \X FilterOf["server"]
      BY <1>3
    <3>. QED BY <3>0, <3>1, <3>2 DEF Filter
  <2>. HIDE DEF picked
  <2>2. AnomaliesTyped(a) /\ a.config = PageConfig /\ a.sort \in Sort /\ a.result = anomalies.result
    BY <1>1, <2>1 DEF AnomaliesTyped
  <2>3. Refine(a, Fresh(1))
    BY <1>3 DEF FilterAnomalies, picked
  <2>. HIDE DEF a
  <2>. QED BY <1>2, <2>2, <2>3
<1>4. ASSUME NEW sort \in Sort, SortAnomalies(sort, Fresh(1)) PROVE ClientInv'
  <2> DEFINE a == [anomalies EXCEPT !.sort = sort]
  <2>1. AnomaliesTyped(a) /\ a.config = PageConfig /\ a.sort \in Sort /\ a.result = anomalies.result
    BY <1>1 DEF AnomaliesTyped
  <2>2. Refine(a, Fresh(1))
    BY <1>4 DEF SortAnomalies
  <2>. HIDE DEF a
  <2>. QED BY <1>2, <2>1, <2>2
<1>5. ASSUME NEW query \in SearchText \cup {NONE}, QueryAnomalies(query, Fresh(1)) PROVE ClientInv'
  <2> DEFINE a == [anomalies EXCEPT !.query = query]
  <2>1. AnomaliesTyped(a) /\ a.config = PageConfig /\ a.sort \in Sort /\ a.result = anomalies.result
    BY <1>1 DEF AnomaliesTyped
  <2>2. Refine(a, Fresh(1))
    BY <1>5 DEF QueryAnomalies
  <2>. HIDE DEF a
  <2>. QED BY <1>2, <2>1, <2>2
<1>6. ASSUME DisableWhitelist(Fresh(1)) PROVE ClientInv'
  <2> DEFINE a == [anomalies EXCEPT !.disable_whitelist = ~@]
  <2>1. AnomaliesTyped(a) /\ a.config = PageConfig /\ a.sort \in Sort /\ a.result = anomalies.result
    BY <1>1 DEF AnomaliesTyped
  <2>2. Refine(a, Fresh(1))
    BY <1>6 DEF DisableWhitelist
  <2>. HIDE DEF a
  <2>. QED BY <1>2, <2>1, <2>2
<1>7. ASSUME NEW end \in {"from", "to"}, NEW time \in Time, FilterTimeRange(end, time, Fresh(1))
      PROVE  ClientInv'
  <2> DEFINE a == [anomalies EXCEPT ![end] = time]
  <2>1. AnomaliesTyped(a) /\ a.config = PageConfig /\ a.sort \in Sort /\ a.result = anomalies.result
    BY <1>1 DEF AnomaliesTyped
  <2>2. PICK u : u = buildParams([a EXCEPT !.disable_whitelist = FALSE])
    OBVIOUS
  <2>3. WatchApi(AnomalyUrls, Watch(u, Fresh(1))) /\ anomalies' = a /\ stored' = stored
    BY <1>7, <2>2 DEF FilterTimeRange
  <2>. HIDE DEF a
  <2>4. u = ListUrl(a, FALSE, pageSize)
    <3>1. PICK b : b = [a EXCEPT !.disable_whitelist = FALSE]
      OBVIOUS
    <3>2. /\ b.query = a.query /\ b.filter = a.filter /\ b.sort = a.sort /\ b.from = a.from
          /\ b.to = a.to /\ b.config = a.config /\ b.disable_whitelist = FALSE
      BY <2>1, <3>1 DEF AnomaliesTyped
    <3>. QED BY <2>2, <3>1, <3>2 DEF buildParams, ListUrl, Url
  <2>5. pageSize \in pageSize..pageSize + Cardinality(Subjects) - 1
    BY SubjectsFinite, AnomaliesAssumption
  <2>6. u \in AnomalyUrls
    BY <2>1, <2>4, <2>5, ListUrlTyped
  <2>7. Asks(a, u)
    BY <2>4, ListUrlAsks
  <2>. QED BY <1>1, <2>1, <2>3, <2>6, <2>7, ListChanged
<1>8. ASSUME MoreAnomalies(Fresh(1)) PROVE ClientInv'
  <2>1. PICK n, u : /\ n = Len(anomalies.result.items) + pageSize
                    /\ u = [buildParams(anomalies) EXCEPT !.count = n]
    OBVIOUS
  <2>2. /\ WatchApi(AnomalyUrls, Watch(u, Fresh(1)))
        /\ anomalies.result # NONE /\ \E s \in Sections : s.more
        /\ UNCHANGED anomaliesVars
    BY <1>8, <2>1 DEF MoreAnomalies
  <2>3. Len(anomalies.result.items) < anomalies.result.total
    <3>1. \A s \in Sections : \E c : s = [items |-> SubSeq(anomalies.result.items, c[1] + 1, c[2]),
                                          more |-> Offered(c[2])]
      BY Zenon DEF Sections
    <3>2. PICK m : Offered(m)
      <4>1. PICK s \in Sections : s.more
        BY <2>2
      <4>2. PICK c : s = [items |-> SubSeq(anomalies.result.items, c[1] + 1, c[2]),
                          more |-> Offered(c[2])]
        BY <3>1
      <4>3. s.more = Offered(c[2])
        BY <4>2, Zenon
      <4>. QED BY <4>1, <4>3
    <3>. QED BY <3>2 DEF Offered
  <2>4. n \in pageSize..pageSize + Cardinality(Subjects) - 1
    <3>1. PICK k, total, p, c : /\ k = Len(anomalies.result.items) /\ total = anomalies.result.total
                                /\ p = pageSize /\ c = Cardinality(Subjects)
      OBVIOUS
    <3>2. k \in Nat /\ total \in Nat /\ total <= c /\ k < total /\ p \in Nat /\ c \in Nat /\ n = k + p
      BY <2>1, <2>2, <2>3, <3>1, SubjectsFinite, AnomaliesAssumption
         DEF ClientInv, AnomaliesOK, IsListing
    <3>3. n \in p..p + c - 1
      BY ONLY <3>2
    <3>. QED BY <3>1, <3>3
  <2>5. u = ListUrl(anomalies, anomalies.disable_whitelist, n)
    BY <2>1 DEF buildParams, ListUrl, Url
  <2>6. anomalies.disable_whitelist \in BOOLEAN
    BY <1>1 DEF AnomaliesTyped
  <2>7. u \in AnomalyUrls /\ Asks(anomalies, u)
    BY <1>1, <2>4, <2>5, <2>6, ListUrlTyped, ListUrlAsks
  <2>. QED BY <1>1, <2>2, <2>7, ListChanged DEF anomaliesVars
<1>. QED BY <1>3, <1>4, <1>5, <1>6, <1>7, <1>8 DEF RefineStep

-----------------------------------------------------------------------------
(* Server and callbacks *)

\* A step that leaves the watchers and the parameters of the stores alone.
LEMMA ShownKeeps ==
  ASSUME PageOK, Watched' = Watched, scene' = scene, broken => broken',
         StatsOK, dnsstats'.timeRange = dnsstats.timeRange, dnsstats'.server = dnsstats.server,
         buildParams(anomalies') = buildParams(anomalies)
  PROVE  PageOK'
BY DEF PageOK, Asks

\* The parameters of a list do not depend on what it shows.
LEMMA ResultApart ==
  ASSUME NEW a, AnomaliesTyped(a), NEW listing
  PROVE  LET b == [a EXCEPT !.result = listing]
         IN  /\ AnomaliesTyped(b) /\ b.result = listing /\ b.config = a.config /\ b.sort = a.sort
             /\ buildParams(b) = buildParams(a)
<1> DEFINE b == [a EXCEPT !.result = listing]
<1>1. AnomaliesTyped(b) /\ b.result = listing /\ b.config = a.config /\ b.sort = a.sort
      /\ b.query = a.query /\ b.filter = a.filter /\ b.from = a.from /\ b.to = a.to
      /\ b.disable_whitelist = a.disable_whitelist
  BY DEF AnomaliesTyped
<1>. HIDE DEF b
<1>2. buildParams(b) = buildParams(a)
  BY <1>1 DEF buildParams
<1>. QED BY <1>1, <1>2 DEF b

\* Polls, answers and losses on the way.
LEMMA ServerKeeps ==
  ASSUME ClientInv,
         \/ Poll
         \/ \E r \in Requests : AnswerOk(r) \/ Lose(r)
  PROVE  ClientInv'
<1>1. UNCHANGED <<statsVars, anomaliesVars, scene, broken>>
  BY DEF Poll, AnswerOk, Lose
<1>2. WatchersOK' /\ AnswersOK' /\ Watched' = Watched
  BY Answering DEF Poll, AnswerOk, Lose, ClientInv, AnomaliesOK
<1>. QED BY <1>1, <1>2, ShownKeeps DEF ClientInv, StatsOK, AnomaliesOK, statsVars, anomaliesVars

LEMMA PostKeeps ==
  ASSUME ClientInv, PostStep
  PROVE  ClientInv'
<1>1. UNCHANGED <<watcherVars, statsVars, scene, broken, anomalies>>
      /\ stored' \in SUBSET Event
  BY DEF PostStep, PostAnomaly, ClientInv, AnomaliesOK
<1>2. WatchersOK' /\ AnswersOK' /\ Watched' = Watched
  BY <1>1 DEF watcherVars, ClientInv, WatchersOK, AnswersOK, Watched, created, TimerWhileRequests,
              EveryRequestCanBeStopped
<1>. QED BY <1>1, <1>2, ShownKeeps DEF ClientInv, StatsOK, AnomaliesOK, statsVars

\* An answer changes what a store shows and not what it asks for.
LEMMA SuccessKeeps ==
  ASSUME ClientInv, NEW r \in Requests, OnSuccess(r)
  PROVE  ClientInv'
<1>1. /\ Deliver(r, {}) /\ reply[r] \notin {NONE, LOST}
      /\ UNCHANGED <<stored, scene, broken>>
  BY DEF OnSuccess
<1>2. WatchersOK' /\ AnswersOK' /\ Watched' = Watched
  BY <1>1, Answering DEF ClientInv, AnomaliesOK
<1>3. StatsOK' /\ dnsstats'.timeRange = dnsstats.timeRange /\ dnsstats'.server = dnsstats.server
  <2>1. dnsstats' \in {dnsstats, StatsSuccess(reply[r])}
    BY DEF OnSuccess
  <2>. QED BY <2>1, StatsKept DEF ClientInv, StatsOK
<1>4. AnomaliesOK' /\ buildParams(anomalies') = buildParams(anomalies)
  <2>1. CASE uri[r] \in AnomalyUrls
    <3>1. anomalies' = [anomalies EXCEPT !.result = reply[r]]
      BY <2>1 DEF OnSuccess, AnomaliesSuccess
    <3>2. IsListing(reply[r])
      BY <1>1, <2>1 DEF ClientInv, AnswersOK
    <3>. QED BY <1>1, <3>1, <3>2, ResultApart DEF ClientInv, AnomaliesOK
  <2>2. CASE uri[r] \notin AnomalyUrls
    BY <1>1, <2>2 DEF OnSuccess, ClientInv, AnomaliesOK
  <2>. QED BY <2>1, <2>2
<1>5. PageOK'
  BY <1>1, <1>2, <1>3, <1>4, ShownKeeps DEF ClientInv
<1>. QED BY <1>2, <1>3, <1>4, <1>5 DEF ClientInv

LEMMA ErrorKeeps ==
  ASSUME ClientInv, NEW r \in Requests, OnError(r)
  PROVE  ClientInv'
<1>1. /\ Deliver(r, {}) \/ DeliverThrows(r)
      /\ UNCHANGED <<anomaliesVars, scene>> /\ (broken => broken')
  BY DEF OnError
<1>2. WatchersOK' /\ AnswersOK' /\ Watched' = Watched
  BY <1>1, Answering DEF ClientInv, AnomaliesOK
<1>3. StatsOK' /\ dnsstats'.timeRange = dnsstats.timeRange /\ dnsstats'.server = dnsstats.server
  <2>1. dnsstats' \in {dnsstats, StatsFailure}
    BY DEF OnError
  <2>. QED BY <2>1, StatsKept DEF ClientInv, StatsOK
<1>. QED BY <1>1, <1>2, <1>3, ShownKeeps DEF ClientInv, AnomaliesOK, anomaliesVars

\* The fetch of TrafficDetail.
LEMMA DetailKeeps ==
  ASSUME ClientInv, NEW g, DetailAnswered(g) \/ DetailFailed(g)
  PROVE  ClientInv'
<1>0. broken => broken'
  BY Zenon DEF DetailAnswered, DetailFailed
<1>1. UNCHANGED <<watcherVars, anomaliesVars, scene>>
  BY DEF DetailAnswered, DetailFailed
<1>2. WatchersOK' /\ AnswersOK' /\ Watched' = Watched
  BY <1>1 DEF watcherVars, ClientInv, WatchersOK, AnswersOK, Watched, created, TimerWhileRequests,
              EveryRequestCanBeStopped
<1>3. StatsOK' /\ dnsstats'.timeRange = dnsstats.timeRange /\ dnsstats'.server = dnsstats.server
  <2>1. dnsstats' \in {StatsSuccess(FindAt(g)), StatsFailure}
    BY DEF DetailAnswered, DetailFailed
  <2>. QED BY <2>1, StatsKept DEF ClientInv, StatsOK
<1>. QED BY <1>0, <1>1, <1>2, <1>3, ShownKeeps DEF ClientInv, AnomaliesOK, anomaliesVars
-----------------------------------------------------------------------------
(* The theorems *)

\* The watchers, the stores and the mounted page agree at every step.
THEOREM ClientInvariant == Spec => []ClientInv
<1>1. Init => ClientInv
  <2> SUFFICES ASSUME Init PROVE ClientInv
    OBVIOUS
  <2>1. WatchersOK /\ AnswersOK /\ Watched = {}
    BY WatcherAssumption
       DEF Init, WatcherInit, WatchersOK, AnswersOK, Watched, created, TimerWhileRequests,
           EveryRequestCanBeStopped
  <2>2. StatsOK
    BY DnsStatsAssumption DEF Init, StatsInit, StatsOK
  <2>3. AnomaliesOK
    <3>1. PageConfig \in Configs
      BY DEF Configs
    <3>. QED BY <3>1, BlankTyped DEF Init, AnomaliesInit, AnomaliesOK
  <2>4. PageOK
    BY <2>1 DEF Init, PageOK, ShowsAnomalies
  <2>. QED BY <2>1, <2>2, <2>3, <2>4 DEF ClientInv
<1>2. ClientInv /\ [Next]_vars => ClientInv'
  <2> SUFFICES ASSUME ClientInv, [Next]_vars PROVE ClientInv'
    OBVIOUS
  <2>1. ASSUME UserStep PROVE ClientInv'
    <3>1. LeaveForOther => ClientInv'
      BY LeaveKeeps DEF LeaveForOther
    <3>2. \A w \in Window : OpenDetail(w) => ClientInv'
      BY LeaveKeeps DEF OpenDetail
    <3>. QED BY <2>1, <3>1, <3>2, OpenKeeps, OpenBreaksKeeps, TrafficKeeps, RefineKeeps DEF UserStep
  <2>2. CASE UNCHANGED vars
    BY <2>2 DEF vars, watcherVars, statsVars, anomaliesVars, ClientInv, WatchersOK, AnswersOK,
                Watched, created, TimerWhileRequests, EveryRequestCanBeStopped, StatsOK, AnomaliesOK,
                PageOK
  <2>. QED BY <2>1, <2>2, PostKeeps, ServerKeeps, SuccessKeeps, ErrorKeeps, DetailKeeps DEF Next
<1>. QED BY <1>1, <1>2, PTL DEF Spec

\* What is polled is what the mounted page shows.
THEOREM PagesWatchTheirUrls == Spec => []WatchesMatchPage
<1>1. ClientInv => WatchesMatchPage
  <2> SUFFICES ASSUME ClientInv, ~broken PROVE WatchesMatchPage
    BY DEF WatchesMatchPage
  <2>1. CASE scene \in ShowsAnomalies
    <3>1. PICK u \in AnomalyUrls : Watched \cap AnomalyUrls = {u} /\ Asks(anomalies, u)
      BY <2>1 DEF ClientInv, PageOK
    <3>2. Cardinality(Watched \cap AnomalyUrls) = 1
      BY <3>1, FS_Singleton
    <3>. QED BY <2>1, <3>1, <3>2 DEF WatchesMatchPage, ClientInv, PageOK, Asks, Changed
  <2>2. CASE scene \notin ShowsAnomalies
    <3>1. Watched \cap AnomalyUrls = {}
      BY <2>2 DEF ClientInv, PageOK
    <3>2. Cardinality(Watched \cap AnomalyUrls) = 0
      BY <3>1, FS_EmptySet
    <3>. QED BY <2>2, <3>1, <3>2 DEF WatchesMatchPage, ClientInv, PageOK
  <2>. QED BY <2>1, <2>2
<1>. QED BY <1>1, ClientInvariant, PTL

\* The pages use the watcher so that its invariants hold in the composition.
THEOREM PagesPollWhileTheyWatch == Spec => [](TimerWhileRequests /\ EveryRequestCanBeStopped)
<1>1. ClientInv => TimerWhileRequests /\ EveryRequestCanBeStopped
  BY DEF ClientInv, WatchersOK
<1>. QED BY <1>1, ClientInvariant, PTL

-----------------------------------------------------------------------------
(* The list *)

\* The sections take the items from the first to the last, none going back: the
\* recursion of TakenBy has a solution, and every solution does.
LEMMA TakenIs ==
  ASSUME NEW items, Len(items) \in Nat
  PROVE  LET N == Len(SECTIONS)
             taken == TakenBy(items)
         IN  /\ taken[0] = 0 /\ taken[N + 1] = Len(items)
             /\ \A k \in 0..N + 1 : taken[k] \in 0..Len(items)
             /\ \A j, k \in 0..N + 1 : j <= k => taken[j] <= taken[k]
<1>1. PICK L, N : L = Len(items) /\ N = Len(SECTIONS)
  OBVIOUS
<1>2. L \in Nat /\ N \in Nat /\ N + 1 \in Nat
  BY <1>1, AnomaliesAssumption
<1> DEFINE Goes(k, a) == {n \in a..L : \A i \in a + 1..n :
                                   InOrder(items[i].most_recent, SECTIONS[k], anomalies.sort[2])}
           Body(t) == [k \in 0..N + 1 |-> IF k = 0 THEN 0
                                          ELSE IF k > N THEN L
                                          ELSE Max(Goes(k, t[k - 1]))]
           taken == CHOOSE t : t = Body(t)
<1>3. TakenBy(items) = taken
  BY <1>1, Zenon DEF TakenBy
<1>4. ASSUME NEW k, NEW a \in 0..L PROVE Max(Goes(k, a)) \in a..L
  <2>1. a \in Goes(k, a)
    BY <1>2
  <2>2. Goes(k, a) \in SUBSET (0..L) /\ Goes(k, a) \in SUBSET (a..L)
    BY <1>2
  <2>. HIDE DEF Goes
  <2>3. \E x \in Goes(k, a) : \A y \in Goes(k, a) : x >= y
    BY <1>2, <2>1, <2>2, Greatest
  <2>4. Max(Goes(k, a)) \in Goes(k, a)
    BY <2>3 DEF Max
  <2>. QED BY <2>2, <2>4
<1>. HIDE DEF Goes
<1>5. taken = Body(taken)
  <2> DEFINE next == [k \in 1..N + 1 |-> [a \in 0..L |-> IF k > N THEN L ELSE Max(Goes(k, a))]]
  <2>1. \A k \in 1..N + 1 : \A a \in 0..L : (IF k > N THEN L ELSE Max(Goes(k, a))) \in 0..L
    BY <1>2, <1>4
  <2>2. next \in [1..N + 1 -> [0..L -> 0..L]]
    BY <2>1
  <2>3. 0 \in 0..L
    BY <1>2
  <2>. HIDE DEF next
  <2>4. PICK f \in [0..N + 1 -> 0..L] : f[0] = 0 /\ \A k \in 1..N + 1 : f[k] = next[k][f[k - 1]]
    <3>1. \E f : Iterated(f, N + 1, 0..L, 0, next)
      BY <1>2, <2>2, <2>3, Iterates
    <3>. QED BY <3>1 DEF Iterated
  <2>5. ASSUME NEW k \in 1..N + 1
        PROVE  f[k] = IF k > N THEN L ELSE Max(Goes(k, f[k - 1]))
    <3>1. f[k - 1] \in 0..L
      BY <1>2, <2>4
    <3>. QED BY <2>4, <3>1 DEF next
  <2>6. \A k \in 0..N + 1 : f[k] = IF k = 0 THEN 0 ELSE IF k > N THEN L ELSE Max(Goes(k, f[k - 1]))
    <3>1. \A k \in 0..N + 1 : k = 0 \/ k \in 1..N + 1
      BY <1>2
    <3>. QED BY <2>4, <2>5, <3>1
  <2>7. f = Body(f)
    BY <2>4, <2>6
  <2>. HIDE DEF Body
  <2>. QED BY <2>7
<1>. HIDE DEF taken
<1>6. /\ taken[0] = 0
      /\ \A k \in 1..N + 1 : taken[k] = IF k > N THEN L ELSE Max(Goes(k, taken[k - 1]))
  BY <1>2, <1>5
<1>7. taken[N + 1] = L
  BY <1>2, <1>6
<1>8. \A k \in 0..N : taken[k] \in 0..L => taken[k + 1] \in taken[k]..L
  <2> SUFFICES ASSUME NEW k \in 0..N, taken[k] \in 0..L PROVE taken[k + 1] \in taken[k]..L
    OBVIOUS
  <2>1. k + 1 \in 1..N + 1 /\ k + 1 - 1 = k
    BY <1>2
  <2>2. taken[k + 1] = IF k + 1 > N THEN L ELSE Max(Goes(k + 1, taken[k]))
    BY <1>6, <2>1
  <2>. QED BY <1>2, <1>4, <2>2
<1>9. \A k \in 0..N + 1 : taken[k] \in 0..L
  <2> DEFINE T == {k \in 0..N + 1 : taken[k] \in 0..L}
  <2>1. 0 \in T
    BY <1>2, <1>6
  <2>2. \A k \in 0..N + 1 : k < N + 1 /\ k \in T => k + 1 \in T
    BY <1>2, <1>8
  <2>. HIDE DEF T
  <2>3. 0..N + 1 \subseteq T
    BY <1>2, <2>1, <2>2, UpTo
  <2>. QED BY <2>3 DEF T
<1>10. ASSUME NEW j \in 0..N + 1, NEW k \in 0..N + 1, j <= k
       PROVE  taken[j] <= taken[k]
  <2> DEFINE T == {n \in 0..N + 1 : j <= n => taken[j] <= taken[n]}
  <2>1. 0 \in T
    <3>1. j <= 0 => j = 0
      BY <1>2
    <3>. QED BY <1>2, <1>6, <3>1
  <2>2. ASSUME NEW n \in 0..N + 1, n < N + 1, n \in T PROVE n + 1 \in T
    <3>1. taken[n] \in 0..L /\ taken[j] \in 0..L /\ taken[n + 1] \in taken[n]..L /\ n + 1 \in 0..N + 1
      BY <1>2, <1>8, <1>9, <2>2
    <3>2. CASE j <= n
      BY <1>2, <2>2, <3>1, <3>2
    <3>3. CASE j = n + 1
      BY <1>2, <3>1, <3>3
    <3>4. CASE j > n + 1
      BY <1>2, <3>1, <3>4
    <3>. QED BY <1>2, <3>2, <3>3, <3>4
  <2>3. \A n \in 0..N + 1 : n < N + 1 /\ n \in T => n + 1 \in T
    BY <2>2
  <2>. HIDE DEF T
  <2>4. 0..N + 1 \subseteq T
    BY <1>2, <2>1, <2>3, UpTo
  <2>. QED BY <1>10, <2>4 DEF T
<1>. QED BY <1>1, <1>3, <1>6, <1>7, <1>9, <1>10

\* The sections divide the items: each is in one of them.
LEMMA CutsDivide ==
  ASSUME NEW items, Len(items) \in Nat
  PROVE  /\ \A c \in Cuts(items) : /\ c = <<c[1], c[2]>>
                                    /\ c[1] \in 0..Len(items) /\ c[2] \in 0..Len(items)
         /\ \A i \in 1..Len(items) : \E c \in Cuts(items) : c[1] < i /\ i <= c[2]
         /\ \A i \in 1..Len(items) : \A c, d \in Cuts(items) :
              c[1] < i /\ i <= c[2] /\ d[1] < i /\ i <= d[2] => c = d
<1>1. PICK L, N, taken : L = Len(items) /\ N = Len(SECTIONS) /\ taken = TakenBy(items)
  OBVIOUS
<1>2. L \in Nat /\ N \in Nat /\ N + 1 \in Nat
  BY <1>1, AnomaliesAssumption
<1>3. /\ taken[0] = 0 /\ taken[N + 1] = L
      /\ \A k \in 0..N + 1 : taken[k] \in 0..L
      /\ \A j, k \in 0..N + 1 : j <= k => taken[j] <= taken[k]
  BY <1>1, TakenIs
<1> DEFINE recent == anomalies.sort # NONE /\ anomalies.sort[1] = "most_recent"
<1>4. Cuts(items) = IF recent
                      THEN {<<taken[k - 1], taken[k]>> : k \in 1..N + 1}
                      ELSE {<<0, L>>}
  BY <1>1 DEF Cuts
<1>. HIDE DEF recent
<1>5. CASE ~recent
  <2>1. Cuts(items) = {<<0, L>>}
    BY <1>4, <1>5
  <2>. QED BY <1>1, <1>2, <2>1
<1>6. CASE recent
  <2>1. \A c \in Cuts(items) : \E k \in 1..N + 1 : c = <<taken[k - 1], taken[k]>>
    BY <1>4, <1>6
  <2>2. \A k \in 1..N + 1 : k - 1 \in 0..N + 1 /\ k \in 0..N + 1
    BY <1>2
  <2>3. \A c \in Cuts(items) : c = <<c[1], c[2]>> /\ c[1] \in 0..L /\ c[2] \in 0..L
    BY <1>3, <2>1, <2>2
  <2>4. ASSUME NEW i \in 1..L
        PROVE  \E c \in Cuts(items) : c[1] < i /\ i <= c[2]
    <3> DEFINE T == {k \in 0..N + 1 : i <= taken[k]}
    <3>1. N + 1 \in T
      BY <1>2, <1>3
    <3>2. T \in SUBSET Nat /\ T # {}
      BY <3>1
    <3>3. PICK k \in T : \A j \in T : k <= j
      <4>. HIDE DEF T
      <4>. QED BY <3>2, Least
    <3>4. k # 0 /\ k \in 1..N + 1 /\ k - 1 \in 0..N + 1
      BY <1>2, <1>3
    <3>5. taken[k - 1] < i /\ i <= taken[k]
      BY <1>2, <1>3, <3>3, <3>4
    <3>6. <<taken[k - 1], taken[k]>> \in Cuts(items)
      BY <1>4, <1>6, <3>4
    <3>. QED BY <3>5, <3>6
  <2>5. ASSUME NEW i \in 1..L, NEW c \in Cuts(items), NEW d \in Cuts(items),
               c[1] < i, i <= c[2], d[1] < i, i <= d[2]
        PROVE  c = d
    <3>1. PICK j \in 1..N + 1 : c = <<taken[j - 1], taken[j]>>
      BY <2>1
    <3>2. PICK k \in 1..N + 1 : d = <<taken[k - 1], taken[k]>>
      BY <2>1
    <3>3. /\ taken[j - 1] < i /\ i <= taken[j] /\ taken[k - 1] < i /\ i <= taken[k]
          /\ {taken[j - 1], taken[j], taken[k - 1], taken[k]} \subseteq Nat
      BY <1>2, <1>3, <2>2, <2>5, <3>1, <3>2
    <3>4. ~(j <= k - 1)
      BY <1>2, <1>3, <2>2, <3>3
    <3>5. ~(k <= j - 1)
      BY <1>2, <1>3, <2>2, <3>3
    <3>6. j = k
      BY <1>2, <3>4, <3>5
    <3>. QED BY <3>1, <3>2, <3>6
  <2>. QED BY <1>1, <2>3, <2>4, <2>5
<1>. QED BY <1>5, <1>6

\* Whatever the order that the answer was made for and the one that the list is
\* in, each item of the answer is in one section, and more is offered exactly
\* when the server has more.
THEOREM EachItemIsShownOnce == Spec => []EveryItemShownOnce
<1>1. ClientInv => EveryItemShownOnce
  <2> SUFFICES ASSUME ClientInv, anomalies.result # NONE PROVE EveryItemShownOnce
    BY DEF EveryItemShownOnce
  <2>1. PICK items, total : items = anomalies.result.items /\ total = anomalies.result.total
    OBVIOUS
  <2>2. /\ Len(items) \in Nat /\ DOMAIN items = 1..Len(items)
        /\ \A i, j \in 1..Len(items) : items[i] = items[j] => i = j
    BY <2>1 DEF ClientInv, AnomaliesOK, IsListing
  <2> DEFINE C == {c \in Cuts(items) : c[1] < c[2]}
             section(c) == [items |-> SubSeq(items, c[1] + 1, c[2]), more |-> Offered(c[2])]
             Has(s, i) == \E k \in DOMAIN s.items : s.items[k] = items[i]
  <2>3. Sections = {section(c) : c \in C}
    BY <2>1 DEF Sections
  <2>4. /\ \A c \in Cuts(items) : c[1] \in 0..Len(items) /\ c[2] \in 0..Len(items)
        /\ \A i \in 1..Len(items) : \E c \in Cuts(items) : c[1] < i /\ i <= c[2]
        /\ \A i \in 1..Len(items) : \A c, d \in Cuts(items) :
             c[1] < i /\ i <= c[2] /\ d[1] < i /\ i <= d[2] => c = d
    BY <2>2, CutsDivide
  <2>5. ASSUME NEW c \in C, NEW i \in 1..Len(items)
        PROVE  Has(section(c), i) <=> c[1] < i /\ i <= c[2]
    <3>1. PICK a, b, part : a = c[1] /\ b = c[2] /\ part = SubSeq(items, a + 1, b)
      OBVIOUS
    <3>2. a \in 0..Len(items) /\ b \in 0..Len(items) /\ a < b
      BY <2>4, <3>1
    <3> DEFINE S == {items[k] : k \in 1..Len(items)}
    <3>3. \A k \in a + 1..b : items[k] \in S
      BY <2>2, <3>2
    <3>. HIDE DEF S
    <3>4. /\ part \in Seq(S) /\ Len(part) = IF a + 1 <= b THEN b - (a + 1) + 1 ELSE 0
          /\ \A k \in 1..b - (a + 1) + 1 : part[k] = items[a + 1 + k - 1]
      <4>1. a + 1 \in Int /\ b \in Int
        BY <2>2, <3>2
      <4>. QED BY <3>1, <3>3, <4>1, SubSeqProperties
    <3>5. DOMAIN part = 1..b - a /\ \A k \in 1..b - a : part[k] = items[a + k]
      <4>1. b - (a + 1) + 1 = b - a /\ Len(part) = b - a
        BY <2>2, <3>2, <3>4
      <4>2. \A k \in 1..b - a : a + 1 + k - 1 = a + k
        BY <2>2, <3>2
      <4>. QED BY <3>4, <4>1, <4>2
    <3>6. (\E k \in 1..b - a : part[k] = items[i]) <=> a < i /\ i <= b
      <4>1. ASSUME NEW k \in 1..b - a, part[k] = items[i] PROVE a < i /\ i <= b
        <5>1. a + k \in 1..Len(items) /\ a < a + k /\ a + k <= b
          BY <2>2, <3>2
        <5>2. a + k = i
          BY <2>2, <3>5, <4>1, <5>1
        <5>. QED BY <5>1, <5>2
      <4>2. ASSUME a < i, i <= b PROVE \E k \in 1..b - a : part[k] = items[i]
        <5>1. i - a \in 1..b - a /\ a + (i - a) = i
          BY <2>2, <3>2, <4>2
        <5>. QED BY <3>5, <5>1
      <4>. QED BY <4>1, <4>2
    <3>7. section(c).items = part
      BY <3>1
    <3>. QED BY <3>1, <3>5, <3>6, <3>7
  <2>6. ASSUME NEW i \in DOMAIN items
        PROVE  Cardinality({s \in Sections : Has(s, i)}) = 1
    <3>1. i \in 1..Len(items) /\ i \in Nat
      BY <2>2
    <3>2. PICK c \in Cuts(items) : c[1] < i /\ i <= c[2]
      BY <2>4, <3>1
    <3>3. c \in C
      <4>1. c[1] \in Nat /\ c[2] \in Nat
        BY <2>2, <2>4
      <4>. QED BY <3>1, <3>2, <4>1
    <3>4. \A d \in C : Has(section(d), i) <=> d = c
      BY <2>4, <2>5, <3>1, <3>2
    <3>. HIDE DEF C, section, Has
    <3>5. {s \in Sections : Has(s, i)} = {section(c)}
      BY <2>3, <3>3, <3>4
    <3>. QED BY <3>5, FS_Singleton
  <2>7. (\E s \in Sections : s.more) <=> 0 < Len(items) /\ Len(items) < total
    <3>1. \A n : Offered(n) <=> n = Len(items) /\ n > 0 /\ n < total
      BY <2>1 DEF Offered
    <3>2. \A c : section(c).more = Offered(c[2])
      BY Zenon
    <3>3. ASSUME NEW s \in Sections, s.more PROVE 0 < Len(items) /\ Len(items) < total
      <4>1. PICK c \in C : s = section(c)
        BY <2>3
      <4>2. Offered(c[2])
        BY <3>2, <3>3, <4>1
      <4>. QED BY <3>1, <4>2
    <3>4. ASSUME 0 < Len(items), Len(items) < total PROVE \E s \in Sections : s.more
      <4>1. Len(items) \in 1..Len(items)
        BY <2>2, <3>4
      <4>2. PICK c \in Cuts(items) : c[1] < Len(items) /\ Len(items) <= c[2]
        BY <2>4, <4>1
      <4>3. c[2] = Len(items) /\ c \in C
        BY <2>2, <2>4, <4>2
      <4>4. section(c).more
        BY <3>1, <3>2, <3>4, <4>3
      <4>. HIDE DEF section
      <4>. QED BY <2>3, <4>3, <4>4
    <3>. QED BY <3>3, <3>4
  <2>. HIDE DEF Has
  <2>8. \A i \in DOMAIN items : Cardinality({s \in Sections : Has(s, i)}) = 1
    BY <2>6
  <2>. QED BY <2>1, <2>7, <2>8 DEF EveryItemShownOnce, Has
<1>. QED BY <1>1, ClientInvariant, PTL
=============================================================================
