------------------------------- MODULE Client -------------------------------
(***************************************************************************)
(* The pages of the browser that share stores: Dashboard, Traffic,         *)
(* TrafficDetail and Anomalies.  One page is mounted at a time; leaving it *)
(* unloads its stores and entering one loads them, while answers to what   *)
(* was asked before are still on their way.  The stores are those of       *)
(* DnsStats and Anomalies, and both use one request watcher.               *)
(***************************************************************************)
EXTENDS DnsStats, Anomalies

CONSTANTS LOST,   \* a fetch that fails
          whitelist, \* the subjects on the whitelist (see Settings)
          MayFail \* bound: requests whose fetches may fail

ASSUME ClientAssumption ==
  /\ Urls = StatsUrls \cup AnomalyUrls
  /\ Requests \subseteq Nat

VARIABLES scene,  \* the page that is mounted
          broken  \* it has thrown while it was rendered

vars == <<watcherVars, statsVars, anomaliesVars, scene, broken>>

Scenes == {"dashboard", "traffic", "detail", "anomalies", "other"}

Init ==
  /\ WatcherInit /\ StatsInit /\ AnomaliesInit
  /\ scene = "other"
  /\ broken = FALSE

ShowsStats == {"dashboard", "traffic"}
ShowsAnomalies == {"dashboard", "anomalies"}

\* Traffic and TrafficDetail do not import the Notification that they render
\* after an error.
CannotShowErrors == {"traffic", "detail"}

\* The n-th request that watch() will create.
Fresh(n) == CHOOSE r \in Requests \ created :
              Cardinality({q \in Requests \ created : q <= r}) = n

May(n) == ~broken /\ Cardinality(Requests \ created) >= n

-----------------------------------------------------------------------------
(* The pages *)

\* Urls that a page stops watching when it is left, and those it watches.
Unloads(page) == (IF page \in ShowsStats THEN StatsUrls ELSE {})
                 \cup (IF page \in ShowsAnomalies THEN AnomalyUrls ELSE {})

Watches(page) ==
  CASE page = "dashboard" -> LET u == StatsUrl(Last24h, NONE)
                                 v == buildParams(AnomaliesLoad(DashboardConfig))
                             IN  [x \in {u, v} |-> IF x = u THEN Fresh(1) ELSE Fresh(2)]
    [] page = "traffic"   -> Watch(StatsUrl(dnsstats.timeRange, dnsstats.server), Fresh(1))
    [] page = "anomalies" -> Watch(buildParams(AnomaliesLoad(PageConfig)), Fresh(1))

Reloads(page) == page \in ShowsStats \cup {"detail"}

\* Faulty variant: the page that is left does not unload.
OpenOver(page) ==
  /\ page \in {"dashboard", "traffic", "anomalies"}
  /\ May(IF page = "dashboard" THEN 2 ELSE 1) /\ page # scene
  /\ WatchApi({}, Watches(page))
  /\ dnsstats' = IF Reloads(page) THEN StatsLoad ELSE dnsstats
  /\ anomalies' = IF page = "dashboard" THEN AnomaliesLoad(DashboardConfig)
                  ELSE IF page = "anomalies" THEN AnomaliesLoad(PageConfig)
                  ELSE anomalies
  /\ scene' = page
  /\ UNCHANGED <<gets, stored, broken>>

\* componentWillUnmount of the page that is left, componentDidMount of the next.
Open(page) ==
  /\ page \in {"dashboard", "traffic", "anomalies"}
  /\ May(IF page = "dashboard" THEN 2 ELSE 1) /\ page # scene
  /\ ~(page = "traffic" /\ dnsstats.error /\ scene \notin ShowsStats)
  /\ WatchApi(Unloads(scene), Watches(page))
  /\ dnsstats' = IF Reloads(page) THEN StatsLoad
                 ELSE IF scene \in ShowsStats THEN StatsUnload
                 ELSE dnsstats
  /\ anomalies' = IF page = "dashboard" THEN AnomaliesLoad(DashboardConfig)
                  ELSE IF page = "anomalies" THEN AnomaliesLoad(PageConfig)
                  ELSE IF scene \in ShowsAnomalies THEN AnomaliesUnload
                  ELSE anomalies
  /\ scene' = page
  /\ UNCHANGED <<gets, stored, broken>>

\* A page that watches nothing; TrafficDetail, which the windows in the charts
\* of Dashboard and Traffic link to, fetches one.  Bound: one such fetch at a
\* time.
Leave(page, got) ==
  /\ ~broken /\ page # scene
  /\ UnwatchApi(Unloads(scene))
  /\ dnsstats' = IF page = "detail" THEN StatsLoad
                 ELSE IF scene \in ShowsStats THEN StatsUnload
                 ELSE dnsstats
  /\ anomalies' = IF scene \in ShowsAnomalies THEN AnomaliesUnload ELSE anomalies
  /\ gets' = gets \cup got
  /\ scene' = page
  /\ UNCHANGED <<stored, broken>>

LeaveForOther == Leave("other", {})

OpenDetail(w) ==
  /\ scene \in ShowsStats /\ TrafficView = "charts" /\ gets = {}
  /\ w \in dnsstats.stats
  /\ Leave("detail", {[ts |-> w.start, server |-> w.server]})

\* An error that came when no page of the statistics was mounted, and that
\* the first render of the next one still sees.
OpenBreaks ==
  /\ ~broken
  /\ dnsstats.error /\ scene \notin ShowsStats
  /\ scene' = "traffic"
  /\ broken' = TRUE
  /\ UnwatchApi(Unloads(scene))
  /\ UNCHANGED <<statsVars, anomaliesVars>>

\* What the user does on a page.
OnPage(page, n) == scene = page /\ May(n)

TrafficStep ==
  /\ OnPage("traffic", 1)
  /\ \/ \E timeRange \in TimeRange : ChangeTimeRange(timeRange, Fresh(1))
     \/ \E server \in Server : SetServer(server, Fresh(1))
  /\ UNCHANGED <<gets, anomaliesVars, scene, broken>>

RefineStep ==
  /\ OnPage("anomalies", 1)
  /\ \/ \E name \in {"type", "server"} : \E value \in FilterOf[name] \cup {NONE} :
          FilterAnomalies(name, value, Fresh(1))
     \/ \E sort \in Sort : SortAnomalies(sort, Fresh(1))
     \/ \E query \in SearchText \cup {NONE} : QueryAnomalies(query, Fresh(1))
     \/ \E end \in {"from", "to"}, time \in Time : FilterTimeRange(end, time, Fresh(1))
     \/ DisableWhitelist(Fresh(1))
     \/ MoreAnomalies(Fresh(1))
  /\ UNCHANGED <<statsVars, scene, broken>>

-----------------------------------------------------------------------------
(* The server *)

Served(u) ==
  CASE u \in AnomalyUrls -> Listing(u, whitelist)
    [] u \in StatsUrls   -> FindRange(u)

AnswerOk(r) ==
  /\ uri[r] # NONE /\ Answer(r, Served(uri[r]))
  /\ UNCHANGED <<statsVars, anomaliesVars, scene, broken>>

Lose(r) ==
  /\ r \in MayFail
  /\ Answer(r, LOST)
  /\ UNCHANGED <<statsVars, anomaliesVars, scene, broken>>

PostStep ==
  /\ \E e \in Event : PostAnomaly(e)
  /\ UNCHANGED <<watcherVars, statsVars, scene, broken>>

-----------------------------------------------------------------------------
(* Callbacks *)

Poll == _poll /\ UNCHANGED <<statsVars, anomaliesVars, scene, broken>>

\* An answer goes into the store of its url, whatever that asks for now.
OnSuccess(r) ==
  /\ reply[r] \notin {NONE, LOST}
  /\ Deliver(r, {})
  /\ dnsstats' = IF uri[r] \in StatsUrls THEN StatsSuccess(reply[r]) ELSE dnsstats
  /\ anomalies' = IF uri[r] \in AnomalyUrls THEN AnomaliesSuccess(reply[r]) ELSE anomalies
  /\ UNCHANGED <<gets, stored, scene, broken>>

Throws(r) == uri[r] \in StatsUrls /\ scene \in CannotShowErrors

OnError(r) ==
  /\ reply[r] = LOST
  /\ IF Throws(r) THEN DeliverThrows(r) ELSE Deliver(r, {})
  /\ broken' = (broken \/ Throws(r))
  /\ dnsstats' = IF uri[r] \in StatsUrls THEN StatsFailure ELSE dnsstats
  /\ UNCHANGED <<gets, anomaliesVars, scene>>

DetailAnswered(g) ==
  /\ g \in gets
  /\ gets' = gets \ {g}
  /\ dnsstats' = StatsSuccess(FindAt(g))
  /\ UNCHANGED <<watcherVars, anomaliesVars, scene, broken>>

DetailFailed(g) ==
  /\ g \in gets
  /\ gets' = gets \ {g}
  /\ dnsstats' = StatsFailure
  /\ broken' = (broken \/ scene \in CannotShowErrors)
  /\ UNCHANGED <<watcherVars, anomaliesVars, scene>>

UserStep ==
  \/ \E page \in Scenes : Open(page)
  \/ OpenBreaks \/ LeaveForOther
  \/ \E w \in Window : OpenDetail(w)
  \/ TrafficStep \/ RefineStep

Next ==
  \/ UserStep
  \/ PostStep
  \/ Poll
  \/ \E r \in Requests : AnswerOk(r) \/ Lose(r) \/ OnSuccess(r) \/ OnError(r)
  \/ \E g \in gets : DetailAnswered(g) \/ DetailFailed(g)

Spec == Init /\ [][Next]_vars

\* The timer ticks, callbacks run, and a request that is sent again and again
\* is answered in the end.  Nobody has to open a page or to pick anything.
Fairness ==
  /\ WF_vars(Poll)
  /\ \A r \in Requests :
       /\ SF_vars(AnswerOk(r))
       /\ WF_vars(OnSuccess(r) \/ OnError(r))

FairSpec == Spec /\ Fairness

-----------------------------------------------------------------------------
(* Properties *)

Watched == {u \in Urls : statusWatchers[u] # NONE}

\* What is polled is what the mounted page shows, with the parameters the
\* store holds: no handler leaves the url of a page, a range, a server, a
\* filter or an order behind that is no longer shown.  disable_whitelist is
\* left to ShowsAllWhenSelected.
WatchesMatchPage ==
  ~broken =>
    /\ Watched \cap StatsUrls =
         CASE scene = "dashboard" -> {StatsUrl(Last24h, NONE)}
           [] scene = "traffic"   -> {StatsUrl(dnsstats.timeRange, dnsstats.server)}
           [] OTHER               -> {}
    /\ Cardinality(Watched \cap AnomalyUrls) = IF scene \in ShowsAnomalies THEN 1 ELSE 0
    /\ \A u \in Watched \cap AnomalyUrls : \E wl \in BOOLEAN :
         [buildParams(anomalies) EXCEPT !.count = u.count, !.disable_whitelist = wl] = u

\* Once nobody clicks any more, a page that has not thrown comes to show what
\* the database holds for the parameters it polls, whatever late answers of
\* other parameters and other pages overwrote meanwhile.
Current ==
  broken \/
    /\ scene \in ShowsStats => \A u \in Watched \cap StatsUrls : dnsstats.stats = FindRange(u)
    /\ scene \in ShowsAnomalies =>
         \A u \in Watched \cap AnomalyUrls : anomalies.result = Listing(u, whitelist)

ShownIsCurrent == <>[]Current

\* "Select to show all anomalies" (AnomalyFilter): while the box is selected,
\* the list that is asked for leaves nothing out.
ShowsAllWhenSelected ==
  scene = "anomalies" /\ anomalies.disable_whitelist /\ ~broken =>
    \A u \in Watched \cap AnomalyUrls : u.disable_whitelist
=============================================================================
