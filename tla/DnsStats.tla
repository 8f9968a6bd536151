------------------------------ MODULE DnsStats ------------------------------
(***************************************************************************)
(* The statistics of QLAD-global in the browser: one store (data/dnsstats) *)
(* that Dashboard, Traffic and TrafficDetail share, and the route that     *)
(* answers it.  Dashboard and Traffic watch a time range; TrafficDetail    *)
(* fetches one window once, and nobody cancels that fetch.                 *)
(***************************************************************************)
EXTENDS RequestWatcher, Naturals

CONSTANTS Window,       \* the windows in the database: [server, start, end]
          Server,       \* SERVERS
          TimeRange,    \* time ranges a user picks: [from, to]
          Last24h,      \* the one the client starts with
          FirstServer   \* SERVERS[0]

ASSUME DnsStatsAssumption == Last24h \in TimeRange /\ FirstServer \in Server

VARIABLES dnsstats,     \* the store
          gets          \* fetches of TrafficDetail under way: [ts, server]

statsVars == <<dnsstats, gets>>

StatsUrl(timeRange, server) == [timeRange |-> timeRange, server |-> server]
StatsUrls == [timeRange : TimeRange, server : Server \cup {NONE}]

StatsInit ==
  /\ dnsstats = [status |-> "initial", timeRange |-> Last24h, server |-> FirstServer,
                 stats |-> NONE, error |-> FALSE]
  /\ gets = {}

-----------------------------------------------------------------------------
(* GET /dnsstats *)

FindRange(u) == {w \in Window : /\ w.start >= u.timeRange.from /\ w.end <= u.timeRange.to
                                /\ u.server \in {NONE, w.server}}

FindAt(g) == {w \in Window : w.start <= g.ts /\ w.end >= g.ts /\ w.server = g.server}

-----------------------------------------------------------------------------
(* The reducer *)

StatsLoad == [dnsstats EXCEPT !.status = "loading", !.error = FALSE, !.stats = NONE]
StatsUnload == [dnsstats EXCEPT !.status = "initial", !.error = FALSE, !.stats = NONE]
StatsSuccess(stats) == [dnsstats EXCEPT !.status = "loaded", !.error = FALSE, !.stats = stats]
StatsFailure == [dnsstats EXCEPT !.status = "failed", !.error = TRUE]

-----------------------------------------------------------------------------
(* The actions.  Of the urls of this store only the last one can still be  *)
(* watched, and watchDNSstats stops it first.                              *)

\* Faulty variant: the old url stays watched.
ChangeTimeRangeOver(timeRange, r) ==
  /\ dnsstats' = [dnsstats EXCEPT !.status = "loading", !.error = FALSE,
                       !.timeRange = timeRange]
  /\ WatchApi({}, Watch(StatsUrl(timeRange, dnsstats.server), r))

ChangeTimeRange(timeRange, r) ==
  /\ dnsstats' = [dnsstats EXCEPT !.status = "loading", !.error = FALSE,
                       !.timeRange = timeRange]
  /\ WatchApi(StatsUrls, Watch(StatsUrl(timeRange, dnsstats.server), r))

SetServer(server, r) ==
  /\ dnsstats' = [dnsstats EXCEPT !.status = "loading", !.error = FALSE, !.server = server]
  /\ WatchApi(StatsUrls, Watch(StatsUrl(dnsstats.timeRange, server), r))

-----------------------------------------------------------------------------
(* What the pages show *)

TrafficView ==
  CASE dnsstats.error                -> "error"
    [] ~dnsstats.error /\ dnsstats.status = "loading"        -> "loading"
    [] ~dnsstats.error /\ dnsstats.status # "loading" /\ dnsstats.stats = {}   -> "empty"
    [] ~dnsstats.error /\ dnsstats.status # "loading" /\ dnsstats.stats = NONE -> "blank"
    [] OTHER                         -> "charts"
=============================================================================
