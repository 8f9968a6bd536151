--------------------------- MODULE RequestWatcher ---------------------------
(***************************************************************************)
(* How the browser client of QLAD-UI keeps its data fresh                  *)
(* (client/src/services/api).  watchApi registers a request that is        *)
(* fetched at once and then at every tick of one timer that all requests   *)
(* share; unwatchApi takes it out again.  A request has one fetch under    *)
(* way at most, and an answer reaches the callbacks even when the request  *)
(* has been stopped meanwhile.  No webSocketUrl is ever configured, so the *)
(* code polls: its WebSocket branch is not modelled.  The stores of the    *)
(* client extend this module or instantiate it, hence the long names.      *)
(***************************************************************************)
EXTENDS FiniteSets

CONSTANTS Urls,      \* what may be watched
          Requests,  \* request objects that watch() creates, one per call
          Replies,   \* what a fetch may bring
          NONE

ASSUME WatcherAssumption == NONE \notin Urls \cup Requests \cup Replies

VARIABLES _requests,      \* RequestWatcher::_requests
          statusWatchers, \* the Map from urls to watchers
          _pollTimer,     \* whether the interval timer runs
          uri,            \* the uri of each request created so far
          pollBusy,       \* requests whose fetch is under way
          reply           \* the answer on its way back to the client

watcherVars == <<_requests, statusWatchers, _pollTimer, uri, pollBusy, reply>>

WatcherTypeOK ==
  /\ _requests \in SUBSET Requests
  /\ statusWatchers \in [Urls -> Requests \cup {NONE}]
  /\ _pollTimer \in BOOLEAN
  /\ uri \in [Requests -> Urls \cup {NONE}]
  /\ pollBusy \in SUBSET Requests
  /\ reply \in [Requests -> Replies \cup {NONE}]
  /\ \A r \in Requests : reply[r] # NONE => r \in pollBusy

WatcherInit ==
  /\ _requests = {}
  /\ statusWatchers = [u \in Urls |-> NONE]
  /\ _pollTimer = FALSE
  /\ uri = [r \in Requests |-> NONE]
  /\ pollBusy = {}
  /\ reply = [r \in Requests |-> NONE]

-----------------------------------------------------------------------------
\* stop() of the watchers of the urls in S: the last request to leave clears
\* the timer.
Stopped(S) == {statusWatchers[u] : u \in S}

\* Faulty variant: nobody clears the timer.
TimerKeepsOn(S) == _pollTimer

TimerAfterStop(S) == _pollTimer /\ ~ (_requests # {} /\ _requests \subseteq Stopped(S))

created == {r \in Requests : uri[r] # NONE}

Registered(w) == {w[u] : u \in DOMAIN w}

UriAfter(w) == [r \in Requests |-> IF r \in Registered(w)
                                     THEN CHOOSE u \in DOMAIN w : w[u] = r
                                     ELSE uri[r]]

\* The assignment of one url.
Watch(u, r) == [v \in {u} |-> r]

\* w assigns new requests to urls, each its own.
IsNew(w) ==
  /\ DOMAIN w # {} /\ Registered(w) \subseteq Requests \ created
  /\ \A u, v \in DOMAIN w : w[u] = w[v] => u = v

\* Faulty variant: the watchers that are replaced are not stopped.
WatchApiOver(S, w) ==
  /\ IsNew(w)
  /\ uri' = UriAfter(w)
  /\ _requests' = _requests \cup Registered(w)
  /\ statusWatchers' = [u \in Urls |-> IF u \in DOMAIN w THEN w[u] ELSE statusWatchers[u]]
  /\ _pollTimer' = TRUE
  /\ pollBusy' = pollBusy \cup Registered(w)
  /\ UNCHANGED reply

\* What one handler does that stops watching the urls in S and then calls
\* watchApi(url).on(...).on(...).start() for the urls of w.
WatchApi(S, w) ==
  /\ IsNew(w)
  /\ uri' = UriAfter(w)
  /\ _requests' = (_requests \ Stopped(S \cup DOMAIN w)) \cup Registered(w)
  /\ statusWatchers' = [u \in Urls |-> IF u \in DOMAIN w THEN w[u]
                                       ELSE IF u \in S THEN NONE ELSE statusWatchers[u]]
  /\ _pollTimer' = TRUE
  /\ pollBusy' = pollBusy \cup Registered(w)
  /\ UNCHANGED reply

\* What unwatchApi of the urls in S does.
Unwatch(S) ==
  /\ _requests' = _requests \ Stopped(S)
  /\ statusWatchers' = [u \in Urls |-> IF u \in S THEN NONE ELSE statusWatchers[u]]
  /\ _pollTimer' = TimerAfterStop(S)

UnwatchApi(S) ==
  /\ Unwatch(S)
  /\ UNCHANGED <<uri, pollBusy, reply>>

\* A tick of the timer fetches every request that is not busy.
_poll ==
  /\ _pollTimer
  /\ pollBusy' = pollBusy \cup _requests
  /\ UNCHANGED <<_requests, statusWatchers, _pollTimer, uri, reply>>

\* The server answers, or the connection fails.
Answer(r, x) ==
  /\ r \in pollBusy /\ reply[r] = NONE
  /\ reply' = [reply EXCEPT ![r] = x]
  /\ UNCHANGED <<_requests, statusWatchers, _pollTimer, uri, pollBusy>>

\* The success or error callback runs, which may unwatch the urls in S; the
\* request is no longer busy.
Deliver(r, S) ==
  /\ reply[r] # NONE
  /\ Unwatch(S)
  /\ pollBusy' = pollBusy \ {r}
  /\ reply' = [reply EXCEPT ![r] = NONE]
  /\ UNCHANGED uri

\* The error callback throws: what clears pollBusy is never reached.
DeliverThrows(r) ==
  /\ reply[r] # NONE
  /\ reply' = [reply EXCEPT ![r] = NONE]
  /\ UNCHANGED <<_requests, statusWatchers, _pollTimer, uri, pollBusy>>

UrlsOf(r) == {u \in Urls : statusWatchers[u] = r}

WatcherNext ==
  \/ _poll
  \/ \E r \in Requests :
       \/ \E x \in Replies : Answer(r, x)
       \/ Deliver(r, {}) \/ Deliver(r, UrlsOf(r)) \/ DeliverThrows(r)
  \/ \E S \in SUBSET Urls :
       \/ UnwatchApi(S)
       \/ \E D \in SUBSET Urls : \E w \in [D -> Requests] : WatchApi(S, w)

WatcherSpec == WatcherInit /\ [][WatcherNext]_watcherVars

-----------------------------------------------------------------------------
(* Properties *)

\* "stop polling if request list is empty" (request-watcher.js), and not
\* earlier: the timer runs exactly while a request is registered, in whatever
\* order requests come and go.
TimerWhileRequests == _pollTimer <=> _requests # {}

\* The list of requests and the Map of watchers, which two modules keep, speak
\* of the same requests, and no request serves two urls: nothing is polled
\* that no unwatchApi could stop.
EveryRequestCanBeStopped ==
  /\ _requests = {statusWatchers[u] : u \in Urls} \ {NONE}
  /\ \A u \in Urls : statusWatchers[u] # NONE =>
       \A v \in Urls \ {u} : statusWatchers[v] # statusWatchers[u]

\* A request that has been stopped is not fetched again, though an answer that
\* is under way may still come.
StoppedIsNotFetched ==
  [][\A r \in Requests : r \in created \ _requests /\ r \notin pollBusy
                           => r \notin pollBusy']_watcherVars

\* The inductive invariant behind the safety properties.
WatcherInv ==
  /\ WatcherTypeOK
  /\ TimerWhileRequests
  /\ EveryRequestCanBeStopped
  /\ _requests \subseteq created
=============================================================================
