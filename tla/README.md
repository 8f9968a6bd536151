# QLAD in TLA+

QLAD watches the traffic of DNS name servers for anomalies. This directory
holds TLA+ specifications of the parts of it whose correctness depends on the
order of events, the TLC configurations that model-check them, and theorems
about them that TLAPS proves for every value of the constants. Paths below are
relative to the repository (`src/`).

- [The system](#the-system): components, state, operations, interactions
- [The modules](#the-modules): which module models what, and how
- [The runs](#the-runs): what TLC checks, with which bounds
- [The proofs](#the-proofs): what holds for every instance, and why
- [Where code and promise differ](#where-code-and-promise-differ)
- [Not modelled](#not-modelled) and [the plan](#the-plan)

To check a module, `tlc -config MCDetection.cfg MCDetection`; to check proofs,
`tlapm ThreadsProofs.tla`. `PROJECT.json` lists the runs, the lines of code
each definition stands for, the faulty variants that each property catches,
and the hazards.

## The system

    name server --> S3 bucket --run_00--> incoming --run_01--> processing
                                                                   |
              run_02:  pcapmerge | dnsanalyzer | send_anomalies.py +--> MongoDB
                                                                            ^
    ENTRADA: run_00, run_01, run_02 (loader) --> Impala staging --> warehouse |
                                                   ^         ^               |
                                                   |     QLAD-global --------+
                                                   |                         |
                                       kue queue --+-- QLAD-UI server -------+
                                                             |
                                                       browser client

| Part | State it keeps | Operations | Talks to |
|---|---|---|---|
| thread pool (`QLAD-flow/.../proc`) | run flag, queue of jobs, semaphore, threads | `run`, `addJob`, `stop`, `runJobs` | jobs, which are engines and detectors |
| done indicators (`sync/Signaler.h`) | flag, mutex, condition variable | raise, wait, destroy | one per engine and per detector |
| detection (`main.cpp`, `Detector.h`, `Engine.h`) | list of detectors, results, the report | build a detector, process, run, delete, drain | pool, indicators, random vectors, storage |
| capture and storage (`CaptureSession`, `Storage.h`, `SparseFlow`) | start of the interval, one time series per identifier, window limits | `capture`, `addPacket`, `sync` | detection, which copies the storage |
| random vectors (`RandomVectors.h`, `SafeGrowTable.h`) | a table that only grows | `get`, `addVectors`, `grow`, `read`, `write` | the engines of all windows at once |
| sketches, hashes, statistics | none that is shared | pure computations | engines |
| capture pipeline (`QLAD-flow/scripts`) | bucket, history, two directories, PID files | run_00, run_01, run_02 | only through files |
| anomaly parser and sender | position in the report | parse, insert into MongoDB | the standard output of the analyser |
| request watcher (`client/src/services/api`) | requests, watchers by url, one timer | `watchApi`, `unwatchApi`, `_poll` | every view of the client |
| queries (`client/src/data/queries`, `routes/impala_query.js`, `queue`) | entries with rows and state; jobs on the server | submit, page, poll, cancel, process | watcher, kue, Impala |
| anomalies (`client/src/data/anomalies`, its scene, `routes/anomalies.js`) | parameters and list; the details of one subject | load, filter, sort, search, "more", select | watcher, MongoDB, whois |
| statistics (`data/dnsstats`, Dashboard, Traffic, TrafficDetail, `routes/dnsstats.js`) | range, server, windows | load, change the range or the server, get one window | watcher, MongoDB |
| settings (`data/settings`, its scene, `routes/settings.js`) | the whitelist; the text being edited | watch, edit, replace | watcher, MongoDB |
| session (`services/session`, `App.js`, Login, `routes/users.js`) | tokens and a timer in each browser; one refresh token per user | login, refresh, logout, reload | MongoDB |
| saved queries and forms (`scenes/Queries`) | the list, a dialog; a range of time | save, edit, delete, submit | queries, MongoDB |
| menu, charts, exploration of rows (`components/NavSidebar`, `scenes/*/components/Charts`, `scenes/Data`) | what is open, selected, filtered | clicks, new rows, new statistics | the stores |
| QLAD-global | a moving average per feature, last time analysed | fetch, filter, store | Impala, MongoDB |
| ENTRADA loader | queue of packet pairs, caches, state file | scan, read, purge, archive, persist | the writer thread, the archive |
| ENTRADA warehouse scripts | partitions of two tables | upload, nightly move, cleanup | Impala, HDFS |

What is hard in them:

- **Threads** (pool, indicators, detection, vectors). A job is handed over in
  two steps and taken in two. A detector occupies a worker of the very pool
  its engines need. The main thread reads a flag without its mutex and frees
  the object that holds the mutex. `exit(1)` is called inside a job and
  destroys the pool that runs it. The table of vectors is resized while others
  read its size.
- **Order of packets** (storage). Packets arrive out of order and the window is
  trimmed flow by flow, so that what a detector is given is not obviously the
  window.
- **Crashes** (pipeline, loader, warehouse). Scripts that share nothing but
  directories can be killed between any two statements, captures arrive while
  they run, and copies fail.
- **Asynchronous answers** (client). Polls overlap with user actions, answers
  arrive after what they answer has been cancelled, one timer serves everyone,
  pages of a result are fetched one by one by the answers themselves. Several
  pages share a store, a page that is left may still be answered, charts keep
  what they computed from earlier data, and several browsers change the same
  whitelist and the same session.

What would make each part correct, as far as it is stated here: jobs are never
lost and stop always returns; nobody sleeps through a signal; no object is
freed in use, no worker waits for a job that nobody has, verdicts are complete
and each window is analysed before the program ends; a detector is given
exactly the last window; all engines hash with the same functions; what the
history says was copied is analysed, and once per crash at most; something is
polled exactly while someone watches it; the rows of a result are the rows of
the query in order, once, and an entry does not stay in progress; what is polled
is what the page shows, and the page comes to show what the database has; lists
and charts leave nothing out; no rule of the whitelist outlives a drop or is lost; a session is
renewed, in one browser at a time.

## The modules

Every module says at its head which files it models, and its variables bear the
names of the code. A definition called "faulty variant" is not part of a
specification: it is a plausible bug, kept next to the definition it replaces,
that shows a property of the runs can fail.

| Module | Models | Builds on |
|---|---|---|
| `Threads` | the threads, which the three modules below share | |
| `ThreadPool` | `proc/ThreadPool.*`, `SafeQueue.h`, `Semaphore.h` | `Threads` |
| `Signaler` | `sync/Signaler.h`, `WaitCondition.h`, `MutexLocker.h` | `Threads` |
| `RandomVectors` | `RandomVectors.h`, `SafeGrowTable.h` | `Threads` |
| `WindowAnalysis` | what the analyser promises | |
| `Detection` | `main.cpp`, `Detector.h`, `Engine.h` | `ThreadPool` (Pool), `Signaler` (Done); implements `WindowAnalysis` |
| `CaptureWindow` | `CaptureSession.*`, `Storage.h`, `SparseFlow.*`, the loop of `main.cpp` | |
| `CapturePipeline` | `scripts/run_00`, `run_01`, `run_02` | |
| `RequestWatcher` | `services/api/request-watcher.js`, `index.js` | |
| `Queries` | `data/queries/*`, `routes/impala_query.js`, `queue/impala_query.js` | `RequestWatcher` (W) |
| `DnsStats` | `data/dnsstats/*`, `routes/dnsstats.js` | `RequestWatcher` |
| `Anomalies` | `data/anomalies/*`, the list and the filters of its scene, `routes/anomalies.js` | `RequestWatcher` |
| `Client` | which page is mounted, what it loads, watches and unloads | `DnsStats` and `Anomalies` over one watcher |
| `AnomalyDetails` | selection and lookups, `components/AnomalyDetails` | |
| `Settings` | `data/settings/*`, its scene, `routes/settings.js` | `RequestWatcher` |
| `Session` | `services/session/*`, `App.js`, `scenes/Login`, `routes/users.js` | |
| `Menu` | `components/NavSidebar/*`, `scenes/Main` | |
| `SavedQueries` | the tabs of `scenes/Queries`, saved queries on client and server | |
| `QueryForms` | `QueryTypes/{Domain,Resolver}Query.js`, `loadAnomalyData` | |
| `Charts` | the charts of Traffic, TrafficDetail and Dashboard | |
| `DataScene` | `scenes/Data`, `QNameChart`, `MeterChart` | |

`MC*` modules give constants their values for TLC; `*Proofs` modules extend a
module with its theorems: `ThreadsProofs` those of `ThreadPool`, `Signaler` and
`RandomVectors`, `PagesProofs` those of `Session`, `Settings`, `DataScene`, `Menu`,
`QueryForms`, `Charts` and `SavedQueries`, `ClientProofs` those of
`Client` with `DnsStats` and `Anomalies`. `SharedProofs` holds those of
`RequestWatcher` and what the proofs of several modules need.

**ThreadPool.** `AddJob`/`Push` and `Up` are the two halves of `addJob`
(`ThreadPool.h:84`), `Test`, `Down`, `Pop` and `Return` the statements of
`runJobs`. `Stop` clears `mRun`, `AddNull` pushes the NULL jobs one by one with
the same two halves, and `Join` waits for all threads, except for the caller
itself: `pthread_join` of oneself fails at once. A client may be a thread of
the pool, in a job.

**Signaler.** A step of a thread that holds the mutex is followed by a
`Release`, so that "raised" and "mutex free" are different states. `Look` is
the test of the flag under the mutex, `Sleep` the entry of `pthread_cond_wait`, which
gives the mutex up and falls asleep in one step: between the two the thread has seen
the flag lowered and still holds the mutex. `Wake` is the
return, after which the code does not test again. `Destroy` is the destructor,
which signals first. `Spurious` switches wakeups nobody caused on and off.

**Detection.** The main thread (`mpc`) captures a window, queues its engines
and then the detector, and reaps finished detectors from the front of its list.
The paths for source address, destination address and query name are the same
text with another policy, and one model serves for all. A worker's place is
given by its pool state and its job: an engine computes a set of identifiers,
any subset of `Ids`, and raises its flag; a detector waits for engine after
engine, intersects, prints, and raises its own. `CallExit` is the
`exit(1)` of `Engine.h:307`. The race on `done()` is kept: `Reap` reads the flag
without the mutex. The very first window is built before the loop and nothing
is reaped after it, as in the code.

**WindowAnalysis.** The abstract promise, with three variables: windows
captured, windows analysed, and whether the program is over. Each captured
window is analysed, in any order, before the program ends.

**CaptureWindow.** The packets of the file are chosen as they are read.
`StopCapture`, `IgnorePacket` and `AddPacket` are the three ways through
`CaptureSession::capture`. A `SparseFlow` is a function from seconds to counts
with the points that are not zero, and `mCount`. `Analyse` is the copy of the
storage a detector gets. `arrived` and `analysed` are history variables.

**RandomVectors.** `Get` is the unlocked test of `size()`, `Grow`/`Resized` the
critical section with the write lock (two steps, as other threads can read
between them), `Generate` and `Write` the loop that fills new lines, `Read` the
loop that spins on NULL. A line is its seed and its maker. With `Torn`, a size
read during a resize is any number: a `std::vector` holds two pointers and the
race on them is undefined.

**CapturePipeline.** One action per statement that changes a file: the
directories are sets of captures, `processing` maps the shortened names of
`run_01` to captures, so that an overwriting `mv` is possible. A killed script
runs its trap; a power failure does not, and leaves the PID file. The test for
the PID file and its creation are one step, because cron starts each script a
minute or two apart.

**RequestWatcher.** `WatchApi` is `watchApi(url).on().on().start()`, which stops
a previous watcher of the url first, `Deliver` the callback of a fetch, which
may unwatch. The WebSocket branch is left out: no address is configured
anywhere. Requests are never reused: one object for each call of `watch`.

**Queries.** A job is posted, accepted or refused, queued, processed and polled.
`OnComplete` is the success callback with a result: rows appended, watcher stopped, next
page posted after a full page. `OnNoData` is the same without one, which fails the entry. `Window` is what `submitQuery` makes of LIMIT and
OFFSET. A query's rows are 1, 2, ..., `Total[q]` in the order Impala sorts them.

**DnsStats, Anomalies, Client.** The two stores are one record each, and their
reducers are operators on it. A handler is one action: it changes the store,
unwatches what the store watched and watches the url that goes with the new
parameters; a url is the record of its parameters. `Client` extends both over one
`RequestWatcher`. `Open` is `componentWillUnmount` of the page that is left with
`componentDidMount` of the next, in React's order. An answer goes into the store
of its url, whatever the store asks for by then, and TrafficDetail's fetch is not
watched by anyone. `OpenBreaks`, `Throws` and `broken` stand for Traffic and
TrafficDetail, which render a `Notification` they do not import: an error breaks
them, and in the error callback what clears `pollBusy` is not reached
(`DeliverThrows`). The server's aggregation is `Listing`: match, group by subject,
apply the whitelist, sort, cut. MongoDB may put groups that sort alike in any order,
and `Listing` picks one of the sorted sequences. `Cuts` are the places where the list
is divided, `Sections` what is between them, with the "more" of its last item. A sort
has a key and a direction; in ascending order the sections keep their labels, so that
"Today" then holds what is *older* than today (`TakenBy`). The route
groups by subject, asn, type and label. The model groups by subject: the type goes with
it (`AnomaliesAssumption`), the asn is looked up from it when an anomaly is posted, and
no anomaly is stored with a label. That a search or a rule may also match the asn is
abstracted to "a set of subjects".

**AnomalyDetails.** A lookup has two parts for a resolver, its anomalies and who
it is, and one for a domain, and each is answered in a step of its own. The anomalies
may come as an empty success, which is what `fetchApi` makes of an HTTP error
(`AnomaliesAnswer`); the other part, which does not go through `fetchApi`, fails
(`SelectFails`). `Select` is what happens when all have come. No property is
claimed: whichever answer comes last is shown, and nothing in the code says otherwise.

**Settings.** A save is in one of the stages between the statements of the route:
`Drop` empties the collection, `Insert` adds the rules, `InsertFails` some of them.
The callback of the drop ignores its error: after `DropFails` the old rules stay and
the new ones are added to them. Other browsers save at any time. Two history variables
say what the collection may hold: `undropped`, the rules the first requests found, until
a drop succeeds, and `unseparated`, the saves that have called back since the last
drop that succeeded and those it overlapped with.

**Session.** A token is the number of the sign-in that made it. A browser has a
session, a timer and one request of each kind under way; `stray` is the sign-in
whose page was reloaded, which the server still answers. A refused or failed
request clears the session. Expiry by the clock is the timer only.

**Menu.** `nav` is the store with the names of the code; `left` remembers what the
user did last.

**SavedQueries.** A query is its id and a version. A call is sent, handled by the
server and answered in steps of its own. `fetchApi` takes an error for an empty
success, so that the client does the change in its list nonetheless (`Fail`,
`Return`). MongoDB numbers what it is given, and lists it in that order (`InOrder`);
`NOID`, the id of a query that has none in the list, is no such number. `apart` is a
history variable: no two calls overlapped, none failed and nothing was saved.

**QueryForms.** Time is counted in parts of a day, `PerDay` of them, and `Calendar`
gives the days their year, month and day. A field holds a time, nothing, or a text that
is no date; the name or address is given or not. Of the errors shown at the fields the
model keeps whether there are any. What is left of the SQL is its range,
its table and the partitions it reads, as sets of times.

**Charts.** A chart of Traffic is its kind, its view and its selection; `Drawn` are
the series it draws and `SeriesData` their values. The response code 0 is falsy, so
selecting it selects nothing (`IsSelected`). A histogram is a finite number of keys
with their counts (`ChartsAssumption`). In `CountByKey` the last window that
has a key gives its count, as `hasOwnProperty(client)` is never true.

**DataScene.** Rows are values with attributes. `tree` is what the sunburst was
built from, `dots` what QNameChart has drawn, and both stay behind the rows that
are shown. The pairs that can be clicked are computed from what is drawn.

## The runs

Twelve runs: four end in an expected violation, the other eight pass. Deadlock
is checked in `detection` and not where the system may stop (a capture that ends,
clients with nothing more to do). Parts that share no state are checked in one run,
`threads` or `pages`: in each behaviour one part acts and the others keep their
initial state, so that the states are the sum of the parts' and not the product.

| Run | Instance | What it shows |
|---|---|---|
| `threads` | pool: 2 outside clients (one of them a thread, in a job), 2 jobs; 2 signalers with spurious wakeups; 3 lines of vectors with torn sizes; 3 threads in each | semaphore and queue agree (`PermitsBackedByJobs`), `stop` returns (`StopReturns`), queued jobs start (`EveryJobStarted`); nobody sleeps through a signal (`NoLostWakeup`); one filler for each line, same functions for all, `get` returns |
| `detection` | 2 windows, 2 engines each, 2 workers | no use after free, the verdict is the intersection, every window is analysed (`AnalysesEveryWindow`: `WindowAnalysis` is implemented), the process ends, nothing is queued or running when the pool is destroyed (`NothingLeftBehind`); deadlock checked |
| `detection_abort` | 2 windows, 3 workers, the last engine gives up | a window that lost an engine is never reported |
| `detection_abort_hang` | 1 window, 2 workers, the last engine gives up | violated: the process may hang in `exit` |
| `windows` | 2 identifiers, 7 seconds, 4 packets, (window, interval) = (3, 2) and (2, 3) | a detector gets exactly the last window (`AnalysedIsWindow`), the asserts of `Sketch` hold (`FlowsFitSketch`), every stored packet is seen when intervals do not exceed the window (`NothingUnseen`) |
| `pipeline` | 2 captures, 1 failing copy, 2 crashes | nothing in the history is lost, analysed once per crash at most, both policies agree, every capture is analysed in the end |
| `pipeline_delete` | the same with `DELETE_INPUT_PCAP_FILES` | violated: a failed copy loses the capture |
| `queries` | an anomaly and a resolver query, pages of 2 rows, 4 jobs, list of 1 entry | rows in order and once, success means complete, what is in progress is polled, a query has one page under way at a time (`OnePageAtATime`), everything comes to rest |
| `queries_cancel` | 1 query, 2 jobs | violated: a late answer revives a cancelled query |
| `client` | 3 requests, one of which may fail, 2 subjects, 3 anomalies, one of them late, 2 windows, pages of 1 | the watcher's two invariants in its real use; what is polled is what the page shows (`WatchesMatchPage`), every item is listed once (`EveryItemShownOnce`), the page comes to show what the database has (`ShownIsCurrent`) |
| `client_whitelist` | the same | violated: a time range brings the whitelist back |
| `pages` | see the bounds | `WhitelistSinceLastDrop`; `OneBrowserCanRenew`, `RenewalIsPending`, `DisplacedSignsOut`; `MenuAsLeft`; `ListIsServers`; `NothingMissing`; `StackCoversWindow`; `PagesNeverBreak` |

### Bounds

They are small where the interesting case already happens, and named:

- *threads, pool*: pushes, posts, downs and pops of several actors interleave;
  each job is added once (`MCThreads`), which bounds the queue. One client is a
  thread of the pool, so `stop` from inside a job is covered.
- *threads, vectors*: three threads so that one fills, one waits and one grows
  further.
- *detection*: two workers are the fewest for which a detector can wait on one
  for an engine running on the other, and as many windows can occupy all of
  them; two windows are needed for one detector to be reaped while another is at
  work; two engines for an intersection that can go wrong.
- *windows*: the window slides by one second at least twice, and an interval may
  skip one. Four packets make two identifiers with an out-of-order packet each.
  `MaxPackets` bounds the file.
- *pipeline*: `MaxFailures` and `MaxKills` bound failing copies and crashes. Two
  captures suffice for a capture that arrives while another is analysed; two
  crashes for a crash during the repair of another. The names of the two differ
  (see `NamesDiffer` below).
- *queries*: `Page` is 2 instead of 1024, so that three rows are two pages with
  a last one that is not full and four rows under LIMIT 3 meet the last page's
  cut; `MaxEntries` is 1 instead of 10, so that the list is full at once. Each
  query is submitted once (`MaxSubmits`), `MaxJobs` bounds the pages.
- *client*: `MaxRequests` bounds what the user does: opening a page takes one or
  two requests, a filter one, so that a page can be left, another be opened and
  changed while the answers to all of them are under way. One request may fail
  (`MayFail`), one anomaly is stored late. Pages of one item and two subjects make
  "more" matter; the two sections split the list, which is ordered by date in either
  direction or by count. One fetch of
  TrafficDetail at a time.
- *pages*: two browsers and three sign-ins (`MaxToken`), so that a token is
  replaced twice while the answer to the first is still late; two saves of one
  rule, which may overlap and of which every drop and insert may fail (`MaxSaves`), with two requests of the watcher; two saved
  queries, one edit of each and two calls under way (`MaxSaved`, `MaxVersion`,
  `MaxCalls`); three days over the end of a year with two times each; charts of at
  most two windows (`MaxWindows`) with one series drawn of those that are cut
  (`TopN`) and the response codes 0, 1 and 5; three rows of two servers, countries
  and networks; three subjects, two of them resolvers, with two lookups under way
  (`MaxLookups`).

### Fairness

- Threads: weak fairness for each thread, which is what a kernel scheduler
  gives to one that can run. A thread waiting for a mutex or lock is treated
  alike, because the sections are short and finite in number. Nobody has to add
  a job, call `stop` or ask for a vector. A capture file ends: `Windows` bounds
  it.
- Browser: the timer ticks, a fetch ends in an answer or an error, callbacks
  run. In `Queries` polls may be lost, but not all of them from some time on
  (strong fairness of `Answer`); the queue serves its jobs and Impala ends a
  query. In `Client` a request that is sent again and again is answered in the
  end; only requests in `MayFail` may fail, and these again and again, but not
  always. In `Session` timers run out and every request is answered or fails.
  Users have to do nothing.
- Scripts: cron starts them for ever and one that was started goes on, unless it
  is killed, which happens finitely often. Copies need not succeed the first
  time, but fail finitely often.

## The proofs

TLAPS checks the following for every value of the constants: any number of
threads, windows, engines, captures, queries, requests, browsers and rows. The
only hypotheses are the `ASSUME` of each module and those named in the third column.
Each theorem about a behaviour rests on an inductive invariant, because the property
by itself says too little about the states a step starts in; the theorem that states
that invariant is named first.

| Theorems | Statement | Hypothesis | Run |
|---|---|---|---|
| `ThreadsProofs`: `TypeInvariant`, `PoolInvariant`, `PermitsStayBacked` | `PermitsBackedByJobs` | | `threads` |
| `PopAlwaysFindsJob`, `StopAddsEnough` | `PopFindsJob`, `StopWakesEveryone` | | |
| `SignalerInvariant`, `WakeupsReachSleepers` | `NoLostWakeup` | | `threads` |
| `VectorsInvariant`, `SomeoneFills`, `FunctionsAgree` | `NullIsBeingFilled`, `SameFunctions` | | `threads` |
| `PointersStayValid` | `LinesStay`: a line that is filled is never replaced | | |
| `InRangeUnlessTorn` | nobody reads beyond the table | `size()` is not torn | |
| `DetectionProofs`: `DetectionInvariant`, `NothingUsedAfterFree` | `NoUseAfterFree` | | `detection` |
| `VerdictsAreIntersections` | `VerdictIsIntersection` | | `detection` |
| `AbortsAreSilent` | `AbortedWindowNeverReported` | | `detection_abort` |
| `PoolIdleWhenDestroyed` | `NothingLeftBehind` | | `detection` |
| `ImplementsAnalysis` | the safety part of `AnalysesEveryWindow` | `Unfilled = {}` | `detection` |
| `CaptureWindowProofs`: `WindowInvariant`, `AssertsOfSketchHold` | `FlowsFitSketch` | | `windows` |
| `SeriesInvariant`, `DetectorsGetTheWindow` | `AnalysedIsWindow` | | `windows` |
| `EveryPacketIsSeen` | `NothingUnseen` | | `windows` |
| `CapturePipelineProofs`: `TypeInvariant`, `NothingIsLost` | `NothingLost` | `NamesDiffer` | `pipeline` |
| `AnalysedOncePerCrash` | `OncePerCrash` | | `pipeline` |
| `PoliciesStayTogether` | `PoliciesAgree` | `NamesDiffer` | `pipeline` |
| `SharedProofs`: `WatcherInvariant`, `PollsWhileWatched`, `NothingPollsForever` | `TimerWhileRequests`, `EveryRequestCanBeStopped` | | `client` |
| `StopIsFinal` | a stopped request with no fetch under way is not fetched again | | |
| `QueriesProofs`: `WatchInvariant`, `ProgressIsPolled` | `ProcessingIsPolled` | | `queries` |
| `QueriesPollWhileTheyWatch` | the watcher's two invariants, in its use by the queries | | |
| `ResultInvariant`, `PagesAddUp`, `SuccessHoldsEveryRow`, `PagesComeOneByOne` | `RowsInOrderOnce`, `SuccessIsComplete`, `OnePageAtATime` | each query submitted once | `queries` |
| `ClientProofs`: `ClientInvariant`, `PagesWatchTheirUrls` | `WatchesMatchPage` | | `client` |
| `PagesPollWhileTheyWatch` | the watcher's two invariants, in its use by the pages | | `client` |
| `EachItemIsShownOnce` | `EveryItemShownOnce` | | `client` |
| `PagesProofs`: `SessionInvariant`, `NeverTwoSessions`, `SessionsAreRenewed` | `OneBrowserCanRenew`, `RenewalIsPending` | | `pages` |
| `SettingsInvariant`, `RulesSinceLastDrop` | `WhitelistSinceLastDrop` | | `pages` |
| `SettingsPollsWhileWatched` | the watcher's two invariants, in its use by the settings | | |
| `LinesInvariant`, `PagesAreSafe` | `PagesNeverBreak` | | `pages` |
| `MenuInvariant`, `MenuIsRestored` | `MenuAsLeft` | | `pages` |
| `FormInvariant`, `QueriesFindTheirRange` | `NothingMissing` | | `pages` |
| `StacksCoverTheirWindows` | `StackCoversWindow` | | `pages` |
| `SavedInvariant`, `SavedListIsServers` | `ListIsServers` | | `pages` |

The hypotheses are needed, and each is a fact about the use of the program.
`NamesDiffer`: two captures whose names agree before the first underscore overwrite
each other (`run_01:51`). A saved query that is submitted again adds its rows to those
of the first run (`data/queries/reducer.js:79`), so that they are neither in order nor
once. An engine that cannot fill its sketches ends the process before its window is
analysed (`Engine.h:305`): `Unfilled = {}` says that there is none.

**Pool.** `PermitsBackedByJobs` is an equation: queued jobs are the permits of
the semaphore, plus the threads that took one and have not popped, plus the
clients that pushed and have not posted. Every step changes both sides by the
same amount, which needs facts on the cardinality of the sets of threads
(`MoveOne`). `PopFindsJob` follows, since a thread at `pop` makes the right side
positive. `StopWakesEveryone` is inductive only together with `StopIsFinal`:
while `mRun` is false no thread goes to `down` any more, and it stays false
once cleared.

**Signaler.** `NoLostWakeup` is inductive with the types alone: a thread goes to sleep
only on a lowered flag, and whoever raises it wakes the sleepers before giving the
mutex up. Spurious wakeups do not disturb it. Indicators that are destroyed signal
first, and are covered.

**Vectors.** `NullIsBeingFilled` assigns every NULL line below the size to exactly
one thread; it is inductive with the fact that only the holder of the lock is in
the middle of a resize (`LockHeld`). The same facts give that lines are never
written twice, hence `LinesStay`.

**Detection.** The question is why the main thread may delete an object on the
strength of a flag that it read without the mutex. `Handed` is the set of the jobs
pushed so far. The invariant follows each of them: it is in the queue once, or run by
one worker, or neither (`QueueInv`); its flag is raised by its own worker, which keeps
the mutex meanwhile, and a worker that waits does so for the engine its detector
reads next (`FlagInv`); a detector has read what the engines before that one found,
and these are done (`VerdictInv`); the main thread frees a window only after its
detector's flag (`MainInv`, `KeptInv`). Hence what is not allocated any more has a
raised flag, a free mutex and no waiter (`LiveInv`): it is the mutex taken by
`~Signaler` that keeps the main thread behind the worker that has just raised the
flag. `VerdictIsIntersection`
is `VerdictInv` at the end of a detector's loop, and `AbortedWindowNeverReported` its
contraposition: a detector cannot get past an engine without a flag.
`NothingLeftBehind` counts: when every window has been waited for, none of `Handed` is
in the queue or with a worker. The
step simulation of `WindowAnalysis` goes by cases on the action: the windows analysed are
those whose detector has raised its flag, and the main thread leaves only when its
list is empty. The liveness of the abstract specification is left to TLC.

**Window.** `FlowsFitSketch` speaks of the moment of analysis, the invariant of
all the time before: the limits of the window are never further apart than its
size, every point of a flow is within the arrivals seen, and, separately for the
first window (`FirstWindow`), no `sync` is needed because nothing can be older
than its start. Two lemmas say what `addPoint` and `deleteBefore` do to the set
of points. `AnalysedIsWindow` compares the series with a count over the history.
`Counting` is that equation at all times, restricted to the seconds the window has
kept; it is inductive with `LatestKept`: what once made a packet too late is still
in the window, so that the code, which has forgotten the packets, decides as the
history does. `SeenInv` divides the packets that count into those of this interval
and those analysed; it needs that detections are no further apart than the window is
long, which is a premise of `NothingUnseen`.

**Pipeline.** For `NothingLost` the invariant `KeepInv` adds what the scripts hold
between two statements: a file just copied is staged although the history does
not name it yet, a name in processing belongs to the capture it holds, and the
list of `run_02` has only files that stay until it removes them, each given to
the policies the script has passed. `NamesDiffer` is used exactly where `mv` could
overwrite. For `OncePerCrash` the argument counts tokens: a capture has one
chance to be copied, moved and given for each time it was unknown to the
history, and a chance is won back only by a crash, which raises `kills`
(`CrashesPay`). It does not need `NamesDiffer`. `PoliciesAgree` counts the same way:
the two policies differ by the capture the script is between, and by the crashes.

**Watcher.** The two properties are inductive with the type of the variables and
one more fact, that a registered request was created, so that `WatchApi` cannot
register an old one under a second url. The invariant covers callbacks that
unwatch any set of urls.

`WatchApi` takes a set of urls that stop and a function from urls to new requests,
so that the theorems cover every handler of `Client`, `Settings` and `Queries`,
each of which is one such call. `Client` is proved with the lemmas of the watcher on
each call; for `Queries` and `Settings` every step is shown to be one of the watcher's
or to leave it alone (the lemma `ImplementsWatcher`, and in the proof of
`SettingsPollsWhileWatched`), and the theorems
about the watcher are then cited with jobs for urls and requests.

**Queries.** `WatchInv` says that a request is the watcher of its own number, that
what is polled or fetched was accepted by the server, and that the url of an entry is
that of a job of its own query; `ProcessingIsPolled` is one of its conjuncts, since an
entry and the list of requests change in the same callback. It holds however often a
query is submitted. `PageInv` and `ResultInv` are about rows: of the jobs of a query at
most the last may still bring rows, and while it may, the entry has exactly the rows
of the pages before it (`Holds`). A full page and a last one that is not are the two
cases of `CompleteKeepsResults`. `OnePageAtATime` follows: of two jobs of a query the
earlier is done with before the later is posted. `ImplementsWatcher` maps each callback
to `Deliver` with the urls it unwatches.

**Client.** `ClientInv` joins the watchers (`WatchersOK`), the answers under way
(`AnswersOK`), the two stores (`StatsOK`, `AnomaliesOK`) and the page (`PageOK`), which
says more than `WatchesMatchPage`: the url that is watched is the one the store's
parameters give, but for the whitelist (`Asks`). Without it a filter or "more" could
leave the old url behind, as a handler computes what to unwatch from the store. No
listing is longer than the number of subjects, so that what "more" asks for is a url.

The list is about what one answer contains: `ListingOK` shows that a listing exists at
all (a finite set of groups has a sequence that is sorted by what was asked for), that
it has each group once and that it is cut to the length asked for. How far the sections
reach is a recursive function of the items (`TakenBy`); `TakenIs` gives its equations,
bounds and monotony for any number of sections (of any length: `SECTIONS` is only
assumed to be a sequence of numbers, as the ends of anomalies are numbers), `CutsDivide` that every position is
between exactly one pair of cuts. `EveryItemShownOnce` follows, and that "more" is
offered once in the list or not at all.

**Session.** Two browsers could both renew only if they had the same token. The
invariant therefore follows every token: wherever it is, in a session, a request or
an answer, it is in one browser (`TokensApart`), and tokens not yet made are nowhere
(`NotYetMade`). `RenewalIsPending` is inductive by itself with the types.

**Settings.** `Accounted` says what the collection holds while saves are under way:
the rules of every save since the last drop that succeeded, of those it overlapped
with, and what was there before if no drop has succeeded yet. `Drop` starts anew,
`DropFails` adds a save to the account.

**DataScene.** `PagesNeverBreak` is an action property; it needs that the lines of
the sunburst end at servers that are shown (`LinesEnd`) as long as the page is
whole. More rows take no server away (`MoreRows`).

**Menu, QueryForms.** The menu is as the user left it, except that
what a small screen closed was open before (`MenuInv`). For the forms, the calendar is any sequence
of days in order and the day any number of parts: the lemmas `DayNumber` to
`DatesInOrder` say that the day of a time is monotone, and `PartsCover` that the
partitions a query names hold its range.

**Charts.** `StackCoversWindow` needs no invariant but the types: it holds of whatever windows there
are, as the series drawn are computed from them. What it needs is arithmetic of sums
over finite sets. `SumFunctionOnSet` of the community modules is a fold, defined by a
function that recurses over subsets. `RecursionExists` shows that such a function
exists for every finite set, `SumIsRecursion` that it satisfies its equation whichever
element the fold takes first, and `SumExtends` that keys without a count can be left
out: a code that only other windows have adds nothing to the stack of this one.

**SavedQueries.** The client redoes in its list what the server does, and nothing
compares the two. `SavedApart` says why they agree while calls do not overlap: there is
one call under way at most; before the server has handled it the list is the server's,
and afterwards it is what the answer will make of it (`ListAfter`). Each entry has an
id of its own (`Displays`), or an update would change two of them and a deletion drop two.
When calls cross, `apart` is false for good and nothing is claimed.

**Sets in order, and induction.** The theorems of the library on induction and on
recursive functions have an operator as a parameter, and none of the installed provers
can instantiate these. What is needed of them is stated in `SharedProofs` with a set or
a relation instead and derived from the well-founded orderings of the library
(`Least`, `UpTo`, `Ranking`, `Sortable`, `Iterates`): an induction up to a number, the
least and the greatest of a finite set, the sequence of its elements in an order, a
function given by its value at 0 and its step. That is induction over numbers and
finite sets, which is all that the recursive definitions of these modules need.

### What is left to TLC

- Liveness under fairness, which the prover cannot handle: `EveryJobStarted`,
  `StopReturns`, `GetReturns`, `Terminates`, `EventuallyAnalysed`, `EventuallyQuiet`,
  `ShownIsCurrent`, `DisplacedSignsOut`, and the liveness of `AnalysesEveryWindow`.

Every invariant that a passing run checks, and every action property, is stated by one
of the theorems above. For `AnalysesEveryWindow` the step simulation is proved and the
fairness is not. The counterexamples of the violated runs are TLC's.

No module uses a RECURSIVE operator.

## Where code and promise differ

Four runs end in a counterexample that the code can produce:

- `detection_abort_hang`: an engine that cannot fill its sketches prints
  "aborting" and calls `exit(1)` from its worker (`Engine.h:305-307`). The pool is
  a static object, so `exit` joins the workers; if another one waits for the
  engine that has just given up, it waits for ever.
- `queries_cancel`: "Cancel query" stops the polling, not the fetch under way;
  its answer sets the cancelled entry to SUCCESS, adds rows, and asks for the
  next page (`data/queries/actions.js:86-103`).
- `client_whitelist`: `AnomalyFilter/index.js:170` says "Select to show all
  anomalies". The request made for a new time range passes `state.whitelist`, which
  does not exist, instead of `state.disable_whitelist` (`data/anomalies/actions.js:129`):
  the box stays selected and whitelisted subjects are gone.
- `pipeline_delete`: `run_00_copy-pcap-to-staging.sh:94-97` removes the capture
  from the bucket although the copy before it failed.

Other disagreements were met while modelling and have no run of their own; they
are among the hazards of `PROJECT.json`: a saved query run again appends its
rows (`reducer.js:79`); a paginated query with LIMIT 1024 submits itself for
ever (`actions.js:65`, excluded by `QueriesAssumption`); `waitSignal` tests with
`if` (`Signaler.h:66`), so that `Detection` assumes no spurious wakeup; reports of
two detectors may be interleaved on the output (`Detector.h:199`); an unlocked
`size()` (`SafeGrowTable.h:106`) may make `at()` throw; names that agree before
the first underscore overwrite each other (`run_01:51`); a PID file survives a
power failure, and the script never runs again.

The modules of the pages keep these as they are in the code; no property excludes
them, and several are named in the premises of one:

- Traffic and TrafficDetail break on any error, as they do not import
  `Notification` (`Traffic/index.js:138`); `SELECT` after a failed lookup makes the
  reducer throw, and the details load for ever (`anomalies/reducer.js:95`).
- A lookup that comes late opens the details again after they were closed
  (`AnomalyDetails`), a refresh that comes late signs in again after a logout
  (`Session`), and the logout does not remove the token on the server.
- The login page, reached with a session and left by a reload, leaves the menu
  disabled (`Login/index.js:49-55`).
- The route that replaces the whitelist ignores the error of the drop
  (`routes/settings.js:35`): the rules of before stay beside the new ones. Saves that
  overlap add up. `WhitelistSinceLastDrop` says what is left of "replace".
- An editor of the whitelist that was opened before another browser saved undoes
  that save, and one that is opened between drop and insert is empty
  (`WhitelistEdit/index.js:33`); a filter with an IPv6 address cannot be typed (line 53
  splits at colons).
- `fetchApi` resolves after an HTTP error with an empty success
  (`services/api/index.js:30-44`); a query that was just saved has no id in the list,
  and an edit or a deletion of it hits all such entries (`queries/reducer.js:142-165`).
- A form's conditions on year, month and day lose rows when its range crosses the
  end of a month, or reaches from one month into the same month of another year; the
  query of an anomaly names the first and the last day only and loses those between
  when there are any; and all of them lose rows when the midnight that divides the
  two tables is in the range. The premises of `NothingMissing` name the three; the
  second was found when the theorem could not be proved without it. A range that
  starts at UTC midnight is refused (`DomainQuery.js:101`).
- Counts in the legend of Traffic's charts are those of the last window
  (`ClientChart.js:94`). A filter may break the exploration of rows
  (`ServerChart.js:228-245`); `PagesNeverBreak` only says that rows do not. The dots of
  QNameChart stay where they were drawn first.

## Not modelled

- Sketches, hash functions, `NSetsMerge`, `TimeSeries`: sequential algorithms
  on data. Statistics: floating point.
- Policies and DNS decoding, packet libraries: stateless decoding of bytes;
  `CaptureWindow` keeps their two outcomes, an identifier or `INVALID`.
- The parser and sender of anomalies: `CapturePipeline` has them as one step whose
  outcome the script ignores.
- Of QLAD-UI: charts without state of their own (sizes, header flags, bars per query
  type, distributions) beyond what they let the user click; the form for custom SQL;
  the description of the tables (`QueryDoc`), constants, build scripts and
  configuration; `GET /anomalies/count` and `GET /dnsstats/:name`, which no page uses;
  the registration of users; the positions, colours and axes that charts draw.
- QLAD-global: averages in floating point; `main.py` as committed does not
  compile (indentation at lines 196-217), so there is no program to be faithful
  to.
- ENTRADA beyond its first two scripts: the loader, its caches and the nightly move
  are the largest part left (see the plan).
- Plots, logging, options, deployment: no state that matters to another part.
- Inside modelled parts: `GNUPLOT` code, assertions that can only fail by a wrong
  call, wording of reports, SQL text, intervals of the timer.

## The plan

The order was that of importance: the analyser, the path of the captures, the
client's polling and queries, then the pages of the client and what they share with
the server. What is left, in this order:

1. `Loader` (ENTRADA `LoaderThread`, `Controller`): the queue with its end marker,
   the request cache, archive and state file between runs, crashes at every
   statement, with `Warehouse` (`run_02`, `run_03`) as the stage behind
   `CapturePipeline`. Properties: a query is written or still cached; the run ends,
   also when the loader thread throws before it queues the marker
   (`LoaderThread.java:189`); fragments survive a restart (`persistState` promises it
   at line 341, and line 370 tests the wrong iterator).
2. `AnomalyParser` against the pieces that `Detection` prints; `SetsMerge` and the
   hash functions as operators against reference definitions over small inputs.
3. Proofs of the invariants of `Loader`, and that `CapturePipeline` with the modules of
   the analyser implements one specification of what becomes of a capture.
