------------------------------- MODULE Queries -------------------------------
(***************************************************************************)
(* Running a query from the browser: the client posts SQL, the server puts *)
(* a job in its kue queue and runs up to Workers of them on Impala, the    *)
(* client polls the job's url (RequestWatcher) and collects the rows, page *)
(* after page, in the entry of the query.                                  *)
(*   client/src/data/queries/{actions,reducer,api}.js,                     *)
(*   routes/impala_query.js, queue/impala_query.js                         *)
(* The rows Impala has for a query are 1..Total[q], in the order it sorts  *)
(* them; kue serves the status of a job and is outside this repository.    *)
(***************************************************************************)
EXTENDS Naturals, SequencesExt, FiniteSetsExt

CONSTANTS Query,      \* queries the users submit
          Total,      \* rows Impala has for each
          Limit,      \* the LIMIT of its SQL, or NONE: the forms ask for a
                      \* multiple of 1024 less one
          Paginated,  \* whether it is submitted with pagination
          Rebuilt,    \* whether every submission builds a new object
          Page,       \* most rows of one answer: 1024
          MaxEntries, \* entries kept: 10
          Workers,    \* jobs Impala runs at once: 5
          MaxSubmits, \* bound: submissions of each query
          MaxJobs,    \* bound: jobs of a behaviour
          NONE

ASSUME QueriesAssumption ==
  /\ {Page, MaxEntries, Workers, MaxJobs} \subseteq Nat \ {0}
  /\ Total \in [Query -> Nat]
  /\ Limit \in [Query -> Nat \cup {NONE}]
  /\ Paginated \in [Query -> BOOLEAN]
  /\ Rebuilt \in [Query -> BOOLEAN]
  /\ MaxSubmits \in [Query -> Nat]
  /\ \A q \in Query : Paginated[q] => Limit[q] # Page
  /\ NONE \notin Nat \cup {"inactive", "active", "complete", "failed", "lost"}

VARIABLES queries,  \* the entries of the store, oldest first
          submits,  \* how often each query has been submitted
          jobs,     \* what was posted: the page, and the state on the server
          told,     \* jobs whose POST has returned to the client
          _requests, statusWatchers, _pollTimer, uri, pollBusy, reply

Job == 1..MaxJobs
JobState == {"posting", "refused", "inactive", "active", "complete", "failed"}
Final == {"complete", "failed"}
QueryState == {"INITIAL", "PROCESSING", "SUCCESS", "FAILED", "CANCELLED"}

\* What polling the job's url brings: its state, or an error.
Status == {"inactive", "active", "complete", "failed", "lost"}

W == INSTANCE RequestWatcher WITH Urls <- Job, Requests <- Job, Replies <- Status

storeVars == <<queries, submits>>
serverVars == <<jobs, told>>
watcherVars == <<_requests, statusWatchers, _pollTimer, uri, pollBusy, reply>>
vars == <<storeVars, serverVars, watcherVars>>

TypeOK ==
  /\ queries \in Seq([id : Query, state : QueryState, status_url : Job \cup {NONE},
                      result : Seq(Nat)])
  /\ Len(queries) <= MaxEntries
  /\ submits \in [Query -> Nat]
  /\ jobs \in Seq([q : Query, page : Nat, state : JobState])
  /\ Len(jobs) <= MaxJobs
  /\ told \subseteq DOMAIN jobs
  /\ W!WatcherTypeOK

Init ==
  /\ queries = <<>>
  /\ submits = [q \in Query |-> 0]
  /\ jobs = <<>>
  /\ told = {}
  /\ W!WatcherInit

-----------------------------------------------------------------------------
(* The SQL that is sent *)

\* Faulty variant: the last page asks for a full page.
WindowUncut(q, page) ==
  IF ~Paginated[q] \/ (Limit[q] # NONE /\ Limit[q] <= Page)
    THEN <<0, IF Limit[q] = NONE THEN Page ELSE Min({Limit[q], Page})>>
    ELSE <<Page * page, Page>>

\* OFFSET and LIMIT of a page; a LIMIT that fits in one page is left as it is,
\* and without pagination the server's own limit is what remains.
Window(q, page) ==
  IF ~Paginated[q] \/ (Limit[q] # NONE /\ Limit[q] <= Page)
    THEN <<0, IF Limit[q] = NONE THEN Page ELSE Min({Limit[q], Page})>>
    ELSE <<Page * page,
           IF Limit[q] = NONE THEN Page ELSE Min({Limit[q] - Page * page, Page})>>

\* The rows of a job that is complete.
Rows(j) ==
  LET q == jobs[j].q
      w == Window(q, jobs[j].page)
      last == Min({w[1] + w[2], Total[q]})
  IN  [i \in 1..(IF last > w[1] THEN last - w[1] ELSE 0) |-> w[1] + i]

-----------------------------------------------------------------------------
(* The store *)

Entry(q) == [id |-> q, state |-> "INITIAL", status_url |-> NONE, result |-> <<>>]

\* SUBMIT: "keep 10 queries max".
AddEntry(q) ==
  LET kept == Min({Len(queries), MaxEntries - 1})
  IN  queries' = Append(SubSeq(queries, Len(queries) - kept + 1, Len(queries)), Entry(q))

\* CANCEL, PROCESSING and FINISHED change every entry that bears the id: its
\* state, with PROCESSING its url, and FINISHED appends the rows it brings.
Update(q, state, url, rows) ==
  queries' = [i \in DOMAIN queries |->
                IF queries[i].id = q
                  THEN [queries[i] EXCEPT !.state = state,
                             !.status_url = IF url = NONE THEN @ ELSE url,
                             !.result = @ \o rows]
                  ELSE queries[i]]

Post(q, page) ==
  /\ Len(jobs) < MaxJobs
  /\ jobs' = Append(jobs, [q |-> q, page |-> page, state |-> "posting"])

\* submitQuery on page 0.  The object remembers in its state that it has been
\* submitted, and then gets no entry of its own.
Submit(q) ==
  /\ submits[q] < MaxSubmits[q]
  /\ submits' = [submits EXCEPT ![q] = @ + 1]
  /\ IF submits[q] = 0 \/ Rebuilt[q] THEN AddEntry(q) ELSE UNCHANGED queries
  /\ Post(q, 0)
  /\ UNCHANGED <<told, watcherVars>>

-----------------------------------------------------------------------------
(* The server *)

Become(j, state) ==
  /\ jobs' = [jobs EXCEPT ![j].state = state]
  /\ UNCHANGED <<storeVars, told, watcherVars>>

\* POST /impala_query/submit saves the job, or fails to.
Accept(j) == jobs[j].state = "posting" /\ Become(j, "inactive")
Refuse(j) == jobs[j].state = "posting" /\ Become(j, "refused")

InState(state) == {j \in DOMAIN jobs : jobs[j].state = state}

\* "Process up to 5 jobs concurrently", the oldest first.
Process(j) ==
  /\ Cardinality(InState("active")) < Workers
  /\ j \in InState("inactive") /\ \A k \in InState("inactive") : j <= k
  /\ Become(j, "active")

\* done(null, result) or done(err).
Done(j, state) ==
  /\ jobs[j].state = "active"
  /\ state \in Final
  /\ Become(j, state)

-----------------------------------------------------------------------------
(* The client *)

\* The POST returns the url of the job: PROCESSING, and waitForData.
PostAnswered(j) ==
  /\ j \notin told /\ jobs[j].state \notin {"posting", "refused"}
  /\ told' = told \cup {j}
  /\ Update(jobs[j].q, "PROCESSING", j, <<>>)
  /\ W!WatchApi({}, [u \in {j} |-> j])
  /\ UNCHANGED <<submits, jobs>>

\* The POST fails: the entry stays as it is, and the promise of submitQuery
\* resolves all the same.
PostFailed(j) ==
  /\ j \notin told /\ jobs[j].state = "refused"
  /\ told' = told \cup {j}
  /\ UNCHANGED <<queries, submits, jobs, watcherVars>>

Poll == W!_poll /\ UNCHANGED <<storeVars, serverVars>>

Answer(j) ==
  /\ j \in DOMAIN jobs
  /\ W!Answer(j, jobs[j].state)
  /\ UNCHANGED <<storeVars, serverVars>>

Lose(j) ==
  /\ W!Answer(j, "lost")
  /\ UNCHANGED <<storeVars, serverVars>>

\* Faulty variant: the test for a full page is strict.
OnCompleteStrict(j) ==
  /\ reply[j] = "complete"
  /\ Update(jobs[j].q, "SUCCESS", NONE, Rows(j))
  /\ W!Deliver(j, {j})
  /\ IF Paginated[jobs[j].q] /\ Len(Rows(j)) > Page
       THEN Post(jobs[j].q, jobs[j].page + 1)
       ELSE UNCHANGED jobs
  /\ UNCHANGED <<submits, told>>

\* Faulty variant: the page that has come is polled on while the next is asked for.
OnCompletePollsOn(j) ==
  /\ reply[j] = "complete"
  /\ Update(jobs[j].q, "SUCCESS", NONE, Rows(j))
  /\ W!Deliver(j, {})
  /\ IF Paginated[jobs[j].q] /\ Len(Rows(j)) = Page
       THEN Post(jobs[j].q, jobs[j].page + 1)
       ELSE UNCHANGED jobs
  /\ UNCHANGED <<submits, told>>

\* The rows of a page have come: after a full page the next one is asked for.
OnComplete(j) ==
  /\ reply[j] = "complete"
  /\ Update(jobs[j].q, "SUCCESS", NONE, Rows(j))
  /\ W!Deliver(j, {j})
  /\ IF Paginated[jobs[j].q] /\ Len(Rows(j)) = Page
       THEN Post(jobs[j].q, jobs[j].page + 1)
       ELSE UNCHANGED jobs
  /\ UNCHANGED <<submits, told>>

\* "something unexpected happened": the job is complete and has no result.
OnNoData(j) ==
  /\ reply[j] = "complete"
  /\ Update(jobs[j].q, "FAILED", NONE, <<>>)
  /\ W!Deliver(j, {j})
  /\ UNCHANGED <<submits, serverVars>>

\* Faulty variants: a failed job is not shown as such; it is polled on.
OnFailedSilently(j) ==
  /\ reply[j] = "failed"
  /\ W!Deliver(j, {j})
  /\ UNCHANGED <<storeVars, serverVars>>

OnFailedPollsOn(j) ==
  /\ reply[j] = "failed"
  /\ Update(jobs[j].q, "FAILED", NONE, <<>>)
  /\ W!Deliver(j, {})
  /\ UNCHANGED <<submits, serverVars>>

OnFailed(j) ==
  /\ reply[j] = "failed"
  /\ Update(jobs[j].q, "FAILED", NONE, <<>>)
  /\ W!Deliver(j, {j})
  /\ UNCHANGED <<submits, serverVars>>

\* An error of one poll: FAILED, yet the watcher goes on.
OnError(j) ==
  /\ reply[j] = "lost"
  /\ Update(jobs[j].q, "FAILED", NONE, <<>>)
  /\ W!Deliver(j, {})
  /\ UNCHANGED <<submits, serverVars>>

\* The job is still waiting or running.
OnPending(j) ==
  /\ reply[j] \in {"inactive", "active"}
  /\ W!Deliver(j, {})
  /\ UNCHANGED <<storeVars, serverVars>>

\* "Cancel query", which the list of results offers for an entry that is
\* PROCESSING: the polling stops, the job goes on.
Cancel(i) ==
  /\ queries[i].state = "PROCESSING"
  /\ W!UnwatchApi({queries[i].status_url})
  /\ Update(queries[i].id, "CANCELLED", NONE, <<>>)
  /\ UNCHANGED <<submits, serverVars>>

Deliver(j) == OnComplete(j) \/ OnNoData(j) \/ OnFailed(j) \/ OnError(j) \/ OnPending(j)

Serve(j) == \/ Accept(j) \/ Refuse(j) \/ Process(j)
            \/ \E state \in Final : Done(j, state)

Next ==
  \/ \E q \in Query : Submit(q)
  \/ \E i \in DOMAIN queries : Cancel(i)
  \/ Poll
  \/ \E j \in DOMAIN jobs :
       \/ Serve(j) \/ PostAnswered(j) \/ PostFailed(j)
       \/ Answer(j) \/ Lose(j) \/ Deliver(j)

Spec == Init /\ [][Next]_vars

\* Promises of fetch settle, the queue serves its jobs, Impala ends a query, and
\* the timer ticks.  Polls may be lost, but not all of them from some time on:
\* an answer that could be given again and again is given.  Nobody has to
\* submit or to cancel.
Fairness ==
  /\ WF_vars(Poll)
  /\ \A j \in Job :
       /\ WF_vars(j \in DOMAIN jobs /\ Serve(j))
       /\ WF_vars(j \in DOMAIN jobs /\ (PostAnswered(j) \/ PostFailed(j)))
       /\ SF_vars(j \in DOMAIN jobs /\ Answer(j))
       /\ WF_vars(j \in DOMAIN jobs /\ Deliver(j))

FairSpec == Spec /\ Fairness

-----------------------------------------------------------------------------
(* Properties *)

\* Jobs whose outcome the client has still to take in.
Unread(q) == {j \in DOMAIN jobs : jobs[j].q = q /\ (j \notin told \/ j \in _requests)}

\* A job whose rows may still come: posted, polled or being fetched.
Open(j) == j \notin told \/ j \in _requests \/ j \in pollBusy

Wanted(q) ==
  LET most == IF Paginated[q] THEN {Total[q]} ELSE {Total[q], Page}
  IN  Min(most \cup (IF Limit[q] = NONE THEN {} ELSE {Limit[q]}))

\* Pages that come one by one, each asked for by the answer to the one before,
\* add up: whatever polls and posts fail on the way, a result is the first rows
\* of the query, in order, none twice and none left out.
RowsInOrderOnce ==
  \A i \in DOMAIN queries :
    /\ queries[i].result = [k \in 1..Len(queries[i].result) |-> k]
    /\ Len(queries[i].result) <= Wanted(queries[i].id)

\* An entry that shows success while nothing is under way any more holds every
\* row that was asked for, unless the server refused a page.
SuccessIsComplete ==
  \A i \in DOMAIN queries :
    LET q == queries[i].id IN
      /\ queries[i].state = "SUCCESS"
      /\ Unread(q) = {}
      /\ \A j \in DOMAIN jobs : jobs[j].q = q => jobs[j].state # "refused"
      => Len(queries[i].result) = Wanted(q)

\* An entry that shows work in progress, PROCESSING, is backed by a job that is
\* being polled at the entry's own url, so that it cannot stay so for ever and
\* that Cancel stops the right one.
ProcessingIsPolled ==
  \A i \in DOMAIN queries :
    queries[i].state = "PROCESSING" => queries[i].status_url \in _requests

\* Of a query that has been submitted once at most one page is on its way: an
\* answer that is fetched once more after a cancellation, an error or the next
\* page's POST would bring its rows a second time.
OnePageAtATime ==
  \A j, k \in DOMAIN jobs :
    jobs[j].q = jobs[k].q /\ submits[jobs[j].q] = 1 /\ Open(j) /\ Open(k) => j = k

\* Every query comes to rest: no entry stays in progress and nothing is polled
\* any more, though polls are lost, entries are cut from the list and queries
\* are cancelled.
EventuallyQuiet ==
  <>[](~_pollTimer /\ \A i \in DOMAIN queries : queries[i].state # "PROCESSING")

\* "Cancelled query": what the user cancelled does not come back to life,
\* unless it is submitted again.
CancelledStaysCancelled ==
  [][submits' = submits =>
       \A i \in DOMAIN queries : queries[i].state = "CANCELLED"
                                  => queries'[i].state \notin {"PROCESSING", "SUCCESS"}]_vars
=============================================================================
