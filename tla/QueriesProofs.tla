---------------------------- MODULE QueriesProofs ----------------------------
(***************************************************************************)
(* Proofs about Queries for any queries, limits, page sizes and numbers of *)
(* entries, workers and jobs.  A job is open until its POST has failed or  *)
(* its url is neither polled nor being fetched; an entry that shows        *)
(* progress names an open job of its query, and while the last job of a    *)
(* query is open its entry holds the rows of the pages before, no more and *)
(* no less.                                                                *)
(***************************************************************************)
EXTENDS Queries, Integers, SequenceTheorems, TLAPS

\* What is proved of the request watcher, with the jobs as urls and requests.
Shared == INSTANCE SharedProofs WITH Urls <- Job, Requests <- Job, Replies <- Status

\* The requests of the watcher are the jobs of the same number, told and
\* accepted; an entry's url is that of a job of its own query.
WatchInv ==
  /\ \A u \in Job : statusWatchers[u] \in {u, NONE}
  /\ \A j \in _requests : statusWatchers[j] = j
  /\ \A j \in _requests \cup pollBusy :
       j \in told /\ jobs[j].state \notin {"posting", "refused"}
  /\ \A i \in DOMAIN queries :
       /\ queries[i].status_url # NONE =>
            queries[i].status_url \in told /\ jobs[queries[i].status_url].q = queries[i].id
       /\ queries[i].state = "PROCESSING" => queries[i].status_url \in _requests

JobsOf(q) == {j \in DOMAIN jobs : jobs[j].q = q}

\* What is known of a page that has been asked for.
PageOK(q, page) ==
  /\ page > 0 => Paginated[q] /\ (Limit[q] = NONE \/ Limit[q] > Page)
  /\ Page * page <= Total[q]
  /\ Limit[q] # NONE => Page * page <= Limit[q]

\* The pages of a query are asked for one after the other, and none in vain.
PageInv ==
  /\ \A q \in Query : submits[q] = 0 =>
       JobsOf(q) = {} /\ \A i \in DOMAIN queries : queries[i].id # q
  /\ \A j \in DOMAIN jobs : Open(j) => \A k \in JobsOf(jobs[j].q) : k <= j
  /\ \A j \in DOMAIN jobs : PageOK(jobs[j].q, jobs[j].page)

\* What an entry of q holds.
Holds(q, state, result) ==
  /\ result = [k \in 1..Len(result) |-> k]
  /\ Len(result) <= Wanted(q)
  /\ \A j \in JobsOf(q) : Open(j) => Len(result) = Page * jobs[j].page
  /\ state = "SUCCESS" =>
       Len(result) = Wanted(q) \/ \E j \in JobsOf(q) : j \notin told \/ jobs[j].state = "refused"

ResultInv ==
  \A i \in DOMAIN queries : Holds(queries[i].id, queries[i].state, queries[i].result)

-----------------------------------------------------------------------------
(* The operators *)

LEMMA MinOfTwo ==
  ASSUME NEW a \in Int, NEW b \in Int
  PROVE  /\ Min({a, b}) = IF a <= b THEN a ELSE b
         /\ Min({a, b}) \in Int
<1>1. CASE a <= b
  <2>1. \A x \in {a, b} : (\A y \in {a, b} : x <= y) <=> x = a
    BY <1>1
  <2>. QED BY <1>1, <2>1 DEF Min
<1>2. CASE ~(a <= b)
  <2>1. \A x \in {a, b} : (\A y \in {a, b} : x <= y) <=> x = b
    BY <1>2
  <2>. QED BY <1>2, <2>1 DEF Min
<1>. QED BY <1>1, <1>2

\* The types of the constants.
LEMMA Constants ==
  /\ Page \in Nat \ {0} /\ MaxEntries \in Nat \ {0} /\ Workers \in Nat \ {0} /\ MaxJobs \in Nat \ {0}
  /\ \A q \in Query : /\ Total[q] \in Nat /\ Limit[q] \in Nat \cup {NONE}
                      /\ Paginated[q] \in BOOLEAN /\ Rebuilt[q] \in BOOLEAN
                      /\ Paginated[q] => Limit[q] # Page
  /\ NONE \notin Nat /\ NONE \notin Status /\ NONE \notin Job
BY QueriesAssumption DEF Status, Job

EntryType == [id : Query, state : QueryState, status_url : Job \cup {NONE}, result : Seq(Nat)]
JobType == [q : Query, page : Nat, state : JobState]

\* The window of a page and the rows in it.
LEMMA WindowTyped ==
  ASSUME NEW q \in Query, NEW page \in Nat
  PROVE  Window(q, page)[1] \in Nat /\ Window(q, page)[2] \in Int
<1>1. Page * page \in Nat
  BY Constants
<1>2. Limit[q] # NONE => Limit[q] \in Nat
  BY Constants
<1>3. CASE ~Paginated[q] \/ (Limit[q] # NONE /\ Limit[q] <= Page)
  <2>1. Window(q, page) = <<0, IF Limit[q] = NONE THEN Page ELSE Min({Limit[q], Page})>>
    BY <1>3 DEF Window
  <2>2. Limit[q] # NONE => Min({Limit[q], Page}) \in Int
    BY <1>2, MinOfTwo, Constants
  <2>. QED BY <2>1, <2>2, Constants
<1>4. CASE ~(~Paginated[q] \/ (Limit[q] # NONE /\ Limit[q] <= Page))
  <2>1. Window(q, page) = <<Page * page, IF Limit[q] = NONE THEN Page
                                         ELSE Min({Limit[q] - Page * page, Page})>>
    BY <1>4 DEF Window
  <2>2. Limit[q] # NONE => Min({Limit[q] - Page * page, Page}) \in Int
    BY <1>1, <1>2, MinOfTwo, Constants
  <2>. QED BY <1>1, <2>1, <2>2, Constants
<1>. QED BY <1>3, <1>4

LEMMA RowsTyped ==
  ASSUME NEW j, jobs[j] \in JobType
  PROVE  /\ Rows(j) \in Seq(Nat) /\ Len(Rows(j)) \in Nat
         /\ \A i \in 1..Len(Rows(j)) : Rows(j)[i] = Window(jobs[j].q, jobs[j].page)[1] + i
         /\ LET w == Window(jobs[j].q, jobs[j].page)
                last == Min({w[1] + w[2], Total[jobs[j].q]})
            IN  Len(Rows(j)) = IF last > w[1] THEN last - w[1] ELSE 0
<1> DEFINE q == jobs[j].q
           w == Window(q, jobs[j].page)
           last == Min({w[1] + w[2], Total[q]})
           n == IF last > w[1] THEN last - w[1] ELSE 0
<1>1. q \in Query /\ jobs[j].page \in Nat
  BY DEF JobType
<1>2. w[1] \in Nat /\ w[2] \in Int /\ Total[q] \in Int
  BY <1>1, WindowTyped, Constants
<1>. HIDE DEF w
<1>3. last \in Int
  BY <1>2, MinOfTwo
<1>. HIDE DEF last
<1>4. n \in Nat
  BY <1>2, <1>3
<1>5. Rows(j) = [i \in 1..n |-> w[1] + i]
  BY DEF Rows, w, last
<1>. HIDE DEF n
<1>6. \A i \in 1..n : w[1] + i \in Nat
  BY <1>2, <1>4
<1>7. Rows(j) \in Seq(Nat) /\ Len(Rows(j)) = n
  BY <1>4, <1>5, <1>6
<1>. QED BY <1>4, <1>5, <1>7 DEF n, w, last

-----------------------------------------------------------------------------
(* The watcher as Queries uses it *)

\* What is assumed of the watcher's state in the lemmas that follow.
Watched ==
  /\ W!WatcherTypeOK
  /\ \A u \in Job : statusWatchers[u] \in {u, NONE}
  /\ \A j \in _requests : statusWatchers[j] = j

\* Watching the url of a job, which has not been watched before.
LEMMA Watching ==
  ASSUME Watched, NEW j \in Job, W!WatchApi({}, [u \in {j} |-> j])
  PROVE  /\ Watched'
         /\ _requests' = _requests \cup {j} /\ pollBusy' = pollBusy \cup {j} /\ reply' = reply
<1> DEFINE w == [u \in {j} |-> j]
<1>1. DOMAIN w = {j} /\ w[j] = j /\ W!Registered(w) = {j}
  BY DEF W!Registered
<1>2. NONE \notin Job
  BY Constants
<1>3. W!Stopped({} \cup {j}) = {statusWatchers[j]}
  BY DEF W!Stopped
<1>4. /\ _requests' = (_requests \ {statusWatchers[j]}) \cup {j}
      /\ statusWatchers' = [u \in Job |-> IF u = j THEN j ELSE statusWatchers[u]]
      /\ _pollTimer' = TRUE /\ pollBusy' = pollBusy \cup {j} /\ reply' = reply
      /\ uri' = [r \in Job |-> IF r = j THEN CHOOSE u \in {j} : w[u] = r ELSE uri[r]]
  BY <1>1, <1>3 DEF W!WatchApi, W!UriAfter
<1>5. (CHOOSE u \in {j} : w[u] = j) = j
  BY <1>1
<1>6. uri' \in [Job -> Job \cup {NONE}]
  BY <1>4, <1>5 DEF Watched, W!WatcherTypeOK
<1>7. _requests' = _requests \cup {j}
  BY <1>2, <1>4 DEF Watched, W!WatcherTypeOK
<1>. QED BY <1>4, <1>6, <1>7 DEF Watched, W!WatcherTypeOK

\* Stopping the watcher of one url or of none.
LEMMA Unwatching ==
  ASSUME Watched, NEW S \in SUBSET Job, W!Unwatch(S),
         uri' = uri, pollBusy' \subseteq pollBusy,
         reply' = reply \/ \E r \in Job : reply' = [reply EXCEPT ![r] = NONE],
         \A r \in Job : reply'[r] # NONE => r \in pollBusy'
  PROVE  /\ Watched'
         /\ _requests' = _requests \ S
<1>1. NONE \notin Job
  BY Constants
<1>2. /\ _requests' = _requests \ {statusWatchers[u] : u \in S}
      /\ statusWatchers' = [u \in Job |-> IF u \in S THEN NONE ELSE statusWatchers[u]]
      /\ _pollTimer' \in BOOLEAN
  BY DEF W!Unwatch, W!Stopped, W!TimerAfterStop, Watched, W!WatcherTypeOK
<1>3. _requests' = _requests \ S
  BY <1>1, <1>2 DEF Watched, W!WatcherTypeOK
<1>. QED BY <1>1, <1>2, <1>3 DEF Watched, W!WatcherTypeOK

\* A callback that has run: its request is idle, and S not watched any more.
LEMMA Delivered ==
  ASSUME Watched, NEW j \in Job, NEW S \in SUBSET Job, W!Deliver(j, S)
  PROVE  /\ Watched'
         /\ _requests' = _requests \ S /\ pollBusy' = pollBusy \ {j} /\ j \in pollBusy
<1>1. /\ W!Unwatch(S) /\ uri' = uri /\ pollBusy' = pollBusy \ {j}
      /\ reply' = [reply EXCEPT ![j] = NONE] /\ reply[j] # NONE
  BY DEF W!Deliver
<1>2. j \in pollBusy /\ \A r \in Job : reply'[r] # NONE => r \in pollBusy'
  BY <1>1 DEF Watched, W!WatcherTypeOK
<1>. QED BY <1>1, <1>2, Unwatching

\* A tick and an answer.
LEMMA Polled ==
  ASSUME Watched, W!_poll \/ \E j \in Job, x \in Status : W!Answer(j, x)
  PROVE  /\ Watched'
         /\ _requests' = _requests /\ pollBusy' \subseteq pollBusy \cup _requests
BY DEF Watched, W!WatcherTypeOK, W!_poll, W!Answer

-----------------------------------------------------------------------------
(* The store and the jobs *)

\* What Update does to the entries, field by field.
EntriesChanged(q, state, url, rows) ==
  /\ queries' \in Seq(EntryType)
  /\ DOMAIN queries' = DOMAIN queries /\ Len(queries') = Len(queries)
  /\ \A i \in DOMAIN queries :
       /\ queries'[i].id = queries[i].id
       /\ queries[i].id # q => queries'[i] = queries[i]
       /\ queries[i].id = q =>
            /\ queries'[i].state = state
            /\ queries'[i].status_url = IF url = NONE THEN queries[i].status_url ELSE url
            /\ queries'[i].result = queries[i].result \o rows

LEMMA Updated ==
  ASSUME queries \in Seq(EntryType), NEW q \in Query, NEW state \in QueryState,
         NEW url \in Job \cup {NONE}, NEW rows \in Seq(Nat), Update(q, state, url, rows)
  PROVE  EntriesChanged(q, state, url, rows)
<1>1. Len(queries) \in Nat /\ DOMAIN queries = 1..Len(queries)
      /\ \A i \in DOMAIN queries : queries[i] \in EntryType
  BY LenProperties, ElementOfSeq
<1>2. ASSUME NEW i \in DOMAIN queries
      PROVE  /\ queries'[i] \in EntryType
             /\ queries'[i].id = queries[i].id
             /\ queries[i].id # q => queries'[i] = queries[i]
             /\ queries[i].id = q =>
                  /\ queries'[i].state = state
                  /\ queries'[i].status_url = IF url = NONE THEN queries[i].status_url ELSE url
                  /\ queries'[i].result = queries[i].result \o rows
  <2>1. queries[i] \in EntryType
    BY <1>1
  <2>2. CASE queries[i].id # q
    <3>1. queries'[i] = queries[i]
      BY <2>2 DEF Update
    <3>. QED BY <2>1, <2>2, <3>1
  <2>3. CASE queries[i].id = q
    <3>1. queries'[i] = [queries[i] EXCEPT !.state = state,
                              !.status_url = IF url = NONE THEN @ ELSE url,
                              !.result = @ \o rows]
      BY <2>3 DEF Update
    <3>2. queries[i].result \o rows \in Seq(Nat)
      BY <2>1, ConcatProperties DEF EntryType
    <3>. QED BY <2>1, <2>3, <3>1, <3>2 DEF EntryType
  <2>. QED BY <2>2, <2>3
<1>3. DOMAIN queries' = 1..Len(queries)
  BY <1>1 DEF Update
<1>4. queries' = [i \in 1..Len(queries) |-> queries'[i]]
  BY <1>1 DEF Update
<1>5. queries' \in Seq(EntryType) /\ Len(queries') = Len(queries)
  BY <1>1, <1>2, <1>4, IsASeq, LenProperties
<1>. QED BY <1>1, <1>2, <1>3, <1>5 DEF EntriesChanged

LEMMA EntryAdded ==
  ASSUME queries \in Seq(EntryType), NEW q \in Query, AddEntry(q)
  PROVE  /\ queries' \in Seq(EntryType) /\ Len(queries') <= MaxEntries
         /\ \A i \in DOMAIN queries' :
              queries'[i] = Entry(q) \/ \E k \in DOMAIN queries : queries'[i] = queries[k]
<1> DEFINE n == Len(queries)
           kept == Min({n, MaxEntries - 1})
           s == SubSeq(queries, n - kept + 1, n)
<1>1. n \in Nat /\ DOMAIN queries = 1..n /\ MaxEntries \in Nat \ {0}
  BY LenProperties, Constants
<1>2. kept \in Nat /\ kept <= n /\ kept <= MaxEntries - 1
  BY <1>1, MinOfTwo
<1>3. Entry(q) \in EntryType
  BY EmptySeq DEF Entry, EntryType, QueryState
<1>4. queries' = Append(s, Entry(q))
  BY DEF AddEntry
<1>. HIDE DEF n, kept
<1>5. /\ s \in Seq(EntryType) /\ Len(s) = kept
      /\ \A i \in 1..kept : s[i] = queries[n - kept + i] /\ n - kept + i \in DOMAIN queries
  <2>1. n - kept + 1 \in 1..(n + 1) /\ n \in (n - kept)..n
    BY <1>1, <1>2
  <2>2. /\ s \in Seq(EntryType)
        /\ Len(s) = IF n - kept + 1 <= n THEN n - (n - kept + 1) + 1 ELSE 0
        /\ \A i \in 1..(n - (n - kept + 1) + 1) : s[i] = queries[n - kept + 1 + i - 1]
    BY <1>1, <1>2, <2>1, SubSeqProperties DEF n
  <2>3. n - (n - kept + 1) + 1 = kept /\ (~(n - kept + 1 <= n) => kept = 0)
    BY <1>1, <1>2
  <2>4. Len(s) = kept
    BY <2>2, <2>3
  <2>5. ASSUME NEW i \in 1..kept
        PROVE  s[i] = queries[n - kept + i] /\ n - kept + i \in DOMAIN queries
    <3>1. s[i] = queries[n - kept + 1 + i - 1]
      BY <2>2, <2>3
    <3>2. n - kept + 1 + i - 1 = n - kept + i /\ n - kept + i \in 1..n
      BY <1>1, <1>2
    <3>. QED BY <1>1, <3>1, <3>2
  <2>. QED BY <2>2, <2>4, <2>5
<1>. HIDE DEF s
<1>6. /\ queries' \in Seq(EntryType) /\ Len(queries') = kept + 1
      /\ DOMAIN queries' = 1..(kept + 1)
      /\ \A i \in 1..kept : queries'[i] = s[i]
      /\ queries'[kept + 1] = Entry(q)
  BY <1>2, <1>3, <1>4, <1>5, AppendProperties
<1>7. ASSUME NEW i \in 1..(kept + 1)
      PROVE  queries'[i] = Entry(q) \/ \E k \in DOMAIN queries : queries'[i] = queries[k]
  <2>1. CASE i \in 1..kept
    <3>1. queries'[i] = s[i]
      BY <1>6, <2>1
    <3>. QED BY <1>5, <2>1, <3>1
  <2>2. CASE i = kept + 1
    BY <1>6, <2>2
  <2>. QED BY <1>2, <2>1, <2>2
<1>8. kept + 1 <= MaxEntries
  BY <1>1, <1>2
<1>. QED BY <1>6, <1>7, <1>8

LEMMA Posted ==
  ASSUME jobs \in Seq(JobType), NEW q \in Query, NEW page \in Nat, Post(q, page)
  PROVE  /\ jobs' \in Seq(JobType) /\ Len(jobs') <= MaxJobs
         /\ DOMAIN jobs' = DOMAIN jobs \cup {Len(jobs) + 1}
         /\ \A j \in DOMAIN jobs : jobs'[j] = jobs[j] /\ j < Len(jobs) + 1
         /\ jobs'[Len(jobs) + 1] = [q |-> q, page |-> page, state |-> "posting"]
         /\ Len(jobs) + 1 \notin DOMAIN jobs
<1>1. [q |-> q, page |-> page, state |-> "posting"] \in JobType
  BY DEF JobType, JobState
<1>2. Len(jobs) \in Nat /\ DOMAIN jobs = 1..Len(jobs)
  BY LenProperties
<1>. QED BY <1>1, <1>2, Constants, AppendProperties DEF Post

LEMMA Became ==
  ASSUME jobs \in Seq(JobType), NEW j \in DOMAIN jobs, NEW state \in JobState, Become(j, state)
  PROVE  /\ jobs' \in Seq(JobType) /\ Len(jobs') = Len(jobs) /\ DOMAIN jobs' = DOMAIN jobs
         /\ \A k \in DOMAIN jobs : /\ jobs'[k].q = jobs[k].q /\ jobs'[k].page = jobs[k].page
                                   /\ jobs'[k].state = IF k = j THEN state ELSE jobs[k].state
<1>1. \A k \in DOMAIN jobs : jobs[k] \in JobType
  BY LenProperties, ElementOfSeq
<1>2. jobs' = [jobs EXCEPT ![j] = [jobs[j] EXCEPT !.state = state]]
  BY DEF Become
<1>3. [jobs[j] EXCEPT !.state = state] \in JobType
  BY <1>1 DEF JobType
<1>. QED BY <1>1, <1>2, <1>3, ExceptSeq DEF JobType

\* The parts of the type invariant as the lemmas use them.
LEMMA Types ==
  ASSUME TypeOK
  PROVE  /\ queries \in Seq(EntryType) /\ Len(queries) <= MaxEntries
         /\ \A i \in DOMAIN queries : queries[i] \in EntryType
         /\ jobs \in Seq(JobType) /\ Len(jobs) <= MaxJobs
         /\ \A j \in DOMAIN jobs : jobs[j] \in JobType /\ j \in Job
         /\ told \subseteq DOMAIN jobs /\ W!WatcherTypeOK
<1>1. queries \in Seq(EntryType) /\ jobs \in Seq(JobType)
  BY DEF TypeOK, EntryType, JobType
<1>2. Len(jobs) \in Nat /\ DOMAIN jobs = 1..Len(jobs) /\ Len(jobs) <= MaxJobs /\ MaxJobs \in Nat
  BY <1>1, LenProperties, Constants DEF TypeOK
<1>. QED BY <1>1, <1>2, LenProperties, ElementOfSeq DEF TypeOK, Job

-----------------------------------------------------------------------------
(* The entries and the jobs they name *)

EntriesNamed ==
  \A i \in DOMAIN queries :
    /\ queries[i].status_url # NONE =>
         queries[i].status_url \in told /\ jobs[queries[i].status_url].q = queries[i].id
    /\ queries[i].state = "PROCESSING" => queries[i].status_url \in _requests

RequestsTold ==
  \A j \in _requests \cup pollBusy : j \in told /\ jobs[j].state \notin {"posting", "refused"}

LEMMA WatchParts == WatchInv /\ TypeOK <=> Watched /\ RequestsTold /\ EntriesNamed /\ TypeOK
BY DEF WatchInv, Watched, RequestsTold, EntriesNamed, TypeOK

\* Changing the entries of q, with at most jobs of q no longer watched.
LEMMA UpdateNames ==
  ASSUME TypeOK, WatchInv, NEW q \in Query, NEW state \in QueryState, NEW url \in Job \cup {NONE},
         NEW rows \in Seq(Nat), Update(q, state, url, rows),
         told \subseteq told', \A j \in told : jobs'[j].q = jobs[j].q,
         url # NONE => url \in told' /\ jobs'[url].q = q,
         state = "PROCESSING" => url # NONE /\ url \in _requests',
         \A j \in _requests : j \in _requests' \/ jobs[j].q = q
  PROVE  EntriesNamed' /\ queries' \in Seq(EntryType) /\ Len(queries') <= MaxEntries
<1>1. queries \in Seq(EntryType) /\ Len(queries) <= MaxEntries
      /\ \A i \in DOMAIN queries : queries[i] \in EntryType
  BY Types
<1>2. EntriesChanged(q, state, url, rows)
  BY <1>1, Updated
<1>3. EntriesNamed
  BY DEF WatchInv, EntriesNamed
<1>4. ASSUME NEW i \in DOMAIN queries
      PROVE  /\ queries'[i].status_url # NONE =>
                  queries'[i].status_url \in told' /\ jobs'[queries'[i].status_url].q = queries'[i].id
             /\ queries'[i].state = "PROCESSING" => queries'[i].status_url \in _requests'
  <2>1. CASE queries[i].id = q
    BY <1>2, <1>3, <2>1 DEF EntriesNamed, EntriesChanged
  <2>2. CASE queries[i].id # q
    <3>1. queries'[i] = queries[i]
      BY <1>2, <2>2 DEF EntriesChanged
    <3>2. queries[i].state = "PROCESSING" => queries[i].status_url # NONE
      BY <1>3, Constants DEF EntriesNamed, WatchInv, TypeOK, W!WatcherTypeOK
    <3>. QED BY <1>3, <2>2, <3>1, <3>2 DEF EntriesNamed
  <2>. QED BY <2>1, <2>2
<1>. QED BY <1>1, <1>2, <1>4 DEF EntriesNamed, EntriesChanged

\* Submitting a query.
LEMMA SubmitWatches ==
  ASSUME TypeOK, WatchInv, NEW q \in Query, Submit(q)
  PROVE  TypeOK' /\ WatchInv'
<1>1. /\ queries \in Seq(EntryType) /\ jobs \in Seq(JobType) /\ told \subseteq DOMAIN jobs
      /\ Len(queries) <= MaxEntries
  BY Types
<1>2. /\ jobs' \in Seq(JobType) /\ Len(jobs') <= MaxJobs /\ DOMAIN jobs \subseteq DOMAIN jobs'
      /\ \A j \in DOMAIN jobs : jobs'[j] = jobs[j]
  BY <1>1, Posted DEF Submit
<1>3. /\ queries' \in Seq(EntryType) /\ Len(queries') <= MaxEntries
      /\ \A i \in DOMAIN queries' : queries'[i] = Entry(q) \/ \E k \in DOMAIN queries : queries'[i] = queries[k]
  BY <1>1, EntryAdded DEF Submit
<1>4. told' = told /\ UNCHANGED watcherVars /\ submits' \in [Query -> Nat]
  BY DEF Submit, TypeOK
<1>5. EntriesNamed'
  <2>1. Entry(q).status_url = NONE /\ Entry(q).state = "INITIAL"
    BY DEF Entry
  <2>. QED BY <1>1, <1>2, <1>3, <1>4, <2>1 DEF WatchInv, EntriesNamed, watcherVars
<1>6. Watched' /\ RequestsTold' /\ W!WatcherTypeOK'
  BY <1>1, <1>2, <1>4 DEF WatchInv, TypeOK, Watched, RequestsTold, watcherVars, W!WatcherTypeOK
<1>7. TypeOK'
  BY <1>1, <1>2, <1>3, <1>4, <1>6 DEF TypeOK, EntryType, JobType
<1>. QED BY <1>5, <1>6, <1>7 DEF WatchInv, EntriesNamed, Watched, RequestsTold

\* Steps of the server.
LEMMA ServeWatches ==
  ASSUME TypeOK, WatchInv, NEW j \in DOMAIN jobs, Serve(j)
  PROVE  TypeOK' /\ WatchInv'
<1>1. jobs \in Seq(JobType) /\ told \subseteq DOMAIN jobs /\ Len(jobs) <= MaxJobs
  BY Types
<1>2. PICK state \in {"inactive", "refused", "active", "complete", "failed"} :
        /\ Become(j, state)
        /\ state \in {"inactive", "refused"} => jobs[j].state = "posting"
  BY DEF Serve, Accept, Refuse, Process, Done, Final
<1>3. /\ jobs' \in Seq(JobType) /\ Len(jobs') = Len(jobs) /\ DOMAIN jobs' = DOMAIN jobs
      /\ \A k \in DOMAIN jobs : /\ jobs'[k].q = jobs[k].q
                                /\ jobs'[k].state = IF k = j THEN state ELSE jobs[k].state
  BY <1>1, <1>2, Became DEF JobState
<1>4. UNCHANGED <<storeVars, told, watcherVars>>
  BY <1>2 DEF Become
<1>5. TypeOK'
  BY <1>1, <1>3, <1>4 DEF TypeOK, JobType, storeVars, watcherVars, W!WatcherTypeOK
<1>6. Watched' /\ EntriesNamed'
  BY <1>1, <1>3, <1>4
  DEF WatchInv, Watched, EntriesNamed, TypeOK, storeVars, watcherVars, W!WatcherTypeOK
<1>7. RequestsTold'
  BY <1>1, <1>2, <1>3, <1>4 DEF WatchInv, RequestsTold, watcherVars
<1>. QED BY <1>5, <1>6, <1>7 DEF WatchInv, Watched, EntriesNamed, RequestsTold

\* The POST has returned, or failed.
LEMMA PostWatches ==
  ASSUME TypeOK, WatchInv, NEW j \in DOMAIN jobs, PostAnswered(j) \/ PostFailed(j)
  PROVE  TypeOK' /\ WatchInv'
<1>1. /\ jobs[j] \in JobType /\ j \in Job /\ told \subseteq DOMAIN jobs /\ j # NONE
      /\ queries \in Seq(EntryType)
  BY Types, Constants
<1>2. Watched
  BY DEF Watched, WatchInv, TypeOK
<1>3. told' = told \cup {j} /\ UNCHANGED <<submits, jobs>>
  BY DEF PostAnswered, PostFailed
<1>4. CASE PostAnswered(j)
  <2>1. /\ Watched' /\ _requests' = _requests \cup {j} /\ pollBusy' = pollBusy \cup {j}
    BY <1>1, <1>2, <1>4, Watching DEF PostAnswered
  <2>2. RequestsTold'
    BY <1>3, <1>4, <2>1 DEF PostAnswered, WatchInv, RequestsTold
  <2>3. jobs[j].q \in Query /\ Update(jobs[j].q, "PROCESSING", j, <<>>)
    BY <1>1, <1>4 DEF PostAnswered, JobType
  <2>4. "PROCESSING" \in QueryState /\ <<>> \in Seq(Nat)
    BY EmptySeq DEF QueryState
  <2>5. EntriesNamed' /\ queries' \in Seq(EntryType) /\ Len(queries') <= MaxEntries
    BY <1>1, <1>3, <2>1, <2>3, <2>4, UpdateNames
  <2>6. TypeOK'
    BY <1>1, <1>3, <2>1, <2>5 DEF TypeOK, EntryType, Watched
  <2>. QED BY <2>1, <2>2, <2>5, <2>6 DEF WatchInv, Watched, EntriesNamed, RequestsTold
<1>5. CASE PostFailed(j)
  <2>1. UNCHANGED <<queries, submits, jobs, watcherVars>>
    BY <1>5 DEF PostFailed
  <2>2. TypeOK'
    BY <1>1, <1>3, <2>1 DEF TypeOK, watcherVars, W!WatcherTypeOK
  <2>. QED BY <1>1, <1>3, <2>1, <2>2 DEF WatchInv, watcherVars
<1>. QED BY <1>4, <1>5

\* What the four callbacks have in common.
LEMMA Delivers ==
  ASSUME TypeOK, WatchInv, NEW j \in DOMAIN jobs, Deliver(j)
  PROVE  /\ told' = told /\ submits' = submits
         /\ \/ W!Deliver(j, {}) /\ UNCHANGED <<queries, jobs>>
            \/ \E S \in {{}, {j}}, rows \in Seq(Nat), state \in {"SUCCESS", "FAILED"} :
                 /\ W!Deliver(j, S) /\ Update(jobs[j].q, state, NONE, rows)
                 /\ UNCHANGED jobs \/ Post(jobs[j].q, jobs[j].page + 1)
<1>1. jobs[j] \in JobType
  BY Types
<1>2. Rows(j) \in Seq(Nat) /\ <<>> \in Seq(Nat)
  BY <1>1, RowsTyped, EmptySeq
<1>3. CASE OnComplete(j)
  BY <1>2, <1>3 DEF OnComplete
<1>4. CASE OnFailed(j) \/ OnNoData(j)
  BY <1>2, <1>4 DEF OnFailed, OnNoData, serverVars
<1>5. CASE OnError(j)
  BY <1>2, <1>5 DEF OnError, serverVars
<1>6. CASE OnPending(j)
  BY <1>6 DEF OnPending, serverVars, storeVars
<1>. QED BY <1>3, <1>4, <1>5, <1>6 DEF Deliver

\* An answer is taken in.
LEMMA DeliverWatches ==
  ASSUME TypeOK, WatchInv, NEW j \in DOMAIN jobs, Deliver(j)
  PROVE  TypeOK' /\ WatchInv'
<1>1. /\ jobs \in Seq(JobType) /\ Len(jobs) <= MaxJobs /\ told \subseteq DOMAIN jobs
      /\ queries \in Seq(EntryType) /\ Len(queries) <= MaxEntries
      /\ jobs[j] \in JobType /\ j \in Job
  BY Types
<1>2. Watched /\ RequestsTold /\ EntriesNamed
  BY WatchParts
<1>3. told' = told /\ submits' = submits
  BY Delivers
<1>4. CASE W!Deliver(j, {}) /\ UNCHANGED <<queries, jobs>>
  <2>1. Watched' /\ _requests' = _requests \ {} /\ pollBusy' = pollBusy \ {j}
    BY <1>1, <1>2, <1>4, Delivered
  <2>2. RequestsTold' /\ EntriesNamed'
    BY <1>2, <1>3, <1>4, <2>1 DEF RequestsTold, EntriesNamed
  <2>3. TypeOK'
    BY <1>3, <1>4, <2>1 DEF TypeOK, Watched
  <2>. QED BY <2>1, <2>2, <2>3 DEF WatchInv, Watched, RequestsTold, EntriesNamed
<1>5. ASSUME NEW S \in {{}, {j}}, NEW rows \in Seq(Nat), NEW state \in {"SUCCESS", "FAILED"},
             W!Deliver(j, S), Update(jobs[j].q, state, NONE, rows),
             UNCHANGED jobs \/ Post(jobs[j].q, jobs[j].page + 1)
      PROVE  TypeOK' /\ WatchInv'
  <2>1. /\ Watched' /\ _requests' = _requests \ S /\ pollBusy' = pollBusy \ {j}
    BY <1>1, <1>2, <1>5, Delivered
  <2>2. /\ jobs' \in Seq(JobType) /\ Len(jobs') <= MaxJobs /\ DOMAIN jobs \subseteq DOMAIN jobs'
        /\ \A k \in DOMAIN jobs : jobs'[k] = jobs[k]
    <3>1. jobs[j].q \in Query /\ jobs[j].page + 1 \in Nat
      BY <1>1 DEF JobType
    <3>. QED BY <1>1, <1>5, <3>1, Posted
  <2>3. RequestsTold'
    BY <1>1, <1>2, <1>3, <2>1, <2>2 DEF RequestsTold
  <2>4. EntriesNamed' /\ queries' \in Seq(EntryType) /\ Len(queries') <= MaxEntries
    <3>1. jobs[j].q \in Query /\ state \in QueryState /\ NONE \in Job \cup {NONE}
      BY <1>1 DEF JobType, QueryState
    <3>2. told \subseteq told' /\ \A k \in told : jobs'[k].q = jobs[k].q
      BY <1>1, <1>3, <2>2
    <3>3. \A k \in _requests : k \in _requests' \/ jobs[k].q = jobs[j].q
      BY <2>1
    <3>. QED BY <1>5, <3>1, <3>2, <3>3, UpdateNames
  <2>5. TypeOK'
    BY <1>1, <1>3, <2>1, <2>2, <2>4 DEF TypeOK, EntryType, JobType, Watched
  <2>. QED BY <2>1, <2>3, <2>4, <2>5 DEF WatchInv, Watched, RequestsTold, EntriesNamed
<1>. QED BY <1>4, <1>5, Delivers

\* A query is cancelled.
LEMMA CancelWatches ==
  ASSUME TypeOK, WatchInv, NEW i \in DOMAIN queries, Cancel(i)
  PROVE  TypeOK' /\ WatchInv'
<1>1. /\ queries \in Seq(EntryType) /\ queries[i] \in EntryType /\ Len(queries) <= MaxEntries
      /\ told \subseteq DOMAIN jobs /\ \A k \in DOMAIN jobs : k \in Job
  BY Types
<1>2. Watched /\ RequestsTold /\ EntriesNamed
  BY WatchParts
<1>3. queries[i].status_url \in _requests
  BY <1>2 DEF Cancel, EntriesNamed
<1>4. PICK u \in Job : u = queries[i].status_url /\ u \in told /\ jobs[u].q = queries[i].id
  BY <1>1, <1>2, <1>3, Constants DEF EntriesNamed, Watched, W!WatcherTypeOK
<1>5. PICK q \in Query : q = queries[i].id
  BY <1>1 DEF EntryType
<1>6. /\ UNCHANGED <<submits, serverVars>> /\ Update(q, "CANCELLED", NONE, <<>>)
      /\ W!Unwatch({u}) /\ uri' = uri /\ pollBusy' = pollBusy /\ reply' = reply
  BY <1>4, <1>5 DEF Cancel, W!UnwatchApi
<1>7. Watched' /\ _requests' = _requests \ {u}
  <2>1. \A r \in Job : reply'[r] # NONE => r \in pollBusy'
    BY <1>2, <1>6 DEF Watched, W!WatcherTypeOK
  <2>. QED BY <1>2, <1>6, <2>1, Unwatching
<1>8. RequestsTold'
  BY <1>2, <1>6, <1>7 DEF RequestsTold, serverVars
<1>9. EntriesNamed' /\ queries' \in Seq(EntryType) /\ Len(queries') <= MaxEntries
  <2>1. "CANCELLED" \in QueryState /\ <<>> \in Seq(Nat) /\ NONE \in Job \cup {NONE}
    BY EmptySeq DEF QueryState
  <2>2. \A k \in _requests : k \in _requests' \/ jobs[k].q = q
    BY <1>4, <1>5, <1>7
  <2>3. told \subseteq told' /\ \A k \in told : jobs'[k].q = jobs[k].q
    BY <1>6 DEF serverVars
  <2>. QED BY <1>6, <2>1, <2>2, <2>3, UpdateNames
<1>10. TypeOK'
  BY <1>6, <1>7, <1>9 DEF TypeOK, EntryType, Watched, serverVars
<1>. QED BY <1>7, <1>8, <1>9, <1>10 DEF WatchInv, Watched, RequestsTold, EntriesNamed

\* What is fetched for has been accepted: its answer is one the watcher knows.
LEMMA Fetches ==
  ASSUME TypeOK, WatchInv, Poll \/ \E j \in DOMAIN jobs : Answer(j) \/ Lose(j)
  PROVE  W!_poll \/ \E j \in Job, x \in Status : W!Answer(j, x)
<1>1. RequestsTold /\ \A j \in DOMAIN jobs : jobs[j] \in JobType /\ j \in Job
  BY Types, WatchParts
<1>2. ASSUME NEW j \in DOMAIN jobs, Answer(j)
      PROVE  jobs[j].state \in Status
  <2>1. j \in pollBusy
    BY <1>2 DEF Answer, W!Answer
  <2>2. jobs[j].state \notin {"posting", "refused"} /\ jobs[j].state \in JobState
    BY <1>1, <2>1 DEF RequestsTold, JobType
  <2>. QED BY <2>2 DEF JobState, Status
<1>3. "lost" \in Status
  BY DEF Status
<1>. QED BY <1>1, <1>2, <1>3 DEF Poll, Answer, Lose

\* A tick of the timer, an answer, a lost poll.
LEMMA PollWatches ==
  ASSUME TypeOK, WatchInv, Poll \/ \E j \in DOMAIN jobs : Answer(j) \/ Lose(j)
  PROVE  TypeOK' /\ WatchInv'
<1>1. Watched /\ RequestsTold /\ EntriesNamed
  BY WatchParts
<1>2. \A j \in DOMAIN jobs : jobs[j] \in JobType /\ j \in Job
  BY Types
<1>3. W!_poll \/ \E j \in Job, x \in Status : W!Answer(j, x)
  BY Fetches
<1>4. Watched' /\ _requests' = _requests /\ pollBusy' \subseteq pollBusy \cup _requests
  BY <1>1, <1>3, Polled
<1>5. UNCHANGED <<storeVars, serverVars>>
  BY DEF Poll, Answer, Lose
<1>. QED BY <1>1, <1>4, <1>5
         DEF TypeOK, WatchInv, Watched, RequestsTold, EntriesNamed, storeVars, serverVars

-----------------------------------------------------------------------------
(* The theorems *)

\* Every variable keeps its type, and every entry that bears a url names a job
\* of its own query whose POST has returned.
THEOREM WatchInvariant == Spec => [](TypeOK /\ WatchInv)
<1>1. Init => TypeOK /\ WatchInv
  <2>1. <<>> \in Seq([id : Query, state : QueryState, status_url : Job \cup {NONE},
                      result : Seq(Nat)])
        /\ <<>> \in Seq([q : Query, page : Nat, state : JobState])
        /\ Len(<<>>) = 0 /\ DOMAIN <<>> = {}
    BY EmptySeq
  <2>2. 0 <= MaxEntries /\ 0 <= MaxJobs
    BY Constants
  <2>. SUFFICES ASSUME Init  PROVE TypeOK /\ WatchInv
    OBVIOUS
  <2>3. W!WatcherTypeOK
    BY Constants DEF Init, W!WatcherInit, W!WatcherTypeOK
  <2>4. TypeOK
    BY <2>1, <2>2, <2>3 DEF Init, TypeOK
  <2>. QED BY <2>1, <2>4 DEF Init, WatchInv, W!WatcherInit
<1>2. TypeOK /\ WatchInv /\ [Next]_vars => TypeOK' /\ WatchInv'
  <2>. SUFFICES ASSUME TypeOK, WatchInv, [Next]_vars  PROVE TypeOK' /\ WatchInv'
    OBVIOUS
  <2>1. CASE UNCHANGED vars
    BY <2>1 DEF vars, storeVars, serverVars, watcherVars, TypeOK, WatchInv, W!WatcherTypeOK
  <2>2. CASE Next
    BY <2>2, SubmitWatches, CancelWatches, PollWatches, ServeWatches, PostWatches, DeliverWatches
    DEF Next
  <2>. QED BY <2>1, <2>2
<1>. QED BY <1>1, <1>2, PTL DEF Spec

\* Whatever polls are lost and whichever queries are cancelled, resubmitted or
\* dropped from the list of ten: an entry that shows work in progress is backed
\* by a job that is being polled at the entry's own url.
THEOREM ProgressIsPolled == Spec => []ProcessingIsPolled
<1>1. TypeOK /\ WatchInv => ProcessingIsPolled
  BY DEF WatchInv, ProcessingIsPolled
<1>. QED BY <1>1, WatchInvariant, PTL

\* Taking in an answer is a step that RequestWatcher allows: a callback stops
\* its own request or, when that one has been stopped already, nothing.
LEMMA DeliverIsWatchers ==
  ASSUME Watched, NEW j \in Job, NEW S \in {{}, {j}}, W!Deliver(j, S)
  PROVE  W!WatcherNext
<1>1. CASE S = {}
  BY <1>1 DEF W!WatcherNext
<1>2. CASE S = {j} /\ statusWatchers[j] = j
  <2>1. NONE \notin Job
    BY Constants
  <2>2. \A u \in Job : statusWatchers[u] = j <=> u = j
    BY <1>2, <2>1 DEF Watched
  <2>3. W!UrlsOf(j) = {j}
    BY <2>2 DEF W!UrlsOf
  <2>. QED BY <1>2, <2>3 DEF W!WatcherNext
<1>3. CASE S = {j} /\ statusWatchers[j] = NONE
  <2>1. NONE \notin Job /\ NONE \notin _requests
    BY Constants DEF Watched, W!WatcherTypeOK
  <2>2. W!Stopped({j}) = {NONE} /\ W!Stopped({}) = {}
    BY <1>3 DEF W!Stopped
  <2>3. _requests' = _requests \ W!Stopped({}) /\ _pollTimer' = W!TimerAfterStop({})
    BY <1>3, <2>1, <2>2 DEF W!Deliver, W!Unwatch, W!TimerAfterStop
  <2>4. statusWatchers' = [u \in Job |-> IF u \in {} THEN NONE ELSE statusWatchers[u]]
    BY <1>3 DEF W!Deliver, W!Unwatch
  <2>5. W!Deliver(j, {})
    BY <2>3, <2>4 DEF W!Deliver, W!Unwatch
  <2>. QED BY <2>5 DEF W!WatcherNext
<1>. QED BY <1>1, <1>2, <1>3 DEF Watched

\* Every step of Queries is one the watcher may take, so that what is proved of
\* RequestWatcher can be used below.
LEMMA ImplementsWatcher == Spec => W!WatcherSpec
<1>1. Init => W!WatcherInit
  BY DEF Init
<1>2. TypeOK /\ WatchInv /\ [Next]_vars => [W!WatcherNext]_(W!watcherVars)
  <2>. SUFFICES ASSUME TypeOK, WatchInv, Next
                PROVE  W!WatcherNext \/ UNCHANGED watcherVars
    BY DEF vars, watcherVars, W!watcherVars
  <2>1. /\ \A k \in DOMAIN jobs : k \in Job /\ jobs[k] \in JobType
        /\ told \subseteq DOMAIN jobs /\ Watched /\ EntriesNamed
    BY Types, WatchParts
  <2>2. ASSUME NEW q \in Query, Submit(q)  PROVE UNCHANGED watcherVars
    BY <2>2 DEF Submit
  <2>3. ASSUME NEW i \in DOMAIN queries, Cancel(i)  PROVE W!WatcherNext
    <3>1. queries[i].status_url \in Job
      BY <2>1, <2>3 DEF Cancel, EntriesNamed, Watched, W!WatcherTypeOK
    <3>2. {queries[i].status_url} \in SUBSET Job
      BY <3>1
    <3>. QED BY <2>3, <3>2 DEF Cancel, W!WatcherNext
  <2>4. CASE Poll \/ \E j \in DOMAIN jobs : Answer(j) \/ Lose(j)
    <3>1. W!_poll \/ \E j \in Job, x \in Status : W!Answer(j, x)
      BY <2>4, Fetches
    <3>. QED BY <3>1 DEF W!WatcherNext
  <2>5. ASSUME NEW j \in DOMAIN jobs, Serve(j)  PROVE UNCHANGED watcherVars
    BY <2>5 DEF Serve, Accept, Refuse, Process, Done, Become
  <2>6. ASSUME NEW j \in DOMAIN jobs, PostAnswered(j)  PROVE W!WatcherNext
    <3>1. j \in Job /\ {j} \in SUBSET Job /\ {} \in SUBSET Job /\ [u \in {j} |-> j] \in [{j} -> Job]
      BY <2>1
    <3>2. W!WatchApi({}, [u \in {j} |-> j])
      BY <2>6 DEF PostAnswered
    <3>. QED BY <3>1, <3>2 DEF W!WatcherNext
  <2>7. ASSUME NEW j \in DOMAIN jobs, PostFailed(j)  PROVE UNCHANGED watcherVars
    BY <2>7 DEF PostFailed
  <2>8. ASSUME NEW j \in DOMAIN jobs, Deliver(j)  PROVE W!WatcherNext
    BY <2>1, <2>8, Delivers, DeliverIsWatchers
  <2>. QED BY <2>2, <2>3, <2>4, <2>5, <2>6, <2>7, <2>8 DEF Next
<1>. QED BY <1>1, <1>2, WatchInvariant, PTL DEF Spec, W!WatcherSpec

\* No order of polls, answers and cancellations leaves a timer that polls for
\* nothing, or a job that is polled and that no cancellation could reach.
THEOREM QueriesPollWhileTheyWatch ==
  Spec => [](W!TimerWhileRequests /\ W!EveryRequestCanBeStopped)
<1>1. NONE \notin Job \cup Job \cup Status
  BY Constants DEF Status
<1>2. W!WatcherInit <=> Shared!WatcherInit
  BY DEF W!WatcherInit, Shared!WatcherInit
<1>3. [W!WatcherNext]_(W!watcherVars) <=> [Shared!WatcherNext]_(Shared!watcherVars)
  <2>1. \A S : W!Stopped(S) = Shared!Stopped(S)
    BY DEF W!Stopped, Shared!Stopped
  <2>2. \A S : W!Unwatch(S) <=> Shared!Unwatch(S)
    BY <2>1 DEF W!Unwatch, Shared!Unwatch, W!TimerAfterStop, Shared!TimerAfterStop
  <2>3. \A S : W!UnwatchApi(S) <=> Shared!UnwatchApi(S)
    BY <2>2 DEF W!UnwatchApi, Shared!UnwatchApi
  <2>4. \A r, S : W!Deliver(r, S) <=> Shared!Deliver(r, S)
    BY <2>2 DEF W!Deliver, Shared!Deliver
  <2>5. \A r : (W!DeliverThrows(r) <=> Shared!DeliverThrows(r)) /\ W!UrlsOf(r) = Shared!UrlsOf(r)
    BY DEF W!DeliverThrows, Shared!DeliverThrows, W!UrlsOf, Shared!UrlsOf
  <2>6. \A r, x : W!Answer(r, x) <=> Shared!Answer(r, x)
    BY DEF W!Answer, Shared!Answer
  <2>7. W!_poll <=> Shared!_poll
    BY DEF W!_poll, Shared!_poll
  <2>8. \A w : (W!IsNew(w) <=> Shared!IsNew(w)) /\ W!Registered(w) = Shared!Registered(w)
               /\ W!UriAfter(w) = Shared!UriAfter(w)
    BY DEF W!IsNew, Shared!IsNew, W!Registered, Shared!Registered, W!created, Shared!created,
           W!UriAfter, Shared!UriAfter
  <2>9. \A S, w : W!WatchApi(S, w) <=> Shared!WatchApi(S, w)
    BY <2>1, <2>8 DEF W!WatchApi, Shared!WatchApi
  <2>10. W!WatcherNext <=> Shared!WatcherNext
    BY <2>3, <2>4, <2>5, <2>6, <2>7, <2>9 DEF W!WatcherNext, Shared!WatcherNext
  <2>. QED BY <2>10 DEF W!watcherVars, Shared!watcherVars
<1>4. W!TimerWhileRequests <=> Shared!TimerWhileRequests
  BY DEF W!TimerWhileRequests, Shared!TimerWhileRequests
<1>5. W!EveryRequestCanBeStopped <=> Shared!EveryRequestCanBeStopped
  BY DEF W!EveryRequestCanBeStopped, Shared!EveryRequestCanBeStopped
<1>. QED BY <1>1, <1>2, <1>3, <1>4, <1>5, ImplementsWatcher, Shared!PollsWhileWatched,
            Shared!NothingPollsForever, PTL DEF W!WatcherSpec, Shared!WatcherSpec

-----------------------------------------------------------------------------
(* The pages of a query that is submitted once *)

\* The number of rows asked for is the least of the bounds there are.
LEMMA WantedIsLeast ==
  ASSUME NEW q \in Query
  PROVE  /\ Wanted(q) \in Nat
         /\ Wanted(q) <= Total[q]
         /\ Limit[q] # NONE => Wanted(q) <= Limit[q]
         /\ ~Paginated[q] => Wanted(q) <= Page
         /\ \/ Wanted(q) = Total[q]
            \/ Limit[q] # NONE /\ Wanted(q) = Limit[q]
            \/ ~Paginated[q] /\ Wanted(q) = Page
<1> DEFINE most == IF Paginated[q] THEN {Total[q]} ELSE {Total[q], Page}
           S == most \cup (IF Limit[q] = NONE THEN {} ELSE {Limit[q]})
<1>1. Total[q] \in Nat /\ Page \in Nat /\ (Limit[q] # NONE => Limit[q] \in Nat)
  BY Constants
<1>2. \E x \in S : \A y \in S : x <= y
  <2>1. PICK t \in Nat, p \in Nat : t = Total[q] /\ p = Page
    BY <1>1
  <2>2. \E x \in most : x \in Nat /\ \A y \in most : x <= y
    <3>1. CASE Paginated[q]
      BY <2>1, <3>1
    <3>2. CASE ~Paginated[q] /\ t <= p
      BY <2>1, <3>2
    <3>3. CASE ~Paginated[q] /\ ~(t <= p)
      BY <2>1, <3>3
    <3>. QED BY <3>1, <3>2, <3>3
  <2>3. PICK m \in most : m \in Nat /\ \A y \in most : m <= y
    BY <2>2
  <2>4. most \subseteq Nat
    BY <1>1
  <2>. HIDE DEF most
  <2>5. CASE Limit[q] = NONE
    <3>1. S = most
      BY <2>5
    <3>. QED BY <2>3, <3>1
  <2>6. CASE Limit[q] # NONE
    <3>1. PICK l \in Nat : l = Limit[q]
      BY <1>1, <2>6
    <3>2. S = most \cup {l}
      BY <2>6, <3>1
    <3>. HIDE DEF S
    <3>3. CASE m <= l
      BY <2>3, <3>2, <3>3
    <3>4. CASE ~(m <= l)
      <4>1. \A y \in most : l <= y
        BY <2>3, <2>4, <3>4
      <4>. QED BY <3>1, <3>2, <4>1
    <3>. QED BY <3>3, <3>4
  <2>. QED BY <2>5, <2>6
<1>3. Wanted(q) = CHOOSE x \in S : \A y \in S : x <= y
  BY DEF Wanted, Min
<1>. HIDE DEF S
<1>4. Wanted(q) \in S /\ \A y \in S : Wanted(q) <= y
  BY <1>2, <1>3
<1>. QED BY <1>1, <1>4 DEF S, most

\* The rows of a page begin where the pages before it end; a full page leaves
\* room for the next, any other is the last of what is wanted.
LEMMA RowsOfPage ==
  ASSUME NEW j, jobs[j] \in JobType, PageOK(jobs[j].q, jobs[j].page)
  PROVE  LET q == jobs[j].q
             n == Page * jobs[j].page
             l == Len(Rows(j))
         IN  /\ n \in Nat /\ l \in Nat /\ n + l <= Wanted(q)
             /\ Rows(j) \in Seq(Nat) /\ \A i \in 1..l : Rows(j)[i] = n + i
             /\ IF Paginated[q] /\ l = Page
                  THEN PageOK(q, jobs[j].page + 1) /\ Page * (jobs[j].page + 1) = n + l
                  ELSE n + l = Wanted(q)
<1>1. PICK q \in Query, page \in Nat : q = jobs[j].q /\ page = jobs[j].page
  BY DEF JobType
<1>2. PICK P \in Nat \ {0}, T \in Nat : P = Page /\ T = Total[q]
  BY Constants
<1>3. PICK n \in Nat : n = Page * page
  BY Constants
<1>4. PICK w2 \in Int : w2 = Window(q, page)[2]
  BY WindowTyped
<1>5. PICK l \in Nat : l = Len(Rows(j))
  BY RowsTyped
<1>6. PICK N \in Nat : N = Wanted(q)
  BY WantedIsLeast
<1>7. P * (page + 1) = n + P /\ (page = 0 => n = 0) /\ P * page = n
  BY <1>2, <1>3
<1>8. /\ page > 0 => Paginated[q] /\ (Limit[q] = NONE \/ Limit[q] > P)
      /\ n <= T /\ (Limit[q] # NONE => n <= Limit[q] /\ Limit[q] \in Nat)
      /\ Paginated[q] => Limit[q] # P
  BY <1>1, <1>2, <1>3, Constants DEF PageOK
<1>9. Window(q, page)[1] = n
  <2>1. CASE ~Paginated[q] \/ (Limit[q] # NONE /\ Limit[q] <= Page)
    <3>1. page = 0
      BY <1>2, <1>8, <2>1
    <3>. QED BY <1>7, <2>1, <3>1 DEF Window
  <2>2. CASE ~(~Paginated[q] \/ (Limit[q] # NONE /\ Limit[q] <= Page))
    BY <1>3, <2>2 DEF Window
  <2>. QED BY <2>1, <2>2
<1>10. /\ ~Paginated[q] /\ Limit[q] = NONE => w2 = P
       /\ ~Paginated[q] /\ Limit[q] # NONE => w2 = IF Limit[q] <= P THEN Limit[q] ELSE P
       /\ Paginated[q] /\ Limit[q] # NONE /\ Limit[q] <= P => w2 = Limit[q]
       /\ Paginated[q] /\ Limit[q] = NONE => w2 = P
       /\ Paginated[q] /\ Limit[q] # NONE /\ ~(Limit[q] <= P) =>
            w2 = IF Limit[q] - n <= P THEN Limit[q] - n ELSE P
  <2>1. Limit[q] # NONE => /\ Min({Limit[q], P}) = IF Limit[q] <= P THEN Limit[q] ELSE P
                           /\ Min({Limit[q] - n, P}) = IF Limit[q] - n <= P THEN Limit[q] - n ELSE P
    <3>. SUFFICES ASSUME Limit[q] # NONE
                  PROVE  /\ Min({Limit[q], P}) = IF Limit[q] <= P THEN Limit[q] ELSE P
                         /\ Min({Limit[q] - n, P}) = IF Limit[q] - n <= P THEN Limit[q] - n ELSE P
      OBVIOUS
    <3>1. Limit[q] \in Int /\ Limit[q] - n \in Int /\ P \in Int
      BY <1>8
    <3>. QED BY <3>1, MinOfTwo
  <2>2. CASE ~Paginated[q] \/ (Limit[q] # NONE /\ Limit[q] <= P)
    <3>1. w2 = IF Limit[q] = NONE THEN P ELSE Min({Limit[q], P})
      BY <1>2, <1>4, <2>2 DEF Window
    <3>. QED BY <2>1, <2>2, <3>1
  <2>3. CASE ~(~Paginated[q] \/ (Limit[q] # NONE /\ Limit[q] <= P))
    <3>1. w2 = IF Limit[q] = NONE THEN P ELSE Min({Limit[q] - n, P})
      BY <1>2, <1>3, <1>4, <2>3 DEF Window
    <3>. QED BY <2>1, <2>3, <3>1
  <2>. QED BY <2>2, <2>3
<1>11. PICK last \in Int : /\ last = Min({n + w2, T})
                           /\ last = IF n + w2 <= T THEN n + w2 ELSE T
                           /\ l = IF last > n THEN last - n ELSE 0
  <2>1. n + w2 \in Int /\ T \in Int
    OBVIOUS
  <2>2. Min({n + w2, T}) \in Int /\ Min({n + w2, T}) = IF n + w2 <= T THEN n + w2 ELSE T
    BY <2>1, MinOfTwo
  <2>3. l = IF Min({n + w2, T}) > n THEN Min({n + w2, T}) - n ELSE 0
    BY <1>1, <1>2, <1>4, <1>5, <1>9, RowsTyped
  <2>. QED BY <2>2, <2>3
<1>12. /\ N <= T /\ (Limit[q] # NONE => N <= Limit[q]) /\ (~Paginated[q] => N <= P)
       /\ \/ N = T
          \/ Limit[q] # NONE /\ N = Limit[q]
          \/ ~Paginated[q] /\ N = P
  BY <1>2, <1>6, WantedIsLeast
<1>15. Rows(j) \in Seq(Nat) /\ \A i \in 1..l : Rows(j)[i] = n + i
  BY <1>1, <1>5, <1>9, RowsTyped
<1>13. CASE Paginated[q]
  <2>1. n + l <= N /\ (l # P => n + l = N)
    <3>1. CASE Limit[q] = NONE
      BY <1>8, <1>10, <1>11, <1>12, <1>13, <3>1
    <3>2. CASE Limit[q] # NONE
      <4>1. PICK L \in Nat : L = Limit[q]
        BY <1>8, <3>2
      <4>2. CASE L <= P
        <5>1. n = 0 /\ w2 = L
          BY <1>7, <1>8, <1>10, <1>13, <3>2, <4>1, <4>2
        <5>. QED BY <1>8, <1>11, <1>12, <1>13, <3>2, <4>1, <4>2, <5>1
      <4>3. CASE ~(L <= P)
        <5>1. w2 = IF L - n <= P THEN L - n ELSE P
          BY <1>10, <1>13, <3>2, <4>1, <4>3
        <5>2. n <= L /\ n <= T /\ N <= L /\ N <= T /\ (N = T \/ N = L)
          BY <1>8, <1>12, <1>13, <3>2, <4>1
        <5>3. last = (IF n + w2 <= T THEN n + w2 ELSE T) /\ l = IF last > n THEN last - n ELSE 0
          BY <1>11
        <5>. QED BY ONLY <5>1, <5>2, <5>3, n \in Nat, l \in Nat, w2 \in Int, last \in Int,
                         T \in Nat, P \in Nat \ {0}, N \in Nat, L \in Nat
      <4>. QED BY <4>2, <4>3
    <3>. QED BY <3>1, <3>2
  <2>2. l = P => /\ n + P <= T
                 /\ Limit[q] # NONE => Limit[q] > P /\ n + P <= Limit[q]
    <3>1. CASE Limit[q] = NONE
      BY <1>8, <1>10, <1>11, <1>13, <3>1
    <3>2. CASE Limit[q] # NONE
      <4>1. PICK L \in Nat : L = Limit[q]
        BY <1>8, <3>2
      <4>2. CASE L <= P
        <5>1. n = 0 /\ w2 = L /\ L # P
          BY <1>7, <1>8, <1>10, <1>13, <3>2, <4>1, <4>2
        <5>. QED BY <1>8, <1>11, <1>13, <3>2, <4>1, <4>2, <5>1
      <4>3. CASE ~(L <= P)
        <5>1. w2 = IF L - n <= P THEN L - n ELSE P
          BY <1>10, <1>13, <3>2, <4>1, <4>3
        <5>2. last = (IF n + w2 <= T THEN n + w2 ELSE T) /\ l = (IF last > n THEN last - n ELSE 0)
              /\ n <= L /\ n <= T
          BY <1>8, <1>11, <3>2, <4>1
        <5>3. l = P => n + P <= T /\ n + P <= L
          BY ONLY <5>1, <5>2, n \in Nat, l \in Nat, w2 \in Int, last \in Int,
                  T \in Nat, P \in Nat \ {0}, L \in Nat
        <5>. QED BY <4>1, <4>3, <5>3
      <4>. QED BY <4>2, <4>3
    <3>. QED BY <3>1, <3>2
  <2>3. l = P => PageOK(q, page + 1) /\ Page * (page + 1) = n + l
    BY <1>2, <1>7, <1>13, <2>2 DEF PageOK
  <2>. QED BY <1>1, <1>2, <1>3, <1>5, <1>6, <1>13, <1>15, <2>1, <2>3
<1>14. CASE ~Paginated[q]
  <2>1. n = 0 /\ page = 0
    BY <1>7, <1>8, <1>14
  <2>2. n + l = N
    <3>1. CASE Limit[q] = NONE
      BY <1>8, <1>10, <1>11, <1>12, <1>14, <2>1, <3>1
    <3>2. CASE Limit[q] # NONE
      <4>1. PICK L \in Nat : L = Limit[q]
        BY <1>8, <3>2
      <4>2. w2 = IF L <= P THEN L ELSE P
        BY <1>10, <1>14, <3>2, <4>1
      <4>. QED BY <1>11, <1>12, <1>14, <2>1, <3>2, <4>1, <4>2
    <3>. QED BY <3>1, <3>2
  <2>. QED BY <1>1, <1>2, <1>3, <1>5, <1>6, <1>14, <1>15, <2>2
<1>. QED BY <1>13, <1>14

\* A step that posts nothing, adds no rows and makes no job come to life.
LEMMA ResultsKept ==
  ASSUME PageInv, ResultInv, submits' = submits, DOMAIN jobs' = DOMAIN jobs,
         \A j \in DOMAIN jobs :
           jobs'[j].q = jobs[j].q /\ jobs'[j].page = jobs[j].page /\ (Open(j)' => Open(j)),
         DOMAIN queries' = DOMAIN queries,
         \A i \in DOMAIN queries :
           /\ queries'[i].id = queries[i].id /\ queries'[i].result = queries[i].result
           /\ queries'[i].state = "SUCCESS" =>
                /\ queries[i].state = "SUCCESS"
                /\ \A j \in JobsOf(queries[i].id) :
                     j \notin told \/ jobs[j].state = "refused" =>
                       j \notin told' \/ jobs'[j].state = "refused"
  PROVE  PageInv' /\ ResultInv'
<1>1. \A q : JobsOf(q)' = JobsOf(q)
  BY DEF JobsOf
<1>2. PageInv'
  <2>1. \A q \in Query : submits'[q] = 0 =>
          JobsOf(q)' = {} /\ \A i \in DOMAIN queries' : queries'[i].id # q
    BY <1>1 DEF PageInv
  <2>3. \A j \in DOMAIN jobs' : Open(j)' => \A k \in JobsOf(jobs[j].q)' : k <= j
    BY <1>1 DEF PageInv
  <2>4. \A j \in DOMAIN jobs' : PageOK(jobs'[j].q, jobs'[j].page)
    BY DEF PageInv
  <2>. QED BY <1>1, <2>1, <2>3, <2>4 DEF PageInv, PageOK
<1>3. ASSUME NEW i \in DOMAIN queries
      PROVE  Holds(queries[i].id, queries[i].state, queries[i].result)'
  <2>1. PICK q : q = queries[i].id
    OBVIOUS
  <2>2. PICK r : r = queries[i].result
    OBVIOUS
  <2>3. Holds(q, queries[i].state, r)
    BY <2>1, <2>2 DEF ResultInv
  <2>4. queries'[i].id = q /\ queries'[i].result = r
    BY <2>1, <2>2
  <2>5. \A j \in JobsOf(q)' : Open(j)' => Len(r) = Page * jobs'[j].page
    BY <1>1, <2>3 DEF Holds, JobsOf
  <2>6. queries'[i].state = "SUCCESS" =>
          Len(r) = Wanted(q) \/ \E j \in JobsOf(q)' : j \notin told' \/ jobs'[j].state = "refused"
    BY <1>1, <2>1, <2>3 DEF Holds
  <2>7. r = [k \in 1..Len(r) |-> k] /\ Len(r) <= Wanted(q)
    BY <2>3 DEF Holds
  <2>. QED BY <2>4, <2>5, <2>6, <2>7 DEF Holds
<1>. QED BY <1>2, <1>3 DEF ResultInv

\* A query that has never been submitted has neither jobs nor entries: it gets
\* the one entry it will have.
LEMMA SubmitKeepsResults ==
  ASSUME TypeOK, PageInv, ResultInv, NEW q \in Query, MaxSubmits[q] <= 1, Submit(q)
  PROVE  PageInv' /\ ResultInv'
<1>1. /\ queries \in Seq(EntryType) /\ jobs \in Seq(JobType) /\ told \subseteq DOMAIN jobs
      /\ \A k \in DOMAIN jobs : jobs[k] \in JobType
  BY Types
<1>2. submits[q] = 0 /\ submits' = [submits EXCEPT ![q] = 1] /\ submits \in [Query -> Nat]
  <2>1. submits[q] \in Nat /\ MaxSubmits[q] \in Nat /\ submits \in [Query -> Nat]
    BY QueriesAssumption DEF TypeOK
  <2>2. submits[q] < MaxSubmits[q] /\ submits' = [submits EXCEPT ![q] = submits[q] + 1]
    BY DEF Submit
  <2>3. submits[q] = 0
    BY <2>1, <2>2
  <2>. QED BY <2>1, <2>2, <2>3
<1>3. JobsOf(q) = {} /\ \A i \in DOMAIN queries : queries[i].id # q
  BY <1>2 DEF PageInv
<1>4. PICK new : new = Len(jobs) + 1
  OBVIOUS
<1>5. /\ DOMAIN jobs' = DOMAIN jobs \cup {new} /\ new \notin DOMAIN jobs
      /\ \A k \in DOMAIN jobs : jobs'[k] = jobs[k]
      /\ jobs'[new] = [q |-> q, page |-> 0, state |-> "posting"]
      /\ new \in Nat
  <2>1. Post(q, 0)
    BY DEF Submit
  <2>2. Len(jobs) \in Nat /\ 0 \in Nat
    BY <1>1, LenProperties
  <2>3. /\ DOMAIN jobs' = DOMAIN jobs \cup {Len(jobs) + 1}
        /\ \A k \in DOMAIN jobs : jobs'[k] = jobs[k] /\ k < Len(jobs) + 1
        /\ jobs'[Len(jobs) + 1] = [q |-> q, page |-> 0, state |-> "posting"]
        /\ Len(jobs) + 1 \notin DOMAIN jobs
    BY <1>1, <2>1, <2>2, Posted
  <2>. QED BY <1>4, <2>2, <2>3
<1>6. /\ \A i \in DOMAIN queries' : queries'[i] = Entry(q) \/ \E k \in DOMAIN queries : queries'[i] = queries[k]
      /\ told' = told /\ _requests' = _requests /\ pollBusy' = pollBusy
  BY <1>1, <1>2, EntryAdded DEF Submit, watcherVars
<1>7. \A k \in DOMAIN jobs : Open(k)' => Open(k)
  BY <1>6 DEF Open
<1>8. JobsOf(q)' = {new} /\ \A p : p # q => JobsOf(p)' = JobsOf(p)
  BY <1>3, <1>5 DEF JobsOf
<1>9. PageInv'
  <2>1. ASSUME NEW p \in Query, submits'[p] = 0
        PROVE  JobsOf(p)' = {} /\ \A i \in DOMAIN queries' : queries'[i].id # p
    <3>1. p # q /\ submits[p] = 0
      BY <1>2, <2>1
    <3>2. Entry(q).id = q
      BY DEF Entry
    <3>. QED BY <1>6, <1>8, <3>1, <3>2 DEF PageInv
  <2>2. ASSUME NEW j \in DOMAIN jobs', Open(j)', NEW k \in DOMAIN jobs', jobs'[k].q = jobs'[j].q
        PROVE  k <= j
    <3>1. CASE j = new
      <4>1. k = new
        BY <1>3, <1>5, <2>2, <3>1 DEF JobsOf
      <4>. QED BY <1>5, <3>1, <4>1
    <3>2. CASE j # new
      <4>1. k # new /\ j \in DOMAIN jobs /\ k \in DOMAIN jobs /\ jobs[k].q = jobs[j].q
        BY <1>3, <1>5, <2>2, <3>2 DEF JobsOf
      <4>. QED BY <1>7, <2>2, <4>1 DEF PageInv, JobsOf
    <3>. QED BY <3>1, <3>2
  <2>3. PageOK(q, 0)
    <3>1. Page * 0 = 0 /\ Total[q] \in Nat /\ (Limit[q] # NONE => Limit[q] \in Nat)
      BY Constants
    <3>. QED BY <3>1 DEF PageOK
  <2>4. \A j \in DOMAIN jobs' : PageOK(jobs'[j].q, jobs'[j].page)
    BY <1>5, <2>3 DEF PageInv
  <2>. QED BY <2>1, <2>2, <2>4 DEF PageInv, JobsOf, PageOK
<1>10. ASSUME NEW i \in DOMAIN queries'
       PROVE  Holds(queries[i].id, queries[i].state, queries[i].result)'
  <2>1. CASE queries'[i] = Entry(q)
    <3>1. queries'[i].id = q /\ queries'[i].state = "INITIAL" /\ queries'[i].result = <<>>
      BY <2>1 DEF Entry
    <3>2. Len(<<>>) = 0 /\ <<>> = [k \in 1..0 |-> k] /\ 0 <= Wanted(q) /\ Page * 0 = 0
      BY WantedIsLeast, Constants
    <3>3. \A j \in JobsOf(q)' : 0 = Page * jobs'[j].page
      BY <1>5, <1>8, <3>2
    <3>. QED BY <3>1, <3>2, <3>3 DEF Holds
  <2>2. ASSUME NEW k \in DOMAIN queries, queries'[i] = queries[k]
        PROVE  Holds(queries[i].id, queries[i].state, queries[i].result)'
    <3>1. PICK p, r, st : p = queries[k].id /\ r = queries[k].result /\ st = queries[k].state
      OBVIOUS
    <3>2. Holds(p, st, r) /\ p # q /\ JobsOf(p)' = JobsOf(p)
      BY <1>3, <1>8, <3>1 DEF ResultInv
    <3>3. \A j \in JobsOf(p) : jobs'[j] = jobs[j] /\ (Open(j)' => Open(j))
      BY <1>5, <1>7 DEF JobsOf
    <3>4. queries'[i].id = p /\ queries'[i].result = r /\ queries'[i].state = st
      BY <2>2, <3>1
    <3>. QED BY <1>6, <3>2, <3>3, <3>4 DEF Holds
  <2>. QED BY <1>6, <2>1, <2>2
<1>. QED BY <1>9, <1>10 DEF ResultInv

\* The rows of a page are added to what the entry holds.
LEMMA RowsAppended ==
  ASSUME NEW r \in Seq(Nat), NEW s \in Seq(Nat), r = [k \in 1..Len(r) |-> k],
         \A k \in 1..Len(s) : s[k] = Len(r) + k
  PROVE  Len(r \o s) = Len(r) + Len(s) /\ r \o s = [k \in 1..Len(r \o s) |-> k]
<1>1. PICK n \in Nat, l \in Nat : n = Len(r) /\ l = Len(s)
  BY LenProperties
<1>2. /\ r \o s \in Seq(Nat) /\ Len(r \o s) = n + l
      /\ \A k \in 1..(n + l) : (r \o s)[k] = IF k <= n THEN r[k] ELSE s[k - n]
  BY <1>1, ConcatProperties
<1>3. ASSUME NEW k \in 1..(n + l)
      PROVE  (r \o s)[k] = k
  <2>1. CASE k <= n
    <3>1. k \in 1..n
      BY <2>1
    <3>2. r[k] = k
      BY <1>1, <3>1
    <3>. QED BY <1>2, <2>1, <3>2
  <2>2. CASE ~(k <= n)
    <3>1. k - n \in 1..l /\ n + (k - n) = k
      BY <2>2
    <3>2. s[k - n] = k
      BY <1>1, <3>1
    <3>. QED BY <1>2, <2>2, <3>2
  <2>. QED BY <2>1, <2>2
<1>4. r \o s = [k \in 1..(n + l) |-> (r \o s)[k]]
  BY <1>2, LenProperties
<1>5. [k \in 1..(n + l) |-> (r \o s)[k]] = [k \in 1..(n + l) |-> k]
  BY <1>3
<1>. QED BY <1>1, <1>2, <1>4, <1>5

\* The answer to the last page asked for: with a full page the next one is
\* asked for, with any other the result is complete.
LEMMA CompleteKeepsResults ==
  ASSUME TypeOK, WatchInv, PageInv, ResultInv, NEW j \in DOMAIN jobs, OnComplete(j)
  PROVE  PageInv' /\ ResultInv'
<1>1. /\ queries \in Seq(EntryType) /\ jobs \in Seq(JobType) /\ told \subseteq DOMAIN jobs
      /\ \A k \in DOMAIN jobs : jobs[k] \in JobType /\ k \in Job
      /\ \A i \in DOMAIN queries : queries[i] \in EntryType
  BY Types
<1>2. PICK q \in Query, page \in Nat : q = jobs[j].q /\ page = jobs[j].page
  BY <1>1 DEF JobType
<1>3. PICK n, rows : n = Page * page /\ rows = Rows(j)
  OBVIOUS
<1>4. PICK l : l = Len(rows)
  OBVIOUS
<1>5. /\ n \in Nat /\ l \in Nat /\ n + l <= Wanted(q)
      /\ rows \in Seq(Nat) /\ \A i \in 1..l : rows[i] = n + i
      /\ IF Paginated[q] /\ l = Page
           THEN PageOK(q, page + 1) /\ Page * (page + 1) = n + l
           ELSE n + l = Wanted(q)
  <2>1. PageOK(q, page)
    BY <1>2 DEF PageInv
  <2>. QED BY <1>1, <1>2, <1>3, <1>4, <2>1, RowsOfPage
<1>6. /\ told' = told /\ submits' = submits /\ Update(q, "SUCCESS", NONE, rows)
      /\ W!Deliver(j, {j})
      /\ IF Paginated[q] /\ l = Page THEN Post(q, page + 1) ELSE jobs' = jobs
  BY <1>2, <1>3, <1>4 DEF OnComplete
<1>7. _requests' = _requests \ {j} /\ pollBusy' = pollBusy \ {j} /\ j \in pollBusy /\ j \in told
  <2>1. Watched
    BY WatchParts
  <2>2. _requests' = _requests \ {j} /\ pollBusy' = pollBusy \ {j} /\ j \in pollBusy
    BY <1>1, <1>6, <2>1, Delivered
  <2>. QED BY <2>2 DEF WatchInv
<1>8. /\ Open(j) /\ ~Open(j)' /\ \A k \in DOMAIN jobs : Open(k)' => Open(k)
      /\ \A k \in JobsOf(q) : ~Open(k)'
  <2>1. Open(j) /\ ~Open(j)' /\ \A k \in DOMAIN jobs : Open(k)' => Open(k)
    BY <1>6, <1>7 DEF Open
  <2>2. ASSUME NEW k \in JobsOf(q), Open(k)  PROVE k = j
    <3>1. k <= j /\ j <= k /\ k \in Job /\ j \in Job
      BY <1>1, <1>2, <2>1, <2>2 DEF PageInv, JobsOf
    <3>. QED BY <3>1 DEF Job
  <2>. QED BY <2>1, <2>2 DEF JobsOf
<1>9. EntriesChanged(q, "SUCCESS", NONE, rows)
  BY <1>1, <1>5, <1>6, Updated DEF QueryState
<1>10. ASSUME NEW i \in DOMAIN queries, queries[i].id = q
       PROVE  /\ queries'[i].result = [k \in 1..(n + l) |-> k]
              /\ Len(queries'[i].result) = n + l
  <2>1. PICK r \in Seq(Nat) : r = queries[i].result
    BY <1>1 DEF EntryType
  <2>2. Holds(q, queries[i].state, r)
    BY <1>10, <2>1 DEF ResultInv
  <2>3. r = [k \in 1..Len(r) |-> k] /\ Len(r) = n
    BY <1>2, <1>3, <1>8, <2>2 DEF Holds, JobsOf
  <2>4. Len(r \o rows) = n + l /\ r \o rows = [k \in 1..(n + l) |-> k]
    BY <1>4, <1>5, <2>3, RowsAppended
  <2>. QED BY <1>9, <1>10, <2>1, <2>4 DEF EntriesChanged
<1>11. CASE ~(Paginated[q] /\ l = Page)
  <2>1. jobs' = jobs /\ n + l = Wanted(q)
    BY <1>5, <1>6, <1>11
  <2>2. \A p : JobsOf(p)' = JobsOf(p)
    BY <2>1 DEF JobsOf
  <2>3. PageInv'
    <3>1. \A p \in Query : submits'[p] = 0 =>
            JobsOf(p)' = {} /\ \A i \in DOMAIN queries' : queries'[i].id # p
      BY <1>6, <1>9, <2>2 DEF PageInv, EntriesChanged
    <3>2. \A k \in DOMAIN jobs' : Open(k)' => \A m \in JobsOf(jobs[k].q)' : m <= k
      BY <1>8, <2>1, <2>2 DEF PageInv
    <3>3. \A k \in DOMAIN jobs' : PageOK(jobs'[k].q, jobs'[k].page)
      BY <2>1 DEF PageInv
    <3>. QED BY <2>1, <3>1, <3>2, <3>3 DEF PageInv, PageOK
  <2>4. ASSUME NEW i \in DOMAIN queries
        PROVE  Holds(queries[i].id, queries[i].state, queries[i].result)'
    <3>1. CASE queries[i].id = q
      <4>1. queries'[i].id = q
        BY <1>9, <3>1 DEF EntriesChanged
      <4>. QED BY <1>5, <1>8, <1>10, <2>1, <2>2, <3>1, <4>1 DEF Holds
    <3>2. CASE queries[i].id # q
      <4>1. PICK p, r, st : p = queries[i].id /\ r = queries[i].result /\ st = queries[i].state
        OBVIOUS
      <4>2. Holds(p, st, r)
        BY <4>1 DEF ResultInv
      <4>3. queries'[i].id = p /\ queries'[i].result = r /\ queries'[i].state = st
        BY <1>9, <3>2, <4>1 DEF EntriesChanged
      <4>. QED BY <1>6, <1>8, <2>1, <2>2, <4>2, <4>3 DEF Holds, JobsOf
    <3>. QED BY <3>1, <3>2
  <2>. QED BY <1>9, <2>3, <2>4 DEF ResultInv, EntriesChanged
<1>12. CASE Paginated[q] /\ l = Page
  <2>1. PICK new : new = Len(jobs) + 1
    OBVIOUS
  <2>2. /\ DOMAIN jobs' = DOMAIN jobs \cup {new} /\ new \notin DOMAIN jobs
        /\ \A k \in DOMAIN jobs : jobs'[k] = jobs[k] /\ k < new
        /\ jobs'[new] = [q |-> q, page |-> page + 1, state |-> "posting"]
        /\ new \in Nat
    <3>1. Post(q, page + 1) /\ page + 1 \in Nat
      BY <1>6, <1>12
    <3>2. Len(jobs) \in Nat
      BY <1>1, LenProperties
    <3>3. /\ DOMAIN jobs' = DOMAIN jobs \cup {Len(jobs) + 1}
          /\ \A k \in DOMAIN jobs : jobs'[k] = jobs[k] /\ k < Len(jobs) + 1
          /\ jobs'[Len(jobs) + 1] = [q |-> q, page |-> page + 1, state |-> "posting"]
          /\ Len(jobs) + 1 \notin DOMAIN jobs
      BY <1>1, <3>1, Posted
    <3>. QED BY <2>1, <3>2, <3>3
  <2>3. PageOK(q, page + 1) /\ Page * (page + 1) = n + l
    BY <1>5, <1>12
  <2>4. JobsOf(q)' = JobsOf(q) \cup {new} /\ \A p : p # q => JobsOf(p)' = JobsOf(p)
    BY <2>2 DEF JobsOf
  <2>5. PageInv'
    <3>1. \A p \in Query : submits'[p] = 0 =>
            JobsOf(p)' = {} /\ \A i \in DOMAIN queries' : queries'[i].id # p
      <4>1. j \in JobsOf(q)
        BY <1>2 DEF JobsOf
      <4>. QED BY <1>6, <1>9, <2>4, <4>1 DEF PageInv, EntriesChanged
    <3>2. ASSUME NEW k \in DOMAIN jobs', Open(k)', NEW m \in DOMAIN jobs', jobs'[m].q = jobs'[k].q
          PROVE  m <= k
      <4>1. CASE k = new
        BY <1>1, <2>2, <4>1 DEF Job
      <4>2. CASE k # new
        <5>1. k \in DOMAIN jobs /\ jobs'[k] = jobs[k] /\ jobs[k].q # q
          BY <1>8, <2>2, <3>2, <4>2 DEF JobsOf
        <5>2. m \in DOMAIN jobs /\ jobs[m].q = jobs[k].q
          BY <2>2, <3>2, <5>1
        <5>. QED BY <1>8, <3>2, <5>1, <5>2 DEF PageInv, JobsOf
      <4>. QED BY <4>1, <4>2
    <3>3. \A k \in DOMAIN jobs' : PageOK(jobs'[k].q, jobs'[k].page)
      BY <2>2, <2>3 DEF PageInv
    <3>. QED BY <3>1, <3>2, <3>3 DEF PageInv, PageOK, JobsOf
  <2>6. ASSUME NEW i \in DOMAIN queries
        PROVE  Holds(queries[i].id, queries[i].state, queries[i].result)'
    <3>1. CASE queries[i].id = q
      <4>1. queries'[i].id = q
        BY <1>9, <3>1 DEF EntriesChanged
      <4>2. \A k \in JobsOf(q)' : Open(k)' => n + l = Page * jobs'[k].page
        BY <1>8, <2>2, <2>3, <2>4
      <4>3. new \in JobsOf(q)' /\ new \notin told'
        BY <1>1, <1>6, <2>2, <2>4
      <4>. QED BY <1>5, <1>10, <3>1, <4>1, <4>2, <4>3 DEF Holds
    <3>2. CASE queries[i].id # q
      <4>1. PICK p, r, st : p = queries[i].id /\ r = queries[i].result /\ st = queries[i].state
        OBVIOUS
      <4>2. Holds(p, st, r) /\ JobsOf(p)' = JobsOf(p)
        BY <2>4, <3>2, <4>1 DEF ResultInv
      <4>3. queries'[i].id = p /\ queries'[i].result = r /\ queries'[i].state = st
        BY <1>9, <3>2, <4>1 DEF EntriesChanged
      <4>4. \A k \in JobsOf(p) : jobs'[k] = jobs[k] /\ (Open(k)' => Open(k))
        BY <1>8, <2>2 DEF JobsOf
      <4>. QED BY <1>6, <4>2, <4>3, <4>4 DEF Holds
    <3>. QED BY <3>1, <3>2
  <2>. QED BY <1>9, <2>5, <2>6 DEF ResultInv, EntriesChanged
<1>. QED BY <1>11, <1>12

\* An update that brings no rows.
LEMMA StateChanged ==
  ASSUME TypeOK, NEW q \in Query, NEW state \in QueryState, NEW url \in Job \cup {NONE},
         Update(q, state, url, <<>>)
  PROVE  /\ DOMAIN queries' = DOMAIN queries
         /\ \A i \in DOMAIN queries :
              /\ queries'[i].id = queries[i].id /\ queries'[i].result = queries[i].result
              /\ queries'[i].state = IF queries[i].id = q THEN state ELSE queries[i].state
<1>1. queries \in Seq(EntryType) /\ \A i \in DOMAIN queries : queries[i] \in EntryType
  BY Types
<1>2. EntriesChanged(q, state, url, <<>>)
  BY <1>1, Updated, EmptySeq
<1>3. \A i \in DOMAIN queries : queries[i].result \o <<>> = queries[i].result
  BY <1>1, ConcatEmptySeq DEF EntryType
<1>. QED BY <1>2, <1>3 DEF EntriesChanged

\* Every other step of the client and every step of the server.
LEMMA OthersKeepResults ==
  ASSUME TypeOK, WatchInv, PageInv, ResultInv,
         \/ \E i \in DOMAIN queries : Cancel(i)
         \/ Poll
         \/ \E j \in DOMAIN jobs :
              \/ Serve(j) \/ PostAnswered(j) \/ PostFailed(j) \/ Answer(j) \/ Lose(j)
              \/ OnNoData(j) \/ OnFailed(j) \/ OnError(j) \/ OnPending(j)
  PROVE  PageInv' /\ ResultInv'
<1>1. /\ queries \in Seq(EntryType) /\ jobs \in Seq(JobType) /\ told \subseteq DOMAIN jobs
      /\ \A k \in DOMAIN jobs : jobs[k] \in JobType /\ k \in Job
      /\ \A i \in DOMAIN queries : queries[i] \in EntryType
      /\ \A k \in DOMAIN jobs : jobs[k].q \in Query
  BY Types DEF JobType
<1>2. Watched /\ RequestsTold /\ EntriesNamed /\ NONE \notin Job
  BY WatchParts, Constants
<1>3. ASSUME NEW i \in DOMAIN queries, Cancel(i)  PROVE PageInv' /\ ResultInv'
  <2>1. PICK q \in Query : q = queries[i].id
    BY <1>1 DEF EntryType
  <2>2. /\ Update(q, "CANCELLED", NONE, <<>>) /\ pollBusy' = pollBusy
        /\ UNCHANGED <<submits, jobs, told>> /\ _requests' \subseteq _requests
    BY <1>3, <2>1 DEF Cancel, W!UnwatchApi, W!Unwatch, serverVars
  <2>3. /\ DOMAIN queries' = DOMAIN queries
        /\ \A k \in DOMAIN queries :
             /\ queries'[k].id = queries[k].id /\ queries'[k].result = queries[k].result
             /\ queries'[k].state = IF queries[k].id = q THEN "CANCELLED" ELSE queries[k].state
    BY <2>2, StateChanged DEF QueryState
  <2>4. \A k \in DOMAIN jobs : Open(k)' => Open(k)
    BY <2>2 DEF Open
  <2>. QED BY <2>2, <2>3, <2>4, ResultsKept
<1>4. CASE Poll \/ \E j \in DOMAIN jobs : Answer(j) \/ Lose(j)
  <2>1. _requests' = _requests /\ pollBusy' \subseteq pollBusy \cup _requests
    BY <1>2, <1>4, Fetches, Polled
  <2>2. UNCHANGED <<storeVars, serverVars>>
    BY <1>4 DEF Poll, Answer, Lose
  <2>3. \A k \in DOMAIN jobs : Open(k)' => Open(k)
    BY <2>1, <2>2 DEF Open, serverVars
  <2>. QED BY <2>2, <2>3, ResultsKept DEF storeVars, serverVars
<1>5. ASSUME NEW j \in DOMAIN jobs, Serve(j)  PROVE PageInv' /\ ResultInv'
  <2>1. PICK state \in {"inactive", "refused", "active", "complete", "failed"} :
          Become(j, state) /\ jobs[j].state # "refused"
    BY <1>5 DEF Serve, Accept, Refuse, Process, Done, Final, InState
  <2>2. /\ DOMAIN jobs' = DOMAIN jobs
        /\ \A k \in DOMAIN jobs : /\ jobs'[k].q = jobs[k].q /\ jobs'[k].page = jobs[k].page
                                  /\ jobs'[k].state = IF k = j THEN state ELSE jobs[k].state
    BY <1>1, <2>1, Became DEF JobState
  <2>3. UNCHANGED <<storeVars, told, watcherVars>>
    BY <2>1 DEF Become
  <2>4. \A k \in DOMAIN jobs : Open(k)' => Open(k)
    BY <2>3 DEF Open, watcherVars
  <2>5. \A k \in DOMAIN jobs : k \notin told \/ jobs[k].state = "refused" =>
                               k \notin told' \/ jobs'[k].state = "refused"
    BY <2>1, <2>2, <2>3
  <2>. QED BY <2>2, <2>3, <2>4, <2>5, ResultsKept DEF storeVars, JobsOf
<1>6. ASSUME NEW j \in DOMAIN jobs, PostAnswered(j)  PROVE PageInv' /\ ResultInv'
  <2>1. /\ Update(jobs[j].q, "PROCESSING", j, <<>>)
        /\ told' = told \cup {j} /\ UNCHANGED <<submits, jobs>> /\ j \notin told
    BY <1>6 DEF PostAnswered
  <2>2. /\ DOMAIN queries' = DOMAIN queries
        /\ \A k \in DOMAIN queries :
             /\ queries'[k].id = queries[k].id /\ queries'[k].result = queries[k].result
             /\ queries'[k].state = IF queries[k].id = jobs[j].q THEN "PROCESSING" ELSE queries[k].state
    <3>1. "PROCESSING" \in QueryState /\ j \in Job \cup {NONE} /\ jobs[j].q \in Query
      BY <1>1 DEF QueryState
    <3>. QED BY <2>1, <3>1, StateChanged
  <2>3. _requests' = _requests \cup {j} /\ pollBusy' = pollBusy \cup {j}
    BY <1>1, <1>2, <1>6, Watching DEF PostAnswered
  <2>4. \A k \in DOMAIN jobs : Open(k)' => Open(k)
    BY <2>1, <2>3 DEF Open
  <2>5. ASSUME NEW i \in DOMAIN queries, queries'[i].state = "SUCCESS"
        PROVE  /\ queries[i].state = "SUCCESS"
               /\ \A k \in JobsOf(queries[i].id) : k \notin told => k \notin told'
    BY <2>1, <2>2, <2>5 DEF JobsOf
  <2>. QED BY <2>1, <2>2, <2>4, <2>5, ResultsKept
<1>7. ASSUME NEW j \in DOMAIN jobs, PostFailed(j)  PROVE PageInv' /\ ResultInv'
  <2>1. /\ told' = told \cup {j} /\ UNCHANGED <<queries, submits, jobs, watcherVars>>
        /\ jobs[j].state = "refused"
    BY <1>7 DEF PostFailed
  <2>2. \A k \in DOMAIN jobs : Open(k)' => Open(k)
    BY <2>1 DEF Open, watcherVars
  <2>. QED BY <2>1, <2>2, ResultsKept
<1>8. ASSUME NEW j \in DOMAIN jobs, OnNoData(j) \/ OnFailed(j) \/ OnError(j) \/ OnPending(j)
      PROVE  PageInv' /\ ResultInv'
  <2>1. UNCHANGED <<submits, jobs, told>>
    BY <1>8 DEF OnNoData, OnFailed, OnError, OnPending, serverVars, storeVars
  <2>2. _requests' \subseteq _requests /\ pollBusy' \subseteq pollBusy
    BY <1>8 DEF OnNoData, OnFailed, OnError, OnPending, W!Deliver, W!Unwatch
  <2>3. \A k \in DOMAIN jobs : Open(k)' => Open(k)
    BY <2>1, <2>2 DEF Open
  <2>4. /\ DOMAIN queries' = DOMAIN queries
        /\ \A k \in DOMAIN queries :
             /\ queries'[k].id = queries[k].id /\ queries'[k].result = queries[k].result
             /\ queries'[k].state \in {queries[k].state, "FAILED"}
    <3>1. CASE OnPending(j)
      BY <3>1 DEF OnPending, storeVars
    <3>2. CASE OnNoData(j) \/ OnFailed(j) \/ OnError(j)
      <4>1. "FAILED" \in QueryState /\ NONE \in Job \cup {NONE} /\ jobs[j].q \in Query
        BY <1>1 DEF QueryState
      <4>2. Update(jobs[j].q, "FAILED", NONE, <<>>)
        BY <3>2 DEF OnNoData, OnFailed, OnError
      <4>. QED BY <4>1, <4>2, StateChanged
    <3>. QED BY <1>8, <3>1, <3>2
  <2>. QED BY <2>1, <2>3, <2>4, ResultsKept
<1>. QED BY <1>3, <1>4, <1>5, <1>6, <1>7, <1>8

\* Queries that are submitted once each keep PageInv and ResultInv.  (A saved
\* query that is submitted again adds the rows of the second run to those of
\* the first: the hypothesis is needed.)
THEOREM ResultInvariant ==
  ASSUME \A q \in Query : MaxSubmits[q] <= 1
  PROVE  Spec => [](PageInv /\ ResultInv)
<1>1. Init => PageInv /\ ResultInv
  <2>. SUFFICES ASSUME Init  PROVE PageInv /\ ResultInv
    OBVIOUS
  <2>1. DOMAIN queries = {} /\ DOMAIN jobs = {}
    BY EmptySeq DEF Init
  <2>. QED BY <2>1 DEF PageInv, ResultInv, JobsOf
<1>2. TypeOK /\ WatchInv /\ PageInv /\ ResultInv /\ [Next]_vars => PageInv' /\ ResultInv'
  <2>. SUFFICES ASSUME TypeOK, WatchInv, PageInv, ResultInv, [Next]_vars
                PROVE  PageInv' /\ ResultInv'
    OBVIOUS
  <2>1. CASE UNCHANGED vars
    <3>1. UNCHANGED <<queries, submits, jobs, told, _requests, pollBusy>>
      BY <2>1 DEF vars, storeVars, serverVars, watcherVars
    <3>2. \A j \in DOMAIN jobs : Open(j)' => Open(j)
      BY <3>1 DEF Open
    <3>. QED BY <3>1, <3>2, ResultsKept
  <2>2. CASE Next
    BY <2>2, SubmitKeepsResults, CompleteKeepsResults, OthersKeepResults DEF Next, Deliver
  <2>. QED BY <2>1, <2>2
<1>. QED BY <1>1, <1>2, WatchInvariant, PTL DEF Spec

\* However polls and POSTs fail, queries are cancelled, or entries are cut from
\* the list, the pages of a query add up to its first rows, in order, none
\* twice and none left out.
THEOREM PagesAddUp ==
  ASSUME \A q \in Query : MaxSubmits[q] <= 1
  PROVE  Spec => []RowsInOrderOnce
<1>1. ResultInv => RowsInOrderOnce
  BY DEF ResultInv, Holds, RowsInOrderOnce
<1>. QED BY <1>1, ResultInvariant, PTL

\* An entry that shows success, with nothing under way and no page refused,
\* holds every row that was asked for.
THEOREM SuccessHoldsEveryRow ==
  ASSUME \A q \in Query : MaxSubmits[q] <= 1
  PROVE  Spec => []SuccessIsComplete
<1>1. ResultInv => SuccessIsComplete
  BY DEF ResultInv, Holds, SuccessIsComplete, Unread, JobsOf
<1>. QED BY <1>1, ResultInvariant, PTL

\* Of a query that is submitted once no two pages are ever on their way: not
\* after a cancellation, a lost poll or the POST of the next page.
THEOREM PagesComeOneByOne ==
  ASSUME \A q \in Query : MaxSubmits[q] <= 1
  PROVE  Spec => []OnePageAtATime
<1>1. TypeOK /\ PageInv => OnePageAtATime
  <2>. SUFFICES ASSUME TypeOK, PageInv, NEW j \in DOMAIN jobs, NEW k \in DOMAIN jobs,
                       jobs[j].q = jobs[k].q, Open(j), Open(k)
                PROVE  j = k
    BY DEF OnePageAtATime
  <2>1. j <= k /\ k <= j
    BY DEF PageInv, JobsOf
  <2>2. j \in Int /\ k \in Int
    BY Types DEF Job
  <2>. QED BY <2>1, <2>2
<1>. QED BY <1>1, WatchInvariant, ResultInvariant, PTL
=============================================================================
