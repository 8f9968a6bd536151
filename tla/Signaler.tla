------------------------------ MODULE Signaler ------------------------------
(***************************************************************************)
(* The done indicators of detectors and engines (sync/Signaler.h with      *)
(* Mutex.h, MutexLocker.h and WaitCondition.h): a flag under a mutex with a *)
(* condition variable.  Who raises the flag holds the mutex from its first *)
(* step to its last; who waits for it looks at the flag under the mutex,   *)
(* gives the mutex up as it falls asleep and takes it again on the way out. *)
(***************************************************************************)
EXTENDS Threads, FiniteSets

CONSTANTS Signals,   \* the Signaler objects
          Spurious   \* whether pthread_cond_wait may return unsignalled

ASSUME SignalerAssumption ==
  /\ NULL \notin Signals \cup Threads
  /\ Spurious \in BOOLEAN

VARIABLES mStatus,  \* Signaler::mStatus
          mGuard,   \* the thread that holds Signaler::mGuard, or NULL
          waiting,  \* the signaler a thread is blocked on in waitSignal
          asleep    \* threads inside pthread_cond_wait that nobody woke yet

signalerVars == <<mStatus, mGuard, waiting, asleep>>

SignalerTypeOK ==
  /\ mStatus \in [Signals -> BOOLEAN]
  /\ mGuard \in [Signals -> Threads \cup {NULL}]
  /\ waiting \in [Threads -> Signals \cup {NULL}]
  /\ asleep \in SUBSET Threads

SignalerInit ==
  /\ mStatus = [s \in Signals |-> FALSE]
  /\ mGuard = [s \in Signals |-> NULL]
  /\ waiting = [t \in Threads |-> NULL]
  /\ asleep = {}

-----------------------------------------------------------------------------
\* A thread makes one call at a time.
Free(t) == waiting[t] = NULL /\ \A s \in Signals : mGuard[s] # t

Sleepers(s) == {t \in asleep : waiting[t] = s}

\* Faulty variant: the flag is raised and nobody is woken.
RaiseSilently(t, s) ==
  /\ Free(t) /\ mGuard[s] = NULL
  /\ mGuard' = [mGuard EXCEPT ![s] = t]
  /\ mStatus' = [mStatus EXCEPT ![s] = TRUE]
  /\ UNCHANGED <<waiting, asleep>>

\* Faulty variant: the flag is raised and sleepers are woken without the mutex.
RaiseUnlocked(t, s) ==
  /\ Free(t)
  /\ mStatus' = [mStatus EXCEPT ![s] = TRUE]
  /\ asleep' = asleep \ Sleepers(s)
  /\ UNCHANGED <<mGuard, waiting>>

\* operator = (true), and signal(): lock, raise the flag, wake every sleeper.
Raise(t, s) ==
  /\ Free(t) /\ mGuard[s] = NULL
  /\ mGuard' = [mGuard EXCEPT ![s] = t]
  /\ mStatus' = [mStatus EXCEPT ![s] = TRUE]
  /\ asleep' = asleep \ Sleepers(s)
  /\ UNCHANGED waiting

\* The MutexLocker of either goes out of scope.
Release(t, s) ==
  /\ mGuard[s] = t /\ waiting[t] # s
  /\ mGuard' = [mGuard EXCEPT ![s] = NULL]
  /\ UNCHANGED <<mStatus, waiting, asleep>>

\* waitSignal() that finds the flag raised: it returns at once.
Pass(t, s) ==
  /\ Free(t) /\ mGuard[s] = NULL
  /\ mStatus[s]
  /\ UNCHANGED signalerVars

\* waitSignal() that finds it lowered: the thread holds the mutex, has looked at
\* the flag and is about to call pthread_cond_wait.
Look(t, s) ==
  /\ Free(t) /\ mGuard[s] = NULL
  /\ ~mStatus[s]
  /\ mGuard' = [mGuard EXCEPT ![s] = t]
  /\ waiting' = [waiting EXCEPT ![t] = s]
  /\ UNCHANGED <<mStatus, asleep>>

\* pthread_cond_wait gives the mutex up and puts the thread to sleep in one step
\* for whoever takes the mutex next.
Sleep(t, s) ==
  /\ mGuard[s] = t /\ waiting[t] = s
  /\ mGuard' = [mGuard EXCEPT ![s] = NULL]
  /\ asleep' = asleep \cup {t}
  /\ UNCHANGED <<mStatus, waiting>>

\* A woken thread takes the mutex again and waitSignal() returns: it was an
\* if, so the flag is not looked at a second time.
Wake(t, s) ==
  /\ waiting[t] = s
  /\ t \notin asleep
  /\ mGuard[s] = NULL
  /\ waiting' = [waiting EXCEPT ![t] = NULL]
  /\ UNCHANGED <<mStatus, mGuard, asleep>>

\* ~Signaler of every signaler in S: signal(), then the memory is given back.
Destroy(S) ==
  /\ \A s \in S : mGuard[s] = NULL
  /\ mStatus' = [s \in Signals |-> s \in S \/ mStatus[s]]
  /\ asleep' = asleep \ UNION {Sleepers(s) : s \in S}
  /\ UNCHANGED <<mGuard, waiting>>

\* pthread_cond_wait returns though nobody signalled, as POSIX allows.
SpuriousWakeup(t) ==
  /\ Spurious
  /\ t \in asleep
  /\ asleep' = asleep \ {t}
  /\ UNCHANGED <<mStatus, mGuard, waiting>>

SignalerNext ==
  \E t \in Threads :
    \/ SpuriousWakeup(t)
    \/ \E s \in Signals : \/ Raise(t, s) \/ Release(t, s)
                          \/ Pass(t, s) \/ Look(t, s)
                          \/ Sleep(t, s) \/ Wake(t, s)
    \/ \E S \in SUBSET Signals : Free(t) /\ Destroy(S)

SignalerSpec == SignalerInit /\ [][SignalerNext]_signalerVars

-----------------------------------------------------------------------------
(* Properties *)

\* No wakeup is lost: nobody sleeps on a flag that has been raised, whatever
\* happens to the flag between a waiter's look at it and its falling asleep.
NoLostWakeup == \A t \in asleep : waiting[t] \in Signals /\ ~mStatus[waiting[t]]
=============================================================================
