--------------------------- MODULE CapturePipeline ---------------------------
(***************************************************************************)
(* How QLAD-flow takes the captures of one name server from the bucket to  *)
(* its detector: three scripts that cron starts every minute or two and    *)
(* that share nothing but directories.                                     *)
(*   run_00_copy-pcap-to-staging.sh  bucket      -> incoming, with history *)
(*   run_01_move_to_processing.sh    incoming    -> processing             *)
(*   run_02_anomaly_analyse.sh       processing  -> anomalies, by source   *)
(*                                   ("Resolver") and then by name         *)
(*                                   ("Domain"), and the files are removed *)
(* ENTRADA starts with the same two scripts.  Captures are numbered by     *)
(* their date, the order run_00 sorts them in.  A script that is killed    *)
(* removes its PID file in its trap; when the power fails it stays.        *)
(***************************************************************************)
EXTENDS Naturals

CONSTANTS Captures,     \* the captures, a finite set of numbers
          Name,         \* Name[f]: what run_01 leaves of f's name, the part
                        \* before the first underscore
          Delete,       \* DELETE_INPUT_PCAP_FILES
          MaxFailures,  \* bound: failures of aws s3 cp
          MaxKills,     \* bound: scripts killed, or power failures
          NONE

ASSUME PipelineAssumption ==
  /\ Captures \subseteq Nat
  /\ DOMAIN Name = Captures
  /\ Delete \in BOOLEAN
  /\ {MaxFailures, MaxKills} \subseteq Nat
  /\ NONE \notin Captures

\* What NothingLost takes: each capture keeps a name of its own.
NamesDiffer == \A f, g \in Captures : Name[f] = Name[g] => f = g

VARIABLES coming,      \* captures nobody has put into the bucket yet
          bucket,      \* captures in $S3_BUCKET, marked DONE
          history,     \* $HISTORY_FILE
          incoming,    \* $DATA_DIR/incoming
          processing,  \* $DATA_DIR/processing: the capture under each name
          pids,        \* PID files
          copying,     \* run_00: where in its loop, and "off" when not running
          todo,        \* run_00: files of its list it has not come to
          analysing,   \* run_02: the same
          files,       \* run_02: the names it has found
          given,       \* given[p][f]: how often policy p was given capture f
          failures, kills

vars == <<coming, bucket, history, incoming, processing, pids, copying, todo,
          analysing, files, given, failures, kills>>

Names == {Name[f] : f \in Captures}
Policies == {"Resolver", "Domain"}
Scripts == {"copy", "analyse"}

TypeOK ==
  /\ {coming, bucket, history, incoming, todo} \subseteq SUBSET Captures
  /\ processing \in [Names -> Captures \cup {NONE}]
  /\ pids \subseteq Scripts
  /\ copying \in {"off", "cp", "echo", "rm"}
  /\ analysing \in {"off", "rm"} \cup Policies
  /\ files \subseteq Names
  /\ given \in [Policies -> [Captures -> Nat]]
  /\ failures \in 0..MaxFailures /\ kills \in 0..MaxKills

Init ==
  /\ coming = Captures
  /\ bucket = {} /\ history = {} /\ incoming = {} /\ todo = {} /\ files = {}
  /\ processing = [n \in Names |-> NONE]
  /\ pids = {}
  /\ copying = "off" /\ analysing = "off"
  /\ given = [p \in Policies |-> [f \in Captures |-> 0]]
  /\ failures = 0 /\ kills = 0

Found == {n \in Names : processing[n] # NONE}

\* The file run_00 has come to: the list is sorted "oldest first".
Current(f) == f \in todo /\ \A g \in todo : f <= g

-----------------------------------------------------------------------------
(* run_00: from the bucket to incoming *)

\* Whoever writes the captures puts one more into the bucket, once.
Arrive(f) ==
  /\ f \in coming
  /\ coming' = coming \ {f}
  /\ bucket' = bucket \cup {f}
  /\ UNCHANGED <<history, incoming, processing, pids, copying, todo,
                 analysing, files, given, failures, kills>>

\* cron starts run_00 and no PID file says that it runs: the list of the bucket
\* is taken once.
StartCopy ==
  /\ "copy" \notin pids
  /\ pids' = pids \cup {"copy"}
  /\ copying' = "cp"
  /\ todo' = bucket
  /\ UNCHANGED <<coming, bucket, history, incoming, processing, analysing, files, given,
                 failures, kills>>

\* "check if the file is not allready processed": it is in the history.
Skip(f) ==
  /\ copying = "cp" /\ Current(f) /\ f \in history
  /\ todo' = todo \ {f}
  /\ UNCHANGED <<coming, bucket, history, incoming, processing, pids, copying,
                 analysing, files, given, failures, kills>>

\* Faulty variant: the next file is copied whatever the history says.
CopyAnyway(f) ==
  /\ copying = "cp" /\ Current(f)
  /\ incoming' = incoming \cup {f}
  /\ copying' = "echo"
  /\ UNCHANGED <<coming, bucket, history, processing, pids, todo, analysing, files, given,
                 failures, kills>>

\* aws s3 cp succeeds,
Copy(f) ==
  /\ copying = "cp" /\ Current(f) /\ f \notin history
  /\ incoming' = incoming \cup {f}
  /\ copying' = "echo"
  /\ UNCHANGED <<coming, bucket, history, processing, pids, todo, analysing, files, given,
                 failures, kills>>

\* Faulty variant: the history remembers the file though cp failed.
CopyFailsRemembered(f) ==
  /\ copying = "cp" /\ Current(f) /\ f \notin history
  /\ failures < MaxFailures
  /\ failures' = failures + 1
  /\ history' = history \cup {f}
  /\ copying' = "rm"
  /\ UNCHANGED <<coming, bucket, incoming, processing, pids, todo, analysing, files,
                 given, kills>>

\* or it fails and the history is left alone.
CopyFails(f) ==
  /\ copying = "cp" /\ Current(f) /\ f \notin history
  /\ failures < MaxFailures
  /\ failures' = failures + 1
  /\ copying' = "rm"
  /\ UNCHANGED <<coming, bucket, history, incoming, processing, pids, todo, analysing, files,
                 given, kills>>

\* echo $f >> $HISTORY_FILE
Remember(f) ==
  /\ copying = "echo" /\ Current(f)
  /\ history' = history \cup {f}
  /\ copying' = "rm"
  /\ UNCHANGED <<coming, bucket, incoming, processing, pids, todo, analysing, files, given,
                 failures, kills>>

\* aws s3 rm, if the input is to be deleted: it does not ask how cp ended.
DeleteInput(f) ==
  /\ copying = "rm" /\ Current(f)
  /\ bucket' = IF Delete THEN bucket \ {f} ELSE bucket
  /\ todo' = todo \ {f}
  /\ copying' = "cp"
  /\ UNCHANGED <<coming, history, incoming, processing, pids, analysing, files, given,
                 failures, kills>>

\* The loop ends, and the trap removes the PID file.
EndCopy ==
  /\ copying = "cp" /\ todo = {}
  /\ copying' = "off"
  /\ pids' = pids \ {"copy"}
  /\ UNCHANGED <<coming, bucket, history, incoming, processing, todo, analysing, files, given,
                 failures, kills>>

-----------------------------------------------------------------------------
(* run_01: from incoming to processing *)

\* One mv, to a name that another capture may have.  cron can have several
\* run_01 at work; the loser of a race for a file finds it gone and goes on.
MoveToProcessing(f) ==
  /\ f \in incoming
  /\ incoming' = incoming \ {f}
  /\ processing' = [processing EXCEPT ![Name[f]] = f]
  /\ UNCHANGED <<coming, bucket, history, pids, copying, todo, analysing, files, given,
                 failures, kills>>

-----------------------------------------------------------------------------
(* run_02: analysis *)

\* cron starts run_02, no PID file says that it runs and there are files: the
\* list of them is taken once.
StartAnalysis ==
  /\ "analyse" \notin pids
  /\ Found # {}
  /\ pids' = pids \cup {"analyse"}
  /\ files' = Found
  /\ analysing' = "Resolver"
  /\ UNCHANGED <<coming, bucket, history, incoming, processing, copying, todo, given,
                 failures, kills>>

\* Faulty variant: every analysis looks for the files anew.
AnalyseFound(p) ==
  /\ analysing = p
  /\ given' = [given EXCEPT ![p] =
                 [f \in Captures |-> IF \E n \in Found : processing[n] = f
                                       THEN @[f] + 1 ELSE @[f]]]
  /\ analysing' = IF p = "Resolver" THEN "Domain" ELSE "rm"
  /\ UNCHANGED <<coming, bucket, history, incoming, processing, pids, copying, todo, files,
                 failures, kills>>

\* pcapmerge | dnsanalyzer | send_anomalies.py, on what the names stand for by
\* now.  Nobody looks at how the three of them end.
Analyse(p) ==
  /\ analysing = p
  /\ given' = [given EXCEPT ![p] =
                 [f \in Captures |-> IF \E n \in files : processing[n] = f
                                       THEN @[f] + 1 ELSE @[f]]]
  /\ analysing' = IF p = "Resolver" THEN "Domain" ELSE "rm"
  /\ UNCHANGED <<coming, bucket, history, incoming, processing, pids, copying, todo, files,
                 failures, kills>>

\* Faulty variant: whatever is in the directory is removed.
RemoveAll ==
  /\ analysing = "rm"
  /\ processing' = [n \in Names |-> NONE]
  /\ files' = {}
  /\ analysing' = "off"
  /\ pids' = pids \ {"analyse"}
  /\ UNCHANGED <<coming, bucket, history, incoming, copying, todo, given, failures, kills>>

\* "delete processed files", and the trap removes the PID file.
RemoveProcessed ==
  /\ analysing = "rm"
  /\ processing' = [n \in Names |-> IF n \in files THEN NONE ELSE processing[n]]
  /\ files' = {}
  /\ analysing' = "off"
  /\ pids' = pids \ {"analyse"}
  /\ UNCHANGED <<coming, bucket, history, incoming, copying, todo, given, failures, kills>>

-----------------------------------------------------------------------------
(* Crashes *)

\* "Make sure cleanup() is called when script is done processing or crashed."
KillCopy ==
  /\ copying # "off" /\ kills < MaxKills
  /\ kills' = kills + 1
  /\ copying' = "off"
  /\ todo' = {}
  /\ pids' = pids \ {"copy"}
  /\ UNCHANGED <<coming, bucket, history, incoming, processing, analysing, files, given,
                 failures>>

KillAnalysis ==
  /\ analysing # "off" /\ kills < MaxKills
  /\ kills' = kills + 1
  /\ analysing' = "off"
  /\ files' = {}
  /\ pids' = pids \ {"analyse"}
  /\ UNCHANGED <<coming, bucket, history, incoming, processing, copying, todo, given,
                 failures>>

\* The machine goes down: no trap runs, and the directories are as they were.
PowerFails ==
  /\ kills < MaxKills
  /\ kills' = kills + 1
  /\ copying' = "off" /\ todo' = {}
  /\ analysing' = "off" /\ files' = {}
  /\ UNCHANGED <<coming, bucket, history, incoming, processing, pids, given, failures>>

-----------------------------------------------------------------------------
CopySteps ==
  EndCopy \/ \E f \in Captures : Skip(f) \/ Copy(f) \/ Remember(f) \/ DeleteInput(f)

AnalyseSteps == (\E p \in Policies : Analyse(p)) \/ RemoveProcessed

Next ==
  \/ \E f \in Captures : Arrive(f) \/ CopyFails(f) \/ MoveToProcessing(f)
  \/ StartCopy \/ CopySteps
  \/ StartAnalysis \/ AnalyseSteps
  \/ KillCopy \/ KillAnalysis \/ PowerFails

Spec == Init /\ [][Next]_vars

\* cron starts the scripts for ever, and one that was started goes on.
Fairness ==
  /\ WF_vars(StartCopy) /\ WF_vars(CopySteps)
  /\ \A f \in Captures : WF_vars(MoveToProcessing(f))
  /\ WF_vars(StartAnalysis) /\ WF_vars(AnalyseSteps)

FairSpec == Spec /\ Fairness

-----------------------------------------------------------------------------
(* Properties *)

\* Where a capture can still be picked up from.
Staged == incoming \cup {processing[n] : n \in Found}

Analysed(f) == \A p \in Policies : given[p][f] > 0

\* The history keeps the next run_00 from copying a capture again, so what it
\* names must not get lost: it is staged, or both analyses were given it,
\* though run_01 brings files while run_02 is at work and any script may die.
\* It takes captures that keep different names (NamesDiffer).
NothingLost == \A f \in history : f \in Staged \/ Analysed(f)

\* A capture is analysed once, and once more for a script that died at most:
\* its anomalies are not counted again and again.
OncePerCrash == \A p \in Policies, f \in Captures : given[p][f] <= 1 + kills

\* Both policies are given the same captures, in that order, unless run_02 died
\* between them.
PoliciesAgree ==
  \A f \in Captures :
    LET behind == IF analysing = "Domain" /\ Name[f] \in files THEN 1 ELSE 0
    IN  /\ given["Domain"][f] + behind <= given["Resolver"][f]
        /\ given["Resolver"][f] <= given["Domain"][f] + behind + kills

\* A PID file whose script is gone.
Stale == \/ "copy" \in pids /\ copying = "off"
         \/ "analyse" \in pids /\ analysing = "off"

\* A capture in the bucket is analysed by both policies in the end, whichever
\* copies fail and scripts die, unless a PID file was left behind.
EventuallyAnalysed == \A f \in Captures : f \in bucket ~> Analysed(f) \/ Stale

\* "remove input pcap files from original location after they are processed"
\* (config.sh): a capture leaves the bucket only when it has been copied.
DeletedWhenCopied ==
  [][\A f \in bucket : f \notin bucket' => f \in history']_vars
=============================================================================
