----------------------- MODULE CapturePipelineProofs -----------------------
(***************************************************************************)
(* Proofs about CapturePipeline for any captures, any number of failures   *)
(* and any number of crashes.                                              *)
(***************************************************************************)
EXTENDS CapturePipeline, TLAPS

-----------------------------------------------------------------------------
(* Nothing is lost *)

Kept(f) == f \in Staged \/ Analysed(f)

\* The names in processing are those of their captures, and nobody but run_02
\* takes a file of its list away.
NamesKept == \A n \in Found : Name[processing[n]] = n

FilesStay ==
  /\ files \subseteq Found
  /\ analysing = "off" => files = {}

\* A capture that has just been copied is kept though the history does not name
\* it yet.
CopiedIsKept == copying = "echo" => \A f \in Captures : Current(f) => Kept(f)

\* What run_02 is about to remove has been given to both policies.
StageReached ==
  \A n \in files :
    /\ analysing \in {"Domain", "rm"} => given["Resolver"][processing[n]] > 0
    /\ analysing = "rm" => given["Domain"][processing[n]] > 0

KeepInv == TypeOK /\ NamesKept /\ FilesStay /\ CopiedIsKept /\ StageReached /\ NothingLost

-----------------------------------------------------------------------------
(* Once per crash *)

\* The stages of run_02 in which policy p has had its captures.
Past(p) == IF p = "Resolver" THEN {"Domain", "rm"} ELSE {"rm"}

\* run_00 can still copy f, counted as 1: the history does not name it, it is
\* not just being written to the history, and no stale PID file is in the way.
ToCopy(f) == IF \/ f \in history
                \/ copying = "echo" /\ Current(f)
                \/ "copy" \in pids /\ copying = "off"
               THEN 0 ELSE 1

ToMove(f) == IF f \in incoming THEN 1 ELSE 0

\* run_02 can still give f to p, where it lies.
ToGive(p, f) == IF \/ processing[Name[f]] # f
                   \/ Name[f] \in files /\ analysing \in Past(p)
                   \/ "analyse" \in pids /\ analysing = "off"
                  THEN 0 ELSE 1

\* Crashes pay for what is copied or analysed anew.
CrashesPay ==
  \A p \in Policies, f \in Captures :
    given[p][f] + ToCopy(f) + ToMove(f) + ToGive(p, f) <= 1 + kills

\* A script that runs has its PID file.
PidsHeld ==
  /\ copying # "off" => "copy" \in pids
  /\ analysing # "off" => "analyse" \in pids

CrashInv == TypeOK /\ NamesKept /\ FilesStay /\ PidsHeld /\ CrashesPay
-----------------------------------------------------------------------------
(* Types *)

\* TypeOK holds at the start,
LEMMA InitiallyTyped ==
  ASSUME Init
  PROVE  TypeOK
<1>1. {MaxFailures, MaxKills} \subseteq Nat
  BY PipelineAssumption
<1>2. given \in [Policies -> [Captures -> Nat]]
  BY DEF Init
<1>. QED BY <1>1, <1>2 DEF Init, TypeOK, Scripts

\* and every step keeps it.
LEMMA Typing ==
  ASSUME TypeOK, [Next]_vars
  PROVE  TypeOK'
<1>. USE PipelineAssumption
<1>1. ASSUME NEW f \in Captures, Arrive(f) PROVE TypeOK'
  BY <1>1 DEF TypeOK, Arrive
<1>2. ASSUME NEW f \in Captures, CopyFails(f) PROVE TypeOK'
  BY <1>2 DEF TypeOK, CopyFails
<1>3. ASSUME NEW f \in Captures, MoveToProcessing(f) PROVE TypeOK'
  BY <1>3 DEF TypeOK, MoveToProcessing, Names
<1>4. CASE StartCopy
  BY <1>4 DEF TypeOK, StartCopy, Scripts
<1>5. CASE CopySteps
  BY <1>5 DEF TypeOK, CopySteps, EndCopy, Skip, Copy, Remember, DeleteInput
<1>6. CASE StartAnalysis
  BY <1>6 DEF TypeOK, StartAnalysis, Scripts, Found, Policies, Names
<1>7. ASSUME NEW p \in Policies, Analyse(p) PROVE TypeOK'
  <2>1. given' \in [Policies -> [Captures -> Nat]]
    BY <1>7 DEF TypeOK, Analyse
  <2>. QED BY <1>7, <2>1 DEF TypeOK, Analyse, Policies
<1>8. CASE RemoveProcessed
  BY <1>8 DEF TypeOK, RemoveProcessed
<1>9. CASE KillCopy \/ KillAnalysis \/ PowerFails
  BY <1>9 DEF TypeOK, KillCopy, KillAnalysis, PowerFails
<1>10. CASE UNCHANGED vars
  BY <1>10 DEF TypeOK, vars
<1>. QED BY <1>1, <1>2, <1>3, <1>4, <1>5, <1>6, <1>7, <1>8, <1>9, <1>10 DEF Next, AnalyseSteps

\* Every reachable state is type correct, for any captures and bounds.
THEOREM TypeInvariant == Spec => []TypeOK
<1>1. TypeOK /\ [Next]_vars => TypeOK'
  BY Typing
<1>. QED BY <1>1, InitiallyTyped, PTL DEF Spec

\* Every name in processing is its capture's.
LEMMA NamesStay ==
  ASSUME TypeOK, NamesKept, [Next]_vars
  PROVE  NamesKept'
<1>. USE PipelineAssumption
<1>1. ASSUME NEW f \in Captures, MoveToProcessing(f) PROVE NamesKept'
  BY <1>1 DEF TypeOK, NamesKept, Found, MoveToProcessing
<1>2. CASE RemoveProcessed
  BY <1>2 DEF NamesKept, Found, RemoveProcessed
<1>3. processing' = processing \/ RemoveProcessed \/ \E f \in Captures : MoveToProcessing(f)
  BY DEF Next, vars, Arrive, CopyFails, StartCopy, CopySteps, EndCopy, Skip, Copy, Remember,
         DeleteInput, StartAnalysis, AnalyseSteps, Analyse, KillCopy, KillAnalysis, PowerFails
<1>4. CASE processing' = processing
  BY <1>4 DEF NamesKept, Found
<1>. QED BY <1>1, <1>2, <1>3, <1>4

-----------------------------------------------------------------------------
(* Nothing is lost: the proof *)

\* Policies are given more and more.
LEMMA GivenGrows ==
  ASSUME TypeOK, [Next]_vars, NEW p \in Policies, NEW f \in Captures
  PROVE  given'[p][f] >= given[p][f]
<1>1. ASSUME NEW q \in Policies, Analyse(q) PROVE given'[p][f] >= given[p][f]
  BY <1>1 DEF TypeOK, Analyse
<1>2. given' = given \/ \E q \in Policies : Analyse(q)
  BY DEF Next, vars, Arrive, CopyFails, MoveToProcessing, StartCopy, CopySteps, EndCopy, Skip,
         Copy, Remember, DeleteInput, StartAnalysis, AnalyseSteps, RemoveProcessed, KillCopy,
         KillAnalysis, PowerFails
<1>3. given[p][f] \in Nat
  BY DEF TypeOK
<1>. QED BY <1>1, <1>2, <1>3

\* Only the removal at the end of run_02 can take a capture away.
LEMMA StillKept ==
  ASSUME TypeOK, NamesDiffer, NamesKept, [Next]_vars, ~RemoveProcessed,
         NEW f \in Captures, Kept(f)
  PROVE  Kept(f)'
<1>1. CASE Analysed(f)
  <2>1. ASSUME NEW p \in Policies PROVE given'[p][f] > 0
    <3>1. given[p][f] \in Nat /\ given'[p][f] \in Nat
      BY Typing DEF TypeOK
    <3>. QED BY <1>1, <3>1, GivenGrows DEF Analysed
  <2>2. Policies' = Policies
    BY DEF Policies
  <2>. QED BY <2>1, <2>2 DEF Kept, Analysed
<1>2. CASE f \in Staged
  <2>1. ASSUME NEW g \in Captures, MoveToProcessing(g) PROVE f \in Staged'
    <3>1. /\ processing' = [processing EXCEPT ![Name[g]] = g] /\ incoming' = incoming \ {g}
          /\ processing'[Name[g]] = g /\ Name[g] \in Names
      BY <2>1 DEF MoveToProcessing, TypeOK, Names
    <3>2. g \in Staged'
      BY <3>1, PipelineAssumption DEF Staged, Found, Names
    <3>3. ASSUME NEW n \in Found, f = processing[n], f # g PROVE f \in Staged'
      <4>1. n # Name[g]
        BY <3>3 DEF NamesKept, NamesDiffer
      <4>2. processing'[n] = f /\ n \in Names
        BY <3>1, <3>3, <4>1 DEF Found, TypeOK
      <4>. QED BY <4>2, PipelineAssumption DEF Staged, Found, Names
    <3>. QED BY <1>2, <3>1, <3>2, <3>3 DEF Staged
  <2>2. CASE incoming \subseteq incoming' /\ processing' = processing
    <3>1. Found' = Found
      BY <2>2 DEF Found, Names
    <3>2. CASE f \in incoming
      BY <2>2, <3>2 DEF Staged, Kept
    <3>3. ASSUME NEW n \in Found, f = processing[n] PROVE f \in Staged'
      BY <2>2, <3>1, <3>3 DEF Staged
    <3>. QED BY <1>2, <3>2, <3>3 DEF Staged, Kept
  <2>3. \/ incoming \subseteq incoming' /\ processing' = processing
        \/ \E g \in Captures : MoveToProcessing(g)
    BY DEF Next, vars, Arrive, CopyFails, StartCopy, CopySteps, EndCopy, Skip, Copy, Remember,
           DeleteInput, StartAnalysis, AnalyseSteps, Analyse, KillCopy, KillAnalysis, PowerFails
  <2>. QED BY <2>1, <2>2, <2>3 DEF Kept
<1>. QED BY <1>1, <1>2 DEF Kept

\* What the removal takes away has been given to both policies.
LEMMA RemovedIsAnalysed ==
  ASSUME KeepInv, RemoveProcessed, NEW f \in Captures, Kept(f)
  PROVE  Kept(f)'
<1>1. CASE Analysed(f)
  BY <1>1 DEF Kept, Analysed, RemoveProcessed, Policies
<1>2. CASE f \in incoming
  BY <1>2 DEF Kept, Staged, RemoveProcessed
<1>3. ASSUME NEW n \in Found, f = processing[n] PROVE Kept(f)'
  <2>1. CASE n \in files
    <3>1. Analysed(f)
      BY <1>3, <2>1 DEF KeepInv, StageReached, RemoveProcessed, Analysed, Policies
    <3>. QED BY <1>1, <3>1
  <2>2. CASE n \notin files
    <3>1. processing'[n] = f /\ n \in Names
      BY <1>3, <2>2 DEF RemoveProcessed, Found
    <3>. QED BY <3>1, PipelineAssumption DEF Kept, Staged, Found, Names
  <2>. QED BY <2>1, <2>2
<1>. QED BY <1>1, <1>2, <1>3 DEF Kept, Staged

\* What is kept stays kept.
LEMMA KeptForever ==
  ASSUME KeepInv, NamesDiffer, [Next]_vars, NEW f \in Captures, Kept(f)
  PROVE  Kept(f)'
BY StillKept, RemovedIsAnalysed DEF KeepInv

\* The files of run_02's list stay where they are until it removes them.
LEMMA FilesRemain ==
  ASSUME TypeOK, FilesStay, [Next]_vars
  PROVE  FilesStay'
<1>. USE PipelineAssumption DEF FilesStay, Found, Names
<1>1. ASSUME NEW f \in Captures, MoveToProcessing(f) PROVE FilesStay'
  BY <1>1 DEF MoveToProcessing, TypeOK
<1>2. CASE StartAnalysis
  BY <1>2 DEF StartAnalysis
<1>3. ASSUME NEW p \in Policies, Analyse(p) PROVE FilesStay'
  BY <1>3 DEF Analyse
<1>4. CASE RemoveProcessed \/ KillAnalysis \/ PowerFails
  BY <1>4 DEF RemoveProcessed, KillAnalysis, PowerFails
<1>5. CASE UNCHANGED <<files, processing, analysing>>
  BY <1>5
<1>6. \/ UNCHANGED <<files, processing, analysing>> \/ StartAnalysis
      \/ RemoveProcessed \/ KillAnalysis \/ PowerFails
      \/ \E f \in Captures : MoveToProcessing(f)
      \/ \E p \in Policies : Analyse(p)
  BY DEF Next, vars, Arrive, CopyFails, StartCopy, CopySteps, EndCopy, Skip, Copy, Remember,
         DeleteInput, AnalyseSteps, KillCopy
<1>. QED BY <1>1, <1>2, <1>3, <1>4, <1>5, <1>6

\* KeepInv is inductive.
LEMMA KeepStep ==
  ASSUME KeepInv, NamesDiffer, [Next]_vars
  PROVE  KeepInv'
<1>1. TypeOK' /\ NamesKept'
  BY Typing, NamesStay DEF KeepInv
<1>2. NothingLost'
  <2>1. ASSUME NEW f \in Captures, f \in history' PROVE Kept(f)'
    <3>1. CASE f \in history
      BY <3>1, KeptForever DEF KeepInv, NothingLost, Kept
    <3>2. CASE f \notin history
      <4>1. Remember(f)
        BY <2>1, <3>2
           DEF Next, vars, Arrive, CopyFails, MoveToProcessing, StartCopy, CopySteps, EndCopy,
               Skip, Copy, Remember, DeleteInput, StartAnalysis, AnalyseSteps, Analyse,
               RemoveProcessed, KillCopy, KillAnalysis, PowerFails
      <4>2. Kept(f)
        BY <4>1 DEF KeepInv, CopiedIsKept, Remember
      <4>. QED BY <4>2, KeptForever
    <3>. QED BY <3>1, <3>2
  <2>2. history' \subseteq Captures
    BY <1>1 DEF TypeOK
  <2>. QED BY <2>1, <2>2 DEF NothingLost, Kept
<1>3. CopiedIsKept'
  <2> SUFFICES ASSUME copying' = "echo", NEW f \in Captures, Current(f)'
               PROVE  Kept(f)'
    BY DEF CopiedIsKept
  <2>1. CASE copying = "echo" /\ todo' = todo
    BY <2>1, KeptForever DEF KeepInv, CopiedIsKept, Current
  <2>2. ASSUME NEW g \in Captures, Copy(g) PROVE Kept(f)'
    <3>1. f = g
      BY <2>2, PipelineAssumption DEF Copy, Current
    <3>. QED BY <2>2, <3>1 DEF Copy, Kept, Staged
  <2>3. (copying = "echo" /\ todo' = todo) \/ \E g \in Captures : Copy(g)
    BY DEF Next, vars, Arrive, CopyFails, MoveToProcessing, StartCopy, CopySteps, EndCopy, Skip,
           Remember, DeleteInput, StartAnalysis, AnalyseSteps, Analyse, RemoveProcessed,
           KillCopy, KillAnalysis, PowerFails
  <2>. QED BY <2>1, <2>2, <2>3
<1>4. FilesStay'
  BY FilesRemain DEF KeepInv
<1>5. StageReached'
  <2>1. ASSUME NEW f \in Captures, MoveToProcessing(f) PROVE StageReached'
    <3>1. ASSUME NEW n \in files PROVE processing'[n] = processing[n]
      <4>1. n \in Names /\ processing[n] \in Captures /\ Name[processing[n]] = n
        BY <3>1 DEF KeepInv, FilesStay, NamesKept, Found, TypeOK
      <4>. QED BY <2>1, <4>1 DEF MoveToProcessing, NamesDiffer, KeepInv, TypeOK
    <3>. QED BY <2>1, <3>1 DEF MoveToProcessing, KeepInv, StageReached
  <2>2. ASSUME NEW p \in Policies, Analyse(p) PROVE StageReached'
    <3>1. ASSUME NEW n \in files PROVE given'[p][processing[n]] > 0
      <4>1. processing[n] \in Captures /\ given[p][processing[n]] \in Nat
        BY <3>1 DEF KeepInv, FilesStay, Found, TypeOK
      <4>. QED BY <2>2, <3>1, <4>1 DEF Analyse, KeepInv, TypeOK
    <3>2. given' = [given EXCEPT ![p] = given'[p]]
      BY <2>2 DEF Analyse, KeepInv, TypeOK
    <3>3. p = "Resolver" \/ p = "Domain"
      BY DEF Policies
    <3>. QED BY <2>2, <3>1, <3>2, <3>3 DEF Analyse, KeepInv, StageReached, TypeOK, Policies
  <2>3. CASE StartAnalysis \/ RemoveProcessed \/ KillAnalysis \/ PowerFails
    BY <2>3 DEF StartAnalysis, RemoveProcessed, KillAnalysis, PowerFails, StageReached
  <2>4. CASE UNCHANGED <<files, processing, analysing, given>>
    BY <2>4 DEF KeepInv, StageReached
  <2>5. \/ UNCHANGED <<files, processing, analysing, given>> \/ StartAnalysis
        \/ RemoveProcessed \/ KillAnalysis \/ PowerFails
        \/ \E f \in Captures : MoveToProcessing(f)
        \/ \E p \in Policies : Analyse(p)
    BY DEF Next, vars, Arrive, CopyFails, StartCopy, CopySteps, EndCopy, Skip, Copy, Remember,
           DeleteInput, AnalyseSteps, KillCopy
  <2>. QED BY <2>1, <2>2, <2>3, <2>4, <2>5
<1>. QED BY <1>1, <1>2, <1>3, <1>4, <1>5 DEF KeepInv

\* What the history names is staged or has been given to both policies, whatever
\* fails and whenever a script or the machine dies, if the captures keep
\* different names: run_02 removes nothing it has not read.
THEOREM NothingIsLost == ASSUME NamesDiffer PROVE Spec => []NothingLost
<1>1. Init => KeepInv
  <2> SUFFICES ASSUME Init PROVE KeepInv
    OBVIOUS
  <2>1. TypeOK
    BY InitiallyTyped
  <2>2. Found = {}
    BY DEF Init, Found
  <2>. QED BY <2>1, <2>2
       DEF Init, KeepInv, NamesKept, FilesStay, CopiedIsKept, StageReached, NothingLost
<1>2. KeepInv /\ [Next]_vars => KeepInv'
  BY KeepStep
<1>3. KeepInv => NothingLost
  BY DEF KeepInv
<1>. QED BY <1>1, <1>2, <1>3, PTL DEF Spec

-----------------------------------------------------------------------------
(* Once per crash: the proof *)

Tokens(p, f) == ToCopy(f) + ToMove(f) + ToGive(p, f)

\* Each token is there or not.
LEMMA TokensAreNumbers ==
  ASSUME NEW f \in Captures, NEW p \in Policies
  PROVE  /\ ToCopy(f) \in {0, 1} /\ ToMove(f) \in {0, 1} /\ ToGive(p, f) \in {0, 1}
         /\ ToCopy(f)' \in {0, 1} /\ ToMove(f)' \in {0, 1} /\ ToGive(p, f)' \in {0, 1}
BY DEF ToCopy, ToMove, ToGive

\* A script that is not running has left no trace but its PID file.
LEMMA PidsStay ==
  ASSUME TypeOK, PidsHeld, [Next]_vars
  PROVE  PidsHeld'
<1>. USE DEF PidsHeld
<1>1. CASE UNCHANGED <<pids, copying, analysing>>
  BY <1>1
<1>2. CASE StartCopy \/ EndCopy \/ KillCopy
  BY <1>2 DEF StartCopy, EndCopy, KillCopy
<1>3. ASSUME NEW f \in Captures, Copy(f) \/ CopyFails(f) \/ Remember(f) \/ DeleteInput(f)
      PROVE  PidsHeld'
  BY <1>3 DEF Copy, CopyFails, Remember, DeleteInput
<1>4. CASE StartAnalysis \/ RemoveProcessed \/ KillAnalysis \/ PowerFails
  BY <1>4 DEF StartAnalysis, RemoveProcessed, KillAnalysis, PowerFails
<1>5. ASSUME NEW p \in Policies, Analyse(p) PROVE PidsHeld'
  BY <1>5 DEF Analyse, Policies
<1>6. ASSUME NEW f \in Captures, Arrive(f) \/ MoveToProcessing(f) \/ Skip(f)
      PROVE  UNCHANGED <<pids, copying, analysing>>
  BY <1>6 DEF Arrive, MoveToProcessing, Skip
<1>7. CASE UNCHANGED vars
  BY <1>7 DEF vars
<1>. QED BY <1>1, <1>2, <1>3, <1>4, <1>5, <1>6, <1>7 DEF Next, CopySteps, AnalyseSteps

\* No step makes the tokens of a capture outgrow the crashes: what a policy is
\* given costs a token, and only a crash brings one back.
LEMMA CrashStep ==
  ASSUME CrashInv, [Next]_vars, NEW p \in Policies, NEW f \in Captures
  PROVE  given'[p][f] + Tokens(p, f)' <= 1 + kills'
<1>. DEFINE Paid == given'[p][f] + Tokens(p, f)' <= 1 + kills'
<1>0. /\ given[p][f] \in Nat /\ kills \in Nat
      /\ given[p][f] + Tokens(p, f) <= 1 + kills
      /\ ToCopy(f) \in {0, 1} /\ ToMove(f) \in {0, 1} /\ ToGive(p, f) \in {0, 1}
      /\ ToCopy(f)' \in {0, 1} /\ ToMove(f)' \in {0, 1} /\ ToGive(p, f)' \in {0, 1}
      /\ Tokens(p, f) = ToCopy(f) + ToMove(f) + ToGive(p, f)
      /\ Tokens(p, f)' = ToCopy(f)' + ToMove(f)' + ToGive(p, f)'
  BY TokensAreNumbers, PipelineAssumption DEF CrashInv, CrashesPay, Tokens, TypeOK
<1>. HIDE DEF Tokens
<1>1. ASSUME given' = given, kills' >= kills, kills' \in Nat,
             ToCopy(f)' <= ToCopy(f), ToMove(f)' <= ToMove(f), ToGive(p, f)' <= ToGive(p, f)
      PROVE  Paid
  BY <1>0, <1>1
<1>2. ASSUME NEW g \in Captures, Copy(g) PROVE Paid
  <2>1. CASE f = g
    <3>1. ToCopy(f) = 1 /\ ToCopy(f)' = 0 /\ ToGive(p, f)' = ToGive(p, f)
      BY <1>2, <2>1 DEF Copy, ToCopy, ToGive, Past, Current, CrashInv, PidsHeld
    <3>. QED BY <1>0, <1>2, <3>1 DEF Copy
  <2>2. CASE f # g
    <3>1. ToCopy(f)' <= ToCopy(f) /\ ToMove(f)' <= ToMove(f) /\ ToGive(p, f)' <= ToGive(p, f)
      BY <1>2, <2>2 DEF Copy, ToCopy, ToMove, ToGive, Past, Current
    <3>. QED BY <1>0, <1>1, <1>2, <3>1 DEF Copy
  <2>. QED BY <2>1, <2>2
<1>3. ASSUME NEW g \in Captures, MoveToProcessing(g) PROVE Paid
  <2>1. CASE f = g
    <3>1. ToCopy(f)' = ToCopy(f) /\ ToMove(f) = 1 /\ ToMove(f)' = 0
      BY <1>3, <2>1 DEF MoveToProcessing, ToCopy, ToMove, Current
    <3>. QED BY <1>0, <1>3, <3>1 DEF MoveToProcessing
  <2>2. CASE f # g
    <3>1. processing'[Name[f]] = f => processing[Name[f]] = f
      BY <1>3, <2>2 DEF MoveToProcessing, CrashInv, TypeOK, Names
    <3>2. ToGive(p, f)' <= ToGive(p, f)
      BY <1>3, <3>1 DEF MoveToProcessing, ToGive, Past
    <3>3. ToCopy(f)' <= ToCopy(f) /\ ToMove(f)' <= ToMove(f)
      BY <1>3, <2>2 DEF MoveToProcessing, ToCopy, ToMove, Current
    <3>. QED BY <1>0, <1>1, <1>3, <3>2, <3>3 DEF MoveToProcessing
  <2>. QED BY <2>1, <2>2
<1>4. ASSUME NEW q \in Policies, Analyse(q) PROVE Paid
  <2>1. ToCopy(f)' = ToCopy(f) /\ ToMove(f)' = ToMove(f) /\ kills' = kills
    BY <1>4 DEF Analyse, ToCopy, ToMove, Current
  <2>2. CASE q = p /\ \E n \in files : processing[n] = f
    <3>1. Name[f] \in files /\ processing[Name[f]] = f
      BY <2>2 DEF CrashInv, FilesStay, NamesKept
    <3>2. ToGive(p, f) = 1 /\ ToGive(p, f)' = 0
      BY <1>4, <2>2, <3>1 DEF Analyse, ToGive, Past, Policies
    <3>3. given'[p][f] = given[p][f] + 1
      BY <1>4, <2>2 DEF Analyse, CrashInv, TypeOK
    <3>. QED BY <1>0, <2>1, <3>2, <3>3
  <2>3. CASE ~(q = p /\ \E n \in files : processing[n] = f)
    <3>1. given'[p][f] = given[p][f]
      BY <1>4, <2>3 DEF Analyse, CrashInv, TypeOK
    <3>2. ToGive(p, f)' <= ToGive(p, f)
      BY <1>4 DEF Analyse, ToGive, Past, Policies
    <3>. QED BY <1>0, <2>1, <3>1, <3>2
  <2>. QED BY <2>2, <2>3
<1>5. CASE KillCopy
  <2>1. ToMove(f)' = ToMove(f) /\ ToGive(p, f)' = ToGive(p, f)
    BY <1>5 DEF KillCopy, ToMove, ToGive, Past
  <2>. QED BY <1>0, <1>5, <2>1 DEF KillCopy
<1>6. CASE KillAnalysis
  <2>1. ToCopy(f)' = ToCopy(f) /\ ToMove(f)' = ToMove(f)
    BY <1>6 DEF KillAnalysis, ToCopy, ToMove, Current
  <2>. QED BY <1>0, <1>6, <2>1 DEF KillAnalysis
<1>7. CASE PowerFails
  <2>1. ToCopy(f)' <= ToCopy(f)
    BY <1>7 DEF PowerFails, ToCopy, Current, CrashInv, PidsHeld
  <2>2. ToMove(f)' <= ToMove(f) /\ ToGive(p, f)' <= ToGive(p, f)
    BY <1>7 DEF PowerFails, ToMove, ToGive, Past, CrashInv, PidsHeld, FilesStay
  <2>. QED BY <1>0, <1>1, <1>7, <2>1, <2>2 DEF PowerFails
<1>8. CASE StartCopy \/ EndCopy \/ StartAnalysis \/ RemoveProcessed
  <2>1. ToCopy(f)' <= ToCopy(f) /\ ToMove(f)' <= ToMove(f)
    BY <1>8 DEF StartCopy, EndCopy, StartAnalysis, RemoveProcessed, ToCopy, ToMove, Current,
                CrashInv, PidsHeld
  <2>2. ToGive(p, f)' <= ToGive(p, f)
    <3>1. CASE StartCopy \/ EndCopy
      BY <3>1 DEF StartCopy, EndCopy, ToGive, Past
    <3>2. CASE StartAnalysis
      BY <3>2 DEF StartAnalysis, ToGive, Past, CrashInv, PidsHeld
    <3>3. CASE RemoveProcessed
      <4>1. Name[f] \in Names
        BY DEF Names
      <4>. QED BY <3>3, <4>1, PipelineAssumption DEF RemoveProcessed, ToGive, Past
    <3>. QED BY <1>8, <3>1, <3>2, <3>3
  <2>. QED BY <1>0, <1>1, <1>8, <2>1, <2>2
       DEF StartCopy, EndCopy, StartAnalysis, RemoveProcessed
<1>9. ASSUME NEW g \in Captures,
             Arrive(g) \/ CopyFails(g) \/ Skip(g) \/ Remember(g) \/ DeleteInput(g)
      PROVE  Paid
  <2>1. ToCopy(f)' <= ToCopy(f)
    BY <1>9, PipelineAssumption
       DEF Arrive, CopyFails, Skip, Remember, DeleteInput, ToCopy, Current
  <2>2. ToMove(f)' <= ToMove(f) /\ ToGive(p, f)' <= ToGive(p, f)
    BY <1>9 DEF Arrive, CopyFails, Skip, Remember, DeleteInput, ToMove, ToGive, Past
  <2>. QED BY <1>0, <1>1, <1>9, <2>1, <2>2 DEF Arrive, CopyFails, Skip, Remember, DeleteInput
<1>10. CASE UNCHANGED vars
  BY <1>0, <1>1, <1>10 DEF vars, ToCopy, ToMove, ToGive, Past, Current
<1>. QED BY <1>2, <1>3, <1>4, <1>5, <1>6, <1>7, <1>8, <1>9, <1>10
     DEF Next, CopySteps, AnalyseSteps

\* No policy is given a capture more often than once, plus once for every crash:
\* two captures of the same name included.
THEOREM AnalysedOncePerCrash == Spec => []OncePerCrash
<1>1. Init => CrashInv
  <2> SUFFICES ASSUME Init PROVE CrashInv
    OBVIOUS
  <2>1. TypeOK /\ NamesKept /\ FilesStay /\ PidsHeld
    BY InitiallyTyped DEF Init, NamesKept, FilesStay, PidsHeld, Found
  <2>2. ASSUME NEW p \in Policies, NEW f \in Captures
        PROVE  given[p][f] = 0 /\ ToMove(f) = 0 /\ ToGive(p, f) = 0 /\ kills = 0
    BY PipelineAssumption DEF Init, ToMove, ToGive, Names
  <2>. QED BY <2>1, <2>2, TokensAreNumbers DEF CrashInv, CrashesPay
<1>2. CrashInv /\ [Next]_vars => CrashInv'
  <2> SUFFICES ASSUME CrashInv, [Next]_vars PROVE CrashInv'
    OBVIOUS
  <2>1. TypeOK' /\ NamesKept' /\ FilesStay' /\ PidsHeld'
    BY Typing, NamesStay, FilesRemain, PidsStay DEF CrashInv
  <2>2. CrashesPay'
    <3>1. ASSUME NEW p \in Policies, NEW f \in Captures
          PROVE  (given[p][f] + ToCopy(f) + ToMove(f) + ToGive(p, f) <= 1 + kills)'
      <4>1. given'[p][f] \in Nat
        BY Typing DEF CrashInv, TypeOK
      <4>. QED BY <4>1, CrashStep, TokensAreNumbers DEF Tokens
    <3>2. Policies' = Policies
      BY DEF Policies
    <3>. QED BY <3>1, <3>2 DEF CrashesPay
  <2>. QED BY <2>1, <2>2 DEF CrashInv
<1>3. CrashInv => OncePerCrash
  <2> SUFFICES ASSUME CrashInv, NEW p \in Policies, NEW f \in Captures
               PROVE  given[p][f] <= 1 + kills
    BY DEF OncePerCrash
  <2>1. given[p][f] \in Nat /\ kills \in Nat
    BY PipelineAssumption DEF CrashInv, TypeOK
  <2>. QED BY <2>1, TokensAreNumbers DEF CrashInv, CrashesPay
<1>. QED BY <1>1, <1>2, <1>3, PTL DEF Spec

-----------------------------------------------------------------------------
(* The two policies *)

\* How far the second policy is behind the first with a capture.
Behind(f) == IF analysing = "Domain" /\ Name[f] \in files THEN 1 ELSE 0

\* The capture that run_02 reads under a name of its list is, when the names
\* differ, the only one that can stand there.
LEMMA OneCaptureOfAName ==
  ASSUME TypeOK, NamesKept, FilesStay, NamesDiffer, NEW f \in Captures
  PROVE  (\E n \in files : processing[n] = f) <=> Name[f] \in files
<1>1. ASSUME NEW n \in files
      PROVE  n \in Names /\ processing[n] \in Captures /\ Name[processing[n]] = n
  BY <1>1 DEF TypeOK, NamesKept, FilesStay, Found
<1>. QED BY <1>1 DEF NamesDiffer

\* What a policy has been given after an analysis.
LEMMA GivenTo ==
  ASSUME TypeOK, NamesKept, FilesStay, NamesDiffer, NEW p \in Policies, Analyse(p),
         NEW f \in Captures
  PROVE  \A q \in Policies :
           given'[q][f] = given[q][f] + (IF q = p /\ Name[f] \in files THEN 1 ELSE 0)
<1>1. \A q \in Policies : given[q] \in [Captures -> Nat]
  BY DEF TypeOK
<1>2. \A q \in Policies \ {p} : given'[q][f] = given[q][f] /\ given[q][f] \in Nat
  BY <1>1 DEF Analyse, TypeOK
<1>3. given'[p][f] = IF \E n \in files : processing[n] = f THEN given[p][f] + 1 ELSE given[p][f]
  BY DEF Analyse, TypeOK
<1>4. given'[p][f] = given[p][f] + (IF Name[f] \in files THEN 1 ELSE 0)
  BY <1>1, <1>3, OneCaptureOfAName
<1>. QED BY <1>2, <1>4

\* Both policies are given the same captures, whatever run_01 brings while
\* run_02 is at work: each death of run_02 between the two leaves the second
\* one analysis short, and nothing else does.
THEOREM PoliciesStayTogether == ASSUME NamesDiffer PROVE Spec => []PoliciesAgree
<1> DEFINE Inv == KeepInv /\ PidsHeld /\ PoliciesAgree
<1>1. Init => Inv
  <2> SUFFICES ASSUME Init PROVE Inv
    OBVIOUS
  <2>1. TypeOK /\ Found = {}
    BY InitiallyTyped DEF Init, Found
  <2>2. KeepInv /\ PidsHeld
    BY <2>1 DEF Init, KeepInv, NamesKept, FilesStay, CopiedIsKept, StageReached, NothingLost,
                PidsHeld
  <2>3. PoliciesAgree
    <3>1. ASSUME NEW f \in Captures
          PROVE  given["Domain"][f] = 0 /\ given["Resolver"][f] = 0 /\ kills = 0 /\ Behind(f) = 0
      BY DEF Init, Policies, Behind
    <3>2. ASSUME NEW f \in Captures
          PROVE  /\ given["Domain"][f] + Behind(f) <= given["Resolver"][f]
                 /\ given["Resolver"][f] <= given["Domain"][f] + Behind(f) + kills
      BY <3>1
    <3>. QED BY <3>2 DEF PoliciesAgree, Behind
  <2>. QED BY <2>2, <2>3
<1>2. Inv /\ [Next]_vars => Inv'
  <2> SUFFICES ASSUME KeepInv, PidsHeld, PoliciesAgree, [Next]_vars  PROVE Inv'
    OBVIOUS
  <2>1. KeepInv' /\ PidsHeld'
    BY KeepStep, PidsStay DEF KeepInv
  <2>2. ASSUME NEW f \in Captures
        PROVE  /\ given'["Domain"][f] + Behind(f)' <= given'["Resolver"][f]
               /\ given'["Resolver"][f] <= given'["Domain"][f] + Behind(f)' + kills'
    <3>1. PICK d \in Nat, r \in Nat, k \in Nat :
            d = given["Domain"][f] /\ r = given["Resolver"][f] /\ k = kills
      BY PipelineAssumption DEF KeepInv, TypeOK, Policies
    <3>2. d + Behind(f) <= r /\ r <= d + Behind(f) + k
      BY <3>1 DEF PoliciesAgree, Behind
    <3>3. CASE UNCHANGED <<analysing, files, given, kills>>
      BY <3>1, <3>2, <3>3 DEF Behind
    <3>4. CASE Analyse("Resolver")
      <4>1. given'["Resolver"][f] = r + (IF Name[f] \in files THEN 1 ELSE 0) /\ given'["Domain"][f] = d
        BY <3>1, <3>4, GivenTo DEF KeepInv, Policies
      <4>2. Behind(f) = 0 /\ Behind(f)' = (IF Name[f] \in files THEN 1 ELSE 0) /\ kills' = k
        BY <3>1, <3>4 DEF Behind, Analyse
      <4>. QED BY <3>2, <4>1, <4>2
    <3>5. CASE Analyse("Domain")
      <4>1. given'["Domain"][f] = d + (IF Name[f] \in files THEN 1 ELSE 0) /\ given'["Resolver"][f] = r
        BY <3>1, <3>5, GivenTo DEF KeepInv, Policies
      <4>2. Behind(f)' = 0 /\ Behind(f) = (IF Name[f] \in files THEN 1 ELSE 0) /\ kills' = k
        BY <3>1, <3>5 DEF Behind, Analyse
      <4>. QED BY <3>2, <4>1, <4>2
    <3>6. CASE KillCopy \/ KillAnalysis \/ PowerFails
      <4>1. given' = given /\ kills' = k + 1 /\ (Behind(f)' = Behind(f) \/ Behind(f)' = 0)
        BY <3>1, <3>6 DEF KillCopy, KillAnalysis, PowerFails, Behind
      <4>2. Behind(f) \in {0, 1}
        BY DEF Behind
      <4>. QED BY <3>1, <3>2, <4>1, <4>2
    <3>7. CASE StartAnalysis \/ RemoveProcessed
      <4>1. given' = given /\ kills' = k /\ Behind(f) = 0 /\ Behind(f)' = 0
        BY <3>1, <3>7 DEF StartAnalysis, RemoveProcessed, Behind, PidsHeld
      <4>. QED BY <3>1, <3>2, <4>1
    <3>8. \/ UNCHANGED <<analysing, files, given, kills>>
          \/ Analyse("Resolver") \/ Analyse("Domain")
          \/ KillCopy \/ KillAnalysis \/ PowerFails \/ StartAnalysis \/ RemoveProcessed
      BY DEF Next, vars, Arrive, CopyFails, MoveToProcessing, StartCopy, CopySteps, EndCopy, Skip,
             Copy, Remember, DeleteInput, AnalyseSteps, Policies
    <3>. QED BY <3>3, <3>4, <3>5, <3>6, <3>7, <3>8
  <2>3. PoliciesAgree'
    BY <2>2 DEF PoliciesAgree, Behind
  <2>. QED BY <2>1, <2>3
<1>. QED BY <1>1, <1>2, PTL DEF Spec
=============================================================================
