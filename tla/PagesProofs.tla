----------------------------- MODULE PagesProofs -----------------------------
(***************************************************************************)
(* Proofs about the parts of the client that share no state, for any       *)
(* browsers, rules, rows, queries and windows and any number of calls.     *)
(*                                                                         *)
(* Session: that two browsers never can both renew their session does not  *)
(* follow from the sessions alone: a token is also in answers that are     *)
(* still on their way and in requests that carry it back.  The invariant   *)
(* says that a token is in one browser at most, wherever it is there, and  *)
(* that tokens yet to be made are nowhere.                                 *)
(*                                                                         *)
(* Settings: between the drop and the insert of one save others may drop   *)
(* and insert; the invariant keeps account of the saves that have not been *)
(* separated by a drop.                                                    *)
(*                                                                         *)
(* DataScene: the sunburst of ServerChart is built from rows that may be   *)
(* gone from what is shown; as long as the page has not broken every line  *)
(* of it ends at a server of the rows shown now.                           *)
(*                                                                         *)
(* Menu: what the screen did is undone when there is room again, unless    *)
(* the user was there first; the invariant says what is remembered.        *)
(*                                                                         *)
(* QueryForms: a query remembers the day it was sent on, its ends and      *)
(* partitions; that it finds everything rests on days coming in order.     *)
(*                                                                         *)
(* Charts: what is stacked adds up, whichever keys come from the windows   *)
(* around; this is about sums over finite sets and of any windows.         *)
(*                                                                         *)
(* SavedQueries: as long as nothing happens at once, the one call under    *)
(* way is all that the list and the database differ by.                    *)
(***************************************************************************)
EXTENDS Session, Settings, DataScene, Menu, QueryForms, Charts, SavedQueries,
        SharedProofs, SequenceTheorems

(* Session *)

\* Browser b has token n: it is its session, or in one of its calls.
Has(b, n) == session[b] = n \/ \E k \in Kind : call[b][k].token = n

TokensApart ==
  \A b, c \in Browser, n \in Token : b # c /\ Has(b, n) => ~Has(c, n)

NotYetMade == \A b \in Browser, n \in Token : n > issued => ~Has(b, n)

SessionInv == SessionTypeOK /\ TokensApart /\ NotYetMade /\ RenewalIsPending

\* What a request or an answer is.
Calls == [stage : CallStage, token : 0..MaxToken]

\* A change of one call and of the session of one browser keeps the types.
LEMMA CallTyped ==
  ASSUME SessionTypeOK, NEW b \in Browser, NEW k \in Kind, NEW x \in Calls,
         call' = [call EXCEPT ![b][k] = x]
  PROVE  /\ call' \in [Browser -> [Kind -> Calls]]
         /\ call'[b][k] = x
         /\ \A j \in Kind \ {k} : call'[b][j] = call[b][j]
         /\ \A c \in Browser \ {b} : call'[c] = call[c]
  BY DEF SessionTypeOK, Calls

\* As long as every token a browser has afterwards is one that it had, or that
\* nobody could have, tokens stay apart.
LEMMA StillApart ==
  ASSUME TokensApart, NotYetMade, issued \in Nat, issued' \in Nat, issued <= issued',
         NEW b \in Browser,
         \A c \in Browser \ {b}, n \in Token : Has(c, n)' => Has(c, n),
         \A n \in Token : Has(b, n)' => Has(b, n) \/ (issued < n /\ n <= issued')
  PROVE  TokensApart' /\ NotYetMade'
<1> USE DEF Token
<1>0. \A n \in Token : n \in Nat
  BY SessionAssumption
<1>1. TokensApart'
  <2> SUFFICES ASSUME NEW c \in Browser, NEW d \in Browser, NEW n \in Token,
                      c # d, Has(c, n)', Has(d, n)'
               PROVE  FALSE
    BY DEF TokensApart
  <2>1. \A e \in Browser : ~(issued < n /\ Has(e, n))
    BY <1>0 DEF NotYetMade
  <2>2. CASE c # b /\ d # b
    BY <2>2 DEF TokensApart
  <2>3. CASE c = b
    BY <2>1, <2>3 DEF TokensApart
  <2>4. CASE d = b
    BY <2>1, <2>4 DEF TokensApart
  <2>. QED BY <2>2, <2>3, <2>4
<1>2. NotYetMade'
  <2> SUFFICES ASSUME NEW c \in Browser, NEW n \in Token, n > issued', Has(c, n)'
               PROVE  FALSE
    BY DEF NotYetMade
  <2>1. n > issued
    BY <1>0
  <2>. QED BY <1>0, <2>1 DEF NotYetMade
<1>. QED BY <1>1, <1>2


-----------------------------------------------------------------------------
\* What a browser does leaves the others alone: only its own tokens and its own
\* timer have to be looked at.
LEMMA SessionStepKeeps ==
  ASSUME SessionInv, NEW b \in Browser,
         refreshToken' \in 0..MaxToken, issued' \in 0..MaxToken, issued <= issued',
         session' \in [Browser -> 0..MaxToken],
         sessionTimeout' \in SUBSET Browser, ready' \in SUBSET Browser,
         page' \in [Browser -> {"login", "main"}],
         call' \in [Browser -> [Kind -> Calls]],
         \A c \in Browser \ {b} : /\ session'[c] = session[c] /\ call'[c] = call[c]
                                  /\ c \in sessionTimeout => c \in sessionTimeout',
         \A n \in Token : Has(b, n)' => Has(b, n) \/ (issued < n /\ n <= issued'),
         session'[b] # 0 => b \in sessionTimeout' \/ call'[b]["refresh"] # Idle
  PROVE  SessionInv'
<1>1. SessionTypeOK'
  BY DEF SessionTypeOK, Calls
<1>2. \A c \in Browser \ {b}, n \in Token : Has(c, n)' => Has(c, n)
  BY DEF Has
<1>3. issued \in Nat /\ issued' \in Nat
  BY SessionAssumption DEF SessionInv, SessionTypeOK
<1>4. TokensApart' /\ NotYetMade'
  BY <1>2, <1>3, StillApart DEF SessionInv
<1>5. RenewalIsPending'
  BY DEF SessionInv, RenewalIsPending
<1>. QED BY <1>1, <1>4, <1>5 DEF SessionInv

\* Steps that change one call, in which the token is one that was there.
LEMMA CallKeeps ==
  ASSUME SessionInv, NEW b \in Browser, NEW k \in Kind, NEW x \in Calls,
         call' = [call EXCEPT ![b][k] = x],
         x.token # 0 => Has(b, x.token),
         k = "refresh" => x # Idle,
         UNCHANGED <<refreshToken, issued, session, sessionTimeout, ready, page>>
  PROVE  SessionInv'
<1>1. SessionTypeOK /\ RenewalIsPending /\ issued \in Nat
  BY SessionAssumption DEF SessionInv, SessionTypeOK
<1>2. /\ call' \in [Browser -> [Kind -> Calls]]
      /\ call'[b][k] = x
      /\ \A j \in Kind \ {k} : call'[b][j] = call[b][j]
      /\ \A c \in Browser \ {b} : call'[c] = call[c]
  BY <1>1, CallTyped
<1>3. \A n \in Token : Has(b, n)' => Has(b, n)
  BY <1>2, SessionAssumption DEF Has, Token
<1>4. session'[b] # 0 => b \in sessionTimeout' \/ call'[b]["refresh"] # Idle
  BY <1>1, <1>2 DEF RenewalIsPending, Kind
<1>. QED BY <1>1, <1>2, <1>3, <1>4, SessionStepKeeps DEF SessionTypeOK, Calls

\* The server makes a token that nobody has.
LEMMA AuthKeeps ==
  ASSUME SessionInv, NEW b \in Browser, NEW k \in Kind, Auth(b, k)
  PROVE  SessionInv'
<1> DEFINE x == IF k = "stray" THEN Idle ELSE [stage |-> "accepted", token |-> issued + 1]
<1>1. SessionTypeOK /\ RenewalIsPending /\ issued \in Nat /\ issued < MaxToken
  BY SessionAssumption DEF SessionInv, SessionTypeOK, Auth
<1>2. x \in Calls /\ call' = [call EXCEPT ![b][k] = x] /\ k # "refresh"
  BY <1>1, SessionAssumption DEF Auth, Calls, Idle, CallStage
<1> HIDE DEF x
<1>3. /\ call' \in [Browser -> [Kind -> Calls]]
      /\ call'[b][k] = x
      /\ \A j \in Kind \ {k} : call'[b][j] = call[b][j]
      /\ \A c \in Browser \ {b} : call'[c] = call[c]
  BY <1>1, <1>2, CallTyped
<1>4. issued' = issued + 1 /\ x.token \in {0, issued + 1}
  BY DEF Auth, x, Idle
<1>5. \A n \in Token : Has(b, n)' => Has(b, n) \/ (issued < n /\ n <= issued')
  BY <1>1, <1>3, <1>4, SessionAssumption DEF Has, Token, Auth
<1>6. session'[b] # 0 => b \in sessionTimeout' \/ call'[b]["refresh"] # Idle
  BY <1>1, <1>2, <1>3 DEF RenewalIsPending, Kind, Auth
<1>7. /\ refreshToken' \in 0..MaxToken /\ issued' \in 0..MaxToken /\ issued <= issued'
      /\ UNCHANGED <<session, sessionTimeout, ready, page>>
  BY <1>1, <1>4, SessionAssumption DEF Auth
<1>. QED BY <1>1, <1>3, <1>5, <1>6, <1>7, SessionStepKeeps DEF SessionTypeOK

\* An answer moves a token from the call to the session, and sets the timer.
LEMMA AnswerKeeps ==
  ASSUME SessionInv, NEW b \in Browser, NEW k \in Kind,
         onRequestSuccess(b, k) \/ onRequestFailed(b, k)
  PROVE  SessionInv'
<1>1. SessionTypeOK /\ RenewalIsPending /\ issued \in Nat
  BY SessionAssumption DEF SessionInv, SessionTypeOK
<1>2. Idle \in Calls /\ Idle.token = 0
  BY SessionAssumption DEF Idle, Calls, CallStage
<1>3. call' = [call EXCEPT ![b][k] = Idle]
  BY DEF onRequestSuccess, onRequestFailed
<1>4. /\ call' \in [Browser -> [Kind -> Calls]]
      /\ call'[b][k] = Idle
      /\ \A j \in Kind \ {k} : call'[b][j] = call[b][j]
      /\ \A c \in Browser \ {b} : call'[c] = call[c]
  BY <1>1, <1>2, <1>3, CallTyped
<1>5. \/ session' = [session EXCEPT ![b] = call[b][k].token] /\ b \in sessionTimeout'
      \/ session' = [session EXCEPT ![b] = 0]
  BY DEF onRequestSuccess, onRequestFailed, clearSession
<1>6. call[b][k].token \in 0..MaxToken
  BY <1>1 DEF SessionTypeOK
<1>7. /\ session' \in [Browser -> 0..MaxToken]
      /\ session'[b] = 0 \/ (session'[b] = call[b][k].token /\ b \in sessionTimeout')
      /\ \A c \in Browser \ {b} : session'[c] = session[c]
  <2>1. session \in [Browser -> 0..MaxToken] /\ 0 \in 0..MaxToken
    BY <1>1, SessionAssumption DEF SessionTypeOK
  <2>2. CASE session' = [session EXCEPT ![b] = 0]
    BY <2>1, <2>2
  <2>3. CASE session' = [session EXCEPT ![b] = call[b][k].token] /\ b \in sessionTimeout'
    BY <1>6, <2>1, <2>3
  <2>. QED BY <1>5, <2>2, <2>3
<1>8. \A n \in Token : Has(b, n)' => Has(b, n)
  BY <1>2, <1>4, <1>7, SessionAssumption DEF Has, Token
<1>9. /\ sessionTimeout' \in SUBSET Browser /\ ready' \in SUBSET Browser
      /\ page' \in [Browser -> {"login", "main"}]
      /\ \A c \in Browser \ {b} : c \in sessionTimeout => c \in sessionTimeout'
      /\ UNCHANGED <<refreshToken, issued>>
  BY <1>1 DEF onRequestSuccess, onRequestFailed, clearSession, SessionTypeOK
<1>10. session'[b] # 0 => b \in sessionTimeout' \/ call'[b]["refresh"] # Idle
  BY <1>7
<1>11. refreshToken' \in 0..MaxToken /\ issued' \in 0..MaxToken /\ issued <= issued'
  BY <1>1, <1>9 DEF SessionTypeOK
<1>. QED BY <1>4, <1>7, <1>8, <1>9, <1>10, <1>11, SessionStepKeeps

\* After a reload the browser asks with the token of its session.
LEMMA ReloadKeeps ==
  ASSUME SessionInv, NEW b \in Browser, Reload(b)
  PROVE  SessionInv'
<1>1. SessionTypeOK /\ RenewalIsPending /\ issued \in Nat
  BY SessionAssumption DEF SessionInv, SessionTypeOK
<1>2. PICK f \in [Kind -> Calls] :
        /\ call' = [call EXCEPT ![b] = f]
        /\ \A k \in Kind : f[k].token \in {0, session[b], call[b]["authenticate"].token}
        /\ session[b] # 0 => f["refresh"] # Idle
  <2> DEFINE f == [authenticate |-> Idle,
                   stray        |-> IF call[b]["authenticate"].stage = "sent"
                                      THEN call[b]["authenticate"] ELSE Idle,
                   refresh      |-> IF session[b] = 0 THEN Idle
                                      ELSE [stage |-> "sent", token |-> session[b]]]
  <2>1. Idle \in Calls /\ call[b]["authenticate"] \in Calls
    BY <1>1, SessionAssumption DEF Idle, Calls, CallStage, SessionTypeOK, Kind
  <2>2. [stage |-> "sent", token |-> session[b]] \in Calls
    BY <1>1 DEF Calls, CallStage, SessionTypeOK
  <2>3. f \in [Kind -> Calls]
    BY <2>1, <2>2 DEF Kind
  <2>4. \A k \in Kind : f[k].token \in {0, session[b], call[b]["authenticate"].token}
    BY DEF Kind, Idle
  <2>5. session[b] # 0 => f["refresh"] # Idle
    BY DEF Idle
  <2>. QED BY <2>3, <2>4, <2>5 DEF Reload
<1>3. /\ call' \in [Browser -> [Kind -> Calls]] /\ call'[b] = f
      /\ \A c \in Browser \ {b} : call'[c] = call[c]
  BY <1>1, <1>2 DEF SessionTypeOK, Calls
<1>4. \A n \in Token : Has(b, n)' => Has(b, n)
  <2>1. session' = session /\ "authenticate" \in Kind
    BY DEF Reload, Kind
  <2>. QED BY <1>2, <1>3, <2>1, SessionAssumption DEF Has, Token
<1>5. session'[b] # 0 => b \in sessionTimeout' \/ call'[b]["refresh"] # Idle
  BY <1>2, <1>3 DEF Reload
<1>6. /\ sessionTimeout' \in SUBSET Browser /\ ready' \in SUBSET Browser
      /\ page' \in [Browser -> {"login", "main"}]
      /\ \A c \in Browser \ {b} : c \in sessionTimeout => c \in sessionTimeout'
      /\ UNCHANGED <<refreshToken, issued, session>>
  BY <1>1 DEF Reload, SessionTypeOK
<1>. QED BY <1>1, <1>3, <1>4, <1>5, <1>6, SessionStepKeeps DEF SessionTypeOK

-----------------------------------------------------------------------------
\* The inductive invariant.
THEOREM SessionInvariant == SessionSpec => []SessionInv
<1>1. SessionInit => SessionInv
  BY SessionAssumption DEF SessionInit, SessionInv, SessionTypeOK, TokensApart, NotYetMade,
     RenewalIsPending, Has, Token, Idle, CallStage
<1>2. SessionInv /\ [SessionNext]_sessionVars => SessionInv'
  <2> SUFFICES ASSUME SessionInv, [SessionNext]_sessionVars PROVE SessionInv'
    OBVIOUS
  <2>0. SessionTypeOK /\ RenewalIsPending /\ Idle \in Calls /\ Idle.token = 0
    BY SessionAssumption DEF SessionInv, Idle, Calls, CallStage
  <2>1. CASE UNCHANGED sessionVars
    BY <2>1 DEF sessionVars, SessionInv, SessionTypeOK, TokensApart, NotYetMade,
       RenewalIsPending, Has
  <2>2. ASSUME NEW b \in Browser, PressLogin(b) PROVE SessionInv'
    <3>1. [stage |-> "sent", token |-> 0] \in Calls /\ "authenticate" \in Kind
      BY SessionAssumption DEF Calls, CallStage, Kind
    <3>2. call' = [call EXCEPT ![b]["authenticate"] = [stage |-> "sent", token |-> 0]]
      BY <2>2 DEF PressLogin, Send
    <3>. QED BY <2>2, <3>1, <3>2, CallKeeps DEF PressLogin
  <2>3. ASSUME NEW b \in Browser, refresh(b) PROVE SessionInv'
    <3> DEFINE x == [stage |-> "sent", token |-> session[b]]
    <3>1. x \in Calls /\ "refresh" \in Kind /\ x # Idle
      BY <2>0 DEF Calls, CallStage, Kind, SessionTypeOK, Idle
    <3>2. CASE session[b] = 0
      <4>1. \A n \in Token : Has(b, n)' => Has(b, n)
        BY <2>3, <3>2 DEF Has, refresh
      <4>. QED BY <2>0, <2>3, <3>2, <4>1, SessionStepKeeps, SessionAssumption
               DEF refresh, SessionTypeOK, Calls
    <3>3. CASE session[b] # 0
      <4>1. call' = [call EXCEPT ![b]["refresh"] = x]
        BY <2>3, <3>3 DEF refresh, Send
      <4> HIDE DEF x
      <4>2. /\ call' \in [Browser -> [Kind -> Calls]]
            /\ call'[b]["refresh"] = x
            /\ \A j \in Kind \ {"refresh"} : call'[b][j] = call[b][j]
            /\ \A c \in Browser \ {b} : call'[c] = call[c]
        BY <2>0, <3>1, <4>1, CallTyped
      <4>3. \A n \in Token : Has(b, n)' => Has(b, n)
        BY <2>3, <4>2 DEF Has, x, refresh
      <4>. QED BY <2>0, <2>3, <3>1, <4>2, <4>3, SessionStepKeeps, SessionAssumption
               DEF refresh, SessionTypeOK
    <3>. QED BY <3>2, <3>3
  <2>4. ASSUME NEW b \in Browser, revoke(b) PROVE SessionInv'
    <3>1. \A n \in Token : Has(b, n)' => Has(b, n)
      BY <2>0, <2>4, SessionAssumption DEF Has, revoke, clearSession, Token, SessionTypeOK
    <3>. QED BY <2>0, <2>4, <3>1, SessionStepKeeps, SessionAssumption
             DEF revoke, clearSession, SessionTypeOK, Calls
  <2>5. ASSUME NEW b \in Browser, NEW k \in Kind, AuthFails(b, k) PROVE SessionInv'
    <3>1. PICK x \in Calls : x.token = 0 /\ call' = [call EXCEPT ![b][k] = x]
      <4>1. [stage |-> "refused", token |-> 0] \in Calls
        BY SessionAssumption DEF Calls, CallStage
      <4>. QED BY <2>0, <2>5, <4>1 DEF AuthFails
    <3>. QED BY <2>5, <3>1, CallKeeps DEF AuthFails
  <2>6. ASSUME NEW b \in Browser, AuthRefresh(b) \/ RefreshLost(b) PROVE SessionInv'
    <3>1. PICK stage \in {"accepted", "refused"} :
            call' = [call EXCEPT ![b]["refresh"].stage = stage]
      BY <2>6 DEF AuthRefresh, RefreshLost
    <3> DEFINE x == [stage |-> stage, token |-> call[b]["refresh"].token]
    <3>2. x \in Calls /\ "refresh" \in Kind /\ x # Idle
      BY <2>0 DEF Calls, CallStage, Kind, SessionTypeOK, Idle
    <3>3. call' = [call EXCEPT ![b]["refresh"] = x]
      <4>1. call[b]["refresh"] \in Calls
        BY <2>0 DEF Calls, SessionTypeOK, Kind
      <4>2. [call[b]["refresh"] EXCEPT !.stage = stage] = x
        BY <4>1 DEF Calls
      <4>. QED BY <3>1, <4>2
    <3>4. Has(b, x.token)
      BY <3>2 DEF Has
    <3>. QED BY <2>6, <3>2, <3>3, <3>4, CallKeeps DEF AuthRefresh, RefreshLost
  <2>. QED BY <2>1, <2>2, <2>3, <2>4, <2>5, <2>6, AuthKeeps, AnswerKeeps, ReloadKeeps
           DEF SessionNext, ServeCall, TakeAnswer
<1>. QED BY <1>1, <1>2, PTL DEF SessionSpec

\* No two browsers can renew their session at the same time, however many there
\* are and however often they sign in.
THEOREM NeverTwoSessions == SessionSpec => []OneBrowserCanRenew
<1>1. SessionInv => OneBrowserCanRenew
  <2> SUFFICES ASSUME SessionInv, NEW b \in Browser, NEW c \in Browser,
                      b # c, session[b] # 0, session[c] # 0,
                      session[b] = refreshToken, session[c] = refreshToken
               PROVE  FALSE
    BY DEF OneBrowserCanRenew
  <2>1. refreshToken \in Token
    BY SessionAssumption DEF SessionInv, SessionTypeOK, Token
  <2>. QED BY <2>1 DEF SessionInv, TokensApart, Has
<1>. QED BY <1>1, SessionInvariant, PTL

\* A session that is open is about to be renewed.
THEOREM SessionsAreRenewed == SessionSpec => []RenewalIsPending
<1>1. SessionInv => RenewalIsPending
  BY DEF SessionInv
<1>. QED BY <1>1, SessionInvariant, PTL

-----------------------------------------------------------------------------
(* Settings *)

\* A save between its drop and its insert is never separated; what no drop has
\* removed and what those not separated have inserted is there, and nothing else.
Accounted ==
  /\ AtStage("dropped") \subseteq unseparated
  /\ \A s \in unseparated : saves[s].stage # "sent"
  /\ \A s \in unseparated : saves[s].stage = "saved" => saves[s].rules \subseteq whitelist
  /\ undropped \subseteq whitelist
  /\ whitelist \subseteq undropped \cup UNION {saves[s].rules : s \in unseparated}

SettingsInv == SettingsTypeOK /\ Accounted

\* A new save changes nothing of the others.
LEMMA SaveKeeps ==
  ASSUME SettingsInv, NEW rules \in SUBSET Rule, Save(rules), UNCHANGED <<whitelist, undropped, unseparated>>
  PROVE  /\ saves' \in Seq([rules : SUBSET Rule, stage : Stage])
         /\ unseparated' \in SUBSET DOMAIN saves'
         /\ Accounted'
<1> DEFINE x == [rules |-> rules, stage |-> "sent"]
<1>1. saves \in Seq([rules : SUBSET Rule, stage : Stage]) /\ unseparated \in SUBSET DOMAIN saves
  BY DEF SettingsInv, SettingsTypeOK
<1>2. saves' = Append(saves, x) /\ x \in [rules : SUBSET Rule, stage : Stage]
  BY DEF Save, Stage
<1>3. /\ saves' \in Seq([rules : SUBSET Rule, stage : Stage])
      /\ DOMAIN saves' = DOMAIN saves \cup {Len(saves) + 1}
      /\ \A s \in DOMAIN saves : saves'[s] = saves[s]
      /\ saves'[Len(saves) + 1] = x
  BY <1>1, <1>2
<1>4. unseparated' \in SUBSET DOMAIN saves'
  BY <1>1, <1>3
<1>5. \A s \in unseparated : saves'[s] = saves[s]
  BY <1>1, <1>3
<1>6. AtStage("dropped")' \subseteq AtStage("dropped")
  BY <1>3 DEF AtStage
<1>7. {saves'[s].rules : s \in unseparated} = {saves[s].rules : s \in unseparated}
  BY <1>5
<1>8. Accounted
  BY DEF SettingsInv
<1>. QED BY <1>3, <1>4, <1>5, <1>6, <1>7, <1>8 DEF Accounted

\* A save that goes on keeps its rules.
LEMMA StageSet ==
  ASSUME SettingsTypeOK, NEW s \in DOMAIN saves, NEW stage \in Stage,
         saves' = [saves EXCEPT ![s].stage = stage]
  PROVE  /\ saves' \in Seq([rules : SUBSET Rule, stage : Stage])
         /\ DOMAIN saves' = DOMAIN saves
         /\ \A n \in DOMAIN saves : saves'[n].rules = saves[n].rules
         /\ \A n \in DOMAIN saves \ {s} : saves'[n] = saves[n]
         /\ saves'[s].stage = stage
<1> DEFINE S == [rules : SUBSET Rule, stage : Stage]
           y == [saves[s] EXCEPT !.stage = stage]
<1>1. saves \in Seq(S) /\ s \in 1..Len(saves) /\ DOMAIN saves = 1..Len(saves)
  BY DEF SettingsTypeOK
<1>2. saves[s] \in S
  BY <1>1, ElementOfSeq
<1>3. y \in S /\ y.rules = saves[s].rules /\ y.stage = stage
  BY <1>2
<1>4. saves' = [saves EXCEPT ![s] = y]
  OBVIOUS
<1> HIDE DEF S, y
<1>5. /\ saves' \in Seq(S)
      /\ Len(saves') = Len(saves)
      /\ \A n \in 1..Len(saves) : saves'[n] = IF n = s THEN y ELSE saves[n]
  BY <1>1, <1>3, <1>4, ExceptSeq
<1>6. DOMAIN saves' = DOMAIN saves
  BY <1>1, <1>4
<1>. QED BY <1>1, <1>3, <1>5, <1>6 DEF S

\* A drop separates what has been saved from what is under way.
LEMMA DropKeeps ==
  ASSUME SettingsInv, NEW s \in DOMAIN saves, Drop(s)
  PROVE  SettingsInv'
<1>1. SettingsTypeOK /\ Accounted /\ "dropped" \in Stage
  BY DEF SettingsInv, Stage
<1>2. /\ saves' \in Seq([rules : SUBSET Rule, stage : Stage])
      /\ DOMAIN saves' = DOMAIN saves
      /\ \A n \in DOMAIN saves \ {s} : saves'[n] = saves[n]
      /\ saves'[s].stage = "dropped"
  BY <1>1, StageSet DEF Drop
<1>3. /\ unseparated' = {s} \cup AtStage("dropped")
      /\ whitelist' = {} /\ undropped' = {}
      /\ UNCHANGED <<settings, text, mounted, reply>>
  BY DEF Drop, watcherVars
<1>4. AtStage("dropped")' = unseparated' /\ \A n \in unseparated' : saves'[n].stage = "dropped"
  BY <1>2, <1>3 DEF AtStage
<1>5. SettingsTypeOK'
  BY <1>1, <1>2, <1>3 DEF SettingsTypeOK, AtStage
<1>6. Accounted'
  BY <1>3, <1>4 DEF Accounted
<1>. QED BY <1>5, <1>6 DEF SettingsInv

\* A drop that fails leaves the rules of others beside those of its own save.
LEMMA DropFailsKeeps ==
  ASSUME SettingsInv, NEW s \in DOMAIN saves, DropFails(s)
  PROVE  SettingsInv'
<1>1. SettingsTypeOK /\ Accounted /\ "dropped" \in Stage
  BY DEF SettingsInv, Stage
<1>2. /\ saves' \in Seq([rules : SUBSET Rule, stage : Stage])
      /\ DOMAIN saves' = DOMAIN saves
      /\ \A n \in DOMAIN saves : saves'[n].rules = saves[n].rules
      /\ \A n \in DOMAIN saves \ {s} : saves'[n] = saves[n]
      /\ saves'[s].stage = "dropped"
  BY <1>1, StageSet DEF DropFails
<1>3. /\ unseparated' = unseparated \cup {s}
      /\ UNCHANGED <<whitelist, undropped, settings, text, mounted, reply>>
  BY DEF DropFails, watcherVars
<1>4. SettingsTypeOK'
  BY <1>1, <1>2, <1>3 DEF SettingsTypeOK
<1>5. AtStage("dropped")' \subseteq AtStage("dropped") \cup {s}
  BY <1>2 DEF AtStage
<1>6. unseparated \subseteq DOMAIN saves
  BY <1>1 DEF SettingsTypeOK
<1>7. \A n \in unseparated' : saves'[n].stage # "sent"
  BY <1>1, <1>2, <1>3, <1>6 DEF Accounted
<1>8. \A n \in unseparated' : saves'[n].stage = "saved" => saves'[n].rules \subseteq whitelist'
  BY <1>1, <1>2, <1>3, <1>6 DEF Accounted
<1>9. whitelist' \subseteq undropped' \cup UNION {saves'[n].rules : n \in unseparated'}
  BY <1>1, <1>2, <1>3, <1>6 DEF Accounted
<1>10. Accounted'
  BY <1>1, <1>3, <1>5, <1>7, <1>8, <1>9 DEF Accounted
<1>. QED BY <1>4, <1>10 DEF SettingsInv

\* An insert adds rules of a save that has not been separated from any other.
LEMMA InsertKeeps ==
  ASSUME SettingsInv, NEW s \in DOMAIN saves, Insert(s) \/ InsertFails(s)
  PROVE  SettingsInv'
<1>1. SettingsTypeOK /\ Accounted
  BY DEF SettingsInv
<1>2. PICK stage \in {"saved", "failed"}, rules \in SUBSET saves[s].rules :
        /\ saves' = [saves EXCEPT ![s].stage = stage]
        /\ whitelist' = whitelist \cup rules
        /\ stage = "saved" => rules = saves[s].rules
  <2>1. CASE Insert(s)
    BY <2>1 DEF Insert
  <2>2. CASE InsertFails(s)
    BY <2>2 DEF InsertFails
  <2>. QED BY <2>1, <2>2
<1>3. /\ saves' \in Seq([rules : SUBSET Rule, stage : Stage])
      /\ DOMAIN saves' = DOMAIN saves
      /\ \A n \in DOMAIN saves : saves'[n].rules = saves[n].rules
      /\ \A n \in DOMAIN saves \ {s} : saves'[n] = saves[n]
      /\ saves'[s].stage = stage
  BY <1>1, <1>2, StageSet DEF Stage
<1>4. UNCHANGED <<undropped, unseparated, settings, text, mounted, reply>> /\ saves[s].stage = "dropped"
  BY DEF Insert, InsertFails, watcherVars
<1>5. s \in unseparated
  BY <1>1, <1>4 DEF Accounted, AtStage
<1>6. saves[s].rules \in SUBSET Rule
  <2> DEFINE S == [rules : SUBSET Rule, stage : Stage]
  <2>1. saves \in Seq(S) /\ s \in 1..Len(saves)
    BY <1>1 DEF SettingsTypeOK
  <2>2. saves[s] \in S
    BY <2>1, ElementOfSeq
  <2>. QED BY <2>2
<1>7. SettingsTypeOK'
  BY <1>1, <1>2, <1>3, <1>4, <1>6 DEF SettingsTypeOK
<1>8. AtStage("dropped")' \subseteq AtStage("dropped")
  BY <1>2, <1>3 DEF AtStage
<1>9. unseparated \subseteq DOMAIN saves
  BY <1>1 DEF SettingsTypeOK
<1>10. \A n \in unseparated : saves'[n].stage # "sent"
  BY <1>1, <1>2, <1>3, <1>9 DEF Accounted
<1>11. \A n \in unseparated : saves'[n].stage = "saved" => saves'[n].rules \subseteq whitelist'
  BY <1>1, <1>2, <1>3, <1>9 DEF Accounted
<1>12. whitelist' \subseteq undropped \cup UNION {saves'[n].rules : n \in unseparated}
  <2>1. {saves'[n].rules : n \in unseparated} = {saves[n].rules : n \in unseparated}
    BY <1>3, <1>9
  <2>2. whitelist \subseteq undropped \cup UNION {saves[n].rules : n \in unseparated}
    BY <1>1 DEF Accounted
  <2>3. rules \subseteq UNION {saves[n].rules : n \in unseparated}
    BY <1>5
  <2>. QED BY <1>2, <2>1, <2>2, <2>3
<1>13. undropped' \subseteq whitelist' /\ AtStage("dropped")' \subseteq unseparated'
  BY <1>1, <1>2, <1>4, <1>8 DEF Accounted
<1>14. Accounted'
  BY <1>4, <1>10, <1>11, <1>12, <1>13 DEF Accounted
<1>. QED BY <1>7, <1>14 DEF SettingsInv

\* What the page does and what it is told leave the rules alone.
LEMMA EditorKeeps ==
  ASSUME SettingsInv, UNCHANGED rulesVars,
         settings' \in (SUBSET Rule) \cup {NONE},
         text' \in (SUBSET (Rule \cup {BadLine})) \cup {NONE},
         mounted' \in BOOLEAN,
         reply' \in [Requests -> Replies \cup {NONE}]
  PROVE  SettingsInv'
<1>1. UNCHANGED <<whitelist, saves, undropped, unseparated>>
  BY DEF rulesVars
<1>2. SettingsTypeOK'
  BY <1>1 DEF SettingsInv, SettingsTypeOK
<1>3. Accounted'
  BY <1>1 DEF SettingsInv, Accounted, AtStage
<1>. QED BY <1>2, <1>3 DEF SettingsInv

-----------------------------------------------------------------------------
\* The inductive invariant.
THEOREM SettingsInvariant == SettingsSpec => []SettingsInv
<1>1. SettingsInit => SettingsInv
  <2> SUFFICES ASSUME SettingsInit PROVE SettingsInv
    OBVIOUS
  <2>1. saves = << >> /\ unseparated = {} /\ undropped = whitelist /\ AtStage("dropped") = {}
    BY DEF SettingsInit, AtStage
  <2>2. Accounted
    BY <2>1 DEF Accounted
  <2>3. saves \in Seq([rules : SUBSET Rule, stage : Stage])
    BY <2>1, EmptySeq
  <2>4. reply \in [Requests -> Replies \cup {NONE}]
    BY DEF SettingsInit, WatcherInit
  <2>5. SettingsTypeOK
    BY <2>1, <2>3, <2>4 DEF SettingsInit, SettingsTypeOK
  <2>. QED BY <2>2, <2>5 DEF SettingsInv
<1>2. SettingsInv /\ [SettingsNext]_<<watcherVars, settingsVars>> => SettingsInv'
  <2> SUFFICES ASSUME SettingsInv, [SettingsNext]_<<watcherVars, settingsVars>>
               PROVE  SettingsInv'
    OBVIOUS
  <2>0. SettingsTypeOK
    BY DEF SettingsInv
  <2>1. CASE UNCHANGED <<watcherVars, settingsVars>>
    BY <2>0, <2>1, EditorKeeps DEF SettingsTypeOK, watcherVars, settingsVars
  <2>2. ASSUME NEW r \in Requests, OpenSettings(r) PROVE SettingsInv'
    BY <2>0, <2>2, EditorKeeps DEF OpenSettings, WatchApi, SettingsTypeOK
  <2>3. ASSUME NEW r \in Requests, SettingsSuccess(r) PROVE SettingsInv'
    <3>1. reply[r] \in SUBSET Rule
      BY <2>0, <2>3, SettingsAssumption DEF SettingsSuccess, Deliver, SettingsTypeOK
    <3>2. reply' \in [Requests -> Replies \cup {NONE}]
      BY <2>0, <2>3 DEF SettingsSuccess, Deliver, SettingsTypeOK
    <3>. QED BY <2>0, <2>3, <3>1, <3>2, EditorKeeps DEF SettingsSuccess, SettingsTypeOK
  <2>4. ASSUME NEW r \in Requests, Answer(r, whitelist), UNCHANGED settingsVars PROVE SettingsInv'
    <3>1. reply' \in [Requests -> Replies \cup {NONE}]
      BY <2>0, <2>4, SettingsAssumption DEF Answer, SettingsTypeOK
    <3>. QED BY <2>0, <2>4, <3>1, EditorKeeps DEF settingsVars, SettingsTypeOK
  <2>5. CASE LeaveSettings
    BY <2>0, <2>5, EditorKeeps DEF LeaveSettings, UnwatchApi, SettingsTypeOK
  <2>6. CASE _poll /\ UNCHANGED settingsVars
    BY <2>0, <2>6, EditorKeeps DEF _poll, settingsVars, SettingsTypeOK
  <2>7. CASE OpenEditor
    BY <2>0, <2>7, EditorKeeps DEF OpenEditor, watcherVars, SettingsTypeOK
  <2>8. CASE CloseEditor
    BY <2>0, <2>8, EditorKeeps DEF CloseEditor, watcherVars, SettingsTypeOK
  <2>9. ASSUME NEW lines \in SUBSET (Rule \cup {BadLine}), Edit(lines) PROVE SettingsInv'
    BY <2>0, <2>9, EditorKeeps DEF Edit, watcherVars, SettingsTypeOK
  <2>10. CASE Submit
    <3>1. text \in SUBSET Rule
      BY <2>0, <2>10 DEF Submit, SettingsTypeOK
    <3>2. /\ saves' \in Seq([rules : SUBSET Rule, stage : Stage])
          /\ unseparated' \in SUBSET DOMAIN saves'
          /\ Accounted'
      BY <2>10, <3>1, SaveKeeps DEF Submit
    <3>. QED BY <2>0, <2>10, <3>2 DEF Submit, watcherVars, SettingsTypeOK, SettingsInv
  <2>11. ASSUME NEW rules \in SUBSET Rule, OtherSave(rules) PROVE SettingsInv'
    <3>1. /\ saves' \in Seq([rules : SUBSET Rule, stage : Stage])
          /\ unseparated' \in SUBSET DOMAIN saves'
          /\ Accounted'
      BY <2>11, SaveKeeps DEF OtherSave
    <3>. QED BY <2>0, <2>11, <3>1 DEF OtherSave, watcherVars, SettingsTypeOK, SettingsInv
  <2>12. ASSUME NEW s \in DOMAIN saves, ServeSave(s) PROVE SettingsInv'
    BY <2>12, DropKeeps, DropFailsKeeps, InsertKeeps DEF ServeSave
  <2>. QED BY <2>1, <2>2, <2>3, <2>4, <2>5, <2>6, <2>7, <2>8, <2>9, <2>10, <2>11, <2>12
           DEF SettingsNext
<1>. QED BY <1>1, <1>2, PTL DEF SettingsSpec

\* The page polls while it watches and never longer: opening, leaving, editing and
\* saves leave no timer without a request, and no request that cannot be stopped.
THEOREM SettingsPollsWhileWatched ==
  SettingsSpec => [](TimerWhileRequests /\ EveryRequestCanBeStopped)
<1>1. SettingsInit => WatcherInit
  BY DEF SettingsInit
<1>2. SettingsInv /\ [SettingsNext]_<<watcherVars, settingsVars>> => [WatcherNext]_watcherVars
  <2> SUFFICES ASSUME SettingsInv, SettingsNext PROVE WatcherNext \/ UNCHANGED watcherVars
    BY DEF watcherVars
  <2>1. {SettingsUrl} \in SUBSET Urls /\ {} \in SUBSET Urls /\ whitelist \in Replies
    BY SettingsAssumption DEF SettingsInv, SettingsTypeOK
  <2>2. ASSUME NEW r \in Requests, OpenSettings(r) PROVE WatcherNext
    <3>1. Watch(SettingsUrl, r) \in [{SettingsUrl} -> Requests]
      BY DEF Watch
    <3>. QED BY <2>1, <2>2, <3>1 DEF OpenSettings, WatcherNext
  <2>3. ASSUME NEW r \in Requests, SettingsSuccess(r) PROVE WatcherNext
    BY <2>3 DEF SettingsSuccess, WatcherNext
  <2>4. ASSUME NEW r \in Requests, Answer(r, whitelist) PROVE WatcherNext
    BY <2>1, <2>4 DEF WatcherNext
  <2>5. CASE LeaveSettings
    BY <2>1, <2>5 DEF LeaveSettings, WatcherNext
  <2>6. CASE _poll
    BY <2>6 DEF WatcherNext
  <2>7. ASSUME OpenEditor \/ Submit \/ CloseEditor PROVE UNCHANGED watcherVars
    BY <2>7 DEF OpenEditor, Submit, CloseEditor
  <2>8. ASSUME NEW lines, Edit(lines) PROVE UNCHANGED watcherVars
    BY <2>8 DEF Edit
  <2>9. ASSUME NEW rules, OtherSave(rules) PROVE UNCHANGED watcherVars
    BY <2>9 DEF OtherSave
  <2>10. ASSUME NEW s, ServeSave(s) PROVE UNCHANGED watcherVars
    BY <2>10 DEF ServeSave, Drop, DropFails, Insert, InsertFails
  <2>. QED BY <2>2, <2>3, <2>4, <2>5, <2>6, <2>7, <2>8, <2>9, <2>10 DEF SettingsNext
<1>. QED BY <1>1, <1>2, SettingsInvariant, PollsWhileWatched, NothingPollsForever, PTL
         DEF SettingsSpec, WatcherSpec

\* Whatever saves overlap, and whatever drops and inserts fail: once those that
\* called back since the last drop are done, the database holds their rules and
\* no older ones.
THEOREM RulesSinceLastDrop == SettingsSpec => []WhitelistSinceLastDrop
<1>1. SettingsInv => WhitelistSinceLastDrop
  <2> SUFFICES ASSUME SettingsInv, \A s \in unseparated : saves[s].stage = "saved"
               PROVE  whitelist = undropped \cup UNION {saves[s].rules : s \in unseparated}
    BY DEF WhitelistSinceLastDrop
  <2>1. \A s \in unseparated : saves[s].rules \subseteq whitelist
    BY DEF SettingsInv, Accounted
  <2>2. /\ undropped \subseteq whitelist
        /\ whitelist \subseteq undropped \cup UNION {saves[s].rules : s \in unseparated}
    BY DEF SettingsInv, Accounted
  <2>. QED BY <2>1, <2>2
<1>. QED BY <1>1, SettingsInvariant, PTL

-----------------------------------------------------------------------------
(* DataScene *)

LinesEnd == dataOpen /\ ~dataBroken => ~LinesThrow(shown, tree, activeServer)

\* More rows take no server away.
LEMMA MoreRows ==
  ASSUME NEW rows, NEW more, rows \subseteq more, NEW built, NEW active,
         LinesThrow(more, built, active)
  PROVE  LinesThrow(rows, built, active)
  BY DEF LinesThrow, serversOf

\* A sunburst that is built from the rows shown has all its ends.
LEMMA BuiltFromShown ==
  ASSUME NEW rows, NEW active
  PROVE  ~LinesThrow(rows, rows, active)
  BY DEF LinesThrow, serversOf

\* Rows are only added to those shown when a page arrives.
LEMMA RowsKeep ==
  ASSUME LinesEnd, ~dataBroken, NEW rows, PageArrives(rows)
  PROVE  LinesEnd' /\ ~dataBroken'
<1>1. /\ shown' = filterData(result', filters)
      /\ shown \subseteq filterData(result', filters)
      /\ UNCHANGED <<dataOpen, activeServer>>
  BY DEF PageArrives, shown, filterData, ValueOf
<1>2. CASE ~dataOpen
  BY <1>1, <1>2 DEF PageArrives, LinesEnd
<1>3. CASE dataOpen /\ result = {}
  <2>1. tree' = shown' /\ ~dataBroken'
    BY <1>1, <1>3 DEF PageArrives, Mount
  <2>. QED BY <2>1, BuiltFromShown DEF LinesEnd, LinesThrow, serversOf
<1>4. CASE dataOpen /\ result # {}
  <2>1. /\ dataBroken' = LinesThrow(shown', tree, activeServer)
        /\ tree' = tree
    BY <1>1, <1>4 DEF PageArrives, Rerender
  <2>2. ~LinesThrow(shown', tree, activeServer)
    BY <1>1, <1>4, MoreRows DEF LinesEnd
  <2>. QED BY <1>1, <2>1, <2>2 DEF LinesEnd, LinesThrow, serversOf
<1>. QED BY <1>2, <1>3, <1>4

\* A change of the filters breaks the page, or leaves every line its end; one
\* that changes nothing does not break it.
LEMMA FiltersKeep ==
  ASSUME LinesEnd, ~dataBroken, dataOpen, NEW fs, SetFilters(fs),
         UNCHANGED <<result, enriched, dataOpen, activeServer>>
  PROVE  LinesEnd' /\ (dataBroken' => filters' # filters)
<1>1. /\ filters' = fs /\ tree' = tree
      /\ dataBroken' = LinesThrow(filterData(result, fs), tree, activeServer)
  BY DEF SetFilters, Rerender
<1>2. shown' = filterData(result, fs)
  BY <1>1 DEF shown, filterData, ValueOf
<1>3. LinesEnd'
  BY <1>1, <1>2 DEF LinesEnd, LinesThrow, serversOf
<1>4. ASSUME filters' = filters PROVE ~dataBroken'
  BY <1>1, <1>4 DEF LinesEnd, shown
<1>. QED BY <1>3, <1>4

\* What every step keeps, and what none does but one that changes the filters.
LEMMA DataStepKeeps ==
  ASSUME LinesEnd, ~dataBroken, DataNext
  PROVE  LinesEnd' /\ (dataBroken' => filters' # filters)
<1>1. ASSUME NEW rows, PageArrives(rows) PROVE LinesEnd' /\ ~dataBroken'
  BY <1>1, RowsKeep
<1>2. CASE OpenData
  <2>1. tree' = shown' /\ ~dataBroken'
    BY <1>2 DEF OpenData, shown, filterData, ValueOf
  <2>. QED BY <2>1, BuiltFromShown DEF LinesEnd, LinesThrow, serversOf
<1>3. CASE LeaveData
  BY <1>3 DEF LeaveData, LinesEnd
<1>4. ASSUME NEW key, NEW value, toggleFilter(key, value)
      PROVE  LinesEnd' /\ (dataBroken' => filters' # filters)
  BY <1>4, FiltersKeep DEF toggleFilter, hasRows
<1>5. ASSUME NEW leaf, onLeafClick(leaf)
      PROVE  LinesEnd' /\ (dataBroken' => filters' # filters)
  BY <1>5, FiltersKeep DEF onLeafClick, hasRows
<1>6. ASSUME NEW key, _delFilter(key)
      PROVE  LinesEnd' /\ (dataBroken' => filters' # filters)
  BY <1>6, FiltersKeep DEF _delFilter, hasRows
<1>7. CASE _onfilterLayer
  BY <1>7 DEF _onfilterLayer, LinesEnd, LinesThrow, serversOf, shown, filterData, ValueOf
<1>8. ASSUME NEW server, MouseMoves(server) PROVE LinesEnd' /\ ~dataBroken'
  <2>1. tree' = shown' /\ ~dataBroken'
    BY <1>8 DEF MouseMoves, shown, filterData, ValueOf
  <2>. QED BY <2>1, BuiltFromShown DEF LinesEnd, LinesThrow, serversOf
<1>. QED BY <1>1, <1>2, <1>3, <1>4, <1>5, <1>6, <1>7, <1>8 DEF DataNext

-----------------------------------------------------------------------------
\* The inductive invariant.
THEOREM LinesInvariant == DataSpec => []LinesEnd
<1>1. DataInit => LinesEnd
  BY DEF DataInit, LinesEnd
<1>2. LinesEnd /\ [DataNext]_dataVars => LinesEnd'
  <2> SUFFICES ASSUME LinesEnd, [DataNext]_dataVars PROVE LinesEnd'
    OBVIOUS
  <2>1. CASE DataNext
    BY <2>1, DataStepKeeps DEF DataNext
  <2>2. CASE UNCHANGED dataVars
    BY <2>2 DEF dataVars, LinesEnd, LinesThrow, serversOf, shown, filterData, ValueOf
  <2>. QED BY <2>1, <2>2
<1>. QED BY <1>1, <1>2, PTL DEF DataSpec

\* However many pages of rows arrive, in whatever order with clicks and moves
\* of the mouse, none of them breaks the page.
THEOREM PagesAreSafe == DataSpec => PagesNeverBreak
<1>1. LinesEnd /\ [DataNext]_dataVars
        => [~dataBroken /\ dataBroken' => filters' # filters]_dataVars
  <2>1. ASSUME LinesEnd, DataNext, ~dataBroken, dataBroken' PROVE filters' # filters
    BY <2>1, DataStepKeeps
  <2>. QED BY <2>1
<1>. QED BY <1>1, LinesInvariant, PTL DEF DataSpec, PagesNeverBreak

-----------------------------------------------------------------------------
(* Menu *)

\* While the screen is what closed the menu the user had left it open, and it
\* opens as soon as there is room.
MenuInv ==
  /\ nav \in [active : BOOLEAN, enabled : BOOLEAN, responsive : {"single", "multiple"},
              activateOnMultiple : BOOLEAN]
  /\ left \in BOOLEAN /\ atLogin \in BOOLEAN
  /\ nav.activateOnMultiple => left /\ (nav.responsive = "multiple" => nav.active)
  /\ ~nav.activateOnMultiple => nav.active = left

\* However the screen grows and shrinks and the user opens, closes and signs in,
\* the menu knows why it is closed (NavSidebar).
THEOREM MenuInvariant == MenuSpec => []MenuInv
<1>1. MenuInit => MenuInv
  <2>1. MenuInit => left \in BOOLEAN /\ atLogin \in BOOLEAN
    BY Zenon DEF MenuInit
  <2>. QED BY <2>1 DEF MenuInit, MenuInv
<1>2. MenuInv /\ [MenuNext]_menuVars => MenuInv'
  <2> SUFFICES ASSUME MenuInv, [MenuNext]_menuVars PROVE MenuInv'
    OBVIOUS
  <2>1. ASSUME NEW active \in BOOLEAN, navActivate(active) PROVE MenuInv'
    BY <2>1 DEF navActivate, MenuInv
  <2>2. ASSUME NEW columns \in {"single", "multiple"}, navResponsive(columns) PROVE MenuInv'
    <3>1. CASE columns = "single" /\ nav.active
      BY <2>2, <3>1 DEF navResponsive, MenuInv
    <3>2. CASE columns = "multiple" /\ nav.activateOnMultiple
      BY <2>2, <3>2 DEF navResponsive, MenuInv
    <3>3. CASE ~(columns = "single" /\ nav.active) /\ ~(columns = "multiple" /\ nav.activateOnMultiple)
      BY <2>2, <3>3 DEF navResponsive, MenuInv
    <3>. QED BY <3>1, <3>2, <3>3
  <2>3. CASE ShowLogin
    <3>1. atLogin' = ~atLogin /\ nav' = [nav EXCEPT !.enabled = atLogin] /\ left' = left
          /\ atLogin \in BOOLEAN
      BY <2>3 DEF ShowLogin, MenuInv
    <3>. QED BY <3>1 DEF MenuInv
  <2>4. CASE ReloadElsewhere \/ UNCHANGED menuVars
    BY <2>4 DEF ReloadElsewhere, menuVars, MenuInv
  <2>. QED BY <2>1, <2>2, <2>3, <2>4 DEF MenuNext
<1>. QED BY <1>1, <1>2, PTL DEF MenuSpec

\* Where there is room the menu is as the user left it.
THEOREM MenuIsRestored == MenuSpec => []MenuAsLeft
<1>1. MenuInv => MenuAsLeft
  BY DEF MenuInv, MenuAsLeft
<1>. QED BY <1>1, MenuInvariant, PTL

-----------------------------------------------------------------------------
(* QueryForms *)

\* What division by the instants of a day says of an instant.
LEMMA DayNumber ==
  ASSUME NEW t \in Time
  PROVE  /\ t \in Nat /\ t \div PerDay \in Nat /\ t \div PerDay + 1 \in DOMAIN Calendar
         /\ PerDay * (t \div PerDay) <= t /\ t < PerDay * (t \div PerDay) + PerDay
         /\ Midnight(t) = PerDay * (t \div PerDay)
<1>1. PICK p, n : p = PerDay /\ n = Len(Calendar)
  OBVIOUS
<1>2. p \in Nat \ {0} /\ n \in Nat
  BY <1>1, FormsAssumption
<1>3. t \in Nat /\ t < n * p
  BY <1>1, <1>2, FormsAssumption DEF Time
<1>4. PICK q : q = t \div p
  OBVIOUS
<1>5. q \in Nat /\ p * q <= t /\ t < p * q + p
  BY ONLY <1>2, <1>3, <1>4
<1>6. q < n
  <2>1. SUFFICES ASSUME q >= n PROVE FALSE
    BY <1>2, <1>5
  <2>2. p * q >= n * p
    BY ONLY <1>2, <1>5, <2>1
  <2>. QED BY ONLY <1>2, <1>3, <1>5, <2>2
<1>7. DOMAIN Calendar = 1..n
  BY <1>1, FormsAssumption
<1>8. q * p = p * q
  BY ONLY <1>2, <1>5
<1>9. Midnight(t) = p * q
  BY <1>1, <1>4, <1>8 DEF Midnight
<1>. QED BY <1>1, <1>2, <1>3, <1>4, <1>5, <1>6, <1>7, <1>9

\* Instants come in the order of their days.
LEMMA DaysInOrder ==
  ASSUME NEW s \in Time, NEW t \in Time, s <= t
  PROVE  s \div PerDay <= t \div PerDay
<1>1. PICK p, q, r : p = PerDay /\ q = s \div PerDay /\ r = t \div PerDay
  OBVIOUS
<1>2. /\ p \in Nat \ {0} /\ s \in Nat /\ t \in Nat /\ q \in Nat /\ r \in Nat
      /\ p * q <= s /\ s <= t /\ t < p * r + p
  BY <1>1, DayNumber, FormsAssumption
<1>3. SUFFICES ASSUME r + 1 <= q PROVE FALSE
  BY <1>1, <1>2
<1>4. p * (r + 1) <= p * q
  BY ONLY <1>2, <1>3
<1>5. p * (r + 1) = p * r + p
  BY ONLY <1>2
<1>6. p * r \in Int /\ p * q \in Int
  BY ONLY <1>2
<1>. QED BY ONLY <1>2, <1>4, <1>5, <1>6

\* Days whose midnights are a day apart at most follow one another.
LEMMA NextDay ==
  ASSUME NEW s \in Time, NEW t \in Time, Midnight(t) <= Midnight(s) + PerDay
  PROVE  t \div PerDay <= s \div PerDay + 1
<1>1. PICK p, q, r : p = PerDay /\ q = s \div PerDay /\ r = t \div PerDay
  OBVIOUS
<1>2. p \in Nat \ {0} /\ q \in Nat /\ r \in Nat /\ p * r <= p * q + p
  BY <1>1, DayNumber, FormsAssumption
<1>3. SUFFICES ASSUME q + 2 <= r PROVE FALSE
  BY <1>1, <1>2
<1>4. p * (q + 2) <= p * r
  BY ONLY <1>2, <1>3
<1>5. p * (q + 2) = p * q + p + p
  BY ONLY <1>2
<1>6. p * r \in Int /\ p * q \in Int
  BY ONLY <1>2
<1>. QED BY ONLY <1>2, <1>4, <1>5, <1>6

\* Different days have different dates, and the days between two days of a
\* month are of that month.
LEMMA DatesInOrder ==
  ASSUME NEW s \in Time, NEW t \in Time
  PROVE  /\ DayOf(s) \in [year : Nat, month : Nat, day : Nat]
         /\ DayOf(s) = DayOf(t) => s \div PerDay = t \div PerDay
         /\ s <= t => DayOf(s) = DayOf(t) \/ Earlier(DayOf(s), DayOf(t))
<1>1. PICK q, r : q = s \div PerDay /\ r = t \div PerDay
  OBVIOUS
<1>2. /\ q \in Nat /\ r \in Nat /\ q + 1 \in DOMAIN Calendar /\ r + 1 \in DOMAIN Calendar
      /\ DayOf(s) = Calendar[q + 1] /\ DayOf(t) = Calendar[r + 1]
  BY <1>1, DayNumber DEF DayOf
<1>3. DOMAIN Calendar = 1..Len(Calendar)
  BY FormsAssumption
<1>4. \A i \in DOMAIN Calendar : Calendar[i] \in [year : Nat, month : Nat, day : Nat]
  BY <1>3, FormsAssumption, ElementOfSeq
<1>5. \A i \in DOMAIN Calendar : ~Earlier(Calendar[i], Calendar[i])
  BY <1>4 DEF Earlier
<1>6. \A i, j \in DOMAIN Calendar : i < j => Earlier(Calendar[i], Calendar[j])
  BY FormsAssumption
<1>7. q < r \/ q = r \/ r < q
  BY <1>2
<1>8. q = r \/ Calendar[q + 1] # Calendar[r + 1]
  BY <1>2, <1>5, <1>6, <1>7
<1>9. s <= t => q <= r
  BY <1>1, DaysInOrder
<1>10. s <= t => DayOf(s) = DayOf(t) \/ Earlier(DayOf(s), DayOf(t))
  BY <1>2, <1>6, <1>7, <1>9
<1>. QED BY <1>1, <1>2, <1>4, <1>8, <1>10

\* A query that was sent: its ends, and the table for the midnight of then.
SentOK ==
  /\ sent.from \in Time /\ sent.to \in Time /\ sent.from < sent.to
  /\ \E n \in Time :
       /\ sent.sentOn = DayOf(n)
       /\ \/ /\ ~(sent.from <= Midnight(n) /\ sent.to > Midnight(n))
             /\ sent.table = IF sent.from < Midnight(n) THEN "dns.queries" ELSE "dns.staging"
          \/ sent.table = IF sent.to <= Midnight(n) THEN "dns.queries" ELSE "dns.staging"

FormInv ==
  /\ now \in Time
  /\ form \in [from : Time \cup {UNSET, INVALID}, to : Time \cup {UNSET, INVALID},
              subject : BOOLEAN, errors : BOOLEAN]
  /\ sent # UNSET => SentOK

\* Whatever is typed, and whenever, a query that was sent has its ends in order
\* and the table that belongs to the midnight it was sent after (the forms).
THEOREM FormInvariant == FormSpec => []FormInv
<1>1. FormInit => FormInv
  <2>1. PICK m : m = Len(Calendar) * PerDay
    OBVIOUS
  <2>2. m \in Nat /\ m > 1 /\ Time = 0..(m - 1)
    BY <2>1, FormsAssumption DEF Time
  <2>3. 0 \in Time /\ 1 \in Time
    BY <2>2
  <2>. QED BY <2>3 DEF FormInit, FormInv
<1>2. FormInv /\ [FormNext]_formVars => FormInv'
  <2> SUFFICES ASSUME FormInv, [FormNext]_formVars PROVE FormInv'
    OBVIOUS
  <2>1. ASSUME NEW field \in {"from", "to"}, NEW value \in Time \cup {UNSET, INVALID},
               handleInputChange(field, value)
        PROVE  FormInv'
    BY <2>1 DEF handleInputChange, FormInv, SentOK
  <2>5. ASSUME NEW given \in BOOLEAN, handleInputChange("subject", given)
        PROVE  FormInv'
    BY <2>5 DEF handleInputChange, FormInv, SentOK
  <2>2. CASE handleSubmit
    <3>1. CASE Errors # {}
      BY <2>2, <3>1 DEF handleSubmit, FormInv, SentOK
    <3>2. CASE Errors = {}
      <4>1. PICK from, to, m : from = form.from /\ to = form.to /\ m = Midnight(now)
        OBVIOUS
      <4>2. /\ {from, to} \cap {UNSET, INVALID} = {}
            /\ ~(to <= from \/ (from <= m /\ to > m))
        <5>1. \A field \in {"from", "to"} : form[field] \notin {UNSET, INVALID}
          BY <3>2 DEF Errors
        <5>2. {from, to} \cap {UNSET, INVALID} = {}
          BY <4>1, <5>1
        <5>. QED BY <3>2, <4>1, <5>2 DEF Errors, archiveTime
      <4>3. from \in Time /\ to \in Time /\ from < to
        <5>1. from \in Time /\ to \in Time
          BY <4>1, <4>2 DEF FormInv
        <5>. QED BY <4>2, <5>1, DayNumber
      <4>4. /\ sent' = SqlOf(from, to, IF from < m THEN "dns.queries" ELSE "dns.staging",
                             FormParts(from, to))
            /\ UNCHANGED <<form, now>>
        BY <2>2, <3>2, <4>1 DEF handleSubmit, archiveTime
      <4>5. /\ sent'.from = from /\ sent'.to = to /\ sent'.sentOn = DayOf(now)
            /\ sent'.table = IF from < m THEN "dns.queries" ELSE "dns.staging"
        BY <4>4 DEF SqlOf
      <4>6. SentOK'
        BY <4>1, <4>2, <4>3, <4>5 DEF SentOK, FormInv
      <4>. QED BY <4>4, <4>6 DEF FormInv
    <3>. QED BY <3>1, <3>2
  <2>3. ASSUME NEW start \in Time, NEW end \in Time, loadAnomalyData(start, end) PROVE FormInv'
    <3>1. PICK m : m = Midnight(now)
      OBVIOUS
    <3>2. /\ start < end /\ UNCHANGED <<form, now>>
          /\ sent' = SqlOf(start, end, IF end <= m THEN "dns.queries" ELSE "dns.staging",
                           AnomalyParts(start, end))
      BY <2>3, <3>1 DEF loadAnomalyData, archiveTime
    <3>3. /\ sent'.from = start /\ sent'.to = end /\ sent'.sentOn = DayOf(now)
          /\ sent'.table = IF end <= m THEN "dns.queries" ELSE "dns.staging"
      BY <3>2 DEF SqlOf
    <3>4. SentOK'
      BY <3>1, <3>2, <3>3 DEF SentOK, FormInv
    <3>. QED BY <3>2, <3>4 DEF FormInv
  <2>4. CASE Tick \/ UNCHANGED formVars
    BY <2>4 DEF Tick, formVars, FormInv, SentOK
  <2>. QED BY <2>1, <2>2, <2>3, <2>4, <2>5 DEF FormNext
<1>. QED BY <1>1, <1>2, PTL DEF FormSpec

\* An instant of the range is in the partitions that are read.
LEMMA PartsCover ==
  ASSUME NEW from \in Time, NEW to \in Time, NEW t \in Time, from <= t, t < to
  PROVE  /\ DayOf(from).year = DayOf(to).year /\ DayOf(from).month = DayOf(to).month
              => t \in FormParts(from, to)
         /\ Midnight(to) <= Midnight(from) + PerDay => t \in AnomalyParts(from, to)
<1>1. from \in Nat /\ to \in Nat /\ t \in Nat /\ t <= to
  BY DayNumber
<1>2. PICK d, d1, d2 : d = DayOf(t) /\ d1 = DayOf(from) /\ d2 = DayOf(to)
  OBVIOUS
<1>3. /\ {d, d1, d2} \subseteq [year : Nat, month : Nat, day : Nat]
      /\ d1 = d \/ Earlier(d1, d)
      /\ d = d2 \/ Earlier(d, d2)
  BY <1>1, <1>2, DatesInOrder
<1>4. ASSUME d1.year = d2.year, d1.month = d2.month
      PROVE  t \in FormParts(from, to)
  <2>1. d.year = d1.year /\ d.month = d1.month /\ d1.day <= d.day /\ d.day <= d2.day
    BY <1>3, <1>4 DEF Earlier
  <2>. QED BY <1>2, <1>3, <1>4, <2>1 DEF FormParts
<1>5. ASSUME Midnight(to) <= Midnight(from) + PerDay
      PROVE  t \in AnomalyParts(from, to)
  <2>1. PICK q, q1, q2 : q = t \div PerDay /\ q1 = from \div PerDay /\ q2 = to \div PerDay
    OBVIOUS
  <2>2. q1 <= q /\ q <= q2 /\ q2 <= q1 + 1 /\ {q, q1, q2} \subseteq Nat
    BY <1>1, <1>5, <2>1, DayNumber, DaysInOrder, NextDay
  <2>3. q = q1 \/ q = q2
    BY <2>2
  <2>4. d = d1 \/ d = d2
    BY <1>2, <2>1, <2>3 DEF DayOf
  <2>. QED BY <1>2, <2>4 DEF AnomalyParts
<1>. QED BY <1>2, <1>4, <1>5

\* A query that runs on the day it was sent finds all of its range.
THEOREM QueriesFindTheirRange == FormSpec => []NothingMissing
<1>1. FormInv => NothingMissing
  <2> SUFFICES ASSUME FormInv, sent # UNSET, sent.sentOn = DayOf(now),
                      ~(sent.from < archiveTime /\ sent.to > archiveTime),
                      \/ /\ sent.parts = FormParts(sent.from, sent.to)
                         /\ DayOf(sent.from).year = DayOf(sent.to).year
                         /\ DayOf(sent.from).month = DayOf(sent.to).month
                      \/ /\ sent.parts = AnomalyParts(sent.from, sent.to)
                         /\ Midnight(sent.to) <= Midnight(sent.from) + PerDay
               PROVE  Answered = {t \in Time : t >= sent.from /\ t < sent.to /\ t < now}
    BY DEF NothingMissing
  <2>1. now \in Time /\ SentOK
    BY DEF FormInv
  <2>2. PICK n \in Time :
          /\ sent.sentOn = DayOf(n)
          /\ \/ /\ ~(sent.from <= Midnight(n) /\ sent.to > Midnight(n))
                /\ sent.table = IF sent.from < Midnight(n) THEN "dns.queries" ELSE "dns.staging"
             \/ sent.table = IF sent.to <= Midnight(n) THEN "dns.queries" ELSE "dns.staging"
    BY <2>1 DEF SentOK
  <2>3. Midnight(n) = archiveTime
    <3>1. n \div PerDay = now \div PerDay
      BY <2>1, <2>2, DatesInOrder
    <3>. QED BY <3>1 DEF Midnight, archiveTime
  <2>4. PICK from, to, m, table :
          from = sent.from /\ to = sent.to /\ m = archiveTime /\ table = sent.table
    OBVIOUS
  <2>5. from \in Time /\ to \in Time /\ from \in Nat /\ to \in Nat /\ m \in Nat
    <3>1. m = PerDay * (now \div PerDay) /\ now \div PerDay \in Nat /\ PerDay \in Nat
      BY <2>1, <2>4, DayNumber, FormsAssumption DEF archiveTime
    <3>2. m \in Nat
      <4>1. PICK p, q : p = PerDay /\ q = now \div PerDay
        OBVIOUS
      <4>2. p \in Nat /\ q \in Nat /\ m = p * q
        BY <3>1, <4>1
      <4>. QED BY ONLY <4>2
    <3>. QED BY <2>1, <2>4, <3>2, DayNumber DEF SentOK
  <2>6. ASSUME NEW t \in Time, t >= from, t < to, t < now
        PROVE  t \in InTable(table) /\ t \in sent.parts
    <3>1. t \in Nat
      BY DayNumber
    <3>2. t < m <=> table = "dns.queries"
      BY <2>2, <2>3, <2>4, <2>5, <2>6, <3>1
    <3>3. t \in sent.parts
      BY <2>4, <2>5, <2>6, <3>1, PartsCover
    <3>. QED BY <2>4, <2>6, <3>2, <3>3 DEF InTable
  <2>7. \A t \in InTable(table) : t \in Time /\ t < now
    BY DEF InTable
  <2>. QED BY <2>4, <2>6, <2>7 DEF Answered
<1>. QED BY <1>1, FormInvariant, PTL

-----------------------------------------------------------------------------
(* Charts *)

\* The sums of a function over the subsets of a finite set: each element of a
\* set counts once, whichever is taken first.
IsSums(sums, f, S) ==
  /\ sums \in [SUBSET S -> Nat]
  /\ sums[{}] = 0
  /\ \A V \in SUBSET S : \A x \in V : sums[V] = f[x] + sums[V \ {x}]

Step(f, sums, V) == LET x == CHOOSE x \in V : TRUE IN f[x] + sums[V \ {x}]

\* The recursion of the sum, up to sets of m elements.
Recursion(f, S, m) ==
  {sums \in [SUBSET S -> Nat] :
     \A V \in SUBSET S : Cardinality(V) <= m =>
        sums[V] = IF V = {} THEN 0 ELSE Step(f, sums, V)}

LEMMA RecursionExists ==
  ASSUME NEW S, IsFiniteSet(S), NEW f, \A x \in S : f[x] \in Nat
  PROVE  Recursion(f, S, Cardinality(S)) # {}
<1> DEFINE N == Cardinality(S)
           T == {m \in 0..N : Recursion(f, S, m) # {}}
<1>1. N \in Nat
  BY FS_CardinalityType
<1>2. \A V \in SUBSET S : IsFiniteSet(V) /\ Cardinality(V) \in Nat
                          /\ (Cardinality(V) = 0 <=> V = {})
  BY FS_Subset, FS_CardinalityType, FS_EmptySet
<1>3. 0 \in T
  <2> DEFINE zero == [V \in SUBSET S |-> 0]
  <2>1. zero \in [SUBSET S -> Nat]
    OBVIOUS
  <2>2. \A V \in SUBSET S : Cardinality(V) <= 0 => zero[V] = IF V = {} THEN 0 ELSE Step(f, zero, V)
    BY <1>2
  <2>3. zero \in Recursion(f, S, 0)
    BY <2>1, <2>2 DEF Recursion
  <2>. QED BY <1>1, <2>3
<1>4. ASSUME NEW m \in 0..N, m < N, m \in T  PROVE m + 1 \in T
  <2>1. PICK old \in Recursion(f, S, m) : TRUE
    BY <1>4
  <2>2. old \in [SUBSET S -> Nat]
    BY <2>1 DEF Recursion
  <2> DEFINE new == [V \in SUBSET S |-> IF Cardinality(V) <= m THEN old[V] ELSE Step(f, old, V)]
  <2>3. \A V \in SUBSET S : V # {} =>
          /\ (CHOOSE x \in V : TRUE) \in V
          /\ V \ {CHOOSE x \in V : TRUE} \in SUBSET S
          /\ Cardinality(V \ {CHOOSE x \in V : TRUE}) = Cardinality(V) - 1
    BY <1>2, FS_RemoveElement
  <2>4. \A V \in SUBSET S : V # {} => Step(f, old, V) \in Nat
    BY <2>2, <2>3 DEF Step
  <2>5. \A V \in SUBSET S : ~(Cardinality(V) <= m) => V # {}
    BY <1>2
  <2>6. new \in [SUBSET S -> Nat]
    BY <2>2, <2>4, <2>5
  <2>7. ASSUME NEW V \in SUBSET S, Cardinality(V) <= m + 1
        PROVE  new[V] = IF V = {} THEN 0 ELSE Step(f, new, V)
    <3>1. CASE V = {}
      <4>1. Cardinality(V) <= m
        BY <1>2, <3>1
      <4>2. new[V] = old[V]
        BY <4>1
      <4>3. old[V] = 0
        BY <2>1, <3>1, <4>1 DEF Recursion
      <4>. QED BY <3>1, <4>2, <4>3
    <3>2. CASE V # {}
      <4>1. Cardinality(V \ {CHOOSE x \in V : TRUE}) <= m
        BY <1>2, <2>3, <2>7, <3>2
      <4>2. new[V \ {CHOOSE x \in V : TRUE}] = old[V \ {CHOOSE x \in V : TRUE}]
        BY <2>3, <3>2, <4>1
      <4>3. Step(f, new, V) = Step(f, old, V)
        BY <4>2 DEF Step
      <4>4. CASE Cardinality(V) <= m
        <5>1. old[V] = Step(f, old, V)
          BY <2>1, <3>2, <4>4 DEF Recursion
        <5>2. new[V] = old[V]
          BY <4>4
        <5>. QED BY <3>2, <4>3, <5>1, <5>2
      <4>5. CASE ~(Cardinality(V) <= m)
        <5>1. new[V] = Step(f, old, V)
          BY <4>5
        <5>. QED BY <3>2, <4>3, <5>1
      <4>. QED BY <4>4, <4>5
    <3>. QED BY <3>1, <3>2
  <2>. HIDE DEF new
  <2>8. new \in Recursion(f, S, m + 1)
    BY <2>6, <2>7 DEF Recursion
  <2>. QED BY <1>1, <1>4, <2>8
<1>. HIDE DEF T
<1>5. N \in T
  BY <1>1, <1>3, <1>4, UpTo
<1>. QED BY <1>5 DEF T

\* The function that the library chooses is such a recursion.
LEMMA SumIsRecursion ==
  ASSUME NEW S, IsFiniteSet(S), NEW f, \A x \in S : f[x] \in Nat
  PROVE  \E sums \in [SUBSET S -> Nat] :
           /\ \A V \in SUBSET S : sums[V] = IF V = {} THEN 0 ELSE Step(f, sums, V)
           /\ SumFunctionOnSet(f, S) = sums[S]
<1> DEFINE Body(sums) == [V \in SUBSET S |-> IF V = {} THEN 0 ELSE Step(f, sums, V)]
           iter == CHOOSE sums : sums = Body(sums)
<1>1. PICK sums \in Recursion(f, S, Cardinality(S)) : TRUE
  BY RecursionExists
<1>2. sums \in [SUBSET S -> Nat]
  BY <1>1 DEF Recursion
<1>3. \A V \in SUBSET S : Cardinality(V) <= Cardinality(S)
  BY FS_Subset
<1>4. \A V \in SUBSET S : sums[V] = IF V = {} THEN 0 ELSE Step(f, sums, V)
  BY <1>1, <1>3 DEF Recursion
<1>5. sums = Body(sums)
  <2>. HIDE DEF Step
  <2>. QED BY <1>2, <1>4
<1>6. iter = Body(iter)
  <2>. HIDE DEF Body
  <2>. QED BY <1>5
<1>7. SumFunctionOnSet(f, S) = iter[S]
  BY Zenon DEF SumFunctionOnSet, FoldFunctionOnSet, MapThenFoldSet, Step
<1>. HIDE DEF iter
<1>8. \A V \in SUBSET S : iter[V] = IF V = {} THEN 0 ELSE Step(f, iter, V)
  BY <1>6
<1>9. iter \in [SUBSET S -> Nat]
  <2> DEFINE T == {m \in 0..Cardinality(S) : \A V \in SUBSET S : Cardinality(V) <= m => iter[V] \in Nat}
  <2>1. Cardinality(S) \in Nat /\ \A V \in SUBSET S : /\ IsFiniteSet(V) /\ Cardinality(V) \in Nat
                                                      /\ (Cardinality(V) = 0 <=> V = {})
    BY FS_Subset, FS_CardinalityType, FS_EmptySet
  <2>2. 0 \in T
    BY <1>8, <2>1
  <2>3. ASSUME NEW m \in 0..Cardinality(S), m < Cardinality(S), m \in T PROVE m + 1 \in T
    <3>1. ASSUME NEW V \in SUBSET S, Cardinality(V) <= m + 1 PROVE iter[V] \in Nat
      <4>1. CASE V = {}
        BY <1>8, <4>1
      <4>2. CASE V # {}
        <5>1. PICK x \in V : x = CHOOSE y \in V : TRUE
          BY <4>2
        <5>2. iter[V] = f[x] + iter[V \ {x}]
          BY <1>8, <4>2, <5>1 DEF Step
        <5>3. V \ {x} \in SUBSET S /\ Cardinality(V \ {x}) = Cardinality(V) - 1
          BY <2>1, FS_RemoveElement
        <5>4. iter[V \ {x}] \in Nat
          BY <2>1, <2>3, <3>1, <5>3
        <5>. QED BY <5>2, <5>4
      <4>. QED BY <4>1, <4>2
    <3>. QED BY <2>1, <2>3, <3>1
  <2>. HIDE DEF T
  <2>4. Cardinality(S) \in T
    BY <2>1, <2>2, <2>3, UpTo
  <2>5. \A V \in SUBSET S : iter[V] \in Nat
    BY <1>3, <2>4 DEF T
  <2>6. iter = [V \in SUBSET S |-> iter[V]]
    BY <1>6
  <2>. QED BY <2>5, <2>6
<1>. QED BY <1>7, <1>8, <1>9

\* It does not matter which element is taken first.
LEMMA SumOfParts ==
  ASSUME NEW S, IsFiniteSet(S), NEW f, \A x \in S : f[x] \in Nat
  PROVE  \E sums : IsSums(sums, f, S) /\ SumFunctionOnSet(f, S) = sums[S]
<1>1. PICK sums \in [SUBSET S -> Nat] :
           /\ \A V \in SUBSET S : sums[V] = IF V = {} THEN 0 ELSE Step(f, sums, V)
           /\ SumFunctionOnSet(f, S) = sums[S]
  BY SumIsRecursion
<1> DEFINE T == {m \in 0..Cardinality(S) :
                   \A V \in SUBSET S : Cardinality(V) <= m =>
                     \A x \in V : sums[V] = f[x] + sums[V \ {x}]}
<1>2. Cardinality(S) \in Nat /\ \A V \in SUBSET S : /\ IsFiniteSet(V) /\ Cardinality(V) \in Nat
                                                    /\ (Cardinality(V) = 0 <=> V = {})
                                                    /\ Cardinality(V) <= Cardinality(S)
  BY FS_Subset, FS_CardinalityType, FS_EmptySet
<1>3. 0 \in T
  BY <1>2
<1>4. ASSUME NEW m \in 0..Cardinality(S), m < Cardinality(S), m \in T PROVE m + 1 \in T
  <2>1. ASSUME NEW V \in SUBSET S, Cardinality(V) <= m + 1, NEW x \in V
        PROVE  sums[V] = f[x] + sums[V \ {x}]
    <3>1. PICK y \in V : y = CHOOSE z \in V : TRUE
      OBVIOUS
    <3>2. sums[V] = f[y] + sums[V \ {y}]
      BY <1>1, <3>1 DEF Step
    <3>3. CASE y = x
      BY <3>2, <3>3
    <3>4. CASE y # x
      <4>1. /\ V \ {y} \in SUBSET S /\ Cardinality(V \ {y}) <= m /\ x \in V \ {y}
            /\ V \ {x} \in SUBSET S /\ Cardinality(V \ {x}) <= m /\ y \in V \ {x}
        BY <1>2, <2>1, <3>4, FS_RemoveElement
      <4>2. sums[V \ {y}] = f[x] + sums[(V \ {y}) \ {x}]
        BY <1>4, <4>1
      <4>3. sums[V \ {x}] = f[y] + sums[(V \ {x}) \ {y}]
        BY <1>4, <4>1
      <4>4. (V \ {y}) \ {x} = (V \ {x}) \ {y}
        OBVIOUS
      <4>5. PICK rest, p, q : rest = sums[(V \ {x}) \ {y}] /\ p = f[x] /\ q = f[y]
        OBVIOUS
      <4>6. rest \in Nat /\ p \in Nat /\ q \in Nat
        BY <1>1, <2>1, <4>1, <4>5
      <4>7. sums[V] = q + (p + rest) /\ sums[V \ {x}] = q + rest
        BY <3>2, <4>2, <4>3, <4>4, <4>5
      <4>. QED BY <4>5, <4>6, <4>7
    <3>. QED BY <3>3, <3>4
  <2>. QED BY <1>2, <1>4, <2>1
<1>. HIDE DEF T
<1>5. Cardinality(S) \in T
  BY <1>2, <1>3, <1>4, UpTo
<1>6. \A V \in SUBSET S : \A x \in V : sums[V] = f[x] + sums[V \ {x}]
  BY <1>2, <1>5 DEF T
<1>. QED BY <1>1, <1>6 DEF IsSums

\* What counts as nothing can be left out of a sum.
LEMMA SumExtends ==
  ASSUME NEW S, IsFiniteSet(S), NEW T \in SUBSET S, NEW f, NEW g,
         \A x \in T : f[x] \in Nat /\ g[x] = f[x], \A x \in S \ T : g[x] = 0
  PROVE  SumFunctionOnSet(g, S) = SumFunctionOnSet(f, T)
<1>1. IsFiniteSet(T) /\ \A x \in S : g[x] \in Nat
  BY FS_Subset
<1>2. PICK a : IsSums(a, g, S) /\ SumFunctionOnSet(g, S) = a[S]
  BY <1>1, SumOfParts
<1>3. PICK b : IsSums(b, f, T) /\ SumFunctionOnSet(f, T) = b[T]
  BY <1>1, SumOfParts
<1> DEFINE N == {m \in 0..Cardinality(S) :
                   \A V \in SUBSET S : Cardinality(V) <= m => a[V] = b[V \cap T]}
<1>4. Cardinality(S) \in Nat /\ \A V \in SUBSET S : /\ IsFiniteSet(V) /\ Cardinality(V) \in Nat
                                                    /\ (Cardinality(V) = 0 <=> V = {})
                                                    /\ Cardinality(V) <= Cardinality(S)
  BY FS_Subset, FS_CardinalityType, FS_EmptySet
<1>5. 0 \in N
  <2>1. {} \cap T = {} /\ a[{}] = 0 /\ b[{}] = 0
    BY <1>2, <1>3 DEF IsSums
  <2>2. \A V \in SUBSET S : Cardinality(V) <= 0 => V = {}
    BY <1>4
  <2>. QED BY <1>4, <2>1, <2>2
<1>6. ASSUME NEW m \in 0..Cardinality(S), m < Cardinality(S), m \in N PROVE m + 1 \in N
  <2>1. ASSUME NEW V \in SUBSET S, Cardinality(V) <= m + 1, V # {}
        PROVE  a[V] = b[V \cap T]
    <3>1. PICK x : x \in V
      BY <2>1
    <3>2. V \ {x} \in SUBSET S /\ Cardinality(V \ {x}) <= m
      BY <1>4, <2>1, <3>1, FS_RemoveElement
    <3>3. a[V] = g[x] + a[V \ {x}] /\ a[V \ {x}] = b[(V \ {x}) \cap T] /\ a[V \ {x}] \in Nat
      BY <1>2, <1>6, <3>1, <3>2 DEF IsSums
    <3>4. CASE x \in T
      <4>1. V \cap T \in SUBSET T /\ x \in V \cap T /\ (V \ {x}) \cap T = (V \cap T) \ {x}
        BY <3>1, <3>4
      <4>2. b[V \cap T] = f[x] + b[(V \cap T) \ {x}]
        BY <1>3, <4>1 DEF IsSums
      <4>. QED BY <3>3, <3>4, <4>1, <4>2
    <3>5. CASE x \notin T
      <4>1. (V \ {x}) \cap T = V \cap T /\ g[x] = 0
        BY <3>1, <3>5
      <4>. QED BY <3>3, <4>1
    <3>. QED BY <3>4, <3>5
  <2>2. a[{}] = b[{} \cap T]
    <3>1. {} \cap T = {} /\ a[{}] = 0 /\ b[{}] = 0
      BY <1>2, <1>3 DEF IsSums
    <3>. QED BY <3>1
  <2>. QED BY <1>4, <1>6, <2>1, <2>2
<1>. HIDE DEF N
<1>7. Cardinality(S) \in N
  BY <1>4, <1>5, <1>6, UpTo
<1>8. a[S] = b[S \cap T] /\ S \cap T = T
  BY <1>4, <1>7 DEF N
<1>. QED BY <1>2, <1>3, <1>8

\* The windows of a chart are windows, and have finitely many keys together.
LEMMA WindowsFinite ==
  ASSUME data \in Seq(ChartWindow)
  PROVE  /\ IsFiniteSet(AllKeys)
         /\ \A i \in DOMAIN data : /\ data[i] \in ChartWindow
                                   /\ Keys(data[i]) \in SUBSET AllKeys
<1>1. DOMAIN data = 1..Len(data) /\ Len(data) \in Nat
      /\ \A i \in DOMAIN data : data[i] \in ChartWindow
  OBVIOUS
<1> DEFINE KeySets == {Keys(data[i]) : i \in DOMAIN data}
<1>2. IsFiniteSet(KeySets)
  <2>1. IsFiniteSet(DOMAIN data)
    BY <1>1, FS_Interval
  <2> DEFINE keys == [i \in DOMAIN data |-> Keys(data[i])]
  <2>2. keys \in Surjection(DOMAIN data, KeySets)
    BY DEF Surjection
  <2>. QED BY <2>1, <2>2, FS_Surjection
<1>3. \A K \in KeySets : IsFiniteSet(K)
  BY <1>1, ChartsAssumption DEF Keys
<1>4. IsFiniteSet(UNION KeySets)
  BY <1>2, <1>3, FS_UNION
<1>. QED BY <1>1, <1>4 DEF AllKeys

\* The response codes and query types that are stacked while none is selected
\* add up to the queries of each window.
THEOREM StacksCoverTheirWindows == ChartSpec => []StackCoversWindow
<1> DEFINE Inv == data \in Seq(ChartWindow)
<1>1. ChartInit => Inv
  BY DEF ChartInit
<1>2. Inv /\ [ChartNext]_chartVars => Inv'
  <2> SUFFICES ASSUME Inv, [ChartNext]_chartVars PROVE Inv'
    OBVIOUS
  <2>1. ASSUME NEW w \in ChartWindow, Receive(w) PROVE Inv'
    <3>1. data' = <<w>> \/ data' = Append(data, w)
      BY <2>1 DEF Receive
    <3>2. <<w>> \in Seq(ChartWindow) /\ Append(data, w) \in Seq(ChartWindow)
      BY <2>1
    <3>. QED BY <3>1, <3>2
  <2>2. ASSUME NEW i, onWindowClick(i) PROVE Inv'
    BY <2>2 DEF onWindowClick
  <2>3. \/ _changeView \/ goBack
        \/ \E k : _select(k) \/ _selectServer(k) \/ _rememberValue(k) \/ ResolverInfo(k)
        => data' = data
    BY DEF _changeView, goBack, _select, _selectServer, _rememberValue, ResolverInfo
  <2>4. CASE data' = data
    BY <2>4
  <2>. QED BY <2>1, <2>2, <2>3, <2>4 DEF ChartNext, chartVars
<1>3. Inv => StackCoversWindow
  <2> SUFFICES ASSUME Inv, chart.kind \in {"rcode", "qtype"}, ~IsSelected, NEW i \in DOMAIN data
               PROVE  SumFunctionOnSet([k \in Drawn |-> SeriesData(k)[i]], Drawn) = Total(data[i])
    BY DEF StackCoversWindow
  <2>1. Drawn = AllKeys
    BY DEF Drawn, Legend
  <2> DEFINE g == [k \in AllKeys |-> SeriesData(k)[i]]
             h == data[i].histogram
  <2>2. /\ IsFiniteSet(AllKeys) /\ Keys(data[i]) \in SUBSET AllKeys
        /\ \A k \in Keys(data[i]) : h[k] \in Nat
    BY WindowsFinite, ChartsAssumption DEF Keys
  <2>3. \A k \in Keys(data[i]) : g[k] = h[k]
    BY <2>2 DEF SeriesData
  <2>4. \A k \in AllKeys \ Keys(data[i]) : g[k] = 0
    BY DEF SeriesData
  <2> HIDE DEF g, h
  <2>5. SumFunctionOnSet(g, AllKeys) = SumFunctionOnSet(h, Keys(data[i]))
    BY <2>2, <2>3, <2>4, SumExtends
  <2>. QED BY <2>1, <2>5 DEF Total, g, h
<1>. QED BY <1>1, <1>2, <1>3, PTL DEF ChartSpec

-----------------------------------------------------------------------------
(* SavedQueries *)

Entry == [_id : Nat \cup {NOID}, version : Nat]

SavedCall == [op : {"load", "save", "update", "delete"}, query : Entry,
              reply : {UNSERVED, "ok", "error", "lost"}, rows : Seq(Entry)]

SavedList == [status : {"INITIAL", "initial", "loading", "loaded", "failed"}, list : Seq(Entry)]

SavedTyped ==
  /\ nextId \in Nat
  /\ IsFiniteSet(DOMAIN stored) /\ DOMAIN stored \in SUBSET Nat /\ stored \in [DOMAIN stored -> Nat]
  /\ saved \in SavedList
  /\ editQuery \in Entry
  /\ calls \in SUBSET SavedCall
  /\ \A c \in calls : c.op = "save" => c.query._id \in Nat

\* A list shows the queries of a database: each of them once, as it is there.
Displays(list, db) ==
  /\ \A i, j \in DOMAIN list : list[i]._id = list[j]._id => i = j
  /\ {list[i] : i \in DOMAIN list} = {[_id |-> i, version |-> db[i]] : i \in DOMAIN db}

\* The list that the answer of a call will leave behind.
ListAfter(c) == CASE c.op = "load"   -> c.rows
                  [] c.op = "update" -> Updated(c).list
                  [] c.op = "delete" -> Deleted(c).list

\* As long as nothing happens at once the one call under way accounts for the
\* difference between the list and the database.
SavedApart ==
  apart =>
    /\ tab = "Saved queries"
    /\ \A c, d \in calls : c = d
    /\ calls = {} => Displays(saved.list, stored)
    /\ \A c \in calls :
         /\ c.op \in {"load", "update", "delete"}
         /\ c.reply \in {UNSERVED, "ok"}
         /\ c.reply = UNSERVED /\ c.op # "load" => Displays(saved.list, stored)
         /\ c.reply = "ok" => Displays(ListAfter(c), stored)

SavedInv == SavedTyped /\ SavedApart

LEMMA NoEntries == << >> \in Seq(Entry)
OBVIOUS

\* The sequence of a finite set of numbers has each of them once, in order.
LEMMA InOrderIs ==
  ASSUME NEW ids \in SUBSET Nat, IsFiniteSet(ids)
  PROVE  /\ Cardinality(ids) \in Nat /\ DOMAIN InOrder(ids) = 1..Cardinality(ids)
         /\ \A n \in DOMAIN InOrder(ids) : InOrder(ids)[n] \in ids
         /\ \A m, n \in DOMAIN InOrder(ids) : InOrder(ids)[m] = InOrder(ids)[n] => m = n
         /\ \A i \in ids : \E n \in DOMAIN InOrder(ids) : InOrder(ids)[n] = i
<1> DEFINE R == {p \in ids \X ids : p[1] < p[2]}
           Place(i) == Cardinality({j \in ids : j < i})
<1>1. Orders(R, ids)
  BY DEF Orders
<1>2. \A i \in ids : {y \in ids : <<y, i>> \in R} = {j \in ids : j < i}
  OBVIOUS
<1>3. \A i \in ids : Rank(ids, R, i) = Place(i) + 1
  BY <1>2 DEF Rank
<1>4. \A i \in ids : Place(i) \in Nat
  <2>1. \A i \in ids : {j \in ids : j < i} \in SUBSET ids
    OBVIOUS
  <2>. QED BY <2>1, FS_Subset, FS_CardinalityType
<1>. HIDE DEF R, Place
<1>5. Cardinality(ids) \in Nat
  BY FS_CardinalityType
<1>6. /\ \A i \in ids : Place(i) + 1 \in 1..Cardinality(ids)
      /\ \A i, j \in ids : Place(i) = Place(j) => i = j
      /\ \A n \in 1..Cardinality(ids) : \E i \in ids : Place(i) = n - 1
  BY <1>1, <1>3, <1>4, <1>5, Ranking
<1>7. InOrder(ids) = [n \in 1..Cardinality(ids) |-> CHOOSE i \in ids : Place(i) = n - 1]
  BY DEF InOrder, Place
<1>8. \A n \in 1..Cardinality(ids) : InOrder(ids)[n] \in ids /\ Place(InOrder(ids)[n]) = n - 1
  BY <1>6, <1>7
<1>9. DOMAIN InOrder(ids) = 1..Cardinality(ids)
  BY <1>7
<1>10. \A m, n \in DOMAIN InOrder(ids) : InOrder(ids)[m] = InOrder(ids)[n] => m = n
  <2> SUFFICES ASSUME NEW m \in 1..Cardinality(ids), NEW n \in 1..Cardinality(ids),
                      InOrder(ids)[m] = InOrder(ids)[n]
               PROVE  m = n
    BY <1>9
  <2>1. m - 1 = n - 1
    BY <1>8
  <2>. QED BY <1>5, <2>1
<1>11. ASSUME NEW i \in ids PROVE InOrder(ids)[Place(i) + 1] = i
  <2>1. PICK p \in 1..Cardinality(ids) : p = Place(i) + 1
    BY <1>6
  <2>2. Place(InOrder(ids)[p]) = p - 1 /\ InOrder(ids)[p] \in ids /\ p - 1 = Place(i)
    BY <1>4, <1>8, <2>1
  <2>. QED BY <1>6, <2>1, <2>2
<1>12. \A i \in ids : \E n \in DOMAIN InOrder(ids) : InOrder(ids)[n] = i
  BY <1>6, <1>9, <1>11
<1>. QED BY <1>5, <1>8, <1>9, <1>10, <1>12

\* A list that shows a database is as long as that is large.
LEMMA ShowsLength ==
  ASSUME NEW list \in Seq(Entry), NEW db, Displays(list, db)
  PROVE  Len(list) = Cardinality(DOMAIN db)
<1> DEFINE id == [i \in 1..Len(list) |-> list[i]._id]
<1>1. DOMAIN list = 1..Len(list) /\ Len(list) \in Nat
  OBVIOUS
<1>2. ASSUME NEW i \in 1..Len(list)
      PROVE  list[i]._id \in DOMAIN db
  <2>1. list[i] \in {[_id |-> k, version |-> db[k]] : k \in DOMAIN db}
    BY <1>1 DEF Displays
  <2>. QED BY <2>1
<1>3. ASSUME NEW k \in DOMAIN db
      PROVE  \E i \in 1..Len(list) : list[i]._id = k
  <2>1. [_id |-> k, version |-> db[k]] \in {list[i] : i \in DOMAIN list}
    BY DEF Displays
  <2>. QED BY <1>1, <2>1
<1>4. id \in Bijection(1..Len(list), DOMAIN db)
  <2>1. id \in [1..Len(list) -> DOMAIN db]
    BY <1>2
  <2>2. \A i, j \in 1..Len(list) : id[i] = id[j] => i = j
    BY <1>1 DEF Displays
  <2>. QED BY <1>3, <2>1, <2>2 DEF Bijection, Injection, Surjection, IsInjective
<1>5. IsFiniteSet(1..Len(list)) /\ Cardinality(1..Len(list)) = Len(list)
  BY <1>1, FS_Interval
<1>. QED BY <1>4, <1>5, FS_Bijection DEF ExistsBijection

\* A database is shown by its documents.
LEMMA DocumentsShow ==
  ASSUME SavedTyped
  PROVE  Documents \in Seq(Entry) /\ Displays(Documents, stored)
<1> DEFINE ids == InOrder(DOMAIN stored)
<1>1. IsFiniteSet(DOMAIN stored) /\ DOMAIN stored \in SUBSET Nat
      /\ \A i \in DOMAIN stored : stored[i] \in Nat
  BY DEF SavedTyped
<1>2. /\ Cardinality(DOMAIN stored) \in Nat /\ DOMAIN ids = 1..Cardinality(DOMAIN stored)
      /\ \A n \in DOMAIN ids : ids[n] \in DOMAIN stored
      /\ \A m, n \in DOMAIN ids : ids[m] = ids[n] => m = n
      /\ \A i \in DOMAIN stored : \E n \in DOMAIN ids : ids[n] = i
  BY <1>1, InOrderIs
<1>. HIDE DEF ids
<1>3. Documents = [n \in DOMAIN ids |-> [_id |-> ids[n], version |-> stored[ids[n]]]]
  BY DEF Documents, ids
<1>4. DOMAIN Documents = DOMAIN ids
      /\ \A n \in DOMAIN ids : /\ Documents[n] = [_id |-> ids[n], version |-> stored[ids[n]]]
                               /\ Documents[n] \in Entry
  BY <1>1, <1>2, <1>3 DEF Entry
<1>5. Documents \in Seq(Entry)
  BY <1>2, <1>3, <1>4
<1>6. {Documents[n] : n \in DOMAIN Documents} = {[_id |-> i, version |-> stored[i]] : i \in DOMAIN stored}
  BY <1>2, <1>4
<1>7. \A m, n \in DOMAIN Documents : Documents[m]._id = Documents[n]._id => m = n
  BY <1>2, <1>4
<1>. QED BY <1>5, <1>6, <1>7 DEF Displays

\* The reducer does to its list what the server does to its queries.
LEMMA UpdateShows ==
  ASSUME saved \in SavedList, NEW c \in SavedCall, NEW db, NEW new
  PROVE  /\ Updated(c) \in SavedList
         /\ Displays(saved.list, db) /\ c.query._id \in DOMAIN db
              /\ new = [db EXCEPT ![c.query._id] = c.query.version]
            => Displays(Updated(c).list, new)
<1> DEFINE list == saved.list
           id == c.query._id
           after == [i \in DOMAIN list |-> IF list[i]._id = id THEN c.query ELSE list[i]]
<1>0. saved \in [status : {saved.status}, list : Seq(Entry)] /\ saved.list \in Seq(Entry)
  BY DEF SavedList
<1>1. Updated(c) = [saved EXCEPT !.list = after] /\ Updated(c).list = after
  BY <1>0 DEF Updated
<1>2. c.query \in Entry /\ c.query = [_id |-> id, version |-> c.query.version]
  BY DEF SavedCall, Entry
<1>3. DOMAIN list = 1..Len(list) /\ Len(list) \in Nat /\ \A i \in DOMAIN list : list[i] \in Entry
  BY <1>0
<1>4. after \in Seq(Entry)
  BY <1>2, <1>3
<1>5. ASSUME Displays(list, db), id \in DOMAIN db, new = [db EXCEPT ![id] = c.query.version]
      PROVE  Displays(after, new)
  <2>1. DOMAIN after = DOMAIN list /\ \A i \in DOMAIN list : after[i]._id = list[i]._id
    OBVIOUS
  <2>2. \A i, j \in DOMAIN after : after[i]._id = after[j]._id => i = j
    BY <1>5, <2>1 DEF Displays
  <2>3. DOMAIN new = DOMAIN db /\ new[id] = c.query.version
        /\ \A k \in DOMAIN db \ {id} : new[k] = db[k]
    BY <1>5
  <2>4. ASSUME NEW i \in DOMAIN list
        PROVE  \E k \in DOMAIN db : after[i] = [_id |-> k, version |-> new[k]]
    <3>1. list[i] \in {[_id |-> k, version |-> db[k]] : k \in DOMAIN db}
      BY <1>5 DEF Displays
    <3>2. PICK k \in DOMAIN db : list[i] = [_id |-> k, version |-> db[k]]
      BY <3>1
    <3>3. CASE k = id
      BY <1>2, <2>3, <3>2, <3>3
    <3>4. CASE k # id
      BY <2>3, <3>2, <3>4
    <3>. QED BY <3>3, <3>4
  <2>5. ASSUME NEW k \in DOMAIN db
        PROVE  \E i \in DOMAIN list : after[i] = [_id |-> k, version |-> new[k]]
    <3>1. [_id |-> k, version |-> db[k]] \in {list[i] : i \in DOMAIN list}
      BY <1>5 DEF Displays
    <3>2. PICK i \in DOMAIN list : list[i] = [_id |-> k, version |-> db[k]]
      BY <3>1
    <3>3. CASE k = id
      BY <1>2, <2>3, <3>2, <3>3
    <3>4. CASE k # id
      BY <2>3, <3>2, <3>4
    <3>. QED BY <3>3, <3>4
  <2>6. {after[i] : i \in DOMAIN after} = {[_id |-> k, version |-> new[k]] : k \in DOMAIN new}
    <3>1. DOMAIN after = DOMAIN list /\ DOMAIN new = DOMAIN db
      BY <2>1, <2>3
    <3>. HIDE DEF after, list
    <3>. QED BY <2>4, <2>5, <3>1
  <2>. QED BY <2>2, <2>6 DEF Displays
<1>6. [saved EXCEPT !.list = after] \in SavedList
  <2>. HIDE DEF after
  <2>. QED BY <1>4 DEF SavedList
<1>. QED BY <1>1, <1>5, <1>6

LEMMA DeleteShows ==
  ASSUME saved \in SavedList, NEW c, NEW db, NEW new
  PROVE  /\ Deleted(c) \in SavedList
         /\ Displays(saved.list, db) /\ new = [i \in DOMAIN db \ {c.query._id} |-> db[i]]
            => Displays(Deleted(c).list, new)
<1> DEFINE list == saved.list
           id == c.query._id
           rest == {i \in DOMAIN list : list[i]._id # id}
           kept == InOrder(rest)
           after == [n \in DOMAIN kept |-> list[kept[n]]]
<1>0. saved \in [status : {saved.status}, list : Seq(Entry)] /\ saved.list \in Seq(Entry)
  BY DEF SavedList
<1>1. Deleted(c) = [saved EXCEPT !.list = after] /\ Deleted(c).list = after
  BY <1>0 DEF Deleted
<1>2. DOMAIN list = 1..Len(list) /\ Len(list) \in Nat /\ \A i \in DOMAIN list : list[i] \in Entry
  BY <1>0
<1>3. /\ Cardinality(rest) \in Nat /\ DOMAIN kept = 1..Cardinality(rest)
      /\ \A n \in DOMAIN kept : kept[n] \in rest
      /\ \A m, n \in DOMAIN kept : kept[m] = kept[n] => m = n
      /\ \A i \in rest : \E n \in DOMAIN kept : kept[n] = i
  <2>1. rest \in SUBSET Nat /\ rest \in SUBSET (1..Len(list))
    BY <1>2
  <2>2. IsFiniteSet(rest)
    <3>1. IsFiniteSet(1..Len(list))
      BY <1>2, FS_Interval
    <3>. HIDE DEF rest
    <3>. QED BY <2>1, <3>1, FS_Subset
  <2>. HIDE DEF rest
  <2>. QED BY <2>1, <2>2, InOrderIs
<1>. HIDE DEF kept
<1>4. after \in Seq(Entry)
  <2>1. PICK k : k = Cardinality(rest)
    OBVIOUS
  <2>2. k \in Nat /\ after \in [1..k -> Entry]
    BY <1>2, <1>3, <2>1
  <2>. HIDE DEF after
  <2>. QED BY ONLY <2>2
<1>5. ASSUME Displays(list, db), new = [i \in DOMAIN db \ {id} |-> db[i]]
      PROVE  Displays(after, new)
  <2>1. \A m, n \in DOMAIN after : after[m]._id = after[n]._id => m = n
    BY <1>3, <1>5 DEF Displays
  <2>2. DOMAIN new = DOMAIN db \ {id} /\ \A k \in DOMAIN new : new[k] = db[k]
    BY <1>5
  <2>3. ASSUME NEW n \in DOMAIN kept
        PROVE  \E k \in DOMAIN new : after[n] = [_id |-> k, version |-> new[k]]
    <3>1. list[kept[n]] \in {[_id |-> k, version |-> db[k]] : k \in DOMAIN db}
          /\ list[kept[n]]._id # id
      BY <1>3, <1>5 DEF Displays
    <3>2. PICK k \in DOMAIN db : list[kept[n]] = [_id |-> k, version |-> db[k]]
      BY <3>1
    <3>. QED BY <2>2, <3>1, <3>2
  <2>4. ASSUME NEW k \in DOMAIN new
        PROVE  \E n \in DOMAIN kept : after[n] = [_id |-> k, version |-> new[k]]
    <3>1. [_id |-> k, version |-> db[k]] \in {list[i] : i \in DOMAIN list}
      BY <1>5, <2>2 DEF Displays
    <3>2. PICK i \in DOMAIN list : list[i] = [_id |-> k, version |-> db[k]]
      BY <3>1
    <3>3. PICK n \in DOMAIN kept : kept[n] = i
      BY <1>3, <2>2, <3>2
    <3>. QED BY <2>2, <3>2, <3>3
  <2>5. {after[n] : n \in DOMAIN after} = {[_id |-> k, version |-> new[k]] : k \in DOMAIN new}
    <3>1. DOMAIN after = DOMAIN kept
      OBVIOUS
    <3>. HIDE DEF after
    <3>. QED BY <2>3, <2>4, <3>1
  <2>. QED BY <2>1, <2>5 DEF Displays
<1>6. [saved EXCEPT !.list = after] \in SavedList
  <2>. HIDE DEF after
  <2>. QED BY <1>4 DEF SavedList
<1>. QED BY <1>1, <1>5, <1>6

\* What an answer will leave behind depends on the list alone.
LEMMA ListAfterSame ==
  ASSUME NEW c, saved' = saved
  PROVE  ListAfter(c)' = ListAfter(c)
BY DEF ListAfter, Updated, Deleted

\* A new call: alone, or no longer apart.
LEMMA SavedCallKeeps ==
  ASSUME SavedInv, NEW op \in {"load", "save", "update", "delete"}, NEW query \in Entry,
         Call(op, query), stored' = stored, nextId' \in Nat, editQuery' \in Entry,
         op = "save" => query._id \in Nat,
         \/ op = "load" /\ saved' = [status |-> "loading", list |-> << >>] /\ tab' = "Saved queries"
         \/ op # "load" /\ UNCHANGED <<saved, tab>>
  PROVE  SavedInv'
<1> DEFINE new == [op |-> op, query |-> query, reply |-> UNSERVED, rows |-> << >>]
<1>1. new \in SavedCall /\ new.op = op /\ new.query = query /\ new.reply = UNSERVED
  <2>1. << >> \in Seq(Entry)
    BY NoEntries
  <2>. QED BY <2>1 DEF SavedCall
<1>2. calls' = calls \cup {new} /\ apart' = (calls = {} /\ (op = "load" \/ (apart /\ op # "save")))
  BY DEF Call
<1>3. SavedTyped'
  <2>. HIDE DEF new
  <2>1. saved' \in SavedList
    <3>1. [status |-> "loading", list |-> << >>] \in SavedList
      BY NoEntries DEF SavedList
    <3>2. saved \in SavedList
      BY DEF SavedInv, SavedTyped
    <3>. QED BY <3>1, <3>2
  <2>2. calls' \in SUBSET SavedCall /\ \A c \in calls' : c.op = "save" => c.query._id \in Nat
    BY <1>1, <1>2 DEF SavedInv, SavedTyped
  <2>. QED BY <2>1, <2>2 DEF SavedInv, SavedTyped
<1>. HIDE DEF new
<1>4. ASSUME apart' PROVE /\ tab' = "Saved queries" /\ calls' = {new} /\ op # "save"
                          /\ op # "load" => Displays(saved.list, stored)'
  <2>1. calls = {} /\ (op = "load" \/ (apart /\ op # "save"))
    BY <1>2, <1>4
  <2>2. tab' = "Saved queries" /\ (op # "load" => Displays(saved.list, stored) /\ saved' = saved)
    BY <2>1 DEF SavedInv, SavedApart
  <2>3. calls' = {new}
    BY <1>2, <2>1
  <2>4. op # "load" => Displays(saved.list, stored)'
    BY <2>2 DEF Displays
  <2>. QED BY <2>1, <2>2, <2>3, <2>4
<1>5. SavedApart'
  <2> SUFFICES ASSUME apart' PROVE SavedApart'
    BY DEF SavedApart
  <2>1. \A c \in calls' : c = new
    BY <1>4
  <2>. QED BY <1>1, <1>4, <2>1 DEF SavedApart, UNSERVED
<1>. QED BY <1>3, <1>5 DEF SavedInv

\* The server: what is stored changes together with the reply.
LEMMA HandleKeeps ==
  ASSUME SavedInv, NEW c \in calls, Handle(c)
  PROVE  SavedInv'
<1>1. /\ c \in SavedCall /\ c.reply = UNSERVED /\ SavedTyped /\ SavedApart
      /\ UNCHANGED <<nextId, saved, tab, editQuery>>
  BY DEF Handle, SavedInv, SavedTyped
<1>2. /\ saved \in SavedList
      /\ IsFiniteSet(DOMAIN stored) /\ DOMAIN stored \in SUBSET Nat /\ stored \in [DOMAIN stored -> Nat]
      /\ c.query._id \in Nat \cup {NOID} /\ c.query.version \in Nat
      /\ calls \in SUBSET SavedCall
  BY <1>1 DEF SavedTyped, SavedCall, Entry
\* An answer with a database that it goes with.
<1>3. ASSUME NEW got \in {"ok", "error", "lost"}, NEW rows \in Seq(Entry), Reply(c, got, rows),
             IsFiniteSet(DOMAIN stored'), DOMAIN stored' \in SUBSET Nat, stored' \in [DOMAIN stored' -> Nat],
             apart' => apart,
             apart' => got = "ok",
             apart' /\ c.op = "load" => Displays(rows, stored'),
             apart' /\ c.op = "update" => Displays(Updated(c).list, stored'),
             apart' /\ c.op = "delete" => Displays(Deleted(c).list, stored')
      PROVE  SavedInv'
  <2> DEFINE d == [c EXCEPT !.reply = got, !.rows = rows]
  <2>1. /\ d \in SavedCall /\ d.op = c.op /\ d.query = c.query /\ d.reply = got /\ d.rows = rows
    BY <1>1, <1>3 DEF SavedCall
  <2>2. calls' = (calls \ {c}) \cup {d}
    BY <1>3 DEF Reply
  <2>. HIDE DEF d
  <2>3. SavedTyped'
    BY <1>1, <1>2, <1>3, <2>1, <2>2 DEF SavedTyped
  <2>4. ASSUME apart' PROVE Displays(ListAfter(d), stored')
    <3>1. Updated(d) = Updated(c) /\ Deleted(d) = Deleted(c)
      BY <2>1 DEF Updated, Deleted
    <3>2. c.op \in {"load", "update", "delete"}
      BY <1>1, <1>3, <2>4 DEF SavedApart
    <3>. QED BY <1>3, <2>1, <2>4, <3>1, <3>2 DEF ListAfter
  <2>5. ASSUME apart' PROVE calls' = {d} /\ c.op \in {"load", "update", "delete"} /\ tab = "Saved queries"
    BY <1>1, <1>3, <2>2, <2>5 DEF SavedApart
  <2>6. ListAfter(d)' = ListAfter(d)
    BY <1>1, ListAfterSame
  <2>7. ASSUME apart' PROVE Displays(ListAfter(d), stored)'
    BY <2>4, <2>6, <2>7 DEF Displays
  <2>8. SavedApart'
    <3> SUFFICES ASSUME apart' PROVE SavedApart'
      BY DEF SavedApart
    <3>1. \A e \in calls' : e = d
      BY <2>5
    <3>2. d.reply = "ok" /\ d.op \in {"load", "update", "delete"}
      BY <1>3, <2>1, <2>5
    <3>. QED BY <1>1, <2>5, <2>7, <3>1, <3>2 DEF SavedApart, UNSERVED
  <2>. QED BY <2>3, <2>8 DEF SavedInv
<1>4. << >> \in Seq(Entry)
  BY NoEntries
<1>5. ASSUME List(c) PROVE SavedInv'
  <2>1. Documents \in Seq(Entry) /\ Displays(Documents, stored)
    BY <1>1, DocumentsShow
  <2>. QED BY <1>2, <1>3, <1>5, <2>1 DEF List
<1>6. ASSUME SaveQuery(c) PROVE SavedInv'
  <2>1. /\ stored' = [i \in DOMAIN stored \cup {c.query._id} |->
                        IF i = c.query._id THEN c.query.version ELSE stored[i]]
        /\ Reply(c, "ok", << >>) /\ c.op = "save" /\ apart' = apart
    BY <1>6 DEF SaveQuery
  <2>2. c.query._id \in Nat
    BY <1>1, <2>1 DEF SavedTyped
  <2>3. DOMAIN stored' = DOMAIN stored \cup {c.query._id} /\ stored' \in [DOMAIN stored' -> Nat]
    BY <1>2, <2>1
  <2>4. IsFiniteSet(DOMAIN stored')
    BY <1>2, <2>3, FS_AddElement
  <2>. QED BY <1>2, <1>3, <1>4, <2>1, <2>2, <2>3, <2>4
<1>7. ASSUME Put(c) PROVE SavedInv'
  <2>1. PICK got \in {"ok", "error", "lost"} :
          Reply(c, got, << >>) /\ (c.query._id \in DOMAIN stored => got = "ok")
    <3>1. NOID \notin DOMAIN stored
      BY <1>2, SavedAssumption
    <3>. QED BY <1>7, <3>1 DEF Put
  <2>2. c.op = "update" /\ apart' = (apart /\ c.query._id \in DOMAIN stored)
        /\ stored' = IF c.query._id \in DOMAIN stored
                       THEN [stored EXCEPT ![c.query._id] = c.query.version] ELSE stored
    BY <1>7 DEF Put
  <2>3. DOMAIN stored' = DOMAIN stored /\ stored' \in [DOMAIN stored' -> Nat]
    BY <1>2, <2>2
  <2>4. ASSUME apart' PROVE Displays(Updated(c).list, stored')
    <3>1. Displays(saved.list, stored)
      BY <1>1, <2>2, <2>4 DEF SavedApart
    <3>. QED BY <1>1, <1>2, <2>2, <2>4, <3>1, UpdateShows
  <2>. QED BY <1>2, <1>3, <1>4, <2>1, <2>2, <2>3, <2>4
<1>8. ASSUME Remove(c) PROVE SavedInv'
  <2>1. PICK got \in {"ok", "error", "lost"} :
          Reply(c, got, << >>) /\ (c.query._id # NOID => got = "ok")
    BY <1>8 DEF Remove
  <2>2. c.op = "delete" /\ apart' = (apart /\ c.query._id # NOID)
        /\ stored' = [i \in DOMAIN stored \ {c.query._id} |-> stored[i]]
    BY <1>8 DEF Remove
  <2>3. DOMAIN stored' = DOMAIN stored \ {c.query._id} /\ stored' \in [DOMAIN stored' -> Nat]
    BY <1>2, <2>2
  <2>4. IsFiniteSet(DOMAIN stored')
    BY <1>2, <2>3, FS_Subset
  <2>5. ASSUME apart' PROVE Displays(Deleted(c).list, stored')
    <3>1. Displays(saved.list, stored)
      BY <1>1, <2>2, <2>5 DEF SavedApart
    <3>. QED BY <1>2, <2>2, <3>1, DeleteShows
  <2>. QED BY <1>2, <1>3, <1>4, <2>1, <2>2, <2>3, <2>4, <2>5
<1>9. ASSUME Fail(c) PROVE SavedInv'
  <2>1. PICK got \in {"error", "lost"} : Reply(c, got, << >>)
    BY <1>9 DEF Fail
  <2>2. ~apart' /\ stored' = stored
    BY <1>9 DEF Fail
  <2>. QED BY <1>2, <1>3, <1>4, <2>1, <2>2
<1>. QED BY <1>5, <1>6, <1>7, <1>8, <1>9 DEF Handle

\* The answer makes of the list what the database has become.
LEMMA ReturnKeeps ==
  ASSUME SavedInv, NEW c \in calls, Return(c)
  PROVE  SavedInv'
<1>1. /\ c \in SavedCall /\ c.reply # UNSERVED /\ SavedTyped /\ SavedApart
      /\ calls' = calls \ {c} /\ UNCHANGED <<stored, nextId, tab, editQuery, apart>>
  BY DEF Return, SavedInv, SavedTyped
<1>2. /\ saved \in SavedList /\ saved.list \in Seq(Entry)
      /\ c.query \in Entry /\ c.rows \in Seq(Entry) /\ calls \in SUBSET SavedCall
  BY <1>1 DEF SavedTyped, SavedCall, SavedList
<1>3. saved' \in {Loaded(c), saved, Saved(c), Updated(c), Deleted(c)}
  <2>1. c.op \in {"load", "save", "update", "delete"}
    BY <1>1 DEF SavedCall
  <2>. QED BY <2>1 DEF Return
<1>4. saved' \in SavedList
  <2>1. Loaded(c) \in SavedList
    BY <1>2 DEF Loaded, SavedList
  <2>2. Saved(c) \in SavedList
    <3>1. [c.query EXCEPT !._id = NOID] \in Entry
      BY <1>2 DEF Entry
    <3>2. PICK list : list = Append(saved.list, [c.query EXCEPT !._id = NOID])
      OBVIOUS
    <3>3. list \in Seq(Entry)
      BY <1>2, <3>1, <3>2
    <3>4. Saved(c) = [saved EXCEPT !.list = list]
      BY <3>2 DEF Saved
    <3>. QED BY <1>2, <3>3, <3>4 DEF SavedList
  <2>. QED BY <1>1, <1>2, <1>3, <2>1, <2>2, UpdateShows, DeleteShows
<1>5. SavedTyped'
  BY <1>1, <1>2, <1>4 DEF SavedTyped
<1>6. SavedApart'
  <2> SUFFICES ASSUME apart PROVE SavedApart'
    BY <1>1 DEF SavedApart
  <2>1. /\ calls' = {} /\ tab = "Saved queries" /\ c.op \in {"load", "update", "delete"}
        /\ c.reply = "ok" /\ Displays(ListAfter(c), stored)
    BY <1>1 DEF SavedApart
  <2>2. saved'.list = ListAfter(c)
    BY <2>1 DEF Return, Loaded, ListAfter
  <2>3. Displays(saved.list, stored)'
    BY <1>1, <2>1, <2>2 DEF Displays
  <2>. QED BY <1>1, <2>1, <2>3 DEF SavedApart
<1>. QED BY <1>5, <1>6 DEF SavedInv

\* The inductive invariant: while calls come one after another, the one that is
\* under way says what is still to be redone in the list (SavedQueries, and the
\* routes of impala_query.js).
THEOREM SavedInvariant == SavedSpec => []SavedInv
<1>1. SavedInit => SavedInv
  <2> SUFFICES ASSUME SavedInit PROVE SavedInv
    OBVIOUS
  <2>1. PICK n \in 0..1 : stored = [i \in 1..n |-> 0]
    BY DEF SavedInit
  <2>2. IsFiniteSet(DOMAIN stored) /\ DOMAIN stored \in SUBSET Nat /\ stored \in [DOMAIN stored -> Nat]
        /\ Cardinality(DOMAIN stored) \in Nat
    BY <2>1, FS_Interval, FS_CardinalityType
  <2>3. saved \in SavedList /\ nextId \in Nat /\ editQuery \in Entry
    <3>1. << >> \in Seq(Entry)
      BY NoEntries
    <3>. QED BY <2>2, <3>1 DEF SavedInit, SavedList, Entry, NOQUERY
  <2>. QED BY <2>2, <2>3 DEF SavedInit, SavedInv, SavedTyped, SavedApart
<1>2. SavedInv /\ [SavedNext]_savedVars => SavedInv'
  <2> SUFFICES ASSUME SavedInv, [SavedNext]_savedVars PROVE SavedInv'
    OBVIOUS
  <2>0. /\ NOQUERY \in Entry /\ editQuery \in Entry /\ nextId \in Nat /\ SavedTyped /\ SavedApart
        /\ \A query \in Listed : query \in Entry
    <3>1. NOQUERY \in Entry
      BY DEF Entry, NOQUERY
    <3>2. editQuery \in Entry /\ nextId \in Nat /\ SavedTyped /\ SavedApart
      BY DEF SavedInv, SavedTyped
    <3>3. saved.list \in Seq(Entry)
      BY <3>2 DEF SavedTyped, SavedList
    <3>4. \A i \in DOMAIN saved.list : saved.list[i] \in Entry
      BY <3>3
    <3>. QED BY <3>1, <3>2, <3>4 DEF Listed
  \* What leaves the list, the database and the calls alone.
  <2>1. ASSUME UNCHANGED <<stored, nextId, saved, tab, calls, apart>>, editQuery' \in Entry
        PROVE  SavedInv'
    <3>1. \A c \in calls : ListAfter(c)' = ListAfter(c)
      BY <2>1, ListAfterSame
    <3>2. \A list : Displays(list, stored') <=> Displays(list, stored)
      BY <2>1
    <3>3. SavedTyped'
      BY <2>0, <2>1 DEF SavedTyped
    <3>4. SavedApart'
      BY <2>0, <2>1, <3>1, <3>2 DEF SavedApart
    <3>. QED BY <3>3, <3>4 DEF SavedInv
  <2>2. ASSUME NEW index \in {"Documentation", "Saved queries", "Results"}, handleTabChange(index)
        PROVE  SavedInv'
    <3>1. index # tab /\ tab' = index /\ editQuery' = NOQUERY /\ UNCHANGED <<stored, nextId>>
      BY <2>2 DEF handleTabChange
    <3>2. CASE index = "Saved queries"
      <4>1. Call("load", NOQUERY) /\ saved' = [status |-> "loading", list |-> << >>]
        BY <2>2, <3>2 DEF handleTabChange
      <4>. QED BY <2>0, <3>1, <3>2, <4>1, SavedCallKeeps
    <3>3. CASE index # "Saved queries" /\ tab = "Saved queries"
      <4>1. saved' = [status |-> "initial", list |-> << >>] /\ ~apart' /\ calls' = calls
        BY <2>2, <3>3 DEF handleTabChange
      <4>2. saved' \in SavedList
        <5>1. << >> \in Seq(Entry)
          BY NoEntries
        <5>. QED BY <4>1, <5>1 DEF SavedList
      <4>. QED BY <2>0, <3>1, <4>1, <4>2 DEF SavedInv, SavedTyped, SavedApart
    <3>4. CASE index # "Saved queries" /\ tab # "Saved queries"
      <4>1. UNCHANGED <<saved, calls, apart>> /\ ~apart
        BY <2>0, <2>2, <3>4 DEF handleTabChange, SavedApart
      <4>. QED BY <2>0, <3>1, <4>1 DEF SavedInv, SavedTyped, SavedApart
    <3>. QED BY <3>2, <3>3, <3>4
  <2>3. CASE handleSaveQueryFinal
    <3>1. [_id |-> nextId, version |-> 0] \in Entry /\ nextId \in Nat /\ nextId + 1 \in Nat
      BY <2>0 DEF Entry
    <3>. QED BY <2>0, <2>3, <3>1, SavedCallKeeps DEF handleSaveQueryFinal
  <2>4. ASSUME NEW query \in Listed, handleEditQueryInitial(query) PROVE SavedInv'
    BY <2>0, <2>1, <2>4 DEF handleEditQueryInitial
  <2>5. ASSUME NEW query \in Listed, handleDeleteQuery(query) PROVE SavedInv'
    BY <2>0, <2>5, SavedCallKeeps DEF handleDeleteQuery
  <2>6. CASE CloseEditQuery
    BY <2>0, <2>1, <2>6 DEF CloseEditQuery
  <2>7. CASE handleEditQueryFinal
    <3>1. [editQuery EXCEPT !.version = @ + 1] \in Entry
      BY <2>0 DEF Entry
    <3>. QED BY <2>0, <2>7, <3>1, SavedCallKeeps DEF handleEditQueryFinal
  <2>8. CASE UNCHANGED savedVars
    BY <2>0, <2>1, <2>8 DEF savedVars
  <2>. QED BY <2>2, <2>3, <2>4, <2>5, <2>6, <2>7, <2>8, HandleKeeps, ReturnKeeps DEF SavedNext
<1>. QED BY <1>1, <1>2, PTL DEF SavedSpec

\* As long as no two calls overlap, none fails and nothing is saved, the tab
\* shows what the server has.
THEOREM SavedListIsServers == SavedSpec => []ListIsServers
<1>1. SavedInv => ListIsServers
  <2> SUFFICES ASSUME SavedInv, apart, calls = {} PROVE ListIsServers
    BY DEF ListIsServers
  <2>1. Displays(saved.list, stored) /\ saved.list \in Seq(Entry)
    BY DEF SavedInv, SavedTyped, SavedApart, SavedList
  <2>2. Len(saved.list) = Cardinality(DOMAIN stored)
    BY <2>1, ShowsLength
  <2>. QED BY <2>1, <2>2 DEF ListIsServers, Listed, Displays
<1>. QED BY <1>1, SavedInvariant, PTL
=============================================================================
