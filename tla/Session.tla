------------------------------- MODULE Session -------------------------------
(***************************************************************************)
(* Signing in (client/src/services/session, App.js, scenes/Login and       *)
(* SessionMenu; routes/users.js).  The server keeps one refresh token per  *)
(* user, which every sign-in replaces.  A browser keeps the token it was   *)
(* given, uses it when the page is loaded, and again whenever its timer    *)
(* says that the access token is about to expire.  Answers may be late: a  *)
(* logout does not wait for what is under way.  One user is modelled, in   *)
(* several browsers; a token is the number of the sign-in it was made for. *)
(***************************************************************************)
EXTENDS Naturals

CONSTANTS Browser,
          MaxToken  \* bound: sign-ins of a behaviour

ASSUME SessionAssumption == MaxToken \in Nat

VARIABLES refreshToken,   \* User.refreshToken, 0 when there is none
          issued,         \* tokens made so far
          session,        \* refresh token of each browser's store, 0: initialState
          sessionTimeout, \* browsers whose timer is set
          ready,          \* browsers that render: App.state.ready
          page,           \* "login" or "main"
          call            \* call[b][kind]: the request under way

sessionVars == <<refreshToken, issued, session, sessionTimeout, ready, page, call>>

\* A stray call is a sign-in whose page was reloaded: nobody hears the answer.
Kind == {"authenticate", "refresh", "stray"}
Token == 1..MaxToken
Idle == [stage |-> "idle", token |-> 0]
CallStage == {"idle", "sent", "accepted", "refused"}

SessionTypeOK ==
  /\ refreshToken \in 0..MaxToken /\ issued \in 0..MaxToken
  /\ session \in [Browser -> 0..MaxToken]
  /\ sessionTimeout \in SUBSET Browser /\ ready \in SUBSET Browser
  /\ page \in [Browser -> {"login", "main"}]
  /\ call \in [Browser -> [Kind -> [stage : CallStage, token : 0..MaxToken]]]

\* Every browser has loaded the page before anybody had signed in.
SessionInit ==
  /\ refreshToken = 0 /\ issued = 0
  /\ session = [b \in Browser |-> 0]
  /\ sessionTimeout = {} /\ ready = Browser
  /\ page = [b \in Browser |-> "login"]
  /\ call = [b \in Browser |-> [k \in Kind |-> Idle]]

Send(b, kind, token) == [call EXCEPT ![b][kind] = [stage |-> "sent", token |-> token]]

-----------------------------------------------------------------------------
(* What the user and the timer do *)

\* Login: the form is sent.  Bound: once at a time in a browser.
PressLogin(b) ==
  /\ b \in ready /\ page[b] = "login" /\ call[b]["authenticate"] = Idle
  /\ call' = Send(b, "authenticate", 0)
  /\ UNCHANGED <<refreshToken, issued, session, sessionTimeout, ready, page>>

\* refreshToken(), which the timer calls.
refresh(b) ==
  /\ b \in sessionTimeout /\ call[b]["refresh"] = Idle
  /\ sessionTimeout' = sessionTimeout \ {b}
  /\ call' = IF session[b] = 0 THEN call ELSE Send(b, "refresh", session[b])
  /\ UNCHANGED <<refreshToken, issued, session, ready, page>>

clearSession(b) ==
  /\ session' = [session EXCEPT ![b] = 0]
  /\ sessionTimeout' = sessionTimeout \ {b}
  /\ page' = [page EXCEPT ![b] = "login"]

\* Logout.  clearSession() is called at once and not when the server has
\* answered; and the server looks up a token that the request does not carry,
\* so that it finds none to remove.
revoke(b) ==
  /\ b \in ready /\ page[b] = "main" /\ session[b] # 0
  /\ clearSession(b)
  /\ UNCHANGED <<refreshToken, issued, ready, call>>

\* The page is loaded again: the store has the session that was persisted, and
\* App tries to sign in with it before anything is rendered.
Reload(b) ==
  /\ b \in ready /\ call[b]["stray"] = Idle
  /\ sessionTimeout' = sessionTimeout \ {b}
  /\ call' = [call EXCEPT ![b] =
       [authenticate |-> Idle,
        stray        |-> IF call[b]["authenticate"].stage = "sent"
                           THEN call[b]["authenticate"] ELSE Idle,
        refresh      |-> IF session[b] = 0 THEN Idle
                           ELSE [stage |-> "sent", token |-> session[b]]]]
  /\ ready' = IF session[b] = 0 THEN ready ELSE ready \ {b}
  /\ page' = IF session[b] = 0 THEN [page EXCEPT ![b] = "login"] ELSE page
  /\ UNCHANGED <<refreshToken, issued, session>>

-----------------------------------------------------------------------------
(* The server *)

\* Faulty variant: a token that is there already is handed out again.
AuthKeepsToken(b, kind) ==
  /\ kind # "refresh" /\ call[b][kind].stage = "sent" /\ issued < MaxToken
  /\ issued' = IF refreshToken = 0 THEN issued + 1 ELSE issued
  /\ refreshToken' = issued'
  /\ call' = [call EXCEPT ![b][kind] =
       IF kind = "stray" THEN Idle ELSE [stage |-> "accepted", token |-> issued']]
  /\ UNCHANGED <<session, sessionTimeout, ready, page>>

\* POST /users/auth with the right password: a new token replaces the old one.
Auth(b, kind) ==
  /\ kind # "refresh" /\ call[b][kind].stage = "sent" /\ issued < MaxToken
  /\ issued' = issued + 1
  /\ refreshToken' = issued + 1
  /\ call' = [call EXCEPT ![b][kind] =
       IF kind = "stray" THEN Idle ELSE [stage |-> "accepted", token |-> issued + 1]]
  /\ UNCHANGED <<session, sessionTimeout, ready, page>>

\* A wrong password, an error, or a connection that fails.
AuthFails(b, kind) ==
  /\ kind # "refresh" /\ call[b][kind].stage = "sent"
  /\ call' = [call EXCEPT ![b][kind] =
       IF kind = "stray" THEN Idle ELSE [stage |-> "refused", token |-> 0]]
  /\ UNCHANGED <<refreshToken, issued, session, sessionTimeout, ready, page>>

\* POST /users/auth/refresh compares the token and keeps it.
AuthRefresh(b) ==
  /\ call[b]["refresh"].stage = "sent"
  /\ call' = [call EXCEPT ![b]["refresh"].stage =
       IF call[b]["refresh"].token = refreshToken THEN "accepted" ELSE "refused"]
  /\ UNCHANGED <<refreshToken, issued, session, sessionTimeout, ready, page>>

RefreshLost(b) ==
  /\ call[b]["refresh"].stage = "sent"
  /\ call' = [call EXCEPT ![b]["refresh"].stage = "refused"]
  /\ UNCHANGED <<refreshToken, issued, session, sessionTimeout, ready, page>>

-----------------------------------------------------------------------------
(* Answers *)

\* Faulty variant: the timer is set after a sign-in only.
RefreshSetsNoTimer(b, kind) ==
  /\ call[b][kind].stage = "accepted"
  /\ session' = [session EXCEPT ![b] = call[b][kind].token]
  /\ sessionTimeout' = IF kind = "authenticate" THEN sessionTimeout \cup {b} ELSE sessionTimeout
  /\ ready' = ready \cup {b}
  /\ page' = IF kind = "authenticate" THEN [page EXCEPT ![b] = "main"] ELSE page
  /\ call' = [call EXCEPT ![b][kind] = Idle]
  /\ UNCHANGED <<refreshToken, issued>>

\* The answer becomes the session, whatever happened meanwhile.  After a
\* sign-in Login goes to the Dashboard, after a reload App starts to render.
onRequestSuccess(b, kind) ==
  /\ call[b][kind].stage = "accepted"
  /\ session' = [session EXCEPT ![b] = call[b][kind].token]
  /\ sessionTimeout' = sessionTimeout \cup {b}
  /\ ready' = ready \cup {b}
  /\ page' = IF kind = "authenticate" THEN [page EXCEPT ![b] = "main"] ELSE page
  /\ call' = [call EXCEPT ![b][kind] = Idle]
  /\ UNCHANGED <<refreshToken, issued>>

onRequestFailed(b, kind) ==
  /\ call[b][kind].stage = "refused"
  /\ clearSession(b)
  /\ ready' = ready \cup {b}
  /\ call' = [call EXCEPT ![b][kind] = Idle]
  /\ UNCHANGED <<refreshToken, issued>>

-----------------------------------------------------------------------------
ServeCall(b) ==
  \/ \E kind \in Kind : Auth(b, kind) \/ AuthFails(b, kind)
  \/ AuthRefresh(b) \/ RefreshLost(b)

TakeAnswer(b) == \E kind \in Kind : onRequestSuccess(b, kind) \/ onRequestFailed(b, kind)

SessionNext ==
  \E b \in Browser :
    \/ PressLogin(b) \/ revoke(b) \/ Reload(b)
    \/ refresh(b) \/ ServeCall(b) \/ TakeAnswer(b)

\* Timers run out and requests are answered or fail; nobody has to click.
SessionFairness ==
  \A b \in Browser : /\ WF_sessionVars(refresh(b))
                     /\ WF_sessionVars(ServeCall(b))
                     /\ WF_sessionVars(TakeAnswer(b))

SessionSpec == SessionInit /\ [][SessionNext]_sessionVars /\ SessionFairness

-----------------------------------------------------------------------------
(* Properties *)

\* A sign-in takes the session over: never can two browsers renew theirs, in
\* whatever order sign-ins, late answers and reloads come (routes/users.js
\* keeps one refresh token per user).
OneBrowserCanRenew ==
  \A b, c \in Browser :
    b # c /\ session[b] # 0 /\ session[c] # 0
      => ~(session[b] = refreshToken /\ session[c] = refreshToken)

\* A session is renewed before it expires: while a browser has one, its timer
\* is set or a refresh is under way, so that no path through logout, sign-in
\* and late answers leaves a session that nothing renews.
RenewalIsPending ==
  \A b \in Browser :
    session[b] # 0 => b \in sessionTimeout \/ call[b]["refresh"] # Idle

\* A browser whose token has been replaced notices: it signs out, or has come
\* to hold the current one.
DisplacedSignsOut ==
  \A b \in Browser : session[b] \notin {0, refreshToken}
                       ~> session[b] \in {0, refreshToken}
=============================================================================
