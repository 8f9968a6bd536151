------------------------------ MODULE Settings ------------------------------
(***************************************************************************)
(* The whitelist: the rules in the database, the page that watches and     *)
(* edits them (scenes/Settings, data/settings) and the route that replaces *)
(* them (routes/settings.js), which drops the collection and then inserts  *)
(* the new one, so that requests of several browsers interleave.           *)
(***************************************************************************)
EXTENDS RequestWatcher, Sequences, Naturals

CONSTANTS Rule,        \* lines "name: filter" of the editor
          BadLine,     \* a line that is none: not exactly one colon
          SettingsUrl, \* "/settings"
          MaxSaves     \* bound: saves of a behaviour

ASSUME SettingsAssumption ==
  BadLine \notin Rule /\ MaxSaves \in Nat /\ Replies = SUBSET Rule /\ SettingsUrl \in Urls

VARIABLES whitelist,   \* the rules in the database
          saves,       \* POST /settings/whitelist: the rules, how far it is
          undropped,   \* history: the rules the first requests found, until a drop
          unseparated, \* history: the saves that may have left rules behind
          settings,    \* the store: the rules it knows of, or NONE
          text,        \* the lines in the editor, NONE when it is closed
          mounted      \* whether the page is

rulesVars == <<whitelist, saves, undropped, unseparated>>
settingsVars == <<rulesVars, settings, text, mounted>>

Stage == {"sent", "dropped", "saved", "failed"}

SettingsTypeOK ==
  /\ whitelist \in SUBSET Rule
  /\ saves \in Seq([rules : SUBSET Rule, stage : Stage])
  /\ undropped \in SUBSET Rule
  /\ unseparated \in SUBSET DOMAIN saves
  /\ settings \in (SUBSET Rule) \cup {NONE}
  /\ text \in (SUBSET (Rule \cup {BadLine})) \cup {NONE}
  /\ mounted \in BOOLEAN
  /\ reply \in [Requests -> Replies \cup {NONE}]

SettingsInit ==
  /\ WatcherInit
  /\ whitelist \in SUBSET Rule
  /\ saves = <<>>
  /\ undropped = whitelist /\ unseparated = {}
  /\ settings = NONE
  /\ text = NONE
  /\ mounted = FALSE

-----------------------------------------------------------------------------
(* The page *)

OpenSettings(r) ==
  /\ ~mounted
  /\ mounted' = TRUE /\ settings' = NONE
  /\ WatchApi({SettingsUrl}, Watch(SettingsUrl, r))
  /\ UNCHANGED <<rulesVars, text>>

LeaveSettings ==
  /\ mounted
  /\ mounted' = FALSE /\ settings' = NONE /\ text' = NONE
  /\ UnwatchApi({SettingsUrl})
  /\ UNCHANGED rulesVars

\* An answer goes into the store, also when the page has been left.
SettingsSuccess(r) ==
  /\ Deliver(r, {})
  /\ settings' = reply[r]
  /\ UNCHANGED <<rulesVars, text, mounted>>

\* WhitelistEdit is built with the rules of the store.  It cannot be before
\* there are any: its constructor would throw.
OpenEditor ==
  /\ mounted /\ text = NONE /\ settings # NONE
  /\ text' = settings
  /\ UNCHANGED <<watcherVars, rulesVars, settings, mounted>>

Edit(lines) ==
  /\ text # NONE
  /\ text' = lines
  /\ UNCHANGED <<watcherVars, rulesVars, settings, mounted>>

Save(rules) ==
  /\ Len(saves) < MaxSaves
  /\ saves' = Append(saves, [rules |-> rules, stage |-> "sent"])

\* A text with a line that is no rule is kept in the editor with an error.
Submit ==
  /\ text # NONE /\ BadLine \notin text
  /\ Save(text)
  /\ text' = NONE
  /\ UNCHANGED <<watcherVars, whitelist, undropped, unseparated, settings, mounted>>

CloseEditor ==
  /\ text # NONE
  /\ text' = NONE
  /\ UNCHANGED <<watcherVars, rulesVars, settings, mounted>>

\* Another browser saves.
OtherSave(rules) ==
  Save(rules) /\ UNCHANGED <<watcherVars, whitelist, undropped, unseparated, settings, text, mounted>>

-----------------------------------------------------------------------------
(* POST /settings/whitelist *)

AtStage(stage) == {s \in DOMAIN saves : saves[s].stage = stage}

\* Faulty variant: the old rules are not dropped.
DropNothing(s) ==
  /\ saves[s].stage = "sent"
  /\ saves' = [saves EXCEPT ![s].stage = "dropped"]
  /\ undropped' = {} /\ unseparated' = {s} \cup AtStage("dropped")
  /\ UNCHANGED <<watcherVars, whitelist, settings, text, mounted>>

\* WhitelistItem.collection.drop, which separates the saves that have inserted
\* from those that have not.
Drop(s) ==
  /\ saves[s].stage = "sent"
  /\ saves' = [saves EXCEPT ![s].stage = "dropped"]
  /\ whitelist' = {}
  /\ undropped' = {} /\ unseparated' = {s} \cup AtStage("dropped")
  /\ UNCHANGED <<watcherVars, settings, text, mounted>>

\* It fails, on a collection that does not exist or on a lost connection.  The
\* callback takes no error and goes on to insert: the old rules stay.
DropFails(s) ==
  /\ saves[s].stage = "sent"
  /\ saves' = [saves EXCEPT ![s].stage = "dropped"]
  /\ unseparated' = unseparated \cup {s}
  /\ UNCHANGED <<watcherVars, whitelist, undropped, settings, text, mounted>>

\* insertMany: all the rules, or with an error the first of them.
Insert(s) ==
  /\ saves[s].stage = "dropped"
  /\ saves' = [saves EXCEPT ![s].stage = "saved"]
  /\ whitelist' = whitelist \cup saves[s].rules
  /\ UNCHANGED <<watcherVars, undropped, unseparated, settings, text, mounted>>

InsertFails(s) ==
  /\ saves[s].stage = "dropped"
  /\ saves' = [saves EXCEPT ![s].stage = "failed"]
  /\ \E some \in (SUBSET saves[s].rules) \ {saves[s].rules} : whitelist' = whitelist \cup some
  /\ UNCHANGED <<watcherVars, undropped, unseparated, settings, text, mounted>>

ServeSave(s) == Drop(s) \/ DropFails(s) \/ Insert(s) \/ InsertFails(s)

SettingsNext ==
  \/ \E r \in Requests :
       \/ OpenSettings(r) \/ SettingsSuccess(r)
       \/ Answer(r, whitelist) /\ UNCHANGED settingsVars
  \/ LeaveSettings
  \/ _poll /\ UNCHANGED settingsVars
  \/ OpenEditor \/ Submit \/ CloseEditor
  \/ \E lines \in SUBSET (Rule \cup {BadLine}) : Edit(lines)
  \/ \E rules \in SUBSET Rule : OtherSave(rules)
  \/ \E s \in DOMAIN saves : ServeSave(s)

SettingsSpec == SettingsInit /\ [][SettingsNext]_<<watcherVars, settingsVars>>

-----------------------------------------------------------------------------
(* Properties *)

\* No rule outlives a drop and none is lost: when the saves that have called
\* back since the last drop that succeeded have all inserted, the database holds
\* their rules, those of saves that drop overlapped with, and no rule from before
\* it.  A save replaces the whitelist by its own rules only if it overlaps with no
\* other and its drop succeeds (routes/settings.js drops and inserts in two steps,
\* which requests of several browsers share, and inserts after a failed drop too).
WhitelistSinceLastDrop ==
  (\A s \in unseparated : saves[s].stage = "saved")
    => whitelist = undropped \cup UNION {saves[s].rules : s \in unseparated}
=============================================================================
