----------------------------- MODULE SavedQueries -----------------------------
(***************************************************************************)
(* Saved queries: the tabs of the page Queries, the list that the tab      *)
(* "Saved queries" loads when it is shown, the dialogs that save and edit  *)
(* a query, and the routes of the server.  Every call answers in its own   *)
(* time, and fetchApi() takes an error of the server for an empty success. *)
(*   scenes/Queries, data/queries, routes/impala_query.js                  *)
(***************************************************************************)
EXTENDS Naturals, Sequences, FiniteSets

CONSTANTS MaxSaved,   \* bound: queries ever saved
          MaxVersion, \* bound: edits of a query
          MaxCalls,   \* bound: calls under way
          NOID        \* the _id of a query that was not loaded: undefined

ASSUME SavedAssumption == {MaxSaved, MaxVersion, MaxCalls} \subseteq Nat /\ NOID \notin Nat

VARIABLES stored,   \* the server: the version of each query, by its id
          nextId,
          saved,    \* the store: [status, list], a list of [_id, version]
          tab,      \* activeTab
          editQuery, \* the dialog of SavedQueries, NOQUERY when closed
          calls,    \* calls under way: [op, query, reply]
          apart     \* history: nothing has happened at once, or failed, since
                    \* the list was loaded

savedVars == <<stored, nextId, saved, tab, editQuery, calls, apart>>

NOQUERY == [_id |-> 0, version |-> 0]
UNSERVED == "unserved"

SavedInit ==
  /\ stored \in {[i \in 1..n |-> 0] : n \in 0..1}
  /\ nextId = Cardinality(DOMAIN stored) + 1
  /\ saved = [status |-> "INITIAL", list |-> << >>]
  /\ tab = "Documentation"
  /\ editQuery = NOQUERY
  /\ calls = {}
  /\ apart = FALSE

\* A finite set of numbers, from the least to the greatest.
InOrder(ids) == [n \in 1..Cardinality(ids) |->
                   CHOOSE i \in ids : Cardinality({j \in ids : j < i}) = n - 1]

Listed == {saved.list[i] : i \in DOMAIN saved.list}

Call(op, query) ==
  /\ Cardinality(calls) < MaxCalls
  /\ calls' = calls \cup {[op |-> op, query |-> query, reply |-> UNSERVED, rows |-> << >>]}
  /\ apart' = (calls = {} /\ (op = "load" \/ (apart /\ op # "save")))

-----------------------------------------------------------------------------
(* The page *)

\* SavedQueries is mounted, or unmounted, with its tab.
handleTabChange(index) ==
  /\ index # tab
  /\ tab' = index
  /\ editQuery' = NOQUERY
  /\ CASE index = "Saved queries" ->
            Call("load", NOQUERY) /\ saved' = [status |-> "loading", list |-> << >>]
       [] tab = "Saved queries" ->
            /\ saved' = [status |-> "initial", list |-> << >>]
            /\ apart' = FALSE
            /\ UNCHANGED calls
       [] OTHER -> UNCHANGED <<saved, calls, apart>>
  /\ UNCHANGED <<stored, nextId>>

\* The dialog of QueryResultList: a name has been given.
handleSaveQueryFinal ==
  /\ tab = "Results" /\ nextId <= MaxSaved
  /\ Call("save", [_id |-> nextId, version |-> 0])
  /\ nextId' = nextId + 1
  /\ UNCHANGED <<stored, saved, tab, editQuery>>

\* "Edit query" copies the entry into a dialog.
handleEditQueryInitial(query) ==
  /\ tab = "Saved queries" /\ saved.status # "loading"
  /\ query \in Listed /\ editQuery = NOQUERY
  /\ editQuery' = query
  /\ UNCHANGED <<stored, nextId, saved, tab, calls, apart>>

CloseEditQuery ==
  /\ editQuery # NOQUERY
  /\ editQuery' = NOQUERY
  /\ UNCHANGED <<stored, nextId, saved, tab, calls, apart>>

\* What was changed in the dialog has a name and some SQL that parses.
handleEditQueryFinal ==
  /\ editQuery # NOQUERY /\ editQuery.version < MaxVersion
  /\ Call("update", [editQuery EXCEPT !.version = @ + 1])
  /\ editQuery' = NOQUERY
  /\ UNCHANGED <<stored, nextId, saved, tab>>

handleDeleteQuery(query) ==
  /\ tab = "Saved queries" /\ saved.status # "loading"
  /\ query \in Listed /\ editQuery = NOQUERY
  /\ Call("delete", query)
  /\ UNCHANGED <<stored, nextId, saved, tab, editQuery>>

-----------------------------------------------------------------------------
(* The server *)

Reply(c, reply, rows) ==
  calls' = (calls \ {c}) \cup {[c EXCEPT !.reply = reply, !.rows = rows]}

Documents == LET ids == InOrder(DOMAIN stored)
             IN  [n \in DOMAIN ids |-> [_id |-> ids[n], version |-> stored[ids[n]]]]

List(c) ==
  /\ c.op = "load"
  /\ Reply(c, "ok", Documents)
  /\ UNCHANGED <<stored, apart>>

SaveQuery(c) ==
  /\ c.op = "save"
  /\ stored' = [i \in DOMAIN stored \cup {c.query._id} |->
                  IF i = c.query._id THEN c.query.version ELSE stored[i]]
  /\ Reply(c, "ok", << >>)
  /\ UNCHANGED apart

\* An id that is none is an error; a query that is gone makes the callback
\* throw, and nothing is answered.
Put(c) ==
  /\ c.op = "update"
  /\ IF c.query._id \in DOMAIN stored
       THEN stored' = [stored EXCEPT ![c.query._id] = c.query.version]
       ELSE UNCHANGED stored
  /\ Reply(c, CASE c.query._id \in DOMAIN stored -> "ok"
                [] c.query._id = NOID -> "error"
                [] OTHER -> "lost", << >>)
  /\ apart' = (apart /\ c.query._id \in DOMAIN stored)

Remove(c) ==
  /\ c.op = "delete"
  /\ stored' = [i \in DOMAIN stored \ {c.query._id} |-> stored[i]]
  /\ Reply(c, IF c.query._id = NOID THEN "error" ELSE "ok", << >>)
  /\ apart' = (apart /\ c.query._id # NOID)

\* The database fails, or the connection.
Fail(c) ==
  /\ \E reply \in {"error", "lost"} : Reply(c, reply, << >>)
  /\ apart' = FALSE
  /\ UNCHANGED stored

Handle(c) ==
  /\ c.reply = UNSERVED
  /\ List(c) \/ SaveQuery(c) \/ Put(c) \/ Remove(c) \/ Fail(c)
  /\ UNCHANGED <<nextId, saved, tab, editQuery>>

-----------------------------------------------------------------------------
(* The reducer.  fetchApi() resolves after an error too, with nothing.       *)

\* LOAD_SUCCESS and LOAD_FAILURE.  An error makes the list undefined, which the
\* tab cannot draw; here it stays empty.
Loaded(c) == IF c.reply = "lost" THEN [saved EXCEPT !.status = "failed"]
                                 ELSE [status |-> "loaded", list |-> c.rows]

\* SAVE: what was posted, without the id it got.
Saved(c) == [saved EXCEPT !.list = Append(@, [c.query EXCEPT !._id = NOID])]

\* Faulty variant: only the first entry is looked at.
UpdatedFirst(c) == [saved EXCEPT !.list = [i \in DOMAIN @ |->
                      IF @[i]._id = c.query._id /\ i = 1 THEN c.query ELSE @[i]]]

\* UPDATE and DELETE: every entry with this id, or without any.
Updated(c) == [saved EXCEPT !.list = [i \in DOMAIN @ |->
                 IF @[i]._id = c.query._id THEN c.query ELSE @[i]]]

Deleted(c) ==
  LET kept == InOrder({i \in DOMAIN saved.list : saved.list[i]._id # c.query._id})
  IN  [saved EXCEPT !.list = [n \in DOMAIN kept |-> @[kept[n]]]]

Return(c) ==
  /\ c.reply # UNSERVED
  /\ calls' = calls \ {c}
  /\ saved' = CASE c.op = "load" -> Loaded(c)
                [] c.op # "load" /\ c.reply = "lost" -> saved
                [] c.op = "save" /\ c.reply # "lost" -> Saved(c)
                [] c.op = "update" /\ c.reply # "lost" -> Updated(c)
                [] c.op = "delete" /\ c.reply # "lost" -> Deleted(c)
  /\ UNCHANGED <<stored, nextId, tab, editQuery, apart>>

SavedNext ==
  \/ \E index \in {"Documentation", "Saved queries", "Results"} : handleTabChange(index)
  \/ handleSaveQueryFinal
  \/ \E query \in Listed : handleEditQueryInitial(query) \/ handleDeleteQuery(query)
  \/ CloseEditQuery \/ handleEditQueryFinal
  \/ \E c \in calls : Handle(c) \/ Return(c)

SavedSpec == SavedInit /\ [][SavedNext]_savedVars

-----------------------------------------------------------------------------
(* Properties *)

\* The client redoes in its list what the server does to its queries, and never
\* reads the list again: as long as no two calls overlap, none fails and
\* nothing is saved, what the tab shows is what the server has.
ListIsServers ==
  (apart /\ calls = {} /\ tab = "Saved queries") =>
    /\ Len(saved.list) = Cardinality(DOMAIN stored)
    /\ Listed = {[_id |-> i, version |-> stored[i]] : i \in DOMAIN stored}
=============================================================================
