---------------------------- MODULE AnomalyDetails ----------------------------
(***************************************************************************)
(* The details of a subject, shown beside the list of anomalies: what      *)
(* selectAnomaly() looks up (its anomalies, and for a resolver who it is), *)
(* and the filters of the layer.  A lookup is not cancelled when the layer *)
(* is closed or another subject is selected.                               *)
(*   data/anomalies, Anomalies/components/AnomalyDetails                   *)
(***************************************************************************)
EXTENDS Naturals, FiniteSets

CONSTANTS Subject,
          Resolvers,  \* subjects of type Resolver
          DetailEvent,\* their anomalies: [subject, server, day]
          DetailServer, \* SERVERS
          MaxLookups, \* bound: lookups under way
          NOTHING

VARIABLES selection,   \* of the store: [loading, anomalies, info], or NOTHING
          lookups,     \* under way: [subject, anomalies, info], the latter as answered
          dateFilter, serverFilter

detailVars == <<selection, lookups, dateFilter, serverFilter>>

DetailInit ==
  /\ selection = NOTHING
  /\ lookups = {}
  /\ dateFilter = NOTHING
  /\ serverFilter = DetailServer

Loading == [loading |-> TRUE, anomalies |-> NOTHING, info |-> NOTHING]

\* The layer is mounted when there is a selection, with its filters unset.
Filters(wasOpen) ==
  IF wasOpen THEN UNCHANGED <<dateFilter, serverFilter>>
             ELSE dateFilter' = NOTHING /\ serverFilter' = DetailServer

AnomaliesOf(subject) == {e \in DetailEvent : e.subject = subject}

\* A tile of the list, which the layer does not cover.  Only a resolver has the
\* second part.
selectAnomaly(subject) ==
  /\ Cardinality(lookups) < MaxLookups
  /\ selection' = Loading
  /\ lookups' = lookups \cup {[subject |-> subject, anomalies |-> NOTHING,
                               info |-> NOTHING]}
  /\ Filters(selection # NOTHING)

deselectAnomaly ==
  /\ selection # NOTHING
  /\ selection' = NOTHING
  /\ UNCHANGED <<lookups, dateFilter, serverFilter>>

\* GET /anomalies/all/:subject has answered.  After an HTTP error fetchApi
\* resolves without a value, which the layer takes for no anomalies.
AnomaliesAnswer(l) ==
  /\ l.anomalies = NOTHING
  /\ \E found \in {AnomaliesOf(l.subject), {}} :
       lookups' = (lookups \ {l}) \cup {[l EXCEPT !.anomalies = found]}
  /\ UNCHANGED <<selection, dateFilter, serverFilter>>

\* getResolverInfo() has answered; it rejects after an HTTP error.
InfoAnswers(l) ==
  /\ l.subject \in Resolvers /\ l.info = NOTHING
  /\ lookups' = (lookups \ {l}) \cup {[l EXCEPT !.info = l.subject]}
  /\ UNCHANGED <<selection, dateFilter, serverFilter>>

Complete(l) ==
  l.anomalies # NOTHING /\ (l.subject \in Resolvers => l.info # NOTHING)

\* SELECT: everything has come; whatever is shown by now, or nothing, gives way.
Select(l) ==
  /\ Complete(l)
  /\ selection' = [loading |-> FALSE, anomalies |-> l.anomalies, info |-> l.info]
  /\ lookups' = lookups \ {l}
  /\ Filters(selection # NOTHING)

\* One of the two failed: SELECT without a selection, at which the reducer
\* throws, and the layer goes on loading.
SelectFails(l) ==
  /\ ~Complete(l)
  /\ lookups' = lookups \ {l}
  /\ UNCHANGED <<selection, dateFilter, serverFilter>>

filteredAnomalies ==
  {e \in selection.anomalies : dateFilter \in {NOTHING, e.day} /\ e.server \in serverFilter}

Shows == selection # NOTHING /\ ~selection.loading

\* A day of the calendar, which shows the days that are left by the filters.
filterByDay(day) ==
  /\ Shows /\ day \in {e.day : e \in filteredAnomalies}
  /\ dateFilter' = IF dateFilter = day THEN NOTHING ELSE day
  /\ UNCHANGED <<selection, lookups, serverFilter>>

filterByServer(server) ==
  /\ Shows
  /\ serverFilter' = IF server \in serverFilter THEN serverFilter \ {server}
                                                ELSE serverFilter \cup {server}
  /\ UNCHANGED <<selection, lookups, dateFilter>>

DetailNext ==
  \/ \E subject \in Subject : selectAnomaly(subject)
  \/ deselectAnomaly
  \/ \E l \in lookups :
       \/ AnomaliesAnswer(l) \/ InfoAnswers(l) \/ Select(l) \/ SelectFails(l)
  \/ \E e \in DetailEvent : filterByDay(e.day)
  \/ \E server \in DetailServer : filterByServer(server)

DetailSpec == DetailInit /\ [][DetailNext]_detailVars

=============================================================================
