------------------------------ MODULE QueryForms ------------------------------
(***************************************************************************)
(* From a form, or from an anomaly, to the SQL that is sent: which table,  *)
(* and which conditions on the time and on the partitions (year, month and *)
(* day, UTC) that keep Impala from reading everything.  Traffic of before  *)
(* today is in dns.queries, today's in dns.staging.  The clock goes on     *)
(* while the user fills in the form and while the query waits.             *)
(*   Queries/components/QueryTypes, data/queries/actions.js loadAnomalyData *)
(***************************************************************************)
EXTENDS Naturals, Sequences, FiniteSets

CONSTANTS Calendar, \* consecutive days: [year, month, day]
          PerDay,   \* instants of a day
          UNSET,    \* a field that is empty
          INVALID   \* a text that is no date

\* One day comes before another.
Earlier(d, e) == \/ d.year < e.year
                 \/ d.year = e.year /\ d.month < e.month
                 \/ d.year = e.year /\ d.month = e.month /\ d.day < e.day

ASSUME FormsAssumption ==
  /\ PerDay \in Nat \ {0} /\ Len(Calendar) * PerDay > 1
  /\ Calendar \in Seq([year : Nat, month : Nat, day : Nat])
  /\ \A i, j \in DOMAIN Calendar : i < j => Earlier(Calendar[i], Calendar[j])
  /\ {UNSET, INVALID} \cap Nat = {}

VARIABLES form,    \* [from, to, subject: whether a name or address is given,
                   \*  errors: whether fields are marked]
          now,
          sent     \* the query: [from, to, table, parts, sentOn], or UNSET

formVars == <<form, now, sent>>

Time == 0..(Len(Calendar) * PerDay - 1)
DayOf(t) == Calendar[t \div PerDay + 1]
Midnight(t) == (t \div PerDay) * PerDay

FormInit ==
  /\ now = 1
  /\ form = [from |-> 0, to |-> 1, subject |-> FALSE, errors |-> FALSE]
  /\ sent = UNSET

archiveTime == Midnight(now)

-----------------------------------------------------------------------------
(* The partitions that are read *)

\* Forms: "year >= y1 OR year <= y2", and from one to the other for months and
\* for days.
FormParts(from, to) ==
  {t \in Time : LET d == DayOf(t) d1 == DayOf(from) d2 == DayOf(to)
                IN  /\ d.year >= d1.year \/ d.year <= d2.year
                    /\ d.month >= d1.month /\ d.month <= d2.month
                    /\ d.day >= d1.day /\ d.day <= d2.day}

\* Faulty variant: the day on which the anomaly ends is forgotten.
AnomalyPartsStart(from, to) ==
  {t \in Time : LET d == DayOf(t) d1 == DayOf(from) d2 == DayOf(to)
                IN  /\ d.year \in {d1.year, d2.year}
                    /\ d.month \in {d1.month, d2.month}
                    /\ d.day = d1.day}

\* Anomalies: one or the other of each.
AnomalyParts(from, to) ==
  {t \in Time : LET d == DayOf(t) d1 == DayOf(from) d2 == DayOf(to)
                IN  /\ d.year \in {d1.year, d2.year}
                    /\ d.month \in {d1.month, d2.month}
                    /\ d.day \in {d1.day, d2.day}}

-----------------------------------------------------------------------------
(* Submitting *)

SqlOf(from, to, table, parts) ==
  [from |-> from, to |-> to, table |-> table, parts |-> parts, sentOn |-> DayOf(now)]

handleInputChange(field, value) ==
  /\ form' = [form EXCEPT ![field] = value]
  /\ UNCHANGED <<now, sent>>

\* A field that is required or no date, an end that is not after the start, or a
\* range with the last midnight in it; moment() keeps its milliseconds, so that
\* midnight itself is before archiveTime.  No date is after or before a text that
\* is none.  Without a start the handler throws, once it has looked at the end.
Errors ==
  {field \in {"from", "to"} : form[field] \in {UNSET, INVALID}}
  \cup (IF ~form.subject THEN {"subject"} ELSE {})
  \cup (IF /\ {form.from, form.to} \cap {UNSET, INVALID} = {}
            /\ \/ form.to <= form.from
               \/ form.from <= archiveTime /\ form.to > archiveTime
           THEN {"to"} ELSE {})

\* handleSubmit of DomainQuery and of ResolverQuery.  The marks stay until
\* others take their place, also when the query is sent.
handleSubmit ==
  /\ ~(form.from = UNSET /\ form.to # UNSET)
  /\ IF Errors # {}
       THEN form' = [form EXCEPT !.errors = TRUE] /\ UNCHANGED sent
       ELSE /\ sent' = SqlOf(form.from, form.to,
                             IF form.from < archiveTime THEN "dns.queries" ELSE "dns.staging",
                             FormParts(form.from, form.to))
            /\ UNCHANGED form
  /\ UNCHANGED now

\* The button of an anomaly in AnomalyDetails: the table is that of its end.
loadAnomalyData(start, end) ==
  /\ start < end /\ end <= now
  /\ sent' = SqlOf(start, end,
                   IF end <= archiveTime THEN "dns.queries" ELSE "dns.staging",
                   AnomalyParts(start, end))
  /\ UNCHANGED <<form, now>>

\* The clock.
Tick ==
  /\ now + 1 \in Time
  /\ now' = now + 1
  /\ UNCHANGED <<form, sent>>

FormNext ==
  \/ \E field \in {"from", "to"}, value \in Time \cup {UNSET, INVALID} :
       handleInputChange(field, value)
  \/ \E given \in BOOLEAN : handleInputChange("subject", given)
  \/ handleSubmit
  \/ \E start, end \in Time : loadAnomalyData(start, end)
  \/ Tick

FormSpec == FormInit /\ [][FormNext]_formVars

-----------------------------------------------------------------------------
(* What Impala answers now *)

InTable(table) == {t \in Time : t < now /\ (t < archiveTime <=> table = "dns.queries")}

Answered == {t \in InTable(sent.table) \cap sent.parts : t >= sent.from /\ t < sent.to}

(* Properties *)

\* As long as the day has not changed since the query was sent, nothing of the
\* range that has been captured is missing from its answer: for a form whose
\* range lies in one month, whatever the user typed, and when, and for an
\* anomaly that ends a day after it started at the latest, also across the end
\* of a month or of a year, unless it has the last midnight in it.
NothingMissing ==
  sent # UNSET =>
    LET d1 == DayOf(sent.from)
        d2 == DayOf(sent.to)
    IN  ( /\ sent.sentOn = DayOf(now)
          /\ \/ /\ sent.parts = FormParts(sent.from, sent.to)
                /\ d1.year = d2.year /\ d1.month = d2.month
             \/ sent.parts = AnomalyParts(sent.from, sent.to)
                /\ Midnight(sent.to) <= Midnight(sent.from) + PerDay
          /\ ~(sent.from < archiveTime /\ sent.to > archiveTime)
        ) => Answered = {t \in Time : t >= sent.from /\ t < sent.to /\ t < now}
=============================================================================
