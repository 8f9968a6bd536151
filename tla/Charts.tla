-------------------------------- MODULE Charts --------------------------------
(***************************************************************************)
(* The charts of statistics.  Traffic stacks, for each window, a series    *)
(* per client, domain name, response code or query type; the user selects  *)
(* one of them, or looks at the entropy instead, and new statistics may    *)
(* arrive at any time under what is selected.  TrafficDetail draws one     *)
(* window as bars and looks up who a client is; Dashboard draws a line per *)
(* server.                                                                 *)
(***************************************************************************)
EXTENDS Naturals, Sequences, FiniteSets, FiniteSetsExt, Functions

CONSTANTS ChartWindow, \* windows: [server, histogram, anomaly]
          MaxWindows,  \* bound: windows in a chart
          TopN,        \* 10: the series that Client and DomainName draw
          UNSELECTED   \* undefined

ASSUME ChartsAssumption ==
  \A w \in ChartWindow : /\ IsFiniteSet(DOMAIN w.histogram)
                         /\ \A k \in DOMAIN w.histogram : w.histogram[k] \in Nat

VARIABLES chart,       \* a chart of Traffic: [kind, showEntropy, selected]
          data,        \* the windows it is given
          selectedServer, \* of QueriesPerServer
          opened,      \* the window that TrafficDetail shows, or UNSELECTED
          hint,        \* of the clients in TrafficDetail: [value, ipInfo]
          asked        \* its calls of getResolverInfo under way

barVars == <<opened, hint, asked>>
chartVars == <<chart, data, selectedServer, barVars>>

Kinds == {"client", "domain", "rcode", "qtype"}

NoHint == [value |-> UNSELECTED, ipInfo |-> UNSELECTED]

ChartInit ==
  /\ chart \in [kind : Kinds, showEntropy : {FALSE}, selected : {UNSELECTED}]
  /\ data = << >>
  /\ selectedServer = UNSELECTED
  /\ opened = UNSELECTED
  /\ hint = NoHint
  /\ asked = {}

Keys(w) == DOMAIN w.histogram
AllKeys == UNION {Keys(data[i]) : i \in DOMAIN data}
Total(w) == SumFunctionOnSet(w.histogram, Keys(w))

-----------------------------------------------------------------------------
(* What Traffic draws *)

\* Keys are counted by what is tested with hasOwnProperty(<the entry itself>),
\* which is never there: the last window that has the key gives its count.
CountByKey == [k \in AllKeys |->
                 data[Max({i \in DOMAIN data : k \in Keys(data[i])})].histogram[k]]

\* The response code 0 (NoError) is selected and still counts as nothing.
IsSelected == chart.selected # UNSELECTED /\ chart.selected # 0

Legend == IF IsSelected THEN {chart.selected} ELSE AllKeys

Before(j, k) == \/ CountByKey[j] > CountByKey[k]
                \/ CountByKey[j] = CountByKey[k] /\ j < k

\* Faulty variant: the rare ones are left out of every chart.
DrawnTopOnly == {k \in Legend : IsSelected
                                \/ Cardinality({j \in AllKeys : Before(j, k)}) < TopN}

Drawn == IF chart.kind \in {"client", "domain"} /\ ~IsSelected
           THEN {k \in Legend : Cardinality({j \in AllKeys : Before(j, k)}) < TopN}
           ELSE Legend

\* The values of a series, as counts; they are drawn as percentages while
\* nothing is selected, but for query types.
SeriesData(k) == [i \in DOMAIN data |->
                    IF k \in Keys(data[i]) THEN data[i].histogram[k] ELSE 0]

\* Windows that can be clicked, which opens them in TrafficDetail: all of
\* EntropyChart's marks, and the marks of anomalies of the other charts.
Marks == IF chart.showEntropy THEN DOMAIN data
                              ELSE {i \in DOMAIN data : data[i].anomaly}

-----------------------------------------------------------------------------
(* The handlers *)

OnTraffic == opened = UNSELECTED

_changeView ==
  /\ OnTraffic
  /\ chart' = [chart EXCEPT !.showEntropy = ~@]
  /\ UNCHANGED <<data, selectedServer, barVars>>

\* _selectClient, _selectDomain, _selectRCode and _selectQType: a click on the
\* legend, or on the area of a series.
_select(k) ==
  /\ OnTraffic /\ ~chart.showEntropy /\ k \in Legend
  /\ chart' = [chart EXCEPT !.selected = IF @ = k THEN UNSELECTED ELSE k]
  /\ UNCHANGED <<data, selectedServer, barVars>>

\* New props.
Receive(w) ==
  /\ OnTraffic
  /\ data' = IF Len(data) = MaxWindows THEN <<w>> ELSE Append(data, w)
  /\ UNCHANGED <<chart, selectedServer, barVars>>

-----------------------------------------------------------------------------
(* Dashboard: QueriesPerServer *)

Servers == {data[i].server : i \in DOMAIN data}
ByServer == {s \in Servers : selectedServer \in {UNSELECTED, s}}
LineOf(s) == {i \in DOMAIN data : data[i].server = s}

_selectServer(s) ==
  /\ OnTraffic /\ s \in ByServer
  /\ selectedServer' = IF selectedServer = s THEN UNSELECTED ELSE s
  /\ UNCHANGED <<chart, data, barVars>>

\* A window of either page is clicked, which leaves that page: its charts are
\* unmounted and its statistics unloaded.
onWindowClick(i) ==
  /\ OnTraffic /\ i \in Marks \cup UNION {LineOf(s) : s \in ByServer}
  /\ opened' = data[i]
  /\ chart' = [chart EXCEPT !.showEntropy = FALSE, !.selected = UNSELECTED]
  /\ data' = << >> /\ selectedServer' = UNSELECTED
  /\ hint' = NoHint
  /\ UNCHANGED asked

-----------------------------------------------------------------------------
(* TrafficDetail: one window, a bar per key (slice() up to the length or 20, *)
(* whichever is more, keeps them all)                                        *)

Bars(w) == {[x |-> w.histogram[k], y |-> k] : k \in Keys(w)}

_rememberValue(client) ==
  /\ ~OnTraffic /\ client \in {bar.y : bar \in Bars(opened)}
  /\ hint' = [hint EXCEPT !.value = client]
  /\ asked' = asked \cup {client}
  /\ UNCHANGED <<chart, data, selectedServer, opened>>

\* The answer is shown with whatever is pointed at by now, if the page is still
\* there; a failure is not handled.
ResolverInfo(client) ==
  /\ client \in asked
  /\ asked' = asked \ {client}
  /\ \/ ~OnTraffic /\ hint' = [hint EXCEPT !.ipInfo = client]
     \/ UNCHANGED hint
  /\ UNCHANGED <<chart, data, selectedServer, opened>>

goBack ==
  /\ ~OnTraffic
  /\ opened' = UNSELECTED /\ hint' = NoHint
  /\ UNCHANGED <<chart, data, selectedServer, asked>>

-----------------------------------------------------------------------------
ChartNext ==
  \/ _changeView
  \/ \E k \in AllKeys : _select(k)
  \/ \E w \in ChartWindow : Receive(w)
  \/ \E s \in Servers : _selectServer(s)
  \/ \E i \in DOMAIN data : onWindowClick(i)
  \/ ~OnTraffic /\ \E client \in Keys(opened) : _rememberValue(client)
  \/ \E client \in asked : ResolverInfo(client)
  \/ goBack

ChartSpec == ChartInit /\ [][ChartNext]_chartVars

-----------------------------------------------------------------------------
(* Properties *)

\* As long as nothing is selected the stacked response codes and query types
\* of a window add up to its queries, whichever codes and types came and went
\* in the windows around it.
StackCoversWindow ==
  (chart.kind \in {"rcode", "qtype"} /\ ~IsSelected) =>
    \A i \in DOMAIN data :
      SumFunctionOnSet([k \in Drawn |-> SeriesData(k)[i]], Drawn) = Total(data[i])
=============================================================================
