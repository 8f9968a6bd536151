------------------------------- MODULE DataScene -------------------------------
(***************************************************************************)
(* The page that explores the rows of a query (scenes/Data).  Pages of     *)
(* rows arrive while it is open (see Queries); every chart shows the rows  *)
(* that match the filters, and a click on a chart adds or removes a        *)
(* filter.  Some charts keep what they computed from earlier rows.         *)
(***************************************************************************)
EXTENDS FiniteSets, Functions

CONSTANTS Row,       \* rows the query has
          Attr,      \* Attr[row][key]
          GroupKeys, \* keys that the server chart nests by
          MeterKeys, \* header fields with a meter: prot, opcode, rcode...
          Countries, \* countries on the map
          UNDEFINED

VARIABLES result,    \* rows that have arrived
          enriched,  \* rows with a countryName and a continent
          filters,   \* of the query's entry in the store
          dataOpen, filterLayer, \* the page is mounted; its layer is shown
          selectedAsn, \* of QuerySourceChart
          tree,      \* ServerChart: the rows that its sunburst was built from
          activeServer, \* ServerChart: the server under the mouse
          dots,      \* QNameChart: names drawn, and the counts they are drawn at
          dataBroken \* render() has thrown

dataVars == <<result, enriched, filters, dataOpen, filterLayer, selectedAsn, tree,
              activeServer, dots, dataBroken>>

DataInit ==
  /\ result = {} /\ enriched = {} /\ filters = << >>
  /\ dataOpen = FALSE /\ filterLayer = FALSE
  /\ selectedAsn = UNDEFINED
  /\ tree = {} /\ activeServer = UNDEFINED
  /\ dots = << >>
  /\ dataBroken = FALSE

ValueOf(r, key) ==
  IF key = "continent" /\ r \notin enriched THEN UNDEFINED ELSE Attr[r][key]

filterData(rows, fs) == {r \in rows : \A key \in DOMAIN fs : ValueOf(r, key) = fs[key]}

-----------------------------------------------------------------------------
(* The charts, over the rows they are given *)

\* d3.nest().key().rollup(): the rows of each value, and how many they are.
\* QueryTypeChart, MeterChart and QuerySourceChart draw such counts.
CountBy(rows, key) ==
  [v \in {ValueOf(r, key) : r \in rows} |-> Cardinality({r \in rows : ValueOf(r, key) = v})]

\* QuerySourceChart: the networks, or the addresses of the one selected.
transformData(rows) ==
  IF selectedAsn = UNDEFINED THEN CountBy(rows, "asn")
  ELSE CountBy({r \in rows : ValueOf(r, "asn") = selectedAsn}, "src")

\* ServerChart: genHierarchy() groups by each key in turn; an arc is a value of
\* a key below the values of the keys before it.
genHierarchy(rows) ==
  {[depth |-> d, path |-> [e \in 1..d |-> ValueOf(r, GroupKeys[e])]] :
      r \in rows, d \in DOMAIN GroupKeys}

serversOf(rows) == {Attr[r].server : r \in rows}

\* A line from each row of the sunburst to its server, which has to be among
\* the servers of the rows given now.
LinesThrow(rows, built, active) ==
  \E r \in built : Attr[r].server \notin serversOf(rows) /\ active \in {UNDEFINED, Attr[r].server}

\* QNameChart: update() adds and removes dots, and leaves the others where they
\* are drawn.
updateDots(rows) ==
  LET counts == CountBy(rows, "domainname")
  IN  [d \in DOMAIN counts |-> IF d \in DOMAIN dots THEN dots[d] ELSE counts[d]]

-----------------------------------------------------------------------------
(* Rendering.  The charts are mounted with the first rows.                   *)

shown == filterData(result, filters)

\* What render() does with these rows: ServerChart keeps its sunburst, and the
\* page breaks when a line of it has no end.
Rerender(rows) ==
  /\ dots' = updateDots(rows)
  /\ dataBroken' = LinesThrow(rows, tree, activeServer)
  /\ UNCHANGED tree

Mount(rows) ==
  /\ dots' = CountBy(rows, "domainname")
  /\ tree' = rows
  /\ UNCHANGED dataBroken

hasRows == dataOpen /\ result # {}

\* Faulty variant: a page replaces the one before it.
PageReplaces(page) ==
  /\ page # {} /\ page \cap result = {}
  /\ result' = page
  /\ IF ~dataOpen THEN UNCHANGED <<tree, dots, dataBroken>>
     ELSE IF result = {} THEN Mount(filterData(page, filters))
     ELSE Rerender(filterData(page, filters))
  /\ UNCHANGED <<enriched, filters, dataOpen, filterLayer, selectedAsn, activeServer>>

\* Rows arrive: Queries appends them to the result.
PageArrives(page) ==
  /\ page # {} /\ page \cap result = {}
  /\ result' = result \cup page
  /\ LET rows == filterData(result', filters)
     IN  IF ~dataOpen THEN UNCHANGED <<tree, dots, dataBroken>>
         ELSE IF result = {} THEN Mount(rows)
         ELSE Rerender(rows)
  /\ UNCHANGED <<enriched, filters, dataOpen, filterLayer, selectedAsn, activeServer>>

\* The constructor, which alone enriches rows; the filters are in the store.
OpenData ==
  /\ ~dataOpen
  /\ dataOpen' = TRUE
  /\ enriched' = enriched \cup result
  /\ tree' = {r \in result : \A key \in DOMAIN filters : Attr[r][key] = filters[key]}
  /\ dots' = [d \in {Attr[r].domainname : r \in tree'} |->
                Cardinality({r \in tree' : Attr[r].domainname = d})]
  /\ UNCHANGED <<result, filters, filterLayer, selectedAsn, activeServer, dataBroken>>

LeaveData ==
  /\ dataOpen
  /\ dataOpen' = FALSE /\ filterLayer' = FALSE
  /\ selectedAsn' = UNDEFINED /\ activeServer' = UNDEFINED
  /\ tree' = {} /\ dots' = << >>
  /\ UNCHANGED <<result, enriched, filters, dataBroken>>

-----------------------------------------------------------------------------
(* Filters *)

Without(fs, key) == Restrict(fs, DOMAIN fs \ {key})
With(fs, key, value) ==
  [k \in DOMAIN fs \cup {key} |-> IF k = key THEN value ELSE fs[k]]

toggled(key, value) ==
  IF key \in DOMAIN filters /\ filters[key] = value
    THEN Without(filters, key) ELSE With(filters, key, value)

\* addFilter and deleteFilter: the charts are given other rows.
SetFilters(fs) == filters' = fs /\ Rerender(filterData(result, fs))

\* A click on a value: of a legend, a meter, a dot or a server.
toggleFilter(key, value) ==
  /\ hasRows
  /\ SetFilters(toggled(key, value))
  /\ UNCHANGED <<result, enriched, dataOpen, filterLayer, selectedAsn, activeServer>>

\* The first click selects the network, and filters by it; the second one
\* toggles that filter, whatever has become of it, and selects nothing.
onLeafClick(leaf) ==
  /\ hasRows
  /\ LET asn == IF selectedAsn = UNDEFINED THEN leaf ELSE selectedAsn
     IN  SetFilters(toggled("asn", asn))
  /\ selectedAsn' = IF selectedAsn = UNDEFINED THEN leaf ELSE UNDEFINED
  /\ UNCHANGED <<result, enriched, dataOpen, filterLayer, activeServer>>

\* DataFilter lists the filters and deletes one.
_delFilter(key) ==
  /\ hasRows /\ filterLayer /\ key \in DOMAIN filters
  /\ SetFilters(Without(filters, key))
  /\ UNCHANGED <<result, enriched, dataOpen, filterLayer, selectedAsn, activeServer>>

_onfilterLayer ==
  /\ hasRows
  /\ filterLayer' = ~filterLayer
  /\ UNCHANGED <<result, enriched, filters, dataOpen, selectedAsn, tree, activeServer,
                 dots, dataBroken>>

\* The mouse enters or leaves an arc or a server: the sunburst is built again.
MouseMoves(server) ==
  /\ hasRows
  /\ activeServer' = server
  /\ tree' = shown
  /\ UNCHANGED <<result, enriched, filters, dataOpen, filterLayer, selectedAsn, dots,
                 dataBroken>>

-----------------------------------------------------------------------------
(* What can be clicked, as pairs of a key and a value *)

QtypeClicks == {<<"qtype", q>> : q \in DOMAIN CountBy(shown, "qtype")}
MeterClicks == UNION {{<<key, v>> : v \in DOMAIN CountBy(shown, key)} : key \in MeterKeys}
NameClicks == {<<"domainname", d>> : d \in DOMAIN dots}
ArcClicks == {<<GroupKeys[arc.depth], arc.path[arc.depth]>> : arc \in genHierarchy(tree)}

\* Every country of the map, also one without rows.
MapClicks == {<<"country", country>> : country \in Countries}

Clicked == QtypeClicks \cup MeterClicks \cup NameClicks \cup ArcClicks \cup MapClicks

\* The mouse is at one place: not on a server while it clicks on another chart.
DataNext ==
  ~dataBroken /\
  ( \/ \E page \in SUBSET Row : PageArrives(page)
    \/ OpenData \/ LeaveData
    \/ activeServer = UNDEFINED /\ \E c \in Clicked : toggleFilter(c[1], c[2])
    \/ activeServer # UNDEFINED /\ toggleFilter("server", activeServer)
    \/ activeServer = UNDEFINED /\ \E leaf \in DOMAIN transformData(shown) : onLeafClick(leaf)
    \/ activeServer = UNDEFINED /\ \E key \in DOMAIN filters : _delFilter(key)
    \/ _onfilterLayer
    \/ \E server \in {UNDEFINED} \cup serversOf(shown) : MouseMoves(server) )

DataSpec == DataInit /\ [][DataNext]_dataVars

-----------------------------------------------------------------------------
(* Properties *)

\* Rows that arrive, in whatever pages, never break the page, although the
\* sunburst still shows the rows it was built from: only a filter set since
\* can take away the server of a line.
PagesNeverBreak == [][~dataBroken /\ dataBroken' => filters' # filters]_dataVars
=============================================================================
