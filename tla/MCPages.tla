------------------------------- MODULE MCPages -------------------------------
(* The parts of the client that share no state, for TLC: in a behaviour one *)
(* of them acts and the others stay in their initial state, so that the     *)
(* states are the sum of theirs and not the product.                        *)
EXTENDS Session, Menu, Settings, SavedQueries, QueryForms, Charts, DataScene, AnomalyDetails

CONSTANTS resolver, resolver2, domain, r1, r2, s1, s2, n1, n2, c1, c2, rule

VARIABLE part

\* Two days at the end of a year and the first of the next.
MCCalendar == <<[year |-> 1, month |-> 12, day |-> 30], [year |-> 1, month |-> 12, day |-> 31],
                [year |-> 2, month |-> 1, day |-> 1]>>

\* The response codes 0, 1 and 5 come and go.
Histogram(codes) == [k \in codes |-> (k % 4) + 1]
MCWindow == {[server |-> s1, histogram |-> Histogram({0, 1, 5}), anomaly |-> TRUE],
             [server |-> s2, histogram |-> Histogram({1, 5}), anomaly |-> FALSE],
             [server |-> s1, histogram |-> [k \in {0} |-> 4], anomaly |-> FALSE]}

\* Three rows of two servers, networks and countries.
RowOf(t, s, c, n, name) ==
  [unixtime |-> t, qtype |-> name, server |-> s, country |-> c, continent |-> c, asn |-> n,
   src |-> name, domainname |-> name, prot |-> t]
MCAttr == <<RowOf(1, s1, c1, n1, 1), RowOf(1, s2, c2, n1, 1), RowOf(2, s1, c2, n2, 2)>>
MCRow == DOMAIN MCAttr
MCGroupKeys == <<"continent", "src">>

MCDetailEvent == {[subject |-> resolver, server |-> s1, day |-> 1],
                  [subject |-> resolver, server |-> s2, day |-> 2],
                  [subject |-> resolver2, server |-> s1, day |-> 1],
                  [subject |-> domain, server |-> s2, day |-> 2]}

MCUrls == {SettingsUrl}
MCReplies == {{}, {rule}}

Parts == {"session", "menu", "settings", "saved", "forms", "charts", "data", "details"}

partsVars == <<sessionVars, menuVars, watcherVars, settingsVars, savedVars, formVars,
               chartVars, dataVars, detailVars, part>>

MCInit ==
  /\ SessionInit /\ MenuInit /\ SettingsInit /\ SavedInit /\ FormInit
  /\ ChartInit /\ DataInit /\ DetailInit
  /\ part \in Parts
  /\ part # "charts" => chart.kind = "client"
  /\ part # "settings" => whitelist = {}
  /\ part # "saved" => stored = << >>

Others(p) ==
  /\ part = p /\ UNCHANGED part
  /\ p # "session"  => UNCHANGED sessionVars
  /\ p # "menu"     => UNCHANGED menuVars
  /\ p # "settings" => UNCHANGED <<watcherVars, settingsVars>>
  /\ p # "saved"    => UNCHANGED savedVars
  /\ p # "forms"    => UNCHANGED formVars
  /\ p # "charts"   => UNCHANGED chartVars
  /\ p # "data"     => UNCHANGED dataVars
  /\ p # "details"  => UNCHANGED detailVars

MCNext ==
  \/ Others("session") /\ SessionNext
  \/ Others("menu") /\ MenuNext
  \/ Others("settings") /\ SettingsNext
  \/ Others("saved") /\ SavedNext
  \/ Others("forms") /\ FormNext
  \/ Others("charts") /\ ChartNext
  \/ Others("data") /\ DataNext
  \/ Others("details") /\ DetailNext

MCSpec == MCInit /\ [][MCNext]_partsVars /\ SessionFairness
=============================================================================
