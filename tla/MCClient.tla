------------------------------ MODULE MCClient ------------------------------
(* The pages for TLC: two subjects with one and two anomalies, one of which *)
(* comes late, a whitelist of one rule, two windows of one server, pages of *)
(* one anomaly, and a few requests, which bound what the user does.         *)
EXTENDS Client

CONSTANTS resolver, domain, server, MaxRequests

MCEvent == {[subject |-> resolver, type |-> "Resolver", server |-> server, start |-> 1, end |-> 2],
            [subject |-> domain, type |-> "Domain", server |-> server, start |-> 2, end |-> 3],
            [subject |-> resolver, type |-> "Resolver", server |-> server, start |-> 3, end |-> 4]}
MCFilterOf == [type |-> {"Resolver"}, server |-> {}]
MCWindow == {[server |-> server, start |-> 1, end |-> 2], [server |-> server, start |-> 3, end |-> 4]}
MCSort == {<<"most_recent", "desc">>, <<"most_recent", "asc">>, <<"count", "desc">>}
MCTimeRange == {[from |-> 1, to |-> 4], [from |-> 3, to |-> 4]}
MCLast24h == [from |-> 1, to |-> 4]
MCSections == <<4, 3>>
MCRequests == 1..MaxRequests
MCUrls == StatsUrls \cup AnomalyUrls
MCReplies == {LOST}

Stored == {e \in Event : e.end < 4}
MCInit == Init /\ stored = Stored
MCSpec == MCInit /\ [][Next]_vars /\ Fairness
=============================================================================
