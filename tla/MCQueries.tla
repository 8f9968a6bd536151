----------------------------- MODULE MCQueries -----------------------------
(* Queries for TLC, with pages of two rows: an anomaly (no LIMIT, three    *)
(* rows), a resolver query (LIMIT of two pages less one, four rows) and a  *)
(* saved query, whose object is submitted as it is.                        *)
EXTENDS Queries

CONSTANTS anomaly, resolver, saved

TotalOf == [q \in Query |-> IF q = anomaly THEN 3 ELSE 4]
LimitOf == [q \in Query |-> IF q = resolver THEN 3 ELSE NONE]
PaginatedOf == [q \in Query |-> q # saved]
Once == [q \in Query |-> 1]
=============================================================================
