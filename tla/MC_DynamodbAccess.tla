------------------------- MODULE MC_DynamodbAccess -------------------------
(* Small instances of DynamodbAccess: two clients, and ads of two cities whose TIMESTAMP is
   updated; a scan looks for the ads of one city. *)
EXTENDS DynamodbAccess, TLC

CONSTANTS c1, c2, t1

MCClients == {c1, c2}
MCItems   == {[CITY |-> "houilles", FIRST_TIMESTAMP |-> 1], [CITY |-> "puteaux", FIRST_TIMESTAMP |-> 2]}
MCUpdates == {[TIMESTAMP |-> 3]}
MCFilters == {[CITY |-> "houilles"]}
ClientSymmetry == Permutations({c1, c2})

=============================================================================
