--------------------------- MODULE MC_AdLifecycle ---------------------------
(* Small instances of AdLifecycle: one ad of each of two sites, or of one. *)
EXTENDS AdLifecycle

CONSTANTS s1, s2

OneSite  == [id \in Ads |-> s1]
TwoSites == [id \in Ads |-> IF id = 1 THEN s1 ELSE s2]

=============================================================================
