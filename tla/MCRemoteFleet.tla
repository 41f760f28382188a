--------------------------- MODULE MCRemoteFleet ---------------------------
(* Small instances of RemoteFleet for TLC. *)
EXTENDS RemoteFleet, TLC

CONSTANTS w1, e1

Owners == [l \in Loop |-> w1]
OneTenant == [t \in Task |-> e1]
Quotas == [e \in Tenant |-> Cardinality(Task)]
Profiles == {[max |-> Cardinality(Loop), suits |-> Task]}
Symmetric == Permutations(Loop)
=============================================================================
