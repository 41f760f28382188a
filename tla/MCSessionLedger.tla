-------------------------- MODULE MCSessionLedger --------------------------
EXTENDS SessionLedger, TLC

CONSTANTS a1, a2

MCModes == {[permission |-> "workspace-write", approval |-> "ask"],
            [permission |-> "workspace-write", approval |-> "auto"]}

Symmetric == Permutations(Binding)

MCClassOf == (a1 :> "workspace-overwrite") @@ (a2 :> "network-read")
=============================================================================
