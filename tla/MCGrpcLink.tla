----------------------------- MODULE MCGrpcLink -----------------------------
(* Instances of GrpcLink for TLC. *)
EXTENDS GrpcLink, TLC

MCDeclarations == {{"StateSync", "Simulation"}}
MCImplemented == {"StateSync", "Simulation", "ProposalControl"}
MCMethods == {"Handshake", "ExecuteBlock", "Commit", "Query",
               "Simulate", "AvailableSnapshots", "BuildProposal"}
MCLifecycleMethods == {"Handshake", "ExecuteBlock", "Commit"}
MCSymmetry == Permutations(Callers \ QueryHandlers)

=============================================================================
