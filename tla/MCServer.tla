------------------------------ MODULE MCServer ------------------------------
(* Instances of Server for TLC. *)
EXTENDS Server, TLC

MCHeights == {1, 2}
MCDeclarations == {{}, {"MempoolObserver"}, {"Simulation", "StateSync"}, {"VoteExtensions"}}
MCTwoDeclarations == {{"StateSync", "MempoolObserver"}, {"VoteExtensions"}}
MCImplemented == {"ProposalControl", "StateSync", "Simulation", "MempoolObserver"}

SequentialMethods == {"Handshake", "ExecuteBlock", "Commit"}
StateMethods == SequentialMethods \cup {"Query", "ImportSnapshot"}
ProbedMethods == SequentialMethods \cup {"Query", "Simulate", "OnBatchCertified",
                   "ExtendVote", "VerifyExtension", "ImportSnapshot"}

Symmetry == Permutations(Callers)

=============================================================================
