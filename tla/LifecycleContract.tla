------------------------- MODULE LifecycleContract --------------------------
(***************************************************************************)
(* bapi.go, the call order that the Lifecycle interface promises to an     *)
(* application: one successful Handshake, then ExecuteBlock and Commit in  *)
(* strict alternation, where Commit persists the block that was executed,  *)
(* or fails and persists nothing.  This is what an application sees; how   *)
(* a transport serialises the engine's calls is left to Server.  That the  *)
(* heights are executed exactly once each is the engine's part of the      *)
(* promise, which the library does not enforce: a block may have any       *)
(* height here (GrpcLink's NoReexecution is about the heights).            *)
(***************************************************************************)
EXTENDS Naturals

CONSTANTS Heights

VARIABLES
    phase,      \* "boot" before the Handshake has succeeded, "idle", "executed"
    pending,    \* height executed and not yet committed, 0 for none
    committed   \* height of the persisted application state, 0 for genesis

contractVars == <<phase, pending, committed>>

Boot ==
    /\ phase = "boot"
    /\ phase' = "idle"
    /\ UNCHANGED <<pending, committed>>

ExecuteBlock(h) ==
    /\ phase = "idle"
    /\ phase' = "executed"
    /\ pending' = h
    /\ UNCHANGED committed

Commit ==
    /\ phase = "executed"
    /\ phase' = "idle"
    /\ pending' = 0
    /\ committed' \in {pending, committed}

(* State sync replaces the persisted state; it is not ordered with the rest. *)
ImportSnapshot(h) ==
    /\ committed' = h
    /\ UNCHANGED <<phase, pending>>

ContractInit == phase = "boot" /\ pending = 0 /\ committed = 0

ContractNext ==
    \/ Boot
    \/ Commit
    \/ \E h \in Heights : ExecuteBlock(h) \/ ImportSnapshot(h)

ContractSpec == ContractInit /\ [][ContractNext]_contractVars

=============================================================================
