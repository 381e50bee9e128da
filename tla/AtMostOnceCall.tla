--------------------------- MODULE AtMostOnceCall ---------------------------
(***************************************************************************)
(* What the transport promises an agent about each tool call, whatever     *)
(* fails on the way: the browser action runs at most once; "ok" is said    *)
(* only after it ran; "refused" is said only of a call that never runs,    *)
(* then or later; after "unknown" it may still run.  tools.rs:94-101 and   *)
(* ADR 0009 are where these words come from.                               *)
(***************************************************************************)
EXTENDS Naturals

CONSTANT Calls

VARIABLES
    outcome,   \* outcome[call]: none, pending, ok, error, unknown or refused
    effect     \* effect[call]: has the browser action run

vars == <<outcome, effect>>

Final == {"ok", "error", "unknown", "refused"}

Init ==
    /\ outcome = [call \in Calls |-> "none"]
    /\ effect = [call \in Calls |-> FALSE]

Issue(call) ==
    /\ outcome[call] = "none"
    /\ outcome' = [outcome EXCEPT ![call] = "pending"]
    /\ UNCHANGED effect

\* a late execution is possible only when the agent was told it may be
Execute(call) ==
    /\ outcome[call] \in {"pending", "unknown"}
    /\ ~effect[call]
    /\ effect' = [effect EXCEPT ![call] = TRUE]
    /\ UNCHANGED outcome

Return(call, o) ==
    /\ outcome[call] = "pending"
    /\ o = "ok" => effect[call]
    /\ o = "refused" => ~effect[call]
    /\ outcome' = [outcome EXCEPT ![call] = o]
    /\ UNCHANGED effect

\* the process of a session ends: all its pending calls end together
Abandon(S) ==
    /\ outcome' = [call \in Calls |->
                     IF call \in S /\ outcome[call] = "pending"
                       THEN "unknown" ELSE outcome[call]]
    /\ UNCHANGED effect

Next ==
    \/ \E call \in Calls :
         \/ Issue(call)
         \/ Execute(call)
         \/ \E o \in Final : Return(call, o)
    \/ \E S \in SUBSET Calls : Abandon(S)

Spec == Init /\ [][Next]_vars
=============================================================================
