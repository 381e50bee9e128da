-------------------------------- MODULE Policy --------------------------------
(***************************************************************************)
(* How the extension grades a request (policy.ts, service-worker.ts:511).  *)
(* A request is one action, or a batch: the actions of a batch and of the  *)
(* batches in it are listed in the order they run in, each with its path,  *)
(* the batches around it from the outside in.  The risk of a batch is the  *)
(* highest of its actions' at every level, so the highest in the list.     *)
(***************************************************************************)
EXTENDS Integers, Sequences

ReadOnly == {"read_page", "get_page_text", "find",
             "read_console_messages", "read_network_requests"}
Protected == {"javascript_tool", "upload_file", "download_file"}

\* validateControlledTargets asks no controlled tab of these
Untargeted == {"tabs_context", "tabs_create", "resize_window", "label_session"}

Risk == {"read_only", "routine", "protected", "critical"}
riskRank(risk) ==
    [read_only |-> 0, routine |-> 1, protected |-> 2, critical |-> 3][risk]

\* What the words that describe a target give away: CRITICAL_WORDS,
\* PROTECTED_WORDS, or neither
Words == {"plain", "protected", "critical"}

\* action.extra: createIfEmpty, includeResponseBody, or action = "click".
\* action.byRef: there is a pageRef, and describe[t] are the words of the element
\* it names in tab t, "plain" if it names none (the description is then empty).
\* The toPageRef of a drag is not looked at, here as in the code
classifyAction(action, describe) ==
    IF action.tool = "tabs_context" /\ ~action.extra THEN "read_only"
    ELSE IF action.tool = "label_session" THEN "routine"
    ELSE IF action.tool \in ReadOnly THEN
        IF action.tool = "read_network_requests" /\ action.extra THEN "protected" ELSE "read_only"
    ELSE IF action.tool \in Protected THEN "protected"
    ELSE IF action.byRef /\ describe[action.tab] # "plain" THEN describe[action.tab]
    ELSE IF action.tool = "computer" /\ action.extra /\ ~action.byRef THEN "protected"
    ELSE "routine"

Highest(risks) ==
    CHOOSE risk \in risks : \A other \in risks : riskRank(other) =< riskRank(risk)

\* mutant: the actions of a batch are graded without their targets' words
classifyRequestBlind(request, describe) ==
    LET words == IF request.batch THEN [t \in DOMAIN describe |-> "plain"] ELSE describe
    IN Highest({"read_only"} \cup {classifyAction(request.actions[k], words) :
                                     k \in DOMAIN request.actions})

classifyRequest(request, describe) ==
    Highest({"read_only"} \cup {classifyAction(request.actions[k], describe) :
                                  k \in DOMAIN request.actions})

\* mutant: only the batch itself refuses JavaScript, when it comes to it
validTargetsOnly(request, controlled) ==
    \A k \in DOMAIN request.actions : LET action == request.actions[k] IN
        action.tool \in Untargeted \/ action.tab \in controlled

\* validateControlledTargets: known before anything runs
validRequest(request, controlled) ==
    \A k \in DOMAIN request.actions : LET action == request.actions[k] IN
        /\ request.batch => action.tool # "javascript_tool"
        /\ action.tool \in Untargeted \/ action.tab \in controlled

\* authorize: a Critical Action is refused in a batch
authorized(request, controlled, describe) ==
    /\ validRequest(request, controlled)
    /\ request.batch => classifyRequest(request, describe) # "critical"
===============================================================================
