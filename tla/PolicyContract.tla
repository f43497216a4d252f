--------------------------- MODULE PolicyContract ---------------------------
(***************************************************************************)
(* What a policy promises its caller, whatever it caches: one request at a *)
(* time, every request ends, and the actions it answers with are the       *)
(* result of NumSteps evaluations of the velocity field, every one of them *)
(* on the observation of that very request.                                *)
(***************************************************************************)
EXTENDS Integers

CONSTANTS
    Requests,    \* observations a caller may send
    Oversized,   \* the requests that exceed the capacity of the policy
    NumSteps     \* evaluations an answer takes

VARIABLES
    st,          \* "idle", "busy", "dead"
    req,         \* the request in progress, or the last one
    evals,       \* evaluations made on req since it was accepted
    answer       \* how the last request ended: "none", "ok", "failed"

cvars == <<st, req, evals, answer>>

ContractInit == st = "idle" /\ req \in Requests /\ evals = 0 /\ answer = "none"

\* A caller sends a request.
Accept(r) ==
    /\ st = "idle"
    /\ st' = "busy" /\ req' = r /\ evals' = 0 /\ answer' = "none"

\* One evaluation of the velocity field on the request.
Evaluate ==
    /\ st = "busy" /\ evals < NumSteps
    /\ evals' = evals + 1
    /\ UNCHANGED <<st, req, answer>>

\* The request is answered with actions, or refused.
Answer ==
    /\ st = "busy" /\ evals = NumSteps
    /\ st' = "idle" /\ answer' = "ok"
    /\ UNCHANGED <<req, evals>>

Refuse ==
    /\ st = "busy"
    /\ st' = "idle" /\ answer' = "failed"
    /\ UNCHANGED <<req, evals>>

\* Only a request that exceeds the capacity may bring the policy down.
Die ==
    /\ st = "busy" /\ req \in Oversized
    /\ st' = "dead"
    /\ UNCHANGED <<req, evals, answer>>

Work == Evaluate \/ Answer \/ Die

ContractNext == (\E r \in Requests : Accept(r)) \/ Work \/ Refuse

ContractSafety == ContractInit /\ [][ContractNext]_cvars

\* A request is worked on until it ends; nothing is owed a refusal.
ContractSpec == ContractSafety /\ WF_cvars(Work)

=============================================================================
