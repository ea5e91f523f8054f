--------------------------- MODULE WorkOwnership ---------------------------
(***************************************************************************)
(* What the team task registry promises to its callers, without statuses,  *)
(* retries or dependencies: a task is worked on by at most one agent, a    *)
(* result is credited to the agent that was working when it was handed in, *)
(* and a result becomes final only by review or by its own worker.         *)
(***************************************************************************)
CONSTANTS Task, Agent, NoAgent

VARIABLES owner,   \* owner[t]: the agent working on t, or NoAgent
          result,  \* result[t]: "none", "review" or "final"
          credit   \* credit[t]: who handed in the result under review

vars == <<owner, result, credit>>

Init == /\ owner = [t \in Task |-> NoAgent]
        /\ result = [t \in Task |-> "none"]
        /\ credit = [t \in Task |-> NoAgent]

\* An agent takes a task nobody works on and nobody has finished.
Acquire(t, a) ==
    /\ owner[t] = NoAgent
    /\ result[t] = "none"
    /\ owner' = [owner EXCEPT ![t] = a]
    /\ UNCHANGED <<result, credit>>

\* The work stops without a result (timeout, block, hold, failure).
Release(t) ==
    /\ owner[t] # NoAgent
    /\ owner' = [owner EXCEPT ![t] = NoAgent]
    /\ UNCHANGED <<result, credit>>

\* The worker hands in its result; the credit is the worker's.
Deliver(t) ==
    /\ owner[t] # NoAgent
    /\ result' = [result EXCEPT ![t] = "review"]
    /\ credit' = [credit EXCEPT ![t] = owner[t]]
    /\ owner' = [owner EXCEPT ![t] = NoAgent]

\* The worker closes its own task without review.
Complete(t) ==
    /\ owner[t] # NoAgent
    /\ result' = [result EXCEPT ![t] = "final"]
    /\ owner' = [owner EXCEPT ![t] = NoAgent]
    /\ UNCHANGED credit

\* A result under review becomes final.
Approve(t) ==
    /\ result[t] = "review"
    /\ result' = [result EXCEPT ![t] = "final"]
    /\ credit' = [credit EXCEPT ![t] = NoAgent]
    /\ UNCHANGED owner

\* A result is withdrawn: reopened, re-created or declared failed.
Withdraw(t) ==
    /\ result[t] # "none"
    /\ result' = [result EXCEPT ![t] = "none"]
    /\ credit' = [credit EXCEPT ![t] = NoAgent]
    /\ UNCHANGED owner

\* The whole board is wiped.
Wipe == /\ owner' = [t \in Task |-> NoAgent]
        /\ result' = [t \in Task |-> "none"]
        /\ credit' = [t \in Task |-> NoAgent]

Next == \/ Wipe
        \/ \E t \in Task : \/ \E a \in Agent : Acquire(t, a)
                           \/ Release(t)
                           \/ Deliver(t)
                           \/ Complete(t)
                           \/ Approve(t)
                           \/ Withdraw(t)

Spec == Init /\ [][Next]_vars
=============================================================================
