---------------------------- MODULE TaskRegistry ----------------------------
(***************************************************************************)
(* The SQLite task table of a team (agent_core/team/registry.rs).  Every   *)
(* method takes the one connection mutex, so each is one atomic action     *)
(* here; the callers may come in any order.  A row's status string is the  *)
(* pair status[t], holder[t]; "absent" is a row that does not exist.       *)
(* Titles, notes, specs and timestamps are left out: of a claim's age only *)
(* whether it exceeds the task's timeout matters (expired), and of the     *)
(* retry counter only its comparison with MaxRetries (it saturates there). *)
(***************************************************************************)
EXTENDS Naturals

CONSTANTS Task,        \* task identifiers
          Agent,       \* agent names
          NoAgent,     \* no agent recorded
          MaxRetries   \* the heartbeat's max_retries

ASSUME RegistryAssumption ==
    /\ NoAgent \notin Agent
    /\ MaxRetries \in Nat \ {0}

VARIABLES status,    \* status[t]: the status word of row t
          holder,    \* holder[t]: the agent named in the status string
          assignee,  \* assignee[t]: assignee_hint
          deps,      \* deps[t]: deps_json, any identifiers
          retry,     \* retry[t]: retry_count, saturating
          expired    \* claims older than their timeout_secs

registryVars == <<status, holder, assignee, deps, retry, expired>>

Status   == {"absent", "pending", "held", "claimed", "submitted", "accepted",
             "done", "failed"}
Owned    == {"held", "claimed", "submitted"}  \* the string names an agent
Finished == {"accepted", "done"}              \* what a dependency waits for
Terminal == Finished \cup {"failed"}          \* what ends a cycle

MaybeAgent == Agent \cup {NoAgent}

Rows == {t \in Task : status[t] # "absent"}

ClaimedBy(t, a) == status[t] = "claimed" /\ holder[t] = a

\* The rows a second create_task of the same identifier resets.
Recyclable == {"absent", "claimed", "accepted", "done"}

\* The statuses reassign_task accepts.
Assignable == {"pending", "held"}

FindReadyTasks ==
    {t \in Task : status[t] = "pending" /\ \A d \in deps[t] : status[d] \in Finished}

\* Faulty variant: a claim whose attempts are used up is not looked at again.
FindStaleUnspent == {t \in expired : status[t] = "claimed" /\ retry[t] < MaxRetries}

FindStaleClaimed == {t \in expired : status[t] = "claimed"}

AllDone == Rows # {} /\ \A t \in Rows : status[t] \in Finished

AllTerminal == Rows # {} /\ \A t \in Rows : status[t] \in Terminal

RegistryInit ==
    /\ status = [t \in Task |-> "absent"]
    /\ holder = [t \in Task |-> NoAgent]
    /\ assignee = [t \in Task |-> NoAgent]
    /\ deps = [t \in Task |-> {}]
    /\ retry = [t \in Task |-> 0]
    /\ expired = {}

\* Row t moves to status s, its string naming agent a.
MoveTo(t, s, a) ==
    /\ status' = [status EXCEPT ![t] = s]
    /\ holder' = [holder EXCEPT ![t] = a]
    /\ expired' = expired \ {t}

\* INSERT, or the reset of a recyclable row; any other row is left as it is.
CreateTask(t, a, D) ==
    /\ status[t] \in Recyclable
    /\ MoveTo(t, "pending", NoAgent)
    /\ assignee' = [assignee EXCEPT ![t] = a]
    /\ deps' = [deps EXCEPT ![t] = D]
    /\ retry' = [retry EXCEPT ![t] = 0]

\* Faulty variant: the attempt is not counted.
TryClaimUncounted(t, a) ==
    /\ status[t] = "pending"
    /\ MoveTo(t, "claimed", a)
    /\ UNCHANGED <<assignee, deps, retry>>

TryClaim(t, a) ==
    /\ status[t] = "pending"
    /\ MoveTo(t, "claimed", a)
    /\ retry' = [retry EXCEPT ![t] = IF @ < MaxRetries THEN @ + 1 ELSE @]
    /\ UNCHANGED <<assignee, deps>>

MarkDone(t, a) ==
    /\ ClaimedBy(t, a)
    /\ MoveTo(t, "done", NoAgent)
    /\ UNCHANGED <<assignee, deps, retry>>

\* Faulty variant: any agent may submit a claimed task.
SubmitTaskResultAnyone(t, a) ==
    /\ status[t] = "claimed"
    /\ MoveTo(t, "submitted", a)
    /\ UNCHANGED <<assignee, deps, retry>>

\* Faulty variant: a late result is taken after the claim was reset.
SubmitTaskResultLate(t, a) ==
    /\ status[t] = "pending" \/ ClaimedBy(t, a)
    /\ MoveTo(t, "submitted", a)
    /\ UNCHANGED <<assignee, deps, retry>>

SubmitTaskResult(t, a) ==
    /\ ClaimedBy(t, a)
    /\ MoveTo(t, "submitted", a)
    /\ UNCHANGED <<assignee, deps, retry>>

AcceptTask(t) ==
    /\ status[t] = "submitted"
    /\ MoveTo(t, "accepted", NoAgent)
    /\ UNCHANGED <<assignee, deps, retry>>

\* Faulty variant: every row that left the queue can be reopened.
ReopenTaskTerminal(t) ==
    /\ status[t] \in {"submitted"} \cup Terminal
    /\ MoveTo(t, "pending", NoAgent)
    /\ UNCHANGED <<assignee, deps, retry>>

ReopenTask(t) ==
    /\ status[t] \in {"submitted", "accepted", "done"}
    /\ MoveTo(t, "pending", NoAgent)
    /\ UNCHANGED <<assignee, deps, retry>>

ReassignTask(t, a) ==
    /\ status[t] \in Assignable
    /\ MoveTo(t, "pending", NoAgent)
    /\ assignee' = [assignee EXCEPT ![t] = a]
    /\ UNCHANGED <<deps, retry>>

HoldClaim(t, a) ==
    /\ ClaimedBy(t, a)
    /\ MoveTo(t, "held", a)
    /\ UNCHANGED <<assignee, deps, retry>>

\* Faulty variant: the reset also matches rows on hold.
ResetClaimHeld(t) ==
    /\ status[t] \in {"claimed", "held"}
    /\ MoveTo(t, "pending", NoAgent)
    /\ UNCHANGED <<assignee, deps, retry>>

ResetClaim(t) ==
    /\ status[t] = "claimed"
    /\ MoveTo(t, "pending", NoAgent)
    /\ UNCHANGED <<assignee, deps, retry>>

\* The UPDATE has no condition on the status.
MarkFailed(t) ==
    /\ status[t] # "absent"
    /\ MoveTo(t, "failed", NoAgent)
    /\ UNCHANGED <<assignee, deps, retry>>

ClearAllTasks ==
    /\ status' = [t \in Task |-> "absent"]
    /\ holder' = [t \in Task |-> NoAgent]
    /\ assignee' = [t \in Task |-> NoAgent]
    /\ deps' = [t \in Task |-> {}]
    /\ retry' = [t \in Task |-> 0]
    /\ expired' = {}

\* Time passes: the claim on t becomes older than the task's timeout.
Expire(t) ==
    /\ status[t] = "claimed"
    /\ t \notin expired
    /\ expired' = expired \cup {t}
    /\ UNCHANGED <<status, holder, assignee, deps, retry>>

RegistryNext ==
    \/ ClearAllTasks
    \/ \E t \in Task :
          \/ \E a \in MaybeAgent, D \in SUBSET Task : CreateTask(t, a, D)
          \/ \E a \in Agent : \/ TryClaim(t, a)
                              \/ MarkDone(t, a)
                              \/ SubmitTaskResult(t, a)
                              \/ ReassignTask(t, a)
                              \/ HoldClaim(t, a)
          \/ AcceptTask(t)
          \/ ReopenTask(t)
          \/ ResetClaim(t)
          \/ MarkFailed(t)
          \/ Expire(t)

RegistrySpec == RegistryInit /\ [][RegistryNext]_registryVars
-----------------------------------------------------------------------------
(* Properties *)

\* Every row has a known status, its string names an agent exactly when the
\* task is claimed, submitted or held, and only claims can be overdue.
RegistryTypeOK ==
    /\ status \in [Task -> Status]
    /\ holder \in [Task -> MaybeAgent]
    /\ assignee \in [Task -> MaybeAgent]
    /\ deps \in [Task -> SUBSET Task]
    /\ retry \in [Task -> 0..MaxRetries]
    /\ expired \subseteq {t \in Task : status[t] = "claimed"}
    /\ \A t \in Task : holder[t] # NoAgent <=> status[t] \in Owned

\* The retry budget sees every attempt: a row that is claimed, submitted,
\* held, accepted or done has been claimed at least once since it was last
\* (re)created, whatever resets, reopens and re-creations came in between
\* (try_claim counts, create_task is the only reset of the counter).
AttemptsAreCounted ==
    \A t \in Task : status[t] \in Owned \cup Finished => retry[t] > 0

\* A held task waits for the lead: it becomes pending again only by
\* reassign_task, never by a timeout reset, a reopen or a second create_task
\* (the comment on reassign_task).
HeldNeedsReassign ==
    [][\A t \in Task : status[t] = "held" /\ status'[t] = "pending"
                         => \E a \in Agent : ReassignTask(t, a)]_registryVars

\* A failed task is never brought back under its identifier: no operation
\* but wiping the table moves it, create_task and reassign_task included.
FailedIsFinal ==
    [][\A t \in Task : status[t] = "failed"
                         => status'[t] \in {"failed", "absent"}]_registryVars

\* The refinement mapping: who works on a task, where its result stands, and
\* who is credited with a result under review.
OwnerOf  == [t \in Task |-> IF status[t] = "claimed" THEN holder[t] ELSE NoAgent]
ResultOf == [t \in Task |-> IF status[t] = "submitted" THEN "review"
                            ELSE IF status[t] \in Finished THEN "final"
                            ELSE "none"]
CreditOf == [t \in Task |-> IF status[t] = "submitted" THEN holder[t] ELSE NoAgent]

Ownership == INSTANCE WorkOwnership
                 WITH owner <- OwnerOf, result <- ResultOf, credit <- CreditOf

\* The table implements the ownership promise: no claim is stolen, a result
\* is credited to the agent that held the claim, and nothing becomes final
\* that was neither reviewed nor closed by its worker.
OwnershipSpec == Ownership!Spec
=============================================================================
