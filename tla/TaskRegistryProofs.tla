------------------------- MODULE TaskRegistryProofs -------------------------
(***************************************************************************)
(* Theorems about the task table for every set of tasks and agents and     *)
(* every retry limit.                                                      *)
(***************************************************************************)
EXTENDS TaskRegistry, TLAPS

RegistryInv == RegistryTypeOK /\ AttemptsAreCounted

\* The table starts in a state that satisfies the invariant.
LEMMA RegistryInitInv == RegistryInit => RegistryInv
  BY RegistryAssumption
  DEF RegistryInit, RegistryInv, RegistryTypeOK, AttemptsAreCounted, Status,
      MaybeAgent, Owned, Finished

\* Every operation of the registry preserves the invariant.
LEMMA RegistryStepInv == RegistryInv /\ [RegistryNext]_registryVars => RegistryInv'
<1> SUFFICES ASSUME RegistryInv, [RegistryNext]_registryVars
             PROVE  RegistryInv'
  OBVIOUS
<1> USE RegistryAssumption
    DEF RegistryInv, RegistryTypeOK, AttemptsAreCounted, Status, MaybeAgent,
        Owned, Finished
<1>1. CASE ClearAllTasks
  BY <1>1 DEF ClearAllTasks
<1>2. ASSUME NEW t \in Task, NEW a \in MaybeAgent, NEW D \in SUBSET Task,
             CreateTask(t, a, D)
      PROVE  RegistryInv'
  BY <1>2 DEF CreateTask, Recyclable, MoveTo
<1>3. ASSUME NEW t \in Task, NEW a \in Agent, TryClaim(t, a)
      PROVE  RegistryInv'
  BY <1>3 DEF TryClaim, MoveTo
<1>4. ASSUME NEW t \in Task, NEW a \in Agent, MarkDone(t, a)
      PROVE  RegistryInv'
  BY <1>4 DEF MarkDone, ClaimedBy, MoveTo
<1>5. ASSUME NEW t \in Task, NEW a \in Agent, SubmitTaskResult(t, a)
      PROVE  RegistryInv'
  BY <1>5 DEF SubmitTaskResult, ClaimedBy, MoveTo
<1>6. ASSUME NEW t \in Task, NEW a \in Agent, ReassignTask(t, a)
      PROVE  RegistryInv'
  BY <1>6 DEF ReassignTask, Assignable, MoveTo
<1>7. ASSUME NEW t \in Task, NEW a \in Agent, HoldClaim(t, a)
      PROVE  RegistryInv'
  BY <1>7 DEF HoldClaim, ClaimedBy, MoveTo
<1>8. ASSUME NEW t \in Task, AcceptTask(t)
      PROVE  RegistryInv'
  BY <1>8 DEF AcceptTask, MoveTo
<1>9. ASSUME NEW t \in Task, ReopenTask(t)
      PROVE  RegistryInv'
  BY <1>9 DEF ReopenTask, MoveTo
<1>10. ASSUME NEW t \in Task, ResetClaim(t)
       PROVE  RegistryInv'
  BY <1>10 DEF ResetClaim, MoveTo
<1>11. ASSUME NEW t \in Task, MarkFailed(t)
       PROVE  RegistryInv'
  BY <1>11 DEF MarkFailed, MoveTo
<1>12. ASSUME NEW t \in Task, Expire(t)
       PROVE  RegistryInv'
  BY <1>12 DEF Expire
<1>13. CASE UNCHANGED registryVars
  BY <1>13 DEF registryVars
<1>14. QED
  BY <1>1, <1>2, <1>3, <1>4, <1>5, <1>6, <1>7, <1>8, <1>9, <1>10, <1>11,
     <1>12, <1>13 DEF RegistryNext

\* Rows keep their shape and every attempt stays counted, whatever the
\* callers do.
THEOREM RegistryInvariance == RegistrySpec => [](RegistryTypeOK /\ AttemptsAreCounted)
<1>1. RegistryInit => RegistryInv
  BY RegistryInitInv
<1>2. RegistryInv /\ [RegistryNext]_registryVars => RegistryInv'
  BY RegistryStepInv
<1>3. QED
  BY <1>1, <1>2, PTL DEF RegistrySpec, RegistryInv

\* In particular a row names a holder exactly while somebody is owed or credited
\* for it, and is claimed at most MaxRetries times.
THEOREM RegistryTypes == RegistrySpec => []RegistryTypeOK
  BY RegistryInvariance, PTL
-----------------------------------------------------------------------------
\* Only reassign_task takes a task off hold, for every number of tasks and
\* agents: the lead's decision cannot be bypassed by a timeout or a second
\* create_task.
THEOREM HeldTasksNeedReassign == RegistrySpec => HeldNeedsReassign
<1>1. RegistryInv /\ [RegistryNext]_registryVars =>
        [\A t \in Task : status[t] = "held" /\ status'[t] = "pending"
                         => \E a \in Agent : ReassignTask(t, a)]_registryVars
  <2> SUFFICES ASSUME RegistryInv, RegistryNext, NEW u \in Task,
                      status[u] = "held", status'[u] = "pending"
               PROVE  \E a \in Agent : ReassignTask(u, a)
    OBVIOUS
  <2> USE DEF RegistryInv, RegistryTypeOK
  <2>1. CASE ClearAllTasks
    BY <2>1 DEF ClearAllTasks
  <2>2. ASSUME NEW t \in Task, NEW a \in Agent, ReassignTask(t, a)
        PROVE  \E b \in Agent : ReassignTask(u, b)
    <3>1. t = u
      BY <2>2 DEF ReassignTask, MoveTo
    <3>2. QED
      BY <2>2, <3>1
  <2>3. ASSUME NEW t \in Task, NEW a \in MaybeAgent, NEW D \in SUBSET Task,
               CreateTask(t, a, D)
        PROVE  FALSE
    BY <2>3 DEF CreateTask, Recyclable, MoveTo
  <2>4. ASSUME NEW t \in Task, NEW a \in Agent,
               \/ TryClaim(t, a)
               \/ MarkDone(t, a)
               \/ SubmitTaskResult(t, a)
               \/ HoldClaim(t, a)
        PROVE  FALSE
    BY <2>4 DEF TryClaim, MarkDone, SubmitTaskResult, HoldClaim, ClaimedBy, MoveTo
  <2>5. ASSUME NEW t \in Task,
               \/ AcceptTask(t)
               \/ ReopenTask(t)
               \/ ResetClaim(t)
               \/ MarkFailed(t)
               \/ Expire(t)
        PROVE  FALSE
    BY <2>5 DEF AcceptTask, ReopenTask, ResetClaim, MarkFailed, Expire, MoveTo
  <2>6. QED
    BY <2>1, <2>2, <2>3, <2>4, <2>5 DEF RegistryNext
<1>2. QED
  BY <1>1, RegistryInvariance, PTL DEF RegistrySpec, HeldNeedsReassign, RegistryInv

\* A failed identifier stays failed until the table is wiped.
THEOREM FailedTasksStayFailed == RegistrySpec => FailedIsFinal
<1>1. RegistryInv /\ [RegistryNext]_registryVars =>
        [\A t \in Task : status[t] = "failed"
                         => status'[t] \in {"failed", "absent"}]_registryVars
  <2> SUFFICES ASSUME RegistryInv, RegistryNext, NEW u \in Task, status[u] = "failed"
               PROVE  status'[u] \in {"failed", "absent"}
    OBVIOUS
  <2> QED
    BY DEF RegistryInv, RegistryTypeOK, RegistryNext, ClearAllTasks, CreateTask,
           Recyclable, TryClaim, MarkDone, SubmitTaskResult, AcceptTask, ReopenTask,
           ReassignTask, Assignable, HoldClaim, ResetClaim, MarkFailed, Expire,
           ClaimedBy, MoveTo
<1>2. QED
  BY <1>1, RegistryInvariance, PTL DEF RegistrySpec, FailedIsFinal, RegistryInv
-----------------------------------------------------------------------------
(* The table implements the ownership promise. *)


\* An operation that leaves the rows' statuses and holders alone is invisible.
LEMMA InvisibleStep ==
  UNCHANGED <<status, holder>> => UNCHANGED Ownership!vars
  BY DEF Ownership!vars, OwnerOf, ResultOf, CreditOf

\* Every operation is an abstract ownership step or invisible.
LEMMA RegistryStepOwnership ==
  RegistryInv /\ [RegistryNext]_registryVars => [Ownership!Next]_(Ownership!vars)
<1> SUFFICES ASSUME RegistryInv, RegistryNext
             PROVE  [Ownership!Next]_(Ownership!vars)
  BY InvisibleStep DEF registryVars
<1> USE RegistryAssumption
    DEF RegistryInv, RegistryTypeOK, Status, MaybeAgent, Owned, Finished,
        OwnerOf, ResultOf, CreditOf, MoveTo, Ownership!vars
<1>1. CASE ClearAllTasks
  <2>1. Ownership!Wipe
    BY <1>1 DEF ClearAllTasks, Ownership!Wipe
  <2>2. QED
    BY <2>1 DEF Ownership!Next
<1>2. ASSUME NEW t \in Task, NEW a \in MaybeAgent, NEW D \in SUBSET Task,
             CreateTask(t, a, D)
      PROVE  [Ownership!Next]_(Ownership!vars)
  <2>1. CASE status[t] = "absent"
    BY <1>2, <2>1 DEF CreateTask
  <2>2. CASE status[t] = "claimed"
    <3>1. Ownership!Release(t)
      BY <1>2, <2>2 DEF CreateTask, Ownership!Release
    <3>2. QED
      BY <3>1 DEF Ownership!Next
  <2>3. CASE status[t] \in {"accepted", "done"}
    <3>1. Ownership!Withdraw(t)
      BY <1>2, <2>3 DEF CreateTask, Ownership!Withdraw
    <3>2. QED
      BY <3>1 DEF Ownership!Next
  <2>4. QED
    BY <1>2, <2>1, <2>2, <2>3 DEF CreateTask, Recyclable
<1>3. ASSUME NEW t \in Task, NEW a \in Agent, TryClaim(t, a)
      PROVE  [Ownership!Next]_(Ownership!vars)
  <2>1. Ownership!Acquire(t, a)
    BY <1>3 DEF TryClaim, Ownership!Acquire
  <2>2. QED
    BY <2>1 DEF Ownership!Next
<1>4. ASSUME NEW t \in Task, NEW a \in Agent, MarkDone(t, a)
      PROVE  [Ownership!Next]_(Ownership!vars)
  <2>1. Ownership!Complete(t)
    BY <1>4 DEF MarkDone, ClaimedBy, Ownership!Complete
  <2>2. QED
    BY <2>1 DEF Ownership!Next
<1>5. ASSUME NEW t \in Task, NEW a \in Agent, SubmitTaskResult(t, a)
      PROVE  [Ownership!Next]_(Ownership!vars)
  <2>1. Ownership!Deliver(t)
    BY <1>5 DEF SubmitTaskResult, ClaimedBy, Ownership!Deliver
  <2>2. QED
    BY <2>1 DEF Ownership!Next
<1>6. ASSUME NEW t \in Task, NEW a \in Agent, ReassignTask(t, a)
      PROVE  [Ownership!Next]_(Ownership!vars)
  BY <1>6 DEF ReassignTask, Assignable
<1>7. ASSUME NEW t \in Task, NEW a \in Agent, HoldClaim(t, a)
      PROVE  [Ownership!Next]_(Ownership!vars)
  <2>1. Ownership!Release(t)
    BY <1>7 DEF HoldClaim, ClaimedBy, Ownership!Release
  <2>2. QED
    BY <2>1 DEF Ownership!Next
<1>8. ASSUME NEW t \in Task, AcceptTask(t)
      PROVE  [Ownership!Next]_(Ownership!vars)
  <2>1. Ownership!Approve(t)
    BY <1>8 DEF AcceptTask, Ownership!Approve
  <2>2. QED
    BY <2>1 DEF Ownership!Next
<1>9. ASSUME NEW t \in Task, ReopenTask(t)
      PROVE  [Ownership!Next]_(Ownership!vars)
  <2>1. Ownership!Withdraw(t)
    BY <1>9 DEF ReopenTask, Ownership!Withdraw
  <2>2. QED
    BY <2>1 DEF Ownership!Next
<1>10. ASSUME NEW t \in Task, ResetClaim(t)
       PROVE  [Ownership!Next]_(Ownership!vars)
  <2>1. Ownership!Release(t)
    BY <1>10 DEF ResetClaim, Ownership!Release
  <2>2. QED
    BY <2>1 DEF Ownership!Next
<1>11. ASSUME NEW t \in Task, MarkFailed(t)
       PROVE  [Ownership!Next]_(Ownership!vars)
  <2>1. CASE status[t] = "claimed"
    <3>1. Ownership!Release(t)
      BY <1>11, <2>1 DEF MarkFailed, Ownership!Release
    <3>2. QED
      BY <3>1 DEF Ownership!Next
  <2>2. CASE status[t] \in {"submitted", "accepted", "done"}
    <3>1. Ownership!Withdraw(t)
      BY <1>11, <2>2 DEF MarkFailed, Ownership!Withdraw
    <3>2. QED
      BY <3>1 DEF Ownership!Next
  <2>3. CASE status[t] \in {"pending", "held", "failed"}
    BY <1>11, <2>3 DEF MarkFailed
  <2>4. QED
    BY <1>11, <2>1, <2>2, <2>3 DEF MarkFailed
<1>12. ASSUME NEW t \in Task, Expire(t)
       PROVE  [Ownership!Next]_(Ownership!vars)
  BY <1>12 DEF Expire
<1>13. QED
  BY <1>1, <1>2, <1>3, <1>4, <1>5, <1>6, <1>7, <1>8, <1>9, <1>10, <1>11,
     <1>12 DEF RegistryNext

\* For every set of tasks and agents the task table implements exclusive,
\* credited ownership of work.
THEOREM RegistryImplementsOwnership == RegistrySpec => OwnershipSpec
<1>1. RegistryInit => Ownership!Init
  BY DEF RegistryInit, Ownership!Init, OwnerOf, ResultOf, CreditOf, Finished
<1>2. RegistryInv /\ [RegistryNext]_registryVars => [Ownership!Next]_(Ownership!vars)
  BY RegistryStepOwnership
<1>3. RegistrySpec => []RegistryInv
  BY RegistryInvariance DEF RegistryInv
<1>4. QED
  BY <1>1, <1>2, <1>3, PTL DEF RegistrySpec, OwnershipSpec, Ownership!Spec
=============================================================================
