----------------------- MODULE TeamOrchestratorProofs -----------------------
(***************************************************************************)
(* Theorems about the team for any number of tasks, agents, concurrent     *)
(* lead-side calls, heartbeats, dispatches and permits.                    *)
(***************************************************************************)
EXTENDS TeamOrchestrator, TaskRegistryProofs

\* Rows of a heartbeat's snapshot.
LEMMA WorkIsTyped ==
  ASSUME TeamTypeOK, NEW h \in HB, NEW w \in hb[h].work
  PROVE  /\ w.task \in Task
         /\ hb[h].phase = "ready" => w.agent \in Agent
         /\ w.needs \subseteq Task
<1>1. hb[h].work \in SUBSET Work
  BY DEF TeamTypeOK, Heartbeat
<1>2. w \in Work
  BY <1>1
<1>3. QED
  BY <1>2 DEF TeamTypeOK, Work, MaybeAgent

\* A live dispatch.
LEMMA DispatchIsTyped ==
  ASSUME TeamTypeOK, NEW s \in Slot, Live(s)
  PROVE  disp[s] \in Dispatch /\ disp[s].task \in Task /\ disp[s].agent \in Agent
<1>1. disp[s] \in Dispatch
  BY DEF TeamTypeOK, Live
<1>2. QED
  BY <1>1 DEF Dispatch

\* Whatever the team does to the table, it does by one registry operation.
LEMMA TeamStepIsRegistryStep ==
  TeamTypeOK /\ [TeamNext]_vars => [RegistryNext]_registryVars
<1> SUFFICES ASSUME TeamTypeOK, TeamNext, ~UNCHANGED registryVars
             PROVE  RegistryNext
  BY DEF vars
<1> USE TeamAssumption DEF registryVars
<1>1. ASSUME NEW c \in Caller, NEW t \in Task, NEW a \in MaybeAgent, NEW D \in DepChoices,
             RegisterCreate(c, t, a, D)
      PROVE  RegistryNext
  BY <1>1 DEF RegisterCreate, RegistryNext
<1>2. ASSUME NEW c \in Caller,
             \/ RegisterBegin(c)
             \/ ArchiveWipe(c)
             \/ ArchiveReset(c)
             \/ RegisterCheck(c)
             \/ ActivateCheck(c)
             \/ \E h \in HB : ActivateSpawn(c, h)
             \/ ActivateFinish(c)
             \/ UserAnswers(c)
             \/ UserDeclines(c)
             \/ \E t \in Task : AcceptSubmittedTask(c, t)
             \/ AcceptCheck(c)
             \/ AcceptFinish(c)
             \/ ClearAbort(c)
             \/ ClearWipe(c)
             \/ ClearReset(c)
      PROVE  RegistryNext
  BY <1>2 DEF RegisterBegin, ArchiveWipe, ArchiveReset, RegisterCheck, ActivateCheck,
              ActivateSpawn, ActivateFinish, UserAnswers, UserDeclines,
              AcceptSubmittedTask, AcceptCheck, AcceptFinish, ClearAbort, ClearWipe,
              ClearReset, RegistryNext
<1>3. CASE \/ RequestConfirmation
           \/ HumanTurnAfterDone
           \/ \E t \in Task : ReopenSubmittedTask(t)
           \/ \E t \in Task, a \in Agent : AssignTask(t, a)
           \/ Crash
           \/ \E t \in Task : Timeout(t)
  BY <1>3 DEF RequestConfirmation, HumanTurnAfterDone, ReopenSubmittedTask, AssignTask,
              Crash, Timeout, RegistryNext
<1>4. CASE \E h \in HB : ScanStale(h) \/ ScanReady(h) \/ Sleep(h) \/ Stop(h)
  BY <1>4 DEF ScanStale, ScanReady, Sleep, Stop
<1>5. ASSUME NEW h \in HB, NEW w \in hb[h].work,
             HandleStale(h, w) \/ SkipReady(h, w) \/ DispatchReady(h, w)
      PROVE  RegistryNext
  <2>1. w.task \in Task /\ (hb[h].phase = "ready" => w.agent \in Agent)
    BY WorkIsTyped
  <2>2. CASE HandleStale(h, w)
    BY <2>1, <2>2 DEF HandleStale, RegistryNext
  <2>3. CASE SkipReady(h, w)
    BY <2>3 DEF SkipReady
  <2>4. CASE DispatchReady(h, w)
    BY <2>1, <2>4 DEF DispatchReady, RegistryNext
  <2>5. QED
    BY <1>5, <2>2, <2>3, <2>4
<1>6. ASSUME NEW s \in Slot, Specialist(s)
      PROVE  RegistryNext
  <2>1. CASE GrantPermit(s) \/ BeginTurn(s) \/ LoseTurn(s)
    BY <2>1 DEF GrantPermit, BeginTurn, LoseTurn
  <2>2. CASE BlockReset(s) \/ EndTurn(s)
    <3>1. disp[s].task \in Task /\ disp[s].agent \in Agent
      BY <2>2, DispatchIsTyped DEF BlockReset, EndTurn
    <3>2. QED
      BY <2>2, <3>1 DEF BlockReset, EndTurn, RegistryNext
  <2>3. ASSUME NEW x \in Agent, Submit(s, x) \/ Report(s, x) \/ BlockCheck(s, x)
        PROVE  RegistryNext
    <3>1. disp[s].task \in Task
      BY <2>3, DispatchIsTyped DEF Submit, Report, BlockCheck
    <3>2. QED
      BY <2>3, <3>1 DEF Submit, Report, BlockCheck, RegistryNext
  <2>4. QED
    BY <1>6, <2>1, <2>2, <2>3 DEF Specialist
<1>7. QED
  BY <1>1, <1>2, <1>3, <1>4, <1>5, <1>6 DEF TeamNext, Lead, Tick
-----------------------------------------------------------------------------
(* The type invariant, one part of the state at a time *)

HeartbeatsOK ==
    /\ hb \in [HB -> Heartbeat]
    /\ \A h \in HB : hb[h].phase \in {"off", "idle"} => hb[h].work = {}
    /\ \A h \in HB : hb[h].phase = "ready" => \A w \in hb[h].work : w.agent # NoAgent
    /\ aborted \subseteq {h \in HB : hb[h].phase # "off"}
    /\ handle = NoHB \/ (handle \in HB /\ Beating(handle))

DispatchesOK == disp \in [Slot -> Dispatch \cup {NoDispatch}]

ControlOK == teamState \in TeamState /\ pc \in [Caller -> Pc]

LEMMA TypeParts ==
  TeamTypeOK <=> RegistryTypeOK /\ ControlOK /\ HeartbeatsOK /\ DispatchesOK
  BY DEF TeamTypeOK, ControlOK, HeartbeatsOK, DispatchesOK

LEMMA ControlStep == TeamTypeOK /\ [TeamNext]_vars => ControlOK'
<1> SUFFICES ASSUME TeamTypeOK, [TeamNext]_vars
             PROVE  ControlOK'
  OBVIOUS
<1> USE DEF TeamTypeOK, ControlOK, TeamState, Pc, Goto
<1>1. ASSUME NEW c \in Caller,
             \/ RegisterBegin(c)
             \/ ArchiveWipe(c)
             \/ ArchiveReset(c)
             \/ RegisterCheck(c)
             \/ \E t \in Task, a \in MaybeAgent, D \in DepChoices : RegisterCreate(c, t, a, D)
             \/ ActivateCheck(c)
             \/ \E h \in HB : ActivateSpawn(c, h)
             \/ ActivateFinish(c)
      PROVE  ControlOK'
  BY <1>1 DEF RegisterBegin, ArchiveWipe, ArchiveReset, RegisterCheck, RegisterCreate,
              ActivateCheck, ActivateSpawn, ActivateFinish
<1>2. ASSUME NEW c \in Caller,
             \/ UserAnswers(c)
             \/ UserDeclines(c)
             \/ \E t \in Task : AcceptSubmittedTask(c, t)
             \/ AcceptCheck(c)
             \/ AcceptFinish(c)
             \/ ClearAbort(c)
             \/ ClearWipe(c)
             \/ ClearReset(c)
      PROVE  ControlOK'
  BY <1>2 DEF UserAnswers, UserDeclines, AcceptSubmittedTask, AcceptCheck, AcceptFinish,
              ClearAbort, ClearWipe, ClearReset
<1>3. CASE \/ RequestConfirmation
           \/ HumanTurnAfterDone
           \/ \E t \in Task : ReopenSubmittedTask(t)
           \/ \E t \in Task, a \in Agent : AssignTask(t, a)
           \/ Crash
           \/ \E t \in Task : Timeout(t)
  BY <1>3 DEF RequestConfirmation, HumanTurnAfterDone, ReopenSubmittedTask, AssignTask,
              Crash, Timeout, teamVars
<1>4. CASE \E h \in HB : Tick(h)
  BY <1>4 DEF Tick, ScanStale, ScanReady, Sleep, Stop, HandleStale, SkipReady, DispatchReady
<1>5. CASE \E s \in Slot : Specialist(s)
  BY <1>5 DEF Specialist, GrantPermit, BeginTurn, BlockReset, EndTurn, LoseTurn, Submit,
              Report, BlockCheck
<1>6. CASE UNCHANGED vars
  BY <1>6 DEF vars, teamVars
<1>7. QED
  BY <1>1, <1>2, <1>3, <1>4, <1>5, <1>6 DEF TeamNext, Lead

LEMMA RowsAreTyped ==
  ASSUME TeamTypeOK, NEW t \in Task
  PROVE  StaleRow(t) \in Work /\ ReadyRow(t) \in Work /\ ReadyRow(t).agent = assignee[t]
<1>1. assignee[t] \in MaybeAgent /\ deps[t] \in SUBSET Task
  BY DEF TeamTypeOK, RegistryTypeOK
<1>2. (retry[t] = MaxRetries) \in BOOLEAN
  OBVIOUS
<1>3. QED
  BY <1>1, <1>2 DEF StaleRow, ReadyRow, Work, MaybeAgent

LEMMA HeartbeatStep == TeamTypeOK /\ [TeamNext]_vars => HeartbeatsOK'
<1> SUFFICES ASSUME TeamTypeOK, [TeamNext]_vars
             PROVE  HeartbeatsOK'
  OBVIOUS
<1> USE TeamAssumption DEF HeartbeatsOK, Beating
<1>0. HeartbeatsOK
  BY TypeParts
<1>1. CASE UNCHANGED <<hb, aborted, handle>>
  BY <1>0, <1>1
<1>2. ASSUME NEW c \in Caller, NEW h \in HB, ActivateSpawn(c, h)
      PROVE  HeartbeatsOK'
  BY <1>0, <1>2 DEF ActivateSpawn, Heartbeat
<1>3. ASSUME NEW c \in Caller, ClearAbort(c)
      PROVE  HeartbeatsOK'
  BY <1>0, <1>3 DEF ClearAbort
<1>4. CASE Crash
  BY <1>4 DEF Crash, Off, Heartbeat
<1>5. ASSUME NEW h \in HB, Sleep(h)
      PROVE  HeartbeatsOK'
  BY <1>0, <1>5 DEF Sleep, Heartbeat
<1>6. ASSUME NEW h \in HB, Stop(h)
      PROVE  HeartbeatsOK'
  BY <1>0, <1>6 DEF Stop, Off, Heartbeat
<1>7. ASSUME NEW h \in HB, ScanStale(h)
      PROVE  HeartbeatsOK'
  <2>1. {StaleRow(t) : t \in FindStaleClaimed} \subseteq Work
    BY RowsAreTyped DEF FindStaleClaimed, TeamTypeOK, RegistryTypeOK
  <2>2. QED
    BY <1>0, <1>7, <2>1 DEF ScanStale, Heartbeat
<1>8. ASSUME NEW h \in HB, ScanReady(h)
      PROVE  HeartbeatsOK'
  <2> DEFINE ready == {ReadyRow(t) : t \in {u \in FindReadyTasks : assignee[u] # NoAgent}}
  <2>1. ready \subseteq Work /\ \A w \in ready : w.agent # NoAgent
    BY RowsAreTyped DEF FindReadyTasks
  <2>2. hb' = [hb EXCEPT ![h] = [phase |-> "ready", work |-> ready]]
        /\ UNCHANGED <<aborted, handle>> /\ hb[h].phase = "stale"
    BY <1>8 DEF ScanReady
  <2> HIDE DEF ready
  <2>3. QED
    BY <1>0, <2>1, <2>2 DEF Heartbeat
<1>9. ASSUME NEW h \in HB, NEW w \in hb[h].work,
             HandleStale(h, w) \/ SkipReady(h, w) \/ DispatchReady(h, w)
      PROVE  HeartbeatsOK'
  <2>1. hb' = [hb EXCEPT ![h].work = @ \ {w}] /\ UNCHANGED <<aborted, handle>>
    BY <1>9 DEF HandleStale, SkipReady, DispatchReady
  <2>2. QED
    BY <1>0, <2>1 DEF Heartbeat
<1>10. CASE \E c \in Caller :
              \/ RegisterBegin(c)
              \/ ArchiveWipe(c)
              \/ ArchiveReset(c)
              \/ RegisterCheck(c)
              \/ \E t \in Task, a \in MaybeAgent, D \in DepChoices : RegisterCreate(c, t, a, D)
              \/ ActivateCheck(c)
              \/ ActivateFinish(c)
              \/ UserAnswers(c)
              \/ UserDeclines(c)
              \/ \E t \in Task : AcceptSubmittedTask(c, t)
              \/ AcceptCheck(c)
              \/ AcceptFinish(c)
              \/ ClearWipe(c)
              \/ ClearReset(c)
  BY <1>1, <1>10
     DEF RegisterBegin, ArchiveWipe, ArchiveReset, RegisterCheck, RegisterCreate,
         ActivateCheck, ActivateFinish, UserAnswers, UserDeclines, AcceptSubmittedTask,
         AcceptCheck, AcceptFinish, ClearWipe, ClearReset
<1>11. CASE \/ RequestConfirmation
            \/ HumanTurnAfterDone
            \/ \E t \in Task : ReopenSubmittedTask(t)
            \/ \E t \in Task, a \in Agent : AssignTask(t, a)
            \/ \E t \in Task : Timeout(t)
  BY <1>1, <1>11 DEF RequestConfirmation, HumanTurnAfterDone, ReopenSubmittedTask,
                     AssignTask, Timeout, teamVars
<1>12. CASE \E s \in Slot : Specialist(s)
  BY <1>1, <1>12 DEF Specialist, GrantPermit, BeginTurn, BlockReset, EndTurn, LoseTurn,
                     Submit, Report, BlockCheck
<1>13. CASE UNCHANGED vars
  BY <1>1, <1>13 DEF vars, teamVars
<1>14. QED
  BY <1>2, <1>3, <1>4, <1>5, <1>6, <1>7, <1>8, <1>9, <1>10, <1>11, <1>12, <1>13
     DEF TeamNext, Lead, Tick

\* Steps that are not a dispatch's leave every dispatch alone, except that a
\* heartbeat starts one and a crash ends them all.
LEMMA DispatchStep == TeamTypeOK /\ [TeamNext]_vars => DispatchesOK'
<1> SUFFICES ASSUME TeamTypeOK, [TeamNext]_vars
             PROVE  DispatchesOK'
  OBVIOUS
<1> USE DEF DispatchesOK
<1>0. DispatchesOK
  BY TypeParts
<1>1. CASE UNCHANGED disp
  BY <1>0, <1>1
<1>2. CASE Lead \/ \E t \in Task : Timeout(t)
  BY <1>1, <1>2
     DEF Lead, RegisterBegin, ArchiveWipe, ArchiveReset, RegisterCheck, RegisterCreate,
         ActivateCheck, ActivateSpawn, ActivateFinish, RequestConfirmation, UserAnswers,
         UserDeclines, HumanTurnAfterDone, AssignTask, ReopenSubmittedTask,
         AcceptSubmittedTask, AcceptCheck, AcceptFinish, ClearAbort, ClearWipe,
         ClearReset, Timeout, teamVars
<1>3. CASE Crash
  BY <1>3 DEF Crash
<1>4. CASE \E h \in HB : \/ ScanStale(h)
                        \/ ScanReady(h)
                        \/ Sleep(h)
                        \/ Stop(h)
                        \/ \E w \in hb[h].work : HandleStale(h, w) \/ SkipReady(h, w)
  BY <1>1, <1>4 DEF ScanStale, ScanReady, Sleep, Stop, HandleStale, SkipReady
<1>5. ASSUME NEW h \in HB, NEW w \in hb[h].work, DispatchReady(h, w)
      PROVE  DispatchesOK'
  <2>1. w.task \in Task /\ w.agent \in Agent /\ w.needs \subseteq Task
    BY <1>5, WorkIsTyped DEF DispatchReady
  <2>2. [phase |-> "queued", task |-> w.task, agent |-> w.agent, needs |-> w.needs,
         as |-> NoAgent, hb |-> h, acted |-> FALSE] \in Dispatch
    BY <2>1 DEF Dispatch, MaybeAgent
  <2>3. QED
    BY <1>0, <1>5, <2>2 DEF DispatchReady, Spawn
<1>6. ASSUME NEW s \in Slot, Specialist(s)
      PROVE  DispatchesOK'
  <2>1. CASE EndTurn(s) \/ LoseTurn(s)
    BY <1>0, <2>1 DEF EndTurn, LoseTurn
  <2>2. CASE GrantPermit(s) \/ BeginTurn(s) \/ BlockReset(s)
    <3>1. disp[s] \in Dispatch
      BY <2>2, DispatchIsTyped DEF GrantPermit, BeginTurn, BlockReset
    <3>2. QED
      BY <1>0, <2>2, <3>1 DEF GrantPermit, BeginTurn, BlockReset, Dispatch, MaybeAgent
  <2>3. ASSUME NEW x \in Agent, Submit(s, x) \/ Report(s, x) \/ BlockCheck(s, x)
        PROVE  DispatchesOK'
    <3>1. PICK p \in {"turn", "blocking"}, y \in MaybeAgent : RecordAction(s, x, p, y)
      BY <2>3 DEF Submit, Report, BlockCheck, MaybeAgent
    <3>2. ASSUME NEW u \in Slot
          PROVE  disp'[u] \in Dispatch \cup {NoDispatch}
      <4>1. CASE ~HasPermit(u)
        BY <1>0, <3>1, <4>1 DEF RecordAction
      <4>2. CASE HasPermit(u)
        <5>1. disp[u] \in Dispatch
          BY <4>2, DispatchIsTyped DEF HasPermit
        <5> DEFINE acts == disp[u].acted \/ (disp[u].task = disp[s].task /\ disp[u].agent = x)
                   phs  == IF u = s THEN p ELSE disp[u].phase
                   who  == IF u = s THEN y ELSE disp[u].as
        <5>2. acts \in BOOLEAN
          BY <5>1 DEF Dispatch
        <5>3. phs \in {"queued", "started", "turn", "blocking"} /\ who \in MaybeAgent
          BY <5>1 DEF Dispatch
        <5>4. disp'[u] = [disp[u] EXCEPT !.acted = acts, !.phase = phs, !.as = who]
          BY <3>1, <4>2 DEF RecordAction
        <5> HIDE DEF acts, phs, who
        <5>5. QED
          BY <5>1, <5>2, <5>3, <5>4 DEF Dispatch
      <4>3. QED
        BY <4>1, <4>2
    <3>3. QED
      BY <3>1, <3>2 DEF RecordAction
  <2>4. QED
    BY <1>6, <2>1, <2>2, <2>3 DEF Specialist
<1>7. CASE UNCHANGED vars
  BY <1>1, <1>7 DEF vars, teamVars
<1>8. QED
  BY <1>2, <1>3, <1>4, <1>5, <1>6, <1>7 DEF TeamNext, Tick

TeamInv == TeamTypeOK /\ AttemptsAreCounted

LEMMA TeamInitInv == TeamInit => TeamInv
  BY RegistryInitInv, TypeParts, TeamAssumption
  DEF TeamInit, TeamInv, RegistryInv, ControlOK, HeartbeatsOK, DispatchesOK,
      TeamState, Pc, Heartbeat, Off

LEMMA TeamStepInv == TeamInv /\ [TeamNext]_vars => TeamInv'
<1> SUFFICES ASSUME TeamInv, [TeamNext]_vars
             PROVE  TeamInv'
  OBVIOUS
<1>1. RegistryInv /\ [RegistryNext]_registryVars
  BY TeamStepIsRegistryStep, TypeParts DEF TeamInv, RegistryInv
<1>2. RegistryTypeOK' /\ AttemptsAreCounted'
  BY <1>1, RegistryStepInv DEF RegistryInv
<1>3. ControlOK' /\ HeartbeatsOK' /\ DispatchesOK'
  BY ControlStep, HeartbeatStep, DispatchStep DEF TeamInv
<1>4. QED
  BY <1>2, <1>3 DEF TeamInv, TeamTypeOK, ControlOK, HeartbeatsOK, DispatchesOK

\* The team's state keeps its shape, the stored handle never belongs to a
\* stopped heartbeat, and every attempt at a task is counted.
THEOREM TeamInvariance == TeamSafetySpec => [](TeamTypeOK /\ AttemptsAreCounted)
<1>1. TeamInit => TeamInv
  BY TeamInitInv
<1>2. TeamInv /\ [TeamNext]_vars => TeamInv'
  BY TeamStepInv
<1>3. QED
  BY <1>1, <1>2, PTL DEF TeamSafetySpec, TeamInv

\* The team is a client of the registry: everything proved of the registry
\* alone holds of it inside the team, whatever the interleaving.
THEOREM TeamImplementsRegistry == TeamSafetySpec => RegistrySpec
<1>1. TeamInit => RegistryInit
  BY DEF TeamInit
<1>2. TeamTypeOK /\ [TeamNext]_vars => [RegistryNext]_registryVars
  BY TeamStepIsRegistryStep
<1>3. QED
  BY <1>1, <1>2, TeamInvariance, PTL DEF TeamSafetySpec, RegistrySpec

\* So the composed system implements exclusive, credited ownership of work.
THEOREM TeamImplementsOwnership == TeamSafetySpec => OwnershipSpec
  BY TeamImplementsRegistry, RegistryImplementsOwnership
-----------------------------------------------------------------------------
(* What turns and heartbeats cannot undo *)

\* A step of a running turn moves no row but a claimed one.
THEOREM TurnsLeaveSettledTasks == TeamSafetySpec => SettledSurvivesTurns
<1>1. TeamTypeOK /\ [TeamNext]_vars =>
        [\A t \in Task, s \in Slot :
            InTurn(s) /\ Specialist(s) /\ status[t] # "claimed"
               => status'[t] = status[t]]_vars
  <2> SUFFICES ASSUME TeamTypeOK, NEW t \in Task, NEW s \in Slot,
                      Specialist(s), status[t] # "claimed"
               PROVE  status'[t] = status[t]
    OBVIOUS
  <2> USE DEF TeamTypeOK, RegistryTypeOK, MoveTo, registryVars
  <2>1. CASE GrantPermit(s) \/ BeginTurn(s) \/ LoseTurn(s)
    BY <2>1 DEF GrantPermit, BeginTurn, LoseTurn
  <2>2. CASE BlockReset(s)
    BY <2>2 DEF BlockReset, ResetClaim
  <2>3. CASE EndTurn(s)
    BY <2>3 DEF EndTurn, HoldClaim, ClaimedBy
  <2>4. CASE \E x \in Agent : Submit(s, x) \/ Report(s, x) \/ BlockCheck(s, x)
    BY <2>4 DEF Submit, Report, BlockCheck, SubmitTaskResult, ClaimedBy
  <2>5. QED
    BY <2>1, <2>2, <2>3, <2>4 DEF Specialist
<1>2. QED
  BY <1>1, TeamInvariance, PTL DEF TeamSafetySpec, SettledSurvivesTurns

\* A task held after a missing completion waits for the lead's assign_task.
THEOREM HeldTasksWaitForLead == TeamSafetySpec => HeldUntilLeadDecides
<1>1. TeamTypeOK /\ [TeamNext]_vars =>
        [\A t \in Task : status[t] = "held" /\ status'[t] = "pending"
                         => \E a \in Agent : AssignTask(t, a)]_vars
  <2> SUFFICES ASSUME TeamTypeOK, TeamNext, NEW t \in Task,
                      status[t] = "held", status'[t] = "pending"
               PROVE  \E a \in Agent : AssignTask(t, a)
    OBVIOUS
  <2> USE DEF TeamTypeOK, RegistryTypeOK, MoveTo, registryVars
  <2>1. ASSUME NEW u \in Task, NEW a \in Agent, AssignTask(u, a)
        PROVE  \E b \in Agent : AssignTask(t, b)
    <3>1. u = t
      BY <2>1 DEF AssignTask, ReassignTask
    <3>2. QED
      BY <2>1, <3>1
  <2>2. ASSUME NEW c \in Caller,
               \/ ArchiveWipe(c)
               \/ ClearWipe(c)
               \/ \E u \in Task, a \in MaybeAgent, D \in DepChoices : RegisterCreate(c, u, a, D)
               \/ \E u \in Task : AcceptSubmittedTask(c, u)
        PROVE  FALSE
    BY <2>2 DEF ArchiveWipe, ClearWipe, ClearAllTasks, RegisterCreate, CreateTask,
                Recyclable, AcceptSubmittedTask, AcceptTask
  <2>3. ASSUME NEW c \in Caller,
               \/ RegisterBegin(c)
               \/ ArchiveReset(c)
               \/ RegisterCheck(c)
               \/ ActivateCheck(c)
               \/ \E h \in HB : ActivateSpawn(c, h)
               \/ ActivateFinish(c)
               \/ UserAnswers(c)
               \/ UserDeclines(c)
               \/ AcceptCheck(c)
               \/ AcceptFinish(c)
               \/ ClearAbort(c)
               \/ ClearReset(c)
        PROVE  FALSE
    BY <2>3 DEF RegisterBegin, ArchiveReset, RegisterCheck, ActivateCheck, ActivateSpawn,
                ActivateFinish, UserAnswers, UserDeclines, AcceptCheck, AcceptFinish,
                ClearAbort, ClearReset
  <2>4. CASE \/ RequestConfirmation
             \/ HumanTurnAfterDone
             \/ \E u \in Task : ReopenSubmittedTask(u)
             \/ Crash
             \/ \E u \in Task : Timeout(u)
    BY <2>4 DEF RequestConfirmation, HumanTurnAfterDone, ReopenSubmittedTask, ReopenTask,
                Crash, Timeout, Expire
  <2>5. CASE \E h \in HB : ScanStale(h) \/ ScanReady(h) \/ Sleep(h) \/ Stop(h)
    BY <2>5 DEF ScanStale, ScanReady, Sleep, Stop
  <2>6. ASSUME NEW h \in HB, NEW w \in hb[h].work,
               HandleStale(h, w) \/ SkipReady(h, w) \/ DispatchReady(h, w)
        PROVE  FALSE
    <3>1. w.task \in Task
      BY WorkIsTyped
    <3>2. QED
      BY <2>6, <3>1 DEF HandleStale, SkipReady, DispatchReady, MarkFailed, ResetClaim,
                        TryClaim
  <2>7. ASSUME NEW s \in Slot, Specialist(s)
        PROVE  FALSE
    <3>1. CASE GrantPermit(s) \/ BeginTurn(s) \/ LoseTurn(s)
      BY <3>1 DEF GrantPermit, BeginTurn, LoseTurn
    <3>2. CASE BlockReset(s) \/ EndTurn(s)
      BY <3>2 DEF BlockReset, ResetClaim, EndTurn, HoldClaim, ClaimedBy
    <3>3. CASE \E x \in Agent : Submit(s, x) \/ Report(s, x) \/ BlockCheck(s, x)
      BY <3>3 DEF Submit, Report, BlockCheck, SubmitTaskResult, ClaimedBy
    <3>4. QED
      BY <2>7, <3>1, <3>2, <3>3 DEF Specialist
  <2>8. QED
    BY <2>1, <2>2, <2>3, <2>4, <2>5, <2>6, <2>7 DEF TeamNext, Lead, Tick
<1>2. QED
  BY <1>1, TeamInvariance, PTL DEF TeamSafetySpec, HeldUntilLeadDecides
=============================================================================
