-------------------------- MODULE TeamOrchestrator --------------------------
(***************************************************************************)
(* The life of a team: the lead's tool calls and the user's turns          *)
(* (orchestrator.rs, team_contract/executor.rs, agent_core/registry.rs),   *)
(* the heartbeats (heartbeat.rs) and the dispatched specialist turns       *)
(* (team_runtime.rs, specialist_turn.rs), all over one task table.         *)
(*                                                                         *)
(* Every lock is held for one step only, so a handler that takes several   *)
(* locks is several actions here, and what it read may be stale when it    *)
(* acts: a heartbeat works through a snapshot, accept_task decides on      *)
(* all_done() and sets the state later, /clear aborts before it wipes.     *)
(* Artifact files, milestones and routing events are left out.             *)
(***************************************************************************)
EXTENDS TaskRegistry, FiniteSets

CONSTANTS Caller,      \* concurrent lead-side calls: tools, human turns, /clear
          HB,          \* bound: heartbeat tasks alive at once
          Slot,        \* bound: dispatches that get a turn at once
          NoHB,        \* no heartbeat handle stored
          NoDispatch,  \* an unused slot
          DepChoices,  \* bound: the dependency lists the lead writes
          MaxParallel  \* permits of one heartbeat's dispatch semaphore

VARIABLES teamState,   \* team_state_inner
          pc,          \* pc[c]: how far call c has come
          hb,          \* hb[h]: phase of heartbeat h and the snapshot it works on
          aborted,     \* heartbeats told to stop at their next await point
          handle,      \* heartbeat_handle
          disp         \* disp[s]: a spawned dispatch, or NoDispatch

teamVars == <<teamState, pc, hb, aborted, handle, disp>>
vars     == <<registryVars, teamVars>>

TeamState == {"Planning", "AwaitingConfirm", "Running", "Done"}
Pc        == {"idle", "archive", "archived", "register", "create", "activate",
              "spawned", "declined", "accepted", "allDone", "clearing", "wiped"}

\* A row of a heartbeat's snapshot; spent: its retry_count had reached the limit.
Work      == [task : Task, agent : MaybeAgent, needs : SUBSET Task, spent : BOOLEAN]
Heartbeat == [phase : {"off", "idle", "stale", "ready"}, work : SUBSET Work]

\* needs: the dependencies in the snapshot the dispatch was made from;
\* acted: an action of (task, agent) was recorded since the dispatch started;
\* as: the agent a block_task call in progress speaks for.
Dispatch  == [phase : {"queued", "started", "turn", "blocking"}, task : Task,
              agent : Agent, needs : SUBSET Task, as : MaybeAgent, hb : HB,
              acted : BOOLEAN]

ASSUME TeamAssumption ==
    /\ NoHB \notin HB
    /\ NoDispatch \notin Dispatch
    /\ DepChoices \subseteq SUBSET Task
    /\ MaxParallel \in Nat \ {0}

Off == [phase |-> "off", work |-> {}]

Live(s)      == disp[s] # NoDispatch
HasPermit(s) == Live(s) /\ disp[s].phase \in {"started", "turn", "blocking"}
InTurn(s)    == Live(s) /\ disp[s].phase \in {"turn", "blocking"}

\* The heartbeat will start another tick.
Beating(h) == hb[h].phase # "off" /\ h \notin aborted

TeamInit ==
    /\ RegistryInit
    /\ teamState = "Planning"
    /\ pc = [c \in Caller |-> "idle"]
    /\ hb = [h \in HB |-> Off]
    /\ aborted = {}
    /\ handle = NoHB
    /\ disp = [s \in Slot |-> NoDispatch]

Goto(c, from, to) == pc[c] = from /\ pc' = [pc EXCEPT ![c] = to]
-----------------------------------------------------------------------------
(* The lead and the user *)

\* register_task: archive_completed_cycle_if_needed wipes a table of finished
\* rows and starts a new cycle, then the team state is checked, then the row is
\* created.
RegisterBegin(c) ==
    /\ Goto(c, "idle", IF AllTerminal THEN "archive" ELSE "register")
    /\ UNCHANGED <<registryVars, teamState, hb, aborted, handle, disp>>

ArchiveWipe(c) ==
    /\ Goto(c, "archive", "archived")
    /\ ClearAllTasks
    /\ UNCHANGED <<teamState, hb, aborted, handle, disp>>

ArchiveReset(c) ==
    /\ Goto(c, "archived", "register")
    /\ teamState' = "Planning"
    /\ UNCHANGED <<registryVars, hb, aborted, handle, disp>>

RegisterCheck(c) ==
    /\ Goto(c, "register",
            IF teamState \in {"Planning", "AwaitingConfirm"} THEN "create" ELSE "idle")
    /\ UNCHANGED <<registryVars, teamState, hb, aborted, handle, disp>>

RegisterCreate(c, t, a, D) ==
    /\ Goto(c, "create", "idle")
    /\ \/ CreateTask(t, a, D)
       \/ status[t] \notin Recyclable /\ UNCHANGED registryVars
    /\ UNCHANGED <<teamState, hb, aborted, handle, disp>>

\* activate: the state is read, a heartbeat is spawned and its handle stored
\* over the previous one, and the state is written, each under its own lock.
ActivateCheck(c) ==
    /\ Goto(c, "idle", "activate")
    /\ teamState \notin {"Running", "Done"}
    /\ UNCHANGED <<registryVars, teamState, hb, aborted, handle, disp>>

ActivateSpawn(c, h) ==
    /\ Goto(c, "activate", "spawned")
    /\ hb[h].phase = "off"
    /\ hb' = [hb EXCEPT ![h].phase = "idle"]
    /\ handle' = h
    /\ UNCHANGED <<registryVars, teamState, aborted, disp>>

ActivateFinish(c) ==
    /\ Goto(c, "spawned", "idle")
    /\ teamState' = "Running"
    /\ UNCHANGED <<registryVars, hb, aborted, handle, disp>>

\* request_confirmation writes the state whatever it was.
RequestConfirmation ==
    /\ teamState' = "AwaitingConfirm"
    /\ UNCHANGED <<registryVars, pc, hb, aborted, handle, disp>>

\* The user's answer is not a yes (a yes is ActivateCheck): the state is read,
\* then reset.
UserAnswers(c) ==
    /\ Goto(c, "idle", "declined")
    /\ teamState = "AwaitingConfirm"
    /\ UNCHANGED <<registryVars, teamState, hb, aborted, handle, disp>>

UserDeclines(c) ==
    /\ Goto(c, "declined", "idle")
    /\ teamState' = "Planning"
    /\ UNCHANGED <<registryVars, hb, aborted, handle, disp>>

\* reopen_for_new_planning_cycle_if_done, at every human turn of the lead.
HumanTurnAfterDone ==
    /\ teamState = "Done"
    /\ teamState' = "Planning"
    /\ UNCHANGED <<registryVars, pc, hb, aborted, handle, disp>>

AssignTask(t, a) == ReassignTask(t, a) /\ UNCHANGED teamVars

ReopenSubmittedTask(t) == ReopenTask(t) /\ UNCHANGED teamVars

\* accept_submitted_task: the row, then all_done(), then the team state.
AcceptSubmittedTask(c, t) ==
    /\ Goto(c, "idle", "accepted")
    /\ AcceptTask(t)
    /\ UNCHANGED <<teamState, hb, aborted, handle, disp>>

AcceptCheck(c) ==
    /\ Goto(c, "accepted", IF AllDone THEN "allDone" ELSE "idle")
    /\ UNCHANGED <<registryVars, teamState, hb, aborted, handle, disp>>

AcceptFinish(c) ==
    /\ Goto(c, "allDone", "idle")
    /\ teamState' = "Done"
    /\ UNCHANGED <<registryVars, hb, aborted, handle, disp>>

\* clear_workspace (/clear does not wait for the session's turn): abort the
\* heartbeat whose handle is stored, wipe the table, reset the state.
ClearAbortKeepsHandle(c) ==   \* Faulty variant: the handle is not taken.
    /\ Goto(c, "idle", "clearing")
    /\ aborted' = aborted \cup ({handle} \ {NoHB})
    /\ UNCHANGED <<registryVars, teamState, hb, handle, disp>>

ClearAbort(c) ==
    /\ Goto(c, "idle", "clearing")
    /\ aborted' = aborted \cup ({handle} \ {NoHB})
    /\ handle' = NoHB
    /\ UNCHANGED <<registryVars, teamState, hb, disp>>

ClearWipe(c) ==
    /\ Goto(c, "clearing", "wiped")
    /\ ClearAllTasks
    /\ UNCHANGED <<teamState, hb, aborted, handle, disp>>

ClearReset(c) ==
    /\ Goto(c, "wiped", "idle")
    /\ teamState' = "Planning"
    /\ UNCHANGED <<registryVars, hb, aborted, handle, disp>>

\* The process dies; the table survives, everything else starts anew.
Crash ==
    /\ teamState' = "Planning"
    /\ pc' = [c \in Caller |-> "idle"]
    /\ hb' = [h \in HB |-> Off]
    /\ aborted' = {}
    /\ handle' = NoHB
    /\ disp' = [s \in Slot |-> NoDispatch]
    /\ UNCHANGED registryVars
-----------------------------------------------------------------------------
(* Heartbeats: one tick is stale tasks, then ready tasks. *)

Sleep(h) == /\ hb[h].phase = "ready" /\ hb[h].work = {}
            /\ hb' = [hb EXCEPT ![h].phase = "idle"]
            /\ UNCHANGED <<registryVars, teamState, pc, aborted, handle, disp>>

\* An abort takes effect where the loop awaits its ticker.
Stop(h) == /\ hb[h].phase = "idle" /\ h \in aborted
           /\ hb' = [hb EXCEPT ![h] = Off]
           /\ aborted' = aborted \ {h}
           /\ UNCHANGED <<registryVars, teamState, pc, handle, disp>>

StaleRow(t) == [task |-> t, agent |-> NoAgent, needs |-> {}, spent |-> retry[t] = MaxRetries]
ReadyRow(t) == [task |-> t, agent |-> assignee[t], needs |-> deps[t], spent |-> FALSE]

ScanStale(h) ==
    /\ hb[h].phase = "idle"
    /\ h \notin aborted
    /\ hb' = [hb EXCEPT ![h] =
                [phase |-> "stale",
                 work  |-> {StaleRow(t) : t \in FindStaleClaimed}]]
    /\ UNCHANGED <<registryVars, teamState, pc, aborted, handle, disp>>

\* One row of the stale snapshot, whatever became of the task since.
HandleStale(h, w) ==
    /\ hb[h].phase = "stale"
    /\ w \in hb[h].work
    /\ hb' = [hb EXCEPT ![h].work = @ \ {w}]
    /\ IF w.spent
       THEN MarkFailed(w.task) \/ (status[w.task] = "absent" /\ UNCHANGED registryVars)
       ELSE ResetClaim(w.task) \/ (status[w.task] # "claimed" /\ UNCHANGED registryVars)
    /\ UNCHANGED <<teamState, pc, aborted, handle, disp>>

ScanReadyFresh(h) ==   \* Faulty variant: only tasks never tried before.
    /\ hb[h].phase = "stale"
    /\ hb[h].work = {}
    /\ hb' = [hb EXCEPT ![h] =
                [phase |-> "ready",
                 work  |-> {ReadyRow(t) : t \in {u \in FindReadyTasks :
                                                    assignee[u] # NoAgent /\ retry[u] = 0}}]]
    /\ UNCHANGED <<registryVars, teamState, pc, aborted, handle, disp>>

ScanReady(h) ==
    /\ hb[h].phase = "stale"
    /\ hb[h].work = {}
    /\ hb' = [hb EXCEPT ![h] =
                [phase |-> "ready",
                 work  |-> {ReadyRow(t) : t \in {u \in FindReadyTasks : assignee[u] # NoAgent}}]]
    /\ UNCHANGED <<registryVars, teamState, pc, aborted, handle, disp>>

\* A dispatch is spawned for a claimed row; one beyond the bound is a dispatch
\* that never gets its permit.
Spawn(w, h) ==
    \/ \E s \in Slot :
          /\ ~Live(s)
          /\ disp' = [disp EXCEPT ![s] =
                        [phase |-> "queued", task |-> w.task, agent |-> w.agent,
                         needs |-> w.needs, as |-> NoAgent, hb |-> h, acted |-> FALSE]]
    \/ /\ \A s \in Slot : Live(s)
       /\ UNCHANGED disp

\* One row of the ready snapshot: claimed for the assignee read then, and the
\* dispatch spawned, unless the row is no longer pending.
DispatchReady(h, w) ==
    /\ hb[h].phase = "ready"
    /\ w \in hb[h].work
    /\ hb' = [hb EXCEPT ![h].work = @ \ {w}]
    /\ TryClaim(w.task, w.agent)
    /\ Spawn(w, h)
    /\ UNCHANGED <<teamState, pc, aborted, handle>>

SkipReady(h, w) ==
    /\ hb[h].phase = "ready"
    /\ w \in hb[h].work
    /\ status[w.task] # "pending"
    /\ hb' = [hb EXCEPT ![h].work = @ \ {w}]
    /\ UNCHANGED <<registryVars, teamState, pc, aborted, handle, disp>>

Tick(h) == \/ ScanStale(h)
           \/ ScanReady(h)
           \/ Sleep(h)
           \/ Stop(h)
           \/ \E w \in hb[h].work : \/ HandleStale(h, w)
                                    \/ SkipReady(h, w)
                                    \/ DispatchReady(h, w)
-----------------------------------------------------------------------------
(* Dispatched specialist turns *)

\* A permit of the spawning heartbeat; dispatch_started_at is taken here.
GrantPermit(s) ==
    /\ Live(s) /\ disp[s].phase = "queued"
    /\ Cardinality({u \in Slot : HasPermit(u) /\ disp[u].hb = disp[s].hb}) < MaxParallel
    /\ disp' = [disp EXCEPT ![s].phase = "started"]
    /\ UNCHANGED <<registryVars, teamState, pc, hb, aborted, handle>>

\* The turn runs when the agent's session is free.
BeginTurn(s) ==
    /\ Live(s) /\ disp[s].phase = "started"
    /\ \A u \in Slot : InTurn(u) => disp[u].agent # disp[s].agent
    /\ disp' = [disp EXCEPT ![s].phase = "turn"]
    /\ UNCHANGED <<registryVars, teamState, pc, hb, aborted, handle>>

\* resolve_claimed_agent: the agent named in the call, else whoever holds the claim.
SpeaksFor(s, x) ==
    \/ x = disp[s].agent
    \/ ClaimedBy(disp[s].task, x)

\* record_specialist_action: every started dispatch of (task, x) will see it.
\* The caller's dispatch moves to phase p, speaking for y.
RecordAction(s, x, p, y) ==
    disp' = [u \in Slot |->
               IF ~HasPermit(u) THEN disp[u]
               ELSE [disp[u] EXCEPT
                       !.acted = @ \/ (disp[u].task = disp[s].task /\ disp[u].agent = x),
                       !.phase = IF u = s THEN p ELSE @,
                       !.as    = IF u = s THEN y ELSE @]]

\* submit_task_result
Submit(s, x) ==
    /\ Live(s) /\ disp[s].phase = "turn"
    /\ SpeaksFor(s, x)
    /\ SubmitTaskResult(disp[s].task, x)
    /\ RecordAction(s, x, "turn", NoAgent)
    /\ UNCHANGED <<teamState, pc, hb, aborted, handle>>

\* checkpoint_task and request_help leave the task as it is.
Report(s, x) ==
    /\ Live(s) /\ disp[s].phase = "turn"
    /\ SpeaksFor(s, x)
    /\ RecordAction(s, x, "turn", NoAgent)
    /\ UNCHANGED <<registryVars, teamState, pc, hb, aborted, handle>>

\* block_task: the identity check and the reset are separate calls.
BlockCheck(s, x) ==
    /\ Live(s) /\ disp[s].phase = "turn"
    /\ SpeaksFor(s, x)
    /\ ClaimedBy(disp[s].task, x)
    /\ RecordAction(s, x, "blocking", x)
    /\ UNCHANGED <<registryVars, teamState, pc, hb, aborted, handle>>

BlockReset(s) ==
    /\ Live(s) /\ disp[s].phase = "blocking"
    /\ \/ ResetClaim(disp[s].task)
       \/ status[disp[s].task] # "claimed" /\ UNCHANGED registryVars
    /\ disp' = [disp EXCEPT ![s].phase = "turn", ![s].as = NoAgent]
    /\ UNCHANGED <<teamState, pc, hb, aborted, handle>>

\* The turn returns: without a recorded action it is a missing completion,
\* and the claim, if the agent still has one, goes on hold.
EndTurn(s) ==
    /\ Live(s) /\ disp[s].phase = "turn"
    /\ IF ~disp[s].acted /\ ClaimedBy(disp[s].task, disp[s].agent)
       THEN HoldClaim(disp[s].task, disp[s].agent)
       ELSE UNCHANGED registryVars
    /\ disp' = [disp EXCEPT ![s] = NoDispatch]
    /\ UNCHANGED <<teamState, pc, hb, aborted, handle>>

\* The dispatch fails before its outcome is classified.
LoseTurn(s) ==
    /\ Live(s) /\ disp[s].phase = "turn"
    /\ disp' = [disp EXCEPT ![s] = NoDispatch]
    /\ UNCHANGED <<registryVars, teamState, pc, hb, aborted, handle>>

Specialist(s) == \/ GrantPermit(s)
                 \/ BeginTurn(s)
                 \/ BlockReset(s)
                 \/ EndTurn(s)
                 \/ LoseTurn(s)
                 \/ \E x \in Agent : \/ Submit(s, x)
                                     \/ Report(s, x)
                                     \/ BlockCheck(s, x)

Lead == \/ \E c \in Caller :
              \/ RegisterBegin(c)
              \/ ArchiveWipe(c)
              \/ ArchiveReset(c)
              \/ RegisterCheck(c)
              \/ \E t \in Task, a \in MaybeAgent, D \in DepChoices : RegisterCreate(c, t, a, D)
              \/ ActivateCheck(c)
              \/ \E h \in HB : ActivateSpawn(c, h)
              \/ ActivateFinish(c)
              \/ UserAnswers(c)
              \/ UserDeclines(c)
              \/ \E t \in Task : AcceptSubmittedTask(c, t)
              \/ AcceptCheck(c)
              \/ AcceptFinish(c)
              \/ ClearAbort(c)
              \/ ClearWipe(c)
              \/ ClearReset(c)
        \/ RequestConfirmation
        \/ HumanTurnAfterDone
        \/ \E t \in Task : ReopenSubmittedTask(t)
        \/ \E t \in Task, a \in Agent : AssignTask(t, a)

Timeout(t) == Expire(t) /\ UNCHANGED teamVars

TeamNext == \/ Lead
            \/ Crash
            \/ \E h \in HB : Tick(h)
            \/ \E s \in Slot : Specialist(s)
            \/ \E t \in Task : Timeout(t)

TeamSafetySpec == TeamInit /\ [][TeamNext]_vars

\* The runtime keeps polling a heartbeat and the clock keeps running.  Nothing
\* else is owed: turns may hang for ever, calls may never come or never end.
TeamSpec == /\ TeamSafetySpec
            /\ \A h \in HB : WF_vars(Tick(h))
            /\ \A t \in Task : WF_vars(Timeout(t))
-----------------------------------------------------------------------------
(* Properties that hold *)

\* The parts of the team's state have their shape, an idle heartbeat holds no
\* snapshot, a task is dispatched to a named agent only, and the
\* stored handle belongs to a running, unaborted heartbeat.
TeamTypeOK ==
    /\ RegistryTypeOK
    /\ teamState \in TeamState
    /\ pc \in [Caller -> Pc]
    /\ hb \in [HB -> Heartbeat]
    /\ \A h \in HB : hb[h].phase \in {"off", "idle"} => hb[h].work = {}
    /\ \A h \in HB : hb[h].phase = "ready" => \A w \in hb[h].work : w.agent # NoAgent
    /\ aborted \subseteq {h \in HB : hb[h].phase # "off"}
    /\ handle = NoHB \/ (handle \in HB /\ Beating(handle))
    /\ disp \in [Slot -> Dispatch \cup {NoDispatch}]

\* What the lead or the heartbeat has settled cannot be undone by a specialist
\* turn that is still running: a step of a dispatched turn changes the status
\* of no task but a claimed one, however late its tool call or its end comes
\* (the guards of submit_task_result, hold_claim and reset_claim).
SettledSurvivesTurns ==
    [][\A t \in Task, s \in Slot :
          InTurn(s) /\ Specialist(s) /\ status[t] # "claimed"
             => status'[t] = status[t]]_vars

\* A task held after a missing completion stays held against heartbeats and
\* turns until the lead assigns it again.
HeldUntilLeadDecides ==
    [][\A t \in Task : status[t] = "held" /\ status'[t] = "pending"
                         => \E a \in Agent : AssignTask(t, a)]_vars

HeartAlive == \E h \in HB : Beating(h)

Ready(t) == t \in FindReadyTasks /\ assignee[t] # NoAgent

\* While a heartbeat beats, an assigned task whose dependencies are finished
\* does not stay pending for ever.
ReadyIsClaimed ==
    \A t \in Task : Ready(t) /\ HeartAlive ~> ~Ready(t) \/ ~HeartAlive

\* While a heartbeat beats, no claim lasts for ever: hung and lost turns,
\* checkpoints without a result and claims left by a crash all time out.
ClaimIsReleased ==
    \A t \in Task :
        status[t] = "claimed" /\ HeartAlive ~> status[t] # "claimed" \/ ~HeartAlive

TimeoutReset(t) == /\ status[t] = "claimed"
                   /\ \E h \in HB : \E w \in hb[h].work :
                         w.task = t /\ ~w.spent /\ HandleStale(h, w)

-----------------------------------------------------------------------------
(* What comments say of the code, and the code does not keep *)

\* /clear: "stop the heartbeat, clear tasks.db ..." (clear_workspace).
ClearStopsHeartbeats ==
    [][\A c \in Caller : ClearReset(c) => ~HeartAlive]_vars

\* "Claimed -> Failed : mark_failed()" (the state machine of registry.rs).
FailsOnlyFromClaim ==
    [][\A t \in Task : status[t] # "failed" /\ status'[t] = "failed"
                         => status[t] = "claimed"]_vars

\* "Identity check: only the agent that claimed this task can report it blocked"
\* (handle_specialist_blocked): a block releases no claim but that of its agent.
BlockReleasesOwnClaim ==
    [][\A s \in Slot : BlockReset(s) /\ status[disp[s].task] = "claimed"
                          => ClaimedBy(disp[s].task, disp[s].as)]_vars
=============================================================================
