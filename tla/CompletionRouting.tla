------------------------- MODULE CompletionRouting -------------------------
(***************************************************************************)
(* How the lead hears of what happens to the team's tasks: the events that *)
(* the handlers of agent_core/team/orchestrator.rs emit, the bounded       *)
(* channel to the redispatch task of team_runtime.rs, and the file         *)
(* pending-completions.jsonl, which holds what could not be sent and what  *)
(* the lead has not resolved.  The table is that of TaskRegistry, and an   *)
(* event is emitted by the operation that causes it.                       *)
(*                                                                         *)
(* Left out: texts, milestones, /clear, dispatches whose claim is lost     *)
(* before they start (TeamOrchestrator has them).  Of the time of the next *)
(* attempt only whether it has come is kept, of the targets of an event    *)
(* their number.                                                           *)
(***************************************************************************)
EXTENDS TaskRegistry, Sequences, SequencesExt, SequenceFilters

CONSTANTS NoTurn,       \* the redispatch task waits for an event
          ChannelCap,   \* capacity of the channel to the redispatch task
          Targets,      \* requester and fallback sessions of an event
          MaxRuns,      \* bound on the run identifiers made
          MaxExtras     \* bound on the checkpoints, requests for help and crashes

ASSUME RoutingAssumption ==
    /\ ChannelCap \in Nat \ {0}
    /\ Targets \in Nat \ {0}
    /\ MaxRuns \in Nat
    /\ MaxExtras \in Nat

VARIABLES run,       \* run[t][a]: run of the last dispatch of t to a, 0 if none
          lastRun,   \* run identifiers made so far
          working,   \* <<t, a>>: a works on t and has not reported anything yet
          tx,        \* team_notify_tx is set
          channel,   \* requests on their way to the redispatch task
          store,     \* pending-completions.jsonl
          turn,      \* the event the redispatch task carries to the lead
          updated,   \* events whose post_update is in the lead's ledger
          extras     \* checkpoints, requests for help and crashes so far

notifyVars  == <<tx, channel, store, turn, updated>>
envVars     == <<working, extras>>
routingVars == <<registryVars, run, lastRun, notifyVars, envVars>>

\* TeamRoutingEventKind, by review_required_kind; "news" stands for the kinds that
\* are neither reviewed nor ever stale: completed, accepted, reopened and help.
Reviewed == {"submitted", "blocked", "failed", "missing"}
Kind     == Reviewed \cup {"checkpoint", "news"}

Event == [kind : Kind, task : Task, run : 1..MaxRuns]

\* review is the ReviewAttemptMetadata of a request or a record: "none" if there
\* is no metadata, "later" until next_attempt_at, "due" after it.
Record == [event : Event, review : {"none", "due", "later"}]

\* A request on its way to the lead: the targets left, whether post_update was
\* called for the present one, and what comes next.
LeadTurn == [req : Record, left : 1..Targets, told : BOOLEAN, phase : {"turn", "deliver", "defer"}]

ASSUME NoTurnAssumption == NoTurn \notin LeadTurn

\* TeamNotifyRequest of a new event, and PendingRoutingRecord::from_envelope.
Direct(e)  == [event |-> e, review |-> "none"]
Pending(e) == [event |-> e, review |-> IF e.kind \in Reviewed THEN "due" ELSE "none"]

\* defer_until and note_failed_attempt change nothing without metadata.
Deferred(r) == [r EXCEPT !.review = IF @ = "none" THEN @ ELSE "later"]

\* Faulty variant: records with metadata are not looked at again.
ReadyIfPlain(r) == r.review = "none"

ReadyForRetry(r) == r.review # "later"

EventsOf(s) == {s[i].event : i \in DOMAIN s}

RoomAlways(n) == ChannelCap   \* Faulty variant: what is queued is forgotten.

Room(n) == IF n < ChannelCap THEN ChannelCap - n ELSE 0

\* What a flush sends: the records that are ready, in their order, as long as
\* the channel takes them.
IsReady           == {r \in Record : ReadyForRetry(r)}
Sendable(s, room) == Prefix(Filter(s, IsReady), room)

\* The record at i is sent: there is room for the ready records up to it.
Sent(s, room, i) == s[i] \in IsReady /\ Len(FilterUpTo(s, IsReady)[i]) <= room

Kept(s, room, K) == Filter([i \in 1..Len(s) |-> i], {i \in 1..Len(s) : Sent(s, room, i) => s[i] \in K})

\* Faulty variant: everything that was sent is removed.
FlushedAll(s, room) ==
    LET keep == Kept(s, room, {})
    IN  [k \in 1..Len(keep) |-> s[keep[k]]]

\* What it leaves in the file: what was not sent and, put off by 120 seconds,
\* what was sent with metadata.
Flushed(s, room) ==
    LET keep == Kept(s, room, {r \in Record : r.review # "none"})
    IN  [k \in 1..Len(keep) |-> IF Sent(s, room, keep[k]) THEN Deferred(s[keep[k]])
                                                          ELSE s[keep[k]]]

RemoveRun(s, r) == Filter(s, {x \in Record : x.event.run # r})

UpsertByTask(s, x) ==   \* Faulty variant: a record of another run of the task is replaced.
    LET same == {i \in DOMAIN s : s[i].event.task = x.event.task}
    IN  IF same = {} THEN Append(s, x)
        ELSE [s EXCEPT ![CHOOSE i \in same : \A j \in same : i <= j] = x]

\* upsert_pending_completion_record replaces the first record of the same run.
Upsert(s, x) ==
    LET same == {i \in DOMAIN s : s[i].event.run = x.event.run}
    IN  IF same = {} THEN Append(s, x)
        ELSE [s EXCEPT ![CHOOSE i \in same : \A j \in same : i <= j] = x]

RoutingInit ==
    /\ RegistryInit
    /\ run = [t \in Task |-> [a \in Agent |-> 0]]
    /\ lastRun = 0
    /\ working = {}
    /\ tx = FALSE
    /\ channel = <<>>
    /\ store = <<>>
    /\ turn = NoTurn
    /\ updated = {}
    /\ extras = 0
-----------------------------------------------------------------------------
(* Emitting an event, under pending_store_lock *)

EmitUnlessFull(e) ==   \* Faulty variant: an event the channel refuses is dropped.
    IF ~tx
    THEN store' = Append(store, Pending(e)) /\ UNCHANGED channel
    ELSE LET room  == Room(Len(channel))
             queue == channel \o Sendable(store, room)
         IN  /\ store' = Flushed(store, room)
             /\ channel' = IF Len(queue) < ChannelCap THEN Append(queue, Direct(e)) ELSE queue

\* dispatch_team_routing_event: without a channel the event is stored, else the
\* file is flushed first and the event sent, or stored when the channel is full.
Emit(e) ==
    IF ~tx
    THEN store' = Append(store, Pending(e)) /\ UNCHANGED channel
    ELSE LET room  == Room(Len(channel))
             left  == Flushed(store, room)
             queue == channel \o Sendable(store, room)
         IN  IF Len(queue) < ChannelCap
             THEN channel' = Append(queue, Direct(e)) /\ store' = left
             ELSE channel' = queue /\ store' = Append(left, Pending(e))

\* build_routing_envelope: the run of the dispatch, or a new one if the
\* orchestrator knows of no dispatch of the task to that agent.
Notify(kind, t, known) ==
    /\ known = 0 => lastRun < MaxRuns
    /\ lastRun' = IF known = 0 THEN lastRun + 1 ELSE lastRun
    /\ Emit([kind |-> kind, task |-> t, run |-> IF known = 0 THEN lastRun + 1 ELSE known])
    /\ UNCHANGED <<run, tx, turn, updated>>

\* A specialist acts: its turn will not be classified as a missing completion.
Acts(t, a) == working' = working \ {<<t, a>>}
-----------------------------------------------------------------------------
(* The operations that emit events *)

Register(t, a) ==
    /\ status[t] = "absent"
    /\ CreateTask(t, a, {})
    /\ UNCHANGED <<run, lastRun, notifyVars, envVars>>

\* The heartbeat claims a ready task, and dispatch_fn calls record_dispatch_start.
Dispatch(t, a) ==
    /\ t \in FindReadyTasks
    /\ assignee[t] = a
    /\ lastRun < MaxRuns
    /\ TryClaim(t, a)
    /\ lastRun' = lastRun + 1
    /\ run' = [run EXCEPT ![t][a] = lastRun + 1]
    /\ working' = working \cup {<<t, a>>}
    /\ UNCHANGED <<notifyVars, extras>>

\* handle_specialist_submitted
Submitted(t, a) ==
    /\ SubmitTaskResult(t, a)
    /\ Notify("submitted", t, run[t][a])
    /\ Acts(t, a) /\ UNCHANGED extras

\* handle_specialist_done
Completed(t, a) ==
    /\ MarkDone(t, a)
    /\ Notify("news", t, run[t][a])
    /\ Acts(t, a) /\ UNCHANGED extras

\* handle_specialist_blocked releases the claim.
Blocked(t, a) ==
    /\ ClaimedBy(t, a)
    /\ ResetClaim(t)
    /\ Notify("blocked", t, run[t][a])
    /\ Acts(t, a) /\ UNCHANGED extras

\* handle_specialist_checkpoint and handle_specialist_help_requested look at no
\* status: they may follow the submission in the same turn.
Reports(kind, t, a) ==
    /\ run[t][a] # 0
    /\ extras < MaxExtras
    /\ extras' = extras + 1
    /\ Notify(kind, t, run[t][a])
    /\ Acts(t, a)
    /\ UNCHANGED registryVars

\* handle_specialist_missing_completion, after a turn without any action.
MissingCompletion(t, a) ==
    /\ <<t, a>> \in working
    /\ HoldClaim(t, a) \/ (~ClaimedBy(t, a) /\ UNCHANGED registryVars)
    /\ Notify("missing", t, run[t][a])
    /\ Acts(t, a) /\ UNCHANGED extras

\* The heartbeat finds an overdue claim: reset, or failed for good.
StaleClaim(t) ==
    /\ t \in FindStaleClaimed
    /\ IF retry[t] = MaxRetries
       THEN MarkFailed(t) /\ Notify("failed", t, run[t][holder[t]])
       ELSE ResetClaim(t) /\ UNCHANGED <<run, lastRun, notifyVars>>
    /\ UNCHANGED <<working, extras>>

ClaimExpires(t) == Expire(t) /\ UNCHANGED <<run, lastRun, notifyVars, envVars>>

\* accept_submitted_task and reopen_submitted_task speak for the lead, which has
\* no dispatch; assign_task emits nothing.
Accepted(t) == AcceptTask(t) /\ Notify("news", t, 0) /\ UNCHANGED <<working, extras>>

Reopened(t) == ReopenTask(t) /\ Notify("news", t, 0) /\ UNCHANGED <<working, extras>>

Assigned(t, a) == ReassignTask(t, a) /\ UNCHANGED <<run, lastRun, notifyVars, envVars>>
-----------------------------------------------------------------------------
(* Flushing outside of a dispatch *)

\* retry_due_pending_routing_events, every 5 seconds, and set_lead_session_key.
Flush ==
    /\ tx
    /\ LET room == Room(Len(channel))
       IN  /\ channel' = channel \o Sendable(store, room)
           /\ store' = Flushed(store, room)
    /\ UNCHANGED <<registryVars, run, lastRun, tx, turn, updated, envVars>>

\* set_team_notify_tx
SetNotifyTx ==
    /\ ~tx
    /\ tx' = TRUE
    /\ channel' = Sendable(store, Room(0))
    /\ store' = Flushed(store, Room(0))
    /\ UNCHANGED <<registryVars, run, lastRun, turn, updated, envVars>>

\* The time of the next attempt comes.
BackoffEnds(i) ==
    /\ store[i].review = "later"
    /\ store' = [store EXCEPT ![i].review = "due"]
    /\ UNCHANGED <<registryVars, run, lastRun, tx, channel, turn, updated, envVars>>

\* The process dies.  The table, the file and the lead's ledger remain.
Crash ==
    /\ extras < MaxExtras
    /\ extras' = extras + 1
    /\ run' = [t \in Task |-> [a \in Agent |-> 0]]
    /\ working' = {}
    /\ tx' = FALSE
    /\ channel' = <<>>
    /\ turn' = NoTurn
    /\ UNCHANGED <<registryVars, lastRun, store, updated>>
-----------------------------------------------------------------------------
(* The redispatch task *)

\* routing_event_is_stale_for_delivery
Stale(e) == \/ e.kind = "checkpoint" /\ status[e.task] \in {"submitted"} \cup Terminal
            \/ e.kind = "submitted" /\ status[e.task] \in Terminal

\* routing_event_still_requires_resolution_after_delivery; only a request with
\* metadata can have its post_update found.
StillRequires(r) ==
    LET e    == r.event
        told == r.review # "none" /\ e \in updated
    IN  \/ e.kind = "submitted" /\ status[e.task] = "submitted"
        \/ e.kind = "missing" /\ status[e.task] = "held"
        \/ e.kind = "blocked" /\ status[e.task] = "held" /\ ~told
        \/ e.kind = "failed" /\ status[e.task] # "absent" /\ ~told

\* A stale event is delivered without a turn of the lead.
Receive ==
    /\ turn = NoTurn
    /\ channel # <<>>
    /\ channel' = Tail(channel)
    /\ turn' = [req |-> Head(channel), left |-> Targets, told |-> FALSE,
                phase |-> IF Stale(Head(channel).event) THEN "deliver" ELSE "turn"]
    /\ UNCHANGED <<registryVars, run, lastRun, tx, store, updated, envVars>>

InTurn == turn # NoTurn /\ turn.phase = "turn"

\* The lead calls post_update in its turn.  The task is recorded with it only in
\* a review attempt; it answers the event of that task stored before.
PostUpdate ==
    /\ InTurn
    /\ ~turn.told
    /\ turn' = [turn EXCEPT !.told = TRUE]
    /\ updated' = IF turn.req.review = "none" THEN updated
                  ELSE updated \cup {e \in EventsOf(store) \cup {turn.req.event} :
                                        e.task = turn.req.event.task}
    /\ UNCHANGED <<registryVars, run, lastRun, tx, channel, store, envVars>>

\* The attempt failed: the next target, or the end of the attempts.
NextAttempt ==
    /\ turn' = IF turn.left > 1 THEN [turn EXCEPT !.left = @ - 1, !.told = FALSE]
                                ELSE [turn EXCEPT !.phase = "defer"]
    /\ UNCHANGED <<registryVars, run, lastRun, tx, channel, store, updated, envVars>>

TurnUnresolved == InTurn /\ StillRequires(turn.req) /\ NextAttempt

TurnError == InTurn /\ NextAttempt

TurnResolves ==
    /\ InTurn
    /\ ~StillRequires(turn.req)
    /\ turn' = [turn EXCEPT !.phase = "deliver"]
    /\ UNCHANGED <<registryVars, run, lastRun, tx, channel, store, updated, envVars>>

\* mark_routing_event_delivered clears every record of the run;
\* persist_pending_routing_record puts the request back with a later attempt.
Settle ==
    /\ turn # NoTurn
    /\ turn.phase # "turn"
    /\ turn' = NoTurn
    /\ store' = IF turn.phase = "deliver" THEN RemoveRun(store, turn.req.event.run)
                                          ELSE Upsert(store, Deferred(turn.req))
    /\ UNCHANGED <<registryVars, run, lastRun, tx, channel, updated, envVars>>

TurnEnds == TurnUnresolved \/ TurnResolves

Redispatch == Receive \/ PostUpdate \/ TurnError \/ TurnEnds \/ Settle

\* The gateway registers the orchestrator after it has set the channel: until then
\* nobody reaches a handler.
Handlers ==
    /\ tx
    /\ \E t \in Task :
          \/ ClaimExpires(t) \/ StaleClaim(t) \/ Accepted(t) \/ Reopened(t)
          \/ \E a \in Agent :
                \/ Register(t, a) \/ Dispatch(t, a) \/ Assigned(t, a)
                \/ Submitted(t, a) \/ Completed(t, a) \/ Blocked(t, a)
                \/ MissingCompletion(t, a)
                \/ \E kind \in {"checkpoint", "news"} : Reports(kind, t, a)

Next == Handlers \/ Redispatch \/ Flush \/ SetNotifyTx \/ Crash
        \/ \E i \in DOMAIN store : BackoffEnds(i)

\* The redispatch task and the retry ticker run for ever, turns of the lead end,
\* the gateway comes up, and the time of the oldest record comes.
Fairness ==
    /\ WF_routingVars(Receive)
    /\ WF_routingVars(TurnEnds)
    /\ WF_routingVars(Settle)
    /\ WF_routingVars(SetNotifyTx)
    /\ WF_routingVars(Flush)
    /\ WF_routingVars(store # <<>> /\ BackoffEnds(1))

RoutingSafety == RoutingInit /\ [][Next]_routingVars
RoutingSpec   == RoutingSafety /\ Fairness
-----------------------------------------------------------------------------
(* Properties *)

\* The events that are somewhere on their way to the lead.
Carried == IF turn = NoTurn THEN {} ELSE {turn.req.event}
UnderWay == EventsOf(channel) \cup EventsOf(store) \cup Carried

OldestOf(s) == IF s = <<>> THEN NoTurn ELSE Head(s).event

\* Every variable has its type; the channel keeps its capacity, an event that
\* needs no review never carries review metadata, and only a record of the file
\* waits for its time.
RoutingTypeOK ==
    /\ RegistryTypeOK
    /\ run \in [Task -> [Agent -> 0..MaxRuns]]
    /\ lastRun \in 0..MaxRuns
    /\ working \subseteq Task \X Agent
    /\ tx \in BOOLEAN
    /\ channel \in Seq(Record) /\ Len(channel) <= ChannelCap
    /\ store \in Seq(Record)
    /\ turn \in LeadTurn \cup {NoTurn}
    /\ updated \subseteq Event
    /\ \A i \in DOMAIN channel : channel[i].review # "later"
    /\ \A s \in {channel, store} : \A i \in DOMAIN s :
          s[i].review # "none" => s[i].event.kind \in Reviewed

\* The event that tells the lead of a status.
Tells == [submitted |-> "submitted", held |-> "missing", failed |-> "failed"]

\* No event is dropped: not by a full channel, a flush, a failed turn or a new
\* event.  An event is on its way when its task is submitted, held or failed, and
\* leaves when the redispatch task has settled an event of its run, or with the
\* process that held it in memory alone.
NoticeIsCarried ==
    [][/\ \A t \in Task :
             status'[t] # status[t] /\ status'[t] \in DOMAIN Tells
                 => \E e \in UnderWay' : /\ e.task = t
                                         /\ e.kind = Tells[status'[t]]
                                         /\ e.run \in {run[t][holder[t]], lastRun'}
       /\ \A e \in UnderWay : \/ e \in UnderWay'
                              \/ Settle /\ turn.req.event.run = e.run
                              \/ Crash /\ e \notin EventsOf(store)]_routingVars

\* The events that are stored for review.
Reviews == {store[i].event : i \in {k \in DOMAIN store : store[k].review # "none"}}

\* An event stored for review stays in the file, through flushes, turns of the
\* lead and crashes, until an event of its run has been settled: while it is
\* being reviewed, a crash loses nothing.
ReviewStaysOnDisk ==
    [][\A e \in Reviews : e \in Reviews' \/ (Settle /\ turn.req.event.run = e.run)]_routingVars

\* The channel, the file and the redispatch task keep the promise of a board of
\* notices: the lead hears of nothing that no operation has emitted, one operation
\* posts one event, a delivery clears the reviews of its run, and a failed one
\* puts the event back.
Board == INSTANCE NoticeBoard WITH Notice <- Event, board <- UnderWay, kept <- Reviews
BoardSpec == Board!Spec

\* The oldest record of the file does not stay there without the lead hearing of
\* it, whatever fills the channel and however often turns fail: again and again
\* the file is empty or the lead has the oldest event before it, or else another
\* record becomes the oldest (a flush goes before a new event and in the order of
\* the file, and no backoff lasts).
OldestReachesLead ==
    \/ []<>(store = <<>> \/ Head(store).event \in Carried)
    \/ []<><<OldestOf(store)' # OldestOf(store)>>_routingVars
-----------------------------------------------------------------------------
(* What the code says of itself, and does not keep *)

\* A pending event that requires review stays persisted until its delivery is
\* explicitly resolved, and that of a submission is not before the status of the task
\* changes (review_required_pending_event_stays_persisted_until_explicit_delivery_
\* resolution, submitted_delivery_requires_explicit_resolution_until_status_changes):
\* at the least, the stored submission of a task that waits for review does not vanish.
SubmittedIsNoticed ==
    [][\A e \in EventsOf(store) :
          e.kind = "submitted" /\ status[e.task] = "submitted" => e \in UnderWay'
      ]_routingVars
=============================================================================
