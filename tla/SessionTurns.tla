---------------------------- MODULE SessionTurns ----------------------------
(***************************************************************************)
(* Turns of agents and the sessions they belong to: handle_with_context of *)
(* agent_core/registry.rs with the permit and the task reminder of a       *)
(* session, the metadata file that session/manager.rs loads and saves      *)
(* without a lock, the workers of agent_core/runtime_dispatch.rs, and the  *)
(* relay of a reply to a second agent.  Between any two of the steps of a  *)
(* turn other turns, a reset of the conversation or a crash may come.      *)
(*                                                                         *)
(* Left out: routing and prompts, messages, events, slash commands other   *)
(* than those that reset, turns that end before they reach a backend,      *)
(* failures of the file system.  A session has one backend, a reply at     *)
(* most one relay.                                                         *)
(***************************************************************************)
EXTENDS Naturals, Sequences, FiniteSets

CONSTANTS Turn,          \* slots for turns in progress, nested ones included
          Session,
          Specialist,    \* sessions of specialists, which heartbeats alone address
          RelaySession,  \* session of a relay out of a session, None for a lead's
          Task,
          Fingerprint,   \* configurations of the backend
          Workers,       \* threads that run turns
          MaxResets,     \* bound on the resets of a session
          None           \* no identifier, configuration, task, turn or session

ASSUME TurnsAssumption ==
    /\ Specialist \subseteq Session
    /\ RelaySession \in [Session -> Session \cup {None}]
    /\ Fingerprint # {}
    /\ Workers \in Nat \ {0}
    /\ MaxResets \in Nat
    /\ None \notin Turn \cup Session \cup Task \cup Fingerprint
    /\ None \notin [made : Fingerprint, conv : 0..MaxResets]

\* "{scope}:{agent}" is longer than scope, so relays never come back.
ASSUME RelaysEnd ==
    \E left \in [Session -> 0..Cardinality(Session)] :
        \A s \in Session : RelaySession[s] # None => left[RelaySession[s]] < left[s]

VARIABLES up,        \* the gateway runs
          config,    \* fingerprint of the configured backend
          meta,      \* metadata.json of each session
          resets,    \* resets of each session so far
          permit,    \* turns that hold (the first) or wait for the session's permit
          reminder,  \* team_task_reminders
          turn,      \* the turns in progress
          jobs,      \* turns at each worker, the first of them running
          next       \* worker of the next turn

turnVars == <<up, config, meta, resets, permit, reminder, turn, jobs, next>>

Worker == 0..Workers - 1

\* A session of the backend: the configuration it was made under, and which
\* conversation it holds, counted by the resets before it.
BackendSession == [made : Fingerprint, conv : 0..MaxResets]

\* SessionMeta: backend_session_ids, backend_resume_fingerprints, session_status.
Meta == [id      : BackendSession \cup {None},
         fp      : Fingerprint \cup {None},
         running : BOOLEAN]

NoMeta == [id |-> None, fp |-> None, running |-> FALSE]

Holding == {"load", "drop", "begin", "begun", "queued", "recover", "recovered",
            "complete", "completed"}

FreeTurn == [phase |-> "free", session |-> None, task |-> None, told |-> None,
             parent |-> None, conv |-> 0, resume |-> None, local |-> NoMeta,
             emitted |-> None, stamp |-> None, relays |-> FALSE]

NewTurn(s, t, p) == [FreeTurn EXCEPT !.phase = "waiting", !.session = s, !.task = t,
                                     !.parent = p]

TurnsInit ==
    /\ up = FALSE
    /\ config \in Fingerprint
    /\ meta = [s \in Session |-> NoMeta]
    /\ resets = [s \in Session |-> 0]
    /\ permit = [s \in Session |-> <<>>]
    /\ reminder = [s \in Session |-> None]
    /\ turn = [u \in Turn |-> FreeTurn]
    /\ jobs = [w \in Worker |-> <<>>]
    /\ next = 0

\* The next step of u: what a turn in progress does to its own record.
Step(u, phase, r) ==
    /\ turn[u].phase = phase
    /\ turn' = [turn EXCEPT ![u] = r]

Load(u)    == meta[turn[u].session]
Save(u, m) == meta' = [meta EXCEPT ![turn[u].session] = m]
-----------------------------------------------------------------------------
(* A turn comes and waits for the permit of its session *)

\* A message for a session.  The dispatch of a task to a specialist first sets
\* the reminder of the specialist's session.
Arrive(u, s, t) ==
    /\ up
    /\ (t = None) = (s \notin Specialist)
    /\ Step(u, "free", NewTurn(s, t, None))
    /\ permit' = [permit EXCEPT ![s] = Append(@, u)]
    /\ reminder' = [reminder EXCEPT ![s] = IF t = None THEN @ ELSE t]
    /\ UNCHANGED <<up, config, meta, resets, jobs, next>>

\* The permit is u's: it reads the messages and takes the reminder.
Acquire(u) ==
    LET s == turn[u].session
    IN  /\ turn[u].phase = "waiting"
        /\ permit[s] # <<>> /\ u = Head(permit[s])
        /\ Step(u, "waiting", [turn[u] EXCEPT !.phase = "load", !.told = reminder[s],
                                              !.conv = resets[s]])
        /\ reminder' = [reminder EXCEPT ![s] = None]
        /\ UNCHANGED <<up, config, meta, resets, permit, jobs, next>>
-----------------------------------------------------------------------------
(* The metadata before the turn *)

\* Faulty variant: an identifier of another configuration is left where it is.
ResumableKept(u) ==
    LET m == Load(u)
    IN  /\ Step(u, "load",
                IF m.id # None /\ m.fp = config
                THEN [turn[u] EXCEPT !.phase = "begin", !.resume = m.id]
                ELSE [turn[u] EXCEPT !.phase = "begin"])
        /\ UNCHANGED <<up, config, meta, resets, permit, reminder, jobs, next>>

\* load_resumable_backend_session_id: reuse, nothing to reuse, or drop.
Resumable(u) ==
    LET m == Load(u)
    IN  /\ Step(u, "load",
                IF m.id = None THEN [turn[u] EXCEPT !.phase = "begin"]
                ELSE IF m.fp = config
                THEN [turn[u] EXCEPT !.phase = "begin", !.resume = m.id]
                ELSE [turn[u] EXCEPT !.phase = "drop",
                                     !.local = [m EXCEPT !.id = None, !.fp = None]])
        /\ UNCHANGED <<up, config, meta, resets, permit, reminder, jobs, next>>

DropStale(u) ==
    /\ Step(u, "drop", [turn[u] EXCEPT !.phase = "begin", !.local = NoMeta])
    /\ Save(u, turn[u].local)
    /\ UNCHANGED <<up, config, resets, permit, reminder, jobs, next>>

\* begin_turn
BeginLoad(u) ==
    /\ Step(u, "begin", [turn[u] EXCEPT !.phase = "begun",
                                        !.local = [Load(u) EXCEPT !.running = TRUE]])
    /\ UNCHANGED <<up, config, meta, resets, permit, reminder, jobs, next>>

Counted(w) == w + 1   \* Faulty variant: the counter is used as it is.

Following(w) == (w + 1) % Workers

\* ... and RuntimeWorkerPool::execute: the workers take turns, busy or not.
BeginSave(u) ==
    /\ Step(u, "begun", [turn[u] EXCEPT !.phase = "queued", !.local = NoMeta])
    /\ Save(u, turn[u].local)
    /\ jobs' = [jobs EXCEPT ![next] = Append(@, u)]
    /\ next' = Following(next)
    /\ UNCHANGED <<up, config, resets, permit, reminder>>
-----------------------------------------------------------------------------
(* The turn at the backend *)

\* run_dispatch_job gives the outcome: the identifier of a new session of the
\* backend or none, the configuration it ran under, or an error.  A resumed session
\* may turn out to be unusable; then a new one is made and the old one dropped.
RunTurn(u) ==
    LET fresh == [made |-> config, conv |-> turn[u].conv]
    IN  /\ \E w \in Worker :
              /\ jobs[w] # <<>> /\ Head(jobs[w]) = u
              /\ jobs' = [jobs EXCEPT ![w] = Tail(@)]
        /\ \/ \E id \in {None, fresh} :
                 Step(u, "queued", [turn[u] EXCEPT !.phase = "complete", !.emitted = id,
                                                   !.stamp = config])
           \/ turn[u].resume # None
              /\ Step(u, "queued", [turn[u] EXCEPT !.phase = "recover", !.emitted = fresh,
                                                   !.stamp = config])
           \/ Step(u, "queued", [turn[u] EXCEPT !.phase = "complete"])
        /\ UNCHANGED <<up, config, meta, resets, permit, reminder, next>>
-----------------------------------------------------------------------------
(* The metadata after the turn *)

\* drop_backend_resume_state
RecoverLoad(u) ==
    /\ Step(u, "recover", [turn[u] EXCEPT !.phase = "recovered",
                              !.local = [Load(u) EXCEPT !.id = None, !.fp = None]])
    /\ UNCHANGED <<up, config, meta, resets, permit, reminder, jobs, next>>

RecoverSave(u) ==
    /\ Step(u, "recovered", [turn[u] EXCEPT !.phase = "complete", !.local = NoMeta])
    /\ Save(u, turn[u].local)
    /\ UNCHANGED <<up, config, resets, permit, reminder, jobs, next>>

\* complete_turn, whatever the outcome
CompleteLoad(u) ==
    LET e == turn[u].emitted
        f == turn[u].stamp
    IN  /\ Step(u, "complete",
                [turn[u] EXCEPT !.phase = "completed",
                                !.local = [id      |-> IF e = None THEN Load(u).id ELSE e,
                                           fp      |-> IF f = None THEN Load(u).fp ELSE f,
                                           running |-> FALSE]])
        /\ UNCHANGED <<up, config, meta, resets, permit, reminder, jobs, next>>

\* Faulty variant: a failed turn returns before its end is written.
SaveIfOk(u) ==
    /\ Step(u, "completed", [turn[u] EXCEPT !.phase = "post", !.local = NoMeta,
                                            !.relays = turn[u].stamp # None])
    /\ IF turn[u].stamp = None THEN UNCHANGED meta ELSE Save(u, turn[u].local)
    /\ UNCHANGED <<up, config, resets, permit, reminder, jobs, next>>

\* An error is returned after that, and is not relayed.
CompleteSave(u) ==
    /\ Step(u, "completed", [turn[u] EXCEPT !.phase = "post", !.local = NoMeta,
                                            !.relays = turn[u].stamp # None])
    /\ Save(u, turn[u].local)
    /\ UNCHANGED <<up, config, resets, permit, reminder, jobs, next>>
-----------------------------------------------------------------------------
(* After the turn *)

OwnSession(s) == s   \* Faulty variant: the relay is a turn of the same session.

\* The session key that RelayDispatchFn makes.
RelayKey(s) == RelaySession[s]

\* apply_relay_hook: the reply asks for a turn of another agent.  The turn that
\* asks waits for its end, with its permit.
Relay(u, v) ==
    LET s == RelayKey(turn[u].session)
    IN  /\ turn[u].phase = "post" /\ turn[u].relays
        /\ RelaySession[turn[u].session] # None
        /\ turn[v].phase = "free"
        /\ turn' = [turn EXCEPT ![u].phase = "relaying", ![u].relays = FALSE,
                                ![v] = NewTurn(s, None, u)]
        /\ permit' = [permit EXCEPT ![s] = Append(@, v)]
        /\ UNCHANGED <<up, config, meta, resets, reminder, jobs, next>>

\* handle_with_context returns; the permit goes to the next turn in line, and a
\* turn that waits for the reply goes on.
Leave(u) ==
    /\ turn[u].phase = "post"
    /\ permit' = [permit EXCEPT ![turn[u].session] = Tail(@)]
    /\ turn' = [v \in Turn |-> IF v = u THEN FreeTurn
                               ELSE IF v = turn[u].parent
                               THEN [turn[v] EXCEPT !.phase = "post"]
                               ELSE turn[v]]
    /\ UNCHANGED <<up, config, meta, resets, reminder, jobs, next>>
-----------------------------------------------------------------------------
(* Other users of the metadata *)

\* Faulty variant: the messages go, the sessions of the backend stay.
ResetMessages(s) ==
    /\ up
    /\ resets[s] < MaxResets
    /\ resets' = [resets EXCEPT ![s] = @ + 1]
    /\ meta' = [meta EXCEPT ![s].running = FALSE]
    /\ UNCHANGED <<up, config, permit, reminder, turn, jobs, next>>

\* reset_conversation, by /reset, /clear, DELETE /api/sessions and a missing
\* completion.  None of them waits for the permit; it leaves nothing of what it loads.
ResetConversation(s) ==
    /\ up
    /\ resets[s] < MaxResets
    /\ resets' = [resets EXCEPT ![s] = @ + 1]
    /\ meta' = [meta EXCEPT ![s] = NoMeta]
    /\ UNCHANGED <<up, config, permit, reminder, turn, jobs, next>>

\* The process dies; the metadata is all that remains.
Crash ==
    /\ up
    /\ up' = FALSE
    /\ permit' = [s \in Session |-> <<>>]
    /\ reminder' = [s \in Session |-> None]
    /\ turn' = [u \in Turn |-> FreeTurn]
    /\ jobs' = [w \in Worker |-> <<>>]
    /\ next' = 0
    /\ UNCHANGED <<config, meta, resets>>

\* The gateway starts, maybe with another configuration: recover_stuck_sessions.
Start ==
    /\ ~up
    /\ up' = TRUE
    /\ config' \in Fingerprint
    /\ meta' = [s \in Session |-> [meta[s] EXCEPT !.running = FALSE]]
    /\ UNCHANGED <<resets, permit, reminder, turn, jobs, next>>

TurnStep(u) ==
    \/ Acquire(u) \/ Resumable(u) \/ DropStale(u) \/ BeginLoad(u) \/ BeginSave(u)
    \/ RunTurn(u) \/ RecoverLoad(u) \/ RecoverSave(u) \/ CompleteLoad(u)
    \/ CompleteSave(u) \/ Leave(u)

Next ==
    \/ \E u \in Turn :
          \/ TurnStep(u)
          \/ \E v \in Turn : Relay(u, v)
          \/ \E s \in Session, t \in Task \cup {None} : Arrive(u, s, t)
    \/ \E s \in Session : ResetConversation(s)
    \/ Crash
    \/ Start

\* A turn with the permit goes on, the first turn of a worker ends (backends have
\* timeouts), and a turn that is first in line gets the permit.
Fairness == \A u \in Turn : WF_turnVars(TurnStep(u))

TurnsSafety == TurnsInit /\ [][Next]_turnVars
TurnsSpec   == TurnsSafety /\ Fairness
-----------------------------------------------------------------------------
(* Properties *)

TurnRecord == [phase   : Holding \cup {"free", "waiting", "post", "relaying"},
               session : Session \cup {None},
               task    : Task \cup {None},
               told    : Task \cup {None},
               parent  : Turn \cup {None},
               conv    : 0..MaxResets,
               resume  : BackendSession \cup {None},
               local   : Meta,
               emitted : BackendSession \cup {None},
               stamp   : Fingerprint \cup {None},
               relays  : BOOLEAN]

\* Every variable has its type, a turn in progress has a session, and the next
\* worker is one of the pool.
SessionTypeOK ==
    /\ up \in BOOLEAN
    /\ config \in Fingerprint
    /\ meta \in [Session -> Meta]
    /\ resets \in [Session -> 0..MaxResets]
    /\ permit \in [Session -> Seq(Turn)]
    /\ reminder \in [Session -> Task \cup {None}]
    /\ turn \in [Turn -> TurnRecord]
    /\ jobs \in [Worker -> Seq(Turn)]
    /\ next \in Worker
    /\ \A u \in Turn : turn[u].phase # "free" => turn[u].session \in Session

\* A turn resumes a session of the backend only under the configuration that made
\* it, whatever crashes, restarts with another configuration, resets and failed
\* turns came between: otherwise load_resumable_backend_session_id drops it.
ResumeMatches ==
    \A u \in Turn : turn[u].resume # None => turn[u].resume.made = config

\* A session that is marked Running has a turn in progress as long as the gateway
\* runs: neither a failed turn, nor a reset, nor a crash leaves it Running.
RunningMeansTurn ==
    up => \A s \in Session : meta[s].running =>
            \E u \in Turn : turn[u].session = s /\ turn[u].phase \in Holding

\* The identifier in the file holds a conversation from before the last reset.
Remembers(s) == meta[s].id # None /\ meta[s].id.conv < resets[s]

\* Once a conversation is reset its session of the backend comes back to the file
\* only through a turn that had the permit during the reset and writes its end, or
\* its beginning, over it.
ForgottenUnlessUnderWay ==
    [][\A s \in Session :
          Remembers(s)' /\ ~Remembers(s)
             => \E u \in Turn : /\ turn[u].session = s
                                /\ turn[u].phase \in {"begun", "completed"}
                                /\ turn[u].conv < resets[s]]_turnVars

\* The next step of u needs no other turn.
CanMove(u) ==
    LET line == permit[turn[u].session]
    IN  \/ turn[u].phase = "waiting" /\ line # <<>> /\ Head(line) = u
        \/ turn[u].phase = "queued" /\ \E w \in Worker : jobs[w] # <<>> /\ Head(jobs[w]) = u
        \/ turn[u].phase \in (Holding \ {"queued"}) \cup {"post"}

\* v is first in the line where u stands, or the turn whose reply u relays.
WaitsFor(u, v) ==
    LET line == permit[turn[u].session]
    IN  \/ turn[u].phase = "waiting" /\ line # <<>> /\ Head(line) = v
        \/ turn[u].phase = "queued" /\ \E w \in Worker :
              \E i \in 2..Len(jobs[w]) : jobs[w][i] = u /\ Head(jobs[w]) = v
        \/ turn[u].phase = "relaying" /\ turn[v].parent = u

InProgress == {u \in Turn : turn[u].phase # "free"}

\* Turns never block one another: among any turns in progress one can move, or
\* waits for one that is in progress outside, whatever lines for permits, queues
\* of busy workers and turns that wait for turns come together.
NoneWaitInACircle ==
    \A D \in (SUBSET InProgress) \ {{}} :
        \E u \in D : CanMove(u) \/ \E v \in InProgress \ D : WaitsFor(u, v)

\* Every turn ends: lines for permits, queues of workers that do not look who is
\* free, and turns that wait for turns never block one another.
TurnsEnd == \A u \in Turn : turn[u].phase # "free" ~> turn[u].phase = "free"
-----------------------------------------------------------------------------
(* What the code says of itself, and does not keep *)

\* A dispatched turn is told about its own task.
TurnIsTold ==
    \A u \in Turn : turn[u].task # None /\ turn[u].phase \in Holding
                       => turn[u].told = turn[u].task
=============================================================================
