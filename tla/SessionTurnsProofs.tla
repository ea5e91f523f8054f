------------------------- MODULE SessionTurnsProofs -------------------------
(***************************************************************************)
(* Theorems about turns and sessions, for any number of turns, sessions,   *)
(* workers, resets and configurations.                                     *)
(***************************************************************************)
EXTENDS SessionTurns, TLAPS

-----------------------------------------------------------------------------
(* The inductive invariant *)

\* Turns that have the permit of their session.
Inside == Holding \cup {"post", "relaying"}

\* The permit keeps turns of one session apart: who is inside is first in line.
InsideIsFirst ==
    \A u \in Turn : turn[u].phase \in Inside =>
        permit[turn[u].session] # <<>> /\ Head(permit[turn[u].session]) = u

\* A relayed turn has a turn that waits for it, and that one waits for no other.
ParentsWait ==
    /\ \A u \in Turn : turn[u].parent # None => turn[turn[u].parent].phase = "relaying"
    /\ \A u, v \in Turn : turn[u].parent # None /\ turn[u].parent = turn[v].parent => u = v

DownIsIdle == ~up => \A u \in Turn : turn[u] = FreeTurn

\* Metadata that names the configuration of its session of the backend, or none.
Matches(m) == m.id # None => m.id.made = m.fp

\* Metadata that the running gateway may complete with its own configuration.
Current(m) == m.id # None => m.id.made = config

Begun == {"begin", "begun", "queued", "recover", "recovered", "complete", "completed"}

\* What a turn carries is of the present configuration.
TurnMatches(u) ==
    /\ Matches(turn[u].local) /\ Current(turn[u].local)
    /\ turn[u].resume # None => turn[u].resume.made = config
    /\ turn[u].stamp \in {None, config}
    /\ turn[u].emitted # None => turn[u].stamp = config /\ turn[u].emitted.made = config

ConfigsMatch ==
    /\ \A s \in Session : Matches(meta[s])
    /\ \A u \in Turn : TurnMatches(u)
    /\ \A u \in Turn : turn[u].phase \in Begun => Current(meta[turn[u].session])

Marked == {"queued", "recover", "recovered", "complete", "completed"}

\* Only a turn after begin_turn marks its session, and its end unmarks it.
RunningIsMarked ==
    /\ up => \A s \in Session : meta[s].running =>
                \E u \in Turn : turn[u].session = s /\ turn[u].phase \in Marked
    /\ \A u \in Turn : turn[u].phase \in {"drop", "completed"} => ~turn[u].local.running

\* What u would write is forgotten in its conversation only if the file already
\* remembers what was forgotten.
YoungLocal(u) ==
    /\ turn[u].phase \in {"begun", "completed"}
    /\ turn[u].conv = resets[turn[u].session]
    /\ turn[u].local.id # None
    /\ turn[u].local.id.conv < turn[u].conv
    => Remembers(turn[u].session)

\* What a turn is about to write is not older than what is there, unless the
\* conversation was reset since it began.
WritesAreYoung ==
    \A u \in Turn :
        /\ turn[u].session # None => turn[u].conv <= resets[turn[u].session]
        /\ turn[u].emitted # None => turn[u].emitted.conv = turn[u].conv
        /\ turn[u].phase = "waiting" => turn[u].emitted = None
        /\ turn[u].phase \in {"drop", "recovered"} => turn[u].local.id = None
        /\ YoungLocal(u)

PermitInv == SessionTypeOK /\ InsideIsFirst /\ ParentsWait /\ DownIsIdle

TurnsInv == PermitInv /\ ConfigsMatch /\ RunningIsMarked /\ WritesAreYoung
-----------------------------------------------------------------------------
(* Types *)

\* The steps of a turn between its permit and its end.
Works(u) == \/ Resumable(u) \/ DropStale(u) \/ BeginLoad(u) \/ BeginSave(u) \/ RunTurn(u)
            \/ RecoverLoad(u) \/ RecoverSave(u) \/ CompleteLoad(u) \/ CompleteSave(u)

\* A counter of the workers stays a worker.
LEMMA FollowingIsWorker == ASSUME NEW w \in Worker PROVE Following(w) \in Worker
<1>1. \A a \in Nat, b \in Nat \ {0} : a % b \in 0..b - 1
  OBVIOUS
<1>2. w + 1 \in Nat /\ Workers \in Nat \ {0}
  BY TurnsAssumption DEF TurnsAssumption, Worker
<1> QED
  BY <1>1, <1>2 DEF Following, Worker

\* A new turn and a free one are turns.
LEMMA NoMetaType == NoMeta \in Meta
  BY DEF NoMeta, Meta

LEMMA FreeTurnType == FreeTurn \in TurnRecord
<1>1. 0 \in 0..MaxResets
  BY TurnsAssumption DEF TurnsAssumption
<1> QED
  BY <1>1, NoMetaType DEF FreeTurn, TurnRecord

LEMMA NewTurnType ==
    ASSUME NEW s \in Session, NEW t \in Task \cup {None}, NEW p \in Turn \cup {None}
    PROVE  NewTurn(s, t, p) \in TurnRecord
  BY FreeTurnType DEF NewTurn, TurnRecord

LEMMA NewTurnFields ==
    ASSUME NEW s, NEW t, NEW p
    PROVE  /\ NewTurn(s, t, p).phase = "waiting" /\ NewTurn(s, t, p).session = s
           /\ NewTurn(s, t, p).parent = p /\ NewTurn(s, t, p).local = NoMeta
           /\ NewTurn(s, t, p).resume = None /\ NewTurn(s, t, p).stamp = None
           /\ NewTurn(s, t, p).emitted = None /\ NewTurn(s, t, p).conv = 0
  BY DEF NewTurn, FreeTurn

LEMMA TypeInit == TurnsInit => SessionTypeOK
<1>1. 0 \in Worker /\ 0 \in 0..MaxResets
  BY TurnsAssumption DEF TurnsAssumption, Worker
<1> QED
  BY <1>1, NoMetaType, FreeTurnType DEF TurnsInit, SessionTypeOK, FreeTurn

\* A turn that gets another record of its session is still one.
LEMMA Rewritten ==
    ASSUME SessionTypeOK, NEW u \in Turn, NEW r \in TurnRecord, r.session \in Session,
           turn' = [turn EXCEPT ![u] = r]
    PROVE  /\ turn' \in [Turn -> TurnRecord]
           /\ \A v \in Turn : turn'[v].phase # "free" => turn'[v].session \in Session
  BY DEF SessionTypeOK

\* The two turns that a relay changes.
LEMMA RelayTurns ==
    ASSUME SessionTypeOK, NEW u \in Turn, NEW v \in Turn, Relay(u, v)
    PROVE  /\ u # v /\ turn[u].phase = "post" /\ turn[v].phase = "free"
           /\ turn[u].session \in Session /\ RelayKey(turn[u].session) \in Session
           /\ turn'[u].phase = "relaying" /\ turn'[u].session = turn[u].session
           /\ turn'[u].parent = turn[u].parent /\ turn'[u].conv = turn[u].conv
           /\ turn'[u].local = turn[u].local /\ turn'[u].resume = turn[u].resume
           /\ turn'[u].stamp = turn[u].stamp /\ turn'[u].emitted = turn[u].emitted
           /\ turn'[u] \in TurnRecord
           /\ turn'[v] = NewTurn(RelayKey(turn[u].session), None, u)
           /\ \A w \in Turn \ {u, v} : turn'[w] = turn[w]
           /\ turn' \in [Turn -> TurnRecord]
           /\ UNCHANGED <<up, config, meta, resets, reminder, jobs, next>>
<1> DEFINE a == [turn[u] EXCEPT !.phase = "relaying", !.relays = FALSE]
           b == NewTurn(RelayKey(turn[u].session), None, u)
<1>1. /\ turn \in [Turn -> TurnRecord] /\ turn[u].phase = "post" /\ turn[v].phase = "free"
      /\ u # v
  BY DEF SessionTypeOK, Relay
<1>2. turn[u].session \in Session /\ RelayKey(turn[u].session) \in Session
  BY <1>1, TurnsAssumption DEF TurnsAssumption, SessionTypeOK, Relay, RelayKey
<1>3. DOMAIN turn[u] = {"phase", "session", "task", "told", "parent", "conv", "resume",
                        "local", "emitted", "stamp", "relays"}
  BY <1>1 DEF TurnRecord
<1>4. /\ a.phase = "relaying" /\ a.session = turn[u].session /\ a.parent = turn[u].parent
      /\ a.conv = turn[u].conv /\ a.local = turn[u].local /\ a.resume = turn[u].resume
      /\ a.stamp = turn[u].stamp /\ a.emitted = turn[u].emitted
  BY <1>3
<1>5. a \in TurnRecord
  BY <1>1 DEF TurnRecord
<1>6. b \in TurnRecord
  BY <1>2, NewTurnType
<1>7. turn' = [turn EXCEPT ![u] = a, ![v] = b]
  BY <1>1 DEF Relay
<1>8. UNCHANGED <<up, config, meta, resets, reminder, jobs, next>>
  BY DEF Relay
<1> HIDE DEF a, b
<1>9. turn'[u] = a /\ turn'[v] = b /\ \A w \in Turn \ {u, v} : turn'[w] = turn[w]
  BY <1>1, <1>7
<1>10. turn' \in [Turn -> TurnRecord]
  BY <1>1, <1>5, <1>6, <1>7
<1> QED
  BY <1>1, <1>2, <1>4, <1>5, <1>8, <1>9, <1>10 DEF b

\* The outcome of a turn at the backend fits its record.
LEMMA OutcomeRecord ==
    ASSUME NEW r \in TurnRecord, NEW p \in {"complete", "recover"},
           NEW id \in BackendSession \cup {None}, NEW f \in Fingerprint \cup {None}
    PROVE  [r EXCEPT !.phase = p, !.emitted = id, !.stamp = f] \in TurnRecord
<1>1. p \in Holding
  BY DEF Holding
<1> QED
  BY <1>1 DEF TurnRecord

\* A turn that moves on; with other metadata at hand; with a session to resume.
Passes(r, p)     == [r EXCEPT !.phase = p]
Moved(r, p, m)   == [r EXCEPT !.phase = p, !.local = m]
Resumed(r, p, i) == [r EXCEPT !.phase = p, !.resume = i]
Ended(r, m, b)   == [r EXCEPT !.phase = "post", !.local = m, !.relays = b]

LEMMA MovedRecord ==
    ASSUME NEW r \in TurnRecord, NEW p \in Holding \cup {"post"}, NEW m \in Meta
    PROVE  /\ Passes(r, p) \in TurnRecord /\ Passes(r, p).session = r.session
           /\ Passes(r, p).parent = r.parent /\ Passes(r, p).phase = p
           /\ Moved(r, p, m) \in TurnRecord /\ Moved(r, p, m).session = r.session
<1>1. Passes(r, p) \in TurnRecord
  BY DEF Passes, TurnRecord
<1>2. Moved(r, p, m) \in TurnRecord
  BY DEF Moved, TurnRecord
<1>3. DOMAIN r = {"phase", "session", "task", "told", "parent", "conv", "resume", "local",
                  "emitted", "stamp", "relays"}
  BY DEF TurnRecord
<1> QED
  BY <1>1, <1>2, <1>3 DEF Passes, Moved

LEMMA ResumedRecord ==
    ASSUME NEW r \in TurnRecord, NEW p \in Holding, NEW i \in BackendSession
    PROVE  Resumed(r, p, i) \in TurnRecord /\ Resumed(r, p, i).session = r.session
<1>1. Resumed(r, p, i) \in TurnRecord
  BY DEF Resumed, TurnRecord
<1> QED
  BY <1>1 DEF Resumed, TurnRecord

LEMMA EndedRecord ==
    ASSUME NEW r \in TurnRecord, NEW m \in Meta, NEW b \in BOOLEAN
    PROVE  Ended(r, m, b) \in TurnRecord /\ Ended(r, m, b).session = r.session
<1>1. Ended(r, m, b) \in TurnRecord
  BY DEF Ended, TurnRecord
<1> QED
  BY <1>1 DEF Ended, TurnRecord

\* What run_dispatch_job returns: an identifier of the present configuration, made
\* in the conversation of the turn, or none, and no error after an identifier.
LEMMA RunTurnRecord ==
    ASSUME SessionTypeOK, NEW u \in Turn, RunTurn(u)
    PROVE  \E r \in TurnRecord :
              /\ turn' = [turn EXCEPT ![u] = r]
              /\ r.phase \in {"complete", "recover"}
              /\ r.session = turn[u].session /\ r.parent = turn[u].parent
              /\ r.conv = turn[u].conv /\ r.resume = turn[u].resume
              /\ r.local = turn[u].local
              /\ \/ r.emitted = turn[u].emitted /\ r.stamp = turn[u].stamp
                 \/ r.emitted = None /\ r.stamp = config
                 \/ /\ r.emitted # None /\ r.stamp = config
                    /\ r.emitted.made = config /\ r.emitted.conv = turn[u].conv
<1> DEFINE fresh == [made |-> config, conv |-> turn[u].conv]
           After(p, id, f) == [turn[u] EXCEPT !.phase = p, !.emitted = id, !.stamp = f]
<1>1. turn[u] \in TurnRecord /\ config \in Fingerprint
  BY DEF SessionTypeOK
<1>2. /\ fresh \in BackendSession
      /\ fresh.made = config /\ fresh.conv = turn[u].conv
  BY <1>1 DEF BackendSession, TurnRecord
<1>3. turn[u].emitted \in BackendSession \cup {None} /\ turn[u].stamp \in Fingerprint \cup {None}
  BY <1>1 DEF TurnRecord
<1>4. PICK p \in {"complete", "recover"}, id \in BackendSession \cup {None},
           f \in Fingerprint \cup {None} :
         /\ turn' = [turn EXCEPT ![u] = After(p, id, f)]
         /\ \/ id = turn[u].emitted /\ f = turn[u].stamp
            \/ id = None /\ f = config
            \/ id = fresh /\ f = config
  <2>1. CASE turn' = [turn EXCEPT ![u] = [turn[u] EXCEPT !.phase = "complete"]]
    <3>1. [turn[u] EXCEPT !.phase = "complete"]
             = After("complete", turn[u].emitted, turn[u].stamp)
      BY <1>1 DEF TurnRecord
    <3> QED
      BY <1>3, <2>1, <3>1
  <2>2. CASE \E id \in {None, fresh} : turn' = [turn EXCEPT ![u] = After("complete", id, config)]
    BY <1>1, <1>2, <2>2
  <2>3. CASE turn' = [turn EXCEPT ![u] = After("recover", fresh, config)]
    BY <1>1, <1>2, <2>3
  <2> QED
    BY <2>1, <2>2, <2>3 DEF RunTurn, Step
<1>5. After(p, id, f) \in TurnRecord
  BY <1>1, OutcomeRecord
<1>6. fresh # None
  BY <1>2, TurnsAssumption DEF TurnsAssumption, BackendSession
<1> QED
  BY <1>1, <1>2, <1>4, <1>5, <1>6 DEF TurnRecord

\* The steps between the permit and the end of a turn keep the types.
LEMMA TypeWork ==
    ASSUME SessionTypeOK, NEW u \in Turn, Works(u)
    PROVE  SessionTypeOK'
<1>1. /\ turn[u] \in TurnRecord /\ turn[u].session \in Session
      /\ meta \in [Session -> Meta] /\ meta[turn[u].session] \in Meta
      /\ config \in Fingerprint /\ jobs \in [Worker -> Seq(Turn)] /\ next \in Worker
  BY DEF SessionTypeOK, Works, Step, Resumable, DropStale, BeginLoad, BeginSave, RunTurn,
         RecoverLoad, RecoverSave, CompleteLoad, CompleteSave
<1>2. UNCHANGED <<up, config, resets, permit, reminder>>
  BY DEF Works, Resumable, DropStale, BeginLoad, BeginSave, RunTurn, RecoverLoad,
         RecoverSave, CompleteLoad, CompleteSave
<1>3. \E r \in TurnRecord : r.session = turn[u].session /\ turn' = [turn EXCEPT ![u] = r]
  <2>0. /\ "begin" \in Holding /\ "drop" \in Holding /\ "begun" \in Holding
        /\ "queued" \in Holding /\ "recovered" \in Holding /\ "complete" \in Holding
        /\ "completed" \in Holding
    BY DEF Holding
  <2>00. /\ turn[u] \in TurnRecord
         /\ DOMAIN turn[u] = {"phase", "session", "task", "told", "parent", "conv", "resume",
                              "local", "emitted", "stamp", "relays"}
    BY <1>1 DEF TurnRecord
  <2>1. CASE Resumable(u)
    <3> DEFINE m == meta[turn[u].session]
               gone == [m EXCEPT !.id = None, !.fp = None]
    <3>1. gone \in Meta /\ (m.id # None => m.id \in BackendSession)
      BY <1>1 DEF Meta
    <3>2. \/ turn' = [turn EXCEPT ![u] = Passes(turn[u], "begin")]
          \/ turn' = [turn EXCEPT ![u] = Moved(turn[u], "drop", gone)]
          \/ m.id # None /\ turn' = [turn EXCEPT ![u] = Resumed(turn[u], "begin", m.id)]
      BY <2>1 DEF Resumable, Step, Load, Passes, Moved, Resumed
    <3> HIDE DEF gone
    <3>3. CASE turn' = [turn EXCEPT ![u] = Passes(turn[u], "begin")]
      BY <1>1, <2>0, <3>3, MovedRecord, NoMetaType
    <3>4. CASE turn' = [turn EXCEPT ![u] = Moved(turn[u], "drop", gone)]
      <4>1. Moved(turn[u], "drop", gone) \in TurnRecord
        BY <2>00, <2>0, <3>1, MovedRecord
      <4>2. Moved(turn[u], "drop", gone).session = turn[u].session
        BY <2>00 DEF Moved
      <4> QED
        BY <3>4, <4>1, <4>2
    <3>5. CASE m.id # None /\ turn' = [turn EXCEPT ![u] = Resumed(turn[u], "begin", m.id)]
      BY <1>1, <2>0, <3>1, <3>5, ResumedRecord
    <3> QED
      BY <3>2, <3>3, <3>4, <3>5
  <2>2. CASE DropStale(u)
    <3> DEFINE m == NoMeta
    <3>1. m \in Meta
      BY <1>1, NoMetaType DEF Meta
    <3>2. turn' = [turn EXCEPT ![u] = Moved(turn[u], "begin", m)]
      BY <2>2 DEF DropStale, Step, Load, Moved
    <3> HIDE DEF m
    <3>3. Moved(turn[u], "begin", m) \in TurnRecord
      BY <2>00, <2>0, <3>1, MovedRecord
    <3>4. Moved(turn[u], "begin", m).session = turn[u].session
      BY <2>00 DEF Moved
    <3> QED
      BY <3>2, <3>3, <3>4
  <2>3. CASE BeginLoad(u)
    <3> DEFINE m == [meta[turn[u].session] EXCEPT !.running = TRUE]
    <3>1. m \in Meta
      BY <1>1, NoMetaType DEF Meta
    <3>2. turn' = [turn EXCEPT ![u] = Moved(turn[u], "begun", m)]
      BY <2>3 DEF BeginLoad, Step, Load, Moved
    <3> HIDE DEF m
    <3>3. Moved(turn[u], "begun", m) \in TurnRecord
      BY <2>00, <2>0, <3>1, MovedRecord
    <3>4. Moved(turn[u], "begun", m).session = turn[u].session
      BY <2>00 DEF Moved
    <3> QED
      BY <3>2, <3>3, <3>4
  <2>4. CASE BeginSave(u)
    <3> DEFINE m == NoMeta
    <3>1. m \in Meta
      BY <1>1, NoMetaType DEF Meta
    <3>2. turn' = [turn EXCEPT ![u] = Moved(turn[u], "queued", m)]
      BY <2>4 DEF BeginSave, Step, Load, Moved
    <3> HIDE DEF m
    <3>3. Moved(turn[u], "queued", m) \in TurnRecord
      BY <2>00, <2>0, <3>1, MovedRecord
    <3>4. Moved(turn[u], "queued", m).session = turn[u].session
      BY <2>00 DEF Moved
    <3> QED
      BY <3>2, <3>3, <3>4
  <2>5. CASE RunTurn(u)
    BY <2>5, RunTurnRecord
  <2>6. CASE RecoverLoad(u)
    <3> DEFINE m == [meta[turn[u].session] EXCEPT !.id = None, !.fp = None]
    <3>1. m \in Meta
      BY <1>1, NoMetaType DEF Meta
    <3>2. turn' = [turn EXCEPT ![u] = Moved(turn[u], "recovered", m)]
      BY <2>6 DEF RecoverLoad, Step, Load, Moved
    <3> HIDE DEF m
    <3>3. Moved(turn[u], "recovered", m) \in TurnRecord
      BY <2>00, <2>0, <3>1, MovedRecord
    <3>4. Moved(turn[u], "recovered", m).session = turn[u].session
      BY <2>00 DEF Moved
    <3> QED
      BY <3>2, <3>3, <3>4
  <2>7. CASE RecoverSave(u)
    <3> DEFINE m == NoMeta
    <3>1. m \in Meta
      BY <1>1, NoMetaType DEF Meta
    <3>2. turn' = [turn EXCEPT ![u] = Moved(turn[u], "complete", m)]
      BY <2>7 DEF RecoverSave, Step, Load, Moved
    <3> HIDE DEF m
    <3>3. Moved(turn[u], "complete", m) \in TurnRecord
      BY <2>00, <2>0, <3>1, MovedRecord
    <3>4. Moved(turn[u], "complete", m).session = turn[u].session
      BY <2>00 DEF Moved
    <3> QED
      BY <3>2, <3>3, <3>4
  <2>8. CASE CompleteLoad(u)
    <3> DEFINE m == [id |-> IF turn[u].emitted = None THEN meta[turn[u].session].id
                               ELSE turn[u].emitted,
                     fp |-> IF turn[u].stamp = None THEN meta[turn[u].session].fp
                               ELSE turn[u].stamp,
                     running |-> FALSE]
    <3>1. m \in Meta
      BY <1>1, NoMetaType DEF Meta, TurnRecord
    <3>2. turn' = [turn EXCEPT ![u] = Moved(turn[u], "completed", m)]
      BY <2>8 DEF CompleteLoad, Step, Load, Moved
    <3> HIDE DEF m
    <3>3. Moved(turn[u], "completed", m) \in TurnRecord
      BY <2>00, <2>0, <3>1, MovedRecord
    <3>4. Moved(turn[u], "completed", m).session = turn[u].session
      BY <2>00 DEF Moved
    <3> QED
      BY <3>2, <3>3, <3>4
  <2>9. CASE CompleteSave(u)
    <3>1. turn' = [turn EXCEPT ![u] = Ended(turn[u], NoMeta, turn[u].stamp # None)]
      BY <2>9 DEF CompleteSave, Step, Ended
    <3>2. (turn[u].stamp # None) \in BOOLEAN
      OBVIOUS
    <3> QED
      BY <2>00, <3>1, <3>2, NoMetaType, EndedRecord
  <2> QED
    BY <2>1, <2>2, <2>3, <2>4, <2>5, <2>6, <2>7, <2>8, <2>9 DEF Works
<1>4. meta' \in [Session -> Meta]
  <2>1. turn[u].local \in Meta
    BY <1>1 DEF TurnRecord
  <2> QED
    BY <1>1, <2>1 DEF Works, Save, Resumable, DropStale, BeginLoad, BeginSave, RunTurn,
       RecoverLoad, RecoverSave, CompleteLoad, CompleteSave
<1>5. jobs' \in [Worker -> Seq(Turn)]
  <2>1. CASE RunTurn(u)
    BY <1>1, <2>1 DEF RunTurn
  <2>2. CASE BeginSave(u)
    BY <1>1, <2>2 DEF BeginSave
  <2>3. CASE ~RunTurn(u) /\ ~BeginSave(u)
    BY <1>1, <2>3 DEF Works, Resumable, DropStale, BeginLoad, RecoverLoad, RecoverSave,
       CompleteLoad, CompleteSave
  <2> QED
    BY <2>1, <2>2, <2>3
<1>6. next' \in Worker
  BY <1>1, FollowingIsWorker DEF Works, Resumable, DropStale, BeginLoad, BeginSave, RunTurn,
     RecoverLoad, RecoverSave, CompleteLoad, CompleteSave
<1> QED
  BY <1>1, <1>2, <1>3, <1>4, <1>5, <1>6, Rewritten DEF SessionTypeOK

\* Where a step between the permit and the end takes its turn; only the end of the
\* turn at the backend gives it a result.
LEMMA WorkMoves ==
    ASSUME SessionTypeOK, NEW u \in Turn, Works(u)
    PROVE  /\ ~RunTurn(u) => turn'[u].emitted = turn[u].emitted
           /\ \/ Resumable(u) /\ turn[u].phase = "load" /\ turn'[u].phase \in {"begin", "drop"}
              \/ DropStale(u) /\ turn[u].phase = "drop" /\ turn'[u].phase = "begin"
              \/ BeginLoad(u) /\ turn[u].phase = "begin" /\ turn'[u].phase = "begun"
              \/ BeginSave(u) /\ turn[u].phase = "begun" /\ turn'[u].phase = "queued"
              \/ /\ RunTurn(u) /\ turn[u].phase = "queued"
                 /\ turn'[u].phase \in {"complete", "recover"}
              \/ RecoverLoad(u) /\ turn[u].phase = "recover" /\ turn'[u].phase = "recovered"
              \/ RecoverSave(u) /\ turn[u].phase = "recovered" /\ turn'[u].phase = "complete"
              \/ /\ CompleteLoad(u) /\ turn[u].phase = "complete"
                 /\ turn'[u].phase = "completed"
              \/ CompleteSave(u) /\ turn[u].phase = "completed" /\ turn'[u].phase = "post"
<1> DEFINE F == DOMAIN turn[u]
<1>1. /\ turn \in [Turn -> TurnRecord] /\ turn[u] = [x \in F |-> turn[u][x]]
      /\ F = {"phase", "session", "task", "told", "parent", "conv", "resume", "local",
              "emitted", "stamp", "relays"}
  BY DEF SessionTypeOK, TurnRecord
<1>2. CASE Resumable(u)
  BY <1>1, <1>2 DEF Step, Resumable
<1>3. CASE DropStale(u)
  BY <1>1, <1>3 DEF Step, DropStale
<1>4. CASE BeginLoad(u)
  BY <1>1, <1>4 DEF Step, BeginLoad
<1>5. CASE BeginSave(u)
  BY <1>1, <1>5 DEF Step, BeginSave
<1>6. CASE RunTurn(u)
  <2>1. turn[u].phase = "queued"
    BY <1>6 DEF RunTurn, Step
  <2>2. PICK r \in TurnRecord : /\ turn' = [turn EXCEPT ![u] = r]
                                /\ r.phase \in {"complete", "recover"}
    BY <1>6, RunTurnRecord
  <2> QED
    BY <1>1, <1>6, <2>1, <2>2
<1>7. CASE RecoverLoad(u)
  BY <1>1, <1>7 DEF Step, RecoverLoad
<1>8. CASE RecoverSave(u)
  BY <1>1, <1>8 DEF Step, RecoverSave
<1>9. CASE CompleteLoad(u)
  BY <1>1, <1>9 DEF Step, CompleteLoad
<1>10. CASE CompleteSave(u)
  BY <1>1, <1>10 DEF Step, CompleteSave
<1> QED
  BY <1>2, <1>3, <1>4, <1>5, <1>6, <1>7, <1>8, <1>9, <1>10 DEF Works

\* What the steps between the permit and the end have in common: they move their
\* own turn on, and leave the permits alone.
LEMMA WorkAdvances ==
    ASSUME SessionTypeOK, NEW u \in Turn, Works(u)
    PROVE  /\ turn[u].phase \in Holding
           /\ turn'[u].phase \in Holding \cup {"post"}
           /\ turn'[u].session = turn[u].session
           /\ turn'[u].parent = turn[u].parent
           /\ turn'[u].conv = turn[u].conv
           /\ \A v \in Turn \ {u} : turn'[v] = turn[v]
           /\ UNCHANGED <<up, config, resets, permit, reminder>>
<1>1. turn \in [Turn -> TurnRecord]
  BY DEF SessionTypeOK
<1> USE DEF Step, Holding
<1>2. CASE Resumable(u)
  BY <1>1, <1>2 DEF Resumable, TurnRecord
<1>3. CASE DropStale(u)
  BY <1>1, <1>3 DEF DropStale, TurnRecord
<1>4. CASE BeginLoad(u)
  BY <1>1, <1>4 DEF BeginLoad, TurnRecord
<1>5. CASE BeginSave(u)
  BY <1>1, <1>5 DEF BeginSave, TurnRecord
<1>6. CASE RunTurn(u)
  <2>1. turn[u].phase = "queued" /\ UNCHANGED <<up, config, resets, permit, reminder>>
    BY <1>6 DEF RunTurn
  <2> QED
    BY <1>1, <1>6, <2>1, RunTurnRecord
<1>7. CASE RecoverLoad(u)
  BY <1>1, <1>7 DEF RecoverLoad, TurnRecord
<1>8. CASE RecoverSave(u)
  BY <1>1, <1>8 DEF RecoverSave, TurnRecord
<1>9. CASE CompleteLoad(u)
  BY <1>1, <1>9 DEF CompleteLoad, TurnRecord
<1>10. CASE CompleteSave(u)
  BY <1>1, <1>10 DEF CompleteSave, TurnRecord
<1> QED
  BY <1>2, <1>3, <1>4, <1>5, <1>6, <1>7, <1>8, <1>9, <1>10 DEF Works
-----------------------------------------------------------------------------
(* Permits and relays *)

\* A step of the program, by what it does to permits and turns.
LEMMA Steps ==
    ASSUME Next
    PROVE  \/ \E u \in Turn : Acquire(u) \/ Works(u) \/ Leave(u)
           \/ \E u, v \in Turn : Relay(u, v)
           \/ \E u \in Turn, s \in Session, t \in Task \cup {None} : Arrive(u, s, t)
           \/ \E s \in Session : ResetConversation(s)
           \/ Crash
           \/ Start
  BY DEF Next, TurnStep, Works

LEMMA PermitInit == TurnsInit => PermitInv
<1>1. TurnsInit => InsideIsFirst /\ ParentsWait /\ DownIsIdle
  BY DEF TurnsInit, InsideIsFirst, ParentsWait, DownIsIdle, FreeTurn, Inside, Holding
<1> QED
  BY <1>1, TypeInit DEF PermitInv

\* A turn in progress means that the gateway runs.
LEMMA InProgressIsUp ==
    ASSUME PermitInv, NEW u \in Turn, turn[u].phase # "free" PROVE up
  BY DEF PermitInv, DownIsIdle, FreeTurn

\* Two turns of one session are never both inside.
LEMMA InsideIsAlone ==
    ASSUME PermitInv, NEW u \in Turn, NEW v \in Turn,
           turn[u].phase \in Inside, turn[v].phase \in Inside,
           turn[u].session = turn[v].session
    PROVE  u = v
  BY DEF PermitInv, InsideIsFirst

LEMMA PermitWork == ASSUME PermitInv, NEW u \in Turn, Works(u) PROVE PermitInv'
<1>1. SessionTypeOK'
  BY TypeWork DEF PermitInv
<1>2. /\ turn[u].phase \in Holding
      /\ turn'[u].phase \in Holding \cup {"post"}
      /\ turn'[u].session = turn[u].session
      /\ turn'[u].parent = turn[u].parent
      /\ \A v \in Turn \ {u} : turn'[v] = turn[v]
      /\ UNCHANGED <<up, permit>>
  BY WorkAdvances DEF PermitInv
<1>3. InsideIsFirst'
  BY <1>2 DEF PermitInv, InsideIsFirst, Inside
<1>4. ParentsWait'
  <2>1. \A v \in Turn : turn'[v].parent = turn[v].parent
    BY <1>2
  <2>2. \A v \in Turn : turn[v].phase = "relaying" => turn'[v].phase = "relaying"
    BY <1>2 DEF Holding
  <2> QED
    BY <1>1, <2>1, <2>2 DEF PermitInv, ParentsWait, SessionTypeOK, TurnRecord
<1>5. DownIsIdle'
  BY <1>2, InProgressIsUp DEF DownIsIdle, Holding
<1> QED
  BY <1>1, <1>3, <1>4, <1>5 DEF PermitInv

LEMMA PermitAcquire == ASSUME PermitInv, NEW u \in Turn, Acquire(u) PROVE PermitInv'
<1>1. /\ turn[u] \in TurnRecord /\ turn[u].session \in Session
      /\ reminder \in [Session -> Task \cup {None}] /\ resets \in [Session -> 0..MaxResets]
      /\ turn[u].phase = "waiting"
  BY DEF PermitInv, SessionTypeOK, Acquire
<1>2. PICK r \in TurnRecord :
         /\ r.phase = "load" /\ r.session = turn[u].session /\ r.parent = turn[u].parent
         /\ turn' = [turn EXCEPT ![u] = r]
  BY <1>1 DEF Acquire, Step, TurnRecord, Holding
<1>3. reminder' \in [Session -> Task \cup {None}]
  BY <1>1 DEF Acquire
<1>4. SessionTypeOK'
  BY <1>1, <1>2, <1>3, Rewritten DEF PermitInv, SessionTypeOK, Acquire
<1>5. InsideIsFirst'
  BY <1>1, <1>2 DEF PermitInv, SessionTypeOK, Acquire, InsideIsFirst, Inside
<1>6. ParentsWait'
  BY <1>1, <1>2 DEF PermitInv, SessionTypeOK, ParentsWait, TurnRecord
<1>7. DownIsIdle'
  BY <1>1, InProgressIsUp DEF Acquire, DownIsIdle
<1> QED
  BY <1>4, <1>5, <1>6, <1>7 DEF PermitInv

\* The permit goes to the next in line, and a turn that waited for a reply goes on.
LEMMA PermitLeave == ASSUME PermitInv, NEW u \in Turn, Leave(u) PROVE PermitInv'
<1>1. /\ turn \in [Turn -> TurnRecord] /\ turn[u].session \in Session
      /\ permit \in [Session -> Seq(Turn)] /\ permit[turn[u].session] # <<>>
      /\ turn[u].phase = "post"
  BY DEF PermitInv, SessionTypeOK, Leave, InsideIsFirst, Inside
<1>2. \A v \in Turn : v # u =>
         /\ turn'[v] \in TurnRecord
         /\ turn'[v].session = turn[v].session /\ turn'[v].parent = turn[v].parent
         /\ IF v = turn[u].parent THEN turn[v].phase = "relaying" /\ turn'[v].phase = "post"
                                  ELSE turn'[v] = turn[v]
  <2> SUFFICES ASSUME NEW v \in Turn, v # u
               PROVE  /\ turn'[v] \in TurnRecord
                      /\ turn'[v].session = turn[v].session
                      /\ turn'[v].parent = turn[v].parent
                      /\ IF v = turn[u].parent
                         THEN turn[v].phase = "relaying" /\ turn'[v].phase = "post"
                         ELSE turn'[v] = turn[v]
    OBVIOUS
  <2>1. v # None
    BY TurnsAssumption DEF TurnsAssumption
  <2>2. CASE v = turn[u].parent
    <3>1. turn[v].phase = "relaying"
      BY <2>1, <2>2 DEF PermitInv, ParentsWait
    <3>2. turn'[v] = Passes(turn[v], "post")
      BY <2>2 DEF Leave, Passes
    <3> QED
      BY <1>1, <2>2, <3>1, <3>2, MovedRecord, NoMetaType
  <2>3. CASE v # turn[u].parent
    BY <1>1, <2>3 DEF Leave
  <2> QED
    BY <2>2, <2>3
<1>3. turn'[u] = FreeTurn /\ turn' = [v \in Turn |-> turn'[v]]
  BY DEF Leave
<1>4. SessionTypeOK'
  <2>1. permit' \in [Session -> Seq(Turn)]
    BY <1>1 DEF Leave
  <2>2. turn' \in [Turn -> TurnRecord]
    BY <1>2, <1>3, FreeTurnType
  <2>3. \A v \in Turn : turn'[v].phase # "free" => turn'[v].session \in Session
    <3>1. turn'[u].phase = "free"
      BY <1>3 DEF FreeTurn
    <3>2. \A v \in Turn : turn[v].phase # "free" => turn[v].session \in Session
      BY DEF PermitInv, SessionTypeOK
    <3> QED
      BY <1>2, <3>1, <3>2
  <2> QED
    BY <2>1, <2>2, <2>3 DEF PermitInv, SessionTypeOK, Leave
<1>5. InsideIsFirst'
  <2> SUFFICES ASSUME NEW v \in Turn, turn'[v].phase \in Inside
               PROVE  /\ permit'[turn'[v].session] # <<>>
                      /\ Head(permit'[turn'[v].session]) = v
    BY DEF InsideIsFirst
  <2>1. v # u /\ turn[v].phase \in Inside /\ turn'[v].session = turn[v].session
    BY <1>2, <1>3 DEF FreeTurn, Inside, Holding
  <2>2. turn[v].session # turn[u].session
    BY <1>1, <2>1, InsideIsAlone DEF Inside
  <2>3. turn[v].session \in Session
    BY <2>1 DEF PermitInv, SessionTypeOK, Inside, Holding
  <2>4. permit'[turn[v].session] = permit[turn[v].session]
    BY <1>1, <2>2, <2>3 DEF Leave
  <2> QED
    BY <2>1, <2>4 DEF PermitInv, InsideIsFirst
<1>6. ParentsWait'
  <2>1. \A v \in Turn : turn'[v].parent # None =>
           /\ v # u /\ turn'[v].parent = turn[v].parent
           /\ turn[v].parent \in Turn /\ turn[v].parent # turn[u].parent
           /\ turn[v].parent # u
    BY <1>1, <1>2, <1>3 DEF PermitInv, ParentsWait, FreeTurn, TurnRecord
  <2>2. \A v \in Turn : turn'[v].parent # None => turn'[turn[v].parent] = turn[turn[v].parent]
    BY <1>2, <2>1
  <2> QED
    BY <2>1, <2>2 DEF PermitInv, ParentsWait
<1>7. DownIsIdle'
  BY <1>1, InProgressIsUp DEF Leave, DownIsIdle
<1> QED
  BY <1>4, <1>5, <1>6, <1>7 DEF PermitInv

\* A turn that comes joins the end of a line, with or without a turn that waits
\* for it.
LEMMA PermitArrive ==
    ASSUME PermitInv, NEW u \in Turn, NEW s \in Session, NEW t \in Task \cup {None},
           Arrive(u, s, t)
    PROVE  PermitInv'
<1>1. /\ turn \in [Turn -> TurnRecord] /\ permit \in [Session -> Seq(Turn)]
      /\ reminder \in [Session -> Task \cup {None}]
  BY DEF PermitInv, SessionTypeOK
<1>2. /\ NewTurn(s, t, None) \in TurnRecord
      /\ NewTurn(s, t, None).session = s /\ NewTurn(s, t, None).parent = None
      /\ NewTurn(s, t, None).phase = "waiting"
  BY NewTurnType DEF NewTurn, FreeTurn
<1>3. /\ turn[u].phase = "free" /\ turn' = [turn EXCEPT ![u] = NewTurn(s, t, None)]
      /\ permit' = [permit EXCEPT ![s] = Append(@, u)]
      /\ UNCHANGED <<up, config, meta, resets, jobs, next>>
  BY DEF Arrive, Step
<1>4. reminder' \in [Session -> Task \cup {None}]
  BY <1>1 DEF Arrive
<1>5. SessionTypeOK'
  <2>1. permit' \in [Session -> Seq(Turn)]
    BY <1>1, <1>3
  <2> QED
    BY <1>2, <1>3, <1>4, <2>1, Rewritten DEF PermitInv, SessionTypeOK
<1>6. InsideIsFirst'
  <2> SUFFICES ASSUME NEW w \in Turn, turn'[w].phase \in Inside
               PROVE  /\ permit'[turn'[w].session] # <<>>
                      /\ Head(permit'[turn'[w].session]) = w
    BY DEF InsideIsFirst
  <2>1. turn'[w] = turn[w] /\ turn[w].phase \in Inside /\ turn[w].session \in Session
    BY <1>1, <1>2, <1>3 DEF PermitInv, SessionTypeOK, Inside, Holding
  <2>2. permit[turn[w].session] # <<>> /\ Head(permit[turn[w].session]) = w
    BY <2>1 DEF PermitInv, InsideIsFirst
  <2> QED
    BY <1>1, <1>3, <2>1, <2>2
<1>7. ParentsWait'
  BY <1>1, <1>2, <1>3 DEF PermitInv, ParentsWait, TurnRecord
<1>8. DownIsIdle'
  BY DEF Arrive, DownIsIdle
<1> QED
  BY <1>5, <1>6, <1>7, <1>8 DEF PermitInv

LEMMA PermitRelay ==
    ASSUME PermitInv, NEW u \in Turn, NEW v \in Turn, Relay(u, v) PROVE PermitInv'
<1> DEFINE s == RelayKey(turn[u].session)
<1>1. /\ permit \in [Session -> Seq(Turn)] /\ s \in Session
      /\ permit' = [permit EXCEPT ![s] = Append(@, v)]
  <2>1. permit' = [permit EXCEPT ![s] = Append(@, v)]
    BY DEF Relay
  <2> QED
    BY <2>1, RelayTurns DEF PermitInv, SessionTypeOK
<1>2. /\ turn'[v].session = s /\ turn'[v].parent = u /\ turn'[v].phase = "waiting"
  BY RelayTurns, NewTurnFields DEF PermitInv
<1>3. /\ turn[u].phase = "post" /\ turn[v].phase = "free" /\ u # v
      /\ turn[u].session \in Session
      /\ turn'[u].session = turn[u].session /\ turn'[u].parent = turn[u].parent
      /\ turn'[u].phase = "relaying"
      /\ \A w \in Turn \ {u, v} : turn'[w] = turn[w]
      /\ turn' \in [Turn -> TurnRecord]
      /\ UNCHANGED <<up, config, meta, resets, reminder, jobs, next>>
  BY RelayTurns DEF PermitInv
<1> HIDE DEF s
<1>4. SessionTypeOK'
  <2>1. permit' \in [Session -> Seq(Turn)]
    BY <1>1
  <2>2. \A w \in Turn : turn'[w].phase # "free" => turn'[w].session \in Session
    BY <1>1, <1>2, <1>3 DEF PermitInv, SessionTypeOK
  <2> QED
    BY <1>3, <2>1, <2>2 DEF PermitInv, SessionTypeOK
<1>5. InsideIsFirst'
  <2> SUFFICES ASSUME NEW w \in Turn, turn'[w].phase \in Inside
               PROVE  /\ permit'[turn'[w].session] # <<>>
                      /\ Head(permit'[turn'[w].session]) = w
    BY DEF InsideIsFirst
  <2>1. /\ turn[w].phase \in Inside /\ turn'[w].session = turn[w].session
        /\ turn[w].session \in Session
    BY <1>2, <1>3 DEF PermitInv, SessionTypeOK, Inside, Holding
  <2>2. permit[turn[w].session] # <<>> /\ Head(permit[turn[w].session]) = w
    BY <2>1 DEF PermitInv, InsideIsFirst
  <2> QED
    BY <1>1, <2>1, <2>2
<1>6. ParentsWait'
  <2>1. \A w \in Turn : w # v => turn'[w].parent = turn[w].parent
    BY <1>3
  <2>2. turn'[v].parent = u /\ turn'[u].phase = "relaying"
    BY <1>2, <1>3
  <2>3. \A w \in Turn : turn[w].parent # None =>
           turn[w].parent # u /\ turn[w].parent # v /\ turn[w].parent \in Turn
    BY <1>3 DEF PermitInv, SessionTypeOK, ParentsWait, TurnRecord
  <2>4. \A w \in Turn : w # u /\ w # v => turn'[w] = turn[w]
    BY <1>3
  <2> QED
    BY <2>1, <2>2, <2>3, <2>4 DEF PermitInv, ParentsWait
<1>7. DownIsIdle'
  BY <1>3, InProgressIsUp DEF DownIsIdle
<1> QED
  BY <1>4, <1>5, <1>6, <1>7 DEF PermitInv

\* Resets, crashes and starts touch no permit of a turn that goes on.
LEMMA PermitOutside ==
    ASSUME PermitInv, (\E s \in Session : ResetConversation(s)) \/ Crash \/ Start
    PROVE  PermitInv'
<1>1. ASSUME NEW s \in Session, ResetConversation(s) PROVE PermitInv'
  <2>1. meta' \in [Session -> Meta] /\ resets' \in [Session -> 0..MaxResets]
    BY <1>1, NoMetaType, TurnsAssumption
    DEF TurnsAssumption, PermitInv, SessionTypeOK, ResetConversation
  <2> QED
    BY <1>1, <2>1 DEF PermitInv, SessionTypeOK, InsideIsFirst, ParentsWait, DownIsIdle,
       ResetConversation
<1>2. CASE Crash
  <2>1. 0 \in Worker
    BY TurnsAssumption DEF TurnsAssumption, Worker
  <2>2. \A u \in Turn : turn'[u] = FreeTurn
    BY <1>2 DEF Crash
  <2>3. SessionTypeOK'
    <3>1. turn' \in [Turn -> TurnRecord] /\ FreeTurn.phase = "free"
      BY <1>2, FreeTurnType DEF Crash, FreeTurn
    <3>2. /\ permit' \in [Session -> Seq(Turn)] /\ jobs' \in [Worker -> Seq(Turn)]
          /\ reminder' \in [Session -> Task \cup {None}]
          /\ next' \in Worker
      BY <1>2, <2>1 DEF Crash
    <3>3. up' \in BOOLEAN /\ UNCHANGED <<config, meta, resets>>
      BY <1>2 DEF Crash
    <3> QED
      BY <2>2, <3>1, <3>2, <3>3 DEF PermitInv, SessionTypeOK
  <2>4. InsideIsFirst' /\ ParentsWait' /\ DownIsIdle'
    <3>1. FreeTurn.phase = "free" /\ FreeTurn.parent = None
      BY DEF FreeTurn
    <3>2. \A u \in Turn : turn'[u].phase = "free" /\ turn'[u].parent = None
      BY <2>2, <3>1
    <3>3. InsideIsFirst'
      BY <3>2 DEF InsideIsFirst, Inside, Holding
    <3>4. ParentsWait'
      BY <3>2 DEF ParentsWait
    <3>5. DownIsIdle'
      BY <2>2 DEF DownIsIdle
    <3> QED
      BY <3>3, <3>4, <3>5
  <2> QED
    BY <2>3, <2>4 DEF PermitInv
<1>3. CASE Start
  <2>1. meta' \in [Session -> Meta]
    BY <1>3 DEF PermitInv, SessionTypeOK, Start, Meta
  <2>2. config' \in Fingerprint /\ up' = TRUE
    BY <1>3 DEF Start
  <2>3. SessionTypeOK'
    BY <1>3, <2>1, <2>2 DEF PermitInv, SessionTypeOK, Start
  <2>4. InsideIsFirst' /\ ParentsWait' /\ DownIsIdle'
    BY <1>3, <2>2 DEF PermitInv, Start, InsideIsFirst, ParentsWait, DownIsIdle
  <2> QED
    BY <2>3, <2>4 DEF PermitInv
<1> QED
  BY <1>1, <1>2, <1>3

LEMMA PermitStep == PermitInv /\ [Next]_turnVars => PermitInv'
<1>1. PermitInv /\ UNCHANGED turnVars => PermitInv'
  BY DEF turnVars, PermitInv, SessionTypeOK, InsideIsFirst, ParentsWait, DownIsIdle
<1>2. PermitInv /\ Next => PermitInv'
  BY Steps, PermitAcquire, PermitWork, PermitLeave, PermitRelay, PermitArrive, PermitOutside
<1> QED
  BY <1>1, <1>2
-----------------------------------------------------------------------------
(* Configurations *)

\* A step of a turn writes the metadata of its session, if any, and only what it
\* has prepared.
LEMMA WorkWrites ==
    ASSUME SessionTypeOK, NEW u \in Turn, Works(u)
    PROVE  \/ meta' = meta
           \/ /\ meta' = [meta EXCEPT ![turn[u].session] = turn[u].local]
              /\ turn[u].phase \in {"drop", "begun", "recovered", "completed"}
  BY DEF Works, Step, Save, Resumable, DropStale, BeginLoad, BeginSave, RunTurn, RecoverLoad,
         RecoverSave, CompleteLoad, CompleteSave

\* A step of a turn leaves the metadata of other turns' sessions alone.
LEMMA WorkIsAlone ==
    ASSUME PermitInv, NEW u \in Turn, Works(u), NEW v \in Turn, v # u, turn[v].phase \in Inside
    PROVE  meta'[turn[v].session] = meta[turn[v].session]
<1>1. turn[u].session \in Session /\ turn[v].session \in Session /\ meta \in [Session -> Meta]
  BY WorkAdvances DEF PermitInv, SessionTypeOK, Inside, Holding
<1>2. turn[v].session # turn[u].session
  BY WorkAdvances, InsideIsAlone DEF PermitInv, Inside
<1> QED
  BY <1>1, <1>2, WorkWrites DEF PermitInv

\* The parts of a well-typed step: a turn and the metadata of its session.
LEMMA TurnTypes ==
    ASSUME SessionTypeOK, NEW u \in Turn
    PROVE  /\ turn \in [Turn -> TurnRecord] /\ turn[u] \in TurnRecord
           /\ turn[u].local \in Meta
           /\ turn[u].phase # "free" =>
                 turn[u].session \in Session /\ meta[turn[u].session] \in Meta
  BY DEF SessionTypeOK, TurnRecord

LEMMA MatchesWork ==
    ASSUME PermitInv, ConfigsMatch, NEW u \in Turn, Works(u)
    PROVE  TurnMatches(u)'
<1>1. /\ turn \in [Turn -> TurnRecord] /\ turn[u] \in TurnRecord
      /\ turn[u].phase # "free" =>
            turn[u].session \in Session /\ meta[turn[u].session] \in Meta
  BY TurnTypes DEF PermitInv
<1>2. config' = config
  BY WorkAdvances DEF PermitInv
<1>3. /\ turn[u].phase # "free" => Matches(meta[turn[u].session])
      /\ TurnMatches(u)
      /\ turn[u].phase \in Begun => Current(meta[turn[u].session])
  BY <1>1 DEF ConfigsMatch
<1> USE DEF Step, Load, Matches, Current, TurnMatches, Begun
<1>4. CASE Resumable(u)
  BY <1>1, <1>2, <1>3, <1>4 DEF Resumable, TurnRecord, Meta
<1>5. CASE DropStale(u)
  BY <1>1, <1>2, <1>3, <1>5 DEF DropStale, TurnRecord, NoMeta
<1>6. CASE BeginLoad(u)
  BY <1>1, <1>2, <1>3, <1>6 DEF BeginLoad, TurnRecord, Meta
<1>7. CASE BeginSave(u)
  BY <1>1, <1>2, <1>3, <1>7 DEF BeginSave, TurnRecord, NoMeta
<1>8. CASE RunTurn(u)
  BY <1>1, <1>2, <1>3, <1>8, RunTurnRecord DEF PermitInv
<1>9. CASE RecoverLoad(u)
  BY <1>1, <1>2, <1>3, <1>9 DEF RecoverLoad, TurnRecord, Meta
<1>10. CASE RecoverSave(u)
  BY <1>1, <1>2, <1>3, <1>10 DEF RecoverSave, TurnRecord, NoMeta
<1>11. CASE CompleteLoad(u)
  <2>1. /\ turn'[u].resume = turn[u].resume /\ turn'[u].stamp = turn[u].stamp
        /\ turn'[u].emitted = turn[u].emitted
        /\ turn'[u].local.id
              = IF turn[u].emitted = None THEN meta[turn[u].session].id ELSE turn[u].emitted
        /\ turn'[u].local.fp
              = IF turn[u].stamp = None THEN meta[turn[u].session].fp ELSE turn[u].stamp
        /\ turn[u].phase = "complete"
    BY <1>1, <1>11 DEF CompleteLoad, TurnRecord
  <2>2. config # None
    BY TurnsAssumption DEF TurnsAssumption, PermitInv, SessionTypeOK
  <2>3. Matches(turn'[u].local)
    BY <1>1, <1>3, <2>1, <2>2
  <2>4. Current(turn'[u].local)
    BY <1>1, <1>3, <2>1, <2>2
  <2> QED
    BY <1>2, <1>3, <2>1, <2>3, <2>4
<1>12. CASE CompleteSave(u)
  BY <1>1, <1>2, <1>3, <1>12 DEF CompleteSave, TurnRecord, NoMeta
<1> QED
  BY <1>4, <1>5, <1>6, <1>7, <1>8, <1>9, <1>10, <1>11, <1>12 DEF Works

\* A turn that begins finds or leaves metadata of the present configuration.
LEMMA CurrentWork ==
    ASSUME PermitInv, ConfigsMatch, NEW u \in Turn, Works(u), turn'[u].phase \in Begun
    PROVE  Current(meta[turn[u].session])'
<1>1. /\ turn[u].session \in Session /\ turn[u].phase \in Holding
      /\ turn \in [Turn -> TurnRecord] /\ meta \in [Session -> Meta]
      /\ turn'[u].session = turn[u].session /\ config' = config
  BY WorkAdvances DEF PermitInv, SessionTypeOK, Holding
<1>2. Current(turn[u].local) /\ Matches(meta[turn[u].session])
  BY <1>1 DEF ConfigsMatch, TurnMatches
<1>3. CASE Resumable(u)
  <2>1. meta' = meta
    BY <1>3 DEF Resumable
  <2>2. meta[turn[u].session].id # None => meta[turn[u].session].fp = config
    BY <1>1, <1>3 DEF Resumable, Step, Load, Begun
  <2> QED
    BY <1>1, <1>2, <2>1, <2>2 DEF Current, Matches
<1>4. CASE ~Resumable(u) /\ turn[u].phase # "drop"
  <2>1. turn[u].phase \in Begun
    BY <1>4, WorkMoves DEF PermitInv, Begun
  <2>2. Current(meta[turn[u].session])
    BY <2>1 DEF ConfigsMatch
  <2> QED
    BY <1>1, <1>2, <2>2, WorkWrites DEF PermitInv, Current
<1>5. CASE turn[u].phase = "drop"
  <2>1. meta' = [meta EXCEPT ![turn[u].session] = turn[u].local]
    <3>1. DropStale(u)
      BY <1>5, WorkMoves DEF PermitInv
    <3> QED
      BY <3>1 DEF DropStale, Save
  <2> QED
    BY <1>1, <1>2, <2>1 DEF Current
<1> QED
  BY <1>3, <1>4, <1>5

LEMMA ConfigsWork ==
    ASSUME PermitInv, ConfigsMatch, NEW u \in Turn, Works(u) PROVE ConfigsMatch'
<1>1. /\ turn[u].session \in Session /\ turn'[u].session = turn[u].session
      /\ meta \in [Session -> Meta]
      /\ config' = config /\ \A v \in Turn \ {u} : turn'[v] = turn[v]
  BY WorkAdvances DEF PermitInv, SessionTypeOK, Holding
<1>2. \A s \in Session : Matches(meta[s])'
  BY <1>1, WorkWrites DEF PermitInv, ConfigsMatch, TurnMatches, Matches
<1>3. \A v \in Turn : TurnMatches(v)'
  <2> SUFFICES ASSUME NEW v \in Turn PROVE TurnMatches(v)'
    OBVIOUS
  <2>1. CASE v = u
    BY <2>1, MatchesWork
  <2>2. CASE v # u
    BY <1>1, <2>2 DEF ConfigsMatch, TurnMatches, Matches, Current
  <2> QED
    BY <2>1, <2>2
<1>4. \A v \in Turn : turn'[v].phase \in Begun => Current(meta[turn[v].session])'
  <2> SUFFICES ASSUME NEW v \in Turn, turn'[v].phase \in Begun
               PROVE  Current(meta[turn[v].session])'
    OBVIOUS
  <2>1. CASE v = u
    BY <1>1, <2>1, CurrentWork
  <2>2. CASE v # u
    BY <1>1, <2>2, WorkIsAlone DEF ConfigsMatch, Current, Begun, Inside, Holding
  <2> QED
    BY <2>1, <2>2
<1> QED
  BY <1>2, <1>3, <1>4 DEF ConfigsMatch

LEMMA ConfigsStep == TurnsInv /\ [Next]_turnVars => ConfigsMatch'
<1> SUFFICES ASSUME PermitInv, ConfigsMatch, [Next]_turnVars PROVE ConfigsMatch'
  BY DEF TurnsInv
<1> USE DEF ConfigsMatch, TurnMatches, Matches, Current, Begun
<1>1. ASSUME NEW u \in Turn, Acquire(u) PROVE ConfigsMatch'
  BY <1>1 DEF PermitInv, SessionTypeOK, TurnRecord, Acquire, Step
<1>2. ASSUME NEW u \in Turn, Leave(u) PROVE ConfigsMatch'
  BY <1>2 DEF PermitInv, SessionTypeOK, TurnRecord, Leave, FreeTurn, NoMeta
<1>3. ASSUME NEW u \in Turn, NEW v \in Turn, Relay(u, v) PROVE ConfigsMatch'
  <2>1. UNCHANGED <<config, meta>> /\ turn[u].phase = "post"
    BY <1>3, RelayTurns DEF PermitInv
  <2>2. \A w \in Turn : w # v =>
           /\ turn'[w].local = turn[w].local /\ turn'[w].resume = turn[w].resume
           /\ turn'[w].stamp = turn[w].stamp /\ turn'[w].emitted = turn[w].emitted
           /\ turn'[w].session = turn[w].session
           /\ turn'[w].phase \in Begun => turn[w].phase \in Begun
    BY <1>3, RelayTurns DEF PermitInv
  <2>3. /\ turn'[v].local = NoMeta /\ turn'[v].resume = None /\ turn'[v].stamp = None
        /\ turn'[v].emitted = None /\ turn'[v].phase = "waiting"
    BY <1>3, RelayTurns, NewTurnFields DEF PermitInv
  <2>4. NoMeta.id = None
    BY DEF NoMeta
  <2> QED
    BY <2>1, <2>2, <2>3, <2>4
<1>4. ASSUME NEW u \in Turn, NEW s \in Session, NEW t \in Task \cup {None}, Arrive(u, s, t)
      PROVE  ConfigsMatch'
  BY <1>4 DEF PermitInv, SessionTypeOK, Arrive, Step, NewTurn, FreeTurn, NoMeta
<1>5. ASSUME NEW s \in Session, ResetConversation(s) PROVE ConfigsMatch'
  BY <1>5 DEF PermitInv, SessionTypeOK, ResetConversation, NoMeta
<1>6. CASE Crash
  BY <1>6 DEF Crash, FreeTurn, NoMeta
<1>7. CASE Start
  <2>1. \A u \in Turn : turn'[u] = FreeTurn
    BY <1>7 DEF PermitInv, DownIsIdle, Start
  <2>2. \A s \in Session : meta'[s].id = meta[s].id /\ meta'[s].fp = meta[s].fp
    BY <1>7 DEF PermitInv, SessionTypeOK, Meta, Start
  <2>3. /\ FreeTurn.local = NoMeta /\ FreeTurn.resume = None /\ FreeTurn.stamp = None
        /\ FreeTurn.emitted = None /\ FreeTurn.phase = "free" /\ NoMeta.id = None
    BY DEF FreeTurn, NoMeta
  <2> QED
    BY <2>1, <2>2, <2>3
<1>8. CASE UNCHANGED turnVars
  BY <1>8 DEF turnVars
<1> QED
  BY <1>1, <1>2, <1>3, <1>4, <1>5, <1>6, <1>7, <1>8, ConfigsWork, Steps
-----------------------------------------------------------------------------
(* Running sessions *)

\* A session is not marked while the turn inside has not begun or is over.
LEMMA UnmarkedIsIdle ==
    ASSUME PermitInv, RunningIsMarked, NEW u \in Turn, turn[u].phase \in Inside \ Marked
    PROVE  ~meta[turn[u].session].running
<1>1. up /\ turn[u].session \in Session
  BY InProgressIsUp DEF PermitInv, SessionTypeOK, Inside, Holding
<1>2. \A v \in Turn : turn[v].session = turn[u].session /\ turn[v].phase \in Marked => v = u
  BY InsideIsAlone DEF Marked, Inside, Holding
<1> QED
  BY <1>1, <1>2 DEF RunningIsMarked

LEMMA RunningWork ==
    ASSUME PermitInv, RunningIsMarked, NEW u \in Turn, Works(u) PROVE RunningIsMarked'
<1>1. /\ turn[u].session \in Session /\ turn'[u].session = turn[u].session
      /\ turn[u].phase \in Holding /\ turn'[u].phase \in Holding \cup {"post"}
      /\ meta \in [Session -> Meta] /\ turn \in [Turn -> TurnRecord]
      /\ up' = up /\ \A v \in Turn \ {u} : turn'[v] = turn[v]
  BY WorkAdvances DEF PermitInv, SessionTypeOK, Holding
<1>2. turn[u].phase \notin Marked => ~meta[turn[u].session].running
  BY <1>1, UnmarkedIsIdle DEF Inside
<1>3. turn'[u].phase \in {"drop", "completed"} => ~turn'[u].local.running
  <2>1. CASE Resumable(u)
    BY <1>1, <1>2, <2>1 DEF Resumable, Step, Load, TurnRecord, Meta, Marked
  <2>2. CASE CompleteLoad(u)
    BY <1>1, <2>2 DEF CompleteLoad, Step, TurnRecord
  <2>3. CASE turn'[u].phase \notin {"drop", "completed"}
    BY <2>3
  <2> QED
    BY <2>1, <2>2, <2>3, WorkMoves DEF PermitInv
<1>4. meta'[turn[u].session].running => turn'[u].phase \in Marked
  <2>1. CASE turn[u].phase \in {"drop", "completed"}
    <3>1. ~turn[u].local.running
      BY <2>1 DEF RunningIsMarked
    <3>2. meta' = [meta EXCEPT ![turn[u].session] = turn[u].local]
      <4>1. DropStale(u) \/ CompleteSave(u)
        BY <2>1, WorkMoves DEF PermitInv
      <4> QED
        BY <4>1 DEF DropStale, CompleteSave, Save
    <3> QED
      BY <1>1, <3>1, <3>2
  <2>2. CASE turn[u].phase \in {"load", "begin"}
    <3>1. meta' = meta
      BY <2>2, WorkWrites DEF PermitInv
    <3> QED
      BY <1>2, <2>2, <3>1 DEF Marked
  <2>3. CASE turn[u].phase \in {"begun", "queued", "recover", "recovered", "complete"}
    <3>1. turn'[u].phase \in Marked
      BY <2>3, WorkMoves DEF PermitInv, Marked
    <3> QED
      BY <3>1
  <2> QED
    BY <1>1, <2>1, <2>2, <2>3 DEF Holding
<1>5. ASSUME NEW s \in Session, up', meta'[s].running
      PROVE  \E v \in Turn : turn'[v].session = s /\ turn'[v].phase \in Marked
  <2>1. CASE s = turn[u].session
    BY <1>1, <1>4, <1>5, <2>1
  <2>2. CASE s # turn[u].session
    <3>1. meta'[s] = meta[s]
      BY <1>1, <2>2, WorkWrites DEF PermitInv
    <3>2. PICK v \in Turn : turn[v].session = s /\ turn[v].phase \in Marked
      BY <1>1, <1>5, <3>1 DEF RunningIsMarked
    <3> QED
      BY <1>1, <2>2, <3>2
  <2> QED
    BY <2>1, <2>2
<1> QED
  BY <1>1, <1>3, <1>5 DEF RunningIsMarked

LEMMA RunningStep == TurnsInv /\ [Next]_turnVars => RunningIsMarked'
<1> SUFFICES ASSUME PermitInv, RunningIsMarked, [Next]_turnVars PROVE RunningIsMarked'
  BY DEF TurnsInv
<1> USE DEF RunningIsMarked, Marked
<1>1. ASSUME NEW u \in Turn, Acquire(u) PROVE RunningIsMarked'
  <2>1. /\ UNCHANGED <<up, meta>> /\ turn'[u].phase = "load" /\ turn[u].phase = "waiting"
        /\ \A v \in Turn \ {u} : turn'[v] = turn[v]
    BY <1>1 DEF PermitInv, SessionTypeOK, TurnRecord, Acquire, Step
  <2> QED
    BY <2>1
<1>2. ASSUME NEW u \in Turn, Leave(u) PROVE RunningIsMarked'
  <2>1. /\ UNCHANGED <<up, meta>> /\ turn[u].phase = "post"
        /\ \A v \in Turn : turn'[v].phase \in Marked \cup {"drop"} => turn'[v] = turn[v]
    BY <1>2 DEF PermitInv, SessionTypeOK, TurnRecord, Leave, FreeTurn
  <2>2. \A v \in Turn : turn[v].phase \in Marked => turn'[v] = turn[v]
    <3> SUFFICES ASSUME NEW v \in Turn, turn[v].phase \in Marked PROVE turn'[v] = turn[v]
      OBVIOUS
    <3>1. v # None /\ v # u
      BY <2>1, TurnsAssumption DEF TurnsAssumption
    <3>2. v # turn[u].parent
      BY <3>1 DEF PermitInv, ParentsWait
    <3> QED
      BY <1>2, <3>1, <3>2 DEF Leave
  <2> QED
    BY <2>1, <2>2
<1>3. ASSUME NEW u \in Turn, NEW v \in Turn, Relay(u, v) PROVE RunningIsMarked'
  <2>1. /\ UNCHANGED <<up, meta>> /\ turn[u].phase = "post" /\ turn[v].phase = "free"
        /\ turn'[u].phase = "relaying" /\ turn'[v].phase = "waiting"
        /\ \A w \in Turn \ {u, v} : turn'[w] = turn[w]
    BY <1>3 DEF PermitInv, SessionTypeOK, TurnRecord, Relay, NewTurn, FreeTurn
  <2> QED
    BY <2>1
<1>4. ASSUME NEW u \in Turn, NEW s \in Session, NEW t \in Task \cup {None}, Arrive(u, s, t)
      PROVE  RunningIsMarked'
  <2>1. /\ UNCHANGED <<up, meta>> /\ turn[u].phase = "free" /\ turn'[u].phase = "waiting"
        /\ \A v \in Turn \ {u} : turn'[v] = turn[v]
    BY <1>4 DEF PermitInv, SessionTypeOK, Arrive, Step, NewTurn, FreeTurn
  <2> QED
    BY <2>1
<1>5. ASSUME NEW s \in Session, ResetConversation(s) PROVE RunningIsMarked'
  BY <1>5 DEF PermitInv, SessionTypeOK, ResetConversation, NoMeta
<1>6. CASE Crash
  BY <1>6 DEF Crash, FreeTurn
<1>7. CASE Start
  <2>1. \A u \in Turn : turn'[u].phase = "free"
    BY <1>7 DEF PermitInv, DownIsIdle, Start, FreeTurn
  <2>2. \A s \in Session : ~meta'[s].running
    BY <1>7 DEF PermitInv, SessionTypeOK, Meta, Start
  <2> QED
    BY <2>1, <2>2
<1>8. CASE UNCHANGED turnVars
  BY <1>8 DEF turnVars
<1>9. ASSUME NEW u \in Turn, Works(u) PROVE RunningIsMarked'
  BY <1>9, RunningWork
<1> QED
  BY <1>1, <1>2, <1>3, <1>4, <1>5, <1>6, <1>7, <1>8, <1>9, Steps
-----------------------------------------------------------------------------
(* Conversations *)

\* Another turn's work changes nothing of what a turn compares.
LEMMA YoungOthers ==
    ASSUME PermitInv, NEW u \in Turn, Works(u), NEW v \in Turn, v # u, YoungLocal(v)
    PROVE  YoungLocal(v)'
<1>1. turn'[v] = turn[v] /\ resets' = resets
  BY WorkAdvances DEF PermitInv
<1>2. turn[v].phase \in Inside => meta'[turn[v].session] = meta[turn[v].session]
  BY WorkIsAlone
<1> QED
  BY <1>1, <1>2 DEF YoungLocal, Remembers, Inside, Holding

LEMMA YoungWork ==
    ASSUME PermitInv, WritesAreYoung, NEW u \in Turn, Works(u) PROVE WritesAreYoung'
<1>1. /\ turn[u].session \in Session /\ turn'[u].session = turn[u].session
      /\ turn'[u].conv = turn[u].conv /\ turn'[u].phase \in Holding \cup {"post"}
      /\ meta \in [Session -> Meta] /\ turn \in [Turn -> TurnRecord]
      /\ resets' = resets /\ \A v \in Turn \ {u} : turn'[v] = turn[v]
  BY WorkAdvances DEF PermitInv, SessionTypeOK, Holding
<1>2. turn'[u].emitted # None => turn'[u].emitted.conv = turn'[u].conv
  <2>1. CASE RunTurn(u)
    BY <1>1, <2>1, RunTurnRecord DEF WritesAreYoung, PermitInv
  <2>2. CASE ~RunTurn(u)
    <3>1. turn'[u].emitted = turn[u].emitted
      BY <2>2, WorkMoves DEF PermitInv
    <3> QED
      BY <1>1, <3>1 DEF WritesAreYoung
  <2> QED
    BY <2>1, <2>2
<1>3. turn'[u].phase \in {"drop", "recovered"} => turn'[u].local.id = None
  <2>1. CASE Resumable(u)
    BY <1>1, <2>1 DEF Resumable, Step, Load, TurnRecord, Meta
  <2>2. CASE RecoverLoad(u)
    BY <1>1, <2>2 DEF RecoverLoad, Step, Load, TurnRecord, Meta
  <2>3. CASE turn'[u].phase \notin {"drop", "recovered"}
    BY <2>3
  <2> QED
    BY <2>1, <2>2, <2>3, WorkMoves DEF PermitInv
<1>4. YoungLocal(u)'
  <2> SUFFICES ASSUME turn'[u].phase \in {"begun", "completed"},
                      turn[u].conv = resets[turn[u].session],
                      turn'[u].local.id # None,
                      turn'[u].local.id.conv < turn[u].conv
               PROVE  Remembers(turn[u].session)'
    BY <1>1 DEF YoungLocal
  <2>1. BeginLoad(u) \/ CompleteLoad(u)
    BY WorkMoves DEF PermitInv
  <2>2. meta' = meta
    BY <2>1 DEF BeginLoad, CompleteLoad
  <2>3. turn'[u].local.id = meta[turn[u].session].id
    <3>1. CASE BeginLoad(u)
      BY <1>1, <3>1 DEF BeginLoad, Step, Load, TurnRecord, Meta
    <3>2. CASE CompleteLoad(u)
      <4>1. turn'[u].local.id
              = IF turn[u].emitted = None THEN meta[turn[u].session].id ELSE turn[u].emitted
        BY <1>1, <3>2 DEF CompleteLoad, Step, Load, TurnRecord
      <4>2. turn[u].emitted # None => turn[u].emitted.conv = turn[u].conv
        BY DEF WritesAreYoung
      <4>3. turn[u].conv \in Nat
        BY <1>1, TurnsAssumption DEF TurnsAssumption, TurnRecord
      <4> QED
        BY <4>1, <4>2, <4>3
    <3> QED
      BY <2>1, <3>1, <3>2
  <2> QED
    BY <1>1, <2>2, <2>3 DEF Remembers
<1> QED
  BY <1>1, <1>2, <1>3, <1>4, YoungOthers DEF WritesAreYoung, Holding

LEMMA YoungStep == TurnsInv /\ [Next]_turnVars => WritesAreYoung'
<1> SUFFICES ASSUME PermitInv, WritesAreYoung, [Next]_turnVars PROVE WritesAreYoung'
  BY DEF TurnsInv
<1>1. ASSUME NEW u \in Turn, Acquire(u) PROVE WritesAreYoung'
  <2>1. /\ UNCHANGED <<meta, resets>> /\ turn[u].phase = "waiting"
        /\ turn'[u].phase = "load" /\ turn'[u].emitted = turn[u].emitted
        /\ turn'[u].session = turn[u].session
        /\ turn'[u].conv = resets[turn[u].session]
        /\ turn[u].session \in Session /\ resets \in [Session -> 0..MaxResets]
        /\ \A v \in Turn \ {u} : turn'[v] = turn[v]
    BY <1>1 DEF PermitInv, SessionTypeOK, TurnRecord, Acquire, Step
  <2>2. resets[turn[u].session] \in Nat
    BY <2>1, TurnsAssumption DEF TurnsAssumption
  <2> QED
    BY <2>1, <2>2 DEF WritesAreYoung, YoungLocal, Remembers
<1>2. ASSUME NEW u \in Turn, Leave(u) PROVE WritesAreYoung'
  <2>1. /\ UNCHANGED <<meta, resets>>
        /\ \A v \in Turn : \/ turn'[v] = turn[v]
                           \/ turn'[v] = FreeTurn
                           \/ turn'[v] = [turn[v] EXCEPT !.phase = "post"]
        /\ turn \in [Turn -> TurnRecord]
    BY <1>2 DEF PermitInv, SessionTypeOK, Leave
  <2>2. FreeTurn.phase = "free" /\ FreeTurn.session = None /\ FreeTurn.emitted = None
    BY DEF FreeTurn
  <2>3. \A v \in Turn : \/ turn'[v] = turn[v]
                       \/ turn'[v] = FreeTurn
                       \/ /\ turn'[v].phase = "post" /\ turn'[v].session = turn[v].session
                          /\ turn'[v].emitted = turn[v].emitted
                          /\ turn'[v].conv = turn[v].conv
    <3>1. ASSUME NEW v \in Turn, turn'[v] = [turn[v] EXCEPT !.phase = "post"]
          PROVE  /\ turn'[v].phase = "post" /\ turn'[v].session = turn[v].session
                 /\ turn'[v].emitted = turn[v].emitted /\ turn'[v].conv = turn[v].conv
      BY <2>1, <3>1 DEF TurnRecord
    <3> QED
      BY <2>1, <3>1
  <2> QED
    BY <2>1, <2>2, <2>3 DEF WritesAreYoung, YoungLocal, Remembers
<1>3. ASSUME NEW u \in Turn, NEW v \in Turn, Relay(u, v) PROVE WritesAreYoung'
  <2>1. /\ UNCHANGED <<meta, resets>> /\ turn[u].phase = "post" /\ turn[v].phase = "free"
        /\ turn'[u].phase = "relaying" /\ turn'[u].session = turn[u].session
        /\ turn'[u].conv = turn[u].conv /\ turn'[u].emitted = turn[u].emitted
        /\ turn'[v] = NewTurn(RelayKey(turn[u].session), None, u)
        /\ \A w \in Turn \ {u, v} : turn'[w] = turn[w]
    BY <1>3, RelayTurns DEF PermitInv
  <2>2. /\ turn'[v].phase = "waiting" /\ turn'[v].emitted = None /\ turn'[v].conv = 0
        /\ turn'[v].session = RelaySession[turn[u].session]
    BY <2>1, NewTurnFields DEF RelayKey
  <2>3. RelaySession[turn[u].session] \in Session
    BY <1>3, RelayTurns DEF RelayKey, PermitInv
  <2>4. 0 <= resets[turn'[v].session]
    BY <2>2, <2>3, TurnsAssumption DEF TurnsAssumption, PermitInv, SessionTypeOK
  <2> QED
    BY <2>1, <2>2, <2>4 DEF WritesAreYoung, YoungLocal, Remembers
<1>4. ASSUME NEW u \in Turn, NEW s \in Session, NEW t \in Task \cup {None}, Arrive(u, s, t)
      PROVE  WritesAreYoung'
  <2>1. /\ UNCHANGED <<meta, resets>> /\ turn'[u].phase = "waiting" /\ turn'[u].emitted = None
        /\ turn'[u].conv = 0 /\ turn'[u].session = s
        /\ \A v \in Turn \ {u} : turn'[v] = turn[v]
    BY <1>4 DEF PermitInv, SessionTypeOK, Arrive, Step, NewTurn, FreeTurn
  <2>2. 0 <= resets[s]
    BY TurnsAssumption DEF TurnsAssumption, PermitInv, SessionTypeOK
  <2> QED
    BY <2>1, <2>2 DEF WritesAreYoung, YoungLocal, Remembers
<1>5. ASSUME NEW s \in Session, ResetConversation(s) PROVE WritesAreYoung'
  <2>1. /\ turn' = turn /\ resets' = [resets EXCEPT ![s] = @ + 1]
        /\ meta' = [meta EXCEPT ![s] = NoMeta]
        /\ meta \in [Session -> Meta] /\ resets \in [Session -> 0..MaxResets]
        /\ turn \in [Turn -> TurnRecord]
    BY <1>5 DEF ResetConversation, PermitInv, SessionTypeOK
  <2> SUFFICES ASSUME NEW v \in Turn
               PROVE  /\ turn[v].session # None => turn[v].conv <= resets'[turn[v].session]
                      /\ YoungLocal(v)'
    BY <2>1 DEF WritesAreYoung
  <2>2. turn[v].session # None =>
           /\ turn[v].session \in Session /\ resets[turn[v].session] \in Nat
           /\ turn[v].conv \in Nat /\ turn[v].conv <= resets[turn[v].session]
    BY <2>1, TurnsAssumption DEF TurnsAssumption, TurnRecord, WritesAreYoung
  <2>3. turn[v].phase \in {"begun", "completed"} => turn[v].session \in Session
    BY DEF PermitInv, SessionTypeOK
  <2>4. CASE turn[v].session = s
    <3>1. resets'[s] = resets[s] + 1
      BY <2>1
    <3>2. s # None
      BY TurnsAssumption DEF TurnsAssumption
    <3> QED
      BY <2>1, <2>2, <2>4, <3>1, <3>2 DEF YoungLocal
  <2>5. CASE turn[v].session # s
    <3>1. turn[v].session \in Session => /\ resets'[turn[v].session] = resets[turn[v].session]
                                         /\ meta'[turn[v].session] = meta[turn[v].session]
      BY <2>1, <2>5
    <3> QED
      BY <2>1, <2>2, <2>3, <3>1 DEF YoungLocal, Remembers, WritesAreYoung
  <2> QED
    BY <2>4, <2>5
<1>6. CASE Crash
  <2>1. FreeTurn.phase = "free" /\ FreeTurn.session = None /\ FreeTurn.emitted = None
    BY DEF FreeTurn
  <2>2. \A u \in Turn : turn'[u] = FreeTurn
    BY <1>6 DEF Crash
  <2> QED
    BY <2>1, <2>2 DEF WritesAreYoung, YoungLocal
<1>7. CASE Start
  <2>1. FreeTurn.phase = "free" /\ FreeTurn.session = None /\ FreeTurn.emitted = None
    BY DEF FreeTurn
  <2>2. \A u \in Turn : turn'[u] = FreeTurn
    BY <1>7 DEF PermitInv, DownIsIdle, Start
  <2> QED
    BY <2>1, <2>2 DEF WritesAreYoung, YoungLocal
<1>8. CASE UNCHANGED turnVars
  BY <1>8 DEF turnVars, WritesAreYoung, YoungLocal, Remembers
<1>9. ASSUME NEW u \in Turn, Works(u) PROVE WritesAreYoung'
  BY <1>9, YoungWork
<1> QED
  BY <1>1, <1>2, <1>3, <1>4, <1>5, <1>6, <1>7, <1>8, <1>9, Steps
-----------------------------------------------------------------------------
(* What follows for every instance *)

\* The invariant holds at the start and after every step.
LEMMA TurnsInvariance == TurnsSafety => []TurnsInv
<1>1. TurnsInit => TurnsInv
  <2>1. TurnsInit => ConfigsMatch /\ RunningIsMarked
    BY DEF TurnsInit, ConfigsMatch, TurnMatches, Matches, Current, Begun, RunningIsMarked,
       Marked, FreeTurn, NoMeta
  <2>2. TurnsInit => WritesAreYoung
    BY DEF TurnsInit, WritesAreYoung, YoungLocal, FreeTurn
  <2> QED
    BY <2>1, <2>2, PermitInit DEF TurnsInv
<1>2. TurnsInv /\ [Next]_turnVars => TurnsInv'
  BY PermitStep, ConfigsStep, RunningStep, YoungStep DEF TurnsInv
<1> QED
  BY <1>1, <1>2, PTL DEF TurnsSafety

\* Turns, metadata and permits keep their shape, and a turn in progress has a
\* session.
THEOREM TurnTypesHold == TurnsSafety => []SessionTypeOK
<1>1. TurnsInv => SessionTypeOK
  BY DEF TurnsInv, PermitInv
<1> QED
  BY <1>1, TurnsInvariance, PTL

\* A turn resumes only a session of the backend that the configuration in force
\* made, for any number of turns, sessions and configurations, across crashes and
\* restarts.
THEOREM ResumesMatchConfig == TurnsSafety => []ResumeMatches
<1>1. TurnsInv => ResumeMatches
  BY DEF TurnsInv, ConfigsMatch, TurnMatches, ResumeMatches
<1> QED
  BY <1>1, TurnsInvariance, PTL

\* No session stays marked Running without a turn, whatever fails, resets or dies.
THEOREM RunningHasTurn == TurnsSafety => []RunningMeansTurn
<1>1. TurnsInv => RunningMeansTurn
  BY DEF TurnsInv, RunningIsMarked, Marked, RunningMeansTurn, Holding
<1> QED
  BY <1>1, TurnsInvariance, PTL

\* A conversation that was reset is remembered again only by the write of a turn
\* that had the permit when it was reset.
THEOREM ForgottenStaysForgotten == TurnsSafety => ForgottenUnlessUnderWay
<1>1. TurnsInv /\ [Next]_turnVars =>
        [\A s \in Session : Remembers(s)' /\ ~Remembers(s)
            => \E u \in Turn : /\ turn[u].session = s
                               /\ turn[u].phase \in {"begun", "completed"}
                               /\ turn[u].conv < resets[s]]_turnVars
  <2> SUFFICES ASSUME TurnsInv, Next, NEW s \in Session, Remembers(s)', ~Remembers(s)
               PROVE  \E u \in Turn : /\ turn[u].session = s
                                      /\ turn[u].phase \in {"begun", "completed"}
                                      /\ turn[u].conv < resets[s]
    OBVIOUS
  <2>1. /\ meta \in [Session -> Meta] /\ turn \in [Turn -> TurnRecord]
        /\ resets \in [Session -> 0..MaxResets] /\ MaxResets \in Nat
    BY TurnsAssumption DEF TurnsAssumption, TurnsInv, PermitInv, SessionTypeOK
  <2>2. ASSUME NEW u \in Turn, Works(u)
        PROVE  /\ turn[u].session = s
               /\ turn[u].phase \in {"begun", "completed"}
               /\ turn[u].conv < resets[s]
    <3>1. resets' = resets /\ turn[u].session \in Session
      BY <2>2, WorkAdvances DEF TurnsInv, PermitInv, SessionTypeOK, Holding
    <3>2. /\ meta' = [meta EXCEPT ![turn[u].session] = turn[u].local]
          /\ turn[u].phase \in {"drop", "begun", "recovered", "completed"}
      BY <2>2, <3>1, WorkWrites DEF TurnsInv, PermitInv, Remembers
    <3>3. turn[u].session = s
      BY <2>1, <3>1, <3>2 DEF Remembers
    <3>4. turn[u].local.id # None /\ turn[u].local.id.conv < resets[s]
      BY <2>1, <3>1, <3>2, <3>3 DEF Remembers
    <3>5. turn[u].phase \in {"begun", "completed"} /\ turn[u].conv <= resets[s]
      BY <3>1, <3>2, <3>3, <3>4, TurnsAssumption DEF TurnsAssumption, TurnsInv, WritesAreYoung
    <3>6. turn[u].conv # resets[s]
      BY <3>3, <3>4, <3>5 DEF TurnsInv, WritesAreYoung, YoungLocal
    <3>7. turn[u].conv \in Nat /\ resets[s] \in Nat
      BY <2>1 DEF TurnRecord
    <3> QED
      BY <3>3, <3>5, <3>6, <3>7
  <2>3. ASSUME NEW r \in Session, ResetConversation(r) PROVE FALSE
    BY <2>1, <2>3 DEF ResetConversation, Remembers, NoMeta
  <2>4. CASE Start
    BY <2>1, <2>4 DEF Start, Remembers, Meta
  <2>5. CASE UNCHANGED <<meta, resets>>
    BY <2>5 DEF Remembers
  <2>6. (\E u \in Turn : Acquire(u) \/ Leave(u) \/ \E v \in Turn : Relay(u, v))
        \/ (\E u \in Turn, r \in Session, t \in Task \cup {None} : Arrive(u, r, t)) \/ Crash
        => UNCHANGED <<meta, resets>>
    BY DEF Acquire, Leave, Relay, Arrive, Crash
  <2> QED
    BY <2>2, <2>3, <2>4, <2>5, <2>6, Steps
<1> QED
  BY <1>1, TurnsInvariance, PTL DEF TurnsSafety, ForgottenUnlessUnderWay
=============================================================================
