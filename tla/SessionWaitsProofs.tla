------------------------- MODULE SessionWaitsProofs -------------------------
(***************************************************************************)
(* Turns never block one another, for any number of turns, sessions and    *)
(* workers: every line holds the turns that stand in it and no others, and *)
(* among turns that wait for one another there is one from which fewest    *)
(* relays are left.                                                        *)
(***************************************************************************)
EXTENDS SessionTurnsProofs, SequenceFiltersProofs

-----------------------------------------------------------------------------
(* Lines *)

Has(q, x) == \E i \in 1..Len(q) : q[i] = x
Once(q)   == \A i, j \in 1..Len(q) : q[i] = q[j] => i = j

\* Who joins a line is in it, behind all others.
LEMMA JoinsLine ==
    ASSUME NEW S, NEW q \in Seq(S), NEW x \in S
    PROVE  /\ Append(q, x) \in Seq(S) /\ Append(q, x) # <<>>
           /\ \A y : Has(Append(q, x), y) <=> Has(q, y) \/ y = x
           /\ Once(q) /\ ~Has(q, x) => Once(Append(q, x))
<1>1. /\ Append(q, x) \in Seq(S) /\ Len(Append(q, x)) = Len(q) + 1 /\ Len(q) \in Nat
      /\ \A i \in 1..Len(q) : Append(q, x)[i] = q[i]
      /\ Append(q, x)[Len(q) + 1] = x
  OBVIOUS
<1>2. \A y : Has(Append(q, x), y) <=> Has(q, y) \/ y = x
  BY <1>1 DEF Has
<1>3. Once(q) /\ ~Has(q, x) => Once(Append(q, x))
  BY <1>1 DEF Has, Once
<1>4. Append(q, x) # <<>>
  BY <1>1
<1> QED
  BY <1>1, <1>2, <1>3, <1>4

\* When the first of a line leaves, all others stay.
LEMMA LeavesLine ==
    ASSUME NEW S, NEW q \in Seq(S), q # <<>>
    PROVE  /\ Tail(q) \in Seq(S) /\ Has(q, Head(q))
           /\ Once(q) => /\ Once(Tail(q))
                         /\ \A y : Has(Tail(q), y) <=> Has(q, y) /\ y # Head(q)
<1>1. /\ Tail(q) \in Seq(S) /\ Len(q) \in Nat \ {0} /\ Len(Tail(q)) = Len(q) - 1
      /\ \A i \in 1..Len(q) - 1 : Tail(q)[i] = q[i + 1]
      /\ Head(q) = q[1]
  OBVIOUS
<1>2. Has(q, Head(q))
  BY <1>1 DEF Has
<1>3. ASSUME Once(q) PROVE Once(Tail(q))
  BY <1>1, <1>3 DEF Once
<1>4. ASSUME Once(q), NEW y PROVE Has(Tail(q), y) <=> Has(q, y) /\ y # Head(q)
  <2>1. ASSUME NEW i \in 1..Len(Tail(q)), Tail(q)[i] = y PROVE Has(q, y) /\ y # Head(q)
    <3>1. i + 1 \in 1..Len(q) /\ q[i + 1] = y /\ 1 \in 1..Len(q) /\ i + 1 # 1
      BY <1>1, <2>1
    <3> QED
      BY <1>1, <1>4, <3>1 DEF Has, Once
  <2>2. ASSUME NEW i \in 1..Len(q), q[i] = y, y # Head(q) PROVE Has(Tail(q), y)
    <3>1. i # 1 /\ i - 1 \in 1..Len(q) - 1 /\ (i - 1) + 1 = i
      BY <1>1, <2>2
    <3>2. Tail(q)[i - 1] = y
      BY <1>1, <2>2, <3>1
    <3> QED
      BY <1>1, <3>1, <3>2 DEF Has
  <2> QED
    BY <2>1, <2>2 DEF Has
<1> QED
  BY <1>1, <1>2, <1>3, <1>4

\* An empty line has nobody.
LEMMA EmptyLine == Once(<<>>) /\ \A x : ~Has(<<>>, x)
  BY DEF Once, Has
-----------------------------------------------------------------------------
(* The inductive invariant *)

\* The line of a session is made of its turns in progress, each once.
PermitLines ==
    /\ \A s \in Session : Once(permit[s])
    /\ \A s \in Session, u \in Turn :
          Has(permit[s], u) <=> turn[u].phase # "free" /\ turn[u].session = s

\* The jobs of the workers are the turns at their backends, each at one worker, once.
JobLines ==
    /\ \A w \in Worker : Once(jobs[w])
    /\ \A u \in Turn : turn[u].phase = "queued" => \E w \in Worker : Has(jobs[w], u)
    /\ \A w \in Worker, u \in Turn : Has(jobs[w], u) => turn[u].phase = "queued"
    /\ \A w, x \in Worker, u \in Turn : Has(jobs[w], u) /\ Has(jobs[x], u) => w = x

\* A turn that waits for a reply has a turn that makes it, in the session that
\* RelayDispatchFn names.
RepliesUnderWay ==
    /\ \A u \in Turn : turn[u].phase = "relaying" => \E v \in Turn : turn[v].parent = u
    /\ \A v \in Turn : turn[v].parent # None =>
          /\ turn[v].phase # "free"
          /\ RelaySession[turn[turn[v].parent].session] # None
          /\ turn[v].session = RelaySession[turn[turn[v].parent].session]

LinesInv == PermitLines /\ JobLines /\ RepliesUnderWay
-----------------------------------------------------------------------------
(* What the steps do to lines *)

\* A turn that gets its permit stays in line, and is the same turn.
LEMMA AcquireTurns ==
    ASSUME SessionTypeOK, NEW u \in Turn, Acquire(u)
    PROVE  /\ turn[u].phase = "waiting" /\ turn'[u].phase = "load"
           /\ turn'[u].session = turn[u].session /\ turn'[u].parent = turn[u].parent
           /\ \A v \in Turn \ {u} : turn'[v] = turn[v]
           /\ UNCHANGED <<permit, jobs>>
<1>1. turn \in [Turn -> TurnRecord] /\ turn[u] \in TurnRecord
  BY DEF SessionTypeOK
<1>2. DOMAIN turn[u] = {"phase", "session", "task", "told", "parent", "conv", "resume",
                        "local", "emitted", "stamp", "relays"}
  BY <1>1 DEF TurnRecord
<1> DEFINE r == [turn[u] EXCEPT !.phase = "load", !.told = reminder[turn[u].session],
                                !.conv = resets[turn[u].session]]
<1>3. r.phase = "load" /\ r.session = turn[u].session /\ r.parent = turn[u].parent
  BY <1>2
<1>4. turn[u].phase = "waiting" /\ turn' = [turn EXCEPT ![u] = r] /\ UNCHANGED <<permit, jobs>>
  BY DEF Acquire, Step
<1> HIDE DEF r
<1> QED
  BY <1>1, <1>3, <1>4

\* A turn that comes is new, and waits at the end of the line of its session.
LEMMA ArriveTurns ==
    ASSUME SessionTypeOK, NEW u \in Turn, NEW s \in Session, NEW t \in Task \cup {None},
           Arrive(u, s, t)
    PROVE  /\ turn[u].phase = "free" /\ turn'[u].phase = "waiting"
           /\ turn'[u].session = s /\ turn'[u].parent = None
           /\ \A v \in Turn \ {u} : turn'[v] = turn[v]
           /\ permit' = [permit EXCEPT ![s] = Append(@, u)]
           /\ UNCHANGED jobs
<1>1. turn \in [Turn -> TurnRecord]
  BY DEF SessionTypeOK
<1>2. /\ turn[u].phase = "free" /\ turn' = [turn EXCEPT ![u] = NewTurn(s, t, None)]
      /\ permit' = [permit EXCEPT ![s] = Append(@, u)] /\ UNCHANGED jobs
  BY DEF Arrive, Step
<1> QED
  BY <1>1, <1>2, NewTurnFields

\* A turn that ends is the first of its line; a turn that waited for it goes on.
LEMMA LeaveTurns ==
    ASSUME PermitInv, NEW u \in Turn, Leave(u)
    PROVE  /\ turn[u].phase = "post" /\ turn'[u] = FreeTurn /\ turn[u].session \in Session
           /\ permit[turn[u].session] # <<>> /\ Head(permit[turn[u].session]) = u
           /\ permit' = [permit EXCEPT ![turn[u].session] = Tail(@)]
           /\ \A v \in Turn \ {u} :
                /\ turn'[v].session = turn[v].session /\ turn'[v].parent = turn[v].parent
                /\ IF v = turn[u].parent
                   THEN turn[v].phase = "relaying" /\ turn'[v].phase = "post"
                   ELSE turn'[v] = turn[v]
           /\ UNCHANGED jobs
<1>1. /\ turn \in [Turn -> TurnRecord] /\ turn[u].phase = "post"
      /\ turn[u].session \in Session
  BY DEF PermitInv, SessionTypeOK, Leave
<1>2. permit[turn[u].session] # <<>> /\ Head(permit[turn[u].session]) = u
  BY <1>1 DEF PermitInv, InsideIsFirst, Inside
<1>3. /\ turn'[u] = FreeTurn /\ UNCHANGED jobs
      /\ permit' = [permit EXCEPT ![turn[u].session] = Tail(@)]
  BY DEF Leave
<1>4. ASSUME NEW v \in Turn \ {u}
      PROVE  /\ turn'[v].session = turn[v].session /\ turn'[v].parent = turn[v].parent
             /\ IF v = turn[u].parent
                THEN turn[v].phase = "relaying" /\ turn'[v].phase = "post"
                ELSE turn'[v] = turn[v]
  <2>1. CASE v = turn[u].parent
    <3>1. v # None
      BY TurnsAssumption DEF TurnsAssumption
    <3>2. turn[v].phase = "relaying"
      BY <2>1, <3>1 DEF PermitInv, ParentsWait
    <3>3. turn'[v] = Passes(turn[v], "post")
      BY <2>1 DEF Leave, Passes
    <3> QED
      BY <1>1, <2>1, <3>2, <3>3, MovedRecord, NoMetaType
  <2>2. CASE v # turn[u].parent
    BY <1>1, <2>2 DEF Leave
  <2> QED
    BY <2>1, <2>2
<1> QED
  BY <1>1, <1>2, <1>3, <1>4

LEMMA LinesInit == TurnsInit => LinesInv
<1> SUFFICES ASSUME TurnsInit PROVE LinesInv
  OBVIOUS
<1>1. /\ \A s \in Session : permit[s] = <<>>
      /\ \A w \in Worker : jobs[w] = <<>>
      /\ \A u \in Turn : turn[u].phase = "free" /\ turn[u].parent = None
  BY DEF TurnsInit, FreeTurn
<1> QED
  BY <1>1, EmptyLine DEF LinesInv, PermitLines, JobLines, RepliesUnderWay

\* Lines change only where a turn joins or leaves them: what stays the same of all
\* turns keeps the promise about permits.
LEMMA SameTurnsInLine ==
    ASSUME PermitLines, UNCHANGED permit,
           \A v \in Turn : /\ turn'[v].session = turn[v].session
                           /\ turn'[v].phase = "free" <=> turn[v].phase = "free"
    PROVE  PermitLines'
  BY DEF PermitLines

LEMMA SameTurnsQueued ==
    ASSUME JobLines, UNCHANGED jobs,
           \A v \in Turn : turn'[v].phase = "queued" <=> turn[v].phase = "queued"
    PROVE  JobLines'
  BY DEF JobLines

LEMMA SameReplies ==
    ASSUME RepliesUnderWay, SessionTypeOK,
           \A v \in Turn :
              /\ turn'[v].session = turn[v].session /\ turn'[v].parent = turn[v].parent
              /\ turn'[v].phase = "free" <=> turn[v].phase = "free"
              /\ turn'[v].phase = "relaying" <=> turn[v].phase = "relaying"
    PROVE  RepliesUnderWay'
<1>1. \A v \in Turn : turn[v].parent # None => turn[v].parent \in Turn
  BY DEF SessionTypeOK, TurnRecord
<1>2. \A u \in Turn : turn'[u].phase = "relaying" => \E v \in Turn : turn'[v].parent = u
  BY DEF RepliesUnderWay
<1>3. ASSUME NEW v \in Turn, turn'[v].parent # None
      PROVE  /\ turn'[v].phase # "free"
             /\ RelaySession[turn'[turn'[v].parent].session] # None
             /\ turn'[v].session = RelaySession[turn'[turn'[v].parent].session]
  <2>1. /\ turn'[v].parent = turn[v].parent /\ turn[v].parent \in Turn
        /\ turn'[turn[v].parent].session = turn[turn[v].parent].session
    BY <1>1, <1>3
  <2> QED
    BY <1>3, <2>1 DEF RepliesUnderWay
<1> QED
  BY <1>2, <1>3 DEF RepliesUnderWay

\* Between its permit and its end a turn keeps its place in line, and passes through
\* the queue of one worker.
LEMMA LinesWork ==
    ASSUME PermitInv, LinesInv, NEW u \in Turn, Works(u) PROVE LinesInv'
<1>1. /\ turn[u].phase \in Holding /\ turn'[u].phase \in Holding \cup {"post"}
      /\ turn'[u].session = turn[u].session /\ turn'[u].parent = turn[u].parent
      /\ \A v \in Turn \ {u} : turn'[v] = turn[v]
      /\ UNCHANGED permit
  BY WorkAdvances DEF PermitInv
<1>2. jobs \in [Worker -> Seq(Turn)] /\ next \in Worker
  BY DEF PermitInv, SessionTypeOK
<1>3. PermitLines'
  BY <1>1, SameTurnsInLine DEF LinesInv, Holding
<1>4. RepliesUnderWay'
  BY <1>1, SameReplies DEF LinesInv, PermitInv, Holding
<1>5. JobLines'
  <2>1. CASE BeginSave(u)
    <3>1. /\ turn[u].phase = "begun" /\ turn'[u].phase = "queued"
          /\ jobs' = [jobs EXCEPT ![next] = Append(@, u)]
      BY <2>1, WorkMoves DEF PermitInv, BeginSave, Step
    <3>2. \A w \in Worker : ~Has(jobs[w], u)
      BY <3>1 DEF LinesInv, JobLines
    <3>3. /\ Once(jobs'[next]) /\ \A y : Has(jobs'[next], y) <=> Has(jobs[next], y) \/ y = u
      <4>1. jobs'[next] = Append(jobs[next], u) /\ jobs[next] \in Seq(Turn) /\ Once(jobs[next])
        BY <1>2, <3>1 DEF LinesInv, JobLines
      <4> QED
        BY <1>2, <3>2, <4>1, JoinsLine
    <3>4. \A w \in Worker \ {next} : jobs'[w] = jobs[w]
      BY <1>2, <3>1
    <3>5. \A w \in Worker : Once(jobs'[w])
      BY <3>3, <3>4 DEF LinesInv, JobLines
    <3>6. \A w \in Worker, v \in Turn :
             Has(jobs'[w], v) <=> Has(jobs[w], v) \/ (w = next /\ v = u)
      BY <3>3, <3>4
    <3>7. \A v \in Turn : turn'[v].phase = "queued" <=> turn[v].phase = "queued" \/ v = u
      BY <1>1, <3>1
    <3> QED
      BY <1>2, <3>2, <3>5, <3>6, <3>7 DEF LinesInv, JobLines
  <2>2. CASE RunTurn(u)
    <3>1. PICK w \in Worker : /\ jobs[w] # <<>> /\ Head(jobs[w]) = u
                              /\ jobs' = [jobs EXCEPT ![w] = Tail(@)]
      BY <2>2 DEF RunTurn
    <3>2. turn'[u].phase # "queued"
      <4>1. PICK r \in TurnRecord :
               turn' = [turn EXCEPT ![u] = r] /\ r.phase \in {"complete", "recover"}
        BY <2>2, RunTurnRecord DEF PermitInv
      <4> QED
        BY <4>1 DEF PermitInv, SessionTypeOK
    <3>3. /\ Has(jobs[w], u) /\ Once(jobs'[w])
          /\ \A y : Has(jobs'[w], y) <=> Has(jobs[w], y) /\ y # u
      <4>1. jobs'[w] = Tail(jobs[w]) /\ jobs[w] \in Seq(Turn) /\ Once(jobs[w])
        BY <1>2, <3>1 DEF LinesInv, JobLines
      <4> QED
        BY <3>1, <4>1, LeavesLine
    <3>4. \A x \in Worker \ {w} : jobs'[x] = jobs[x]
      BY <1>2, <3>1
    <3>5. \A x \in Worker : Once(jobs'[x])
      BY <3>3, <3>4 DEF LinesInv, JobLines
    <3>6. \A x \in Worker : ~Has(jobs'[x], u)
      BY <3>3, <3>4 DEF LinesInv, JobLines
    <3>7. \A x \in Worker, v \in Turn \ {u} : Has(jobs'[x], v) <=> Has(jobs[x], v)
      BY <3>3, <3>4
    <3> QED
      BY <1>1, <3>2, <3>5, <3>6, <3>7 DEF LinesInv, JobLines
  <2>3. CASE ~BeginSave(u) /\ ~RunTurn(u)
    <3>1. UNCHANGED jobs
      BY <2>3 DEF Works, Resumable, DropStale, BeginLoad, RecoverLoad, RecoverSave,
                  CompleteLoad, CompleteSave
    <3>2. turn[u].phase # "queued" /\ turn'[u].phase # "queued"
      BY <2>3, WorkMoves DEF PermitInv
    <3> QED
      BY <1>1, <3>1, <3>2, SameTurnsQueued DEF LinesInv
  <2> QED
    BY <2>1, <2>2, <2>3
<1> QED
  BY <1>3, <1>4, <1>5 DEF LinesInv

LEMMA LinesAcquire ==
    ASSUME PermitInv, LinesInv, NEW u \in Turn, Acquire(u) PROVE LinesInv'
<1>1. \A v \in Turn :
         /\ turn'[v].session = turn[v].session /\ turn'[v].parent = turn[v].parent
         /\ turn'[v].phase = "free" <=> turn[v].phase = "free"
         /\ turn'[v].phase = "relaying" <=> turn[v].phase = "relaying"
         /\ turn'[v].phase = "queued" <=> turn[v].phase = "queued"
  BY AcquireTurns DEF PermitInv
<1>2. UNCHANGED <<permit, jobs>>
  BY AcquireTurns DEF PermitInv
<1> QED
  BY <1>1, <1>2, SameTurnsInLine, SameTurnsQueued, SameReplies DEF LinesInv, PermitInv

\* The line moves up; the turn that waited for the reply has it.
LEMMA LinesLeave ==
    ASSUME PermitInv, LinesInv, NEW u \in Turn, Leave(u) PROVE LinesInv'
<1> DEFINE s == turn[u].session
<1>1. /\ turn[u].phase = "post" /\ turn'[u] = FreeTurn /\ s \in Session
      /\ permit[s] # <<>> /\ Head(permit[s]) = u
      /\ permit' = [permit EXCEPT ![s] = Tail(@)]
      /\ UNCHANGED jobs
  BY LeaveTurns
<1>2. \A v \in Turn \ {u} :
         /\ turn'[v].session = turn[v].session /\ turn'[v].parent = turn[v].parent
         /\ IF v = turn[u].parent THEN turn[v].phase = "relaying" /\ turn'[v].phase = "post"
                                  ELSE turn'[v] = turn[v]
  BY LeaveTurns
<1>3. turn'[u].phase = "free" /\ turn'[u].parent = None /\ turn'[u].session = None
  BY <1>1 DEF FreeTurn
<1>4. PermitLines'
  <2>1. permit[s] \in Seq(Turn) /\ Once(permit[s]) /\ permit'[s] = Tail(permit[s])
    BY <1>1 DEF PermitInv, SessionTypeOK, LinesInv, PermitLines
  <2>2. Once(permit'[s]) /\ \A y : Has(permit'[s], y) <=> Has(permit[s], y) /\ y # u
    BY <1>1, <2>1, LeavesLine
  <2>3. \A x \in Session \ {s} : permit'[x] = permit[x]
    BY <1>1 DEF PermitInv, SessionTypeOK
  <2>4. \A v \in Turn \ {u} : /\ turn'[v].session = turn[v].session
                              /\ turn'[v].phase = "free" <=> turn[v].phase = "free"
    BY <1>2
  <2> HIDE DEF s
  <2>5. \A x \in Session : Once(permit'[x])
    BY <2>2, <2>3 DEF LinesInv, PermitLines
  <2>6. \A x \in Session : ~Has(permit'[x], u)
    BY <2>2, <2>3 DEF LinesInv, PermitLines, s
  <2>7. \A x \in Session, v \in Turn \ {u} : Has(permit'[x], v) <=> Has(permit[x], v)
    BY <2>2, <2>3
  <2>8. ASSUME NEW x \in Session, NEW v \in Turn
        PROVE  Has(permit'[x], v) <=> turn'[v].phase # "free" /\ turn'[v].session = x
    <3>1. CASE v = u
      BY <1>3, <2>6, <3>1
    <3>2. CASE v # u
      BY <2>4, <2>7, <3>2 DEF LinesInv, PermitLines
    <3> QED
      BY <3>1, <3>2
  <2> QED
    BY <2>5, <2>8 DEF PermitLines
<1>5. JobLines'
  <2>1. \A v \in Turn : turn'[v].phase = "queued" <=> turn[v].phase = "queued"
    BY <1>1, <1>2, <1>3
  <2> QED
    BY <1>1, <2>1, SameTurnsQueued DEF LinesInv
<1>6. RepliesUnderWay'
  <2>1. \A v \in Turn : turn'[v].phase = "relaying" =>
           v # u /\ v # turn[u].parent /\ turn[v].phase = "relaying"
    BY <1>2, <1>3
  <2>2. ASSUME NEW v \in Turn, turn'[v].phase = "relaying"
        PROVE  \E x \in Turn : turn'[x].parent = v
    <3>1. PICK x \in Turn : turn[x].parent = v
      BY <2>1, <2>2 DEF LinesInv, RepliesUnderWay
    <3>2. x # u
      BY <2>1, <2>2, <3>1
    <3> QED
      BY <1>2, <3>1, <3>2
  <2>3. ASSUME NEW v \in Turn, turn'[v].parent # None
        PROVE  /\ turn'[v].phase # "free"
               /\ RelaySession[turn'[turn'[v].parent].session] # None
               /\ turn'[v].session = RelaySession[turn'[turn'[v].parent].session]
    <3>1. v # u /\ turn'[v].parent = turn[v].parent /\ turn'[v].session = turn[v].session
      BY <1>2, <1>3, <2>3
    <3>2. turn[v].parent \in Turn /\ turn[turn[v].parent].phase = "relaying"
      BY <2>3, <3>1 DEF PermitInv, SessionTypeOK, TurnRecord, ParentsWait
    <3>3. turn[v].parent # u
      BY <1>1, <3>2
    <3>4. turn'[turn[v].parent].session = turn[turn[v].parent].session
      BY <1>2, <3>2, <3>3
    <3>5. turn[v].phase # "free" => turn'[v].phase # "free"
      BY <1>2, <3>1
    <3> QED
      BY <2>3, <3>1, <3>4, <3>5 DEF LinesInv, RepliesUnderWay
  <2> QED
    BY <2>2, <2>3 DEF RepliesUnderWay
<1> QED
  BY <1>4, <1>5, <1>6 DEF LinesInv

\* A turn that was free joins the line of a session; all others are as they were.
LEMMA JoinsPermitLine ==
    ASSUME PermitInv, PermitLines, NEW v \in Turn, NEW s \in Session,
           turn[v].phase = "free", turn'[v].phase # "free", turn'[v].session = s,
           permit' = [permit EXCEPT ![s] = Append(@, v)],
           \A w \in Turn \ {v} : /\ turn'[w].session = turn[w].session
                                 /\ turn'[w].phase = "free" <=> turn[w].phase = "free"
    PROVE  PermitLines'
<1>1. permit \in [Session -> Seq(Turn)]
  BY DEF PermitInv, SessionTypeOK
<1>2. \A x \in Session : ~Has(permit[x], v)
  BY DEF PermitLines
<1>3. /\ Once(permit'[s]) /\ \A y : Has(permit'[s], y) <=> Has(permit[s], y) \/ y = v
  <2>1. permit'[s] = Append(permit[s], v) /\ permit[s] \in Seq(Turn) /\ Once(permit[s])
    BY <1>1 DEF PermitLines
  <2> QED
    BY <1>2, <2>1, JoinsLine
<1>4. \A x \in Session \ {s} : permit'[x] = permit[x]
  BY <1>1
<1>5. \A x \in Session : Once(permit'[x])
  BY <1>3, <1>4 DEF PermitLines
<1>6. ASSUME NEW x \in Session, NEW w \in Turn
      PROVE  Has(permit'[x], w) <=> turn'[w].phase # "free" /\ turn'[w].session = x
  <2>1. CASE w = v
    BY <1>2, <1>3, <1>4, <2>1
  <2>2. CASE w # v
    <3>1. Has(permit[x], w) <=> turn[w].phase # "free" /\ turn[w].session = x
      BY DEF PermitLines
    <3>2. Has(permit'[x], w) <=> Has(permit[x], w)
      BY <1>3, <1>4, <2>2
    <3> QED
      BY <2>2, <3>1, <3>2
  <2> QED
    BY <2>1, <2>2
<1> QED
  BY <1>5, <1>6 DEF PermitLines

LEMMA LinesArrive ==
    ASSUME PermitInv, LinesInv, NEW u \in Turn, NEW s \in Session,
           NEW t \in Task \cup {None}, Arrive(u, s, t)
    PROVE  LinesInv'
<1>1. /\ turn[u].phase = "free" /\ turn'[u].phase = "waiting"
      /\ turn'[u].session = s /\ turn'[u].parent = None
      /\ \A v \in Turn \ {u} : turn'[v] = turn[v]
      /\ permit' = [permit EXCEPT ![s] = Append(@, u)]
      /\ UNCHANGED jobs
  BY ArriveTurns DEF PermitInv
<1>2. PermitLines'
  BY <1>1, JoinsPermitLine DEF LinesInv
<1>3. JobLines'
  <2>1. \A v \in Turn : turn'[v].phase = "queued" <=> turn[v].phase = "queued"
    BY <1>1
  <2> QED
    BY <1>1, <2>1, SameTurnsQueued DEF LinesInv
<1>4. RepliesUnderWay'
  <2>1. ASSUME NEW v \in Turn, turn'[v].phase = "relaying"
        PROVE  \E x \in Turn : turn'[x].parent = v
    <3>1. turn[v].phase = "relaying"
      BY <1>1, <2>1
    <3>2. PICK x \in Turn : turn[x].parent = v
      BY <3>1 DEF LinesInv, RepliesUnderWay
    <3>3. x # u
      <4>1. v # None
        BY TurnsAssumption DEF TurnsAssumption
      <4> QED
        BY <1>1, <3>2, <4>1 DEF LinesInv, RepliesUnderWay
    <3> QED
      BY <1>1, <3>2, <3>3
  <2>2. ASSUME NEW v \in Turn, turn'[v].parent # None
        PROVE  /\ turn'[v].phase # "free"
               /\ RelaySession[turn'[turn'[v].parent].session] # None
               /\ turn'[v].session = RelaySession[turn'[turn'[v].parent].session]
    <3>1. v # u /\ turn'[v] = turn[v]
      BY <1>1, <2>2
    <3>2. turn[v].parent \in Turn /\ turn[turn[v].parent].phase = "relaying"
      BY <2>2, <3>1 DEF PermitInv, SessionTypeOK, TurnRecord, ParentsWait
    <3>3. turn'[turn[v].parent] = turn[turn[v].parent]
      BY <1>1, <3>2
    <3> QED
      BY <2>2, <3>1, <3>3 DEF LinesInv, RepliesUnderWay
  <2> QED
    BY <2>1, <2>2 DEF RepliesUnderWay
<1> QED
  BY <1>2, <1>3, <1>4 DEF LinesInv

\* The new turn of a relay stands in the line of another session.
LEMMA LinesRelay ==
    ASSUME PermitInv, LinesInv, NEW u \in Turn, NEW v \in Turn, Relay(u, v)
    PROVE  LinesInv'
<1>1. /\ u # v /\ turn[u].phase = "post" /\ turn[v].phase = "free"
      /\ turn[u].session \in Session /\ RelayKey(turn[u].session) \in Session
      /\ turn'[u].phase = "relaying" /\ turn'[u].session = turn[u].session
      /\ turn'[u].parent = turn[u].parent
      /\ \A w \in Turn \ {u, v} : turn'[w] = turn[w]
      /\ UNCHANGED jobs
  BY RelayTurns DEF PermitInv
<1>2. /\ turn'[v].phase = "waiting" /\ turn'[v].parent = u
      /\ turn'[v].session = RelayKey(turn[u].session)
  BY RelayTurns, NewTurnFields DEF PermitInv
<1>3. /\ permit' = [permit EXCEPT ![RelayKey(turn[u].session)] = Append(@, v)]
      /\ RelaySession[turn[u].session] # None
  BY DEF Relay
<1>4. PermitLines'
  <2>1. \A w \in Turn \ {v} : /\ turn'[w].session = turn[w].session
                              /\ turn'[w].phase = "free" <=> turn[w].phase = "free"
    BY <1>1
  <2> QED
    BY <1>1, <1>2, <1>3, <2>1, JoinsPermitLine DEF LinesInv
<1>5. JobLines'
  <2>1. \A w \in Turn : turn'[w].phase = "queued" <=> turn[w].phase = "queued"
    BY <1>1, <1>2
  <2> QED
    BY <1>1, <2>1, SameTurnsQueued DEF LinesInv
<1>6. RepliesUnderWay'
  <2>1. ASSUME NEW w \in Turn, turn'[w].phase = "relaying"
        PROVE  \E x \in Turn : turn'[x].parent = w
    <3>1. CASE w = u
      BY <1>2, <3>1
    <3>2. CASE w # u
      <4>1. turn[w].phase = "relaying"
        BY <1>1, <1>2, <2>1, <3>2
      <4>2. PICK x \in Turn : turn[x].parent = w
        BY <4>1 DEF LinesInv, RepliesUnderWay
      <4>3. w # None
        BY TurnsAssumption DEF TurnsAssumption
      <4>4. x # v
        BY <1>1, <4>2, <4>3 DEF LinesInv, RepliesUnderWay
      <4> QED
        BY <1>1, <4>2, <4>4
    <3> QED
      BY <3>1, <3>2
  <2>2. ASSUME NEW w \in Turn, turn'[w].parent # None
        PROVE  /\ turn'[w].phase # "free"
               /\ RelaySession[turn'[turn'[w].parent].session] # None
               /\ turn'[w].session = RelaySession[turn'[turn'[w].parent].session]
    <3>1. CASE w = v
      BY <1>1, <1>2, <1>3, <3>1 DEF RelayKey
    <3>2. CASE w # v
      <4>1. /\ turn'[w].parent = turn[w].parent /\ turn'[w].session = turn[w].session
            /\ turn'[w].phase = "free" <=> turn[w].phase = "free"
        BY <1>1, <3>2
      <4>2. turn[w].parent \in Turn /\ turn[turn[w].parent].phase = "relaying"
        BY <2>2, <4>1 DEF PermitInv, SessionTypeOK, TurnRecord, ParentsWait
      <4>3. turn[w].parent # v
        BY <1>1, <4>2
      <4>4. turn'[turn[w].parent].session = turn[turn[w].parent].session
        BY <1>1, <4>2, <4>3
      <4> QED
        BY <2>2, <4>1, <4>4 DEF LinesInv, RepliesUnderWay
    <3> QED
      BY <3>1, <3>2
  <2> QED
    BY <2>1, <2>2 DEF RepliesUnderWay
<1> QED
  BY <1>4, <1>5, <1>6 DEF LinesInv

LEMMA LinesStep == PermitInv /\ LinesInv /\ [Next]_turnVars => LinesInv'
<1> SUFFICES ASSUME PermitInv, LinesInv, [Next]_turnVars PROVE LinesInv'
  OBVIOUS
<1>1. CASE Crash
  <2>1. /\ \A s \in Session : permit'[s] = <<>>
        /\ \A w \in Worker : jobs'[w] = <<>>
        /\ \A u \in Turn : turn'[u].phase = "free" /\ turn'[u].parent = None
    BY <1>1 DEF Crash, FreeTurn
  <2> QED
    BY <2>1, EmptyLine DEF LinesInv, PermitLines, JobLines, RepliesUnderWay
<1>2. CASE Start \/ (\E s \in Session : ResetConversation(s)) \/ UNCHANGED turnVars
  <2>1. UNCHANGED <<turn, permit, jobs>>
    BY <1>2 DEF Start, ResetConversation, turnVars
  <2> QED
    BY <2>1 DEF LinesInv, PermitLines, JobLines, RepliesUnderWay
<1> QED
  BY <1>1, <1>2, Steps, LinesAcquire, LinesWork, LinesLeave, LinesRelay, LinesArrive
-----------------------------------------------------------------------------
(* No circle *)

\* Whoever waits in line for a permit waits for the first, which is in progress in
\* the same session.
LEMMA FirstInLine ==
    ASSUME PermitInv, LinesInv, NEW u \in Turn, turn[u].phase # "free"
    PROVE  LET line == permit[turn[u].session]
           IN  /\ line # <<>> /\ Head(line) \in Turn
               /\ turn[Head(line)].phase # "free"
               /\ turn[Head(line)].session = turn[u].session
<1> DEFINE s == turn[u].session
<1>1. s \in Session /\ permit[s] \in Seq(Turn)
  BY DEF PermitInv, SessionTypeOK
<1>2. Has(permit[s], u)
  BY <1>1 DEF LinesInv, PermitLines
<1>3. permit[s] # <<>>
  BY <1>2, EmptyLine
<1>4. Head(permit[s]) \in Turn
  BY <1>1, <1>3
<1>5. Has(permit[s], Head(permit[s]))
  BY <1>1, <1>3, LeavesLine
<1> QED
  BY <1>1, <1>3, <1>4, <1>5 DEF LinesInv, PermitLines

\* Whoever waits for a worker waits for its first turn, which can move.
LEMMA FirstAtWorker ==
    ASSUME PermitInv, LinesInv, NEW u \in Turn, turn[u].phase = "queued"
    PROVE  CanMove(u) \/ \E v \in InProgress : WaitsFor(u, v) /\ CanMove(v)
<1>1. PICK w \in Worker : Has(jobs[w], u)
  BY DEF LinesInv, JobLines
<1>2. jobs[w] \in Seq(Turn)
  BY DEF PermitInv, SessionTypeOK
<1>3. jobs[w] # <<>>
  BY <1>1, EmptyLine
<1>4. PICK i \in 1..Len(jobs[w]) : jobs[w][i] = u
  BY <1>1 DEF Has
<1>5. Head(jobs[w]) \in Turn /\ Has(jobs[w], Head(jobs[w])) /\ Head(jobs[w]) = jobs[w][1]
  BY <1>2, <1>3, LeavesLine
<1>6. turn[Head(jobs[w])].phase = "queued"
  BY <1>5 DEF LinesInv, JobLines
<1>7. CanMove(Head(jobs[w]))
  BY <1>3, <1>6 DEF CanMove
<1>8. CASE i = 1
  BY <1>4, <1>5, <1>7, <1>8
<1>9. CASE i # 1
  <2>1. i \in 2..Len(jobs[w])
    BY <1>2, <1>9
  <2>2. WaitsFor(u, Head(jobs[w]))
    BY <1>4, <2>1 DEF WaitsFor
  <2> QED
    BY <1>5, <1>6, <1>7, <2>2 DEF InProgress
<1> QED
  BY <1>8, <1>9

\* A turn that relays waits for a turn of the session of its relay.
LEMMA ReplyIsElsewhere ==
    ASSUME PermitInv, LinesInv, NEW u \in Turn, turn[u].phase = "relaying"
    PROVE  \E v \in InProgress : /\ WaitsFor(u, v)
                                 /\ RelaySession[turn[u].session] # None
                                 /\ turn[v].session = RelaySession[turn[u].session]
<1>1. PICK v \in Turn : turn[v].parent = u
  BY DEF LinesInv, RepliesUnderWay
<1>2. u # None
  BY TurnsAssumption DEF TurnsAssumption
<1> QED
  BY <1>1, <1>2 DEF LinesInv, RepliesUnderWay, WaitsFor, InProgress

\* One of the turns of D has the fewest relays after it.
LEMMA FewestLeft ==
    ASSUME PermitInv, NEW D \in SUBSET InProgress, D # {}
    PROVE  \E u \in D : \A v \in D :
              RelaySession[turn[u].session] # None
                 => turn[v].session # RelaySession[turn[u].session]
<1>1. PICK left \in [Session -> 0..Cardinality(Session)] :
         \A s \in Session : RelaySession[s] # None => left[RelaySession[s]] < left[s]
  BY RelaysEnd DEF RelaysEnd
<1>2. \A u \in D : turn[u].session \in Session /\ left[turn[u].session] \in Nat
  BY <1>1 DEF InProgress, PermitInv, SessionTypeOK
<1> DEFINE T == {left[turn[u].session] : u \in D}
<1>3. T \subseteq Nat /\ T # {}
  BY <1>2
<1> HIDE DEF T
<1>4. PICK n \in T : \A m \in T : n <= m
  BY <1>3, LeastNat
<1>5. PICK u \in D : left[turn[u].session] = n
  BY <1>4 DEF T
<1>6. ASSUME NEW v \in D, RelaySession[turn[u].session] # None,
             turn[v].session = RelaySession[turn[u].session]
      PROVE  FALSE
  <2>1. left[turn[v].session] < n
    BY <1>1, <1>2, <1>5, <1>6
  <2>2. left[turn[v].session] \in T
    BY DEF T
  <2> QED
    BY <1>2, <1>3, <1>4, <2>1, <2>2
<1> QED
  BY <1>6

\* Among turns in progress one can move or waits for one of the others: the one with
\* the fewest relays left, or the turn that is first in its line.
LEMMA LinesMove == PermitInv /\ LinesInv => NoneWaitInACircle
<1> SUFFICES ASSUME PermitInv, LinesInv, NEW D \in SUBSET InProgress, D # {}
             PROVE  \E u \in D : CanMove(u) \/ \E v \in InProgress \ D : WaitsFor(u, v)
  BY DEF NoneWaitInACircle
<1> SUFFICES ASSUME \A u \in D : ~CanMove(u),
                    \A u \in D : \A v \in InProgress : WaitsFor(u, v) => v \in D
             PROVE  FALSE
  OBVIOUS
<1>1. PICK u \in D : \A v \in D : RelaySession[turn[u].session] # None
                                   => turn[v].session # RelaySession[turn[u].session]
  BY FewestLeft
<1> DEFINE h == Head(permit[turn[u].session])
<1>2. /\ u \in Turn /\ turn[u].phase # "free" /\ turn[u] \in TurnRecord
      /\ D \subseteq InProgress
  BY DEF InProgress, PermitInv, SessionTypeOK
<1>3. /\ permit[turn[u].session] # <<>> /\ h \in Turn /\ turn[h].phase # "free"
      /\ turn[h].session = turn[u].session
  BY <1>2, FirstInLine
<1>4. ASSUME NEW v \in D PROVE turn[v].phase # "queued"
  BY <1>2, <1>4, FirstAtWorker DEF InProgress
<1>5. ASSUME NEW v \in D, turn[v].session = turn[u].session PROVE turn[v].phase # "relaying"
  BY <1>1, <1>2, <1>5, ReplyIsElsewhere DEF InProgress
<1>6. ASSUME NEW v \in D, turn[v].session = turn[u].session PROVE turn[v].phase = "waiting"
  <2>1. turn[v] \in TurnRecord /\ turn[v].phase # "free"
    BY <1>6 DEF InProgress, PermitInv, SessionTypeOK
  <2>2. turn[v].phase \in Holding \cup {"free", "waiting", "post", "relaying"}
    BY <2>1 DEF TurnRecord
  <2>3. turn[v].phase \notin (Holding \ {"queued"}) \cup {"post"}
    BY DEF CanMove
  <2> QED
    BY <1>4, <1>5, <1>6, <2>1, <2>2, <2>3
<1>7. h \in D
  <2>1. WaitsFor(u, h)
    BY <1>3, <1>6 DEF WaitsFor
  <2> QED
    BY <1>3, <2>1 DEF InProgress
<1>8. CanMove(h)
  BY <1>3, <1>6, <1>7 DEF CanMove
<1> QED
  BY <1>7, <1>8

\* No circle of turns, whatever waits for what: a turn behind the permit of a session,
\* behind a busy worker, or for the reply of another agent, which is why
\* apply_relay_hook may run with the permit of its session held.
THEOREM TurnsNeverBlock == TurnsSafety => []NoneWaitInACircle
<1>1. TurnsInit => PermitInv /\ LinesInv
  BY PermitInit, LinesInit
<1>2. PermitInv /\ LinesInv /\ [Next]_turnVars => (PermitInv /\ LinesInv)'
  BY PermitStep, LinesStep
<1>3. PermitInv /\ LinesInv => NoneWaitInACircle
  BY LinesMove
<1> QED
  BY <1>1, <1>2, <1>3, PTL DEF TurnsSafety
=============================================================================
