---------------------- MODULE CompletionRoutingProofs ----------------------
(***************************************************************************)
(* Theorems about the way of the events to the lead, for every set of      *)
(* tasks and agents and every capacity of the channel.                     *)
(***************************************************************************)
EXTENDS CompletionRouting, SequenceFiltersProofs, TaskRegistryProofs

-----------------------------------------------------------------------------
(* The table *)

\* Every step of the handlers, the redispatch task and the retry task is one
\* operation of the registry or leaves the table alone.
LEMMA RoutingStepIsRegistryStep ==
    RegistryTypeOK /\ [Next]_routingVars => [RegistryNext]_registryVars
<1> SUFFICES ASSUME RegistryTypeOK, [Next]_routingVars PROVE [RegistryNext]_registryVars
  OBVIOUS
<1>1. CASE Handlers
  <2>1. PICK t \in Task :
            \/ ClaimExpires(t) \/ StaleClaim(t) \/ Accepted(t) \/ Reopened(t)
            \/ \E a \in Agent :
                  \/ Register(t, a) \/ Dispatch(t, a) \/ Assigned(t, a)
                  \/ Submitted(t, a) \/ Completed(t, a) \/ Blocked(t, a)
                  \/ MissingCompletion(t, a)
                  \/ \E kind \in {"checkpoint", "news"} : Reports(kind, t, a)
    BY <1>1 DEF Handlers
  <2>2. CASE ClaimExpires(t) \/ StaleClaim(t) \/ Accepted(t) \/ Reopened(t)
    BY <2>2 DEF ClaimExpires, StaleClaim, Accepted, Reopened, RegistryNext
  <2>3. ASSUME NEW a \in Agent,
               \/ Register(t, a) \/ Dispatch(t, a) \/ Assigned(t, a)
               \/ Submitted(t, a) \/ Completed(t, a) \/ Blocked(t, a)
        PROVE  RegistryNext
    <3>1. a \in MaybeAgent /\ {} \in SUBSET Task
      BY DEF MaybeAgent
    <3> QED
      BY <2>3, <3>1 DEF Register, Dispatch, Assigned, Submitted, Completed, Blocked, RegistryNext
  <2>4. ASSUME NEW a \in Agent, MissingCompletion(t, a) PROVE [RegistryNext]_registryVars
    BY <2>4 DEF MissingCompletion, RegistryNext
  <2>5. ASSUME NEW a \in Agent, NEW kind, Reports(kind, t, a) PROVE UNCHANGED registryVars
    BY <2>5 DEF Reports
  <2> QED
    BY <2>1, <2>2, <2>3, <2>4, <2>5
<1>2. CASE Redispatch
  BY <1>2 DEF Redispatch, Receive, PostUpdate, TurnError, TurnEnds, TurnUnresolved, TurnResolves,
              NextAttempt, Settle
<1>3. CASE Flush \/ SetNotifyTx \/ Crash \/ \E i \in DOMAIN store : BackoffEnds(i)
  BY <1>3 DEF Flush, SetNotifyTx, Crash, BackoffEnds
<1>4. CASE UNCHANGED routingVars
  BY <1>4 DEF routingVars
<1> QED
  BY <1>1, <1>2, <1>3, <1>4 DEF Next

\* The table under the handlers that speak to the lead is the registry: what holds of
\* the registry holds here.
THEOREM RoutingImplementsRegistry == RoutingSafety => RegistrySpec
<1>1. RoutingInit => RegistryInit
  BY DEF RoutingInit
<1>2. RegistryInit => RegistryInv
  BY RegistryInitInv
<1>3. RegistryInv /\ [Next]_routingVars => RegistryInv' /\ [RegistryNext]_registryVars
  BY RoutingStepIsRegistryStep, RegistryStepInv DEF RegistryInv
<1> QED
  BY <1>1, <1>2, <1>3, PTL DEF RoutingSafety, RegistrySpec
-----------------------------------------------------------------------------
(* What flushing the file sends and leaves *)

\* Only events that need a review carry its metadata.
Sound == {r \in Record : r.review # "none" => r.event.kind \in Reviewed}

Sends == {r \in Sound : r.review # "later"}

\* The events of a sequence of records.
LEMMA EventsInSeq ==
    ASSUME NEW s \in Seq(Record)
    PROVE  \A e : e \in EventsOf(s) <=> \E i \in 1..Len(s) : s[i].event = e
  BY DEF EventsOf

\* What is sent are records that are ready, as many as there is room for.
LEMMA SendableRecords ==
    ASSUME NEW s \in Seq(Sound), NEW room \in Nat
    PROVE  /\ Sendable(s, room) \in Seq(Sends) /\ Len(Sendable(s, room)) <= room
           /\ \A n \in 1..Len(Sendable(s, room)) :
                 \E i \in 1..Len(s) : Sendable(s, room)[n] = s[i]
<1> DEFINE q == Filter(s, IsReady)
           p == Sendable(s, room)
<1>1. q \in Seq(Sound) /\ Filtered(q, s, Len(s), IsReady)
  BY FilterElements
<1>2. \A i \in 1..Len(q) : q[i] \in IsReady /\ q[i] \in Sound
  BY <1>1 DEF Filtered
<1>20. \A i \in 1..Len(q) : \E k \in 1..Len(s) : q[i] = s[k]
  <2> HIDE DEF q
  <2> QED
    BY <1>1 DEF Filtered
<1> HIDE DEF q
<1>3. /\ p \in Seq(Sound) /\ Len(p) <= room
      /\ \A i \in 1..Len(p) : i \in 1..Len(q) /\ p[i] = q[i]
  BY <1>1, PrefixElements DEF Sendable, q
<1> HIDE DEF p
<1>4. \A i \in 1..Len(p) : p[i] \in Sends
  BY <1>2, <1>3 DEF IsReady, ReadyForRetry, Sends
<1>5. p \in Seq(Sends)
  <2> HIDE DEF Sends
  <2> QED
    BY <1>3, <1>4
<1> QED
  BY <1>20, <1>3, <1>5 DEF p

\* What is left are records of the file, some with a later attempt.
LEMMA FlushedRecords ==
    ASSUME NEW s \in Seq(Sound), NEW room \in Nat
    PROVE  /\ Flushed(s, room) \in Seq(Sound)
           /\ \A i \in 1..Len(s) :
                \/ \E k \in 1..Len(Flushed(s, room)) :
                      /\ Flushed(s, room)[k].event = s[i].event
                      /\ s[i].review # "none" => Flushed(s, room)[k].review # "none"
                \/ /\ s[i].review = "none"
                   /\ \E n \in 1..Len(Sendable(s, room)) : Sendable(s, room)[n] = s[i]
           /\ \A k \in 1..Len(Flushed(s, room)) : \E i \in 1..Len(s) :
                 /\ Flushed(s, room)[k].event = s[i].event
                 /\ Flushed(s, room)[k].review # "none" => s[i].review # "none"
<1> DEFINE R == {r \in Record : r.review # "none"}
           J == [i \in 1..Len(s) |-> i]
           K == {i \in 1..Len(s) : Sent(s, room, i) => s[i] \in R}
           keep == Kept(s, room, R)
           f == Flushed(s, room)
           S == 1..Len(s)
<1>1. keep \in Seq(S) /\ Filtered(keep, J, Len(J), K)
  <2>1. J \in Seq(S)
    OBVIOUS
  <2>2. keep = Filter(J, K)
    BY DEF Kept
  <2> HIDE DEF J, K, S, keep
  <2> QED
    BY <2>1, <2>2, FilterElements
<1>2. /\ \A k \in 1..Len(keep) : keep[k] \in 1..Len(s)
      /\ \A i \in K : \E k \in 1..Len(keep) : keep[k] = i
  <2>1. \A i \in K : i \in 1..Len(J) /\ J[i] = i
    OBVIOUS
  <2> HIDE DEF J, K, keep
  <2> QED
    BY <1>1, <2>1 DEF Filtered
<1>3. f = [k \in 1..Len(keep) |-> IF Sent(s, room, keep[k]) THEN Deferred(s[keep[k]]) ELSE s[keep[k]]]
  BY DEF Flushed
<1>4. \A r \in Sound : /\ Deferred(r) \in Sound
                       /\ Deferred(r).event = r.event
                       /\ r.review # "none" <=> Deferred(r).review # "none"
  BY DEF Deferred, Sound, Record
<1>5. Len(keep) \in Nat
  BY <1>1
<1> HIDE DEF keep, f
<1>6. /\ f \in Seq(Sound) /\ Len(f) = Len(keep)
      /\ \A k \in 1..Len(keep) : /\ f[k].event = s[keep[k]].event
                                 /\ s[keep[k]].review # "none" <=> f[k].review # "none"
  <2>1. \A k \in 1..Len(keep) : s[keep[k]] \in Sound
    BY <1>2
  <2>2. \A k \in 1..Len(keep) : f[k] = Deferred(s[keep[k]]) \/ f[k] = s[keep[k]]
    BY <1>3
  <2>3. \A k \in 1..Len(keep) : f[k] \in Sound
    BY <1>4, <2>1, <2>2
  <2>4. DOMAIN f = 1..Len(keep) /\ f = [k \in 1..Len(keep) |-> f[k]]
    BY <1>3
  <2>5. f \in Seq(Sound) /\ Len(f) = Len(keep)
    <3> HIDE DEF Sound
    <3> QED
      BY <1>5, <2>3, <2>4
  <2> QED
    BY <1>4, <2>1, <2>2, <2>5
<1>7. ASSUME NEW i \in 1..Len(s), i \notin K
      PROVE  /\ s[i].review = "none"
             /\ \E n \in 1..Len(Sendable(s, room)) : Sendable(s, room)[n] = s[i]
  <2> DEFINE q == Filter(s, IsReady)
             n == Len(FilterUpTo(s, IsReady)[i])
             p == Sendable(s, room)
  <2>1. s[i] \in IsReady /\ n <= room /\ s[i] \notin R /\ s[i] \in Record
    BY <1>7 DEF Sent, Sound
  <2>2. n \in 1..Len(q) /\ q[n] = s[i]
    BY <2>1, FilterPlaces
  <2>3. q \in Seq(Sound)
    BY FilterElements
  <2> HIDE DEF q, n, p
  <2>4. /\ Len(p) = IF room < Len(q) THEN room ELSE Len(q)
        /\ \A m \in 1..Len(p) : p[m] = q[m]
    BY <2>3, PrefixElements DEF Sendable, q, p
  <2>5. n \in 1..Len(p) /\ p[n] = s[i]
    BY <2>1, <2>2, <2>3, <2>4
  <2> QED
    BY <2>1, <2>5 DEF p
<1>8. ASSUME NEW i \in 1..Len(s)
      PROVE  \/ \E k \in 1..Len(f) : f[k].event = s[i].event /\ (s[i].review # "none" => f[k].review # "none")
             \/ /\ s[i].review = "none"
                /\ \E n \in 1..Len(Sendable(s, room)) : Sendable(s, room)[n] = s[i]
  <2>1. CASE i \in K
    <3>1. PICK k \in 1..Len(keep) : keep[k] = i
      BY <1>2, <2>1
    <3>2. f[k].event = s[i].event /\ (s[i].review # "none" => f[k].review # "none")
      BY <1>6, <3>1
    <3> QED
      BY <1>6, <3>2
  <2>2. CASE i \notin K
    BY <1>7, <2>2
  <2> QED
    BY <2>1, <2>2
<1>9. \A k \in 1..Len(f) : \E i \in 1..Len(s) :
          f[k].event = s[i].event /\ (f[k].review # "none" => s[i].review # "none")
  BY <1>2, <1>6
<1> QED
  BY <1>6, <1>8, <1>9 DEF f
-----------------------------------------------------------------------------
(* What the steps do to the channel and to the file *)

Channels == {q \in Seq(Sends) : Len(q) <= ChannelCap}

\* The events that a file has for review.
ReviewsIn(s) == {s[i].event : i \in {k \in DOMAIN s : s[k].review # "none"}}

\* The channel d and the file u carry what c and s carried, and the events N; what was
\* stored for review still is.
Keeps(c, s, d, u, N) ==
    /\ EventsOf(d) \cup EventsOf(u) = EventsOf(c) \cup EventsOf(s) \cup N
    /\ ReviewsIn(s) \subseteq ReviewsIn(u)
    /\ ReviewsIn(u) \subseteq ReviewsIn(s) \cup N

LEMMA Inclusions == Sends \subseteq Sound /\ Sound \subseteq Record
  BY DEF Sends, Sound

\* A flush with the room that the channel has.
LEMMA FlushKeeps ==
    ASSUME NEW c \in Channels, NEW s \in Seq(Sound)
    PROVE  /\ c \o Sendable(s, Room(Len(c))) \in Channels
           /\ Flushed(s, Room(Len(c))) \in Seq(Sound)
           /\ Keeps(c, s, c \o Sendable(s, Room(Len(c))), Flushed(s, Room(Len(c))), {})
<1> DEFINE room == Room(Len(c))
           p == Sendable(s, room)
           f == Flushed(s, room)
           d == c \o p
<1>1. c \in Seq(Sends) /\ Len(c) \in Nat /\ Len(c) <= ChannelCap /\ ChannelCap \in Nat
  BY RoutingAssumption DEF Channels
<1>2. room \in Nat /\ Len(c) + room <= ChannelCap
  BY <1>1 DEF Room
<1> HIDE DEF room
<1>3. /\ p \in Seq(Sends) /\ Len(p) <= room
      /\ \A n \in 1..Len(p) : \E i \in 1..Len(s) : p[n] = s[i]
  BY <1>2, SendableRecords
<1>4. /\ f \in Seq(Sound)
      /\ \A i \in 1..Len(s) :
            \/ \E k \in 1..Len(f) : f[k].event = s[i].event /\ (s[i].review # "none" => f[k].review # "none")
            \/ s[i].review = "none" /\ \E n \in 1..Len(p) : p[n] = s[i]
      /\ \A k \in 1..Len(f) : \E i \in 1..Len(s) :
            f[k].event = s[i].event /\ (f[k].review # "none" => s[i].review # "none")
  BY <1>2, FlushedRecords
<1> HIDE DEF p, f
<1>5. /\ d \in Seq(Sends) /\ Len(d) = Len(c) + Len(p)
      /\ \A i \in 1..Len(c) + Len(p) : d[i] = IF i <= Len(c) THEN c[i] ELSE p[i - Len(c)]
  <2> HIDE DEF Sends
  <2> QED
    BY <1>1, <1>3, ConcatProperties
<1> HIDE DEF d
<1>6. d \in Channels
  BY <1>1, <1>2, <1>3, <1>5 DEF Channels
<1>7. /\ \A i \in 1..Len(c) : i \in 1..Len(d) /\ d[i] = c[i]
      /\ \A n \in 1..Len(p) : n + Len(c) \in 1..Len(d) /\ d[n + Len(c)] = p[n]
  <2>1. \A i \in 1..Len(c) : i \in 1..Len(d) /\ d[i] = c[i]
    BY <1>1, <1>3, <1>5
  <2>2. ASSUME NEW n \in 1..Len(p)
        PROVE  n + Len(c) \in 1..Len(d) /\ d[n + Len(c)] = p[n]
    <3>1. n + Len(c) \in 1..Len(c) + Len(p) /\ ~(n + Len(c) <= Len(c)) /\ n + Len(c) - Len(c) = n
      BY <1>1, <1>3
    <3> QED
      BY <1>5, <3>1
  <2> QED
    BY <2>1, <2>2
<1>8. DOMAIN c = 1..Len(c) /\ DOMAIN s = 1..Len(s) /\ DOMAIN d = 1..Len(d) /\ DOMAIN f = 1..Len(f)
  BY <1>1, <1>4, <1>5
<1>9. \A e \in EventsOf(c) : e \in EventsOf(d)
  BY <1>7, <1>8 DEF EventsOf
<1>10. ASSUME NEW i \in 1..Len(s)
       PROVE  /\ s[i].event \in EventsOf(d) \cup EventsOf(f)
              /\ s[i].review # "none" => s[i].event \in ReviewsIn(f)
  <2>1. CASE \E k \in 1..Len(f) : f[k].event = s[i].event /\ (s[i].review # "none" => f[k].review # "none")
    BY <1>8, <2>1 DEF EventsOf, ReviewsIn
  <2>2. CASE s[i].review = "none" /\ \E n \in 1..Len(p) : p[n] = s[i]
    <3>1. PICK n \in 1..Len(p) : p[n] = s[i]
      BY <2>2
    <3>2. n + Len(c) \in 1..Len(d) /\ d[n + Len(c)].event = s[i].event
      BY <1>7, <3>1
    <3>3. s[i].event \in EventsOf(d)
      BY <1>8, <3>2 DEF EventsOf
    <3> QED
      BY <2>2, <3>3
  <2> QED
    BY <1>4, <2>1, <2>2
<1>11. ASSUME NEW i \in 1..Len(d)
       PROVE  d[i].event \in EventsOf(c) \cup EventsOf(s)
  <2>1. CASE i <= Len(c)
    <3>1. i \in 1..Len(c) /\ d[i] = c[i]
      BY <1>1, <1>5, <2>1
    <3> QED
      BY <1>8, <3>1 DEF EventsOf
  <2>2. CASE ~(i <= Len(c))
    <3>1. i - Len(c) \in 1..Len(p) /\ i \in 1..Len(c) + Len(p)
      BY <1>1, <1>3, <1>5, <2>2
    <3>2. PICK k \in 1..Len(s) : p[i - Len(c)] = s[k]
      BY <1>3, <3>1
    <3>3. d[i] = s[k]
      BY <1>5, <2>2, <3>1, <3>2
    <3> QED
      BY <1>8, <3>3 DEF EventsOf
  <2> QED
    BY <2>1, <2>2
<1>12. ASSUME NEW k \in 1..Len(f)
       PROVE  /\ f[k].event \in EventsOf(s)
              /\ f[k].review # "none" => f[k].event \in ReviewsIn(s)
  BY <1>4, <1>8 DEF EventsOf, ReviewsIn
<1>13. EventsOf(d) \cup EventsOf(f) = EventsOf(c) \cup EventsOf(s)
  BY <1>8, <1>9, <1>10, <1>11, <1>12 DEF EventsOf
<1>14. ReviewsIn(f) = ReviewsIn(s)
  BY <1>8, <1>10, <1>12 DEF ReviewsIn
<1>15. Keeps(c, s, d, f, {})
  BY <1>13, <1>14 DEF Keeps
<1> QED
  BY <1>4, <1>6, <1>15 DEF d, p, f, room

\* A record at the end changes nothing before it.
LEMMA AppendRecord ==
    ASSUME NEW S, S \subseteq Record, NEW s \in Seq(S), NEW r \in S
    PROVE  /\ Append(s, r) \in Seq(S) /\ Len(Append(s, r)) = Len(s) + 1
           /\ EventsOf(Append(s, r)) = EventsOf(s) \cup {r.event}
           /\ ReviewsIn(s) \subseteq ReviewsIn(Append(s, r))
           /\ ReviewsIn(Append(s, r)) \subseteq ReviewsIn(s) \cup {r.event}
<1> DEFINE t == Append(s, r)
<1>1. /\ t \in Seq(S) /\ Len(t) = Len(s) + 1 /\ t[Len(s) + 1] = r
      /\ \A i \in 1..Len(s) : t[i] = s[i]
  OBVIOUS
<1>2. Len(s) \in Nat /\ DOMAIN s = 1..Len(s) /\ DOMAIN t = 1..Len(t)
  OBVIOUS
<1> HIDE DEF t
<1>3. /\ \A i \in 1..Len(t) : i \in 1..Len(s) \/ i = Len(s) + 1
      /\ \A i \in 1..Len(s) : i \in 1..Len(t)
      /\ Len(s) + 1 \in 1..Len(t)
  BY <1>1, <1>2
<1>4. EventsOf(t) = EventsOf(s) \cup {r.event}
  BY <1>1, <1>2, <1>3 DEF EventsOf
<1>5. ReviewsIn(s) \subseteq ReviewsIn(t) /\ ReviewsIn(t) \subseteq ReviewsIn(s) \cup {r.event}
  BY <1>1, <1>2, <1>3 DEF ReviewsIn
<1> QED
  BY <1>1, <1>4, <1>5 DEF t

\* A new event is in the channel or in the file, and so is what was there.
LEMMA EmitKeeps ==
    ASSUME NEW e \in Event, channel \in Channels, store \in Seq(Sound), Emit(e)
    PROVE  /\ channel' \in Channels /\ store' \in Seq(Sound)
           /\ Keeps(channel, store, channel', store', {e})
           /\ ~tx => channel' = channel
<1> DEFINE room  == Room(Len(channel))
           left  == Flushed(store, room)
           queue == channel \o Sendable(store, room)
<1>1. /\ Direct(e) \in Sends /\ Direct(e).event = e
      /\ Pending(e) \in Sound /\ Pending(e).event = e
  BY DEF Direct, Pending, Sends, Sound, Record
<1>2. CASE ~tx
  <2>1. store' = Append(store, Pending(e)) /\ channel' = channel
    BY <1>2 DEF Emit
  <2>2. /\ store' \in Seq(Sound) /\ EventsOf(store') = EventsOf(store) \cup {e}
        /\ ReviewsIn(store) \subseteq ReviewsIn(store')
        /\ ReviewsIn(store') \subseteq ReviewsIn(store) \cup {e}
    BY <1>1, <2>1, Inclusions, AppendRecord
  <2>3. Keeps(channel, store, channel', store', {e})
    <3> HIDE DEF EventsOf, ReviewsIn
    <3> QED
      BY <2>1, <2>2 DEF Keeps
  <2> QED
    BY <1>2, <2>1, <2>2, <2>3
<1>3. CASE tx
  <2>1. queue \in Channels /\ left \in Seq(Sound) /\ Keeps(channel, store, queue, left, {})
    BY FlushKeeps
  <2>2. IF Len(queue) < ChannelCap
        THEN channel' = Append(queue, Direct(e)) /\ store' = left
        ELSE channel' = queue /\ store' = Append(left, Pending(e))
    BY <1>3 DEF Emit
  <2> HIDE DEF queue, left
  <2>3. CASE channel' = Append(queue, Direct(e)) /\ store' = left /\ Len(queue) < ChannelCap
    <3>1. queue \in Seq(Sends) /\ Sends \subseteq Record /\ Len(queue) \in Nat /\ ChannelCap \in Nat
      BY <2>1, Inclusions, RoutingAssumption DEF Channels
    <3>2. /\ channel' \in Seq(Sends) /\ Len(channel') = Len(queue) + 1
          /\ EventsOf(channel') = EventsOf(queue) \cup {e}
      BY <1>1, <2>3, <3>1, AppendRecord
    <3>3. channel' \in Channels
      BY <2>3, <3>1, <3>2 DEF Channels
    <3>4. Keeps(channel, store, channel', store', {e})
      <4> HIDE DEF EventsOf, ReviewsIn
      <4> QED
        BY <2>1, <2>3, <3>2 DEF Keeps
    <3> QED
      BY <1>3, <2>1, <2>3, <3>3, <3>4
  <2>4. CASE channel' = queue /\ store' = Append(left, Pending(e))
    <3>1. /\ store' \in Seq(Sound) /\ EventsOf(store') = EventsOf(left) \cup {e}
          /\ ReviewsIn(left) \subseteq ReviewsIn(store')
          /\ ReviewsIn(store') \subseteq ReviewsIn(left) \cup {e}
      BY <1>1, <2>1, <2>4, Inclusions, AppendRecord
    <3>2. Keeps(channel, store, channel', store', {e})
      <4> HIDE DEF EventsOf, ReviewsIn
      <4> QED
        BY <2>1, <2>4, <3>1 DEF Keeps
    <3> QED
      BY <1>3, <2>1, <2>4, <3>1, <3>2
  <2> QED
    BY <2>2, <2>3, <2>4
<1> QED
  BY <1>2, <1>3
-----------------------------------------------------------------------------
(* The invariant *)

\* A gateway that is not up has sent nothing; the lead has what came through the
\* channel.
RoutingInv ==
    /\ RegistryInv
    /\ run \in [Task -> [Agent -> 0..MaxRuns]]
    /\ lastRun \in 0..MaxRuns
    /\ working \subseteq Task \X Agent
    /\ tx \in BOOLEAN
    /\ channel \in Channels
    /\ store \in Seq(Sound)
    /\ turn \in LeadTurn \cup {NoTurn}
    /\ turn # NoTurn => turn.req \in Sends
    /\ updated \subseteq Event
    /\ ~tx => channel = <<>>

LEMMA RoutingInvTypes == RoutingInv => RoutingTypeOK
<1> SUFFICES ASSUME RoutingInv PROVE RoutingTypeOK
  OBVIOUS
<1>1. channel \in Seq(Sends) /\ Len(channel) <= ChannelCap /\ store \in Seq(Sound)
  BY DEF RoutingInv, Channels
<1>2. channel \in Seq(Record) /\ store \in Seq(Record)
  <2> HIDE DEF Record
  <2> QED
    BY <1>1, Inclusions, SeqMonotonic
<1>3. /\ DOMAIN channel = 1..Len(channel) /\ DOMAIN store = 1..Len(store)
      /\ \A i \in 1..Len(channel) : channel[i] \in Sends
      /\ \A i \in 1..Len(store) : store[i] \in Sound
  <2> HIDE DEF Sends, Sound
  <2> QED
    BY <1>1
<1>4. \A i \in DOMAIN channel : channel[i].review # "later"
  BY <1>3 DEF Sends
<1>5. \A s \in {channel, store} : \A i \in DOMAIN s : s[i].review # "none" => s[i].event.kind \in Reviewed
  BY <1>3 DEF Sends, Sound
<1> HIDE DEF Record, LeadTurn, Event
<1> QED
  BY <1>1, <1>2, <1>4, <1>5 DEF RoutingInv, RoutingTypeOK, RegistryInv

\* What a handler leaves behind: the channel and the file hold what they held and one
\* event more or none, and the redispatch task is where it was.
Untouched ==
    /\ channel' \in Channels
    /\ store' \in Seq(Sound)
    /\ \E N \in SUBSET Event : /\ \A a, b \in N : a = b
                               /\ Keeps(channel, store, channel', store', N)
    /\ lastRun' \in 0..MaxRuns
    /\ UNCHANGED <<tx, turn, updated>>
    /\ ~tx => channel' = channel

LEMMA KeepsAll ==
    ASSUME RoutingInv, UNCHANGED <<lastRun, notifyVars>>
    PROVE  Untouched
<1>1. {} \in SUBSET Event /\ Keeps(channel, store, channel, store, {})
  BY DEF Keeps
<1> QED
  BY <1>1 DEF RoutingInv, Untouched, notifyVars

\* A notification adds its event.
LEMMA NotifyKeeps ==
    ASSUME RoutingInv, NEW kind \in Kind, NEW t \in Task, NEW known \in 0..MaxRuns,
           Notify(kind, t, known)
    PROVE  /\ Untouched /\ run' = run
           /\ \E e \in EventsOf(channel') \cup EventsOf(store') :
                 e.task = t /\ e.kind = kind /\ e.run \in {known, lastRun'}
<1> DEFINE r == IF known = 0 THEN lastRun + 1 ELSE known
           e == [kind |-> kind, task |-> t, run |-> r]
<1>1. /\ lastRun' \in 0..MaxRuns /\ r \in 1..MaxRuns /\ r \in {known, lastRun'}
      /\ Emit(e) /\ UNCHANGED <<run, tx, turn, updated>>
  BY RoutingAssumption DEF Notify, RoutingInv
<1>2. e \in Event /\ e.task = t /\ e.kind = kind /\ e.run = r
  BY <1>1 DEF Event
<1> HIDE DEF e, r
<1>3. /\ channel' \in Channels /\ store' \in Seq(Sound)
      /\ Keeps(channel, store, channel', store', {e})
      /\ ~tx => channel' = channel
  BY <1>1, <1>2, EmitKeeps DEF RoutingInv
<1>4. {e} \in SUBSET Event /\ (\A a, b \in {e} : a = b) /\ e \in EventsOf(channel') \cup EventsOf(store')
  BY <1>2, <1>3 DEF Keeps
<1>5. Untouched
  BY <1>1, <1>3, <1>4 DEF Untouched
<1> QED
  BY <1>1, <1>2, <1>4, <1>5

\* An event about every task that was submitted, held or failed.
Announced ==
    \A t \in Task :
        status'[t] # status[t] /\ status'[t] \in DOMAIN Tells
            => \E e \in EventsOf(channel') \cup EventsOf(store') :
                  e.task = t /\ e.kind = Tells[status'[t]] /\ e.run \in {run[t][holder[t]], lastRun'}

\* If the only row that changes is t, it is enough to announce t.
LEMMA AnnouncedIfTold ==
    ASSUME RoutingInv, NEW t \in Task, NEW s, NEW a, MoveTo(t, s, a),
           s \in DOMAIN Tells =>
               \E e \in EventsOf(channel') \cup EventsOf(store') :
                   e.task = t /\ e.kind = Tells[s] /\ e.run \in {run[t][holder[t]], lastRun'}
    PROVE  Announced
<1>1. status' = [status EXCEPT ![t] = s] /\ status \in [Task -> Status]
  BY DEF MoveTo, RoutingInv, RegistryInv, RegistryTypeOK
<1>2. status'[t] = s /\ \A u \in Task : u # t => status'[u] = status[u]
  BY <1>1
<1> HIDE DEF MoveTo, Tells
<1> QED
  BY <1>2 DEF Announced

LEMMA TellsWhat ==
    /\ DOMAIN Tells = {"submitted", "held", "failed"}
    /\ Tells["submitted"] = "submitted" /\ Tells["held"] = "missing" /\ Tells["failed"] = "failed"
  BY DEF Tells

\* The handlers keep everything and announce what happens to their task.
LEMMA HandlersKeep ==
    ASSUME RoutingInv, Handlers
    PROVE  /\ Untouched /\ Announced
           /\ run' \in [Task -> [Agent -> 0..MaxRuns]]
           /\ working' \subseteq Task \X Agent
<1> USE TellsWhat
<1>1. PICK t \in Task :
          \/ ClaimExpires(t) \/ StaleClaim(t) \/ Accepted(t) \/ Reopened(t)
          \/ \E a \in Agent :
                \/ Register(t, a) \/ Dispatch(t, a) \/ Assigned(t, a)
                \/ Submitted(t, a) \/ Completed(t, a) \/ Blocked(t, a)
                \/ MissingCompletion(t, a)
                \/ \E kind \in {"checkpoint", "news"} : Reports(kind, t, a)
  BY DEF Handlers
<1> DEFINE Goal == /\ Untouched /\ Announced
                   /\ run' \in [Task -> [Agent -> 0..MaxRuns]]
                   /\ working' \subseteq Task \X Agent
<1>2. /\ run \in [Task -> [Agent -> 0..MaxRuns]] /\ working \subseteq Task \X Agent
      /\ 0 \in 0..MaxRuns /\ \A a \in Agent : run[t][a] \in 0..MaxRuns
  BY RoutingAssumption DEF RoutingInv
<1>3. \A a : Acts(t, a) => working' \subseteq Task \X Agent
  BY <1>2 DEF Acts
<1>4. CASE ClaimExpires(t)
  <2>1. Announced
    BY <1>4 DEF ClaimExpires, Expire, Announced
  <2>2. Untouched
    BY <1>4, KeepsAll DEF ClaimExpires
  <2> QED
    BY <1>2, <1>4, <2>1, <2>2 DEF ClaimExpires, envVars
<1>5. CASE StaleClaim(t)
  <2>1. status[t] = "claimed" /\ holder[t] \in Agent
    BY <1>5 DEF StaleClaim, FindStaleClaimed, RoutingInv, RegistryInv, RegistryTypeOK, Owned, MaybeAgent
  <2>2. CASE MarkFailed(t) /\ Notify("failed", t, run[t][holder[t]])
    <3>1. /\ Untouched /\ run' = run
          /\ \E e \in EventsOf(channel') \cup EventsOf(store') :
                e.task = t /\ e.kind = "failed" /\ e.run \in {run[t][holder[t]], lastRun'}
      <4>1. "failed" \in Kind
        BY DEF Kind, Reviewed
      <4> QED
        BY <1>2, <2>1, <2>2, <4>1, NotifyKeeps
    <3>2. MoveTo(t, "failed", NoAgent)
      BY <2>2 DEF MarkFailed
    <3>3. Announced
      BY <3>1, <3>2, AnnouncedIfTold
    <3> QED
      BY <1>2, <1>5, <3>1, <3>3 DEF StaleClaim
  <2>3. CASE ResetClaim(t) /\ UNCHANGED <<run, lastRun, notifyVars>>
    <3>1. MoveTo(t, "pending", NoAgent)
      BY <2>3 DEF ResetClaim
    <3>2. Announced
      BY <3>1, AnnouncedIfTold
    <3>3. Untouched
      BY <2>3, KeepsAll
    <3> QED
      BY <1>2, <1>5, <2>3, <3>2, <3>3 DEF StaleClaim
  <2> QED
    BY <1>5, <2>2, <2>3 DEF StaleClaim
<1>6. CASE Accepted(t) \/ Reopened(t)
  <2>1. /\ Notify("news", t, 0) /\ UNCHANGED <<working, extras>>
        /\ MoveTo(t, "accepted", NoAgent) \/ MoveTo(t, "pending", NoAgent)
    BY <1>6 DEF Accepted, AcceptTask, Reopened, ReopenTask
  <2>2. "news" \in Kind
    BY DEF Kind
  <2>3. Untouched /\ run' = run
    BY <1>2, <2>1, <2>2, NotifyKeeps
  <2>4. Announced
    BY <2>1, AnnouncedIfTold
  <2> QED
    BY <1>2, <2>1, <2>3, <2>4
<1>7. ASSUME NEW a \in Agent, Register(t, a) \/ Assigned(t, a) PROVE Goal
  <2>1. UNCHANGED <<run, lastRun, notifyVars, envVars>> /\ MoveTo(t, "pending", NoAgent)
    BY <1>7 DEF Register, CreateTask, Assigned, ReassignTask
  <2>2. Announced
    BY <2>1, AnnouncedIfTold
  <2>3. Untouched
    BY <2>1, KeepsAll
  <2> QED
    BY <1>2, <2>1, <2>2, <2>3 DEF envVars
<1>8. ASSUME NEW a \in Agent, Dispatch(t, a) PROVE Goal
  <2>1. /\ MoveTo(t, "claimed", a) /\ lastRun < MaxRuns /\ lastRun' = lastRun + 1
        /\ run' = [run EXCEPT ![t][a] = lastRun + 1]
        /\ working' = working \cup {<<t, a>>} /\ UNCHANGED notifyVars
    BY <1>8 DEF Dispatch, TryClaim
  <2>2. lastRun' \in 0..MaxRuns /\ lastRun + 1 \in 0..MaxRuns
    BY <2>1, RoutingAssumption DEF RoutingInv
  <2>3. run' \in [Task -> [Agent -> 0..MaxRuns]]
    BY <1>2, <2>1, <2>2
  <2>4. Announced
    BY <2>1, AnnouncedIfTold
  <2>5. {} \in SUBSET Event /\ Keeps(channel, store, channel', store', {})
    BY <2>1 DEF Keeps, notifyVars
  <2>6. Untouched
    BY <2>1, <2>2, <2>5 DEF Untouched, RoutingInv, notifyVars
  <2> QED
    BY <1>2, <2>1, <2>3, <2>4, <2>6
<1>9. ASSUME NEW a \in Agent, Submitted(t, a) PROVE Goal
  <2>1. /\ MoveTo(t, "submitted", a) /\ holder[t] = a
        /\ Notify("submitted", t, run[t][a]) /\ Acts(t, a)
    BY <1>9 DEF Submitted, SubmitTaskResult, ClaimedBy
  <2>2. "submitted" \in Kind
    BY DEF Kind, Reviewed
  <2>3. /\ Untouched /\ run' = run
        /\ \E e \in EventsOf(channel') \cup EventsOf(store') :
              e.task = t /\ e.kind = "submitted" /\ e.run \in {run[t][a], lastRun'}
    BY <1>2, <2>1, <2>2, NotifyKeeps
  <2>4. Announced
    BY <2>1, <2>3, AnnouncedIfTold
  <2> QED
    BY <1>2, <1>3, <2>1, <2>3, <2>4
<1>10. ASSUME NEW a \in Agent, Completed(t, a) \/ Blocked(t, a) PROVE Goal
  <2>1. /\ \E k \in {"news", "blocked"} : Notify(k, t, run[t][a])
        /\ MoveTo(t, "done", NoAgent) \/ MoveTo(t, "pending", NoAgent)
        /\ Acts(t, a)
    BY <1>10 DEF Completed, MarkDone, Blocked, ResetClaim
  <2>2. {"news", "blocked"} \subseteq Kind
    BY DEF Kind, Reviewed
  <2>3. Untouched /\ run' = run
    BY <1>2, <2>1, <2>2, NotifyKeeps
  <2>4. Announced
    BY <2>1, AnnouncedIfTold
  <2> QED
    BY <1>2, <1>3, <2>1, <2>3, <2>4
<1>11. ASSUME NEW a \in Agent, MissingCompletion(t, a) PROVE Goal
  <2>1. Notify("missing", t, run[t][a]) /\ Acts(t, a) /\ "missing" \in Kind
    BY <1>11 DEF MissingCompletion, Kind, Reviewed
  <2>2. /\ Untouched /\ run' = run
        /\ \E e \in EventsOf(channel') \cup EventsOf(store') :
              e.task = t /\ e.kind = "missing" /\ e.run \in {run[t][a], lastRun'}
    BY <1>2, <2>1, NotifyKeeps
  <2>3. CASE HoldClaim(t, a)
    <3>1. MoveTo(t, "held", a) /\ holder[t] = a
      BY <2>3 DEF HoldClaim, ClaimedBy
    <3> QED
      BY <1>2, <1>3, <2>1, <2>2, <3>1, AnnouncedIfTold
  <2>4. CASE UNCHANGED registryVars
    BY <1>2, <1>3, <2>1, <2>2, <2>4 DEF Announced, registryVars
  <2> QED
    BY <1>11, <2>3, <2>4 DEF MissingCompletion
<1>12. ASSUME NEW a \in Agent, NEW kind \in {"checkpoint", "news"}, Reports(kind, t, a) PROVE Goal
  <2>1. Notify(kind, t, run[t][a]) /\ Acts(t, a) /\ kind \in Kind /\ UNCHANGED registryVars
    BY <1>12 DEF Reports, Kind
  <2>2. Untouched /\ run' = run
    BY <1>2, <2>1, NotifyKeeps
  <2> QED
    BY <1>2, <1>3, <2>1, <2>2 DEF Announced, registryVars
<1> QED
  BY <1>1, <1>4, <1>5, <1>6, <1>7, <1>8, <1>9, <1>10, <1>11, <1>12
-----------------------------------------------------------------------------
(* The other steps *)

NoEventLost ==
    \A e \in UnderWay : \/ e \in UnderWay'
                        \/ Settle /\ turn.req.event.run = e.run
                        \/ Crash /\ e \notin EventsOf(store)

ReviewKept ==
    \A e \in Reviews : e \in Reviews' \/ (Settle /\ turn.req.event.run = e.run)

\* The step is one of the notice board.
BoardStep == [Board!Next]_(Board!vars)

LEMMA ReviewsOfStore == /\ Reviews = ReviewsIn(store) /\ Reviews' = ReviewsIn(store')
                        /\ EventsOf(channel)' = EventsOf(channel')
                        /\ EventsOf(store)' = EventsOf(store')
  BY DEF Reviews, ReviewsIn, EventsOf

\* A step that takes no event away and posts at most one.
LEMMA UntouchedLosesNothing ==
    ASSUME NEW N \in SUBSET Event, \A a, b \in N : a = b,
           Keeps(channel, store, channel', store', N), Carried' = Carried
    PROVE  NoEventLost /\ ReviewKept /\ BoardStep
<1>1. /\ UnderWay' = UnderWay \cup N
      /\ Reviews \subseteq Reviews' /\ Reviews' \subseteq Reviews \cup N
  <2> HIDE DEF EventsOf, ReviewsIn, Reviews, Carried
  <2> QED
    BY ReviewsOfStore DEF Keeps, UnderWay
<1> HIDE DEF Settle, Crash, EventsOf, UnderWay, Reviews
<1>2. NoEventLost /\ ReviewKept
  BY <1>1 DEF NoEventLost, ReviewKept
<1>3. CASE N = {}
  BY <1>1, <1>2, <1>3 DEF BoardStep, Board!vars
<1>4. CASE N # {}
  <2>1. PICK n \in Event : N = {n}
    BY <1>4
  <2>2. Board!Post(n)
    BY <1>1, <2>1 DEF Board!Post
  <2> QED
    BY <1>2, <2>2 DEF BoardStep, Board!Next
<1> QED
  BY <1>3, <1>4

\* Flushes send and keep.
LEMMA FlushesKeep ==
    ASSUME RoutingInv, Flush \/ SetNotifyTx \/ \E i \in DOMAIN store : BackoffEnds(i)
    PROVE  /\ channel' \in Channels
           /\ store' \in Seq(Sound)
           /\ Keeps(channel, store, channel', store', {})
           /\ UNCHANGED <<lastRun, run, working, turn, updated>>
           /\ tx' \in BOOLEAN /\ (~tx' => channel' = <<>>)
<1>0. channel \in Channels /\ store \in Seq(Sound)
  BY DEF RoutingInv
<1>1. CASE Flush
  <2>1. /\ channel' = channel \o Sendable(store, Room(Len(channel)))
        /\ store' = Flushed(store, Room(Len(channel)))
    BY <1>1 DEF Flush
  <2>2. channel' \in Channels /\ store' \in Seq(Sound) /\ Keeps(channel, store, channel', store', {})
    BY <1>0, <2>1, FlushKeeps
  <2> QED
    BY <1>1, <2>2 DEF Flush, envVars, RoutingInv
<1>2. CASE SetNotifyTx
  <2>1. channel = <<>> /\ Len(channel) = 0
    BY <1>2 DEF SetNotifyTx, RoutingInv
  <2>2. Sendable(store, Room(0)) \in Seq(Sends)
    <3>1. Room(0) \in Nat
      BY RoutingAssumption DEF Room
    <3> QED
      BY <1>0, <3>1, SendableRecords
  <2>3. channel \o Sendable(store, Room(0)) = Sendable(store, Room(0))
    BY <2>1, <2>2, ConcatEmptySeq
  <2>4. /\ channel' = channel \o Sendable(store, Room(Len(channel)))
        /\ store' = Flushed(store, Room(Len(channel)))
    BY <1>2, <2>1, <2>3 DEF SetNotifyTx
  <2>5. channel' \in Channels /\ store' \in Seq(Sound) /\ Keeps(channel, store, channel', store', {})
    BY <1>0, <2>4, FlushKeeps
  <2> QED
    BY <1>2, <2>5 DEF SetNotifyTx, envVars
<1>3. ASSUME NEW i \in DOMAIN store, BackoffEnds(i)
      PROVE  /\ channel' \in Channels
             /\ store' \in Seq(Sound)
             /\ Keeps(channel, store, channel', store', {})
             /\ UNCHANGED <<lastRun, run, working, turn, updated>>
             /\ tx' \in BOOLEAN /\ (~tx' => channel' = <<>>)
  <2> DEFINE r == [store[i] EXCEPT !.review = "due"]
  <2>1. i \in 1..Len(store) /\ store[i] \in Sound /\ store[i].review = "later"
    BY <1>0, <1>3 DEF BackoffEnds
  <2>2. r \in Sound /\ r.event = store[i].event
    BY <2>1 DEF Sound, Record
  <2>3. store' = [store EXCEPT ![i] = r] /\ UNCHANGED <<lastRun, run, working, turn, updated, tx, channel>>
    BY <1>3 DEF BackoffEnds, envVars
  <2> HIDE DEF r, Sound
  <2>4. /\ store' \in Seq(Sound) /\ Len(store') = Len(store)
        /\ \A k \in 1..Len(store) : store'[k] = IF k = i THEN r ELSE store[k]
    BY <1>0, <2>1, <2>2, <2>3, ExceptSeq
  <2>5. DOMAIN store = 1..Len(store) /\ DOMAIN store' = 1..Len(store)
    BY <1>0, <2>4
  <2>6. \A k \in 1..Len(store) : store'[k].event = store[k].event
    BY <2>2, <2>4
  <2>60. EventsOf(store') = EventsOf(store) /\ ReviewsIn(store') = ReviewsIn(store)
    <3>1. r.review # "none" /\ store[i].review # "none"
      <4>1. store[i] \in Record
        BY <2>1, Inclusions
      <4> QED
        BY <2>1, <4>1 DEF r, Record
    <3>2. \A k \in 1..Len(store) : store'[k].review # "none" <=> store[k].review # "none"
      BY <2>4, <3>1
    <3>3. EventsOf(store') = EventsOf(store)
      BY <2>5, <2>6 DEF EventsOf
    <3>4. ReviewsIn(store') = ReviewsIn(store)
      BY <2>5, <2>6, <3>2 DEF ReviewsIn
    <3> QED
      BY <3>3, <3>4
  <2>7. Keeps(channel, store, channel', store', {})
    BY <2>3, <2>60 DEF Keeps
  <2> QED
    BY <1>0, <2>3, <2>4, <2>7 DEF RoutingInv
<1> QED
  BY <1>1, <1>2, <1>3

\* The redispatch task takes the first request.
LEMMA ReceiveKeeps ==
    ASSUME RoutingInv, Receive
    PROVE  /\ channel' \in Channels /\ turn' \in LeadTurn /\ turn'.req \in Sends
           /\ UNCHANGED <<lastRun, run, working, store, updated, tx>>
           /\ ~tx => channel' = <<>>
           /\ NoEventLost /\ ReviewKept /\ BoardStep
<1>1. /\ channel \in Seq(Sends) /\ Len(channel) <= ChannelCap /\ channel # <<>>
      /\ channel' = Tail(channel) /\ turn = NoTurn
      /\ turn' = [req |-> Head(channel), left |-> Targets, told |-> FALSE,
                  phase |-> IF Stale(Head(channel).event) THEN "deliver" ELSE "turn"]
      /\ UNCHANGED <<lastRun, run, working, store, updated, tx>>
  BY DEF RoutingInv, Receive, Channels, envVars
<1>2. /\ Head(channel) \in Sends /\ Head(channel) = channel[1]
      /\ Tail(channel) \in Seq(Sends) /\ Len(Tail(channel)) = Len(channel) - 1
      /\ \A k \in 1..Len(Tail(channel)) : Tail(channel)[k] = channel[k + 1]
      /\ Len(channel) \in Nat \ {0}
  <2> HIDE DEF Sends
  <2> QED
    BY <1>1, HeadTailProperties
<1>3. channel' \in Channels
  BY <1>1, <1>2, RoutingAssumption DEF Channels
<1>4. Head(channel) \in Record
  BY <1>2, Inclusions
<1>5. turn' \in LeadTurn /\ turn'.req = Head(channel)
  BY <1>1, <1>4, RoutingAssumption DEF LeadTurn
<1>6. turn' # NoTurn
  BY <1>5, NoTurnAssumption
<1>7. Carried = {} /\ Carried' = {Head(channel).event}
  BY <1>1, <1>5, <1>6 DEF Carried
<1>8. \A e \in EventsOf(channel) : e = Head(channel).event \/ e \in EventsOf(channel')
  <2>1. DOMAIN channel = 1..Len(channel) /\ DOMAIN Tail(channel) = 1..Len(Tail(channel))
    BY <1>1, <1>2
  <2>2. ASSUME NEW i \in 1..Len(channel)
        PROVE  channel[i].event = Head(channel).event \/ channel[i].event \in EventsOf(channel')
    <3>1. CASE i = 1
      BY <1>2, <3>1
    <3>2. CASE i # 1
      <4>1. i - 1 \in 1..Len(Tail(channel)) /\ i - 1 + 1 = i
        BY <1>2, <3>2
      <4>2. Tail(channel)[i - 1] = channel[i]
        BY <1>2, <4>1
      <4>3. channel[i].event \in EventsOf(Tail(channel))
        BY <2>1, <4>1, <4>2 DEF EventsOf
      <4> QED
        BY <1>1, <4>3
    <3> QED
      BY <3>1, <3>2
  <2> QED
    BY <2>1, <2>2 DEF EventsOf
<1>9. \A e \in EventsOf(channel') \cup {Head(channel).event} : e \in EventsOf(channel)
  <2>1. /\ DOMAIN channel = 1..Len(channel) /\ DOMAIN Tail(channel) = 1..Len(Tail(channel))
        /\ 1 \in 1..Len(channel)
        /\ \A k \in 1..Len(Tail(channel)) : k + 1 \in 1..Len(channel)
    BY <1>1, <1>2
  <2> QED
    BY <1>1, <1>2, <2>1 DEF EventsOf
<1>11. UnderWay' = UnderWay
  <2> HIDE DEF EventsOf
  <2>1. EventsOf(store') = EventsOf(store)
    BY <1>1
  <2> QED
    BY <1>7, <1>8, <1>9, <2>1, ReviewsOfStore DEF UnderWay
<1>12. Reviews' = Reviews
  BY <1>1 DEF Reviews
<1>13. NoEventLost /\ ReviewKept /\ BoardStep
  <2> HIDE DEF UnderWay, Reviews
  <2> QED
    BY <1>11, <1>12 DEF NoEventLost, ReviewKept, BoardStep, Board!vars
<1>10. ~tx => channel' = <<>>
  BY <1>1 DEF RoutingInv
<1> QED
  BY <1>1, <1>2, <1>3, <1>5, <1>10, <1>13

\* A turn of the lead, until its verdict.
LEMMA TurnKeeps ==
    ASSUME RoutingInv, PostUpdate \/ TurnError \/ TurnEnds
    PROVE  /\ turn' \in LeadTurn /\ turn'.req \in Sends
           /\ UNCHANGED <<lastRun, run, working, channel, store, tx>>
           /\ updated' \subseteq Event
           /\ NoEventLost /\ ReviewKept /\ BoardStep
<1>1. /\ turn # NoTurn /\ turn \in LeadTurn /\ turn.req \in Sends
      /\ UNCHANGED <<lastRun, run, working, channel, store, tx>>
      /\ \/ turn' = [turn EXCEPT !.told = TRUE]
         \/ turn.left > 1 /\ turn' = [turn EXCEPT !.left = @ - 1, !.told = FALSE]
         \/ turn' = [turn EXCEPT !.phase = "defer"]
         \/ turn' = [turn EXCEPT !.phase = "deliver"]
  BY DEF RoutingInv, PostUpdate, TurnError, TurnEnds, TurnUnresolved, TurnResolves, NextAttempt,
         InTurn, envVars
<1>2. turn' \in LeadTurn /\ turn'.req = turn.req
  <2> HIDE DEF Record
  <2>1. turn.left > 1 => turn.left - 1 \in 1..Targets
    BY <1>1, RoutingAssumption DEF LeadTurn
  <2>2. CASE turn' = [turn EXCEPT !.told = TRUE]
    BY <1>1, <2>2 DEF LeadTurn
  <2>3. CASE turn.left > 1 /\ turn' = [turn EXCEPT !.left = @ - 1, !.told = FALSE]
    BY <1>1, <2>1, <2>3 DEF LeadTurn
  <2>4. CASE turn' = [turn EXCEPT !.phase = "defer"]
    BY <1>1, <2>4 DEF LeadTurn
  <2>5. CASE turn' = [turn EXCEPT !.phase = "deliver"]
    BY <1>1, <2>5 DEF LeadTurn
  <2> QED
    BY <1>1, <2>2, <2>3, <2>4, <2>5
<1>3. turn' # NoTurn
  BY <1>2, NoTurnAssumption
<1>4. UnderWay' = UnderWay
  BY <1>1, <1>2, <1>3 DEF UnderWay, Carried, EventsOf
<1>5. updated' \subseteq Event
  <2>1. store \in Seq(Sound) /\ updated \subseteq Event
    BY DEF RoutingInv
  <2>2. EventsOf(store) \subseteq Event
    BY <2>1 DEF EventsOf, Sound, Record
  <2>3. turn.req.event \in Event
    BY <1>1, Inclusions DEF Record
  <2>4. \/ updated' = updated
        \/ updated' \subseteq updated \cup EventsOf(store) \cup {turn.req.event}
    BY DEF PostUpdate, TurnError, TurnEnds, TurnUnresolved, TurnResolves, NextAttempt
  <2> QED
    BY <2>1, <2>2, <2>3, <2>4
<1>6. Reviews' = Reviews
  BY <1>1 DEF Reviews
<1>7. NoEventLost /\ ReviewKept /\ BoardStep
  <2> HIDE DEF UnderWay, Reviews
  <2> QED
    BY <1>4, <1>6 DEF NoEventLost, ReviewKept, BoardStep, Board!vars
<1> QED
  BY <1>1, <1>2, <1>5, <1>7

\* Removing a run leaves the events of other runs.
LEMMA RemoveRunKeeps ==
    ASSUME NEW s \in Seq(Sound), NEW r
    PROVE  /\ RemoveRun(s, r) \in Seq(Sound)
           /\ EventsOf(RemoveRun(s, r)) = {e \in EventsOf(s) : e.run # r}
           /\ ReviewsIn(RemoveRun(s, r)) = {e \in ReviewsIn(s) : e.run # r}
<1> DEFINE K == {x \in Record : x.event.run # r}
           q == RemoveRun(s, r)
<1>1. q \in Seq(Sound) /\ Filtered(q, s, Len(s), K)
  <2>1. q = Filter(s, K)
    BY DEF RemoveRun
  <2> HIDE DEF q, K
  <2> QED
    BY <2>1, FilterElements
<1>2. DOMAIN s = 1..Len(s) /\ DOMAIN q = 1..Len(q) /\ \A i \in 1..Len(s) : s[i] \in Record
  <2>1. \A i \in 1..Len(s) : s[i] \in Sound
    OBVIOUS
  <2> HIDE DEF q
  <2> QED
    BY <1>1, <2>1, Inclusions
<1> HIDE DEF q
<1>3. /\ \A i \in 1..Len(s) : s[i].event.run # r => \E k \in 1..Len(q) : q[k] = s[i]
      /\ \A k \in 1..Len(q) : \E i \in 1..Len(s) : q[k] = s[i] /\ s[i].event.run # r
  <2>1. \A i \in 1..Len(s) : s[i] \in K <=> s[i].event.run # r
    BY <1>2
  <2> HIDE DEF K
  <2>2. \A i \in 1..Len(s) : s[i] \in K => \E k \in 1..Len(q) : q[k] = s[i]
    BY <1>1 DEF Filtered
  <2>3. \A k \in 1..Len(q) : q[k] \in K /\ \E i \in 1..Len(s) : s[i] = q[k]
    BY <1>1 DEF Filtered
  <2> QED
    BY <2>1, <2>2, <2>3
<1> HIDE DEF K
<1>4. EventsOf(q) = {e \in EventsOf(s) : e.run # r}
  <2>1. ASSUME NEW e \in EventsOf(q) PROVE e \in EventsOf(s) /\ e.run # r
    <3>1. PICK k \in 1..Len(q) : e = q[k].event
      BY <1>2 DEF EventsOf
    <3>2. PICK i \in 1..Len(s) : q[k] = s[i] /\ s[i].event.run # r
      BY <1>3
    <3> QED
      BY <1>2, <3>1, <3>2 DEF EventsOf
  <2>2. ASSUME NEW e \in EventsOf(s), e.run # r PROVE e \in EventsOf(q)
    <3>1. PICK i \in 1..Len(s) : e = s[i].event
      BY <1>2 DEF EventsOf
    <3>2. PICK k \in 1..Len(q) : q[k] = s[i]
      BY <1>3, <2>2, <3>1
    <3> QED
      BY <1>2, <3>1, <3>2 DEF EventsOf
  <2> QED
    BY <2>1, <2>2
<1>5. ReviewsIn(q) = {e \in ReviewsIn(s) : e.run # r}
  <2>1. ASSUME NEW e \in ReviewsIn(q) PROVE e \in ReviewsIn(s) /\ e.run # r
    <3>1. PICK k \in 1..Len(q) : e = q[k].event /\ q[k].review # "none"
      BY <1>2 DEF ReviewsIn
    <3>2. PICK i \in 1..Len(s) : q[k] = s[i] /\ s[i].event.run # r
      BY <1>3
    <3> QED
      BY <1>2, <3>1, <3>2 DEF ReviewsIn
  <2>2. ASSUME NEW e \in ReviewsIn(s), e.run # r PROVE e \in ReviewsIn(q)
    <3>1. PICK i \in 1..Len(s) : e = s[i].event /\ s[i].review # "none"
      BY <1>2 DEF ReviewsIn
    <3>2. PICK k \in 1..Len(q) : q[k] = s[i]
      BY <1>3, <2>2, <3>1
    <3> QED
      BY <1>2, <3>1, <3>2 DEF ReviewsIn
  <2> QED
    BY <2>1, <2>2
<1> QED
  BY <1>1, <1>4, <1>5 DEF q

\* Putting a request back leaves the events of other runs and adds its own.
LEMMA UpsertKeeps ==
    ASSUME NEW s \in Seq(Sound), NEW x \in Sound
    PROVE  /\ Upsert(s, x) \in Seq(Sound)
           /\ \A e \in EventsOf(s) : e.run # x.event.run => e \in EventsOf(Upsert(s, x))
           /\ \A e \in ReviewsIn(s) : e.run # x.event.run => e \in ReviewsIn(Upsert(s, x))
           /\ x.event \in EventsOf(Upsert(s, x))
           /\ EventsOf(Upsert(s, x)) \subseteq EventsOf(s) \cup {x.event}
           /\ ReviewsIn(Upsert(s, x)) \subseteq ReviewsIn(s) \cup {x.event}
<1> DEFINE same == {i \in DOMAIN s : s[i].event.run = x.event.run}
<1>1. DOMAIN s = 1..Len(s)
  OBVIOUS
<1>2. CASE same = {}
  <2>1. Upsert(s, x) = Append(s, x)
    BY <1>2 DEF Upsert
  <2>2. /\ Append(s, x) \in Seq(Sound)
        /\ EventsOf(Append(s, x)) = EventsOf(s) \cup {x.event}
        /\ ReviewsIn(s) \subseteq ReviewsIn(Append(s, x))
        /\ ReviewsIn(Append(s, x)) \subseteq ReviewsIn(s) \cup {x.event}
    BY Inclusions, AppendRecord
  <2> HIDE DEF EventsOf, ReviewsIn, Sound
  <2> QED
    BY <2>1, <2>2
<1>3. CASE same # {}
  <2> DEFINE m == CHOOSE i \in same : \A j \in same : i <= j
             u == [s EXCEPT ![m] = x]
  <2>1. same \in SUBSET Nat
    BY <1>1
  <2>2. \E i \in same : \A j \in same : i <= j
    <3> HIDE DEF same
    <3> QED
      BY <1>3, <2>1, LeastNat
  <2>3. m \in same
    <3> HIDE DEF same
    <3> QED
      BY <2>2
  <2>4. Upsert(s, x) = u
    BY <1>3 DEF Upsert
  <2> HIDE DEF m
  <2>5. m \in 1..Len(s) /\ s[m].event.run = x.event.run
    BY <1>1, <2>3
  <2>6. /\ u \in Seq(Sound) /\ Len(u) = Len(s)
        /\ \A j \in 1..Len(s) : u[j] = IF j = m THEN x ELSE s[j]
    <3> HIDE DEF Sound
    <3> QED
      BY <2>5, ExceptSeq
  <2> HIDE DEF u
  <2>7. DOMAIN u = 1..Len(s)
    BY <2>6
  <2>8. \A i \in 1..Len(s) : s[i].event.run # x.event.run => u[i] = s[i]
    BY <2>5, <2>6
  <2>9. u[m] = x /\ \A i \in 1..Len(s) : u[i] = x \/ u[i] = s[i]
    BY <2>5, <2>6
  <2>10. /\ \A e \in EventsOf(s) : e.run # x.event.run => e \in EventsOf(u)
         /\ x.event \in EventsOf(u)
         /\ EventsOf(u) \subseteq EventsOf(s) \cup {x.event}
    BY <1>1, <2>5, <2>7, <2>8, <2>9 DEF EventsOf
  <2>11. /\ \A e \in ReviewsIn(s) : e.run # x.event.run => e \in ReviewsIn(u)
         /\ ReviewsIn(u) \subseteq ReviewsIn(s) \cup {x.event}
    BY <1>1, <2>7, <2>8, <2>9 DEF ReviewsIn
  <2> HIDE DEF EventsOf, ReviewsIn
  <2> QED
    BY <2>4, <2>6, <2>10, <2>11
<1> QED
  BY <1>2, <1>3

\* The verdict clears or keeps the run of the request, and no other.
LEMMA SettleKeeps ==
    ASSUME RoutingInv, Settle
    PROVE  /\ store' \in Seq(Sound) /\ turn' = NoTurn
           /\ UNCHANGED <<lastRun, run, working, channel, updated, tx>>
           /\ NoEventLost /\ ReviewKept /\ BoardStep
<1> DEFINE n == turn.req.event
<1>1. /\ turn # NoTurn /\ turn.req \in Sends /\ turn' = NoTurn
      /\ UNCHANGED <<lastRun, run, working, channel, updated, tx>>
      /\ store' = RemoveRun(store, n.run) \/ store' = Upsert(store, Deferred(turn.req))
      /\ store \in Seq(Sound)
  BY DEF RoutingInv, Settle, envVars
<1>2. Deferred(turn.req) \in Sound /\ Deferred(turn.req).event = n /\ n \in Event
  BY <1>1 DEF Deferred, Sends, Sound, Record
<1>3. UnderWay = EventsOf(channel) \cup EventsOf(store) \cup {n}
  BY <1>1 DEF UnderWay, Carried
<1>4. UnderWay' = EventsOf(channel) \cup EventsOf(store')
  <2> HIDE DEF EventsOf
  <2> QED
    BY <1>1, ReviewsOfStore DEF UnderWay, Carried
<1> HIDE DEF n
<1>5. CASE store' = RemoveRun(store, n.run)
  <2>1. /\ store' \in Seq(Sound)
        /\ EventsOf(store') = {e \in EventsOf(store) : e.run # n.run}
        /\ ReviewsIn(store') = {e \in ReviewsIn(store) : e.run # n.run}
    BY <1>1, <1>5, RemoveRunKeeps
  <2> HIDE DEF EventsOf, ReviewsIn, UnderWay, Reviews
  <2>2. NoEventLost /\ ReviewKept
    BY <1>3, <1>4, <2>1, ReviewsOfStore DEF NoEventLost, ReviewKept, n
  <2>3. Board!Deliver(n)
    BY <1>3, <1>4, <2>1, ReviewsOfStore DEF Board!Deliver, Board!OnlyRunOf
  <2> QED
    BY <1>1, <1>2, <2>1, <2>2, <2>3 DEF BoardStep, Board!Next
<1>6. CASE store' = Upsert(store, Deferred(turn.req))
  <2>1. /\ store' \in Seq(Sound)
        /\ \A e \in EventsOf(store) : e.run # n.run => e \in EventsOf(store')
        /\ \A e \in ReviewsIn(store) : e.run # n.run => e \in ReviewsIn(store')
        /\ n \in EventsOf(store')
        /\ EventsOf(store') \subseteq EventsOf(store) \cup {n}
        /\ ReviewsIn(store') \subseteq ReviewsIn(store) \cup {n}
    <3> DEFINE x == Deferred(turn.req)
    <3>1. x \in Sound /\ x.event = n
      BY <1>2
    <3>2. store' = Upsert(store, x)
      BY <1>6
    <3> HIDE DEF x, Sound, EventsOf, ReviewsIn
    <3> QED
      BY <1>1, <3>1, <3>2, UpsertKeeps
  <2> HIDE DEF EventsOf, ReviewsIn, UnderWay, Reviews
  <2>2. NoEventLost /\ ReviewKept
    BY <1>3, <1>4, <2>1, ReviewsOfStore DEF NoEventLost, ReviewKept, n
  <2>3. Board!PutBack(n)
    BY <1>3, <1>4, <2>1, ReviewsOfStore DEF Board!PutBack, Board!OnlyRunOf
  <2> QED
    BY <1>1, <1>2, <2>1, <2>2, <2>3 DEF BoardStep, Board!Next
<1> QED
  BY <1>1, <1>5, <1>6

\* A crash forgets what was in memory.
LEMMA CrashKeeps ==
    ASSUME RoutingInv, Crash
    PROVE  /\ run' \in [Task -> [Agent -> 0..MaxRuns]] /\ working' = {} /\ tx' = FALSE
           /\ channel' = <<>> /\ turn' = NoTurn /\ UNCHANGED <<lastRun, store, updated>>
           /\ NoEventLost /\ ReviewKept /\ BoardStep
<1>1. /\ run' \in [Task -> [Agent -> 0..MaxRuns]] /\ working' = {} /\ tx' = FALSE
      /\ channel' = <<>> /\ turn' = NoTurn /\ UNCHANGED <<lastRun, store, updated>>
  BY RoutingAssumption DEF Crash
<1>2. UnderWay' = EventsOf(store) /\ Reviews' = Reviews
  <2>1. EventsOf(<<>>) = {}
    BY DEF EventsOf
  <2>2. EventsOf(store)' = EventsOf(store) /\ EventsOf(channel)' = EventsOf(<<>>) /\ Carried' = {}
    BY <1>1 DEF EventsOf, Carried
  <2>3. Reviews' = Reviews
    BY <1>1 DEF Reviews
  <2> HIDE DEF EventsOf
  <2> QED
    BY <2>1, <2>2, <2>3 DEF UnderWay
<1>3. Reviews \subseteq EventsOf(store) /\ EventsOf(store) \subseteq UnderWay
  BY DEF Reviews, EventsOf, UnderWay
<1> HIDE DEF EventsOf, UnderWay, Reviews
<1>4. NoEventLost /\ ReviewKept
  BY <1>2 DEF NoEventLost, ReviewKept
<1>5. Board!Forget
  BY <1>2, <1>3 DEF Board!Forget
<1> QED
  BY <1>1, <1>4, <1>5 DEF BoardStep, Board!Next
-----------------------------------------------------------------------------
(* The theorems *)

\* Every step preserves the invariant, announces what it does to tasks, drops no
\* event and is a step of the notice board.
LEMMA RoutingStep ==
    ASSUME RoutingInv, [Next]_routingVars
    PROVE  /\ RoutingInv' /\ BoardStep
           /\ routingVars' # routingVars => Announced /\ NoEventLost /\ ReviewKept
<1>0. RegistryInv'
  <2>1. RegistryTypeOK /\ RegistryInv
    BY DEF RoutingInv, RegistryInv
  <2> QED
    BY <2>1, RoutingStepIsRegistryStep, RegistryStepInv
<1>1. CASE Handlers
  <2>1. /\ Untouched /\ Announced
        /\ run' \in [Task -> [Agent -> 0..MaxRuns]]
        /\ working' \subseteq Task \X Agent
    BY <1>1, HandlersKeep
  <2>2. NoEventLost /\ ReviewKept /\ BoardStep
    <3>1. PICK N \in SUBSET Event : /\ \A a, b \in N : a = b
                                    /\ Keeps(channel, store, channel', store', N)
      BY <2>1 DEF Untouched
    <3>2. Carried' = Carried
      BY <2>1 DEF Untouched, Carried
    <3> HIDE DEF Keeps, Event, Carried
    <3> QED
      BY <3>1, <3>2, UntouchedLosesNothing
  <2>3. RoutingInv'
    <3> HIDE DEF Keeps, Sends, Sound, LeadTurn
    <3> QED
      BY <1>0, <2>1 DEF RoutingInv, Untouched
  <2> QED
    BY <2>1, <2>2, <2>3
<1>2. UNCHANGED registryVars => Announced
  BY DEF Announced, registryVars
<1>3. CASE Flush \/ SetNotifyTx \/ \E i \in DOMAIN store : BackoffEnds(i)
  <2>1. /\ channel' \in Channels
        /\ store' \in Seq(Sound)
        /\ Keeps(channel, store, channel', store', {})
        /\ UNCHANGED <<lastRun, run, working, turn, updated>>
        /\ tx' \in BOOLEAN /\ (~tx' => channel' = <<>>)
    BY <1>3, FlushesKeep
  <2>2. UNCHANGED registryVars
    BY <1>3 DEF Flush, SetNotifyTx, BackoffEnds
  <2>3. Carried' = Carried
    BY <2>1 DEF Carried
  <2>4. NoEventLost /\ ReviewKept /\ BoardStep
    <3>1. {} \in SUBSET Event /\ \A a, b \in {} : a = b
      OBVIOUS
    <3> HIDE DEF Keeps, Event, Carried
    <3> QED
      BY <2>1, <2>3, <3>1, UntouchedLosesNothing
  <2>5. RoutingInv'
    BY <1>0, <2>1 DEF RoutingInv
  <2> QED
    BY <1>2, <2>2, <2>4, <2>5
<1>4. CASE Crash
  <2>1. UNCHANGED registryVars /\ <<>> \in Channels
    BY <1>4, RoutingAssumption DEF Crash, Channels
  <2>2. /\ run' \in [Task -> [Agent -> 0..MaxRuns]] /\ working' = {} /\ tx' = FALSE
        /\ channel' = <<>> /\ turn' = NoTurn /\ UNCHANGED <<lastRun, store, updated>>
        /\ NoEventLost /\ ReviewKept /\ BoardStep
    BY <1>4, CrashKeeps
  <2>3. RoutingInv'
    BY <1>0, <2>1, <2>2 DEF RoutingInv
  <2> QED
    BY <1>2, <2>1, <2>2, <2>3
<1>5. CASE Receive
  <2>1. /\ channel' \in Channels /\ turn' \in LeadTurn /\ turn'.req \in Sends
        /\ UNCHANGED <<lastRun, run, working, store, updated, tx>>
        /\ ~tx => channel' = <<>>
        /\ NoEventLost /\ ReviewKept /\ BoardStep
    BY <1>5, ReceiveKeeps
  <2>2. UNCHANGED registryVars
    BY <1>5 DEF Receive
  <2>3. RoutingInv'
    BY <1>0, <2>1 DEF RoutingInv
  <2> QED
    BY <1>2, <2>1, <2>2, <2>3
<1>6. CASE PostUpdate \/ TurnError \/ TurnEnds
  <2>1. /\ turn' \in LeadTurn /\ turn'.req \in Sends
        /\ UNCHANGED <<lastRun, run, working, channel, store, tx>>
        /\ updated' \subseteq Event
        /\ NoEventLost /\ ReviewKept /\ BoardStep
    BY <1>6, TurnKeeps
  <2>2. UNCHANGED registryVars
    BY <1>6 DEF PostUpdate, TurnError, TurnEnds, TurnUnresolved, TurnResolves, NextAttempt
  <2>3. RoutingInv'
    BY <1>0, <2>1 DEF RoutingInv
  <2> QED
    BY <1>2, <2>1, <2>2, <2>3
<1>7. CASE Settle
  <2>1. /\ store' \in Seq(Sound) /\ turn' = NoTurn
        /\ UNCHANGED <<lastRun, run, working, channel, updated, tx>>
        /\ NoEventLost /\ ReviewKept /\ BoardStep
    BY <1>7, SettleKeeps
  <2>2. UNCHANGED registryVars
    BY <1>7 DEF Settle
  <2>3. RoutingInv'
    BY <1>0, <2>1 DEF RoutingInv
  <2> QED
    BY <1>2, <2>1, <2>2, <2>3
<1>8. CASE UNCHANGED routingVars
  <2>1. RoutingInv'
    BY <1>0, <1>8 DEF RoutingInv, routingVars, notifyVars, envVars
  <2>2. UnderWay' = UnderWay /\ Reviews' = Reviews
    BY <1>8 DEF routingVars, notifyVars, envVars, UnderWay, Carried, EventsOf, Reviews
  <2> QED
    BY <1>8, <2>1, <2>2 DEF BoardStep, Board!vars
<1> QED
  BY <1>1, <1>3, <1>4, <1>5, <1>6, <1>7, <1>8 DEF Next, Redispatch

\* It holds at the start.
LEMMA RoutingInitInv == RoutingInit => RoutingInv
<1> SUFFICES ASSUME RoutingInit PROVE RoutingInv
  OBVIOUS
<1>1. RegistryInv
  BY RegistryInitInv DEF RoutingInit
<1>2. <<>> \in Channels /\ <<>> \in Seq(Sound)
  BY RoutingAssumption DEF Channels
<1>3. 0 \in 0..MaxRuns
  BY RoutingAssumption
<1>4. run \in [Task -> [Agent -> 0..MaxRuns]]
  BY <1>3 DEF RoutingInit
<1>5. lastRun \in 0..MaxRuns /\ channel = <<>> /\ store = <<>> /\ turn = NoTurn
  BY <1>3 DEF RoutingInit
<1>6. working \subseteq Task \X Agent /\ tx \in BOOLEAN /\ updated \subseteq Event
  BY DEF RoutingInit
<1> HIDE DEF Channels, Sound, Event
<1> QED
  BY <1>1, <1>2, <1>4, <1>5, <1>6 DEF RoutingInv

LEMMA RoutingInvariance == RoutingSafety => []RoutingInv
<1>1. RoutingInv /\ [Next]_routingVars => RoutingInv'
  BY RoutingStep
<1> QED
  BY <1>1, RoutingInitInv, PTL DEF RoutingSafety

\* Requests and records keep their shape and the channel its capacity, for any
\* capacity and any number of events.
THEOREM RoutingTypes == RoutingSafety => []RoutingTypeOK
<1> QED
  BY RoutingInvariance, RoutingInvTypes, PTL

\* No event is dropped on its way to the lead: it is carried from the operation that
\* causes it until an event of its run is settled or the process dies.
THEOREM NoticesAreCarried == RoutingSafety => NoticeIsCarried
<1>1. RoutingInv /\ [Next]_routingVars =>
         [/\ \A t \in Task :
                status'[t] # status[t] /\ status'[t] \in DOMAIN Tells
                    => \E e \in UnderWay' : /\ e.task = t
                                            /\ e.kind = Tells[status'[t]]
                                            /\ e.run \in {run[t][holder[t]], lastRun'}
          /\ \A e \in UnderWay : \/ e \in UnderWay'
                                 \/ Settle /\ turn.req.event.run = e.run
                                 \/ Crash /\ e \notin EventsOf(store)]_routingVars
  <2> SUFFICES ASSUME RoutingInv, [Next]_routingVars, routingVars' # routingVars
               PROVE  /\ \A t \in Task :
                            status'[t] # status[t] /\ status'[t] \in DOMAIN Tells
                                => \E e \in UnderWay' : /\ e.task = t
                                                        /\ e.kind = Tells[status'[t]]
                                                        /\ e.run \in {run[t][holder[t]], lastRun'}
                      /\ NoEventLost
    BY DEF NoEventLost
  <2>1. Announced /\ NoEventLost
    BY RoutingStep
  <2>2. EventsOf(channel') \cup EventsOf(store') \subseteq UnderWay'
    BY DEF UnderWay, EventsOf
  <2> QED
    BY <2>1, <2>2 DEF Announced
<1> QED
  BY <1>1, RoutingInvariance, PTL DEF RoutingSafety, NoticeIsCarried

\* A stored review stays in the file until an event of its run is settled, whatever is
\* sent, fails or dies.
THEOREM ReviewsStayOnDisk == RoutingSafety => ReviewStaysOnDisk
<1>1. RoutingInv /\ [Next]_routingVars =>
         [\A e \in Reviews : e \in Reviews' \/ (Settle /\ turn.req.event.run = e.run)]_routingVars
  BY RoutingStep DEF ReviewKept
<1> QED
  BY <1>1, RoutingInvariance, PTL DEF RoutingSafety, ReviewStaysOnDisk

\* The channel, the file and the redispatch task are a notice board: whatever a channel
\* holds, and however many events there are, each step posts an event, delivers one
\* with the reviews of its run, puts one back, forgets what only memory held, or changes
\* nothing that the board shows.
THEOREM RoutingImplementsBoard == RoutingSafety => BoardSpec
<1>1. RoutingInit => Board!Init
  <2> SUFFICES ASSUME RoutingInit PROVE UnderWay = {} /\ Reviews = {}
    BY DEF Board!Init
  <2>1. channel = <<>> /\ store = <<>> /\ turn = NoTurn
    BY DEF RoutingInit
  <2>2. EventsOf(channel) = {} /\ EventsOf(store) = {} /\ Carried = {} /\ Reviews = {}
    BY <2>1 DEF EventsOf, Carried, Reviews
  <2> QED
    BY <2>2 DEF UnderWay
<1>2. RoutingInv /\ [Next]_routingVars => [Board!Next]_(Board!vars)
  BY RoutingStep DEF BoardStep
<1> QED
  BY <1>1, <1>2, RoutingInvariance, PTL DEF RoutingSafety, BoardSpec, Board!Spec

\* The handlers around the registry, the channel and the lead's turns leave it what the
\* ownership of work promises.
THEOREM RoutingImplementsOwnership == RoutingSafety => OwnershipSpec
<1> QED
  BY RoutingImplementsRegistry, RegistryImplementsOwnership, PTL
=============================================================================
