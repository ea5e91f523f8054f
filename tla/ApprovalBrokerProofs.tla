------------------------ MODULE ApprovalBrokerProofs ------------------------
\* Whatever identifiers, registrations and resolvers there are, an agent goes
\* on only if a user allowed what it asked for.
EXTENDS ApprovalBroker, TLAPS

\* What AllowedByUser rests on: a resolver holds a sender of its own target, and
\* an allowance comes into a channel by Send alone and stays there.
AllowanceIsSent ==
    /\ \A r \in Resolver : taken[r] # None => id[taken[r]] = target[r]
    /\ \A r \in Resolver : call[r] = "sending" => channel[taken[r]] = "open"
    /\ \A w \in Waiter : channel[w] = "Allow" =>
          \E r \in Resolver : /\ taken[r] = w
                              /\ decision[r] = "Allow"
                              /\ call[r] = "resolved"
    /\ \A w \in Waiter : answer[w] = "Allow" => channel[w] = "Allow"

ApprovalInv == ApprovalTypeOK /\ OneSender /\ AllowanceIsSent

\* Nothing is registered, taken or sent at the start.
LEMMA ApprovalInit == Init => ApprovalInv
<1> SUFFICES ASSUME Init PROVE ApprovalInv
  OBVIOUS
<1>1. ApprovalTypeOK
  BY DEF Init, ApprovalTypeOK, Decision, Registering, Clearing, Gone
<1>2. OneSender
  BY ApprovalAssumption DEF ApprovalAssumption, Init, OneSender
<1>3. AllowanceIsSent
  BY ApprovalAssumption DEF ApprovalAssumption, Decision, Init, AllowanceIsSent
<1> QED
  BY <1>1, <1>2, <1>3 DEF ApprovalInv

\* The steps of register keep the invariant.
LEMMA RegisterStep == ApprovalInv /\ (\E w \in Waiter : Register(w)) => ApprovalInv'
<1> SUFFICES ASSUME ApprovalInv, NEW w \in Waiter, Register(w) PROVE ApprovalInv'
  OBVIOUS
<1> USE ApprovalAssumption
        DEF ApprovalAssumption, ApprovalInv, waiterVars, callVars, Decision, Registering, Clearing, Gone
<1>1. CASE \E i \in Id : RemoveStale(w, i)
  <2>1. ApprovalTypeOK'
    BY <1>1 DEF RemoveStale, ApprovalTypeOK, OneSender
  <2>2. OneSender'
    BY <1>1 DEF RemoveStale, ApprovalTypeOK, OneSender, AllowanceIsSent
  <2>3. AllowanceIsSent'
    BY <1>1 DEF RemoveStale, ApprovalTypeOK, OneSender, AllowanceIsSent
  <2> QED
    BY <2>1, <2>2, <2>3
<1>2. CASE InsertRequest(w)
  <2>1. ApprovalTypeOK'
    BY <1>2 DEF InsertRequest, ApprovalTypeOK, OneSender
  <2>2. OneSender'
    BY <1>2 DEF InsertRequest, ApprovalTypeOK, OneSender, AllowanceIsSent
  <2>3. AllowanceIsSent'
    BY <1>2 DEF InsertRequest, ApprovalTypeOK, OneSender, AllowanceIsSent
  <2> QED
    BY <2>1, <2>2, <2>3
<1>3. CASE InsertSender(w)
  <2>1. ApprovalTypeOK'
    BY <1>3 DEF InsertSender, Drop, ApprovalTypeOK, OneSender
  <2>2. OneSender'
    BY <1>3 DEF InsertSender, Drop, ApprovalTypeOK, OneSender, AllowanceIsSent
  <2>3. AllowanceIsSent'
    BY <1>3 DEF InsertSender, Drop, ApprovalTypeOK, OneSender, AllowanceIsSent
  <2> QED
    BY <2>1, <2>2, <2>3
<1> QED
  BY <1>1, <1>2, <1>3 DEF Register

\* The steps of wait, and its end in between, keep the invariant.
LEMMA WaitStep == ApprovalInv /\ (\E w \in Waiter : Wait(w) \/ Abandon(w)) => ApprovalInv'
<1> SUFFICES ASSUME ApprovalInv, NEW w \in Waiter, Wait(w) \/ Abandon(w) PROVE ApprovalInv'
  OBVIOUS
<1> USE ApprovalAssumption
        DEF ApprovalAssumption, ApprovalInv, waiterVars, callVars, Decision, Registering, Clearing, Gone
<1>1. CASE Receive(w)
  <2>1. ApprovalTypeOK'
    BY <1>1 DEF Receive, ApprovalTypeOK, OneSender
  <2>2. OneSender'
    BY <1>1 DEF Receive, ApprovalTypeOK, OneSender, AllowanceIsSent
  <2>3. AllowanceIsSent'
    BY <1>1 DEF Receive, ApprovalTypeOK, OneSender, AllowanceIsSent
  <2> QED
    BY <2>1, <2>2, <2>3
<1>2. CASE Expire(w)
  <2>1. ApprovalTypeOK'
    BY <1>2 DEF Expire, ApprovalTypeOK, OneSender
  <2>2. OneSender'
    BY <1>2 DEF Expire, ApprovalTypeOK, OneSender, AllowanceIsSent
  <2>3. AllowanceIsSent'
    BY <1>2 DEF Expire, ApprovalTypeOK, OneSender, AllowanceIsSent
  <2> QED
    BY <2>1, <2>2, <2>3
<1>3. CASE ClearSender(w)
  <2>1. ApprovalTypeOK'
    BY <1>3 DEF ClearSender, Drop, ApprovalTypeOK, OneSender
  <2>2. OneSender'
    BY <1>3 DEF ClearSender, Drop, ApprovalTypeOK, OneSender, AllowanceIsSent
  <2>3. AllowanceIsSent'
    BY <1>3 DEF ClearSender, Drop, ApprovalTypeOK, OneSender, AllowanceIsSent
  <2> QED
    BY <2>1, <2>2, <2>3
<1>4. CASE ClearRequest(w)
  <2>1. ApprovalTypeOK'
    BY <1>4 DEF ClearRequest, ApprovalTypeOK, OneSender
  <2>2. OneSender'
    BY <1>4 DEF ClearRequest, ApprovalTypeOK, OneSender, AllowanceIsSent
  <2>3. AllowanceIsSent'
    BY <1>4 DEF ClearRequest, ApprovalTypeOK, OneSender, AllowanceIsSent
  <2> QED
    BY <2>1, <2>2, <2>3
<1>5. CASE Abandon(w)
  <2>1. ApprovalTypeOK'
    BY <1>5 DEF Abandon, ApprovalTypeOK, OneSender
  <2>2. OneSender'
    BY <1>5 DEF Abandon, ApprovalTypeOK, OneSender, AllowanceIsSent
  <2>3. AllowanceIsSent'
    BY <1>5 DEF Abandon, ApprovalTypeOK, OneSender, AllowanceIsSent
  <2> QED
    BY <2>1, <2>2, <2>3
<1> QED
  BY <1>1, <1>2, <1>3, <1>4, <1>5 DEF Wait

\* The steps of resolve keep the invariant.
LEMMA ResolveStep == ApprovalInv /\ (\E r \in Resolver : Resolve(r)) => ApprovalInv'
<1> SUFFICES ASSUME ApprovalInv, NEW r \in Resolver, Resolve(r) PROVE ApprovalInv'
  OBVIOUS
<1> USE ApprovalAssumption
        DEF ApprovalAssumption, ApprovalInv, waiterVars, callVars, Decision, Registering, Clearing, Gone
<1>1. CASE \E i \in Id, d \in Decision : RemoveRequest(r, i, d)
  <2>1. ApprovalTypeOK'
    BY <1>1 DEF RemoveRequest, ApprovalTypeOK, OneSender
  <2>2. OneSender'
    BY <1>1 DEF RemoveRequest, ApprovalTypeOK, OneSender, AllowanceIsSent
  <2>3. AllowanceIsSent'
    BY <1>1 DEF RemoveRequest, ApprovalTypeOK, OneSender, AllowanceIsSent
  <2> QED
    BY <2>1, <2>2, <2>3
<1>2. CASE TakeSender(r)
  <2>1. ApprovalTypeOK'
    BY <1>2 DEF TakeSender, ApprovalTypeOK, OneSender
  <2>2. OneSender'
    BY <1>2 DEF TakeSender, ApprovalTypeOK, OneSender, AllowanceIsSent
  <2>3. AllowanceIsSent'
    BY <1>2 DEF TakeSender, ApprovalTypeOK, OneSender, AllowanceIsSent
  <2> QED
    BY <2>1, <2>2, <2>3
<1>3. CASE Send(r)
  <2>1. ApprovalTypeOK'
    BY <1>3 DEF Send, ApprovalTypeOK, OneSender
  <2>2. OneSender'
    BY <1>3 DEF Send, ApprovalTypeOK, OneSender, AllowanceIsSent
  <2>3. AllowanceIsSent'
    BY <1>3 DEF Send, ApprovalTypeOK, OneSender, AllowanceIsSent
  <2> QED
    BY <2>1, <2>2, <2>3
<1> QED
  BY <1>1, <1>2, <1>3 DEF Resolve

LEMMA ApprovalStep == ApprovalInv /\ [Next]_vars => ApprovalInv'
<1>1. ApprovalInv /\ UNCHANGED vars => ApprovalInv'
  BY DEF ApprovalInv, ApprovalTypeOK, OneSender, AllowanceIsSent, vars, waiterVars, callVars,
         Decision, Registering, Clearing, Gone
<1> QED
  BY <1>1, RegisterStep, WaitStep, ResolveStep DEF Next

\* Every state a broker can reach satisfies the invariant.
LEMMA ApprovalInvariance == SafetySpec => []ApprovalInv
  BY ApprovalInit, ApprovalStep, PTL DEF SafetySpec

\* The maps, the calls of resolve and the answers keep their shape: a call holds a
\* sender exactly from when it took one.
THEOREM BrokerTypes == SafetySpec => []ApprovalTypeOK
<1>1. ApprovalInv => ApprovalTypeOK
  BY DEF ApprovalInv
<1> QED
  BY <1>1, ApprovalInvariance, PTL

\* However registrations, timers and calls of resolve cross, a sender is in the
\* map under its own identifier or with one call.
THEOREM SendersAreNotShared == SafetySpec => []OneSender
<1>1. ApprovalInv => OneSender
  BY DEF ApprovalInv
<1> QED
  BY <1>1, ApprovalInvariance, PTL

\* An agent is allowed to go on only by a user's acknowledged allowance of the
\* identifier it asked for, one call for one request.
THEOREM OnlyUsersAllow == SafetySpec => []AllowedByUser
<1>1. ApprovalInv => AllowedByUser
  BY DEF ApprovalInv, ApprovalTypeOK, AllowanceIsSent, AllowedByUser
<1> QED
  BY <1>1, ApprovalInvariance, PTL
-----------------------------------------------------------------------------
(* Who waits can be answered *)

Listed(w) == requests[id[w]] = w \/ Called(w) \/ Rivalled(w)

\* What WaiterIsReachable says of one waiter.
Reached(w) ==
    \/ channel[w] \in Decision
    \/ \E r \in Resolver : call[r] = "sending" /\ taken[r] = w
    \/ pending[id[w]] = w /\ Listed(w)
    \/ channel[w] = "closed" /\ Rivalled(w)

\* A request is listed before its sender is in the map, and a call that has not come
\* has no target.
ListedFirst ==
    /\ \A w \in Waiter : pc[w] = "inserting_sender" => Listed(w)
    /\ \A r \in Resolver : call[r] = "new" => target[r] = None

AllReached == \A w \in Waiter : pc[w] = "wait" => Reached(w)

ReachInv == ApprovalInv /\ ListedFirst /\ AllReached

\* Identifiers and targets are chosen once.
LEMMA ChosenOnce ==
    ASSUME ReachInv, [Next]_vars
    PROVE  /\ \A w \in Waiter : pc[w] # "new" => id'[w] = id[w] /\ id[w] \in Id
           /\ \A v, w \in Waiter : pc[w] # "new" /\ id[v] = id[w] => id'[v] = id'[w]
           /\ \A r \in Resolver : call[r] # "new" => target'[r] = target[r]
           /\ \A r \in Resolver : target[r] # None => target'[r] = target[r]
<1>1. /\ id \in [Waiter -> Id \cup {None}] /\ target \in [Resolver -> Id \cup {None}]
      /\ \A w \in Waiter : (id[w] = None) <=> (pc[w] = "new")
      /\ \A r \in Resolver : call[r] = "new" => target[r] = None
  BY DEF ReachInv, ListedFirst, ApprovalInv, ApprovalTypeOK
<1>2. \/ UNCHANGED id
      \/ \E w \in Waiter, i \in Id : pc[w] = "new" /\ id' = [id EXCEPT ![w] = i]
  BY DEF Next, vars, waiterVars, callVars, Register, Wait, Resolve, RemoveStale, InsertRequest,
         InsertSender, Receive, Expire, ClearSender, ClearRequest, Abandon, RemoveRequest,
         TakeSender, Send
<1>3. \/ UNCHANGED target
      \/ \E r \in Resolver, i \in Id : call[r] = "new" /\ target' = [target EXCEPT ![r] = i]
  BY DEF Next, vars, waiterVars, callVars, Register, Wait, Resolve, RemoveStale, InsertRequest,
         InsertSender, Receive, Expire, ClearSender, ClearRequest, Abandon, RemoveRequest,
         TakeSender, Send
<1>4. \A w \in Waiter : pc[w] # "new" => id'[w] = id[w] /\ id[w] \in Id
  BY <1>1, <1>2
<1>5. \A r \in Resolver : call[r] # "new" => target'[r] = target[r]
  BY <1>1, <1>3
<1> QED
  BY <1>1, <1>4, <1>5

\* An identifier that was used stays used.
LEMMA UsedStaysUsed ==
    ASSUME ReachInv, [Next]_vars, NEW w \in Waiter, pc[w] # "new"
    PROVE  /\ Called(w) => Called(w)'
           /\ Rivalled(w) => Rivalled(w)'
<1>1. id'[w] = id[w] /\ id[w] # None
  BY ChosenOnce, ApprovalAssumption DEF ApprovalAssumption
<1>2. Called(w) => Called(w)'
  BY <1>1, ChosenOnce DEF Called
<1>3. Rivalled(w) => Rivalled(w)'
  BY <1>1, ChosenOnce DEF Rivalled
<1> QED
  BY <1>2, <1>3

\* Registrations take a sender away only from a rival.
LEMMA ReachRegister ==
    ASSUME ReachInv, NEW v \in Waiter, Register(v)
    PROVE  ListedFirst' /\ AllReached'
<1> USE DEF ReachInv
<1>1. Next /\ [Next]_vars
  BY DEF Next
<1>2. UNCHANGED <<call, target, taken>>
  BY DEF Register, RemoveStale, InsertRequest, InsertSender, callVars
<1>3. \A r \in Resolver : call'[r] = "new" => target'[r] = None
  BY <1>2 DEF ListedFirst
<1>4. CASE \E i \in Id : RemoveStale(v, i)
  <2>1. PICK i \in Id : RemoveStale(v, i)
    BY <1>4
  <2>2. /\ pc[v] = "new" /\ pc' = [pc EXCEPT ![v] = "inserting_request"]
        /\ UNCHANGED requests /\ pending' = [pending EXCEPT ![i] = None]
        /\ channel' = [x \in Waiter |->
                          IF x = pending[i] /\ pc[x] \notin Gone THEN "Deny" ELSE channel[x]]
    BY <2>1 DEF RemoveStale
  <2>3. ASSUME NEW w \in Waiter, pc'[w] \in {"inserting_sender", "wait"}
        PROVE  w # v /\ pc[w] = pc'[w] /\ id'[w] = id[w] /\ id[w] \in Id
    BY <1>1, <2>2, <2>3, ChosenOnce DEF ApprovalInv, ApprovalTypeOK
  <2>4. ASSUME NEW w \in Waiter, pc'[w] = "inserting_sender" PROVE Listed(w)'
    BY <1>1, <2>2, <2>3, <2>4, UsedStaysUsed DEF ListedFirst, Listed
  <2>5. ASSUME NEW w \in Waiter, pc'[w] = "wait"
        PROVE  Reached(w)'
    <3>1. /\ pc[w] = "wait" /\ id'[w] = id[w] /\ id[w] \in Id
          /\ Called(w) => Called(w)'
          /\ Rivalled(w) => Rivalled(w)'
      BY <1>1, <2>3, <2>5, UsedStaysUsed
    <3>2. Listed(w) => Listed(w)'
      BY <2>2, <3>1 DEF Listed
    <3>3. CASE w = pending[i]
      BY <2>2, <3>1, <3>3 DEF Reached, Gone, Decision
    <3>4. CASE w # pending[i]
      <4>1. channel'[w] = channel[w]
        BY <2>2, <3>4
      <4>2. pending[id[w]] = w => pending'[id[w]] = w
        BY <2>2, <3>1, <3>4 DEF ApprovalInv, ApprovalTypeOK
      <4> QED
        BY <1>2, <3>1, <3>2, <4>1, <4>2 DEF AllReached, Reached
    <3> QED
      BY <3>3, <3>4
  <2> QED
    BY <1>3, <2>4, <2>5 DEF ListedFirst, AllReached
<1>5. CASE InsertRequest(v)
  <2>1. /\ pc[v] = "inserting_request" /\ pc' = [pc EXCEPT ![v] = "inserting_sender"]
        /\ UNCHANGED <<id, channel, pending>> /\ requests' = [requests EXCEPT ![id[v]] = v]
    BY <1>5 DEF InsertRequest
  <2>2. requests'[id[v]] = v
    BY <2>1, <1>1, ChosenOnce DEF ApprovalInv, ApprovalTypeOK
  <2>3. ASSUME NEW w \in Waiter \ {v}, pc[w] # "new", Listed(w) PROVE Listed(w)'
    <3>1. /\ id'[w] = id[w]
          /\ Called(w) => Called(w)'
          /\ Rivalled(w) => Rivalled(w)'
      BY <1>1, <2>1, <2>3, UsedStaysUsed
    <3>2. CASE id[w] = id[v]
      BY <2>1, <2>3, <3>2 DEF Listed, Rivalled
    <3>3. CASE id[w] # id[v]
      BY <2>1, <2>3, <3>1, <3>3 DEF Listed, ApprovalInv, ApprovalTypeOK
    <3> QED
      BY <3>2, <3>3
  <2>4. ASSUME NEW w \in Waiter, pc'[w] = "inserting_sender" PROVE Listed(w)'
    <3>1. CASE w = v
      BY <2>1, <2>2, <3>1 DEF Listed
    <3>2. CASE w # v
      BY <2>1, <2>3, <2>4, <3>2 DEF ListedFirst, ApprovalInv, ApprovalTypeOK
    <3> QED
      BY <3>1, <3>2
  <2>5. ASSUME NEW w \in Waiter, pc'[w] = "wait"
        PROVE  Reached(w)'
    <3>1. w # v /\ pc[w] = "wait"
      BY <2>1, <2>5 DEF ApprovalInv, ApprovalTypeOK
    <3>2. Listed(w) => Listed(w)'
      BY <2>3, <3>1
    <3>3. Rivalled(w) => Rivalled(w)'
      BY <1>1, <3>1, UsedStaysUsed
    <3> QED
      BY <1>2, <2>1, <3>1, <3>2, <3>3 DEF AllReached, Reached
  <2> QED
    BY <1>3, <2>4, <2>5 DEF ListedFirst, AllReached
<1>6. CASE InsertSender(v)
  <2>1. /\ pc[v] = "inserting_sender" /\ pc' = [pc EXCEPT ![v] = "wait"]
        /\ UNCHANGED <<id, requests>> /\ pending' = [pending EXCEPT ![id[v]] = v]
        /\ channel' = Drop(id[v])
    BY <1>6 DEF InsertSender
  <2>2. id[v] \in Id /\ pending'[id[v]] = v
    BY <2>1, <1>1, ChosenOnce DEF ApprovalInv, ApprovalTypeOK
  <2>3. ASSUME NEW w \in Waiter, pc'[w] \in {"inserting_sender", "wait"}
        PROVE  /\ id'[w] = id[w] /\ id[w] \in Id
               /\ Listed(w) => Listed(w)'
               /\ Rivalled(w) => Rivalled(w)'
    <3>1. pc[w] # "new"
      BY <2>1, <2>3 DEF ApprovalInv, ApprovalTypeOK
    <3> QED
      BY <1>1, <2>1, <3>1, ChosenOnce, UsedStaysUsed DEF Listed
  <2>4. ASSUME NEW w \in Waiter, pc'[w] = "inserting_sender" PROVE Listed(w)'
    BY <2>1, <2>3, <2>4 DEF ListedFirst, ApprovalInv, ApprovalTypeOK
  <2>5. ASSUME NEW w \in Waiter, pc'[w] = "wait"
        PROVE  Reached(w)'
    <3>1. CASE w = v
      BY <2>1, <2>2, <2>3, <2>5, <3>1 DEF ListedFirst, Reached
    <3>2. CASE w # v
      <4>1. pc[w] = "wait"
        BY <2>1, <2>5, <3>2 DEF ApprovalInv, ApprovalTypeOK
      <4>2. CASE w = pending[id[v]]
        <5>1. channel'[w] = "closed" /\ id[w] = id[v]
          BY <2>1, <2>2, <4>2, ApprovalAssumption
          DEF ApprovalAssumption, Drop, ApprovalInv, OneSender
        <5> QED
          BY <2>1, <3>2, <5>1 DEF Rivalled, Reached
      <4>3. CASE w # pending[id[v]]
        <5>1. channel'[w] = channel[w]
          BY <2>1, <4>3 DEF Drop
        <5>2. pending[id[w]] = w => pending'[id[w]] = w
          <6>1. pending \in [Id -> Waiter \cup {None}] /\ id[w] \in Id
            BY <2>3, <2>5 DEF ApprovalInv, ApprovalTypeOK
          <6> QED
            BY <2>1, <4>3, <6>1
        <5> QED
          BY <1>2, <2>3, <2>5, <4>1, <5>1, <5>2 DEF AllReached, Reached
      <4> QED
        BY <4>2, <4>3
    <3> QED
      BY <3>1, <3>2
  <2> QED
    BY <1>3, <2>4, <2>5 DEF ListedFirst, AllReached
<1> QED
  BY <1>4, <1>5, <1>6 DEF Register

\* A step that leaves a registration and its channel alone, and its sender and its
\* place in the list unless a rival took them, leaves it reachable.
LEMMA LeftAlone ==
    ASSUME ReachInv, [Next]_vars, NEW w \in Waiter, pc[w] = "wait", channel'[w] = channel[w],
           \A r \in Resolver : call[r] = "sending" /\ taken[r] = w
                                => call'[r] = "sending" /\ taken'[r] = w,
           pending[id[w]] = w => pending'[id[w]] = w,
           requests[id[w]] = w => Listed(w)'
    PROVE  Reached(w)'
<1>1. /\ id'[w] = id[w] /\ (Called(w) => Called(w)') /\ (Rivalled(w) => Rivalled(w)')
  BY ChosenOnce, UsedStaysUsed
<1>2. Listed(w) => Listed(w)'
  BY <1>1 DEF Listed
<1> QED
  BY <1>1, <1>2 DEF ReachInv, AllReached, Reached

\* The steps of a wait take nothing from anyone but rivals.
LEMMA ReachWait ==
    ASSUME ReachInv, NEW v \in Waiter, Wait(v) \/ Abandon(v)
    PROVE  ListedFirst' /\ AllReached'
<1>1. [Next]_vars
  BY DEF Next
<1>2. UNCHANGED <<id, call, target, taken>>
  BY DEF Wait, Abandon, Receive, Expire, ClearSender, ClearRequest, callVars
<1>3. /\ \A r \in Resolver : call'[r] = "new" => target'[r] = None
      /\ \A w \in Waiter : (Called(w) => Called(w)') /\ (Rivalled(w) => Rivalled(w)')
  BY <1>2 DEF ReachInv, ListedFirst, Called, Rivalled
<1>4. ASSUME NEW w \in Waiter, pc'[w] \in {"inserting_sender", "wait"}
      PROVE  w # v /\ pc'[w] = pc[w]
  <2>1. pc \in [Waiter -> {"new", "wait"} \cup Registering \cup Clearing \cup Gone]
    BY DEF ReachInv, ApprovalInv, ApprovalTypeOK
  <2>2. \E p \in Clearing \cup Gone : pc' = [pc EXCEPT ![v] = p]
    BY DEF Wait, Abandon, Receive, Expire, ClearSender, ClearRequest, Clearing, Gone
  <2> QED
    BY <1>4, <2>1, <2>2 DEF Clearing, Gone
<1>5. ASSUME NEW w \in Waiter, w # v, pc[w] # "new", requests[id[w]] = w PROVE Listed(w)'
  <2>1. CASE ClearRequest(v)
    <3>1. requests' = [requests EXCEPT ![id[v]] = None]
      BY <2>1 DEF ClearRequest
    <3>2. CASE id[w] = id[v]
      BY <1>2, <1>5, <3>2 DEF Listed, Rivalled
    <3>3. CASE id[w] # id[v]
      BY <1>2, <1>5, <3>1, <3>3 DEF ReachInv, ApprovalInv, ApprovalTypeOK, Listed
    <3> QED
      BY <3>2, <3>3
  <2>2. CASE ~ClearRequest(v)
    BY <1>2, <1>5, <2>2 DEF Wait, Abandon, Receive, Expire, ClearSender, Listed
  <2> QED
    BY <2>1, <2>2
<1>6. ASSUME NEW w \in Waiter, pc'[w] = "inserting_sender" PROVE Listed(w)'
  BY <1>3, <1>4, <1>5, <1>6 DEF ReachInv, ListedFirst, Listed
<1>7. ASSUME NEW w \in Waiter, pc'[w] = "wait" PROVE Reached(w)'
  <2>1. w # v /\ pc[w] = "wait"
    BY <1>4, <1>7
  <2>2. CASE ClearSender(v) /\ w = pending[id[v]]
    <3>1. channel'[w] = "closed" /\ id[w] = id[v]
      <4>1. id[v] \in Id
        BY <2>2, <1>1, ChosenOnce DEF ClearSender
      <4>2. w # None
        BY ApprovalAssumption DEF ApprovalAssumption
      <4> QED
        BY <2>2, <4>1, <4>2 DEF ClearSender, Drop, ReachInv, ApprovalInv, OneSender
    <3> QED
      BY <1>2, <2>1, <3>1 DEF Rivalled, Reached
  <2>3. CASE ClearSender(v) /\ w # pending[id[v]]
    <3>1. channel'[w] = channel[w] /\ pending' = [pending EXCEPT ![id[v]] = None]
      BY <2>3 DEF ClearSender, Drop
    <3>2. pending[id[w]] = w => pending'[id[w]] = w
      <4>1. pending \in [Id -> Waiter \cup {None}] /\ id[w] \in Id
        BY <1>1, <2>1, ChosenOnce DEF ReachInv, ApprovalInv, ApprovalTypeOK
      <4> QED
        BY <2>3, <3>1, <4>1
    <3> QED
      BY <1>1, <1>2, <1>5, <2>1, <3>1, <3>2, LeftAlone
  <2>4. CASE ~ClearSender(v)
    <3>1. UNCHANGED <<channel, pending>>
      BY <2>4 DEF Wait, Abandon, Receive, Expire, ClearRequest
    <3> QED
      BY <1>1, <1>2, <1>5, <2>1, <3>1, LeftAlone
  <2> QED
    BY <2>2, <2>3, <2>4
<1> QED
  BY <1>3, <1>6, <1>7 DEF ListedFirst, AllReached

\* A call takes a request and its sender, and then answers it.
LEMMA ReachResolve ==
    ASSUME ReachInv, NEW r \in Resolver, Resolve(r)
    PROVE  ListedFirst' /\ AllReached'
<1>1. [Next]_vars
  BY DEF Next
<1>2. UNCHANGED <<pc, id>>
  BY DEF Resolve, RemoveRequest, TakeSender, Send, waiterVars
<1>3. /\ call \in [Resolver -> {"new", "taking", "sending", "resolved", "refused"}]
      /\ target \in [Resolver -> Id \cup {None}] /\ taken \in [Resolver -> Waiter \cup {None}]
      /\ pending \in [Id -> Waiter \cup {None}] /\ requests \in [Id -> Waiter \cup {None}]
      /\ channel \in [Waiter -> {"open", "closed"} \cup Decision]
      /\ decision \in [Resolver -> Decision \cup {None}]
  BY DEF ReachInv, ApprovalInv, ApprovalTypeOK
<1>4. \A q \in Resolver : call'[q] = "new" => target'[q] = None
  <2>1. call'[r] # "new"
    BY <1>3 DEF Resolve, RemoveRequest, TakeSender, Send
  <2>2. \A q \in Resolver \ {r} : call'[q] = call[q] /\ target'[q] = target[q]
    BY <1>3 DEF Resolve, RemoveRequest, TakeSender, Send
  <2> QED
    BY <2>1, <2>2 DEF ReachInv, ListedFirst
<1>5. ASSUME NEW w \in Waiter, pc[w] # "new" PROVE Listed(w) => Listed(w)'
  <2>1. /\ id'[w] = id[w] /\ id[w] \in Id
        /\ Called(w) => Called(w)'
        /\ Rivalled(w) => Rivalled(w)'
    BY <1>1, <1>5, ChosenOnce, UsedStaysUsed
  <2>2. requests[id[w]] = w => requests'[id[w]] = w \/ Called(w)'
    <3>1. CASE UNCHANGED requests
      BY <3>1
    <3>2. CASE \E i \in Id, d \in Decision : RemoveRequest(r, i, d)
      <4>1. PICK i \in Id : requests' = [requests EXCEPT ![i] = None] /\ target'[r] = i
        BY <1>3, <3>2 DEF RemoveRequest
      <4> QED
        BY <1>3, <2>1, <4>1 DEF Called
    <3> QED
      BY <3>1, <3>2 DEF Resolve, TakeSender, Send
  <2> QED
    BY <2>1, <2>2 DEF Listed
<1>6. ASSUME NEW w \in Waiter, pc'[w] = "inserting_sender" PROVE Listed(w)'
  BY <1>2, <1>5, <1>6 DEF ReachInv, ListedFirst
<1>7. ASSUME NEW w \in Waiter, pc'[w] = "wait" PROVE Reached(w)'
  <2>1. pc[w] = "wait" /\ id'[w] = id[w] /\ id[w] \in Id
    BY <1>1, <1>2, <1>7, ChosenOnce
  <2>2. requests[id[w]] = w => Listed(w)'
    BY <1>5, <2>1 DEF Listed
  <2>3. CASE \E i \in Id, d \in Decision : RemoveRequest(r, i, d)
    <3>1. /\ UNCHANGED <<channel, pending, taken>> /\ call[r] = "new"
          /\ call' = [call EXCEPT ![r] = "taking"]
      BY <2>3 DEF RemoveRequest, waiterVars
    <3> QED
      BY <1>1, <1>3, <2>1, <2>2, <3>1, LeftAlone
  <2>4. CASE TakeSender(r)
    <3>1. /\ call[r] = "taking" /\ UNCHANGED channel
          /\ taken' = [taken EXCEPT ![r] = pending[target[r]]]
          /\ call' = [call EXCEPT ![r] = IF pending[target[r]] = None THEN "refused"
                                                                  ELSE "sending"]
          /\ pending' = [pending EXCEPT ![target[r]] = None]
      BY <2>4 DEF TakeSender, waiterVars
    <3>2. \A q \in Resolver : call[q] = "sending" /\ taken[q] = w
                                => call'[q] = "sending" /\ taken'[q] = w
      BY <1>3, <3>1
    <3>3. CASE pending[target[r]] = w
      <4>1. w # None
        BY ApprovalAssumption DEF ApprovalAssumption
      <4>2. call'[r] = "sending" /\ taken'[r] = w
        BY <1>3, <3>1, <3>3, <4>1
      <4> QED
        BY <4>2 DEF Reached
    <3>4. CASE pending[target[r]] # w
      <4>1. pending[id[w]] = w => pending'[id[w]] = w
        BY <1>3, <2>1, <3>1, <3>4
      <4> QED
        BY <1>1, <2>1, <2>2, <3>1, <3>2, <4>1, LeftAlone
    <3> QED
      BY <3>3, <3>4
  <2>5. CASE Send(r)
    <3>1. call[r] = "sending" /\ UNCHANGED <<pending, taken>>
      BY <2>5 DEF Send
    <3>2. CASE taken[r] = w
      <4>1. channel' = [channel EXCEPT ![w] = decision[r]]
        BY <2>1, <2>5, <3>2 DEF Send, Gone
      <4>2. decision[r] \in Decision
        BY <3>1 DEF ReachInv, ApprovalInv, ApprovalTypeOK
      <4> QED
        BY <1>3, <4>1, <4>2 DEF Reached
    <3>3. CASE taken[r] # w
      <4>1. channel'[w] = channel[w] /\ \A q \in Resolver \ {r} : call'[q] = call[q]
        BY <1>3, <2>5, <3>3 DEF Send
      <4> QED
        BY <1>1, <2>1, <2>2, <3>1, <3>3, <4>1, LeftAlone
    <3> QED
      BY <3>2, <3>3
  <2> QED
    BY <2>3, <2>4, <2>5 DEF Resolve
<1> QED
  BY <1>4, <1>6, <1>7 DEF ListedFirst, AllReached

\* However registrations, timers and calls under one identifier cross, a decision can
\* reach who waits for it, and only a second registration takes its sender away.
THEOREM WaitersAreReachable == SafetySpec => []WaiterIsReachable
<1>1. Init => ReachInv
  BY ApprovalInit DEF Init, ReachInv, ListedFirst, AllReached
<1>2. ReachInv /\ [Next]_vars => ReachInv'
  <2> SUFFICES ASSUME ReachInv, [Next]_vars PROVE ReachInv'
    OBVIOUS
  <2>1. ApprovalInv'
    BY ApprovalStep DEF ReachInv
  <2>2. CASE UNCHANGED vars
    BY <2>1, <2>2 DEF vars, waiterVars, callVars, ReachInv, ListedFirst, AllReached, Reached,
                      Listed, Called, Rivalled
  <2> QED
    BY <2>1, <2>2, ReachRegister, ReachWait, ReachResolve DEF Next, ReachInv
<1>3. ReachInv => WaiterIsReachable
  BY DEF ReachInv, AllReached, Reached, Listed, WaiterIsReachable
<1> QED
  BY <1>1, <1>2, <1>3, PTL DEF SafetySpec
=============================================================================
