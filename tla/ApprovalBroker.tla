--------------------------- MODULE ApprovalBroker ---------------------------
(***************************************************************************)
(* Permission requests of agents and the decisions of users                *)
(* (runtime/approval.rs).  A backend task registers a request and waits; a *)
(* user of the web socket, the HTTP interface or a chat resolves it by its *)
(* identifier; a timer denies what nobody resolves.                        *)
(*                                                                         *)
(* The broker is two concurrent maps, each call on a map one step.  A      *)
(* waiter stands for one registration with its one-shot channel, a         *)
(* resolver for one call of resolve; the sizes of Waiter and Resolver      *)
(* bound how many there are.  Identifiers come from the agents             *)
(* (tool_call_id) and may be used again.  The two kinds of allowance are   *)
(* one.                                                                    *)
(***************************************************************************)
EXTENDS Naturals

CONSTANTS Id,        \* request identifiers
          Waiter,    \* bound: registrations
          Resolver,  \* bound: calls of resolve
          None

Decision == {"Allow", "Deny"}

ASSUME ApprovalAssumption == None \notin Id \cup Waiter \cup Decision

VARIABLES pc,        \* pc[w]: how far registration w has come
          id,        \* id[w]: what it asks for
          channel,   \* channel[w]: its one-shot channel
          answer,    \* answer[w]: what wait returned
          pending,   \* pending[i]: the waiter whose sender the map holds
          requests,  \* requests[i]: the waiter whose request the map holds
          call,      \* call[r]: how far resolver r has come
          target,    \* target[r]: the identifier it resolves
          decision,  \* decision[r]: the decision it brings
          taken      \* taken[r]: the waiter whose sender it took out of pending

waiterVars == <<pc, id, channel, answer>>
callVars   == <<call, target, decision, taken>>
vars       == <<waiterVars, pending, requests, callVars>>

Gone == {"answered", "abandoned"}   \* the receiver has been dropped

Init ==
    /\ pc = [w \in Waiter |-> "new"]
    /\ id = [w \in Waiter |-> None]
    /\ channel = [w \in Waiter |-> "open"]
    /\ answer = [w \in Waiter |-> None]
    /\ pending = [i \in Id |-> None]
    /\ requests = [i \in Id |-> None]
    /\ call = [r \in Resolver |-> "new"]
    /\ target = [r \in Resolver |-> None]
    /\ decision = [r \in Resolver |-> None]
    /\ taken = [r \in Resolver |-> None]

\* What becomes of a channel whose sender leaves pending[i] unused.
Drop(i) == [w \in Waiter |->
              IF w = pending[i] /\ channel[w] = "open" THEN "closed" ELSE channel[w]]
-----------------------------------------------------------------------------
(* register *)

\* An earlier request under the identifier is denied.
RemoveStale(w, i) ==
    /\ pc[w] = "new"
    /\ pc' = [pc EXCEPT ![w] = "inserting_request"]
    /\ id' = [id EXCEPT ![w] = i]
    /\ pending' = [pending EXCEPT ![i] = None]
    /\ channel' = [v \in Waiter |->
                     IF v = pending[i] /\ pc[v] \notin Gone THEN "Deny" ELSE channel[v]]
    /\ UNCHANGED <<answer, requests, callVars>>

InsertRequest(w) ==
    /\ pc[w] = "inserting_request"
    /\ pc' = [pc EXCEPT ![w] = "inserting_sender"]
    /\ requests' = [requests EXCEPT ![id[w]] = w]
    /\ UNCHANGED <<id, channel, answer, pending, callVars>>

InsertSender(w) ==
    /\ pc[w] = "inserting_sender"
    /\ pc' = [pc EXCEPT ![w] = "wait"]
    /\ channel' = Drop(id[w])
    /\ pending' = [pending EXCEPT ![id[w]] = w]
    /\ UNCHANGED <<id, answer, requests, callVars>>
-----------------------------------------------------------------------------
(* wait *)

Receive(w) ==
    /\ pc[w] = "wait"
    /\ channel[w] \in Decision
    /\ pc' = [pc EXCEPT ![w] = "answered"]
    /\ answer' = [answer EXCEPT ![w] = channel[w]]
    /\ UNCHANGED <<id, channel, pending, requests, callVars>>

ExpireClosed(w) ==   \* Faulty variant: no timer.
    /\ pc[w] = "wait"
    /\ channel[w] = "closed"
    /\ pc' = [pc EXCEPT ![w] = "clearing_sender"]
    /\ UNCHANGED <<id, channel, answer, pending, requests, callVars>>

\* The timer fires or the sender is gone; a decision in the channel goes first.
Expire(w) ==
    /\ pc[w] = "wait"
    /\ channel[w] \notin Decision
    /\ pc' = [pc EXCEPT ![w] = "clearing_sender"]
    /\ UNCHANGED <<id, channel, answer, pending, requests, callVars>>

ClearSenderNot(w) ==   \* Faulty variant: the sender stays.
    /\ pc[w] = "clearing_sender"
    /\ pc' = [pc EXCEPT ![w] = "clearing_request"]
    /\ UNCHANGED <<id, channel, answer, pending, requests, callVars>>

\* clear_if_pending goes by the identifier, whoever's sender and request it finds.
ClearSender(w) ==
    /\ pc[w] = "clearing_sender"
    /\ pc' = [pc EXCEPT ![w] = "clearing_request"]
    /\ channel' = Drop(id[w])
    /\ pending' = [pending EXCEPT ![id[w]] = None]
    /\ UNCHANGED <<id, answer, requests, callVars>>

ClearRequest(w) ==
    /\ pc[w] = "clearing_request"
    /\ pc' = [pc EXCEPT ![w] = "answered"]
    /\ answer' = [answer EXCEPT ![w] = "Deny"]
    /\ requests' = [requests EXCEPT ![id[w]] = None]
    /\ UNCHANGED <<id, channel, pending, callVars>>

\* The turn ends while its request is pending, for instance because nobody
\* listens to its events any more; nothing clears the maps.
Abandon(w) ==
    /\ pc[w] = "wait"
    /\ pc' = [pc EXCEPT ![w] = "abandoned"]
    /\ UNCHANGED <<id, channel, answer, pending, requests, callVars>>
-----------------------------------------------------------------------------
(* resolve *)

RemoveRequest(r, i, d) ==
    /\ call[r] = "new"
    /\ call' = [call EXCEPT ![r] = "taking"]
    /\ target' = [target EXCEPT ![r] = i]
    /\ decision' = [decision EXCEPT ![r] = d]
    /\ requests' = [requests EXCEPT ![i] = None]
    /\ UNCHANGED <<waiterVars, pending, taken>>

TakeSenderAny(r) ==   \* Faulty variant: a missing sender is not noticed.
    /\ call[r] = "taking"
    /\ taken' = [taken EXCEPT ![r] = pending[target[r]]]
    /\ call' = [call EXCEPT ![r] = "sending"]
    /\ pending' = [pending EXCEPT ![target[r]] = None]
    /\ UNCHANGED <<waiterVars, requests, target, decision>>

TakeSender(r) ==
    /\ call[r] = "taking"
    /\ LET i == target[r]
       IN  /\ taken' = [taken EXCEPT ![r] = pending[i]]
           /\ call' = [call EXCEPT ![r] = IF pending[i] = None THEN "refused" ELSE "sending"]
           /\ pending' = [pending EXCEPT ![i] = None]
    /\ UNCHANGED <<waiterVars, requests, target, decision>>

SendAllow(r) ==   \* Faulty variant: every decision is sent as an allowance.
    /\ call[r] = "sending"
    /\ LET w == taken[r]
       IN  IF pc[w] \in Gone
           THEN call' = [call EXCEPT ![r] = "refused"] /\ UNCHANGED channel
           ELSE /\ call' = [call EXCEPT ![r] = "resolved"]
                /\ channel' = [channel EXCEPT ![w] = "Allow"]
    /\ UNCHANGED <<pc, id, answer, pending, requests, target, decision, taken>>

SendByDrop(r) ==   \* Faulty variant: a denial is a sender that is dropped.
    /\ call[r] = "sending"
    /\ LET w == taken[r]
       IN  IF pc[w] \in Gone
           THEN call' = [call EXCEPT ![r] = "refused"] /\ UNCHANGED channel
           ELSE /\ call' = [call EXCEPT ![r] = "resolved"]
                /\ channel' = [channel EXCEPT ![w] = IF decision[r] = "Deny" THEN "closed"
                                                    ELSE decision[r]]
    /\ UNCHANGED <<pc, id, answer, pending, requests, target, decision, taken>>

Send(r) ==
    /\ call[r] = "sending"
    /\ LET w == taken[r]
       IN  IF pc[w] \in Gone
           THEN call' = [call EXCEPT ![r] = "refused"] /\ UNCHANGED channel
           ELSE /\ call' = [call EXCEPT ![r] = "resolved"]
                /\ channel' = [channel EXCEPT ![w] = decision[r]]
    /\ UNCHANGED <<pc, id, answer, pending, requests, target, decision, taken>>
-----------------------------------------------------------------------------
Register(w) == (\E i \in Id : RemoveStale(w, i)) \/ InsertRequest(w) \/ InsertSender(w)

Wait(w) == Receive(w) \/ Expire(w) \/ ClearSender(w) \/ ClearRequest(w)

Resolve(r) == \/ \E i \in Id, d \in Decision : RemoveRequest(r, i, d)
              \/ TakeSender(r)
              \/ Send(r)

Next == \/ \E w \in Waiter : Register(w) \/ Wait(w) \/ Abandon(w)
        \/ \E r \in Resolver : Resolve(r)

SafetySpec == Init /\ [][Next]_vars

\* A registration that began runs on, and every wait has a timer.
Spec == /\ SafetySpec
        /\ \A w \in Waiter : /\ WF_vars(InsertRequest(w) \/ InsertSender(w))
                             /\ WF_vars(Wait(w))
-----------------------------------------------------------------------------
Registering == {"inserting_request", "inserting_sender"}
Clearing    == {"clearing_sender", "clearing_request"}

\* Every value has its shape, a call holds a sender exactly from when it took
\* one, and a waiter knows its identifier exactly from when it registered.
ApprovalTypeOK ==
    /\ pc \in [Waiter -> {"new", "wait"} \cup Registering \cup Clearing \cup Gone]
    /\ id \in [Waiter -> Id \cup {None}]
    /\ channel \in [Waiter -> {"open", "closed"} \cup Decision]
    /\ answer \in [Waiter -> Decision \cup {None}]
    /\ pending \in [Id -> Waiter \cup {None}]
    /\ requests \in [Id -> Waiter \cup {None}]
    /\ call \in [Resolver -> {"new", "taking", "sending", "resolved", "refused"}]
    /\ target \in [Resolver -> Id \cup {None}]
    /\ decision \in [Resolver -> Decision \cup {None}]
    /\ taken \in [Resolver -> Waiter \cup {None}]
    /\ \A w \in Waiter : (id[w] = None) <=> (pc[w] = "new")
    /\ \A r \in Resolver : /\ call[r] # "new" => target[r] \in Id /\ decision[r] \in Decision
                           /\ call[r] \in {"new", "taking"} => taken[r] = None
                           /\ call[r] \in {"sending", "resolved"} => taken[r] # None

\* A sender is in the map under its own identifier or with one resolver, never
\* in both, not used before it is there and never twice, however registrations,
\* timers and resolvers of the same identifier cross; what the map holds has not
\* been answered.
OneSender ==
    /\ \A i \in Id : LET w == pending[i] IN
          w # None => /\ id[w] = i
                      /\ channel[w] = "open"
                      /\ pc[w] \in {"wait", "clearing_sender", "abandoned"}
                      /\ \A r \in Resolver : taken[r] # w
    /\ \A w \in Waiter : pc[w] \in {"new"} \cup Registering =>
          channel[w] = "open" /\ \A r \in Resolver : taken[r] # w
    /\ \A r, s \in Resolver : taken[r] # None /\ taken[r] = taken[s] => r = s

\* Fail closed (docs/runtime-backends.md): an agent is allowed to go on only if
\* a user allowed the identifier it asked for, with a call that answered no
\* other request, and that call was told so.
AllowedByUser ==
    \A w \in Waiter : answer[w] = "Allow" =>
        \E r \in Resolver : /\ taken[r] = w
                            /\ target[r] = id[w]
                            /\ decision[r] = "Allow"
                            /\ call[r] = "resolved"

\* Another registration or a call of resolve has used the identifier of w.
Rivalled(w) == \E v \in Waiter \ {w} : id[v] = id[w]
Called(w)   == \E r \in Resolver : target[r] = id[w]

\* Who waits can be answered: its decision is in its channel or on its way, or its
\* sender is in the map and, unless somebody used its identifier, its request among
\* those that users are shown.  Only a second registration under its identifier
\* takes its sender away, and then it knows.
WaiterIsReachable ==
    \A w \in Waiter : pc[w] = "wait" =>
        \/ channel[w] \in Decision
        \/ \E r \in Resolver : call[r] = "sending" /\ taken[r] = w
        \/ /\ pending[id[w]] = w
           /\ requests[id[w]] = w \/ Called(w) \/ Rivalled(w)
        \/ channel[w] = "closed" /\ Rivalled(w)

\* No indefinite hangs (docs/runtime-backends.md): who registers a request gets
\* an answer, whatever resolvers and other registrations do, unless its turn is
\* given up.
RequestIsAnswered ==
    \A w \in Waiter : pc[w] \in Registering \cup {"wait"} ~> pc[w] \in Gone
=============================================================================
