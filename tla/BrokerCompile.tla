---------------------------- MODULE BrokerCompile ----------------------------
(***************************************************************************)
(* unity_compiler_broker_compile_contract and its uncoalesced sibling      *)
(* (src/compiler/unity_compiler_broker.c), called by several threads while *)
(* the inputs are edited: the request key is formed under the protocol     *)
(* mutex, the compilation is shared through SingleFlight, the operation    *)
(* itself takes the protocol mutex again, and the key is formed once more  *)
(* before the result is accepted.                                          *)
(*                                                                         *)
(* Each critical section of the protocol mutex is one action; the channel  *)
(* behind it answers as CompileOracle promises, for the inputs of one      *)
(* instant of the section.                                                 *)
(***************************************************************************)
EXTENDS Naturals, FiniteSets

CONSTANTS
    Threads, Requests, Cells,
    MaxCalls,    \* bound: calls made
    MaxEdits,    \* bound: edits of the inputs
    None, Failure, NoKey, NoCell, NoValue

ASSUME BoundsAreNat == MaxCalls \in Nat /\ MaxEdits \in Nat
ASSUME ThreadsAreFinite == IsFiniteSet(Threads)
ASSUME NoCellIsNoCell == NoCell \notin Cells
ASSUME NoneIsNoRequest == None \notin Requests

Inputs == {"inputs"}
Contents == {0, 1}

VARIABLES
    edits,       \* edits so far; the inputs contain edits % 2
    stage,       \* where each thread is in the broker call
    req,         \* its request
    local,       \* result of the operation a thread ran as an owner
    reply,       \* what its last call returned, None when declined
    submitted, executed, coalesced,   \* broker counters
    unkeyed,     \* history: calls whose key could not be formed
    \* the table of SingleFlight and each thread's place in it
    entry, live, linked, fpc, key, at, call, calls, got, returned

broker == <<edits, stage, req, local, reply, submitted, executed, coalesced, unkeyed>>
flight == <<entry, live, linked, fpc, key, at, call, calls, got, returned>>
vars == <<edits, stage, req, local, reply, submitted, executed, coalesced, unkeyed,
          entry, live, linked, fpc, key, at, call, calls, got, returned>>

contents == [i \in Inputs |-> edits % 2]

(* What thread t's caller sees.                                            *)
Caller(t) == INSTANCE CompileOracle WITH
    DependsOn <- [r \in Requests |-> Inputs],
    asked <- IF stage[t] = "idle" THEN None ELSE req[t],
    decided <- None,
    reply <- reply[t]

Result(r) == [req |-> r, view |-> contents]
Digests == [req: Requests, view: [Inputs -> Contents]]

ASSUME FailuresAreNotResults == Failure \notin Digests /\ NoValue \notin Digests

Flight == INSTANCE SingleFlight WITH
    Keys <- Digests, Values <- Digests \cup {Failure}, pc <- fpc

Init ==
    /\ Flight!Init
    /\ edits = 0
    /\ stage = [t \in Threads |-> "idle"]
    /\ req \in [Threads -> Requests]
    /\ local = [t \in Threads |-> None]
    /\ reply = [t \in Threads |-> None]
    /\ submitted = 0 /\ executed = 0 /\ coalesced = 0 /\ unkeyed = 0

Goto(t, s) == stage' = [stage EXCEPT ![t] = s]
Answer(t, a) == reply' = [reply EXCEPT ![t] = a] /\ Goto(t, "idle")

-----------------------------------------------------------------------------
(* External: an input is edited.                                           *)
Edit ==
    /\ edits < MaxEdits
    /\ edits' = edits + 1
    /\ UNCHANGED <<stage, req, local, reply, submitted, executed, coalesced, unkeyed, flight>>

Submit(t, r) ==
    /\ stage[t] = "idle"
    /\ submitted < MaxCalls
    /\ submitted' = submitted + 1
    /\ req' = [req EXCEPT ![t] = r]
    /\ \/ Goto(t, "key")         \* compile_contract
       \/ Goto(t, "respond")     \* compile_contract_response
    /\ UNCHANGED <<edits, local, reply, executed, coalesced, unkeyed, flight>>

(* unity_compiler_broker_compile_contract_response: never coalesced.       *)
Respond(t) ==
    /\ stage[t] = "respond"
    /\ executed' = executed + 1
    /\ \E a \in {Result(req[t]), None} : Answer(t, a)
    /\ UNCHANGED <<edits, req, local, submitted, coalesced, unkeyed, flight>>

(* canonical_contract_compile_key, and the call of single flight.          *)
FormKey(t) ==
    /\ stage[t] = "key"
    /\ Flight!Start(t, Result(req[t]))
    /\ Goto(t, "flight")
    /\ UNCHANGED <<edits, req, local, reply, submitted, executed, coalesced, unkeyed>>

NoKeyFormed(t) ==
    /\ stage[t] = "key"
    /\ unkeyed' = unkeyed + 1
    /\ Answer(t, None)
    /\ UNCHANGED <<edits, req, local, submitted, executed, coalesced, flight>>

(* The thread moves inside usc_single_flight_execute.                      *)
InFlight(t) ==
    /\ stage[t] = "flight"
    /\ \/ Flight!EnterOwner(t) \/ Flight!EnterDirect(t) \/ Flight!EnterJoin(t)
       \/ Flight!Recheck(t)
    /\ UNCHANGED broker

SpuriousWake(t) ==
    /\ stage[t] = "flight"
    /\ Flight!SpuriousWake(t)
    /\ UNCHANGED broker

(* Fault: the response is not compared with the key of the flight.         *)
FaultyExecute(t) ==
    /\ stage[t] = "flight" /\ fpc[t] \in {"own", "direct"}
    /\ executed' = executed + 1
    /\ \E v \in {Result(req[t]), Failure} : local' = [local EXCEPT ![t] = v]
    /\ Goto(t, "executed")
    /\ UNCHANGED <<edits, req, reply, submitted, coalesced, unkeyed, flight>>

(* execute_contract_compile: a result made from other inputs than those of *)
(* the key is a failure.                                                   *)
Execute(t) ==
    /\ stage[t] = "flight" /\ fpc[t] \in {"own", "direct"}
    /\ executed' = executed + 1
    /\ \E v \in ({Result(req[t])} \cap {key[t]}) \cup {Failure} :
         local' = [local EXCEPT ![t] = v]
    /\ Goto(t, "executed")
    /\ UNCHANGED <<edits, req, reply, submitted, coalesced, unkeyed, flight>>

(* The operation returns to single flight.                                 *)
Complete(t) ==
    /\ stage[t] = "executed"
    /\ Flight!Complete(t, local[t]) \/ Flight!RunDirect(t, local[t])
    /\ Goto(t, "accept")
    /\ UNCHANGED <<edits, req, local, reply, submitted, executed, coalesced, unkeyed>>

Leave(t) ==
    /\ stage[t] = "flight"
    /\ Flight!Leave(t)
    /\ Goto(t, "accept")
    /\ UNCHANGED <<edits, req, local, reply, submitted, executed, coalesced, unkeyed>>

Free(t) ==
    /\ stage[t] = "accept"
    /\ Flight!Free(t)
    /\ UNCHANGED broker

Joined(t) == got[t].exec # call[t]

(* The key formed once more must be the key of the flight.                 *)
Accepted(t) == {got[t].value} \cap Digests \cap
               (IF Result(req[t]) = key[t] THEN Digests ELSE {})

(* Back from single flight: count, and accept the result or decline.       *)
Accept(t) ==
    /\ stage[t] = "accept" /\ fpc[t] = "idle"
    /\ coalesced' = IF Joined(t) THEN coalesced + 1 ELSE coalesced
    /\ \E a \in Accepted(t) \cup {None} : Answer(t, a)
    /\ UNCHANGED <<edits, req, local, submitted, executed, unkeyed, flight>>

-----------------------------------------------------------------------------
Step(t) ==
    \/ Respond(t) \/ FormKey(t) \/ NoKeyFormed(t) \/ InFlight(t)
    \/ Execute(t) \/ Complete(t) \/ Leave(t) \/ Free(t) \/ Accept(t)

Done ==
    /\ submitted = MaxCalls
    /\ \A t \in Threads : stage[t] = "idle"
    /\ UNCHANGED vars

Next ==
    \/ Edit \/ Done
    \/ \E t \in Threads :
         \/ \E r \in Requests : Submit(t, r)
         \/ SpuriousWake(t)
         \/ Step(t)

Spec == Init /\ [][Next]_vars

-----------------------------------------------------------------------------
(***************************************************************************)
(* However calls are coalesced and whoever ran the compiler, a caller gets *)
(* what a fresh compiler would answer for the inputs of one instant of its *)
(* own call, or nothing: a joiner that arrives late, at a flight that has  *)
(* completed from older inputs, included.                                  *)
(***************************************************************************)
CallersSeeOracle ==
    /\ \A t \in Threads : Caller(t)!Init
    /\ [][\A t \in Threads : [Caller(t)!Next]_(Caller(t)!vars)]_vars

=============================================================================
