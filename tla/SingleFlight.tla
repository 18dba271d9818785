---------------------------- MODULE SingleFlight ----------------------------
(***************************************************************************)
(* src/compiler/unity_compiler_singleflight.c: one table of in-flight      *)
(* entries, shared by the threads of a process, that lets concurrent       *)
(* callers of usc_single_flight_execute with the same key share one run of *)
(* the operation.                                                          *)
(*                                                                         *)
(* Every critical section of the table's mutex is one action: none of them *)
(* blocks half-way except the condition wait, which is a state of its own  *)
(* (pc "wait").  The operation runs with the mutex released, so it spans   *)
(* the time between EnterOwner (or EnterDirect) and Complete (RunDirect).  *)
(***************************************************************************)
EXTENDS Naturals, FiniteSets

CONSTANTS
    Threads,    \* callers
    Keys,       \* request digests
    Cells,      \* heap cells an entry can be allocated in
    Values,     \* what the operation can return (bytes or an error text)
    NoKey, NoCell, NoValue,   \* absent key, entry pointer, payload
    MaxCalls    \* bound: execute calls made in one behaviour

ASSUME ThreadsFinite == IsFiniteSet(Threads)
ASSUME MaxCallsIsNat == MaxCalls \in Nat
ASSUME NoCellIsNotACell == NoCell \notin Cells

CallIds == 1..MaxCalls

(***************************************************************************)
(* What a call returns: the call whose operation produced it, the key that *)
(* operation ran for, and the payload (NoValue when the copy ran out of    *)
(* memory).                                                                *)
(***************************************************************************)
Outcomes == [exec: CallIds \cup {0}, key: Keys \cup {NoKey},
             value: Values \cup {NoValue}]
NoOutcome == [exec |-> 0, key |-> NoKey, value |-> NoValue]

(***************************************************************************)
(* SingleFlightEntry, without the list link: the list is the set "linked". *)
(***************************************************************************)
Entries == [key: Keys \cup {NoKey}, participants: Nat,
            completed: BOOLEAN, outcome: Outcomes]
FreedEntry == [key |-> NoKey, participants |-> 0,
               completed |-> FALSE, outcome |-> NoOutcome]

VARIABLES
    entry,      \* contents of every heap cell
    live,       \* cells that are allocated
    linked,     \* cells on the table's list
    pc,         \* where each thread is in usc_single_flight_execute
    key,        \* the key of the thread's call
    at,         \* the thread's local "entry" pointer
    call,       \* history: number of the thread's call
    calls,      \* history: calls started so far
    got,        \* history: what the thread's last call returned
    returned    \* history: calls that have returned

table == <<entry, live, linked>>
vars == <<entry, live, linked, pc, key, at, call, calls, got, returned>>

(* Threads between their first and their last critical section hold a      *)
(* counted reference to an entry.                                          *)
Participating == {"own", "wait", "recheck", "leave"}
PCs == {"idle", "enter", "direct", "free"} \cup Participating

Init ==
    /\ entry = [c \in Cells |-> FreedEntry]
    /\ live = {} /\ linked = {}
    /\ pc = [t \in Threads |-> "idle"]
    /\ key = [t \in Threads |-> NoKey]
    /\ at = [t \in Threads |-> NoCell]
    /\ call = [t \in Threads |-> 0]
    /\ calls = 0
    /\ got = [t \in Threads |-> NoOutcome]
    /\ returned = {}

-----------------------------------------------------------------------------
(* Faulty variants of the definitions that follow carry the prefix Faulty; *)
(* nothing uses them but the mutation runs of PROJECT.json.                *)

(* Fault: only a completed entry is found, so a second owner starts while  *)
(* the first one's operation still runs.                                   *)
FaultyFindCompleted(k) ==
    {c \in linked : entry[c].key = k /\ entry[c].completed}

(* Fault: the key comparison is dropped.                                   *)
FaultyFindAny(k) == linked

(* find_entry: the linked entries whose key matches.                       *)
FindEntry(k) == {c \in linked : entry[c].key = k}

(* copy_entry_result: the participant's own copy, or nothing but an error  *)
(* when an allocation fails.                                               *)
Copies(o) == {o, [o EXCEPT !.value = NoValue]}

(* The call of thread t returns o to its caller.                           *)
Return(t, o) ==
    /\ got' = [got EXCEPT ![t] = o]
    /\ returned' = returned \cup {call[t]}

(* A thread enters usc_single_flight_execute and asks for the mutex.       *)
Start(t, k) ==
    /\ pc[t] = "idle"
    /\ calls < MaxCalls
    /\ calls' = calls + 1
    /\ call' = [call EXCEPT ![t] = calls + 1]
    /\ key' = [key EXCEPT ![t] = k]
    /\ pc' = [pc EXCEPT ![t] = "enter"]
    /\ UNCHANGED <<table, at, got, returned>>

(* No entry for the key: the caller allocates and links one, and owns it.  *)
EnterOwner(t) ==
    /\ pc[t] = "enter"
    /\ FindEntry(key[t]) = {}
    /\ \E c \in Cells \ live :
         /\ live' = live \cup {c}
         /\ linked' = linked \cup {c}
         /\ entry' = [entry EXCEPT ![c] =
                        [key |-> key[t], participants |-> 1,
                         completed |-> FALSE, outcome |-> NoOutcome]]
         /\ at' = [at EXCEPT ![t] = c]
    /\ pc' = [pc EXCEPT ![t] = "own"]
    /\ UNCHANGED <<key, call, calls, got, returned>>

(* No entry and no memory for one: the operation will run uncoalesced.     *)
EnterDirect(t) ==
    /\ pc[t] = "enter"
    /\ FindEntry(key[t]) = {}
    /\ pc' = [pc EXCEPT ![t] = "direct"]
    /\ UNCHANGED <<table, key, at, call, calls, got, returned>>

(* An entry exists: join it, and sleep unless it has completed already.    *)
EnterJoin(t) ==
    /\ pc[t] = "enter"
    /\ \E c \in FindEntry(key[t]) :
         /\ entry' = [entry EXCEPT ![c].participants = @ + 1]
         /\ at' = [at EXCEPT ![t] = c]
         /\ pc' = [pc EXCEPT ![t] =
                     IF entry[c].completed THEN "leave" ELSE "wait"]
    /\ UNCHANGED <<live, linked, key, call, calls, got, returned>>

(* pthread_cond_wait may return without a broadcast.                       *)
SpuriousWake(t) ==
    /\ pc[t] = "wait"
    /\ pc' = [pc EXCEPT ![t] = "recheck"]
    /\ UNCHANGED <<table, key, at, call, calls, got, returned>>

(* A woken joiner has the mutex again and re-tests the loop condition.     *)
Recheck(t) ==
    /\ pc[t] = "recheck"
    /\ pc' = [pc EXCEPT ![t] =
                IF entry[at[t]].completed THEN "leave" ELSE "wait"]
    /\ UNCHANGED <<table, key, at, call, calls, got, returned>>

(* The uncoalesced operation returns v straight to the caller.             *)
RunDirect(t, v) ==
    /\ pc[t] = "direct"
    /\ Return(t, [exec |-> call[t], key |-> key[t], value |-> v])
    /\ pc' = [pc EXCEPT ![t] = "idle"]
    /\ UNCHANGED <<table, key, at, call, calls>>

(* Fault: off by one in the last-participant test.                         *)
FaultyIsLast(e) == e.participants <= 2

(***************************************************************************)
(* The common tail: with the entry's contents e just before it, drop the   *)
(* caller's reference and unlink the entry when it was the last one.       *)
(***************************************************************************)
IsLast(e) == e.participants = 1

ReleaseEntry(c, e) ==
    /\ entry' = [entry EXCEPT ![c] = [e EXCEPT !.participants = @ - 1]]
    /\ linked' = IF IsLast(e) THEN linked \ {c} ELSE linked

AfterRelease(e) == IF IsLast(e) THEN "free" ELSE "idle"

(* Fault: no broadcast.                                                    *)
FaultyBroadcast(c, p) == p

(* pthread_cond_broadcast: every thread asleep on the entry wakes up.      *)
Broadcast(c, p) ==
    [u \in Threads |-> IF p[u] = "wait" /\ at[u] = c THEN "recheck" ELSE p[u]]

(* The owner's operation has returned v: publish it, wake the joiners and, *)
(* in the same critical section, take the owner's own copy and leave.      *)
Complete(t, v) ==
    /\ pc[t] = "own"
    /\ LET c == at[t]
           o == [exec |-> call[t], key |-> key[t], value |-> v]
           e == [entry[c] EXCEPT !.outcome = o, !.completed = TRUE]
       IN /\ ReleaseEntry(c, e)
          /\ pc' = Broadcast(c, [pc EXCEPT ![t] = AfterRelease(e)])
          /\ \E r \in Copies(o) : Return(t, r)
    /\ UNCHANGED <<live, key, at, call, calls>>

(* Fault: the first joiner to leave takes the payload instead of copying.  *)
FaultyLeaveTakes(t) ==
    /\ pc[t] = "leave"
    /\ LET c == at[t]
           e == entry[c]
       IN /\ ReleaseEntry(c, [e EXCEPT !.outcome.value = NoValue])
          /\ pc' = [pc EXCEPT ![t] = AfterRelease(e)]
          /\ Return(t, e.outcome)
    /\ UNCHANGED <<live, key, at, call, calls>>

(* A joiner takes the mutex a second time, copies the result and leaves.   *)
Leave(t) ==
    /\ pc[t] = "leave"
    /\ LET c == at[t]
           e == entry[c]
       IN /\ ReleaseEntry(c, e)
          /\ pc' = [pc EXCEPT ![t] = AfterRelease(e)]
          /\ \E r \in Copies(e.outcome) : Return(t, r)
    /\ UNCHANGED <<live, key, at, call, calls>>

(* destroy_entry, after the mutex has been released.                       *)
Free(t) ==
    /\ pc[t] = "free"
    /\ live' = live \ {at[t]}
    /\ entry' = [entry EXCEPT ![at[t]] = FreedEntry]
    /\ pc' = [pc EXCEPT ![t] = "idle"]
    /\ UNCHANGED <<linked, key, at, call, calls, got, returned>>

-----------------------------------------------------------------------------
Step(t) ==
    \/ EnterOwner(t) \/ EnterDirect(t) \/ EnterJoin(t)
    \/ Recheck(t) \/ Leave(t) \/ Free(t)
    \/ \E v \in Values : RunDirect(t, v) \/ Complete(t, v)

Done == calls = MaxCalls /\ \A t \in Threads : pc[t] = "idle"

Next ==
    \/ \E t \in Threads :
         \/ \E k \in Keys : Start(t, k)
         \/ SpuriousWake(t)
         \/ Step(t)
    \/ Done /\ UNCHANGED vars

(* A thread that can proceed does; an operation always ends, because the   *)
(* compiler exchange behind it has a deadline.  Nothing promises new calls *)
(* or spurious wake-ups.                                                   *)
Fairness == \A t \in Threads : WF_vars(Step(t))

Spec == Init /\ [][Next]_vars /\ Fairness

-----------------------------------------------------------------------------
(* usc_single_flight_participant_count.                                    *)
ParticipantCount(k) ==
    IF FindEntry(k) = {} THEN 0
    ELSE entry[CHOOSE c \in FindEntry(k) : TRUE].participants

Participants(c) == {t \in Threads : pc[t] \in Participating /\ at[t] = c}

(* Every variable stays in its domain.                                     *)
TypeOK ==
    /\ entry \in [Cells -> Entries]
    /\ live \subseteq Cells /\ linked \subseteq Cells
    /\ pc \in [Threads -> PCs]
    /\ key \in [Threads -> Keys \cup {NoKey}]
    /\ at \in [Threads -> Cells \cup {NoCell}]
    /\ call \in [Threads -> CallIds \cup {0}]
    /\ calls \in CallIds \cup {0}
    /\ got \in [Threads -> Outcomes]
    /\ returned \subseteq CallIds

(***************************************************************************)
(* At most one coalesced operation per key runs at a time: whatever the    *)
(* interleaving of owners, joiners and late leavers, two owners never hold *)
(* the same key (usc_single_flight_execute lines 122-146).                 *)
(***************************************************************************)
OneExecutionPerKey ==
    \A t, u \in Threads :
        pc[t] = "own" /\ pc[u] = "own" /\ key[t] = key[u] => t = u

(***************************************************************************)
(* No thread touches a freed entry: an entry some caller still points at,  *)
(* and every entry on the list, is allocated, although destroy_entry runs  *)
(* after the mutex has been released (lines 164-169).                      *)
(***************************************************************************)
NoUseAfterFree ==
    /\ \A t \in Threads : pc[t] \in Participating => at[t] \in live
    /\ linked \subseteq live

(***************************************************************************)
(* participant_count is exactly the number of callers that still have to   *)
(* leave, so "last participant" is decided once and by the right caller;   *)
(* it is what usc_single_flight_participant_count reports.                 *)
(***************************************************************************)
CountsExact ==
    /\ \A c \in linked :
         entry[c].participants = Cardinality(Participants(c))
    /\ \A k \in Keys :
         ParticipantCount(k) =
           Cardinality({t \in Threads : pc[t] \in Participating /\ key[t] = k})

(***************************************************************************)
(* A caller only ever receives the outcome of an operation that ran for    *)
(* its own key, and never an entry's blank result.                         *)
(***************************************************************************)
OutcomeForMyKey ==
    \A t \in Threads :
        call[t] \in returned => got[t].key = key[t] /\ got[t].exec # 0

(***************************************************************************)
(* Completed entries are not a cache: when nobody is inside                *)
(* usc_single_flight_execute, no entry is allocated any more (so destroy,  *)
(* which requires that nobody is inside, finds an empty list).             *)
(***************************************************************************)
NothingRetained ==
    (\A t \in Threads : pc[t] \in {"idle", "enter", "direct"}) => live = {}

(***************************************************************************)
(* What a completed entry holds does not change until it is freed, so all  *)
(* participants of a flight copy the same result.                          *)
(***************************************************************************)
ResultStable ==
    [][\A c \in Cells :
         c \in live /\ entry[c].completed /\ c \in live' =>
           entry[c]'.completed /\ entry[c]'.outcome = entry[c].outcome]_vars

(***************************************************************************)
(* Every call returns: no joiner sleeps through its flight's completion.   *)
(***************************************************************************)
EveryCallReturns ==
    \A t \in Threads : pc[t] # "idle" ~> pc[t] = "idle"
=============================================================================
