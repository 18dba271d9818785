--------------------------- MODULE BrokerResidency ---------------------------
(***************************************************************************)
(* The source residency of a UnityCompilerBroker                           *)
(* (src/compiler/unity_compiler_broker.c): which sources the long-lived    *)
(* compiler process has been given, which ones the broker believes it was  *)
(* given, and when it recycles the process.                                *)
(*                                                                         *)
(* Every entry point does its work in one critical section of the protocol *)
(* mutex, which is one action here.  A call of the channel inside it has   *)
(* one of the endings of CompilerChannel.  The broker decides by its table *)
(* of source records (SourceTable); the sets beside it are the history the *)
(* table must agree with.                                                  *)
(***************************************************************************)
EXTENDS SourceTable

CONSTANTS
    Budgets,        \* source residency budgets a caller sets; 0 disables
    MaxProcesses,   \* bound: compiler processes started
    MaxFailures     \* bound: failed recordings

ASSUME BudgetsAreNat == Budgets \subseteq Nat
ASSUME ProcessBoundsAreNat == MaxProcesses \in Nat /\ MaxFailures \in Nat

NoProcess == 0

VARIABLES
    open,       \* the broker exists
    pid,        \* channel.process_id
    spawned,    \* history: processes started so far, the newest has this pid
    resident,   \* history: sources the live process was given
    window,     \* history: sources recorded since the window was cleared
    tab,        \* source_records and tracked_source_window_bytes
    budget,     \* source_residency_budget_bytes
    failures    \* source_tracking_failures

process == <<pid, spawned, resident>>
sources == <<window, tab>>
rvars == <<open, pid, spawned, resident, window, tab, budget, failures>>

ResidencyInit ==
    /\ open = FALSE
    /\ pid = NoProcess /\ spawned = 0 /\ resident = {}
    /\ window = {} /\ tab = EmptyTable
    /\ budget = 0 /\ failures = 0

-----------------------------------------------------------------------------
(***************************************************************************)
(* How a channel call can end, seen from the broker (CompilerChannel):     *)
(*   hit        answered from the cache                                    *)
(*   local      a typed result without a command: cache-only miss,         *)
(*              unavailable include authority, rejected valid_apis         *)
(*   error      failure before the command was sent                        *)
(*   served     the process took the source and answered                   *)
(*   broken     the process took the source; deadline or protocol error    *)
(*   withdrawn  it answered, but named a file no lease covers              *)
(* Before the command a stale process may have been stopped, and for a     *)
(* command that is sent a new one started.                                 *)
(***************************************************************************)
Endings == {"hit", "local", "error", "served", "broken", "withdrawn"}
Submits(e) == e \in {"served", "broken", "withdrawn"}

(* The process after the call: the old one, none, or a new one.            *)
AfterEnding(e) ==
    LET same == IF pid # NoProcess THEN {pid} ELSE {}
        fresh == IF spawned < MaxProcesses THEN {spawned + 1} ELSE {}
    IN CASE e \in {"hit", "local"} -> same \cup {NoProcess}
         [] e = "error" -> same \cup fresh \cup {NoProcess}
         [] e = "served" -> same \cup fresh
         [] OTHER -> {NoProcess}

(* The live process once source s (or none: the empty set) has been given  *)
(* to it or not.                                                           *)
ChannelCall(e, s, after) ==
    [pid |-> after,
     spawned |-> IF after > spawned THEN after ELSE spawned,
     resident |-> IF after = NoProcess THEN {}
                  ELSE (IF after = pid THEN resident ELSE {})
                       \cup (IF Submits(e) THEN s ELSE {})]

(* unity_compiler_broker_source_window_requires_recycle                    *)
RequiresRecycle(t) == budget # 0 /\ t.count > 1 /\ t.bytes > budget

(* The process is stopped, or goes on as p.                                *)
Settle(p) == pid' = p.pid /\ spawned' = p.spawned /\ resident' = p.resident
Stopped(p) == [p EXCEPT !.pid = NoProcess, !.resident = {}]

(* source_window_clear_locked, once or, when a recycle clears too, twice.  *)
ClearWindow(t) == window' = {} /\ tab' = Cleared(t)

ProcessChanged(p) == pid # p.pid

(***************************************************************************)
(* finish_protocol_transaction_locked: p is the process the channel left,  *)
(* s the source to record, if any.  A source that cannot be recorded costs *)
(* the process its life.                                                   *)
(***************************************************************************)
Finish(p, s) ==
    LET kept == IF ProcessChanged(p) THEN Cleared(tab) ELSE tab
        old == IF ProcessChanged(p) THEN {} ELSE window
    IN \E allocated \in BOOLEAN :
         LET rec == IF budget = 0 \/ s = {} THEN [ok |-> TRUE, tab |-> kept]
                    ELSE Recorded(kept, CHOOSE x \in s : TRUE, allocated)
             recycled == rec.ok /\ p.pid # NoProcess /\ RequiresRecycle(rec.tab)
         IN /\ rec.ok \/ failures < MaxFailures
            /\ rec.ok => allocated
            /\ failures' = IF rec.ok THEN failures ELSE failures + 1
            /\ Settle(IF ~rec.ok \/ recycled THEN Stopped(p) ELSE p)
            /\ IF ~rec.ok /\ p.pid # NoProcess THEN ClearWindow(Cleared(rec.tab))
               ELSE IF ~rec.ok \/ recycled THEN ClearWindow(rec.tab)
               ELSE /\ tab' = rec.tab
                    /\ window' = IF budget = 0 THEN old ELSE old \cup s

(* One transaction: the channel is called, and the source is recorded      *)
(* after the endings in "noted".                                           *)
Transaction(endings, s, noted) ==
    /\ open
    /\ \E call \in UNION {{<<ChannelCall(e, s, after), IF e \in noted THEN s ELSE {}>> :
                             after \in AfterEnding(e)} : e \in endings} :
         Finish(call[1], call[2])
    /\ UNCHANGED <<open, budget>>

(* preprocess, preprocess_contract, compile_contract (through              *)
(* execute_contract_compile), compile_response, compile and                *)
(* preprocess_expanded record their source whatever happened to it.        *)
RecordingRequest(s) == Transaction(Endings, {s}, Endings)

(* preprocess_contract_response and compile_contract_response know a       *)
(* cache hit.                                                              *)
ResponseRequest(s) == Transaction(Endings, {s}, Endings \ {"hit"})

(* Fault: the source of a compute request is never recorded.               *)
FaultyComputeRequest(s) ==
    Transaction(Endings \ {"hit"}, {s}, {})

(* compile_compute_response and preprocess_compute_response record what a  *)
(* process that still lives has taken; they are not cached.                *)
ComputeRequest(s) == Transaction(Endings \ {"hit"}, {s}, {"served"})

(* disassemble and capture_session_capabilities have no source.            *)
SourcelessRequest == Transaction(Endings \ {"hit"}, {}, {})

(* The serialize and provenance entry points and the two computations of   *)
(* the canonical key: they may stop a stale process, and do not finish a   *)
(* protocol transaction.                                                   *)
Identify ==
    /\ open
    /\ pid # NoProcess
    /\ Settle(Stopped([pid |-> pid, spawned |-> spawned, resident |-> resident]))
    /\ UNCHANGED <<open, sources, budget, failures>>

-----------------------------------------------------------------------------
(* unity_compiler_broker_create and its lazy variant.                      *)
Create ==
    /\ ~open
    /\ open' = TRUE
    /\ window' = {} /\ tab' = EmptyTable
    /\ budget' = 0 /\ failures' = 0
    /\ \/ UNCHANGED process
       \/ /\ spawned < MaxProcesses
          /\ Settle([pid |-> spawned + 1, spawned |-> spawned + 1, resident |-> {}])

(* unity_compiler_broker_destroy; nobody is inside any more.               *)
Destroy ==
    /\ open
    /\ open' = FALSE
    /\ pid' = NoProcess /\ resident' = {}
    /\ window' = {} /\ tab' = EmptyTable
    /\ budget' = 0 /\ failures' = 0
    /\ UNCHANGED spawned

(* unity_compiler_broker_recycle_process                                   *)
RecycleProcess ==
    /\ open
    /\ ClearWindow(tab)
    /\ pid' = NoProcess /\ resident' = {}
    /\ UNCHANGED <<open, spawned, budget, failures>>

(* unity_compiler_broker_set_source_residency_budget                       *)
SetBudget(b) ==
    /\ open /\ b # budget
    /\ ClearWindow(tab) /\ budget' = b
    /\ pid' = NoProcess /\ resident' = {}
    /\ UNCHANGED <<open, spawned, failures>>

ResidencyNext ==
    \/ Create \/ Destroy \/ RecycleProcess \/ Identify \/ SourcelessRequest
    \/ \E b \in Budgets : SetBudget(b)
    \/ \E s \in Sources :
         RecordingRequest(s) \/ ResponseRequest(s) \/ ComputeRequest(s)

ResidencySpec == ResidencyInit /\ [][ResidencyNext]_rvars

-----------------------------------------------------------------------------
(***************************************************************************)
(* With a budget set, the sources resident in the live compiler process    *)
(* are all in the broker's table, and they fit the budget unless there is  *)
(* only one of them ("one source larger than the budget is retained as an  *)
(* exclusive singleton"), however processes were stopped, replaced or      *)
(* lost.                                                                   *)
(***************************************************************************)
ResidencyBounded ==
    pid # NoProcess /\ budget # 0 =>
        /\ resident \subseteq Held(tab)
        /\ Cardinality(Held(tab)) <= 1 \/ Bytes(Held(tab)) <= budget

(***************************************************************************)
(* The table answers as a set would, over collisions, growth, stale slots  *)
(* of earlier windows and the wrap of the epoch: it holds exactly the      *)
(* sources recorded since the window was cleared, its count and byte count *)
(* are theirs, and a slot that is not in use remains for the probe loops,  *)
(* which have no other exit.                                               *)
(***************************************************************************)
TableIsWindow ==
    /\ Held(tab) = window
    /\ tab.count = Cardinality(window) /\ tab.bytes = Bytes(window)
    /\ \A s \in Sources : Found(tab, s) <=> s \in window
    /\ tab.capacity > 0 => \A s \in Sources : ProbeLength(tab, s) < tab.capacity
=============================================================================
