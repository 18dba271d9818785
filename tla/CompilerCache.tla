---------------------------- MODULE CompilerCache ----------------------------
(***************************************************************************)
(* The publication protocol of src/compiler/unity_compiler_cache.c: one    *)
(* shard directory of the persistent compiler cache, shared by the threads *)
(* of several processes.  usc_cache_store writes a complete temporary file *)
(* and then, under a mutex of the process and an advisory lock on the      *)
(* shard's .publish.lock file, inspects the entry and links, accepts,      *)
(* rejects or repairs it; usc_cache_load reads without any lock.           *)
(*                                                                         *)
(* A system call is one step.  Reading a file counts as the moment it was  *)
(* opened: the descriptor pins the inode, and a linked inode is never      *)
(* written again.                                                          *)
(***************************************************************************)
EXTENDS Naturals, FiniteSets

CONSTANTS
    Procs, Threads,  \* processes and the threads that call the cache
    Deployments,     \* which thread runs in which process: [Threads -> Procs]
    Digests,         \* request digests that fall into this shard
    Payloads,        \* encoded compiler responses
    Nobody,          \* no lock holder
    Attempts,        \* publication attempts per store (8 in the code)
    MaxStores,       \* bound: store calls in one behaviour
    MaxFaults        \* bound: crashes, damaged entries and failing reads of an entry

ASSUME DeploymentsTyped == Deployments \subseteq [Threads -> Procs]
ASSUME BoundsAreNat == Attempts \in Nat \ {0} /\ MaxStores \in Nat /\ MaxFaults \in Nat
ASSUME NobodyIsNobody == Nobody \notin Procs \cup Threads

(* What a directory entry can hold: nothing, a file that fails the header, *)
(* size or payload-digest checks, or a complete entry with a payload.      *)
Absent == [state |-> "absent"]
Corrupt == [state |-> "corrupt"]
Complete(p) == [state |-> "complete", payload |-> p]
VARIABLES
    procOf,     \* the deployment
    entry,      \* entry file of each digest
    temp,       \* temporary file of each thread's store
    lockFile,   \* process that holds the POSIX lock on .publish.lock
    mutex,      \* thread that holds g_cache_publish_mutex, per process
    pc, req,    \* where each store is, and its <<digest, payload>>
    seen,       \* result of the store's last inspection; "unreadable" is "corrupt"
                \* reported because the entry could not be read
    tries,      \* publication attempts made
    ok,         \* the store's return value so far
    hit,        \* history: what the last hit on a digest returned since it was lost
    stores, faults,  \* bounded counters
    accepted    \* history: payloads a store accepted since the entry was lost

fs == <<entry, temp>>
locks == <<lockFile, mutex>>
vars == <<procOf, fs, locks, pc, req, seen, tries, ok, hit, stores, faults, accepted>>

(* A thread in these states has set process_locked.                        *)
Critical == {"inspect", "act", "unlock"}
digest(t) == req[t][1]
payload(t) == req[t][2]
proc(t) == procOf[t]

Requests == Digests \X Payloads
AnyRequest == CHOOSE r \in Requests : TRUE

Init ==
    /\ procOf \in Deployments
    /\ entry \in [Digests -> {Absent, Corrupt}]
    /\ temp = [t \in Threads |-> Absent]
    /\ lockFile = Nobody /\ mutex = [p \in Procs |-> Nobody]
    /\ pc = [t \in Threads |-> "idle"]
    /\ req = [t \in Threads |-> AnyRequest]
    /\ seen = [t \in Threads |-> "missing"]
    /\ tries = [t \in Threads |-> 0]
    /\ ok = [t \in Threads |-> FALSE]
    /\ hit = [d \in Digests |-> Absent]
    /\ stores = 0 /\ faults = 0
    /\ accepted = [d \in Digests |-> {}]

Goto(t, l) == pc' = [pc EXCEPT ![t] = l]

-----------------------------------------------------------------------------
(* External: POSIX record locks.  They belong to the process, not to the   *)
(* descriptor: a process never waits for itself, and unlocking through, or *)
(* merely closing, any descriptor of the file drops the process's lock.    *)
CanLockFile(p) == lockFile \in {Nobody, p}
DropFileLock(p) == lockFile' = IF lockFile = p THEN Nobody ELSE lockFile

(* Fault: the payloads are not compared.                                   *)
FaultyInspection(d, p) ==
    CASE entry[d] = Absent -> "missing"
      [] entry[d] = Corrupt -> "corrupt"
      [] OTHER -> "identical"

(* inspect_cache_entry: compare what is on disk with the payload to store. *)
(* That is what it finds when it can read the file, see Inspect.           *)
Inspection(d, p) ==
    CASE entry[d] = Absent -> "missing"
      [] entry[d] = Corrupt -> "corrupt"
      [] entry[d] = Complete(p) -> "identical"
      [] OTHER -> "different"

-----------------------------------------------------------------------------
(* usc_cache_load: a complete entry of this digest is a hit; anything else *)
(* is a miss, which leaves no trace.                                       *)
Load(d) ==
    /\ entry[d].state = "complete"
    /\ hit' = [hit EXCEPT ![d] = entry[d]]
    /\ UNCHANGED <<procOf, fs, locks, pc, req, seen, tries, ok, stores, faults, accepted>>

(* usc_cache_store is called with payload p for digest d.                  *)
BeginStore(t, d, p) ==
    /\ pc[t] = "idle" /\ stores < MaxStores
    /\ stores' = stores + 1
    /\ req' = [req EXCEPT ![t] = <<d, p>>]
    /\ seen' = [seen EXCEPT ![t] = "missing"]
    /\ tries' = [tries EXCEPT ![t] = 0]
    /\ ok' = [ok EXCEPT ![t] = FALSE]
    /\ Goto(t, "temp")
    /\ UNCHANGED <<procOf, fs, locks, hit, faults, accepted>>

(* Fault: an error while writing does not stop the store.                  *)
FaultyWriteTemp(t) ==
    /\ pc[t] = "temp"
    /\ \E file \in {Complete(payload(t)), Corrupt} :
         temp' = [temp EXCEPT ![t] = file]
    /\ Goto(t, "openlock")
    /\ UNCHANGED <<procOf, entry, locks, req, seen, tries, ok, hit, stores,
                   faults, accepted>>

(* The temporary file is written, synced and closed; an error in between   *)
(* leaves a partial file, or none, and the call goes straight to clean-up. *)
WriteTemp(t) ==
    /\ pc[t] = "temp"
    /\ \E file \in {Complete(payload(t)), Corrupt, Absent} :
         /\ temp' = [temp EXCEPT ![t] = file]
         /\ Goto(t, IF file = Complete(payload(t)) THEN "openlock" ELSE "cleanup")
    /\ UNCHANGED <<procOf, entry, locks, req, seen, tries, ok, hit, stores,
                   faults, accepted>>

(* The lock file is opened before the mutex is taken.                      *)
OpenLock(t) ==
    /\ pc[t] = "openlock"
    /\ Goto(t, "mutex") \/ Goto(t, "cleanup")
    /\ UNCHANGED <<procOf, fs, locks, req, seen, tries, ok, hit, stores, faults, accepted>>

(* pthread_mutex_lock(&g_cache_publish_mutex).                             *)
LockMutex(t) ==
    /\ pc[t] = "mutex"
    /\ mutex[proc(t)] = Nobody
    /\ mutex' = [mutex EXCEPT ![proc(t)] = t]
    /\ Goto(t, "lock")
    /\ UNCHANGED <<procOf, fs, lockFile, req, seen, tries, ok, hit, stores, faults, accepted>>

(* Fault: the mutex is kept when the file lock cannot be taken.            *)
FaultyLockFile(t) ==
    /\ pc[t] = "lock"
    /\ \/ /\ CanLockFile(proc(t))
          /\ lockFile' = proc(t)
          /\ Goto(t, "inspect")
       \/ /\ lockFile' = lockFile
          /\ Goto(t, "close")
    /\ UNCHANGED <<procOf, fs, mutex, req, seen, tries, ok, hit, stores, faults, accepted>>

(* set_publish_lock(F_WRLCK) waits for other processes, or fails.          *)
LockFile(t) ==
    /\ pc[t] = "lock"
    /\ \/ /\ CanLockFile(proc(t))
          /\ lockFile' = proc(t)
          /\ Goto(t, "inspect")
       \/ /\ lockFile' = lockFile
          /\ Goto(t, "unmutex")
    /\ UNCHANGED <<procOf, fs, mutex, req, seen, tries, ok, hit, stores, faults, accepted>>

(* History: the store has found its payload in place, or put it there.     *)
RecordAccepted(t) ==
    accepted' = [accepted EXCEPT ![digest(t)] = @ \cup {payload(t)}]

(* History: the entry is gone, and with it what was said of it.            *)
Lose(d) ==
    /\ accepted' = [accepted EXCEPT ![d] = {}]
    /\ hit' = [hit EXCEPT ![d] = Absent]

(* One turn of the publication loop: inspect, or give up after the last    *)
(* attempt or when the entry cannot be opened.  An entry that was opened   *)
(* and cannot be read, because fstat or read failed, is reported corrupt   *)
(* whatever it holds.                                                      *)
Inspect(t) ==
    /\ pc[t] = "inspect"
    /\ \/ /\ tries[t] < Attempts
          /\ tries' = [tries EXCEPT ![t] = @ + 1]
          /\ seen' = [seen EXCEPT ![t] = Inspection(digest(t), payload(t))]
          /\ IF seen'[t] = "identical" THEN RecordAccepted(t) ELSE accepted' = accepted
          /\ Goto(t, "act")
          /\ faults' = faults
       \/ /\ tries[t] < Attempts
          /\ faults < MaxFaults /\ faults' = faults + 1
          /\ entry[digest(t)] # Absent
          /\ tries' = [tries EXCEPT ![t] = @ + 1]
          /\ seen' = [seen EXCEPT ![t] = "unreadable"]
          /\ accepted' = accepted
          /\ Goto(t, "act")
       \/ /\ UNCHANGED <<tries, seen, accepted, faults>>
          /\ Goto(t, "unlock")
    /\ UNCHANGED <<procOf, fs, locks, req, ok, hit, stores>>

(* The entry already holds the payload: accept it.                         *)
AcceptIdentical(t) ==
    /\ pc[t] = "act" /\ seen[t] = "identical"
    /\ ok' = [ok EXCEPT ![t] = TRUE]
    /\ Goto(t, "unlock")
    /\ UNCHANGED <<procOf, fs, locks, req, seen, tries, hit, stores, faults, accepted>>

(* Fault: a different payload is treated like a damaged entry.             *)
FaultyReplaceDifferent(t) ==
    /\ pc[t] = "act" /\ seen[t] = "different"
    /\ entry' = [entry EXCEPT ![digest(t)] = Absent]
    /\ Goto(t, "inspect")
    /\ UNCHANGED <<procOf, temp, locks, req, seen, tries, ok, hit, stores,
                   faults, accepted>>

(* The entry holds another payload: reject the store.                      *)
RejectDifferent(t) ==
    /\ pc[t] = "act" /\ seen[t] = "different"
    /\ Goto(t, "unlock")
    /\ UNCHANGED <<procOf, fs, locks, req, seen, tries, ok, hit, stores, faults, accepted>>

(* The entry was judged corrupt: unlink whatever has that name now, then   *)
(* look again; unlink may fail for good.  An entry that could only not be  *)
(* read is lost here although it may be complete.                          *)
RepairCorrupt(t) ==
    /\ pc[t] = "act" /\ seen[t] \in {"corrupt", "unreadable"}
    /\ \/ /\ entry' = [entry EXCEPT ![digest(t)] = Absent]
          /\ IF seen[t] = "unreadable" THEN Lose(digest(t)) ELSE UNCHANGED <<hit, accepted>>
          /\ Goto(t, "inspect")
       \/ /\ UNCHANGED <<entry, hit, accepted>>
          /\ Goto(t, "unlock")
    /\ UNCHANGED <<procOf, temp, locks, req, seen, tries, ok, stores, faults>>

(* The entry was missing: link the temporary file to it.  EEXIST means     *)
(* somebody else was faster, so look again; other errors give up.          *)
PublishMissing(t) ==
    /\ pc[t] = "act" /\ seen[t] = "missing"
    /\ \/ /\ entry[digest(t)] = Absent
          /\ entry' = [entry EXCEPT ![digest(t)] = temp[t]]
          /\ ok' = [ok EXCEPT ![t] = TRUE] /\ RecordAccepted(t)
          /\ Goto(t, "unlock")
       \/ /\ entry[digest(t)] # Absent
          /\ UNCHANGED <<entry, ok, accepted>>
          /\ Goto(t, "inspect")
       \/ /\ UNCHANGED <<entry, ok, accepted>>
          /\ Goto(t, "unlock")
    /\ UNCHANGED <<procOf, temp, locks, req, seen, tries, hit, stores, faults>>

UnlockFile(t) ==
    /\ pc[t] = "unlock"
    /\ DropFileLock(proc(t))
    /\ Goto(t, "unmutex")
    /\ UNCHANGED <<procOf, fs, mutex, req, seen, tries, ok, hit, stores, faults, accepted>>

UnlockMutex(t) ==
    /\ pc[t] = "unmutex"
    /\ mutex' = [mutex EXCEPT ![proc(t)] = Nobody]
    /\ Goto(t, "close")
    /\ UNCHANGED <<procOf, fs, lockFile, req, seen, tries, ok, hit, stores, faults, accepted>>

(* close(lock_fd), after the mutex has been released.                      *)
CloseLock(t) ==
    /\ pc[t] = "close"
    /\ DropFileLock(proc(t))
    /\ Goto(t, "cleanup")
    /\ UNCHANGED <<procOf, fs, mutex, req, seen, tries, ok, hit, stores, faults, accepted>>

(* The temporary name goes away whatever happened, and the call returns.   *)
Cleanup(t) ==
    /\ pc[t] = "cleanup"
    /\ temp' = [temp EXCEPT ![t] = Absent]
    /\ Goto(t, "idle")
    /\ UNCHANGED <<procOf, entry, locks, req, seen, tries, ok, hit, stores,
                   faults, accepted>>

(* External: a process dies.  The kernel drops its locks; its temporary    *)
(* files stay under names nobody opens again.  A new process may take its  *)
(* place.                                                                  *)
Crash(p) ==
    LET mine == {t \in Threads : procOf[t] = p}
    IN /\ faults < MaxFaults
       /\ \E t \in mine : pc[t] # "idle"
       /\ faults' = faults + 1
       /\ temp' = [t \in Threads |-> IF t \in mine THEN Absent ELSE temp[t]]
       /\ mutex' = [mutex EXCEPT ![p] = Nobody]
       /\ DropFileLock(p)
       /\ pc' = [t \in Threads |-> IF t \in mine THEN "idle" ELSE pc[t]]
       /\ UNCHANGED <<procOf, entry, req, seen, tries, ok, hit, stores, accepted>>

(* External: the stored file is damaged.                                   *)
Damage(d) ==
    /\ faults < MaxFaults
    /\ entry[d].state = "complete"
    /\ faults' = faults + 1
    /\ entry' = [entry EXCEPT ![d] = Corrupt]
    /\ Lose(d)
    /\ UNCHANGED <<procOf, temp, locks, pc, req, seen, tries, ok, stores>>

-----------------------------------------------------------------------------
StoreStep(t) ==
    \/ WriteTemp(t) \/ OpenLock(t) \/ LockMutex(t) \/ LockFile(t)
    \/ Inspect(t)
    \/ AcceptIdentical(t) \/ RejectDifferent(t) \/ RepairCorrupt(t) \/ PublishMissing(t)
    \/ UnlockFile(t) \/ UnlockMutex(t) \/ CloseLock(t) \/ Cleanup(t)

Done == stores = MaxStores /\ \A t \in Threads : pc[t] = "idle"

Next ==
    \/ \E t \in Threads :
         StoreStep(t) \/ \E d \in Digests, p \in Payloads : BeginStore(t, d, p)
    \/ \E d \in Digests : Load(d) \/ Damage(d)
    \/ \E p \in Procs : Crash(p)
    \/ Done /\ UNCHANGED vars

(* A store that can take its next system call eventually does.  Stores are *)
(* finitely many here, so no claim is made about starvation under an       *)
(* endless stream of competitors, which neither lock promises to prevent.  *)
Fairness == \A t \in Threads : WF_vars(StoreStep(t))

Spec == Init /\ [][Next]_vars /\ Fairness

-----------------------------------------------------------------------------
(***************************************************************************)
(* A store that returned success left its payload published: until the     *)
(* file is damaged from outside, or a later store cannot read it and       *)
(* unlinks it, all successful stores of a digest agree with what a load    *)
(* finds.                                                                  *)
(***************************************************************************)
AcceptedIsPublished ==
    \A d \in Digests : \A p \in accepted[d] : entry[d] = Complete(p)

(***************************************************************************)
(* "rejects a different valid payload for the same request digest": no     *)
(* step of the program removes or replaces a complete entry; only damage   *)
(* from outside does (unity_compiler_cache.h, usc_cache_store).            *)
(***************************************************************************)
PublishedNeverReplaced ==
    [][\A d \in Digests :
         entry[d].state = "complete" => entry'[d] \in {entry[d], Corrupt}]_vars

(***************************************************************************)
(* The part of that promise which the locks can keep: the only step of the *)
(* program that removes a complete entry is the unlink of a store whose    *)
(* own inspection opened that entry and failed to read it.                 *)
(***************************************************************************)
OnlyUnreadableReplaced ==
    [][\A d \in Digests :
         entry[d].state = "complete" =>
             \/ entry'[d] \in {entry[d], Corrupt}
             \/ \E t \in Threads :
                  /\ pc[t] = "act" /\ seen[t] = "unreadable" /\ digest(t) = d
                  /\ entry'[d] = Absent]_vars

(***************************************************************************)
(* Two hits on a digest return the same payload, unless in between the     *)
(* file was damaged or a store that could not read it unlinked it: a       *)
(* reader without a lock never sees one response turn into another.        *)
(***************************************************************************)
HitsAgree ==
    [][\A d \in Digests :
         hit[d] # Absent => hit'[d] \in {hit[d], Absent}]_vars

(***************************************************************************)
(* Readers take no lock, so an entry name must never show a file that is   *)
(* still being written: only damage from outside makes an entry corrupt.   *)
(***************************************************************************)
NoPartialEntry ==
    [][\A d \in Digests :
         entry'[d] = Corrupt /\ entry[d] # Corrupt => faults' = faults + 1]_vars

(***************************************************************************)
(* Every store call returns (or dies with its process): the mutex and the  *)
(* file lock are taken in one order and given back on every path.          *)
(***************************************************************************)
EveryStoreReturns ==
    \A t \in Threads : pc[t] # "idle" ~> pc[t] = "idle"
=============================================================================
