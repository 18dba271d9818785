------------------------- MODULE CompilerCacheProofs -------------------------
(***************************************************************************)
(* Theorems about the publication protocol, for any number of processes,   *)
(* threads, digests, payloads, stores and faults.                          *)
(*                                                                         *)
(* That no partial file is ever visible needs no lock at all: a temporary  *)
(* file is complete before it can be linked.  That nothing published is    *)
(* replaced by a store that could read it rests on mutual exclusion        *)
(* between an inspection and the unlink it leads to, which the two locks   *)
(* provide when each process has one publishing thread or there is only    *)
(* one process.                                                            *)
(***************************************************************************)
EXTENDS CompilerCache, TLAPS

(* What an entry or a temporary file can be.                               *)
Files == {Absent, Corrupt} \cup {Complete(p) : p \in Payloads}
(* The stages of a store.                                                  *)
Stages == {"idle", "temp", "openlock", "mutex", "lock", "inspect", "act", "unlock",
           "unmutex", "close", "cleanup"}
(* What an inspection can find.                                            *)
Outcomes == {"missing", "corrupt", "unreadable", "identical", "different"}

(* The types the argument needs; a thread that never stored has no         *)
(* request.                                                                *)
Typed ==
    /\ procOf \in Deployments
    /\ entry \in [Digests -> Files] /\ temp \in [Threads -> Files]
    /\ lockFile \in Procs \cup {Nobody} /\ mutex \in [Procs -> Threads \cup {Nobody}]
    /\ pc \in [Threads -> Stages] /\ seen \in [Threads -> Outcomes]
    /\ DOMAIN req = Threads /\ req = [t \in Threads |-> req[t]]
    /\ \A t \in Threads : pc[t] # "idle" => req[t] \in Requests
    /\ hit \in [Digests -> Files] /\ faults \in Nat
    /\ accepted \in [Digests -> SUBSET Payloads]

(* From the moment it may be linked, the temporary file is complete.       *)
Written ==
    \A t \in Threads :
        pc[t] \in {"openlock", "mutex", "lock", "inspect", "act"} => temp[t] = Complete(payload(t))

(* A thread between the two mutex calls holds the mutex of its process.    *)
Serialized ==
    \A t \in Threads :
        pc[t] \in {"lock", "inspect", "act", "unlock", "unmutex"} => mutex[proc(t)] = t

(* The invariant of every deployment.                                      *)
IInv == Typed /\ Written /\ Serialized

(* The kinds of file are told apart by their state.                        *)
LEMMA FilesDiffer ==
    /\ Absent # Corrupt
    /\ \A p : Complete(p) # Absent /\ Complete(p) # Corrupt /\ Complete(p).state = "complete"
    /\ \A p, q : Complete(p) = Complete(q) => p = q
    /\ \A f \in Files : f.state = "complete" <=> f \notin {Absent, Corrupt}
  BY DEF Absent, Corrupt, Complete, Files

(* A store in progress is for a digest and a payload.                      *)
LEMMA RequestParts ==
    ASSUME Typed, NEW t \in Threads, pc[t] # "idle"
    PROVE  digest(t) \in Digests /\ payload(t) \in Payloads /\ req[t] = <<digest(t), payload(t)>>
  BY DEF Typed, Requests, digest, payload

(* The deployment puts every thread into a process.                        *)
LEMMA DeploymentTyped == ASSUME Typed PROVE procOf \in [Threads -> Procs]
  BY DeploymentsTyped DEF Typed

(* The invariant holds at first.                                           *)
LEMMA InitInv == ASSUME Init PROVE IInv
  BY DEF Init, IInv, Typed, Written, Serialized, Files, Stages, Outcomes

(* The steps outside the locks.                                            *)
LEMMA CallInv ==
    ASSUME IInv, NEW t \in Threads,
           (\E d \in Digests, p \in Payloads : BeginStore(t, d, p)) \/ WriteTemp(t) \/ OpenLock(t)
           \/ Cleanup(t)
    PROVE  IInv'
<1> USE DEF IInv
<1>1. CASE \E d \in Digests, p \in Payloads : BeginStore(t, d, p)
  <2> PICK d \in Digests, p \in Payloads : BeginStore(t, d, p)
    BY <1>1
  <2> USE DEF BeginStore, Goto, fs, locks
  <2>1. Typed'
    BY DEF Typed, Stages, Outcomes, Requests
  <2>2. Written' /\ Serialized'
    BY DEF Typed, Written, Serialized, payload, proc
  <2> QED  BY <2>1, <2>2
<1>2. CASE WriteTemp(t)
  <2> USE <1>2 DEF WriteTemp, Goto, locks
  <2>1. Typed'
    BY RequestParts DEF Typed, Stages, Files
  <2>2. Written' /\ Serialized'
    BY DEF Typed, Written, Serialized, payload, proc
  <2> QED  BY <2>1, <2>2
<1>3. CASE OpenLock(t) 
  BY <1>3 DEF OpenLock, Goto, locks, fs, Typed, Stages, Written, Serialized, payload, proc
<1>4. CASE Cleanup(t)
  BY <1>4 DEF Cleanup, Goto, locks, Typed, Stages, Files, Written, Serialized, payload, proc
<1> QED  BY <1>1, <1>2, <1>3, <1>4

(* The steps that take and give back the two locks.                        *)
LEMMA LockInv ==
    ASSUME IInv, NEW t \in Threads,
           LockMutex(t) \/ LockFile(t) \/ UnlockFile(t) \/ UnlockMutex(t) \/ CloseLock(t)
    PROVE  IInv'
<1> USE DeploymentTyped DEF IInv
<1>1. Typed'
  BY DEF LockMutex, LockFile, UnlockFile, UnlockMutex, CloseLock, DropFileLock, Goto, fs, Typed,
     Stages, proc
<1>2. Written'
  BY DEF LockMutex, LockFile, UnlockFile, UnlockMutex, CloseLock, Goto, fs, Typed, Written, payload
<1>3. Serialized'
  <2>1. CASE LockMutex(t)
    BY <2>1, NobodyIsNobody DEF LockMutex, Goto, Typed, Serialized, proc
  <2>2. CASE LockFile(t) \/ UnlockFile(t) \/ CloseLock(t)
    BY <2>2 DEF LockFile, UnlockFile, CloseLock, Goto, Typed, Serialized, proc
  <2>3. CASE UnlockMutex(t)
    BY <2>3 DEF UnlockMutex, Goto, Typed, Serialized, proc
  <2> QED  BY <2>1, <2>2, <2>3
<1> QED  BY <1>1, <1>2, <1>3

(* The steps of the publication loop.                                      *)
LEMMA PublishInv ==
    ASSUME IInv, NEW t \in Threads,
           Inspect(t) \/ AcceptIdentical(t) \/ RejectDifferent(t) \/ RepairCorrupt(t) \/ PublishMissing(t)
    PROVE  IInv'
<1> USE DEF IInv
<1>1. digest(t) \in Digests /\ payload(t) \in Payloads
  BY RequestParts DEF Inspect, AcceptIdentical, RejectDifferent, RepairCorrupt, PublishMissing
<1>2. Typed'
  <2>1. CASE Inspect(t)
    BY <1>1, <2>1 DEF Inspect, Inspection, RecordAccepted, Goto, fs, locks, Typed, Stages, Outcomes
  <2>2. CASE AcceptIdentical(t) \/ RejectDifferent(t)
    BY <2>2 DEF AcceptIdentical, RejectDifferent, Goto, fs, locks, Typed, Stages
  <2>3. CASE RepairCorrupt(t)
    BY <1>1, <2>3 DEF RepairCorrupt, Lose, Goto, locks, Typed, Stages, Files
  <2>4. CASE PublishMissing(t)
    BY <1>1, <2>4 DEF PublishMissing, RecordAccepted, Goto, locks, Typed, Stages
  <2> QED  BY <2>1, <2>2, <2>3, <2>4
<1>3. Written' /\ Serialized'
  BY DEF Inspect, AcceptIdentical, RejectDifferent, RepairCorrupt, PublishMissing, Goto, fs, locks,
         Typed, Written, Serialized, payload, proc
<1> QED  BY <1>2, <1>3

(* Loads, damage and crashes.                                              *)
LEMMA OutsideInv ==
    ASSUME IInv,
           (\E d \in Digests : Load(d) \/ Damage(d)) \/ (\E p \in Procs : Crash(p)) \/ UNCHANGED vars
    PROVE  IInv'
<1> USE DEF IInv
<1>1. CASE \E d \in Digests : Load(d)
  BY <1>1 DEF Load, fs, locks, Typed, Written, Serialized, payload, proc
<1>2. CASE \E d \in Digests : Damage(d)
  BY <1>2 DEF Damage, Lose, locks, Typed, Files, Written, Serialized, payload, proc
<1>3. CASE \E p \in Procs : Crash(p)
  <2> PICK p \in Procs : Crash(p)
    BY <1>3
  <2>1. Typed'
    BY DEF Crash, DropFileLock, Typed, Stages, Files
  <2>2. Written' /\ Serialized'
    BY DeploymentTyped DEF Crash, Typed, Written, Serialized, payload, proc
  <2> QED  BY <2>1, <2>2
<1>4. CASE UNCHANGED vars
  BY <1>4 DEF vars, fs, locks, Typed, Written, Serialized, payload, proc
<1> QED  BY <1>1, <1>2, <1>3, <1>4

(* Every step preserves the invariant.                                     *)
LEMMA NextInv == ASSUME IInv, [Next]_vars PROVE IInv'
  BY CallInv, LockInv, PublishInv, OutsideInv DEF Next, StoreStep

(* The invariant holds of every deployment.                                *)
LEMMA Invariant == Spec => []IInv
<1>1. Init => IInv
  BY InitInv
<1>2. IInv /\ [Next]_vars => IInv'
  BY NextInv
<1> QED  BY <1>1, <1>2, PTL DEF Spec

-----------------------------------------------------------------------------
(* A step that makes an entry corrupt is damage from outside.              *)
LEMMA OnlyDamageCorrupts ==
    ASSUME IInv, [Next]_vars, NEW d \in Digests, entry'[d] = Corrupt, entry[d] # Corrupt
    PROVE  faults' = faults + 1
<1>1. ASSUME NEW t \in Threads,
             StoreStep(t) \/ (\E c \in Digests, p \in Payloads : BeginStore(t, c, p))
      PROVE  entry'[d] # Corrupt
  <2>1. CASE PublishMissing(t)
    <3>1. temp[t] = Complete(payload(t))
      BY <2>1 DEF PublishMissing, IInv, Written
    <3> QED  BY <2>1, <3>1, FilesDiffer DEF PublishMissing, IInv, Typed
  <2>2. CASE RepairCorrupt(t)
    BY <2>2, FilesDiffer DEF RepairCorrupt, IInv, Typed
  <2> QED
    BY <1>1, <2>1, <2>2 DEF StoreStep, WriteTemp, OpenLock, LockMutex, LockFile, Inspect,
       AcceptIdentical,
       RejectDifferent, UnlockFile, UnlockMutex, CloseLock, Cleanup, BeginStore, fs
<1> QED  BY <1>1 DEF Next, Load, Damage, Crash, fs, vars

(* However stores, loads and crashes interleave, and in whatever           *)
(* deployment, usc_cache_store never shows a partial file under an entry   *)
(* name.                                                                   *)
THEOREM NoPartialEntryAlways == Spec => NoPartialEntry
<1>1. IInv /\ [Next]_vars =>
        [\A d \in Digests : entry'[d] = Corrupt /\ entry[d] # Corrupt => faults' = faults + 1]_vars
  BY OnlyDamageCorrupts
<1> QED  BY <1>1, Invariant, PTL DEF Spec, NoPartialEntry

-----------------------------------------------------------------------------
Alone(f) == \A t, u \in Threads : f[t] = f[u] => t = u
Together(f) == \A t, u \in Threads : f[t] = f[u]
(* In these deployments the mutex and the advisory lock exclude each       *)
(* other's gaps. In others they do not: closing one descriptor of          *)
(* .publish.lock drops the lock of the whole process (the threads run).    *)
LocksSuffice == \A f \in Deployments : Alone(f) \/ Together(f)

(* With one thread per process the advisory lock is held throughout.       *)
Locked == Alone(procOf) => \A t \in Threads : pc[t] \in Critical => lockFile = proc(t)
(* A repair is about to unlink what its inspection saw.                    *)
Fresh ==
    \A t \in Threads :
        pc[t] = "act" /\ seen[t] = "corrupt" => entry[digest(t)] = Corrupt
(* A hit is what the entry still holds.                                    *)
Published == \A d \in Digests : hit[d] # Absent => hit[d] = entry[d] /\ entry[d].state = "complete"

(* The invariant of the deployments in which the locks suffice.            *)
JInv == IInv /\ Locked /\ Fresh /\ Published /\ AcceptedIsPublished

(* Two threads are never between the lock and the unlock together.         *)
LEMMA OneInside ==
    ASSUME LocksSuffice, JInv, NEW t \in Threads, NEW u \in Threads,
           pc[t] \in Critical, pc[u] \in Critical
    PROVE  t = u
<1>1. mutex[proc(t)] = t /\ mutex[proc(u)] = u
  BY DEF JInv, IInv, Serialized, Critical
<1>2. CASE Alone(procOf)
  BY <1>2 DEF JInv, Locked, Alone, proc
<1>3. CASE Together(procOf)
  BY <1>1, <1>3 DEF Together, proc
<1> QED  BY <1>2, <1>3 DEF LocksSuffice, JInv, IInv, Typed

(* The advisory lock is lost only by the thread that gives it back.        *)
LEMMA LockedKept ==
    ASSUME JInv, [Next]_vars PROVE Locked'
<1> USE DEF JInv, IInv
<1> SUFFICES ASSUME Alone(procOf), NEW u \in Threads, pc'[u] \in Critical
             PROVE  lockFile' = proc(u)
  BY DEF Locked, Next, StoreStep, WriteTemp, OpenLock, LockMutex, LockFile, Inspect,
     AcceptIdentical,
       RejectDifferent, UnlockFile, UnlockMutex, CloseLock, Cleanup, BeginStore, RepairCorrupt,
       PublishMissing,
       Load, Damage, Crash, vars, proc
<1>1. ASSUME NEW t \in Threads, StoreStep(t) PROVE lockFile' = proc(u)
  <2>1. CASE LockFile(t)
    BY <2>1, DeploymentTyped, NobodyIsNobody DEF LockFile, Goto, Typed, Locked, CanLockFile,
       Critical, Alone, proc
  <2>2. CASE UnlockFile(t) \/ CloseLock(t)
    BY <2>2 DEF UnlockFile, CloseLock, DropFileLock, Goto, Typed, Locked, Critical, Alone, proc
  <2>3. CASE Inspect(t) \/ AcceptIdentical(t) \/ RejectDifferent(t) \/ RepairCorrupt(t) \/ PublishMissing(t)
    BY <2>3 DEF Inspect, AcceptIdentical, RejectDifferent, RepairCorrupt, PublishMissing, Goto,
       locks, Typed, Locked, Critical
  <2>4. CASE WriteTemp(t) \/ OpenLock(t) \/ LockMutex(t) \/ UnlockMutex(t) \/ Cleanup(t)
    BY <2>4 DEF WriteTemp, OpenLock, LockMutex, UnlockMutex, Cleanup, Goto, locks, Typed, Locked,
       Critical
  <2> QED  BY <1>1, <2>1, <2>2, <2>3, <2>4 DEF StoreStep
<1>2. ASSUME NEW t \in Threads, NEW d \in Digests, NEW p \in Payloads, BeginStore(t, d, p)
      PROVE  lockFile' = proc(u)
  BY <1>2 DEF BeginStore, Goto, locks, Typed, Locked, Critical
<1>3. ASSUME NEW p \in Procs, Crash(p) PROVE lockFile' = proc(u)
  BY <1>3, DeploymentTyped DEF Crash, DropFileLock, Typed, Locked, Critical, proc
<1>4. ASSUME NEW d \in Digests, Load(d) \/ Damage(d) PROVE lockFile' = proc(u)
  BY <1>4 DEF Load, Damage, locks, Locked
<1>5. CASE UNCHANGED vars
  BY <1>5 DEF vars, locks, Locked
<1> QED  BY <1>1, <1>2, <1>3, <1>4, <1>5 DEF Next

(* A store is about to unlink an entry that it could not read.             *)
Misread(d) == \E t \in Threads : pc[t] = "act" /\ seen[t] = "unreadable" /\ digest(t) = d

(* Nothing replaces a complete entry but damage and a failed reading.      *)
LEMMA CompleteStays ==
    ASSUME JInv, [Next]_vars, NEW d \in Digests, entry[d].state = "complete"
    PROVE  \/ entry'[d] = entry[d]
           \/ /\ entry'[d] = Corrupt \/ (entry'[d] = Absent /\ Misread(d))
              /\ accepted'[d] = {} /\ hit'[d] = Absent
<1> USE DEF JInv, IInv
<1>1. entry[d] \notin {Absent, Corrupt}
  BY FilesDiffer DEF Typed
<1>2. ASSUME NEW t \in Threads,
             StoreStep(t) \/ (\E c \in Digests, p \in Payloads : BeginStore(t, c, p))
      PROVE  \/ entry'[d] = entry[d]
             \/ entry'[d] = Absent /\ Misread(d) /\ accepted'[d] = {} /\ hit'[d] = Absent
  <2>1. CASE PublishMissing(t)
    BY <1>1, <2>1 DEF PublishMissing, Typed
  <2>2. CASE RepairCorrupt(t)
    <3>1. CASE seen[t] = "corrupt"
      BY <1>1, <2>2, <3>1 DEF RepairCorrupt, Typed, Fresh
    <3>2. CASE seen[t] = "unreadable" /\ digest(t) = d
      BY <2>2, <3>2 DEF RepairCorrupt, Lose, Misread, Typed
    <3>3. CASE digest(t) # d
      BY <2>2, <3>3 DEF RepairCorrupt, Typed
    <3> QED  BY <2>2, <3>1, <3>2, <3>3 DEF RepairCorrupt
  <2> QED
    BY <1>2, <2>1, <2>2 DEF StoreStep, WriteTemp, OpenLock, LockMutex, LockFile, Inspect,
       AcceptIdentical,
       RejectDifferent, UnlockFile, UnlockMutex, CloseLock, Cleanup, BeginStore, fs
<1>3. ASSUME NEW c \in Digests, Damage(c)
      PROVE  \/ entry'[d] = entry[d]
             \/ entry'[d] = Corrupt /\ accepted'[d] = {} /\ hit'[d] = Absent
  BY <1>3 DEF Damage, Lose, Typed
<1> QED  BY <1>2, <1>3 DEF Next, Load, Crash, fs, vars

(* Nobody changes an entry between an inspection and its repair.           *)
LEMMA FreshKept ==
    ASSUME LocksSuffice, JInv, [Next]_vars PROVE Fresh'
<1> USE DEF JInv, IInv
<1> SUFFICES ASSUME NEW u \in Threads, pc'[u] = "act", seen'[u] = "corrupt"
             PROVE  entry'[req'[u][1]] = Corrupt
  BY DEF Fresh, digest
<1>1. ASSUME NEW t \in Threads, StoreStep(t) PROVE entry'[req'[u][1]] = Corrupt
  <2>1. CASE Inspect(t)
    <3>1. CASE u = t
      BY <2>1, <3>1 DEF Inspect, Inspection, Goto, fs, Typed, digest
    <3>2. CASE u # t
      BY <2>1, <3>2 DEF Inspect, Goto, fs, Typed, Fresh, digest
    <3> QED  BY <3>1, <3>2
  <2>2. CASE RepairCorrupt(t) \/ PublishMissing(t)
    <3>1. pc[t] = "act" /\ pc'[t] # "act"
      BY <2>2 DEF RepairCorrupt, PublishMissing, Goto, Typed
    <3>2. u # t => pc[u] = "act"
      BY <2>2 DEF RepairCorrupt, PublishMissing, Goto, Typed
    <3> QED  BY <3>1, <3>2, OneInside DEF Critical
  <2>3. CASE AcceptIdentical(t) \/ RejectDifferent(t) \/ UnlockFile(t) \/ UnlockMutex(t) \/ CloseLock(t)
    BY <2>3 DEF AcceptIdentical, RejectDifferent, UnlockFile, UnlockMutex, CloseLock, Goto, fs,
       Typed, Fresh, digest
  <2>4. CASE WriteTemp(t) \/ OpenLock(t) \/ LockMutex(t) \/ LockFile(t) \/ Cleanup(t)
    BY <2>4 DEF WriteTemp, OpenLock, LockMutex, LockFile, Cleanup, Goto, fs, Typed, Fresh, digest
  <2> QED  BY <1>1, <2>1, <2>2, <2>3, <2>4 DEF StoreStep
<1>2. ASSUME NEW t \in Threads, NEW d \in Digests, NEW p \in Payloads, BeginStore(t, d, p)
      PROVE  entry'[req'[u][1]] = Corrupt
  BY <1>2 DEF BeginStore, Goto, fs, Typed, Fresh, digest
<1>3. ASSUME NEW p \in Procs, Crash(p) PROVE entry'[req'[u][1]] = Corrupt
  BY <1>3 DEF Crash, Typed, Fresh, digest
<1>4. ASSUME NEW d \in Digests, Load(d) \/ Damage(d) PROVE entry'[req'[u][1]] = Corrupt
  BY <1>4, RequestParts DEF Load, Damage, fs, Fresh, digest, Typed
<1>5. CASE UNCHANGED vars
  BY <1>5 DEF vars, fs, Fresh, digest
<1> QED  BY <1>1, <1>2, <1>3, <1>4, <1>5 DEF Next

(* What was hit stays.                                                     *)
LEMMA PublishedKept ==
    ASSUME JInv, [Next]_vars PROVE Published'
<1> SUFFICES ASSUME NEW d \in Digests, hit'[d] # Absent
             PROVE  hit'[d] = entry'[d] /\ entry'[d].state = "complete"
  BY DEF Published
<1>1. CASE hit'[d] = hit[d]
  <2>1. hit[d] = entry[d] /\ entry[d].state = "complete"
    BY <1>1 DEF JInv, Published
  <2> QED  BY <1>1, <2>1, CompleteStays
<1>2. CASE \E c \in Digests : Load(c) \/ Damage(c)
  BY <1>1, <1>2 DEF JInv, IInv, Typed, Published, Load, Damage, Lose, fs
<1>3. CASE \E t \in Threads : RepairCorrupt(t)
  BY <1>1, <1>3 DEF JInv, IInv, Typed, RepairCorrupt, Lose
<1>4. CASE ~(\E c \in Digests : Load(c) \/ Damage(c)) /\ ~(\E t \in Threads : RepairCorrupt(t))
  <2>1. hit' = hit
    BY <1>4 DEF Next, vars, StoreStep, WriteTemp, OpenLock, LockMutex, LockFile, Inspect,
       AcceptIdentical,
       RejectDifferent, PublishMissing, UnlockFile, UnlockMutex, CloseLock,
       Cleanup, BeginStore, Crash
  <2> QED  BY <1>1, <2>1
<1> QED  BY <1>2, <1>3, <1>4

(* What was accepted stays.                                                *)
LEMMA AcceptedKept ==
    ASSUME JInv, [Next]_vars PROVE AcceptedIsPublished'
<1> USE DEF JInv, IInv
<1> SUFFICES ASSUME NEW d \in Digests, NEW p \in accepted'[d] PROVE entry'[d] = Complete(p)
  BY DEF AcceptedIsPublished
<1>1. CASE p \in accepted[d]
  <2>1. entry[d] = Complete(p) /\ entry[d].state = "complete"
    BY <1>1, FilesDiffer DEF AcceptedIsPublished
  <2> QED  BY <2>1, CompleteStays
<1>2. CASE p \notin accepted[d]
  <2>1. PICK t \in Threads : \/ Inspect(t) /\ RecordAccepted(t) /\ Inspection(digest(t), payload(t)) = "identical"
                             \/ PublishMissing(t) /\ RecordAccepted(t) /\ entry'[digest(t)] = temp[t]
    <3>1. accepted' # accepted /\ p \in accepted'[d]
      BY <1>2
    <3>2. ~ \E c \in Digests : Load(c) \/ Damage(c)
      BY <1>2 DEF Load, Damage, Lose, Typed
    <3>3. ~ \E t \in Threads : RepairCorrupt(t)
      BY <1>2 DEF RepairCorrupt, Lose, Typed
    <3>4. \E t \in Threads : Inspect(t) \/ PublishMissing(t)
      BY <3>1, <3>2, <3>3 DEF Next, vars, StoreStep, WriteTemp, OpenLock, LockMutex, LockFile,
         AcceptIdentical,
         RejectDifferent, UnlockFile, UnlockMutex, CloseLock, Cleanup, BeginStore,
         Crash
    <3> PICK t \in Threads : Inspect(t) \/ PublishMissing(t)
      BY <3>4
    <3>5. CASE Inspect(t)
      BY <3>1, <3>5 DEF Inspect, Typed
    <3>6. CASE PublishMissing(t)
      <4>1. digest(t) \in Digests
        BY <3>6, RequestParts DEF PublishMissing
      <4> QED  BY <3>1, <3>6, <4>1 DEF PublishMissing, Typed
    <3> QED  BY <3>5, <3>6
  <2>2. pc[t] # "idle"
    BY <2>1 DEF Inspect, PublishMissing
  <2>3. d = digest(t) /\ p = payload(t)
    BY <1>2, <2>1, <2>2, RequestParts DEF RecordAccepted, Typed
  <2>4. CASE Inspect(t) /\ Inspection(digest(t), payload(t)) = "identical"
    BY <2>3, <2>4 DEF Inspect, Inspection, fs
  <2>5. CASE PublishMissing(t) /\ entry'[digest(t)] = temp[t]
    BY <2>3, <2>5 DEF PublishMissing, Written
  <2> QED  BY <2>1, <2>4, <2>5
<1> QED  BY <1>1, <1>2

(* The second invariant holds where the locks suffice.                     *)
LEMMA ExclusiveInvariant == ASSUME LocksSuffice PROVE Spec => []JInv
<1>1. Init => JInv
  BY InitInv DEF Init, JInv, Locked, Fresh, Published, AcceptedIsPublished, Critical
<1>2. JInv /\ [Next]_vars => JInv'
  <2> SUFFICES ASSUME JInv, [Next]_vars PROVE JInv'
    OBVIOUS
  <2>1. IInv'
    BY NextInv DEF JInv
  <2> QED  BY <2>1, LockedKept, FreshKept, PublishedKept, AcceptedKept DEF JInv
<1> QED  BY <1>1, <1>2, PTL DEF Spec

(* Where the locks suffice, a payload that usc_cache_store accepted is     *)
(* what the entry holds until it is damaged, or until a store that fails   *)
(* to read it unlinks it, for any number of stores, crashes and retries.   *)
THEOREM AcceptedStaysPublished == LocksSuffice => (Spec => []AcceptedIsPublished)
<1> SUFFICES ASSUME LocksSuffice PROVE Spec => []AcceptedIsPublished
  OBVIOUS
<1>1. JInv => AcceptedIsPublished
  BY DEF JInv
<1> QED  BY <1>1, ExclusiveInvariant, PTL

(* Where the locks suffice, usc_cache_store removes a complete entry only  *)
(* when its own inspection could not read it: what "rejects a different    *)
(* valid payload for the same request digest" comes to in the code.        *)
THEOREM OnlyUnreadableIsReplaced == LocksSuffice => (Spec => OnlyUnreadableReplaced)
<1> SUFFICES ASSUME LocksSuffice PROVE Spec => OnlyUnreadableReplaced
  OBVIOUS
<1>1. JInv /\ [Next]_vars =>
        [\A d \in Digests :
           entry[d].state = "complete" =>
             \/ entry'[d] \in {entry[d], Corrupt}
             \/ \E t \in Threads :
                  /\ pc[t] = "act" /\ seen[t] = "unreadable" /\ digest(t) = d
                  /\ entry'[d] = Absent]_vars
  BY CompleteStays DEF Misread
<1> QED  BY <1>1, ExclusiveInvariant, PTL DEF Spec, OnlyUnreadableReplaced

(* Where the locks suffice, usc_cache_load, which takes no lock, never     *)
(* returns two different payloads for a digest unless in between the file  *)
(* was damaged, or unlinked by a store that could not read it.             *)
THEOREM HitsAgreeAlways == LocksSuffice => (Spec => HitsAgree)
<1> SUFFICES ASSUME LocksSuffice PROVE Spec => HitsAgree
  OBVIOUS
<1>1. JInv /\ [Next]_vars =>
        [\A d \in Digests : hit[d] # Absent => hit'[d] \in {hit[d], Absent}]_vars
  <2> SUFFICES ASSUME JInv, [Next]_vars, NEW d \in Digests, hit[d] # Absent
               PROVE  hit'[d] \in {hit[d], Absent}
    OBVIOUS
  <2>1. hit[d] = entry[d] /\ entry[d].state = "complete"
    BY DEF JInv, Published
  <2>2. hit'[d] # Absent => hit'[d] = entry'[d]
    BY PublishedKept DEF Published
  <2>3. entry'[d] = entry[d] \/ hit'[d] = Absent
    BY <2>1, CompleteStays
  <2> QED  BY <2>1, <2>2, <2>3
<1> QED  BY <1>1, ExclusiveInvariant, PTL DEF Spec, HitsAgree
==============================================================================
