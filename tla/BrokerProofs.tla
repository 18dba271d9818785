---------------------------- MODULE BrokerProofs ----------------------------
(***************************************************************************)
(* The broker's coalesced compilation implements CompileOracle for every   *)
(* one of its callers, and its source table is the set of sources it       *)
(* stands for.                                                             *)
(*                                                                         *)
(* The argument: the operation of a flight returns the result of the       *)
(* flight's key or fails, and the entry, the copies and the late joiners   *)
(* hand on nothing else (Ran, HandedOn, Returned); since the key names the *)
(* inputs, a result accepted after the key was formed once more is the     *)
(* result for the inputs of that instant.  That a joiner reads an entry of *)
(* its own key, not one that was freed and allocated again, is the         *)
(* invariant of SingleFlightProofs, taken over for the broker's table.     *)
(*                                                                         *)
(* The argument for the source table: a slot is in use when it carries the *)
(* present epoch; every source in use can be reached by its own probe over *)
(* slots in use (WellPlaced), is there once (NoTwice), and some slot is    *)
(* always free (HasRoom), so that a probe ends, and ends at the source if  *)
(* the table holds it.  No slot carries a later epoch (NoFuture), which is *)
(* what lets a change of epoch empty the table; when the epoch wraps the   *)
(* slots are blanked.  Growing moves the slots one by one into a larger    *)
(* table; its recursion and the sum of the sizes are unfolded with a least *)
(* counterexample.                                                         *)
(***************************************************************************)
EXTENDS BrokerCompile, BrokerResidency, FiniteSetTheorems, WellFoundedInduction,
    TLAPS

(* The table of flights with its proved invariant: what holds of           *)
(* SingleFlight for every instance holds of the table inside the broker.   *)
Sound == INSTANCE SingleFlightProofs WITH
    Keys <- Digests, Values <- Digests \cup {Failure}, pc <- fpc

(* Where a broker call can be.                                             *)
Stages == {"idle", "key", "respond", "flight", "executed", "accept"}

(* Every variable of the broker stays in its domain.                       *)
Typed ==
    /\ edits \in Nat
    /\ stage \in [Threads -> Stages]
    /\ req \in [Threads -> Requests]
    /\ local \in [Threads -> Digests \cup {Failure, None}]
    /\ reply \in [Threads -> Digests \cup {None}]

(* A thread is in the table only between forming its key and accepting.    *)
InPlace ==
    \A t \in Threads :
        /\ stage[t] \in {"idle", "key", "respond"} => fpc[t] = "idle"
        /\ stage[t] = "executed" => fpc[t] \in {"own", "direct"}
        /\ stage[t] = "accept" => fpc[t] \in {"idle", "free"}

(* What a flight of key k may hand out: the result for that very key, a    *)
(* failure, or no bytes when a copy ran out of memory.                     *)
Answers(k) == {k, Failure, NoValue}

(* An operation that has run yields the result of its own key or fails     *)
(* (execute_contract_compile compares the inputs).                         *)
Ran == \A t \in Threads :
    stage[t] = "executed" => local[t] \in {key[t], Failure}

(* So does every completed entry a late joiner can still find.             *)
HandedOn == \A c \in linked :
    entry[c].completed => entry[c].outcome.value \in Answers(entry[c].key)

(* So does what a participant took out of its flight.                      *)
Returned == \A t \in Threads :
    stage[t] = "accept" => got[t].value \in Answers(key[t])

(* The inductive invariant.                                                *)
BInv == Sound!Inv /\ Typed /\ InPlace /\ Ran /\ HandedOn /\ Returned

-----------------------------------------------------------------------------
(* The invariant proved in SingleFlightProofs, for this table.             *)
LEMMA TableIsSound ==
    /\ Sound!Init => Sound!Inv
    /\ Sound!Inv /\ [Sound!Next]_(Sound!vars) => Sound!Inv'
<1>1. Sound!IsFiniteSet(Threads)
  BY ThreadsAreFinite DEF IsFiniteSet, Sound!IsFiniteSet
<1>. QED  BY <1>1, BoundsAreNat, NoCellIsNoCell, Sound!InitInv, Sound!NextInv

(* The inputs have contents.                                               *)
LEMMA ContentsTyped ==
    ASSUME edits \in Nat PROVE contents \in [Inputs -> Contents]
<1>1. edits % 2 \in {0, 1}
  OBVIOUS
<1>. QED  BY <1>1 DEF contents, Contents

(* A result of the model is what the oracle evaluates.                     *)
LEMMA OracleResult ==
    ASSUME NEW t \in Threads, NEW r \in Requests
    PROVE  Caller(t)!Eval(r, contents) = Result(r)
BY DEF Caller!Eval, Result, contents

(* It holds initially.                                                     *)
LEMMA InitBInv == Init => BInv
<1>. SUFFICES ASSUME Init PROVE BInv  OBVIOUS
<1>1. Sound!Init
  BY DEF Init, Flight!Init, Sound!Init, Flight!FreedEntry, Sound!FreedEntry,
     Flight!NoOutcome, Sound!NoOutcome
<1>2. Sound!Inv
  BY <1>1, TableIsSound
<1>3. Typed /\ InPlace /\ Ran /\ HandedOn /\ Returned
  BY DEF Init, Flight!Init, Typed, InPlace, Ran, HandedOn, Returned, Stages
<1>. QED  BY <1>2, <1>3 DEF BInv

(* What the table's own invariant says of a thread that takes part.        *)
LEMMA Table ==
    ASSUME Sound!Inv
    PROVE  /\ entry \in [Cells -> Sound!Entries] /\ linked \subseteq Cells
           /\ fpc \in [Threads -> Sound!PCs] /\ got \in [Threads -> Sound!Outcomes]
           /\ key \in [Threads -> Digests \cup {NoKey}]
           /\ at \in [Threads -> Cells \cup {NoCell}]
           /\ \A t \in Threads : fpc[t] # "idle" => key[t] \in Digests
           /\ \A t \in Threads : fpc[t] \in {"own", "wait", "recheck", "leave"} =>
                at[t] \in linked /\ entry[at[t]].key = key[t]
           /\ \A t \in Threads : fpc[t] = "leave" => entry[at[t]].completed
           /\ \A t \in Threads : fpc[t] = "free" => at[t] \notin linked
BY DEF Sound!Inv, Sound!TypeOK, Sound!CallsInv, Sound!TableInv, Sound!FlightInv,
   Sound!FreeInv, Sound!Participating

(* The steps that leave the table alone.                                   *)
LEMMA TableStutters ==
    ASSUME Sound!Inv, UNCHANGED flight
    PROVE  Sound!Inv'
BY TableIsSound DEF flight, Sound!vars

-----------------------------------------------------------------------------
(* The key is formed and the thread enters usc_single_flight_execute.      *)
LEMMA FormKeyInv ==
    ASSUME BInv, NEW t \in Threads, FormKey(t)
    PROVE  BInv'
<1>. USE DEF BInv
<1>1. Result(req[t]) \in Digests
  BY ContentsTyped DEF Typed, Result, Digests
<1>2. Sound!Start(t, Result(req[t]))
  BY DEF FormKey, Flight!Start, Sound!Start, Flight!table, Sound!table
<1>3. Sound!Inv'
  BY <1>1, <1>2, TableIsSound DEF Sound!Next
<1>4. /\ stage[t] = "key" /\ stage' = [stage EXCEPT ![t] = "flight"]
      /\ key' = [key EXCEPT ![t] = Result(req[t])]
      /\ fpc' = [fpc EXCEPT ![t] = "enter"]
      /\ UNCHANGED <<entry, linked, got, edits, req, local, reply>>
  BY DEF FormKey, Goto, Flight!Start, Flight!table
<1>5. Typed'
  BY <1>4 DEF Typed, Stages
<1>6. InPlace' /\ Ran' /\ Returned'
  BY <1>4, Table DEF InPlace, Ran, Returned, Typed
<1>7. HandedOn'
  BY <1>4 DEF HandedOn
<1>. QED  BY <1>3, <1>5, <1>6, <1>7

(* Inside usc_single_flight_execute no entry completes.                    *)
LEMMA InFlightInv ==
    ASSUME BInv, NEW t \in Threads, InFlight(t) \/ SpuriousWake(t)
    PROVE  BInv'
<1>. USE DEF BInv
<1>1. Sound!EnterOwner(t) \/ Sound!EnterDirect(t) \/ Sound!EnterJoin(t)
        \/ Sound!Recheck(t) \/ Sound!SpuriousWake(t)
  BY DEF InFlight, SpuriousWake, Flight!EnterOwner, Flight!EnterDirect,
     Flight!EnterJoin, Flight!Recheck, Flight!SpuriousWake, Flight!FindEntry,
     Flight!NoOutcome, Flight!table, Sound!EnterOwner, Sound!EnterDirect,
     Sound!EnterJoin, Sound!Recheck, Sound!SpuriousWake, Sound!FindEntry,
     Sound!NoOutcome, Sound!table
<1>2. Sound!Inv'
  BY <1>1, TableIsSound DEF Sound!Next, Sound!Step
<1>3. /\ stage[t] = "flight" /\ UNCHANGED broker
      /\ UNCHANGED <<key, got>>
      /\ \A u \in Threads \ {t} : fpc'[u] = fpc[u]
  BY <1>1, Table DEF InFlight, SpuriousWake, Sound!EnterOwner, Sound!EnterDirect,
     Sound!EnterJoin, Sound!Recheck, Sound!SpuriousWake
<1>4. Typed' /\ InPlace' /\ Ran' /\ Returned'
  BY <1>3 DEF Typed, InPlace, Ran, Returned, broker
<1>5. HandedOn'
  <2>1. ASSUME UNCHANGED <<entry, linked>> PROVE HandedOn'
    BY <2>1 DEF HandedOn
  <2>2. CASE Sound!EnterOwner(t)
    BY <2>2, Table DEF Sound!EnterOwner, HandedOn
  <2>3. CASE Sound!EnterJoin(t)
    <3>1. PICK c \in linked : entry' = [entry EXCEPT ![c].participants = @ + 1]
      BY <2>3 DEF Sound!EnterJoin, Sound!FindEntry
    <3>2. linked' = linked
      BY <2>3 DEF Sound!EnterJoin
    <3>3. \A d \in linked : /\ entry'[d].completed = entry[d].completed
                            /\ entry'[d].outcome = entry[d].outcome
                            /\ entry'[d].key = entry[d].key
      BY <3>1, Table DEF Sound!Entries
    <3>. QED  BY <3>2, <3>3 DEF HandedOn
  <2>. QED
    BY <1>1, <2>1, <2>2, <2>3
       DEF Sound!EnterDirect, Sound!Recheck, Sound!SpuriousWake, Sound!table
<1>. QED  BY <1>2, <1>4, <1>5

(* execute_contract_compile yields the result of the key or a failure.     *)
LEMMA ExecuteInv ==
    ASSUME BInv, NEW t \in Threads, Execute(t)
    PROVE  BInv'
<1>. USE DEF BInv
<1>1. /\ stage[t] = "flight" /\ fpc[t] \in {"own", "direct"}
      /\ stage' = [stage EXCEPT ![t] = "executed"]
      /\ \E v \in {key[t], Failure} : local' = [local EXCEPT ![t] = v]
      /\ UNCHANGED <<edits, req, reply>> /\ UNCHANGED flight
  BY DEF Execute, Goto
<1>2. key[t] \in Digests
  BY <1>1, Table
<1>3. Sound!Inv'
  BY <1>1, TableStutters
<1>4. Typed'
  BY <1>1, <1>2 DEF Typed, Stages
<1>5. InPlace' /\ Ran' /\ Returned'
  BY <1>1 DEF InPlace, Ran, Returned, Typed, flight
<1>6. HandedOn'
  BY <1>1 DEF HandedOn, flight
<1>. QED  BY <1>3, <1>4, <1>5, <1>6

(* The tail of a flight: a thread takes a copy of the outcome and drops    *)
(* its reference, other threads at most wake up.                           *)
LEMMA BackFromFlight ==
    ASSUME BInv, Sound!Inv', NEW t \in Threads,
           fpc[t] \in {"own", "direct", "leave"},
           stage' = [stage EXCEPT ![t] = "accept"],
           UNCHANGED <<edits, req, local, reply, key>>,
           fpc'[t] \in {"idle", "free"},
           \A u \in Threads \ {t} : fpc'[u] = fpc[u] \/ fpc[u] = "wait",
           \A u \in Threads \ {t} : got'[u] = got[u],
           got'[t].value \in Answers(key[t]),
           HandedOn'
    PROVE  BInv'
<1>. USE DEF BInv
<1>1. Typed'
  BY DEF Typed, Stages
<1>2. InPlace' /\ Ran' /\ Returned'
  BY DEF InPlace, Ran, Returned, Typed
<1>. QED  BY <1>1, <1>2

(* An uncoalesced operation returns.                                       *)
LEMMA DirectInv ==
    ASSUME BInv, NEW t \in Threads, Complete(t), Flight!RunDirect(t, local[t])
    PROVE  BInv'
<1>. USE DEF BInv
<1>1. stage[t] = "executed" /\ fpc[t] = "direct" /\ local[t] \in {key[t], Failure}
  BY DEF Complete, Flight!RunDirect, Ran
<1>2. local[t] \in Digests \cup {Failure}
  BY <1>1, Table
<1>3. Sound!RunDirect(t, local[t])
  BY DEF Flight!RunDirect, Sound!RunDirect, Flight!Return, Sound!Return,
     Flight!table, Sound!table
<1>4. Sound!Inv'
  BY <1>2, <1>3, TableIsSound DEF Sound!Next, Sound!Step
<1>5. /\ fpc' = [fpc EXCEPT ![t] = "idle"]
      /\ got' = [got EXCEPT ![t] = [exec |-> call[t], key |-> key[t], value |-> local[t]]]
      /\ UNCHANGED <<entry, linked, key>>
      /\ stage' = [stage EXCEPT ![t] = "accept"]
      /\ UNCHANGED <<edits, req, local, reply>>
  BY <1>3 DEF Sound!RunDirect, Sound!Return, Sound!table, Complete, Goto
<1>6. HandedOn'
  BY <1>5 DEF HandedOn
<1>7. /\ fpc'[t] = "idle" /\ \A u \in Threads \ {t} : fpc'[u] = fpc[u]
      /\ got'[t].value = local[t] /\ \A u \in Threads \ {t} : got'[u] = got[u]
  BY <1>5, Table
<1>. QED  BY <1>1, <1>4, <1>5, <1>6, <1>7, BackFromFlight DEF Answers

(* ReleaseEntry keeps what the entries hold.                               *)
LEMMA ReleaseHolds ==
    ASSUME BInv, NEW c \in linked, NEW e \in Sound!Entries, Sound!ReleaseEntry(c, e),
           e.outcome.value \in Answers(e.key)
    PROVE  HandedOn'
<1>. USE DEF BInv
<1>. DEFINE f == [e EXCEPT !.participants = @ - 1]
<1>1. f.key = e.key /\ f.outcome = e.outcome
  BY DEF Sound!Entries
<1>2. entry' = [entry EXCEPT ![c] = f] /\ linked' \subseteq linked
  BY DEF Sound!ReleaseEntry
<1>. HIDE DEF f
<1>3. entry'[c] = f /\ \A d \in linked : d # c => entry'[d] = entry[d]
  BY <1>2, Table
<1>. QED  BY <1>1, <1>2, <1>3 DEF HandedOn

(* The owner publishes what its operation returned and leaves.             *)
LEMMA OwnerInv ==
    ASSUME BInv, NEW t \in Threads, Complete(t), Flight!Complete(t, local[t])
    PROVE  BInv'
<1>. USE DEF BInv
<1>. DEFINE c == at[t]
            o == [exec |-> call[t], key |-> key[t], value |-> local[t]]
            e == [entry[c] EXCEPT !.outcome = o, !.completed = TRUE]
<1>1. stage[t] = "executed" /\ fpc[t] = "own" /\ local[t] \in {key[t], Failure}
  BY DEF Complete, Flight!Complete, Ran
<1>2. local[t] \in Digests \cup {Failure}
  BY <1>1, Table
<1>3. Sound!Complete(t, local[t])
  BY DEF Flight!Complete, Sound!Complete, Flight!Return, Sound!Return,
     Flight!ReleaseEntry, Sound!ReleaseEntry, Flight!AfterRelease, Sound!AfterRelease,
     Flight!IsLast, Sound!IsLast, Flight!Broadcast, Sound!Broadcast,
     Flight!Copies, Sound!Copies
<1>4. Sound!Inv'
  BY <1>2, <1>3, TableIsSound DEF Sound!Next, Sound!Step
<1>5. /\ Sound!ReleaseEntry(c, e)
      /\ fpc' = Sound!Broadcast(c, [fpc EXCEPT ![t] = Sound!AfterRelease(e)])
      /\ \E r \in Sound!Copies(o) : Sound!Return(t, r)
      /\ UNCHANGED key
  BY <1>3 DEF Sound!Complete
<1>6. c \in linked /\ entry[c].key = key[t] /\ entry[c] \in Sound!Entries
  BY <1>1, Table
<1>7. got'[t].value \in Answers(key[t]) /\ \A u \in Threads \ {t} : got'[u] = got[u]
  <2>1. PICK r \in Sound!Copies(o) : got' = [got EXCEPT ![t] = r]
    BY <1>5 DEF Sound!Return
  <2>2. r.value \in {local[t], NoValue}
    BY <2>1 DEF Sound!Copies
  <2>. QED  BY <1>1, <2>1, <2>2, Table DEF Answers
<1>8. /\ fpc'[t] \in {"idle", "free"}
      /\ \A u \in Threads \ {t} : fpc'[u] = fpc[u] \/ fpc[u] = "wait"
  BY <1>5, Table DEF Sound!Broadcast, Sound!AfterRelease
<1>9. o \in Sound!Outcomes
  BY <1>1, <1>2, Table, <1>4 DEF Sound!Outcomes, Sound!Inv, Sound!TypeOK, Sound!CallIds
<1>10. e \in Sound!Entries /\ e.outcome.value \in Answers(e.key)
  BY <1>1, <1>6, <1>9 DEF Sound!Entries, Answers
<1>. HIDE DEF e, o
<1>11. HandedOn'
  BY <1>5, <1>6, <1>10, ReleaseHolds
<1>12. stage' = [stage EXCEPT ![t] = "accept"] /\ UNCHANGED <<edits, req, local, reply>>
  BY DEF Complete, Goto
<1>. QED  BY <1>1, <1>4, <1>5, <1>7, <1>8, <1>11, <1>12, BackFromFlight

(* A joiner copies what the entry holds.                                   *)
LEMMA LeaveInv ==
    ASSUME BInv, NEW t \in Threads, Leave(t)
    PROVE  BInv'
<1>. USE DEF BInv
<1>. DEFINE c == at[t]
            e == entry[c]
<1>1. stage[t] = "flight" /\ fpc[t] = "leave"
  BY DEF Leave, Flight!Leave
<1>2. Sound!Leave(t)
  BY DEF Leave, Flight!Leave, Sound!Leave, Flight!Return, Sound!Return,
     Flight!ReleaseEntry, Sound!ReleaseEntry, Flight!AfterRelease, Sound!AfterRelease,
     Flight!IsLast, Sound!IsLast, Flight!Copies, Sound!Copies
<1>3. Sound!Inv'
  BY <1>2, TableIsSound DEF Sound!Next, Sound!Step
<1>4. /\ Sound!ReleaseEntry(c, e)
      /\ fpc' = [fpc EXCEPT ![t] = Sound!AfterRelease(e)]
      /\ \E r \in Sound!Copies(e.outcome) : Sound!Return(t, r)
      /\ UNCHANGED key
  BY <1>2 DEF Sound!Leave
<1>5. /\ c \in linked /\ e.key = key[t] /\ e \in Sound!Entries /\ e.completed
      /\ e.outcome.value \in Answers(key[t]) /\ e.outcome \in Sound!Outcomes
  BY <1>1, Table DEF HandedOn, Sound!Entries
<1>6. got'[t].value \in Answers(key[t]) /\ \A u \in Threads \ {t} : got'[u] = got[u]
  <2>1. PICK r \in Sound!Copies(e.outcome) : got' = [got EXCEPT ![t] = r]
    BY <1>4 DEF Sound!Return
  <2>2. r.value \in {e.outcome.value, NoValue}
    BY <1>5, <2>1 DEF Sound!Copies, Sound!Outcomes
  <2>. QED  BY <1>5, <2>1, <2>2, Table DEF Answers
<1>7. /\ fpc'[t] \in {"idle", "free"} /\ \A u \in Threads \ {t} : fpc'[u] = fpc[u]
  BY <1>4, Table DEF Sound!AfterRelease
<1>8. HandedOn'
  BY <1>4, <1>5, ReleaseHolds
<1>9. stage' = [stage EXCEPT ![t] = "accept"] /\ UNCHANGED <<edits, req, local, reply>>
  BY DEF Leave, Goto
<1>. QED  BY <1>1, <1>3, <1>4, <1>6, <1>7, <1>8, <1>9, BackFromFlight

(* The last participant frees the entry.                                   *)
LEMMA FreeInv ==
    ASSUME BInv, NEW t \in Threads, Free(t)
    PROVE  BInv'
<1>. USE DEF BInv
<1>1. stage[t] = "accept" /\ UNCHANGED broker /\ Sound!Free(t)
  BY DEF Free, Flight!Free, Sound!Free, Flight!FreedEntry, Sound!FreedEntry,
     Flight!NoOutcome, Sound!NoOutcome
<1>2. Sound!Inv'
  BY <1>1, TableIsSound DEF Sound!Next, Sound!Step
<1>3. /\ fpc' = [fpc EXCEPT ![t] = "idle"] /\ UNCHANGED <<linked, key, got>>
      /\ at[t] \notin linked /\ entry' = [entry EXCEPT ![at[t]] = Sound!FreedEntry]
  BY <1>1, Table DEF Sound!Free
<1>4. \A d \in linked : entry'[d] = entry[d]
  BY <1>3, Table
<1>5. Typed' /\ InPlace' /\ Ran' /\ Returned'
  BY <1>1, <1>3, Table DEF Typed, InPlace, Ran, Returned, broker
<1>6. HandedOn'
  BY <1>3, <1>4 DEF HandedOn
<1>. QED  BY <1>2, <1>5, <1>6

-----------------------------------------------------------------------------
(* What Accept may answer is what the oracle answers at that instant.      *)
LEMMA AcceptedIsResult ==
    ASSUME BInv, NEW t \in Threads, stage[t] = "accept", NEW a \in Accepted(t)
    PROVE  a = Result(req[t]) /\ a \in Digests
<1>1. /\ a = got[t].value /\ a \in Digests
      /\ Result(req[t]) = key[t]
  BY DEF Accepted
<1>2. a \in Answers(key[t])
  BY <1>1 DEF BInv, Returned
<1>. QED  BY <1>1, <1>2, FailuresAreNotResults DEF Answers

(* The broker's own steps leave the table alone.                           *)
LEMMA BrokerInv ==
    ASSUME BInv,
           \/ Edit \/ Done \/ UNCHANGED vars
           \/ \E t \in Threads :
                \/ \E r \in Requests : Submit(t, r)
                \/ Respond(t) \/ NoKeyFormed(t) \/ Accept(t)
    PROVE  BInv'
<1>. USE DEF BInv
<1>1. UNCHANGED flight
  BY DEF Edit, Done, Submit, Respond, NoKeyFormed, Accept, vars, flight
<1>2. Sound!Inv' /\ HandedOn'
  BY <1>1, TableStutters DEF HandedOn, flight
<1>3. UNCHANGED local
  BY DEF Edit, Done, Submit, Respond, NoKeyFormed, Accept, vars
<1>4. ASSUME UNCHANGED <<stage, req, reply>>, edits' \in {edits, edits + 1} PROVE BInv'
  <2>1. Typed'
    BY <1>3, <1>4 DEF Typed
  <2>2. InPlace' /\ Ran' /\ Returned'
    BY <1>1, <1>3, <1>4 DEF InPlace, Ran, Returned, flight
  <2>. QED  BY <1>2, <2>1, <2>2
<1>5. ASSUME NEW t \in Threads, NEW s \in {"idle", "key", "respond"},
             stage' = [stage EXCEPT ![t] = s], fpc[t] = "idle",
             edits' = edits, req' \in [Threads -> Requests],
             reply' \in [Threads -> Digests \cup {None}]
      PROVE  BInv'
  <2>1. Typed'
    BY <1>3, <1>5 DEF Typed, Stages
  <2>2. InPlace' /\ Ran' /\ Returned'
    BY <1>1, <1>3, <1>5 DEF InPlace, Ran, Returned, Typed, flight
  <2>. QED  BY <1>2, <2>1, <2>2
<1>6. ASSUME NEW t \in Threads, NEW r \in Requests, Submit(t, r) PROVE BInv'
  BY <1>5, <1>6 DEF Submit, Goto, InPlace, Typed
<1>7. ASSUME NEW t \in Threads, Respond(t) \/ NoKeyFormed(t) \/ Accept(t) PROVE BInv'
  <2>1. Result(req[t]) \in Digests
    BY ContentsTyped DEF Typed, Result, Digests
  <2>2. \E a \in Digests \cup {None} : Answer(t, a)
    BY <1>7, <2>1, AcceptedIsResult DEF Respond, NoKeyFormed, Accept
  <2>3. stage[t] \in {"key", "respond"} \/ fpc[t] = "idle"
    BY <1>7 DEF Respond, NoKeyFormed, Accept
  <2>4. edits' = edits /\ req' = req
    BY <1>7 DEF Respond, NoKeyFormed, Accept
  <2>5. reply' \in [Threads -> Digests \cup {None}] /\ stage' = [stage EXCEPT ![t] = "idle"]
    BY <2>2 DEF Answer, Goto, Typed
  <2>. QED  BY <1>5, <2>3, <2>4, <2>5 DEF InPlace, Typed
<1>8. ASSUME Edit \/ Done \/ UNCHANGED vars PROVE BInv'
  BY <1>4, <1>8 DEF Edit, Done, vars
<1>. QED  BY <1>6, <1>7, <1>8

(* Every step preserves the inductive invariant.                           *)
LEMMA NextBInv == BInv /\ [Next]_vars => BInv'
<1>. SUFFICES ASSUME BInv, [Next]_vars PROVE BInv'  OBVIOUS
<1>1. ASSUME NEW t \in Threads, Complete(t) PROVE BInv'
  BY <1>1, OwnerInv, DirectInv DEF Complete
<1>. QED
  BY <1>1, BrokerInv, FormKeyInv, InFlightInv, ExecuteInv, LeaveInv, FreeInv DEF Next, Step

-----------------------------------------------------------------------------
(* A thread's caller only sees the contents, its question and its reply.   *)
LEMMA CallerSees ==
    ASSUME NEW t \in Threads, edits' = edits, reply'[t] = reply[t],
           req'[t] = req[t], (stage'[t] = "idle") <=> (stage[t] = "idle")
    PROVE  UNCHANGED Caller(t)!vars
BY DEF Caller!vars, contents

(* An answer of the right kind is an answer of the oracle.                 *)
LEMMA CallerAnswered ==
    ASSUME Typed, NEW t \in Threads, stage[t] # "idle", stage'[t] = "idle", edits' = edits,
           reply'[t] \in {None, Result(req[t])}
    PROVE  Caller(t)!Next
<1>1. req[t] \in Requests /\ req[t] # None
  BY NoneIsNoRequest DEF Typed
<1>2. Caller(t)!Eval(req[t], contents) = Result(req[t])
  BY <1>1, OracleResult
<1>3. UNCHANGED contents
  BY DEF contents
<1>4. reply'[t] = None \/ reply'[t] = Caller(t)!Eval(req[t], contents)
  BY <1>2
<1>5. Caller(t)!Answer
  BY <1>1, <1>3, <1>4 DEF Caller!Answer
<1>. QED  BY <1>5 DEF Caller!Next

(* Every step is, for every caller, a step of the oracle or none.          *)
LEMMA StepIsOracle ==
    ASSUME BInv, Next
    PROVE  \A t \in Threads : [Caller(t)!Next]_(Caller(t)!vars)
<1>. USE DEF BInv
<1>. TAKE t \in Threads
<1>1. CASE Edit
  <2>1. contents' \in [Inputs -> Contents]
    <3>1. edits + 1 \in Nat /\ edits' = edits + 1
      BY <1>1 DEF Edit, Typed
    <3>2. edits' % 2 \in {0, 1}
      BY <3>1
    <3>. QED  BY <3>2 DEF contents, Contents
  <2>2. UNCHANGED <<stage, req, reply>>
    BY <1>1 DEF Edit
  <2>3. Caller(t)!Change
    BY <2>1, <2>2 DEF Caller!Change
  <2>. QED  BY <2>3 DEF Caller!Next
<1>2. CASE Done
  BY <1>2, CallerSees DEF Done, vars
<1>3. ASSUME NEW u \in Threads, UNCHANGED <<edits, req, reply>>,
             UNCHANGED stage \/ (stage[u] # "idle" /\ \E s \in Stages \ {"idle"} :
               stage' = [stage EXCEPT ![u] = s])
      PROVE  UNCHANGED Caller(t)!vars
  BY <1>3, CallerSees DEF Typed
<1>4. ASSUME NEW u \in Threads, NEW r \in Requests, Submit(u, r)
      PROVE  [Caller(t)!Next]_(Caller(t)!vars)
  <2>1. /\ stage[u] = "idle" /\ req' = [req EXCEPT ![u] = r]
        /\ \E s \in {"key", "respond"} : stage' = [stage EXCEPT ![u] = s]
        /\ UNCHANGED <<edits, reply>>
    BY <1>4 DEF Submit, Goto
  <2>2. CASE t = u
    <3>1. UNCHANGED contents
      BY <2>1 DEF contents
    <3>2. stage'[t] # "idle" /\ req'[t] = r
      BY <2>1, <2>2 DEF Typed
    <3>3. Caller(t)!Ask(r)
      BY <2>1, <2>2, <3>1, <3>2 DEF Caller!Ask
    <3>. QED  BY <3>3 DEF Caller!Next
  <2>3. CASE t # u
    BY <2>1, <2>3, CallerSees DEF Typed
  <2>. QED  BY <2>2, <2>3
<1>5. ASSUME NEW u \in Threads, Respond(u) \/ NoKeyFormed(u) \/ Accept(u)
      PROVE  [Caller(t)!Next]_(Caller(t)!vars)
  <2>1. PICK a \in {None, Result(req[u])} : Answer(u, a)
    BY <1>5, AcceptedIsResult DEF Respond, NoKeyFormed, Accept
  <2>2. /\ stage[u] # "idle" /\ UNCHANGED <<edits, req>>
        /\ stage' = [stage EXCEPT ![u] = "idle"]
        /\ reply' = [reply EXCEPT ![u] = a]
    BY <1>5, <2>1 DEF Respond, NoKeyFormed, Accept, Answer, Goto
  <2>3. CASE t = u
    BY <2>1, <2>2, <2>3, CallerAnswered DEF Typed
  <2>4. CASE t # u
    BY <2>2, <2>4, CallerSees DEF Typed
  <2>. QED  BY <2>3, <2>4
<1>6. ASSUME NEW u \in Threads,
             \/ FormKey(u) \/ InFlight(u) \/ SpuriousWake(u) \/ Execute(u)
             \/ Complete(u) \/ Leave(u) \/ Free(u)
      PROVE  UNCHANGED Caller(t)!vars
  BY <1>3, <1>6 DEF FormKey, InFlight, SpuriousWake, Execute, Complete, Leave, Free,
     Goto, broker, Stages
<1>. QED  BY <1>1, <1>2, <1>4, <1>5, <1>6 DEF Next, Step

(***************************************************************************)
(* For any number of threads, requests, calls and edits: however calls are *)
(* coalesced (unity_compiler_broker_compile_contract), every caller gets   *)
(* the answer of a fresh compiler for the inputs of one instant of its own *)
(* call, or nothing.                                                       *)
(***************************************************************************)
THEOREM EveryCallerSeesTheOracle == Spec => CallersSeeOracle
<1>1. Init => \A t \in Threads : Caller(t)!Init
  <2>. SUFFICES ASSUME Init, NEW t \in Threads PROVE Caller(t)!Init  OBVIOUS
  <2>1. contents \in [Inputs -> Contents]
    BY ContentsTyped DEF Init
  <2>. QED  BY <2>1 DEF Init, Caller!Init
<1>2. BInv /\ [Next]_vars =>
        [\A t \in Threads : [Caller(t)!Next]_(Caller(t)!vars)]_vars
  BY StepIsOracle
<1>3. BInv /\ [Next]_vars => BInv'
  BY NextBInv
<1>. QED  BY <1>1, <1>2, <1>3, InitBInv, PTL DEF Spec, CallersSeeOracle

-----------------------------------------------------------------------------
(* The residency window.                                                   *)

(* The contents of a slot.                                                 *)
Records == [source: Sources \cup {Blank.source}, epoch: Nat]

(* The shape of a table: no smaller than four slots once it has any.       *)
IsTable(t) ==
    /\ t = [records |-> t.records, capacity |-> t.capacity, count |-> t.count,
            epoch |-> t.epoch, bytes |-> t.bytes]
    /\ t.capacity \in Nat /\ t.count \in Nat /\ t.epoch \in Nat /\ t.bytes \in Nat
    /\ t.capacity = 0 \/ t.capacity >= 4
    /\ t.records \in [0..(t.capacity - 1) -> Records]

(* The slots of the present epoch, and the source a slot names.            *)
InUse(t) == {i \in 0..(t.capacity - 1) : t.records[i].epoch = t.epoch}
SourceAt(t, i) == t.records[i].source

(* A probe for the source of slot i comes to i over slots in use only.     *)
ReachedAt(t, i) ==
    \E k \in 0..(t.capacity - 1) :
        /\ Slot(SourceAt(t, i), k, t.capacity) = i
        /\ \A j \in 0..(k - 1) : Slot(SourceAt(t, i), j, t.capacity) \in InUse(t)

(* Every slot in use can be found again, and no two name one source.       *)
WellPlaced(t) == \A i \in InUse(t) : SourceAt(t, i) \in Sources /\ ReachedAt(t, i)
NoTwice(t) == \A i, j \in InUse(t) : SourceAt(t, i) = SourceAt(t, j) => i = j

(* The table is a well-formed representation of the set W.                 *)
Stores(t, W) == IsTable(t) /\ WellPlaced(t) /\ NoTwice(t) /\ Held(t) = W

(* No slot carries an epoch that is still to come: clearing cannot bring   *)
(* an old record back to life, and the epoch is never that of a blank      *)
(* slot.                                                                   *)
NoFuture(t) ==
    /\ t.epoch > 0 /\ t.epoch < EpochLimit
    /\ \A i \in 0..(t.capacity - 1) : t.records[i].epoch <= t.epoch

(* A quarter of the slots is free, so that every probe ends.               *)
HasRoom(t) == t.capacity > 0 => t.count <= t.capacity - t.capacity \div 4

(* The table and the set it stands for, with its two running totals.       *)
TableInv(t, W) ==
    /\ Stores(t, W) /\ NoFuture(t) /\ HasRoom(t)
    /\ W \subseteq Sources /\ IsFiniteSet(W)
    /\ t.count = Cardinality(W) /\ t.bytes = Bytes(W)

(* What the live process holds is recorded and within the budget.          *)
ResidentInv ==
    pid # NoProcess /\ budget # 0 =>
        /\ resident \subseteq window
        /\ Cardinality(window) <= 1 \/ Bytes(window) <= budget

(* The inductive invariant.                                                *)
RInv == budget \in Nat /\ TableInv(tab, window) /\ ResidentInv

(* A step of one place around the table.                                   *)
LEMMA SlotInTable ==
    ASSUME NEW h \in Nat, NEW n \in Nat, n > 0
    PROVE  h % n \in 0..(n - 1)
OBVIOUS

(* Quotient and remainder.                                                 *)
LEMMA Division ==
    ASSUME NEW h \in Nat, NEW n \in Nat, n > 0
    PROVE  h = n * (h \div n) + (h % n) /\ h \div n \in Nat
OBVIOUS

LEMMA DivisionUnique ==
    ASSUME NEW q \in Nat, NEW n \in Nat, n > 0, NEW r \in 0..(n - 1)
    PROVE  (n * q + r) % n = r
OBVIOUS

(* A probe around the table passes every slot.                             *)
LEMMA EverySlotIsProbed ==
    ASSUME NEW h \in Nat, NEW n \in Nat, n > 0, NEW i \in 0..(n - 1)
    PROVE  \E k \in 0..(n - 1) : (h + k) % n = i
<1>. DEFINE q == h \div n
            r == h % n
<1>1. r \in 0..(n - 1) /\ q \in Nat /\ h = n * q + r
  BY Division, SlotInTable
<1>. HIDE DEF q, r
<1>2. CASE i >= r
  <2>1. i - r \in 0..(n - 1) /\ h + (i - r) = n * q + i
    BY <1>1, <1>2
  <2>. QED  BY <2>1, <1>1, DivisionUnique
<1>3. CASE i < r
  <2>1. i - r + n \in 0..(n - 1) /\ h + (i - r + n) = n * (q + 1) + i
    BY <1>1, <1>3
  <2>2. q + 1 \in Nat
    BY <1>1
  <2>. QED  BY <2>1, <2>2, DivisionUnique
<1>. QED  BY <1>1, <1>2, <1>3

(* The order of the numbers, as a relation.                                *)
Below == {ss \in Nat \X Nat : ss[1] < ss[2]}

(* A set of numbers has a least one.                                       *)
LEMMA Least ==
    ASSUME NEW T, T \subseteq Nat, T # {} PROVE \E x \in T : \A y \in T : x <= y
<1>0. IsWellFoundedOn(Below, Nat)
  BY ONLY NatLessThanWellFounded, Zenon DEF OpToRel, Below
<1>1. \E x \in T : \A y \in T : ~(<<y, x>> \in Below)
  BY <1>0, WFMin
<1>2. PICK x \in T : \A y \in T : ~(<<y, x>> \in Below)
  BY <1>1
<1>3. \A y \in T : x <= y
  <2>1. ASSUME NEW y \in Nat, NEW z \in Nat, y < z PROVE <<y, z>> \in Below
    BY <2>1 DEF Below
  <2>2. \A y \in T : ~(y < x)
    BY <1>2, <2>1
  <2> QED  BY <2>2
<1> QED  BY <1>3

(* The element FoldSet takes out of a set first.                           *)
First(T) == CHOOSE x \in T : TRUE
(* f sums the sizes of the subsets of S the way FoldSet does.              *)
IsSum(f, S) ==
    f = [T \in SUBSET S |-> IF T = {}
        THEN 0 ELSE f[T \ {First(T)}] + Size[First(T)]]

(* The total is the value of such a function.                              *)
LEMMA BytesIs ==
    ASSUME NEW S PROVE Bytes(S) = (CHOOSE f : IsSum(f, S))[S]
BY DEF Bytes, FoldSet, MapThenFoldSet, IsSum, First

(* Taking out the first element leaves one element less.                   *)
LEMMA FirstIn ==
    ASSUME NEW T, T # {} PROVE First(T) \in T
BY DEF First

LEMMA Fewer ==
    ASSUME NEW T, IsFiniteSet(T), T # {}
    PROVE  /\ IsFiniteSet(T \ {First(T)}) /\ Cardinality(T) \in Nat
           /\ Cardinality(T) > 0
           /\ Cardinality(T \ {First(T)}) = Cardinality(T) - 1
BY FirstIn, FS_RemoveElement, FS_CardinalityType, FS_EmptySet

(* The recursion of FoldSet is well-founded, so there is such a function.  *)
LEMMA SumExists ==
    ASSUME NEW S, IsFiniteSet(S) PROVE \E f : IsSum(f, S)
<1>. DEFINE D(m) == {T \in SUBSET S : Cardinality(T) <= m}
            Part(f, m) == f = [T \in D(m) |-> IF T = {} THEN 0
                                              ELSE f[T \ {First(T)}] + Size[First(T)]]
            Bad == {m \in Nat : ~\E f : Part(f, m)}
<1>1. \A T \in SUBSET S : IsFiniteSet(T) /\ Cardinality(T) \in Nat
          /\ Cardinality(T) <= Cardinality(S)
  BY FS_Subset, FS_CardinalityType
<1>2. 0 \notin Bad
  <2>1. D(0) = {{}}
    BY <1>1, FS_EmptySet
  <2>2. Part([T \in {{}} |-> 0], 0)
    BY <2>1
  <2>. QED  BY <2>2
<1>3. ASSUME NEW m \in Nat, m \notin Bad PROVE m + 1 \notin Bad
  <2>1. PICK f : Part(f, m)
    BY <1>3
  <2>. DEFINE g == [T \in D(m + 1) |-> IF Cardinality(T) <= m THEN f[T]
                                       ELSE f[T \ {First(T)}] + Size[First(T)]]
  <2>2. ASSUME NEW T \in D(m + 1)
        PROVE g[T] = IF T = {} THEN 0 ELSE g[T \ {First(T)}] + Size[First(T)]
    <3>1. CASE T = {}
      <4>1. T \in D(m) /\ Cardinality(T) <= m
        BY <3>1, FS_EmptySet
      <4>2. f[T] = 0
        BY <2>1, <4>1, <3>1
      <4>. QED  BY <4>1, <4>2, <3>1
    <3>2. CASE T # {}
      <4>1. /\ T \ {First(T)} \in SUBSET S
            /\ Cardinality(T \ {First(T)}) = Cardinality(T) - 1
            /\ Cardinality(T) \in Nat /\ Cardinality(T) <= m + 1
        BY <3>2, <1>1, Fewer
      <4>2. T \ {First(T)} \in D(m) /\ T \ {First(T)} \in D(m + 1)
                /\ Cardinality(T \ {First(T)}) <= m
        BY <4>1
      <4>3. g[T \ {First(T)}] = f[T \ {First(T)}]
        BY <4>2
      <4>4. CASE Cardinality(T) <= m
        <5>1. T \in D(m)
          BY <4>4
        <5>2. f[T] = f[T \ {First(T)}] + Size[First(T)]
          BY <5>1, <2>1, <3>2
        <5>. QED  BY <5>2, <4>3, <4>4, <3>2
      <4>5. CASE ~(Cardinality(T) <= m)
        BY <4>5, <4>3, <3>2
      <4>. QED  BY <4>4, <4>5
    <3>. QED  BY <3>1, <3>2
  <2>3. Part(g, m + 1)
    <3>. HIDE DEF D
    <3>1. g = [T \in D(m + 1) |-> g[T]]
      OBVIOUS
    <3>. HIDE DEF g
    <3>. QED  BY <3>1, <2>2
  <2>. HIDE DEF g, Part
  <2>. QED  BY <2>3
<1>4. Bad = {}
  <2>. SUFFICES ASSUME Bad # {} PROVE FALSE  OBVIOUS
  <2>1. Bad \subseteq Nat
    OBVIOUS
  <2>. HIDE DEF Bad
  <2>2. PICK x \in Bad : \A y \in Bad : x <= y
    BY <2>1, Least
  <2>3. x \in Nat /\ x # 0 /\ x - 1 \in Nat
    BY <2>1, <1>2
  <2>4. x - 1 \notin Bad
    BY <2>2, <2>3
  <2>5. (x - 1) + 1 \notin Bad
    BY <2>3, <2>4, <1>3
  <2>. QED  BY <2>3, <2>5
<1>5. Cardinality(S) \in Nat
  BY FS_CardinalityType
<1>6. \E f : Part(f, Cardinality(S))
  BY <1>4, <1>5
<1>7. D(Cardinality(S)) = SUBSET S
  BY <1>1
<1>. HIDE DEF D
<1>. QED  BY <1>6, <1>7 DEF IsSum

(* Its value at one subset.                                                *)
LEMMA SumAt ==
    ASSUME NEW S, NEW f, IsSum(f, S), NEW T \in SUBSET S
    PROVE  f[T] = IF T = {} THEN 0 ELSE f[T \ {First(T)}] + Size[First(T)]
<1>. DEFINE e(U) == IF U = {} THEN 0 ELSE f[U \ {First(U)}] + Size[First(U)]
<1>1. f = [U \in SUBSET S |-> e(U)]
  BY DEF IsSum
<1>. HIDE DEF e
<1>2. f[T] = e(T)
  BY <1>1
<1>. QED  BY <1>2 DEF e

(* Two such functions agree.                                               *)
LEMMA SumsAgree ==
    ASSUME NEW S, NEW f, IsSum(f, S), NEW U, NEW g, IsSum(g, U),
           NEW T, T \subseteq S, T \subseteq U, IsFiniteSet(T)
    PROVE  f[T] = g[T]
<1>. DEFINE Bad == {m \in Nat : \E V \in SUBSET T : Cardinality(V) = m
                /\ f[V] # g[V]}
<1>1. \A V \in SUBSET T : IsFiniteSet(V) /\ Cardinality(V) \in Nat
  BY FS_Subset, FS_CardinalityType
<1>2. Bad = {}
  <2>. SUFFICES ASSUME Bad # {} PROVE FALSE  OBVIOUS
  <2>1. PICK m \in Bad : \A y \in Bad : m <= y
    <3>1. Bad \subseteq Nat
      OBVIOUS
    <3>. HIDE DEF Bad
    <3>. QED  BY <3>1, Least
  <2>2. PICK V \in SUBSET T : Cardinality(V) = m /\ f[V] # g[V]
    OBVIOUS
  <2>3. V \in SUBSET S /\ V \in SUBSET U
    OBVIOUS
  <2>4. V # {}
    BY <2>2, <2>3, SumAt
  <2>5. V \ {First(V)} \in SUBSET T /\ Cardinality(V \ {First(V)}) = m - 1
            /\ m - 1 \in Nat
    BY <2>2, <2>4, <1>1, Fewer
  <2>6. m - 1 \notin Bad
    BY <2>1, <2>5
  <2>7. f[V \ {First(V)}] = g[V \ {First(V)}]
    BY <2>5, <2>6
  <2>8. f[V] = f[V \ {First(V)}] + Size[First(V)]
            /\ g[V] = g[V \ {First(V)}] + Size[First(V)]
    BY <2>3, <2>4, SumAt
  <2>. QED  BY <2>2, <2>7, <2>8
<1>. QED  BY <1>1, <1>2

(* The total of a set, from the total without its first element.           *)
LEMMA BytesEquation ==
    ASSUME NEW S, IsFiniteSet(S)
    PROVE  Bytes(S) = IF S = {} THEN 0 ELSE Bytes(S \ {First(S)}) + Size[First(S)]
<1>. DEFINE f == CHOOSE h : IsSum(h, S)
            U == S \ {First(S)}
            g == CHOOSE h : IsSum(h, U)
<1>1. IsSum(f, S)
  BY SumExists
<1>2. IsFiniteSet(U)
  BY FS_RemoveElement
<1>3. IsSum(g, U)
  BY <1>2, SumExists
<1>4. f[U] = g[U]
  <2>. HIDE DEF f, g
  <2>. QED  BY <1>1, <1>2, <1>3, SumsAgree
<1>5. Bytes(S) = f[S] /\ Bytes(U) = g[U]
  BY BytesIs
<1>6. f[S] = IF S = {} THEN 0 ELSE f[S \ {First(S)}] + Size[First(S)]
  <2>. HIDE DEF f
  <2>. QED  BY <1>1, SumAt
<1>. HIDE DEF f, g
<1>. QED  BY <1>4, <1>5, <1>6

(* A total is a number.                                                    *)
LEMMA BytesNat ==
    ASSUME NEW S \in SUBSET Sources, IsFiniteSet(S)
    PROVE  Bytes(S) \in Nat
<1>. DEFINE Bad == {m \in Nat : \E V \in SUBSET S : Cardinality(V) = m
                /\ Bytes(V) \notin Nat}
<1>1. \A V \in SUBSET S : IsFiniteSet(V) /\ Cardinality(V) \in Nat
  BY FS_Subset, FS_CardinalityType
<1>2. Bad = {}
  <2>. SUFFICES ASSUME Bad # {} PROVE FALSE  OBVIOUS
  <2>1. PICK m \in Bad : \A y \in Bad : m <= y
    <3>1. Bad \subseteq Nat
      OBVIOUS
    <3>. HIDE DEF Bad
    <3>. QED  BY <3>1, Least
  <2>2. PICK V \in SUBSET S : Cardinality(V) = m /\ Bytes(V) \notin Nat
    OBVIOUS
  <2>4. V # {} /\ Bytes(V) = Bytes(V \ {First(V)}) + Size[First(V)]
    BY <2>2, <1>1, BytesEquation
  <2>5. V \ {First(V)} \in SUBSET S /\ Cardinality(V \ {First(V)}) = m - 1
            /\ m - 1 \in Nat
    BY <2>2, <2>4, <1>1, Fewer
  <2>6. m - 1 \notin Bad
    BY <2>1, <2>5
  <2>7. Bytes(V \ {First(V)}) \in Nat
    BY <2>5, <2>6
  <2>8. First(V) \in Sources /\ Size[First(V)] \in Nat
    BY <2>4, FirstIn, SizesKnown
  <2>. QED  BY <2>2, <2>4, <2>7, <2>8
<1>. QED  BY <1>1, <1>2

(* One more source adds its size, in whatever order the sum is taken.      *)
LEMMA BytesAdd ==
    ASSUME NEW S \in SUBSET Sources, IsFiniteSet(S), NEW s \in Sources \ S
    PROVE  Bytes(S \cup {s}) = Bytes(S) + Size[s]
<1>. DEFINE Wrong(V, x) == x \notin V /\ Bytes(V \cup {x}) # Bytes(V) + Size[x]
            Bad == {m \in Nat : \E V \in SUBSET S : Cardinality(V) = m
                                    /\ \E x \in Sources : Wrong(V, x)}
<1>1. \A V \in SUBSET S : IsFiniteSet(V) /\ Cardinality(V) \in Nat
          /\ Bytes(V) \in Nat
  BY FS_Subset, FS_CardinalityType, BytesNat
<1>2. Bad = {}
  <2>. SUFFICES ASSUME Bad # {} PROVE FALSE  OBVIOUS
  <2>1. PICK m \in Bad : \A y \in Bad : m <= y
    <3>1. Bad \subseteq Nat
      OBVIOUS
    <3>. HIDE DEF Bad
    <3>. QED  BY <3>1, Least
  <2>2. PICK V \in SUBSET S : Cardinality(V) = m /\ \E x \in Sources : Wrong(V, x)
    OBVIOUS
  <2>3. PICK x \in Sources : Wrong(V, x)
    BY <2>2
  <2>. DEFINE U == V \cup {x}
              p == First(U)
  <2>4. IsFiniteSet(U) /\ p \in U /\ Bytes(U) = Bytes(U \ {p}) + Size[p]
    <3>1. IsFiniteSet(U) /\ U # {}
      BY <1>1, FS_AddElement
    <3>. QED  BY <3>1, FirstIn, BytesEquation
  <2>5. Size[x] \in Nat /\ \A y \in V : Size[y] \in Nat
    BY SizesKnown
  <2>6. p # x
    <3>. SUFFICES ASSUME p = x PROVE FALSE  OBVIOUS
    <3>1. U \ {p} = V
      BY <2>3
    <3>. QED  BY <3>1, <2>4, <2>3
  <2>7. p \in V
    BY <2>6, <2>4
  <2>. HIDE DEF p
  <2>. DEFINE R == V \ {p}
  <2>8. R \in SUBSET S /\ Cardinality(R) = m - 1 /\ m - 1 \in Nat
    <3>1. Cardinality(R) = Cardinality(V) - 1
      BY <2>7, <1>1, FS_RemoveElement
    <3>2. Cardinality(R) \in Nat /\ R \in SUBSET S
      BY <1>1
    <3>. QED  BY <3>1, <3>2, <2>2
  <2>9. m - 1 \notin Bad
    <3>1. m \in Nat
      OBVIOUS
    <3>. HIDE DEF Bad, R
    <3>. QED  BY <3>1, <2>1, <2>8
  <2>10. \A y \in Sources : ~Wrong(R, y)
    <3>. HIDE DEF R, Wrong
    <3>. QED  BY <2>8, <2>9
  <2>11. Bytes(R \cup {x}) = Bytes(R) + Size[x]
             /\ Bytes(R \cup {p}) = Bytes(R) + Size[p]
    BY <2>10, <2>7, <2>3
  <2>12. R \cup {x} = U \ {p} /\ R \cup {p} = V
    BY <2>6, <2>7
  <2>13. Bytes(R) \in Nat
    BY <1>1, <2>8
  <2>14. Bytes(U) = Bytes(R) + Size[x] + Size[p] /\ Bytes(V) = Bytes(R) + Size[p]
    BY <2>11, <2>12, <2>4
  <2>15. Bytes(U) = Bytes(V) + Size[x]
    BY <2>14, <2>13, <2>5, <2>7
  <2>. QED  BY <2>15, <2>3
<1>. QED  BY <1>1, <1>2

(* The total of nothing.                                                   *)
LEMMA NoBytes == Bytes({}) = 0
BY BytesEquation, FS_EmptySet

(* The least element of a set of numbers, as the probe loop finds it.      *)
LEMMA MinIs ==
    ASSUME NEW T, T \subseteq Nat, T # {}
           PROVE Min(T) \in T /\ \A y \in T : Min(T) <= y
BY Least DEF Min

(* A probe stays in the table.                                             *)
LEMMA SlotIs ==
    ASSUME NEW s \in Sources, NEW n \in Nat, n > 0, NEW k \in Nat
    PROVE  Slot(s, k, n) \in 0..(n - 1)
BY SlotInTable, SizesKnown DEF Slot

(* The slots in use, counted by their sources.                             *)
LEMMA SlotsAreSources ==
    ASSUME NEW t, IsTable(t), NoTwice(t)
    PROVE  /\ IsFiniteSet(InUse(t)) /\ IsFiniteSet(Held(t))
           /\ Cardinality(InUse(t)) = Cardinality(Held(t))
           /\ Held(t) = {SourceAt(t, i) : i \in InUse(t)}
<1>1. Held(t) = {SourceAt(t, i) : i \in InUse(t)}
  <2>1. DOMAIN t.records = 0..(t.capacity - 1)
    BY DEF IsTable
  <2>. QED  BY <2>1 DEF Held, SourceAt, InUse
<1>2. IsFiniteSet(InUse(t))
  <2>0. 0 \in Int /\ t.capacity - 1 \in Int
    BY DEF IsTable
  <2>1. IsFiniteSet(0..(t.capacity - 1))
    BY <2>0, FS_Interval
  <2>. QED  BY <2>1, FS_Subset DEF InUse
<1>. DEFINE f == [i \in InUse(t) |-> SourceAt(t, i)]
<1>3. f \in Surjection(InUse(t), Held(t))
  BY <1>1 DEF Surjection
<1>4. f \in Injection(InUse(t), Held(t))
  BY <1>1 DEF Injection, IsInjective, NoTwice
<1>. HIDE DEF f
<1>. QED  BY <1>1, <1>2, <1>3, <1>4, FS_Surjection

(* A table that is not full has a slot that ends every probe; what a probe *)
(* passes before it is in use.                                             *)
LEMMA ProbeEnds ==
    ASSUME NEW t, IsTable(t), NoTwice(t), t.capacity > 0,
           Cardinality(Held(t)) < t.capacity, NEW s \in Sources
    PROVE  /\ ProbeLength(t, s) \in 0..(t.capacity - 1)
           /\ Slot(s, ProbeLength(t, s),
              t.capacity) \in (0..(t.capacity - 1)) \ InUse(t)
           /\ \A k \in 0..(ProbeLength(t, s) - 1) : Slot(s, k,
              t.capacity) \in InUse(t)
<1>. DEFINE n == t.capacity
            free == {k \in 0..(n - 1) : t.records[Slot(s, k, n)].epoch # t.epoch}
<1>1. n \in Nat /\ n > 0
  BY DEF IsTable
<1>2. \A k \in 0..(n - 1) : Slot(s, k, n) \in 0..(n - 1)
  BY <1>1, SlotIs
<1>3. PICK i \in 0..(n - 1) : i \notin InUse(t)
  <2>. SUFFICES ASSUME \A i \in 0..(n - 1) : i \in InUse(t) PROVE FALSE  OBVIOUS
  <2>1. InUse(t) = 0..(n - 1)
    BY DEF InUse
  <2>2. Cardinality(0..(n - 1)) = n
    BY <1>1, FS_Interval
  <2>. QED  BY <2>1, <2>2, <1>1, SlotsAreSources
<1>4. PICK k \in 0..(n - 1) : Slot(s, k, n) = i
  BY <1>1, SizesKnown, EverySlotIsProbed DEF Slot
<1>5. k \in free
  BY <1>2, <1>3, <1>4 DEF InUse
<1>6. free # {} /\ free \subseteq Nat
  BY <1>5, <1>1
<1>7. ProbeLength(t, s) = Min(free)
  BY <1>6 DEF ProbeLength
<1>8. Min(free) \in free /\ \A y \in free : Min(free) <= y
  BY <1>6, MinIs
<1>9. \A j \in 0..(Min(free) - 1) : j \in 0..(n - 1) /\ j \notin free
  BY <1>8, <1>1
<1>. QED  BY <1>1, <1>2, <1>7, <1>8, <1>9 DEF InUse

(* The search loop finds exactly what the table holds.                     *)
LEMMA FoundIsHeld ==
    ASSUME NEW t, NEW W, Stores(t, W), t.capacity > 0
               => Cardinality(W) < t.capacity,
           NEW s \in Sources
    PROVE  Found(t, s) <=> s \in W
<1>. USE DEF Stores
<1>0. Held(t) = {SourceAt(t, i) : i \in InUse(t)} /\ t.capacity \in Nat
  BY SlotsAreSources DEF IsTable
<1>1. CASE t.capacity = 0
  <2>1. InUse(t) = {}
    BY <1>1 DEF InUse
  <2>2. ProbeLength(t, s) = 0
    BY <1>1 DEF ProbeLength
  <2>. QED  BY <2>1, <2>2, <1>0 DEF Found
<1>2. CASE t.capacity > 0
  <2>. DEFINE p == ProbeLength(t, s)
  <2>1. /\ p \in 0..(t.capacity - 1)
        /\ Slot(s, p, t.capacity) \notin InUse(t)
        /\ \A k \in 0..(p - 1) : Slot(s, k, t.capacity) \in InUse(t)
    BY <1>2, ProbeEnds
  <2>. HIDE DEF p
  <2>2. ASSUME s \in W PROVE \E k \in 0..(p - 1) : SourceAt(t, Slot(s, k,
               t.capacity)) = s
    <3>1. PICK i \in InUse(t) : SourceAt(t, i) = s
      BY <2>2, <1>0
    <3>2. PICK k \in 0..(t.capacity - 1) :
            /\ Slot(s, k, t.capacity) = i
            /\ \A j \in 0..(k - 1) : Slot(s, j, t.capacity) \in InUse(t)
      BY <3>1 DEF WellPlaced, ReachedAt
    <3>3. ~(p <= k)
      BY <3>1, <3>2, <2>1
    <3>. QED  BY <3>1, <3>2, <3>3, <2>1
  <2>3. ASSUME NEW k \in 0..(p - 1), SourceAt(t, Slot(s, k, t.capacity)) = s
               PROVE s \in W
    BY <2>3, <2>1, <1>0
  <2>4. Found(t, s) <=> \E k \in 0..(p - 1) : SourceAt(t, Slot(s, k,
        t.capacity)) = s
    BY DEF Found, SourceAt, p
  <2>. QED  BY <2>2, <2>3, <2>4
<1>. QED  BY <1>0, <1>1, <1>2

(* A source that is not held takes a slot its own probe ends at, and no    *)
(* probe that was passing that slot stops there.                           *)
LEMMA InsertStores ==
    ASSUME NEW t, NEW W, Stores(t, W), t.capacity > 0, Cardinality(W) < t.capacity,
           NEW s \in Sources \ W
    PROVE  /\ Stores(Insert(t, s), W \cup {s})
           /\ Insert(t, s).capacity = t.capacity /\ Insert(t, s).count = t.count
           /\ Insert(t, s).epoch = t.epoch /\ Insert(t, s).bytes = t.bytes
           /\ \A i \in 0..(t.capacity - 1) :
                Insert(t, s).records[i].epoch \in {t.records[i].epoch, t.epoch}
<1>. DEFINE p == ProbeLength(t, s)
            n == t.capacity
            x == Slot(s, p, n)
            new == [source |-> s, epoch |-> t.epoch]
            u == Insert(t, s)
<1>. USE DEF Stores
<1>1. /\ p \in 0..(n - 1) /\ x \in 0..(n - 1) /\ x \notin InUse(t)
      /\ \A k \in 0..(p - 1) : Slot(s, k, n) \in InUse(t)
  BY ProbeEnds
<1>2. /\ n \in Nat /\ t.epoch \in Nat /\ t.records \in [0..(n - 1) -> Records]
      /\ t = [records |-> t.records, capacity |-> n, count |-> t.count,
              epoch |-> t.epoch, bytes |-> t.bytes]
  BY DEF IsTable
<1>3. u = [records |-> [t.records EXCEPT ![x] = new], capacity |-> n,
      count |-> t.count,
           epoch |-> t.epoch, bytes |-> t.bytes]
  <2>1. u = [t EXCEPT !.records[x] = new]
    BY DEF Insert
  <2>. HIDE DEF u, x, new
  <2>. QED  BY <2>1, <1>2
<1>4. new \in Records
  BY <1>2 DEF Records
<1>. HIDE DEF p, x, new, u
<1>5. IsTable(u)
  BY <1>1, <1>2, <1>3, <1>4 DEF IsTable
<1>6. /\ SourceAt(u, x) = s /\ u.records[x].epoch = t.epoch
      /\ \A i \in (0..(n - 1)) \ {x} : SourceAt(u, i) = SourceAt(t, i)
             /\ u.records[i].epoch = t.records[i].epoch
  BY <1>1, <1>2, <1>3 DEF SourceAt, new
<1>7. InUse(u) = InUse(t) \cup {x}
  BY <1>1, <1>3, <1>6 DEF InUse
<1>8. Held(t) = {SourceAt(t, i) : i \in InUse(t)}
          /\ InUse(t) \subseteq (0..(n - 1)) \ {x}
  BY SlotsAreSources, <1>1 DEF InUse
<1>9. \A i \in InUse(t) : SourceAt(u, i) = SourceAt(t, i) /\ SourceAt(t, i) # s
  BY <1>6, <1>8
<1>10. NoTwice(u)
  BY <1>6, <1>7, <1>9 DEF NoTwice
<1>11. WellPlaced(u)
  <2>1. ReachedAt(u, x)
    BY <1>1, <1>3, <1>6, <1>7 DEF ReachedAt, x
  <2>2. ASSUME NEW i \in InUse(t)
               PROVE SourceAt(u, i) \in Sources /\ ReachedAt(u, i)
    BY <1>3, <1>7, <1>9 DEF WellPlaced, ReachedAt
  <2>. QED  BY <2>1, <2>2, <1>6, <1>7 DEF WellPlaced
<1>12. Held(u) = W \cup {s}
  <2>1. Held(u) = {SourceAt(u, i) : i \in InUse(u)}
    BY <1>5, <1>10, SlotsAreSources
  <2>. QED  BY <2>1, <1>6, <1>7, <1>8, <1>9
<1>13. \A i \in 0..(n - 1) : u.records[i].epoch \in {t.records[i].epoch, t.epoch}
  BY <1>6
<1>. QED  BY <1>3, <1>5, <1>10, <1>11, <1>12, <1>13 DEF u

(* An empty table of n slots stores nothing.                               *)
LEMMA BlankStores ==
    ASSUME NEW n \in Nat, n = 0 \/ n >= 4, NEW t,
           t.records = Slots(n), t.capacity = n,
           t = [records |-> t.records, capacity |-> t.capacity, count |-> t.count,
                epoch |-> t.epoch, bytes |-> t.bytes],
           t.count \in Nat, t.epoch \in Nat, t.epoch > 0, t.bytes \in Nat
    PROVE  Stores(t, {}) /\ \A i \in 0..(n - 1) : t.records[i].epoch = 0
<1>1. Blank = [source |-> Blank.source, epoch |-> 0]
  BY DEF Blank
<1>2. Blank \in Records
  BY <1>1 DEF Records
<1>3. t.records = [i \in 0..(n - 1) |-> Blank]
  BY DEF Slots
<1>4. Blank.epoch = 0
  BY DEF Blank
<1>5. IsTable(t)
  BY <1>2, <1>3 DEF IsTable
<1>6. InUse(t) = {}
  BY <1>3, <1>4 DEF InUse
<1>7. WellPlaced(t) /\ NoTwice(t)
  BY <1>6 DEF WellPlaced, NoTwice
<1>8. Held(t) = {}
  BY <1>5, <1>6, <1>7, SlotsAreSources
<1>. QED  BY <1>3, <1>4, <1>5, <1>7, <1>8 DEF Stores

(* The larger table, empty, and the copying loop of                        *)
(* source_record_grow_locked as the function its model defines.            *)
NewSize(t) == IF t.capacity = 0 THEN InitialCapacity ELSE 2 * t.capacity

(* Growing as a function of the slots visited so far: the new table, the   *)
(* step for slot i - 1, and the recursion of Grown.                        *)
Emptied(t) == [t EXCEPT !.records = Slots(NewSize(t)), !.capacity = NewSize(t)]
Moved(t, u, i) ==
    IF t.records[i - 1].epoch = t.epoch THEN Insert(u,
    t.records[i - 1].source) ELSE u
IsMove(f, t) ==
    f = [i \in 0..t.capacity |-> IF i = 0 THEN Emptied(t) ELSE Moved(t, f[i - 1],
    i)]

(* Growing ends with the last value of that function.                      *)
LEMMA GrownIs ==
    ASSUME NEW t PROVE Grown(t) = (CHOOSE f : IsMove(f, t))[t.capacity]
BY Zenon DEF Grown, IsMove, Emptied, NewSize, Moved

(* The recursion of Grown runs down to 0, so there is such a function.     *)
LEMMA MoveExists ==
    ASSUME NEW t, t.capacity \in Nat PROVE \E f : IsMove(f, t)
<1>. DEFINE e(f, i) == IF i = 0 THEN Emptied(t) ELSE Moved(t, f[i - 1], i)
            Part(f, m) == f = [i \in 0..m |-> e(f, i)]
            Bad == {m \in Nat : ~\E f : Part(f, m)}
<1>1. 0 \notin Bad
  <2>1. 0..0 = {0}
    OBVIOUS
  <2>2. Part([i \in {0} |-> Emptied(t)], 0)
    BY <2>1
  <2>. QED  BY <2>2
<1>2. ASSUME NEW m \in Nat, m \notin Bad PROVE m + 1 \notin Bad
  <2>1. PICK f : Part(f, m)
    BY <1>2
  <2>. DEFINE g == [i \in 0..(m + 1) |-> IF i <= m THEN f[i] ELSE Moved(t, f[m],
              m + 1)]
  <2>2. ASSUME NEW i \in 0..(m + 1) PROVE g[i] = e(g, i)
    <3>1. CASE i = 0
      <4>1. f[0] = e(f, 0)
        BY <2>1
      <4>. QED  BY <4>1, <3>1
    <3>2. CASE i # 0 /\ i <= m
      <4>. HIDE DEF e
      <4>1. f[i] = e(f, i)
        BY <2>1, <3>2
      <4>2. g[i] = f[i] /\ g[i - 1] = f[i - 1]
        BY <3>2
      <4>. QED  BY <4>1, <4>2, <3>2 DEF e
    <3>3. CASE i = m + 1
      <4>1. g[i] = Moved(t, f[m], m + 1) /\ g[i - 1] = f[m] /\ i # 0
        BY <3>3
      <4>. QED  BY <4>1, <3>3
    <3>. QED  BY <3>1, <3>2, <3>3
  <2>3. Part(g, m + 1)
    <3>1. g = [i \in 0..(m + 1) |-> g[i]]
      OBVIOUS
    <3>. HIDE DEF g, e
    <3>. QED  BY <3>1, <2>2
  <2>. HIDE DEF g, Part
  <2>. QED  BY <2>3
<1>3. Bad = {}
  <2>. SUFFICES ASSUME Bad # {} PROVE FALSE  OBVIOUS
  <2>1. Bad \subseteq Nat
    OBVIOUS
  <2>. HIDE DEF Bad
  <2>2. PICK x \in Bad : \A y \in Bad : x <= y
    BY <2>1, Least
  <2>3. x \in Nat /\ x # 0 /\ x - 1 \in Nat
    BY <2>1, <1>1
  <2>4. x - 1 \notin Bad
    BY <2>2, <2>3
  <2>5. (x - 1) + 1 \notin Bad
    BY <2>3, <2>4, <1>2
  <2>. QED  BY <2>3, <2>5
<1>4. \E f : Part(f, t.capacity)
  BY <1>3
<1>. QED  BY <1>4 DEF IsMove

(* After i old slots the new table stores the sources found in them.       *)
Before(t, i) == {SourceAt(t, j) : j \in {h \in InUse(t) : h < i}}

(* After i slots the new table stores what those slots hold, and no slot   *)
(* of it has an epoch to come.                                             *)
HalfMoved(t, u, i) ==
    /\ Stores(u, Before(t, i))
    /\ u.capacity = NewSize(t) /\ u.count = t.count /\ u.epoch = t.epoch
           /\ u.bytes = t.bytes
    /\ \A k \in 0..(u.capacity - 1) : u.records[k].epoch <= t.epoch

(* One slot further.                                                       *)
LEMMA MoveStep ==
    ASSUME NEW t, NEW W, Stores(t, W), NEW i \in 1..t.capacity, NEW u, HalfMoved(t,
           u, i - 1)
    PROVE  HalfMoved(t, Moved(t, u, i), i)
<1>. DEFINE r == t.records[i - 1]
<1>0. t.capacity \in Nat /\ i - 1 \in 0..(t.capacity - 1) /\ t.epoch \in Nat
  BY DEF Stores, IsTable
<1>1. CASE i - 1 \notin InUse(t)
  <2>1. r.epoch # t.epoch
    BY <1>0, <1>1 DEF InUse
  <2>2. {h \in InUse(t) : h < i} = {h \in InUse(t) : h < i - 1}
    BY <1>0, <1>1 DEF InUse
  <2>3. Before(t, i) = Before(t, i - 1)
    BY <2>2 DEF Before
  <2>4. Moved(t, u, i) = u
    BY <2>1 DEF Moved
  <2>. QED  BY <2>3, <2>4 DEF HalfMoved
<1>2. CASE i - 1 \in InUse(t)
  <2>. DEFINE s == SourceAt(t, i - 1)
              B == Before(t, i - 1)
  <2>1. Moved(t, u, i) = Insert(u, s)
    BY <1>2 DEF Moved, InUse, SourceAt
  <2>2. {h \in InUse(t) : h < i} = {h \in InUse(t) : h < i - 1} \cup {i - 1}
    BY <1>0, <1>2 DEF InUse
  <2>3. Before(t, i) = B \cup {s}
    BY <2>2 DEF Before
  <2>4. s \in Sources \ B
    <3>1. \A j \in {h \in InUse(t) : h < i - 1} : SourceAt(t, j) # s
      BY <1>0, <1>2 DEF Stores, NoTwice, InUse
    <3>. QED  BY <3>1, <1>2 DEF Before, Stores, WellPlaced
  <2>5. u.capacity > 0 /\ Cardinality(B) < u.capacity
    <3>1. IsFiniteSet(InUse(t)) /\ IsFiniteSet(W)
              /\ Held(t) = {SourceAt(t, j) : j \in InUse(t)}
      BY SlotsAreSources DEF Stores
    <3>2. B \subseteq W
      BY <3>1 DEF Before, Stores
    <3>3. Cardinality(B) <= Cardinality(W) /\ Cardinality(B) \in Nat
              /\ Cardinality(W) \in Nat
      BY <3>1, <3>2, FS_Subset, FS_CardinalityType
    <3>4. Cardinality(W) = Cardinality(InUse(t))
      BY SlotsAreSources DEF Stores
    <3>5. Cardinality(InUse(t)) <= t.capacity
      <4>1. 0 \in Int /\ t.capacity - 1 \in Int /\ ~(0 > t.capacity - 1)
        BY <1>0
      <4>2. IsFiniteSet(0..(t.capacity - 1))
                /\ Cardinality(0..(t.capacity - 1)) = (t.capacity - 1) - 0 + 1
        BY <4>1, FS_Interval
      <4>3. InUse(t) \in SUBSET (0..(t.capacity - 1))
        BY DEF InUse
      <4>4. Cardinality(InUse(t)) <= Cardinality(0..(t.capacity - 1))
        BY <4>2, <4>3, FS_Subset
      <4>. QED  BY <4>2, <4>4, <1>0
    <3>6. u.capacity = 2 * t.capacity
      BY <1>0 DEF HalfMoved, NewSize
    <3>. QED  BY <3>3, <3>4, <3>5, <3>6, <1>0
  <2>6. Stores(u, B)
    BY DEF HalfMoved
  <2>. HIDE DEF s, B
  <2>7. /\ Stores(Insert(u, s), B \cup {s})
        /\ Insert(u, s).capacity = u.capacity /\ Insert(u, s).count = u.count
        /\ Insert(u, s).epoch = u.epoch /\ Insert(u, s).bytes = u.bytes
        /\ \A k \in 0..(u.capacity - 1) : Insert(u,
           s).records[k].epoch \in {u.records[k].epoch, u.epoch}
    BY <2>4, <2>5, <2>6, InsertStores
  <2>8. \A k \in 0..(u.capacity - 1) : Insert(u, s).records[k].epoch <= t.epoch
    BY <2>7, <1>0 DEF HalfMoved
  <2>. QED  BY <2>1, <2>3, <2>7, <2>8 DEF HalfMoved
<1>. QED  BY <1>1, <1>2

(* Growing keeps the contents and loses nothing on the way.                *)
LEMMA GrownStores ==
    ASSUME NEW t, NEW W, Stores(t, W), t.epoch > 0
    PROVE  /\ Stores(Grown(t), W)
           /\ Grown(t).capacity = NewSize(t) /\ Grown(t).count = t.count
           /\ Grown(t).epoch = t.epoch /\ Grown(t).bytes = t.bytes
           /\ \A k \in 0..(Grown(t).capacity - 1) :
                  Grown(t).records[k].epoch <= t.epoch
<1>. DEFINE f == CHOOSE g : IsMove(g, t)
<1>0. IsTable(t) /\ t.capacity \in Nat /\ t.epoch \in Nat
  BY DEF Stores, IsTable
<1>1. IsMove(f, t)
  BY <1>0, MoveExists
<1>. HIDE DEF f
<1>2. /\ f[0] = Emptied(t)
      /\ \A i \in 1..t.capacity : f[i] = Moved(t, f[i - 1], i)
  <2>. DEFINE e(i) == IF i = 0 THEN Emptied(t) ELSE Moved(t, f[i - 1], i)
  <2>1. f = [i \in 0..t.capacity |-> e(i)]
    BY <1>1 DEF IsMove
  <2>. HIDE DEF e
  <2>2. \A i \in 0..t.capacity : f[i] = e(i)
    BY <2>1
  <2>. QED  BY <2>2, <1>0 DEF e
<1>. DEFINE Bad == {i \in Nat : i <= t.capacity /\ ~HalfMoved(t, f[i], i)}
<1>3. 0 \notin Bad
  <2>. DEFINE n == NewSize(t)
  <2>1. n \in Nat /\ n >= 4
    BY <1>0, CapacityIsPowerOfTwo DEF NewSize, IsTable
  <2>2. f[0] = [records |-> Slots(n), capacity |-> n, count |-> t.count,
        epoch |-> t.epoch, bytes |-> t.bytes]
    BY <1>2, <1>0 DEF Emptied, IsTable
  <2>. HIDE DEF n
  <2>3. Stores(f[0], {}) /\ \A i \in 0..(n - 1) : f[0].records[i].epoch = 0
    <3>1. t.count \in Nat /\ t.bytes \in Nat
      BY <1>0 DEF IsTable
    <3>. QED  BY <2>1, <2>2, <3>1, <1>0, BlankStores
  <2>4. Before(t, 0) = {}
    BY <1>0 DEF Before, InUse
  <2>5. HalfMoved(t, f[0], 0)
    BY <2>2, <2>3, <2>4, <1>0 DEF HalfMoved, n
  <2>. QED  BY <2>5
<1>4. Bad = {}
  <2>. SUFFICES ASSUME Bad # {} PROVE FALSE  OBVIOUS
  <2>1. Bad \subseteq Nat /\ \A x \in Bad : x <= t.capacity
    OBVIOUS
  <2>2. PICK x \in Bad : \A y \in Bad : x <= y
    <3>. HIDE DEF Bad
    <3>. QED  BY <2>1, Least
  <2>3. x \in Nat /\ x # 0 /\ x - 1 \in Nat /\ x \in 1..t.capacity
            /\ x - 1 <= t.capacity
    <3>. HIDE DEF Bad
    <3>. QED  BY <2>1, <2>2, <1>3, <1>0
  <2>4. x - 1 \notin Bad
    <3>. HIDE DEF Bad
    <3>. QED  BY <2>2, <2>3
  <2>5. HalfMoved(t, f[x - 1], x - 1)
    BY <2>3, <2>4
  <2>6. HalfMoved(t, f[x], x)
    BY <2>3, <2>5, <1>2, MoveStep
  <2>. QED  BY <2>6
<1>5. HalfMoved(t, f[t.capacity], t.capacity)
  BY <1>4, <1>0
<1>6. Before(t, t.capacity) = W
  <2>1. {h \in InUse(t) : h < t.capacity} = InUse(t)
    BY <1>0 DEF InUse
  <2>2. Held(t) = {SourceAt(t, j) : j \in InUse(t)}
    BY SlotsAreSources DEF Stores
  <2>. QED  BY <2>1, <2>2 DEF Before, Stores
<1>7. Grown(t) = f[t.capacity]
  BY GrownIs DEF f
<1>. QED  BY <1>5, <1>6, <1>7 DEF HalfMoved

(* The window is counted, and the table never full.                        *)
LEMMA WindowCounts ==
    ASSUME NEW t, NEW W, TableInv(t, W)
    PROVE  /\ Cardinality(W) \in Nat /\ Bytes(W) \in Nat
           /\ t.capacity > 0 => Cardinality(W) < t.capacity
<1>1. Cardinality(W) \in Nat /\ Bytes(W) \in Nat
  BY FS_CardinalityType, BytesNat DEF TableInv
<1>2. t.capacity > 0 => Cardinality(W) < t.capacity
  BY <1>1 DEF TableInv, Stores, IsTable, HasRoom
<1>. QED  BY <1>1, <1>2

(* A new table.                                                            *)
LEMMA EmptyTableInv == TableInv(EmptyTable, {})
<1>1. EmptyTable = [records |-> Slots(0), capacity |-> 0, count |-> 0, epoch |-> 1,
      bytes |-> 0]
  BY DEF EmptyTable
<1>2. Stores(EmptyTable, {})
  BY <1>1, BlankStores
<1>3. NoFuture(EmptyTable) /\ HasRoom(EmptyTable)
  BY <1>1, EpochsWrap DEF NoFuture, HasRoom
<1>. QED  BY <1>1, <1>2, <1>3, FS_EmptySet, NoBytes DEF TableInv

(* source_window_clear_locked: no slot of an earlier epoch comes to life.  *)
LEMMA ClearedInv ==
    ASSUME NEW t, NEW W, TableInv(t, W)
    PROVE  TableInv(Cleared(t), {})
<1>. DEFINE u == Cleared(t)
<1>0. /\ t = [records |-> t.records, capacity |-> t.capacity, count |-> t.count,
              epoch |-> t.epoch, bytes |-> t.bytes]
      /\ t.capacity \in Nat /\ t.epoch \in Nat
             /\ (t.capacity = 0 \/ t.capacity >= 4)
      /\ t.records \in [0..(t.capacity - 1) -> Records]
  BY DEF TableInv, Stores, IsTable
<1>1. CASE t.epoch + 1 = EpochLimit
  <2>1. u = [records |-> Slots(t.capacity), capacity |-> t.capacity, count |-> 0,
        epoch |-> 1, bytes |-> 0]
    <3>1. u = [t EXCEPT !.count = 0, !.bytes = 0, !.epoch = 1,
          !.records = Slots(t.capacity)]
      BY <1>1 DEF Cleared
    <3>. HIDE DEF u
    <3>. QED  BY <3>1, <1>0
  <2>2. Stores(u, {}) /\ \A i \in 0..(t.capacity - 1) : u.records[i].epoch = 0
    <3>. HIDE DEF u
    <3>. QED  BY <2>1, <1>0, BlankStores
  <2>3. NoFuture(u) /\ HasRoom(u)
    <3>. HIDE DEF u
    <3>. QED  BY <2>1, <2>2, <1>0, EpochsWrap DEF NoFuture, HasRoom
  <2>. HIDE DEF u
  <2>4. TableInv(u, {})
    BY <2>1, <2>2, <2>3, FS_EmptySet, NoBytes DEF TableInv
  <2>. QED  BY <2>4 DEF u
<1>2. CASE t.epoch + 1 # EpochLimit
  <2>1. u = [records |-> t.records, capacity |-> t.capacity, count |-> 0,
        epoch |-> t.epoch + 1, bytes |-> 0]
    <3>1. u = [t EXCEPT !.count = 0, !.bytes = 0, !.epoch = t.epoch + 1,
          !.records = t.records]
      BY <1>2 DEF Cleared
    <3>. HIDE DEF u
    <3>. QED  BY <3>1, <1>0
  <2>. HIDE DEF u
  <2>2. \A i \in 0..(t.capacity - 1) : t.records[i].epoch \in Nat
            /\ t.records[i].epoch <= t.epoch
    BY <1>0 DEF TableInv, NoFuture, Records
  <2>3. InUse(u) = {}
    BY <2>1, <2>2, <1>0 DEF InUse
  <2>4. IsTable(u) /\ WellPlaced(u) /\ NoTwice(u)
    BY <2>1, <2>3, <1>0 DEF IsTable, WellPlaced, NoTwice
  <2>5. Held(u) = {}
    BY <2>3, <2>4, SlotsAreSources
  <2>6. NoFuture(u)
    BY <2>1, <2>2, <1>0, <1>2, EpochsWrap DEF NoFuture, TableInv
  <2>7. HasRoom(u)
    BY <2>1, <1>0 DEF HasRoom
  <2>8. TableInv(u, {})
    BY <2>1, <2>4, <2>5, <2>6, <2>7, FS_EmptySet, NoBytes DEF TableInv, Stores
  <2>. QED  BY <2>8 DEF u
<1>. QED  BY <1>1, <1>2

(* source_record_grow_locked                                               *)
LEMMA GrownInv ==
    ASSUME NEW t, NEW W, TableInv(t, W), MustGrow(t)
    PROVE  TableInv(Grown(t), W) /\ ~MustGrow(Grown(t)) /\ Grown(t).bytes = t.bytes
<1>. DEFINE u == Grown(t)
<1>1. /\ Stores(u, W) /\ u.capacity = NewSize(t) /\ u.count = t.count
      /\ u.epoch = t.epoch /\ u.bytes = t.bytes
      /\ \A k \in 0..(u.capacity - 1) : u.records[k].epoch <= t.epoch
  BY GrownStores DEF TableInv, NoFuture
<1>. HIDE DEF u
<1>2. /\ t.capacity \in Nat /\ t.count \in Nat
             /\ (t.capacity = 0 \/ t.capacity >= 4)
  BY DEF TableInv, Stores, IsTable
<1>3. NewSize(t) \in Nat /\ NewSize(t) > 0
          /\ t.count + 1 <= NewSize(t) - NewSize(t) \div 4
  <2>1. CASE t.capacity = 0
    <3>1. t.count = 0
      <4>1. InUse(t) = {}
        BY <2>1 DEF InUse
      <4>2. Held(t) = {}
        BY <4>1, SlotsAreSources DEF TableInv, Stores
      <4>. QED  BY <4>2, FS_EmptySet DEF TableInv, Stores
    <3>. QED  BY <2>1, <3>1, CapacityIsPowerOfTwo DEF NewSize
  <2>2. CASE t.capacity >= 4
    <3>1. t.count <= t.capacity - t.capacity \div 4
      BY <2>2, <1>2 DEF TableInv, HasRoom
    <3>. QED  BY <3>1, <2>2, <1>2 DEF NewSize
  <2>. QED  BY <2>1, <2>2, <1>2
<1>4. HasRoom(u) /\ ~MustGrow(u)
  BY <1>1, <1>2, <1>3 DEF HasRoom, MustGrow
<1>5. NoFuture(u)
  BY <1>1 DEF NoFuture, TableInv
<1>6. TableInv(u, W)
  BY <1>1, <1>4, <1>5 DEF TableInv
<1>. QED  BY <1>1, <1>4, <1>6 DEF u

(* source_window_record_locked, whatever fails in it.                      *)
LEMMA RecordedInv ==
    ASSUME NEW t, NEW W, TableInv(t, W), NEW s \in Sources,
           NEW allocated \in BOOLEAN
    PROVE  LET rec == Recorded(t, s, allocated)
           IN  IF rec.ok THEN TableInv(rec.tab, W \cup {s}) ELSE TableInv(rec.tab,
           W)
<1>. DEFINE rec == Recorded(t, s, allocated)
<1>0. /\ t.capacity > 0 => Cardinality(W) < t.capacity
      /\ Cardinality(W) \in Nat /\ Bytes(W) \in Nat
  BY WindowCounts
<1>1. Found(t, s) <=> s \in W
  BY <1>0, FoundIsHeld DEF TableInv
<1>2. CASE Found(t, s)
  <2>1. rec = [ok |-> TRUE, tab |-> t] /\ W \cup {s} = W
    BY <1>1, <1>2 DEF Recorded
  <2>. QED  BY <2>1
<1>3. CASE ~Found(t, s) /\ MustGrow(t) /\ ~allocated
  <2>1. rec = [ok |-> FALSE, tab |-> t]
    BY <1>3 DEF Recorded
  <2>. QED  BY <2>1
<1>4. CASE ~Found(t, s) /\ ~(MustGrow(t) /\ ~allocated)
  <2>. DEFINE room == IF MustGrow(t) THEN Grown(t) ELSE t
              made == [Insert(room, s) EXCEPT !.count = @ + 1,
              !.bytes = @ + Size[s]]
  <2>1. TableInv(room, W) /\ ~MustGrow(room) /\ room.bytes = t.bytes
    BY GrownInv
  <2>2. rec = IF Size[s] > MaxBytes - t.bytes THEN [ok |-> FALSE, tab |-> room]
              ELSE [ok |-> TRUE, tab |-> made]
    BY <1>4 DEF Recorded
  <2>. HIDE DEF room
  <2>3. s \notin W
    BY <1>1, <1>4
  <2>4. /\ room.capacity \in Nat /\ room.capacity > 0 /\ room.count \in Nat
               /\ room.bytes \in Nat
        /\ room.count + 1 <= room.capacity - room.capacity \div 4
    BY <2>1 DEF TableInv, Stores, IsTable, MustGrow
  <2>5. Cardinality(W) < room.capacity
    BY <2>1, <2>4, WindowCounts
  <2>. DEFINE v == Insert(room, s)
  <2>6. /\ Stores(v, W \cup {s})
        /\ v.capacity = room.capacity /\ v.count = room.count
               /\ v.epoch = room.epoch /\ v.bytes = room.bytes
        /\ \A i \in 0..(room.capacity - 1) : v.records[i].epoch
               \in {room.records[i].epoch, room.epoch}
    BY <2>1, <2>3, <2>4, <2>5, InsertStores DEF TableInv
  <2>. HIDE DEF v
  <2>7. made = [records |-> v.records, capacity |-> v.capacity,
        count |-> v.count + 1,
                epoch |-> v.epoch, bytes |-> v.bytes + Size[s]]
    <3>1. v = [records |-> v.records, capacity |-> v.capacity, count |-> v.count,
               epoch |-> v.epoch, bytes |-> v.bytes]
      BY <2>6 DEF Stores, IsTable
    <3>2. made = [v EXCEPT !.count = @ + 1, !.bytes = @ + Size[s]]
      BY DEF v
    <3>. HIDE DEF made
    <3>. QED  BY <3>1, <3>2
  <2>. HIDE DEF made
  <2>8. Size[s] \in Nat
    BY SizesKnown
  <2>9. InUse(made) = InUse(v) /\ \A i : SourceAt(made, i) = SourceAt(v, i)
    BY <2>7 DEF InUse, SourceAt
  <2>10. Stores(made, W \cup {s})
    <3>1. IsTable(made)
      <4>1. IsTable(v)
        BY <2>6 DEF Stores
      <4>. QED  BY <4>1, <2>7, <2>8 DEF IsTable
    <3>2. WellPlaced(made)
      BY <2>6, <2>7, <2>9 DEF Stores, WellPlaced, ReachedAt
    <3>3. NoTwice(made)
      BY <2>6, <2>9 DEF Stores, NoTwice
    <3>4. Held(made) = Held(v)
      BY <2>7 DEF Held
    <3>. QED  BY <3>1, <3>2, <3>3, <3>4, <2>6 DEF Stores
  <2>11. NoFuture(made)
    <3>1. room.epoch \in Nat
      BY <2>1 DEF TableInv, Stores, IsTable
    <3>. QED  BY <3>1, <2>1, <2>6, <2>7 DEF NoFuture, TableInv
  <2>12. HasRoom(made)
    BY <2>4, <2>6, <2>7 DEF HasRoom
  <2>13. /\ IsFiniteSet(W \cup {s}) /\ Cardinality(W \cup {s}) = Cardinality(W) + 1
         /\ Bytes(W \cup {s}) = Bytes(W) + Size[s] /\ W \cup {s} \subseteq Sources
    BY <2>3, FS_AddElement, BytesAdd DEF TableInv
  <2>14. TableInv(made, W \cup {s})
    BY <2>1, <2>6, <2>7, <2>10, <2>11, <2>12, <2>13 DEF TableInv
  <2>15. CASE Size[s] > MaxBytes - t.bytes
    <3>1. rec = [ok |-> FALSE, tab |-> room]
      BY <2>2, <2>15
    <3>. HIDE DEF rec
    <3>2. IF rec.ok THEN TableInv(rec.tab, W \cup {s}) ELSE TableInv(rec.tab, W)
      BY <3>1, <2>1
    <3>. QED  BY <3>2 DEF rec
  <2>16. CASE ~(Size[s] > MaxBytes - t.bytes)
    <3>1. rec = [ok |-> TRUE, tab |-> made]
      BY <2>2, <2>16
    <3>. HIDE DEF rec
    <3>2. IF rec.ok THEN TableInv(rec.tab, W \cup {s}) ELSE TableInv(rec.tab, W)
      BY <3>1, <2>14
    <3>. QED  BY <3>2 DEF rec
  <2>. QED  BY <2>15, <2>16
<1>. QED  BY <1>2, <1>3, <1>4

(* finish_protocol_transaction_locked keeps the table and the residency,   *)
(* whatever the channel did to the process, as long as a source the        *)
(* surviving process took is the one that is recorded.                     *)
LEMMA FinishInv ==
    ASSUME RInv, NEW p, NEW s, s = {} \/ \E x \in Sources : s = {x},
           p = [pid |-> p.pid, spawned |-> p.spawned, resident |-> p.resident],
           p.pid # NoProcess
               => p.resident \subseteq (IF p.pid = pid
                   THEN resident ELSE {}) \cup s,
           Finish(p, s), budget' = budget
    PROVE  RInv'
<1>. DEFINE kept == IF ProcessChanged(p) THEN Cleared(tab) ELSE tab
            old == IF ProcessChanged(p) THEN {} ELSE window
            rec(a) == IF budget = 0 \/ s = {} THEN [ok |-> TRUE, tab |-> kept]
                      ELSE Recorded(kept, CHOOSE x \in s : TRUE, a)
            recycled(a) == rec(a).ok /\ p.pid # NoProcess
                /\ RequiresRecycle(rec(a).tab)
            full == IF budget = 0 THEN old ELSE old \cup s
<1>0. PICK a \in BOOLEAN :
        /\ Settle(IF ~rec(a).ok \/ recycled(a) THEN Stopped(p) ELSE p)
        /\ IF ~rec(a).ok /\ p.pid # NoProcess THEN ClearWindow(Cleared(rec(a).tab))
           ELSE IF ~rec(a).ok \/ recycled(a) THEN ClearWindow(rec(a).tab)
           ELSE tab' = rec(a).tab /\ window' = full
  BY Zenon DEF Finish
<1>. DEFINE r == rec(a)
            again == recycled(a)
<1>1. TableInv(kept, old)
  BY ClearedInv DEF RInv
<1>2. IF r.ok THEN TableInv(r.tab, full) ELSE TableInv(r.tab, old)
  <2>1. CASE budget = 0 \/ s = {}
    <3>1. r = [ok |-> TRUE, tab |-> kept] /\ full = old
      BY <2>1
    <3>. HIDE DEF r, full, kept, old
    <3>. QED  BY <3>1, <1>1
  <2>2. CASE ~(budget = 0 \/ s = {})
    <3>. DEFINE x == CHOOSE y \in s : TRUE
    <3>1. x \in Sources /\ s = {x}
      BY <2>2
    <3>2. r = Recorded(kept, x, a) /\ full = old \cup {x}
      BY <2>2, <3>1
    <3>. HIDE DEF r, full, kept, old, x
    <3>. QED  BY <3>1, <3>2, <1>1, RecordedInv
  <2>. QED  BY <2>1, <2>2
<1>3. again <=> r.ok /\ p.pid # NoProcess /\ RequiresRecycle(r.tab)
  OBVIOUS
<1>4. /\ Settle(IF ~r.ok \/ again THEN Stopped(p) ELSE p)
      /\ IF ~r.ok /\ p.pid # NoProcess THEN ClearWindow(Cleared(r.tab))
         ELSE IF ~r.ok \/ again THEN ClearWindow(r.tab)
         ELSE tab' = r.tab /\ window' = full
  BY <1>0
<1>. HIDE DEF r, again, rec, recycled
<1>5. CASE ~r.ok \/ again
  <2>1. PICK V : TableInv(r.tab, V)
    BY <1>2
  <2>2. TableInv(Cleared(r.tab), {}) /\ TableInv(Cleared(Cleared(r.tab)), {})
    BY <2>1, ClearedInv
  <2>3. TableInv(tab, window)'
    <3>1. TableInv(tab', window')
      BY <2>2, <1>4, <1>5 DEF ClearWindow
    <3>. QED  BY <3>1
  <2>4. pid' = NoProcess
    BY <1>4, <1>5 DEF Settle, Stopped
  <2>. QED  BY <2>3, <2>4 DEF RInv, ResidentInv
<1>6. CASE ~(~r.ok \/ again)
  <2>1. TableInv(r.tab, full) /\ tab' = r.tab /\ window' = full
    BY <1>2, <1>4, <1>6
  <2>2. pid' = p.pid /\ resident' = p.resident
    BY <1>4, <1>6 DEF Settle
  <2>3. TableInv(tab, window)'
    BY <2>1
  <2>4. ASSUME p.pid # NoProcess, budget # 0
        PROVE  /\ p.resident \subseteq full
               /\ Cardinality(full) <= 1 \/ Bytes(full) <= budget
    <3>1. full = old \cup s
      BY <2>4
    <3>2. p.pid = pid => resident \subseteq old
      BY <2>4 DEF RInv, ResidentInv, ProcessChanged
    <3>3. ~RequiresRecycle(r.tab)
      BY <1>3, <1>6, <2>4
    <3>4. /\ r.tab.count = Cardinality(full) /\ r.tab.bytes = Bytes(full)
          /\ Cardinality(full) \in Nat /\ Bytes(full) \in Nat /\ budget \in Nat
      BY <2>1, WindowCounts DEF TableInv, RInv
    <3>5. Cardinality(full) <= 1 \/ Bytes(full) <= budget
      BY <3>3, <3>4, <2>4 DEF RequiresRecycle
    <3>. QED  BY <3>1, <3>2, <3>5, <2>4
  <2>5. ResidentInv'
    <3>. HIDE DEF full
    <3>. QED  BY <2>1, <2>2, <2>4 DEF ResidentInv
  <2>. QED  BY <2>3, <2>5 DEF RInv
<1>. QED  BY <1>5, <1>6

(* A call of the channel gives its source only to a process it leaves      *)
(* alive after an answer.                                                  *)
LEMMA TransactionInv ==
    ASSUME RInv, NEW endings, endings \subseteq Endings, NEW s, NEW noted,
           s = {} \/ \E x \in Sources : s = {x},
           s = {} \/ "served" \in noted,
           Transaction(endings, s, noted)
    PROVE  RInv'
<1>0. PICK sent \in UNION {{<<ChannelCall(e, s, after),
      IF e \in noted THEN s ELSE {}>> :
                                after \in AfterEnding(e)} : e
                                    \in endings} : Finish(sent[1], sent[2])
  BY DEF Transaction
<1>e. PICK e \in endings : \E after \in AfterEnding(e) :
          sent = <<ChannelCall(e, s, after), IF e \in noted THEN s ELSE {}>>
  BY <1>0
<1>a. PICK after \in AfterEnding(e) :
          sent = <<ChannelCall(e, s, after), IF e \in noted THEN s ELSE {}>>
  BY <1>e
<1>1. Finish(ChannelCall(e, s, after), IF e \in noted THEN s ELSE {})
  BY <1>0, <1>a
<1>. DEFINE p == ChannelCall(e, s, after)
            n == IF e \in noted THEN s ELSE {}
<1>2. p = [pid |-> p.pid, spawned |-> p.spawned, resident |-> p.resident]
          /\ p.pid = after
  BY DEF ChannelCall
<1>3. p.pid # NoProcess
          => p.resident \subseteq (IF p.pid = pid THEN resident ELSE {}) \cup n
  <2>. SUFFICES ASSUME after # NoProcess
                PROVE p.resident \subseteq (IF after = pid
                          THEN resident ELSE {}) \cup n
    BY <1>2
  <2>1. e \notin {"broken", "withdrawn"}
    BY DEF AfterEnding, NoProcess
  <2>2. Submits(e) => e = "served"
    BY <2>1 DEF Submits
  <2>3. (IF Submits(e) THEN s ELSE {}) \subseteq n
    BY <2>2
  <2>4. p.resident = (IF after = pid THEN resident ELSE {}) \cup (IF Submits(e)
            THEN s ELSE {})
    BY DEF ChannelCall
  <2>. QED  BY <2>3, <2>4
<1>4. (n = {} \/ \E x \in Sources : n = {x}) /\ Finish(p, n) /\ budget' = budget
  BY <1>1 DEF Transaction
<1>. HIDE DEF p, n
<1>. QED  BY <1>2, <1>3, <1>4, FinishInv

(* The steps that wipe the window or drop the process.                     *)
LEMMA WindowInv ==
    ASSUME TableInv(tab', window'), budget' \in Nat, pid' = NoProcess \/ budget' = 0
    PROVE  RInv'
<1>1. TableInv(tab, window)'
  OBVIOUS
<1>. QED  BY <1>1 DEF RInv, ResidentInv

(* Every entry point keeps the invariant: the requests through             *)
(* TransactionInv, the others through what they wipe.                      *)
LEMMA ResidencyStep ==
    ASSUME RInv, [ResidencyNext]_rvars
    PROVE  RInv'
<1>0. TableInv(tab, window) /\ budget \in Nat
  BY DEF RInv
<1>1. CASE Create
  BY <1>1, EmptyTableInv, WindowInv DEF Create
<1>2. CASE Destroy
  BY <1>2, EmptyTableInv, WindowInv DEF Destroy
<1>3. CASE RecycleProcess
  BY <1>0, <1>3, ClearedInv, WindowInv DEF RecycleProcess, ClearWindow
<1>4. CASE Identify
  BY <1>0, <1>4, WindowInv DEF Identify, Settle, Stopped, sources
<1>5. CASE SourcelessRequest
  BY <1>5, TransactionInv DEF SourcelessRequest, Endings
<1>6. ASSUME NEW b \in Budgets, SetBudget(b) PROVE RInv'
  BY <1>0, <1>6, BudgetsAreNat, ClearedInv, WindowInv DEF SetBudget, ClearWindow
<1>7. ASSUME NEW s \in Sources, RecordingRequest(s) PROVE RInv'
  BY <1>7, TransactionInv DEF RecordingRequest, Endings
<1>8. ASSUME NEW s \in Sources, ResponseRequest(s) PROVE RInv'
  BY <1>8, TransactionInv DEF ResponseRequest, Endings
<1>9. ASSUME NEW s \in Sources, ComputeRequest(s) PROVE RInv'
  BY <1>9, TransactionInv DEF ComputeRequest, Endings
<1>10. CASE UNCHANGED rvars
  <2>1. TableInv(tab', window')
    BY <1>0, <1>10 DEF rvars
  <2>2. TableInv(tab, window)'
    BY <2>1
  <2>. QED  BY <2>2, <1>10 DEF RInv, ResidentInv, rvars
<1>. QED  BY <1>1, <1>2, <1>3, <1>4, <1>5, <1>6, <1>7, <1>8, <1>9, <1>10
         DEF ResidencyNext

(* The invariant at the start.                                             *)
LEMMA ResidencyStarts == ASSUME ResidencyInit PROVE RInv
<1>1. TableInv(tab, window)
  BY EmptyTableInv DEF ResidencyInit
<1>. QED  BY <1>1 DEF ResidencyInit, RInv, ResidentInv

(* The two properties.                                                     *)
LEMMA TableAnswers ==
    ASSUME RInv PROVE TableIsWindow
<1>1. TableInv(tab, window)
  BY DEF RInv
<1>2. /\ tab.capacity > 0 => Cardinality(window) < tab.capacity
  BY <1>1, WindowCounts
<1>3. \A s \in Sources : Found(tab, s) <=> s \in window
  BY <1>1, <1>2, FoundIsHeld DEF TableInv
<1>4. tab.capacity > 0 => \A s \in Sources : ProbeLength(tab, s) < tab.capacity
  <2>1. IsTable(tab) /\ NoTwice(tab) /\ Held(tab) = window /\ tab.capacity \in Nat
    BY <1>1 DEF TableInv, Stores, IsTable
  <2>. QED  BY <1>2, <2>1, ProbeEnds
<1>. QED  BY <1>1, <1>3, <1>4 DEF TableIsWindow, TableInv, Stores

(* The invariant bounds the residency.                                     *)
LEMMA ResidencyFits ==
    ASSUME RInv PROVE ResidencyBounded
<1>1. Held(tab) = window
  BY DEF RInv, TableInv, Stores
<1>. QED  BY <1>1 DEF RInv, ResidentInv, ResidencyBounded

(* For any sources, sizes and hash values, any initial capacity, epoch     *)
(* range and budgets: source_window_record_locked finds a source exactly   *)
(* when it was recorded since the window was last cleared, its probe loops *)
(* end within one turn around the table, and count and bytes are those of  *)
(* the set recorded; growth, wrapping epochs and failed allocations        *)
(* included.                                                               *)
THEOREM TableIsTheWindow == ResidencySpec => []TableIsWindow
<1>1. ResidencyInit => RInv
  BY ResidencyStarts
<1>2. RInv /\ [ResidencyNext]_rvars => RInv'
  BY ResidencyStep
<1>3. RInv => TableIsWindow
  BY TableAnswers
<1>. QED  BY <1>1, <1>2, <1>3, PTL DEF ResidencySpec

(* For the same constants: a source the live compiler process holds is in  *)
(* the window, and the window is within the budget or a single source,     *)
(* whichever entry points ran and however the processes ended.             *)
THEOREM ResidencyStaysBounded == ResidencySpec => []ResidencyBounded
<1>1. ResidencyInit => RInv
  BY ResidencyStarts
<1>2. RInv /\ [ResidencyNext]_rvars => RInv'
  BY ResidencyStep
<1>3. RInv => ResidencyBounded
  BY ResidencyFits
<1>. QED  BY <1>1, <1>2, <1>3, PTL DEF ResidencySpec

=============================================================================
