------------------------- MODULE SingleFlightProofs -------------------------
(***************************************************************************)
(* Proofs about SingleFlight for any number of threads, keys, heap cells   *)
(* and calls.  The properties are not inductive by themselves: "the last   *)
(* participant frees the entry" is only safe because the counter equals    *)
(* the number of callers that point at the entry, and that in turn needs   *)
(* the pointers to stay on the list.  Inv collects these facts.            *)
(***************************************************************************)
EXTENDS SingleFlight, FiniteSetTheorems, TLAPS

(* A thread inside a call has a key and a call number; numbers are unique. *)
CallsInv ==
    /\ \A t \in Threads : pc[t] # "idle" => call[t] \in CallIds /\ key[t] \in Keys
    /\ \A t \in Threads : call[t] <= calls
    /\ \A n \in returned : n <= calls
    /\ \A t, u \in Threads : t # u /\ call[t] # 0 => call[t] # call[u]

(* A participant points at a linked entry of its own key; keys on the list *)
(* are unique; linked cells are allocated.                                 *)
TableInv ==
    /\ linked \subseteq live
    /\ \A t \in Threads : pc[t] \in Participating =>
         at[t] \in linked /\ entry[at[t]].key = key[t]
    /\ \A c, d \in linked : entry[c].key = entry[d].key => c = d

(* The counter of a linked entry is positive and counts its participants.  *)
CountInv ==
    \A c \in linked :
        /\ entry[c].participants = Cardinality(Participants(c))
        /\ entry[c].participants # 0

(* An owned entry is incomplete and has one owner; a leaving joiner's is   *)
(* complete; a complete entry holds the outcome of an operation for its    *)
(* own key.                                                                *)
FlightInv ==
    /\ \A t \in Threads : pc[t] = "own" => ~entry[at[t]].completed
    /\ \A t, u \in Threads :
         pc[t] = "own" /\ pc[u] = "own" /\ at[t] = at[u] => t = u
    /\ \A t \in Threads : pc[t] = "leave" => entry[at[t]].completed
    /\ \A c \in linked : entry[c].completed =>
         entry[c].outcome.key = entry[c].key /\ entry[c].outcome.exec # 0

(* An allocated cell is linked, or about to be freed by exactly one thread.*)
FreeInv ==
    /\ \A t \in Threads : pc[t] = "free" => at[t] \in live \ linked
    /\ \A t, u \in Threads :
         pc[t] = "free" /\ pc[u] = "free" /\ at[t] = at[u] => t = u
    /\ \A c \in live : c \in linked \/ \E t \in Threads : pc[t] = "free" /\ at[t] = c

Inv == TypeOK /\ CallsInv /\ TableInv /\ CountInv /\ FlightInv /\ FreeInv
         /\ OutcomeForMyKey

-----------------------------------------------------------------------------
(* The participants of a cell form a finite set.                           *)
LEMMA ParticipantsFinite ==
    ASSUME NEW c PROVE IsFiniteSet(Participants(c)) /\ Cardinality(Participants(c)) \in Nat
<1>1. Participants(c) \subseteq Threads
  BY DEF Participants
<1>. QED  BY <1>1, ThreadsFinite, FS_Subset, FS_CardinalityType

LEMMA InitInv == Init => Inv
<1>. SUFFICES ASSUME Init PROVE Inv  OBVIOUS
<1>1. TypeOK
  BY MaxCallsIsNat DEF Init, TypeOK, Entries, FreedEntry, Outcomes, NoOutcome, PCs,
     CallIds
<1>2. \A t \in Threads : pc[t] = "idle" /\ call[t] = 0
  BY DEF Init
<1>. QED
  BY <1>1, <1>2 DEF Init, Inv, CallsInv, TableInv, CountInv, FlightInv, FreeInv,
     OutcomeForMyKey, Participating

-----------------------------------------------------------------------------
(* Steps that only move threads that hold no entry, or move a participant  *)
(* between states that hold one, disturb no participant set.               *)
LEMMA SameParticipants ==
    ASSUME at' = at,
           \A u \in Threads : (pc'[u] \in Participating) <=> (pc[u] \in Participating)
    PROVE  \A c : Participants(c)' = Participants(c)
BY DEF Participants

LEMMA StartInv ==
    ASSUME Inv, NEW t \in Threads, NEW k \in Keys, Start(t, k)
    PROVE  Inv'
<1>. USE DEF Inv
<1>0. calls + 1 \in CallIds /\ calls \in Nat
  BY MaxCallsIsNat DEF Start, TypeOK, CallIds
<1>1. TypeOK'
  BY <1>0 DEF Start, TypeOK, table, PCs, Participating
<1>2. CallsInv'
  <2>1. \A u \in Threads : call[u] \in Nat /\ call[u] <= calls
    BY <1>0, MaxCallsIsNat DEF CallsInv, TypeOK, CallIds
  <2>2. call' = [call EXCEPT ![t] = calls + 1] /\ calls' = calls + 1 /\ returned' = returned
    BY DEF Start
  <2>3. \A n \in returned : n \in Nat /\ n <= calls
    BY MaxCallsIsNat DEF CallsInv, TypeOK, CallIds
  <2>4. \A u \in Threads : call'[u] <= calls'
    BY <1>0, <2>1, <2>2 DEF TypeOK
  <2>5. \A u, w \in Threads : u # w /\ call'[u] # 0 => call'[u] # call'[w]
    BY <1>0, <2>1, <2>2 DEF TypeOK, CallsInv
  <2>6. \A u \in Threads : pc'[u] # "idle" => call'[u] \in CallIds /\ key'[u] \in Keys
    BY <1>0, <2>2 DEF Start, TypeOK, CallsInv
  <2>7. \A n \in returned' : n <= calls'
    BY <1>0, <2>2, <2>3
  <2>. QED  BY <2>4, <2>5, <2>6, <2>7 DEF CallsInv
<1>3. \A c : Participants(c)' = Participants(c)
  BY SameParticipants DEF Start, TypeOK, Participating
<1>4. TableInv'
  BY DEF Start, TableInv, TypeOK, table, Participating
<1>5. CountInv'
  BY <1>3 DEF Start, CountInv, table
<1>6. FlightInv'
  BY DEF Start, FlightInv, TypeOK, table
<1>7. FreeInv'
  BY DEF Start, FreeInv, TypeOK, table
<1>8. OutcomeForMyKey'
  <2>1. \A n \in returned : n # calls + 1
    BY <1>0, MaxCallsIsNat DEF CallsInv, TypeOK, CallIds
  <2>. QED  BY <2>1 DEF Start, OutcomeForMyKey, TypeOK
<1>. QED  BY <1>1, <1>2, <1>4, <1>5, <1>6, <1>7, <1>8

LEMMA EnterOwnerInv ==
    ASSUME Inv, NEW t \in Threads, EnterOwner(t)
    PROVE  Inv'
<1>. USE DEF Inv
<1>0. PICK c \in Cells \ live :
         /\ live' = live \cup {c}
         /\ linked' = linked \cup {c}
         /\ entry' = [entry EXCEPT ![c] =
                        [key |-> key[t], participants |-> 1,
                         completed |-> FALSE, outcome |-> NoOutcome]]
         /\ at' = [at EXCEPT ![t] = c]
  BY DEF EnterOwner
<1>1. /\ pc[t] = "enter" /\ pc' = [pc EXCEPT ![t] = "own"]
      /\ FindEntry(key[t]) = {}
      /\ UNCHANGED <<key, call, calls, got, returned>>
  BY DEF EnterOwner
<1>2. TypeOK'
  BY <1>0, <1>1 DEF TypeOK, Entries, NoOutcome, Outcomes, PCs, Participating
<1>3. CallsInv'
  BY <1>1 DEF CallsInv, TypeOK
<1>4. c \notin linked /\ \A d \in linked : entry[d].key # key[t]
  BY <1>0, <1>1 DEF TableInv, FindEntry
<1>5. TableInv'
  BY <1>0, <1>1, <1>4 DEF TableInv, TypeOK, Participating
<1>6. CountInv'
  <2>1. Participants(c)' = {t}
    BY <1>0, <1>1, <1>4 DEF Participants, TableInv, TypeOK, Participating
  <2>2. \A d \in linked : Participants(d)' = Participants(d)
    BY <1>0, <1>1, <1>4 DEF Participants, TypeOK, Participating
  <2>3. Cardinality({t}) = 1
    BY FS_Singleton
  <2>4. entry'[c].participants = 1 /\ \A d \in linked : entry'[d] = entry[d]
    BY <1>0, <1>4 DEF TypeOK
  <2>5. ASSUME NEW d \in linked'
        PROVE  entry'[d].participants = Cardinality(Participants(d)')
                 /\ entry'[d].participants # 0
    <3>1. CASE d = c
      BY <3>1, <2>1, <2>3, <2>4
    <3>2. CASE d \in linked
      BY <3>2, <2>2, <2>4 DEF CountInv
    <3>. QED  BY <1>0, <3>1, <3>2
  <2>. QED  BY <2>5 DEF CountInv
<1>7. FlightInv'
  BY <1>0, <1>1, <1>4 DEF FlightInv, TableInv, TypeOK, Participating
<1>8. FreeInv'
  BY <1>0, <1>1 DEF FreeInv, TypeOK
<1>9. OutcomeForMyKey'
  BY <1>1 DEF OutcomeForMyKey
<1>. QED  BY <1>2, <1>3, <1>5, <1>6, <1>7, <1>8, <1>9

LEMMA EnterDirectInv ==
    ASSUME Inv, NEW t \in Threads, EnterDirect(t)
    PROVE  Inv'
<1>. USE DEF Inv
<1>1. /\ pc[t] = "enter" /\ pc' = [pc EXCEPT ![t] = "direct"]
      /\ UNCHANGED <<entry, live, linked, key, at, call, calls, got, returned>>
  BY DEF EnterDirect, table
<1>2. \A c : Participants(c)' = Participants(c)
  BY <1>1, SameParticipants DEF TypeOK, Participating
<1>3. TypeOK' /\ CallsInv' /\ OutcomeForMyKey'
  BY <1>1 DEF TypeOK, CallsInv, OutcomeForMyKey, PCs
<1>4. TableInv' /\ FlightInv' /\ FreeInv'
  BY <1>1 DEF TypeOK, TableInv, FlightInv, FreeInv, Participating
<1>5. CountInv'
  BY <1>1, <1>2 DEF CountInv
<1>. QED  BY <1>3, <1>4, <1>5

LEMMA EnterJoinInv ==
    ASSUME Inv, NEW t \in Threads, EnterJoin(t)
    PROVE  Inv'
<1>. USE DEF Inv
<1>0. PICK c \in FindEntry(key[t]) :
         /\ entry' = [entry EXCEPT ![c].participants = @ + 1]
         /\ at' = [at EXCEPT ![t] = c]
         /\ pc' = [pc EXCEPT ![t] = IF entry[c].completed THEN "leave" ELSE "wait"]
  BY DEF EnterJoin
<1>1. /\ pc[t] = "enter" /\ c \in linked /\ c \in Cells /\ entry[c].key = key[t]
      /\ UNCHANGED <<live, linked, key, call, calls, got, returned>>
  BY DEF EnterJoin, FindEntry, TypeOK
<1>2. /\ pc'[t] \in {"leave", "wait"}
      /\ \A u \in Threads \ {t} : pc'[u] = pc[u] /\ at'[u] = at[u]
      /\ at'[t] = c
  BY <1>0 DEF TypeOK
<1>3. TypeOK'
  BY <1>0, <1>1 DEF TypeOK, Entries, PCs, Participating
<1>4. CallsInv' /\ OutcomeForMyKey'
  BY <1>0, <1>1, <1>2 DEF CallsInv, OutcomeForMyKey
<1>5. /\ \A d \in Cells : /\ entry'[d].key = entry[d].key
                          /\ entry'[d].completed = entry[d].completed
                          /\ entry'[d].outcome = entry[d].outcome
                          /\ d # c => entry'[d] = entry[d]
      /\ entry'[c].participants = entry[c].participants + 1
  BY <1>0, <1>1 DEF TypeOK, Entries
<1>6. TableInv'
  BY <1>1, <1>2, <1>5 DEF TableInv, TypeOK
<1>7. CountInv'
  <2>1. Participants(c)' = Participants(c) \cup {t} /\ t \notin Participants(c)
    BY <1>1, <1>2 DEF Participants, Participating
  <2>2. \A d \in linked : d # c => Participants(d)' = Participants(d)
    BY <1>1, <1>2 DEF Participants, Participating
  <2>3. Cardinality(Participants(c) \cup {t}) = Cardinality(Participants(c)) + 1
    BY <2>1, FS_AddElement, ParticipantsFinite
  <2>4. Cardinality(Participants(c)) \in Nat
    BY ParticipantsFinite
  <2>5. ASSUME NEW d \in linked'
        PROVE  entry'[d].participants = Cardinality(Participants(d)')
                 /\ entry'[d].participants # 0
    <3>1. CASE d = c
      BY <3>1, <1>1, <1>5, <2>1, <2>3, <2>4 DEF CountInv
    <3>2. CASE d # c
      <4>. d \in linked /\ d \in Cells
        BY <1>1 DEF TypeOK
      <4>. QED  BY <3>2, <1>5, <2>2 DEF CountInv
    <3>. QED  BY <3>1, <3>2
  <2>. QED  BY <2>5 DEF CountInv
<1>8. FlightInv'
  BY <1>0, <1>1, <1>2, <1>5 DEF FlightInv, TableInv, TypeOK, Participating
<1>9. FreeInv'
  BY <1>1, <1>2 DEF FreeInv
<1>. QED  BY <1>3, <1>4, <1>6, <1>7, <1>8, <1>9

(* A sleeper that wakes, and a woken joiner that re-tests the loop.        *)
LEMMA WakeInv ==
    ASSUME Inv, NEW t \in Threads, SpuriousWake(t) \/ Recheck(t)
    PROVE  Inv'
<1>. USE DEF Inv
<1>1. UNCHANGED <<entry, live, linked, key, at, call, calls, got, returned>>
  BY DEF SpuriousWake, Recheck, table
<1>2. /\ pc[t] \in {"wait", "recheck"}
      /\ pc' \in [Threads -> PCs]
      /\ pc'[t] \in {"wait", "recheck", "leave"}
      /\ pc'[t] = "leave" => entry[at[t]].completed
      /\ \A u \in Threads \ {t} : pc'[u] = pc[u]
  BY DEF SpuriousWake, Recheck, TypeOK, PCs, Participating
<1>3. \A c : Participants(c)' = Participants(c)
  BY <1>1, <1>2, SameParticipants DEF Participating
<1>4. TypeOK' /\ CallsInv' /\ OutcomeForMyKey'
  BY <1>1, <1>2 DEF TypeOK, CallsInv, OutcomeForMyKey
<1>5. TableInv' /\ FlightInv'
  BY <1>1, <1>2 DEF TableInv, FlightInv, Participating
<1>6. FreeInv'
  BY <1>1, <1>2 DEF FreeInv
<1>7. CountInv'
  BY <1>1, <1>3 DEF CountInv
<1>. QED  BY <1>4, <1>5, <1>6, <1>7

LEMMA RunDirectInv ==
    ASSUME Inv, NEW t \in Threads, NEW v \in Values, RunDirect(t, v)
    PROVE  Inv'
<1>. USE DEF Inv
<1>1. /\ pc[t] = "direct" /\ pc' = [pc EXCEPT ![t] = "idle"]
      /\ got' = [got EXCEPT ![t] = [exec |-> call[t], key |-> key[t], value |-> v]]
      /\ returned' = returned \cup {call[t]}
      /\ UNCHANGED <<entry, live, linked, key, at, call, calls>>
  BY DEF RunDirect, table, Return
<1>2. call[t] \in CallIds /\ key[t] \in Keys
  BY <1>1 DEF CallsInv
<1>3. \A c : Participants(c)' = Participants(c)
  BY <1>1, SameParticipants DEF TypeOK, Participating
<1>4. TypeOK'
  BY <1>1, <1>2 DEF TypeOK, Outcomes, PCs
<1>5. CallsInv'
  BY <1>1 DEF TypeOK, CallsInv
<1>6. TableInv' /\ FlightInv' /\ FreeInv'
  BY <1>1 DEF TypeOK, TableInv, FlightInv, FreeInv, Participating
<1>7. CountInv'
  BY <1>1, <1>3 DEF CountInv
<1>8. OutcomeForMyKey'
  <2>1. call[t] # 0
    BY <1>2, MaxCallsIsNat DEF CallIds
  <2>2. \A u \in Threads : u # t => call[u] # call[t]
    BY <2>1 DEF CallsInv
  <2>. QED  BY <1>1, <2>1, <2>2 DEF OutcomeForMyKey, TypeOK
<1>. QED  BY <1>4, <1>5, <1>6, <1>7, <1>8

(***************************************************************************)
(* The tail shared by the owner and the joiners: thread t drops its        *)
(* reference to c, whose contents just before are e.                       *)
(***************************************************************************)
LEMMA ReleaseInv ==
    ASSUME Inv, NEW t \in Threads, pc[t] \in {"own", "leave"},
           NEW e \in Entries, NEW r \in Outcomes,
           e.key = entry[at[t]].key, e.participants = entry[at[t]].participants,
           e.completed, e.outcome.key = e.key, e.outcome.exec # 0,
           r.key = key[t], r.exec # 0,
           ReleaseEntry(at[t], e), Return(t, r),
           UNCHANGED <<live, key, at, call, calls>>,
           pc' \in [Threads -> PCs], pc'[t] = AfterRelease(e),
           \A u \in Threads \ {t} :
              pc'[u] = pc[u] \/ (pc[u] = "wait" /\ pc'[u] = "recheck")
    PROVE  Inv'
<1>. DEFINE c == at[t]
<1>. USE DEF Inv
<1>0. /\ c \in linked /\ c \in Cells /\ c \in live
      /\ entry[c].key = key[t]
      /\ entry[c].participants \in Nat
      /\ entry[c].participants = Cardinality(Participants(c))
      /\ entry[c].participants # 0
  BY DEF TableInv, CountInv, TypeOK, Entries, Participating
<1>1. /\ \A d \in Cells \ {c} : entry'[d] = entry[d]
      /\ entry'[c] = [e EXCEPT !.participants = e.participants - 1]
      /\ entry'[c].key = entry[c].key
      /\ entry'[c].participants = entry[c].participants - 1
      /\ entry'[c].completed
      /\ entry'[c].outcome.key = entry'[c].key
      /\ entry'[c].outcome.exec # 0
      /\ entry' \in [Cells -> Entries]
  <2>. DEFINE f == [e EXCEPT !.participants = e.participants - 1]
  <2>1. entry' = [entry EXCEPT ![c] = f]
    BY DEF ReleaseEntry
  <2>0. e.participants - 1 \in Nat
    BY <1>0
  <2>2. /\ f \in Entries
        /\ f.key = e.key /\ f.participants = e.participants - 1
        /\ f.completed = e.completed /\ f.outcome = e.outcome
    BY <2>0 DEF Entries
  <2>3. entry'[c] = f /\ \A d \in Cells \ {c} : entry'[d] = entry[d]
    BY <1>0, <2>1 DEF TypeOK
  <2>4. entry' \in [Cells -> Entries]
    BY <1>0, <2>1, <2>2 DEF TypeOK
  <2>. HIDE DEF f
  <2>5. /\ entry'[c].key = entry[c].key /\ entry'[c].completed
        /\ entry'[c].participants = entry[c].participants - 1
        /\ entry'[c].outcome.key = entry'[c].key /\ entry'[c].outcome.exec # 0
    BY <2>2, <2>3
  <2>. QED  BY <2>3, <2>4, <2>5 DEF f
<1>2. /\ pc'[t] \in {"free", "idle"}
      /\ entry[c].participants = 1 => pc'[t] = "free" /\ linked' = linked \ {c}
      /\ entry[c].participants # 1 => pc'[t] = "idle" /\ linked' = linked
  BY DEF AfterRelease, IsLast, ReleaseEntry
<1>3. call[t] \in CallIds /\ call[t] # 0 /\ \A u \in Threads : u # t => call[u] # call[t]
  BY MaxCallsIsNat DEF CallsInv, CallIds
<1>4. TypeOK'
  BY <1>1, <1>2, <1>3 DEF TypeOK, Return
<1>5. CallsInv'
  BY <1>2, <1>3 DEF CallsInv, Return, TypeOK
<1>6. /\ Participants(c)' = Participants(c) \ {t} /\ t \in Participants(c)
      /\ \A d : d # c => Participants(d)' = Participants(d)
  BY <1>2 DEF Participants, Participating
<1>7. /\ Cardinality(Participants(c)') = entry[c].participants - 1
      /\ IsFiniteSet(Participants(c)')
  <2>1. IsFiniteSet(Participants(c))
    BY ParticipantsFinite
  <2>2. /\ IsFiniteSet(Participants(c) \ {t})
        /\ Cardinality(Participants(c) \ {t}) = Cardinality(Participants(c)) - 1
    BY <1>6, <2>1, FS_RemoveElement
  <2>. QED  BY <1>0, <1>6, <2>2
<1>8. entry[c].participants = 1 => Participants(c)' = {}
  BY <1>7, FS_EmptySet
<1>9. TableInv'
  <2>1. ASSUME NEW u \in Threads, pc'[u] \in Participating
        PROVE  at'[u] \in linked' /\ entry'[at'[u]].key = key'[u]
    <3>1. u # t /\ pc[u] \in Participating
      BY <2>1, <1>2 DEF Participating
    <3>2. at[u] \in linked /\ entry[at[u]].key = key[u] /\ at[u] \in Cells
      BY <3>1 DEF TableInv, TypeOK
    <3>3. at[u] = c => entry[c].participants # 1
      BY <2>1, <1>8 DEF Participants
    <3>. QED  BY <1>0, <1>1, <1>2, <3>2, <3>3
  <2>2. \A d \in linked : d \in Cells /\ entry'[d].key = entry[d].key
    BY <1>1 DEF TypeOK
  <2>3. linked' \subseteq linked
    BY <1>2
  <2>. QED  BY <2>1, <2>2, <2>3 DEF TableInv
<1>10. CountInv'
  <2>1. ASSUME NEW d \in linked'
        PROVE  entry'[d].participants = Cardinality(Participants(d)')
                 /\ entry'[d].participants # 0
    <3>1. CASE d = c
      BY <3>1, <1>0, <1>1, <1>2, <1>7
    <3>2. CASE d # c
      BY <3>2, <1>1, <1>2, <1>6 DEF CountInv, TypeOK
    <3>. QED  BY <3>1, <3>2
  <2>. QED  BY <2>1 DEF CountInv
<1>11. FlightInv'
  <2>1. \A u \in Threads : pc'[u] = "own" => u # t /\ pc[u] = "own" /\ at[u] # c
    BY <1>2 DEF FlightInv
  <2>2. \A u \in Threads : pc'[u] = "leave" => u # t /\ pc[u] = "leave"
    BY <1>2
  <2>3. \A u \in Threads : pc[u] \in Participating => at[u] \in Cells
    BY DEF TableInv, TypeOK
  <2>4. \A u \in Threads : pc'[u] = "own" => ~entry'[at'[u]].completed
    BY <2>1, <2>3, <1>1 DEF FlightInv, Participating
  <2>5. \A u \in Threads : pc'[u] = "leave" => entry'[at'[u]].completed
    BY <2>2, <2>3, <1>1 DEF FlightInv, Participating
  <2>6. \A d \in linked' : entry'[d].completed =>
          entry'[d].outcome.key = entry'[d].key /\ entry'[d].outcome.exec # 0
    <3>. SUFFICES ASSUME NEW d \in linked', entry'[d].completed
                  PROVE  entry'[d].outcome.key = entry'[d].key /\ entry'[d].outcome.exec # 0
      OBVIOUS
    <3>1. d \in linked /\ d \in Cells
      BY <1>2 DEF TypeOK
    <3>2. CASE d = c
      BY <3>2, <1>1
    <3>3. CASE d # c
      <4>1. entry'[d] = entry[d]
        BY <3>1, <3>3, <1>1
      <4>. QED  BY <3>1, <4>1 DEF FlightInv
    <3>. QED  BY <3>2, <3>3
  <2>7. \A u, w \in Threads :
          pc'[u] = "own" /\ pc'[w] = "own" /\ at'[u] = at'[w] => u = w
    BY <2>1 DEF FlightInv
  <2>. QED  BY <2>4, <2>5, <2>6, <2>7 DEF FlightInv
<1>12. FreeInv'
  <2>1. \A u \in Threads : pc[u] = "free" => at[u] # c /\ pc'[u] = "free" /\ u # t
    BY <1>0 DEF FreeInv
  <2>2. \A u \in Threads \ {t} : pc'[u] = "free" => pc[u] = "free"
    OBVIOUS
  <2>3. \A u \in Threads : pc'[u] = "free" => at'[u] \in live' \ linked'
    BY <1>0, <1>2, <2>1, <2>2 DEF FreeInv
  <2>4. \A u, w \in Threads :
          pc'[u] = "free" /\ pc'[w] = "free" /\ at'[u] = at'[w] => u = w
    BY <2>1, <2>2 DEF FreeInv
  <2>5. \A d \in live' : d \in linked' \/ \E u \in Threads : pc'[u] = "free" /\ at'[u] = d
    BY <1>0, <1>2, <2>1 DEF FreeInv
  <2>. QED  BY <2>3, <2>4, <2>5 DEF FreeInv
<1>13. OutcomeForMyKey'
  BY <1>3 DEF OutcomeForMyKey, Return, TypeOK
<1>. QED  BY <1>4, <1>5, <1>9, <1>10, <1>11, <1>12, <1>13

LEMMA CompleteInv ==
    ASSUME Inv, NEW t \in Threads, NEW v \in Values, Complete(t, v)
    PROVE  Inv'
<1>. DEFINE c == at[t]
            o == [exec |-> call[t], key |-> key[t], value |-> v]
            e == [entry[c] EXCEPT !.outcome = o, !.completed = TRUE]
<1>. USE DEF Inv
<1>1. /\ pc[t] = "own"
      /\ ReleaseEntry(c, e)
      /\ pc' = Broadcast(c, [pc EXCEPT ![t] = AfterRelease(e)])
      /\ \E r \in Copies(o) : Return(t, r)
      /\ UNCHANGED <<live, key, at, call, calls>>
  BY DEF Complete
<1>2. /\ call[t] \in CallIds /\ call[t] # 0 /\ key[t] \in Keys
      /\ c \in Cells /\ entry[c] \in Entries /\ entry[c].key = key[t]
  BY <1>1, MaxCallsIsNat DEF CallsInv, CallIds, TableInv, TypeOK, Participating
<1>3. o \in Outcomes /\ o.key = key[t] /\ o.exec # 0
  BY <1>2 DEF Outcomes
<1>4. PICK r \in Copies(o) : Return(t, r)
  BY <1>1
<1>5. r \in Outcomes /\ r.key = key[t] /\ r.exec # 0
  BY <1>2 DEF Copies, Outcomes
<1>6. /\ e \in Entries /\ e.key = entry[c].key
      /\ e.participants = entry[c].participants /\ e.completed
      /\ e.outcome = o
  BY <1>2, <1>3 DEF Entries
<1>. HIDE DEF o, e
<1>7. /\ pc' \in [Threads -> PCs]
      /\ pc'[t] = AfterRelease(e)
      /\ \A u \in Threads \ {t} :
           pc'[u] = pc[u] \/ (pc[u] = "wait" /\ pc'[u] = "recheck")
  BY <1>1 DEF Broadcast, AfterRelease, TypeOK, PCs, Participating
<1>. QED  BY <1>1, <1>2, <1>3, <1>4, <1>5, <1>6, <1>7, ReleaseInv

LEMMA LeaveInv ==
    ASSUME Inv, NEW t \in Threads, Leave(t)
    PROVE  Inv'
<1>. DEFINE c == at[t]
            e == entry[c]
<1>. USE DEF Inv
<1>1. /\ pc[t] = "leave"
      /\ ReleaseEntry(c, e)
      /\ pc' = [pc EXCEPT ![t] = AfterRelease(e)]
      /\ \E r \in Copies(e.outcome) : Return(t, r)
      /\ UNCHANGED <<live, key, at, call, calls>>
  BY DEF Leave
<1>2. /\ c \in linked /\ e \in Entries /\ e.key = key[t]
      /\ e.completed /\ e.outcome.key = e.key /\ e.outcome.exec # 0
  BY <1>1 DEF TableInv, FlightInv, TypeOK, Participating
<1>3. PICK r \in Copies(e.outcome) : Return(t, r)
  BY <1>1
<1>4. r \in Outcomes /\ r.key = key[t] /\ r.exec # 0
  <2>1. e.outcome \in Outcomes
    BY <1>2 DEF Entries
  <2>. QED  BY <1>2, <2>1 DEF Copies, Outcomes
<1>5. /\ pc' \in [Threads -> PCs] /\ pc'[t] = AfterRelease(e)
      /\ \A u \in Threads \ {t} : pc'[u] = pc[u]
  BY <1>1 DEF AfterRelease, TypeOK, PCs
<1>. QED  BY <1>1, <1>2, <1>3, <1>4, <1>5, ReleaseInv

LEMMA FreeStepInv ==
    ASSUME Inv, NEW t \in Threads, Free(t)
    PROVE  Inv'
<1>. USE DEF Inv
<1>1. /\ pc[t] = "free" /\ pc' = [pc EXCEPT ![t] = "idle"]
      /\ live' = live \ {at[t]}
      /\ entry' = [entry EXCEPT ![at[t]] = FreedEntry]
      /\ UNCHANGED <<linked, key, at, call, calls, got, returned>>
  BY DEF Free
<1>2. at[t] \in live \ linked /\ at[t] \in Cells
  BY <1>1 DEF FreeInv, TypeOK
<1>3. \A d \in linked : entry'[d] = entry[d] /\ d \in live'
  BY <1>1, <1>2 DEF TableInv, TypeOK
<1>4. \A c : Participants(c)' = Participants(c)
  BY <1>1, SameParticipants DEF TypeOK, Participating
<1>5. TypeOK'
  BY <1>1, <1>2 DEF TypeOK, Entries, FreedEntry, NoOutcome, Outcomes, PCs
<1>6. CallsInv' /\ OutcomeForMyKey'
  BY <1>1 DEF CallsInv, OutcomeForMyKey, TypeOK
<1>7. TableInv'
  BY <1>1, <1>3 DEF TableInv, TypeOK, Participating
<1>8. CountInv'
  BY <1>1, <1>3, <1>4 DEF CountInv
<1>9. FlightInv'
  BY <1>1, <1>3 DEF FlightInv, TableInv, TypeOK, Participating
<1>10. FreeInv'
  BY <1>1, <1>2 DEF FreeInv, TypeOK
<1>. QED  BY <1>5, <1>6, <1>7, <1>8, <1>9, <1>10

-----------------------------------------------------------------------------
LEMMA StutterInv ==
    ASSUME Inv, UNCHANGED vars
    PROVE  Inv'
BY DEF Inv, vars, TypeOK, CallsInv, TableInv, CountInv, FlightInv, FreeInv,
   OutcomeForMyKey, Participants

(* Every step preserves the inductive invariant.                           *)
LEMMA NextInv == Inv /\ [Next]_vars => Inv'
<1>. SUFFICES ASSUME Inv, [Next]_vars PROVE Inv'  OBVIOUS
<1>1. ASSUME NEW t \in Threads, NEW k \in Keys, Start(t, k) PROVE Inv'
  BY <1>1, StartInv
<1>2. ASSUME NEW t \in Threads, SpuriousWake(t) PROVE Inv'
  BY <1>2, WakeInv
<1>3. ASSUME NEW t \in Threads, Step(t) PROVE Inv'
  BY <1>3, EnterOwnerInv, EnterDirectInv, EnterJoinInv, WakeInv, LeaveInv,
     FreeStepInv, RunDirectInv, CompleteInv DEF Step
<1>4. CASE UNCHANGED vars
  BY <1>4, StutterInv
<1>. QED  BY <1>1, <1>2, <1>3, <1>4 DEF Next

LEMMA AlwaysInv == Spec => []Inv
<1>1. Inv /\ [Next]_vars => Inv'
  BY NextInv
<1>. QED  BY <1>1, InitInv, PTL DEF Spec

(* Every variable stays in its domain.                                     *)
THEOREM TypeCorrect == Spec => []TypeOK
BY AlwaysInv, PTL DEF Inv

(* Two owners never run the operation for the same key.                    *)
THEOREM OneExecution == Spec => []OneExecutionPerKey
<1>1. Inv => OneExecutionPerKey
  BY DEF Inv, OneExecutionPerKey, TableInv, FlightInv, Participating
<1>. QED  BY <1>1, AlwaysInv, PTL

(* No caller, and no list link, points at a freed entry.                   *)
THEOREM MemorySafe == Spec => []NoUseAfterFree
<1>1. Inv => NoUseAfterFree
  BY DEF Inv, NoUseAfterFree, TableInv
<1>. QED  BY <1>1, AlwaysInv, PTL

(* participant_count is the number of callers still to leave, by entry and *)
(* by key.                                                                 *)
THEOREM CountsAreExact == Spec => []CountsExact
<1>1. ASSUME Inv, NEW k \in Keys
      PROVE  ParticipantCount(k) =
               Cardinality({t \in Threads : pc[t] \in Participating /\ key[t] = k})
  <2>. USE <1>1 DEF Inv
  <2>. DEFINE P == {t \in Threads : pc[t] \in Participating /\ key[t] = k}
  <2>1. CASE FindEntry(k) = {}
    <3>1. P = {}
      BY <2>1 DEF FindEntry, TableInv
    <3>2. ParticipantCount(k) = 0
      BY <2>1 DEF ParticipantCount
    <3>. QED  BY <3>1, <3>2, FS_EmptySet
  <2>2. CASE FindEntry(k) # {}
    <3>. DEFINE c == CHOOSE d \in FindEntry(k) : TRUE
    <3>1. c \in linked /\ entry[c].key = k
      BY <2>2 DEF FindEntry
    <3>2. ParticipantCount(k) = entry[c].participants
      BY <2>2 DEF ParticipantCount
    <3>. HIDE DEF c
    <3>3. P = Participants(c)
      BY <3>1 DEF Participants, TableInv
    <3>. QED  BY <3>1, <3>2, <3>3 DEF CountInv
  <2>. QED  BY <2>1, <2>2
<1>2. Inv => CountsExact
  BY <1>1 DEF Inv, CountsExact, CountInv
<1>. QED  BY <1>2, AlwaysInv, PTL

(* A caller receives the outcome of an operation that ran for its key.     *)
THEOREM OwnKeyOutcome == Spec => []OutcomeForMyKey
BY AlwaysInv, PTL DEF Inv

(* With nobody inside a flight, no entry is allocated.                     *)
THEOREM NoImplicitCache == Spec => []NothingRetained
<1>1. ASSUME Inv, \A t \in Threads : pc[t] \in {"idle", "enter", "direct"}
      PROVE  live = {}
  <2>1. \A c : Participants(c) = {}
    BY <1>1 DEF Participants, Participating
  <2>2. linked = {}
    BY <1>1, <2>1, FS_EmptySet DEF Inv, CountInv
  <2>. QED  BY <1>1, <2>2 DEF Inv, FreeInv
<1>2. Inv => NothingRetained
  BY <1>1 DEF NothingRetained
<1>. QED  BY <1>2, AlwaysInv, PTL

(* A completed entry keeps its outcome until it is freed.                  *)
THEOREM StableResult == Spec => ResultStable
<1>. DEFINE Stable ==
       \A c \in Cells : c \in live /\ entry[c].completed /\ c \in live' =>
           entry[c]'.completed /\ entry[c]'.outcome = entry[c].outcome
<1>1. ASSUME Inv, Next PROVE Stable
  <2>. USE <1>1 DEF Inv
  <2>1. ASSUME entry' = entry PROVE Stable
    BY <2>1
  <2>2. ASSUME NEW t \in Threads, EnterOwner(t) PROVE Stable
    BY <2>2 DEF EnterOwner, TypeOK
  <2>3. ASSUME NEW t \in Threads, EnterJoin(t) PROVE Stable
    BY <2>3 DEF EnterJoin, FindEntry, TypeOK, Entries
  <2>4. ASSUME NEW t \in Threads, NEW v \in Values, Complete(t, v) PROVE Stable
    <3>1. ~entry[at[t]].completed
      BY <2>4 DEF Complete, FlightInv
    <3>2. \A c \in Cells : c # at[t] => entry'[c] = entry[c]
      BY <2>4 DEF Complete, ReleaseEntry, TypeOK
    <3>. QED  BY <3>1, <3>2
  <2>5. ASSUME NEW t \in Threads, Leave(t) PROVE Stable
    <3>1. at[t] \in Cells
      BY <2>5 DEF Leave, TableInv, TypeOK, Participating
    <3>. QED  BY <2>5, <3>1 DEF Leave, ReleaseEntry, TypeOK, Entries
  <2>6. ASSUME NEW t \in Threads, Free(t) PROVE Stable
    BY <2>6 DEF Free, TypeOK
  <2>. QED
    BY <2>1, <2>2, <2>3, <2>4, <2>5, <2>6
       DEF Next, Step, Start, SpuriousWake, EnterDirect, Recheck, RunDirect, table, vars
<1>2. Inv /\ [Next]_vars => [Stable]_vars
  BY <1>1
<1>. QED  BY <1>2, AlwaysInv, PTL DEF Spec, ResultStable
=============================================================================
