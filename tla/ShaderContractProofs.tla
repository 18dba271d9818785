------------------------ MODULE ShaderContractProofs ------------------------
(***************************************************************************)
(* Theorems about the capture of a shader contract.  The first part:       *)
(* AcceptedUnderPin for any passes, rows, limits and number of revisions,  *)
(* as an invariant of the whole contract capture.  The invariant itself    *)
(* says nothing about an attempt under way.  Its strengthening adds how    *)
(* far the attempt has come (Attempt), that an answer was made by a        *)
(* revision between the pinned one and the present one (Dated), and that   *)
(* an accepted artifact is neither the one being tried nor one still to    *)
(* come (Settled).                                                         *)
(***************************************************************************)
EXTENDS ShaderContract, FiniteSetTheorems, TLAPS

Early == {"emit", "preprocessing", "preprocessed"}
RowSteps == {"compile", "inspecting", "inspected", "compiling", "compiled"}
Trying == Early \cup {"pass"} \cup RowSteps
Answered == {"preprocessed", "inspected", "compiled"}
BeforeLift == {"player", "player close"}

Statuses == {"not attempted", "verified", "precondition rejected", "emission rejected",
             "provenance mismatch", "authority mismatch", "compiler unavailable",
             "compiler rejected", "invalid dxbc", "dxbc mismatch", "budget exhausted",
             "cancelled", "clock unavailable"}
Answers == {None, "clean", "other controls", "unavailable", "rejected", "anonymous",
            "expanded", "no definition", "equal", "informed", "diagnostic", "unreflected",
            "mismatch", "invalid"}
Records == [status : Statuses, controls : Nat, proved : SUBSET Domain, under : SUBSET Nat,
            marks : SUBSET Answers]
Places == [step : Trying \cup {"idle", "start", "ended"}, a : Artifacts \cup {None},
           p : Nat, r : Nat, answer : Answers, under : Nat, helper : Nat]

(* The rows before row r of pass p.                                        *)
RowsBefore(p, r) == {d \in Domain : d[1] < p \/ (d[1] = p /\ d[2] < r)}

Fresh(x) == x.proved = {} /\ x.under = {}

(* The artifacts that may be tried after a.                                *)
Later(a) ==
    CASE a = "baseline" -> {"candidate", "helper baseline", "helper candidate"}
      [] a = "candidate" -> {"helper baseline", "helper candidate"}
      [] a = "helper baseline" -> {"helper candidate"}
      [] OTHER -> {}

Typed ==
    /\ authority \in Nat /\ pinned \in Nat /\ pinned <= authority
    /\ asked \in Statuses /\ ctl \in Statuses /\ changed \in BOOLEAN
    /\ art \in [Artifacts -> Records]
    /\ accepted \in Artifacts \cup {None}
    /\ lpc \in Places

(* The lift runs only in its phase, and begins with nothing done.          *)
Phased ==
    /\ lpc.step # "idle" => cpc = "lift"
    /\ cpc \in BeforeLift \/ (cpc = "lift" /\ lpc.step \in {"idle", "start"}) =>
         accepted = None /\ \A a \in Artifacts : Fresh(art[a])

Settled ==
    lpc.step \in Trying =>
        /\ lpc.a \in Artifacts
        /\ accepted # lpc.a /\ accepted \notin Later(lpc.a)
        /\ \A b \in Later(lpc.a) : Fresh(art[b])

Dated == lpc.step \in Answered => pinned <= lpc.under /\ lpc.under <= authority

Attempt ==
    /\ lpc.step \in Early => Fresh(art[lpc.a])
    /\ lpc.step \in {"pass"} \cup RowSteps =>
         lpc.p \in DOMAIN Rows /\ art[lpc.a].under = {pinned}
    /\ lpc.step = "pass" => art[lpc.a].proved = RowsBefore(lpc.p, 1)
    /\ lpc.step \in RowSteps =>
         lpc.r \in 1..Rows[lpc.p] /\ art[lpc.a].proved = RowsBefore(lpc.p, lpc.r)

IInv == Typed /\ Phased /\ Settled /\ Dated /\ Attempt /\ AcceptedUnderPin

-----------------------------------------------------------------------------
(* A member of Domain is a pass and one of its rows.                       *)
LEMMA DomainRows ==
    \A d : d \in Domain <=> \E p \in DOMAIN Rows : \E r \in 1..Rows[p] : d = <<p, r>>
  BY DEF Domain

(* The passes are numbered from 1, and each has a row.                     *)
LEMMA PassNumbers ==
    /\ Len(Rows) \in Nat \ {0} /\ DOMAIN Rows = 1..Len(Rows)
    /\ \A p \in DOMAIN Rows : Rows[p] \in Nat \ {0}
  BY RowsAssumption

(* certify_pass and the certifier's loop visit the rows in order: what is  *)
(* proved before the first row, and after one more row of a pass, after    *)
(* the last row of a pass and after the last pass.                         *)
LEMMA RowOrder ==
    /\ RowsBefore(1, 1) = {}
    /\ \A p \in DOMAIN Rows : \A r \in 1..Rows[p] :
         /\ RowsBefore(p, r) \cup {<<p, r>>} = RowsBefore(p, r + 1)
         /\ r = Rows[p] /\ p + 1 \in DOMAIN Rows =>
              RowsBefore(p, r + 1) = RowsBefore(p + 1, 1)
         /\ r = Rows[p] /\ p + 1 \notin DOMAIN Rows => RowsBefore(p, r + 1) = Domain
<1>1. RowsBefore(1, 1) = {}
  BY DomainRows, PassNumbers DEF RowsBefore
<1>2. ASSUME NEW p \in DOMAIN Rows, NEW r \in 1..Rows[p]
      PROVE  /\ RowsBefore(p, r) \cup {<<p, r>>} = RowsBefore(p, r + 1)
             /\ r = Rows[p] /\ p + 1 \in DOMAIN Rows =>
                  RowsBefore(p, r + 1) = RowsBefore(p + 1, 1)
             /\ r = Rows[p] /\ p + 1 \notin DOMAIN Rows => RowsBefore(p, r + 1) = Domain
  <2>0. p \in Nat /\ r \in Nat /\ Rows[p] \in Nat
    BY PassNumbers
  <2>1. <<p, r>> \in Domain
    BY DomainRows
  <2>2. ASSUME NEW d \in Domain
        PROVE  /\ d[1] \in Nat /\ d[2] \in 1..Rows[d[1]] /\ d = <<d[1], d[2]>>
               /\ d[1] \in 1..Len(Rows) /\ Rows[d[1]] \in Nat
    BY DomainRows, PassNumbers
  <2>3. RowsBefore(p, r) \cup {<<p, r>>} = RowsBefore(p, r + 1)
    BY <2>0, <2>1, <2>2 DEF RowsBefore
  <2>4. r = Rows[p] => RowsBefore(p, r + 1) = RowsBefore(p + 1, 1)
    BY <2>0, <2>2 DEF RowsBefore
  <2>5. r = Rows[p] /\ p + 1 \notin DOMAIN Rows => RowsBefore(p, r + 1) = Domain
    BY <2>0, <2>2, PassNumbers DEF RowsBefore
  <2>. QED  BY <2>3, <2>4, <2>5
<1>. QED  BY <1>1, <1>2

(* The artifact tried next is one of the later ones, and has fewer left.   *)
LEMMA NextIsLater ==
    ASSUME NEW a \in Artifacts, NEW s, NextArtifact(a, s) # None
    PROVE  /\ NextArtifact(a, s) \in Later(a) /\ NextArtifact(a, s) \in Artifacts
           /\ Later(NextArtifact(a, s)) \subseteq Later(a)
           /\ NextArtifact(a, s) \notin Later(NextArtifact(a, s))
           /\ a \notin Later(NextArtifact(a, s)) /\ a # NextArtifact(a, s)
  BY DEF NextArtifact, Later, Artifacts, None

(* What artifact_init leaves is a record with nothing proved.              *)
LEMMA NewIsFresh == NewArtifact \in Records /\ Fresh(NewArtifact)
  BY DEF NewArtifact, Records, Fresh, Statuses

(* The end of an attempt, in whatever way: what was accepted stays proved, *)
(* what is accepted now is proved, and the next attempt begins afresh.     *)
LEMMA Closing ==
    ASSUME IInv, lpc.step \in Trying, NEW s \in Statuses, NEW found \in Records,
           Close(s, found),
           s = "verified" => found.proved = Domain /\ found.under = {pinned},
           authority' = authority, asked' = asked, pinned' = pinned, cpc' = cpc,
           ctl' \in Statuses, changed' \in BOOLEAN
    PROVE  IInv'
<1> DEFINE next == NextArtifact(lpc.a, s)
<1>0. /\ lpc.a \in Artifacts /\ cpc = "lift"
      /\ art \in [Artifacts -> Records] /\ accepted \in Artifacts \cup {None}
  BY DEF IInv, Typed, Phased, Settled, Trying, Early, RowSteps
<1>1. /\ art' \in [Artifacts -> Records]
      /\ art'[lpc.a].proved = found.proved /\ art'[lpc.a].under = found.under
      /\ \A b \in Artifacts \ {lpc.a} :
           art'[b].proved = art[b].proved /\ art'[b].under = art[b].under
  BY <1>0 DEF Close, Records, Statuses
<1>2. accepted' = IF changed' THEN None
                  ELSE IF s = "verified" /\ lpc.a # "helper baseline" THEN lpc.a ELSE accepted
  BY DEF Close, Accept
<1>3. AcceptedUnderPin'
  <2>1. CASE changed'
    BY <2>1, <1>2 DEF AcceptedUnderPin
  <2>2. CASE ~changed' /\ accepted' = lpc.a /\ s = "verified"
    BY <2>2, <1>1 DEF AcceptedUnderPin
  <2>3. CASE ~changed' /\ accepted' = accepted /\ accepted # None
    <3>1. accepted \in Artifacts \ {lpc.a}
      BY <2>3, <1>0 DEF IInv, Settled
    <3>. QED  BY <2>3, <3>1, <1>1 DEF IInv, AcceptedUnderPin
  <2>4. CASE accepted' = None
    BY <2>4 DEF AcceptedUnderPin
  <2>. QED  BY <1>2, <2>1, <2>2, <2>3, <2>4
<1>4. CASE next = None
  <2>1. lpc' = [Idle EXCEPT !.step = "ended"]
    BY <1>4 DEF Close
  <2>2. lpc' \in Places /\ lpc'.step = "ended"
    BY <2>1 DEF Idle, At, Places, None, Answers
  <2>3. Typed'
    BY <2>2, <1>0, <1>1, <1>2 DEF IInv, Typed
  <2>. QED  BY <1>0, <1>3, <2>2, <2>3
            DEF IInv, Phased, Settled, Dated, Attempt, Trying, Early, RowSteps, Answered, BeforeLift
<1>5. CASE next # None
  <2>1. /\ next \in Later(lpc.a) /\ next \in Artifacts
        /\ Later(next) \subseteq Later(lpc.a) /\ next \notin Later(next)
        /\ lpc.a \notin Later(next) /\ lpc.a # next
    BY <1>5, <1>0, NextIsLater
  <2>2. lpc' = At("emit", next, 0, 0)
    BY <1>5 DEF Close
  <2>3. lpc' \in Places /\ lpc'.step = "emit" /\ lpc'.a = next
    BY <2>1, <2>2 DEF At, Places, None, Answers, Trying, Early
  <2>4. Typed'
    BY <2>3, <1>0, <1>1, <1>2 DEF IInv, Typed
  <2>5. \A b \in Later(lpc.a) : b \in Artifacts \ {lpc.a} /\ Fresh(art'[b])
    BY <1>0, <1>1 DEF IInv, Settled, Later, Artifacts, Fresh
  <2>6. accepted' # next /\ accepted' \notin Later(next)
    BY <1>2, <1>0, <2>1 DEF IInv, Settled, None, Artifacts, Later
  <2>7. Settled' /\ Attempt' /\ Dated'
    BY <2>1, <2>3, <2>5, <2>6 DEF Settled, Attempt, Dated, Early, RowSteps, Answered
  <2>8. Phased'
    BY <1>0, <2>3 DEF Phased, Trying, Early, BeforeLift
  <2>. QED  BY <1>3, <2>4, <2>7, <2>8 DEF IInv
<1>. QED  BY <1>4, <1>5

(* An attempt that ends without success leaves nothing proved.             *)
LEMMA Ending ==
    ASSUME IInv, lpc.step \in Trying, NEW s \in Statuses \ {"verified"}, End(s),
           authority' = authority, asked' = asked, pinned' = pinned, cpc' = cpc,
           ctl' \in Statuses, changed' \in BOOLEAN
    PROVE  IInv'
  BY Closing, NewIsFresh DEF End

LEMMA WorkStatus == ASSUME IInv PROVE Control \in Statuses /\ Work \in Statuses
  BY DEF IInv, Typed, Control, Work, Statuses

(* A check that stops the run, and an attempt that is turned down.         *)
LEMMA Halting ==
    ASSUME IInv, lpc.step \in Trying, cpc' = cpc, Work # "verified", Halt
    PROVE  IInv'
<1>1. Work \in Statuses \ {"verified"}
  BY WorkStatus
<1>2. End(Work) /\ ctl' \in Statuses /\ changed' \in BOOLEAN
  BY <1>1 DEF Halt, IInv, Typed
<1>. QED  BY <1>1, <1>2, Ending DEF Halt

LEMMA Refusing ==
    ASSUME IInv, lpc.step \in Trying, cpc' = cpc, Proceed,
           NEW s \in Statuses \ {"verified"}, Refuse(s)
    PROVE  IInv'
<1>1. ctl' \in Statuses /\ changed' \in BOOLEAN
  BY DEF Refuse, Proceed, IInv, Typed
<1>. QED  BY <1>1, Ending DEF Refuse, Proceed

(* A step of the attempt under way concerns its own artifact only.         *)
LEMMA Moving ==
    ASSUME IInv, lpc.step \in Trying, lpc' \in Places, lpc'.a = lpc.a, lpc'.step \in Trying,
           UNCHANGED <<authority, asked, ctl, changed, pinned, accepted, cpc>>,
           art' \in [Artifacts -> Records],
           \A b \in Artifacts \ {lpc.a} : art'[b] = art[b],
           Dated', Attempt'
    PROVE  IInv'
<1>0. lpc.a \in Artifacts /\ cpc = "lift" /\ lpc.a \notin Later(lpc.a) /\ Later(lpc.a) \subseteq Artifacts
  BY DEF IInv, Phased, Settled, Trying, Early, RowSteps, Later, Artifacts
<1>1. Typed'
  BY DEF IInv, Typed
<1>2. Phased'
  BY <1>0 DEF Phased, BeforeLift, Trying, Early, RowSteps
<1>3. Settled'
  BY <1>0 DEF IInv, Settled, Fresh
<1>4. AcceptedUnderPin'
  BY <1>0 DEF IInv, Typed, Settled, AcceptedUnderPin
<1>. QED  BY <1>1, <1>2, <1>3, <1>4 DEF IInv
-----------------------------------------------------------------------------
(* The actions of the lift, one by one.                                    *)
LEMMA PinStep == ASSUME IInv, cpc' = cpc, Pin PROVE IInv'
<1>0. /\ cpc = "lift" /\ accepted = None /\ lpc.step = "start"
      /\ \A a \in Artifacts : Fresh(art[a])
  BY DEF IInv, Phased, Pin
<1>1. CASE Control = "verified"
  <2>1. pinned' = authority /\ lpc' = At("emit", "baseline", 0, 0) /\ UNCHANGED <<changed, art, accepted>>
    BY <1>1 DEF Pin
  <2>2. lpc' \in Places /\ lpc'.step = "emit" /\ lpc'.a = "baseline"
    BY <2>1 DEF At, Places, Artifacts, None, Answers, Trying, Early
  <2>3. Typed'
    BY <1>1, <2>1, <2>2, WorkStatus DEF IInv, Typed, Pin
  <2>4. Later("baseline") \subseteq Artifacts /\ "baseline" \in Artifacts /\ None \notin Artifacts
    BY DEF Later, Artifacts, None
  <2>5. accepted' = None /\ \A a \in Artifacts : Fresh(art'[a])
    BY <1>0, <2>1
  <2>6. Settled'
    BY <2>2, <2>4, <2>5 DEF Settled
  <2>7. Attempt' /\ Dated'
    BY <2>2, <2>4, <2>5 DEF Attempt, Dated, Early, RowSteps, Answered
  <2>. QED  BY <1>0, <2>1, <2>2, <2>3, <2>5, <2>6, <2>7
            DEF IInv, Phased, AcceptedUnderPin, BeforeLift
<1>2. CASE Control # "verified"
  <2>1. /\ lpc' = [Idle EXCEPT !.step = "ended"] /\ UNCHANGED <<changed, pinned, accepted>>
        /\ art' = [art EXCEPT !["baseline"].status = Control]
    BY <1>2 DEF Pin
  <2>2. lpc' \in Places /\ lpc'.step = "ended"
    BY <2>1 DEF Idle, At, Places, None, Answers
  <2>3. art' \in [Artifacts -> Records]
    <3>1. /\ art \in [Artifacts -> Records] /\ Control \in Statuses
          /\ "baseline" \in Artifacts /\ art["baseline"] \in Records
      BY WorkStatus DEF IInv, Typed, Artifacts
    <3>2. [art["baseline"] EXCEPT !.status = Control] \in Records
      BY <3>1 DEF Records
    <3>. QED  BY <2>1, <3>1, <3>2
  <2>4. Typed'
    BY <2>1, <2>2, <2>3, WorkStatus DEF IInv, Typed, Pin
  <2>. QED  BY <1>0, <2>1, <2>2, <2>4
            DEF IInv, Phased, Settled, Dated, Attempt, AcceptedUnderPin, Trying, Early, RowSteps,
                Answered, BeforeLift
<1>. QED  BY <1>1, <1>2

LEMMA EmitStep == ASSUME IInv, cpc' = cpc, Emit PROVE IInv'
<1>0. lpc.step = "emit" /\ lpc.step \in Trying
  BY DEF Emit, Trying, Early
<1>1. CASE Work # "verified" /\ Halt
  BY <1>0, <1>1, Halting
<1>2. CASE /\ Proceed
           /\ \E s \in {"precondition rejected", "emission rejected", "provenance mismatch"} : Refuse(s)
  <2>1. PICK s \in {"precondition rejected", "emission rejected", "provenance mismatch"} : Refuse(s)
    BY <1>2
  <2>2. s \in Statuses \ {"verified"}
    BY DEF Statuses
  <2>. QED  BY <1>0, <1>2, <2>1, <2>2, Refusing
<1>3. CASE /\ Proceed
           /\ lpc' = [lpc EXCEPT !.step = "preprocessing"] /\ UNCHANGED <<ctl, compiles, art, accepted>>
  <2>1. lpc' \in Places /\ lpc'.a = lpc.a /\ lpc'.step = "preprocessing"
    BY <1>3 DEF IInv, Typed, Places, Trying, Early
  <2>2. Dated' /\ Attempt'
    BY <1>0, <1>3, <2>1 DEF IInv, Dated, Attempt, Early, RowSteps, Answered
  <2>3. lpc'.step \in Trying
    BY <2>1 DEF Trying, Early
  <2>. QED  BY <1>0, <1>3, <2>1, <2>2, <2>3, Moving DEF Proceed, IInv, Typed
<1>. QED  BY <1>1, <1>2, <1>3 DEF Emit

(* An answer is made by the revision in force, which is not older than the *)
(* pinned one.                                                             *)
LEMMA PreprocessedStep == ASSUME IInv, cpc' = cpc, Preprocessed PROVE IInv'
<1>0. lpc.step = "preprocessing" /\ lpc.step \in Trying
  BY DEF Preprocessed, Trying, Early
<1>1. /\ lpc' \in Places /\ lpc'.a = lpc.a /\ lpc'.step = "preprocessed" /\ lpc'.under = authority
      /\ UNCHANGED <<authority, asked, ctl, changed, pinned, compiles, art, accepted>>
  BY DEF Preprocessed, IInv, Typed, Places, Answers, Trying, Early
<1>2. Dated' /\ Attempt'
  BY <1>0, <1>1 DEF IInv, Typed, Dated, Attempt, Early, RowSteps
<1>3. lpc'.step \in Trying
  BY <1>1 DEF Trying, Early
<1>. QED  BY <1>0, <1>1, <1>2, <1>3, Moving DEF IInv, Typed

LEMMA CompiledStep == ASSUME IInv, cpc' = cpc, Compiled PROVE IInv'
<1>0. lpc.step \in {"inspecting", "compiling"} /\ lpc.step \in Trying
  BY DEF Compiled, Trying, RowSteps
<1>1. /\ lpc' \in Places /\ lpc'.a = lpc.a /\ lpc'.p = lpc.p /\ lpc'.r = lpc.r
      /\ lpc'.step \in {"inspected", "compiled"} /\ lpc'.under = authority
      /\ UNCHANGED <<authority, asked, ctl, changed, pinned, compiles, art, accepted>>
  <2>1. PICK k \in Answers : lpc' = [lpc EXCEPT
           !.step = IF lpc.step = "inspecting" THEN "inspected" ELSE "compiled",
           !.answer = k, !.under = authority]
    BY DEF Compiled, Answers
  <2>. QED  BY <2>1 DEF Compiled, IInv, Typed, Places, Trying, RowSteps
<1>2. Dated' /\ Attempt'
  BY <1>0, <1>1 DEF IInv, Typed, Dated, Attempt, Early, RowSteps
<1>3. lpc'.step \in Trying
  BY <1>1 DEF Trying, RowSteps
<1>. QED  BY <1>0, <1>1, <1>2, <1>3, Moving DEF IInv, Typed

(* The answer is judged only while the revision is still the pinned one,   *)
(* so the pinned one has made it.                                          *)
LEMMA JudgedUnderPin ==
    ASSUME IInv, lpc.step \in Answered, Proceed PROVE lpc.under = pinned
<1>1. authority = pinned
  BY DEF Proceed, Work
<1>. QED  BY <1>1 DEF IInv, Typed, Dated, Places

LEMMA JudgePreprocessStep == ASSUME IInv, cpc' = cpc, JudgePreprocess PROVE IInv'
<1>0. lpc.step = "preprocessed" /\ lpc.step \in Trying /\ lpc.step \in Answered /\ lpc.step \in Early
  BY DEF JudgePreprocess, Trying, Early, Answered
<1>1. CASE Work # "verified" /\ Halt
  BY <1>0, <1>1, Halting
<1> DEFINE turned == {"compiler unavailable", "compiler rejected", "provenance mismatch", "authority mismatch"}
           controls == IF lpc.answer = "other controls" THEN 0 ELSE lpc.under
           here == [art[lpc.a] EXCEPT !.controls = controls, !.under = @ \cup {lpc.under}]
<1>2. CASE Proceed /\ \E s \in turned : Refuse(s)
  <2>1. PICK s \in turned : Refuse(s)
    BY <1>2
  <2>2. s \in Statuses \ {"verified"}
    BY DEF Statuses
  <2>. QED  BY <1>0, <1>2, <2>1, <2>2, Refusing
<1>3. CASE /\ Proceed
           /\ art' = [art EXCEPT ![lpc.a] = here]
           /\ lpc' = At("pass", lpc.a, 1, 0) /\ UNCHANGED <<ctl, compiles, accepted>>
  <2>1. /\ lpc.a \in Artifacts /\ art \in [Artifacts -> Records] /\ art[lpc.a] \in Records
        /\ lpc.under \in Nat /\ lpc.under = pinned /\ Fresh(art[lpc.a])
    BY <1>0, <1>3, JudgedUnderPin DEF IInv, Typed, Settled, Attempt, Places
  <2>2. here \in Records /\ here.proved = {} /\ here.under = {pinned}
    <3>1. controls \in Nat /\ {lpc.under} \in SUBSET Nat
      BY <2>1
    <3> HIDE DEF controls
    <3>. QED  BY <2>1, <3>1 DEF Records, Fresh
  <2> HIDE DEF here
  <2>4. /\ art' \in [Artifacts -> Records] /\ art'[lpc.a] = here
        /\ \A b \in Artifacts \ {lpc.a} : art'[b] = art[b]
    BY <1>3, <2>1, <2>2
  <2>5. lpc' \in Places /\ lpc'.a = lpc.a /\ lpc'.p = 1 /\ lpc'.step = "pass" /\ lpc'.step \in Trying
    BY <1>3, <2>1 DEF At, Places, None, Answers, Trying
  <2>6. 1 \in DOMAIN Rows /\ RowsBefore(1, 1) = {} /\ pinned' = pinned
    BY <1>3, RowOrder, PassNumbers DEF Proceed
  <2>7. Dated' /\ Attempt'
    BY <2>2, <2>4, <2>5, <2>6 DEF Dated, Attempt, Early, RowSteps, Answered
  <2>. QED  BY <1>0, <1>3, <2>4, <2>5, <2>7, Moving DEF Proceed
<1>. QED  BY <1>1, <1>2, <1>3 DEF JudgePreprocess

LEMMA BeginPassStep == ASSUME IInv, cpc' = cpc, BeginPass PROVE IInv'
<1>0. lpc.step = "pass" /\ lpc.step \in Trying
  BY DEF BeginPass, Trying
<1>1. CASE Work # "verified" /\ Halt
  BY <1>0, <1>1, Halting
<1>2. CASE Proceed /\ \E s \in {"authority mismatch", "precondition rejected"} : Refuse(s)
  <2>1. PICK s \in {"authority mismatch", "precondition rejected"} : Refuse(s)
    BY <1>2
  <2>2. s \in Statuses \ {"verified"}
    BY DEF Statuses
  <2>. QED  BY <1>0, <1>2, <2>1, <2>2, Refusing
<1>3. CASE Proceed /\ lpc' = At("compile", lpc.a, lpc.p, 1) /\ UNCHANGED <<ctl, compiles, art, accepted>>
  <2>1. /\ lpc' \in Places /\ lpc'.a = lpc.a /\ lpc'.p = lpc.p /\ lpc'.r = 1
        /\ lpc'.step = "compile" /\ lpc'.step \in Trying
    BY <1>3 DEF At, IInv, Typed, Places, None, Answers, Trying, RowSteps
  <2>2. Dated' /\ Attempt'
    BY <1>0, <1>3, <2>1, PassNumbers DEF IInv, Dated, Attempt, Early, RowSteps, Answered, Proceed
  <2>. QED  BY <1>0, <1>3, <2>1, <2>2, Moving DEF Proceed, IInv, Typed
<1>. QED  BY <1>1, <1>2, <1>3 DEF BeginPass

LEMMA SendCompileStep == ASSUME IInv, cpc' = cpc, SendCompile PROVE IInv'
<1>0. lpc.step = "compile" /\ lpc.step \in Trying
  BY DEF SendCompile, Trying, RowSteps
<1>1. CASE Work # "verified" /\ Halt
  BY <1>0, <1>1, Halting
<1>2. CASE Proceed /\ \E s \in {"invalid dxbc", "authority mismatch"} : Refuse(s)
  <2>1. PICK s \in {"invalid dxbc", "authority mismatch"} : Refuse(s)
    BY <1>2
  <2>2. s \in Statuses \ {"verified"}
    BY DEF Statuses
  <2>. QED  BY <1>0, <1>2, <2>1, <2>2, Refusing
<1>3. CASE Proceed /\ ctl' = "budget exhausted" /\ End("budget exhausted")
  <2>1. "budget exhausted" \in Statuses \ {"verified"} /\ changed' \in BOOLEAN
    BY <1>3 DEF Statuses, Proceed, IInv, Typed
  <2>. QED  BY <1>0, <1>3, <2>1, Ending DEF Proceed
<1>4. CASE /\ Proceed
           /\ lpc' \in {[lpc EXCEPT !.step = "inspecting", !.helper = authority],
                         [lpc EXCEPT !.step = "compiling"]}
           /\ UNCHANGED <<ctl, art, accepted>>
  <2>1. /\ lpc' \in Places /\ lpc'.a = lpc.a /\ lpc'.p = lpc.p /\ lpc'.r = lpc.r
        /\ lpc'.step \in {"inspecting", "compiling"} /\ lpc'.step \in Trying
    BY <1>4 DEF IInv, Typed, Places, Trying, RowSteps
  <2>2. Dated' /\ Attempt'
    BY <1>0, <1>4, <2>1 DEF IInv, Dated, Attempt, Early, RowSteps, Answered, Proceed
  <2>. QED  BY <1>0, <1>4, <2>1, <2>2, Moving DEF Proceed, IInv, Typed
<1>. QED  BY <1>1, <1>2, <1>3, <1>4 DEF SendCompile

LEMMA JudgeInspectionStep == ASSUME IInv, cpc' = cpc, JudgeInspection PROVE IInv'
<1>0. lpc.step = "inspected" /\ lpc.step \in Trying /\ lpc.step \in Answered
  BY DEF JudgeInspection, Trying, RowSteps, Answered
<1>1. CASE Work # "verified" /\ Halt
  BY <1>0, <1>1, Halting
<1> DEFINE turned == {"compiler unavailable", "compiler rejected", "provenance mismatch",
                      "authority mismatch", "precondition rejected"}
           here == [art[lpc.a] EXCEPT !.under = @ \cup {lpc.under}]
<1>2. CASE Proceed /\ \E s \in turned : ctl' = s /\ End(s)
  <2>1. PICK s \in turned : ctl' = s /\ End(s)
    BY <1>2
  <2>2. s \in Statuses \ {"verified"} /\ changed' \in BOOLEAN
    BY <1>2 DEF Statuses, Proceed, IInv, Typed
  <2>. QED  BY <1>0, <1>2, <2>1, <2>2, Ending DEF Proceed
<1>3. CASE /\ Proceed
           /\ lpc' = [lpc EXCEPT !.step = "compile", !.answer = None]
           /\ art' = [art EXCEPT ![lpc.a].under = @ \cup {lpc.under}]
           /\ UNCHANGED <<ctl, compiles, accepted>>
  <2>1. /\ lpc.a \in Artifacts /\ art \in [Artifacts -> Records] /\ art[lpc.a] \in Records
        /\ lpc.under = pinned /\ art[lpc.a].under = {pinned}
    BY <1>0, <1>3, JudgedUnderPin DEF IInv, Typed, Settled, Attempt, RowSteps
  <2>2. here = art[lpc.a]
    BY <2>1 DEF Records
  <2>3. art' = art
    BY <1>3, <2>1, <2>2
  <2>4. /\ lpc' \in Places /\ lpc'.a = lpc.a /\ lpc'.p = lpc.p /\ lpc'.r = lpc.r
        /\ lpc'.step = "compile" /\ lpc'.step \in Trying
    BY <1>3 DEF IInv, Typed, Places, Answers, Trying, RowSteps
  <2>5. Dated' /\ Attempt'
    BY <1>0, <1>3, <2>3, <2>4 DEF IInv, Dated, Attempt, Early, RowSteps, Answered, Proceed
  <2>. QED  BY <1>0, <1>3, <2>1, <2>3, <2>4, <2>5, Moving DEF Proceed
<1>. QED  BY <1>1, <1>2, <1>3 DEF JudgeInspection

(* A row that matched is added to what is proved; after the last one that  *)
(* is the whole domain.                                                    *)
LEMMA JudgeCompileStep == ASSUME IInv, cpc' = cpc, JudgeCompile PROVE IInv'
<1>0. lpc.step = "compiled" /\ lpc.step \in Trying /\ lpc.step \in Answered /\ lpc.step \in RowSteps
  BY DEF JudgeCompile, Trying, RowSteps, Answered
<1>1. CASE Work # "verified" /\ Halt
  BY <1>0, <1>1, Halting
<1>2. CASE Proceed /\ ctl' = "provenance mismatch" /\ End("provenance mismatch")
  <2>1. "provenance mismatch" \in Statuses \ {"verified"} /\ changed' \in BOOLEAN
    BY <1>2 DEF Statuses, Proceed, IInv, Typed
  <2>. QED  BY <1>0, <1>2, <2>1, Ending DEF Proceed
<1>3. CASE Proceed /\ DomainStatus(lpc.answer) # "verified" /\ Refuse(DomainStatus(lpc.answer))
  <2>1. DomainStatus(lpc.answer) \in Statuses \ {"verified"}
    BY <1>3 DEF DomainStatus, Statuses
  <2>. QED  BY <1>0, <1>3, <2>1, Refusing
<1> DEFINE here == [art[lpc.a] EXCEPT !.proved = @ \cup {<<lpc.p, lpc.r>>},
                                      !.under = @ \cup {lpc.under},
                                      !.marks = @ \cup ({lpc.answer} \ {"equal"})]
<1>4. ASSUME Proceed
      PROVE  /\ lpc.a \in Artifacts /\ art \in [Artifacts -> Records]
             /\ lpc.p \in DOMAIN Rows /\ lpc.r \in 1..Rows[lpc.p]
             /\ here \in Records /\ here.under = {pinned}
             /\ here.proved = RowsBefore(lpc.p, lpc.r + 1)
  <2>1. /\ lpc.a \in Artifacts /\ art \in [Artifacts -> Records] /\ art[lpc.a] \in Records
        /\ lpc.p \in DOMAIN Rows /\ lpc.r \in 1..Rows[lpc.p]
        /\ lpc.under = pinned /\ art[lpc.a].under = {pinned} /\ pinned \in Nat
        /\ art[lpc.a].proved = RowsBefore(lpc.p, lpc.r) /\ lpc.answer \in Answers
    BY <1>0, <1>4, JudgedUnderPin DEF IInv, Typed, Settled, Attempt, Places
  <2>2. <<lpc.p, lpc.r>> \in Domain
    BY <2>1, DomainRows
  <2>3. here \in Records /\ here.under = {pinned} /\ here.proved = RowsBefore(lpc.p, lpc.r) \cup {<<lpc.p, lpc.r>>}
    BY <2>1, <2>2 DEF Records
  <2>. QED  BY <2>1, <2>3, RowOrder
<1>5. CASE /\ Proceed /\ AfterRow(lpc.p, lpc.r) = Idle
           /\ UNCHANGED <<ctl, compiles>> /\ Close("verified", here)
  <2>1. lpc.r = Rows[lpc.p] /\ lpc.p + 1 \notin DOMAIN Rows
    BY <1>4, <1>5, PassNumbers DEF AfterRow, At, Idle
  <2>2. here.proved = Domain
    BY <1>4, <1>5, <2>1, RowOrder
  <2>3. "verified" \in Statuses /\ ctl' \in Statuses /\ changed' \in BOOLEAN
    BY <1>5 DEF Statuses, Proceed, IInv, Typed
  <2>. QED  BY <1>0, <1>4, <1>5, <2>2, <2>3, Closing DEF Proceed
<1>6. CASE /\ Proceed /\ AfterRow(lpc.p, lpc.r) # Idle
           /\ art' = [art EXCEPT ![lpc.a] = here] /\ lpc' = AfterRow(lpc.p, lpc.r)
           /\ UNCHANGED <<ctl, compiles, accepted>>
  <2>1. /\ art' \in [Artifacts -> Records] /\ art'[lpc.a] = here
        /\ \A b \in Artifacts \ {lpc.a} : art'[b] = art[b]
    BY <1>4, <1>6
  <2>2. CASE lpc.r < Rows[lpc.p]
    <3>1. /\ lpc' \in Places /\ lpc'.a = lpc.a /\ lpc'.p = lpc.p /\ lpc'.r = lpc.r + 1
          /\ lpc'.step = "compile" /\ lpc'.step \in Trying
      <4>1. lpc' = At("compile", lpc.a, lpc.p, lpc.r + 1)
        BY <1>6, <2>2 DEF AfterRow
      <4>2. lpc.a \in Artifacts /\ lpc.p \in Nat /\ lpc.r + 1 \in Nat
        BY <1>4, <1>6, PassNumbers
      <4>. QED  BY <4>1, <4>2 DEF At, Places, None, Answers, Trying, RowSteps
    <3>2. lpc.r + 1 \in 1..Rows[lpc.p]
      BY <1>4, <1>6, <2>2, PassNumbers
    <3>3. Dated' /\ Attempt'
      BY <1>4, <1>6, <2>1, <3>1, <3>2 DEF Dated, Attempt, Early, RowSteps, Answered, Proceed
    <3>. QED  BY <1>0, <1>6, <2>1, <3>1, <3>3, Moving DEF Proceed
  <2>3. CASE lpc.r = Rows[lpc.p]
    <3>1. lpc.p + 1 \in DOMAIN Rows /\ lpc' = At("pass", lpc.a, lpc.p + 1, 0)
      BY <1>4, <1>6, <2>3, PassNumbers DEF AfterRow
    <3>2. /\ lpc' \in Places /\ lpc'.a = lpc.a /\ lpc'.p = lpc.p + 1
          /\ lpc'.step = "pass" /\ lpc'.step \in Trying
      <4>1. lpc.a \in Artifacts /\ lpc.p + 1 \in Nat
        BY <1>4, <1>6, PassNumbers
      <4>. QED  BY <3>1, <4>1 DEF At, Places, None, Answers, Trying
    <3>3. here.proved = RowsBefore(lpc.p + 1, 1)
      BY <1>4, <1>6, <2>3, <3>1, RowOrder
    <3>4. Dated' /\ Attempt'
      BY <1>4, <1>6, <2>1, <3>1, <3>2, <3>3 DEF Dated, Attempt, Early, RowSteps, Answered, Proceed
    <3>. QED  BY <1>0, <1>6, <2>1, <3>2, <3>4, Moving DEF Proceed
  <2>. QED  BY <1>4, <1>6, <2>2, <2>3, PassNumbers
<1>. QED  BY <1>1, <1>2, <1>3, <1>5, <1>6 DEF JudgeCompile

(* A new revision is younger than every answer already made.               *)
LEMMA ReviseStep == ASSUME IInv, cpc' = cpc, Revise PROVE IInv'
<1>1. authority' = authority + 1 /\ UNCHANGED <<asked, ctl, changed, pinned, art, accepted, lpc>>
  BY DEF Revise
<1>2. Typed' /\ Dated'
  BY <1>1 DEF IInv, Typed, Dated, Places
<1>. QED  BY <1>1, <1>2 DEF IInv, Phased, Settled, Attempt, AcceptedUnderPin

LEMMA InterruptStep == ASSUME IInv, cpc' = cpc, Interrupt PROVE IInv'
<1>1. /\ asked' \in Statuses
      /\ UNCHANGED <<authority, ctl, changed, pinned, art, accepted, lpc>>
  BY DEF Interrupt, Statuses
<1>. QED  BY <1>1 DEF IInv, Typed, Phased, Settled, Dated, Attempt, AcceptedUnderPin

-----------------------------------------------------------------------------
(* The actions of the contract around the lift.                            *)
LEMMA BeginLiftStep == ASSUME IInv, BeginLift PROVE IInv'
<1>1. UNCHANGED <<authority, asked, ctl, changed, pinned, art, accepted>> /\ cpc = "lift" /\ lpc.step = "idle"
  BY DEF BeginLift
<1>2. CASE lpc' = [Idle EXCEPT !.step = "start"] /\ cpc' = cpc
  <2>1. lpc' \in Places /\ lpc'.step = "start"
    BY <1>2 DEF Idle, At, Places, None, Answers
  <2>. QED  BY <1>1, <1>2, <2>1
            DEF IInv, Typed, Phased, Settled, Dated, Attempt, AcceptedUnderPin, Trying, Early,
                RowSteps, Answered
<1>3. CASE lpc' = lpc /\ cpc' = "done"
  BY <1>1, <1>3
     DEF IInv, Typed, Phased, Settled, Dated, Attempt, AcceptedUnderPin, BeforeLift
<1>. QED  BY <1>2, <1>3 DEF BeginLift, Stop

LEMMA EndLiftStep == ASSUME IInv, EndLift PROVE IInv'
<1>1. /\ cpc' \in {"publish", "done"} /\ lpc' = Idle /\ asked' = "verified" /\ ctl' = "verified"
      /\ authority' = pinned /\ UNCHANGED <<changed, pinned, accepted>>
      /\ art' = [a \in Artifacts |-> IF a = accepted THEN art[a] ELSE NewArtifact]
  BY DEF EndLift, Stop
<1>2. lpc' \in Places /\ lpc'.step = "idle"
  BY <1>1 DEF Idle, At, Places, None, Answers
<1>3. Typed'
  <2>1. art' \in [Artifacts -> Records]
    BY <1>1, NewIsFresh DEF IInv, Typed
  <2>2. asked' \in Statuses /\ ctl' \in Statuses
    BY <1>1 DEF Statuses
  <2>. QED  BY <1>1, <1>2, <2>1, <2>2 DEF IInv, Typed
<1>4. AcceptedUnderPin'
  BY <1>1 DEF IInv, Typed, AcceptedUnderPin
<1>. QED  BY <1>1, <1>2, <1>3, <1>4
          DEF IInv, Phased, Settled, Dated, Attempt, Trying, Early, RowSteps, Answered, BeforeLift

(* Whatever leaves the lift alone and does not lead back to it.            *)
Aside ==
    /\ UNCHANGED lvars
    /\ cpc' = cpc \/ (cpc # "lift" /\ (cpc \in BeforeLift \/ cpc' \notin BeforeLift \cup {"lift"}))

LEMMA AsideStep == ASSUME IInv, Aside PROVE IInv'
<1>1. UNCHANGED <<authority, asked, ctl, changed, pinned, art, accepted, lpc>>
  BY DEF Aside, lvars
<1>2. Phased'
  BY <1>1 DEF IInv, Phased, Aside, BeforeLift
<1>. QED  BY <1>1, <1>2 DEF IInv, Typed, Settled, Dated, Attempt, AcceptedUnderPin

LEMMA RunLiftStep == ASSUME IInv, RunLift PROVE IInv'
<1>1. cpc' = cpc /\ (LiftStep \/ Revise \/ Interrupt)
  BY DEF RunLift
<1>. QED
  BY <1>1, PinStep, EmitStep, PreprocessedStep, JudgePreprocessStep, BeginPassStep, SendCompileStep,
     CompiledStep, JudgeInspectionStep, JudgeCompileStep, ReviseStep, InterruptStep DEF LiftStep

LEMMA OtherSteps ==
    ASSUME \/ OpenPlayer \/ ClosePlayer \/ PublishSource \/ OpenInputs \/ BeginBundle
           \/ EndBundle \/ RunGate \/ CatalogBundle \/ CloseInputs \/ OpenNative
           \/ RunNative \/ CloseNative \/ Bind \/ Collect \/ Certify \/ EditFile \/ Done
    PROVE  Aside
<1>1. CASE OpenPlayer    BY <1>1 DEF OpenPlayer, OnlyContract, Stop, Aside, BeforeLift
<1>2. CASE ClosePlayer   BY <1>2 DEF ClosePlayer, OnlyContract, Stop, Aside, BeforeLift
<1>3. CASE PublishSource BY <1>3 DEF PublishSource, Stop, Aside, BeforeLift
<1>4. CASE OpenInputs    BY <1>4 DEF OpenInputs, Aside, BeforeLift
<1>5. CASE BeginBundle   BY <1>5 DEF BeginBundle, Aside
<1>6. CASE EndBundle     BY <1>6 DEF EndBundle, OnlyContract, Aside, BeforeLift
<1>7. CASE RunGate       BY <1>7 DEF RunGate, Aside
<1>8. CASE CatalogBundle BY <1>8 DEF CatalogBundle, OnlyContract, Aside, BeforeLift
<1>9. CASE CloseInputs   BY <1>9 DEF CloseInputs, OnlyContract, Stop, Aside, BeforeLift
<1>10. CASE OpenNative   BY <1>10 DEF OpenNative, OnlyContract, Aside, BeforeLift
<1>11. CASE RunNative    BY <1>11 DEF RunNative, OnlyContract, Aside, BeforeLift
<1>12. CASE CloseNative  BY <1>12 DEF CloseNative, OnlyContract, Aside, BeforeLift
<1>13. CASE Bind         BY <1>13 DEF Bind, OnlyContract, Stop, Aside, BeforeLift
<1>14. CASE Collect      BY <1>14 DEF Collect, OnlyContract, Stop, Aside, BeforeLift
<1>15. CASE Certify      BY <1>15 DEF Certify, OnlyContract, Stop, Aside, BeforeLift
<1>16. CASE EditFile     BY <1>16 DEF EditFile, Aside
<1>17. CASE Done         BY <1>17 DEF Done, vars, Aside
<1>. QED  BY <1>1, <1>2, <1>3, <1>4, <1>5, <1>6, <1>7, <1>8, <1>9, <1>10, <1>11, <1>12,
             <1>13, <1>14, <1>15, <1>16, <1>17

-----------------------------------------------------------------------------
LEMMA InitIInv == Init => IInv
<1> SUFFICES ASSUME Init PROVE IInv
  OBVIOUS
<1>1. /\ authority = 1 /\ asked = "verified" /\ ctl = "verified" /\ changed = FALSE /\ pinned = 0
      /\ art = [a \in Artifacts |-> NewArtifact] /\ accepted = None /\ lpc = Idle
  BY DEF Init, LiftInit
<1>2. lpc \in Places /\ lpc.step = "idle"
  BY <1>1 DEF Idle, At, Places, None, Answers
<1>3. Typed
  <2>1. art \in [Artifacts -> Records]
    BY <1>1, NewIsFresh
  <2>2. asked \in Statuses /\ ctl \in Statuses
    BY <1>1 DEF Statuses
  <2>3. authority \in Nat /\ pinned \in Nat /\ pinned <= authority
    BY <1>1
  <2>4. changed \in BOOLEAN /\ accepted \in Artifacts \cup {None}
    BY <1>1
  <2>. QED  BY <1>2, <2>1, <2>2, <2>3, <2>4 DEF Typed
<1>4. Phased /\ Settled /\ Dated /\ Attempt /\ AcceptedUnderPin
  BY <1>1, <1>2, NewIsFresh
     DEF Phased, Settled, Dated, Attempt, AcceptedUnderPin, Trying, Early, RowSteps, Answered
<1>. QED  BY <1>3, <1>4 DEF IInv

LEMMA NextIInv == IInv /\ [Next]_vars => IInv'
<1> SUFFICES ASSUME IInv, [Next]_vars PROVE IInv'
  OBVIOUS
<1>1. CASE BeginLift  BY <1>1, BeginLiftStep
<1>2. CASE RunLift    BY <1>2, RunLiftStep
<1>3. CASE EndLift    BY <1>3, EndLiftStep
<1>4. CASE UNCHANGED vars
  <2>1. Aside  BY <1>4 DEF vars, Aside
  <2>. QED  BY <2>1, AsideStep
<1>. QED  BY <1>1, <1>2, <1>3, <1>4, OtherSteps, AsideStep DEF Next

(***************************************************************************)
(* Whatever the passes, their rows, the limits and the edits: an accepted  *)
(* artifact has every generated compile of the domain matched under the    *)
(* one pinned revision of compiler, includes and profile, and none is      *)
(* accepted once another revision was seen (unity_shaderlab_lift_run).     *)
(***************************************************************************)
THEOREM AcceptedIsPinned == Spec => []AcceptedUnderPin
<1>1. IInv => AcceptedUnderPin
  BY DEF IInv
<1>. QED  BY <1>1, InitIInv, NextIInv, PTL DEF Spec

-----------------------------------------------------------------------------
(***************************************************************************)
(* The second part: the bundle gate and the evidence of the contract, for  *)
(* any passes and rows and any number of edits and failures.               *)
(*                                                                         *)
(* The argument: a stamp never returns, so an input whose view still       *)
(* matches when it is released was the same file throughout (Renewed), and *)
(* the Editor's copy of it is what the view shows (Copied).  The gate      *)
(* reports success only for what the report, the exit code and the hashed  *)
(* bytes agree on (GateTrue), the subject is bound to that, and the        *)
(* certificate counts only items that match (Evidenced).                   *)
(***************************************************************************)

(* The records keep their fields.                                          *)
GateShape ==
    gate = [at |-> gate.at, status |-> gate.status, view |-> gate.view, workspace |-> gate.workspace,
            preserved |-> gate.preserved, published |-> gate.published, sha |-> gate.sha]
(* The Editor's record.                                                    *)
EditorShape ==
    editor = [at |-> editor.at, copy |-> editor.copy, by |-> editor.by, diags |-> editor.diags,
              verdict |-> editor.verdict, sha |-> editor.sha, report |-> editor.report, exit |-> editor.exit,
              swapped |-> editor.swapped]
(* Every path has a file of bytes and a stamp.                             *)
DiskShape ==
    /\ disk = [p \in Paths |-> disk[p]]
    /\ \A p \in Paths : disk[p] = [bytes |-> disk[p].bytes, stamp |-> disk[p].stamp] /\ disk[p].stamp \in Nat

(* The Editor is running in these stages.                                  *)
Working == {"import", "build", "measure", "hash", "report", "exit"}
(* The stages between the build and the digest of the bundle.              *)
Unread == {"measure", "hash"}
(* These bytes are the bundle of the copied source, unless it was swapped  *)
(* before the Editor read it.                                              *)
Genuine(bytes) == editor.swapped \/ bytes = <<"bundle", editor.copy>>
(* What the report says was built is that.                                 *)
Built == Genuine(editor.report.sha) /\ ~PolicyBreak(editor.diags)

(* The Editor runs only while the launcher waits, says "passed" only of a  *)
(* bundle it has built from its copy without breaking the policy, unless   *)
(* it was swapped in time, and has no report before it writes one.         *)
EditorTrue ==
    /\ editor.at \in {"none", "gone"} \cup Working
    /\ editor.at \in Working <=> gate.at = "wait" /\ editor.at # "gone"
    /\ editor.at \in {"none", "import", "build", "report"} \cup Unread => editor.report = NoReport
    /\ editor.at \in {"none", "import", "build"} \cup Unread => editor.verdict = "none"
    /\ editor.at \in Unread =>
         /\ ~PolicyBreak(editor.diags)
         /\ disk["internal"].bytes # <<>> => Genuine(disk["internal"].bytes)
    /\ editor.at = "hash" => disk["internal"].bytes # <<>>
    /\ gate.at \in {"idle", "begin", "prepare", "launch"} => editor.at = "none"
    /\ editor.at = "report" /\ editor.verdict = "passed" =>
         Genuine(editor.sha) /\ ~PolicyBreak(editor.diags)
    /\ editor.report.status = "passed" => Built

(* The report was read, said "passed", and agreed with the exit code.      *)
Judged == editor.exit = 0 /\ editor.report.status = "passed" /\ gate.sha = editor.report.sha
(* The launcher's stages before it has a verdict.                          *)
Before == {"idle", "begin", "prepare", "launch", "wait", "open", "publish"}

(* What the launcher knows at each stage: it is about to succeed only with *)
(* a judged report and a view of the reported bytes.                       *)
GateTrue ==
    /\ gate.at \in Before \cup {"close", "cleanup", "ended"}
    /\ gate.at \in Before => gate.status = "running"
    /\ gate.at \in {"open", "publish"} => Judged
    /\ gate.at = "close" /\ gate.status = "passed" => Judged /\ gate.view.bytes = gate.sha
    /\ gate.at \in {"cleanup", "ended"} /\ gate.status = "passed" =>
         Judged /\ gate.view.bytes = gate.sha /\ gate.published

(* The invariant of the gate.                                              *)
GInv == GateShape /\ EditorShape /\ DiskShape /\ EditorTrue /\ GateTrue

(* The gate starts with nothing.                                           *)
LEMMA GateStart == ASSUME NEW source, source.stamp \in Nat, source = [bytes |-> source.bytes, stamp |-> source.stamp],
     GateInit(source) PROVE GInv
<1> USE DEF GateInit, NewGate, NoEditor
<1>1. GateShape /\ EditorShape
  BY DEF GateShape, EditorShape
<1>2. DiskShape
  BY DEF DiskShape, Absent, Paths
<1>3. EditorTrue /\ GateTrue
  BY DEF EditorTrue, GateTrue, Working, Unread, Before, NoReport
<1> QED  BY <1>1, <1>2, <1>3 DEF GInv

(* A write keeps the files files.                                          *)
LEMMA WrittenShape ==
    ASSUME DiskShape, NEW p, NEW b, disk' = Written(p, b) PROVE DiskShape'
  BY DEF DiskShape, Written

(* So does a removal.                                                      *)
LEMMA RemovedShape ==
    ASSUME DiskShape, NEW p, disk' = [disk EXCEPT ![p] = Absent] PROVE DiskShape'
  BY DEF DiskShape, Absent

(* The launcher up to the start of the Editor.                             *)
LEMMA LauncherEarly ==
    ASSUME GInv, GateBegin \/ GatePrepare \/ GateLaunch PROVE GInv'
<1> USE DEF GInv
<1>1. CASE GateBegin
  BY <1>1 DEF GateBegin, GateShape, EditorShape, DiskShape, EditorTrue, GateTrue, Built, Genuine, Unread,
     PolicyBreak, Judged, Before, Working
<1>2. CASE GatePrepare
  <2> USE <1>2 DEF GatePrepare
  <2>1. GateShape' /\ EditorShape' /\ DiskShape'
    BY DEF GateShape, EditorShape, DiskShape, NoEditor
  <2>2. EditorTrue'
    <3>1. CASE editor' = [NoEditor EXCEPT !.copy = disk["source"].bytes, !.by = disk["bridge"].bytes]
               /\ gate' = [gate EXCEPT !.at = "launch", !.workspace = TRUE]
      BY <3>1 DEF GateShape, EditorTrue, Working, Unread, NoEditor, NoReport
    <3>2. CASE editor' = editor /\ gate'.at = "cleanup"
      BY <3>2 DEF EditorTrue, Working, Built, Genuine, Unread, PolicyBreak
    <3> QED  BY <3>1, <3>2 DEF GateShape
  <2>3. GateTrue'
    BY DEF GateShape, GateTrue, Before
  <2> QED  BY <2>1, <2>2, <2>3
<1>3. CASE GateLaunch
  <2> USE <1>3 DEF GateLaunch, GateEnds
  <2>1. GateShape' /\ EditorShape' /\ DiskShape'
    BY DEF GateShape, EditorShape, DiskShape
  <2>2. EditorTrue'
    BY DEF GateShape, EditorShape, EditorTrue, Working, NoReport, Built, Genuine, Unread, PolicyBreak
  <2>3. GateTrue'
    BY DEF GateShape, GateTrue, Before
  <2> QED  BY <2>1, <2>2, <2>3
<1> QED  BY <1>1, <1>2, <1>3

(* The launcher after the Editor has ended.                                *)
LEMMA LauncherLate ==
    ASSUME GInv, GateRead \/ GateOpen \/ GatePublish \/ GateClose \/ GateCleanup PROVE GInv'
<1> USE DEF GInv
<1>1. GateShape' /\ EditorShape'
  BY DEF GateRead, GateOpen, GatePublish, GateClose, GateCleanup, GateEnds, GateShape, EditorShape
<1>2. DiskShape'
  <2>1. \/ disk' = disk \/ disk' = Written("output", gate.view.bytes)
        \/ disk' = [disk EXCEPT !["internal"] = Absent]
    BY DEF GateRead, GateOpen, GatePublish, GateClose, GateCleanup
  <2>2. CASE disk' = disk
    BY <2>2 DEF DiskShape
  <2> QED  BY <2>1, <2>2, WrittenShape, RemovedShape
<1>3. EditorTrue'
  BY DEF GateRead, GateOpen, GatePublish, GateClose, GateCleanup, GateEnds, GateShape, EditorTrue,
     GateTrue, Working,
     Built, Genuine, Unread, PolicyBreak
<1>4. GateTrue'
  <2> USE DEF GateShape, GateTrue, Before, Judged
  <2>1. CASE GateRead
    BY <2>1 DEF GateRead, GateEnds, GateStatus, ExitOf
  <2>2. CASE GateOpen
    BY <2>2 DEF GateOpen, GateEnds
  <2>3. CASE GatePublish
    BY <2>3 DEF GatePublish, Verified
  <2>4. CASE GateClose
    BY <2>4 DEF GateClose
  <2>5. CASE GateCleanup
    BY <2>5 DEF GateCleanup
  <2> QED  BY <2>1, <2>2, <2>3, <2>4, <2>5
<1> QED  BY <1>1, <1>2, <1>3, <1>4

(* An exception leaves no report that says "passed".                       *)
LEMMA Thrown ==
    ASSUME EditorShape, NEW listed \in BOOLEAN, Throws(listed), editor.report = NoReport
    PROVE  editor'.at = "exit" /\ editor'.report.status # "passed"
<1> DEFINE failed == [status |-> "build failed", sha |-> <<>>, diags |-> editor.diags]
<1>1. PICK r \in {editor.report, Truncated, failed} :
        editor' = [editor EXCEPT !.at = "exit", !.exit = 3, !.report = r]
  BY DEF Throws
<1>2. NoReport.status # "passed" /\ Truncated.status # "passed" /\ failed.status # "passed"
  BY DEF NoReport, Truncated
<1> HIDE DEF failed
<1>3. r.status # "passed"
  BY <1>1, <1>2
<1>4. editor'.at = "exit" /\ editor'.report = r
  BY <1>1 DEF EditorShape
<1> QED  BY <1>3, <1>4

(* The Editor's own steps, its death included.                             *)
LEMMA EditorKeeps ==
    ASSUME GInv,
           EditorImport \/ EditorBuild \/ EditorMeasure \/ EditorHash \/ EditorReport \/ EditorExit \/ EditorDies
    PROVE  GInv'
<1> USE DEF GInv
<1>1. GateShape' /\ EditorShape' /\ gate' = gate /\ policy' = policy
  BY DEF EditorImport, EditorBuild, EditorMeasure, EditorHash, EditorReport, EditorExit, EditorDies, Throws, GateShape,
     EditorShape
<1>2. DiskShape'
  <2>1. \/ disk' = disk \/ (\E b : disk' = Written("internal", b))
        \/ disk' = [disk EXCEPT !["internal"] = Absent]
    BY DEF EditorImport, EditorBuild, EditorMeasure, EditorHash, EditorReport, EditorExit, EditorDies, Throws
  <2>2. CASE disk' = disk
    BY <2>2 DEF DiskShape
  <2> QED  BY <2>1, <2>2, WrittenShape, RemovedShape
<1>3. EditorTrue'
  <2> USE DEF EditorShape, EditorTrue, Working, NoReport, Built, Genuine, Unread, PolicyBreak
  <2>1. CASE EditorImport
    <3>1. \/ /\ editor'.at = "report" /\ editor'.verdict # "passed" /\ editor'.report = NoReport
          \/ /\ editor'.at = "exit" /\ editor'.report.status # "passed"
          \/ /\ editor'.at = "build" /\ editor'.verdict = "none" /\ editor'.report = NoReport
      <4>1. editor.report = NoReport /\ editor.verdict = "none"
        BY <2>1 DEF EditorImport
      <4>2. CASE \E listed \in BOOLEAN : Throws(listed)
        BY <4>1, <4>2, Thrown
      <4>3. CASE \E v \in {"target unavailable", "backend unavailable"} :
                   editor' = [editor EXCEPT !.at = "report", !.verdict = v]
        BY <4>1, <4>3
      <4>4. CASE \E d \in {"none", "warning", "error"} :
                   editor' = [editor EXCEPT !.diags = d, !.at = IF PolicyBreak(d) THEN "report" ELSE "build",
                                            !.verdict = IF PolicyBreak(d) THEN "diagnostics found" ELSE @]
        BY <4>1, <4>4
      <4> QED  BY <2>1, <4>2, <4>3, <4>4 DEF EditorImport
    <3> QED  BY <1>1, <2>1, <3>1 DEF EditorImport
  <2>2. CASE EditorBuild
    <3>1. PICK d, built :
            LET verdict == IF built = "nothing" \/ d = "error" THEN "build failed"
                           ELSE IF PolicyBreak(d) THEN "diagnostics found" ELSE "none"
                bundle == IF built = "bundle" THEN <<"bundle", editor.copy>> ELSE <<>>
            IN /\ verdict = "none" => disk' = Written("internal", bundle)
               /\ editor' = [editor EXCEPT !.at = IF verdict = "none" THEN "measure" ELSE "report",
                                           !.diags = d, !.verdict = verdict]
      BY <2>2 DEF EditorBuild
    <3>2. \/ /\ editor'.at = "report" /\ editor'.verdict # "passed"
          \/ /\ editor'.at = "measure" /\ editor'.verdict = "none" /\ ~PolicyBreak(editor'.diags)
             /\ \/ disk' = Written("internal", <<>>)
                \/ disk' = Written("internal", <<"bundle", editor.copy>>)
      BY <3>1
    <3>3. /\ editor'.copy = editor.copy /\ editor'.report = NoReport /\ editor.at = "build"
      BY <2>2, <3>1 DEF EditorBuild
    <3>4. \A bytes : disk' = Written("internal", bytes) => disk'["internal"].bytes = bytes
      BY DEF DiskShape, Written, Paths
    <3> QED  BY <1>1, <3>2, <3>3, <3>4
  <2>6. CASE EditorMeasure
    <3>1. CASE Throws(TRUE)
      BY <1>1, <2>6, <3>1, Thrown DEF EditorMeasure
    <3>2. CASE ~Throws(TRUE)
      <4>1. Exists("internal") /\ editor' = [editor EXCEPT !.at = "hash"] /\ UNCHANGED disk
        BY <2>6, <3>2 DEF EditorMeasure
      <4> QED  BY <1>1, <2>6, <4>1 DEF EditorMeasure, Exists
    <3> QED  BY <3>1, <3>2
  <2>7. CASE EditorHash
    <3>1. /\ editor'.at = "report" /\ editor'.report = NoReport /\ editor'.copy = editor.copy
          /\ editor'.swapped = editor.swapped /\ editor'.sha = disk["internal"].bytes
          /\ editor'.diags = editor.diags
      BY <2>7 DEF EditorHash
    <3> QED  BY <1>1, <2>7, <3>1 DEF EditorHash
  <2>3. CASE EditorReport
    <3>1. \/ /\ editor'.at = "exit" /\ editor'.report.status # "passed"
          \/ /\ editor'.at = "exit" /\ editor'.copy = editor.copy /\ editor'.diags = editor.diags
             /\ editor'.report.status = editor.verdict /\ editor'.report.sha = editor.sha
             /\ editor'.swapped = editor.swapped
      <4>1. editor.report = NoReport
        BY <2>3 DEF EditorReport
      <4>2. CASE Throws(TRUE)
        BY <4>1, <4>2, Thrown
      <4>3. CASE ~Throws(TRUE)
        <5>1. editor' = [editor EXCEPT !.at = "exit", !.exit = ExitOf(editor.verdict),
                 !.report = [status |-> editor.verdict, diags |-> editor.diags, sha |-> editor.sha]]
          BY <2>3, <4>3 DEF EditorReport
        <5>2. editor' = [at |-> "exit", copy |-> editor.copy, by |-> editor.by, diags |-> editor.diags,
                 verdict |-> editor.verdict, sha |-> editor.sha,
                 report |-> [status |-> editor.verdict, diags |-> editor.diags, sha |-> editor.sha],
                 exit |-> ExitOf(editor.verdict), swapped |-> editor.swapped]
          BY <5>1
        <5> QED  BY <5>2
      <4> QED  BY <4>2, <4>3
    <3> QED  BY <1>1, <2>3, <3>1 DEF EditorReport
  <2>4. CASE EditorExit
    BY <1>1, <2>4 DEF EditorExit
  <2>5. CASE EditorDies
    <3>1. /\ editor'.at = "gone" /\ editor'.copy = editor.copy /\ editor'.diags = editor.diags
          /\ editor'.report = editor.report \/ editor'.report.status # "passed"
          /\ editor'.swapped = editor.swapped
      BY <2>5 DEF EditorDies, Truncated
    <3> QED  BY <1>1, <2>5, <3>1 DEF EditorDies
  <2> QED  BY <2>1, <2>2, <2>3, <2>4, <2>5, <2>6, <2>7
<1>4. GateTrue'
  <2>1. gate.at = "wait"
    BY DEF EditorTrue, Working, Unread, EditorImport, EditorBuild, EditorMeasure, EditorHash, EditorReport, EditorExit, EditorDies
  <2> QED  BY <1>1, <2>1 DEF GateTrue, Before
<1> QED  BY <1>1, <1>2, <1>3, <1>4

-----------------------------------------------------------------------------
(* The stages of the contract before the import, those of the import, and  *)
(* those after it.                                                         *)
Opening == {"player", "player close", "lift", "publish", "inputs"}
Importing == {"import", "inputs close"}
Bound == {"native", "native run", "native close", "bind", "evidence"}
Phases == Opening \cup Importing \cup Bound \cup {"bundle", "done"}
(* The contract was captured.                                              *)
Captured == contract.status = "captured"

(* The contract's record and the views keep their fields.                  *)
ContractShape ==
    /\ contract = [status |-> contract.status, player |-> contract.player, profile |-> contract.profile,
                   sourcePublished |-> contract.sourcePublished, imported |-> contract.imported,
                   candidate |-> contract.candidate, native |-> contract.native,
                   subject |-> contract.subject, cert |-> contract.cert, planes |-> contract.planes]
    /\ contract.planes = [p \in LogicalPlanes |-> contract.planes[p]]
    /\ views = [p \in {"player", "tool"} \cup Inputs |-> views[p]]
    /\ cpc \in Phases

(* The gate waits for its turn; a captured contract is the end; from the   *)
(* publication on there is an accepted artifact.                           *)
Ordered ==
    /\ cpc \in Opening => gate.at = "idle"
    /\ Captured => cpc = "done"
    /\ cpc \in (Opening \cup Importing \cup Bound) \ (BeforeLift \cup {"lift"}) \/ Captured => accepted # None

Renewed(p) ==
    /\ views[p].stamp \in Nat /\ views[p].stamp <= disk[p].stamp
    /\ disk[p].stamp = views[p].stamp => disk[p] = views[p]
(* The project of the Editor has been filled.                              *)
Prepared ==
    \/ gate.at \in {"launch", "wait", "open", "publish", "close"}
    \/ gate.at \in {"cleanup", "ended"} /\ gate.status = "passed"
(* As long as the held views still match, the Editor's project has exactly *)
(* their bytes.                                                            *)
Copied ==
    /\ disk["source"].stamp = views["source"].stamp => editor.copy = views["source"].bytes
    /\ disk["bridge"].stamp = views["bridge"].stamp => editor.by = views["bridge"].bytes
(* The inputs while they are held over the import.                         *)
Held ==
    cpc \in Importing =>
        /\ \A p \in Inputs : Renewed(p)
        /\ Prepared => Copied

(* The candidate is what the Editor reported, and the bundle of what it    *)
(* copied.                                                                 *)
Found ==
    /\ contract.candidate.bytes = editor.report.sha /\ Genuine(contract.candidate.bytes)
    /\ editor.diags = "none"
(* What closing the inputs establishes, and what it stays true of.         *)
Released ==
    /\ cpc = "inputs close" /\ contract.candidate # Absent => Found /\ Copied
    /\ cpc \in Bound \/ Captured =>
         Found /\ editor.copy = contract.imported /\ editor.by = views["bridge"].bytes
    /\ cpc = "evidence" \/ Captured => contract.imported = SourceBytes(accepted)

(* A native observation is one of this target, candidate and player.       *)
Observed ==
    /\ cpc \in Opening \cup Importing \cup {"native", "native run", "bundle"} => contract.native = <<>>
    /\ contract.native # <<>> => contract.native = <<Target, contract.candidate, contract.player>>
    /\ Captured => \A p \in LogicalPlanes : contract.planes[p].subject = contract.subject

(* The invariant of the contract capture.                                  *)
CInv == GInv /\ ContractShape /\ Ordered /\ Held /\ Released /\ Observed

(* Nothing of the gate changes.                                            *)
LEMMA SameGate ==
    ASSUME GInv, UNCHANGED <<disk, policy, gate, editor>> PROVE GInv'
  BY DEF GInv, GateShape, EditorShape, DiskShape, EditorTrue, GateTrue, Built, Genuine, Unread, PolicyBreak, Judged

(* A contract that stops early claims nothing.                             *)
LEMMA Stopping ==
    ASSUME CInv, NEW status, status # "captured", Stop(status), UNCHANGED <<disk, policy, gate, editor, views>>
    PROVE  CInv'
<1> USE DEF CInv, Stop
<1>1. ContractShape'
  BY DEF ContractShape, Phases
<1>2. contract'.status = status /\ contract'.native = contract.native /\ contract'.candidate = contract.candidate
      /\ contract'.player = contract.player
  BY DEF ContractShape
<1>3. Ordered' /\ Held' /\ Released' /\ Observed'
  BY <1>2 DEF Ordered, Held, Released, Observed, Captured, Opening, Importing, Bound, BeforeLift
<1> QED  BY <1>1, <1>3, SameGate

(* A step of the lift, or out of it, with an accepted artifact.            *)
LEMMA LiftOnly ==
    ASSUME CInv, UNCHANGED <<gvars, views, contract>>, cpc \in BeforeLift \cup {"lift"}, ~Captured,
           cpc' \in Opening, cpc' \notin BeforeLift \cup {"lift"} => accepted' # None
    PROVE  CInv'
<1> USE DEF CInv, gvars
<1>1. ContractShape' /\ Ordered'
  BY DEF ContractShape, Phases, Ordered, Captured, Opening, Importing, Bound, BeforeLift
<1>2. Held' /\ Released' /\ Observed'
  BY DEF Held, Released, Importing, Bound, Captured, Opening, BeforeLift, Observed
<1> QED  BY <1>1, <1>2, SameGate

(* The lift.                                                               *)
LEMMA LiftSteps == ASSUME CInv, BeginLift \/ RunLift \/ EndLift PROVE CInv'
<1>1. ~Captured /\ cpc = "lift"
  BY DEF CInv, Ordered, BeginLift, RunLift, EndLift
<1>2. CASE UNCHANGED <<gvars, views, contract>> /\ cpc' \in Opening /\ (cpc' = "lift" \/ accepted' # None)
  BY <1>1, <1>2, LiftOnly
<1>3. CASE Stop("lift unavailable") /\ UNCHANGED <<gvars, views>>
  BY <1>3, Stopping DEF gvars
<1> QED  BY <1>1, <1>2, <1>3 DEF BeginLift, RunLift, EndLift, Opening

(* The player package.                                                     *)
LEMMA PlayerSteps == ASSUME CInv, OpenPlayer \/ ClosePlayer PROVE CInv'
<1> USE DEF CInv
<1>1. CASE Stop("player unavailable") /\ UNCHANGED <<disk, policy, gate, editor, views>>
  BY <1>1, Stopping
<1>2. CASE OpenPlayer /\ UNCHANGED contract
  <2> USE <1>2 DEF OpenPlayer, OnlyContract
  <2>1. ContractShape' /\ Ordered'
    BY DEF ContractShape, Phases, Ordered, Captured, Opening, Importing, Bound, BeforeLift, Stop
  <2>2. Held' /\ Released' /\ Observed'
    BY DEF Ordered, Held, Released, Importing, Bound, Captured, Opening, BeforeLift, Observed, Stop
  <2> QED  BY <2>1, <2>2, SameGate
<1>3. CASE ClosePlayer /\ cpc' = "lift"
           /\ contract' = [contract EXCEPT !.player = disk["player"], !.profile = Profile]
  <2> USE <1>3 DEF ClosePlayer, OnlyContract
  <2>1. ContractShape'
    BY DEF ContractShape, Phases, Opening
  <2>2. contract'.status = contract.status /\ contract'.native = contract.native
    BY DEF ContractShape
  <2>3. Ordered' /\ Held' /\ Released' /\ Observed'
    BY <2>2 DEF Ordered, Held, Released, Importing, Bound, Captured, Opening, BeforeLift, Observed
  <2> QED  BY <2>1, <2>3, SameGate
<1> QED  BY <1>1, <1>2, <1>3 DEF OpenPlayer, ClosePlayer, OnlyContract

(* The source is published.                                                *)
LEMMA PublishStep == ASSUME CInv, PublishSource PROVE CInv'
<1> USE DEF CInv
<1>1. CASE Stop("source unavailable") /\ UNCHANGED <<disk, policy, gate, editor, views>>
  BY <1>1, Stopping
<1>2. CASE /\ disk' = Written("source", SourceBytes(accepted)) /\ UNCHANGED <<lvars, policy, gate, editor, views>>
           /\ contract' = [contract EXCEPT !.sourcePublished = TRUE] /\ cpc = "publish" /\ cpc' = "inputs"
  <2> USE <1>2
  <2>0. gate.at = "idle" /\ editor.at = "none"
    BY DEF Ordered, Opening, GInv, EditorTrue
  <2>1. GInv'
    BY <2>0, WrittenShape DEF GInv, GateShape, EditorShape, EditorTrue, GateTrue, Built, Genuine, Unread, PolicyBreak,
       Judged
  <2>2. ContractShape'
    BY DEF ContractShape, Phases, Opening
  <2>3. contract'.status = contract.status /\ contract'.native = contract.native
    BY DEF ContractShape
  <2>4. Ordered' /\ Held' /\ Released' /\ Observed'
    BY <2>3 DEF Ordered, Held, Released, Importing, Bound, Captured, Opening, BeforeLift,
       Observed, lvars
  <2> QED  BY <2>1, <2>2, <2>4
<1> QED  BY <1>1, <1>2 DEF PublishSource

(* The gate begins.                                                        *)
LEMMA BeginGate ==
    ASSUME GInv, gate.at = "idle", gate' = [gate EXCEPT !.at = "begin"], UNCHANGED <<disk, policy, editor>>
    PROVE  GInv'
<1> USE DEF GInv
<1>1. GateShape' /\ EditorShape' /\ DiskShape'
  BY DEF GateShape, EditorShape, DiskShape
<1>2. gate'.at = "begin" /\ gate'.status = gate.status
  BY DEF GateShape
<1>3. EditorTrue' /\ GateTrue'
  BY <1>2 DEF EditorTrue, GateTrue, Built, Genuine, Unread, PolicyBreak, Judged, Before, Working
<1> QED  BY <1>1, <1>3

(* The inputs are held: their views are the files of the moment.           *)
LEMMA OpenInputsStep == ASSUME CInv, OpenInputs PROVE CInv'
<1> USE DEF CInv, OpenInputs
<1>1. GInv'
  BY BeginGate DEF Ordered, Opening
<1>2. ContractShape' /\ Ordered'
  BY DEF ContractShape, Phases, Ordered, Captured, Opening, Importing, Bound, BeforeLift, lvars
<1>3. gate'.at = "begin" /\ \A p \in Inputs : views'[p] = disk[p]
  BY DEF GInv, GateShape, ContractShape
<1>4. Held'
  BY <1>3 DEF Held, Renewed, Prepared, GInv, DiskShape, Inputs, Paths
<1>5. Released' /\ Observed'
  BY DEF Ordered, Released, Observed, Importing, Bound, Captured, Opening
<1> QED  BY <1>1, <1>2, <1>4, <1>5

(* The bundle command of its own.                                          *)
LEMMA BundleSteps == ASSUME CInv, BeginBundle \/ EndBundle PROVE CInv'
<1> USE DEF CInv
<1>1. CASE BeginBundle
  <2> USE <1>1 DEF BeginBundle
  <2>1. GInv'
    BY BeginGate
  <2>2. ContractShape' /\ Ordered' /\ Held' /\ Released' /\ Observed'
    BY DEF ContractShape, Ordered, Held, Released, Observed, Importing, Bound, Captured, Opening,
       BeforeLift
  <2> QED  BY <2>1, <2>2
<1>2. CASE EndBundle
  <2> USE <1>2 DEF EndBundle, OnlyContract
  <2>1. ContractShape' /\ Ordered' /\ Held' /\ Released' /\ Observed'
    BY DEF ContractShape, Phases, Ordered, Held, Released, Observed, Importing, Bound, Captured,
       Opening, BeforeLift
  <2> QED  BY <2>1, SameGate
<1> QED  BY <1>1, <1>2

(* The gate changes no held input, and fills the project from the files of *)
(* the moment.                                                             *)
LEMMA GateInputs ==
    ASSUME GInv, GateStep
    PROVE  /\ \A p \in Inputs : disk'[p] = disk[p]
           /\ Prepared' =>
                \/ Prepared /\ editor'.copy = editor.copy /\ editor'.by = editor.by
                \/ editor'.copy = disk["source"].bytes /\ editor'.by = disk["bridge"].bytes
<1> USE DEF GInv
<1>1. \A p \in Inputs : disk'[p] = disk[p]
  <2>1. \/ disk' = disk \/ (\E b : disk' = Written("internal", b)) \/ (\E b : disk' = Written("output", b))
        \/ disk' = [disk EXCEPT !["internal"] = Absent]
    BY DEF GateStep, GateBegin, GatePrepare, GateLaunch, GateRead, GateOpen, GatePublish,
       GateClose, GateCleanup,
           EditorImport, EditorBuild, EditorMeasure, EditorHash, EditorReport, EditorExit, EditorDies, Throws
  <2> QED  BY <2>1 DEF DiskShape, Written, Inputs, Paths
<1>2. ASSUME Prepared'
      PROVE  \/ Prepared /\ editor'.copy = editor.copy /\ editor'.by = editor.by
             \/ editor'.copy = disk["source"].bytes /\ editor'.by = disk["bridge"].bytes
  <2>1. CASE GatePrepare
    BY <1>2, <2>1 DEF GatePrepare, Prepared, GateShape, NoEditor
  <2>2. CASE GateBegin
    BY <1>2, <2>2 DEF GateBegin, Prepared, GateShape
  <2>3. CASE GateLaunch \/ GateRead \/ GateOpen \/ GatePublish \/ GateClose \/ GateCleanup
    <3>1. editor'.copy = editor.copy /\ editor'.by = editor.by
      BY <2>3 DEF GateLaunch, GateRead, GateOpen, GatePublish, GateClose, GateCleanup, EditorShape
    <3>2. Prepared
      BY <1>2, <2>3 DEF Prepared, GateLaunch, GateRead, GateOpen, GatePublish, GateClose,
         GateCleanup,
         GateEnds, GateShape
    <3> QED  BY <3>1, <3>2
  <2>4. CASE EditorImport \/ EditorBuild \/ EditorMeasure \/ EditorHash \/ EditorReport \/ EditorExit \/ EditorDies
    <3>1. editor'.copy = editor.copy /\ editor'.by = editor.by
      BY <2>4 DEF EditorImport, EditorBuild, EditorMeasure, EditorHash, EditorReport, EditorExit, EditorDies, Throws,
         EditorShape
    <3> QED  BY <1>2, <2>4, <3>1 DEF Prepared, EditorImport, EditorBuild, EditorMeasure, EditorHash, EditorReport,
       EditorExit, EditorDies
  <2> QED  BY <2>1, <2>2, <2>3, <2>4 DEF GateStep
<1> QED  BY <1>1, <1>2

(* Every step of the gate keeps its invariant.                             *)
LEMMA GateSteps == ASSUME GInv, GateStep PROVE GInv'
  BY LauncherEarly, LauncherLate, EditorKeeps DEF GateStep

(* The gate runs under the held inputs.                                    *)
LEMMA RunGateStep == ASSUME CInv, RunGate PROVE CInv'
<1> USE DEF CInv, RunGate
<1>1. GInv'
  BY GateSteps
<1>2. ContractShape' /\ Ordered' /\ Observed'
  BY DEF ContractShape, Ordered, Observed, Captured, Importing, Bound, Opening, BeforeLift, lvars
<1>3. Held'
  <2> SUFFICES ASSUME cpc = "import" PROVE (\A p \in Inputs : Renewed(p)') /\ (Prepared' => Copied')
    BY DEF Held, Importing
  <2>1. \A p \in Inputs : Renewed(p)'
    BY GateInputs DEF Held, Renewed, Importing
  <2>2. Prepared' => Copied'
    BY GateInputs DEF Held, Renewed, Copied, Importing, Inputs
  <2> QED  BY <2>1, <2>2
<1>4. Released'
  BY DEF Ordered, Released, Captured, Bound
<1> QED  BY <1>1, <1>2, <1>3, <1>4

(* Another program replaces a file: its stamp grows, so a view that still  *)
(* matches was never wrong.                                                *)
LEMMA EditFileStep == ASSUME CInv, EditFile PROVE CInv'
<1> USE DEF CInv, EditFile
<1> PICK p \in Paths : Edit(p)
  OBVIOUS
<1>1. PICK b \in {disk[p].bytes, Foreign} :
        /\ disk' = Written(p, b)
        /\ editor' = IF p = "internal" /\ editor.at \in Unread /\ b = Foreign
                     THEN [editor EXCEPT !.swapped = TRUE] ELSE editor
  BY DEF Edit, Unread
<1>8. /\ UNCHANGED <<policy, gate>> /\ EditorShape' /\ editor'.at = editor.at /\ editor'.copy = editor.copy
      /\ editor'.by = editor.by /\ editor'.diags = editor.diags /\ editor'.verdict = editor.verdict
      /\ editor'.sha = editor.sha /\ editor'.report = editor.report /\ editor'.exit = editor.exit
      /\ editor.swapped => editor'.swapped
  BY <1>1 DEF Edit, GInv, EditorShape
<1>9. editor.at \in Unread =>
        \/ editor'.swapped /\ disk'["internal"].bytes # <<>>
        \/ disk'["internal"].bytes = disk["internal"].bytes
  <2>1. Foreign # <<>>
    BY DEF Foreign
  <2>2. disk'["internal"].bytes = IF p = "internal" THEN b ELSE disk["internal"].bytes
    BY <1>1 DEF GInv, DiskShape, Written, Paths
  <2>3. CASE p = "internal" /\ b = Foreign
    <3> SUFFICES ASSUME editor.at \in Unread PROVE editor'.swapped
      BY <2>1, <2>2, <2>3
    <3>1. editor' = [editor EXCEPT !.swapped = TRUE]
      BY <1>1, <2>3
    <3> QED  BY <3>1 DEF GInv, EditorShape
  <2>4. CASE p # "internal" \/ b # Foreign
    BY <1>1, <2>2, <2>4
  <2> QED  BY <2>3, <2>4
<1>2. GInv'
  <2>1. GateShape' /\ DiskShape'
    BY <1>1, <1>8, WrittenShape DEF GInv, GateShape
  <2>4. /\ PolicyBreak(editor.diags)' <=> PolicyBreak(editor.diags)
        /\ \A x : Genuine(x) \/ editor'.swapped => (editor'.swapped \/ x = <<"bundle", editor'.copy>>)
    BY <1>8 DEF PolicyBreak, Genuine
  <2>5. Built => Built'
    BY <1>8, <2>4 DEF Built, Genuine
  <2>6. Genuine(editor.sha) => Genuine(editor.sha)'
    BY <1>8, <2>4 DEF Genuine
  <2>7. editor.at \in Unread =>
          /\ disk'["internal"].bytes # <<>> => Genuine(disk["internal"].bytes)'
          /\ editor.at = "hash" => disk'["internal"].bytes # <<>>
    BY <1>8, <1>9, <2>4 DEF GInv, EditorTrue, Genuine, Unread
  <2>2. EditorTrue'
    BY <1>8, <2>4, <2>5, <2>6, <2>7 DEF GInv, EditorTrue, Unread
  <2>3. GateTrue'
    BY <1>8 DEF GInv, GateTrue, Judged
  <2> QED  BY <1>8, <2>1, <2>2, <2>3 DEF GInv
<1>3. \A q \in Paths : disk'[q] = disk[q] \/ (disk'[q].stamp = disk[q].stamp + 1 /\ disk[q].stamp \in Nat)
  BY <1>1 DEF GInv, DiskShape, Written
<1>4. ContractShape' /\ Ordered' /\ Observed'
  BY <1>8 DEF ContractShape, Ordered, Observed, Captured, Importing, Bound, Opening, BeforeLift,
     lvars
<1>5. cpc \in Importing => \A q \in Inputs : Renewed(q)'
  BY <1>3 DEF Held, Renewed, Inputs, Paths
<1>6. cpc \in Importing /\ Copied => Copied'
  <2> SUFFICES ASSUME cpc \in Importing, Copied, NEW q \in Inputs, disk'[q].stamp = views[q].stamp
               PROVE  disk'[q] = disk[q]
    BY <1>8 DEF Copied, Inputs
  <2> QED  BY <1>3 DEF Held, Renewed, Inputs, Paths
<1>7. Held' /\ Released'
  BY <1>5, <1>6, <1>8 DEF Held, Released, Prepared, Found, Genuine, Captured, Bound, Importing, lvars
<1> QED  BY <1>2, <1>4, <1>7

(* The bundle that is catalogued has the reported digest.                  *)
LEMMA CatalogStep == ASSUME CInv, CatalogBundle PROVE CInv'
<1> USE DEF CInv, CatalogBundle, OnlyContract
<1>1. ContractShape'
  BY DEF ContractShape, Phases, Importing
<1>2. /\ contract'.status = contract.status /\ contract'.native = contract.native
      /\ contract'.candidate # Absent =>
           /\ gate.status = "passed" /\ editor.diags = "none" /\ contract'.candidate.bytes = gate.sha
  BY DEF ContractShape
<1>3. Ordered' /\ Observed'
  BY <1>2 DEF Ordered, Observed, Captured, Importing, Bound, Opening, BeforeLift, lvars
<1>4. Held'
  BY DEF Held, Renewed, Prepared, Copied, Importing
<1>5. contract'.candidate # Absent => Found' /\ Copied'
  BY <1>2 DEF Found, Genuine, Copied, Held, Importing, Prepared, GInv, GateTrue, EditorTrue, Judged, Built
<1>6. Released'
  BY <1>2, <1>5 DEF Released, Ordered, Captured, Bound
<1> QED  BY <1>1, <1>3, <1>4, <1>6, SameGate

(* The inputs are released: nothing they stand for has changed since.      *)
LEMMA CloseInputsStep == ASSUME CInv, CloseInputs PROVE CInv'
<1> USE DEF CInv
<1>1. CASE Stop("import unavailable") /\ UNCHANGED <<disk, policy, gate, editor, views>>
  BY <1>1, Stopping
<1>2. CASE /\ contract' = [contract EXCEPT !.imported = views["source"].bytes]
           /\ cpc = "inputs close" /\ cpc' \in {"native", "bind"} /\ contract.candidate # Absent /\ InputsHeld
           /\ UNCHANGED views /\ OnlyContract
  <2> USE <1>2 DEF OnlyContract
  <2>1. ContractShape'
    BY DEF ContractShape, Phases, Bound
  <2>2. /\ contract'.status = contract.status /\ contract'.native = contract.native
        /\ contract'.candidate = contract.candidate /\ contract'.imported = views["source"].bytes
        /\ contract'.player = contract.player
    BY DEF ContractShape
  <2>3. Ordered' /\ Held' /\ Observed'
    BY <2>2 DEF Ordered, Observed, Held, Captured, Importing, Bound, Opening, BeforeLift, lvars
  <2>4. editor.copy = views["source"].bytes /\ editor.by = views["bridge"].bytes
    BY DEF InputsHeld, Inputs, Unchanged, Released, Copied
  <2>5. Released'
    BY <2>2, <2>4 DEF Released, Found, Genuine, Ordered, Captured, Bound
  <2> QED  BY <2>1, <2>3, <2>5, SameGate
<1> QED  BY <1>1, <1>2 DEF CloseInputs, OnlyContract

(* The native retrieval.                                                   *)
LEMMA NativeSteps == ASSUME CInv, OpenNative \/ RunNative \/ CloseNative PROVE CInv'
<1> USE DEF CInv
<1>1. /\ UNCHANGED <<lvars, disk, policy, gate, editor>> /\ cpc \in {"native", "native run", "native close"}
      /\ cpc' \in {"native run", "native close", "bind"}
      /\ cpc' = "native run" => cpc = "native"
      /\ cpc = "native" => contract' = contract
  BY DEF OpenNative, RunNative, CloseNative, OnlyContract
<1>2. \E n \in {contract.native, <<>>, <<Target, contract.candidate, contract.player>>} :
         contract' = [contract EXCEPT !.native = n]
  <2>1. contract = [contract EXCEPT !.native = contract.native]
    BY DEF ContractShape
  <2> QED  BY <2>1 DEF OpenNative, RunNative, CloseNative
<1>3. ContractShape'
  BY <1>1, <1>2 DEF ContractShape, Phases, Bound, OpenNative, RunNative, CloseNative
<1>4. /\ contract'.status = contract.status /\ contract'.candidate = contract.candidate
      /\ contract'.player = contract.player /\ contract'.imported = contract.imported
      /\ contract'.native \in {contract.native, <<>>, <<Target, contract.candidate, contract.player>>}
  BY <1>2 DEF ContractShape
<1>5. views'["bridge"] = views["bridge"]
  BY DEF OpenNative, RunNative, CloseNative, ContractShape, Inputs
<1>6. Ordered' /\ Held' /\ Observed'
  BY <1>1, <1>4 DEF Ordered, Observed, Held, Captured, Importing, Bound, Opening, BeforeLift, lvars
<1>7. Released'
  BY <1>1, <1>4, <1>5 DEF Released, Found, Genuine, Ordered, Captured, Bound
<1> QED  BY <1>1, <1>3, <1>6, <1>7, SameGate

(* The subject is bound to the one accepted source.                        *)
LEMMA BindStep == ASSUME CInv, Bind PROVE CInv'
<1> USE DEF CInv
<1>1. CASE Stop("subject unavailable") /\ UNCHANGED <<disk, policy, gate, editor, views>>
  BY <1>1, Stopping
<1>2. CASE /\ \E subject : contract' = [contract EXCEPT !.subject = subject]
           /\ cpc = "bind" /\ cpc' = "evidence" /\ SameSource /\ UNCHANGED views /\ OnlyContract
  <2> USE <1>2 DEF OnlyContract
  <2>1. ContractShape'
    BY DEF ContractShape, Phases, Bound
  <2>2. /\ contract'.status = contract.status /\ contract'.native = contract.native
        /\ contract'.candidate = contract.candidate /\ contract'.imported = contract.imported
        /\ contract'.player = contract.player
    BY DEF ContractShape
  <2>3. Ordered' /\ Held' /\ Observed'
    BY <2>2 DEF Ordered, Observed, Held, Captured, Importing, Bound, Opening, BeforeLift, lvars
  <2>4. Released'
    BY <2>2 DEF Released, Found, Genuine, Ordered, Captured, Bound, SameSource, lvars
  <2> QED  BY <2>1, <2>3, <2>4, SameGate
<1> QED  BY <1>1, <1>2 DEF Bind, OnlyContract

(* One more plane of evidence.                                             *)
LEMMA CollectStep == ASSUME CInv, Collect PROVE CInv'
<1> USE DEF CInv
<1>1. CASE Stop("evidence unavailable") /\ UNCHANGED <<disk, policy, gate, editor, views>>
  BY <1>1, Stopping
<1>2. CASE /\ \E plane, e : contract' = [contract EXCEPT !.planes[plane] = e]
           /\ cpc = "evidence" /\ cpc' = cpc /\ UNCHANGED views /\ OnlyContract
  <2> USE <1>2 DEF OnlyContract
  <2>1. ContractShape'
    BY DEF ContractShape
  <2>2. /\ contract'.status = contract.status /\ contract'.native = contract.native
        /\ contract'.candidate = contract.candidate /\ contract'.imported = contract.imported
        /\ contract'.player = contract.player
    BY DEF ContractShape
  <2>3. Ordered' /\ Held' /\ Observed'
    BY <2>2 DEF Ordered, Observed, Held, Captured, Importing, Bound, Opening, BeforeLift, lvars
  <2>4. Released'
    BY <2>2 DEF Released, Found, Genuine, Ordered, Captured, Bound, lvars
  <2> QED  BY <2>1, <2>3, <2>4, SameGate
<1> QED  BY <1>1, <1>2 DEF Collect, OnlyContract

(* The certificate takes evidence of the one subject only.                 *)
LEMMA CertifyStep == ASSUME CInv, Certify PROVE CInv'
<1> USE DEF CInv
<1>1. CASE Stop("evidence unavailable") /\ UNCHANGED <<disk, policy, gate, editor, views>>
  BY <1>1, Stopping
<1>2. CASE /\ \E cert : contract' = [contract EXCEPT !.status = "captured", !.cert = cert]
           /\ Addable(contract.subject, contract.planes)
           /\ cpc = "evidence" /\ cpc' = "done" /\ UNCHANGED views /\ OnlyContract
  <2> USE <1>2 DEF OnlyContract
  <2>1. ContractShape'
    BY DEF ContractShape, Phases
  <2>2. /\ contract'.status = "captured" /\ contract'.native = contract.native
        /\ contract'.candidate = contract.candidate /\ contract'.imported = contract.imported
        /\ contract'.player = contract.player /\ contract'.planes = contract.planes
        /\ contract'.subject = contract.subject
    BY DEF ContractShape
  <2>3. \A p \in LogicalPlanes : contract.planes[p].subject = contract.subject
    BY DEF Addable, ContractShape
  <2>4. Ordered' /\ Held' /\ Observed'
    BY <2>2, <2>3 DEF Ordered, Observed, Held, Captured, Importing, Bound, Opening, BeforeLift,
       lvars
  <2>5. Released'
    BY <2>2 DEF Released, Found, Genuine, Ordered, Captured, Bound, lvars
  <2> QED  BY <2>1, <2>4, <2>5, SameGate
<1> QED  BY <1>1, <1>2 DEF Certify, OnlyContract

(* Nothing happens.                                                        *)
LEMMA StutterStep == ASSUME CInv, UNCHANGED vars PROVE CInv'
<1> USE DEF CInv, vars, gvars, lvars
<1>1. ContractShape' /\ Ordered' /\ Observed'
  BY DEF ContractShape, Ordered, Observed, Captured
<1>2. Held'
  BY DEF Held, Renewed, Prepared, Copied
<1>3. Released'
  BY DEF Released, Found, Genuine, Copied, Captured
<1> QED  BY <1>1, <1>2, <1>3, SameGate

(* The invariant holds before the capture, and before a bundle command.    *)
LEMMA InitCInv == ASSUME Init PROVE CInv
<1>1. GInv
  <2>1. CASE GateInit(Absent)
    BY <2>1, GateStart DEF Absent
  <2>2. CASE GateInit([bytes |-> <<"source">>, stamp |-> 1])
    BY <2>2, GateStart
  <2> QED  BY <2>1, <2>2 DEF Init
<1>2. ContractShape
  BY DEF Init, ContractShape, NewContract, NoViews, Phases, Opening
<1>3. contract.status = "running" /\ contract.native = <<>> /\ cpc \in {"player", "bundle"} /\ gate.at = "idle"
  BY DEF Init, GateInit, NewGate, NewContract
<1>4. Ordered /\ Held /\ Released /\ Observed
  BY <1>3 DEF Ordered, Held, Released, Observed, Captured, Importing, Bound, Opening, BeforeLift
<1> QED  BY <1>1, <1>2, <1>4 DEF CInv

(* Every step preserves the invariant.                                     *)
LEMMA NextCInv == ASSUME CInv, [Next]_vars PROVE CInv'
  BY LiftSteps, PlayerSteps, PublishStep, OpenInputsStep, BundleSteps, RunGateStep, CatalogStep,
     CloseInputsStep,
     NativeSteps, BindStep, CollectStep, CertifyStep, EditFileStep, StutterStep DEF Next, Done

(* The invariant holds throughout.                                         *)
LEMMA CaptureInvariant == Spec => []CInv
<1>1. Init => CInv
  BY InitCInv
<1>2. CInv /\ [Next]_vars => CInv'
  BY NextCInv
<1> QED  BY <1>1, <1>2, PTL DEF Spec

(* Whatever is replaced and whenever the Editor dies,                      *)
(* unity_shader_bundle_gate_run reports success only for the bundle the    *)
(* Editor hashed, ending on its own with code 0 and within the warning     *)
(* policy; and that is the bundle it built from the candidate unless       *)
(* another program replaced it between the build and its digest.           *)
THEOREM PassedBundleIsBuilt == Spec => []PassedIsBuilt
<1>1. CInv => PassedIsBuilt
  BY DEF CInv, GInv, GateTrue, EditorTrue, Judged, Built, Genuine, PassedIsBuilt
<1> QED  BY <1>1, CaptureInvariant, PTL

(* Whatever other programs replace between the steps, a captured contract  *)
(* (unity_shader_contract_capture) is about the bundle the Editor hashed   *)
(* in a project of exactly the accepted source with the bridge that was    *)
(* held, and every plane and the native observation are of that one        *)
(* subject.  The bundle is the one built from that source unless another   *)
(* program replaced it between the build and its digest.                   *)
THEOREM CapturedContractIsOneSubject == Spec => []CapturedIsOneSubject
<1>1. CInv => CapturedIsOneSubject
  BY DEF CInv, Released, Found, Genuine, Observed, Captured, CapturedIsOneSubject
<1> QED  BY <1>1, CaptureInvariant, PTL

-----------------------------------------------------------------------------
(* What the compiler can say of a row.                                     *)
CompileAnswers == {"unavailable", "anonymous", "rejected", "equal", "informed", "diagnostic", "unreflected",
                   "mismatch", "invalid"}
(* A matched row leaves at most one kind of mark.                          *)
Marked ==
    /\ \A a \in Artifacts : art[a].marks \subseteq {"informed"}
    /\ lpc.step = "compiled" => lpc.answer \in CompileAnswers

(* An attempt that is closed keeps its marks.                              *)
LEMMA MarkedClose ==
    ASSUME IInv, Marked, NEW s, NEW found \in Records, found.marks \subseteq {"informed"}, Close(s, found)
    PROVE  Marked'
<1>1. \A b \in Artifacts : art'[b].marks \subseteq {"informed"}
  <2> SUFFICES ASSUME NEW b \in Artifacts PROVE art'[b].marks \subseteq {"informed"}
    OBVIOUS
  <2>1. art[b] \in Records /\ art[b].marks \subseteq {"informed"}
    BY DEF IInv, Typed, Marked
  <2>2. art'[b] = IF b = lpc.a THEN [found EXCEPT !.status = s]
                  ELSE IF b = "candidate" /\ lpc.a = "baseline" /\ MaxCandidates = 0
                  THEN [art[b] EXCEPT !.status = "budget exhausted"] ELSE art[b]
    BY DEF Close
  <2> QED  BY <2>1, <2>2 DEF Records
<1>2. lpc'.step # "compiled"
  BY DEF Close, Idle, At
<1> QED  BY <1>1, <1>2 DEF Marked

(* A failed attempt keeps none.                                            *)
LEMMA MarkedEnd == ASSUME IInv, Marked, NEW s, End(s) PROVE Marked'
<1>1. NewArtifact.marks = {}
  BY DEF NewArtifact
<1> QED  BY <1>1, NewIsFresh, MarkedClose DEF End

(* The steps of the lift.                                                  *)
LEMMA MarkedLift == ASSUME IInv, Marked, LiftStep \/ Revise \/ Interrupt PROVE Marked'
<1> USE DEF IInv
<1>0. CASE \E s : End(s)
  BY <1>0, MarkedEnd
<1>1. CASE Pin
  <2>1. lpc'.step # "compiled"
    BY <1>1 DEF Pin, At, Idle
  <2>2. \A a \in Artifacts : art'[a].marks = art[a].marks
    BY <1>1 DEF Pin, Typed, Records
  <2> QED  BY <2>1, <2>2 DEF Marked
<1>2. CASE Emit
  BY <1>0, <1>2 DEF Emit, Halt, Refuse, Typed, Places, Marked
<1>3. CASE Preprocessed
  BY <1>3 DEF Preprocessed, Typed, Places, Marked
<1>4. CASE JudgePreprocess
  <2> DEFINE controls == IF lpc.answer = "other controls" THEN 0 ELSE lpc.under
             here == [art[lpc.a] EXCEPT !.controls = controls, !.under = @ \cup {lpc.under}]
  <2>1. CASE art' = [art EXCEPT ![lpc.a] = here] /\ lpc' = At("pass", lpc.a, 1, 0)
    <3> HIDE DEF controls
    <3>1. \A a \in Artifacts : art'[a].marks = art[a].marks
      BY <2>1 DEF Typed, Records
    <3> QED  BY <2>1, <3>1 DEF Marked, At
  <2>2. CASE \E s : Refuse(s)
    BY <1>0, <2>2 DEF Refuse
  <2>3. CASE Halt
    BY <1>0, <2>3 DEF Halt
  <2> QED  BY <1>4, <2>1, <2>2, <2>3 DEF JudgePreprocess
<1>5. CASE BeginPass
  <2>1. CASE lpc' = At("compile", lpc.a, lpc.p, 1) /\ UNCHANGED <<ctl, compiles, art, accepted>>
    BY <2>1 DEF Marked, At
  <2> QED  BY <1>0, <1>5, <2>1 DEF BeginPass, Halt, Refuse
<1>6. CASE SendCompile
  BY <1>0, <1>6 DEF SendCompile, Halt, Refuse, Typed, Places, Marked
<1>7. CASE Compiled
  BY <1>7 DEF Compiled, Typed, Places, Marked, CompileAnswers
<1>8. CASE JudgeInspection
  <2>1. CASE \E u : art' = [art EXCEPT ![lpc.a].under = u]
                    /\ lpc' = [lpc EXCEPT !.step = "compile", !.answer = None]
    BY <2>1 DEF Typed, Records, Places, Marked
  <2> QED  BY <1>0, <1>8, <2>1 DEF JudgeInspection, Halt
<1>9. CASE JudgeCompile
  <2> DEFINE here == [art[lpc.a] EXCEPT !.proved = @ \cup {<<lpc.p, lpc.r>>}, !.under = @ \cup {lpc.under},
                                        !.marks = @ \cup ({lpc.answer} \ {"equal"})]
  <2>1. CASE Proceed /\ lpc.answer # "anonymous" /\ DomainStatus(lpc.answer) = "verified"
    <3>1. lpc.a \in Artifacts /\ art[lpc.a] \in Records /\ <<lpc.p, lpc.r>> \in Domain
          /\ lpc.under \in Nat /\ lpc.answer \in Answers
      BY <1>9, DomainRows DEF JudgeCompile, Typed, Settled, Attempt, Trying, RowSteps, Places
    <3>2. lpc.answer \in {"equal", "informed"}
      BY <1>9, <2>1 DEF JudgeCompile, Marked, CompileAnswers, DomainStatus
    <3>3. here \in Records /\ here.marks = art[lpc.a].marks \cup ({lpc.answer} \ {"equal"})
      BY <3>1 DEF Records
    <3>4. here.marks \subseteq {"informed"}
      BY <3>1, <3>2, <3>3 DEF Marked
    <3>5. CASE Close("verified", here)
      BY <3>3, <3>4, <3>5, MarkedClose
    <3>6. CASE art' = [art EXCEPT ![lpc.a] = here] /\ lpc' = AfterRow(lpc.p, lpc.r)
      BY <3>1, <3>4, <3>6 DEF Typed, Marked, AfterRow, At, Idle
    <3> QED  BY <1>0, <1>9, <2>1, <3>5, <3>6 DEF JudgeCompile, Halt
  <2> QED  BY <1>0, <1>9, <2>1 DEF JudgeCompile, Halt, Refuse
<1>10. CASE Revise \/ Interrupt
  BY <1>10 DEF Revise, Interrupt, Marked
<1> QED
  BY <1>1, <1>2, <1>3, <1>4, <1>5, <1>6, <1>7, <1>8, <1>9, <1>10 DEF LiftStep

(* Every step keeps the marks.                                             *)
LEMMA MarkedNext == ASSUME IInv, Marked, [Next]_vars PROVE Marked'
<1>1. CASE RunLift
  BY <1>1, MarkedLift DEF RunLift
<1>2. CASE BeginLift
  BY <1>2 DEF BeginLift, Marked, Idle, At
<1>3. CASE EndLift
  BY <1>3 DEF EndLift, Marked, Idle, At, NewArtifact
<1>4. CASE UNCHANGED <<art, lpc>>
  BY <1>4 DEF Marked
<1> QED
  BY <1>1, <1>2, <1>3, <1>4, OtherSteps DEF Next, Aside, lvars, vars

-----------------------------------------------------------------------------
(* The domain is finite: finitely many passes of finitely many rows.       *)
LEMMA DomainFinite == Cardinality(Domain) \in Nat
<1> DEFINE Rowset == {{p} \X (1..Rows[p]) : p \in DOMAIN Rows}
           f == [p \in DOMAIN Rows |-> {p} \X (1..Rows[p])]
<1>1. IsFiniteSet(DOMAIN Rows)
  BY PassNumbers, FS_Interval
<1>2. f \in Surjection(DOMAIN Rows, Rowset)
  BY DEF Surjection
<1>3. IsFiniteSet(Rowset)
  BY <1>1, <1>2, FS_Surjection
<1>4. \A T \in Rowset : IsFiniteSet(T)
  <2> SUFFICES ASSUME NEW p \in DOMAIN Rows PROVE IsFiniteSet({p} \X (1..Rows[p]))
    OBVIOUS
  <2>0. Rows[p] \in Int /\ 1 \in Int
    BY PassNumbers
  <2>1. IsFiniteSet(1..Rows[p]) /\ IsFiniteSet({p})
    BY <2>0, FS_Interval, FS_Singleton
  <2> QED  BY <2>1, FS_Product
<1>5. IsFiniteSet(UNION Rowset)
  BY <1>3, <1>4, FS_UNION
<1> QED  BY <1>5, FS_CardinalityType DEF Domain

(* whole_shader_evidence_create_comparison passes only when every item     *)
(* matches, since it counts them.                                          *)
LEMMA ComparisonPasses ==
    ASSUME NEW plane, NEW subject, NEW items, NEW n \in Nat, DOMAIN items = 1..n, Len(items) = n,
           Comparison(plane, subject, items).status = "pass"
    PROVE  \A i \in 1..n : items[i].expected = items[i].observed
<1> DEFINE same == {i \in DOMAIN items : items[i].expected = items[i].observed}
<1>1. Cardinality(same) = n
  BY DEF Comparison
<1>2. IsFiniteSet(1..n) /\ Cardinality(1..n) = n
  BY FS_Interval
<1>3. same \in SUBSET (1..n)
  OBVIOUS
<1>4. same = 1..n
  BY <1>1, <1>2, <1>3, FS_Subset
<1> QED  BY <1>4

-----------------------------------------------------------------------------
Passed(p) == contract.planes[p].status = "pass"

(* What the planes that passed say of the rebuilt shader.                  *)
Evidenced ==
    /\ quirk \in Quirks \cup {"none"}
    /\ \A p \in LogicalPlanes : Passed(p) => cpc \in {"evidence", "done"}
    /\ Passed("diagnostics") => "informed" \notin art[accepted].marks
    /\ Passed("reflection") => quirk \notin {"bindings", "no bindings"}
    /\ Passed("reextraction") => ~Differs("payload") /\ quirk \notin {"no authority", "invalid"}
    /\ Passed("structural") => ~Differs("schema") /\ quirk # "no structure"
    /\ Passed("dependency closure") => quirk # "open dependencies"
    /\ Passed("runtime selection") => contract.native # <<>>
    /\ contract.cert.logical => Captured /\ \A p \in LogicalPlanes : Passed(p)

(* Evidence that passed has an item, and every item matches.               *)
LEMMA ItemsMatch ==
    ASSUME NEW plane, NEW items, NEW n \in Nat, DOMAIN items = 1..n, Len(items) = n, Comparable(items),
           Comparison(plane, contract.subject, items).status = "pass"
    PROVE  n # 0 /\ \A i \in 1..n : items[i].expected = items[i].observed
<1>1. n # 0
  <2> SUFFICES ASSUME n = 0 PROVE items = <<>>
    BY DEF Comparable
  <2> QED  OBVIOUS
<1> QED  BY <1>1, ComparisonPasses

(* A diagnostics plane that passed has no informed row, and a reflection   *)
(* plane no other bindings.                                                *)
LEMMA RowsPass ==
    ASSUME NEW plane \in {"diagnostics", "reflection"}, art[accepted].proved = Domain, Comparable(ItemsOf(plane)),
           Comparison(plane, contract.subject, ItemsOf(plane)).status = "pass"
    PROVE  /\ plane = "diagnostics" => "informed" \notin art[accepted].marks
           /\ plane = "reflection" => quirk # "bindings"
<1> DEFINE n == Cardinality(Domain)
           items == RowItems(plane)
           differs == \/ plane = "diagnostics" /\ "informed" \in art[accepted].marks
                      \/ plane = "reflection" /\ Differs("bindings")
<1>1. items = ItemsOf(plane)
  BY DEF ItemsOf, CompilePlanes
<1>2. n \in Nat /\ DOMAIN items = 1..n /\ Len(items) = n
  BY DomainFinite DEF RowItems
<1>3. n # 0 /\ \A i \in 1..n : items[i].expected = items[i].observed
  BY <1>1, <1>2, ItemsMatch
<1>4. \A i \in 1..n : items[i].expected = "clean" /\ items[i].observed = IF differs THEN "another" ELSE "clean"
  BY <1>2 DEF RowItems, Item
<1>5. ~differs
  <2> HIDE DEF differs, items, n
  <2> QED  BY <1>2, <1>3, <1>4
<1> QED  BY <1>5 DEF Differs

(* The evidence of a plane with two items.                                 *)
LEMMA TwoItems ==
    ASSUME NEW plane, NEW a, NEW b, Comparable(<<a, b>>), Comparison(plane, contract.subject, <<a, b>>).status = "pass"
    PROVE  a.expected = a.observed
<1> DEFINE items == <<a, b>>
<1>1. DOMAIN items = 1..2 /\ Len(items) = 2
  OBVIOUS
<1>2. 2 \in Nat /\ Comparable(items) /\ Comparison(plane, contract.subject, items).status = "pass"
  OBVIOUS
<1>3. items[1] = a
  OBVIOUS
<1> HIDE DEF items
<1>4. \A i \in 1..2 : items[i].expected = items[i].observed
  BY <1>1, <1>2, ItemsMatch
<1> QED  BY <1>3, <1>4

(* The evidence of a plane with three.                                     *)
LEMMA ThreeItems ==
    ASSUME NEW plane, NEW a, NEW b, NEW c, Comparable(<<a, b, c>>),
           Comparison(plane, contract.subject, <<a, b, c>>).status = "pass"
    PROVE  b.expected = b.observed
<1> DEFINE items == <<a, b, c>>
<1>1. DOMAIN items = 1..3 /\ Len(items) = 3
  OBVIOUS
<1>2. 3 \in Nat /\ Comparable(items) /\ Comparison(plane, contract.subject, items).status = "pass"
  OBVIOUS
<1>3. items[2] = b
  OBVIOUS
<1> HIDE DEF items
<1>4. \A i \in 1..3 : items[i].expected = items[i].observed
  BY <1>1, <1>2, ItemsMatch
<1> QED  BY <1>3, <1>4

(* The planes that compare the objects.                                    *)
LEMMA ObjectsPass ==
    ASSUME NEW plane \in {"reextraction", "structural", "dependency closure", "runtime selection"},
           Comparable(ItemsOf(plane)), Comparison(plane, contract.subject, ItemsOf(plane)).status = "pass"
    PROVE  /\ plane = "reextraction" => ~Differs("payload") /\ quirk # "no authority"
           /\ plane = "structural" => ~Differs("schema") /\ quirk # "no structure"
           /\ plane = "dependency closure" => quirk # "open dependencies"
           /\ plane = "runtime selection" => contract.native # <<>>
<1>0. ItemsOf(plane) # <<>>
  BY DEF Comparable
<1>1. CASE plane = "reextraction"
  <2> DEFINE a == Compared("payload", "payload")
             b == Compared("schema", "schema")
  <2>1. quirk # "no authority" /\ ItemsOf(plane) = <<a, b>>
    BY <1>0, <1>1 DEF ItemsOf, ReextractionItems, CompilePlanes
  <2> HIDE DEF a, b
  <2>2. a.expected = a.observed
    BY <2>1, TwoItems
  <2> QED  BY <1>1, <2>1, <2>2 DEF a, Compared, Item
<1>2. CASE plane = "structural"
  <2> DEFINE a == Compared("parsed form", "form")
             b == Compared("schema", "schema")
             c == Compared("emitted", "form")
  <2>1. quirk # "no structure" /\ ItemsOf(plane) = <<a, b, c>>
    BY <1>0, <1>2 DEF ItemsOf, StructuralItems, CompilePlanes
  <2> HIDE DEF a, b, c
  <2>2. b.expected = b.observed
    BY <2>1, ThreeItems
  <2> QED  BY <1>2, <2>1, <2>2 DEF b, Compared, Item
<1>3. CASE plane \in {"dependency closure", "runtime selection"}
  BY <1>0, <1>3 DEF ItemsOf, DependencyItems, SelectionItems, CompilePlanes
<1> QED  BY <1>1, <1>2, <1>3

(* A plane is collected.                                                   *)
LEMMA EvidencedCollect == ASSUME IInv, CInv, Evidenced, Collect PROVE Evidenced'
<1> DEFINE plane == Order[NextPlane]
           items == ItemsOf(plane)
           e == IF items = <<>> THEN Unavailable(plane, contract.subject, 4)
                ELSE Comparison(plane, contract.subject, items)
<1>0. UNCHANGED <<art, accepted, quirk>> /\ ~Captured /\ ~contract.cert.logical /\ cpc = "evidence"
  BY DEF Collect, OnlyContract, lvars, CInv, Ordered, Captured, Evidenced
<1>1. CASE Stop("evidence unavailable")
  <2>1. /\ contract'.planes = contract.planes /\ contract'.native = contract.native
        /\ contract'.cert = contract.cert /\ cpc' = "done"
    BY <1>1 DEF CInv, ContractShape, Stop
  <2> QED  BY <1>0, <2>1 DEF Evidenced, Passed, Differs
<1>2. CASE /\ contract' = [contract EXCEPT !.planes[plane] = e] /\ UNCHANGED cpc
           /\ (items = <<>> \/ Comparable(items)) /\ ~Refused(plane)
  <2> HIDE DEF plane
  <2>1. /\ contract'.native = contract.native /\ contract'.cert = contract.cert
        /\ \A p \in LogicalPlanes : contract'.planes[p] = IF p = plane THEN e ELSE contract.planes[p]
    BY <1>2 DEF CInv, ContractShape
  <2>2. e.status = "pass" => Comparable(items) /\ Comparison(plane, contract.subject, items).status = "pass"
    BY <1>2 DEF Unavailable
  <2>3. art[accepted].proved = Domain
    BY <1>0 DEF IInv, AcceptedUnderPin, CInv, Ordered, Bound, BeforeLift
  <2>4. /\ plane = "diagnostics" /\ e.status = "pass" => "informed" \notin art[accepted].marks
        /\ plane = "reflection" /\ e.status = "pass" => quirk # "bindings"
    <3>1. ASSUME plane \in {"diagnostics", "reflection"}, e.status = "pass"
          PROVE  /\ plane = "diagnostics" => "informed" \notin art[accepted].marks
                 /\ plane = "reflection" => quirk # "bindings"
      BY <2>2, <2>3, <3>1, RowsPass
    <3> HIDE DEF e
    <3> QED  BY <3>1
  <2>7. /\ plane = "reflection" => quirk # "no bindings"
        /\ plane = "reextraction" => quirk # "invalid"
    BY <1>2 DEF Refused
  <2>5. /\ plane = "reextraction" /\ e.status = "pass" => ~Differs("payload") /\ quirk # "no authority"
        /\ plane = "structural" /\ e.status = "pass" => ~Differs("schema") /\ quirk # "no structure"
        /\ plane = "dependency closure" /\ e.status = "pass" => quirk # "open dependencies"
        /\ plane = "runtime selection" /\ e.status = "pass" => contract.native # <<>>
    <3>1. ASSUME plane \in {"reextraction", "structural", "dependency closure", "runtime selection"},
                 e.status = "pass"
          PROVE  /\ plane = "reextraction" => ~Differs("payload") /\ quirk # "no authority"
                 /\ plane = "structural" => ~Differs("schema") /\ quirk # "no structure"
                 /\ plane = "dependency closure" => quirk # "open dependencies"
                 /\ plane = "runtime selection" => contract.native # <<>>
      BY <2>2, <3>1, ObjectsPass
    <3> HIDE DEF e
    <3> QED  BY <3>1
  <2> HIDE DEF e
  <2>6. \A p \in LogicalPlanes : Passed(p)' => Passed(p) \/ (p = plane /\ e.status = "pass")
    BY <2>1 DEF Passed
  <2> QED  BY <1>0, <1>2, <2>1, <2>4, <2>5, <2>6, <2>7 DEF Evidenced, Passed, Differs, LogicalPlanes,
     CompilePlanes
<1> QED  BY <1>1, <1>2 DEF Collect

(* The certificate is evaluated.                                           *)
LEMMA EvidencedCertify == ASSUME CInv, Evidenced, Certify PROVE Evidenced'
<1>0. UNCHANGED <<art, accepted, quirk>> /\ ~Captured /\ ~contract.cert.logical /\ cpc = "evidence" /\ cpc' = "done"
  BY DEF Certify, OnlyContract, lvars, CInv, Ordered, Captured, Evidenced, Stop
<1>1. CASE Stop("evidence unavailable")
  <2>1. /\ contract'.planes = contract.planes /\ contract'.native = contract.native
        /\ contract'.cert = contract.cert
    BY <1>1 DEF CInv, ContractShape, Stop
  <2> QED  BY <1>0, <2>1 DEF Evidenced, Passed, Differs
<1> DEFINE cert == Evaluate(contract.subject, contract.native # <<>> /\ quirk # "open dependencies", contract.planes)
<1>2. CASE contract' = [contract EXCEPT !.status = "captured", !.cert = cert]
  <2>1. cert.logical => \A p \in LogicalPlanes : Passed(p)
    BY DEF Evaluate, AllPassed, Passed
  <2> HIDE DEF cert
  <2>2. /\ contract'.planes = contract.planes /\ contract'.native = contract.native
        /\ contract'.cert = cert /\ Captured'
    BY <1>2 DEF CInv, ContractShape, Captured
  <2> QED  BY <1>0, <2>1, <2>2 DEF Evidenced, Passed, Differs
<1> QED  BY <1>1, <1>2 DEF Certify

(* No other step changes a plane or what it was compared with.             *)
LEMMA EvidencedOther ==
    ASSUME CInv, Evidenced, [Next]_vars, ~Collect, ~Certify PROVE Evidenced'
<1>0. ASSUME cpc = "evidence" PROVE UNCHANGED <<art, accepted, quirk, contract, cpc>>
  BY <1>0 DEF Next, OpenPlayer, ClosePlayer, BeginLift, RunLift, EndLift, PublishSource,
     OpenInputs, BeginBundle,
     EndBundle, RunGate, CatalogBundle, CloseInputs, OpenNative, RunNative, CloseNative, Bind,
     EditFile, Done, lvars, vars
<1>1. ASSUME cpc = "done" PROVE UNCHANGED <<art, accepted, quirk, contract, cpc>>
  BY <1>1 DEF Next, OpenPlayer, ClosePlayer, BeginLift, RunLift, EndLift, PublishSource,
     OpenInputs, BeginBundle,
     EndBundle, RunGate, CatalogBundle, CloseInputs, OpenNative, RunNative, CloseNative, Bind,
     EditFile, Done, lvars, vars
<1>2. CASE cpc \in {"evidence", "done"}
  BY <1>0, <1>1, <1>2 DEF Evidenced, Passed, Differs, Captured
<1>3. CASE cpc \notin {"evidence", "done"}
  <2>1. \A p \in LogicalPlanes : ~Passed(p)
    BY <1>3 DEF Evidenced
  <2>2. ~contract.cert.logical
    BY <1>3 DEF Evidenced, CInv, Ordered
  <2>3. contract'.planes = contract.planes /\ contract'.cert = contract.cert
    BY <1>3 DEF CInv, ContractShape, Next, OpenPlayer, ClosePlayer, BeginLift, RunLift, EndLift,
       PublishSource,
       OpenInputs, BeginBundle, EndBundle, RunGate, CatalogBundle, CloseInputs, OpenNative,
       RunNative, CloseNative,
       Bind, EditFile, Done, vars, Stop
  <2>4. quirk' \in Quirks \cup {"none"}
    BY <1>3 DEF Evidenced, Next, OpenPlayer, ClosePlayer, BeginLift, RunLift, EndLift,
       PublishSource,
       OpenInputs, BeginBundle, EndBundle, RunGate, CatalogBundle, CloseInputs, OpenNative,
       RunNative, CloseNative,
       Bind, EditFile, Done, vars
  <2>5. \A p \in LogicalPlanes : ~Passed(p)'
    BY <2>1, <2>3 DEF Passed
  <2> QED  BY <2>2, <2>3, <2>4, <2>5 DEF Evidenced, LogicalPlanes, CompilePlanes
<1> QED  BY <1>2, <1>3

(* whole_shader_certificate_evaluate certifies logical equivalence only of *)
(* a shader that is the released one in every part, with every row of the  *)
(* domain matched and clean, imported without a diagnostic and observed on *)
(* the player, for every domain.                                           *)
THEOREM LogicalCertificateIsExact == Spec => []LogicalIsExact
<1>1. Init => IInv /\ CInv /\ Marked /\ Evidenced
  <2> SUFFICES ASSUME Init PROVE IInv /\ CInv /\ Marked /\ Evidenced
    OBVIOUS
  <2>1. Marked
    BY DEF Init, LiftInit, Marked, NewArtifact, Idle, At
  <2>2. Evidenced
    BY DEF Init, Evidenced, Passed, NewContract, NotRun, LogicalPlanes, CompilePlanes
  <2> QED  BY <2>1, <2>2, InitIInv, InitCInv
<1>2. (IInv /\ CInv /\ Marked /\ Evidenced) /\ [Next]_vars => (IInv /\ CInv /\ Marked /\ Evidenced)'
  <2> SUFFICES ASSUME IInv, CInv, Marked, Evidenced, [Next]_vars PROVE (IInv /\ CInv /\ Marked /\ Evidenced)'
    OBVIOUS
  <2>1. Evidenced'
    BY EvidencedCollect, EvidencedCertify, EvidencedOther
  <2> QED  BY <2>1, NextIInv, NextCInv, MarkedNext
<1>3. IInv /\ CInv /\ Marked /\ Evidenced => LogicalIsExact
  <2> SUFFICES ASSUME IInv, CInv, Marked, Evidenced, contract.cert.logical
               PROVE  /\ quirk = "none" /\ art[accepted].marks = {} /\ contract.native # <<>>
                      /\ editor.diags = "none" /\ art[accepted].proved = Domain
    BY DEF LogicalIsExact
  <2>1. Captured /\ \A p \in LogicalPlanes : Passed(p)
    BY DEF Evidenced
  <2>2. quirk = "none"
    BY <2>1, QuirksKnown DEF Evidenced, Differs, LogicalPlanes, CompilePlanes
  <2>3. accepted \in Artifacts /\ art[accepted].proved = Domain
    BY <2>1 DEF IInv, Typed, AcceptedUnderPin, CInv, Ordered
  <2>4. art[accepted].marks = {}
    BY <2>1, <2>3 DEF Marked, Evidenced, LogicalPlanes, CompilePlanes
  <2>5. contract.native # <<>> /\ editor.diags = "none"
    BY <2>1 DEF Evidenced, LogicalPlanes, CInv, Released, Found, Genuine
  <2> QED  BY <2>2, <2>3, <2>4, <2>5
<1> QED  BY <1>1, <1>2, <1>3, PTL DEF Spec
==============================================================================
