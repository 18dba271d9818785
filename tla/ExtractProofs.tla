---------------------------- MODULE ExtractProofs ----------------------------
(***************************************************************************)
(* Theorems about the extract command, for any catalog, any selection, any *)
(* number of textures, shaders and materials, and any number of edits,     *)
(* foreign files and faults.                                               *)
(*                                                                         *)
(* Textures: what was read of a source is no later than the source (Read), *)
(* so a source found at its catalogued version when it is closed was at it *)
(* when it was read; pixels are those of the one view of their sidecar     *)
(* (Viewed).  Snapshots are closed one after the other before anything is  *)
(* published (Closing, Committed).  The output directory only grows, and   *)
(* others only put foreign bytes over a file (DiskTrue), so that what is   *)
(* as recorded at a later comparison was so before: this is why comparing  *)
(* the textures at the end of a material and the shader at the end of its  *)
(* group is enough (Rests).  A file that is created was missing when it    *)
(* was examined, which is what the ledgers of residues rest on             *)
(* (TexPublished, AtHand, TexAccounted, MatAccounted).                     *)
(***************************************************************************)
EXTENDS ExtractCommand, SequenceTheorems, WellFoundedInduction, TLAPS

(* The records keep their fields.                                          *)
TextureShape(x) ==
    x = [status |-> x.status, failure |-> x.failure, decoded |-> x.decoded, pixels |-> x.pixels,
         pre |-> x.pre, pub |-> x.pub, residue |-> x.residue, seen |-> x.seen]

(* Where the texture batch is: the loop over the snapshots, and the        *)
(* commit.                                                                 *)
Looping == {"snapshot", "stage", "close", "closeBad"}
Committing == {"commit", "publish"}

(* The types of the texture batch.                                         *)
TTyped ==
    /\ version \in [Sources \cup Sidecars -> Nat]
    /\ snap \in [Sources -> Int]
    /\ anchor \in [Sidecars -> Int]
    /\ intact \in BOOLEAN
    /\ DOMAIN tex = Textures
    /\ \A t \in Textures :
         /\ TextureShape(tex[t])
         /\ tex[t].status \in {"pending", "failed"} \cup Published
         /\ tex[t].decoded \in Int /\ tex[t].pixels \in Int
    /\ tpc = [at |-> tpc.at, n |-> tpc.n]
    /\ tpc.at \in Looping \cup {"anchors"} \cup Committing
    /\ tpc.n \in Nat \ {0}

(* The snapshots are closed in their order, the transaction is intact only *)
(* when each was found as it was catalogued.                               *)
Closing ==
    /\ tpc.at \in Looping =>
         /\ tpc.n \in DOMAIN Snapshots
         /\ \A i \in 1..(tpc.n - 1) : snap[Snapshots[i]] # Open
    /\ tpc.at \in Looping \ {"snapshot"} => snap[Snapshots[tpc.n]] = Open
    /\ tpc.at \notin Looping => \A p \in Sources : snap[p] # Open
    /\ intact => \A p \in Sources : snap[p] \in {Open, 0}

(* What was read of a source is no later than the source.                  *)
Read ==
    \A t \in Textures :
        /\ tex[t].decoded # NotHeld /\ intact =>
             /\ tex[t].decoded \in Nat /\ tex[t].decoded <= version[SourceOf[t]]
             /\ snap[SourceOf[t]] # Open => tex[t].decoded = 0
        /\ tex[t].pixels # NotHeld =>
             /\ tex[t].decoded # NotHeld /\ tex[t].pixels \in Nat
             /\ tex[t].seen = <<tex[t].seen[1], tex[t].seen[2]>>
             /\ tex[t].seen[1] \in Nat /\ tex[t].seen[2] \in Nat
        /\ tex[t].pixels # NotHeld /\ intact =>
             /\ tex[t].seen[1] <= version[SourceOf[t]]
             /\ snap[SourceOf[t]] # Open => tex[t].seen[1] = 0

(* Pixels are those of the one view of their sidecar.                      *)
Viewed ==
    /\ \A s \in Sidecars : anchor[s] # NotHeld => anchor[s] \in Nat /\ anchor[s] <= version[s]
    /\ tpc.at \in Committing => \A s \in Sidecars : anchor[s] = NotHeld
    /\ \A t \in Textures : tex[t].pixels # NotHeld =>
         /\ SidecarOf[t] = Inline => tex[t].pixels = 0 /\ tex[t].seen[2] = 0
         /\ SidecarOf[t] # Inline =>
              \/ /\ tex[t].pixels = anchor[SidecarOf[t]]
                 /\ tex[t].pixels <= tex[t].seen[2] /\ tex[t].seen[2] <= version[SidecarOf[t]]
              \/ /\ tpc.at \notin Looping /\ anchor[SidecarOf[t]] = NotHeld
                 /\ intact => tex[t].seen[2] = tex[t].pixels
    /\ \A t, u \in Textures :
         tex[t].pixels # NotHeld /\ tex[u].pixels # NotHeld /\ SidecarOf[t] = SidecarOf[u] =>
             tex[t].pixels = tex[u].pixels

(* Only a committable record is published, in its turn.                    *)
Committed ==
    /\ tpc.at = "publish" => tpc.n \in Textures /\ tex[tpc.n].status = "pending"
    /\ \A t \in Textures :
        /\ tpc.at \notin Committing =>
             tex[t].status \in {"pending", "failed"} /\ tex[t].pub = <<>> /\ tex[t].residue = {}
        /\ tpc.at \in Committing /\ tex[t].status # "failed" => intact /\ tex[t].pixels # NotHeld
        /\ tpc.at \in Committing /\ t < tpc.n => tex[t].status # "pending"
        /\ t > tpc.n \/ (t = tpc.n /\ tpc.at = "commit") =>
             tex[t].pub = <<>> /\ tex[t].residue = {} /\ tex[t].status \in {"pending", "failed"}
        /\ tex[t].pub # <<>> => intact

(* A file of a texture or of a material, by the number of the part.        *)
TexFile(t, i) == <<"texture", t, tex[t].pixels, TextureOrder[i]>>

(* Published files are there.                                              *)
TexPublished ==
    \A t \in Textures :
        /\ tex[t].pub \in Seq(Published) /\ Len(tex[t].pub) <= 2
        /\ \A i \in DOMAIN tex[t].pub : TexFile(t, i) \in DOMAIN disk
        /\ tex[t].status \in Published => Len(tex[t].pub) = 2
        /\ tpc.at = "publish" /\ t = tpc.n =>
             /\ Len(tex[t].pub) < 2 /\ tex[t].residue = {}
             /\ DOMAIN tex[t].pre = 1..2
             /\ \A i \in 1..2 : tex[t].pre[i] # "missing" => TexFile(t, i) \in DOMAIN disk

(* What holds of the texture batch.                                        *)
TexInv == TTyped /\ Closing /\ Read /\ Viewed /\ Committed /\ TexPublished

(* The output directory.                                                   *)
DiskTrue ==
    /\ disk = [f \in DOMAIN disk |-> disk[f]]
    /\ \A f \in DOMAIN disk : disk[f] # Missing
    /\ wrote \subseteq DOMAIN disk
    /\ \A f \in DOMAIN disk : f[1] = "texture" =>
         tpc.at \in Committing /\ \E t \in Textures, i \in 1..2 : f = TexFile(t, i)
    /\ tampered \subseteq DOMAIN disk /\ \A f \in tampered : disk[f] = Foreign

(* Each file of a texture this run created.                                *)
TexAccounted ==
    \A f \in wrote : f[1] = "texture" =>
        \E t \in Textures, i \in 1..2 :
            /\ f = TexFile(t, i)
            /\ i = 2 => TexFile(t, 1) \in DOMAIN disk
            /\ \/ f \in tex[t].residue
               \/ i \in DOMAIN tex[t].pub /\ tex[t].pub[i] = "emitted" /\ tex[t].status # "failed"

-----------------------------------------------------------------------------
MaterialShape(x) ==
    x = [status |-> x.status, failure |-> x.failure, deps |-> x.deps, closed |-> x.closed,
         pre |-> x.pre, pub |-> x.pub, residue |-> x.residue, reported |-> x.reported]

(* The material takes part.                                                *)
Active(m) == MaterialStatus[m] = "ready" /\ ShaderOf[m] \in Selected

(* Inside a group of materials, and inside a material of it.               *)
InGroup == {"material", "publish", "release", "close"}
InMaterial == {"material", "publish", "release"}

(* The types of the material batch.                                        *)
MTyped ==
    /\ slots \in SlotChoices
    /\ DOMAIN mat = Materials /\ DOMAIN ground = Materials
    /\ \A m \in Materials :
         /\ MaterialShape(mat[m])
         /\ mat[m].status \in {"pending", "failed", "unselected", "unassociated"} \cup Published
         /\ mat[m].reported \in BOOLEAN
    /\ mpc = [at |-> mpc.at, s |-> mpc.s, m |-> mpc.m]
    /\ mpc.at \in {"idle", "group"} \cup InGroup
    /\ mpc.s \in Nat

(* Where the command is and where its parts are.                           *)
Phase ==
    /\ stage \in {"textures", "shaders", "materials", "exit", "done"}
    /\ stage # "textures" => TexturesCommitted
    /\ stage \in {"textures", "shaders"} <=> mpc.at = "idle"
    /\ stage \in {"exit", "done"} => MaterialsDone
    /\ mpc.at \in InGroup => mpc.s \in Shaders
    /\ mpc.at \in InMaterial => mpc.m \in Materials /\ Active(mpc.m) /\ ShaderOf[mpc.m] = mpc.s

(* The turn of a material has come, or is over.                            *)
Begun(m) ==
    /\ mpc.at # "idle"
    /\ \/ ShaderOf[m] < mpc.s
       \/ /\ ShaderOf[m] = mpc.s
          /\ \/ mpc.at = "close"
             \/ mpc.at \in InMaterial /\ m < mpc.m
             \/ mpc.at \in {"publish", "release"} /\ m = mpc.m
(* Its leases have been released.                                          *)
Released(m) ==
    /\ Begun(m)
    /\ ShaderOf[m] = mpc.s
    /\ mpc.at = "close" \/ (mpc.at \in InMaterial /\ m < mpc.m)

Refs(x, tx) == [i \in DOMAIN x |-> IF x[i] = NullSlot THEN <<>> ELSE <<x[i], tx[x[i]].pixels>>]
MatFile(m, i) == <<"material", m, Refs(slots[m], tex), MaterialOrder[i]>>

(* A material takes its turn, and publishes its files in order.            *)
Turn(m) ==
    /\ mat[m].status \in {"unselected", "unassociated"} => ~Active(m)
    /\ mat[m].status = "pending" /\ mpc.at # "idle" =>
         /\ Active(m) /\ mat[m].failure # "dependencyAuthority"
         /\ Begun(m) => mpc.at = "publish" /\ m = mpc.m
    /\ ~Begun(m) => /\ mat[m].pub = <<>> /\ mat[m].residue = {}
                    /\ ~mat[m].reported /\ mat[m].status \notin Published
    /\ mat[m].pub # <<>> \/ mat[m].status \in Published =>
         Active(m) /\ mat[m].failure # "dependencyAuthority"
    /\ mat[m].status \in Published => Len(mat[m].pub) = 3
    /\ (mpc.at = "publish" /\ m = mpc.m) \/ mat[m].status \in Published =>
         /\ DOMAIN mat[m].deps = DOMAIN slots[m]
         /\ \A i \in DOMAIN slots[m] : slots[m][i] \in Textures => mat[m].deps[i] = "exported"

(* The material whose turn it is.                                          *)
AtHand ==
    /\ mpc.at \in {"material", "publish"} => mat[mpc.m].failure # "dependencyAuthority"
    /\ mpc.at = "publish" =>
         /\ mat[mpc.m].status = "pending" /\ mat[mpc.m].residue = {} /\ mat[mpc.m].reported = FALSE
         /\ mat[mpc.m].pub \in Seq(Published) /\ Len(mat[mpc.m].pub) < 3
         /\ DOMAIN mat[mpc.m].pre = 1..3
         /\ \A i \in 1..3 : mat[mpc.m].pre[i] # "missing" => MatFile(mpc.m, i) \in DOMAIN disk
         /\ \A i \in DOMAIN mat[mpc.m].pub : MatFile(mpc.m, i) \in DOMAIN disk

(* The materials before, during and after their turn.                      *)
MatPublished == AtHand /\ \A m \in Materials : Turn(m)

(* Each file of a material this run created.                               *)
MatAccounted ==
    \A f \in wrote : f[1] = "material" =>
        /\ mpc.at # "idle"
        /\ \E m \in Materials, i \in 1..3 :
            /\ f[2] = m /\ f = MatFile(m, i)
            /\ i = 3 => MatFile(m, 1) \in DOMAIN disk /\ MatFile(m, 2) \in DOMAIN disk
            /\ \/ f \in mat[m].residue
               \/ i \in DOMAIN mat[m].pub /\ mat[m].pub[i] = "emitted" /\ mat[m].status # "failed"

(* A published material rests on the files of its shader and its textures  *)
(* as long as nobody has compared them again.                              *)
Rests(m) ==
    mat[m].status \in Published =>
        \/ ShaderOf[m] < mpc.s /\ ground[m] /\ mat[m].reported
        \/ /\ ~mat[m].reported /\ Released(m)
           /\ ShaderOnDisk(ShaderOf[m]) => ground[m]
        \/ /\ ~mat[m].reported /\ mpc.at = "release" /\ m = mpc.m
           /\ Grounded(m) => ground[m]

(* While a group is open, the files of its shader exist.                   *)
Resting ==
    /\ mpc.at \in InGroup => \A p \in ShaderParts : ShaderPath(mpc.s, p) \in DOMAIN disk
    /\ \A m \in Materials : Rests(m)

(* The exit code is given once, from a verdict that is exact.              *)
Ended ==
    /\ exit \in {Running, 0, 1}
    /\ exit = 0 => stage = "done" /\ ExitZeroIsExact

(* What holds of the material batch and of the command.                    *)
MatInv == MTyped /\ Phase /\ MatPublished /\ MatAccounted /\ Resting /\ Ended

(* The inductive invariant.                                                *)
IInv == TexInv /\ DiskTrue /\ TexAccounted /\ MatInv

-----------------------------------------------------------------------------
(* The constants of the texture batch: records are numbered, each has a    *)
(* retained source.                                                        *)
LEMMA Constants ==
    /\ \A t \in Textures : t \in Nat \ {0} /\ SourceOf[t] \in Sources
    /\ \A t \in Textures : SidecarOf[t] # Inline => SidecarOf[t] \in Sidecars
    /\ Snapshots \in Seq(Sources) /\ Len(Snapshots) \in Nat /\ DOMAIN Snapshots = 1..Len(Snapshots)
    /\ \A i \in DOMAIN Snapshots : Snapshots[i] \in Sources
    /\ \A p \in Sources : \E i \in DOMAIN Snapshots : p = Snapshots[i]
<1>1. \A t \in Textures : t \in Nat \ {0} /\ SourceOf[t] \in Sources
  BY TextureAssumption
<1>2. \A t \in Textures : SidecarOf[t] # Inline => SidecarOf[t] \in Sidecars
  BY DEF Sidecars
<1>3. Snapshots \in Seq(Sources)
  BY TextureAssumption
<1>4. \A p \in Sources : \E i \in DOMAIN Snapshots : p = Snapshots[i]
  BY DEF Sources, Range
<1> QED  BY <1>1, <1>2, <1>3, <1>4

(* The files of a texture that were reported as created.                   *)
CreatedFiles(t, pub) ==
    {TexturePath(t, TextureParts[i]) : i \in {i \in DOMAIN pub : pub[i] = "emitted"}}

(* record_fail keeps what was decoded and published, and names the created *)
(* files of a record that had not failed in its residue.                   *)
LEMMA Failing ==
    ASSUME NEW records, NEW S, NEW why, NEW t \in Textures, TextureShape(records[t])
    PROVE LET x == records[t]
              y == RecordFail(records, S, why)[t]
          IN /\ TextureShape(y)
             /\ y.decoded = x.decoded /\ y.pixels = x.pixels /\ y.seen = x.seen
             /\ y.pre = x.pre /\ y.pub = x.pub
             /\ t \notin S => y = x
             /\ y.status = x.status \/ y.status = "failed"
             /\ t \in S => y.status = "failed"
             /\ x.status # "failed" /\ t \in S => y.residue = x.residue \cup CreatedFiles(t, x.pub)
             /\ x.status = "failed" => y = x
  BY DEF RecordFail, TextureShape, CreatedFiles

(* record_fail before the commit: nothing was created, so the residue      *)
(* stays empty.                                                            *)
LEMMA FailingEarly ==
    ASSUME NEW records, NEW S, NEW why, NEW t \in Textures, TextureShape(records[t]),
           records[t].pub = <<>>, records[t].residue = {}
    PROVE LET x == records[t]
              y == RecordFail(records, S, why)[t]
          IN /\ TextureShape(y) /\ y.residue = {} /\ y.pub = <<>>
             /\ y.decoded = x.decoded /\ y.pixels = x.pixels /\ y.seen = x.seen
             /\ y.status = x.status \/ y.status = "failed"
             /\ t \in S => y.status = "failed"
<1>1. CreatedFiles(t, records[t].pub) = {}
  BY DEF CreatedFiles
<1> QED  BY <1>1, Failing

(* record_fail returns all the records.                                    *)
LEMMA FailingDomain ==
    ASSUME NEW records, NEW S, NEW why PROVE DOMAIN RecordFail(records, S, why) = Textures
  BY DEF RecordFail

(* What the inputs and the export's position may do to what is known of    *)
(* the inputs.                                                             *)
LEMMA InputsFrame ==
    ASSUME TexInv, UNCHANGED <<snap, anchor, intact, tex, tpc>>,
           version' \in [Sources \cup Sidecars -> Nat],
           \A i \in Sources \cup Sidecars : version[i] <= version'[i],
           DOMAIN disk \subseteq DOMAIN disk'
    PROVE TexInv'
<1> USE DEF TexInv
<1>1. TTyped'
  BY DEF TTyped
<1>2. Closing'
  BY DEF Closing
<1>3. Read'
  <2>1. \A t \in Textures : SourceOf[t] \in Sources \cup Sidecars /\ version[SourceOf[t]] \in Nat /\ version'[SourceOf[t]] \in Nat
    BY Constants DEF TTyped
  <2> QED  BY <2>1 DEF Read
<1>4. Viewed'
  <2>1. \A s \in Sidecars : version[s] \in Nat /\ version'[s] \in Nat /\ version[s] <= version'[s]
    BY DEF TTyped
  <2> QED  BY <2>1, Constants DEF Viewed, Read
<1>5. Committed'
  BY DEF Committed
<1>6. TexPublished'
  BY DEF TexPublished, TexFile
<1> QED  BY <1>1, <1>2, <1>3, <1>4, <1>5, <1>6

(* A step before the commit: disk untouched.                               *)
LEMMA EarlyDisk ==
    ASSUME DiskTrue, TexAccounted, UNCHANGED <<disk, wrote, tampered>>, tpc.at \notin Committing
    PROVE DiskTrue' /\ TexAccounted'
  BY DEF DiskTrue, TexAccounted

(* The empty sequence, under a name the provers do not unfold.             *)
LEMMA EmptySequence ==
    ASSUME NEW x, x = <<>>, NEW S PROVE x \in Seq(S) /\ Len(x) = 0 /\ DOMAIN x = {}
  OBVIOUS

(* Before the commit nothing is published.                                 *)
LEMMA NothingYet ==
    ASSUME tpc'.at # "publish",
           \A t \in Textures : tex'[t].pub = <<>> /\ tex'[t].status \notin Published
    PROVE TexPublished'
<1>1. \A t \in Textures : tex'[t].pub \in Seq(Published) /\ Len(tex'[t].pub) <= 2 /\ DOMAIN tex'[t].pub = {}
  <2> SUFFICES ASSUME NEW t \in Textures
               PROVE tex'[t].pub \in Seq(Published) /\ Len(tex'[t].pub) <= 2 /\ DOMAIN tex'[t].pub = {}
    OBVIOUS
  <2> DEFINE x == tex'[t].pub
  <2>1. x = <<>>
    OBVIOUS
  <2> HIDE DEF x
  <2>2. x \in Seq(Published) /\ Len(x) = 0 /\ DOMAIN x = {}
    BY <2>1, EmptySequence
  <2>3. x \in Seq(Published) /\ Len(x) <= 2 /\ DOMAIN x = {}
    BY <2>2
  <2> QED  BY <2>3 DEF x
<1> QED  BY <1>1 DEF TexPublished

(* A lost snapshot is passed over.                                         *)
LEMMA SkipKeeps == ASSUME TexInv, SkipSnapshot PROVE TexInv'
<1> USE DEF TexInv, SkipSnapshot
<1>0. tpc.n \in DOMAIN Snapshots /\ tpc.at = "snapshot" /\ tpc.n \in Nat
  BY DEF Closing, Looping, TTyped
<1>1. tpc' = [at |-> tpc'.at, n |-> tpc'.n] /\ tpc'.at \in {"snapshot", "anchors"} /\ tpc'.n \in Nat \ {0}
  BY <1>0 DEF NextSnapshot
<1>2. TTyped'
  BY <1>1 DEF TTyped, Looping
<1>3. Closing'
  <2>1. CASE tpc.n < Len(Snapshots)
    <3>1. tpc'.at = "snapshot" /\ tpc'.n = tpc.n + 1 /\ tpc'.n \in DOMAIN Snapshots
      BY <2>1, <1>0, Constants DEF NextSnapshot
    <3>2. \A i \in 1..(tpc'.n - 1) : i = tpc.n \/ i \in 1..(tpc.n - 1)
      BY <3>1, <1>0
    <3> QED  BY <1>0, <3>1, <3>2 DEF Closing, Current, Looping
  <2>2. CASE ~(tpc.n < Len(Snapshots))
    <3>1. tpc'.at = "anchors"
      BY <2>2, <1>0, Constants DEF NextSnapshot
    <3>2. \A i \in DOMAIN Snapshots : i = tpc.n \/ i \in 1..(tpc.n - 1)
      BY <2>2, <1>0, Constants
    <3>3. \A p \in Sources : snap[p] # Open
      BY <1>0, <3>2, Constants DEF Closing, Current, Looping
    <3> QED  BY <3>1, <3>3 DEF Closing, Looping
  <2> QED  BY <2>1, <2>2
<1>4. Read'
  BY DEF Read
<1>5. Viewed'
  BY <1>0, <1>1 DEF Viewed, Looping, Committing
<1>6. Committed'
  BY <1>0, <1>1 DEF Committed, Committing
<1>7. TexPublished'
  BY <1>0, <1>1 DEF TexPublished, TexFile
<1> QED  BY <1>2, <1>3, <1>4, <1>5, <1>6, <1>7

(* The last group of a source was staged.                                  *)
LEMMA StageDoneKeeps == ASSUME TexInv, StageDone PROVE TexInv'
<1> USE DEF TexInv, StageDone
<1>1. tpc' = [at |-> "close", n |-> tpc.n]
  BY DEF TTyped
<1>2. TTyped'
  BY <1>1 DEF TTyped, Looping
<1>3. Closing'
  BY <1>1 DEF Closing, Looping
<1>4. Read'
  BY DEF Read
<1>5. Viewed'
  BY <1>1 DEF Viewed, Looping, Committing
<1>6. Committed'
  BY <1>1 DEF Committed, Committing
<1>7. TexPublished'
  BY <1>1 DEF TexPublished, TexFile
<1> QED  BY <1>2, <1>3, <1>4, <1>5, <1>6, <1>7

(* The records of a source are decoded through the mapped snapshot: what   *)
(* is read is its present version.                                         *)
LEMMA DecodeKeeps == ASSUME TexInv, DecodeSource PROVE TexInv'
<1> USE DEF TexInv
<1> DEFINE p == Snapshots[tpc.n]
<1>0. /\ tpc.at = "snapshot" /\ tpc.n \in DOMAIN Snapshots /\ p \in Sources /\ snap[p] = Open
      /\ version[p] \in Nat /\ UNCHANGED <<version, snap, anchor, disk, wrote>>
  BY Constants DEF DecodeSource, Current, Closing, Looping, TTyped
<1>1. PICK bad \in {{}, Of(p)} \cup {{t} : t \in Of(p)}, stop \in BOOLEAN :
         /\ tex' = RecordFail([t \in Textures |->
                        IF t \in Of(p) \ bad
                        THEN [tex[t] EXCEPT !.decoded = version[p]] ELSE tex[t]],
                        bad, IF stop THEN "copyAllocation" ELSE "object")
         /\ tpc' = [at |-> IF stop THEN "closeBad" ELSE "stage", n |-> tpc.n]
         /\ intact' = (intact /\ ~stop)
  BY DEF DecodeSource, Current
<1> DEFINE mid == [t \in Textures |-> IF t \in Of(p) \ bad
                        THEN [tex[t] EXCEPT !.decoded = version[p]] ELSE tex[t]]
<1>2. \A t \in Textures :
        /\ TextureShape(mid[t]) /\ mid[t].status = tex[t].status
        /\ mid[t].pixels = tex[t].pixels /\ mid[t].seen = tex[t].seen
        /\ mid[t].pre = tex[t].pre /\ mid[t].pub = tex[t].pub /\ mid[t].residue = tex[t].residue
        /\ mid[t].decoded = tex[t].decoded \/ (SourceOf[t] = p /\ mid[t].decoded = version[p])
  BY DEF TTyped, TextureShape, Of
<1> HIDE DEF mid, p
<1>3. \A t \in Textures :
        /\ TextureShape(tex'[t])
        /\ tex'[t].status = tex[t].status \/ tex'[t].status = "failed"
        /\ tex'[t].pixels = tex[t].pixels /\ tex'[t].seen = tex[t].seen
        /\ tex'[t].pub = tex[t].pub /\ tex'[t].decoded = mid[t].decoded
        /\ tex'[t].residue = tex[t].residue
  <2>1. tex' = RecordFail(mid, bad, IF stop THEN "copyAllocation" ELSE "object")
    BY <1>1 DEF mid
  <2>2. \A t \in Textures : tex[t].pub = <<>> /\ tex[t].residue = {}
    BY <1>0 DEF Committed, Committing
  <2>3. ASSUME NEW t \in Textures
        PROVE /\ TextureShape(tex'[t])
              /\ tex'[t].status = tex[t].status \/ tex'[t].status = "failed"
              /\ tex'[t].pixels = tex[t].pixels /\ tex'[t].seen = tex[t].seen
              /\ tex'[t].pub = tex[t].pub /\ tex'[t].decoded = mid[t].decoded
              /\ tex'[t].residue = tex[t].residue
    <3>1. TextureShape(mid[t]) /\ mid[t].pub = <<>> /\ mid[t].residue = {}
      BY <1>2, <2>2
    <3>2. /\ TextureShape(tex'[t]) /\ tex'[t].residue = {} /\ tex'[t].pub = <<>>
          /\ tex'[t].decoded = mid[t].decoded /\ tex'[t].pixels = mid[t].pixels /\ tex'[t].seen = mid[t].seen
          /\ tex'[t].status = mid[t].status \/ tex'[t].status = "failed"
      BY <2>1, <3>1, FailingEarly
    <3> QED  BY <1>2, <2>2, <3>2
  <2> QED  BY <2>3
<1>4. TTyped'
  <2>1. DOMAIN tex' = Textures
    BY <1>1, FailingDomain
  <2>2. intact' \in BOOLEAN
    BY <1>1
  <2>3. tpc' = [at |-> tpc'.at, n |-> tpc'.n] /\ tpc'.at \in Looping /\ tpc'.n \in Nat \ {0}
    BY <1>1 DEF TTyped, Looping
  <2> QED  BY <1>0, <1>2, <1>3, <2>1, <2>2, <2>3 DEF TTyped
<1>5. Closing'
  BY <1>0, <1>1 DEF Closing, Looping, p
<1>6. Read'
  <2>1. \A t \in Textures : tex'[t].decoded = tex[t].decoded
              \/ (SourceOf[t] = p /\ tex'[t].decoded = version[p])
    BY <1>2, <1>3
  <2>2. intact' => intact
    BY <1>1
  <2>3. NotHeld \notin Nat
    BY DEF NotHeld
  <2> QED  BY <1>0, <1>3, <2>1, <2>2, <2>3 DEF Read
<1>7. Viewed'
  BY <1>0, <1>1, <1>3 DEF Viewed, Looping, Committing
<1>8. Committed'
  <2>1. tpc'.at \notin Committing
    BY <1>1 DEF Committing
  <2> QED  BY <1>0, <1>3, <2>1 DEF Committed, Committing
<1>9. TexPublished'
  <2>1. tpc'.at # "publish" /\ \A t \in Textures : tex[t].pub = <<>> /\ tex'[t].status \notin Published
    BY <1>0, <1>1, <1>3 DEF Committed, Committing, Published
  <2> QED  BY <1>3, <2>1 DEF TexPublished
<1> QED  BY <1>4, <1>5, <1>6, <1>7, <1>8, <1>9

(* What staging makes of a record: pixels are those of the anchored view   *)
(* of the sidecar.                                                         *)
LEMMA StagedIs ==
    ASSUME NEW x, TextureShape(x), NEW t, NEW s, NEW held
    PROVE LET y == Staged(x, t, s, held)
          IN /\ TextureShape(y) /\ y.status = x.status /\ y.decoded = x.decoded
             /\ y.pub = x.pub /\ y.residue = x.residue
             /\ y.pixels = IF s = Inline THEN 0 ELSE held
             /\ y.seen = <<version[SourceOf[t]], IF s = Inline THEN 0 ELSE version[s]>>
<1> DEFINE a == IF s = Inline THEN 0 ELSE held
           b == <<version[SourceOf[t]], IF s = Inline THEN 0 ELSE version[s]>>
           y == Staged(x, t, s, held)
<1>1. y = [x EXCEPT !.pixels = a, !.seen = b]
  BY DEF Staged
<1> HIDE DEF a, b, y
<1>2. y = [status |-> x.status, failure |-> x.failure, decoded |-> x.decoded, pixels |-> a,
           pre |-> x.pre, pub |-> x.pub, residue |-> x.residue, seen |-> b]
  BY <1>1 DEF TextureShape
<1>3. /\ TextureShape(y) /\ y.status = x.status /\ y.decoded = x.decoded
      /\ y.pub = x.pub /\ y.residue = x.residue /\ y.pixels = a /\ y.seen = b
  BY <1>2 DEF TextureShape
<1> QED  BY <1>3 DEF a, b, y

(* A group of records is staged: the first to need a sidecar anchors its   *)
(* view.                                                                   *)
LEMMA StageKeeps == ASSUME TexInv, StageGroup PROVE TexInv'
<1> USE DEF TexInv
<1> DEFINE p == Snapshots[tpc.n]
           inline == {t \in ToStage : SidecarOf[t] = Inline}
           s == IF inline # {} THEN Inline
                ELSE SidecarOf[CHOOSE t \in ToStage : \A u \in ToStage : t <= u]
           group == IF inline # {} THEN inline ELSE {t \in ToStage : SidecarOf[t] = s}
<1>0. /\ tpc.at = "stage" /\ tpc.n \in DOMAIN Snapshots /\ p \in Sources /\ snap[p] = Open
      /\ version[p] \in Nat /\ UNCHANGED <<version, snap, tpc, disk, wrote>>
      /\ intact' \in BOOLEAN /\ (intact' => intact)
  BY Constants DEF StageGroup, Current, Closing, Looping, TTyped
<1>1. PICK bad \in {{}, group} \cup {{t} : t \in group}, opened, starve \in BOOLEAN :
            /\ ~opened => bad = group /\ s # Inline
            /\ anchor' = IF opened /\ s # Inline THEN [anchor EXCEPT ![s] = Hold(s)] ELSE anchor
            /\ tex' = RecordFail([t \in Textures |->
                          IF t \in group \ bad
                          THEN Staged(tex[t], t, s, IF s = Inline THEN 0 ELSE anchor'[s])
                          ELSE tex[t]],
                          bad, "resource")
  BY DEF StageGroup
<1> HIDE DEF s
<1>2. \A t \in group : /\ t \in Textures /\ SourceOf[t] = p /\ SidecarOf[t] = s
                       /\ tex[t].decoded # NotHeld /\ tex[t].pixels = NotHeld
  BY DEF ToStage, Of, Current, s
<1> HIDE DEF group, inline
<1> DEFINE mid == [t \in Textures |-> IF t \in group \ bad
                          THEN Staged(tex[t], t, s, IF s = Inline THEN 0 ELSE anchor'[s])
                          ELSE tex[t]]
<1>3. \A t \in Textures :
        /\ TextureShape(mid[t]) /\ mid[t].status = tex[t].status /\ mid[t].decoded = tex[t].decoded
        /\ mid[t].pub = tex[t].pub /\ mid[t].residue = tex[t].residue
        /\ t \notin group \ bad => mid[t].pixels = tex[t].pixels /\ mid[t].seen = tex[t].seen
        /\ t \in group \ bad =>
             /\ mid[t].pixels = IF s = Inline THEN 0 ELSE anchor'[s]
             /\ mid[t].seen = <<version[SourceOf[t]], IF s = Inline THEN 0 ELSE version[s]>>
  <2> SUFFICES ASSUME NEW t \in Textures
               PROVE /\ TextureShape(mid[t]) /\ mid[t].status = tex[t].status /\ mid[t].decoded = tex[t].decoded
                     /\ mid[t].pub = tex[t].pub /\ mid[t].residue = tex[t].residue
                     /\ t \notin group \ bad => mid[t].pixels = tex[t].pixels /\ mid[t].seen = tex[t].seen
                     /\ t \in group \ bad =>
                          /\ mid[t].pixels = IF s = Inline THEN 0 ELSE anchor'[s]
                          /\ mid[t].seen = <<version[SourceOf[t]], IF s = Inline THEN 0 ELSE version[s]>>
    OBVIOUS
  <2>1. TextureShape(tex[t])
    BY DEF TTyped
  <2>2. CASE t \notin group \ bad
    <3>1. mid[t] = tex[t]
      BY <2>2
    <3> QED  BY <2>1, <2>2, <3>1
  <2>3. CASE t \in group \ bad
    <3>1. mid[t] = Staged(tex[t], t, s, IF s = Inline THEN 0 ELSE anchor'[s])
      BY <2>3
    <3> HIDE DEF mid
    <3> QED  BY <2>1, <2>3, <3>1, StagedIs
  <2> QED  BY <2>2, <2>3
<1> HIDE DEF mid, p
<1>4. \A t \in Textures :
        /\ TextureShape(tex'[t]) /\ tex'[t].residue = {} /\ tex'[t].pub = <<>>
        /\ tex'[t].decoded = tex[t].decoded /\ tex'[t].pixels = mid[t].pixels /\ tex'[t].seen = mid[t].seen
        /\ tex'[t].status \in {"pending", "failed"}
  <2>1. tex' = RecordFail(mid, bad, "resource")
    BY <1>1 DEF mid
  <2>2. \A t \in Textures : tex[t].pub = <<>> /\ tex[t].residue = {} /\ tex[t].status \in {"pending", "failed"}
    BY <1>0 DEF Committed, Committing
  <2>3. ASSUME NEW t \in Textures
        PROVE /\ TextureShape(tex'[t]) /\ tex'[t].residue = {} /\ tex'[t].pub = <<>>
              /\ tex'[t].decoded = tex[t].decoded /\ tex'[t].pixels = mid[t].pixels /\ tex'[t].seen = mid[t].seen
              /\ tex'[t].status \in {"pending", "failed"}
    <3>1. TextureShape(mid[t]) /\ mid[t].pub = <<>> /\ mid[t].residue = {}
      BY <1>3, <2>2
    <3>2. /\ TextureShape(tex'[t]) /\ tex'[t].residue = {} /\ tex'[t].pub = <<>>
          /\ tex'[t].decoded = mid[t].decoded /\ tex'[t].pixels = mid[t].pixels /\ tex'[t].seen = mid[t].seen
          /\ tex'[t].status = mid[t].status \/ tex'[t].status = "failed"
      BY <2>1, <3>1, FailingEarly
    <3> QED  BY <1>3, <2>2, <3>2
  <2> QED  BY <2>3
(* The view of the sidecar, if it is one.                                  *)
<1>5. /\ anchor' \in [Sidecars -> Int]
      /\ \A x \in Sidecars : anchor[x] # NotHeld => anchor'[x] = anchor[x]
      /\ \A x \in Sidecars : anchor'[x] # NotHeld => anchor'[x] \in Nat /\ anchor'[x] <= version[x]
      /\ \A t \in group \ bad : s # Inline =>
            s \in Sidecars /\ anchor'[s] \in Nat /\ anchor'[s] # NotHeld /\ version[s] \in Nat
  <2>1. \A x \in Sidecars : version[x] \in Nat /\ anchor[x] \in Int
    BY DEF TTyped
  <2>2. NotHeld \notin Nat
    BY DEF NotHeld
  <2>3. \A x \in Sidecars : Hold(x) \in Nat /\ Hold(x) <= version[x] /\ (anchor[x] # NotHeld => Hold(x) = anchor[x])
    BY <2>1 DEF Hold, Viewed
  <2>4. \A t \in group : s # Inline => s \in Sidecars
    BY <1>2, Constants
  <2>5. CASE opened /\ s # Inline
    <3>1. anchor' = [anchor EXCEPT ![s] = Hold(s)]
      BY <1>1, <2>5
    <3>2. CASE s \in Sidecars
      <4>1. /\ DOMAIN anchor' = Sidecars /\ anchor' \in [Sidecars -> Int]
            /\ \A x \in Sidecars : anchor'[x] = IF x = s THEN Hold(s) ELSE anchor[x]
        BY <2>3, <3>1, <3>2 DEF TTyped
      <4>2. \A x \in Sidecars : anchor'[x] # NotHeld => anchor'[x] \in Nat /\ anchor'[x] <= version[x]
        BY <2>3, <4>1 DEF Viewed
      <4> QED  BY <2>1, <2>2, <2>3, <3>2, <4>1, <4>2
    <3>3. CASE s \notin Sidecars
      <4>1. group = {} /\ anchor' = anchor
        BY <2>4, <2>5, <3>1, <3>3 DEF TTyped
      <4> QED  BY <4>1 DEF TTyped, Viewed
    <3> QED  BY <3>2, <3>3
  <2>6. CASE ~(opened /\ s # Inline)
    <3>1. anchor' = anchor /\ (s # Inline => group \ bad = {})
      BY <1>1, <2>6
    <3> QED  BY <2>1, <3>1 DEF TTyped, Viewed
  <2> QED  BY <2>5, <2>6
<1>6. \A t \in Textures :
        \/ t \notin group \ bad /\ tex'[t].pixels = tex[t].pixels /\ tex'[t].seen = tex[t].seen
        \/ /\ t \in group \ bad /\ SourceOf[t] = p /\ SidecarOf[t] = s /\ tex[t].decoded # NotHeld
           /\ tex'[t].seen = <<tex'[t].seen[1], tex'[t].seen[2]>> /\ tex'[t].seen[1] = version[p]
           /\ s = Inline => tex'[t].pixels = 0 /\ tex'[t].seen[2] = 0
           /\ s # Inline => /\ s \in Sidecars /\ tex'[t].pixels = anchor'[s] /\ anchor'[s] \in Nat
                            /\ tex'[t].seen[2] = version[s] /\ version[s] \in Nat
                            /\ anchor'[s] # NotHeld /\ anchor'[s] <= version[s]
  BY <1>2, <1>3, <1>4, <1>5
<1>7. TTyped'
  <2>1. DOMAIN tex' = Textures
    BY <1>1, FailingDomain
  <2>2. \A t \in Textures : tex'[t].pixels \in Int
    BY <1>6 DEF TTyped
  <2> QED  BY <1>0, <1>4, <1>5, <2>1, <2>2 DEF TTyped
<1>8. Closing'
  BY <1>0 DEF Closing
<1>9. Read'
  BY <1>0, <1>4, <1>6 DEF Read
<1>10. Viewed'
  <2>1. tpc'.at = "stage"
    BY <1>0
  <2>2. ASSUME NEW t \in Textures, tex'[t].pixels # NotHeld
        PROVE /\ SidecarOf[t] = Inline => tex'[t].pixels = 0 /\ tex'[t].seen[2] = 0
              /\ SidecarOf[t] # Inline =>
                   /\ tex'[t].pixels = anchor'[SidecarOf[t]]
                   /\ tex'[t].pixels <= tex'[t].seen[2] /\ tex'[t].seen[2] <= version[SidecarOf[t]]
    <3>1. CASE t \notin group \ bad /\ tex'[t].pixels = tex[t].pixels /\ tex'[t].seen = tex[t].seen
      <4>1. SidecarOf[t] # Inline => SidecarOf[t] \in Sidecars
        BY Constants
      <4>2. SidecarOf[t] # Inline => tex[t].pixels = anchor[SidecarOf[t]]
        BY <1>0, <2>2, <3>1 DEF Viewed, Looping
      <4> QED  BY <1>0, <1>5, <2>2, <3>1, <4>1, <4>2 DEF Viewed, Looping
    <3> QED  BY <1>6, <3>1
  <2>3. ASSUME NEW t \in Textures, NEW u \in Textures, tex'[t].pixels # NotHeld, tex'[u].pixels # NotHeld,
               SidecarOf[t] = SidecarOf[u]
        PROVE tex'[t].pixels = tex'[u].pixels
    BY <2>2, <2>3
  <2> QED  BY <1>0, <1>5, <2>1, <2>2, <2>3 DEF Viewed, Committing
<1>11. Committed'
  BY <1>0, <1>4 DEF Committed, Committing
<1>12. TexPublished'
  <2>1. tpc'.at # "publish" /\ \A t \in Textures : tex'[t].pub = <<>> /\ tex'[t].status \notin Published
    BY <1>0, <1>4 DEF Published
  <2> QED  BY <2>1, NothingYet
<1> QED  BY <1>7, <1>8, <1>9, <1>10, <1>11, <1>12

(* Failing records before the commit.                                      *)
LEMMA EarlyFail ==
    ASSUME TexInv, tpc.at \notin Committing, NEW ok \in BOOLEAN, NEW S, NEW why,
           tex' = IF ok THEN tex ELSE RecordFail(tex, S, why)
    PROVE /\ DOMAIN tex' = Textures
          /\ \A t \in Textures :
               /\ TextureShape(tex'[t]) /\ tex'[t].residue = {} /\ tex'[t].pub = <<>>
               /\ tex'[t].decoded = tex[t].decoded /\ tex'[t].pixels = tex[t].pixels
               /\ tex'[t].seen = tex[t].seen /\ tex'[t].status \in {"pending", "failed"}
               /\ ~ok /\ t \in S => tex'[t].status = "failed"
<1> USE DEF TexInv
<1>1. \A t \in Textures : /\ TextureShape(tex[t]) /\ tex[t].pub = <<>> /\ tex[t].residue = {}
                           /\ tex[t].status \in {"pending", "failed"}
  BY DEF TTyped, Committed
<1>2. CASE ok
  BY <1>1, <1>2 DEF TTyped
<1>3. CASE ~ok
  <2>1. tex' = RecordFail(tex, S, why)
    BY <1>3
  <2>2. DOMAIN tex' = Textures
    BY <2>1, FailingDomain
  <2>3. ASSUME NEW t \in Textures
        PROVE /\ TextureShape(tex'[t]) /\ tex'[t].residue = {} /\ tex'[t].pub = <<>>
              /\ tex'[t].decoded = tex[t].decoded /\ tex'[t].pixels = tex[t].pixels
              /\ tex'[t].seen = tex[t].seen /\ tex'[t].status \in {"pending", "failed"}
              /\ t \in S => tex'[t].status = "failed"
    BY <1>1, <2>1, FailingEarly
  <2> QED  BY <2>2, <2>3
<1> QED  BY <1>2, <1>3

(* The next snapshot, once this one is not open any more.                  *)
LEMMA Advance ==
    ASSUME TTyped, Closing, tpc.at \in Looping, tpc' = NextSnapshot,
           \A q \in Sources : snap[q] # Open => snap'[q] # Open,
           snap'[Snapshots[tpc.n]] # Open,
           intact' => \A q \in Sources : snap'[q] \in {Open, 0}
    PROVE /\ Closing'
          /\ tpc' = [at |-> tpc'.at, n |-> tpc'.n] /\ tpc'.n \in Nat \ {0}
          /\ tpc'.at \in {"snapshot", "anchors"}
<1>0. tpc.n \in DOMAIN Snapshots /\ tpc.n \in Nat /\ Snapshots[tpc.n] \in Sources
  BY Constants DEF Closing, TTyped
<1>1. tpc' = [at |-> tpc'.at, n |-> tpc'.n] /\ tpc'.at \in {"snapshot", "anchors"} /\ tpc'.n \in Nat \ {0}
  BY <1>0 DEF NextSnapshot
<1>2. CASE tpc.n < Len(Snapshots)
  <2>1. tpc'.at = "snapshot" /\ tpc'.n = tpc.n + 1 /\ tpc'.n \in DOMAIN Snapshots
    BY <1>2, <1>0, Constants DEF NextSnapshot
  <2>2. \A i \in 1..(tpc'.n - 1) : i \in DOMAIN Snapshots /\ (i = tpc.n \/ i \in 1..(tpc.n - 1))
    BY <2>1, <1>0, Constants
  <2>3. \A i \in 1..(tpc'.n - 1) : snap'[Snapshots[i]] # Open
    BY <2>2, Constants DEF Closing
  <2>4. tpc'.at \in Looping /\ tpc'.at \notin Looping \ {"snapshot"}
    BY <2>1 DEF Looping
  <2> QED  BY <1>1, <2>1, <2>3, <2>4 DEF Closing
<1>3. CASE ~(tpc.n < Len(Snapshots))
  <2>1. tpc'.at = "anchors"
    BY <1>3, <1>0, Constants DEF NextSnapshot
  <2>2. \A i \in DOMAIN Snapshots : i = tpc.n \/ i \in 1..(tpc.n - 1)
    BY <1>3, <1>0, Constants
  <2>3. \A p \in Sources : snap'[p] # Open
    BY <2>2, Constants DEF Closing
  <2>4. tpc'.at \notin Looping
    BY <2>1 DEF Looping
  <2> QED  BY <1>1, <2>3, <2>4 DEF Closing
<1> QED  BY <1>1, <1>2, <1>3

(* A snapshot is closed: a version other than the catalogued one spoils    *)
(* the transaction.                                                        *)
LEMMA CloseSnapshotKeeps == ASSUME TexInv, CloseSnapshot PROVE TexInv'
<1> USE DEF TexInv
<1> DEFINE p == Snapshots[tpc.n]
<1>0. /\ tpc.at \in Looping /\ tpc.at \notin Committing /\ tpc.n \in DOMAIN Snapshots
      /\ UNCHANGED <<version, anchor, disk, wrote>> /\ tpc' = NextSnapshot
      /\ snap' = [snap EXCEPT ![p] = version[p]]
  BY DEF CloseSnapshot, Current, Closing, Looping, Committing
<1>1. p \in Sources /\ version[p] \in Nat /\ Open \notin Nat
  BY <1>0, Constants DEF TTyped, Open
<1>2. PICK ok \in BOOLEAN :
        /\ ok => version[p] = 0
        /\ intact' \in BOOLEAN /\ (intact' => intact /\ ok)
        /\ tex' = IF ok THEN tex ELSE RecordFail(tex, Affected(p, tpc.at # "snapshot"), "sourceIdentity")
  <2>1. PICK broken, starve \in BOOLEAN :
          /\ intact' = (intact /\ (~broken /\ version[p] = 0 /\ tpc.at # "closeBad") /\ ~starve)
          /\ tex' = IF (~broken /\ version[p] = 0 /\ tpc.at # "closeBad") THEN tex
                    ELSE RecordFail(tex, Affected(p, tpc.at # "snapshot"), "sourceIdentity")
    BY DEF CloseSnapshot, Current
  <2> WITNESS (~broken /\ version[p] = 0 /\ tpc.at # "closeBad") \in BOOLEAN
  <2> QED  BY <2>1
<1> HIDE DEF p
<1>3. /\ DOMAIN tex' = Textures
      /\ \A t \in Textures :
           /\ TextureShape(tex'[t]) /\ tex'[t].residue = {} /\ tex'[t].pub = <<>>
           /\ tex'[t].decoded = tex[t].decoded /\ tex'[t].pixels = tex[t].pixels
           /\ tex'[t].seen = tex[t].seen /\ tex'[t].status \in {"pending", "failed"}
  BY <1>0, <1>2, EarlyFail
<1>4. /\ snap' \in [Sources -> Int] /\ snap'[p] = version[p]
      /\ \A q \in Sources : q # p => snap'[q] = snap[q]
  BY <1>0, <1>1 DEF TTyped
<1>5. intact' => intact /\ version[p] = 0
  BY <1>2
<1>6. /\ Closing' /\ tpc' = [at |-> tpc'.at, n |-> tpc'.n] /\ tpc'.n \in Nat \ {0}
      /\ tpc'.at \in {"snapshot", "anchors"}
  <2>1. \A q \in Sources : snap[q] # Open => snap'[q] # Open
    BY <1>1, <1>4
  <2>2. snap'[Snapshots[tpc.n]] # Open
    BY <1>1, <1>4 DEF p
  <2>3. intact' => \A q \in Sources : snap'[q] \in {Open, 0}
    BY <1>4, <1>5 DEF Closing
  <2> QED  BY <1>0, <2>1, <2>2, <2>3, Advance
<1>7. TTyped'
  <2>1. intact' \in BOOLEAN
    BY <1>2 DEF TTyped
  <2> QED  BY <1>0, <1>3, <1>4, <1>6, <2>1 DEF TTyped, Looping
<1>8. Read'
  <2>1. \A t \in Textures : SourceOf[t] \in Sources /\ version[SourceOf[t]] \in Nat
    BY Constants DEF TTyped
  <2> QED  BY <1>0, <1>1, <1>3, <1>4, <1>5, <2>1 DEF Read
<1>9. Viewed'
  BY <1>0, <1>3, <1>5, <1>6 DEF Viewed, Looping, Committing
<1>10. Committed'
  BY <1>3, <1>6 DEF Committed, Committing
<1>11. TexPublished'
  BY <1>3, <1>6, NothingYet DEF Published
<1> QED  BY <1>6, <1>7, <1>8, <1>9, <1>10, <1>11

(* A sidecar view is closed: a version other than the anchored one spoils  *)
(* the transaction.                                                        *)
LEMMA CloseAnchorKeeps == ASSUME TexInv, NEW s \in Sidecars, CloseAnchor(s) PROVE TexInv'
<1> USE DEF TexInv
<1>0. /\ tpc.at = "anchors" /\ tpc.at \notin Looping /\ tpc.at \notin Committing
      /\ UNCHANGED <<version, snap, tpc, disk, wrote>>
      /\ anchor[s] # NotHeld /\ anchor' = [anchor EXCEPT ![s] = NotHeld]
  BY DEF CloseAnchor, Looping, Committing
<1> DEFINE S == {t \in Textures : SidecarOf[t] = s /\ tex[t].pixels # NotHeld}
<1>1. PICK ok \in BOOLEAN :
        /\ ok => version[s] = anchor[s]
        /\ intact' = (intact /\ ok)
        /\ tex' = IF ok THEN tex ELSE RecordFail(tex, S, "resourceIdentity")
  <2>1. PICK broken \in BOOLEAN :
          /\ intact' = (intact /\ (~broken /\ version[s] = anchor[s]))
          /\ tex' = IF (~broken /\ version[s] = anchor[s]) THEN tex
                    ELSE RecordFail(tex, S, "resourceIdentity")
    BY DEF CloseAnchor
  <2> WITNESS (~broken /\ version[s] = anchor[s]) \in BOOLEAN
  <2> QED  BY <2>1
<1> HIDE DEF S
<1>2. /\ DOMAIN tex' = Textures
      /\ \A t \in Textures :
           /\ TextureShape(tex'[t]) /\ tex'[t].residue = {} /\ tex'[t].pub = <<>>
           /\ tex'[t].decoded = tex[t].decoded /\ tex'[t].pixels = tex[t].pixels
           /\ tex'[t].seen = tex[t].seen /\ tex'[t].status \in {"pending", "failed"}
  BY <1>0, <1>1, EarlyFail
<1>3. /\ anchor' \in [Sidecars -> Int] /\ anchor'[s] = NotHeld
      /\ \A x \in Sidecars : x # s => anchor'[x] = anchor[x]
  BY <1>0 DEF TTyped, NotHeld
<1>4. (intact' => intact /\ version[s] = anchor[s]) /\ intact' \in BOOLEAN
  BY <1>1 DEF TTyped
<1>5. TTyped'
  BY <1>0, <1>2, <1>3, <1>4 DEF TTyped
<1>6. Closing'
  BY <1>0, <1>4 DEF Closing
<1>7. Read'
  BY <1>0, <1>2, <1>4 DEF Read
<1>8. Viewed'
  <2>1. \A x \in Sidecars : anchor'[x] # NotHeld => anchor'[x] \in Nat /\ anchor'[x] <= version'[x]
    BY <1>0, <1>3 DEF Viewed
  <2>2. ASSUME NEW t \in Textures, tex'[t].pixels # NotHeld, SidecarOf[t] # Inline
        PROVE  \/ /\ tex'[t].pixels = anchor'[SidecarOf[t]]
                  /\ tex'[t].pixels <= tex'[t].seen[2] /\ tex'[t].seen[2] <= version'[SidecarOf[t]]
               \/ /\ tpc'.at \notin Looping /\ anchor'[SidecarOf[t]] = NotHeld
                  /\ intact' => tex'[t].seen[2] = tex'[t].pixels
    <3>0. SidecarOf[t] \in Sidecars /\ tex[t].pixels # NotHeld
      BY <1>2, <2>2, Constants
    <3>1. CASE SidecarOf[t] # s
      BY <1>0, <1>2, <1>3, <1>4, <2>2, <3>0, <3>1 DEF Viewed
    <3>2. CASE SidecarOf[t] = s
      <4>1. tex[t].pixels = anchor[s] /\ tex[t].pixels <= tex[t].seen[2] /\ tex[t].seen[2] <= version[s]
        BY <1>0, <2>2, <3>0, <3>2 DEF Viewed
      <4>2. tex[t].pixels \in Nat /\ tex[t].seen[2] \in Nat /\ version[s] \in Nat
        BY <3>0 DEF Read, TTyped
      <4>3. intact' => tex[t].seen[2] = tex[t].pixels
        BY <1>4, <4>1, <4>2
      <4> QED  BY <1>0, <1>2, <1>3, <3>2, <4>3
    <3> QED  BY <3>1, <3>2
  <2>3. tpc'.at \notin Committing
    BY <1>0
  <2> QED  BY <1>2, <2>1, <2>2, <2>3 DEF Viewed
<1>9. Committed'
  BY <1>0, <1>2 DEF Committed, Committing
<1>10. TexPublished'
  BY <1>0, <1>2, NothingYet DEF Published
<1> QED  BY <1>5, <1>6, <1>7, <1>8, <1>9, <1>10

(* The end of the transaction: when it is spoilt every record fails before *)
(* the commit.                                                             *)
LEMMA EndKeeps == ASSUME TexInv, EndTransaction PROVE TexInv'
<1> USE DEF TexInv
<1> DEFINE S == {t \in Textures : tex[t].status = "pending" /\ Uncommittable(t)}
<1>0. /\ tpc.at = "anchors" /\ tpc.at \notin Looping /\ tpc.at \notin Committing
      /\ UNCHANGED <<version, snap, anchor, intact, disk, wrote>>
      /\ \A s \in Sidecars : anchor[s] = NotHeld
      /\ tpc' = [at |-> "commit", n |-> 1]
      /\ tex' = IF FALSE THEN tex ELSE RecordFail(tex, S, "transaction")
  BY DEF EndTransaction, Looping, Committing
<1>1. \A t \in Textures : t \notin S /\ tex[t].status # "failed" => intact /\ tex[t].pixels # NotHeld
  BY <1>0 DEF Uncommittable, Committed
<1> HIDE DEF S
<1>2. /\ DOMAIN tex' = Textures
      /\ \A t \in Textures :
           /\ TextureShape(tex'[t]) /\ tex'[t].residue = {} /\ tex'[t].pub = <<>>
           /\ tex'[t].decoded = tex[t].decoded /\ tex'[t].pixels = tex[t].pixels
           /\ tex'[t].seen = tex[t].seen /\ tex'[t].status \in {"pending", "failed"}
           /\ t \in S => tex'[t].status = "failed"
           /\ tex[t].status = "failed" => tex'[t].status = "failed"
  <2>1. FALSE \in BOOLEAN
    OBVIOUS
  <2>2. \A t \in Textures : tex[t].status = "failed" => tex'[t] = tex[t]
    BY <1>0, Failing DEF TTyped
  <2> QED  BY <1>0, <2>1, <2>2, EarlyFail
<1>3. tpc'.at = "commit" /\ tpc'.n = 1 /\ tpc'.at \notin Looping /\ tpc'.at \in Committing
  BY <1>0 DEF Looping, Committing
<1>4. TTyped'
  BY <1>0, <1>2, <1>3 DEF TTyped
<1>5. Closing'
  BY <1>0, <1>3 DEF Closing
<1>6. Read'
  BY <1>0, <1>2 DEF Read
<1>7. Viewed'
  BY <1>0, <1>2, <1>3 DEF Viewed
<1>8. Committed'
  <2>1. \A t \in Textures : ~(t < 1)
    BY Constants
  <2> QED  BY <1>0, <1>1, <1>2, <1>3, <2>1 DEF Committed
<1>9. TexPublished'
  BY <1>2, <1>3, NothingYet DEF Published
<1> QED  BY <1>4, <1>5, <1>6, <1>7, <1>8, <1>9

(* A step of the commit that leaves the inputs and what was read of them.  *)
LEMMA CommitFrame ==
    ASSUME TexInv, tpc.at \in Committing, tpc'.at \in Committing,
           UNCHANGED <<version, snap, anchor, intact>>,
           tpc' = [at |-> tpc'.at, n |-> tpc'.n], tpc'.n \in Nat \ {0},
           DOMAIN tex' = Textures,
           \A t \in Textures :
             /\ TextureShape(tex'[t])
             /\ tex'[t].status \in {"pending", "failed"} \cup Published
             /\ tex'[t].decoded = tex[t].decoded /\ tex'[t].pixels = tex[t].pixels
             /\ tex'[t].seen = tex[t].seen
    PROVE TTyped' /\ Closing' /\ Read' /\ Viewed'
<1> USE DEF TexInv
<1>0. tpc.at \notin Looping /\ tpc'.at \notin Looping
  BY DEF Committing, Looping
<1>1. TTyped'
  BY DEF TTyped
<1>2. Closing'
  BY <1>0 DEF Closing
<1>3. Read'
  BY DEF Read
<1>4. Viewed'
  BY <1>0 DEF Viewed
<1> QED  BY <1>1, <1>2, <1>3, <1>4

(* commit_record up to its first file.                                     *)
LEMMA BeginKeeps ==
    ASSUME TexInv, DiskTrue, TexAccounted, BeginTexture, UNCHANGED tampered
    PROVE TexInv' /\ DiskTrue' /\ TexAccounted'
<1> USE DEF TexInv
<1> DEFINE n == tpc.n
           found == [i \in DOMAIN TextureOrder |->
                       Preflight(disk, TexturePath(n, TextureOrder[i]), TextureBytes(n))]
<1>0. /\ tpc.at = "commit" /\ tpc.at \in Committing /\ n \in Textures /\ n \in Nat \ {0}
      /\ UNCHANGED <<version, snap, anchor, intact, disk, wrote>>
      /\ tpc = [at |-> "commit", n |-> n] /\ TextureShape(tex[n])
  BY TextureAssumption DEF BeginTexture, TTyped, Committing
<1>1. tex[n].pub = <<>> /\ tex[n].residue = {} /\ tex[n].status \in {"pending", "failed"}
  BY <1>0 DEF Committed
<1>2. \/ tex[n].status # "pending" /\ tpc' = [at |-> "commit", n |-> n + 1] /\ tex' = tex
      \/ tpc' = [at |-> "commit", n |-> n + 1] /\ tex' = RecordFail(tex, {n}, "notPublished")
      \/ /\ tpc' = [at |-> "publish", n |-> n] /\ tex' = [tex EXCEPT ![n].pre = found]
         /\ tex[n].status = "pending"
  BY <1>0 DEF BeginTexture
<1> HIDE DEF found, n
(* The records but for the one at hand.                                    *)
<1>3. /\ DOMAIN tex' = Textures
      /\ \A t \in Textures :
           /\ TextureShape(tex'[t])
           /\ t # n => tex'[t] = tex[t]
           /\ tex'[t].status \in {tex[t].status, "failed"}
           /\ tex'[t].decoded = tex[t].decoded /\ tex'[t].pixels = tex[t].pixels
           /\ tex'[t].seen = tex[t].seen /\ tex'[t].pub = tex[t].pub /\ tex'[t].residue = tex[t].residue
  <2>1. CASE tex' = tex
    BY <2>1 DEF TTyped
  <2>2. CASE tex' = RecordFail(tex, {n}, "notPublished")
    <3>1. DOMAIN tex' = Textures
      BY <2>2, FailingDomain
    <3>2. \A t \in Textures : t # n => tex'[t] = tex[t]
      BY <2>2, Failing DEF TTyped
    <3>3. /\ TextureShape(tex'[n]) /\ tex'[n].residue = {} /\ tex'[n].pub = <<>>
          /\ tex'[n].decoded = tex[n].decoded /\ tex'[n].pixels = tex[n].pixels /\ tex'[n].seen = tex[n].seen
          /\ tex'[n].status = tex[n].status \/ tex'[n].status = "failed"
      BY <2>2, <1>0, <1>1, FailingEarly
    <3> QED  BY <1>1, <3>1, <3>2, <3>3 DEF TTyped
  <2>3. CASE tex' = [tex EXCEPT ![n].pre = found]
    <3>1. DOMAIN tex' = Textures /\ \A t \in Textures : t # n => tex'[t] = tex[t]
      BY <2>3 DEF TTyped
    <3>2. tex'[n] = [tex[n] EXCEPT !.pre = found]
      BY <1>0, <2>3 DEF TTyped
    <3>3. tex'[n] = [status |-> tex[n].status, failure |-> tex[n].failure, decoded |-> tex[n].decoded,
                     pixels |-> tex[n].pixels, pre |-> found, pub |-> tex[n].pub,
                     residue |-> tex[n].residue, seen |-> tex[n].seen]
      BY <1>0, <3>2 DEF TextureShape
    <3>4. /\ TextureShape(tex'[n]) /\ tex'[n].status = tex[n].status
          /\ tex'[n].decoded = tex[n].decoded /\ tex'[n].pixels = tex[n].pixels
          /\ tex'[n].seen = tex[n].seen /\ tex'[n].pub = tex[n].pub /\ tex'[n].residue = tex[n].residue
      BY <3>3 DEF TextureShape
    <3> QED  BY <3>1, <3>4 DEF TTyped
  <2> QED  BY <1>2, <2>1, <2>2, <2>3
<1>4. /\ tpc' = [at |-> tpc'.at, n |-> tpc'.n] /\ tpc'.n \in Nat \ {0} /\ tpc'.at \in Committing
      /\ \/ tpc'.at = "commit" /\ tpc'.n = n + 1 /\ tex'[n].status # "pending"
         \/ tpc'.at = "publish" /\ tpc'.n = n /\ tex'[n].status = "pending" /\ tex' = [tex EXCEPT ![n].pre = found]
  <2>1. CASE tex[n].status # "pending" /\ tpc' = [at |-> "commit", n |-> n + 1] /\ tex' = tex
    BY <1>0, <2>1 DEF Committing
  <2>2. CASE tpc' = [at |-> "commit", n |-> n + 1] /\ tex' = RecordFail(tex, {n}, "notPublished")
    <3>1. tex'[n].status = "failed"
      BY <1>0, <1>1, <2>2, FailingEarly
    <3> QED  BY <1>0, <2>2, <3>1 DEF Committing
  <2>3. CASE /\ tpc' = [at |-> "publish", n |-> n] /\ tex' = [tex EXCEPT ![n].pre = found]
             /\ tex[n].status = "pending"
    <3>1. tex'[n].status = "pending"
      BY <1>0, <2>3 DEF TTyped, TextureShape
    <3> QED  BY <1>0, <2>3, <3>1 DEF Committing
  <2> QED  BY <1>2, <2>1, <2>2, <2>3
<1>5. TTyped' /\ Closing' /\ Read' /\ Viewed'
  BY <1>0, <1>3, <1>4, CommitFrame DEF TTyped
<1>6. Committed'
  <2>1. ASSUME NEW t \in Textures
        PROVE  /\ t < tpc'.n => tex'[t].status # "pending"
               /\ t > tpc'.n \/ (t = tpc'.n /\ tpc'.at = "commit") =>
                    tex'[t].pub = <<>> /\ tex'[t].residue = {} /\ tex'[t].status \in {"pending", "failed"}
    <3>1. t \in Nat /\ n = tpc.n
      BY Constants DEF n
    <3>2. CASE t < n
      BY <1>0, <1>3, <1>4, <3>1, <3>2 DEF Committed
    <3>3. CASE t = n
      BY <1>0, <1>1, <1>3, <1>4, <3>1, <3>3
    <3>4. CASE t > n
      <4>1. tex[t].pub = <<>> /\ tex[t].residue = {} /\ tex[t].status \in {"pending", "failed"}
        BY <3>1, <3>4 DEF Committed
      <4> QED  BY <1>0, <1>3, <1>4, <3>1, <3>4, <4>1
    <3> QED  BY <1>0, <3>1, <3>2, <3>3, <3>4
  <2> QED  BY <1>0, <1>3, <1>4, <2>1 DEF Committed
<1>7. TexPublished'
  <2>1. \A t \in Textures, i \in 1..2 : TexFile(t, i)' = TexFile(t, i)
    BY <1>3 DEF TexFile
  <2>2. tpc'.at = "publish" => /\ DOMAIN tex'[n].pre = 1..2
                               /\ \A i \in 1..2 : tex'[n].pre[i] # "missing" => TexFile(n, i) \in DOMAIN disk
    <3> SUFFICES ASSUME tpc'.at = "publish"
                 PROVE  /\ DOMAIN tex'[n].pre = 1..2
                        /\ \A i \in 1..2 : tex'[n].pre[i] # "missing" => TexFile(n, i) \in DOMAIN disk
      OBVIOUS
    <3>1. tex'[n].pre = found
      <4>1. tex' = [tex EXCEPT ![n].pre = found]
        BY <1>4
      <4> QED  BY <4>1, <1>0 DEF TTyped, TextureShape
    <3>2. DOMAIN TextureOrder = 1..2
      BY DEF TextureOrder, TextureParts
    <3>3. DOMAIN found = 1..2 /\ \A i \in 1..2 :
            found[i] = Preflight(disk, TexFile(n, i), TextureBytes(n))
      BY <3>2 DEF found, TexFile, TexturePath, n
    <3>4. \A i \in 1..2 : found[i] # "missing" => TexFile(n, i) \in DOMAIN disk
      BY <3>3 DEF Preflight, At
    <3> QED  BY <3>1, <3>3, <3>4
  <2>3. ASSUME NEW t \in Textures
        PROVE  /\ tex'[t].pub \in Seq(Published) /\ Len(tex'[t].pub) <= 2
               /\ DOMAIN tex'[t].pub \subseteq 1..2
               /\ \A i \in DOMAIN tex'[t].pub : TexFile(t, i) \in DOMAIN disk
               /\ tex'[t].status \in Published => Len(tex'[t].pub) = 2
    <3>1. tex'[t].pub = tex[t].pub
      BY <1>3
    <3>2. /\ tex[t].pub \in Seq(Published) /\ Len(tex[t].pub) <= 2
          /\ \A i \in DOMAIN tex[t].pub : TexFile(t, i) \in DOMAIN disk
          /\ tex[t].status \in Published => Len(tex[t].pub) = 2
      BY DEF TexPublished
    <3>3. DOMAIN tex[t].pub \subseteq 1..2
      BY <3>2
    <3>4. tex'[t].status \in Published => tex[t].status \in Published
      BY <1>3 DEF Published
    <3> QED  BY <3>1, <3>2, <3>3, <3>4
  <2>4. tex'[n].residue = {} /\ Len(tex'[n].pub) < 2
    <3>1. tex'[n].pub = <<>>
      BY <1>0, <1>1, <1>3
    <3>2. Len(tex'[n].pub) = 0
      BY <3>1, EmptySequence
    <3> QED  BY <1>0, <1>1, <1>3, <3>2
  <2> QED  BY <1>0, <1>4, <2>1, <2>2, <2>3, <2>4 DEF TexPublished
<1>8. DiskTrue'
  BY <1>0, <1>3, <1>4 DEF DiskTrue, TexFile
<1>9. TexAccounted'
  <2>1. \A t \in Textures, i \in 1..2 : TexFile(t, i)' = TexFile(t, i)
    BY <1>3 DEF TexFile
  <2>2. \A t \in Textures : \A i \in DOMAIN tex[t].pub : t # n
    BY <1>1
  <2> QED  BY <1>0, <1>3, <2>1, <2>2 DEF TexAccounted
<1> QED  BY <1>5, <1>6, <1>7, <1>8, <1>9

(* What publishing a file can do to the output directory.                  *)
LEMMA Publishing ==
    ASSUME NEW d, d = [g \in DOMAIN d |-> d[g]], \A g \in DOMAIN d : d[g] # Missing,
           NEW f, NEW bytes, bytes # Missing, NEW before,
           NEW out \in {PublishExact(d, f, bytes)} \cup PublishFails(d, f, bytes)
    PROVE /\ out.is \in Published \cup {"collision", "ioError"}
          /\ out.now = [g \in DOMAIN out.now |-> out.now[g]]
          /\ DOMAIN d \subseteq DOMAIN out.now /\ DOMAIN out.now \subseteq DOMAIN d \cup {f}
          /\ \A g \in DOMAIN d : out.now[g] = d[g]
          /\ \A g \in DOMAIN out.now : out.now[g] # Missing
          /\ out.is \in Published => f \in DOMAIN out.now
          /\ f \in DOMAIN out.now \ DOMAIN d =>
               \/ out.is = "emitted"
               \/ out.is = "ioError" /\ (before = "missing" => ResiduePossible(before, out, f, bytes))
<1>1. (At(d, f) = Missing) <=> f \notin DOMAIN d
  BY DEF At
<1> DEFINE e == Put(d, f, bytes)
<1>2. /\ e = [g \in DOMAIN e |-> e[g]] /\ DOMAIN e = DOMAIN d \cup {f} /\ e[f] = bytes
      /\ \A g \in DOMAIN d : g # f => e[g] = d[g]
  BY DEF Put
<1> HIDE DEF e
<1>3. At(e, f) = bytes
  BY <1>2 DEF At
<1>4. CASE f \notin DOMAIN d
  <2>1. out = [is |-> "emitted", now |-> e] \/ out = [is |-> "ioError", now |-> d]
          \/ out = [is |-> "ioError", now |-> e]
    BY <1>1, <1>4 DEF PublishExact, PublishFails, e
  <2>2. CASE out = [is |-> "emitted", now |-> e]
    BY <1>2, <1>4, <2>2 DEF Published
  <2>3. CASE out = [is |-> "ioError", now |-> d]
    BY <1>4, <2>3 DEF Published
  <2>4. CASE out = [is |-> "ioError", now |-> e]
    BY <1>2, <1>3, <1>4, <2>4 DEF Published, ResiduePossible
  <2> QED  BY <2>1, <2>2, <2>3, <2>4
<1>5. CASE f \in DOMAIN d
  <2>1. out.now = d /\ out.is \in {"unchanged", "collision", "ioError"}
    BY <1>1, <1>5 DEF PublishExact, PublishFails
  <2> QED  BY <1>5, <2>1 DEF Published
<1> QED  BY <1>4, <1>5

(* One more part is published.                                             *)
LEMMA MorePublished ==
    ASSUME NEW S, NEW x \in Seq(S), NEW y \in S
    PROVE /\ Append(x, y) \in Seq(S) /\ Len(Append(x, y)) = Len(x) + 1 /\ Append(x, y) # <<>>
          /\ DOMAIN Append(x, y) = DOMAIN x \cup {Len(x) + 1}
          /\ Append(x, y)[Len(x) + 1] = y /\ Len(x) \in Nat
          /\ \A i \in DOMAIN x : Append(x, y)[i] = x[i] /\ i \in Nat /\ i <= Len(x)
  BY AppendProperties

(* Records with some fields replaced.                                      *)
LEMMA Updated ==
    ASSUME NEW x, TextureShape(x), NEW pub, NEW status, NEW R
    PROVE /\ [x EXCEPT !.pub = pub, !.status = status] =
                [status |-> status, failure |-> x.failure, decoded |-> x.decoded, pixels |-> x.pixels,
                 pre |-> x.pre, pub |-> pub, residue |-> x.residue, seen |-> x.seen]
          /\ [x EXCEPT !.residue = @ \cup R] =
                [status |-> x.status, failure |-> x.failure, decoded |-> x.decoded, pixels |-> x.pixels,
                 pre |-> x.pre, pub |-> x.pub, residue |-> x.residue \cup R, seen |-> x.seen]
<1> DEFINE y == [x EXCEPT !.pub = pub, !.status = status]
<1>0. y = [x EXCEPT !.pub = pub, !.status = status]
  OBVIOUS
<1> HIDE DEF y
<1>1. y = [status |-> status, failure |-> x.failure, decoded |-> x.decoded, pixels |-> x.pixels,
           pre |-> x.pre, pub |-> pub, residue |-> x.residue, seen |-> x.seen]
  BY <1>0 DEF TextureShape
<1> DEFINE r == x.residue \cup R
<1>2. [x EXCEPT !.residue = @ \cup R] = [x EXCEPT !.residue = r]
  BY DEF TextureShape
<1> HIDE DEF r
<1>3. [x EXCEPT !.residue = r] =
                [status |-> x.status, failure |-> x.failure, decoded |-> x.decoded, pixels |-> x.pixels,
                 pre |-> x.pre, pub |-> x.pub, residue |-> r, seen |-> x.seen]
  BY DEF TextureShape
<1> QED  BY <1>0, <1>1, <1>2, <1>3 DEF r

(* One file of a texture is published; a failure leaves its name in the    *)
(* residue when the file was missing at the examination.                   *)
LEMMA PublishKeeps ==
    ASSUME TexInv, DiskTrue, TexAccounted, PublishTexture, UNCHANGED tampered
    PROVE /\ TexInv' /\ DiskTrue' /\ TexAccounted'
          /\ \A g \in wrote' : g \in wrote \/ g[1] # "material"
<1> USE DEF TexInv
<1> DEFINE n == tpc.n
           x == tex[n]
           k == Len(x.pub) + 1
           f == TexFile(n, k)
           bytes == TextureBytes(n)
<1>0. /\ tpc.at = "publish" /\ tpc.at \in Committing /\ n \in Nat \ {0}
      /\ UNCHANGED <<version, snap, anchor, intact>> /\ tpc = [at |-> "publish", n |-> n]
  BY DEF PublishTexture, TTyped, Committing
<1>1. /\ n \in Textures /\ TextureShape(x) /\ x.status = "pending" /\ x.residue = {}
      /\ x.pub \in Seq(Published) /\ Len(x.pub) < 2 /\ Len(x.pub) \in Nat /\ k \in {1, 2}
      /\ DOMAIN x.pre = 1..2 /\ DOMAIN x.pub \subseteq 1..2 /\ (k = 2 <=> 1 \in DOMAIN x.pub)
      /\ \A i \in 1..2 : x.pre[i] # "missing" => TexFile(n, i) \in DOMAIN disk
      /\ \A i \in DOMAIN x.pub : TexFile(n, i) \in DOMAIN disk
  <2>1. n \in Textures
    BY <1>0 DEF Committed
  <2>2. TextureShape(x) /\ x.status = "pending"
    BY <1>0, <2>1 DEF Committed, TTyped
  <2>3. /\ x.residue = {} /\ x.pub \in Seq(Published) /\ Len(x.pub) < 2 /\ DOMAIN x.pre = 1..2
        /\ \A i \in 1..2 : x.pre[i] # "missing" => TexFile(n, i) \in DOMAIN disk
        /\ \A i \in DOMAIN x.pub : TexFile(n, i) \in DOMAIN disk
    BY <1>0, <2>1 DEF TexPublished
  <2>4. Len(x.pub) \in Nat /\ DOMAIN x.pub = 1..Len(x.pub)
    BY <2>3
  <2> DEFINE l == Len(x.pub)
  <2>6. l \in Nat /\ l < 2
    BY <2>3, <2>4
  <2> HIDE DEF x, l
  <2>7. l = 0 \/ l = 1
    BY <2>6
  <2>5. Len(x.pub) = 0 \/ Len(x.pub) = 1
    BY <2>7 DEF l
  <2> QED  BY <2>1, <2>2, <2>3, <2>4, <2>5
<1>2. PICK out \in {PublishExact(disk, f, bytes)} \cup PublishFails(disk, f, bytes) :
        /\ disk' = out.now
        /\ wrote' = wrote \cup (DOMAIN disk' \ DOMAIN disk)
        /\ IF out.is \in Published
           THEN /\ tex' = [tex EXCEPT ![n].pub = Append(@, out.is),
                                      ![n].status = IF k < 2 THEN @
                                         ELSE IF "emitted" \in {out.is, tex[n].pub[1]}
                                         THEN "emitted" ELSE "unchanged"]
                /\ tpc' = IF k < 2 THEN tpc ELSE [at |-> "commit", n |-> n + 1]
           ELSE /\ tex' = [RecordFail(tex, {n}, "notPublished") EXCEPT ![n].residue =
                             @ \cup (IF ResiduePossible(tex[n].pre[k], out, f, bytes)
                                     THEN {f} ELSE {})]
                /\ tpc' = [at |-> "commit", n |-> n + 1]
  <2>1. f = TexturePath(n, TextureOrder[k])
    BY DEF TexFile, TexturePath
  <2> HIDE DEF f
  <2> QED  BY <2>1 DEF PublishTexture
<1>3. /\ out.is \in Published \cup {"collision", "ioError"}
      /\ disk' = [g \in DOMAIN disk' |-> disk'[g]]
      /\ DOMAIN disk \subseteq DOMAIN disk' /\ DOMAIN disk' \subseteq DOMAIN disk \cup {f}
      /\ \A g \in DOMAIN disk : disk'[g] = disk[g]
      /\ \A g \in DOMAIN disk' : disk'[g] # Missing
      /\ out.is \in Published => f \in DOMAIN disk'
      /\ f \in DOMAIN disk' \ DOMAIN disk =>
           \/ out.is = "emitted"
           \/ out.is = "ioError" /\ (x.pre[k] = "missing" => ResiduePossible(x.pre[k], out, f, bytes))
  <2>1. bytes # Missing
    BY DEF TextureBytes, Missing
  <2> HIDE DEF f, bytes, k, x
  <2>2. out \in {PublishExact(disk, f, bytes)} \cup PublishFails(disk, f, bytes) /\ disk' = out.now
    BY <1>2
  <2>3. disk = [g \in DOMAIN disk |-> disk[g]] /\ \A g \in DOMAIN disk : disk[g] # Missing
    BY DEF DiskTrue
  <2>4. /\ out.is \in Published \cup {"collision", "ioError"}
        /\ out.now = [g \in DOMAIN out.now |-> out.now[g]]
        /\ DOMAIN disk \subseteq DOMAIN out.now /\ DOMAIN out.now \subseteq DOMAIN disk \cup {f}
        /\ \A g \in DOMAIN disk : out.now[g] = disk[g]
        /\ \A g \in DOMAIN out.now : out.now[g] # Missing
        /\ out.is \in Published => f \in DOMAIN out.now
        /\ f \in DOMAIN out.now \ DOMAIN disk =>
             \/ out.is = "emitted"
             \/ out.is = "ioError" /\ (x.pre[k] = "missing" => ResiduePossible(x.pre[k], out, f, bytes))
    BY <2>1, <2>2, <2>3, Publishing
  <2> QED  BY <2>2, <2>4
<1> DEFINE R == IF ResiduePossible(x.pre[k], out, f, bytes) THEN {f} ELSE {}
<1> HIDE DEF bytes
(* The record at hand, and the others.                                     *)
<1>4. ASSUME out.is \in Published
      PROVE  TexInv' /\ DiskTrue' /\ TexAccounted'
  <2> DEFINE st == IF k < 2 THEN x.status
                   ELSE IF "emitted" \in {out.is, x.pub[1]} THEN "emitted" ELSE "unchanged"
             pb == Append(x.pub, out.is)
  <2>1. /\ tex' = [tex EXCEPT ![n] = [x EXCEPT !.pub = pb, !.status = st]]
        /\ tpc' = IF k < 2 THEN tpc ELSE [at |-> "commit", n |-> n + 1]
    <3>1. tex' = [tex EXCEPT ![n].pub = Append(@, out.is),
                             ![n].status = IF k < 2 THEN @
                                         ELSE IF "emitted" \in {out.is, tex[n].pub[1]}
                                         THEN "emitted" ELSE "unchanged"]
      BY <1>2, <1>4
    <3> QED  BY <1>1, <1>2, <1>4, <3>1 DEF TTyped
  <2>2. /\ pb \in Seq(Published) /\ Len(pb) = k /\ pb # <<>>
        /\ DOMAIN pb = DOMAIN x.pub \cup {k} /\ pb[k] = out.is
        /\ \A i \in DOMAIN x.pub : pb[i] = x.pub[i]
    <3>1. x.pub \in Seq(Published)
      BY <1>1
    <3> HIDE DEF x
    <3> QED  BY <1>4, <3>1, MorePublished
  <2>3. st \in {"pending"} \cup Published /\ (k < 2 <=> st = "pending")
    BY <1>1 DEF Published
  <2> HIDE DEF st, pb, k, x, f, n, R
  <2>4. [x EXCEPT !.pub = pb, !.status = st] =
          [status |-> st, failure |-> x.failure, decoded |-> x.decoded, pixels |-> x.pixels,
           pre |-> x.pre, pub |-> pb, residue |-> x.residue, seen |-> x.seen]
    BY <1>1, Updated
  <2>5. /\ DOMAIN tex' = Textures /\ \A t \in Textures : t # n => tex'[t] = tex[t]
        /\ tex'[n] = [status |-> st, failure |-> x.failure, decoded |-> x.decoded, pixels |-> x.pixels,
                      pre |-> x.pre, pub |-> pb, residue |-> x.residue, seen |-> x.seen]
    BY <1>1, <2>1, <2>4 DEF TTyped
  <2>6. /\ TextureShape(tex'[n]) /\ tex'[n].status = st /\ tex'[n].pub = pb /\ tex'[n].residue = {}
        /\ tex'[n].decoded = x.decoded /\ tex'[n].pixels = x.pixels /\ tex'[n].seen = x.seen
        /\ tex'[n].pre = x.pre
    BY <1>1, <2>5 DEF TextureShape
  <2>7. /\ tpc' = [at |-> tpc'.at, n |-> tpc'.n] /\ tpc'.n \in Nat \ {0} /\ tpc'.at \in Committing
        /\ \/ k < 2 /\ tpc'.at = "publish" /\ tpc'.n = n /\ tpc' = tpc /\ st = "pending"
           \/ k = 2 /\ tpc'.at = "commit" /\ tpc'.n = n + 1 /\ st \in Published
    <3>1. CASE k < 2
      BY <1>0, <2>1, <2>3, <3>1
    <3>2. CASE ~(k < 2)
      <4>1. tpc' = [at |-> "commit", n |-> n + 1]
        BY <2>1, <3>2
      <4> QED  BY <1>0, <1>1, <2>3, <3>2, <4>1 DEF Committing
    <3> QED  BY <3>1, <3>2
  <2>8. TTyped' /\ Closing' /\ Read' /\ Viewed'
    <3>1. \A t \in Textures :
            /\ TextureShape(tex'[t])
            /\ tex'[t].status \in {"pending", "failed"} \cup Published
            /\ tex'[t].decoded = tex[t].decoded /\ tex'[t].pixels = tex[t].pixels
            /\ tex'[t].seen = tex[t].seen
      BY <2>3, <2>5, <2>6 DEF TTyped, x
    <3> QED  BY <1>0, <2>5, <2>7, <3>1, CommitFrame
  <2>9. Committed'
    <3>0. intact /\ x.pixels # NotHeld
      BY <1>0, <1>1 DEF Committed, x
    <3>1. ASSUME NEW t \in Textures
          PROVE  /\ tex'[t].status # "failed" => intact' /\ tex'[t].pixels # NotHeld
                 /\ t < tpc'.n => tex'[t].status # "pending"
                 /\ t > tpc'.n \/ (t = tpc'.n /\ tpc'.at = "commit") =>
                      tex'[t].pub = <<>> /\ tex'[t].residue = {} /\ tex'[t].status \in {"pending", "failed"}
      <4>1. t \in Nat /\ n = tpc.n
        BY Constants DEF n
      <4>2. CASE t < n
        BY <1>0, <2>5, <2>7, <4>1, <4>2 DEF Committed
      <4>3. CASE t = n
        BY <1>0, <2>6, <2>7, <3>0, <4>1, <4>3 DEF Published
      <4>4. CASE t > n
        <5>1. tex[t].pub = <<>> /\ tex[t].residue = {} /\ tex[t].status \in {"pending", "failed"}
          BY <4>1, <4>4 DEF Committed
        <5>2. tex[t].status # "failed" => intact /\ tex[t].pixels # NotHeld
          BY <1>0 DEF Committed
        <5> QED  BY <1>0, <2>5, <2>7, <4>1, <4>4, <5>1, <5>2
      <4> QED  BY <1>0, <4>1, <4>2, <4>3, <4>4
    <3>2. tpc'.at = "publish" => tpc'.n \in Textures /\ tex'[tpc'.n].status = "pending"
      BY <1>1, <2>6, <2>7
    <3> QED  BY <1>0, <2>7, <3>0, <3>1, <3>2 DEF Committed
  <2>10. \A t \in Textures, i \in 1..2 : TexFile(t, i)' = TexFile(t, i)
    BY <2>5, <2>6 DEF TexFile, x
  <2>11. TexPublished'
    <3>1. ASSUME NEW t \in Textures
          PROVE  /\ tex'[t].pub \in Seq(Published) /\ Len(tex'[t].pub) <= 2
                 /\ DOMAIN tex'[t].pub \subseteq 1..2
                 /\ \A i \in DOMAIN tex'[t].pub : TexFile(t, i) \in DOMAIN disk'
                 /\ tex'[t].status \in Published => Len(tex'[t].pub) = 2
      <4>1. CASE t = n
        <5>1. \A i \in DOMAIN pb : i \in 1..2 /\ TexFile(n, i) \in DOMAIN disk'
          BY <1>1, <1>3, <1>4, <2>2 DEF f
        <5>2. k <= 2 /\ (st \in Published => k = 2)
          BY <1>1, <2>7 DEF Published
        <5> QED  BY <2>2, <2>6, <4>1, <5>1, <5>2
      <4>2. CASE t # n
        <5>1. /\ tex[t].pub \in Seq(Published) /\ Len(tex[t].pub) <= 2
              /\ \A i \in DOMAIN tex[t].pub : TexFile(t, i) \in DOMAIN disk
              /\ tex[t].status \in Published => Len(tex[t].pub) = 2
          BY DEF TexPublished
        <5>2. DOMAIN tex[t].pub \subseteq 1..2
          BY <5>1
        <5> QED  BY <1>3, <2>5, <4>2, <5>1, <5>2
      <4> QED  BY <4>1, <4>2
    <3>2. tpc'.at = "publish" =>
             /\ Len(tex'[n].pub) < 2 /\ tex'[n].residue = {} /\ DOMAIN tex'[n].pre = 1..2
             /\ \A i \in 1..2 : tex'[n].pre[i] # "missing" => TexFile(n, i) \in DOMAIN disk'
      BY <1>1, <1>3, <2>2, <2>6, <2>7
    <3> QED  BY <2>7, <2>10, <3>1, <3>2 DEF TexPublished
  <2>12. DiskTrue'
    <3>1. \A g \in DOMAIN disk' : g[1] = "texture" => \E t \in Textures, i \in 1..2 : g = TexFile(t, i)'
      <4>1. \A g \in DOMAIN disk : g[1] = "texture" => \E t \in Textures, i \in 1..2 : g = TexFile(t, i)'
        BY <2>10 DEF DiskTrue
      <4>2. \E t \in Textures, i \in 1..2 : f = TexFile(t, i)'
        BY <1>1, <2>10 DEF f
      <4> QED  BY <1>1, <1>3, <4>1, <4>2
    <3>2. wrote' \subseteq DOMAIN disk'
      BY <1>2, <1>3 DEF DiskTrue
    <3> QED  BY <1>3, <2>7, <3>1, <3>2 DEF DiskTrue
  <2>13. TexAccounted'
    <3> SUFFICES ASSUME NEW g \in wrote', g[1] = "texture"
                 PROVE \E t \in Textures, i \in 1..2 :
                         /\ g = TexFile(t, i)
                         /\ i = 2 => TexFile(t, 1) \in DOMAIN disk'
                         /\ \/ g \in tex'[t].residue
                            \/ i \in DOMAIN tex'[t].pub /\ tex'[t].pub[i] = "emitted" /\ tex'[t].status # "failed"
      BY <2>10 DEF TexAccounted
    <3>1. CASE g \in wrote
      <4>1. PICK t \in Textures, i \in 1..2 :
              /\ g = TexFile(t, i)
              /\ i = 2 => TexFile(t, 1) \in DOMAIN disk
              /\ \/ g \in tex[t].residue
                 \/ i \in DOMAIN tex[t].pub /\ tex[t].pub[i] = "emitted" /\ tex[t].status # "failed"
        BY <3>1 DEF TexAccounted
      <4>2. CASE t # n
        BY <1>3, <2>5, <4>1, <4>2
      <4>3. CASE t = n
        <5>1. i \in DOMAIN x.pub /\ x.pub[i] = "emitted"
          BY <1>1, <4>1, <4>3 DEF x
        <5>2. i \in DOMAIN tex'[n].pub /\ tex'[n].pub[i] = "emitted" /\ tex'[n].status # "failed"
          BY <2>2, <2>3, <2>6, <5>1 DEF Published
        <5> QED  BY <1>3, <4>1, <4>3, <5>2
      <4> QED  BY <4>2, <4>3
    <3>2. CASE g \notin wrote
      <4>1. g = f /\ f \in DOMAIN disk' \ DOMAIN disk
        BY <1>2, <1>3, <3>2
      <4>2. out.is = "emitted"
        BY <1>3, <1>4, <4>1 DEF Published
      <4>3. k \in DOMAIN tex'[n].pub /\ tex'[n].pub[k] = "emitted" /\ tex'[n].status # "failed"
        BY <2>2, <2>3, <2>6, <4>2 DEF Published
      <4>4. k = 2 => TexFile(n, 1) \in DOMAIN disk'
        BY <1>1, <1>3
      <4> QED  BY <1>1, <4>1, <4>3, <4>4 DEF f
    <3> QED  BY <3>1, <3>2
  <2> QED  BY <2>8, <2>9, <2>11, <2>12, <2>13
<1>5. ASSUME out.is \notin Published
      PROVE  TexInv' /\ DiskTrue' /\ TexAccounted'
  <2> DEFINE y == RecordFail(tex, {n}, "notPublished")[n]
             E == CreatedFiles(n, x.pub)
  <2>1. /\ TextureShape(y) /\ y.decoded = x.decoded /\ y.pixels = x.pixels /\ y.seen = x.seen
        /\ y.pre = x.pre /\ y.pub = x.pub /\ y.status = "failed"
        /\ y.residue = x.residue \cup E
    <3>1. n \in Textures /\ TextureShape(tex[n]) /\ tex[n].status # "failed" /\ n \in {n}
      BY <1>1
    <3> HIDE DEF n
    <3> QED  BY <3>1, Failing
  <2>2. /\ tex' = [RecordFail(tex, {n}, "notPublished") EXCEPT ![n] = [y EXCEPT !.residue = @ \cup R]]
        /\ tpc' = [at |-> "commit", n |-> n + 1]
    BY <1>2, <1>5
  <2>3. \A i \in DOMAIN x.pub : x.pub[i] = "emitted" => TexFile(n, i) \in E
    BY <1>1 DEF TexFile, TexturePath, TextureOrder, CreatedFiles
  <2> HIDE DEF y, E, k, x, f, n, R
  <2>4. [y EXCEPT !.residue = @ \cup R] =
          [status |-> "failed", failure |-> y.failure, decoded |-> x.decoded, pixels |-> x.pixels,
           pre |-> x.pre, pub |-> x.pub, residue |-> E \cup R, seen |-> x.seen]
    <3>1. TextureShape(y) /\ y.status = "failed" /\ y.residue = E
      BY <1>1, <2>1
    <3>2. [y EXCEPT !.residue = @ \cup R] =
            [status |-> y.status, failure |-> y.failure, decoded |-> y.decoded, pixels |-> y.pixels,
             pre |-> y.pre, pub |-> y.pub, residue |-> y.residue \cup R, seen |-> y.seen]
      BY <3>1, Updated
    <3> QED  BY <2>1, <3>1, <3>2
  <2>5. /\ DOMAIN tex' = Textures /\ \A t \in Textures : t # n => tex'[t] = tex[t]
        /\ tex'[n] = [status |-> "failed", failure |-> y.failure, decoded |-> x.decoded, pixels |-> x.pixels,
                      pre |-> x.pre, pub |-> x.pub, residue |-> E \cup R, seen |-> x.seen]
    <3>1. \A t \in Textures : t # n => RecordFail(tex, {n}, "notPublished")[t] = tex[t]
      BY Failing DEF TTyped
    <3>2. DOMAIN RecordFail(tex, {n}, "notPublished") = Textures
      BY FailingDomain
    <3> QED  BY <1>1, <2>2, <2>4, <3>1, <3>2
  <2>6. /\ TextureShape(tex'[n]) /\ tex'[n].status = "failed" /\ tex'[n].pub = x.pub
        /\ tex'[n].residue = E \cup R
        /\ tex'[n].decoded = x.decoded /\ tex'[n].pixels = x.pixels /\ tex'[n].seen = x.seen
    BY <2>5 DEF TextureShape
  <2>7. /\ tpc' = [at |-> tpc'.at, n |-> tpc'.n] /\ tpc'.n \in Nat \ {0} /\ tpc'.at \in Committing
        /\ tpc'.at = "commit" /\ tpc'.n = n + 1
    BY <1>0, <2>2 DEF Committing
  <2>8. TTyped' /\ Closing' /\ Read' /\ Viewed'
    <3>1. \A t \in Textures :
            /\ TextureShape(tex'[t])
            /\ tex'[t].status \in {"pending", "failed"} \cup Published
            /\ tex'[t].decoded = tex[t].decoded /\ tex'[t].pixels = tex[t].pixels
            /\ tex'[t].seen = tex[t].seen
      BY <2>5, <2>6 DEF TTyped, x
    <3> QED  BY <1>0, <2>5, <2>7, <3>1, CommitFrame
  <2>9. Committed'
    <3>0. intact
      BY <1>0, <1>1 DEF Committed, x
    <3>1. ASSUME NEW t \in Textures
          PROVE  /\ tex'[t].status # "failed" => intact' /\ tex'[t].pixels # NotHeld
                 /\ t < tpc'.n => tex'[t].status # "pending"
                 /\ t > tpc'.n \/ (t = tpc'.n /\ tpc'.at = "commit") =>
                      tex'[t].pub = <<>> /\ tex'[t].residue = {} /\ tex'[t].status \in {"pending", "failed"}
      <4>1. t \in Nat /\ n = tpc.n
        BY Constants DEF n
      <4>2. CASE t < n
        BY <1>0, <2>5, <2>7, <4>1, <4>2 DEF Committed
      <4>3. CASE t = n
        BY <1>0, <2>6, <2>7, <3>0, <4>1, <4>3 DEF Published
      <4>4. CASE t > n
        <5>1. tex[t].pub = <<>> /\ tex[t].residue = {} /\ tex[t].status \in {"pending", "failed"}
          BY <4>1, <4>4 DEF Committed
        <5>2. tex[t].status # "failed" => intact /\ tex[t].pixels # NotHeld
          BY <1>0 DEF Committed
        <5> QED  BY <1>0, <2>5, <2>7, <4>1, <4>4, <5>1, <5>2
      <4> QED  BY <1>0, <4>1, <4>2, <4>3, <4>4
    <3> QED  BY <1>0, <2>7, <3>0, <3>1 DEF Committed
  <2>10. \A t \in Textures, i \in 1..2 : TexFile(t, i)' = TexFile(t, i)
    BY <2>5, <2>6 DEF TexFile, x
  <2>11. TexPublished'
    <3>1. ASSUME NEW t \in Textures
          PROVE  /\ tex'[t].pub \in Seq(Published) /\ Len(tex'[t].pub) <= 2
                 /\ DOMAIN tex'[t].pub \subseteq 1..2
                 /\ \A i \in DOMAIN tex'[t].pub : TexFile(t, i) \in DOMAIN disk'
                 /\ tex'[t].status \in Published => Len(tex'[t].pub) = 2
      <4>1. /\ tex[t].pub \in Seq(Published) /\ Len(tex[t].pub) <= 2
            /\ \A i \in DOMAIN tex[t].pub : TexFile(t, i) \in DOMAIN disk
            /\ tex[t].status \in Published => Len(tex[t].pub) = 2
        BY DEF TexPublished
      <4>2. DOMAIN tex[t].pub \subseteq 1..2
        BY <4>1
      <4>3. tex'[t].pub = tex[t].pub /\ (tex'[t].status \in Published => tex[t].status \in Published)
        BY <2>5, <2>6 DEF x, Published
      <4> QED  BY <1>3, <4>1, <4>2, <4>3
    <3> QED  BY <2>7, <2>10, <3>1 DEF TexPublished
  <2>12. DiskTrue'
    <3>1. \A g \in DOMAIN disk' : g[1] = "texture" => \E t \in Textures, i \in 1..2 : g = TexFile(t, i)'
      <4>1. \A g \in DOMAIN disk : g[1] = "texture" => \E t \in Textures, i \in 1..2 : g = TexFile(t, i)'
        BY <2>10 DEF DiskTrue
      <4>2. \E t \in Textures, i \in 1..2 : f = TexFile(t, i)'
        BY <1>1, <2>10 DEF f
      <4> QED  BY <1>1, <1>3, <4>1, <4>2
    <3>2. wrote' \subseteq DOMAIN disk'
      BY <1>2, <1>3 DEF DiskTrue
    <3> QED  BY <1>3, <2>7, <3>1, <3>2 DEF DiskTrue
  <2>13. TexAccounted'
    <3> SUFFICES ASSUME NEW g \in wrote', g[1] = "texture"
                 PROVE \E t \in Textures, i \in 1..2 :
                         /\ g = TexFile(t, i)
                         /\ i = 2 => TexFile(t, 1) \in DOMAIN disk'
                         /\ \/ g \in tex'[t].residue
                            \/ i \in DOMAIN tex'[t].pub /\ tex'[t].pub[i] = "emitted" /\ tex'[t].status # "failed"
      BY <2>10 DEF TexAccounted
    <3>1. CASE g \in wrote
      <4>1. PICK t \in Textures, i \in 1..2 :
              /\ g = TexFile(t, i)
              /\ i = 2 => TexFile(t, 1) \in DOMAIN disk
              /\ \/ g \in tex[t].residue
                 \/ i \in DOMAIN tex[t].pub /\ tex[t].pub[i] = "emitted" /\ tex[t].status # "failed"
        BY <3>1 DEF TexAccounted
      <4>2. CASE t # n
        BY <1>3, <2>5, <4>1, <4>2
      <4>3. CASE t = n
        <5>1. i \in DOMAIN x.pub /\ x.pub[i] = "emitted"
          BY <1>1, <4>1, <4>3 DEF x
        <5>2. g \in tex'[n].residue
          BY <2>3, <2>6, <4>1, <4>3, <5>1
        <5> QED  BY <1>3, <4>1, <4>3, <5>2
      <4> QED  BY <4>2, <4>3
    <3>2. CASE g \notin wrote
      <4>1. g = f /\ f \in DOMAIN disk' \ DOMAIN disk
        BY <1>2, <1>3, <3>2
      <4>2. x.pre[k] = "missing"
        BY <1>1, <4>1 DEF f
      <4>3. f \in R
        BY <1>3, <1>5, <4>1, <4>2 DEF R, Published
      <4>4. k = 2 => TexFile(n, 1) \in DOMAIN disk'
        BY <1>1, <1>3
      <4> QED  BY <1>1, <2>6, <4>1, <4>3, <4>4 DEF f
    <3> QED  BY <3>1, <3>2
  <2> QED  BY <2>8, <2>9, <2>11, <2>12, <2>13
<1>6. \A g \in wrote' : g \in wrote \/ g[1] # "material"
  <2>1. \A g \in wrote' : g \in wrote \/ g = f
    BY <1>2, <1>3
  <2>2. f[1] # "material"
    BY DEF TexFile
  <2> QED  BY <2>1, <2>2
<1> QED  BY <1>4, <1>5, <1>6

-----------------------------------------------------------------------------
(* The constants of the material batch: materials and shaders are          *)
(* numbered, the .mat comes last.                                          *)
LEMMA MaterialConstants ==
    /\ \A m \in Materials : m \in Nat \ {0} /\ ShaderOf[m] \in Nat
    /\ Shaders \subseteq Nat \ {0} /\ Selected \subseteq Shaders
    /\ \A s \in Shaders, r \in Nat \ {0} : r <= s => r \in Shaders
    /\ MaterialOrder = <<"meta", "evidence", "mat">> /\ DOMAIN MaterialOrder = 1..3 /\ Len(MaterialOrder) = 3
    /\ NullSlot \notin Textures
<1>1. \A m \in Materials : m \in Nat \ {0} /\ ShaderOf[m] \in Nat
  BY MaterialAssumption
<1>2. /\ Shaders \subseteq Nat \ {0} /\ Selected \subseteq Shaders
      /\ \A s \in Shaders, r \in Nat \ {0} : r <= s => r \in Shaders
  BY MaterialAssumption
<1>3. MaterialOrder = <<"meta", "evidence", "mat">> /\ DOMAIN MaterialOrder = 1..3 /\ Len(MaterialOrder) = 3
  BY DEF MaterialOrder
<1>4. NullSlot \notin Textures
  BY Constants DEF NullSlot
<1> QED  BY <1>1, <1>2, <1>3, <1>4

(* Before the materials begin, only their absence matters.                 *)
LEMMA IdleFrame ==
    ASSUME MatInv, mpc.at = "idle", UNCHANGED <<mvars, exit>>, stage' \in {"textures", "shaders"},
           stage' # "textures" => TexturesCommitted',
           \A g \in wrote' : g \in wrote \/ g[1] # "material"
    PROVE MatInv'
<1> USE DEF MatInv, mvars
<1>0. /\ exit # 0 /\ mpc'.at = "idle"
      /\ mpc.at \notin InGroup /\ mpc.at \notin InMaterial /\ mpc.at \notin {"publish", "material", "release"}
      /\ \A m \in Materials : ~Begun(m)' /\ ~Begun(m) /\ mat[m].status \notin Published
  <2>1. \A m \in Materials : ~Begun(m)' /\ ~Begun(m)
    BY DEF Begun
  <2>2. exit # 0
    BY DEF Ended, Phase
  <2> QED  BY <2>1, <2>2 DEF MatPublished, Turn, InGroup, InMaterial
<1>1. MTyped'
  BY DEF MTyped
<1>2. Phase'
  BY <1>0 DEF Phase, InGroup, InMaterial
<1>3. MatPublished'
  BY <1>0 DEF MatPublished, Turn, AtHand
<1>4. MatAccounted'
  BY DEF MatAccounted
<1>5. Resting'
  BY <1>0 DEF Resting, Rests
<1>6. Ended'
  BY <1>0 DEF Ended
<1> QED  BY <1>1, <1>2, <1>3, <1>4, <1>5, <1>6

(* The output directory grows, and nothing of a texture is created.        *)
LEMMA DiskFrame ==
    ASSUME TexInv, DiskTrue, TexAccounted, UNCHANGED <<version, tvars>>,
           disk' = [g \in DOMAIN disk' |-> disk'[g]],
           DOMAIN disk \subseteq DOMAIN disk', \A g \in DOMAIN disk' : disk'[g] # Missing,
           \A g \in DOMAIN disk' \ DOMAIN disk : g[1] # "texture",
           wrote' \subseteq DOMAIN disk', \A g \in wrote' : g \in wrote \/ g \in DOMAIN disk' \ DOMAIN disk,
           tampered' \subseteq DOMAIN disk', \A g \in tampered' : disk'[g] = Foreign
    PROVE TexInv' /\ DiskTrue' /\ TexAccounted'
<1>1. TexInv'
  <2>1. version' \in [Sources \cup Sidecars -> Nat] /\ \A i \in Sources \cup Sidecars : version[i] <= version'[i]
    BY DEF TexInv, TTyped
  <2> QED  BY <2>1, InputsFrame DEF tvars
<1>2. DiskTrue'
  BY DEF DiskTrue, TexFile, tvars
<1>3. TexAccounted'
  BY DEF TexAccounted, TexFile, tvars
<1> QED  BY <1>1, <1>2, <1>3

(* A step of the texture batch, and the move to the shaders.               *)
LEMMA TexturePhaseKeeps == ASSUME IInv, TexturePhase PROVE IInv'
<1> USE DEF IInv
<1>0. /\ stage = "textures" /\ UNCHANGED <<shader, mvars, seenOk, exit, tampered>> /\ mpc.at = "idle"
  BY DEF TexturePhase, MatInv, Phase
<1>1. CASE TexturesCommitted /\ stage' = "shaders" /\ UNCHANGED <<version, tvars, disk, wrote, spent>>
  <2>1. TexInv' /\ DiskTrue' /\ TexAccounted' /\ TexturesCommitted'
    <3>1. TexturesCommitted'
      BY <1>1 DEF tvars, TexturesCommitted
    <3> QED  BY <1>0, <1>1, <3>1, DiskFrame DEF DiskTrue
  <2>2. MatInv'
    BY <1>0, <1>1, <2>1, IdleFrame
  <2> QED  BY <2>1, <2>2
<1>2. CASE TextureStep /\ UNCHANGED stage
  <2>1. /\ TexInv' /\ DiskTrue' /\ TexAccounted'
        /\ \A g \in wrote' : g \in wrote \/ g[1] # "material"
    <3>1. CASE SkipSnapshot
      BY <1>0, <3>1, SkipKeeps, EarlyDisk DEF SkipSnapshot, Committing
    <3>2. CASE DecodeSource
      BY <1>0, <3>2, DecodeKeeps, EarlyDisk DEF DecodeSource, Committing
    <3>3. CASE StageGroup
      BY <1>0, <3>3, StageKeeps, EarlyDisk DEF StageGroup, Committing
    <3>4. CASE StageDone
      BY <1>0, <3>4, StageDoneKeeps, EarlyDisk DEF StageDone, Committing
    <3>5. CASE CloseSnapshot
      BY <1>0, <3>5, CloseSnapshotKeeps, EarlyDisk DEF CloseSnapshot, Committing
    <3>6. CASE EndTransaction
      BY <1>0, <3>6, EndKeeps, EarlyDisk DEF EndTransaction, Committing
    <3>7. CASE BeginTexture
      BY <1>0, <3>7, BeginKeeps DEF BeginTexture
    <3>8. CASE PublishTexture
      BY <1>0, <3>8, PublishKeeps
    <3>9. CASE \E s \in Sidecars : CloseAnchor(s)
      BY <1>0, <3>9, CloseAnchorKeeps, EarlyDisk DEF CloseAnchor, Committing
    <3> QED  BY <1>2, <3>1, <3>2, <3>3, <3>4, <3>5, <3>6, <3>7, <3>8, <3>9 DEF TextureStep
  <2>2. MatInv'
    BY <1>0, <1>2, <2>1, IdleFrame
  <2> QED  BY <2>1, <2>2
<1> QED  BY <1>1, <1>2 DEF TexturePhase

(* One shader of the shader batch.                                         *)
LEMMA ShaderKeeps == ASSUME IInv, NEW s \in Shaders, ExtractShader(s) PROVE IInv'
<1> USE DEF IInv
<1> DEFINE files == {ShaderPath(s, p) : p \in ShaderParts}
<1>0. /\ stage = "shaders" /\ UNCHANGED <<version, tvars, mvars, stage, seenOk, exit, tampered>> /\ mpc.at = "idle"
  BY DEF ExtractShader, MatInv, Phase
<1>1. \/ UNCHANGED <<disk, wrote>>
      \/ /\ \A p \in ShaderParts : At(disk, ShaderPath(s, p)) \in {Missing, ShaderBytes(s, p)}
         /\ disk' = [f \in DOMAIN disk \cup files |->
                       IF f \in files THEN ShaderBytes(s, f[3]) ELSE disk[f]]
         /\ wrote' = wrote \cup (files \ DOMAIN disk)
  BY DEF ExtractShader
<1>2. /\ disk' = [g \in DOMAIN disk' |-> disk'[g]]
      /\ DOMAIN disk \subseteq DOMAIN disk' /\ \A g \in DOMAIN disk' : disk'[g] # Missing
      /\ \A g \in DOMAIN disk' \ DOMAIN disk : g[1] = "shader"
      /\ wrote' \subseteq DOMAIN disk' /\ \A g \in wrote' : g \in wrote \/ g \in DOMAIN disk' \ DOMAIN disk
      /\ \A g \in tampered : disk'[g] = Foreign
  <2>1. CASE UNCHANGED <<disk, wrote>>
    BY <2>1 DEF DiskTrue
  <2>2. CASE /\ \A p \in ShaderParts : At(disk, ShaderPath(s, p)) \in {Missing, ShaderBytes(s, p)}
             /\ disk' = [f \in DOMAIN disk \cup files |->
                           IF f \in files THEN ShaderBytes(s, f[3]) ELSE disk[f]]
             /\ wrote' = wrote \cup (files \ DOMAIN disk)
    <3>1. \A g \in files : g[1] = "shader" /\ ShaderBytes(s, g[3]) = g
      BY DEF ShaderPath, ShaderBytes
    <3>2. \A g \in files : g # Missing /\ g # Foreign
      BY DEF ShaderPath, Missing, Foreign
    <3>3. \A g \in files : g \notin tampered
      <4> SUFFICES ASSUME NEW p \in ShaderParts, ShaderPath(s, p) \in tampered PROVE FALSE
        OBVIOUS
      <4> DEFINE g == ShaderPath(s, p)
      <4>1. g \in DOMAIN disk /\ disk[g] = Foreign
        BY DEF DiskTrue
      <4>2. At(disk, g) \in {Missing, ShaderBytes(s, p)}
        BY <2>2
      <4>3. Foreign # Missing /\ Foreign # ShaderBytes(s, p)
        BY DEF Foreign, Missing, ShaderBytes
      <4> QED  BY <4>1, <4>2, <4>3 DEF At
    <3> HIDE DEF files
    <3>4. DOMAIN disk' = DOMAIN disk \cup files
      BY <2>2
    <3>5. \A g \in DOMAIN disk' : disk'[g] = IF g \in files THEN ShaderBytes(s, g[3]) ELSE disk[g]
      BY <2>2
    <3>6. \A g \in DOMAIN disk' : disk'[g] # Missing
      BY <3>1, <3>2, <3>4, <3>5 DEF DiskTrue
    <3>7. \A g \in tampered : disk'[g] = Foreign
      BY <3>3, <3>4, <3>5 DEF DiskTrue
    <3>8. wrote' \subseteq DOMAIN disk' /\ \A g \in wrote' : g \in wrote \/ g \in DOMAIN disk' \ DOMAIN disk
      BY <2>2, <3>4 DEF DiskTrue
    <3>9. disk' = [g \in DOMAIN disk' |-> disk'[g]]
      BY <2>2
    <3> QED  BY <3>1, <3>4, <3>6, <3>7, <3>8, <3>9
  <2> QED  BY <1>1, <2>1, <2>2
<1>3. TexInv' /\ DiskTrue' /\ TexAccounted'
  <2>1. tampered' \subseteq DOMAIN disk' /\ \A g \in tampered' : disk'[g] = Foreign
    BY <1>0, <1>2 DEF DiskTrue
  <2> QED  BY <1>0, <1>2, <2>1, DiskFrame
<1>4. MatInv'
  <2>1. TexturesCommitted'
    BY <1>0 DEF MatInv, Phase, TexturesCommitted, tvars
  <2>2. \A g \in wrote' : g \in wrote \/ g[1] # "material"
    BY <1>2
  <2> QED  BY <1>0, <2>1, <2>2, IdleFrame
<1> QED  BY <1>3, <1>4

(* What is on disk now under a name that was taken before, unless somebody *)
(* replaced it, was there before.                                          *)
LEMMA ShaderBack ==
    ASSUME \A g \in DOMAIN disk : disk'[g] \in {disk[g], Foreign}, DOMAIN disk \subseteq DOMAIN disk',
           NEW s, \A p \in ShaderParts : ShaderPath(s, p) \in DOMAIN disk
    PROVE ShaderOnDisk(s)' => ShaderOnDisk(s)
<1>1. \A p \in ShaderParts : ShaderBytes(s, p) # Foreign
  BY DEF ShaderBytes, Foreign
<1> QED  BY <1>1 DEF ShaderOnDisk, At

(* A texture that is exported now was exported before a step that changes  *)
(* nothing but the output directory: others put only foreign bytes over    *)
(* its files.                                                              *)
LEMMA ExportedBack ==
    ASSUME TexInv, UNCHANGED tex, NEW t \in Textures,
           \A g \in DOMAIN disk : disk'[g] \in {disk[g], Foreign}, DOMAIN disk \subseteq DOMAIN disk'
    PROVE Exported(t)' => Exported(t)
<1> SUFFICES ASSUME Exported(t)' PROVE Exported(t)
  OBVIOUS
<1>1. Recorded(t)
  BY DEF Exported, Recorded
<1>2. \A i \in 1..2 : TexFile(t, i) \in DOMAIN disk
  <2>1. Len(tex[t].pub) = 2 /\ tex[t].pub \in Seq(Published)
    BY <1>1 DEF Recorded, TexInv, TexPublished
  <2>2. DOMAIN tex[t].pub = 1..2
    BY <2>1
  <2> QED  BY <2>2 DEF TexInv, TexPublished
<1>3. Range(TextureParts) = {"meta", "asset"}
  BY DEF Range, TextureParts
<1>4. \A p \in Range(TextureParts) : TexturePath(t, p) \in DOMAIN disk
  BY <1>2, <1>3 DEF TexFile, TexturePath, TextureOrder, TextureParts
<1>5. TextureBytes(t) # Foreign
  BY DEF TextureBytes, Foreign
<1>6. ASSUME NEW p \in Range(TextureParts) PROVE At(disk, TexturePath(t, p)) = TextureBytes(t)
  <2>1. /\ TexturePath(t, p)' = TexturePath(t, p) /\ TextureBytes(t)' = TextureBytes(t)
    BY DEF TexturePath, TextureBytes
  <2>2. At(disk', TexturePath(t, p)) = TextureBytes(t)
    BY <2>1 DEF Exported
  <2> QED  BY <1>4, <1>5, <2>2 DEF At
<1> QED  BY <1>1, <1>6 DEF Exported

(* The same for the shader and the textures of a material together.        *)
LEMMA GroundedBack ==
    ASSUME TexInv, UNCHANGED <<tex, slots>>, NEW m \in Materials,
           \A g \in DOMAIN disk : disk'[g] \in {disk[g], Foreign}, DOMAIN disk \subseteq DOMAIN disk',
           \A p \in ShaderParts : ShaderPath(ShaderOf[m], p) \in DOMAIN disk
    PROVE Grounded(m)' => Grounded(m)
<1>1. ShaderOnDisk(ShaderOf[m])' => ShaderOnDisk(ShaderOf[m])
  BY ShaderBack
<1>2. \A t \in Textures : Exported(t)' => Exported(t)
  BY ExportedBack
<1> QED  BY <1>1, <1>2 DEF Grounded

(* The materials rest while only the output directory changes.             *)
LEMMA QuietFrame ==
    ASSUME IInv, UNCHANGED <<tvars, mvars, wrote>>,
           \A g \in DOMAIN disk : disk'[g] \in {disk[g], Foreign}, DOMAIN disk \subseteq DOMAIN disk'
    PROVE MTyped' /\ MatPublished' /\ MatAccounted' /\ Resting'
<1> USE DEF IInv, MatInv, mvars, tvars
<1>0. \A m \in Materials, i \in 1..3 : MatFile(m, i)' = MatFile(m, i)
  BY DEF MatFile
<1>1. MTyped'
  BY DEF MTyped
<1>2. MatPublished'
  <2>1. \A m \in Materials : Turn(m)'
    <3>1. \A m \in Materials : Begun(m)' <=> Begun(m)
      BY DEF Begun
    <3> QED  BY <3>1 DEF MatPublished, Turn
  <2>2. AtHand'
    BY <1>0 DEF MatPublished, AtHand, Phase, InMaterial, MatFile
  <2> QED  BY <2>1, <2>2 DEF MatPublished
<1>3. MatAccounted'
  BY <1>0 DEF MatAccounted
<1>4. Resting'
  <2>1. ASSUME NEW m \in Materials PROVE Rests(m)'
    <3>1. Released(m)' <=> Released(m)
      BY DEF Released, Begun
    <3>2. Released(m) \/ (mpc.at = "release" /\ m = mpc.m) =>
            /\ ShaderOnDisk(ShaderOf[m])' => ShaderOnDisk(ShaderOf[m])
            /\ Grounded(m)' => Grounded(m)
      <4> SUFFICES ASSUME Released(m) \/ (mpc.at = "release" /\ m = mpc.m)
                   PROVE \A p \in ShaderParts : ShaderPath(ShaderOf[m], p) \in DOMAIN disk
        BY ShaderBack, GroundedBack
      <4>1. mpc.at \in InGroup /\ ShaderOf[m] = mpc.s
        BY DEF Released, Phase, InGroup, InMaterial
      <4> QED  BY <4>1 DEF Resting
    <3> QED  BY <3>1, <3>2 DEF Resting, Rests
  <2>2. mpc'.at \in InGroup => \A p \in ShaderParts : ShaderPath(mpc'.s, p) \in DOMAIN disk'
    BY DEF Resting
  <2> QED  BY <2>1, <2>2 DEF Resting
<1> QED  BY <1>1, <1>2, <1>3, <1>4

(* An input changes: what was read of it is older.                         *)
LEMMA EditKeeps == ASSUME IInv, EditSource PROVE IInv'
<1> USE DEF IInv
<1>0. /\ stage # "done" /\ UNCHANGED <<tvars, mvars, disk, wrote, shader, stage, seenOk, exit, tampered>>
  BY DEF EditSource, EditInput, tvars
<1>1. TexInv'
  <2>1. PICK i \in DOMAIN version : version' = [version EXCEPT ![i] = @ + 1]
    BY DEF EditSource, EditInput
  <2>2. version \in [Sources \cup Sidecars -> Nat]
    BY DEF TexInv, TTyped
  <2>3. version' \in [Sources \cup Sidecars -> Nat]
    BY <2>1, <2>2
  <2>4. \A j \in Sources \cup Sidecars : version[j] <= version'[j]
    BY <2>1, <2>2
  <2> QED  BY <1>0, <2>3, <2>4, InputsFrame DEF tvars
<1>2. DiskTrue' /\ TexAccounted'
  BY <1>0 DEF tvars, DiskTrue, TexAccounted, TexFile
<1>3. MTyped' /\ MatPublished' /\ MatAccounted' /\ Resting'
  BY <1>0, QuietFrame
<1>4. Phase' /\ Ended'
  <2>1. exit # 0
    BY <1>0 DEF MatInv, Ended
  <2> QED  BY <1>0, <2>1 DEF MatInv, Phase, Ended, tvars, mvars, TexturesCommitted, MaterialsDone
<1> QED  BY <1>1, <1>2, <1>3, <1>4 DEF MatInv

(* The report looks at the textures again.                                 *)
LEMMA RenderKeeps == ASSUME IInv, RenderReport PROVE IInv'
<1> USE DEF IInv
<1>0. /\ stage = "materials" /\ MaterialsDone /\ stage' = "exit"
      /\ UNCHANGED <<version, tvars, disk, wrote, spent, shader, mvars, exit, tampered>>
  BY DEF RenderReport
<1>1. TexInv' /\ DiskTrue' /\ TexAccounted'
  BY <1>0, DiskFrame DEF DiskTrue
<1>2. MTyped' /\ MatPublished' /\ MatAccounted' /\ Resting'
  BY <1>0, QuietFrame
<1>3. Phase' /\ Ended'
  <2>1. exit # 0
    BY <1>0 DEF MatInv, Ended
  <2> QED  BY <1>0, <2>1 DEF MatInv, Phase, Ended, tvars, mvars, TexturesCommitted, MaterialsDone
<1> QED  BY <1>1, <1>2, <1>3 DEF MatInv

(* The argument for the exit code.                                         *)
LEMMA ExtractedIsExact ==
    ASSUME IInv, stage = "exit", Extracted
    PROVE /\ \A m \in Materials : Active(m) =>
                /\ mat[m].status \in Published /\ ground[m]
                /\ \A i \in DOMAIN slots[m] : slots[m][i] = NullSlot \/ slots[m][i] \in Textures
          /\ \A t \in Textures : tex[t].decoded = 0
          /\ \A f \in tampered : f[1] # "texture"
<1> USE DEF IInv, MatInv
<1>0. MaterialsDone /\ TexturesCommitted /\ mpc.at = "group"
  BY DEF Phase, MaterialsDone
<1>1. ASSUME NEW m \in Materials, Active(m)
      PROVE  /\ mat[m].status \in Published /\ ground[m]
             /\ \A i \in DOMAIN slots[m] : slots[m][i] = NullSlot \/ slots[m][i] \in Textures
  <2>1. mat[m].status \in Published
    BY <1>1 DEF Extracted, MaterialsComplete, MatPublished, Turn
  <2>2. ground[m]
    BY <1>0, <2>1 DEF Resting, Rests, Released, InMaterial
  <2>3. DOMAIN mat[m].deps = DOMAIN slots[m] /\ \A i \in DOMAIN mat[m].deps : ClosedEvidence(m, i)
    BY <2>1 DEF Extracted, DependenciesClosed, MatPublished, Turn
  <2> QED  BY <2>1, <2>2, <2>3 DEF ClosedEvidence
<1>2. \A t \in Textures : tex[t].status \in Published /\ Exported(t)
  BY DEF Extracted, TexturesComplete, Exported, Recorded
<1>3. \A t \in Textures : tex[t].decoded = 0
  <2>0. tpc.at \in Committing /\ tpc.at \notin Looping
    BY <1>0 DEF TexturesCommitted, Committing, Looping
  <2>1. \A t \in Textures : intact /\ tex[t].pixels # NotHeld
    BY <1>2, <2>0 DEF TexInv, Committed, Published
  <2> QED  BY <2>0, <2>1, Constants DEF TexInv, Read, Closing
<1>4. ASSUME NEW f \in tampered, f[1] = "texture" PROVE FALSE
  <2>1. f \in DOMAIN disk /\ disk[f] = Foreign
    BY DEF DiskTrue
  <2>2. PICK t \in Textures, i \in 1..2 : f = TexFile(t, i)
    BY <1>4, <2>1 DEF DiskTrue
  <2>3. \E p \in Range(TextureParts) : f = TexturePath(t, p)
    <3>1. TextureParts[i] \in Range(TextureParts)
      BY DEF TextureParts, Range
    <3> QED  BY <2>2, <3>1 DEF TexFile, TexturePath, TextureOrder
  <2>4. disk[f] = TextureBytes(t)
    BY <1>2, <2>1, <2>3 DEF Exported, At
  <2>5. TextureBytes(t) # Foreign
    BY DEF TextureBytes, Foreign
  <2> QED  BY <2>1, <2>4, <2>5
<1> QED  BY <1>1, <1>3, <1>4

(* The exit code, where the verdict is drawn.                              *)
LEMMA ExitKeeps == ASSUME IInv, Exit PROVE IInv'
<1> USE DEF IInv
<1>0. /\ stage = "exit" /\ stage' = "done"
      /\ UNCHANGED <<version, tvars, disk, wrote, shader, mvars, seenOk, tampered>>
  BY DEF Exit
<1>1. TexInv' /\ DiskTrue' /\ TexAccounted'
  BY <1>0, DiskFrame DEF DiskTrue
<1>2. MTyped' /\ MatPublished' /\ MatAccounted' /\ Resting'
  BY <1>0, QuietFrame
<1>3. Phase'
  BY <1>0 DEF MatInv, Phase, tvars, mvars, TexturesCommitted, MaterialsDone
<1>4. Ended'
  <2>1. exit' \in {0, 1} /\ (exit' = 0 => Extracted)
    BY DEF Exit
  <2>2. exit' = 0 => ExitZeroIsExact'
    BY <1>0, <2>1, ExtractedIsExact DEF ExitZeroIsExact, Active, tvars, mvars
  <2> QED  BY <1>0, <2>1, <2>2 DEF Ended, Running
<1> QED  BY <1>1, <1>2, <1>3, <1>4 DEF MatInv

(* Another program replaces an output or creates the next one.             *)
LEMMA ForeignKeeps == ASSUME IInv, ForeignFile PROVE IInv'
<1> USE DEF IInv
<1>0. stage # "done" /\ UNCHANGED <<version, tvars, wrote, shader, mvars, stage, seenOk, exit>>
  BY DEF ForeignFile
<1>1. Foreign # Missing
  BY DEF Foreign, Missing
(* Somebody replaces a file, or creates the one that is about to be.       *)
<1>2. PICK h, bytes :
        /\ disk' = Put(disk, h, bytes) /\ bytes # Missing
        /\ \/ h \in DOMAIN disk /\ bytes = Foreign /\ tampered' = tampered \cup {h}
           \/ /\ h \notin DOMAIN disk /\ tampered' = tampered
              /\ h[1] = "texture" => tpc.at \in Committing /\ \E t \in Textures, i \in 1..2 : h = TexFile(t, i)
  <2>1. CASE \E f \in DOMAIN disk :
            /\ disk[f] # Foreign
            /\ disk' = Put(disk, f, Foreign)
            /\ tampered' = tampered \cup {f}
    BY <1>1, <2>1
  <2>2. CASE \E u \in Upcoming, same \in BOOLEAN :
            /\ u[1] \notin DOMAIN disk
            /\ disk' = Put(disk, u[1], IF same THEN u[2] ELSE Foreign)
            /\ UNCHANGED tampered
    <3>1. PICK u \in Upcoming, same \in BOOLEAN :
            /\ u[1] \notin DOMAIN disk
            /\ disk' = Put(disk, u[1], IF same THEN u[2] ELSE Foreign)
            /\ UNCHANGED tampered
      BY <2>2
    <3>2. /\ u[2] # Missing
          /\ u[1][1] = "texture" => tpc.at \in Committing /\ \E t \in Textures, i \in 1..2 : u[1] = TexFile(t, i)
      <4>1. CASE /\ tpc.at = "publish"
                 /\ u = <<TexturePath(tpc.n, TextureOrder[Len(tex[tpc.n].pub) + 1]), TextureBytes(tpc.n)>>
        <5>1. tpc.n \in Textures
          BY <4>1 DEF TexInv, Committed
        <5>2. tex[tpc.n].pub \in Seq(Published) /\ Len(tex[tpc.n].pub) < 2
          BY <4>1, <5>1 DEF TexInv, TexPublished
        <5> DEFINE k == Len(tex[tpc.n].pub) + 1
        <5>3. k \in 1..2
          BY <5>2
        <5>4. u[1] = TexFile(tpc.n, k)
          BY <4>1 DEF TexFile, TexturePath
        <5>5. u[2] # Missing
          BY <4>1 DEF TextureBytes, Missing
        <5> HIDE DEF k
        <5> QED  BY <4>1, <5>1, <5>3, <5>4, <5>5 DEF Committing
      <4>2. CASE \E p : u = <<MaterialPath(mpc.m, p), MaterialBytes(mpc.m, p)>>
        BY <4>2 DEF MaterialPath, MaterialBytes, Missing
      <4> QED  BY <4>1, <4>2 DEF Upcoming
    <3> QED  BY <1>1, <3>1, <3>2
  <2> QED  BY <2>1, <2>2 DEF ForeignFile
<1>3. /\ disk' = [g \in DOMAIN disk' |-> disk'[g]] /\ DOMAIN disk' = DOMAIN disk \cup {h} /\ disk'[h] = bytes
      /\ \A g \in DOMAIN disk : g # h => disk'[g] = disk[g]
  BY <1>2 DEF Put
<1>4. \A g \in DOMAIN disk : disk'[g] \in {disk[g], Foreign}
  BY <1>2, <1>3
<1>5. TexInv'
  <2>1. version' \in [Sources \cup Sidecars -> Nat] /\ \A i \in Sources \cup Sidecars : version[i] <= version'[i]
    BY <1>0 DEF TexInv, TTyped
  <2> QED  BY <1>0, <1>3, <2>1, InputsFrame DEF tvars
<1>6. DiskTrue' /\ TexAccounted'
  <2>1. \A t \in Textures, i \in 1..2 : TexFile(t, i)' = TexFile(t, i)
    BY <1>0 DEF TexFile, tvars
  <2>2. TexAccounted'
    BY <1>0, <1>3, <2>1 DEF TexAccounted, tvars
  <2>3. \A g \in DOMAIN disk' : disk'[g] # Missing
    BY <1>2, <1>3 DEF DiskTrue
  <2>4. \A g \in DOMAIN disk' : g[1] = "texture" =>
           tpc'.at \in Committing /\ \E t \in Textures, i \in 1..2 : g = TexFile(t, i)'
    <3>1. \A g \in DOMAIN disk' : g[1] = "texture" =>
           tpc.at \in Committing /\ \E t \in Textures, i \in 1..2 : g = TexFile(t, i)
      BY <1>2, <1>3 DEF DiskTrue
    <3> QED  BY <1>0, <2>1, <3>1 DEF tvars
  <2>5. tampered' \subseteq DOMAIN disk' /\ \A g \in tampered' : disk'[g] = Foreign
    BY <1>2, <1>3 DEF DiskTrue
  <2> QED  BY <1>0, <1>3, <2>2, <2>3, <2>4, <2>5 DEF DiskTrue
<1>7. MTyped' /\ MatPublished' /\ MatAccounted' /\ Resting'
  BY <1>0, <1>3, <1>4, QuietFrame
<1>8. Phase' /\ Ended'
  <2>1. exit # 0
    BY <1>0 DEF MatInv, Ended
  <2> QED  BY <1>0, <2>1 DEF MatInv, Phase, Ended, tvars, mvars, TexturesCommitted, MaterialsDone
<1> QED  BY <1>5, <1>6, <1>7, <1>8 DEF MatInv

(* What the first loop of the material batch makes of a record: only a     *)
(* material that takes part is left pending.                               *)
LEMMA Classifying ==
    ASSUME NEW m \in Materials, NEW authority \in BOOLEAN
    PROVE LET x == Classified(m, authority)
          IN /\ MaterialShape(x) /\ x.pub = <<>> /\ x.residue = {} /\ x.reported = FALSE
             /\ x.status \in {"pending", "failed", "unselected", "unassociated"}
             /\ x.status = "pending" => Active(m) /\ x.failure = "none"
             /\ x.status \in {"unselected", "unassociated"} => ~Active(m)
<1> DEFINE x == Classified(m, authority)
           Left(status, why) == [NewMaterial EXCEPT !.status = status, !.failure = why]
<1>1. ASSUME NEW status, NEW why
      PROVE Left(status, why) =
         [status |-> status, failure |-> why, deps |-> <<>>, closed |-> FALSE,
          pre |-> <<>>, pub |-> <<>>, residue |-> {}, reported |-> FALSE]
  <2> DEFINE z == NewMaterial
             y == Left(status, why)
  <2>1. MaterialShape(z)
    BY DEF NewMaterial, MaterialShape
  <2>2. y = [z EXCEPT !.status = status, !.failure = why]
    OBVIOUS
  <2>3. z.deps = <<>> /\ z.closed = FALSE /\ z.pre = <<>> /\ z.pub = <<>> /\ z.residue = {} /\ z.reported = FALSE
    BY DEF NewMaterial
  <2> HIDE DEF z, y
  <2>4. y = [status |-> status, failure |-> why, deps |-> z.deps, closed |-> z.closed,
             pre |-> z.pre, pub |-> z.pub, residue |-> z.residue, reported |-> z.reported]
    BY <2>1, <2>2 DEF MaterialShape
  <2> QED  BY <2>3, <2>4 DEF y
<1>2. x = IF MaterialStatus[m] = "shaderNull" THEN Left("unassociated", "none")
          ELSE IF MaterialStatus[m] = "notReady" THEN Left("failed", "materialNotReady")
          ELSE IF ShaderOf[m] \notin Shaders THEN Left("failed", "shaderIndex")
          ELSE IF ShaderOf[m] \notin Selected THEN Left("unselected", "none")
          ELSE IF authority THEN NewMaterial ELSE Left("failed", "dependencyAuthority")
  BY DEF Classified
<1> HIDE DEF Left, x
<1>3. PICK status, why : x = [status |-> status, failure |-> why, deps |-> <<>>, closed |-> FALSE,
                              pre |-> <<>>, pub |-> <<>>, residue |-> {}, reported |-> FALSE]
  BY <1>1, <1>2 DEF NewMaterial
<1>4. MaterialShape(x) /\ x.pub = <<>> /\ x.residue = {} /\ x.reported = FALSE
  BY <1>3 DEF MaterialShape
<1>5. /\ x.status \in {"pending", "failed", "unselected", "unassociated"}
      /\ x.status \in {"unselected", "unassociated"} => ~Active(m)
  BY <1>1, <1>2 DEF NewMaterial, Active
<1>6. x.status = "pending" => MaterialStatus[m] \notin {"shaderNull", "notReady"} /\ ShaderOf[m] \in Selected /\ x.failure = "none"
  BY <1>1, <1>2 DEF NewMaterial
<1> QED  BY <1>4, <1>5, <1>6, MaterialAssumption DEF x, Active

(* The smaller of two numbers comes first.                                 *)
Below == {ss \in Nat \X Nat : ss[1] < ss[2]}

(* A set of numbers has a least one.                                       *)
LEMMA Least ==
    ASSUME NEW T, T \subseteq Nat, T # {} PROVE \E x \in T : \A y \in T : x <= y
<1>0. IsWellFoundedOn(Below, Nat)
  BY ONLY NatLessThanWellFounded, Zenon DEF OpToRel, Below
<1>1. \E x \in T : \A y \in T : ~(<<y, x>> \in Below)
  BY <1>0, WFMin
<1>2. PICK x \in T : \A y \in T : ~(<<y, x>> \in Below)
  BY <1>1
<1>3. \A y \in T : x <= y
  <2>1. ASSUME NEW y \in Nat, NEW z \in Nat, y < z PROVE <<y, z>> \in Below
    BY <2>1 DEF Below
  <2>2. \A y \in T : ~(y < x)
    BY <1>2, <2>1
  <2> QED  BY <2>2
<1> QED  BY <1>3

(* The next material of a shader, in the order of the catalog.             *)
LEMMA NextInIs ==
    ASSUME NEW s, NEW after \in Nat
    PROVE LET n == NextIn(s, after)
          IN /\ n = [at |-> n.at, s |-> n.s, m |-> n.m] /\ n.s = s
             /\ \/ /\ n.at = "material" /\ n.m \in Group(s) /\ n.m > after
                   /\ \A j \in Group(s) : j > after => n.m <= j
                \/ n.at = "close" /\ \A j \in Group(s) : ~(j > after)
<1>0. Group(s) \subseteq Nat
  BY MaterialConstants DEF Group
<1>1. CASE \E m \in Group(s) : m > after
  <2> DEFINE T == {m \in Group(s) : m > after}
             P(m) == m > after /\ \A n \in Group(s) : n > after => m <= n
             c == CHOOSE m \in Group(s) : P(m)
  <2>1. T \subseteq Nat /\ T # {}
    BY <1>0, <1>1
  <2>2. \E x \in T : \A y \in T : x <= y
    BY <2>1, Least
  <2>3. \E m \in Group(s) : P(m)
    BY <2>2
  <2>4. c \in Group(s) /\ P(c)
    BY <2>3, Zenon
  <2>5. NextIn(s, after) = [at |-> "material", s |-> s, m |-> c]
    BY <1>1 DEF NextIn
  <2> HIDE DEF c
  <2> QED  BY <2>4, <2>5
<1>2. CASE ~\E m \in Group(s) : m > after
  <2>1. NextIn(s, after) = [at |-> "close", s |-> s, m |-> 0]
    BY <1>2 DEF NextIn
  <2> QED  BY <1>2, <2>1
<1> QED  BY <1>1, <1>2

(* material_record_fail keeps what was published and the first failure.    *)
LEMMA MaterialFailing ==
    ASSUME NEW records, NEW S, NEW why, NEW m \in Materials, MaterialShape(records[m])
    PROVE LET x == records[m]
              y == MaterialFail(records, S, why)[m]
          IN /\ DOMAIN MaterialFail(records, S, why) = Materials
             /\ MaterialShape(y)
             /\ y.deps = x.deps /\ y.closed = x.closed /\ y.pre = x.pre /\ y.pub = x.pub
             /\ y.residue = x.residue /\ y.reported = x.reported
             /\ m \notin S => y = x
             /\ m \in S => y.status = "failed" /\ y.failure = (IF x.failure = "none" THEN why ELSE x.failure)
<1> DEFINE x == records[m]
           y == MaterialFail(records, S, why)[m]
           w == IF x.failure = "none" THEN why ELSE x.failure
<1>0. DOMAIN MaterialFail(records, S, why) = Materials
  BY DEF MaterialFail
<1>1. CASE m \notin S
  <2>1. y = x
    BY <1>1 DEF MaterialFail
  <2> QED  BY <1>0, <1>1, <2>1
<1>2. CASE m \in S
  <2>1. y = [x EXCEPT !.status = "failed", !.failure = w]
    BY <1>2 DEF MaterialFail, MaterialShape
  <2> HIDE DEF x, y, w
  <2>2. MaterialShape(x)
    BY DEF x
  <2>3. y = [status |-> "failed", failure |-> w, deps |-> x.deps, closed |-> x.closed,
             pre |-> x.pre, pub |-> x.pub, residue |-> x.residue, reported |-> x.reported]
    BY <2>1, <2>2 DEF MaterialShape
  <2>4. /\ MaterialShape(y)
        /\ y.deps = x.deps /\ y.closed = x.closed /\ y.pre = x.pre /\ y.pub = x.pub
        /\ y.residue = x.residue /\ y.reported = x.reported
        /\ y.status = "failed" /\ y.failure = w
    BY <2>3 DEF MaterialShape
  <2> QED  BY <1>0, <1>2, <2>4 DEF x, y, w
<1> QED  BY <1>1, <1>2

(* A step of the materials that creates no file.                           *)
LEMMA MaterialFrame ==
    ASSUME IInv, stage = "materials",
           UNCHANGED <<version, tvars, disk, wrote, shader, slots, ground, stage, seenOk, exit, tampered>>
    PROVE TexInv' /\ DiskTrue' /\ TexAccounted' /\ Ended' /\ TexturesCommitted'
<1> USE DEF IInv, MatInv
<1>1. TexInv' /\ DiskTrue' /\ TexAccounted'
  BY DiskFrame DEF DiskTrue
<1>2. Ended'
  BY DEF Ended
<1>3. TexturesCommitted'
  BY DEF Phase, TexturesCommitted, tvars
<1> QED  BY <1>1, <1>2, <1>3

(* A pending material waits for its group.                                 *)
LEMMA PendingIsDue ==
    ASSUME MatInv, mpc.at # "idle", NEW m \in Materials, mat[m].status = "pending"
    PROVE m \in Group(ShaderOf[m])
  BY DEF MatInv, MatPublished, Turn, Active, Group

(* The material batch begins.                                              *)
LEMMA BeginMaterialsKeeps == ASSUME IInv, BeginMaterials PROVE IInv'
<1> USE DEF IInv
<1>0. /\ stage = "shaders" /\ stage' = "materials" /\ mpc.at = "idle"
      /\ UNCHANGED <<version, tvars, disk, wrote, spent, shader, seenOk, exit, tampered, slots, ground>>
      /\ mat' = [m \in Materials |-> Classified(m, DependencyAuthority)]
      /\ mpc' = [at |-> "group", s |-> 1, m |-> 0]
  BY DEF BeginMaterials, StartMaterials
<1> DEFINE a == DependencyAuthority
<1>1. a \in BOOLEAN
  <2>1. intact \in BOOLEAN
    BY DEF TexInv, TTyped
  <2> QED  BY <2>1, Zenon DEF DependencyAuthority, TexturesComplete
<1>2. mat' = [m \in Materials |-> Classified(m, a)]
  BY <1>0
<1> HIDE DEF a
<1>3. TexInv' /\ DiskTrue' /\ TexAccounted'
  BY <1>0, DiskFrame DEF DiskTrue
<1>4. \A m \in Materials :
        /\ MaterialShape(mat'[m]) /\ mat'[m].pub = <<>> /\ mat'[m].residue = {} /\ mat'[m].reported = FALSE
        /\ mat'[m].status \in {"pending", "failed", "unselected", "unassociated"}
        /\ mat'[m].status = "pending" => Active(m) /\ mat'[m].failure = "none"
        /\ mat'[m].status \in {"unselected", "unassociated"} => ~Active(m)
  BY <1>1, <1>2, Classifying
<1>5. MTyped'
  BY <1>0, <1>4 DEF MatInv, MTyped, InGroup
<1>6. Phase' /\ Ended'
  <2>1. TexturesCommitted'
    BY <1>0 DEF MatInv, Phase, TexturesCommitted, tvars
  <2>2. exit # 0
    BY <1>0 DEF MatInv, Ended
  <2> QED  BY <1>0, <2>1, <2>2 DEF MatInv, Phase, Ended, InGroup, InMaterial
<1>7. MatPublished'
  <2>1. \A m \in Materials : ShaderOf[m] \in Nat /\ (Active(m) => ShaderOf[m] >= 1)
    BY MaterialConstants DEF Active
  <2>2. mpc'.at = "group" /\ mpc'.s = 1
    BY <1>0
  <2>3. \A m \in Materials : Active(m) => ~Begun(m)'
    BY <2>1, <2>2 DEF Begun, InMaterial
  <2>4. \A m \in Materials : mat'[m].status \notin Published
    BY <1>4 DEF Published
  <2> QED  BY <1>4, <2>2, <2>3, <2>4 DEF MatPublished, Turn, AtHand
<1>8. MatAccounted'
  BY <1>0 DEF MatInv, MatAccounted
<1>9. Resting'
  BY <1>0, <1>4 DEF Resting, Rests, Published, InGroup
<1> QED  BY <1>3, <1>5, <1>6, <1>7, <1>8, <1>9 DEF MatInv

(* The head of a group: its shader is opened, or all of it fails.          *)
LEMMA OpenGroupKeeps ==
    ASSUME IInv, stage = "materials", OpenGroup, UNCHANGED <<stage, seenOk, exit, tampered>>
    PROVE IInv'
<1> USE DEF IInv, MatInv
<1> DEFINE s == mpc.s
<1>0. /\ mpc.at = "group" /\ s \in Shaders /\ s \in Nat \ {0} /\ mpc = [at |-> "group", s |-> s, m |-> mpc.m]
      /\ UNCHANGED <<version, tvars, disk, wrote, shader, slots, ground>>
  BY MaterialConstants DEF OpenGroup, MTyped
<1>1. TexInv' /\ DiskTrue' /\ TexAccounted' /\ Ended' /\ TexturesCommitted'
  BY <1>0, MaterialFrame
<1>2. \/ Group(s) = {} /\ mpc' = [mpc EXCEPT !.s = @ + 1] /\ mat' = mat
      \/ \E why : mat' = MaterialFail(mat, Group(s), why) /\ mpc' = [mpc EXCEPT !.s = @ + 1]
      \/ Group(s) # {} /\ ShaderOnDisk(s) /\ mpc' = NextIn(s, 0) /\ mat' = mat
  BY DEF OpenGroup
<1>3. \A m \in Group(s) : /\ m \in Materials /\ ShaderOf[m] = s /\ Active(m)
                          /\ mat[m].failure # "dependencyAuthority"
  BY DEF Group, Active
<1> HIDE DEF s
<1>4. \A m \in Materials : MaterialShape(mat[m]) /\ ShaderOf[m] \in Nat
  BY MaterialConstants DEF MTyped
<1>5. \A m \in Materials : Begun(m) <=> ShaderOf[m] < s
  BY <1>0 DEF Begun, InMaterial, s
<1>6. \A m \in Materials : ~Released(m)
  BY <1>0 DEF Released, InMaterial
<1>7. \A m \in Materials, i \in 1..3 : MatFile(m, i)' = MatFile(m, i)
  BY <1>0 DEF MatFile, tvars
<1>8. CASE \/ Group(s) = {} /\ mpc' = [mpc EXCEPT !.s = @ + 1] /\ mat' = mat
           \/ \E why : mat' = MaterialFail(mat, Group(s), why) /\ mpc' = [mpc EXCEPT !.s = @ + 1]
  <2>1. mpc' = [at |-> "group", s |-> s + 1, m |-> mpc.m] /\ mpc'.at = "group" /\ mpc'.s = s + 1
    BY <1>0, <1>8
  <2>2. /\ DOMAIN mat' = Materials
        /\ \A m \in Materials :
             /\ MaterialShape(mat'[m])
             /\ m \notin Group(s) => mat'[m] = mat[m]
             /\ m \in Group(s) => mat'[m].status = "failed"
             /\ mat'[m].pub = mat[m].pub /\ mat'[m].residue = mat[m].residue /\ mat'[m].reported = mat[m].reported
    <3>1. CASE Group(s) = {} /\ mat' = mat
      BY <1>4, <3>1 DEF MTyped
    <3>2. CASE \E why : mat' = MaterialFail(mat, Group(s), why)
      <4>1. PICK why : mat' = MaterialFail(mat, Group(s), why)
        BY <3>2
      <4>2. DOMAIN mat' = Materials
        BY <4>1 DEF MaterialFail
      <4> QED  BY <1>4, <4>1, <4>2, MaterialFailing
    <3> QED  BY <1>8, <3>1, <3>2
  <2>3. \A m \in Materials : Begun(m)' <=> ShaderOf[m] < s + 1
    BY <2>1 DEF Begun, InMaterial
  <2>4. \A m \in Group(s) : mat'[m].pub = <<>> /\ mat[m].pub = <<>> /\ mat'[m].status = "failed"
    BY <1>0, <1>3, <1>5, <2>2 DEF MatPublished, Turn
  <2>5. MTyped'
    BY <1>0, <2>1, <2>2 DEF MTyped
  <2>6. Phase'
    BY <1>0, <1>1, <2>1 DEF Phase, InGroup, InMaterial
  <2>7. ASSUME NEW m \in Materials PROVE Turn(m)' /\ Rests(m)'
    <3>1. CASE m \in Group(s)
      <4>1. mat'[m].status \notin Published \cup {"pending", "unselected", "unassociated"} /\ mat'[m].pub = <<>>
        BY <2>4, <3>1 DEF Published
      <4>2. Begun(m)'
        BY <1>0, <1>3, <2>3, <3>1
      <4> QED  BY <2>1, <4>1, <4>2 DEF Turn, Rests
    <3>2. CASE m \notin Group(s)
      <4>1. mat'[m] = mat[m] /\ Turn(m) /\ Rests(m)
        BY <2>2, <3>2 DEF MatPublished, Resting
      <4>2. mat[m].status = "pending" => ~Begun(m)' /\ ~Begun(m)
        <5> SUFFICES ASSUME mat[m].status = "pending" PROVE ~Begun(m)' /\ ~Begun(m)
          OBVIOUS
        <5>1. ShaderOf[m] # s
          BY <1>0, <3>2, PendingIsDue
        <5>2. ~Begun(m)
          BY <1>0, <4>1 DEF Turn
        <5> QED  BY <1>0, <1>4, <1>5, <2>3, <5>1, <5>2
      <4>3. ~Begun(m)' => ~Begun(m)
        BY <1>0, <1>4, <1>5, <2>3
      <4>4. Turn(m)'
        BY <1>0, <2>1, <4>1, <4>2, <4>3 DEF Turn
      <4>5. mat[m].status \in Published => ShaderOf[m] < s /\ ground[m] /\ mat[m].reported
        BY <1>0, <1>6, <4>1 DEF Rests, s
      <4>6. Rests(m)'
        BY <1>0, <1>4, <2>1, <4>1, <4>5 DEF Rests
      <4> QED  BY <4>4, <4>6
    <3> QED  BY <3>1, <3>2
  <2>8. MatPublished'
    BY <2>1, <2>7 DEF MatPublished, AtHand
  <2>9. Resting'
    BY <2>1, <2>7 DEF Resting, InGroup
  <2>10. MatAccounted'
    <3> SUFFICES ASSUME NEW f \in wrote, f[1] = "material"
                 PROVE \E m \in Materials, i \in 1..3 :
                    /\ f[2] = m /\ f = MatFile(m, i)
                    /\ i = 3 => MatFile(m, 1) \in DOMAIN disk /\ MatFile(m, 2) \in DOMAIN disk
                    /\ \/ f \in mat'[m].residue
                       \/ i \in DOMAIN mat'[m].pub /\ mat'[m].pub[i] = "emitted" /\ mat'[m].status # "failed"
      BY <1>0, <1>7, <2>1 DEF MatAccounted
    <3>1. PICK m \in Materials, i \in 1..3 :
            /\ f[2] = m /\ f = MatFile(m, i)
            /\ i = 3 => MatFile(m, 1) \in DOMAIN disk /\ MatFile(m, 2) \in DOMAIN disk
            /\ \/ f \in mat[m].residue
               \/ i \in DOMAIN mat[m].pub /\ mat[m].pub[i] = "emitted" /\ mat[m].status # "failed"
      BY DEF MatAccounted
    <3>2. CASE m \in Group(s)
      <4>1. DOMAIN mat[m].pub = {}
        BY <2>4, <3>2
      <4> QED  BY <2>2, <3>1, <4>1
    <3>3. CASE m \notin Group(s)
      BY <2>2, <3>1, <3>3
    <3> QED  BY <3>2, <3>3
  <2> QED  BY <1>1, <2>5, <2>6, <2>8, <2>9, <2>10
<1>9. CASE Group(s) # {} /\ ShaderOnDisk(s) /\ mpc' = NextIn(s, 0) /\ mat' = mat
  <2>1. /\ mpc' = [at |-> "material", s |-> s, m |-> mpc'.m] /\ mpc'.at = "material" /\ mpc'.s = s
        /\ mpc'.m \in Group(s) /\ \A j \in Group(s) : mpc'.m <= j
    <3>1. /\ mpc' = [at |-> mpc'.at, s |-> mpc'.s, m |-> mpc'.m] /\ mpc'.s = s
          /\ \/ /\ mpc'.at = "material" /\ mpc'.m \in Group(s)
                /\ \A j \in Group(s) : j > 0 => mpc'.m <= j
             \/ mpc'.at = "close" /\ \A j \in Group(s) : ~(j > 0)
      BY <1>9, NextInIs
    <3>2. \A j \in Group(s) : j > 0
      BY <1>3, MaterialConstants
    <3> QED  BY <1>9, <3>1, <3>2
  <2>2. mpc'.m \in Materials /\ mpc'.m \in Nat /\ mpc'.at \in InMaterial /\ mpc'.at \in InGroup
    BY <1>3, <2>1, MaterialConstants DEF InMaterial, InGroup
  <2>3. MTyped'
    BY <1>0, <1>9, <2>1, <2>2 DEF MTyped
  <2>4. Phase'
    BY <1>0, <1>1, <1>3, <2>1, <2>2 DEF Phase
  <2>5. ASSUME NEW m \in Materials PROVE Turn(m)' /\ Rests(m)'
    <3>1. mat'[m] = mat[m] /\ Turn(m) /\ Rests(m) /\ m \in Nat
      BY <1>9, MaterialConstants DEF MatPublished, Resting
    <3>2. Begun(m)' <=> ShaderOf[m] < s \/ (ShaderOf[m] = s /\ m < mpc'.m)
      BY <2>1, <2>2 DEF Begun
    <3>3. mat[m].status = "pending" => ~Begun(m)' /\ ~Begun(m)
      <4> SUFFICES ASSUME mat[m].status = "pending" PROVE ~Begun(m)' /\ ~Begun(m)
        OBVIOUS
      <4>1. m \in Group(ShaderOf[m])
        BY <1>0, PendingIsDue
      <4>2. ~Begun(m)
        BY <1>0, <3>1 DEF Turn
      <4> QED  BY <1>5, <2>1, <2>2, <3>1, <3>2, <4>1, <4>2
    <3>4. ~Begun(m)' => ~Begun(m)
      BY <1>5, <3>2
    <3>5. Turn(m)'
      BY <1>0, <2>1, <3>1, <3>3, <3>4 DEF Turn
    <3>6. mat[m].status \in Published => ShaderOf[m] < s /\ ground[m] /\ mat[m].reported
      BY <1>0, <1>6, <3>1 DEF Rests, s
    <3>7. Rests(m)'
      BY <1>0, <2>1, <3>1, <3>6 DEF Rests
    <3> QED  BY <3>5, <3>7
  <2>6. MatPublished'
    BY <1>3, <1>9, <2>1, <2>5 DEF MatPublished, AtHand
  <2>7. Resting'
    <3>1. \A p \in ShaderParts : ShaderPath(s, p) \in DOMAIN disk
      <4>1. \A p \in ShaderParts : ShaderBytes(s, p) # Missing
        BY DEF ShaderBytes, Missing
      <4> QED  BY <1>9, <4>1 DEF ShaderOnDisk, At
    <3> QED  BY <1>0, <2>1, <2>5, <3>1 DEF Resting
  <2>8. MatAccounted'
    BY <1>0, <1>7, <1>9, <2>1 DEF MatAccounted
  <2> QED  BY <1>1, <2>3, <2>4, <2>6, <2>7, <2>8
<1> QED  BY <1>2, <1>8, <1>9

(* Where a file of the material goes.                                      *)
LEMMA MaterialPathIs ==
    ASSUME NEW m, NEW i PROVE MaterialPath(m, MaterialOrder[i]) = MatFile(m, i)
  BY DEF MaterialPath, MatFile, References, Refs

(* The dependencies of a material are resolved and its three files         *)
(* examined.                                                               *)
LEMMA ProjectKeeps ==
    ASSUME IInv, stage = "materials", Project, UNCHANGED <<stage, seenOk, exit, tampered>>
    PROVE IInv'
<1> USE DEF IInv, MatInv
<1> DEFINE n == mpc.m
           deps == [i \in DOMAIN slots[n] |-> DependencyStatus(slots[n][i])]
           bad == Range(deps) \ {"null", "exported"}
           found == IF bad # {} THEN <<>> ELSE Examine(n)
           closed == (bad = {})
           projected == [mat EXCEPT ![n].deps = deps, ![n].closed = closed, ![n].pre = found]
<1>0. /\ mpc.at = "material" /\ n \in Materials /\ n \in Nat /\ Active(n) /\ ShaderOf[n] = mpc.s
      /\ mpc = [at |-> "material", s |-> mpc.s, m |-> n] /\ mpc.s \in Shaders /\ mpc.s \in Nat
      /\ UNCHANGED <<version, tvars, disk, wrote, shader, slots, ground>>
      /\ MaterialShape(mat[n]) /\ mat[n].failure # "dependencyAuthority"
  BY MaterialConstants DEF Project, MTyped, Phase, InMaterial, InGroup, MatPublished, AtHand
<1>1. TexInv' /\ DiskTrue' /\ TexAccounted' /\ Ended' /\ TexturesCommitted'
  BY <1>0, MaterialFrame
<1>2. /\ \/ \E why : mat' = MaterialFail(projected, {n}, why) /\ why \in {"texture", "notPublished"}
         \/ mat' = projected /\ bad = {}
      /\ mpc' = [mpc EXCEPT !.at = IF mat'[n].status = "failed" THEN "release" ELSE "publish"]
  BY DEF Project
<1>3. bad = {} => /\ DOMAIN deps = DOMAIN slots[n]
                  /\ \A i \in DOMAIN slots[n] : slots[n][i] \in Textures => deps[i] = "exported"
                  /\ DOMAIN found = 1..3
                  /\ \A i \in 1..3 : found[i] # "missing" => MatFile(n, i) \in DOMAIN disk
  <2> SUFFICES ASSUME bad = {}
               PROVE /\ DOMAIN deps = DOMAIN slots[n]
                     /\ \A i \in DOMAIN slots[n] : slots[n][i] \in Textures => deps[i] = "exported"
                     /\ DOMAIN found = 1..3
                     /\ \A i \in 1..3 : found[i] # "missing" => MatFile(n, i) \in DOMAIN disk
    OBVIOUS
  <2>1. \A i \in DOMAIN slots[n] : slots[n][i] \in Textures => deps[i] = "exported"
    <3>1. \A i \in DOMAIN slots[n] : deps[i] \in {"null", "exported"}
      BY DEF Range
    <3>2. \A i \in DOMAIN slots[n] : slots[n][i] \in Textures => deps[i] # "null"
      BY MaterialConstants DEF DependencyStatus, TextureReference
    <3> QED  BY <3>1, <3>2
  <2>2. DOMAIN Examine(n) = 1..3 /\ \A i \in 1..3 :
          Examine(n)[i] = Preflight(disk, MatFile(n, i), MaterialBytes(n, MaterialOrder[i]))
    BY MaterialConstants, MaterialPathIs DEF Examine
  <2>3. \A i \in 1..3 : Examine(n)[i] # "missing" => MatFile(n, i) \in DOMAIN disk
    BY <2>2 DEF Preflight, At
  <2> QED  BY <2>1, <2>2, <2>3
<1>4. projected = [mat EXCEPT ![n] = [mat[n] EXCEPT !.deps = deps, !.closed = closed, !.pre = found]]
  BY <1>0 DEF MTyped
<1>5. ~Begun(n) /\ Turn(n)
  BY <1>0 DEF MatPublished, Begun, InMaterial
<1>6. /\ mat[n].pub = <<>> /\ mat[n].residue = {} /\ mat[n].reported = FALSE
      /\ mat[n].status \in {"pending", "failed"}
  BY <1>0, <1>5 DEF Turn, MTyped
<1> HIDE DEF projected, closed, found, deps, bad, n
<1>7. /\ DOMAIN projected = Materials /\ \A u \in Materials : u # n => projected[u] = mat[u]
      /\ MaterialShape(projected[n]) /\ projected[n].status = mat[n].status
      /\ projected[n].failure = mat[n].failure /\ projected[n].pub = mat[n].pub
      /\ projected[n].residue = mat[n].residue /\ projected[n].reported = mat[n].reported
      /\ projected[n].deps = deps /\ projected[n].pre = found
  <2>1. DOMAIN projected = Materials /\ \A u \in Materials : u # n => projected[u] = mat[u]
    BY <1>0, <1>4 DEF MTyped
  <2>2. projected[n] = [mat[n] EXCEPT !.deps = deps, !.closed = closed, !.pre = found]
    BY <1>0, <1>4 DEF MTyped
  <2> DEFINE x == mat[n]
             y == projected[n]
  <2>3. MaterialShape(x) /\ y = [x EXCEPT !.deps = deps, !.closed = closed, !.pre = found]
    BY <1>0, <2>2
  <2> HIDE DEF x, y
  <2>4. /\ MaterialShape(y) /\ y.status = x.status /\ y.failure = x.failure /\ y.pub = x.pub
        /\ y.residue = x.residue /\ y.reported = x.reported /\ y.deps = deps /\ y.pre = found
    <3>1. PICK c : y = [x EXCEPT !.deps = deps, !.closed = c, !.pre = found]
      BY <2>3, Zenon
    <3>2. MaterialShape(x)
      BY <2>3
    <3>3. y = [status |-> x.status, failure |-> x.failure, deps |-> deps, closed |-> c,
               pre |-> found, pub |-> x.pub, residue |-> x.residue, reported |-> x.reported]
      BY <3>1, <3>2 DEF MaterialShape
    <3> QED  BY <3>3 DEF MaterialShape
  <2> QED  BY <2>1, <2>4 DEF x, y
<1>8. /\ DOMAIN mat' = Materials /\ \A u \in Materials : u # n => mat'[u] = mat[u]
      /\ MaterialShape(mat'[n]) /\ mat'[n].pub = <<>> /\ mat'[n].residue = {} /\ mat'[n].reported = FALSE
      /\ mat'[n].failure # "dependencyAuthority"
      /\ \/ mat'[n].status = "failed"
         \/ /\ mat'[n].status = "pending" /\ bad = {} /\ mat'[n].deps = deps /\ mat'[n].pre = found
  <2>1. CASE \E why : mat' = MaterialFail(projected, {n}, why) /\ why \in {"texture", "notPublished"}
    <3>1. PICK why : mat' = MaterialFail(projected, {n}, why) /\ why \in {"texture", "notPublished"}
      BY <2>1
    <3>2. \A u \in Materials : MaterialShape(projected[u])
      BY <1>7 DEF MTyped
    <3>3. DOMAIN mat' = Materials
      BY <3>1 DEF MaterialFail
    <3>4. \A u \in Materials : u # n => mat'[u] = mat[u]
      BY <1>7, <3>1, <3>2, MaterialFailing
    <3>5. /\ MaterialShape(mat'[n]) /\ mat'[n].pub = projected[n].pub /\ mat'[n].residue = projected[n].residue
          /\ mat'[n].reported = projected[n].reported /\ mat'[n].status = "failed"
          /\ mat'[n].failure = (IF projected[n].failure = "none" THEN why ELSE projected[n].failure)
      BY <1>0, <3>1, <3>2, MaterialFailing
    <3> QED  BY <1>0, <1>6, <1>7, <3>1, <3>3, <3>4, <3>5
  <2>2. CASE mat' = projected /\ bad = {}
    BY <1>0, <1>6, <1>7, <2>2
  <2> QED  BY <1>2, <2>1, <2>2
<1>9. /\ mpc' = [at |-> mpc'.at, s |-> mpc.s, m |-> n] /\ mpc'.s = mpc.s /\ mpc'.m = n
      /\ \/ mpc'.at = "release" /\ mat'[n].status = "failed"
         \/ /\ mpc'.at = "publish" /\ mat'[n].status = "pending" /\ bad = {}
            /\ mat'[n].deps = deps /\ mat'[n].pre = found
  BY <1>0, <1>2, <1>8
<1>10. mpc'.at \in InGroup /\ mpc'.at \in InMaterial /\ mpc.at \in InGroup /\ mpc.at \in InMaterial
  BY <1>0, <1>9 DEF InGroup, InMaterial
<1>11. MTyped'
  <2>1. \A u \in Materials : /\ MaterialShape(mat'[u]) /\ mat'[u].reported \in BOOLEAN
                             /\ mat'[u].status \in {"pending", "failed", "unselected", "unassociated"} \cup Published
    BY <1>8 DEF MTyped
  <2> QED  BY <1>0, <1>8, <1>9, <1>10, <2>1 DEF MTyped
<1>12. Phase'
  BY <1>0, <1>1, <1>9, <1>10 DEF Phase, InMaterial
<1>13. \A m \in Materials, i \in 1..3 : MatFile(m, i)' = MatFile(m, i)
  BY <1>0 DEF MatFile, tvars
<1>14. ASSUME NEW m \in Materials PROVE Turn(m)' /\ Rests(m)'
  <2>1. CASE m = n
    <3>1. mat'[n].status \notin Published \cup {"unselected", "unassociated"}
      BY <1>8 DEF Published
    <3>2. Begun(m)'
      BY <1>0, <1>9, <2>1 DEF Begun
    <3> QED  BY <1>0, <1>3, <1>8, <1>9, <2>1, <3>1, <3>2 DEF Turn, Rests
  <2>2. CASE m # n
    <3>1. mat'[m] = mat[m] /\ Turn(m) /\ Rests(m)
      BY <1>8, <2>2 DEF MatPublished, Resting
    <3>2. (Begun(m)' <=> Begun(m)) /\ (Released(m)' <=> Released(m))
      BY <1>0, <1>9, <1>10, <2>2 DEF Begun, Released
    <3>3. Turn(m)'
      BY <1>0, <1>9, <2>2, <3>1, <3>2 DEF Turn
    <3>4. ShaderOnDisk(ShaderOf[m])' <=> ShaderOnDisk(ShaderOf[m])
      BY <1>0 DEF ShaderOnDisk
    <3>5. Rests(m)'
      BY <1>0, <1>9, <2>2, <3>1, <3>2, <3>4 DEF Rests
    <3> QED  BY <3>3, <3>5
  <2> QED  BY <2>1, <2>2
<1>15. AtHand'
  <2>1. CASE mpc'.at = "release"
    BY <2>1 DEF AtHand
  <2>2. CASE mpc'.at = "publish"
    <3>1. mat'[n].pub \in Seq(Published) /\ Len(mat'[n].pub) < 3 /\ DOMAIN mat'[n].pub = {}
      <4> DEFINE x == mat'[n].pub
      <4>1. x = <<>>
        BY <1>8
      <4> HIDE DEF x
      <4>2. x \in Seq(Published) /\ Len(x) = 0 /\ DOMAIN x = {}
        BY <4>1, EmptySequence
      <4>3. x \in Seq(Published) /\ Len(x) < 3 /\ DOMAIN x = {}
        BY <4>2
      <4> QED  BY <4>3 DEF x
    <3>2. /\ mat'[n].status = "pending" /\ mat'[n].residue = {} /\ mat'[n].reported = FALSE
          /\ mat'[n].failure # "dependencyAuthority"
      BY <1>8, <1>9, <2>2
    <3>3. /\ DOMAIN mat'[n].pre = 1..3
          /\ \A i \in 1..3 : mat'[n].pre[i] # "missing" => MatFile(n, i) \in DOMAIN disk
      BY <1>3, <1>9, <2>2
    <3>4. \A i \in 1..3 : mat'[mpc'.m].pre[i] # "missing" => MatFile(mpc.m, i)' \in DOMAIN disk'
      BY <1>0, <1>9, <1>13, <3>3 DEF n
    <3> QED  BY <1>0, <1>9, <3>1, <3>2, <3>3, <3>4 DEF AtHand
  <2> QED  BY <1>9, <2>1, <2>2
<1>16. MatPublished'
  BY <1>14, <1>15 DEF MatPublished
<1>17. Resting'
  BY <1>0, <1>9, <1>10, <1>14 DEF Resting
<1>18. MatAccounted'
  <2> SUFFICES ASSUME NEW f \in wrote, f[1] = "material"
               PROVE \E m \in Materials, i \in 1..3 :
                  /\ f[2] = m /\ f = MatFile(m, i)
                  /\ i = 3 => MatFile(m, 1) \in DOMAIN disk /\ MatFile(m, 2) \in DOMAIN disk
                  /\ \/ f \in mat'[m].residue
                     \/ i \in DOMAIN mat'[m].pub /\ mat'[m].pub[i] = "emitted" /\ mat'[m].status # "failed"
    BY <1>0, <1>9, <1>13 DEF MatAccounted
  <2>1. PICK m \in Materials, i \in 1..3 :
          /\ f[2] = m /\ f = MatFile(m, i)
          /\ i = 3 => MatFile(m, 1) \in DOMAIN disk /\ MatFile(m, 2) \in DOMAIN disk
          /\ \/ f \in mat[m].residue
             \/ i \in DOMAIN mat[m].pub /\ mat[m].pub[i] = "emitted" /\ mat[m].status # "failed"
    BY DEF MatAccounted
  <2>2. m # n
    <3>1. DOMAIN mat[n].pub = {} /\ mat[n].residue = {}
      BY <1>6
    <3> QED  BY <2>1, <3>1
  <2> QED  BY <1>8, <2>1, <2>2
<1> QED  BY <1>1, <1>11, <1>12, <1>16, <1>17, <1>18

(* The residue of a material that fails holds what it had created.         *)
LEMMA EmittedFiles ==
    ASSUME NEW m, NEW i \in DOMAIN mat[m].pub, mat[m].pub[i] = "emitted"
    PROVE MatFile(m, i) \in Emitted(m)
  BY MaterialPathIs DEF Emitted

(* The leases of the textures are released: when they are as recorded, the *)
(* material rests on its shader only.                                      *)
LEMMA ReleaseKeeps ==
    ASSUME IInv, stage = "materials", ReleaseTextures, UNCHANGED <<stage, seenOk, exit, tampered>>
    PROVE IInv'
<1> USE DEF IInv, MatInv
<1> DEFINE n == mpc.m
           s == mpc.s
           e == Emitted(n)
<1>0. /\ mpc.at = "release" /\ n \in Materials /\ n \in Nat /\ Active(n) /\ ShaderOf[n] = s
      /\ s \in Shaders /\ s \in Nat /\ MaterialShape(mat[n]) /\ mpc.at \in InGroup /\ mpc.at \in InMaterial
      /\ UNCHANGED <<version, tvars, disk, wrote, shader, slots, ground>>
  BY MaterialConstants DEF ReleaseTextures, MTyped, Phase, InMaterial, InGroup
<1>1. TexInv' /\ DiskTrue' /\ TexAccounted' /\ Ended' /\ TexturesCommitted'
  BY <1>0, MaterialFrame
<1>2. /\ \/ mat' = mat /\ TexturesStable(n)
         \/ mat' = [MaterialFail([mat EXCEPT ![n].failure = "none"], {n}, "textureIdentity") EXCEPT
                           ![n].residue = @ \cup e]
      /\ mpc' = NextIn(s, n)
  BY DEF ReleaseTextures
<1> HIDE DEF e, s, n
<1>3. \A m \in Group(s) : /\ m \in Materials /\ ShaderOf[m] = s /\ Active(m) /\ m \in Nat
                          /\ mat[m].failure # "dependencyAuthority"
  BY MaterialConstants DEF Group, Active
<1>4. /\ mpc' = [at |-> mpc'.at, s |-> s, m |-> mpc'.m] /\ mpc'.s = s
      /\ \/ /\ mpc'.at = "material" /\ mpc'.m \in Group(s) /\ mpc'.m > n
            /\ \A j \in Group(s) : j > n => mpc'.m <= j
         \/ mpc'.at = "close" /\ \A j \in Group(s) : ~(j > n)
  <2> DEFINE x == NextIn(s, n)
  <2>1. /\ x = [at |-> x.at, s |-> x.s, m |-> x.m] /\ x.s = s
        /\ \/ /\ x.at = "material" /\ x.m \in Group(s) /\ x.m > n
              /\ \A j \in Group(s) : j > n => x.m <= j
           \/ x.at = "close" /\ \A j \in Group(s) : ~(j > n)
    BY <1>0, NextInIs
  <2> HIDE DEF x
  <2>2. mpc' = x
    BY <1>2 DEF x
  <2> QED  BY <2>1, <2>2
<1>5. /\ DOMAIN mat' = Materials /\ \A u \in Materials : u # n => mat'[u] = mat[u]
      /\ MaterialShape(mat'[n]) /\ mat'[n].pub = mat[n].pub /\ mat'[n].reported = mat[n].reported
      /\ \/ mat' = mat /\ TexturesStable(n)
         \/ /\ mat'[n].status = "failed" /\ mat'[n].failure = "textureIdentity"
            /\ mat'[n].residue = mat[n].residue \cup e
  <2>1. CASE mat' = mat /\ TexturesStable(n)
    BY <1>0, <2>1 DEF MTyped
  <2>2. CASE mat' = [MaterialFail([mat EXCEPT ![n].failure = "none"], {n}, "textureIdentity") EXCEPT
                           ![n].residue = @ \cup e]
    <3> DEFINE clear == [mat EXCEPT ![n].failure = "none"]
               failed == MaterialFail(clear, {n}, "textureIdentity")
               x == mat[n]
               c == clear[n]
               y == failed[n]
               r == y.residue \cup e
    <3>1. DOMAIN clear = Materials /\ \A u \in Materials : u # n => clear[u] = mat[u]
      BY <1>0 DEF MTyped
    <3>2. c = [x EXCEPT !.failure = "none"]
      BY <1>0 DEF MTyped
    <3>3. MaterialShape(x)
      BY <1>0
    <3> HIDE DEF x, c
    <3>4. c = [status |-> x.status, failure |-> "none", deps |-> x.deps, closed |-> x.closed,
               pre |-> x.pre, pub |-> x.pub, residue |-> x.residue, reported |-> x.reported]
      BY <3>2, <3>3 DEF MaterialShape
    <3>5. MaterialShape(c) /\ c.failure = "none" /\ c.pub = x.pub /\ c.residue = x.residue /\ c.reported = x.reported
      BY <3>4 DEF MaterialShape
    <3>6. \A u \in Materials : MaterialShape(clear[u])
      BY <3>1, <3>5 DEF MTyped, c
    <3> HIDE DEF clear
    <3>7. /\ DOMAIN failed = Materials /\ \A u \in Materials : u # n => failed[u] = clear[u]
      BY <3>6, MaterialFailing DEF MaterialFail
    <3>8. /\ MaterialShape(y) /\ y.pub = c.pub /\ y.residue = c.residue /\ y.reported = c.reported
          /\ y.status = "failed" /\ y.failure = "textureIdentity"
      BY <1>0, <3>5, <3>6, MaterialFailing DEF c
    <3>9. mat' = [failed EXCEPT ![n] = [y EXCEPT !.residue = r]]
      BY <1>0, <2>2, <3>7 DEF clear
    <3> HIDE DEF failed, y, r
    <3>10. [y EXCEPT !.residue = r] =
              [status |-> y.status, failure |-> y.failure, deps |-> y.deps, closed |-> y.closed,
               pre |-> y.pre, pub |-> y.pub, residue |-> r, reported |-> y.reported]
      BY <3>8 DEF MaterialShape
    <3>11. /\ DOMAIN mat' = Materials /\ \A u \in Materials : u # n => mat'[u] = mat[u]
           /\ mat'[n] = [status |-> y.status, failure |-> y.failure, deps |-> y.deps, closed |-> y.closed,
                         pre |-> y.pre, pub |-> y.pub, residue |-> r, reported |-> y.reported]
      BY <1>0, <3>1, <3>7, <3>9, <3>10
    <3>12. /\ MaterialShape(mat'[n]) /\ mat'[n].pub = y.pub /\ mat'[n].reported = y.reported
           /\ mat'[n].status = y.status /\ mat'[n].failure = y.failure /\ mat'[n].residue = r
      BY <3>11 DEF MaterialShape
    <3> QED  BY <3>5, <3>8, <3>11, <3>12 DEF x, r
  <2> QED  BY <1>2, <2>1, <2>2
<1>6. mpc'.at \in InGroup /\ mpc'.at # "publish" /\ mpc'.at # "release" /\ mpc'.at # "idle"
  BY <1>4 DEF InGroup
<1>7. MTyped'
  <2>1. \A u \in Materials : /\ MaterialShape(mat'[u]) /\ mat'[u].reported \in BOOLEAN
                             /\ mat'[u].status \in {"pending", "failed", "unselected", "unassociated"} \cup Published
    BY <1>0, <1>5 DEF MTyped
  <2> QED  BY <1>0, <1>4, <1>5, <1>6, <2>1 DEF MTyped
<1>8. Phase'
  <2>1. mpc'.at \in InMaterial => mpc'.m \in Group(s)
    BY <1>4 DEF InMaterial
  <2> QED  BY <1>0, <1>1, <1>3, <1>4, <1>6, <2>1 DEF Phase
<1>9. \A m \in Materials, i \in 1..3 : MatFile(m, i)' = MatFile(m, i)
  BY <1>0 DEF MatFile, tvars
<1>10. ASSUME NEW m \in Materials PROVE Turn(m)' /\ Rests(m)'
  <2>0. Turn(m) /\ Rests(m) /\ m \in Nat /\ ShaderOf[m] \in Nat
    BY MaterialConstants DEF MatPublished, Resting
  <2>1. Begun(m) <=> ShaderOf[m] < s \/ (ShaderOf[m] = s /\ m <= n)
    BY <1>0, <2>0 DEF Begun, InMaterial, s, n
  <2>2. Begun(m)' <=> ShaderOf[m] < s \/ (ShaderOf[m] = s /\ (mpc'.at = "close" \/ m < mpc'.m))
    BY <1>4, <1>6 DEF Begun, InMaterial
  <2>3. Begun(m) => Begun(m)'
    BY <1>0, <1>3, <1>4, <2>0, <2>1, <2>2
  <2>4. mat[m].status = "pending" => ~Begun(m)' /\ m # n
    <3> SUFFICES ASSUME mat[m].status = "pending" PROVE ~Begun(m)' /\ m # n
      OBVIOUS
    <3>1. ~Begun(m)
      BY <1>0, <2>0 DEF Turn
    <3>2. m \in Group(ShaderOf[m])
      BY <1>0, PendingIsDue
    <3> QED  BY <1>0, <1>3, <1>4, <2>0, <2>1, <2>2, <3>1, <3>2
  <2>5. Released(m)' <=> ShaderOf[m] = s /\ (mpc'.at = "close" \/ m < mpc'.m)
    BY <1>4, <1>6, <2>2 DEF Released, InMaterial
  <2>6. ShaderOnDisk(ShaderOf[m])' <=> ShaderOnDisk(ShaderOf[m])
    BY <1>0 DEF ShaderOnDisk
  <2>7. CASE mat'[m] = mat[m]
    <3>1. Turn(m)'
      BY <1>0, <1>6, <2>0, <2>3, <2>4, <2>7 DEF Turn
    <3>2. CASE m # n
      <4>1. Released(m) => Released(m)'
        BY <1>0, <1>3, <1>4, <2>0, <2>5 DEF Released, InMaterial, s, n
      <4> QED  BY <1>0, <1>4, <2>0, <2>6, <2>7, <3>1, <3>2, <4>1 DEF Rests, s, n
    <3>3. CASE m = n
      <4>1. ~Released(m) /\ Released(m)'
        <5>1. ~Released(m)
          BY <1>0, <2>0, <3>3 DEF Released, InMaterial, n
        <5>2. Released(m)'
          BY <1>0, <1>3, <1>4, <2>5, <3>3
        <5> QED  BY <5>1, <5>2
      <4>2. mat[m].status \in Published /\ ShaderOnDisk(ShaderOf[m]) => Grounded(m)
        <5> SUFFICES ASSUME mat[m].status \in Published, ShaderOnDisk(ShaderOf[m]) PROVE Grounded(m)
          OBVIOUS
        <5>1. TexturesStable(m)
          BY <1>5, <2>7, <3>3 DEF Published
        <5>2. /\ DOMAIN mat[m].deps = DOMAIN slots[m]
              /\ \A i \in DOMAIN slots[m] : slots[m][i] \in Textures => mat[m].deps[i] = "exported"
          BY <2>0 DEF Turn
        <5>3. \A i \in DOMAIN slots[m] : slots[m][i] \in Textures => Exported(slots[m][i])
          BY <5>1, <5>2 DEF TexturesStable
        <5>4. \A t \in Range(slots[m]) \cap Textures : Exported(t)
          BY <5>3 DEF Range
        <5> QED  BY <5>4 DEF Grounded
      <4> QED  BY <1>0, <1>4, <2>0, <2>6, <2>7, <3>1, <4>1, <4>2 DEF Rests, s
    <3> QED  BY <3>2, <3>3
  <2>8. CASE mat'[m] # mat[m]
    <3>1. m = n /\ mat'[m].status = "failed" /\ mat'[m].failure = "textureIdentity"
      BY <1>5, <2>8
    <3>2. Begun(m)'
      BY <1>0, <2>1, <2>3, <3>1
    <3>3. mat'[m].status \notin Published \cup {"pending", "unselected", "unassociated"}
      BY <3>1 DEF Published
    <3> QED  BY <1>0, <1>6, <3>1, <3>2, <3>3 DEF Turn, Rests
  <2> QED  BY <2>7, <2>8
<1>11. AtHand'
  <2>1. mpc'.at = "material" => mat'[mpc'.m].failure # "dependencyAuthority"
    BY <1>0, <1>3, <1>4, <1>5
  <2> QED  BY <1>6, <2>1 DEF AtHand
<1>12. MatPublished'
  BY <1>10, <1>11 DEF MatPublished
<1>13. Resting'
  BY <1>0, <1>4, <1>10 DEF Resting, s
<1>14. MatAccounted'
  <2> SUFFICES ASSUME NEW f \in wrote, f[1] = "material"
               PROVE \E m \in Materials, i \in 1..3 :
                  /\ f[2] = m /\ f = MatFile(m, i)
                  /\ i = 3 => MatFile(m, 1) \in DOMAIN disk /\ MatFile(m, 2) \in DOMAIN disk
                  /\ \/ f \in mat'[m].residue
                     \/ i \in DOMAIN mat'[m].pub /\ mat'[m].pub[i] = "emitted" /\ mat'[m].status # "failed"
    BY <1>0, <1>6, <1>9 DEF MatAccounted
  <2>1. PICK m \in Materials, i \in 1..3 :
          /\ f[2] = m /\ f = MatFile(m, i)
          /\ i = 3 => MatFile(m, 1) \in DOMAIN disk /\ MatFile(m, 2) \in DOMAIN disk
          /\ \/ f \in mat[m].residue
             \/ i \in DOMAIN mat[m].pub /\ mat[m].pub[i] = "emitted" /\ mat[m].status # "failed"
    BY DEF MatAccounted
  <2>2. CASE mat'[m] = mat[m]
    BY <2>1, <2>2
  <2>3. CASE mat'[m] # mat[m]
    <3>1. m = n /\ mat'[m].residue = mat[m].residue \cup e
      BY <1>5, <2>3
    <3>2. f \in mat'[m].residue
      BY <2>1, <3>1, EmittedFiles DEF e
    <3> QED  BY <2>1, <3>2
  <2> QED  BY <2>2, <2>3
<1> QED  BY <1>1, <1>7, <1>8, <1>12, <1>13, <1>14

(* The files of the shader are closed: when they are as recorded, the      *)
(* whole group was grounded, otherwise it is revoked.                      *)
LEMMA CloseGroupKeeps ==
    ASSUME IInv, stage = "materials", CloseGroup, UNCHANGED <<stage, seenOk, exit, tampered>>
    PROVE IInv'
<1> USE DEF IInv, MatInv
<1> DEFINE s == mpc.s
<1>0. /\ mpc.at = "close" /\ s \in Shaders /\ s \in Nat /\ s + 1 \in Nat
      /\ UNCHANGED <<version, tvars, disk, wrote, shader, slots, ground>>
      /\ mpc' = [at |-> "group", s |-> s + 1, m |-> 0]
  <2>1. /\ mpc.at = "close" /\ UNCHANGED <<version, tvars, disk, wrote, shader, slots, ground>>
        /\ mpc' = [at |-> "group", s |-> s + 1, m |-> 0]
    BY DEF CloseGroup
  <2>2. s \in Shaders /\ s \in Nat /\ s + 1 \in Nat
    <3>1. mpc.s \in Shaders
      BY <2>1 DEF Phase, InGroup
    <3>2. s \in Nat
      BY <3>1, MaterialConstants
    <3>3. s + 1 \in Nat
      BY <3>2
    <3> QED  BY <3>1, <3>2, <3>3
  <2> QED  BY <2>1, <2>2
<1>1. TexInv' /\ DiskTrue' /\ TexAccounted' /\ Ended' /\ TexturesCommitted'
  BY <1>0, MaterialFrame
<1>2. \/ /\ ShaderOnDisk(s)
         /\ mat' = [m \in Materials |->
              IF m \notin Group(s) THEN mat[m] ELSE [mat[m] EXCEPT !.reported = TRUE]]
      \/ mat' = [m \in Materials |->
              IF m \notin Group(s) THEN mat[m]
              ELSE [mat[m] EXCEPT !.status = "failed", !.reported = TRUE,
                                  !.failure = IF @ = "textureIdentity" THEN @ ELSE "shaderIdentity",
                                  !.residue = @ \cup Emitted(m)]]
  <2>1. PICK broken \in BOOLEAN : mat' = [m \in Materials |->
               IF m \notin Group(s) THEN mat[m]
               ELSE IF ShaderStable(s) /\ ~broken THEN [mat[m] EXCEPT !.reported = TRUE]
               ELSE [mat[m] EXCEPT !.status = "failed", !.reported = TRUE,
                                   !.failure = IF @ = "textureIdentity" THEN @ ELSE "shaderIdentity",
                                   !.residue = @ \cup Emitted(m)]]
    BY DEF CloseGroup
  <2>2. CASE ShaderStable(s) /\ ~broken
    BY <2>1, <2>2, Zenon DEF ShaderStable
  <2>3. CASE ~(ShaderStable(s) /\ ~broken)
    BY <2>1, <2>3, Zenon
  <2> QED  BY <2>2, <2>3
<1> HIDE DEF s
(* What becomes of a material of the group.                                *)
<1>3. ASSUME NEW m \in Group(s)
      PROVE /\ MaterialShape(mat'[m]) /\ mat'[m].reported = TRUE
            /\ mat'[m].pub = mat[m].pub /\ mat'[m].deps = mat[m].deps
            /\ \/ /\ ShaderOnDisk(s) /\ mat'[m].status = mat[m].status
                  /\ mat'[m].failure = mat[m].failure /\ mat'[m].residue = mat[m].residue
               \/ /\ mat'[m].status = "failed" /\ mat'[m].failure # "dependencyAuthority"
                  /\ mat'[m].residue = mat[m].residue \cup Emitted(m)
  <2> DEFINE x == mat[m]
             y == mat'[m]
             e == Emitted(m)
             why == IF x.failure = "textureIdentity" THEN x.failure ELSE "shaderIdentity"
             left == x.residue \cup e
  <2>0. m \in Materials /\ MaterialShape(x)
    BY DEF Group, MTyped
  <2>1. \/ ShaderOnDisk(s) /\ y = [x EXCEPT !.reported = TRUE]
        \/ y = [x EXCEPT !.status = "failed", !.reported = TRUE, !.failure = why, !.residue = left]
    <3>1. CASE /\ ShaderOnDisk(s)
               /\ mat' = [u \in Materials |->
                    IF u \notin Group(s) THEN mat[u] ELSE [mat[u] EXCEPT !.reported = TRUE]]
      BY <2>0, <3>1
    <3>2. CASE mat' = [u \in Materials |->
              IF u \notin Group(s) THEN mat[u]
              ELSE [mat[u] EXCEPT !.status = "failed", !.reported = TRUE,
                                  !.failure = IF @ = "textureIdentity" THEN @ ELSE "shaderIdentity",
                                  !.residue = @ \cup Emitted(u)]]
      BY <2>0, <3>2 DEF MaterialShape
    <3> QED  BY <1>2, <3>1, <3>2
  <2>2. why # "dependencyAuthority"
    OBVIOUS
  <2> HIDE DEF x, y, e, why, left
  <2>3. CASE ShaderOnDisk(s) /\ y = [x EXCEPT !.reported = TRUE]
    <3>1. PICK c : c = TRUE /\ y = [x EXCEPT !.reported = c]
      BY <2>3, Zenon
    <3>2. y = [status |-> x.status, failure |-> x.failure, deps |-> x.deps, closed |-> x.closed,
               pre |-> x.pre, pub |-> x.pub, residue |-> x.residue, reported |-> c]
      BY <2>0, <3>1 DEF MaterialShape
    <3>3. MaterialShape(y) /\ y.reported = c /\ y.pub = x.pub /\ y.deps = x.deps /\ y.status = x.status
          /\ y.failure = x.failure /\ y.residue = x.residue
      BY <3>2 DEF MaterialShape
    <3> QED  BY <2>3, <3>1, <3>3 DEF x, y
  <2>4. CASE y = [x EXCEPT !.status = "failed", !.reported = TRUE, !.failure = why, !.residue = left]
    <3>1. PICK c : c = TRUE /\ y = [x EXCEPT !.status = "failed", !.reported = c, !.failure = why, !.residue = left]
      BY <2>4, Zenon
    <3>2. y = [status |-> "failed", failure |-> why, deps |-> x.deps, closed |-> x.closed,
               pre |-> x.pre, pub |-> x.pub, residue |-> left, reported |-> c]
      BY <2>0, <3>1 DEF MaterialShape
    <3>3. MaterialShape(y) /\ y.reported = c /\ y.pub = x.pub /\ y.deps = x.deps /\ y.status = "failed"
          /\ y.failure = why /\ y.residue = left
      BY <3>2 DEF MaterialShape
    <3> QED  BY <2>2, <3>1, <3>3 DEF x, y, left, e
  <2> QED  BY <2>1, <2>3, <2>4
<1>4. /\ DOMAIN mat' = Materials
      /\ \A m \in Materials : m \notin Group(s) => mat'[m] = mat[m]
  BY <1>2
<1>5. Group(s) \subseteq Materials /\ \A m \in Group(s) : ShaderOf[m] = s /\ Active(m) /\ mat[m].failure # "dependencyAuthority"
  BY DEF Group, Active
<1> HIDE <1>2
<1>6. MTyped'
  <2>1. \A m \in Materials :
          /\ MaterialShape(mat'[m]) /\ mat'[m].reported \in BOOLEAN
          /\ mat'[m].status \in {"pending", "failed", "unselected", "unassociated"} \cup Published
    BY <1>3, <1>4 DEF MTyped
  <2> QED  BY <1>0, <1>4, <2>1 DEF MTyped
<1>7. Phase'
  BY <1>0, <1>1 DEF Phase, InGroup, InMaterial
<1>8. \A m \in Materials, i \in 1..3 : MatFile(m, i)' = MatFile(m, i)
  BY <1>0 DEF MatFile, tvars
<1>9. ASSUME NEW m \in Materials PROVE Turn(m)' /\ Rests(m)'
  <2>0. Turn(m) /\ Rests(m) /\ m \in Nat /\ ShaderOf[m] \in Nat /\ mpc.s = s
    BY MaterialConstants DEF MatPublished, Resting, s
  <2>1. mpc'.at = "group" /\ mpc'.s = s + 1
    BY <1>0
  <2>2. Begun(m)' <=> Begun(m)
    BY <1>0, <2>0, <2>1 DEF Begun, InMaterial
  <2>3. CASE m \in Group(s)
    <3>1. Begun(m) /\ mat[m].status # "pending"
      BY <1>0, <1>5, <2>0, <2>3 DEF Begun, Turn
    <3>2. Turn(m)'
      <4>1. mat'[m].status = mat[m].status \/ mat'[m].status = "failed"
        BY <1>3, <2>3
      <4>2. /\ mat'[m].failure # "dependencyAuthority" /\ mat'[m].pub = mat[m].pub
            /\ mat'[m].deps = mat[m].deps
        BY <1>3, <1>5, <2>3
      <4>3. mat'[m].status # "pending" /\ Begun(m)'
        BY <2>2, <3>1, <4>1
      <4>4. mat'[m].status \in Published => mat[m].status \in Published
        BY <4>1 DEF Published
      <4>5. Active(m) /\ (mat'[m].status \notin {"unselected", "unassociated"})
        BY <1>5, <2>0, <2>3, <4>1 DEF Turn
      <4> QED  BY <1>0, <2>0, <2>1, <4>2, <4>3, <4>4, <4>5 DEF Turn
    <3>3. mat'[m].status \in Published => mat[m].status \in Published /\ ShaderOnDisk(s)
      BY <1>3, <2>3 DEF Published
    <3>4. mat'[m].status \in Published => ground[m]
      <4> SUFFICES ASSUME mat'[m].status \in Published PROVE ground[m]
        OBVIOUS
      <4> QED  BY <1>0, <1>5, <2>0, <2>3, <3>3 DEF Rests
    <3>5. Rests(m)'
      <4>1. ShaderOf[m] < mpc'.s
        BY <1>0, <1>5, <2>1, <2>3
      <4>2. mat'[m].reported
        BY <1>3, <2>3, Zenon
      <4>3. mat'[m].status \in Published => ground'[m]
        BY <1>0, <3>4
      <4> QED  BY <4>1, <4>2, <4>3 DEF Rests
    <3> QED  BY <3>2, <3>5
  <2>4. CASE m \notin Group(s)
    <3>1. mat'[m] = mat[m]
      BY <1>4, <2>4
    <3>2. mat[m].status \in Published \/ mat[m].status = "pending" => ShaderOf[m] # s
      BY <1>0, <2>0, <2>4 DEF Turn, Group, Active
    <3>3. mat[m].status = "pending" => ~Begun(m)
      BY <1>0, <2>0 DEF Turn
    <3>4. Turn(m)'
      BY <1>0, <2>0, <2>1, <2>2, <3>1, <3>3 DEF Turn
    <3>5. mat[m].status \in Published => ShaderOf[m] < s /\ ground[m] /\ mat[m].reported
      BY <1>0, <2>0, <3>2 DEF Rests, Released
    <3>6. Rests(m)'
      BY <1>0, <2>0, <2>1, <3>1, <3>5 DEF Rests
    <3> QED  BY <3>4, <3>6
  <2> QED  BY <2>3, <2>4
<1>10. MatPublished'
  <2>1. AtHand'
    BY <1>0 DEF AtHand
  <2> QED  BY <1>9, <2>1 DEF MatPublished
<1>11. Resting'
  BY <1>0, <1>9 DEF Resting, InGroup
<1>12. MatAccounted'
  <2> SUFFICES ASSUME NEW f \in wrote, f[1] = "material"
               PROVE \E m \in Materials, i \in 1..3 :
                  /\ f[2] = m /\ f = MatFile(m, i)
                  /\ i = 3 => MatFile(m, 1) \in DOMAIN disk /\ MatFile(m, 2) \in DOMAIN disk
                  /\ \/ f \in mat'[m].residue
                     \/ i \in DOMAIN mat'[m].pub /\ mat'[m].pub[i] = "emitted" /\ mat'[m].status # "failed"
    BY <1>0, <1>8 DEF MatAccounted
  <2>1. PICK m \in Materials, i \in 1..3 :
          /\ f[2] = m /\ f = MatFile(m, i)
          /\ i = 3 => MatFile(m, 1) \in DOMAIN disk /\ MatFile(m, 2) \in DOMAIN disk
          /\ \/ f \in mat[m].residue
             \/ i \in DOMAIN mat[m].pub /\ mat[m].pub[i] = "emitted" /\ mat[m].status # "failed"
    BY DEF MatAccounted
  <2>2. CASE m \notin Group(s)
    BY <1>4, <2>1, <2>2
  <2>3. CASE m \in Group(s) /\ mat'[m].residue = mat[m].residue \cup Emitted(m)
    <3>1. f \in mat'[m].residue
      BY <2>1, <2>3, EmittedFiles
    <3> QED  BY <2>1, <3>1
  <2>4. CASE m \in Group(s) /\ mat'[m].status = mat[m].status /\ mat'[m].residue = mat[m].residue
    <3>1. mat'[m].pub = mat[m].pub
      BY <1>3, <2>4
    <3> QED  BY <2>1, <2>4, <3>1
  <2> QED  BY <1>3, <2>2, <2>3, <2>4
<1> QED  BY <1>1, <1>6, <1>7, <1>10, <1>11, <1>12

(* One file of a material is published; the .mat is grounded if the files  *)
(* of its shader and textures are those recorded at that moment.           *)
LEMMA PublishMaterialKeeps ==
    ASSUME IInv, stage = "materials", PublishMaterial, UNCHANGED <<stage, seenOk, exit, tampered>>
    PROVE IInv'
<1> USE DEF IInv, MatInv
<1> DEFINE n == mpc.m
           x == mat[n]
           k == Len(x.pub) + 1
           f == MatFile(n, k)
           bytes == MaterialBytes(n, MaterialOrder[k])
           e == Emitted(n)
<1>0. /\ mpc.at = "publish" /\ n \in Materials /\ n \in Nat /\ Active(n) /\ ShaderOf[n] = mpc.s
      /\ mpc = [at |-> "publish", s |-> mpc.s, m |-> n] /\ mpc.s \in Nat /\ mpc.at \in InGroup /\ mpc.at \in InMaterial
      /\ UNCHANGED <<version, tvars, shader, slots>>
  <2>1. mpc.at = "publish" /\ UNCHANGED <<version, tvars, shader, slots>>
    BY DEF PublishMaterial
  <2>2. mpc.at \in InGroup /\ mpc.at \in InMaterial
    BY <2>1 DEF InGroup, InMaterial
  <2>3. n \in Materials /\ Active(n) /\ ShaderOf[n] = mpc.s
    BY <2>2 DEF Phase
  <2>4. n \in Nat
    BY <2>3, MaterialConstants
  <2> QED  BY <2>1, <2>2, <2>3, <2>4 DEF MTyped
<1>1. /\ MaterialShape(x) /\ x.status = "pending" /\ x.residue = {} /\ x.reported = FALSE
      /\ x.failure # "dependencyAuthority" /\ x.pub \in Seq(Published) /\ k \in 1..3
      /\ Len(x.pub) \in Nat /\ DOMAIN x.pub = 1..(k - 1) /\ DOMAIN x.pre = 1..3
      /\ \A i \in 1..3 : x.pre[i] # "missing" => MatFile(n, i) \in DOMAIN disk
      /\ \A i \in DOMAIN x.pub : MatFile(n, i) \in DOMAIN disk
  <2>1. /\ x.status = "pending" /\ x.residue = {} /\ x.reported = FALSE
        /\ x.failure # "dependencyAuthority" /\ x.pub \in Seq(Published) /\ Len(x.pub) < 3
        /\ DOMAIN x.pre = 1..3
        /\ \A i \in 1..3 : x.pre[i] # "missing" => MatFile(n, i) \in DOMAIN disk
        /\ \A i \in DOMAIN x.pub : MatFile(n, i) \in DOMAIN disk
    BY <1>0 DEF MatPublished, AtHand
  <2>2. MaterialShape(x)
    BY <1>0 DEF MTyped
  <2>3. Len(x.pub) \in Nat /\ DOMAIN x.pub = 1..Len(x.pub)
    BY <2>1
  <2> DEFINE l == Len(x.pub)
  <2>4. l \in Nat /\ l < 3
    BY <2>1, <2>3
  <2> HIDE DEF x, l
  <2>5. l + 1 \in 1..3 /\ (l + 1) - 1 = l
    BY <2>4
  <2> QED  BY <2>1, <2>2, <2>3, <2>5 DEF l
<1>2. PICK out \in {PublishExact(disk, f, bytes)} \cup PublishFails(disk, f, bytes) :
        /\ disk' = out.now
        /\ wrote' = wrote \cup (DOMAIN disk' \ DOMAIN disk)
        /\ ground' = IF MaterialOrder[k] = "mat" THEN [ground EXCEPT ![n] = Grounded(n)] ELSE ground
        /\ IF out.is \in Published
           THEN /\ mat' = [mat EXCEPT ![n].pub = Append(mat[n].pub, out.is),
                             ![n].status = IF k < Len(MaterialOrder) THEN @
                                ELSE IF "emitted" \in Range(Append(mat[n].pub, out.is)) THEN "emitted" ELSE "unchanged"]
                /\ mpc' = IF k < Len(MaterialOrder) THEN mpc ELSE [mpc EXCEPT !.at = "release"]
           ELSE /\ mat' = [MaterialFail(mat, {n}, "notPublished") EXCEPT
                             ![n].pub = Append(mat[n].pub, out.is),
                             ![n].residue = Emitted(n) \cup
                                (IF ResiduePossible(mat[n].pre[k], out, f, bytes) THEN {f} ELSE {})]
                /\ mpc' = [mpc EXCEPT !.at = "release"]
  <2>1. f = MaterialPath(n, MaterialOrder[k])
    BY MaterialPathIs
  <2> HIDE DEF f
  <2> QED  BY <2>1 DEF PublishMaterial
<1> DEFINE R == IF ResiduePossible(x.pre[k], out, f, bytes) THEN {f} ELSE {}
           pb == Append(x.pub, out.is)
           left == e \cup R
           st == IF k < 3 THEN x.status ELSE IF "emitted" \in Range(pb) THEN "emitted" ELSE "unchanged"
(* The output directory.                                                   *)
<1>3. /\ out.is \in Published \cup {"collision", "ioError"}
      /\ disk' = [g \in DOMAIN disk' |-> disk'[g]]
      /\ DOMAIN disk \subseteq DOMAIN disk' /\ DOMAIN disk' \subseteq DOMAIN disk \cup {f}
      /\ \A g \in DOMAIN disk : disk'[g] = disk[g]
      /\ \A g \in DOMAIN disk' : disk'[g] # Missing
      /\ out.is \in Published => f \in DOMAIN disk'
      /\ f \in DOMAIN disk' \ DOMAIN disk =>
           \/ out.is = "emitted"
           \/ out.is = "ioError" /\ (x.pre[k] = "missing" => ResiduePossible(x.pre[k], out, f, bytes))
  <2>1. bytes # Missing
    BY DEF MaterialBytes, Missing
  <2> HIDE DEF f, bytes, k, x
  <2>2. out \in {PublishExact(disk, f, bytes)} \cup PublishFails(disk, f, bytes) /\ disk' = out.now
    BY <1>2
  <2>3. disk = [g \in DOMAIN disk |-> disk[g]] /\ \A g \in DOMAIN disk : disk[g] # Missing
    BY DEF DiskTrue
  <2>4. /\ out.is \in Published \cup {"collision", "ioError"}
        /\ out.now = [g \in DOMAIN out.now |-> out.now[g]]
        /\ DOMAIN disk \subseteq DOMAIN out.now /\ DOMAIN out.now \subseteq DOMAIN disk \cup {f}
        /\ \A g \in DOMAIN disk : out.now[g] = disk[g]
        /\ \A g \in DOMAIN out.now : out.now[g] # Missing
        /\ out.is \in Published => f \in DOMAIN out.now
        /\ f \in DOMAIN out.now \ DOMAIN disk =>
             \/ out.is = "emitted"
             \/ out.is = "ioError" /\ (x.pre[k] = "missing" => ResiduePossible(x.pre[k], out, f, bytes))
    BY <2>1, <2>2, <2>3, Publishing
  <2> QED  BY <2>2, <2>4
<1>4. f[1] = "material" /\ f[2] = n
  BY DEF MatFile
<1>5. mat' = IF out.is \in Published
             THEN [mat EXCEPT ![n] = [x EXCEPT !.pub = pb, !.status = st]]
             ELSE [MaterialFail(mat, {n}, "notPublished") EXCEPT
                     ![n] = [MaterialFail(mat, {n}, "notPublished")[n] EXCEPT !.pub = pb, !.residue = left]]
  <2>1. CASE out.is \in Published
    <3>1. mat' = [mat EXCEPT ![n].pub = pb, ![n].status = IF k < 3 THEN @
                                ELSE IF "emitted" \in Range(pb) THEN "emitted" ELSE "unchanged"]
      BY <1>2, <2>1, MaterialConstants
    <3> HIDE DEF pb, k
    <3> QED  BY <1>0, <1>1, <2>1, <3>1 DEF MTyped
  <2>2. CASE out.is \notin Published
    <3>1. mat' = [MaterialFail(mat, {n}, "notPublished") EXCEPT ![n].pub = pb, ![n].residue = left]
      BY <1>2, <2>2
    <3>2. DOMAIN MaterialFail(mat, {n}, "notPublished") = Materials
      BY DEF MaterialFail
    <3> HIDE DEF pb, left
    <3> QED  BY <1>0, <2>2, <3>1, <3>2
  <2> QED  BY <2>1, <2>2
<1>6. /\ mpc' = [at |-> mpc'.at, s |-> mpc.s, m |-> n] /\ mpc'.s = mpc.s /\ mpc'.m = n
      /\ \/ out.is \in Published /\ k < 3 /\ mpc'.at = "publish"
         \/ out.is \in Published /\ k = 3 /\ mpc'.at = "release"
         \/ out.is \notin Published /\ mpc'.at = "release"
  BY <1>0, <1>1, <1>2, MaterialConstants
<1>7. /\ DOMAIN ground' = Materials /\ \A m \in Materials : m # n => ground'[m] = ground[m]
      /\ k = 3 => (ground'[n] = Grounded(n))
  <2>1. MaterialOrder[k] = "mat" <=> k = 3
    BY <1>1, MaterialConstants
  <2>2. DOMAIN ground = Materials
    BY DEF MTyped
  <2> DEFINE G == Grounded(n)
  <2>3. ground' = IF k = 3 THEN [ground EXCEPT ![n] = G] ELSE ground
    BY <1>2, <2>1
  <2> HIDE DEF G
  <2> QED  BY <1>0, <2>2, <2>3 DEF G
<1> HIDE DEF st, left, pb, R, bytes, f, k, x, n
<1> DEFINE y == mat'[n]
(* The record at hand.                                                     *)
<1>8. /\ DOMAIN mat' = Materials /\ \A m \in Materials : m # n => mat'[m] = mat[m]
      /\ MaterialShape(y) /\ y.pub = pb /\ y.deps = x.deps /\ y.pre = x.pre /\ y.reported = FALSE
      /\ y.failure # "dependencyAuthority"
      /\ \/ out.is \in Published /\ y.status = st /\ y.residue = {}
         \/ out.is \notin Published /\ y.status = "failed" /\ y.residue = left
  <2>1. CASE out.is \in Published
    <3>1. mat' = [mat EXCEPT ![n] = [x EXCEPT !.pub = pb, !.status = st]]
      BY <1>5, <2>1
    <3>2. /\ DOMAIN mat' = Materials /\ \A m \in Materials : m # n => mat'[m] = mat[m]
          /\ y = [x EXCEPT !.pub = pb, !.status = st]
      BY <1>0, <3>1 DEF MTyped
    <3> HIDE DEF y
    <3>3. y = [status |-> st, failure |-> x.failure, deps |-> x.deps, closed |-> x.closed,
               pre |-> x.pre, pub |-> pb, residue |-> x.residue, reported |-> x.reported]
      BY <1>1, <3>2 DEF MaterialShape
    <3>4. MaterialShape(y) /\ y.status = st /\ y.failure = x.failure /\ y.deps = x.deps /\ y.pre = x.pre
          /\ y.pub = pb /\ y.residue = x.residue /\ y.reported = x.reported
      BY <3>3 DEF MaterialShape
    <3> QED  BY <1>1, <2>1, <3>2, <3>4
  <2>2. CASE out.is \notin Published
    <3> DEFINE failed == MaterialFail(mat, {n}, "notPublished")
               z == failed[n]
    <3>1. mat' = [failed EXCEPT ![n] = [z EXCEPT !.pub = pb, !.residue = left]]
      BY <1>5, <2>2
    <3>2. \A m \in Materials : MaterialShape(mat[m])
      BY DEF MTyped
    <3>3. DOMAIN failed = Materials /\ \A m \in Materials : m # n => failed[m] = mat[m]
      BY <3>2, MaterialFailing DEF MaterialFail
    <3>4. /\ MaterialShape(z) /\ z.deps = x.deps /\ z.pre = x.pre /\ z.reported = x.reported
          /\ z.status = "failed" /\ z.failure = (IF x.failure = "none" THEN "notPublished" ELSE x.failure)
      <4>1. n \in {n}
        OBVIOUS
      <4> QED  BY <1>0, <3>2, <4>1, MaterialFailing DEF x
    <3> HIDE DEF failed
    <3>5. /\ DOMAIN mat' = Materials /\ \A m \in Materials : m # n => mat'[m] = mat[m]
          /\ y = [z EXCEPT !.pub = pb, !.residue = left]
      BY <1>0, <3>1, <3>3
    <3> HIDE DEF y, z
    <3>6. y = [status |-> z.status, failure |-> z.failure, deps |-> z.deps, closed |-> z.closed,
               pre |-> z.pre, pub |-> pb, residue |-> left, reported |-> z.reported]
      BY <3>4, <3>5 DEF MaterialShape
    <3>7. MaterialShape(y) /\ y.status = z.status /\ y.failure = z.failure /\ y.deps = z.deps /\ y.pre = z.pre
          /\ y.pub = pb /\ y.residue = left /\ y.reported = z.reported
      BY <3>6 DEF MaterialShape
    <3>8. y.failure # "dependencyAuthority"
      BY <1>1, <3>4, <3>7
    <3> QED  BY <1>1, <2>2, <3>4, <3>5, <3>7, <3>8
  <2> QED  BY <2>1, <2>2
<1>9. out.is \in Published =>
        /\ pb \in Seq(Published) /\ Len(pb) = k /\ DOMAIN pb = DOMAIN x.pub \cup {k} /\ pb[k] = out.is
        /\ \A i \in DOMAIN x.pub : pb[i] = x.pub[i]
  BY <1>1, MorePublished DEF pb, k
<1>10. (k < 3 => st = "pending") /\ (~(k < 3) => st \in Published) /\ st # "failed"
  BY <1>1 DEF st, Published
<1> HIDE DEF y
<1>11. TexInv' /\ DiskTrue' /\ TexAccounted'
  <2>1. \A g \in DOMAIN disk' \ DOMAIN disk : g[1] # "texture"
    BY <1>3, <1>4
  <2>2. wrote' \subseteq DOMAIN disk' /\ \A g \in wrote' : g \in wrote \/ g \in DOMAIN disk' \ DOMAIN disk
    BY <1>2, <1>3 DEF DiskTrue
  <2>3. tampered' \subseteq DOMAIN disk' /\ \A g \in tampered' : disk'[g] = Foreign
    BY <1>3 DEF DiskTrue
  <2> QED  BY <1>0, <1>3, <2>1, <2>2, <2>3, DiskFrame
<1>12. Ended' /\ TexturesCommitted'
  BY <1>0 DEF Ended, Phase, TexturesCommitted, tvars
<1>13. mpc'.at \in InGroup /\ mpc'.at \in InMaterial /\ mpc'.at \in {"publish", "release"}
  BY <1>6 DEF InGroup, InMaterial
<1>14. MTyped'
  <2>1. \A m \in Materials :
          /\ MaterialShape(mat'[m]) /\ mat'[m].reported \in BOOLEAN
          /\ mat'[m].status \in {"pending", "failed", "unselected", "unassociated"} \cup Published
    BY <1>8, <1>10 DEF MTyped, y
  <2> QED  BY <1>0, <1>6, <1>7, <1>8, <1>13, <2>1 DEF MTyped
<1>15. Phase'
  BY <1>0, <1>6, <1>12, <1>13 DEF Phase
<1>16. \A m \in Materials, i \in 1..3 : MatFile(m, i)' = MatFile(m, i)
  BY <1>0 DEF MatFile, tvars
<1>17. ASSUME NEW m \in Materials PROVE Turn(m)' /\ Rests(m)'
  <2>0. Turn(m) /\ Rests(m) /\ mpc.m = n
    BY DEF MatPublished, Resting, n
  <2>1. (Begun(m)' <=> Begun(m)) /\ (Released(m)' <=> Released(m))
    BY <1>0, <1>6, <1>13, <2>0 DEF Begun, Released
  <2>2. CASE m = n
    <3>1. Begun(m)'
      BY <1>0, <1>6, <1>13, <2>2 DEF Begun
    <3>2. mat'[m] = y /\ mat[m] = x
      BY <2>2 DEF x, y
    <3>3. /\ DOMAIN x.deps = DOMAIN slots[m]
          /\ \A i \in DOMAIN slots[m] : slots[m][i] \in Textures => x.deps[i] = "exported"
      BY <1>0, <2>0, <2>2, <3>2 DEF Turn
    <3>4. y.status \in Published => out.is \in Published /\ k = 3 /\ mpc'.at = "release"
      BY <1>1, <1>6, <1>8, <1>10 DEF Published
    <3>5. y.status \in Published => Len(y.pub) = 3
      BY <1>8, <1>9, <3>4
    <3>6. y.status = "pending" => mpc'.at = "publish" /\ m = mpc'.m
      BY <1>1, <1>6, <1>8, <1>10, <2>2 DEF Published
    <3>7. y.status \notin {"unselected", "unassociated"}
      BY <1>8, <1>10 DEF Published
    <3>8. Turn(m)'
      BY <1>0, <1>8, <2>2, <3>1, <3>2, <3>3, <3>5, <3>6, <3>7 DEF Turn
    <3>9. \A p \in ShaderParts : ShaderPath(ShaderOf[m], p) \in DOMAIN disk
      BY <1>0, <2>2 DEF Resting
    <3>10. Grounded(m)' => Grounded(m)
      BY <1>0, <1>3, <3>9, GroundedBack DEF tvars
    <3>11. y.status \in Published => ground'[m] = Grounded(m)
      BY <1>7, <2>2, <3>4
    <3>12. Rests(m)'
      <4> SUFFICES ASSUME y.status \in Published PROVE Rests(m)'
        BY <3>2 DEF Rests
      <4>1. ~mat'[m].reported
        BY <1>8, <3>2
      <4>2. Grounded(m)' => ground'[m]
        BY <3>10, <3>11, Zenon
      <4> QED  BY <1>6, <2>2, <3>4, <4>1, <4>2 DEF Rests
    <3> QED  BY <3>8, <3>12
  <2>3. CASE m # n
    <3>1. mat'[m] = mat[m] /\ ground'[m] = ground[m]
      BY <1>7, <1>8, <2>3
    <3>2. Turn(m)'
      BY <1>0, <1>6, <1>13, <2>0, <2>1, <2>3, <3>1 DEF Turn
    <3>3. Released(m) => (ShaderOnDisk(ShaderOf[m])' => ShaderOnDisk(ShaderOf[m]))
      <4> SUFFICES ASSUME Released(m) PROVE ShaderOnDisk(ShaderOf[m])' => ShaderOnDisk(ShaderOf[m])
        OBVIOUS
      <4>1. \A p \in ShaderParts : ShaderPath(ShaderOf[m], p) \in DOMAIN disk
        BY <1>0 DEF Resting, Released
      <4> QED  BY <1>3, <4>1, ShaderBack
    <3>4. Rests(m)'
      BY <1>0, <1>6, <2>0, <2>1, <2>3, <3>1, <3>3 DEF Rests
    <3> QED  BY <3>2, <3>4
  <2> QED  BY <2>2, <2>3
<1>18. AtHand'
  <2>1. CASE mpc'.at = "release"
    BY <2>1 DEF AtHand
  <2>2. CASE mpc'.at = "publish"
    <3>1. out.is \in Published /\ k < 3 /\ y.status = "pending" /\ y.residue = {} /\ y.reported = FALSE
          /\ y.failure # "dependencyAuthority"
      BY <1>6, <1>8, <1>10, <2>2
    <3>2. y.pub \in Seq(Published) /\ Len(y.pub) < 3 /\ DOMAIN y.pre = 1..3
      BY <1>1, <1>8, <1>9, <3>1
    <3>3. /\ \A i \in 1..3 : y.pre[i] # "missing" => MatFile(n, i) \in DOMAIN disk'
          /\ \A i \in DOMAIN y.pub : i \in 1..3 /\ MatFile(n, i) \in DOMAIN disk'
      BY <1>1, <1>3, <1>8, <1>9, <3>1 DEF f
    <3>4. y = mat'[mpc'.m] /\ \A i \in 1..3 : MatFile(mpc.m, i)' = MatFile(n, i)
      <4>1. mpc'.m = mpc.m
        BY <1>6 DEF n
      <4>2. \A i \in 1..3 : MatFile(mpc.m, i)' = MatFile(mpc.m, i)
        BY <1>0, <4>1 DEF MatFile, tvars
      <4> QED  BY <1>6, <4>2 DEF n, y
    <3>5. /\ \A i \in 1..3 : y.pre[i] # "missing" => MatFile(mpc.m, i)' \in DOMAIN disk'
          /\ \A i \in DOMAIN y.pub : MatFile(mpc.m, i)' \in DOMAIN disk'
      BY <3>3, <3>4
    <3> QED  BY <3>1, <3>2, <3>4, <3>5 DEF AtHand
  <2> QED  BY <1>13, <2>1, <2>2
<1>19. MatPublished'
  BY <1>17, <1>18 DEF MatPublished
<1>20. Resting'
  BY <1>0, <1>3, <1>6, <1>17 DEF Resting
<1>21. MatAccounted'
  <2> SUFFICES ASSUME NEW g \in wrote', g[1] = "material"
               PROVE \E m \in Materials, i \in 1..3 :
                  /\ g[2] = m /\ g = MatFile(m, i)
                  /\ i = 3 => MatFile(m, 1) \in DOMAIN disk' /\ MatFile(m, 2) \in DOMAIN disk'
                  /\ \/ g \in mat'[m].residue
                     \/ i \in DOMAIN mat'[m].pub /\ mat'[m].pub[i] = "emitted" /\ mat'[m].status # "failed"
    BY <1>13, <1>16 DEF MatAccounted
  <2>1. CASE g \in wrote
    <3>1. PICK m \in Materials, i \in 1..3 :
            /\ g[2] = m /\ g = MatFile(m, i)
            /\ i = 3 => MatFile(m, 1) \in DOMAIN disk /\ MatFile(m, 2) \in DOMAIN disk
            /\ \/ g \in mat[m].residue
               \/ i \in DOMAIN mat[m].pub /\ mat[m].pub[i] = "emitted" /\ mat[m].status # "failed"
      BY <2>1 DEF MatAccounted
    <3>2. CASE m # n
      BY <1>3, <1>8, <3>1, <3>2
    <3>3. CASE m = n
      <4>1. i \in DOMAIN x.pub /\ x.pub[i] = "emitted" /\ g = MatFile(n, i)
        BY <1>1, <3>1, <3>3 DEF x
      <4>2. CASE out.is \in Published
        <5>1. i \in DOMAIN y.pub /\ y.pub[i] = "emitted" /\ y.status # "failed"
          BY <1>8, <1>9, <1>10, <4>1, <4>2
        <5> QED  BY <1>3, <3>1, <3>3, <5>1 DEF y
      <4>3. CASE out.is \notin Published
        <5>1. g \in e
          BY <4>1, EmittedFiles DEF e, x
        <5>2. g \in y.residue
          BY <1>8, <4>3, <5>1 DEF left
        <5> QED  BY <1>3, <3>1, <3>3, <5>2 DEF y
      <4> QED  BY <4>2, <4>3
    <3> QED  BY <3>2, <3>3
  <2>2. CASE g \notin wrote
    <3>1. g = f /\ f \in DOMAIN disk' \ DOMAIN disk
      BY <1>2, <1>3, <2>2
    <3>2. k = 3 => MatFile(n, 1) \in DOMAIN disk' /\ MatFile(n, 2) \in DOMAIN disk'
      BY <1>1, <1>3
    <3>3. CASE out.is \in Published
      <4>1. out.is = "emitted"
        BY <1>3, <3>1, <3>3 DEF Published
      <4>2. k \in DOMAIN y.pub /\ y.pub[k] = "emitted" /\ y.status # "failed"
        BY <1>8, <1>9, <1>10, <3>3, <4>1
      <4> QED  BY <1>0, <1>1, <1>4, <3>1, <3>2, <4>2 DEF f, y
    <3>4. CASE out.is \notin Published
      <4>1. x.pre[k] = "missing"
        BY <1>1, <3>1 DEF f
      <4>2. f \in R
        BY <1>3, <3>1, <3>4, <4>1 DEF R, Published
      <4>3. f \in y.residue
        BY <1>8, <3>4, <4>2 DEF left
      <4> QED  BY <1>0, <1>1, <1>4, <3>1, <3>2, <4>3 DEF f, y
    <3> QED  BY <3>3, <3>4
  <2> QED  BY <2>1, <2>2
<1> QED  BY <1>11, <1>12, <1>14, <1>15, <1>19, <1>20, <1>21

(* The invariant holds when the command starts.                            *)
LEMMA InitHolds == ASSUME Init PROVE IInv
<1>0. /\ version = [i \in Sources \cup Sidecars |-> 0] /\ anchor = [s \in Sidecars |-> NotHeld]
      /\ wrote = {} /\ tampered = {} /\ disk = [f \in {} |-> NoFile]
      /\ mpc = [at |-> "idle", s |-> 0, m |-> 0] /\ stage = "textures" /\ exit = Running
      /\ slots \in SlotChoices
      /\ mat = [m \in Materials |-> NewMaterial] /\ ground = [m \in Materials |-> FALSE]
      /\ tex = [t \in Textures |-> NewRecord]
  BY DEF Init, TextureInit, MaterialInit
<1>1. \A t \in Textures : /\ TextureShape(tex[t]) /\ tex[t].status = "pending"
                          /\ tex[t].decoded = NotHeld /\ tex[t].pixels = NotHeld
                          /\ tex[t].pub = <<>> /\ tex[t].residue = {}
  BY <1>0 DEF NewRecord, TextureShape
<1>2. \A m \in Materials : /\ MaterialShape(mat[m]) /\ mat[m].status = "pending"
                           /\ mat[m].pub = <<>> /\ mat[m].residue = {} /\ mat[m].reported = FALSE
  BY <1>0 DEF NewMaterial, MaterialShape
<1>3. /\ snap \in [Sources -> {Open, Lost}] /\ intact \in BOOLEAN
      /\ intact => \A p \in Sources : snap[p] = Open
  <2>1. snap \in [Sources -> {Open, Lost}]
    BY DEF Init, TextureInit
  <2>2. intact = (\A p \in Sources : snap[p] = Open)
    BY DEF Init, TextureInit
  <2>3. intact \in BOOLEAN
    BY <2>2, Zenon
  <2>4. intact => \A p \in Sources : snap[p] = Open
    BY <2>2, Zenon
  <2> QED  BY <2>1, <2>3, <2>4
<1>4. /\ tpc = [at |-> tpc.at, n |-> tpc.n] /\ tpc.n = 1
      /\ \/ tpc.at = "anchors" /\ Sources = {}
         \/ tpc.at = "snapshot" /\ 1 \in DOMAIN Snapshots
  <2>1. tpc = [at |-> IF Snapshots = <<>> THEN "anchors" ELSE "snapshot", n |-> 1]
    BY DEF Init, TextureInit
  <2>2. Snapshots = <<>> => Sources = {}
    BY DEF Sources, Range
  <2>3. Snapshots # <<>> => 1 \in DOMAIN Snapshots
    <3>1. Snapshots \in Seq(Sources) /\ Len(Snapshots) \in Nat /\ DOMAIN Snapshots = 1..Len(Snapshots)
      BY Constants
    <3> HIDE DEF Sources
    <3>2. Snapshots # <<>> => Len(Snapshots) # 0
      BY <3>1, EmptySeq
    <3> QED  BY <3>1, <3>2
  <2> QED  BY <2>1, <2>2, <2>3
<1>5. TexInv
  <2>1. TTyped
    <3>1. snap \in [Sources -> Int]
      BY <1>3 DEF Open, Lost
    <3>2. anchor \in [Sidecars -> Int] /\ version \in [Sources \cup Sidecars -> Nat]
      BY <1>0 DEF NotHeld
    <3>3. tpc.at \in Looping \cup {"anchors"} \cup Committing /\ tpc.n \in Nat \ {0}
      BY <1>4 DEF Looping
    <3> QED  BY <1>0, <1>1, <1>3, <1>4, <3>1, <3>2, <3>3 DEF TTyped, NotHeld
  <2>2. Closing
    BY <1>3, <1>4 DEF Closing, Looping
  <2>3. Read
    BY <1>1 DEF Read
  <2>4. Viewed
    BY <1>0, <1>1, <1>4 DEF Viewed, Committing
  <2>5. Committed
    BY <1>1, <1>4 DEF Committed, Committing
  <2>6. TexPublished
    <3>1. ASSUME NEW t \in Textures
          PROVE tex[t].pub \in Seq(Published) /\ Len(tex[t].pub) <= 2 /\ DOMAIN tex[t].pub = {}
      <4> DEFINE x == tex[t].pub
      <4>1. x = <<>>
        BY <1>1
      <4> HIDE DEF x
      <4>2. x \in Seq(Published) /\ Len(x) = 0 /\ DOMAIN x = {}
        BY <4>1, EmptySequence
      <4>3. x \in Seq(Published) /\ Len(x) <= 2 /\ DOMAIN x = {}
        BY <4>2
      <4> QED  BY <4>3 DEF x
    <3> QED  BY <1>1, <1>4, <3>1 DEF TexPublished, Published
  <2> QED  BY <2>1, <2>2, <2>3, <2>4, <2>5, <2>6 DEF TexInv
<1>6. DiskTrue /\ TexAccounted
  BY <1>0 DEF DiskTrue, TexAccounted
<1>7. MTyped /\ Phase
  BY <1>0, <1>2 DEF MTyped, Phase, InGroup, InMaterial
<1>8. MatPublished /\ Resting
  <2>1. \A m \in Materials : ~Begun(m) /\ mat[m].status \notin Published
    BY <1>0, <1>2 DEF Begun, Published
  <2> QED  BY <1>0, <1>2, <2>1 DEF MatPublished, Turn, AtHand, Resting, Rests, InGroup
<1>9. MatAccounted /\ Ended
  BY <1>0 DEF MatAccounted, Ended, Running
<1> QED  BY <1>5, <1>6, <1>7, <1>8, <1>9 DEF IInv, MatInv

(* The invariant is kept by every step of the command and of other         *)
(* programs.                                                               *)
LEMMA StepKeeps == ASSUME IInv, [Next]_vars PROVE IInv'
<1>1. CASE TexturePhase
  BY <1>1, TexturePhaseKeeps
<1>2. CASE \E s \in Shaders : ExtractShader(s)
  BY <1>2, ShaderKeeps
<1>3. CASE BeginMaterials
  BY <1>3, BeginMaterialsKeeps
<1>4. CASE MaterialPhase
  <2>1. stage = "materials" /\ UNCHANGED <<stage, seenOk, exit, tampered>> /\ MaterialStep
    BY <1>4 DEF MaterialPhase
  <2>2. CASE OpenGroup
    BY <2>1, <2>2, OpenGroupKeeps
  <2>3. CASE Project
    BY <2>1, <2>3, ProjectKeeps
  <2>4. CASE PublishMaterial
    BY <2>1, <2>4, PublishMaterialKeeps
  <2>5. CASE ReleaseTextures
    BY <2>1, <2>5, ReleaseKeeps
  <2>6. CASE CloseGroup
    BY <2>1, <2>6, CloseGroupKeeps
  <2> QED  BY <2>1, <2>2, <2>3, <2>4, <2>5, <2>6 DEF MaterialStep
<1>5. CASE RenderReport
  BY <1>5, RenderKeeps
<1>6. CASE Exit
  BY <1>6, ExitKeeps
<1>7. CASE EditSource
  BY <1>7, EditKeeps
<1>8. CASE ForeignFile
  BY <1>8, ForeignKeeps
<1>9. CASE UNCHANGED vars
  <2>1. UNCHANGED <<version, tvars, disk, wrote, shader, slots, mat, mpc, ground, stage, seenOk, exit, tampered>>
    BY <1>9 DEF vars, mvars
  <2>2. TexInv' /\ DiskTrue' /\ TexAccounted'
    BY <2>1, DiskFrame DEF IInv, DiskTrue
  <2>3. MTyped' /\ MatPublished' /\ MatAccounted' /\ Resting'
    BY <2>1, QuietFrame DEF mvars
  <2>4. Phase' /\ Ended'
    BY <2>1 DEF IInv, MatInv, Phase, Ended, ExitZeroIsExact, TexturesCommitted, MaterialsDone, tvars
  <2> QED  BY <2>2, <2>3, <2>4 DEF IInv, MatInv
<1> QED  BY <1>1, <1>2, <1>3, <1>4, <1>5, <1>6, <1>7, <1>8, <1>9 DEF Next, Done

(* The inductive invariant of the extract command.                         *)
THEOREM InvariantHolds == Spec => []IInv
<1>1. Init => IInv
  BY InitHolds
<1>2. IInv /\ [Next]_vars => IInv'
  BY StepKeeps
<1> QED  BY <1>1, <1>2, PTL DEF Spec

-----------------------------------------------------------------------------
(* native_texture_batch_export: what is published as a texture was decoded *)
(* from the catalogued version of its source, with the pixels its sidecar  *)
(* had at that moment, the same for every texture of the sidecar, whoever  *)
(* edits the inputs and whenever.                                          *)
THEOREM OneInstant == Spec => []TextureOfOneInstant
<1>1. IInv => TextureOfOneInstant
  <2> SUFFICES ASSUME IInv, NEW t \in Textures, tex[t].status \in Published
               PROVE /\ tex[t].decoded = 0 /\ tex[t].seen = <<0, tex[t].pixels>>
                     /\ \A u \in Textures : tex[u].status \in Published /\ SidecarOf[u] = SidecarOf[t]
                          => tex[u].pixels = tex[t].pixels
    BY DEF TextureOfOneInstant
  <2> USE DEF IInv, TexInv
  <2>1. tpc.at \in Committing /\ tpc.at \notin Looping
    <3>1. tpc.at \in Committing
      BY DEF Committed, Published
    <3> QED  BY <3>1 DEF Committing, Looping
  <2>2. intact /\ \A u \in Textures : tex[u].status \in Published => tex[u].pixels # NotHeld
    BY <2>1 DEF Committed, Published
  <2>3. snap[SourceOf[t]] # Open /\ tex[t].pixels # NotHeld
    BY <2>1, <2>2, Constants DEF Closing
  <2>4. tex[t].decoded = 0
    BY <2>2, <2>3 DEF Read
  <2>5. tex[t].seen = <<tex[t].seen[1], tex[t].seen[2]>> /\ tex[t].seen[1] = 0 /\ tex[t].pixels \in Nat
    BY <2>2, <2>3 DEF Read
  <2>6. tex[t].seen[2] = tex[t].pixels
    <3>1. CASE SidecarOf[t] = Inline
      BY <2>3, <3>1 DEF Viewed
    <3>2. CASE SidecarOf[t] # Inline
      <4>1. anchor[SidecarOf[t]] = NotHeld
        BY <2>1, <3>2, Constants DEF Viewed
      <4> QED  BY <2>2, <2>3, <3>2, <4>1 DEF Viewed
    <3> QED  BY <3>1, <3>2
  <2>7. \A u \in Textures : tex[u].status \in Published /\ SidecarOf[u] = SidecarOf[t]
                          => tex[u].pixels = tex[t].pixels
    BY <2>2 DEF Viewed
  <2> QED  BY <2>4, <2>5, <2>6, <2>7
<1> QED  BY <1>1, InvariantHolds, PTL

(* native_texture_batch_export: no file of a texture is created unless     *)
(* every retained snapshot was found unchanged at its close.               *)
THEOREM TexturesAllOrNothing == Spec => []AllOrNothing
<1>1. IInv => AllOrNothing
  <2> SUFFICES ASSUME IInv, NEW t \in Textures, tex[t].pub # <<>> \/ tex[t].status \in Published, NEW p \in Sources
               PROVE snap[p] = 0
    BY DEF AllOrNothing
  <2> USE DEF IInv, TexInv
  <2>1. tpc.at \in Committing /\ tpc.at \notin Looping
    <3>1. tpc.at \in Committing
      BY DEF Committed, Published
    <3> QED  BY <3>1 DEF Committing, Looping
  <2>2. intact
    BY <2>1 DEF Committed, Published
  <2> QED  BY <2>1, <2>2 DEF Closing
<1> QED  BY <1>1, InvariantHolds, PTL

(* material_batch_export: a material that is reported as published had its *)
(* shader and its textures on disk as recorded when its .mat appeared. The *)
(* comparisons come later; the theorem says that they suffice.             *)
THEOREM PublishedIsGrounded == Spec => []MaterialsGrounded
<1>1. IInv => MaterialsGrounded
  BY DEF IInv, MatInv, Resting, Rests, MaterialsGrounded
<1> QED  BY <1>1, InvariantHolds, PTL

(* Every created file is one of a texture, a shader or a material.         *)
Kinds == \A f \in wrote : f[1] \in {"texture", "shader", "material"}

(* A publication creates no other file than its own.                       *)
LEMMA NewFile ==
    ASSUME NEW d, NEW f, NEW bytes, NEW out \in {PublishExact(d, f, bytes)} \cup PublishFails(d, f, bytes)
    PROVE DOMAIN out.now \subseteq DOMAIN d \cup {f}
<1>1. DOMAIN Put(d, f, bytes) = DOMAIN d \cup {f}
  BY DEF Put
<1>2. out.now = d \/ out.now = Put(d, f, bytes)
  BY DEF PublishExact, PublishFails
<1> QED  BY <1>1, <1>2

(* Every file this run created is one of a texture, a shader or a          *)
(* material.                                                               *)
THEOREM KindsHold == Spec => []Kinds
<1>1. Init => Kinds
  BY DEF Init, TextureInit, Kinds
<1>2. Kinds /\ [Next]_vars => Kinds'
  <2> SUFFICES ASSUME Kinds, [Next]_vars PROVE Kinds'
    OBVIOUS
  <2> USE DEF Kinds
  <2>1. CASE PublishTexture
    <3> DEFINE f == TexturePath(tpc.n, TextureOrder[Len(tex[tpc.n].pub) + 1])
    <3>1. PICK out \in {PublishExact(disk, f, TextureBytes(tpc.n))} \cup PublishFails(disk, f, TextureBytes(tpc.n)) :
            disk' = out.now /\ wrote' = wrote \cup (DOMAIN disk' \ DOMAIN disk)
      BY <2>1 DEF PublishTexture
    <3>2. f[1] = "texture"
      BY DEF TexturePath
    <3> HIDE DEF f
    <3>3. DOMAIN disk' \subseteq DOMAIN disk \cup {f}
      BY <3>1, NewFile
    <3> QED  BY <3>1, <3>2, <3>3
  <2>2. CASE PublishMaterial
    <3> DEFINE p == MaterialOrder[Len(mat[mpc.m].pub) + 1]
               f == MaterialPath(mpc.m, p)
               bytes == MaterialBytes(mpc.m, p)
    <3>1. PICK out \in {PublishExact(disk, f, bytes)} \cup PublishFails(disk, f, bytes) :
            disk' = out.now /\ wrote' = wrote \cup (DOMAIN disk' \ DOMAIN disk)
      BY <2>2 DEF PublishMaterial
    <3>2. f[1] = "material"
      BY DEF MaterialPath
    <3> HIDE DEF f, bytes
    <3>3. DOMAIN disk' \subseteq DOMAIN disk \cup {f}
      BY <3>1, NewFile
    <3> QED  BY <3>1, <3>2, <3>3
  <2>3. CASE \E s \in Shaders : ExtractShader(s)
    <3>1. PICK s \in Shaders : ExtractShader(s)
      BY <2>3
    <3>2. wrote' \subseteq wrote \cup {ShaderPath(s, p) : p \in ShaderParts}
      BY <3>1 DEF ExtractShader
    <3> QED  BY <3>2 DEF ShaderPath
  <2>4. CASE UNCHANGED wrote
    BY <2>4
  <2>5. TexturePhase => PublishTexture \/ UNCHANGED wrote
    BY DEF TexturePhase, TextureStep, SkipSnapshot, DecodeSource, StageGroup, StageDone,
       CloseSnapshot,
           CloseAnchor, EndTransaction, BeginTexture
  <2>6. MaterialPhase => PublishMaterial \/ UNCHANGED wrote
    BY DEF MaterialPhase, MaterialStep, OpenGroup, Project, ReleaseTextures, CloseGroup
  <2>7. BeginMaterials \/ RenderReport \/ Exit \/ EditSource \/ ForeignFile \/ Done \/ UNCHANGED vars
          => UNCHANGED wrote
    BY DEF BeginMaterials, RenderReport, Exit, EditSource, EditInput, ForeignFile, Done, vars
  <2> QED  BY <2>1, <2>2, <2>3, <2>4, <2>5, <2>6, <2>7 DEF Next
<1> QED  BY <1>1, <1>2, PTL DEF Spec

(* publish_material and commit_record: a .mat or an .asset this run        *)
(* created has its companions beside it at every moment, on every path of  *)
(* failure.                                                                *)
THEOREM CompanionsComeFirst == Spec => []ImportableLast
<1>1. IInv /\ Kinds => ImportableLast
  <2> SUFFICES ASSUME IInv, Kinds, NEW f \in wrote, f[1] # "shader", f[4] \in {"mat", "asset"},
                      NEW p \in IF f[4] = "mat" THEN {"meta", "evidence"} ELSE {"meta"}
               PROVE [f EXCEPT ![4] = p] \in DOMAIN disk
    BY DEF ImportableLast
  <2> USE DEF IInv, MatInv
  <2>1. CASE f[1] = "texture"
    <3>1. PICK t \in Textures, i \in 1..2 : f = TexFile(t, i) /\ (i = 2 => TexFile(t, 1) \in DOMAIN disk)
      BY <2>1 DEF TexAccounted
    <3>2. f = <<"texture", t, tex[t].pixels, TextureOrder[i]>>
      BY <3>1 DEF TexFile
    <3>3. TextureOrder = <<"meta", "asset">>
      BY DEF TextureOrder, TextureParts
    <3>4. i = 2 /\ p = "meta"
      BY <3>2, <3>3
    <3>5. [f EXCEPT ![4] = p] = <<"texture", t, tex[t].pixels, "meta">>
      BY <3>2, <3>4
    <3> QED  BY <3>1, <3>3, <3>4, <3>5 DEF TexFile
  <2>2. CASE f[1] = "material"
    <3>1. PICK m \in Materials, i \in 1..3 :
            /\ f = MatFile(m, i)
            /\ i = 3 => MatFile(m, 1) \in DOMAIN disk /\ MatFile(m, 2) \in DOMAIN disk
      BY <2>2 DEF MatAccounted
    <3> DEFINE r == Refs(slots[m], tex)
    <3>2. f = <<"material", m, r, MaterialOrder[i]>>
      BY <3>1 DEF MatFile
    <3>3. MaterialOrder = <<"meta", "evidence", "mat">>
      BY MaterialConstants
    <3> HIDE DEF r
    <3>4. i = 3 /\ p \in {"meta", "evidence"}
      BY <3>2, <3>3
    <3>5. [f EXCEPT ![4] = p] = <<"material", m, r, p>>
      BY <3>2
    <3>6. <<"material", m, r, "meta">> \in DOMAIN disk /\ <<"material", m, r, "evidence">> \in DOMAIN disk
      BY <3>1, <3>3, <3>4 DEF MatFile, r
    <3> QED  BY <3>4, <3>5, <3>6
  <2> QED  BY <2>1, <2>2 DEF Kinds
<1> QED  BY <1>1, InvariantHolds, KindsHold, PTL

(* record_fail and publish_material: every file of a finished command      *)
(* belongs to a record reported as published or is named in a residue.     *)
THEOREM NothingUnaccounted == Spec => []CreatedIsAccounted
<1>1. IInv /\ Kinds => CreatedIsAccounted
  <2> SUFFICES ASSUME IInv, Kinds, stage = "done", NEW f \in wrote
               PROVE  \/ f[1] = "shader"
                      \/ f[1] = "texture" /\ (tex[f[2]].status \in Published \/ f \in tex[f[2]].residue)
                      \/ f[1] = "material" /\ (mat[f[2]].status \in Published \/ f \in mat[f[2]].residue)
    BY DEF CreatedIsAccounted
  <2> USE DEF IInv, MatInv
  <2>0. TexturesCommitted /\ MaterialsDone
    BY DEF Phase
  <2>1. CASE f[1] = "texture"
    <3>1. PICK t \in Textures, i \in 1..2 :
            /\ f = TexFile(t, i)
            /\ f \in tex[t].residue \/ tex[t].status # "failed"
      BY <2>1 DEF TexAccounted
    <3>2. f[2] = t
      BY <3>1 DEF TexFile
    <3>3. tex[t].status # "pending"
      <4>1. tpc.at \in Committing /\ t < tpc.n
        BY <2>0, TextureAssumption DEF TexturesCommitted, Committing, TexInv, TTyped
      <4> QED  BY <4>1 DEF TexInv, Committed
    <3>4. tex[t].status \in {"pending", "failed"} \cup Published
      BY DEF TexInv, TTyped
    <3> QED  BY <2>1, <3>1, <3>2, <3>3, <3>4
  <2>2. CASE f[1] = "material"
    <3>1. PICK m \in Materials, i \in 1..3 :
            /\ f[2] = m
            /\ \/ f \in mat[m].residue
               \/ i \in DOMAIN mat[m].pub /\ mat[m].status # "failed"
      BY <2>2 DEF MatAccounted
    <3>2. CASE f \in mat[m].residue
      BY <2>2, <3>1, <3>2
    <3>3. CASE i \in DOMAIN mat[m].pub /\ mat[m].status # "failed"
      <4>1. mat[m].pub # <<>>
        BY <3>3
      <4>2. Turn(m) /\ mpc.at = "group"
        BY <2>0 DEF MatPublished, MaterialsDone
      <4>3. mat[m].status \notin {"pending", "unselected", "unassociated"}
        BY <4>1, <4>2 DEF Turn
      <4>4. mat[m].status \in Published
        BY <3>3, <4>3 DEF MTyped
      <4> QED  BY <2>2, <3>1, <4>4
    <3> QED  BY <3>1, <3>2, <3>3
  <2> QED  BY <2>1, <2>2 DEF Kinds
<1> QED  BY <1>1, InvariantHolds, KindsHold, PTL

(* dxbc_sandbox_main: with exit code 0 every selected material is          *)
(* published over its recorded dependencies, every texture is the          *)
(* catalogued one and none was replaced before the last check.             *)
THEOREM ExitZeroMeansExact == Spec => []ExitZeroIsExact
<1>1. IInv => ExitZeroIsExact
  BY DEF IInv, MatInv, Ended, ExitZeroIsExact
<1> QED  BY <1>1, InvariantHolds, PTL
=============================================================================
