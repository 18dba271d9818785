---------------------------- MODULE TextureBatch ----------------------------
(***************************************************************************)
(* native_texture_batch_export: the textures that selected materials refer *)
(* to are decoded through the snapshots the catalog retained, their pixels *)
(* are copied out of sidecar files shared by several sources, and only     *)
(* when every snapshot and every sidecar has been closed unchanged are the *)
(* staged textures published, metadata first.                              *)
(*                                                                         *)
(* Inputs are shared with other programs: an input has a version, 0 when   *)
(* it was catalogued.  A snapshot is mapped and shows the present version, *)
(* a sidecar view is a copy of the version it was opened with.             *)
(***************************************************************************)
EXTENDS Integers, Sequences, FiniteSets, SequencesExt, OutputPublish

CONSTANTS
    Snapshots,   \* the outer paths of the retained snapshots, in order
    SourceOf,    \* the source of each texture the selection refers to
    SidecarOf,   \* its streaming file, or Inline
    Inline,
    MaxEdits,    \* bound: changes of inputs
    MaxForeign,  \* bound: files that others create or replace
    MaxFaults    \* bound: failures of system calls, allocations, decoders

Textures == DOMAIN SourceOf
Sources == Range(Snapshots)
Sidecars == {SidecarOf[t] : t \in Textures} \ {Inline}

ASSUME TextureAssumption ==
    /\ {MaxEdits, MaxForeign, MaxFaults} \subseteq Nat
    /\ Snapshots \in Seq(Sources)
    /\ Len(SourceOf) \in Nat /\ Textures = 1..Len(SourceOf)
    /\ \A t \in Textures : SourceOf[t] \in Sources
    /\ DOMAIN SidecarOf = Textures

NotHeld == -1
Open == -1
Lost == -2
NoFile == <<>>

VARIABLES
    version,   \* the version of every source and sidecar
    snap,      \* retained snapshots: Open, Lost, or the version at the close
    anchor,    \* the version each sidecar view holds, or NotHeld
    intact,    \* the transaction so far: no snapshot or sidecar failed
    starved,   \* allocation_failed: no further source is visited
    tex,       \* NativeTextureBatchRecordResult of each texture
    tpc,       \* where the export is
    disk,      \* the output directory
    wrote,     \* history: the files this run created
    spent      \* edits, foreign files and faults so far

tvars == <<snap, anchor, intact, starved, tex, tpc>>

NewRecord == [status |-> "pending", failure |-> "none", decoded |-> NotHeld, pixels |-> NotHeld,
              pre |-> <<>>, pub |-> <<>>, residue |-> {},
              seen |-> <<>>]   \* history: source and sidecar when staged

-----------------------------------------------------------------------------
(* The path holds the artifact identity: the catalogued digest and path id *)
(* of the object and the digest of its pixels.  The content also depends   *)
(* on what was decoded.                                                    *)
TexturePath(t, part) == <<"texture", t, tex[t].pixels, part>>
TextureBytes(t) == <<"texture", tex[t].decoded>>
TextureParts == <<"meta", "asset">>

(* Fault: the residue of a published texture that is revoked is forgotten. *)
FaultyRecordFail(records, S, why) ==
    [t \in Textures |->
        IF t \in S /\ records[t].status # "failed"
        THEN [records[t] EXCEPT !.status = "failed", !.failure = why]
        ELSE records[t]]

(* record_fail                                                             *)
RecordFail(records, S, why) ==
    [t \in Textures |->
        IF t \in S /\ records[t].status # "failed"
        THEN [records[t] EXCEPT
                !.status = "failed",
                !.failure = why,
                !.residue = @ \cup {TexturePath(t, TextureParts[i]) :
                    i \in {i \in DOMAIN records[t].pub : records[t].pub[i] = "emitted"}}]
        ELSE records[t]]

Fault(does) == does => spent.faults < MaxFaults
Spend(does) == spent' = [spent EXCEPT !.faults = @ + IF does THEN 1 ELSE 0]

(* gather_targets and the start of consume_retained_sources; a catalog may *)
(* have lost a snapshot, which spoils the transaction.                     *)
TextureInit ==
    /\ version = [i \in Sources \cup Sidecars |-> 0]
    /\ snap \in {[p \in Sources |-> Open]}
                  \cup {[p \in Sources |-> IF p = q THEN Lost ELSE Open] : q \in Sources}
    /\ anchor = [s \in Sidecars |-> NotHeld]
    /\ intact = (\A p \in Sources : snap[p] = Open)
    /\ starved = FALSE
    /\ tex = [t \in Textures |-> NewRecord]
    /\ tpc = [at |-> IF Snapshots = <<>> THEN "anchors" ELSE "snapshot", n |-> 1]
    /\ disk = [f \in {} |-> NoFile]
    /\ wrote = {}
    /\ spent = [edits |-> 0, foreign |-> 0, faults |-> 0]

Current == Snapshots[tpc.n]
Of(p) == {t \in Textures : SourceOf[t] = p}
NextSnapshot == IF tpc.n < Len(Snapshots) THEN [at |-> "snapshot", n |-> tpc.n + 1]
                ELSE [at |-> "anchors", n |-> 1]

-----------------------------------------------------------------------------
(* A snapshot that is not open is passed over and spoils the transaction.  *)
SkipSnapshot ==
    /\ tpc.at = "snapshot" /\ snap[Current] # Open
    /\ intact' = FALSE
    /\ tpc' = NextSnapshot
    /\ UNCHANGED <<version, snap, anchor, starved, tex, disk, wrote, spent>>

(***************************************************************************)
(* process_texture_source, its first half: the records of the source are   *)
(* decoded and copied.  An unreadable file fails all of them, a missing,   *)
(* undecodable or unsupported object itself; when a copy cannot be         *)
(* allocated the visit stops.                                              *)
(***************************************************************************)
DecodeSource ==
    /\ tpc.at = "snapshot" /\ snap[Current] = Open /\ Of(Current) # {} /\ ~starved
    /\ \E bad \in {{}, Of(Current)} \cup {{t} : t \in Of(Current)}, stop \in BOOLEAN :
         /\ stop => bad # {}
         /\ Fault(bad # {}) /\ Spend(bad # {})
         /\ tex' = RecordFail([t \in Textures |->
                        IF t \in Of(Current) \ bad
                        THEN [tex[t] EXCEPT !.decoded = version[Current]] ELSE tex[t]],
                        bad, IF stop THEN "copyAllocation" ELSE "object")
         /\ tpc' = [at |-> IF stop THEN "closeBad" ELSE "stage", n |-> tpc.n]
         /\ intact' = (intact /\ ~stop)
         /\ starved' = stop
    /\ UNCHANGED <<version, snap, anchor, disk, wrote>>

(* stage_record copies the pixels; inline textures have none to copy.      *)
Staged(record, t, s, held) ==
    [record EXCEPT !.pixels = IF s = Inline THEN 0 ELSE held,
                   !.seen = <<version[SourceOf[t]], IF s = Inline THEN 0 ELSE version[s]>>]

ToStage == {t \in Of(Current) :
              tex[t].status = "pending" /\ tex[t].decoded # NotHeld /\ tex[t].pixels = NotHeld}

(* Fault: every source opens the sidecar for itself.                       *)
FaultyHold(s) == version[s]
(* acquire_resource_anchor: one view per sidecar for the whole export.     *)
Hold(s) == IF anchor[s] # NotHeld THEN anchor[s] ELSE version[s]

(***************************************************************************)
(* stage_source_records: inline records first, then each group that shares *)
(* a sidecar.  A path that cannot be resolved or opened fails the group, a *)
(* range outside the file or a copy that cannot be allocated one record.   *)
(* When a new view cannot be kept the group fails, the other groups of the *)
(* source are staged, and the transaction is lost.                         *)
(***************************************************************************)
StageGroup ==
    /\ tpc.at = "stage" /\ ToStage # {}
    /\ LET inline == {t \in ToStage : SidecarOf[t] = Inline}
           s == IF inline # {} THEN Inline
                ELSE SidecarOf[CHOOSE t \in ToStage : \A u \in ToStage : t <= u]
           group == IF inline # {} THEN inline ELSE {t \in ToStage : SidecarOf[t] = s}
       IN \E bad \in {{}, group} \cup {{t} : t \in group}, opened, starve \in BOOLEAN :
            /\ ~opened => bad = group /\ s # Inline
            /\ starve => ~opened /\ anchor[s] = NotHeld
            /\ intact' = (intact /\ ~starve)
            /\ starved' = (starved \/ starve)
            /\ Fault(bad # {}) /\ Spend(bad # {})
            /\ anchor' = IF opened /\ s # Inline THEN [anchor EXCEPT ![s] = Hold(s)] ELSE anchor
            /\ tex' = RecordFail([t \in Textures |->
                          IF t \in group \ bad
                          THEN Staged(tex[t], t, s, IF s = Inline THEN 0 ELSE anchor'[s])
                          ELSE tex[t]],
                          bad, "resource")
    /\ UNCHANGED <<version, snap, tpc, disk, wrote>>

StageDone ==
    /\ tpc.at = "stage" /\ ToStage = {}
    /\ tpc' = [tpc EXCEPT !.at = "close"]
    /\ UNCHANGED <<version, snap, anchor, intact, starved, tex, disk, wrote, spent>>

(* The records a failed close takes down: those of the path, or all when   *)
(* the source was not visited.                                             *)
Affected(p, visited) == IF visited THEN Of(p) ELSE Textures

(***************************************************************************)
(* unity_input_snapshot_close after the visit, or at once when no record   *)
(* needs the source, when an allocation has failed before or when the copy *)
(* of the path does now; the visit or the close may fail on its own.       *)
(***************************************************************************)
CloseSnapshot ==
    /\ snap[Current] = Open
    /\ snap' = [snap EXCEPT ![Current] = version[Current]]
    /\ \E broken, starve \in BOOLEAN :
         /\ \/ tpc.at \in {"close", "closeBad"} /\ ~starve
            \/ tpc.at = "snapshot" /\ (Of(Current) = {} \/ starved \/ starve)
         /\ Fault(broken \/ starve) /\ Spend(broken \/ starve)
         /\ starved' = (starved \/ starve)
         /\ LET ok == ~broken /\ version[Current] = 0 /\ tpc.at # "closeBad"
            IN /\ intact' = (intact /\ ok /\ ~starve)
               /\ tex' = IF ok THEN tex
                         ELSE RecordFail(tex, Affected(Current, tpc.at # "snapshot"), "sourceIdentity")
    /\ tpc' = NextSnapshot
    /\ UNCHANGED <<version, anchor, disk, wrote>>

(***************************************************************************)
(* close_resource_anchors: a sidecar that has changed fails every record   *)
(* that was staged from it.                                                *)
(***************************************************************************)
CloseAnchor(s) ==
    /\ tpc.at = "anchors" /\ anchor[s] # NotHeld
    /\ \E broken \in BOOLEAN :
         /\ Fault(broken) /\ Spend(broken)
         /\ LET ok == ~broken /\ version[s] = anchor[s]
            IN /\ intact' = (intact /\ ok)
               /\ tex' = IF ok THEN tex
                         ELSE RecordFail(tex, {t \in Textures : SidecarOf[t] = s /\ tex[t].pixels # NotHeld},
                                         "resourceIdentity")
    /\ anchor' = [anchor EXCEPT ![s] = NotHeld]
    /\ UNCHANGED <<version, snap, starved, tpc, disk, wrote>>

(* Fault: each record depends on its own inputs only.                      *)
FaultyUncommittable(t) == tex[t].pixels = NotHeld
(* What the transaction does not let finalize_staged_records commit.       *)
Uncommittable(t) == ~intact \/ tex[t].pixels = NotHeld

(***************************************************************************)
(* source_transaction_complete: only then does finalize_staged_records     *)
(* commit anything; otherwise every pending record fails.                  *)
(***************************************************************************)
EndTransaction ==
    /\ tpc.at = "anchors" /\ \A s \in Sidecars : anchor[s] = NotHeld
    /\ tex' = RecordFail(tex, {t \in Textures : tex[t].status = "pending" /\ Uncommittable(t)},
                         "transaction")
    /\ tpc' = [at |-> "commit", n |-> 1]
    /\ UNCHANGED <<version, snap, anchor, intact, starved, disk, wrote, spent>>

-----------------------------------------------------------------------------
(* "Publish metadata first": an orphan .meta is not importable.            *)
TextureOrder == TextureParts

(* commit_record up to its first file: the YAML and its digests, then both *)
(* files are examined.                                                     *)
BeginTexture ==
    /\ tpc.at = "commit" /\ tpc.n <= Len(SourceOf)
    /\ LET t == tpc.n
           found == [i \in DOMAIN TextureOrder |->
                       Preflight(disk, TexturePath(t, TextureOrder[i]), TextureBytes(t))]
       IN IF tex[t].status # "pending"
          THEN tpc' = [tpc EXCEPT !.n = @ + 1] /\ UNCHANGED <<tex, spent>>
          ELSE \E bad \in BOOLEAN :
                 /\ Fault(bad) /\ Spend(bad)
                 /\ IF bad \/ "collision" \in Range(found)
                    THEN /\ tex' = RecordFail(tex, {t}, "notPublished")
                         /\ tpc' = [tpc EXCEPT !.n = @ + 1]
                    ELSE /\ tex' = [tex EXCEPT ![t].pre = found]
                         /\ tpc' = [tpc EXCEPT !.at = "publish"]
    /\ UNCHANGED <<version, snap, anchor, intact, starved, disk, wrote>>

(* The two publications of commit_record and the end of the record.        *)
PublishTexture ==
    /\ tpc.at = "publish"
    /\ LET t == tpc.n
           k == Len(tex[t].pub) + 1
           f == TexturePath(t, TextureOrder[k])
       IN \E out \in {PublishExact(disk, f, TextureBytes(t))} \cup PublishFails(disk, f, TextureBytes(t)) :
            /\ Fault(out.is = "ioError") /\ Spend(out.is = "ioError")
            /\ disk' = out.now
            /\ wrote' = wrote \cup (DOMAIN disk' \ DOMAIN disk)
            /\ IF out.is \in Published
               THEN /\ tex' = [tex EXCEPT ![t].pub = Append(@, out.is),
                                          ![t].status = IF k < 2 THEN @
                                             ELSE IF "emitted" \in {out.is, tex[t].pub[1]}
                                             THEN "emitted" ELSE "unchanged"]
                    /\ tpc' = IF k < 2 THEN tpc ELSE [at |-> "commit", n |-> t + 1]
               ELSE /\ tex' = [RecordFail(tex, {t}, "notPublished") EXCEPT ![t].residue =
                                 @ \cup (IF ResiduePossible(tex[t].pre[k], out, f, TextureBytes(t))
                                         THEN {f} ELSE {})]
                    /\ tpc' = [at |-> "commit", n |-> t + 1]
    /\ UNCHANGED <<version, snap, anchor, intact, starved>>

TexturesCommitted == tpc.at = "commit" /\ tpc.n > Len(SourceOf)

-----------------------------------------------------------------------------
(* record_publication_flags_are_valid                                      *)
Recorded(t) == tex[t].status \in Published /\ Range(tex[t].pub) \subseteq Published

(* open_publication_lease: both files have the recorded bytes now.         *)
Exported(t) ==
    /\ Recorded(t)
    /\ \A p \in Range(TextureParts) : At(disk, TexturePath(t, p)) = TextureBytes(t)

(* native_texture_batch_is_complete opens every publication again.         *)
TexturesComplete ==
    /\ intact
    /\ \A t \in Textures : tex[t].failure = "none" /\ tex[t].residue = {} /\ Exported(t)

TextureStep ==
    \/ SkipSnapshot \/ DecodeSource \/ StageGroup \/ StageDone \/ CloseSnapshot
    \/ EndTransaction \/ BeginTexture \/ PublishTexture
    \/ \E s \in Sidecars : CloseAnchor(s)

(* An input gets another content.                                          *)
EditInput(i) ==
    /\ spent.edits < MaxEdits
    /\ version' = [version EXCEPT ![i] = @ + 1]
    /\ spent' = [spent EXCEPT !.edits = @ + 1]
    /\ UNCHANGED <<snap, anchor, intact, starved, tex, tpc, disk, wrote>>

-----------------------------------------------------------------------------
(***************************************************************************)
(* A published texture is that of one instant: its source still was what   *)
(* the catalog hashed, and its sidecar the version it was read from, when  *)
(* its pixels were staged; and "two SerializedFiles sharing one sidecar    *)
(* always read one held file generation".  The view of a sidecar is older  *)
(* than most of its readers and a source is shown as it is now, so this    *)
(* rests on the closing checks of the whole transaction.                   *)
(***************************************************************************)
TextureOfOneInstant ==
    \A t \in Textures : tex[t].status \in Published =>
        /\ tex[t].decoded = 0
        /\ tex[t].seen = <<0, tex[t].pixels>>
        /\ \A u \in Textures : tex[u].status \in Published /\ SidecarOf[u] = SidecarOf[t]
                => tex[u].pixels = tex[t].pixels

(***************************************************************************)
(* "rather than exposing tuples from a mixed input snapshot": a file of a  *)
(* texture is only created when every retained snapshot, also one without  *)
(* textures, was found unchanged at its close.                             *)
(***************************************************************************)
AllOrNothing ==
    (\E t \in Textures : tex[t].pub # <<>> \/ tex[t].status \in Published) =>
        \A p \in Sources : snap[p] = 0
=============================================================================
