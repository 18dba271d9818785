---------------------------- MODULE ShaderBatch ----------------------------
(***************************************************************************)
(* shader_batch_extract_ex: selected records of a shader catalog are       *)
(* decoded from their source files, staged, and published as sets of       *)
(* files.  Publication is allowed only after the identity of the source    *)
(* has been closed, files are never overwritten, and a ledger says what    *)
(* was published, what failed and what a failed publication left behind.   *)
(* The source files and the output directory are shared with the rest of   *)
(* the machine.                                                            *)
(*                                                                         *)
(* A file's content is abstracted to the object it was built from and the  *)
(* version of the source file that was read; the catalog hashed version 0. *)
(* unity_input (reading of source files) and output_publish are libraries  *)
(* outside this repository, modelled from their use.                       *)
(***************************************************************************)
EXTENDS Integers, Sequences, FiniteSets, SequencesExt

CONSTANTS
    NumRecords,    \* catalog->record_count
    Outer,         \* the outer path of each record
    Member,        \* the serialized source (bundle member) of each record
    Class,         \* "graphics" (class 48) or "compute" (class 72)
    Name,          \* the portable, case-folded file name of each record
    Identity,      \* serialized digest and path id of each record
    Catalogs,      \* the catalog statuses, as functions of the records
    Selections,    \* the choices of the user
    Options,       \* the ShaderBatchOptions: [meta, flat, defer, candidate]
    Retentions,    \* the sets of outer paths with a retained snapshot
    MaxEdits,      \* bound on changes of source files
    MaxForeign     \* bound on files that others create

Records == 1..NumRecords
Paths == {Outer[r] : r \in Records}
Members == {Member[r] : r \in Records}

ASSUME BatchAssumption ==
    /\ NumRecords \in Nat \ {0} /\ MaxEdits \in Nat /\ MaxForeign \in Nat
    /\ \A f \in {Outer, Member, Name, Identity, Class} : DOMAIN f = Records
    /\ \A r \in Records : Class[r] \in {"graphics", "compute"}
    /\ \A r, q \in Records :
         /\ Member[r] = Member[q] => Outer[r] = Outer[q]
         /\ Identity[r] = Identity[q] =>
              Class[r] = Class[q] /\ Name[r] = Name[q]

ASSUME CallsAreTyped ==
    /\ Options \subseteq [meta: BOOLEAN, flat: BOOLEAN, defer: BOOLEAN, candidate: BOOLEAN]
    /\ Selections \subseteq SUBSET Records
    /\ Catalogs \subseteq [Records -> {"ready", "unavailable", "notReady"}]

NotThere == <<>>
Foreign == <<"foreign">>
NoSuffix == "noSuffix"
Built(r, v) == <<Identity[r], v>>

VARIABLES
    opts, sel, cat,     \* the arguments of the call
    version,            \* the content of each source file
    snap,               \* the retained snapshot of each path
    pc, cursor,         \* where the call is
    todo,               \* the sources the visit has still to deliver
    opened,             \* the content when the visit opened the file
    closeDeferred,      \* source_identity_close_deferred of the current path
    staged,             \* context.staged: [rec, ver]
    pre, pub,           \* preflight and publish statuses of the first of them
    status, failure, stats, authorized, deferred, residue,    \* the result
    disk,               \* the output directory
    wrote,              \* history: the files this run created, by record
    edits, foreign

input == <<opts, sel, cat>>
world == <<version, edits, foreign>>
ledger == <<status, failure, stats, authorized, deferred, residue>>
commit == <<pre, pub>>
vars == <<input, version, snap, pc, cursor, todo, opened, closeDeferred, staged,
          commit, ledger, disk, wrote, edits, foreign>>

-----------------------------------------------------------------------------
(* shader_batch_flat_graphics_filename adds the identity when another      *)
(* graphics record of the catalog, selected or not, has the same portable  *)
(* name and is another object.                                             *)
Disambiguate(r) ==
    \E q \in Records \ {r} :
        /\ Class[q] = "graphics"
        /\ Name[q] = Name[r]
        /\ Identity[q] # Identity[r]

(* The path of a file: a directory per source digest, or flat.             *)
FileOf(r, m) ==
    <<Name[r],
      IF opts.flat /\ Class[r] = "graphics" /\ ~Disambiguate(r)
      THEN NoSuffix ELSE Identity[r],
      m>>

Parts(r) ==
    IF Class[r] = "graphics" THEN {"meta", "shader"}
    ELSE {"binary", "manifest", "source", "evidence"}
Files == UNION {{Name[r]} \X {Identity[r], NoSuffix} \X Parts(r) : r \in Records}

(* The files of a publication in the order they are published.             *)
Publication(r, generated) ==
    IF Class[r] = "graphics"
    THEN IF opts.meta THEN <<"meta", "shader">> ELSE <<"shader">>
    ELSE <<"binary", "manifest">> \o (IF generated THEN <<"source", "evidence">> ELSE <<>>)

PartsOf(s) == Publication(s.rec, s.generated)
PathsOf(s) == [i \in DOMAIN PartsOf(s) |-> FileOf(s.rec, PartsOf(s)[i])]

-----------------------------------------------------------------------------
Successes == {"emitted", "unchanged"}
Counters == {"selected", "emitted", "unchanged", "unavailable", "failed"}

(* How many of the records R have status x.                                *)
Counting(R, st, x) == Cardinality({r \in R : st[r] = x})

(* The start of shader_batch_extract_ex.                                   *)
Init ==
    /\ opts \in Options /\ sel \in Selections /\ cat \in Catalogs
    /\ \E kept \in Retentions :
         snap = [p \in Paths |-> IF p \in kept THEN "open" ELSE "none"]
    /\ version = [p \in Paths |-> 0]
    /\ status = [r \in Records |->
                   IF r \notin sel THEN "unselected"
                   ELSE IF cat[r] = "unavailable" THEN "unavailable"
                   ELSE IF cat[r] = "notReady" THEN "failed" ELSE "pending"]
    /\ failure = [r \in Records |->
                    IF r \in sel /\ cat[r] = "notReady" THEN "catalogNotReady" ELSE "none"]
    /\ stats = [c \in Counters |->
                  IF c = "selected" THEN Cardinality(sel) ELSE Counting(Records, status, c)]
    /\ authorized = [r \in Records |-> FALSE]
    /\ deferred = [r \in Records |-> FALSE]
    /\ residue = [r \in Records |-> {}]
    /\ pc = "scan" /\ cursor = 1
    /\ todo = {} /\ opened = 0 /\ closeDeferred = FALSE /\ staged = <<>>
    /\ pre = <<>> /\ pub = <<>>
    /\ disk = [f \in Files |-> NotThere]
    /\ wrote = [r \in Records |-> {}]
    /\ edits = 0 /\ foreign = 0

(* mark_failure of the records in R, those that are pending.               *)
MarkFailure(R, why) ==
    LET P == {r \in R : status[r] = "pending"}
    IN /\ status' = [r \in Records |-> IF r \in P THEN "failed" ELSE status[r]]
       /\ failure' = [r \in Records |-> IF r \in P THEN why ELSE failure[r]]
       /\ stats' = [stats EXCEPT !["failed"] = @ + Cardinality(P)]

-----------------------------------------------------------------------------
(* The outer path of record i is to be visited now.                        *)
MustVisit(i) ==
    /\ i \in sel /\ status[i] = "pending"
    /\ \A j \in 1..(i - 1) :
         ~(j \in sel /\ cat[j] = "ready" /\ Outer[j] = Outer[i])

(* The loop over the records passes one whose path needs no visit.         *)
Pass ==
    /\ pc = "scan" /\ cursor <= NumRecords
    /\ ~MustVisit(cursor)
    /\ cursor' = cursor + 1
    /\ UNCHANGED <<input, world, snap, pc, todo, opened, closeDeferred, staged,
                   commit, ledger, disk, wrote>>

(* unity_input_snapshot_visit or unity_input_visit_serialized begins.      *)
OpenSource ==
    /\ pc = "scan" /\ cursor <= NumRecords
    /\ MustVisit(cursor)
    /\ pc' = "visit"
    /\ todo' = {Member[r] : r \in {r \in Records : Outer[r] = Outer[cursor]}}
    /\ opened' = IF snap[Outer[cursor]] = "open" THEN 0 ELSE version[Outer[cursor]]
    /\ closeDeferred' = FALSE
    /\ UNCHANGED <<input, world, snap, cursor, staged, commit, ledger, disk, wrote>>

(* source_matches_record: a retained snapshot needs no second digest.      *)
Matching(m) ==
    {r \in Records :
        /\ status[r] = "pending" /\ Member[r] = m
        /\ snap[Outer[r]] = "open" \/ version[Outer[r]] = 0}

(* The ascending enumeration of a set of records.                          *)
InOrder(R) ==
    {s \in [1..Cardinality(R) -> R] : \A i, j \in DOMAIN s : i < j => s[i] < s[j]}

(* What becomes of the decoded object: staged, for a compute shader with   *)
(* or without a source candidate; a schema, object, decode, archive,       *)
(* naming or emission failure ("content"); or no D3D11 platform, which is  *)
(* never asked of a compute shader.                                        *)
Outcomes(r) ==
    {"staged", "content"}
        \cup (IF Class[r] = "graphics" THEN {"unavailable"} ELSE {})
        \cup (IF Class[r] = "compute" /\ opts.candidate THEN {"generated"} ELSE {})

(***************************************************************************)
(* process_source.  A source whose metadata cannot be read fails all its   *)
(* records at once, and a missing schema all its graphics records: two of  *)
(* the combinations here.  A staged record stays pending.                  *)
(***************************************************************************)
ProcessSource(m) ==
    /\ pc = "visit" /\ m \in todo
    /\ todo' = todo \ {m}
    /\ \E does \in [Matching(m) -> UNION {Outcomes(r) : r \in Matching(m)}] :
         LET With(x) == {r \in Matching(m) : does[r] = x}
         IN /\ \A r \in Matching(m) : does[r] \in Outcomes(r)
            /\ \E ready \in InOrder(With("staged") \cup With("generated")) :
                 staged' = staged \o [i \in DOMAIN ready |->
                            [rec |-> ready[i], ver |-> version[Outer[cursor]],
                             generated |-> ready[i] \in With("generated")]]
            /\ status' = [r \in Records |->
                            IF r \in With("content") THEN "failed"
                            ELSE IF r \in With("unavailable") THEN "unavailable" ELSE status[r]]
            /\ failure' = [r \in Records |->
                            IF r \in With("content") THEN "content" ELSE failure[r]]
            /\ stats' = [stats EXCEPT
                            !["failed"] = @ + Cardinality(With("content")),
                            !["unavailable"] = @ + Cardinality(With("unavailable"))]
    /\ UNCHANGED <<input, world, snap, pc, cursor, opened, closeDeferred, commit,
                   authorized, deferred, residue, disk, wrote>>

-----------------------------------------------------------------------------
(* revoke_outer_path_results                                               *)
Revoke(p) ==
    LET R == {r \in sel : Outer[r] = p}
    IN /\ status' = [r \in Records |-> IF r \in R THEN "failed" ELSE status[r]]
       /\ failure' = [r \in Records |-> IF r \in R THEN "sourceReopen" ELSE failure[r]]
       /\ stats' = [c \in Counters |->
                      CASE c = "selected" -> stats[c]
                        [] c = "failed" -> stats[c] + Cardinality({r \in R : status[r] # "failed"})
                        [] OTHER -> stats[c] - Counting(R, status, c)]
       /\ authorized' = [r \in Records |-> r \notin R /\ authorized[r]]
       /\ deferred' = [r \in Records |-> r \notin R /\ deferred[r]]

(* Fault: the result of the final identity check is dropped.               *)
FaultyCloseStatus(visited) == {visited}

(* unity_input_snapshot_close: the file is the one the catalog hashed, or  *)
(* the close fails; it may fail anyway.                                    *)
CloseStatus(visited) ==
    {visited /\ version[Outer[cursor]] = opened, FALSE}

(***************************************************************************)
(* The end of the visit of an outer path, after all its sources or before. *)
(* With a snapshot and deferral the mapping is suspended and the snapshot  *)
(* kept, unless that fails; otherwise the source is closed.  Failure       *)
(* discards what is staged and revokes the results of the whole path.      *)
(***************************************************************************)
CloseSource ==
    /\ pc = "visit"
    /\ LET p == Outer[cursor]
           kept == snap[p] = "open" /\ opts.defer
       IN \E visited \in {todo = {}, FALSE}, suspended \in BOOLEAN :
            /\ closeDeferred' = (kept /\ visited /\ suspended)
            /\ snap' = [snap EXCEPT ![p] =
                          IF @ = "open" /\ ~closeDeferred' THEN "closed" ELSE @]
            /\ \E ok \in IF closeDeferred' THEN {TRUE}
                         ELSE CloseStatus(visited /\ (kept => suspended)) :
                 IF ok THEN /\ pc' = "commit"
                            /\ UNCHANGED <<cursor, staged, ledger>>
                 ELSE /\ pc' = "scan" /\ cursor' = cursor + 1
                      /\ staged' = <<>>
                      /\ Revoke(p)
                      /\ UNCHANGED residue
    /\ todo' = {}
    /\ UNCHANGED <<input, world, opened, commit, disk, wrote>>

-----------------------------------------------------------------------------
(* External: common_output_preflight_exact of bytes against what is there. *)
Preflight(f, bytes) ==
    {IF disk[f] = NotThere THEN "missing"
     ELSE IF disk[f] = bytes THEN "unchanged" ELSE "collision",
     "ioError"}

(* External: common_output_publish_exact; an I/O error may come after the  *)
(* file has been created.                                                  *)
PublishExact(f, bytes) ==
    IF disk[f] = NotThere
    THEN {[is |-> "emitted", now |-> bytes], [is |-> "ioError", now |-> NotThere],
          [is |-> "ioError", now |-> bytes]}
    ELSE {[is |-> IF disk[f] = bytes THEN "unchanged" ELSE "collision", now |-> disk[f]],
          [is |-> "ioError", now |-> disk[f]]}

(* External: common_output_publish_exact_residue_possible: a file that was *)
(* missing has the exact bytes after an I/O error.                         *)
ResiduePossible(before, is, now, bytes) ==
    before = "missing" /\ is = "ioError" /\ now = bytes

Bytes(s) == Built(s.rec, s.ver)

(* The first staged publication is done with: disposed.                    *)
NextStaged ==
    /\ staged' = Tail(staged)
    /\ pre' = <<>> /\ pub' = <<>>
    /\ pc' = "commit"

(* The ledger of a compute package or the directory cannot be made.        *)
CannotBegin(r) ==
    /\ \E why \in {"directory"} \cup (IF Class[r] = "compute" THEN {"outputName"} ELSE {}) :
         MarkFailure({r}, why)
    /\ NextStaged

(* All files are examined before the first is written; any collision       *)
(* outranks an I/O error.                                                  *)
PreflightAll(s) ==
    \E found \in [DOMAIN PathsOf(s) -> {"missing", "unchanged", "collision", "ioError"}] :
        /\ \A i \in DOMAIN found : found[i] \in Preflight(PathsOf(s)[i], Bytes(s))
        /\ IF Range(found) \cap {"collision", "ioError"} = {}
           THEN /\ pc' = "publish" /\ pre' = found /\ pub' = <<>>
                /\ UNCHANGED <<staged, status, failure, stats>>
           ELSE /\ MarkFailure({s.rec}, IF "collision" \in Range(found)
                                        THEN "outputCollision" ELSE "outputIo")
                /\ NextStaged

(***************************************************************************)
(* The first staged publication, up to its first file.  A file another     *)
(* program creates between two of the examinations might as well have come *)
(* before or after all of them.                                            *)
(***************************************************************************)
BeginCommit ==
    /\ pc = "commit" /\ staged # <<>>
    /\ LET s == Head(staged)
       IN IF status[s.rec] # "pending"
          THEN NextStaged /\ UNCHANGED <<status, failure, stats, deferred>>
          ELSE /\ deferred' = [deferred EXCEPT ![s.rec] = closeDeferred]
               /\ CannotBegin(s.rec) \/ PreflightAll(s)
    /\ UNCHANGED <<input, world, snap, cursor, todo, opened, closeDeferred,
                   authorized, residue, disk, wrote>>

(* Fault: only the file that failed is looked at.                          *)
FaultyResidueAfter(s, k, maybe) == IF maybe THEN {PathsOf(s)[k]} ELSE {}

(* The files that a publication failing at its k-th file reports: those it *)
(* has emitted, and the k-th if it may be there.                           *)
ResidueAfter(s, k, maybe) ==
    {PathsOf(s)[i] : i \in {i \in 1..(k - 1) : pub[i] = "emitted"}}
        \cup (IF maybe THEN {PathsOf(s)[k]} ELSE {})

(* The end of a successful publication.                                    *)
Succeed(s, all) ==
    LET how == IF "emitted" \in Range(all) THEN "emitted" ELSE "unchanged"
    IN /\ status' = [status EXCEPT ![s.rec] = how]
       /\ stats' = [stats EXCEPT ![how] = @ + 1]
       /\ authorized' = [authorized EXCEPT ![s.rec] = ~closeDeferred]

(***************************************************************************)
(* One file is published: the next one follows, or the record is done.     *)
(***************************************************************************)
PublishNext ==
    /\ pc = "publish"
    /\ LET s == Head(staged)
           r == s.rec
           k == Len(pub) + 1
           f == PathsOf(s)[k]
       IN \E out \in PublishExact(f, Bytes(s)) :
            /\ disk' = [disk EXCEPT ![f] = out.now]
            /\ wrote' = [wrote EXCEPT ![r] = IF out.now = disk[f] THEN @ ELSE @ \cup {f}]
            /\ IF out.is \notin Successes
               THEN /\ residue' = [residue EXCEPT ![r] =
                          ResidueAfter(s, k, ResiduePossible(pre[k], out.is, out.now, Bytes(s)))]
                    /\ MarkFailure({r}, IF out.is = "collision" THEN "outputCollision"
                                        ELSE "outputIo")
                    /\ NextStaged
                    /\ UNCHANGED authorized
               ELSE IF k < Len(PathsOf(s))
               THEN /\ pub' = Append(pub, out.is)
                    /\ UNCHANGED <<pc, staged, pre, status, failure, stats, authorized, residue>>
               ELSE /\ Succeed(s, Append(pub, out.is))
                    /\ NextStaged
                    /\ UNCHANGED <<failure, residue>>
    /\ UNCHANGED <<input, world, snap, cursor, todo, opened, closeDeferred, deferred>>

(* commit_staged_shader_publications has come to the end.                  *)
Committed ==
    /\ pc = "commit" /\ staged = <<>>
    /\ pc' = "scan" /\ cursor' = cursor + 1
    /\ UNCHANGED <<input, world, snap, todo, opened, closeDeferred, staged, commit,
                   ledger, disk, wrote>>

(* The end of the loop: what is still pending was not found.               *)
Finish ==
    /\ pc = "scan" /\ cursor > NumRecords
    /\ pc' = "done"
    /\ MarkFailure(Records, "sourceNotFound")
    /\ UNCHANGED <<input, world, snap, cursor, todo, opened, closeDeferred, staged,
                   commit, authorized, deferred, residue, disk, wrote>>

-----------------------------------------------------------------------------
(* A source file gets another content.                                     *)
EditSource(p) ==
    /\ pc # "done" /\ edits < MaxEdits
    /\ version' = [version EXCEPT ![p] = @ + 1]
    /\ edits' = edits + 1
    /\ UNCHANGED <<input, snap, pc, cursor, todo, opened, closeDeferred, staged,
                   commit, ledger, disk, wrote, foreign>>

(* Another program, perhaps this one, creates a file that is not there.    *)
CreateFile(f, content) ==
    /\ pc # "done" /\ foreign < MaxForeign
    /\ disk[f] = NotThere
    /\ disk' = [disk EXCEPT ![f] = content]
    /\ foreign' = foreign + 1
    /\ UNCHANGED <<input, version, edits, snap, pc, cursor, todo, opened,
                   closeDeferred, staged, commit, ledger, wrote>>

Step ==
    \/ Pass \/ OpenSource \/ CloseSource \/ BeginCommit \/ PublishNext
    \/ Committed \/ Finish
    \/ \E m \in Members : ProcessSource(m)

(* The files some record of the batch may claim.                           *)
Claimed == UNION {{FileOf(r, m) : m \in Parts(r)} : r \in sel}

(* The call has returned.                                                  *)
Returned == pc = "done" /\ UNCHANGED vars

Next ==
    \/ Step \/ Returned
    \/ \E p \in Paths : EditSource(p)
    \/ \E f \in Claimed : \E c \in {Foreign} \cup {Built(r, 0) : r \in sel} : CreateFile(f, c)

Spec == Init /\ [][Next]_vars

-----------------------------------------------------------------------------
(* Fault: completeness does not ask for the authority.                     *)
FaultyIsComplete ==
    \A r \in Records :
        status[r] \in Successes \cup {"unselected"} /\ residue[r] = {}

(* shader_batch_is_complete on the fields that are modelled.               *)
IsComplete ==
    /\ \A r \in Records :
         /\ status[r] \in Successes \cup {"unselected"}
         /\ status[r] \in Successes =>
              /\ failure[r] = "none" /\ authorized[r]
              /\ ~deferred[r] /\ residue[r] = {}
    /\ \A c \in Counters \ {"selected"} : stats[c] = Counting(Records, status, c)
    /\ stats["selected"] = stats["emitted"] + stats["unchanged"]

(* The files of a record every publication of it has.                      *)
Required(r) == {FileOf(r, m) : m \in Range(Publication(r, FALSE))}

(***************************************************************************)
(* A success either has the authority of its source, with the exact bytes  *)
(* of the catalogued source in all its files and the source closed, or     *)
(* says that the close is deferred, and then the snapshot it was read      *)
(* through is still there to be closed, whatever happened to the sources   *)
(* and the output directory meanwhile.                                     *)
(***************************************************************************)
AuthorizedIsExact ==
    \A r \in Records :
        /\ status[r] \in Successes => authorized[r] \/ deferred[r]
        /\ authorized[r] =>
              /\ status[r] \in Successes /\ ~deferred[r] /\ snap[Outer[r]] # "open"
              /\ \A f \in Required(r) : disk[f] = Built(r, 0)
        /\ deferred[r] => snap[Outer[r]] = "open"

(***************************************************************************)
(* Every file the run created is part of a success, is reported as the     *)
(* residue of a failure, or belongs to the publication under way.          *)
(***************************************************************************)
NothingUnreported ==
    \A r \in Records : wrote[r] # {} =>
        \/ status[r] \in Successes
        \/ status[r] = "failed" /\ wrote[r] \subseteq residue[r]
        \/ pc = "publish" /\ Head(staged).rec = r

(* A batch that reports completeness has published everything selected     *)
(* with the exact bytes of the catalogued sources.                         *)
CompleteIsPublished ==
    pc = "done" /\ IsComplete =>
        \A r \in sel : \A f \in Required(r) : disk[f] = Built(r, 0)
=============================================================================
