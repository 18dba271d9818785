--------------------------- MODULE ResponseStream ---------------------------
(***************************************************************************)
(* The readers of unity_compiler_client.c for the responses of a compiler  *)
(* process: preprocess, compile, disassemble, compileComputeKernel and     *)
(* preprocessCompute.                                                      *)
(* A response is a sequence of records, each a tagged string followed by a *)
(* number of framed strings and numbers that only its tag determines.  The *)
(* process answers many requests over one stream, so a reader must consume *)
(* exactly the frames of its own response or give the process up.          *)
(*                                                                         *)
(* Texts are abstracted to empty or not, and to whether they look like a   *)
(* record; header fields to the snippet id, the program and the count.     *)
(***************************************************************************)
EXTENDS Integers, Sequences, FiniteSets, SequencesExt

CONSTANTS
    Responses,     \* for each kind of request, the responses Unity may send
    Strays,        \* the frame sequences a process that went wrong may send
    MaxItems,      \* UNITY_SNIPPET_CONTRACT_MAX_ITEMS and the other limits
    MaxRequests    \* bound on the number of requests

Kinds == {"preprocess", "compile", "disassemble", "kernel", "compute"}

ASSUME StreamAssumption ==
    /\ MaxItems \in Nat \ {0} /\ MaxRequests \in Nat
    /\ DOMAIN Responses = Kinds

Families == <<"global", "local", "builtin">>
PathTags == {"includes", "filepaths"}
FinalTags == {"shader", "disassembly", "computeData", "endKernels"}

(* A frame: a record header, a text or a number.  prog is the program of a *)
(* keyword record, or the program mask of a snippet.                       *)
Frames ==
    {f \in [tag: STRING, id: Int, prog: SUBSET Nat, n: Int] :
        f.tag \in ToSet(Families) => \E p \in f.prog : f.prog = {p}}
Frame(tag, id, prog, n) == [tag |-> tag, id |-> id, prog |-> prog, n |-> n]
Text == Frame("text", 0, {}, 1)
Empty == Frame("text", 0, {}, 0)
Number(n) == Frame("number", 0, {}, n)
IsString(f) == f.tag # "number"

(* A record as it is sent: its header and its payload.                     *)
Record(head, body) == [head |-> head, body |-> body]
OnWire(records) == FlattenSeq([i \in DOMAIN records |-> <<records[i].head>> \o records[i].body])

Records == [head: Frames, body: Seq(Frames)]

ASSUME FramesAssumption ==
    /\ \A k \in Kinds : Responses[k] \subseteq Seq(Records)
    /\ Strays \subseteq Seq(Frames)

Repeated(n, what) == FlattenSeq([i \in 1..n |-> what])

(* The payload of "err:", for all kinds: file name and message.            *)
ErrorPayload == <<"string", "string">>

(* What follows a header: strings, names (not empty), numbers, and a count *)
(* of pairs of a name and a number.                                        *)
Payload(k, f) ==
    CASE f.tag = "err" -> ErrorPayload
      [] f.tag = "snip" -> <<"string">>
      [] f.tag \in ToSet(Families) -> Repeated(f.n, <<"string">>)
      [] f.tag = "end" -> <<"string", "string", "number", "pairs">>
      [] f.tag \in PathTags -> Repeated(f.n, <<"name">>)
      [] f.tag = "disassembly" -> <<"string">>
      [] f.tag = "shader" ->
           IF k = "compile" THEN <<"number", "string">> ELSE <<"string">>
      [] f.tag = "computeData" -> IF f.n = 1 THEN <<"name">> ELSE <<"string">>
      [] f.tag \in {"computeGlobal", "computeLocal"} -> Repeated(f.n, <<"string">>)
      [] f.tag = "kernel" -> Repeated(f.n, <<"name", "string">>)
      [] f.tag = "requirements" -> <<"number", "pairs">>
      [] f.tag = "endKernels" ->
           Repeated(f.n, <<"name">>) \o <<"string", "number", "number", "number">>
      [] OTHER -> <<>>

(* The number of frames a record has: a count of pairs ends its payload.   *)
Width(k, r) ==
    LET p == Payload(k, r.head)
    IN IF p # <<>> /\ Last(p) = "pairs"
       THEN Len(p) + Len(Repeated(r.body[Len(p)].n, <<"name", "number">>))
       ELSE Len(p)

(* Unity sends records of the width their header announces and ends a      *)
(* response, and nothing else, with a final record.                        *)
ASSUME ResponsesAreFramed ==
    \A k \in Kinds : \A r \in Responses[k] :
        /\ r # <<>>
        /\ \A i \in DOMAIN r :
             /\ Len(r[i].body) >= Len(Payload(k, r[i].head))
             /\ Len(r[i].body) = Width(k, r[i])
             /\ r[i].head.tag \in FinalTags <=> i = Len(r)

VARIABLES
    alive,       \* the process exists
    honest,      \* it has sent what Unity sends
    requests,    \* number of requests so far
    kind,        \* the request being answered, or "idle"
    sent,        \* the records of its response
    wire,        \* frames written and not read
    head, body,  \* the record being read and what has been read of it
    plan,        \* what its remaining frames must be
    log,         \* history: the records read
    phase,       \* phase of preprocessCompute
    pending,     \* pending_source and pending_contract
    complete,    \* pending_contract_complete
    out          \* the response: snippets, kernels, dependencies, success

reader == <<head, body, plan, log, phase, pending, complete, out>>
vars == <<alive, honest, requests, kind, sent, wire, reader>>

None == [tag |-> "none"]
NoSnippet == [source |-> FALSE]

(* unity_compiler_snippet_contract_parse_header                            *)
Contract(f) == [id |-> f.id, mask |-> f.prog, programs |-> <<>>]

Nothing == [snippets |-> <<>>, kernels |-> {}, paths |-> [t \in PathTags |-> 0], status |-> "none"]

Blank ==
    /\ head' = None /\ body' = <<>> /\ plan' = <<>> /\ log' = <<>>
    /\ phase' = 0 /\ pending' = NoSnippet /\ complete' = FALSE

Init ==
    /\ alive = FALSE /\ honest = TRUE /\ requests = 0
    /\ kind = "idle" /\ sent = <<>> /\ wire = <<>>
    /\ head = None /\ body = <<>> /\ plan = <<>> /\ log = <<>>
    /\ phase = 0 /\ pending = NoSnippet /\ complete = FALSE
    /\ out = Nothing

(* External: Unity answers a request; a process is started for it if there *)
(* is none.                                                                *)
Request(k, response) ==
    /\ kind = "idle" /\ requests < MaxRequests
    /\ requests' = requests + 1
    /\ alive' = TRUE
    /\ honest' = (honest \/ ~alive)
    /\ kind' = k /\ sent' = response
    /\ wire' = (IF alive THEN wire ELSE <<>>) \o OnWire(response)
    /\ Blank
    /\ out' = Nothing

(* External: the process sends something else, in addition, in the place   *)
(* of a frame or in the place of the whole rest of its response.           *)
GoWrong ==
    /\ kind # "idle" /\ honest /\ wire # <<>>
    /\ honest' = FALSE
    /\ \E stray \in Strays, lost \in {0, 1, Len(wire)} :
         wire' = stray \o SubSeq(wire, lost + 1, Len(wire))
    /\ UNCHANGED <<alive, requests, kind, sent, reader>>

-----------------------------------------------------------------------------
(* The families a program has so far determine the one that may follow.    *)
InSequence(f) ==
    LET started == pending.programs # <<>>
        last == Last(pending.programs)
    IN \/ /\ f.tag = "global"
          /\ ~started \/ last.has = ToSet(Families)
          /\ \A i \in DOMAIN pending.programs : pending.programs[i].prog # f.prog
       \/ f.tag = "local" /\ started /\ last.has = {"global"} /\ last.prog = f.prog
       \/ f.tag = "builtin" /\ started /\ last.has = {"global", "local"} /\ last.prog = f.prog

(* Fault: no families are required of the programs of the mask.            *)
FaultyProgramsComplete(c) ==
    \A i \in DOMAIN c.programs :
        c.programs[i].prog \subseteq c.mask /\ c.programs[i].has = ToSet(Families)

(* contract_variant_programs_complete                                      *)
ProgramsComplete(c) ==
    /\ \A i \in DOMAIN c.programs :
         c.programs[i].prog \subseteq c.mask /\ c.programs[i].has = ToSet(Families)
    /\ \A p \in c.mask : \E i \in DOMAIN c.programs : p \in c.programs[i].prog

(* read_dependency_paths: room in the list the record adds to.             *)
PathsLeft(f) == MaxItems - out.paths[f.tag]

(* Only the compute readers bound the number of diagnostics.               *)
ErrorFits ==
    kind \in {"kernel", "compute"} =>
        Cardinality({i \in DOMAIN log : log[i].head.tag = "err"}) < MaxItems

(* Whether a header is admitted, by kind.                                  *)
AdmitsPreprocess(f) ==
    \/ f.tag = "snip" /\ (pending = NoSnippet \/ complete)
    \/ /\ f.tag \in ToSet(Families)
       /\ pending # NoSnippet /\ ~complete
       /\ f.id = pending.id /\ f.n \in 0..MaxItems
       /\ InSequence(f)
    \/ /\ f.tag = "end"
       /\ pending # NoSnippet /\ ~complete
       /\ ProgramsComplete(pending) /\ f.id = pending.id
    \/ f.tag \in PathTags /\ f.n \in 0..PathsLeft(f)
    \/ f.tag \in {"err", "shader"}
AdmitsCompile(f) == f.tag \in {"err", "shader", "reflection"}
AdmitsDisassemble(f) == f.tag \in {"err", "disassembly"}
AdmitsKernel(f) == (f.tag = "err" /\ ErrorFits) \/ f.tag = "computeData"
AdmitsCompute(f) ==
    \/ f.tag = "err" /\ ErrorFits
    \/ phase = 0 /\ f.tag = "computeGlobal" /\ f.n \in 0..MaxItems
    \/ phase = 1 /\ f.tag = "computeLocal" /\ f.n \in 0..MaxItems
    \/ phase = 2 /\ f.tag = "kernel" /\ f.n \in 0..MaxItems
         /\ f.id \notin out.kernels /\ Cardinality(out.kernels) < MaxItems
    \/ phase = 2 /\ f.tag = "requirements"
    \/ phase = 3 /\ f.tag = "endKernels" /\ f.n \in 0..MaxItems

Admits(f) ==
    \/ kind = "preprocess" /\ AdmitsPreprocess(f)
    \/ kind = "compile" /\ AdmitsCompile(f)
    \/ kind = "disassemble" /\ AdmitsDisassemble(f)
    \/ kind = "kernel" /\ AdmitsKernel(f)
    \/ kind = "compute" /\ AdmitsCompute(f)

(* A field is what the reader expects next; only a name may not be empty.  *)
(* On the socket all frames begin with one magic number and a string and a *)
(* 64-bit number with eight bytes more: what an intact process sends is of *)
(* the expected kind, and the frames of one that went wrong are those the  *)
(* reader makes of its bytes.  Limits in bytes and the refusal of embedded *)
(* zeros are left out.                                                     *)
Matches(what, f) ==
    CASE what = "string" -> IsString(f)
      [] what = "name" -> IsString(f) /\ f # Empty
      [] what = "number" -> ~IsString(f)
      [] what = "pairs" -> ~IsString(f) /\ f.n \in 0..MaxItems

-----------------------------------------------------------------------------
(* A failure of the protocol: fail_compiler_transaction stops the process  *)
(* and what was parsed is freed.                                           *)
Fail ==
    /\ alive' = FALSE
    /\ kind' = "idle" /\ wire' = <<>>
    /\ Blank
    /\ out' = [Nothing EXCEPT !.status = "failed"]

(* The top of the loop: a header is read.                                  *)
ReadHeader ==
    /\ kind # "idle" /\ head = None /\ wire # <<>>
    /\ LET f == Head(wire)
       IN IF ~IsString(f) \/ ~Admits(f) THEN Fail
          ELSE /\ head' = f /\ body' = <<>> /\ plan' = Payload(kind, f)
               /\ wire' = Tail(wire)
               /\ UNCHANGED <<alive, kind, log, phase, pending, complete, out>>
    /\ UNCHANGED <<honest, requests, sent>>

(* Fault: of each pair only the name is read.                              *)
FaultyPairs(what, f) == IF what = "pairs" THEN Repeated(f.n, <<"name">>) ELSE <<>>

(* What a count of pairs announces.                                        *)
Pairs(what, f) == IF what = "pairs" THEN Repeated(f.n, <<"name", "number">>) ELSE <<>>

(* A frame of the record is read.                                          *)
ReadPayload ==
    /\ kind # "idle" /\ plan # <<>> /\ wire # <<>>
    /\ LET f == Head(wire)
       IN IF ~Matches(Head(plan), f) THEN Fail
          ELSE /\ body' = Append(body, f)
               /\ plan' = Tail(plan) \o Pairs(Head(plan), f)
               /\ wire' = Tail(wire)
               /\ UNCHANGED <<alive, kind, head, log, phase, pending, complete, out>>
    /\ UNCHANGED <<honest, requests, sent>>

(* The stream ends, or the deadline passes, inside a response.             *)
EndOfStream ==
    /\ kind # "idle" /\ wire = <<>> /\ (head = None \/ plan # <<>>)
    /\ Fail
    /\ UNCHANGED <<honest, requests, sent>>

-----------------------------------------------------------------------------
(* Fault: a record takes effect at its header.                             *)
FaultyRecordRead(tags) == kind # "idle" /\ head.tag \in tags

(* The record has been read.                                               *)
RecordRead(tags) == kind # "idle" /\ head.tag \in tags /\ plan = <<>>
NextRecord ==
    /\ head' = None /\ body' = <<>> /\ plan' = <<>>
    /\ log' = Append(log, Record(head, body))
Keep == UNCHANGED <<alive, honest, requests, kind, sent, wire>>

(* seal_pending, of a contract that is complete.                           *)
Sealed == IF pending = NoSnippet THEN out.snippets ELSE Append(out.snippets, pending)

(* "snip:": seal_pending, then the new contract and its source.            *)
Snip ==
    /\ RecordRead({"snip"}) /\ NextRecord /\ Keep
    /\ out' = [out EXCEPT !.snippets = Sealed]
    /\ pending' = Contract(head)
    /\ complete' = FALSE
    /\ UNCHANGED phase

(* unity_compiler_snippet_contract_set_variant_combinations                *)
WithFamily(programs) ==
    IF head.tag = "global"
    THEN Append(programs, [prog |-> head.prog, has |-> {"global"}])
    ELSE [programs EXCEPT ![Len(programs)].has = @ \cup {head.tag}]

(* "keywordsUserGlobal:", "keywordsUserLocal:", "keywordsBuiltin:"         *)
Keywords ==
    /\ RecordRead(ToSet(Families)) /\ NextRecord /\ Keep
    /\ pending' = [pending EXCEPT !.programs = WithFamily(@)]
    /\ UNCHANGED <<phase, complete, out>>

(* "keywordsEnd:"                                                          *)
KeywordsEnd ==
    /\ RecordRead({"end"}) /\ NextRecord /\ Keep
    /\ complete' = TRUE
    /\ UNCHANGED <<phase, pending, out>>

(* "includes:" and "filepaths:", read_dependency_paths.                    *)
Paths ==
    /\ RecordRead(PathTags) /\ NextRecord /\ Keep
    /\ out' = [out EXCEPT !.paths[head.tag] = @ + head.n]
    /\ UNCHANGED <<phase, pending, complete>>

(* Records that only add diagnostics or reflection.                        *)
Note ==
    /\ RecordRead({"err", "reflection"}) /\ NextRecord /\ Keep
    /\ UNCHANGED <<phase, pending, complete, out>>

(* "computeKeywordsUserGlobal:", "computeKeywordsUserLocal:".              *)
ComputeKeywords ==
    /\ RecordRead({"computeGlobal", "computeLocal"}) /\ NextRecord /\ Keep
    /\ phase' = phase + 1
    /\ UNCHANGED <<pending, complete, out>>

(* The names of pairs read: every other frame from the k-th on.            *)
NamesFrom(k) == [i \in 1..((Len(body) - k + 2) \div 2) |-> body[k + 2 * (i - 1)]]
Distinct(names) == \A i, j \in DOMAIN names : names[i] = names[j] => i = j

(* compute_pp_kernel: macro names are distinct.                            *)
Kernel ==
    /\ RecordRead({"kernel"})
    /\ IF Distinct(NamesFrom(1))
       THEN /\ NextRecord
            /\ out' = [out EXCEPT !.kernels = @ \cup {head.id}]
            /\ UNCHANGED <<alive, kind, wire, phase, pending, complete>>
       ELSE Fail
    /\ UNCHANGED <<honest, requests, sent>>

(* "requirements:": keywords are distinct.                                 *)
Requirements ==
    /\ RecordRead({"requirements"})
    /\ IF Distinct(NamesFrom(3))
       THEN /\ NextRecord
            /\ phase' = 3
            /\ UNCHANGED <<alive, kind, wire, pending, complete, out>>
       ELSE Fail
    /\ UNCHANGED <<honest, requests, sent>>

(* At "shader:" with success the pending snippet must be complete.         *)
MayEnd == kind = "preprocess" /\ head.n = 1 => pending = NoSnippet \/ complete

(* "shader:", the status of a disassembly, "computeData:", "endKernels:":  *)
(* the response is complete, and of a failed preprocessing no snippet is   *)
(* kept.                                                                   *)
Final ==
    /\ RecordRead(FinalTags)
    /\ IF MayEnd
       THEN /\ NextRecord
            /\ kind' = "idle"
            /\ out' = [out EXCEPT !.status = "answered",
                          !.snippets = IF kind = "preprocess" /\ head.n = 1 THEN Sealed ELSE <<>>]
            /\ pending' = NoSnippet /\ complete' = FALSE /\ phase' = 0
            /\ UNCHANGED <<alive, wire>>
       ELSE Fail
    /\ UNCHANGED <<honest, requests, sent>>

(* The bound on requests is reached.                                       *)
Rest == kind = "idle" /\ requests = MaxRequests /\ UNCHANGED vars

Next ==
    \/ \E k \in Kinds : \E r \in Responses[k] : Request(k, r)
    \/ GoWrong
    \/ ReadHeader \/ ReadPayload \/ EndOfStream
    \/ Snip \/ Keywords \/ KeywordsEnd \/ Paths \/ Note
    \/ ComputeKeywords \/ Kernel \/ Requirements \/ Final \/ Rest

Spec == Init /\ [][Next]_vars

-----------------------------------------------------------------------------
(***************************************************************************)
(* When a transaction of an intact process is over, its response has been  *)
(* split into the records that were sent and consumed to its end: the next *)
(* reader begins at the next response, also when a text inside a payload   *)
(* looks like a record or a string is empty.                               *)
(***************************************************************************)
Aligned ==
    kind = "idle" /\ honest => wire = <<>> /\ (out.status = "answered" => log = sent)

(***************************************************************************)
(* A reader rejects none of the Responses an intact process sends: no      *)
(* admission test, counted limit or payload rule is stricter than their    *)
(* grammar.  Limits in bytes are not part of it.                           *)
(***************************************************************************)
Understood == kind = "idle" /\ honest => out.status # "failed"

(***************************************************************************)
(* Whatever the process sends, an accepted preprocess result has, for each *)
(* of its snippets, exactly one set of the three keyword families for each *)
(* program of its mask and for no other program; and when it ends in       *)
(* success every snippet is delivered, the last one, which no other record *)
(* closes, too.                                                            *)
(***************************************************************************)
ContractsComplete ==
    out.status = "answered" =>
        /\ \A i \in DOMAIN out.snippets :
            LET c == out.snippets[i]
            IN /\ UNION {c.programs[j].prog : j \in DOMAIN c.programs} = c.mask
               /\ Len(c.programs) = Cardinality(c.mask)
               /\ \A j \in DOMAIN c.programs : c.programs[j].has = ToSet(Families)
        /\ Last(log).head.tag = "shader" /\ Last(log).head.n = 1 =>
            Len(out.snippets) = Cardinality({i \in DOMAIN log : log[i].head.tag = "snip"})
=============================================================================
