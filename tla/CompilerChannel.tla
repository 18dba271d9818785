--------------------------- MODULE CompilerChannel ---------------------------
(***************************************************************************)
(* One UnityCompilerChannel (src/compiler/unity_compiler_client.c): the    *)
(* leases that pin the toolchain, the source directory and the include     *)
(* closure of a request, the session capabilities, the persistent compiler *)
(* process with its native include cache, and the persistent response      *)
(* cache, while the inputs on disk are edited at any moment.               *)
(*                                                                         *)
(* A request runs through the stages below one system interaction at a     *)
(* time.  A lease validation compares its entries one after the other; it  *)
(* is one step here, taken when its first entry is compared: a changed     *)
(* input never regains its old identity, so an entry that still matches    *)
(* later also matched then.                                                *)
(***************************************************************************)
EXTENDS Naturals, FiniteSets

CONSTANTS
    Roots,      \* source directories
    Headers,    \* include files
    Requests,   \* requests, and the start-up of an eagerly started channel
    Kind,       \* the entry point of each request
    RootOf,     \* its source directory
    Scanned,    \* headers the include scanner finds for it
    Reads,      \* headers the compiler reads for it
    ApisOf,     \* the valid_apis value it carries
    Apis,       \* capability records a compiler process can report
    Modes,      \* environments: cacheOnly, useCache, writable, eager, garbled
    None, NoProcess,
    MaxEdits,   \* bound: edits of inputs
    MaxRequests \* bound: requests asked

Kinds == {"preprocess", "compile", "preprocessCompute", "compileCompute",
          "serialize", "disassemble", "capture", "startup"}
Cached == {"preprocess", "compile"}
(* Requests whose response lists the files it depended on; the same ones   *)
(* carry a valid_apis value that must be the session's.                    *)
Reporting == {"preprocess", "preprocessCompute"}
(* Requests without a source, which need no source or include authority.   *)
Sourceless == {"disassemble", "capture", "startup"}

(* The scanner follows every include the compiler will open, or gives up;  *)
(* the compile entry points rely on it, the preprocess ones check.         *)
ASSUME ScannerComplete ==
    \A r \in Requests :
        Kind[r] \in {"compile", "compileCompute"} => Reads[r] \subseteq Scanned[r]
ASSUME KindsKnown == Kind \in [Requests -> Kinds]
ASSUME RequestsTyped ==
    /\ RootOf \in [Requests -> Roots]
    /\ Scanned \in [Requests -> SUBSET Headers]
    /\ Reads \in [Requests -> SUBSET Headers]
ASSUME ModesTyped ==
    Modes \subseteq [cacheOnly: BOOLEAN, useCache: BOOLEAN, writable: BOOLEAN,
                     eager: BOOLEAN, garbled: BOOLEAN]

Tool == "tool"
Inputs == {Tool} \cup Roots \cup Headers

(* The identity of an input (inode, size, times) is the number of its      *)
(* edits; its content may return to what it was.                           *)
Versions == 0..MaxEdits
Contents == {0, 1}
Content(v) == v % 2

(* Nothing is no version, no request and no answer, and no process is not  *)
(* a process that has read something.                                      *)
Views == [Inputs -> Contents \cup {None}]
ASSUME NothingIsNothing ==
    /\ None \notin Nat /\ None \notin Requests
    /\ None \notin [req : Requests, view : Views]
    /\ NoProcess \notin Views

DependsOn == [r \in Requests |->
    IF Kind[r] \in Sourceless THEN {Tool}
    ELSE {Tool, RootOf[r]} \cup (IF Kind[r] = "serialize" THEN Scanned[r] ELSE Reads[r])]

VARIABLES
    mode,       \* the process environment
    disk,       \* version of every input
    lease,      \* toolchain, source, include and prior include lease
    session,    \* session_capabilities and its ready and failed flags
    expected,   \* expected_valid_apis, or None
    proc,       \* what the compiler process has read, or NoProcess
    cache,      \* entries stored: [digest, payload]
    pc, req,    \* stage of the request in progress, and the request
    digest,     \* its cache key
    answer,     \* the response so far
    reply,      \* what the last request returned
    edits, asks \* bounded counters

channel == <<lease, session, proc>>
call == <<req, digest, answer>>
counters == <<edits, asks>>
vars == <<mode, disk, lease, session, expected, proc, cache, pc, req, digest,
          answer, reply, edits, asks>>

Oracle == INSTANCE CompileOracle WITH
    contents <- [i \in Inputs |-> Content(disk[i])],
    asked <- IF pc \in {"idle", "closed"} \/ Kind[req] = "startup" THEN None ELSE req,
    decided <- IF pc = "store" THEN answer ELSE None,
    reply <- IF reply.status = "answer" THEN reply.payload ELSE None

-----------------------------------------------------------------------------
(* A lease remembers the version of each input it covers.                  *)
NoLease == [i \in Inputs |-> None]
NoLeases == [tool |-> NoLease, src |-> NoLease, inc |-> NoLease, prior |-> NoLease]
NoSession == [status |-> "none", apis |-> None]
FailedSession == [status |-> "failed", apis |-> None]

Held(l) == {i \in Inputs : l[i] # None}
Capture(S) == [i \in Inputs |-> IF i \in S THEN disk[i] ELSE None]
Combine(a, b) == [i \in Inputs |-> IF a[i] # None THEN a[i] ELSE b[i]]

(* usc_cache_toolchain_lease_validate.  The working directory that is      *)
(* compared too never changes: nothing in the program calls chdir.         *)
Valid(l) == \A i \in Inputs : l[i] \in {None, disk[i]}
IncludesValid == Valid(lease.inc) /\ Valid(lease.prior)
AllValid == Valid(lease.tool) /\ Valid(lease.src) /\ IncludesValid

(* The request digest: the request and the contents its leases pinned.     *)
DigestOf(r) ==
    LET pinned == Combine(lease.tool, Combine(lease.src, lease.inc))
    IN [req |-> r,
        view |-> [i \in Inputs |-> IF pinned[i] = None THEN None ELSE Content(pinned[i])]]

(* expected_valid_apis_authority_snapshot                                  *)
ExpectedStatus(s) ==
    CASE expected = None -> "unset"
      [] expected # None /\ s.status = "failed" -> "failed"
      [] expected # None /\ s.status = "none" -> "pending"
      [] OTHER -> IF s.apis = expected THEN "matched" ELSE "mismatch"
(* Fault: a known mismatch is left to the preflight of the next start.     *)
FaultyPermits(s) == ExpectedStatus(s) # "pending"
Permits(s) == ExpectedStatus(s) \in {"unset", "matched"}
Rejects(s) == ExpectedStatus(s) \in {"mismatch", "failed"}

(* The request returns; nothing but an "answer" carries a payload a caller *)
(* may use.  A start-up that fails shuts the channel down.                 *)
Return(status) ==
    IF Kind[req] = "startup"
    THEN /\ reply' = reply
         /\ pc' = IF status = "session" THEN "idle" ELSE "abort"
    ELSE /\ reply' = [status |-> status, payload |-> None]
         /\ pc' = "idle"
ReturnAnswer(a) ==
    /\ reply' = [status |-> "answer", payload |-> a]
    /\ pc' = "idle"
Continue(stage) ==
    /\ pc' = stage
    /\ reply' = reply

(* discard_toolchain_authority(channel, true)                              *)
Discard == lease' = NoLeases /\ session' = NoSession /\ proc' = NoProcess

(* A failed start leaves session s: it is reported as a rejection when the *)
(* expected valid_apis explain it.                                         *)
StartFailed(s) ==
    Return(IF Kind[req] \notin {"capture", "startup"} /\ Rejects(s)
           THEN "rejected" ELSE "error")
(* A started process: capture only wanted the session record.              *)
Started == IF Kind[req] \in {"capture", "startup"} THEN Return("session")
           ELSE Continue("begin")

Init ==
    /\ mode \in Modes
    /\ disk = [i \in Inputs |-> 0]
    /\ lease = NoLeases /\ session = NoSession /\ proc = NoProcess
    /\ expected = None /\ cache = {}
    /\ pc = "closed" /\ req \in {r \in Requests : Kind[r] = "startup"}
    /\ digest = None /\ answer = None
    /\ reply = [status |-> "none", payload |-> None]
    /\ edits = 0 /\ asks = 0

-----------------------------------------------------------------------------
(* unity_compiler_configure_channel: without a cache directory an eager    *)
(* channel starts its process at once.                                     *)
Configure ==
    /\ pc = "closed"
    /\ \E r \in Requests : Kind[r] = "startup" /\ req' = r
    /\ digest' = None /\ answer' = None
    /\ Continue(IF mode.eager /\ ~mode.useCache THEN "start" ELSE "idle")
    /\ UNCHANGED <<mode, disk, channel, expected, cache, counters>>

(* unity_compiler_shutdown, by the owner or after a failed start-up.       *)
Shutdown ==
    /\ pc \in {"idle", "abort"}
    /\ Discard
    /\ expected' = None
    /\ Continue("closed")
    /\ UNCHANGED <<mode, disk, cache, call, counters>>

(* Faulty variants of the definitions that follow carry the prefix Faulty; *)
(* nothing uses them but the mutation runs of PROJECT.json.                *)

(* unity_compiler_recycle_process: the leases and the session stay.        *)
Recycle ==
    /\ pc = "idle" /\ proc # NoProcess
    /\ proc' = NoProcess
    /\ UNCHANGED <<mode, disk, lease, session, expected, cache, pc, call, reply, counters>>

(* unity_compiler_set_expected_valid_apis, ..._clear_expected_valid_apis   *)
SetExpected ==
    /\ pc = "idle"
    /\ expected' \in Apis \cup {None}
    /\ UNCHANGED <<mode, disk, channel, cache, pc, call, reply, counters>>

(* External: an input is edited.                                           *)
Edit(i) ==
    /\ edits < MaxEdits
    /\ edits' = edits + 1
    /\ disk' = [disk EXCEPT ![i] = @ + 1]
    /\ UNCHANGED <<mode, channel, expected, cache, pc, call, reply, asks>>

Ask(r) ==
    /\ pc = "idle" /\ asks < MaxRequests
    /\ Kind[r] # "startup"
    /\ asks' = asks + 1
    /\ req' = r /\ digest' = None /\ answer' = None
    /\ Continue("enter")
    /\ UNCHANGED <<mode, disk, channel, expected, cache, edits>>

(* A miss, or a request that has no cache record, needs the live compiler, *)
(* which the cache-only mode forbids.                                      *)
GoLive == IF mode.cacheOnly THEN Return("cacheOnlyMiss") ELSE Continue("start")

-----------------------------------------------------------------------------
(* Disassembly goes straight to the compiler.                              *)
EnterDisassemble ==
    /\ pc = "enter" /\ Kind[req] = "disassemble"
    /\ GoLive
    /\ UNCHANGED <<mode, disk, channel, expected, cache, call, counters>>

(* unity_compiler_capture_session_capabilities                             *)
EnterCapture ==
    /\ pc = "enter" /\ Kind[req] = "capture"
    /\ CASE session.status = "ready" -> Return("session")
         [] session.status # "ready" /\ mode.cacheOnly -> Return("error")
         [] OTHER -> Continue("start")
    /\ UNCHANGED <<mode, disk, channel, expected, cache, call, counters>>

(* Fault: the leases are refreshed, the process lives on.                  *)
FaultyRefreshSource ==
    /\ pc = "enter" /\ Kind[req] \notin Sourceless
    /\ IF /\ Held(lease.src) # {}
          /\ \/ ~Valid(lease.src) \/ Held(lease.src) # {RootOf[req]}
             \/ ~IncludesValid
       THEN lease' = [NoLeases EXCEPT !.tool = lease.tool]
       ELSE lease' = lease
    /\ Continue("tool")
    /\ UNCHANGED <<mode, disk, session, proc, expected, cache, call, counters>>

(* get_source_fingerprints, first half: when the source or the includes of *)
(* earlier requests changed, or the directory is another one, their leases *)
(* and the process that read them go.                                      *)
RefreshSource ==
    /\ pc = "enter" /\ Kind[req] \notin Sourceless
    /\ IF /\ Held(lease.src) # {}
          /\ \/ ~Valid(lease.src) \/ Held(lease.src) # {RootOf[req]}
             \/ ~IncludesValid
       THEN /\ lease' = [NoLeases EXCEPT !.tool = lease.tool]
            /\ proc' = NoProcess
       ELSE UNCHANGED <<lease, proc>>
    /\ Continue("tool")
    /\ UNCHANGED <<mode, disk, session, expected, cache, call, counters>>

(* Only a start reports why it failed.                                     *)
AuthorityFailed(s) == IF pc = "start" THEN StartFailed(s) ELSE Return("error")

(* capture_or_validate_toolchain_authority                                 *)
CaptureOrValidate(next) ==
    IF lease.tool = NoLease
    THEN /\ \/ /\ lease' = [lease EXCEPT !.tool = Capture({Tool})]
               /\ Continue(next)
            \/ lease' = lease /\ AuthorityFailed(session)
         /\ UNCHANGED <<session, proc>>
    ELSE IF Valid(lease.tool) /\ IncludesValid
    THEN /\ UNCHANGED channel
         /\ IF session.status = "failed" THEN AuthorityFailed(session) ELSE Continue(next)
    ELSE Discard /\ AuthorityFailed(NoSession)

ToolAuthority ==
    /\ pc = "tool"
    /\ CaptureOrValidate("root")
    /\ UNCHANGED <<mode, disk, expected, cache, call, counters>>

(* get_source_fingerprints, second half.                                   *)
RootAuthority ==
    /\ pc = "root"
    /\ \/ /\ Held(lease.src) # {}
          /\ lease' = lease /\ Continue("merge")
       \/ /\ Held(lease.src) = {}
          /\ lease' = [lease EXCEPT !.src = Capture({RootOf[req]})]
          /\ Continue("merge")
       \/ /\ Held(lease.src) = {}
          /\ lease' = lease /\ Return("error")
    /\ UNCHANGED <<mode, disk, session, proc, expected, cache, call, counters>>

(* Fault: the includes of earlier requests are forgotten.                  *)
FaultyMergeIncludes ==
    /\ pc = "merge"
    /\ lease' = [lease EXCEPT !.inc = NoLease]
    /\ Continue("closure")
    /\ UNCHANGED <<mode, disk, session, proc, expected, cache, call, counters>>

(* get_request_fingerprints: the includes of the previous request join the *)
(* prior ones, because the process may still hold their contents.          *)
MergeIncludes ==
    /\ pc = "merge"
    /\ IF Held(lease.inc) = {} \/ IncludesValid
       THEN /\ lease' = [lease EXCEPT !.prior = Combine(lease.inc, lease.prior),
                                      !.inc = NoLease]
            /\ UNCHANGED <<session, proc>>
            /\ Continue("closure")
       ELSE Discard /\ Return("error")
    /\ UNCHANGED <<mode, disk, expected, cache, call, counters>>

(* usc_include_closure_create, which may fail to resolve an include.       *)
CloseIncludes ==
    /\ pc = "closure"
    /\ \/ /\ lease' = [lease EXCEPT !.inc = Capture(Scanned[req])]
          /\ Continue("check")
       \/ lease' = lease /\ Return("unavailable")
    /\ UNCHANGED <<mode, disk, session, proc, expected, cache, call, counters>>

(* validate_existing_toolchain_authority                                   *)
AuthorityHolds == AllValid /\ session.status # "failed"
KeepOrDiscard == IF AllValid THEN UNCHANGED channel ELSE Discard

(* The last check of get_request_fingerprints; the digest is computed from *)
(* what the leases pinned.                                                 *)
CheckRequest ==
    /\ pc = "check"
    /\ KeepOrDiscard
    /\ digest' = DigestOf(req)
    /\ IF ~AuthorityHolds THEN Return("error")
       ELSE Continue(IF Kind[req] = "serialize" THEN "seal" ELSE "lookup")
    /\ UNCHANGED <<mode, disk, expected, cache, req, answer, counters>>

(* Serialization returns the digest after one more validation.             *)
Seal ==
    /\ pc = "seal"
    /\ KeepOrDiscard
    /\ IF AuthorityHolds THEN ReturnAnswer(digest) ELSE Return("error")
    /\ UNCHANGED <<mode, disk, expected, cache, call, counters>>

-----------------------------------------------------------------------------
(* A decodable entry of the request's digest.  With mode.garbled every     *)
(* entry was first written by a build whose payloads this one cannot       *)
(* decode, and such an entry is never replaced.                            *)
Entry == {e \in cache : e.digest = digest}

(* usc_cache_load and the decoding of its payload.                         *)
Lookup ==
    /\ pc = "lookup"
    /\ \/ /\ Kind[req] \in Cached /\ mode.useCache
          /\ \E e \in Entry : answer' = e.payload
          /\ Continue("hit")
       \/ answer' = answer /\ GoLive
    /\ UNCHANGED <<mode, disk, channel, expected, cache, req, digest, counters>>

(* Every dependency the response reports is in the request's include lease.*)
DependenciesCaptured(reported) ==
    Kind[req] \in Reporting => reported \subseteq Held(lease.inc)

(* A cache hit counts only while the leases hold and the session, if one   *)
(* is known, agrees.                                                       *)
Hit ==
    /\ pc = "hit"
    /\ IF ~DependenciesCaptured(Reads[req]) THEN Discard /\ Return("unavailable")
       ELSE /\ KeepOrDiscard
            /\ CASE Rejects(session') -> Return("rejected")
                 [] /\ ~Rejects(session') /\ AuthorityHolds
                    /\ Kind[req] \in Reporting /\ session.status = "ready"
                         => ApisOf[req] = session.apis
                    -> ReturnAnswer(answer)
                 [] OTHER -> Return("error")
    /\ UNCHANGED <<mode, disk, expected, cache, call, counters>>

-----------------------------------------------------------------------------
(* unity_compiler_start_process                                            *)
StartAuthority ==
    /\ pc = "start"
    /\ CaptureOrValidate("preflight")
    /\ UNCHANGED <<mode, disk, expected, cache, call, counters>>

Preflight ==
    /\ pc = "preflight"
    /\ UNCHANGED channel
    /\ CASE Rejects(session) -> StartFailed(session)
         [] ~Rejects(session) /\ proc # NoProcess -> Started
         [] OTHER -> Continue("spawn")
    /\ UNCHANGED <<mode, disk, expected, cache, call, counters>>

(* posix_spawn, or one of the checks before it, may fail.                  *)
Spawn ==
    /\ pc = "spawn"
    /\ UNCHANGED <<lease, session>>
    /\ \/ /\ proc' = [i \in Inputs |-> IF i = Tool THEN Content(disk[Tool]) ELSE None]
          /\ Continue("init")
       \/ proc' = proc /\ StartFailed(session)
    /\ UNCHANGED <<mode, disk, expected, cache, call, counters>>

(* The initializeCompiler exchange: the record a process reports must be   *)
(* the one already known for this toolchain, and the expected one.         *)
Initialize ==
    /\ pc = "init"
    /\ lease' = lease
    /\ \/ session' = session /\ proc' = NoProcess /\ StartFailed(session)
       \/ \E a \in Apis :
            IF session.status = "ready" /\ session.apis # a
            THEN /\ session' = FailedSession
                 /\ proc' = NoProcess /\ StartFailed(FailedSession)
            ELSE /\ session' = [status |-> "ready", apis |-> a]
                 /\ IF Permits(session') THEN proc' = proc /\ Started
                    ELSE proc' = NoProcess /\ StartFailed(session')
    /\ UNCHANGED <<mode, disk, expected, cache, call, counters>>

(* begin_compiler_transaction, and the check of the request's valid_apis.  *)
BeginTransaction ==
    /\ pc = "begin"
    /\ UNCHANGED <<lease, session>>
    /\ IF ~Permits(session) THEN proc' = proc /\ StartFailed(session)
       ELSE \/ /\ proc' = proc
               /\ IF Kind[req] \in Reporting => ApisOf[req] = session.apis
                  THEN Continue("run") ELSE Return("error")
            \/ proc' = NoProcess /\ Return("error")
    /\ UNCHANGED <<mode, disk, expected, cache, call, counters>>

(* External: the compiler opens an input it has not read before.           *)
ReadInput(i) ==
    /\ pc = "run"
    /\ i \in DependsOn[req] /\ proc[i] = None
    /\ proc' = [proc EXCEPT ![i] = Content(disk[i])]
    /\ UNCHANGED <<mode, disk, lease, session, expected, cache, pc, call, reply, counters>>

(* The response arrives: a result, or an error the compiler reports before *)
(* it has read everything.                                                 *)
Respond ==
    /\ pc = "run"
    /\ \/ /\ \A i \in DependsOn[req] : proc[i] # None
          /\ answer' = Oracle!Eval(req, proc)
       \/ answer' = None
    /\ Continue("validate")
    /\ UNCHANGED <<mode, disk, channel, expected, cache, req, digest, counters>>

(* fail_compiler_transaction: an I/O error, a deadline or a record that    *)
(* does not parse.                                                         *)
BreakTransaction ==
    /\ pc = "run"
    /\ proc' = NoProcess
    /\ Return("error")
    /\ UNCHANGED <<mode, disk, lease, session, expected, cache, call, counters>>

(* Fault: the leases are not validated after the response.                 *)
FaultyValidateResponse ==
    /\ pc = "validate"
    /\ CASE answer = None -> Return("compilerFailed")
         [] answer # None /\ Kind[req] \in Cached /\ mode.useCache -> Continue("store")
         [] OTHER -> ReturnAnswer(answer)
    /\ UNCHANGED <<mode, disk, channel, expected, cache, call, counters>>

(* The response counts only if nothing it may have read has changed; only  *)
(* a success is stored.                                                    *)
ValidateResponse ==
    /\ pc = "validate"
    /\ IF ~AuthorityHolds THEN KeepOrDiscard /\ Return("error")
       ELSE IF ~DependenciesCaptured({i \in Reads[req] : proc[i] # None})
       THEN Discard /\ Return("unavailable")
       ELSE /\ UNCHANGED channel
            /\ CASE answer = None -> Return("compilerFailed")
                 [] answer # None /\ Kind[req] \in Cached /\ mode.useCache -> Continue("store")
                 [] OTHER -> ReturnAnswer(answer)
    /\ UNCHANGED <<mode, disk, expected, cache, call, counters>>

(* usc_cache_store: an entry that exists is kept; the store may fail.  The *)
(* entry that cannot be read and is replaced is the business of            *)
(* CompilerCache: what replaces it is a fresh answer here as well.         *)
Store ==
    /\ pc = "store"
    /\ cache' = IF mode.writable /\ ~mode.garbled /\ Entry = {}
                THEN cache \cup {[digest |-> digest, payload |-> answer]} ELSE cache
    /\ ReturnAnswer(answer)
    /\ UNCHANGED <<mode, disk, channel, expected, call, counters>>

-----------------------------------------------------------------------------
ChannelStep ==
    \/ EnterDisassemble \/ EnterCapture \/ RefreshSource
    \/ ToolAuthority \/ RootAuthority \/ MergeIncludes \/ CloseIncludes
    \/ CheckRequest \/ Seal \/ Lookup \/ Hit
    \/ StartAuthority \/ Preflight \/ Spawn \/ Initialize \/ BeginTransaction
    \/ Respond \/ BreakTransaction \/ ValidateResponse \/ Store

Next ==
    \/ ChannelStep
    \/ Configure \/ Shutdown \/ Recycle \/ SetExpected
    \/ \E r \in Requests : Ask(r)
    \/ \E i \in Inputs : Edit(i) \/ ReadInput(i)

Spec == Init /\ [][Next]_vars
-----------------------------------------------------------------------------
(***************************************************************************)
(* Whatever is edited and whenever, a request is answered with what a      *)
(* fresh compiler would say about the inputs as they were together at one  *)
(* instant of the request, or it is declined: neither the response cache   *)
(* nor the native include cache of the long-lived process can show through *)
(* (the lease checks of get_request_fingerprints and of the response).     *)
(***************************************************************************)
AnswersAreCurrent == Oracle!Spec

(***************************************************************************)
(* An entry of the persistent cache is what a fresh compiler would answer  *)
(* for the very inputs its digest was computed from.                       *)
(***************************************************************************)
CacheSound ==
    \A e \in cache : e.payload = Oracle!Eval(e.digest.req, e.digest.view)

(***************************************************************************)
(* While the leases hold, everything the process keeps in its native       *)
(* include cache is covered by one of them and is what they pinned: "a new *)
(* lease cannot authorize that process's earlier file contents".           *)
(***************************************************************************)
NativeCacheAuthorized ==
    proc # NoProcess /\ AllValid =>
        \A i \in Inputs : proc[i] # None =>
            LET versions == {lease.tool[i], lease.src[i], lease.inc[i], lease.prior[i]}
            IN /\ pc \notin {"run", "validate"} => versions # {None}
               /\ \A v \in versions \ {None} : Content(v) = proc[i]

(***************************************************************************)
(* No command reaches a compiler whose session differs from the expected   *)
(* valid_apis, or from the request's own, however the expectation was      *)
(* changed between transactions (begin_compiler_transaction).              *)
(***************************************************************************)
NoCommandUnderMismatch ==
    pc = "run" =>
        /\ session.status = "ready"
        /\ expected \in {None, session.apis}
        /\ Kind[req] \in Reporting => ApisOf[req] = session.apis

(***************************************************************************)
(* The comment in unity_compiler_preprocess_contract_response says of an   *)
(* entry whose payload does not decode: "Treat it as a miss and let a      *)
(* successful compiler response atomically replace it."  That is: after a  *)
(* store to a writable cache, a lookup of the digest finds the response.   *)
(***************************************************************************)
UndecodableReplaced ==
    [][pc = "store" /\ mode.writable =>
         \E e \in cache' : e.digest = digest /\ e.payload = answer]_vars
=============================================================================
