------------------------ MODULE CompilerChannelProofs ------------------------
(***************************************************************************)
(* Theorems about one compiler channel, for any requests, inputs and       *)
(* environments and any number of edits: the response cache and the native *)
(* include cache of the process are sound, no command is sent under a      *)
(* mismatched session, and the channel implements CompileOracle.           *)
(*                                                                         *)
(* The argument: what the process has read of an input is what is on disk, *)
(* as long as every lease on that input still holds (Native).  It needs to *)
(* know which inputs are leased at every stage (Pinned), that no lease is  *)
(* ahead of the disk, so that an edited input can never match again        *)
(* (Past), and that the digest still describes the leases when a response  *)
(* is stored under it (Keyed).                                             *)
(***************************************************************************)
EXTENDS CompilerChannel, TLAPS

(* A lease gives each input it covers the version it pinned.               *)
Lease == [Inputs -> Nat \cup {None}]
(* The stages of a request.                                                *)
Stages == {"closed", "idle", "abort", "enter", "tool", "root", "merge", "closure", "check",
           "seal", "lookup", "hit", "start", "preflight", "spawn", "init", "begin", "run",
           "validate", "store"}
(* The stages that lead to a compiler process and use it.                  *)
Live == {"start", "preflight", "spawn", "init", "begin", "run", "validate"}
(* The stages of the exchange with the process.                            *)
Exchange == {"begin", "run", "validate"}

(* The request names a source.                                             *)
Sourced == Kind[req] \notin Sourceless
Leases(i) == {lease.tool[i], lease.src[i], lease.inc[i], lease.prior[i]}

(* The types the argument needs.                                           *)
Typed ==
    /\ mode \in Modes
    /\ disk \in [Inputs -> Nat]
    /\ lease \in [tool : Lease, src : Lease, inc : Lease, prior : Lease]
    /\ session \in [status : {"none", "ready", "failed"}, apis : Apis \cup {None}]
    /\ proc \in Views \cup {NoProcess}
    /\ pc \in Stages /\ req \in Requests

(* A lease never holds a version that is not there yet.                    *)
Past == \A i \in Inputs : \A v \in Leases(i) : v # None => v <= disk[i]

(* Each stage is reached only by the kinds of request that pass through    *)
(* it.                                                                     *)
Routed ==
    /\ pc \in {"tool", "root", "merge", "closure", "check", "seal", "lookup", "hit", "store"} => Sourced
    /\ pc \in {"lookup", "hit", "store"} \cup Live => Kind[req] # "serialize"
    /\ pc = "seal" => Kind[req] = "serialize"
    /\ pc \in {"hit", "store"} => Kind[req] \in Cached
    /\ pc \in Exchange => Kind[req] \notin {"capture", "startup"}
    /\ pc = "enter" => Kind[req] # "startup"
    /\ pc = "abort" => Kind[req] = "startup"

(* The stages at which the toolchain, and those at which the source        *)
(* directory, is leased.                                                   *)
ToolHeld ==
    \/ pc \in {"root", "merge", "closure", "check", "seal", "lookup", "hit", "store",
               "preflight", "spawn", "init"} \cup Exchange
    \/ pc = "start" /\ Sourced
RootHeld ==
    /\ Sourced
    /\ pc \in {"merge", "closure", "check", "seal", "lookup", "hit", "store"} \cup Live
(* What each lease covers at each stage: exactly the inputs of the         *)
(* request, nothing of an earlier one.                                     *)
Pinned ==
    /\ Held(lease.tool) \subseteq {Tool}
    /\ ToolHeld => Held(lease.tool) = {Tool}
    /\ pc \in {"tool", "root"} => Held(lease.src) \subseteq {RootOf[req]}
    /\ RootHeld => Held(lease.src) = {RootOf[req]}
    /\ pc = "closure" => lease.inc = NoLease
    /\ RootHeld /\ pc \notin {"merge", "closure"} => Held(lease.inc) = Scanned[req]

(* From the lookup on, the digest is still the one the leases give.        *)
Keyed ==
    RootHeld /\ pc \notin {"merge", "closure", "check"} => digest = DigestOf(req)

Covered(i) == Leases(i) # {None}
Current(i) == \A v \in Leases(i) : v \in {None, disk[i]}
(* What the process has read is under a lease, except for a header that a  *)
(* reporting request has just opened, and what is under a lease that still *)
(* holds is what is on disk.                                               *)
Native ==
    proc # NoProcess =>
        \A i \in Inputs : proc[i] # None =>
            /\ \/ Covered(i)
               \/ pc \in {"run", "validate"} /\ Kind[req] \in Reporting /\ i \in Reads[req]
            /\ Covered(i) /\ Current(i) => proc[i] = Content(disk[i])

(* An exchange has a process, and a process that is past its               *)
(* initialization has reported a session.                                  *)
Ready ==
    /\ pc \in {"init"} \cup Exchange => proc # NoProcess
    /\ proc # NoProcess /\ pc # "init" => session.status = "ready"

(* A response is the compiler's result on what the process has read; a     *)
(* cached or stored one is the result on what the digest pinned.           *)
Answered ==
    /\ pc = "validate" /\ answer # None =>
         /\ \A i \in DependsOn[req] : proc[i] # None
         /\ answer = Oracle!Eval(req, proc)
    /\ pc \in {"hit", "store"} => answer = Oracle!Eval(req, digest.view)

(* The inductive invariant.                                                *)
IInv == Typed /\ Past /\ Routed /\ Pinned /\ Keyed /\ Native /\ Ready /\ Answered
        /\ CacheSound /\ NoCommandUnderMismatch

(* A lease that holds nothing is the empty one.                            *)
LEMMA HeldNothing == \A l \in Lease : Held(l) = {} <=> l = NoLease
  BY DEF Lease, Held, NoLease

(* Capture pins what it is given, at the versions of the moment.           *)
LEMMA CaptureHeld ==
    ASSUME Typed, NEW S \in SUBSET Inputs
    PROVE  /\ Capture(S) \in Lease /\ Held(Capture(S)) = S
           /\ \A i \in Inputs : Capture(S)[i] = IF i \in S THEN disk[i] ELSE None
  BY NothingIsNothing DEF Typed, Lease, Held, Capture

(* The combination of two leases prefers the first.                        *)
LEMMA CombineHeld ==
    ASSUME NEW a \in Lease, NEW b \in Lease
    PROVE  /\ Combine(a, b) \in Lease
           /\ \A i \in Inputs : Combine(a, b)[i] = IF a[i] # None THEN a[i] ELSE b[i]
  BY DEF Lease, Combine

(* The empty lease is a lease.                                             *)
LEMMA NothingLeased ==
    /\ NoLeases \in [tool : Lease, src : Lease, inc : Lease, prior : Lease]
    /\ NoLease \in Lease /\ Held(NoLease) = {} /\ \A i \in Inputs : NoLease[i] = None
  BY DEF Lease, Held, NoLease, NoLeases

(* The directory and the headers of a request are inputs.                  *)
LEMMA RequestInputs ==
    ASSUME NEW r \in Requests
    PROVE  RootOf[r] \in Inputs /\ Scanned[r] \subseteq Inputs /\ Reads[r] \subseteq Inputs
  BY RequestsTyped DEF Inputs

-----------------------------------------------------------------------------
(* What the invariant says when no request is in progress.                 *)
LEMMA Resting ==
    ASSUME IInv, UNCHANGED <<mode, disk, cache>>, Typed', Past', Native', Held(lease.tool)' \subseteq {Tool},
           proc' # NoProcess => session'.status = "ready",
           pc' \in {"idle", "abort", "closed"}, pc' = "abort" => Kind[req'] = "startup"
    PROVE  IInv'
<1>1. Routed' /\ Pinned' /\ Keyed' /\ Ready' /\ Answered' /\ NoCommandUnderMismatch'
  BY DEF Routed, Pinned, ToolHeld, RootHeld, Live, Exchange, Keyed, Ready, Answered,
     NoCommandUnderMismatch
<1>2. CacheSound'
  BY DEF IInv, CacheSound, Oracle!Eval
<1> QED  BY <1>1, <1>2 DEF IInv

(* A request returns, or the channel is shut down, and everything that was *)
(* pinned goes, the process with it.                                       *)
LEMMA Discarding ==
    ASSUME IInv, Discard, UNCHANGED <<mode, disk, cache, req>>,
           pc' \in {"idle", "abort", "closed"}, pc' = "abort" => Kind[req] = "startup"
    PROVE  IInv'
<1>1. Typed' /\ Past'
  BY NothingLeased, NothingIsNothing
  DEF IInv, Discard, Typed, Past, Leases, NoLeases, NoSession, Stages
<1>2. Native' /\ Held(lease.tool)' \subseteq {Tool}
  BY NothingLeased DEF Discard, Native, NoLeases
<1> QED  BY <1>1, <1>2, Resting DEF Discard

(* A request returns and everything stays as it is.  After an exchange the *)
(* process has read only what is leased.                                   *)
LEMMA Returning ==
    ASSUME IInv, UNCHANGED <<mode, disk, lease, session, proc, cache, req>>,
           pc \notin {"init", "run"},
           pc = "validate" => DependenciesCaptured({i \in Reads[req] : proc[i] # None}),
           pc' \in {"idle", "abort"}, pc' = "abort" => Kind[req] = "startup"
    PROVE  IInv'
<1>1. Typed' /\ Past'
  BY DEF IInv, Typed, Past, Leases, Stages
<1>2. Native'
  <2> SUFFICES ASSUME proc # NoProcess, NEW i \in Inputs, proc[i] # None
               PROVE  Covered(i)' /\ (Current(i)' => proc[i] = Content(disk[i]))
    BY DEF Native
  <2>1. Covered(i)
    BY DEF IInv, Native, DependenciesCaptured, Held, Covered, Leases
  <2> QED  BY <2>1 DEF IInv, Native, Covered, Current, Leases
<1> QED  BY <1>1, <1>2, Resting DEF IInv, Pinned, Ready, Held

(* A request returns and the process is lost, or was never started.        *)
LEMMA Losing ==
    ASSUME IInv, UNCHANGED <<mode, disk, lease, cache, req>>, proc' = NoProcess,
           session' \in [status : {"none", "ready", "failed"}, apis : Apis \cup {None}],
           pc' \in {"idle", "abort"}, pc' = "abort" => Kind[req] = "startup"
    PROVE  IInv'
<1>1. Typed' /\ Past' /\ Native'
  BY DEF IInv, Typed, Past, Leases, Stages, Native
<1> QED  BY <1>1, Resting DEF IInv, Pinned, Held

(* A return ends the request; only a start-up can end in an abort.         *)
LEMMA Returns ==
    \A status : Return(status) => pc' \in {"idle", "abort"} /\ (pc' = "abort" => Kind[req] = "startup")
  BY DEF Return

(* New leases are no newer than the files.                                 *)
LEMMA PastKept ==
    ASSUME Typed, Past, disk' = disk,
           \A i \in Inputs : Leases(i)' \subseteq Leases(i) \cup {None, disk[i]}
    PROVE  Past'
<1> SUFFICES ASSUME NEW i \in Inputs, NEW v \in Leases(i)', v # None PROVE v <= disk[i]
  BY DEF Past
<1>1. disk[i] \in Nat /\ (v \in Leases(i) \/ v = disk[i])
  BY DEF Typed
<1> QED  BY <1>1 DEF Past

(* Leases that only grow, and that are not current where an old one is     *)
(* stale, leave what is known of the process as it was.                    *)
LEMMA NativeKept ==
    ASSUME Native, UNCHANGED <<disk, proc>>, pc \notin {"run", "validate"},
           \A i \in Inputs : Covered(i) => Covered(i)' /\ (Current(i)' => Current(i))
    PROVE  Native'
<1> SUFFICES ASSUME proc # NoProcess, NEW i \in Inputs, proc[i] # None
             PROVE  Covered(i)' /\ (Current(i)' => proc[i] = Content(disk[i]))
  BY DEF Native
<1>1. Covered(i)
  BY DEF Native
<1> QED  BY <1>1 DEF Native

(* A step that changes neither files, leases, session nor process.         *)
LEMMA SameNative ==
    ASSUME Native, UNCHANGED <<disk, lease, proc>>,
           pc \in {"run", "validate"} => pc' \in {"run", "validate"} /\ req' = req
    PROVE  Native'
  BY DEF Native, Covered, Current, Leases

-----------------------------------------------------------------------------
(* The invariant holds of a channel that was never configured.             *)
LEMMA InitInv == ASSUME Init PROVE IInv
<1>1. Typed
  BY NothingIsNothing DEF Typed, NoLeases, NoLease, NoSession, Lease, Stages, Init
<1>2. Past
  BY DEF Past, Leases, NoLeases, NoLease, Init
<1>3. Routed /\ Pinned /\ Keyed /\ Native /\ Ready /\ Answered
  BY DEF Routed, Pinned, Keyed, Native, Ready, Answered, Live, Exchange, ToolHeld, RootHeld,
         NoLeases, NoLease, Held, Init
<1>4. CacheSound /\ NoCommandUnderMismatch
  BY DEF CacheSound, NoCommandUnderMismatch, Init
<1> QED  BY <1>1, <1>2, <1>3, <1>4 DEF IInv

(* One lemma for each action: it preserves the invariant.                  *)
LEMMA ConfigureInv == ASSUME IInv, Configure PROVE IInv'
<1> USE DEF IInv, Configure, Continue, channel, counters
<1>1. Typed' /\ Past' /\ Routed'
  BY DEF Typed, Past, Leases, Routed, Stages, Live, Exchange
<1>2. Pinned' /\ Keyed' /\ Answered' /\ Ready'
  BY DEF Pinned, Keyed, Answered, Ready, ToolHeld, RootHeld, Sourced, Sourceless, Live, Exchange,
     Held
<1>3. Native' /\ NoCommandUnderMismatch'
  BY SameNative DEF NoCommandUnderMismatch
<1>4. CacheSound'
  BY DEF CacheSound, Oracle!Eval
<1> QED  BY <1>1, <1>2, <1>3, <1>4

(* A question finds nothing in progress.                                   *)
LEMMA AskInv == ASSUME IInv, NEW r \in Requests, Ask(r) PROVE IInv'
<1> USE DEF IInv, Ask, Continue, channel, counters
<1>1. Typed' /\ Past' /\ Routed'
  BY DEF Typed, Past, Leases, Routed, Stages, Live, Exchange
<1>2. Pinned' /\ Keyed' /\ Answered' /\ Ready'
  BY DEF Pinned, Keyed, Answered, Ready, ToolHeld, RootHeld, Live, Exchange, Held
<1>3. Native' /\ NoCommandUnderMismatch'
  BY SameNative DEF NoCommandUnderMismatch
<1>4. CacheSound'
  BY DEF CacheSound, Oracle!Eval
<1> QED  BY <1>1, <1>2, <1>3, <1>4

(* A shutdown forgets everything.                                          *)
LEMMA ShutdownInv == ASSUME IInv, Shutdown PROVE IInv'
  BY Discarding DEF Shutdown, Continue, call

(* A recycled process takes its native cache with it.                      *)
LEMMA RecycleInv == ASSUME IInv, Recycle PROVE IInv'
  BY Losing DEF IInv, Typed, Recycle, call

(* A new expectation changes nothing that is pinned.                       *)
LEMMA SetExpectedInv == ASSUME IInv, SetExpected PROVE IInv'
  BY Returning DEF SetExpected, channel, call

(* An edit makes every lease on the input stale.                           *)
LEMMA EditInv == ASSUME IInv, NEW i \in Inputs, Edit(i) PROVE IInv'
<1> USE DEF IInv, Edit, channel, call
<1>1. \A j \in Inputs : disk'[j] = (IF j = i THEN disk[j] + 1 ELSE disk[j]) /\ disk[j] \in Nat
  BY DEF Typed
<1>2. Typed' /\ Routed'
  BY DEF Typed, Routed, Sourced
<1>3. Past'
  <2> SUFFICES ASSUME NEW j \in Inputs, NEW v \in Leases(j), v # None PROVE v <= disk'[j]
    BY DEF Past, Leases
  <2>1. v \in Nat /\ v <= disk[j]
    BY DEF Past, Leases, Typed, Lease
  <2> QED  BY <1>1, <2>1
<1>4. Pinned' /\ Keyed' /\ Answered' /\ Ready'
  BY DEF Pinned, Keyed, DigestOf, Combine, Answered, Ready, Oracle!Eval, ToolHeld, RootHeld,
     Sourced, Held
<1>5. Native'
  <2> SUFFICES ASSUME proc # NoProcess, NEW j \in Inputs, proc[j] # None
               PROVE  /\ Covered(j) => Covered(j)'
                      /\ Covered(j)' /\ Current(j)' => proc[j] = Content(disk'[j])
    BY DEF Native
  <2>1. Leases(j)' = Leases(j)
    BY DEF Leases
  <2>2. ASSUME Covered(j)', Current(j)' PROVE Covered(j) /\ Current(j) /\ j # i
    <3>1. PICK v \in Leases(j) : v # None
      BY <2>1, <2>2 DEF Covered, Leases
    <3>2. v = disk'[j] /\ v <= disk[j]
      BY <2>1, <2>2, <3>1 DEF Current, Past
    <3>3. j # i
      BY <1>1, <3>2
    <3> QED  BY <1>1, <2>1, <2>2, <3>3 DEF Covered, Current
  <2> QED  BY <1>1, <2>1, <2>2 DEF Native, Covered
<1>6. CacheSound' /\ NoCommandUnderMismatch'
  BY DEF CacheSound, Oracle!Eval, NoCommandUnderMismatch
<1> QED  BY <1>2, <1>3, <1>4, <1>5, <1>6

(* RefreshSource to CheckRequest: the authority of a request is gathered.  *)
LEMMA EnterInv == ASSUME IInv, EnterDisassemble \/ EnterCapture PROVE IInv'
<1> USE DEF IInv, EnterDisassemble, EnterCapture, GoLive, Continue, channel, call, counters
<1>1. CASE pc' = "start"
  <2>1. Typed' /\ Past' /\ Routed'
    BY <1>1 DEF Typed, Past, Leases, Routed, Sourced, Sourceless, Stages, Live, Exchange
  <2>2. Pinned' /\ Keyed' /\ Ready' /\ Answered' /\ NoCommandUnderMismatch'
    BY <1>1 DEF Pinned, Keyed, Ready, Answered, NoCommandUnderMismatch, ToolHeld, RootHeld, Sourced,
       Sourceless, Live, Exchange, Held
  <2>3. Native'
    BY <1>1, SameNative
  <2>4. CacheSound'
    BY DEF CacheSound, Oracle!Eval
  <2> QED  BY <2>1, <2>2, <2>3, <2>4
<1>2. CASE pc' # "start"
  BY <1>2, Returns, Returning
<1> QED  BY <1>1, <1>2

(* When the source goes, the process that read it goes too.                *)
LEMMA RefreshSourceInv == ASSUME IInv, RefreshSource PROVE IInv'
<1> USE DEF IInv, RefreshSource, Continue, call, counters
<1>1. CASE UNCHANGED <<lease, proc>> /\ (Held(lease.src) = {} \/ Held(lease.src) = {RootOf[req]})
  <2>1. Typed' /\ Past' /\ Routed'
    BY <1>1 DEF Typed, Past, Leases, Routed, Sourced, Stages, Live, Exchange
  <2>2. Pinned' /\ Keyed' /\ Ready' /\ Answered' /\ NoCommandUnderMismatch'
    BY <1>1 DEF Pinned, Keyed, Ready, Answered, NoCommandUnderMismatch, ToolHeld, RootHeld,
       Live, Exchange, Held
  <2>3. Native' /\ CacheSound'
    BY <1>1, SameNative DEF CacheSound, Oracle!Eval
  <2> QED  BY <2>1, <2>2, <2>3
<1>2. CASE lease' = [NoLeases EXCEPT !.tool = lease.tool] /\ proc' = NoProcess
  <2>1. /\ lease' \in [tool : Lease, src : Lease, inc : Lease, prior : Lease]
        /\ lease'.tool = lease.tool /\ lease'.src = NoLease
        /\ lease'.inc = NoLease /\ lease'.prior = NoLease
    BY <1>2, NothingLeased DEF Typed, NoLeases
  <2>2. Typed' /\ Past' /\ Routed'
    BY <1>2, <2>1, NothingLeased DEF Typed, Past, Leases, Routed, Sourced, Stages, Live, Exchange
  <2>3. Pinned' /\ Keyed' /\ Ready' /\ Answered' /\ NoCommandUnderMismatch'
    BY <1>2, <2>1, NothingLeased DEF Pinned, Keyed, Ready, Answered, NoCommandUnderMismatch,
       ToolHeld, RootHeld, Live, Exchange, Held
  <2>4. Native' /\ CacheSound'
    BY <1>2 DEF Native, CacheSound, Oracle!Eval
  <2> QED  BY <2>2, <2>3, <2>4
<1> QED  BY <1>1, <1>2

(* capture_or_validate_toolchain_authority, for a request and for a start. *)
LEMMA AuthorityInv == ASSUME IInv, ToolAuthority \/ StartAuthority PROVE IInv'
<1> USE DEF IInv, ToolAuthority, StartAuthority, call, counters
<1>1. PICK next \in {"root", "preflight"} :
        /\ CaptureOrValidate(next)
        /\ pc = IF next = "root" THEN "tool" ELSE "start"
  OBVIOUS
<1>2. CASE \E s : AuthorityFailed(s)
  <2>1. /\ pc' \in {"idle", "abort"} /\ (pc' = "abort" => Kind[req] = "startup")
        /\ UNCHANGED channel \/ Discard
    BY <1>1, <1>2, Returns DEF CaptureOrValidate, AuthorityFailed, StartFailed, channel, Continue
  <2> QED  BY <1>1, <2>1, Discarding, Returning DEF channel
<1>3. CASE Continue(next) /\ UNCHANGED channel /\ lease.tool # NoLease
  <2>1. Held(lease.tool) = {Tool}
    BY <1>3, HeldNothing DEF Typed, Pinned
  <2>2. Typed' /\ Past' /\ Routed'
    BY <1>1, <1>3 DEF Typed, Past, Leases, Routed, Sourced, Stages, Live, Exchange, channel,
       Continue
  <2>3. Pinned' /\ Keyed' /\ Ready' /\ Answered' /\ NoCommandUnderMismatch'
    BY <1>1, <1>3, <2>1 DEF Pinned, Keyed, DigestOf, Combine, Ready, Answered,
       NoCommandUnderMismatch, channel, Continue,
       ToolHeld, RootHeld, Sourced, Live, Exchange, Held
  <2>4. Native' /\ CacheSound'
    BY <1>1, <1>3, SameNative DEF CacheSound, Oracle!Eval, channel
  <2> QED  BY <2>2, <2>3, <2>4
<1>4. CASE /\ lease.tool = NoLease /\ lease' = [lease EXCEPT !.tool = Capture({Tool})]
           /\ Continue(next) /\ UNCHANGED <<session, proc>>
  <2>1. /\ Capture({Tool}) \in Lease /\ Held(Capture({Tool})) = {Tool}
        /\ \A i \in Inputs : Capture({Tool})[i] = IF i = Tool THEN disk[i] ELSE None
    BY CaptureHeld DEF Inputs
  <2>2. /\ lease' \in [tool : Lease, src : Lease, inc : Lease, prior : Lease]
        /\ lease'.tool = Capture({Tool}) /\ lease'.src = lease.src
        /\ lease'.inc = lease.inc /\ lease'.prior = lease.prior
    BY <1>4, <2>1 DEF Typed
  <2>3. pc = "start" => ~Sourced
    BY <1>4, NothingLeased DEF Pinned, ToolHeld
  <2>4. Typed' /\ Past' /\ Routed'
    <3>1. Typed' /\ Routed'
      BY <1>1, <1>4, <2>2 DEF Typed, Routed, Sourced, Stages, Live, Exchange, Continue
    <3>2. \A i \in Inputs : Leases(i)' \subseteq Leases(i) \cup {None, disk[i]}
      BY <2>1, <2>2 DEF Leases
    <3> QED  BY <3>1, <3>2, PastKept
  <2>5. Held(lease.tool)' = {Tool} /\ Held(lease.src)' = Held(lease.src)
    BY <2>1, <2>2 DEF Held
  <2>6. Pinned' /\ Keyed' /\ Ready' /\ Answered' /\ NoCommandUnderMismatch'
    BY <1>1, <1>4, <2>3, <2>5 DEF Pinned, Keyed, Ready, Answered, NoCommandUnderMismatch, Continue,
       ToolHeld, RootHeld, Sourced, Live, Exchange
  <2>7. \A i \in Inputs : lease.tool[i] = None /\ lease'.tool[i] \in {None, disk[i]}
    BY <1>4, <2>1, <2>2, NothingLeased
  <2>8. \A i \in Inputs : Covered(i) => Covered(i)' /\ (Current(i)' => Current(i))
    BY <2>2, <2>7 DEF Covered, Current, Leases
  <2>9. Native' /\ CacheSound'
    BY <1>1, <1>4, <2>8, NativeKept DEF CacheSound, Oracle!Eval
  <2> QED  BY <2>4, <2>6, <2>9
<1> QED  BY <1>1, <1>2, <1>3, <1>4 DEF CaptureOrValidate

(* The source directory is leased, the same as before or for the first     *)
(* time.                                                                   *)
LEMMA RootAuthorityInv == ASSUME IInv, RootAuthority PROVE IInv'
<1> USE DEF IInv, RootAuthority, call, counters
<1>1. CASE \E s : Return(s) /\ lease' = lease
  BY <1>1, Returns, Returning
<1>2. CASE Continue("merge") /\ lease' = lease /\ Held(lease.src) # {}
  <2>1. Typed' /\ Past' /\ Routed'
    BY <1>2 DEF Typed, Past, Leases, Routed, Sourced, Stages, Live, Exchange, Continue
  <2>2. Pinned' /\ Keyed' /\ Ready' /\ Answered' /\ NoCommandUnderMismatch'
    BY <1>2 DEF Pinned, Keyed, Ready, Answered, NoCommandUnderMismatch, Continue,
       ToolHeld, RootHeld, Live, Exchange, Held
  <2>3. Native' /\ CacheSound'
    BY <1>2, SameNative DEF CacheSound, Oracle!Eval
  <2> QED  BY <2>1, <2>2, <2>3
<1>3. CASE /\ Continue("merge") /\ Held(lease.src) = {}
           /\ lease' = [lease EXCEPT !.src = Capture({RootOf[req]})]
  <2>1. /\ Capture({RootOf[req]}) \in Lease /\ Held(Capture({RootOf[req]})) = {RootOf[req]}
        /\ \A i \in Inputs : Capture({RootOf[req]})[i] = IF i = RootOf[req] THEN disk[i] ELSE None
    BY CaptureHeld, RequestInputs DEF Typed
  <2>2. /\ lease' \in [tool : Lease, src : Lease, inc : Lease, prior : Lease]
        /\ lease'.tool = lease.tool /\ lease'.src = Capture({RootOf[req]})
        /\ lease'.inc = lease.inc /\ lease'.prior = lease.prior
    BY <1>3, <2>1 DEF Typed
  <2>3. Typed' /\ Past' /\ Routed'
    <3>1. Typed' /\ Routed'
      BY <1>3, <2>2 DEF Typed, Routed, Sourced, Stages, Live, Exchange, Continue
    <3>2. \A i \in Inputs : Leases(i)' \subseteq Leases(i) \cup {None, disk[i]}
      BY <2>1, <2>2 DEF Leases
    <3> QED  BY <3>1, <3>2, PastKept
  <2>4. Held(lease.src)' = {RootOf[req]} /\ Held(lease.tool)' = Held(lease.tool)
    BY <2>1, <2>2 DEF Held
  <2>5. Pinned' /\ Keyed' /\ Ready' /\ Answered' /\ NoCommandUnderMismatch'
    BY <1>3, <2>4 DEF Pinned, Keyed, Ready, Answered, NoCommandUnderMismatch, Continue,
       ToolHeld, RootHeld, Live, Exchange
  <2>6. \A i \in Inputs : lease.src[i] = None /\ lease'.src[i] \in {None, disk[i]}
    BY <1>3, <2>1, <2>2 DEF Held
  <2>7. \A i \in Inputs : Covered(i) => Covered(i)' /\ (Current(i)' => Current(i))
    BY <2>2, <2>6 DEF Covered, Current, Leases
  <2>8. Native' /\ CacheSound'
    BY <1>3, <2>7, NativeKept DEF CacheSound, Oracle!Eval
  <2> QED  BY <2>3, <2>5, <2>8
<1> QED  BY <1>1, <1>2, <1>3

(* The earlier includes stay under a lease, as prior ones.                 *)
LEMMA MergeIncludesInv == ASSUME IInv, MergeIncludes PROVE IInv'
<1> USE DEF IInv, MergeIncludes, call, counters
<1>1. CASE Discard /\ Return("error")
  BY <1>1, Returns, Discarding
<1>2. CASE /\ Held(lease.inc) = {} \/ IncludesValid
           /\ lease' = [lease EXCEPT !.prior = Combine(lease.inc, lease.prior), !.inc = NoLease]
           /\ UNCHANGED <<session, proc>> /\ Continue("closure")
  <2>1. /\ Combine(lease.inc, lease.prior) \in Lease
        /\ \A i \in Inputs : Combine(lease.inc, lease.prior)[i] =
             IF lease.inc[i] # None THEN lease.inc[i] ELSE lease.prior[i]
    BY CombineHeld DEF Typed
  <2>2. /\ lease' \in [tool : Lease, src : Lease, inc : Lease, prior : Lease]
        /\ lease'.tool = lease.tool /\ lease'.src = lease.src
        /\ lease'.inc = NoLease /\ lease'.prior = Combine(lease.inc, lease.prior)
    BY <1>2, <2>1, NothingLeased DEF Typed
  <2>3. Typed' /\ Routed'
    BY <1>2, <2>2 DEF Typed, Routed, Sourced, Stages, Live, Exchange, Continue
  <2>4. Past'
    <3>1. \A i \in Inputs : Leases(i)' \subseteq Leases(i) \cup {None, disk[i]}
      BY <2>1, <2>2, NothingLeased DEF Leases
    <3> QED  BY <3>1, PastKept
  <2>5. Pinned' /\ Keyed' /\ Ready' /\ Answered' /\ NoCommandUnderMismatch'
    <3>1. Held(lease.tool)' = Held(lease.tool) /\ Held(lease.src)' = Held(lease.src)
      BY <2>2 DEF Held
    <3> QED  BY <1>2, <2>2, <3>1 DEF Pinned, Keyed, Ready, Answered, NoCommandUnderMismatch,
       Continue, ToolHeld, RootHeld, Sourced, Live, Exchange
  <2>6. ASSUME NEW i \in Inputs, Covered(i) PROVE Covered(i)' /\ (Current(i)' => Current(i))
    <3>1. lease.inc[i] = None \/ (lease.inc[i] = disk[i] /\ lease.prior[i] \in {None, disk[i]})
      BY <1>2 DEF Held, IncludesValid, Valid
    <3> QED  BY <2>1, <2>2, <2>6, <3>1, NothingLeased DEF Covered, Current, Leases
  <2>7. Native' /\ CacheSound'
    BY <1>2, <2>6, NativeKept DEF CacheSound, Oracle!Eval
  <2> QED  BY <2>3, <2>4, <2>5, <2>7
<1> QED  BY <1>1, <1>2

(* The include lease covers exactly what the scanner found.                *)
LEMMA CloseIncludesInv == ASSUME IInv, CloseIncludes PROVE IInv'
<1> USE DEF IInv, CloseIncludes, call, counters
<1>1. CASE lease' = lease /\ Return("unavailable")
  BY <1>1, Returns, Returning
<1>2. CASE lease' = [lease EXCEPT !.inc = Capture(Scanned[req])] /\ Continue("check")
  <2>1. /\ Capture(Scanned[req]) \in Lease /\ Held(Capture(Scanned[req])) = Scanned[req]
        /\ \A i \in Inputs : Capture(Scanned[req])[i] = IF i \in Scanned[req] THEN disk[i] ELSE None
    BY CaptureHeld, RequestInputs DEF Typed
  <2>2. /\ lease' \in [tool : Lease, src : Lease, inc : Lease, prior : Lease]
        /\ lease'.tool = lease.tool /\ lease'.src = lease.src
        /\ lease'.inc = Capture(Scanned[req]) /\ lease'.prior = lease.prior
    BY <1>2, <2>1 DEF Typed
  <2>3. Typed' /\ Past' /\ Routed'
    <3>1. Typed' /\ Routed'
      BY <1>2, <2>2 DEF Typed, Routed, Sourced, Stages, Live, Exchange, Continue
    <3>2. \A i \in Inputs : Leases(i)' \subseteq Leases(i) \cup {None, disk[i]}
      BY <2>1, <2>2 DEF Leases
    <3> QED  BY <3>1, <3>2, PastKept
  <2>4. Held(lease.inc)' = Scanned[req] /\ Held(lease.src)' = Held(lease.src)
        /\ Held(lease.tool)' = Held(lease.tool)
    BY <2>1, <2>2 DEF Held
  <2>5. Pinned' /\ Keyed' /\ Ready' /\ Answered' /\ NoCommandUnderMismatch'
    BY <1>2, <2>4 DEF Pinned, Keyed, Ready, Answered, NoCommandUnderMismatch, Continue,
       ToolHeld, RootHeld, Sourced, Live, Exchange
  <2>6. \A i \in Inputs : lease.inc[i] = None /\ lease'.inc[i] \in {None, disk[i]}
    BY <2>1, <2>2, NothingLeased DEF Pinned
  <2>7. \A i \in Inputs : Covered(i) => Covered(i)' /\ (Current(i)' => Current(i))
    BY <2>2, <2>6 DEF Covered, Current, Leases
  <2>8. Native' /\ CacheSound'
    BY <1>2, <2>7, NativeKept DEF CacheSound, Oracle!Eval
  <2> QED  BY <2>3, <2>5, <2>8
<1> QED  BY <1>1, <1>2

-----------------------------------------------------------------------------
(* What the digest pins is what the leases pin.                            *)
LEMMA CheckRequestInv == ASSUME IInv, CheckRequest PROVE IInv'
<1> USE DEF IInv, CheckRequest, counters
<1>1. CASE \E s : Return(s)
  BY <1>1, Returns, Discarding, Returning DEF KeepOrDiscard, channel
<1>2. CASE AuthorityHolds /\ Continue(IF Kind[req] = "serialize" THEN "seal" ELSE "lookup")
  <2>1. UNCHANGED channel
    BY <1>2 DEF KeepOrDiscard, AuthorityHolds
  <2>2. Typed' /\ Past' /\ Routed'
    BY <1>2, <2>1 DEF Typed, Past, Leases, Routed, Sourced, Stages, Live, Exchange, Continue,
       channel
  <2>3. Pinned' /\ Keyed' /\ Ready' /\ Answered' /\ NoCommandUnderMismatch'
    BY <1>2, <2>1 DEF Pinned, Keyed, DigestOf, Combine, Ready, Answered, NoCommandUnderMismatch,
       Continue,
       channel, ToolHeld, RootHeld, Sourced, Live, Exchange, Held
  <2>4. Native' /\ CacheSound'
    BY <2>1, SameNative DEF CacheSound, Oracle!Eval, channel
  <2> QED  BY <2>2, <2>3, <2>4
<1> QED  BY <1>1, <1>2

(* A digest is returned.                                                   *)
LEMMA SealInv == ASSUME IInv, Seal PROVE IInv'
  BY Returns, Discarding, Returning DEF Seal, KeepOrDiscard, ReturnAnswer, channel, call

(* A hit is what a fresh compiler would answer for the pinned inputs.      *)
LEMMA LookupInv == ASSUME IInv, Lookup PROVE IInv'
<1> USE DEF IInv, Lookup, GoLive, channel, counters
<1>1. CASE \E s : Return(s)
  BY <1>1, Returns, Returning
<1>2. CASE Continue("start") \/ (Continue("hit") /\ Kind[req] \in Cached /\ \E e \in Entry : answer' = e.payload)
  <2>1. Typed' /\ Past' /\ Routed'
    BY <1>2 DEF Typed, Past, Leases, Routed, Sourced, Stages, Live, Exchange, Continue
  <2>2. Pinned' /\ Keyed' /\ Ready' /\ NoCommandUnderMismatch'
    BY <1>2 DEF Pinned, Keyed, DigestOf, Combine, Ready, NoCommandUnderMismatch, Continue,
       ToolHeld, RootHeld, Sourced, Live, Exchange, Held
  <2>3. Answered'
    <3>1. digest = DigestOf(req)
      BY DEF Keyed, RootHeld, Routed
    <3>2. pc' = "hit" => answer' = Oracle!Eval(req, digest.view)
      BY <1>2, <3>1 DEF CacheSound, Entry, DigestOf, Continue
    <3> QED  BY <1>2, <3>2 DEF Answered, Continue
  <2>4. Native' /\ CacheSound'
    BY <1>2, SameNative DEF CacheSound, Oracle!Eval
  <2> QED  BY <2>1, <2>2, <2>3, <2>4
<1> QED  BY <1>1, <1>2

(* A cached answer is returned, or refused.                                *)
LEMMA HitInv == ASSUME IInv, Hit PROVE IInv'
<1> USE DEF IInv, Hit, call, counters
<1>1. pc' = "idle" /\ (Discard \/ UNCHANGED channel)
  BY Returns DEF KeepOrDiscard, ReturnAnswer, Return, Routed, Cached
<1> QED  BY <1>1, Discarding, Returning DEF channel

-----------------------------------------------------------------------------
(* unity_compiler_start_process and the transaction.                       *)
LEMMA PreflightInv == ASSUME IInv, Preflight PROVE IInv'
<1> USE DEF IInv, Preflight, Started, StartFailed, channel, call, counters
<1>1. CASE \E s : Return(s)
  BY <1>1, Returns, Returning
<1>2. CASE Continue("spawn") \/ (Continue("begin") /\ proc # NoProcess /\ Kind[req] \notin {"capture", "startup"})
  <2>1. Typed' /\ Past' /\ Routed'
    BY <1>2 DEF Typed, Past, Leases, Routed, Sourced, Stages, Live, Exchange, Continue
  <2>2. Pinned' /\ Keyed' /\ Ready' /\ Answered' /\ NoCommandUnderMismatch'
    BY <1>2 DEF Pinned, Keyed, DigestOf, Combine, Ready, Answered, NoCommandUnderMismatch, Continue,
       ToolHeld, RootHeld, Sourced, Live, Exchange, Held
  <2>3. Native' /\ CacheSound'
    BY SameNative DEF CacheSound, Oracle!Eval
  <2> QED  BY <2>1, <2>2, <2>3
<1> QED  BY <1>1, <1>2

(* A new process has read its own tool, which is leased.                   *)
LEMMA SpawnInv == ASSUME IInv, Spawn PROVE IInv'
<1> USE DEF IInv, Spawn, StartFailed, call, counters
<1>1. CASE proc' = proc /\ \E s : Return(s)
  BY <1>1, Returns, Returning
<1>2. CASE /\ Continue("init")
           /\ proc' = [i \in Inputs |-> IF i = Tool THEN Content(disk[Tool]) ELSE None]
  <2>1. Tool \in Inputs /\ lease.tool[Tool] # None /\ disk[Tool] \in Nat
    BY DEF Inputs, Pinned, ToolHeld, Held, Typed
  <2>2. proc' \in Views
    BY <1>2, <2>1 DEF Views, Content, Contents
  <2>3. \A i \in Inputs : proc'[i] # None => i = Tool /\ proc'[i] = Content(disk[i])
    BY <1>2
  <2>4. Typed' /\ Past' /\ Routed'
    BY <1>2, <2>2 DEF Typed, Past, Leases, Routed, Sourced, Stages, Live, Exchange, Continue
  <2>5. Pinned' /\ Keyed' /\ Ready' /\ Answered' /\ NoCommandUnderMismatch'
    BY <1>2, <2>2, NothingIsNothing DEF Pinned, Keyed, DigestOf, Combine, Ready, Answered,
       NoCommandUnderMismatch,
       Continue, ToolHeld, RootHeld, Sourced, Live, Exchange, Held
  <2>6. Native'
    <3>1. Covered(Tool)'
      BY <2>1 DEF Covered, Leases
    <3> QED  BY <2>3, <3>1 DEF Native
  <2>7. CacheSound'
    BY DEF CacheSound, Oracle!Eval
  <2> QED  BY <2>4, <2>5, <2>6, <2>7
<1> QED  BY <1>1, <1>2

(* The initialization leaves a process only with a session.                *)
LEMMA InitializeInv == ASSUME IInv, Initialize PROVE IInv'
<1> USE DEF IInv, Initialize, StartFailed, call, counters
<1>1. /\ session' \in [status : {"none", "ready", "failed"}, apis : Apis \cup {None}]
      /\ proc' = proc => session'.status = "ready" \/ proc = NoProcess
      /\ proc' \in {proc, NoProcess}
  BY DEF Typed, FailedSession
<1>2. CASE proc' = NoProcess /\ \E s : Return(s)
  BY <1>1, <1>2, Returns, Losing
<1>3. CASE proc' = proc /\ session'.status = "ready" /\ Return("session")
  <2>1. Typed' /\ Past'
    BY <1>1, <1>3, Returns DEF Typed, Past, Leases, Stages
  <2>2. Native' /\ Held(lease.tool)' \subseteq {Tool}
    BY <1>3, SameNative DEF Pinned, Held
  <2> QED  BY <1>3, <2>1, <2>2, Returns, Resting
<1>4. CASE proc' = proc /\ session'.status = "ready" /\ Continue("begin")
           /\ Kind[req] \notin {"capture", "startup"}
  <2>1. Typed' /\ Past' /\ Routed'
    BY <1>1, <1>4 DEF Typed, Past, Leases, Routed, Sourced, Stages, Live, Exchange, Continue
  <2>2. Pinned' /\ Keyed' /\ Ready' /\ Answered' /\ NoCommandUnderMismatch'
    BY <1>4 DEF Pinned, Keyed, DigestOf, Combine, Ready, Answered, NoCommandUnderMismatch, Continue,
       ToolHeld, RootHeld, Sourced, Live, Exchange, Held
  <2>3. Native' /\ CacheSound'
    BY <1>4, SameNative DEF CacheSound, Oracle!Eval
  <2> QED  BY <2>1, <2>2, <2>3
<1> QED  BY <1>1, <1>2, <1>3, <1>4 DEF Started

(* A command is let through only under a matching session.                 *)
LEMMA BeginTransactionInv == ASSUME IInv, BeginTransaction PROVE IInv'
<1> USE DEF IInv, BeginTransaction, StartFailed, call, counters
<1>1. CASE proc' = proc /\ \E s : Return(s)
  BY <1>1, Returns, Returning
<1>2. CASE proc' = NoProcess /\ \E s : Return(s)
  BY <1>2, Returns, Losing DEF Typed
<1>3. CASE /\ proc' = proc /\ Continue("run") /\ Permits(session)
           /\ Kind[req] \in Reporting => ApisOf[req] = session.apis
  <2>1. Typed' /\ Past' /\ Routed'
    BY <1>3 DEF Typed, Past, Leases, Routed, Sourced, Stages, Live, Exchange, Continue
  <2>2. Pinned' /\ Keyed' /\ Ready' /\ Answered'
    BY <1>3 DEF Pinned, Keyed, DigestOf, Combine, Ready, Answered, Continue,
       ToolHeld, RootHeld, Sourced, Live, Exchange, Held
  <2>3. NoCommandUnderMismatch'
    BY <1>3 DEF NoCommandUnderMismatch, Ready, Exchange, Permits, ExpectedStatus, Continue
  <2>4. Native' /\ CacheSound'
    BY <1>3, SameNative DEF CacheSound, Oracle!Eval
  <2> QED  BY <2>1, <2>2, <2>3, <2>4
<1> QED  BY <1>1, <1>2, <1>3

(* A request reads nothing but leased files, or reports what it read.      *)
LEMMA ReadIsLeased ==
    ASSUME IInv, pc \in {"run", "validate"}, NEW i \in DependsOn[req]
    PROVE  /\ i \in Inputs
           /\ Covered(i) \/ (Kind[req] \in Reporting /\ i \in Reads[req])
<1>1. req \in Requests /\ Kind[req] \in Kinds
  BY KindsKnown DEF IInv, Typed
<1>2. CASE i = Tool
  BY <1>2 DEF IInv, Pinned, ToolHeld, Exchange, Held, Covered, Leases, Inputs
<1>3. CASE i # Tool
  <2>1. Sourced /\ Kind[req] # "serialize" /\ (i = RootOf[req] \/ i \in Reads[req])
    BY <1>1, <1>3 DEF DependsOn, Sourced, IInv, Routed, Live
  <2>2. i \in Inputs /\ Held(lease.src) = {RootOf[req]} /\ Held(lease.inc) = Scanned[req]
    BY <1>1, <2>1, RequestInputs DEF IInv, Pinned, RootHeld, Live
  <2>3. CASE i = RootOf[req]
    BY <2>2, <2>3 DEF Held, Covered, Leases
  <2>4. CASE i \in Reads[req] /\ Kind[req] \notin Reporting
    <3>1. i \in Scanned[req]
      BY <1>1, <2>1, <2>4, ScannerComplete DEF Kinds, Reporting, Sourced, Sourceless
    <3> QED  BY <2>2, <3>1 DEF Held, Covered, Leases
  <2> QED  BY <2>1, <2>2, <2>3, <2>4
<1> QED  BY <1>2, <1>3

(* The process reads one more input, as it is on disk.                     *)
LEMMA ReadInputInv == ASSUME IInv, NEW i \in Inputs, ReadInput(i) PROVE IInv'
<1> USE DEF IInv, ReadInput, call, counters
<1>1. proc \in Views /\ disk[i] \in Nat
  BY DEF Typed, Ready, Exchange
<1>2. proc' \in Views /\ \A j \in Inputs : proc'[j] = IF j = i THEN Content(disk[i]) ELSE proc[j]
  BY <1>1 DEF Views, Content, Contents
<1>3. Typed' /\ Past' /\ Routed'
  BY <1>2 DEF Typed, Past, Leases, Routed, Sourced
<1>4. Pinned' /\ Keyed' /\ Ready' /\ Answered' /\ NoCommandUnderMismatch'
  BY <1>2, NothingIsNothing DEF Pinned, Keyed, DigestOf, Combine, Ready, Answered,
     NoCommandUnderMismatch,
     Exchange, ToolHeld, RootHeld, Sourced, Held
<1>5. Native'
  <2> SUFFICES ASSUME NEW j \in Inputs, proc'[j] # None
               PROVE  /\ Covered(j) \/ (Kind[req] \in Reporting /\ j \in Reads[req])
                      /\ Covered(j) /\ Current(j) => proc'[j] = Content(disk[j])
    BY DEF Native, Covered, Current, Leases
  <2>1. CASE j = i
    BY <1>2, <2>1, ReadIsLeased
  <2>2. CASE j # i
    BY <1>2, <2>2 DEF Native, Ready, Exchange
  <2> QED  BY <2>1, <2>2
<1>6. CacheSound'
  BY DEF CacheSound, Oracle!Eval
<1> QED  BY <1>3, <1>4, <1>5, <1>6

(* A response is computed from what the process has read.                  *)
LEMMA RespondInv == ASSUME IInv, Respond PROVE IInv'
<1> USE DEF IInv, Respond, Continue, channel, counters
<1>1. Typed' /\ Past' /\ Routed'
  BY DEF Typed, Past, Leases, Routed, Sourced, Stages, Live, Exchange
<1>2. Pinned' /\ Keyed' /\ Ready' /\ NoCommandUnderMismatch'
  BY DEF Pinned, Keyed, DigestOf, Combine, Ready, NoCommandUnderMismatch,
     ToolHeld, RootHeld, Sourced, Live, Exchange, Held
<1>3. Answered'
  BY DEF Answered, Oracle!Eval
<1>4. Native' /\ CacheSound'
  BY SameNative DEF CacheSound, Oracle!Eval
<1> QED  BY <1>1, <1>2, <1>3, <1>4

(* A broken exchange loses the process.                                    *)
LEMMA BreakTransactionInv == ASSUME IInv, BreakTransaction PROVE IInv'
  BY Returns, Losing DEF IInv, Typed, BreakTransaction, call

(* While every lease holds, what the process has read of the dependencies  *)
(* of its request is on disk now.                                          *)
LEMMA ReadIsCurrent ==
    ASSUME IInv, pc = "validate", answer # None, AllValid,
           DependenciesCaptured({i \in Reads[req] : proc[i] # None})
    PROVE  /\ answer = Oracle!Eval(req, [i \in Inputs |-> Content(disk[i])])
           /\ Sourced => answer = Oracle!Eval(req, digest.view)
<1>1. /\ answer = Oracle!Eval(req, proc) /\ proc # NoProcess
      /\ \A i \in DependsOn[req] : proc[i] # None
  BY DEF IInv, Answered, Ready, Exchange
<1>2. ASSUME NEW i \in DependsOn[req]
      PROVE  i \in Inputs /\ Covered(i) /\ Current(i) /\ proc[i] = Content(disk[i])
  <2>1. i \in Inputs /\ Covered(i)
    BY <1>1, ReadIsLeased DEF DependenciesCaptured, Held, Covered, Leases
  <2>2. Current(i)
    BY <2>1 DEF AllValid, IncludesValid, Valid, Current, Leases
  <2> QED  BY <1>1, <2>1, <2>2 DEF IInv, Native
<1>3. answer = Oracle!Eval(req, [i \in Inputs |-> Content(disk[i])])
  BY <1>1, <1>2 DEF Oracle!Eval
<1>4. ASSUME Sourced PROVE answer = Oracle!Eval(req, digest.view)
  <2>1. digest = DigestOf(req) /\ Held(lease.tool) = {Tool} /\ Held(lease.src) = {RootOf[req]}
        /\ Held(lease.inc) = Scanned[req] /\ Kind[req] # "serialize" /\ req \in Requests
    BY <1>4 DEF IInv, Keyed, RootHeld, Live, Pinned, ToolHeld, Exchange, Routed, Typed
  <2>2. \A i \in DependsOn[req] : lease.tool[i] # None \/ lease.src[i] # None \/ lease.inc[i] # None
    <3> SUFFICES ASSUME NEW i \in DependsOn[req]
                 PROVE  lease.tool[i] # None \/ lease.src[i] # None \/ lease.inc[i] # None
      OBVIOUS
    <3>1. i = Tool \/ i = RootOf[req] \/ i \in Reads[req]
      BY <1>4, <2>1 DEF DependsOn, Sourced
    <3>2. i \in Reads[req] => i \in Held(lease.inc)
      BY <1>1, <1>4, <2>1, ScannerComplete, KindsKnown
      DEF DependenciesCaptured, Kinds, Reporting, Sourced, Sourceless
    <3> QED  BY <2>1, <3>1, <3>2 DEF Held
  <2>3. \A i \in DependsOn[req] : i \in Inputs /\ digest.view[i] = Content(disk[i])
    BY <1>2, <2>1, <2>2 DEF DigestOf, Combine, Current, Leases
  <2> QED  BY <1>3, <2>3 DEF Oracle!Eval
<1> QED  BY <1>3, <1>4

(* A response is accepted, refused, or on its way to the cache.            *)
LEMMA ValidateResponseInv == ASSUME IInv, ValidateResponse PROVE IInv'
<1> USE DEF IInv, ValidateResponse, call, counters
<1>1. CASE ~AuthorityHolds
  <2>1. pc' = "idle"
    BY <1>1 DEF Return, Routed, Exchange
  <2>2. CASE Discard
    BY <2>1, <2>2, Discarding
  <2>3. CASE UNCHANGED channel /\ ~Discard
    (* the session is known not to have failed while the process lives *)
    <3>1. AllValid /\ session.status = "failed"
      BY <1>1, <2>3 DEF KeepOrDiscard, AuthorityHolds
    <3> QED  BY <3>1 DEF Ready, Exchange
  <2> QED  BY <1>1, <2>2, <2>3 DEF KeepOrDiscard
<1>2. CASE AuthorityHolds /\ ~DependenciesCaptured({i \in Reads[req] : proc[i] # None})
  BY <1>2, Returns, Discarding
<1>3. CASE /\ AuthorityHolds /\ DependenciesCaptured({i \in Reads[req] : proc[i] # None})
           /\ pc' = "idle" /\ UNCHANGED channel
  BY <1>3, Returning DEF channel
<1>4. CASE /\ AuthorityHolds /\ DependenciesCaptured({i \in Reads[req] : proc[i] # None})
           /\ answer # None /\ Kind[req] \in Cached /\ Continue("store") /\ UNCHANGED channel
  <2>1. Sourced
    BY <1>4 DEF Sourced, Sourceless, Cached
  <2>2. answer = Oracle!Eval(req, digest.view)
    BY <1>4, <2>1, ReadIsCurrent DEF AuthorityHolds
  <2>3. Typed' /\ Past' /\ Routed'
    BY <1>4, <2>1 DEF Typed, Past, Leases, Routed, Sourced, Stages, Live, Exchange, Continue,
       channel
  <2>4. Pinned' /\ Keyed' /\ Ready' /\ NoCommandUnderMismatch'
    BY <1>4 DEF Pinned, Keyed, DigestOf, Combine, Ready, NoCommandUnderMismatch, Continue, channel,
       ToolHeld, RootHeld, Sourced, Live, Exchange, Held
  <2>5. Answered' /\ CacheSound'
    BY <1>4, <2>2 DEF Answered, CacheSound, Oracle!Eval, Continue
  <2>6. Native'
    <3> SUFFICES ASSUME NEW i \in Inputs, proc[i] # None
                 PROVE  Covered(i)' /\ (Current(i)' => proc[i] = Content(disk[i]))
      BY <1>4 DEF Native, channel
    <3>1. Covered(i)
      BY <1>4 DEF Native, Ready, Exchange, DependenciesCaptured, Held, Covered, Leases
    <3> QED  BY <1>4, <3>1 DEF Native, Ready, Exchange, Covered, Current, Leases, channel
  <2> QED  BY <2>3, <2>4, <2>5, <2>6
<1> QED
  BY <1>1, <1>2, <1>3, <1>4 DEF ReturnAnswer, Return, Routed, Exchange

(* What is stored is what the digest's inputs give.                        *)
LEMMA StoreInv == ASSUME IInv, Store PROVE IInv'
<1> USE DEF IInv, Store, ReturnAnswer, channel, call, counters
<1>1. CacheSound'
  <2>1. digest = DigestOf(req) /\ answer = Oracle!Eval(req, digest.view)
    BY DEF Keyed, RootHeld, Routed, Answered
  <2>2. [digest |-> digest, payload |-> answer].payload
          = Oracle!Eval([digest |-> digest, payload |-> answer].digest.req,
                        [digest |-> digest, payload |-> answer].digest.view)
    BY <2>1 DEF DigestOf
  <2>3. \A e \in cache' : e.payload = Oracle!Eval(e.digest.req, e.digest.view)
    BY <2>2 DEF CacheSound
  <2> QED  BY <2>3 DEF CacheSound, Oracle!Eval
<1>2. Typed' /\ Past' /\ Native'
  BY SameNative DEF Typed, Past, Leases, Stages
<1>3. Routed' /\ Pinned' /\ Keyed' /\ Ready' /\ Answered' /\ NoCommandUnderMismatch'
  BY DEF Routed, Pinned, ToolHeld, RootHeld, Live, Exchange, Keyed, Ready, Answered,
     NoCommandUnderMismatch, Held
<1> QED  BY <1>1, <1>2, <1>3

-----------------------------------------------------------------------------
(* Every step preserves the invariant.                                     *)
LEMMA NextInv == ASSUME IInv, [Next]_vars PROVE IInv'
<1>1. CASE UNCHANGED vars
  <2> USE <1>1 DEF IInv, vars
  <2>1. Typed' /\ Past' /\ Routed'
    BY DEF Typed, Past, Leases, Routed, Sourced
  <2>2. Pinned' /\ Keyed'
    BY DEF Pinned, Keyed, DigestOf, Combine, ToolHeld, RootHeld, Sourced, Held
  <2>3. Native'
    BY SameNative
  <2>4. Ready' /\ NoCommandUnderMismatch'
    BY DEF Ready, NoCommandUnderMismatch
  <2>5. Answered' /\ CacheSound'
    BY DEF Answered, CacheSound, Oracle!Eval
  <2> QED  BY <2>1, <2>2, <2>3, <2>4, <2>5
<1>2. CASE ChannelStep
  BY <1>2, EnterInv, RefreshSourceInv, AuthorityInv, RootAuthorityInv, MergeIncludesInv,
     CloseIncludesInv,
     CheckRequestInv, SealInv, LookupInv, HitInv, PreflightInv, SpawnInv, InitializeInv,
     BeginTransactionInv, RespondInv, BreakTransactionInv, ValidateResponseInv,
     StoreInv DEF ChannelStep
<1> QED
  BY <1>1, <1>2, ConfigureInv, ShutdownInv, RecycleInv, SetExpectedInv, AskInv, EditInv,
     ReadInputInv DEF Next

(* The invariant holds for every set of requests, headers and              *)
(* environments, and every number of edits and requests.                   *)
LEMMA Invariant == Spec => []IInv
<1>1. Init => IInv
  BY InitInv
<1>2. IInv /\ [Next]_vars => IInv'
  BY NextInv
<1> QED  BY <1>1, <1>2, PTL DEF Spec

(* Every entry that usc_cache_store was ever given is what a fresh         *)
(* compiler would answer for the inputs whose digest it is stored under.   *)
THEOREM CacheIsSound == Spec => []CacheSound
<1>1. IInv => CacheSound
  BY DEF IInv
<1> QED  BY <1>1, Invariant, PTL

(* begin_compiler_transaction lets no command through to a compiler whose  *)
(* session is not the expected one, nor the request's own.                 *)
THEOREM CommandsAreMatched == Spec => []NoCommandUnderMismatch
<1>1. IInv => NoCommandUnderMismatch
  BY DEF IInv
<1> QED  BY <1>1, Invariant, PTL

(* While the leases hold, the native include cache of the process contains *)
(* nothing they do not pin (discard_toolchain_authority and the source     *)
(* refresh of get_source_fingerprints).                                    *)
THEOREM NativeCacheIsAuthorized == Spec => []NativeCacheAuthorized
<1>1. ASSUME IInv PROVE NativeCacheAuthorized
  <2> SUFFICES ASSUME proc # NoProcess, AllValid, NEW i \in Inputs, proc[i] # None
               PROVE  /\ pc \notin {"run", "validate"} => Leases(i) # {None}
                      /\ \A v \in Leases(i) \ {None} : Content(v) = proc[i]
    BY DEF NativeCacheAuthorized, Leases
  <2>1. Current(i)
    BY DEF AllValid, IncludesValid, Valid, Current, Leases
  <2>2. CASE Covered(i)
    BY <1>1, <2>1, <2>2 DEF IInv, Native, Covered, Current
  <2>3. CASE ~Covered(i)
    BY <1>1, <2>3 DEF IInv, Native, Covered
  <2> QED  BY <2>2, <2>3
<1> QED  BY <1>1, Invariant, PTL

-----------------------------------------------------------------------------
(* The inputs as they are.                                                 *)
Now == [i \in Inputs |-> Content(disk[i])]

(* A return without an answer is an answer the oracle declines, or nothing *)
(* that it can see when the channel is starting up.                        *)
LEMMA Declines ==
    ASSUME IInv, NEW status, status # "answer", Return(status),
           pc \notin {"idle", "closed", "store"}, UNCHANGED <<disk, req>>
    PROVE  [Oracle!Next]_(Oracle!vars)
<1>1. req \in Requests /\ req # None
  BY NothingIsNothing DEF IInv, Typed
<1>2. CASE Kind[req] = "startup"
  BY <1>2 DEF Return, Oracle!vars
<1>3. CASE Kind[req] # "startup"
  <2>1. Oracle!Answer
    BY <1>1, <1>3 DEF Return, Oracle!Answer
  <2> QED  BY <2>1 DEF Oracle!Next
<1> QED  BY <1>2, <1>3

(* Going on to the next stage is nothing the oracle can see.               *)
LEMMA Continues ==
    ASSUME NEW stage, stage \notin {"idle", "closed", "store"}, Continue(stage),
           pc \notin {"idle", "closed", "store"}, UNCHANGED <<disk, req>>
    PROVE  UNCHANGED Oracle!vars
  BY DEF Continue, Oracle!vars

(* An answer that is what a compiler would say of the inputs now, or what  *)
(* was decided before the store, is the oracle's.                          *)
LEMMA Answers ==
    ASSUME IInv, NEW a, ReturnAnswer(a), UNCHANGED <<disk, req>>,
           Kind[req] # "startup", pc \notin {"idle", "closed"},
           IF pc = "store" THEN a = answer /\ answer # None
           ELSE a = Oracle!Eval(req, Now)
    PROVE  Oracle!Next
<1>1. req \in Requests /\ req # None
  BY NothingIsNothing DEF IInv, Typed
<1>2. Oracle!Answer
  BY <1>1 DEF ReturnAnswer, Oracle!Answer, Now
<1> QED  BY <1>2 DEF Oracle!Next

(* A cache hit that passed the lease validation is what a compiler would   *)
(* say now.                                                                *)
LEMMA HitIsCurrent ==
    ASSUME IInv, pc = "hit", AllValid, DependenciesCaptured(Reads[req])
    PROVE  answer = Oracle!Eval(req, Now)
<1>1. /\ digest = DigestOf(req) /\ answer = Oracle!Eval(req, digest.view) /\ req \in Requests
      /\ Held(lease.tool) = {Tool} /\ Held(lease.src) = {RootOf[req]} /\ Held(lease.inc) = Scanned[req]
      /\ Kind[req] \in Cached
  BY DEF IInv, Keyed, RootHeld, Pinned, ToolHeld, Routed, Typed, Answered
<1>2. Reads[req] \subseteq Held(lease.inc)
  BY <1>1, ScannerComplete DEF DependenciesCaptured, Cached, Reporting
<1>3. ASSUME NEW i \in DependsOn[req]
      PROVE  i \in Inputs /\ (lease.tool[i] # None \/ lease.src[i] # None \/ lease.inc[i] # None)
  <2>1. i = Tool \/ i = RootOf[req] \/ i \in Reads[req]
    BY <1>1 DEF DependsOn, Cached, Sourceless
  <2> QED  BY <1>1, <1>2, <2>1 DEF Held
<1>4. \A i \in DependsOn[req] : i \in Inputs /\ digest.view[i] = Content(disk[i])
  BY <1>1, <1>3 DEF DigestOf, Combine, AllValid, IncludesValid, Valid
<1> QED  BY <1>1, <1>4 DEF Oracle!Eval, Now

(* A digest returned under leases that hold describes the inputs as they   *)
(* are.                                                                    *)
LEMMA SealIsCurrent ==
    ASSUME IInv, pc = "seal", AllValid
    PROVE  digest = Oracle!Eval(req, Now)
<1>1. /\ digest = DigestOf(req) /\ req \in Requests /\ Kind[req] = "serialize"
      /\ Held(lease.tool) = {Tool} /\ Held(lease.src) = {RootOf[req]} /\ Held(lease.inc) = Scanned[req]
  BY DEF IInv, Keyed, RootHeld, Pinned, ToolHeld, Routed, Typed
<1>2. DependsOn[req] = {Tool, RootOf[req]} \cup Scanned[req]
  BY <1>1 DEF DependsOn, Sourceless
<1>3. ASSUME NEW i \in Inputs
      PROVE  digest.view[i] = IF i \in DependsOn[req] THEN Now[i] ELSE None
  BY <1>1, <1>2 DEF DigestOf, Combine, AllValid, IncludesValid, Valid, Held, Now
<1>4. /\ digest = [req |-> req, view |-> digest.view]
      /\ digest.view = [i \in Inputs |-> digest.view[i]]
  BY <1>1 DEF DigestOf
<1>5. digest.view = [i \in Inputs |-> IF i \in DependsOn[req] THEN Now[i] ELSE None]
  BY <1>3, <1>4
<1> QED  BY <1>4, <1>5 DEF Oracle!Eval

(* What is stored is a response.                                           *)
LEMMA StoredIsSomething ==
    ASSUME IInv, pc = "store" PROVE answer # None
<1>1. answer = Oracle!Eval(req, digest.view) /\ digest = DigestOf(req) /\ req \in Requests
  BY DEF IInv, Keyed, RootHeld, Routed, Answered, Typed
<1>2. \A i \in Inputs : lease.tool[i] \in Nat \cup {None} /\ lease.src[i] \in Nat \cup {None}
                        /\ lease.inc[i] \in Nat \cup {None}
  BY DEF IInv, Typed, Lease
<1>3. \A i \in Inputs : digest.view[i] \in Contents \cup {None}
  BY <1>1, <1>2 DEF DigestOf, Combine, Content, Contents
<1>4. answer \in [req : Requests, view : Views]
  BY <1>1, <1>3 DEF Oracle!Eval, Views
<1> QED  BY <1>4, NothingIsNothing

-----------------------------------------------------------------------------
(* An edit changes the oracle's inputs and nothing else.                   *)
LEMMA EditOracle == ASSUME IInv, NEW i \in Inputs, Edit(i) PROVE Oracle!Next
<1>1. \A j \in Inputs : disk'[j] \in Nat
  BY DEF IInv, Typed, Edit
<1>2. Now' \in [Inputs -> Contents]
  BY <1>1 DEF Now, Content, Contents
<1> QED  BY <1>2 DEF Oracle!Next, Oracle!Change, Now, Edit, call

(* A question is the oracle's question.                                    *)
LEMMA AskOracle == ASSUME IInv, NEW r \in Requests, Ask(r) PROVE Oracle!Next
  BY DEF Ask, Continue, Oracle!Next, Oracle!Ask

(* The steps of the channel as the oracle sees them: a stutter, a          *)
(* decision, or an answer.                                                 *)
LEMMA AuthorityOracle ==
    ASSUME IInv, ToolAuthority \/ StartAuthority PROVE [Oracle!Next]_(Oracle!vars)
<1>1. UNCHANGED <<disk, req>> /\ pc \in {"tool", "start"}
  BY DEF ToolAuthority, StartAuthority, call
<1>2. \/ Continue("root") \/ Continue("preflight")
      \/ \E status \in {"rejected", "error"} : Return(status)
  BY DEF ToolAuthority, StartAuthority, CaptureOrValidate, AuthorityFailed, StartFailed
<1>3. CASE \E status \in {"rejected", "error"} : Return(status)
  BY <1>1, <1>3, Declines
<1> QED  BY <1>1, <1>2, <1>3, Continues

(* The start of a process shows only when it fails.                        *)
LEMMA StartOracle ==
    ASSUME IInv, Preflight \/ Spawn \/ Initialize \/ BeginTransaction
    PROVE  [Oracle!Next]_(Oracle!vars)
<1>1. UNCHANGED <<disk, req>> /\ pc \in {"preflight", "spawn", "init", "begin"}
  BY DEF Preflight, Spawn, Initialize, BeginTransaction, call
<1>2. \/ \E stage \in {"begin", "spawn", "init", "run"} : Continue(stage)
      \/ \E status \in {"rejected", "error", "session"} : Return(status)
  BY DEF Preflight, Spawn, Initialize, BeginTransaction, StartFailed, Started
<1>3. CASE \E status \in {"rejected", "error", "session"} : Return(status)
  BY <1>1, <1>3, Declines
<1> QED  BY <1>1, <1>2, <1>3, Continues

(* The owner's calls do not show.                                          *)
LEMMA OwnerOracle ==
    ASSUME IInv, Configure \/ Shutdown \/ Recycle \/ SetExpected PROVE UNCHANGED Oracle!vars
<1>1. CASE Configure
  BY <1>1 DEF Configure, Continue, Oracle!vars
<1>2. CASE Shutdown
  BY <1>2 DEF IInv, Routed, Shutdown, Continue, call, Oracle!vars
<1>3. CASE Recycle \/ SetExpected
  BY <1>3 DEF Recycle, SetExpected, call, Oracle!vars
<1> QED  BY <1>1, <1>2, <1>3

(* What the process reads does not show.                                   *)
LEMMA ReadOracle == ASSUME NEW i \in Inputs, ReadInput(i) PROVE UNCHANGED Oracle!vars
  BY DEF ReadInput, call, Oracle!vars

(* The stages before an answer show only when they decline.                *)
LEMMA EnterOracle ==
    ASSUME IInv, EnterDisassemble \/ EnterCapture \/ RefreshSource \/ RootAuthority \/ MergeIncludes
                 \/ CloseIncludes \/ CheckRequest \/ Lookup \/ Respond \/ BreakTransaction
    PROVE  [Oracle!Next]_(Oracle!vars)
<1>1. UNCHANGED <<disk, req>> /\ pc \in {"enter", "root", "merge", "closure", "check", "lookup", "run"}
  BY DEF EnterDisassemble, EnterCapture, RefreshSource, RootAuthority, MergeIncludes, CloseIncludes,
         CheckRequest, Lookup, Respond, BreakTransaction, call
<1>2. \/ \E stage \in {"start", "tool", "merge", "closure", "check", "seal", "lookup", "hit", "validate"} :
             Continue(stage)
      \/ \E status \in {"cacheOnlyMiss", "session", "error", "unavailable"} : Return(status)
  <2>1. CASE EnterDisassemble \/ EnterCapture \/ RefreshSource
    BY <2>1 DEF EnterDisassemble, EnterCapture, RefreshSource, GoLive
  <2>2. CASE RootAuthority \/ MergeIncludes \/ CloseIncludes
    BY <2>2 DEF RootAuthority, MergeIncludes, CloseIncludes
  <2>3. CASE CheckRequest \/ Lookup
    BY <2>3 DEF CheckRequest, Lookup, GoLive
  <2>4. CASE Respond \/ BreakTransaction
    BY <2>4 DEF Respond, BreakTransaction
  <2> QED  BY <2>1, <2>2, <2>3, <2>4
<1>3. CASE \E status \in {"cacheOnlyMiss", "session", "error", "unavailable"} : Return(status)
  BY <1>1, <1>3, Declines
<1> QED  BY <1>1, <1>2, <1>3, Continues

(* A sealed digest is an answer about this instant.                        *)
LEMMA SealOracle == ASSUME IInv, Seal PROVE [Oracle!Next]_(Oracle!vars)
<1>1. UNCHANGED <<disk, req>> /\ pc = "seal" /\ Kind[req] # "startup"
  BY DEF Seal, call, IInv, Routed
<1>2. CASE AllValid /\ ReturnAnswer(digest)
  BY <1>1, <1>2, SealIsCurrent, Answers
<1>3. CASE Return("error")
  BY <1>1, <1>3, Declines
<1> QED  BY <1>2, <1>3 DEF Seal, AuthorityHolds

(* A hit is an answer about this instant.                                  *)
LEMMA HitOracle == ASSUME IInv, Hit PROVE [Oracle!Next]_(Oracle!vars)
<1>1. UNCHANGED <<disk, req>> /\ pc = "hit" /\ Kind[req] # "startup"
  BY DEF Hit, call, IInv, Routed, Cached
<1>2. \/ AllValid /\ DependenciesCaptured(Reads[req]) /\ ReturnAnswer(answer)
      \/ \E status \in {"unavailable", "rejected", "error"} : Return(status)
  BY DEF Hit, AuthorityHolds
<1>3. CASE AllValid /\ DependenciesCaptured(Reads[req]) /\ ReturnAnswer(answer)
  BY <1>1, <1>3, HitIsCurrent, Answers
<1>4. CASE \E status \in {"unavailable", "rejected", "error"} : Return(status)
  BY <1>1, <1>4, Declines
<1> QED  BY <1>2, <1>3, <1>4

(* A validated response is an answer about this instant; on its way to the *)
(* cache it is decided.                                                    *)
LEMMA ResponseOracle == ASSUME IInv, ValidateResponse PROVE [Oracle!Next]_(Oracle!vars)
<1>1. UNCHANGED <<disk, req, answer>> /\ pc = "validate" /\ Kind[req] # "startup"
  BY DEF ValidateResponse, call, IInv, Routed, Exchange
<1>2. \/ /\ AllValid /\ DependenciesCaptured({i \in Reads[req] : proc[i] # None}) /\ answer # None
         /\ Continue("store") \/ ReturnAnswer(answer)
      \/ \E status \in {"unavailable", "compilerFailed", "error"} : Return(status)
  BY DEF ValidateResponse, AuthorityHolds
<1>3. CASE \E status \in {"unavailable", "compilerFailed", "error"} : Return(status)
  BY <1>1, <1>3, Declines
<1>4. CASE /\ AllValid /\ DependenciesCaptured({i \in Reads[req] : proc[i] # None}) /\ answer # None
           /\ Continue("store") \/ ReturnAnswer(answer)
  <2>1. answer = Oracle!Eval(req, Now)
    BY <1>1, <1>4, ReadIsCurrent DEF Now
  <2>2. CASE ReturnAnswer(answer)
    BY <1>1, <2>1, <2>2, Answers
  <2>3. CASE Continue("store")
    <3>1. req # None
      BY NothingIsNothing DEF IInv, Typed
    <3>2. Oracle!Decide
      BY <1>1, <2>1, <2>3, <3>1 DEF Continue, Oracle!Decide, Now
    <3> QED  BY <3>2 DEF Oracle!Next
  <2> QED  BY <1>4, <2>2, <2>3
<1> QED  BY <1>2, <1>3, <1>4

(* After the store the decided answer is given.                            *)
LEMMA StoreOracle == ASSUME IInv, Store PROVE Oracle!Next
<1>1. UNCHANGED <<disk, req>> /\ pc = "store" /\ ReturnAnswer(answer) /\ Kind[req] # "startup"
  BY DEF Store, call, IInv, Routed, Cached
<1> QED  BY <1>1, StoredIsSomething, Answers

(* The channel implements its oracle: whatever is edited between any two   *)
(* steps, a caller gets the result of a fresh compiler on the inputs of    *)
(* one instant of its request, or none.                                    *)
THEOREM AnswersAreCurrentAlways == Spec => AnswersAreCurrent
<1>1. Init => Oracle!Init
  BY DEF Init, Oracle!Init, Content, Contents
<1>2. IInv /\ [Next]_vars => [Oracle!Next]_(Oracle!vars)
  <2> SUFFICES ASSUME IInv, [Next]_vars PROVE [Oracle!Next]_(Oracle!vars)
    OBVIOUS
  <2>1. CASE UNCHANGED vars
    BY <2>1 DEF vars, Oracle!vars
  <2>2. CASE ChannelStep
    BY <2>2, EnterOracle, AuthorityOracle, StartOracle, SealOracle, HitOracle, ResponseOracle,
       StoreOracle
    DEF ChannelStep
  <2> QED
    BY <2>1, <2>2, OwnerOracle, ReadOracle, EditOracle, AskOracle DEF Next
<1> QED  BY <1>1, <1>2, Invariant, PTL DEF Spec, AnswersAreCurrent, Oracle!Spec
==============================================================================
