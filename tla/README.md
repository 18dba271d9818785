# Verification of DXBCSandbox in TLA+

DXBCSandbox lists, extracts and reconstructs Unity shaders. It decodes DXBC from
game assets, writes ShaderLab and HLSL, and can verify what it wrote by compiling
it with Unity's own `UnityShaderCompiler` and comparing the results. This project
models the parts of the program in which state, time, failure or a graph algorithm
matter, checks them with TLC and proves central properties with TLAPS. Paths below are
relative to the repository; `PROJECT.json` gives the lines every definition stands for.

## 1. The system

### Components

| Component | State it keeps | Operations | What makes it correct |
|---|---|---|---|
| **Single flight** (`src/compiler/unity_compiler_singleflight.c`) | list of entries: key, participant count, completed, result | `usc_single_flight_execute`, `usc_single_flight_participant_count` | one execution per key at a time; entries freed once, by the last; nobody sleeps for ever |
| **Persistent cache** (`unity_compiler_cache.c`) | one file per request digest in shard directories, a lock file per shard, a mutex per process | `usc_cache_load`, `usc_cache_store` | readers without locks see only complete entries; an accepted response is what is found later; no store hangs |
| **Compiler channel** (`unity_compiler_client.c`, `unity_include_closure.c`) | leases on toolchain, source directory and headers; session capabilities; process and socket; expected `valid_apis` | preprocess, compile, their compute forms, disassemble, serialize, capture, start, recycle, shutdown | an answer is that of a fresh compiler for the inputs of one instant; the cache holds nothing else |
| **Response readers** (`unity_compiler_client.c`) | position in the stream, pending snippet, phase | one loop per kind of response | every response is consumed exactly; incomplete contracts are never delivered |
| **Broker** (`unity_compiler_broker.c`) | table of the sources the process was given, budget, request counters, single-flight table | every entry point, `set_source_budget`, `recycle_process` | what is resident is tracked and within the budget; coalescing is invisible to callers |
| **Shader batch** (`src/app/shader_batch.c`) | staged publications, ledger, counters, retained snapshots | `shader_batch_extract_ex`, `shader_batch_is_complete` | only exact, closed sources are published as authorized; every file left behind is reported |
| **Texture and material batches, extract command** (`src/app/native_texture_batch.c`, `material_batch.c`, `src/cli/dxbc_sandbox_cli.c`) | snapshots, sidecar views, staged files, leases on the files of a shader and of textures, residue | export, resolve references, revoke, exit code | nothing is published over an input or a dependency that changed; exit code 0 means complete and closed |
| **Lift, bundle gate, contract capture, certificate** (`src/compiler/unity_shaderlab_lift.c`, `unity_shader_bundle_gate.c`, `unity_shader_contract.c`, `src/app/whole_shader_*.c`, the Editor script) | pinned authority, candidate artifacts, open views of every input, the Editor process, evidence per plane | run, capture, evaluate | what is accepted, passed or certified is what was built and observed, of one subject |
| **Flow and SSA analyses** (`src/translation/hlsl_cfg.c`, `hlsl_ssa.c`, `hlsl_provenance.c`, `hlsl_emitter_analysis.c`) | graph, dominators, frontiers, phi nodes, provenance of a program | built once, then asked | the answers hold on every path the program can take |
| **HLSL lifts** (`hlsl_copy_lift.c`, `hlsl_lift_transaction.c`, `verify_copy_lifts`) | accepted program, journal, budget | propose, compile, compare, accept | the outputs stay those of the target and the journal accounts for every edit |
| **Variant planner and certifier** (`src/translation/shaderlab_variant_plan.c`, `shaderlab_variant_domain.c`, `shaderlab_stage.c`, `src/compiler/unity_generated_domain_certifier.c`) | keyword table, variants per stage, axes, filters, directives, guards | plan, emit directives and guards, attest | Unity expands the directives to requests that run the program the player ran |
| Catalog, oracle pack, other gates, compute verifier, DXBC decoder, Unity readers, emission, CLIs, helpers | none between calls, or evidence of one run | parse, compare, emit | see section 5 |

### How they interact

The verifiers and the lift call the **broker** from several threads. The broker
serialises everything that touches the compiler with its protocol mutex, forms the
key of a request under it, and runs the compilation through the **single flight**,
whose operation takes the protocol mutex again. Behind the mutex there is one
**channel**, which answers from the **persistent cache** or from one long-lived
compiler process; that process keeps headers it has read in a cache of its own. The
responses of the process come over one socket, one after the other, and are split
into records by the **readers**. The cache directory is shared with other processes
of the same program; the toolchain, the source directories and the headers are
shared with whoever edits them.

The **extract command** exports textures, then shaders, then the materials that
name both; each batch reads assets through `unity_input` snapshots and publishes through
`output_publish`. Both are in the `UnityCommon` submodule, whose source is not part of the
repository, and are modelled from their use (`OutputPublish`, and the versions of inputs
in `TextureBatch` and `ShaderBatch`). The **contract capture** opens the player
package, runs the **lift**, publishes its source, has an Editor import and build it in the
**bundle gate**, observes the result natively and evaluates the **certificate** over the
evidence of every plane, closing each input after use and comparing it with
what it was.

Inside a translation the **analyses** are built on the decoded program. The lifts ask
them which uses a copy reaches, offer a candidate, and the **transaction** keeps it only
when the recompiled program equals the target. Around the bodies, the **planner** turns the
variants that exist in the player into keyword directives and guards; the **certifier** compares the contract Unity reports for the emitted source
with the plan.

### What is hard to test here

Threads that join and leave a flight while it completes; two processes and several
threads publishing one cache entry; an edit of a header between the moment it is
fingerprinted and the moment the compiler reads it, or while the compiler still
remembers the old one; a process that is replaced inside a call; an epoch that wraps;
a diagnostic between any two records of a response; a publication that fails at its
second file; a sidecar edited between the two textures that share it; an Editor that dies
after it has written its report; an authority that is revised while the last of many
rows is compiled; a break inside a switch inside a loop; a lane whose writers meet at a join; a
build that has stripped just the variant an axis would need; the same keyword selected
differently in two linked stages. The list in `PROJECT.json` ("hazards") names each
at its line and the properties that cover it.

## 2. Modules

| Module | Models | Composes |
|---|---|---|
| `SingleFlight` | the in-flight table, one action per critical section | - |
| `SingleFlightProofs` | theorems about it | extends `SingleFlight` |
| `CompilerCache` | store and load, one action per system call, threads in processes | - |
| `CompilerCacheProofs` | theorems about it | extends `CompilerCache` |
| `CompileOracle` | *abstract*: asked, decided at one instant, answered | - |
| `CompilerChannel` | the life of one channel | shown to implement `CompileOracle` (`AnswersAreCurrent`) |
| `CompilerChannelProofs` | theorems about it, the refinement included | extends `CompilerChannel` |
| `ResponseStream` | the five response loops over one stream | - |
| `ResponseStreamProofs` | `ContractsComplete` and `Aligned` for every instance | extends `ResponseStream` |
| `SourceTable` | the hash table with epochs, as operators on a table | - |
| `BrokerResidency` | the broker's entry points, processes and budget | `SourceTable`, beside the set it must equal |
| `BrokerCompile` | the coalesced call, from several threads | `SingleFlight` by INSTANCE; every thread implements `CompileOracle` (`CallersSeeOracle`) |
| `BrokerProofs` | theorems about coalescing, residency and the table | extends `BrokerCompile`, `BrokerResidency`; uses `SingleFlightProofs` by INSTANCE |
| `ShaderBatch` | the extraction of a batch into a shared directory | - |
| `ShaderOutputProofs` | theorems about it and about the lifts | extends `ShaderBatch`, `LiftTransaction` |
| `OutputPublish` | *external*: exact publication into a directory | - |
| `TextureBatch` | `native_texture_batch_export` | `OutputPublish` |
| `MaterialBatch` | `material_batch_export` | `TextureBatch` |
| `ExtractCommand` | the phases of `extract`, report and exit code | the two batches; the shader batch as an outcome per record |
| `ExtractProofs` | theorems about the two batches and the command | extends `ExtractCommand` |
| `ShaderLabLift` | `unity_shaderlab_lift_run` and the certification of its rows (generated compiles) | - |
| `BundleGate` | the gate, its launcher and the Editor process | - |
| `WholeCertificate` | evidence and certificate, as operators | - |
| `ShaderContract` | `unity_shader_contract_capture` | the three above |
| `ShaderContractProofs` | theorems about the lift, the gate and the capture | extends `ShaderContract` |
| `FlowGraph`, `SsaGraph` | the analyses, as operators on a program | - |
| `LiftAnalysis` | the analyses built on a program, and then the program running on every path | the two above |
| `CopyLift` | the two rewrites on vector programs, given the context of a program (a constant), and what a program computes | - |
| `LiftTransaction` | the transaction and `verify_copy_lifts` | `CopyLift` |
| `VariantDomain` | keyword sets, Unity's choice of a variant, the built-in tables | - |
| `VariantPlan` | the planner of directives | `VariantDomain` |
| `VariantSource` | the emitted directives and guards, Unity's expansion, the certifier's comparison | `VariantPlan` |
| `GoldenLifts` | from decoded programs to a certified source; gives the lifts the context the analyses build (`LiftContext`) | `LiftAnalysis`, `LiftTransaction`, `VariantSource` |

The `MC...` modules only give values to constants. Definitions named `Faulty...` are not
part of the models: each is a plausible error in the definition that follows it, kept
to show that a property can fail.

### Correspondence

* **SingleFlight.** `entry`, `live`, `linked` are the heap cells, the allocated ones and
  the list; `pc` says in which section of `usc_single_flight_execute` a thread is.
  `EnterOwner`, `EnterJoin` and `EnterDirect` are the first critical section (the last is
  the path on which the entry cannot be allocated), `Complete` and `Leave` the last one
  of an owner and of a joiner, `Free` the call of `destroy_entry` after the
  mutex is released. The condition wait is a state with spurious wake-ups.
* **CompilerCache.** `WriteTemp` ... `Cleanup` follow `usc_cache_store` from one system call to
  the next. A POSIX record lock belongs to the process and goes away when it closes any
  descriptor of the file: `DropFileLock` in `CloseLock`, which in the code comes after the
  mutex is released. An inspection says what the entry is, or `"unreadable"`: `inspect_cache_entry` gives the verdict corrupt also when `fstat` or `read`
  fails on a good file, and `RepairCorrupt` unlinks what it was told is corrupt. `Lose` forgets what was accepted and hit when an entry is damaged or unlinked that way. `Crash` and `Damage` are the environment.
* **CompilerChannel.** `disk` is the version of every input; contents alternate, so that an edit
  can restore what was there before while the identity a lease compares (inode, times)
  still differs. The stages of a request (`pc`) are the calls of the C functions that
  `ChannelStep` lists. `ReadInput` is the compiler process: it reads an input at any moment of the
  exchange and keeps it in `proc`. `Oracle` maps the state to the abstract specification:
  the answer is decided when the last lease check succeeds.
* **ResponseStream.** A frame is a tagged string or a number; in the code both begin with one magic number and the reader takes the bytes for what it expects next, so the frames of a process that went wrong are those the reader makes of its bytes. `Admits...` are the tests at the head
  of each branch of the loops, `Payload` what a record consumes, `Snip` ... `Final` what the branch
  does. `GoWrong` lets the process insert, replace or cut frames.
* **SourceTable / BrokerResidency.** A table is the record of the broker's fields: slots with epochs, capacity, count, epoch, bytes. `resident` is
  history: what the live process really was given. Every channel call inside the
  broker ends in one of the ways `CompilerChannel` allows (answered, answered from the cache,
  replaced, lost).
* **BrokerCompile.** `Submit`, the forming of the key, the flight, `Execute` under the mutex, and `Accept`,
  which forms the key again.
* **ShaderBatch.** `OpenSource`, `ProcessSource`, `CloseSource` are the loops of `shader_batch_extract_ex`; `BeginCommit` and
  `PublishNext` the commit of one staged publication, file by file; `Revoke` what a failed close takes back.
  A file's content is the object and the source version it was made from.
* **TextureBatch / MaterialBatch / ExtractCommand.** `tpc` and `mpc` are the places in the two export functions, with the index of the
  loop they are in. An input has a version; a snapshot is mapped and shows the present one, a sidecar view is a copy of
  the one it was opened with. `starved` is `allocation_failed`: the group or record at hand fails, no further source is visited, every snapshot is still closed, and nothing is committed. Closing compares; a failed close ends in the revocation or the residue ledger of the
  code. `EditSource`, `ForeignFile` and one failing call per behaviour are the environment.
* **ShaderLabLift.** One action per stage of an attempt (`Pin`, `Emit`, `Preprocessed`, `BeginPass`, `SendCompile`, `Compiled` and the judgements of the answers). A row's answer carries
  the revision that made it; the code's repeated check of the authority is the comparison with the pinned revision. Budget,
  cancellation and deadline are outcomes of their polls.
* **BundleGate.** The launcher and the Editor are two processes that meet in files. A file is its bytes and a stamp that every write
  renews; a view is the file at the time it was opened. The Editor may die before, between and after its report and its exit code.
  Building, measuring and hashing the bundle are three actions (`EditorBuild`, `EditorMeasure`, `EditorHash`), and the file may be replaced between them: the Editor then reports, and the gate publishes, what was put in the
  place of the bundle. `editor.swapped` is history that remembers this. A report that throws may leave the earlier one, one that says the build failed, or a truncated one.
* **ShaderContract.** `contract` is the record the capture fills in; every input is opened, run over and closed by actions of its own, so that `EditFile` can fall between
  any two of them. `Collect` makes the evidence of one plane, `Certify` evaluates.
  `quirk` is how the rebuilt shader differs from the released one: in payload, schema, render state, profile, bindings and so on, or in a way that makes the evidence of a plane invalid (`Refused`). `Bind` compares source, profile and rows with the subject.
* **FlowGraph / SsaGraph / LiftAnalysis.** Instructions and blocks count from 1 and 0 is the code's -1. The matcher, the graph, dominance, frontiers, phi placement and
  renaming are operators that follow the passes of the C code, loops as folds. An instruction has the lanes it writes, those its operands read and those that index its operands. The run of the program afterwards is not
  code of the repository: it is the meaning of the program the analyses are about, and the reference they are judged by.
* **CopyLift / LiftTransaction.** The two rewrites give the candidate program under the guards of `hlsl_copy_lift.c`; the transaction's
  actions are `Begin`, `Try`, `Send`, `Answer` and `Judge`, in the order `verify_copy_lifts` makes them, with `Interrupt` and `Revise` at any moment. The definitions and the
  provenance a rewrite asks for are those of `LiftContext`, which builds graph, SSA form and provenance of the program at hand. What a program
  computes is the reference: a term for every lane of every temporary after each instruction (`Contents`), and those written to the output (`Outputs`).
* **VariantDomain / VariantPlan / VariantSource.** A pass is a keyword table (names, scopes), a mask and the subprograms of each stage as sets of keywords. The actions of the planner
  are `BeginPlan` (validation), `CollectStage` (tiers), `ChooseFamily` (projection on a built-in table), `PlanAxes` (factoring into axes), `ChooseExclusions`, `ProveStage` and the symbolic fallback; then
  `EmitPragmas`, `EmitStage` and `AttestStage`. The bodies of an explicit stage are guarded by `defined(K)`, those of a symbolic one by the value `#if K`; a keyword that is off is undefined or a macro with the value zero. How Unity
  expands directives, selects a variant, preprocesses guards and reports a contract is external; requests are quantified in the properties.

## 3. Runs

| Run | Instance | Shows |
|---|---|---|
| `flight` | 3 threads, 2 keys, 2 cells, 3 calls | one execution per key, memory safety, outcomes of the own key, stable results; every call returns |
| `cache_publish` | 2 stores at a time (one process or two), 2 payloads, 3 stores, one crash, damaged file or failing read | accepted means published and hits agree as long as the entry is not damaged or given up as unreadable; no partial entry; every store returns |
| `cache_threads` | 2 threads in one process and 1 in another | **violation**: see below |
| `channel` | all entry points, requests with and without a header in two directories, every environment, 2 capability records, 2 requests, 2 edits at any moment | the channel implements `CompileOracle`; the cache is sound; the process's own include cache is covered by leases; no command under a mismatch |
| `channel_garbled` | a cache entry that does not decode | **violation**: see below |
| `response_stream` | 2 requests in a row of 5 kinds, up to 18 records, one misbehaviour | readers stay aligned and understand everything Unity sends, deliver only complete contracts and all of them |
| `residency` | 5 sources with colliding slots, 4 to 8 slots, 2 epochs and the wrap, 3 processes, 1 failed recording | the table is the set of recorded sources; the resident ones are in it and within the budget |
| `broker_compile` | 3 threads, 1 request, 2 edits, 3 calls | every caller sees `CompileOracle` |
| `shader_batch` | 4 records in 2 sources, 3 layouts, 1 edit, 1 foreign file | authority is exact and a deferral is owned; residue is reported; completeness means published |
| `extract` | 3 textures in 2 of 3 sources, one shared sidecar, 4 materials of 2 shaders, 1 edit, 2 foreign files, 1 failing call | textures are of one instant; a texture is published whole or accounted for; materials stand on published, unchanged dependencies; the importable file comes last; exit 0 is exact |
| `contract` | 2 passes, 3 rows, 2 candidates, 2 revisions, 1 replaced file, 1 failing call, an Editor that may die | acceptance under the pinned authority; capture of one subject; the certificate is exact; a passed gate has published what its Editor hashed, and that is the bundle it built unless the file was replaced between build and digest |
| `lifts` | some 4700 flow programs, 315 straight-line ones, some 2700 passes | see below |

The `lifts` run has one state space and three kinds of behaviours. *Analyses*: every program is analysed and then executed on every path; `FlowIsExact`
(`GraphIsExact` and `DominanceIsExact`) and `WritersAreExact` compare each step with what the analysis said (edges, domination, the value of every SSA variable, provenance).
*Lifts*: every baseline is lifted under every answer of the compiler, with changing controls and an exhausted budget; `LiftsPreserveOutputs`, `AcceptedIsAccounted`, the action
property `LateAnswersDiscarded`, and the second half of `WritersAreExact` (`ContextIsExact`): a lift is given the true writers of the program the lifts before it left. *Variants*: every pass is planned and emitted, and for every set of enabled keywords and every tier the program Unity would run from the emitted source
is compared with the one the player ran; `RequestsRunTheirBody` (for a symbolic stage also with the keywords that are off as zero macros, for an explicit one, whose guards ask `defined`, only with them undefined; every variant is supported by the device), `LinkedStagesAgree` (for the keywords outside the built-in tables: the forward base table has vertex rows, `LIGHTMAP_SHADOW_MIXING` with `VERTEXLIGHT_ON`, for which the fragment table has none, so its own keywords do part), and `AttestedContractIsSource`, which says the certifier attests the contract Unity reports for the emitted source and none that differs from it.

**Why the bounds are enough.** A third thread is what a flight needs so that one caller is slow to
leave while another arrives and a new flight could begin; a third process of a lock brings
nothing a second one does not, but a second *thread* in the process of the first does, and
has its own run. Two edits are an edit and its reversal, the worst case for anything that compares contents. Two
requests are one that fills the caches and one that could be answered wrongly from them. Three processes let one be recycled, one
be lost and a third be replaced inside a transaction. The table grows once and the epoch wraps within the
bound. Two records with one name and one object catalogued twice are the two ways names can collide. Two textures in one sidecar and a material with
two of them are what is needed for a partial change; two foreign files occupy both halves of a pair. Two candidates
and two revisions let the first attempt fail under one revision and the second succeed under another. The flow programs are all fillings of ten skeletons (two scopes deep, joins,
loops left from inside a branch or a switch, fall-through) and all short, mostly malformed, sequences of control instructions; some nest one scope deeper than the limit, which is two here. Passes have up to three stages and three keywords in every order of few variants, two entries of one name,
global and local scopes, three tiers, and three selections of two built-in tables with and without another keyword, the mixed shadow rows of forward base among them.

**Fairness.** `SingleFlight` assumes weak fairness of each thread's own steps, the operation included: the
compiler exchange behind it has an I/O deadline after which the process is stopped. `CompilerCache` assumes that a store that can
make its next system call does. New calls, spurious wake-ups, crashes and edits are never assumed. The other specifications have no
fairness: their properties are safety properties, and their deadlock check shows that no request gets stuck.

### Disagreements found while modelling

* **`cache_threads`.** `usc_cache_store` closes the lock file after it has released the process's mutex. Closing any descriptor drops the
  record lock of the whole process, and with it the lock another thread has just taken. A third store in another process then runs at the same time, and
  the thread that judged the entry corrupt removes the complete entry the other has published, although the header promises repair "under a cross-process
  shard lock".
* **`channel_garbled`.** A comment in the client says that a cached entry with an intact container and an undecodable payload is
  replaced by the next successful response. `usc_cache_store` finds a valid container with a different payload and rejects it; the entry stays and every later
  request misses.

Three observations have no run. `inspect_cache_entry` returns CORRUPT also when `fstat` or `read` fails on an entry it could open (a failing `open` is an ERROR), so `usc_cache_store`
unlinks an entry that is valid and publishes its own payload, which may be another, although the header says a different valid payload is rejected; one thread is enough and no lock helps. `AcceptedIsPublished` and
`HitsAgree` except this case by name, and the theorem `OnlyUnreadableIsReplaced` shows that it is the only one. A caller that arrives while a completed flight still has participants joins it (`find_entry` does not look at
`completed`), which `BrokerCompile` shows to be harmless because the key is formed again before the result is accepted. And `execute_contract_compile`
records a source in the window also when the compiler was never given it (a cache hit), which only makes recycling earlier.

## 4. Proofs

Every theorem holds for every value of the constants that satisfies the named assumptions of the modules; TLC evaluates the assumptions in the
run of the same module. All of them have the same shape: an inductive invariant that holds initially, is preserved by each action (one lemma per action or per
group of actions that leave the same variables alone) and implies the property. What follows says for each module what is proved and what had to be added to the property
to make it inductive.

**`SingleFlightProofs`**: type correctness, `OneExecutionPerKey`, `NoUseAfterFree`, `CountsExact`, `OutcomeForMyKey`, `NothingRetained` and the action property `ResultStable`, for any
finite set of threads and any keys, cells, values and number of calls. Assumed: the set of threads is finite, the bound on calls is a natural number, the null pointer is no cell.
The entry is freed by whoever brings the counter to zero, so `NoUseAfterFree` needs that the counter equals the number of
threads pointing at the entry (`CountInv`), which needs that these threads point at *linked* entries of their own key and that keys on the
list are unique (`TableInv`). Uniqueness in turn needs that an entry stays linked while somebody participates. `FlightInv` adds that an owned entry is incomplete
and has one owner, `FreeInv` that an unlinked cell has exactly one thread left to free it, `CallsInv` that call numbers are unique. The lemma
that owner and joiner share, giving up a participation, is `ReleaseInv`.

**`BrokerProofs`**: the refinement `CallersSeeOracle`, and `TableIsWindow` and `ResidencyBounded`. For any number of threads, requests, calls and edits, each step of the broker is for each of its callers a step of
`CompileOracle` or none. The invariant of `SingleFlightProofs` is taken over for the broker's table (each step of the broker is a step of `SingleFlight` or leaves its
variables alone), and on top of it: the operation of a flight gives the result of the flight's key or fails (`Ran`), a completed entry holds nothing else
(`HandedOn`), a participant takes nothing else away (`Returned`). The key names the inputs, so a result accepted after the key was formed again and found equal is the
result for the inputs of that instant, whoever made it and when. That a joiner reads an entry of its own key, not one that was freed and
allocated again, is what the invariant of the table is for. Assumed: the markers for no request, no result and failure are none.

The two about residency hold for any sources, sizes, hashes, budgets and number of processes, and for any number of growths and epochs. That the sources of the present epoch
in the table are the recorded ones is inductive only with the shape of the table: each is reached from its home slot over slots in use (`WellPlaced`), none is in two slots (`NoTwice`), no
slot is of a later epoch, so that a wrap frees what it must (`NoFuture`), and a quarter of the slots is free (`HasRoom`), so that every probe ends. Probing, and growing, which inserts the
old entries one by one into an empty table, are recursive functions; what they give is shown by the least slot, or the shortest probe, at which it would fail. The budget then needs that the bytes of a finite set
grow by the size of a new source. Assumed: sizes and hashes are natural numbers (`SizesKnown`), the first capacity is a power of two (`CapacityIsPowerOfTwo`), there is an epoch to wrap (`EpochsWrap`), limits are natural numbers (`BytesAreNat`, `BudgetsAreNat`, `ProcessBoundsAreNat`).

**`CompilerCacheProofs`**: `NoPartialEntry` unconditionally; `AcceptedIsPublished`, the action property that a complete entry is removed only by a store that could not read it (`OnlyUnreadableReplaced`), and `HitsAgree` under
`LocksSuffice`: in every deployment a process has one storing thread, or there is one process. This hypothesis is what the run `cache_threads` lacks; a failing read is the exception no locking removes. The first needs only that a temporary file is complete
before it can be linked (`Written`) and that a thread between the two mutex calls holds the mutex (`Serialized`). The others need mutual exclusion between an inspection and the unlink it leads to (`Locked`),
that what the inspection found is still so (`Fresh`), and that an accepted payload is the published one (`Published`).

**`CompilerChannelProofs`**: `CacheSound`, `NoCommandUnderMismatch`, `NativeCacheAuthorized` and the refinement `AnswersAreCurrent` of `CompileOracle`, for any requests, inputs, contents, environments and
any number of edits. The heart is that what the process has read of an input is what is on disk as long as every lease on the input holds (`Native`). That needs to know which inputs are leased at
each stage (`Pinned`), that no lease is ahead of the disk, so that an edited input can never match again (`Past`), that the digest still describes the leases when a
response is stored under it (`Keyed`), which entry points reach which stage (`Routed`), that a process in use has reported its session
(`Ready`), and that a response is the result on what the process has read or the digest has pinned (`Answered`). Assumed: the scanner is complete for the entry points that do not check it (`ScannerComplete`), constants are of their types (`KindsKnown`, `RequestsTyped`, `ModesTyped`), and None is nothing else (`NothingIsNothing`).

**`ResponseStreamProofs`**: `ContractsComplete`, for any responses, any frames a process may send instead of them, any limits and any number of requests. The programs are tested at the
end of the keywords, on a contract that later records could still change, and the snippet is delivered later still. So the invariant says that no program is entered twice (`Assembled`), that the reason a
header was admitted survives the reading of its payload (`Admitted`), that a delivered snippet is whole (`Delivered`), and that each snippet record is accounted for by one contract, pending or delivered (`Counted`).
That a whole contract has as many entries as its mask has programs is a bijection (`WholeCovers`). Assumed: what is on the wire is made of frames, and a keyword header names one program (`FramesAssumption`).

`Aligned`, under the same generality, is about the place of the reader in the stream. The records of a response lie one after another on the wire, each from a start that the widths of those before it determine; this is unfolded from
the definition of concatenation, record by record, by the first one that would lie elsewhere. While the process is intact, the records read are the first ones sent (`ReadSoFar`), the record in hand is the next one and its
plan is for exactly the frames of it that are left (`InRecord`, `Planned`), also before the count of its pairs has been read, and the wire holds the response from that place on (`Remaining`). A final record is then
the last one, so nothing is left behind it. Assumed: Unity sends records as wide as their headers and counts announce and ends a response, and nothing else, with a final record (`ResponsesAreFramed`, which the run evaluates on all of its responses). A
reader that gives the process up drops the stream with it, so the theorem needs no assumption on what is admitted; that intact responses are admitted is `Understood`.

**`ShaderOutputProofs`**, batch: `AuthorizedIsExact`, `NothingUnreported` and `CompleteIsPublished`, for any catalog, selection, options and retained snapshots and any number of edits and foreign files.
A source is visited once, for its first selected record (`First`), so no result is older than the visit (`Outcome`), and a failed close revokes nothing that was published. What is
staged was read no later than the check of the closing source (`Staging`). Files only appear, so what was published or found stays (`Publishing`), and a file that is created was missing when
it was examined, which is what the ledger of residues rests on (`Reported`). Assumed: records, sources and outcomes of calls are of their types (`BatchAssumption`, `CallsAreTyped`).

**`ShaderOutputProofs`**, lifts: `AcceptedIsAccounted`, `LateAnswersDiscarded` and `LiftsPreserveOutputs`, for programs of any length over any temporaries, any number of accepted lifts, answers, interruptions and revisions. They are
about `TransactionInit` and `TransactionStep`, which are the part of `GoldenLifts` that moves the transaction. The account needs what is in hand between a proposal and its verdict: the candidate is the lift of the accepted
program at the tried place, the answer is the artifact of a program that was sent (`InHand`), nothing is accepted before a baseline is (`Unaccepted`), and each entry of the journal begins where the one before it ended (`Chained`).
`LiftsPreserveOutputs` has the hypothesis that the context of a lift is exact when it begins (`ContextIsExact`): every definition is the last writer of the lane, the
provenance too. This is what the analyses promise, and the run `lifts` checks it in every state; that they keep the promise is a fact about recursive operators. From it, one rewrite is compared with the
program before it instruction by instruction: after each, all lanes agree except those that the rewrite made stale (`Agree`, `Stale`), and no instruction reads a stale lane, which is what the guards of `hlsl_copy_lift.c` - the only use, no writer
in between, masks and selections - are there for. The lane that a result lift skips is stale from the producer to the copy; a copy lift makes none stale and replaces an operand by a lane of equal contents.
The contents after n instructions are a recursive function; the comparison takes the least instruction at which it fails. Assumed: the output is no temporary (`OutputIsNoRegister`), baselines are programs (`BaselinesArePrograms`).

**`ExtractProofs`**: `TextureOfOneInstant`, `AllOrNothing`, `MaterialsGrounded`, `ImportableLast`, `CreatedIsAccounted` and `ExitZeroIsExact`, for any catalog and selection, any number of textures, shaders and
materials, edits, foreign files and faults. What was read of a source is no later than the source (`Read`), so a source found at its catalogued version when it is closed was at it when it was read; pixels are
those of the one view of their sidecar (`Viewed`); snapshots are closed before anything is published (`Closing`, `Committed`). The output directory only grows and others only put foreign bytes
into it (`DiskTrue`), so what is as recorded at a later comparison was so before: this is why comparing the textures at the end of a material and the shader at the end of
its group is enough (`Rests`). A file that is created was missing when it was examined, on which the ledgers rest (`TexPublished`, `AtHand`, `TexAccounted`, `MatAccounted`).
Assumed: records and materials are numbered, statuses and slots are of their types (`TextureAssumption`, `MaterialAssumption`).

**`ShaderContractProofs`**: `AcceptedUnderPin`, `PassedIsBuilt`, `CapturedIsOneSubject` and `LogicalIsExact`, for every domain of rows, every set of helper passes, every limit and any number of
revisions, edits and failures. The first says nothing about an attempt under way, so `IInv` adds
how far the attempt has come and that the rows before it are matched (`Attempt`), that an answer was made by a revision between the pinned one and the present one
(`Dated`), that an accepted artifact is neither the one being tried nor one still to come (`Settled`), and which fields belong to which
phase (`Typed`, `Phased`). The steps of gate, capture and certificate leave the variables of the lift alone, which the proof shows once. The others rest on stamps that never
return: an input whose view still matches when it is released was the same file throughout, and the Editor's copy of it is what the view shows (`Renewed`, `Copied`, `Held`, `Released`). The Editor hashes its bundle or, when the file was replaced after the build, what has taken its place (`editor.swapped`). The gate is about to succeed only with a
report, an exit code and hashed bytes that agree (`GateTrue`, `EditorTrue`); the subject is bound to these (`Observed`), and the certificate counts only items that match (`Evidenced`). Assumed: a lift has a pass and every
pass a row (`RowsAssumption`), quirks are known ones (`QuirksKnown`).

**Only checked with TLC**, and why:

* *Liveness* (`EveryCallReturns`, `EveryStoreReturns`): fairness is out of the prover's reach.
* *`Understood`*: that no admission test rejects what an intact process sends depends on what Unity puts into its records, of which there is only the list of the run.
* *Analyses and planner* (`FlowIsExact`, `WritersAreExact`, `RequestsRunTheirBody`, `LinkedStagesAgree`, `AttestedContractIsSource`): recursive operators over a program, a graph or a table. The
  runs compare them with a reference over bounded inputs instead.

## 5. Not modelled

* **Decoding, reading, emission** (`src/dxbc`, `src/io`, most of `src/translation`, about two thirds of the implementation): sequential functions of large inputs without state between calls, without
  concurrency and with failure only as rejection. Their errors are in opcode tables, layouts, types, floating-point identities and text. A model would have to repeat the tables
  line by line, and a small instance would show nothing that the repository's fixtures do not. What in them is an algorithm - flow matching,
  dominance, SSA, copy lifts, factoring of variants - is modelled. This is also why the share of mapped lines stays low: the remaining lines are data in the
  form of code.
* **Verifiers and other gates.** The golden and compute verifiers parse a report and drive the broker; `verify_copy_lifts` is the part with control of its own and is modelled. The import and visual
  gates repeat the launch, report and exit code checks of the bundle gate. Of the domain certifier, the comparison of contracts is modelled; the loop that
  compiles every variant afterwards is calls of the broker and comparisons of bytes.
* **Certificates, catalog, oracle pack, profiles.** Canonical encodings, comparisons of records that are already there, a content-addressed file.
* **Process registry and signals.** The table of child processes and the handlers that end them; start and stop of a process are in `CompilerChannel`, where a process identity is never reused.
* **Abstractions inside the models.** Byte layouts, hashes and texts are abstracted everywhere: a digest stands for what was hashed. In `ResponseStream` bytes are not
  counted: the limits on the length of a frame and on the totals of compute responses, and the refusal of embedded zeros, are left out, so `Understood` says nothing about them. In `CompilerChannel` the scanner of include directives is a given relation, assumed complete for the
  entry points that do not check it. The comparison of the working directory with that of the capture is left out: nothing in the program changes it. `FlowGraph` leaves out the graph of a sub-range and the vector classification; `CopyLift` has one flag for operand modifiers. `VariantPlan` leaves out the limits on the size
  of a plan, instancing directives and the text of the bodies; which rows a device supports is not known to the planner, and the selection it models is over all of them (`supported`); two built-in families that explain a pass equally well do not occur with the real tables.

## 6. Plan

Done, in this order: single flight with its proofs, cache, channel, source table and residency, coalesced compilation, shader batch, response readers; then textures,
materials and the extract command; lift, bundle gate, contract capture and certificate; analyses, copy lifts and transaction; the variant planner
and the attestation of its source.

Next models:

1. *Process registry*: `register_compiler_process`, `cleanup_compiler_processes` and the signal handler, which run between any two steps of a start or a stop, with identities that are reused.
2. *Certification of every variant*: the loop of the domain certifier after the attestation, on the planned pass.
3. *Visual gate*: what a rendered image adds to the bundle gate's evidence.

Next proofs: the core, the compiler stack, the batches, the contract and the lifts are proved as section 4 says. What is left within reach is `ContextIsExact`, on which `LiftsPreserveOutputs`
rests: on a straight-line program the graph is one block and renaming one pass over it, so that with `FlowGraph` and `SsaGraph` written as recursive functions the last writer could be followed instruction by instruction.
