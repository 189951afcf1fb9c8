# A verification project for loom.cpp

loom.cpp runs exported neural-network graphs on ggml. A model file holds *topologies*
(graphs described in JSON) and a Lua *driver* that calls them; the engine builds a ggml
graph for each call, feeds its inputs, runs it and keeps what the driver asks it to keep.
Floating-point arithmetic is not what this project is about. It is about three things:

* the state that outlives a call: graphs that are retained and served again, a KV cache no
  one clears, a convolution's history, output slots that other modules read by pointer, a
  compute buffer that is given back. Each is a cache, and each is correct only if what it
  serves is what recomputing would have given;
* the front ends, loops around a driver whose answers decide how long they go on and what
  becomes of the audio or the text;
* the Raspberry Pi's QPU backend, where a host, a thread that waits in the firmware and the
  QPUs share memory the host alone sees through a cache.

Paths below are relative to the repository; `core/` is `src/core/` and `ops/` is
`src/ops/`, headers are in `include/loom/`, and `ggml-vc4/` is `backends/ggml-vc4/`.

## The system

| Component | State it keeps | Operations | What makes it correct |
|---|---|---|---|
| `GraphBuilder` (`core/graph_builder.cpp`), one per module | the retained graph, its key, its declared inputs, aliases, stale inputs, the compute buffer and the count of under-used calls | `build`, `compute`, `alias_input`, `mark_input_written`, `hold_compute_buffer`, `release_compute_buffer`, `reserve` | serving the retained graph equals rebuilding it; the graph's tensors point at live memory; the buffer is given back when, and only when, a window of calls earned it |
| `KvCache` (`core/kv_cache.cpp`), shared by the modules of a model | K and V rows, linear or ring | row writes by index, read view, `seed`, `reset` | the rows a query may look back at are in their cells |
| cached attention (`ops/primitives_attention.cpp`) | none | writes the step's rows, reads a bucketed prefix of the cache under a mask | every query attends to exactly its own window |
| `ConvStateCache`, `op_short_conv` (`core/conv_state_cache.cpp`, `ops/primitives_conv.cpp`) | the last columns of each convolution | read the slot or zeros, write the new tail | a call convolves its own sequence, zeros before its beginning |
| `OutputStore` (`core/output_store.cpp`), one per module | output slots, layout epoch, generation | `reshape`, `bump_generation`, reads by name | a reader gets the run it asked for; no one writes a freed slot |
| `LoomLuaBridge` (`core/lua_bridge.cpp`) | the sessions' tables | `run_subgraph`, `run_subgraph_and_retain`, `run_ode`, recurrent sweeps, `get_output`, `causal_mask`, `seed_kv`, buffer controls | inputs read what the driver passed, whichever way it passed it |
| `Generator` (`core/generation.cpp`) | position of a generation | prefill, decode steps | as cached attention, on a cleared cache |
| `Session` (`core/session.cpp`) | owns the above | registers topologies with shared caches | |
| long-form ASR (`core/asr_long_form.cpp`) | none | `plan_windows`, `plan_quiet_splits`, `merge_windows`, `piece_token_budget` | the windows cover the audio, the merge restores the words and cuts nothing outside what it searches |
| `audio::transcribe` (`core/transcribe.cpp`) | one call's: the seek, the segments, the text before | resolve the caller's names, plan or seek, decode, split into segments | all of the audio is heard, the call ends, a name that cannot be served is refused |
| `text::generate` (`core/text_generate.cpp`) | one call's ids | either shape of driver, the stop set, the strip, the ceiling | the caller cannot tell which shape ran |
| ggml-vc4's pool (`ggml-vc4/ggml-vc4.cpp`) | packed copies of weights in slabs, copies for the CPU, the arena, the size last refused | `packed_weights`, `keep`, `ensure_arena`, `alloc_or_release`, `release_owned` | what a call was given stays until it ends; a copy is of the weight at that address now |
| ggml-vc4's convolution (`conv_run`, `conv_f32_run`, `Launcher`) | the arena's slots, the control list, the done words, the host's cache lines | stage, launch, compute, wait, drain, deliver | the three parties together compute one convolution, wherever its result goes |
| tokenizers, decoders, model files, devices, operators | none that outlives a call | pure | |

How they interact. A driver call goes through `compute_and_emit`: `build` the module's graph
or take the retained one, undo the aliases of the previous call, write each input of the
call's table (a value is copied, a reference may instead point the input's tensor at another
module's output slot), refuse if some input is still stale, `compute`, and for a retaining
call raise the store's generation. All of this runs on the caller's thread. What makes it
hard is the *sequence* of calls (which graph was built when, and what moved since) and
*partial failure*: any phase of a call can throw, the driver catches the error in Lua
(`pcall`) and goes on with the same objects. Above it, `transcribe` and `generate` call the
driver in a loop. Below it, ggml hands the vc4 backend a node at a time; there threads do
interleave: the `Launcher`'s thread makes the mailbox call while the host stages the next
chunk and the QPUs compute the last, and any thread may allocate or free a buffer of the pool
while another computes.

## Modules

| Module | Models | Status |
|---|---|---|
| `StepAxes` | `requested_n_kv`, `real_n_kv`, `effective_n_kv`, the cell indices and the reuse key, as operators on `(n_tokens, n_past)` | done |
| `SlidingWindow` | abstract specification: what cached attention promises, with no cache in it | done |
| `KvAttention` | `build` and its reuse, mask placement, the scatter and the read, failures, restarts, seeding; implements `SlidingWindow` | done |
| `StepAxes_proofs`, `KvAttention_proofs` | proofs | done |
| `ShortConv`, `ShortConv_proofs` | `op_short_conv` under the same reuse, one slot shared by the modules | done |
| `RetainedOutputs`, `MCRetainedOutputs`, `RetainedOutputs_proofs` | a driver's calls in their phases, input aliases, the output stores | done |
| `ComputeBuffer`, `ComputeBuffer_proofs` | the shrink policy and the graph that points into the buffer | done |
| `LongForm`, `TokenMerge` | the window planner, the quiet splits; the token merge with its table and its walks. Operators only | done |
| `Transcribe` | one call of `transcribe`, over both | done |
| `TextGenerate` | one call of `generate`, with either shape of driver | done |
| `FrontEnds`, `MCFrontEnds` | the two doors; the files, audio and answers TLC tries | done |
| `FrontEnds_proofs` | proofs about both front ends, the planner and the merge | done |
| `ConvolvedOnce` | abstract specification: a convolution is one step that changes its result and nothing else | done |
| `Vc4Conv`, `Vc4Conv_proofs` | the convolution on the QPUs: host, launcher, QPUs, caches; implements `ConvolvedOnce` | done |
| `Vc4Pool`, `Vc4Pool_proofs` | the pool, the copies kept of weights and the arena, under two threads | done |
| `MCCaches`, `MCBackends` | several small instances in one run: `ShortConv` with two linear instances of `KvAttention`; `ComputeBuffer`, `Vc4Conv` and `Vc4Pool` | done |

`KvAttention` and `ShortConv` extend `StepAxes`: both are clients of the same key. The three
state machines of `GraphBuilder` (`KvAttention`/`ShortConv`, `RetainedOutputs`,
`ComputeBuffer`) share the retained graph and each sees it through what its own properties
tell apart: the key and the refreshed tensors; the store's slot and the inputs; the buffer.
Composing them would multiply their states and add no behaviour: a compute-buffer rebuild is
a rebuild of the same graph, which the other two allow at any call (see "Abstractions").
`FrontEnds` composes the two front ends; they share no state. `MCCaches` and `MCBackends`
put instances side by side without letting them interact: `part` says which one moves, and
the others stand still.

### How state and actions correspond to the code

`KvAttention`. `cells` is the cache's rows; `graph[m]` is `cached_` of module `m`'s builder
(its key, its bucketed length `n_kv`, and the two things a reuse refreshes, `n_kv_real` and
the `kv_cells` tensor). `Step` is a whole call: `build` (`Built` is the reuse or the
rebuild), the mask written by `set_mask_tensor_padded`, `compute`. `RefuseAxes` is the throw
at the top of `build`, `BuildFails` any throw after the retained graph was dropped,
`RefuseMask` the mask whose width fits neither length (the graph has been built by then),
`ComputeFails` a run that stopped somewhere: any subset of its rows written, any subset torn.
`NewSequence` is a driver that starts again at `n_past = 0` on the cache as it is, `Reset`
is `Generator::generate`, `SeedKv` is `loom.seed_kv`. `attended` is what the last
completed call attended to, row by row, as tokens.

`ShortConv`. `slot` is the layer's state; `graph[m].zeros` is the choice `op_short_conv` makes
while the graph is built. `live` is FALSE from a failed run to the next sequence: the state's
write is not idempotent and no code in the repository retries such a step, so the model does
not feed a sequence further once a run of it failed.

`RetainedOutputs`. One record per module for its store, its graph and its declared input;
`call` is the call in progress, with a phase. `Reuse`, `Rebuild` and `RebuildFails` are
`build`; `Feed*` one entry of the inputs table; `RefuseStale`, `OdeWrites`, `Compute` and
`ComputeFails` the rest. A read of a slot whose allocation failed is `ReadUnbacked`.
`RetainSequence` stands for the bindings that reshape and fill a
store without building a graph, `Sweep` for the recurrent one. A slot has an identity and an
address, and the address may be handed out again after the slot was freed. `made`, `meant`,
`ran`, `read` and the `skipped` flag of an input are history: what a generation stands for,
what an input was last given, what the last run and the last read returned.

`ComputeBuffer`. `buf` is the allocator's buffer, `graph.id` the buffer the retained graph's
tensors are in. `recent` is history: the last `Window` completed calls the policy governed.
A shape stands for a structural key together with the store it retains into.

`Transcribe`. The caller's options and the model's file are constants of a call (`model`,
`request`, `samples`). `Resolve` is the resolution of all names before anything is decoded;
`CutAtQuiet` one turn of `plan_quiet_splits`' loop and `LastPiece` its end: `cut` is the last
of the code's `bounds`, and the piece before it joins the plan when the cut is made and not in
a second loop (`WithPiece`), which comes to the same list. `DecodeNext` one window or piece,
`Finish` the merge or the join; `DecodeClip` one turn of the seek loop with its
`split_into_segments` and its advance; `Flush` is that function's lambda and `Mark` a timestamp
of its loop. `DriverThrows` may happen at any decode. The model is
the environment: it answers with any of a set of texts, and in the file called `overlapping`
it hears the words that are spoken, losing or mishearing the one next to an edge that cuts
the speech. `covered` is history: up to where every sample was in some decode.

`TextGenerate`. `FirstList` is a driver that ran its own loop (`DriverLoop`, the loop
exported drivers have), `FirstNumber` and `NextNumber` the loop of `generate` around one that
returns a token at a time. `greedy` is what the model would say if nothing stopped it.

`Vc4Conv`. `pc` is where `conv_f32_run` is and `k` its chunk: `SetUp` cleans the operands and
flushes the result's lines; `PrepareAhead` and `PrepareNext` are `prepare` (`stage_rows` and
the streams' sequence number); `WriteControl` and `StartCall` are `launch_start`;
`SeeMarkers` and `Drain` are `launch_wait`; `Finish` is the invalidate and, read in place,
`conv1d_edges`; `Deliver` is `conv_run`'s memmove. `TakeCall`, `StartQPUs` and `ReturnCall`
are `Launcher::loop` around the mailbox call, with the firmware reading the control list at
some moment in between. `Compute` is one position of one QPU, `MarkDone` the word it writes
last. `Evict` is the host's cache, which may write a dirty line back whenever it likes.
A cell's value says what the cell should hold, so that a wrong one shows: `Right(t)` is the
result at position t computed from the right operands.

`Vc4Pool`. `call` is the node being computed, with a phase for each place where the code
leaves its lock or asks the pool for memory; `other` the request of a second thread.
`Allocate`, `Release`, `Retry` are `buft_alloc_buffer` and `alloc_or_release`; `Drop` and
`GiveBack` `buffer_free`. `Runtime::mu` is the guard `Locked`. `loads` is history: how many
models had a weight at that address.

### Abstractions

* One layer stands for all layers; K and V are one value; a row's value is the token it was
  computed from. Every layer writes and reads the same cells in the same graph.
* `GraphTopology`'s "does the text mention `n_past`" and "has it a cached ATTENTION" are the
  constants `Rebuilds` and `Attentive`.
* A module has one declared input and one output. Several of each, and sweeps that read a
  source, are planned.
* Whether a reference is aliased or copied is left open in `FeedRef`: `alias_input`'s
  conditions are about buffers and strides, and the properties must hold either way.
* `Rebuild` in `ComputeBuffer` is possible for the retained shape too: a moved output store
  makes it so in the code.
* A compute buffer of a hybrid builder belongs to ggml's scheduler and none of
  `ComputeBuffer` applies to it.
* `Vc4Conv`: a row stands for all rows of a tensor and a position for the vector a QPU
  computes at once. Bias, mask and weights, which the result never overlaps, are left out.
  The stride is 1. A residual that is the input itself needs a row as long as the result's.
  The firmware reads the control list once, at `StartQPUs`; the errors of the mailbox and of
  the cache-maintenance ioctl are left out.
* `Vc4Pool`: the pool refuses exactly what does not fit, and no other process uses it; a
  model is not freed while a node of it is computed (a host that did so would free ggml's
  own tensors under it).
* `Transcribe`: what a frame's energy is, is the audio's affair: any frame may be the
  quietest. Detokenizing keeps the tokens and drops the control tokens.
* Operators whose comment begins with "Fault" (or is headed "Faults") are not part of the
  specification and nothing uses them. Each is the form a definition would have with a
  plausible bug in it; substituted for the definition it stands beside, it must make a
  property fail (`PROJECT.json`, "mutants").

## Runs

Bounds: `MaxTokens`, `MaxPos`, `MaxSeq`, `MaxCalls`, `MaxAllocs`, `MaxLoads` and `MaxWindows`
are the only limits that are not the code's, and appear only in guards. All runs switch
deadlock checking off: a driver may stop calling, a front end's call and a convolution end,
and the bounds stop the rest. Where something must *not* stop, a liveness property says so
(`CallEnds`, `ConvolutionEnds`).

| Run | Checks | Bounds, and why they are enough |
|---|---|---|
| `KvRing` | `TypeOK`, `CacheHoldsWindow`, `ReuseEqualsRebuild`, `ImplementsSlidingWindow`, `ProperMaskNeverRefused` | 3 cells, buckets of 2, up to 7 positions: the ring wraps twice, its last bucket is capped, one module rebuilds every step and one reuses; a second sequence starts on the first one's rows |
| `Caches` | `TypeOK`, `ConvolvesOwnSequence`, `SlotIsTail` of `ShortConv`; `LinearReuse`, `LinearIsWindow`, `LinearMaskNeverRefused` of two linear `KvAttention` | 2 columns of history and calls of 1 to 3 tokens (shorter and longer than the history), two modules on one slot; 4 cells filled to the last and refused past it; 5 cells in buckets of 2 (the last one is cut) under masks with a band of 2 |
| `OutputsScarce` | `TypeOK`, `RunWritesOwnSlot`, `RunReadsWhatWasPassed`, `StoreHoldsOwnRuns`, `PinnedReadIsNotLater` | 2 modules, 2 geometries, 2 addresses, any allocation failing, 4 calls: build, reshape elsewhere, reshape back at the same address, reuse; or produce, alias, re-produce or fail, consume |
| `FrontEnds` | `TypeOK`, `EverySampleHeard`, `WindowsCover`, `MergeRestoresSpeech`, `MergeCutsOnlyOverlap`, `ClosedInOrder`, `BoundedWork`, `NamesAccounted`, `SameIdsEitherShape`, `ConformingNotRefused`, `CallEnds` | twelve files (see `MCFrontEnds`; `chunked` has tables of names and is decoded in chunks, `Overlapping` has samples in three windows, `Roomy` meets every bound of `RoomToMerge` exactly), audio of every length from none to more than twice the window or the clip, so that a last window of every size occurs; `MaxWindows` = 5 is above what `BoundedWork` allows these lengths, so it never cuts a behaviour; one id more than `max_new_tokens` |
| `Backends` | `TypeOK`, `GraphInLiveBuffer`, `NeedIsKnown`, `UnderuseIsAnswered`, `ShrinkIsEarned`; `ConvTypeOK`, `StagedIsInput`, `ControlListStable`, `ImplementsOnce`, `ConvolutionEnds`; `CallMemoryIsLive`, `CopiesAreCurrent` | a window of 3 calls with needs 1, 3, 4, 6 (exactly half of the largest, and one more) and 7 allocations: two shrinks with growth, a hold and a release between them. Four chunks, more than the three slots, the last one short, each with a halo of a chunk on either side; every place the result and its operands may have; two QPUs. A pool of 6 with room for a slab or two, so that an arena is refused and the retry after releasing succeeds or fails; two models at one address |
| `ConvRetained`, `OutputsAllocFails`, `OutputsPinned`, `OutputsStale`, `SeekTail`, `StopSet`, `Vc4LeakyRelu` | one property each, violated | see "Findings" |

`MCRetainedOutputs` declares modules, axes and addresses symmetric. They are compared and
never ordered or chosen, and every property checked there is an invariant, so it is sound.

**Fairness.** `DoorSpec` has weak fairness of the whole next step: a front-end call runs on
the caller's thread, which goes on, and every call of a driver returns or throws (there is no
timeout in the code to give up on one). `CallEnds` then depends on the loops alone: that the
seek moves, that a cut leaves less, that a decode loop is bounded. `ConvSpec` has weak
fairness of the host's steps, of the launcher's thread and of each QPU: threads run, and a QPU
program has no loop that waits for another party. A program that does not finish stops the
process after two seconds (`launch_wait`), so it is not a behaviour worth promising anything
about. The cache's eviction has no fairness; nothing may depend on it. The other
specifications assume none: every property of theirs is about safety, since a driver need not
call again.

The properties, in a sentence each:

* `ImplementsSlidingWindow`: as seen through `seq`, `n_past` and `attended`, cached attention
  is `SlidingWindow`: whatever was reused, retained, wrapped, torn or left over, a completed
  call's query at position p attends to exactly the tokens of its own sequence in its window.
* `CacheHoldsWindow`: the last `Capacity - 1` positions are in their cells, also after a run
  that failed halfway.
* `ReuseEqualsRebuild`: a retained graph that the key admits is, after the refresh, the graph
  a rebuild would make.
* `ProperMaskNeverRefused`: a mask of the real width or of the tensor's is always placed.
* `ConvolvesOwnSequence`, `SlotIsTail`: the convolution's counterpart.
* `RunWritesOwnSlot`: while a module's store has a slot, its runs end in a copy into that one.
  `RunWritesLiveSlot` (violated when a binding's allocation may fail): no run ends in a copy
  into a freed slot.
* `RunReadsWhatWasPassed`: an input fed by value or by reference, now or on an earlier call
  whose graph is still served, is what the run reads.
* `StoreHoldsOwnRuns`: no consumer writes through an alias into its producer's slot.
* `PinnedReadIsNotLater`: a read pinned to a generation never returns a later run that
  completed.
* `GraphInLiveBuffer`, `NeedIsKnown`, `ShrinkIsEarned`, `UnderuseIsAnswered`: the retained
  graph is in the live buffer; its need is known whenever the policy judges it; a shrink
  needs a full window of under-using calls; and a full window always gets one.
* `EverySampleHeard`, `WindowsCover`: whichever way audio is cut, nothing between its first
  sample and its last goes undecoded, but a quiet tail too short to keep; windows share exactly
  the overlap, and each has something of its own.
* `MergeRestoresSpeech`, `MergeCutsOnlyOverlap`: the words of the audio come out of
  overlapping windows once and in order although the words at their edges are lost or
  misheard; and whatever the texts are, a merge cuts nothing outside the tokens it
  searches, and its walk stays inside its table.
* `ClosedInOrder`, `BoundedWork`, `CallEnds`: the segments a model closes come out in order;
  a call takes no more decodes than the audio has seconds, and ends.
* `NamesAccounted`: a name the caller gave reaches the model; or is ignored, and the file has no
  choice there; or is dropped, and the file has it but is decoded in whole chunks. It is not the
  claim that every name is served: the third case is one where the code does not ("Noticed on
  the way").
* `SameIdsEitherShape`, `ConformingNotRefused`: a driver of either shape gives the promised
  ids when what stops its loop is all that ends generation (`OneAnswer`); the check made for
  drivers that echo their prompt never refuses another. `OneAnswer` leaves out two cases of a
  file with several stop ids: a one-token driver whose caller names none (`StopSet` shows what
  happens), and a list driver whose caller names one (no run; "Noticed on the way").
* `StagedIsInput`: what waits in a slot, or is being computed, is the input as it was before
  the node, though the result is being written over it: two chunks ahead is far enough.
* `ControlListStable`: the host leaves the control list alone while the launcher's call is out.
* `ImplementsOnce`: at the end every position of the result is right as the host sees it, and
  every other cell a later node may read is as it was: dirty lines, stale lines, a result
  over the input or over a residual included.
* `ConvolutionEnds`: nobody waits for anybody for ever.
* `CallMemoryIsLive`, `CopiesAreCurrent`: nothing a call in flight uses is let go or
  overwritten, by its own refused request or by another thread's; and a copy kept of a weight
  is of the weight that is at that address now.

## Findings

The seven violation runs each show the code departing from what a comment of it says.
`PROJECT.json` quotes the lines. Outside the case of `SeekTail` its property is proved
(`SpansOnce`).

* `ConvRetained` (`core/graph_builder.cpp:212`): the reuse key drops `n_past` when the
  topology's text does not mention it, but `op_short_conv` reads `n_past` without the text
  doing so. A hybrid with cached attention and a stateful SHORT_CONV whose text never
  names `n_past` keeps convolving the history it was built with.
* `OutputsAllocFails` (`core/output_store.cpp:36`): `reshape` frees the slots before it
  allocates and raises the epoch after. If a sequence binding's allocation fails in between,
  the retained graph still believes its slot unmoved.
* `OutputsPinned` (`core/output_store.cpp:77`): the generation is raised after a run and not
  by `reshape`, so between a reshape, or a failed run, and the next completed one, a
  pinned read passes its check and returns data that generation never produced.
* `OutputsStale` (`core/lua_bridge.cpp:1076`): the sweep and the ODE hook write inputs
  without `mark_input_written`, so a written input is still reported stale.
* `StopSet` (`core/text_generate.cpp:145`): the loop around a one-token driver compares with
  the first of the file's stop ids only, where the header says every id of the set ends
  generation.
* `SeekTail` (`core/transcribe.cpp:61`): a window's unclosed tail is kept as a segment although
  the next window starts before it, so its words come twice.
* `Vc4LeakyRelu` (`ggml-vc4/ggml-vc4.cpp:1677`): with a LEAKY_RELU folded in, the tensor staged
  is the unary's input, which is no operand of the convolution; the allocator may place the
  convolution's own tensor over part of it, and the third chunk is staged from the result.

Noticed on the way, and not the subject of a run:

* `transcribe` resolves a language, a task or a target for a model that declares chunks, and then
  calls it without that argument and without a warning (`transcribe.cpp:315-325`; `Resolved`'s
  "dropped", the file `chunked` of the run `FrontEnds`), although a declared table "is the file
  saying its driver reads the argument, on either decode path" (`transcribe.cpp:186-187`).
* A file without tables that is not decoded by clips takes `language` from its vocabulary's
  `<|xx|>` pieces and passes it on (the file `lookalike`), where `transcribe.cpp:310-311` says
  that every dynamic-length file without a table resolves it to -1 or refuses it.
* The caller's stop id "replaces the file's set rather than joining it"
  (`text_generate.cpp:66-67`), and is what is stripped; but a list driver is given no word of
  that and breaks on the file's other ids too (`extra_eos_tokens`), so its list may end earlier.
* After an allocation of `reshape` fails, the slots are there without a buffer: `get` serves one
  to any read, pinned to the last generation or not, and that ends the process (`ReadUnbacked`).
* `choose_window` rates a length by a last window that `plan_windows` may not make: it counts
  steps up to the total, the plan stops when no more than the overlap is left. A choice that
  is only less good.
* `QuietSplitPolicy::declared` accepts a search as long as the maximum with a frame of one
  sample, for which a cut could fall where the last one did, and one whose shortest piece is under its
  `min`. `QuietAssumption` excludes both, so `EverySampleHeard`, `AllAudioHeard` and `CallEnds`
  say nothing of such a policy; the one `test_asr_long_form.cpp` declares meets it.
* A word misheard at an edge may stay in the merged text between the right ones.
* vc4: the size remembered as refused was refused with `keep`'s copy held; a later call keeps
  another, and a block given back between the refusal and the reading of `frees()` counts as
  given back before. Both cost at most a computation on the CPU that the QPUs could have done.
* vc4: `alloc_or_release` lets go of its lock between releasing and asking again, so a thread
  that computes can take the room it made.
* vc4: `on_cpu` also catches an error thrown after launches have run, when an in-place
  result has overwritten part of its input (the errors are outside `Vc4Conv`).
* vc4: the list of nodes computed in place (`g_inplaced`) may still name nodes of a graph that
  was planned, never computed and freed; undoing them would read freed tensors.

## Proofs

Thirty-six theorems are listed in `PROJECT.json`; the lemmas are beside them. Each holds for
every value of the constants under the assumptions the modules state: a cache has at least one
cell and a bucket at least one (`CapacityAssumption`, `BucketAssumption`), a ring model passes
no mask window (`RingWindowAssumption`: every layer has the ring's own, ADR-066), a stateful
convolution has a history (`StateAssumption`), a need is positive and a shrink factor at
least 2 (`NeedAssumption`, `PolicyAssumption`), the names used for "nobody" are no modules
(`NamesAssumption`), a convolution has at least one position, tap and QPU and pads with
less than its row (`ConvAssumption`), its padding is at most a chunk (`ChunkCoversPadding`,
an assertion of the code), there are finitely many weights (`PoolAssumption`), what a file declares, the audio's length and the ids of a text are numbers
(`FilesAssumption`, `TimeAssumption`, `TokenAssumption`), a cut at a quiet point leaves a piece
long enough to keep (`QuietAssumption`), and the TLC bounds are numbers.

**Cached attention** (`KvAttention_proofs`). The properties are not inductive. A reuse equals
a rebuild only because of where retained graphs come from, and the window is in its cells
only because no call was let past the end of a linear cache. `IInv` adds both: every retained
graph is the graph a rebuild would make for *some* call that fits (`GraphOfSomeCall`), and
`n_past` never passes a linear cache's capacity (`LinearFits`). From it:

* equal keys of calls that fit give equal bucketed lengths (`KeyFixesLength`), so a reuse
  equals a rebuild (`ReuseIsSound`), and a mask that fits one fits the other
  (`MasksAccepted`);
* the cells a call writes are those of its own positions, and positions less than a capacity
  apart never share one (`CellOfInjective`), so neither a completed nor a torn run touches a
  row the next query looks back at (`WindowWritten`, `RowsMissWindow`, `CacheKeepsWindow`);
* the columns the placed mask leaves open are, up to the capacity, exactly the window's
  positions, and past it, in a ring, every cell, which then holds exactly the last `Capacity`
  positions (`OpenBelowCapacity`, `OpenPastCapacity`, `AttendsWindow`).

`AttentionIsSlidingWindow` puts them together as a refinement: initial states map to initial
states, `Step` to `AbsFeed`, `NewSequence`, `Reset` and `SeedKv` to `AbsBegin`, and every
refusal and failure to a stutter. `StepAxes_proofs` holds the arithmetic: division with
remainder, the cells of consecutive positions, rounding up to a bucket.

**Short convolution** (`ShortConv_proofs`). With `Attentive \subseteq Rebuilds` every key has
`n_past` in it, every retained graph reads the history its own key asks for, and
`ConvolvesOwnSequence` and `SlotIsTail` are inductive together. The theorems name the premise
because the code does not enforce it: without it the first property is false (`ConvRetained`).
`TypeCorrect` needs no premise.

**Compute buffer** (`ComputeBuffer_proofs`). The code keeps one counter; the properties are
about the calls it stands for. Counting back from the last completed call, the calls that
under-used the live buffer are as many as the counter says: never fewer (`CountIsEarned`) and
never more (`CountIsComplete`). Two facts about failures make it inductive: a count that
reached the window has lost its graph, so the rebuild that was to shrink cannot fail twice
and count twice (`CountIsSettled`), and without a buffer the count is zero.

**Retained outputs** (`RetainedOutputs_proofs`). `IInv` has one predicate on each module's
store (`StoreOK`), graph (`GraphOK`) and input (`InputOK`), with what a call in progress adds
(`CallOK`) and what the last read leaves behind (`ReadOK`). Three facts carry it. The epoch
counts layouts: a retaining graph's epoch is never above the store's, and where they are equal
and the store has a slot, the slots are equal. A value names the call that made it, so a
store's value is never one its earlier generations stand for, which is what a pinned read
relies on. And an alias is always of the call in progress, undone before the next one's inputs
are written. `RunsWriteLiveSlot` adds an invariant for its premise: when no binding runs out of
memory, a store that had a slot has one, so no graph's slot is gone. Without the premise it is
what `OutputsAllocFails` refutes.

**The pool** (`Vc4Pool_proofs`). Nothing depends on what the pool refuses or on how much there
is: the argument is about who may let go of what. A copy is kept only of a weight that is
owned and not being dropped, at an offset below what of the slab to fill is used (`CopyOK`), so
packing another never overwrites it; the weight of the call in flight is owned, and its copy
is the one kept (`CallOK`): the only step that lets copies go while the call is at work
is its own, which keeps this one. That there is a number for a new slab is a pigeonhole
argument on the copies (`SlabToBeHad`).

**The convolution** (`Vc4Conv_proofs`). `TypeInv` adds to the types that every slot holds a
chunk there is, which keeps every write inside memory. `HandshakeOK` says a call is out only
between the start and the drain, which is all `ControlListStays` needs. The two long ones,
`StagedStaysInput` and `ConvolvesOnce`, share an invariant of two halves.

* `RunsOK` is about turns. `StagedOK`: the chunks from the launched one to the last staged are
  in their slots, whole, under sequence numbers that count them (three slots, so the one being
  filled is never one still needed). `LaunchOK`: a QPU runs only a program of this launch, and
  no done word is this launch's before it started, so that seeing the markers means every QPU
  has finished. `TurnOK` and `DrainOK`: a QPU is always at a position of its own, they share the
  chunk's positions between them with none left out (`TurnsCover`), and after the markers each
  has been through its own.
* `MemOK` is about memory. Each cell is what `Cell` says, or the host's cache has its line: the
  right value of the result's position where that was made (`Made`: a QPU is past it, or the
  host did the edges), what it held before the node elsewhere. A line of the host's that is
  still dirty is none the set-up wrote back (`Cleaned`), and so none of the result's or of an
  operand the QPUs read; a cell the host must not trust is a made one.

The halves meet where a value is read. The host stages two chunks ahead: behind the launched
chunk no more than its own positions is made (`MadeBehind`), so with a padding of at most a
chunk the window, halo included, still is the input (`ReadsInput`, `StagesInput`). A QPU
computes a position: its taps are in its slot or, read in place, in input the result is off;
its residual is off the result or exactly under it, and there the one position read is the one
nobody has made (`ComputesRight`). The host ends: all is made, nothing is stale or dirty in the
result, and where the target is not the node's tensor the copy is exact (`Delivered`). The
arithmetic of placements, `TargetOverInput` and `TargetOverOperands`, is proved from what the
allocator and `conv_run` promise (`Placed`, `Direct`). `ConvolvesOnce` maps the delivery to the
one step of `ConvolvedOnce` and every other step to a stutter, for every row, chunk, number of
taps, dilation and number of QPUs. The premise `InputOutlivesAct`, that the allocator kept the
input, is the one `Vc4LeakyRelu` refutes the first theorem without.

**The front ends** (`FrontEnds_proofs`). One invariant, `TInv`, carries the theorems about a
transcription. `PiecesInv`: the plan is a chain (`Chained`), no window
starting after what those before it reach, and what was decoded is the plan so far.
`SeekInv`: everything before the seek was heard, and as every advance is at least a second
or a whole clip, the decodes are bounded by the distance covered (`ReachGoesUp`,
`AdvanceBounds`). `SegmentsInv`: the segments closed so far are in order and end at most half a
sample after the seek, which is what `llround` may take back, and the next decode's begin
where the seek is (`AdvanceBounds`, `SplitInOrder`, `JoinedInOrder`). `ArgsInv` and `CallInv` tie
the caller's names and the phase to the call. That a plan is a chain for *every* length and policy
is `PlanIsChained`; that a cut at whatever quiet point moves forward is `CutsForward`.
`MergesCutOnlyOverlap` is about the algorithm: the table of runs holds lengths of common runs
(`RunTableIs`), the last longest run and the leftmost one are cells of it (`LastLongestIs`,
`LeftmostIs`), an extension never passes the last column (`ExpansionIs`), and the walk back
takes no more than it walked (`BacktrackIs`), so the alignment lies inside both texts
(`AlignmentInside`) and the stitch cuts nothing outside what was searched (`StitchCuts`). The code's
comment says an index past the table "cannot be reached by the walk below on any input
we have found"; there is none.

`WordsRestored` is the promise the merge is there for: the words of the audio come out once and
in order, for every length, policy and combination of words the windows' edges lost or misheard,
if the policy leaves the merge room (`RoomToMerge`: four words in every overlap, a search past a
misheard word, a head that holds the overlap, no sample in three windows; with any one of them
dropped TLC finds a policy that loses or repeats a word). canary-1b-v2's policy
(`test_asr_long_form.cpp:268-277`) has that room for speech of four to seven tokens a second.
The speech is an idealised one: its words come at even distances and none is said twice; a text
with a repeated phrase in the overlap is outside what the theorem says. The argument goes
through the algorithm. `SpeechInv` ties each decoded text to its window's stretch of the speech;
with room to merge, the windows' words overlap by four or more and only with a neighbour's
(`WindowsSpread`). The merge so far (`StitchedTo`) says every word of the windows up to now,
with at most one misheard token after them, so that what its end shares with the start of the
next text is one run (`TextsShareRun`): the table of such a pair is one diagonal
(`DiagonalTable`), its end the last longest run (`DiagonalEnd`), what the partial branch finds
is on it as well (`DiagonalLeftmost`, `DiagonalExpansion`), and the walk back, which stops a
column short of the table's edge, drops no token of it (`DiagonalBacktrack`, `OneRunAligned`).
So each stitch goes on with the word after the last one said (`StitchIs`, `StitchedOn`), and at
the end that word is past the last (`MergeIsSpeech`).

For a generation, `GenInv` says that each shape of driver has, at
every step, the prefix of the model's own sequence up to the first stop or the ceiling; under `OneAnswer`
the ids that stop the loop are the ids that end generation (`StopsAreEndIds`), and
`SameIdsEitherShape` follows from there being one first stop (`SomeStop`).

One theorem says how far a finding reaches. `SpansOnce`: no span is kept twice if the answers
are not split at timestamps, or each goes forward and closes all it says (`NoTails`), so what
`SeekTail` shows needs an unclosed tail or timestamps that go back. `TailInv` carries it: what a walk has pending
after the last timestamp is only control tokens (`StepTidy`, `SplitIsClosed`), so every segment
is closed and `SegmentsInv` orders them all; without timestamps the segments are the clips.

The operators these theorems are about are recursive functions. That such a function exists,
satisfies its equation and stays in its type is proved once for iterations (`Iterates`,
`StaysIn`), by induction from the least element of a set of numbers (`LeastNumber`,
`CountsUp`).

Only model-checked: `MergeRestoresSpeech` of a policy without room to merge (the instance's
`Overlapping`, whose samples are in up to three windows); and `LinearReuse`, `LinearIsWindow`
and `LinearMaskNeverRefused` in `Caches`, the instances for linear caches of what
`KvAttention_proofs` proves for every value of the constants.

Out of this prover's reach, and left to TLC: liveness under fairness and ENABLED (`CallEnds`,
`ConvolutionEnds`), though `BoundedWork` is the bound the first of them rests on.

## Not modelled

`PROJECT.json` lists every component with its reason. In short: numeric kernels and operator
primitives (floating point), the QPU programs' instructions, tokenizers and text normalisation
(strings; by lines the largest part of the repository, with the tables of Unicode data), CTC
decoding and duration alignment (pure folds), model-file reading and device discovery
(environment), the patches to ggml, profiling, the command line, the scripts and the benches.
Of modelled components: the hybrid scheduler's sizing, several inputs and outputs per module,
the sweep's source, MUL_MAT and the Q8 convolution on the QPUs (they launch and pack as the F32
one does), the matching of chains in a graph.

The hazard list in `PROJECT.json` names the places where this code can go wrong in a way a
test would hardly reach, with the property that watches each one, or why none does yet.

## Plan

1. Done: `StepAxes`, `SlidingWindow`, `KvAttention`, `ShortConv`, `RetainedOutputs` and
   `ComputeBuffer` with their proofs; the front ends; the vc4 backend's pool and convolution
   with their proofs.
2. Next, in this order: several inputs and outputs per module and a sweep's source in
   `RetainedOutputs` (self-aliasing, the order of reshape and source read); the Q8 convolution's repacking; the hybrid builder's sizing; greedy CTC decoding
   and the longest-match loops of the tokenizers against reference definitions.
3. Then theorems: an abstract store of generations that `RetainedOutputs` implements.
