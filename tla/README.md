# mesh-torus-distributed in TLA+

A verification development for the crates of this repository: TLA+ modules for
the schedules, communicators, topology and training bookkeeping, TLC
configurations that check them on small instances, and TLAPS proofs of the core
properties for every value of the parameters.

## 1. The system and its parts

Paths are below `src/crates/`. "State" is what lives across calls.

| Component | Code | State | Operations | Interacts with |
|---|---|---|---|---|
| 1F1B schedule | `mt-pipeline/src/schedule/onef1b.rs` | locals of one call | `build_schedule`, `execute` | stages, pipeline communicators |
| GPipe schedule, executor | `schedule/gpipe.rs`, `executor.rs` | the stages and communicators the executor owns | `execute`, `PipelineExecutor::run` | stages, pipeline communicators |
| Schedule contract | `schedule/mod.rs` | - | trait `Schedule`, `ScheduleKind` | implemented by both schedules |
| Pipeline stage | `stage.rs` | `layers`, `input_cache` | `forward`, `backward`, `checkpoint_forward`, `recompute_and_backward` | called by the schedules |
| Checkpointing | `checkpoint.rs` | the stage's `input_cache` | `apply_checkpoint_forward`, `recompute_forward` | the stage; called by nobody |
| Pipeline communicator | `communicator.rs` | - | send/recv of activations and gradients through the FP8 wire format | any `Communicator` |
| Mock communicator | `mt-comm/src/mock.rs` | `mailboxes`: a slot per ordered pair, behind an `RwLock` | `send`, `recv`, degenerate collectives | the ranks of a world share the slots |
| Topology-aware communicator | `mt-comm/src/topology_aware.rs`, `mt-core/src/topology/coordinator.rs` | - | neighbour exchange, nearest neighbour, stage sendrecv, collectives | torus, mock communicator |
| TCP communicator | `mt-comm/src/tcp.rs` | connection map behind an async mutex, an accept task | `new`, accept loop, `send_async`, `recv_async`, `connect_to` | peers over TCP |
| Point-to-point | `mt-comm/src/p2p.rs` | slots as in the mock, handles | `isend`, `irecv`, `sendrecv`, `wait` | ranks of a group |
| Torus, hybrid | `mt-core/src/topology/{torus,hybrid}.rs` | the meshes of `MeshTorusHybrid` | ranks, coordinates, neighbours, `node_at_mut` | placement, topology-aware communicator |
| Device mesh, discovery | `mt-core/src/topology/{mesh,device,discovery}.rs` | none (built once) | `IntraNodeMesh::new`, `discover_mesh`, device numbers | hybrid torus |
| Placement | `mt-pipeline/src/placement.rs` | none (pure) | `topology_aware_placement`, `compute_hop_distance` | torus |
| Loss scaler | `mt-core/src/precision/loss_scale.rs` | scale, growth counter | `update`, `reset` | training step |
| Accumulator | `mt-training/src/accumulator.rs` | gradient map, step counter | `drain_from`, `register`, `register_values`, `reset`, `into_gradients` | training step |
| Training step | `mt-training/src/step.rs` | `global_step` (caller's) | `train_step`, clipping, warm-up | accumulator, scaler, and the loop of the caller |
| Runtime builder, configuration | `mt-training/src/{runtime,config}.rs` | the builder's four options | `with_*`, `build`, `validate` | scaler and training step |
| FP8 quantisation, delayed scaling | `mt-core/src/precision/*` | amax ring of `DelayedScaling` | `to_fp8*`, `from_fp8`, `update`, `compute_scale` | pipeline communicator, Burn adapters |
| Burn adapters | `mt-burn/src/*` | `Fp8Gradients` | casts, `register`, `remove`, `update_weight_fp8`, `split_evenly` | Burn (external), FP8 |
| GPT example | `examples/gpt-1b/src/*` | the loader, the loop of `main` | model, loader, loop | Burn (external), runtime builder |

### What makes each hard, and what makes it correct

* **Schedules.** One thread simulates all stages. 1F1B interleaves forwards and
  backwards of different micro-batches; `execute` unwraps "the activation must be
  there" with `expect`, so the order in which the rounds visit the stages has to
  guarantee it for every number of stages and micro-batches. Correct: no panic,
  each stage sees its own micro-batch in order, backward on the input of its own
  forward, no more work in flight at a stage than there are stages from it to the
  last, `Ok` only when all is done. A failing `send`, or a stage without a
  communicator, stops it in the middle of a round, when the stage has already
  computed: in a world that is too small no stage may go on computing what it
  cannot pass on.
* **Communicators without queues.** A mock `recv` neither waits nor consumes; a
  slot keeps the last message for ever, across calls of `run`. Correct: GPipe is
  never given what an earlier micro-batch or an earlier, perhaps failed, run left.
* **Neighbour exchange.** Every rank is a thread; nothing synchronises. What
  remains true: two ranks cannot both miss each other, nobody goes back in time,
  nobody is given a third rank's data, nobody waits.
* **TCP.** One mutex guards all connections and is held across the reads of
  `recv_async`; who is connected to whom depends on who started first; and a
  connection made by `connect_to` sends no rank.
* **Training step.** An overflow in the middle of an accumulation window, the
  loss scale that changes with it, the counter of the accumulator, and a caller
  who must do the right thing between two steps. A gradient that is not in f32 is
  lost without an error. Correct: whole windows, each under one scale, no
  micro-batch in two, and each gradient that is kept summed once.
* **Torus arithmetic.** Axes of one and two nodes, where both directions meet;
  ranks and coordinates that must undo each other; devices that are numbered as
  if every node had as many as the first.
* **Checkpointing.** A stage caches one input. Forwards that save, forwards that
  do not, and recomputations come in any order. Correct: whatever the strategy,
  the same output; a recomputation is of the input saved last.
* **FP8.** The size of a block is not stored, a tensor that crossed the wire has
  no amax, the scale of a tensor comes from tensors before it, and a scale can be
  zero or infinite.
* **GPT example.** Reshaping and swapping of axes that must keep positions and
  rows apart; a loader and a loop that count separately.

`PROJECT.json` lists these hazards line by line, with the properties aimed at
each. A hazard that no property covers says why.

## 2. The modules

| Module | Models | State ↔ code |
|---|---|---|
| `StageData` | the data of a pipeline | A matrix is its provenance: micro-batch, stages passed, FP8 round trips |
| `MockComm` | the slots of `MockCommunicator` | `<<src, dst>>` ↔ `mailboxes[src][dst]`; `<<>>` is the empty `Vec` |
| `Pipeline` | the promise of `Schedule::execute` | abstract: sets of `<<stage, micro-batch>>` cells run forward and backward |
| `OneF1B` | `OneF1BSchedule::execute` | variables are the function's locals; one action per branch of the loop body |
| `GPipe` | `GpipeSchedule::execute` under `PipelineExecutor::run` | likewise; `RunAgain` is the next call over the same slots |
| `Checkpoint` | `stage.rs` and `checkpoint.rs` | `input_cache`; one action per call a caller can make, with any strategy and any handle it holds |
| `LossScaler` | `LossScaler::{new_*, update, reset}` | the scale is its exponent; `MaxExponent + 1` is infinity |
| `GradientAccumulator` | `accumulator.rs` | operators on an accumulator: the gradient map, as the micro-batches summed for each parameter, and the counter; a gradient not in f32 is the empty vector |
| `TrainingConfig`, `Runtime` | `config.rs`, `runtime.rs` | operators on a configuration and on the builder's options |
| `TrainStep` | a training run | composes the four above: `Configure` and `Build` are the builder, `Overflow`, `Accumulate` and `Complete` the three ways through `train_step`, `DrainPanics` the assertion of a debug build, `OptimizerStep` and `ResetScaler` what its caller does |
| `Torus` | `torus.rs`, `hybrid.rs`, `placement.rs` | pure operators; `dims` is a sequence of 2 or 3 sizes |
| `DeviceMesh` | `device.rs`, `mesh.rs`, `discovery.rs`, the devices of `hybrid.rs` | a mesh is its sequence of devices; `<<>>` stands for a refusal |
| `TorusWalk` | what the torus is used for | `Equip` is `node_at_mut`; then a message walks over `neighbor()` |
| `NeighborExchange` | `TopologyAwareComm` on a shared mock world | one process per rank, a step per `send` and per `recv` |
| `Collectives` | the collectives of `mock.rs`, `topology_aware.rs`, `coordinator.rs` | operators on payloads: whole words and the odd bytes behind them |
| `P2PChannels` | `P2PChannel`, `AsyncP2PChannel` | the buffers, who holds their mutex, what is left of each rank's call, the handles it was given |
| `TcpMesh` | `TcpCommunicator` | connection maps, sockets, accept backlog, the mutex of each rank with its queue |
| `AmaxWindow` | what delayed scaling promises | abstract: the last tensors by age, and their peak |
| `DelayedScaling` | the amax ring of `scaling.rs` | `amax_history`, `cursor` |
| `Fp8` | `quantize.rs`, `fp8_tensor.rs`, what of a tensor `communicator.rs` sends | extends `DelayedScaling`; a cast value is its value, the scale it was multiplied by and the format it was cut to; a scale is the magnitude it maps to the largest number of the format |
| `BurnAdapters` | the crate `mt-burn` | operators on tensors, as values and dimensions |
| `Tensors`, `GptExample` | the GPT example | a number is the set of the tokens and positions it depends on; an action per half of a block (`Attend`, `FeedOn`), and per part of a turn of the loop of `main` |
| `OneF1BProofs`, `GPipeProofs`, `NeighborExchangeProofs`, `P2PChannelsProofs`, `TcpMeshProofs`, `TorusProofs`, `TrainStepProofs`, `DataPathProofs` | theorems | section 5 |
| `MC*` | constants for TLC, facts about pure operators | section 3 |

`OneF1B`, `GPipe`, `NeighborExchange` and `P2PChannels` extend `MockComm`, whose
slots are the same in `mock.rs` and `p2p.rs`. `NeighborExchange` and, through
`DeviceMesh`, `TorusWalk` extend `Torus`. `TrainStep` extends `Runtime` and
instantiates `LossScaler` and `GradientAccumulator`. Both schedules instantiate
`Pipeline` with a refinement mapping that reads the cells off the data the stages
were really given; `DelayedScaling` instantiates `AmaxWindow` with a mapping from
the slots of the ring to ages.

Some definitions come with a variant in front of them, marked `Faulty:`. It is
the definition with a plausible bug; nothing in the specifications uses it. For
every property of every passing run, `PROJECT.json` names one such variant under
`mutants`: put in the place of the original it makes TLC report the property
violated, which shows that the property depends on the code.

## 3. What the runs check

Run one with `tlc -config <cfg> <module>`. `CHECK_DEADLOCK FALSE` stands in those
whose modelled calls end, or whose tasks (TCP) may really wait for each other for
ever.

| Run | Shows | Bounds, and why they are enough |
|---|---|---|
| `onef1b` | No stage misses an activation (`NoPanic`), each gets its own micro-batches in order (`OwnActivations`), at most as many are in flight at a stage as there are stages from it to the last (`InFlightBound`, which does not speak of the warmup), at most one handed-over activation waits (`HandOverBound`), the call stops at the edge of a world that is too small (`NoWorkBeyondWorld`) and is a `Pipeline` (`ImplementsPipeline`) | up to 6 stages, 7 micro-batches, 6 communicators, with fewer and more micro-batches than stages and worlds that are too small. All are also proved for every size |
| `gpipe` | Slots that are never emptied never give a stage the data of another run or micro-batch: the call is a `Pipeline` with chained gradients (`ImplementsPipeline`), which come all the way from the last stage (`GradientChain`); a run fails only for want of communicators (`FailsOnlyWithoutWorld`) and returns (`Termination`) | up to 4 stages, 3 micro-batches, 4 ranks; shared, private and TCP communicators; 3 runs in a row, each with another number of micro-batches, so that old data of a longer, shorter or failed run is always there to be read by mistake. All but `Termination` are proved for every size |
| `checkpoint` | No strategy, handle or cut of the layers changes what a stage computes (`SameOutput`); a recomputation is of the input saved last, or panics exactly if none was saved since the one before (`RecomputesTheLastSaved`) | stages of 0 to 5 layers, cut evenly and unevenly; 3 micro-batches: one that is cached, one that overwrites it, and one after. Proved for every number of both |
| `train_step` | A window is whole whatever overflowed before it (`FullWindows`), every micro-batch is in one window or was dropped, and each gradient that is kept is summed once, in order, and no other (`EachOnce`: kept are those in f32, unless the first of the parameter in the window was not), one loss scale per window unless the caller resets the scaler in it (`OneScalePerStep`), nothing infinite is summed (`InfiniteNeverApplied`), clipping bounds every step, also a sum that overflowed (`StepsAreBounded`), warm-up follows optimizer steps and not micro-batches (`RampFollowsSteps`), the scale grows no faster than the growth interval lets it (`GrowthIsSlow`) | windows of 1 to 3 micro-batches and 5 of them: two whole windows of two with an overflow in any place; two parameters, both with a gradient, or one without, or only one and not in f32: lost gradients, lost later ones, and in a debug build the panic; norms of 0, of 2, finite until added, and of 3, infinite; with and without clipping, warm-up of 0 to 3 steps, one reset of the scaler anywhere, and a configuration for each refusal of `validate`. All are proved for every size, `FullWindows` for callers that reset the accumulator |
| `neighbor_exchange` | Of two ranks that exchange, one sees the other (`EitherSees`); nobody goes back in time (`NeverOlder`) or is given another's data (`FromThePeer`); every call returns (`CallsReturn`) | two ranks, two calls each, on tori smaller than, equal to and larger than the world. All but the last are proved for every world |
| `p2p` | An `irecv` reads a regular register: never older than what was there when it began, never older than an earlier one (`Regular`); in a ring of `sendrecv` somebody always receives (`RingSees`), also when others panic | groups of one, of two with two calls each, and of three with one: the smallest real ring. Both are proved for every group |
| `tcp_mesh` | Frames come out whole and in order though tasks share a stream (`FramesInOrder`); connections are filed under the rank at the other end, unless `connect_to` opened them (`FiledUnderItsRank`); handshakes are filed and calls return unless a receive that holds the mutex waits for its peer for ever, or a send for room (`HandshakesAreFiled`, `CallsReturn`); `TypeOK` | two ranks that start in any order and know each other's address or not, two tasks each, two calls each, sockets of two items: two tasks can be in the middle of frames of one stream, in both directions, with a connection of `connect_to` replacing that of `new`. The safety properties are proved for every number of ranks, tasks and calls and every capacity |
| `torus_walk` | `compute_hop_distance` is the length of a shortest walk, and `node_neighbors` finds the next node of one (`HopDistanceIsShortest`); ranks number the nodes (`RanksNumberNodes`); device numbers tell all devices apart as long as no node has more than the first (`DevicesNumbered`) | eight flat and deep tori with axes of 1 to 5 nodes, all walks of up to 6 hops, longer than any diameter; nodes of one or two devices, one of which is given another mesh: fewer, more, ids twice, too large, none, discovered. All are proved for every torus |
| `fp8` | A value is scaled for its own block (`ScaledForOwnBlock`) and comes back, with that scale and format, if the last block is nearly full (`RoundTripIfNearlyFull`); the ring is a sliding window (`ImplementsWindow`); what it is told of a tensor is at least what the tensor holds, also of one that crossed the wire, unless an infinity was lost there or all the history is too small for a finite scale (`ObservedFits`); `Fp8TypeOK` | slices of up to four values (NaN, zero, too small for a finite scale in one format, small, larger than the largest E4M3 number, infinite), blocks of 1 to 4: a last block that is full, short by one, and short by as many values as there are blocks; histories of 0 to 2 entries and eight amaxes, among them the largest numbers of the formats, 416 and 49152. All are proved for every length and every set of amaxes |
| `gpt` | What the model says of a position depends on the tokens up to it, of its own row, and on all of them (`SeesOnlyThePast`); the loop takes whole steps until the loader or the loop has counted to its end, or the shapes do not fit (`RunsThrough`) | two rows of 2 or 3 tokens, 2 or 4 features, 1 to 3 heads (3 never divides), 0 to 2 blocks; loaders with fewer and with more batches than the loop has steps: the smallest shapes in which mixing rows, heads or positions shows. `SeesOnlyThePast` is proved for every shape |
| `onef1b_gradients`, `train_step_documented_caller` | section 6 | |

Each module that models state has one type invariant (`TypeOK`, or with the name
of the component in front where several meet in `DataPathProofs`). All are proved,
and those of `TcpMesh` and `Fp8` run as well.

Facts about pure operators are named assumptions of the MC modules, which TLC
evaluates:

* `ScheduleAsBuilt`: the closed form of the 1F1B schedule is what the three loops
  of `build_schedule` push. Theorem `ScheduleIsBuilt` says so for all sizes.
* `NeighborsMutual`, `PlacementFits`, `PlacementBeyond`: a node is a neighbour of
  its neighbours; a pipeline as long as the torus gets a node for each stage; what
  becomes of a longer one. Theorems `NeighborsAreMutual` and `StagesGetNodes` say the
  first two of every torus.
* `Discovered`, `MoreThanTheFirst`: what manual discovery finds, with the NUMA
  nodes; which nodes share device numbers with the next.
* `StepsCoverBatch`, `RegisterCountsParameters`: an accepted configuration has
  enough steps for its batch; `register` sums what `drain_from` sums and counts
  differently.
* `ScatterShares`, `MeanOfEqualWords`, `SumOfEqualWordsOnly`, `RootOutside`: when
  the collectives of the mock answer what a collective would.
* `CastsKeepTheShape`, `FewNumbersFit`, `UpdatesAreWhole`, `OldestIsRemoved`,
  `StagesAreEven`, `StagesChain`: the Burn adapters.

## 4. Fairness

* `GPipe`: weak fairness of the steps of `execute`: a loop on one thread that
  waits for nothing. `RunAgain`, the caller, is under no obligation.
* `NeighborExchange`: weak fairness of each rank inside a call: a thread that
  waits for nobody (the lock around the slots is held for one copy and is part of
  the step). Nobody owes a further call.
* `TcpMesh`: weak fairness of `new`, of the accept loop and of each task where it
  can go on: the runtime polls every task that is woken. tokio's mutex serves its
  waiters in order, which is the queue in the state, so weak fairness suffices.
  `ReadAnything`, a read from a stream whose framing is lost, is under no
  obligation: it may wait for ever.
* `GptExample`: weak fairness of the loop of `main`, which is the only thread.
* The other specifications are checked for safety only and state no fairness
  that a property uses.

## 5. What is proved

The proofs are checked by TLAPS for every value of the constants that satisfies
the named `...Assumption` of the module; those say no more than that counts are
natural numbers, that a torus has two or three positive sizes, that GPipe is run
at least once, that a socket holds something, that blocks and tensors are not
empty (the code asserts the first, Burn the second), that the amaxes of the FP8
model have those of its slices and of the formats among them and none above its
infinity, that what is too small for a finite scale is below the largest number of
either format, and that the gradients of a micro-batch are of parameters of the
module, in f32 or not.

**`OneF1BProofs`.** `TypeCorrect`, `NeverPanics`, `RightActivations`,
`RightBackwards`, `BoundedInFlight`, `OkIsComplete`, `StopsAtTheWorld`,
`HandsOverOne`, `Refinement`, and of the schedule itself `ScheduleIsBuilt`. None of
the properties is inductive: that the activation is there depends on how far every
other stage has come. `IInv` therefore gives the state in closed form.
`Position`: the round and the stage the loops stand at determine every `op_idx`.
`Counts`: what a stage has run forward and backward is a function (`FDone`,
`BDone`) of its position in the schedule, counting the operation whose output
could not be sent, which has been computed. `HandOver`: what waits at a stage is
exactly what the stage before is ahead by. `Outside`: nothing waits at a stage
outside the world, so that none but the first computes there, and a stage that
cannot pass its output on has computed only if the call ended at it
(`StopsAtTheWorld`). That no stage is ahead by more than the stages after it
(`BoundedInFlight`) is again arithmetic on `FDone` and `BDone`. With these the theorem comes
down to arithmetic, `StageBeforeLeads`: in every round the stage before has run
more forwards. That at most one activation waits (`OneWaits`) follows from
`HandOver`: the stage before is ahead by one at most when a stage comes to its
forward. `ScheduleIsBuilt` says that the closed form of the schedule, with which
all this is computed, is what the three loops of `build_schedule` push.
`Refinement` shows that each step adds one cell, whose predecessor is there, or
stutters.

**`GPipeProofs`.** `TypeCorrect`, `RightActivations`, `RightGradients`,
`FailsForWantOfWorld`, `Refinement`. What a `recv` gives depends on who wrote the
slot last, in which run, so none of them is inductive. `InHand` says that the
datum the loop carries is of the micro-batch it stands at and has passed exactly
the stages before; each hop overwrites the slot and reads it back, or finds it
empty because the communicators share nothing (`OwnSlots`). `Progress` gives what
every stage has done by where the loops stand, and `Reached` that a micro-batch
which came through left a world large enough for the next. `Refinement` then
shows that each step adds one cell whose predecessor is there, ends the run, or
stutters; a new run is a new start of `Pipeline`.

**`NeighborExchangeProofs`.** `TypeCorrect`, `OneOfTwoSees`, `Monotone`,
`Authentic`. A slot is written by one rank only, with calls that grow
(`SlotsInv`); a rank about to receive has sent (`RunningInv`); and what an
exchange found, and what it had sent, stays a lower bound of the slots
(`TakenInv`). So of two ranks the one that reads later finds what the other had
written. The types need that neighbours, as computed by `neighbor` and
`linear_index`, are natural numbers, for which the module proves the rank
arithmetic of the torus.

**`P2PChannelsProofs`.** `TypeCorrect`, `RegularReads`, `RingReceives`. `Written`:
a buffer holds what its sender wrote, and no less than any of its handles says was
sent. `Floors` and `Received`: what a buffer held when a call began, and what an
`irecv` was given, stay lower bounds of what it holds. `Pending`: while a send is
still to be made, its call has no handle yet. So a rank that receives after the
one before has sent is given that or later, and a rank that sends has not
received yet: the last step that would close a ring of early receives cannot be
either of the two (`NotAllTooEarly`). A panic only takes handles away.

**`TorusProofs`.** `TypeCorrect`, `RanksNumber`, `DistanceIsShortest`,
`DevicesAreNumbered`, and of the operators `NeighborsAreMutual` and
`StagesGetNodes`. That ranks and
coordinates undo each other is the uniqueness of division with remainder, once per
axis (`FlatRank`, `DeepRank`). For the distance, one step along one axis changes
the shorter way round that axis by at most one (`OneHop`), and one of the two
directions shortens it (`OneHopNearer`), for axes of every size, those of one and
two nodes included, where the directions meet. So no walk is shorter
(`NoShorterWalk`, the invariant), and some neighbour leads on. Device numbers
count on from `rank * devices_per_node`, so nodes with no more devices than the
first have numbers apart; as many numbers as devices are then all of them
(`NumbersCounted`, `NumbersWhole`). It needs `Meshes`: what a node is equipped with
was built by `IntraNodeMesh`, or discovered. That neighbours are mutual comes down
to `WrapUndone`: on an axis the way back leads back, however short it is.

**`TrainStepProofs`.** `TypeCorrect`, `NothingInfinite`, `OneScale`, `NormOfAStep`,
`WarmupRamp`, `SlowGrowth`, `WholeWindows`, `OnceOrDropped`. A property of the steps taken says nothing of the
window that is being filled, so each has an invariant that does. The window is a
set of micro-batches, which says which were drained even where their gradients
left no trace. `Accounts`: it, the windows of the steps and what was dropped are
disjoint. `Scales`: while it is filled, all of it ran under the present scale,
unless the caller reset the scaler since. `NormsBounded`. `Ramped`: the step
counter is ahead of the optimizer only while that is called. `Growths`: exponent
times interval plus the counter is at most the steps taken. `Filled`: the window
is the last micro-batches, as many as the counter says. `Once`: the windows are in
order and hold all that was not dropped, and the gradients of each hold what is
kept of it, once and in order. What is kept is said of the window as a whole
(`Kept`), but the code looks at the stored vector only, so the proof carries along
what links the two: the vector is empty exactly if the first gradient of the
parameter in the window was not in f32 (`LinkedOf`). A `drain_from` that panics
half way leaves the accumulator torn, with a window in it that is not used again.
`WholeWindows` assumes what the code leaves to others: that the caller resets the
accumulator (`CallerResets`, without which section 6 shows it false).

**`TcpMeshProofs`.** `TypeCorrect`, `WholeAndInOrder`, `FiledRight`,
`HalfwayHoldsTheMutex`. A frame is written in two steps and read in two, and
neither the map nor the stream says who is in the middle of one. `Placed` and
`Once` say that every end of a connection is in one place: with the function that
opened it, in the backlog, with the accept loop, filed under one key, or dropped.
So only one rank uses it, whose mutex lets one task at a time be half way through
a frame, on a connection that nobody takes out of the map meanwhile (`Busy`). From
these follows `Streams`: what is on the wire joins the frames the writer has begun
to those the reader has finished, each item half of the frame it belongs to, the
writer owing the other half of the last (`Flow`). It holds for streams that are
whole (`Live`); a stream whose accepting side took a frame of `connect_to` for a
rank is not (`misframed`). `Introduced`: a connection of `new` starts with the rank
of its opener, and nothing of it is received before.

**`DataPathProofs`** holds four components.

* `DelayedScaling`: `TypeCorrect` and `Refinement`. `AgesAreSlots`: ages and slots
  correspond one to one, so an update moves every entry one age on and drops the
  oldest.
* `Fp8`: `CastTypeCorrect`, `OwnBlockScaled`, `RoundTrip`, `ToldOnceFits`,
  `CastRefinement`. The invariant is `HowCast`: a tensor was made of the slice at
  hand in one of four ways. What remains is about slices: the blocks joined are
  the slice (`BlocksJoin`), although the last may be short, and if it lacks fewer
  values than there are blocks, dividing the number of values by the number of
  scales, rounded up, gives back the size of the blocks (`DivisorOwn`).
* `Checkpoint`: `CheckpointTypeCorrect`, `SameOutputs`, `RecomputesLast`. Two facts
  about the state carry them: what the handles and the cache hold has not passed
  this stage yet (`FreshInputs`), and what is cached is what was saved last
  (`CacheIsLastSaved`). The rest is about sequences: however `Selective` cuts the
  layers, the two runs of layers joined are all of them (`RunsChain`).
* `GptExample`: `GptTypeCorrect`, `OnlyThePast`. The invariant `Past` says what each
  element of the hidden states has seen, after no block and after any other
  number. `reshape` keeps the place in the data, so what matters is one equation,
  `HeadPlaces`: feature `e` of head `h` and feature `h * d_head + e` of the row are
  the same place. With it a head holds what its row held, the mask leaves the
  scores of earlier positions, the product with the values joins those, and
  merging undoes the split. In the loss, the same arithmetic of places pairs a row
  of logits with the target of its position.

Some of these facts are about data of any length: a schedule built by loops
(`ScheduleIsBuilt`), a sum over the nodes of a torus (`DevicesNumbered`), blocks
joined (`BlocksJoin`), the least upper bound of an amax. The induction they need is
not the library's, which takes the predicate as a parameter, but `SetInduction`: a
set of numbers that has 0 and with each number the next has all of them. Each use
names the set of lengths for which the fact holds. Recursive functions are used through
their defining equation; no module that is proved about uses `RECURSIVE`.

Only model-checked: liveness (`Termination`, `CallsReturn`, `HandshakesAreFiled`,
`RunsThrough`), because liveness under fairness, and the `ENABLED` in it, are
beyond the prover; and most facts of the MC modules. Every safety property of a
passing run is proved.

## 6. Where the code and what it says differ

Each of the first two is a run that TLC must find violated.

* `onef1b_gradients`: 1F1B runs every backward on a gradient of ones
  (`onef1b.rs:97`). What the next stage sends is never received, so no stage but
  the last sees the gradient of the loss. GPipe chains them.
* `train_step_documented_caller`: `into_gradients` keeps the step counter. A
  caller that does what the comment in `training_loop` prescribes accumulates
  once; from then on every micro-batch completes a window (`step.rs:218`).
  `TrainStep` with `CallerResets` is the caller that also calls `reset()`.

One more is part of what a property says, instead of a run of its own:

* `accumulator.rs:14` says "Gradients are stored in FP32 (master) format regardless
  of their incoming precision". `drain_from` and `register` read a gradient with
  `to_vec::<f32>().unwrap_or_default()` (`accumulator.rs:123`, `:68`), and a
  gradient in another precision becomes an empty vector: it is lost without an
  error, its norm counts as zero in the overflow test, and if it is the first of its
  parameter in a window nothing can be added to the empty vector that is stored, so
  the later ones are lost too. A debug build panics at the first vector that is not
  as long as the one stored (`accumulator.rs:131`), after it has summed the
  parameters before. `EachOnce` says exactly which gradients are kept (`Kept`) and
  that no others are; if `Kept` were all the gradients a window has, the property
  would be what the comment says, and false.

Seen while modelling, in the models, but without a run of their own, since no
document promises otherwise:

* A slice that holds infinity is cast with the scale 0 (`quantize.rs:20`). Once it
  has crossed the wire, `amax` makes 0 of that scale (`fp8_tensor.rs:54`), and
  delayed scaling is not told of the infinity: `LostOnTheWire`. An amax below the
  smallest with a finite scale makes the scale infinite (`scaling.rs:39`):
  `Smallest`.
* The caller may reset the loss scaler in the middle of a window
  (`loss_scale.rs:57`), which then has gradients of two scales: `ResetScaler`,
  `rescaled`.
* 1F1B computes before it looks for the communicator it sends through
  (`onef1b.rs:87`, `:91`), so where there is none the call panics after the forward:
  `Panic`.
* `from_fp8` infers the size of the blocks from the numbers of values and scales
  (`quantize.rs:30`). A last block that lacks at least as many values as there are
  blocks makes it infer a smaller one, and values are divided by a scale of the
  next block. `NearlyFull`, in `RoundTripIfNearlyFull`, is the exact condition
  under which it does not happen.
* The strategy a runtime gets by default, `Delayed`, has a static loss scale of 1,
  which no overflow lowers (`runtime.rs:42`): `loss_scaler_from_config`.
* `build` compares neither the nodes of the topology nor the number of pipeline
  stages with the world size (`runtime.rs:164`).
* `log_interval` 0 passes `validate()` and makes `train_step` panic at the first
  optimizer step (`step.rs:163`): `pc = "dead"`.
* Two finite gradients can have a sum of infinite norm. `train_step` looks at the
  norm of the last micro-batch only. Clipping turns the sum into zero
  (`step.rs:129`): `Clipped`; without clipping the optimizer is given it, which is
  why `StepsAreBounded` then speaks of windows of one micro-batch.
* The loss scale doubles without a limit. From infinity no overflow brings it
  down (`loss_scale.rs:47`): `Halved`.
* `topology_aware_placement` puts stages in rank order, so the last node of a row
  is followed by the first of the next, two hops away on a torus of several rows.
* `connect_to` sends no rank, so the accepting side takes the length of its first
  frame for one (`tcp.rs:89`): `ReadRank`, `misframed`.
* `PipelineStage::backward` hands every layer the input of the stage, not of the
  layer (`stage.rs:103`); `Selective` checkpointing stores what `Full` stores.
* The mock collectives answer from the data of their caller alone, and cut a
  reduction in the middle of a word (`ScatterShares`).
* An odd number of discovered devices puts the last on a third NUMA node; a node
  with more devices than the first shares numbers with the next (`hybrid.rs:62`).
* `cast_gradients_to_e5m2` panics for all tensors of more than one value, and
  `fp8_to_burn` for nearly all of more than one dimension (`CastsKeepTheShape`,
  `FewNumbersFit`).
* A stage under a schedule with several micro-batches in flight could recompute
  only the newest of them: its cache has one place (`stage.rs:109`).

## 7. Assumptions and abstractions

* A matrix or tensor is where it came from. The values, and the rounding of FP8,
  are left out; an FP8 pass is counted.
* `OneF1B`: the branch that skips a stage whose schedule is over is left out: all
  schedules have `2 * num_microbatches` operations.
* `TrainStep`: the norms of the gradients of one window add up. A norm above
  `NormCap` is infinite. NaN behaves as infinity does in `train_step`. A gradient
  is in f32 or in another precision; those of one parameter in f32 have one length,
  as all come from one module. Where one in f32 is lost on an empty vector, the norm
  of the sum is any up to the sum of the norms. Whether `debug_assert_eq` is
  compiled in is the variable `debug_assertions`, which never changes.
* `NeighborExchange`, `P2PChannels`: a message is its sender and its call, which
  tells apart everything the properties speak of. The `RwLock` of the mock is
  held for one copy; the mutex of `p2p.rs` is a step of its own, because a panic
  may happen while it is held.
* `TcpMesh`: the caller knows only addresses of ranks whose `new` has returned
  (the port is not known before); at most one `connect_to` from a rank to
  another; no call to oneself; a reset connection loses what was not delivered.
  A future dropped between two halves of a frame, and an allocation failure on a
  garbage length, are not modelled. The run has two ranks: connections of
  different pairs meet only in the queue of the accept loop and of the mutex.
* `DelayedScaling`: amaxes are integers, NaN a negative one, which `f32::max`
  ignores as it ignores NaN. Callers do not write the public fields.
* `Fp8`: values are magnitudes, whole numbers, NaN a negative one. A cast value
  keeps its value and the scale; a scale is the magnitude it maps to the largest
  number of the format, so that two are compared exactly: the scale 0 is the
  magnitude `Infinity`, a scale beyond the range of f32 the magnitude 0. The maxima
  of the formats are those the tests expect, 416 and 49152 (`scaling.rs:95`, `:103`,
  `quantize.rs:209`). Rounding to an FP8 number is left out.
* `TrainStep`: a micro-batch's gradient of a parameter is its number, in the order
  of summation. A learning rate is a part of the configured one.
* `Checkpoint`: the caller is any: no code calls these operations, so any sequence
  of them is allowed, with every handle returned before.
* `Collectives`: a word has `WordBytes` bytes and `Modulus` values, 8 and 2^64 in
  the code, 2 and 16 in the run; what holds does not depend on which.
* `GptExample`: a number is the set of tokens and positions it was computed from;
  that a layer uses all it is given, and no weight is zero, is assumed. Dropout
  and activations act on single elements and are left out.
* Bounds of the models, each a constant: `MaxRuns`, `MaxMicrobatches`, `MaxMicro`,
  `MaxCalls`, `MaxHops`, and `MaxResets`, between how many micro-batches the caller
  resets the loss scaler. None is in the code. A torus node is equipped at the
  origin of the walk only.

## 8. Not modelled, and the plan

Not modelled: `discover_nvml`, which asks a driver behind a feature that is off;
`training_loop`, a scaffold that calls nothing of the crates; the fields of the
configuration nobody reads; the rounding of FP8, which is floating-point
arithmetic; the traits `Fp8Optimizer` and `PipelineModule`, which nothing
implements; a TCP future that is dropped half way through a frame; Burn itself.
`register` and `register_values` are operators compared with `drain_from`, not
steps of `TrainStep`, whose code does not call them.

What comes next, in this order:

1. As theorems, what the MC modules only evaluate of the collectives
   (`ScatterShares`, `MeanOfEqualWords`) and of the accumulator
   (`RegisterCountsParameters`).
2. A third rank in `TcpMesh`.
