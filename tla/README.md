# TLA+ models of WebKaya

WebKaya runs guest code in client-side sandboxes: a `Sandbox` keeps a state object, runs
guest code on clones of it through an executor (inline, Web Worker or QuickJS), records
every run, and can be snapshotted, forked, restored and replayed. Around it are eBPF
probes and policies, a virtual network, a two-tier memory, an orchestrator of agents,
LLM and Python helpers.

This directory holds the TLA+ modules, the TLC configurations and the TLAPS proofs about
that code. `PROJECT.json` lists the components, the runs, the line ranges each
definition stands for, the hazards, and one mutant per property: a plausible bug under
which TLC finds the property violated. The mutants stand in the modules, before the
definition they replace, marked `\* Mutant:`.

## Inventory

Paths are relative to `src/src/`. All of it runs on one JavaScript event loop per
thread: code between two `await`s is atomic, and everything else interleaves.

| Component | State it keeps | Operations | Talks to |
|---|---|---|---|
| `sandbox/sandbox.ts` Sandbox | `state`, `initialState`, `runLog`, `disposed` | run, snapshot, fork, restore, replay, attach/detachProbe, dispose | executor (await), store (await), probes (call) |
| `sandbox/executor.ts` InlineExecutor, `runtime/guest-invoker.ts`, `runtime/guest-exec.ts` | the invoker's `warmed`; per run: attempts, the shared `ctx.state` | execute | guest code in the same event loop |
| `sandbox/executor.ts` WorkerExecutor, `runtime/worker/*` | `transport`, `pending`, timers; in the worker: attempt, clone, timer | execute, hardReset, dispose; runGuestRequest | worker (messages) |
| `runtime/wasm/quickjs-executor.ts` | the loaded module | execute | QuickJS (synchronous) |
| `sandbox/snapshot-store.ts` Memory and OPFS stores | saved snapshots | save, load, list, remove | OPFS |
| `sandbox/probes.ts` ProbeRegistry | attached probes, in order | attach, detach, fire | eBPF VM |
| `ebpf/vm.ts`, `ebpf/asm.ts` | the decoded program; registers, stack | verify, run | maps |
| `ebpf/maps.ts` EbpfMap | u64 to u64, at most maxEntries | get, set, add, delete | |
| `net/fabric.ts` SandboxFabric | endpoints, next address, policy, two counters | join, leave, setPolicy, request | Sandbox.run, VM, maps |
| `net/load-balancer.ts`, `net/hooks.ts` | backends, program, static routes | handle, add/removeBackend, setProgram, serveStatic | fabric |
| `memory/tiered-memory.ts` | entries with expiry; one tier per sandbox, one shared | get, set, del, incr, expire, ttl, keys, flush; localFor, dropLocal | guests, orchestrator |
| `orchestration/blackboard.ts` | the board | runAgent, runPhase | Sandbox, memory tier |
| `runtime/policy.ts`, `types/policy.ts` | none | parse, normalise | |
| `llm/*` | conversation of an attempt loop | run | Sandbox, a model provider |
| `python/*` | one stdout buffer, Python globals | loadDataframe, run | Pyodide |
| `runtime/hardware-monitor.ts` | last sample, timer, observer | start, stop, tick | |
| `runtime/capability-detect.ts`, `runtime/backends.ts` | none | detect, select | browser |
| `../python/src/webkaya/*` | the same parts for servers | | Redis |

### What is hard, and what makes each part correct

* **Sandbox.** Nothing stops a client from overlapping calls. `run()` reads the state
  before an await and writes it after; `snapshot()` and `fork()` await the store;
  `dispose()` comes at any time. Correct means: a run is all or nothing, on the state it
  was given; the log, the state, the snapshots and what callers were told agree;
  snapshots are of one moment; every call settles; and a client that awaits its calls
  loses nothing, forks what it snapshotted, and can replay runs that are made where the
  replay makes them, inline.
* **Executors.** A timeout abandons a guest inline, kills an attempt in a worker, and a
  second timeout on the host kills the worker. Correct means: a run settles once,
  always; a success is the effect of exactly one execution; and a worker is killed only
  for a thread that is stuck or an answer that cannot come.
* **Stores.** A save is three awaits; a crash may come between them. What load() returns
  must be a snapshot that was saved whole, or nothing.
* **Probes and eBPF.** Admission stops at the first veto; errors fail open or closed. A
  verified program must not leave the stack, its context or its registers, nor run for
  ever.
* **Fabric and balancer.** A request is awaited while endpoints, backends and policy
  change. Every request is counted once; nothing is delivered against the policy; the
  balancer picks members of its pool and takes turns.
* **Memory and orchestrator.** Expiry is lazy and must not be observable. The agents of
  a phase are concurrent, and one that rejects lets the next phase begin while the
  others still run.
* **Python, monitor, policy.** One stdout buffer and overlapping calls; sessions that
  are started twice; two tables of bounds that have to agree.

`PROJECT.json`, under `hazards`, lists the places in the code, each with the properties
that cover it or the reason why none does.

## Modules

```
GuestState              what guest code makes of the state
  GuestStateProofs      lemmas about it
  Executor              abstract: one outcome per request, all or nothing
    Sandbox             sandbox.ts, composed with the abstract executor
      SandboxProofs     theorems
      MCSandbox
  InlineExecutor        implements Executor for runs without retries
    InlineExecutorProofs
    MCInlineExecutor
  WorkerExecutor        implements Executor
    WorkerExecutorProofs
    MCWorkerExecutor
EbpfMap                 operators on a map's contents
  Fabric                endpoints, policy, counters and requests
    LoadBalancer        the balancer and its clients, over the fabric
      LoadBalancerProofs
      MCLoadBalancer
  Ebpf                  instructions, arithmetic and the verifier, as operators
    EbpfVm              the interpreter, one instruction a step
      Probes            attach, detach and fire, over the interpreter
        ProbesProofs
        MCProbes
KVStore                 values and bounds of a key-value store
  ExpiringTier          abstract: entries are gone when they expire
  MemoryTier            implements ExpiringTier with lazy expiry
    MemoryTierProofs
TieredMemory            the tiers by id and the sandboxes bound to them
QuickJsExecutor         how a run in QuickJS may end
  Orchestrator          phases of agents over a board
OpfsStore               snapshot files, over failures and reloads
DataAgent               Python runs that share one stdout buffer
HardwareMonitor         sessions, their timers and observers
Policy                  normalise, validate, compile
  HostPage              MemoryTier .. Policy, one of them in each behaviour
    HostPageProofs
    MCHostPage
```

**GuestState.** The state object is the sequence of the mutations made to it. The guest
of run `r` makes `Steps` mutations; the k-th leaves the mark `<<r, k>>`. Lost, partial
and repeated updates all show in the sequence, which is all the properties ask of the
state.

**Executor.** `request[r]` and `outcome[r]`. A request settles once, to the whole effect
of its code on the state it was given, to a failure, or (`MayThrow`) to a rejection;
several requests may fail together. The state of a failed outcome is left out: the
sandbox does not read it, and the executors differ (the request's state, the mutated
object, or `{}` after hardReset).

**Sandbox.** An async method is cut at each await into the segments the event loop runs
without interruption:

| Code | Actions |
|---|---|
| run(), call to first await | `CallDisposed`, `Deny`, `Misfit`, `Start` |
| the executor's promise | `Execute` |
| run(), after the await | `ResumeOk` (with `AutoSnapshot`), `ResumeFailed`, `ResumeRejected` |
| snapshot(), and the first half of fork() | `Snapshot` |
| store.save() settling, with the run or fork that awaited it | `SaveDone`, `SaveFails` |
| restore() | `Restore` |
| replay(): call, one iteration, return | `ReplayStart`, `ReplayRun`, `ReplayEnd` |
| dispose() | `Dispose` |

`Kinds` says what the clients' code does: complete, throw, either, fail the token scan,
meet a probe's veto, come with a memory estimate that `BigInt()` refuses or that is
above the budget, leave in the state what `structuredClone` refuses, throw unless it
finds what an attempt before it left, or never yield. How some of these end depends on
where they run, which is `Runtime`: inline all attempts share the state object and no
message has to carry it, QuickJS does not read the estimate, and only a worker or
QuickJS ends a loop. `CompletesIn` and `BreaksIn` say which. `past` is a ghost:
`past[i + 1]` is the state the sandbox had when its log had `i` records, and no action's
guard reads it. Ids are positions. `index[r]` is `runIndex`, which the code gives to the
probes and the run's default name; the record carries it here so that a property can say
which state a run started from. `Overlap` lets clients overlap calls; without it each
client call is made when the ones before have settled.

A sandbox replays inside a sandbox of its own that nothing else can reach, so one
iteration of the loop is one step. `replay()` hands that sandbox neither the probes nor
the runtime of the original: whatever `Runtime` is, `ReplayRun` ends as code ends
inline, and does not return from a guest that loops. Memory tiers are shared with the
replay, and are not modelled: the kind `flaky` stands for guests that depend on them.

**InlineExecutor.** `object[r]` is the one state object that `ctx`, every attempt and
the outcome share. Each attempt has a guest and the promise of `runWithTimeout`; the
timer rejects the promise and leaves the guest running. Guests may run on while a later
attempt runs and after the run returned. A guest is taken to await all it starts: it
does not mutate the state after its own promise settled.

**WorkerExecutor.** Two event loops. The host has `pending`, the hard-limit timers and
the live transport; the worker has its jobs, each with an attempt, a clone and a timer.
Replies travel in any order, and die with their worker. A guest that never yields wedges
its worker. Time is ticks: a timer that is used up is due, and fires whenever its loop
comes to it; `late` is a ghost that records that time was let pass while some loop had
work to do, so that a property can speak of machines that are not late.

**EbpfMap, Fabric, LoadBalancer.** A map's contents are a function from keys to values;
`set` and `add` wrap values and refuse a new key of a full map. A policy program is the
set of hops it drops, a fault counting as a drop. `request()` is cut at its one await,
of the destination's `run()`: `Request` (with its exits `NotFound`, `Denied`,
`Deliver`), then `Complete`, or `Break` when `run()` rejects, as `sandbox_throws` shows
it may. `handle()` awaits nothing before that, so `RoundRobin` and `ByHash` pick a
backend and make its request in one step. `firstAt` and `turns` are ghosts. The
sandboxes' own runs are not composed in: of them the fabric sees ok, failed or rejected,
and any of these may come at any time.

**Ebpf, EbpfVm, Probes.** `Ebpf` has powers and the value of a row of digits
(`Power`, `Number`), the instructions as the decoder leaves them (class,
operation, registers, offset, immediate), the arithmetic of 64 and 32 bits and the
verifier, check by check. `EbpfVm` takes one instruction a
step, with one action for each arm of the interpreter's `switch`; `Stop` is a return or
a fault, and `vm.steps` is what `maxInstructions` bounds, which `Clamped` keeps in
`1..MaxInstructions`. The widths are scaled: a byte
has `ByteBits` bits, a word eight bytes, and signs, shifts and wrap-around follow from
them. `Probes` keeps the attached probes as a set of records whose ids give their order
(`probeCounter` only grows, so it is that of the list); `firing`, with the tracepoint,
the probes asked so far and the verdict; and `todo`, what is left of the
copy `filter()` made. `fire()` is synchronous except that it calls `onLog`, in which the
host may attach and detach: a run waits in the status `tracing`, and after a fault,
while the host does so. A host whose `onLog` throws or calls `fire()` again is not
modelled.

**KVStore, ExpiringTier, MemoryTier.** `data[k]` is an entry that may have expired;
`Live(k, t)` is `live()`. Every operation is synchronous, and reads the clock once or
twice as the code does, so that the clock may move inside a call. `ExpiringTier` has the
same operations on entries that vanish when their time comes; the refinement mapping
hides the entries that are over. `del()` of such an entry may answer as if it had
been there: the abstract tier leaves that answer open, and nothing else. A `set` without a
positive time to live never expires, while `expire` with none ends the entry at once:
both tiers say so.

**TieredMemory.** `locals[id]` and the tiers made so far; `Bind` is `bindingFor()` by
way of `localFor()`, and a tier is the set of the sandboxes that wrote to it.

**QuickJsExecutor, Orchestrator.** `modulePromise` is the code's: loading starts with
the first run, and a rejected promise is kept. `runAgent` is cut at its awaits:
`StartPhase` takes the snapshots of all agents of a phase, `Created` follows
`Sandbox.create()`, `NotCreated` its rejection when the orchestrator's options hold a
limit that is no number (`Runtimes` may contain "invalid"), which all agents then meet.
When the run ends the writes are applied (`Apply`) and the
sandbox is disposed (`End`), in one step. A phase resolves when all agents did and
rejects with the first that does, whatever the others are doing. In wasm an undefined or
cyclic value has been through JSON before the host sees it; from a worker it may be one
that `JSON.stringify` refuses, which ends the loop half way.

**OpfsStore.** `save()` is cut into `Create`, `Open` and `Close`, each of which may
fail; `Reload` loses what is under way and keeps the files. `Read` is one iteration of
`list()`. The file system is external, and follows the File System standard: `close()`
puts the new contents in place at once, and a file being written cannot be removed.

**DataAgent.** `ask()` plans (an await), then `PythonRunner.run()` resets the buffer and
awaits the interpreter, and a failed attempt plans again. **HardwareMonitor.** `start()`
stops the session before, keeps the counters, and samples at once; a sample may find the
activity idle, or call an `onUpdate` that throws. **Policy.** A policy is one numeric
field here, in each of the two modes; the two tables of bounds are the code's.

**HostPage.** These parts share nothing, so a behaviour picks one (`part`) and the
others stand still: one run costs the sum of the parts and not their product.

## Runs

All are exhaustive. `CHECK_DEADLOCK FALSE` throughout, because a sandbox whose clients
have made all their calls really stops.

| Run | Instance | Shows |
|---|---|---|
| `sandbox_overlap` | a worker sandbox, 3 runs that complete, fail, are vetoed or have an unfit estimate, over an executor that may reject, cadence 2, 1 client or fork snapshot (so up to 3 in all), overlapping calls | types, `RunsOnRecordedHistory`, `SnapshotMatchesHistory`, `RecordedAsReturned`, `DurableOnReturn`, `ForkNotOlderThanParent`, `ClosedForGood` |
| `sandbox_serial` | an inline sandbox, 3 runs: pure, throwing, failing the token scan, with an unfit estimate, poisoning the state; execute() may reject; saves may fail | `NoLostUpdate`, `ReplayReproduces`, and that every run settles |
| `sandbox_throws` | 2 runs, cadence 1 | violated: a run rejects after it was committed and logged |
| `sandbox_veto` | 2 runs, one vetoed | violated: its replay succeeds |
| `inline` | a run without retries and one with one retry, 2 mutations each | `Implements` (the contract, liveness included), `AtLeastOnce` |
| `inline_retry` | the same | violated: a retry starts on a half mutated state |
| `worker` | 2 runs, 2 mutations, 1 retry, timeout 1, grace 2, cold start 1 | `Implements`, `BooksAgree`, `FirstAttemptKeepsItsTime` |
| `worker_retry` | 2 runs, 1 retry, grace 1, no cold start | violated: a retrying run is killed by the hard limit |
| `fabric` | 3 requests, 2 sandboxes, 2 addresses, a policy besides none, round robin and hash, maps of 1 key and 1-bit values | types, `CountersExact`, `AddressKeepsItsBox`, `TakesTurns` |
| `probes` | every program of up to 3 of 22 instructions that verify and an exit, or of up to 2 of these and of 14 others; every operation and condition of both widths; 56 menus of 3 probes each, 2 calls of `fire()`; 1-bit bytes, 8-bit words, at most 5 steps | types, `StaysInProgram`, `RunsOnTheEvent`, `FiresAsAttached`, `ObserversRunUnlessOneVetoes`, `EveryFireReturns` |
| `probes_registers` | jumps, stores and loads | violated: a verified program names r12 |
| `page` | 2 keys, 1 time to live and clock 2; 3 owners and 2 ids; phases of 2, 1 and 1 agents, 2 keys, QuickJS, worker and options that are refused; 3 saves and 2 ids; 2 asks of 2 attempts and 2 lines; 3 sessions and 3 operations; each bound of a policy field and 2 halves around it | `ExpiresAtOnce`; `LocalTierIsShared`; `SeesEarlierPhases`, `StragglersAreOfBrokenPhases`, `WritesAreReported`, `BoxesAreDisposed`, `PhasesEnd`; `SavedIsThere`, `ListFindsThemAll`; `StdoutIsOfTheAttempt`; `OneSessionAtATime`, `NoOperationTwice`; `EveryPolicyResolves` |

Bounds and why they suffice. Three runs are the fewest that let one run start, another
commit and a third read the result, and that put a failed run between two commits; two
are needed for the executors, whose runs meet only in the worker they share. Cadence 2
makes some commits due and others not. One mutation is enough where the executor is
abstract (it is all or nothing there); two are used where half a run must show.
`MaxSnapshots` bounds only what clients ask for, in a guard: auto-snapshots are bounded
by the runs. Grace 2 and cold start 1 satisfy the hypothesis of
`FirstAttemptKeepsItsTime`. Runs are interchangeable, so `MCSandbox` declares symmetry
for the runs without liveness properties. In `fabric` the maps are as small as they can
be, so that two requests fill a map, meet a full one and wrap a counter; `MaxAddress`,
the number of joins, is a bound of the models, as is the number of requests, and three
of them go once round a pool of two and start again. Clients send along one hop, which
the policy may drop, as may one of the balancer's; the balancer sends to any backend.
`TakesTurns` speaks of the turns between two changes of the pool or the program; a
balancing program that faults is not in the instance.

In `probes` 8-bit words have what wide ones have: a sign, a carry, shifts by more than
the width (which the code reduces) and addresses above and below the context and the
stack. Three instructions and an exit are enough for a loop, for a jump over an `lddw`,
for a store before a load and for each helper after its arguments; five steps end some
programs and stop others. Three probes are the fewest of which the middle one can veto,
or be detached by the `onLog` of the first. In `page` three sessions let one be started
over another that was started over a third; three saves of two ids let one overwrite,
and one fail beside, what the first returned; three phases let the second begin while an
agent of the first runs, and the third read what that one wrote late.

Fairness. Of the event loop: a promise that has settled resumes whoever awaits it,
timers fire, a replay goes on (`Fairness` in Sandbox). That executors settle is an
assumption of Sandbox and a conclusion about the executors, where it rests on their
timers alone (`WF` of the timers and of time); no guest is ever obliged to do anything.
Inline this holds for guests that yield: a guest that blocks the host's event loop
blocks the timer with it, as the comment on `InlineExecutor` says. That saves settle is
assumed of the store. `fire()` is synchronous, so its steps are taken, and the host
returns from `onLog` (`Probes`). In the orchestrator, the module's import settles, and
`create()` and `run()` settle as the executors' do (`OrchFairness`): in QuickJS by its
interrupt handler, in a worker by the hard limit. Clients owe nothing.

## What the checks show

However calls overlap, a run is all or nothing on the state its index names, snapshots
are of one moment, and log, callers and store agree. A client that awaits its calls
loses no update, and can replay what ran inline. Both executors settle every run once;
the worker executor keeps the contract with retries too. The fabric counts every
answered request once, and a request that holds an old address reaches the sandbox that
had it or none; round robin takes turns for as long as the pool stays. A verified
program stays in its code, its stack and its context, and ends; a run is admitted as the
probes attached when it was asked for say. A tier's lazy expiry cannot be observed but
by `del()`. What a phase reads is what the phases before it wrote, as long as none of
them rejected; a snapshot that was saved is there after reloads and failed saves of the
same id; and what a policy editor holds never makes the bounds refuse it.

Five statements of the repository are not what the code does, and a run shows each:

1. `RunNeverThrows`: `sandbox.ts:214-217` says failures are returned, never thrown.
   `run()` awaits the auto-snapshot outside any `try`: a failed save, or a `dispose()`
   during the run, rejects the promise of a run that was committed and logged as ok.
2. `ReplayReproduces` with a veto: `sandbox.ts:341-344` and `README.md:255` call the log
   of attempts, probe vetoes included, replayable. `replay()` attaches no probes, so a
   vetoed run is executed and changes the replayed state.
3. `OutcomeIsOneExecution`: `llm/code-agent.ts:39` tells the model that mutations are
   committed only if its code completes. Inline, all attempts of a run share one state
   object, so a success after a retry commits the failed attempt's mutations as well.
   (`CodeAgent` itself sets no retries; the statement is about guests in general.)
4. `RetriesKeepTheirTime`: `executor.ts:130-131` has the hard limit for wedged threads,
   and `types/policy.ts:13` promises retries after a timed-out invocation. The limit is
   one timeout and a second, so it expires on a worker that is merely retrying, and
   fails every run pending on it.
5. `RegistersExist`: `ebpf/vm.ts:129` lists register bounds among the static checks. The
   destination of a jump and of a store is not checked, so that r11 to r15 pass there,
   and fault when the program runs. The fault is caught by `fire()`, so that all it does
   is veto where the probe fails closed. (`StaysInProgram` and `RunsOnTheEvent` hold
   with it.)

Four more have no run of their own. What the code does is in the model, and for three of
them a theorem says that nothing else breaks the statement:

* `README.md:300` calls replay reproducible for guests that only transform their state,
  and `sandbox.ts:344` offers it for verifying that behaviour is. `replay()` drops the
  runtime, so that the runs of a worker or QuickJS sandbox are replayed inline. Code
  that throws unless it finds a mark in the state, which it sets before it throws, fails
  in a worker (each attempt has a clone) and succeeds inline on its retry (the attempts
  share the object). `ReplayReproduces` is violated by this too: `MCSandbox_veto.cfg`
  with `Runtime = "worker"` and `Kinds = {"pure", "retried"}` is the instance. It is
  checked and proved for runs that are made where they are replayed.
* `probes.ts:69` has every attached probe run, and `sandbox.ts:200-202` says that away
  from run:start probes observe and return values are ignored. `fire()` returns at the
  first nonzero value whatever the tracepoint, so that at run:end, snapshot and log one
  observer that returns nonzero silently keeps the later ones from the event.
  `FiresAsAttached` is therefore stated of run:start, where stopping is the veto;
  `ObserversRunUnlessOneVetoes` is what holds everywhere.
* `blackboard.ts:17` has phases run in order. `Promise.all()` rejects with the first
  agent that does and waits for no other, so that a host that goes on runs its next
  phase while agents of the rejected one work and write to the board.
  `StragglersAreOfBrokenPhases` says that this is the only way.
* `types/policy.ts:21` has a snapshot every N successful runs. The cadence counts failed
  runs too, and is looked at after successes only, so that a failure on the multiple
  leaves the successes around it unsaved (`Due` and `AutoSnapshot` model the code;
  `DurableOnReturn` speaks of the multiples the code counts).

Smaller ones, without a run:

* A replay of a run that a worker or QuickJS had to end, because its guest looped, loops
  inline and never returns; it blocks the page's event loop. A fork made while runs
  overlap may be newer than the snapshot it names (`ForkNotOlderThanParent` is what does
  hold). A run whose estimate is NaN, or whose worker cannot be spawned, rejects without
  a record. The failed outcome's state is not always "the input on failure"
  (`executor.ts:20`). A run in flight over `dispose()` commits to the disposed sandbox.
* After a phase that rejected, what `SeesEarlierPhases` says is only that a read is of
  an earlier phase. An agent in a worker that rejects over a write that JSON cannot hold
  has made the writes before it, and reports none (`WritesAreReported` allows it there).
  A write of `undefined` is stored as that word.
* `quickjs-executor.ts:42` calls its wrapper the inline and worker contract; it does not
  await a guest that is `async`.
* `load()` and `list()` take an empty file for none; a file whose `createWritable()`
  succeeded and whose contents cannot be turned into JSON stays open for writing, and
  `remove()` of it fails silently.
* An `onUpdate` or `onEvent` that throws reaches the timer or the agent that called it;
  an `onEvent` that throws before `create()` rejects the agent.
* A `maxInstructions` of NaN passes the clamp of `vm.ts:177` and bounds nothing.
* A policy whose code returns an explicit `undefined` gets the default of that field and
  not the template's value.

## Proofs

Seven modules hold theorems; `GuestStateProofs` has lemmas that two of them share. Each
theorem is for every value of the constants, from the assumptions named in the modules
that declare them, and every safety property of a passing run is one of them. A run in
brackets is the one on whose instance the inductive invariant was model-checked before
it was proved. For each of the five statements that a run refutes, a theorem says under
which condition on the constants it holds, so that the run and the theorem together are
what can be said of it; for two more, a theorem says what alone can break them:

| Statement | Holds when | Theorem |
|---|---|---|
| `RunNeverThrows` | no auto-snapshots, an executor that does not throw, estimates that are numbers | `RunsReturnWithoutCadence` |
| `ReplayReproduces` | clients await each call, code depends on its state alone, no vetoes, and it runs inline or ends inline as it did where it ran | `ReplayIsFaithful` |
| `OutcomeIsOneExecution` | no retries | `WithoutRetriesOneExecution` |
| `RetriesKeepTheirTime` | the grace covers the cold start and one timeout per retry | `RetriesThatFitKeepTheirTime` |
| `RegistersExist` | no jump and no store names r11 to r15 | `RegistersExistIfChecked` |
| every probe attached sees the event | no probe that was called vetoes | `ObserversMissNoEvent` |
| phases run in order | no agent rejects | `OnlyRejectionsBreakTheOrder` |

Two of the assumptions say what a proof needs and the model took for granted:
`SavesAssumption` (a save is neither "none" nor "empty") and `NoneAssumption` (no
verdict is no id). `RuntimeAssumption` excludes guests that loop from an inline sandbox,
where they stop everything. Seven give constants their types: `RunsAssumption`,
`CallsAssumption` (finitely many), `HalvesAssumption`, `PhasesAssumption`,
`MapCountAssumption`, `FieldsAssumption`, `MaxInstructionsAssumption`. Some theorems
have a hypothesis on the constants that the code leaves to its user, `~Overlap`,
`Deterministic`, `ReplaysWhereItRan`, `CounterFits`, `NothingThrows`, `NoRetries`,
`RetriesFit` or `DestinationsExist`, explained where it occurs. Recursion is kept out
where it can be: histories grow at the end, queues are sets ordered by id, sums are
counted by cardinality. The two functions that are recursive, the power and the value of
a row of digits, are unfolded in ProbesProofs.

**SandboxProofs**: any set of runs, any cadence, any kinds of code.

* `TypeCorrect` (`[]TypeOK`), `DisposeIsFinal` (`ClosedForGood`).
* `HistoryInvariant`, and from it `RunsAreAtomic` (`[]RunsOnRecordedHistory`) and
  `SnapshotsAreConsistent` (`[]SnapshotMatchesHistory`).
* `LogInvariant` [sandbox_overlap], and from it `CallersAreToldTheLog`
  (`[]RecordedAsReturned`), `ReturnedIsDurable` (`[]DurableOnReturn`) and
  `ForksAreNotOlder` (`[]ForkNotOlderThanParent`).
* With `~Overlap`, clients that await each call: `SerialInvariant` [sandbox_serial],
  `AwaitedRunsAreNotLost` (`[]NoLostUpdate`), `AwaitedForksMatch`
  (`[]ForkMatchesParent`). With `Deterministic` and `ReplaysWhereItRan` as well:
  `ReplayIsFaithful` (`[]ReplayReproduces`).
* `WaitInvariant` [sandbox_overlap], and from it `NoRunWaitsInVain`
  (`[]WaitsForSomething`) and `CallsGoForward` (`[][GoesForward(r)]`, for every run).
* With `NothingThrows`: `RunsReturnWithoutCadence` (`[]RunNeverThrows`).

`RunsOnRecordedHistory` is not inductive: it says nothing of a run that has not been
recorded. `HistoryInv` adds what carries it there: the state is the latest of the
history unless it was disposed (`StateIsLatest`); a record's index lies before it, so
that growing the history cannot change what it names (`RecordsPointBack`); and an
executing run was given the state its index names, which the executor's outcome is the
effect on (`RequestsFromHistory`). The proof has one step per action. Actions that
record nothing share a step; those that do (`Deny`, `ResumeFailed`, `ResumeOk`) rest on
`FinishKeepsLog`, `PastKeepsSnapshots` and `PastKeepsRequests`, which rest on
`HistoryGrows`: appending leaves what was there in place.

`LogInv` adds what the calls know of the log. `DurableOnReturn` needs that a run that
waits in `maybeAutoSnapshot()` has its snapshot captured already and that no later
record moves its run count (`CadenceIsSaved`, `AutosAreOfSuccesses`); the proof has a
step for each of the four ways a record comes about and one for the save that settles.
`SerialInv` adds that one run is under way at most, with the latest state as its input
(`OneRunAtATime`), and that no run executes and the state stays while a fork waits for
its save (`ForksWait`): where calls overlap neither is true, which is why `~Overlap` is
a hypothesis and the properties are not checked in `sandbox_overlap`. `Deterministic`
excludes the kinds "flaky" and "denied": a replay has no probes, and code that depends
on more than its state may end another way. `ReplaysWhereItRan` says that the sandbox is
inline, or that no code of its clients ends otherwise inline than where it ran: without
it code that fails in a worker and succeeds on its retry inline is a counterexample
(`EndsAlike` is what follows from it). `RecordsAreDetermined` then says that a record's
ok is a function of its code and of the state before it, and `EffectMarks` that a run's
marks are new in that state.

`WaitInv` is what `EveryRunSettles` rests on, without the fairness. An executing run was
handed to the executor, with code that can end (`RunsAreExecuting`). Runs that wait in
`maybeAutoSnapshot()` and auto-snapshots whose save is under way are the same, one to one
(`AutosAreAwaited`): two of them never have one run count, because a run adds its
record before it takes its snapshot. So a run in flight can always be taken on, by the
executor or by the save it awaits; and `CallsGoForward` bounds how often: no run takes
more than two steps from its call to its answer, and none after it. `NothingThrows` has
three conditions, one for each way a rejection comes about; cadence 0 is the default of
the policy (`runtime/policy.ts:34`).

**WorkerExecutorProofs**: any finite set of runs, retries, timeouts, grace and cold start.

* `WorkerInvariant`, and from it `BooksAlwaysAgree` (`[]BooksAgree`) and
  `WorkerImplements`: the safety part of `Implements`, that is, `ExecInit` and
  `[][ExecNext]`.
* `WorkerTypes` (`[]TypeOK`).
* `TimedInvariant` [worker], and from it `FirstAttemptsKeepTheirTime`
  (`[]FirstAttemptKeepsItsTime`).
* With `RetriesFit`: `RetriesThatFitKeepTheirTime` (`[]RetriesKeepTheirTime`).

The inductive invariant `WorkerInv` has three parts: the host's variables are functions
of the runs (`HostInv`); an unsettled run has its timer and, before `dispose()`, its
entry and the live worker (`BooksInv`); and in the worker, a job's clone is the
requested state with the mutations its current attempt made (`Partly`), while an ok
reply carries their whole effect (`GuestInv`). That last part is what the refinement
needs: a reply that settles a run is the abstract `Succeed` or `Fail`, `HardTimeout` is
`FailTogether` of all that was pending, a worker that cannot be spawned is `Refuse`, and
everything else is a stutter.

`TypeOK` bounds the workers by the number of runs, so its invariant counts: each spawn
is on behalf of a run that had not been made. `TimeInv` is an inequality between two
clocks in each stage of a job: before the cold start the hard limit is untouched; during
it, it has `HardLimit - ColdStart` more than the cold start has left; during the n-th
attempt it has, with the `(n - 1) * Timeout` that the attempts before may have spent,
`Grace - ColdStart` more than the attempt has left; an answer has been posted before the
limit is due. For the first attempt that is positive by the hypothesis of the property
itself. For the others it is where `RetriesFit`, that is, where `ColdStart + RetryCount *
Timeout < Grace`, and where not, the invariant says nothing of them (`Excused`), which
is what `worker_retry` shows. The code's grace is a constant second, so that retries
fit when the cold start and their timeouts add up to less than that.

**InlineExecutorProofs**: any runs, retried or not.

* `InlineInvariant` and `InlineImplements`: the safety part of `Implements`, for the
  runs that are not retried.
* `RetryInvariant` [inline], `InlineTypes` (`[]TypeOK`) and `SuccessIsAtLeastOnce`
  (`[]AtLeastOnce`), with retries.
* With `NoRetries`: `WithoutRetriesOneExecution` (`[]OutcomeIsOneExecution`).

For runs that are not retried, `SingleOK` says that there is one attempt at most, that
the shared state object is the requested state with what that attempt's guest did to it,
and that a promise which resolved is that of a guest that is over. Without the last the
outcome's state could still change after it was given. Where there are retries neither
holds, which is `inline_retry`; the theorem shows that such runs do not disturb the
others.
What holds with retries is a count: a mark occurs in the object as often as there are
attempts whose guest is past it (`AttemptsOK`), an attempt that was abandoned and runs on
included. `OneMoreTime` is how appending a mark changes that count.

**LoadBalancerProofs**: any sandboxes, finite set of calls
(`CallsAssumption`), widths and capacities.

* `AddressesAreForGood`: `[]AddressKeepsItsBox`, from the invariant that addresses given
  out lie below the next one and that a call under way holds the sandbox first found at
  its address.
* `CountersAreExact`: `[]CountersExact`. A step adds one call to one of the counted sets
  and one to one counter; `WrapsOnce` is the modular step, and `AddCounts` that a map
  with no room counts nothing for a new key and everything for an old one.
* `BalancerTypes` (`[]TypeOK`). With `CounterFits`: `TurnsInvariant` [fabric] and
  `RoundRobinTakesTurns` (`[]TakesTurns`).

`TurnsInv` ties the turns since the pool last changed to consecutive values of a count
that the map holds modulo its width, so that equal turns are equal counts modulo the
pool. `CounterFits` is what this rests on and the code does not check: the map has room
for the counter, and the counter does not wrap within the requests made, or wraps by
whole rounds (every pool size divides the width). With 64 bits the former is true of any
run that ends. Where neither is, one turn is skipped or repeated at the wrap.

**ProbesProofs**: any programs, menus, events, budgets, maps and widths, and any host.

* `InvHolds`, and from it `ProgramsStayInside` (`[]StaysInProgram`) and
  `ProbesSeeTheEvent` (`[]RunsOnTheEvent`).
* `FireInvariant` [probes], and from it `FireCallsInOrder` (`[]CalledInOrder`: at every
  tracepoint, up to the first veto), `FiresInOrder` (`[]FiresAsAttached`: at run:start)
  and `ObserversMissNoEvent` (`[]ObserversRunUnlessOneVetoes`).
* `UseInvariant` [probes], `MapsKeepTheirRoom` and `FireNearsItsReturn`.
* `WordsAreWords` (`[]TypeOK`). With `DestinationsExist`: `RegistersExistIfChecked`
  (`[]RegistersExist`).

`ProbesInv` says that what is attached, queued or loaded passed the verifier, and that
the run stands at a position that can be reached: inside the program and on no second
slot of an `lddw`. `Checked` unfolds the verifier once for the instruction the run
stands at; the steps then show that falling through, jumping and returning from a call
end at such a position again, and that no instruction it lets through writes r10 or the
context. `FirstIsFirst` gives the least id of a set of probes. `FireInv` says that those
called and those to come are the roster `fire()` began with, the former before the
latter, whatever the host attached or detached since: ids are never reused
(`IdsAreUnique`).

`FireNearsItsReturn` is the ranking that `EveryFireReturns` rests on, as an action
property: each step of a run lowers `StepsLeft`, a natural number, and each run that ends
ends the call or leaves it fewer probes; the host inside `onLog` leaves both alone. That
such a step is taken is the fairness TLC checks the liveness property with. In the
invariant, `StepsOK` says that the host is only asked to trace within the budget.

`WordsAreWords` says that registers and maps hold unsigned words, and the stack and the
event bytes, whatever a program computes: a result that was not wrapped would break it.
The widths are powers with a symbolic exponent and the value of several bytes is a
recursive sum, of which the provers know nothing and for which the library's induction
cannot be cited. `InductionOverSet` is induction over a set rather than a predicate,
from the well-foundedness of `<`; `Recursion` builds the function that a recursive
definition chooses, and `Powers`, `Numbers` and `PowersAddUp` are what follows: digits
below the base make a number below its power. `RegistersInv` carries the missing check
of `probes_registers` from the menus to what is attached, queued and running; the
verifier does the rest, source registers and the destinations of all other instructions.

**MemoryTierProofs**: any keys, texts, times to live (negative ones too) and clock.

* `TierImplements`: `TierSpec => ExpiresAtOnce`, the whole refinement, since the
  abstract tier has no liveness. One lemma per operation shows that the contents left
  after hiding what is over are those the abstract operation makes. No invariant is
  needed beyond the types: a deleted entry and one that is over look the same.

**HostPageProofs**: any sandboxes, files, sessions, overrides, asks and phases of agents.
`PartSteps` says that a step of the page is a step of each part or leaves it alone, so
that what is proved of a part from its own Init and Next holds of the page. The
invariants were checked on `page`.

* `PageExpiresAtOnce` (`ExpiresAtOnce`): `TierImplements`, of the page.
* `LocalTiersAreShared` (`[]LocalTierIsShared`), by `MemInv`: two bindings name one tier
  exactly when they are of one id with as many drops before them, and the tier that an id
  has now is that of the bindings since its last drop.
* `StoreInvariant`, `SavedStaysThere` (`[]SavedIsThere`), `ListIsComplete`
  (`[]ListFindsThemAll`): a save that moves on without closing its file touches no other;
  and each snapshot that `list()` owes is found or has still to be read.
* `MonitorInvariant`, `OneSessionRuns` (`[]OneSessionAtATime`),
  `OperationsAreReportedOnce` (`[]NoOperationTwice`).
* `PoliciesResolve` (`[]EveryPolicyResolves`): both tables of bounds are expanded, field
  by field, so a bound changed in one of them breaks the proof.
* `StdoutIsOwn` (`[]StdoutIsOfTheAttempt`), by `AskInv`: a run that has met no other is
  the only one, and the buffer holds its lines and no others.
* `OrchInvariant`, `PhasesReadInOrder` (`[]SeesEarlierPhases`), `ReportsAreTrue`
  (`[]WritesAreReported`). `SeesEarlierPhases` is about agents that have read;
  `BoardIsLatest` and `ReadsAreLatest` carry it from the board, which has the latest
  writes while no agent rejected, to what is read there when the next phase begins. After
  a phase that was left early, agents of it write over later ones, and what remains is
  that a read is of an earlier phase.
* `OnlyRejectionsBreakTheOrder` (`[]StragglersAreOfBrokenPhases`): an agent that works
  while a later phase runs is of a phase in which another agent rejected.
* `NoPhaseWaitsInVain` (`[]NothingIsAwaitedInVain`) and `AgentsGoOnward`
  (`[][GoesOnward]`), by `BoxInv`: the sandboxes are those of the running agents, and
  QuickJS is asked for before a run waits for it. This is what `PhasesEnd` and
  `BoxesAreDisposed` rest on, without the fairness.

Only model-checked:

* Liveness: `EveryRunSettles`, `Implements` as far as it promises settling,
  `EveryFireReturns`, `PhasesEnd`, `BoxesAreDisposed`, and everything about fairness and
  ENABLED, which the prover does not take on. For all but the executors' the two facts
  behind them are proved: that what is waited for is there (`NoRunWaitsInVain`,
  `NoPhaseWaitsInVain`; for probes it is the run itself) and that steps lead to an end
  (`CallsGoForward`, `AgentsGoOnward`, `FireNearsItsReturn`).
* That the refinements keep the abstract executor's fairness.

## Not modelled, and the plan

Left out for good: the assembler and the decoding of bytes into instructions, capability
detection, the choice of backend, the model provider's network calls, Pyodide's loading,
demos, log lines and timing data.

Left out so far, and what it would take, in the order of its worth:

1. Guests that leave callbacks behind and mutate the state object after they returned.
   It needs the identity of that object in `Sandbox`, which commits the object itself
   when the executor is inline.
2. Probes composed with the sandbox and with the fabric's policies. Both see a verdict
   only, which `Probes` shows to be that of the probes attached; composing them would
   show what a probe that counts runs in a map sees of overlapping ones.
3. `LoopbackTransport`, the worker transport without a thread, whose `terminate()` drops
   answers and does not stop guests.
4. A host whose `onLog`, `onEvent` or `onUpdate` throws, and one that calls `fire()`
   inside `onLog`.
5. `CodeAgent` over `Sandbox`: a client that awaits each call, which `sandbox_serial`
   covers in all but its prompts. `loadDataframe`, whose CSV text goes through one
   global name that overlapping calls share (`pyodide-runner.ts:66`).
6. The Python port, compared with the modules of the TypeScript parts.

Proofs left: for the executors, what is awaited and a ranking, as `NoRunWaitsInVain` and
`CallsGoForward` are for the sandbox; and liveness itself, should the prover come to
reason about fairness.
