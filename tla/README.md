# LibAFL-- in TLA+

TLA+ models of the parts of this repository whose correctness depends on the
order of things: processes that crash and restart, signals that arrive
anywhere, workers that exchange testcases over sockets, a timer thread, caches
over a store, a fork server that times out, a guest whose memory is put back
after every execution, and a heap with a quarantine. Each module is translated from the
Rust source; `PROJECT.json` maps its definitions to the lines they stand for.
TLC checks the models on small instances, TLAPS proves what is stated as a
theorem for every value of the constants.

Paths below are relative to `crates/libaflmm/src/` unless they name a crate.

## The system

LibAFL-- is a fuzzing library. A **launcher** forks one **worker** process per
core. Each worker runs a *task* (build a fuzzer, load the initial inputs, fuzz)
inside a **runtime**. The **fuzzer** asks the **corpus** for a testcase, lets
**stages** and **mutators** derive inputs from it, and has an **executor** run
the target on each; **observers** and **feedbacks** decide whether the input
goes to the corpus or to the objectives. What a worker adds to its corpus it
may send to the **controller**, which lives in the launcher's process and
routes it to other workers.

| part | state | operations | talks to |
|---|---|---|---|
| Restarting runtime (`runtimes/restarting.rs`) | the saved state, the shared memory, the child | fork, waitpid, restore | the child, by exit code and shared memory |
| Termination handlers (`runtimes/utils`, `runtimes/inprocess`) | `input_ptr`, depth counter | signal handler, panic hook, crash and timeout handling, save and exit | interrupts the fuzzer and the executor, and itself |
| StdFuzzer and Executor (`fuzzers`, `executors/mod.rs`) | `loading_stage`; in the state: the loader's metadata, counters, corpora, pending testcases | load, fuzz_one, evaluate_input, execute | corpus, runtime handle, worker's side of the controller |
| Corpus, cache, stores (`corpus`) | maps of ids and links, list of cached ids, files, queue | add, get, get_from_all, next | file system |
| Launcher, controller, workers (`launchers/instances`, `controllers/standard`, `sync`, `bolts/connection.rs`) | sockets, connections, active instances; per worker `seen_testcases` | spawn, wait, poll, route, reap; find, receive, send | kernel: sockets, SIGCHLD, poll |
| Registration (`launchers/mod.rs`, `launchers/groups.rs`, `controllers/standard/builder.rs`) | groups, their routes and workers | register_group, finalize, take_group_workers | router |
| Fast timer (`bolts/timers/fast.rs`) | three atomics, a thread with three locals | arm, disarm, delete, create | signals the main thread |
| Forkserver executor (`executors/forkserver`) | pipes, `child_pid`, `status`, `last_run_timed_out` | handshake, execute_input, drop | an external fork server and its children |
| QEMU snapshots (`crates/libaflmm_qemu`, `snapshot.rs`) | saved pages, mappings and break; dirty pages and access cache per thread; intervals followed | snapshot, reset, the hooks of writes and of system calls | the guest's memory |
| ASAN allocator (`crates/libaflmm_asan`) | shadow, allocations, tracked ranges, quarantine | alloc, dealloc, poison, unpoison, is_poison | an external backend |
| Standard timer, stages, mutators, observers, feedbacks, generators, monitors, other back ends, tools | data, or the kernel's | | |

**What is hard.** A crash or an alarm can fall between any two steps of a
worker, of its handlers too, and the next child must go on from the state the
handler saved. Signal handlers nest. Workers exit, restart and are told to
stop while commands and notifications for them are under way, and SIGCHLD,
end-of-stream and `waitpid` come in any order. The timer thread and the main
thread share relaxed atomics. The pipes to a fork server carry bare numbers: which run
a status belongs to follows from nothing but the order of reads, across
timeouts and kills. The maps of the corpus, the shadow of the heap and the
dirty sets of a snapshot stay sound only if a long series of calls keeps
relations that no single call checks. The hazards, each with its line and the properties that watch it,
are listed in `PROJECT.json`.

**What makes each part correct.**

* Runtime, handlers and fuzzer: no initial input is lost or repeated over
  restarts; what was found is not undone; a child that asks to be restarted has
  left its state; a crash of the target costs an input, not the worker; a hang
  is ended; the worker gets to fuzzing.
* Corpus: a cache is never noticed; no entry is unwrapped that is gone; the
  scheduler has what was saved, and each testcase gets its turn.
* Sharing: testcases follow the routes, arrive, are not echoed, and sharing
  dies out; a live worker is known; the launcher ends.
* Timer: an alarm means that some run was too long, a hang is interrupted, and
  deleting the timer ends.
* Forkserver: a verdict is of the input it is reported for, an execution ends,
  and no child is left behind.
* Snapshots: what a reset restores, from dirty sets and intervals, is exactly
  what was saved.
* Allocator: what the guest may touch is exactly the live buffers; freed
  memory stays poisoned for as long as the quarantine promises; the records
  agree.

## The modules

| module | models | composed with |
|---|---|---|
| `LoaderMetadata` | `LoaderMetadata` of `fuzzers/standard.rs` as operators on a record | |
| `RestartingFuzzer` | one worker: runtime, handlers, fuzzer, executor | extends `LoaderMetadata`, implements `LoadSpec` |
| `LoadSpec` | abstract: what `Loader::load` promises | |
| `HashCorpusMap` | `HashCorpusMap` of `corpus/store/maps.rs` as operators | |
| `CorpusMaps` | both kinds of corpus map under the same calls | extends `HashCorpusMap` |
| `CachedCorpus` | `CombinedCorpus`, both caches, both stores, the queue | extends `HashCorpusMap` |
| `Orchestration` | launcher, controller, sockets, workers | |
| `FastTimer` | the timer's two threads | |
| `Forkserver` | executor, channel and `Drop` against fork server and child | |
| `Snapshot` | `SnapshotModule` and the guest's memory | |
| `GuestShadow` | `shadow/guest.rs` as operators on a shadow | |
| `AsanAllocator` | `DefaultFrontend` and `GuestTracking` | extends `GuestShadow` |
| `MC*` | instances for TLC | |
| `*_proofs` | theorems | extend the module they are about; `CachedCorpus_proofs` extends `CachedCorpus` and `CorpusMaps` |

An operator or action named `X_Something` above `X` is a mutant of `X`: the
same code with a plausible bug. Each property of a passing run has one, listed
in `PROJECT.json`, that TLC finds it violated with.

### RestartingFuzzer

`pc` is where the child is: in the task (`boot` … `stages`), around the target
(`arm`, `set_input`, `target`, `clear`, `disarm`, `post`), in a handler
(`dispatch`, `objective`, `save`, `leave`), in the unwinding of a failed task,
or `dead` with an `exit_code`. Each stretch of code without an effect another
actor could see is one action; signals come in between as `Alarm`,
`TargetCrash`, `TargetPanic`, `TargetExits`, `Fault` and `Killed`. The state that is
serialised (`st`) has the loader's metadata, the executions counted, the
pending testcases, the corpus and the objectives; everything else of a child
dies with it. `Fork` starts the child from `saved`, `Reap` restores what the
shared memory holds or ends.

The handlers are those of unix. `Enter` counts `termination_handler_depth`: a
crash or a panic once, an alarm twice (`handle` and `timeout_handler`).
`Dispatch` takes `input_ptr` and asks the executor; `HandleObjective` is
`handle_objective_in_termination_handler`; `SaveState` and `SaveFails` are
`send`; `Leave` exits, or resumes after an alarm.

Abstractions: an input is a model value; a verdict is a choice the constant
`Verdicts` allows for an exit kind; hooks, statistics and observers are left
out. A target that calls `exit` with a code that means nothing to the runtime
ends the worker with an error, as the arm of `run_impl` for other codes has it;
`HarnessMayExit` turns that on. One that exits with a code the runtime uses is
left out. What a stage evaluates is any input. `MaxExecs` bounds new inputs of the
fuzzing loop. After a harness that returns an error the pointers in the
termination data dangle; `Fault` in that handler stands for what the build may
then do.

### HashCorpusMap, CorpusMaps, CachedCorpus

A map is a function from ids to links, with the first and the last id and the
history behind `nth`; operators named `...Panics` say when an `unwrap` of the
code fails. `CachedCorpus` has one action per call and outcome. A call that
panics is the last one. The on-disk maps are sets, as nothing in a
`CombinedCorpus` removes from them. Adding an enabled or a disabled testcase,
a write that fails, and reading it later are the environment's choices.
`happened` records whether `get_from_all` was called and whether a write
failed, as the properties depend on it. The variable `policy` is the cache the
corpus was built with.

### Orchestration

A worker is `new`, `running`, `stopping`, `zombie` or `reaped`. `up` and `down`
are the two directions of its socket pair with `Capacity` messages each;
`reset` is the ECONNRESET that a peer leaves which closes with commands unread.
The launcher's `pc` follows `wait_instances`: the pass before its loop, waiting,
polling each connection, routing one notification to one destination after the
other, consuming SIGCHLD, draining with `waitpid`, and the loop's test. Any
error of the controller ends the launcher (`Fail`), and the parent-death signal
the workers. A monitor may ask a worker to shut down, also in the last display
after the loop. A worker that has yet to enter its first `fuzz_one` (`atTop`)
may be loading, and shares what it finds then. A testcase is its id;
whether a received one is interesting is a choice.

### FastTimer

Each load and each store is a step; the two relaxed stores of `arm_timer` may
be seen in either order. Time is counted in ticks, at least one per sleep of
the thread; all durations beyond the timeout are one. The history `happened`
records that stores were seen in the other order, that time passed while the
thread was awake, and that the thread cleared the flag of a run that is on.

### Forkserver

`pc` is where `execute_input` or the `Drop` of the channel is; `ctl` and `st`
are the pipes. `ExecuteInput` sends the flag of the last timeout, `ReadPid` and
`ReadStatus` take what the fork server answers, `TimeOut`, `KillChild` and
`ReadLate` are the path of a run that takes too long, and `ReadFails` and
`ExecuteFails` every error in between, after which the executor is dropped. The
fork server and the child are not the repository's: they do what the protocol
of AFL++ asks, namely answer each request with a pid and a wait status, resume
a child that has stopped unless told that it was killed, and may die. A child
may exit, crash, stop when it has done with its input, or run for ever; SIGTERM
may be handled by it, and waits while it is stopped. `fate` records what the
input of this run did to the child.

### Snapshot

The guest's memory is a permission and a content for each page, and its break.
Between two resets a thread of it writes (`Write`, which is the hook of a store
and of the system calls that fill a buffer: the access cache, the dirty set),
maps, unmaps, protects and moves pages, or moves its break; each call is what
the kernel does followed by what the hook then does to `new_maps` and the dirty
sets. An interval is the set of its pages. `Reset` is the whole of `reset`: the
operators before it are the guest's memory after the heap, after the dirty
pages, after `reset_maps` and after the pages kept for last. `mishaps` names
calls the module does not follow (see below); the guest makes none after such a
call, so that only the resets that meet it are excused.

A call that fails leaves the guest's memory alone. The hook recognises the
result -1 only (`snapshot.rs:1011`); other error numbers are results to it, and
`CallFails` is what it then records: the interval of a munmap or mremap is cut
out, that of an mprotect gets its permissions, and mmap and mremap add one at
the error number, which lies on no page: `nowhere`. On 32 bits the reset fails to
unmap it, as it does not begin a page; on 64 bits the end of the interval
overflows as soon as it is recorded, which the model does not tell apart.

The history `lost` has the pages that a shrinking heap gave up before a write
had marked them. They are no mishap: the guest goes on, the reset must bring
them back with their protection, and only their content may be zeroes, until a
write marks them and a reset restores it.

### GuestShadow, AsanAllocator

Memory is a range of bytes, the shadow a number for each granule; all kinds of
poison are one value. `Poison`, `Unpoison` and `IsPoison` follow the code,
with what they do to the granules at the ends of a range. `Alloc` and `Dealloc`
are whole calls under the frontend's lock; the backend is external, and gives
any free aligned piece. A request that is refused before anything changes is no
step; one that fails half-way sets `failed`, as its callers unwrap the error.
`Purges` follows `quarantine_used` as `purge_quarantine` does, not the sum of the
chunks, so that a counter that is wrong shows. The history `given_back` has the
bytes of the chunks that were given back and are in no chunk since.

## The runs

| run | checks | states |
|---|---|---|
| `restart_safety` | `TypeOK`, `LoadAccounted`, `LoadReturnsAllOrNothing`, `RestartHasSavedState`, `NothingIsUndone`, `DepthIsBalanced`, `TargetCrashRestarts` | 1.4 M |
| `restart_refinement` | `ImplementsLoadSpec`, `ReachesFuzzing`, `HungTargetIsStopped` | 51 k |
| `load_results_lost` | violates `LoadReturnsEveryInput` | |
| `corpus_maps` | `LinkedInOrder`, `HistoriesAgree` | 295 k |
| `cached_corpus` | `TypeOK`, `NeverPanics`, `GetIsTransparent`, `QueueIsCorpus`, `CacheIsListed`, `EveryTestcaseIsScheduled` | 398 k |
| `get_from_all_fails` | violates `GetFromAllFinds` | |
| `sharing_safety` | `TypeOK`, `OnlyAlongRoutes`, `LiveWorkersAreKnown`, `NoEcho` | 1.3 M |
| `sharing_live` | `LauncherEnds`, `EveryTestcaseArrives`, `SharingDiesOut` | 386 k |
| `fast_timer` | `TypeOK`, `AlarmsFollowOverruns`, `HangIsInterrupted`, `DeleteReturns` | 218 k |
| `forkserver` | `VerdictsAreRight`, `DropLeavesNoChild`, `ExecutionEnds` | 72 k |
| `snapshot` | `ResetRestores`, `DirtyIsComplete` | 767 k |
| `asan_allocator` | `TypeOK`, `LegalCallsSucceed`, `BoundsEnforced`, `FreedIsPoisoned`, `RecordsAgree`, `QuarantineHoldsBack` | 43 k |

**restart_safety.** Two loads, of two inputs and of one, that share an input;
crashes, panics, alarms that exit or resume, a harness that fails or exits, faults of
the fuzzer itself, SIGKILL and a state too large to save, at every step, with
the depth limit of three the code has. Four executions leave one beyond the
loads for the fuzzing loop (a repetition is possible after any crash), and two
loads are the least that shows results filed under the wrong one.

**restart_refinement.** The same worker without faults of its own. The mapping
reads the inputs still owed from the metadata of the state that counts
(`Current`: the saved one while the runtime is between two children). A step of
the worker is a verdict of `LoadSpec`, its giving up, or no step at all.
Fairness: the processes are scheduled, the fuzzer's own code does not block,
and the alarm comes while the target runs (`WF(pc = "target" /\ Alarm)`; the
timer is the kernel's, armed for each execution). Nothing is assumed of the
target: it may hang.

**load_results_lost.** `fuzzers/mod.rs:123` says that `load` returns every
loaded input with its result. `take_ran_inputs` moves the results out when it
returns; after a crash in the fuzzing loop the task runs again, calls the same
load, and gets an empty vector.

**corpus_maps.** Four ids, so that an entry with two neighbours on each side
can be removed. `LinkedInOrder` is about ids added once and removed while a
newer one is there (`in_order`).

**cached_corpus.** Both caches, with the queue; one testcase may be disabled,
ids may be added again and writes may fail. The FIFO cache of two has three
testcases: full, evicting, and a third id to evict for. The identity cache has
two (`FewId`), as it keeps every order they were added in. For the FIFO cache
`NeverPanics` and `GetIsTransparent` hold until `get_from_all` is called, for
the identity cache until a write fails. The only fairness is that the fuzzing
loop asks the scheduler.

**get_from_all_fails.** `corpus/mod.rs:67` says that `get_from_all` looks at
the enabled and the disabled store. `FifoCache` adds what it reads to the
disabled map and then gets it from the enabled one.

**sharing_safety.** Three workers in groups of their own, `a` and `b` sharing
with each other and `b` feeding `c`; a testcase found at either end; sockets of
one message, so that they are full at once; a restart of `b`; a shutdown that
the monitor asks for; timeouts of the wait. `NoEcho` is about a worker until it
restarts.

**sharing_live.** Two workers that share with each other, two testcases,
sockets with room for all, a restart, a shutdown, and no monitor timeout, so
that the launcher wakes up for readable descriptors only. Fairness: the
launcher's loop runs and each worker ends its loading, receives, evaluates and
obeys a shutdown; nobody is obliged to find, restart, finish or die. A full socket
drops a notification by design (the log says so), therefore
`EveryTestcaseArrives` is checked where none is full.

**fast_timer.** A timeout of two ticks and three runs per timer, any number of
timers one after the other: two runs may pass while the thread sleeps, and the
third be on. Fairness: the thread runs, time passes, a pending signal is
handled, `arm_timer` and `delete_timer` go on; a run may last forever.

**forkserver.** Four inputs: one to leave a stopped child, one to time out on
it, one to meet the late status, and one more. Executors that kill with SIGTERM
and with SIGKILL, with no exit code for a crash, with 1 and with 19, the number
of SIGSTOP. Fairness: the executor and the fork server go on, and `pselect`
has a timeout; nothing is assumed of the child, which may run for ever.
`ExecutionEnds` and `DropLeavesNoChild` are about SIGKILL.

**snapshot.** A mapping of two pages, a read-only one and the heap of one page
each, side by side, and two free pages; two threads that remember two pages
each; one step before the snapshot, after which pages 1 and 2 may differ, and three
per execution: map, protect and write, or cut a mapping, move the rest and
write it; or shrink the heap, let it grow and write. Executions follow each other without a bound.

**asan_allocator.** The proportions of 64 bits at half size (a granule of 4
instead of 8, and so on), in 80 bytes: three or four chunks, which touch, with
a quarantine of two small ones. Lengths within a granule, of one, of one and
a half, and one whose chunk is larger than the quarantine, so that it is purged
by its own `dealloc`; alignments of none, of a granule (where the right red zone
ends behind the chunk) and of four granules (where the left one is longer).
`LegalCallsSucceed` is about these proportions: on 32 bits the shadow refuses
buffers with an alignment of 4 (see below).

`CHECK_DEADLOCK FALSE` stands where the system stops: after a panic of the
corpus, when launcher or process have ended, and when the backend has no
memory left.

## The theorems

| theorem | module | says |
|---|---|---|
| `TypeCorrect` | `RestartingFuzzer_proofs` | `[]TypeOK` |
| `RestartIsSafe` | | `[]RestartHasSavedState` |
| `FindingsAreKept` | | `NothingIsUndone` |
| `HandlersAreBalanced` | | `[]DepthIsBalanced` |
| `NoLoadedInputIsLost` | | `[]LoadAccounted`, if no executor answers FuzzerCrash |
| `LoadsReturnAllOrNothing` | | `[]LoadReturnsAllOrNothing`, likewise |
| `TargetCrashesRestart` | | `[]TargetCrashRestarts`, likewise |
| `LoadsAreImplemented` | | every step is one of `LoadSpec` or none, if moreover no timeout resumes |
| `EveryRunIsTimed` | | `[]TargetIsTimed`: with a timeout, the target never runs without an alarm |
| `AlarmsStayInTheirRun` | | `[]NoAlarmIsLeft`: the timer is armed only around a run and in what ends it |
| `CorpusTypeCorrect` | `CachedCorpus_proofs` | `[]TypeOK` |
| `CorpusNeverPanics` | | `[]NeverPanics`, for both caches |
| `CacheIsTransparent` | | `[]GetIsTransparent`, for both caches |
| `FifoListsItsCache` | | `[]CacheIsListed` |
| `SchedulerHasTheCorpus` | | `[]QueueIsCorpus` |
| `EntriesAreLinked`, `HistoriesAreExact` | | `[]LinkedInOrder`, `[]HistoriesAgree` of `CorpusMaps` |
| `SharingTypeCorrect` | `Orchestration_proofs` | `[]TypeOK` |
| `LiveWorkersStayKnown` | | `[]LiveWorkersAreKnown` |
| `NothingComesBack` | | `NoEcho` |
| `TestcasesKeepToRoutes` | | `[]OnlyAlongRoutes` |
| `NoSharedTestcaseIsLost` | | `[]SharedIsUnderWay`: what was shared has arrived or is on its way, if `NothingIsDropped` |
| `WakeupsAreKept` | | `[]NoWakeupIsLost`: the launcher never waits for good on a child that has exited |
| `LauncherLeavesNobody` | | `[]EndKnowsEveryExit`: at its end all workers are reaped and each failure is counted |
| `TimerTypeCorrect`, `NoAlarmWithoutOverrun` | `FastTimer_proofs` | `[]TypeOK`, `[]AlarmsFollowOverruns` |
| `NoRunIsUnwatched`, `ThreadsDoNotOverlap` | | `[]RunIsWatched`, `[]OneThread` |
| `VerdictsAreOfTheirInput`, `NoChildIsLeft` | `Forkserver_proofs` | `[]VerdictsAreRight`, `[]DropLeavesNoChild` |
| `ExecutorNeverStarves` | | `[]ReadsAreAnswered`: a read that blocks has an answer coming, with SIGKILL |
| `KillsTheRightChild` | | `[]KillsAimRight`: pipes are empty between runs, and a kill hits the child of this run |
| `ResetIsRight`, `DirtySetsAreRight` | `Snapshot_proofs` | `[]ResetRestores`, `[]DirtyIsComplete` |
| `IsPoisonIsExact` | `AsanAllocator_proofs` | what `is_poison` answers, for any shadow and range |
| `LegalCallsAreServed` | | `[]LegalCallsSucceed`, if `WideEnough` |
| `BoundsAreEnforced` | | `[]BoundsEnforced`, likewise |
| `FreedStaysPoisoned` | | `[]FreedIsPoisoned`, likewise |
| `QuarantineIsInOrder` | | `QuarantineHoldsBack`, likewise |
| `RecordsDoAgree`, `HeapHasItsTypes` | | `[]RecordsAgree`, `[]TypeOK`, likewise |
| `PurgesEnd` | | a purge lets go of one well-defined number of buffers, all there, likewise |
| `BuffersNeverOverlap` | | `[]BuffersApart`: two red zones lie between live buffers, likewise |
| `BuffersAreAligned` | | the address `alloc` returns is a multiple of what it was asked for |

The assumptions are those the modules state for their constants, and the ones
named above. The arguments:

* `RestartingFuzzer`. `TypeInv` adds to `TypeOK` how `pc`, `cur`, `who` and
  `handler` go together, without which the types of a step do not follow.
  `SavedInv`: between `save` and the end of a child that asks for a restart the
  shared memory holds `st`, and what is saved has never more than the child;
  so restoring undoes nothing. `LoadInv`: the metadata of each of the three
  states is `Sound` (finished loads owe nothing, the open one owes the rest of
  its inputs), and at each `pc` it is known whether an input is running; so each
  recorded result is the one of the input taken last. An executor that answers
  FuzzerCrash to a panic breaks exactly this, hence the assumption.
  `LoaderMetadata_proofs` has the lemmas on sequences it rests on. `DepthInv`:
  the depth is what the handler in `handler` entered with. `FirstInv`: as long
  as only one termination was triggered, in the target, `input_ptr` was set
  when the handler looked.
* The refinement of `LoadSpec`. `OrderInv`, beside the invariants above: the
  loads before `loading_stage` are finished in the state itself, the running
  input is the one `cur` of the load on the stack, and wherever `load` waits
  for a verdict an input is running. Then each step that moves `left` of
  `LoadSpec` is the verdict of the first input it owes, and saving, restoring
  and forking leave the mapping where it was. After a timeout that lets the
  target resume, the input is evaluated once by the handler and once when the
  target returns: two verdicts for one input, hence the second assumption.
* `CachedCorpus`. `FifoInv`: the entries of the two cached maps are `Chained`
  in the order of `cached_ids` (newest first), all in the enabled one. An
  evicted id is the oldest, so that its only neighbour is there, and `last_id`
  is the newest, which is never evicted from a cache of two. `IdentityInv`: an
  identity cache evicts nothing, and until a write fails it holds only what the
  store would find. `CacheIsListed` and `QueueIsCorpus` are inductive with the
  types. All for any number of ids and any `MaxLen >= 2`.
* `CorpusMaps`. `MapsInv`: as long as `in_order` holds, the links are `Chained`
  in `order`, whatever has become of `first_id` and `last_id`; and an empty
  order has no `last_id`. `RemoveChained` shows that taking an id out of the
  middle or the end joins its neighbours.
* `Orchestration`. `KInv`: a connection is removed only when the socket was
  found closed or the worker was reaped, both after its end. `TInv`: the
  destinations still to be served belong to the notification that is routed,
  and its group leads to theirs. `Remembered`: a worker that has not restarted
  has seen all it has shared or received, so that what passes the filter is
  new. `UnderWay`: wherever a testcase is (a queue, either direction of a
  socket, the batch), the routes lead there from those who found it.
* `FastTimer`. `Sources`: the flag is up only in a run; the counter the thread
  tracks is never ahead; if it is the current one, the thread's clock is behind
  the age of the run; and past the check of the clock the run has overrun.
* `Forkserver`. `InStep`: for each `pc` and each place of the fork server, how
  many numbers are in either pipe, and that the status under way is of the run
  on; a timeout's flag and `child_stopped` agree, so that a child which was
  killed after it had stopped is reaped and not resumed. `PidIsKnown`: a child
  that may run is the one in `child_pid`, except between the request and the
  answer.
* `Snapshot`. `SavedInv`: the snapshot is that of the guest then and does not
  change. `AccessInv`: a page a thread remembers is in its dirty set, which is
  why it need not be marked again. `MapsFollowed`: each interval lies in one
  mapping of the snapshot or in none, a mapping is covered as a whole or not at
  all, and the protections of the intervals are the guest's. `ExtraFollowed`:
  what is mapped beside the snapshot is in an interval or in the heap's growth.
  `LossIsDirty`: a mapping that is gone, a page the heap has lost and a page
  that differs are dirty, or in `lost` and zeroes. From these four each part of `reset` restores its
  part of the memory without a panic.
* `AsanAllocator`. `WideEnough` (`RedZone > 0`, and addresses are whole
  granules) is what makes a right red zone that ends behind its chunk harmless.
  `HeapInv`: chunks do not overlap; in each chunk the buffer lies behind a left
  red zone that begins with a whole granule; each byte of the chunk is judged
  as it should be (`BytesRight`: a live buffer's may be used, all others not);
  what is tracked are the live buffers; and the quarantine holds each freed
  buffer once. A call disturbs the granules of its own chunk and at most the
  first granule of the next one, which is red zone or free. What `is_poison`
  says of a range then follows from `IsPoisonIsExact`: each granule judges a
  stretch of the range by where it ends (`StretchOfGranule`), and the bytes of
  the range are those of its first granule, of its last, and of whole ones
  between.
* The counter of the quarantine. `RecordsInv` adds to `HeapInv` that
  `quarantine_used` is the sum of the chunks in the quarantine, and that the
  chunks that are out are those of the allocations. The sum is a recursive
  function, and the prover cannot instantiate the induction theorems of its
  library; so the laws of sums (`TotalOfAppend`, `TotalOfParts`) are proved
  by a least counterexample: a set of naturals that holds every number whose
  predecessors it holds is all of them (`NatInSet`, from the well-foundedness
  of `<`, which takes no operator). They give the purge its end: what is left
  fits the quarantine at the latest when nothing is left, and the counter never
  goes below zero.

**The safety cores of the liveness properties.** Liveness is out of the
prover's reach, but what it would fail at is a state from which no step helps.
That there is no such state is an invariant, and is proved:

* `HungTargetIsStopped`: `TargetIsTimed`. `TimerInv` says moreover that a
  handler resumes only where the executor may answer so, as the alarm is then
  used up. `NoAlarmIsLeft` is the other half: an alarm never outlives its run,
  except in the unwinding of a failed one.
* `EveryTestcaseArrives`: `SharedIsUnderWay`, for destinations that have not
  ended and a launcher that has not failed. `ArrivalInv` adds that a worker has
  sent or received what it takes for seen, and that notifications are held only
  while they are routed; with `TInv` and `KInv`, what is routed reaches each of
  its destinations that is still there. `NothingIsDropped` says that a step
  which shares a testcase finds room in the worker's socket: the code marks the
  testcase as seen also where it finds none, and it is lost.
* `LauncherEnds`: `NoWakeupIsLost`. `ExitInv`: from the end of a child to the
  `waitpid` that reaps it, a SIGCHLD is pending, or the launcher is between
  reading the signals and draining; and each exit is counted once.
* `HangIsInterrupted`: `RunIsWatched`; and `DeleteReturns`: `OneThread`.
  `Watched` has them together with the moments around the stores of `arm_timer`
  and `delete_timer`.
* `ExecutionEnds`: `ReadsAreAnswered`. Beside `IInv` it needs `ToldIsTrue`: what
  the fork server is told to have been killed has ended, which only SIGKILL
  grants.

Only model-checked: liveness itself (`ReachesFuzzing`, `HungTargetIsStopped`,
`EveryTestcaseIsScheduled`, `LauncherEnds`, `EveryTestcaseArrives`,
`SharingDiesOut`, `HangIsInterrupted`, `DeleteReturns`, `ExecutionEnds`) and the
fairness of `LoadSpec` in `ImplementsLoadSpec`, as the prover has no rules for
fairness and `ENABLED`. All other properties of the passing runs are theorems.

## What the models made visible

Behaviour that a reader of the code may not expect, apart from the two findings.

* A failed run (the harness returns an error) skips `clear_input` and
  `disarm_timer`: while the task unwinds, `in_fuzzing()` is true and the timer
  runs, and the panic hook takes the failure for a crash of the target.
* The timer is armed before `set_input` and disarmed after `clear_input`: an
  alarm in these gaps finds no input and ends the worker as a bug of the fuzzer.
* The recursion limit counts entries, and a timeout enters twice: one further
  termination in its handling reaches the limit of three.
* An executor that answers FuzzerCrash to a panic restarts the worker with an
  input that is running and was never recorded; the next child drops it.
* When an executor resumes after a timeout, `input_ptr` has been taken: a later
  crash in the same run is taken for a bug of the fuzzer.
* A `HashCorpusMap` never moves `first_id`; an id added again becomes its own
  `prev` when it is the newest; and a `BtreeCorpusMap` walks in the order of
  hashes, not of additions.
* A FIFO cache of one testcase panics on its second: the evicted entry is the
  one `last_id` names.
* After a failed write the id counts as a duplicate, and is never scheduled.
* A restart forgets the seen testcases: the worker may import its own.
* A full, closed-with-commands-unread or unknown destination makes the
  controller fail, and the launcher with it. A notification in the socket of a
  worker that is reaped is dropped.
* The timer's thread may signal after the run it timed: the alarm hits the next
  run; and it may clear the flag of the next run, which then has no timeout. A
  thread held up while awake, or stores seen in the other order, raise an alarm
  without an overrun.
* With an alignment of 8 the right red zone of a buffer ends 8 bytes behind its
  chunk. In the heap they fall into the next chunk's left red zone (so a red
  zone of 0 would not be safe) or free memory. On 32 bits, an alignment of 4
  makes the shadow refuse a buffer that is recorded already, which ends the
  process.
* A timeout after which the executor resumes evaluates its input twice, as a
  timeout and when the target returns.
* `execute_input` of the forkserver reads the late status after a kill without
  a timeout: with SIGTERM, the default, a child that handles the signal, or has
  stopped when it comes, makes it wait for ever. The status it reads is thrown
  away, and the pid it then keeps or forgets is decided by the status of the run
  before. A child whose pid was never read is nobody's.
* `WEXITSTATUS` is taken of a status without `WIFEXITED`: with a
  `crash_exitcode` of 19, each run that ends in a SIGSTOP, as all runs in
  persistent mode do, is a crash. `VerdictsAreRight` is about other codes.
* The QEMU snapshot does not follow everything. `mishaps` names what makes a
  reset fail or differ: an mprotect across the end of a mapping; an mremap of
  part of a mapping or onto the snapshot; any mmap over pages of the snapshot
  (MAP_FIXED); a heap that gives up pages of a mapping that is no heap's, or
  grows over other pages of the snapshot; and a call that fails with an error
  other than -1. The outcomes are pages of zeroes, mappings that stay, and
  panics: on a hole, and after a failed mmap or mremap. `ResetRestores` and
  `DirtyIsComplete` excuse all of these. No mishap, but allowed by both: pages
  the heap gives up before anybody wrote them come back as zeroes
  (`snapshot.rs` says that "The next for loop will restore their content if
  needed", but that loop has dirty pages only). A dirty page that could not
  be saved (no permissions at the time) panics. Writes by the kernel into
  buffers of system calls the hook does not list are not traced, as its comment
  says ("NOT A COMPLETE LIST OF MEMORY EFFECTS").

## Not modelled

* The registration of groups and workers: a builder that runs once, in one
  thread, before the first fork. Its result is in the constants of
  `Orchestration`. That `register_group` may fail half-way, and that `NopRouter`
  gives all groups one id, are listed as hazards without a property.
* The handshake of the forkserver builder: one exchange in a fixed order.
* The standard timer, whose state is the kernel's; its alarm is in
  `RestartingFuzzer`. Windows handlers, which are the twins of the unix ones on
  an API the models do not describe.
* Failure of the runtime's own fork, waitpid and mmap; `RuntimeHandle::restart`, which nothing
  calls; `disable` of a corpus, which no corpus with a cache offers;
  `RandScheduler` (a random choice); `SingleCorpus`; custom messages; the host
  shadow and `guest_fast` tracking; interval filters, the mmap limit and manual
  resets of the QEMU snapshot.
* Stages, mutators, observers, feedbacks, generators, monitors: computations on
  data, whose result is a choice in the models. By lines this, with the next
  item, is most of the repository.
* Frida, Nyx, Intel PT, the rest of QEMU (generated bindings, hooks that call
  into C, address tables), build tools, Python bindings and the example
  fuzzers: their state is that of the tool they bind, or they have none.

Simplifications to know: the socket's capacity is in messages, not bytes; an
import's id always matches its input; ECONNRESET follows Linux's unix sockets;
a worker's first panics before its hook is installed are its death; a break
address is that of a page; the fork server is that of AFL++.

## What could come next

The registration with both routers in front of `Orchestration`; a corpus
without a cache as an abstract specification for `CachedCorpus`; and the
standard timer with the kernel's timer as its environment.
