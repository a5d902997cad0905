# Nimble Commander: TLA+ models, checks and proofs

Nimble Commander is a dual-pane file manager for macOS. Its interface lives on
the main thread; whatever may take time (copying, deleting, listing a directory
of an FTP server, building a thumbnail) runs on other threads and meets the main
thread again through locks, atomic flags, condition variables and blocks of the
main queue. This directory holds the TLA+ development of the parts of it that
carry protocols of that kind: the file operations (`Source/Operations`), where a
mistake costs the user data, the loading of panels, the configuration with its
observers, and the memory of the virtual file systems.

Every path below is relative to `src/Source/`.

## 1. Inventory

| Component | State | Operations | Hard behaviours | What makes it correct |
|---|---|---|---|---|
| **Job, Operation** (`Operations/source/Job.cpp`, `Operation.mm`) | four atomic flags, callbacks, two condition variables | `Start`/`Run`, `Execute`, `Pause`, `Resume`, `Stop`, `BlockIfPaused`, `SetCompleted`, `State`, `Wait`, `JobFinished` | flags tested and set in separate steps by four threads; notifications without the mutex; reporting on behalf of another thread | one truthful outcome, reported whenever the job ends; nothing processed after it; `Stop()` ends the job; `Wait()` covers `Perform()` |
| **Pool** (`Operations/source/Pool.mm`) | running and pending lists under `m_Lock`, atomic limit | `Enqueue`, `StartPendingOperations`, `OperationDidFinish`, `SetConcurrency`, `Empty`, `StopAndWaitForShutdown`, `ShowDialog` | the queue is advanced by whatever thread ends an operation; operations are started after the lock was released; callbacks re-enter the pool | every operation in one list at most; none forgotten or started twice; the limit; the queue never stalls; shutdown ends |
| **CopyingJob** (`Operations/source/Copying/`) | items scanned, items to delete, checksums | `AnalyzeInitialDestination`, `BuildDestinationDirectory`, `ScanSourceItems`, `ProcessItems` with one procedure per kind of source and destination, `VerifyCopiedFile`, `ClearSourceItems` | any system call fails, any answer of the user, stops at any point, other programs; sources deleted item by item after partial failures | no content is lost without the user's consent; no unfinished file stays; a completed move is complete |
| **Dialogs** (`Operations/source/AsyncDialogResponse.cpp`, `Operation.mm`) | response, aborted | `Commit`, `Abort`, `Wait`, `Show`, `AbortUIWaiting` | worker and main thread wait for each other | every question is answered or aborted; one answer |
| **DeletionJob** (`Operations/source/Deletion/`) | paths, a script of deletions, answers that apply to all | scan, delete, move to trash with fallback, unlock | stop in a nested scan; items that go back into the script; sticky answers | nothing deleted that was not selected, or for good without consent; nothing forgotten; a stop is obeyed |
| **Other jobs** (compression, attributes, batch renaming, links, new directories) | job-local | scan, process | partial failure, renaming chains | as for copying |
| **Statistics, progress** | counters, timers | `CommitEstimated`, `SetPaused`, ... | pause counters touched by two threads | display only |
| **SerialQueue, DispatchGroup, observers** (`Base/source/`) | length, stop flag; observer lists | `Run`, `Stop`, `Wait`, `FireDry`; tickets | the stop flag outlives, or misses, the tasks it is meant for | stop reaches exactly the tasks queued before it |
| **Config** (`Config/source/ConfigImpl.cpp`) | document, observers, write and read flags | `Set`, `Get`, `Observe`, `Commit`, overwrites on disk | observers dropped while being fired; delayed writes against external changes | no observer called after its token is gone; the last change is written |
| **VFS instances** (`NimbleCommander/.../Core/VFSInstanceManagerImpl.cpp`) | promises, weak references, parents | `TameVFS`, `RetrieveVFS`, `DecPromiseCount`, sweeps | reference counts and expiry decide together | an instance is remembered as long as somebody may ask for it |
| **VFS hosts** (`VFS/source/`) | per protocol; caches, connection pools | the file operations of `VFSHost` | what `Close()` and `RemoveDirectory()` really do | seen here through the jobs that use them |
| **Panels** (`NimbleCommander/.../States/FilePanels/`, `Panel/source/`) | listing, sorting, selection, three queues | load, reload, count sizes, go back | results arrive when the panel has moved on | what is shown belongs to where the panel is |
| **Icons** (`VFSIcon/source/`) | slots, worker queues | register, schedule, unregister | results for slots given away | a result lands in its own slot |
| **Terminal, viewer, utilities, RoutedIO, CUI** | parsers, layouts, wrappers | | sequential, or wrappers of the system | unit tests of the repository |

The parts interact as follows. A controller builds an operation and hands it to
the `Pool` of its window. The pool starts it (`Operation::Start` →
`Job::Run`), which detaches a thread in `Job::Execute`. The job's callbacks are
bound to the operation (`JobFinished`, `JobPaused`), whose observers include the
pool's `OperationDidFinish`: this one removes the operation and starts the next.
The worker asks the user through a dialog that the pool shows on the main thread,
and waits. Closing a window calls `Pool::StopAndWaitForShutdown` on the main thread.

`PROJECT.json` lists all components with what is modelled of each, and every
hazard of the code with its line and the properties that would catch it.

## 2. Modules

| Module | Models | Lines of the code |
|---|---|---|
| `OperationContract` | the promise: works at most once, nothing after a report, one truthful outcome | abstract |
| `Operation` | one operation and its job on four threads | `Job.cpp`, `Operation.mm` |
| `OperationProofs` | the theorems about `Operation` | |
| `Pool` | the pool with any number of operations, the main thread and one worker each | `Pool.mm`, with `Operation::Stop`, `Job::Run`, `Job::Execute` as far as they touch it |
| `PoolProofs` | the theorems about `Pool` | |
| `CopyingJob` | one copying or moving job over a tree of items, with its destination | `Copying/CopyingJob.cpp`, `Copying/Helpers.cpp` |
| `MCCopyingJob` | the trees and kinds of jobs TLC checks | |
| `CopyingJobProofs` | the theorems about `CopyingJob` | |
| `DeletionJob` | one job that deletes, or moves to the trash | `Deletion/DeletionJob.cpp`, `Deletion/Deletion.mm` |
| `MCDeletionJob` | the tree and kinds of jobs TLC checks | |
| `DeletionJobProofs` | the theorems about `DeletionJob` | |
| `Config` | one path of the configuration, its observers and its file, on any threads | `Config/source/ConfigImpl.cpp` |
| `ConfigProofs` | the theorems about `Config` | |
| `VFSInstances` | the promises of file systems, hosts as objects with references | `VFSInstanceManagerImpl.cpp`, `VFSInstancePromise.cpp` |
| `MCVFSInstances` | the symmetry TLC uses | |
| `VFSInstancesProofs` | the theorems about `VFSInstances` | |
| `PanelLoading` | a panel, its two `SerialQueue`s and the main queue, composed | `PanelController.mm`, `SerialQueue.cpp` |
| `MCPanelLoading` | the places TLC checks | |
| `PanelLoadingProofs` | the theorems about `PanelLoading` | |
| `Filtering` | `std::erase_if` and its like, as an operator that can be proved about | used by `Pool` and `DeletionJob` |
| `SequenceFacts` | lemmas about sequences, filters and recursive functions that the proofs share | |

Definitions keep the names of the source (`m_IsPaused`, `StartPendingOperations`
becomes `GatherUnqueued`, `GatherQueued`, `StartEach`, `Spawn`; `to_start`,
`is_running` are the local variables of the same names). A definition whose
comment begins with "Mutant" is a plausible mistake, placed before the definition
it would replace; `PROJECT.json` names the property each one breaks.

### Operation

The state is the four flags of `Job`, the position `pc` of each thread and, as
history, the notifications fired (`heard`) and whether a `Pause()` raced with the
end of the job (`pauseRace`). A step is one access, or one test, of the flags:

* the **starter** runs `Operation::Start` and `Job::Run`, whose test and whose
  assignment are two steps;
* the **main thread** ("ui") calls `Pause`, `Resume` and `Stop` in any order,
  `MaxCalls` times. `Pause` is a test, an assignment and a callback. `Stop` reads
  `IsRunning()`, sets the flag, resumes, and calls `JobFinished` when the job was
  not running when it looked;
* the **worker** runs `Execute`: `Items` times `BlockIfPaused`, `IsStopped` and the
  item, then `SetCompleted` (which resumes first), `m_IsRunning = false`, `JobFinished`;
* the **waiter** is in `Operation::Wait` and stands for the destructors.

`Resume`, `Stop` and `JobFinished` are procedures shared by the main thread and the
worker. A condition variable is the label its waiter is parked at: `notify_all()`
moves it on, and is lost when the waiter is between its test and its wait. Spurious
wakeups are an action of their own, and no fairness is assumed of them.

`State()` is read one flag per step (`ReadFlag`, in the order of `After`), and what it
returned is used in a later step: `JobFinished` is followed by `FireOutcome`, and the
predicate of `Wait()` by its test (`WaitRead`, then `WaitTested` or `WaitBlock`).
Anything may happen between two of these steps. The starter may set `m_IsRunning`
between the `State()` of a `JobFinished()` called by `Stop()` and the firing: the stop
is then reported while the job's thread is at work, without any item to process.

Left out: titles, dialogs, item status callbacks, and `Wait()` with a timeout.

### Pool

The two lists and the flags of all jobs are the state, with the position and local
variables of each thread. A section under `m_Lock` that calls nothing is one step.
`StopAndWaitForShutdown` calls `Operation::Stop` with the lock held, so there
`m_Lock` is a variable and everything else that locks waits for it. The callback
`m_ShouldBeQueuedCallback` is the constant set `Unqueued`. A job is reduced to what
`OperationContract` promises: its worker asks a question or ends, completed or
stopped. Pausing is left to `Operation`; so is the loss of a report that a pause can
cause. `SetConcurrency` clamps to one and starts nothing. The user enqueues,
answers questions, stops operations (those that are over, too), changes the limit,
and shuts down, in any order.

Left out: the observers of the views and the completion callback.

### CopyingJob

An item is a number, in the order of the scan, with its directory in `Parent`. It
composes the name `Slot[item]` at the destination; items selected in different places
may compose the same one, as they do in the program when a selection comes from a
search. `dst` tells what each name is: nothing, a directory, or a file with the set of
contents it holds (two after appending). A file being written is "torn", one being
appended to "appending". `src` tells which items are still where they were.

The program counter follows `Perform()`: destination, scan, items (`stat`, question,
open, write, or rename), verification, clearing of the sources from the back. Each
step may fail and each failure is put to the user: skip or stop (a retry changes
nothing). `AnswerExists` has the answers to an existing file: overwrite, append, keep
both, skip, stop. `setup` selects the kind of job: copy or move, with or without
verification, renaming possible or not, a destination that is native, a VFS, or a VFS
that stores files at `Close()`, a source whose `RemoveDirectory()` deletes what is
inside. A reading of a directory that fails is not resumed with half of its entries: each
host fails before its first entry or not at all, so a retry is a repetition. `RenameDirectory`
may leave the destination directory behind without marking the source, when the source
cannot be looked at, or opened, afterwards. The histories `sacrificed`, `kept`, `others` and `skipped` record what the
user agreed to lose, asked to keep, what was there before, and what the job gave up.

The code has one procedure per pair of source and destination kinds. They have one
shape, and differ where `setup.native` is asked for: exclusive creation and cutting
off what was appended exist on a native destination only.

Left out: symlinks, `._` files, extended attributes, permissions and times; locked
items (handled as any other error), case-only renaming of a directory, and failure of
the `unlink` that removes an unfinished file. The two ways of composing a destination
path (into a directory, onto a path) are both the function `Slot`.

### DeletionJob

`Perform()` scans the selection into `m_Script`, a stack, and empties the stack; an
item that cannot be moved to the trash goes back into it, with what is below it.
`ScanDirectory()` calls itself, so `frames` is a stack of its calls. A step is one
system call with the answer to its failure: each may fail at any time. The answers are
those of `Deletion.mm`, with the three flags that apply to all that follows; what is
offered depends on `ItemsInScript()`, and a job that is not interactive gets the
default ones. An answer "unlock" that is to apply to all stays in force when the
unlocking fails. A symbolic link is an item that lists another directory's items, so that
following one would be seen. `disk` is what was deleted, trashed and is still locked.
The histories tell what the user agreed to (`agreed`, `unlocking`) and what was given
up (`skipped`).

Left out: `._` files of extended attributes, statistics, and `Retry` of a deletion,
which changes nothing. Only the retry of a reading is a step: the entries read before
the failure stay in `dir_entries`, and are found twice. The interface of hosts allows a
reading to fail half way; the hosts of the program fail before the first entry.

### Config

The model has one path: `m_Document` is its value, `m_Observers` the observers of it in
the order they are fired. Threads of the program set the value, register observers,
drop tokens, commit and reset; the executor runs the delayed writes. `FireObservers`
goes through a snapshot, one observer per step, with the observer's recursive mutex:
`calling` tells who holds it. `m_ObserversLock` is a variable because `DropToken` waits
for that mutex with it. Inside a callback a thread may register or drop observers, its
own included. `file`, `m_WriteScheduled`, `dumps` and `document` follow
`MarkDirty`, `WriteOverwrites` and `Commit`. `TypeOK` says, beside the types, that the list
has an observer once and none that is marked removed.

Left out: `ReloadOverwrites()` (the file changed by somebody else), a `Set` inside a
callback, several blocks of the executor at once, writes that fail, and how documents
are merged. Several paths share only the locks.

### VFSInstances

A host is an object with a configuration and a reference to its parent. `Alive` says
what refers to it: the program, a host in it, a call that is running. `Destroy` is
`~Host()`. `m_Memory` is the vector of infos; `m_PromisesCount` is `count`. Sections
under `m_MemoryLock` are one step, except in `RetrieveVFS()`, which holds the lock while
hosts are spawned. `TameVFS()` of a host that is not known takes as many steps as it
takes locks, for the host and for each of its parents. `decs` counts the
`DecPromiseCount()` that were dispatched to the background.

Left out: a spawn that returns no host (each file system that `Bootstrap/VFSInit.mm`
registers returns one or throws, which is `SpawnFails`), `m_AliveHosts`, the observers (they are called with `m_MemoryLock` held where
an info is refreshed or restored), and a promise that is assigned to itself.

### PanelLoading

A place is a directory on a host; two places may have the same path. A listing is of a
place and of a version of its contents. The module composes three actors: the main
thread, which runs one block of the main queue at a time, and the two serial queues of
the panel, each with a worker that is somewhere in its first task. `SerialQueue` keeps
its length and its stop flag apart: `Stop()` is `Raises` and then `Raise`, the end of a
task is `EndTask` and then `FireDry`. The user goes to directories synchronously (the
main thread stops the loads, waits, fetches, cancels, loads) or asynchronously, refreshes
the panel, presses Esc (`CancelOperations`), or has a task of `commitCancelableLoadingTask`
restore a place, which goes there or calls `loadListing` (`LoadListing`). Every fetch may
fail, also of a directory that can be listed.

Contents change, or a directory cannot be listed any longer, and its host tells the panel
if the panel observes that directory. `observed` is the place `onPathChanged` has observed
last, which only loads do. A refresh puts a listing in the panel without it: when the
listing is of a directory with the same path on another host, the panel shows one
directory and is told of the changes of the other.

The history `late` records a stop flag that was raised on a queue already dry; `missed`
that the panel may stay out of date for one of the reasons that `FreshWhenSettled` lists.

Left out: panels that show several directories, hosts that report no changes, the
caches of hosts, the queue that counts sizes, cursor, focus and history.

## 3. Runs

| Run | Checks | Instance | Shows |
|---|---|---|---|
| `op` | `Operation.cfg` | 2 items, 3 calls of the main thread | all invariants, `StopEndsTheJob`, and that `Operation` implements `OperationContract` |
| `pool` | `Pool.cfg` | 3 operations, one exempt from the limit, one that asks, limits 0 and 2, one stop, one change | the lists stay exact and the limit holds on whatever thread the queue is advanced |
| `pool_queue` | `PoolQueue.cfg` | 2 operations, limits 0 and 2 | the queue always moves on |
| `copying` | `CopyingJob.cfg` | 2 trees of 3 items with the same names, every kind of job, one file of another program | nothing is lost that the user did not give up, nothing unfinished stays, a completed move is complete |
| `deletion` | `DeletionJob.cfg` | 8 items, nested directories, a link out of the selection, both types, with and without a user, locked items with every behaviour, one retry | nothing but the selection is removed, nothing for good or unlocked without consent, nothing forgotten, a stop is obeyed |
| `config` | `Config.cfg` | 2 threads and the executor, 2 observers, 2 values, 2 sets, 1 commit or reset | no callback after its token, no change missed, every call returns |
| `vfs` | `VFSInstances.cfg` | 2 threads, 3 hosts, a configuration inside another, 3 infos, 2 promises | promises are kept, mean what they meant, and every count is explained |
| `panel` | `PanelLoading.cfg` | 3 places, two of the same path, 1 request, 2 changes, any fetch may fail | loads do not meet, stops do not outlive their queue, what is shown is there, but for the cases of `FreshWhenSettled` |
| `op_wait` | `OperationWait.cfg` | 1 item, no calls | violated: `Wait()` misses its only notification |
| `pool_shutdown` | `PoolShutdown.cfg` | 2 operations, no questions | violated: shutdown locks itself out |
| `copying_recursive` | `CopyingJobRecursive.cfg` | move from a host that deletes recursively | violated: skipped items are deleted with their directory |
| `vfs_restore` | `VFSInstancesRestore.cfg` | 1 thread, 2 hosts, 1 promise | violated: a failed restoration waits for its own lock |

Why these bounds. In `Operation`, a call of the main thread takes part in a race with
at most one position of the worker, and the longest scenario known (pause, stop of the
paused job, another call) needs three; the second item lets a pause or stop fall
between two items. For every other number of items and of calls there are the proofs
of section 4. In `Pool`, an exempt operation, one at the limit and one waiting are the
smallest set in which both sections of `StartPendingOperations` have something to do
while another thread is between them; limit 0 meets the clamp, and a change from 2 to
1 leaves more running than allowed. In `CopyingJob`, two directories with a directory
and a file each are the least where a nested error, a merge of two sources into one
name and a clearing from the back all occur. In `DeletionJob`, the
tree has what its properties tell apart: a directory in a directory, a file beside
them, a link to a directory outside, and a file outside; a retry more reads the same
entries once more. In `Config`, two observers are the least for a callback that drops
another one while both are fired; two threads of the program beside the executor are
enough for each pair of calls to overlap. In `VFSInstances`, three hosts are a parent,
one within it and its successor after both have died, and two promises keep an info and
its parent apart; the third info shows what a second chain does to the first. In
`PanelLoading`, two changes and a refresh by the user are the least with which a refresh is
given up because two are in the queue (`Busy`); one request is also the one that moves the
panel away from a directory, stops a load, or brings a second task into the loading queue.
For all other sizes of every module there are the proofs of section 4, but for the
liveness properties. The runs
that are violated are as small as their scenario. `MaxCalls`, `MaxStops`, `MaxChanges`,
`Askers`, `MaxExternals`, `MaxRetries`, `MaxSets`, `MaxCommits`, `MaxHosts`, `MaxInfos`,
`MaxPromises` and `MaxRequests` are the only bounds, each in the guard of the actions it
bounds.

Deadlock is not checked: an operation, a pool and a job come to an end, and the other
models end when their bounds are used up. That they do not stop before it is what the
liveness properties say (`StopEndsTheJob`, `QueueAdvances`, `EveryCallReturns`,
`GoToEnds`).

Fairness. In `Operation`, weak fairness of each of the four threads: they are
preemptively scheduled, and an item takes finitely long. The calls of the user are not
fair, nor are spurious wakeups. In `Pool`, weak fairness of the main thread's work
once it has begun (not of what the user does) and of each worker; a worker waits for
an answer as long as the user likes, and `QueueAdvances` makes allowance for that.
In `Config`, weak fairness of each thread that
is inside a call and of the executor's queue: the spin lock and the mutexes are released
by threads that run. In `VFSInstances`, weak fairness of each running call; spawning a
host ends, one way or the other. In `PanelLoading`, weak fairness of the two queues, of
the blocks of the main queue and of what the main thread has begun; dispatch runs what it
is given, and a listing is fetched or fails. What the user and other programs do is never
fair. `CopyingJob` and `DeletionJob` have no fairness and no liveness properties.

What the invariants exempt. Some hold only with an exception that the code really makes;
each is a term of the formula, so that nothing else gets through. `FinishNotLost`: a
`Pause()` that raced with the end. `SourcesNotLost`: section 5. `ChangesReachTheFile`:
changes that no write was scheduled for (`stranded`). `EveryCallReturns`: `Entangled`, a
deadlock between `DropToken()` and a callback. `OneInfoPerHost`: `twins`.
`LoweredWhenDry`: `late`. `FreshWhenSettled`: `missed`, with the cases its comment lists: a
load that showed an older listing; a change of a directory that is shown and not observed
(`PanelController.mm:379-399`); a refresh given up because of a load, an old stop flag, or
two refreshes of the directory the panel had shown before (`PanelController.mm:415`); a
refresh with an older listing, or with one of another host; a refresh that could not list the
directory and a way out of it, or a load, that failed or was given up as well.

A property with such an exception does not catch the hazard that is excepted. It says how far
the damage goes: that nothing else leads to it. The hazards and section 5 name the outcomes.

## 4. Proofs

`OperationProofs` proves, for every number of items and every number of calls, from
the assumptions `ItemsAssumption` (at least one item) and `MaxCallsAssumption` (a
natural number):

| Theorem | States |
|---|---|
| `Invariant` | the inductive invariant `IInv` always holds |
| `TypeCorrect` | `TypeOK` |
| `OneOutcomeHolds` | the observers are told of one outcome at most |
| `CompletedMeansDoneHolds` | only a job that processed every item completes |
| `FinishNotLostHolds` | the end is reported, unless a `Pause()` raced with it |
| `WaitReturnsAfterPerformHolds` | `Wait()` does not return under `Perform()` |
| `Implementation` | `Spec => ImplementsContract` |

None of the properties is inductive: that a second outcome is not reported depends on
how far the worker is, on why it called a procedure, and on what it has processed.
`IInv` strengthens them by six parts:

* `ThreadInv`: `m_IsRunning` holds exactly while the worker is inside `Execute()`;
  there is no worker before `Run()` detached it; a waiter that has read past
  `m_IsRunning` waits for a job that has ended;
* `ReturnInv`: where the shared procedures return to tells why they were called;
* `ProgressInv`: how many items are done at each position, and that past the end the
  job is completed or stopped;
* `ReadingInv`: what a `JobFinished()` may conclude from the flags it has read so far.
  Past `m_IsRunning` the job is `Barren`: its thread has ended, or has processed nothing
  and will not, because the stop came first;
* `ReportInv`: "Stop" was reported only of a stopped job that is barren and did not
  complete, "Completion" only of a completed one;
* `PauseInv`: `m_IsPaused` is clear near the end, or a race was recorded.

One lemma per part shows that a step keeps it, with one step of the proof per action.
`ReadingInv` is where the protocol is at stake: `Stop()` decides on a value of
`IsRunning()` that is stale when `JobFinished()` runs, the flags are read one after
another, and the result is used later still. A job that is told to stop before its thread
starts may thus be reported as stopped while it runs. What saves the report is the order of
the reads, and that such a job finds `m_IsStopped` before its first item. The contract says
just that: `ReportStop` is allowed while the job works if it has processed nothing, and
nothing is processed after a report.

The refinement maps the worker's position to the contract's phase and the outcomes heard
to `reported`: `RunSpawn` is `Begin`, `ProcessItem` is `ProcessItem`, `ClearRunning` is
`End`, `FireOutcome` is `ReportStop`, `ReportCompletion` or a stutter, and all other steps
stutter (`StepImplements`).

`ConfigProofs` proves, for any numbers of threads, observers, values, sets and commits,
from `NamesAssumption`, `ValuesAssumption` and `BoundsAssumption`:

| Theorem | States |
|---|---|
| `Invariant` | the inductive invariant `IInv` always holds |
| `TypeCorrect` | `TypeOK` |
| `SilentAfterDropHolds` | no callback runs after `DropToken()` has returned, but for one that dropped its own token |
| `DropFindsObserver` | `DropToken()` finds what it is to drop |
| `ChangesInvariant` | the inductive invariant `ChangesInv` of the next two |
| `LastChangeSeenHolds` | no observer is left with an old value when all threads are done |
| `ChangesReachTheFileHolds` | nor is the file, unless no write was scheduled for the change |

`SilentAfterDrop` is not inductive: what keeps a callback from being fired out of an old
snapshot is that its observer is marked, that it was marked because `DropToken()` found
it, and that it was found because it had stayed in a list that other threads replaced
meanwhile. Hence `TokenInv` (a token is in one hand), `ListInv` (observers stay until
their own tokens are dropped) and `RemovedInv` (what was dropped is marked). `ListInv`
rests on the lemma `RemoveAtKeeps`: removing an element of a sequence keeps all others.

The two properties about changes speak of the end only, so `ChangesInv` says what leads
there: an observer that has not seen the value of the document is in front of a thread
that will fire it (`FreshInv`, `WillFire`), and a value that is not in the file is in a
write to come, before a `MarkDirty()`, or known to be in neither (`FileInv`,
`ToBeWritten`). A callback reads the document, not the value its thread has set: whoever
comes to an observer last brings it up to date, whatever order the threads run in.

`PanelLoadingProofs` proves, for any places, any number of requests and of changes, from
`PlacesAssumption` and `BoundsAssumption`:

| Theorem | States |
|---|---|
| `Invariant` | the inductive invariant `IInv` always holds |
| `TypeCorrect` | `TypeOK` |
| `LoadsAloneHolds` | the main thread does not load while a task of the loading queue runs |
| `PanelInvariant` | the inductive invariant `PanelInv` of the next two |
| `LoweredWhenDryHolds` | a dry queue does not keep the flag of a `Stop()` |
| `FreshWhenSettledHolds` | the panel shows what is there once nothing is under way, but for the named cases |

`IInv` consists of `QueueInv` (the length of a queue counts the tasks that have not
ended; the one that made it dry is there until `FireDry()` is over), `MainInv` (past
`Wait()` no task of the loading queue has yet to run) and `ListingInv` (what is loaded was
listed, versions are counted by changes). `MainInv` holds although `Stop()` and `Wait()` are
not atomic, because only blocks of the main queue and the user put tasks into the loading
queue, and the main thread is not between two blocks.

`FreshWhenSettled` speaks of the end as well. `VersionInv` says that no listing, wherever
it is, is ahead of the contents; with it a listing that is as new as the contents stays so
until the next change. `FreshInv` says that a panel which does not show what is there, and
for which nothing was recorded in `missed`, has something `Pending`: a block of the main
queue, a refresh that has yet to fetch, a listing fetched since (or the failure to fetch
one, which leads to the way out), or the way out of the directory, or to another one. A task
that restores a place is not among them: it may come to nothing, and `missed` does not
allow for that, so it cannot be what a stale panel waits for.

`PoolProofs` proves, for any operations, any of them exempt from the limit or with
questions, any limits, stops and changes of the limit, from `OpsAssumption`,
`LimitsAssumption` and `BoundsAssumption`:

| Theorem | States |
|---|---|
| `Invariant` | the inductive invariant `IInv` always holds |
| `TypeCorrect` | `TypeOK`; the limit is at least one |
| `ListedOnceHolds` | an operation is in one of the lists, once |
| `NoneForgottenHolds` | an operation listed as running has one thread to start it, or its own one, or is about to be dropped |
| `LiveJobsListedHolds` | a job outside the lists was told to stop |
| `NoStallHolds` | with nothing running and something waiting, a thread is on its way to the queue |
| `ConcurrencyLimitHolds` | no step goes over the limit (an action property) |

`NoneForgotten` counts the threads that are to start an operation, so `StartInv` has to say
that their `to_start` have nothing in common, and hold only what has no thread yet. That is
kept because what is taken off a list was in one of the lists (`ListsInv`) and nothing in
the pending list is in a `to_start` (`OfferedInv`). The stops are what makes it hard: an
operation may be stopped, reported and dropped between the section that lists it and its
start. `MainInv` and `NoticeInv` say where the main thread then is, and `JobInv` relates
the flags of a job, of which `Stop()` uses an old value, to the position of its worker.

`DeletionJobProofs` proves, for any tree of items with links in it, any selections and kinds
of jobs, any failures and answers, from `TreeAssumption`, `SetupsAssumption` and
`MaxRetriesAssumption`:

| Theorem | States |
|---|---|
| `Invariant` | the inductive invariant `IInv` always holds |
| `TypeCorrect` | `TypeOK` |
| `OnlySelectionHolds` | nothing outside the selection is removed |
| `ErasedByConsentHolds` | nothing is erased instead of trashed without the user's consent |
| `NothingForgottenHolds` | what is left of the selection was given up by an answer |
| `StopsSoonHolds` | after a stop, the item at hand is the last to go |
| `UnlockedByConsentHolds` | no locked item is erased unless it was to be unlocked |

The tree is given by `Listing`, what reading a directory returns, and `Up`, the item and the
directories it is in. `TreeAssumption` says that the two agree: what is listed in a directory
is in it, what is in it is listed or is in something listed, and `Up` is closed upwards. It
does not ask that an item is listed once, or that a name that a link lists is in its
directory. `NothingForgotten` is about the end; `AccountInv` says at every step where an item
that is still there is: in the script, in a call of `ScanDirectory()` or below something
that has yet to be scanned, in the rest of the selection, or around or below something given
up. `PresentInv` (items are there only with their directories) rules out that an item
outlives the directory it would be found in. `SelectionInv`, `ConsentInv` and `LockInv` carry
a right to delete from where it was given, through the script and nested scans, to the
system call.

`CopyingJobProofs` proves, for any tree of any size, any names that it composes, any kinds
of jobs, failures, answers and files of other programs, from `TreeAssumption`,
`SlotAssumption`, `SetupsAssumption` and `MaxExternalsAssumption`:

| Theorem | States |
|---|---|
| `Invariant` | the inductive invariant `IInv` of every job |
| `TypeCorrect` | `TypeOK` |
| `NoTornFilesHolds` | no unfinished file is left |
| `DestinationsNotLostHolds` | nothing at a native destination is destroyed without consent |
| `JobInvariant` | the inductive invariant `JobInv` of the jobs in scope |
| `SourcesNotLostHolds` | no content of the selection is lost |
| `CompleteMoveHolds` | a job that gave up on nothing brought everything, and a move left nothing |

The last three have two hypotheses more, which are operators of `CopyingJob`.
`SetupsInScope`: the source's `RemoveDirectory()` is not recursive, and a destination that
stores files at `Close()` comes with verification. Outside it both properties are false, as
the run `copying_recursive` and point 6 of section 5 show. `EntriesApart`: if there is a job that
may rename directories as a whole, the entries of one directory compose different names. A
renaming stays on one volume, which tells names apart in the same way at both ends; if it did
not, the second entry would be lost below the renamed directory. Items selected in different
places may compose the same name all the same. `MCCopyingJob` states both for the instance
that TLC checks, so there are trees and jobs that satisfy them.

`JobInv` consists of the invariant of every job (`PositionInv`, `HoldsInv`, `OpenInv`: what
each position and each name may hold, and that what is about to be overwritten was given up)
and of `SelectionInv` and `AccountInv`. `SelectionInv` says which name an item goes to
(`TargetInv`, `AlternativeInv`), that a new file meets no content (`NewInv`), that both ends
are trees, and that a file marked for deletion does not need its source, or will be verified
before it is deleted (`MarkedSafe`). `AccountInv` says that a job which has given up on
nothing has moved, or marked, every item behind the current one. Renaming a directory moves
its subtree in one step; that an item is in the subtree of one that is in the subtree of a
third is proved from the equation of the recursive function, for any depth.

`VFSInstancesProofs` proves, for any configurations, any number of hosts, infos and promises,
from `ThreadsAssumption`, `ConfigsAssumption` and `BoundsAssumption`:

| Theorem | States |
|---|---|
| `Invariant` | the inductive invariant `IInv` always holds |
| `TypeCorrect` | `TypeOK` |
| `PromisesKeptHolds` | an info stays as long as something refers to it |
| `CountsExplainedHolds` | the count of an info is the number of its references |
| `NothingKeptInVainHolds` | at rest, an info has a live host or a reference |
| `PromiseInvariant` | `PromiseInv`, the inductive invariant behind the next two |
| `OneInfoPerHostHolds` | a host has one info, unless threads tamed it at once or an older chain took it (`twins`) |
| `PromiseMeansItsHostHolds` | an info and its uplinks have the configurations of its host and of those it is in |

`ThreadsAssumption`, that there are finitely many threads, is needed because `Handles` counts
the threads that hold a promise. `CountInv` is `CountsExplained` for all ids, those without an
info included, for an id is used again after its info is gone. It is kept by a sum of
cardinalities that each step changes by one on either side; the lemmas about `Links`,
`Handles` and `decs` do that once for each. `RestoringInv` says that the thread with
`m_MemoryLock` has an info without a host for each host it will spawn, and `TamingInv` that a
thread which has tamed a parent, and dropped the promise for it, still finds an info of it:
the parent is alive, since the host in it is. The chain of parents that `RetrieveVFS()` goes
up is a recursive function; ids grow from parents to children (`HostsInv`), so it ends.

`PromiseInv` adds to `IInv` what a promise means. `PromiseMeansItsHost` compares two recursive
functions, one along infos and one along hosts. Numbers of hosts are used again when a host
has been destroyed, so a host may have a smaller number than the one it is in; `AncestryInv`
says that there is a rank which falls from a host to its parent, and `RankedRecursion` shows
from any such rank that the function exists. `MeaningInv` says the same as the property without
recursion: there is a set of pairs of infos and hosts, closed under parents, in which the
configurations agree, and an info is paired with its host. It is kept by `RetrieveVFS()`
because the info above the next one that it restores describes the host in which it spawns
(`DescendingInv`), and by `TameVFS()` because the chain it reuses or makes is that of the host.
`OneInfoPerHost` needs `OvertakenInv`: a thread has found no info for the hosts in its
stack (for the last one not before it goes on to the parent), and if one of them has got an
info since, it is in `twins`.

Two definitions were changed for these proofs. `OneInfoPerHost` became stronger: it exempted
infos whose host has been destroyed, which the proof does not need. In `PromiseMeansItsHost`
the two functions now have what they are about as their domain, the infos and the hosts there
are, instead of every number within the bounds.

`SequenceFacts` has what these proofs share. The induction theorems of the library take an
operator as a parameter and cannot be used, so its lemmas argue by the least counterexample:
a set of natural numbers that is not empty has a least element (`LeastNumber`). With it the
recursive function in `Filter()` is shown to exist and `FilterProperties` to hold for every
sequence; `CopyingJobProofs` and `VFSInstancesProofs` do the same for functions that recurse
from an item to its parent.

Only model-checked are the liveness properties (`StopEndsTheJob`, `QueueAdvances`,
`EveryCallReturns`, `GoToEnds`) and the violated ones, which are out of the prover's reach
(fairness and `ENABLED`). Every invariant that a passing run checks is a theorem.

## 5. Disagreements between the code and what is said of it

Shown by a run:

1. `Operation::JobFinished()` notifies without the mutex `Wait()` uses
   (`Operation.mm:134`): the notification may be missed and `Wait()` never returns.
2. `Pool::StopAndWaitForShutdown()` calls `Stop()` with `m_Lock` held; stopping an
   operation that is not running calls back into the pool, which locks again
   (`Pool.mm:196`). The same wait would not end either while a worker waits for a
   dialog; the run is set up without dialogs to show the first alone.
3. A move deletes a source directory some of whose items were not copied, and relies
   on `RemoveDirectory()` failing; on WebDAV it does not fail (`CopyingJob.cpp:2499`).
4. `RetrieveVFS()` spawns hosts with `m_MemoryLock` held. When it has restored the parent
   and the host in it cannot be spawned, the parent is destroyed in the same call, and
   its callback waits for that lock (`VFSInstanceManagerImpl.cpp:339`).

Met while modelling, in the models as the code has it, without a run of their own:

5. `Job::Pause()` tests and assigns in two steps (`Job.cpp:118-120`): a completed
   operation may turn paused, which the diagram in `Operation.h:32-37` excludes; if the
   job has not reported yet, its end is never reported and the pool keeps it
   (`pauseRace` in `FinishNotLost`).
6. The result of `Close()` is ignored on a VFS (`CopyingJob.cpp:1738`); on WebDAV it is
   the result of the upload. `MCCopyingJob` has such hosts only together with
   verification; without it a move to one violates `SourcesNotLost`.
7. "Keep both" leaves the occupied path in place when the job is stopped while a free
   one is searched, and the rename goes on over it (`CopyingJob.cpp:190`): the exception
   of `SourcesNotLost`.
8. `Config::Commit()` promises to do nothing if there are no changes to be written; it
   leaves `m_WriteScheduled` set (`ConfigImpl.cpp:459`), and later changes are not
   written before the next `Commit()` or `ResetToDefaults()`.
9. A change that is made after a write has taken the document, and before it clears the
   flag, is in no write (`ConfigImpl.cpp:422`, `429`).
10. A button of the sheet for a directory that cannot be read is titled "Abort" and skips
    the directory (`Deletion.mm:82`); the job goes on.
11. `recoverFromInvalidDirectory()`: "we can't work on this vfs. currently for simplicity
    - just go home". The request is made by a task of the loading queue, and
    `GoToDirWithContext()` gives up because that queue is not empty
    (`PanelController.mm:971`, `1027`): the panel stays where nothing can be listed.
12. "Note that OnDry() will be called before Wait() will return" (`SerialQueue.h:42`):
    `Wait()` returns at once when the length is zero, which it is before `FireDry()`.
13. "Will hold this flag more until queue became dry, then will automaticaly lower this
    flag" (`SerialQueue.h:36`): a `Stop()` that saw the last task raises the flag of a dry
    queue (`SerialQueue.cpp:39`), and the next refresh is given up.
14. `SweepDeadMemory()` erases an info without giving back the count of its parent
    (`VFSInstanceManagerImpl.cpp:213`); the parent is then remembered for ever, although
    "there's no strong references" and no promises (`leaked`).
15. Two threads that tame the same host at once make two infos of it, whose promises are
    not equal (`twins`).
16. "discarding a stale request to refresh" (`PanelController.mm:443`): the path alone is
    compared, so the listing of a directory on another host is put in the panel, whose host is
    then not observed (`PanelController.mm:440`, `379-399`).

## 6. Plan

Done: `OperationContract`, `Operation`, `Pool`, `CopyingJob`, `DeletionJob`, `Config`,
`VFSInstances`, `PanelLoading` with `SerialQueue`, with their runs, and the theorems about
each of them. Next, in this order:

1. Proofs: for `CopyingJob`, how much of `SourcesNotLost` holds outside `SetupsInScope`.
2. `Config`: external changes of the file.
3. `DialogResponse`: `AsyncDialogResponse` between worker and main thread with `Abort()`,
   composed with the shutdown of the pool; the completion callback of `Pool` as a history.
4. Sequential algorithms worth a reference definition: the name search of
   `FindNonExistingItemPath`, the LRU cache of `Base`, the history of a panel.


## 7. Not modelled

Terminal, viewer, encodings and archive formats are sequential processing of text and
bytes, covered by unit tests of the repository. RoutedIO, CUI and the utilities are
wrappers of the system. Statistics and progress are for display only. The protocols of
network hosts are input and output; what their operations mean to a job is in
`CopyingJob`. The other jobs (compression, attributes, batch renaming, links, new
directories) have the shape of the two that are modelled. Vendored code
(`3rd_Party`) is used as it is.

Single hazards that are known and not covered: a callback of `Job` that is replaced while
`Resume()` copies it (`Job.cpp:169`); the resume callback of an operation, which is bound
to `JobPaused()` (`Operation.mm:69`, modelled as it is, without a property); the pool's
completion callback, which is called twice when a completed operation is stopped
(`Pool.mm:68`); the answer of `AsyncDialogResponse`, read without its lock; the pause
counter of `Statistics`; a `Set()` between the steps of `ReloadOverwrites()`; a promise
assigned to itself (`VFSInstancePromise.cpp:37`), which is given back before it is taken.
