------------------------------- MODULE Pool -------------------------------
(***************************************************************************)
(* ops::Pool (Operations/source/Pool.mm): the queue of one window's        *)
(* operations, with the operations it starts.  The main thread enqueues,   *)
(* stops, answers dialogs and shuts down; every started operation has a    *)
(* worker thread of its own, named like the operation, that runs the job   *)
(* and, on its way out, the pool's observer OperationDidFinish().          *)
(*                                                                         *)
(* An operation is seen here as OperationContract.tla promises: pausing,   *)
(* which can delay a job or lose its last notification, is left to         *)
(* Operation.tla.  A section of m_Lock that calls nothing is one step;     *)
(* StopAndWaitForShutdown() calls Operation::Stop() with m_Lock held.      *)
(***************************************************************************)
EXTENDS Integers, Sequences, SequencesExt, FiniteSets, Filtering

CONSTANTS
    Ops,         \* the operations
    Unqueued,    \* those for which m_ShouldBeQueuedCallback returns false
    Main,        \* the main thread
    Limits,      \* the values SetConcurrency() is called with
    Askers,      \* bound: the operations that put a question to the user, once each
    MaxStops,    \* bound: how many times the user stops an operation
    MaxChanges   \* bound: how many times the concurrency limit is changed

ASSUME OpsAssumption == Main \notin Ops /\ Unqueued \subseteq Ops /\ Askers \subseteq Ops
ASSUME LimitsAssumption == Limits \subseteq Int /\ Limits # {}
ASSUME BoundsAssumption == MaxStops \in Nat /\ MaxChanges \in Nat

Threads == Ops \cup {Main}

VARIABLES
    m_PendingOperations, m_RunningOperations,  \* sequences of operations
    m_Concurrency,
    m_Lock,       \* whether StopAndWaitForShutdown() holds m_Lock
    offered,      \* the operations not enqueued yet
    m_IsRunning, m_IsCompleted, m_IsStopped,   \* the flags of the jobs
    pc,           \* where each thread is
    operation,    \* the operation each thread is working on
    to_start,     \* the local variable of StartPendingOperations(), per thread
    is_running,   \* the local variable of Operation::Stop()
    to_stop,      \* the operations StopAndWaitForShutdown() has yet to stop
    asked,        \* the operations that have put a question to the user
    stops, changes   \* how often the user stopped, how often the limit changed

lists == <<m_PendingOperations, m_RunningOperations>>
jobs == <<m_IsRunning, m_IsCompleted, m_IsStopped>>
shutdown == <<m_Lock, to_stop>>
bounds == <<asked, stops, changes>>
vars == <<lists, m_Concurrency, shutdown, offered, jobs, pc, operation, to_start,
          is_running, bounds>>

\* SetConcurrency(): std::max(_maximum_current_operations, 1).
AtLeastOne(n) == IF n < 1 THEN 1 ELSE n

MainLabels == {"idle", "setStopped", "stopNext", "drain", "closed"}
WorkerLabels == {"off", "perform", "asking", "over"}
SharedLabels == {"jobFinished", "didFinish", "gatherUnqueued", "gatherQueued",
                 "startEach", "spawn"}

TypeOK ==
    /\ m_PendingOperations \in Seq(Ops)
    /\ m_RunningOperations \in Seq(Ops)
    /\ m_Concurrency \in Nat \ {0}
    /\ m_Lock \in BOOLEAN
    /\ offered \subseteq Ops
    /\ m_IsRunning \in [Ops -> BOOLEAN]
    /\ m_IsCompleted \in [Ops -> BOOLEAN]
    /\ m_IsStopped \in [Ops -> BOOLEAN]
    /\ pc \in [Threads -> MainLabels \cup WorkerLabels \cup SharedLabels]
    /\ pc[Main] \in MainLabels \cup SharedLabels
    /\ \A op \in Ops : pc[op] \in WorkerLabels \cup SharedLabels
    /\ operation \in [Threads -> Ops]
    /\ to_start \in [Threads -> Seq(Ops)]
    /\ is_running \in BOOLEAN
    /\ to_stop \in Seq(Ops)
    /\ asked \subseteq Ops
    /\ stops \in 0..MaxStops
    /\ changes \in 0..MaxChanges

Init ==
    /\ m_PendingOperations = <<>> /\ m_RunningOperations = <<>>
    /\ \E n \in Limits : m_Concurrency = AtLeastOne(n)
    /\ m_Lock = FALSE
    /\ offered = Ops
    /\ m_IsRunning = [op \in Ops |-> FALSE]
    /\ m_IsCompleted = [op \in Ops |-> FALSE]
    /\ m_IsStopped = [op \in Ops |-> FALSE]
    /\ pc = [t \in Threads |-> IF t = Main THEN "idle" ELSE "off"]
    /\ operation \in {f \in [Threads -> Ops] : \A op \in Ops : f[op] = op}
    /\ operation[Main] = CHOOSE op \in Ops : TRUE
    /\ to_start = [t \in Threads |-> <<>>]
    /\ is_running = FALSE
    /\ to_stop = <<>>
    /\ asked = {}
    /\ stops = 0 /\ changes = 0

Goto(t, label) == pc' = [pc EXCEPT ![t] = label]

\* Where a thread goes on once it is done with Operation::JobFinished() or with
\* StartPendingOperations().
Return(t) == IF t # Main THEN "over" ELSE IF m_Lock THEN "stopNext" ELSE "idle"

\* Operation::State(), without the pause.
State(op) ==
    IF m_IsRunning[op] THEN "Running"
    ELSE IF m_IsCompleted[op] THEN "Completed"
    ELSE IF m_IsStopped[op] THEN "Stopped"
    ELSE "Cold"

-----------------------------------------------------------------------------
(* Pool::StartPendingOperations(), on any thread.                          *)

\* Mutant: the operations stay in the queue as well.
GatherUnqueuedKeeping(t) ==
    LET gathered == Filter(m_PendingOperations, Unqueued)
    IN  /\ pc[t] = "gatherUnqueued"
        /\ ~m_Lock
        /\ to_start' = [to_start EXCEPT ![t] = gathered]
        /\ m_RunningOperations' = m_RunningOperations \o gathered
        /\ Goto(t, "gatherQueued")
        /\ UNCHANGED <<m_PendingOperations, m_Concurrency, shutdown, offered, jobs, operation,
                       is_running, bounds>>

\* 1st: the operations that do not obey the limit, in their order.
GatherUnqueued(t) ==
    LET gathered == Filter(m_PendingOperations, Unqueued)
    IN  /\ pc[t] = "gatherUnqueued"
        /\ ~m_Lock
        /\ to_start' = [to_start EXCEPT ![t] = gathered]
        /\ m_RunningOperations' = m_RunningOperations \o gathered
        /\ m_PendingOperations' = Filter(m_PendingOperations, Ops \ Unqueued)
        /\ Goto(t, "gatherQueued")
        /\ UNCHANGED <<m_Concurrency, shutdown, offered, jobs, operation, is_running, bounds>>

\* Mutant: a stale count of the running operations, taken before the 1st step added to them.
RoomBeforeUnqueued ==
    IF m_Concurrency > Len(m_PendingOperations) THEN Len(m_PendingOperations)
    ELSE m_Concurrency

\* How many operations the limit allows to be taken off the front of the queue.
Room ==
    LET free == m_Concurrency - Len(m_RunningOperations)
    IN  IF free < 0 THEN 0
        ELSE IF free > Len(m_PendingOperations) THEN Len(m_PendingOperations)
        ELSE free

\* Mutant: the operations gathered by the 1st step are dropped.
GatherQueuedOnly(t) ==
    LET gathered == SubSeq(m_PendingOperations, 1, Room)
    IN  /\ pc[t] = "gatherQueued"
        /\ ~m_Lock
        /\ to_start' = [to_start EXCEPT ![t] = gathered]
        /\ m_RunningOperations' = m_RunningOperations \o gathered
        /\ m_PendingOperations' =
               SubSeq(m_PendingOperations, Room + 1, Len(m_PendingOperations))
        /\ Goto(t, "startEach")
        /\ UNCHANGED <<m_Concurrency, shutdown, offered, jobs, operation, is_running, bounds>>

\* Mutant: the operations are started without being listed.
GatherQueuedUnlisted(t) ==
    LET gathered == SubSeq(m_PendingOperations, 1, Room)
    IN  /\ pc[t] = "gatherQueued"
        /\ ~m_Lock
        /\ to_start' = [to_start EXCEPT ![t] = @ \o gathered]
        /\ m_PendingOperations' =
               SubSeq(m_PendingOperations, Room + 1, Len(m_PendingOperations))
        /\ Goto(t, "startEach")
        /\ UNCHANGED <<m_RunningOperations, m_Concurrency, shutdown, offered, jobs, operation,
                       is_running, bounds>>

\* 2nd: the front of the queue, until there are m_Concurrency running operations.
GatherQueued(t) ==
    LET gathered == SubSeq(m_PendingOperations, 1, Room)
    IN  /\ pc[t] = "gatherQueued"
        /\ ~m_Lock
        /\ to_start' = [to_start EXCEPT ![t] = @ \o gathered]
        /\ m_RunningOperations' = m_RunningOperations \o gathered
        /\ m_PendingOperations' =
               SubSeq(m_PendingOperations, Room + 1, Len(m_PendingOperations))
        /\ Goto(t, "startEach")
        /\ UNCHANGED <<m_Concurrency, shutdown, offered, jobs, operation, is_running, bounds>>

\* op->Start(): the test of Job::Run() ...
StartEach(t) ==
    /\ pc[t] = "startEach"
    /\ IF to_start[t] = <<>>
         THEN Goto(t, Return(t)) /\ UNCHANGED to_start
         ELSE IF m_IsRunning[Head(to_start[t])] \/ m_IsStopped[Head(to_start[t])]
         THEN Goto(t, "startEach") /\ to_start' = [to_start EXCEPT ![t] = Tail(@)]
         ELSE Goto(t, "spawn") /\ UNCHANGED to_start
    /\ UNCHANGED <<lists, m_Concurrency, shutdown, offered, jobs, operation, is_running, bounds>>

\* ... and its second half.
Spawn(t) ==
    LET op == Head(to_start[t])
    IN  /\ pc[t] = "spawn"
        /\ m_IsRunning' = [m_IsRunning EXCEPT ![op] = TRUE]
        /\ pc' = [pc EXCEPT ![t] = "startEach", ![op] = "perform"]
        /\ to_start' = [to_start EXCEPT ![t] = Tail(@)]
        /\ UNCHANGED <<lists, m_Concurrency, shutdown, offered, m_IsCompleted, m_IsStopped,
                       operation, is_running, bounds>>

-----------------------------------------------------------------------------
(* Operation::JobFinished() and its observer Pool::OperationDidFinish().   *)

\* Mutant: an operation that was stopped does not report to the pool.
JobFinishedCompleted(t) ==
    /\ pc[t] = "jobFinished"
    /\ Goto(t, IF State(operation[t]) = "Completed" THEN "didFinish" ELSE Return(t))
    /\ UNCHANGED <<lists, m_Concurrency, shutdown, offered, jobs, operation, to_start,
                   is_running, bounds>>

JobFinished(t) ==
    /\ pc[t] = "jobFinished"
    /\ Goto(t, IF State(operation[t]) \in {"Completed", "Stopped"} THEN "didFinish"
               ELSE Return(t))
    /\ UNCHANGED <<lists, m_Concurrency, shutdown, offered, jobs, operation, to_start,
                   is_running, bounds>>

\* Mutant: nothing is started when an operation is over.
OperationDidFinishQuietly(t) ==
    /\ pc[t] = "didFinish"
    /\ ~m_Lock
    /\ m_RunningOperations' = Filter(m_RunningOperations, Ops \ {operation[t]})
    /\ m_PendingOperations' = Filter(m_PendingOperations, Ops \ {operation[t]})
    /\ Goto(t, Return(t))
    /\ UNCHANGED <<m_Concurrency, shutdown, offered, jobs, operation, to_start, is_running,
                   bounds>>

\* On the main thread inside StopAndWaitForShutdown() this waits for a mutex
\* that the thread itself holds.
OperationDidFinish(t) ==
    /\ pc[t] = "didFinish"
    /\ ~m_Lock
    /\ m_RunningOperations' = Filter(m_RunningOperations, Ops \ {operation[t]})
    /\ m_PendingOperations' = Filter(m_PendingOperations, Ops \ {operation[t]})
    /\ Goto(t, "gatherUnqueued")
    /\ UNCHANGED <<m_Concurrency, shutdown, offered, jobs, operation, to_start, is_running,
                   bounds>>

-----------------------------------------------------------------------------
(* The worker of operation op.                                             *)

\* The job asks the user and waits for a response (Operation::WaitForDialogResponse).
Ask(op) ==
    /\ pc[op] = "perform"
    /\ op \in Askers \ asked
    /\ asked' = asked \cup {op}
    /\ Goto(op, "asking")
    /\ UNCHANGED <<lists, m_Concurrency, shutdown, offered, jobs, operation, to_start,
                   is_running, stops, changes>>

\* The rest of Execute(): Perform() returns because all is done, the job was
\* stopped or it stops itself; SetCompleted() unless stopped; m_IsRunning = false.
Execute(op) ==
    /\ pc[op] = "perform"
    /\ \/ UNCHANGED m_IsStopped
       \/ m_IsStopped' = [m_IsStopped EXCEPT ![op] = TRUE]
    /\ m_IsCompleted' = [m_IsCompleted EXCEPT ![op] = ~m_IsStopped'[op]]
    /\ m_IsRunning' = [m_IsRunning EXCEPT ![op] = FALSE]
    /\ Goto(op, "jobFinished")
    /\ UNCHANGED <<lists, m_Concurrency, shutdown, offered, operation, to_start,
                   is_running, bounds>>

-----------------------------------------------------------------------------
(* The main thread.                                                        *)

Enqueue(op) ==
    /\ pc[Main] = "idle"
    /\ op \in offered
    /\ offered' = offered \ {op}
    /\ m_PendingOperations' = Append(m_PendingOperations, op)
    /\ Goto(Main, "gatherUnqueued")
    /\ UNCHANGED <<m_RunningOperations, m_Concurrency, shutdown, jobs, operation, to_start,
                   is_running, bounds>>

\* A block of the main queue presents the question and the user responds.
Answer(op) ==
    /\ pc[Main] = "idle"
    /\ pc[op] = "asking"
    /\ Goto(op, "perform")
    /\ UNCHANGED <<lists, m_Concurrency, shutdown, offered, jobs, operation, to_start,
                   is_running, bounds>>

\* Operation::Stop(): is_running = IsRunning() ...
BeginStop(op) ==
    /\ operation' = [operation EXCEPT ![Main] = op]
    /\ is_running' = m_IsRunning[op]
    /\ Goto(Main, "setStopped")

\* The user stops an operation that was enqueued, maybe one that is over.
UserStop(op) ==
    /\ pc[Main] = "idle"
    /\ op \notin offered
    /\ stops < MaxStops
    /\ stops' = stops + 1
    /\ BeginStop(op)
    /\ UNCHANGED <<lists, m_Concurrency, shutdown, offered, jobs, to_start, asked, changes>>

\* ... Job::Stop(); if( !is_running ) JobFinished().
SetStopped ==
    /\ pc[Main] = "setStopped"
    /\ m_IsStopped' = [m_IsStopped EXCEPT ![operation[Main]] = TRUE]
    /\ Goto(Main, IF is_running THEN Return(Main) ELSE "jobFinished")
    /\ UNCHANGED <<lists, m_Concurrency, shutdown, offered, m_IsRunning, m_IsCompleted,
                   operation, to_start, is_running, bounds>>

\* Mutant: the limit is taken as it comes.
SetConcurrencyAsIs(n) ==
    /\ pc[Main] = "idle"
    /\ changes < MaxChanges
    /\ changes' = changes + 1
    /\ m_Concurrency' = n
    /\ UNCHANGED <<lists, shutdown, offered, jobs, pc, operation, to_start, is_running,
                   asked, stops>>

\* The preferences change the limit; nothing is started on that occasion.
SetConcurrency(n) ==
    /\ pc[Main] = "idle"
    /\ changes < MaxChanges
    /\ changes' = changes + 1
    /\ m_Concurrency' = AtLeastOne(n)
    /\ UNCHANGED <<lists, shutdown, offered, jobs, pc, operation, to_start, is_running,
                   asked, stops>>

\* StopAndWaitForShutdown(): the lock, ...
Shutdown ==
    /\ pc[Main] = "idle"
    /\ m_PendingOperations \o m_RunningOperations # <<>>
    /\ m_Lock' = TRUE
    /\ to_stop' = m_PendingOperations \o m_RunningOperations
    /\ Goto(Main, "stopNext")
    /\ UNCHANGED <<lists, m_Concurrency, offered, jobs, operation, to_start, is_running, bounds>>

\* ... a Stop() for each operation, ...
StopNext ==
    /\ pc[Main] = "stopNext"
    /\ IF to_stop = <<>>
         THEN /\ m_Lock' = FALSE
              /\ Goto(Main, "drain")
              /\ UNCHANGED <<to_stop, operation, is_running>>
         ELSE /\ BeginStop(Head(to_stop))
              /\ to_stop' = Tail(to_stop)
              /\ UNCHANGED m_Lock
    /\ UNCHANGED <<lists, m_Concurrency, offered, jobs, to_start, bounds>>

\* ... and the loop until the pool is Empty(); the window closes.
Drain ==
    /\ pc[Main] = "drain"
    /\ m_PendingOperations = <<>> /\ m_RunningOperations = <<>>
    /\ Goto(Main, "closed")
    /\ UNCHANGED <<lists, m_Concurrency, shutdown, offered, jobs, operation, to_start,
                   is_running, bounds>>

-----------------------------------------------------------------------------
Shared(t) ==
    \/ GatherUnqueued(t) \/ GatherQueued(t) \/ StartEach(t) \/ Spawn(t)
    \/ JobFinished(t) \/ OperationDidFinish(t)

Worker(op) ==
    \/ Ask(op) \/ Execute(op)
    \/ Shared(op)

MainStep == SetStopped \/ StopNext \/ Drain \/ Shared(Main)

User ==
    \/ \E op \in Ops : Enqueue(op) \/ Answer(op) \/ UserStop(op)
    \/ \E n \in Limits : SetConcurrency(n)
    \/ Shutdown

Next == (\E op \in Ops : Worker(op)) \/ MainStep \/ User

\* Threads are scheduled and jobs end; what the user does is up to the user.
Fairness == WF_vars(MainStep) /\ \A op \in Ops : WF_vars(Worker(op))

Spec == Init /\ [][Next]_vars /\ Fairness

-----------------------------------------------------------------------------
(* Properties.                                                             *)

Pending == ToSet(m_PendingOperations)
Running == ToSet(m_RunningOperations)

\* An operation is listed once at most, in one of the two lists: the two sections
\* of StartPendingOperations() and OperationDidFinish() interleave on any threads.
ListedOnce == IsInjective(m_PendingOperations \o m_RunningOperations)

\* The threads that have op in their to_start.
Starters(op) == {t \in Threads : op \in ToSet(to_start[t])}

\* An operation in the running list is not forgotten between the section that put it
\* there and its end: one thread alone is about to start it, or its job has a thread that
\* has yet to report the end, or it was stopped before it was started and that is about
\* to be noticed by OperationDidFinish().
NoneForgotten ==
    \A op \in Running :
        \/ Cardinality(Starters(op)) = 1 /\ pc[op] = "off"
        \/ Starters(op) = {} /\ pc[op] \in {"perform", "asking", "jobFinished", "didFinish"}
        \/ Starters(op) = {} /\ pc[op] = "off" /\ m_IsStopped[op] /\ operation[Main] = op
             /\ pc[Main] \in {"jobFinished", "didFinish"}

\* A job runs outside the running list only after it was stopped: when Empty() lets
\* the window close, no job is at work that does not know it has to end.
LiveJobsListed ==
    \A op \in Ops : m_IsRunning[op] /\ op \notin Running => m_IsStopped[op]

\* A thread is on its way to the section that takes operations off the queue.
Kicking(t) ==
    \/ pc[t] \in {"gatherUnqueued", "gatherQueued"}
    \/ pc[t] = "didFinish"

\* The queue never stalls: when no operation is listed as running, a thread is on
\* its way to start a pending one.  Nothing else would ever start it.
NoStall ==
    m_PendingOperations # <<>> => Running # {} \/ \E t \in Threads : Kicking(t)

\* Operations that obey the limit are only added to the running list up to it,
\* the operations that do not obey it counted in.
ConcurrencyLimit ==
    [][(Running' \ Running) \ Unqueued # {} => Len(m_RunningOperations') <= m_Concurrency]_vars

\* A queued operation does not stay in the queue for ever, whatever the others do and
\* however the limit is changed, as long as every question is answered and nobody
\* closes the window: it is started, or stopped by the user.
QueueAdvances ==
    \A op \in Ops :
        op \in Pending ~>
            \/ op \notin Pending
            \/ \E o \in Ops : pc[o] = "asking"
            \/ m_Lock

\* The user is asked "The window has running operations. Do you want to stop them
\* and close the window?"; after a yes, StopAndWaitForShutdown() comes to its end.
ShutdownCompletes == m_Lock ~> pc[Main] = "closed"

=============================================================================
