----------------------------- MODULE PoolProofs -----------------------------
(***************************************************************************)
(* Theorems about Pool, for any operations, limits, stops and changes of   *)
(* the limit: its type invariant, that the two lists stay exact whatever   *)
(* threads start operations, that nothing in them is forgotten, and that   *)
(* the queue does not stall.                                               *)
(***************************************************************************)
EXTENDS Pool, SequenceFacts, FiniteSetTheorems

Idle == {"off", "perform", "asking"}    \* a worker that has not ended its job
Reporting == {"jobFinished", "didFinish"}

\* An operation is in one of the lists, at one place of it.
ListsInv ==
    /\ IsInjective(m_PendingOperations) /\ IsInjective(m_RunningOperations)
    /\ Pending \cap Running = {}

\* Before it is in a list an operation is left alone, before it is in the running list it
\* is not started.
OfferedInv ==
    /\ \A op \in offered : op \notin Pending \cup Running /\ pc[op] = "off" /\ ~m_IsStopped[op]
    /\ \A op \in Pending : pc[op] = "off"
    /\ \A op \in Pending \cup offered : \A t \in Threads : op \notin ToSet(to_start[t])

\* What a thread is to start has no thread yet, and is no other one's to start; the pool
\* dropped it from the running list only if it was stopped.
StartInv ==
    \A t \in Threads :
        /\ IsInjective(to_start[t])
        /\ \A op \in ToSet(to_start[t]) :
               /\ pc[op] = "off"
               /\ op \in Running \/ m_IsStopped[op]
               /\ \A u \in Threads \ {t} : op \notin ToSet(to_start[u])
        /\ to_start[t] # <<>> => pc[t] \in {"gatherQueued", "startEach", "spawn"}
        /\ pc[t] = "spawn" => to_start[t] # <<>>

\* The flags of a job go with the position of its worker.
JobInv ==
    \A op \in Ops :
        /\ operation[op] = op
        /\ m_IsRunning[op] <=> pc[op] \in {"perform", "asking"}
        /\ m_IsCompleted[op] => pc[op] \notin Idle
        /\ pc[op] \notin Idle => m_IsCompleted[op] \/ m_IsStopped[op]

\* The main thread holds the lock while it stops operations one by one, and reports only
\* those that were stopped before they were started, or after they had ended.
MainInv ==
    /\ m_Lock => pc[Main] \in {"stopNext", "setStopped"} \cup Reporting
    /\ pc[Main] = "stopNext" => m_Lock
    /\ pc[Main] \in {"setStopped"} \cup Reporting => operation[Main] \notin offered
    /\ pc[Main] = "setStopped" /\ is_running => pc[operation[Main]] # "off"
    /\ pc[Main] \in Reporting => m_IsStopped[operation[Main]]
    /\ ToSet(to_stop) \cap offered = {}

\* That an operation of the lists was stopped before it was started is about to be noticed.
NoticeInv ==
    \A op \in Pending \cup Running :
        m_IsStopped[op] /\ pc[op] = "off" => operation[Main] = op /\ pc[Main] \in Reporting

\* An operation in the running list is to be started, or was stopped before it was, or
\* its worker has yet to report.
RunningInv ==
    \A op \in Running :
        IF pc[op] = "off"
          THEN m_IsStopped[op] \/ \E t \in Threads : op \in ToSet(to_start[t])
          ELSE pc[op] \in {"perform", "asking"} \cup Reporting

IInv ==
    /\ TypeOK
    /\ ListsInv
    /\ OfferedInv
    /\ StartInv
    /\ JobInv
    /\ MainInv
    /\ NoticeInv
    /\ RunningInv
    /\ LiveJobsListed
    /\ NoStall

-----------------------------------------------------------------------------
(* Steps that leave most of the state alone.                               *)

\* Nothing is started: a thread that has nothing to start goes on, and what a thread is to
\* start stays in the running list, or was stopped.
LEMMA StartInvKept ==
  ASSUME TypeOK, StartInv, NEW t \in Threads, NEW label, label # "spawn",
         pc' = [pc EXCEPT ![t] = label],
         pc[t] \notin {"off", "gatherQueued", "startEach", "spawn"},
         to_start' = to_start,
         \A op \in Running \cap Ops : pc[op] = "off" => op \in Running' \/ m_IsStopped'[op],
         \A op \in Ops : m_IsStopped[op] => m_IsStopped'[op]
  PROVE  StartInv'
  <1>1. to_start[t] = <<>>
    BY DEF StartInv
  <1>2. \A u \in Threads : pc'[u] = IF u = t THEN label ELSE pc[u]
    BY DEF TypeOK
  <1> SUFFICES ASSUME NEW u \in Threads
               PROVE  /\ IsInjective(to_start[u])
                      /\ \A op \in ToSet(to_start[u]) :
                             /\ pc'[op] = "off"
                             /\ op \in Running' \/ m_IsStopped'[op]
                             /\ \A v \in Threads \ {u} : op \notin ToSet(to_start[v])
                      /\ to_start[u] # <<>> => pc'[u] \in {"gatherQueued", "startEach", "spawn"}
                      /\ pc'[u] = "spawn" => to_start[u] # <<>>
    BY DEF StartInv
  <1>3. IsInjective(to_start[u])
    BY DEF StartInv
  <1>4. to_start[u] # <<>> => pc'[u] \in {"gatherQueued", "startEach", "spawn"}
    BY <1>1, <1>2 DEF StartInv
  <1>5. pc'[u] = "spawn" => to_start[u] # <<>>
    BY <1>2 DEF StartInv
  <1>6. ASSUME NEW op \in ToSet(to_start[u])
        PROVE  /\ pc'[op] = "off"
               /\ op \in Running' \/ m_IsStopped'[op]
               /\ \A v \in Threads \ {u} : op \notin ToSet(to_start[v])
    <2>1. op \in Ops
      BY ToSetEmpty DEF TypeOK
    <2>2. pc[op] = "off" /\ op # t /\ op \in Threads
      BY <2>1 DEF StartInv, Threads
    <2>3. op \in Running \/ m_IsStopped[op]
      BY DEF StartInv
    <2>4. \A v \in Threads \ {u} : op \notin ToSet(to_start[v])
      BY DEF StartInv
    <2> QED
      BY <1>2, <2>1, <2>2, <2>3, <2>4
  <1> QED
    BY <1>3, <1>4, <1>5, <1>6

USE OpsAssumption, BoundsAssumption
    DEF Pending, Running, Threads, Goto, Return, State, MainLabels, WorkerLabels,
        SharedLabels, Idle, Reporting, lists, jobs, shutdown, bounds

-----------------------------------------------------------------------------
(* The main thread.                                                        *)

\* A window may close.
LEMMA DrainKeeps ==
  ASSUME IInv, Drain
  PROVE  IInv'
  <1> USE DEF IInv
  <1>1. TypeOK' /\ JobInv' /\ MainInv' /\ LiveJobsListed'
    BY DEF Drain, TypeOK, JobInv, MainInv, LiveJobsListed
  <1>2. ListsInv' /\ OfferedInv'
    BY DEF Drain, TypeOK, ListsInv, OfferedInv
  <1>3. NoticeInv' /\ RunningInv' /\ NoStall'
    BY DEF Drain, TypeOK, NoticeInv, RunningInv, NoStall
  <1>4. StartInv'
    BY StartInvKept DEF Drain
  <1> QED
    BY <1>1, <1>2, <1>3, <1>4

\* The preferences change the limit.
LEMMA SetConcurrencyKeeps ==
  ASSUME IInv, NEW n \in Limits, SetConcurrency(n)
  PROVE  IInv'
  <1> USE DEF IInv
  <1>1. AtLeastOne(n) \in Nat \ {0}
    BY LimitsAssumption DEF AtLeastOne
  <1>2. TypeOK'
    BY <1>1 DEF SetConcurrency, TypeOK
  <1>3. ListsInv' /\ OfferedInv' /\ StartInv' /\ JobInv' /\ MainInv' /\ NoticeInv' /\ RunningInv'
        /\ LiveJobsListed'
    BY DEF SetConcurrency, ListsInv, OfferedInv, StartInv, JobInv, MainInv, NoticeInv, RunningInv,
           LiveJobsListed
  <1>4. NoStall'
    BY DEF SetConcurrency, NoStall, Kicking
  <1> QED
    BY <1>2, <1>3, <1>4

\* StopAndWaitForShutdown() takes the lock and both lists.
LEMMA ShutdownKeeps ==
  ASSUME IInv, Shutdown
  PROVE  IInv'
  <1> USE DEF IInv
  <1>1. to_stop' \in Seq(Ops) /\ ToSet(to_stop') = Pending \cup Running
    BY ToSetConcat DEF Shutdown, TypeOK
  <1>2. \A op \in Ops : pc'[op] = pc[op]
    BY DEF Shutdown, TypeOK
  <1>3. TypeOK'
    BY <1>1 DEF Shutdown, TypeOK
  <1>4. MainInv'
    <2>1. pc'[Main] = "stopNext" /\ m_Lock'
      BY DEF Shutdown, TypeOK
    <2>2. ToSet(to_stop') \cap offered' = {}
      BY <1>1 DEF Shutdown, OfferedInv
    <2> QED
      BY <2>1, <2>2 DEF MainInv
  <1>5. ListsInv' /\ OfferedInv' /\ JobInv' /\ LiveJobsListed'
    BY <1>2 DEF Shutdown, TypeOK, ListsInv, OfferedInv, JobInv, LiveJobsListed
  <1>6. NoticeInv' /\ RunningInv' /\ NoStall'
    BY DEF Shutdown, TypeOK, NoticeInv, RunningInv, NoStall, Kicking
  <1>7. StartInv'
    BY StartInvKept DEF Shutdown
  <1> QED
    BY <1>3, <1>4, <1>5, <1>6, <1>7

\* The beginning of Operation::Stop(), for an operation that was enqueued.
LEMMA BeginStopKeeps ==
  ASSUME IInv, NEW op \in Ops \ offered, BeginStop(op), pc[Main] \in {"idle", "stopNext"},
         UNCHANGED <<lists, m_Concurrency, m_Lock, offered, jobs, to_start, asked, changes>>,
         to_stop' \in Seq(Ops), ToSet(to_stop') \cap offered = {}, stops' \in 0..MaxStops
  PROVE  IInv'
  <1> USE DEF IInv
  <1>1. /\ pc' = [pc EXCEPT ![Main] = "setStopped"]
        /\ operation' = [operation EXCEPT ![Main] = op]
        /\ is_running' = m_IsRunning[op]
    BY DEF BeginStop
  <1>2. /\ \A o \in Ops : pc'[o] = pc[o] /\ operation'[o] = operation[o]
        /\ pc'[Main] = "setStopped" /\ operation'[Main] = op
    BY <1>1 DEF TypeOK
  <1>3. TypeOK'
    BY <1>1 DEF TypeOK
  <1>4. ListsInv' /\ OfferedInv' /\ JobInv' /\ LiveJobsListed'
    <2>1. Pending \cup Running \subseteq Ops
      BY ToSetEmpty DEF TypeOK
    <2>2. OfferedInv'
      BY <1>2, <2>1 DEF TypeOK, OfferedInv
    <2> QED
      BY <1>2, <2>2 DEF ListsInv, JobInv, LiveJobsListed
  <1>5. MainInv'
    <2>1. m_IsRunning[op] => pc[op] # "off"
      BY DEF JobInv
    <2> QED
      BY <1>1, <1>2, <2>1 DEF MainInv
  <1>6. NoticeInv'
    <2>1. \A o \in Pending \cup Running : ~(m_IsStopped[o] /\ pc[o] = "off")
      BY DEF NoticeInv
    <2>2. Pending \cup Running \subseteq Ops
      BY ToSetEmpty DEF TypeOK
    <2> QED
      BY <1>2, <2>1, <2>2 DEF NoticeInv
  <1>7. RunningInv'
    <2>1. Running \subseteq Ops
      BY ToSetEmpty DEF TypeOK
    <2> QED
      BY <1>2, <2>1 DEF RunningInv
  <1>8. NoStall'
    BY <1>2 DEF NoStall, Kicking
  <1>9. StartInv'
    BY <1>1, StartInvKept
  <1> QED
    BY <1>3, <1>4, <1>5, <1>6, <1>7, <1>8, <1>9

\* The user stops an operation that was enqueued.
LEMMA UserStopKeeps ==
  ASSUME IInv, NEW op \in Ops, UserStop(op)
  PROVE  IInv'
  <1>1. /\ op \in Ops \ offered /\ BeginStop(op) /\ pc[Main] = "idle"
        /\ UNCHANGED <<lists, m_Concurrency, m_Lock, offered, jobs, to_start, asked, changes, to_stop>>
    BY DEF UserStop
  <1>2. stops' \in 0..MaxStops /\ to_stop \in Seq(Ops) /\ ToSet(to_stop) \cap offered = {}
    BY DEF UserStop, IInv, TypeOK, MainInv
  <1> QED
    BY <1>1, <1>2, BeginStopKeeps

\* The loop of StopAndWaitForShutdown().
LEMMA StopNextKeeps ==
  ASSUME IInv, StopNext
  PROVE  IInv'
  <1> USE DEF IInv
  <1>1. CASE to_stop = <<>>
    <2>1. /\ pc[Main] = "stopNext" /\ pc' = [pc EXCEPT ![Main] = "drain"] /\ m_Lock' = FALSE
          /\ UNCHANGED <<to_stop, operation, is_running, lists, m_Concurrency, offered, jobs,
                         to_start, bounds>>
      BY <1>1 DEF StopNext
    <2>2. /\ \A op \in Ops : pc'[op] = pc[op]
          /\ pc'[Main] = "drain"
      BY <2>1 DEF TypeOK
    <2>3. TypeOK' /\ MainInv'
      BY <2>1, <2>2 DEF TypeOK, MainInv
    <2>4. ListsInv' /\ OfferedInv' /\ JobInv' /\ LiveJobsListed'
      BY <2>1, <2>2 DEF TypeOK, ListsInv, OfferedInv, JobInv, LiveJobsListed
    <2>5. NoticeInv' /\ RunningInv' /\ NoStall'
      BY <2>1 DEF TypeOK, NoticeInv, RunningInv, NoStall, Kicking
    <2>6. StartInv'
      BY <2>1, StartInvKept
    <2> QED
      BY <2>3, <2>4, <2>5, <2>6
  <1>2. CASE to_stop # <<>>
    <2>1. /\ Head(to_stop) \in Ops \ offered /\ Tail(to_stop) \in Seq(Ops)
          /\ ToSet(Tail(to_stop)) \cap offered = {}
      BY <1>2, ToSetHead DEF TypeOK, MainInv
    <2>2. /\ BeginStop(Head(to_stop)) /\ pc[Main] = "stopNext" /\ to_stop' = Tail(to_stop)
          /\ UNCHANGED <<lists, m_Concurrency, m_Lock, offered, jobs, to_start, asked, changes, stops>>
      BY <1>2 DEF StopNext
    <2>3. stops' \in 0..MaxStops
      BY <2>2 DEF TypeOK
    <2> QED
      BY <2>1, <2>2, <2>3, BeginStopKeeps
  <1> QED
    BY <1>1, <1>2

\* Job::Stop(), and what follows of Operation::Stop().
LEMMA SetStoppedKeeps ==
  ASSUME IInv, SetStopped
  PROVE  IInv'
  <1> USE DEF IInv
  <1> DEFINE op == operation[Main]
             label == IF is_running THEN Return(Main) ELSE "jobFinished"
  <1>1. /\ op \in Ops \ offered /\ pc[Main] = "setStopped"
        /\ pc' = [pc EXCEPT ![Main] = label]
        /\ m_IsStopped' = [m_IsStopped EXCEPT ![op] = TRUE]
        /\ UNCHANGED <<lists, m_Concurrency, shutdown, offered, m_IsRunning, m_IsCompleted,
                       operation, to_start, is_running, bounds>>
    BY DEF SetStopped, TypeOK, MainInv
  <1>2. label \in {"stopNext", "idle", "jobFinished"}
    OBVIOUS
  <1>3. /\ \A o \in Ops : /\ pc'[o] = pc[o]
                          /\ m_IsStopped'[o] = IF o = op THEN TRUE ELSE m_IsStopped[o]
        /\ pc'[Main] = label
    BY <1>1 DEF TypeOK
  <1>4. Pending \cup Running \subseteq Ops
    BY ToSetEmpty DEF TypeOK
  <1>5. TypeOK'
    BY <1>1, <1>2 DEF TypeOK
  <1>6. ListsInv' /\ JobInv' /\ LiveJobsListed'
    BY <1>1, <1>3 DEF ListsInv, JobInv, LiveJobsListed
  <1>7. MainInv'
    <2>1. m_Lock => label \in {"stopNext", "jobFinished"}
      OBVIOUS
    <2>2. label = "stopNext" => m_Lock
      OBVIOUS
    <2> QED
      BY <1>1, <1>2, <1>3, <2>1, <2>2 DEF MainInv
  <1>8. OfferedInv'
    <2>1. \A o \in offered : o # op /\ o \in Ops
      BY <1>1 DEF TypeOK
    <2> QED
      BY <1>1, <1>3, <1>4, <2>1 DEF OfferedInv
  <1>9. NoticeInv'
    <2>1. \A o \in Pending \cup Running : ~(m_IsStopped[o] /\ pc[o] = "off")
      BY <1>1 DEF NoticeInv
    <2>2. is_running => pc[op] # "off"
      BY <1>1 DEF MainInv
    <2> QED
      BY <1>1, <1>3, <1>4, <2>1, <2>2 DEF NoticeInv
  <1>10. RunningInv'
    BY <1>1, <1>3, <1>4 DEF RunningInv
  <1>11. NoStall'
    BY <1>1, <1>3 DEF NoStall, Kicking
  <1>12. StartInv'
    <2>1. \A o \in Ops : (o \in Running => o \in Running') /\ (m_IsStopped[o] => m_IsStopped'[o])
      BY <1>1, <1>3
    <2> HIDE DEF label, op
    <2> QED
      BY <1>1, <1>2, <2>1, StartInvKept
  <1> QED
    BY <1>5, <1>6, <1>7, <1>8, <1>9, <1>10, <1>11, <1>12

\* An operation is put into the queue.
LEMMA EnqueueKeeps ==
  ASSUME IInv, NEW op \in Ops, Enqueue(op)
  PROVE  IInv'
  <1> USE DEF IInv
  <1>1. /\ op \in offered /\ pc[Main] = "idle" /\ offered' = offered \ {op}
        /\ m_PendingOperations' = Append(m_PendingOperations, op)
        /\ pc' = [pc EXCEPT ![Main] = "gatherUnqueued"]
        /\ UNCHANGED <<m_RunningOperations, m_Concurrency, shutdown, jobs, operation, to_start,
                       is_running, bounds>>
    BY DEF Enqueue
  <1>2. /\ m_PendingOperations' \in Seq(Ops)
        /\ Pending' = Pending \cup {op}
        /\ IsInjective(m_PendingOperations) /\ op \notin Pending => IsInjective(m_PendingOperations')
    BY <1>1, ToSetAppend DEF TypeOK
  <1>3. op \notin Pending \cup Running /\ pc[op] = "off" /\ ~m_IsStopped[op]
        /\ \A t \in Threads : op \notin ToSet(to_start[t])
    BY <1>1 DEF OfferedInv
  <1>4. /\ \A o \in Ops : pc'[o] = pc[o]
        /\ pc'[Main] = "gatherUnqueued"
        /\ Pending \cup Running \subseteq Ops /\ Running' = Running
    BY <1>1, ToSetEmpty DEF TypeOK
  <1>5. TypeOK'
    BY <1>1, <1>2 DEF TypeOK
  <1>6. ListsInv'
    <2>1. IsInjective(m_PendingOperations') /\ IsInjective(m_RunningOperations')
      BY <1>1, <1>2, <1>3 DEF ListsInv
    <2> HIDE DEF Pending, Running
    <2>2. Pending' \cap Running' = {}
      BY <1>2, <1>3, <1>4 DEF ListsInv
    <2> QED
      BY <2>1, <2>2 DEF ListsInv
  <1>7. JobInv' /\ LiveJobsListed' /\ RunningInv'
    BY <1>1, <1>4 DEF JobInv, LiveJobsListed, RunningInv
  <1> HIDE DEF Pending, Running
  <1>8. OfferedInv'
    <2>1. offered' \subseteq offered /\ offered \subseteq Ops /\ op \notin offered'
      BY <1>1 DEF TypeOK
    <2>2. ASSUME NEW o \in offered'
          PROVE  o \notin Pending' \cup Running' /\ pc'[o] = "off" /\ ~m_IsStopped'[o]
      BY <1>1, <1>2, <1>4, <2>1 DEF OfferedInv
    <2>3. ASSUME NEW o \in Pending'
          PROVE  pc'[o] = "off"
      BY <1>2, <1>3, <1>4 DEF OfferedInv
    <2>4. ASSUME NEW o \in Pending' \cup offered', NEW t \in Threads
          PROVE  o \notin ToSet(to_start'[t])
      BY <1>1, <1>2, <1>3, <2>1 DEF OfferedInv
    <2> QED
      BY <2>2, <2>3, <2>4 DEF OfferedInv
  <1>9. MainInv'
    BY <1>1, <1>4 DEF MainInv
  <1>10. NoticeInv'
    BY <1>1, <1>2, <1>3, <1>4 DEF NoticeInv
  <1>11. NoStall'
    BY <1>4 DEF NoStall, Kicking
  <1>12. StartInv'
    BY <1>1, <1>4, StartInvKept
  <1> QED
    BY <1>5, <1>6, <1>7, <1>8, <1>9, <1>10, <1>11, <1>12

-----------------------------------------------------------------------------
(* Pool::StartPendingOperations(), on any thread.                          *)

\* A section of StartPendingOperations() moves some operations from the queue to the
\* running list and to those the thread is to start.
LEMMA GatheringKeeps ==
  ASSUME IInv, NEW t \in Threads, NEW gathered \in Seq(Ops),
         IsInjective(gathered), ToSet(gathered) \subseteq Pending,
         m_PendingOperations' \in Seq(Ops), IsInjective(m_PendingOperations'),
         Pending' = Pending \ ToSet(gathered),
         m_RunningOperations' = m_RunningOperations \o gathered,
         to_start' = [to_start EXCEPT ![t] = to_start[t] \o gathered],
         pc[t] \in {"gatherUnqueued", "gatherQueued"},
         NEW label \in {"gatherQueued", "startEach"}, pc' = [pc EXCEPT ![t] = label],
         UNCHANGED <<m_Concurrency, shutdown, offered, jobs, operation, is_running, bounds>>,
         NoStall'
  PROVE  IInv'
  <1> USE DEF IInv
  <1>1. /\ m_RunningOperations' \in Seq(Ops) /\ Running' = Running \cup ToSet(gathered)
        /\ IsInjective(m_RunningOperations')
    <2>1. Running \cap ToSet(gathered) = {} /\ IsInjective(m_RunningOperations)
      BY DEF ListsInv
    <2> QED
      BY <2>1, ToSetConcat DEF TypeOK
  <1>2. /\ to_start[t] \o gathered \in Seq(Ops)
        /\ ToSet(to_start[t] \o gathered) = ToSet(to_start[t]) \cup ToSet(gathered)
        /\ IsInjective(to_start[t] \o gathered)
    <2>1. ToSet(to_start[t]) \cap ToSet(gathered) = {} /\ IsInjective(to_start[t])
      BY DEF OfferedInv, StartInv
    <2> QED
      BY <2>1, ToSetConcat DEF TypeOK
  <1>3. /\ \A u \in Threads : pc'[u] = IF u = t THEN label ELSE pc[u]
        /\ \A u \in Threads : to_start'[u] = IF u = t THEN to_start[t] \o gathered ELSE to_start[u]
    BY DEF TypeOK
  <1>4. Pending \cup Running \subseteq Ops /\ offered \subseteq Ops /\ offered' = offered
    BY ToSetEmpty DEF TypeOK
  <1>5. \A op \in Pending : pc[op] = "off" /\ op # t
    BY DEF OfferedInv
  <1>6. TypeOK'
    BY <1>1, <1>2 DEF TypeOK
  <1>7. JobInv' /\ MainInv'
    BY <1>3 DEF JobInv, MainInv
  <1> HIDE DEF Pending, Running
  <1>8. ListsInv' /\ LiveJobsListed'
    BY <1>1 DEF ListsInv, LiveJobsListed
  <1>9. OfferedInv'
    <2>1. ASSUME NEW op \in offered
          PROVE  op \notin Pending' \cup Running' /\ pc'[op] = "off" /\ ~m_IsStopped'[op]
      BY <1>1, <1>3, <1>4 DEF OfferedInv
    <2>2. ASSUME NEW op \in Pending'
          PROVE  pc'[op] = "off"
      BY <1>3, <1>4, <1>5
    <2>3. ASSUME NEW op \in Pending' \cup offered, NEW u \in Threads
          PROVE  op \notin ToSet(to_start'[u])
      <3>1. op \in Pending \cup offered /\ op \notin ToSet(gathered)
        BY DEF OfferedInv
      <3>2. op \notin ToSet(to_start[u])
        BY <3>1 DEF OfferedInv
      <3> QED
        BY <1>2, <1>3, <3>1, <3>2
    <2> QED
      BY <1>4, <2>1, <2>2, <2>3 DEF OfferedInv
  <1>10. StartInv'
    <2>1. ASSUME NEW u \in Threads
          PROVE  IsInjective(to_start'[u])
      BY <1>2, <1>3 DEF StartInv
    <2>2. ASSUME NEW u \in Threads, NEW op \in ToSet(to_start'[u])
          PROVE  /\ pc'[op] = "off"
                 /\ op \in Running' \/ m_IsStopped'[op]
                 /\ \A v \in Threads \ {u} : op \notin ToSet(to_start'[v])
      <3>1. CASE u = t /\ op \in ToSet(gathered)
        <4>1. op \in Pending /\ op \in Ops /\ op \in Running'
          BY <1>1, <1>4, <3>1
        <4> QED
          BY <1>3, <1>5, <3>1, <4>1 DEF OfferedInv
      <3>2. CASE op \in ToSet(to_start[u])
        <4>1. /\ pc[op] = "off" /\ (op \in Running \/ m_IsStopped[op])
              /\ \A v \in Threads \ {u} : op \notin ToSet(to_start[v])
          BY <3>2 DEF StartInv
        <4>2. op \in Ops
          BY <3>2, ToSetEmpty DEF TypeOK
        <4>3. op \notin ToSet(gathered)
          BY <3>2 DEF OfferedInv
        <4> QED
          BY <1>1, <1>2, <1>3, <4>1, <4>2, <4>3
      <3> QED
        BY <1>2, <1>3, <2>2, <3>1, <3>2
    <2>3. ASSUME NEW u \in Threads
          PROVE  /\ to_start'[u] # <<>> => pc'[u] \in {"gatherQueued", "startEach", "spawn"}
                 /\ pc'[u] = "spawn" => to_start'[u] # <<>>
      BY <1>3 DEF StartInv
    <2> QED
      BY <2>1, <2>2, <2>3 DEF StartInv
  <1>11. NoticeInv'
    BY <1>1, <1>3, <1>4 DEF NoticeInv
  <1>12. RunningInv'
    <2>1. ASSUME NEW op \in Running'
          PROVE  IF pc'[op] = "off"
                   THEN m_IsStopped'[op] \/ \E u \in Threads : op \in ToSet(to_start'[u])
                   ELSE pc'[op] \in {"perform", "asking"} \cup Reporting
      <3>1. CASE op \in ToSet(gathered)
        BY <1>2, <1>3, <1>4, <1>5, <3>1
      <3>2. CASE op \in Running
        BY <1>2, <1>3, <1>4, <3>2 DEF RunningInv
      <3> QED
        BY <1>1, <3>1, <3>2
    <2> QED
      BY <2>1 DEF RunningInv
  <1> QED
    BY <1>6, <1>7, <1>8, <1>9, <1>10, <1>11, <1>12

LEMMA GatherUnqueuedKeeps ==
  ASSUME IInv, NEW t \in Threads, GatherUnqueued(t)
  PROVE  IInv'
  <1> DEFINE gathered == Filter(m_PendingOperations, Unqueued)
  <1>1. /\ pc[t] = "gatherUnqueued"
        /\ to_start' = [to_start EXCEPT ![t] = gathered]
        /\ m_RunningOperations' = m_RunningOperations \o gathered
        /\ m_PendingOperations' = Filter(m_PendingOperations, Ops \ Unqueued)
        /\ pc' = [pc EXCEPT ![t] = "gatherQueued"]
        /\ UNCHANGED <<m_Concurrency, shutdown, offered, jobs, operation, is_running, bounds>>
    BY DEF GatherUnqueued
  <1>2. m_PendingOperations \in Seq(Ops) /\ IsInjective(m_PendingOperations)
    BY DEF IInv, TypeOK, ListsInv
  <1>3. /\ gathered \in Seq(Ops) /\ IsInjective(gathered)
        /\ ToSet(gathered) = Pending \cap Unqueued
    BY <1>2, FilterProperties
  <1>4. /\ m_PendingOperations' \in Seq(Ops) /\ IsInjective(m_PendingOperations')
        /\ Pending' = Pending \cap (Ops \ Unqueued)
    BY <1>1, <1>2, FilterProperties
  <1> HIDE DEF gathered
  <1>5. Pending \subseteq Ops
    BY <1>2, ToSetEmpty
  <1>6. to_start[t] \o gathered = gathered
    <2>1. to_start[t] = <<>>
      BY <1>1 DEF IInv, StartInv
    <2> QED
      BY <1>3, <2>1, ConcatEmptySeq
  <1>7. NoStall'
    <2>1. pc'[t] = "gatherQueued"
      BY <1>1 DEF IInv, TypeOK
    <2> QED
      BY <2>1 DEF NoStall, Kicking
  <1> QED
    BY <1>1, <1>3, <1>4, <1>5, <1>6, <1>7, GatheringKeeps

\* As many operations are taken off the queue as there is room for, and the room is used.
LEMMA GatheredFront ==
  ASSUME IInv, NEW t \in Threads, GatherQueued(t)
  PROVE  LET gathered == SubSeq(m_PendingOperations, 1, Room)
         IN  /\ gathered \in Seq(Ops) /\ IsInjective(gathered)
             /\ ToSet(gathered) \subseteq Pending
             /\ m_PendingOperations' \in Seq(Ops) /\ IsInjective(m_PendingOperations')
             /\ Pending' = Pending \ ToSet(gathered)
             /\ m_RunningOperations' \in Seq(Ops)
             /\ Len(m_RunningOperations') = Len(m_RunningOperations) + Room
             /\ m_PendingOperations' # <<>> => Len(m_RunningOperations') >= m_Concurrency
             /\ Room # 0 => Len(m_RunningOperations') <= m_Concurrency
             /\ Room = 0 => m_RunningOperations' = m_RunningOperations
  <1> DEFINE gathered == SubSeq(m_PendingOperations, 1, Room)
  <1>1. /\ m_RunningOperations' = m_RunningOperations \o gathered
        /\ m_PendingOperations' = SubSeq(m_PendingOperations, Room + 1, Len(m_PendingOperations))
    BY DEF GatherQueued
  <1>2. /\ m_PendingOperations \in Seq(Ops) /\ IsInjective(m_PendingOperations)
        /\ m_RunningOperations \in Seq(Ops) /\ m_Concurrency \in Nat
    BY DEF IInv, TypeOK, ListsInv
  <1>3. Len(m_PendingOperations) \in Nat /\ Len(m_RunningOperations) \in Nat
    BY <1>2, LenProperties
  <1>4. Room \in 0..Len(m_PendingOperations)
    BY <1>2, <1>3 DEF Room
  <1>5. /\ gathered \in Seq(Ops) /\ m_PendingOperations' \in Seq(Ops)
        /\ Len(gathered) = Room /\ Len(m_PendingOperations') = Len(m_PendingOperations) - Room
        /\ Pending = ToSet(gathered) \cup Pending'
        /\ IsInjective(gathered) /\ IsInjective(m_PendingOperations')
        /\ ToSet(gathered) \cap Pending' = {}
    BY <1>1, <1>2, <1>4, ToSetSplit
  <1> HIDE DEF gathered
  <1>6. /\ m_RunningOperations' \in Seq(Ops)
        /\ Len(m_RunningOperations') = Len(m_RunningOperations) + Room
    BY <1>1, <1>2, <1>5, ConcatProperties
  <1>7. m_PendingOperations' # <<>> => Room < Len(m_PendingOperations)
    <2>1. m_PendingOperations' # <<>> => Len(m_PendingOperations') # 0
      BY <1>5, ToSetEmpty
    <2> QED
      BY <1>3, <1>4, <1>5, <2>1
  <1>8. /\ m_PendingOperations' # <<>> => Len(m_RunningOperations') >= m_Concurrency
        /\ Room # 0 => Len(m_RunningOperations') <= m_Concurrency
    BY <1>2, <1>3, <1>4, <1>6, <1>7 DEF Room
  <1>9. Room = 0 => m_RunningOperations' = m_RunningOperations
    <2>1. Room = 0 => gathered = <<>>
      BY <1>5, ToSetEmpty
    <2> QED
      BY <1>1, <1>2, <2>1, ConcatEmptySeq
  <1> QED
    BY <1>5, <1>6, <1>8, <1>9 DEF gathered

LEMMA GatherQueuedKeeps ==
  ASSUME IInv, NEW t \in Threads, GatherQueued(t)
  PROVE  IInv'
  <1> DEFINE gathered == SubSeq(m_PendingOperations, 1, Room)
  <1>1. /\ pc[t] = "gatherQueued"
        /\ to_start' = [to_start EXCEPT ![t] = to_start[t] \o gathered]
        /\ m_RunningOperations' = m_RunningOperations \o gathered
        /\ pc' = [pc EXCEPT ![t] = "startEach"]
        /\ UNCHANGED <<m_Concurrency, shutdown, offered, jobs, operation, is_running, bounds>>
    BY DEF GatherQueued
  <1>2. /\ gathered \in Seq(Ops) /\ IsInjective(gathered)
        /\ ToSet(gathered) \subseteq Pending
        /\ m_PendingOperations' \in Seq(Ops) /\ IsInjective(m_PendingOperations')
        /\ Pending' = Pending \ ToSet(gathered)
        /\ m_RunningOperations' \in Seq(Ops)
        /\ m_PendingOperations' # <<>> => Len(m_RunningOperations') >= m_Concurrency
    BY GatheredFront
  <1> HIDE DEF gathered
  <1>3. NoStall'
    <2>1. m_PendingOperations' # <<>> => Len(m_RunningOperations') # 0
      <3>1. m_Concurrency \in Nat \ {0} /\ Len(m_RunningOperations') \in Nat
        BY <1>2, LenProperties DEF IInv, TypeOK
      <3> QED
        BY <1>2, <3>1
    <2>2. Running' = {} => Len(m_RunningOperations') = 0
      BY <1>2, ToSetEmpty
    <2> QED
      BY <2>1, <2>2 DEF NoStall
  <1> QED
    BY <1>1, <1>2, <1>3, GatheringKeeps

\* op->Start(): the test of Job::Run().
LEMMA StartEachKeeps ==
  ASSUME IInv, NEW t \in Threads, StartEach(t)
  PROVE  IInv'
  <1> USE DEF IInv
  <1>1. /\ pc[t] = "startEach"
        /\ UNCHANGED <<lists, m_Concurrency, shutdown, offered, jobs, operation, is_running, bounds>>
    BY DEF StartEach
  <1>2. Pending \cup Running \subseteq Ops /\ Pending' = Pending /\ Running' = Running
    BY <1>1, ToSetEmpty DEF TypeOK
  <1>3. PICK label \in {Return(t), "startEach", "spawn"} : pc' = [pc EXCEPT ![t] = label]
    BY DEF StartEach
  <1>4. /\ \A u \in Threads : pc'[u] = IF u = t THEN label ELSE pc[u]
        /\ \/ label \in {"startEach", "spawn"}
           \/ label = "over" /\ t # Main
           \/ label = "idle" /\ t = Main
    BY <1>1, <1>3 DEF TypeOK, MainInv
  <1>5. /\ \/ to_start' = to_start
           \/ /\ to_start[t] # <<>> /\ label = "startEach"
              /\ to_start' = [to_start EXCEPT ![t] = Tail(to_start[t])]
              /\ m_IsStopped[Head(to_start[t])]
        /\ label \in {"startEach", "spawn"} \/ to_start[t] = <<>>
        /\ label = "spawn" => to_start[t] # <<>> /\ to_start' = to_start
    <2>1. CASE to_start[t] = <<>>
      BY <1>1, <1>3, <1>4, <2>1 DEF StartEach, TypeOK
    <2>2. CASE to_start[t] # <<>>
      <3>1. Head(to_start[t]) \in ToSet(to_start[t]) /\ Head(to_start[t]) \in Ops
        BY <2>2, ToSetHead DEF TypeOK
      <3>2. ~m_IsRunning[Head(to_start[t])]
        BY <3>1 DEF StartInv, JobInv
      <3>3. \/ /\ m_IsStopped[Head(to_start[t])] /\ pc' = [pc EXCEPT ![t] = "startEach"]
               /\ to_start' = [to_start EXCEPT ![t] = Tail(to_start[t])]
            \/ pc' = [pc EXCEPT ![t] = "spawn"] /\ to_start' = to_start
        BY <2>2, <3>2 DEF StartEach
      <3> QED
        BY <1>4, <2>2, <3>3 DEF TypeOK
    <2> QED
      BY <2>1, <2>2
  <1>6. /\ to_start' \in [Threads -> Seq(Ops)]
        /\ \A u \in Threads : /\ ToSet(to_start'[u]) \subseteq ToSet(to_start[u])
                              /\ IsInjective(to_start'[u])
                              /\ u # t => to_start'[u] = to_start[u]
        /\ \A op \in ToSet(to_start[t]) : op \in ToSet(to_start'[t]) \/ m_IsStopped[op]
    <2>1. CASE to_start' = to_start
      BY <2>1 DEF TypeOK, StartInv
    <2>2. CASE /\ to_start[t] # <<>> /\ m_IsStopped[Head(to_start[t])]
               /\ to_start' = [to_start EXCEPT ![t] = Tail(to_start[t])]
      <3>1. /\ Tail(to_start[t]) \in Seq(Ops)
            /\ ToSet(to_start[t]) = {Head(to_start[t])} \cup ToSet(Tail(to_start[t]))
            /\ IsInjective(Tail(to_start[t]))
        BY <2>2, ToSetHead DEF TypeOK, StartInv
      <3>2. \A u \in Threads : to_start'[u] = IF u = t THEN Tail(to_start[t]) ELSE to_start[u]
        BY <2>2 DEF TypeOK
      <3>3. to_start' \in [Threads -> Seq(Ops)]
        BY <2>2, <3>1 DEF TypeOK
      <3> QED
        BY <2>2, <3>1, <3>2, <3>3 DEF StartInv
    <2> QED
      BY <1>5, <2>1, <2>2
  <1>7. /\ \A op \in Ops : pc[op] = "off" <=> pc'[op] = "off"
        /\ \A op \in Ops : pc[op] \in Idle \cup Reporting => pc'[op] = pc[op]
        /\ \A op \in Ops : pc'[op] \in Idle \cup Reporting => pc'[op] = pc[op]
        /\ pc[Main] \in {"setStopped", "stopNext"} \cup Reporting => pc'[Main] = pc[Main]
        /\ pc'[Main] \in {"setStopped", "stopNext"} \cup Reporting => pc'[Main] = pc[Main]
    BY <1>1, <1>4
  <1> HIDE DEF Return
  <1>8. TypeOK'
    BY <1>1, <1>3, <1>4, <1>6 DEF TypeOK
  <1>9. JobInv' /\ MainInv' /\ ListsInv' /\ LiveJobsListed'
    <2>1. JobInv'
      BY <1>1, <1>7 DEF JobInv
    <2>2. operation[Main] \in Ops
      BY DEF TypeOK
    <2>3. MainInv'
      BY <1>1, <1>7, <2>2 DEF MainInv
    <2> QED
      BY <1>1, <2>1, <2>3 DEF ListsInv, LiveJobsListed
  <1>10. NoStall'
    BY <1>1, <1>4 DEF NoStall, Kicking
  <1> HIDE DEF Pending, Running
  <1>11. OfferedInv'
    <2>1. offered' = offered /\ offered \subseteq Ops
      BY <1>1 DEF TypeOK
    <2> QED
      BY <1>1, <1>2, <1>6, <1>7, <2>1 DEF OfferedInv
  <1>12. StartInv'
    <2>1. ASSUME NEW u \in Threads, NEW op \in ToSet(to_start'[u])
          PROVE  /\ pc'[op] = "off"
                 /\ op \in Running' \/ m_IsStopped'[op]
                 /\ \A v \in Threads \ {u} : op \notin ToSet(to_start'[v])
      <3>1. op \in ToSet(to_start[u]) /\ op \in Ops
        <4>1. to_start[u] \in Seq(Ops)
          BY DEF TypeOK
        <4> QED
          BY <1>6, <4>1, ToSetEmpty
      <3> QED
        BY <1>1, <1>2, <1>6, <1>7, <3>1 DEF StartInv
    <2>2. ASSUME NEW u \in Threads
          PROVE  /\ to_start'[u] # <<>> => pc'[u] \in {"gatherQueued", "startEach", "spawn"}
                 /\ pc'[u] = "spawn" => to_start'[u] # <<>>
      BY <1>4, <1>5, <1>6 DEF StartInv
    <2> QED
      BY <1>6, <2>1, <2>2 DEF StartInv
  <1>13. NoticeInv'
    BY <1>1, <1>2, <1>7 DEF NoticeInv
  <1>14. RunningInv'
    <2>1. ASSUME NEW op \in Running, pc[op] = "off", ~m_IsStopped[op]
          PROVE  \E u \in Threads : op \in ToSet(to_start'[u])
      <3>1. PICK u \in Threads : op \in ToSet(to_start[u])
        BY <2>1 DEF RunningInv
      <3> QED
        BY <1>6, <2>1, <3>1
    <2>2. m_IsStopped' = m_IsStopped
      BY <1>1
    <2> QED
      BY <1>2, <1>7, <2>1, <2>2 DEF RunningInv
  <1> QED
    BY <1>8, <1>9, <1>10, <1>11, <1>12, <1>13, <1>14

\* The second half of Job::Run(): the job has a thread.
LEMMA SpawnKeeps ==
  ASSUME IInv, NEW t \in Threads, Spawn(t)
  PROVE  IInv'
  <1> USE DEF IInv
  <1> DEFINE op == Head(to_start[t])
             rest == Tail(to_start[t])
  <1>1. /\ pc[t] = "spawn"
        /\ m_IsRunning' = [m_IsRunning EXCEPT ![op] = TRUE]
        /\ pc' = [pc EXCEPT ![t] = "startEach", ![op] = "perform"]
        /\ to_start' = [to_start EXCEPT ![t] = rest]
        /\ UNCHANGED <<lists, m_Concurrency, shutdown, offered, m_IsCompleted, m_IsStopped,
                       operation, is_running, bounds>>
    BY DEF Spawn
  <1>2. /\ op \in Ops /\ rest \in Seq(Ops) /\ op \in ToSet(to_start[t])
        /\ ToSet(to_start[t]) = {op} \cup ToSet(rest)
        /\ IsInjective(rest) /\ op \notin ToSet(rest)
    <2>1. to_start[t] # <<>> /\ IsInjective(to_start[t])
      BY <1>1 DEF StartInv
    <2> QED
      BY <2>1, ToSetHead DEF TypeOK
  <1>3. /\ pc[op] = "off" /\ op # t /\ (op \in Running \/ m_IsStopped[op])
        /\ \A u \in Threads \ {t} : op \notin ToSet(to_start[u])
        /\ op \notin Pending /\ op \notin offered
    BY <1>1, <1>2 DEF StartInv, OfferedInv
  <1> HIDE DEF op, rest
  <1>4. /\ \A u \in Threads : pc'[u] = IF u = t THEN "startEach" ELSE IF u = op THEN "perform"
                                       ELSE pc[u]
        /\ \A u \in Threads : to_start'[u] = IF u = t THEN rest ELSE to_start[u]
        /\ \A o \in Ops : m_IsRunning'[o] = IF o = op THEN TRUE ELSE m_IsRunning[o]
    BY <1>1, <1>2, <1>3 DEF TypeOK
  <1>5. Pending \cup Running \subseteq Ops /\ offered \subseteq Ops
        /\ Pending' = Pending /\ Running' = Running
    BY <1>1, ToSetEmpty DEF TypeOK
  <1>6. TypeOK'
    BY <1>1, <1>2, <1>3 DEF TypeOK
  <1>7. JobInv' /\ LiveJobsListed' /\ ListsInv'
    <2>1. ASSUME NEW o \in Ops
          PROVE  /\ operation'[o] = o
                 /\ m_IsRunning'[o] <=> pc'[o] \in {"perform", "asking"}
                 /\ m_IsCompleted'[o] => pc'[o] \notin Idle
                 /\ pc'[o] \notin Idle => m_IsCompleted'[o] \/ m_IsStopped'[o]
      <3>1. /\ operation[o] = o
            /\ m_IsRunning[o] <=> pc[o] \in {"perform", "asking"}
            /\ m_IsCompleted[o] => pc[o] \notin Idle
            /\ pc[o] \notin Idle => m_IsCompleted[o] \/ m_IsStopped[o]
        BY DEF JobInv
      <3>2. UNCHANGED <<operation, m_IsCompleted, m_IsStopped>>
        BY <1>1
      <3>3. CASE o = op
        BY <1>3, <1>4, <3>1, <3>2, <3>3
      <3>4. CASE o = t
        <4>1. pc[o] = "spawn" /\ pc'[o] = "startEach" /\ m_IsRunning'[o] = m_IsRunning[o]
          BY <1>1, <1>3, <1>4, <3>4
        <4> QED
          BY <3>1, <3>2, <4>1
      <3>5. CASE o # op /\ o # t
        BY <1>4, <3>1, <3>2, <3>5
      <3> QED
        BY <3>3, <3>4, <3>5
    <2>2. LiveJobsListed'
      BY <1>1, <1>3, <1>4, <1>5 DEF LiveJobsListed
    <2> QED
      BY <1>1, <2>1, <2>2 DEF JobInv, ListsInv
  <1>8. NoStall'
    BY <1>1, <1>3, <1>4, <1>5 DEF NoStall, Kicking
  <1> HIDE DEF Pending, Running
  <1>9. MainInv'
    <2>1. operation[Main] \in Ops /\ op # Main /\ operation[Main] # Main
      BY <1>2 DEF TypeOK
    <2>2. /\ pc'[Main] \in {"setStopped", "stopNext"} \cup Reporting => pc'[Main] = pc[Main]
          /\ pc[Main] \in {"setStopped", "stopNext"} \cup Reporting => pc'[Main] = pc[Main]
      <3>1. pc'[Main] = IF Main = t THEN "startEach" ELSE pc[Main]
        BY <1>4, <2>1
      <3> QED
        BY <1>1, <3>1
    <2>3. \A o \in Ops : pc[o] # "off" => pc'[o] # "off"
      BY <1>4
    <2>4. pc[operation[Main]] # "off" => pc'[operation[Main]] # "off"
      BY <2>1, <2>3
    <2> QED
      BY <1>1, <2>2, <2>4 DEF MainInv
  <1>10. OfferedInv'
    <2>1. ASSUME NEW o \in Pending \cup offered
          PROVE  o # op /\ o # t /\ pc'[o] = "off"
      BY <1>1, <1>3, <1>4, <1>5 DEF OfferedInv
    <2>2. ASSUME NEW o \in Pending \cup offered, NEW u \in Threads
          PROVE  o \notin ToSet(to_start'[u])
      BY <1>2, <1>4 DEF OfferedInv
    <2> QED
      BY <1>1, <1>5, <2>1, <2>2 DEF OfferedInv
  <1>11. StartInv'
    <2>1. ASSUME NEW u \in Threads
          PROVE  IsInjective(to_start'[u])
      BY <1>2, <1>4 DEF StartInv
    <2>2. ASSUME NEW u \in Threads, NEW o \in ToSet(to_start'[u])
          PROVE  /\ pc'[o] = "off"
                 /\ o \in Running' \/ m_IsStopped'[o]
                 /\ \A v \in Threads \ {u} : o \notin ToSet(to_start'[v])
      <3>1. o \in ToSet(to_start[u]) /\ o \in Ops /\ o # op
        <4>1. to_start[u] \in Seq(Ops)
          BY DEF TypeOK
        <4>2. o \in ToSet(to_start[u]) /\ o # op
          BY <1>2, <1>3, <1>4
        <4> QED
          BY <4>1, <4>2, ToSetEmpty
      <3>2. /\ pc[o] = "off" /\ (o \in Running \/ m_IsStopped[o])
            /\ \A v \in Threads \ {u} : o \notin ToSet(to_start[v])
        BY <3>1 DEF StartInv
      <3> QED
        BY <1>1, <1>2, <1>4, <1>5, <3>1, <3>2
    <2>3. ASSUME NEW u \in Threads
          PROVE  /\ to_start'[u] # <<>> => pc'[u] \in {"gatherQueued", "startEach", "spawn"}
                 /\ pc'[u] = "spawn" => to_start'[u] # <<>>
      <3>1. u = op => to_start[u] = <<>>
        BY <1>3 DEF StartInv
      <3> QED
        BY <1>3, <1>4, <3>1 DEF StartInv
    <2> QED
      BY <2>1, <2>2, <2>3 DEF StartInv
  <1>12. NoticeInv'
    <2>1. pc[Main] \in Reporting => pc'[Main] = pc[Main]
      BY <1>1, <1>2, <1>4
    <2>2. \A o \in Ops : pc'[o] = "off" => pc[o] = "off"
      BY <1>1, <1>4
    <2>3. operation' = operation /\ m_IsStopped' = m_IsStopped
      BY <1>1
    <2> QED
      BY <1>5, <2>1, <2>2, <2>3 DEF NoticeInv
  <1>13. RunningInv'
    <2>1. ASSUME NEW o \in Running, o # op, pc[o] = "off", ~m_IsStopped[o]
          PROVE  \E u \in Threads : o \in ToSet(to_start'[u])
      <3>1. PICK u \in Threads : o \in ToSet(to_start[u])
        BY <2>1 DEF RunningInv
      <3> QED
        BY <1>2, <1>4, <2>1, <3>1
    <2>2. m_IsStopped' = m_IsStopped /\ pc[t] \notin {"perform", "asking"} \cup Reporting
      BY <1>1
    <2>3. ASSUME NEW o \in Running, pc'[o] # "off"
          PROVE  pc'[o] \in {"perform", "asking"} \cup Reporting
      <3>1. o \in Ops /\ (o # op => pc[o] # "off")
        BY <1>1, <1>4, <1>5, <2>3
      <3>2. pc[o] # "off" => pc[o] \in {"perform", "asking"} \cup Reporting
        BY DEF RunningInv
      <3> QED
        BY <1>1, <1>3, <1>4, <2>2, <3>1, <3>2
    <2>4. \A o \in Running : pc'[o] = "off" => pc[o] = "off" /\ o # op
      BY <1>1, <1>3, <1>4, <1>5
    <2> QED
      BY <1>5, <2>1, <2>2, <2>3, <2>4 DEF RunningInv
  <1> QED
    BY <1>6, <1>7, <1>8, <1>9, <1>10, <1>11, <1>12, <1>13

-----------------------------------------------------------------------------
(* Operation::JobFinished() and its observer Pool::OperationDidFinish().   *)

LEMMA JobFinishedKeeps ==
  ASSUME IInv, NEW t \in Threads, JobFinished(t)
  PROVE  IInv'
  <1> USE DEF IInv
  <1>1. /\ pc[t] = "jobFinished"
        /\ UNCHANGED <<lists, m_Concurrency, shutdown, offered, jobs, operation, to_start,
                       is_running, bounds>>
    BY DEF JobFinished
  <1>2. PICK label \in {"didFinish", Return(t)} :
            /\ pc' = [pc EXCEPT ![t] = label]
            /\ label # "didFinish" => State(operation[t]) \notin {"Completed", "Stopped"}
    BY DEF JobFinished
  <1>3. operation[t] \in Ops /\ operation[Main] \in Ops
    BY DEF TypeOK
  <1> HIDE DEF State
  <1>4. label = "didFinish" \/ (t = Main /\ m_IsRunning[operation[Main]])
    <2>1. CASE t \in Ops
      <3>1. operation[t] = t /\ ~m_IsRunning[t] /\ (m_IsCompleted[t] \/ m_IsStopped[t])
        BY <1>1, <2>1 DEF JobInv
      <3>2. State(operation[t]) \in {"Completed", "Stopped"}
        BY <3>1 DEF State
      <3> QED
        BY <1>2, <3>2
    <2>2. CASE t = Main
      <3>1. m_IsStopped[operation[t]]
        BY <1>1, <2>2 DEF MainInv
      <3>2. m_IsRunning[operation[t]] \/ State(operation[t]) \in {"Completed", "Stopped"}
        BY <3>1 DEF State
      <3> QED
        BY <1>2, <2>2, <3>2
    <2> QED
      BY <2>1, <2>2
  <1>5. label \in {"didFinish", "stopNext", "idle"} /\ (label = "stopNext" => m_Lock)
        /\ (label = "idle" => ~m_Lock)
    BY <1>2, <1>4
  <1> HIDE DEF Return
  <1>6. \A u \in Threads : pc'[u] = IF u = t THEN label ELSE pc[u]
    BY <1>2 DEF TypeOK
  <1>7. Pending \cup Running \subseteq Ops /\ offered \subseteq Ops
        /\ Pending' = Pending /\ Running' = Running
    BY <1>1, ToSetEmpty DEF TypeOK
  <1>8. /\ \A op \in Ops : pc'[op] = IF op = t THEN "didFinish" ELSE pc[op]
        /\ pc'[Main] = IF Main = t THEN label ELSE pc[Main]
    BY <1>4, <1>6
  <1>9. TypeOK'
    <2>1. pc' \in [Threads -> MainLabels \cup WorkerLabels \cup SharedLabels]
      BY <1>2, <1>5 DEF TypeOK
    <2>2. \A op \in Ops : pc'[op] \in WorkerLabels \cup SharedLabels
      BY <1>8 DEF TypeOK
    <2>3. pc'[Main] \in MainLabels \cup SharedLabels
      BY <1>5, <1>8 DEF TypeOK
    <2> QED
      BY <1>1, <2>1, <2>2, <2>3 DEF TypeOK
  <1>10. JobInv'
    BY <1>1, <1>8 DEF JobInv
  <1>11. MainInv'
    <2>1. pc[operation[Main]] # "off" => pc'[operation[Main]] # "off"
      BY <1>3, <1>8
    <2>2. CASE t = Main
      BY <1>1, <1>5, <1>8, <2>2 DEF MainInv
    <2>3. CASE t # Main
      BY <1>1, <1>8, <2>1, <2>3 DEF MainInv
    <2> QED
      BY <2>2, <2>3
  <1>12. ListsInv' /\ LiveJobsListed' /\ NoStall'
    BY <1>1, <1>6, <1>7 DEF ListsInv, LiveJobsListed, NoStall, Kicking
  <1> HIDE DEF Pending, Running
  <1>13. OfferedInv'
    <2>1. \A op \in Ops : pc[op] = "off" => pc'[op] = "off"
      BY <1>1, <1>8
    <2> QED
      BY <1>1, <1>7, <2>1 DEF OfferedInv
  <1>14. StartInv'
    BY <1>1, <1>2, <1>5, <1>7, StartInvKept
  <1>15. NoticeInv'
    <2>1. ASSUME NEW op \in Pending \cup Running, m_IsStopped[op], pc[op] = "off"
          PROVE  operation[Main] = op /\ pc'[Main] \in Reporting
      <3>1. operation[Main] = op /\ pc[Main] \in Reporting
        BY <2>1 DEF NoticeInv
      <3>2. op \in Ops /\ ~m_IsRunning[op]
        BY <1>7, <2>1 DEF JobInv
      <3> QED
        BY <1>4, <1>8, <3>1, <3>2
    <2>2. \A op \in Ops : pc'[op] = "off" => pc[op] = "off"
      BY <1>1, <1>8
    <2> QED
      BY <1>1, <1>7, <2>1, <2>2 DEF NoticeInv
  <1>16. RunningInv'
    BY <1>1, <1>7, <1>8 DEF RunningInv
  <1> QED
    BY <1>9, <1>10, <1>11, <1>12, <1>13, <1>14, <1>15, <1>16

\* The operation goes out of the lists and the next ones are to be started.
LEMMA OperationDidFinishKeeps ==
  ASSUME IInv, NEW t \in Threads, OperationDidFinish(t)
  PROVE  IInv'
  <1> USE DEF IInv
  <1> DEFINE over == operation[t]
  <1>1. /\ pc[t] = "didFinish"
        /\ m_RunningOperations' = Filter(m_RunningOperations, Ops \ {over})
        /\ m_PendingOperations' = Filter(m_PendingOperations, Ops \ {over})
        /\ pc' = [pc EXCEPT ![t] = "gatherUnqueued"]
        /\ UNCHANGED <<m_Concurrency, shutdown, offered, jobs, operation, to_start, is_running,
                       bounds>>
        /\ ~m_Lock
    BY DEF OperationDidFinish
  <1>2. over \in Ops
    BY DEF TypeOK
  <1>3. /\ t = Main => m_IsStopped[over]
        /\ t # Main => t \in Ops /\ over = t
    BY <1>1 DEF MainInv, JobInv
  <1>4. /\ m_RunningOperations' \in Seq(Ops) /\ m_PendingOperations' \in Seq(Ops)
        /\ Running' = Running \cap (Ops \ {over}) /\ Pending' = Pending \cap (Ops \ {over})
        /\ IsInjective(m_RunningOperations') /\ IsInjective(m_PendingOperations')
    BY <1>1, FilterProperties DEF TypeOK, ListsInv
  <1> HIDE DEF over
  <1>5. /\ \A u \in Threads : pc'[u] = IF u = t THEN "gatherUnqueued" ELSE pc[u]
        /\ \A op \in Ops : pc[op] = "off" <=> pc'[op] = "off"
    BY <1>1 DEF TypeOK
  <1>6. /\ Pending \cup Running \subseteq Ops /\ offered \subseteq Ops
        /\ Pending' = Pending \ {over} /\ Running' = Running \ {over}
    <2>1. Pending \cup Running \subseteq Ops /\ offered \subseteq Ops
      BY ToSetEmpty DEF TypeOK
    <2> HIDE DEF Pending, Running
    <2> QED
      BY <1>4, <2>1
  <1>7. TypeOK'
    BY <1>1, <1>4 DEF TypeOK
  <1>8. JobInv'
    BY <1>1, <1>5 DEF JobInv
  <1>9. NoStall'
    BY <1>5 DEF NoStall, Kicking
  <1> HIDE DEF Pending, Running
  <1>10. ListsInv'
    BY <1>4, <1>6 DEF ListsInv
  <1>11. MainInv'
    <2>1. operation[Main] \in Ops
      BY DEF TypeOK
    <2>2. pc'[Main] = IF t = Main THEN "gatherUnqueued" ELSE pc[Main]
      BY <1>5
    <2>3. pc[operation[Main]] # "off" => pc'[operation[Main]] # "off"
      BY <1>5, <2>1
    <2> QED
      BY <1>1, <2>2, <2>3 DEF MainInv
  <1>12. LiveJobsListed'
    <2>1. m_IsRunning[over] => m_IsStopped[over]
      BY <1>1, <1>3 DEF JobInv
    <2> QED
      BY <1>1, <1>6, <2>1 DEF LiveJobsListed
  <1>13. OfferedInv'
    BY <1>1, <1>5, <1>6 DEF OfferedInv
  <1>14. StartInv'
    <2>1. \A op \in Running \cap Ops : pc[op] = "off" => op \in Running' \/ m_IsStopped'[op]
      BY <1>1, <1>3, <1>6
    <2> QED
      BY <1>1, <2>1, StartInvKept
  <1>15. NoticeInv'
    <2>1. ASSUME NEW op \in (Pending \cup Running) \ {over}, m_IsStopped[op], pc[op] = "off"
          PROVE  operation[Main] = op /\ pc'[Main] \in Reporting
      <3>1. operation[Main] = op /\ pc[Main] \in Reporting
        BY <2>1 DEF NoticeInv
      <3>2. t # Main
        BY <2>1, <3>1 DEF over
      <3> QED
        BY <1>5, <3>1, <3>2
    <2> QED
      BY <1>1, <1>5, <1>6, <2>1 DEF NoticeInv
  <1>16. RunningInv'
    <2>1. ASSUME NEW op \in Running \ {over}
          PROVE  pc'[op] = pc[op]
      BY <1>3, <1>5, <1>6
    <2> QED
      BY <1>1, <1>6, <2>1 DEF RunningInv
  <1> QED
    BY <1>7, <1>8, <1>9, <1>10, <1>11, <1>12, <1>13, <1>14, <1>15, <1>16

-----------------------------------------------------------------------------
(* The worker of an operation.                                             *)

\* The job asks the user, or is answered.
LEMMA DialogKeeps ==
  ASSUME IInv, NEW op \in Ops, Ask(op) \/ Answer(op)
  PROVE  IInv'
  <1> USE DEF IInv
  <1>1. PICK label \in {"perform", "asking"} :
            /\ pc' = [pc EXCEPT ![op] = label]
            /\ pc[op] \in {"perform", "asking"}
            /\ UNCHANGED <<lists, m_Concurrency, shutdown, offered, jobs, operation, to_start,
                           is_running, stops, changes>>
            /\ asked' \in SUBSET Ops
    BY DEF Ask, Answer, TypeOK
  <1>2. \A u \in Threads : pc'[u] = IF u = op THEN label ELSE pc[u]
    BY <1>1 DEF TypeOK
  <1>3. Pending \cup Running \subseteq Ops /\ offered \subseteq Ops /\ operation[Main] \in Ops
        /\ Pending' = Pending /\ Running' = Running
    BY <1>1, ToSetEmpty DEF TypeOK
  <1>4. /\ \A o \in Ops : pc'[o] = IF o = op THEN label ELSE pc[o]
        /\ pc'[Main] = pc[Main]
        /\ \A o \in Ops : pc[o] = "off" <=> pc'[o] = "off"
    BY <1>1, <1>2
  <1>5. TypeOK'
    BY <1>1 DEF TypeOK
  <1>6. JobInv'
    BY <1>1, <1>4 DEF JobInv
  <1>7. NoStall' /\ ListsInv' /\ LiveJobsListed'
    BY <1>1, <1>2 DEF NoStall, Kicking, ListsInv, LiveJobsListed
  <1> HIDE DEF Pending, Running
  <1>8. MainInv' /\ OfferedInv'
    BY <1>1, <1>3, <1>4 DEF MainInv, OfferedInv
  <1>9. StartInv'
    BY <1>1, <1>3, StartInvKept
  <1>10. NoticeInv' /\ RunningInv'
    BY <1>1, <1>3, <1>4 DEF NoticeInv, RunningInv
  <1> QED
    BY <1>5, <1>6, <1>7, <1>8, <1>9, <1>10

\* The rest of Job::Execute().
LEMMA ExecuteKeeps ==
  ASSUME IInv, NEW op \in Ops, Execute(op)
  PROVE  IInv'
  <1> USE DEF IInv
  <1>1. /\ pc[op] = "perform"
        /\ m_IsStopped' = m_IsStopped \/ m_IsStopped' = [m_IsStopped EXCEPT ![op] = TRUE]
        /\ m_IsCompleted' = [m_IsCompleted EXCEPT ![op] = ~m_IsStopped'[op]]
        /\ m_IsRunning' = [m_IsRunning EXCEPT ![op] = FALSE]
        /\ pc' = [pc EXCEPT ![op] = "jobFinished"]
        /\ UNCHANGED <<lists, m_Concurrency, shutdown, offered, operation, to_start,
                       is_running, bounds>>
    BY DEF Execute
  <1>2. /\ m_IsStopped' \in [Ops -> BOOLEAN]
        /\ \A o \in Ops : /\ m_IsStopped[o] => m_IsStopped'[o]
                          /\ o # op => m_IsStopped'[o] = m_IsStopped[o]
    BY <1>1 DEF TypeOK
  <1>3. /\ \A u \in Threads : pc'[u] = IF u = op THEN "jobFinished" ELSE pc[u]
        /\ \A o \in Ops : m_IsRunning'[o] = IF o = op THEN FALSE ELSE m_IsRunning[o]
        /\ \A o \in Ops : m_IsCompleted'[o] = IF o = op THEN ~m_IsStopped'[op] ELSE m_IsCompleted[o]
    BY <1>1 DEF TypeOK
  <1>4. Pending \cup Running \subseteq Ops /\ offered \subseteq Ops /\ operation[Main] \in Ops
        /\ Pending' = Pending /\ Running' = Running
    BY <1>1, ToSetEmpty DEF TypeOK
  <1>5. /\ \A o \in Ops : pc'[o] = IF o = op THEN "jobFinished" ELSE pc[o]
        /\ pc'[Main] = pc[Main]
        /\ \A o \in Ops : pc[o] = "off" <=> pc'[o] = "off"
        /\ \A o \in Ops : pc[o] = "off" => m_IsStopped'[o] = m_IsStopped[o]
    BY <1>1, <1>2, <1>3
  <1>6. TypeOK'
    BY <1>1, <1>2 DEF TypeOK
  <1>7. JobInv'
    <2>1. m_IsCompleted'[op] \/ m_IsStopped'[op]
      BY <1>3
    <2>2. operation' = operation
      BY <1>1
    <2>3. ASSUME NEW o \in Ops
          PROVE  /\ operation'[o] = o
                 /\ m_IsRunning'[o] <=> pc'[o] \in {"perform", "asking"}
                 /\ m_IsCompleted'[o] => pc'[o] \notin Idle
                 /\ pc'[o] \notin Idle => m_IsCompleted'[o] \/ m_IsStopped'[o]
      BY <1>2, <1>3, <1>5, <2>1, <2>2 DEF JobInv
    <2> QED
      BY <2>3 DEF JobInv
  <1>8. NoStall' /\ ListsInv' /\ LiveJobsListed'
    BY <1>1, <1>2, <1>3 DEF NoStall, Kicking, ListsInv, LiveJobsListed
  <1> HIDE DEF Pending, Running
  <1>9. MainInv' /\ OfferedInv'
    BY <1>1, <1>2, <1>4, <1>5 DEF MainInv, OfferedInv
  <1>10. StartInv'
    BY <1>1, <1>2, <1>4, StartInvKept
  <1>11. NoticeInv' /\ RunningInv'
    BY <1>1, <1>4, <1>5 DEF NoticeInv, RunningInv
  <1> QED
    BY <1>6, <1>7, <1>8, <1>9, <1>10, <1>11

-----------------------------------------------------------------------------
(* The theorems.                                                           *)

LEMMA InitIInv == Init => IInv
  <1> SUFFICES ASSUME Init
               PROVE  IInv
    OBVIOUS
  <1>1. /\ m_PendingOperations = <<>> /\ m_RunningOperations = <<>> /\ to_stop = <<>>
        /\ ToSet(<<>>) = {} /\ IsInjective(<<>>) /\ <<>> \in Seq(Ops)
    <2>1. <<>> \in Seq(Ops)
      OBVIOUS
    <2> QED
      BY <2>1, ToSetEmpty DEF Init
  <1>2. \A t \in Threads : to_start[t] = <<>> /\ pc[t] = IF t = Main THEN "idle" ELSE "off"
    BY DEF Init
  <1>3. m_Concurrency \in Nat \ {0}
    BY LimitsAssumption DEF Init, AtLeastOne
  <1>4. TypeOK
    <2>1. operation \in [Threads -> Ops] /\ to_start \in [Threads -> Seq(Ops)]
      BY <1>1 DEF Init
    <2>2. /\ pc \in [Threads -> MainLabels \cup WorkerLabels \cup SharedLabels]
          /\ pc[Main] \in MainLabels \cup SharedLabels
          /\ \A op \in Ops : pc[op] \in WorkerLabels \cup SharedLabels
      BY DEF Init
    <2>3. /\ m_IsRunning \in [Ops -> BOOLEAN] /\ m_IsCompleted \in [Ops -> BOOLEAN]
          /\ m_IsStopped \in [Ops -> BOOLEAN] /\ m_Lock \in BOOLEAN /\ is_running \in BOOLEAN
      BY DEF Init
    <2>4. /\ offered \subseteq Ops /\ asked \subseteq Ops
          /\ stops \in 0..MaxStops /\ changes \in 0..MaxChanges
      BY DEF Init
    <2> QED
      BY <1>1, <1>3, <2>1, <2>2, <2>3, <2>4 DEF TypeOK
  <1>5. ListsInv /\ OfferedInv /\ StartInv /\ JobInv /\ MainInv /\ NoticeInv /\ RunningInv
        /\ LiveJobsListed /\ NoStall
    BY <1>1, <1>2
       DEF Init, ListsInv, OfferedInv, StartInv, JobInv, MainInv, NoticeInv, RunningInv,
           LiveJobsListed, NoStall
  <1> QED
    BY <1>4, <1>5 DEF IInv

LEMMA NextIInv == IInv /\ [Next]_vars => IInv'
  <1> SUFFICES ASSUME IInv, [Next]_vars
               PROVE  IInv'
    OBVIOUS
  <1>1. CASE UNCHANGED vars
    BY <1>1
       DEF vars, IInv, TypeOK, ListsInv, OfferedInv, StartInv, JobInv, MainInv, NoticeInv,
           RunningInv, LiveJobsListed, NoStall, Kicking
  <1>2. ASSUME NEW t \in Threads, Shared(t)
        PROVE  IInv'
    BY <1>2, GatherUnqueuedKeeps, GatherQueuedKeeps, StartEachKeeps, SpawnKeeps,
       JobFinishedKeeps, OperationDidFinishKeeps DEF Shared
  <1>3. ASSUME NEW op \in Ops, Worker(op)
        PROVE  IInv'
    BY <1>2, <1>3, DialogKeeps, ExecuteKeeps DEF Worker
  <1>4. CASE MainStep
    BY <1>2, <1>4, SetStoppedKeeps, StopNextKeeps, DrainKeeps DEF MainStep
  <1>5. CASE User
    BY <1>5, EnqueueKeeps, DialogKeeps, UserStopKeeps, SetConcurrencyKeeps, ShutdownKeeps
       DEF User
  <1> QED
    BY <1>1, <1>3, <1>4, <1>5 DEF Next

\* Everything below holds in every state the pool comes to: of Spec's conjuncts the
\* theorems use Init and [][Next]_vars, never the fairness.
THEOREM Invariant == Spec => []IInv
  BY InitIInv, NextIInv, PTL DEF Spec

\* The lists hold operations, the limit is at least one, and the threads have their types.
THEOREM TypeCorrect == Spec => []TypeOK
  BY Invariant, PTL DEF IInv

\* An operation is in one of the lists, once: whatever threads run the sections of
\* StartPendingOperations() and OperationDidFinish(), in whatever order.
THEOREM ListedOnceHolds == Spec => []ListedOnce
  <1>1. IInv => ListedOnce
    BY ToSetConcat DEF IInv, TypeOK, ListsInv, ListedOnce
  <1> QED
    BY <1>1, Invariant, PTL

\* An operation in the running list has one thread that is about to start it, or a thread
\* of its own that has yet to report its end, or was stopped and is about to be dropped.
THEOREM NoneForgottenHolds == Spec => []NoneForgotten
  <1>1. ASSUME IInv, NEW op \in Running
        PROVE  \/ Cardinality(Starters(op)) = 1 /\ pc[op] = "off"
               \/ Starters(op) = {} /\ pc[op] \in {"perform", "asking", "jobFinished", "didFinish"}
               \/ Starters(op) = {} /\ pc[op] = "off" /\ m_IsStopped[op] /\ operation[Main] = op
                    /\ pc[Main] \in {"jobFinished", "didFinish"}
    <2>1. op \in Ops
      BY <1>1, ToSetEmpty DEF IInv, TypeOK
    <2>2. CASE \E t \in Threads : op \in ToSet(to_start[t])
      <3>1. PICK t \in Threads : op \in ToSet(to_start[t])
        BY <2>2
      <3>2. pc[op] = "off" /\ \A u \in Threads \ {t} : op \notin ToSet(to_start[u])
        BY <1>1, <3>1 DEF IInv, StartInv
      <3>3. Starters(op) = {t}
        BY <3>1, <3>2 DEF Starters
      <3>4. Cardinality({t}) = 1
        BY FS_Singleton
      <3> QED
        BY <3>2, <3>3, <3>4
    <2>3. CASE \A t \in Threads : op \notin ToSet(to_start[t])
      <3>1. Starters(op) = {}
        BY <2>3 DEF Starters
      <3>2. pc[op] # "off" => pc[op] \in {"perform", "asking"} \cup Reporting
        BY <1>1 DEF IInv, RunningInv
      <3>3. pc[op] = "off" => m_IsStopped[op]
        BY <1>1, <2>3 DEF IInv, RunningInv
      <3>4. pc[op] = "off" => operation[Main] = op /\ pc[Main] \in Reporting
        BY <1>1, <3>3 DEF IInv, NoticeInv
      <3> QED
        BY <3>1, <3>2, <3>3, <3>4
    <2> QED
      BY <2>2, <2>3
  <1>2. IInv => NoneForgotten
    BY <1>1 DEF NoneForgotten
  <1> QED
    BY <1>2, Invariant, PTL

\* When the lists are empty, and the window may close, no job is at work that was not
\* told to end.
THEOREM LiveJobsListedHolds == Spec => []LiveJobsListed
  BY Invariant, PTL DEF IInv

\* When nothing is listed as running and the queue is not empty, a thread is on its way
\* to the section that takes operations off the queue.
THEOREM NoStallHolds == Spec => []NoStall
  BY Invariant, PTL DEF IInv

\* An operation that obeys the limit is added to the running list only up to the limit:
\* the count it is compared with is the one of the same section of m_Lock.
THEOREM ConcurrencyLimitHolds == Spec => ConcurrencyLimit
  <1>1. ASSUME IInv, [Next]_vars
        PROVE  [(Running' \ Running) \ Unqueued # {} =>
                    Len(m_RunningOperations') <= m_Concurrency]_vars
    <2>1. ASSUME NEW t \in Threads, GatherUnqueued(t)
          PROVE  (Running' \ Running) \ Unqueued = {}
      <3> DEFINE gathered == Filter(m_PendingOperations, Unqueued)
      <3>1. gathered \in Seq(Ops) /\ ToSet(gathered) = Pending \cap Unqueued
        BY <1>1, FilterProperties DEF IInv, TypeOK
      <3> HIDE DEF gathered
      <3>2. m_RunningOperations' = m_RunningOperations \o gathered
        BY <2>1 DEF GatherUnqueued, gathered
      <3>3. Running' = Running \cup ToSet(gathered)
        BY <1>1, <3>1, <3>2, ToSetConcat DEF IInv, TypeOK
      <3> QED
        BY <3>1, <3>3
    <2>2. ASSUME NEW t \in Threads, GatherQueued(t)
          PROVE  Running' = Running \/ Len(m_RunningOperations') <= m_Concurrency
      BY <1>1, <2>2, GatheredFront
    <2>3. ASSUME NEW t \in Threads, OperationDidFinish(t)
          PROVE  Running' \subseteq Running
      BY <1>1, <2>3, FilterProperties DEF OperationDidFinish, IInv, TypeOK
    <2>4. \/ \E t \in Threads : GatherUnqueued(t) \/ GatherQueued(t) \/ OperationDidFinish(t)
          \/ m_RunningOperations' = m_RunningOperations
      BY <1>1
         DEF vars, Next, Worker, MainStep, User, Shared, StartEach, Spawn, JobFinished, Ask,
             Execute, Enqueue, Answer, UserStop, BeginStop, SetStopped, SetConcurrency,
             Shutdown, StopNext, Drain
    <2> QED
      BY <2>1, <2>2, <2>3, <2>4
  <1> QED
    BY <1>1, Invariant, PTL DEF Spec, ConcurrencyLimit

=============================================================================
