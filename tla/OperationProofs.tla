-------------------------- MODULE OperationProofs --------------------------
(***************************************************************************)
(* Theorems about Operation, for every number of items and of calls: its   *)
(* type invariant, its safety invariants and the refinement of the         *)
(* contract of OperationContract, all from one inductive invariant.        *)
(***************************************************************************)
EXTENDS Operation, TLAPS

\* The worker is inside Execute(), and has not yet cleared m_IsRunning.
Alive == pc["worker"] \notin {"off", "over"} \cup InJobFinished

\* m_IsRunning tells whether the job's thread is at work; no thread exists before
\* Run() detached it, and Wait() is called after Start() returned.
ThreadInv ==
    /\ m_IsRunning <=> Alive
    /\ pc["starter"] \in {"ready", "run", "spawn"} => pc["worker"] = "off"
    /\ pc["worker"] = "off" => processed = 0
    /\ pc["waiter"] # "ready" => pc["starter"] = "returned"
    /\ pc["waiter"] = "returned" => ~Alive
    /\ state["waiter"] \notin {"Paused", "Running"} => ~Alive /\ pc["waiter"] # "ready"
    /\ pc["waiter"] \notin {"wait", "tested", "waitPred", "predTested"} => state["waiter"] = "Paused"

\* Where the procedures called by the worker return to, and why it called them.
ReturnInv ==
    /\ pc["worker"] = "setStopped" => return["worker"] = "performed"
    /\ pc["worker"] \in InResume /\ return["worker"] = "performed" => m_IsStopped
    /\ pc["worker"] \in InResume /\ return["worker"] = "setCompleted" => processed = Items

\* How far the job got, and what that means for m_IsCompleted.
ProgressInv ==
    /\ pc["worker"] \in Performing \ {"perform"} => processed < Items
    /\ pc["worker"] = "performed" => processed = Items \/ m_IsStopped
    /\ pc["worker"] = "setCompleted" => processed = Items
    /\ m_IsCompleted =>
           processed = Items /\ pc["worker"] \in {"clearRunning", "over"} \cup InJobFinished
    /\ pc["worker"] \in {"clearRunning", "over"} \cup InJobFinished =>
           m_IsCompleted \/ m_IsStopped

\* The job processes no item any more: its thread has ended, or does not find any to do.
Barren ==
    \/ ~Alive
    \/ processed = 0 /\ pc["worker"] \in {"perform", "check", "performed", "clearRunning"}

\* JobFinished() is called after Job::Stop(), or at the end of Execute().  By the time it
\* reads m_IsCompleted, and after, the job processes nothing that could change it.
Reading(t) == pc[t] \in {"jobFinished", "fireOutcome"}

ReadingInv ==
    /\ pc["ui"] = "stopped" \/ Reading("ui") => m_IsStopped
    /\ pc["ui"] \in InResume /\ return["ui"] = "stopped" => m_IsStopped
    /\ Reading("ui") /\ state["ui"] \in {"Completed", "Stopped"} => Barren
    /\ Reading("ui") /\ state["ui"] = "Stopped" => ~m_IsCompleted
    /\ Reading("worker") /\ state["worker"] = "Stopped" => ~m_IsCompleted /\ m_IsStopped
    /\ pc["worker"] = "jobFinished" => state["worker"] # "Cold"
    /\ \A t \in {"ui", "worker"} :
           pc[t] = "fireOutcome" /\ state[t] = "Completed" => m_IsCompleted
    /\ pc["worker"] = "fireOutcome" /\ state["worker"] \notin {"Completed", "Stopped"} => pauseRace
    /\ \A t \in {"ui", "worker"} : ~Reading(t) => state[t] = "Paused"

\* What was reported is final.
ReportInv ==
    /\ "Stop" \in heard => m_IsStopped /\ ~m_IsCompleted /\ Barren
    /\ "Completion" \in heard => m_IsCompleted
    /\ pc["worker"] = "process" => heard \cap Outcomes = {}

\* m_IsPaused is clear at the end of a job, but for a race.
PauseInv ==
    /\ m_IsPaused /\ (PastLastResume \/ m_IsStopped) => pauseRace
    /\ pc["worker"] \in {"notifyFinish", "over"} /\ heard \cap Outcomes = {} => pauseRace

IInv ==
    /\ TypeOK
    /\ ThreadInv
    /\ ReturnInv
    /\ ProgressInv
    /\ ReadingInv
    /\ ReportInv
    /\ PauseInv

-----------------------------------------------------------------------------
(* IInv is inductive.  The sets of labels are expanded throughout.         *)

USE DEF Performing, Concluding, InStop, InResume, InJobFinished, Outcomes, Goto, States, Forget

\* State() either returns with a flag that is raised, or goes on to the next one.
LEMMA ReadFlagCases ==
  ASSUME TypeOK, NEW t \in {"ui", "worker", "waiter"}, NEW label, ReadFlag(t, label),
         state[t] # "Cold"
  PROVE  \/ /\ state' = state /\ pc' = [pc EXCEPT ![t] = label]
            /\ state[t] = "Paused" => m_IsPaused
            /\ state[t] = "Running" => m_IsRunning
            /\ state[t] = "Completed" => m_IsCompleted
            /\ state[t] = "Stopped" => m_IsStopped
         \/ /\ state[t] = "Paused" /\ ~m_IsPaused
            /\ pc' = pc /\ state' = [state EXCEPT ![t] = "Running"]
         \/ /\ state[t] = "Running" /\ ~m_IsRunning
            /\ pc' = pc /\ state' = [state EXCEPT ![t] = "Completed"]
         \/ /\ state[t] = "Completed" /\ ~m_IsCompleted
            /\ pc' = pc /\ state' = [state EXCEPT ![t] = "Stopped"]
         \/ /\ state[t] = "Stopped" /\ ~m_IsStopped
            /\ pc' = [pc EXCEPT ![t] = label] /\ state' = [state EXCEPT ![t] = "Cold"]
  <1>1. state[t] \in {"Paused", "Running", "Completed", "Stopped"}
    BY DEF TypeOK, ControlOK
  <1>2. [pc EXCEPT ![t] = pc[t]] = pc
    BY DEF TypeOK, ControlOK
  <1>3. CASE Flag(state[t])
    <2>1. state' = state /\ pc' = [pc EXCEPT ![t] = label]
      BY <1>3 DEF ReadFlag
    <2> QED
      BY <1>1, <1>3, <2>1 DEF Flag
  <1>4. CASE ~Flag(state[t])
    <2>1. /\ state' = [state EXCEPT ![t] = After(state[t])]
          /\ pc' = [pc EXCEPT ![t] = IF After(state[t]) = "Cold" THEN label ELSE pc[t]]
      BY <1>4 DEF ReadFlag
    <2>2. CASE state[t] = "Paused"
      BY <1>2, <1>4, <2>1, <2>2 DEF Flag, After
    <2>3. CASE state[t] = "Running"
      BY <1>2, <1>4, <2>1, <2>3 DEF Flag, After
    <2>4. CASE state[t] = "Completed"
      BY <1>2, <1>4, <2>1, <2>4 DEF Flag, After
    <2>5. CASE state[t] = "Stopped"
      BY <1>4, <2>1, <2>5 DEF Flag, After
    <2> QED
      BY <1>1, <2>2, <2>3, <2>4, <2>5
  <1> QED
    BY <1>3, <1>4

\* The operation as its constructor leaves it satisfies the inductive invariant.
LEMMA InitIInv == Init => IInv
  <1> SUFFICES ASSUME Init PROVE IInv
    OBVIOUS
  <1> USE DEF Init, Threads
  <1>1. ControlOK
    BY DEF ControlOK, Labels, StarterLabels, UILabels, WorkerLabels, WaiterLabels
  <1>2. DataOK
    <2>1. calls \in 0..MaxCalls /\ processed \in 0..Items
      BY ItemsAssumption, MaxCallsAssumption
    <2> QED
      BY <2>1 DEF DataOK
  <1>3. ThreadInv /\ ReturnInv
    BY DEF ThreadInv, ReturnInv, Alive
  <1>4. ProgressInv
    BY DEF ProgressInv
  <1>5. ReadingInv /\ ReportInv /\ PauseInv
    BY ItemsAssumption DEF ReportInv, ReadingInv, Reading, PauseInv, Barren, Alive, PastLastResume
  <1> QED
    BY <1>1, <1>2, <1>3, <1>4, <1>5 DEF IInv, TypeOK

\* Every step of Operation and Job leaves each thread at a label of its own, and the
\* procedures it is in with a place to return to.
LEMMA StepControlOK == ASSUME IInv, [Next]_vars PROVE ControlOK'
  <1> USE DEF IInv, TypeOK, ControlOK, Threads, Labels, StarterLabels, UILabels, WorkerLabels, WaiterLabels
  <1>1. CASE Starter
    <2>1. CASE Start
      BY <2>1 DEF Start
    <2>2. CASE RunCheck
      BY <2>2 DEF RunCheck
    <2>3. CASE RunSpawn
      <3>1. /\ pc' = [pc EXCEPT !["starter"] = "fireStart", !["worker"] = "perform"]
            /\ UNCHANGED <<state, return>>
        BY <2>3 DEF RunSpawn
      <3>2. pc'["worker"] = "perform" /\ pc'["starter"] = "fireStart"
        BY <3>1
      <3>3. \A t \in {"ui", "waiter"} : pc'[t] = pc[t]
        BY <3>1
      <3>4. pc' \in [Threads -> Labels]
        BY <3>1
      <3>5. state["worker"] # "Cold"
        BY <2>3 DEF RunSpawn, ThreadInv
      <3> QED
        BY <3>1, <3>2, <3>3, <3>4, <3>5
    <2>4. CASE FireStart
      BY <2>4 DEF FireStart
    <2> QED
      BY <1>1, <2>1, <2>2, <2>3, <2>4 DEF Starter
  <1>2. CASE UserCall
    BY <1>2 DEF UserCall, Call, PauseCheck, CallResume, CallStop
  <1>3. CASE PauseSet \/ PauseCallback \/ Stopped
    BY <1>3 DEF PauseSet, PauseCallback, Stopped
  <1>4. CASE Perform \/ PausePred \/ PauseBlock \/ CheckStopped \/ ProcessItem \/ FailItem \/ Performed \/ SetCompleted \/ ClearRunning
    BY <1>4 DEF Perform, PausePred, PauseBlock, CheckStopped, ProcessItem, FailItem, Performed, SetCompleted, ClearRunning
  <1>5. CASE SpuriousWakeup
    BY <1>5 DEF SpuriousWakeup
  <1>6. CASE Waiter
    <2>1. CASE WaitCall
      BY <2>1 DEF WaitCall
    <2>2. CASE WaitRead
      <3>1. CASE pc["waiter"] = "wait" /\ ReadFlag("waiter", "tested")
        BY <2>2, <3>1, ReadFlagCases DEF WaitRead
      <3>2. CASE pc["waiter"] = "waitPred" /\ ReadFlag("waiter", "predTested")
        BY <2>2, <3>2, ReadFlagCases DEF WaitRead
      <3> QED
        BY <2>2, <3>1, <3>2 DEF WaitRead
    <2>3. CASE WaitTested
      BY <2>3 DEF WaitTested, Finished
    <2>4. CASE WaitBlock
      BY <2>4 DEF WaitBlock, Finished
    <2> QED
      BY <1>6, <2>1, <2>2, <2>3, <2>4 DEF Waiter
  <1>7. CASE Shared("ui")
    <2>1. CASE ResumeCheck("ui")
      BY <2>1 DEF ResumeCheck
    <2>2. CASE ResumeNotify("ui")
      BY <2>2 DEF ResumeNotify
    <2>3. CASE ResumeCallback("ui")
      BY <2>3 DEF ResumeCallback
    <2>4. CASE SetStopped("ui")
      BY <2>4 DEF SetStopped
    <2>5. CASE JobFinished("ui")
      <3>1. ReadFlag("ui", "fireOutcome") /\ state["ui"] # "Cold"
        BY <2>5 DEF JobFinished
      <3> QED
        BY <2>5, <3>1, ReadFlagCases DEF JobFinished
    <2>6. CASE FireOutcome("ui")
      BY <2>6 DEF FireOutcome
    <2>7. CASE NotifyFinish("ui")
      BY <2>7 DEF NotifyFinish
    <2> QED
      BY <1>7, <2>1, <2>2, <2>3, <2>4, <2>5, <2>6, <2>7 DEF Shared
  <1>8. CASE Shared("worker")
    <2>1. CASE ResumeCheck("worker")
      BY <2>1 DEF ResumeCheck
    <2>2. CASE ResumeNotify("worker")
      BY <2>2 DEF ResumeNotify
    <2>3. CASE ResumeCallback("worker")
      BY <2>3 DEF ResumeCallback
    <2>4. CASE SetStopped("worker")
      BY <2>4 DEF SetStopped
    <2>5. CASE JobFinished("worker")
      <3>1. ReadFlag("worker", "fireOutcome") /\ state["worker"] # "Cold"
        BY <2>5 DEF JobFinished
      <3> QED
        BY <2>5, <3>1, ReadFlagCases DEF JobFinished
    <2>6. CASE FireOutcome("worker")
      BY <2>6 DEF FireOutcome
    <2>7. CASE NotifyFinish("worker")
      BY <2>7 DEF NotifyFinish
    <2> QED
      BY <1>8, <2>1, <2>2, <2>3, <2>4, <2>5, <2>6, <2>7 DEF Shared
  <1>9. CASE UNCHANGED vars
    BY <1>9 DEF vars
  <1> QED
    BY <1>1, <1>2, <1>3, <1>4, <1>5, <1>6, <1>7, <1>8, <1>9 DEF Next, UI, Worker

\* Every step keeps the flags, counters and notifications in their types; that the
\* items are not overrun rests on what "process" implies (ProgressInv).
LEMMA StepDataOK == ASSUME IInv, [Next]_vars PROVE DataOK'
  <1> USE ItemsAssumption, MaxCallsAssumption DEF IInv, TypeOK, DataOK, Notifications, flags
  <1>1. CASE Starter
    <2>1. CASE Start
      BY <2>1 DEF Start
    <2>2. CASE RunCheck
      BY <2>2 DEF RunCheck
    <2>3. CASE RunSpawn
      BY <2>3 DEF RunSpawn
    <2>4. CASE FireStart
      BY <2>4 DEF FireStart
    <2> QED
      BY <1>1, <2>1, <2>2, <2>3, <2>4 DEF Starter
  <1>2. CASE UserCall
    <2>1. CASE PauseCheck
      BY <2>1 DEF Call, PauseCheck
    <2>2. CASE CallResume
      BY <2>2 DEF Call, CallResume
    <2>3. CASE CallStop
      BY <2>3 DEF Call, CallStop
    <2> QED
      BY <1>2, <2>1, <2>2, <2>3 DEF UserCall
  <1>3. CASE PauseSet \/ PauseCallback \/ Stopped
    BY <1>3 DEF PauseSet, PauseCallback, Stopped
  <1>4. CASE Perform \/ PausePred \/ PauseBlock \/ CheckStopped \/ ProcessItem \/ FailItem \/ Performed \/ SetCompleted \/ ClearRunning
    <2>1. CASE Perform
      BY <2>1 DEF Perform
    <2>2. CASE PausePred
      BY <2>2 DEF PausePred
    <2>3. CASE PauseBlock
      BY <2>3 DEF PauseBlock
    <2>4. CASE CheckStopped
      BY <2>4 DEF CheckStopped
    <2>5. CASE ProcessItem
      BY <2>5 DEF ProcessItem, ProgressInv, ControlOK, Threads, Labels, StarterLabels, UILabels, WorkerLabels, WaiterLabels
    <2>6. CASE FailItem
      BY <2>6 DEF FailItem
    <2>7. CASE Performed
      BY <2>7 DEF Performed
    <2>8. CASE SetCompleted
      BY <2>8 DEF SetCompleted
    <2>9. CASE ClearRunning
      BY <2>9 DEF ClearRunning
    <2> QED
      BY <1>4, <2>1, <2>2, <2>3, <2>4, <2>5, <2>6, <2>7, <2>8, <2>9
  <1>5. CASE SpuriousWakeup
    BY <1>5 DEF SpuriousWakeup
  <1>6. CASE Waiter
    BY <1>6 DEF Waiter, WaitCall, WaitRead, WaitTested, WaitBlock
  <1>7. CASE Shared("ui")
    BY <1>7 DEF Shared, ResumeCheck, ResumeNotify, ResumeCallback, SetStopped, JobFinished, FireOutcome, NotifyFinish
  <1>8. CASE Shared("worker")
    BY <1>8 DEF Shared, ResumeCheck, ResumeNotify, ResumeCallback, SetStopped, JobFinished, FireOutcome, NotifyFinish
  <1>9. CASE UNCHANGED vars
    BY <1>9 DEF vars
  <1> QED
    BY <1>1, <1>2, <1>3, <1>4, <1>5, <1>6, <1>7, <1>8, <1>9 DEF Next, UI, Worker

\* Run(), Execute() and Wait() keep m_IsRunning in step with the job's thread.
LEMMA StepThreadInv == ASSUME IInv, [Next]_vars PROVE ThreadInv'
  <1> USE DEF IInv, TypeOK, ControlOK, ThreadInv, Alive, flags, Threads, Labels, StarterLabels, UILabels, WorkerLabels, WaiterLabels
  <1>1. CASE Starter
    BY <1>1 DEF Starter, Start, RunCheck, RunSpawn, FireStart
  <1>2. CASE UserCall
    BY <1>2 DEF UserCall, Call, PauseCheck, CallResume, CallStop
  <1>3. CASE PauseSet \/ PauseCallback \/ Stopped
    BY <1>3 DEF PauseSet, PauseCallback, Stopped
  <1>4. CASE Perform \/ PausePred \/ PauseBlock \/ CheckStopped \/ ProcessItem \/ FailItem \/ Performed \/ SetCompleted \/ ClearRunning
    BY <1>4 DEF Perform, PausePred, PauseBlock, CheckStopped, ProcessItem, FailItem, Performed, SetCompleted, ClearRunning
  <1>5. CASE SpuriousWakeup
    BY <1>5 DEF SpuriousWakeup
  <1>6. CASE Waiter
    <2>1. CASE WaitCall
      BY <2>1 DEF WaitCall
    <2>2. CASE WaitRead
      <3>1. CASE pc["waiter"] = "wait" /\ ReadFlag("waiter", "tested")
        BY <2>2, <3>1, ReadFlagCases DEF WaitRead
      <3>2. CASE pc["waiter"] = "waitPred" /\ ReadFlag("waiter", "predTested")
        BY <2>2, <3>2, ReadFlagCases DEF WaitRead
      <3> QED
        BY <2>2, <3>1, <3>2 DEF WaitRead
    <2>3. CASE WaitTested
      BY <2>3 DEF WaitTested, Finished
    <2>4. CASE WaitBlock
      BY <2>4 DEF WaitBlock, Finished
    <2> QED
      BY <1>6, <2>1, <2>2, <2>3, <2>4 DEF Waiter
  <1>7. CASE Shared("ui")
    <2>1. CASE ResumeCheck("ui")
      BY <2>1 DEF ResumeCheck
    <2>2. CASE ResumeNotify("ui")
      BY <2>2 DEF ResumeNotify
    <2>3. CASE ResumeCallback("ui")
      BY <2>3 DEF ResumeCallback
    <2>4. CASE SetStopped("ui")
      BY <2>4 DEF SetStopped
    <2>5. CASE JobFinished("ui")
      <3>1. ReadFlag("ui", "fireOutcome") /\ state["ui"] # "Cold"
        BY <2>5 DEF JobFinished
      <3> QED
        BY <2>5, <3>1, ReadFlagCases DEF JobFinished
    <2>6. CASE FireOutcome("ui")
      BY <2>6 DEF FireOutcome
    <2>7. CASE NotifyFinish("ui")
      BY <2>7 DEF NotifyFinish
    <2> QED
      BY <1>7, <2>1, <2>2, <2>3, <2>4, <2>5, <2>6, <2>7 DEF Shared
  <1>8. CASE Shared("worker")
    <2>1. CASE ResumeCheck("worker")
      BY <2>1 DEF ResumeCheck
    <2>2. CASE ResumeNotify("worker")
      BY <2>2 DEF ResumeNotify
    <2>3. CASE ResumeCallback("worker")
      BY <2>3 DEF ResumeCallback
    <2>4. CASE SetStopped("worker")
      BY <2>4 DEF SetStopped
    <2>5. CASE JobFinished("worker")
      <3>1. ReadFlag("worker", "fireOutcome") /\ state["worker"] # "Cold"
        BY <2>5 DEF JobFinished
      <3> QED
        BY <2>5, <3>1, ReadFlagCases DEF JobFinished
    <2>6. CASE FireOutcome("worker")
      BY <2>6 DEF FireOutcome
    <2>7. CASE NotifyFinish("worker")
      BY <2>7 DEF NotifyFinish
    <2> QED
      BY <1>8, <2>1, <2>2, <2>3, <2>4, <2>5, <2>6, <2>7 DEF Shared
  <1>9. CASE UNCHANGED vars
    BY <1>9 DEF vars
  <1> QED
    BY <1>1, <1>2, <1>3, <1>4, <1>5, <1>6, <1>7, <1>8, <1>9 DEF Next, UI, Worker

\* Resume() and Stop() return to where the worker called them, for the reason it
\* called them.
LEMMA StepReturnInv == ASSUME IInv, [Next]_vars PROVE ReturnInv'
  <1> USE DEF IInv, TypeOK, ControlOK, ReturnInv, ProgressInv, flags, Threads, Labels, StarterLabels, UILabels, WorkerLabels, WaiterLabels
  <1>1. CASE Starter
    BY <1>1 DEF Starter, Start, RunCheck, RunSpawn, FireStart
  <1>2. CASE UserCall
    BY <1>2 DEF UserCall, Call, PauseCheck, CallResume, CallStop
  <1>3. CASE PauseSet \/ PauseCallback \/ Stopped
    BY <1>3 DEF PauseSet, PauseCallback, Stopped
  <1>4. CASE Perform \/ PausePred \/ PauseBlock \/ CheckStopped \/ ProcessItem \/ FailItem \/ Performed \/ SetCompleted \/ ClearRunning
    BY <1>4 DEF Perform, PausePred, PauseBlock, CheckStopped, ProcessItem, FailItem, Performed, SetCompleted, ClearRunning
  <1>5. CASE SpuriousWakeup
    BY <1>5 DEF SpuriousWakeup
  <1>6. CASE Waiter
    <2>1. CASE WaitCall
      BY <2>1 DEF WaitCall
    <2>2. CASE WaitRead
      <3>1. CASE pc["waiter"] = "wait" /\ ReadFlag("waiter", "tested")
        BY <2>2, <3>1, ReadFlagCases DEF WaitRead
      <3>2. CASE pc["waiter"] = "waitPred" /\ ReadFlag("waiter", "predTested")
        BY <2>2, <3>2, ReadFlagCases DEF WaitRead
      <3> QED
        BY <2>2, <3>1, <3>2 DEF WaitRead
    <2>3. CASE WaitTested
      BY <2>3 DEF WaitTested, Finished
    <2>4. CASE WaitBlock
      BY <2>4 DEF WaitBlock, Finished
    <2> QED
      BY <1>6, <2>1, <2>2, <2>3, <2>4 DEF Waiter
  <1>7. CASE Shared("ui")
    <2>1. CASE ResumeCheck("ui")
      BY <2>1 DEF ResumeCheck
    <2>2. CASE ResumeNotify("ui")
      BY <2>2 DEF ResumeNotify
    <2>3. CASE ResumeCallback("ui")
      BY <2>3 DEF ResumeCallback
    <2>4. CASE SetStopped("ui")
      BY <2>4 DEF SetStopped
    <2>5. CASE JobFinished("ui")
      <3>1. ReadFlag("ui", "fireOutcome") /\ state["ui"] # "Cold"
        BY <2>5 DEF JobFinished
      <3> QED
        BY <2>5, <3>1, ReadFlagCases DEF JobFinished
    <2>6. CASE FireOutcome("ui")
      BY <2>6 DEF FireOutcome
    <2>7. CASE NotifyFinish("ui")
      BY <2>7 DEF NotifyFinish
    <2> QED
      BY <1>7, <2>1, <2>2, <2>3, <2>4, <2>5, <2>6, <2>7 DEF Shared
  <1>8. CASE Shared("worker")
    <2>1. CASE ResumeCheck("worker")
      BY <2>1 DEF ResumeCheck
    <2>2. CASE ResumeNotify("worker")
      BY <2>2 DEF ResumeNotify
    <2>3. CASE ResumeCallback("worker")
      BY <2>3 DEF ResumeCallback
    <2>4. CASE SetStopped("worker")
      BY <2>4 DEF SetStopped
    <2>5. CASE JobFinished("worker")
      <3>1. ReadFlag("worker", "fireOutcome") /\ state["worker"] # "Cold"
        BY <2>5 DEF JobFinished
      <3> QED
        BY <2>5, <3>1, ReadFlagCases DEF JobFinished
    <2>6. CASE FireOutcome("worker")
      BY <2>6 DEF FireOutcome
    <2>7. CASE NotifyFinish("worker")
      BY <2>7 DEF NotifyFinish
    <2> QED
      BY <1>8, <2>1, <2>2, <2>3, <2>4, <2>5, <2>6, <2>7 DEF Shared
  <1>9. CASE UNCHANGED vars
    BY <1>9 DEF vars
  <1> QED
    BY <1>1, <1>2, <1>3, <1>4, <1>5, <1>6, <1>7, <1>8, <1>9 DEF Next, UI, Worker

\* SetCompleted() is reached by a job that processed every item, and Execute() is left
\* by a job that was completed or stopped.
LEMMA StepProgressInv == ASSUME IInv, [Next]_vars PROVE ProgressInv'
  <1> USE ItemsAssumption DEF IInv, TypeOK, ControlOK, DataOK, ThreadInv, ProgressInv, ReturnInv, flags, Threads, Labels, StarterLabels, UILabels, WorkerLabels, WaiterLabels
  <1>1. CASE Starter
    BY <1>1 DEF Starter, Start, RunCheck, RunSpawn, FireStart
  <1>2. CASE UserCall
    BY <1>2 DEF UserCall, Call, PauseCheck, CallResume, CallStop
  <1>3. CASE PauseSet \/ PauseCallback \/ Stopped
    BY <1>3 DEF PauseSet, PauseCallback, Stopped
  <1>4. CASE Perform \/ PausePred \/ PauseBlock \/ CheckStopped \/ ProcessItem \/ FailItem \/ Performed \/ SetCompleted \/ ClearRunning
    BY <1>4 DEF Perform, PausePred, PauseBlock, CheckStopped, ProcessItem, FailItem, Performed, SetCompleted, ClearRunning
  <1>5. CASE SpuriousWakeup
    BY <1>5 DEF SpuriousWakeup
  <1>6. CASE Waiter
    <2>1. CASE WaitCall
      BY <2>1 DEF WaitCall
    <2>2. CASE WaitRead
      <3>1. CASE pc["waiter"] = "wait" /\ ReadFlag("waiter", "tested")
        BY <2>2, <3>1, ReadFlagCases DEF WaitRead
      <3>2. CASE pc["waiter"] = "waitPred" /\ ReadFlag("waiter", "predTested")
        BY <2>2, <3>2, ReadFlagCases DEF WaitRead
      <3> QED
        BY <2>2, <3>1, <3>2 DEF WaitRead
    <2>3. CASE WaitTested
      BY <2>3 DEF WaitTested, Finished
    <2>4. CASE WaitBlock
      BY <2>4 DEF WaitBlock, Finished
    <2> QED
      BY <1>6, <2>1, <2>2, <2>3, <2>4 DEF Waiter
  <1>7. CASE Shared("ui")
    <2>1. CASE ResumeCheck("ui")
      BY <2>1 DEF ResumeCheck
    <2>2. CASE ResumeNotify("ui")
      BY <2>2 DEF ResumeNotify
    <2>3. CASE ResumeCallback("ui")
      BY <2>3 DEF ResumeCallback
    <2>4. CASE SetStopped("ui")
      BY <2>4 DEF SetStopped
    <2>5. CASE JobFinished("ui")
      <3>1. ReadFlag("ui", "fireOutcome") /\ state["ui"] # "Cold"
        BY <2>5 DEF JobFinished
      <3> QED
        BY <2>5, <3>1, ReadFlagCases DEF JobFinished
    <2>6. CASE FireOutcome("ui")
      BY <2>6 DEF FireOutcome
    <2>7. CASE NotifyFinish("ui")
      BY <2>7 DEF NotifyFinish
    <2> QED
      BY <1>7, <2>1, <2>2, <2>3, <2>4, <2>5, <2>6, <2>7 DEF Shared
  <1>8. CASE Shared("worker")
    <2>1. CASE ResumeCheck("worker")
      BY <2>1 DEF ResumeCheck
    <2>2. CASE ResumeNotify("worker")
      BY <2>2 DEF ResumeNotify
    <2>3. CASE ResumeCallback("worker")
      BY <2>3 DEF ResumeCallback
    <2>4. CASE SetStopped("worker")
      BY <2>4 DEF SetStopped
    <2>5. CASE JobFinished("worker")
      <3>1. ReadFlag("worker", "fireOutcome") /\ state["worker"] # "Cold"
        BY <2>5 DEF JobFinished
      <3> QED
        BY <2>5, <3>1, ReadFlagCases DEF JobFinished
    <2>6. CASE FireOutcome("worker")
      BY <2>6 DEF FireOutcome
    <2>7. CASE NotifyFinish("worker")
      BY <2>7 DEF NotifyFinish
    <2> QED
      BY <1>8, <2>1, <2>2, <2>3, <2>4, <2>5, <2>6, <2>7 DEF Shared
  <1>9. CASE UNCHANGED vars
    BY <1>9 DEF vars
  <1> QED
    BY <1>1, <1>2, <1>3, <1>4, <1>5, <1>6, <1>7, <1>8, <1>9 DEF Next, UI, Worker

\* Whatever JobFinished() has read of the flags stays true.
LEMMA StepReadingInv == ASSUME IInv, [Next]_vars PROVE ReadingInv'
  <1> USE DEF IInv, TypeOK, ControlOK, DataOK, ReadingInv, Reading, Barren, PauseInv, PastLastResume, ThreadInv, ProgressInv, ReturnInv, Alive, flags, Threads, Labels, StarterLabels, UILabels, WorkerLabels, WaiterLabels
  <1>1. CASE Starter
    BY <1>1 DEF Starter, Start, RunCheck, RunSpawn, FireStart
  <1>2. CASE UserCall
    BY <1>2 DEF UserCall, Call, PauseCheck, CallResume, CallStop
  <1>3. CASE PauseSet \/ PauseCallback \/ Stopped
    BY <1>3 DEF PauseSet, PauseCallback, Stopped
  <1>4. CASE Perform \/ PausePred \/ PauseBlock \/ CheckStopped \/ ProcessItem \/ FailItem \/ Performed \/ SetCompleted \/ ClearRunning
    <2>1. CASE Perform
      BY <2>1, ItemsAssumption DEF Perform
    <2>2. CASE PausePred
      BY <2>2 DEF PausePred
    <2>3. CASE PauseBlock
      BY <2>3 DEF PauseBlock
    <2>4. CASE CheckStopped
      BY <2>4, ItemsAssumption DEF CheckStopped
    <2>5. CASE ProcessItem
      BY <2>5 DEF ProcessItem
    <2>6. CASE FailItem
      BY <2>6 DEF FailItem
    <2>7. CASE Performed
      BY <2>7, ItemsAssumption DEF Performed
    <2>8. CASE SetCompleted
      BY <2>8 DEF SetCompleted
    <2>9. CASE ClearRunning
      BY <2>9 DEF ClearRunning
    <2> QED
      BY <1>4, <2>1, <2>2, <2>3, <2>4, <2>5, <2>6, <2>7, <2>8, <2>9
  <1>5. CASE SpuriousWakeup
    BY <1>5 DEF SpuriousWakeup
  <1>6. CASE Waiter
    <2>1. CASE WaitCall
      BY <2>1 DEF WaitCall
    <2>2. CASE WaitRead
      <3>1. CASE pc["waiter"] = "wait" /\ ReadFlag("waiter", "tested")
        BY <2>2, <3>1, ReadFlagCases DEF WaitRead
      <3>2. CASE pc["waiter"] = "waitPred" /\ ReadFlag("waiter", "predTested")
        BY <2>2, <3>2, ReadFlagCases DEF WaitRead
      <3> QED
        BY <2>2, <3>1, <3>2 DEF WaitRead
    <2>3. CASE WaitTested
      BY <2>3 DEF WaitTested, Finished
    <2>4. CASE WaitBlock
      BY <2>4 DEF WaitBlock, Finished
    <2> QED
      BY <1>6, <2>1, <2>2, <2>3, <2>4 DEF Waiter
  <1>7. CASE Shared("ui")
    <2>1. CASE ResumeCheck("ui")
      BY <2>1 DEF ResumeCheck
    <2>2. CASE ResumeNotify("ui")
      BY <2>2 DEF ResumeNotify
    <2>3. CASE ResumeCallback("ui")
      BY <2>3 DEF ResumeCallback
    <2>4. CASE SetStopped("ui")
      BY <2>4 DEF SetStopped
    <2>5. CASE JobFinished("ui")
      <3>1. ReadFlag("ui", "fireOutcome") /\ state["ui"] # "Cold"
        BY <2>5 DEF JobFinished
      <3> QED
        BY <2>5, <3>1, ReadFlagCases DEF JobFinished
    <2>6. CASE FireOutcome("ui")
      BY <2>6 DEF FireOutcome
    <2>7. CASE NotifyFinish("ui")
      BY <2>7 DEF NotifyFinish
    <2> QED
      BY <1>7, <2>1, <2>2, <2>3, <2>4, <2>5, <2>6, <2>7 DEF Shared
  <1>8. CASE Shared("worker")
    <2>1. CASE ResumeCheck("worker")
      BY <2>1 DEF ResumeCheck
    <2>2. CASE ResumeNotify("worker")
      BY <2>2 DEF ResumeNotify
    <2>3. CASE ResumeCallback("worker")
      BY <2>3 DEF ResumeCallback
    <2>4. CASE SetStopped("worker")
      BY <2>4 DEF SetStopped
    <2>5. CASE JobFinished("worker")
      <3>1. ReadFlag("worker", "fireOutcome") /\ state["worker"] # "Cold"
        BY <2>5 DEF JobFinished
      <3> QED
        BY <2>5, <3>1, ReadFlagCases DEF JobFinished
    <2>6. CASE FireOutcome("worker")
      BY <2>6 DEF FireOutcome
    <2>7. CASE NotifyFinish("worker")
      BY <2>7 DEF NotifyFinish
    <2> QED
      BY <1>8, <2>1, <2>2, <2>3, <2>4, <2>5, <2>6, <2>7 DEF Shared
  <1>9. CASE UNCHANGED vars
    BY <1>9 DEF vars
  <1> QED
    BY <1>1, <1>2, <1>3, <1>4, <1>5, <1>6, <1>7, <1>8, <1>9 DEF Next, UI, Worker

\* JobFinished() reports an outcome that no later Stop() or SetCompleted() revokes.
LEMMA StepReportInv == ASSUME IInv, [Next]_vars PROVE ReportInv'
  <1> USE DEF IInv, TypeOK, ControlOK, DataOK, ReportInv, ReadingInv, Reading, Barren, ThreadInv, ProgressInv, ReturnInv, Alive, flags, Threads, Labels, StarterLabels, UILabels, WorkerLabels, WaiterLabels
  <1>1. CASE Starter
    BY <1>1 DEF Starter, Start, RunCheck, RunSpawn, FireStart
  <1>2. CASE UserCall
    BY <1>2 DEF UserCall, Call, PauseCheck, CallResume, CallStop
  <1>3. CASE PauseSet \/ PauseCallback \/ Stopped
    BY <1>3 DEF PauseSet, PauseCallback, Stopped
  <1>4. CASE Perform \/ PausePred \/ PauseBlock \/ CheckStopped \/ ProcessItem \/ FailItem \/ Performed \/ SetCompleted \/ ClearRunning
    BY <1>4 DEF Perform, PausePred, PauseBlock, CheckStopped, ProcessItem, FailItem, Performed, SetCompleted, ClearRunning
  <1>5. CASE SpuriousWakeup
    BY <1>5 DEF SpuriousWakeup
  <1>6. CASE Waiter
    <2>1. CASE WaitCall
      BY <2>1 DEF WaitCall
    <2>2. CASE WaitRead
      <3>1. CASE pc["waiter"] = "wait" /\ ReadFlag("waiter", "tested")
        BY <2>2, <3>1, ReadFlagCases DEF WaitRead
      <3>2. CASE pc["waiter"] = "waitPred" /\ ReadFlag("waiter", "predTested")
        BY <2>2, <3>2, ReadFlagCases DEF WaitRead
      <3> QED
        BY <2>2, <3>1, <3>2 DEF WaitRead
    <2>3. CASE WaitTested
      BY <2>3 DEF WaitTested, Finished
    <2>4. CASE WaitBlock
      BY <2>4 DEF WaitBlock, Finished
    <2> QED
      BY <1>6, <2>1, <2>2, <2>3, <2>4 DEF Waiter
  <1>7. CASE Shared("ui")
    <2>1. CASE ResumeCheck("ui")
      BY <2>1 DEF ResumeCheck
    <2>2. CASE ResumeNotify("ui")
      BY <2>2 DEF ResumeNotify
    <2>3. CASE ResumeCallback("ui")
      BY <2>3 DEF ResumeCallback
    <2>4. CASE SetStopped("ui")
      BY <2>4 DEF SetStopped
    <2>5. CASE JobFinished("ui")
      <3>1. ReadFlag("ui", "fireOutcome") /\ state["ui"] # "Cold"
        BY <2>5 DEF JobFinished
      <3> QED
        BY <2>5, <3>1, ReadFlagCases DEF JobFinished
    <2>6. CASE FireOutcome("ui")
      <3>1. CASE state["ui"] = "Completed"
        BY <2>6, <3>1 DEF FireOutcome
      <3>2. CASE state["ui"] = "Stopped"
        BY <2>6, <3>2 DEF FireOutcome
      <3>3. CASE state["ui"] \notin {"Completed", "Stopped"}
        BY <2>6, <3>3 DEF FireOutcome
      <3> QED
        BY <3>1, <3>2, <3>3
    <2>7. CASE NotifyFinish("ui")
      BY <2>7 DEF NotifyFinish
    <2> QED
      BY <1>7, <2>1, <2>2, <2>3, <2>4, <2>5, <2>6, <2>7 DEF Shared
  <1>8. CASE Shared("worker")
    <2>1. CASE ResumeCheck("worker")
      BY <2>1 DEF ResumeCheck
    <2>2. CASE ResumeNotify("worker")
      BY <2>2 DEF ResumeNotify
    <2>3. CASE ResumeCallback("worker")
      BY <2>3 DEF ResumeCallback
    <2>4. CASE SetStopped("worker")
      BY <2>4 DEF SetStopped
    <2>5. CASE JobFinished("worker")
      <3>1. ReadFlag("worker", "fireOutcome") /\ state["worker"] # "Cold"
        BY <2>5 DEF JobFinished
      <3> QED
        BY <2>5, <3>1, ReadFlagCases DEF JobFinished
    <2>6. CASE FireOutcome("worker")
      BY <2>6 DEF FireOutcome
    <2>7. CASE NotifyFinish("worker")
      BY <2>7 DEF NotifyFinish
    <2> QED
      BY <1>8, <2>1, <2>2, <2>3, <2>4, <2>5, <2>6, <2>7 DEF Shared
  <1>9. CASE UNCHANGED vars
    BY <1>9 DEF vars
  <1> QED
    BY <1>1, <1>2, <1>3, <1>4, <1>5, <1>6, <1>7, <1>8, <1>9 DEF Next, UI, Worker

\* m_IsPaused survives the last Resume() of a job only where Pause() raced with it.
LEMMA StepPauseInv == ASSUME IInv, [Next]_vars PROVE PauseInv'
  <1> USE DEF IInv, TypeOK, ControlOK, DataOK, PauseInv, PastLastResume, ReportInv, ReadingInv, Reading, ProgressInv, ThreadInv, Alive, Barren, ReturnInv, flags, Threads, Labels, StarterLabels, UILabels, WorkerLabels, WaiterLabels
  <1>1. CASE Starter
    BY <1>1 DEF Starter, Start, RunCheck, RunSpawn, FireStart
  <1>2. CASE UserCall
    BY <1>2 DEF UserCall, Call, PauseCheck, CallResume, CallStop
  <1>3. CASE PauseSet \/ PauseCallback \/ Stopped
    BY <1>3 DEF PauseSet, PauseCallback, Stopped
  <1>4. CASE Perform \/ PausePred \/ PauseBlock \/ CheckStopped \/ ProcessItem \/ FailItem \/ Performed \/ SetCompleted \/ ClearRunning
    BY <1>4 DEF Perform, PausePred, PauseBlock, CheckStopped, ProcessItem, FailItem, Performed, SetCompleted, ClearRunning
  <1>5. CASE SpuriousWakeup
    BY <1>5 DEF SpuriousWakeup
  <1>6. CASE Waiter
    <2>1. CASE WaitCall
      BY <2>1 DEF WaitCall
    <2>2. CASE WaitRead
      <3>1. CASE pc["waiter"] = "wait" /\ ReadFlag("waiter", "tested")
        BY <2>2, <3>1, ReadFlagCases DEF WaitRead
      <3>2. CASE pc["waiter"] = "waitPred" /\ ReadFlag("waiter", "predTested")
        BY <2>2, <3>2, ReadFlagCases DEF WaitRead
      <3> QED
        BY <2>2, <3>1, <3>2 DEF WaitRead
    <2>3. CASE WaitTested
      BY <2>3 DEF WaitTested, Finished
    <2>4. CASE WaitBlock
      BY <2>4 DEF WaitBlock, Finished
    <2> QED
      BY <1>6, <2>1, <2>2, <2>3, <2>4 DEF Waiter
  <1>7. CASE Shared("ui")
    <2>1. CASE ResumeCheck("ui")
      BY <2>1 DEF ResumeCheck
    <2>2. CASE ResumeNotify("ui")
      BY <2>2 DEF ResumeNotify
    <2>3. CASE ResumeCallback("ui")
      BY <2>3 DEF ResumeCallback
    <2>4. CASE SetStopped("ui")
      BY <2>4 DEF SetStopped
    <2>5. CASE JobFinished("ui")
      <3>1. ReadFlag("ui", "fireOutcome") /\ state["ui"] # "Cold"
        BY <2>5 DEF JobFinished
      <3> QED
        BY <2>5, <3>1, ReadFlagCases DEF JobFinished
    <2>6. CASE FireOutcome("ui")
      BY <2>6 DEF FireOutcome
    <2>7. CASE NotifyFinish("ui")
      BY <2>7 DEF NotifyFinish
    <2> QED
      BY <1>7, <2>1, <2>2, <2>3, <2>4, <2>5, <2>6, <2>7 DEF Shared
  <1>8. CASE Shared("worker")
    <2>1. CASE ResumeCheck("worker")
      BY <2>1 DEF ResumeCheck
    <2>2. CASE ResumeNotify("worker")
      BY <2>2 DEF ResumeNotify
    <2>3. CASE ResumeCallback("worker")
      BY <2>3 DEF ResumeCallback
    <2>4. CASE SetStopped("worker")
      BY <2>4 DEF SetStopped
    <2>5. CASE JobFinished("worker")
      <3>1. ReadFlag("worker", "fireOutcome") /\ state["worker"] # "Cold"
        BY <2>5 DEF JobFinished
      <3> QED
        BY <2>5, <3>1, ReadFlagCases DEF JobFinished
    <2>6. CASE FireOutcome("worker")
      BY <2>6 DEF FireOutcome
    <2>7. CASE NotifyFinish("worker")
      BY <2>7 DEF NotifyFinish
    <2> QED
      BY <1>8, <2>1, <2>2, <2>3, <2>4, <2>5, <2>6, <2>7 DEF Shared
  <1>9. CASE UNCHANGED vars
    BY <1>9 DEF vars
  <1> QED
    BY <1>1, <1>2, <1>3, <1>4, <1>5, <1>6, <1>7, <1>8, <1>9 DEF Next, UI, Worker

-----------------------------------------------------------------------------
(* The invariants.                                                         *)

\* The inductive invariant holds of every behaviour of Operation and Job, for every
\* number of items and of calls.
THEOREM Invariant == Spec => []IInv
  <1>1. Init => IInv
    BY InitIInv
  <1>2. IInv /\ [Next]_vars => IInv'
    BY StepControlOK, StepDataOK, StepThreadInv, StepReturnInv, StepProgressInv,
       StepReadingInv, StepReportInv, StepPauseInv
    DEF IInv, TypeOK
  <1> QED
    BY <1>1, <1>2, PTL DEF Spec

\* The flags of Job, the position of each thread and the history have their types.
THEOREM TypeCorrect == Spec => []TypeOK
  <1>1. IInv => TypeOK
    BY DEF IInv
  <1> QED
    BY <1>1, Invariant, PTL

\* JobFinished() tells the observers of one outcome at most, whatever the interleaving
\* of Operation::Stop() with Job::Run() and Job::Execute().
THEOREM OneOutcomeHolds == Spec => []OneOutcome
  <1>1. IInv => OneOutcome
    BY DEF IInv, ReportInv, Barren, OneOutcome
  <1> QED
    BY <1>1, Invariant, PTL

\* A job that completed has processed every item: SetCompleted() is never reached by
\* a Perform() that was cut short.
THEOREM CompletedMeansDoneHolds == Spec => []CompletedMeansDone
  <1>1. IInv => CompletedMeansDone
    BY DEF IInv, ProgressInv, CompletedMeansDone
  <1> QED
    BY <1>1, Invariant, PTL

\* The end of a job is reported unless a Pause() raced with it.
THEOREM FinishNotLostHolds == Spec => []FinishNotLost
  <1>1. IInv => FinishNotLost
    BY DEF IInv, PauseInv, FinishNotLost
  <1> QED
    BY <1>1, Invariant, PTL

\* Operation::Wait() does not return while Perform() may still run.
THEOREM WaitReturnsAfterPerformHolds == Spec => []WaitReturnsAfterPerform
  <1>1. IInv => WaitReturnsAfterPerform
    BY DEF IInv, ThreadInv, Alive, WaitReturnsAfterPerform
  <1> QED
    BY <1>1, Invariant, PTL

-----------------------------------------------------------------------------
(* The refinement: RunSpawn begins the work, ClearRunning ends it, and     *)
(* JobFinished reports; every other step but ProcessItem stutters.         *)

\* A fresh operation is an idle one that reported nothing.
LEMMA InitImplements == Init => Contract!Init
  BY DEF Init, Contract!Init, Phase, Threads

\* Every step of Operation and Job is a step of the contract, or none.
LEMMA StepImplements == ASSUME IInv, [Next]_vars PROVE [Contract!Next]_(Contract!vars)
  <1> USE DEF IInv, TypeOK, ControlOK, ThreadInv, Alive, flags, Threads, Labels, StarterLabels, UILabels, WorkerLabels, WaiterLabels,
              Phase, Contract!vars
  <1>1. CASE Starter
    <2>1. CASE RunSpawn
      <3>1. Contract!Begin
        BY <2>1 DEF RunSpawn, Contract!Begin
      <3> QED
        BY <3>1 DEF Contract!Next
    <2>2. CASE Start \/ RunCheck \/ FireStart
      BY <2>2 DEF Start, RunCheck, FireStart
    <2> QED
      BY <1>1, <2>1, <2>2 DEF Starter
  <1>2. CASE UserCall
    BY <1>2 DEF UserCall, Call, PauseCheck, CallResume, CallStop
  <1>3. CASE PauseSet \/ PauseCallback \/ Stopped
    BY <1>3 DEF PauseSet, PauseCallback, Stopped
  <1>4. CASE Perform \/ PausePred \/ PauseBlock \/ CheckStopped \/ ProcessItem \/ FailItem \/ Performed \/ SetCompleted \/ ClearRunning
    <2>1. CASE ProcessItem
      <3>1. Contract!ProcessItem
        BY <2>1 DEF ProcessItem, Contract!ProcessItem, ReportInv, ProgressInv, DataOK, Contract!Outcomes
      <3> QED
        BY <3>1 DEF Contract!Next
    <2>2. CASE ClearRunning
      <3>1. Contract!End
        BY <2>2 DEF ClearRunning, Contract!End
      <3> QED
        BY <3>1 DEF Contract!Next
    <2>3. CASE Perform \/ PausePred \/ PauseBlock \/ CheckStopped \/ FailItem \/ Performed \/ SetCompleted
      BY <2>3 DEF Perform, PausePred, PauseBlock, CheckStopped, FailItem, Performed, SetCompleted
    <2> QED
      BY <1>4, <2>1, <2>2, <2>3
  <1>5. CASE SpuriousWakeup
    BY <1>5 DEF SpuriousWakeup
  <1>6. CASE Waiter
    <2>1. pc'["worker"] = pc["worker"] /\ UNCHANGED <<heard, processed>>
      <3>1. CASE WaitRead
        <4>1. CASE pc["waiter"] = "wait" /\ ReadFlag("waiter", "tested")
          BY <3>1, <4>1, ReadFlagCases DEF WaitRead
        <4>2. CASE pc["waiter"] = "waitPred" /\ ReadFlag("waiter", "predTested")
          BY <3>1, <4>2, ReadFlagCases DEF WaitRead
        <4> QED
          BY <3>1, <4>1, <4>2 DEF WaitRead
      <3>2. CASE WaitCall \/ WaitTested \/ WaitBlock
        BY <3>2 DEF WaitCall, WaitTested, WaitBlock
      <3> QED
        BY <1>6, <3>1, <3>2 DEF Waiter
    <2> QED
      BY <2>1
  <1>7. CASE Shared("ui")
    <2>1. CASE FireOutcome("ui")
      <3> USE <2>1 DEF FireOutcome, DataOK, ReportInv, ReadingInv, Reading, ProgressInv, Barren
      <3>1. CASE state["ui"] = "Completed"
        <4>1. Contract!ReportCompletion
          BY <3>1, ItemsAssumption DEF Contract!ReportCompletion
        <4> QED
          BY <4>1 DEF Contract!Next
      <3>2. CASE state["ui"] = "Stopped"
        <4>1. Contract!ReportStop
          BY <3>2 DEF Contract!ReportStop
        <4> QED
          BY <4>1 DEF Contract!Next
      <3>3. CASE state["ui"] \notin {"Completed", "Stopped"}
        BY <3>3
      <3> QED
        BY <3>1, <3>2, <3>3
    <2>2. CASE ResumeCheck("ui") \/ ResumeNotify("ui") \/ ResumeCallback("ui") \/ SetStopped("ui") \/ NotifyFinish("ui")
      BY <2>2 DEF ResumeCheck, ResumeNotify, ResumeCallback, SetStopped, NotifyFinish
    <2>3. CASE JobFinished("ui")
      <3>1. ReadFlag("ui", "fireOutcome") /\ state["ui"] # "Cold"
        BY <2>3 DEF JobFinished, ReadingInv
      <3> QED
        BY <2>3, <3>1, ReadFlagCases DEF JobFinished
    <2> QED
      BY <1>7, <2>1, <2>2, <2>3 DEF Shared
  <1>8. CASE Shared("worker")
    <2>1. CASE FireOutcome("worker")
      <3> USE <2>1 DEF FireOutcome, DataOK, ReportInv, ReadingInv, Reading, ProgressInv, Barren
      <3>1. CASE state["worker"] = "Completed"
        <4>1. Contract!ReportCompletion
          BY <3>1, ItemsAssumption DEF Contract!ReportCompletion
        <4> QED
          BY <4>1 DEF Contract!Next
      <3>2. CASE state["worker"] = "Stopped"
        <4>1. Contract!ReportStop
          BY <3>2 DEF Contract!ReportStop
        <4> QED
          BY <4>1 DEF Contract!Next
      <3>3. CASE state["worker"] \notin {"Completed", "Stopped"}
        BY <3>3
      <3> QED
        BY <3>1, <3>2, <3>3
    <2>2. CASE ResumeCheck("worker") \/ ResumeNotify("worker") \/ ResumeCallback("worker") \/ SetStopped("worker") \/ NotifyFinish("worker")
      BY <2>2 DEF ResumeCheck, ResumeNotify, ResumeCallback, SetStopped, NotifyFinish
    <2>3. CASE JobFinished("worker")
      <3>1. ReadFlag("worker", "fireOutcome") /\ state["worker"] # "Cold"
        BY <2>3 DEF JobFinished, ReadingInv
      <3> QED
        BY <2>3, <3>1, ReadFlagCases DEF JobFinished
    <2> QED
      BY <1>8, <2>1, <2>2, <2>3 DEF Shared
  <1>9. CASE UNCHANGED vars
    BY <1>9 DEF vars
  <1> QED
    BY <1>1, <1>2, <1>3, <1>4, <1>5, <1>6, <1>7, <1>8, <1>9 DEF Next, UI, Worker

\* Operation and Job keep the contract of OperationContract: they work at most once,
\* on nothing after they reported, and report a completion of every item or a stop.
THEOREM Implementation == Spec => ImplementsContract
  <1>1. Init => Contract!Init
    BY InitImplements
  <1>2. IInv /\ [Next]_vars => [Contract!Next]_(Contract!vars)
    BY StepImplements
  <1> QED
    BY <1>1, <1>2, Invariant, PTL DEF Spec, ImplementsContract, Contract!Spec

=============================================================================
