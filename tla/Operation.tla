----------------------------- MODULE Operation -----------------------------
(***************************************************************************)
(* One ops::Operation and its ops::Job (Operations/source/Operation.mm,    *)
(* Operations/source/Job.cpp), at the grain of the accesses to the four    *)
(* atomic flags.  Four threads meet on them:                               *)
(*   "starter"  the thread on which the pool calls Operation::Start();     *)
(*   "ui"       the main thread: Pause(), Resume() and Stop();             *)
(*   "worker"   the detached thread that runs Job::Execute();              *)
(*   "waiter"   a thread in Operation::Wait(), e.g. in a destructor.       *)
(* A condition variable is the label its only waiter is parked at;         *)
(* notify_all() moves that thread on and is lost when nobody is parked.    *)
(***************************************************************************)
EXTENDS Integers

CONSTANTS
    Items,     \* how many items Perform() processes
    MaxCalls   \* bound: how many calls the main thread makes

ASSUME ItemsAssumption == Items \in Nat \ {0}
ASSUME MaxCallsAssumption == MaxCalls \in Nat

Threads == {"starter", "ui", "worker", "waiter"}

VARIABLES
    m_IsRunning, m_IsPaused, m_IsCompleted, m_IsStopped,  \* Job's flags
    callbacks,   \* whether Operation::Start() has installed the callbacks
    pc,          \* where each thread is
    state,       \* in State(): the state of the flag to be read next; then its result
    return,      \* where Resume() and Stop() return to, per thread
    is_running,  \* the local variable of Operation::Stop()
    calls,       \* the number of calls the main thread has made
    processed,   \* the number of items Perform() has processed
    heard,       \* history: the kinds of notifications fired
    pauseRace    \* history: a Pause() overlapped the end of the job

flags == <<m_IsRunning, m_IsPaused, m_IsCompleted, m_IsStopped>>
vars == <<flags, callbacks, pc, state, return, is_running, calls, processed, heard,
          pauseRace>>

Outcomes == {"Stop", "Completion"}
Notifications == Outcomes \cup {"Start", "Pause"}

\* The labels between Execute()'s first instruction and m_IsRunning = false.
Performing == {"perform", "pausePred", "pauseBlock", "pauseWait", "check", "process"}
Concluding == {"performed", "setCompleted", "clearRunning"}
InStop == {"setStopped"}
InResume == {"resume", "notifyPause", "resumed"}
InJobFinished == {"jobFinished", "fireOutcome", "notifyFinish"}

StarterLabels == {"ready", "run", "spawn", "fireStart", "returned"}
UILabels == {"idle", "setPaused", "pauseCallback", "stopped"}
                \cup InStop \cup InResume \cup InJobFinished
WorkerLabels == {"off", "over"} \cup Performing \cup Concluding
                \cup InStop \cup InResume \cup InJobFinished
WaiterLabels == {"ready", "wait", "tested", "waitPred", "predTested", "waiting", "returned"}
Labels == StarterLabels \cup UILabels \cup WorkerLabels \cup WaiterLabels

Goto(t, label) == pc' = [pc EXCEPT ![t] = label]

States == {"Paused", "Running", "Completed", "Stopped", "Cold"}

Flag(s) ==
    CASE s = "Paused"    -> m_IsPaused
      [] s = "Running"   -> m_IsRunning
      [] s = "Completed" -> m_IsCompleted
      [] s = "Stopped"   -> m_IsStopped

\* Mutant: m_IsStopped is read before m_IsCompleted.
AfterStoppedFirst(s) ==
    CASE s = "Paused" -> "Running" [] s = "Running" -> "Stopped" [] s = "Stopped" -> "Completed"
      [] OTHER -> "Cold"

\* Mutant: m_IsRunning is read last.
AfterRunningLast(s) ==
    CASE s = "Paused" -> "Completed" [] s = "Completed" -> "Stopped" [] s = "Stopped" -> "Running"
      [] OTHER -> "Cold"

\* The order in which Operation::State() reads the flags.
After(s) ==
    CASE s = "Paused" -> "Running" [] s = "Running" -> "Completed" [] s = "Completed" -> "Stopped"
      [] OTHER -> "Cold"

\* State() reads a flag at a time, and returns at this label with the first one raised.
ReadFlag(t, label) ==
    IF Flag(state[t])
      THEN Goto(t, label) /\ UNCHANGED state
      ELSE /\ state' = [state EXCEPT ![t] = After(@)]
           /\ Goto(t, IF After(state[t]) = "Cold" THEN label ELSE pc[t])

\* The result has been used; the next State() starts from the first flag.
Forget(t) == state' = [state EXCEPT ![t] = "Paused"]

ControlOK ==
    /\ pc \in [Threads -> Labels]
    /\ pc["starter"] \in StarterLabels /\ pc["ui"] \in UILabels
    /\ pc["worker"] \in WorkerLabels /\ pc["waiter"] \in WaiterLabels
    /\ return \in [{"ui", "worker"} -> {"idle", "stopped", "performed", "setCompleted"}]
    /\ return["ui"] \in {"idle", "stopped"}
    /\ return["worker"] \in {"performed", "setCompleted"}
    /\ state \in [{"ui", "worker", "waiter"} -> States]
    /\ \A t \in {"ui", "worker", "waiter"} :
           pc[t] \notin {"fireOutcome", "tested", "predTested"} => state[t] # "Cold"

DataOK ==
    /\ m_IsRunning \in BOOLEAN /\ m_IsPaused \in BOOLEAN
    /\ m_IsCompleted \in BOOLEAN /\ m_IsStopped \in BOOLEAN
    /\ callbacks \in BOOLEAN
    /\ is_running \in BOOLEAN
    /\ calls \in 0..MaxCalls
    /\ processed \in 0..Items
    /\ heard \subseteq Notifications
    /\ pauseRace \in BOOLEAN

TypeOK == ControlOK /\ DataOK

Init ==
    /\ m_IsRunning = FALSE /\ m_IsPaused = FALSE
    /\ m_IsCompleted = FALSE /\ m_IsStopped = FALSE
    /\ callbacks = FALSE
    /\ pc = [t \in Threads |->
                IF t = "ui" THEN "idle" ELSE IF t = "worker" THEN "off" ELSE "ready"]
    /\ return = [t \in {"ui", "worker"} |-> IF t = "ui" THEN "idle" ELSE "performed"]
    /\ state = [t \in {"ui", "worker", "waiter"} |-> "Paused"]
    /\ is_running = FALSE
    /\ calls = 0
    /\ processed = 0
    /\ heard = {}
    /\ pauseRace = FALSE

-----------------------------------------------------------------------------
(* Operation::Start() and Job::Run(), on the starter.                      *)

Start ==
    /\ pc["starter"] = "ready"
    /\ IF m_IsRunning
         THEN Goto("starter", "returned") /\ UNCHANGED callbacks
         ELSE Goto("starter", "run") /\ callbacks' = TRUE
    /\ UNCHANGED <<flags, state, return, is_running, calls, processed, heard, pauseRace>>

\* Job::Run() checks the flags ...
RunCheck ==
    /\ pc["starter"] = "run"
    /\ Goto("starter", IF m_IsRunning \/ m_IsStopped THEN "fireStart" ELSE "spawn")
    /\ UNCHANGED <<flags, state, callbacks, return, is_running, calls, processed, heard, pauseRace>>

\* ... and sets m_IsRunning and detaches the thread in a later step.
RunSpawn ==
    /\ pc["starter"] = "spawn"
    /\ m_IsRunning' = TRUE
    /\ pc' = [pc EXCEPT !["starter"] = "fireStart", !["worker"] = "perform"]
    /\ UNCHANGED <<m_IsPaused, m_IsCompleted, m_IsStopped, state, callbacks, return, is_running,
                   calls, processed, heard, pauseRace>>

\* NotifyAboutStart is fired whether or not Run() started the thread.
FireStart ==
    /\ pc["starter"] = "fireStart"
    /\ heard' = heard \cup {"Start"}
    /\ Goto("starter", "returned")
    /\ UNCHANGED <<flags, state, callbacks, return, is_running, calls, processed, pauseRace>>

-----------------------------------------------------------------------------
(* Job::Resume() and Job::Stop(): procedures of the main thread and of the *)
(* worker, that go on at return[t] when they are done.                     *)

ResumeCheck(t) ==
    /\ pc[t] = "resume"
    /\ Goto(t, IF m_IsPaused THEN "notifyPause" ELSE return[t])
    /\ m_IsPaused' = FALSE
    /\ UNCHANGED <<m_IsRunning, m_IsCompleted, m_IsStopped, state, callbacks, return, is_running,
                   calls, processed, heard, pauseRace>>

\* m_PauseCV.notify_all(), without the mutex the worker waits with.
ResumeNotify(t) ==
    /\ pc[t] = "notifyPause"
    /\ pc' = [pc EXCEPT ![t] = "resumed",
                        !["worker"] = IF t = "worker" THEN "resumed"
                                      ELSE IF @ = "pauseWait" THEN "pausePred" ELSE @]
    /\ UNCHANGED <<flags, state, callbacks, return, is_running, calls, processed, heard, pauseRace>>

\* m_OnResume, to which Operation::Start() binds JobPaused().
ResumeCallback(t) ==
    /\ pc[t] = "resumed"
    /\ heard' = IF callbacks THEN heard \cup {"Pause"} ELSE heard
    /\ Goto(t, return[t])
    /\ UNCHANGED <<flags, state, callbacks, return, is_running, calls, processed, pauseRace>>

\* Mutant: Job::Stop() does not resume a paused job.
SetStoppedOnly(t) ==
    /\ pc[t] = "setStopped"
    /\ m_IsStopped' = TRUE
    /\ Goto(t, return[t])
    /\ UNCHANGED <<m_IsRunning, m_IsPaused, m_IsCompleted, state, callbacks, return, is_running,
                   calls, processed, heard, pauseRace>>

\* Job::Stop() past its early return; it goes on into Resume().
SetStopped(t) ==
    /\ pc[t] = "setStopped"
    /\ IF m_IsStopped
         THEN Goto(t, return[t]) /\ UNCHANGED <<m_IsStopped, pauseRace>>
         ELSE /\ m_IsStopped' = TRUE
              /\ pauseRace' = (pauseRace \/ m_IsPaused)
              /\ Goto(t, "resume")
    /\ UNCHANGED <<m_IsRunning, m_IsPaused, m_IsCompleted, state, callbacks, return, is_running,
                   calls, processed, heard>>

-----------------------------------------------------------------------------
(* Operation::JobFinished(), on the worker and on the main thread.         *)

\* const auto state = State() ...
JobFinished(t) ==
    /\ pc[t] = "jobFinished"
    /\ ReadFlag(t, "fireOutcome")
    /\ UNCHANGED <<flags, callbacks, return, is_running, calls, processed, heard, pauseRace>>

\* ... and what the observers are told of it.
FireOutcome(t) ==
    /\ pc[t] = "fireOutcome"
    /\ heard' = CASE state[t] = "Completed" -> heard \cup {"Completion"}
                  [] state[t] = "Stopped"   -> heard \cup {"Stop"}
                  [] OTHER                  -> heard
    /\ Forget(t)
    /\ Goto(t, "notifyFinish")
    /\ UNCHANGED <<flags, callbacks, return, is_running, calls, processed, pauseRace>>

\* m_FinishCV.notify_all(), without the mutex the waiter waits with.
NotifyFinish(t) ==
    /\ pc[t] = "notifyFinish"
    /\ pc' = [pc EXCEPT ![t] = IF t = "worker" THEN "over" ELSE "idle",
                        !["waiter"] = IF @ = "waiting" THEN "waitPred" ELSE @]
    /\ UNCHANGED <<flags, state, callbacks, return, is_running, calls, processed, heard, pauseRace>>

-----------------------------------------------------------------------------
(* The main thread.                                                        *)

\* The main thread is free to make its next call.
Call ==
    /\ pc["ui"] = "idle"
    /\ calls < MaxCalls
    /\ calls' = calls + 1

\* Operation::Pause(), Job::Pause(): the check ...
PauseCheck ==
    /\ Call
    /\ Goto("ui", IF m_IsPaused \/ m_IsCompleted \/ m_IsStopped THEN "idle" ELSE "setPaused")
    /\ UNCHANGED <<flags, state, callbacks, return, is_running, processed, heard, pauseRace>>

\* The job is past the last place where it would clear m_IsPaused.
PastLastResume ==
    \/ m_IsStopped
    \/ pc["worker"] \in {"setCompleted", "clearRunning", "over"} \cup InJobFinished
    \/ pc["worker"] \in {"notifyPause", "resumed"}

\* ... the assignment ...
PauseSet ==
    /\ pc["ui"] = "setPaused"
    /\ m_IsPaused' = TRUE
    /\ pauseRace' = (pauseRace \/ PastLastResume)
    /\ Goto("ui", "pauseCallback")
    /\ UNCHANGED <<m_IsRunning, m_IsCompleted, m_IsStopped, state, callbacks, return, is_running,
                   calls, processed, heard>>

\* ... and m_OnPause.
PauseCallback ==
    /\ pc["ui"] = "pauseCallback"
    /\ heard' = IF callbacks THEN heard \cup {"Pause"} ELSE heard
    /\ Goto("ui", "idle")
    /\ UNCHANGED <<flags, state, callbacks, return, is_running, calls, processed, pauseRace>>

\* Operation::Resume().
CallResume ==
    /\ Call
    /\ Goto("ui", "resume")
    /\ return' = [return EXCEPT !["ui"] = "idle"]
    /\ UNCHANGED <<flags, state, callbacks, is_running, processed, heard, pauseRace>>

\* Operation::Stop() reads IsRunning() before it calls Job::Stop() ...
CallStop ==
    /\ Call
    /\ is_running' = m_IsRunning
    /\ Goto("ui", "setStopped")
    /\ return' = [return EXCEPT !["ui"] = "stopped"]
    /\ UNCHANGED <<flags, state, callbacks, processed, heard, pauseRace>>

\* ... and finishes on behalf of a job that was not running then.
Stopped ==
    /\ pc["ui"] = "stopped"
    /\ Goto("ui", IF is_running THEN "idle" ELSE "jobFinished")
    /\ UNCHANGED <<flags, state, callbacks, return, is_running, calls, processed, heard, pauseRace>>

-----------------------------------------------------------------------------
(* The worker: Job::Execute() around a Perform() that processes its items  *)
(* one by one, with BlockIfPaused() and IsStopped() before each of them.   *)

\* Mutant: one item too many.
PerformOneMore ==
    /\ pc["worker"] = "perform"
    /\ Goto("worker", CASE processed > Items -> "performed"
                        [] processed <= Items /\ m_IsPaused /\ ~m_IsStopped -> "pausePred"
                        [] OTHER -> "check")
    /\ UNCHANGED <<flags, state, callbacks, return, is_running, calls, processed, heard, pauseRace>>

\* BlockIfPaused(): the test outside the mutex.
Perform ==
    /\ pc["worker"] = "perform"
    /\ Goto("worker", CASE processed = Items -> "performed"
                        [] processed < Items /\ m_IsPaused /\ ~m_IsStopped -> "pausePred"
                        [] OTHER -> "check")
    /\ UNCHANGED <<flags, state, callbacks, return, is_running, calls, processed, heard, pauseRace>>

\* BlockIfPaused(): the predicate, evaluated with the mutex held, ...
PausePred ==
    /\ pc["worker"] = "pausePred"
    /\ Goto("worker", IF m_IsPaused THEN "pauseBlock" ELSE "check")
    /\ UNCHANGED <<flags, state, callbacks, return, is_running, calls, processed, heard, pauseRace>>

\* ... and the wait proper.
PauseBlock ==
    /\ pc["worker"] = "pauseBlock"
    /\ Goto("worker", "pauseWait")
    /\ UNCHANGED <<flags, state, callbacks, return, is_running, calls, processed, heard, pauseRace>>

\* A condition variable may wake up for no reason.
SpuriousWakeup ==
    /\ pc["worker"] = "pauseWait"
    /\ Goto("worker", "pausePred")
    /\ UNCHANGED <<flags, state, callbacks, return, is_running, calls, processed, heard, pauseRace>>

CheckStopped ==
    /\ pc["worker"] = "check"
    /\ Goto("worker", IF m_IsStopped THEN "performed" ELSE "process")
    /\ UNCHANGED <<flags, state, callbacks, return, is_running, calls, processed, heard, pauseRace>>

ProcessItem ==
    /\ pc["worker"] = "process"
    /\ processed' = processed + 1
    /\ Goto("worker", "perform")
    /\ UNCHANGED <<flags, state, callbacks, return, is_running, calls, heard, pauseRace>>

\* An item fails: the job stops itself, or Perform() throws and Execute() does.
FailItem ==
    /\ pc["worker"] = "process"
    /\ Goto("worker", "setStopped")
    /\ return' = [return EXCEPT !["worker"] = "performed"]
    /\ UNCHANGED <<flags, state, callbacks, is_running, calls, processed, heard, pauseRace>>

\* Mutant: SetCompleted() does not resume a paused job.
PerformedPaused ==
    /\ pc["worker"] = "performed"
    /\ Goto("worker", IF m_IsStopped THEN "clearRunning" ELSE "setCompleted")
    /\ UNCHANGED <<flags, state, callbacks, return, is_running, calls, processed, heard, pauseRace>>

\* Execute(): if( !IsStopped() ) SetCompleted(), which calls Resume() first.
Performed ==
    /\ pc["worker"] = "performed"
    /\ Goto("worker", IF m_IsStopped THEN "clearRunning" ELSE "resume")
    /\ return' = [return EXCEPT !["worker"] = "setCompleted"]
    /\ UNCHANGED <<flags, state, callbacks, is_running, calls, processed, heard, pauseRace>>

SetCompleted ==
    /\ pc["worker"] = "setCompleted"
    /\ m_IsCompleted' = TRUE
    /\ Goto("worker", "clearRunning")
    /\ UNCHANGED <<m_IsRunning, m_IsPaused, m_IsStopped, state, callbacks, return, is_running, calls,
                   processed, heard, pauseRace>>

\* m_IsRunning = false; m_OnFinish, which is JobFinished(), comes next.
ClearRunning ==
    /\ pc["worker"] = "clearRunning"
    /\ m_IsRunning' = FALSE
    /\ Goto("worker", "jobFinished")
    /\ UNCHANGED <<m_IsPaused, m_IsCompleted, m_IsStopped, state, callbacks, return, is_running,
                   calls, processed, heard, pauseRace>>

-----------------------------------------------------------------------------
(* Operation::Wait(), called once Start() has returned.                    *)

\* Mutant: a paused operation counts as finished.
FinishedOrPaused == state["waiter"] # "Running"

\* What the predicate of Wait() makes of the state.
Finished == state["waiter"] \notin {"Running", "Paused"}

WaitCall ==
    /\ pc["waiter"] = "ready"
    /\ pc["starter"] = "returned"
    /\ Goto("waiter", "wait")
    /\ UNCHANGED <<flags, state, callbacks, return, is_running, calls, processed, heard, pauseRace>>

\* The predicate is evaluated outside the mutex, and again inside it.
WaitRead ==
    /\ \/ pc["waiter"] = "wait" /\ ReadFlag("waiter", "tested")
       \/ pc["waiter"] = "waitPred" /\ ReadFlag("waiter", "predTested")
    /\ UNCHANGED <<flags, callbacks, return, is_running, calls, processed, heard, pauseRace>>

WaitTested ==
    /\ pc["waiter"] = "tested"
    /\ Goto("waiter", IF Finished THEN "returned" ELSE "waitPred")
    /\ Forget("waiter")
    /\ UNCHANGED <<flags, callbacks, return, is_running, calls, processed, heard, pauseRace>>

\* The waiter blocks in a later step than it read the flags.
WaitBlock ==
    /\ pc["waiter"] = "predTested"
    /\ Goto("waiter", IF Finished THEN "returned" ELSE "waiting")
    /\ Forget("waiter")
    /\ UNCHANGED <<flags, callbacks, return, is_running, calls, processed, heard, pauseRace>>

-----------------------------------------------------------------------------
Starter == Start \/ RunCheck \/ RunSpawn \/ FireStart

\* The procedures the main thread and the worker share.
Shared(t) ==
    \/ ResumeCheck(t) \/ ResumeNotify(t) \/ ResumeCallback(t)
    \/ SetStopped(t)
    \/ JobFinished(t) \/ FireOutcome(t) \/ NotifyFinish(t)

UserCall == PauseCheck \/ CallResume \/ CallStop
UI == PauseSet \/ PauseCallback \/ Stopped \/ Shared("ui")

Worker ==
    \/ Perform \/ PausePred \/ PauseBlock \/ CheckStopped \/ ProcessItem \/ FailItem
    \/ Performed \/ SetCompleted \/ ClearRunning
    \/ Shared("worker")

Waiter == WaitCall \/ WaitRead \/ WaitTested \/ WaitBlock

Next == Starter \/ UserCall \/ UI \/ Worker \/ SpuriousWakeup \/ Waiter

\* Threads are scheduled; the user need not do anything.
Fairness == WF_vars(Starter) /\ WF_vars(UI) /\ WF_vars(Worker) /\ WF_vars(Waiter)

Spec == Init /\ [][Next]_vars /\ Fairness

-----------------------------------------------------------------------------
(* Properties.                                                             *)

\* The observers are told of one outcome at most, "Stop" or "Completion", however
\* the main thread's Stop() interleaves with Run() and Execute(): Pool uses the
\* outcome to decide whether to run its completion callback.
OneOutcome == heard \cap Outcomes # Outcomes

\* m_IsCompleted is set only by a job that processed every item: a Stop() or a
\* failure that cuts Perform() short is never reported as a completion.
CompletedMeansDone == m_IsCompleted => processed = Items

\* A job whose thread ran to its end has told the observers so, unless a Pause()
\* overlapped the end of the job: it set m_IsPaused behind the job's last Resume(),
\* or Stop() found it set.  JobFinished() reports nothing while State() is "Paused".
FinishNotLost ==
    pc["worker"] = "over" /\ heard \cap Outcomes = {} => pauseRace

\* Operation::Wait() returns only when Perform() is over for good (or never runs):
\* the destructors of the operations call it before the job is destroyed.
WaitReturnsAfterPerform ==
    pc["waiter"] = "returned" =>
        pc["worker"] \in {"off", "over"} \cup InJobFinished

\* The job is parked in BlockIfPaused() although it is not paused any more: the
\* notify_all() of Resume() fell between the test of m_IsPaused and the wait.
WakeupLost == pc["worker"] = "pauseWait" /\ ~m_IsPaused

\* Stop() ends the job, paused or not: its thread runs to its end, unless a lost
\* wakeup keeps it in BlockIfPaused().
StopEndsTheJob ==
    m_IsStopped ~> (pc["worker"] \in {"off", "over"} \/ WakeupLost)

\* The job's thread as the contract sees it.
Phase == IF pc["worker"] = "off" THEN "idle"
         ELSE IF pc["worker"] \in {"over"} \cup InJobFinished THEN "ended"
         ELSE "working"

\* The refinement.
Contract == INSTANCE OperationContract WITH
    phase     <- Phase,
    reported  <- heard \cap Outcomes

\* The operation keeps the contract of OperationContract.tla.
ImplementsContract == Contract!Spec

\* Wait() comes back once the job is over (the "builtin wait" test).
WaitReturns == pc["worker"] = "over" /\ ~m_IsPaused ~> pc["waiter"] = "returned"

=============================================================================
