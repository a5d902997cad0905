---------------------------- MODULE PanelLoading ----------------------------
(***************************************************************************)
(* How a panel gets its listing: PanelController.mm with its two           *)
(* base::SerialQueue (Base/source/SerialQueue.cpp), one for loads and one  *)
(* for refreshes, and the main queue, which runs one block at a time.      *)
(*                                                                         *)
(* A listing is of a place, a directory on a host, and of the version of   *)
(* its contents that was fetched.  SerialQueue keeps its length and its    *)
(* stop flag in two atomics: Stop() and the end of a task take two steps.  *)
(***************************************************************************)
EXTENDS Integers, FiniteSets, SequencesExt

CONSTANTS
    Places,       \* directories of all hosts
    Home,         \* base::CommonPaths::Home() on the native host
    First,        \* the place the panel starts with
    Path,         \* place -> its path; places of two hosts may have the same one
    Above,        \* place -> itself and the directories above it on its host, in order
    MaxRequests,  \* bound: how often the user goes to a directory
    MaxChanges    \* bound: how often the contents of a directory change

ASSUME PlacesAssumption ==
    /\ {Home, First} \subseteq Places
    /\ \A p \in Places : p \in DOMAIN Path /\ Above[p] \in Seq(Places) /\ Above[p][1] = p
ASSUME BoundsAssumption == MaxRequests \in Nat /\ MaxChanges \in Nat

Queues == {"loading", "reloading"}  \* m_DirectoryLoadingQ, m_DirectoryReLoadingQ
Listings == [place: Places, version: 0..MaxChanges]
NoListing == [place |-> Home, version |-> -1]

VARIABLES
    contents,   \* place -> the version of its contents
    valid,      \* the places that can be listed
    m_Data,     \* the listing in the panel
    observed,   \* the place m_UpdatesObservationTicket is for
    mainQ,      \* the blocks dispatched to the main queue
    main,       \* where the main thread is in a call of the controller; idle between blocks
    going,      \* the place it goes to synchronously, until it has fetched it
    m_Length, m_Stopped,
    tasks,      \* queue -> its tasks, the first one is running
    worker,     \* queue -> where the running task is
    fetched,    \* queue, or "main" -> the listing it has fetched
    requests, changes,
    late,       \* history: queue -> Stop() saw it wet and raised the flag when it was dry
    missed      \* history: why the panel may stay out of date, see FreshWhenSettled

fs == <<contents, valid, changes>>
queues == <<m_Length, m_Stopped, tasks, worker, fetched, late>>
panel == <<m_Data, observed>>
vars == <<fs, panel, mainQ, main, going, queues, requests, missed>>

Tasks == [kind: {"goto", "recover", "refresh", "restore"}, place: Places]
Blocks == [kind: {"load", "refresh", "goto", "changed", "show"}, place: Places,
           listing: Listings \cup {NoListing}]

TypeOK ==
    /\ contents \in [Places -> 0..MaxChanges] /\ valid \subseteq Places
    /\ m_Data \in Listings /\ observed \in Places
    /\ mainQ \in Seq(Blocks)
    /\ main \in {"idle", "stop", "wait", "fetch", "cancelLoading", "cancel", "stopReloading", "load"}
    /\ going \in Places
    /\ m_Length \in [Queues -> Nat] /\ m_Stopped \in [Queues -> BOOLEAN]
    /\ tasks \in [Queues -> Seq(Tasks)]
    /\ \A q \in Queues : m_Length[q] \in {Len(tasks[q]), Len(tasks[q]) - 1}
    /\ worker \in [Queues -> {"start", "fetch", "check", "stop", "post", "end", "dry"}]
    /\ fetched \in [Queues \cup {"main"} -> Listings \cup {NoListing}]
    /\ requests \in 0..MaxRequests /\ changes \in 0..MaxChanges
    /\ late \in [Queues -> BOOLEAN] /\ missed \in BOOLEAN

Init ==
    /\ contents = [p \in Places |-> 0] /\ valid = Places /\ changes = 0
    /\ m_Data = [place |-> First, version |-> 0] /\ observed = First
    /\ mainQ = <<>> /\ main = "idle" /\ going = Home
    /\ m_Length = [q \in Queues |-> 0] /\ m_Stopped = [q \in Queues |-> FALSE]
    /\ tasks = [q \in Queues |-> <<>>]
    /\ worker = [q \in Queues |-> "start"] /\ fetched = [q \in Queues \cup {"main"} |-> NoListing]
    /\ requests = 0
    /\ late = [q \in Queues |-> FALSE] /\ missed = FALSE

Fetch(place) == IF place \in valid THEN [place |-> place, version |-> contents[place]] ELSE NoListing

\* A fetch may fail: access is denied, the network is down, or the task has been stopped.
Fetched(place) == {Fetch(place), NoListing}

\* The listing is not what its place has.
Outdated(listing) == listing.place \notin valid \/ contents[listing.place] # listing.version

-----------------------------------------------------------------------------
(* SerialQueue.                                                            *)

\* Mutant: Increment() is left out.
RunUncounted(q, kind, place) ==
    /\ tasks' = [tasks EXCEPT ![q] = Append(@, [kind |-> kind, place |-> place])]
    /\ UNCHANGED m_Length

\* Run(): Increment(), and the task is dispatched.
Run(q, kind, place) ==
    /\ m_Length' = [m_Length EXCEPT ![q] = @ + 1]
    /\ tasks' = [tasks EXCEPT ![q] = Append(@, [kind |-> kind, place |-> place])]

\* Stop() tests the length first ...
Raises(q) == m_Length[q] > 0

\* ... and raises the flag in another step.
Raise(q) ==
    /\ m_Stopped' = [m_Stopped EXCEPT ![q] = TRUE]
    /\ late' = [late EXCEPT ![q] = @ \/ tasks[q] = <<>>]

\* Decrement() of the task that is running; FireDry() follows if it was the last one.
EndTask(q) ==
    /\ worker[q] = "end"
    /\ m_Length' = [m_Length EXCEPT ![q] = @ - 1]
    /\ fetched' = [fetched EXCEPT ![q] = NoListing]
    /\ IF m_Length[q] = 1
         THEN worker' = [worker EXCEPT ![q] = "dry"] /\ UNCHANGED tasks
         ELSE /\ worker' = [worker EXCEPT ![q] = "start"]
              /\ tasks' = [tasks EXCEPT ![q] = Tail(@)]
    /\ UNCHANGED <<fs, panel, mainQ, main, going, m_Stopped, requests, late, missed>>

\* Mutant: the flag is left as it is.
NotLowered(q) == m_Stopped[q]

\* What FireDry() makes of the flag.
Lowered(q) == FALSE

\* FireDry() lowers the flag; the task returns.
FireDry(q) ==
    /\ worker[q] = "dry"
    /\ m_Stopped' = [m_Stopped EXCEPT ![q] = Lowered(q)]
    /\ late' = [late EXCEPT ![q] = FALSE]
    /\ worker' = [worker EXCEPT ![q] = "start"]
    /\ tasks' = [tasks EXCEPT ![q] = Tail(@)]
    /\ UNCHANGED <<fs, panel, mainQ, main, going, m_Length, fetched, requests, missed>>

-----------------------------------------------------------------------------
(* The tasks.                                                              *)

Running(q, kind) == tasks[q] # <<>> /\ Head(tasks[q]).kind = kind
Place(q) == Head(tasks[q]).place
At(q, label) == worker' = [worker EXCEPT ![q] = label]
Dispatch(kind, place, listing) ==
    mainQ' = Append(mainQ, [kind |-> kind, place |-> place, listing |-> listing])

\* doGoToDirWithContext: on the loading queue.
GoToFetch ==
    /\ Running("loading", "goto") /\ worker["loading"] = "start"
    /\ \E listing \in Fetched(Place("loading")) :
          /\ fetched' = [fetched EXCEPT !["loading"] = listing]
          /\ At("loading", IF listing = NoListing THEN "end" ELSE "check")
          /\ missed' = (missed \/ (listing = NoListing /\ Outdated(m_Data)))
    /\ UNCHANGED <<fs, panel, mainQ, main, going, m_Length, m_Stopped, tasks, requests, late>>

\* CancelBackgroundOperations: this queue has this task, the other one may be dry.
GoToCancel ==
    /\ worker["loading"] = "check"
    /\ m_Stopped' = [m_Stopped EXCEPT !["loading"] = TRUE]
    /\ At("loading", IF Raises("reloading") THEN "stop" ELSE "post")
    /\ UNCHANGED <<fs, panel, mainQ, main, going, m_Length, tasks, fetched, requests, late, missed>>

GoToStopReloading ==
    /\ worker["loading"] = "stop"
    /\ Raise("reloading")
    /\ At("loading", "post")
    /\ UNCHANGED <<fs, panel, mainQ, main, going, m_Length, tasks, fetched, requests, missed>>

\* Mutant: the task waits for the main queue.
GoToPostSync ==
    /\ Running("loading", "goto") /\ worker["loading"] = "post" /\ main = "idle"
    /\ Dispatch("load", Place("loading"), fetched["loading"])
    /\ At("loading", "end")
    /\ UNCHANGED <<fs, panel, main, going, m_Length, m_Stopped, tasks, fetched, requests, late, missed>>

GoToPost ==
    /\ Running("loading", "goto") /\ worker["loading"] = "post"
    /\ Dispatch("load", Place("loading"), fetched["loading"])
    /\ At("loading", "end")
    /\ UNCHANGED <<fs, panel, main, going, m_Length, m_Stopped, tasks, fetched, requests, late, missed>>

\* A task of commitCancelableLoadingTask, e.g. of the history: it restores a file system and
\* leaves the rest to the main queue, to go to a directory or to show its listing.
RestoreFetch ==
    /\ Running("loading", "restore") /\ worker["loading"] = "start"
    /\ \E listing \in Fetched(Place("loading")) :
          /\ fetched' = [fetched EXCEPT !["loading"] = listing]
          /\ At("loading", IF listing = NoListing THEN "end" ELSE "post")
    /\ UNCHANGED <<fs, panel, mainQ, main, going, m_Length, m_Stopped, tasks, requests, late, missed>>

RestorePost ==
    /\ Running("loading", "restore") /\ worker["loading"] = "post"
    /\ \E kind \in {"goto", "show"} : Dispatch(kind, Place("loading"), fetched["loading"])
    /\ At("loading", "end")
    /\ UNCHANGED <<fs, panel, main, going, m_Length, m_Stopped, tasks, fetched, requests, late, missed>>

\* recoverFromInvalidDirectory: the first directory upwards whose listing does not fail is
\* left to the main queue, and the way home, taken in any case, finds this very task in
\* the queue and is given up.
Recover ==
    /\ Running("loading", "recover") /\ worker["loading"] = "start"
    /\ \/ /\ missed' = (missed \/ Outdated(m_Data))
          /\ UNCHANGED mainQ
       \/ \E place \in Range(Above[Place("loading")]) \cap valid :
             /\ Dispatch("goto", place, NoListing)
             /\ UNCHANGED missed
    /\ At("loading", "end")
    /\ UNCHANGED <<fs, panel, main, going, m_Length, m_Stopped, tasks, fetched, requests, late>>

\* refreshPanelDiscardingCaches: on the reloading queue.
RefreshStart ==
    /\ Running("reloading", "refresh") /\ worker["reloading"] = "start"
    /\ At("reloading", IF m_Stopped["reloading"] THEN "end" ELSE "fetch")
    /\ missed' = (missed \/ m_Stopped["reloading"])
    /\ UNCHANGED <<fs, panel, mainQ, main, going, m_Length, m_Stopped, tasks, fetched, requests, late>>

RefreshFetch ==
    /\ worker["reloading"] = "fetch"
    /\ \E listing \in Fetched(Place("reloading")) : fetched' = [fetched EXCEPT !["reloading"] = listing]
    /\ At("reloading", "check")
    /\ UNCHANGED <<fs, panel, mainQ, main, going, m_Length, m_Stopped, tasks, requests, late, missed>>

RefreshCheck ==
    /\ worker["reloading"] = "check"
    /\ At("reloading", IF m_Stopped["reloading"] THEN "end" ELSE "post")
    /\ missed' = (missed \/ m_Stopped["reloading"])
    /\ UNCHANGED <<fs, panel, mainQ, main, going, m_Length, m_Stopped, tasks, fetched, requests, late>>

RefreshPost ==
    /\ worker["reloading"] = "post"
    /\ Dispatch("refresh", Place("reloading"), fetched["reloading"])
    /\ At("reloading", "end")
    /\ UNCHANGED <<fs, panel, main, going, m_Length, m_Stopped, tasks, fetched, requests, late, missed>>

-----------------------------------------------------------------------------
(* The main thread.                                                        *)

\* Mutant: a refresh is discarded as soon as one is under way.
BusyWithOne == m_Length["reloading"] >= 1

\* The last of the refreshes under way has not started; it sees the change that a further
\* one would see, if it is of the same directory.
Busy == m_Length["reloading"] >= 2

\* refreshPanel: given up while a load is under way, or two refreshes are.
RefreshPanel ==
    \/ /\ m_Length["loading"] > 0
       /\ missed' = (missed \/ Outdated(m_Data)) /\ UNCHANGED <<m_Length, tasks>>
    \/ /\ m_Length["loading"] = 0 /\ Busy
       /\ missed' = (missed \/ Last(tasks["reloading"]).place # m_Data.place)
       /\ UNCHANGED <<m_Length, tasks>>
    \/ /\ m_Length["loading"] = 0 /\ ~Busy
       /\ Run("reloading", "refresh", m_Data.place) /\ UNCHANGED missed

\* GoToDirWithContext, PerformAsynchronous; given up if a load is under way.
GoToAsync(place) ==
    IF m_Length["loading"] = 0 THEN Run("loading", "goto", place) ELSE UNCHANGED <<m_Length, tasks>>

\* m_Data.Load(), and onPathChanged, which observes the directory from now on.
Load(listing) ==
    /\ m_Data' = listing
    /\ observed' = listing.place
    /\ missed' = Outdated(listing)

\* What a block of the main queue does.
RunBlock ==
    LET block == Head(mainQ)
        current == Path[m_Data.place] = Path[block.place]
    IN  /\ main = "idle" /\ mainQ # <<>> /\ block.kind # "show"
        /\ mainQ' = Tail(mainQ)
        /\ \/ /\ block.kind = "load"
              /\ Load(block.listing)
              /\ UNCHANGED <<m_Length, tasks>>
           \/ /\ block.kind = "refresh" /\ current /\ block.listing # NoListing
              /\ m_Data' = block.listing
              /\ missed' = (Outdated(block.listing)
                              /\ (missed \/ m_Data.place # block.place
                                    \/ block.listing.version < m_Data.version))
              /\ UNCHANGED <<observed, m_Length, tasks>>
           \/ /\ block.kind = "refresh" /\ current /\ block.listing = NoListing
              /\ Run("loading", "recover", m_Data.place)
              /\ UNCHANGED <<panel, missed>>
           \/ /\ block.kind = "goto"
              /\ GoToAsync(block.place)
              /\ missed' = (missed \/ (m_Length["loading"] > 0 /\ Outdated(m_Data)))
              /\ UNCHANGED panel
           \/ /\ block.kind = "changed" /\ current
              /\ RefreshPanel
              /\ UNCHANGED panel
           \/ /\ block.kind \in {"refresh", "changed"} /\ ~current
              /\ UNCHANGED <<panel, m_Length, tasks, missed>>
        /\ UNCHANGED <<fs, main, going, m_Stopped, worker, fetched, requests, late>>

\* CancelBackgroundOperations on the main thread, which goes on from here; the listing that
\* is to be shown then, or none.
CancelOperations(listing) ==
    /\ fetched' = [fetched EXCEPT !["main"] = listing]
    /\ main' = IF Raises("loading") THEN "cancelLoading" ELSE "cancel"

\* The block of a restoring task that calls loadListing.
LoadListing ==
    /\ main = "idle" /\ mainQ # <<>> /\ Head(mainQ).kind = "show"
    /\ mainQ' = Tail(mainQ)
    /\ CancelOperations(Head(mainQ).listing)
    /\ UNCHANGED <<fs, panel, going, m_Length, m_Stopped, tasks, worker, requests, late, missed>>

\* The user asks for something.
Request ==
    /\ main = "idle" /\ requests < MaxRequests
    /\ requests' = requests + 1
    /\ UNCHANGED <<fs, panel, mainQ, m_Stopped, worker, late>>

UserGoesAsync(place) ==
    /\ Request
    /\ GoToAsync(place)
    /\ UNCHANGED <<main, going, fetched, missed>>

\* The user, or an operation that ended, has the panel refreshed.
UserRefreshes ==
    /\ Request
    /\ RefreshPanel
    /\ UNCHANGED <<main, going, fetched>>

\* commitCancelableLoadingTask: not given up, whatever is in the queue.
UserRestores(place) ==
    /\ Request
    /\ Run("loading", "restore", place)
    /\ UNCHANGED <<main, going, fetched, missed>>

\* Esc.
UserCancels ==
    /\ Request
    /\ CancelOperations(NoListing)
    /\ UNCHANGED <<going, m_Length, tasks, missed>>

\* The synchronous way stops the loads ...
UserGoesSync(place) ==
    /\ Request
    /\ going' = place
    /\ main' = IF Raises("loading") THEN "stop" ELSE "wait"
    /\ UNCHANGED <<m_Length, tasks, fetched, missed>>

MainStopLoading ==
    /\ main = "stop"
    /\ Raise("loading")
    /\ main' = "wait"
    /\ UNCHANGED <<fs, panel, mainQ, going, m_Length, tasks, worker, fetched, requests, missed>>

\* Mutant: Wait() is left out.
NoWait == TRUE

\* Wait(): the queue is empty, or the block dispatched to it has run.
Waited == m_Length["loading"] = 0 \/ tasks["loading"] = <<>>

MainWaits ==
    /\ main = "wait" /\ Waited
    /\ main' = "fetch"
    /\ UNCHANGED <<fs, panel, mainQ, going, queues, requests, missed>>

\* ... fetches the listing, and cancels what is under way.
MainFetches ==
    /\ main = "fetch"
    /\ \/ main' = "idle" /\ UNCHANGED fetched
       \/ Fetch(going) # NoListing /\ CancelOperations(Fetch(going))
    /\ going' = Home
    /\ UNCHANGED <<fs, panel, mainQ, m_Length, m_Stopped, tasks, worker, requests, late, missed>>

MainCancelsLoading ==
    /\ main = "cancelLoading"
    /\ Raise("loading")
    /\ main' = "cancel"
    /\ UNCHANGED <<fs, panel, mainQ, going, m_Length, tasks, worker, fetched, requests, missed>>

MainCancels ==
    /\ main = "cancel"
    /\ main' = IF Raises("reloading") THEN "stopReloading" ELSE "load"
    /\ UNCHANGED <<fs, panel, mainQ, going, queues, requests, missed>>

MainStopReloading ==
    /\ main = "stopReloading"
    /\ Raise("reloading")
    /\ main' = "load"
    /\ UNCHANGED <<fs, panel, mainQ, going, m_Length, tasks, worker, fetched, requests, missed>>

MainLoads ==
    /\ main = "load"
    /\ IF fetched["main"] = NoListing
         THEN UNCHANGED <<panel, missed>>
         ELSE Load(fetched["main"])
    /\ fetched' = [fetched EXCEPT !["main"] = NoListing]
    /\ main' = "idle"
    /\ UNCHANGED <<fs, mainQ, going, m_Length, m_Stopped, tasks, worker, requests, late>>

-----------------------------------------------------------------------------
\* The contents of a directory change, or it cannot be listed any longer; its host tells the
\* panel that observes it, through the main queue, and not one that merely shows it.
Change(place) ==
    /\ changes < MaxChanges /\ place \in valid
    /\ changes' = changes + 1
    /\ \/ contents' = [contents EXCEPT ![place] = @ + 1] /\ UNCHANGED valid
       \/ valid' = valid \ {place} /\ UNCHANGED contents
    /\ IF observed = place THEN Dispatch("changed", place, NoListing) ELSE UNCHANGED mainQ
    /\ missed' = (missed \/ (m_Data.place = place /\ observed # place))
    /\ UNCHANGED <<panel, main, going, queues, requests>>

GoToTask == GoToFetch \/ GoToCancel \/ GoToStopReloading \/ GoToPost
RefreshTask == RefreshStart \/ RefreshFetch \/ RefreshCheck \/ RefreshPost
RestoreTask == RestoreFetch \/ RestorePost
LoadingQueue == GoToTask \/ RestoreTask \/ Recover \/ EndTask("loading") \/ FireDry("loading")
ReloadingQueue == RefreshTask \/ EndTask("reloading") \/ FireDry("reloading")
MainQueue == RunBlock \/ LoadListing
GoesOn ==
    \/ MainStopLoading \/ MainWaits \/ MainFetches
    \/ MainCancelsLoading \/ MainCancels \/ MainStopReloading \/ MainLoads

Next ==
    \/ LoadingQueue \/ ReloadingQueue
    \/ MainQueue \/ GoesOn
    \/ UserRefreshes \/ UserCancels
    \/ \E place \in Places :
           UserGoesAsync(place) \/ UserGoesSync(place) \/ UserRestores(place) \/ Change(place)

\* dispatch runs the queues, a task ends, and so does what the main thread has begun; the
\* user need not do anything.
Spec ==
    /\ Init /\ [][Next]_vars
    /\ WF_vars(LoadingQueue) /\ WF_vars(ReloadingQueue) /\ WF_vars(MainQueue) /\ WF_vars(GoesOn)

-----------------------------------------------------------------------------
(* Properties.                                                             *)

\* No listing is fetched on the loading queue while the main thread fetches one: Stop() and
\* Wait() leave no task behind, and none is queued meanwhile.
LoadsAlone == main = "fetch" => tasks["loading"] = <<>> \/ worker["loading"] = "dry"

\* A dry queue has its flag lowered ("Will hold this flag more until queue became dry,
\* then will automaticaly lower this flag"), or the next task would be cancelled by a
\* Stop() meant for another one; except that a Stop() which saw the last task raises the
\* flag after that task has lowered it.
LoweredWhenDry ==
    \A q \in Queues : tasks[q] = <<>> => ~m_Stopped[q] \/ late[q]

Settled ==
    /\ main = "idle" /\ mainQ = <<>>
    /\ \A q \in Queues : tasks[q] = <<>>

\* The panel shows what is in its directory, once nothing is under way.  It does not, since
\* its last load, only if
\*   - the load showed what had changed before the directory was observed;
\*   - what changed is a directory that is shown and not observed: a refresh has put one with
\*     the same path on another host in the panel, and only loads observe;
\*   - a refresh was given up because of a load that came to nothing, or because the flag
\*     of a Stop() meant for an earlier refresh was still up, or for two refreshes of the
\*     directory the panel had shown before;
\*   - a refresh put an older listing in the panel than the load had, or one of a directory
\*     with the same path on another host;
\*   - a refresh could not list the directory, and the way out of it was given up or failed
\*     as well; or so did a load, with the panel out of date.
FreshWhenSettled ==
    Settled /\ ~missed =>
        m_Data.place \in valid /\ m_Data.version = contents[m_Data.place]

\* The main thread does not wait forever for the loads it has stopped.
GoToEnds == main # "idle" ~> main = "idle"

=============================================================================
