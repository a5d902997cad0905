------------------------- MODULE PanelLoadingProofs -------------------------
(***************************************************************************)
(* Theorems about PanelLoading, for any places, requests and changes: its  *)
(* type invariant, that a listing the main thread loads by itself does not *)
(* meet one that the loading queue is fetching, that a dry queue does not  *)
(* keep the flag of a Stop(), and that the panel ends up with what is in   *)
(* its directory, but for the cases that are named.                        *)
(***************************************************************************)
EXTENDS PanelLoading, SequenceFacts

\* m_Length counts the tasks that have not ended; a task that has made its queue dry is
\* still there until FireDry() is over.
QueueInv ==
    \A q \in Queues :
        /\ tasks[q] = <<>> => worker[q] = "start"
        /\ m_Length[q] = IF worker[q] = "dry" THEN Len(tasks[q]) - 1 ELSE Len(tasks[q])

\* The main thread fetches, past Wait(), with an empty loading queue.
MainInv == main = "fetch" => m_Length["loading"] = 0

\* What is loaded was listed; versions are counted by changes.
ListingInv ==
    /\ worker["loading"] \in {"check", "stop", "post"} => fetched["loading"] # NoListing
    /\ \A i \in 1..Len(mainQ) : mainQ[i].kind = "load" => mainQ[i].listing # NoListing
    /\ \A p \in Places : contents[p] <= changes

IInv ==
    /\ TypeOK
    /\ QueueInv
    /\ MainInv
    /\ ListingInv

\* No listing is ahead of the contents it was fetched from.
NotAhead(listing) == listing # NoListing => listing.version <= contents[listing.place]

\* What is fetched, posted and shown was listed at some time; a refresh posts its own place.
VersionInv ==
    /\ \A q \in Queues \cup {"main"} : NotAhead(fetched[q])
    /\ \A block \in ToSet(mainQ) :
          /\ NotAhead(block.listing)
          /\ block.kind = "refresh" /\ block.listing # NoListing => block.listing.place = block.place
    /\ NotAhead(m_Data)
    /\ worker["reloading"] \in {"check", "post"} /\ fetched["reloading"] # NoListing =>
          fetched["reloading"].place = Place("reloading")

\* The panel does not show what is in its directory.
Stale == m_Data.place \notin valid \/ contents[m_Data.place] # m_Data.version

\* The main queue will refresh the panel, or show it what is in the place now ...
InBlocks(p) ==
    \E block \in ToSet(mainQ) :
        /\ block.place = p
        /\ \/ block.kind = "changed"
           \/ block.kind = "refresh" /\ block.listing \in Fetched(p)

\* ... a refresh has yet to fetch what is in the place ...
InRefreshes(p) ==
    \E i \in DOMAIN tasks["reloading"] :
        tasks["reloading"][i].place = p /\ (i = 1 => worker["reloading"] \in {"start", "fetch"})

\* ... or has fetched it and will post it ...
InFetched(p) ==
    /\ worker["reloading"] \in {"check", "post"}
    /\ Place("reloading") = p /\ fetched["reloading"] \in Fetched(p)

\* ... or the panel is on its way out of a place whose listing failed, or to another one.
InRecovery ==
    \/ \E i \in DOMAIN tasks["loading"] :
          /\ tasks["loading"][i].kind \in {"goto", "recover"}
          /\ i = 1 => worker["loading"] \notin {"end", "dry"}
    \/ \E block \in ToSet(mainQ) : block.kind \in {"goto", "load"}

Pending(p) == InBlocks(p) \/ InRefreshes(p) \/ InFetched(p) \/ InRecovery

\* A stale panel is about to be refreshed, or to leave, unless a refresh was given up.
FreshInv == \A p \in Places : m_Data.place = p /\ Stale /\ ~missed => Pending(p)

PanelInv ==
    /\ IInv
    /\ LoweredWhenDry
    /\ VersionInv
    /\ FreshInv

-----------------------------------------------------------------------------
(* Data.                                                                   *)

AnyListing == Listings \cup {NoListing}

\* A listing is NoListing or has the version of the contents.
LEMMA FetchType ==
  ASSUME IInv, NEW place \in Places
  PROVE  Fetch(place) \in AnyListing
  <1>1. contents[place] \in 0..MaxChanges
    BY DEF IInv, TypeOK
  <1> QED
    BY <1>1 DEF Fetch, AnyListing, Listings

\* The task that is running is of a place.
LEMMA RunningTask ==
  ASSUME IInv, NEW q \in Queues, tasks[q] # <<>>
  PROVE  /\ Head(tasks[q]) \in Tasks /\ Place(q) \in Places
         /\ Tail(tasks[q]) \in Seq(Tasks) /\ Len(Tail(tasks[q])) = Len(tasks[q]) - 1
  <1>1. tasks[q] \in Seq(Tasks)
    BY DEF IInv, TypeOK
  <1>2. Head(tasks[q]) \in Tasks /\ Tail(tasks[q]) \in Seq(Tasks) /\ Len(Tail(tasks[q])) = Len(tasks[q]) - 1
    BY <1>1, HeadTailProperties
  <1> QED
    BY <1>2 DEF Place, Tasks

\* A worker past the start of a task has a task.
LEMMA BusyWorker ==
  ASSUME IInv, NEW q \in Queues, worker[q] # "start"
  PROVE  tasks[q] # <<>> /\ Len(tasks[q]) \in Nat \ {0}
  <1>1. tasks[q] # <<>> /\ tasks[q] \in Seq(Tasks)
    BY DEF IInv, TypeOK, QueueInv
  <1> QED
    BY <1>1, EmptySeq

\* One block more on the main queue; a load has a listing.
LEMMA DispatchKeeps ==
  ASSUME IInv, NEW kind \in {"load", "refresh", "goto", "changed", "show"}, NEW place \in Places,
         NEW listing \in AnyListing, kind = "load" => listing # NoListing,
         Dispatch(kind, place, listing)
  PROVE  /\ mainQ' \in Seq(Blocks)
         /\ \A i \in 1..Len(mainQ') : mainQ'[i].kind = "load" => mainQ'[i].listing # NoListing
  <1> DEFINE block == [kind |-> kind, place |-> place, listing |-> listing]
  <1>1. block \in Blocks
    BY DEF Blocks, AnyListing
  <1>2. mainQ \in Seq(Blocks) /\ mainQ' = Append(mainQ, block)
    BY DEF IInv, TypeOK, Dispatch
  <1> HIDE DEF block
  <1>3. /\ mainQ' \in Seq(Blocks) /\ Len(mainQ') = Len(mainQ) + 1 /\ Len(mainQ) \in Nat
        /\ \A i \in 1..Len(mainQ) : mainQ'[i] = mainQ[i]
        /\ mainQ'[Len(mainQ) + 1] = block
    BY <1>1, <1>2, AppendProperties, LenProperties
  <1>4. ASSUME NEW i \in 1..Len(mainQ'), mainQ'[i].kind = "load"
        PROVE  mainQ'[i].listing # NoListing
    <2>1. CASE i \in 1..Len(mainQ)
      BY <1>3, <1>4, <2>1 DEF IInv, ListingInv
    <2>2. CASE i = Len(mainQ) + 1
      BY <1>3, <1>4, <2>2 DEF block
    <2> QED
      BY <1>3, <2>1, <2>2
  <1> QED
    BY <1>3, <1>4

\* Run() queues one task more, and counts it.
LEMMA RunKeeps ==
  ASSUME IInv, NEW q \in Queues, NEW kind \in {"goto", "recover", "refresh", "restore"},
         NEW place \in Places, Run(q, kind, place), worker' = worker
  PROVE  /\ tasks' \in [Queues -> Seq(Tasks)] /\ m_Length' \in [Queues -> Nat]
         /\ QueueInv'
  <1> DEFINE task == [kind |-> kind, place |-> place]
  <1>1. task \in Tasks
    BY DEF Tasks
  <1>2. /\ tasks \in [Queues -> Seq(Tasks)] /\ m_Length \in [Queues -> Nat]
        /\ tasks' = [tasks EXCEPT ![q] = Append(tasks[q], task)]
        /\ m_Length' = [m_Length EXCEPT ![q] = m_Length[q] + 1]
    BY DEF IInv, TypeOK, Run
  <1> HIDE DEF task
  <1>3. Append(tasks[q], task) \in Seq(Tasks) /\ Append(tasks[q], task) # <<>>
        /\ Len(Append(tasks[q], task)) = Len(tasks[q]) + 1 /\ Len(tasks[q]) \in Nat
    BY <1>1, <1>2, AppendProperties, LenProperties
  <1>4. tasks' \in [Queues -> Seq(Tasks)] /\ m_Length' \in [Queues -> Nat]
    BY <1>2, <1>3
  <1>5. ASSUME NEW p \in Queues
        PROVE  /\ tasks'[p] = <<>> => worker'[p] = "start"
               /\ m_Length'[p] = IF worker'[p] = "dry" THEN Len(tasks'[p]) - 1 ELSE Len(tasks'[p])
    <2>1. CASE p = q
      <3>1. m_Length[q] = IF worker[q] = "dry" THEN Len(tasks[q]) - 1 ELSE Len(tasks[q])
        BY DEF IInv, QueueInv
      <3>2. tasks'[q] = Append(tasks[q], task) /\ m_Length'[q] = m_Length[q] + 1
        BY <1>2
      <3> QED
        BY <1>2, <1>3, <2>1, <3>1, <3>2
    <2>2. CASE p # q
      BY <1>2, <2>2 DEF IInv, QueueInv
    <2> QED
      BY <2>1, <2>2
  <1> QED
    BY <1>4, <1>5 DEF QueueInv

-----------------------------------------------------------------------------
(* IInv is inductive.                                                      *)

USE DEF At, queues, fs, panel

\* A panel that shows its first directory satisfies the inductive invariant.
LEMMA InitIInv == Init => IInv
  <1> SUFFICES ASSUME Init PROVE IInv
    OBVIOUS
  <1> USE PlacesAssumption, BoundsAssumption DEF Init, Queues
  <1>1. /\ mainQ \in Seq(Blocks) /\ tasks \in [Queues -> Seq(Tasks)]
        /\ \A q \in Queues : Len(tasks[q]) = 0 /\ Len(mainQ) = 0
    BY EmptySeq
  <1>2. m_Data \in Listings /\ fetched \in [Queues \cup {"main"} -> AnyListing]
    BY DEF Listings, AnyListing
  <1>3. TypeOK
    <2>1. requests \in 0..MaxRequests /\ changes \in 0..MaxChanges /\ 0 \in 0..MaxChanges
      OBVIOUS
    <2>2. m_Length \in [Queues -> Nat] /\ \A q \in Queues : m_Length[q] = Len(tasks[q])
      BY <1>1
    <2>3. fetched \in [Queues \cup {"main"} -> Listings \cup {NoListing}]
      BY <1>2 DEF AnyListing
    <2> QED
      BY <1>1, <1>2, <2>1, <2>2, <2>3 DEF TypeOK
  <1>4. QueueInv /\ MainInv
    BY <1>1 DEF QueueInv, MainInv
  <1>5. ListingInv
    BY <1>1 DEF ListingInv
  <1> QED
    BY <1>3, <1>4, <1>5 DEF IInv

\* A worker that goes on with its task leaves the queues as they are.
LEMMA GoesOnInTask ==
  ASSUME IInv, NEW q \in Queues, tasks[q] # <<>>, worker[q] # "dry",
         NEW label \in {"start", "fetch", "check", "stop", "post", "end"},
         worker' = [worker EXCEPT ![q] = label], UNCHANGED <<m_Length, tasks>>
  PROVE  QueueInv'
  <1>1. ASSUME NEW p \in Queues
        PROVE  /\ tasks'[p] = <<>> => worker'[p] = "start"
               /\ m_Length'[p] = IF worker'[p] = "dry" THEN Len(tasks'[p]) - 1 ELSE Len(tasks'[p])
    <2>1. CASE p = q
      BY <2>1 DEF IInv, TypeOK, QueueInv
    <2>2. CASE p # q
      BY <2>2 DEF IInv, TypeOK, QueueInv
    <2> QED
      BY <2>1, <2>2
  <1> QED
    BY <1>1 DEF QueueInv

\* The end of a task and FireDry(): the last task stays in its queue in between.
LEMMA EndSteps ==
  ASSUME IInv, NEW q \in Queues, EndTask(q) \/ FireDry(q)
  PROVE  IInv'
  <1> USE DEF IInv, TypeOK
  <1>1. /\ tasks[q] # <<>> /\ Len(tasks[q]) \in Nat \ {0}
        /\ Tail(tasks[q]) \in Seq(Tasks) /\ Len(Tail(tasks[q])) = Len(tasks[q]) - 1
    BY BusyWorker, RunningTask DEF EndTask, FireDry
  <1>2. NoListing \in AnyListing
    BY DEF AnyListing
  <1>3. CASE EndTask(q)
    <2>1. /\ worker[q] = "end" /\ m_Length[q] = Len(tasks[q])
          /\ m_Length' = [m_Length EXCEPT ![q] = m_Length[q] - 1]
          /\ fetched' = [fetched EXCEPT ![q] = NoListing]
      BY <1>3 DEF EndTask, QueueInv
    <2>2. \/ /\ m_Length[q] = 1 /\ worker' = [worker EXCEPT ![q] = "dry"] /\ tasks' = tasks
          \/ /\ m_Length[q] # 1 /\ worker' = [worker EXCEPT ![q] = "start"]
             /\ tasks' = [tasks EXCEPT ![q] = Tail(tasks[q])]
      BY <1>3 DEF EndTask
    <2>3. /\ m_Length' \in [Queues -> Nat] /\ tasks' \in [Queues -> Seq(Tasks)]
          /\ fetched' \in [Queues \cup {"main"} -> AnyListing]
          /\ worker' \in [Queues -> {"start", "fetch", "check", "stop", "post", "end", "dry"}]
      <3>1. m_Length' \in [Queues -> Nat]
        BY <1>1, <2>1
      <3>2. tasks' \in [Queues -> Seq(Tasks)]
        BY <1>1, <2>2
      <3>3. fetched' \in [Queues \cup {"main"} -> AnyListing]
        BY <1>2, <2>1 DEF AnyListing
      <3>4. worker' \in [Queues -> {"start", "fetch", "check", "stop", "post", "end", "dry"}]
        BY <2>2
      <3> QED
        BY <3>1, <3>2, <3>3, <3>4
    <2>4. QueueInv'
      <3>1. ASSUME NEW p \in Queues
            PROVE  /\ tasks'[p] = <<>> => worker'[p] = "start"
                   /\ m_Length'[p] = IF worker'[p] = "dry" THEN Len(tasks'[p]) - 1 ELSE Len(tasks'[p])
        <4>1. CASE p = q
          BY <1>1, <2>1, <2>2, <4>1
        <4>2. CASE p # q
          BY <2>1, <2>2, <4>2 DEF QueueInv
        <4> QED
          BY <4>1, <4>2
      <3> QED
        BY <3>1 DEF QueueInv
    <2>5. UNCHANGED <<fs, panel, mainQ, main, going, m_Stopped, requests, late, missed>>
      BY <1>3 DEF EndTask
    <2>6. TypeOK'
      <3>1. \A p \in Queues : m_Length'[p] \in {Len(tasks'[p]), Len(tasks'[p]) - 1}
        BY <2>4 DEF QueueInv
      <3>2. fetched' \in [Queues \cup {"main"} -> Listings \cup {NoListing}]
        BY <2>3 DEF AnyListing
      <3> QED
        BY <2>3, <2>5, <3>1, <3>2
    <2>7. MainInv'
      BY <1>1, <2>1, <2>5 DEF MainInv, Queues
    <2>8. ListingInv'
      BY <2>1, <2>2, <2>5 DEF ListingInv, Queues
    <2> QED
      BY <2>4, <2>6, <2>7, <2>8
  <1>4. CASE FireDry(q)
    <2>1. /\ worker[q] = "dry" /\ m_Length[q] = Len(tasks[q]) - 1
          /\ tasks' = [tasks EXCEPT ![q] = Tail(tasks[q])]
          /\ worker' = [worker EXCEPT ![q] = "start"]
      BY <1>4 DEF FireDry, QueueInv
    <2>2. UNCHANGED <<fs, panel, mainQ, main, going, m_Length, fetched, requests, missed>>
          /\ m_Stopped' \in [Queues -> BOOLEAN] /\ late' \in [Queues -> BOOLEAN]
      BY <1>4 DEF FireDry, Lowered
    <2>3. QueueInv'
      <3>1. ASSUME NEW p \in Queues
            PROVE  /\ tasks'[p] = <<>> => worker'[p] = "start"
                   /\ m_Length'[p] = IF worker'[p] = "dry" THEN Len(tasks'[p]) - 1 ELSE Len(tasks'[p])
        <4>1. CASE p = q
          BY <1>1, <2>1, <2>2, <4>1
        <4>2. CASE p # q
          BY <2>1, <2>2, <4>2 DEF QueueInv
        <4> QED
          BY <4>1, <4>2
      <3> QED
        BY <3>1 DEF QueueInv
    <2>4. tasks' \in [Queues -> Seq(Tasks)]
          /\ worker' \in [Queues -> {"start", "fetch", "check", "stop", "post", "end", "dry"}]
      BY <1>1, <2>1
    <2>5. TypeOK'
      BY <2>2, <2>3, <2>4 DEF QueueInv
    <2>6. MainInv' /\ ListingInv'
      BY <2>1, <2>2 DEF MainInv, ListingInv, Queues
    <2> QED
      BY <2>3, <2>5, <2>6
  <1> QED
    BY <1>3, <1>4

\* The steps of the loads leave the queues as they are, and what they post was listed.
LEMMA LoadingSteps ==
  ASSUME IInv, GoToTask \/ RestoreTask \/ Recover
  PROVE  IInv'
  <1> USE DEF IInv, TypeOK, Queues
  <1>1. /\ tasks["loading"] # <<>> /\ worker["loading"] # "dry" /\ Place("loading") \in Places
        /\ UNCHANGED <<fs, panel, main, going, m_Length, tasks, requests>>
    <2>1. GoToFetch \/ RestoreFetch \/ Recover => tasks["loading"] # <<>>
      BY DEF GoToFetch, RestoreFetch, Recover, Running
    <2>2. GoToCancel \/ GoToStopReloading \/ GoToPost \/ RestorePost => tasks["loading"] # <<>>
      BY BusyWorker DEF GoToCancel, GoToStopReloading, GoToPost, RestorePost
    <2>3. tasks["loading"] # <<>>
      BY <2>1, <2>2 DEF GoToTask, RestoreTask
    <2> QED
      BY <2>3, RunningTask DEF GoToTask, RestoreTask, GoToFetch, RestoreFetch, Recover, GoToCancel,
         GoToStopReloading, GoToPost, RestorePost
  <1>2. CASE GoToFetch \/ RestoreFetch
    <2>1. PICK listing \in AnyListing, label \in {"end", "check", "post"} :
            /\ fetched' = [fetched EXCEPT !["loading"] = listing]
            /\ worker' = [worker EXCEPT !["loading"] = label]
            /\ listing = NoListing => label = "end"
      BY <1>1, <1>2, FetchType DEF GoToFetch, RestoreFetch, Fetched, AnyListing
    <2>2. QueueInv'
      BY <1>1, <2>1, GoesOnInTask
    <2>3. fetched' \in [Queues \cup {"main"} -> Listings \cup {NoListing}]
      BY <2>1 DEF AnyListing
    <2>4. TypeOK'
      BY <1>1, <1>2, <2>1, <2>2, <2>3 DEF GoToFetch, RestoreFetch, QueueInv
    <2>5. MainInv' /\ ListingInv'
      BY <1>1, <1>2, <2>1 DEF GoToFetch, RestoreFetch, MainInv, ListingInv
    <2> QED
      BY <2>2, <2>4, <2>5
  <1>3. CASE GoToCancel \/ GoToStopReloading
    <2>1. PICK label \in {"stop", "post"} : worker' = [worker EXCEPT !["loading"] = label]
      BY <1>3 DEF GoToCancel, GoToStopReloading
    <2>2. QueueInv'
      BY <1>1, <2>1, GoesOnInTask
    <2>3. /\ m_Stopped' \in [Queues -> BOOLEAN] /\ late' \in [Queues -> BOOLEAN]
          /\ UNCHANGED <<mainQ, fetched, missed>> /\ worker["loading"] \in {"check", "stop"}
      BY <1>3 DEF GoToCancel, GoToStopReloading, Raise
    <2>4. TypeOK'
      BY <1>1, <2>1, <2>2, <2>3 DEF QueueInv
    <2>5. MainInv' /\ ListingInv'
      BY <1>1, <2>1, <2>3 DEF MainInv, ListingInv
    <2> QED
      BY <2>2, <2>4, <2>5
  <1>4. CASE GoToPost \/ RestorePost
    <2>1. /\ worker["loading"] = "post" /\ worker' = [worker EXCEPT !["loading"] = "end"]
          /\ UNCHANGED <<m_Stopped, fetched, late, missed>>
          /\ \E kind \in {"load", "goto", "show"} : Dispatch(kind, Place("loading"), fetched["loading"])
      BY <1>4 DEF GoToPost, RestorePost
    <2>2. fetched["loading"] \in AnyListing \ {NoListing}
      BY <2>1 DEF ListingInv, AnyListing
    <2>3. /\ mainQ' \in Seq(Blocks)
          /\ \A i \in 1..Len(mainQ') : mainQ'[i].kind = "load" => mainQ'[i].listing # NoListing
      BY <1>1, <2>1, <2>2, DispatchKeeps
    <2>4. QueueInv'
      BY <1>1, <2>1, GoesOnInTask
    <2>5. TypeOK'
      BY <1>1, <2>1, <2>3, <2>4 DEF QueueInv
    <2>6. MainInv' /\ ListingInv'
      BY <1>1, <2>1, <2>3 DEF MainInv, ListingInv
    <2> QED
      BY <2>4, <2>5, <2>6
  <1>5. CASE Recover
    <2>1. /\ worker' = [worker EXCEPT !["loading"] = "end"]
          /\ UNCHANGED <<m_Stopped, fetched, late>> /\ missed' \in BOOLEAN
      BY <1>5 DEF Recover, Outdated
    <2>2. /\ mainQ' \in Seq(Blocks)
          /\ \A i \in 1..Len(mainQ') : mainQ'[i].kind = "load" => mainQ'[i].listing # NoListing
      <3>1. CASE mainQ' = mainQ
        BY <3>1 DEF ListingInv
      <3>2. ASSUME NEW place \in valid, Dispatch("goto", place, NoListing)
            PROVE  /\ mainQ' \in Seq(Blocks)
                   /\ \A k \in 1..Len(mainQ') : mainQ'[k].kind = "load" => mainQ'[k].listing # NoListing
        <4>1. place \in Places /\ NoListing \in AnyListing
          BY DEF AnyListing
        <4> QED
          BY <3>2, <4>1, DispatchKeeps
      <3> QED
        BY <1>5, <3>1, <3>2 DEF Recover
    <2>3. QueueInv'
      BY <1>1, <2>1, GoesOnInTask
    <2>4. TypeOK'
      BY <1>1, <2>1, <2>2, <2>3 DEF QueueInv
    <2>5. MainInv' /\ ListingInv'
      BY <1>1, <2>1, <2>2 DEF MainInv, ListingInv
    <2> QED
      BY <2>3, <2>4, <2>5
  <1> QED
    BY <1>2, <1>3, <1>4, <1>5 DEF GoToTask, RestoreTask

\* The steps of a refresh concern its own queue; what they post may be no listing.
LEMMA RefreshSteps ==
  ASSUME IInv, RefreshTask
  PROVE  IInv'
  <1> USE DEF IInv, TypeOK, Queues
  <1>1. /\ tasks["reloading"] # <<>> /\ worker["reloading"] # "dry" /\ Place("reloading") \in Places
        /\ UNCHANGED <<fs, panel, main, going, m_Length, m_Stopped, tasks, requests, late>>
        /\ missed' \in BOOLEAN
    <2>1. RefreshStart => tasks["reloading"] # <<>>
      BY DEF RefreshStart, Running
    <2>2. RefreshFetch \/ RefreshCheck \/ RefreshPost => tasks["reloading"] # <<>>
      BY BusyWorker DEF RefreshFetch, RefreshCheck, RefreshPost
    <2>3. tasks["reloading"] # <<>>
      BY <2>1, <2>2 DEF RefreshTask
    <2> QED
      BY <2>3, RunningTask DEF RefreshTask, RefreshStart, RefreshFetch, RefreshCheck, RefreshPost
  <1>2. PICK label \in {"fetch", "check", "post", "end"} :
            worker' = [worker EXCEPT !["reloading"] = label]
    BY DEF RefreshTask, RefreshStart, RefreshFetch, RefreshCheck, RefreshPost
  <1>3. QueueInv'
    BY <1>1, <1>2, GoesOnInTask
  <1>4. /\ fetched' \in [Queues \cup {"main"} -> Listings \cup {NoListing}]
        /\ fetched'["loading"] = fetched["loading"] /\ fetched'["main"] = fetched["main"]
    <2>1. CASE RefreshFetch
      <3>1. Fetch(Place("reloading")) \in AnyListing
        BY <1>1, FetchType
      <3> QED
        BY <2>1, <3>1 DEF RefreshFetch, Fetched, AnyListing
    <2>2. CASE ~RefreshFetch
      BY <2>2 DEF RefreshTask, RefreshStart, RefreshCheck, RefreshPost
    <2> QED
      BY <2>1, <2>2
  <1>5. /\ mainQ' \in Seq(Blocks)
        /\ \A i \in 1..Len(mainQ') : mainQ'[i].kind = "load" => mainQ'[i].listing # NoListing
    <2>1. CASE RefreshPost
      <3>1. fetched["reloading"] \in AnyListing
        BY DEF AnyListing
      <3> QED
        BY <1>1, <2>1, <3>1, DispatchKeeps DEF RefreshPost
    <2>2. CASE ~RefreshPost
      <3>1. UNCHANGED mainQ
        BY <2>2 DEF RefreshTask, RefreshStart, RefreshFetch, RefreshCheck
      <3> QED
        BY <3>1 DEF ListingInv
    <2> QED
      BY <2>1, <2>2
  <1>6. TypeOK'
    BY <1>1, <1>2, <1>3, <1>4, <1>5 DEF QueueInv
  <1>7. MainInv' /\ ListingInv'
    BY <1>1, <1>2, <1>4, <1>5 DEF MainInv, ListingInv
  <1> QED
    BY <1>3, <1>6, <1>7

\* Between Wait() and the end of the fetch the main thread queues nothing.
LEMMA MainSteps ==
  ASSUME IInv, GoesOn
  PROVE  IInv'
  <1> USE DEF IInv, TypeOK, Queues
  <1>1. UNCHANGED <<fs, mainQ, m_Length, tasks, worker, requests>> /\ QueueInv'
    BY DEF GoesOn, MainStopLoading, MainWaits, MainFetches, MainCancelsLoading, MainCancels,
           MainStopReloading, MainLoads, CancelOperations, QueueInv
  <1>2. /\ m_Stopped' \in [Queues -> BOOLEAN] /\ late' \in [Queues -> BOOLEAN]
        /\ going' \in Places
    <2>1. going' \in {going, Home} /\ going \in Places /\ Home \in Places
      BY PlacesAssumption DEF GoesOn, MainStopLoading, MainWaits, MainFetches, MainCancelsLoading,
         MainCancels, MainStopReloading, MainLoads
    <2>2. m_Stopped' \in [Queues -> BOOLEAN] /\ late' \in [Queues -> BOOLEAN]
      BY DEF GoesOn, MainStopLoading, MainWaits, MainFetches, MainCancelsLoading,
         MainCancels, MainStopReloading, MainLoads, CancelOperations, Raise
    <2> QED
      BY <2>1, <2>2
  <1>3. CASE MainStopLoading \/ MainCancelsLoading \/ MainCancels \/ MainStopReloading
    <2>1. /\ main' \in {"wait", "cancel", "stopReloading", "load"}
          /\ UNCHANGED <<panel, fetched, missed>>
      BY <1>3 DEF MainStopLoading, MainCancelsLoading, MainCancels, MainStopReloading
    <2> QED
      BY <1>1, <1>2, <2>1 DEF MainInv, ListingInv
  <1>4. CASE MainWaits
    <2>1. main' = "fetch" /\ UNCHANGED <<panel, fetched, missed>> /\ Waited
      BY <1>4 DEF MainWaits
    <2>2. m_Length["loading"] = 0
      <3>1. CASE tasks["loading"] = <<>>
        BY <3>1, EmptySeq DEF QueueInv
      <3> QED
        BY <2>1, <3>1 DEF Waited
    <2> QED
      BY <1>1, <1>2, <2>1, <2>2 DEF MainInv, ListingInv
  <1>5. CASE MainFetches
    <2>1. /\ UNCHANGED fetched \/ fetched' = [fetched EXCEPT !["main"] = Fetch(going)]
          /\ main' \in {"idle", "cancelLoading", "cancel"} /\ UNCHANGED <<panel, missed>>
      BY <1>5 DEF MainFetches, CancelOperations
    <2>2. Fetch(going) \in AnyListing
      BY FetchType
    <2>3. fetched' \in [Queues \cup {"main"} -> Listings \cup {NoListing}]
      BY <2>1, <2>2 DEF AnyListing
    <2>4. TypeOK'
      BY <1>1, <1>2, <2>1, <2>3
    <2>5. MainInv' /\ ListingInv'
      BY <1>1, <2>1 DEF MainInv, ListingInv
    <2> QED
      BY <1>1, <2>4, <2>5
  <1>6. CASE MainLoads
    <2>1. /\ main' = "idle" /\ fetched' = [fetched EXCEPT !["main"] = NoListing]
          /\ \/ UNCHANGED <<panel, missed>>
             \/ fetched["main"] # NoListing /\ Load(fetched["main"])
      BY <1>6 DEF MainLoads
    <2>2. m_Data' \in Listings /\ observed' \in Places /\ missed' \in BOOLEAN
      <3>1. CASE UNCHANGED <<panel, missed>>
        BY <3>1
      <3>2. CASE fetched["main"] # NoListing /\ Load(fetched["main"])
        <4>1. fetched["main"] \in Listings
          BY <3>2
        <4>2. fetched["main"].place \in Places
          BY <4>1 DEF Listings
        <4> QED
          BY <3>2, <4>1, <4>2 DEF Load, Outdated
      <3> QED
        BY <2>1, <3>1, <3>2
    <2>3. fetched' \in [Queues \cup {"main"} -> Listings \cup {NoListing}]
      BY <2>1
    <2>4. TypeOK'
      BY <1>1, <1>2, <2>1, <2>2, <2>3
    <2>5. MainInv' /\ ListingInv'
      BY <1>1, <2>1 DEF MainInv, ListingInv
    <2> QED
      BY <1>1, <2>4, <2>5
  <1> QED
    BY <1>3, <1>4, <1>5, <1>6 DEF GoesOn

\* Whatever queues a task, or does not, leaves the queues counted.
LEMMA QueuesKeep ==
  ASSUME IInv, worker' = worker,
         \/ UNCHANGED <<m_Length, tasks>>
         \/ \E q \in Queues, kind \in {"goto", "recover", "refresh", "restore"}, place \in Places :
               Run(q, kind, place)
  PROVE  /\ tasks' \in [Queues -> Seq(Tasks)] /\ m_Length' \in [Queues -> Nat]
         /\ QueueInv'
  <1>1. CASE UNCHANGED <<m_Length, tasks>>
    BY <1>1 DEF IInv, TypeOK, QueueInv
  <1>2. CASE \E q \in Queues, kind \in {"goto", "recover", "refresh", "restore"}, place \in Places :
               Run(q, kind, place)
    BY <1>2, RunKeeps
  <1> QED
    BY <1>1, <1>2

\* A block of the main queue loads a listing, or queues a task.
LEMMA BlockSteps ==
  ASSUME IInv, RunBlock
  PROVE  IInv'
  <1> DEFINE block == Head(mainQ)
  <1>1. /\ mainQ # <<>> /\ mainQ' = Tail(mainQ) /\ main = "idle"
        /\ UNCHANGED <<fs, main, going, m_Stopped, worker, fetched, requests, late>>
    BY DEF RunBlock
  <1>2. mainQ \in Seq(Blocks)
    BY DEF IInv, TypeOK
  <1>3. /\ block \in Blocks /\ block = mainQ[1] /\ 1 \in 1..Len(mainQ)
        /\ mainQ' \in Seq(Blocks) /\ Len(mainQ') = Len(mainQ) - 1 /\ Len(mainQ) \in Nat
        /\ \A i \in 1..Len(mainQ') : mainQ'[i] = mainQ[i + 1]
    <2>1. /\ Head(mainQ) \in Blocks /\ Tail(mainQ) \in Seq(Blocks)
          /\ Len(Tail(mainQ)) = Len(mainQ) - 1
          /\ \A i \in 1..Len(Tail(mainQ)) : Tail(mainQ)[i] = mainQ[i + 1]
      BY <1>1, <1>2, HeadTailProperties
    <2>2. Len(mainQ) \in Nat /\ Len(mainQ) # 0
      BY <1>1, <1>2, EmptySeq, LenProperties
    <2> QED
      BY <1>1, <1>2, <2>1, <2>2
  <1>4. block.place \in Places /\ block.listing \in AnyListing
    BY <1>3 DEF Blocks, AnyListing
  <1>5. block.kind = "load" => block.listing \in Listings
    BY <1>3, <1>4 DEF IInv, ListingInv, AnyListing
  <1>6. m_Data \in Listings /\ m_Data.place \in Places /\ missed \in BOOLEAN
    BY DEF IInv, TypeOK, Listings
  <1> HIDE DEF block
  <1>7. m_Data' \in Listings /\ observed' \in Places /\ missed' \in BOOLEAN
    <2>1. /\ m_Data' \in {m_Data} \cup ({block.listing} \cap Listings)
          /\ observed' = observed \/ (block.kind = "load" /\ observed' = block.listing.place)
      BY <1>4, <1>5 DEF RunBlock, Load, block, AnyListing
    <2>2. missed' \in BOOLEAN
      BY <1>6 DEF RunBlock, Load, Outdated, RefreshPanel
    <2>3. observed \in Places /\ (block.kind = "load" => block.listing.place \in Places)
      BY <1>5 DEF IInv, TypeOK, Listings
    <2> QED
      BY <1>6, <2>1, <2>2, <2>3
  <1>8. \/ UNCHANGED <<m_Length, tasks>>
        \/ \E q \in Queues, kind \in {"goto", "recover", "refresh", "restore"}, place \in Places :
              Run(q, kind, place)
    <2>1. \/ UNCHANGED <<m_Length, tasks>>
          \/ Run("loading", "recover", m_Data.place)
          \/ Run("loading", "goto", block.place)
          \/ Run("reloading", "refresh", m_Data.place)
      BY DEF RunBlock, GoToAsync, RefreshPanel, block
    <2> QED
      BY <1>4, <1>6, <2>1 DEF Queues
  <1>9. tasks' \in [Queues -> Seq(Tasks)] /\ m_Length' \in [Queues -> Nat] /\ QueueInv'
    BY <1>1, <1>8, QueuesKeep
  <1>10. TypeOK'
    BY <1>1, <1>3, <1>7, <1>9 DEF IInv, TypeOK, QueueInv
  <1>11. MainInv'
    BY <1>1 DEF MainInv
  <1>12. ListingInv'
    <2>1. \A i \in 1..Len(mainQ') : i + 1 \in 1..Len(mainQ)
      BY <1>3
    <2> QED
      BY <1>1, <1>3, <2>1 DEF IInv, ListingInv
  <1> QED
    BY <1>9, <1>10, <1>11, <1>12 DEF IInv

\* The block that shows a listing leaves the rest to the main thread.
LEMMA ListingSteps ==
  ASSUME IInv, LoadListing
  PROVE  IInv'
  <1>1. /\ mainQ # <<>> /\ mainQ' = Tail(mainQ)
        /\ main' \in {"cancelLoading", "cancel"} /\ fetched' = [fetched EXCEPT !["main"] = Head(mainQ).listing]
        /\ UNCHANGED <<fs, panel, going, m_Length, m_Stopped, tasks, worker, requests, late, missed>>
    BY DEF LoadListing, CancelOperations
  <1>2. mainQ \in Seq(Blocks)
    BY DEF IInv, TypeOK
  <1>3. /\ Head(mainQ) \in Blocks /\ mainQ' \in Seq(Blocks) /\ Len(mainQ') = Len(mainQ) - 1
        /\ \A i \in 1..Len(mainQ') : mainQ'[i] = mainQ[i + 1]
        /\ Len(mainQ) \in Nat
    BY <1>1, <1>2, HeadTailProperties, LenProperties
  <1>4. fetched' \in [Queues \cup {"main"} -> Listings \cup {NoListing}]
    BY <1>1, <1>3 DEF IInv, TypeOK, Blocks
  <1>5. TypeOK' /\ QueueInv' /\ MainInv'
    BY <1>1, <1>3, <1>4 DEF IInv, TypeOK, QueueInv, MainInv
  <1>6. ListingInv'
    <2>1. \A i \in 1..Len(mainQ') : i + 1 \in 1..Len(mainQ)
      BY <1>3
    <2>2. fetched'["loading"] = fetched["loading"]
      BY <1>1 DEF IInv, TypeOK, Queues
    <2> QED
      BY <1>1, <1>3, <2>1, <2>2 DEF IInv, ListingInv
  <1> QED
    BY <1>5, <1>6 DEF IInv

\* What the user asks for, between two blocks of the main queue.
Asks(place) ==
    UserGoesAsync(place) \/ UserGoesSync(place) \/ UserRestores(place) \/ UserRefreshes \/ UserCancels

\* What the user asks for, between two blocks of the main queue, may queue a task.
LEMMA AskedFor ==
  ASSUME IInv, NEW place \in Places, Asks(place)
  PROVE  /\ UNCHANGED <<fs, panel, mainQ, m_Stopped, worker, late>>
         /\ \/ UNCHANGED <<m_Length, tasks>>
            \/ \E q \in Queues, kind \in {"goto", "recover", "refresh", "restore"}, to \in Places : Run(q, kind, to)
         /\ UNCHANGED fetched \/ fetched' = [fetched EXCEPT !["main"] = NoListing]
         /\ missed \in BOOLEAN /\ missed' \in BOOLEAN /\ (missed => missed')
  <1>1. m_Data.place \in Places /\ missed \in BOOLEAN
    BY DEF IInv, TypeOK, Listings
  <1>2. UNCHANGED <<fs, panel, mainQ, m_Stopped, worker, late>>
    BY DEF Asks, UserGoesAsync, UserGoesSync, UserRestores, UserRefreshes, UserCancels, Request
  <1>3. \/ UNCHANGED <<m_Length, tasks>>
        \/ Run("loading", "goto", place) \/ Run("loading", "restore", place)
        \/ Run("reloading", "refresh", m_Data.place)
    BY DEF Asks, UserGoesAsync, UserGoesSync, UserRestores, UserRefreshes, UserCancels, GoToAsync, RefreshPanel
  <1>4. UNCHANGED fetched \/ fetched' = [fetched EXCEPT !["main"] = NoListing]
    BY DEF Asks, UserGoesAsync, UserGoesSync, UserRestores, UserRefreshes, UserCancels, CancelOperations
  <1>5. missed' \in BOOLEAN /\ (missed => missed')
    <2>1. CASE UserRefreshes
      <3>1. \/ missed' = (missed \/ Outdated(m_Data))
            \/ missed' = (missed \/ Last(tasks["reloading"]).place # m_Data.place)
            \/ missed' = missed
        BY <2>1 DEF UserRefreshes, RefreshPanel
      <3> HIDE DEF panel, fs
      <3> QED
        BY <1>1, <3>1, Zenon DEF Outdated
    <2>2. CASE ~UserRefreshes
      BY <1>1, <2>2 DEF Asks, UserGoesAsync, UserGoesSync, UserRestores, UserCancels
    <2> QED
      BY <2>1, <2>2
  <1> QED
    BY <1>1, <1>2, <1>3, <1>4, <1>5 DEF Queues

LEMMA RequestSteps ==
  ASSUME IInv, NEW place \in Places, Asks(place)
  PROVE  IInv'
  <1> USE BoundsAssumption
  <1>1. /\ main = "idle" /\ main' \in {"idle", "stop", "wait", "cancelLoading", "cancel"} /\ going' \in Places
        /\ requests' = requests + 1 /\ requests < MaxRequests
    BY DEF Asks, UserGoesAsync, UserGoesSync, UserRestores, UserRefreshes, UserCancels, CancelOperations,
           Request, IInv, TypeOK
  <1>2. /\ UNCHANGED <<fs, panel, mainQ, m_Stopped, worker, late>> /\ missed' \in BOOLEAN
        /\ UNCHANGED fetched \/ fetched' = [fetched EXCEPT !["main"] = NoListing]
    BY AskedFor
  <1>3. tasks' \in [Queues -> Seq(Tasks)] /\ m_Length' \in [Queues -> Nat] /\ QueueInv'
    BY <1>2, AskedFor, QueuesKeep
  <1>4. requests' \in 0..MaxRequests
    BY <1>1 DEF IInv, TypeOK
  <1>5. /\ fetched' \in [Queues \cup {"main"} -> Listings \cup {NoListing}]
        /\ fetched'["loading"] = fetched["loading"]
    BY <1>2 DEF IInv, TypeOK, Queues
  <1>6. TypeOK'
    BY <1>1, <1>2, <1>3, <1>4, <1>5 DEF IInv, TypeOK, QueueInv
  <1>7. MainInv' /\ ListingInv'
    BY <1>1, <1>2, <1>5 DEF IInv, MainInv, ListingInv
  <1> QED
    BY <1>3, <1>6, <1>7 DEF IInv

\* A version of some contents is never ahead of the changes.
LEMMA ChangeSteps ==
  ASSUME IInv, NEW place \in Places, Change(place)
  PROVE  IInv'
  <1> USE BoundsAssumption
  <1>1. /\ changes' = changes + 1 /\ changes < MaxChanges
        /\ UNCHANGED <<panel, main, going, queues, requests>> /\ missed' \in BOOLEAN
    BY DEF Change, IInv, TypeOK
  <1>2. changes \in 0..MaxChanges /\ contents \in [Places -> 0..MaxChanges]
        /\ \A p \in Places : contents[p] <= changes
    BY DEF IInv, TypeOK, ListingInv
  <1>3. /\ contents' \in [Places -> 0..MaxChanges] /\ changes' \in 0..MaxChanges
        /\ \A p \in Places : contents'[p] <= changes'
    <2>1. CASE contents' = contents
      BY <1>1, <1>2, <2>1
    <2>2. CASE contents' = [contents EXCEPT ![place] = contents[place] + 1]
      <3>1. contents[place] + 1 \in 0..MaxChanges
        BY <1>1, <1>2
      <3>2. contents' \in [Places -> 0..MaxChanges]
        BY <1>2, <2>2, <3>1
      <3>3. ASSUME NEW p \in Places
            PROVE  contents'[p] <= changes'
        <4>1. CASE p = place
          BY <1>1, <1>2, <2>2, <4>1
        <4>2. CASE p # place
          BY <1>1, <1>2, <2>2, <4>2
        <4> QED
          BY <4>1, <4>2
      <3> QED
        BY <1>1, <1>2, <3>2, <3>3
    <2> QED
      BY <2>1, <2>2 DEF Change
  <1>4. valid' \subseteq Places
    BY DEF Change, IInv, TypeOK
  <1>5. /\ mainQ' \in Seq(Blocks)
        /\ \A i \in 1..Len(mainQ') : mainQ'[i].kind = "load" => mainQ'[i].listing # NoListing
    <2>1. CASE UNCHANGED mainQ
      BY <2>1 DEF IInv, TypeOK, ListingInv
    <2>2. CASE Dispatch("changed", place, NoListing)
      <3>1. NoListing \in AnyListing
        BY DEF AnyListing
      <3> QED
        BY <2>2, <3>1, DispatchKeeps
    <2> QED
      BY <2>1, <2>2 DEF Change
  <1>6. QueueInv' /\ MainInv'
    BY <1>1 DEF IInv, QueueInv, MainInv
  <1>7. TypeOK'
    BY <1>1, <1>3, <1>4, <1>5 DEF IInv, TypeOK
  <1>8. ListingInv'
    BY <1>1, <1>3, <1>5 DEF IInv, ListingInv
  <1> QED
    BY <1>6, <1>7, <1>8 DEF IInv

\* Every step keeps the inductive invariant.
LEMMA StepIInv == IInv /\ [Next]_vars => IInv'
  <1> SUFFICES ASSUME IInv, [Next]_vars PROVE IInv'
    OBVIOUS
  <1>1. CASE LoadingQueue
    BY <1>1, LoadingSteps, EndSteps DEF LoadingQueue, Queues
  <1>2. CASE ReloadingQueue
    BY <1>2, RefreshSteps, EndSteps DEF ReloadingQueue, Queues
  <1>3. CASE MainQueue
    BY <1>3, BlockSteps, ListingSteps DEF MainQueue
  <1>4. CASE GoesOn
    BY <1>4, MainSteps
  <1>5. ASSUME NEW place \in Places, Asks(place) \/ Change(place)
        PROVE  IInv'
    BY <1>5, RequestSteps, ChangeSteps
  <1>6. CASE UNCHANGED vars
    BY <1>6 DEF vars, IInv, TypeOK, QueueInv, MainInv, ListingInv
  <1> QED
    BY <1>1, <1>2, <1>3, <1>4, <1>5, <1>6, PlacesAssumption DEF Next, Asks

-----------------------------------------------------------------------------
(* PanelInv is inductive.                                                  *)

LEMMA InitPanelInv == Init => PanelInv
  <1> SUFFICES ASSUME Init PROVE PanelInv
    OBVIOUS
  <1> USE PlacesAssumption, BoundsAssumption DEF Init, Queues
  <1>1. LoweredWhenDry
    BY DEF LoweredWhenDry
  <1>2. VersionInv
    <2>1. ToSet(mainQ) = {}
      BY DEF ToSet
    <2>2. NotAhead(m_Data) /\ \A q \in Queues \cup {"main"} : NotAhead(fetched[q])
      BY DEF NotAhead
    <2> QED
      BY <2>1, <2>2 DEF VersionInv
  <1>3. FreshInv
    BY DEF FreshInv, Stale
  <1> QED
    BY <1>1, <1>2, <1>3, InitIInv DEF PanelInv

\* The tasks of a queue after Run(): those before, and one more at the end.
LEMMA RunTasks ==
  ASSUME IInv, NEW q \in Queues, NEW kind \in {"goto", "recover", "refresh", "restore"},
         NEW place \in Places, Run(q, kind, place)
  PROVE  /\ \A p \in Queues : \A i \in DOMAIN tasks[p] :
                 i \in DOMAIN tasks'[p] /\ tasks'[p][i] = tasks[p][i]
         /\ \A p \in Queues : tasks'[p] = <<>> => tasks[p] = <<>>
         /\ \E i \in DOMAIN tasks'[q] :
                 /\ tasks'[q][i] = [kind |-> kind, place |-> place]
                 /\ i = 1 => worker[q] = "start"
  <1> DEFINE task == [kind |-> kind, place |-> place]
             longer == Append(tasks[q], task)
  <1>1. task \in Tasks
    BY DEF Tasks
  <1>2. tasks \in [Queues -> Seq(Tasks)] /\ tasks' = [tasks EXCEPT ![q] = longer]
    BY DEF IInv, TypeOK, Run
  <1>3. tasks'[q] = longer /\ \A p \in Queues \ {q} : tasks'[p] = tasks[p]
    BY <1>2
  <1> HIDE DEF task
  <1>4. /\ Len(tasks[q]) \in Nat /\ DOMAIN tasks[q] = 1..Len(tasks[q])
        /\ longer \in Seq(Tasks) /\ Len(longer) = Len(tasks[q]) + 1
        /\ \A i \in 1..Len(tasks[q]) : longer[i] = tasks[q][i]
        /\ longer[Len(tasks[q]) + 1] = task
    BY <1>1, <1>2, AppendProperties, LenProperties
  <1> HIDE DEF longer
  <1>5. DOMAIN longer = 1..Len(tasks[q]) + 1 /\ longer # <<>>
    BY <1>4, LenProperties, EmptySeq
  <1>6. Len(tasks[q]) + 1 = 1 => worker[q] = "start"
    BY <1>2, <1>4, EmptySeq DEF IInv, QueueInv
  <1>7. ASSUME NEW p \in Queues, NEW i \in DOMAIN tasks[p]
        PROVE  i \in DOMAIN tasks'[p] /\ tasks'[p][i] = tasks[p][i]
    <2>1. CASE p = q
      BY <1>3, <1>4, <1>5, <2>1
    <2>2. CASE p # q
      BY <1>3, <2>2
    <2> QED
      BY <2>1, <2>2
  <1>8. \A p \in Queues : tasks'[p] = <<>> => tasks[p] = <<>>
    BY <1>3, <1>5
  <1>9. /\ Len(tasks[q]) + 1 \in DOMAIN tasks'[q]
        /\ tasks'[q][Len(tasks[q]) + 1] = task
    BY <1>3, <1>4, <1>5
  <1> QED
    BY <1>6, <1>7, <1>8, <1>9 DEF task

\* The tasks of a queue after its first one has ended.
LEMMA TailTasks ==
  ASSUME IInv, NEW q \in Queues, tasks[q] # <<>>, tasks' = [tasks EXCEPT ![q] = Tail(@)]
  PROVE  /\ \A i \in DOMAIN tasks[q] \ {1} :
                 i - 1 \in DOMAIN tasks'[q] /\ tasks'[q][i - 1] = tasks[q][i]
         /\ \A p \in Queues \ {q} : tasks'[p] = tasks[p]
         /\ tasks'[q] = <<>> => Len(tasks[q]) = 1
  <1>1. tasks \in [Queues -> Seq(Tasks)] /\ tasks'[q] = Tail(tasks[q])
    BY DEF IInv, TypeOK
  <1>2. /\ Len(tasks[q]) \in Nat /\ DOMAIN tasks[q] = 1..Len(tasks[q])
        /\ Tail(tasks[q]) \in Seq(Tasks) /\ Len(Tail(tasks[q])) = Len(tasks[q]) - 1
        /\ \A i \in 1..Len(Tail(tasks[q])) : Tail(tasks[q])[i] = tasks[q][i + 1]
    BY <1>1, HeadTailProperties, LenProperties
  <1>3. ASSUME NEW i \in DOMAIN tasks[q] \ {1}
        PROVE  i - 1 \in DOMAIN tasks'[q] /\ tasks'[q][i - 1] = tasks[q][i]
    <2>1. i - 1 \in 1..Len(Tail(tasks[q])) /\ i - 1 + 1 = i
      BY <1>2
    <2>2. DOMAIN Tail(tasks[q]) = 1..Len(Tail(tasks[q]))
      BY <1>2, LenProperties
    <2> QED
      BY <1>1, <1>2, <2>1, <2>2
  <1>4. ASSUME tasks'[q] = <<>> PROVE Len(tasks[q]) = 1
    <2>1. tasks'[q] \in Seq(Tasks) /\ Len(tasks'[q]) = Len(tasks[q]) - 1
      BY <1>1, <1>2
    <2>2. Len(tasks'[q]) = 0
      BY <1>4, <2>1, ToSetEmpty
    <2> QED
      BY <1>2, <2>1, <2>2
  <1>5. \A p \in Queues \ {q} : tasks'[p] = tasks[p]
    BY DEF IInv, TypeOK
  <1> QED
    BY <1>3, <1>4, <1>5

\* The blocks of the main queue after Dispatch().
LEMMA DispatchBlocks ==
  ASSUME IInv, NEW kind \in {"load", "refresh", "goto", "changed", "show"}, NEW place \in Places,
         NEW listing \in AnyListing, Dispatch(kind, place, listing)
  PROVE  ToSet(mainQ') = ToSet(mainQ) \cup {[kind |-> kind, place |-> place, listing |-> listing]}
  <1>1. [kind |-> kind, place |-> place, listing |-> listing] \in Blocks
    BY DEF Blocks, AnyListing
  <1>2. mainQ \in Seq(Blocks)
    BY DEF IInv, TypeOK
  <1> QED
    BY <1>1, <1>2, ToSetAppend DEF Dispatch

\* The blocks of the main queue before RunBlock().
LEMMA RunBlockBlocks ==
  ASSUME IInv, RunBlock
  PROVE  /\ ToSet(mainQ) = {Head(mainQ)} \cup ToSet(mainQ')
         /\ Head(mainQ) \in Blocks /\ Head(mainQ) \in ToSet(mainQ)
  <1>1. mainQ \in Seq(Blocks) /\ mainQ # <<>> /\ mainQ' = Tail(mainQ)
    BY DEF IInv, TypeOK, RunBlock
  <1> QED
    BY <1>1, ToSetHead

\* What RunBlock() queues, if anything.
LEMMA RunBlockTasks ==
  ASSUME IInv, RunBlock
  PROVE  \A q \in Queues : \A i \in DOMAIN tasks[q] :
              i \in DOMAIN tasks'[q] /\ tasks'[q][i] = tasks[q][i]
  <1>1. m_Data.place \in Places /\ Head(mainQ).place \in Places
    BY RunBlockBlocks DEF IInv, TypeOK, Listings, Blocks
  <1>2. \/ UNCHANGED tasks
        \/ Run("loading", "recover", m_Data.place)
        \/ Run("loading", "goto", Head(mainQ).place)
        \/ Run("reloading", "refresh", m_Data.place)
    BY DEF RunBlock, GoToAsync, RefreshPanel
  <1> QED
    BY <1>1, <1>2, RunTasks DEF Queues

\* A dry queue has its flag lowered: FireDry() does it with the task still in the queue, and
\* only a Stop() that saw this task raises it later.
LEMMA StepLoweredWhenDry == ASSUME PanelInv, [Next]_vars PROVE LoweredWhenDry'
  <1> USE DEF PanelInv, LoweredWhenDry
  <1>0. IInv /\ DOMAIN m_Stopped = Queues /\ DOMAIN late = Queues
    BY DEF IInv, TypeOK
  <1>1. ASSUME UNCHANGED <<m_Stopped, late>>, \A q \in Queues : tasks'[q] = <<>> => tasks[q] = <<>>
        PROVE  LoweredWhenDry'
    BY <1>1
  <1>2. ASSUME NEW q \in Queues, Raise(q), UNCHANGED tasks
        PROVE  LoweredWhenDry'
    BY <1>0, <1>2 DEF Raise
  <1>3. ASSUME NEW q \in Queues, EndTask(q)
        PROVE  LoweredWhenDry'
    <2>1. tasks[q] # <<>> /\ Len(tasks[q]) = m_Length[q]
      BY <1>0, <1>3, BusyWorker DEF EndTask, IInv, QueueInv
    <2>2. UNCHANGED <<m_Stopped, late>>
          /\ (UNCHANGED tasks \/ (m_Length[q] # 1 /\ tasks' = [tasks EXCEPT ![q] = Tail(@)]))
      BY <1>3 DEF EndTask
    <2>3. \A p \in Queues : tasks'[p] = <<>> => tasks[p] = <<>>
      BY <1>0, <2>1, <2>2, TailTasks
    <2> QED
      BY <1>1, <2>2, <2>3
  <1>4. ASSUME NEW q \in Queues, FireDry(q)
        PROVE  LoweredWhenDry'
    <2>1. /\ tasks' = [tasks EXCEPT ![q] = Tail(@)] /\ late' = [late EXCEPT ![q] = FALSE]
          /\ m_Stopped' = [m_Stopped EXCEPT ![q] = FALSE]
      BY <1>4 DEF FireDry, Lowered
    <2>2. \A p \in Queues \ {q} : tasks'[p] = tasks[p]
      BY <2>1 DEF IInv, TypeOK
    <2> QED
      BY <1>0, <2>1, <2>2
  <1>5. CASE GoToTask \/ RestoreTask \/ Recover
    <2>1. CASE GoToCancel
      <3>1. tasks["loading"] # <<>>
        BY <1>0, <2>1, BusyWorker DEF GoToCancel, Queues
      <3> QED
        BY <1>0, <2>1, <3>1 DEF GoToCancel
    <2>2. CASE GoToStopReloading
      BY <1>2, <2>2 DEF GoToStopReloading, Queues
    <2>3. CASE GoToFetch \/ GoToPost \/ RestoreTask \/ Recover
      BY <1>1, <2>3 DEF GoToFetch, GoToPost, RestoreTask, RestoreFetch, RestorePost, Recover
    <2> QED
      BY <1>5, <2>1, <2>2, <2>3 DEF GoToTask
  <1>6. CASE RefreshTask
    BY <1>1, <1>6 DEF RefreshTask, RefreshStart, RefreshFetch, RefreshCheck, RefreshPost
  <1>7. CASE MainQueue
    <2>1. CASE LoadListing
      BY <1>1, <2>1 DEF LoadListing
    <2>2. CASE RunBlock
      <3>1. tasks \in [Queues -> Seq(Tasks)]
        BY <1>0 DEF IInv, TypeOK
      <3>2. \A q \in Queues : tasks[q] # <<>> => 1 \in DOMAIN tasks[q]
        BY <3>1, LenProperties, EmptySeq
      <3>3. DOMAIN <<>> = {}
        OBVIOUS
      <3>4. \A q \in Queues : tasks'[q] = <<>> => tasks[q] = <<>>
        BY <1>0, <2>2, <3>2, <3>3, RunBlockTasks
      <3> QED
        BY <1>1, <2>2, <3>4 DEF RunBlock
    <2> QED
      BY <1>7, <2>1, <2>2 DEF MainQueue
  <1>8. CASE GoesOn
    <2>1. CASE MainStopLoading \/ MainCancelsLoading \/ MainStopReloading
      BY <1>2, <2>1 DEF MainStopLoading, MainCancelsLoading, MainStopReloading, Queues
    <2>2. CASE MainWaits \/ MainFetches \/ MainCancels \/ MainLoads
      BY <1>1, <2>2 DEF MainWaits, MainFetches, CancelOperations, MainCancels, MainLoads
    <2> QED
      BY <1>8, <2>1, <2>2 DEF GoesOn
  <1>9. ASSUME NEW place \in Places, Asks(place) \/ Change(place)
        PROVE  LoweredWhenDry'
    <2>1. CASE Asks(place)
      <3>1. UNCHANGED <<m_Stopped, late>>
        BY <1>0, <2>1, AskedFor
      <3>2. \A q \in Queues : tasks'[q] = <<>> => tasks[q] = <<>>
        BY <1>0, <2>1, AskedFor, RunTasks
      <3> QED
        BY <1>1, <3>1, <3>2
    <2>2. CASE Change(place)
      BY <1>1, <2>2 DEF Change
    <2> QED
      BY <1>9, <2>1, <2>2
  <1>10. CASE UNCHANGED vars
    BY <1>1, <1>10 DEF vars
  <1> QED
    BY <1>3, <1>4, <1>5, <1>6, <1>7, <1>8, <1>9, <1>10, PlacesAssumption
       DEF Next, LoadingQueue, ReloadingQueue, Queues, Asks

\* The tasks that were in a queue are still in it, at their places.
TasksStay(q) ==
    \A i \in DOMAIN tasks[q] : i \in DOMAIN tasks'[q] /\ tasks'[q][i] = tasks[q][i]

\* Contents only get newer; what Change() does not change is that of the other places.
LEMMA ChangeFacts ==
  ASSUME IInv, NEW place \in Places, Change(place)
  PROVE  /\ \A p \in Places : contents[p] <= contents'[p]
         /\ \A p \in Places \ {place} : Fetch(p)' = Fetch(p) /\ (p \in valid' <=> p \in valid)
  <1>1. contents \in [Places -> 0..MaxChanges]
    BY DEF IInv, TypeOK
  <1>2. CASE contents' = [contents EXCEPT ![place] = @ + 1] /\ UNCHANGED valid
    BY <1>1, <1>2 DEF Fetch
  <1>3. CASE UNCHANGED contents /\ valid' = valid \ {place}
    BY <1>1, <1>3 DEF Fetch
  <1> QED
    BY <1>2, <1>3 DEF Change

\* Where listings come from: they are fetched, and they go from the tasks to the main queue
\* and from there, or from the main thread, to the panel.
FetchesMove ==
    \A q \in Queues \cup {"main"} :
       \/ fetched'[q] = fetched[q] \/ fetched'[q] = NoListing
       \/ \E p \in Places : fetched'[q] = Fetch(p) /\ UNCHANGED contents
       \/ \E block \in ToSet(mainQ) : fetched'[q] = block.listing

BlocksMove ==
    \A block \in ToSet(mainQ') :
       \/ block \in ToSet(mainQ)
       \/ block.kind # "refresh" /\ (block.listing = NoListing \/ block.listing = fetched["loading"])
       \/ /\ worker["reloading"] = "post"
          /\ block.place = Place("reloading") /\ block.listing = fetched["reloading"]

RefreshMoves ==
    worker'["reloading"] \in {"check", "post"} =>
       /\ tasks["reloading"] # <<>> /\ TasksStay("reloading")
       /\ \/ /\ worker["reloading"] \in {"check", "post"}
             /\ fetched'["reloading"] = fetched["reloading"]
          \/ fetched'["reloading"] \in Fetched(Place("reloading")) /\ UNCHANGED contents

ListingsMove ==
    /\ \A p \in Places : contents[p] <= contents'[p]
    /\ FetchesMove
    /\ m_Data' = m_Data \/ m_Data' = fetched["main"] \/ \E block \in ToSet(mainQ) : m_Data' = block.listing
    /\ BlocksMove
    /\ RefreshMoves

\* A queue that is not empty keeps its first task when it keeps its tasks.
LEMMA SamePlace ==
  ASSUME IInv, IInv', NEW q \in Queues, tasks[q] # <<>>, TasksStay(q)
  PROVE  tasks'[q] # <<>> /\ Place(q)' = Place(q) /\ Place(q) \in Places
  <1>1. tasks[q] \in Seq(Tasks) /\ tasks'[q] \in Seq(Tasks)
    BY DEF IInv, TypeOK
  <1>2. 1 \in DOMAIN tasks[q]
    BY <1>1, LenProperties, EmptySeq
  <1>3. 1 \in DOMAIN tasks'[q] /\ tasks'[q][1] = tasks[q][1]
    BY <1>2 DEF TasksStay
  <1>4. tasks'[q] # <<>>
    BY <1>3
  <1>5. Head(tasks[q]) = tasks[q][1] /\ Head(tasks'[q]) = tasks'[q][1]
    BY <1>1, <1>4, HeadTailProperties
  <1> QED
    BY <1>3, <1>4, <1>5, RunningTask DEF Place

\* Listings that are not ahead stay so when they move.
LEMMA MovedListings ==
  ASSUME PanelInv, IInv', ListingsMove
  PROVE  VersionInv'
  <1>0. /\ IInv /\ VersionInv
        /\ \A p \in Places : contents[p] \in Int /\ contents'[p] \in Int /\ contents[p] <= contents'[p]
        /\ m_Data \in AnyListing
        /\ \A q \in Queues \cup {"main"} : fetched[q] \in AnyListing
        /\ \A block \in ToSet(mainQ) : block.listing \in AnyListing
    <2>1. mainQ \in Seq(Blocks)
      BY DEF PanelInv, IInv, TypeOK
    <2>2. \A block \in ToSet(mainQ) : block \in Blocks
      BY <2>1, ToSetEmpty
    <2>3. \A p \in Places : contents[p] \in 0..MaxChanges /\ contents'[p] \in 0..MaxChanges
      BY DEF PanelInv, IInv, TypeOK
    <2>4. /\ m_Data \in AnyListing
          /\ \A q \in Queues \cup {"main"} : fetched[q] \in AnyListing
          /\ \A block \in ToSet(mainQ) : block.listing \in AnyListing
      BY <2>2 DEF PanelInv, IInv, TypeOK, Blocks, AnyListing
    <2> QED
      BY <2>3, <2>4 DEF PanelInv, ListingsMove
  <1>1. ASSUME NEW listing \in AnyListing, NotAhead(listing)
        PROVE  listing # NoListing => listing.version <= contents'[listing.place]
    <2>1. listing # NoListing => listing.place \in Places /\ listing.version \in Int
      BY DEF AnyListing, Listings
    <2> QED
      BY <1>0, <1>1, <2>1 DEF NotAhead
  <1>2. ASSUME NEW q \in Queues \cup {"main"}
        PROVE  NotAhead(fetched[q])'
    <2>1. CASE fetched'[q] = fetched[q]
      BY <1>0, <1>1, <2>1 DEF VersionInv, NotAhead
    <2>2. CASE fetched'[q] = NoListing
      BY <2>2 DEF NotAhead
    <2>3. ASSUME NEW p \in Places, fetched'[q] = Fetch(p), UNCHANGED contents
          PROVE  NotAhead(fetched[q])'
      BY <1>0, <2>3 DEF NotAhead, Fetch
    <2>4. ASSUME NEW block \in ToSet(mainQ), fetched'[q] = block.listing
          PROVE  NotAhead(fetched[q])'
      BY <1>0, <1>1, <2>4 DEF VersionInv, NotAhead
    <2> QED
      BY <2>1, <2>2, <2>3, <2>4 DEF ListingsMove, FetchesMove
  <1>3. ASSUME NEW block \in ToSet(mainQ')
        PROVE  /\ block.listing # NoListing => block.listing.version <= contents'[block.listing.place]
               /\ block.kind = "refresh" /\ block.listing # NoListing => block.listing.place = block.place
    <2>1. CASE block \in ToSet(mainQ)
      BY <1>0, <1>1, <2>1 DEF VersionInv
    <2>2. CASE block.kind # "refresh" /\ (block.listing = NoListing \/ block.listing = fetched["loading"])
      <3>1. fetched["loading"] \in AnyListing /\ NotAhead(fetched["loading"])
        BY <1>0 DEF VersionInv, Queues
      <3> QED
        BY <1>1, <2>2, <3>1
    <2>3. CASE /\ worker["reloading"] = "post"
               /\ block.place = Place("reloading") /\ block.listing = fetched["reloading"]
      <3>1. fetched["reloading"] \in AnyListing /\ NotAhead(fetched["reloading"])
        BY <1>0 DEF VersionInv, Queues
      <3> QED
        BY <1>0, <1>1, <2>3, <3>1 DEF VersionInv
    <2> QED
      BY <2>1, <2>2, <2>3 DEF ListingsMove, BlocksMove
  <1>4. m_Data' # NoListing => m_Data'.version <= contents'[m_Data'.place]
    <2>1. CASE m_Data' = m_Data
      BY <1>0, <1>1, <2>1 DEF VersionInv
    <2>2. CASE m_Data' = fetched["main"]
      BY <1>0, <1>1, <2>2 DEF VersionInv
    <2>3. ASSUME NEW block \in ToSet(mainQ), m_Data' = block.listing
          PROVE  m_Data' # NoListing => m_Data'.version <= contents'[m_Data'.place]
      BY <1>0, <1>1, <2>3 DEF VersionInv
    <2> QED
      BY <2>1, <2>2, <2>3 DEF ListingsMove
  <1>5. ASSUME worker'["reloading"] \in {"check", "post"}, fetched'["reloading"] # NoListing
        PROVE  fetched'["reloading"].place = Place("reloading")'
    <2>1. Place("reloading")' = Place("reloading") /\ Place("reloading") \in Places
      BY <1>0, <1>5, SamePlace DEF ListingsMove, RefreshMoves, Queues
    <2>2. CASE /\ worker["reloading"] \in {"check", "post"}
               /\ fetched'["reloading"] = fetched["reloading"]
      BY <1>0, <1>5, <2>1, <2>2 DEF VersionInv
    <2>3. CASE fetched'["reloading"] \in Fetched(Place("reloading"))
      BY <1>5, <2>1, <2>3 DEF Fetched, Fetch
    <2> QED
      BY <1>5, <2>2, <2>3 DEF ListingsMove, RefreshMoves
  <1> QED
    BY <1>2, <1>3, <1>4, <1>5 DEF VersionInv, NotAhead

\* In every step listings move as they should.
LEMMA StepListingsMove == ASSUME PanelInv, [Next]_vars PROVE ListingsMove
  <1>0. /\ IInv /\ VersionInv /\ DOMAIN fetched = Queues \cup {"main"} /\ DOMAIN worker = Queues
        /\ \A p \in Places : contents[p] \in Int
        /\ \A p \in Places : contents[p] <= contents[p]
        /\ \A q \in Queues \cup {"main"} : fetched[q] \in AnyListing
    BY DEF PanelInv, IInv, TypeOK, AnyListing
  <1>1. worker["reloading"] # "start" => tasks["reloading"] # <<>>
    BY <1>0, BusyWorker DEF Queues
  <1>2. ASSUME UNCHANGED contents, FetchesMove, m_Data' = m_Data \/ m_Data' = fetched["main"], BlocksMove, RefreshMoves
        PROVE  ListingsMove
    BY <1>0, <1>2 DEF ListingsMove
  <1>3. UNCHANGED fetched => FetchesMove
    BY DEF FetchesMove
  <1>4. UNCHANGED mainQ => BlocksMove
    BY DEF BlocksMove
  <1>5. ASSUME worker'["reloading"] = worker["reloading"], fetched'["reloading"] = fetched["reloading"],
               TasksStay("reloading")
        PROVE  RefreshMoves
    BY <1>1, <1>5 DEF RefreshMoves
  <1>6. \A q \in Queues : UNCHANGED tasks => TasksStay(q)
    BY DEF TasksStay
  <1>7. ASSUME NEW kind \in {"load", "goto", "changed", "show"}, NEW place \in Places, NEW listing \in AnyListing,
               listing = NoListing \/ listing = fetched["loading"], Dispatch(kind, place, listing)
        PROVE  BlocksMove
    BY <1>0, <1>7, DispatchBlocks DEF BlocksMove
  <1>8. CASE GoToTask \/ RestoreTask \/ Recover
    <2>1. /\ UNCHANGED <<contents, m_Data, tasks>> /\ worker'["reloading"] = worker["reloading"]
          /\ fetched'["reloading"] = fetched["reloading"]
      BY <1>0, <1>8 DEF GoToTask, RestoreTask, Recover, GoToFetch, GoToCancel, GoToStopReloading, GoToPost,
         RestoreFetch, RestorePost, Queues
    <2>2. tasks["loading"] # <<>>
      BY <1>0, <1>8, BusyWorker DEF GoToTask, RestoreTask, Recover, GoToFetch, GoToCancel,
         GoToStopReloading, GoToPost, RestoreFetch, RestorePost, Running, Queues
    <2>3. Place("loading") \in Places
      BY <1>0, <2>2, RunningTask DEF Queues
    <2>4. FetchesMove
      <3>1. CASE GoToFetch \/ RestoreFetch
        <4>1. PICK listing \in {Fetch(Place("loading")), NoListing} :
                  fetched' = [fetched EXCEPT !["loading"] = listing]
          BY <3>1 DEF GoToFetch, RestoreFetch, Fetched
        <4> QED
          BY <1>0, <2>1, <2>3, <4>1 DEF FetchesMove
      <3> QED
        BY <1>3, <1>8, <3>1 DEF GoToTask, RestoreTask, Recover, GoToCancel, GoToStopReloading, GoToPost, RestorePost
    <2>5. BlocksMove
      <3>1. CASE GoToPost \/ RestorePost
        <4>1. PICK kind \in {"load", "goto", "show"} : Dispatch(kind, Place("loading"), fetched["loading"])
          BY <3>1 DEF GoToPost, RestorePost
        <4> QED
          BY <1>0, <1>7, <2>3, <4>1 DEF Queues
      <3>2. CASE Recover
        <4>1. ASSUME NEW place \in valid, Dispatch("goto", place, NoListing)
              PROVE  BlocksMove
          <5>1. place \in Places /\ NoListing \in AnyListing
            BY <1>0 DEF IInv, TypeOK, AnyListing
          <5> QED
            BY <1>7, <4>1, <5>1
        <4> QED
          BY <1>4, <3>2, <4>1 DEF Recover
      <3> QED
        BY <1>4, <1>8, <3>1, <3>2 DEF GoToTask, RestoreTask, GoToFetch, GoToCancel, GoToStopReloading, RestoreFetch
    <2> QED
      BY <1>2, <1>5, <1>6, <2>1, <2>4, <2>5 DEF Queues
  <1>9. ASSUME NEW q \in Queues, EndTask(q) \/ FireDry(q)
        PROVE  ListingsMove
    <2>1. /\ UNCHANGED <<contents, m_Data, mainQ>>
          /\ fetched' = fetched \/ fetched' = [fetched EXCEPT ![q] = NoListing]
          /\ worker' = [worker EXCEPT ![q] = "dry"] \/ worker' = [worker EXCEPT ![q] = "start"]
          /\ UNCHANGED tasks \/ tasks' = [tasks EXCEPT ![q] = Tail(@)]
      BY <1>9 DEF EndTask, FireDry
    <2>2. FetchesMove
      BY <1>0, <2>1 DEF FetchesMove
    <2>3. RefreshMoves
      <3>1. CASE q = "reloading"
        BY <1>0, <2>1, <3>1 DEF RefreshMoves
      <3>2. CASE q # "reloading"
        <4>1. tasks'["reloading"] = tasks["reloading"]
          BY <1>0, <2>1, <3>2 DEF IInv, TypeOK, Queues
        <4>2. TasksStay("reloading")
          BY <4>1 DEF TasksStay
        <4> QED
          BY <1>0, <1>5, <2>1, <3>2, <4>2 DEF Queues
      <3> QED
        BY <3>1, <3>2
    <2> QED
      BY <1>2, <1>4, <2>1, <2>2, <2>3
  <1>10. CASE RefreshTask
    <2>1. UNCHANGED <<contents, m_Data, tasks>>
      BY <1>10 DEF RefreshTask, RefreshStart, RefreshFetch, RefreshCheck, RefreshPost
    <2>2. tasks["reloading"] # <<>>
      BY <1>1, <1>10 DEF RefreshTask, RefreshStart, RefreshFetch, RefreshCheck, RefreshPost, Running
    <2>3. Place("reloading") \in Places
      BY <1>0, <2>2, RunningTask DEF Queues
    <2>4. CASE RefreshStart \/ RefreshCheck
      <3>1. UNCHANGED <<mainQ, fetched>> /\ (worker'["reloading"] \in {"check", "post"} => worker["reloading"] = "check")
        BY <1>0, <2>4 DEF RefreshStart, RefreshCheck, Queues
      <3> QED
        BY <1>2, <1>3, <1>4, <1>6, <2>1, <2>2, <3>1 DEF RefreshMoves, Queues
    <2>5. CASE RefreshFetch
      <3>1. PICK listing \in Fetched(Place("reloading")) :
                fetched' = [fetched EXCEPT !["reloading"] = listing] /\ UNCHANGED mainQ
        BY <2>5 DEF RefreshFetch
      <3>2. fetched'["reloading"] \in Fetched(Place("reloading"))
        BY <1>0, <3>1 DEF Queues
      <3>3. FetchesMove
        BY <1>0, <2>1, <2>3, <3>1 DEF FetchesMove, Fetched
      <3> QED
        BY <1>2, <1>4, <1>6, <2>1, <2>2, <3>1, <3>2, <3>3 DEF RefreshMoves, Queues
    <2>6. CASE RefreshPost
      <3>1. /\ Dispatch("refresh", Place("reloading"), fetched["reloading"]) /\ worker["reloading"] = "post"
            /\ worker'["reloading"] = "end" /\ UNCHANGED fetched
        BY <1>0, <2>6 DEF RefreshPost, Queues
      <3>2. fetched["reloading"] \in AnyListing
        BY <1>0 DEF Queues
      <3>3. BlocksMove
        BY <1>0, <2>3, <3>1, <3>2, DispatchBlocks DEF BlocksMove
      <3> QED
        BY <1>2, <1>3, <2>1, <3>1, <3>3 DEF RefreshMoves
    <2> QED
      BY <1>10, <2>4, <2>5, <2>6 DEF RefreshTask
  <1>11. CASE RunBlock
    <2>1. UNCHANGED <<contents, fetched, worker>>
      BY <1>11 DEF RunBlock
    <2>2. m_Data' = m_Data \/ m_Data' = Head(mainQ).listing
      BY <1>11 DEF RunBlock, Load
    <2>3. Head(mainQ) \in ToSet(mainQ) /\ ToSet(mainQ') \subseteq ToSet(mainQ)
      BY <1>0, <1>11, RunBlockBlocks
    <2>4. TasksStay("reloading")
      BY <1>0, <1>11, RunBlockTasks DEF TasksStay, Queues
    <2>5. BlocksMove
      BY <2>3 DEF BlocksMove
    <2>6. RefreshMoves
      BY <1>5, <2>1, <2>4
    <2> QED
      BY <1>0, <1>3, <2>1, <2>2, <2>3, <2>5, <2>6 DEF ListingsMove
  <1>12. CASE GoesOn
    <2>1. UNCHANGED <<contents, mainQ, tasks, worker>> /\ (m_Data' = m_Data \/ m_Data' = fetched["main"])
      BY <1>12 DEF GoesOn, MainStopLoading, MainWaits, MainFetches, MainCancelsLoading, MainCancels,
         MainStopReloading, MainLoads, Load
    <2>2. FetchesMove /\ fetched'["reloading"] = fetched["reloading"]
      <3>1. CASE MainFetches
        <4>1. UNCHANGED fetched \/ fetched' = [fetched EXCEPT !["main"] = Fetch(going)]
          BY <3>1 DEF MainFetches, CancelOperations
        <4>2. going \in Places
          BY <1>0 DEF IInv, TypeOK
        <4> QED
          BY <1>0, <2>1, <4>1, <4>2 DEF FetchesMove, Queues
      <3>2. CASE MainLoads
        BY <1>0, <3>2 DEF MainLoads, FetchesMove, Queues
      <3> QED
        BY <1>3, <1>12, <3>1, <3>2 DEF GoesOn, MainStopLoading, MainWaits, MainCancelsLoading, MainCancels,
           MainStopReloading
    <2> QED
      BY <1>2, <1>4, <1>5, <1>6, <2>1, <2>2 DEF Queues
  <1>13. ASSUME NEW place \in Places, Asks(place)
         PROVE  ListingsMove
    <2>1. UNCHANGED <<contents, m_Data, mainQ, worker>>
          /\ (UNCHANGED fetched \/ fetched' = [fetched EXCEPT !["main"] = NoListing])
      BY <1>0, <1>13, AskedFor
    <2>2. TasksStay("reloading")
      BY <1>0, <1>6, <1>13, AskedFor, RunTasks DEF TasksStay, Queues
    <2>3. FetchesMove /\ fetched'["reloading"] = fetched["reloading"]
      BY <1>0, <2>1 DEF FetchesMove, Queues
    <2> QED
      BY <1>2, <1>4, <1>5, <2>1, <2>2, <2>3
  <1>14. ASSUME NEW place \in Places, Change(place)
         PROVE  ListingsMove
    <2>1. /\ UNCHANGED <<m_Data, tasks, worker, fetched>>
          /\ (UNCHANGED mainQ \/ Dispatch("changed", place, NoListing))
      BY <1>14 DEF Change
    <2>2. NoListing \in AnyListing
      BY DEF AnyListing
    <2>3. BlocksMove
      BY <1>4, <1>7, <2>1, <2>2
    <2>4. RefreshMoves
      BY <1>5, <1>6, <2>1 DEF Queues
    <2> QED
      BY <1>0, <1>3, <1>14, <2>1, <2>3, <2>4, ChangeFacts DEF ListingsMove
  <1>15. CASE LoadListing
    <2>1. /\ UNCHANGED <<contents, m_Data, tasks, worker>> /\ mainQ' = Tail(mainQ) /\ mainQ # <<>>
          /\ fetched' = [fetched EXCEPT !["main"] = Head(mainQ).listing]
      BY <1>15 DEF LoadListing, CancelOperations
    <2>2. Head(mainQ) \in ToSet(mainQ) /\ ToSet(mainQ') \subseteq ToSet(mainQ)
      BY <1>0, <2>1, ToSetHead DEF IInv, TypeOK
    <2>3. FetchesMove /\ fetched'["reloading"] = fetched["reloading"] /\ BlocksMove
      BY <1>0, <2>1, <2>2 DEF FetchesMove, BlocksMove, Queues
    <2> QED
      BY <1>2, <1>5, <1>6, <2>1, <2>3 DEF Queues
  <1>16. CASE UNCHANGED vars
    <2>1. UNCHANGED <<contents, m_Data, mainQ, tasks, worker, fetched>>
      BY <1>16 DEF vars
    <2> QED
      BY <1>2, <1>3, <1>4, <1>5, <1>6, <2>1 DEF Queues
  <1> QED
    BY <1>8, <1>9, <1>10, <1>11, <1>12, <1>13, <1>14, <1>15, <1>16, PlacesAssumption
       DEF Next, LoadingQueue, ReloadingQueue, MainQueue, Queues, Asks

LEMMA StepVersionInv == ASSUME PanelInv, [Next]_vars PROVE VersionInv'
  BY StepListingsMove, MovedListings, StepIInv DEF PanelInv

\* The place, or the way out of it, depends on the block.
Matters(block, p) ==
    \/ block.place = p /\ (block.kind = "changed" \/ (block.kind = "refresh" /\ block.listing \in Fetched(p)))
    \/ block.kind \in {"goto", "load"}

\* What is pending stays so as long as nothing that matters is taken from the queues.
LEMMA PendingStays ==
  ASSUME PanelInv, IInv', NEW p \in Places, Fetch(p)' = Fetch(p),
         \A block \in ToSet(mainQ) : Matters(block, p) => block \in ToSet(mainQ'),
         \A q \in Queues : TasksStay(q),
         worker' = worker, fetched'["reloading"] = fetched["reloading"],
         Pending(p)
  PROVE  Pending(p)'
  <1>0. IInv
    BY DEF PanelInv
  <1>1. InBlocks(p) => InBlocks(p)'
    BY DEF InBlocks, Matters, Fetched
  <1>2. InRefreshes(p) => InRefreshes(p)'
    BY DEF InRefreshes, TasksStay, Queues
  <1>3. ASSUME InFetched(p) PROVE InFetched(p)'
    <2>1. tasks["reloading"] # <<>>
      BY <1>0, <1>3, BusyWorker DEF InFetched, Queues
    <2>2. Place("reloading")' = Place("reloading")
      BY <1>0, <2>1, SamePlace DEF Queues
    <2> QED
      BY <1>3, <2>2 DEF InFetched, Fetched
  <1>4. InRecovery => InRecovery'
    BY DEF InRecovery, TasksStay, Queues, Matters
  <1> QED
    BY <1>1, <1>2, <1>3, <1>4 DEF Pending

\* The steps of the loading queue: what comes to nothing while the panel is stale is missed; the
\* rest goes from the queue to the main queue.
LEMMA LoadingFresh ==
  ASSUME PanelInv, IInv', GoToTask \/ RestoreTask \/ Recover
  PROVE  FreshInv'
  <1>0. /\ IInv /\ DOMAIN worker = Queues
        /\ UNCHANGED <<contents, valid, m_Data, tasks>>
        /\ worker'["reloading"] = worker["reloading"] /\ fetched'["reloading"] = fetched["reloading"]
        /\ missed => missed'
    <2>1. IInv /\ DOMAIN worker = Queues /\ DOMAIN fetched = Queues \cup {"main"}
      BY DEF PanelInv, IInv, TypeOK
    <2>2. /\ UNCHANGED <<contents, valid, m_Data, tasks>>
          /\ worker'["reloading"] = worker["reloading"] /\ fetched'["reloading"] = fetched["reloading"]
      BY <2>1 DEF GoToTask, RestoreTask, Recover, GoToFetch, GoToCancel, GoToStopReloading, GoToPost,
         RestoreFetch, RestorePost, Queues
    <2>3. missed => missed'
      <3> HIDE DEF panel, fs, queues
      <3>1. \/ missed' = missed \/ missed' = (missed \/ Outdated(m_Data))
            \/ \E listing \in Fetched(Place("loading")) :
                   missed' = (missed \/ (listing = NoListing /\ Outdated(m_Data)))
        BY Zenon DEF GoToTask, RestoreTask, Recover, GoToFetch, GoToCancel, GoToStopReloading, GoToPost,
           RestoreFetch, RestorePost
      <3> QED
        BY <3>1, Zenon
    <2> QED
      BY <2>1, <2>2, <2>3
  <1>1. tasks["loading"] # <<>>
    BY <1>0, BusyWorker DEF GoToTask, RestoreTask, Recover, GoToFetch, GoToCancel, GoToStopReloading,
       GoToPost, RestoreFetch, RestorePost, Running, Queues
  <1>2. SUFFICES ASSUME NEW p \in Places, m_Data.place = p, Stale, ~missed', Pending(p)
                 PROVE  Pending(p)'
    BY <1>0 DEF PanelInv, FreshInv, Stale
  <1>3. Fetch(p)' = Fetch(p) /\ Place("reloading")' = Place("reloading")
    BY <1>0 DEF Fetch, Place
  <1>4. ASSUME ToSet(mainQ) \subseteq ToSet(mainQ')
        PROVE  InBlocks(p) \/ InRefreshes(p) \/ InFetched(p) => Pending(p)'
    BY <1>0, <1>3, <1>4 DEF Pending, InBlocks, InRefreshes, InFetched, Fetched
  <1>5. /\ 1 \in DOMAIN tasks["loading"] /\ tasks["loading"][1] = Head(tasks["loading"])
        /\ Place("loading") \in Places
    <2>1. tasks["loading"] \in Seq(Tasks)
      BY <1>0 DEF IInv, TypeOK, Queues
    <2> QED
      BY <1>0, <1>1, <2>1, LenProperties, EmptySeq, HeadTailProperties, RunningTask DEF Queues
  <1>6. ASSUME UNCHANGED mainQ, worker'["loading"] \notin {"end", "dry"}
        PROVE  Pending(p)'
    <2>1. InRecovery => InRecovery'
      BY <1>0, <1>6 DEF InRecovery
    <2> QED
      BY <1>2, <1>4, <1>6, <2>1 DEF Pending
  <1>7. CASE GoToFetch
    <2>1. PICK listing \in Fetched(Place("loading")) :
              /\ missed' = (missed \/ (listing = NoListing /\ Outdated(m_Data)))
              /\ worker' = [worker EXCEPT !["loading"] = IF listing = NoListing THEN "end" ELSE "check"]
      BY <1>7 DEF GoToFetch
    <2>2. listing # NoListing
      <3> HIDE DEF panel, fs
      <3>1. Outdated(m_Data)
        BY <1>2 DEF Stale, Outdated
      <3> QED
        BY <1>2, <2>1, <3>1, Zenon
    <2>3. UNCHANGED mainQ /\ worker'["loading"] = "check"
      BY <1>0, <1>7, <2>1, <2>2 DEF GoToFetch, Queues
    <2> QED
      BY <1>6, <2>3
  <1>8. CASE GoToCancel \/ GoToStopReloading
    <2>1. UNCHANGED mainQ /\ worker'["loading"] \in {"stop", "post"}
      BY <1>0, <1>8 DEF GoToCancel, GoToStopReloading, Queues
    <2> QED
      BY <1>6, <2>1
  <1>9. CASE GoToPost
    <2>1. PICK block \in ToSet(mainQ') : block.kind = "load" /\ ToSet(mainQ) \subseteq ToSet(mainQ')
      <3>1. fetched["loading"] \in AnyListing
        BY <1>0 DEF IInv, TypeOK, AnyListing, Queues
      <3>2. ToSet(mainQ') = ToSet(mainQ) \cup
                {[kind |-> "load", place |-> Place("loading"), listing |-> fetched["loading"]]}
        BY <1>0, <1>5, <1>9, <3>1, DispatchBlocks DEF GoToPost
      <3> QED
        BY <3>2
    <2> QED
      BY <2>1 DEF Pending, InRecovery
  <1>10. CASE Recover
    <2>1. PICK place \in Range(Above[Place("loading")]) \cap valid : Dispatch("goto", place, NoListing)
      <3> HIDE DEF panel, fs
      <3>1. Outdated(m_Data)
        BY <1>2 DEF Stale, Outdated
      <3>2. ~(missed' = (missed \/ Outdated(m_Data)))
        BY <1>2, <3>1, Zenon
      <3> QED
        BY <1>10, <3>2, Zenon DEF Recover
    <2>2. PICK block \in ToSet(mainQ') : block.kind = "goto"
      <3>1. place \in Places /\ NoListing \in AnyListing
        BY <1>0 DEF IInv, TypeOK, AnyListing
      <3> DEFINE block == [kind |-> "goto", place |-> place, listing |-> NoListing]
      <3>2. block \in ToSet(mainQ') /\ block.kind = "goto"
        BY <1>0, <2>1, <3>1, DispatchBlocks
      <3> HIDE DEF block
      <3> QED
        BY <3>2
    <2> QED
      BY <2>2 DEF Pending, InRecovery
  <1>11. CASE RestoreTask
    <2>1. ToSet(mainQ) \subseteq ToSet(mainQ')
      <3>1. CASE RestoreFetch
        BY <3>1 DEF RestoreFetch
      <3>2. CASE RestorePost
        <4>1. PICK kind \in {"goto", "show"} : Dispatch(kind, Place("loading"), fetched["loading"])
          BY <3>2 DEF RestorePost
        <4>2. fetched["loading"] \in AnyListing
          BY <1>0 DEF IInv, TypeOK, AnyListing, Queues
        <4> QED
          BY <1>0, <1>5, <4>1, <4>2, DispatchBlocks
      <3> QED
        BY <1>11, <3>1, <3>2 DEF RestoreTask
    <2>2. tasks["loading"][1].kind = "restore"
      BY <1>5, <1>11 DEF RestoreTask, RestoreFetch, RestorePost, Running
    <2>3. InRecovery => InRecovery'
      BY <1>0, <2>1, <2>2 DEF InRecovery
    <2> QED
      BY <1>2, <1>4, <2>1, <2>3 DEF Pending
  <1> QED
    BY <1>7, <1>8, <1>9, <1>10, <1>11 DEF GoToTask

\* The end of a task takes nothing with it that is pending: it has posted what it fetched.
LEMMA EndFresh ==
  ASSUME PanelInv, IInv', NEW q \in Queues, EndTask(q) \/ FireDry(q)
  PROVE  FreshInv'
  <1>0. /\ IInv /\ DOMAIN worker = Queues /\ DOMAIN fetched = Queues \cup {"main"}
        /\ UNCHANGED <<contents, valid, m_Data, mainQ, missed>>
        /\ worker[q] \in {"end", "dry"}
    BY DEF PanelInv, IInv, TypeOK, EndTask, FireDry
  <1>1. SUFFICES ASSUME NEW p \in Places, Pending(p)
                 PROVE  Pending(p)'
    BY <1>0 DEF PanelInv, FreshInv, Stale
  <1>2. tasks[q] # <<>>
    BY <1>0, BusyWorker
  <1>3. /\ \A r \in Queues \ {q} : worker'[r] = worker[r] /\ fetched'[r] = fetched[r]
        /\ \/ tasks' = tasks /\ worker'[q] = "dry"
           \/ tasks' = [tasks EXCEPT ![q] = Tail(@)] /\ worker'[q] = "start"
    BY <1>0 DEF EndTask, FireDry
  <1>4. /\ \A i \in DOMAIN tasks[q] \ {1} :
               \E j \in DOMAIN tasks'[q] :
                  tasks'[q][j] = tasks[q][i] /\ (j = 1 => worker'[q] = "start")
        /\ \A r \in Queues \ {q} : tasks'[r] = tasks[r]
    <2>1. CASE tasks' = tasks /\ worker'[q] = "dry"
      BY <2>1
    <2>2. CASE tasks' = [tasks EXCEPT ![q] = Tail(@)] /\ worker'[q] = "start"
      BY <1>0, <1>2, <2>2, TailTasks
    <2> QED
      BY <1>3, <2>1, <2>2
  <1>5. Fetch(p)' = Fetch(p)
    BY <1>0 DEF Fetch
  <1>6. InBlocks(p) => InBlocks(p)'
    BY <1>0, <1>5 DEF InBlocks, Fetched
  <1>7. ASSUME InRefreshes(p) PROVE InRefreshes(p)'
    <2>1. PICK i \in DOMAIN tasks["reloading"] :
              tasks["reloading"][i].place = p /\ (i = 1 => worker["reloading"] \in {"start", "fetch"})
      BY <1>7 DEF InRefreshes
    <2>2. CASE q = "reloading"
      BY <1>0, <1>4, <2>1, <2>2 DEF InRefreshes
    <2>3. CASE q # "reloading"
      BY <1>3, <1>4, <2>1, <2>3 DEF InRefreshes, Queues
    <2> QED
      BY <2>2, <2>3
  <1>8. ASSUME InFetched(p) PROVE InFetched(p)'
    <2>1. q # "reloading"
      BY <1>0, <1>8 DEF InFetched
    <2> QED
      BY <1>3, <1>4, <1>5, <1>8, <2>1 DEF InFetched, Fetched, Place, Queues
  <1>9. ASSUME InRecovery PROVE InRecovery'
    <2>1. CASE \E block \in ToSet(mainQ) : block.kind \in {"goto", "load"}
      BY <1>0, <1>9, <2>1 DEF InRecovery
    <2>2. ASSUME NEW i \in DOMAIN tasks["loading"], tasks["loading"][i].kind \in {"goto", "recover"},
                 i = 1 => worker["loading"] \notin {"end", "dry"}
          PROVE  InRecovery'
      <3>1. CASE q = "loading"
        BY <1>0, <1>4, <1>9, <2>2, <3>1 DEF InRecovery
      <3>2. CASE q # "loading"
        BY <1>0, <1>3, <1>4, <1>9, <2>2, <3>2 DEF InRecovery, Queues
      <3> QED
        BY <3>1, <3>2
    <2> QED
      BY <1>9, <2>1, <2>2 DEF InRecovery
  <1> QED
    BY <1>1, <1>6, <1>7, <1>8, <1>9 DEF Pending

\* A refresh that is not given up fetches, and posts what is in its place.
LEMMA RefreshFresh ==
  ASSUME PanelInv, IInv', RefreshTask
  PROVE  FreshInv'
  <1>0. /\ IInv /\ DOMAIN worker = Queues /\ DOMAIN fetched = Queues \cup {"main"}
        /\ UNCHANGED <<contents, valid, m_Data, tasks>>
        /\ worker'["loading"] = worker["loading"]
        /\ missed => missed'
    <2>1. IInv /\ DOMAIN worker = Queues /\ DOMAIN fetched = Queues \cup {"main"}
      BY DEF PanelInv, IInv, TypeOK
    <2>2. UNCHANGED <<contents, valid, m_Data, tasks>> /\ worker'["loading"] = worker["loading"]
      BY <2>1 DEF RefreshTask, RefreshStart, RefreshFetch, RefreshCheck, RefreshPost, Queues
    <2>3. missed => missed'
      BY Zenon DEF RefreshTask, RefreshStart, RefreshFetch, RefreshCheck, RefreshPost
    <2> QED
      BY <2>1, <2>2, <2>3
  <1>1. SUFFICES ASSUME NEW p \in Places, ~missed', Pending(p)
                 PROVE  Pending(p)'
    BY <1>0 DEF PanelInv, FreshInv, Stale
  <1>2. Fetch(p)' = Fetch(p) /\ Place("reloading")' = Place("reloading")
    BY <1>0 DEF Fetch, Place
  <1>3. tasks["reloading"] # <<>>
    BY <1>0, BusyWorker DEF RefreshTask, RefreshStart, RefreshFetch, RefreshCheck, RefreshPost,
       Running, Queues
  <1>4. /\ Place("reloading") \in Places
        /\ 1 \in DOMAIN tasks["reloading"] /\ tasks["reloading"][1].place = Place("reloading")
    <2>1. tasks["reloading"] \in Seq(Tasks)
      BY <1>0 DEF IInv, TypeOK, Queues
    <2>2. 1 \in DOMAIN tasks["reloading"] /\ Head(tasks["reloading"]) = tasks["reloading"][1]
      BY <1>3, <2>1, LenProperties, EmptySeq, HeadTailProperties
    <2> QED
      BY <1>0, <1>3, <2>2, RunningTask DEF Queues, Place
  <1>5. ASSUME ToSet(mainQ) \subseteq ToSet(mainQ')
        PROVE  InBlocks(p) \/ InRecovery => Pending(p)'
    BY <1>0, <1>2, <1>5 DEF Pending, InBlocks, InRecovery, Fetched
  <1>6. CASE RefreshStart
    <2>1. UNCHANGED mainQ /\ worker["reloading"] = "start" /\ worker'["reloading"] = "fetch"
      BY <1>0, <1>1, <1>6 DEF RefreshStart, Queues
    <2>2. InRefreshes(p) => InRefreshes(p)'
      BY <1>0, <2>1 DEF InRefreshes
    <2>3. ~InFetched(p)
      BY <2>1 DEF InFetched
    <2> QED
      BY <1>1, <1>5, <2>1, <2>2, <2>3 DEF Pending
  <1>7. CASE RefreshFetch
    <2>1. /\ UNCHANGED mainQ /\ worker["reloading"] = "fetch" /\ worker'["reloading"] = "check"
          /\ fetched'["reloading"] \in Fetched(Place("reloading"))
      BY <1>0, <1>7 DEF RefreshFetch, Queues
    <2>2. ASSUME InRefreshes(p) PROVE Pending(p)'
      <3>1. PICK i \in DOMAIN tasks["reloading"] : tasks["reloading"][i].place = p
        BY <2>2 DEF InRefreshes
      <3>2. CASE i = 1
        BY <1>2, <1>4, <2>1, <3>1, <3>2 DEF Pending, InFetched, Fetched
      <3>3. CASE i # 1
        BY <1>0, <3>1, <3>3 DEF Pending, InRefreshes
      <3> QED
        BY <3>2, <3>3
    <2>3. ~InFetched(p)
      BY <2>1 DEF InFetched
    <2> QED
      BY <1>1, <1>5, <2>1, <2>2, <2>3 DEF Pending
  <1>8. CASE RefreshCheck
    <2>1. /\ UNCHANGED <<mainQ, fetched>> /\ worker["reloading"] = "check" /\ worker'["reloading"] = "post"
      BY <1>0, <1>1, <1>8 DEF RefreshCheck, Queues
    <2>2. InRefreshes(p) => InRefreshes(p)'
      BY <1>0, <2>1 DEF InRefreshes
    <2>3. InFetched(p) => InFetched(p)'
      BY <1>2, <2>1 DEF InFetched, Fetched
    <2> QED
      BY <1>1, <1>5, <2>1, <2>2, <2>3 DEF Pending
  <1>9. CASE RefreshPost
    <2>1. /\ Dispatch("refresh", Place("reloading"), fetched["reloading"]) /\ worker["reloading"] = "post"
          /\ worker'["reloading"] = "end"
      BY <1>0, <1>9 DEF RefreshPost, Queues
    <2>2. ToSet(mainQ') = ToSet(mainQ) \cup
              {[kind |-> "refresh", place |-> Place("reloading"), listing |-> fetched["reloading"]]}
      <3>1. fetched["reloading"] \in AnyListing
        BY <1>0 DEF IInv, TypeOK, AnyListing, Queues
      <3> QED
        BY <1>0, <1>4, <2>1, <3>1, DispatchBlocks
    <2>3. InRefreshes(p) => InRefreshes(p)'
      BY <1>0, <2>1 DEF InRefreshes
    <2>4. ASSUME InFetched(p) PROVE InBlocks(p)'
      <3> DEFINE block == [kind |-> "refresh", place |-> Place("reloading"), listing |-> fetched["reloading"]]
      <3>1. block.kind = "refresh" /\ block.place = p /\ block.listing \in Fetched(p) /\ block \in ToSet(mainQ')
        BY <2>2, <2>4 DEF InFetched
      <3> HIDE DEF block
      <3> QED
        BY <1>2, <3>1 DEF InBlocks, Fetched
    <2> QED
      BY <1>1, <1>5, <2>2, <2>3, <2>4 DEF Pending
  <1> QED
    BY <1>6, <1>7, <1>8, <1>9 DEF RefreshTask

\* What the main thread goes on with changes the panel by Load() alone.
LEMMA MainFresh ==
  ASSUME PanelInv, IInv', GoesOn
  PROVE  FreshInv'
  <1>0. IInv /\ m_Data.place \in Places /\ DOMAIN fetched = Queues \cup {"main"}
    BY DEF PanelInv, IInv, TypeOK, Listings
  <1>1. UNCHANGED <<contents, valid, mainQ, tasks, worker>>
    BY DEF GoesOn, MainStopLoading, MainWaits, MainFetches, MainCancelsLoading, MainCancels,
       MainStopReloading, MainLoads
  <1>2. CASE MainLoads /\ fetched["main"] # NoListing
    <2>1. m_Data' = fetched["main"] /\ missed' = Outdated(fetched["main"])
      BY <1>2 DEF MainLoads, Load
    <2> QED
      BY <1>1, <2>1 DEF FreshInv, Stale, Outdated
  <1>3. CASE ~MainLoads \/ fetched["main"] = NoListing
    <2>1. UNCHANGED <<m_Data, missed>> /\ fetched'["reloading"] = fetched["reloading"]
      BY <1>0, <1>3 DEF GoesOn, MainStopLoading, MainWaits, MainFetches, MainCancelsLoading, MainCancels,
         MainStopReloading, MainLoads, CancelOperations, Queues
    <2>2. \A q \in Queues : TasksStay(q)
      BY <1>1 DEF TasksStay
    <2>3. ASSUME NEW p \in Places, Pending(p) PROVE Pending(p)'
      <3>1. Fetch(p)' = Fetch(p)
        BY <1>1 DEF Fetch
      <3> QED
        BY <1>1, <2>1, <2>2, <2>3, <3>1, PendingStays
    <2> QED
      BY <1>1, <2>1, <2>3 DEF PanelInv, FreshInv, Stale
  <1> QED
    BY <1>2, <1>3

\* The block that shows a listing is not one a refresh depends on.
LEMMA ListingFresh ==
  ASSUME PanelInv, IInv', LoadListing
  PROVE  FreshInv'
  <1>0. IInv /\ mainQ \in Seq(Blocks) /\ DOMAIN fetched = Queues \cup {"main"}
    BY DEF PanelInv, IInv, TypeOK
  <1>1. /\ UNCHANGED <<contents, valid, m_Data, tasks, worker, missed>>
        /\ mainQ # <<>> /\ mainQ' = Tail(mainQ) /\ Head(mainQ).kind = "show"
        /\ fetched'["reloading"] = fetched["reloading"]
    BY <1>0 DEF LoadListing, CancelOperations, Queues
  <1>2. ToSet(mainQ) = {Head(mainQ)} \cup ToSet(mainQ')
    BY <1>0, <1>1, ToSetHead
  <1>3. ASSUME NEW p \in Places, Pending(p) PROVE Pending(p)'
    <2>1. Fetch(p)' = Fetch(p) /\ \A q \in Queues : TasksStay(q)
      BY <1>1 DEF Fetch, TasksStay
    <2>2. ~Matters(Head(mainQ), p)
      BY <1>1 DEF Matters
    <2> QED
      BY <1>1, <1>2, <1>3, <2>1, <2>2, PendingStays
  <1> QED
    BY <1>1, <1>3 DEF PanelInv, FreshInv, Stale

\* A block of the main queue: a load is up to date or missed, and so is what a refresh puts in the
\* panel, unless what it is outdated by is still pending; a change is refreshed, by a task that
\* fetches after it, or missed.
LEMMA BlockFresh ==
  ASSUME PanelInv, IInv', RunBlock
  PROVE  FreshInv'
  <1>0. /\ IInv /\ VersionInv /\ FreshInv
        /\ UNCHANGED <<contents, valid, worker, fetched>> /\ mainQ # <<>>
    BY DEF PanelInv, RunBlock
  <1>1. PICK block \in Blocks : block = Head(mainQ) /\ ToSet(mainQ) = {block} \cup ToSet(mainQ')
    BY <1>0, RunBlockBlocks
  <1>2. /\ block.place \in Places /\ block.listing \in AnyListing
        /\ block.kind \in {"load", "refresh", "goto", "changed"}
        /\ m_Data \in Listings /\ m_Data.place \in Places /\ m_Data # NoListing
        /\ \A p \in Places : contents[p] \in 0..MaxChanges
    <2>1. m_Data \in Listings /\ \A p \in Places : contents[p] \in 0..MaxChanges
      BY <1>0 DEF IInv, TypeOK
    <2>2. m_Data.place \in Places /\ m_Data # NoListing
      BY <2>1 DEF Listings, NoListing
    <2>3. block.kind # "show"
      BY <1>1 DEF RunBlock
    <2> QED
      BY <2>1, <2>2, <2>3 DEF Blocks, AnyListing
  <1>3. SUFFICES ASSUME NEW p \in Places, m_Data'.place = p, Stale', ~missed'
                 PROVE  Pending(p)'
    BY DEF FreshInv
  <1>4. \A q \in Queues : TasksStay(q)
    BY <1>0, RunBlockTasks DEF TasksStay
  <1>5. ASSUME Pending(p), ~Matters(block, p) PROVE Pending(p)'
    <2>1. Fetch(p)' = Fetch(p)
      BY <1>0 DEF Fetch
    <2> QED
      BY <1>0, <1>1, <1>4, <1>5, <2>1, PendingStays
  <1>6. ASSUME UNCHANGED m_Data, ~missed PROVE m_Data.place = p /\ Pending(p)
    BY <1>0, <1>3, <1>6 DEF FreshInv, Stale
  <1>7. ASSUME NEW q \in Queues, NEW kind \in {"goto", "recover", "refresh", "restore"}, NEW place \in Places,
               Run(q, kind, place)
        PROVE  \E i \in DOMAIN tasks'[q] :
                  /\ tasks'[q][i].kind = kind /\ tasks'[q][i].place = place
                  /\ i = 1 => worker'[q] = "start"
    <2>1. PICK i \in DOMAIN tasks'[q] :
              tasks'[q][i] = [kind |-> kind, place |-> place] /\ (i = 1 => worker[q] = "start")
      BY <1>0, <1>7, RunTasks
    <2>2. tasks'[q][i].kind = kind /\ tasks'[q][i].place = place
      BY <2>1
    <2> QED
      BY <1>0, <2>1, <2>2
  <1>8. CASE block.kind = "load"
    <2>1. m_Data' = block.listing /\ missed' = Outdated(block.listing)
      BY <1>1, <1>8 DEF RunBlock, Load
    <2> QED
      BY <1>0, <1>3, <2>1 DEF Stale, Outdated
  <1>9. CASE block.kind = "refresh" /\ Path[m_Data.place] = Path[block.place] /\ block.listing # NoListing
    <2>1. m_Data' = block.listing
      BY <1>1, <1>9 DEF RunBlock
    <2>2. missed' = (Outdated(block.listing)
                       /\ (missed \/ m_Data.place # block.place \/ block.listing.version < m_Data.version))
      BY <1>1, <1>9 DEF RunBlock
    <2>3. Outdated(block.listing)
      BY <1>0, <1>3, <2>1 DEF Stale, Outdated
    <2>4. ~missed /\ m_Data.place = block.place /\ ~(block.listing.version < m_Data.version)
      BY <1>3, <2>2, <2>3, Zenon
    <2>5. block.listing.place = block.place /\ block.place = p /\ block.listing.version <= contents[p]
      BY <1>0, <1>1, <1>3, <1>9, <2>1 DEF VersionInv, NotAhead
    <2>6. m_Data.version <= contents[p] /\ m_Data.version \in Int /\ block.listing.version \in Int
      BY <1>0, <1>2, <2>4, <2>5 DEF VersionInv, NotAhead, Listings, AnyListing, NoListing
    <2>7. Stale
      BY <1>2, <2>3, <2>4, <2>5, <2>6 DEF Stale, Outdated
    <2>8. Pending(p)
      BY <1>0, <2>4, <2>5, <2>7 DEF FreshInv
    <2>9. ~Matters(block, p)
      BY <1>9, <2>3, <2>5 DEF Matters, Outdated, Fetched, Fetch
    <2> QED
      BY <1>5, <2>8, <2>9
  <1>10. CASE block.kind = "refresh" /\ Path[m_Data.place] = Path[block.place] /\ block.listing = NoListing
    <2>1. UNCHANGED <<m_Data, missed>> /\ Run("loading", "recover", m_Data.place)
      BY <1>1, <1>10 DEF RunBlock
    <2>2. m_Data.place = p /\ Pending(p)
      BY <1>3, <1>6, <2>1
    <2>3. PICK i \in DOMAIN tasks'["loading"] :
              tasks'["loading"][i].kind = "recover" /\ (i = 1 => worker'["loading"] = "start")
      BY <1>2, <1>7, <2>1 DEF Queues
    <2> QED
      BY <2>3 DEF Pending, InRecovery
  <1>11. CASE block.kind = "goto"
    <2>1. /\ UNCHANGED m_Data /\ GoToAsync(block.place)
          /\ missed' = (missed \/ (m_Length["loading"] > 0 /\ Outdated(m_Data)))
      BY <1>1, <1>11 DEF RunBlock
    <2>2. Outdated(m_Data)
      BY <1>0, <1>3, <2>1 DEF Stale, Outdated
    <2>3. ~(m_Length["loading"] > 0)
      <3> HIDE DEF panel, fs
      <3> QED
        BY <1>3, <2>1, <2>2, Zenon
    <2>4. m_Length["loading"] \in Nat
      BY <1>0 DEF IInv, TypeOK, Queues
    <2>5. Run("loading", "goto", block.place)
      BY <2>1, <2>3, <2>4 DEF GoToAsync
    <2>6. PICK i \in DOMAIN tasks'["loading"] :
              tasks'["loading"][i].kind = "goto" /\ (i = 1 => worker'["loading"] = "start")
      BY <1>2, <1>7, <2>5 DEF Queues
    <2> QED
      BY <2>6 DEF Pending, InRecovery
  <1>12. CASE block.kind = "changed" /\ Path[m_Data.place] = Path[block.place]
    <2>1. RefreshPanel /\ UNCHANGED m_Data
      BY <1>1, <1>12 DEF RunBlock
    <2>2. m_Data.place = p
      BY <1>3, <2>1
    <2>3. CASE m_Length["loading"] > 0
      <3>1. m_Length["loading"] # 0 /\ Outdated(m_Data)
        BY <1>0, <1>3, <2>1, <2>3 DEF Stale, Outdated
      <3>2. missed' = (missed \/ Outdated(m_Data))
        BY <2>1, <3>1 DEF RefreshPanel
      <3> HIDE DEF panel, fs
      <3> QED
        BY <1>3, <3>1, <3>2, Zenon
    <2>4. CASE Busy /\ ~(m_Length["loading"] > 0)
      <3>1. missed' = (missed \/ Last(tasks["reloading"]).place # m_Data.place) /\ UNCHANGED tasks
        BY <2>1, <2>4 DEF RefreshPanel
      <3>2. Last(tasks["reloading"]).place = p
        BY <1>3, <2>2, <3>1, Zenon
      <3>3. /\ tasks["reloading"] \in Seq(Tasks) /\ m_Length["reloading"] >= 2
            /\ m_Length["reloading"] \in {Len(tasks["reloading"]), Len(tasks["reloading"]) - 1}
        BY <1>0, <2>4 DEF IInv, TypeOK, Busy, Queues
      <3>4. Len(tasks["reloading"]) \in DOMAIN tasks["reloading"] /\ Len(tasks["reloading"]) # 1
        BY <3>3, LenProperties
      <3> QED
        BY <3>1, <3>2, <3>4 DEF Last, Pending, InRefreshes
    <2>5. CASE ~Busy /\ ~(m_Length["loading"] > 0)
      <3>1. Run("reloading", "refresh", m_Data.place)
        BY <2>1, <2>5 DEF RefreshPanel
      <3>2. \E i \in DOMAIN tasks'["reloading"] :
                tasks'["reloading"][i].place = p /\ (i = 1 => worker'["reloading"] = "start")
        BY <1>7, <2>2, <3>1 DEF Queues
      <3> QED
        BY <3>2 DEF Pending, InRefreshes
    <2> QED
      BY <2>3, <2>4, <2>5
  <1>13. CASE block.kind \in {"refresh", "changed"} /\ Path[m_Data.place] # Path[block.place]
    <2>1. UNCHANGED <<m_Data, missed>>
      BY <1>1, <1>13 DEF RunBlock
    <2>2. m_Data.place = p /\ Pending(p)
      BY <1>3, <1>6, <2>1
    <2>3. ~Matters(block, p)
      BY <1>13, <2>2 DEF Matters
    <2> QED
      BY <1>5, <2>2, <2>3
  <1> QED
    BY <1>2, <1>8, <1>9, <1>10, <1>11, <1>12, <1>13

\* A change of the directory that is shown is on its way as a block, or missed; another one, and
\* what the user asks for, changes nothing that is pending.
LEMMA OutsideFresh ==
  ASSUME PanelInv, IInv', NEW place \in Places, Asks(place) \/ Change(place)
  PROVE  FreshInv'
  <1>0. IInv /\ FreshInv
    BY DEF PanelInv
  <1>1. CASE Asks(place)
    <2>1. /\ UNCHANGED <<contents, valid, m_Data, mainQ, worker>> /\ (missed => missed')
          /\ fetched'["reloading"] = fetched["reloading"]
      BY <1>0, <1>1, AskedFor DEF IInv, TypeOK, Queues
    <2>2. \A q \in Queues : TasksStay(q)
      BY <1>0, <1>1, AskedFor, RunTasks DEF TasksStay
    <2>3. ASSUME NEW p \in Places, Pending(p) PROVE Pending(p)'
      <3>1. Fetch(p)' = Fetch(p)
        BY <2>1 DEF Fetch
      <3> QED
        BY <2>1, <2>2, <2>3, <3>1, PendingStays
    <2> QED
      BY <1>0, <2>1, <2>3 DEF FreshInv, Stale
  <1>2. CASE Change(place)
    <2>1. /\ UNCHANGED <<m_Data, tasks, worker, fetched>>
          /\ missed' = (missed \/ (m_Data.place = place /\ observed # place))
      BY <1>2 DEF Change
    <2>2. SUFFICES ASSUME NEW p \in Places, m_Data.place = p, Stale', ~missed'
                   PROVE  Pending(p)'
      BY <2>1 DEF FreshInv
    <2>3. ~missed /\ (place = p => observed = p)
      BY <2>1, <2>2, Zenon
    <2>4. NoListing \in AnyListing
      BY DEF AnyListing
    <2>5. CASE place = p
      <3>1. Dispatch("changed", p, NoListing)
        BY <1>2, <2>5, <2>3 DEF Change
      <3>2. ToSet(mainQ') = ToSet(mainQ) \cup {[kind |-> "changed", place |-> p, listing |-> NoListing]}
        BY <1>0, <2>4, <3>1, DispatchBlocks
      <3> DEFINE block == [kind |-> "changed", place |-> p, listing |-> NoListing]
      <3>3. block \in ToSet(mainQ') /\ block.place = p /\ block.kind = "changed"
        BY <3>2
      <3> HIDE DEF block
      <3> QED
        BY <3>3 DEF Pending, InBlocks
    <2>6. CASE place # p
      <3>1. Fetch(p)' = Fetch(p) /\ (p \in valid' <=> p \in valid)
        BY <1>0, <1>2, <2>6, ChangeFacts
      <3>2. contents'[p] = contents[p]
        BY <1>0, <1>2, <2>6 DEF Change, IInv, TypeOK
      <3>3. Pending(p)
        BY <1>0, <2>1, <2>2, <2>3, <3>1, <3>2 DEF FreshInv, Stale
      <3>4. ToSet(mainQ) \subseteq ToSet(mainQ') /\ \A q \in Queues : TasksStay(q)
        BY <1>0, <1>2, <2>1, <2>4, DispatchBlocks DEF Change, TasksStay
      <3> QED
        BY <2>1, <3>1, <3>3, <3>4, PendingStays
    <2> QED
      BY <2>5, <2>6
  <1> QED
    BY <1>1, <1>2

LEMMA StepFreshInv == ASSUME PanelInv, [Next]_vars PROVE FreshInv'
  <1>0. IInv'
    BY StepIInv DEF PanelInv
  <1>1. CASE LoadingQueue
    BY <1>0, <1>1, LoadingFresh, EndFresh DEF LoadingQueue, Queues
  <1>2. CASE ReloadingQueue
    BY <1>0, <1>2, RefreshFresh, EndFresh DEF ReloadingQueue, Queues
  <1>3. CASE MainQueue
    BY <1>0, <1>3, BlockFresh, ListingFresh DEF MainQueue
  <1>4. CASE GoesOn
    BY <1>0, <1>4, MainFresh
  <1>5. ASSUME NEW place \in Places, Asks(place) \/ Change(place)
        PROVE  FreshInv'
    BY <1>0, <1>5, OutsideFresh
  <1>6. CASE UNCHANGED vars
    BY <1>6 DEF vars, PanelInv, FreshInv, Stale, Pending, InBlocks, InRefreshes, InFetched, InRecovery,
                Fetched, Fetch, Place
  <1> QED
    BY <1>1, <1>2, <1>3, <1>4, <1>5, <1>6, PlacesAssumption DEF Next, Asks

-----------------------------------------------------------------------------
(* Theorems.                                                               *)

\* The lengths of the queues count their tasks, the main thread is past Wait() only with a
\* dry loading queue, and only listings are loaded.
THEOREM Invariant == Spec => []IInv
  <1>1. Init => IInv
    BY InitIInv
  <1>2. IInv /\ [Next]_vars => IInv'
    BY StepIInv
  <1> QED
    BY <1>1, <1>2, PTL DEF Spec

\* The panel, its queues and the main thread have the types TypeOK states, for any places,
\* any number of requests and any number of changes.
THEOREM TypeCorrect == Spec => []TypeOK
  <1>1. IInv => TypeOK
    BY DEF IInv
  <1> QED
    BY <1>1, Invariant, PTL

\* GoToDirWithContext() on the main thread does not meet a task of the loading queue between
\* its Wait() and its Load(): Stop() and Wait() suffice, although both are not atomic.
THEOREM LoadsAloneHolds == Spec => []LoadsAlone
  <1>1. ASSUME IInv PROVE LoadsAlone
    <2>1. ASSUME main = "fetch" PROVE tasks["loading"] = <<>> \/ worker["loading"] = "dry"
      <3>1. m_Length["loading"] = 0 /\ tasks["loading"] \in Seq(Tasks)
        BY <1>1, <2>1 DEF IInv, TypeOK, MainInv, Queues
      <3>2. worker["loading"] # "dry" => Len(tasks["loading"]) = 0
        BY <1>1, <3>1 DEF IInv, QueueInv, Queues
      <3> QED
        BY <3>1, <3>2, EmptySeq
    <2> QED
      BY <2>1 DEF LoadsAlone
  <1> QED
    BY <1>1, Invariant, PTL

\* What is fetched, posted and shown fits the contents, and a panel that does not show what is
\* in its directory is about to be refreshed or to leave, in every reachable state, unless
\* missed says why it is not: the panel is told of changes of the directory it observes, not of
\* the one it shows, and any fetch may fail.
THEOREM PanelInvariant == Spec => []PanelInv
  <1>1. Init => PanelInv
    BY InitPanelInv
  <1>2. PanelInv /\ [Next]_vars => PanelInv'
    BY StepIInv, StepLoweredWhenDry, StepVersionInv, StepFreshInv DEF PanelInv
  <1> QED
    BY <1>1, <1>2, PTL DEF Spec

\* A task does not find the flag of a Stop() that was meant for those before it, unless
\* Stop() saw the last of them and raised the flag after that one had lowered it.
THEOREM LoweredWhenDryHolds == Spec => []LoweredWhenDry
  <1>1. PanelInv => LoweredWhenDry
    BY DEF PanelInv
  <1> QED
    BY <1>1, PanelInvariant, PTL

\* Once nothing is under way, the panel shows what is in its directory, unless its last load,
\* a refresh or a change since is one of those FreshWhenSettled names.
THEOREM FreshWhenSettledHolds == Spec => []FreshWhenSettled
  <1>1. ASSUME PanelInv, Settled, ~missed
        PROVE  ~Stale
    <2>1. ToSet(mainQ) = {} /\ \A q \in Queues : DOMAIN tasks[q] = {} /\ worker[q] = "start"
      BY <1>1 DEF PanelInv, IInv, QueueInv, Settled, ToSet
    <2>2. \A p \in Places : ~Pending(p)
      BY <2>1 DEF Pending, InBlocks, InRefreshes, InFetched, InRecovery, Queues
    <2>3. m_Data.place \in Places
      BY <1>1 DEF PanelInv, IInv, TypeOK, Listings
    <2> QED
      BY <1>1, <2>2, <2>3 DEF PanelInv, FreshInv
  <1>2. PanelInv => FreshWhenSettled
    BY <1>1 DEF FreshWhenSettled, Stale
  <1> QED
    BY <1>2, PanelInvariant, PTL

=============================================================================
