------------------------- MODULE OperationContract -------------------------
(***************************************************************************)
(* What an operation promises whoever observes it (ops::Pool, the views):  *)
(* it works at most once, it works on nothing after it reported how it     *)
(* ended, and it reports one outcome only: "Completion" when every item    *)
(* was processed, "Stop" when the run was cut short or never took place.   *)
(* Operation.tla, the model of Job.cpp and Operation.mm, implements it.    *)
(***************************************************************************)
EXTENDS Naturals

CONSTANT Items  \* the number of items the job has to process, at least one

VARIABLES
    phase,      \* "idle", then "working", then "ended"
    processed,  \* the number of items processed so far
    reported    \* the outcomes the observers were told of

vars == <<phase, processed, reported>>

Outcomes == {"Stop", "Completion"}

TypeOK ==
    /\ phase \in {"idle", "working", "ended"}
    /\ processed \in 0..Items
    /\ reported \subseteq Outcomes

Init ==
    /\ phase = "idle"
    /\ processed = 0
    /\ reported = {}

\* The job's thread starts; the operation may already be reported as stopped.
Begin ==
    /\ phase = "idle"
    /\ phase' = "working"
    /\ UNCHANGED <<processed, reported>>

ProcessItem ==
    /\ phase = "working"
    /\ reported = {}
    /\ processed < Items
    /\ processed' = processed + 1
    /\ UNCHANGED <<phase, reported>>

End ==
    /\ phase = "working"
    /\ phase' = "ended"
    /\ UNCHANGED <<processed, reported>>

\* A stop is reported once no more items will be processed.  The job may be at work then:
\* it was stopped before its thread started, and has not processed any item.
ReportStop ==
    /\ phase = "working" => processed = 0
    /\ reported \subseteq {"Stop"}
    /\ reported' = {"Stop"}
    /\ UNCHANGED <<phase, processed>>

ReportCompletion ==
    /\ phase = "ended"
    /\ processed = Items
    /\ reported \subseteq {"Completion"}
    /\ reported' = {"Completion"}
    /\ UNCHANGED <<phase, processed>>

Next == Begin \/ ProcessItem \/ End \/ ReportStop \/ ReportCompletion

Spec == Init /\ [][Next]_vars

=============================================================================
