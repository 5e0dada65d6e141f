---------------------------- MODULE HwpeJobQueue ----------------------------
(***************************************************************************)
(* What the control slave of a hardware processing engine promises to the  *)
(* cores: a lock for the offload procedure, a bounded first-in first-out   *)
(* queue of jobs, each started once with the parameters its core wrote,    *)
(* and one end-of-job event for each, sent to the core that offloaded it.  *)
(***************************************************************************)
EXTENDS Naturals, Sequences

CONSTANTS
    Cores,
    Values,     \* what a core may write to the job registers
    Capacity,   \* jobs the queue holds
    NoValue,    \* nothing written
    NoCore

VARIABLES
    queue,      \* jobs offloaded and not finished, oldest first
    holder,     \* the core that is offloading, or NoCore
    written,    \* what the holder wrote since it took the lock, or NoValue
    active,     \* the oldest job has been handed to the engine
    notified    \* the core that gets an end-of-job event in this cycle, or NoCore

vars == <<queue, holder, written, active, notified>>

Job == [core : Cores, params : Values]

Init ==
    /\ queue = <<>>
    /\ holder = NoCore
    /\ written = NoValue
    /\ active = FALSE
    /\ notified = NoCore

\* The engine's side of a cycle: the running job ends, or one is handed over.
JobEnds == active /\ queue # <<>>
Left(ends) == IF ends THEN Tail(queue) ELSE queue

Engine(ends) ==
    /\ ends => JobEnds
    /\ notified' = IF ends THEN queue[1].core ELSE NoCore
    /\ active' \in (IF ends THEN {FALSE} ELSE IF queue = <<>> THEN {active} ELSE {active, TRUE})

\* The cores' side: nothing, the lock is taken, its holder writes the job
\* registers, or it offloads a job.
Nothing(ends) ==
    /\ queue' = Left(ends)
    /\ UNCHANGED <<holder, written>>

Acquire(ends) ==
    /\ holder = NoCore
    /\ Len(queue) < Capacity
    /\ holder' \in Cores
    /\ written' = NoValue
    /\ queue' = Left(ends)

Write(ends) ==
    /\ holder # NoCore
    /\ written' \in Values
    /\ queue' = Left(ends)
    /\ UNCHANGED holder

\* A job that its core did not describe has the contents the registers had.
Offload(ends) ==
    /\ holder # NoCore
    /\ \E params \in (IF written = NoValue THEN Values ELSE {written}) :
          queue' = Append(Left(ends), [core |-> holder, params |-> params])
    /\ holder' = NoCore
    /\ written' = NoValue

Clear ==
    /\ queue' = <<>>
    /\ holder' = NoCore
    /\ written' = NoValue
    /\ active' = FALSE
    /\ notified' = NoCore

Cycle == \E ends \in BOOLEAN :
    /\ Engine(ends)
    /\ Nothing(ends) \/ Acquire(ends) \/ Write(ends) \/ Offload(ends)

Next == Cycle \/ Clear

Spec == Init /\ [][Next]_vars
=============================================================================
