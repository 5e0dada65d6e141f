------------------------------ MODULE MacCtrl ------------------------------
(***************************************************************************)
(* The controller of the MAC engine: the state machine of mac_fsm.sv and   *)
(* the wiring of mac_ctrl.sv, on top of the microcode processor.  The      *)
(* slave hands over one job at a time; the streamers are busy from         *)
(* req_start until they have moved their data.                             *)
(*                                                                         *)
(* The microcode is the hard-wired one, or comes from registers outside    *)
(* the contexts of jobs (UCODE_HARDWIRED = 0); the ranges of its loops are *)
(* part of each job.  Microprograms of several loops stand for engines     *)
(* that give the processor more than the one loop of the MAC engine.       *)
(*                                                                         *)
(* The length and the counter of the engine are not driven in this version *)
(* of the code, so the cycle in which they are equal is a free choice.     *)
(***************************************************************************)
EXTENDS HwpeUcode

CONSTANTS
    Params,       \* values of the job register MAC_REG_NB_ITER
    CodeYml       \* the loop of ucode/code.yml

VARIABLES
    fsm,          \* curr_state
    job,          \* computations asked for by the running job, -1 for no job
    ready,        \* ready_start of all streamers
    computations, \* history: computations launched for the job, as far as two
                  \* more than it asks for
    cut           \* history: an update of the job met busy streamers

mac == <<fsm, job, ready, computations, cut>>
allvars == <<vars, mac>>

(***************************************************************************)
(* mac_ctrl.sv: the microcode is hard wired, the range is NB_ITER + 1      *)
(***************************************************************************)
Hex(digits) == FlattenSeq([n \in 1..Len(digits) |-> Bits(digits[n], 4)])
HardwiredCode == Hex(<<8, 12, 13, 1, 1, 10, 1, 2, 12, 0, 5>>)
HardwiredLoops == Hex(<<0, 4>>)

\* Mutant: the range is the number of iterations.
RangeWithoutOne(param) == param % 2^CNT_WIDTH

Range12(param) == (param + 1) % 2^CNT_WIDTH
SourceOf(param) == [body |-> <<CodeYml>>, range |-> <<Range12(param)>>]
UcodeOf(param) == ucode_t(HardwiredCode, HardwiredLoops, <<Range12(param)>>)

\* The number of iterations of the loops of program s; a processor of one
\* loop is given one more than the job asks for.
Iterations(s) == FoldLeft(LAMBDA m, n : m * n, 1, s.range)
Asked(s) == IF Len(s.body) = 1 THEN s.range[1] - 1 ELSE Iterations(s)

Jobs == {[asked |-> p, source |-> SourceOf(p), ucode |-> UcodeOf(p)] : p \in Params}
        \cup {[asked |-> Asked(s), source |-> s, ucode |-> Decoded(s)] : s \in Sources}

\* NB_ITER has CNT_WIDTH bits, its limits included: more bits of the 32 in the
\* job register are not looked at.  The processor can run every program.
ASSUME JobsAssumption ==
    /\ Params \subseteq 0..(2^CNT_WIDTH - 1)
    /\ \A j \in Jobs : j.asked \in Nat /\ Fits(j.source, j.ucode)

\* A job has its own ranges and finds the bodies where they are.
Take(j) ==
    /\ j.source.body = source.body
    /\ job' = j.asked
    /\ source' = j.source
    /\ ucode' = j.ucode

(***************************************************************************)
(* mac_fsm.sv                                                              *)
(***************************************************************************)
\* Streamers may finish in any cycle; req_start makes them busy.
Streams(req_start) == ready' \in IF req_start THEN {FALSE} ELSE {ready, TRUE}
Launch ==
    /\ Streams(TRUE)
    /\ fsm' = "COMPUTE"
    /\ computations' = IF computations <= job + 1 THEN computations + 1 ELSE computations
NoLaunch(state) ==
    /\ Streams(FALSE)
    /\ fsm' = state
    /\ UNCHANGED computations

\* Mutant: the offsets of the last job are kept.
IdleKeepsOffsets ==
    /\ fsm = "IDLE"
    /\ Disabled
    /\ NoLaunch("IDLE") \/ NoLaunch("START")
    /\ IF fsm' = "START" THEN \E j \in Jobs : Take(j) ELSE UNCHANGED <<job, source, ucode>>
    /\ UNCHANGED cut

\* FSM_IDLE clears the microcode and waits for start of the slave.
Idle ==
    /\ fsm = "IDLE"
    /\ Reset
    /\ NoLaunch("IDLE") \/ NoLaunch("START")
    /\ IF fsm' = "START" THEN \E j \in Jobs : Take(j) ELSE UNCHANGED <<job, source, ucode>>
    /\ UNCHANGED cut

\* FSM_START and FSM_WAIT launch as soon as the streamers are ready.
StartOrWait ==
    /\ fsm \in {"START", "WAIT"}
    /\ Disabled
    /\ IF ready THEN Launch ELSE NoLaunch("WAIT")
    /\ UNCHANGED <<source, ucode, job, cut>>

MacCompute ==
    /\ fsm = "COMPUTE"
    /\ Disabled
    /\ NoLaunch("COMPUTE") \/ NoLaunch("UPDATEIDX")
    /\ UNCHANGED <<source, ucode, job, cut>>

\* FSM_UPDATEIDX: done ends the job; busy streamers end it as well.
Update ==
    /\ fsm = "UPDATEIDX"
    /\ \/ ~valid /\ Enabled /\ NoLaunch("UPDATEIDX") /\ UNCHANGED cut
       \/ valid /\ ~done /\ ready /\ Disabled /\ Launch /\ UNCHANGED cut
       \/ valid /\ (done \/ ~ready) /\ Disabled /\ NoLaunch("TERMINATE") /\ cut' = (cut \/ ~done)
    /\ UNCHANGED <<source, ucode, job>>

\* Mutant: the slave is told at once, the machine goes idle when it can.
FinishKeepsJob ==
    /\ fsm = "TERMINATE"
    /\ Disabled
    /\ Streams(FALSE)
    /\ job' = -1
    /\ fsm' = IF ready THEN "IDLE" ELSE fsm
    /\ computations' = 0
    /\ cut' = FALSE
    /\ UNCHANGED <<source, ucode>>

\* Mutant: the end of the job waits for valid once more.
FinishWithValid ==
    /\ fsm = "TERMINATE"
    /\ Disabled
    /\ Streams(FALSE)
    /\ IF ready /\ valid
       THEN fsm' = "IDLE" /\ job' = -1 /\ computations' = 0 /\ cut' = FALSE
       ELSE UNCHANGED <<fsm, job, computations, cut>>
    /\ UNCHANGED <<source, ucode>>

\* FSM_TERMINATE: when the streamers are ready done goes to the slave.
Finish ==
    /\ fsm = "TERMINATE"
    /\ Disabled
    /\ Streams(FALSE)
    /\ IF ready
       THEN fsm' = "IDLE" /\ job' = -1 /\ computations' = 0 /\ cut' = FALSE
       ELSE UNCHANGED <<fsm, job, computations, cut>>
    /\ UNCHANGED <<source, ucode>>

\* clear_o of the slave resets the microcode, the streamers and the machine.
SoftClear ==
    /\ Reset
    /\ fsm' = "IDLE"
    /\ job' = -1
    /\ ready' = TRUE
    /\ computations' = 0
    /\ cut' = FALSE
    /\ UNCHANGED <<source, ucode>>

MacInit ==
    /\ \E j \in Jobs : source = j.source /\ ucode = j.ucode
    /\ Cleared
    /\ fsm = "IDLE"
    /\ job = -1
    /\ ready = TRUE
    /\ computations = 0
    /\ cut = FALSE

MacNext == Idle \/ StartOrWait \/ MacCompute \/ Update \/ Finish \/ SoftClear

MacSpec == MacInit /\ [][MacNext]_allvars

\* The clock runs, and streamers finish, which is what they owe to the
\* controller.  Nothing is assumed of the engine's counter.
ClockRuns == StartOrWait \/ MacCompute \/ Update \/ Finish
StreamsFinish == ~ready /\ ClockRuns /\ ready'
FairMacSpec == MacSpec /\ WF_allvars(ClockRuns) /\ WF_allvars(StreamsFinish)

(***************************************************************************)
(* Properties                                                              *)
(***************************************************************************)
\* The controller and the registers of the processor keep their types and
\* widths, and the address stays inside the microprogram; a job is running
\* exactly when the machine is not idle.
TypeOK ==
    /\ fsm \in {"IDLE", "START", "WAIT", "COMPUTE", "UPDATEIDX", "TERMINATE"}
    /\ job \in Nat \cup {-1}
    /\ job = -1 <=> fsm = "IDLE"
    /\ addr \in DOMAIN ucode.code
    /\ loop \in Loops
    /\ op \in 0..7
    /\ idx \in [Loops -> 0..(2^CNT_WIDTH - 1)]
    /\ registers \in [0..(NB_REG - 1) -> 0..(2^REG_WIDTH - 1)]
    /\ computations \in Nat
    /\ {busy_sticky, done_sticky, valid, ready, cut} \subseteq BOOLEAN

\* The k-th computation of a job runs with the indices and the offsets of
\* iteration k - 1 of its nested loops, whatever jobs came before, however
\* they ended, and however long the streamers take.  A loop without an end
\* does so until its index wraps.
ComputesIteration ==
    fsm = "COMPUTE" /\ computations <= Total =>
        /\ idx = [l \in Loops |-> Index(computations - 1, l)]
        /\ registers = Offsets(computations - 1)

\* A job ends after as many computations as it asks for (NB_ITER, or the
\* iterations of several loops); only an update that finds the streamers busy
\* ends it with fewer.  An NB_ITER of 2^CNT_WIDTH - 1 leaves the loop without
\* an end: such a job never completes.
CutOrComplete ==
    fsm = "TERMINATE" =>
        IF cut THEN Limited => computations < job
        ELSE Limited /\ computations = job

\* What the comment in FSM_UPDATEIDX asks for ("should be FSM_WAIT"): a job
\* ends only when all its computations are done.
CompletesJob == fsm = "TERMINATE" => computations = job

\* An update needs a cycle in which the processor is busy, which only a body
\* of two instructions or more has, in a loop that runs it.  An NB_ITER of 0
\* makes a loop that never runs its body.
NeverValid == \A l \in Loops : source.range[l + 1] = 1 \/ Len(source.body[l + 1]) = 1

\* The controller does not hang: from every state it goes on to a computation
\* or to idle, if the streamers finish.  FSM_UPDATEIDX waits for valid alone,
\* so a job that never gets it stays there until the soft clear.
JobEnds ==
    /\ (fsm \notin {"IDLE", "COMPUTE"} /\ ~NeverValid) ~> fsm \in {"IDLE", "COMPUTE"}
    /\ [](NeverValid => fsm # "TERMINATE" /\ computations <= 1)
=============================================================================
