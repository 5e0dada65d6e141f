---------------------------- MODULE HwpeCtrlSlave ----------------------------
(***************************************************************************)
(* hwpe_ctrl_slave.sv and hwpe_ctrl_regfile.sv of hwpe-ctrl: the registers *)
(* through which several cores offload jobs to one hardware engine.        *)
(*                                                                         *)
(* One step is one clock edge.  In a cycle at most one core uses the bus   *)
(* (a read of the test&set register, a write to the job registers, the     *)
(* trigger, the soft clear, a read of the finished-jobs counter) and the   *)
(* engine may assert done.  A cycle without a request still has an address *)
(* on the lines, which matters for one register: the finished-jobs counter *)
(* looks at no request.  Every register of the two modules takes its next  *)
(* value from an operator named after the process that assigns it.         *)
(*                                                                         *)
(* The cores follow the offload procedure: test&set, job registers only    *)
(* after a job identifier was returned, then the trigger.  The soft clear  *)
(* is used while no core offloads, and the bus is left alone until it is   *)
(* over.  Bit widths: a context index wraps at N_CONTEXT, the counter of   *)
(* pending contexts at 2 * N_CONTEXT, a job identifier at JobIds (256).    *)
(***************************************************************************)
EXTENDS Integers, Sequences, FiniteSets

CONSTANTS
    N_CONTEXT,  \* contexts: jobs that may be pending
    Cores,
    Values,     \* contents of the job registers of a context
    Zero,       \* contents after a clear
    NoValue,    \* nothing written
    NoCore,
    JobIds      \* number of job identifiers, 2^8 in the code

Contexts == 0..(N_CONTEXT - 1)

\* A status word has one byte for each context, four in all.
ASSUME ConstantsAssumption ==
    /\ N_CONTEXT \in {2, 4}
    /\ Zero \in Values
    /\ NoValue \notin Values
    /\ Cores # {}
    /\ NoCore \notin Cores
    /\ JobIds \in Nat
    /\ JobIds > N_CONTEXT

RESP_ANOTHER_PE_OFFLOADING == -2
RESP_ALL_CXT_BUSY == -1

VARIABLES
    \* hwpe_ctrl_slave
    offloading_core, pointer_context, running_context, counter_pending,
    running_state, start, is_working, is_critical, evt, s_clear, clear_o,
    \* hwpe_ctrl_regfile
    params,                 \* job registers of each context
    offload_job_id, offload_job_id_incr, running_job_id, running_job_id_incr,
    status,                 \* byte of each context in mandatory register 3
    r_finished_cnt, rdata, r_was_testset,
    \* the environment
    core,       \* "idle", "asked" (test&set on the bus) or "offloading"
    engine,     \* the engine is computing
    unreported, \* history: jobs ended since the address of the counter was
                \* last on the lines, at most 2
    written     \* history: what the core that offloads wrote, or NoValue

slave == <<offloading_core, pointer_context, running_context, counter_pending,
           running_state, start, is_working, is_critical, evt, s_clear, clear_o>>
regfile == <<params, offload_job_id, offload_job_id_incr, running_job_id,
             running_job_id_incr, status, r_finished_cnt, rdata, r_was_testset>>
vars == <<slave, regfile, core, engine, unreported, written>>

full_context == counter_pending = N_CONTEXT

\* A cycle: what the bus carries, for which core, and the engine's done.
\* op is "testset", "params", "trigger", "clear" or "finished"; without a
\* request it is "parked" when the lines hold the address of the
\* finished-jobs counter and "none" otherwise.
true_done(done) == done /\ is_working

(***************************************************************************)
(* hwpe_ctrl_slave                                                         *)
(***************************************************************************)
offloading_core_proc(op, c) ==
    offloading_core' = IF op = "trigger"
                       THEN [offloading_core EXCEPT ![pointer_context] = c]
                       ELSE offloading_core

pointer_context_proc(op) ==
    pointer_context' = IF clear_o THEN 0
                       ELSE IF op = "trigger" THEN (pointer_context + 1) % N_CONTEXT
                       ELSE pointer_context

done_counter_proc(done) ==
    running_context' = IF clear_o THEN 0
                       ELSE IF true_done(done) THEN (running_context + 1) % N_CONTEXT
                       ELSE running_context

\* Mutant: a trigger hides a done of the same cycle.
pending_counter_trigger_wins(op, done) ==
    counter_pending' = IF clear_o THEN 0
                       ELSE IF op = "trigger" THEN (counter_pending + 1) % (2 * N_CONTEXT)
                       ELSE IF true_done(done) THEN (counter_pending - 1) % (2 * N_CONTEXT)
                       ELSE counter_pending

pending_counter_proc(op, done) ==
    counter_pending' = IF clear_o THEN 0
                       ELSE IF op = "trigger" /\ ~true_done(done)
                            THEN (counter_pending + 1) % (2 * N_CONTEXT)
                       ELSE IF op # "trigger" /\ true_done(done)
                            THEN (counter_pending - 1) % (2 * N_CONTEXT)
                       ELSE counter_pending

\* Nothing to run: the idle state is kept.
NoContext == running_context = pointer_context /\ ~full_context

\* Mutant: start is not raised, as in the other branches.
fsm_running_without_start(done) ==
    LET next == CASE clear_o                    -> <<"idle", FALSE, FALSE>>
                  [] ~clear_o /\ running_state = "idle" ->
                        IF NoContext THEN <<"idle", FALSE, FALSE>> ELSE <<"starting", FALSE, TRUE>>
                  [] ~clear_o /\ running_state = "starting" -> <<"running", FALSE, TRUE>>
                  [] ~clear_o /\ running_state = "running" ->
                        IF true_done(done) THEN <<"idle", FALSE, FALSE>>
                        ELSE <<"running", FALSE, TRUE>>
    IN  running_state' = next[1] /\ start' = next[2] /\ is_working' = next[3]

fsm_running(done) ==
    LET next == CASE clear_o                    -> <<"idle", FALSE, FALSE>>
                  [] ~clear_o /\ running_state = "idle" ->
                        IF NoContext THEN <<"idle", FALSE, FALSE>> ELSE <<"starting", FALSE, TRUE>>
                  [] ~clear_o /\ running_state = "starting" -> <<"running", TRUE, TRUE>>
                  [] ~clear_o /\ running_state = "running" ->
                        IF true_done(done) THEN <<"idle", FALSE, FALSE>>
                        ELSE <<"running", FALSE, TRUE>>
    IN  running_state' = next[1] /\ start' = next[2] /\ is_working' = next[3]

\* is_critical mirrors context_state = trigger.
fsm_context(op) ==
    is_critical' = IF clear_o THEN FALSE
                   ELSE IF is_critical THEN op # "trigger"
                   ELSE op = "testset" /\ ~full_context

\* The end-of-job bit of one core; NoCore when no bit is set.
event_interrupt_proc(done) ==
    evt' = IF ~clear_o /\ true_done(done) THEN offloading_core[running_context] ELSE NoCore

soft_clear_proc(op) ==
    /\ s_clear' = IF s_clear = 0 /\ op = "clear" THEN 1
                  ELSE IF s_clear # 0 THEN (s_clear + 1) % 4
                  ELSE s_clear
    /\ clear_o' = (s_clear # 0)

(***************************************************************************)
(* hwpe_ctrl_regfile                                                       *)
(***************************************************************************)
\* Mutant: a write is lost while a job runs.
regfile_latch_when_idle(op, value) ==
    params' = IF clear_o THEN [x \in Contexts |-> Zero]
              ELSE IF op = "params" /\ ~is_working THEN [params EXCEPT ![pointer_context] = value]
              ELSE params

\* A write to a job register goes to the context of the pointer.
regfile_latch(op, value) ==
    params' = IF clear_o THEN [x \in Contexts |-> Zero]
              ELSE IF op = "params" THEN [params EXCEPT ![pointer_context] = value]
              ELSE params

\* Mutant: done counts even when the slave is not working.
job_id_any_done(done) ==
    /\ offload_job_id' = IF clear_o THEN 0
                         ELSE IF offload_job_id_incr THEN (offload_job_id + 1) % JobIds
                         ELSE offload_job_id
    /\ running_job_id_incr' = (~clear_o /\ done)
    /\ running_job_id' = IF clear_o THEN 0
                         ELSE IF running_job_id_incr THEN (running_job_id + 1) % JobIds
                         ELSE running_job_id

job_id_proc(done) ==
    /\ offload_job_id' = IF clear_o THEN 0
                         ELSE IF offload_job_id_incr THEN (offload_job_id + 1) % JobIds
                         ELSE offload_job_id
    /\ running_job_id_incr' = (~clear_o /\ true_done(done))
    /\ running_job_id' = IF clear_o THEN 0
                         ELSE IF running_job_id_incr THEN (running_job_id + 1) % JobIds
                         ELSE running_job_id

\* Mutant: the lock is not looked at.
ResponseWithoutLock == IF full_context THEN RESP_ALL_CXT_BUSY ELSE offload_job_id

Response == IF is_critical THEN RESP_ANOTHER_PE_OFFLOADING
            ELSE IF full_context THEN RESP_ALL_CXT_BUSY
            ELSE offload_job_id

data_r_rdata_o_proc(op) ==
    /\ rdata' = IF op = "testset" THEN Response ELSE rdata
    /\ offload_job_id_incr' = (op = "testset" /\ Response >= 0)
    /\ r_was_testset' = (~clear_o /\ op = "testset")

\* Mutant: a done clears the byte of the context of the pointer only.
write_mandatory_pointer_only(op, done) ==
    status' = [x \in Contexts |->
        IF clear_o THEN 0
        ELSE IF x = pointer_context /\ op = "trigger" THEN 1
        ELSE IF x = pointer_context /\ true_done(done) THEN 0
        ELSE status[x]]

write_mandatory_proc_byte(op, done) ==
    status' = [x \in Contexts |->
        IF clear_o THEN 0
        ELSE IF x = pointer_context /\ op = "trigger" THEN 1
        ELSE IF x = running_context /\ true_done(done) THEN 0
        ELSE status[x]]

\* Mutant: the counter uses its full width.
finished_counter_wide(op, done) ==
    r_finished_cnt' = IF clear_o THEN 0
                      ELSE IF op \in {"finished", "parked"} THEN 0
                      ELSE IF true_done(done) /\ r_finished_cnt < 3 THEN r_finished_cnt + 1
                      ELSE r_finished_cnt

\* Mutant: any done of the engine is counted.
finished_counter_any_done(op, done) ==
    r_finished_cnt' = IF clear_o THEN 0
                      ELSE IF op \in {"finished", "parked"} THEN 0
                      ELSE IF done /\ r_finished_cnt < 2 THEN r_finished_cnt + 1
                      ELSE r_finished_cnt

finished_counter(op, done) ==
    r_finished_cnt' = IF clear_o THEN 0
                      ELSE IF op \in {"finished", "parked"} THEN 0
                      ELSE IF true_done(done) /\ r_finished_cnt < 2 THEN r_finished_cnt + 1
                      ELSE r_finished_cnt

(***************************************************************************)
(* The clock edge, and what the cores and the engine do                    *)
(***************************************************************************)
Registers(op, c, value, done) ==
    /\ offloading_core_proc(op, c)
    /\ pointer_context_proc(op)
    /\ done_counter_proc(done)
    /\ pending_counter_proc(op, done)
    /\ fsm_running(done)
    /\ fsm_context(op)
    /\ event_interrupt_proc(done)
    /\ soft_clear_proc(op)
    /\ regfile_latch(op, value)
    /\ job_id_proc(done)
    /\ data_r_rdata_o_proc(op)
    /\ write_mandatory_proc_byte(op, done)
    /\ finished_counter(op, done)

\* The cycle after a test&set its core reads the response.
Granted(c) == core[c] = "asked" /\ r_was_testset /\ rdata >= 0
CoreAfterResponse(c) ==
    IF core[c] = "asked" THEN (IF Granted(c) THEN "offloading" ELSE "idle") ELSE core[c]
Responses == [c \in Cores |-> CoreAfterResponse(c)]

\* The engine computes from start to done.  It may raise done when it does
\* not compute and the slave is idle (the code mentions the first cycles
\* after reset); a clear stops it.
EngineMay(done) == done => engine \/ ~is_working
EngineStep(done) == engine' = (~clear_o /\ (start \/ (engine /\ ~done)))

\* A job that ends in the cycle of a read is not in the value it returns.
History(op, value, done) ==
    LET ended == IF true_done(done) THEN 1 ELSE 0
    IN  /\ unreported' = IF clear_o THEN 0
                         ELSE IF op \in {"finished", "parked"} THEN ended
                         ELSE IF unreported + ended > 2 THEN 2 ELSE unreported + ended
        /\ written' = IF clear_o \/ op = "trigger" THEN NoValue
                      ELSE IF op = "params" THEN value
                      ELSE written

Clock(op, c, value, done) ==
    /\ EngineMay(done)
    /\ Registers(op, c, value, done)
    /\ EngineStep(done)
    /\ History(op, value, done)

Clearing == s_clear # 0 \/ clear_o

NoRequest(done) ==
    /\ \E op \in {"none", "parked"}, c \in Cores : Clock(op, c, Zero, done)
    /\ core' = Responses

TestSet(c, done) ==
    /\ ~Clearing
    /\ core[c] = "idle"
    /\ Clock("testset", c, Zero, done)
    /\ core' = [Responses EXCEPT ![c] = "asked"]

WriteParams(c, done) ==
    /\ ~Clearing
    /\ core[c] = "offloading"
    /\ \E value \in Values : Clock("params", c, value, done)
    /\ core' = Responses

Trigger(c, done) ==
    /\ ~Clearing
    /\ core[c] = "offloading"
    /\ Clock("trigger", c, Zero, done)
    /\ core' = [Responses EXCEPT ![c] = "idle"]

SoftClear(c, done) ==
    /\ ~Clearing
    /\ \A d \in Cores : core[d] = "idle"
    /\ Clock("clear", c, Zero, done)
    /\ core' = Responses

\* The read that returns the counter; its address alone clears it.
ReadFinished(c, done) ==
    /\ ~Clearing
    /\ core[c] # "asked"
    /\ Clock("finished", c, Zero, done)
    /\ core' = Responses

Init ==
    /\ offloading_core \in [Contexts -> {CHOOSE c \in Cores : TRUE}]
    /\ pointer_context = 0
    /\ running_context = 0
    /\ counter_pending = 0
    /\ running_state = "idle"
    /\ start = FALSE
    /\ is_working = FALSE
    /\ is_critical = FALSE
    /\ evt = NoCore
    /\ s_clear = 0
    /\ clear_o = FALSE
    /\ params = [x \in Contexts |-> Zero]
    /\ offload_job_id = 0
    /\ offload_job_id_incr = FALSE
    /\ running_job_id = 0
    /\ running_job_id_incr = FALSE
    /\ status = [x \in Contexts |-> 0]
    /\ r_finished_cnt = 0
    /\ rdata = 0
    /\ r_was_testset = FALSE
    /\ core = [c \in Cores |-> "idle"]
    /\ engine = FALSE
    /\ unreported = 0
    /\ written = NoValue

Request(done) == \E c \in Cores :
    \/ TestSet(c, done) \/ WriteParams(c, done) \/ Trigger(c, done)
    \/ SoftClear(c, done) \/ ReadFinished(c, done)

Cycle(done) == NoRequest(done) \/ Request(done)

Next == \E done \in BOOLEAN : Cycle(done)

Spec == Init /\ [][Next]_vars

\* The clock runs, and an engine that computes ends its job.
EngineEnds == engine /\ Cycle(TRUE)
FairSpec == Spec /\ WF_vars(Next) /\ WF_vars(EngineEnds)

(***************************************************************************)
(* Properties                                                              *)
(***************************************************************************)
\* Registers keep the widths of their declarations.
TypeOK ==
    /\ offloading_core \in [Contexts -> Cores]
    /\ pointer_context \in Contexts
    /\ running_context \in Contexts
    /\ counter_pending \in 0..(2 * N_CONTEXT - 1)
    /\ running_state \in {"idle", "starting", "running"}
    /\ start \in BOOLEAN
    /\ is_working \in BOOLEAN
    /\ is_critical \in BOOLEAN
    /\ evt \in Cores \cup {NoCore}
    /\ s_clear \in 0..3
    /\ clear_o \in BOOLEAN
    /\ params \in [Contexts -> Values]
    /\ offload_job_id \in 0..(JobIds - 1)
    /\ offload_job_id_incr \in BOOLEAN
    /\ running_job_id \in 0..(JobIds - 1)
    /\ running_job_id_incr \in BOOLEAN
    /\ status \in [Contexts -> {0, 1}]
    /\ r_finished_cnt \in 0..2
    /\ rdata \in -2..(JobIds - 1)
    /\ r_was_testset \in BOOLEAN
    /\ core \in [Cores -> {"idle", "asked", "offloading"}]
    /\ engine \in BOOLEAN
    /\ unreported \in 0..2
    /\ written \in Values \cup {NoValue}

Holds(c) == core[c] = "offloading" \/ Granted(c)

\* The test&set is a lock: from the answer with a job identifier to the
\* trigger no other core gets one, and is_critical is up exactly then.
OffloadIsExclusive ==
    /\ \A c, d \in Cores : Holds(c) /\ Holds(d) => c = d
    /\ is_critical <=> \E c \in Cores : Holds(c)

\* The contexts never overflow although no trigger is refused: the pointer
\* is ahead of the running context by the number of pending jobs, which is
\* at most N_CONTEXT, and a core holds the lock only while one is free.
PendingWithinContexts ==
    /\ counter_pending <= N_CONTEXT
    /\ pointer_context = (running_context + counter_pending) % N_CONTEXT
    /\ is_critical => ~full_context

\* The status register, read by software, marks exactly the pending contexts.
StatusMarksPending ==
    \A x \in Contexts :
        status[x] = 1 <=> \E i \in 0..(counter_pending - 1) :
                              x = (running_context + i) % N_CONTEXT

Up(b) == IF b THEN 1 ELSE 0

\* The identifier handed out next is ahead of the one of the running job by
\* the jobs pending and the one being offloaded: identifiers name one job
\* each, also where they wrap.
JobIdsNameJobs ==
    ~Clearing =>
        (offload_job_id + Up(offload_job_id_incr)) % JobIds =
        (running_job_id + Up(running_job_id_incr) + counter_pending + Up(is_critical)) % JobIds

\* Every job ends, or is cleared: no context stays pending forever.
JobsEnd == \A x \in Contexts : status[x] = 1 ~> status[x] = 0

\* The slave implements the queue of jobs of HwpeJobQueue: the pending
\* contexts from the running one on are its queue, and a job enters it with
\* the core that offloads and the parameters that core wrote.
PendingJob(i) ==
    LET x == (running_context + i - 1) % N_CONTEXT
    IN  [core |-> offloading_core[x], params |-> params[x]]
HolderCore == IF \E c \in Cores : Holds(c) THEN CHOOSE c \in Cores : Holds(c) ELSE NoCore

JobQueue == INSTANCE HwpeJobQueue WITH
    Capacity <- N_CONTEXT,
    queue <- [i \in 1..counter_pending |-> PendingJob(i)],
    holder <- HolderCore,
    active <- (running_state = "running"),
    notified <- evt
ImplementsJobQueue == JobQueue!Spec

\* The finished-jobs counter counts from the last cycle in which its address
\* was on the lines: it never exceeds the jobs that ended since (up to its
\* limit of two), and misses at most one of them, the job that ended in that
\* very cycle.  The address clears the counter without a request, so this is
\* all that software may rely on: an address left on the lines between two
\* reads loses every job that ended before the last such cycle.
FinishedCounterMissesOne ==
    r_finished_cnt <= unreported /\ unreported <= r_finished_cnt + 1
=============================================================================
