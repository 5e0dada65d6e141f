------------------------ MODULE HwpeCtrlSlave_proofs ------------------------
(***************************************************************************)
(* The control slave, for two and four contexts, any number of cores, any  *)
(* contents of the job registers and any number of job identifiers.        *)
(***************************************************************************)
EXTENDS HwpeCtrlSlave, SequenceTheorems, TLAPS

(***************************************************************************)
(* Arithmetic                                                              *)
(***************************************************************************)

\* A wrapping register stays within its width.
LEMMA ModInRange ==
    ASSUME NEW m \in Nat \ {0}, NEW x \in Int PROVE x % m \in 0..(m - 1)
BY SMT

\* Below twice the modulus, wrapping subtracts the modulus at most once.
LEMMA ModOnce ==
    ASSUME NEW m \in Nat \ {0}, NEW x \in 0..(2 * m - 1)
    PROVE  x % m = IF x < m THEN x ELSE x - m
BY SMT

\* The widths of the code's registers are at least one.
LEMMA Widths ==
    /\ N_CONTEXT \in Nat \ {0} /\ 2 * N_CONTEXT \in Nat \ {0}
    /\ JobIds \in Nat \ {0}
    /\ Contexts \subseteq Int /\ 0 \in Contexts
    /\ \A x \in Int : x % N_CONTEXT \in Contexts
<1>1. N_CONTEXT \in Nat \ {0} /\ 2 * N_CONTEXT \in Nat \ {0} /\ JobIds \in Nat \ {0}
    BY ConstantsAssumption
<1>2. Contexts \subseteq Int /\ 0 \in Contexts
    BY <1>1 DEF Contexts
<1>3. \A x \in Int : x % N_CONTEXT \in Contexts
    BY <1>1, ModInRange DEF Contexts
<1> QED
    BY <1>1, <1>2, <1>3

(***************************************************************************)
(* A clock edge, whatever is on the bus                                    *)
(***************************************************************************)
Ops == {"none", "parked", "testset", "params", "trigger", "clear", "finished"}

Tick(op, c, value, done) ==
    /\ op \notin {"none", "parked"} => ~Clearing
    /\ op = "testset" => core[c] = "idle"
    /\ op \in {"params", "trigger"} => core[c] = "offloading"
    /\ op = "clear" => \A d \in Cores : core[d] = "idle"
    /\ Clock(op, c, value, done)
    /\ core' = CASE op = "testset" -> [Responses EXCEPT ![c] = "asked"]
                 [] op = "trigger" -> [Responses EXCEPT ![c] = "idle"]
                 [] OTHER          -> Responses

\* Every step of the specification is a clock edge with one operation of one
\* core on the bus, or none.
LEMMA NextIsTick ==
    ASSUME Next
    PROVE  \E op \in Ops, c \in Cores, value \in Values, done \in BOOLEAN :
              Tick(op, c, value, done)
<1>1. Zero \in Values
    BY ConstantsAssumption
<1>2. PICK done \in BOOLEAN : Cycle(done)
    BY DEF Next
<1>3. CASE NoRequest(done)
  <2>1. PICK op \in {"none", "parked"}, c \in Cores : Clock(op, c, Zero, done)
      BY <1>3 DEF NoRequest
  <2>2. Tick(op, c, Zero, done)
      BY <1>3, <2>1 DEF NoRequest, Tick
  <2> QED
      BY <1>1, <2>2 DEF Ops
<1>4. CASE Request(done)
  <2>1. PICK c \in Cores : \/ TestSet(c, done) \/ WriteParams(c, done) \/ Trigger(c, done)
                           \/ SoftClear(c, done) \/ ReadFinished(c, done)
      BY <1>4 DEF Request
  <2>2. CASE TestSet(c, done)
    <3>1. Tick("testset", c, Zero, done)
        BY <2>2 DEF TestSet, Tick
    <3> QED
        BY <1>1, <3>1 DEF Ops
  <2>3. CASE WriteParams(c, done)
    <3>1. PICK value \in Values : Clock("params", c, value, done)
        BY <2>3 DEF WriteParams
    <3>2. Tick("params", c, value, done)
        BY <2>3, <3>1 DEF WriteParams, Tick
    <3> QED
        BY <3>2 DEF Ops
  <2>4. CASE Trigger(c, done)
    <3>1. Tick("trigger", c, Zero, done)
        BY <2>4 DEF Trigger, Tick
    <3> QED
        BY <1>1, <3>1 DEF Ops
  <2>5. CASE SoftClear(c, done)
    <3>1. Tick("clear", c, Zero, done)
        BY <2>5 DEF SoftClear, Tick
    <3> QED
        BY <1>1, <3>1 DEF Ops
  <2>6. CASE ReadFinished(c, done)
    <3>1. Tick("finished", c, Zero, done)
        BY <2>6 DEF ReadFinished, Tick
    <3> QED
        BY <1>1, <3>1 DEF Ops
  <2> QED
      BY <2>1, <2>2, <2>3, <2>4, <2>5, <2>6
<1> QED
    BY <1>2, <1>3, <1>4 DEF Cycle

(***************************************************************************)
(* Types                                                                   *)
(***************************************************************************)

\* The state after reset has its type.
LEMMA InitTypeOK == Init => TypeOK
<1> SUFFICES ASSUME Init PROVE TypeOK
    OBVIOUS
<1> USE ConstantsAssumption DEF Init
<1>1. (CHOOSE c \in Cores : TRUE) \in Cores
    OBVIOUS
<1>2. offloading_core \in [Contexts -> Cores]
    BY <1>1
<1>3. /\ pointer_context \in Contexts /\ running_context \in Contexts
      /\ counter_pending \in 0..(2 * N_CONTEXT - 1)
      /\ offload_job_id \in 0..(JobIds - 1) /\ running_job_id \in 0..(JobIds - 1)
      /\ rdata \in -2..(JobIds - 1)
    BY DEF Contexts
<1>4. /\ params \in [Contexts -> Values] /\ status \in [Contexts -> {0, 1}]
      /\ core \in [Cores -> {"idle", "asked", "offloading"}]
    OBVIOUS
<1>5. /\ running_state \in {"idle", "starting", "running"} /\ evt \in Cores \cup {NoCore}
      /\ s_clear \in 0..3 /\ r_finished_cnt \in 0..2 /\ unreported \in 0..2
      /\ written \in Values \cup {NoValue}
    OBVIOUS
<1>6. /\ start \in BOOLEAN /\ is_working \in BOOLEAN /\ is_critical \in BOOLEAN
      /\ clear_o \in BOOLEAN /\ offload_job_id_incr \in BOOLEAN
      /\ running_job_id_incr \in BOOLEAN /\ r_was_testset \in BOOLEAN /\ engine \in BOOLEAN
    OBVIOUS
<1> QED
    BY <1>2, <1>3, <1>4, <1>5, <1>6 DEF TypeOK

\* The state machine of the running job, one case for each of its states.
LEMMA FsmRunning ==
    ASSUME NEW done \in BOOLEAN, fsm_running(done),
           running_state \in {"idle", "starting", "running"}, clear_o \in BOOLEAN
    PROVE  \/ /\ \/ clear_o
                 \/ running_state = "idle" /\ NoContext
                 \/ running_state = "running" /\ true_done(done)
              /\ running_state' = "idle" /\ start' = FALSE /\ is_working' = FALSE
           \/ /\ ~clear_o /\ running_state = "idle" /\ ~NoContext
              /\ running_state' = "starting" /\ start' = FALSE /\ is_working' = TRUE
           \/ /\ ~clear_o /\ running_state = "starting"
              /\ running_state' = "running" /\ start' = TRUE /\ is_working' = TRUE
           \/ /\ ~clear_o /\ running_state = "running" /\ ~true_done(done)
              /\ running_state' = "running" /\ start' = FALSE /\ is_working' = TRUE
<1>1. CASE clear_o
    BY <1>1 DEF fsm_running
<1>2. CASE ~clear_o /\ running_state = "idle"
    BY <1>2 DEF fsm_running
<1>3. CASE ~clear_o /\ running_state = "starting"
    BY <1>3 DEF fsm_running
<1>4. CASE ~clear_o /\ running_state = "running"
    BY <1>4 DEF fsm_running
<1> QED
    BY <1>1, <1>2, <1>3, <1>4

\* A clock edge keeps the type of every register.
LEMMA TickTypeOK ==
    ASSUME TypeOK, NEW op \in Ops, NEW c \in Cores, NEW value \in Values,
           NEW done \in BOOLEAN, Tick(op, c, value, done)
    PROVE  TypeOK'
<1> USE DEF TypeOK
<1>c. Clock(op, c, value, done) /\ Registers(op, c, value, done)
    BY DEF Tick, Clock
<1>n. /\ N_CONTEXT \in Nat \ {0} /\ 2 * N_CONTEXT \in Nat \ {0}
      /\ JobIds \in Nat \ {0}
      /\ Contexts \subseteq Int /\ 0 \in Contexts
      /\ \A x \in Int : x % N_CONTEXT \in Contexts
    BY Widths
<1>1. offloading_core' \in [Contexts -> Cores]
    BY <1>c DEF Registers, offloading_core_proc
<1>2. pointer_context' \in Contexts
    BY <1>c, <1>n DEF Registers, pointer_context_proc
<1>3. running_context' \in Contexts
    BY <1>c, <1>n DEF Registers, done_counter_proc
<1>4. counter_pending' \in 0..(2 * N_CONTEXT - 1)
  <2>1. (counter_pending + 1) % (2 * N_CONTEXT) \in 0..(2 * N_CONTEXT - 1)
      BY <1>n, ModInRange
  <2>2. (counter_pending - 1) % (2 * N_CONTEXT) \in 0..(2 * N_CONTEXT - 1)
      BY <1>n, ModInRange
  <2>3. pending_counter_proc(op, done)
      BY <1>c DEF Registers
  <2> QED
      BY <1>n, <2>1, <2>2, <2>3 DEF pending_counter_proc
<1>5. /\ running_state' \in {"idle", "starting", "running"}
      /\ start' \in BOOLEAN
      /\ is_working' \in BOOLEAN
  <2>1. fsm_running(done)
      BY <1>c DEF Registers
  <2> QED
      BY <2>1, FsmRunning
<1>6. is_critical' \in BOOLEAN
  <2>1. fsm_context(op)
      BY <1>c DEF Registers
  <2> QED
      BY <2>1 DEF fsm_context
<1>7. evt' \in Cores \cup {NoCore}
    BY <1>c DEF Registers, event_interrupt_proc
<1>8. s_clear' \in 0..3 /\ clear_o' \in BOOLEAN
    BY <1>c DEF Registers, soft_clear_proc
<1>9. params' \in [Contexts -> Values]
    BY <1>c, ConstantsAssumption DEF Registers, regfile_latch
<1>10. /\ offload_job_id' \in 0..(JobIds - 1)
       /\ running_job_id' \in 0..(JobIds - 1)
       /\ running_job_id_incr' \in BOOLEAN
  <2>1. (offload_job_id + 1) % JobIds \in 0..(JobIds - 1)
      BY <1>n, ModInRange
  <2>2. (running_job_id + 1) % JobIds \in 0..(JobIds - 1)
      BY <1>n, ModInRange
  <2>3. job_id_proc(done)
      BY <1>c DEF Registers
  <2> QED
      BY <1>n, <2>1, <2>2, <2>3 DEF job_id_proc
<1>11. /\ rdata' \in -2..(JobIds - 1)
       /\ offload_job_id_incr' \in BOOLEAN
       /\ r_was_testset' \in BOOLEAN
  <2>1. Response \in -2..(JobIds - 1)
      BY <1>n DEF Response, RESP_ANOTHER_PE_OFFLOADING, RESP_ALL_CXT_BUSY
  <2>2. data_r_rdata_o_proc(op)
      BY <1>c DEF Registers
  <2> QED
      BY <2>1, <2>2 DEF data_r_rdata_o_proc
<1>12. status' \in [Contexts -> {0, 1}]
    BY <1>c DEF Registers, write_mandatory_proc_byte
<1>13. r_finished_cnt' \in 0..2
    BY <1>c DEF Registers, finished_counter
<1>14. engine' \in BOOLEAN
    BY <1>c DEF Clock, EngineStep
<1>15. unreported' \in 0..2 /\ written' \in Values \cup {NoValue}
    BY <1>c DEF Clock, History
<1>16. core' \in [Cores -> {"idle", "asked", "offloading"}]
  <2>1. Responses \in [Cores -> {"idle", "asked", "offloading"}]
      BY DEF Responses, CoreAfterResponse
  <2> QED
      BY <2>1 DEF Tick
<1> QED
    BY <1>1, <1>2, <1>3, <1>4, <1>5, <1>6, <1>7, <1>8, <1>9, <1>10, <1>11, <1>12,
       <1>13, <1>14, <1>15, <1>16

\* Registers keep the widths of their declarations.
THEOREM TypeCorrect == Spec => []TypeOK
<1>1. TypeOK /\ [Next]_vars => TypeOK'
  <2> SUFFICES ASSUME TypeOK, [Next]_vars PROVE TypeOK'
      OBVIOUS
  <2>1. CASE Next
      BY <2>1, NextIsTick, TickTypeOK
  <2>2. CASE UNCHANGED vars
      BY <2>2 DEF vars, slave, regfile, TypeOK
  <2> QED
      BY <2>1, <2>2
<1> QED
    BY InitTypeOK, <1>1, PTL DEF Spec

(***************************************************************************)
(* The test&set lock                                                       *)
(***************************************************************************)

\* A core waits one cycle for its response, alone, and no core is in the
\* offload procedure while the soft clear lasts.
Bus ==
    /\ \A c, d \in Cores : core[c] = "asked" /\ core[d] = "asked" => c = d
    /\ \A c \in Cores : core[c] = "asked" => r_was_testset
    /\ Clearing => \A c \in Cores : core[c] = "idle"

\* A clock edge takes every core that asked to its answer.
LEMMA TickBus ==
    ASSUME TypeOK, Bus, NEW op \in Ops, NEW c \in Cores, NEW value \in Values,
           NEW done \in BOOLEAN, Tick(op, c, value, done)
    PROVE  Bus'
<1>1. /\ soft_clear_proc(op) /\ data_r_rdata_o_proc(op)
    BY DEF Tick, Clock, Registers
<1>2. \A d \in Cores : CoreAfterResponse(d) # "asked"
    BY DEF CoreAfterResponse
<1>3. /\ op = "testset" => core' = [Responses EXCEPT ![c] = "asked"]
      /\ op = "trigger" => core' = [Responses EXCEPT ![c] = "idle"]
      /\ op \notin {"testset", "trigger"} => core' = Responses
    BY DEF Tick
<1>4. \A d \in Cores : core'[d] = "asked" => op = "testset" /\ d = c
  <2> SUFFICES ASSUME NEW d \in Cores, core'[d] = "asked" PROVE op = "testset" /\ d = c
      OBVIOUS
  <2> QED
      BY <1>2, <1>3 DEF Responses
<1>5. op = "testset" => r_was_testset'
  <2>1. op = "testset" => ~clear_o
      BY DEF Tick, Clearing
  <2> QED
      BY <1>1, <2>1 DEF data_r_rdata_o_proc
<1>6. ASSUME Clearing' PROVE \A d \in Cores : core'[d] = "idle"
  <2>1. Clearing \/ op = "clear"
      BY <1>1, <1>6 DEF soft_clear_proc, Clearing, TypeOK
  <2>2. op \notin {"testset", "trigger"}
      BY <2>1 DEF Tick
  <2>3. \A d \in Cores : core[d] = "idle"
      BY <2>1 DEF Tick, Bus
  <2> QED
      BY <1>3, <2>2, <2>3 DEF Responses, CoreAfterResponse
<1> QED
    BY <1>4, <1>5, <1>6 DEF Bus

\* What a clock edge does to the holders of the lock.
LEMMA TickHolders ==
    ASSUME TypeOK, Bus, NEW op \in Ops, NEW c \in Cores, NEW value \in Values,
           NEW done \in BOOLEAN, Tick(op, c, value, done), NEW d \in Cores
    PROVE  /\ op \notin {"testset", "trigger"} => (Holds(d)' <=> Holds(d))
           /\ op = "trigger" => (Holds(d)' <=> Holds(d) /\ d # c)
           /\ op = "testset" => (Holds(d)' <=> Holds(d) \/ (d = c /\ Response >= 0))
<1>1. data_r_rdata_o_proc(op)
    BY DEF Tick, Clock, Registers
<1>2. /\ op = "testset" => core' = [Responses EXCEPT ![c] = "asked"]
      /\ op = "trigger" => core' = [Responses EXCEPT ![c] = "idle"]
      /\ op \notin {"testset", "trigger"} => core' = Responses
    BY DEF Tick
<1>3. /\ Responses[d] = "offloading" <=> Holds(d)
      /\ Responses[d] # "asked"
    BY DEF Responses, CoreAfterResponse, Holds, Granted
<1>4. DOMAIN Responses = Cores
    BY DEF Responses
<1>5. CASE op = "testset"
  <2>1. CASE d = c
    <3>1. core[c] = "idle" /\ ~clear_o
        BY <1>5 DEF Tick, Clearing
    <3>2. core'[d] = "asked" /\ r_was_testset' /\ rdata' = Response
        BY <1>1, <1>2, <1>4, <1>5, <2>1, <3>1 DEF data_r_rdata_o_proc
    <3>3. ~Holds(d)
        BY <2>1, <3>1 DEF Holds, Granted
    <3> QED
        BY <1>5, <2>1, <3>2, <3>3 DEF Holds, Granted
  <2>2. CASE d # c
    <3>1. core'[d] = Responses[d]
        BY <1>2, <1>4, <1>5, <2>2
    <3> QED
        BY <1>3, <1>5, <2>2, <3>1 DEF Holds, Granted
  <2> QED
      BY <2>1, <2>2
<1>6. CASE op = "trigger"
  <2>1. core'[d] = IF d = c THEN "idle" ELSE Responses[d]
      BY <1>2, <1>4, <1>6
  <2> QED
      BY <1>3, <1>6, <2>1 DEF Holds, Granted
<1>7. CASE op \notin {"testset", "trigger"}
  <2>1. core'[d] = Responses[d]
      BY <1>2, <1>7
  <2> QED
      BY <1>3, <1>7, <2>1 DEF Holds, Granted
<1> QED
    BY <1>5, <1>6, <1>7

\* A job identifier is returned when the lock is free and a context is.
LEMMA GrantedWhenFree ==
    ASSUME TypeOK PROVE Response >= 0 <=> ~is_critical /\ ~full_context
BY ConstantsAssumption DEF Response, TypeOK, RESP_ANOTHER_PE_OFFLOADING, RESP_ALL_CXT_BUSY

\* The lock is kept by a clock edge: a response with a job identifier is
\* given only when no core holds it.
LEMMA TickExclusive ==
    ASSUME TypeOK, Bus, OffloadIsExclusive,
           NEW op \in Ops, NEW c \in Cores, NEW value \in Values,
           NEW done \in BOOLEAN, Tick(op, c, value, done)
    PROVE  OffloadIsExclusive'
<1>1. fsm_context(op)
    BY DEF Tick, Clock, Registers
<1>2. clear_o => \A d \in Cores : ~Holds(d)
    BY DEF Bus, Clearing, Holds, Granted
<1>3. is_critical <=> \E d \in Cores : Holds(d)
    BY DEF OffloadIsExclusive
<1>4. CASE op = "testset"
  <2>1. ~clear_o
      BY <1>4 DEF Tick, Clearing
  <2>2. Response >= 0 <=> ~is_critical /\ ~full_context
      BY GrantedWhenFree
  <2>3. is_critical' <=> is_critical \/ ~full_context
      BY <1>1, <1>4, <2>1 DEF fsm_context, TypeOK
  <2>4. \A d \in Cores : Holds(d)' <=> Holds(d) \/ (d = c /\ ~is_critical /\ ~full_context)
      BY <1>4, <2>2, TickHolders
  <2> QED
      BY <1>3, <2>3, <2>4 DEF OffloadIsExclusive
<1>5. CASE op = "trigger"
  <2>1. ~clear_o /\ core[c] = "offloading"
      BY <1>5 DEF Tick, Clearing
  <2>2. Holds(c)
      BY <2>1 DEF Holds
  <2>3. \A d \in Cores : ~Holds(d)'
      BY <1>5, <2>2, TickHolders DEF OffloadIsExclusive
  <2>4. ~is_critical'
      BY <1>1, <1>3, <1>5, <2>2 DEF fsm_context
  <2> QED
      BY <2>3, <2>4 DEF OffloadIsExclusive
<1>6. CASE op \notin {"testset", "trigger"}
  <2>1. \A d \in Cores : Holds(d)' <=> Holds(d)
      BY <1>6, TickHolders
  <2>2. is_critical' <=> is_critical
      BY <1>1, <1>2, <1>3, <1>6 DEF fsm_context, TypeOK
  <2> QED
      BY <1>3, <2>1, <2>2 DEF OffloadIsExclusive
<1> QED
    BY <1>4, <1>5, <1>6

(***************************************************************************)
(* The contexts                                                            *)
(***************************************************************************)

\* The slave works on a pending context or not at all, and the engine computes
\* from the cycle after start.
Working ==
    /\ is_working <=> running_state # "idle"
    /\ engine \/ start => running_state = "running"
    /\ ~(engine /\ start)
    /\ is_working => counter_pending > 0

\* What holds of the lock and the contexts together before a clock edge.
ContextInv == TypeOK /\ Bus /\ OffloadIsExclusive /\ PendingWithinContexts /\ Working

\* Only a core that holds the lock triggers, and a job ends only when one is
\* pending: the counter of pending contexts does not wrap.
LEMMA TickCount ==
    ASSUME ContextInv, NEW op \in Ops, NEW c \in Cores, NEW value \in Values,
           NEW done \in BOOLEAN, Tick(op, c, value, done)
    PROVE  /\ op = "trigger" => is_critical /\ ~clear_o
           /\ counter_pending' = IF clear_o THEN 0
                                 ELSE counter_pending + Up(op = "trigger") - Up(true_done(done))
           /\ counter_pending' \in 0..N_CONTEXT
<1> USE DEF ContextInv
<1>1. op = "trigger" => is_critical /\ ~clear_o
  <2> SUFFICES ASSUME op = "trigger" PROVE is_critical /\ ~clear_o
      OBVIOUS
  <2>1. core[c] = "offloading" /\ ~Clearing
      BY DEF Tick
  <2> QED
      BY <2>1 DEF Holds, OffloadIsExclusive, Clearing
<1>2. /\ op = "trigger" => counter_pending < N_CONTEXT
      /\ true_done(done) => counter_pending > 0
      /\ counter_pending \in 0..N_CONTEXT
    BY <1>1, ConstantsAssumption
    DEF PendingWithinContexts, full_context, Working, true_done, TypeOK
<1>3. pending_counter_proc(op, done)
    BY DEF Tick, Clock, Registers
<1>4. /\ op = "trigger" => (counter_pending + 1) % (2 * N_CONTEXT) = counter_pending + 1
      /\ true_done(done) => (counter_pending - 1) % (2 * N_CONTEXT) = counter_pending - 1
  <2>1. 2 * N_CONTEXT \in Nat \ {0}
      BY Widths
  <2>2. op = "trigger" => (counter_pending + 1) % (2 * N_CONTEXT) = counter_pending + 1
    <3> HAVE op = "trigger"
    <3>1. counter_pending + 1 \in 0..(2 * (2 * N_CONTEXT) - 1) /\ counter_pending + 1 < 2 * N_CONTEXT
        BY <1>2, ConstantsAssumption
    <3> QED
        BY <2>1, <3>1, ModOnce
  <2>3. true_done(done) => (counter_pending - 1) % (2 * N_CONTEXT) = counter_pending - 1
    <3> HAVE true_done(done)
    <3>1. counter_pending - 1 \in 0..(2 * (2 * N_CONTEXT) - 1) /\ counter_pending - 1 < 2 * N_CONTEXT
        BY <1>2, ConstantsAssumption
    <3> QED
        BY <2>1, <3>1, ModOnce
  <2> QED
      BY <2>2, <2>3
<1>5. counter_pending' = IF clear_o THEN 0
                         ELSE counter_pending + Up(op = "trigger") - Up(true_done(done))
    BY <1>2, <1>3, <1>4 DEF pending_counter_proc, Up
<1>6. counter_pending' \in 0..N_CONTEXT
    BY <1>2, <1>5, ConstantsAssumption DEF Up
<1> QED
    BY <1>1, <1>5, <1>6

\* The distance from the running context to the pointer is the number of
\* pending jobs, modulo the number of contexts, after a trigger and a done too.
LEMMA Distance ==
    ASSUME NEW p \in Contexts, NEW r \in Contexts, NEW n \in 0..N_CONTEXT,
           p = (r + n) % N_CONTEXT, NEW t \in {0, 1}, NEW e \in {0, 1}
    PROVE  (IF t = 1 THEN (p + 1) % N_CONTEXT ELSE p) =
           ((IF e = 1 THEN (r + 1) % N_CONTEXT ELSE r) + (n + t - e)) % N_CONTEXT
<1>1. CASE N_CONTEXT = 2
    BY <1>1 DEF Contexts
<1>2. CASE N_CONTEXT = 4
    BY <1>2 DEF Contexts
<1> QED
    BY <1>1, <1>2, ConstantsAssumption

\* The pointer of the contexts and the counter of the pending ones agree after
\* a clock edge, with a trigger, with a done, with both and with neither.
LEMMA TickPending ==
    ASSUME ContextInv, NEW op \in Ops, NEW c \in Cores, NEW value \in Values,
           NEW done \in BOOLEAN, Tick(op, c, value, done)
    PROVE  PendingWithinContexts'
<1> USE DEF ContextInv
<1>1. /\ pointer_context_proc(op) /\ done_counter_proc(done) /\ fsm_context(op)
    BY DEF Tick, Clock, Registers
<1>2. counter_pending' \in 0..N_CONTEXT
    BY TickCount
<1>3. pointer_context' = (running_context' + counter_pending') % N_CONTEXT
  <2>1. CASE clear_o
    <3>1. pointer_context' = 0 /\ running_context' = 0 /\ counter_pending' = 0
        BY <1>1, <2>1, TickCount DEF pointer_context_proc, done_counter_proc
    <3>2. (0 + 0) % N_CONTEXT = 0
        BY ConstantsAssumption
    <3> QED
        BY <3>1, <3>2
  <2>2. CASE ~clear_o
    <3> DEFINE t == Up(op = "trigger")
               e == Up(true_done(done))
    <3>1. t \in {0, 1} /\ e \in {0, 1}
        BY DEF Up
    <3>2. /\ pointer_context' = IF t = 1 THEN (pointer_context + 1) % N_CONTEXT ELSE pointer_context
          /\ running_context' = IF e = 1 THEN (running_context + 1) % N_CONTEXT ELSE running_context
        BY <1>1, <2>2 DEF pointer_context_proc, done_counter_proc, Up
    <3>3. counter_pending' = counter_pending + t - e
        BY <2>2, TickCount
    <3>4. /\ pointer_context \in Contexts /\ running_context \in Contexts
          /\ counter_pending \in 0..N_CONTEXT
          /\ pointer_context = (running_context + counter_pending) % N_CONTEXT
        BY ConstantsAssumption DEF TypeOK, PendingWithinContexts
    <3> HIDE DEF t, e
    <3>5. (IF t = 1 THEN (pointer_context + 1) % N_CONTEXT ELSE pointer_context) =
          ((IF e = 1 THEN (running_context + 1) % N_CONTEXT ELSE running_context)
             + (counter_pending + t - e)) % N_CONTEXT
        BY <3>1, <3>4, Distance
    <3> QED
        BY <3>2, <3>3, <3>5
  <2> QED
      BY <2>1, <2>2 DEF TypeOK
<1>4. is_critical' => counter_pending' # N_CONTEXT
  <2> SUFFICES ASSUME is_critical' PROVE counter_pending' # N_CONTEXT
      OBVIOUS
  <2>1. ~clear_o /\ op # "trigger"
      BY <1>1, TickCount DEF fsm_context
  <2>2. counter_pending # N_CONTEXT
      BY <1>1, <2>1 DEF fsm_context, PendingWithinContexts, full_context
  <2>3. counter_pending' <= counter_pending
      BY <2>1, TickCount DEF Up, TypeOK
  <2> QED
      BY <2>2, <2>3, ConstantsAssumption DEF PendingWithinContexts, TypeOK
<1> QED
    BY <1>2, <1>3, <1>4, ConstantsAssumption DEF PendingWithinContexts, full_context

\* The running state leaves idle only for a pending context.
LEMMA TickWorking ==
    ASSUME ContextInv, NEW op \in Ops, NEW c \in Cores, NEW value \in Values,
           NEW done \in BOOLEAN, Tick(op, c, value, done)
    PROVE  Working'
<1> USE DEF ContextInv
<1>1. fsm_running(done) /\ EngineStep(done) /\ EngineMay(done)
    BY DEF Tick, Clock, Registers
<1>2. is_working' <=> running_state' # "idle"
    BY <1>1, FsmRunning DEF TypeOK
<1>3. true_done(done) => engine
    BY <1>1 DEF EngineMay, true_done
<1>4. engine' <=> ~clear_o /\ (start \/ (engine /\ ~done))
    BY <1>1 DEF EngineStep
<1>5. engine' \/ start' => running_state' = "running"
    BY <1>1, <1>3, <1>4, FsmRunning DEF TypeOK, Working, true_done
<1>6. ~(engine' /\ start')
    BY <1>1, <1>4, FsmRunning DEF TypeOK, Working
<1>7. ASSUME is_working' PROVE counter_pending' > 0
  <2>1. ~clear_o /\ ~true_done(done)
      BY <1>1, <1>3, <1>7, FsmRunning DEF TypeOK, true_done, Working
  <2>2. counter_pending > 0
    <3>1. CASE running_state = "idle"
      <4>1. ~NoContext
          BY <1>1, <1>7, <3>1, FsmRunning DEF TypeOK
      <4>2. running_context % N_CONTEXT = running_context
          BY ConstantsAssumption DEF TypeOK, Contexts
      <4>3. counter_pending # 0
          BY <4>1, <4>2, ConstantsAssumption
          DEF NoContext, full_context, PendingWithinContexts, TypeOK, Contexts
      <4> QED
          BY <4>3, ConstantsAssumption DEF TypeOK
    <3>2. CASE running_state # "idle"
        BY <3>2 DEF Working
    <3> QED
        BY <3>1, <3>2
  <2> QED
      BY <2>1, <2>2, TickCount DEF Up, TypeOK
<1> QED
    BY <1>2, <1>5, <1>6, <1>7 DEF Working

\* Lock and contexts together are inductive.
LEMMA ContextInvariance == Spec => []ContextInv
<1>1. Init => ContextInv
  <2> SUFFICES ASSUME Init PROVE ContextInv
      OBVIOUS
  <2>1. TypeOK
      BY InitTypeOK
  <2>2. Bus /\ OffloadIsExclusive /\ Working
      BY DEF Init, Bus, OffloadIsExclusive, Working, Holds, Granted, Clearing
  <2>3. PendingWithinContexts
      BY ConstantsAssumption DEF Init, PendingWithinContexts
  <2> QED
      BY <2>1, <2>2, <2>3 DEF ContextInv
<1>2. ContextInv /\ [Next]_vars => ContextInv'
  <2> SUFFICES ASSUME ContextInv, [Next]_vars PROVE ContextInv'
      OBVIOUS
  <2>1. CASE Next
    <3>1. PICK op \in Ops, c \in Cores, value \in Values, done \in BOOLEAN :
             Tick(op, c, value, done)
        BY <2>1, NextIsTick
    <3>2. TypeOK' /\ Bus' /\ OffloadIsExclusive'
        BY <3>1, TickTypeOK, TickBus, TickExclusive DEF ContextInv
    <3>3. PendingWithinContexts' /\ Working'
        BY <3>1, TickPending, TickWorking
    <3> QED
        BY <3>2, <3>3 DEF ContextInv
  <2>2. CASE UNCHANGED vars
      BY <2>2 DEF vars, slave, regfile, ContextInv, TypeOK, Bus, OffloadIsExclusive,
                  PendingWithinContexts, Working, Holds, Granted, Clearing, full_context
  <2> QED
      BY <2>1, <2>2
<1> QED
    BY <1>1, <1>2, PTL DEF Spec

\* The test&set register is a lock, for any number of cores.
THEOREM OffloadAlwaysExclusive == Spec => []OffloadIsExclusive
<1>1. ContextInv => OffloadIsExclusive
    BY DEF ContextInv
<1> QED
    BY <1>1, ContextInvariance, PTL

\* The contexts never overflow, although no trigger is ever refused.
THEOREM PendingAlwaysWithinContexts == Spec => []PendingWithinContexts
<1>1. ContextInv => PendingWithinContexts
    BY DEF ContextInv
<1> QED
    BY <1>1, ContextInvariance, PTL

(***************************************************************************)
(* The status register                                                     *)
(***************************************************************************)

\* The pending contexts are a window of the ring of contexts.
LEMMA Window ==
    ASSUME NEW x \in Contexts, NEW r \in Contexts, NEW n \in 0..N_CONTEXT
    PROVE  (\E i \in 0..(n - 1) : x = (r + i) % N_CONTEXT) <=> (x - r) % N_CONTEXT < n
<1>1. ASSUME NEW i \in 0..(n - 1), x = (r + i) % N_CONTEXT
      PROVE  (x - r) % N_CONTEXT < n
  <2>1. (x - r) % N_CONTEXT = i
    <3>1. CASE N_CONTEXT = 2
        BY <1>1, <3>1 DEF Contexts
    <3>2. CASE N_CONTEXT = 4
        BY <1>1, <3>2 DEF Contexts
    <3> QED
        BY <3>1, <3>2, ConstantsAssumption
  <2> QED
      BY <2>1
<1>2. ASSUME (x - r) % N_CONTEXT < n
      PROVE  \E i \in 0..(n - 1) : x = (r + i) % N_CONTEXT
  <2>1. x = (r + ((x - r) % N_CONTEXT)) % N_CONTEXT
    <3>1. CASE N_CONTEXT = 2
        BY <3>1 DEF Contexts
    <3>2. CASE N_CONTEXT = 4
        BY <3>2 DEF Contexts
    <3> QED
        BY <3>1, <3>2, ConstantsAssumption
  <2>2. (x - r) % N_CONTEXT \in 0..(n - 1)
      BY <1>2, Widths, ModInRange DEF Contexts
  <2> WITNESS (x - r) % N_CONTEXT \in 0..(n - 1)
  <2> QED
      BY <2>1
<1> QED
    BY <1>1, <1>2

\* A trigger adds the context at the end of the window and a done removes the
\* one at its beginning; with both in one cycle they are different contexts.
LEMMA WindowMoves ==
    ASSUME NEW x \in Contexts, NEW r \in Contexts, NEW n \in 0..N_CONTEXT,
           NEW t \in {0, 1}, NEW e \in {0, 1},
           t = 1 => n < N_CONTEXT, e = 1 => n > 0
    PROVE  (x - (IF e = 1 THEN (r + 1) % N_CONTEXT ELSE r)) % N_CONTEXT < n + t - e
             <=> \/ t = 1 /\ x = (r + n) % N_CONTEXT
                 \/ (x - r) % N_CONTEXT < n /\ ~(e = 1 /\ x = r)
<1>1. CASE N_CONTEXT = 2
    BY <1>1 DEF Contexts
<1>2. CASE N_CONTEXT = 4
    BY <1>2 DEF Contexts
<1> QED
    BY <1>1, <1>2, ConstantsAssumption

\* The status bytes follow the window at every clock edge.
LEMMA TickStatus ==
    ASSUME ContextInv, StatusMarksPending,
           NEW op \in Ops, NEW c \in Cores, NEW value \in Values,
           NEW done \in BOOLEAN, Tick(op, c, value, done)
    PROVE  StatusMarksPending'
<1> USE DEF ContextInv
<1>1. /\ done_counter_proc(done) /\ write_mandatory_proc_byte(op, done)
    BY DEF Tick, Clock, Registers
<1>2. TypeOK'
    BY TickTypeOK
<1>3. counter_pending' \in 0..N_CONTEXT
    BY TickCount
<1> SUFFICES ASSUME NEW x \in Contexts
             PROVE  status'[x] = 1 <=> (x - running_context') % N_CONTEXT < counter_pending'
  <2>1. running_context' \in Contexts
      BY <1>2 DEF TypeOK
  <2>2. \A x \in Contexts :
            (\E i \in 0..(counter_pending' - 1) : x = (running_context' + i) % N_CONTEXT)
            <=> (x - running_context') % N_CONTEXT < counter_pending'
      BY <1>3, <2>1, Window
  <2> QED
      BY <2>2 DEF StatusMarksPending
<1>4. CASE clear_o
  <2>1. status'[x] = 0 /\ counter_pending' = 0 /\ running_context' = 0
      BY <1>1, <1>4, TickCount DEF write_mandatory_proc_byte, done_counter_proc
  <2>2. x % N_CONTEXT \in Nat /\ x - 0 = x
      BY Widths DEF Contexts
  <2> QED
      BY <2>1, <2>2
<1>5. CASE ~clear_o
  <2> DEFINE t == Up(op = "trigger")
             e == Up(true_done(done))
  <2>1. /\ t \in {0, 1} /\ e \in {0, 1}
        /\ t = 1 <=> op = "trigger"
        /\ e = 1 <=> true_done(done)
      BY DEF Up
  <2>2. /\ t = 1 => counter_pending < N_CONTEXT
        /\ e = 1 => counter_pending > 0
        /\ counter_pending \in 0..N_CONTEXT
      BY <2>1, TickCount, ConstantsAssumption
      DEF PendingWithinContexts, full_context, Working, true_done, TypeOK
  <2>3. counter_pending' = counter_pending + t - e
      BY <1>5, TickCount
  <2>4. /\ pointer_context = (running_context + counter_pending) % N_CONTEXT
        /\ running_context \in Contexts
      BY DEF PendingWithinContexts, TypeOK
  <2>5. status[x] = 1 <=> (x - running_context) % N_CONTEXT < counter_pending
      BY <2>2, <2>4, Window DEF StatusMarksPending
  <2>6. status'[x] = IF x = pointer_context /\ t = 1 THEN 1
                     ELSE IF x = running_context /\ e = 1 THEN 0
                     ELSE status[x]
      BY <1>1, <1>5, <2>1 DEF write_mandatory_proc_byte
  <2>7. running_context' = IF e = 1 THEN (running_context + 1) % N_CONTEXT ELSE running_context
      BY <1>1, <1>5, <2>1 DEF done_counter_proc
  <2> HIDE DEF t, e
  <2>8. (x - running_context') % N_CONTEXT < counter_pending'
          <=> \/ t = 1 /\ x = pointer_context
              \/ (x - running_context) % N_CONTEXT < counter_pending /\ ~(e = 1 /\ x = running_context)
    <3>1. (x - (IF e = 1 THEN (running_context + 1) % N_CONTEXT ELSE running_context)) % N_CONTEXT
             < counter_pending + t - e
          <=> \/ t = 1 /\ x = (running_context + counter_pending) % N_CONTEXT
              \/ (x - running_context) % N_CONTEXT < counter_pending /\ ~(e = 1 /\ x = running_context)
        BY <2>1, <2>2, <2>4, WindowMoves
    <3> QED
        BY <2>3, <2>4, <2>7, <3>1
  <2> QED
      BY <2>5, <2>6, <2>8
<1> QED
    BY <1>4, <1>5 DEF TypeOK

\* The status register marks exactly the pending contexts, for two and for four.
THEOREM StatusAlwaysMarksPending == Spec => []StatusMarksPending
<1>1. Init => StatusMarksPending
    BY ConstantsAssumption DEF Init, StatusMarksPending
<1>2. ContextInv /\ StatusMarksPending /\ [Next]_vars => StatusMarksPending'
  <2> SUFFICES ASSUME ContextInv, StatusMarksPending, [Next]_vars PROVE StatusMarksPending'
      OBVIOUS
  <2>1. CASE Next
      BY <2>1, NextIsTick, TickStatus
  <2>2. CASE UNCHANGED vars
      BY <2>2 DEF vars, slave, regfile, StatusMarksPending
  <2> QED
      BY <2>1, <2>2
<1> QED
    BY <1>1, <1>2, ContextInvariance, PTL DEF Spec

(***************************************************************************)
(* Job identifiers                                                         *)
(***************************************************************************)

\* An identifier that wraps, and one that is ahead of another by less than the
\* number of identifiers, without the modulus.
Wrap(x) == IF x < JobIds THEN x ELSE x - JobIds

\* A register of an identifier one cycle later.
NextId(x, i) == IF i = 1 THEN (x + 1) % JobIds ELSE x

\* The identifier o is ahead of r by d jobs, after the increments i and j.
AheadBy(o, i, r, j, d) == (o + i) % JobIds = (r + j + d) % JobIds

\* The distance d between the next identifier (o, about to be incremented by i)
\* and the running one (r, by j) is kept when both increments take effect and
\* the next identifier is handed out (a), or the running job ends (e).
LEMMA IdDistance ==
    ASSUME NEW o \in 0..(JobIds - 1), NEW r \in 0..(JobIds - 1),
           NEW i \in {0, 1}, NEW j \in {0, 1}, NEW a \in {0, 1}, NEW e \in {0, 1},
           NEW d \in 0..N_CONTEXT, d + a - e \in 0..N_CONTEXT,
           AheadBy(o, i, r, j, d)
    PROVE  AheadBy(NextId(o, i), a, NextId(r, j), e, d + a - e)
<1> USE ConstantsAssumption DEF AheadBy, NextId
<1>1. JobIds \in Nat \ {0} /\ N_CONTEXT \in Nat /\ N_CONTEXT < JobIds
    OBVIOUS
<1>2. \A x \in 0..(2 * JobIds - 1) : x % JobIds = Wrap(x)
    BY <1>1, ModOnce DEF Wrap
<1> DEFINE o1 == IF i = 1 THEN Wrap(o + 1) ELSE o
           r1 == IF j = 1 THEN Wrap(r + 1) ELSE r
<1>3. NextId(o, i) = o1 /\ NextId(r, j) = r1
    BY <1>1, <1>2
<1>4. o1 \in 0..(JobIds - 1) /\ r1 \in 0..(JobIds - 1)
    BY <1>1 DEF Wrap
<1>5. Wrap(o + i) = Wrap(r + j + d)
  <2>1. o + i \in 0..(2 * JobIds - 1) /\ r + j + d \in 0..(2 * JobIds - 1)
      BY <1>1
  <2> QED
      BY <1>2, <2>1
<1>6. Wrap(o1 + a) = Wrap(r1 + (d + a))
    BY <1>1, <1>5 DEF Wrap
<1>7. (o1 + a) % JobIds = Wrap(o1 + a) /\ (r1 + (d + a)) % JobIds = Wrap(r1 + (d + a))
  <2>1. o1 + a \in 0..(2 * JobIds - 1) /\ r1 + (d + a) \in 0..(2 * JobIds - 1)
      BY <1>1, <1>4
  <2> HIDE DEF o1, r1
  <2> QED
      BY <1>2, <2>1
<1>8. r1 + e + (d + a - e) = r1 + (d + a)
    BY <1>4
<1> QED
    BY <1>3, <1>6, <1>7, <1>8

\* The jobs between the two identifiers: one more when a test&set is granted,
\* one less when a job ends, the same when the lock becomes a pending job.
LEMMA TickJobs ==
    ASSUME ContextInv, NEW op \in Ops, NEW c \in Cores, NEW value \in Values,
           NEW done \in BOOLEAN, Tick(op, c, value, done), ~clear_o
    PROVE  /\ counter_pending + Up(is_critical) \in 0..N_CONTEXT
           /\ counter_pending' + Up(is_critical') \in 0..N_CONTEXT
           /\ counter_pending' + Up(is_critical') =
                 (counter_pending + Up(is_critical)) + Up(offload_job_id_incr')
                    - Up(running_job_id_incr')
<1> USE DEF ContextInv
<1>1. fsm_context(op) /\ job_id_proc(done) /\ data_r_rdata_o_proc(op)
    BY DEF Tick, Clock, Registers
<1>2. PendingWithinContexts' /\ TypeOK'
    BY TickPending, TickTypeOK
<1>3. /\ counter_pending + Up(is_critical) \in 0..N_CONTEXT
      /\ counter_pending' + Up(is_critical') \in 0..N_CONTEXT
  <2>1. /\ counter_pending \in 0..N_CONTEXT
        /\ is_critical => counter_pending # N_CONTEXT
      BY ConstantsAssumption DEF PendingWithinContexts, full_context, TypeOK
  <2>2. /\ counter_pending' \in 0..N_CONTEXT
        /\ is_critical' => counter_pending' # N_CONTEXT
      BY <1>2, ConstantsAssumption DEF PendingWithinContexts, full_context, TypeOK
  <2>3. \A b : Up(b) \in {0, 1} /\ (Up(b) = 1 <=> b)
      BY DEF Up
  <2> QED
      BY <2>1, <2>2, <2>3, ConstantsAssumption
<1>4. Up(running_job_id_incr') = Up(true_done(done))
    BY <1>1 DEF job_id_proc, Up
<1>5. Up(is_critical') + Up(op = "trigger") = Up(is_critical) + Up(offload_job_id_incr')
  <2>1. CASE op = "testset"
    <3>1. offload_job_id_incr' <=> ~is_critical /\ ~full_context
        BY <1>1, <2>1, GrantedWhenFree DEF data_r_rdata_o_proc
    <3>2. is_critical' <=> is_critical \/ ~full_context
        BY <1>1, <2>1 DEF fsm_context, TypeOK
    <3> QED
        BY <2>1, <3>1, <3>2 DEF Up
  <2>2. CASE op = "trigger"
    <3>1. is_critical /\ ~is_critical' /\ ~offload_job_id_incr'
        BY <1>1, <2>2, TickCount DEF fsm_context, data_r_rdata_o_proc
    <3> QED
        BY <2>2, <3>1 DEF Up
  <2>3. CASE op \notin {"testset", "trigger"}
    <3>1. (is_critical' <=> is_critical) /\ ~offload_job_id_incr'
        BY <1>1, <2>3 DEF fsm_context, data_r_rdata_o_proc, TypeOK
    <3> QED
        BY <2>3, <3>1 DEF Up
  <2> QED
      BY <2>1, <2>2, <2>3
<1>6. counter_pending' = counter_pending + Up(op = "trigger") - Up(true_done(done))
    BY TickCount
<1>7. counter_pending \in Int
    BY DEF TypeOK
<1> QED
    BY <1>3, <1>4, <1>5, <1>6, <1>7 DEF Up

\* The identifiers keep their distance at every clock edge, and start again
\* together after a soft clear.
LEMMA TickJobIds ==
    ASSUME ContextInv, JobIdsNameJobs,
           NEW op \in Ops, NEW c \in Cores, NEW value \in Values,
           NEW done \in BOOLEAN, Tick(op, c, value, done)
    PROVE  JobIdsNameJobs'
<1> USE DEF ContextInv
<1> SUFFICES ASSUME ~Clearing'
             PROVE  (offload_job_id' + Up(offload_job_id_incr')) % JobIds =
                    (running_job_id' + Up(running_job_id_incr') + counter_pending'
                        + Up(is_critical')) % JobIds
    BY DEF JobIdsNameJobs
<1>1. /\ fsm_context(op) /\ job_id_proc(done) /\ data_r_rdata_o_proc(op)
      /\ soft_clear_proc(op)
    BY DEF Tick, Clock, Registers
<1>2. CASE clear_o
  <2>1. op # "testset"
      BY <1>2 DEF Tick, Clearing
  <2>2. /\ offload_job_id' = 0 /\ running_job_id' = 0 /\ counter_pending' = 0
        /\ ~offload_job_id_incr' /\ ~running_job_id_incr' /\ ~is_critical'
      BY <1>1, <1>2, <2>1, TickCount DEF fsm_context, job_id_proc, data_r_rdata_o_proc
  <2>3. offload_job_id' + Up(offload_job_id_incr') = running_job_id' + Up(running_job_id_incr')
           + counter_pending' + Up(is_critical')
      BY <2>2 DEF Up
  <2> QED
      BY <2>3
<1>3. CASE ~clear_o
  <2>1. ~Clearing
      BY <1>1, <1>3 DEF soft_clear_proc, Clearing, TypeOK
  <2> DEFINE i == Up(offload_job_id_incr)   j == Up(running_job_id_incr)
             a == Up(offload_job_id_incr')  e == Up(running_job_id_incr')
             d == counter_pending + Up(is_critical)
             d1 == counter_pending' + Up(is_critical')
  <2>2. /\ i \in {0, 1} /\ j \in {0, 1} /\ a \in {0, 1} /\ e \in {0, 1}
        /\ i = 1 <=> offload_job_id_incr
        /\ j = 1 <=> running_job_id_incr
      BY DEF Up
  <2>3. d \in 0..N_CONTEXT /\ d1 \in 0..N_CONTEXT /\ d1 = d + a - e
      BY <1>3, TickJobs
  <2>4. AheadBy(offload_job_id, i, running_job_id, j, d)
    <3>1. running_job_id + j + counter_pending + Up(is_critical) = running_job_id + j + d
        BY <2>2 DEF TypeOK, Up
    <3> QED
        BY <2>1, <3>1 DEF JobIdsNameJobs, AheadBy
  <2>5. offload_job_id' = NextId(offload_job_id, i) /\ running_job_id' = NextId(running_job_id, j)
      BY <1>1, <1>3, <2>2 DEF job_id_proc, NextId
  <2>6. running_job_id' + e + counter_pending' + Up(is_critical') = running_job_id' + e + d1
    <3>1. TypeOK'
        BY TickTypeOK
    <3> QED
        BY <2>2, <3>1 DEF TypeOK, Up
  <2>7. offload_job_id \in 0..(JobIds - 1) /\ running_job_id \in 0..(JobIds - 1)
      BY DEF TypeOK
  <2> HIDE DEF i, j, a, e, d, d1
  <2>8. AheadBy(offload_job_id', a, running_job_id', e, d1)
    <3>1. d + a - e \in 0..N_CONTEXT
        BY <2>3
    <3>2. AheadBy(NextId(offload_job_id, i), a, NextId(running_job_id, j), e, d + a - e)
        BY <2>2, <2>3, <2>4, <2>7, <3>1, IdDistance
    <3> QED
        BY <2>3, <2>5, <3>2
  <2> QED
      BY <2>6, <2>8 DEF a, e, AheadBy
<1> QED
    BY <1>2, <1>3 DEF TypeOK

\* A job identifier names one job among the pending ones, where the identifiers
\* wrap too, for every number of identifiers greater than that of contexts.
THEOREM JobIdsAlwaysNameJobs == Spec => []JobIdsNameJobs
<1>1. Init => JobIdsNameJobs
    BY DEF Init, JobIdsNameJobs, Up
<1>2. ContextInv /\ JobIdsNameJobs /\ [Next]_vars => JobIdsNameJobs'
  <2> SUFFICES ASSUME ContextInv, JobIdsNameJobs, [Next]_vars PROVE JobIdsNameJobs'
      OBVIOUS
  <2>1. CASE Next
      BY <2>1, NextIsTick, TickJobIds
  <2>2. CASE UNCHANGED vars
      BY <2>2 DEF vars, slave, regfile, JobIdsNameJobs, Clearing
  <2> QED
      BY <2>1, <2>2
<1> QED
    BY <1>1, <1>2, ContextInvariance, PTL DEF Spec

(***************************************************************************)
(* The finished-jobs counter                                               *)
(***************************************************************************)

\* In one cycle the counter and the jobs it should count move together, unless
\* the counter is read while a job ends.
LEMMA TickFinished ==
    ASSUME TypeOK, FinishedCounterMissesOne,
           NEW op \in Ops, NEW c \in Cores, NEW value \in Values,
           NEW done \in BOOLEAN, Tick(op, c, value, done)
    PROVE  FinishedCounterMissesOne'
<1>1. r_finished_cnt \in 0..2 /\ unreported \in 0..2
    BY DEF TypeOK
<1>2. finished_counter(op, done) /\ History(op, value, done)
    BY DEF Tick, Clock, Registers
<1> QED
    BY <1>1, <1>2 DEF finished_counter, History, FinishedCounterMissesOne

\* The finished-jobs counter (hwpe_ctrl_regfile.sv) has the jobs that ended
\* since its address was last on the lines, with a request or without, but at
\* most the one that ended in that cycle, and never counts a job twice.
THEOREM FinishedCounterAlwaysMissesOne == Spec => []FinishedCounterMissesOne
<1>1. Init => FinishedCounterMissesOne
    BY DEF Init, FinishedCounterMissesOne
<1>2. TypeOK /\ FinishedCounterMissesOne /\ [Next]_vars => FinishedCounterMissesOne'
  <2> SUFFICES ASSUME TypeOK, FinishedCounterMissesOne, [Next]_vars
               PROVE  FinishedCounterMissesOne'
      OBVIOUS
  <2>1. CASE Next
      BY <2>1, NextIsTick, TickFinished
  <2>2. CASE UNCHANGED vars
      BY <2>2 DEF vars, slave, regfile, FinishedCounterMissesOne
  <2> QED
      BY <2>1, <2>2
<1> QED
    BY <1>1, <1>2, TypeCorrect, PTL DEF Spec

(***************************************************************************)
(* The queue of jobs                                                       *)
(***************************************************************************)

\* A function on 1..n is a sequence of length n.
LEMMA FunctionIsSeq ==
    ASSUME NEW S, NEW n \in Nat, NEW f \in [1..n -> S]
    PROVE  f \in Seq(S) /\ Len(f) = n
OBVIOUS

\* The first job of a queue ends (e = 1), and another is added (t = 1).
Moved(q, t, e, job) ==
    LET rest == IF e = 1 THEN Tail(q) ELSE q
    IN  IF t = 1 THEN Append(rest, job) ELSE rest

\* The same, job by job, for a queue q of n jobs and a queue p of m jobs.
Shifted(p, m, q, n, t, e, job) ==
    /\ e = 1 => n > 0
    /\ m = n + t - e
    /\ \A i \in 1..(n - e) : p[i] = q[i + e]
    /\ t = 1 => p[m] = job

\* A queue is given by its jobs.
LEMMA QueueMoves ==
    ASSUME NEW S, NEW n \in Nat, NEW m \in Nat, NEW q \in [1..n -> S], NEW p \in [1..m -> S],
           NEW job \in S, NEW t, NEW e, t \in {0, 1}, e \in {0, 1},
           Shifted(p, m, q, n, t, e, job)
    PROVE  p = Moved(q, t, e, job)
<1> USE DEF Moved, Shifted
<1> DEFINE rest == IF e = 1 THEN Tail(q) ELSE q
<1>1. q \in Seq(S) /\ Len(q) = n /\ p \in Seq(S) /\ Len(p) = m
    BY FunctionIsSeq
<1>2. rest \in Seq(S) /\ Len(rest) = n - e /\ \A i \in 1..(n - e) : rest[i] = q[i + e]
  <2>1. CASE e = 1
    <3>1. q # <<>>
        BY <1>1, <2>1
    <3> QED
        BY <1>1, <2>1, <3>1, HeadTailProperties
  <2>2. CASE e = 0
      BY <1>1, <2>2
  <2> QED
      BY <2>1, <2>2
<1> HIDE DEF rest
<1>3. CASE t = 0
  <2>1. Len(p) = n - e /\ Len(rest) = n - e
      BY <1>1, <1>2, <1>3
  <2>a. \A i \in 1..Len(p) : p[i] = rest[i]
      BY <1>2, <2>1
  <2>2. p = rest
      BY <1>1, <1>2, <2>1, <2>a, SeqEqual
  <2> QED
      BY <1>3, <2>2 DEF rest
<1>4. CASE t = 1
  <2>1. /\ Append(rest, job) \in Seq(S)
        /\ Len(Append(rest, job)) = m
        /\ \A i \in 1..(n - e) : Append(rest, job)[i] = rest[i]
        /\ Append(rest, job)[m] = job
      BY <1>2, <1>4, AppendProperties
  <2>2. \A i \in 1..m : i = m \/ i \in 1..(n - e)
      BY <1>4
  <2>3. \A i \in 1..Len(p) : p[i] = Append(rest, job)[i]
      BY <1>1, <1>2, <1>4, <2>1, <2>2
  <2>4. p = Append(rest, job)
      BY <1>1, <2>1, <2>3, SeqEqual
  <2> QED
      BY <1>4, <2>4 DEF rest
<1> QED
    BY <1>3, <1>4

\* The context of job i, after a done too; and the context of the pointer is
\* not among the pending ones while one is free.
LEMMA SlotOf ==
    ASSUME NEW r \in Contexts, NEW n \in 0..N_CONTEXT
    PROVE  /\ \A i \in 1..N_CONTEXT : (r + i - 1) % N_CONTEXT \in Contexts
           /\ \A i \in 1..N_CONTEXT :
                 (((r + 1) % N_CONTEXT) + i - 1) % N_CONTEXT = (r + i) % N_CONTEXT
           /\ n < N_CONTEXT => \A i \in 1..n : (r + i - 1) % N_CONTEXT # (r + n) % N_CONTEXT
           /\ (r + 1 - 1) % N_CONTEXT = r
<1>1. CASE N_CONTEXT = 2
    BY <1>1 DEF Contexts
<1>2. CASE N_CONTEXT = 4
    BY <1>2 DEF Contexts
<1> QED
    BY <1>1, <1>2, ConstantsAssumption

\* The jobs of the pending contexts, oldest first.
Queue == [i \in 1..counter_pending |-> PendingJob(i)]

\* The queue has at most one job for each context.
LEMMA QueueType == ContextInv => Queue \in [1..counter_pending -> JobQueue!Job]
<1> SUFFICES ASSUME ContextInv, NEW i \in 1..counter_pending
             PROVE  PendingJob(i) \in JobQueue!Job
    BY DEF Queue
<1>1. running_context \in Contexts /\ i \in 1..N_CONTEXT
    BY ConstantsAssumption DEF ContextInv, TypeOK, PendingWithinContexts
<1>2. (running_context + i - 1) % N_CONTEXT \in Contexts
  <2>1. 0 \in 0..N_CONTEXT
      BY ConstantsAssumption
  <2> QED
      BY <1>1, <2>1, SlotOf
<1> QED
    BY <1>2 DEF PendingJob, JobQueue!Job, ContextInv, TypeOK

\* The jobs at a clock edge: those that stay keep their core and contents, also
\* when the core that offloads writes its job registers, and the one that is
\* triggered is added with its core and the contents of its context.
LEMMA TickQueue ==
    ASSUME ContextInv, ContextInv', NEW op \in Ops, NEW c \in Cores, NEW value \in Values,
           NEW done \in BOOLEAN, Tick(op, c, value, done), ~clear_o
    PROVE  LET rest == IF true_done(done) THEN Tail(Queue) ELSE Queue
           IN  Queue' = IF op = "trigger"
                        THEN Append(rest, [core |-> c, params |-> params[pointer_context]])
                        ELSE rest
<1> DEFINE t == Up(op = "trigger")
           e == Up(true_done(done))
           n == counter_pending
           m == counter_pending'
           job == [core |-> c, params |-> params[pointer_context]]
           r == running_context
           r1 == running_context'
<1>1. /\ offloading_core_proc(op, c) /\ done_counter_proc(done) /\ regfile_latch(op, value)
    BY DEF Tick, Clock, Registers
<1>2. /\ t \in {0, 1} /\ e \in {0, 1} /\ (t = 1 <=> op = "trigger") /\ (e = 1 <=> true_done(done))
    BY DEF Up
<1>3. /\ n \in 0..N_CONTEXT /\ m \in 0..N_CONTEXT /\ m = n + t - e
      /\ e = 1 => n > 0
      /\ op = "trigger" => is_critical
    BY <1>2, TickCount, ConstantsAssumption
    DEF ContextInv, TypeOK, PendingWithinContexts, Working, true_done
<1>4. /\ r \in Contexts /\ pointer_context \in Contexts
      /\ pointer_context = (r + n) % N_CONTEXT
      /\ offloading_core \in [Contexts -> Cores] /\ params \in [Contexts -> Values]
    BY DEF ContextInv, TypeOK, PendingWithinContexts
<1>5. r1 = IF e = 1 THEN (r + 1) % N_CONTEXT ELSE r
    BY <1>1, <1>2 DEF done_counter_proc
<1>6. op \in {"params", "trigger"} => is_critical /\ n < N_CONTEXT
  <2>1. op \in {"params", "trigger"} => core[c] = "offloading"
      BY DEF Tick
  <2>2. op \in {"params", "trigger"} => is_critical
      BY <2>1 DEF ContextInv, OffloadIsExclusive, Holds
  <2> QED
      BY <1>3, <2>2, ConstantsAssumption DEF ContextInv, PendingWithinContexts, full_context
<1>7. /\ op = "trigger" => offloading_core' = [offloading_core EXCEPT ![pointer_context] = c]
                           /\ params' = params
      /\ op = "params" => params' = [params EXCEPT ![pointer_context] = value]
                          /\ offloading_core' = offloading_core
      /\ op \notin {"params", "trigger"} => params' = params /\ offloading_core' = offloading_core
    BY <1>1 DEF offloading_core_proc, regfile_latch
<1>8. Queue \in [1..n -> JobQueue!Job] /\ Queue' \in [1..m -> JobQueue!Job]
  <2>1. Queue \in [1..n -> JobQueue!Job]
      BY QueueType
  <2>2. (ContextInv => Queue \in [1..counter_pending -> JobQueue!Job])'
      BY QueueType, PTL
  <2> QED
      BY <2>1, <2>2 DEF JobQueue!Job
<1>9. job \in JobQueue!Job
    BY <1>4 DEF JobQueue!Job
<1> HIDE DEF t, e
<1>10. ASSUME NEW i \in 1..(n - e) PROVE Queue'[i] = Queue[i + e]
  <2> DEFINE x == (r + (i + e) - 1) % N_CONTEXT
  <2>1. i \in 1..m /\ i + e \in 1..n /\ i \in 1..N_CONTEXT /\ i + e \in 1..N_CONTEXT
      BY <1>2, <1>3, <1>10, ConstantsAssumption
  <2>2. (r1 + i - 1) % N_CONTEXT = x
    <3>1. CASE e = 1
      <4>1. r + (i + 1) - 1 = r + i
          BY <1>4, <2>1 DEF Contexts
      <4> QED
          BY <1>3, <1>4, <1>5, <2>1, <3>1, <4>1, SlotOf
    <3>2. CASE e = 0
      <4>1. i + 0 = i
          BY <2>1
      <4> QED
          BY <1>5, <3>2, <4>1
    <3> QED
        BY <1>2, <3>1, <3>2
  <2>3. x \in Contexts /\ (n < N_CONTEXT => x # pointer_context)
      BY <1>3, <1>4, <2>1, SlotOf
  <2>4. Queue'[i] = [core |-> offloading_core'[x], params |-> params'[x]]
      BY <2>1, <2>2 DEF Queue, PendingJob
  <2>5. Queue[i + e] = [core |-> offloading_core[x], params |-> params[x]]
      BY <2>1 DEF Queue, PendingJob
  <2> HIDE DEF x
  <2>6. offloading_core'[x] = offloading_core[x] /\ params'[x] = params[x]
      BY <1>4, <1>6, <1>7, <2>3
  <2> QED
      BY <2>4, <2>5, <2>6
<1>11. ASSUME t = 1 PROVE Queue'[m] = job
  <2>1. m \in 1..N_CONTEXT
      BY <1>2, <1>3, <1>11, ConstantsAssumption
  <2>2. (r1 + m - 1) % N_CONTEXT = pointer_context
    <3>1. CASE e = 1
      <4>1. m = n
          BY <1>3, <1>11, <3>1
      <4> QED
          BY <1>3, <1>4, <1>5, <2>1, <3>1, <4>1, SlotOf
    <3>2. CASE e = 0
      <4>1. r + m - 1 = r + n
          BY <1>3, <1>4, <1>11, <3>2 DEF Contexts
      <4> QED
          BY <1>4, <1>5, <3>2, <4>1
    <3> QED
        BY <1>2, <3>1, <3>2
  <2>3. Queue'[m] = [core |-> offloading_core'[pointer_context], params |-> params'[pointer_context]]
    <3>1. m \in 1..m
        BY <2>1
    <3> QED
        BY <2>2, <3>1 DEF Queue, PendingJob
  <2> QED
      BY <1>2, <1>4, <1>7, <1>11, <2>3
<1>12. Queue' = Moved(Queue, t, e, job)
  <2>1. n \in Nat /\ m \in Nat
      BY <1>3, ConstantsAssumption
  <2>2. \A i \in 1..(n - e) : Queue'[i] = Queue[i + e]
      BY <1>10
  <2>3. Shifted(Queue', m, Queue, n, t, e, job)
      BY <1>3, <1>11, <2>2 DEF Shifted
  <2> HIDE DEF n, m, job
  <2> QED
      BY <1>2, <1>8, <1>9, <2>1, <2>3, QueueMoves
<1> QED
    BY <1>2, <1>12 DEF Moved

\* The holder is the core that holds the lock, if there is one.
HolderHolds ==
    /\ \A c \in Cores : Holds(c) <=> HolderCore = c
    /\ is_critical <=> HolderCore # NoCore
    /\ HolderCore \in Cores \cup {NoCore}

\* The lock has one holder.
LEMMA HolderIs == ContextInv => HolderHolds
<1> SUFFICES ASSUME ContextInv PROVE HolderHolds
    OBVIOUS
<1> USE DEF HolderHolds
<1>1. /\ \A c, d \in Cores : Holds(c) /\ Holds(d) => c = d
      /\ is_critical <=> \E c \in Cores : Holds(c)
    BY DEF ContextInv, OffloadIsExclusive
<1>2. CASE \E c \in Cores : Holds(c)
  <2>1. HolderCore \in Cores /\ Holds(HolderCore)
      BY <1>2 DEF HolderCore
  <2> QED
      BY <1>1, <1>2, <2>1, ConstantsAssumption
<1>3. CASE ~\E c \in Cores : Holds(c)
  <2>1. HolderCore = NoCore
      BY <1>3 DEF HolderCore
  <2> QED
      BY <1>1, <1>3, <2>1, ConstantsAssumption
<1> QED
    BY <1>2, <1>3

\* The engine's side of the queue at a clock edge: a done of the engine is the
\* end of the oldest job, and its core gets the event.
LEMMA TickEngine ==
    ASSUME ContextInv, ContextInv', NEW op \in Ops, NEW c \in Cores, NEW value \in Values,
           NEW done \in BOOLEAN, Tick(op, c, value, done), ~clear_o
    PROVE  JobQueue!Engine(true_done(done))
<1>1. fsm_running(done) /\ EngineMay(done) /\ event_interrupt_proc(done)
    BY DEF Tick, Clock, Registers
<1>2. Queue \in Seq(JobQueue!Job) /\ Len(Queue) = counter_pending /\ counter_pending \in Nat
  <2>1. counter_pending \in Nat
      BY ConstantsAssumption DEF ContextInv, TypeOK
  <2> QED
      BY <2>1, QueueType, FunctionIsSeq
<1>3. Queue = <<>> <=> counter_pending = 0
    BY <1>2
<1>4. ASSUME true_done(done) PROVE running_state = "running" /\ counter_pending > 0
    BY <1>1, <1>4 DEF EngineMay, true_done, ContextInv, Working
<1>5. evt' = IF true_done(done) THEN Queue[1].core ELSE NoCore
  <2>1. CASE true_done(done)
    <3>1. 1 \in 1..counter_pending
        BY <1>2, <1>4, <2>1
    <3>2. Queue[1].core = offloading_core[(running_context + 1 - 1) % N_CONTEXT]
        BY <3>1 DEF Queue, PendingJob
    <3>3. (running_context + 1 - 1) % N_CONTEXT = running_context
      <4>1. running_context \in Contexts /\ 0 \in 0..N_CONTEXT
          BY ConstantsAssumption DEF ContextInv, TypeOK
      <4> QED
          BY <4>1, SlotOf
    <3> QED
        BY <1>1, <2>1, <3>2, <3>3 DEF event_interrupt_proc
  <2>2. CASE ~true_done(done)
      BY <1>1, <2>2 DEF event_interrupt_proc
  <2> QED
      BY <2>1, <2>2
<1>6. /\ true_done(done) => running_state' = "idle"
      /\ ~true_done(done) /\ counter_pending = 0 => running_state' = "idle" /\ running_state = "idle"
      /\ ~true_done(done) => \/ running_state' = "running"
                             \/ running_state' # "running" /\ running_state # "running"
  <2>1. counter_pending = 0 => running_state = "idle"
      BY DEF ContextInv, Working
  <2>2. counter_pending = 0 => ~is_working'
    <3> HAVE counter_pending = 0
    <3>1. running_context % N_CONTEXT = running_context /\ running_context + 0 = running_context
      <4>1. running_context \in 0..(N_CONTEXT - 1)
          BY DEF ContextInv, TypeOK, Contexts
      <4>2. CASE N_CONTEXT = 2
          BY <4>1, <4>2
      <4>3. CASE N_CONTEXT = 4
          BY <4>1, <4>3
      <4> QED
          BY <4>2, <4>3, ConstantsAssumption
    <3>2. NoContext
        BY <3>1, ConstantsAssumption
        DEF NoContext, full_context, ContextInv, PendingWithinContexts
    <3> QED
        BY <1>1, <2>1, <3>2, FsmRunning DEF ContextInv, TypeOK
  <2>3. counter_pending = 0 => running_state' = "idle"
      BY <2>2 DEF ContextInv, Working
  <2> QED
      BY <1>1, <1>4, <2>1, <2>3, FsmRunning DEF ContextInv, TypeOK
<1>7. (running_state = "running")' \in
         (IF true_done(done) THEN {FALSE}
          ELSE IF Queue = <<>> THEN {running_state = "running"}
          ELSE {running_state = "running", TRUE})
    BY <1>3, <1>6
<1>8. true_done(done) => running_state = "running" /\ Queue # <<>>
    BY <1>3, <1>4
<1> QED
    BY <1>5, <1>7, <1>8 DEF JobQueue!Engine, JobQueue!JobEnds, Queue

\* What the core that offloads wrote is in the registers of the context its
\* trigger will hand over.
Wrote == written # NoValue => is_critical /\ written = params[pointer_context]

\* Only the holder of the lock writes, and the pointer moves with its trigger.
LEMMA TickWrote ==
    ASSUME ContextInv, Wrote, NEW op \in Ops, NEW c \in Cores, NEW value \in Values,
           NEW done \in BOOLEAN, Tick(op, c, value, done)
    PROVE  Wrote'
<1>1. /\ regfile_latch(op, value) /\ pointer_context_proc(op) /\ fsm_context(op)
      /\ History(op, value, done)
    BY DEF Tick, Clock, Registers
<1>2. CASE clear_o \/ op = "trigger"
    BY <1>1, <1>2 DEF History, Wrote
<1>3. CASE ~clear_o /\ op = "params"
  <2>1. is_critical
    <3>1. Holds(c)
        BY <1>3 DEF Tick, Holds
    <3> QED
        BY <3>1 DEF ContextInv, OffloadIsExclusive
  <2>2. is_critical' /\ pointer_context' = pointer_context /\ written' = value
      BY <1>1, <1>3, <2>1 DEF fsm_context, pointer_context_proc, History
  <2>3. params'[pointer_context] = value
      BY <1>1, <1>3 DEF regfile_latch, ContextInv, TypeOK
  <2> QED
      BY <2>2, <2>3 DEF Wrote
<1>4. CASE ~clear_o /\ op \notin {"trigger", "params"}
  <2>1. /\ params' = params /\ pointer_context' = pointer_context /\ written' = written
        /\ is_critical => is_critical'
      BY <1>1, <1>4 DEF regfile_latch, pointer_context_proc, History, fsm_context
  <2> QED
      BY <2>1 DEF Wrote
<1> QED
    BY <1>2, <1>3, <1>4

\* The parameters a core wrote are those its job is offloaded with.
LEMMA WroteInvariance == Spec => []Wrote
<1>1. Init => Wrote
    BY DEF Init, Wrote
<1>2. ContextInv /\ Wrote /\ [Next]_vars => Wrote'
  <2> SUFFICES ASSUME ContextInv, Wrote, [Next]_vars PROVE Wrote'
      OBVIOUS
  <2>1. CASE Next
      BY <2>1, NextIsTick, TickWrote
  <2>2. CASE UNCHANGED vars
      BY <2>2 DEF vars, slave, regfile, Wrote
  <2> QED
      BY <2>1, <2>2
<1> QED
    BY <1>1, <1>2, ContextInvariance, PTL DEF Spec

\* The cores' side: the lock is taken, the job registers are written, a job is
\* offloaded with what was written, or nothing happens.
LEMMA TickCores ==
    ASSUME ContextInv, ContextInv', Wrote, NEW op \in Ops, NEW c \in Cores, NEW value \in Values,
           NEW done \in BOOLEAN, Tick(op, c, value, done), ~clear_o
    PROVE  \/ JobQueue!Nothing(true_done(done))
           \/ JobQueue!Acquire(true_done(done))
           \/ JobQueue!Write(true_done(done))
           \/ JobQueue!Offload(true_done(done))
<1> DEFINE rest == IF true_done(done) THEN Tail(Queue) ELSE Queue
           job == [core |-> c, params |-> params[pointer_context]]
<1>1. Queue' = IF op = "trigger" THEN Append(rest, job) ELSE rest
    BY TickQueue
<1>2. rest = JobQueue!Left(true_done(done))
    BY DEF JobQueue!Left, Queue
<1>3. /\ \A d \in Cores : Holds(d) <=> HolderCore = d
      /\ is_critical <=> HolderCore # NoCore
      /\ HolderCore \in Cores \cup {NoCore}
    BY HolderIs DEF HolderHolds
<1>4. /\ \A d \in Cores : Holds(d)' <=> HolderCore' = d
      /\ HolderCore' \in Cores \cup {NoCore}
  <2>1. (ContextInv => HolderHolds)'
      BY HolderIs, PTL
  <2> QED
      BY <2>1 DEF HolderHolds
<1>5. TypeOK /\ Bus
    BY DEF ContextInv
<1>w. written' = IF op = "trigger" THEN NoValue ELSE IF op = "params" THEN value ELSE written
    BY DEF Tick, Clock, History
<1>6. CASE op = "testset" /\ Response >= 0
  <2>1. ~is_critical /\ ~full_context
      BY <1>5, <1>6, GrantedWhenFree
  <2>2. Holds(c)'
      BY <1>5, <1>6, TickHolders
  <2>3. HolderCore = NoCore /\ HolderCore' \in Cores
      BY <1>3, <1>4, <2>1, <2>2
  <2>4. Len(Queue) < N_CONTEXT
    <3>1. counter_pending \in Nat /\ counter_pending < N_CONTEXT
        BY <2>1, ConstantsAssumption DEF ContextInv, TypeOK, PendingWithinContexts, full_context
    <3>2. Len(Queue) = counter_pending
        BY <3>1, QueueType, FunctionIsSeq
    <3> QED
        BY <3>1, <3>2
  <2>5. written' = NoValue
      BY <1>w, <1>6, <2>1 DEF Wrote
  <2> QED
      BY <1>1, <1>2, <1>6, <2>3, <2>4, <2>5 DEF JobQueue!Acquire, Queue
<1>7. CASE op = "trigger"
  <2>1. Holds(c)
      BY <1>7 DEF Tick, Holds
  <2>2. HolderCore = c /\ c # NoCore
      BY <1>3, <2>1, ConstantsAssumption
  <2>3. \A d \in Cores : ~Holds(d)'
      BY <1>3, <1>5, <1>7, <2>2, TickHolders
  <2>4. HolderCore' = NoCore
      BY <1>4, <2>3
  <2>5. params[pointer_context] \in (IF written = NoValue THEN Values ELSE {written})
      BY <1>5 DEF TypeOK, Wrote
  <2>6. Queue' = Append(JobQueue!Left(true_done(done)),
                        [core |-> HolderCore, params |-> params[pointer_context]])
      BY <1>1, <1>2, <1>7, <2>2
  <2>7. written' = NoValue
      BY <1>w, <1>7
  <2> QED
      BY <2>2, <2>4, <2>5, <2>6, <2>7 DEF JobQueue!Offload, Queue
<1>8. CASE op \notin {"trigger", "params"} /\ ~(op = "testset" /\ Response >= 0)
  <2>1. \A d \in Cores : Holds(d)' <=> Holds(d)
      BY <1>5, <1>8, TickHolders
  <2>2. HolderCore' = HolderCore
      BY <1>3, <1>4, <2>1
  <2> QED
      BY <1>1, <1>2, <1>w, <1>8, <2>2 DEF JobQueue!Nothing, Queue
<1>9. CASE op = "params"
  <2>1. \A d \in Cores : Holds(d)' <=> Holds(d)
      BY <1>5, <1>9, TickHolders
  <2>2. HolderCore' = HolderCore
      BY <1>3, <1>4, <2>1
  <2>3. HolderCore # NoCore
    <3>1. Holds(c)
        BY <1>9 DEF Tick, Holds
    <3> QED
        BY <1>3, <3>1, ConstantsAssumption
  <2> QED
      BY <1>1, <1>2, <1>w, <1>9, <2>2, <2>3 DEF JobQueue!Write, Queue
<1> QED
    BY <1>6, <1>7, <1>8, <1>9

\* The soft clear empties the queue.
LEMMA TickClear ==
    ASSUME ContextInv, ContextInv', NEW op \in Ops, NEW c \in Cores, NEW value \in Values,
           NEW done \in BOOLEAN, Tick(op, c, value, done), clear_o
    PROVE  JobQueue!Clear
<1>1. fsm_running(done) /\ event_interrupt_proc(done) /\ fsm_context(op)
    BY DEF Tick, Clock, Registers
<1>2. counter_pending' = 0
    BY TickCount
<1>3. Queue' = <<>>
    BY <1>2 DEF Queue
<1>4. running_state' # "running" /\ evt' = NoCore /\ ~is_critical'
    BY <1>1, FsmRunning DEF event_interrupt_proc, fsm_context, ContextInv, TypeOK
<1>5. HolderCore' = NoCore
  <2>1. (ContextInv => HolderHolds)'
      BY HolderIs, PTL
  <2> QED
      BY <1>4, <2>1 DEF HolderHolds
<1>6. written' = NoValue
    BY DEF Tick, Clock, History
<1> QED
    BY <1>3, <1>4, <1>5, <1>6 DEF JobQueue!Clear, Queue

\* The control slave implements the queue of jobs: a lock, first in first out,
\* each job with the core that offloaded it and the parameters that core wrote,
\* for two and for four contexts, any number of cores and any contents of the
\* job registers.
THEOREM SlaveImplementsJobQueue == Spec => ImplementsJobQueue
<1>1. Init => JobQueue!Init
  <2> SUFFICES ASSUME Init PROVE JobQueue!Init
      OBVIOUS
  <2>1. Queue = <<>>
      BY DEF Init, Queue
  <2>2. HolderCore = NoCore
      BY DEF Init, HolderCore, Holds, Granted
  <2> QED
      BY <2>1, <2>2 DEF Init, JobQueue!Init, Queue
<1>2. ContextInv /\ ContextInv' /\ Wrote /\ [Next]_vars => [JobQueue!Next]_(JobQueue!vars)
  <2> SUFFICES ASSUME ContextInv, ContextInv', Wrote, [Next]_vars
               PROVE  [JobQueue!Next]_(JobQueue!vars)
      OBVIOUS
  <2>1. CASE Next
    <3>1. PICK op \in Ops, c \in Cores, value \in Values, done \in BOOLEAN :
             Tick(op, c, value, done)
        BY <2>1, NextIsTick
    <3>2. CASE clear_o
        BY <3>1, <3>2, TickClear DEF JobQueue!Next
    <3>3. CASE ~clear_o
      <4>1. JobQueue!Engine(true_done(done))
          BY <3>1, <3>3, TickEngine
      <4>2. \/ JobQueue!Nothing(true_done(done))
            \/ JobQueue!Acquire(true_done(done))
            \/ JobQueue!Write(true_done(done))
            \/ JobQueue!Offload(true_done(done))
          BY <3>1, <3>3, TickCores
      <4>3. true_done(done) \in BOOLEAN
          BY DEF true_done, ContextInv, TypeOK
      <4> QED
          BY <4>1, <4>2, <4>3 DEF JobQueue!Next, JobQueue!Cycle
    <3> QED
        BY <3>2, <3>3
  <2>2. CASE UNCHANGED vars
    <3>1. HolderCore' = HolderCore
        BY <2>2 DEF vars, slave, regfile, HolderCore, Holds, Granted
    <3>2. Queue' = Queue
        BY <2>2 DEF vars, slave, regfile, Queue, PendingJob
    <3>3. evt' = evt /\ running_state' = running_state /\ written' = written
        BY <2>2 DEF vars, slave
    <3> QED
        BY <3>1, <3>2, <3>3 DEF JobQueue!vars, Queue
  <2> QED
      BY <2>1, <2>2
<1> QED
    BY <1>1, <1>2, ContextInvariance, WroteInvariance, PTL DEF Spec, ImplementsJobQueue, JobQueue!Spec
=============================================================================
