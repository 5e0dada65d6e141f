----------------------------- MODULE HwpeUcode -----------------------------
(***************************************************************************)
(* The microcode processor hwpe_ctrl_ucode.sv, cycle by cycle, next to the *)
(* Python model of it (ucode_common.py), and the compiler of that file     *)
(* which turns code.yml into the bits the processor decodes.               *)
(*                                                                         *)
(* Loops, addresses and registers are numbered from 0 as in the source.    *)
(* The Python model has integers without a width, a fixed number of loops, *)
(* and raises an exception where the list of loops ends before that number.*)
(* The module has one action for each kind of clock cycle, by the inputs   *)
(* enable and clear; MacCtrl.tla drives it.                                *)
(***************************************************************************)
EXTENDS Integers, SequencesExt

CONSTANTS
    Sources,     \* microprograms: loop bodies as in code.yml, and the ranges
    Mnemonics,   \* the names of code.yml for registers
    ReadOnly,    \* registers_read_i, a function on register numbers
    NB_REG, REG_WIDTH, CNT_WIDTH,
    ADDR_WIDTH   \* $clog2(LENGTH)

ASSUME UcodeAssumption ==
    /\ {NB_REG, REG_WIDTH, CNT_WIDTH, ADDR_WIDTH} \subseteq Nat \ {0}
    /\ {2^REG_WIDTH, 2^CNT_WIDTH, 2^ADDR_WIDTH} \subseteq Nat \ {0}
    /\ \A s \in Sources : Len(s.body) = Len(s.range)

VARIABLES
    source,                   \* the microprogram
    ucode,                    \* ucode_i: its fields as the processor sees them
    addr, loop, op, idx,      \* curr_addr, curr_loop, curr_op, curr_idx
    registers,
    busy_sticky, done_sticky,
    valid,                    \* flags_o.valid
    golden                    \* the Python model, stepped with the processor

fetch == <<addr, loop, op, idx>>
flags == <<busy_sticky, done_sticky, valid>>
vars == <<source, ucode, fetch, registers, flags, golden>>

(***************************************************************************)
(* The compiler                                                            *)
(***************************************************************************)
RegisterOf(name) == IF name \in DOMAIN Mnemonics THEN Mnemonics[name] ELSE name

\* ucode_load: the bodies one after the other, with numbers for names.
Instruction(c) == [op_sel |-> IF c.op = "add" THEN 1 ELSE 0,
                   a |-> RegisterOf(c.a), b |-> RegisterOf(c.b)]
ucode_load(s) ==
    LET code == FlattenSeq(s.body)
    IN  [n \in 0..(Len(code) - 1) |-> Instruction(code[n + 1])]

\* ucode_get_loops: each loop begins where the one before ends.
ucode_get_loops(s) ==
    LET start[l \in 0..Len(s.body)] ==
            IF l = 0 THEN 0 ELSE start[l - 1] + Len(s.body[l])
    IN  [l \in 0..(Len(s.body) - 1) |->
            [nb_ops |-> Len(s.body[l + 1]), range |-> s.range[l + 1], ucode_addr |-> start[l]]]

\* An unsigned number in w bits, most significant bit first, and back.
Bits(n, w) == [i \in 1..w |-> (n \div 2^(w - i)) % 2]
Number(bits) == FoldLeft(LAMBDA n, bit : 2 * n + bit, 0, bits)

\* ucode_bytecode: the last element is in the most significant bits.
Pack(elements) == FlattenSeq(Reverse(elements))
CodeBits(code) ==
    Pack([n \in 1..Cardinality(DOMAIN code) |->
            Bits(code[n - 1].op_sel, 1) \o Bits(code[n - 1].a, 5) \o Bits(code[n - 1].b, 5)])
LoopBits(loops) ==
    Pack([n \in 1..Cardinality(DOMAIN loops) |->
            Bits(loops[n - 1].ucode_addr, 5) \o Bits(loops[n - 1].nb_ops, 3)])

\* Bits hi..lo of element n of a packed array with elements of w bits.
Field(bits, w, n, hi, lo) ==
    Number(SubSeq(bits, Len(bits) - w * n - hi, Len(bits) - w * n - lo))

\* The packed struct ucode_t; the ranges come from other registers.
ucode_t(code, loops, range) ==
    [code |-> [n \in 0..(Len(code) \div 11 - 1) |->
                  [op_sel |-> Field(code, 11, n, 10, 10),
                   a |-> Field(code, 11, n, 9, 5), b |-> Field(code, 11, n, 4, 0)]],
     loops |-> [l \in 0..(Len(range) - 1) |->
                  [nb_ops |-> Field(loops, 8, l, 2, 0), range |-> range[l + 1],
                   ucode_addr |-> Field(loops, 8, l, 7, 3)]]]
Decoded(s) == ucode_t(CodeBits(ucode_load(s)), LoopBits(ucode_get_loops(s)), s.range)

\* A microprogram s that the processor can run from the fields u: the fields
\* are those the compiler was given, they fit the widths of the processor,
\* every loop has instructions, and registers that are written exist.  (A
\* range of 0 fits as well: it has no end in unsigned arithmetic.)
Fits(s, u) ==
    /\ Len(s.body) \in Nat \ {0}
    /\ u.code = ucode_load(s)
    /\ u.loops = ucode_get_loops(s)
    /\ DOMAIN u.loops = 0..(Len(s.body) - 1)
    /\ u.loops[0].ucode_addr = 0
    /\ \A l \in DOMAIN u.loops :
          /\ u.loops[l].ucode_addr \in Nat
          /\ u.loops[l].nb_ops \in 1..7
          /\ u.loops[l].range \in 0..(2^CNT_WIDTH - 1)
          /\ \A n \in 0..(u.loops[l].nb_ops - 1) : u.loops[l].ucode_addr + n \in DOMAIN u.code
    /\ \A n \in DOMAIN u.code :
          /\ n \in 0..(2^ADDR_WIDTH - 1)
          /\ u.code[n].a \in 0..(NB_REG - 1)
          /\ u.code[n].b \in Nat
          /\ u.code[n].b >= NB_REG => ReadOnly[u.code[n].b] \in 0..(2^REG_WIDTH - 1)

(***************************************************************************)
(* The processor                                                           *)
(***************************************************************************)
NB_LOOPS == Len(source.body)
Loops == 0..(NB_LOOPS - 1)
Here == ucode.loops[loop]

\* x < limit - 1 in unsigned arithmetic: true of every x when limit is 0.
Below(x, limit) == limit = 0 \/ x < limit - 1

exec_int == Below(idx[loop], Here.range)
busy_int == exec_int /\ Below(op, Here.nb_ops)
done_int == ~exec_int /\ loop = NB_LOOPS - 1
done == done_int \/ done_sticky

UpdateCurrentLoop ==
    /\ busy_int
    /\ addr' = (addr + 1) % 2^ADDR_WIDTH
    /\ op' = (op + 1) % 8
    /\ UNCHANGED <<loop, idx>>

\* Mutant: the indices of the inner loops are not reset.
IterateGotoLoop0Keeps ==
    /\ exec_int /\ ~busy_int
    /\ loop > 0
    /\ loop' = 0
    /\ idx' = [idx EXCEPT ![loop] = (@ + 1) % 2^CNT_WIDTH]
    /\ addr' = ucode.loops[0].ucode_addr
    /\ op' = 0

IterateGotoLoop0 ==
    /\ exec_int /\ ~busy_int
    /\ loop > 0
    /\ loop' = 0
    /\ idx' = [j \in Loops |-> IF j < loop THEN 0
                               ELSE IF j = loop THEN (idx[j] + 1) % 2^CNT_WIDTH ELSE idx[j]]
    /\ addr' = ucode.loops[0].ucode_addr
    /\ op' = 0

IterateCurrentLoop ==
    /\ exec_int /\ ~busy_int
    /\ loop = 0
    /\ idx' = [idx EXCEPT ![0] = (@ + 1) % 2^CNT_WIDTH]
    /\ addr' = Here.ucode_addr
    /\ op' = 0
    /\ UNCHANGED loop

GotoNextLoop ==
    /\ ~exec_int
    /\ loop < NB_LOOPS - 1
    /\ loop' = loop + 1
    /\ addr' = ucode.loops[loop + 1].ucode_addr
    /\ op' = 0
    /\ UNCHANGED idx

Terminate ==
    /\ done_int
    /\ addr' = 0 /\ loop' = 0 /\ op' = 0
    /\ idx' = [j \in Loops |-> 0]

ucode_fetch == \/ UpdateCurrentLoop \/ IterateGotoLoop0 \/ IterateCurrentLoop
               \/ GotoNextLoop \/ Terminate

Read(regs, r) == IF r < NB_REG THEN regs[r] ELSE ReadOnly[r]
Executed(c, regs) ==
    [regs EXCEPT ![c.a] = IF c.op_sel = 1 THEN (Read(regs, c.a) + Read(regs, c.b)) % 2^REG_WIDTH
                          ELSE Read(regs, c.b)]

ucode_execute_comb == registers' = IF exec_int THEN Executed(ucode.code[addr], registers) ELSE registers

sticky(enable) ==
    /\ valid' = (busy_sticky /\ ~busy_int)
    /\ busy_sticky' = (busy_int /\ (enable \/ busy_sticky))
    /\ done_sticky' = IF done_int THEN TRUE ELSE done_sticky /\ ~valid

(***************************************************************************)
(* The Python model                                                        *)
(***************************************************************************)
PY_NB_LOOPS == 6    \* NB_LOOPS of ucode_common.py

GoldenStart == [addr |-> 0, loop |-> 0, op |-> 0, idx |-> [j \in Loops |-> 0],
                registers |-> [r \in 0..(NB_REG - 1) |-> 0], raised |-> FALSE]

\* What ucode_state_machine returns for the present state, its next state
\* (the registers are not its own) with it.  There is no entry for a next loop
\* that the microprogram does not have: an IndexError.
Returns(execute, end, busy, next) ==
    [execute |-> execute, end |-> end, busy |-> busy, next |-> next]
GoldenAt(a, l, o, i, raised) ==
    [addr |-> a, loop |-> l, op |-> o, idx |-> i, registers |-> golden.registers, raised |-> raised]
ucode_state_machine ==
    LET loops  == ucode_get_loops(source)
        g      == golden
        within == g.idx[g.loop] < loops[g.loop].range - 1
        below  == g.op < loops[g.loop].nb_ops - 1
        turned == [j \in Loops |-> IF j < g.loop THEN 0
                                   ELSE IF j = g.loop THEN g.idx[j] + 1 ELSE g.idx[j]]
    IN  CASE within /\ below ->
                 Returns(TRUE, FALSE, TRUE, GoldenAt(g.addr + 1, g.loop, g.op + 1, g.idx, FALSE))
          [] within /\ ~below ->
                 Returns(TRUE, FALSE, FALSE, GoldenAt(loops[0].ucode_addr, 0, 0, turned, FALSE))
          [] ~within /\ g.loop < PY_NB_LOOPS - 1 ->
                 Returns(FALSE, FALSE, TRUE,
                    IF g.loop + 1 \in Loops
                    THEN GoldenAt(loops[g.loop + 1].ucode_addr, g.loop + 1, 0, g.idx, FALSE)
                    ELSE GoldenAt(g.addr, g.loop, g.op, g.idx, TRUE))
          [] OTHER -> Returns(FALSE, TRUE, FALSE, GoldenAt(0, 0, 0, [j \in Loops |-> 0], FALSE))

ucode_execute(c, regs) ==
    [regs EXCEPT ![c.a] = IF c.op_sel = 1 THEN Read(regs, c.a) + Read(regs, c.b)
                          ELSE Read(regs, c.b)]

\* One call of the state machine and, when it says so, of ucode_execute.
GoldenNext ==
    LET m == ucode_state_machine
    IN  IF golden.raised THEN golden
        ELSE IF m.execute
        THEN [m.next EXCEPT !.registers = ucode_execute(ucode_load(source)[golden.addr], @)]
        ELSE m.next

(***************************************************************************)
(* Cycles of the clock, by the inputs enable and clear                     *)
(***************************************************************************)
Enabled ==
    /\ ucode_fetch
    /\ ucode_execute_comb
    /\ sticky(TRUE)
    /\ golden' = GoldenNext

Disabled ==
    /\ sticky(FALSE)
    /\ UNCHANGED <<fetch, registers, golden>>

Reset ==
    /\ addr' = 0 /\ loop' = 0 /\ op' = 0
    /\ idx' = [j \in Loops |-> 0]
    /\ registers' = [r \in 0..(NB_REG - 1) |-> 0]
    /\ busy_sticky' = FALSE /\ done_sticky' = FALSE /\ valid' = FALSE
    /\ golden' = GoldenStart

Cleared ==
    /\ addr = 0 /\ loop = 0 /\ op = 0
    /\ idx = [j \in Loops |-> 0]
    /\ registers = [r \in 0..(NB_REG - 1) |-> 0]
    /\ busy_sticky = FALSE /\ done_sticky = FALSE /\ valid = FALSE
    /\ golden = GoldenStart

(***************************************************************************)
(* What the microprogram means: nested loops, the first one innermost      *)
(***************************************************************************)
\* Every loop has an end.  The index of a loop that has none wraps.
Limited == \A l \in Loops : source.range[l + 1] # 0
Turns(l) == IF source.range[l] = 0 THEN 2^CNT_WIDTH ELSE source.range[l]

\* Iterations of all loops below l together.
Period(l) == LET p[k \in 0..NB_LOOPS] == IF k = 0 THEN 1 ELSE p[k - 1] * Turns(k) IN p[l]
Total == Period(NB_LOOPS)

\* Index of loop l in iteration n, and the loop whose body leads to n.
Index(n, l) == (n \div Period(l)) % Turns(l + 1)
Advancing(n) == CHOOSE l \in Loops : Index(n, l) # 0 /\ \A k \in Loops : k < l => Index(n, k) = 0

Body(l, regs) ==
    FoldLeft(LAMBDA r, c : Executed(Instruction(c), r), regs, source.body[l + 1])
Offsets(n) ==
    LET after[m \in 0..n] == IF m = 0 THEN [r \in 0..(NB_REG - 1) |-> 0]
                             ELSE Body(Advancing(m), after[m - 1])
    IN  after[n]

(***************************************************************************)
(* Properties                                                              *)
(***************************************************************************)
\* Microprograms that mean something to both: loops that end, and no more of
\* them than the Python model has.
Comparable == NB_LOOPS <= PY_NB_LOOPS /\ Limited

\* The Python model at the same place, with registers equal up to their width.
SameState ==
    /\ golden.addr = addr /\ golden.loop = loop /\ golden.op = op /\ golden.idx = idx
    /\ \A r \in 0..(NB_REG - 1) : registers[r] = golden.registers[r] % 2^REG_WIDTH

\* It says the same of the next cycle, but for busy while it goes to the next
\* loop, which the processor does not count as busy; an IndexError comes only
\* where the processor ends.
SameFlags ==
    LET m == ucode_state_machine
    IN  IF m.next.raised THEN done_int
        ELSE /\ m.execute = exec_int
             /\ m.end = done_int
             /\ m.busy = (busy_int \/ (~exec_int /\ ~done_int))

\* The processor runs in step with the Python model, which reads the program
\* before it is packed and has no widths: compiled bits, and the bits that
\* mac_ctrl.sv wires in as "equivalent to the microcode in ucode/code.yml",
\* mean the same program, up to the exception that ends a Python run of a
\* microprogram of fewer than six loops.
GoldenAgrees ==
    Comparable =>
        /\ ~golden.raised => SameState /\ SameFlags
        /\ golden.raised => NB_LOOPS < PY_NB_LOOPS
=============================================================================
