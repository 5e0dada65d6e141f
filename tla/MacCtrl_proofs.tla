--------------------------- MODULE MacCtrl_proofs ---------------------------
(***************************************************************************)
(* The microcode processor under the controller of the MAC engine, for any *)
(* microprograms that fit its widths, any number of loops, registers and   *)
(* jobs.                                                                   *)
(***************************************************************************)
EXTENDS MacCtrl, TLAPS

(***************************************************************************)
(* Remainders                                                              *)
(***************************************************************************)

\* A multiple of m between -m and m is zero.
LEMMA SmallMultiple ==
    ASSUME NEW m \in Nat \ {0}, NEW d \in Int, m * d < m, m * d > -m
    PROVE  d = 0
<1>1. d >= 1 => m * d >= m
    BY SMT
<1>2. d <= -1 => m * d <= -m
    BY SMT
<1> QED
    BY <1>1, <1>2

\* A remainder is the only one of its kind.
LEMMA OneRemainder ==
    ASSUME NEW m \in Nat \ {0}, NEW q \in Int, NEW p \in Int,
           NEW r \in 0..(m - 1), NEW s \in 0..(m - 1), m * q + r = m * p + s
    PROVE  r = s
<1>1. PICK d \in Int : d = q - p
    OBVIOUS
<1>2. m * d = s - r
  <2>1. q = p + d
    BY <1>1
  <2>2. m * q = m * p + m * d
    BY <2>1
  <2>3. PICK a \in Int, b \in Int, c \in Int : a = m * q /\ b = m * p /\ c = m * d
    BY <1>1
  <2> QED
    BY <2>2, <2>3
<1>3. d = 0
  <2>1. s - r < m /\ s - r > -m
    OBVIOUS
  <2> QED
    BY <1>2, <2>1, SmallMultiple
<1>4. m * d = 0
    BY <1>3
<1> QED
    BY <1>2, <1>4

\* A number and its remainder.
LEMMA Remainder ==
    ASSUME NEW m \in Nat \ {0}, NEW x \in Nat
    PROVE  /\ x % m \in 0..(m - 1)
           /\ \E q \in Int : x = m * q + (x % m)
<1>1. x \div m \in Int /\ x = m * (x \div m) + (x % m)
    BY SMT
<1>2. x % m \in 0..(m - 1)
    BY SMT
<1> QED
    BY <1>1, <1>2, Zenon

\* A register of a given width sums as if it had none.
LEMMA ModSum ==
    ASSUME NEW m \in Nat \ {0}, NEW x \in Nat, NEW y \in Nat
    PROVE  ((x % m) + (y % m)) % m = (x + y) % m
<1>1. PICK a \in Int : x = m * a + (x % m)
    BY Remainder
<1>2. PICK b \in Int : y = m * b + (y % m)
    BY Remainder
<1>n. (x % m) + (y % m) \in Nat /\ x + y \in Nat
    BY SMT
<1>u. PICK u \in Nat : u = (x % m) + (y % m)
    BY <1>n
<1>v. PICK v \in Nat : v = x + y
    BY <1>n
<1>4. PICK c \in Int : u = m * c + (u % m)
    BY Remainder
<1>5. PICK e \in Int : v = m * e + (v % m)
    BY Remainder
<1>6. u % m \in 0..(m - 1) /\ v % m \in 0..(m - 1)
    BY Remainder
<1>7. v = m * (a + b + c) + (u % m)
  <2>1. m * (a + b + c) = m * a + m * b + m * c
      OBVIOUS
  <2>2. v = m * a + m * b + u
      BY <1>1, <1>2, <1>u, <1>v
  <2> QED
      BY <1>4, <1>6, <2>1, <2>2
<1>8. u % m = v % m
  <2>1. m * (a + b + c) + (u % m) = m * e + (v % m)
      BY <1>5, <1>7
  <2>2. a + b + c \in Int
      OBVIOUS
  <2> QED
      BY <1>6, <2>1, <2>2, OneRemainder
<1> QED
    BY <1>u, <1>v, <1>8

(***************************************************************************)
(* The inductive invariant                                                 *)
(***************************************************************************)

\* The processor runs a program that fits, and is inside the body of a loop.
Loaded == Fits(source, ucode)
InBody ==
    /\ loop \in Loops
    /\ op \in 0..(Here.nb_ops - 1)
    /\ addr = Here.ucode_addr + op

\* The registers have their widths.
Widths ==
    /\ idx \in [Loops -> 0..(2^CNT_WIDTH - 1)]
    /\ registers \in [0..(NB_REG - 1) -> 0..(2^REG_WIDTH - 1)]
    /\ {busy_sticky, done_sticky, valid} \subseteq BOOLEAN

Processor == Loaded /\ InBody /\ Widths

\* The controller has its types.
Machine ==
    /\ fsm \in {"IDLE", "START", "WAIT", "COMPUTE", "UPDATEIDX", "TERMINATE"}
    /\ job \in Nat \cup {-1}
    /\ job = -1 <=> fsm = "IDLE"
    /\ computations \in Nat
Controller == Machine /\ ready \in BOOLEAN /\ cut \in BOOLEAN

(***************************************************************************)
(* What it means that a program fits                                       *)
(***************************************************************************)

\* The widths are numbers.
LEMMA WidthNumbers ==
    /\ NB_REG \in Nat /\ NB_REG >= 1
    /\ 2^REG_WIDTH \in Nat /\ 2^REG_WIDTH >= 1
    /\ 2^CNT_WIDTH \in Nat /\ 2^CNT_WIDTH >= 1
    /\ 2^ADDR_WIDTH \in Nat /\ 2^ADDR_WIDTH >= 1
BY UcodeAssumption

\* The current loop of a loaded program.
LEMMA CurrentLoop ==
    ASSUME Loaded, NEW l \in Loops
    PROVE  /\ NB_LOOPS \in Nat /\ NB_LOOPS >= 1 /\ 0 \in Loops
           /\ l \in Nat /\ l < NB_LOOPS
           /\ ucode.loops[l].ucode_addr \in Nat
           /\ ucode.loops[l].nb_ops \in 1..7
           /\ ucode.loops[l].range \in 0..(2^CNT_WIDTH - 1)
           /\ \A n \in 0..(ucode.loops[l].nb_ops - 1) :
                 /\ ucode.loops[l].ucode_addr + n \in DOMAIN ucode.code
                 /\ ucode.loops[l].ucode_addr + n \in 0..(2^ADDR_WIDTH - 1)
           /\ ucode.loops[0].ucode_addr = 0
<1>1. NB_LOOPS \in Nat /\ NB_LOOPS >= 1 /\ Loops = 0..(NB_LOOPS - 1)
      /\ DOMAIN ucode.loops = 0..(NB_LOOPS - 1)
    BY DEF Loaded, Fits, NB_LOOPS, Loops
<1>2. l \in DOMAIN ucode.loops /\ l \in Nat /\ l < NB_LOOPS /\ 0 \in Loops
    BY <1>1
<1>3. /\ ucode.loops[l].ucode_addr \in Nat
      /\ ucode.loops[l].nb_ops \in 1..7
      /\ ucode.loops[l].range \in 0..(2^CNT_WIDTH - 1)
      /\ \A n \in 0..(ucode.loops[l].nb_ops - 1) : ucode.loops[l].ucode_addr + n \in DOMAIN ucode.code
      /\ ucode.loops[0].ucode_addr = 0
      /\ \A n \in DOMAIN ucode.code : n \in 0..(2^ADDR_WIDTH - 1)
    BY <1>2 DEF Loaded, Fits
<1> QED
    BY <1>1, <1>2, <1>3

\* There is a first loop, and its body begins at address 0.
StartsAtZero == 0 \in Loops /\ ucode.loops[0].ucode_addr = 0 /\ ucode.loops[0].nb_ops \in 1..7
LEMMA FirstLoop == Loaded => StartsAtZero
<1> SUFFICES ASSUME Loaded PROVE StartsAtZero
    OBVIOUS
<1>1. 0 \in Loops
    BY DEF Loaded, Fits, NB_LOOPS, Loops
<1> QED
    BY <1>1, CurrentLoop DEF StartsAtZero

\* An instruction of a loaded program writes a value of the right width.
LEMMA ExecutedWidth ==
    ASSUME Loaded, NEW n \in DOMAIN ucode.code,
           registers \in [0..(NB_REG - 1) -> 0..(2^REG_WIDTH - 1)]
    PROVE  Executed(ucode.code[n], registers) \in [0..(NB_REG - 1) -> 0..(2^REG_WIDTH - 1)]
<1> DEFINE c == ucode.code[n]
<1>1. c.a \in 0..(NB_REG - 1) /\ c.b \in Nat
      /\ (c.b >= NB_REG => ReadOnly[c.b] \in 0..(2^REG_WIDTH - 1))
    BY DEF Loaded, Fits
<1> HIDE DEF c
<1>2. Read(registers, c.a) \in 0..(2^REG_WIDTH - 1)
    BY <1>1, WidthNumbers DEF Read
<1>3. Read(registers, c.b) \in 0..(2^REG_WIDTH - 1)
  <2>1. CASE c.b < NB_REG
    <3>1. c.b \in 0..(NB_REG - 1)
        BY <1>1, <2>1, WidthNumbers
    <3> QED
        BY <2>1, <3>1 DEF Read
  <2>2. CASE ~(c.b < NB_REG)
    <3>1. c.b >= NB_REG
        BY <1>1, <2>2, WidthNumbers
    <3> QED
        BY <1>1, <2>2, <3>1 DEF Read
  <2> QED
      BY <2>1, <2>2
<1>4. (Read(registers, c.a) + Read(registers, c.b)) % 2^REG_WIDTH \in 0..(2^REG_WIDTH - 1)
    BY <1>2, <1>3, WidthNumbers
<1>5. PICK v \in 0..(2^REG_WIDTH - 1) : Executed(c, registers) = [registers EXCEPT ![c.a] = v]
    BY <1>3, <1>4 DEF Executed
<1> QED
    BY <1>1, <1>5 DEF c

(***************************************************************************)
(* The processor keeps its types                                           *)
(***************************************************************************)

\* A reset puts the processor at the start of the first loop.
LEMMA ResetProcessor ==
    ASSUME Loaded, Loaded', Reset, Loops' = Loops
    PROVE  Processor'
<1>1. StartsAtZero'
  <2>1. (Loaded => StartsAtZero)'
      BY FirstLoop, PTL
  <2> QED
      BY <2>1
<1>2. InBody'
    BY <1>1 DEF StartsAtZero, Reset, InBody, Here
<1>3. Widths'
  <2>1. 0 \in 0..(2^CNT_WIDTH - 1) /\ 0 \in 0..(2^REG_WIDTH - 1)
      BY WidthNumbers
  <2> QED
      BY <2>1 DEF Reset, Widths
<1> QED
    BY <1>2, <1>3 DEF Processor

\* The sticky flags are Boolean.
LEMMA StickyFlags ==
    ASSUME NEW enable \in BOOLEAN, sticky(enable), {busy_sticky, done_sticky, valid} \subseteq BOOLEAN
    PROVE  {busy_sticky, done_sticky, valid}' \subseteq BOOLEAN
<1>1. busy_int \in BOOLEAN /\ done_int \in BOOLEAN
    BY Zenon DEF busy_int, done_int, exec_int
<1>2. valid' \in BOOLEAN /\ busy_sticky' \in BOOLEAN
    BY <1>1, Zenon DEF sticky
<1>3. done_sticky' \in BOOLEAN
    BY <1>1, Zenon DEF sticky
<1> QED
    BY <1>2, <1>3

\* With enable low, only the flags change.
LEMMA DisabledProcessor ==
    ASSUME Processor, Disabled, UNCHANGED <<source, ucode>>
    PROVE  Processor'
<1>1. {busy_sticky, done_sticky, valid}' \subseteq BOOLEAN
    BY StickyFlags DEF Disabled, Processor, Widths
<1>2. Widths'
    BY <1>1 DEF Disabled, Processor, Widths, Loops, NB_LOOPS, fetch
<1> QED
    BY <1>2 DEF Processor, Disabled, fetch, Loaded, InBody, Here, Loops, NB_LOOPS

(***************************************************************************)
(* A cycle with enable high                                                *)
(***************************************************************************)

\* Within the ranges of a program that fits, the unsigned comparisons are the
\* ones that the Python model makes, and no counter of the processor wraps but
\* the index of a loop without an end.
Compares ==
    /\ exec_int <=> Here.range = 0 \/ idx[loop] < Here.range - 1
    /\ busy_int <=> exec_int /\ op < Here.nb_ops - 1
    /\ idx[loop] \in 0..(2^CNT_WIDTH - 1)
    /\ (idx[loop] + 1) % 2^CNT_WIDTH \in 0..(2^CNT_WIDTH - 1)
    /\ exec_int /\ Here.range # 0 => (idx[loop] + 1) % 2^CNT_WIDTH = idx[loop] + 1
    /\ busy_int => /\ (op + 1) % 8 = op + 1
                   /\ (addr + 1) % 2^ADDR_WIDTH = addr + 1
                   /\ op + 1 \in 0..(Here.nb_ops - 1)
    /\ addr \in DOMAIN ucode.code /\ op \in Nat /\ op < 8

LEMMA NoWrap ==
    ASSUME Processor
    PROVE  Compares
<1> DEFINE r == Here.range
           n == Here.nb_ops
           a == Here.ucode_addr
<1>1. /\ a \in Nat /\ n \in 1..7 /\ r \in 0..(2^CNT_WIDTH - 1)
      /\ \A m \in 0..(n - 1) : a + m \in DOMAIN ucode.code /\ a + m \in 0..(2^ADDR_WIDTH - 1)
    BY CurrentLoop DEF Processor, InBody, Here
<1>2. idx[loop] \in 0..(2^CNT_WIDTH - 1) /\ op \in 0..(n - 1) /\ addr = a + op
    BY DEF Processor, InBody, Widths
<1>3. exec_int <=> r = 0 \/ idx[loop] < r - 1
    BY <1>1 DEF exec_int, Below
<1>4. busy_int <=> exec_int /\ op < n - 1
    BY <1>1 DEF busy_int, Below
<1> HIDE DEF r, n, a
<1>5. /\ (idx[loop] + 1) % 2^CNT_WIDTH \in 0..(2^CNT_WIDTH - 1)
      /\ exec_int /\ r # 0 => (idx[loop] + 1) % 2^CNT_WIDTH = idx[loop] + 1
  <2>1. PICK m \in Nat \ {0} : m = 2^CNT_WIDTH
      BY WidthNumbers
  <2>2. PICK x \in 0..(m - 1) : x = idx[loop]
      BY <1>2, <2>1
  <2>3. (x + 1) % m \in 0..(m - 1)
      BY Remainder
  <2>4. x < r - 1 => (x + 1) % m = x + 1
      BY <1>1, <2>1
  <2> QED
      BY <1>3, <2>1, <2>2, <2>3, <2>4
<1>6. busy_int => op + 1 \in 0..(n - 1) /\ (op + 1) % 8 = op + 1
    BY <1>1, <1>2, <1>4
<1>7. busy_int => (addr + 1) % 2^ADDR_WIDTH = addr + 1
  <2>1. ASSUME busy_int PROVE a + (op + 1) \in 0..(2^ADDR_WIDTH - 1)
      BY <1>1, <1>6, <2>1
  <2> QED
      BY <1>1, <1>2, <2>1, WidthNumbers
<1>8. addr \in DOMAIN ucode.code /\ op \in Nat /\ op < 8
    BY <1>1, <1>2
<1> QED
    BY <1>2, <1>3, <1>4, <1>5, <1>6, <1>7, <1>8 DEF Compares, r, n

\* The processor stays inside a body and inside its widths.
LEMMA EnabledProcessor ==
    ASSUME Processor, Enabled, UNCHANGED <<source, ucode>>
    PROVE  Processor'
<1>1. Compares /\ Loaded /\ loop \in Loops
    BY NoWrap DEF Processor, InBody
<1>2. Loops' = Loops /\ NB_LOOPS' = NB_LOOPS
    BY DEF Loops, NB_LOOPS
<1>3. /\ NB_LOOPS \in Nat /\ loop \in Nat /\ loop < NB_LOOPS /\ Loops = 0..(NB_LOOPS - 1)
      /\ 0 \in Loops /\ ucode.loops[0].ucode_addr = 0
      /\ \A l \in Loops : ucode.loops[l].ucode_addr \in Nat /\ ucode.loops[l].nb_ops \in 1..7
    BY <1>1, CurrentLoop DEF Loops
<1>4. registers' \in [0..(NB_REG - 1) -> 0..(2^REG_WIDTH - 1)]
    BY <1>1, ExecutedWidth DEF Enabled, ucode_execute_comb, Processor, Widths, Compares
<1>5. {busy_sticky, done_sticky, valid}' \subseteq BOOLEAN
    BY StickyFlags DEF Enabled, Processor, Widths
<1>6. ASSUME NEW l \in Loops, loop' = l, op' = 0, addr' = ucode.loops[l].ucode_addr PROVE InBody'
  <2>1. /\ ucode.loops[l].ucode_addr + 0 = ucode.loops[l].ucode_addr
        /\ 0 \in 0..(ucode.loops[l].nb_ops - 1)
      BY <1>3
  <2>2. Here' = ucode.loops[l] /\ loop' \in Loops'
      BY <1>2, <1>6 DEF Here
  <2> QED
      BY <1>6, <2>1, <2>2 DEF InBody
<1>7. 0 \in 0..(2^CNT_WIDTH - 1)
    BY WidthNumbers
<1>8. InBody' /\ idx' \in [Loops -> 0..(2^CNT_WIDTH - 1)]
  <2>1. CASE UpdateCurrentLoop
    <3>1. addr' = addr + 1 /\ op' = op + 1 /\ op + 1 \in 0..(Here.nb_ops - 1) /\ op \in Nat
        BY <1>1, <2>1 DEF UpdateCurrentLoop, Compares
    <3>2. addr + 1 = Here.ucode_addr + (op + 1)
      <4>1. addr = Here.ucode_addr + op
          BY DEF Processor, InBody
      <4>2. Here.ucode_addr \in Nat
          BY <1>1, <1>3 DEF Here
      <4> QED
          BY <3>1, <4>1, <4>2
    <3> QED
        BY <1>1, <1>2, <2>1, <3>1, <3>2 DEF UpdateCurrentLoop, InBody, Here, Processor, Widths
  <2>2. CASE IterateGotoLoop0
    <3>1. (idx[loop] + 1) % 2^CNT_WIDTH \in 0..(2^CNT_WIDTH - 1)
        BY <1>1, <2>2 DEF IterateGotoLoop0, Compares
    <3>2. idx' \in [Loops -> 0..(2^CNT_WIDTH - 1)]
        BY <1>1, <1>7, <2>2, <3>1 DEF IterateGotoLoop0, Processor, Widths
    <3> QED
        BY <1>3, <1>6, <2>2, <3>2 DEF IterateGotoLoop0
  <2>3. CASE IterateCurrentLoop
    <3>1. (idx[0] + 1) % 2^CNT_WIDTH \in 0..(2^CNT_WIDTH - 1) /\ loop = 0
        BY <1>1, <2>3 DEF IterateCurrentLoop, Compares
    <3>2. idx' \in [Loops -> 0..(2^CNT_WIDTH - 1)]
        BY <1>3, <2>3, <3>1 DEF IterateCurrentLoop, Processor, Widths
    <3> QED
        BY <1>3, <1>6, <2>3, <3>1, <3>2 DEF IterateCurrentLoop, Here
  <2>4. CASE GotoNextLoop
    <3>1. loop + 1 \in Loops
        BY <1>3, <2>4 DEF GotoNextLoop
    <3> QED
        BY <1>6, <2>4, <3>1 DEF GotoNextLoop, Processor, Widths
  <2>5. CASE Terminate
      BY <1>3, <1>6, <1>7, <2>5 DEF Terminate
  <2> QED
      BY <2>1, <2>2, <2>3, <2>4, <2>5 DEF Enabled, ucode_fetch
<1> QED
    BY <1>1, <1>2, <1>4, <1>5, <1>8 DEF Processor, Widths, Loaded

(***************************************************************************)
(* The Python model goes along                                             *)
(***************************************************************************)

\* The Python model at the same place, with registers that have no width.
Alike ==
    /\ golden = [addr |-> addr, loop |-> loop, op |-> op, idx |-> idx,
                 registers |-> golden.registers, raised |-> FALSE]
    /\ golden.registers \in [0..(NB_REG - 1) -> Nat]
    /\ \A r \in 0..(NB_REG - 1) : registers[r] = golden.registers[r] % 2^REG_WIDTH
GoldenInv == Comparable => IF golden.raised THEN NB_LOOPS < PY_NB_LOOPS ELSE Alike

\* A value of the Python model, and the same in the width of a register.
LEMMA ReadAlike ==
    ASSUME Alike, NEW b \in Nat, b >= NB_REG => ReadOnly[b] \in 0..(2^REG_WIDTH - 1)
    PROVE  /\ Read(golden.registers, b) \in Nat
           /\ Read(registers, b) = Read(golden.registers, b) % 2^REG_WIDTH
<1>1. PICK m \in Nat \ {0} : m = 2^REG_WIDTH
    BY WidthNumbers
<1>2. CASE b < NB_REG
  <2>1. b \in 0..(NB_REG - 1)
      BY <1>2, WidthNumbers
  <2>2. golden.registers[b] \in Nat /\ registers[b] = golden.registers[b] % 2^REG_WIDTH
      BY <2>1 DEF Alike
  <2> QED
      BY <1>2, <2>2 DEF Read
<1>3. CASE ~(b < NB_REG)
  <2>1. PICK x \in 0..(m - 1) : x = ReadOnly[b]
      BY <1>1, <1>3, WidthNumbers
  <2>2. x % m = x /\ x \in Nat
      OBVIOUS
  <2> QED
      BY <1>1, <1>3, <2>1, <2>2 DEF Read
<1> QED
    BY <1>2, <1>3

\* An instruction keeps the registers equal up to their width.
LEMMA ExecutedAlike ==
    ASSUME Processor, Alike, NEW n \in DOMAIN ucode.code
    PROVE  LET g == ucode_execute(ucode.code[n], golden.registers)
               h == Executed(ucode.code[n], registers)
           IN  /\ g \in [0..(NB_REG - 1) -> Nat]
               /\ \A r \in 0..(NB_REG - 1) : h[r] = g[r] % 2^REG_WIDTH
<1> DEFINE c == ucode.code[n]
           gr == golden.registers
<1>1. c.a \in 0..(NB_REG - 1) /\ c.b \in Nat
      /\ (c.b >= NB_REG => ReadOnly[c.b] \in 0..(2^REG_WIDTH - 1))
    BY DEF Processor, Loaded, Fits
<1>2. /\ gr \in [0..(NB_REG - 1) -> Nat]
      /\ registers \in [0..(NB_REG - 1) -> 0..(2^REG_WIDTH - 1)]
      /\ \A r \in 0..(NB_REG - 1) : registers[r] = gr[r] % 2^REG_WIDTH
    BY DEF Alike, Processor, Widths
<1>3. /\ Read(gr, c.b) \in Nat
      /\ Read(registers, c.b) = Read(gr, c.b) % 2^REG_WIDTH
    BY <1>1, ReadAlike
<1>4. /\ Read(gr, c.a) \in Nat
      /\ Read(registers, c.a) = Read(gr, c.a) % 2^REG_WIDTH
  <2>1. c.a \in Nat /\ ~(c.a >= NB_REG)
      BY <1>1, WidthNumbers
  <2> QED
      BY <2>1, ReadAlike
<1> HIDE DEF c, gr
<1>5. PICK m \in Nat \ {0} : m = 2^REG_WIDTH
    BY WidthNumbers
<1>6. (Read(registers, c.a) + Read(registers, c.b)) % m = (Read(gr, c.a) + Read(gr, c.b)) % m
    BY <1>3, <1>4, <1>5, ModSum
<1>7. PICK x \in Nat : x = IF c.op_sel = 1 THEN Read(gr, c.a) + Read(gr, c.b) ELSE Read(gr, c.b)
    BY <1>3, <1>4
<1>8. ucode_execute(c, gr) = [gr EXCEPT ![c.a] = x]
    BY <1>7 DEF ucode_execute
<1>9. Executed(c, registers) = [registers EXCEPT ![c.a] = x % m]
  <2>1. CASE c.op_sel = 1
      BY <1>5, <1>6, <1>7, <2>1 DEF Executed
  <2>2. CASE c.op_sel # 1
      BY <1>3, <1>5, <1>7, <2>2 DEF Executed
  <2> QED
      BY <2>1, <2>2
<1>10. [gr EXCEPT ![c.a] = x] \in [0..(NB_REG - 1) -> Nat]
    BY <1>2
<1>11. ASSUME NEW r \in 0..(NB_REG - 1)
       PROVE  [registers EXCEPT ![c.a] = x % m][r] = [gr EXCEPT ![c.a] = x][r] % m
    BY <1>1, <1>2, <1>5
<1> QED
    BY <1>5, <1>8, <1>9, <1>10, <1>11 DEF c, gr

\* The range of every loop is the one that the microprogram asks for.
LEMMA RangeOf ==
    ASSUME Loaded, NEW l \in Loops
    PROVE  ucode.loops[l].range = source.range[l + 1]
<1>1. ucode.loops = ucode_get_loops(source) /\ DOMAIN ucode.loops = Loops
    BY DEF Loaded, Fits, Loops, NB_LOOPS
<1>2. l \in 0..(Len(source.body) - 1)
    BY DEF Loops, NB_LOOPS
<1> QED
    BY <1>1, <1>2 DEF ucode_get_loops

\* What one call of the Python state machine returns, next to the processor.
Iterated == [j \in Loops |-> IF j < loop THEN 0 ELSE IF j = loop THEN idx[j] + 1 ELSE idx[j]]
PyUpdate ==
    /\ exec_int /\ busy_int
    /\ ucode_state_machine = Returns(TRUE, FALSE, TRUE, GoldenAt(addr + 1, loop, op + 1, idx, FALSE))
PyIterate ==
    /\ exec_int /\ ~busy_int
    /\ ucode_state_machine =
         Returns(TRUE, FALSE, FALSE, GoldenAt(ucode.loops[0].ucode_addr, 0, 0, Iterated, FALSE))
PyNext ==
    /\ ~exec_int /\ loop < NB_LOOPS - 1
    /\ ucode_state_machine =
         Returns(FALSE, FALSE, TRUE, GoldenAt(ucode.loops[loop + 1].ucode_addr, loop + 1, 0, idx, FALSE))
PyRaise ==
    /\ ~exec_int /\ loop = NB_LOOPS - 1 /\ NB_LOOPS < PY_NB_LOOPS
    /\ ucode_state_machine = Returns(FALSE, FALSE, TRUE, GoldenAt(addr, loop, op, idx, TRUE))
PyEnd ==
    /\ ~exec_int /\ loop = NB_LOOPS - 1
    /\ ucode_state_machine = Returns(FALSE, TRUE, FALSE, GoldenAt(0, 0, 0, [j \in Loops |-> 0], FALSE))
PythonMoves == PyUpdate \/ PyIterate \/ PyNext \/ PyRaise \/ PyEnd

\* The comparisons of the Python model are those of the processor.
LEMMA PythonCompares ==
    ASSUME Processor, Limited
    PROVE  /\ exec_int <=> idx[loop] < Here.range - 1
           /\ busy_int <=> exec_int /\ op < Here.nb_ops - 1
           /\ exec_int => (idx[loop] + 1) % 2^CNT_WIDTH = idx[loop] + 1
           /\ busy_int => (op + 1) % 8 = op + 1 /\ (addr + 1) % 2^ADDR_WIDTH = addr + 1
           /\ addr \in DOMAIN ucode.code
           /\ loop \in Nat /\ NB_LOOPS \in Nat /\ loop < NB_LOOPS /\ loop \in Loops
           /\ Loops = 0..(NB_LOOPS - 1)
<1>1. Compares
    BY NoWrap
<1>2. loop \in Loops /\ Loaded
    BY DEF Processor, InBody
<1>3. Here.range # 0
    BY <1>2, RangeOf DEF Limited, Here
<1>4. loop \in Nat /\ NB_LOOPS \in Nat /\ loop < NB_LOOPS /\ Loops = 0..(NB_LOOPS - 1)
    BY <1>2, CurrentLoop DEF Loops
<1> QED
    BY <1>1, <1>2, <1>3, <1>4 DEF Compares

LEMMA PythonStep ==
    ASSUME Processor, Comparable, Alike
    PROVE  PythonMoves
<1> DEFINE within == idx[loop] < Here.range - 1
           below == op < Here.nb_ops - 1
<1>1. /\ exec_int <=> within
      /\ busy_int <=> within /\ below
      /\ loop \in Nat /\ NB_LOOPS \in Nat /\ loop < NB_LOOPS /\ loop \in Loops
      /\ Loops = 0..(NB_LOOPS - 1)
    BY PythonCompares DEF Comparable
<1>2. golden.addr = addr /\ golden.loop = loop /\ golden.op = op /\ golden.idx = idx
    BY DEF Alike
<1>3. ucode_get_loops(source) = ucode.loops
    BY DEF Processor, Loaded, Fits
<1>4. ucode_state_machine =
        CASE within /\ below -> Returns(TRUE, FALSE, TRUE, GoldenAt(addr + 1, loop, op + 1, idx, FALSE))
          [] within /\ ~below ->
                 Returns(TRUE, FALSE, FALSE, GoldenAt(ucode.loops[0].ucode_addr, 0, 0, Iterated, FALSE))
          [] ~within /\ loop < PY_NB_LOOPS - 1 ->
                 Returns(FALSE, FALSE, TRUE,
                    IF loop + 1 \in Loops
                    THEN GoldenAt(ucode.loops[loop + 1].ucode_addr, loop + 1, 0, idx, FALSE)
                    ELSE GoldenAt(addr, loop, op, idx, TRUE))
          [] OTHER -> Returns(FALSE, TRUE, FALSE, GoldenAt(0, 0, 0, [j \in Loops |-> 0], FALSE))
    BY <1>2, <1>3, Zenon DEF ucode_state_machine, Here, Iterated
<1>6. NB_LOOPS <= PY_NB_LOOPS /\ PY_NB_LOOPS = 6
    BY DEF Comparable, PY_NB_LOOPS
<1> HIDE DEF within, below
<1>7. CASE within /\ below
    BY <1>1, <1>4, <1>7 DEF PythonMoves, PyUpdate
<1>8. CASE within /\ ~below
    BY <1>1, <1>4, <1>8 DEF PythonMoves, PyIterate
<1>9. CASE ~within /\ loop < NB_LOOPS - 1
  <2>1. loop < PY_NB_LOOPS - 1 /\ loop + 1 \in Loops
      BY <1>1, <1>6, <1>9
  <2> QED
      BY <1>1, <1>4, <1>9, <2>1 DEF PythonMoves, PyNext
<1>10. CASE ~within /\ loop = NB_LOOPS - 1 /\ NB_LOOPS < PY_NB_LOOPS
  <2>1. loop < PY_NB_LOOPS - 1 /\ loop + 1 \notin Loops
      BY <1>1, <1>6, <1>10
  <2> QED
      BY <1>1, <1>4, <1>10, <2>1 DEF PythonMoves, PyRaise
<1>11. CASE ~within /\ loop = NB_LOOPS - 1 /\ NB_LOOPS = PY_NB_LOOPS
  <2>1. ~(loop < PY_NB_LOOPS - 1)
      BY <1>1, <1>6, <1>11
  <2> QED
      BY <1>1, <1>4, <1>11, <2>1 DEF PythonMoves, PyEnd
<1> QED
    BY <1>1, <1>6, <1>7, <1>8, <1>9, <1>10, <1>11

\* A cycle of the processor with enable high is a step of the Python model.
LEMMA GoldenStep ==
    ASSUME Processor, GoldenInv, Enabled, UNCHANGED <<source, ucode>>
    PROVE  GoldenInv'
<1>1. Loops' = Loops /\ NB_LOOPS' = NB_LOOPS /\ (Comparable' <=> Comparable)
    BY DEF Comparable, Limited, Loops, NB_LOOPS
<1> SUFFICES ASSUME Comparable
             PROVE  IF golden'.raised THEN NB_LOOPS < PY_NB_LOOPS ELSE Alike'
    BY <1>1 DEF GoldenInv
<1>2. golden' = GoldenNext /\ ucode_fetch /\ ucode_execute_comb
    BY DEF Enabled
<1>3. CASE golden.raised
    BY <1>2, <1>3 DEF GoldenNext, GoldenInv
<1>4. CASE ~golden.raised
  <2> DEFINE gr == golden.registers
             g == ucode_execute(ucode.code[addr], gr)
  <2>1. Alike /\ PythonMoves
      BY <1>4, PythonStep DEF GoldenInv
  <2>2. /\ exec_int => (idx[loop] + 1) % 2^CNT_WIDTH = idx[loop] + 1
        /\ busy_int => (op + 1) % 8 = op + 1 /\ (addr + 1) % 2^ADDR_WIDTH = addr + 1
        /\ addr \in DOMAIN ucode.code
        /\ loop \in Nat /\ NB_LOOPS \in Nat /\ loop < NB_LOOPS /\ loop \in Loops
        /\ Loops = 0..(NB_LOOPS - 1)
      BY PythonCompares DEF Comparable
  <2>3. ucode_load(source)[golden.addr] = ucode.code[addr]
      BY <2>1 DEF Alike, Processor, Loaded, Fits
  <2>4. /\ g \in [0..(NB_REG - 1) -> Nat]
        /\ \A r \in 0..(NB_REG - 1) : Executed(ucode.code[addr], registers)[r] = g[r] % 2^REG_WIDTH
      BY <2>1, <2>2, ExecutedAlike
  <2>5. golden' = IF ucode_state_machine.execute
                  THEN [ucode_state_machine.next EXCEPT !.registers = ucode_execute(ucode.code[addr], @)]
                  ELSE ucode_state_machine.next
      BY <1>2, <1>4, <2>3 DEF GoldenNext
  <2>6. registers' = IF exec_int THEN Executed(ucode.code[addr], registers) ELSE registers
      BY <1>2 DEF ucode_execute_comb
  <2>7. gr \in [0..(NB_REG - 1) -> Nat] /\ \A r \in 0..(NB_REG - 1) : registers[r] = gr[r] % 2^REG_WIDTH
      BY <2>1 DEF Alike
  <2> DEFINE Put(a, l, o, i, regs, raised) ==
                [addr |-> a, loop |-> l, op |-> o, idx |-> i, registers |-> regs, raised |-> raised]
  <2>8. ASSUME NEW regs, golden' = Put(addr', loop', op', idx', regs, FALSE),
               regs \in [0..(NB_REG - 1) -> Nat],
               \A r \in 0..(NB_REG - 1) : registers'[r] = regs[r] % 2^REG_WIDTH
        PROVE  IF golden'.raised THEN NB_LOOPS < PY_NB_LOOPS ELSE Alike'
      BY <2>8 DEF Alike
  <2>9. CASE PyUpdate
    <3>0. exec_int /\ busy_int
        BY <2>9 DEF PyUpdate
    <3>1. UpdateCurrentLoop
        BY <1>2, <3>0 DEF ucode_fetch, UpdateCurrentLoop, IterateGotoLoop0,
                           IterateCurrentLoop, GotoNextLoop, Terminate, done_int
    <3>2. addr' = addr + 1 /\ op' = op + 1 /\ loop' = loop /\ idx' = idx
        BY <2>2, <3>0, <3>1 DEF UpdateCurrentLoop
    <3>3. ucode_state_machine = Returns(TRUE, FALSE, TRUE, GoldenAt(addr + 1, loop, op + 1, idx, FALSE))
        BY <2>9 DEF PyUpdate
    <3>4. golden' = [GoldenAt(addr + 1, loop, op + 1, idx, FALSE) EXCEPT
                        !.registers = ucode_execute(ucode.code[addr], @)]
        BY <2>5, <3>3 DEF Returns
    <3>5. golden' = Put(addr', loop', op', idx', g, FALSE)
        BY <3>2, <3>4 DEF GoldenAt
    <3> QED
        BY <2>4, <2>6, <2>8, <3>0, <3>5
  <2>10. CASE PyIterate
    <3>0. exec_int /\ ~busy_int
        BY <2>10 DEF PyIterate
    <3>1. IterateGotoLoop0 \/ IterateCurrentLoop
        BY <1>2, <3>0 DEF ucode_fetch, UpdateCurrentLoop, GotoNextLoop, Terminate, done_int
    <3>2. loop' = 0 /\ op' = 0 /\ addr' = ucode.loops[0].ucode_addr
        BY <3>1 DEF IterateGotoLoop0, IterateCurrentLoop, Here
    <3>3. (idx[loop] + 1) % 2^CNT_WIDTH = idx[loop] + 1 /\ DOMAIN idx = Loops
        BY <2>2, <3>0 DEF Processor, Widths
    <3>4. idx' = Iterated
      <4>1. CASE IterateGotoLoop0
          BY <3>3, <4>1 DEF IterateGotoLoop0, Iterated
      <4>2. CASE IterateCurrentLoop
        <5>1. idx' = [j \in Loops |-> IF j = loop THEN idx[loop] + 1 ELSE idx[j]] /\ loop = 0
            BY <3>3, <4>2 DEF IterateCurrentLoop
        <5>2. \A j \in Loops : ~(j < loop)
            BY <2>2, <5>1
        <5> QED
            BY <5>1, <5>2 DEF Iterated
      <4> QED
          BY <3>1, <4>1, <4>2
    <3>5. ucode_state_machine =
            Returns(TRUE, FALSE, FALSE, GoldenAt(ucode.loops[0].ucode_addr, 0, 0, Iterated, FALSE))
        BY <2>10 DEF PyIterate
    <3>6. golden' = [GoldenAt(ucode.loops[0].ucode_addr, 0, 0, Iterated, FALSE) EXCEPT
                        !.registers = ucode_execute(ucode.code[addr], @)]
        BY <2>5, <3>5 DEF Returns
    <3>7. golden' = Put(addr', loop', op', idx', g, FALSE)
        BY <3>2, <3>4, <3>6 DEF GoldenAt
    <3> QED
        BY <2>4, <2>6, <2>8, <3>0, <3>7
  <2>11. CASE PyNext
    <3>0. ~exec_int /\ loop < NB_LOOPS - 1
        BY <2>11 DEF PyNext
    <3>1. GotoNextLoop
        BY <1>2, <2>2, <3>0 DEF ucode_fetch, UpdateCurrentLoop, IterateGotoLoop0,
                                  IterateCurrentLoop, Terminate, done_int, busy_int
    <3>2. golden' = GoldenAt(ucode.loops[loop + 1].ucode_addr, loop + 1, 0, idx, FALSE)
        BY <2>5, <2>11 DEF PyNext, Returns
    <3>3. golden' = Put(addr', loop', op', idx', gr, FALSE)
        BY <3>1, <3>2 DEF GoldenAt, GotoNextLoop
    <3> QED
        BY <2>6, <2>7, <2>8, <3>0, <3>3
  <2>12. CASE PyRaise
    <3>1. golden' = GoldenAt(addr, loop, op, idx, TRUE)
        BY <2>5, <2>12 DEF PyRaise, Returns
    <3>2. golden'.raised /\ NB_LOOPS < PY_NB_LOOPS
        BY <2>12, <3>1 DEF PyRaise, GoldenAt
    <3> QED
        BY <3>2
  <2>13. CASE PyEnd
    <3>0. ~exec_int /\ loop = NB_LOOPS - 1
        BY <2>13 DEF PyEnd
    <3>1. Terminate
        BY <1>2, <2>2, <3>0 DEF ucode_fetch, UpdateCurrentLoop, IterateGotoLoop0,
                                  IterateCurrentLoop, GotoNextLoop, Terminate, done_int, busy_int
    <3>2. golden' = GoldenAt(0, 0, 0, [j \in Loops |-> 0], FALSE)
        BY <2>5, <2>13 DEF PyEnd, Returns
    <3>3. golden' = Put(addr', loop', op', idx', gr, FALSE)
        BY <3>1, <3>2 DEF GoldenAt, Terminate
    <3> QED
        BY <2>6, <2>7, <2>8, <3>0, <3>3
  <2> QED
      BY <2>1, <2>9, <2>10, <2>11, <2>12, <2>13 DEF PythonMoves
<1> QED
    BY <1>3, <1>4

\* The invariant says that the Python model agrees, in its state and in what it
\* returns.
LEMMA GoldenSame ==
    ASSUME Processor, GoldenInv
    PROVE  GoldenAgrees
<1> SUFFICES ASSUME Comparable
             PROVE  /\ ~golden.raised => SameState /\ SameFlags
                    /\ golden.raised => NB_LOOPS < PY_NB_LOOPS
    BY DEF GoldenAgrees
<1>1. ASSUME ~golden.raised PROVE SameState /\ SameFlags
  <2>1. Alike /\ PythonMoves
      BY <1>1, PythonStep DEF GoldenInv
  <2>2. SameState
      BY <2>1 DEF Alike, SameState
  <2>3. loop \in Nat /\ NB_LOOPS \in Nat /\ loop < NB_LOOPS
      BY PythonCompares DEF Comparable
  <2>4. /\ done_int <=> ~exec_int /\ loop = NB_LOOPS - 1
        /\ busy_int => exec_int
      BY Zenon DEF busy_int, done_int
  <2>5. exec_int \in BOOLEAN /\ busy_int \in BOOLEAN /\ done_int \in BOOLEAN
    <3>1. exec_int \in BOOLEAN
        BY Zenon DEF exec_int, Below
    <3> QED
        BY <3>1, Zenon DEF busy_int, done_int
  <2> DEFINE m == ucode_state_machine
  <2>6. ASSUME NEW e \in BOOLEAN, NEW d \in BOOLEAN, NEW b \in BOOLEAN,
               m.execute = e, m.end = d, m.busy = b, m.next.raised = FALSE,
               exec_int <=> e, done_int <=> d, (busy_int \/ (~exec_int /\ ~done_int)) <=> b
        PROVE  SameFlags
      BY <2>5, <2>6, Zenon DEF SameFlags
  <2>7. SameFlags
    <3>1. CASE PyUpdate
      <4>1. m.execute = TRUE /\ m.end = FALSE /\ m.busy = TRUE /\ m.next.raised = FALSE
          BY <3>1 DEF PyUpdate, Returns, GoldenAt
      <4>2. exec_int /\ ~done_int /\ busy_int
          BY <2>4, <3>1 DEF PyUpdate
      <4> QED
          BY <2>6, <4>1, <4>2
    <3>2. CASE PyIterate
      <4>1. m.execute = TRUE /\ m.end = FALSE /\ m.busy = FALSE /\ m.next.raised = FALSE
          BY <3>2 DEF PyIterate, Returns, GoldenAt
      <4>2. exec_int /\ ~done_int /\ ~busy_int
          BY <2>4, <3>2 DEF PyIterate
      <4> QED
          BY <2>6, <4>1, <4>2
    <3>3. CASE PyNext
      <4>1. m.execute = FALSE /\ m.end = FALSE /\ m.busy = TRUE /\ m.next.raised = FALSE
          BY <3>3 DEF PyNext, Returns, GoldenAt
      <4>2. ~exec_int /\ loop < NB_LOOPS - 1
          BY <3>3 DEF PyNext
      <4>3. loop # NB_LOOPS - 1
          BY <2>3, <4>2
      <4> QED
          BY <2>4, <2>6, <4>1, <4>2, <4>3
    <3>4. CASE PyRaise
      <4>1. m.next.raised = TRUE
          BY <3>4 DEF PyRaise, Returns, GoldenAt
      <4>2. done_int
          BY <2>4, <3>4 DEF PyRaise
      <4> QED
          BY <4>1, <4>2 DEF SameFlags
    <3>5. CASE PyEnd
      <4>1. m.execute = FALSE /\ m.end = TRUE /\ m.busy = FALSE /\ m.next.raised = FALSE
          BY <3>5 DEF PyEnd, Returns, GoldenAt
      <4>2. ~exec_int /\ done_int /\ ~busy_int
          BY <2>4, <3>5 DEF PyEnd
      <4> QED
          BY <2>6, <4>1, <4>2
    <3> QED
        BY <2>1, <3>1, <3>2, <3>3, <3>4, <3>5 DEF PythonMoves
  <2> QED
      BY <2>2, <2>7
<1>2. golden.raised => NB_LOOPS < PY_NB_LOOPS
    BY DEF GoldenInv
<1> QED
    BY <1>1, <1>2

(***************************************************************************)
(* The controller                                                          *)
(***************************************************************************)

Inv == Processor /\ Controller /\ GoldenInv

\* After a reset the Python model is at its start as well.
LEMMA ResetGolden ==
    ASSUME Reset, Loops' = Loops
    PROVE  GoldenInv'
<1>1. golden'.raised = FALSE /\ golden'.registers = [r \in 0..(NB_REG - 1) |-> 0]
    BY DEF Reset, GoldenStart
<1>2. golden' = [addr |-> addr', loop |-> loop', op |-> op', idx |-> idx',
                 registers |-> golden'.registers, raised |-> FALSE]
    BY DEF Reset, GoldenStart
<1>3. golden'.registers \in [0..(NB_REG - 1) -> Nat]
    BY <1>1
<1>4. 0 % 2^REG_WIDTH = 0
    BY WidthNumbers
<1>5. \A r \in 0..(NB_REG - 1) : registers'[r] = golden'.registers[r] % 2^REG_WIDTH
    BY <1>1, <1>4 DEF Reset
<1> QED
    BY <1>1, <1>2, <1>3, <1>5 DEF GoldenInv, Alike

\* With enable low it waits.
LEMMA DisabledGolden ==
    ASSUME GoldenInv, Disabled, UNCHANGED <<source, ucode>>
    PROVE  GoldenInv'
BY DEF GoldenInv, Alike, Comparable, Limited, Loops, NB_LOOPS, Disabled, fetch

\* The range of a loop is the one that the microprogram asks for.
LEMMA FirstRange ==
    ASSUME NEW s, NEW u, Fits(s, u)
    PROVE  u.loops[0].range = s.range[1]
<1>1. u.loops = ucode_get_loops(s) /\ Len(s.body) \in Nat \ {0}
    BY DEF Fits
<1> QED
    BY <1>1 DEF ucode_get_loops

\* A job of one loop is given one more than it asks for, in the width of the
\* counter.
LEMMA JobRange ==
    ASSUME NEW j \in Jobs, Len(j.source.body) = 1
    PROVE  /\ j.ucode.loops[0].range = (j.asked + 1) % 2^CNT_WIDTH
           /\ j.asked \in 0..(2^CNT_WIDTH - 1)
<1>m. PICK m \in Nat \ {0} : m = 2^CNT_WIDTH
    BY WidthNumbers
<1>1. /\ j.ucode.loops[0].range = j.source.range[1]
      /\ j.ucode.loops[0].range \in 0..(m - 1)
      /\ j.asked \in Nat
  <2>1. Fits(j.source, j.ucode) /\ j.asked \in Nat
      BY JobsAssumption
  <2>2. 0 \in DOMAIN j.ucode.loops
      BY <2>1 DEF Fits
  <2>3. j.ucode.loops[0].range \in 0..(2^CNT_WIDTH - 1)
      BY <2>1, <2>2 DEF Fits
  <2> QED
      BY <1>m, <2>1, <2>3, FirstRange
<1>2. CASE \E p \in Params : j = [asked |-> p, source |-> SourceOf(p), ucode |-> UcodeOf(p)]
  <2>1. PICK p \in Params : j.asked = p /\ j.source = SourceOf(p)
      BY <1>2
  <2>2. p \in 0..(m - 1)
      BY <1>m, JobsAssumption
  <2>3. j.source.range[1] = (p + 1) % 2^CNT_WIDTH
      BY <2>1 DEF SourceOf, Range12
  <2> QED
      BY <1>1, <1>m, <2>1, <2>2, <2>3
<1>3. CASE \E s \in Sources : j = [asked |-> Asked(s), source |-> s, ucode |-> Decoded(s)]
  <2>1. j.asked = Asked(j.source)
      BY <1>3
  <2>2. j.asked = j.source.range[1] - 1
      BY <2>1 DEF Asked
  <2>3. PICK x \in 0..(m - 1) : x = j.ucode.loops[0].range
      BY <1>1
  <2>4. j.asked + 1 = x /\ x % m = x /\ x - 1 \in 0..(m - 1)
      BY <1>1, <2>2, <2>3
  <2> QED
      BY <1>m, <2>2, <2>3, <2>4, <1>1
<1> QED
    BY <1>2, <1>3 DEF Jobs

\* What a job brings when it is taken.
LEMMA TakenJob ==
    ASSUME NEW j \in Jobs, Loaded, Take(j)
    PROVE  Loaded' /\ Loops' = Loops /\ job' \in Nat
<1>1. source' = j.source /\ ucode' = j.ucode /\ job' = j.asked /\ j.source.body = source.body
    BY DEF Take
<1>2. j.asked \in Nat /\ Fits(j.source, j.ucode)
    BY JobsAssumption
<1> QED
    BY <1>1, <1>2 DEF Loaded, Loops, NB_LOOPS

\* The streamers are ready or not.
LEMMA StreamsReady ==
    ASSUME NEW b \in BOOLEAN, Streams(b), ready \in BOOLEAN
    PROVE  ready' \in BOOLEAN
BY DEF Streams

\* Initially the invariant holds.
LEMMA InitInv == MacInit => Inv
<1> SUFFICES ASSUME MacInit PROVE Inv
    OBVIOUS
<1>1. Loaded
    BY JobsAssumption DEF MacInit, Loaded
<1>2. StartsAtZero
    BY <1>1, FirstLoop
<1>3. InBody
    BY <1>2 DEF MacInit, Cleared, InBody, Here, StartsAtZero
<1>4. Widths
  <2>1. 0 \in 0..(2^CNT_WIDTH - 1) /\ 0 \in 0..(2^REG_WIDTH - 1)
      BY WidthNumbers
  <2> QED
      BY <2>1 DEF MacInit, Cleared, Widths
<1>5. Controller
    BY DEF MacInit, Controller, Machine
<1>6. GoldenInv
  <2>1. golden.raised = FALSE /\ golden.registers = [r \in 0..(NB_REG - 1) |-> 0]
      BY DEF MacInit, Cleared, GoldenStart
  <2>2. golden = [addr |-> addr, loop |-> loop, op |-> op, idx |-> idx,
                  registers |-> golden.registers, raised |-> FALSE]
      BY DEF MacInit, Cleared, GoldenStart
  <2>3. 0 % 2^REG_WIDTH = 0
      BY WidthNumbers
  <2>4. \A r \in 0..(NB_REG - 1) : registers[r] = golden.registers[r] % 2^REG_WIDTH
      BY <2>1, <2>3 DEF MacInit, Cleared
  <2> QED
      BY <2>1, <2>2, <2>4 DEF GoldenInv, Alike
<1> QED
    BY <1>1, <1>3, <1>4, <1>5, <1>6 DEF Inv, Processor

\* Every step keeps it.
LEMMA NextInv == Inv /\ [MacNext]_allvars => Inv'
<1> SUFFICES ASSUME Inv, [MacNext]_allvars PROVE Inv'
    OBVIOUS
<1>1. Processor /\ Controller /\ GoldenInv /\ Loaded
    BY DEF Inv, Processor
<1>2. CASE Idle
  <2>1. Loaded' /\ Loops' = Loops /\ (fsm' = "START" => job' \in Nat) /\ (fsm' # "START" => job' = job)
    <3>1. CASE fsm' = "START"
        BY <1>1, <1>2, <3>1, TakenJob DEF Idle
    <3>2. CASE fsm' # "START"
        BY <1>1, <1>2, <3>2 DEF Idle, Loaded, Loops, NB_LOOPS
    <3> QED
        BY <3>1, <3>2
  <2>2. ready' \in BOOLEAN
      BY <1>1, <1>2, StreamsReady DEF Idle, NoLaunch, Controller
  <2>3. Controller'
    <3>1. Machine'
      <4>1. fsm = "IDLE" /\ fsm' \in {"IDLE", "START"} /\ computations' = computations
          BY <1>2 DEF Idle, NoLaunch
      <4> QED
          BY <1>1, <2>1, <4>1 DEF Controller, Machine
    <3> QED
        BY <1>1, <1>2, <2>2, <3>1 DEF Idle, Controller
  <2> QED
      BY <1>1, <1>2, <2>1, <2>3, ResetProcessor, ResetGolden DEF Idle, Inv
<1>3. CASE StartOrWait
  <2>1. ready' \in BOOLEAN
      BY <1>1, <1>3, StreamsReady DEF StartOrWait, Launch, NoLaunch, Controller
  <2>2. Machine'
    <3>1. /\ fsm \in {"START", "WAIT"} /\ fsm' \in {"COMPUTE", "WAIT"} /\ job' = job
          /\ computations' \in {computations, computations + 1}
        BY <1>3 DEF StartOrWait, Launch, NoLaunch
    <3> QED
        BY <1>1, <3>1 DEF Controller, Machine
  <2>3. cut' \in BOOLEAN
      BY <1>1, <1>3 DEF StartOrWait, Controller
  <2>4. Controller'
      BY <2>1, <2>2, <2>3 DEF Controller
  <2> QED
      BY <1>1, <1>3, <2>4, DisabledProcessor, DisabledGolden DEF StartOrWait, Inv
<1>4. CASE MacCompute
  <2>1. ready' \in BOOLEAN
      BY <1>1, <1>4, StreamsReady DEF MacCompute, NoLaunch, Controller
  <2>2. Machine'
    <3>1. fsm = "COMPUTE" /\ fsm' \in {"COMPUTE", "UPDATEIDX"} /\ computations' = computations
          /\ job' = job
        BY <1>4 DEF MacCompute, NoLaunch
    <3> QED
        BY <1>1, <3>1 DEF Controller, Machine
  <2>3. cut' \in BOOLEAN
      BY <1>1, <1>4 DEF MacCompute, Controller
  <2>4. Controller'
      BY <2>1, <2>2, <2>3 DEF Controller
  <2> QED
      BY <1>1, <1>4, <2>4, DisabledProcessor, DisabledGolden DEF MacCompute, Inv
<1>5. CASE Update
  <2>1. ready' \in BOOLEAN
      BY <1>1, <1>5, StreamsReady DEF Update, Launch, NoLaunch, Controller
  <2>2. cut' \in BOOLEAN
      BY <1>1, <1>5 DEF Update, Controller
  <2>3. Controller'
    <3>1. Machine'
      <4>1. fsm = "UPDATEIDX" /\ fsm' \in {"UPDATEIDX", "COMPUTE", "TERMINATE"} /\ job' = job
          BY <1>5 DEF Update, Launch, NoLaunch
      <4>2. computations' \in {computations, computations + 1}
          BY <1>5 DEF Update, Launch, NoLaunch
      <4> QED
          BY <1>1, <4>1, <4>2 DEF Controller, Machine
    <3> QED
        BY <2>1, <2>2, <3>1 DEF Controller
  <2>4. UNCHANGED <<source, ucode>> /\ (Enabled \/ Disabled)
      BY <1>5 DEF Update
  <2> QED
      BY <1>1, <2>3, <2>4, DisabledProcessor, DisabledGolden, EnabledProcessor, GoldenStep DEF Inv
<1>6. CASE Finish
  <2>1. ready' \in BOOLEAN
      BY <1>1, <1>6, StreamsReady DEF Finish, Controller
  <2>2. Machine'
      BY <1>1, <1>6 DEF Finish, Controller, Machine
  <2>3. cut' \in BOOLEAN
      BY <1>1, <1>6 DEF Finish, Controller
  <2>4. Controller'
      BY <2>1, <2>2, <2>3 DEF Controller
  <2> QED
      BY <1>1, <1>6, <2>4, DisabledProcessor, DisabledGolden DEF Finish, Inv
<1>7. CASE SoftClear
  <2>1. Loaded' /\ Loops' = Loops
      BY <1>1, <1>7 DEF SoftClear, Loaded, Loops, NB_LOOPS
  <2>2. Controller'
      BY <1>7 DEF SoftClear, Controller, Machine
  <2> QED
      BY <1>1, <1>7, <2>1, <2>2, ResetProcessor, ResetGolden DEF SoftClear, Inv
<1>8. CASE UNCHANGED allvars
    BY <1>1, <1>8 DEF allvars, vars, fetch, flags, mac, Inv, Processor, Controller, Machine, GoldenInv, Alike, Comparable, Limited, Loaded,
                      InBody, Widths, Here, Loops, NB_LOOPS
<1> QED
    BY <1>2, <1>3, <1>4, <1>5, <1>6, <1>7, <1>8 DEF MacNext

\* The invariant holds always.
LEMMA AlwaysInv == MacSpec => []Inv
BY InitInv, NextInv, PTL DEF MacSpec

\* The controller and the processor keep their types and widths, and the
\* address stays inside the microprogram.
THEOREM TypeCorrect == MacSpec => []TypeOK
<1>1. Inv => TypeOK
  <2> SUFFICES ASSUME Inv PROVE TypeOK
      OBVIOUS
  <2>1. Compares /\ Processor /\ Controller
      BY NoWrap DEF Inv
  <2>2. op \in 0..7
      BY <2>1 DEF Compares
  <2> QED
      BY <2>1, <2>2 DEF Compares, Processor, InBody, Widths, Controller, Machine, TypeOK
<1> QED
    BY <1>1, AlwaysInv, PTL

\* The processor runs in step with the Python model of it, whose integers have
\* no width, for microprograms of up to six loops with an end.
THEOREM GoldenAlwaysAgrees == MacSpec => []GoldenAgrees
<1>1. Inv => GoldenAgrees
    BY GoldenSame DEF Inv
<1> QED
    BY <1>1, AlwaysInv, PTL

(***************************************************************************)
(* Jobs of the MAC engine: microprograms of one loop                       *)
(***************************************************************************)

\* The loop has no end: its range, in the width of the counter, is zero.
Endless == ucode.loops[0].range = 0

\* Before an update of the indices is complete.
Before == fsm \in {"START", "WAIT", "COMPUTE"} \/ (fsm = "UPDATEIDX" /\ ~valid)

\* A job that can end: it asks for a computation, and its body has the busy
\* cycle that valid needs.
Counts == job > 0 /\ ucode.loops[0].nb_ops > 1

\* The index of the loop counts the computations: it is one behind until the
\* update is complete, and reaches the job with the last one.
Counted ==
    /\ fsm # "IDLE" => ucode.loops[0].range = job + 1
    /\ fsm \in {"START", "WAIT", "COMPUTE"} => op = 0 /\ ~valid /\ ~busy_sticky
    /\ fsm \in {"START", "WAIT"} => computations = 0 /\ idx[0] = 0
    /\ fsm \in {"COMPUTE", "UPDATEIDX"} /\ ~valid /\ Counts => idx[0] = computations - 1
    /\ Before /\ Counts => idx[0] < job /\ ~done_sticky
    /\ fsm = "UPDATEIDX" /\ ~valid /\ Counts => (busy_sticky <=> op > 0)
    /\ fsm = "UPDATEIDX" /\ valid =>
          idx[0] = computations /\ idx[0] <= job /\ op = 0 /\ ~busy_sticky /\ ~done_sticky
    /\ fsm # "IDLE" /\ ~Counts => ~busy_sticky /\ ~valid /\ fsm # "TERMINATE"
    /\ fsm = "TERMINATE" => IF cut THEN computations < job ELSE computations = job

\* Without an end, done never comes, and a job ends only by being cut.
NeverDone == fsm # "IDLE" => ~done_sticky /\ (fsm = "TERMINATE" => cut)

Counting ==
    /\ fsm = "IDLE" => computations = 0
    /\ cut => fsm = "TERMINATE"
    /\ Endless => NeverDone
    /\ ~Endless => Counted
CountInv == NB_LOOPS = 1 => Counting

\* The one loop, in numbers.
OneLoop ==
    /\ loop = 0 /\ idx[0] \in Nat /\ op \in Nat
    /\ ucode.loops[0].nb_ops \in Nat /\ ucode.loops[0].nb_ops >= 1
    /\ op <= ucode.loops[0].nb_ops - 1
    /\ exec_int <=> Endless \/ idx[0] < ucode.loops[0].range - 1
    /\ busy_int <=> exec_int /\ op < ucode.loops[0].nb_ops - 1
    /\ done_int <=> ~exec_int

\* With one loop the processor is in it.
LEMMA InOneLoop ==
    ASSUME Processor, NB_LOOPS = 1
    PROVE  OneLoop
<1>1. Compares /\ loop \in Loops /\ Loaded /\ op \in 0..(Here.nb_ops - 1)
    BY NoWrap DEF Processor, InBody
<1>2. loop = 0
    BY <1>1 DEF Loops
<1>3. Here = ucode.loops[0] /\ Here.nb_ops \in 1..7
    BY <1>1, <1>2, CurrentLoop DEF Here
<1>4. idx[0] \in Nat
    BY <1>1, <1>2, WidthNumbers DEF Compares
<1>5. op \in Nat /\ Here.nb_ops \in Nat /\ Here.nb_ops >= 1 /\ op <= Here.nb_ops - 1
    BY <1>1, <1>3
<1>6. done_int <=> ~exec_int
    BY <1>2 DEF done_int
<1> QED
    BY <1>1, <1>2, <1>3, <1>4, <1>5, <1>6 DEF OneLoop, Compares, Endless

\* A cycle with enable high: the body goes on, or the index does, or both
\* start again.
LEMMA OneLoopEnabled ==
    ASSUME Processor, NB_LOOPS = 1, Enabled
    PROVE  /\ busy_int => op' = op + 1 /\ idx'[0] = idx[0] /\ ~valid' /\ busy_sticky'
           /\ ~busy_int => op' = 0 /\ (valid' <=> busy_sticky) /\ ~busy_sticky'
           /\ exec_int /\ ~busy_int /\ ~Endless => idx'[0] = idx[0] + 1
           /\ exec_int /\ ~done_sticky => ~done_sticky'
<1>1. OneLoop /\ Compares
    BY InOneLoop, NoWrap
<1>2. exec_int \/ done_int
    BY <1>1 DEF OneLoop
<1>3. idx \in [Loops -> 0..(2^CNT_WIDTH - 1)] /\ 0 \in Loops
    BY DEF Processor, Widths, Loops
<1>4. /\ UpdateCurrentLoop => op' = op + 1 /\ idx' = idx /\ busy_int
      /\ IterateCurrentLoop => op' = 0 /\ exec_int /\ ~busy_int
      /\ IterateCurrentLoop /\ ~Endless => idx'[0] = idx[0] + 1
      /\ Terminate => op' = 0 /\ done_int
  <2>1. UpdateCurrentLoop => op' = op + 1 /\ idx' = idx /\ busy_int
      BY <1>1 DEF UpdateCurrentLoop, Compares
  <2>2. IterateCurrentLoop => op' = 0 /\ exec_int /\ ~busy_int
      BY DEF IterateCurrentLoop
  <2>3. IterateCurrentLoop /\ ~Endless => idx'[0] = idx[0] + 1
    <3>1. ASSUME IterateCurrentLoop, ~Endless PROVE (idx[0] + 1) % 2^CNT_WIDTH = idx[0] + 1
        BY <1>1, <3>1 DEF Compares, IterateCurrentLoop, Endless, Here
    <3> QED
        BY <1>3, <3>1 DEF IterateCurrentLoop
  <2>4. Terminate => op' = 0 /\ done_int
      BY DEF Terminate
  <2> QED
      BY <2>1, <2>2, <2>3, <2>4
<1>5. ~IterateGotoLoop0 /\ ~GotoNextLoop
    BY <1>1 DEF IterateGotoLoop0, GotoNextLoop, OneLoop
<1>6. UpdateCurrentLoop \/ IterateCurrentLoop \/ Terminate
    BY <1>5 DEF Enabled, ucode_fetch
<1>7. done_int => ~exec_int
    BY DEF done_int
<1>8. busy_int => exec_int
    BY DEF busy_int
<1>9. valid' <=> busy_sticky /\ ~busy_int
    BY DEF Enabled, sticky
<1>10. busy_sticky' <=> busy_int
    BY DEF Enabled, sticky
<1>11. exec_int /\ ~done_sticky => ~done_sticky'
    BY <1>7 DEF Enabled, sticky
<1> QED
    BY <1>4, <1>6, <1>7, <1>8, <1>9, <1>10, <1>11

\* A cycle with enable low, when no update is under way.
LEMMA OneLoopDisabled ==
    ASSUME Processor, Disabled, ~busy_sticky
    PROVE  /\ op' = op /\ idx' = idx /\ ~valid' /\ ~busy_sticky'
           /\ exec_int /\ ~done_sticky => ~done_sticky'
<1>1. done_int => ~exec_int
    BY DEF done_int
<1>2. ~valid' /\ ~busy_sticky'
    BY DEF Disabled, sticky
<1>3. exec_int /\ ~done_sticky => ~done_sticky'
    BY <1>1 DEF Disabled, sticky
<1> QED
    BY <1>2, <1>3 DEF Disabled, fetch

\* The number of loops is that of the bodies, which no job changes.
LEMMA SameLoops ==
    ASSUME [MacNext]_allvars
    PROVE  NB_LOOPS' = NB_LOOPS
<1>1. source'.body = source.body
    BY DEF MacNext, Idle, Take, StartOrWait, MacCompute, Update, Finish, SoftClear, allvars, vars
<1> QED
    BY <1>1 DEF NB_LOOPS

\* A job begins with its range in the width of the counter, and from zero.
LEMMA IdleCounting ==
    ASSUME Inv, Counting, NB_LOOPS = 1, Idle
    PROVE  Counting'
<1>1. computations' = 0 /\ ~cut'
    BY DEF Idle, NoLaunch, Counting
<1>2. CASE fsm' = "IDLE"
    BY <1>1, <1>2 DEF Counting, Counted, NeverDone, Before
<1>3. CASE fsm' = "START"
  <2>1. PICK j \in Jobs : Take(j)
      BY <1>3 DEF Idle
  <2>2. ucode' = j.ucode /\ job' = j.asked /\ j.source.body = source.body
      BY <2>1 DEF Take
  <2>3. /\ ucode'.loops[0].range = (job' + 1) % 2^CNT_WIDTH
        /\ job' \in 0..(2^CNT_WIDTH - 1)
      BY <2>2, JobRange DEF NB_LOOPS
  <2>4. job' \in Nat /\ (~Endless' => ucode'.loops[0].range = job' + 1)
    <3>1. PICK m \in Nat \ {0} : m = 2^CNT_WIDTH
        BY WidthNumbers
    <3>2. PICK q \in 0..(m - 1) : q = job'
        BY <2>3, <3>1
    <3>3. CASE q = m - 1
      <4>1. (q + 1) % m = 0
          BY <3>3
      <4> QED
          BY <2>3, <3>1, <3>2, <4>1 DEF Endless
    <3>4. CASE q < m - 1
      <4>1. (q + 1) % m = q + 1
          BY <3>4
      <4> QED
          BY <2>3, <3>1, <3>2, <4>1
    <3> QED
        BY <3>3, <3>4
  <2>5. op' = 0 /\ ~valid' /\ ~busy_sticky' /\ ~done_sticky' /\ idx'[0] = 0
    <3>1. 0 \in Loops
        BY DEF Loops
    <3> QED
        BY <3>1 DEF Idle, Reset
  <2> QED
      BY <1>1, <1>3, <2>4, <2>5 DEF Counting, Counted, NeverDone, Before, Counts
<1> QED
    BY <1>2, <1>3 DEF Idle, NoLaunch

\* A job without an end is never done.
LEMMA NextNeverDone ==
    ASSUME Inv, NB_LOOPS = 1, Endless, NeverDone, StartOrWait \/ MacCompute \/ Update \/ Finish
    PROVE  NeverDone'
<1>1. exec_int /\ ~done_int
    BY InOneLoop DEF Inv, OneLoop
<1>2. fsm # "IDLE" /\ ~done_sticky /\ ~done
    BY <1>1 DEF StartOrWait, MacCompute, Update, Finish, NeverDone, done
<1>3. ~done_sticky'
  <2>1. Enabled \/ Disabled
      BY DEF StartOrWait, MacCompute, Update, Finish
  <2> QED
      BY <1>1, <1>2, <2>1 DEF Enabled, Disabled, sticky
<1>4. fsm' = "TERMINATE" => cut'
  <2>1. CASE StartOrWait
      BY <2>1 DEF StartOrWait, Launch, NoLaunch
  <2>2. CASE MacCompute
      BY <2>2 DEF MacCompute, NoLaunch
  <2>3. CASE Update
      BY <1>2, <2>3 DEF Update, Launch, NoLaunch
  <2>4. CASE Finish
      BY <2>4 DEF Finish, NeverDone
  <2> QED
      BY <2>1, <2>2, <2>3, <2>4
<1> QED
    BY <1>3, <1>4 DEF NeverDone

\* A job with an end is counted.
LEMMA NextCounted ==
    ASSUME Inv, NB_LOOPS = 1, ~Endless, Counted, cut => fsm = "TERMINATE",
           StartOrWait \/ MacCompute \/ Update \/ Finish
    PROVE  Counted'
<1>1. /\ Processor /\ OneLoop /\ job \in Int /\ computations \in Nat
      /\ job = -1 <=> fsm = "IDLE"
    BY InOneLoop DEF Inv, Controller, Machine
<1>2. job # -1 => job \in Nat
    BY DEF Inv, Controller, Machine
<1>3. exec_int <=> idx[0] < ucode.loops[0].range - 1
    BY <1>1 DEF OneLoop
<1>4. ASSUME Disabled, ~busy_sticky
      PROVE  /\ op' = op /\ idx' = idx /\ ~valid' /\ ~busy_sticky'
             /\ idx[0] < ucode.loops[0].range - 1 /\ ~done_sticky => ~done_sticky'
    BY <1>1, <1>3, <1>4, OneLoopDisabled
<1>5. CASE StartOrWait
  <2>1. /\ op' = 0 /\ idx'[0] = 0 /\ ~valid' /\ ~busy_sticky' /\ ucode' = ucode /\ job' = job
        /\ ucode.loops[0].range = job + 1 /\ computations = 0
        /\ Counts => ~done_sticky'
      BY <1>1, <1>2, <1>4, <1>5 DEF StartOrWait, Counted, Before, Counts
  <2>3. job \in Nat
      BY <1>1, <1>2, <1>5 DEF StartOrWait
  <2>2. \/ fsm' = "COMPUTE" /\ computations' = 1
        \/ fsm' = "WAIT" /\ computations' = 0
    <3>1. \/ fsm' = "COMPUTE" /\ computations' = computations + 1
          \/ fsm' = "WAIT" /\ computations' = computations
      <4>1. computations <= job + 1
          BY <2>1, <2>3
      <4> QED
          BY <1>5, <4>1 DEF StartOrWait, Launch, NoLaunch
    <3> QED
        BY <2>1, <3>1
  <2>4. fsm' # "IDLE" /\ fsm' # "TERMINATE" /\ fsm' # "UPDATEIDX" /\ fsm' # "START"
      BY <2>2
  <2> QED
      BY <2>1, <2>2, <2>3, <2>4 DEF Counted, Before, Counts
<1>6. CASE MacCompute
  <2>1. /\ op' = 0 /\ idx'[0] = idx[0] /\ ~valid' /\ ~busy_sticky' /\ ucode' = ucode /\ job' = job
        /\ ucode.loops[0].range = job + 1
        /\ Counts => ~done_sticky' /\ idx[0] < job /\ idx[0] = computations - 1
      BY <1>1, <1>2, <1>4, <1>6 DEF MacCompute, Counted, Before, Counts
  <2>2. computations' = computations /\ fsm' \in {"COMPUTE", "UPDATEIDX"}
      BY <1>6 DEF MacCompute, NoLaunch
  <2> QED
      BY <2>1, <2>2 DEF Counted, Before, Counts
<1>7. CASE Update
  <2>1. /\ fsm = "UPDATEIDX" /\ job \in Nat /\ ucode' = ucode /\ job' = job
        /\ ucode.loops[0].range = job + 1
      BY <1>1, <1>2, <1>7 DEF Update, Counted
  <2>2. CASE ~valid /\ Enabled /\ NoLaunch("UPDATEIDX")
    <3>1. computations' = computations /\ fsm' = "UPDATEIDX"
        BY <2>2 DEF NoLaunch
    <3>2. CASE Counts
      <4>1. idx[0] = computations - 1 /\ idx[0] < job /\ ~done_sticky /\ (busy_sticky <=> op > 0)
          BY <2>1, <2>2, <3>2 DEF Counted, Before
      <4>2. exec_int /\ ~done_sticky' /\ (busy_int <=> op < ucode.loops[0].nb_ops - 1)
          BY <1>1, <2>1, <2>2, <4>1, OneLoopEnabled DEF OneLoop
      <4>3. Counts' <=> Counts
          BY <2>1 DEF Counts
      <4>4. CASE busy_int
        <5>1. op' = op + 1 /\ idx'[0] = idx[0] /\ ~valid' /\ busy_sticky'
            BY <1>1, <2>2, <4>4, OneLoopEnabled
        <5> QED
            BY <1>1, <2>1, <3>1, <3>2, <4>1, <4>2, <4>3, <5>1
               DEF Counted, Before, OneLoop
      <4>5. CASE ~busy_int
        <5>1. op' = 0 /\ idx'[0] = idx[0] + 1 /\ (valid' <=> busy_sticky) /\ ~busy_sticky'
            BY <1>1, <2>2, <4>2, <4>5, OneLoopEnabled
        <5>2. op > 0 /\ busy_sticky
            BY <1>1, <3>2, <4>1, <4>2, <4>5 DEF OneLoop, Counts
        <5>3. idx'[0] = computations' /\ idx'[0] <= job
            BY <1>1, <2>1, <3>1, <4>1, <5>1 DEF OneLoop
        <5> QED
            BY <2>1, <3>1, <3>2, <4>2, <4>3, <5>1, <5>2, <5>3
               DEF Counted, Before
      <4> QED
          BY <4>4, <4>5
    <3>3. CASE ~Counts
      <4>1. ~busy_sticky
          BY <2>1, <3>3 DEF Counted
      <4>2. ~busy_int
          BY <1>1, <2>1, <3>3 DEF OneLoop, Counts
      <4>3. ~valid' /\ ~busy_sticky'
          BY <1>1, <2>2, <4>1, <4>2, OneLoopEnabled
      <4>4. ~Counts'
          BY <2>1, <3>3 DEF Counts
      <4> QED
          BY <2>1, <3>1, <4>3, <4>4 DEF Counted, Before
    <3> QED
        BY <3>2, <3>3
  <2>3. CASE valid /\ Disabled
    <3>1. idx[0] = computations /\ idx[0] <= job /\ op = 0 /\ ~busy_sticky /\ ~done_sticky /\ Counts
        BY <2>1, <2>3 DEF Counted
    <3>2. /\ op' = 0 /\ idx'[0] = idx[0] /\ ~valid' /\ ~busy_sticky'
          /\ idx[0] < job => ~done_sticky'
        BY <1>1, <1>4, <2>1, <2>3, <3>1
    <3>3. done <=> ~(idx[0] < job)
        BY <1>1, <2>1, <3>1 DEF done, OneLoop
    <3>4. Counts'
        BY <2>1, <3>1 DEF Counts
    <3>5. CASE ~done /\ Launch
      <4>1. fsm' = "COMPUTE" /\ computations' = computations + 1
        <5>1. computations <= job + 1
            BY <1>1, <2>1, <3>1
        <5> QED
            BY <3>5, <5>1 DEF Launch
      <4>2. idx'[0] = computations' - 1 /\ idx'[0] < job'
          BY <1>1, <2>1, <3>1, <3>2, <3>3, <3>5, <4>1
      <4> QED
          BY <2>1, <3>2, <3>3, <3>4, <3>5, <4>1, <4>2 DEF Counted, Before
    <3>6. CASE NoLaunch("TERMINATE") /\ cut' = (cut \/ ~done)
      <4>1. fsm' = "TERMINATE" /\ computations' = computations
          BY <3>6 DEF NoLaunch
      <4>2. IF cut' THEN computations' < job' ELSE computations' = job'
        <5>1. CASE done
          <6>1. ~cut'
              BY <2>1, <3>6, <5>1
          <6>2. computations' = job'
              BY <1>1, <2>1, <3>1, <3>3, <4>1, <5>1 DEF OneLoop
          <6> QED
              BY <6>1, <6>2
        <5>2. CASE ~done
          <6>1. cut' /\ computations' < job'
              BY <1>1, <2>1, <3>1, <3>3, <3>6, <4>1, <5>2
          <6> QED
              BY <6>1
        <5> QED
            BY <5>1, <5>2
      <4> QED
          BY <2>1, <3>2, <3>4, <4>1, <4>2 DEF Counted, Before
    <3> QED
        BY <1>7, <2>3, <3>5, <3>6 DEF Update
  <2> QED
      BY <1>7, <2>2, <2>3 DEF Update
<1>8. CASE Finish
  <2>1. CASE ready
      BY <1>8, <2>1 DEF Finish, Counted, Before
  <2>2. CASE ~ready
    <3>1. fsm = "TERMINATE" /\ fsm' = fsm /\ job' = job /\ ucode' = ucode
          /\ computations' = computations /\ cut' = cut
        BY <1>8, <2>2 DEF Finish
    <3> QED
        BY <3>1 DEF Counted, Before, Counts
  <2> QED
      BY <2>1, <2>2
<1> QED
    BY <1>5, <1>6, <1>7, <1>8

\* Counting is inductive.
LEMMA NextCounting ==
    ASSUME Inv, Counting, NB_LOOPS = 1, MacNext
    PROVE  Counting'
<1>1. CASE Idle
    BY <1>1, IdleCounting
<1>2. CASE StartOrWait \/ MacCompute \/ Update \/ Finish
  <2>1. Endless' <=> Endless
      BY <1>2 DEF StartOrWait, MacCompute, Update, Finish, Endless
  <2>2. Endless' => NeverDone'
      BY <1>2, <2>1, NextNeverDone DEF Counting
  <2>3. ~Endless' => Counted'
      BY <1>2, <2>1, NextCounted DEF Counting
  <2>4. (fsm' = "IDLE" => computations' = 0) /\ (cut' => fsm' = "TERMINATE")
    <3>1. CASE StartOrWait
        BY <3>1 DEF StartOrWait, Launch, NoLaunch, Counting
    <3>2. CASE MacCompute
        BY <3>2 DEF MacCompute, NoLaunch, Counting
    <3>3. CASE Update
      <4>1. fsm = "UPDATEIDX" /\ ~cut
          BY <3>3 DEF Update, Counting
      <4>2. fsm' = "TERMINATE" \/ (fsm' \in {"COMPUTE", "UPDATEIDX"} /\ ~cut')
        <5>1. CASE NoLaunch("TERMINATE")
            BY <5>1 DEF NoLaunch
        <5>2. CASE NoLaunch("UPDATEIDX") /\ UNCHANGED cut
            BY <4>1, <5>2 DEF NoLaunch
        <5>3. CASE Launch /\ UNCHANGED cut
            BY <4>1, <5>3 DEF Launch
        <5> QED
            BY <3>3, <5>1, <5>2, <5>3 DEF Update
      <4> QED
          BY <4>2
    <3>4. CASE Finish
        BY <3>4 DEF Finish, Counting
    <3> QED
        BY <1>2, <3>1, <3>2, <3>3, <3>4
  <2> QED
      BY <2>2, <2>3, <2>4 DEF Counting
<1>3. CASE SoftClear
    BY <1>3 DEF SoftClear, Counting, Counted, NeverDone, Before
<1> QED
    BY <1>1, <1>2, <1>3 DEF MacNext

\* The count of a job says how it ended.
LEMMA CountedEnd ==
    ASSUME Inv, NB_LOOPS = 1, Counting
    PROVE  CutOrComplete
<1>1. Limited <=> ~Endless
  <2>1. Loops = {0}
      BY DEF Loops
  <2>2. ucode.loops[0].range = source.range[0 + 1]
      BY <2>1, RangeOf DEF Inv, Processor
  <2> QED
      BY <2>1, <2>2 DEF Limited, Endless
<1>2. CASE Endless
    BY <1>1, <1>2 DEF Counting, NeverDone, CutOrComplete
<1>3. CASE ~Endless
    BY <1>1, <1>3 DEF Counting, Counted, CutOrComplete
<1> QED
    BY <1>2, <1>3

\* A job of one loop ends after as many computations as it asks for; an update
\* that found the streamers busy ends it with fewer, and a job whose range does
\* not fit the counter ends in no other way.
THEOREM OneLoopCutOrComplete == MacSpec => [](NB_LOOPS = 1 => CutOrComplete)
<1>1. MacInit => CountInv
    BY DEF MacInit, CountInv, Counting, Counted, NeverDone, Before
<1>2. Inv /\ CountInv /\ [MacNext]_allvars => CountInv'
  <2> SUFFICES ASSUME Inv, Counting, NB_LOOPS = 1, [MacNext]_allvars PROVE Counting'
      BY SameLoops DEF CountInv
  <2>1. CASE MacNext
      BY <2>1, NextCounting
  <2>2. CASE UNCHANGED allvars
      BY <2>2 DEF allvars, vars, fetch, flags, mac, Counting, Counted, NeverDone, Endless, Before, Counts
  <2> QED
      BY <2>1, <2>2
<1>3. Inv /\ CountInv => (NB_LOOPS = 1 => CutOrComplete)
    BY CountedEnd DEF CountInv
<1> QED
    BY <1>1, <1>2, <1>3, AlwaysInv, PTL DEF MacSpec
=============================================================================
