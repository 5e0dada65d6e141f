------------------------------ MODULE IftSram ------------------------------
(***************************************************************************)
(* One bank of the memories of the simulated SoC (ift_sram.sv): it loads   *)
(* the sections of the ELF file and of the taint file that are in its part *)
(* of the address map, and then follows the taint cycle by cycle.          *)
(*                                                                         *)
(* Taint is about pairs of runs: contents of the ELF file and inputs of    *)
(* the bank that are not tainted have the same value in both.  Run 1 is    *)
(* the one that is simulated, and the taint logic sees only its values.    *)
(* Words, addresses of rows, byte enables and their taints are sets of     *)
(* bits; bit i of a word is in byte i \div ByteWidth.                      *)
(*                                                                         *)
(* Addresses of the address map count words.  A private bank starts at     *)
(* Pri1, and NumBanks interleaved banks of NumWords words each at Tcdm.    *)
(***************************************************************************)
EXTENDS Naturals, Sequences

CONSTANTS Pri1, Tcdm, NumBanks, NumWords,
          AddrWidth, WidthBytes, ByteWidth,
          Designs,        \* of "prepared" and "instrumented"
          TaintWords,     \* the words that a taint file may hold
          Content,        \* the word of the ELF file at each address, in run 1
          Masks,          \* where run 2 may have other bits, if they are tainted
          NumSections,    \* sections of the ELF file
          MaxLen,         \* bound on the words of a section
          Requests        \* inputs of a clock cycle, for both runs

Run == {1, 2}
Addr == SUBSET (0..(AddrWidth - 1))
Bytes == 0..(WidthBytes - 1)
Bits == 0..(WidthBytes * ByteWidth - 1)
Word == SUBSET Bits

\* The bits in which two sets differ.
Differ(x, y) == (x \ y) \cup (y \ x)

\* Inputs of the two runs with their taints: they differ in tainted bits only.
Taints == [req : BOOLEAN, we : BOOLEAN, be : SUBSET Bytes, addr : Addr, wdata : Word]
Flags(p, taint) == p \in [Run -> BOOLEAN] /\ (p[1] # p[2] => taint)
Pairs(p, S, taint) == p \in [Run -> S] /\ Differ(p[1], p[2]) \subseteq taint
Inputs(q) ==
    /\ q.t \in Taints
    /\ Flags(q.req, q.t.req) /\ Flags(q.we, q.t.we)
    /\ Pairs(q.be, SUBSET Bytes, q.t.be)
    /\ Pairs(q.addr, Addr, q.t.addr)
    /\ Pairs(q.wdata, Word, q.t.wdata)

End == Tcdm + NumBanks * NumWords

ASSUME WidthAssumption ==
    /\ {NumBanks, NumWords, AddrWidth, WidthBytes, ByteWidth} \subseteq Nat \ {0}
    /\ {Pri1, Tcdm, NumSections, MaxLen} \subseteq Nat
    /\ Pri1 <= Tcdm
    /\ Designs \subseteq {"prepared", "instrumented"}
    /\ TaintWords \subseteq Word
    /\ Content \in [Pri1..(End - 1) -> Word]
    /\ \A m \in Masks : m \in [Pri1..(End - 1) -> Word]
    /\ \A q \in Requests : Inputs(q)

VARIABLES files,          \* the bank, the ELF file and the taint file it loads
          left,           \* the sections that are left to load
          memory,         \* [run -> [address -> word]]
          mem_taints,     \* [address -> word]
          rdata_o,        \* [run -> word]
          before,         \* rdata_o_taint_before_conservative
          full,           \* is_mem_fully_tainted_q
          was,            \* was_req_addr_tainted_q
          valid,          \* the last cycle was a read in one of the runs
          lost,           \* history: what has happened that the taint logic does not follow
          unmarked,       \* history: differences that the load left without taint,
                          \* as far as they are not overwritten
          passed          \* history: those of them in the row that was read last
load == <<files, left>>
history == <<lost, unmarked, passed>>
clocked == <<rdata_o, before, full, was, valid>>
vars == <<load, memory, mem_taints, clocked, history>>

Number(addr) == CHOOSE n \in 0..(2^AddrWidth - 1) :
                    addr = {k \in 0..(AddrWidth - 1) : (n \div 2^k) % 2 = 1}

(***************************************************************************)
(* The instances and the address map                                       *)
(***************************************************************************)
Pri == NumBanks                       \* the private bank, after the others
Banks == 0..Pri

\* replace_instances_hdac.py gives all interleaved banks one AddrOffset;
\* deparam_mem_module_names.py, which names the instances again in the
\* instrumented design, adds the size of the banks before.
Params(design, b) ==
    IF b = Pri THEN [NumBanks |-> 1, BankId |-> 0, AddrOffset |-> Pri1]
    ELSE [NumBanks |-> NumBanks, BankId |-> b,
          AddrOffset |-> IF design = "prepared" THEN Tcdm ELSE Tcdm + NumWords * b]
Instance == Params(files.design, files.bank)

\* The bank and the row that an access to address a reaches: the lowest bits
\* select the bank, and the offset of the region is taken off.
BankOf(a) == IF a < Tcdm THEN Pri ELSE (a - Tcdm) % NumBanks
RowOf(a) == IF a < Tcdm THEN a - Pri1 ELSE (a - Tcdm) \div NumBanks

(***************************************************************************)
(* The files                                                               *)
(***************************************************************************)
Addresses(s) == s.addr..(s.addr + s.len - 1)

\* A section lies in one region and is aligned to the number of banks.
Extents ==
    {s \in [addr : {a \in Pri1..(End - 1) : (a - Pri1) % NumBanks = 0}, len : 1..MaxLen] :
        s.addr + s.len <= IF s.addr < Tcdm THEN Tcdm ELSE End}
Disjoint(elf) ==
    \A m, n \in DOMAIN elf : m # n => Addresses(elf[m]) \cap Addresses(elf[n]) = {}

\* A section of taint has one word of taint for all its addresses.
TaintSections == {[addr |-> e.addr, len |-> e.len, word |-> w] : e \in Extents, w \in TaintWords}
TaintOf(taint, a) == IF a \in Addresses(taint) THEN taint.word ELSE {}

\* The word at address a of the ELF file of each run: tainted bits differ.
WordIn(run, a) ==
    IF run = 1 THEN Content[a]
    ELSE Differ(Content[a], files.mask[a] \cap TaintOf(files.taints[1], a))

(***************************************************************************)
(* Loading                                                                 *)
(***************************************************************************)
\* A row that is never written reads as zero, without taint.
Init ==
    /\ \E design \in Designs, b \in Banks, taint \in TaintSections, mask \in Masks :
           \E elf \in [1..NumSections -> Extents] :
               /\ Disjoint(elf)
               /\ files = [design |-> design, bank |-> b, elf |-> elf, taints |-> <<taint>>, mask |-> mask]
    /\ left = [elf |-> files.elf, taints |-> files.taints]
    /\ memory = [r \in Run |-> [a \in Addr |-> {}]]
    /\ mem_taints = [a \in Addr |-> {}]
    /\ rdata_o = [r \in Run |-> {}]
    /\ before = {}
    /\ full = FALSE
    /\ was = FALSE
    /\ valid = FALSE
    /\ lost = {}
    /\ unmarked = [a \in Addr |-> {}]
    /\ passed = {}

Closed == <<>>

\* Whether the bank takes word i of section s, and the row for it.
Holds(s, i) ==
    /\ s.addr >= Instance.AddrOffset
    /\ (s.addr - Instance.AddrOffset + i) % Instance.NumBanks = Instance.BankId
Row(s, i) == (s.addr - Instance.AddrOffset + i) \div Instance.NumBanks

\* The words of section s that go to row r of the bank.
WordsOf(s, r) == {i \in 0..(s.len - 1) : Holds(s, i) /\ Row(s, i) = r}

\* Mutant: the words of each bank are taken one after the other.
WordAtRow(s, r) == s.addr + r - Row(s, 0)

\* The address in the file of the word for row r.
WordAt(s, r) == s.addr + (CHOOSE i \in WordsOf(s, r) : TRUE)

LoadSection ==
    LET s == Head(left.elf)
    IN  /\ files # Closed /\ left.elf # <<>>
        /\ memory' = [run \in Run |-> [a \in Addr |->
                         IF WordsOf(s, Number(a)) = {} THEN memory[run][a]
                         ELSE WordIn(run, WordAt(s, Number(a)))]]
        /\ left' = [left EXCEPT !.elf = Tail(@)]
        /\ UNCHANGED <<files, mem_taints, clocked, history>>

\* The index [taint_id] selects one bit of the row, number 0.
TaintRow(s, r, old) == IF WordsOf(s, r) = {} THEN old ELSE old \cup (s.word \cap {0})

LoadTaints ==
    LET s == Head(left.taints)
    IN  /\ files # Closed /\ left.taints # <<>>
        /\ mem_taints' = [a \in Addr |-> TaintRow(s, Number(a), mem_taints[a])]
        /\ left' = [left EXCEPT !.taints = Tail(@)]
        /\ UNCHANGED <<files, memory, clocked, history>>

\* The initial blocks have ended, and the clock starts.
Unmarked(a) == Differ(memory[1][a], memory[2][a]) \ mem_taints[a]
Loaded == files # Closed /\ left = [elf |-> <<>>, taints |-> <<>>]
StartClock ==
    /\ Loaded
    /\ files' = Closed
    /\ unmarked' = [a \in Addr |-> Unmarked(a)]
    /\ UNCHANGED <<left, memory, mem_taints, clocked, lost, passed>>

(***************************************************************************)
(* Clock cycles                                                            *)
(***************************************************************************)
\* A byte enable meets a tainted bit of the address of the same number.
Seen(be, t) == (be[1] \cup t.be) \cap t.addr # {}

\* Mutant: only while the tainted write lasts.
FullNotSticky(req, we, be, t) == (req[1] \/ t.req) /\ (we[1] \/ t.we) /\ Seen(be, t)

\* is_mem_fully_tainted_d: the byte enables are and-ed bitwise with the taint
\* of the address.
Full(req, we, be, t) == full \/ ((req[1] \/ t.req) /\ (we[1] \/ t.we) /\ Seen(be, t))

\* Mutant: only the taint of the request counts.
WasOfRequest(req, t) == t.req \/ (req[1] /\ t.we)

\* was_req_addr_tainted_d
Was(req, t) == t.addr # {} \/ t.req \/ (req[1] /\ t.we)

\* The bits of the enabled bytes.
Enabled(be) == {i \in Bits : i \div ByteWidth \in be}

\* Mutant: the loop over the bits is off by one.
WriteShifted(old, new, be) == (old \ Enabled(be)) \cup {i + 1 : i \in new \cap Enabled(be)}

\* The enabled bytes of a word take new values.
Write(old, new, be) == (old \ Enabled(be)) \cup (new \cap Enabled(be))

writes(q, r) == q.req[r] /\ q.we[r]
reads(q, r) == q.req[r] /\ ~q.we[r]

\* What the processes of memory and taint memory do at a clock edge; they have
\* no reset.
Access(q) ==
    /\ memory' = [r \in Run |->
            IF writes(q, r) THEN [memory[r] EXCEPT ![q.addr[r]] = Write(@, q.wdata[r], q.be[r])]
            ELSE memory[r]]
    /\ mem_taints' = IF writes(q, 1)
                     THEN [mem_taints EXCEPT ![q.addr[1]] = Write(@, q.t.wdata, q.be[1])]
                     ELSE mem_taints
    /\ rdata_o' = [r \in Run |-> IF reads(q, r) THEN memory[r][q.addr[r]] ELSE rdata_o[r]]
    /\ before' = IF reads(q, 1) THEN mem_taints[q.addr[1]] ELSE before
    /\ unmarked' = IF writes(q, 1)
                   THEN [unmarked EXCEPT ![q.addr[1]] = Write(@, {}, q.be[1])]
                   ELSE unmarked
    /\ passed' = IF reads(q, 1) THEN unmarked[q.addr[1]] ELSE passed

\* Writes that nothing follows: in one run only, of other bytes in each run, and
\* to other rows in each run (an address that is tainted, but in no bit where
\* the code sees it).
Slips(q) ==
    {k \in {"run", "bytes", "address"} :
        \/ k = "run" /\ writes(q, 1) # writes(q, 2)
        \/ k = "bytes" /\ writes(q, 1) /\ writes(q, 2) /\ q.be[1] # q.be[2]
        \/ k = "address" /\ writes(q, 1) /\ writes(q, 2) /\ q.addr[1] # q.addr[2] /\ ~Seen(q.be, q.t)}

\* A clock edge.
ClockEdge ==
    /\ files = Closed
    /\ \E q \in Requests :
          /\ Access(q)
          /\ full' = Full(q.req, q.we, q.be, q.t)
          /\ was' = Was(q.req, q.t)
          /\ valid' = (reads(q, 1) \/ reads(q, 2))
          /\ lost' = lost \cup Slips(q)
    /\ UNCHANGED load

\* A clock edge in reset: the flags are cleared, and what they marked is lost.
Reset ==
    /\ files = Closed
    /\ \E q \in Requests :
          /\ Access(q)
          /\ lost' = lost \cup Slips(q)
                    \cup {k \in {"reset"} : full \/ (writes(q, 1) /\ q.addr[1] # q.addr[2])}
    /\ full' = FALSE
    /\ was' = FALSE
    /\ valid' = FALSE
    /\ UNCHANGED load

Next == LoadSection \/ LoadTaints \/ StartClock \/ ClockEdge \/ Reset
Spec == Init /\ [][Next]_vars

(***************************************************************************)
(* Properties                                                              *)
(***************************************************************************)
\* Type invariant.
TypeOK ==
    /\ memory \in [Run -> [Addr -> Word]] /\ mem_taints \in [Addr -> Word]
    /\ rdata_o \in [Run -> Word] /\ before \in Word
    /\ full \in BOOLEAN /\ was \in BOOLEAN /\ valid \in BOOLEAN
    /\ lost \subseteq {"run", "bytes", "address", "reset"}
    /\ unmarked \in [Addr -> Word] /\ passed \in Word

\* The address a of the map is in this bank at the row addr.
Reaches(a, addr) == BankOf(a) = files.bank /\ RowOf(a) = Number(addr)

\* The core reads at each address of the ELF file that the interconnect sends
\* to this bank the word that the file has there.
ProgramLoaded ==
    \A n \in DOMAIN files.elf : \A a \in Addresses(files.elf[n]), addr \in Addr :
        Reaches(a, addr) => \A r \in Run : memory[r][addr] = WordIn(r, a)

\* sram.o "is loaded into the simulation RAM when the simulation starts"
\* (src/cellift/Readme.md), in every bank.
LoadsProgram == Loaded => ProgramLoaded

\* The offset is that of the region: in all banks of the prepared design, and
\* in the first and the private one of the instrumented design.
Aligned == files.design = "prepared" \/ files.bank \in {0, Pri}

\* Once an aligned bank is loaded, it has its part of the ELF file, and each of
\* its addresses has bit 0 of the taint that the taint file gives to it and no
\* other: the interleaving that ift_sram assumes, for data and for taint, is
\* the one of the interconnect.  So differences in bit 0 are marked; the loader
\* drops the taint of all other bits.
LoadedAsGiven ==
    Loaded /\ Aligned =>
        /\ ProgramLoaded
        /\ \A a \in Pri1..(End - 1), addr \in Addr :
               Reaches(a, addr) => mem_taints[addr] = TaintOf(files.taints[1], a) \cap {0}
        /\ \A addr \in Addr : 0 \notin Unmarked(addr)

\* From the first clock on, the memories of the two runs differ only where the
\* taint memory says so, or where the load left a difference that has not been
\* overwritten since, unless the whole memory is marked.
Followed ==
    files = Closed /\ ~full =>
        \A a \in Addr : Differ(memory[1][a], memory[2][a]) \subseteq mem_taints[a] \cup unmarked[a]

\* Taint is lost in no other way than those of lost: writes in one run only, of
\* other bytes, or through an address tainted where the code does not look, and
\* resets that clear the mark or meet a write through a tainted address.
MemoryTaintSound == lost = {} => Followed

\* "Taint the full sram if a write occurs with a tainted address": writes
\* through tainted addresses are followed wherever the taint is.
AddressesFollowed == lost \subseteq {"address"} => Followed

\* rdata_o_t0
rdata_o_t0 == before \cup (IF was \/ full THEN Bits ELSE {})

\* In the cycle after a read, the read data of the two runs differ only in
\* bits that the bank gives out as tainted (rdata_o_t0), or that the load left
\* without taint: on the way from the memory no taint is lost.
ReadTaintSound ==
    valid /\ lost = {} => Differ(rdata_o[1], rdata_o[2]) \subseteq rdata_o_t0 \cup passed
=============================================================================
