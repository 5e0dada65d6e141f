--------------------------- MODULE IftSram_proofs ---------------------------
(***************************************************************************)
(* Loading and taint of one memory bank, for every number and size of the  *)
(* banks, every width of words and addresses, both designs, any contents   *)
(* of the files and any inputs.                                            *)
(***************************************************************************)
EXTENDS IftSram, TLAPS

(***************************************************************************)
(* Sections and rows                                                       *)
(***************************************************************************)
InRegion(s) ==
    /\ s.addr \in Nat /\ s.len \in Nat
    /\ s.addr >= Pri1
    /\ s.addr + s.len <= End
    /\ s.addr < Tcdm => s.addr + s.len <= Tcdm

\* The address map in numbers.
LEMMA MapNumbers ==
    /\ NumBanks \in Nat \ {0} /\ NumWords \in Nat \ {0}
    /\ Pri1 \in Nat /\ Tcdm \in Nat /\ End \in Nat
    /\ NumSections \in Nat /\ MaxLen \in Nat
    /\ Pri1 <= Tcdm /\ Tcdm <= End
<1>1. /\ NumBanks \in Nat \ {0} /\ NumWords \in Nat \ {0} /\ Pri1 \in Nat /\ Tcdm \in Nat
      /\ NumSections \in Nat /\ MaxLen \in Nat /\ Pri1 <= Tcdm
    BY WidthAssumption
<1>2. PICK k \in Nat : k = NumBanks * NumWords
    BY <1>1
<1> QED
    BY <1>1, <1>2 DEF End

\* The extents of the files lie in one region each.
LEMMA ExtentsInRegion == \A e \in Extents : InRegion(e)
<1> SUFFICES ASSUME NEW e \in Extents PROVE InRegion(e)
    OBVIOUS
<1>1. /\ e.addr \in Pri1..(End - 1) /\ e.len \in 1..MaxLen
      /\ e.addr + e.len <= IF e.addr < Tcdm THEN Tcdm ELSE End
    BY DEF Extents
<1> QED
    BY <1>1, MapNumbers DEF InRegion

\* Their addresses are in the map.
LEMMA InMap ==
    ASSUME NEW s, InRegion(s), NEW a \in Addresses(s)
    PROVE  a \in Pri1..(End - 1)
BY MapNumbers DEF InRegion, Addresses

\* A taint section lies in one region, and has a word of the taint file.
LEMMA TaintSectionsInRegion ==
    ASSUME NEW taint \in TaintSections
    PROVE  InRegion(taint) /\ taint.word \in Word
<1>1. PICK e \in Extents, w \in TaintWords : taint = [addr |-> e.addr, len |-> e.len, word |-> w]
    BY DEF TaintSections
<1>2. taint.addr = e.addr /\ taint.len = e.len /\ taint.word = w
    BY <1>1
<1> QED
    BY <1>2, ExtentsInRegion, WidthAssumption DEF InRegion

\* The parameters of an instance are numbers, and there is a bank at least.
LEMMA ParamsTypes ==
    ASSUME NEW d, NEW b \in Banks
    PROVE  /\ Params(d, b).NumBanks \in Nat \ {0}
           /\ Params(d, b).BankId \in Nat
           /\ Params(d, b).AddrOffset \in Nat
<1>1. b \in Nat
    BY MapNumbers DEF Banks, Pri
<1>2. NumWords * b \in Nat
    BY <1>1, MapNumbers
<1> QED
    BY <1>1, <1>2, MapNumbers DEF Params

\* An aligned bank has the offset of its region.
LEMMA AlignedParams ==
    ASSUME Aligned, files.bank \in Banks
    PROVE  Instance = IF files.bank = Pri THEN [NumBanks |-> 1, BankId |-> 0, AddrOffset |-> Pri1]
                      ELSE [NumBanks |-> NumBanks, BankId |-> files.bank, AddrOffset |-> Tcdm]
<1>1. CASE files.design = "prepared" \/ files.bank = Pri
    BY <1>1 DEF Instance, Params
<1>2. CASE files.bank = 0 /\ files.bank # Pri
  <2>1. Tcdm + NumWords * files.bank = Tcdm
      BY <1>2, MapNumbers
  <2> QED
      BY <1>2, <2>1 DEF Instance, Params
<1> QED
    BY <1>1, <1>2 DEF Aligned

\* A number is known from its quotient and its remainder.
LEMMA QuotientAndRemainder ==
    ASSUME NEW m \in Nat \ {0}, NEW x \in Nat, NEW y \in Nat,
           x % m = y % m, x \div m = y \div m
    PROVE  x = y
<1>1. x = m * (x \div m) + (x % m) /\ y = m * (y \div m) + (y % m)
    BY SMT
<1> QED
    BY <1>1

\* At most one address of the map goes to a row of a bank.
LEMMA OneAddressForRow ==
    ASSUME files.bank \in Banks, NEW s, NEW u, InRegion(s), InRegion(u), NEW r,
           NEW i \in WordsOf(s, r), NEW j \in WordsOf(u, r)
    PROVE  s.addr + i = u.addr + j
<1> DEFINE p == Instance
<1>1. p.NumBanks \in Nat \ {0} /\ p.AddrOffset \in Nat
    BY ParamsTypes DEF Instance
<1>2. i \in Nat /\ j \in Nat /\ s.addr \in Nat /\ u.addr \in Nat
    BY DEF WordsOf, InRegion
<1>3. /\ s.addr >= p.AddrOffset /\ u.addr >= p.AddrOffset
      /\ (s.addr - p.AddrOffset + i) % p.NumBanks = (u.addr - p.AddrOffset + j) % p.NumBanks
      /\ (s.addr - p.AddrOffset + i) \div p.NumBanks = (u.addr - p.AddrOffset + j) \div p.NumBanks
    BY DEF WordsOf, Holds, Row
<1> HIDE DEF p
<1>4. s.addr - p.AddrOffset + i \in Nat /\ u.addr - p.AddrOffset + j \in Nat
    BY <1>1, <1>2, <1>3
<1>5. s.addr - p.AddrOffset + i = u.addr - p.AddrOffset + j
    BY <1>1, <1>3, <1>4, QuotientAndRemainder
<1> QED
    BY <1>1, <1>2, <1>5

\* An aligned bank takes the words that the interconnect sends to it, into the
\* rows that the interconnect addresses.
LEMMA ReachedIsHeld ==
    ASSUME Aligned, files.bank \in Banks, NEW s, InRegion(s),
           NEW a \in Addresses(s), NEW addr \in Addr, Reaches(a, addr)
    PROVE  a - s.addr \in WordsOf(s, Number(addr))
<1>1. /\ NumBanks \in Nat \ {0} /\ Pri1 \in Nat /\ Tcdm \in Nat
      /\ s.addr \in Nat /\ s.len \in Nat /\ s.addr >= Pri1
      /\ a \in Nat /\ a >= s.addr /\ a < s.addr + s.len
      /\ s.addr < Tcdm => a < Tcdm
    BY MapNumbers DEF InRegion, Addresses
<1>2. a - s.addr \in 0..(s.len - 1)
    BY <1>1
<1>3. CASE a < Tcdm
  <2>1. files.bank = Pri /\ Number(addr) = a - Pri1
      BY <1>3 DEF Reaches, BankOf, RowOf
  <2>2. Instance = [NumBanks |-> 1, BankId |-> 0, AddrOffset |-> Pri1]
      BY <2>1, AlignedParams
  <2>3. s.addr - Pri1 + (a - s.addr) = a - Pri1 /\ a - Pri1 \in Nat
      BY <1>1
  <2>4. (a - Pri1) % 1 = 0 /\ (a - Pri1) \div 1 = a - Pri1
      BY <2>3
  <2> QED
      BY <1>1, <1>2, <2>1, <2>2, <2>3, <2>4 DEF WordsOf, Holds, Row
<1>4. CASE a >= Tcdm
  <2>1. files.bank = (a - Tcdm) % NumBanks /\ Number(addr) = (a - Tcdm) \div NumBanks
      BY <1>1, <1>4 DEF Reaches, BankOf, RowOf
  <2>2. files.bank # Pri
      BY <1>1, <1>4, <2>1 DEF Pri
  <2>3. Instance = [NumBanks |-> NumBanks, BankId |-> files.bank, AddrOffset |-> Tcdm]
      BY <2>2, AlignedParams
  <2>4. s.addr - Tcdm + (a - s.addr) = a - Tcdm /\ s.addr >= Tcdm
      BY <1>1, <1>4
  <2>5. Holds(s, a - s.addr) /\ Row(s, a - s.addr) = Number(addr)
      BY <2>1, <2>3, <2>4 DEF Holds, Row
  <2> QED
      BY <1>2, <2>5 DEF WordsOf
<1> QED
    BY <1>1, <1>3, <1>4

\* Where an aligned bank takes the word of an address from one file, it takes
\* the word of that address from the other file too.
LEMMA HeldInBothFiles ==
    ASSUME Aligned, files.bank \in Banks,
           NEW s, NEW u, InRegion(s), InRegion(u), NEW r,
           NEW i \in WordsOf(s, r), s.addr + i \in Addresses(u)
    PROVE  s.addr + i - u.addr \in WordsOf(u, r)
<1> DEFINE p == Instance
<1>1. /\ p.AddrOffset \in Nat /\ p.NumBanks \in Nat \ {0} /\ Tcdm \in Nat
      /\ p.AddrOffset \in {Pri1, Tcdm}
    BY ParamsTypes, MapNumbers, AlignedParams DEF Instance
<1>2. /\ i \in Nat /\ s.addr \in Nat /\ u.addr \in Nat /\ s.addr >= p.AddrOffset
      /\ (s.addr - p.AddrOffset + i) % p.NumBanks = p.BankId
      /\ (s.addr - p.AddrOffset + i) \div p.NumBanks = r
    BY DEF WordsOf, InRegion, Holds, Row
<1> HIDE DEF p
<1>3. /\ s.addr + i - u.addr \in 0..(u.len - 1)
      /\ u.addr - p.AddrOffset + (s.addr + i - u.addr) = s.addr - p.AddrOffset + i
    BY <1>1, <1>2 DEF Addresses, InRegion
<1>4. u.addr >= p.AddrOffset
    BY <1>1, <1>2, <1>3 DEF InRegion, Addresses
<1> QED
    BY <1>2, <1>3, <1>4 DEF WordsOf, Holds, Row, p

(***************************************************************************)
(* The files while the bank loads them                                     *)
(***************************************************************************)
Taint == files.taints[1]
NumLoaded == NumSections - Len(left.elf)

\* While the bank loads, the sections that are left are the last ones of the
\* files.
FilesOK ==
    files # Closed =>
        /\ files.bank \in Banks
        /\ Taint \in TaintSections
        /\ files.mask \in Masks
        /\ files.elf \in Seq(Extents) /\ Len(files.elf) = NumSections
        /\ Disjoint(files.elf)
        /\ left = [elf |-> left.elf, taints |-> left.taints]
        /\ left.taints \in {<<Taint>>, <<>>}
        /\ left.elf \in Seq(Extents) /\ Len(left.elf) <= NumSections
        /\ \A j \in 1..Len(left.elf) : left.elf[j] = files.elf[NumLoaded + j]

\* Before the load every section is left.
LEMMA InitFilesOK == Init => FilesOK
<1> SUFFICES ASSUME Init PROVE FilesOK
    OBVIOUS
<1>1. PICK design \in Designs, b \in Banks, taint \in TaintSections, mask \in Masks :
          \E elf \in [1..NumSections -> Extents] :
               /\ Disjoint(elf)
               /\ files = [design |-> design, bank |-> b, elf |-> elf, taints |-> <<taint>>, mask |-> mask]
    BY DEF Init
<1> PICK elf \in [1..NumSections -> Extents] :
               /\ Disjoint(elf)
               /\ files = [design |-> design, bank |-> b, elf |-> elf, taints |-> <<taint>>, mask |-> mask]
    BY <1>1
<1>2. files.bank = b /\ files.elf = elf /\ files.taints = <<taint>> /\ Taint = taint /\ files.mask = mask
    BY DEF Taint
<1>3. left.elf = elf /\ left.taints = <<taint>> /\ left = [elf |-> left.elf, taints |-> left.taints]
    BY <1>2 DEF Init
<1>4. NumSections \in Nat
    BY WidthAssumption
<1>5. elf \in Seq(Extents) /\ Len(elf) = NumSections
    BY <1>4
<1>6. NumLoaded = 0
    BY <1>3, <1>4, <1>5 DEF NumLoaded
<1> QED
    BY <1>2, <1>3, <1>4, <1>5, <1>6 DEF FilesOK

\* A step takes the first section that is left, or leaves the files alone.
LEMMA NextFilesOK == FilesOK /\ [Next]_vars => FilesOK'
<1> SUFFICES ASSUME FilesOK, [Next]_vars PROVE FilesOK'
    OBVIOUS
<1> USE DEF FilesOK, Taint
<1>1. CASE LoadSection
  <2>1. /\ files # Closed /\ files' = files /\ left.elf # <<>>
        /\ left' = [left EXCEPT !.elf = Tail(@)]
      BY <1>1 DEF LoadSection
  <2>2. /\ left'.elf = Tail(left.elf) /\ left'.taints = left.taints
        /\ left' = [elf |-> left'.elf, taints |-> left'.taints]
      BY <2>1
  <2>3. /\ left'.elf \in Seq(Extents) /\ Len(left'.elf) = Len(left.elf) - 1
        /\ \A j \in 1..Len(left'.elf) : left'.elf[j] = left.elf[j + 1]
      BY <2>1, <2>2
  <2>4. NumSections \in Nat /\ Len(left.elf) \in Nat
      BY <2>1, WidthAssumption
  <2>5. \A j \in 1..Len(left'.elf) : left'.elf[j] = files.elf[NumSections - Len(left'.elf) + j]
    <3> SUFFICES ASSUME NEW j \in 1..Len(left'.elf)
                 PROVE  left'.elf[j] = files.elf[NumSections - Len(left'.elf) + j]
        OBVIOUS
    <3>1. j + 1 \in 1..Len(left.elf)
        BY <2>3, <2>4
    <3>2. left.elf[j + 1] = files.elf[NumLoaded + (j + 1)]
        BY <2>1, <3>1
    <3>3. NumLoaded + (j + 1) = NumSections - Len(left'.elf) + j
        BY <2>3, <2>4 DEF NumLoaded
    <3> QED
        BY <2>3, <3>2, <3>3
  <2> QED
      BY <2>1, <2>2, <2>3, <2>4, <2>5 DEF NumLoaded
<1>2. CASE LoadTaints
  <2>1. /\ files # Closed /\ files' = files /\ left.taints # <<>>
        /\ left' = [left EXCEPT !.taints = Tail(@)]
      BY <1>2 DEF LoadTaints
  <2>2. left.taints = <<Taint>> /\ Tail(<<Taint>>) = <<>>
      BY <2>1
  <2>3. /\ left'.elf = left.elf /\ left'.taints = <<>>
        /\ left' = [elf |-> left'.elf, taints |-> left'.taints]
      BY <2>1, <2>2
  <2> QED
      BY <2>1, <2>3 DEF NumLoaded
<1>3. CASE StartClock
    BY <1>3 DEF StartClock
<1>4. CASE ClockEdge \/ Reset \/ UNCHANGED vars
  <2>1. files' = files /\ left' = left
      BY <1>4 DEF ClockEdge, Reset, vars, load
  <2> QED
      BY <2>1 DEF NumLoaded
<1> QED
    BY <1>1, <1>2, <1>3, <1>4 DEF Next

(***************************************************************************)
(* Types                                                                   *)
(***************************************************************************)

\* Words, and what is made of them.
LEMMA WordTypes ==
    /\ {} \in Word /\ Bits \in Word /\ {0} \in Word
    /\ \A old, new \in Word : \A be : Write(old, new, be) \in Word
    /\ \A x, y \in Word : Differ(x, y) \in Word /\ x \cap y \in Word /\ x \cup y \in Word
<1>1. 0 \in Bits
  <2>1. PICK w \in Nat \ {0}, b \in Nat \ {0} : w = WidthBytes /\ b = ByteWidth
      BY WidthAssumption
  <2>2. w * b \in Nat \ {0}
      BY <2>1
  <2> QED
      BY <2>1, <2>2 DEF Bits
<1>2. \A old, new \in Word : \A be : Write(old, new, be) \in Word
    BY DEF Write, Word
<1>3. \A x, y \in Word : Differ(x, y) \in Word /\ x \cap y \in Word /\ x \cup y \in Word
    BY DEF Differ, Word
<1> QED
    BY <1>1, <1>2, <1>3 DEF Word

\* The files have a word for every address of the map, which differs between
\* the runs in tainted bits only.
LEMMA WordsOfFiles ==
    ASSUME FilesOK, files # Closed, NEW a \in Pri1..(End - 1)
    PROVE  /\ \A r \in Run : WordIn(r, a) \in Word
           /\ Differ(WordIn(1, a), WordIn(2, a)) \subseteq TaintOf(Taint, a)
<1>1. Content[a] \in Word /\ files.mask[a] \in Word
    BY WidthAssumption DEF FilesOK
<1>2. WordIn(1, a) = Content[a] /\ WordIn(2, a) = Differ(Content[a], files.mask[a] \cap TaintOf(Taint, a))
    BY DEF WordIn, Taint
<1>3. files.mask[a] \cap TaintOf(Taint, a) \in Word
    BY <1>1 DEF Word
<1>4. WordIn(1, a) \in Word /\ WordIn(2, a) \in Word
    BY <1>1, <1>2, <1>3, WordTypes
<1> QED
    BY <1>2, <1>4 DEF Differ, Run

\* What a step of the load writes to a row is the word of the first section at
\* an address of that section.
LEMMA LoadedWord ==
    ASSUME FilesOK, LoadSection, NEW a \in Addr, WordsOf(Head(left.elf), Number(a)) # {}
    PROVE  LET s == Head(left.elf)
           IN  /\ InRegion(s)
               /\ \E i \in WordsOf(s, Number(a)) :
                     /\ WordAt(s, Number(a)) = s.addr + i
                     /\ s.addr + i \in Addresses(s)
<1> DEFINE s == Head(left.elf)
<1>1. files # Closed /\ left.elf # <<>>
    BY DEF LoadSection
<1>2. s \in Extents
    BY <1>1 DEF FilesOK
<1>3. InRegion(s)
    BY <1>2, ExtentsInRegion
<1>4. PICK i \in WordsOf(s, Number(a)) : WordAt(s, Number(a)) = s.addr + i
    BY DEF WordAt
<1>5. s.addr + i \in Addresses(s)
  <2>1. i \in 0..(s.len - 1) /\ s.addr \in Nat /\ s.len \in Nat
      BY <1>3 DEF WordsOf, InRegion
  <2> QED
      BY <2>1 DEF Addresses
<1> QED
    BY <1>3, <1>4, <1>5

\* The inputs of a clock cycle in their types.
LEMMA RequestTypes ==
    ASSUME NEW q \in Requests
    PROVE  /\ q.req \in [Run -> BOOLEAN] /\ q.we \in [Run -> BOOLEAN]
           /\ q.be \in [Run -> SUBSET Bytes] /\ q.addr \in [Run -> Addr] /\ q.wdata \in [Run -> Word]
           /\ q.t.req \in BOOLEAN /\ q.t.we \in BOOLEAN /\ q.t.wdata \in Word
           /\ q.req[1] # q.req[2] => q.t.req
           /\ q.we[1] # q.we[2] => q.t.we
           /\ Differ(q.addr[1], q.addr[2]) \subseteq q.t.addr
           /\ Differ(q.wdata[1], q.wdata[2]) \subseteq q.t.wdata
<1>1. Inputs(q)
    BY WidthAssumption
<1>2. q.t \in Taints
    BY <1>1 DEF Inputs
<1>3. q.t.req \in BOOLEAN /\ q.t.we \in BOOLEAN /\ q.t.wdata \in Word
    BY <1>2 DEF Taints
<1> QED
    BY <1>1, <1>3 DEF Inputs, Flags, Pairs

\* The memories and outputs keep their types at a clock edge.
LEMMA AccessTypes ==
    ASSUME TypeOK, NEW q \in Requests, Access(q)
    PROVE  /\ memory' \in [Run -> [Addr -> Word]] /\ mem_taints' \in [Addr -> Word]
           /\ rdata_o' \in [Run -> Word] /\ before' \in Word
           /\ unmarked' \in [Addr -> Word] /\ passed' \in Word
<1> USE DEF TypeOK
<1>1. /\ q.addr \in [Run -> Addr] /\ q.wdata \in [Run -> Word] /\ q.t.wdata \in Word
      /\ 1 \in Run
    BY RequestTypes DEF Run
<1>2. memory' \in [Run -> [Addr -> Word]]
    BY <1>1, WordTypes DEF Access
<1>3. mem_taints' \in [Addr -> Word]
    BY <1>1, WordTypes DEF Access
<1>4. rdata_o' \in [Run -> Word] /\ before' \in Word
    BY <1>1 DEF Access
<1>5. unmarked' \in [Addr -> Word] /\ passed' \in Word
    BY <1>1, WordTypes DEF Access
<1> QED
    BY <1>2, <1>3, <1>4, <1>5

\* The load writes words of the files, a clock edge writes words of the inputs.
LEMMA NextTypeOK == FilesOK /\ TypeOK /\ [Next]_vars => TypeOK'
<1> SUFFICES ASSUME FilesOK, TypeOK, [Next]_vars PROVE TypeOK'
    OBVIOUS
<1> USE DEF TypeOK
<1>1. CASE LoadSection
  <2>1. memory' \in [Run -> [Addr -> Word]]
    <3> SUFFICES ASSUME NEW run \in Run, NEW a \in Addr,
                        WordsOf(Head(left.elf), Number(a)) # {}
                 PROVE  WordIn(run, WordAt(Head(left.elf), Number(a))) \in Word
        BY <1>1 DEF LoadSection
    <3>1. WordAt(Head(left.elf), Number(a)) \in Addresses(Head(left.elf)) /\ InRegion(Head(left.elf))
        BY <1>1, LoadedWord
    <3>2. WordAt(Head(left.elf), Number(a)) \in Pri1..(End - 1) /\ files # Closed
        BY <1>1, <3>1, InMap DEF LoadSection
    <3> QED
        BY <3>2, WordsOfFiles
  <2> QED
      BY <1>1, <2>1 DEF LoadSection, clocked, history
<1>2. CASE LoadTaints
  <2>1. files # Closed /\ Head(left.taints) = Taint
      BY <1>2 DEF LoadTaints, FilesOK
  <2>2. Taint.word \in Word
      BY <2>1, TaintSectionsInRegion DEF FilesOK
  <2>3. mem_taints' = [a \in Addr |-> TaintRow(Taint, Number(a), mem_taints[a])]
      BY <1>2, <2>1 DEF LoadTaints
  <2>4. \A old \in Word : old \cup (Taint.word \cap {0}) \in Word
      BY <2>2 DEF Word
  <2>5. mem_taints' \in [Addr -> Word]
      BY <2>3, <2>4 DEF TaintRow
  <2> QED
      BY <1>2, <2>5 DEF LoadTaints, clocked, history
<1>3. CASE StartClock
  <2>1. \A a \in Addr : Unmarked(a) \in Word
      BY DEF Unmarked, Differ, Word, Run
  <2> QED
      BY <1>3, <2>1 DEF StartClock, clocked
<1>4. CASE ClockEdge
  <2>1. PICK q \in Requests :
          /\ Access(q)
          /\ full' = Full(q.req, q.we, q.be, q.t)
          /\ was' = Was(q.req, q.t)
          /\ valid' = (reads(q, 1) \/ reads(q, 2))
          /\ lost' = lost \cup Slips(q)
      BY <1>4 DEF ClockEdge
  <2>2. full' \in BOOLEAN /\ was' \in BOOLEAN /\ valid' \in BOOLEAN
      BY <2>1, RequestTypes DEF Full, Was, reads
  <2>3. lost' \subseteq {"run", "bytes", "address", "reset"}
      BY <2>1 DEF Slips
  <2> QED
      BY <2>1, <2>2, <2>3, AccessTypes
<1>5. CASE Reset
  <2>1. PICK q \in Requests :
          /\ Access(q)
          /\ lost' = lost \cup Slips(q)
                    \cup {k \in {"reset"} : full \/ (writes(q, 1) /\ q.addr[1] # q.addr[2])}
      BY <1>5 DEF Reset
  <2>2. full' \in BOOLEAN /\ was' \in BOOLEAN /\ valid' \in BOOLEAN
      BY <1>5 DEF Reset
  <2>3. lost' \subseteq {"run", "bytes", "address", "reset"}
      BY <2>1 DEF Slips
  <2> QED
      BY <2>1, <2>2, <2>3, AccessTypes
<1>6. CASE UNCHANGED vars
    BY <1>6 DEF vars, clocked, history
<1> QED
    BY <1>1, <1>2, <1>3, <1>4, <1>5, <1>6 DEF Next

\* Memory and taint memory are empty before the load.
LEMMA InitTypeOK == Init => TypeOK
<1> SUFFICES ASSUME Init PROVE TypeOK
    OBVIOUS
<1>1. /\ memory \in [Run -> [Addr -> Word]] /\ mem_taints \in [Addr -> Word]
      /\ rdata_o \in [Run -> Word] /\ before \in Word
      /\ unmarked \in [Addr -> Word] /\ passed \in Word
    BY WordTypes DEF Init
<1>2. full \in BOOLEAN /\ was \in BOOLEAN /\ valid \in BOOLEAN /\ lost = {}
    BY DEF Init
<1> QED
    BY <1>1, <1>2 DEF TypeOK

\* Memories, outputs and histories of the bank keep their types, for every
\* width, number of banks and design.
THEOREM TypeCorrect == Spec => []TypeOK
<1>1. Init => FilesOK /\ TypeOK
    BY InitFilesOK, InitTypeOK
<1>2. FilesOK /\ TypeOK /\ [Next]_vars => (FilesOK /\ TypeOK)'
    BY NextFilesOK, NextTypeOK
<1> QED
    BY <1>1, <1>2, PTL DEF Spec

(***************************************************************************)
(* The load                                                                *)
(***************************************************************************)

\* The words of the sections loaded so far are where the interconnect looks.
Written ==
    files # Closed /\ Aligned =>
        \A n \in 1..NumLoaded : \A a \in Addresses(files.elf[n]), addr \in Addr :
            Reaches(a, addr) => \A r \in Run : memory[r][addr] = WordIn(r, a)

\* The taint memory is what the taint section gives to each row, once it is
\* loaded, and empty before.
TaintWritten ==
    files # Closed =>
        \A addr \in Addr :
            mem_taints[addr] = IF left.taints = <<>> THEN TaintRow(Taint, Number(addr), {}) ELSE {}

\* While the bank loads, a row is the same in both runs or has the word of one
\* address of the files.
FromFiles ==
    files # Closed =>
        \A addr \in Addr :
            \/ memory[1][addr] = memory[2][addr]
            \/ \E n \in 1..NumSections : \E i \in WordsOf(files.elf[n], Number(addr)) :
                  \A r \in Run : memory[r][addr] = WordIn(r, files.elf[n].addr + i)

\* The section that is loaded next is one of the file.
LEMMA NextSection ==
    ASSUME FilesOK, LoadSection
    PROVE  /\ files # Closed /\ files' = files
           /\ files.elf \in Seq(Extents) /\ Len(files.elf) = NumSections /\ Disjoint(files.elf)
           /\ NumLoaded \in Nat /\ NumLoaded + 1 \in 1..NumSections /\ NumLoaded' = NumLoaded + 1
           /\ Head(left.elf) = files.elf[NumLoaded + 1]
           /\ \A n \in 1..NumSections : InRegion(files.elf[n])
<1>1. /\ files # Closed /\ files' = files /\ left.elf # <<>>
      /\ left' = [left EXCEPT !.elf = Tail(@)]
    BY DEF LoadSection
<1>2. /\ files.elf \in Seq(Extents) /\ Len(files.elf) = NumSections
      /\ Disjoint(files.elf)
      /\ left = [elf |-> left.elf, taints |-> left.taints]
      /\ left.elf \in Seq(Extents) /\ Len(left.elf) \in Nat /\ Len(left.elf) <= NumSections
      /\ NumSections \in Nat
    BY <1>1, WidthAssumption DEF FilesOK
<1>3. Len(left.elf) > 0 /\ Head(left.elf) = left.elf[1] /\ Len(Tail(left.elf)) = Len(left.elf) - 1
    BY <1>1, <1>2
<1>4. left.elf[1] = files.elf[NumLoaded + 1]
    BY <1>1, <1>2, <1>3 DEF FilesOK
<1>5. NumLoaded \in Nat /\ NumLoaded + 1 \in 1..NumSections
    BY <1>2, <1>3 DEF NumLoaded
<1>6. left'.elf = Tail(left.elf)
    BY <1>1, <1>2
<1>7. NumLoaded' = NumLoaded + 1
    BY <1>2, <1>3, <1>6 DEF NumLoaded
<1>8. \A n \in 1..NumSections : files.elf[n] \in Extents
    BY <1>2
<1> QED
    BY <1>1, <1>2, <1>3, <1>4, <1>5, <1>7, <1>8, ExtentsInRegion

\* A section that is loaded overwrites none of those before, and the words of
\* its own go to the rows that the interconnect reaches for them.
LEMMA NextWritten == FilesOK /\ TypeOK /\ Written /\ [Next]_vars => Written'
<1> SUFFICES ASSUME FilesOK, TypeOK, Written, [Next]_vars PROVE Written'
    OBVIOUS
<1>1. CASE LoadSection
  <2> DEFINE s == Head(left.elf)
  <2>1. /\ files # Closed /\ files' = files
        /\ memory' = [run \in Run |-> [a \in Addr |->
                         IF WordsOf(s, Number(a)) = {} THEN memory[run][a]
                         ELSE WordIn(run, WordAt(s, Number(a)))]]
      BY <1>1 DEF LoadSection
  <2>2. files.bank \in Banks
      BY <2>1 DEF FilesOK
  <2>3. s = files.elf[NumLoaded + 1]
      BY <1>1, NextSection
  <2>4. /\ files.elf \in Seq(Extents) /\ Len(files.elf) = NumSections /\ Disjoint(files.elf)
        /\ NumLoaded \in Nat /\ NumLoaded + 1 \in 1..NumSections /\ NumLoaded' = NumLoaded + 1
        /\ \A n \in 1..NumSections : InRegion(files.elf[n])
      BY <1>1, NextSection
  <2> SUFFICES ASSUME Aligned, NEW n \in 1..(NumLoaded + 1), NEW a \in Addresses(files.elf[n]),
                      NEW addr \in Addr, Reaches(a, addr), NEW r \in Run
               PROVE  memory'[r][addr] = WordIn(r, a)
    <3>1. NumLoaded' = NumLoaded + 1 /\ Aligned' = Aligned
        BY <2>1, <2>4 DEF Aligned
    <3>2. \A a, addr : Reaches(a, addr)' = Reaches(a, addr)
        BY <2>1 DEF Reaches
    <3>3. \A r, a : WordIn(r, a)' = WordIn(r, a)
        BY <2>1 DEF WordIn
    <3>4. files' = files
        BY <2>1
    <3> QED
        BY <3>1, <3>2, <3>3, <3>4 DEF Written
  <2>5. n \in 1..NumSections /\ InRegion(files.elf[n]) /\ InRegion(s)
    <3>1. n \in 1..NumSections
        BY <2>4
    <3> QED
        BY <2>3, <2>4, <3>1
  <2>6. a - files.elf[n].addr \in WordsOf(files.elf[n], Number(addr))
      BY <2>2, <2>5, ReachedIsHeld
  <2>7. files.elf[n].addr + (a - files.elf[n].addr) = a
      BY <2>5 DEF InRegion, Addresses
  <2>8. \A i \in WordsOf(s, Number(addr)) : s.addr + i = a
      BY <2>2, <2>5, <2>6, <2>7, OneAddressForRow
  <2>9. CASE n = NumLoaded + 1
    <3>1. WordsOf(s, Number(addr)) # {}
        BY <2>3, <2>6, <2>9
    <3>2. WordAt(s, Number(addr)) = a
        BY <2>8, <3>1 DEF WordAt
    <3> QED
        BY <2>1, <3>1, <3>2
  <2>10. CASE n # NumLoaded + 1
    <3>1. n \in 1..NumLoaded
        BY <2>4, <2>10
    <3>2. memory[r][addr] = WordIn(r, a)
        BY <2>1, <3>1 DEF Written
    <3>3. a \notin Addresses(s)
      <4>1. n \in DOMAIN files.elf /\ NumLoaded + 1 \in DOMAIN files.elf
          BY <2>4, <2>5
      <4>2. Addresses(files.elf[n]) \cap Addresses(files.elf[NumLoaded + 1]) = {}
          BY <2>4, <2>10, <4>1 DEF Disjoint
      <4> QED
          BY <2>3, <4>2
    <3>4. WordsOf(s, Number(addr)) = {}
      <4> SUFFICES ASSUME NEW i \in WordsOf(s, Number(addr)) PROVE FALSE
          OBVIOUS
      <4>1. s.addr + i = a
          BY <2>8
      <4>2. i \in 0..(s.len - 1) /\ s.addr \in Nat /\ s.len \in Nat
          BY <2>5 DEF WordsOf, InRegion
      <4> QED
          BY <3>3, <4>1, <4>2 DEF Addresses
    <3> QED
        BY <2>1, <3>2, <3>4
  <2> QED
      BY <2>9, <2>10
<1>2. CASE LoadTaints \/ UNCHANGED vars
  <2>1. files' = files /\ memory' = memory
      BY <1>2 DEF LoadTaints, vars, load
  <2>2. files # Closed => left'.elf = left.elf
      BY <1>2 DEF LoadTaints, FilesOK, vars, load
  <2>3. Aligned' = Aligned /\ (files # Closed => NumLoaded' = NumLoaded)
      BY <2>1, <2>2 DEF Aligned, NumLoaded
  <2>4. \A a, addr : Reaches(a, addr)' = Reaches(a, addr)
      BY <2>1 DEF Reaches
  <2>5. \A r, a : WordIn(r, a)' = WordIn(r, a)
      BY <2>1 DEF WordIn
  <2> QED
      BY <2>1, <2>3, <2>4, <2>5 DEF Written
<1>3. CASE StartClock \/ ClockEdge \/ Reset
    BY <1>3 DEF StartClock, ClockEdge, Reset, load, Written
<1> QED
    BY <1>1, <1>2, <1>3 DEF Next

\* The taint section is loaded into an empty taint memory.
LEMMA NextTaintWritten == FilesOK /\ TypeOK /\ TaintWritten /\ [Next]_vars => TaintWritten'
<1> SUFFICES ASSUME FilesOK, TypeOK, TaintWritten, [Next]_vars PROVE TaintWritten'
    OBVIOUS
<1>0. ASSUME files' = files
      PROVE  \A a \in Addr : TaintRow(Taint, Number(a), {})' = TaintRow(Taint, Number(a), {})
    BY <1>0 DEF TaintRow, WordsOf, Holds, Row, Instance, Taint
<1>1. CASE LoadTaints
  <2>1. /\ files # Closed /\ files' = files /\ left.taints # <<>>
        /\ mem_taints' = [a \in Addr |-> TaintRow(Head(left.taints), Number(a), mem_taints[a])]
        /\ left' = [left EXCEPT !.taints = Tail(@)]
      BY <1>1 DEF LoadTaints
  <2>2. left.taints = <<Taint>> /\ left = [elf |-> left.elf, taints |-> left.taints]
      BY <2>1 DEF FilesOK
  <2>3. Head(left.taints) = Taint /\ left'.taints = <<>>
      BY <2>1, <2>2
  <2>4. \A a \in Addr : mem_taints[a] = {}
      BY <2>1 DEF TaintWritten
  <2>5. \A a \in Addr : mem_taints'[a] = TaintRow(Taint, Number(a), {})
      BY <2>1, <2>3, <2>4
  <2> QED
      BY <1>0, <2>1, <2>3, <2>5 DEF TaintWritten
<1>2. CASE LoadSection
  <2>1. /\ files # Closed /\ files' = files /\ mem_taints' = mem_taints
        /\ left' = [left EXCEPT !.elf = Tail(@)]
      BY <1>2 DEF LoadSection
  <2>2. left'.taints = left.taints
      BY <2>1 DEF FilesOK
  <2> QED
      BY <1>0, <2>1, <2>2 DEF TaintWritten
<1>3. CASE StartClock \/ ClockEdge \/ Reset
    BY <1>3 DEF StartClock, ClockEdge, Reset, load, TaintWritten
<1>4. CASE UNCHANGED vars
    BY <1>0, <1>4 DEF vars, load, TaintWritten
<1> QED
    BY <1>1, <1>2, <1>3, <1>4 DEF Next

\* A row is written from the section that is loaded, or stays as it is.
LEMMA NextFromFiles == FilesOK /\ TypeOK /\ FromFiles /\ [Next]_vars => FromFiles'
<1> SUFFICES ASSUME FilesOK, TypeOK, FromFiles, [Next]_vars PROVE FromFiles'
    OBVIOUS
<1>1. CASE LoadSection
  <2> DEFINE s == Head(left.elf)
  <2>1. /\ files # Closed /\ files' = files
        /\ memory' = [run \in Run |-> [a \in Addr |->
                         IF WordsOf(s, Number(a)) = {} THEN memory[run][a]
                         ELSE WordIn(run, WordAt(s, Number(a)))]]
      BY <1>1 DEF LoadSection
  <2>2. s = files.elf[NumLoaded + 1] /\ NumLoaded + 1 \in 1..NumSections
      BY <1>1, NextSection
  <2> SUFFICES ASSUME NEW addr \in Addr, memory'[1][addr] # memory'[2][addr]
               PROVE  \E n \in 1..NumSections : \E i \in WordsOf(files.elf[n], Number(addr)) :
                         \A r \in Run : memory'[r][addr] = WordIn(r, files.elf[n].addr + i)
    <3>1. \A u, r : WordsOf(u, r)' = WordsOf(u, r)
        BY <2>1 DEF WordsOf, Holds, Row, Instance
    <3>2. \A r, a : WordIn(r, a)' = WordIn(r, a)
        BY <2>1 DEF WordIn
    <3> QED
        BY <2>1, <3>1, <3>2 DEF FromFiles
  <2>4. CASE WordsOf(s, Number(addr)) = {}
    <3>1. \A r \in Run : memory'[r][addr] = memory[r][addr]
        BY <2>1, <2>4
    <3> QED
        BY <2>1, <3>1 DEF FromFiles, Run
  <2>5. CASE WordsOf(s, Number(addr)) # {}
    <3>1. PICK i \in WordsOf(s, Number(addr)) : WordAt(s, Number(addr)) = s.addr + i
        BY <2>5 DEF WordAt
    <3>2. \A r \in Run : memory'[r][addr] = WordIn(r, s.addr + i)
        BY <2>1, <2>5, <3>1
    <3> QED
        BY <2>2, <3>1, <3>2
  <2> QED
      BY <2>4, <2>5
<1>2. CASE LoadTaints \/ UNCHANGED vars
  <2>1. files' = files /\ memory' = memory
      BY <1>2 DEF LoadTaints, vars, load
  <2>2. \A u, r : WordsOf(u, r)' = WordsOf(u, r)
      BY <2>1 DEF WordsOf, Holds, Row, Instance
  <2>3. \A r, a : WordIn(r, a)' = WordIn(r, a)
      BY <2>1 DEF WordIn
  <2> QED
      BY <2>1, <2>2, <2>3 DEF FromFiles
<1>3. CASE StartClock \/ ClockEdge \/ Reset
    BY <1>3 DEF StartClock, ClockEdge, Reset, load, FromFiles
<1> QED
    BY <1>1, <1>2, <1>3 DEF Next

LoadInv == FilesOK /\ TypeOK /\ Written /\ TaintWritten /\ FromFiles

\* The invariant of the load.
LEMMA LoadInvariance == Spec => []LoadInv
<1>1. Init => LoadInv
  <2> SUFFICES ASSUME Init PROVE LoadInv
      OBVIOUS
  <2>1. FilesOK /\ TypeOK
      BY InitFilesOK, InitTypeOK
  <2>2. Written
    <3> SUFFICES ASSUME files # Closed PROVE 1..NumLoaded = {}
        BY DEF Written
    <3>1. left.elf = files.elf
        BY DEF Init
    <3>2. NumLoaded = 0
        BY <2>1, <3>1, WidthAssumption DEF FilesOK, NumLoaded
    <3> QED
        BY <3>2
  <2>3. TaintWritten
    <3> SUFFICES ASSUME files # Closed PROVE left.taints # <<>>
        BY DEF TaintWritten, Init
    <3>1. PICK d, b, taint, elf, mask :
              files = [design |-> d, bank |-> b, elf |-> elf, taints |-> <<taint>>, mask |-> mask]
        BY DEF Init
    <3>2. left.taints = <<taint>>
        BY <3>1 DEF Init
    <3> QED
        BY <3>2
  <2>4. FromFiles
    <3>1. \A addr \in Addr : memory[1][addr] = {} /\ memory[2][addr] = {}
        BY DEF Init, Run
    <3> QED
        BY <3>1 DEF FromFiles
  <2> QED
      BY <2>1, <2>2, <2>3, <2>4 DEF LoadInv
<1>2. LoadInv /\ [Next]_vars => LoadInv'
    BY NextFilesOK, NextTypeOK, NextWritten, NextTaintWritten, NextFromFiles DEF LoadInv
<1> QED
    BY <1>1, <1>2, PTL DEF Spec

\* Where the words of an address go, its taint goes too, as far as the loader
\* takes it.
LEMMA BitZeroMarked ==
    ASSUME LoadInv, Loaded, Aligned, NEW addr \in Addr
    PROVE  0 \notin Unmarked(addr)
<1>1. files # Closed /\ left.taints = <<>>
    BY DEF Loaded
<1>2. /\ files.bank \in Banks /\ Taint \in TaintSections /\ files.elf \in Seq(Extents)
      /\ Len(files.elf) = NumSections
    BY <1>1 DEF LoadInv, FilesOK
<1>3. CASE memory[1][addr] = memory[2][addr]
    BY <1>3 DEF Unmarked, Differ
<1>4. ASSUME NEW n \in 1..NumSections, NEW i \in WordsOf(files.elf[n], Number(addr)),
             \A r \in Run : memory[r][addr] = WordIn(r, files.elf[n].addr + i),
             0 \in Differ(memory[1][addr], memory[2][addr])
      PROVE  0 \in mem_taints[addr]
  <2> DEFINE s == files.elf[n]
  <2>1. InRegion(s) /\ InRegion(Taint)
      BY <1>2, ExtentsInRegion, TaintSectionsInRegion
  <2>2. s.addr + i \in Addresses(s)
    <3>1. i \in 0..(s.len - 1) /\ s.addr \in Nat /\ s.len \in Nat
        BY <2>1 DEF WordsOf, InRegion
    <3> QED
        BY <3>1 DEF Addresses
  <2>3. s.addr + i \in Pri1..(End - 1)
      BY <2>1, <2>2, InMap
  <2>4. 0 \in TaintOf(Taint, s.addr + i)
    <3>1. memory[1][addr] = WordIn(1, s.addr + i) /\ memory[2][addr] = WordIn(2, s.addr + i)
        BY <1>4 DEF Run
    <3>2. Differ(WordIn(1, s.addr + i), WordIn(2, s.addr + i)) \subseteq TaintOf(Taint, s.addr + i)
        BY <1>1, <2>3, WordsOfFiles DEF LoadInv
    <3> QED
        BY <1>4, <3>1, <3>2
  <2>5. s.addr + i \in Addresses(Taint) /\ 0 \in Taint.word
      BY <2>4 DEF TaintOf
  <2> HIDE DEF s
  <2>6. s.addr + i - Taint.addr \in WordsOf(Taint, Number(addr))
    <3>1. i \in WordsOf(s, Number(addr))
        BY <1>4 DEF s
    <3> QED
        BY <1>2, <2>1, <2>5, <3>1, HeldInBothFiles
  <2> QED
      BY <1>1, <2>5, <2>6 DEF LoadInv, TaintWritten, TaintRow
<1> QED
    BY <1>1, <1>3, <1>4 DEF LoadInv, FromFiles, Unmarked

\* In the prepared design every bank finds its part of any ELF file, wherever
\* its sections lie and however many banks interleave, with bit 0 of its taint;
\* in the instrumented design the first and the private bank do.
THEOREM BanksAlwaysLoadedAsGiven == Spec => []LoadedAsGiven
<1>1. LoadInv => LoadedAsGiven
  <2> SUFFICES ASSUME LoadInv, Loaded, Aligned PROVE LoadedAsGiven
      BY DEF LoadedAsGiven
  <2>1. files # Closed /\ left.elf = <<>> /\ left.taints = <<>>
      BY DEF Loaded
  <2>2. /\ files.bank \in Banks /\ Taint \in TaintSections
        /\ DOMAIN files.elf = 1..NumLoaded
      BY <2>1, WidthAssumption DEF LoadInv, FilesOK, NumLoaded
  <2>3. ProgramLoaded
      BY <2>1, <2>2 DEF LoadInv, Written, ProgramLoaded
  <2>4. ASSUME NEW a \in Pri1..(End - 1), NEW addr \in Addr, Reaches(a, addr)
        PROVE  mem_taints[addr] = TaintOf(Taint, a) \cap {0}
    <3>1. InRegion(Taint)
        BY <2>2, TaintSectionsInRegion
    <3>2. mem_taints[addr] = IF WordsOf(Taint, Number(addr)) = {} THEN {} ELSE Taint.word \cap {0}
        BY <2>1 DEF LoadInv, TaintWritten, TaintRow
    <3>3. CASE a \in Addresses(Taint)
      <4>1. a - Taint.addr \in WordsOf(Taint, Number(addr))
          BY <2>2, <2>4, <3>1, <3>3, ReachedIsHeld
      <4> QED
          BY <3>2, <3>3, <4>1 DEF TaintOf
    <3>4. CASE a \notin Addresses(Taint)
      <4> DEFINE alone == [addr |-> a, len |-> 1]
      <4>1. a \in Nat /\ a >= Pri1 /\ a + 1 <= End /\ (a < Tcdm => a + 1 <= Tcdm)
          BY MapNumbers
      <4>2. InRegion(alone) /\ a \in Addresses(alone) /\ alone.addr = a
          BY <4>1, MapNumbers DEF InRegion, Addresses
      <4>3. a - alone.addr \in WordsOf(alone, Number(addr)) /\ a + (a - a) = a
          BY <2>2, <2>4, <4>1, <4>2, ReachedIsHeld
      <4> HIDE DEF alone
      <4>4. \A i \in WordsOf(Taint, Number(addr)) : Taint.addr + i = a
          BY <2>2, <3>1, <4>2, <4>3, OneAddressForRow
      <4>5. WordsOf(Taint, Number(addr)) \subseteq 0..(Taint.len - 1)
          BY DEF WordsOf
      <4>6. WordsOf(Taint, Number(addr)) = {}
          BY <3>1, <3>4, <4>4, <4>5 DEF Addresses, InRegion
      <4> QED
          BY <3>2, <3>4, <4>6 DEF TaintOf
    <3> QED
        BY <3>3, <3>4
  <2>5. \A addr \in Addr : 0 \notin Unmarked(addr)
      BY BitZeroMarked
  <2> QED
      BY <2>3, <2>4, <2>5 DEF LoadedAsGiven, Taint
<1> QED
    BY <1>1, LoadInvariance, PTL

(***************************************************************************)
(* Taint                                                                   *)
(***************************************************************************)

\* A write of the same bytes in both runs leaves differences only where there
\* were some without taint, or where the taint is written too.
LEMMA WriteKeepsTaint ==
    ASSUME NEW x, NEW y, NEW taint, NEW rest, NEW v, NEW w, NEW vtaint, NEW be,
           Differ(x, y) \subseteq taint \cup rest, Differ(v, w) \subseteq vtaint
    PROVE  Differ(Write(x, v, be), Write(y, w, be))
               \subseteq Write(taint, vtaint, be) \cup Write(rest, {}, be)
BY DEF Differ, Write

\* Writes to the same row in both runs are followed.
LEMMA AccessFollowed ==
    ASSUME TypeOK, files = Closed, ~full, Followed,
           NEW q \in Requests, Access(q),
           writes(q, 1) = writes(q, 2),
           writes(q, 1) => q.be[1] = q.be[2] /\ q.addr[1] = q.addr[2],
           NEW a \in Addr
    PROVE  Differ(memory'[1][a], memory'[2][a]) \subseteq mem_taints'[a] \cup unmarked'[a]
<1>1. /\ q.addr \in [Run -> Addr] /\ q.wdata \in [Run -> Word]
      /\ Differ(q.wdata[1], q.wdata[2]) \subseteq q.t.wdata
      /\ Run = {1, 2}
    BY RequestTypes DEF Run
<1>2. Differ(memory[1][a], memory[2][a]) \subseteq mem_taints[a] \cup unmarked[a]
    BY DEF Followed
<1>3. CASE ~writes(q, 1)
  <2>1. memory'[1] = memory[1] /\ memory'[2] = memory[2] /\ mem_taints' = mem_taints /\ unmarked' = unmarked
      BY <1>1, <1>3 DEF Access
  <2> QED
      BY <1>2, <2>1
<1>4. CASE writes(q, 1)
  <2> DEFINE addr == q.addr[1]
             be == q.be[1]
  <2>1. /\ memory'[1] = [memory[1] EXCEPT ![addr] = Write(@, q.wdata[1], be)]
        /\ memory'[2] = [memory[2] EXCEPT ![addr] = Write(@, q.wdata[2], be)]
        /\ mem_taints' = [mem_taints EXCEPT ![addr] = Write(@, q.t.wdata, be)]
        /\ unmarked' = [unmarked EXCEPT ![addr] = Write(@, {}, be)]
      BY <1>1, <1>4 DEF Access
  <2>2. /\ memory[1] \in [Addr -> Word] /\ memory[2] \in [Addr -> Word]
        /\ mem_taints \in [Addr -> Word] /\ unmarked \in [Addr -> Word] /\ addr \in Addr
      BY <1>1 DEF TypeOK
  <2> HIDE DEF addr, be
  <2>3. CASE a = addr
    <3>1. /\ memory'[1][a] = Write(memory[1][a], q.wdata[1], be)
          /\ memory'[2][a] = Write(memory[2][a], q.wdata[2], be)
          /\ mem_taints'[a] = Write(mem_taints[a], q.t.wdata, be)
          /\ unmarked'[a] = Write(unmarked[a], {}, be)
        BY <2>1, <2>2, <2>3
    <3> QED
        BY <1>1, <1>2, <3>1, WriteKeepsTaint
  <2>4. CASE a # addr
    <3>1. /\ memory'[1][a] = memory[1][a] /\ memory'[2][a] = memory[2][a]
          /\ mem_taints'[a] = mem_taints[a] /\ unmarked'[a] = unmarked[a]
        BY <2>1, <2>2, <2>4
    <3> QED
        BY <1>2, <3>1
  <2> QED
      BY <2>3, <2>4
<1> QED
    BY <1>3, <1>4

\* What none of the ways to lose taint is.
LEMMA NoSlips ==
    ASSUME NEW q, Slips(q) = {}
    PROVE  /\ writes(q, 1) = writes(q, 2)
           /\ writes(q, 1) => q.be[1] = q.be[2]
           /\ writes(q, 1) /\ ~Seen(q.be, q.t) => q.addr[1] = q.addr[2]
<1>1. writes(q, 1) \in BOOLEAN /\ writes(q, 2) \in BOOLEAN
    BY DEF writes
<1>2. writes(q, 1) = writes(q, 2)
    BY DEF Slips
<1>3. writes(q, 1) => q.be[1] = q.be[2]
    BY <1>2 DEF Slips
<1>4. writes(q, 1) /\ ~Seen(q.be, q.t) => q.addr[1] = q.addr[2]
    BY <1>2 DEF Slips
<1> QED
    BY <1>2, <1>3, <1>4

\* A clock edge keeps the memory sound, out of reset and in it.
LEMMA ClockMemory ==
    ASSUME TypeOK, MemoryTaintSound, ClockEdge \/ Reset
    PROVE  MemoryTaintSound'
<1> SUFFICES ASSUME lost' = {}, ~full', NEW a \in Addr
             PROVE  Differ(memory'[1][a], memory'[2][a]) \subseteq mem_taints'[a] \cup unmarked'[a]
    BY DEF MemoryTaintSound, Followed
<1>1. ASSUME NEW q \in Requests, Access(q), files = Closed, lost = {}, ~full, Slips(q) = {},
             writes(q, 1) => q.addr[1] = q.addr[2]
      PROVE  Differ(memory'[1][a], memory'[2][a]) \subseteq mem_taints'[a] \cup unmarked'[a]
    BY <1>1, NoSlips, AccessFollowed DEF MemoryTaintSound
<1>2. CASE ClockEdge
  <2>1. PICK q \in Requests :
          /\ Access(q)
          /\ full' = Full(q.req, q.we, q.be, q.t)
          /\ lost' = lost \cup Slips(q)
      BY <1>2 DEF ClockEdge
  <2>2. files = Closed /\ lost = {} /\ Slips(q) = {} /\ ~full
      BY <1>2, <2>1 DEF ClockEdge, Full
  <2>3. writes(q, 1) => ~Seen(q.be, q.t)
      BY <2>1 DEF Full, writes
  <2> QED
      BY <1>1, <2>1, <2>2, <2>3, NoSlips
<1>3. CASE Reset
  <2>1. PICK q \in Requests :
          /\ Access(q)
          /\ lost' = lost \cup Slips(q)
                    \cup {k \in {"reset"} : full \/ (writes(q, 1) /\ q.addr[1] # q.addr[2])}
      BY <1>3 DEF Reset
  <2>2. files = Closed /\ lost = {} /\ Slips(q) = {}
      BY <1>3, <2>1 DEF Reset
  <2>3. ~full /\ (writes(q, 1) => q.addr[1] = q.addr[2])
      BY <2>1
  <2> QED
      BY <1>1, <2>1, <2>2, <2>3
<1> QED
    BY <1>2, <1>3

\* A clock edge that reads gives out all the taint of what it read.
LEMMA ClockRead ==
    ASSUME TypeOK, TypeOK', MemoryTaintSound, ClockEdge
    PROVE  ReadTaintSound'
<1> SUFFICES ASSUME valid', lost' = {}
             PROVE  Differ(rdata_o'[1], rdata_o'[2]) \subseteq rdata_o_t0' \cup passed'
    BY DEF ReadTaintSound
<1>1. PICK q \in Requests :
          /\ Access(q)
          /\ full' = Full(q.req, q.we, q.be, q.t)
          /\ was' = Was(q.req, q.t)
          /\ valid' = (reads(q, 1) \/ reads(q, 2))
          /\ lost' = lost \cup Slips(q)
    BY DEF ClockEdge
<1>2. /\ q.req \in [Run -> BOOLEAN] /\ q.we \in [Run -> BOOLEAN] /\ q.addr \in [Run -> Addr]
      /\ q.req[1] # q.req[2] => q.t.req
      /\ q.we[1] # q.we[2] => q.t.we
      /\ Differ(q.addr[1], q.addr[2]) \subseteq q.t.addr
      /\ Run = {1, 2}
    BY RequestTypes DEF Run
<1>3. Differ(rdata_o'[1], rdata_o'[2]) \subseteq Bits
    BY <1>2 DEF TypeOK, Word, Differ
<1>4. CASE was' \/ full'
    BY <1>3, <1>4 DEF rdata_o_t0
<1>5. CASE ~was' /\ ~full'
  <2>1. q.t.addr = {} /\ ~q.t.req /\ ~(q.req[1] /\ q.t.we) /\ ~full
      BY <1>1, <1>5 DEF Was, Full
  <2>2. q.addr[1] = q.addr[2]
      BY <1>2, <2>1 DEF Differ, Addr
  <2>3. reads(q, 1) /\ reads(q, 2)
      BY <1>1, <1>2, <2>1 DEF reads
  <2>4. /\ rdata_o'[1] = memory[1][q.addr[1]] /\ rdata_o'[2] = memory[2][q.addr[1]]
        /\ before' = mem_taints[q.addr[1]] /\ passed' = unmarked[q.addr[1]]
      BY <1>1, <1>2, <2>2, <2>3 DEF Access
  <2>5. Followed /\ files = Closed
      BY <1>1 DEF MemoryTaintSound, ClockEdge
  <2>6. Differ(memory[1][q.addr[1]], memory[2][q.addr[1]])
            \subseteq mem_taints[q.addr[1]] \cup unmarked[q.addr[1]]
      BY <1>2, <2>1, <2>5 DEF Followed
  <2> QED
      BY <2>4, <2>6 DEF rdata_o_t0
<1> QED
    BY <1>4, <1>5

TaintInv == MemoryTaintSound /\ ReadTaintSound /\ (files # Closed => ~valid)

\* The invariant of load and clock together.
LEMMA TaintInvariance == Spec => []TaintInv
<1>1. Init => TaintInv
    BY DEF Init, TaintInv, MemoryTaintSound, Followed, ReadTaintSound, Closed
<1>2. ASSUME TypeOK, TypeOK', TaintInv, [Next]_vars PROVE TaintInv'
  <2>1. CASE LoadSection \/ LoadTaints
      BY <1>2, <2>1
      DEF LoadSection, LoadTaints, TaintInv, MemoryTaintSound, Followed, ReadTaintSound, clocked
  <2>2. CASE StartClock
    <3>1. ~valid' /\ memory' = memory /\ mem_taints' = mem_taints /\ files' = Closed
          /\ unmarked' = [a \in Addr |-> Unmarked(a)]
        BY <1>2, <2>2 DEF StartClock, clocked, TaintInv, Loaded
    <3>2. Followed'
        BY <3>1 DEF Followed, Unmarked
    <3> QED
        BY <3>1, <3>2 DEF TaintInv, MemoryTaintSound, ReadTaintSound
  <2>3. CASE ClockEdge
    <3>1. files' = Closed
        BY <2>3 DEF ClockEdge, load
    <3> QED
        BY <1>2, <2>3, <3>1, ClockMemory, ClockRead DEF TaintInv
  <2>4. CASE Reset
    <3>1. ~valid'
        BY <2>4 DEF Reset
    <3> QED
        BY <1>2, <2>4, <3>1, ClockMemory DEF TaintInv, ReadTaintSound
  <2>5. CASE UNCHANGED vars
      BY <1>2, <2>5
      DEF vars, load, clocked, history, TaintInv, MemoryTaintSound, Followed, ReadTaintSound, rdata_o_t0
  <2> QED
      BY <1>2, <2>1, <2>2, <2>3, <2>4, <2>5 DEF Next
<1> QED
    BY <1>1, <1>2, TypeCorrect, PTL DEF Spec

\* The taint memory covers every difference of the memories of two runs that
\* the load has marked, through any sequence of reads, writes and resets of
\* any number of banks and widths, up to the first event of lost.
THEOREM MemoryTaintAlwaysSound == Spec => []MemoryTaintSound
<1>1. TaintInv => MemoryTaintSound
    BY DEF TaintInv
<1> QED
    BY <1>1, TaintInvariance, PTL

\* No difference that the memory marks leaves the bank without taint.
THEOREM ReadTaintAlwaysSound == Spec => []ReadTaintSound
<1>1. TaintInv => ReadTaintSound
    BY DEF TaintInv
<1> QED
    BY <1>1, TaintInvariance, PTL
=============================================================================
