# A TLA+ verification project for PULPissimo and its ipstools

The repository is a system on chip (SystemVerilog under `ips/` and `rtl/`) together
with the Python tool `ipstools`, which collects the IPs of the chip from their Git
servers and writes the compilation scripts for them, and the `cellift` harness
that instruments the chip with taint tracking and simulates it. This directory
models the parts whose correctness depends on state, order and concurrency: the IP
flow of `ipstools`, the control of the hardware processing engine from the bus
down to its loop processor, and the flow of `cellift` from the pickled design to
the memories that carry taint.

## 1. Inventory

| component | state | operations | interacts with | hard behaviour | what makes it correct |
|---|---|---|---|---|---|
| dependency tree (`IPDatabase.py`, `IPTreeNode.py`, `IPApproX_common.py`) | tree of `IPTreeNode`, conflict dictionary, `ip_list` | fetch `ips_list.yml` of each reference, flatten, find conflicts, ask the user | Git servers (curl, `git archive`), the user | lists change between fetches, fetches fail silently, cyclic references, CTRL+C at the prompt | the list is closed under dependencies, one version each, bottom-up; the user is asked about real conflicts |
| download and scripts (`update_ips`, `save_database`, `update-ips`, `generate-scripts`) | working copies under `ips/`, `.cached_ipdb.json`, generated `.mk` files | fetch, checkout, pull, clone; save; load, import, export | Git, the user's edits, the next run | killed runs, pushes in the middle, lists that change between runs | success means current; scripts refer to existing scripts; no work is lost; every run ends |
| script exporters (`IPConfig.py`, `SubIPConfig.py`, exporters of `IPDatabase.py`) | dictionaries of IPs and sub-IPs | one exporter and one list generator for each backend | make, vsim, Synopsys, Cadence, Vivado | filters copied by hand between producer and consumer of a name | what is referred to is defined; flags mean the same everywhere |
| hwpe-ctrl (`hwpe_ctrl_slave.sv`, `hwpe_ctrl_regfile.sv`) | context pointers, pending counter, lock, job identifiers, status, finished counter | test&set, job registers, trigger, soft clear, status reads; done of the engine | several cores on one bus, the engine | every register updates at the same clock edge; requests and done coincide; wrap-around | a lock, a bounded FIFO of jobs, one event for each job to its core |
| microcode processor (`hwpe_ctrl_ucode.sv`, `ucode_common.py`) | loop indices, program counter, registers, sticky flags | one operation per enabled cycle over nested loops; compile, pack | mac engine; the compiler produces its bits and the Python model predicts it | enable withdrawn and repeated, unsigned ranges, two implementations drifting apart | RTL and model agree, each valid shows the next iteration, done marks the last |
| mac engine (`mac_fsm.sv`, `mac_ctrl.sv`) | state of the job | start, compute, update the indices, terminate; soft clear | slave, microcode, streamers | streamers still busy at an update, jobs of zero iterations | each job computes with its own offsets, does all its iterations and ends |
| maintenance commands (`remove_ips`, `diff_ips`, `tag_ips`, `push_tag_ips`, `delete_tag_ips`, `get_latest_ips`) | working copies, tags, remote tags, `new_ips_list.yml` | compare, remove, tag, push, list | Git, the user in the same directories, the next command | one IP of several fails, the user works meanwhile | nothing changed is removed; a stored list means the working copies; the listed commits are what is pushed |
| cellift build (`cellift/Makefile`, `python_scripts`) | intermediate and final files, their dates | prepare, convert, instrument, compact, build, run, recompile | make, sv2v, Yosys, FuseSoC, edits of scripts | parallel recipes on shared files, failed and interrupted recipes, stale executables | what succeeds is well formed, current, and is what runs |
| IFT memories (`ift_sram.sv`) | memory, taint memory, two flags for each bank | preload ELF and taints; read, write, reset | interconnect, taint of all inputs | interleaving decided twice, tainted addresses and enables | sections are found at their addresses; untainted bits do not depend on tainted ones |
| scenarios (`scenarios.py`) | flags of an experiment | read a trace, scan signals, print | simulator traces | names that match too much | a message says what the trace shows; not modelled, see section 6 |
| clock-domain crossing, event queue, interconnect (`axi_slice_dc`, `apb_interrupt_cntrl`, `L2_tcdm_hybrid_interco`) | FIFOs, pending bits, arbiters | push/pop, set/acknowledge, grant | two clocks, cores | pointers seen late, event against acknowledge | no loss, no duplication, no starvation |
| riscv, zero-riscy, udma, fpu, debug, timers | pipelines, channels, data paths | | | stated against an instruction set or a data sheet | |

`PROJECT.json` lists the same components with their status, and the hazards at the
line where each bites.

## 2. Modules

| module | models | kind |
|---|---|---|
| `IpsTree` | the constructor of `IPDatabase` in the hierarchical flow | component |
| `IpsUpdate` | `update_ips`, the cache, `generate-scripts` | component |
| `IpsScripts` | filters of all exporters and list generators | component |
| `IpsMaintain` | the maintenance commands of `IPDatabase` | component |
| `HwpeJobQueue` | what the control slave promises to the cores | abstract specification |
| `HwpeCtrlSlave` | control slave and register file, one step per clock edge | component, implements `HwpeJobQueue` |
| `HwpeUcode` | microcode compiler, processor and its Python model, without a clock of their own | operators and actions |
| `MacCtrl` | controller of the MAC engine | composition: extends `HwpeUcode` |
| `CelliftText` | the scripts as functions on Verilog files | operators |
| `CelliftMake` | rules of the Makefile and calls of make | composition: extends `CelliftText` |
| `IftSram` | a bank that loads its part of the files and follows taint, in two runs | component |
| `MCIpsTree`, `MCIpsUpdate`, `MCIpsScripts`, `MCIpsMaintain`, `MCMacCtrl`, `MCCelliftMake`, `MCIftSram` | small instances | model checking |
| `IpsTree_proofs`, `IpsUpdate_proofs`, `IpsScripts_proofs`, `IpsMaintain_proofs`, `HwpeCtrlSlave_proofs`, `MacCtrl_proofs`, `IftSram_proofs` | theorems about the module of the same name | proofs |
| `Cellift_proofs` | theorems about `CelliftMake` with the scripts of `CelliftText` | proofs |

Operators whose comment begins with "Mutant:" are deliberately wrong variants of
the operator that follows them. Nothing uses them; substituted for that operator,
each makes the property that `PROJECT.json` pairs it with fail.

### IpsTree

`stack` is Python's stack of `IPTreeNode` constructors; the bottom frame is the
loop of `generate_deps_tree`. A node is appended to `flat` when its constructor
returns, which is the post-order that `flattenize_children` computes later over the
finished tree. Every fetch chooses among the lists the server may hold (`Served`),
so the same version may be seen with two lists, and may fail: on github.com with
nothing or a 404 page (`FetchEmpty`, the silent `AttributeError` handler) or with
another page (`FetchErrorPage`), on other servers through `git archive`
(`FetchArchiveFails`). `KeyPositions` and `Alternatives` are the ordered
conflict dictionary of `get_conflicts`; `SelectOnly`, `ReportConflict`,
`ValidAnswer`, `InvalidAnswer` and `KeyboardInterrupt` are the paths of
`resolve_deps_conflicts`. Server and group are one value, `None` where the file
leaves them to the defaults. `BottomUp` is stated for lists that were resolved without a
question: a version that the user chooses may stand anywhere. `AskedOnConflict` is
about commits, as `get_conflicts` is: the same branch name in two repositories raises no
question, against the docstring at `IPDatabase.py:76`. `RecursionLimit` is Python's (1000
frames in CPython, 4 here). Nothing else ends the descent into IPs that list each other, so
that the tree is finished at all is not claimed of the code.

### IpsUpdate

One action per Git command and per file written, so that a push (`ServerPush`), a
kill (`Crash`) and the next run fall between any two. Git is external: a branch is
the number of the remote's commits it contains, plus flags for commits of the
user's (`ahead`) and uncommitted changes (`dirty`). `fetch`, `clone`, `checkout`
and `pull --ff-only` are what update_ips relies on: checkout may refuse when there
are local changes, pull refuses a diverged branch, both may fail for other reasons
where the code handles it. Every working copy has the repository it was cloned from
(`origin`); server and group of an entry are one value, `remote`, which the code uses for a
clone only (`IPDatabase.py:494-499`). So a list that moves an IP to a fork leaves the
existing directory on the old origin, and the update is reported as a success:
`NoErrorMeansCurrent` says "current with its origin", and that the origin is the one the
list names for directories cloned by this run. `Removed` is the identity, since `execute` passes
`sim/vcompile/ips/*` to rm without a shell; stale `.mk` files are never removed.
`save_database` is two steps, truncation and write. `generate-scripts` does the same
work again for the `rtl` directory with the same functions; that copy is not
modelled. The Git `index.lock` that a killed command can leave is not modelled.

### IpsScripts

A script is the set of blocks or IPs it mentions. `MakeDep`/`MakeRule`,
`TclWritten`/`TclListed`, `VivadoExported`/`VivadoListed` and
`VivadoSet`/`VivadoAdd`/`VivadoInc` are the pairs of filters of the functions that
write and that refer to something. `ImportYaml` is the constructor of the database,
which exits when a block has an unknown key, target or flag. A block whose `files`
key is null is not modelled.

### HwpeCtrlSlave and HwpeJobQueue

Each `always_ff` process is an operator of the same name that gives the next value
of its registers; `Clock` conjoins them. In a cycle the bus carries at most one
request (`TestSet`, `WriteParams`, `Trigger`, `SoftClear`, `ReadFinished`, or none)
and the engine may raise `done`. A cycle without a request may have the address of the
finished-jobs counter on the lines (`parked`), which clears it: `hwpe_ctrl_regfile.sv:373`
asks for no request. The rest of the world is assumed to behave as the
protocol says: a core writes job registers and triggers only between the answer of
its test&set and its trigger; soft clear is used while no core offloads, and the bus
carries no request until it is over; the engine raises done only while it computes, or while the slave
is not working (the comment at `hwpe_ctrl_slave.sv:158`). `HwpeJobQueue` is a lock
and a FIFO of jobs, each with its core and the parameters that this core wrote
(`written` is the history of them); the refinement mapping reads the queue off the
contexts from `running_context` on. Not modelled: the variant with a single context, the event
bits of `ctrl_i.evt`, the mandatory registers 5 and 6, reads of the job registers,
the enable delay after reset.

### IpsMaintain

A command is a loop over the list, one step for each IP, with the user free to edit,
stage, commit, go back, push, delete or download between any two steps. Commits of an
IP are numbered; a tag names a commit or 0; `git describe` finds the newest tag that
HEAD reaches. Both versions of Python are modelled: under Python 3 the output of Git
is bytes, so `split("\n")` raises (`SplitRaises`) and the name that `push_tag_ips`
looks up is no tag. `touched`, `warned` and `agreed` are history: the IPs the user
worked in since the command began, those with a reported failure of `git tag`, and
those for which the stored list is still the last word. `PushesListedCommit` covers
`tag_always`, which may put a second tag on a HEAD: the list names one of the two and
`git describe` may find the other, so the commit is the listed one and the tag need not be.

### HwpeUcode and MacCtrl

`ucode_load`, `ucode_get_loops` and `Pack` are the compiler; `ucode_t` and `Decoded` take
the fields out of the packed bits again with the widths of `hwpe_ctrl_package.sv`, so
the processor runs what the hardware would see. The five branches of
`ucode_fetch_comb` are five actions; `sticky` is the process of the flags. The Python
model is stepped with every enabled cycle and reads the program before it is packed. It is
translated as it stands: integers without a width, the constant `NB_LOOPS` 6, and the
`IndexError` it raises when a microprogram of fewer loops comes to its end. `GoldenAgrees`
compares registers modulo their width and the results `execute`, `end` and `busy`, where the
Python model is busy and the processor is not in the cycle that goes to the next loop
(`ucode_common.py:83`). It is stated for microprograms of at most six loops that end
(`Comparable`): a range of 0 is endless in unsigned arithmetic and over at once in Python.
Nested loops are defined independently (`Index`, `Offsets`) as the reference for
`ComputesIteration`.

`MacCtrl` drives the processor with the state machine of `mac_fsm.sv`. A job of the MAC
engine uses the bits wired into `mac_ctrl.sv` with the range `NB_ITER + 1`, cut to the width
of a range; jobs with microprograms of two and more loops stand for the engines the
processor is configured for otherwise. `JobsAssumption` says what a program must be for
the processor to run it (`Fits`): the decoded fields are those that the compiler was
given, they fit the widths and every loop has instructions. TLC evaluates it on all the
jobs of the run. Every `NB_ITER` of the width is in the run, 0 and all ones included. With
0 the range is 1, no body is run, valid never comes and the controller stays in
FSM_UPDATEIDX until a soft clear; with all ones the range wraps to 0 and the loop has no
end. `JobEnds` and `CutOrComplete` say both. A job may have its own ranges and finds the
loop bodies where they are. The streamers are one flag `ready`, which `req_start` clears and which
becomes true in any cycle after. `fsm_ctrl.len` and `flags_o.cnt` are not driven in
this version of the code (both assignments are commented out, `mac_ctrl.sv:151` and
`mac_engine.sv:205`), so the cycle in which they are equal is a free choice. Soft clear
comes at any time.

### CelliftText and CelliftMake

A Verilog file is a sequence of items: imports, neutral lines, pragmas and units with
their imports, instances and blackbox attribute. Each script is an operator on such
sequences, with the value `Raise` where it raises. sv2v and Yosys are external:
what the later scripts rely on is that Yosys flattens the design, fails on missing or
doubly defined modules, and renames parametrised blackboxes.

`CelliftMake` runs recipes command by command, as many at a time as `-j` allows.
`file` has the files that exist and their contents.
Dates are a flag `fresh` for each file: writing a file makes it newer than its
prerequisites and makes its dependents out of date. A failing command leaves what the
recipe wrote before, and an empty file where the output was redirected; an interrupt makes `make` delete the targets written so far.
The log `generated/out/%.sv.log` is a prerequisite of the executable and is made by the
recipe of the design, with no rule of its own for instrumented targets: with one job make
finds it in time, with several it looks for it first and stops (`NoRule`) unless an earlier
build has left it. The copy of the log beside the executable is left out: nothing reads it.
`fusesoc` refuses only an empty design. Verilator refuses more, so the model has more calls
that succeed than there are, and what it shows of successful calls holds for the real
ones. `make recompile` needs the build directory only, into which FuseSoC has copied the
design (`copied`), and may fail and be called again. Content
carries the version of the script it was made with. The testbench is not modelled: no
rule has it as a prerequisite. The three
variants of an executable (`_notrace`, `_trace`, `_trace_fst`) have the same rules and
are one here.

### IftSram

A bank first loads the ELF and taint sections that fall into its part of the address
map, for two runs whose files differ in tainted bits at most; `Params` are the
parameters that the scripts write into its instance in the prepared and in the
instrumented design, and `BankOf` and `RowOf` say which bank and row the interconnect
reaches for an address. `StartClock` ends the initial blocks; from then on each clock edge
takes inputs for both runs that differ in tainted bits at most. A word is a set of bits, an
address a set of address bits; `Full` and-s byte enables and tainted address bits of the
same number, as the code does. In reset the flags are cleared while memory and read port,
which have no reset, go on (`Reset`).

What the taint logic does not follow is history. `lost` names four events: a write in one
run only, a write of other bytes in each run, a write to other rows through an address that
is tainted in no bit where the code looks (`Slips`), and a reset that clears the mark of the
memory or meets a write through a tainted address. `unmarked` has the differences that the
load leaves without taint, since it takes bit 0 of a taint word and no other
(`ift_sram.sv:177`), as long as they are not overwritten; `passed` has those in the row read
last. `MemoryTaintSound` and `ReadTaintSound` say that nothing else is lost, at any width;
they do not say that the memories of the code are sound for the taint files of the
repository, and the runs `ift_sram_address` and `ift_sram_loaded` show that they are not.

## 3. Runs

| run | cfg | checks | result |
|---|---|---|---|
| `ips_tree` | `IpsTree.cfg` | `TypeOK`, `DepsClosed`, `BottomUp`, `AskedOnConflict` | pass, 1 781 states |
| `ips_update` | `IpsUpdate.cfg` | `TypeOK`, `NoErrorMeansCurrent`, `LaunchedFindsPaths`, `ReferencedScriptsExist`, `NoWorkLost`, `RunTerminates` | pass, 943 280 states |
| `ips_scripts` | `IpsScripts.cfg` | `DepsHaveRules`, `ReferencesDefined`, `SkipFlagsHonoured`, `NoUnboundLocal` | pass, 34 308 states |
| `ips_maintain` | `IpsMaintain.cfg` | `TypeOK`, `RemovesOnlyClean`, `StoredListReproduces`, `PushesListedCommit` | pass, 2 196 143 states |
| `hwpe_slave` | `HwpeCtrlSlave.cfg` | `TypeOK`, `OffloadIsExclusive`, `PendingWithinContexts`, `StatusMarksPending`, `JobIdsNameJobs`, `FinishedCounterMissesOne`, `ImplementsJobQueue`, `JobsEnd` | pass, 34 836 states |
| `mac_ctrl` | `MacCtrl.cfg` | `TypeOK`, `GoldenAgrees`, `ComputesIteration`, `CutOrComplete`, `JobEnds` | pass, 5 617 states |
| `mac_wait` | `MacCtrlWait.cfg` | `CompletesJob` | violated |
| `cellift_make` | `CelliftMake.cfg` | `TypeOK`, `MadeIsWellFormed`, `MadeIsCurrent` | pass, 242 335 states |
| `cellift_make_parallel` | `CelliftMakeParallel.cfg` | `MadeIsWellFormed` with `-j2` on two instrumented targets | violated |
| `ift_sram` | `IftSram.cfg` | `TypeOK`, `LoadedAsGiven`, `MemoryTaintSound`, `ReadTaintSound` | pass, 444 044 states |
| `ift_sram_address` | `IftSramAddress.cfg` | `AddressesFollowed` | violated |
| `ift_sram_loaded` | `IftSramLoaded.cfg` | `LoadsProgram` in the instrumented design | violated |

The four violated properties state what the code's own comments and documents say;
`PROJECT.json` quotes each line:

* Streamers that are busy at an update end the job early, with computations left and done
  reported, where the comment says that the machine should wait (`mac_fsm.sv:181`).
* Instrumented designs made in parallel overwrite each other's intermediate file
  (`Makefile:97`), after an earlier build has left their logs; without the logs make stops.
* Taint of an address bit outside the byte enables is dropped at a write (`ift_sram.sv:57`).
* In the instrumented design the offset of the interleaved banks grows with their number
  (`deparam_mem_module_names.py:27`), so that banks 1 to 3 load other words of the program
  than the cores look for there, or none.

### Disagreements without a run

These were met while modelling. The model behaves as the code does; the properties
above are stated so that they hold in spite of them, and no run is kept for each.

* `IPDatabase.py:296` announces the flat flow after CTRL+C; the bare `return` makes
  the list `None`, and `update_ips` raises `TypeError`.
* The class documentation promises a question for different versions of an IP;
  `get_conflicts` compares commits only, so `master` of two forks is no conflict.
* An IP that a list moves to another server or group stays on its old origin, and
  "IPs updated successfully!" is printed.
* `only_local` is tested the wrong way round in `SubIPConfig.export_vsim`
  (`SubIPConfig.py:167` against `:122` and `src_files.rst:58`). Nothing in the repository
  calls that exporter, so the difference is visible in the text of the function alone.
* The comment in `load_ips_list_from_server` says that its silent handler is reached
  for private commit hashes only; an empty answer for any version reaches it.
* `remove_ips` does not look for commits that were not pushed; `tag_ips` lists tags it
  could not make; under Python 3 both end in `TypeError`; a list that they store is
  refused by the loader of the tool.
* A job that ends in a cycle with the address of the finished-jobs counter on the lines is
  not counted, request or not. `FinishedCounterMissesOne` bounds the loss since the last
  such cycle; a bus that rests at that address loses job after job.
* An iteration after a loop body of one instruction is never shown as valid, a MAC
  job with `NB_ITER` 0 never ends without a soft clear, and one with 4095 has an endless
  loop; `JobEnds` and `CutOrComplete` say so.
* The Python model raises `IndexError` at the end of microprograms of fewer than six loops.
* An executable from `make recompile` hides a newer design; `make run_<target>` does
  not look at the testbench; a failed insertion of blackbox attributes is not repeated.
* Of a taint word only bit 0 is loaded (`ift_sram.sv:177`), against `taint_data/Readme.md`
  and files such as that of bug 25, whose word is `FFFFFFFF`.
* The logs of instrumented designs have no rule (`Makefile:125`): `make -j2` from a clean
  tree stops with no rule to make them.

### Bounds

* `IpsTree`: three IPs, one shared by two others, two commits, three groups (two on
  github.com), lists that change and a cycle: enough for conflicts of one and of two
  names, collapse across groups, and a descent to the recursion limit.
* `IpsUpdate`: two IPs, one of them with a fork; two lists that pin, unpin and move an IP
  and drop the other; two commits on each remote, one action of the user, one killed run. The second IP is needed for
  errors that are not the last; a second crash adds nothing that the first and the
  next run do not show (a crash leaves a directory and the files, no memory). The
  theorems hold for every value of these bounds.
* `IpsScripts`: one IP with and one without alternatives, all flags and one
  representative of each class of targets, one that the tool refuses.
* `HwpeCtrlSlave`: two cores, two contexts, four job identifiers, so that pointers and
  identifiers wrap repeatedly; the finite state space is explored completely, with no
  bound on the number of jobs.
* `IpsMaintain`: two IPs, two tags, two commits, three commands and three actions of
  the user: a stored list, something in between, and the command that relies on it.
* `MacCtrl`: jobs with every `NB_ITER` from 0 to 7 on the hard-wired microcode and a
  selection of microprograms of one, two, three and six loops, in any succession and without
  a bound on their number; registers of 5 and counters of 3 bits, so that both wrap. The
  history `computations` stops at two more than a job asks for.
* `CelliftMake`: three targets, two calls of make out of three (vanilla with cellift and
  vanilla alone with two jobs, two instrumented designs with one), one edit of the script,
  any script or tool failing; redirections fail for want of their input only, since one that
  fails for another reason leaves an empty file that looks up to date. Two calls show whatever an
  interrupted or failed call leaves behind. The design is a cut with one
  representative of each thing the scripts tell apart.
* `IftSram`: a private bank of four words and two interleaved banks of four, both designs,
  words of one byte of two bits: the smallest words and addresses with an address bit above
  the byte enables and a bit that the loader of taint does not take. Any two ELF sections and
  one taint section of up to four words; each kind of access with the taints that matter
  (`MCRequests`). The constraint `Bounded` stops where taint is lost, since nothing is claimed
  from there on, and starts the clock only from images of which at most two rows are not
  empty. The theorems hold without the constraint, for any widths and any inputs.

Deadlock is checked in `ips_update`, `hwpe_slave`, `mac_ctrl` and `ift_sram`. The others describe programs that end, or a bounded
number of commands.

### Fairness

`WF(ToolStep)` in `IpsUpdate`: a started sequential program keeps
executing; nobody has to start it, answer a prompt, push or kill it. In
`HwpeCtrlSlave`, `WF(Next)` is the clock and `WF(EngineEnds)` says that an engine that
computes finishes its job; cores need not do anything. In `MacCtrl`, besides the clock, busy
streamers become ready, which is what `hwpe-stream` owes the controller. Nothing is assumed
of the engine's counter, which is not driven in this version: `JobEnds` goes from any state
up to the next computation, not through it. No job has to come and no clear has to happen.

## 4. Proofs

All statements are theorems for every value of the constants that satisfies the named
assumption of the module (`ConstantsAssumption`, `WidthAssumption`, `UcodeAssumption`
with `JobsAssumption`, `MakeAssumption`), which TLC evaluates on each run. Where a
theorem needs more, its statement says so.

* **`IpsTree_proofs`**: `TypeCorrect`, `DepsAlwaysClosed`, `AlwaysAskedOnConflict`,
  `AlwaysBottomUp`, for any lists, any answers of servers and user, and any recursion
  limit. `Frames` says of every constructor on the stack that the children it has begun
  are complete, up to the one it waits for; with it a completed node comes after its
  dependencies (`PostOrder`). `ResolveInv` describes the resolution: the names before
  the cursor are the ones selected, those with a conflict among them the ones asked
  about. That the first occurrence of a name is the key under which it is selected needs
  a least element of a set of positions, which is a lemma of its own.
* **`IpsUpdate_proofs`**: `TypeCorrect`, `SuccessIsTrue`, `LaunchedAlwaysFindsPaths`,
  `ScriptsAlwaysExist`, `WorkIsNeverLost`. The inductive invariant adds to the
  properties: `Position` (an entry exists wherever a Git command is running on it),
  `Downloaded` (the directories of the cached list exist while a launched
  generate-scripts imports them), `Exported` (every IP already passed by the export loop
  and in the dictionary has its `.mk`), and `WorkIsInGit` (changes and commits of
  the user's are in Git directories, so cloning overwrites none). `SuccessIsTrue` holds because
  the branch of a fetched or cloned copy is at least `base`, the remote when the run
  began, and remotes only grow; `Untouched` says that the
  directories of the entries to come still have the origin they had when the run began, and
  `Position` that a clone has the one its entry names.
* **`IpsScripts_proofs`**: `DepsHaveRulesAlways`, `ReferencesAlwaysDefined`,
  `SkipFlagsAlwaysHonoured`, `NeverUnbound`. The invariant records, for each position in
  the sequence of calls, which scripts exist and by which filter they were written
  (`Progress`); the theorems then compare the filters.
* **`HwpeCtrlSlave_proofs`**: `TypeCorrect`, `OffloadAlwaysExclusive`,
  `PendingAlwaysWithinContexts`, `StatusAlwaysMarksPending`, `JobIdsAlwaysNameJobs`,
  `FinishedCounterAlwaysMissesOne`, for any
  number of cores, 2 or 4 contexts and any number of job identifiers above that of the contexts. `NextIsTick` turns every
  step into one clock edge with its request and done. `Bus` relates the last response to
  the core that asked; `Working` says that a slave that works has a pending context,
  which is what keeps the pending counter from underflowing. The rest is modular
  arithmetic: `Distance`, `Window` and `IdDistance`.
  `SlaveImplementsJobQueue` is the refinement of `HwpeJobQueue`. A lemma for each kind of
  clock edge relates the queue read off the contexts before and after it: a trigger
  appends, a done removes the first job, both at the same edge do both, a request of a
  core that changes neither is a stutter, and the end of a soft clear empties it. The job appended
  has the parameters written since the test&set, because `written` follows the context of
  the pointer.
* **`IpsMaintain_proofs`**: `TypeCorrect`, `AlwaysRemovesOnlyClean`,
  `StoredListAlwaysReproduces`, `AlwaysPushesListedCommit`, for any list, any tags, either
  Python and any number of commands and actions of the user. `Diffed`: of the IPs that
  the loop of `diff_ips` has passed and the user has left alone, it knows the changes.
  `Listing`: each entry collected so far still means its working copy. `Agreement`:
  where the stored list is the last word, it names tags of HEAD; so whatever tag of HEAD
  `git describe` finds stands for the listed commit.
* **`MacCtrl_proofs`**: `TypeCorrect` and `GoldenAlwaysAgrees` for programs of any number
  of loops; `OneLoopCutOrComplete` for the MAC engine, whose microcode has one. `Processor`
  says that the program fits, that the program counter is in the body of the current
  loop, and that the registers have their widths. `NoWrap` is the heart of the
  agreement: within a program that fits, the unsigned comparisons of the hardware decide
  as those on Python's integers, a range of 0 excepted, which is endless in one and over in
  the other. `GoldenInv` says that the two have the same position and the same registers
  modulo the width; `GoldenSame` derives what `GoldenAgrees` compares. `Counting` relates the
  index of the loop to the computations done, one behind until an update is complete
  (`Counted`), and says of a loop without an end that done never comes (`NeverDone`).
  `JobRange` derives from the wiring of `mac_ctrl.sv` that the range is one more than what
  the job asks for, in the width of the counter.
* **`IftSram_proofs`**: `TypeCorrect`, `BanksAlwaysLoadedAsGiven`,
  `MemoryTaintAlwaysSound`, `ReadTaintAlwaysSound`, for any width of words and addresses,
  any number of banks and sections, any taint words, and both designs. They have no
  hypotheses; what the code does not ensure is in the properties, as `unmarked`, `lost` and
  `passed`. `BanksAlwaysLoadedAsGiven` is about the banks whose part of the files is where
  the interconnect looks for it (`Aligned`): all of the prepared design, the private one
  and the first interleaved one of the instrumented design. `Written` and `TaintWritten` say what the sections loaded
  so far have put into each row. `FromFiles` says that a row of the two runs is either equal
  or a word of one address of the two files; it carries the bound on their differences over
  to the clocked phase, where `TaintInv` holds.
* **`Cellift_proofs`**: `MakeTypeCorrect`, `MadeIsAlwaysCurrent` and
  `MadeIsAlwaysWellFormed`, for any targets, any number of calls with any number of jobs,
  and failures, interrupts, edits and recompilations in any order. The
  inductive invariant `MakeInv` says what `make` can find on the disk. `Dates`: a file
  that is newer than its prerequisite has the version of its prerequisite, and the
  prepared design that of the script. `Halfway`: so has what a running recipe has written
  so far, which is why a file left by a stopped recipe does no harm.
  `Instrumentation`: every file of a target, the copy in its build directory included,
  carries the mark of its own instrumentation.
  `OneCompacts`: `generated/interm.sv` belongs to one recipe at a time. `Sequence` and
  `Current`: what this call has dealt with comes after its prerequisites and is as recent
  as the call. Executables are exempt from the last, because `make recompile` makes an
  old one look new. `Contents` adds the text
  of each file: the one that an undisturbed build puts there, and for
  `generated/sv2v_out.v` and what follows from it one other, since a failed
  `insert_blackbox_attrs.py` leaves a file without the attributes that looks up to date.

  The last two theorems have two hypotheses. `OneInstrumentedAtATime`: a call with
  several jobs builds at most one instrumented design; without it the run
  `cellift_make_parallel` shows two recipes mixing up `generated/interm.sv`.
  `RedirectionsSucceed`: `cat` and `sed` fail only for want of their input, since one that
  fails for another reason, such as a full disk, leaves an empty target newer than its
  prerequisites. `MadeIsAlwaysWellFormed` has a third, `DesignsAreWellFormed`: what the
  scripts make of the pickled design, and do not refuse, is well formed. This is a
  statement about one build of one file. It holds on the cut of the design used in the
  runs, where `deparam_mem_module_names.py` refuses the design without the attributes.
What stays with TLC:

* liveness (`RunTerminates`, `JobsEnd`, `JobEnds`): fairness is out of the prover's reach;
* the properties that are violated (`CompletesJob`, `AddressesFollowed`, `LoadsProgram`);
* `ComputesIteration`, and `CutOrComplete` for several loops: the number of iterations
  and the offsets are a product and a sum over the loops, so both need induction over data;
* what the microcode compiler and the Verilog scripts compute, and so whether the
  designs of one build are well formed: they are recursive over programs and files.

## 5. Plan

1. `DcFifo`: the token-ring FIFO of `axi_slice_dc` between two clocks, implementing an
   abstract FIFO; the event queue of the interrupt controller.
2. Composition of `MacCtrl` with `HwpeCtrlSlave` in the place of its assumed engine.

## 6. Not modelled

* The processor pipelines, udma and fpu: their correctness is stated against an
  instruction set, data sheets and arithmetic.
* `scenarios.py`: it looks for substrings in the names of the signals of traces that are not
  in the repository. Whether a word finds the signals of its block and no others decides
  whether a message is right, and a model would have to assume it.
* Memories other than `ift_sram`, technology cells, JTAG and FLL wrappers: no
  protocol state.
* `ipstools/ordereddict.py` (vendored), `ipstools/doc/conf.py` (configuration of the
  documentation) and the templates of generated scripts: no behaviour of their own.
* The accum flag of the microcode processor; address generation and FIFOs of
  `hwpe-stream`, the data path of `mac_engine.sv`.
* `run_scenarios.sh` and the C++ testbench, whose taint injections are commented out
  in this version (`toplevel.cc:133` and `:158`): they only produce traces.
* bender, morty, sv2v, Yosys, FuseSoC and the common `design.mk`, which are outside
  the repository.
