---------------------------- MODULE CelliftMake ----------------------------
(***************************************************************************)
(* The rules of cellift/Makefile and the runs of make.                     *)
(*                                                                         *)
(* A file of the build is a tuple: <<stage>>, or <<stage, target>> for one *)
(* instrumentation target.  Its content is a record of the text, the       *)
(* instrumentation it went through, and the version of the script it was   *)
(* made with.  fresh[f] says that no prerequisite is newer than f.         *)
(* Recipes run command by command; a script reads its input at once and    *)
(* writes its output at once at its end.                                   *)
(*                                                                         *)
(* The log that goes with the design of a target, generated/out/%.sv.log,  *)
(* is a prerequisite of the executable.  For vanilla there is a rule for   *)
(* it, which cannot fail and is left out.  For an instrumented target      *)
(* there is none: the log is made by the recipe of the design.  The copy   *)
(* of the log beside the executable, which nothing reads, is left out.     *)
(***************************************************************************)
EXTENDS CelliftText, FiniteSets

CONSTANTS Targets,        \* TARGET_NAMES: vanilla and instrumentations
          Pickled,        \* the text of generated/pickled.sv
          ToRemove,       \* MODULES_TO_REMOVE and MODULES_TO_UNIQUIFY
          Builds,         \* calls of make: [goals : targets, j : jobs]
          Failing,        \* the commands that may fail for a reason of their own
          Recompiles,     \* whether the user also calls make recompile
          MaxEdits,       \* bound on versions of the script
          MaxRuns,        \* bound on calls of make
          None

ASSUME MakeAssumption ==
    /\ MaxEdits \in Nat \ {0} /\ MaxRuns \in Nat
    /\ \A build \in Builds : build.goals \subseteq Targets /\ build.j \in Nat

VARIABLES file,           \* [file -> content] of the files that exist
          fresh,          \* [file -> BOOLEAN]
          script,         \* version of replace_instances_hdac.py
          make,           \* the call of make, the files it has dealt with, and the
                          \* versions of the sources when it was called
          jobs,           \* [target file -> next command] of the running recipes
          ran,            \* what the last make run_<target> executed, or None
          copied,         \* [target -> design] in the build directories of FuseSoC
          recompiled,     \* targets whose executable make recompile made
          edited,         \* the script changed while the recipe that had read it ran
          runs            \* calls of make so far
makevars == <<file, fresh, script, make, jobs, ran, copied, recompiled, edited, runs>>

Shared == {<<"pickled">>, <<"tmp_pickle">>, <<"prepared">>, <<"pre_blackbox">>, <<"sv2v_out">>,
           <<"tmp">>, <<"interm">>, <<"conf">>}
Files == Shared \cup ({"precompact", "out", "log", "exe"} \X Targets)
Instrumented == Targets \ {"vanilla"}

(***************************************************************************)
(* Rules                                                                   *)
(***************************************************************************)
Prerequisites(f) ==
    CASE f = <<"prepared">> -> {<<"pickled">>}
      [] f = <<"pre_blackbox">> -> {<<"prepared">>}
      [] f = <<"sv2v_out">> -> {<<"pre_blackbox">>}
      [] f[1] = "precompact" -> {<<"sv2v_out">>}
      [] f = <<"out", "vanilla">> -> {<<"prepared">>}
      [] f[1] = "out" /\ f[2] # "vanilla" -> {<<"precompact", f[2]>>}
      [] f[1] = "exe" -> {<<"out", f[2]>>}
      [] OTHER -> {}

Command(from, to, do) == [from |-> from, to |-> to, do |-> do]
InPlace(f, todo) == [n \in 1..Len(todo) |-> Command(f, f, todo[n])]

\* 3. Prepare the pickled file.
PrepareRecipe ==
    <<Command(<<"pickled">>, <<"tmp_pickle">>, "fix_global_imports")>>
    \o InPlace(<<"tmp_pickle">>, <<"remove_modules", "replace_instances", "remove_pragma", "sed">>)
    \o <<Command(<<"tmp_pickle">>, <<"prepared">>, "mv")>>

\* 4. sv2v, and the blackboxes of the memories.
Sv2vRecipe == <<Command(<<"pre_blackbox">>, <<"sv2v_out">>, "cat_blackboxes"),
                Command(<<"sv2v_out">>, <<"sv2v_out">>, "insert_blackbox")>>

\* 5. The design without instrumentation.
VanillaRecipe == <<Command(<<"prepared">>, <<"tmp">>, "remove_memories"),
                   Command(<<"tmp">>, <<"out", "vanilla">>, "sed_to"),
                   Command(<<"tmp">>, <<"tmp">>, "rm")>>

\* 6. Compact the concatenations of an instrumented design: the three common
\* scripts are one command here.
CompactRecipe(t) ==
    <<Command(<<"precompact", t>>, <<"interm">>, "compact")>>
    \o InPlace(<<"interm">>, <<"deparam">>)
    \o <<Command(<<"interm">>, <<"out", t>>, "cat"), Command(<<"interm">>, <<"interm">>, "rm"),
         Command(<<"precompact", t>>, <<"log", t>>, "cp")>>

\* 7. Build with FuseSoC, whose configuration is made anew each time.
ExeRecipe(t) == <<Command(<<"conf">>, <<"conf">>, "rm"),
                  Command(<<"out", t>>, <<"conf">>, "library_add"),
                  Command(<<"out", t>>, <<"exe", t>>, "fusesoc")>>

Recipe(f) ==
    CASE f = <<"prepared">> -> PrepareRecipe
      [] f = <<"pre_blackbox">> -> <<Command(<<"prepared">>, f, "sv2v")>>
      [] f = <<"sv2v_out">> -> Sv2vRecipe
      [] f[1] = "precompact" -> <<Command(<<"sv2v_out">>, f, "yosys")>>
      [] f = <<"out", "vanilla">> -> VanillaRecipe
      [] f[1] = "out" /\ f[2] # "vanilla" -> CompactRecipe(f[2])
      [] f[1] = "exe" -> ExeRecipe(f[2])

(***************************************************************************)
(* What a command makes of its input                                       *)
(***************************************************************************)
Memories == <<"ift_boot_rom_hdac", "ift_sram", Scm>>
BlackboxSources ==
    [n \in 1..2 |-> [Unit("module", Memories[n], <<>>, {}) EXCEPT !.blackbox = TRUE]]

Text(do, text) ==
    CASE do = "fix_global_imports" -> fix_global_imports(text)
      [] do = "remove_modules" -> remove_modules(text, ToRemove)
      [] do = "replace_instances" -> replace_instances_hdac(text)
      [] do = "remove_pragma" -> remove_pragma_translate_off(text)
      [] do \in {"sed", "sed_to"} -> remove_attributes(text)
      [] do = "sv2v" -> sv2v(text)
      [] do = "cat_blackboxes" -> text \o BlackboxSources
      [] do = "insert_blackbox" -> insert_blackbox_attrs(text)
      [] do = "yosys" -> yosys(text)
      [] do = "remove_memories" -> remove_modules(text, Memories)
      [] do = "deparam" -> deparam_mem_module_names(text)
      [] OTHER -> text

\* A command needs its input, and some scripts refuse what they find in it.
\* Verilator, which fusesoc runs, refuses more designs than the empty one: that
\* it takes the others makes more calls succeed than really do.
Accepts(c) ==
    c.do # "rm" =>
        /\ c.from \in DOMAIN file
        /\ c.do = "fusesoc" => <<"conf">> \in DOMAIN file /\ file[c.from].text # <<>>
        /\ c.do \in {"replace_instances", "insert_blackbox", "yosys", "deparam"} =>
               Text(c.do, file[c.from].text) # Raise

\* The content that command c of the recipe of f writes.
Output(f, c) ==
    [text |-> Text(c.do, file[c.from].text),
     by |-> IF c.do = "yosys" THEN f[2] ELSE file[c.from].by,
     script |-> IF c.do = "replace_instances" THEN script ELSE file[c.from].script]

\* The file that a command takes away: mv does so with its input.
Removed(c) == CASE c.do = "rm" -> {c.to} [] c.do = "mv" -> {c.from} [] OTHER -> {}

\* Mutant: what depends on f is not made again.
FreshenOne(f) == fresh' = [fresh EXCEPT ![f] = TRUE]

\* f is written: it is newer than its prerequisites, and what depends on it
\* is older than f.
Freshen(f) ==
    fresh' = [g \in Files |-> (g = f \/ fresh[g]) /\ f \notin Prerequisites(g)]

(***************************************************************************)
(* make                                                                    *)
(***************************************************************************)
Idle == [goals |-> {}, j |-> 0, done |-> {}, script |-> 0, status |-> "idle"]
Running == make.status \in {"making", "failed"}

MakeInit ==
    /\ file = [f \in {<<"pickled">>} |-> [text |-> Pickled, by |-> "vanilla", script |-> 0]]
    /\ fresh = [f \in Files |-> f = <<"pickled">>]
    /\ script = 1
    /\ make = Idle
    /\ jobs = <<>>
    /\ ran = None
    /\ copied = <<>>
    /\ recompiled = {}
    /\ edited = FALSE
    /\ runs = 0

\* The user calls make -j<j> run_<target> for the targets of a build.
Call(build) ==
    /\ ~Running
    /\ runs < MaxRuns
    /\ make' = [goals |-> build.goals, j |-> build.j, done |-> {<<"pickled">>},
                script |-> script, status |-> "making"]
    /\ runs' = runs + 1
    /\ UNCHANGED <<file, fresh, script, jobs, ran, copied, recompiled, edited>>

Needed ==
    {<<"prepared">>} \cup ({"out", "exe"} \X make.goals)
    \cup (IF make.goals \cap Instrumented = {} THEN {} ELSE {<<"pre_blackbox">>, <<"sv2v_out">>})
    \cup ({"precompact"} \X (make.goals \cap Instrumented))

\* The log of a design without a rule for it.
LogMissing(t) == t \in Instrumented /\ <<"log", t>> \notin DOMAIN file

\* make looks at a file once its prerequisites are dealt with: it is up to
\* date, or its recipe starts when a job slot is free.
Considered(f) ==
    /\ make.status = "making"
    /\ f \in Needed \ (make.done \cup DOMAIN jobs)
    /\ Prerequisites(f) \subseteq make.done
    /\ f[1] = "exe" => ~LogMissing(f[2])

\* "No rule to make target": a missing log stops make.  With one job make waits
\* for the design, whose recipe makes the log, before it looks at the log; with
\* more jobs it looks at all logs before the first recipe has ended.
NoRule ==
    /\ make.status = "making"
    /\ \E t \in make.goals : LogMissing(t) /\ (make.j > 1 \/ <<"out", t>> \in make.done)
    /\ make' = [make EXCEPT !.status = "failed"]
    /\ UNCHANGED <<file, fresh, script, jobs, ran, copied, recompiled, edited, runs>>
MayEnd == make.status = "making" /\ make.j > 1 => \A t \in make.goals : ~LogMissing(t)
UpToDate(f) ==
    /\ Considered(f)
    /\ f \in DOMAIN file /\ fresh[f]
    /\ make' = [make EXCEPT !.done = @ \cup {f}]
    /\ UNCHANGED <<file, fresh, script, jobs, ran, copied, recompiled, edited, runs>>

\* Mutant: without the limit of jobs.
StartRecipeAnyway(f) ==
    /\ Considered(f)
    /\ f \notin DOMAIN file \/ ~fresh[f]
    /\ jobs' = [g \in DOMAIN jobs \cup {f} |-> IF g = f THEN 1 ELSE jobs[g]]
    /\ UNCHANGED <<file, fresh, script, make, ran, copied, recompiled, edited, runs>>

StartRecipe(f) ==
    /\ Considered(f)
    /\ f \notin DOMAIN file \/ ~fresh[f]
    /\ Cardinality(DOMAIN jobs) < make.j
    /\ jobs' = [g \in DOMAIN jobs \cup {f} |-> IF g = f THEN 1 ELSE jobs[g]]
    /\ UNCHANGED <<file, fresh, script, make, ran, copied, recompiled, edited, runs>>

\* FuseSoC copies the designs of targets ts to their build directories.
Copy(ts) ==
    copied' = [t \in DOMAIN copied \cup ts |-> IF t \in ts THEN file[<<"out", t>>] ELSE copied[t]]

WithoutJob(f) == [g \in DOMAIN jobs \ {f} |-> jobs[g]]

\* The next command of a recipe succeeds.
Advance(f) ==
    LET c == Recipe(f)[jobs[f]]
    IN  /\ Accepts(c)
        /\ file' = [g \in (DOMAIN file \cup {c.to}) \ Removed(c) |->
                       IF g = c.to THEN Output(f, c) ELSE file[g]]
        /\ Freshen(c.to)
        /\ Copy({t \in Targets : c.to = <<"exe", t>>})
        /\ recompiled' = IF c.do = "fusesoc" THEN recompiled \ {f[2]} ELSE recompiled
        /\ edited' = (edited /\ c.do # "replace_instances")
        /\ IF jobs[f] < Len(Recipe(f))
           THEN /\ jobs' = [jobs EXCEPT ![f] = @ + 1]
                /\ UNCHANGED make
           ELSE /\ MayEnd
                /\ jobs' = WithoutJob(f)
                /\ make' = [make EXCEPT !.done = @ \cup {f}]
        /\ UNCHANGED <<script, ran, runs>>

\* The recipes whose FuseSoC may have copied the design when they stop.
AtFusesoc == {t \in Targets : /\ <<"exe", t>> \in DOMAIN jobs /\ jobs[<<"exe", t>>] = 3
                              /\ <<"out", t>> \in DOMAIN file}

\* A command fails: a script leaves its output as it was, a redirection
\* leaves an empty file.  What the recipe has written stays.  make starts
\* no other recipe and waits for the ones that run.
Redirections == {"cat", "sed_to", "cat_blackboxes"}
Fail(f) ==
    LET c == Recipe(f)[jobs[f]]
    IN  /\ ~Accepts(c) \/ c.do \in Failing
        /\ IF c.do \in Redirections
           THEN /\ file' = [g \in DOMAIN file \cup {c.to} |->
                               IF g = c.to THEN [text |-> <<>>, by |-> "vanilla", script |-> 0]
                               ELSE file[g]]
                /\ Freshen(c.to)
           ELSE UNCHANGED <<file, fresh>>
        /\ \E ts \in SUBSET {t \in AtFusesoc : f = <<"exe", t>>} : Copy(ts)
        /\ jobs' = WithoutJob(f)
        /\ make' = [make EXCEPT !.status = "failed"]
        /\ UNCHANGED <<script, ran, recompiled, edited, runs>>

\* All is made, and the programs run, or make gives up.
Finish ==
    /\ Running
    /\ jobs = <<>>
    /\ IF make.status = "failed"
       THEN make' = Idle /\ UNCHANGED ran
       ELSE /\ Needed \subseteq make.done
            /\ make' = [make EXCEPT !.status = "made"]
            /\ ran' = [t \in make.goals |-> file[<<"exe", t>>]]
    /\ UNCHANGED <<file, fresh, script, jobs, copied, recompiled, edited, runs>>

\* CTRL+C: make deletes the targets that the running recipes have written.
Written(f) == \E n \in 1..(jobs[f] - 1) : Recipe(f)[n].to = f
Interrupt ==
    /\ Running
    /\ file' = [f \in DOMAIN file \ {g \in DOMAIN jobs : Written(g)} |-> file[f]]
    /\ \E ts \in SUBSET AtFusesoc : Copy(ts)
    /\ jobs' = <<>>
    /\ make' = Idle
    /\ UNCHANGED <<fresh, script, ran, recompiled, edited, runs>>

(***************************************************************************)
(* The user                                                                *)
(***************************************************************************)
ReadScript == <<"prepared">> \in DOMAIN jobs /\ jobs[<<"prepared">>] > 3

\* replace_instances_hdac.py is a prerequisite of the prepared design.
EditScript ==
    /\ script < MaxEdits
    /\ script' = script + 1
    /\ fresh' = [fresh EXCEPT ![<<"prepared">>] = FALSE]
    /\ edited' = (edited \/ ReadScript)
    /\ UNCHANGED <<file, make, jobs, ran, copied, recompiled, runs>>

\* make recompile_<target>, which needs the build directory only: the
\* executable is removed and made again from the design that FuseSoC copied
\* there, or the compiler fails.
Recompile(t) ==
    LET exe == <<"exe", t>>
    IN  /\ Recompiles
        /\ ~Running
        /\ t \in DOMAIN copied
        /\ \/ /\ file' = [f \in DOMAIN file \cup {exe} |-> IF f = exe THEN copied[t] ELSE file[f]]
              /\ Freshen(exe)
              /\ recompiled' = recompiled \cup {t}
           \/ /\ file' = [f \in DOMAIN file \ {exe} |-> file[f]]
              /\ UNCHANGED <<fresh, recompiled>>
        /\ UNCHANGED <<script, make, jobs, ran, copied, edited, runs>>

MakeNext ==
    \/ \E build \in Builds : Call(build)
    \/ \E f \in Files : UpToDate(f) \/ StartRecipe(f)
    \/ NoRule
    \/ \E f \in DOMAIN jobs : Advance(f) \/ Fail(f)
    \/ Finish
    \/ Interrupt
    \/ EditScript
    \/ \E t \in Targets : Recompile(t)
MakeSpec == MakeInit /\ [][MakeNext]_makevars

(***************************************************************************)
(* Properties                                                              *)
(***************************************************************************)
Sources == {Memories[n] : n \in 1..3}

\* Type invariant: the versions never run ahead of the sources, running
\* recipes belong to the call of make and are within the recipe, and no more
\* of them run than make was allowed.
TypeOK ==
    /\ DOMAIN file \subseteq Files
    /\ \A f \in DOMAIN file : file[f].script \in 0..script
    /\ fresh \in [Files -> BOOLEAN]
    /\ script \in 1..MaxEdits
    /\ make.status \in {"idle", "making", "failed", "made"}
    /\ DOMAIN jobs \subseteq Needed
    /\ Cardinality(DOMAIN jobs) <= make.j
    /\ \A f \in DOMAIN jobs : jobs[f] \in 1..Len(Recipe(f))
    /\ DOMAIN copied \subseteq Targets /\ \A t \in DOMAIN copied : copied[t].script \in 0..script
    /\ recompiled \subseteq Targets /\ edited \in BOOLEAN /\ runs \in 0..MaxRuns

\* A design that Verilator can build for target t with the sources FuseSoC
\* adds: it went through the instrumentation t, every module it instantiates
\* is defined once, in it or in the added sources, no import is left outside
\* a unit, and no part of it is switched off.
WellFormed(t, content) ==
    LET text == content.text
    IN  /\ content.by = t
        /\ Used(text) \subseteq Defined(text) \cup Sources
        /\ Defined(text) \cap Sources = {}
        /\ \A m, n \in Units(text) : m # n => text[m].name # text[n].name
        /\ \A n \in DOMAIN text : text[n].is \notin {"import", "off", "on"}

\* When make succeeds, each design it was asked for is well formed, wherever
\* earlier calls were interrupted or failed and whichever targets share
\* intermediate files (the recipes of generated/pickled_prepared.sv,
\* generated/out/vanilla.sv and the instrumented targets).  Failing are the
\* scripts: a redirection that fails leaves an empty file that looks up to date.
MadeIsWellFormed ==
    make.status = "made" => \A t \in make.goals : WellFormed(t, file[<<"out", t>>])

\* When make succeeds, each design was made with a script as recent as the
\* call, and make run_<target> ran that design: the rules carry an edit of
\* replace_instances_hdac.py down to all designs and executables, also when
\* earlier calls stopped half-way.  The exceptions are an edit during the
\* recipe that had already read the script, an executable from make
\* recompile, which does not look at the design, and a redirection that fails:
\* Failing are the scripts.
MadeIsCurrent ==
    make.status = "made" =>
        \A t \in make.goals :
            LET design == file[<<"out", t>>]
            IN  /\ edited \/ design.script >= make.script
                /\ t \in recompiled \/ (ran[t].script = design.script /\ ran[t].by = t)
=============================================================================
