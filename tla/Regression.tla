----------------------------- MODULE Regression -----------------------------
(***************************************************************************)
(* The fast regression ci/l1.sh with the scripts it calls, run by a        *)
(* developer in the working tree, one run after another, and by            *)
(* ci/mutate_l1.py in fresh copies of it.                                  *)
(*                                                                         *)
(* A tree says what there is to find:                                      *)
(*   sail[b]   what the real Sail does with binary b: the instructions     *)
(*             it runs, the lines it prints at the end, its exit code      *)
(*   model     what $SAIL names                                            *)
(*   source[p] the binary that the source of program p assembles to        *)
(*   core[p]   what the core does with the .hex of p, and the harness's    *)
(*             exit code                                                   *)
(*   drift     the programs whose .hex is not what their source assembles  *)
(*   reached   the addresses the core retires from before the second reset *)
(*   elfs      the committed ACT4 set: "intact", "edited", "missing"       *)
(*   imm       the design's immediate generator: its wires, see Driven     *)
(*   failing   the coverage runs, other than programs, that fail           *)
(*   data[r]   the coverage data of run r                                  *)
(*   target    the percentage of toggles that run_coverage.sh wants        *)
(*   rules     the RULES of classify_toggles.py                            *)
(***************************************************************************)
EXTENDS TraceCompare, ToggleClass, DecoderRef

CONSTANTS Trees,          \* the working trees
          DEFAULT_PROGS,  \* the programs, a sequence
          ResetProg,      \* the one that is also run with a second reset
          Binaries,       \* the .elf files there may be
          handler,        \* the address of a binary's symbol "handler"
          Leftovers,      \* the .elf files that sw/tests may hold at first
          files_f,        \* the RTL files that must be in the coverage data
          LineTarget,     \* 95, for lines and branches
          ToggleTarget,   \* 90, for toggles, as mutant T1 expects to find it
          MaxChanges      \* bound: edits of the tree and interrupted runs

Programs == {DEFAULT_PROGS[i] : i \in DOMAIN DEFAULT_PROGS}
NoTraces == [log |-> << >>, out |-> << >>, core |-> << >>]
NoData   == << >>

(* reset, decoder and act4 beside the programs. *)
CovRuns == Programs \cup {"reset", "decoder", "act4"}

(* What $SAIL may name: Sail, a Sail that writes no trace, no file, true,  *)
(* and the wrappers of mutate_l1.py.                                       *)
Models == {"pinned", "untraced", "missing", "true", "exit1", "exit0", "silent0"}

(* A line of what Sail prints at the end: a verdict, or anything else. *)
OutLine == {"SUCCESS", "FAILURE", "error"}

SailEnd == [run : Seq(Retirement), out : Seq(OutLine), rc : Nat]
CoreEnd == [run : Seq(Retirement), rc : Nat]

(* The lines of coverage data the given runs wrote, and a line's keys      *)
(* without the hierarchy.                                                  *)
LinesOf(t, runs) == UNION {{t.data[r][i] : i \in DOMAIN t.data[r]} : r \in runs}
Body(line) == [k \in DOMAIN line.key \ {"h"} |-> line.key[k]]

(* Verilator instruments every instance of a module alike (covdat.py:34).  *)
InstancesAgree(t) ==
  LET full == {l \in LinesOf(t, CovRuns) : l.k = "point" /\ Keys \subseteq DOMAIN l.key} IN
  \A a, b \in full :
    PointKey(a) = PointKey(b) /\ a.key["h"] # b.key["h"] => Body(a) = Body(b)

IsData(t) ==
  LET keys == {l.key : l \in LinesOf(t, CovRuns) \ {Junk}} IN
  /\ t.data \in [CovRuns -> Seq(LineOf(keys))]
  /\ InstancesAgree(t)
  /\ IsFiniteSet(t.rules)

(* What sw/tests holds: a binary for each of some programs. *)
NoHandler  == -1
IsElfs(elf) == DOMAIN elf \subseteq Programs /\ elf \in [DOMAIN elf -> Binaries]

IsTree(t) ==
  /\ t = [sail |-> t.sail, model |-> t.model, source |-> t.source, core |-> t.core,
          drift |-> t.drift, reached |-> t.reached, elfs |-> t.elfs, imm |-> t.imm,
          failing |-> t.failing, data |-> t.data, target |-> t.target, rules |-> t.rules]
  /\ t.sail \in [Binaries -> SailEnd] /\ t.source \in [Programs -> Binaries]
  /\ t.core \in [Programs -> CoreEnd] /\ t.model \in Models
  /\ t.drift \subseteq Programs
  /\ t.imm \in [ImmFormats -> [0 .. 31 -> Wires]]
  /\ IsData(t)

ASSUME RegressionAssumption ==
  /\ DEFAULT_PROGS \in Seq(Programs) \ {<< >>} /\ ResetProg \in Programs
  /\ Programs \cap {"reset", "decoder", "act4"} = {}
  /\ handler \in [Binaries -> Int] /\ \A elf \in Leftovers : IsElfs(elf)
  /\ \A t \in Trees : IsTree(t)
  /\ MaxChanges \in Nat

VARIABLES tree,           \* the working tree
          copy,           \* the tree L1 runs in
          built,          \* .elf files and merged.dat beside it
          work,           \* ~/work: the traces of each program
          l1,             \* ci/l1.sh
          mut,            \* ci/mutate_l1.py
          changes         \* edits and interruptions so far

vars == << tree, copy, built, work, l1, mut, changes >>

CHECKS  == {"elfs", "swbuild", "lockstep", "coverage", "classify"}
Verdict == {"none", "PASS", "FAIL"}
Pass(p) == IF p THEN "PASS" ELSE "FAIL"

NothingBuilt == [elf |-> << >>, merged |-> NoData]

Idle == [pc |-> "idle", i |-> 1, rc |-> 0, compared |-> 0, fail |-> FALSE,
         results |-> [c \in CHECKS |-> "none"]]

Failed(run) == {c \in CHECKS : run.results[c] = "FAIL"}

At(pc) == l1.pc = pc

(* The step decides check c and goes on at pc. *)
Decide(c, passes, pc) ==
  l1' = [l1 EXCEPT !.pc = pc, !.results[c] = Pass(passes)]

-----------------------------------------------------------------------------
(* l1.sh: build products are deleted, except the .elf files.               *)

Clean ==
  /\ At("clean")
  /\ built' = [built EXCEPT !.merged = NoData]
  /\ l1' = [l1 EXCEPT !.pc = "elfs"]
  /\ UNCHANGED << tree, copy, work, mut, changes >>

CheckElfs ==
  /\ At("elfs")
  /\ Decide("elfs", copy.elfs = "intact", "swbuild")
  /\ UNCHANGED << tree, copy, built, work, mut, changes >>

(* The given programs have been assembled and installed, the others keep   *)
(* the .elf they have.                                                     *)
Install(elf, t, done) ==
  [p \in DOMAIN elf \cup done |-> IF p \in done THEN t.source[p] ELSE elf[p]]

(* A slip: an .elf that is there already is not replaced. *)
SwBuildNoClobber ==
  /\ At("swbuild")
  /\ built' = [built EXCEPT !.elf = Install(@, copy, Programs \ (copy.drift \cup DOMAIN @))]
  /\ Decide("swbuild", copy.drift = {}, "delete")
  /\ UNCHANGED << tree, copy, work, mut, changes >>

(* Only a program that assembles to its .hex gets its .elf: that of any    *)
(* other stays as an earlier build, of another source perhaps, has left it.*)
SwBuild ==
  /\ At("swbuild")
  /\ built' = [built EXCEPT !.elf = Install(@, copy, Programs \ copy.drift)]
  /\ Decide("swbuild", copy.drift = {}, "delete")
  /\ UNCHANGED << tree, copy, work, mut, changes >>

-----------------------------------------------------------------------------
(* run_lockstep.sh, one program after the other.                           *)

Prog == DEFAULT_PROGS[l1.i]

NextProgram(fail, n) ==
  l1' = [l1 EXCEPT !.i = @ + 1, !.fail = @ \/ fail, !.compared = @ + n,
                   !.pc = IF l1.i = Len(DEFAULT_PROGS) THEN "count" ELSE "delete"]

DeleteTraces ==
  /\ At("delete")
  /\ work' = [work EXCEPT ![Prog] = NoTraces]
  /\ l1' = [l1 EXCEPT !.pc = "sail"]
  /\ UNCHANGED << tree, copy, built, mut, changes >>

(* What running $SAIL on the .elf that is there for program p leaves: its  *)
(* trace, unless it writes none, its output and its exit code. The         *)
(* wrappers are mutate_l1.py's.                                            *)
SailRun(t, elf, p) ==
  LET run == t.sail[elf[p]]
      traced(out, rc) == [log |-> SailPrints(run.run), out |-> out, rc |-> rc]
      only(out, rc)   == [out |-> out, rc |-> rc]
      loads(r, rc)    == IF p \in DOMAIN elf THEN r ELSE only(<< "error" >>, rc)
  IN
  CASE t.model = "missing"  -> only(<< >>, 127)
    [] t.model = "true"     -> only(<< >>, 0)
    [] t.model = "silent0"  -> IF p \in DOMAIN elf THEN traced(<< >>, 0)
                                ELSE only(<< >>, 0)
    [] t.model = "exit1"    -> loads(traced(run.out, 1), 1)
    [] t.model = "exit0"    -> loads(traced(run.out, 0), 0)
    [] t.model = "untraced" -> loads(only(run.out, run.rc), 1)
    [] t.model = "pinned"   -> loads(traced(run.out, run.rc), 1)

Traced(r) == "log" \in DOMAIN r

RunSail ==
  /\ At("sail")
  /\ LET r == SailRun(copy, built.elf, Prog) IN
     /\ work' = [work EXCEPT ![Prog].out = r.out,
                             ![Prog].log = IF Traced(r) THEN r.log ELSE @]
     /\ l1' = [l1 EXCEPT !.pc = "judge", !.rc = r.rc]
  /\ UNCHANGED << tree, copy, built, mut, changes >>

Lines(out, line) == Cardinality({i \in DOMAIN out : out[i] = line})

(* A slip: the exit code is not looked at. *)
SailOkAnyExit(log, out, rc) ==
  log # << >> /\ Lines(out, "SUCCESS") + Lines(out, "FAILURE") = 1

(* A trace, one termination line, and the exit code that goes with it. *)
SailOk(log, out, rc) ==
  /\ log # << >>
  /\ Lines(out, "SUCCESS") + Lines(out, "FAILURE") = 1
  /\ Lines(out, "SUCCESS") = 1 => rc = 0
  /\ Lines(out, "FAILURE") = 1 => rc # 0

JudgeSail ==
  /\ At("judge")
  /\ IF SailOk(work[Prog].log, work[Prog].out, l1.rc)
     THEN l1' = [l1 EXCEPT !.pc = "core"]
     ELSE NextProgram(TRUE, 0)
  /\ UNCHANGED << tree, copy, built, work, mut, changes >>

RunCore ==
  /\ At("core")
  /\ work' = [work EXCEPT ![Prog].core = CorePrints(copy.core[Prog].run)]
  /\ l1' = [l1 EXCEPT !.pc = "compare", !.rc = copy.core[Prog].rc]
  /\ UNCHANGED << tree, copy, built, mut, changes >>

(* Agreement over no instructions is refused. *)
Compare ==
  /\ At("compare")
  /\ LET s == parse_sail(work[Prog].log)  c == parse_core(work[Prog].core)
         agrees == Result(s, c) = "PASS" /\ l1.rc = 0 /\ Compared(s, c) # 0
     IN  NextProgram(~ agrees, IF agrees THEN 1 ELSE 0)
  /\ UNCHANGED << tree, copy, built, work, mut, changes >>

CountPrograms ==
  /\ At("count")
  /\ Decide("lockstep", ~ l1.fail /\ l1.compared = Len(DEFAULT_PROGS), "coverage")
  /\ UNCHANGED << tree, copy, built, work, mut, changes >>

-----------------------------------------------------------------------------
(* run_coverage.sh and classify_toggles.py.                                *)

Generators == {t.imm : t \in Trees}
DecoderPasses == [g \in Generators |-> HarnessPasses(g)]

(* The address that the run with a second reset must have retired from,    *)
(* out of the symbol table of the .elf that is there.                      *)
RT_PC(elf) == IF ResetProg \in DOMAIN elf THEN handler[elf[ResetProg]] ELSE NoHandler

RunPasses(t, elf, r) ==
  IF r \in Programs THEN t.core[r].rc = 0
  ELSE IF r = "decoder" THEN DecoderPasses[t.imm]
  ELSE r \notin t.failing /\ (r = "reset" => RT_PC(elf) \in t.reached)

Passing(t, elf) == {r \in CovRuns : RunPasses(t, elf, r)}

(* The data files of the passing runs, programs first. *)
RunNames == DEFAULT_PROGS \o << "reset", "decoder", "act4" >>

Merged(t, elf) ==
  MergeFiles([i \in DOMAIN RunNames |->
                IF RunPasses(t, elf, RunNames[i]) THEN t.data[RunNames[i]] ELSE NoData])

Met(points, type, target) ==
  LET all == PointsUnder(points, "rtl/core/", type)
      hit == HitUnder(points, "rtl/core/", type)
  IN  all # {} /\ 100 * Cardinality(hit) >= target * Cardinality(all)

(* The gate: every file seen, every metric measured and met. *)
ReportPasses(t, data) ==
  LET u == build_union(data) IN
  /\ u.ok
  /\ files_f \subseteq {FileOf(k) : k \in DOMAIN u.points}
  /\ Met(u.points, "line", LineTarget)
  /\ Met(u.points, "branch", LineTarget)
  /\ Met(u.points, "toggle", t.target)

(* A missing ACT4 ELF stops the script before the old output is deleted,   *)
(* a missing .elf, or handler in it, of the program that is reset only     *)
(* after.                                                                  *)
Coverage ==
  /\ At("coverage")
  /\ LET dies == copy.elfs = "missing" \/ RT_PC(built.elf) = NoHandler
         data == IF dies THEN NoData ELSE Merged(copy, built.elf)
     IN
     /\ built' = [built EXCEPT !.merged = IF copy.elfs = "missing" THEN @ ELSE data]
     /\ Decide("coverage", /\ ~ dies /\ Passing(copy, built.elf) = CovRuns
                           /\ ReportPasses(copy, data), "classify")
  /\ UNCHANGED << tree, copy, work, mut, changes >>

Classify ==
  /\ At("classify")
  /\ LET u == build_union(built.merged) IN
     Decide("classify", u.ok /\ Classified(u.points, copy.rules), "summary")
  /\ UNCHANGED << tree, copy, built, work, mut, changes >>

-----------------------------------------------------------------------------
(* mutate_l1.py. Each mutant changes one thing in its copy of the tree.    *)

Wrong(run) == [run EXCEPT ![Len(run)].val = @ + 1]

MUTANTS ==
  << [id |-> "R1", want |-> "lockstep"], [id |-> "X1", want |-> "lockstep"],
     [id |-> "S1", want |-> "lockstep"], [id |-> "S2", want |-> "lockstep"],
     [id |-> "S3", want |-> "lockstep"], [id |-> "S4", want |-> "lockstep"],
     [id |-> "S5", want |-> "lockstep"], [id |-> "H1", want |-> "swbuild"],
     [id |-> "T1", want |-> "coverage"], [id |-> "K1", want |-> "classify"],
     [id |-> "K2", want |-> "classify"] >>

First == DEFAULT_PROGS[1]

WithRule(t, name, rs) == [t EXCEPT !.rules = {r \in @ : r.name # name} \cup rs]

Mutated(t, id) ==
  CASE id = "R1" -> [t EXCEPT !.core[First].run = IF @ = << >> THEN @ ELSE Wrong(@)]
    [] id = "X1" -> [t EXCEPT !.core[ResetProg].rc = 1]
    [] id = "S1" -> [t EXCEPT !.model = "missing"]
    [] id = "S2" -> [t EXCEPT !.model = "true"]
    [] id = "S3" -> [t EXCEPT !.model = "exit1"]
    [] id = "S4" -> [t EXCEPT !.model = "exit0"]
    [] id = "S5" -> [t EXCEPT !.model = "silent0"]
    [] id = "H1" -> [t EXCEPT !.drift = @ \cup {First}]
    [] id = "T1" -> [t EXCEPT !.target = 99]
    [] id = "K1" -> WithRule(t, "JALR_LSB", {})
    [] id = "K2" -> WithRule(t, "PC_HIGH", {Rule("PC_HIGH", PC_SIGS, ALL32, BOTH)})

(* The edit's anchor is there. *)
Applies(t, id) ==
  /\ id = "T1" => t.target = ToggleTarget
  /\ id = "K1" => \E r \in t.rules : r.name = "JALR_LSB"

Mutating == mut.next >= 0

(* The baseline, or the next mutant: a fresh copy, and L1 in it. *)
StartMutant ==
  /\ At("idle") /\ Mutating /\ mut.next <= Len(MUTANTS) /\ ~ mut.started
  /\ IF mut.next = 0 \/ Applies(tree, MUTANTS[mut.next].id)
     THEN /\ copy' = IF mut.next = 0 THEN tree ELSE Mutated(tree, MUTANTS[mut.next].id)
          /\ built' = NothingBuilt
          /\ l1' = [Idle EXCEPT !.pc = "clean"]
          /\ mut' = [mut EXCEPT !.started = TRUE]
     ELSE /\ mut' = [mut EXCEPT !.ok_all = FALSE, !.next = @ + 1]
          /\ UNCHANGED << copy, built, l1 >>
  /\ UNCHANGED << tree, work, changes >>

(* A slip: the baseline is printed but not counted. *)
EndMutantBaselineUncounted ==
  /\ At("idle") /\ mut.started
  /\ LET as_expected == mut.next = 0 \/ MUTANTS[mut.next].want \in Failed(l1) IN
     mut' = [mut EXCEPT !.ok_all = @ /\ as_expected, !.next = @ + 1, !.started = FALSE]
  /\ UNCHANGED << tree, copy, built, work, l1, changes >>

(* The baseline must pass, a mutant must fail its own check. *)
EndMutant ==
  /\ At("idle") /\ mut.started
  /\ LET as_expected == IF mut.next = 0 THEN Failed(l1) = {}
                        ELSE MUTANTS[mut.next].want \in Failed(l1) IN
     mut' = [mut EXCEPT !.ok_all = @ /\ as_expected, !.next = @ + 1, !.started = FALSE]
  /\ UNCHANGED << tree, copy, built, work, l1, changes >>

(* A slip: the summary is taken for one more mutant. *)
SummaryRunsOn ==
  /\ At("idle") /\ mut.next = Len(MUTANTS) + 1 /\ mut.verdict = "none"
  /\ mut' = [mut EXCEPT !.verdict = Pass(mut.ok_all), !.next = @ + 1]
  /\ UNCHANGED << tree, copy, built, work, l1, changes >>

Summary ==
  /\ At("idle") /\ mut.next = Len(MUTANTS) + 1 /\ mut.verdict = "none"
  /\ mut' = [mut EXCEPT !.verdict = Pass(mut.ok_all)]
  /\ UNCHANGED << tree, copy, built, work, l1, changes >>

-----------------------------------------------------------------------------
(* The developer: L1 in the tree itself, edits between runs, Control-C.    *)

RunL1 ==
  /\ At("idle") /\ ~ Mutating
  /\ copy' = tree
  /\ l1' = [Idle EXCEPT !.pc = "clean"]
  /\ UNCHANGED << tree, built, work, mut, changes >>

EndL1 ==
  /\ At("summary")
  /\ l1' = [l1 EXCEPT !.pc = "idle"]
  /\ UNCHANGED << tree, copy, built, work, mut, changes >>

Edit ==
  /\ At("idle") /\ ~ Mutating /\ changes < MaxChanges
  /\ changes' = changes + 1
  /\ tree' \in Trees
  /\ UNCHANGED << copy, built, work, l1, mut >>

(* In the middle of swbuild, some of the .elf files have been installed. *)
Interrupt ==
  /\ ~ At("idle") /\ ~ Mutating /\ changes < MaxChanges
  /\ changes' = changes + 1
  /\ l1' = Idle
  /\ \E done \in SUBSET (Programs \ copy.drift) :
       /\ ~ At("swbuild") => done = {}
       /\ built' = [built EXCEPT !.elf = Install(@, copy, done)]
  /\ UNCHANGED << tree, copy, work, mut >>

-----------------------------------------------------------------------------
(* ~/work may hold agreeing traces of an earlier run, sw/tests any .elf.   *)
Init ==
  /\ tree \in Trees /\ copy = tree
  /\ built \in {[NothingBuilt EXCEPT !.elf = elf] : elf \in Leftovers}
  /\ work = LET run(p) == tree.sail[tree.source[p]].run IN
            [p \in Programs |-> [log  |-> SailPrints(run(p)), out |-> << "SUCCESS" >>,
                                 core |-> CorePrints(run(p))]]
  /\ l1 = Idle
  /\ mut \in [next : {-1, 0}, ok_all : {TRUE}, started : {FALSE}, verdict : {"none"}]
  /\ changes = 0

L1Step ==
  \/ Clean \/ CheckElfs \/ SwBuild
  \/ DeleteTraces \/ RunSail \/ JudgeSail \/ RunCore \/ Compare \/ CountPrograms
  \/ Coverage \/ Classify \/ EndL1

Next ==
  \/ L1Step \/ RunL1 \/ Edit \/ Interrupt
  \/ StartMutant \/ EndMutant \/ Summary

Spec == Init /\ [][Next]_vars

-----------------------------------------------------------------------------
(* The type of the state. *)
RegressionTypeOK ==
  /\ l1.results \in [CHECKS -> Verdict]
  /\ l1.i \in 1 .. Len(DEFAULT_PROGS) + 1 /\ l1.compared \in 0 .. Len(DEFAULT_PROGS)
  /\ l1.fail \in BOOLEAN
  /\ IsElfs(built.elf)
  /\ mut.next \in -1 .. Len(MUTANTS) + 1 /\ mut.verdict \in Verdict
  /\ mut.ok_all \in BOOLEAN /\ mut.started \in BOOLEAN
  /\ changes \in 0 .. MaxChanges

Normal(run) == [i \in DOMAIN run |-> Record(run[i].pc, run[i].rd, run[i].val)]

(* This run's Sail ran the binary that is there for program p and ended as *)
(* it should, and what the core retired from the .hex of this tree, at     *)
(* least one instruction, is what Sail retired first; the harness accepted *)
(* it.                                                                     *)
Agrees(t, elf, p) ==
  LET r == SailRun(t, elf, p)
      s == Normal(t.sail[elf[p]].run)  c == Normal(t.core[p].run)
  IN  /\ p \in DOMAIN elf /\ Traced(r) /\ t.core[p].rc = 0
      /\ \E i \in DOMAIN r.out :
           /\ r.out[i] = IF r.rc = 0 THEN "SUCCESS" ELSE "FAILURE"
           /\ \A j \in DOMAIN r.out \ {i} : r.out[j] \notin {"SUCCESS", "FAILURE"}
      /\ c # << >> /\ Len(c) <= Len(s)
      /\ \A i \in DOMAIN c : c[i] = s[i]

(* Lockstep passes only on traces of this very run, of every program, that *)
(* agree (run_lockstep.sh:47-129): whatever an earlier or interrupted run  *)
(* left in ~/work, whatever SAIL names. Sail's trace is that of the .elf   *)
(* that is there, and it takes a pass of swbuild for that to be the source *)
(* of this tree, and its .hex (build_sw_tests.sh:6-13).                    *)
LockstepMeansAgreement ==
  l1.results["lockstep"] = "PASS" =>
    /\ \A p \in Programs : Agrees(copy, built.elf, p)
    /\ l1.results["swbuild"] = "PASS" => copy.drift = {} /\ built.elf = copy.source

(* The distinct points of a type in rtl/core that the given runs report,   *)
(* and those that some instance hit in some run.                           *)
TruePoints(t, runs, type) ==
  {Body(l) : l \in {x \in LinesOf(t, runs) :
     x.k = "point" /\ x.key["f"].dir = "rtl/core/" /\ rtype(x) = type}}

TrueHits(t, runs, type) ==
  {b \in TruePoints(t, runs, type) :
     \E l \in LinesOf(t, runs) : l.k = "point" /\ l.count > 0 /\ Body(l) = b}

TargetOf(t, type) == IF type = "toggle" THEN t.target ELSE LineTarget

(* A COMPLETE report is about every run and every point: no run failed, no *)
(* record was dropped or merged with another of its instance, and the hit  *)
(* points of each kind are the share that is wanted (run_coverage.sh,      *)
(* covdat.py).                                                             *)
CoverageMeansMet ==
  l1.results["coverage"] = "PASS" =>
    /\ \A r \in CovRuns : RunPasses(copy, built.elf, r)
    /\ \A l \in LinesOf(copy, CovRuns) : l.k = "point"
    /\ \A type \in {"line", "branch", "toggle"} :
         LET all == Cardinality(TruePoints(copy, CovRuns, type))
             hit == Cardinality(TrueHits(copy, CovRuns, type))
         IN  all > 0 /\ 100 * hit >= TargetOf(copy, type) * all

(* When the classification passes, every toggle point that no passing run  *)
(* of this tree hit is explained by exactly one rule, and every rule still *)
(* explains one: nothing of an earlier tree is classified                  *)
(* (classify_toggles.py:13-19).                                            *)
ClassifiedMeansExplained ==
  l1.results["classify"] = "PASS" =>
    LET passed == Passing(copy, built.elf)
        missed == TruePoints(copy, passed, "toggle") \ TrueHits(copy, passed, "toggle")
        explains(rule, b) ==
          /\ b["o"].dir \in rule.dirs /\ b["o"].bit \in rule.bits
          /\ << b["f"].name, b["o"].sig >> \in rule.sigs
    IN  /\ RT_PC(built.elf) # NoHandler /\ copy.elfs # "missing"
        /\ \A b \in missed : \E rule \in copy.rules :
             {q \in copy.rules : explains(q, b)} = {rule}
        /\ \A rule \in copy.rules : \E b \in missed : explains(rule, b)

(* The bits of the immediate that the cases are chosen to tell apart from  *)
(* every other wire: the sign and its extension, and bit 11 of a branch or *)
(* a jump.                                                                 *)
ToldApart(f) ==
  CASE f \in {"I", "S", "B"} -> 11 .. 31
    [] f = "J" -> {11} \cup 20 .. 31
    [] OTHER   -> {}

Encodings ==
  {Enc(op, f3, rd, rs1, rs2, f7) :
     op \in Opcode, f3 \in {0, 1, 7}, rd \in {0, 1, 30, 31}, rs1 \in {0, 1, 31},
     rs2 \in {0, 1, 30, 31}, f7 \in {0, 1, 63, 64, 127}}

Right == [g \in Generators |->
            \A e \in Encodings : \A j \in ToldApart(FormatOf(e)) :
              Driven(g, e, j) = BitOf(Immediate(e), j)]

(* A design whose decoder harness passes as part of COMPLETE coverage      *)
(* generates the right sign, and the right bit 11, for every encoding, the *)
(* ones that no reference case has included: whatever wire each bit is     *)
(* taken from, some case tells a wrong one (gen_ref.py:107-132).           *)
HarnessSeparates == l1.results["coverage"] = "PASS" => Right[copy.imm]

(* Whatever else the tree holds, lockstep fails when SAIL does not name    *)
(* Sail itself, provided that one of the .elf files ends well under Sail   *)
(* and another does not: each clause of the verdict rule is needed and    *)
(* enough (mutate_l1.py:50-64).                                            *)
SailMutantsAreCaught ==
  /\ copy.model # "pinned" /\ l1.results["lockstep"] # "none"
  /\ \E p \in DOMAIN built.elf : copy.sail[built.elf[p]].out = << "SUCCESS" >>
  /\ \E p \in DOMAIN built.elf : copy.sail[built.elf[p]].out = << "FAILURE" >>
  => l1.results["lockstep"] = "FAIL"

(* MUTATE_L1: PASS is a statement about the tree as well as about L1: the  *)
(* tree's own programs, .hex files and ACT4 set are right, and what its    *)
(* sources assemble to agrees with Sail.                                   *)
MutatePassIsHealthy ==
  mut.verdict = "PASS" =>
    /\ tree.elfs = "intact" /\ tree.drift = {} /\ tree.model = "pinned"
    /\ \A p \in Programs : Agrees(tree, tree.source, p)
    /\ Passing(tree, tree.source) = CovRuns
=============================================================================
