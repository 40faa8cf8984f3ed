------------------------------ MODULE MutateL0 ------------------------------
(***************************************************************************)
(* ci/mutate_l0.py: shows that every check of L0 can fail, on copies of a  *)
(* working tree a developer goes on editing.                               *)
(***************************************************************************)
EXTENDS RepoChecks, TLC

CONSTANTS Checkouts,      \* the trees development starts from
          EditedFiles,    \* the RTL files the developer edits
          EditLines,      \* the lines the developer may add
          MaxEdits,       \* bound: lines added or removed
          MutateFrom      \* bound: those before or during a run of mutate_l0.py

ASSUME MutateL0Assumption ==
  /\ MaxEdits \in Nat /\ MutateFrom \in 0 .. MaxEdits /\ EditedFiles \subseteq RtlFiles
  /\ EditLines \subseteq Seq(Token)
  /\ \A t \in Checkouts : \A rel \in RtlFiles : rel \in DOMAIN t /\ t[rel] \in Seq(Token)

VARIABLES tree,           \* the working tree, REPO
          edits,          \* edits so far
          run             \* mutate_l0.py

vars == << tree, edits, run >>

-----------------------------------------------------------------------------
(* The edits of a mutant.                                                  *)

Text(path, old, new, count) ==
  [kind |-> "text", path |-> path, old |-> old, new |-> new, count |-> count]
Delete(path)      == [kind |-> "delete", path |-> path]
AppendTo(path, t) == [kind |-> "append", path |-> path, new |-> t]
CopyOf(path, src) == [kind |-> "copy", path |-> path, src |-> src]

END == << T("endmodule") >>
BeforeEnd(tokens) == << Text("alu.sv", END, tokens \o END, 1) >>
ReadSlang(paths) ==
  [kind |-> "read_slang", sources |-> [i \in DOMAIN paths |-> Entry(paths[i])]]
LintOff(name) == Blocked(Waiver(TRUE, name))
LintOn(name)  == Blocked(Waiver(FALSE, name))

Mutant(id, want, changes) ==
  [id |-> id, want |-> want, edits |-> changes, env |-> Pinned]
ToolMutant(id, want, env) ==
  [id |-> id, want |-> want, edits |-> << >>, env |-> env]

(* special_env: what is found instead of the pinned Verilator or Sail.     *)
Verilator(v) == [Pinned EXCEPT !.verilator = v]
Sail(s)      == [Pinned EXCEPT !.sail = s]

MUTANTS ==
  << Mutant("P1", "pragmas", BeforeEnd(Blocked(T("forbidden")))),
     Mutant("P2", "pragmas", BeforeEnd(Commented(T("forbidden")) \o Commented(T("forbidden")))),
     Mutant("P3", "pragmas", BeforeEnd(LintOff("WIDTH") \o LintOn("WIDTH"))),
     Mutant("P4", "pragmas", << Text("muldiv.sv", LintOff("SYNC"), << >>, 1),
                                Text("muldiv.sv", LintOn("SYNC"), << >>, 1) >>),
     Mutant("P5", "pragmas", << Text("muldiv.sv", IfnSyn, << >>, 1),
                                Text("muldiv.sv", LintOn("SYNC") \o EndIf, LintOn("SYNC"), 1) >>),
     Mutant("P6", "pragmas", << Text("muldiv.sv", LintOn("SYNC"), << >>, 1) >>),
     Mutant("P7", "pragmas", << Text("muldiv.sv", LintOn("SYNC"),
                                LintOn("SYNC") \o LintOff("SYNC") \o LintOn("SYNC"), 1) >>),
     Mutant("P8", "pragmas", BeforeEnd(Line(<< T("/*") >>) \o Line(<< T("forbidden") >>)
                                         \o Line(<< T("*/") >>))),
     Mutant("F1", "filelists", << Text("checks.cfg", << ReadSlang(<< "alu.sv", "muldiv.sv" >>) >>,
                                       << ReadSlang(<< "muldiv.sv", "alu.sv" >>) >>, 1) >>),
     Mutant("F2", "filelists", << Text("checks.cfg", << ReadSlang(<< "alu.sv", "muldiv.sv" >>) >>,
                                       << ReadSlang(<< "alu.sv" >>) >>, 1) >>),
     Mutant("F3", "filelists", << Text("files.f", << "alu.sv" >>, << "alu.sv", "muldiv.sv" >>, 1) >>),
     Mutant("L1", "lint", BeforeEnd(Line(<< T("dangling") >>))),
     Mutant("C1", "covvlt-emit", BeforeEnd(On("ifdef", "MUT_UNKNOWN") \o EndIf)),
     Mutant("C2", "covvlt-selftest",
            << Text("gen_cov_vlt.py", << "SYNTHESIS", "RISCV_FORMAL" >>, << "SYNTHESIS" >>, 1) >>),
     ToolMutant("G1", "guard", Verilator("other")),
     ToolMutant("G2", "sail-guard", Sail("missing")),
     ToolMutant("G3", "sail-guard", Sail("/bin/true")),
     ToolMutant("G4", "sail-guard", Sail("wrapper")),
     Mutant("P9", "pragmas", BeforeEnd(Line(<< T("attr"), T("word") >>))),
     Mutant("S1", "pragmas-selftest",
            << Text("check_pragmas.py", << "no star" >>, << "every star" >>, 1) >>),
     Mutant("E1", "elfs", << AppendTo("I-add.elf", "00") >>),
     Mutant("E2", "elfs", << Delete("I-add.elf") >>),
     Mutant("E3", "elfs", << CopyOf("I-mutant.elf", "I-add.elf") >>),
     Mutant("E4", "elfs", << AppendTo("link.ld", "drift") >>),
     Mutant("E5", "elfs", << Text("run_compliance.sh", << "TOTAL=47" >>, << "TOTAL=48" >>, 1) >>),
     Mutant("E6", "elfs", << Text("run_compliance.sh", << "EXCLUDE=Sm,InterruptsSm" >>,
                                  << "EXCLUDE=Sm" >>, 1) >>) >>

-----------------------------------------------------------------------------
(* apply and its exact-count assertion.                                    *)

(* text.count(old), for an old that does not overlap itself. *)
Occurrences(text, old) ==
  {i \in 1 .. Len(text) - Len(old) + 1 : SubSeq(text, i, i + Len(old) - 1) = old}

(* text.replace(old, new), for an old that occurs once. *)
Replaced(text, old, new) ==
  IF Occurrences(text, old) = {} THEN text
  ELSE ReplaceSubSeqAt(Min(Occurrences(text, old)), new, old, text)

Without(files, path) == [p \in DOMAIN files \ {path} |-> files[p]]

(* A slip: any number of occurrences will do. *)
ApplicableAnyCount(files, e) ==
  CASE e.kind = "text"   -> e.path \in DOMAIN files
    [] e.kind = "delete" -> e.path \in DOMAIN files
    [] e.kind = "append" -> e.path \in DOMAIN files
    [] e.kind = "copy"   -> e.path \notin DOMAIN files

Applicable(files, e) ==
  CASE e.kind = "text"   -> /\ e.path \in DOMAIN files
                            /\ Cardinality(Occurrences(files[e.path], e.old)) = e.count
                            /\ e.count > 0 /\ e.new # e.old
    [] e.kind = "delete" -> e.path \in DOMAIN files
    [] e.kind = "append" -> e.path \in DOMAIN files
    [] e.kind = "copy"   -> e.path \notin DOMAIN files

Applied(files, e) ==
  CASE e.kind = "text"   -> [files EXCEPT ![e.path] = Replaced(@, e.old, e.new)]
    [] e.kind = "delete" -> Without(files, e.path)
    [] e.kind = "append" -> [files EXCEPT ![e.path] = Append(@, e.new)]
    [] e.kind = "copy"   -> e.path :> files[e.src] @@ files

(* The edits of a mutant in order; the first that does not apply stops it. *)
Edited(files, changes) ==
  Fold(LAMBDA r, e : IF r.err \/ ~ Applicable(r.tree, e)
                         THEN [r EXCEPT !.err = TRUE]
                         ELSE [r EXCEPT !.tree = Applied(r.tree, e)],
           [tree |-> files, err |-> FALSE], changes)

Caught(files, m) ==
  LET copy == Edited(files, m.edits) IN
  ~ copy.err /\ m.want \in L0Fails(copy.tree, m.env)

-----------------------------------------------------------------------------
(* The developer adds or removes a line of an RTL file, at any time.       *)

LineEnds(text) == {i \in DOMAIN text : text[i].k = "nl"}

Edit ==
  /\ edits < IF run.next = 0 THEN MaxEdits ELSE MutateFrom
  /\ edits' = edits + 1
  /\ \E path \in EditedFiles :
       LET text == tree[path] IN
       \E i \in {0} \cup LineEnds(text) :
         \/ \E line \in EditLines :
              tree' = [tree EXCEPT ![path] =
                         SubSeq(@, 1, i) \o line \o SubSeq(@, i + 1, Len(@))]
         \/ \E j \in LineEnds(text) :
              /\ i < j /\ \A m \in LineEnds(text) : m <= i \/ j <= m
              /\ tree' = [tree EXCEPT ![path] =
                            SubSeq(@, 1, i) \o SubSeq(@, j + 1, Len(@))]
  /\ run' = [run EXCEPT !.disturbed = run.next # 0]

(* A slip: a baseline that fails is reported and forgotten. *)
BaselineReported ==
  /\ run.next = 0 /\ edits <= MutateFrom
  /\ run' = [next |-> 1, ok_all |-> TRUE, disturbed |-> FALSE, verdict |-> "none"]
  /\ UNCHANGED << tree, edits >>

(* The snapshot of the working tree and L0 in the copy, unmodified. *)
Baseline ==
  /\ run.next = 0 /\ edits <= MutateFrom
  /\ run' = [next |-> 1, ok_all |-> L0Fails(tree, Pinned) = {},
             disturbed |-> FALSE, verdict |-> "none"]
  /\ UNCHANGED << tree, edits >>

(* A fresh snapshot, the edits, L0; an edit that does not apply is an      *)
(* error and no catch.                                                     *)
RunMutant ==
  /\ run.next \in DOMAIN MUTANTS /\ run.verdict = "none"
  /\ run' = [run EXCEPT !.next = @ + 1,
                        !.ok_all = @ /\ Caught(tree, MUTANTS[run.next])]
  /\ UNCHANGED << tree, edits >>

(* A slip: the summary is taken for one more mutant. *)
SummaryRunsOn ==
  /\ run.next = Len(MUTANTS) + 1 /\ run.verdict = "none"
  /\ run' = [run EXCEPT !.next = @ + 1,
                        !.verdict = IF run.ok_all THEN "PASS" ELSE "FAIL"]
  /\ UNCHANGED << tree, edits >>

Summary ==
  /\ run.next = Len(MUTANTS) + 1 /\ run.verdict = "none"
  /\ run' = [run EXCEPT !.verdict = IF run.ok_all THEN "PASS" ELSE "FAIL"]
  /\ UNCHANGED << tree, edits >>

Init ==
  /\ tree \in Checkouts
  /\ edits = 0
  /\ run = [next |-> 0, ok_all |-> FALSE, disturbed |-> FALSE, verdict |-> "none"]

Next == Edit \/ Baseline \/ RunMutant \/ Summary

Spec == Init /\ [][Next]_vars

-----------------------------------------------------------------------------
(* The rule the scanners implement, stated over all the lines at once.     *)

LinesOf(text) == FirstTokens(text)

IsDir(lines, i, kinds) == lines[i].k = "dir" /\ lines[i].d \in kinds

Count(lines, i, kinds) == Cardinality({j \in 1 .. i - 1 : IsDir(lines, j, kinds)})

(* How many conditionals are open before line i. *)
Depth(lines, i) == Count(lines, i, Openers) - Count(lines, i, {"endif"})

(* The conditionals line i is inside of, each by the line that opens it. *)
Enclosing(lines, i) ==
  {o \in 1 .. i - 1 : /\ IsDir(lines, o, Openers)
                      /\ \A m \in o + 1 .. i : Depth(lines, m) > Depth(lines, o)}

(* The branches of conditional o that begin before line i. *)
Branches(lines, o, i) ==
  {b \in o .. i - 1 : \/ b = o
                      \/ /\ IsDir(lines, b, {"else", "elsif"})
                         /\ Depth(lines, b) = Depth(lines, o) + 1}

(* A preprocessor keeps a line iff, in every conditional around it, its    *)
(* branch is the first whose condition holds.                              *)
Compiled(lines, i, c) ==
  \A o \in Enclosing(lines, i) :
    LET bs == Branches(lines, o, i) IN
    {b \in bs : Holds(lines[b], c)} = {Max(bs)}

SimulationOnly(lines) ==
  {i \in DOMAIN lines : /\ lines[i].k # "dir"
                        /\ Compiled(lines, i, "cov") /\ ~ Compiled(lines, i, "syn")}

(* What gen_cov_vlt.py:21-27 says makes it refuse. *)
MustRefuse(lines) ==
  \/ \E i \in DOMAIN lines :
       \/ IsDir(lines, i, {"include"})
       \/ IsDir(lines, i, {"define", "undef"}) /\ lines[i].mac \in KNOWN
       \/ IsDir(lines, i, Conditionals) /\ lines[i].mac \notin KNOWN
       \/ IsDir(lines, i, {"else", "elsif", "endif"}) /\ Depth(lines, i) = 0
       \/ /\ IsDir(lines, i, {"else", "elsif"})
          /\ \E o \in Enclosing(lines, i) : \E b \in Branches(lines, o, i) :
               /\ Depth(lines, o) = Depth(lines, i) - 1
               /\ IsDir(lines, b, {"else"})
  \/ Depth(lines, Len(lines) + 1) # 0

(* Every string closes on its line: no end of a line is inside a string. *)
StringsClose(text) ==
  \A i \in DOMAIN text :
    text[i].k = "nl" => Modes(text)[i] \notin {"string", "escape"}

(* Warnings of this name are off at token i: the last waiver, in a comment *)
(* that says nothing before it, says so.                                   *)
LintIsOff(text, modes, name, i) ==
  LET before == {j \in 1 .. i :
                   /\ text[j].k = "waiver" /\ text[j].name = name
                   /\ \E o \in 1 .. j - 1 :
                        /\ modes[o] = "code" /\ text[o].k \in {"//", "/*"}
                        /\ \A m \in o + 1 .. j : modes[m] # "code"
                        /\ \A m \in o + 1 .. j - 1 : text[m].k = "nl"}
  IN  before # {} /\ text[Max(before)].off

PhysicalLine(text, i) == LineCount(SubSeq(text, 1, i - 1))

-----------------------------------------------------------------------------
(* The type of the state. *)
MutateTypeOK ==
  /\ RtlFiles \subseteq DOMAIN tree
  /\ edits \in 0 .. MaxEdits
  /\ run.next \in 0 .. Len(MUTANTS) + 1
  /\ run.ok_all \in BOOLEAN /\ run.disturbed \in BOOLEAN
  /\ run.verdict \in {"none", "PASS", "FAIL"}

(* gen_cov_vlt.py refuses exactly what it must, and otherwise excludes     *)
(* exactly the lines that coverage compiles and synthesis does not, in     *)
(* ranges that neither touch nor overlap (gen_cov_vlt.py:10-27).           *)
ExcludesTheRule ==
  \A rel \in EditedFiles :
    LET text == tree[rel]  lines == LinesOf(text)
        ranges == runs(sim_only_lines(text, KNOWN)) IN
    /\ Refused(text, KNOWN) <=> MustRefuse(lines)
    /\ ~ MustRefuse(lines) =>
         /\ UNION {r[1] .. r[2] : r \in ToSet(ranges)} = SimulationOnly(lines)
         /\ \A i \in 2 .. Len(ranges) : ranges[i][1] > ranges[i - 1][2] + 1

(* Stripping comments and strings moves no line, as long as every string   *)
(* closes on its line: the numbers the exclusions are made of are those of *)
(* the file.                                                               *)
LinesStayInPlace ==
  \A rel \in EditedFiles :
    StringsClose(tree[rel]) =>
      LineCount(strip_comments(tree[rel])) = LineCount(tree[rel])

(* When check_pragmas.py passes, a warning whose waiver is scoped sim_only *)
(* is on for every token that synthesis compiles, and is on again at the   *)
(* end of the file: two scanners, of comments and of conditionals, agree   *)
(* about the lines (check_pragmas.py:40-48).                               *)
WaiversStayInSimulation ==
  PragmasPass(tree) =>
    \A row \in AllowRows(tree) :
      LET text == tree[row.path]  modes == Modes(text)  lines == LinesOf(text) IN
      /\ ~ LintIsOff(text, modes, row.name, Len(text))
      /\ row.scope = "sim_only" /\ StringsClose(text) =>
           \A i \in DOMAIN text :
             /\ Kept(text, modes, i) /\ text[i].k \notin {"nl", "dir"}
             /\ LintIsOff(text, modes, row.name, i)
             => ~ Compiled(lines, PhysicalLine(text, i), "syn")

(* A PASS of mutate_l0.py over a tree that nobody touched meanwhile means  *)
(* that L0 accepts the tree and that every mutant applies and turns its    *)
(* own check, which passes on the tree, into a failure.                    *)
PassIsConclusive ==
  run.verdict = "PASS" /\ ~ run.disturbed =>
    /\ L0Fails(tree, Pinned) = {}
    /\ \A i \in DOMAIN MUTANTS :
         LET m == MUTANTS[i]  copy == Edited(tree, m.edits) IN
         /\ copy.tree # tree \/ m.env # Pinned
         /\ ~ Passes(m.want, copy.tree, m.env)

(* What gen_cov_vlt.py:64-65 says of strip_comments: it keeps every        *)
(* newline, so line numbers are preserved exactly.                         *)
KeepsEveryNewline ==
  \A rel \in EditedFiles : LineCount(strip_comments(tree[rel])) = LineCount(tree[rel])
=============================================================================
