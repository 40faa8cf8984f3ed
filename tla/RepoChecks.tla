----------------------------- MODULE RepoChecks -----------------------------
(***************************************************************************)
(* The checks of ci/l0.sh over a tree. A tree maps a path to the content   *)
(* of the file, a sequence of tokens; a path that is not in its domain is  *)
(* a file that is not there.                                               *)
(*                                                                         *)
(*   RTL files             the tokens of RtlScan                           *)
(*   rtl/files.f           one path a line, "" for a comment               *)
(*   checks.cfg            sections and read_slang lines                   *)
(*   pragma_allowlist.tsv  one row a line                                  *)
(*   gen_cov_vlt.py        the macros of KNOWN                             *)
(*   check_pragmas.py      the attribute pattern                           *)
(*                                                                         *)
(* An environment says which Verilator and which Sail are found.           *)
(***************************************************************************)
EXTENDS RtlScan

CONSTANTS RtlFiles,       \* the paths under rtl/ that are scanned
          Act4Files,      \* the ELFs, their configuration, run_compliance.sh
          Exported        \* what the manifest says of Act4Files

T(k)              == [k |-> k]
Dir(d, mac)       == [k |-> "dir", d |-> d, mac |-> mac]
Waiver(off, name) == [k |-> "waiver", off |-> off, name |-> name]
Entry(path)       == [prefixed |-> TRUE, path |-> path]

Pinned == [verilator |-> "pinned", sail |-> "pinned"]

RtlOf(tree) == RtlFiles \cap DOMAIN tree

-----------------------------------------------------------------------------
(* gen_cov_vlt.py emit.                                                    *)

rtl_files(tree) == SelectSeq(tree["files.f"], LAMBDA line : line # "")

KnownOf(tree) == ToSet(tree["gen_cov_vlt.py"])

RtlFilesRefuse(tree) == "files.f" \notin DOMAIN tree \/ rtl_files(tree) = << >>

EmitRefuses(tree) ==
  \/ RtlFilesRefuse(tree)
  \/ \E rel \in ToSet(rtl_files(tree)) :
       rel \notin DOMAIN tree \/ Refused(tree[rel], KnownOf(tree))

(* The coverage_off lines of rtl_cov.vlt. *)
Excluded(tree, rel) == runs(sim_only_lines(tree[rel], KnownOf(tree)))

-----------------------------------------------------------------------------
(* check_pragmas.py.                                                       *)

AllowRows(tree) == ToSet(tree["allowlist"])

(* setup_error() of read_allowlist and main. *)
PragmasSetUp(tree) ==
  /\ "allowlist" \in DOMAIN tree /\ tree["allowlist"] # << >>
  /\ \A row \in AllowRows(tree) : row.pairs > 0 /\ row.scope \in {"sim_only", "any"}
  /\ \A i, j \in DOMAIN tree["allowlist"] :
       i # j => \/ tree["allowlist"][i].path # tree["allowlist"][j].path
                \/ tree["allowlist"][i].name # tree["allowlist"][j].name
  /\ RtlOf(tree) # {}

Names(text) == {w.body[1].name : w \in ToSet(waivers(text))}

Events(text, name) ==
  LET ws == waivers(text) IN Select(ws, {w \in ToSet(ws) : w.body[1].name = name})

(* off/on alternate, start with off, end with on. *)
Alternates(events) ==
  /\ Len(events) % 2 = 0
  /\ \A i \in DOMAIN events : events[i].body[1].off <=> i % 2 = 1

RowsFor(tree, rel, name) ==
  {row \in AllowRows(tree) : row.path = rel /\ row.name = name}

(* A slip: the line the waiver ends on is taken for the one it starts on. *)
ScopeHoldsAtStart(tree, rel, row, events) ==
  row.scope = "sim_only" =>
    /\ ~ Refused(tree[rel], KnownOf(tree))
    /\ \A k \in 1 .. Len(events) \div 2 :
         events[2 * k - 1].line \in ToSet(sim_only_lines(tree[rel], KnownOf(tree)))

(* Every line of every sim_only waiver is simulation-only. *)
ScopeHolds(tree, rel, row, events) ==
  row.scope = "sim_only" =>
    /\ ~ Refused(tree[rel], KnownOf(tree))
    /\ \A k \in 1 .. Len(events) \div 2 :
         events[2 * k - 1].line .. events[2 * k].line
           \subseteq ToSet(sim_only_lines(tree[rel], KnownOf(tree)))

WaiversAllowed(tree, rel) ==
  \A name \in Names(tree[rel]) :
    LET events == Events(tree[rel], name) IN
    /\ Alternates(events)
    /\ \E row \in RowsFor(tree, rel, name) :
         /\ Len(events) \div 2 = row.pairs
         /\ ScopeHolds(tree, rel, row, events)

Stale(row, tree) ==
  row.path \notin RtlOf(tree) \/ row.name \notin Names(tree[row.path])

AttrOf(tree) == Head(tree["check_pragmas.py"])

PragmasPass(tree) ==
  /\ PragmasSetUp(tree)
  /\ \A rel \in RtlOf(tree) :
       /\ forbidden(tree[rel]) = {}
       /\ Attributes(tree[rel], AttrOf(tree)) = {}
       /\ WaiversAllowed(tree, rel)
  /\ \A row \in AllowRows(tree) : ~ Stale(row, tree)

-----------------------------------------------------------------------------
(* check_filelists.py.                                                     *)

(* The section a line of checks.cfg belongs to. *)
SectionAt(cfg, i) ==
  LET heads == {j \in 1 .. i : cfg[j].kind = "section"}
  IN  IF heads = {} THEN "none" ELSE cfg[Max(heads)].name

Hits(cfg) ==
  {i \in DOMAIN cfg : cfg[i].kind = "read_slang" /\
                      SectionAt(cfg, i) = "script-sources"}

(* One read_slang line, of prefixed sources, at least one; rtl/files.f has *)
(* the same paths in the same order.                                       *)
FilelistsPass(tree) ==
  /\ ~ RtlFilesRefuse(tree)
  /\ "checks.cfg" \in DOMAIN tree
  /\ LET cfg == tree["checks.cfg"] IN
     /\ Cardinality(Hits(cfg)) = 1
     /\ LET sources == cfg[CHOOSE i \in Hits(cfg) : TRUE].sources IN
        /\ sources # << >>
        /\ \A i \in DOMAIN sources : sources[i].prefixed
        /\ [i \in DOMAIN sources |-> sources[i].path] = rtl_files(tree)

-----------------------------------------------------------------------------
(* The two self-tests: texts and what the scanners must make of them.      *)

Line(tokens) == Append(tokens, T("nl"))
Code         == Line(<< T("word") >>)
On(d, mac)   == Line(<< Dir(d, mac) >>)
IfnSyn       == On("ifndef", "SYNTHESIS")
IfFormal     == On("ifdef", "RISCV_FORMAL")
Else         == On("else", "")
EndIf        == On("endif", "")
Quoted(t)    == Line(<< T("quote"), t, T("quote") >>)
Commented(t) == Line(<< T("//"), t >>)
Blocked(t)   == Line(<< T("/*"), t, T("*/") >>)

GcvSelftest ==
  << << Code \o IfnSyn \o Code \o Code \o EndIf \o Code, << << 3, 4 >> >> >>,
     << IfnSyn \o Code \o Commented(Dir("ifndef", "SYNTHESIS")) \o Code \o EndIf \o Code,
        << << 2, 4 >> >> >>,
     << Code \o Line(<< T("/*") >>) \o IfnSyn \o Line(<< T("*/") >>) \o Code, << >> >>,
     << Code \o Quoted(Dir("ifndef", "SYNTHESIS")) \o Code, << >> >>,
     << On("ifdef", "SYNTHESIS") \o Code \o Else \o Code \o EndIf, << << 4, 4 >> >> >>,
     << IfnSyn \o Code \o Else \o Code \o EndIf, << << 2, 2 >> >> >>,
     << Code \o IfFormal \o Code \o EndIf \o Code, << >> >>,
     << IfFormal \o IfnSyn \o Code \o EndIf \o EndIf, << >> >>,
     << IfnSyn \o Code \o IfFormal \o Code \o EndIf \o Code \o EndIf,
        << << 2, 2 >>, << 6, 6 >> >> >>,
     << IfFormal \o Code \o On("elsif", "SYNTHESIS") \o Code \o Else \o Code \o EndIf,
        << << 6, 6 >> >> >>,
     << Code \o Line(<< >>) \o IfnSyn \o Code \o Code \o EndIf \o Code,
        << << 4, 5 >> >> >>,
     << IfnSyn \o Code, "REFUSE" >>,
     << Code \o EndIf, "REFUSE" >>,
     << IfnSyn \o Code \o Else \o Code \o Else \o Code \o EndIf, "REFUSE" >>,
     << On("ifdef", "FOO") \o Code \o EndIf, "REFUSE" >>,
     << On("define", "SYNTHESIS") \o Code, "REFUSE" >>,
     << On("include", ""), "REFUSE" >> >>

(* forbidden comments, waivers, attributes. *)
PragmasSelftest ==
  << << Line(<< T("attr"), T("word") >>), 0, 0, 1 >>,
     << Code \o Line(<< T("attr") >>), 0, 0, 1 >>,
     << Line(<< T("word"), T("star") >>), 0, 0, 0 >>,
     << Commented(T("attr")), 0, 0, 0 >>,
     << Blocked(T("attr")), 0, 0, 0 >>,
     << Quoted(T("attr")), 0, 0, 0 >>,
     << Commented(T("forbidden")), 1, 0, 0 >>,
     << Blocked(T("forbidden")), 1, 0, 0 >>,
     << << T("/*"), T("nl"), T("forbidden"), T("nl"), T("*/"), T("nl") >>, 1, 0, 0 >>,
     << Blocked(Waiver(TRUE, "WIDTH")), 0, 1, 0 >>,
     << Commented(T("word")), 0, 0, 0 >>,
     << Line(<< T("quote"), T("//"), T("forbidden"), T("quote") >>), 0, 0, 0 >> >>

GcvCasePasses(case, known) ==
  IF case[2] = "REFUSE" THEN Refused(case[1], known)
  ELSE ~ Refused(case[1], known) /\ runs(sim_only_lines(case[1], known)) = case[2]

(* Computed once for each macro set a tree can have. *)
GcvSelftestPasses ==
  [known \in SUBSET KNOWN |->
     \A i \in DOMAIN GcvSelftest : GcvCasePasses(GcvSelftest[i], known)]

PragmasSelftestPasses ==
  [pattern \in {"no star", "every star"} |->
     \A i \in DOMAIN PragmasSelftest :
       LET case == PragmasSelftest[i] IN
       /\ Cardinality(forbidden(case[1])) = case[2]
       /\ Len(waivers(case[1])) = case[3]
       /\ Cardinality(Attributes(case[1], pattern)) = case[4]]

-----------------------------------------------------------------------------
(* ci/l0.sh: every check runs, whatever the others say.                    *)

(* The part of Verilator's lint a mutant is about. *)
LintPasses(tree) ==
  \A rel \in ToSet(rtl_files(tree)) \cap RtlOf(tree) :
    \A t \in ToSet(strip_comments(tree[rel])) : t.k # "dangling"

(* check_elfs.py, see Compliance: exactly what was exported passes. *)
ElfsPass(tree) ==
  /\ DOMAIN tree \cap Act4Files = DOMAIN Exported
  /\ \A path \in DOMAIN Exported : tree[path] = Exported[path]

Passes(check, tree, env) ==
  CASE check = "guard"            -> env.verilator = "pinned"
    [] check = "sail-guard"       -> env.sail = "pinned"
    [] check = "lint"             -> LintPasses(tree)
    [] check = "covvlt-selftest"  -> GcvSelftestPasses[KnownOf(tree)]
    [] check = "covvlt-emit"      -> ~ EmitRefuses(tree)
    [] check = "pragmas-selftest" -> PragmasSelftestPasses[AttrOf(tree)]
    [] check = "pragmas"          -> PragmasPass(tree)
    [] check = "filelists"        -> FilelistsPass(tree)
    [] check = "elfs"             -> ElfsPass(tree)

CHECKS == {"guard", "sail-guard", "lint", "covvlt-selftest", "covvlt-emit",
           "pragmas-selftest", "pragmas", "filelists", "elfs"}

(* The [FAIL] lines of the summary; L0 exits 0 iff there are none. *)
L0Fails(tree, env) == {check \in CHECKS : ~ Passes(check, tree, env)}
=============================================================================
