----------------------------- MODULE MCMutateL0 -----------------------------
(***************************************************************************)
(* A tree with one file of each kind: alu.sv holds a conditional with two  *)
(* branches, muldiv.sv a waiver inside one that synthesis drops.           *)
(***************************************************************************)
EXTENDS MutateL0

MCRtlFiles  == {"alu.sv", "muldiv.sv"}
MCAct4Files == {"I-add.elf", "I-mutant.elf", "link.ld", "run_compliance.sh"}

MCExported ==
     "I-add.elf"         :> << "7f454c46" >>
  @@ "link.ld"           :> << "ram" >>
  @@ "run_compliance.sh" :> << "EXCLUDE=Sm,InterruptsSm", "TOTAL=47" >>

MCCheckouts ==
  { MCExported
    @@ "alu.sv"          :> On("ifdef", "SYNTHESIS") \o Code \o Else \o Code \o EndIf
                              \o Line(END)
    @@ "muldiv.sv"       :> Code \o IfnSyn \o LintOff("SYNC") \o Code \o LintOn("SYNC")
                              \o EndIf
    @@ "files.f"         :> << "", "alu.sv", "muldiv.sv" >>
    @@ "checks.cfg"      :> << [kind |-> "section", name |-> "script-sources"],
                               ReadSlang(<< "alu.sv", "muldiv.sv" >>),
                               [kind |-> "section", name |-> "verilog-files"] >>
    @@ "allowlist"       :> << [path |-> "muldiv.sv", name |-> "SYNC", pairs |-> 1,
                                scope |-> "sim_only"] >>
    @@ "gen_cov_vlt.py"  :> << "SYNTHESIS", "RISCV_FORMAL" >>
    @@ "check_pragmas.py" :> << "no star" >> }

MCEditLines ==
  { Code, IfnSyn, IfFormal, Else, EndIf, On("elsif", "SYNTHESIS"), On("ifdef", "FOO"),
    On("define", "SYNTHESIS"), LintOff("SYNC"), LintOn("SYNC"),
    Commented(T("forbidden")),
    Line(<< T("/*") >>), Line(<< T("*/") >>),
    Line(<< T("word"), T("quote") >>), Line(<< T("quote"), T("//"), T("backslash") >>) }
=============================================================================
