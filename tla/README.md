# rv32-sky: models, checks and proofs

TLA+ models of the RV32I_Zicsr_Zifencei core in `rtl/`, of its multiply/divide unit
and of the scripts that decide whether a change to it is accepted (`ci/`, `tools/`,
`verif/`); the TLC runs that check them on small instances, and TLAPS proofs for
instances of every size the modules admit. A file name without a directory is that
of one source file; paths are relative to `src/`.

## 1. Inventory

| Component (source) | State it keeps | Operations | Talks to |
|---|---|---|---|
| `core/rv32_core.sv` | `id_ex_q`, `ex_mem_q`, `mem_wb_q`, the registered redirect, the trace registers | one clock edge; asynchronous reset | everything below |
| `core/if_stage.sv` | `pc_q`, `if_id` | advance, hold (stall), redirect, flush | TCM port A, redirect |
| `core/hazard_unit.sv` | none | forwarding selects, load-use stall | all pipeline registers |
| `core/decoder.sv`, `core/imm_gen.sv` | none | decode, immediates, legality | ID |
| `core/alu.sv` | none | eleven operations, branch comparison | EX |
| `core/lsu.sv` | none | byte lanes, extension, alignment | MEM, TCM port B |
| `core/regfile.sv` | x1..x31 | two reads, one write, read-first | ID, WB |
| `core/csr.sv` | mstatus bits, mie, mtvec, mscratch, mepc, mcause, mtval, mcycle, minstret | read, RW/RS/RC, trap entry, mret, count | EX |
| `mem/tcm.sv` | the memory array | fetch, load, byte-enabled store | IF, MEM |
| `core/muldiv.sv`, `mul_unit.sv`, `div_unit.sv` | handshake and iteration state | accept, iterate, deliver | nothing yet (not instantiated) |
| RVFI block of `rv32_core.sv` | shadow registers, order and intr | observe | formal tools |
| `sail/run_lockstep.sh`, `sail/compare.py` | traces in `~/work` | delete, run Sail, judge it, run the core, compare | Sail, core harness |
| `coverage/run_coverage.sh`, `covdat.py`, `classify_toggles.py` | data files, `merged.dat` | run, merge, gate, classify | harnesses, `rtl/files.f` |
| `decoder/gen_ref.py`, `tb_decoder.cpp` | `ref_cases.h` | encode, expect, compare | assembler, decoder |
| `rv32sky/gen_act4_sail_config.py`, `run_compliance.sh`, `export_elfs.py`, `check_elfs.py` | `sail.json`, the work tree, the committed programs, their manifest | derive, build, export, check | Sail, ACT4, people |
| `gen_cov_vlt.py`, `check_pragmas.py`, `check_filelists.py`, `l0.sh` | none | scan the RTL, decide | the tree |
| `l1.sh`, `build_sw_tests.sh` | build directories, `sw/tests/*.elf` | clean, five checks | all of the above |
| `mutate_l0.py`, `mutate_l1.py` | snapshots of the tree | mutate, run, judge | L0, L1, people |
| `fold_equiv/folds.py` | the sources it rewrites | check anchors, write file by file | formal tools |

What is hard in the core is not one handler but what several stages do in the same
cycle. Up to five instructions are in flight and
 * an operand may have three homes (MEM, WB, register file) of different age;
 * a load's value exists one stage too late, a jump's link value never exists in
   `alu_result` at all, and both are reachable by a forwarding path;
 * a redirect is seen in one cycle by ID and in the next by IF, and may meet a
   stall in either;
 * a trapping instruction must retire in the trace and act nowhere else;
 * CSRs are read and written in EX, stores take effect in MEM, registers in WB,
   and yet the program must see one order;
 * memory is unified: a store can hit an instruction already fetched;
 * reset is asynchronous, the memory is not reset, and a store can be in MEM.

The multiply/divide unit is hard in another way: three state machines share one
clock and one set of operand ports, a one-cycle pulse is all that says an answer
is there, and the answer is right only if 16 or 32 iterations lose no bit for any
of 2^64 operand pairs, among them the special cases that skip the iterations.

The scripts are hard because what they say is believed, and each is a verdict about
files that other scripts, earlier runs and people change: a set of programs is
exported in many steps, any of which can refuse or be interrupted; a trace, a
`merged.dat` or a binary of yesterday lies where today's should be; a percentage is
taken over whatever was merged; two hand-written scanners must agree about the
lines of a file; and the scripts that mutate the checks are themselves checks that
may pass for the wrong reason. The comments of `ci/` and `verif/` record a dozen
silent passes of this kind.

What makes each part correct: the core implements a machine that executes one
instruction at a time (`ISA`); its trace is that machine's trace; no bubble acts;
no misaligned address is fetched or accessed; EX never consumes a value that is
not final; stalls and flushes end; counters count; the interrupt-enable stack
returns what it saved; every multiplication and division accepted is answered,
once and with the value the M extension defines; and a PASS of a script is a true
statement about the tree it was given. `PROJECT.json` lists the hazards line by line and the
property aimed at each.

## 2. Modules

    Words ── Alu ─┐
       ├──── Lsu ─┤
       ├ CsrFile ─┼─ Pipeline ── Lockstep ── MCLockstep
    Decoder ──────┤      │           └ INSTANCE ISA
    HazardUnit ───┘                  └ LockstepProofs (with DatapathProofs)
    CsrFile ── CsrUnit ── MCCsrUnit
                  └ CsrUnitProofs (with DatapathProofs)

    MulDivWords ─ MulUnit ──┐
        ├──────── DivUnit ──┼─ MulDiv ── MCMulDiv
        └──────── MulDivRef ┘    │  └ MulDivProofs
                      └ MulDivService (INSTANCE in MulDiv)

    SailConfig ─ Compliance ─ MCCompliance          RtlScan ─ RepoChecks ─ MutateL0 ─ MCMutateL0
                     └ ComplianceProofs                                       └ MutateL0Proofs
    TraceCompare ──────────┐
    CovData ─ ToggleClass ─┼─ Regression ─ MCRegression
    Decoder ─ DecoderRef ──┘      └ RegressionProofs      Decoder ─ ArmFolds ─ ArmFoldsProofs

**Words, Decoder, Alu, Lsu, HazardUnit, CsrFile** are the combinational parts, one
module per source file, pure operators of their inputs. A word is four bytes of
`ByteSize` values: 256 is the real machine, 4 an 8-bit one with the same lanes,
sign bit, wrap-around and alignment. A counter half has `CounterSize` values. An
instruction is the record of its fields with a symbolic major opcode; `Decode`
returns `ctrl_t` field by field and `ImmGen` the five immediates.

**Pipeline** is the clocked core with its memory. Its variables are the flops:

| Variable | Code |
|---|---|
| `pc`, `if_id` | `if_stage.sv` `pc_q`, `if_id` |
| `id_ex`, `ex_mem`, `mem_wb` | `id_ex_q`, `ex_mem_q`, `mem_wb_q` |
| `redirect` | `redirect_valid`, `redirect_pc` (504-512) |
| `regs`, `mem`, `csr` | `regfile.sv`, `tcm.sv`, `csr.sv` |
| `trace` | `mem_wb_pc`, `mem_wb_mem_*` (910-924) |

`Tick` is a posedge with `rst_n` high: every register samples its input at once,
and each input is an operator named after its signal (`Stall`, `Rs1`, `Taken`,
`Trap`, `ExRedirect`, `Poison`, `PcNext`, `IfIdNext`, ...). `Reset` is the negedge
of `rst_n`, possible in every state. The memory holds words and `InstrOf` says
which instruction a word encodes, so a store really can overwrite the program.

**ISA** is the abstract specification: `Step` executes one instruction. Three
allowances are part of it because no sequential machine could hide them. The
cycle counter reads as any value. A fetch may return a word a store has since
replaced, until a `fence.i` (variable `seen`). A reset may lose the youngest
store until it has drained (variable `settled`).

**Lockstep** puts `Pipeline` beside `ISA`, as `verif/sail` puts the core beside
Sail. The commit point is the edge where a valid instruction leaves EX; the
mapping completes the work of the instructions in MEM and WB (`ArchReg`,
`MemNext`) and takes `ArchPc` from the oldest instruction that has not left EX.
History variables never constrain the core: `seen`, the retirement records ISA
predicts (`expected`), and the edges since an instruction was in EX (`bubbles`).

**CsrUnit** clocks `csr.sv` alone with inputs the pipeline does not combine: every
interrupt pin, and a trap in the cycle of a CSR write, as `verif/uvm/env_csr`
drives it. Histories keep the two counters as plain numbers, what the trap stack
should hold, and the last value written to mepc.

**MulUnit, DivUnit** are `mul_unit.sv` and `div_unit.sv`: the record of a unit's
registers, one operator per FSM state (`MulLoad`, `MulIterate`, `DivLoad`,
`DivIterate`, ...) and one clock edge (`MulNext`, `DivNext`), which registers the
operands whenever `start` is high, whatever the state. Words have `XLEN` bits and
the double registers twice as many; only the iteration counts depend on `XLEN`.

**MulDiv** is `muldiv.sv` with both units on one clock. `md` holds `state_q`,
`is_div_q`, `result_q`; `Edge` updates all three machines at once. `Accept` is an
edge with `valid_i && ready_o`; in every other edge (`Work`) the ports carry any
of `Disturbances`, `valid_i` may already ask for the next request and `ready_i` is
free. `Reset` may strike at any time. `compute_cycles` counts edges as the monitor of
`verif/uvm/agents/muldiv_agent` does, from the accept to the first `valid_o`.

**MulDivRef** is `muldiv_ref`, the reference model of `verif/uvm/env_muldiv`, and
**MulDivService** the abstract specification: one request is accepted, answered
with `MuldivRef` of it, held until taken. `MulDiv` implements it with the request
mapped to the operand registers of the unit `is_div_q` selects (`KeepsPromise`).

**SailConfig** is the decision part of `gen_act4_sail_config.py`: what it refuses
(`Accepted`, one conjunct per `die`) and what it writes (`Derived`). **Compliance**
is the life of the committed ACT4 set. A program's content is the record of what it
was built from, so staleness can be seen; a file's content stands for its hash.
`ExportStart`, `RemoveOld`, `AskTools` / `ToolsRefuse`, `Copy`, `Verify` and
`WriteManifest` are the steps of `export_elfs.py` in their order, each with its
refusals; `Crash` may come between any two, and a crash in `WriteManifest` leaves a
prefix of the manifest whose last line may be cut inside a name. People edit the
configurations, the override and `run_compliance.sh`, and damage committed files, up
to `MaxEvents` times. `CheckElfs` is the verdict of `check_elfs.py` on any state.

**RtlScan** holds both scanners on a text of tokens: comment delimiters, quotes,
backslashes, newlines, directives. `strip_comments` and `sim_only_lines` are those of
`gen_cov_vlt.py`, `comments`, `waivers` and `forbidden` those of `check_pragmas.py`,
which scans comments on its own. Words that neither scanner looks into are one
token. **RepoChecks** makes each check of `l0.sh` an operator on a tree of such texts,
self-tests included, and **MutateL0** is `mutate_l0.py`: `Baseline`, one `RunMutant`
per mutant (all of its `MUTANTS`), `Summary`, each on its own snapshot, and `Edit`
by whoever works in the tree, which adds or removes a line of the two RTL files.

**TraceCompare** is `compare.py` with the two printers it reads; **CovData** the
parsing and union of `covdat.py`, including which keys make a point, and what
`verilator_coverage --write` merges, record by record and file by file (`MergeLine`,
`MergeFile`); **ToggleClass** the thirteen rules of `classify_toggles.py`; **DecoderRef**
the cases of `gen_ref.py`, encoded field by field, and what the harness compares with
them: an immediate generator is the wire of each bit in each format, `imm_gen` that of
`imm_gen.sv`, and `HarnessPasses` the comparison of `tb_decoder.cpp`.
**Regression** puts them together: `Clean`, `CheckElfs`, `SwBuild`, the steps of
`run_lockstep.sh` for each program (`DeleteTraces`, `RunSail`, `JudgeSail`, `RunCore`,
`Compare`), `Coverage` and `Classify` are one run of `l1.sh` on a copy of the tree, with
`~/work` and the build products kept across runs; `Interrupt` stops a run anywhere, between
two installations of `SwBuild` too. A binary is a name: `source[p]` of a tree is what the
source of `p` assembles to, `sail[b]` what Sail does with `b`, `core[p]` what the core does
with the tracked `.hex`, and `built.elf[p]` the file that is there, of whichever tree. A
program whose source and `.hex` differ (`drift`) keeps the `.elf` an earlier build left
(`build_sw_tests.sh:37-44`; `Clean` deletes none), Sail runs that file
(`run_lockstep.sh:59-61`), and the run with a second reset takes the address of its
`handler` from it (`RT_PC`, `run_coverage.sh:121-129`).
`RunL1` is a run by hand, `StartMutant`, `EndMutant` and `Summary` are `mutate_l1.py`.
What Sail, the core and the coverage runs do with a tree is part of the tree, and so are
the wires of its immediate generator.

**ArmFolds** is `folds.py`: each edit is a case statement before the fold, the arm
that goes and the selector values that can occur; `apply` writes one file at a time.

**DatapathProofs, LockstepProofs, CsrUnitProofs, MulDivProofs, ComplianceProofs,
MutateL0Proofs, RegressionProofs, ArmFoldsProofs** hold the lemmas and theorems (section 5).

## 3. Runs

All core runs (`data` to `progress`) use `ByteSize = 4` (8-bit words),
`CounterSize = 2` (carry every second retirement; `port_mix` has 4), a TCM of 16
words, and *every* program whose four free words come from a menu of instructions; the rest of the image is fixed: set mtvec, load
a base address, end in `j .`, and a handler that skips the trapping instruction.
Reset can strike at any edge except in `progress`. A second row of a run is a second
menu: its programs are checked as well.

| Run | Menu | Question |
|---|---|---|
| `data` | add, addi, lw twice, sw, sh, csrrw | forwarding, load-use, store data, at every distance |
| | x0 in both roles, sh, lbu, peripheral store, auipc, mcycle | lanes, x0, decode by the top bit |
| | csrr and csrrw minstret, ecall, mret, csrrs/csrrc mstatus, illegal write | counting, trap stack and poison in the pipeline |
| `control` | jal, jalr, beq, bne backwards, lw, addi, ecall | flush windows, misaligned targets, redirect against stall |
| | stores into words 4 and 5, fence.i, jal | what a fetch may return |
| | add, lw, sw, sh, lbu | forwarding and access invariants of the proofs |
| `progress` | add, two lw (to x1 and x2), beq, ebreak, fence.i | termination |
| `port_mix` | port values of `csr.sv` | both counters and the trap stack of the unit on its own |
| `muldiv` | all 8 operations on the 6-bit corners 0, 1, max, min, -1 and 45, twice | both algorithms, answers, cycle counts, handshake, left-over state, back-pressure, reset, liveness |

Four free slots are enough for the interactions in view: an instruction can see
at most the three in front of it (EX, MEM, WB) and be flushed by those same
three, and the fixed words around the slots add a producer in front and a jump
behind. Longer chains arise because backward branches, traps and the handler
re-enter the slots. Eight-bit words keep four distinct lanes, both halves of the
address space and targets with bit 1 set. What the bounds do not reach, a program
whose state after many instructions is special, has no counterpart in the code:
the pipeline keeps no state older than WB except architectural state.

`muldiv` uses `XLEN = 6`, three radix-4 steps and six restoring steps, and serves two
requests (`MaxServed = 2`), so that each kind of operation follows each other kind,
special cases included; 45 makes every step of the multiplier add something. The
ports are disturbed with a division by zero and a multiplication (`Noise`). No unit
keeps anything for more than one request except registers every load overwrites
and `special_q`/`special_val_q`, so two requests show all left-over state there is.
TLC's integers have 32 bits and bound the word to `XLEN < 16`; the
proofs cover `XLEN = 32` and every operand.

The scripts:

| Run | Instance | Question |
|---|---|---|
| `elf_set` | two suites of one program, one hand-written configuration, 11 Sail defaults that meet every refusal, 5 overrides, 5 readings of `run_compliance.sh`, `MaxEvents = 2` | can a set pass that no export completed, or that was built from other files |
| `static_checks` | two RTL files with a conditional and a scoped waiver, all insertions of 15 kinds of line and removals of a line, `MaxEdits = 2` | do the scanners agree with a compiler about lines, and is a PASS of `mutate_l0.py` evidence |
| `regression` | two programs, 7 outcomes of Sail by 9 of the core, 16 data sets, 9 immediate generators (that of `imm_gen.sv` and eight miswired ones, one of which no case tells from it), three rules, four binaries, three sets of `.elf` files to begin with, `MaxChanges = 1` | is each PASS of L1, and of its mutation, about this tree and this run |

Two events in `elf_set` reach an edit on either side of the build and of the export,
and a crash with an edit or a damage before or after it; a third would repeat one of
these, since an export overwrites all that it reads from. In `static_checks` the
snapshots start once an edit may have been made (`MutateFrom = 1`) and one more edit may
come between any two of them; two lines are enough to open and close a comment, a
string, a conditional or a waiver around what the files hold, and `line_numbers`
needs one. `regression` checks a hundred trees, each a good one with one respect
spoiled, or two for the traces, and lets one tree change to any other
(`MaxChanges = 1`) between and during runs, so that the leftovers of each tree meet
each other tree. One of the two programs is also edited in its source only, in its `.hex`
only, or in both, with an `.elf` beside it that is that of the source, of the `.hex`, of
neither (a version without the symbol `handler`), or none. In some of these lockstep
passes on a binary that is not this tree's: run L1, edit the source alone, run L1 again, and
the core agrees with the `.elf` of the first run. `swbuild` fails there, so
`LockstepMeansAgreement` says of lockstep alone that the binary that is there agrees, and
only of lockstep and swbuild together that it is this tree's. The toggle target is scaled
from 90 to 50 (`ToggleTarget`) because the instance has six toggle points in `rtl/core`;
mutant T1 replaces exactly that value by 99 and is not applied to a tree with another.

The 47 ACT4 programs are one coverage run, `act4`: `run_coverage.sh` treats them alike
(147-158), one that fails leaves its file out as any other run does, and files are merged
one by one. `swbuild` also rebuilds the eight probe programs, which neither lockstep nor the
coverage runs; a drift of one of them is a failed `swbuild` and nothing else.
`PassIsConclusive` of `static_checks` speaks of a run that nobody disturbs: `mutate_l0.py`
does not notice an edit between two of its snapshots, and a PASS of such a run speaks of no
one tree.

Addresses in `elf_set` are 0..3 for the memory and 4..7 for the I/O region. The runs of
the scripts may stop (`CHECK_DEADLOCK FALSE`): once the bound on outside events is used
up and no script is running, nothing is left to happen.

Expected violations, each a disagreement between a comment and the code:

| Run | Comment | Code |
|---|---|---|
| `branch_cost` | "a taken branch costs two cycles" (`rv32_core.sv:14-15`, `if_stage.sv:3-4`) | three edges: the redirect is registered (504-512) |
| `mepc_bit1` | "only bit 0 is forced, not bits [1:0]" (`csr.sv:63-65`) | both bits are cleared (201, 223) |
| `refused_export` | "2 refused (nothing written unless stated)" (`export_elfs.py:20`) | the committed set is deleted (90) before the refusals at 94-95, 101, 114 and 131 |
| `line_numbers` | "keeping every newline, so line numbers are preserved exactly" (`gen_cov_vlt.py:64-65`) | the newline that ends an unclosed string is dropped (77-82) |

Observed while modelling, without a run of their own:
 * "The ALU produces the LINK value for jumps" (`rv32_core.sv:388`, `decoder.sv:142`):
   `pc_plus4` in front of `mem_wb_q` does (784), which is why `ForwardsFinalValue` needs
   the redirect.
 * "minimum 2", "maximum 34" compute cycles (`README.md:61-62`): 3 and 35 since the load
   states were added, as `LatencyByClass` counts them.
 * "the two configs cannot drift apart" (`gen_act4_sail_config.py:263-264`): `check_elfs.py`
   binds `sail.json` and not the override it was copied from, so an override edited
   later is not noticed until somebody generates again.
 * With no program at all (`EXPECT_TOTAL=0`) `export_elfs.py` writes the manifest (133) and
   then fails on the minimum of no times (139). `ExportPasses` is about exports that
   complete; `check_elfs.py` refuses the manifest that is left.
 * S3 to S5 of `mutate_l1.py` wrap a fixed path (31), whatever `$SAIL` names: where that
   file does not exist they are caught because nothing runs.
 * `DIRECTIVE` of `gen_cov_vlt.py` sees a directive only at the start of a line; one behind
   other tokens is taken for code. The texts of the models have none.

 * The B and J bit orderings "deserve exhaustive isolated testing" (`imm_gen.sv:3-4`). The
   241 cases of `ref_cases.h` fix the sign, its extension, bit 11 of B and J and the lowest
   bits of I, B and J, but many other bits move together in every case: a generator that exchanges bits 4, 5, 7, 8 and 9 of a branch
   offset in any way passes the harness, and so for S from 3 to 10, J from 4 to 10 and 13
   to 18, and two groups of U. `HarnessSeparates` claims only what the cases do tell
   apart; `ImmGenIsRight` (section 5) is about all the bits of the generator there is.

Each property of a passing run has a mutant, a named operator next to the one it
replaces, that TLC must find violating it.

## 4. Fairness

`LockstepRun` assumes weak fairness of `LockstepTick`, that is, of the clock, and no
reset. Nothing else moves in the core, and no stage waits for anything but the
clock, so this is all the code relies on. 
`muldiv` assumes two things. The clock runs: an edge that is possible
while the unit is busy happens. And an answer on offer is taken at last:
the driver of `env_muldiv` withholds `ready_i` for a bounded number of cycles
(`bp_cycles`, at most 10) and no other user exists in the repository. That the
user asks at all is not assumed. The other runs need no fairness;
the scripts promise nothing about termination, they wait for tools.

## 5. Proofs

`LockstepProofs` proves about the pipeline, for every `ByteSize`, `CounterSize`, memory size, instruction
encoding and set of programs that satisfies the named assumptions:

| Theorem | Property |
|---|---|
| `TypeCorrect` | `TypeOK` |
| `FetchesAreAligned` | `FetchAligned` (the assertions of `if_stage.sv:79-84` and `csr.sv:246-249`) |
| `BubblesStayInert` | `BubblesAreInert` |
| `MemoryIsAligned` | `NoMisalignedAccess` |
| `ForwardingIsFinal` | `ForwardsFinalValue` |

The inductive invariant is `SafetyInv`: the four properties and the types, plus two
facts without which they do not follow from one another. `ExIsDecoded` says what
sits in EX is zero or the decode of the word beside it: it links `mem_size` to the
access kind and rules out a jump that also loads. `StagesAligned` carries the
alignment of the fetch address to EX, from where a trap copies it into mepc.
`ForwardsFinalValue` is preserved because a load in EX stalls its consumer and a
jump in EX squashes whatever would enter EX behind it; a jump that traps instead
is poisoned and so produces nothing. `DatapathProofs` has the lemmas about the
operators: results of the ALU, the lanes and the bitwise halving are words,
`AlignDown` aligns, decode yields a `ctrl_t`, an immediate of a branch is even, a
CSR update keeps the types and the alignment of mtvec and mepc.

And, under the same assumptions, that the core is right:

| Theorem | Property |
|---|---|
| `CoreImplementsISA` | `ImplementsISA`: every edge of the core is one `Step` of `ISA`, a `Drain`, a `Reset`, or changes nothing `ISA` can see |
| `TraceIsArchitectural` | `TraceMatchesISA` |
| `AtMostThreeBubblesEver` | `AtMostThreeBubbles` |

The refinement mapping is not inductive by itself: that the next commit is right depends
on what the pipeline holds, not only on what it maps to. `LockstepInv` says so, stage by
stage, from the back. It contains `SafetyInv`. `StagesInOrder`: an
instruction in ID or EX is followed by the next sequential one, and a registered redirect
finds both empty, so `ArchPc`, read from whichever stage holds the oldest instruction,
cannot depend on which one it is. `BubblesByRefill` bounds the empty edges by how far the
refill has come; the bound of three follows. `ExHoldsInstr`: EX holds the decode of its
word, and the two operands it latched in ID are those the register file holds *now*, so a
read can only be stale towards MEM and WB, which is where forwarding looks.
`FetchesSeen`: each word in flight is one a fetch of its address may return.
`MemMatchesISA` and `TraceMatchesISA`: the instructions in MEM and WB will write back, store and
report what `ISA` predicted three and two edges ago.

The argument follows a committing instruction. Its operands are the architectural ones:
the register file completed by MEM and WB (`ArchReg`) is what the forwarding muxes
deliver, for the youngest producer wins in both. Its traps are those of `ISA` in the same
priority. Its result, once it is in MEM, is the architectural one (`ResultIsArchitectural`;
a load reads a memory in which the older store has drained), its store is the
architectural store, its CSR update that of a file without the cycle counter, and the
place the next instruction comes from is the target, the handler, mepc or the next word.
An edge without a commit only drains MEM. Reset starts `ISA` again, with the youngest store
kept or lost. Changing an operator the argument rests on (the hold of the fetch address,
for one) makes obligations fail.

`ISA` and `Pipeline` call the same `Lsu` operators, so the refinement shows that the
lanes meet in order and not that they are the right ones. `DatapathProofs` shows that
apart, of `lsu.sv` and the write port of `tcm.sv` alone, for every word of every width:
`LoadReadsItsLanes`, a load depends on no lane but those a store of its size writes;
`LoadReturnsStored`, an aligned load after a store returns what was stored, extended, and
no other byte of the word has changed.

`CsrUnitProofs` proves, for every counter width and every set of port values:

| Theorem | Property |
|---|---|
| `MinstretIsCorrect` | `MinstretCounts` |
| `McycleIsCorrect` | `McycleCounts` |
| `HandlersNest` | `HandlerNesting` |

`CsrUnitInv` adds to the two counters the ranges of their halves, without which the carry
is not that of the number, and `TrapStack`: what mie and mpie hold while a handler runs and
after its mret, which `HandlerNesting` only says in part.

`MulDivProofs` proves about the multiply/divide unit, for every even `XLEN` up to 32,
32 included, and every set of requests and disturbances:

| Theorem | Property |
|---|---|
| `MulDivTypeCorrect` | `MulDivTypeOK`: nothing outgrows its register |
| `MultiplierIsExact` | `PartialProduct` |
| `DividerIsExact` | `PartialQuotient` |
| `WrapperWaitsForItsUnit` | `OneUnitRuns` |
| `AnswersAreRight` | `AnswerIsRight` |
| `LatencyIsByClass` | `LatencyByClass` |
| `ImplementsService` | `SafeSpec => Service!SafeSpec`, the safety part of `KeepsPromise` |

Its inductive invariant `IInv` adds three parts to the properties. `MulGood` and
`DivGood` extend the loop invariants by what LOAD latched (signs, the choice of half
or remainder, the special value), which the iterations do not touch and the result
needs. `RightUnit` says that the operation a busy unit holds is one of its own. The
arithmetic is in four lemmas. `Radix4Step`: two bits of the multiplier move from
`mcand * mplier` to `acc`, and as long as bits remain neither register has wrapped.
`RestoringStep`: one bit of the dividend keeps the division identity and a remainder
below the divisor, for the shifted remainder is below twice the divisor.
`DivModUnique`: that identity determines quotient and remainder, hence they are
those of the magnitudes. `NegateMod`: negating the double-width product and taking
a half is the half of the signed product. The bound 32 on `XLEN` is that of the code
and of `Pow2`, a table of the powers there are, whose recurrence is proved by cases.

`ComplianceProofs` proves, for every set of Sail defaults and overrides and every memory
size, that a generated `sail.json` fits the core (`SailJsonClear`, property
`DevicesClearOfRam`). The inductive invariant `SailJsonIsDerived` says where the file
comes from: no step but a run of the generator or its deletion changes it, and
`AcceptedIsClear` shows that what the generator accepts it turns into a
configuration with one memory from address 0, one I/O region, and both devices
inside the second and clear of the first. `TemplatesAreRegions` supplies the two
regions from either of the places they may be found.

It also proves, for every set of programs, suites, settings and configurations and
any number of edits, damages and crashes, that what `check_elfs.py` passes is what the
last completed export wrote (`PassIsExported`, property `PassIsTheLastExport`), hence
built from the present files if the work tree was (`PassIsBuiltFromTheTree`, property
`PassIsFresh`), and the types (`ComplianceTypes`). It assumes that no program has the name
a torn line is given. The invariant `Inv` has two parts besides the types. `ManifestInv`:
a manifest on disk either describes the last completed export, whatever has become of
the files since, or can never pass: it names a program that is not there, names none, or
names fewer than the total it states. It does not mention the files, so neither a
damage nor the next export touches it. `ExportInv`: each copy the running export has
written down is on disk with the hash it wrote down, nothing else is but the copy in
hand, and written and remaining programs are disjoint and add up to the total.
`WholeDescribes` and `CutNeverPasses` show that the one write of the manifest, complete
or cut off at any point, yields a manifest of either kind. Conversely, an export that
completes undisturbed leaves a set that passes (`UndisturbedExportPasses`, property
`ExportPasses`): by `Undisturbed` the settings are still those it read at its start, and no
name is written down twice, so `Matches` holds line by line. The proof found the export of
no programs, which does not complete (section 3).

`ArmFoldsProofs` proves that folding changes no case statement on the values its
selector can take, whatever files have been written (`FoldsPreserve`, by
`GoldOrFolded`: each edit's site is in one of two forms); that the two sites which
rely on unreachable encodings have selectors the decoder confines (`DecodedRange`,
over every instruction); and that each control and each wrong fold which the
equivalence check must reject does differ (`ControlsAreNotVacuous`). There is no TLC
run for it: the state is small and the proof says all.

`MutateL0Proofs` proves about the scanners and about `mutate_l0.py`, for every text of
every RTL file, every allowlist and any number of edits:

| Theorem | Property |
|---|---|
| `ExcludesExactlyTheRule` | `ExcludesTheRule` |
| `WaiversStayInside` | `WaiversStayInSimulation` |
| `StrippingMovesNoLine` | `LinesStayInPlace` |
| `PassesAreConclusive` | `PassIsConclusive` |
| `MutateTypeIsOK` | `MutateTypeOK` |

The state invariants are small: each RTL file stays a text, whatever lines come and go
(`Typed`), and what an undisturbed run has established so far is true of the tree it sees
(`Established`). The work is in the scans, each a fold over a text of any length. The
induction is by the least position at which a claim fails (`LeastNumber`, `Induction`),
and `FoldExists` gives a fold as the sequence of its states. `ScanInv` is what the
one-pass scanner knows in front of a line: its stack holds, in order, the conditionals
that enclose the line, each with whether a branch was taken and is active, and it has
refused iff a line so far had to be. `LineStep` takes it over one line, of whatever kind;
the rule it is compared with looks at all the lines at once and counts openers and closers
(`Depth`). `RunsFacts` turns the lines into ranges with gaps. For the waivers, `EventsFacts`
enumerates those of one name by where their comments open, in order; `OffIsOpen` shows that
where a warning is off, the last of them is an odd one and the next is still to come; and
`CommentLine` that both scanners number its line alike, which is where closed strings are
needed. `RowIsKept` needs that an allowlist names no file and warning twice.

`RegressionProofs` proves about L1 and its mutation, for every set of programs, every set
of trees, traces of any length and any number of edits and interrupted runs:

| Theorem | Property |
|---|---|
| `PassIsAgreement` | `LockstepMeansAgreement` |
| `StandInsAreCaught` | `SailMutantsAreCaught` |
| `MutatePassVouches` | `MutatePassIsHealthy` |
| `RegressionTypeIsOK` | `RegressionTypeOK` |
| `CoverageIsMet` | `CoverageMeansMet` |
| `ClassifiedIsExplained` | `ClassifiedMeansExplained` |
| `HarnessTells` | `HarnessSeparates` |
| `CasesTellApart`, `ImmGenIsRight`, `ReferenceIsImmediate`, `ImmGenPasses` | (about every instruction) |

It assumes of a tree (`RegressionAssumption`) that what Sail does with a binary and the core
with a `.hex` is a sequence of retirements with an exit code, that `$SAIL` names one of the
`Models`, and that no program is named `reset`, `decoder` or `act4`, as the three other
coverage runs are. Of the `.elf` files found at first it assumes nothing but that they are
binaries of programs. Of the coverage data it assumes one thing, `InstancesAgree`: records of two instances
that `build_union` takes for one point differ in the hierarchy alone. That is what "unions
them -- keyed on everything except the hierarchy" (`covdat.py:37-38`) relies on, for
`build_union` reads six keys and the data has others; the data may otherwise be anything,
junk lines and missing keys included. The argument about lockstep has three parts. Reading back: what `compare.py` reads of a
trace is the run that was printed, writes to x0 removed (`SailRoundTrip`, `CoreRoundTrip`,
by induction over the length as in `MutateL0Proofs`; the record that a Sail line opens
and a later line completes is the last of those read so far, `SailRetires`). So a program
that is accepted agrees (`OkMeansAgreement`), and a stand-in for Sail is not accepted on
both a program that ends in success and one that ends in failure (`StandInIsCaught`).
History: the invariant `Inv` says that each verdict is a function of the copy L1 runs in
and the programs built beside it (`ResultsInv`), and so, inside the loop over the programs,
is each trace from the moment it is written (`LoopInv`): what `~/work` held before is
deleted before it can be read. That is why neither an interruption nor an edit between runs
needs a case of its own. Mutation: `MutInv` says what a mutant's copy and its built programs
are, that a baseline which passed vouches for the tree (`Baseline`) and that a mutant which
was caught differs from it (`Caught`). The conclusion that the tree's `$SAIL` is Sail
itself follows because each stand-in a tree could name either leaves no trace, which the
baseline refuses, or is also a mutant: its copy is the tree, which cannot have passed and
failed (`CaughtIsDifferent`).

Coverage. `CovInv` says where the report of a run comes from: `merged.dat` is empty until
the coverage step, then it is what this copy's passing runs wrote, and a PASS of the
coverage step or of the classification is a fact about the copy. The rest is about data
of any length. `Stands` relates merged lines to the set of lines they were merged from:
same keys, no two records alike, a count above 0 iff some line's was. One line keeps it
(`MergeLineStands`), hence a file, hence all files (`MergedStands`), by the induction of
`MutateL0Proofs`; that the recursive sums and merges exist is `FoldExists`. A union that
succeeds then has one point per body of a line and hits it iff some line did
(`MergedReports`): it drops nothing, for `Unique` refuses two records of one instance, and
folds nothing, by `InstancesAgree`. Points and bodies correspond one to one, so the counts
the gate compares (`ReportedCounts`) and the toggles the classification looks at
(`ReportedPoints`) are those of the lines.

The decoder harness. For a wire other than the right one, two cases exist in which the
right bit and that wire disagree: `ICases`, `SCases`, `BCases` and `JCases` list such
pairs, `WiresFound` concludes that a generator that passes takes bits 11 and up of I, S and
B, and 11 and 20 and up of J, from where the architecture does, and `CasesTellApart` that
it is right there for every instruction, cases or not. The generators of the theorem are
those made of wires, every function of the formats into `Wires`; no finite set of cases
tells arbitrary functions apart. `ImmGenIsRight` is about `imm_gen.sv` itself: every field
of an instruction stands in the immediate between others above and below it (`Field`), and
the bits of such a field are its own (`FieldBits`). With `ReferenceIsImmediate`, the same
for the format tables of `gen_ref.py`, the harness raises no false alarm (`ImmGenPasses`).

Model-checked only. `Terminates` and the liveness part of `KeepsPromise`: no installed
prover does liveness under fairness. Every other property of a passing run is proved.

## 6. Not modelled, and why

* The RVFI block: a second set of trace registers for other tools. The core test
  bench with its peripherals and the ACT4 harness: drivers whose verdicts are inputs
  of `Regression`. The SymbiYosys jobs: properties of the same RTL for other tools.
* `gen_cov_vlt.py check`: it compares coverage data with and without the exclusions and
  is run by hand; `ExcludesTheRule` says directly what it samples.
* The reports `summary`, `dump`, `signals` and `diff` of `covdat.py`, and
  `extract_coverage.py`: they print tables for a reader and decide nothing L0 or L1 use.
* Lint and the assembler, compiler, Sail and Verilator themselves: each is an outcome
  that depends on the tree, and its contract is marked external in `PROJECT.json`.
* Two runs of L1 at once: `~/work` is shared by name and the scripts take no lock. The
  repository runs one at a time.
* Texts with a directive behind other tokens on its line, macros with bodies, and
  `include` files' contents (the scanner refuses `include`).
* `a_out_of_range`, `b_out_of_range` of the TCM print messages and drive nothing.
* Interrupts are not taken by this core; `irq_pending` leaves it as an output.
* Compressed instructions are illegal words here, as in the decoder.
* X values: every flop is reset, and memory is initialised before the clock starts.
* Unit-level comments count differently: "17 to 18" for a multiplication
  (`mul_unit.sv:25`) is start to `done`, "34 to 35" for a division is up to
  `valid_o`. Both describe the code, `LatencyByClass` counts the second way.
* The core does not instantiate `muldiv`, so no instruction reaches it; the
  composition does not exist in the code and is not modelled.
* An illegal `jalr` whose target is misaligned raises cause 0 (`rv32_core.sv:440`)
  before cause 2. `ISA` follows the priority that comment states.

## 7. Plan

1. RVFI as a second observer of `Pipeline`: order, intr, masks against the trace.
2. Decoder legality against an independent table of encodings; the ALU against
   reference definitions over all small operands.
3. The end-of-test and reset-twice verdicts of the core test bench.
