----------------------------- MODULE Compliance -----------------------------
(***************************************************************************)
(* The committed set of ACT4 programs: who edits its inputs, the script    *)
(* that builds the programs (run_compliance.sh), the one that copies them  *)
(* into the repository and writes the manifest (export_elfs.py), and the   *)
(* check of every push (check_elfs.py).                                    *)
(*                                                                         *)
(* A file's content stands for its SHA-256. The content of a program       *)
(* is the record of what it was built from.                                *)
(***************************************************************************)
EXTENDS SailConfig, SequencesExt, TLC

CONSTANTS Tests,          \* the test programs ACT4 can generate
          SuiteOf,        \* the directory under tests/ of each
          HandWritten,    \* the files of CONFIGS that are edited by hand
          Revisions,      \* contents of such a file
          Defaults,       \* Sail's default configurations over time
          Overrides,      \* contents of verif/sail/rv32sky.json
          Settings,       \* readings of run_compliance.sh
          Checkout,       \* the tree at the beginning: revision, default,
                          \* override, runc
          MaxEvents       \* bound: edits, damages and crashes

ASSUME ComplianceAssumption ==
  /\ MaxEvents \in Nat
  /\ "test_config.yaml" \in HandWritten /\ "sail.json" \notin HandWritten
  /\ IsFiniteSet(Tests) /\ IsFiniteSet(HandWritten)
  /\ Checkout.revision \in Revisions /\ Checkout.runc \in Settings
  /\ Checkout.override \in Overrides /\ Checkout.default \in Defaults
  /\ Accepted(Checkout.default, Checkout.override)
  /\ \A s \in Settings : s.total \in Nat /\ s.single \in BOOLEAN
  /\ \A d \in Defaults \cup Overrides : d.regions \in Seq(MemoryRegion)
  /\ \A d \in Defaults : \A dev \in DOMAIN d.platform : d.platform[dev] \in Int

VARIABLES config,         \* verif/compliance/rv32sky/<CONFIGS>
          override,       \* verif/sail/rv32sky.json
          runc,           \* EXPECT_TOTAL and EXCLUDE of run_compliance.sh
          work,           \* work/rv32sky/elfs of the ACT4 checkout
          elfs,           \* verif/compliance/rv32sky/elfs without the manifest
          manifest,       \* elfs/MANIFEST.sha256: does it exist, its lines
          export,         \* the running export_elfs.py
          events,         \* edits, damages and crashes so far
          last            \* history: what the last completed export wrote, and
                          \* how the last one ended

vars == << config, override, runc, work, elfs, manifest, export, events, last >>

inputs == << config, override, runc >>

SailJson   == "sail.json"
TestConfig == "test_config.yaml"
CONFIGS    == HandWritten \cup {SailJson}
Absent     == [absent |-> TRUE]
Torn(t)    == [torn |-> t]
TornName   == "a name cut short"
NoManifest == [exists |-> FALSE, lines |-> << >>]

ASSUME TornNameAssumption == TornName \notin Tests

-----------------------------------------------------------------------------
(* run_compliance.sh: rm -rf of the old work tree, then a new one.         *)

(* ACT4 reads every file of CONFIGS and the exclusions. *)
Build(t) == [test |-> t, config |-> config, exclude |-> runc.exclude]

(* --exclude matches directory names exactly. *)
Wanted == {t \in Tests : SuiteOf[t] \notin runc.exclude}

(* The build may fail half-way; nothing of the old tree is left then. *)
Regenerate ==
  \E built \in SUBSET Wanted :
    /\ work' = [t \in built |-> Build(t)]
    /\ UNCHANGED << inputs, elfs, manifest, export, events, last >>

-----------------------------------------------------------------------------
(* The people: edits of the inputs, each bounded by MaxEvents.             *)

Event == events < MaxEvents /\ events' = events + 1

EditConfig ==
  /\ Event
  /\ \E file \in HandWritten, content \in Revisions \cup {Absent} :
       config' = [config EXCEPT ![file] = content]
  /\ UNCHANGED << override, runc, work, elfs, manifest, export, last >>

EditOverride ==
  /\ Event
  /\ override' \in Overrides
  /\ UNCHANGED << config, runc, work, elfs, manifest, export, last >>

EditRunCompliance ==
  /\ Event
  /\ runc' \in Settings
  /\ UNCHANGED << config, override, work, elfs, manifest, export, last >>

(* gen_act4_sail_config.py against the Sail that is installed. *)
GenerateSailConfig ==
  /\ Event
  /\ \E default \in Defaults :
       /\ Accepted(default, override)
       /\ config' = [config EXCEPT ![SailJson] = Derived(default, override)]
  /\ UNCHANGED << override, runc, work, elfs, manifest, export, last >>

(* The set with one program written, whether it was there or not. *)
Put(t, content) ==
  [u \in DOMAIN elfs \cup {t} |-> IF u = t THEN content ELSE elfs[u]]

(* A bad merge or disk: a program lost, altered, or left over. *)
Damage ==
  /\ Event
  /\ export.pc = "idle"
  /\ \E t \in Tests :
       elfs' \in {Restrict(elfs, DOMAIN elfs \ {t}), Put(t, Torn(t))}
  /\ last' = [last EXCEPT !.exit = 0, !.found = << >>]
  /\ UNCHANGED << inputs, work, manifest, export >>

-----------------------------------------------------------------------------
(* export_elfs.py, one file operation per step.                            *)

Idle == [pc |-> "idle"]

Occupied == elfs # << >> \/ manifest.exists

Committed == << elfs, manifest >>

(* refuse(): exit 2, whatever has been written stays. *)
Refuse ==
  /\ export' = Idle
  /\ last' = [last EXCEPT !.exit = 2, !.found = export.found]

(* An exception of Python: the file that is read is not there. *)
Abort ==
  /\ export' = Idle
  /\ last' = [last EXCEPT !.exit = 1]

(* The checks before the first deletion; a refusal here changes nothing. *)
ExportStart ==
  /\ export.pc = "idle"
  /\ runc.single
  /\ Cardinality(DOMAIN work) = runc.total
  /\ \E replace \in BOOLEAN :
       /\ Occupied => replace
       /\ export' = [pc      |-> IF Occupied THEN "remove" ELSE "tools",
                     todo    |-> SetToSeq(DOMAIN work),
                     lines   |-> << >>,
                     total   |-> runc.total,
                     exclude |-> runc.exclude,
                     events  |-> events,
                     found   |-> Committed]
  /\ last' = [last EXCEPT !.exit = 0, !.found = << >>]
  /\ UNCHANGED << inputs, work, elfs, manifest, events >>

(* A slip: the new programs are copied over the old ones. *)
RemoveNothing ==
  /\ export.pc = "remove"
  /\ export' = [export EXCEPT !.pc = "tools"]
  /\ UNCHANGED << inputs, work, elfs, manifest, events, last >>

(* shutil.rmtree deletes the entries one by one, in the order of the disk. *)
RemoveOld ==
  /\ export.pc = "remove"
  /\ \/ /\ \E t \in DOMAIN elfs : elfs' = Restrict(elfs, DOMAIN elfs \ {t})
        /\ UNCHANGED manifest
     \/ manifest.exists /\ manifest' = NoManifest /\ UNCHANGED elfs
  /\ export' = [export EXCEPT
       !.pc = IF elfs' = << >> /\ ~ manifest'.exists THEN "tools" ELSE "remove"]
  /\ UNCHANGED << inputs, work, events, last >>

(* A tool that test_config.yaml does not name once, that cannot be run or  *)
(* has no version line; or a checkout without a commit.                    *)
ToolsRefuse ==
  /\ export.pc = "tools"
  /\ config[TestConfig] # Absent
  /\ Refuse
  /\ UNCHANGED << inputs, work, elfs, manifest, events >>

(* compiler_exe and ref_model_exe of test_config.yaml, and git, answer. *)
AskTools ==
  /\ export.pc = "tools"
  /\ IF config[TestConfig] # Absent
     THEN /\ export' = [export EXCEPT
               !.pc = IF export.todo = << >> THEN "manifest" ELSE "copy"]
          /\ UNCHANGED last
     ELSE Abort
  /\ UNCHANGED << inputs, work, elfs, manifest, events >>

Copy ==
  /\ export.pc = "copy"
  /\ LET t == Head(export.todo) IN
     IF t \in DOMAIN work
     THEN /\ elfs' = Put(t, work[t])
          /\ export' = [export EXCEPT !.pc = "verify"]
          /\ UNCHANGED last
     ELSE Abort /\ UNCHANGED elfs
  /\ UNCHANGED << inputs, work, manifest, events >>

(* A slip: the loop runs once more than there are programs. *)
VerifyOneMore ==
  /\ export.pc = "verify"
  /\ LET t == Head(export.todo) IN
     \/ /\ t \in DOMAIN work /\ elfs[t] = work[t]
        /\ export' = [export EXCEPT
             !.pc    = IF Len(export.todo) = 0 THEN "manifest" ELSE "copy",
             !.todo  = Tail(export.todo),
             !.lines = Append(@, [kind |-> "file", name |-> t, hash |-> elfs[t]])]
        /\ UNCHANGED last
     \/ t \in DOMAIN work /\ elfs[t] # work[t] /\ Refuse
     \/ t \notin DOMAIN work /\ Abort
  /\ UNCHANGED << inputs, work, elfs, manifest, events >>

(* The hash of the copy against that of the source as it is now. *)
Verify ==
  /\ export.pc = "verify"
  /\ LET t == Head(export.todo) IN
     \/ /\ t \in DOMAIN work /\ elfs[t] = work[t]
        /\ export' = [export EXCEPT
             !.pc    = IF Len(export.todo) = 1 THEN "manifest" ELSE "copy",
             !.todo  = Tail(export.todo),
             !.lines = Append(@, [kind |-> "file", name |-> t, hash |-> elfs[t]])]
        /\ UNCHANGED last
     \/ t \in DOMAIN work /\ elfs[t] # work[t] /\ Refuse
     \/ t \notin DOMAIN work /\ Abort
  /\ UNCHANGED << inputs, work, elfs, manifest, events >>

(* A slip: the configurations that are generated are not recorded. *)
ManifestLinesHandWrittenOnly ==
  << [kind |-> "exclude", value |-> export.exclude],
     [kind |-> "total", value |-> export.total] >>
  \o [i \in 1 .. Cardinality(HandWritten) |->
        [kind |-> "config", name |-> SetToSeq(HandWritten)[i],
         hash |-> config[SetToSeq(HandWritten)[i]]]]
  \o export.lines

(* head + lines: the settings read at the start, the hashes taken now. *)
ManifestLines ==
  << [kind |-> "exclude", value |-> export.exclude],
     [kind |-> "total", value |-> export.total] >>
  \o [i \in 1 .. Cardinality(CONFIGS) |->
        [kind |-> "config", name |-> SetToSeq(CONFIGS)[i],
         hash |-> config[SetToSeq(CONFIGS)[i]]]]
  \o export.lines

(* The report that follows asks for the oldest program: an exception if    *)
(* there is none.                                                          *)
WriteManifest ==
  /\ export.pc = "manifest"
  /\ IF \E file \in CONFIGS : config[file] = Absent
     THEN Refuse /\ UNCHANGED manifest
     ELSE /\ manifest' = [exists |-> TRUE, lines |-> ManifestLines]
          /\ IF export.lines = << >> THEN Abort
             ELSE /\ export' = Idle
                  /\ last' = [elfs    |-> elfs,
                              config  |-> config,
                              exclude |-> export.exclude,
                              total   |-> export.total,
                              quiet   |-> events = export.events,
                              exit    |-> 0,
                              found   |-> << >>]
  /\ UNCHANGED << inputs, work, elfs, events >>

(* What write_text may leave when it is cut off: some lines, the last one  *)
(* possibly in part; a file line in part names a file that is not there.   *)
CutShort(lines) ==
  {SubSeq(lines, 1, n) : n \in 0 .. Len(lines) - 1}
  \cup {SubSeq(lines, 1, n - 1) \o << [lines[n] EXCEPT !.name = TornName] >> :
          n \in {m \in 1 .. Len(lines) : lines[m].kind = "file"}}

(* The exporter is killed, in the middle of a write if it is writing. *)
Crash ==
  /\ Event
  /\ export.pc # "idle"
  /\ export' = Idle
  /\ elfs' \in IF export.pc = "copy"
               THEN LET t == Head(export.todo) IN {elfs, Put(t, Torn(t))}
               ELSE {elfs}
  /\ manifest' \in IF export.pc = "manifest"
                   THEN {manifest} \cup {[exists |-> TRUE, lines |-> cut] :
                                           cut \in CutShort(ManifestLines)}
                   ELSE {manifest}
  /\ last' = [last EXCEPT !.exit = 1]
  /\ UNCHANGED << inputs, work >>

-----------------------------------------------------------------------------
(* check_elfs.py. It changes nothing: an operator, not an action.          *)

Lines(kind) == {i \in DOMAIN manifest.lines : manifest.lines[i].kind = kind}

Values(kind) == {manifest.lines[i].value : i \in Lines(kind)}

Entries(kind) == {manifest.lines[i] : i \in Lines(kind)}

Listed == {entry.name : entry \in Entries("file")}

(* setup_error() of run_compliance_values and read_manifest. *)
SetUp ==
  /\ runc.single
  /\ manifest.exists
  /\ Cardinality(Listed) = Cardinality(Lines("file"))
  /\ \A kind \in {"exclude", "total", "config", "file"} : Lines(kind) # {}

(* A slip: programs the manifest does not list are not looked for. *)
FilesAgreeListedOnly ==
  \A entry \in Entries("file") :
    entry.name \in DOMAIN elfs /\ elfs[entry.name] = entry.hash

FilesAgree ==
  /\ \A entry \in Entries("file") :
       entry.name \in DOMAIN elfs /\ elfs[entry.name] = entry.hash
  /\ DOMAIN elfs \subseteq Listed

SettingsAgree ==
  /\ Cardinality(Listed) = runc.total
  /\ Values("total") = {runc.total}
  /\ Values("exclude") = {runc.exclude}

ConfigsAgree ==
  \A entry \in Entries("config") : config[entry.name] = entry.hash

CheckElfs ==
  IF ~ SetUp THEN 2
  ELSE IF FilesAgree /\ SettingsAgree /\ ConfigsAgree THEN 0 ELSE 1

-----------------------------------------------------------------------------
Init ==
  /\ override = Checkout.override
  /\ config = [file \in CONFIGS |->
       IF file = SailJson THEN Derived(Checkout.default, override)
                          ELSE Checkout.revision]
  /\ runc = Checkout.runc
  /\ work = << >> /\ elfs = << >>
  /\ manifest = NoManifest
  /\ export = Idle
  /\ events = 0
  /\ last = [elfs |-> << >>, config |-> config, exclude |-> {}, total |-> 0,
             quiet |-> FALSE, exit |-> 0, found |-> << >>]

Next ==
  \/ Regenerate \/ EditConfig \/ EditOverride \/ EditRunCompliance
  \/ GenerateSailConfig \/ Damage
  \/ ExportStart \/ RemoveOld \/ AskTools \/ ToolsRefuse
  \/ Copy \/ Verify \/ WriteManifest \/ Crash

Spec == Init /\ [][Next]_vars

-----------------------------------------------------------------------------
(* The type of every variable. *)
ComplianceTypeOK ==
  /\ DOMAIN config = CONFIGS
  /\ override \in Overrides /\ runc \in Settings
  /\ DOMAIN work \subseteq Tests /\ DOMAIN elfs \subseteq Tests
  /\ export.pc \in {"idle", "remove", "tools", "copy", "verify", "manifest"}
  /\ export.pc \in {"copy", "verify"} => export.todo # << >>
  /\ events \in 0 .. MaxEvents
  /\ manifest.exists \in BOOLEAN

(* A set that passes is, file for file, what the last completed export     *)
(* wrote, under the settings and the configurations of that export: no     *)
(* half-deleted, half-copied or half-described set passes, however it came *)
(* about (check_elfs.py:14-20).                                            *)
PassIsTheLastExport ==
  CheckElfs = 0 =>
    /\ elfs = last.elfs
    /\ runc.exclude = last.exclude /\ runc.total = last.total
    /\ config = last.config

(* Nothing that passes was built otherwise than from the files of the tree *)
(* now, provided the work tree was up to date when it was exported         *)
(* (check_elfs.py:10-12, an input that "can go stale silently").           *)
PassIsFresh ==
  /\ CheckElfs = 0
  /\ \A t \in DOMAIN last.elfs : last.elfs[t].config = last.config
  => \A t \in DOMAIN elfs : elfs[t].config = config

(* An export that completes and that nobody disturbed leaves a set that    *)
(* passes: a refusal of the check always has a cause.                      *)
ExportPasses ==
  [][export.pc = "manifest" /\ manifest' # manifest /\ last'.exit = 0 /\ last'.quiet
     => CheckElfs' = 0]_vars

(* The generated configuration fits the core: both devices ACT4 insists on *)
(* lie inside the only I/O region and clear of the program memory, and a   *)
(* misaligned access raises an exception.                                  *)
DevicesClearOfRam == config[SailJson] # Absent => ClearOfRam(config[SailJson])

(* What export_elfs.py:20 says of itself: a refusal has written nothing.   *)
RefusalWritesNothing == last.exit = 2 => Committed = last.found
=============================================================================
