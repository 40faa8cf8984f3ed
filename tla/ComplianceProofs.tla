-------------------------- MODULE ComplianceProofs --------------------------
(***************************************************************************)
(* The ACT4 program set. First, whatever the defaults of Sail, the         *)
(* overrides and the edits over time: the sail.json of the tree keeps both *)
(* devices out of the program memory. Then, whatever was edited, damaged   *)
(* or killed: a set of programs that passes check_elfs.py is the one the   *)
(* last completed export wrote.                                            *)
(***************************************************************************)
EXTENDS Compliance, FiniteSetTheorems, SequenceTheorems, WellFoundedInduction, TLAPS

(* A nonempty set of positions has a first one. *)
LEMMA LeastPosition ==
  ASSUME NEW S \in SUBSET Nat, S # {}
  PROVE  \E i \in S : \A j \in S : i <= j
  <1>. DEFINE T == {0 .. i : i \in S}
  <1>1. T \subseteq FiniteSubsetsOf(Nat) /\ T # {}
    <2>1. \A i \in S : IsFiniteSet(0 .. i) /\ 0 .. i \subseteq Nat
      BY FS_Interval
    <2>. QED  BY <2>1 DEF FiniteSubsetsOf
  <1>2. PICK t \in T : \A u \in T : << u, t >> \notin StrictSubsetOrdering(Nat)
    BY <1>1, FS_StrictSubsetOrderingWellFounded, WFMin, Zenon
  <1>3. PICK i \in S : t = 0 .. i
    OBVIOUS
  <1>4. ASSUME NEW j \in S PROVE i <= j
    <2>1. << 0 .. j, 0 .. i >> \notin StrictSubsetOrdering(Nat)
      BY <1>2, <1>3
    <2>2. SUFFICES ASSUME j < i PROVE FALSE
      OBVIOUS
    <2>3. 0 .. j \subseteq 0 .. i /\ i \in 0 .. i /\ i \notin 0 .. j
      BY <2>2
    <2>4. 0 .. j \in SUBSET Nat /\ 0 .. i \in SUBSET Nat /\ 0 .. j # 0 .. i
      BY <2>3
    <2>. QED  BY <2>1, <2>3, <2>4, Zenon DEF StrictSubsetOrdering
  <1>. QED  BY <1>4

LEMMA FirstIsOne ==
  ASSUME NEW regions, NEW S \in SUBSET Nat, S # {}
  PROVE  \E i \in S : First(regions, S) = regions[i]
  BY LeastPosition DEF First

(* The region RAM is made of, and the one devices are in, are regions. *)
LEMMA TemplatesAreRegions ==
  ASSUME NEW default \in Defaults, NEW over \in Overrides,
         RegionsAccepted(default, over)
  PROVE  RamTemplate(default, over) \in MemoryRegion /\ DeviceRegion(default) \in MemoryRegion
  <1>1. default.regions \in Seq(MemoryRegion) /\ over.regions \in Seq(MemoryRegion)
    BY ComplianceAssumption
  <1>2. ASSUME NEW regions \in Seq(MemoryRegion), NEW S \in SUBSET DOMAIN regions, S # {}
        PROVE  First(regions, S) \in MemoryRegion
    <2>1. PICK i \in S : First(regions, S) = regions[i]
      BY <1>2, FirstIsOne
    <2>. QED  BY <2>1
  <1>3. ASSUME NEW regions \in Seq(MemoryRegion)
        PROVE  MainMemory(regions) \subseteq DOMAIN regions /\ AtIoBase(regions) \subseteq DOMAIN regions
    BY DEF MainMemory, AtIoBase
  <1>4. RamTemplate(default, over) \in MemoryRegion
    BY <1>1, <1>2, <1>3, Zenon DEF RamTemplate, RegionsAccepted
  <1>5. DeviceRegion(default) \in MemoryRegion
    BY <1>1, <1>2, <1>3, Zenon DEF DeviceRegion, RegionsAccepted
  <1>. QED  BY <1>4, <1>5

(* What gen_act4_sail_config.py accepts, it writes with both devices inside *)
(* the I/O region and outside the program memory (lines 230-239).           *)
THEOREM AcceptedIsClear ==
  ASSUME NEW default \in Defaults, NEW over \in Overrides, Accepted(default, over)
  PROVE  ClearOfRam(Derived(default, over))
  <1>. DEFINE ram == RamTemplate(default, over)
              io == DeviceRegion(default)
              cfg == Derived(default, over)
  <1>1. ram \in MemoryRegion /\ io \in MemoryRegion
    BY TemplatesAreRegions, Zenon DEF Accepted
  <1>2. cfg.load_store = "AlignmentException" /\ cfg.regions[2] = io
        /\ cfg.regions[1] = [ram EXCEPT !.base = 0, !.size = DutRamSize]
        /\ \A dev \in Devices : cfg.platform[dev] = default.platform[dev]
    BY DEF Derived
  <1>3. cfg.regions[1].base = 0 /\ cfg.regions[1].size = DutRamSize
    BY <1>1, <1>2 DEF MemoryRegion
  <1>4. ASSUME NEW dev \in Devices
        PROVE  cfg.platform[dev] \notin Covers(cfg.regions[1])
               /\ cfg.platform[dev] \in Covers(cfg.regions[2])
    <2>1. default.platform[dev] \in Int /\ Inside(default.platform[dev], io)
          /\ default.platform[dev] >= DutRamSize
      BY ComplianceAssumption DEF Accepted, DevicesAccepted
    <2>2. io.base \in Int /\ io.size \in Nat /\ DutRamSize \in Nat
      BY <1>1, SailConfigAssumption DEF MemoryRegion
    <2>. HIDE DEF ram, io, cfg
    <2>3. cfg.platform[dev] = default.platform[dev]
      BY <1>2
    <2>. QED  BY <1>2, <1>3, <2>1, <2>2, <2>3 DEF Covers, Inside
  <1>. QED  BY <1>2, <1>4 DEF ClearOfRam

-----------------------------------------------------------------------------
(* Only GenerateSailConfig writes sail.json.                               *)

SailJsonIsDerived ==
  /\ DOMAIN config = CONFIGS
  /\ override \in Overrides
  /\ ClearOfRam(config[SailJson])

LEMMA DerivedInit == Init => SailJsonIsDerived
  <1>. SUFFICES ASSUME Init PROVE SailJsonIsDerived
    OBVIOUS
  <1>1. ClearOfRam(Derived(Checkout.default, Checkout.override))
    BY ComplianceAssumption, AcceptedIsClear
  <1>2. override = Checkout.override /\ override \in Overrides
    BY ComplianceAssumption DEF Init
  <1>3. DOMAIN config = CONFIGS /\ config[SailJson] = Derived(Checkout.default, override)
    BY DEF Init, CONFIGS
  <1>. QED  BY <1>1, <1>2, <1>3 DEF SailJsonIsDerived

LEMMA DerivedNext == SailJsonIsDerived /\ [Next]_vars => SailJsonIsDerived'
  <1>. SUFFICES ASSUME SailJsonIsDerived, [Next]_vars PROVE SailJsonIsDerived'
    OBVIOUS
  <1>1. CASE EditConfig
    <2>1. PICK file \in HandWritten, content \in Revisions \cup {Absent} :
            config' = [config EXCEPT ![file] = content]
      BY <1>1 DEF EditConfig
    <2>2. file # SailJson
      BY ComplianceAssumption DEF SailJson
    <2>3. override' = override /\ DOMAIN config' = CONFIGS /\ config'[SailJson] = config[SailJson]
      BY <1>1, <2>1, <2>2 DEF SailJsonIsDerived, EditConfig
    <2>. QED  BY <2>3 DEF SailJsonIsDerived
  <1>2. CASE GenerateSailConfig
    <2>1. PICK default \in Defaults :
            /\ Accepted(default, override)
            /\ config' = [config EXCEPT ![SailJson] = Derived(default, override)]
      BY <1>2 DEF GenerateSailConfig
    <2>2. ClearOfRam(Derived(default, override))
      BY <2>1, AcceptedIsClear DEF SailJsonIsDerived
    <2>3. override' = override /\ DOMAIN config' = CONFIGS
          /\ config'[SailJson] = Derived(default, override)
      BY <1>2, <2>1 DEF SailJsonIsDerived, GenerateSailConfig, CONFIGS
    <2>. QED  BY <2>2, <2>3 DEF SailJsonIsDerived
  <1>3. CASE EditOverride
    BY <1>3 DEF EditOverride, SailJsonIsDerived
  <1>4. CASE UNCHANGED << config, override >>
    BY <1>4 DEF SailJsonIsDerived
  <1>5. CASE \/ Regenerate \/ EditRunCompliance \/ Damage \/ ExportStart \/ RemoveOld
             \/ AskTools \/ ToolsRefuse \/ Copy \/ Verify \/ WriteManifest \/ Crash
             \/ UNCHANGED vars
    BY <1>4, <1>5 DEF Regenerate, EditRunCompliance, Damage, ExportStart, RemoveOld,
       AskTools, ToolsRefuse, Copy, Verify, WriteManifest, Crash, inputs, vars
  <1>. QED  BY <1>1, <1>2, <1>3, <1>5 DEF Next

(* DevicesClearOfRam for every core memory, every default of Sail and      *)
(* every history of edits: the sail.json of the tree keeps both devices in *)
(* the I/O region, clear of the program memory                             *)
(* (gen_act4_sail_config.py:230-239).                                      *)
THEOREM SailJsonClear == Spec => []DevicesClearOfRam
  <1>1. SailJsonIsDerived => DevicesClearOfRam
    BY DEF SailJsonIsDerived, DevicesClearOfRam
  <1>. QED  BY DerivedInit, DerivedNext, <1>1, PTL DEF Spec

-----------------------------------------------------------------------------
(* The export and its check.                                               *)

Sequence(s) == s \in Seq({s[i] : i \in DOMAIN s})

LEMMA SequenceFacts ==
  ASSUME NEW s, Sequence(s)
  PROVE  Len(s) \in Nat /\ DOMAIN s = 1 .. Len(s)
  BY LenProperties DEF Sequence

LEMMA SequenceIn ==
  ASSUME NEW S, NEW s \in Seq(S)
  PROVE  Sequence(s)
  <1>1. s \in [1 .. Len(s) -> S] /\ Len(s) \in Nat
    BY LenProperties
  <1>2. s \in [1 .. Len(s) -> {s[i] : i \in DOMAIN s}]
    BY <1>1
  <1>. QED  BY <1>1, <1>2, SeqDef DEF Sequence

LEMMA SequenceConcat ==
  ASSUME NEW s, Sequence(s), NEW t, Sequence(t), NEW u, u = s \o t
  PROVE  /\ Sequence(u) /\ Len(u) = Len(s) + Len(t)
         /\ \A i \in 1 .. Len(s) : u[i] = s[i]
         /\ \A i \in 1 .. Len(t) : u[Len(s) + i] = t[i]
  <1>. DEFINE S == {s[i] : i \in DOMAIN s} \cup {t[i] : i \in DOMAIN t}
  <1>1. s \in Seq(S) /\ t \in Seq(S)
    BY SeqMonotonic DEF Sequence
  <1>2. Len(s) \in Nat /\ Len(t) \in Nat
    BY SequenceFacts
  <1>. HIDE DEF S
  <1>3. /\ u \in Seq(S)
        /\ Len(u) = Len(s) + Len(t)
        /\ \A i \in 1 .. Len(s) + Len(t) : u[i] =
             IF i <= Len(s) THEN s[i] ELSE t[i - Len(s)]
    BY <1>1, ConcatProperties
  <1>4. Sequence(u)
    BY <1>3, SequenceIn
  <1>5. ASSUME NEW i \in 1 .. Len(t) PROVE u[Len(s) + i] = t[i]
    <2>1. Len(s) + i \in 1 .. Len(s) + Len(t) /\ ~ Len(s) + i <= Len(s) /\ Len(s) + i - Len(s) = i
      BY <1>2
    <2>. QED  BY <2>1, <1>3
  <1>. QED  BY <1>2, <1>3, <1>4, <1>5

LEMMA SequenceAppend ==
  ASSUME NEW s, Sequence(s), NEW x
  PROVE  /\ Sequence(Append(s, x)) /\ Len(Append(s, x)) = Len(s) + 1
         /\ \A i \in 1 .. Len(s) : Append(s, x)[i] = s[i]
         /\ Append(s, x)[Len(s) + 1] = x
  <1>. DEFINE S == {s[i] : i \in DOMAIN s} \cup {x}
  <1>1. s \in Seq(S) /\ x \in S
    BY SeqMonotonic DEF Sequence
  <1>. HIDE DEF S
  <1>2. Append(s, x) \in Seq(S) /\ Len(Append(s, x)) = Len(s) + 1
        /\ \A i \in 1 .. Len(s) : Append(s, x)[i] = s[i]
        /\ Append(s, x)[Len(s) + 1] = x
    BY <1>1
  <1>3. Sequence(Append(s, x))
    BY <1>2, SequenceIn, Zenon
  <1>. QED  BY <1>2, <1>3, SMT

(* SetToSeq lists every element of a finite set, each once. *)
LEMMA SetToSeqFacts ==
  ASSUME NEW S, IsFiniteSet(S)
  PROVE  /\ Cardinality(S) \in Nat
         /\ SetToSeq(S) \in [1 .. Cardinality(S) -> S]
         /\ \A i, j \in 1 .. Cardinality(S) : SetToSeq(S)[i] = SetToSeq(S)[j] => i = j
         /\ \A x \in S : \E i \in 1 .. Cardinality(S) : SetToSeq(S)[i] = x
  <1>. DEFINE n == Cardinality(S)
  <1>1. n \in Nat /\ ExistsBijection(1 .. n, S)
    BY FS_CardinalityType
  <1>2. \E f \in [1 .. n -> S] : IsInjective(f)
    BY <1>1 DEF ExistsBijection, Bijection, Injection
  <1>3. SetToSeq(S) \in [1 .. n -> S] /\ IsInjective(SetToSeq(S))
    BY <1>2, Zenon DEF SetToSeq
  <1>4. SetToSeq(S) \in Injection(1 .. n, S)
    BY <1>3 DEF Injection
  <1>5. Cardinality(1 .. n) = n
    BY <1>1, FS_Interval
  <1>6. SetToSeq(S) \in Surjection(1 .. n, S)
    BY <1>4, <1>5, FS_Injection
  <1>. QED  BY <1>1, <1>3, <1>6 DEF IsInjective, Surjection

-----------------------------------------------------------------------------
(* The invariant. Positions of the lines of a kind, as check_elfs.py reads  *)
(* them.                                                                    *)
Positions(lines, kind) == {i \in DOMAIN lines : lines[i].kind = kind}

Names(lines) == {lines[i].name : i \in Positions(lines, "file")}

IsFunction(f) == f = [x \in DOMAIN f |-> f[x]]

(* The lines of a completed export l. *)
Describes(lines, l) ==
  /\ \A i \in Positions(lines, "file") :
       lines[i].name \in DOMAIN l.elfs /\ lines[i].hash = l.elfs[lines[i].name]
  /\ DOMAIN l.elfs \subseteq Names(lines)
  /\ \E i \in Positions(lines, "exclude") : lines[i].value = l.exclude
  /\ \E i \in Positions(lines, "total") : lines[i].value = l.total
  /\ \A file \in CONFIGS : \E i \in Positions(lines, "config") :
       lines[i].name = file /\ lines[i].hash = l.config[file]

(* The lines of an export that was killed while it wrote them. *)
NeverPasses(lines) ==
  \/ TornName \in Names(lines)
  \/ Positions(lines, "file") = {}
  \/ \A i \in Positions(lines, "total") : lines[i].value # Cardinality(Names(lines))

TypesInv ==
  /\ DOMAIN config = CONFIGS /\ IsFunction(config)
  /\ runc \in Settings
  /\ DOMAIN work \subseteq Tests
  /\ DOMAIN elfs \subseteq Tests /\ IsFunction(elfs)
  /\ {"elfs", "config", "exclude", "total", "exit", "found"} \subseteq DOMAIN last
  /\ IsFunction(last.elfs)
  /\ DOMAIN last.config = CONFIGS /\ IsFunction(last.config)

(* What a running export has still to do, and what it has written down. *)
Progress ==
  /\ {"pc", "todo", "lines"} \subseteq DOMAIN export
  /\ export.todo \in Seq(Tests)
  /\ \A i, j \in 1 .. Len(export.todo) : export.todo[i] = export.todo[j] => i = j
  /\ Sequence(export.lines)
  /\ \A i \in 1 .. Len(export.lines) :
       /\ export.lines[i].kind = "file"
       /\ DOMAIN export.lines[i] = {"kind", "name", "hash"}
       /\ \A j \in 1 .. Len(export.todo) : export.todo[j] # export.lines[i].name
  /\ export.total = Len(export.lines) + Len(export.todo)

Written == {export.lines[i].name : i \in 1 .. Len(export.lines)}

(* Every copy on the disk is one the export has written down, with the     *)
(* hash it has now, or the one being copied.                               *)
ExportInv ==
  /\ export.pc \in {"idle", "remove", "tools", "copy", "verify", "manifest"}
  /\ export.pc # "idle" => Progress
  /\ export.pc \in {"remove", "tools"} => export.lines = << >>
  /\ export.pc = "tools" => elfs = << >>
  /\ export.pc \in {"copy", "verify"} => export.todo # << >>
  /\ export.pc = "manifest" => export.todo = << >>
  /\ export.pc \in {"copy", "manifest"} => DOMAIN elfs = Written
  /\ export.pc = "verify" => DOMAIN elfs = Written \cup {Head(export.todo)}
  /\ export.pc \in {"copy", "verify", "manifest"} =>
       \A i \in 1 .. Len(export.lines) : elfs[export.lines[i].name] = export.lines[i].hash

ManifestInv ==
  manifest.exists => Describes(manifest.lines, last) \/ NeverPasses(manifest.lines)

Inv == TypesInv /\ ExportInv /\ ManifestInv

-----------------------------------------------------------------------------
(* A manifest that describes an export, or never passes, suffices.         *)
LEMMA InvMeansLastExport == Inv => PassIsTheLastExport
  <1>. SUFFICES ASSUME Inv, CheckElfs = 0
                PROVE  /\ elfs = last.elfs
                       /\ runc.exclude = last.exclude /\ runc.total = last.total
                       /\ config = last.config
    BY DEF PassIsTheLastExport
  <1>. DEFINE lines == manifest.lines
  <1>1. SetUp /\ FilesAgree /\ SettingsAgree /\ ConfigsAgree
    BY DEF CheckElfs
  <1>2. manifest.exists
    BY <1>1 DEF SetUp
  <1>3. \A kind : Lines(kind) = Positions(lines, kind)
    BY DEF Lines, Positions
  <1>4. Listed = Names(lines)
    BY <1>3 DEF Listed, Entries, Names
  <1>5. DOMAIN elfs = Names(lines)
        /\ \A i \in Positions(lines, "file") : elfs[lines[i].name] = lines[i].hash
    BY <1>1, <1>3, <1>4 DEF FilesAgree, Entries, Names
  <1>6. /\ \A i \in Positions(lines, "total") : lines[i].value = runc.total
        /\ \A i \in Positions(lines, "exclude") : lines[i].value = runc.exclude
        /\ Positions(lines, "total") # {} /\ Positions(lines, "file") # {}
        /\ Cardinality(Names(lines)) = runc.total
    BY <1>1, <1>3, <1>4 DEF SettingsAgree, Values, SetUp
  <1>7. ~ NeverPasses(lines)
    <2>1. TornName \notin Names(lines)
      BY <1>5, TornNameAssumption DEF Inv, TypesInv
    <2>. QED  BY <2>1, <1>6 DEF NeverPasses
  <1>8. Describes(lines, last)
    BY <1>2, <1>7 DEF Inv, ManifestInv
  <1>9. elfs = last.elfs
    <2>1. DOMAIN elfs = DOMAIN last.elfs
      BY <1>5, <1>8 DEF Describes, Names
    <2>2. \A t \in DOMAIN elfs : elfs[t] = last.elfs[t]
      BY <1>5, <1>8 DEF Describes, Names
    <2>. QED  BY <2>1, <2>2 DEF Inv, TypesInv, IsFunction
  <1>10. config = last.config
    <2>1. \A i \in Positions(lines, "config") : config[lines[i].name] = lines[i].hash
      BY <1>1, <1>3 DEF ConfigsAgree, Entries
    <2>2. \A file \in CONFIGS : config[file] = last.config[file]
      BY <1>8, <2>1 DEF Describes
    <2>. QED  BY <2>2 DEF Inv, TypesInv, IsFunction
  <1>. QED  BY <1>6, <1>8, <1>9, <1>10 DEF Describes

-----------------------------------------------------------------------------
(* The lines WriteManifest writes, by position.                            *)
LEMMA LinesByPosition ==
  ASSUME Sequence(export.lines)
  PROVE  LET c == Cardinality(CONFIGS)
             n == Len(export.lines) IN
         /\ c \in Nat /\ n \in Nat
         /\ Sequence(ManifestLines) /\ Len(ManifestLines) = 2 + c + n
         /\ ManifestLines[1] = [kind |-> "exclude", value |-> export.exclude]
         /\ ManifestLines[2] = [kind |-> "total", value |-> export.total]
         /\ \A i \in 1 .. c : ManifestLines[2 + i] =
              [kind |-> "config", name |-> SetToSeq(CONFIGS)[i],
               hash |-> config[SetToSeq(CONFIGS)[i]]]
         /\ \A i \in 1 .. n : ManifestLines[2 + c + i] = export.lines[i]
  <1>. DEFINE c == Cardinality(CONFIGS)
              n == Len(export.lines)
              line(i) == [kind |-> "config", name |-> SetToSeq(CONFIGS)[i],
                          hash |-> config[SetToSeq(CONFIGS)[i]]]
              settings == << [kind |-> "exclude", value |-> export.exclude],
                             [kind |-> "total", value |-> export.total] >>
              configs == [i \in 1 .. c |-> line(i)]
  <1>1. c \in Nat
    BY ComplianceAssumption, FS_AddElement, FS_CardinalityType DEF CONFIGS
  <1>2. n \in Nat /\ DOMAIN export.lines = 1 .. n
    BY SequenceFacts
  <1>3. Sequence(settings) /\ Len(settings) = 2
    <2>1. settings \in Seq({settings[1], settings[2]})
      OBVIOUS
    <2>. QED  BY <2>1, SequenceIn
  <1>4. Sequence(configs) /\ Len(configs) = c
    <2>1. configs \in [1 .. c -> {line(i) : i \in 1 .. c}]
      OBVIOUS
    <2>2. configs \in Seq({line(i) : i \in 1 .. c})
      BY <1>1, <2>1, SeqDef
    <2>3. DOMAIN configs = 1 .. c
      OBVIOUS
    <2>. HIDE DEF configs
    <2>4. Sequence(configs)
      BY <2>2, SequenceIn
    <2>. QED  BY <1>1, <2>3, <2>4, SequenceFacts
  <1>5. settings[1] = [kind |-> "exclude", value |-> export.exclude]
        /\ settings[2] = [kind |-> "total", value |-> export.total]
        /\ \A i \in 1 .. c : configs[i] = line(i)
    OBVIOUS
  <1>. DEFINE head == settings \o configs
              all == head \o export.lines
  <1>6. ManifestLines = all
    BY DEF ManifestLines
  <1>. HIDE DEF settings, configs, c, n, line
  <1>a. head = settings \o configs
    OBVIOUS
  <1>b. all = head \o export.lines
    OBVIOUS
  <1>. HIDE DEF head, all
  <1>7. /\ Sequence(head) /\ Len(head) = Len(settings) + Len(configs)
        /\ \A i \in 1 .. Len(settings) : head[i] = settings[i]
        /\ \A i \in 1 .. Len(configs) : head[Len(settings) + i] = configs[i]
    <2>1. Sequence(settings) /\ Sequence(configs)
      BY <1>3, <1>4
    <2>2. Sequence(head)
      BY <2>1, <1>a, SequenceConcat
    <2>3. Len(head) = Len(settings) + Len(configs)
      BY <2>1, <1>a, SequenceConcat
    <2>4. \A i \in 1 .. Len(settings) : head[i] = settings[i]
      BY <2>1, <1>a, SequenceConcat
    <2>5. \A i \in 1 .. Len(configs) : head[Len(settings) + i] = configs[i]
      BY <2>1, <1>a, SequenceConcat
    <2>. QED  BY <2>2, <2>3, <2>4, <2>5
  <1>8. /\ Sequence(all) /\ Len(all) = Len(head) + Len(export.lines)
        /\ \A i \in 1 .. Len(head) : all[i] = head[i]
        /\ \A i \in 1 .. Len(export.lines) : all[Len(head) + i] = export.lines[i]
    <2>0. Sequence(head) /\ Sequence(export.lines)
      BY <1>7
    <2>1. Sequence(all)
      BY <2>0, <1>b, SequenceConcat
    <2>2. Len(all) = Len(head) + Len(export.lines)
      BY <2>0, <1>b, SequenceConcat
    <2>3. \A i \in 1 .. Len(head) : all[i] = head[i]
      BY <2>0, <1>b, SequenceConcat
    <2>4. \A i \in 1 .. Len(export.lines) : all[Len(head) + i] = export.lines[i]
      BY <2>0, <1>b, SequenceConcat
    <2>. QED  BY <2>1, <2>2, <2>3, <2>4
  <1>9. Len(head) = 2 + c /\ Len(export.lines) = n
    BY <1>3, <1>4, <1>7 DEF n
  <1>10. \A i \in 1 .. c : all[2 + i] = line(i)
    <2>1. TAKE i \in 1 .. c
    <2>2. 2 + i \in 1 .. 2 + c
      BY <1>1
    <2>. QED  BY <1>3, <1>4, <1>5, <1>7, <1>8, <1>9, <2>2
  <1>11. all[1] = settings[1] /\ all[2] = settings[2]
    <2>1. 1 \in 1 .. 2 /\ 2 \in 1 .. 2 /\ 1 \in 1 .. 2 + c /\ 2 \in 1 .. 2 + c
      BY <1>1
    <2>. QED  BY <1>3, <1>7, <1>8, <1>9, <2>1
  <1>. QED  BY <1>1, <1>2, <1>5, <1>6, <1>8, <1>9, <1>10, <1>11 DEF c, n, line

(* Facts about the positions of each kind. *)
LEMMA PositionsOfLines ==
  ASSUME Progress
  PROVE  LET c == Cardinality(CONFIGS)
             n == Len(export.lines) IN
         /\ Positions(ManifestLines, "exclude") = {1}
         /\ Positions(ManifestLines, "total") = {2}
         /\ Positions(ManifestLines, "config") = {2 + i : i \in 1 .. c}
         /\ Positions(ManifestLines, "file") = {2 + c + i : i \in 1 .. n}
  <1>. DEFINE c == Cardinality(CONFIGS)
              n == Len(export.lines)
              all == ManifestLines
  <1>1. /\ c \in Nat /\ n \in Nat
        /\ Sequence(all) /\ Len(all) = 2 + c + n
        /\ all[1].kind = "exclude" /\ all[2].kind = "total"
        /\ \A i \in 1 .. c : all[2 + i].kind = "config"
        /\ \A i \in 1 .. n : all[2 + c + i].kind = "file"
    <2>1. Sequence(export.lines) /\ \A i \in 1 .. n : export.lines[i].kind = "file"
      BY DEF Progress
    <2>2. /\ c \in Nat /\ n \in Nat
          /\ Sequence(all) /\ Len(all) = 2 + c + n
          /\ all[1] = [kind |-> "exclude", value |-> export.exclude]
          /\ all[2] = [kind |-> "total", value |-> export.total]
          /\ \A i \in 1 .. c : all[2 + i] =
               [kind |-> "config", name |-> SetToSeq(CONFIGS)[i],
                hash |-> config[SetToSeq(CONFIGS)[i]]]
          /\ \A i \in 1 .. n : all[2 + c + i] = export.lines[i]
      BY <2>1, LinesByPosition, Zenon
    <2>. HIDE DEF all, c, n
    <2>3. all[1].kind = "exclude" /\ all[2].kind = "total"
      BY <2>2
    <2>4. ASSUME NEW i \in 1 .. c PROVE all[2 + i].kind = "config"
      <3>1. all[2 + i] = [kind |-> "config", name |-> SetToSeq(CONFIGS)[i],
                          hash |-> config[SetToSeq(CONFIGS)[i]]]
        BY <2>2, Zenon
      <3>. QED  BY <3>1
    <2>5. \A i \in 1 .. n : all[2 + c + i].kind = "file"
      BY <2>1, <2>2, Zenon
    <2>. QED  BY <2>2, <2>3, <2>4, <2>5, Zenon
  <1>2. DOMAIN all = 1 .. 2 + c + n
    BY <1>1, SequenceFacts
  <1>. HIDE DEF c, n, all
  <1>3. ASSUME NEW i \in DOMAIN all
        PROVE  \/ i = 1 \/ i = 2
               \/ \E j \in 1 .. c : i = 2 + j
               \/ \E j \in 1 .. n : i = 2 + c + j
    <2>1. CASE i <= 2
      BY <1>1, <1>2, <2>1
    <2>2. CASE i > 2 /\ i <= 2 + c
      <3>1. i - 2 \in 1 .. c /\ i = 2 + (i - 2)
        BY <1>1, <1>2, <2>2
      <3>. QED  BY <3>1
    <2>3. CASE i > 2 + c
      <3>1. i - 2 - c \in 1 .. n /\ i = 2 + c + (i - 2 - c)
        BY <1>1, <1>2, <2>3
      <3>. QED  BY <3>1
    <2>. QED  BY <1>1, <1>2, <2>1, <2>2, <2>3
  <1>4. /\ 1 \in DOMAIN all /\ 2 \in DOMAIN all
        /\ \A j \in 1 .. c : 2 + j \in DOMAIN all
        /\ \A j \in 1 .. n : 2 + c + j \in DOMAIN all
    BY <1>1, <1>2
  <1>5. Positions(all, "exclude") = {1}
    BY <1>1, <1>3, <1>4 DEF Positions
  <1>6. Positions(all, "total") = {2}
    BY <1>1, <1>3, <1>4 DEF Positions
  <1>7. Positions(all, "config") = {2 + i : i \in 1 .. c}
    BY <1>1, <1>3, <1>4 DEF Positions
  <1>8. Positions(all, "file") = {2 + c + i : i \in 1 .. n}
    BY <1>1, <1>3, <1>4 DEF Positions
  <1>. QED  BY <1>5, <1>6, <1>7, <1>8 DEF c, n, all

(* What WriteManifest writes describes the export it completes. *)
LEMMA WholeDescribes ==
  ASSUME TypesInv, ExportInv, export.pc = "manifest", NEW l,
         l.elfs = elfs, l.config = config, l.exclude = export.exclude,
         l.total = export.total
  PROVE  Describes(ManifestLines, l)
  <1>. DEFINE c == Cardinality(CONFIGS)
              n == Len(export.lines)
              all == ManifestLines
  <1>1. Progress /\ DOMAIN elfs = Written
        /\ \A i \in 1 .. n : elfs[export.lines[i].name] = export.lines[i].hash
    BY DEF ExportInv
  <1>2. /\ Positions(all, "exclude") = {1}
        /\ Positions(all, "total") = {2}
        /\ Positions(all, "config") = {2 + i : i \in 1 .. c}
        /\ Positions(all, "file") = {2 + c + i : i \in 1 .. n}
    BY <1>1, PositionsOfLines
  <1>3. /\ all[1].value = export.exclude /\ all[2].value = export.total
        /\ \A i \in 1 .. c : /\ all[2 + i].name = SetToSeq(CONFIGS)[i]
                             /\ all[2 + i].hash = config[SetToSeq(CONFIGS)[i]]
        /\ \A i \in 1 .. n : all[2 + c + i] = export.lines[i]
    <2>1. /\ all[1] = [kind |-> "exclude", value |-> export.exclude]
          /\ all[2] = [kind |-> "total", value |-> export.total]
          /\ \A i \in 1 .. c : all[2 + i] =
               [kind |-> "config", name |-> SetToSeq(CONFIGS)[i],
                hash |-> config[SetToSeq(CONFIGS)[i]]]
          /\ \A i \in 1 .. n : all[2 + c + i] = export.lines[i]
      BY <1>1, LinesByPosition, Zenon DEF Progress
    <2>. HIDE DEF all, c, n
    <2>2. all[1].value = export.exclude /\ all[2].value = export.total
      BY <2>1
    <2>3. ASSUME NEW i \in 1 .. c
          PROVE  /\ all[2 + i].name = SetToSeq(CONFIGS)[i]
                 /\ all[2 + i].hash = config[SetToSeq(CONFIGS)[i]]
      <3>1. all[2 + i] = [kind |-> "config", name |-> SetToSeq(CONFIGS)[i],
                          hash |-> config[SetToSeq(CONFIGS)[i]]]
        BY <2>1, Zenon
      <3>. QED  BY <3>1
    <2>. QED  BY <2>1, <2>2, <2>3, Zenon
  <1>4. \A file \in CONFIGS : \E i \in 1 .. c : SetToSeq(CONFIGS)[i] = file
    BY ComplianceAssumption, FS_AddElement, SetToSeqFacts DEF CONFIGS
  <1>. HIDE DEF c, n, all
  <1>5. ASSUME NEW i \in Positions(all, "file")
        PROVE  all[i].name \in DOMAIN elfs /\ all[i].hash = elfs[all[i].name]
    BY <1>1, <1>2, <1>3 DEF Written, n
  <1>6. DOMAIN elfs \subseteq Names(all)
    BY <1>1, <1>2, <1>3 DEF Written, Names, n
  <1>7. ASSUME NEW file \in CONFIGS
        PROVE  \E i \in Positions(all, "config") : all[i].name = file /\ all[i].hash = config[file]
    <2>1. PICK j \in 1 .. c : SetToSeq(CONFIGS)[j] = file
      BY <1>4
    <2>2. 2 + j \in Positions(all, "config")
      BY <1>2
    <2>. QED  BY <1>3, <2>1, <2>2
  <1>. QED  BY <1>2, <1>3, <1>5, <1>6, <1>7 DEF Describes, all

(* Fewer names than positions. *)
LEMMA FewNames ==
  ASSUME NEW m \in Nat, NEW f
  PROVE  IsFiniteSet({f[i] : i \in 1 .. m}) /\ Cardinality({f[i] : i \in 1 .. m}) <= m
  <1>. DEFINE S == {f[i] : i \in 1 .. m}
              g == [i \in 1 .. m |-> f[i]]
  <1>1. g \in Surjection(1 .. m, S)
    BY DEF Surjection
  <1>2. IsFiniteSet(1 .. m) /\ Cardinality(1 .. m) = m
    BY FS_Interval
  <1>. HIDE DEF S, g
  <1>3. IsFiniteSet(S) /\ Cardinality(S) <= m
    BY <1>1, <1>2, FS_Surjection
  <1>. QED  BY <1>3 DEF S

(* A manifest that was cut off lists fewer programs than the total it      *)
(* names, or names one that is not there.                                  *)
LEMMA CutNeverPasses ==
  ASSUME ExportInv, export.pc = "manifest", NEW cut \in CutShort(ManifestLines)
  PROVE  NeverPasses(cut)
  <1>. DEFINE c == Cardinality(CONFIGS)
              n == Len(export.lines)
              all == ManifestLines
  <1>1. Progress /\ export.total = n /\ n \in Nat /\ c \in Nat
    <2>1. Progress /\ export.todo = << >>
      BY DEF ExportInv
    <2>2. export.total = Len(export.lines) + 0
      BY <2>1 DEF Progress
    <2>. QED  BY <2>1, <2>2, LinesByPosition DEF Progress
  <1>2. /\ Positions(all, "total") = {2}
        /\ Positions(all, "file") = {2 + c + i : i \in 1 .. n}
    BY <1>1, PositionsOfLines
  <1>3. Sequence(all) /\ Len(all) = 2 + c + n /\ all[2].value = export.total
    <2>1. all[2] = [kind |-> "total", value |-> export.total]
          /\ Sequence(all) /\ Len(all) = 2 + c + n
      BY <1>1, LinesByPosition, Zenon DEF Progress
    <2>. QED  BY <2>1
  <1>4. DOMAIN all = 1 .. 2 + c + n
    BY <1>3, SequenceFacts
  <1>5. \A i \in 1 .. n : DOMAIN all[2 + c + i] = {"kind", "name", "hash"}
    <2>1. \A i \in 1 .. n : all[2 + c + i] = export.lines[i]
      BY <1>1, LinesByPosition, Zenon DEF Progress
    <2>. QED  BY <1>1, <2>1, Zenon DEF Progress
  <1>. HIDE DEF c, n, all
  <1>6. CASE \E m \in 0 .. Len(all) - 1 : cut = SubSeq(all, 1, m)
    <2>1. PICK m \in 0 .. Len(all) - 1 : cut = SubSeq(all, 1, m)
      BY <1>6
    <2>2. DOMAIN cut = 1 .. m /\ \A i \in 1 .. m : cut[i] = all[i]
      BY <1>1, <1>3, <1>4, <2>1
    <2>. DEFINE f == [i \in 1 .. n |-> all[2 + c + i].name]
                short == m - 2 - c
    <2>3. ASSUME NEW i \in Positions(cut, "total") PROVE i = 2 /\ cut[2].value = n
      BY <1>1, <1>2, <1>3, <1>4, <2>2 DEF Positions
    <2>4. CASE short <= 0
      <3>1. Positions(cut, "file") = {}
        BY <1>1, <1>2, <1>3, <1>4, <2>2, <2>4 DEF Positions
      <3>. QED  BY <3>1 DEF NeverPasses
    <2>5. CASE short > 0
      <3>1. short \in Nat /\ short < n
        BY <1>1, <1>3, <2>5
      <3>2. Positions(cut, "file") = {2 + c + i : i \in 1 .. short}
        <4>1. \A i \in 1 .. m : i \in Positions(cut, "file") <=> i \in Positions(all, "file")
          BY <1>1, <1>3, <1>4, <2>2 DEF Positions
        <4>2. \A i \in 1 .. m : i \in Positions(all, "file") <=> i >= 2 + c + 1
          <5>1. TAKE i \in 1 .. m
          <5>2. CASE i >= 2 + c + 1
            <6>1. i - 2 - c \in 1 .. n /\ i = 2 + c + (i - 2 - c)
              BY <1>1, <1>3, <5>2
            <6>. QED  BY <1>2, <5>2, <6>1
          <5>3. CASE i < 2 + c + 1
            BY <1>1, <1>2, <5>3
          <5>. QED  BY <1>1, <5>2, <5>3
        <4>3. Positions(cut, "file") = {i \in 1 .. m : i >= 2 + c + 1}
          BY <2>2, <4>1, <4>2 DEF Positions
        <4>4. ASSUME NEW i \in 1 .. m, i >= 2 + c + 1
              PROVE  \E j \in 1 .. short : i = 2 + c + j
          <5>1. i - 2 - c \in 1 .. short /\ i = 2 + c + (i - 2 - c)
            BY <1>1, <3>1, <4>4
          <5>. QED  BY <5>1
        <4>5. \A j \in 1 .. short : 2 + c + j \in 1 .. m /\ 2 + c + j >= 2 + c + 1
          BY <1>1, <3>1
        <4>. QED  BY <4>3, <4>4, <4>5
      <3>3. \A i \in 1 .. short : cut[2 + c + i].name = f[i]
        BY <1>1, <2>2, <3>1
      <3>. HIDE DEF f, short
      <3>4. Names(cut) = {f[i] : i \in 1 .. short}
        BY <3>2, <3>3 DEF Names
      <3>5. Cardinality(Names(cut)) <= short /\ Cardinality(Names(cut)) \in Nat
        BY <3>1, <3>4, FewNames, FS_CardinalityType
      <3>6. \A i \in Positions(cut, "total") : cut[i].value # Cardinality(Names(cut))
        BY <1>1, <2>3, <3>1, <3>5
      <3>. QED  BY <3>6 DEF NeverPasses
    <2>. QED  BY <1>1, <1>3, <2>4, <2>5
  <1>7. CASE \E m \in {m \in 1 .. Len(all) : all[m].kind = "file"} :
               cut = SubSeq(all, 1, m - 1) \o << [all[m] EXCEPT !.name = TornName] >>
    <2>1. PICK m \in 1 .. Len(all) :
            /\ all[m].kind = "file"
            /\ cut = SubSeq(all, 1, m - 1) \o << [all[m] EXCEPT !.name = TornName] >>
      BY <1>7
    <2>. DEFINE before == SubSeq(all, 1, m - 1)
                torn == << [all[m] EXCEPT !.name = TornName] >>
    <2>2. Sequence(before) /\ Len(before) = m - 1
      <3>1. before \in Seq({all[i] : i \in DOMAIN all}) /\ Len(before) = m - 1
        BY <1>1, <1>3, <1>4, <2>1, SubSeqProperties
      <3>. QED  BY <3>1, SequenceIn
    <2>3. Sequence(torn) /\ Len(torn) = 1 /\ torn[1] = [all[m] EXCEPT !.name = TornName]
      <3>1. torn \in Seq({torn[1]})
        OBVIOUS
      <3>. QED  BY <3>1, SequenceIn
    <2>4. torn[1].kind = "file" /\ torn[1].name = TornName
      <3>1. m \in Positions(all, "file")
        BY <1>3, <1>4, <2>1 DEF Positions
      <3>2. DOMAIN all[m] = {"kind", "name", "hash"}
        BY <1>2, <1>5, <3>1
      <3>. QED  BY <2>1, <2>3, <3>2
    <2>5. cut = before \o torn
      BY <2>1
    <2>. HIDE DEF before, torn
    <2>6. Sequence(before) /\ Sequence(torn)
      BY <2>2, <2>3
    <2>7. Sequence(cut) /\ Len(cut) = Len(before) + Len(torn)
      BY <2>5, <2>6, SequenceConcat
    <2>8. \A i \in 1 .. Len(torn) : cut[Len(before) + i] = torn[i]
      BY <2>5, <2>6, SequenceConcat
    <2>9. Len(cut) = m /\ cut[m] = torn[1] /\ m \in Nat \ {0}
      <3>1. m \in Nat \ {0} /\ m - 1 + 1 = m /\ 1 \in 1 .. 1
        BY <1>1, <1>3
      <3>. QED  BY <2>2, <2>3, <2>7, <2>8, <3>1
    <2>10. m \in Positions(cut, "file")
      BY <2>4, <2>7, <2>9, SequenceFacts DEF Positions
    <2>. QED  BY <2>4, <2>9, <2>10 DEF NeverPasses, Names
  <1>. QED  BY <1>6, <1>7 DEF CutShort, all

-----------------------------------------------------------------------------
(* The steps.                                                              *)
LEMMA Overlay ==
  ASSUME NEW t, NEW v, NEW g, g = Put(t, v)
  PROVE  /\ DOMAIN g = DOMAIN elfs \cup {t} /\ IsFunction(g)
         /\ g[t] = v /\ \A x \in DOMAIN elfs \ {t} : g[x] = elfs[x]
  BY DEF IsFunction, Put

LEMMA InitInv == Init => Inv
  <1>. SUFFICES ASSUME Init PROVE Inv
    OBVIOUS
  <1>1. IsFunction(config) /\ DOMAIN config = CONFIGS
    BY DEF Init, IsFunction
  <1>2. IsFunction(<< >>) /\ DOMAIN << >> = {}
    BY DEF IsFunction
  <1>3. TypesInv
    BY <1>1, <1>2, ComplianceAssumption DEF Init, TypesInv
  <1>4. ExportInv
    BY DEF Init, Idle, ExportInv
  <1>5. ManifestInv
    BY DEF Init, NoManifest, ManifestInv
  <1>. QED  BY <1>3, <1>4, <1>5 DEF Inv

(* The last completed export is remembered by WriteManifest only. *)
LastKept == /\ last'.elfs = last.elfs /\ last'.config = last.config
            /\ last'.exclude = last.exclude /\ last'.total = last.total
            /\ DOMAIN last' = DOMAIN last

LEMMA KeepsLast ==
  ASSUME TypesInv, [Next]_vars, ~ WriteManifest
  PROVE  LastKept
  <1>1. ASSUME NEW e, NEW h,
               \/ last' = [last EXCEPT !.exit = e, !.found = h]
               \/ last' = [last EXCEPT !.exit = e]
        PROVE  LastKept
    BY <1>1 DEF TypesInv, LastKept
  <1>2. CASE UNCHANGED last
    BY <1>2 DEF LastKept
  <1>3. CASE Damage \/ ExportStart \/ ToolsRefuse \/ Crash
    BY <1>1, <1>3 DEF Damage, ExportStart, ToolsRefuse, Crash, Refuse
  <1>4. CASE AskTools \/ Copy \/ Verify
    BY <1>1, <1>2, <1>4 DEF AskTools, Copy, Verify, Refuse, Abort
  <1>5. CASE \/ Regenerate \/ EditConfig \/ EditOverride \/ EditRunCompliance
             \/ GenerateSailConfig \/ RemoveOld \/ UNCHANGED vars
    BY <1>2, <1>5 DEF Regenerate, EditConfig, EditOverride, EditRunCompliance,
       GenerateSailConfig, RemoveOld, vars
  <1>. QED  BY <1>3, <1>4, <1>5 DEF Next

LEMMA TypesStep ==
  ASSUME Inv, [Next]_vars
  PROVE  TypesInv'
  <1>. USE DEF Inv
  <1>1. DOMAIN config' = CONFIGS /\ IsFunction(config')
    <2>1. ASSUME NEW f, NEW v, config' = [config EXCEPT ![f] = v]
          PROVE  DOMAIN config' = CONFIGS /\ IsFunction(config')
      BY <2>1 DEF TypesInv, IsFunction
    <2>2. CASE UNCHANGED config
      BY <2>2 DEF TypesInv
    <2>3. CASE EditConfig \/ GenerateSailConfig
      BY <2>1, <2>3 DEF EditConfig, GenerateSailConfig
    <2>4. CASE ~ (EditConfig \/ GenerateSailConfig)
      BY <2>2, <2>4 DEF Next, vars, inputs, Regenerate, EditOverride, EditRunCompliance,
         Damage, ExportStart, RemoveOld, AskTools, ToolsRefuse, Copy, Verify,
         WriteManifest, Crash
    <2>. QED  BY <2>3, <2>4
  <1>2. runc' \in Settings
    BY DEF TypesInv, Next, vars, inputs, Regenerate, EditConfig, EditOverride,
       EditRunCompliance, GenerateSailConfig, Damage, ExportStart, RemoveOld, AskTools,
       ToolsRefuse, Copy, Verify, WriteManifest, Crash
  <1>3. DOMAIN work' \subseteq Tests
    <2>1. CASE Regenerate
      BY <2>1 DEF Regenerate, Wanted
    <2>2. CASE UNCHANGED work
      BY <2>2 DEF TypesInv
    <2>. QED  BY <2>1, <2>2 DEF Next, vars, EditConfig, EditOverride, EditRunCompliance,
      GenerateSailConfig, Damage, ExportStart, RemoveOld, AskTools, ToolsRefuse, Copy,
      Verify, WriteManifest, Crash
  <1>4. DOMAIN elfs' \subseteq Tests /\ IsFunction(elfs')
    <2>1. CASE UNCHANGED elfs
      BY <2>1 DEF TypesInv
    <2>2. ASSUME NEW S \in SUBSET DOMAIN elfs, elfs' = Restrict(elfs, S)
          PROVE  DOMAIN elfs' \subseteq Tests /\ IsFunction(elfs')
      BY <2>2 DEF TypesInv, IsFunction, Restrict
    <2>3. ASSUME NEW t \in Tests, NEW v, elfs' = Put(t, v)
          PROVE  DOMAIN elfs' \subseteq Tests /\ IsFunction(elfs')
      BY <2>3 DEF TypesInv, IsFunction, Put
    <2>4. CASE Damage
      BY <2>2, <2>3, <2>4 DEF Damage
    <2>5. CASE RemoveOld
      BY <2>1, <2>2, <2>5 DEF RemoveOld
    <2>6. export.pc \in {"copy", "verify"} => Head(export.todo) \in Tests
      <3>1. ASSUME export.pc \in {"copy", "verify"}
            PROVE  export.todo \in Seq(Tests) /\ export.todo # << >>
        BY <3>1 DEF ExportInv, Progress
      <3>. QED  BY <3>1, HeadTailProperties
    <2>7. CASE Copy
      BY <2>1, <2>3, <2>6, <2>7 DEF Copy
    <2>8. CASE Crash
      BY <2>1, <2>3, <2>6, <2>8 DEF Crash
    <2>. QED  BY <2>1, <2>4, <2>5, <2>7, <2>8 DEF Next, vars, Committed, Regenerate,
      EditConfig, EditOverride, EditRunCompliance, GenerateSailConfig, ExportStart,
      AskTools, ToolsRefuse, Verify, WriteManifest
  <1>5. /\ {"elfs", "config", "exclude", "total", "exit", "found"} \subseteq DOMAIN last'
        /\ IsFunction(last'.elfs)
        /\ DOMAIN last'.config = CONFIGS /\ IsFunction(last'.config)
    <2>1. CASE ~ WriteManifest
      BY <2>1, KeepsLast DEF LastKept, TypesInv
    <2>2. CASE WriteManifest
      <3>1. CASE UNCHANGED << elfs, config >> /\ last' =
                   [elfs |-> elfs, config |-> config, exclude |-> export.exclude,
                    total |-> export.total, quiet |-> events = export.events,
                    exit |-> 0, found |-> << >>]
        BY <3>1 DEF TypesInv
      <3>2. CASE last' = [last EXCEPT !.exit = 2, !.found = export.found]
        BY <3>2 DEF TypesInv
      <3>3. CASE last' = [last EXCEPT !.exit = 1]
        BY <3>3 DEF TypesInv
      <3>. QED  BY <2>2, <3>1, <3>2, <3>3 DEF WriteManifest, Refuse, Abort, inputs
    <2>. QED  BY <2>1, <2>2
  <1>. QED  BY <1>1, <1>2, <1>3, <1>4, <1>5 DEF TypesInv

LEMMA SameDescription ==
  ASSUME NEW lines, NEW k, NEW l, Describes(lines, k),
         l.elfs = k.elfs, l.config = k.config, l.exclude = k.exclude, l.total = k.total
  PROVE  Describes(lines, l)
  <1>1. \A i \in Positions(lines, "file") :
          lines[i].name \in DOMAIN l.elfs /\ lines[i].hash = l.elfs[lines[i].name]
    BY DEF Describes
  <1>2. \A file \in CONFIGS : \E i \in Positions(lines, "config") :
          lines[i].name = file /\ lines[i].hash = l.config[file]
    BY DEF Describes
  <1>. QED  BY <1>1, <1>2 DEF Describes

LEMMA SameManifest ==
  ASSUME ManifestInv, LastKept, UNCHANGED manifest
  PROVE  ManifestInv'
  <1>. SUFFICES ASSUME manifest.exists
                PROVE  (Describes(manifest.lines, last) \/ NeverPasses(manifest.lines))'
    BY DEF ManifestInv
  <1>1. CASE Describes(manifest.lines, last)
    <2>1. Describes(manifest.lines, last')
      BY <1>1, SameDescription DEF LastKept
    <2>. QED  BY <2>1 DEF Describes, Names, Positions, CONFIGS
  <1>2. CASE NeverPasses(manifest.lines)
    BY <1>2 DEF NeverPasses, Names, Positions
  <1>. QED  BY <1>1, <1>2 DEF ManifestInv

LEMMA ManifestStep ==
  ASSUME Inv, [Next]_vars
  PROVE  ManifestInv'
  <1>. USE DEF Inv
  <1>1. CASE WriteManifest
    <2>1. CASE manifest' = manifest /\ last' = [last EXCEPT !.exit = 2, !.found = export.found]
      <3>1. LastKept
        BY <2>1 DEF LastKept, TypesInv
      <3>. QED  BY <2>1, <3>1, SameManifest
    <2>2. CASE /\ manifest' = [exists |-> TRUE, lines |-> ManifestLines]
               /\ last' = [elfs |-> elfs, config |-> config, exclude |-> export.exclude,
                           total |-> export.total, quiet |-> events = export.events,
                           exit |-> 0, found |-> << >>]
      <3>1. /\ last'.elfs = elfs /\ last'.config = config
            /\ last'.exclude = export.exclude /\ last'.total = export.total
        BY <2>2
      <3>2. Describes(ManifestLines, last')
        BY <1>1, <3>1, WholeDescribes DEF WriteManifest
      <3>. QED  BY <2>2, <3>2 DEF ManifestInv, Describes, CONFIGS
    <2>3. CASE manifest' = [exists |-> TRUE, lines |-> ManifestLines] /\ export.lines = << >>
      <3>1. Progress /\ Len(export.lines) = 0
        BY <1>1, <2>3 DEF WriteManifest, ExportInv
      <3>2. Positions(ManifestLines, "file") =
              {2 + Cardinality(CONFIGS) + i : i \in 1 .. Len(export.lines)}
        BY <3>1, PositionsOfLines
      <3>3. Positions(ManifestLines, "file") = {}
        BY <3>1, <3>2
      <3>4. NeverPasses(ManifestLines)
        BY <3>3 DEF NeverPasses
      <3>. QED  BY <2>3, <3>4 DEF ManifestInv, NeverPasses
    <2>. QED  BY <1>1, <2>1, <2>2, <2>3 DEF WriteManifest, Refuse
  <1>2. CASE ~ WriteManifest
    <2>1. LastKept
      BY <1>2, KeepsLast
    <2>2. CASE UNCHANGED manifest
      BY <2>1, <2>2, SameManifest
    <2>3. CASE RemoveOld
      BY <2>2, <2>3 DEF RemoveOld, NoManifest, ManifestInv
    <2>4. CASE Crash
      <3>1. ASSUME NEW cut \in CutShort(ManifestLines), export.pc = "manifest",
                   manifest' = [exists |-> TRUE, lines |-> cut]
            PROVE  ManifestInv'
        <4>1. NeverPasses(cut)
          BY <3>1, CutNeverPasses
        <4>. QED  BY <3>1, <4>1 DEF ManifestInv, NeverPasses
      <3>. QED  BY <2>2, <2>4, <3>1 DEF Crash
    <2>. QED  BY <1>2, <2>2, <2>3, <2>4 DEF Next, vars, Committed, Regenerate, EditConfig,
      EditOverride, EditRunCompliance, GenerateSailConfig, Damage, ExportStart,
      AskTools, ToolsRefuse, Copy, Verify
  <1>. QED  BY <1>1, <1>2

(* Only pc changes. *)
LEMMA SameProgress ==
  ASSUME Progress, NEW pc, export' = [export EXCEPT !.pc = pc]
  PROVE  /\ Progress' /\ export'.pc = pc
         /\ export'.todo = export.todo /\ export'.lines = export.lines
  <1>1. /\ export'.pc = pc /\ export'.todo = export.todo /\ export'.lines = export.lines
        /\ export'.total = export.total /\ DOMAIN export' = DOMAIN export
    BY DEF Progress
  <1>. QED  BY <1>1 DEF Progress, Sequence

LEMMA StartProgress ==
  ASSUME Inv, ExportStart
  PROVE  ExportInv'
  <1>. DEFINE S == DOMAIN work
  <1>1. export'.todo = SetToSeq(S) /\ export'.lines = << >> /\ export'.total = Cardinality(S)
        /\ {"pc", "todo", "lines"} \subseteq DOMAIN export'
        /\ export'.pc \in {"remove", "tools"}
        /\ (export'.pc = "tools" => elfs' = << >>)
    BY DEF ExportStart, Occupied
  <1>2. IsFiniteSet(S) /\ S \subseteq Tests
    BY ComplianceAssumption, FS_Subset DEF Inv, TypesInv
  <1>3. /\ Cardinality(S) \in Nat /\ SetToSeq(S) \in [1 .. Cardinality(S) -> S]
        /\ \A i, j \in 1 .. Cardinality(S) : SetToSeq(S)[i] = SetToSeq(S)[j] => i = j
    BY <1>2, SetToSeqFacts
  <1>4. SetToSeq(S) \in Seq(Tests) /\ Len(SetToSeq(S)) = Cardinality(S)
    <2>1. SetToSeq(S) \in [1 .. Cardinality(S) -> Tests]
      BY <1>2, <1>3
    <2>2. SetToSeq(S) \in Seq(Tests)
      BY <1>3, <2>1, SeqDef
    <2>. QED  BY <1>3, <2>2, LenProperties
  <1>. HIDE DEF S
  <1>5. Sequence(<< >>) /\ Len(<< >>) = 0
    <2>1. << >> \in Seq(Tests)
      OBVIOUS
    <2>. QED  BY <2>1, SequenceIn
  <1>6. Progress'
    BY <1>1, <1>3, <1>4, <1>5 DEF Progress, Sequence
  <1>. QED  BY <1>1, <1>6 DEF ExportInv

LEMMA CopyProgress ==
  ASSUME Inv, Copy
  PROVE  ExportInv'
  <1>. DEFINE t == Head(export.todo)
  <1>1. /\ Progress /\ export.todo # << >> /\ DOMAIN elfs = Written
        /\ \A i \in 1 .. Len(export.lines) : elfs[export.lines[i].name] = export.lines[i].hash
    BY DEF Inv, ExportInv, Copy
  <1>2. CASE t \notin DOMAIN work
    BY <1>2 DEF Copy, Abort, Idle, ExportInv
  <1>3. CASE t \in DOMAIN work
    <2>1. elfs' = Put(t, work[t]) /\ export' = [export EXCEPT !.pc = "verify"]
      BY <1>3 DEF Copy
    <2>2. Progress' /\ export'.pc = "verify"
          /\ export'.todo = export.todo /\ export'.lines = export.lines
      BY <1>1, <2>1, SameProgress
    <2>3. DOMAIN elfs' = Written \cup {t}
          /\ \A u \in DOMAIN elfs \ {t} : elfs'[u] = elfs[u]
      BY <1>1, <2>1 DEF Put
    <2>4. t = export.todo[1] /\ 1 \in 1 .. Len(export.todo)
      BY <1>1, HeadTailProperties, EmptySeq DEF Progress
    <2>5. ASSUME NEW i \in 1 .. Len(export.lines)
          PROVE  elfs'[export.lines[i].name] = export.lines[i].hash
      <3>1. export.lines[i].name \in Written
        BY DEF Written
      <3>2. export.lines[i].name # t
        BY <1>1, <2>4 DEF Progress
      <3>. QED  BY <1>1, <2>3, <3>1, <3>2
    <2>6. DOMAIN elfs' = Written' \cup {Head(export'.todo)}
      BY <2>2, <2>3 DEF Written
    <2>. QED  BY <1>1, <2>2, <2>5, <2>6 DEF ExportInv
  <1>. QED  BY <1>2, <1>3

LEMMA VerifyProgress ==
  ASSUME Inv, Verify
  PROVE  ExportInv'
  <1>. DEFINE t == Head(export.todo)
              line == [kind |-> "file", name |-> t, hash |-> elfs[t]]
  <1>1. /\ Progress /\ export.todo # << >> /\ DOMAIN elfs = Written \cup {t}
        /\ \A i \in 1 .. Len(export.lines) : elfs[export.lines[i].name] = export.lines[i].hash
    BY DEF Inv, ExportInv, Verify
  <1>2. CASE export' = Idle
    BY <1>2 DEF Idle, ExportInv
  <1>3. CASE export' = [export EXCEPT
               !.pc    = IF Len(export.todo) = 1 THEN "manifest" ELSE "copy",
               !.todo  = Tail(export.todo),
               !.lines = Append(@, line)] /\ elfs' = elfs
    <2>. DEFINE n == Len(export.lines)
                k == Len(export.todo)
    <2>1. /\ export'.pc = IF k = 1 THEN "manifest" ELSE "copy"
          /\ export'.todo = Tail(export.todo)
          /\ export'.lines = Append(export.lines, line)
          /\ export'.total = export.total /\ DOMAIN export' = DOMAIN export
      BY <1>1, <1>3 DEF Progress
    <2>2. n \in Nat /\ k \in Nat \ {0} /\ export.todo \in Seq(Tests)
      BY <1>1, SequenceFacts, EmptySeq, LenProperties DEF Progress
    <2>3. /\ Sequence(export'.lines) /\ Len(export'.lines) = n + 1
          /\ \A i \in 1 .. n : export'.lines[i] = export.lines[i]
          /\ export'.lines[n + 1] = line
      BY <1>1, <2>1, SequenceAppend DEF Progress
    <2>4. /\ t = export.todo[1]
          /\ export'.todo \in Seq(Tests) /\ Len(export'.todo) = k - 1
          /\ \A j \in 1 .. k - 1 : export'.todo[j] = export.todo[j + 1]
      BY <1>1, <2>1, <2>2, HeadTailProperties
    <2>. HIDE DEF t, n, k
    <2>5. \A i \in 1 .. n + 1 : i \in 1 .. n \/ i = n + 1
      BY <2>2
    <2>6. \A j \in 1 .. k - 1 : j + 1 \in 1 .. k /\ j + 1 # 1
      BY <2>2
    <2>7. \A i, j \in 1 .. k - 1 : export'.todo[i] = export'.todo[j] => i = j
      <3>1. \A i, j \in 1 .. k : export.todo[i] = export.todo[j] => i = j
        BY <1>1 DEF Progress, k
      <3>2. ASSUME NEW i \in 1 .. k - 1, NEW j \in 1 .. k - 1, export'.todo[i] = export'.todo[j]
            PROVE  i = j
        <4>1. export.todo[i + 1] = export.todo[j + 1]
          BY <2>4, <3>2
        <4>2. i + 1 = j + 1
          BY <2>6, <3>1, <4>1
        <4>. QED  BY <2>2, <4>2
      <3>. QED  BY <3>2
    <2>8. ASSUME NEW i \in 1 .. n + 1
          PROVE  /\ export'.lines[i].kind = "file"
                 /\ DOMAIN export'.lines[i] = {"kind", "name", "hash"}
                 /\ \A j \in 1 .. k - 1 : export'.todo[j] # export'.lines[i].name
                 /\ elfs'[export'.lines[i].name] = export'.lines[i].hash
      <3>1. CASE i \in 1 .. n
        <4>1. /\ export.lines[i].kind = "file"
              /\ DOMAIN export.lines[i] = {"kind", "name", "hash"}
              /\ \A j \in 1 .. k : export.todo[j] # export.lines[i].name
          BY <1>1, <3>1 DEF Progress, n, k
        <4>. QED  BY <1>1, <1>3, <2>3, <2>4, <2>6, <3>1, <4>1 DEF n
      <3>2. CASE i = n + 1
        <4>1. line.kind = "file" /\ DOMAIN line = {"kind", "name", "hash"}
              /\ line.name = t /\ line.hash = elfs[t]
          OBVIOUS
        <4>2. ASSUME NEW j \in 1 .. k - 1 PROVE export'.todo[j] # t
          <5>1. \A a, b \in 1 .. k : export.todo[a] = export.todo[b] => a = b
            BY <1>1 DEF Progress, k
          <5>2. 1 \in 1 .. k
            BY <2>2
          <5>. QED  BY <2>4, <2>6, <5>1, <5>2
        <4>. HIDE DEF line
        <4>. QED  BY <1>3, <2>3, <3>2, <4>1, <4>2
      <3>. QED  BY <2>5, <3>1, <3>2
    <2>9. export'.total = Len(export'.lines) + Len(export'.todo)
      BY <1>1, <2>1, <2>2, <2>3, <2>4 DEF Progress, n, k
    <2>10. Progress'
      BY <1>1, <2>1, <2>3, <2>4, <2>7, <2>8, <2>9 DEF Progress
    <2>11. DOMAIN elfs' = Written'
      <3>1. \A i \in 1 .. n : i \in 1 .. n + 1
        BY <2>2
      <3>2. n + 1 \in 1 .. n + 1
        BY <2>2
      <3>3. Written' = {export'.lines[i].name : i \in 1 .. n + 1}
        BY <2>3 DEF Written
      <3>4. Written = {export.lines[i].name : i \in 1 .. n}
        BY DEF Written, n
      <3>5. export'.lines[n + 1].name = t
        BY <2>3
      <3>. QED  BY <1>1, <1>3, <2>3, <2>5, <3>1, <3>2, <3>3, <3>4, <3>5 DEF t
    <2>12. export'.pc = "manifest" => export'.todo = << >>
      BY <2>1, <2>2, <2>4, EmptySeq
    <2>13. export'.pc = "copy" => export'.todo # << >>
      <3>1. Len(export'.todo) = k - 1 /\ k \in Nat
        BY <2>2, <2>4
      <3>2. export'.pc = "copy" => k # 1
        BY <2>1
      <3>3. export'.todo = << >> => Len(export'.todo) = 0
        OBVIOUS
      <3>. QED  BY <3>1, <3>2, <3>3
    <2>. QED  BY <2>1, <2>3, <2>8, <2>10, <2>11, <2>12, <2>13 DEF ExportInv
  <1>. QED  BY <1>2, <1>3 DEF Verify, Refuse, Abort

LEMMA ExportStep ==
  ASSUME Inv, [Next]_vars
  PROVE  ExportInv'
  <1>. USE DEF Inv
  <1>1. CASE ExportStart
    BY <1>1, StartProgress
  <1>2. CASE Copy
    BY <1>2, CopyProgress
  <1>3. CASE Verify
    BY <1>3, VerifyProgress
  <1>4. CASE export' = Idle
    BY <1>4 DEF Idle, ExportInv
  <1>5. CASE UNCHANGED << export, elfs >>
    <2>1. Progress' <=> Progress
      BY <1>5 DEF Progress, Sequence
    <2>2. Written' = Written
      BY <1>5 DEF Written
    <2>. QED  BY <1>5, <2>1, <2>2 DEF ExportInv
  <1>6. CASE Damage
    BY <1>6 DEF Damage, ExportInv
  <1>7. CASE RemoveOld
    <2>1. PICK pc \in {"tools", "remove"} :
            /\ export' = [export EXCEPT !.pc = pc]
            /\ pc = "tools" => elfs' = << >>
      BY <1>7 DEF RemoveOld
    <2>2. Progress /\ export.lines = << >>
      BY <1>7 DEF RemoveOld, ExportInv
    <2>3. Progress' /\ export'.pc = pc /\ export'.lines = export.lines
      BY <2>1, <2>2, SameProgress
    <2>. QED  BY <2>1, <2>2, <2>3 DEF ExportInv
  <1>8. CASE AskTools
    <2>1. Progress /\ export.lines = << >> /\ elfs' = << >>
      BY <1>8 DEF AskTools, ExportInv
    <2>2. CASE export' = [export EXCEPT
                 !.pc = IF export.todo = << >> THEN "manifest" ELSE "copy"]
      <3>1. /\ Progress' /\ export'.todo = export.todo /\ export'.lines = << >>
            /\ export'.pc = IF export.todo = << >> THEN "manifest" ELSE "copy"
        BY <2>1, <2>2, SameProgress
      <3>2. 1 .. Len(export'.lines) = {}
        BY <3>1
      <3>3. Written' = {} /\ DOMAIN elfs' = {}
        BY <2>1, <3>2 DEF Written
      <3>. QED  BY <3>1, <3>2, <3>3 DEF ExportInv
    <2>. QED  BY <1>4, <1>8, <2>2 DEF AskTools, Abort
  <1>9. CASE ToolsRefuse \/ WriteManifest \/ Crash
    BY <1>4, <1>9 DEF ToolsRefuse, WriteManifest, Crash, Refuse, Abort
  <1>10. CASE \/ Regenerate \/ EditConfig \/ EditOverride \/ EditRunCompliance
              \/ GenerateSailConfig \/ UNCHANGED vars
    BY <1>5, <1>10 DEF Regenerate, EditConfig, EditOverride, EditRunCompliance,
       GenerateSailConfig, vars
  <1>. QED  BY <1>1, <1>2, <1>3, <1>6, <1>7, <1>8, <1>9, <1>10 DEF Next

LEMMA NextInv == Inv /\ [Next]_vars => Inv'
  BY TypesStep, ExportStep, ManifestStep DEF Inv

(* PassIsTheLastExport for any programs, suites, settings, configurations  *)
(* and any number of edits, damages and crashes: what check_elfs.py passes *)
(* is, file for file, what the last completed export wrote.                *)
THEOREM PassIsExported == Spec => []PassIsTheLastExport
  BY InitInv, NextInv, InvMeansLastExport, PTL DEF Spec

(* PassIsFresh, for every instance: a set that passes, exported from an    *)
(* up-to-date work tree, was built from the configurations of the tree.    *)
THEOREM PassIsBuiltFromTheTree == Spec => []PassIsFresh
  <1>1. PassIsTheLastExport => PassIsFresh
    BY DEF PassIsTheLastExport, PassIsFresh
  <1>. QED  BY PassIsExported, <1>1, PTL

(* What ComplianceTypeOK says of the variables Inv does not mention. *)
Others ==
  /\ override \in Overrides
  /\ events \in 0 .. MaxEvents
  /\ manifest.exists \in BOOLEAN

LEMMA OthersStep == Others /\ [Next]_vars => Others'
  <1>. SUFFICES ASSUME Others, [Next]_vars PROVE Others'
    OBVIOUS
  <1>1. override' \in Overrides
    BY DEF Others, Next, vars, inputs, Regenerate, EditConfig, EditOverride,
       EditRunCompliance, GenerateSailConfig, Damage, ExportStart, RemoveOld, AskTools,
       ToolsRefuse, Copy, Verify, WriteManifest, Crash
  <1>2. events' \in 0 .. MaxEvents
    <2>1. CASE Event
      BY <2>1, ComplianceAssumption DEF Event, Others
    <2>2. CASE UNCHANGED events
      BY <2>2 DEF Others
    <2>. QED  BY <2>1, <2>2 DEF Next, vars, Regenerate, EditConfig, EditOverride,
      EditRunCompliance, GenerateSailConfig, Damage, ExportStart, RemoveOld, AskTools,
      ToolsRefuse, Copy, Verify, WriteManifest, Crash
  <1>3. manifest'.exists \in BOOLEAN
    <2>1. CASE UNCHANGED manifest
      BY <2>1 DEF Others
    <2>2. ASSUME NEW lines, manifest' = [exists |-> TRUE, lines |-> lines]
          PROVE  manifest'.exists \in BOOLEAN
      BY <2>2
    <2>3. CASE WriteManifest
      BY <2>1, <2>2, <2>3 DEF WriteManifest
    <2>4. CASE Crash
      <3>1. \/ UNCHANGED manifest
            \/ \E cut : manifest' = [exists |-> TRUE, lines |-> cut]
        BY <2>4 DEF Crash
      <3>. QED  BY <2>1, <2>2, <3>1
    <2>5. CASE RemoveOld
      <3>1. manifest' = NoManifest => manifest'.exists \in BOOLEAN
        BY DEF NoManifest
      <3>. QED  BY <2>1, <2>5, <3>1 DEF RemoveOld
    <2>. QED  BY <2>1, <2>3, <2>4, <2>5 DEF Next, vars, Committed, Regenerate, EditConfig,
      EditOverride, EditRunCompliance, GenerateSailConfig, Damage, ExportStart, AskTools,
      ToolsRefuse, Copy, Verify
  <1>. QED  BY <1>1, <1>2, <1>3 DEF Others

(* ComplianceTypeOK for every instance and any number of events. *)
THEOREM ComplianceTypes == Spec => []ComplianceTypeOK
  <1>1. Init => Others
    BY ComplianceAssumption DEF Init, Others, NoManifest
  <1>2. Inv /\ Others => ComplianceTypeOK
    BY DEF Inv, Others, TypesInv, ExportInv, ComplianceTypeOK
  <1>. QED  BY InitInv, NextInv, OthersStep, <1>1, <1>2, PTL DEF Spec

-----------------------------------------------------------------------------
(* As long as nothing happens besides the export, the settings are those   *)
(* it read at its start; and it writes no name down twice.                 *)
Undisturbed ==
  export.pc # "idle" =>
    /\ export.events \in Nat /\ export.events <= events
    /\ export.events = events =>
         runc.single /\ runc.total = export.total /\ runc.exclude = export.exclude
    /\ \A i, j \in 1 .. Len(export.lines) :
         export.lines[i].name = export.lines[j].name => i = j

LEMMA VerifyUndisturbed ==
  ASSUME Inv, Undisturbed, Verify
  PROVE  Undisturbed'
  <1>. DEFINE t == Head(export.todo)
              line == [kind |-> "file", name |-> t, hash |-> elfs[t]]
              n == Len(export.lines)
  <1>1. Progress /\ export.todo # << >> /\ export.pc # "idle"
    BY DEF Inv, ExportInv, Verify
  <1>2. CASE export' = Idle
    BY <1>2 DEF Idle, Undisturbed
  <1>3. CASE export' = [export EXCEPT
               !.pc    = IF Len(export.todo) = 1 THEN "manifest" ELSE "copy",
               !.todo  = Tail(export.todo),
               !.lines = Append(@, line)]
    <2>1. /\ export'.events = export.events /\ export'.total = export.total
          /\ export'.exclude = export.exclude
          /\ export'.lines = Append(export.lines, line)
      BY <1>1, <1>3 DEF Progress
    <2>2. n \in Nat /\ Len(export.todo) \in Nat \ {0}
      BY <1>1, SequenceFacts, EmptySeq, LenProperties DEF Progress
    <2>3. /\ Len(export'.lines) = n + 1
          /\ \A i \in 1 .. n : export'.lines[i] = export.lines[i]
          /\ export'.lines[n + 1] = line
      BY <1>1, <2>1, SequenceAppend DEF Progress
    <2>4. \A i \in 1 .. n : export.lines[i].name # t
      <3>1. t = export.todo[1] /\ 1 \in 1 .. Len(export.todo)
        BY <1>1, <2>2 DEF Progress
      <3>. QED  BY <1>1, <3>1 DEF Progress
    <2>5. line.name = t
      OBVIOUS
    <2>. HIDE DEF line, t, n
    <2>6. ASSUME NEW i \in 1 .. n + 1, NEW j \in 1 .. n + 1,
                 export'.lines[i].name = export'.lines[j].name
          PROVE  i = j
      <3>1. \A m \in 1 .. n + 1 : m \in 1 .. n \/ m = n + 1
        BY <2>2
      <3>2. \A a, b \in 1 .. n : export.lines[a].name = export.lines[b].name => a = b
        BY <1>1 DEF Undisturbed, n
      <3>. QED  BY <2>3, <2>4, <2>5, <2>6, <3>1, <3>2
    <2>7. UNCHANGED << events, runc >>
      BY DEF Verify, inputs
    <2>. QED  BY <1>1, <2>1, <2>3, <2>6, <2>7 DEF Undisturbed
  <1>. QED  BY <1>2, <1>3 DEF Verify, Refuse, Abort

LEMMA UndisturbedStep ==
  ASSUME Inv, Others, Undisturbed, [Next]_vars
  PROVE  Undisturbed'
  <1>1. ASSUME NEW pc, export.pc # "idle", export' = [export EXCEPT !.pc = pc],
               UNCHANGED << events, runc >>
        PROVE  Undisturbed'
    <2>1. Progress
      BY <1>1 DEF Inv, ExportInv
    <2>2. /\ export'.events = export.events /\ export'.total = export.total
          /\ export'.exclude = export.exclude /\ export'.lines = export.lines
      BY <1>1, <2>1 DEF Progress
    <2>. QED  BY <1>1, <2>2 DEF Undisturbed
  <1>2. CASE export' = Idle
    BY <1>2 DEF Idle, Undisturbed
  <1>3. ASSUME Event, UNCHANGED export PROVE Undisturbed'
    BY <1>3 DEF Event, Others, Undisturbed
  <1>4. CASE UNCHANGED << export, events, runc >>
    BY <1>4 DEF Undisturbed
  <1>5. CASE ExportStart
    <2>1. /\ export'.events = events /\ export'.total = runc.total
          /\ export'.exclude = runc.exclude /\ export'.lines = << >>
          /\ runc.single /\ UNCHANGED << events, runc >>
      BY <1>5 DEF ExportStart, inputs
    <2>2. events \in Nat /\ events <= events
      BY DEF Others
    <2>3. 1 .. Len(export'.lines) = {}
      BY <2>1
    <2>. QED  BY <2>1, <2>2, <2>3 DEF Undisturbed
  <1>6. CASE RemoveOld
    BY <1>1, <1>6 DEF RemoveOld, inputs
  <1>7. CASE AskTools
    BY <1>1, <1>2, <1>7 DEF AskTools, Abort, inputs
  <1>8. CASE Copy
    BY <1>1, <1>2, <1>8 DEF Copy, Abort, inputs
  <1>9. CASE Verify
    BY <1>9, VerifyUndisturbed
  <1>10. CASE ToolsRefuse \/ WriteManifest \/ Crash
    <2>1. CASE export' = Idle
      BY <1>2, <2>1
    <2>. QED  BY <1>10, <2>1 DEF ToolsRefuse, WriteManifest, Crash, Refuse, Abort
  <1>11. CASE EditConfig \/ EditOverride \/ EditRunCompliance \/ GenerateSailConfig \/ Damage
    BY <1>3, <1>11 DEF EditConfig, EditOverride, EditRunCompliance, GenerateSailConfig, Damage
  <1>12. CASE Regenerate \/ UNCHANGED vars
    BY <1>4, <1>12 DEF Regenerate, vars, inputs
  <1>. QED  BY <1>5, <1>6, <1>7, <1>8, <1>9, <1>10, <1>11, <1>12 DEF Next

(* What check_elfs.py wants of a manifest, line by line.                   *)
Matches ==
  /\ runc.single /\ manifest.exists
  /\ \A kind \in {"exclude", "total", "config", "file"} : Positions(manifest.lines, kind) # {}
  /\ Cardinality(Names(manifest.lines)) = runc.total
  /\ Cardinality(Positions(manifest.lines, "file")) = runc.total
  /\ \A i \in Positions(manifest.lines, "exclude") : manifest.lines[i].value = runc.exclude
  /\ \A i \in Positions(manifest.lines, "total") : manifest.lines[i].value = runc.total
  /\ \A i \in Positions(manifest.lines, "config") :
       config[manifest.lines[i].name] = manifest.lines[i].hash
  /\ \A i \in Positions(manifest.lines, "file") :
       /\ manifest.lines[i].name \in DOMAIN elfs
       /\ elfs[manifest.lines[i].name] = manifest.lines[i].hash
  /\ DOMAIN elfs \subseteq Names(manifest.lines)

LEMMA MatchesPasses == Matches => CheckElfs = 0
  <1>. SUFFICES ASSUME Matches PROVE SetUp /\ FilesAgree /\ SettingsAgree /\ ConfigsAgree
    BY DEF CheckElfs
  <1>. DEFINE lines == manifest.lines
  <1>1. \A kind : Lines(kind) = Positions(lines, kind)
    BY DEF Lines, Positions
  <1>2. Listed = Names(lines)
    BY <1>1 DEF Listed, Entries, Names
  <1>3. SetUp
    BY <1>1, <1>2 DEF Matches, SetUp
  <1>4. FilesAgree
    BY <1>1, <1>2 DEF Matches, FilesAgree, Entries
  <1>5. SettingsAgree
    <2>1. Values("total") = {runc.total}
      BY <1>1 DEF Matches, Values
    <2>2. Values("exclude") = {runc.exclude}
      BY <1>1 DEF Matches, Values
    <2>. QED  BY <1>2, <2>1, <2>2 DEF Matches, SettingsAgree
  <1>6. ConfigsAgree
    BY <1>1 DEF Matches, ConfigsAgree, Entries
  <1>. QED  BY <1>3, <1>4, <1>5, <1>6

(* As many names as positions, if no two are equal.                        *)
LEMMA AsManyNames ==
  ASSUME NEW m \in Nat, NEW f, \A i, j \in 1 .. m : f[i] = f[j] => i = j
  PROVE  Cardinality({f[i] : i \in 1 .. m}) = m
  <1>. DEFINE S == {f[i] : i \in 1 .. m}
              g == [i \in 1 .. m |-> f[i]]
  <1>1. g \in Injection(1 .. m, S)
    BY DEF Injection, IsInjective
  <1>2. IsFiniteSet(1 .. m) /\ Cardinality(1 .. m) = m
    BY FS_Interval
  <1>3. IsFiniteSet(S) /\ Cardinality(S) <= m
    BY FewNames
  <1>. HIDE DEF S, g
  <1>4. m <= Cardinality(S)
    BY <1>1, <1>2, <1>3, FS_Injection
  <1>5. Cardinality(S) \in Nat
    BY <1>3, FS_CardinalityType
  <1>6. Cardinality(S) = m
    BY <1>3, <1>4, <1>5
  <1>. QED  BY <1>6 DEF S

LEMMA CompletedMatches ==
  ASSUME Inv, Undisturbed, WriteManifest, last'.exit = 0, last'.quiet, manifest' # manifest
  PROVE  Matches'
  <1>. DEFINE c == Cardinality(CONFIGS)
              n == Len(export.lines)
              all == ManifestLines
  <1>1. /\ manifest' = [exists |-> TRUE, lines |-> all] /\ export.lines # << >>
        /\ events = export.events
    <2>1. CASE last' = [last EXCEPT !.exit = 1]
      BY <2>1 DEF Inv, TypesInv
    <2>2. CASE last' = [elfs |-> elfs, config |-> config, exclude |-> export.exclude,
                        total |-> export.total, quiet |-> events = export.events,
                        exit |-> 0, found |-> << >>]
      <3>1. events = export.events
        <4>1. SUFFICES ASSUME events # export.events PROVE FALSE
          OBVIOUS
        <4>2. (events = export.events) = FALSE
          BY <4>1, Zenon
        <4>3. last' = [elfs |-> elfs, config |-> config, exclude |-> export.exclude,
                       total |-> export.total, quiet |-> FALSE,
                       exit |-> 0, found |-> << >>]
          BY <2>2, <4>2, Zenon
        <4>4. last'.quiet = FALSE
          BY <4>3
        <4>. QED  BY <4>4, Zenon
      <3>2. manifest' = [exists |-> TRUE, lines |-> all] /\ (last' # [last EXCEPT !.exit = 1] => export.lines # << >>)
        BY DEF WriteManifest, Refuse, Abort
      <3>. QED  BY <2>1, <3>1, <3>2
    <2>. QED  BY <2>1, <2>2 DEF WriteManifest, Refuse, Abort
  <1>2. /\ Progress /\ export.todo = << >> /\ DOMAIN elfs = Written /\ export.pc # "idle"
        /\ \A i \in 1 .. n : elfs[export.lines[i].name] = export.lines[i].hash
    BY DEF Inv, ExportInv, WriteManifest
  <1>3. runc.single /\ runc.total = export.total /\ runc.exclude = export.exclude
        /\ \A i, j \in 1 .. n : export.lines[i].name = export.lines[j].name => i = j
    BY <1>1, <1>2 DEF Undisturbed
  <1>4. n \in Nat \ {0} /\ export.total = n
    <2>1. Len(export.todo) = 0
      BY <1>2
    <2>2. n \in Nat /\ n # 0
      BY <1>1, <1>2, SequenceFacts, EmptySeq DEF Progress, Sequence
    <2>. QED  BY <1>2, <2>1, <2>2 DEF Progress
  <1>5. /\ Positions(all, "exclude") = {1}
        /\ Positions(all, "total") = {2}
        /\ Positions(all, "config") = {2 + i : i \in 1 .. c}
        /\ Positions(all, "file") = {2 + c + i : i \in 1 .. n}
    BY <1>2, PositionsOfLines
  <1>6. /\ c \in Nat
        /\ all[1] = [kind |-> "exclude", value |-> export.exclude]
        /\ all[2] = [kind |-> "total", value |-> export.total]
        /\ \A i \in 1 .. c : all[2 + i] =
             [kind |-> "config", name |-> SetToSeq(CONFIGS)[i],
              hash |-> config[SetToSeq(CONFIGS)[i]]]
        /\ \A i \in 1 .. n : all[2 + c + i] = export.lines[i]
    BY <1>2, LinesByPosition, Zenon DEF Progress
  <1>7. c # 0
    <2>1. IsFiniteSet(CONFIGS) /\ SailJson \in CONFIGS
      BY ComplianceAssumption, FS_AddElement DEF CONFIGS
    <2>. QED  BY <2>1, FS_EmptySet
  <1>. HIDE DEF c, n, all
  <1>8. \A kind \in {"exclude", "total", "config", "file"} : Positions(all, kind) # {}
    <2>1. 2 + 1 \in {2 + i : i \in 1 .. c} /\ 2 + c + 1 \in {2 + c + i : i \in 1 .. n}
      BY <1>4, <1>6, <1>7
    <2>. QED  BY <1>5, <2>1
  <1>9. all[1].value = export.exclude /\ all[2].value = export.total
    BY <1>6
  <1>10. \A i \in Positions(all, "config") : config[all[i].name] = all[i].hash
    <2>1. ASSUME NEW i \in 1 .. c PROVE config[all[2 + i].name] = all[2 + i].hash
      <3>1. all[2 + i] = [kind |-> "config", name |-> SetToSeq(CONFIGS)[i],
                          hash |-> config[SetToSeq(CONFIGS)[i]]]
        BY <1>6, Zenon
      <3>. QED  BY <3>1
    <2>. QED  BY <1>5, <2>1
  <1>11. Names(all) = {export.lines[i].name : i \in 1 .. n} /\ Names(all) = Written
    <2>1. \A x : x \in Names(all) <=> \E k \in Positions(all, "file") : x = all[k].name
      BY DEF Names
    <2>2. \A x : (\E k \in Positions(all, "file") : x = all[k].name)
                    <=> \E i \in 1 .. n : x = all[2 + c + i].name
      BY <1>5
    <2>3. \A x : x \in Names(all) <=> \E i \in 1 .. n : x = export.lines[i].name
      BY <1>6, <2>1, <2>2
    <2>. QED  BY <2>3 DEF Written, n
  <1>12. \A i \in Positions(all, "file") :
           all[i].name \in DOMAIN elfs /\ elfs[all[i].name] = all[i].hash
    <2>1. ASSUME NEW i \in 1 .. n
          PROVE  /\ all[2 + c + i].name \in DOMAIN elfs
                 /\ elfs[all[2 + c + i].name] = all[2 + c + i].hash
      <3>1. all[2 + c + i] = export.lines[i]
        BY <1>6, Zenon
      <3>2. export.lines[i].name \in Written
        BY DEF n, Written
      <3>3. DOMAIN elfs = Written /\ elfs[export.lines[i].name] = export.lines[i].hash
        BY <1>2, Zenon
      <3>. QED  BY <3>1, <3>2, <3>3, Zenon
    <2>2. \A k \in Positions(all, "file") : \E i \in 1 .. n : k = 2 + c + i
      BY <1>5
    <2>. QED  BY <2>1, <2>2, Zenon
  <1>13. Cardinality(Names(all)) = n
    <2>. DEFINE f == [i \in 1 .. n |-> export.lines[i].name]
    <2>1. /\ \A i, j \in 1 .. n : f[i] = f[j] => i = j
          /\ {f[i] : i \in 1 .. n} = Names(all)
      BY <1>3, <1>11
    <2>. HIDE DEF f
    <2>. QED  BY <1>4, <2>1, AsManyNames
  <1>14. Cardinality(Positions(all, "file")) = n
    <2>. DEFINE f == [i \in 1 .. n |-> 2 + c + i]
    <2>0. \A i \in 1 .. n : f[i] = 2 + c + i
      OBVIOUS
    <2>1. /\ \A i, j \in 1 .. n : f[i] = f[j] => i = j
          /\ {f[i] : i \in 1 .. n} = Positions(all, "file")
      <3>. HIDE DEF f
      <3>1. \A i, j \in 1 .. n : f[i] = f[j] => i = j
        BY <1>4, <1>6, <2>0
      <3>2. {f[i] : i \in 1 .. n} = {2 + c + i : i \in 1 .. n}
        BY <2>0
      <3>. QED  BY <1>5, <3>1, <3>2
    <2>. HIDE DEF f
    <2>. QED  BY <1>4, <2>1, AsManyNames
  <1>15. manifest'.exists /\ manifest'.lines = all /\ UNCHANGED << runc, config, elfs >>
    BY <1>1 DEF WriteManifest, inputs
  <1>. QED
    <2>1. /\ runc'.single /\ runc'.total = n /\ runc'.exclude = export.exclude
      BY <1>3, <1>4, <1>15
    <2>2. /\ Positions(manifest.lines, "exclude")' = {1}
          /\ Positions(manifest.lines, "total")' = {2}
          /\ Positions(manifest.lines, "config")' = Positions(all, "config")
          /\ Positions(manifest.lines, "file")' = Positions(all, "file")
          /\ Names(manifest.lines)' = Names(all)
      BY <1>5, <1>15 DEF Positions, Names
    <2>. QED
      BY <1>2, <1>4, <1>8, <1>9, <1>10, <1>11, <1>12, <1>13, <1>14, <1>15, <2>1, <2>2 DEF Matches

LEMMA OnlyCompletedWrites ==
  ASSUME Inv, [Next]_vars, export.pc = "manifest", manifest' # manifest, last'.exit = 0
  PROVE  WriteManifest
  <1>1. CASE Crash
    <2>1. last'.exit = 1
      BY <1>1 DEF Crash, Inv, TypesInv
    <2>. QED  BY <2>1
  <1>. QED  BY <1>1 DEF Next, vars, Regenerate, EditConfig, EditOverride, EditRunCompliance,
    GenerateSailConfig, Damage, ExportStart, RemoveOld, AskTools, ToolsRefuse, Copy, Verify

(* ExportPasses for every instance: an export that completes and that      *)
(* nothing has disturbed leaves a set check_elfs.py passes, whatever       *)
(* happened before it started.                                             *)
THEOREM UndisturbedExportPasses == Spec => ExportPasses
  <1>1. Init => Undisturbed
    BY DEF Init, Idle, Undisturbed
  <1>2. Init => Others
    BY ComplianceAssumption DEF Init, Others, NoManifest
  <1>3. (CheckElfs = 0)' <=> CheckElfs' = 0
    OBVIOUS
  <1>4. Matches' => (CheckElfs = 0)'
    BY MatchesPasses, PTL
  <1>5. Inv /\ Undisturbed /\ [Next]_vars =>
          [export.pc = "manifest" /\ manifest' # manifest /\ last'.exit = 0 /\ last'.quiet
             => CheckElfs' = 0]_vars
    BY OnlyCompletedWrites, CompletedMatches, <1>3, <1>4
  <1>. QED  BY InitInv, NextInv, OthersStep, UndisturbedStep, <1>1, <1>2, <1>5, PTL
            DEF Spec, ExportPasses
=============================================================================
