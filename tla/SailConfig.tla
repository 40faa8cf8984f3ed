----------------------------- MODULE SailConfig -----------------------------
(***************************************************************************)
(* gen_act4_sail_config.py: the complete Sail configuration ACT4 needs,    *)
(* derived from Sail's own default and from the lockstep override.         *)
(*                                                                         *)
(* A default is a record: "ran" (the binary is there and exits 0), "keys"  *)
(* (the top-level objects it has), "ext" (extension name to supported),    *)
(* "load_store" (memory.misaligned.exceptions.load_store, "missing" when   *)
(* the object is not there), "regions" (a sequence of [base, size, type])  *)
(* and "platform" (device name to base, NotInt for one that is no number). *)
(* An override has "ext" and "regions", both of which may be empty.        *)
(***************************************************************************)
EXTENDS Integers, Sequences, FiniteSets

CONSTANTS DutRamSize,     \* DUT_RAM_SIZE
          IoBase          \* base of the only default region that is kept

ASSUME SailConfigAssumption ==
  DutRamSize \in Nat \ {0} /\ IoBase \in Nat /\ DutRamSize <= IoBase

MemoryRegion == [base : Int, size : Nat, type : STRING]

TopLevelKeys == {"base", "memory", "platform", "extensions"}
Devices      == {"clint", "simple_interrupt_generator"}

\* platform.<dev>.base is present and is not an integer.
NotInt == -1

Disabled(ext) == {name \in DOMAIN ext : ~ ext[name]}

(* 2. The override's extension set, copied over the default's. *)
CopiedExtensions(default, override) ==
  [name \in DOMAIN default.ext |->
     IF name \in DOMAIN override.ext THEN override.ext[name]
                                     ELSE default.ext[name]]

(* The copy names no unknown extension and disables more than before. *)
ExtensionsAccepted(default, override) ==
  /\ override.ext # <<>>
  /\ DOMAIN override.ext \subseteq DOMAIN default.ext
  /\ Cardinality(Disabled(CopiedExtensions(default, override)))
       > Cardinality(Disabled(default.ext))

(* 5. The first region of each kind; for memory, the override's come before *)
(* the default's.                                                          *)
MainMemory(regions) == {i \in DOMAIN regions : regions[i].type = "MainMemory"}

AtIoBase(regions) == {i \in DOMAIN regions : regions[i].base = IoBase}

First(regions, S) == regions[CHOOSE i \in S : \A j \in S : i <= j]

RamTemplate(default, override) ==
  IF MainMemory(override.regions) # {}
  THEN First(override.regions, MainMemory(override.regions))
  ELSE First(default.regions, MainMemory(default.regions))

DeviceRegion(default) == First(default.regions, AtIoBase(default.regions))

RegionsAccepted(default, override) ==
  /\ default.regions # <<>>
  /\ MainMemory(override.regions) # {} \/ MainMemory(default.regions) # {}
  /\ AtIoBase(default.regions) # {}

(* A slip: the last address of the region is one too far. *)
InsideOffByOne(base, region) ==
  region.base <= base /\ base <= region.base + region.size

Inside(base, region) ==
  region.base <= base /\ base < region.base + region.size

(* 6, 7. Both devices exist, at a number, inside the I/O region, above RAM. *)
DevicesAccepted(default) ==
  \A dev \in Devices :
    /\ dev \in DOMAIN default.platform
    /\ default.platform[dev] # NotInt
    /\ Inside(default.platform[dev], DeviceRegion(default))
    /\ default.platform[dev] >= DutRamSize

(* Every die() of main: one refusal and nothing is written. *)
Accepted(default, override) ==
  /\ default.ran
  /\ default.keys = TopLevelKeys
  /\ ExtensionsAccepted(default, override)
  /\ default.load_store = "None"
  /\ RegionsAccepted(default, override)
  /\ DevicesAccepted(default)

(* What main writes to sail.json. *)
Derived(default, override) ==
  [ext           |-> CopiedExtensions(default, override),
   writable_misa |-> FALSE,
   physaddr_bits |-> 32,
   load_store    |-> "AlignmentException",
   regions       |-> << [RamTemplate(default, override) EXCEPT
                           !.base = 0, !.size = DutRamSize],
                        DeviceRegion(default) >>,
   platform      |-> [dev \in Devices |-> default.platform[dev]]]

(* The addresses of a region. *)
Covers(region) == region.base .. region.base + region.size - 1

(* Both devices are I/O and not memory, and a misaligned access raises an  *)
(* exception.                                                              *)
ClearOfRam(cfg) ==
  /\ cfg.load_store = "AlignmentException"
  /\ \A dev \in Devices :
       /\ cfg.platform[dev] \notin Covers(cfg.regions[1])
       /\ cfg.platform[dev] \in Covers(cfg.regions[2])
=============================================================================
