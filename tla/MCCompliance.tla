---------------------------- MODULE MCCompliance ----------------------------
(***************************************************************************)
(* Compliance with two suites of a program each, one configuration edited  *)
(* by hand beside the generated one, and the Sail defaults that make each  *)
(* refusal of gen_act4_sail_config.py happen. Addresses are scaled down:   *)
(* memory 0..3, the I/O region 4..7.                                       *)
(***************************************************************************)
EXTENDS Compliance

MCTests == {"I-add", "wfi"}
MCSuiteOf == [t \in MCTests |-> IF t = "wfi" THEN "InterruptsSm" ELSE "I"]
MCHandWritten == {"test_config.yaml"}
MCRevisions == {[rev |-> 1], [rev |-> 2]}

Region(base, size, type) == [base |-> base, size |-> size, type |-> type]

(* Sail as it is, and after an upgrade that enables one more extension. *)
Default(m) ==
  [ran |-> TRUE, keys |-> TopLevelKeys, load_store |-> "None",
   ext |-> [S |-> TRUE, F |-> TRUE, Zba |-> m],
   regions |-> << Region(1, 1, "IOMemory"), Region(4, 4, "IOMemory"),
                  Region(8, 4, "MainMemory") >>,
   platform |-> [clint |-> 4, simple_interrupt_generator |-> 7]]

MCDefaults ==
  {Default(TRUE), Default(FALSE)}
  \cup {[Default(TRUE) EXCEPT !.platform.clint = b] : b \in {NotInt, 3, 8}}
  \cup {[Default(TRUE) EXCEPT !.ran = FALSE],
        [Default(TRUE) EXCEPT !.keys = @ \ {"platform"}],
        [Default(TRUE) EXCEPT !.load_store = "missing"],
        [Default(TRUE) EXCEPT !.regions = << >>],
        [Default(TRUE) EXCEPT !.regions = SubSeq(@, 1, 2)],
        [Default(TRUE) EXCEPT !.regions = << @[1], @[3] >>]}

(* The override of the core, one that forgets an extension, one that only  *)
(* re-enables what was disabled, one Sail does not know, and none.         *)
MCOverrides ==
  {[ext |-> [S |-> FALSE, F |-> FALSE], regions |-> << Region(0, 2, "MainMemory") >>],
   [ext |-> [S |-> FALSE], regions |-> << >>],
   [ext |-> [Zba |-> TRUE], regions |-> << >>],
   [ext |-> [Zvk |-> FALSE], regions |-> << >>],
   [ext |-> << >>, regions |-> << >>]}

MCCheckout ==
  [revision |-> [rev |-> 1], default |-> Default(TRUE),
   override |-> [ext     |-> [S |-> FALSE, F |-> FALSE],
                 regions |-> << Region(0, 2, "MainMemory") >>],
   runc     |-> [total |-> 2, exclude |-> {}, single |-> TRUE]]

(* Nothing excluded, one suite excluded, wrong counts, and unreadable. *)
MCSettings ==
  {[total |-> 0, exclude |-> {}, single |-> TRUE],
   [total |-> 1, exclude |-> {"InterruptsSm"}, single |-> TRUE],
   [total |-> 2, exclude |-> {}, single |-> TRUE],
   [total |-> 1, exclude |-> {}, single |-> TRUE],
   [total |-> 2, exclude |-> {}, single |-> FALSE]}
=============================================================================
