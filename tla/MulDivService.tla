--------------------------- MODULE MulDivService ---------------------------
(***************************************************************************)
(* What the multiply/divide unit promises its user: one request at a time  *)
(* is accepted, answered with the value the RISC-V M extension defines     *)
(* (muldiv_ref, the reference model of env_muldiv), and the answer is held *)
(* until it is taken.  Nothing of the time an answer takes is said, except *)
(* that it comes.                                                          *)
(***************************************************************************)
EXTENDS MulDivRef

VARIABLES phase, request, answer

vars == <<phase, request, answer>>

(* What the registers hold after a reset. *)
NoRequest == [op |-> "MUL", a |-> 0, b |-> 0]

Init == /\ phase = "IDLE"
        /\ request = NoRequest
        /\ answer = 0

Accept == /\ phase = "IDLE"
          /\ phase' = "BUSY"
          /\ request' \in Request
          /\ UNCHANGED answer

Finish == /\ phase = "BUSY"
          /\ phase' = "HOLD"
          /\ answer' = MuldivRef(request)
          /\ UNCHANGED request

Deliver == /\ phase = "HOLD"
           /\ phase' = "IDLE"
           /\ UNCHANGED <<request, answer>>

Reset == /\ phase' = "IDLE"
         /\ request' = NoRequest
         /\ answer' = 0

Next == Accept \/ Finish \/ Deliver \/ Reset

SafeSpec == Init /\ [][Next]_vars

Spec == SafeSpec /\ WF_vars(Finish) /\ WF_vars(Deliver)

=============================================================================
