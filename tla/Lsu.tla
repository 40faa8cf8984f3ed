-------------------------------- MODULE Lsu --------------------------------
(***************************************************************************)
(* lsu.sv, is_misaligned() of rv32_pkg.sv and the byte-enabled write port  *)
(* of tcm.sv: how a byte address and a size select lanes of a word.        *)
(***************************************************************************)
EXTENDS Words

Lane == 0 .. 3

(* Byte lane k of a word, lane 0 the least significant. *)
ByteOf(w, k) == CASE k = 0 -> w % ByteSize
                  [] k = 1 -> (w \div ByteSize) % ByteSize
                  [] k = 2 -> (w \div HalfSize) % ByteSize
                  [] OTHER -> (w \div (HalfSize * ByteSize)) % ByteSize

FromBytes(b0, b1, b2, b3) ==
  ((b3 * ByteSize + b2) * ByteSize + b1) * ByteSize + b0

(* Both halves of a word. *)
HalfOf(w, k) == IF k = 0 THEN w % HalfSize ELSE (w \div HalfSize) % HalfSize

(* Any size but a byte or a half is a word, as in every case of lsu.sv. *)
IsMisaligned(offset, size) ==
  \/ size = "H" /\ offset % 2 = 1
  \/ size \notin {"B", "H"} /\ offset # 0

ByteEnable(offset, size) ==
  CASE size = "B" -> {offset}
    [] size = "H" -> IF offset >= 2 THEN {2, 3} ELSE {0, 1}
    [] OTHER      -> Lane

(* The store data replicated over the lanes it may be written to. *)
StoreAligned(size, data) ==
  LET b == ByteOf(data, 0)
      h == HalfOf(data, 0)
  IN  CASE size = "B" -> FromBytes(b, b, b, b)
        [] size = "H" -> h * HalfSize + h
        [] OTHER      -> data

(* The byte or half selected by the offset, sign- or zero-extended. *)
LoadData(offset, size, signed, raw) ==
  LET b == ByteOf(raw, offset)
      h == HalfOf(raw, offset \div 2)
  IN  CASE size = "B" -> IF signed /\ 2 * b >= ByteSize
                           THEN ToWord(b - ByteSize) ELSE b
        [] size = "H" -> IF signed /\ 2 * h >= HalfSize
                           THEN ToWord(h - HalfSize) ELSE h
        [] OTHER      -> raw

(* tcm.sv port B: each enabled lane takes the write data's. *)
WriteLanes(old, be, data) ==
  LET lane(k) == IF k \in be THEN ByteOf(data, k) ELSE ByteOf(old, k)
  IN  FromBytes(lane(0), lane(1), lane(2), lane(3))

=============================================================================
