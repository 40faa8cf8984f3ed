------------------------------ MODULE RtlScan -------------------------------
(***************************************************************************)
(* How the scripts read RTL: the comment stripper and the conditional      *)
(* scanner of gen_cov_vlt.py, the comment scanner of check_pragmas.py.     *)
(*                                                                         *)
(* A text is a sequence of tokens. "k" is the kind of a token:             *)
(*   nl                       the end of a line                            *)
(*   // and /* and */         comment delimiters                           *)
(*   quote, backslash         of a string literal                          *)
(*   dir                      a conditional directive: fields d, mac       *)
(*   attr, star               the opening of an attribute, and the star    *)
(*                            of a sensitivity list, which looks like one  *)
(*   waiver                   verilator lint_off NAME: fields off, name    *)
(*   forbidden                any other word of PREFIXES with what follows *)
(*   word                     anything else                                *)
(* Blanks are left out. The last three kinds only matter in a comment,     *)
(* dir, attr and star only outside.                                        *)
(***************************************************************************)
EXTENDS Integers, Sequences, FiniteSets, SequencesExt

KNOWN   == {"SYNTHESIS", "RISCV_FORMAL"}
CONFIGS == {"cov", "syn"}
Defs    == [cov |-> {}, syn |-> {"SYNTHESIS"}]

Plain      == {"nl", "//", "/*", "*/", "quote", "backslash", "attr", "star",
               "forbidden", "word", "endmodule", "dangling"}
Directives == {"ifdef", "ifndef", "elsif", "else", "endif", "define", "undef", "include"}

Token == [k : Plain] \cup [k : {"dir"}, d : Directives, mac : STRING]
           \cup [k : {"waiver"}, off : BOOLEAN, name : STRING]

-----------------------------------------------------------------------------
(* The lexer both scanners contain. A string ends at its quote or at the   *)
(* end of its line, which is then part of it; a backslash hides what       *)
(* follows, an end of line included.                                       *)

NextMode(mode, k) ==
  CASE mode = "code" /\ k = "//"              -> "line"
    [] mode = "code" /\ k = "/*"              -> "block"
    [] mode = "code" /\ k = "quote"           -> "string"
    [] mode = "line" /\ k = "nl"              -> "code"
    [] mode = "block" /\ k = "*/"             -> "code"
    [] mode = "string" /\ k \in {"quote", "nl"} -> "code"
    [] mode = "string" /\ k = "backslash"     -> "escape"
    [] mode = "escape"                        -> "string"
    [] OTHER                                  -> mode

(* FoldLeft of SequencesExt, one step for each element. *)
Fold(Op(_, _), base, seq) ==
  LET f[i \in 0 .. Len(seq)] == IF i = 0 THEN base ELSE Op(f[i - 1], seq[i])
  IN  f[Len(seq)]

(* Modes(text)[i] is the mode in which token i is read. *)
Modes(text) ==
  Fold(LAMBDA ms, t : Append(ms, NextMode(Last(ms), t.k)), << "code" >>, text)

(* The elements of seq that are in S, in order. *)
Select(seq, S) == Fold(LAMBDA out, t : IF t \in S THEN Append(out, t) ELSE out, << >>, seq)

(* The positions of text that are in S, in order. *)
Positions(text, S) == Select([i \in DOMAIN text |-> i], S)

(* A slip: the end of a line inside a block comment is blanked too. *)
KeptJoinsLines(text, modes, i) ==
  \/ modes[i] = "code" /\ text[i].k \notin {"//", "/*", "quote"}
  \/ modes[i] = "line" /\ text[i].k = "nl"

(* What strip_comments leaves of token i: code, and ends of lines outside  *)
(* strings.                                                                *)
Kept(text, modes, i) ==
  \/ modes[i] = "code" /\ text[i].k \notin {"//", "/*", "quote"}
  \/ modes[i] \in {"line", "block"} /\ text[i].k = "nl"

strip_comments(text) ==
  LET modes == Modes(text)
      kept  == Positions(text, {i \in DOMAIN text : Kept(text, modes, i)})
  IN  [j \in DOMAIN kept |-> text[kept[j]]]

LineCount(text) == 1 + Cardinality({i \in DOMAIN text : text[i].k = "nl"})

-----------------------------------------------------------------------------
(* sim_only_lines: one pass over the first token of each stripped line.    *)

Blank == [k |-> "blank"]

FirstTokens(text) ==
  Fold(LAMBDA lines, t :
             IF t.k = "nl" THEN Append(lines, Blank)
             ELSE IF Last(lines) = Blank THEN Append(Front(lines), t)
             ELSE lines,
           << Blank >>, strip_comments(text))

Conditionals == {"ifdef", "ifndef", "elsif"}
Openers      == {"ifdef", "ifndef"}

Holds(t, c) ==
  CASE t.d = "ifdef"  -> t.mac \in Defs[c]
    [] t.d = "ifndef" -> t.mac \notin Defs[c]
    [] t.d = "elsif"  -> t.mac \in Defs[c]
    [] t.d = "else"   -> TRUE

(* stacks[c] of an open conditional: taken, active, parent. *)
Active(open, c) == \A i \in DOMAIN open : open[i].branch[c].active

Open(s, t) ==
  [s EXCEPT !.open = Append(@,
     [seen_else |-> FALSE,
      branch    |-> [c \in CONFIGS |->
         [taken  |-> Holds(t, c),
          active |-> Active(s.open, c) /\ Holds(t, c),
          parent |-> Active(s.open, c)]]])]

(* A slip: the branch before an `else is not remembered as taken. *)
TurnForgetsTaken(s, t) ==
  [s EXCEPT !.open[Len(s.open)] =
     [seen_else |-> t.d = "else",
      branch    |-> [c \in CONFIGS |->
         LET b == s.open[Len(s.open)].branch[c] IN
         [b EXCEPT !.active = b.parent /\ Holds(t, c),
                   !.taken  = @ \/ Holds(t, c)]]]]

(* `else and `elsif: active if the parent is and no branch was taken yet.  *)
Turn(s, t) ==
  [s EXCEPT !.open[Len(s.open)] =
     [seen_else |-> t.d = "else",
      branch    |-> [c \in CONFIGS |->
         LET b == s.open[Len(s.open)].branch[c] IN
         [b EXCEPT !.active = b.parent /\ ~ b.taken /\ Holds(t, c),
                   !.taken  = @ \/ Holds(t, c)]]]]

(* Refuse at this line. "known" are the macros the tool knows. *)
RefusesLine(s, t, known) ==
  \/ t.d = "include"
  \/ t.d \in {"define", "undef"} /\ t.mac \in known
  \/ t.d \in Conditionals /\ t.mac \notin known
  \/ t.d \in {"elsif", "else", "endif"} /\ s.open = << >>
  \/ t.d \in {"elsif", "else"} /\ s.open # << >> /\ Last(s.open).seen_else

ScanLine(s, t, known) ==
  LET here == [s EXCEPT !.line = @ + 1] IN
  IF s.refused THEN s
  ELSE IF t.k # "dir"
  THEN IF Active(s.open, "cov") /\ ~ Active(s.open, "syn")
       THEN [here EXCEPT !.result = Append(@, s.line + 1)] ELSE here
  ELSE IF RefusesLine(s, t, known) THEN [here EXCEPT !.refused = TRUE]
  ELSE CASE t.d \in {"define", "undef"} -> here
         [] t.d \in Openers             -> Open(here, t)
         [] t.d = "endif"               -> [here EXCEPT !.open = Front(@)]
         [] OTHER                       -> Turn(here, t)

Scan(text, known) ==
  Fold(LAMBDA s, t : ScanLine(s, t, known),
           [open |-> << >>, result |-> << >>, refused |-> FALSE, line |-> 0],
           FirstTokens(text))

(* An unclosed conditional is refused at the end. *)
Refused(text, known) ==
  LET s == Scan(text, known) IN s.refused \/ s.open # << >>

sim_only_lines(text, known) == Scan(text, known).result

(* A slip: a range is extended over a gap of one line. *)
runsBridgeGaps(nums) ==
  Fold(LAMBDA out, n :
             IF out # << >> /\ n <= Last(out)[2] + 2
             THEN Append(Front(out), << Last(out)[1], n >>)
             ELSE Append(out, << n, n >>),
           << >>, nums)

runs(nums) ==
  Fold(LAMBDA out, n :
             IF out # << >> /\ n = Last(out)[2] + 1
             THEN Append(Front(out), << Last(out)[1], n >>)
             ELSE Append(out, << n, n >>),
           << >>, nums)

-----------------------------------------------------------------------------
(* check_pragmas.py: the comments, in order, with the line each starts on. *)

(* The line counter misses the ends of lines that are inside a string. *)
LineAt(text, modes, i) ==
  1 + Cardinality({j \in 1 .. i - 1 :
        text[j].k = "nl" /\ modes[j] \in {"code", "line", "block"}})

(* The tokens of the comment that opens at i, ends of lines left out. *)
Body(text, modes, i) ==
  LET last == CHOOSE j \in i .. Len(text) :
                /\ \A m \in i + 1 .. j : modes[m] # "code"
                /\ j = Len(text) \/ modes[j + 1] = "code"
      inside == LET ts == SubSeq(text, i + 1, last) IN Select(ts, {t \in ToSet(ts) : t.k # "nl"})
  IN  IF text[i].k = "/*" /\ inside # << >> /\ Last(inside).k = "*/"
      THEN Front(inside) ELSE inside

comments(text) ==
  LET modes == Modes(text)
      start == Positions(text, {i \in DOMAIN text :
                 modes[i] = "code" /\ text[i].k \in {"//", "/*"}})
  IN  [m \in DOMAIN start |->
         [line |-> LineAt(text, modes, start[m]),
          body |-> Body(text, modes, start[m])]]

IsDirective(c) == c.body # << >> /\ c.body[1].k \in {"waiver", "forbidden"}
IsWaiver(c)    == Len(c.body) = 1 /\ c.body[1].k = "waiver"

waivers(text) ==
  LET cs == comments(text) IN Select(cs, {c \in ToSet(cs) : IsWaiver(c)})

forbidden(text) ==
  {c \in ToSet(comments(text)) : IsDirective(c) /\ ~ IsWaiver(c)}

(* ATTR; the pattern of mutant S1 takes every star for one.                *)
Attributes(text, pattern) ==
  LET code == strip_comments(text)
      kinds == IF pattern = "no star" THEN {"attr"} ELSE {"attr", "star"}
  IN  {i \in DOMAIN code : code[i].k \in kinds}
=============================================================================
