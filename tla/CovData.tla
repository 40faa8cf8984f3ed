------------------------------ MODULE CovData -------------------------------
(***************************************************************************)
(* tools/covdat.py: Verilator coverage data, and its union over instances. *)
(*                                                                         *)
(* A data file is a sequence of lines. A line is Junk, or a record: "key"  *)
(* maps the keys the line carries to their values, "count" is its count.   *)
(* The keys are f (file: its dir and name), l (line), h (hierarchy),       *)
(* o (point), n, t (type), page (whose head names the type where there is  *)
(* no t) and S, which the tool does not read.                              *)
(***************************************************************************)
EXTENDS Integers, Sequences, FiniteSets

Junk == [k |-> "junk"]
CovLine(key, count) == [k |-> "point", key |-> key, count |-> count]

(* Every line whose keys are among these. *)
LineOf(keys) == {Junk} \cup [k : {"point"}, key : keys, count : Nat]

NoUnion == [ok |-> FALSE, points |-> << >>]

-----------------------------------------------------------------------------
(* One bad line, or no record at all, and nothing is reported. *)
ParseFails(lines) == lines = << >> \/ \E i \in DOMAIN lines : lines[i].k = "junk"

(* r.get(name, "") *)
Get(r, name) == IF name \in DOMAIN r.key THEN r.key[name] ELSE ""

rtype(r) ==
  IF "t" \in DOMAIN r.key THEN r.key["t"]
  ELSE IF "page" \in DOMAIN r.key THEN r.key["page"] ELSE "?"

Keys == {"f", "l", "h", "o"}

(* need() wants each key on some record; a record without it then raises. *)
Needed(recs) == \A i \in DOMAIN recs : Keys \subseteq DOMAIN recs[i].key

(* Everything but the hierarchy. *)
PointKey(r) ==
  << r.key["f"], r.key["l"], Get(r, "n"), Get(r, "page"), rtype(r), r.key["o"] >>

FileOf(k)  == k[1]
TypeOf(k)  == k[5]
PointOf(k) == k[6]

(* Two records of one instance with the same key would be merged. *)
Unique(recs) ==
  \A i, j \in DOMAIN recs :
    i # j => \/ PointKey(recs[i]) # PointKey(recs[j])
             \/ recs[i].key["h"] # recs[j].key["h"]

(* The counts of all instances of a point. *)
Total(recs, k) ==
  LET sum[i \in 0 .. Len(recs)] ==
        IF i = 0 THEN 0
        ELSE sum[i - 1] + (IF PointKey(recs[i]) = k THEN recs[i].count ELSE 0)
  IN  sum[Len(recs)]

Union(recs) ==
  [ok     |-> TRUE,
   points |-> [k \in {PointKey(recs[i]) : i \in DOMAIN recs} |-> Total(recs, k)]]

(* A slip: two records of one instance are added up. *)
build_unionMerges(recs) ==
  IF ParseFails(recs) \/ ~ Needed(recs) THEN NoUnion ELSE Union(recs)

(* parse, then build_union. *)
build_union(recs) ==
  IF ParseFails(recs) \/ ~ Needed(recs) \/ ~ Unique(recs) THEN NoUnion ELSE Union(recs)

-----------------------------------------------------------------------------
(* cmd_files and the gate: the points of a type under a directory, those   *)
(* that were hit.                                                          *)
PointsUnder(points, dir, type) ==
  {k \in DOMAIN points : FileOf(k).dir = dir /\ TypeOf(k) = type}

HitUnder(points, dir, type) == {k \in PointsUnder(points, dir, type) : points[k] > 0}

(* verilator_coverage --write: records that agree on every key become one, *)
(* with the sum of their counts, line by line, file by file.               *)
SameRecord(a, b) == a.k = "point" /\ b.k = "point" /\ a.key = b.key

MergeLine(recs, l) ==
  LET same == {i \in DOMAIN recs : SameRecord(recs[i], l)} IN
  IF same = {} THEN Append(recs, l)
  ELSE [recs EXCEPT ![CHOOSE i \in same : TRUE].count = @ + l.count]

MergeFile(recs, lines) ==
  LET merged[i \in 0 .. Len(lines)] ==
        IF i = 0 THEN recs ELSE MergeLine(merged[i - 1], lines[i])
  IN  merged[Len(lines)]

MergeFiles(files) ==
  LET merged[i \in 0 .. Len(files)] ==
        IF i = 0 THEN << >> ELSE MergeFile(merged[i - 1], files[i])
  IN  merged[Len(files)]
=============================================================================
