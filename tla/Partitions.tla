----------------------------- MODULE Partitions -----------------------------
(***************************************************************************)
(* The partition of a discriminator's domain that decides an XOR split or  *)
(* a loop (K7, K6b): a sequence of cells, its well-formedness rules from   *)
(* procworks.validator and the matching of procworks.model that the engine *)
(* and the editor share.                                                   *)
(*                                                                         *)
(* A value is a number; a BOOLEAN is 0 or 1, a text of an ENUM stands as a *)
(* number too.  A cell is [open, finite, upper, truth, values, otherwise,  *)
(* to]: `open' says it has no upper bound, `finite' that its bound is a    *)
(* finite number, `truth' holds its truth value or is empty, `to' is the   *)
(* branch it opens (XOR) or whether it repeats the body (loop).            *)
(***************************************************************************)
EXTENDS Integers, Sequences, FiniteSets

\* A value of THRESHOLD that is no finite number (NaN, an infinity, a text).
NotANumber == -99

Kinds == {"THRESHOLD", "BOOLEAN", "ENUM"}

\* discriminator_kind: the kind a data type is partitioned by, or none.
KindOf(type) ==
    CASE type \in {"INTEGER", "FLOAT", "DECIMAL"} -> "THRESHOLD"
      [] type = "BOOLEAN" -> "BOOLEAN"
      [] type = "STRING" -> "ENUM"
      [] OTHER -> "none"

-----------------------------------------------------------------------------
(***************************************************************************)
(* Matching: the index of the cell that takes a value, 0 when there is     *)
(* none.                                                                   *)
(***************************************************************************)

FirstOf(S) == IF S = {} THEN 0 ELSE CHOOSE i \in S : \A j \in S : i <= j
LastOf(S)  == IF S = {} THEN 0 ELSE CHOOSE i \in S : \A j \in S : j <= i

MatchingThresholdCell(cells, v) ==
    IF v = NotANumber THEN 0
    ELSE FirstOf({i \in DOMAIN cells : cells[i].open \/ v < cells[i].upper})

MatchingBooleanCell(cells, v) ==
    FirstOf({i \in DOMAIN cells : cells[i].truth = {v # 0}})

\* A listed value wins over the catch-all wherever that stands.
MatchingEnumCell(cells, v) ==
    LET listing == {i \in DOMAIN cells : ~cells[i].otherwise /\ v \in cells[i].values}
        others  == {i \in DOMAIN cells : cells[i].otherwise}
    IN  IF listing # {} THEN FirstOf(listing) ELSE LastOf(others)

MatchingCell(kind, cells, v) ==
    CASE kind = "THRESHOLD" -> MatchingThresholdCell(cells, v)
      [] kind = "BOOLEAN"   -> MatchingBooleanCell(cells, v)
      [] OTHER              -> MatchingEnumCell(cells, v)

\* resolve_xor_target; `unknown' when no cell takes the value.
ResolveTarget(kind, cells, v, unknown) ==
    LET i == MatchingCell(kind, cells, v) IN IF i = 0 THEN unknown ELSE cells[i].to

\* resolve_loop_repeat for a partition: the engine refuses a value no cell takes.
RepeatsOn(kind, cells, v) ==
    LET i == MatchingCell(kind, cells, v) IN i # 0 /\ cells[i].to = 1

-----------------------------------------------------------------------------
(***************************************************************************)
(* _check_partition: the codes of the rules a partition breaks.            *)
(***************************************************************************)

Bounded(cells, i) == i < Len(cells) /\ ~cells[i].open /\ cells[i].finite

\* Each bound is above the last bounded one before it.
Ascending(cells) ==
    \A i, j \in DOMAIN cells :
        /\ Bounded(cells, i) /\ Bounded(cells, j) /\ i < j
        /\ \A k \in (i + 1)..(j - 1) : ~Bounded(cells, k)
        => cells[i].upper < cells[j].upper

ThresholdFindings(cells) ==
    LET last == Len(cells)
    IN  {c \in {"K7.threshold-not-finite", "K7.threshold-last-unbounded",
                "K7.threshold-only-last-unbounded", "K7.threshold-ascending"} :
           CASE c = "K7.threshold-not-finite" ->
                    \E i \in DOMAIN cells : ~cells[i].open /\ ~cells[i].finite
             [] c = "K7.threshold-last-unbounded" -> cells # <<>> /\ ~cells[last].open
             [] c = "K7.threshold-only-last-unbounded" ->
                    \E i \in 1..(last - 1) : cells[i].open
             [] OTHER -> ~Ascending(cells)}

BooleanFindings(cells) ==
    LET truths == {cells[i].truth : i \in DOMAIN cells}
    IN  (IF Len(cells) # 2 THEN {"K7.boolean-two-branches"} ELSE {}) \cup
        (IF truths # {{TRUE}, {FALSE}} THEN {"K7.boolean-cover"} ELSE {})

\* `values' is a set, so a value repeated within one cell is not told apart.
EnumFindings(cells) ==
    LET others == {i \in DOMAIN cells : cells[i].otherwise}
        named  == DOMAIN cells \ others
    IN  (IF Cardinality(others) # 1 THEN {"K7.enum-one-otherwise"} ELSE {}) \cup
        (IF \E i \in others : cells[i].values # {} THEN {"K7.otherwise-values"} ELSE {}) \cup
        (IF \E i \in named : cells[i].values = {} THEN {"K7.enum-empty-branch"} ELSE {}) \cup
        (IF \E i, j \in named : i # j /\ cells[i].values \cap cells[j].values # {}
         THEN {"K7.enum-duplicate"} ELSE {})

PartitionFindings(kind, cells) ==
    CASE kind = "THRESHOLD" -> ThresholdFindings(cells)
      [] kind = "BOOLEAN"   -> BooleanFindings(cells)
      [] OTHER              -> EnumFindings(cells)

=============================================================================
