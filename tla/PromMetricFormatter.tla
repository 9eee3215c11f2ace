------------------------- MODULE PromMetricFormatter -------------------------
(***************************************************************************)
(* The l_value rendering of src/src/monitor/impl/prom_metric_formatter.c,  *)
(* as operators over the formatter's string builder.  A builder is a       *)
(* record: `text` is what it holds (character codes), `alloc` its field    *)
(* `allocated`, `cap` the size of the block str points at, and `over`      *)
(* whether some write has landed past that block.  Each call gives the set *)
(* of its outcomes: the builder it leaves and its status, "ok" or "error"  *)
(* (an allocation failed and the call returned the error).                 *)
(*                                                                         *)
(* The doubling is PromStringBuilder's Grown.  clear's init is not made   *)
(* to fail here: its failure leaves str NULL with the old len, which       *)
(* PromStringBuilder covers.                                               *)
(***************************************************************************)
EXTENDS Integers, Sequences, SequencesExt

CONSTANTS
  InitSize,  \* PROM_STRING_BUILDER_INIT_SIZE
  MayFail    \* allocations that may fail: "realloc" (ensure_space), "dump"

ASSUME MayFail \subseteq {"realloc", "dump"}

\* The characters load_l_value adds between the name and the values.
UNDERSCORE == <<95>>
LBRACE == <<123>>
RBRACE == <<125>>
EQUALS == <<61>>
QUOTE == <<34>>
COMMA == <<44>>

\* A NULL suffix.
NoSuffix == <<>>

\* prom_string_builder_new, and the builder clear leaves.
EmptyBuilder == [text |-> <<>>, alloc |-> InitSize, cap |-> InitSize, over |-> FALSE]

SB == INSTANCE PromStringBuilder
        WITH bufCap <- 0, allocated <- 0, len <- 0, access <- 0,
             AddLens <- {}, MayFail <- {}

\* ensure_space's early return: `allocated` holds the string, the n new
\* characters and the terminator.
HasRoom(b, n) == b.alloc >= Len(b.text) + n + 1

Outcome(b, st) == [b |-> b, st |-> st]

(***************************************************************************)
(* add_str(s), and add_char for a one-character s: nothing for an empty    *)
(* string; ensure_space, whose early return trusts `allocated`; then the   *)
(* memcpy and terminator at str + len.  When an earlier failed realloc     *)
(* left `allocated` doubled, they land past the block: undefined           *)
(* behaviour, of which the model takes the outcome where the bytes are     *)
(* written and the call goes on.  A grown block keeps the text.            *)
(***************************************************************************)
Add(b, s) ==
  LET need == Len(b.text) + Len(s) + 1
      new == SB!Grown(b.alloc, need)
  IN IF s = <<>> THEN {Outcome(b, "ok")}
     ELSE IF HasRoom(b, Len(s))
     THEN {Outcome([b EXCEPT !.text = @ \o s, !.over = @ \/ need > b.cap], "ok")}
     ELSE {Outcome([b EXCEPT !.text = @ \o s, !.alloc = new, !.cap = new], "ok")}
          \cup (IF "realloc" \in MayFail
                THEN {Outcome([b EXCEPT !.alloc = new], "error")} ELSE {})

(***************************************************************************)
(* The strings load_l_value adds, in order: the name, '_' and the suffix   *)
(* when there is one, and for each label '{' (before the first), the key,  *)
(* '=', '"', the value unescaped, '"', and ',' or, after the last, '}'.    *)
(***************************************************************************)
LValuePieces(name, suffix, keys, values) ==
  LET n == Len(keys)
      Pair(i) == (IF i = 1 THEN <<LBRACE>> ELSE <<>>)
                 \o <<keys[i], EQUALS, QUOTE, values[i], QUOTE,
                      IF i = n THEN RBRACE ELSE COMMA>>
  IN <<name>> \o (IF suffix = NoSuffix THEN <<>> ELSE <<UNDERSCORE, suffix>>)
     \o FlattenSeq([i \in 1 .. n |-> Pair(i)])

\* The l_value a successful load_l_value leaves on an empty builder.
LValue(name, suffix, keys, values) == FlattenSeq(LValuePieces(name, suffix, keys, values))

\* Each add in turn; the first that does not return 0 ends the load, and
\* what the earlier ones added stays in the builder.
RECURSIVE AddAll(_, _)
AddAll(b, ps) ==
  IF ps = <<>> THEN {Outcome(b, "ok")}
  ELSE UNION {IF o.st = "ok" THEN AddAll(o.b, Tail(ps)) ELSE {o} : o \in Add(b, Head(ps))}

\* prom_metric_formatter_load_l_value.
LoadLValue(b, name, suffix, keys, values) ==
  AddAll(b, LValuePieces(name, suffix, keys, values))

(***************************************************************************)
(* prom_metric_formatter_dump: string_builder_dump copies len + 1 bytes    *)
(* into a new block, whose malloc may fail (NULL, the builder untouched);  *)
(* then clear empties the builder.  `out` is the copy.                     *)
(***************************************************************************)
Dump(b) ==
  {[b |-> [EmptyBuilder EXCEPT !.over = b.over], st |-> "ok", out |-> b.text]}
  \cup (IF "dump" \in MayFail THEN {[b |-> b, st |-> "error", out |-> <<>>]} ELSE {})
=============================================================================
