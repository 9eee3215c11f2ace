-------------------------- MODULE PromProcessLimits --------------------------
(***************************************************************************)
(* The recursive-descent parser of /proc/[pid]/limits in                   *)
(* src/src/monitor/impl/prom_process_limits.c, as operators over the       *)
(* buffer prom_procfs_buf_new fills: the file's characters followed by a   *)
(* NUL, `size` counting the NUL.  A character is a one-letter string (NUL  *)
(* is "NUL"); `index` is 0-based as in the code, and each rdp_* function   *)
(* is an operator from an index to the index it leaves.                    *)
(*                                                                         *)
(* The reference is the file the kernel writes (proc_pid_limits in         *)
(* fs/proc/base.c): a header, then per limit "%-25s %-20s " with the soft  *)
(* value or "unlimited", "%-20s " with the hard one, "%-10s" with the      *)
(* units when the limit has units, and a newline.  A row gives its values  *)
(* as numbers, -1 standing for RLIM_INFINITY.                              *)
(***************************************************************************)
EXTENDS Integers, Sequences, SequencesExt

NUL == "NUL"
NoUnits == <<>>

\* PROM_PROCESS_LIMITS_RDP_LETTERS and _DIGITS.
LETTERS == {"a", "b", "c", "d", "e", "f", "g", "h", "i", "j", "k", "l", "m",
            "n", "o", "p", "q", "r", "s", "t", "u", "v", "w", "x", "y", "z",
            "A", "B", "C", "D", "E", "F", "G", "H", "I", "J", "K", "L", "M",
            "N", "O", "P", "Q", "R", "S", "T", "U", "V", "W", "X", "Y", "Z"}
DIGITS == <<"0", "1", "2", "3", "4", "5", "6", "7", "8", "9">>
UNLIMITED == <<"u", "n", "l", "i", "m", "i", "t", "e", "d">>

\* The keys prom_collector_process_collect looks up.
MaxOpenFiles == <<"M", "a", "x", " ", "o", "p", "e", "n", " ", "f", "i", "l", "e", "s">>
MaxAddressSpace == <<"M", "a", "x", " ", "a", "d", "d", "r", "e", "s", "s", " ",
                     "s", "p", "a", "c", "e">>

At(b, i) == IF i \in 0 .. Len(b) - 1 THEN b[i + 1] ELSE NUL

\* rdp_letter, rdp_digit: the character at index is in the table and is not
\* the final NUL (index < size - 1).
IsLetter(b, i) == i < Len(b) - 1 /\ At(b, i) \in LETTERS
IsDigit(b, i) == i < Len(b) - 1 /\ At(b, i) \in ToSet(DIGITS)

\* rdp_character: a letter, a digit, or a space when `' ' < f->size - 1`
\* (the code compares the space character, 32, with the size).
IsCharacter(b, i) ==
  \/ IsLetter(b, i) \/ IsDigit(b, i)
  \/ At(b, i) = " " /\ 32 < Len(b) - 1

\* The `while (rdp_x(...)) { }` loops: the index after the run of x.
RECURSIVE Letters(_, _), Digits(_, _), Characters(_, _), NextToken(_, _)
Letters(b, i) == IF IsLetter(b, i) THEN Letters(b, i + 1) ELSE i
Digits(b, i) == IF IsDigit(b, i) THEN Digits(b, i + 1) ELSE i
Characters(b, i) == IF IsCharacter(b, i) THEN Characters(b, i + 1) ELSE i
\* rdp_next_token: skips spaces, newlines and tabs, with no bound check.
NextToken(b, i) == IF At(b, i) \in {" ", "\n", "\t"} THEN NextToken(b, i + 1) ELSE i

\* rdp_first_line: the index after its newline, or -1 when it fails.
FirstLine(b) == LET j == Characters(b, 0) IN IF At(b, j) = "\n" THEN j + 1 ELSE -1

\* rdp_word_and_space: a word and a space, accepted only when the character
\* after the one following the space is not blank; otherwise the index is
\* restored.
WordAndSpace(b, i) ==
  LET j == Letters(b, i) IN
    IF /\ j > i /\ At(b, j) = " "
       /\ j + 2 < Len(b) /\ At(b, j + 2) \notin {" ", "\t"}
    THEN j + 1 ELSE i

RECURSIVE WordsAndSpaces(_, _)
WordsAndSpaces(b, i) == LET j == WordAndSpace(b, i) IN
                          IF j > i THEN WordsAndSpaces(b, j) ELSE i

\* rdp_limit: { word_and_space } word; the limit is the text from where it
\* started to the end of the last word.
Limit(b, i) ==
  LET j == WordsAndSpaces(b, i)
      k == Letters(b, j)
  IN [ok |-> k > j, next |-> k, text |-> SubSeq(b, i + 1, k)]

\* rdp_match: every character of the token, compared until a mismatch.
Match(b, i, tok) == \A k \in 1 .. Len(tok) : At(b, i + k - 1) = tok[k]

\* atoi of a run of digits.
Atoi(ds) == FoldLeft(LAMBDA acc, c : 10 * acc + (SelectInSeq(DIGITS, LAMBDA d : d = c) - 1), 0, ds)

\* Mutant: num_digits is the number of digits, without the room for NUL.
GenericLimitShort(b, i) ==
  IF Match(b, i, UNLIMITED)
  THEN [value |-> -1, next |-> i + Len(UNLIMITED)]
  ELSE LET nd == Digits(b, i) - i
       IN [value |-> Atoi(SubSeq(b, i + 1, i + nd - 1)), next |-> Digits(b, i) + nd]

(***************************************************************************)
(* rdp_generic_limit: "unlimited" gives -1; otherwise the digits are       *)
(* consumed, num_digits = index - current_index + 1 (one more than their   *)
(* count, never <= 0), the digits are copied and converted with atoi, and  *)
(* then `f->index += num_digits`, which moves past the digits a second     *)
(* time and one character further.                                          *)
(***************************************************************************)
GenericLimit(b, i) ==
  IF Match(b, i, UNLIMITED)
  THEN [value |-> -1, next |-> i + Len(UNLIMITED)]
  ELSE LET nd == Digits(b, i) - i + 1
       IN [value |-> Atoi(SubSeq(b, i + 1, i + nd - 1)), next |-> Digits(b, i) + nd]

\* rdp_units: a word, or nothing (current_row->units stays NULL).
Units(b, i) == LET j == Letters(b, i) IN
                 IF j > i THEN [units |-> SubSeq(b, i + 1, j), next |-> j]
                 ELSE [units |-> NoUnits, next |-> i]

(***************************************************************************)
(* rdp_data_line: limit, soft, hard and units, each after next_token; then *)
(* prom_process_limits_row_new(limit, soft, hard, units), which strdup()s  *)
(* the units and so crashes when they are NULL, prom_map_set of the row    *)
(* under the limit, and next_token.  A failed limit fails the line.        *)
(***************************************************************************)
DataLine(b, i) ==
  LET l == Limit(b, i)
      s == GenericLimit(b, NextToken(b, l.next))
      h == GenericLimit(b, NextToken(b, s.next))
      u == Units(b, NextToken(b, h.next))
  IN [status |-> IF ~l.ok THEN "fail" ELSE IF u.units = NoUnits THEN "crash" ELSE "ok",
      key |-> l.text,
      row |-> [soft |-> s.value, hard |-> h.value, units |-> u.units],
      next |-> NextToken(b, u.next)]

\* rdp_file: the data lines while index < size - 1.
RECURSIVE DataLines(_, _, _)
DataLines(b, i, m) ==
  IF i < Len(b) - 1
  THEN LET d == DataLine(b, i) IN
         IF d.status = "ok" THEN DataLines(b, d.next, (d.key :> d.row) @@ m)
         ELSE [status |-> d.status, rows |-> m]
  ELSE [status |-> "ok", rows |-> m]

\* prom_process_limits: the map of rows, "fail" for NULL, or "crash".
ParseLimits(b) ==
  IF FirstLine(b) < 0 THEN [status |-> "fail", rows |-> <<>>]
  ELSE DataLines(b, FirstLine(b), <<>>)

-----------------------------------------------------------------------------
\* The reference: what the kernel writes into the file.
Pad(s, w) == s \o [k \in 1 .. w - Len(s) |-> " "]

RECURSIVE Decimal(_)
Decimal(n) == IF n < 10 THEN <<DIGITS[n + 1]>>
              ELSE Decimal(n \div 10) \o <<DIGITS[(n % 10) + 1]>>

LimitText(v) == IF v = -1 THEN UNLIMITED ELSE Decimal(v)

Phrase(ws) == FlattenSeq([k \in 1 .. Len(ws) |->
                            IF k = 1 THEN ws[k] ELSE <<" ">> \o ws[k]])

KernelHeader ==
  Pad(<<"L", "i", "m", "i", "t">>, 25) \o <<" ">>
  \o Pad(Phrase(<<<<"S", "o", "f", "t">>, <<"L", "i", "m", "i", "t">>>>), 20) \o <<" ">>
  \o Pad(Phrase(<<<<"H", "a", "r", "d">>, <<"L", "i", "m", "i", "t">>>>), 20) \o <<" ">>
  \o Pad(<<"U", "n", "i", "t", "s">>, 10) \o <<"\n">>

KernelRow(r) ==
  Pad(r.name, 25) \o <<" ">> \o Pad(LimitText(r.soft), 20) \o <<" ">>
  \o Pad(LimitText(r.hard), 20) \o <<" ">>
  \o (IF r.units = NoUnits THEN <<>> ELSE Pad(r.units, 10)) \o <<"\n">>

\* The buffer prom_procfs_buf_new reads: the file, then the NUL it appends.
LimitsBuffer(rows) ==
  KernelHeader \o FlattenSeq([k \in 1 .. Len(rows) |-> KernelRow(rows[k])]) \o <<NUL>>

\* The soft value the kernel wrote for a limit.
KernelSoft(rows, name) == rows[CHOOSE k \in 1 .. Len(rows) : rows[k].name = name].soft
=============================================================================
