-------------------------- MODULE PromStringBuilder --------------------------
(***************************************************************************)
(* The growable character buffer of                                        *)
(* src/src/monitor/impl/prom_string_builder.c.  Only one thread uses a     *)
(* builder at a time (the formatter's), so each call is one step.          *)
(*                                                                         *)
(* The characters themselves do not matter to what is checked here, only  *)
(* where they are written: the model keeps the fields `allocated` and      *)
(* `len` of struct prom_string_builder and, as `bufCap`, the size of the   *)
(* block `str` really points at (0 when str is NULL).  `access` records    *)
(* the bytes the last call read or wrote: indexes 0 .. upto of a block of  *)
(* cap bytes, or NoAccess.                                                 *)
(***************************************************************************)
EXTENDS Integers

CONSTANTS
  InitSize,   \* PROM_STRING_BUILDER_INIT_SIZE (prom_string_builder.c:27)
  AddLens,    \* lengths of the non-empty strings passed to add_str
  MayFail     \* allocations that may return NULL: "realloc", "init", "dump"

ASSUME /\ InitSize \in Nat \ {0}
       /\ AddLens \subseteq Nat \ {0}
       /\ MayFail \subseteq {"realloc", "init", "dump"}

VARIABLES
  bufCap,     \* bytes of the block str points at; 0 for NULL
  allocated,  \* self->allocated
  len,        \* self->len
  access      \* the bytes the last call touched

sbVars == <<bufCap, allocated, len, access>>

NoAccess == [upto |-> -1, cap |-> 0]

\* The call touched bytes 0 .. upto of a block of cap bytes.
Touch(upto, cap) == [upto |-> upto, cap |-> cap]

\* Mutant: the block is grown to exactly what is needed.
GrownExact(alloc, need) == IF alloc >= need THEN alloc ELSE need

\* The shifting loop of ensure_space: the first doubling of alloc that
\* holds need bytes.
RECURSIVE Grown(_, _)
Grown(alloc, need) == IF alloc >= need THEN alloc ELSE Grown(2 * alloc, need)

\* Mutant: the room for the terminator is forgotten.
HasRoomNoNul(n) == allocated >= len + n

\* The early return of ensure_space: the block already holds the string
\* and its terminator.
HasRoom(n) == allocated >= len + n + 1

(***************************************************************************)
(* add_str of a string of n > 0 characters (add_char is n = 1; add_str     *)
(* returns at once for an empty string).  ensure_space first; then memcpy  *)
(* to str + len and the terminator at str[len + n].  ensure_space doubles  *)
(* `allocated` before calling realloc, and when realloc fails it returns   *)
(* the error with `allocated` already doubled and str unchanged.  realloc  *)
(* of a NULL str allocates a new block.                                    *)
(***************************************************************************)
Append(n) ==
  \/ /\ HasRoom(n)
     /\ len' = len + n
     /\ access' = Touch(len + n, bufCap)
     /\ UNCHANGED <<bufCap, allocated>>
  \/ /\ ~HasRoom(n)
     /\ LET new == Grown(allocated, len + n + 1)
        IN \/ /\ bufCap' = new
              /\ allocated' = new
              /\ len' = len + n
              /\ access' = Touch(len + n, new)
           \/ /\ "realloc" \in MayFail
              /\ allocated' = new
              /\ access' = NoAccess
              /\ UNCHANGED <<bufCap, len>>

AddStr(n) == Append(n)

AddChar == Append(1)

(***************************************************************************)
(* truncate(n): shorter lengths only; writes the terminator at str[n].     *)
(***************************************************************************)
Truncate(n) ==
  /\ n < len
  /\ len' = n
  /\ access' = Touch(n, bufCap)
  /\ UNCHANGED <<bufCap, allocated>>

\* Mutant: init does not reset the length.
ClearKeepLen ==
  /\ bufCap' = InitSize
  /\ allocated' = InitSize
  /\ access' = Touch(0, InitSize)
  /\ UNCHANGED len

(***************************************************************************)
(* clear: free(str), str = NULL, then init: malloc(init_size).  When that  *)
(* malloc fails, init returns the error before resetting allocated and     *)
(* len, so the builder keeps its old length and capacity with no block.    *)
(***************************************************************************)
Clear ==
  /\ \/ /\ bufCap' = InitSize
        /\ allocated' = InitSize
        /\ len' = 0
        /\ access' = Touch(0, InitSize)
     \/ /\ "init" \in MayFail
        /\ bufCap' = 0
        /\ access' = NoAccess
        /\ UNCHANGED <<allocated, len>>

(***************************************************************************)
(* dump: malloc(len + 1) for the copy, then memcpy of len + 1 bytes from   *)
(* str.  If the malloc fails, it returns NULL and reads nothing.  The      *)
(* builder itself is left alone.                                           *)
(***************************************************************************)
Dump ==
  /\ \/ access' = Touch(len, bufCap)
     \/ /\ "dump" \in MayFail
        /\ access' = NoAccess
  /\ UNCHANGED <<bufCap, allocated, len>>

\* prom_string_builder_new: init_size bytes holding the empty string.
Init == /\ bufCap = InitSize
        /\ allocated = InitSize
        /\ len = 0
        /\ access = Touch(0, InitSize)

Next == \/ \E n \in AddLens : AddStr(n)
        \/ AddChar
        \/ \E n \in 0 .. len + 1 : Truncate(n)
        \/ Clear
        \/ Dump

Spec == Init /\ [][Next]_sbVars

-----------------------------------------------------------------------------
\* The sizes ensure_space can reach: init_size shifted left.
Doublings == {InitSize * 2^e : e \in 0 .. 16}

TypeOK == /\ bufCap \in Doublings \cup {0}
          /\ allocated \in Doublings
          /\ len \in Nat
          /\ access \in [upto : Int, cap : Nat]

(***************************************************************************)
(* Every byte a call reads or writes lies inside the block str points at:  *)
(* memcpy and the terminator stores of add_str, add_char and truncate, the *)
(* memcpy of dump.  This is what the doubling of ensure_space is for, and  *)
(* it depends on `allocated` describing the block after every failure.     *)
(***************************************************************************)
MemorySafe == access.upto < access.cap

(***************************************************************************)
(* spec.md 3: the capacity is at least the length plus one, for the        *)
(* terminator, and `allocated` is the size of the block str points at.     *)
(***************************************************************************)
CapacityCoversLength ==
  bufCap # 0 => /\ allocated = bufCap
                /\ len + 1 <= allocated
=============================================================================
