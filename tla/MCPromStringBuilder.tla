------------------------ MODULE MCPromStringBuilder -------------------------
(***************************************************************************)
(* Model-checking instance of PromStringBuilder.  The builder starts with  *)
(* InitSize bytes (32 in the code; the doubling does not depend on it),    *)
(* and strings of one, three and six characters make it double four      *)
(* times before the length bound.                                        *)
(***************************************************************************)
EXTENDS PromStringBuilder

CONSTANT MaxLen   \* bound on the length of the built string

LenBound == len <= MaxLen
=============================================================================
