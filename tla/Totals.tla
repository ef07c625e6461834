------------------------------ MODULE Totals -------------------------------
(***************************************************************************)
(* The sum of the values of a function, for counts that are spread over    *)
(* threads.  It counts units, so that the theorems about finite sets apply *)
(* to it.                                                                  *)
(***************************************************************************)
EXTENDS Integers, FiniteSets

Units(f, S) == UNION {{x} \X (1..f[x]) : x \in S}
Total(f) == Cardinality(Units(f, DOMAIN f))
=============================================================================
