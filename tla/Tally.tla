------------------------------- MODULE Tally -------------------------------
(***************************************************************************)
(* The sum of a function over a finite set, as the number of unit tokens   *)
(* its members hold: what SemState.units_remaining and                     *)
(* AdmissionController.committed_bytes keep count of.                      *)
(***************************************************************************)
EXTENDS Integers, FiniteSets

Tokens(f, S) == UNION {{x} \X (1 .. f[x]) : x \in S}
Total(f, S)  == Cardinality(Tokens(f, S))
=============================================================================
