------------------------------- MODULE MCJobs -------------------------------
(***************************************************************************)
(* One calculation of two fragments and one file.                           *)
(***************************************************************************)
EXTENDS Jobs

CONSTANTS f1, f2

Lists == [t \in CalcTask |-> <<f1, f2>>]

\* The file is delivered twice.
Deliveries == [t \in Task |-> IF t \in FileTask THEN 2 ELSE 1]
=============================================================================
