----------------------------- MODULE MCIngestion -----------------------------
(***************************************************************************)
(* Small instances of Ingestion.                                           *)
(***************************************************************************)
EXTENDS Ingestion

CONSTANT d1

\* Every document is a file of its own.
OwnContent == [d \in Doc |-> d]
=============================================================================
