--------------------------- MODULE MCChildProcess ---------------------------
(***************************************************************************)
(* Every program of up to three steps, with pipes of two bufferfuls: three *)
(* writes to the same pipe already need a reader in between.               *)
(***************************************************************************)
EXTENDS ChildProcess, SequencesExt

MCPrograms == BoundedSeq(Steps, 3)
MCInputs == {0, 1, 3}
=============================================================================
