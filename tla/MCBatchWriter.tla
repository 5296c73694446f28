---------------------------- MODULE MCBatchWriter ----------------------------
(* A small batch writer for the model checker: two producers and a call of *)
(* Flush race with the timer, with Close and with a failing database; one  *)
(* kind has its operations registered and the other has not.               *)
EXTENDS BatchWriter

CONSTANTS p1, p2, f1, known, unknown
=============================================================================
