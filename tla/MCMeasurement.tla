---------------------------- MODULE MCMeasurement ---------------------------
(***************************************************************************)
(* Instances of Measurement.                                               *)
(***************************************************************************)
EXTENDS Measurement

\* On and about the hundredths and halves of one, and both ends.
MCScores == {0, 4, 5, 190, 195, 199, 200, 201, 205, 206, 211, 215, 220, 221, 226, 979, 1000}
=============================================================================
