---------------------------- MODULE MCMatrixHttp ----------------------------
(* Instances of MatrixHttp. *)
EXTENDS MatrixHttp
=============================================================================
