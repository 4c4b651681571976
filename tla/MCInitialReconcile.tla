-------------------------- MODULE MCInitialReconcile --------------------------
(***************************************************************************)
(* An instance of InitialReconcile: two workers, two names.              *)
(***************************************************************************)
EXTENDS InitialReconcile
===============================================================================
