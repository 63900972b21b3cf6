------------------------------ MODULE MCMfrUtil ------------------------------
(* MfrUtil needs no bounds: every option, every failure and every moment the
   buffer may be written out are explored, for the build with all options. *)
EXTENDS MfrUtil
=============================================================================
