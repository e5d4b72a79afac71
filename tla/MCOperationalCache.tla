-------------------------- MODULE MCOperationalCache --------------------------
(***************************************************************************)
(* A small instance of OperationalCache: two requests for two views of one *)
(* cluster, which share the view that tells how to reach it.               *)
(***************************************************************************)
EXTENDS OperationalCache
===============================================================================
