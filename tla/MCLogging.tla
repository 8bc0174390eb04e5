------------------------------ MODULE MCLogging ------------------------------
(****************************************************************************)
(* A main thread and a worker that log, at two levels; two sinks, of which  *)
(* one drops the level of the worker.                                       *)
(****************************************************************************)
EXTENDS Logging, TLC

CONSTANTS w1, all, errors

MCLevelOf == Main :> "Error" @@ w1 :> "Info"
MCAccepts == all :> {"Info", "Error"} @@ errors :> {"Error"}
=============================================================================
