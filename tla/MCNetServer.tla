----------------------------- MODULE MCNetServer -----------------------------
(****************************************************************************)
(* Two clients and two handles; on TCP each handle and each client comes up *)
(* more than once.                                                          *)
(****************************************************************************)
EXTENDS NetServer, TLC

CONSTANTS a, b, s1, s2

MCGarbage == Client \cup {Unresolved}
=============================================================================
