--------------------------- MODULE MCStateMachine ----------------------------
(****************************************************************************)
(* Three states; the menu (a) and the game (b) lead to each other and to    *)
(* the end (c), from which there is no way but a restart of the menu.       *)
(****************************************************************************)
EXTENDS StateMachine, TLC

CONSTANTS a, b, c

MCState == {a, b, c}
MCValid == (a :> {b, c}) @@ (b :> {a, c}) @@ (c :> {a})
=============================================================================
