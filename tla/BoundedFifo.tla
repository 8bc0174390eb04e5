----------------------------- MODULE BoundedFifo -----------------------------
(****************************************************************************)
(* What core::types::ConcurrentQueue promises its callers, with no threads, *)
(* mutex or condition variables in sight: a channel that delivers what was  *)
(* put into it once and in order, that never holds more than MaxSize items, *)
(* and that accepts and delivers nothing once it has been closed.           *)
(****************************************************************************)
EXTENDS Naturals, Sequences

CONSTANTS
    Item,      \* the values put into the channel (tType)
    MaxSize    \* the capacity given to the constructor

VARIABLES
    open,      \* the channel has not been closed
    sent,      \* every item accepted so far, oldest first
    taken      \* every item delivered so far, oldest first

vars == <<open, sent, taken>>

Init == open = TRUE /\ sent = <<>> /\ taken = <<>>

(****************************************************************************)
(* "longer" is "shorter" with items added at its end.                       *)
(****************************************************************************)
Extends(longer, shorter) ==
    /\ Len(shorter) <= Len(longer)
    /\ SubSeq(longer, 1, Len(shorter)) = shorter

(****************************************************************************)
(* One caller puts one or more items: they become the newest ones.          *)
(****************************************************************************)
Put ==
    /\ open
    /\ sent' \in Seq(Item)
    /\ Extends(sent', sent)
    /\ Len(sent') - Len(taken) <= MaxSize
    /\ UNCHANGED <<open, taken>>

(****************************************************************************)
(* One caller takes one or more items: the oldest ones not yet taken.       *)
(****************************************************************************)
Take ==
    /\ open
    /\ taken' \in Seq(Item)
    /\ Extends(taken', taken)
    /\ Extends(sent, taken')
    /\ UNCHANGED <<open, sent>>

Close ==
    /\ open' = FALSE
    /\ UNCHANGED <<sent, taken>>

Next == Put \/ Take \/ Close

Spec == Init /\ [][Next]_vars
=============================================================================
