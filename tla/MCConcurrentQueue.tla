-------------------------- MODULE MCConcurrentQueue --------------------------
(****************************************************************************)
(* Small instances of ConcurrentQueue: two threads that push one by one and *)
(* in bulk, two that pop one by one and in bulk, and one of them that also  *)
(* waits for the queue to drain.                                            *)
(****************************************************************************)
EXTENDS ConcurrentQueue, TLC

CONSTANTS p1, p2, c1, c2

MCPush == [kind |-> "push", n |-> 1]
MCPushN(n) == [kind |-> "pushN", n |-> n]
MCPop == [kind |-> "pop", n |-> 0]
MCPopN(n) == [kind |-> "popN", n |-> n]
MCWaitEmpty == [kind |-> "waitEmpty", n |-> 0]

(****************************************************************************)
(* Every operation, and a pushN longer than the capacity.                   *)
(****************************************************************************)
MCThread == {p1, p2, c1, c2}
MCProgram ==
    p1 :> {MCPush, MCPushN(0), MCPushN(3), MCWaitEmpty} @@
    p2 :> {MCPush} @@
    c1 :> {MCPop, MCPopN(2)} @@
    c2 :> {MCPopN(1)}

(****************************************************************************)
(* For the liveness runs: two producers and one consumer that loops.        *)
(****************************************************************************)
MCSmallThread == {p1, p2, c1}
MCSmallProgram ==
    p1 :> {MCPush, MCPushN(2), MCWaitEmpty} @@
    p2 :> {MCPush} @@
    c1 :> {MCPop, MCPopN(2)}
=============================================================================
