--------------------------- MODULE ConcurrentQueue ---------------------------
(****************************************************************************)
(* core::types::ConcurrentQueue (CORE/TYPES/concurrent_queue.h and .inl): a *)
(* bounded queue guarded by one mutex, with one condition variable for the  *)
(* consumers and one that producers and waitEmpty() share.                  *)
(*                                                                          *)
(* Every operation holds m_mutex from its first line to the line where it   *)
(* returns or waits, so one such critical section is one step.  A thread is *)
(*    "idle"   outside the queue,                                           *)
(*    "ready"  inside an operation and about to take m_mutex: it has just   *)
(*             called, or a notification (or a spurious wakeup, which C++   *)
(*             allows) has removed it from a condition variable,            *)
(*    "waitC"  blocked in m_consumerCV.wait,                                *)
(*    "waitP"  blocked in m_producerCV.wait.                                *)
(****************************************************************************)
EXTENDS Integers, Sequences, FiniteSets

CONSTANTS
    Thread,      \* the threads that use the queue
    MaxSize,     \* m_maxSize
    Program,     \* [Thread -> SUBSET Call]: the calls each thread may make
    Workers,     \* threads that pop in a loop for as long as the queue is open
    MaxItems     \* bound of the model: items one thread may ask to push

Kind == {"push", "pushN", "pop", "popN", "waitEmpty", "none"}

(****************************************************************************)
(* A call in progress.  "n" is the number of items still to be pushed       *)
(* (push, pushN), or the room left in the caller's vector (popN).           *)
(****************************************************************************)
Call == [kind : Kind, n : Nat]

NoCall == [kind |-> "none", n |-> 0]

ASSUME ThreadAssumption == IsFiniteSet(Thread)
ASSUME MaxSizeAssumption == MaxSize \in Nat \ {0}
ASSUME ProgramAssumption ==
    /\ Program \in [Thread -> SUBSET Call]
    /\ \A t \in Thread : \A c \in Program[t] :
          c.kind # "none" /\ (c.kind = "push" => c.n = 1)
ASSUME WorkersAssumption == Workers \subseteq Thread
ASSUME MaxItemsAssumption == MaxItems \in Nat

Place == {"idle", "ready", "waitC", "waitP"}

(****************************************************************************)
(* The n-th item a thread asks to push: items are told apart by who pushed  *)
(* them and when, which is all that the order properties need.              *)
(****************************************************************************)
Item == Thread \X Nat

VARIABLES
    queue,       \* m_queue
    open,        \* m_open
    call,        \* call[t]: the operation t is in
    at,          \* at[t]: where t is in that operation
    asked,       \* asked[t]: items t has asked to push so far
    sent,        \* history: every item appended to m_queue
    taken        \* history: every item popped from m_queue

vars == <<queue, open, call, at, asked, sent, taken>>

Producing == {"push", "pushN"}
Consuming == {"pop", "popN"}

(****************************************************************************)
(* notify_all on a condition variable: its waiters contend for the mutex.   *)
(****************************************************************************)
NotifyAll(where, cv) == [t \in Thread |-> IF where[t] = cv THEN "ready" ELSE where[t]]

NotifyNone(where, cv) == {where}

(****************************************************************************)
(* notify_one: one waiter, if there is any; the standard does not say which.*)
(****************************************************************************)
NotifyOne(where, cv) ==
    LET waiters == {t \in Thread : where[t] = cv}
    IN IF waiters = {} THEN {where}
       ELSE {[where EXCEPT ![t] = "ready"] : t \in waiters}

Init ==
    /\ queue = <<>>
    /\ open = TRUE
    /\ call = [t \in Thread |-> NoCall]
    /\ at = [t \in Thread |-> "idle"]
    /\ asked = [t \in Thread |-> 0]
    /\ sent = <<>>
    /\ taken = <<>>

-----------------------------------------------------------------------------
(****************************************************************************)
(* A thread calls an operation other than close.                            *)
(****************************************************************************)
Begin(t, c) ==
    /\ at[t] = "idle"
    /\ call' = [call EXCEPT ![t] = c]
    /\ at' = [at EXCEPT ![t] = "ready"]
    /\ IF c.kind \in Producing
         THEN /\ asked[t] + c.n <= MaxItems
              /\ asked' = [asked EXCEPT ![t] = @ + c.n]
         ELSE UNCHANGED asked
    /\ UNCHANGED <<queue, open, sent, taken>>

In(t, kind) == at[t] = "ready" /\ call[t].kind = kind

Return(t) == call' = [call EXCEPT ![t] = NoCall]

(****************************************************************************)
(* The items that t still has to push, and how many went before them.       *)
(****************************************************************************)
Pending(t) == IF call[t].kind \in Producing THEN call[t].n ELSE 0
Pushed(t) == asked[t] - Pending(t)

NextItemsRepeated(t, k) == [i \in 1 .. k |-> <<t, Pushed(t) + 1>>]

(****************************************************************************)
(* The k items that t pushes next.                                          *)
(****************************************************************************)
NextItems(t, k) == [i \in 1 .. k |-> <<t, Pushed(t) + i>>]

Full == Len(queue) >= MaxSize

(****************************************************************************)
(* The three ways through one turn of the loop of push: the queue has been  *)
(* closed, and the item is dropped; there is room; or the producer waits.   *)
(****************************************************************************)
GiveUp(t) ==
    /\ ~ open
    /\ at' = [at EXCEPT ![t] = "idle"]
    /\ Return(t)
    /\ UNCHANGED <<queue, sent>>

PushItemNotifyIfEmpty(t) ==
    /\ open /\ ~ Full
    /\ queue' = queue \o NextItems(t, 1)
    /\ sent' = sent \o NextItems(t, 1)
    /\ LET returned == [at EXCEPT ![t] = "idle"]
       IN IF queue = <<>> THEN at' \in NotifyOne(returned, "waitC") ELSE at' = returned
    /\ Return(t)

PushItem(t) ==
    /\ open /\ ~ Full
    /\ queue' = queue \o NextItems(t, 1)
    /\ sent' = sent \o NextItems(t, 1)
    /\ at' \in NotifyOne([at EXCEPT ![t] = "idle"], "waitC")
    /\ Return(t)

AwaitRoomOnce(t) ==
    /\ open /\ Full
    /\ at' = [at EXCEPT ![t] = "idle"]
    /\ Return(t)
    /\ UNCHANGED <<queue, sent>>

AwaitRoom(t) ==
    /\ open /\ Full
    /\ at' = [at EXCEPT ![t] = "waitP"]
    /\ UNCHANGED <<queue, call, sent>>

Push(t) ==
    /\ In(t, "push")
    /\ GiveUp(t) \/ PushItem(t) \/ AwaitRoom(t)
    /\ UNCHANGED <<open, asked, taken>>

(****************************************************************************)
(* The loop of pushN fills the queue, then returns or waits; on either way  *)
(* out it notifies every consumer, and none before.                         *)
(****************************************************************************)
Fits(t) ==
    IF call[t].n <= MaxSize - Len(queue) THEN call[t].n ELSE MaxSize - Len(queue)

PushN(t) ==
    /\ In(t, "pushN")
    /\ \/ /\ open
          /\ queue' = queue \o NextItems(t, Fits(t))
          /\ sent' = sent \o NextItems(t, Fits(t))
          /\ IF Fits(t) = call[t].n
               THEN /\ at' = NotifyAll([at EXCEPT ![t] = "idle"], "waitC")
                    /\ Return(t)
               ELSE /\ at' = NotifyAll([at EXCEPT ![t] = "waitP"], "waitC")
                    /\ call' = [call EXCEPT ![t].n = @ - Fits(t)]
       \/ /\ ~ open
          /\ at' = NotifyAll([at EXCEPT ![t] = "idle"], "waitC")
          /\ Return(t)
          /\ UNCHANGED <<queue, sent>>
    /\ UNCHANGED <<open, asked, taken>>

(****************************************************************************)
(* What pop and popN have in common: wait while there is nothing, give up   *)
(* when closed, and wake the producers only once the queue is empty.        *)
(****************************************************************************)
AwaitItemIgnoringClose(t) ==
    /\ queue = <<>>
    /\ at' = [at EXCEPT ![t] = "waitC"]
    /\ UNCHANGED <<queue, call, taken>>

AwaitItemOnProducerCV(t) ==
    /\ open
    /\ queue = <<>>
    /\ at' = [at EXCEPT ![t] = "waitP"]
    /\ UNCHANGED <<queue, call, taken>>

AwaitItem(t) ==
    /\ open
    /\ queue = <<>>
    /\ at' = [at EXCEPT ![t] = "waitC"]
    /\ UNCHANGED <<queue, call, taken>>

Canceled(t) ==
    /\ ~ open
    /\ at' = NotifyAll([at EXCEPT ![t] = "idle"], "waitP")
    /\ Return(t)
    /\ UNCHANGED <<queue, taken>>

TakeFrontSilently(t, k) ==
    /\ open
    /\ queue # <<>>
    /\ taken' = taken \o SubSeq(queue, 1, k)
    /\ queue' = SubSeq(queue, k + 1, Len(queue))
    /\ at' = [at EXCEPT ![t] = "idle"]
    /\ Return(t)

TakeFrontAfterClose(t, k) ==
    /\ queue # <<>>
    /\ taken' = taken \o SubSeq(queue, 1, k)
    /\ queue' = SubSeq(queue, k + 1, Len(queue))
    /\ LET returned == [at EXCEPT ![t] = "idle"]
       IN at' = IF k = Len(queue) THEN NotifyAll(returned, "waitP") ELSE returned
    /\ Return(t)

TakeFront(t, k) ==
    /\ open
    /\ queue # <<>>
    /\ taken' = taken \o SubSeq(queue, 1, k)
    /\ queue' = SubSeq(queue, k + 1, Len(queue))
    /\ LET returned == [at EXCEPT ![t] = "idle"]
       IN at' = IF k = Len(queue) THEN NotifyAll(returned, "waitP") ELSE returned
    /\ Return(t)

Pop(t) ==
    /\ In(t, "pop")
    /\ AwaitItem(t) \/ Canceled(t) \/ TakeFront(t, 1)
    /\ UNCHANGED <<open, asked, sent>>

(****************************************************************************)
(* The items popN moves: what there is, up to the room left in "out".  With *)
(* no room it takes none, and the notification it consumed is lost.         *)
(****************************************************************************)
Wanted(t) == IF call[t].n <= Len(queue) THEN call[t].n ELSE Len(queue)

PopN(t) ==
    /\ In(t, "popN")
    /\ AwaitItem(t) \/ Canceled(t) \/ TakeFront(t, Wanted(t))
    /\ UNCHANGED <<open, asked, sent>>

WaitEmpty(t) ==
    /\ In(t, "waitEmpty")
    /\ IF queue # <<>> /\ open
         THEN at' = [at EXCEPT ![t] = "waitP"] /\ UNCHANGED call
         ELSE at' = [at EXCEPT ![t] = "idle"] /\ Return(t)
    /\ UNCHANGED <<queue, open, asked, sent, taken>>

CloseSilently(t) ==
    /\ at[t] = "idle"
    /\ open' = FALSE
    /\ UNCHANGED <<queue, call, at, asked, sent, taken>>

(****************************************************************************)
(* close wakes the consumers and leaves the waiters of m_producerCV asleep. *)
(****************************************************************************)
Close(t) ==
    /\ at[t] = "idle"
    /\ open' = FALSE
    /\ at' = NotifyAll(at, "waitC")
    /\ UNCHANGED <<queue, call, asked, sent, taken>>

SpuriousWakeup(t) ==
    /\ at[t] \in {"waitC", "waitP"}
    /\ at' = [at EXCEPT ![t] = "ready"]
    /\ UNCHANGED <<queue, open, call, asked, sent, taken>>

-----------------------------------------------------------------------------
(****************************************************************************)
(* The steps a thread inside an operation takes on its own.                 *)
(****************************************************************************)
Step(t) == Push(t) \/ PushN(t) \/ Pop(t) \/ PopN(t) \/ WaitEmpty(t)

Next ==
    \E t \in Thread :
        \/ \E c \in Program[t] : Begin(t, c)
        \/ Step(t)
        \/ Close(t)
        \/ SpuriousWakeup(t)

Spec == Init /\ [][Next]_vars

(****************************************************************************)
(* A thread that is not blocked on a condition variable gets the mutex in   *)
(* the end, and runs: the operating system schedules it.  Nothing obliges a *)
(* thread to call, to close, or to wake spuriously.                         *)
(****************************************************************************)
FairSpec == Spec /\ \A t \in Thread : WF_vars(Step(t))

(****************************************************************************)
(* The use the code base makes of the queue (LogManager::logFn): the        *)
(* workers pop in a loop for as long as the queue is open.                  *)
(****************************************************************************)
PopLoop(t) == open /\ \E c \in Program[t] : c.kind \in Consuming /\ Begin(t, c)

ServedSpec == FairSpec /\ \A t \in Workers : WF_vars(PopLoop(t))

-----------------------------------------------------------------------------
Producers == {t \in Thread : \E c \in Program[t] : c.kind \in Producing}

Waiting(cv) == {t \in Thread : at[t] = cv}
Ready(kinds) == {t \in Thread : at[t] = "ready" /\ call[t].kind \in kinds}

TypeOK ==
    /\ queue \in Seq(Item)
    /\ open \in BOOLEAN
    /\ call \in [Thread -> Call]
    /\ at \in [Thread -> Place]
    /\ asked \in [Thread -> Nat]
    /\ sent \in Seq(Item)
    /\ taken \in Seq(Item)
    /\ \A t \in Thread :
          /\ at[t] = "idle" <=> call[t] = NoCall
          /\ at[t] = "waitC" => call[t].kind \in Consuming
          /\ at[t] = "waitP" => call[t].kind \in Producing \cup {"waitEmpty"}
          /\ call[t].kind = "push" => call[t].n = 1
          /\ call[t].kind \in Producing => call[t].n <= asked[t]

-----------------------------------------------------------------------------
(****************************************************************************)
(* m_queue never outgrows m_maxSize, whatever mix of push and pushN runs    *)
(* between two wakeups of a producer (the tests of push and pushN at .inl   *)
(* 22 and 63 are repeated after every wait).                                *)
(****************************************************************************)
Capacity == Len(queue) <= MaxSize

(****************************************************************************)
(* Nothing that was accepted is lost, duplicated or reordered: what came    *)
(* out, followed by what is inside, is what went in.                        *)
(****************************************************************************)
FirstInFirstOut == taken \o queue = sent

(****************************************************************************)
(* The items of one thread enter in the order it pushed them, each once,    *)
(* even though pushN may stop half way, sleep and be overtaken.             *)
(****************************************************************************)
InCallOrder ==
    \A i, j \in DOMAIN sent :
        i < j /\ sent[i][1] = sent[j][1] => sent[i][2] < sent[j][2]

(****************************************************************************)
(* While the queue is open a push never returns without having enqueued:    *)
(* every item asked for is in "sent" or still to be pushed by the call in   *)
(* progress.  (push returns void, so a caller could not see a drop.)        *)
(****************************************************************************)
NoneSkipped ==
    open => \A t \in Thread :
        \A n \in 1 .. Pushed(t) : \E i \in DOMAIN sent : sent[i] = <<t, n>>

(****************************************************************************)
(* popN is called with room for at least one item.                          *)
(****************************************************************************)
RoomToPop == \A t \in Thread : \A c \in Program[t] : c.kind = "popN" => c.n >= 1

(****************************************************************************)
(* No wakeup is lost: while a consumer sleeps in an open queue, every item  *)
(* in it has a consumer of its own that is awake and on its way to it.      *)
(* push notifies one consumer for one item, pushN all of them once it has   *)
(* stopped pushing; popN may take items that another was woken for.         *)
(****************************************************************************)
NoLostWakeup ==
    open /\ Waiting("waitC") # {} => Len(queue) <= Cardinality(Ready(Consuming))

(****************************************************************************)
(* Nobody sleeps on m_producerCV of an open queue that has drained: the pop *)
(* that emptied it woke them all.  With NoLostWakeup this excludes that     *)
(* producers wait for consumers that wait for producers.                    *)
(****************************************************************************)
DrainedWakesProducers == open /\ Waiting("waitP") # {} => queue # <<>>

(****************************************************************************)
(* No consumer sleeps in a closed queue, whatever woke it or put it to      *)
(* sleep around the close.                                                  *)
(****************************************************************************)
ClosedWakesConsumers == ~ open => Waiting("waitC") = {}

(****************************************************************************)
(* The queue implements the channel, its threads being forgotten.  In       *)
(* particular nothing goes in or comes out once it is closed.               *)
(****************************************************************************)
Channel == INSTANCE BoundedFifo

ImplementsChannel == Channel!Spec

(****************************************************************************)
(* A consumer blocked in pop or popN when the queue is closed, or that      *)
(* arrives later, gets its CANCELED.                                        *)
(****************************************************************************)
ConsumersReleased ==
    \A t \in Thread : (~ open /\ call[t].kind \in Consuming) ~> (call[t].kind \notin Consuming)

(****************************************************************************)
(* With consumers that pop in a loop, every accepted item is delivered      *)
(* unless the queue is closed.                                              *)
(****************************************************************************)
Delivered ==
    \A i \in 1 .. MaxItems * Cardinality(Producers) :
        (Len(sent) >= i) ~> (Len(taken) >= i \/ ~ open)

(****************************************************************************)
(* With consumers that pop in a loop and finitely many items to push, every *)
(* push, pushN and waitEmpty returns unless the queue is closed: the wakeup *)
(* on the last pop, and on it only, is enough for all of them.              *)
(****************************************************************************)
ProducersReturn ==
    \A t \in Thread :
        (call[t].kind \in Producing \cup {"waitEmpty"}) ~> (at[t] = "idle" \/ ~ open)

-----------------------------------------------------------------------------
(****************************************************************************)
(* What concurrent_queue.h says and the code does not do.                   *)
(****************************************************************************)

(****************************************************************************)
(* concurrent_queue.h:73 "Closes the queue. All blocking operations are     *)
(* released": close notifies m_consumerCV alone.                            *)
(****************************************************************************)
CloseReleasesAll == \A t \in Thread : (~ open /\ at[t] # "idle") ~> (at[t] = "idle")
=============================================================================
