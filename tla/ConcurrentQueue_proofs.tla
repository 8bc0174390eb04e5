------------------------ MODULE ConcurrentQueue_proofs ------------------------
(****************************************************************************)
(* Proofs about ConcurrentQueue for every number of threads, every program  *)
(* they may run, every capacity and every number of items.                  *)
(****************************************************************************)
EXTENDS ConcurrentQueue, SequenceTheorems, FiniteSetTheorems, TLAPS

\* What is taken from the front of the queue moves the border between two
\* sequences, whose contents stay.
LEMMA Regrouped ==
    ASSUME NEW S, NEW a \in Seq(S), NEW b \in Seq(S), NEW c \in Seq(S),
           NEW ab, ab = a \o b, NEW bc, bc = b \o c
    PROVE  ab \o c = a \o bc
<1>1. (a \o b) \o c = a \o (b \o c)
  BY ConcatAssociative, SMTT(30)
<1> QED
  BY <1>1

USE MaxSizeAssumption, ProgramAssumption

-----------------------------------------------------------------------------
(****************************************************************************)
(* The items a call pushes next form a sequence of items, numbered from the *)
(* first one that is still pending.                                         *)
(****************************************************************************)
LEMMA NextItemsProperties ==
    ASSUME TypeOK, NEW t \in Thread, NEW k \in Nat, k <= Pending(t)
    PROVE  /\ NextItems(t, k) \in Seq(Item)
           /\ Len(NextItems(t, k)) = k
           /\ \A i \in 1 .. k : NextItems(t, k)[i] = <<t, Pushed(t) + i>>
<1>1. Pushed(t) \in Nat
  BY DEF TypeOK, Call, Pending, Pushed
<1>2. \A i \in 1 .. k : <<t, Pushed(t) + i>> \in Item
  BY <1>1 DEF Item
<1>3. NextItems(t, k) \in [1 .. k -> Item]
  BY <1>2 DEF NextItems
<1>4. NextItems(t, k) \in Seq(Item)
  BY <1>3, SeqDef
<1>5. Len(NextItems(t, k)) = k
  BY <1>3, <1>4, LenProperties
<1> QED
  BY <1>4, <1>5 DEF NextItems

(****************************************************************************)
(* How many items a call moves, and that it moves no more than it may.      *)
(****************************************************************************)
LEMMA FitsProperties ==
    ASSUME TypeOK, Capacity, NEW t \in Thread, call[t].kind = "pushN"
    PROVE  /\ Fits(t) \in Nat
           /\ Fits(t) <= Pending(t)
           /\ Len(queue) + Fits(t) <= MaxSize
<1>1. Len(queue) \in Nat /\ call[t].n \in Nat
  BY LenProperties DEF TypeOK, Call
<1> QED
  BY <1>1 DEF Fits, Pending, Producing, Capacity

-----------------------------------------------------------------------------
(****************************************************************************)
(* popN is in progress only with room for an item.                          *)
(****************************************************************************)
PopNHasRoom == \A t \in Thread : call[t].kind = "popN" => call[t].n >= 1

(****************************************************************************)
(* The types of the variables, with the capacity that bounds pushN's loop.  *)
(****************************************************************************)
Shape == TypeOK /\ Capacity

LEMMA ShapeInit == Init => Shape
  BY EmptySeq DEF Init, Shape, TypeOK, Capacity, Call, Kind, NoCall, Place, Producing, Consuming

(****************************************************************************)
(* What TypeOK says of one thread.                                          *)
(****************************************************************************)
ThreadOK(where, c, total) ==
    /\ where = "idle" <=> c = NoCall
    /\ where = "waitC" => c.kind \in Consuming
    /\ where = "waitP" => c.kind \in Producing \cup {"waitEmpty"}
    /\ c.kind = "push" => c.n = 1
    /\ c.kind \in Producing => c.n <= total

LEMMA TypeOKByThread ==
    TypeOK <=> /\ queue \in Seq(Item) /\ sent \in Seq(Item) /\ taken \in Seq(Item)
               /\ open \in BOOLEAN
               /\ call \in [Thread -> Call] /\ at \in [Thread -> Place] /\ asked \in [Thread -> Nat]
               /\ \A t \in Thread : ThreadOK(at[t], call[t], asked[t])
  BY DEF TypeOK, ThreadOK

(****************************************************************************)
(* The types survive a step in which one thread moves as ThreadOK allows    *)
(* while others may only be notified.                                       *)
(****************************************************************************)
LEMMA OneThreadMoves ==
    ASSUME TypeOK, NEW t \in Thread, NEW c \in Call, NEW total \in Nat, NEW where \in Place,
           call' = [call EXCEPT ![t] = c],
           asked' = [asked EXCEPT ![t] = total],
           at' \in [Thread -> Place],
           at'[t] = where,
           ThreadOK(where, c, total),
           \A u \in Thread \ {t} : at'[u] = at[u] \/ (at[u] # "idle" /\ at'[u] = "ready"),
           open' \in BOOLEAN, queue' \in Seq(Item), sent' \in Seq(Item), taken' \in Seq(Item)
    PROVE  TypeOK'
<1>1. call' \in [Thread -> Call] /\ asked' \in [Thread -> Nat]
  BY DEF TypeOK
<1>2. ThreadOK(at'[t], call'[t], asked'[t])
  BY DEF TypeOK
<1>3. ASSUME NEW u \in Thread \ {t} PROVE ThreadOK(at'[u], call'[u], asked'[u])
  <2>1. call'[u] = call[u] /\ asked'[u] = asked[u]
    BY DEF TypeOK
  <2>2. ThreadOK(at[u], call[u], asked[u])
    BY TypeOKByThread
  <2> QED
    BY <2>1, <2>2 DEF ThreadOK
<1> QED
  BY <1>1, <1>2, <1>3 DEF TypeOK, ThreadOK

LEMMA NotifyAllProperties ==
    ASSUME NEW where \in [Thread -> Place], NEW cv \in {"waitC", "waitP"}
    PROVE  /\ NotifyAll(where, cv) \in [Thread -> Place]
           /\ \A u \in Thread :
                 NotifyAll(where, cv)[u] = IF where[u] = cv THEN "ready" ELSE where[u]
  BY DEF NotifyAll, Place

LEMMA NotifyOneProperties ==
    ASSUME NEW where \in [Thread -> Place], NEW cv \in {"waitC", "waitP"},
           NEW after \in NotifyOne(where, cv)
    PROVE  /\ after \in [Thread -> Place]
           /\ \/ /\ after = where
                 /\ \A u \in Thread : where[u] # cv
              \/ \E w \in Thread : where[w] = cv /\ after = [where EXCEPT ![w] = "ready"]
  BY DEF NotifyOne, Place

LEMMA NoCallProperties == NoCall \in Call /\ \A total \in Nat : ThreadOK("idle", NoCall, total)
  BY DEF NoCall, Call, Kind, ThreadOK, Producing, Consuming

(****************************************************************************)
(* The same when the thread returns from its call.                          *)
(****************************************************************************)
LEMMA OneThreadReturns ==
    ASSUME TypeOK, NEW t \in Thread, Return(t), asked' = asked,
           at' \in [Thread -> Place],
           at'[t] = "idle",
           \A u \in Thread \ {t} : at'[u] = at[u] \/ (at[u] # "idle" /\ at'[u] = "ready"),
           open' \in BOOLEAN, queue' \in Seq(Item), sent' \in Seq(Item), taken' \in Seq(Item)
    PROVE  TypeOK'
<1>1. call' = [call EXCEPT ![t] = NoCall]
  BY DEF Return
<1>2. asked' = [asked EXCEPT ![t] = asked[t]] /\ asked[t] \in Nat
  BY DEF TypeOK
<1>3. NoCall \in Call /\ ThreadOK("idle", NoCall, asked[t]) /\ "idle" \in Place
  BY <1>2, NoCallProperties DEF Place
<1> QED
  BY <1>1, <1>2, <1>3, OneThreadMoves

(****************************************************************************)
(* The same when it goes to wait, its call unchanged.                       *)
(****************************************************************************)
LEMMA OneThreadWaits ==
    ASSUME TypeOK, NEW t \in Thread, NEW cv \in {"waitC", "waitP"}, at[t] = "ready",
           at' = [at EXCEPT ![t] = cv],
           cv = "waitC" => call[t].kind \in Consuming,
           cv = "waitP" => call[t].kind \in Producing \cup {"waitEmpty"},
           UNCHANGED <<open, queue, call, asked, sent, taken>>
    PROVE  TypeOK'
<1>1. at' \in [Thread -> Place] /\ cv \in Place
  BY DEF TypeOK, Place
<1>2. \A u \in Thread : ThreadOK(at'[u], call[u], asked[u])
  BY DEF TypeOK, ThreadOK
<1> QED
  BY <1>1, <1>2 DEF TypeOK, ThreadOK

(****************************************************************************)
(* TakeFront moves k items from the front of the queue to the taken ones.   *)
(****************************************************************************)
LEMMA TakeFrontProperties ==
    ASSUME TypeOK, NEW t \in Thread, NEW k \in 0 .. Len(queue), TakeFront(t, k)
    PROVE  /\ queue' \in Seq(Item) /\ taken' \in Seq(Item)
           /\ Len(queue') = Len(queue) - k
           /\ taken' \o queue' = taken \o queue
           /\ queue = SubSeq(queue, 1, k) \o queue'
<1>1. queue \in Seq(Item) /\ taken \in Seq(Item) /\ Len(queue) \in Nat /\ k \in Nat
  BY LenProperties DEF TypeOK
<1>2. queue' = SubSeq(queue, k + 1, Len(queue)) /\ taken' = taken \o SubSeq(queue, 1, k)
  BY DEF TakeFront
<1>3. \A i \in 1 .. Len(queue) : queue[i] \in Item
  BY <1>1, ElementOfSeq
<1>4. SubSeq(queue, 1, k) \in Seq(Item)
  BY <1>1, <1>3, SubSeqProperties
<1>5. queue' \in Seq(Item) /\ Len(queue') = Len(queue) - k
  BY <1>1, <1>2, <1>3, SubSeqProperties
<1>6. taken' \in Seq(Item)
  BY <1>1, <1>2, <1>4, ConcatProperties
<1>7. SubSeq(queue, 1, k) \o SubSeq(queue, k + 1, Len(queue)) = queue
  <2>1. 1 \in 1 .. Len(queue) + 1 /\ k \in 0 .. Len(queue) /\ Len(queue) \in k .. Len(queue)
    BY <1>1
  <2>2. k \in 1 - 1 .. Len(queue)
    BY <2>1
  <2>3. SubSeq(queue, 1, k) \o SubSeq(queue, k + 1, Len(queue)) = SubSeq(queue, 1, Len(queue))
    BY <1>1, <2>1, <2>2, ConcatAdjacentSubSeq, Zenon
  <2> QED
    BY <1>1, <2>3, SubSeqFull
<1>8. taken' \o queue' = taken \o queue
  <2>1. PICK front \in Seq(Item) : taken' = taken \o front /\ queue = front \o queue'
    BY <1>2, <1>4, <1>7, Zenon
  <2>2. taken \in Seq(Item) /\ queue' \in Seq(Item)
    BY <1>1, <1>5
  <2> QED
    BY <2>1, <2>2, Regrouped, SMTT(30)
<1> QED
  BY <1>2, <1>5, <1>6, <1>7, <1>8

LEMMA ShapeStep == Shape /\ [Next]_vars => Shape'
<1> SUFFICES ASSUME Shape, [Next]_vars PROVE Shape'
  OBVIOUS
<1>0. TypeOK /\ Capacity /\ Len(queue) \in Nat
  BY LenProperties DEF TypeOK, Shape
<1>a. /\ queue \in Seq(Item) /\ sent \in Seq(Item) /\ taken \in Seq(Item) /\ open \in BOOLEAN
      /\ at \in [Thread -> Place]
  BY <1>0 DEF TypeOK
<1>1. ASSUME NEW t \in Thread, NEW c \in Program[t], Begin(t, c) PROVE Shape'
  <2>1. c \in Call /\ c.kind # "none" /\ (c.kind = "push" => c.n = 1) /\ c # NoCall
    BY ProgramAssumption DEF NoCall
  <2> DEFINE total == IF c.kind \in Producing THEN asked[t] + c.n ELSE asked[t]
  <2>2. total \in Nat /\ asked' = [asked EXCEPT ![t] = total]
    BY <1>0, <1>1, <2>1 DEF Begin, TypeOK, Call
  <2>3. ThreadOK("ready", c, total)
    BY <1>0, <2>1 DEF ThreadOK, Call, TypeOK
  <2>4. at' \in [Thread -> Place] /\ at'[t] = "ready" /\ \A u \in Thread \ {t} : at'[u] = at[u]
    BY <1>0, <1>1 DEF Begin, TypeOK, Place
  <2>5. /\ call' = [call EXCEPT ![t] = c] /\ "ready" \in Place
        /\ UNCHANGED <<queue, open, sent, taken>>
    BY <1>1 DEF Begin, Place
  <2>6. TypeOK'
    <3> HIDE DEF total
    <3> QED
      BY <1>0, <1>a, <2>1, <2>2, <2>3, <2>4, <2>5, OneThreadMoves
  <2> QED
    BY <1>0, <2>5, <2>6 DEF Shape, Capacity
<1>2. ASSUME NEW t \in Thread, Push(t) PROVE Shape'
  <2>1. at[t] = "ready" /\ call[t].kind = "push" /\ Pending(t) = 1 /\ UNCHANGED <<open, asked, taken>>
    BY <1>0, <1>2 DEF Push, In, Pending, Producing, TypeOK
  <2>2. NextItems(t, 1) \in Seq(Item) /\ Len(NextItems(t, 1)) = 1
    <3>1. 1 \in Nat /\ 1 <= Pending(t)
      BY <2>1
    <3> QED
      BY <1>0, <3>1, NextItemsProperties
  <2>3. CASE GiveUp(t)
    <3>1. /\ at' \in [Thread -> Place] /\ at'[t] = "idle" /\ \A u \in Thread \ {t} : at'[u] = at[u]
          /\ Return(t) /\ UNCHANGED <<queue, sent>>
      BY <1>a, <2>3 DEF GiveUp, Place
    <3> QED
      BY <1>0, <1>a, <2>1, <3>1, OneThreadReturns DEF Shape, Capacity
  <2>4. CASE PushItem(t)
    <3>1. queue' \in Seq(Item) /\ Len(queue') = Len(queue) + 1 /\ sent' \in Seq(Item)
      <4>1. \A s, items \in Seq(Item) : s \o items \in Seq(Item) /\ Len(s \o items) = Len(s) + Len(items)
        BY ConcatProperties
      <4> QED
        BY <1>a, <2>2, <2>4, <4>1 DEF PushItem
    <3>2. Capacity'
      BY <1>0, <2>4, <3>1, MaxSizeAssumption DEF PushItem, Full, Capacity
    <3> DEFINE returned == [at EXCEPT ![t] = "idle"]
    <3>3. /\ returned \in [Thread -> Place] /\ returned[t] = "idle"
          /\ \A u \in Thread \ {t} : returned[u] = at[u]
          /\ at' \in NotifyOne(returned, "waitC") /\ Return(t)
      BY <1>a, <2>4 DEF PushItem, Place
    <3> HIDE DEF returned
    <3>4. at' \in [Thread -> Place] /\ at'[t] = "idle"
             /\ \A u \in Thread \ {t} : at'[u] = at[u] \/ (at[u] # "idle" /\ at'[u] = "ready")
      BY <3>3, NotifyOneProperties
    <3> QED
      BY <1>0, <1>a, <2>1, <3>1, <3>2, <3>3, <3>4, OneThreadReturns DEF Shape
  <2>5. CASE AwaitRoom(t)
    <3>1. at' = [at EXCEPT ![t] = "waitP"] /\ UNCHANGED <<queue, call, sent>>
      BY <2>5 DEF AwaitRoom
    <3>2. TypeOK'
      BY <1>0, <2>1, <3>1, OneThreadWaits DEF Producing
    <3> QED
      BY <1>0, <3>1, <3>2 DEF Shape, Capacity
  <2> QED
    BY <1>2, <2>3, <2>4, <2>5 DEF Push
<1>3. ASSUME NEW t \in Thread, PushN(t) PROVE Shape'
  <2>1. at[t] = "ready" /\ call[t].kind = "pushN" /\ UNCHANGED <<open, asked, taken>>
    BY <1>3 DEF PushN, In
  <2>2. Pending(t) = call[t].n /\ Fits(t) \in Nat /\ Fits(t) <= Pending(t) /\ Len(queue) + Fits(t) <= MaxSize
    BY <1>0, <2>1, FitsProperties DEF Pending, Producing
  <2>3. NextItems(t, Fits(t)) \in Seq(Item) /\ Len(NextItems(t, Fits(t))) = Fits(t)
    BY <1>0, <2>2, NextItemsProperties
  <2>4. ASSUME NEW w \in {"idle", "waitP"}, at' = NotifyAll([at EXCEPT ![t] = w], "waitC")
        PROVE  /\ at' \in [Thread -> Place] /\ at'[t] = w
               /\ \A u \in Thread \ {t} : at'[u] = at[u] \/ (at[u] # "idle" /\ at'[u] = "ready")
    BY <1>a, <2>4 DEF NotifyAll, Place
  <2>5. CASE open
    <3>1. queue' = queue \o NextItems(t, Fits(t)) /\ sent' = sent \o NextItems(t, Fits(t))
      BY <1>3, <2>5 DEF PushN
    <3>2. queue' \in Seq(Item) /\ sent' \in Seq(Item) /\ Len(queue') = Len(queue) + Fits(t)
      <4>1. /\ queue \o NextItems(t, Fits(t)) \in Seq(Item)
            /\ Len(queue \o NextItems(t, Fits(t))) = Len(queue) + Len(NextItems(t, Fits(t)))
        BY <1>a, <2>3, ConcatProperties
      <4>2. sent \o NextItems(t, Fits(t)) \in Seq(Item)
        BY <1>a, <2>3, ConcatProperties
      <4> QED
        BY <2>3, <3>1, <4>1, <4>2
    <3>3. CASE Fits(t) = call[t].n
      <4>1. at' = NotifyAll([at EXCEPT ![t] = "idle"], "waitC") /\ Return(t)
        BY <1>3, <2>5, <3>3 DEF PushN
      <4>2. TypeOK'
        BY <1>0, <1>a, <2>1, <2>4, <3>2, <4>1, OneThreadReturns
      <4> QED
        BY <2>2, <3>2, <4>2 DEF Shape, Capacity
    <3>4. CASE Fits(t) # call[t].n
      <4>1. at' = NotifyAll([at EXCEPT ![t] = "waitP"], "waitC")
        BY <1>3, <2>5, <3>4 DEF PushN
      <4> DEFINE c == [kind |-> "pushN", n |-> call[t].n - Fits(t)]
      <4>2. call' = [call EXCEPT ![t] = c]
        BY <1>0, <1>3, <2>1, <2>5, <3>4 DEF PushN, TypeOK, Call
      <4>3. c \in Call /\ c # NoCall /\ c.n <= asked[t] /\ asked[t] \in Nat
        BY <1>0, <2>1, <2>2, Zenon, SMT DEF TypeOK, Call, Kind, NoCall, Producing
      <4>4. ThreadOK("waitP", c, asked[t]) /\ "waitP" \in Place
        BY <4>3 DEF ThreadOK, Producing, Place
      <4>5. asked' = [asked EXCEPT ![t] = asked[t]]
        BY <1>0, <2>1 DEF TypeOK
      <4>6. TypeOK'
        <5> HIDE DEF c
        <5> QED
          BY <1>0, <1>a, <2>1, <2>4, <3>2, <4>1, <4>2, <4>3, <4>4, <4>5, OneThreadMoves
      <4> QED
        BY <2>2, <3>2, <4>6 DEF Shape, Capacity
    <3> QED
      BY <3>3, <3>4
  <2>6. CASE ~ open
    <3>1. at' = NotifyAll([at EXCEPT ![t] = "idle"], "waitC") /\ Return(t) /\ UNCHANGED <<queue, sent>>
      BY <1>3, <2>6 DEF PushN
    <3>2. TypeOK'
      BY <1>0, <1>a, <2>1, <2>4, <3>1, OneThreadReturns
    <3> QED
      BY <1>0, <3>1, <3>2 DEF Shape, Capacity
  <2> QED
    BY <2>5, <2>6
<1>4. ASSUME NEW t \in Thread, NEW k \in 0 .. Len(queue), call[t].kind \in Consuming, at[t] = "ready",
             AwaitItem(t) \/ Canceled(t) \/ TakeFront(t, k),
             UNCHANGED <<open, asked, sent>>
      PROVE  Shape'
  <2>1. CASE AwaitItem(t)
    <3>1. at' = [at EXCEPT ![t] = "waitC"] /\ UNCHANGED <<queue, call, taken>>
      BY <2>1 DEF AwaitItem
    <3>2. TypeOK'
      BY <1>0, <1>4, <3>1, OneThreadWaits
    <3> QED
      BY <1>0, <3>1, <3>2 DEF Shape, Capacity
  <2>2. ASSUME at' = NotifyAll([at EXCEPT ![t] = "idle"], "waitP") \/ at' = [at EXCEPT ![t] = "idle"]
        PROVE  /\ at' \in [Thread -> Place] /\ at'[t] = "idle"
               /\ \A u \in Thread \ {t} : at'[u] = at[u] \/ (at[u] # "idle" /\ at'[u] = "ready")
    BY <1>a, <2>2 DEF NotifyAll, Place
  <2>3. CASE Canceled(t)
    <3>1. at' = NotifyAll([at EXCEPT ![t] = "idle"], "waitP") /\ Return(t) /\ UNCHANGED <<queue, taken>>
      BY <2>3 DEF Canceled
    <3>2. TypeOK'
      BY <1>0, <1>a, <1>4, <2>2, <3>1, OneThreadReturns
    <3> QED
      BY <1>0, <3>1, <3>2 DEF Shape, Capacity
  <2>4. CASE TakeFront(t, k)
    <3>1. queue' \in Seq(Item) /\ taken' \in Seq(Item) /\ Len(queue') = Len(queue) - k
      BY <1>0, <2>4, TakeFrontProperties
    <3>2. Return(t) /\ (at' = NotifyAll([at EXCEPT ![t] = "idle"], "waitP") \/ at' = [at EXCEPT ![t] = "idle"])
      BY <2>4 DEF TakeFront
    <3>3. TypeOK'
      BY <1>0, <1>a, <1>4, <2>2, <3>1, <3>2, OneThreadReturns
    <3> QED
      BY <1>0, <3>1, <3>3, MaxSizeAssumption DEF Shape, Capacity
  <2> QED
    BY <1>4, <2>1, <2>3, <2>4
<1>5. ASSUME NEW t \in Thread, Pop(t) PROVE Shape'
  <2>1. CASE queue = <<>>
    <3>1. 0 \in 0 .. Len(queue) /\ (AwaitItem(t) \/ Canceled(t) \/ TakeFront(t, 0))
      BY <1>0, <1>5, <2>1 DEF Pop, TakeFront
    <3> QED
      BY <1>4, <1>5, <3>1 DEF Pop, In, Consuming
  <2>2. CASE queue # <<>>
    <3>1. 1 \in 0 .. Len(queue)
      BY <1>0, <1>a, <2>2, EmptySeq
    <3> QED
      BY <1>4, <1>5, <3>1 DEF Pop, In, Consuming
  <2> QED
    BY <2>1, <2>2
<1>6. ASSUME NEW t \in Thread, PopN(t) PROVE Shape'
  <2>1. Wanted(t) \in 0 .. Len(queue)
    BY <1>0 DEF Wanted, TypeOK, Call
  <2> QED
    BY <1>4, <1>6, <2>1 DEF PopN, In, Consuming
<1>7. ASSUME NEW t \in Thread, WaitEmpty(t) PROVE Shape'
  <2>1. at[t] = "ready" /\ call[t].kind = "waitEmpty" /\ UNCHANGED <<queue, open, asked, sent, taken>>
    BY <1>7 DEF WaitEmpty, In
  <2>2. CASE queue # <<>> /\ open
    <3>1. at' = [at EXCEPT ![t] = "waitP"] /\ UNCHANGED call
      BY <1>7, <2>2 DEF WaitEmpty
    <3>2. TypeOK'
      BY <1>0, <2>1, <3>1, OneThreadWaits
    <3> QED
      BY <1>0, <2>1, <3>2 DEF Shape, Capacity
  <2>3. CASE ~ (queue # <<>> /\ open)
    <3>1. at' = [at EXCEPT ![t] = "idle"] /\ Return(t)
      BY <1>7, <2>3 DEF WaitEmpty
    <3>2. at' \in [Thread -> Place] /\ at'[t] = "idle" /\ \A u \in Thread \ {t} : at'[u] = at[u]
      BY <1>a, <3>1 DEF Place
    <3>3. TypeOK'
      BY <1>0, <1>a, <2>1, <3>1, <3>2, OneThreadReturns
    <3> QED
      BY <1>0, <2>1, <3>3 DEF Shape, Capacity
  <2> QED
    BY <2>2, <2>3
<1>8. ASSUME NEW t \in Thread, Close(t) PROVE Shape'
  <2>1. at' \in [Thread -> Place] /\ \A u \in Thread : at'[u] = IF at[u] = "waitC" THEN "ready" ELSE at[u]
    BY <1>a, <1>8, NotifyAllProperties DEF Close
  <2>2. open' \in BOOLEAN /\ UNCHANGED <<queue, call, asked, sent, taken>>
    BY <1>8 DEF Close
  <2> QED
    BY <1>0, <2>1, <2>2 DEF Shape, TypeOK, Capacity, NoCall, Consuming
<1>9. ASSUME NEW t \in Thread, SpuriousWakeup(t) PROVE Shape'
  BY <1>0, <1>9 DEF SpuriousWakeup, Shape, TypeOK, Capacity, NoCall, Consuming, Place
<1>10. CASE UNCHANGED vars
  BY <1>0, <1>10 DEF vars, Shape, TypeOK, Capacity
<1> QED
  BY <1>1, <1>2, <1>3, <1>5, <1>6, <1>7, <1>8, <1>9, <1>10 DEF Next, Step

-----------------------------------------------------------------------------
(****************************************************************************)
(* What a step does to the contents of the queue and to the histories:      *)
(* nothing, some items in at the back, or some items out at the front.      *)
(****************************************************************************)
LEMMA ContentsEffect ==
    ASSUME Shape, Next
    PROVE  \/ open' \in {open, FALSE} /\ UNCHANGED <<queue, sent, taken>>
           \/ /\ open = TRUE /\ open' = open /\ taken' = taken
              /\ \E x \in Seq(Item) : queue' = queue \o x /\ sent' = sent \o x
           \/ /\ open = TRUE /\ open' = open /\ sent' = sent
              /\ queue' \in Seq(Item)
              /\ \E x \in Seq(Item) : queue = x \o queue' /\ taken' = taken \o x
<1>0. TypeOK /\ Capacity /\ Len(queue) \in Nat /\ queue \in Seq(Item) /\ open \in BOOLEAN
  BY LenProperties DEF TypeOK, Shape
<1>1. ASSUME NEW t \in Thread, NEW c \in Program[t], Begin(t, c)
      PROVE  open' = open /\ UNCHANGED <<queue, sent, taken>>
  BY <1>1 DEF Begin
<1>2. ASSUME NEW t \in Thread, NEW k \in Nat, k <= Pending(t), open,
             queue' = queue \o NextItems(t, k), sent' = sent \o NextItems(t, k),
             UNCHANGED <<open, taken>>
      PROVE  /\ open = TRUE /\ open' = open /\ taken' = taken
             /\ \E x \in Seq(Item) : queue' = queue \o x /\ sent' = sent \o x
  BY <1>0, <1>2, NextItemsProperties
<1>3. ASSUME NEW t \in Thread, NEW k \in 0 .. Len(queue), TakeFront(t, k), UNCHANGED <<open, sent>>
      PROVE  /\ open = TRUE /\ open' = open /\ sent' = sent
             /\ queue' \in Seq(Item)
             /\ \E x \in Seq(Item) : queue = x \o queue' /\ taken' = taken \o x
  <2>1. \A i \in 1 .. Len(queue) : queue[i] \in Item
    BY <1>0, ElementOfSeq
  <2>2. SubSeq(queue, 1, k) \in Seq(Item)
    BY <1>0, <2>1, SubSeqProperties
  <2>3. queue' \in Seq(Item) /\ queue = SubSeq(queue, 1, k) \o queue'
    BY <1>0, <1>3, TakeFrontProperties
  <2> QED
    BY <1>0, <1>3, <2>2, <2>3 DEF TakeFront
<1>4. ASSUME NEW t \in Thread, Push(t)
      PROVE  \/ UNCHANGED <<open, queue, sent, taken>>
             \/ /\ open = TRUE /\ open' = open /\ taken' = taken
                /\ \E x \in Seq(Item) : queue' = queue \o x /\ sent' = sent \o x
  <2>1. CASE PushItem(t)
    <3>1. 1 \in Nat /\ 1 <= Pending(t)
      BY <1>0, <1>4 DEF Push, In, Pending, Producing, TypeOK
    <3> QED
      BY <1>2, <1>4, <2>1, <3>1 DEF Push, PushItem
  <2> QED
    BY <1>4, <2>1 DEF Push, GiveUp, AwaitRoom
<1>5. ASSUME NEW t \in Thread, PushN(t)
      PROVE  \/ UNCHANGED <<open, queue, sent, taken>>
             \/ /\ open = TRUE /\ open' = open /\ taken' = taken
                /\ \E x \in Seq(Item) : queue' = queue \o x /\ sent' = sent \o x
  <2>1. Fits(t) \in Nat /\ Fits(t) <= Pending(t)
    BY <1>0, <1>5, FitsProperties DEF PushN, In
  <2> QED
    BY <1>2, <1>5, <2>1 DEF PushN
<1>6. ASSUME NEW t \in Thread, Pop(t) \/ PopN(t)
      PROVE  \/ UNCHANGED <<open, queue, sent, taken>>
             \/ /\ open = TRUE /\ open' = open /\ sent' = sent
                /\ queue' \in Seq(Item)
                /\ \E x \in Seq(Item) : queue = x \o queue' /\ taken' = taken \o x
  <2>1. Wanted(t) \in 0 .. Len(queue)
    BY <1>0 DEF Wanted, TypeOK, Call
  <2>2. queue # <<>> => 1 \in 0 .. Len(queue)
    BY <1>0, EmptySeq
  <2>3. UNCHANGED <<open, sent>>
    BY <1>6 DEF Pop, PopN
  <2>4. CASE TakeFront(t, 1)
    BY <1>3, <2>2, <2>3, <2>4 DEF TakeFront
  <2>5. CASE TakeFront(t, Wanted(t))
    BY <1>3, <2>1, <2>3, <2>5
  <2> QED
    BY <1>6, <2>3, <2>4, <2>5 DEF Pop, PopN, AwaitItem, Canceled
<1>7. ASSUME NEW t \in Thread, WaitEmpty(t) \/ Close(t) \/ SpuriousWakeup(t)
      PROVE  open' \in {open, FALSE} /\ UNCHANGED <<queue, sent, taken>>
  BY <1>7 DEF WaitEmpty, Close, SpuriousWakeup
<1> QED
  BY <1>1, <1>4, <1>5, <1>6, <1>7 DEF Next, Step

LEMMA FifoStep == Shape /\ FirstInFirstOut /\ [Next]_vars => FirstInFirstOut'
<1> SUFFICES ASSUME Shape, FirstInFirstOut, [Next]_vars PROVE FirstInFirstOut'
  OBVIOUS
<1>1. queue \in Seq(Item) /\ taken \in Seq(Item)
  BY DEF Shape, TypeOK
<1>2. taken \o queue = sent
  BY DEF FirstInFirstOut
<1>3. CASE Next
  <2>1. CASE UNCHANGED <<queue, sent, taken>>
    BY <1>1, <2>1 DEF FirstInFirstOut
  <2>2. ASSUME NEW x \in Seq(Item), queue' = queue \o x, sent' = sent \o x, taken' = taken
        PROVE  FirstInFirstOut'
    <3>1. sent = taken \o queue /\ queue' = queue \o x
      BY <1>2, <2>2
    <3>2. sent \o x = taken \o queue'
      BY <1>1, <3>1, Regrouped, SMTT(30)
    <3> QED
      BY <2>2, <3>2 DEF FirstInFirstOut
  <2>3. ASSUME NEW x \in Seq(Item), queue' \in Seq(Item), queue = x \o queue', taken' = taken \o x,
               sent' = sent
        PROVE  FirstInFirstOut'
    <3>1. taken' \o queue' = taken \o queue
      BY <1>1, <2>3, Regrouped, SMTT(30)
    <3> QED
      BY <1>2, <2>3, <3>1 DEF FirstInFirstOut
  <2> QED
    BY <1>3, <2>1, <2>2, <2>3, ContentsEffect
<1>4. CASE UNCHANGED vars
  BY <1>1, <1>4 DEF vars, FirstInFirstOut
<1> QED
  BY <1>3, <1>4

-----------------------------------------------------------------------------
(****************************************************************************)
(* The queue never outgrows its capacity, and delivers in order everything  *)
(* it accepted.                                                             *)
(****************************************************************************)
Contents == Shape /\ FirstInFirstOut

LEMMA ContentsInvariant == Spec => []Contents
<1>1. Init => Contents
  BY ShapeInit, EmptySeq, ConcatEmptySeq DEF Init, Contents, FirstInFirstOut
<1>2. Contents /\ [Next]_vars => Contents'
  BY ShapeStep, FifoStep DEF Contents
<1> QED
  BY <1>1, <1>2, PTL DEF Spec

(****************************************************************************)
(* The variables keep their types (m_open, m_queue and the place of every   *)
(* thread in its call) in every behaviour.                                  *)
(****************************************************************************)
THEOREM TypeCorrect == Spec => []TypeOK
  BY ContentsInvariant, PTL DEF Contents, Shape

(****************************************************************************)
(* m_queue holds at most m_maxSize items, whatever the pushers do.          *)
(****************************************************************************)
THEOREM CapacityHolds == Spec => []Capacity
  BY ContentsInvariant, PTL DEF Contents, Shape

(****************************************************************************)
(* Everything pushed is popped once and in the order it was pushed.         *)
(****************************************************************************)
THEOREM FifoHolds == Spec => []FirstInFirstOut
  BY ContentsInvariant, PTL DEF Contents

-----------------------------------------------------------------------------
(****************************************************************************)
(* What a step does to the count of the items each thread has pushed:       *)
(* nothing while the queue stays open, unless it pushes the next ones.      *)
(****************************************************************************)
LEMMA PushedEffect ==
    ASSUME Shape, Next
    PROVE  \/ /\ sent' = sent
              /\ \A u \in Thread : Pushed(u)' >= Pushed(u) /\ (open' => Pushed(u)' = Pushed(u))
              /\ open' => open
           \/ /\ open = TRUE /\ open' = open
              /\ \E t \in Thread : \E k \in Nat :
                    /\ k <= Pending(t)
                    /\ sent' = sent \o NextItems(t, k)
                    /\ \A u \in Thread : Pushed(u)' = IF u = t THEN Pushed(u) + k ELSE Pushed(u)
<1>0. /\ TypeOK /\ Capacity /\ call \in [Thread -> Call] /\ asked \in [Thread -> Nat]
      /\ open \in BOOLEAN
  BY DEF TypeOK, Shape
<1>a. \A u \in Thread : Pushed(u) \in Nat
  BY <1>0 DEF TypeOK, Call, Pushed, Pending
<1>1. ASSUME NEW t \in Thread, Return(t), asked' = asked
      PROVE  \A u \in Thread : Pushed(u)' = IF u = t THEN asked[u] ELSE Pushed(u)
  BY <1>0, <1>1 DEF Return, Pushed, Pending, NoCall, Producing
<1>2. ASSUME NEW t \in Thread, call[t].kind \notin Producing, Return(t), asked' = asked
      PROVE  \A u \in Thread : Pushed(u)' = Pushed(u)
  BY <1>0, <1>1, <1>2 DEF Pushed, Pending
<1>3. ASSUME UNCHANGED <<call, asked>> PROVE \A u \in Thread : Pushed(u)' = Pushed(u)
  BY <1>3 DEF Pushed, Pending
<1>4. ASSUME NEW t \in Thread, NEW c \in Program[t], Begin(t, c)
      PROVE  sent' = sent /\ open' = open /\ \A u \in Thread : Pushed(u)' = Pushed(u)
  <2>1. c \in Call /\ call[t] = NoCall
    BY <1>0, <1>4, ProgramAssumption DEF Begin, TypeOK
  <2>2. Pushed(t)' = Pushed(t)
    BY <1>0, <1>4, <2>1 DEF Begin, Pushed, Pending, NoCall, Call, Producing
  <2>3. \A u \in Thread \ {t} : Pushed(u)' = Pushed(u)
    BY <1>0, <1>4 DEF Begin, Pushed, Pending
  <2> QED
    BY <1>4, <2>2, <2>3 DEF Begin
<1>5. ASSUME NEW t \in Thread, Push(t) \/ PushN(t), ~ open
      PROVE  sent' = sent /\ ~ open' /\ \A u \in Thread : Pushed(u)' >= Pushed(u)
  <2>1. Return(t) /\ UNCHANGED <<open, asked, sent>>
    BY <1>5 DEF Push, PushN, GiveUp, PushItem, AwaitRoom
  <2>2. asked[t] >= Pushed(t)
    BY <1>0 DEF Pushed, Pending, TypeOK, Call
  <2> QED
    BY <1>a, <1>1, <1>5, <2>1, <2>2
<1>6. ASSUME NEW t \in Thread, Push(t), open
      PROVE  \/ sent' = sent /\ open' = open /\ \A u \in Thread : Pushed(u)' = Pushed(u)
             \/ /\ open' = open /\ 1 <= Pending(t) /\ sent' = sent \o NextItems(t, 1)
                /\ \A u \in Thread : Pushed(u)' = IF u = t THEN Pushed(u) + 1 ELSE Pushed(u)
  <2>1. UNCHANGED <<open, asked>> /\ Pending(t) = 1 /\ Pushed(t) + 1 = asked[t]
    BY <1>0, <1>6 DEF Push, In, Pending, Pushed, Producing, TypeOK
  <2>2. CASE PushItem(t)
    BY <1>1, <2>1, <2>2 DEF PushItem
  <2>3. CASE AwaitRoom(t)
    BY <1>3, <2>1, <2>3 DEF AwaitRoom
  <2> QED
    BY <1>6, <2>2, <2>3 DEF Push, GiveUp
<1>7. ASSUME NEW t \in Thread, PushN(t), open
      PROVE  /\ open' = open /\ sent' = sent \o NextItems(t, Fits(t))
             /\ Fits(t) \in Nat /\ Fits(t) <= Pending(t)
             /\ \A u \in Thread : Pushed(u)' = IF u = t THEN Pushed(u) + Fits(t) ELSE Pushed(u)
  <2>1. /\ call[t].kind = "pushN" /\ Pending(t) = call[t].n /\ Pushed(t) = asked[t] - call[t].n
        /\ UNCHANGED <<open, asked>> /\ sent' = sent \o NextItems(t, Fits(t))
    BY <1>7 DEF PushN, In, Pending, Pushed, Producing
  <2>2. Fits(t) \in Nat /\ Fits(t) <= Pending(t)
    BY <1>0, <2>1, FitsProperties
  <2>3. CASE Fits(t) = call[t].n
    <3>1. Return(t)
      BY <1>7, <2>3 DEF PushN
    <3>2. Pushed(t) + Fits(t) = asked[t]
      BY <1>0, <2>1, <2>3 DEF TypeOK, Call
    <3> QED
      BY <1>1, <2>1, <2>2, <3>1, <3>2
  <2>4. CASE Fits(t) # call[t].n
    <3>1. call' = [call EXCEPT ![t].n = call[t].n - Fits(t)]
      BY <1>7, <2>4 DEF PushN
    <3>2. call'[t].kind = "pushN" /\ call'[t].n = call[t].n - Fits(t)
      BY <1>0, <2>1, <3>1 DEF Call
    <3>3. Pushed(t)' = Pushed(t) + Fits(t)
      BY <1>0, <2>1, <2>2, <3>2 DEF Pushed, Pending, Producing, Call
    <3>4. \A u \in Thread \ {t} : Pushed(u)' = Pushed(u)
      BY <1>0, <2>1, <3>1 DEF Pushed, Pending
    <3> QED
      BY <2>1, <2>2, <3>3, <3>4
  <2> QED
    BY <2>3, <2>4
<1>8. ASSUME NEW t \in Thread, Pop(t) \/ PopN(t) \/ WaitEmpty(t)
      PROVE  sent' = sent /\ open' = open /\ \A u \in Thread : Pushed(u)' = Pushed(u)
  <2>1. call[t].kind \notin Producing /\ UNCHANGED <<open, asked, sent>>
    BY <1>8 DEF Pop, PopN, WaitEmpty, In, Producing
  <2>2. Return(t) \/ UNCHANGED call
    BY <1>8 DEF Pop, PopN, WaitEmpty, AwaitItem, Canceled, TakeFront
  <2> QED
    BY <1>2, <1>3, <2>1, <2>2
<1>9. ASSUME NEW t \in Thread, Close(t) \/ SpuriousWakeup(t)
      PROVE  sent' = sent /\ (open' => open) /\ \A u \in Thread : Pushed(u)' = Pushed(u)
  BY <1>3, <1>9 DEF Close, SpuriousWakeup
<1>10. \A u \in Thread : Pushed(u) >= Pushed(u)
  BY <1>a
<1>11. CASE \E t \in Thread : PushN(t) /\ open
  BY <1>0, <1>7, <1>11
<1>12. CASE \E t \in Thread : Push(t) /\ open
  BY <1>0, <1>6, <1>10, <1>12
<1>13. CASE \E t \in Thread : (Push(t) \/ PushN(t)) /\ ~ open
  BY <1>5, <1>13
<1> QED
  BY <1>0, <1>4, <1>8, <1>9, <1>10, <1>11, <1>12, <1>13 DEF Next, Step

(****************************************************************************)
(* Every accepted item is one its thread has pushed.                        *)
(****************************************************************************)
Numbered ==
    \A i \in DOMAIN sent : \A u \in Thread : sent[i][1] = u => sent[i][2] \in 1 .. Pushed(u)

Order == Numbered /\ InCallOrder /\ NoneSkipped

LEMMA OrderStep == Shape /\ Order /\ [Next]_vars => Order'
<1> SUFFICES ASSUME Shape, Order, [Next]_vars PROVE Order'
  OBVIOUS
<1>0. TypeOK /\ sent \in Seq(Item) /\ DOMAIN sent = 1 .. Len(sent) /\ Len(sent) \in Nat
  BY LenProperties DEF Shape, TypeOK
<1>a. \A u \in Thread : Pushed(u) \in Nat
  BY <1>0 DEF TypeOK, Call, Pushed, Pending
<1>b. \A u \in Thread : Pushed(u)' \in Nat
  <2>1. TypeOK'
    BY ShapeStep DEF Shape
  <2> QED
    BY <2>1 DEF TypeOK, Call, Pushed, Pending
<1>1. CASE UNCHANGED vars
  BY <1>1 DEF vars, Order, Numbered, InCallOrder, NoneSkipped, Pushed, Pending
<1>2. ASSUME sent' = sent, open' => open,
             \A u \in Thread : Pushed(u)' >= Pushed(u) /\ (open' => Pushed(u)' = Pushed(u))
      PROVE  Order'
  <2>1. Numbered'
    <3> SUFFICES ASSUME NEW i \in DOMAIN sent, NEW u \in Thread, sent[i][1] = u
                 PROVE  sent[i][2] \in 1 .. Pushed(u)'
      BY <1>2 DEF Numbered
    <3>1. sent[i][2] \in 1 .. Pushed(u)
      BY DEF Order, Numbered
    <3>2. Pushed(u) \in Nat /\ Pushed(u)' >= Pushed(u)
      BY <1>a, <1>2
    <3>3. Pushed(u)' \in Int
      BY <1>b
    <3> QED
      BY <3>1, <3>2, <3>3
  <2>2. InCallOrder'
    BY <1>2 DEF Order, InCallOrder
  <2>3. NoneSkipped'
    BY <1>2 DEF Order, NoneSkipped
  <2> QED
    BY <2>1, <2>2, <2>3 DEF Order
<1>3. ASSUME NEW t \in Thread, NEW k \in Nat, k <= Pending(t), open,
             sent' = sent \o NextItems(t, k),
             \A u \in Thread : Pushed(u)' = IF u = t THEN Pushed(u) + k ELSE Pushed(u)
      PROVE  Order'
  <2> DEFINE x == NextItems(t, k)
  <2>1. x \in Seq(Item) /\ Len(x) = k /\ \A i \in 1 .. k : x[i] = <<t, Pushed(t) + i>>
    BY <1>0, <1>3, NextItemsProperties
  <2> HIDE DEF x
  <2>2. /\ sent \o x \in Seq(Item) /\ Len(sent \o x) = Len(sent) + k
        /\ \A i \in 1 .. Len(sent) + k :
              (sent \o x)[i] = IF i <= Len(sent) THEN sent[i] ELSE x[i - Len(sent)]
    BY <1>0, <2>1, ConcatProperties
  <2>3. sent' = sent \o x /\ DOMAIN sent' = 1 .. Len(sent) + k
    BY <1>3, <2>2, LenProperties DEF x
  <2>4. \A i \in 1 .. Len(sent) : sent'[i] = sent[i]
    BY <1>0, <2>2, <2>3
  <2>5. \A i \in Len(sent) + 1 .. Len(sent) + k : sent'[i] = <<t, Pushed(t) + (i - Len(sent))>>
    <3> SUFFICES ASSUME NEW i \in Len(sent) + 1 .. Len(sent) + k
                 PROVE  sent'[i] = <<t, Pushed(t) + (i - Len(sent))>>
      OBVIOUS
    <3>1. i - Len(sent) \in 1 .. k /\ i \in 1 .. Len(sent) + k /\ ~ (i <= Len(sent))
      BY <1>0
    <3> QED
      BY <2>1, <2>2, <2>3, <3>1
  <2>6. Numbered'
    <3> SUFFICES ASSUME NEW i \in 1 .. Len(sent) + k, NEW u \in Thread, sent'[i][1] = u
                 PROVE  sent'[i][2] \in 1 .. Pushed(u)'
      BY <2>3 DEF Numbered
    <3>1. CASE i <= Len(sent)
      <4>1. sent'[i] = sent[i] /\ sent[i][2] \in 1 .. Pushed(u)
        BY <1>0, <2>4, <3>1 DEF Order, Numbered
      <4>2. Pushed(u)' >= Pushed(u) /\ Pushed(u)' \in Nat /\ Pushed(u) \in Nat
        BY <1>a, <1>3
      <4> QED
        BY <4>1, <4>2
    <3>2. CASE ~ (i <= Len(sent))
      <4>1. sent'[i] = <<t, Pushed(t) + (i - Len(sent))>>
        BY <1>0, <2>5, <3>2
      <4>2. u = t /\ Pushed(t)' = Pushed(t) + k /\ Pushed(t) \in Nat
        BY <1>a, <1>3, <4>1
      <4> QED
        BY <1>0, <3>2, <4>1, <4>2
    <3> QED
      BY <3>1, <3>2
  <2>7. InCallOrder'
    <3> SUFFICES ASSUME NEW i \in 1 .. Len(sent) + k, NEW j \in 1 .. Len(sent) + k,
                        i < j, sent'[i][1] = sent'[j][1]
                 PROVE  sent'[i][2] < sent'[j][2]
      BY <2>3 DEF InCallOrder
    <3>1. CASE j <= Len(sent)
      BY <1>0, <2>4, <3>1 DEF Order, InCallOrder
    <3>2. CASE ~ (j <= Len(sent)) /\ i <= Len(sent)
      <4>1. sent'[j] = <<t, Pushed(t) + (j - Len(sent))>>
        BY <1>0, <2>5, <3>2
      <4>2. sent'[i] = sent[i]
        BY <1>0, <2>4, <3>2
      <4>3. sent[i][1] = t /\ Pushed(t) \in Nat
        BY <1>a, <4>1, <4>2
      <4>4. sent[i][2] \in 1 .. Pushed(t)
        BY <1>0, <3>2, <4>3 DEF Order, Numbered
      <4> QED
        BY <1>0, <3>2, <4>1, <4>2, <4>3, <4>4
    <3>3. CASE ~ (i <= Len(sent))
      <4>1. sent'[j] = <<t, Pushed(t) + (j - Len(sent))>> /\ sent'[i] = <<t, Pushed(t) + (i - Len(sent))>>
        BY <1>0, <2>5, <3>3
      <4> QED
        BY <1>0, <1>a, <4>1
    <3> QED
      BY <3>1, <3>2, <3>3
  <2>8. NoneSkipped'
    <3> SUFFICES ASSUME NEW u \in Thread, NEW n \in 1 .. Pushed(u)'
                 PROVE  \E i \in DOMAIN sent' : sent'[i] = <<u, n>>
      BY DEF NoneSkipped
    <3>1. CASE n \in 1 .. Pushed(u)
      <4>1. PICK i \in 1 .. Len(sent) : sent[i] = <<u, n>>
        BY <1>0, <1>3, <3>1 DEF Order, NoneSkipped
      <4>2. i \in DOMAIN sent' /\ sent'[i] = <<u, n>>
        BY <1>0, <2>3, <2>4, <4>1
      <4> QED
        BY <4>2
    <3>2. CASE n \notin 1 .. Pushed(u)
      <4>1. u = t /\ n \in Pushed(t) + 1 .. Pushed(t) + k /\ Pushed(t) \in Nat
        BY <1>a, <1>3, <3>2
      <4> DEFINE i == Len(sent) + (n - Pushed(t))
      <4>2. i \in Len(sent) + 1 .. Len(sent) + k /\ Pushed(t) + (i - Len(sent)) = n
        BY <1>0, <4>1
      <4>3. i \in DOMAIN sent'
        BY <1>0, <2>3, <4>2
      <4> QED
        BY <2>5, <4>1, <4>2, <4>3
    <3> QED
      BY <3>1, <3>2
  <2> QED
    BY <2>6, <2>7, <2>8 DEF Order
<1> QED
  BY <1>1, <1>2, <1>3, PushedEffect

LEMMA OrderInvariant == Spec => [](Shape /\ Order)
<1>1. Init => Shape /\ Order
  <2> SUFFICES ASSUME Init PROVE Order
    BY ShapeInit
  <2>1. sent = <<>> /\ DOMAIN sent = {} /\ \A u \in Thread : Pushed(u) = 0
    BY DEF Init, Pushed, Pending, NoCall, Producing
  <2> QED
    BY <2>1 DEF Order, Numbered, InCallOrder, NoneSkipped
<1>2. Shape /\ Order /\ [Next]_vars => (Shape /\ Order)'
  BY ShapeStep, OrderStep
<1> QED
  BY <1>1, <1>2, PTL DEF Spec

(****************************************************************************)
(* The items of each thread enter the queue in the order it pushed them,    *)
(* even across the waits of a pushN that found the queue full.              *)
(****************************************************************************)
THEOREM CallOrderHolds == Spec => []InCallOrder
  BY OrderInvariant, PTL DEF Order

(****************************************************************************)
(* No push or pushN of an open queue returns before its items are in it.    *)
(****************************************************************************)
THEOREM NoneSkippedHolds == Spec => []NoneSkipped
  BY OrderInvariant, PTL DEF Order

-----------------------------------------------------------------------------
(****************************************************************************)
(* The sleeping threads.  NoLostWakeup alone is not inductive: it needs to  *)
(* know that every popN in progress takes something.                        *)
(****************************************************************************)
Wakeups == PopNHasRoom /\ NoLostWakeup /\ DrainedWakesProducers /\ ClosedWakesConsumers

LEMMA ReadyFinite ==
    /\ IsFiniteSet(Ready(Consuming))
    /\ Cardinality(Ready(Consuming)) \in Nat
  BY ThreadAssumption, FS_Subset, FS_CardinalityType DEF Ready

(****************************************************************************)
(* More consumers awake, or as many: the cardinality follows.               *)
(****************************************************************************)
LEMMA ReadyGrows ==
    ASSUME Ready(Consuming) \subseteq Ready(Consuming)'
    PROVE  Cardinality(Ready(Consuming)) <= Cardinality(Ready(Consuming)')
<1>1. IsFiniteSet(Ready(Consuming)')
  BY ThreadAssumption, FS_Subset DEF Ready
<1> QED
  BY <1>1, FS_Subset

LEMMA RoomStep == RoomToPop /\ Shape /\ PopNHasRoom /\ [Next]_vars => PopNHasRoom'
<1> SUFFICES ASSUME RoomToPop, Shape, PopNHasRoom, [Next]_vars PROVE PopNHasRoom'
  OBVIOUS
<1>0. call \in [Thread -> Call]
  BY DEF Shape, TypeOK
<1>1. ASSUME NEW t \in Thread, NEW c \in Program[t], Begin(t, c) PROVE PopNHasRoom'
  BY <1>0, <1>1, ProgramAssumption DEF Begin, PopNHasRoom, RoomToPop
<1>2. ASSUME NEW t \in Thread, Return(t) \/ UNCHANGED call PROVE PopNHasRoom'
  BY <1>0, <1>2 DEF Return, PopNHasRoom, NoCall
<1>3. ASSUME NEW t \in Thread, PushN(t) PROVE PopNHasRoom'
  <2>1. CASE Return(t)
    BY <1>2, <2>1
  <2>2. CASE ~ Return(t)
    <3>1. call' = [call EXCEPT ![t].n = call[t].n - Fits(t)] /\ call[t].kind = "pushN"
      BY <1>3, <2>2 DEF PushN, In
    <3>2. call'[t].kind = "pushN" /\ \A u \in Thread \ {t} : call'[u] = call[u]
      BY <1>0, <3>1 DEF Call
    <3> QED
      BY <3>2 DEF PopNHasRoom
  <2> QED
    BY <2>1, <2>2
<1>4. ASSUME NEW t \in Thread, Step(t) \/ Close(t) \/ SpuriousWakeup(t), ~ PushN(t) PROVE PopNHasRoom'
  BY <1>2, <1>4 DEF Step, Push, GiveUp, PushItem, AwaitRoom, Pop, PopN, AwaitItem, Canceled, TakeFront,
                    WaitEmpty, Close, SpuriousWakeup
<1>5. CASE UNCHANGED vars
  BY <1>5 DEF vars, PopNHasRoom
<1> QED
  BY <1>1, <1>3, <1>4, <1>5 DEF Next, Step

(****************************************************************************)
(* A step that leaves the contents alone, wakes nobody but consumers and    *)
(* waiters, and sends to sleep only producers of a queue with items in it.  *)
(****************************************************************************)
LEMMA SleepersStep ==
    ASSUME Shape, Wakeups, RoomToPop, [Next]_vars
    PROVE  NoLostWakeup' /\ DrainedWakesProducers' /\ ClosedWakesConsumers'
<1> USE DEF Wakeups
<1>0. /\ TypeOK /\ Capacity /\ call \in [Thread -> Call] /\ at \in [Thread -> Place]
      /\ queue \in Seq(Item) /\ Len(queue) \in Nat /\ open \in BOOLEAN
      /\ (queue = <<>> <=> Len(queue) = 0)
  BY LenProperties, EmptySeq DEF TypeOK, Shape
<1>a. IsFiniteSet(Ready(Consuming)) /\ Cardinality(Ready(Consuming)) \in Nat
      /\ IsFiniteSet(Ready(Consuming)') /\ Cardinality(Ready(Consuming)') \in Nat
  BY ThreadAssumption, FS_Subset, FS_CardinalityType DEF Ready
<1>b. TypeOK'
  BY ShapeStep DEF Shape
(****************************************************************************)
(* Nobody falls asleep and no consumer that is awake leaves.                *)
(****************************************************************************)
<1>1. ASSUME UNCHANGED <<queue, open>>,
             \A u \in Thread : at'[u] \in {"waitC", "waitP"} => at'[u] = at[u],
             Ready(Consuming) \subseteq Ready(Consuming)'
      PROVE  NoLostWakeup' /\ DrainedWakesProducers' /\ ClosedWakesConsumers'
  <2>1. Waiting("waitC")' \subseteq Waiting("waitC") /\ Waiting("waitP")' \subseteq Waiting("waitP")
    BY <1>1 DEF Waiting
  <2>2. Cardinality(Ready(Consuming)) <= Cardinality(Ready(Consuming)')
    BY <1>1, ReadyGrows
  <2>3. NoLostWakeup'
    BY <1>0, <1>1, <1>a, <2>1, <2>2 DEF NoLostWakeup
  <2> QED
    BY <1>1, <2>1, <2>3 DEF DrainedWakesProducers, ClosedWakesConsumers
(****************************************************************************)
(* A producer or a waitEmpty falls asleep with items in the open queue.     *)
(****************************************************************************)
<1>2. ASSUME NEW t \in Thread, at' = [at EXCEPT ![t] = "waitP"], at[t] = "ready",
             call[t].kind \notin Consuming, queue # <<>>, UNCHANGED <<queue, open, call>>
      PROVE  NoLostWakeup' /\ DrainedWakesProducers' /\ ClosedWakesConsumers'
  <2>1. Waiting("waitC")' = Waiting("waitC") /\ Ready(Consuming)' = Ready(Consuming)
    BY <1>0, <1>2 DEF Waiting, Ready
  <2> QED
    BY <1>2, <2>1 DEF NoLostWakeup, DrainedWakesProducers, ClosedWakesConsumers
<1>3. ASSUME NEW t \in Thread, NEW c \in Program[t], Begin(t, c)
      PROVE  NoLostWakeup' /\ DrainedWakesProducers' /\ ClosedWakesConsumers'
  <2>1. Ready(Consuming) \subseteq Ready(Consuming)'
    BY <1>0, <1>3 DEF Begin, Ready
  <2>2. \A u \in Thread : at'[u] \in {"waitC", "waitP"} => at'[u] = at[u]
    BY <1>0, <1>3 DEF Begin
  <2> QED
    BY <1>1, <1>3, <2>1, <2>2 DEF Begin
(****************************************************************************)
(* A closed queue keeps no consumer asleep.                                 *)
(****************************************************************************)
<1>4. ASSUME ~ open', \A u \in Thread : at'[u] # "waitC"
      PROVE  NoLostWakeup' /\ DrainedWakesProducers' /\ ClosedWakesConsumers'
  BY <1>4 DEF NoLostWakeup, DrainedWakesProducers, ClosedWakesConsumers, Waiting
<1>5. ASSUME NEW t \in Thread, Push(t)
      PROVE  NoLostWakeup' /\ DrainedWakesProducers' /\ ClosedWakesConsumers'
  <2>1. at[t] = "ready" /\ call[t].kind = "push" /\ Pending(t) = 1 /\ UNCHANGED <<open, asked, taken>>
    BY <1>0, <1>5 DEF Push, In, Pending, Producing, TypeOK
  <2>2. CASE GiveUp(t)
    BY <1>0, <1>4, <2>1, <2>2 DEF GiveUp, ClosedWakesConsumers, Waiting
  <2>3. CASE AwaitRoom(t)
    <3>1. queue # <<>>
      BY <1>0, <2>3, MaxSizeAssumption DEF AwaitRoom, Full
    <3> QED
      BY <1>2, <2>1, <2>3, <3>1 DEF AwaitRoom, Consuming
  <2>4. CASE PushItem(t)
    <3> DEFINE returned == [at EXCEPT ![t] = "idle"]
    <3>1. /\ returned \in [Thread -> Place] /\ returned[t] = "idle"
          /\ \A u \in Thread \ {t} : returned[u] = at[u]
          /\ at' \in NotifyOne(returned, "waitC") /\ open /\ open'
      BY <1>0, <2>1, <2>4 DEF PushItem, Place
    <3>2. Len(queue') = Len(queue) + 1 /\ queue' # <<>>
      <4>1. \A x \in Seq(Item) : queue \o x \in Seq(Item) /\ Len(queue \o x) = Len(queue) + Len(x)
        BY <1>0, ConcatProperties
      <4>2. 1 \in Nat /\ 1 <= Pending(t)
        BY <2>1
      <4>3. NextItems(t, 1) \in Seq(Item) /\ Len(NextItems(t, 1)) = 1
        BY <1>0, <4>2, NextItemsProperties
      <4>4. Len(queue') = Len(queue) + 1
        BY <2>4, <4>1, <4>3 DEF PushItem
      <4> QED
        BY <1>0, <4>4, EmptySeq
    <3>3. \A u \in Thread \ {t} : call'[u] = call[u] /\ call'[t] = NoCall
      BY <1>0, <2>4 DEF PushItem, Return
    <3> HIDE DEF returned
    <3>4. CASE at' = returned /\ \A u \in Thread : returned[u] # "waitC"
      BY <3>1, <3>2, <3>4 DEF NoLostWakeup, DrainedWakesProducers, ClosedWakesConsumers, Waiting
    <3>5. ASSUME NEW w \in Thread, returned[w] = "waitC", at' = [returned EXCEPT ![w] = "ready"]
          PROVE  NoLostWakeup' /\ DrainedWakesProducers' /\ ClosedWakesConsumers'
      <4>1. w # t /\ at[w] = "waitC" /\ call[w].kind \in Consuming /\ w \notin Ready(Consuming)
        BY <1>0, <3>1, <3>5 DEF TypeOK, Ready
      <4>2. Ready(Consuming)' = Ready(Consuming) \cup {w}
        BY <1>0, <2>1, <3>1, <3>3, <3>5, <4>1 DEF Ready, NoCall, Consuming
      <4>3. Cardinality(Ready(Consuming)') = Cardinality(Ready(Consuming)) + 1
        BY <1>a, <4>1, <4>2, FS_AddElement
      <4>4. Len(queue) <= Cardinality(Ready(Consuming))
        BY <3>1, <4>1 DEF NoLostWakeup, Waiting
      <4>5. Len(queue') <= Cardinality(Ready(Consuming)')
        BY <1>0, <1>a, <3>2, <4>3, <4>4
      <4> QED
        BY <3>1, <3>2, <4>5 DEF NoLostWakeup, DrainedWakesProducers, ClosedWakesConsumers
    <3> QED
      BY <3>1, <3>4, <3>5, NotifyOneProperties
  <2> QED
    BY <1>5, <2>2, <2>3, <2>4 DEF Push
<1>6. ASSUME NEW t \in Thread, PushN(t)
      PROVE  NoLostWakeup' /\ DrainedWakesProducers' /\ ClosedWakesConsumers'
  <2>1. at[t] = "ready" /\ call[t].kind = "pushN" /\ open' = open /\ Pending(t) = call[t].n
    BY <1>6 DEF PushN, In, Pending, Producing
  <2>2. PICK w \in {"idle", "waitP"} :
           /\ at' = NotifyAll([at EXCEPT ![t] = w], "waitC")
           /\ w = "waitP" => open /\ Fits(t) # call[t].n
    BY <1>6 DEF PushN
  <2>3. \A u \in Thread : /\ at'[u] # "waitC"
                          /\ at'[u] = "waitP" => (u = t /\ w = "waitP") \/ at[u] = "waitP"
    BY <1>0, <2>2 DEF NotifyAll, Place
  <2>4. Waiting("waitC")' = {}
    BY <2>3 DEF Waiting
  <2>5. ASSUME open', Waiting("waitP")' # {} PROVE queue' # <<>>
    <3>1. queue' = queue \o NextItems(t, Fits(t))
      BY <1>6, <2>1, <2>5 DEF PushN
    <3>2. Fits(t) \in Nat /\ Fits(t) <= Pending(t)
      BY <1>0, <2>1, FitsProperties
    <3>3. NextItems(t, Fits(t)) \in Seq(Item) /\ Len(NextItems(t, Fits(t))) = Fits(t)
      BY <1>0, <3>2, NextItemsProperties
    <3>4. Len(queue') = Len(queue) + Fits(t)
      <4>1. \A x \in Seq(Item) : Len(queue \o x) = Len(queue) + Len(x)
        BY <1>0, ConcatProperties
      <4> QED
        BY <3>1, <3>3, <4>1
    <3>5. CASE w = "waitP"
      <4>1. Fits(t) = MaxSize - Len(queue)
        BY <2>2, <3>5 DEF Fits
      <4> QED
        BY <1>0, <3>4, <4>1, MaxSizeAssumption, EmptySeq
    <3>6. CASE w # "waitP"
      <4>1. Waiting("waitP") # {}
        BY <2>3, <2>5, <3>6 DEF Waiting
      <4>2. Len(queue) > 0
        BY <1>0, <2>1, <2>5, <4>1 DEF DrainedWakesProducers
      <4> QED
        BY <1>0, <3>2, <3>4, <4>2, EmptySeq
    <3> QED
      BY <3>5, <3>6
  <2> QED
    BY <2>4, <2>5 DEF NoLostWakeup, DrainedWakesProducers, ClosedWakesConsumers
<1>7. ASSUME NEW t \in Thread, NEW k \in 0 .. Len(queue), queue # <<>> => k >= 1,
             at[t] = "ready", call[t].kind \in Consuming,
             AwaitItem(t) \/ Canceled(t) \/ TakeFront(t, k), open' = open
      PROVE  NoLostWakeup' /\ DrainedWakesProducers' /\ ClosedWakesConsumers'
  <2>1. CASE AwaitItem(t)
    <3>1. /\ open /\ queue = <<>> /\ queue' = queue /\ at' = [at EXCEPT ![t] = "waitC"]
      BY <2>1 DEF AwaitItem
    <3>2. Waiting("waitP")' = Waiting("waitP")
      BY <1>0, <1>7, <3>1 DEF Waiting
    <3>3. Len(queue') = 0 /\ 0 <= Cardinality(Ready(Consuming)')
      BY <1>0, <1>a, <3>1
    <3> QED
      BY <1>7, <3>1, <3>2, <3>3 DEF NoLostWakeup, DrainedWakesProducers, ClosedWakesConsumers
  <2>2. CASE Canceled(t)
    <3>1. /\ ~ open /\ at' = NotifyAll([at EXCEPT ![t] = "idle"], "waitP")
      BY <2>2 DEF Canceled
    <3>2. \A u \in Thread : at'[u] # "waitC"
      BY <1>0, <3>1 DEF ClosedWakesConsumers, Waiting, NotifyAll, Place
    <3> QED
      BY <1>4, <1>7, <3>1, <3>2
  <2>3. CASE TakeFront(t, k)
    <3>1. /\ open /\ queue # <<>> /\ k >= 1 /\ Return(t)
          /\ Len(queue') = Len(queue) - k /\ queue' \in Seq(Item)
      BY <1>0, <1>7, <2>3, TakeFrontProperties DEF TakeFront
    <3>2. at' = IF k = Len(queue) THEN NotifyAll([at EXCEPT ![t] = "idle"], "waitP")
                                  ELSE [at EXCEPT ![t] = "idle"]
      BY <2>3 DEF TakeFront
    <3>3. /\ at'[t] = "idle"
          /\ \A u \in Thread \ {t} :
                /\ at'[u] = at[u] \/ (at[u] = "waitP" /\ at'[u] = "ready")
                /\ call'[u] = call[u]
          /\ k = Len(queue) => \A u \in Thread : at'[u] # "waitP"
      BY <1>0, <3>1, <3>2 DEF NotifyAll, Return, Place
    <3>4. Ready(Consuming)' = Ready(Consuming) \ {t} /\ t \in Ready(Consuming)
      BY <1>0, <1>7, <3>3 DEF Ready, TypeOK, Consuming, Producing
    <3>5. Cardinality(Ready(Consuming)') = Cardinality(Ready(Consuming)) - 1
      BY <1>a, <3>4, FS_RemoveElement
    <3>6. Waiting("waitC")' = Waiting("waitC")
      BY <1>0, <1>7, <3>3 DEF Waiting
    <3>7. NoLostWakeup'
      BY <1>0, <1>7, <1>a, <3>1, <3>5, <3>6 DEF NoLostWakeup
    <3>8. k # Len(queue) => queue' # <<>>
      BY <1>0, <3>1, EmptySeq
    <3> QED
      BY <1>7, <3>1, <3>3, <3>7, <3>8 DEF DrainedWakesProducers, ClosedWakesConsumers, Waiting
  <2> QED
    BY <1>7, <2>1, <2>2, <2>3
<1>8. ASSUME NEW t \in Thread, Pop(t)
      PROVE  NoLostWakeup' /\ DrainedWakesProducers' /\ ClosedWakesConsumers'
  <2>1. CASE queue = <<>>
    <3>1. 0 \in 0 .. Len(queue) /\ (AwaitItem(t) \/ Canceled(t) \/ TakeFront(t, 0))
      BY <1>0, <1>8, <2>1 DEF Pop, TakeFront
    <3> QED
      BY <1>7, <1>8, <2>1, <3>1 DEF Pop, In, Consuming
  <2>2. CASE queue # <<>>
    <3>1. 1 \in 0 .. Len(queue) /\ 1 >= 1
      BY <1>0, <2>2
    <3> QED
      BY <1>7, <1>8, <3>1 DEF Pop, In, Consuming
  <2> QED
    BY <2>1, <2>2
<1>9. ASSUME NEW t \in Thread, PopN(t)
      PROVE  NoLostWakeup' /\ DrainedWakesProducers' /\ ClosedWakesConsumers'
  <2>1. call[t].n \in Nat /\ call[t].n >= 1
    BY <1>0, <1>9 DEF PopN, In, PopNHasRoom, Call
  <2>2. Wanted(t) \in 0 .. Len(queue) /\ (queue # <<>> => Wanted(t) >= 1)
    BY <1>0, <2>1 DEF Wanted
  <2> QED
    BY <1>7, <1>9, <2>2 DEF PopN, In, Consuming
<1>10. ASSUME NEW t \in Thread, WaitEmpty(t)
       PROVE  NoLostWakeup' /\ DrainedWakesProducers' /\ ClosedWakesConsumers'
  <2>1. at[t] = "ready" /\ call[t].kind = "waitEmpty" /\ UNCHANGED <<queue, open>>
    BY <1>10 DEF WaitEmpty, In
  <2>2. CASE queue # <<>> /\ open
    BY <1>2, <1>10, <2>1, <2>2 DEF WaitEmpty, Consuming
  <2>3. CASE ~ (queue # <<>> /\ open)
    <3>1. at' = [at EXCEPT ![t] = "idle"] /\ Return(t)
      BY <1>10, <2>3 DEF WaitEmpty
    <3>2. Ready(Consuming) \subseteq Ready(Consuming)'
      BY <1>0, <2>1, <3>1 DEF Ready, Return, Consuming
    <3>3. \A u \in Thread : at'[u] \in {"waitC", "waitP"} => at'[u] = at[u]
      BY <1>0, <3>1
    <3> QED
      BY <1>1, <2>1, <3>2, <3>3
  <2> QED
    BY <2>2, <2>3
<1>11. ASSUME NEW t \in Thread, Close(t)
       PROVE  NoLostWakeup' /\ DrainedWakesProducers' /\ ClosedWakesConsumers'
  <2>1. ~ open' /\ \A u \in Thread : at'[u] # "waitC"
    BY <1>0, <1>11 DEF Close, NotifyAll
  <2> QED
    BY <1>4, <2>1
<1>12. ASSUME NEW t \in Thread, SpuriousWakeup(t)
       PROVE  NoLostWakeup' /\ DrainedWakesProducers' /\ ClosedWakesConsumers'
  <2>1. Ready(Consuming) \subseteq Ready(Consuming)'
    BY <1>0, <1>12 DEF SpuriousWakeup, Ready
  <2>2. \A u \in Thread : at'[u] \in {"waitC", "waitP"} => at'[u] = at[u]
    BY <1>0, <1>12 DEF SpuriousWakeup
  <2> QED
    BY <1>1, <1>12, <2>1, <2>2 DEF SpuriousWakeup
<1>13. CASE UNCHANGED vars
  BY <1>13 DEF vars, NoLostWakeup, DrainedWakesProducers, ClosedWakesConsumers, Waiting, Ready
<1> QED
  BY <1>3, <1>5, <1>6, <1>8, <1>9, <1>10, <1>11, <1>12, <1>13 DEF Next, Step

LEMMA WakeupsInvariant == ASSUME RoomToPop PROVE Spec => [](Shape /\ Wakeups)
<1>1. Init => Shape /\ Wakeups
  <2> SUFFICES ASSUME Init PROVE Wakeups
    BY ShapeInit
  <2>1. \A cv \in {"waitC", "waitP"} : Waiting(cv) = {}
    BY DEF Init, Waiting
  <2> QED
    BY <2>1 DEF Init, Wakeups, PopNHasRoom, NoLostWakeup, DrainedWakesProducers, ClosedWakesConsumers, NoCall
<1>2. Shape /\ Wakeups /\ [Next]_vars => (Shape /\ Wakeups)'
  BY ShapeStep, RoomStep, SleepersStep DEF Wakeups
<1> QED
  BY <1>1, <1>2, PTL DEF Spec

(****************************************************************************)
(* No notification is lost: as long as popN is called with room in its      *)
(* vector, an item never lies in an open queue beside a sleeping consumer   *)
(* unless another consumer is awake and on its way to it.                   *)
(****************************************************************************)
THEOREM NoLostWakeupHolds == ASSUME RoomToPop PROVE Spec => []NoLostWakeup
  BY WakeupsInvariant, PTL DEF Wakeups

(****************************************************************************)
(* No producer or waitEmpty sleeps on in an open queue that has drained.    *)
(****************************************************************************)
THEOREM DrainedWakesProducersHolds == ASSUME RoomToPop PROVE Spec => []DrainedWakesProducers
  BY WakeupsInvariant, PTL DEF Wakeups

(****************************************************************************)
(* No consumer sleeps on in a closed queue.                                 *)
(****************************************************************************)
THEOREM ClosedWakesConsumersHolds == ASSUME RoomToPop PROVE Spec => []ClosedWakesConsumers
  BY WakeupsInvariant, PTL DEF Wakeups

-----------------------------------------------------------------------------
(****************************************************************************)
(* Prefixes of concatenations, in the terms of the abstract channel.        *)
(****************************************************************************)
LEMMA ConcatExtends ==
    ASSUME NEW s \in Seq(Item), NEW x \in Seq(Item)
    PROVE  s \o x \in Seq(Item) /\ Channel!Extends(s \o x, s)
<1>1. s \o x \in Seq(Item) /\ Len(s \o x) = Len(s) + Len(x) /\ Len(s) \in Nat /\ Len(x) \in Nat
  BY ConcatProperties, LenProperties
<1>2. CASE s = <<>>
  <2>1. Len(s) = 0 /\ SubSeq(s \o x, 1, 0) = <<>>
    BY <1>2, EmptySeq, SubSeqEmpty
  <2> QED
    BY <1>1, <1>2, <2>1 DEF Channel!Extends
<1>3. CASE s # <<>>
  <2>1. 1 \in 1 .. Len(s) /\ Len(s) \in 1 .. Len(s)
    BY <1>1, <1>3, EmptySeq
  <2>2. SubSeq(s \o x, 1, Len(s)) = SubSeq(s, 1, Len(s))
    BY <2>1, SubSeqOfConcat1
  <2> QED
    BY <1>1, <2>2, SubSeqFull DEF Channel!Extends
<1> QED
  BY <1>2, <1>3

(****************************************************************************)
(* ConcurrentQueue implements the bounded channel: threads, the mutex and   *)
(* the condition variables hidden, what callers see is a channel.           *)
(****************************************************************************)
THEOREM Refinement == Spec => ImplementsChannel
<1>1. Init => Channel!Init
  BY DEF Init, Channel!Init
<1>2. Contents /\ Contents' /\ [Next]_vars => [Channel!Next]_<<open, sent, taken>>
  <2> SUFFICES ASSUME Contents, Contents', [Next]_vars
               PROVE  [Channel!Next]_<<open, sent, taken>>
    OBVIOUS
  <2>1. /\ queue \in Seq(Item) /\ sent \in Seq(Item) /\ taken \in Seq(Item)
        /\ taken \o queue = sent
    BY DEF Contents, Shape, TypeOK, FirstInFirstOut
  <2>2. /\ queue' \in Seq(Item) /\ sent' \in Seq(Item) /\ taken' \in Seq(Item)
        /\ taken' \o queue' = sent' /\ Len(queue') <= MaxSize
    BY DEF Contents, Shape, TypeOK, Capacity, FirstInFirstOut
  <2>3. CASE UNCHANGED vars
    BY <2>3 DEF vars
  <2>4. CASE Next
    <3>1. CASE open' \in {open, FALSE} /\ UNCHANGED <<queue, sent, taken>>
      BY <3>1 DEF Channel!Next, Channel!Close
    <3>2. CASE /\ open = TRUE /\ open' = open /\ taken' = taken
               /\ \E x \in Seq(Item) : queue' = queue \o x /\ sent' = sent \o x
      <4>1. Channel!Extends(sent', sent)
        BY <2>1, <3>2, ConcatExtends
      <4>2. Len(sent') = Len(taken) + Len(queue') /\ Len(taken) \in Nat /\ Len(queue') \in Nat
        BY <2>1, <2>2, <3>2, ConcatProperties, LenProperties
      <4>3. Len(sent') - Len(taken) <= MaxSize
        BY <2>2, <4>2, MaxSizeAssumption
      <4> QED
        BY <2>2, <3>2, <4>1, <4>3 DEF Channel!Next, Channel!Put
    <3>3. CASE /\ open = TRUE /\ open' = open /\ sent' = sent
               /\ queue' \in Seq(Item)
               /\ \E x \in Seq(Item) : queue = x \o queue' /\ taken' = taken \o x
      <4>1. Channel!Extends(taken', taken)
        BY <2>1, <3>3, ConcatExtends
      <4>2. Channel!Extends(sent, taken')
        BY <2>2, <3>3, ConcatExtends
      <4> QED
        BY <2>2, <3>3, <4>1, <4>2 DEF Channel!Next, Channel!Take
    <3> QED
      BY <2>4, <3>1, <3>2, <3>3, ContentsEffect DEF Contents
  <2> QED
    BY <2>3, <2>4
<1> QED
  BY <1>1, <1>2, ContentsInvariant, PTL DEF Spec, ImplementsChannel, Channel!Spec, Channel!vars
=============================================================================
