---------------------------- MODULE Logging_proofs ----------------------------
(****************************************************************************)
(* The safety of Logging, for any threads, sinks, levels and bounds.  The   *)
(* queue is not looked into again: each step of the program is a step of    *)
(* ConcurrentQueue, whose theorems hold of m_messages.  What a sink has to  *)
(* write is a recursive function of the stream; what the proofs need of it  *)
(* follows from a least prefix at which it would fail.                      *)
(****************************************************************************)
EXTENDS Logging, SequenceTheorems, FiniteSetTheorems, WellFoundedInduction, TLAPS

Q == INSTANCE ConcurrentQueue_proofs WITH Workers <- {Logger}

SinkType ==
    /\ sinks \in Seq(Sink)
    /\ IsFiniteSet(Registered) /\ Cardinality(Registered) = Len(sinks)
    /\ \A i, j \in DOMAIN sinks : sinks[i] = sinks[j] => i = j

LoggerType ==
    /\ logger \in {"open", "sinks", "pop", "lock", "write", "exited"}
    /\ message \in Q!Item \cup {Nothing}
    /\ message # Nothing <=> logger \in {"lock", "write"}
    /\ nextWrite \in 0 .. Len(sinks) + 1
    /\ logger = "write" => nextWrite # 0

MainType ==
    /\ main \in {"parse", "run", "flush", "return", "drain", "join", "exited"}
    /\ nextFlush \in 0 .. Len(sinks) + 1
    /\ nextFlush # 0 => main \in {"flush", "join"}
    /\ logged \in 0 .. Len(sent)

HistoryType ==
    /\ written \in [Sink -> Seq(Q!Item)]
    /\ flushed \in [Sink -> Nat] /\ from \in [Sink -> Nat]

(****************************************************************************)
(* A thread is in a call of its program, and the message in the logger's    *)
(* hands is the last that was taken.                                        *)
(****************************************************************************)
Callers == \A t \in Thread : call[t] = Q!NoCall \/ call[t] \in Program[t]

InHand == message # Nothing => taken # <<>> /\ message = taken[Len(taken)]

(****************************************************************************)
(* How far the sinks have come in the stream; none was registered beyond.   *)
(****************************************************************************)
Stream ==
    /\ \A i \in DOMAIN sinks : from[sinks[i]] <= Dispatched
    /\ \A s \in Sink \ Registered : written[s] = <<>>
    /\ SinkSeesStream

(****************************************************************************)
(* The way out: the queue is closed by the destructor, once it has found it *)
(* empty; the sinks are flushed one by one once the logger has gone.        *)
(****************************************************************************)
Flushed(i) == flushed[sinks[i]] >= Len(Due(sinks[i], from[sinks[i]], logged))

Closing ==
    /\ main \notin {"join", "exited"} => open
    /\ main = "drain" => call[Main] \in {Q!NoCall, WaitEmptyCall}
    /\ (main \in {"join", "exited"} \/ (main = "drain" /\ MainIdle)) => logged <= Len(taken)
    /\ (main = "join" /\ nextFlush # 0) =>
          logger = "exited" /\ \A i \in DOMAIN sinks : i < nextFlush => Flushed(i)
    /\ main = "exited" => \A i \in DOMAIN sinks : Flushed(i)

LogInv ==
    /\ Q!Contents
    /\ SinkType /\ LoggerType /\ MainType /\ HistoryType
    /\ Callers /\ InHand /\ Stream /\ Closing

-----------------------------------------------------------------------------
(****************************************************************************)
(* The queue: what ConcurrentQueue assumes holds of m_messages, and so its  *)
(* theorems do.                                                             *)
(****************************************************************************)
LEMMA QueueAssumptions ==
    /\ Q!ThreadAssumption /\ Q!MaxSizeAssumption /\ Q!ProgramAssumption
    /\ Q!WorkersAssumption /\ Q!MaxItemsAssumption
<1>1. IsFiniteSet(Thread)
  BY BoundAssumption, FS_AddElement, FS_Singleton, FS_Union DEF Thread, App
<1>2. /\ PushCall \in Q!Call /\ PopCall \in Q!Call /\ WaitEmptyCall \in Q!Call
  BY DEF PushCall, PopCall, WaitEmptyCall, Q!Call, Q!Kind
<1>3. Program \in [Thread -> SUBSET Q!Call]
  BY <1>2 DEF Program
<1>4. \A t \in Thread : \A c \in Program[t] : c.kind # "none" /\ (c.kind = "push" => c.n = 1)
  BY DEF Program, PushCall, PopCall, WaitEmptyCall
<1>5. Q!ThreadAssumption
  BY <1>1 DEF Q!ThreadAssumption, Q!IsFiniteSet, IsFiniteSet
<1>6. Q!ProgramAssumption
  BY <1>3, <1>4 DEF Q!ProgramAssumption
<1>7. Q!WorkersAssumption
  BY DEF Q!WorkersAssumption, Thread
<1>8. Q!MaxSizeAssumption /\ Q!MaxItemsAssumption
  BY BoundAssumption DEF Q!MaxSizeAssumption, Q!MaxItemsAssumption
<1> QED
  BY <1>5, <1>6, <1>7, <1>8

\* The two instances have the same definitions.
LEMMA MessagesAreQueue ==
    /\ Messages!Init <=> Q!Init
    /\ Messages!TypeOK <=> Q!TypeOK
    /\ Messages!Item = Q!Item
    /\ \A t \in Thread :
          /\ \A c : Messages!Begin(t, c) <=> Q!Begin(t, c)
          /\ Messages!Step(t) <=> Q!Step(t)
          /\ Messages!Pop(t) <=> Q!Pop(t)
          /\ Messages!Close(t) <=> Q!Close(t)
          /\ Messages!SpuriousWakeup(t) <=> Q!SpuriousWakeup(t)
<1>1. Messages!Init <=> Q!Init
  BY DEF Messages!Init, Q!Init, Messages!NoCall, Q!NoCall
<1>2. Messages!TypeOK <=> Q!TypeOK
  BY DEF Messages!TypeOK, Q!TypeOK, Messages!Item, Q!Item, Messages!Call, Q!Call, Messages!Place, Q!Place,
         Messages!Kind, Q!Kind, Messages!NoCall, Q!NoCall, Messages!Consuming, Q!Consuming,
         Messages!Producing, Q!Producing
<1>3. Messages!Item = Q!Item
  BY DEF Messages!Item, Q!Item
<1>4. ASSUME NEW t \in Thread
      PROVE  /\ \A c : Messages!Begin(t, c) <=> Q!Begin(t, c)
             /\ Messages!Step(t) <=> Q!Step(t)
             /\ Messages!Pop(t) <=> Q!Pop(t)
             /\ Messages!Close(t) <=> Q!Close(t)
             /\ Messages!SpuriousWakeup(t) <=> Q!SpuriousWakeup(t)
  <2>1. \A c : Messages!Begin(t, c) <=> Q!Begin(t, c)
    BY DEF Messages!Begin, Q!Begin, Messages!Producing, Q!Producing
  <2>2. \A k : Messages!In(t, k) <=> Q!In(t, k)
    BY DEF Messages!In, Q!In
  <2>3. Messages!Return(t) <=> Q!Return(t)
    BY DEF Messages!Return, Q!Return, Messages!NoCall, Q!NoCall
  <2>4. \A w, cv : /\ Messages!NotifyAll(w, cv) = Q!NotifyAll(w, cv)
                   /\ Messages!NotifyOne(w, cv) = Q!NotifyOne(w, cv)
    BY DEF Messages!NotifyAll, Q!NotifyAll, Messages!NotifyOne, Q!NotifyOne
  <2>5. \A k : Messages!NextItems(t, k) = Q!NextItems(t, k)
    BY DEF Messages!NextItems, Q!NextItems, Messages!Pushed, Q!Pushed, Messages!Pending, Q!Pending,
           Messages!Producing, Q!Producing
  <2>6. (Messages!Full <=> Q!Full) /\ Messages!Fits(t) = Q!Fits(t) /\ Messages!Wanted(t) = Q!Wanted(t)
    BY DEF Messages!Full, Q!Full, Messages!Fits, Q!Fits, Messages!Wanted, Q!Wanted
  <2>7. \A k : Messages!TakeFront(t, k) <=> Q!TakeFront(t, k)
    BY <2>3, <2>4 DEF Messages!TakeFront, Q!TakeFront
  <2>8. (Messages!AwaitItem(t) <=> Q!AwaitItem(t)) /\ (Messages!Canceled(t) <=> Q!Canceled(t))
    BY <2>3, <2>4 DEF Messages!AwaitItem, Q!AwaitItem, Messages!Canceled, Q!Canceled
  <2>9. Messages!Pop(t) <=> Q!Pop(t)
    BY <2>2, <2>7, <2>8 DEF Messages!Pop, Q!Pop
  <2>10. Messages!PopN(t) <=> Q!PopN(t)
    BY <2>2, <2>6, <2>7, <2>8 DEF Messages!PopN, Q!PopN
  <2>11. /\ Messages!GiveUp(t) <=> Q!GiveUp(t)
         /\ Messages!PushItem(t) <=> Q!PushItem(t)
         /\ Messages!AwaitRoom(t) <=> Q!AwaitRoom(t)
    BY <2>3, <2>4, <2>5, <2>6
    DEF Messages!GiveUp, Q!GiveUp, Messages!PushItem, Q!PushItem, Messages!AwaitRoom, Q!AwaitRoom
  <2>12. Messages!Push(t) <=> Q!Push(t)
    BY <2>2, <2>11 DEF Messages!Push, Q!Push
  <2>13. Messages!PushN(t) <=> Q!PushN(t)
    BY <2>2, <2>3, <2>4, <2>5, <2>6 DEF Messages!PushN, Q!PushN
  <2>14. Messages!WaitEmpty(t) <=> Q!WaitEmpty(t)
    BY <2>2, <2>3 DEF Messages!WaitEmpty, Q!WaitEmpty
  <2>15. Messages!Close(t) <=> Q!Close(t)
    BY <2>4 DEF Messages!Close, Q!Close
  <2>16. Messages!SpuriousWakeup(t) <=> Q!SpuriousWakeup(t)
    BY DEF Messages!SpuriousWakeup, Q!SpuriousWakeup
  <2> QED
    BY <2>1, <2>9, <2>10, <2>12, <2>13, <2>14, <2>15, <2>16 DEF Messages!Step, Q!Step
<1> QED
  BY <1>1, <1>2, <1>3, <1>4

LEMMA ContentsKept ==
    ASSUME Q!Contents, [Q!Next]_(Q!vars)
    PROVE  Q!Contents'
  BY QueueAssumptions, Q!ShapeStep, Q!FifoStep DEF Q!Contents

LEMMA ContentsStart == Messages!Init => Q!Contents
<1> SUFFICES ASSUME Messages!Init PROVE Q!Contents
  OBVIOUS
<1>1. Q!Init
  BY MessagesAreQueue
<1>2. Q!Shape
  BY <1>1, QueueAssumptions, Q!ShapeInit
<1>3. Q!FirstInFirstOut
  BY <1>1, EmptySeq, ConcatEmptySeq DEF Q!Init, Q!FirstInFirstOut
<1> QED
  BY <1>2, <1>3 DEF Q!Contents
-----------------------------------------------------------------------------
(****************************************************************************)
(* What a sink has to write of a stream q.  The recursive function exists,  *)
(* is determined by the prefix it is taken of, and grows with it.           *)
(****************************************************************************)
DueOf(q, s, i, j) ==
    LET due[k \in 0 .. j] ==
          IF k <= i THEN <<>>
          ELSE IF Passes(s, q[k]) THEN Append(due[k - 1], q[k]) ELSE due[k - 1]
    IN  due[j]

IsDue(f, q, s, i, j) ==
    f = [k \in 0 .. j |->
          IF k <= i THEN <<>>
          ELSE IF Passes(s, q[k]) THEN Append(f[k - 1], q[k]) ELSE f[k - 1]]

\* A set of natural numbers has a least element.
LEMMA Least ==
    ASSUME NEW S \in SUBSET Nat, S # {}
    PROVE  \E k \in S : \A j \in S : k <= j
<1> DEFINE R == {p \in Nat \X Nat : p[1] < p[2]}
<1>1. R = OpToRel(<, Nat)
  BY DEF OpToRel
<1>2. IsWellFoundedOn(R, Nat)
  BY <1>1, NatLessThanWellFounded
<1>3. PICK k \in S : \A j \in S : <<j, k>> \notin R
  <2> HIDE DEF R
  <2> QED BY <1>2, WFMin
<1>4. \A j \in S : ~(j < k)
  BY <1>3
<1> QED BY <1>3, <1>4

LEMMA DueExists ==
    ASSUME NEW q, NEW s, NEW i \in Nat, NEW j \in Nat
    PROVE  \E f : IsDue(f, q, s, i, j)
<1> DEFINE Bad == {k \in Nat : ~ \E f : IsDue(f, q, s, i, k)}
<1> SUFFICES ASSUME Bad # {} PROVE FALSE
  OBVIOUS
<1>0. Bad \in SUBSET Nat
  OBVIOUS
<1>1. PICK b \in Bad : \A k \in Bad : b <= k
  <2> HIDE DEF Bad
  <2> QED
    BY <1>0, Least
<1>2. b # 0
  <2>1. IsDue([k \in 0 .. 0 |-> <<>>], q, s, i, 0)
    BY DEF IsDue
  <2> QED
    BY <1>1, <2>1
<1>3. b - 1 \in Nat /\ b - 1 \notin Bad
  BY <1>1, <1>2
<1>4. PICK f : IsDue(f, q, s, i, b - 1)
  BY <1>3
<1> DEFINE next == IF b <= i THEN <<>>
                   ELSE IF Passes(s, q[b]) THEN Append(f[b - 1], q[b]) ELSE f[b - 1]
           g == [k \in 0 .. b |-> IF k = b THEN next ELSE f[k]]
<1>5. g = [k \in 0 .. b |-> IF k <= i THEN <<>>
                           ELSE IF Passes(s, q[k]) THEN Append(g[k - 1], q[k]) ELSE g[k - 1]]
  <2>1. ASSUME NEW k \in 0 .. b
        PROVE  g[k] = IF k <= i THEN <<>>
                      ELSE IF Passes(s, q[k]) THEN Append(g[k - 1], q[k]) ELSE g[k - 1]
    <3>1. CASE k = b
      <4>1. b - 1 \in 0 .. b /\ b - 1 # b
        BY <1>2, <1>3
      <4>2. g[b - 1] = f[b - 1] /\ g[b] = next
        BY <4>1
      <4> QED
        BY <3>1, <4>2
    <3>2. CASE k # b
      <4>1. k \in 0 .. b - 1 /\ g[k] = f[k]
        BY <1>1, <3>2
      <4>2. f[k] = IF k <= i THEN <<>>
                   ELSE IF Passes(s, q[k]) THEN Append(f[k - 1], q[k]) ELSE f[k - 1]
        BY <1>4, <4>1 DEF IsDue
      <4>3. k > i => g[k - 1] = f[k - 1]
        BY <1>1, <3>2
      <4> QED
        BY <4>1, <4>2, <4>3
    <3> QED
      BY <3>1, <3>2
  <2> HIDE DEF next
  <2> QED
    BY <2>1
<1>6. IsDue(g, q, s, i, b)
  BY <1>5 DEF IsDue
<1> QED
  BY <1>1, <1>6

LEMMA DueAgrees ==
    ASSUME NEW q, NEW p, NEW s, NEW i \in Nat, NEW j \in Nat, NEW l \in Nat,
           NEW f, IsDue(f, q, s, i, j), NEW g, IsDue(g, p, s, i, l),
           NEW n \in Nat, n <= j, n <= l, \A k \in 1 .. n : q[k] = p[k]
    PROVE  f[n] = g[n]
<1> DEFINE Bad == {k \in 0 .. n : f[k] # g[k]}
<1> SUFFICES ASSUME Bad # {} PROVE FALSE
  OBVIOUS
<1>0. Bad \in SUBSET Nat
  OBVIOUS
<1>1. PICK b \in Bad : \A k \in Bad : b <= k
  <2> HIDE DEF Bad
  <2> QED
    BY <1>0, Least
<1>2. b \in 0 .. j /\ b \in 0 .. l
  BY <1>1
<1>3. f[b] = IF b <= i THEN <<>>
             ELSE IF Passes(s, q[b]) THEN Append(f[b - 1], q[b]) ELSE f[b - 1]
  BY <1>2 DEF IsDue
<1>4. g[b] = IF b <= i THEN <<>>
             ELSE IF Passes(s, p[b]) THEN Append(g[b - 1], p[b]) ELSE g[b - 1]
  BY <1>2 DEF IsDue
<1>5. b > i => f[b - 1] = g[b - 1] /\ q[b] = p[b]
  BY <1>1
<1> QED
  BY <1>1, <1>3, <1>4, <1>5

LEMMA DueIs ==
    ASSUME NEW q, NEW s, NEW i \in Nat, NEW j \in Nat
    PROVE  \E f : IsDue(f, q, s, i, j) /\ DueOf(q, s, i, j) = f[j]
<1>1. DueOf(q, s, i, j) = (CHOOSE f : IsDue(f, q, s, i, j))[j]
  BY DEF DueOf, IsDue
<1> QED
  BY <1>1, DueExists

-----------------------------------------------------------------------------
\* The part of the stream up to the first i leaves nothing to write.
LEMMA DueEmpty ==
    ASSUME NEW q, NEW s, NEW i \in Nat, NEW j \in 0 .. i
    PROVE  DueOf(q, s, i, j) = <<>>
<1>1. PICK f : IsDue(f, q, s, i, j) /\ DueOf(q, s, i, j) = f[j]
  BY DueIs
<1>2. j \in 0 .. j /\ j <= i
  OBVIOUS
<1> QED
  BY <1>1, <1>2 DEF IsDue

\* One more message is one more to write, if the levels of the sink let it through.
LEMMA DueNext ==
    ASSUME NEW q, NEW s, NEW i \in Nat, NEW j \in Nat, i <= j
    PROVE  DueOf(q, s, i, j + 1) = IF Passes(s, q[j + 1])
                                     THEN Append(DueOf(q, s, i, j), q[j + 1])
                                     ELSE DueOf(q, s, i, j)
<1>1. PICK f : IsDue(f, q, s, i, j) /\ DueOf(q, s, i, j) = f[j]
  BY DueIs
<1>2. PICK g : IsDue(g, q, s, i, j + 1) /\ DueOf(q, s, i, j + 1) = g[j + 1]
  BY DueIs
<1>3. f[j] = g[j]
  BY <1>1, <1>2, DueAgrees
<1>4. j + 1 \in 0 .. j + 1 /\ ~(j + 1 <= i) /\ (j + 1) - 1 = j
  OBVIOUS
<1>5. g[j + 1] = IF Passes(s, q[j + 1]) THEN Append(g[j], q[j + 1]) ELSE g[j]
  BY <1>2, <1>4 DEF IsDue
<1> QED
  BY <1>1, <1>2, <1>3, <1>5

\* Only the prefix counts.
LEMMA DueStable ==
    ASSUME NEW q, NEW p, NEW s, NEW i \in Nat, NEW j \in Nat, \A k \in 1 .. j : q[k] = p[k]
    PROVE  DueOf(q, s, i, j) = DueOf(p, s, i, j)
<1>1. PICK f : IsDue(f, q, s, i, j) /\ DueOf(q, s, i, j) = f[j]
  BY DueIs
<1>2. PICK g : IsDue(g, p, s, i, j) /\ DueOf(p, s, i, j) = g[j]
  BY DueIs
<1> QED
  BY <1>1, <1>2, DueAgrees

\* What is due is a sequence of messages, longer for a longer prefix.
LEMMA DueGrows ==
    ASSUME NEW T, NEW q \in Seq(T), NEW s, NEW i \in Nat, NEW j \in 0 .. Len(q), NEW k \in 0 .. j
    PROVE  /\ DueOf(q, s, i, j) \in Seq(T)
           /\ Len(DueOf(q, s, i, k)) <= Len(DueOf(q, s, i, j))
<1> DEFINE due(n) == DueOf(q, s, i, n)
           Good(n) == due(n) \in Seq(T) /\ (k <= n => Len(due(k)) <= Len(due(n)))
           Bad == {n \in 0 .. j : ~ Good(n)}
<1> SUFFICES ASSUME Bad # {} PROVE FALSE
  OBVIOUS
<1>0. Bad \in SUBSET Nat
  OBVIOUS
<1>1. PICK b \in Bad : \A n \in Bad : b <= n
  <2> HIDE DEF Bad
  <2> QED
    BY <1>0, Least
<1>2. ASSUME b <= i PROVE FALSE
  <2>1. due(b) = <<>> /\ (k <= b => due(k) = <<>>)
    BY <1>2, DueEmpty
  <2> HIDE DEF due
  <2> QED
    BY <1>1, <2>1
<1>3. ASSUME b > i PROVE FALSE
  <2>1. b - 1 \in 0 .. j /\ i <= b - 1 /\ b - 1 \in Nat /\ Good(b - 1)
    BY <1>1, <1>3
  <2>2. q[b] \in T
    BY <1>1, <1>3
  <2>3. due(b) = IF Passes(s, q[b]) THEN Append(due(b - 1), q[b]) ELSE due(b - 1)
    <3>1. b = (b - 1) + 1
      BY <1>1
    <3>2. due((b - 1) + 1) = IF Passes(s, q[(b - 1) + 1]) THEN Append(due(b - 1), q[(b - 1) + 1])
                             ELSE due(b - 1)
      BY <2>1, DueNext
    <3> QED
      BY <3>1, <3>2
  <2>4. due(b) \in Seq(T) /\ Len(due(b)) >= Len(due(b - 1))
    <3> HIDE DEF due
    <3> QED
      BY <2>1, <2>2, <2>3
  <2> HIDE DEF due
  <2>5. k <= b => Len(due(k)) <= Len(due(b))
    <3>1. CASE k = b
      BY <2>4, <3>1
    <3>2. CASE k < b
      BY <1>1, <2>1, <2>4, <3>2
    <3> QED
      BY <1>1, <3>1, <3>2
  <2> QED
    BY <1>1, <2>4, <2>5
<1> QED
  BY <1>1, <1>2, <1>3
-----------------------------------------------------------------------------
(****************************************************************************)
(* What the steps of the program do to the queue.                           *)
(****************************************************************************)
LEMMA QueueTypes ==
    ASSUME Q!Contents
    PROVE  /\ queue \in Seq(Q!Item) /\ sent \in Seq(Q!Item) /\ taken \in Seq(Q!Item)
           /\ call \in [Thread -> Q!Call] /\ at \in [Thread -> Q!Place] /\ open \in BOOLEAN
           /\ \A t \in Thread : at[t] = "idle" <=> call[t] = Q!NoCall
           /\ Len(queue) \in Nat /\ Len(sent) \in Nat /\ Len(taken) \in Nat
           /\ Len(sent) = Len(taken) + Len(queue)
           /\ \A k \in 1 .. Len(taken) : sent[k] = taken[k]
<1>1. /\ queue \in Seq(Q!Item) /\ sent \in Seq(Q!Item) /\ taken \in Seq(Q!Item)
      /\ call \in [Thread -> Q!Call] /\ at \in [Thread -> Q!Place] /\ open \in BOOLEAN
      /\ \A t \in Thread : at[t] = "idle" <=> call[t] = Q!NoCall
  BY DEF Q!Contents, Q!Shape, Q!TypeOK
<1>2. sent = taken \o queue
  BY DEF Q!Contents, Q!FirstInFirstOut
<1> QED
  BY <1>1, <1>2, ConcatProperties, LenProperties

LEMMA CallKinds ==
    /\ \A t \in Worker : Program[t] = {PushCall}
    /\ Program[Main] = {PushCall, WaitEmptyCall}
    /\ Program[Logger] = {PopCall}
    /\ \A t \in App : t \in Thread /\ t # Logger
    /\ Main \in App /\ Logger \in Thread /\ Worker \subseteq App
  BY LoggerAssumption DEF Program, Thread, App

\* A thread that logs or waits takes nothing out, and comes back from
\* waitEmpty only when the queue is empty or closed.
LEMMA AppMoves ==
    ASSUME Q!Contents, Callers, NEW t \in App, Q!Step(t)
    PROVE  /\ UNCHANGED <<open, taken>>
           /\ call' = call \/ call' = [call EXCEPT ![t] = Q!NoCall]
           /\ t # Main => (at'[Main] = "idle" <=> at[Main] = "idle")
           /\ (t = Main /\ call[Main] = WaitEmptyCall /\ at'[Main] = "idle") => queue = <<>> \/ ~ open
           /\ at[t] # "idle"
<1>1. t \in Thread /\ Main \in Thread /\ at \in [Thread -> Q!Place]
  BY CallKinds, QueueTypes DEF App, Thread
<1>2. call[t].kind \in {"push", "waitEmpty", "none"}
  BY <1>1, CallKinds DEF Callers, App, PushCall, WaitEmptyCall, Q!NoCall
<1>3. Q!Push(t) \/ Q!WaitEmpty(t)
  BY <1>2 DEF Q!Step, Q!PushN, Q!Pop, Q!PopN, Q!In
<1>4. CASE Q!Push(t)
  <2>1. at[t] = "ready" /\ call[t].kind = "push" /\ UNCHANGED <<open, taken>>
    BY <1>4 DEF Q!Push, Q!In
  <2>2. call' = call \/ call' = [call EXCEPT ![t] = Q!NoCall]
    BY <1>4 DEF Q!Push, Q!GiveUp, Q!PushItem, Q!AwaitRoom, Q!Return
  <2>3. ASSUME t # Main PROVE at'[Main] = "idle" <=> at[Main] = "idle"
    <3>1. CASE Q!PushItem(t)
      <4> DEFINE returned == [at EXCEPT ![t] = "idle"]
      <4>1. returned \in [Thread -> Q!Place] /\ returned[Main] = at[Main]
        BY <1>1, <2>3 DEF Q!Place
      <4>2. at' \in Q!NotifyOne(returned, "waitC")
        BY <3>1 DEF Q!PushItem
      <4>3. at' = returned \/ \E w \in Thread : returned[w] = "waitC" /\ at' = [returned EXCEPT ![w] = "ready"]
        <5> HIDE DEF returned
        <5> QED
          BY <4>1, <4>2, QueueAssumptions, Q!NotifyOneProperties
      <4> HIDE DEF returned
      <4> QED
        BY <1>1, <4>1, <4>3
    <3>2. CASE Q!GiveUp(t) \/ Q!AwaitRoom(t)
      BY <1>1, <2>3, <3>2 DEF Q!GiveUp, Q!AwaitRoom
    <3> QED
      BY <1>4, <3>1, <3>2 DEF Q!Push
  <2>4. call[t] # WaitEmptyCall
    BY <2>1 DEF WaitEmptyCall
  <2> QED
    BY <2>1, <2>2, <2>3, <2>4
<1>5. CASE Q!WaitEmpty(t)
  BY <1>1, <1>5 DEF Q!WaitEmpty, Q!In, Q!Return
<1> QED
  BY <1>3, <1>4, <1>5

\* The logger takes one message, or is sent away, or waits.
LEMMA LoggerMoves ==
    ASSUME Q!Contents, Q!Pop(Logger)
    PROVE  /\ UNCHANGED <<open, sent>>
           /\ call' = call \/ call' = [call EXCEPT ![Logger] = Q!NoCall]
           /\ at'[Main] = "idle" <=> at[Main] = "idle"
           /\ \/ taken' = taken
              \/ /\ at'[Logger] = "idle" /\ Len(taken') = Len(taken) + 1
                 /\ \A k \in 1 .. Len(taken) : taken'[k] = taken[k]
<1>1. /\ Logger \in Thread /\ Main \in Thread /\ Main # Logger
      /\ at \in [Thread -> Q!Place] /\ queue \in Seq(Q!Item) /\ taken \in Seq(Q!Item)
  BY CallKinds, QueueTypes DEF App, Thread
<1> DEFINE returned == [at EXCEPT ![Logger] = "idle"]
<1>2. returned \in [Thread -> Q!Place] /\ returned[Main] = at[Main] /\ returned[Logger] = "idle"
  BY <1>1 DEF Q!Place
<1>3. /\ Q!NotifyAll(returned, "waitP")[Main] = IF at[Main] = "waitP" THEN "ready" ELSE at[Main]
      /\ Q!NotifyAll(returned, "waitP")[Logger] = "idle"
  <2> HIDE DEF returned
  <2> QED
    BY <1>1, <1>2, QueueAssumptions, Q!NotifyAllProperties
<1>4. UNCHANGED <<open, sent>> /\ (Q!AwaitItem(Logger) \/ Q!Canceled(Logger) \/ Q!TakeFront(Logger, 1))
  BY DEF Q!Pop
<1>5. CASE Q!AwaitItem(Logger)
  BY <1>1, <1>4, <1>5 DEF Q!AwaitItem
<1>6. CASE Q!Canceled(Logger)
  BY <1>2, <1>3, <1>4, <1>6 DEF Q!Canceled, Q!Return
<1>7. CASE Q!TakeFront(Logger, 1)
  <2>1. call' = [call EXCEPT ![Logger] = Q!NoCall]
    BY <1>7 DEF Q!TakeFront, Q!Return
  <2>2. (at'[Main] = "idle" <=> at[Main] = "idle") /\ at'[Logger] = "idle"
    BY <1>2, <1>3, <1>7 DEF Q!TakeFront
  <2>3. queue # <<>> /\ taken' = taken \o SubSeq(queue, 1, 1)
    BY <1>7 DEF Q!TakeFront
  <2>4. SubSeq(queue, 1, 1) \in Seq(Q!Item) /\ Len(SubSeq(queue, 1, 1)) = 1
    BY <1>1, <2>3, SubSeqProperties, EmptySeq, ElementOfSeq
  <2>5. Len(taken') = Len(taken) + 1 /\ \A k \in 1 .. Len(taken) : taken'[k] = taken[k]
    BY <1>1, <2>3, <2>4, ConcatProperties
  <2> QED
    BY <1>4, <2>1, <2>2, <2>5
<1> QED
  BY <1>4, <1>5, <1>6, <1>7
LEMMA CallBegins ==
    ASSUME NEW t \in Thread, NEW c \in Program[t], Q!Begin(t, c), Q!Contents
    PROVE  /\ UNCHANGED <<queue, open, sent, taken>>
           /\ call' = [call EXCEPT ![t] = c]
           /\ \A u \in Thread : u # t => at'[u] = at[u]
           /\ at'[t] = "ready" /\ at[t] = "idle"
<1>1. at \in [Thread -> Q!Place]
  BY QueueTypes
<1> QED
  BY <1>1 DEF Q!Begin

\* Every step of the program is a step of the queue, or leaves it alone.
LEMMA QueueSteps == Next => [Q!Next]_(Q!vars)
<1> SUFFICES ASSUME Next PROVE [Q!Next]_(Q!vars)
  OBVIOUS
<1>1. ASSUME UNCHANGED queueVars PROVE UNCHANGED Q!vars
  BY <1>1 DEF queueVars, Q!vars
<1>2. ASSUME NEW t \in App, Log(t) PROVE Q!Next
  <2>1. t \in Thread /\ PushCall \in Program[t] /\ Q!Begin(t, PushCall)
    BY <1>2, CallKinds, MessagesAreQueue DEF Log, App
  <2> QED
    BY <2>1 DEF Q!Next
<1>3. ASSUME NEW t \in App, InQueue(t) PROVE Q!Next
  BY <1>3, CallKinds, MessagesAreQueue DEF InQueue, Q!Next
<1>4. ASSUME NEW t \in Thread, SpuriousWakeup(t) PROVE Q!Next
  BY <1>4, MessagesAreQueue DEF SpuriousWakeup, Q!Next
<1>5. ASSUME LoggerStep PROVE [Q!Next]_(Q!vars)
  <2>1. CASE LoggerCallsPop
    BY <2>1, CallKinds, MessagesAreQueue DEF LoggerCallsPop, Q!Next
  <2>2. CASE LoggerPops
    BY <2>2, CallKinds, MessagesAreQueue DEF LoggerPops, Q!Next, Q!Step
  <2>3. CASE LoggerChecksOpen \/ LoggerYields \/ LoggerLocks \/ LoggerWrites \/ LoggerUnlocks
    BY <1>1, <2>3 DEF LoggerChecksOpen, LoggerYields, LoggerLocks, LoggerWrites, LoggerUnlocks
  <2> QED
    BY <1>5, <2>1, <2>2, <2>3 DEF LoggerStep
<1>6. ASSUME MainStep PROVE [Q!Next]_(Q!vars)
  <2>1. Main \in Thread /\ WaitEmptyCall \in Program[Main]
    BY CallKinds
  <2>2. CASE DestructorWaits
    BY <2>1, <2>2, MessagesAreQueue DEF DestructorWaits, Q!Next
  <2>3. CASE DestructorCloses
    BY <2>1, <2>3, MessagesAreQueue DEF DestructorCloses, Q!Next
  <2>4. CASE FlushLoopEnters \/ FlushSink \/ FlushLoopEnds
    BY <1>1, <2>4 DEF FlushLoopEnters, FlushSink, FlushLoopEnds
  <2> QED
    BY <1>6, <2>2, <2>3, <2>4 DEF MainStep
<1>7. ASSUME CallFlush PROVE Q!Next
  <2>1. Main \in Thread /\ WaitEmptyCall \in Program[Main]
    BY CallKinds
  <2> QED
    BY <1>7, <2>1, MessagesAreQueue DEF CallFlush, Q!Next
<1>8. ASSUME MainReturns \/ \E s \in Sink : RegisterSink(s) PROVE UNCHANGED Q!vars
  BY <1>1, <1>8 DEF MainReturns, RegisterSink
<1> QED
  BY <1>2, <1>3, <1>4, <1>5, <1>6, <1>7, <1>8 DEF Next

\* The stream of messages only grows.
LEMMA StreamGrows ==
    ASSUME Q!Contents, Next
    PROVE  /\ Q!Contents'
           /\ sent' \in Seq(Q!Item) /\ Len(sent') \in Nat /\ Len(sent) <= Len(sent')
           /\ \A k \in 1 .. Len(sent) : sent'[k] = sent[k]
           /\ Len(taken') \in Nat /\ Len(taken') <= Len(sent') /\ taken' \in Seq(Q!Item)
           /\ \A k \in 1 .. Len(taken') : sent'[k] = taken'[k]
<1>1. Q!Contents' /\ [Q!Next]_(Q!vars)
  BY QueueSteps, ContentsKept
<1>2. /\ queue' \in Seq(Q!Item) /\ sent' \in Seq(Q!Item) /\ taken' \in Seq(Q!Item)
      /\ taken' \o queue' = sent'
  BY <1>1 DEF Q!Contents, Q!Shape, Q!TypeOK, Q!FirstInFirstOut
<1>3. /\ Len(sent') \in Nat /\ Len(taken') \in Nat /\ Len(taken') <= Len(sent')
      /\ \A k \in 1 .. Len(taken') : sent'[k] = taken'[k]
  BY <1>2, ConcatProperties, LenProperties
<1>4. sent \in Seq(Q!Item)
  BY QueueTypes
<1>5. sent' = sent \/ \E x \in Seq(Q!Item) : sent' = sent \o x
  <2>1. CASE Q!Next
    BY <2>1, QueueAssumptions, Q!ContentsEffect DEF Q!Contents
  <2>2. CASE UNCHANGED Q!vars
    BY <2>2 DEF Q!vars
  <2> QED
    BY <1>1, <2>1, <2>2
<1>6. Len(sent) <= Len(sent') /\ \A k \in 1 .. Len(sent) : sent'[k] = sent[k]
  <2>1. ASSUME NEW x \in Seq(Q!Item), sent' = sent \o x
        PROVE  Len(sent) <= Len(sent') /\ \A k \in 1 .. Len(sent) : sent'[k] = sent[k]
    BY <1>4, <2>1, ConcatProperties, LenProperties
  <2> QED
    BY <1>4, <1>5, <2>1, LenProperties
<1> QED
  BY <1>1, <1>2, <1>3, <1>6
-----------------------------------------------------------------------------
(****************************************************************************)
(* How much of the stream the sink at i has been through.                   *)
(****************************************************************************)
Turn(i) == IF logger = "write" /\ i < nextWrite THEN Dispatched + 1 ELSE Dispatched

LEMMA StreamIs ==
    SinkSeesStream <=>
        \A i \in DOMAIN sinks : written[sinks[i]] = DueOf(sent, sinks[i], from[sinks[i]], Turn(i))
  BY DEF SinkSeesStream, Due, DueOf, Turn

LEMMA FlushedIs ==
    \A i : Flushed(i) <=> flushed[sinks[i]] >= Len(DueOf(sent, sinks[i], from[sinks[i]], logged))
  BY DEF Flushed, Due, DueOf

LEMMA Turns ==
    Q!Contents /\ LoggerType /\ InHand =>
        /\ Dispatched \in Nat /\ Dispatched <= Len(taken)
        /\ \A i : Turn(i) \in Nat /\ Dispatched <= Turn(i) /\ Turn(i) <= Len(taken)
<1> SUFFICES ASSUME Q!Contents, LoggerType, InHand
             PROVE  /\ Dispatched \in Nat /\ Dispatched <= Len(taken)
                    /\ \A i : Turn(i) \in Nat /\ Dispatched <= Turn(i) /\ Turn(i) <= Len(taken)
  OBVIOUS
<1>1. taken \in Seq(Q!Item) /\ Len(taken) \in Nat
  BY QueueTypes
<1>2. message # Nothing => Len(taken) # 0
  BY <1>1, EmptySeq DEF InHand
<1>3. logger = "write" => message # Nothing
  BY DEF LoggerType
<1> QED
  BY <1>1, <1>2, <1>3 DEF Dispatched, Turn

LEMMA SinksIndexed ==
    SinkType =>
        /\ DOMAIN sinks = 1 .. Len(sinks) /\ Len(sinks) \in Nat
        /\ \A i \in DOMAIN sinks : i \in Nat /\ sinks[i] \in Sink /\ sinks[i] \in Registered
  BY LenProperties, ElementOfSeq DEF SinkType, Registered

\* Each sink stays where it is in the stream, which may grow behind it.
LEMMA StreamKept ==
    ASSUME LogInv, Next, UNCHANGED <<sinks, from, written>>,
           \A i \in DOMAIN sinks : Turn(i)' = Turn(i),
           Dispatched' \in Nat, Dispatched <= Dispatched'
    PROVE  Stream'
<1>1. Dispatched \in Nat /\ \A i : Turn(i) \in Nat /\ Turn(i) <= Len(sent)
  BY Turns, QueueTypes DEF LogInv
<1>2. ASSUME NEW i \in DOMAIN sinks
      PROVE  from[sinks[i]] \in Nat /\ from[sinks[i]] <= Dispatched'
  BY <1>1, SinksIndexed DEF LogInv, Stream, HistoryType
<1>3. ASSUME NEW i \in DOMAIN sinks
      PROVE  written[sinks[i]] = DueOf(sent', sinks[i], from[sinks[i]], Turn(i))
  <2>1. written[sinks[i]] = DueOf(sent, sinks[i], from[sinks[i]], Turn(i))
    BY StreamIs DEF LogInv, Stream
  <2>2. \A k \in 1 .. Turn(i) : sent[k] = sent'[k]
    <3>1. Len(sent) \in Nat /\ \A k \in 1 .. Len(sent) : sent'[k] = sent[k]
      BY StreamGrows, QueueTypes DEF LogInv
    <3>2. Turn(i) \in Nat /\ Turn(i) <= Len(sent)
      BY <1>1
    <3> QED
      BY <3>1, <3>2
  <2>3. DueOf(sent, sinks[i], from[sinks[i]], Turn(i)) = DueOf(sent', sinks[i], from[sinks[i]], Turn(i))
    BY <1>1, <1>2, <2>2, DueStable
  <2> QED
    BY <2>1, <2>3
<1>4. SinkSeesStream' <=>
          \A i \in DOMAIN sinks' : written'[sinks'[i]] = DueOf(sent', sinks'[i], from'[sinks'[i]], Turn(i)')
  BY DEF SinkSeesStream, Due, DueOf, Turn
<1>5. SinkSeesStream'
  BY <1>3, <1>4
<1>6. \A s \in Sink \ Registered' : written'[s] = <<>>
  BY DEF LogInv, Stream, Registered
<1> QED
  BY <1>2, <1>5, <1>6 DEF Stream

\* What a sink had to flush when flush or ~LogManager began does not change.
LEMMA FlushedKept ==
    ASSUME LogInv, Next, NEW i \in DOMAIN sinks, Flushed(i),
           UNCHANGED <<sinks, from, logged>>, flushed'[sinks[i]] = flushed[sinks[i]]
    PROVE  Flushed(i)'
<1>1. logged \in Nat /\ logged <= Len(sent) /\ Len(sent) \in Nat /\ from[sinks[i]] \in Nat
  BY QueueTypes, SinksIndexed DEF LogInv, MainType, HistoryType
<1>2. \A k \in 1 .. logged : sent[k] = sent'[k]
  BY <1>1, StreamGrows DEF LogInv
<1>3. DueOf(sent, sinks[i], from[sinks[i]], logged) = DueOf(sent', sinks[i], from[sinks[i]], logged)
  BY <1>1, <1>2, DueStable
<1>4. Flushed(i)' <=> flushed'[sinks'[i]] >= Len(DueOf(sent', sinks'[i], from'[sinks'[i]], logged'))
  BY DEF Flushed, Due, DueOf
<1> QED
  BY <1>3, <1>4, FlushedIs

\* Main stays where it is, and the logger does not come back once it has gone.
LEMMA ClosingKept ==
    ASSUME LogInv, Next, UNCHANGED <<sinks, from, flushed, mainVars, open>>,
           Len(taken) <= Len(taken'),
           main = "drain" => call'[Main] \in {Q!NoCall, WaitEmptyCall},
           main = "drain" /\ MainIdle' => logged <= Len(taken'),
           logger = "exited" => logger' = "exited"
    PROVE  Closing'
<1>1. UNCHANGED <<main, nextFlush, logged>>
  BY DEF mainVars
<1>2. \A i \in DOMAIN sinks : Flushed(i) => Flushed(i)'
  BY <1>1, FlushedKept
<1>3. logged \in Nat /\ Len(taken) \in Nat /\ Len(taken') \in Nat
  BY QueueTypes, StreamGrows DEF LogInv, MainType
<1>4. Closing
  BY DEF LogInv
<1>5. (main' \notin {"join", "exited"} => open') /\ (main' = "drain" => call'[Main] \in {Q!NoCall, WaitEmptyCall})
  BY <1>1, <1>4 DEF Closing
<1>6. (main' \in {"join", "exited"} \/ (main' = "drain" /\ MainIdle')) => logged' <= Len(taken')
  BY <1>1, <1>3, <1>4 DEF Closing
<1>7. (main' = "join" /\ nextFlush' # 0) =>
          logger' = "exited" /\ \A i \in DOMAIN sinks' : i < nextFlush' => Flushed(i)'
  BY <1>1, <1>2, <1>4 DEF Closing
<1>8. main' = "exited" => \A i \in DOMAIN sinks' : Flushed(i)'
  BY <1>1, <1>2, <1>4 DEF Closing
<1> QED
  BY <1>5, <1>6, <1>7, <1>8 DEF Closing

\* What is the same for every step but those of the main thread.
LEMMA MainStays ==
    ASSUME LogInv, Next, UNCHANGED <<sinks, from, flushed, mainVars, open>>,
           Len(taken) <= Len(taken'),
           main = "drain" => call'[Main] \in {Q!NoCall, WaitEmptyCall},
           main = "drain" /\ MainIdle' => logged <= Len(taken'),
           logger = "exited" => logger' = "exited",
           LoggerType', written' \in [Sink -> Seq(Q!Item)], Callers', InHand', Stream'
    PROVE  LogInv'
<1>1. Q!Contents' /\ Len(sent) <= Len(sent') /\ Len(sent') \in Nat /\ Len(sent) \in Nat
  BY StreamGrows, QueueTypes DEF LogInv
<1>2. SinkType'
  BY DEF LogInv, SinkType, Registered
<1>3. MainType'
  BY <1>1 DEF LogInv, MainType, mainVars
<1>4. HistoryType'
  BY DEF LogInv, HistoryType
<1>5. Closing'
  BY ClosingKept
<1> QED
  BY <1>1, <1>2, <1>3, <1>4, <1>5 DEF LogInv
-----------------------------------------------------------------------------
(****************************************************************************)
(* The threads that log.                                                    *)
(****************************************************************************)
LEMMA OthersMove ==
    ASSUME LogInv, Next, UNCHANGED <<sinks, loggerVars, mainVars, historyVars, taken, open>>, Callers',
           main = "drain" => call'[Main] \in {Q!NoCall, WaitEmptyCall},
           main = "drain" /\ MainIdle' => logged <= Len(taken')
    PROVE  LogInv'
<1>1. UNCHANGED <<logger, message, nextWrite, written, flushed, from>>
  BY DEF loggerVars, historyVars
<1>2. LoggerType' /\ written' \in [Sink -> Seq(Q!Item)] /\ InHand'
  BY <1>1 DEF LogInv, LoggerType, HistoryType, InHand
<1>3. Dispatched' = Dispatched /\ \A i \in DOMAIN sinks : Turn(i)' = Turn(i)
  BY <1>1 DEF Dispatched, Turn
<1>4. Dispatched \in Nat
  BY Turns DEF LogInv
<1>5. Stream'
  BY <1>1, <1>3, <1>4, StreamKept
<1>6. Len(taken) <= Len(taken') /\ (logger = "exited" => logger' = "exited")
  BY <1>1, QueueTypes DEF LogInv
<1> QED
  BY <1>1, <1>2, <1>5, <1>6, MainStays

LEMMA LogHolds == ASSUME LogInv, NEW t \in App, Log(t) PROVE LogInv'
<1>1. t \in Thread /\ Main \in Thread /\ PushCall \in Program[t] /\ Q!Begin(t, PushCall)
  BY CallKinds, MessagesAreQueue DEF Log, App
<1>2. call \in [Thread -> Q!Call] /\ Q!Contents
  BY QueueTypes DEF LogInv
<1>3. UNCHANGED <<queue, open, sent, taken>> /\ call' = [call EXCEPT ![t] = PushCall]
  BY <1>1, <1>2, CallBegins
<1>4. Callers'
  BY <1>1, <1>2, <1>3 DEF LogInv, Callers
<1>5. \A u \in Thread : u # t => at'[u] = at[u]
  BY <1>1, <1>2, CallBegins
<1>6. main = "drain" => t # Main
  BY LoggerAssumption DEF Log
<1>7. main = "drain" => call'[Main] \in {Q!NoCall, WaitEmptyCall}
  BY <1>1, <1>2, <1>3, <1>6 DEF LogInv, Closing
<1>8. main = "drain" /\ MainIdle' => logged <= Len(taken')
  BY <1>1, <1>3, <1>5, <1>6 DEF LogInv, Closing, MainIdle
<1>9. Next
  BY DEF Next
<1>10. UNCHANGED <<sinks, loggerVars, mainVars, historyVars>>
  BY DEF Log
<1> QED
  BY <1>3, <1>4, <1>7, <1>8, <1>9, <1>10, OthersMove

LEMMA InQueueHolds == ASSUME LogInv, NEW t \in App, InQueue(t) PROVE LogInv'
<1>1. t \in Thread /\ Main \in Thread /\ Q!Step(t) /\ UNCHANGED <<sinks, loggerVars, mainVars, historyVars>>
  BY CallKinds, MessagesAreQueue DEF InQueue, App
<1>2. /\ call \in [Thread -> Q!Call] /\ Q!Contents /\ Callers /\ Next
      /\ Len(taken) \in Nat /\ Len(sent) = Len(taken) + Len(queue)
      /\ (at[Main] = "idle" <=> call[Main] = Q!NoCall)
  BY <1>1, QueueTypes DEF LogInv, Next
<1>3. /\ UNCHANGED <<open, taken>>
      /\ call' = call \/ call' = [call EXCEPT ![t] = Q!NoCall]
      /\ t # Main => (at'[Main] = "idle" <=> at[Main] = "idle")
      /\ (t = Main /\ call[Main] = WaitEmptyCall /\ at'[Main] = "idle") => queue = <<>> \/ ~ open
      /\ at[t] # "idle"
  BY <1>1, <1>2, AppMoves
<1>4. Callers'
  BY <1>1, <1>2, <1>3 DEF Callers
<1>5. main = "drain" => call'[Main] \in {Q!NoCall, WaitEmptyCall}
  BY <1>1, <1>2, <1>3 DEF LogInv, Closing
<1>6. ASSUME main = "drain", MainIdle' PROVE logged <= Len(taken')
  <2>1. CASE t # Main
    BY <1>1, <1>3, <1>6, <2>1 DEF LogInv, Closing, MainIdle
  <2>2. CASE t = Main
    <3>1. call[Main] = WaitEmptyCall /\ open
      BY <1>2, <1>3, <1>6, <2>2 DEF LogInv, Closing
    <3>2. queue = <<>>
      BY <1>3, <1>6, <2>2, <3>1 DEF MainIdle
    <3>3. logged <= Len(sent) /\ Len(sent) = Len(taken)
      BY <1>2, <3>2, EmptySeq DEF LogInv, MainType
    <3> QED
      BY <1>3, <3>3
  <2> QED
    BY <2>1, <2>2
<1> QED
  BY <1>1, <1>2, <1>3, <1>4, <1>5, <1>6, OthersMove

LEMMA SpuriousWakeupHolds == ASSUME LogInv, NEW t \in Thread, SpuriousWakeup(t) PROVE LogInv'
<1>1. Q!SpuriousWakeup(t) /\ UNCHANGED <<sinks, loggerVars, mainVars, historyVars>> /\ Next
  BY MessagesAreQueue DEF SpuriousWakeup, Next
<1>2. at \in [Thread -> Q!Place] /\ Main \in Thread
  BY QueueTypes DEF LogInv, Thread, App
<1>3. UNCHANGED <<open, taken, call>> /\ (at'[Main] = "idle" => at[Main] = "idle")
  BY <1>1, <1>2 DEF Q!SpuriousWakeup
<1>4. Callers'
  BY <1>3 DEF LogInv, Callers
<1>5. main = "drain" => call'[Main] \in {Q!NoCall, WaitEmptyCall}
  BY <1>3 DEF LogInv, Closing
<1>6. main = "drain" /\ MainIdle' => logged <= Len(taken')
  BY <1>3 DEF LogInv, Closing, MainIdle
<1> QED
  BY <1>1, <1>3, <1>4, <1>5, <1>6, OthersMove

-----------------------------------------------------------------------------
(****************************************************************************)
(* The logger thread.                                                       *)
(****************************************************************************)
LEMMA LoggerRuns ==
    ASSUME LogInv, Next, UNCHANGED <<sinks, mainVars, historyVars, queueVars>>,
           LoggerType', InHand', logger = "exited" => logger' = "exited",
           \A i \in DOMAIN sinks : Turn(i)' = Turn(i),
           Dispatched <= Dispatched', Dispatched' \in Nat
    PROVE  LogInv'
<1>1. UNCHANGED <<written, flushed, from, open, taken, call, at>>
  BY DEF historyVars, queueVars
<1>2. Stream'
  BY <1>1, StreamKept
<1>3. /\ Len(taken) <= Len(taken') /\ Callers' /\ written' \in [Sink -> Seq(Q!Item)]
      /\ main = "drain" => call'[Main] \in {Q!NoCall, WaitEmptyCall}
      /\ main = "drain" /\ MainIdle' => logged <= Len(taken')
  BY <1>1, QueueTypes DEF LogInv, Callers, HistoryType, Closing, MainIdle
<1> QED
  BY <1>1, <1>2, <1>3, MainStays

LEMMA LoggerWalksHolds ==
    ASSUME LogInv, LoggerChecksOpen \/ LoggerYields \/ LoggerLocks
    PROVE  LogInv'
<1>1. /\ UNCHANGED <<sinks, message, mainVars, historyVars, queueVars>>
      /\ logger \in {"open", "sinks", "lock"}
      /\ logger' # "write" \/ nextWrite' = 1
      /\ logger' \in {"open", "sinks", "lock", "write", "exited"}
      /\ logger = "lock" <=> logger' \in {"lock", "write"}
      /\ nextWrite' \in {nextWrite, 1}
  BY DEF LoggerChecksOpen, LoggerYields, LoggerLocks
<1>2. Len(sinks) \in Nat /\ DOMAIN sinks = 1 .. Len(sinks)
  BY SinksIndexed DEF LogInv
<1>3. LoggerType'
  BY <1>1, <1>2 DEF LogInv, LoggerType
<1>4. UNCHANGED taken
  BY <1>1 DEF queueVars
<1>5. Dispatched' = Dispatched /\ InHand'
  BY <1>1, <1>4 DEF LogInv, Dispatched, InHand
<1>6. \A i \in DOMAIN sinks : Turn(i)' = Turn(i)
  BY <1>1, <1>2, <1>5 DEF Turn
<1>7. Dispatched \in Nat
  BY Turns DEF LogInv
<1>8. Next
  BY DEF Next, LoggerStep
<1> QED
  BY <1>1, <1>3, <1>5, <1>6, <1>7, <1>8, LoggerRuns

\* What the logger had in hand has had its turn at every sink.
LEMMA LoggerUnlocksHolds == ASSUME LogInv, LoggerUnlocks PROVE LogInv'
<1>1. /\ logger = "write" /\ nextWrite > Len(sinks) /\ logger' = "open" /\ message' = Nothing
      /\ UNCHANGED <<queueVars, sinks, nextWrite, mainVars, historyVars>>
  BY DEF LoggerUnlocks
<1>2. Len(sinks) \in Nat /\ DOMAIN sinks = 1 .. Len(sinks)
  BY SinksIndexed DEF LogInv
<1>3. LoggerType' /\ InHand'
  BY <1>1 DEF LogInv, LoggerType, InHand
<1>4. UNCHANGED taken /\ message # Nothing /\ Len(taken) \in Nat
  BY <1>1, QueueTypes DEF queueVars, LogInv, LoggerType
<1>5. Dispatched' = Dispatched + 1 /\ Dispatched' \in Nat /\ Dispatched \in Nat
  BY <1>1, <1>4, Turns DEF Dispatched, LogInv
<1>6. ASSUME NEW i \in DOMAIN sinks PROVE Turn(i)' = Turn(i)
  <2>1. i < nextWrite
    BY <1>1, <1>2 DEF LogInv, LoggerType
  <2> QED
    BY <1>1, <1>5, <2>1 DEF Turn
<1>7. Next
  BY DEF Next, LoggerStep
<1> QED
  BY <1>1, <1>3, <1>5, <1>6, <1>7, LoggerRuns

LEMMA LoggerCallsPopHolds == ASSUME LogInv, LoggerCallsPop PROVE LogInv'
<1>1. /\ Logger \in Thread /\ Main \in Thread /\ Main # Logger /\ PopCall \in Program[Logger]
      /\ Q!Begin(Logger, PopCall)
  BY CallKinds, MessagesAreQueue DEF LoggerCallsPop, App
<1>2. call \in [Thread -> Q!Call] /\ Q!Contents
  BY QueueTypes DEF LogInv
<1>3. /\ UNCHANGED <<queue, open, sent, taken>> /\ call' = [call EXCEPT ![Logger] = PopCall]
      /\ at'[Main] = at[Main]
  BY <1>1, <1>2, CallBegins
<1>4. /\ logger = "sinks" /\ logger' = "pop"
      /\ UNCHANGED <<sinks, message, nextWrite, mainVars, historyVars, written, from, flushed>>
  BY DEF LoggerCallsPop, historyVars
<1>5. LoggerType' /\ InHand' /\ Callers'
  BY <1>1, <1>2, <1>3, <1>4 DEF LogInv, LoggerType, InHand, Callers
<1>6. Dispatched' = Dispatched /\ Dispatched \in Nat /\ \A i \in DOMAIN sinks : Turn(i)' = Turn(i)
  BY <1>3, <1>4, Turns DEF LogInv, Dispatched, Turn
<1>7. Next
  BY DEF Next, LoggerStep
<1>8. Stream'
  BY <1>4, <1>6, <1>7, StreamKept
<1>9. /\ Len(taken) <= Len(taken') /\ written' \in [Sink -> Seq(Q!Item)]
      /\ main = "drain" => call'[Main] \in {Q!NoCall, WaitEmptyCall}
      /\ main = "drain" /\ MainIdle' => logged <= Len(taken')
  BY <1>1, <1>2, <1>3, <1>4, QueueTypes DEF LogInv, HistoryType, Closing, MainIdle
<1> QED
  BY <1>3, <1>4, <1>5, <1>7, <1>8, <1>9, MainStays

LEMMA LoggerPopsHolds == ASSUME LogInv, LoggerPops PROVE LogInv'
<1>1. Logger \in Thread /\ Main \in Thread /\ Main # Logger /\ Q!Pop(Logger)
  BY CallKinds, MessagesAreQueue DEF LoggerPops, App
<1>2. /\ call \in [Thread -> Q!Call] /\ Q!Contents /\ Len(taken) \in Nat
      /\ taken \in Seq(Q!Item)
  BY QueueTypes DEF LogInv
<1>3. /\ UNCHANGED <<open, sent>>
      /\ call' = call \/ call' = [call EXCEPT ![Logger] = Q!NoCall]
      /\ at'[Main] = "idle" <=> at[Main] = "idle"
      /\ \/ taken' = taken
         \/ /\ at'[Logger] = "idle" /\ Len(taken') = Len(taken) + 1
            /\ \A k \in 1 .. Len(taken) : taken'[k] = taken[k]
  BY <1>1, <1>2, LoggerMoves
<1>4. Next
  BY DEF Next, LoggerStep
<1>5. /\ logger = "pop" /\ message = Nothing
      /\ UNCHANGED <<sinks, nextWrite, mainVars, historyVars, written, from, flushed>>
  BY DEF LoggerPops, historyVars, LogInv, LoggerType
<1>6. taken' \in Seq(Q!Item) /\ Len(taken') \in Nat
  BY <1>2, <1>4, StreamGrows
<1>7. /\ Dispatched' = Dispatched /\ Dispatched \in Nat /\ LoggerType' /\ InHand' /\ logger' # "write"
      /\ Len(taken) <= Len(taken')
  <2>1. CASE taken' = taken
    <3>1. UNCHANGED message /\ logger' \in {"pop", "exited"}
      BY <1>5, <2>1 DEF LoggerPops
    <3> QED
      BY <1>2, <1>5, <2>1, <3>1 DEF LogInv, Dispatched, LoggerType, InHand
  <2>2. CASE taken' # taken
    <3>1. Len(taken') = Len(taken) + 1 /\ at'[Logger] = "idle"
      BY <1>3, <2>2
    <3>2. logger' = "lock" /\ message' = taken'[Len(taken')]
      BY <2>2, <3>1 DEF LoggerPops
    <3>3. taken' # <<>> /\ message' \in Q!Item
      BY <1>2, <1>6, <3>1, <3>2, EmptySeq, ElementOfSeq
    <3>4. message' # Nothing
      BY <3>3, NothingAssumption DEF Q!Item
    <3> QED
      BY <1>2, <1>5, <3>1, <3>2, <3>3, <3>4 DEF LogInv, Dispatched, LoggerType, InHand
  <2> QED
    BY <2>1, <2>2
<1>8. \A i \in DOMAIN sinks : Turn(i)' = Turn(i)
  BY <1>5, <1>7 DEF Turn
<1>9. Stream'
  BY <1>4, <1>5, <1>7, <1>8, StreamKept
<1>10. Callers'
  BY <1>1, <1>2, <1>3 DEF LogInv, Callers
<1>11. /\ written' \in [Sink -> Seq(Q!Item)]
       /\ main = "drain" => call'[Main] \in {Q!NoCall, WaitEmptyCall}
  BY <1>1, <1>2, <1>3, <1>5 DEF LogInv, HistoryType, Closing
<1>12. main = "drain" /\ MainIdle' => logged <= Len(taken')
  <2>1. logged \in Nat
    BY <1>2, QueueTypes DEF LogInv, MainType
  <2> QED
    BY <1>2, <1>3, <1>6, <1>7, <2>1 DEF LogInv, Closing, MainIdle
<1> QED
  BY <1>3, <1>4, <1>5, <1>7, <1>9, <1>10, <1>11, <1>12, MainStays
\* The sink at nextWrite is given the message in hand, if its levels let it through.
LEMMA LoggerWritesHolds == ASSUME LogInv, LoggerWrites PROVE LogInv'
<1> DEFINE s == sinks[nextWrite]
<1>1. /\ logger = "write" /\ nextWrite <= Len(sinks) /\ nextWrite' = nextWrite + 1
      /\ WriteTo(s)
      /\ UNCHANGED <<queueVars, sinks, logger, message, mainVars, flushed, from>>
      /\ UNCHANGED <<open, sent, taken, call, at>>
  BY DEF LoggerWrites, queueVars
<1>2. Len(sinks) \in Nat /\ DOMAIN sinks = 1 .. Len(sinks)
  BY SinksIndexed DEF LogInv
<1>3. nextWrite \in DOMAIN sinks /\ s \in Sink /\ message # Nothing
  BY <1>1, <1>2, SinksIndexed DEF LogInv, LoggerType
<1>4. LoggerType' /\ InHand' /\ Callers' /\ Dispatched' = Dispatched
  BY <1>1, <1>2, <1>3 DEF LogInv, LoggerType, InHand, Callers, Dispatched
<1>5. /\ taken \in Seq(Q!Item) /\ Len(taken) \in Nat /\ sent \in Seq(Q!Item)
      /\ \A k \in 1 .. Len(taken) : sent[k] = taken[k]
  BY QueueTypes DEF LogInv
<1>6. Dispatched \in Nat /\ Dispatched + 1 = Len(taken) /\ message = taken[Len(taken)]
  BY <1>3, <1>5, Turns DEF LogInv, Dispatched, InHand
<1>7. message = sent[Dispatched + 1] /\ message \in Q!Item
  BY <1>3, <1>5, <1>6 DEF LogInv, LoggerType
<1>8. written \in [Sink -> Seq(Q!Item)] /\ from \in [Sink -> Nat]
  BY DEF LogInv, HistoryType
<1>9. /\ written' \in [Sink -> Seq(Q!Item)]
      /\ written'[s] = IF Passes(s, message) THEN Append(written[s], message) ELSE written[s]
      /\ \A r \in Sink : r # s => written'[r] = written[r]
  BY <1>1, <1>3, <1>7, <1>8 DEF WriteTo
<1>10. ASSUME NEW i \in DOMAIN sinks
       PROVE  written'[sinks[i]] = DueOf(sent, sinks[i], from[sinks[i]], Turn(i)')
  <2>1. written[sinks[i]] = DueOf(sent, sinks[i], from[sinks[i]], Turn(i))
    BY StreamIs DEF LogInv, Stream
  <2>2. CASE i = nextWrite
    <3>1. Turn(i) = Dispatched /\ Turn(i)' = Dispatched + 1
      BY <1>1, <1>2, <1>4, <1>6, <2>2 DEF Turn
    <3>2. from[s] \in Nat /\ from[s] <= Dispatched
      BY <1>3, <1>8, SinksIndexed DEF LogInv, Stream
    <3>3. DueOf(sent, s, from[s], Dispatched + 1) =
             IF Passes(s, message) THEN Append(written[s], message) ELSE written[s]
      BY <1>6, <1>7, <2>1, <2>2, <3>1, <3>2, DueNext
    <3> QED
      BY <1>9, <2>2, <3>1, <3>3
  <2>3. CASE i # nextWrite
    <3>1. Turn(i)' = Turn(i)
      BY <1>1, <1>2, <1>3, <1>4, <2>3 DEF Turn
    <3>2. sinks[i] # s /\ sinks[i] \in Sink
      BY <1>3, <2>3, SinksIndexed DEF LogInv, SinkType
    <3> QED
      BY <1>9, <2>1, <3>1, <3>2
  <2> QED
    BY <2>2, <2>3
<1>11. SinkSeesStream'
  <2>1. SinkSeesStream' <=>
            \A i \in DOMAIN sinks' : written'[sinks'[i]] = DueOf(sent', sinks'[i], from'[sinks'[i]], Turn(i)')
    BY DEF SinkSeesStream, Due, DueOf, Turn
  <2> QED
    BY <1>1, <1>10, <2>1
<1>12. Stream'
  <2>1. s \in Registered /\ Registered' = Registered
    BY <1>1, <1>3 DEF Registered
  <2> QED
    BY <1>1, <1>4, <1>9, <1>11, <2>1 DEF LogInv, Stream
<1>13. Next
  BY DEF Next, LoggerStep
<1>14. /\ Len(taken) <= Len(taken')
       /\ main = "drain" => call'[Main] \in {Q!NoCall, WaitEmptyCall}
       /\ main = "drain" /\ MainIdle' => logged <= Len(taken')
  BY <1>1, <1>5 DEF LogInv, Closing, MainIdle
<1> QED
  BY <1>1, <1>4, <1>9, <1>12, <1>13, <1>14, MainStays

-----------------------------------------------------------------------------
(****************************************************************************)
(* The main thread.                                                         *)
(****************************************************************************)
LEMMA RegisterSinkHolds == ASSUME LogInv, NEW s \in Sink, RegisterSink(s) PROVE LogInv'
<1>1. /\ main \in {"parse", "run"} /\ logger # "write" /\ s \notin Registered
      /\ sinks' = Append(sinks, s) /\ from' = [from EXCEPT ![s] = Dispatched] /\ main' = "run"
      /\ UNCHANGED <<queueVars, loggerVars, nextFlush, logged, written, flushed>>
      /\ UNCHANGED <<open, sent, taken, call, at, logger, message, nextWrite>>
  BY DEF RegisterSink, LoggerHoldsMutex, queueVars, loggerVars
<1>2. /\ sinks \in Seq(Sink) /\ Len(sinks) \in Nat /\ DOMAIN sinks = 1 .. Len(sinks)
      /\ \A i \in DOMAIN sinks : sinks[i] \in Sink /\ sinks[i] \in Registered
  BY SinksIndexed DEF LogInv, SinkType
<1>3. /\ sinks' \in Seq(Sink) /\ Len(sinks') = Len(sinks) + 1 /\ DOMAIN sinks' = 1 .. Len(sinks) + 1
      /\ \A i \in 1 .. Len(sinks) : sinks'[i] = sinks[i]
      /\ sinks'[Len(sinks) + 1] = s
  BY <1>1, <1>2, AppendProperties
<1>4. Registered' = Registered \cup {s}
  BY <1>2, <1>3 DEF Registered
<1>5. SinkType'
  <2>1. IsFiniteSet(Registered') /\ Cardinality(Registered') = Len(sinks')
    <3>1. IsFiniteSet(Registered) /\ Cardinality(Registered) = Len(sinks)
      BY DEF LogInv, SinkType
    <3>2. /\ IsFiniteSet(Registered \cup {s})
          /\ Cardinality(Registered \cup {s}) = Cardinality(Registered) + 1
      BY <1>1, <3>1, FS_AddElement
    <3> QED
      BY <1>3, <1>4, <3>1, <3>2
  <2>2. \A i, j \in DOMAIN sinks' : sinks'[i] = sinks'[j] => i = j
    BY <1>1, <1>2, <1>3 DEF LogInv, SinkType
  <2> QED
    BY <1>3, <2>1, <2>2 DEF SinkType
<1>6. Dispatched' = Dispatched /\ Dispatched \in Nat /\ \A i : Turn(i) = Dispatched /\ Turn(i)' = Dispatched
  BY <1>1, Turns DEF LogInv, Dispatched, Turn
<1>7. LoggerType' /\ InHand' /\ Callers'
  BY <1>1, <1>2, <1>3 DEF LogInv, LoggerType, InHand, Callers
<1>8. nextFlush = 0 /\ open
  BY <1>1 DEF LogInv, MainType, Closing
<1>9. MainType' /\ HistoryType'
  BY <1>1, <1>2, <1>3, <1>6, <1>8 DEF LogInv, MainType, HistoryType
<1>10. ASSUME NEW i \in DOMAIN sinks'
       PROVE  /\ from'[sinks'[i]] <= Dispatched'
              /\ written'[sinks'[i]] = DueOf(sent', sinks'[i], from'[sinks'[i]], Turn(i)')
  <2>1. from \in [Sink -> Nat]
    BY DEF LogInv, HistoryType
  <2>2. CASE i = Len(sinks) + 1
    <3>1. sinks'[i] = s /\ from'[s] = Dispatched /\ written[s] = <<>>
      BY <1>1, <1>3, <2>1, <2>2 DEF LogInv, Stream
    <3>2. Dispatched \in 0 .. Dispatched
      BY <1>6
    <3>3. DueOf(sent, s, Dispatched, Dispatched) = <<>>
      BY <1>6, <3>2, DueEmpty
    <3> QED
      BY <1>1, <1>6, <3>1, <3>3
  <2>3. CASE i # Len(sinks) + 1
    <3>1. i \in DOMAIN sinks /\ sinks'[i] = sinks[i] /\ sinks[i] # s
      BY <1>1, <1>2, <1>3, <2>3
    <3>2. from'[sinks[i]] = from[sinks[i]]
      BY <1>1, <1>2, <2>1, <3>1
    <3>3. /\ from[sinks[i]] <= Dispatched
          /\ written[sinks[i]] = DueOf(sent, sinks[i], from[sinks[i]], Turn(i))
      BY <3>1, StreamIs DEF LogInv, Stream
    <3> QED
      BY <1>1, <1>6, <3>1, <3>2, <3>3
  <2> QED
    BY <2>2, <2>3
<1>11. Stream'
  <2>1. SinkSeesStream' <=>
            \A i \in DOMAIN sinks' : written'[sinks'[i]] = DueOf(sent', sinks'[i], from'[sinks'[i]], Turn(i)')
    BY DEF SinkSeesStream, Due, DueOf, Turn
  <2>2. \A r \in Sink \ Registered' : written'[r] = <<>>
    BY <1>1, <1>4 DEF LogInv, Stream
  <2> QED
    BY <1>10, <2>1, <2>2 DEF Stream
<1>12. Closing'
  BY <1>1, <1>8 DEF Closing
<1>13. Q!Contents'
  <2>1. Next
    BY DEF Next
  <2> QED
    BY <2>1, StreamGrows DEF LogInv
<1> QED
  BY <1>5, <1>7, <1>9, <1>11, <1>12, <1>13 DEF LogInv

\* What is the same for every step of the main thread but the registration of a sink.
LEMMA MainMoves ==
    ASSUME LogInv, Next, UNCHANGED <<sinks, loggerVars, written, from, taken>>,
           MainType', flushed' \in [Sink -> Nat], Callers', Closing'
    PROVE  LogInv'
<1>1. UNCHANGED <<logger, message, nextWrite>>
  BY DEF loggerVars
<1>2. SinkType' /\ LoggerType' /\ HistoryType' /\ InHand'
  BY <1>1 DEF LogInv, SinkType, Registered, LoggerType, HistoryType, InHand
<1>3. Dispatched' = Dispatched /\ Dispatched \in Nat /\ \A i \in DOMAIN sinks : Turn(i)' = Turn(i)
  BY <1>1, Turns DEF LogInv, Dispatched, Turn
<1>4. Stream'
  BY <1>3, StreamKept
<1>5. Q!Contents'
  BY StreamGrows DEF LogInv
<1> QED
  BY <1>2, <1>4, <1>5 DEF LogInv

\* Main calls waitEmpty, from flush or from the destructor.
LEMMA MainWaitsHolds == ASSUME LogInv, CallFlush \/ DestructorWaits PROVE LogInv'
<1>1. /\ Main \in Thread /\ WaitEmptyCall \in Program[Main] /\ Q!Begin(Main, WaitEmptyCall)
      /\ Next /\ UNCHANGED <<sinks, loggerVars, written, from, flushed>>
  BY CallKinds, MessagesAreQueue DEF CallFlush, DestructorWaits, App, Next, MainStep, historyVars
<1>2. call \in [Thread -> Q!Call] /\ Q!Contents /\ Len(sent) \in Nat /\ Len(sinks) \in Nat
  BY QueueTypes, SinksIndexed DEF LogInv
<1>3. /\ UNCHANGED <<queue, open, sent, taken>> /\ call' = [call EXCEPT ![Main] = WaitEmptyCall]
      /\ at'[Main] = "ready"
  BY <1>1, <1>2, CallBegins
<1>4. /\ main \in {"run", "return"} /\ main' \in {"flush", "drain"} /\ logged' = Len(sent)
      /\ nextFlush' = 0
  BY DEF CallFlush, DestructorWaits, LogInv, MainType
<1>5. MainType'
  BY <1>1, <1>2, <1>3, <1>4 DEF MainType
<1>6. Callers' /\ flushed' \in [Sink -> Nat]
  BY <1>1, <1>2, <1>3 DEF LogInv, Callers, HistoryType
<1>7. Closing'
  BY <1>1, <1>2, <1>3, <1>4 DEF LogInv, Closing, MainIdle
<1> QED
  BY <1>1, <1>3, <1>5, <1>6, <1>7, MainMoves

LEMMA MainReturnsHolds == ASSUME LogInv, MainReturns PROVE LogInv'
<1>1. /\ main \in {"run", "parse"} /\ main' = "return"
      /\ UNCHANGED <<sinks, loggerVars, nextFlush, logged, written, from, flushed>>
      /\ UNCHANGED <<open, sent, taken, call>> /\ Next
  BY DEF MainReturns, queueVars, historyVars, Next
<1>2. MainType' /\ Callers' /\ flushed' \in [Sink -> Nat] /\ Closing'
  BY <1>1 DEF LogInv, MainType, Callers, HistoryType, Closing
<1> QED
  BY <1>1, <1>2, MainMoves

\* The destructor closes the queue that it has found empty.
LEMMA DestructorClosesHolds == ASSUME LogInv, DestructorCloses PROVE LogInv'
<1>1. /\ Main \in Thread /\ Q!Close(Main) /\ main = "drain" /\ main' = "join" /\ nextFlush' = 0
      /\ UNCHANGED <<sinks, loggerVars, logged, written, from, flushed>> /\ Next
  BY CallKinds, MessagesAreQueue DEF DestructorCloses, App, historyVars, Next, MainStep
<1>2. MainIdle /\ UNCHANGED <<sent, taken, call>>
  BY <1>1 DEF Q!Close, MainIdle
<1>3. logged <= Len(taken) /\ Len(sinks) \in Nat
  BY <1>1, <1>2, SinksIndexed DEF LogInv, Closing
<1>4. MainType' /\ Callers' /\ flushed' \in [Sink -> Nat] /\ Closing'
  BY <1>1, <1>2, <1>3 DEF LogInv, MainType, Callers, HistoryType, Closing
<1> QED
  BY <1>1, <1>2, <1>4, MainMoves
LEMMA FlushLoopEntersHolds == ASSUME LogInv, FlushLoopEnters PROVE LogInv'
<1>1. /\ main = "flush" \/ (main = "join" /\ logger = "exited")
      /\ nextFlush' = 1
      /\ UNCHANGED <<sinks, loggerVars, main, logged, written, from, flushed>>
      /\ UNCHANGED <<open, sent, taken, call, at, logger>> /\ Next
  BY DEF FlushLoopEnters, queueVars, historyVars, loggerVars, Next, MainStep
<1>2. Len(sinks) \in Nat /\ \A i \in DOMAIN sinks : i \in Nat /\ i # 0
  BY SinksIndexed DEF LogInv
<1>3. MainType' /\ Callers' /\ flushed' \in [Sink -> Nat]
  BY <1>1, <1>2 DEF LogInv, MainType, Callers, HistoryType
<1>4. Closing'
  BY <1>1, <1>2 DEF LogInv, Closing, MainIdle
<1> QED
  BY <1>1, <1>3, <1>4, MainMoves

\* Once the logger has gone, a sink that is flushed has all that it had to write.
LEMMA FlushSinkHolds == ASSUME LogInv, FlushSink PROVE LogInv'
<1> DEFINE s == sinks[nextFlush]
<1>1. /\ nextFlush \in DOMAIN sinks
      /\ flushed' = [flushed EXCEPT ![s] = Len(written[s])]
      /\ nextFlush' = nextFlush + 1
      /\ UNCHANGED <<sinks, loggerVars, main, logged, written, from>>
      /\ UNCHANGED <<open, sent, taken, call, at, logger>> /\ Next
  BY DEF FlushSink, queueVars, loggerVars, Next, MainStep
<1>2. /\ Len(sinks) \in Nat /\ DOMAIN sinks = 1 .. Len(sinks) /\ s \in Sink
      /\ \A i \in DOMAIN sinks : sinks[i] \in Sink /\ (i # nextFlush => sinks[i] # s)
      /\ written[s] \in Seq(Q!Item) /\ Len(written[s]) \in Nat /\ flushed \in [Sink -> Nat]
  BY <1>1, SinksIndexed, LenProperties DEF LogInv, SinkType, HistoryType
<1>3. MainType' /\ Callers' /\ flushed' \in [Sink -> Nat]
  BY <1>1, <1>2 DEF LogInv, MainType, Callers
<1>4. flushed'[s] = Len(written[s]) /\ \A i \in DOMAIN sinks : i # nextFlush => flushed'[sinks[i]] = flushed[sinks[i]]
  BY <1>1, <1>2
<1>5. ASSUME main = "join", NEW i \in DOMAIN sinks, i = nextFlush PROVE Flushed(i)'
  <2>1. nextFlush # 0 /\ logger = "exited" /\ logged <= Len(taken)
    BY <1>1, <1>2, <1>5 DEF LogInv, Closing
  <2>2. Dispatched = Len(taken) /\ Turn(nextFlush) = Len(taken)
    BY <2>1 DEF LogInv, LoggerType, Dispatched, Turn
  <2>3. written[s] = DueOf(sent, s, from[s], Len(taken))
    BY <1>1, <2>2, StreamIs DEF LogInv, Stream
  <2>4. /\ sent \in Seq(Q!Item) /\ Len(taken) \in 0 .. Len(sent) /\ logged \in 0 .. Len(taken)
        /\ from[s] \in Nat
    BY <1>2, <2>1, QueueTypes DEF LogInv, MainType, HistoryType
  <2>5. Len(DueOf(sent, s, from[s], logged)) <= Len(DueOf(sent, s, from[s], Len(taken)))
    BY <2>4, DueGrows
  <2>6. DueOf(sent, s, from[s], logged) \in Seq(Q!Item)
    BY <2>4, QueueTypes, DueGrows DEF LogInv, MainType
  <2>7. flushed'[s] >= Len(DueOf(sent, s, from[s], logged))
    BY <1>2, <1>4, <2>3, <2>5, <2>6, LenProperties
  <2>8. flushed'[sinks'[i]] >= Len(DueOf(sent', sinks'[i], from'[sinks'[i]], logged'))
    BY <1>1, <1>5, <2>7
  <2> QED
    BY <2>8 DEF Flushed, Due, DueOf
<1>6. \A i \in DOMAIN sinks : Flushed(i) /\ i # nextFlush => Flushed(i)'
  BY <1>1, <1>4, FlushedKept
<1>7. main # "exited"
  BY <1>1, <1>2 DEF LogInv, MainType
<1>8. Closing'
  <2>1. (main' = "join" /\ nextFlush' # 0) =>
          logger' = "exited" /\ \A i \in DOMAIN sinks' : i < nextFlush' => Flushed(i)'
    <3>1. ASSUME main = "join"
          PROVE  logger = "exited" /\ \A i \in DOMAIN sinks : i < nextFlush => Flushed(i)
      BY <1>1, <1>2, <3>1 DEF LogInv, Closing
    <3>2. ASSUME main = "join", NEW i \in DOMAIN sinks, i < nextFlush + 1 PROVE Flushed(i)'
      <4>1. CASE i = nextFlush
        BY <1>5, <3>2, <4>1
      <4>2. CASE i # nextFlush
        <5>1. i < nextFlush
          BY <1>1, <1>2, <3>2, <4>2
        <5> QED
          BY <1>6, <3>1, <3>2, <4>2, <5>1
      <4> QED
        BY <4>1, <4>2
    <3> QED
      BY <1>1, <3>1, <3>2
  <2> QED
    BY <1>1, <1>7, <2>1 DEF LogInv, Closing, MainIdle
<1> QED
  BY <1>1, <1>3, <1>8, MainMoves

LEMMA FlushLoopEndsHolds == ASSUME LogInv, FlushLoopEnds PROVE LogInv'
<1>1. /\ nextFlush > Len(sinks) /\ nextFlush' = 0
      /\ main' = IF main = "flush" THEN "run" ELSE "exited"
      /\ UNCHANGED <<sinks, loggerVars, logged, written, from, flushed>>
      /\ UNCHANGED <<open, sent, taken, call, at, logger>> /\ Next
  BY DEF FlushLoopEnds, queueVars, historyVars, loggerVars, Next, MainStep
<1>2. Len(sinks) \in Nat /\ DOMAIN sinks = 1 .. Len(sinks)
  BY SinksIndexed DEF LogInv
<1>3. main \in {"flush", "join"} /\ nextFlush # 0 /\ nextFlush \in Nat
  BY <1>1, <1>2 DEF LogInv, MainType
<1>4. MainType' /\ Callers' /\ flushed' \in [Sink -> Nat]
  BY <1>1, <1>2, <1>3 DEF LogInv, MainType, Callers, HistoryType
<1>5. ASSUME main = "join" PROVE logged <= Len(taken) /\ \A i \in DOMAIN sinks : Flushed(i)'
  <2>1. \A i \in DOMAIN sinks : Flushed(i)
    BY <1>1, <1>2, <1>3, <1>5 DEF LogInv, Closing
  <2>2. \A i \in DOMAIN sinks : Flushed(i)'
    BY <1>1, <2>1, FlushedKept
  <2> QED
    BY <1>5, <2>2 DEF LogInv, Closing
<1>6. Closing'
  BY <1>1, <1>3, <1>5 DEF LogInv, Closing
<1> QED
  BY <1>1, <1>4, <1>6, MainMoves

-----------------------------------------------------------------------------
LEMMA LogInvInit == Init => LogInv
<1> SUFFICES ASSUME Init PROVE LogInv
  OBVIOUS
<1>1. Q!Contents /\ Q!Init
  BY ContentsStart, MessagesAreQueue DEF Init
<1>2. /\ sinks = <<>> /\ logger = "open" /\ message = Nothing /\ nextWrite = 0 /\ main = "parse"
      /\ nextFlush = 0 /\ logged = 0
      /\ written = [s \in Sink |-> <<>>] /\ flushed = [s \in Sink |-> 0] /\ from = [s \in Sink |-> 0]
  BY DEF Init
<1>3. /\ sinks \in Seq(Sink) /\ Len(sinks) = 0 /\ DOMAIN sinks = {} /\ Registered = {}
  BY <1>2, EmptySeq DEF Registered
<1>4. SinkType
  BY <1>3, FS_EmptySet DEF SinkType
<1>5. LoggerType /\ InHand
  BY <1>2, <1>3 DEF LoggerType, InHand
<1>6. MainType
  BY <1>1, <1>2, <1>3, QueueTypes DEF MainType
<1>7. HistoryType
  BY <1>2, EmptySeq DEF HistoryType
<1>8. Callers
  BY <1>1 DEF Q!Init, Callers
<1>9. Stream
  BY <1>2, <1>3 DEF Stream, SinkSeesStream
<1>10. Closing
  BY <1>1, <1>2 DEF Q!Init, Closing
<1> QED
  BY <1>1, <1>4, <1>5, <1>6, <1>7, <1>8, <1>9, <1>10 DEF LogInv

LEMMA LogInvStep == LogInv /\ [Next]_vars => LogInv'
<1> SUFFICES ASSUME LogInv, [Next]_vars PROVE LogInv'
  OBVIOUS
<1>1. CASE Next
  <2>1. CASE LoggerStep
    BY <2>1, LoggerWalksHolds, LoggerCallsPopHolds, LoggerPopsHolds, LoggerWritesHolds, LoggerUnlocksHolds
    DEF LoggerStep
  <2>2. CASE MainStep
    BY <2>2, FlushLoopEntersHolds, FlushSinkHolds, FlushLoopEndsHolds, MainWaitsHolds, DestructorClosesHolds
    DEF MainStep
  <2> QED
    BY <1>1, <2>1, <2>2, LogHolds, InQueueHolds, SpuriousWakeupHolds, RegisterSinkHolds, MainWaitsHolds,
       MainReturnsHolds
    DEF Next
<1>2. CASE UNCHANGED vars
  <2>1. /\ UNCHANGED <<sinks, logger, message, nextWrite, main, nextFlush, logged, written, flushed, from>>
        /\ UNCHANGED <<queue, open, call, at, asked, sent, taken>>
    BY <1>2 DEF vars, queueVars, loggerVars, mainVars, historyVars
  <2>2. Q!Contents'
    BY <2>1, ContentsKept DEF LogInv, Q!vars
  <2>3. SinkType' /\ LoggerType' /\ MainType' /\ HistoryType' /\ Callers' /\ InHand'
    BY <2>1 DEF LogInv, SinkType, LoggerType, MainType, HistoryType, Callers, InHand, Registered
  <2>4. Stream'
    <3>1. \A i : Turn(i)' = Turn(i)
      BY <2>1 DEF Turn, Dispatched
    <3>2. SinkSeesStream' <=>
              \A i \in DOMAIN sinks' : written'[sinks'[i]] = DueOf(sent', sinks'[i], from'[sinks'[i]], Turn(i)')
      BY DEF SinkSeesStream, Due, DueOf, Turn
    <3>3. SinkSeesStream'
      BY <2>1, <3>1, <3>2, StreamIs DEF LogInv, Stream
    <3> QED
      BY <2>1, <3>3 DEF LogInv, Stream, Dispatched, Registered
  <2>5. Closing'
    BY <2>1 DEF LogInv, Closing, MainIdle, Flushed, Due
  <2> QED
    BY <2>2, <2>3, <2>4, <2>5 DEF LogInv
<1> QED
  BY <1>1, <1>2

(****************************************************************************)
(* The queue is the one of ConcurrentQueue, the logger has in hand the last *)
(* message taken, every sink is where the logger has got to in the stream,  *)
(* and the destructor leaves nothing behind: in every behaviour.            *)
(****************************************************************************)
THEOREM LogInvariant == Spec => []LogInv
  BY LogInvInit, LogInvStep, PTL DEF Spec

(****************************************************************************)
(* The variables of the log manager and of its queue keep their types; no   *)
(* sink is registered twice.                                                *)
(****************************************************************************)
THEOREM TypeCorrect == Spec => []TypeOK
<1>1. LogInv => TypeOK
  <2> SUFFICES ASSUME LogInv PROVE TypeOK
    OBVIOUS
  <2>1. Messages!TypeOK /\ Messages!Item = Q!Item
    BY MessagesAreQueue DEF LogInv, Q!Contents, Q!Shape
  <2>2. logged \in Nat
    BY QueueTypes DEF LogInv, MainType
  <2> QED
    BY <2>1, <2>2 DEF TypeOK, LogInv, SinkType, LoggerType, MainType, HistoryType
<1> QED
  BY <1>1, LogInvariant, PTL

(****************************************************************************)
(* Each sink is given, from its registration on, every message that passes  *)
(* its levels, once and in the order of the queue (logFn, registerSink).    *)
(****************************************************************************)
THEOREM SinkSeesStreamHolds == Spec => []SinkSeesStream
<1>1. LogInv => SinkSeesStream
  BY DEF LogInv, Stream
<1> QED
  BY <1>1, LogInvariant, PTL

(****************************************************************************)
(* When ~LogManager ends every sink has written and flushed what was pushed *)
(* before it began, the message last popped included.                       *)
(****************************************************************************)
THEOREM ExitWritesAllHolds == Spec => []ExitWritesAll
<1>1. LogInv => ExitWritesAll
  BY DEF LogInv, Closing, Flushed, ExitWritesAll, Registered
<1> QED
  BY <1>1, LogInvariant, PTL

-----------------------------------------------------------------------------
(****************************************************************************)
(* Who sleeps in the queue.  Only the logger takes messages out, so that    *)
(* what the queue promises about consumers is about it, and nobody calls    *)
(* popN.                                                                    *)
(****************************************************************************)
NobodyOversleeps ==
    /\ open /\ at[Logger] = "waitC" => queue = <<>>
    /\ open /\ queue = <<>> => \A t \in Thread : at[t] # "waitP"
    /\ ~ open => at[Logger] # "waitC"

LEMMA LogPopsSingly == Q!RoomToPop
<1>1. \A t \in Thread : \A c \in Program[t] : c.kind # "popN"
  BY DEF Program, PushCall, PopCall, WaitEmptyCall
<1> QED
  BY <1>1 DEF Q!RoomToPop

LEMMA WakeupsStart == Init => Q!Wakeups
<1> SUFFICES ASSUME Init PROVE Q!Wakeups
  OBVIOUS
<1>1. Q!Init
  BY MessagesAreQueue DEF Init
<1>2. Q!Waiting("waitC") = {} /\ Q!Waiting("waitP") = {}
  BY <1>1 DEF Q!Init, Q!Waiting
<1> QED
  BY <1>1, <1>2 DEF Q!Init, Q!Wakeups, Q!PopNHasRoom, Q!NoLostWakeup, Q!DrainedWakesProducers,
                    Q!ClosedWakesConsumers, Q!NoCall

LEMMA WakeupsKept ==
    ASSUME LogInv, Q!Wakeups, [Next]_vars
    PROVE  Q!Wakeups'
<1>1. [Q!Next]_(Q!vars)
  <2>1. UNCHANGED vars => UNCHANGED Q!vars
    BY DEF vars, queueVars, Q!vars
  <2> QED
    BY <2>1, QueueSteps
<1>2. Q!Shape
  BY DEF LogInv, Q!Contents
<1>3. Q!PopNHasRoom'
  BY <1>1, <1>2, QueueAssumptions, LogPopsSingly, Q!RoomStep DEF Q!Wakeups
<1>4. Q!NoLostWakeup' /\ Q!DrainedWakesProducers' /\ Q!ClosedWakesConsumers'
  BY <1>1, <1>2, QueueAssumptions, LogPopsSingly, Q!SleepersStep
<1> QED
  BY <1>3, <1>4 DEF Q!Wakeups

(****************************************************************************)
(* No wakeup between the threads that log and the log manager is lost: while *)
(* messages wait in the open queue the logger is not asleep in it; flush,   *)
(* the destructor and the threads that found it full do not sleep on when it *)
(* is empty; and close() has woken the logger that ~LogManager joins.       *)
(****************************************************************************)
THEOREM NobodyOversleepsHolds == Spec => []NobodyOversleeps
<1>1. LogInv /\ Q!Wakeups => NobodyOversleeps
  <2> SUFFICES ASSUME LogInv, Q!Wakeups PROVE NobodyOversleeps
    OBVIOUS
  <2>1. Q!Contents /\ Callers /\ Len(queue) \in Nat /\ queue \in Seq(Q!Item)
    BY QueueTypes DEF LogInv
  <2>2. ASSUME open, at[Logger] = "waitC" PROVE queue = <<>>
    <3>1. ASSUME NEW t \in Thread, at[t] = "ready", call[t].kind \in Q!Consuming PROVE FALSE
      <4>1. call[t] = PushCall \/ call[t] = WaitEmptyCall \/ call[t] = Q!NoCall
        BY <2>1, <2>2, <3>1, CallKinds DEF Callers, Thread, App
      <4> QED
        BY <3>1, <4>1 DEF Q!Consuming, PushCall, WaitEmptyCall, Q!NoCall
    <3>2. Q!Ready(Q!Consuming) = {}
      BY <3>1 DEF Q!Ready
    <3>3. Logger \in Q!Waiting("waitC")
      BY <2>2, CallKinds DEF Q!Waiting
    <3>4. Len(queue) <= Cardinality({})
      <4>1. Len(queue) <= Q!Cardinality(Q!Ready(Q!Consuming))
        BY <2>2, <3>3 DEF Q!Wakeups, Q!NoLostWakeup
      <4> QED
        BY <3>2, <4>1 DEF Q!Cardinality, Cardinality
    <3>5. Len(queue) = 0
      BY <2>1, <3>4, FS_EmptySet
    <3> QED
      BY <2>1, <3>5, EmptySeq
  <2>3. ASSUME open, queue = <<>>, NEW t \in Thread PROVE at[t] # "waitP"
    <3>1. Q!Waiting("waitP") = {}
      BY <2>3 DEF Q!Wakeups, Q!DrainedWakesProducers
    <3> QED
      BY <3>1 DEF Q!Waiting
  <2>4. ASSUME ~ open PROVE at[Logger] # "waitC"
    <3>1. Q!Waiting("waitC") = {}
      BY <2>4 DEF Q!Wakeups, Q!ClosedWakesConsumers
    <3> QED
      BY <3>1, CallKinds DEF Q!Waiting
  <2> QED
    BY <2>2, <2>3, <2>4 DEF NobodyOversleeps
<1> QED
  BY <1>1, LogInvInit, LogInvStep, WakeupsStart, WakeupsKept, PTL DEF Spec
=============================================================================
