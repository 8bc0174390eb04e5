---- MODULE AppStats ----
(***************************************************************************)
(* AppStat and AppInfo (CORE/BASE/appstats.cpp): names claim slots of a      *)
(* table for ever, under a mutex held for the whole constructor; counters    *)
(* are changed outside it, one by a compare and exchange that is tried until  *)
(* nobody has come between it and the read before it.                        *)
(***************************************************************************)
EXTENDS Integers

CONSTANTS StatThreads, StatNames, NullName,
          MaxStats,      \* MAX_STATS, MAX_INFO: slots
          Amounts,       \* what increment adds
          CounterWidth,  \* bits of a counter, 32 in the code
          StatOps        \* bound: operations of a thread

ASSUME AppStatsAssumption ==
  /\ NullName \notin StatNames
  /\ MaxStats \in Nat /\ Amounts \subseteq Nat
  /\ 2 ^ CounterWidth \in Nat \ {0}

VARIABLES slots,     \* GetGlobalStats(): [name, count] of each slot
          counter,   \* the slot each thread's AppStat points to, 0 for none
          step,      \* what a thread is doing: Idle, Reset, or the amount to add
          oldValue,  \* what it has read, none before it has
          opsLeft,
          total,     \* what each name counts when every operation is one step (history)
          asked      \* the name each thread's AppStat was made for (history)

statVars == <<slots, counter, step, oldValue, opsLeft, total, asked>>

Idle == -1
Reset == -2
NotRead == -1

Wrapped(n) == n % 2 ^ CounterWidth

StatInit ==
  /\ slots = [k \in 1 .. MaxStats |-> [name |-> NullName, count |-> 0]]
  /\ counter = [t \in StatThreads |-> 0] /\ step = [t \in StatThreads |-> Idle]
  /\ oldValue = [t \in StatThreads |-> NotRead]
  /\ opsLeft = [t \in StatThreads |-> StatOps]
  /\ total = [n \in StatNames |-> 0] /\ asked = [t \in StatThreads |-> NullName]

\* find_if for the name, then for a free slot; without one the process aborts.
SlotOf(n) ==
  LET known == {k \in DOMAIN slots : slots[k].name = n}
      free == {k \in DOMAIN slots : slots[k].name = NullName}
      least(S) == CHOOSE k \in S : \A j \in S : k <= j
  IN  IF known # {} THEN least(known) ELSE IF free # {} THEN least(free) ELSE 0

MakeStat(t, n) ==
  /\ step[t] = Idle /\ SlotOf(n) # 0
  /\ slots' = [slots EXCEPT ![SlotOf(n)].name = n]
  /\ counter' = [counter EXCEPT ![t] = SlotOf(n)]
  /\ asked' = [asked EXCEPT ![t] = n]
  /\ UNCHANGED <<step, oldValue, opsLeft, total>>

Counts(t) == slots[counter[t]].count

Store(t, n) == slots' = [slots EXCEPT ![counter[t]].count = n]

Begin(t) ==
  /\ step[t] = Idle /\ counter[t] # 0 /\ opsLeft[t] > 0
  /\ opsLeft' = [opsLeft EXCEPT ![t] = @ - 1]

\* increment(): one atomic addition.
Increment(t) ==
  /\ Begin(t)
  /\ Store(t, Wrapped(Counts(t) + 1))
  /\ total' = [total EXCEPT ![asked[t]] = Wrapped(@ + 1)]
  /\ UNCHANGED <<counter, step, oldValue, asked>>

\* increment(amount) and reset(), up to their loops.
Call(t, what) ==
  /\ Begin(t)
  /\ step' = [step EXCEPT ![t] = what]
  /\ UNCHANGED <<slots, counter, oldValue, total, asked>>

ReadCounter(t) ==
  /\ step[t] # Idle /\ oldValue[t] = NotRead
  /\ oldValue' = [oldValue EXCEPT ![t] = Counts(t)]
  /\ UNCHANGED <<slots, counter, step, opsLeft, total, asked>>

NewValue(t, n) == IF step[t] = Reset THEN 0 ELSE Wrapped(n + step[t])

Returned(t) ==
  /\ step' = [step EXCEPT ![t] = Idle]
  /\ total' = [total EXCEPT ![asked[t]] = NewValue(t, @)]

\* Nobody has come between the read and the exchange; the bug of a plain store.
StoredBlindly(t) == TRUE
Compared(t) == oldValue[t] = Counts(t)

\* The compare and exchange; when it fails the loop reads again.
Exchange(t) ==
  /\ step[t] # Idle /\ oldValue[t] # NotRead
  /\ oldValue' = [oldValue EXCEPT ![t] = NotRead]
  /\ IF Compared(t)
     THEN Store(t, NewValue(t, oldValue[t])) /\ Returned(t)
     ELSE UNCHANGED <<slots, step, total>>
  /\ UNCHANGED <<counter, opsLeft, asked>>

Calls == {Reset} \cup Amounts

StatNext ==
  \E t \in StatThreads :
    \/ \E n \in StatNames : MakeStat(t, n)
    \/ Increment(t) \/ ReadCounter(t) \/ Exchange(t)
    \/ \E what \in Calls : Call(t, what)

StatSpec == StatInit /\ [][StatNext]_statVars

\* Every AppStat of a name counts the same counter, and no other name does;
\* the counter is what the operations that have returned make of it one after
\* the other, also when they overlap, wrap around, or reset and add up to the
\* value another thread has read ("Atomically increment", appstats.h:34).
StatsExact ==
  /\ \A t \in StatThreads : counter[t] # 0 => slots[counter[t]].name = asked[t]
  /\ \A j, k \in DOMAIN slots : slots[j].name = slots[k].name /\ slots[j].name # NullName => j = k
  /\ \A k \in DOMAIN slots : slots[k].name # NullName => slots[k].count = total[slots[k].name]
====
