----------------------------- MODULE Vfs_proofs -----------------------------
(****************************************************************************)
(* The safety of Vfs, for any threads, programs, mounts asked for, paths    *)
(* and bounds.  What Resolve, Join, IsParent and StripParent make of a path *)
(* plays no part: the proofs never open them.  The invariants of the run    *)
(* hold together with what a listing has passed so far; that mounts are     *)
(* layers (Overlay) follows from the order of the table.                    *)
(****************************************************************************)
EXTENDS Vfs, SequenceTheorems, WellFoundedInduction, TLAPS

Handle == 1 .. MaxHandles
Mounted(fs) == {mounts[k].id : k \in {j \in DOMAIN mounts : mounts[j].fs = fs}}

ListFields == {"stage", "root", "recurse", "last", "child", "visited", "cut", "staying"}

(****************************************************************************)
(* TypeOK, with the table a sequence of mounts with ids once given.         *)
(****************************************************************************)
IsTable(s, n) ==
    /\ s \in Seq({s[k] : k \in DOMAIN s})
    /\ \A k \in DOMAIN s : s[k].fs \in FileSystems /\ s[k].id \in 0 .. n - 1

TableType ==
    /\ nextId \in 0 .. MaxId
    /\ IsTable(mounts, nextId)
    /\ DOMAIN known = FileSystems

FlagType == secure \in BOOLEAN /\ aborted \in BOOLEAN /\ lock \in Threads \cup {NoThread}

CopyState == {Idle} \cup [stage : {"out"}, in : Handle, to : Queries]
             \cup [stage : {"both"}, in : Handle, out : Handle]
             \cup [stage : {"last"}, out : Handle]

CallType ==
    /\ handles \subseteq Handle
    /\ file \in [Threads -> [handle : Handle \cup {NoHandle}, depth : {0, 1}]]
    /\ copy \in [Threads -> CopyState]

\* Filters stand over an open stream, and a thread has a stream or a Copy.
Streams ==
    \A t \in Threads : /\ file[t].depth = 1 => file[t].handle # NoHandle
                       /\ copy[t] # Idle => file[t].handle = NoHandle

(****************************************************************************)
(* A handle is open when somebody holds it, and one holds it: also within a *)
(* Copy, which has two.                                                     *)
(****************************************************************************)
Owned ==
    /\ \A t \in Threads : HeldBy(t) \ {NoHandle} \subseteq handles
    /\ \A h \in handles : \E t \in Threads : h \in HeldBy(t)
    /\ \A t, u \in Threads : t # u => (HeldBy(t) \cap HeldBy(u)) \subseteq {NoHandle}
    /\ \A t \in Threads : copy[t].stage = "both" => copy[t].in # copy[t].out

(****************************************************************************)
(* A listing knows ids that were given.                                     *)
(****************************************************************************)
IsListing(l) ==
    /\ DOMAIN l = ListFields
    /\ l.stage \in {"on", "end"} /\ l.cut \in BOOLEAN
    /\ l.last \in 0 .. nextId - 1 \cup {MaxId}
    /\ l.staying \subseteq 0 .. nextId - 1

ListType ==
    /\ DOMAIN list = Threads
    /\ \A t \in Threads : list[t] = Idle \/ IsListing(list[t])

(****************************************************************************)
(* What a listing that was not cut has passed, from the newest mount down   *)
(* to the one it stands at, it has visited.                                 *)
(****************************************************************************)
Reached(l, m) == l.stage = "end" \/ (l.last # MaxId /\ l.last <= m.id)

Passes(l) ==
    ~l.cut => \A k \in DOMAIN mounts :
                 (/\ mounts[k].id \in l.staying
                  /\ ListedAt(mounts[k], l) # Empty
                  /\ Reached(l, mounts[k])) => mounts[k].id \in l.visited

Covering == \A t \in Threads : list[t] # Idle => Passes(list[t])

VfsInv == /\ TableType /\ FlagType /\ CallType /\ ListType
          /\ MountsKnown /\ Streams /\ Owned /\ Covering

-----------------------------------------------------------------------------
\* A set of numbers has a least one, and with a bound a greatest one.
LEMMA Least ==
    ASSUME NEW S \in SUBSET Nat, S # {}
    PROVE  \E k \in S : \A j \in S : k <= j
<1> DEFINE R == {p \in Nat \X Nat : p[1] < p[2]}
<1>1. R = OpToRel(<, Nat)
  BY DEF OpToRel
<1>2. IsWellFoundedOn(R, Nat)
  BY <1>1, NatLessThanWellFounded
<1>3. PICK k \in S : \A j \in S : <<j, k>> \notin R
  <2> HIDE DEF R
  <2> QED BY <1>2, WFMin
<1>4. \A j \in S : ~ (j < k)
  BY <1>3
<1> QED
  BY <1>3, <1>4

LEMMA Greatest ==
    ASSUME NEW n \in Nat, NEW S \in SUBSET (0 .. n), S # {}
    PROVE  \E k \in S : \A j \in S : j <= k
<1> DEFINE T == {n - k : k \in S}
<1>1. T \in SUBSET Nat /\ T # {}
  <2>1. PICK k \in S : TRUE
    OBVIOUS
  <2>2. n - k \in T
    OBVIOUS
  <2>3. \A j \in S : n - j \in Nat
    OBVIOUS
  <2> QED BY <2>2, <2>3
<1>2. PICK m \in T : \A j \in T : m <= j
  <2> HIDE DEF T
  <2> QED BY <1>1, Least
<1>3. \A k \in S : m <= n - k
  BY <1>2
<1>4. PICK k \in S : m = n - k
  BY <1>2
<1>5. \A j \in S : j <= k
  BY <1>3, <1>4
<1> QED
  BY <1>5

(****************************************************************************)
(* The table as a sequence: a mount is added at its end, or one is cut out. *)
(****************************************************************************)
Cut(s, k) == SubSeq(s, 1, k - 1) \o SubSeq(s, k + 1, Len(s))

LEMMA OfOwnElements ==
    ASSUME NEW S, NEW r \in Seq(S)
    PROVE  r \in Seq({r[k] : k \in DOMAIN r})
<1>1. r \in [1 .. Len(r) -> S] /\ Len(r) \in Nat /\ DOMAIN r = 1 .. Len(r)
  BY LenProperties
<1> DEFINE R == {r[k] : k \in DOMAIN r}
<1>2. \A k \in 1 .. Len(r) : r[k] \in R
  BY <1>1
<1> HIDE DEF R
<1>3. r \in [1 .. Len(r) -> R]
  BY <1>1, <1>2
<1>4. r \in Seq(R)
  BY <1>1, <1>3, SeqDef
<1> QED
  BY <1>4 DEF R

LEMMA TableAdds ==
    ASSUME NEW n \in Nat, NEW s, IsTable(s, n),
           NEW m, m.fs \in FileSystems, m.id = n
    PROVE  /\ IsTable(Append(s, m), n + 1)
           /\ Len(s) \in Nat /\ DOMAIN s = 1 .. Len(s)
           /\ DOMAIN Append(s, m) = 1 .. Len(s) + 1
           /\ Len(Append(s, m)) = Len(s) + 1
           /\ \A k \in DOMAIN s : Append(s, m)[k] = s[k]
           /\ Append(s, m)[Len(s) + 1] = m
<1> DEFINE S == {s[k] : k \in DOMAIN s} \cup {m}
           r == Append(s, m)
<1>1. s \in Seq(S) /\ m \in S
  BY SeqMonotonic, {s[k] : k \in DOMAIN s} \subseteq S DEF IsTable
<1> HIDE DEF S
<1>2. /\ r \in Seq(S) /\ Len(r) = Len(s) + 1
      /\ \A k \in 1 .. Len(s) : r[k] = s[k]
      /\ r[Len(s) + 1] = m
  BY <1>1, AppendProperties
<1>3. Len(s) \in Nat /\ DOMAIN s = 1 .. Len(s) /\ DOMAIN r = 1 .. Len(s) + 1
  BY <1>1, <1>2
<1> HIDE DEF r
<1>4. r \in Seq({r[k] : k \in DOMAIN r})
  BY <1>2, OfOwnElements
<1>5. \A k \in DOMAIN r : r[k].fs \in FileSystems /\ r[k].id \in 0 .. n
  <2>1. \A k \in 1 .. Len(s) : r[k].fs \in FileSystems /\ r[k].id \in 0 .. n
    BY <1>2, <1>3 DEF IsTable
  <2>2. r[Len(s) + 1].fs \in FileSystems /\ r[Len(s) + 1].id \in 0 .. n
    BY <1>2
  <2> QED BY <1>3, <2>1, <2>2
<1>6. IsTable(r, n + 1)
  <2>1. (n + 1) - 1 = n
    OBVIOUS
  <2> QED BY <1>4, <1>5, <2>1 DEF IsTable
<1> QED
  BY <1>2, <1>3, <1>6 DEF r

LEMMA TableCuts ==
    ASSUME NEW n \in Nat, NEW s, IsTable(s, n), NEW k \in DOMAIN s
    PROVE  /\ IsTable(Cut(s, k), n)
           /\ Len(s) \in Nat /\ DOMAIN s = 1 .. Len(s)
           /\ DOMAIN Cut(s, k) = 1 .. Len(s) - 1 /\ Len(Cut(s, k)) = Len(s) - 1
           /\ \A i \in DOMAIN Cut(s, k) : Cut(s, k)[i] = IF i < k THEN s[i] ELSE s[i + 1]
<1> DEFINE S == {s[i] : i \in DOMAIN s}
           r == Cut(s, k)
           a == SubSeq(s, 1, k - 1)
           b == SubSeq(s, k + 1, Len(s))
<1>1. s \in Seq(S)
  BY DEF IsTable
<1> HIDE DEF S
<1>2. Len(s) \in Nat /\ DOMAIN s = 1 .. Len(s) /\ k \in 1 .. Len(s)
  BY <1>1
<1>3. /\ a \in Seq(S) /\ Len(a) = k - 1
      /\ \A i \in 1 .. k - 1 : a[i] = s[i]
  <2>1. /\ a \in Seq(S)
        /\ Len(a) = IF 1 <= k - 1 THEN (k - 1) - 1 + 1 ELSE 0
        /\ \A i \in 1 .. (k - 1) - 1 + 1 : a[i] = s[1 + i - 1]
    BY <1>1, <1>2, SubSeqProperties
  <2> HIDE DEF a
  <2> QED BY <1>2, <2>1
<1>4. /\ b \in Seq(S) /\ Len(b) = Len(s) - k
      /\ \A i \in 1 .. Len(s) - k : b[i] = s[k + i]
  <2>1. /\ b \in Seq(S)
        /\ Len(b) = IF k + 1 <= Len(s) THEN Len(s) - (k + 1) + 1 ELSE 0
        /\ \A i \in 1 .. Len(s) - (k + 1) + 1 : b[i] = s[(k + 1) + i - 1]
    <3>1. k + 1 \in 1 .. Len(s) + 1 /\ Len(s) \in (k + 1) - 1 .. Len(s)
      BY <1>2
    <3> QED BY <1>1, <3>1, SubSeqProperties
  <2> HIDE DEF b
  <2>2. Len(b) = Len(s) - k /\ Len(s) - (k + 1) + 1 = Len(s) - k
    BY <1>2, <2>1
  <2>3. \A i \in 1 .. Len(s) - k : (k + 1) + i - 1 = k + i
    BY <1>2
  <2> QED BY <2>1, <2>2, <2>3
<1> HIDE DEF a, b, r
<1>a. Len(a) = k - 1 /\ Len(b) = Len(s) - k
  BY <1>3, <1>4
<1>5. /\ r \in Seq(S) /\ Len(r) = Len(a) + Len(b)
      /\ \A i \in 1 .. Len(a) + Len(b) : r[i] = IF i <= Len(a) THEN a[i] ELSE b[i - Len(a)]
  <2>1. r = a \o b
    BY DEF r, Cut, a, b
  <2> QED BY <1>3, <1>4, <2>1, ConcatProperties
<1>6. Len(r) = Len(s) - 1 /\ DOMAIN r = 1 .. Len(s) - 1
  BY <1>2, <1>a, <1>5
<1>7. ASSUME NEW i \in DOMAIN r PROVE r[i] = IF i < k THEN s[i] ELSE s[i + 1]
  <2>1. CASE i < k
    <3>1. i \in 1 .. k - 1 /\ i <= Len(a) /\ i \in 1 .. Len(a) + Len(b)
      BY <1>2, <1>a, <1>6, <2>1
    <3> QED BY <1>3, <1>5, <2>1, <3>1
  <2>2. CASE i >= k
    <3>1. i - Len(a) \in 1 .. Len(s) - k /\ ~ (i <= Len(a)) /\ i \in 1 .. Len(a) + Len(b)
      <4>1. i \in k .. Len(s) - 1 /\ k \in 1 .. Len(s) /\ Len(s) \in Nat
        BY <1>2, <1>6, <2>2
      <4>2. /\ i - (k - 1) \in 1 .. Len(s) - k /\ ~ (i <= k - 1)
            /\ i \in 1 .. (k - 1) + (Len(s) - k)
        BY <4>1
      <4> QED BY <1>a, <4>2
    <3>2. k + (i - Len(a)) = i + 1 /\ ~ (i < k)
      BY <1>2, <1>a, <1>6, <2>2
    <3> QED BY <1>4, <1>5, <3>1, <3>2
  <2> QED BY <1>2, <1>6, <2>1, <2>2
<1>8. r \in Seq({r[i] : i \in DOMAIN r})
  <2>1. r \in Seq(S)
    BY <1>5
  <2> QED BY <2>1, OfOwnElements
<1>9. \A i \in DOMAIN r : r[i].fs \in FileSystems /\ r[i].id \in 0 .. n - 1
  <2>1. \A i \in DOMAIN r : \E j \in DOMAIN s : r[i] = s[j]
    BY <1>2, <1>6, <1>7
  <2> QED BY <2>1 DEF IsTable
<1>10. IsTable(r, n)
  BY <1>8, <1>9 DEF IsTable
<1> QED
  BY <1>2, <1>6, <1>7, <1>10 DEF r

-----------------------------------------------------------------------------
(* What an action that leaves a part of the state alone leaves true of it. *)

LEMMA TableKept ==
    ASSUME VfsInv, UNCHANGED <<mounts, known, nextId>>
    PROVE  TableType' /\ MountsKnown'
BY DEF VfsInv, TableType, MountsKnown

LEMMA CallsKept ==
    ASSUME VfsInv, UNCHANGED calls
    PROVE  CallType' /\ Streams' /\ Owned'
<1>1. handles' = handles /\ file' = file /\ copy' = copy
  BY DEF calls
<1>2. \A t \in Threads : HeldBy(t)' = HeldBy(t)
  BY <1>1 DEF HeldBy
<1> QED
  BY <1>1, <1>2 DEF VfsInv, CallType, Streams, Owned

LEMMA FlagsKept ==
    ASSUME VfsInv, UNCHANGED <<secure, aborted>>, lock' \in Threads \cup {lock}
    PROVE  FlagType'
<1>1. secure' \in BOOLEAN /\ aborted' \in BOOLEAN
  BY Zenon DEF VfsInv, FlagType
<1> QED
  BY <1>1 DEF VfsInv, FlagType

(****************************************************************************)
(* A listing under way does not mind a mount that goes, nor a new one,      *)
(* whose id is above all that it has seen.                                  *)
(****************************************************************************)
LEMMA ListingsKept ==
    ASSUME VfsInv, UNCHANGED list,
           nextId' \in nextId .. MaxId,
           \A k \in DOMAIN mounts' : \/ mounts'[k].id = nextId
                                     \/ \E j \in DOMAIN mounts : mounts'[k] = mounts[j]
    PROVE  ListType' /\ Covering'
<1> USE DEF VfsInv, TableType
<1>1. nextId \in Nat /\ nextId' \in Nat /\ MaxId \in Nat
  BY VfsAssumption
<1>2. ASSUME NEW l, IsListing(l) PROVE IsListing(l)'
  BY <1>1, <1>2 DEF IsListing
<1>3. ListType'
  BY <1>2 DEF ListType
<1>4. ASSUME NEW l, IsListing(l), Passes(l) PROVE Passes(l)'
  <2> SUFFICES ASSUME ~ l.cut, NEW k \in DOMAIN mounts', mounts'[k].id \in l.staying,
                      ListedAt(mounts'[k], l) # Empty, Reached(l, mounts'[k])
               PROVE  mounts'[k].id \in l.visited
    BY DEF Passes, Reached, ListedAt
  <2>1. nextId \notin l.staying
    BY <1>1, <1>4 DEF IsListing
  <2>2. PICK j \in DOMAIN mounts : mounts'[k] = mounts[j]
    BY <2>1
  <2> QED
    BY <1>4, <2>2 DEF Passes, Reached
<1>5. \A t \in Threads : list[t] # Idle => IsListing(list[t])
  BY DEF ListType
<1> QED
  BY <1>3, <1>4, <1>5 DEF Covering

-----------------------------------------------------------------------------
(* The table: mount, unmount, unmountAll *)

LEMMA MountHolds ==
    ASSUME VfsInv, NEW t \in Threads, NEW a \in MountArgs, Mount(t, a)
    PROVE  VfsInv'
<1> DEFINE src == IF secure THEN Resolve(a.src) ELSE a.src
           fs == Taker(src)
           m == [id |-> nextId, fs |-> fs, src |-> src, dest |-> Resolve(a.dest)]
<1>0. /\ nextId < MaxId /\ nextId' = nextId + 1 /\ nextId \in Nat /\ MaxId \in Nat
      /\ IF fs = "none" THEN UNCHANGED <<mounts, known>>
         ELSE /\ known' = [known EXCEPT ![fs] = With(@, nextId, a.mode)]
              /\ mounts' = Append(mounts, m)
      /\ UNCHANGED <<secure, lock, store, calls, list, aborted>>
  BY VfsAssumption DEF Mount, VfsInv, TableType
<1>1. FlagType'
  BY <1>0, FlagsKept
<1>2. CallType' /\ Streams' /\ Owned'
  BY <1>0, CallsKept
<1>3. nextId' \in 0 .. MaxId /\ nextId' \in nextId .. MaxId
  BY <1>0
<1>4. CASE fs = "none"
  <2>1. IsTable(mounts, nextId')
    BY <1>0 DEF VfsInv, TableType, IsTable
  <2>2. TableType' /\ MountsKnown'
    BY <1>0, <1>3, <1>4, <2>1 DEF VfsInv, TableType, MountsKnown, IsTable
  <2>3. ListType' /\ Covering'
    BY <1>0, <1>3, <1>4, ListingsKept
  <2> QED
    BY <1>1, <1>2, <2>2, <2>3 DEF VfsInv
<1>5. CASE fs # "none"
  <2>1. fs \in FileSystems /\ m.fs = fs /\ m.id = nextId
    BY <1>5 DEF Taker, FileSystems
  <2> HIDE DEF m, fs
  <2>2. /\ IsTable(mounts', nextId + 1)
        /\ Len(mounts) \in Nat /\ DOMAIN mounts = 1 .. Len(mounts)
        /\ DOMAIN mounts' = 1 .. Len(mounts) + 1
        /\ \A k \in DOMAIN mounts : mounts'[k] = mounts[k]
        /\ mounts'[Len(mounts) + 1] = m
    <3>1. mounts' = Append(mounts, m) /\ nextId \in Nat
      BY <1>0, <1>5
    <3>2. IsTable(mounts, nextId)
      BY DEF VfsInv, TableType
    <3> QED
      BY <2>1, <3>1, <3>2, TableAdds
  <2>3. /\ DOMAIN known' = FileSystems
        /\ \A x \in FileSystems :
              DOMAIN known'[x] = IF x = fs THEN DOMAIN known[x] \cup {nextId} ELSE DOMAIN known[x]
    <3>1. known' = [known EXCEPT ![fs] = With(@, nextId, a.mode)] /\ DOMAIN known = FileSystems
      BY <1>0, <1>5 DEF VfsInv, TableType
    <3>2. /\ DOMAIN known' = FileSystems
          /\ known'[fs] = With(known[fs], nextId, a.mode)
          /\ \A x \in FileSystems \ {fs} : known'[x] = known[x]
      BY <2>1, <3>1
    <3>3. DOMAIN known'[fs] = DOMAIN known[fs] \cup {nextId}
      BY <3>2 DEF With
    <3> QED
      BY <3>2, <3>3
  <2>4. TableType'
    BY <1>0, <1>3, <2>2, <2>3 DEF TableType
  <2>5. \A j \in DOMAIN mounts : mounts[j].id < nextId
    BY <1>0 DEF VfsInv, TableType, IsTable
  <2>6. ASSUME NEW j \in DOMAIN mounts', NEW k \in DOMAIN mounts', j < k
        PROVE  mounts'[j].id < mounts'[k].id
    <3>1. j \in DOMAIN mounts
      BY <2>2, <2>6
    <3>2. CASE k \in DOMAIN mounts
      BY <2>2, <2>6, <3>1, <3>2 DEF VfsInv, MountsKnown
    <3>3. CASE k = Len(mounts) + 1
      BY <2>1, <2>2, <2>5, <3>1, <3>3
    <3> QED
      BY <2>2, <3>2, <3>3
  <2>7. ASSUME NEW x \in FileSystems PROVE DOMAIN known'[x] = Mounted(x)'
    <3>1. Mounted(x)' = IF x = fs THEN Mounted(x) \cup {nextId} ELSE Mounted(x)
      <4>1. \A k \in DOMAIN mounts' : k \in DOMAIN mounts \/ k = Len(mounts) + 1
        BY <2>2
      <4>2. DOMAIN mounts \subseteq DOMAIN mounts' /\ Len(mounts) + 1 \in DOMAIN mounts'
        BY <2>2
      <4> QED
        BY <2>1, <2>2, <4>1, <4>2 DEF Mounted
    <3> QED
      BY <2>3, <3>1 DEF VfsInv, MountsKnown, Mounted
  <2>8. MountsKnown'
    BY <2>6, <2>7 DEF MountsKnown, Mounted
  <2>9. \A k \in DOMAIN mounts' : mounts'[k].id = nextId \/ \E j \in DOMAIN mounts : mounts'[k] = mounts[j]
    BY <2>1, <2>2
  <2>10. ListType' /\ Covering'
    BY <1>0, <1>3, <2>9, ListingsKept
  <2> QED
    BY <1>1, <1>2, <2>4, <2>8, <2>10 DEF VfsInv
<1> QED
  BY <1>4, <1>5

(****************************************************************************)
(* A mount that goes is known to its file system: unmount never spins.      *)
(****************************************************************************)
LEMMA UnmountHolds ==
    ASSUME VfsInv, NEW t \in Threads, NEW id \in 0 .. MaxId - 1, Unmount(t, id)
    PROVE  VfsInv'
<1>1. PICK k \in DOMAIN mounts :
         /\ mounts[k].id = id
         /\ IF id \in DOMAIN known[mounts[k].fs]
            THEN /\ mounts' = Cut(mounts, k)
                 /\ known' = [known EXCEPT ![mounts[k].fs] = Without(@, {id})]
                 /\ UNCHANGED lock
            ELSE /\ lock' = t
                 /\ UNCHANGED <<mounts, known>>
  BY DEF Unmount, Cut
<1>2. UNCHANGED <<nextId, secure, store, calls, list, aborted>>
  BY DEF Unmount
<1>3. nextId \in Nat /\ MaxId \in Nat /\ nextId' \in nextId .. MaxId
  BY <1>2, VfsAssumption DEF VfsInv, TableType
<1>4. mounts[k].fs \in FileSystems /\ id \in DOMAIN known[mounts[k].fs]
  BY <1>1 DEF VfsInv, TableType, IsTable, MountsKnown
<1>5. /\ IsTable(mounts', nextId)
      /\ Len(mounts) \in Nat /\ DOMAIN mounts = 1 .. Len(mounts)
      /\ DOMAIN mounts' = 1 .. Len(mounts) - 1
      /\ \A i \in DOMAIN mounts' : mounts'[i] = IF i < k THEN mounts[i] ELSE mounts[i + 1]
  BY <1>1, <1>3, <1>4, TableCuts DEF VfsInv, TableType
<1>6. /\ DOMAIN known' = FileSystems
      /\ \A x \in FileSystems :
            DOMAIN known'[x] = IF x = mounts[k].fs THEN DOMAIN known[x] \ {id} ELSE DOMAIN known[x]
  BY <1>1, <1>4 DEF VfsInv, TableType, Without
<1>7. TableType'
  BY <1>2, <1>5, <1>6 DEF VfsInv, TableType
<1>8. /\ \A i \in DOMAIN mounts' : \E j \in DOMAIN mounts \ {k} : mounts'[i] = mounts[j]
      /\ \A j \in DOMAIN mounts \ {k} : \E i \in DOMAIN mounts' : mounts'[i] = mounts[j]
  <2>1. ASSUME NEW i \in DOMAIN mounts' PROVE \E j \in DOMAIN mounts \ {k} : mounts'[i] = mounts[j]
    BY <1>5
  <2>2. ASSUME NEW j \in DOMAIN mounts \ {k} PROVE \E i \in DOMAIN mounts' : mounts'[i] = mounts[j]
    <3>1. CASE j < k
      BY <1>5, <3>1
    <3>2. CASE j > k
      <4>1. j - 1 \in DOMAIN mounts' /\ ~ (j - 1 < k) /\ (j - 1) + 1 = j
        BY <1>5, <3>2
      <4> QED BY <1>5, <4>1
    <3> QED BY <1>5, <3>1, <3>2
  <2> QED BY <2>1, <2>2
<1>9. ASSUME NEW x \in FileSystems PROVE DOMAIN known'[x] = Mounted(x)'
  <2>1. \A j \in DOMAIN mounts : mounts[j].id = id => j = k
    <3>1. \A i, j \in DOMAIN mounts : i < j => mounts[i].id < mounts[j].id
      BY DEF VfsInv, MountsKnown
    <3>2. \A j \in DOMAIN mounts : mounts[j].id \in Nat /\ j \in Nat
      BY <1>3, <1>5 DEF VfsInv, TableType, IsTable
    <3> QED
      BY <1>1, <3>1, <3>2
  <2>2. Mounted(x)' = IF x = mounts[k].fs THEN Mounted(x) \ {id} ELSE Mounted(x)
    <3>1. \A i : i \in Mounted(x)' <=> \E j \in DOMAIN mounts \ {k} : mounts[j].fs = x /\ mounts[j].id = i
      BY <1>8 DEF Mounted
    <3>2. \A i : i \in Mounted(x) <=> \E j \in DOMAIN mounts : mounts[j].fs = x /\ mounts[j].id = i
      BY DEF Mounted
    <3>3. \A i : i \in Mounted(x)' <=> i \in Mounted(x) /\ ~ (x = mounts[k].fs /\ i = id)
      BY <1>1, <2>1, <3>1, <3>2
    <3> QED BY <3>3
  <2> QED
    BY <1>6, <2>2 DEF VfsInv, MountsKnown, Mounted
<1>10. ASSUME NEW i \in DOMAIN mounts', NEW j \in DOMAIN mounts', i < j
       PROVE  mounts'[i].id < mounts'[j].id
  <2> DEFINE old(x) == IF x < k THEN x ELSE x + 1
  <2>1. old(i) \in DOMAIN mounts /\ old(j) \in DOMAIN mounts /\ old(i) < old(j)
    BY <1>5, <1>10
  <2>2. mounts'[i] = mounts[old(i)] /\ mounts'[j] = mounts[old(j)]
    BY <1>5
  <2> HIDE DEF old
  <2> QED
    BY <2>1, <2>2 DEF VfsInv, MountsKnown
<1>11. MountsKnown'
  BY <1>9, <1>10 DEF MountsKnown, Mounted
<1>12. ListType' /\ Covering'
  BY <1>2, <1>3, <1>8, ListingsKept
<1>13. FlagType'
  BY <1>1, <1>2, <1>4, FlagsKept
<1> QED
  BY <1>2, <1>7, <1>11, <1>12, <1>13, CallsKept DEF VfsInv

LEMMA UnmountAllHolds ==
    ASSUME VfsInv, NEW t \in Threads, UnmountAll(t)
    PROVE  VfsInv'
<1>0. /\ mounts' = <<>>
      /\ known' = [fs \in FileSystems |-> Without(known[fs], Mounted(fs))]
      /\ UNCHANGED <<nextId, secure, lock, store, calls, list, aborted>>
  BY DEF UnmountAll, Mounted
<1>1. DOMAIN mounts' = {} /\ IsTable(mounts', nextId)
  BY <1>0, EmptySeq DEF IsTable
<1>2. DOMAIN known' = FileSystems /\ \A x \in FileSystems : DOMAIN known'[x] = {}
  BY <1>0 DEF Without, VfsInv, MountsKnown, Mounted
<1>3. TableType' /\ MountsKnown'
  BY <1>0, <1>1, <1>2 DEF VfsInv, TableType, MountsKnown
<1>4. nextId' \in nextId .. MaxId
  BY <1>0, VfsAssumption DEF VfsInv, TableType
<1> QED
  BY <1>0, <1>1, <1>3, <1>4, ListingsKept, CallsKept, FlagsKept DEF VfsInv

-----------------------------------------------------------------------------
(* The calls: files and Copy *)

LEMMA ListingsUntouched ==
    ASSUME VfsInv, UNCHANGED <<mounts, known, nextId, list>>
    PROVE  TableType' /\ MountsKnown' /\ ListType' /\ Covering'
<1>1. nextId' \in nextId .. MaxId
  BY VfsAssumption DEF VfsInv, TableType
<1> QED
  BY <1>1, TableKept, ListingsKept

\* What a thread holds, by what it is doing.
LEMMA Holding ==
    ASSUME NEW t \in Threads
    PROVE  /\ copy[t].stage = "idle" => HeldBy(t) = {file[t].handle}
           /\ copy[t].stage = "out" => HeldBy(t) = {file[t].handle, copy[t].in}
           /\ copy[t].stage = "both" => HeldBy(t) = {file[t].handle, copy[t].in, copy[t].out}
           /\ copy[t].stage = "last" => HeldBy(t) = {file[t].handle, copy[t].out}
BY DEF HeldBy

LEMMA CopyStates ==
    ASSUME VfsInv, NEW t \in Threads
    PROVE  /\ copy[t] = Idle \/ copy[t].stage \in {"out", "both", "last"}
           /\ copy[t].stage = "out" => copy[t].in \in Handle /\ copy[t].to \in Queries
           /\ copy[t].stage = "both" => copy[t].in \in Handle /\ copy[t].out \in Handle
           /\ copy[t].stage = "last" => copy[t].out \in Handle
           /\ copy[t] = Idle <=> copy[t].stage = "idle"
<1>1. copy[t] \in CopyState
  BY DEF VfsInv, CallType
<1> QED
  BY <1>1 DEF CopyState, Idle

LEMMA FreshHandle ==
    ASSUME VfsInv, NEW q, NEW mode, OpenHandle(q, mode)
    PROVE  Fresh \in Handle \ handles /\ handles' = handles \cup {Fresh} /\ UNCHANGED <<dirs, mem>>
<1>1. handles' = handles \cup {Fresh} /\ UNCHANGED <<dirs, mem>> /\ handles # Handle
  BY DEF OpenHandle, Handle
<1>2. \E h \in Handle : h \notin handles
  BY <1>1 DEF VfsInv, CallType
<1> QED
  BY <1>1, <1>2 DEF Fresh, Handle

(****************************************************************************)
(* A thread that takes a new handle, or gives up one of its own, while the  *)
(* others hold what they held.                                              *)
(****************************************************************************)
LEMMA Taking ==
    ASSUME VfsInv, NEW t \in Threads, NEW h \in Handle \ handles,
           handles' = handles \cup {h},
           HeldBy(t)' \ {NoHandle} = (HeldBy(t) \ {NoHandle}) \cup {h},
           \A u \in Threads \ {t} : HeldBy(u)' = HeldBy(u) /\ copy'[u] = copy[u],
           copy'[t].stage = "both" => copy'[t].in # copy'[t].out
    PROVE  Owned'
<1>1. \A u \in Threads : HeldBy(u) \ {NoHandle} \subseteq handles
  BY DEF VfsInv, Owned
<1>2. \A u \in Threads : h \notin HeldBy(u)
  BY <1>1 DEF Handle, NoHandle
<1>3. \A u \in Threads : HeldBy(u)' \ {NoHandle} \subseteq handles'
  BY <1>1
<1>4. \A x \in handles' : \E u \in Threads : x \in HeldBy(u)'
  <2>1. h \in HeldBy(t)'
    OBVIOUS
  <2>2. ASSUME NEW x \in handles PROVE \E u \in Threads : x \in HeldBy(u)'
    <3>1. PICK u \in Threads : x \in HeldBy(u)
      BY DEF VfsInv, Owned
    <3>2. x # NoHandle
      BY DEF VfsInv, CallType, Handle, NoHandle
    <3> QED BY <3>1, <3>2
  <2> QED BY <2>1, <2>2
<1>5. \A u, v \in Threads : u # v => (HeldBy(u)' \cap HeldBy(v)') \subseteq {NoHandle}
  <2>1. \A u, v \in Threads : u # v => (HeldBy(u) \cap HeldBy(v)) \subseteq {NoHandle}
    BY DEF VfsInv, Owned
  <2> QED BY <1>2, <2>1
<1>6. \A u \in Threads : copy'[u].stage = "both" => copy'[u].in # copy'[u].out
  BY DEF VfsInv, Owned
<1> QED
  BY <1>3, <1>4, <1>5, <1>6 DEF Owned

LEMMA Giving ==
    ASSUME VfsInv, NEW t \in Threads, NEW h \in Handle, h \in HeldBy(t),
           handles' = handles \ {h},
           HeldBy(t)' \ {NoHandle} = HeldBy(t) \ {NoHandle, h},
           \A u \in Threads \ {t} : HeldBy(u)' = HeldBy(u) /\ copy'[u] = copy[u],
           copy'[t].stage # "both"
    PROVE  Owned'
<1>1. \A u \in Threads : HeldBy(u) \ {NoHandle} \subseteq handles
  BY DEF VfsInv, Owned
<1>2. h # NoHandle /\ \A u \in Threads \ {t} : h \notin HeldBy(u)
  BY DEF VfsInv, Owned, Handle, NoHandle
<1>3. \A u \in Threads : HeldBy(u)' \ {NoHandle} \subseteq handles'
  BY <1>1, <1>2
<1>4. \A x \in handles' : \E u \in Threads : x \in HeldBy(u)'
  <2>1. ASSUME NEW x \in handles \ {h} PROVE \E u \in Threads : x \in HeldBy(u)'
    <3>1. PICK u \in Threads : x \in HeldBy(u)
      BY DEF VfsInv, Owned
    <3>2. x # NoHandle
      BY DEF VfsInv, CallType, Handle, NoHandle
    <3> QED BY <2>1, <3>1, <3>2
  <2> QED BY <2>1
<1>5. \A u, v \in Threads : u # v => (HeldBy(u)' \cap HeldBy(v)') \subseteq {NoHandle}
  <2>1. \A u, v \in Threads : u # v => (HeldBy(u) \cap HeldBy(v)) \subseteq {NoHandle}
    BY DEF VfsInv, Owned
  <2> QED BY <1>2, <2>1
<1>6. \A u \in Threads : copy'[u].stage = "both" => copy'[u].in # copy'[u].out
  BY DEF VfsInv, Owned
<1> QED
  BY <1>3, <1>4, <1>5, <1>6 DEF Owned

LEMMA OpenFileHolds ==
    ASSUME VfsInv, NEW t \in Threads, NEW q, NEW mode, OpenFile(t, q, mode)
    PROVE  VfsInv'
<1>0. /\ file[t].handle = NoHandle /\ copy[t] = Idle
      /\ file' = [file EXCEPT ![t].handle = Fresh]
      /\ UNCHANGED <<mounts, known, nextId, secure, lock, copy, list, aborted>>
  BY DEF OpenFile, Unbound, table
<1>1. Fresh \in Handle \ handles /\ handles' = handles \cup {Fresh}
  BY FreshHandle DEF OpenFile
<1>2. file[t] \in [handle : Handle \cup {NoHandle}, depth : {0, 1}] /\ DOMAIN file = Threads
  BY DEF VfsInv, CallType
<1>3. /\ file' \in [Threads -> [handle : Handle \cup {NoHandle}, depth : {0, 1}]]
      /\ file'[t].handle = Fresh /\ \A u \in Threads \ {t} : file'[u] = file[u]
  BY <1>0, <1>1, <1>2 DEF VfsInv, CallType
<1>4. CallType'
  BY <1>0, <1>1, <1>3 DEF VfsInv, CallType
<1>5. Streams'
  BY <1>0, <1>1, <1>3 DEF VfsInv, Streams, Handle, NoHandle
<1>6. Owned'
  <2>1. HeldBy(t) = {NoHandle} /\ HeldBy(t)' = {Fresh}
    BY <1>0, <1>3 DEF HeldBy, Idle
  <2>2. \A u \in Threads \ {t} : HeldBy(u)' = HeldBy(u)
    BY <1>0, <1>3 DEF HeldBy
  <2>3. copy'[t].stage # "both"
    BY <1>0 DEF Idle
  <2>4. Fresh # NoHandle
    BY <1>1 DEF Handle, NoHandle
  <2> QED
    BY <1>0, <1>1, <2>1, <2>2, <2>3, <2>4, Taking
<1> QED
  BY <1>0, <1>4, <1>5, <1>6, ListingsUntouched, FlagsKept DEF VfsInv

LEMMA CloseFileHolds ==
    ASSUME VfsInv, NEW t \in Threads, CloseFile(t)
    PROVE  VfsInv'
<1>0. /\ file[t].handle # NoHandle /\ file[t].depth = 0
      /\ handles' = handles \ {file[t].handle}
      /\ file' = [file EXCEPT ![t].handle = NoHandle]
      /\ UNCHANGED <<mounts, known, nextId, secure, lock, copy, list, aborted>>
  BY DEF CloseFile, CloseHandle, table
<1>1. copy[t] = Idle
  BY <1>0 DEF VfsInv, Streams
<1>2. file[t] \in [handle : Handle \cup {NoHandle}, depth : {0, 1}] /\ DOMAIN file = Threads
  BY DEF VfsInv, CallType
<1>3. /\ file' \in [Threads -> [handle : Handle \cup {NoHandle}, depth : {0, 1}]]
      /\ file'[t].handle = NoHandle /\ file'[t].depth = 0
      /\ \A u \in Threads \ {t} : file'[u] = file[u]
  BY <1>0, <1>2 DEF VfsInv, CallType
<1>4. CallType'
  BY <1>0, <1>3 DEF VfsInv, CallType
<1>5. Streams'
  BY <1>0, <1>3 DEF VfsInv, Streams
<1>6. Owned'
  <2>1. HeldBy(t) = {file[t].handle} /\ HeldBy(t)' = {NoHandle}
    BY <1>0, <1>1, <1>3 DEF HeldBy, Idle
  <2>2. \A u \in Threads \ {t} : HeldBy(u)' = HeldBy(u)
    BY <1>0, <1>3 DEF HeldBy
  <2>3. copy'[t].stage # "both"
    BY <1>0, <1>1 DEF Idle
  <2>4. file[t].handle \in Handle
    BY <1>0, <1>2
  <2> QED
    BY <1>0, <2>1, <2>2, <2>3, <2>4, Giving
<1> QED
  BY <1>0, <1>4, <1>5, <1>6, ListingsUntouched, FlagsKept DEF VfsInv

LEMMA FilterHolds ==
    ASSUME VfsInv, NEW t \in Threads, Filter(t)
    PROVE  VfsInv'
<1>0. /\ file[t].handle # NoHandle
      /\ file' = [file EXCEPT ![t].depth = 1 - @]
      /\ UNCHANGED <<mounts, known, nextId, secure, lock, handles, copy, list, aborted>>
  BY DEF Filter, table
<1>1. file[t] \in [handle : Handle \cup {NoHandle}, depth : {0, 1}] /\ DOMAIN file = Threads
  BY DEF VfsInv, CallType
<1>2. 1 - file[t].depth \in {0, 1}
  BY <1>1
<1>3. /\ file' \in [Threads -> [handle : Handle \cup {NoHandle}, depth : {0, 1}]]
      /\ \A u \in Threads : file'[u].handle = file[u].handle
      /\ \A u \in Threads \ {t} : file'[u] = file[u]
  BY <1>0, <1>1, <1>2 DEF VfsInv, CallType
<1>4. CallType' /\ Streams'
  BY <1>0, <1>3 DEF VfsInv, CallType, Streams
<1>5. \A u \in Threads : HeldBy(u)' = HeldBy(u)
  BY <1>0, <1>3 DEF HeldBy
<1>6. Owned'
  BY <1>0, <1>5 DEF VfsInv, Owned
<1> QED
  BY <1>0, <1>4, <1>6, ListingsUntouched, FlagsKept DEF VfsInv

-----------------------------------------------------------------------------
\* A Copy that goes on leaves its thread without a stream.
LEMMA CopyGoesOn ==
    ASSUME VfsInv, NEW t \in Threads, NEW c \in CopyState,
           file[t].handle = NoHandle, UNCHANGED file,
           copy' = [copy EXCEPT ![t] = c],
           handles' \subseteq Handle
    PROVE  /\ CallType' /\ Streams'
           /\ copy'[t] = c
           /\ \A u \in Threads \ {t} : copy'[u] = copy[u] /\ HeldBy(u)' = HeldBy(u)
<1>1. copy' \in [Threads -> CopyState] /\ copy'[t] = c /\ \A u \in Threads \ {t} : copy'[u] = copy[u]
  BY DEF VfsInv, CallType
<1>2. CallType'
  BY <1>1 DEF VfsInv, CallType
<1>3. Streams'
  BY <1>1 DEF VfsInv, Streams
<1>4. \A u \in Threads \ {t} : HeldBy(u)' = HeldBy(u)
  BY <1>1 DEF HeldBy
<1> QED
  BY <1>1, <1>2, <1>3, <1>4

LEMMA CopyOpensInHolds ==
    ASSUME VfsInv, NEW t \in Threads, NEW q, NEW r \in Queries, CopyOpensIn(t, q, r)
    PROVE  VfsInv'
<1> DEFINE c == [stage |-> "out", in |-> Fresh, to |-> r]
<1>0. /\ file[t].handle = NoHandle /\ copy[t] = Idle
      /\ copy' = [copy EXCEPT ![t] = c]
      /\ UNCHANGED <<mounts, known, nextId, secure, lock, file, list, aborted>>
  BY DEF CopyOpensIn, Unbound, table
<1>1. Fresh \in Handle \ handles /\ handles' = handles \cup {Fresh} /\ handles' \subseteq Handle
  BY FreshHandle DEF CopyOpensIn, VfsInv, CallType
<1>2. c \in CopyState
  BY <1>1 DEF CopyState
<1>3. /\ CallType' /\ Streams' /\ copy'[t] = c
      /\ \A u \in Threads \ {t} : copy'[u] = copy[u] /\ HeldBy(u)' = HeldBy(u)
  <2> HIDE DEF c
  <2> QED BY <1>0, <1>1, <1>2, CopyGoesOn
<1>4. HeldBy(t) = {NoHandle} /\ HeldBy(t)' = {NoHandle, Fresh}
  BY <1>0, <1>3 DEF HeldBy, Idle
<1>5. Fresh # NoHandle
  BY <1>1 DEF Handle, NoHandle
<1>6. Owned'
  BY <1>1, <1>3, <1>4, <1>5, Taking
<1> QED
  BY <1>0, <1>3, <1>6, ListingsUntouched, FlagsKept DEF VfsInv

LEMMA CopyOpensOutHolds ==
    ASSUME VfsInv, NEW t \in Threads, CopyOpensOut(t)
    PROVE  VfsInv'
<1> DEFINE c == [stage |-> "both", in |-> copy[t].in, out |-> Fresh]
<1>0. /\ copy[t].stage = "out"
      /\ copy' = [copy EXCEPT ![t] = c]
      /\ UNCHANGED <<mounts, known, nextId, secure, lock, file, list, aborted>>
  BY DEF CopyOpensOut, table
<1>1. Fresh \in Handle \ handles /\ handles' = handles \cup {Fresh} /\ handles' \subseteq Handle
  BY FreshHandle DEF CopyOpensOut, VfsInv, CallType
<1>2. copy[t].in \in Handle /\ file[t].handle = NoHandle
  BY <1>0, CopyStates DEF Idle, VfsInv, Streams
<1>3. c \in CopyState
  BY <1>1, <1>2 DEF CopyState
<1>4. /\ CallType' /\ Streams' /\ copy'[t] = c
      /\ \A u \in Threads \ {t} : copy'[u] = copy[u] /\ HeldBy(u)' = HeldBy(u)
  <2> HIDE DEF c
  <2> QED BY <1>0, <1>1, <1>2, <1>3, CopyGoesOn
<1>5. HeldBy(t) = {NoHandle, copy[t].in} /\ HeldBy(t)' = {NoHandle, copy[t].in, Fresh}
  BY <1>0, <1>2, <1>4 DEF HeldBy
<1>6. copy[t].in \in handles /\ Fresh # NoHandle
  BY <1>1, <1>2, <1>5 DEF VfsInv, Owned, Handle, NoHandle
<1>7. copy'[t].in # copy'[t].out
  BY <1>1, <1>4, <1>6
<1>8. Owned'
  BY <1>1, <1>4, <1>5, <1>6, <1>7, Taking
<1> QED
  BY <1>0, <1>4, <1>8, ListingsUntouched, FlagsKept DEF VfsInv

LEMMA CopyFailsHolds ==
    ASSUME VfsInv, NEW t \in Threads, CopyFails(t)
    PROVE  VfsInv'
<1>0. /\ copy[t].stage = "out"
      /\ handles' = handles \ {copy[t].in}
      /\ copy' = [copy EXCEPT ![t] = Idle]
      /\ UNCHANGED <<mounts, known, nextId, secure, lock, file, list, aborted>>
  BY DEF CopyFails, CloseHandle, table
<1>1. copy[t].in \in Handle /\ file[t].handle = NoHandle
  BY <1>0, CopyStates DEF Idle, VfsInv, Streams
<1>2. Idle \in CopyState /\ handles' \subseteq Handle
  BY <1>0 DEF CopyState, VfsInv, CallType
<1>3. /\ CallType' /\ Streams' /\ copy'[t] = Idle
      /\ \A u \in Threads \ {t} : copy'[u] = copy[u] /\ HeldBy(u)' = HeldBy(u)
  BY <1>0, <1>1, <1>2, CopyGoesOn
<1>4. HeldBy(t) = {NoHandle, copy[t].in} /\ HeldBy(t)' = {NoHandle} /\ copy'[t].stage # "both"
  BY <1>0, <1>1, <1>3 DEF HeldBy, Idle
<1>5. Owned'
  BY <1>0, <1>1, <1>3, <1>4, Giving
<1> QED
  BY <1>0, <1>3, <1>5, ListingsUntouched, FlagsKept DEF VfsInv

LEMMA CopyClosesInHolds ==
    ASSUME VfsInv, NEW t \in Threads, CopyClosesIn(t)
    PROVE  VfsInv'
<1> DEFINE c == [stage |-> "last", out |-> copy[t].out]
<1>0. /\ copy[t].stage = "both"
      /\ handles' = handles \ {copy[t].in}
      /\ copy' = [copy EXCEPT ![t] = c]
      /\ UNCHANGED <<mounts, known, nextId, secure, lock, file, list, aborted>>
  BY DEF CopyClosesIn, CloseHandle, table
<1>1. copy[t].in \in Handle /\ copy[t].out \in Handle /\ file[t].handle = NoHandle
  BY <1>0, CopyStates DEF Idle, VfsInv, Streams
<1>2. c \in CopyState /\ handles' \subseteq Handle
  BY <1>0, <1>1 DEF CopyState, VfsInv, CallType
<1>3. /\ CallType' /\ Streams' /\ copy'[t] = c
      /\ \A u \in Threads \ {t} : copy'[u] = copy[u] /\ HeldBy(u)' = HeldBy(u)
  <2> HIDE DEF c
  <2> QED BY <1>0, <1>1, <1>2, CopyGoesOn
<1>4. /\ HeldBy(t) = {NoHandle, copy[t].in, copy[t].out}
      /\ HeldBy(t)' = {NoHandle, copy[t].out} /\ copy'[t].stage # "both"
  BY <1>0, <1>1, <1>3 DEF HeldBy
<1>5. copy[t].in # copy[t].out
  BY <1>0 DEF VfsInv, Owned
<1>6. Owned'
  BY <1>0, <1>1, <1>3, <1>4, <1>5, Giving
<1> QED
  BY <1>0, <1>3, <1>6, ListingsUntouched, FlagsKept DEF VfsInv

LEMMA CopyClosesOutHolds ==
    ASSUME VfsInv, NEW t \in Threads, CopyClosesOut(t)
    PROVE  VfsInv'
<1>0. /\ copy[t].stage = "last"
      /\ handles' = handles \ {copy[t].out}
      /\ copy' = [copy EXCEPT ![t] = Idle]
      /\ UNCHANGED <<mounts, known, nextId, secure, lock, file, list, aborted>>
  BY DEF CopyClosesOut, CloseHandle, table
<1>1. copy[t].out \in Handle /\ file[t].handle = NoHandle
  BY <1>0, CopyStates DEF Idle, VfsInv, Streams
<1>2. Idle \in CopyState /\ handles' \subseteq Handle
  BY <1>0 DEF CopyState, VfsInv, CallType
<1>3. /\ CallType' /\ Streams' /\ copy'[t] = Idle
      /\ \A u \in Threads \ {t} : copy'[u] = copy[u] /\ HeldBy(u)' = HeldBy(u)
  BY <1>0, <1>1, <1>2, CopyGoesOn
<1>4. HeldBy(t) = {NoHandle, copy[t].out} /\ HeldBy(t)' = {NoHandle} /\ copy'[t].stage # "both"
  BY <1>0, <1>1, <1>3 DEF HeldBy, Idle
<1>5. Owned'
  BY <1>0, <1>1, <1>3, <1>4, Giving
<1> QED
  BY <1>0, <1>3, <1>5, ListingsUntouched, FlagsKept DEF VfsInv

-----------------------------------------------------------------------------
(* What touches the flags and the stores only *)

LEMMA ElsewhereHolds ==
    ASSUME VfsInv, UNCHANGED <<mounts, known, nextId, calls, list, aborted>>,
           secure' \in BOOLEAN, lock' \in Threads \cup {lock}
    PROVE  VfsInv'
<1>1. aborted' \in BOOLEAN
  BY Zenon DEF VfsInv, FlagType
<1>2. FlagType'
  BY <1>1 DEF VfsInv, FlagType
<1> QED
  BY <1>2, CallsKept, ListingsUntouched DEF VfsInv

LEMMA StoringHolds ==
    ASSUME VfsInv, NEW t \in Threads, Storing(t)
    PROVE  VfsInv'
<1>1. UNCHANGED <<mounts, known, nextId, calls, list, aborted, secure, lock>>
  BY DEF Storing, Remove, RmDir, CreateMem, table
<1>2. secure' \in BOOLEAN
  BY <1>1, Zenon DEF VfsInv, FlagType
<1> QED
  BY <1>1, <1>2, ElsewhereHolds

LEMMA SetSecurePathingHolds ==
    ASSUME VfsInv, NEW t \in Threads, SetSecurePathing(t)
    PROVE  VfsInv'
<1>1. UNCHANGED <<mounts, known, nextId, calls, list, aborted, lock>>
  BY DEF SetSecurePathing, table
<1>2. secure' \in BOOLEAN
  BY Zenon DEF SetSecurePathing
<1> QED
  BY <1>1, <1>2, ElsewhereHolds

LEMMA LockTwiceHolds ==
    ASSUME VfsInv, NEW t \in Threads, LockTwice(t)
    PROVE  VfsInv'
<1>1. UNCHANGED <<mounts, known, nextId, calls, list, aborted, secure>> /\ lock' = t
  BY DEF LockTwice, table
<1>2. secure' \in BOOLEAN
  BY <1>1, Zenon DEF VfsInv, FlagType
<1> QED
  BY <1>1, <1>2, ElsewhereHolds

-----------------------------------------------------------------------------
(* The directory iterator *)

\* A listing stands at a place in the table: at the newest mount, or below the
\* one it came from while that is still mounted.
LEMMA Standing ==
    ASSUME VfsInv, NEW l, IsListing(l)
    PROVE  /\ Below(l) \in 0 .. Len(mounts)
           /\ l.last = MaxId => Below(l) = Len(mounts)
           /\ (l.last # MaxId /\ l.last \in Ids) =>
                 \A k \in DOMAIN mounts : Below(l) < k <=> l.last <= mounts[k].id
<1>1. Len(mounts) \in Nat /\ DOMAIN mounts = 1 .. Len(mounts)
  BY DEF VfsInv, TableType, IsTable
<1>2. CASE l.last = MaxId
  BY <1>1, <1>2 DEF Below
<1>3. CASE l.last # MaxId /\ l.last \notin Ids
  BY <1>1, <1>3 DEF Below
<1>4. CASE l.last # MaxId /\ l.last \in Ids
  <2> DEFINE at == CHOOSE k \in DOMAIN mounts : mounts[k].id = l.last
  <2>1. \E k \in DOMAIN mounts : mounts[k].id = l.last
    BY <1>4 DEF Ids
  <2>2. at \in DOMAIN mounts /\ mounts[at].id = l.last
    BY <2>1
  <2>3. Below(l) = at - 1
    BY <1>4 DEF Below
  <2> HIDE DEF at
  <2>4. \A j, k \in DOMAIN mounts : j < k => mounts[j].id < mounts[k].id
    BY DEF VfsInv, MountsKnown
  <2>5. \A k \in DOMAIN mounts : mounts[k].id \in Int /\ k \in Int
    BY <1>1, VfsAssumption DEF VfsInv, TableType, IsTable
  <2>6. \A k \in DOMAIN mounts : at <= k <=> l.last <= mounts[k].id
    BY <2>2, <2>4, <2>5
  <2> QED
    BY <1>1, <1>4, <2>2, <2>3, <2>5, <2>6
<1> QED
  BY <1>2, <1>3, <1>4

\* Where a mount is listed depends on what is listed, not on how far it is.
LEMMA ListedAlike ==
    ASSUME NEW l, NEW m, NEW k, k.root = l.root, k.recurse = l.recurse
    PROVE  ListedAt(m, k) = ListedAt(m, l)
BY DEF ListedAt

(****************************************************************************)
(* findNextMount passes the mounts that have nothing to list, and stops at  *)
(* the newest of the others.                                                *)
(****************************************************************************)
LEMMA NextMountHolds ==
    ASSUME VfsInv, NEW l, IsListing(l), Passes(l)
    PROVE  IsListing(NextMount(l)) /\ Passes(NextMount(l))
<1> DEFINE rest == {k \in 1 .. Below(l) : ListedAt(mounts[k], l) # Empty}
           full == Stops(l, rest)
           stop == IF full = {} THEN 0 ELSE CHOOSE k \in full : \A j \in full : j <= k
           past == {k \in rest : k >= stop}
           child == IF stop = 0 THEN {}
                    ELSE Entries(mounts[stop], ListedAt(mounts[stop], l), l.recurse)
           low == CHOOSE k \in past : \A j \in past : k <= j
           next == NextMount(l)
<1>0. next = [l EXCEPT !.stage = IF child = {} THEN "end" ELSE "on",
                       !.last = IF past = {} THEN @ ELSE mounts[low].id,
                       !.child = child,
                       !.visited = @ \cup {mounts[k].id : k \in past},
                       !.cut = @ \/ (l.last # MaxId /\ l.last \notin Ids)]
  BY DEF NextMount
<1> HIDE DEF next
<1>1. Len(mounts) \in Nat /\ DOMAIN mounts = 1 .. Len(mounts) /\ Below(l) \in 0 .. Len(mounts)
  BY Standing DEF VfsInv, TableType, IsTable
<1>2. rest \in SUBSET (0 .. Len(mounts)) /\ rest \subseteq DOMAIN mounts
  BY <1>1
<1>3. full \subseteq rest /\ \A k \in full : Entries(mounts[k], ListedAt(mounts[k], l), l.recurse) # {}
  BY DEF Stops
<1> HIDE DEF full
<1>4. full # {} => /\ stop \in full /\ \A j \in full : j <= stop
                   /\ stop # 0 /\ child # {}
  <2> SUFFICES ASSUME full # {}
               PROVE  /\ stop \in full /\ \A j \in full : j <= stop
                      /\ stop # 0 /\ child # {}
    OBVIOUS
  <2>1. full \in SUBSET (0 .. Len(mounts))
    BY <1>2, <1>3
  <2>2. \E k \in full : \A j \in full : j <= k
    BY <1>1, <2>1, Greatest
  <2>3. stop \in full /\ \A j \in full : j <= stop
    BY <2>2
  <2> HIDE DEF stop
  <2>4. stop # 0
    BY <1>3, <2>3
  <2> QED BY <1>3, <2>3, <2>4
<1>5. full = {} => stop = 0 /\ child = {} /\ past = rest
  BY <1>2
<1>6. full # {} => stop \in past /\ low = stop
  <2> SUFFICES ASSUME full # {} PROVE stop \in past /\ low = stop
    OBVIOUS
  <2>1. stop \in past /\ \A j \in past : stop <= j
    BY <1>2, <1>3, <1>4
  <2> HIDE DEF stop
  <2>2. past \subseteq Nat
    BY <1>2
  <2> HIDE DEF past
  <2>3. \A k \in past : (\A j \in past : k <= j) => k = stop
    BY <2>1, <2>2
  <2>4. low \in past /\ \A j \in past : low <= j
    BY <2>1
  <2> HIDE DEF low
  <2> QED BY <2>1, <2>3, <2>4
<1> HIDE DEF stop, child
<1>7. past # {} => low \in DOMAIN mounts
  <2>1. CASE full # {}
    BY <1>2, <1>3, <1>4, <1>6, <2>1
  <2>2. CASE full = {}
    <3> SUFFICES ASSUME past # {} PROVE low \in DOMAIN mounts
      OBVIOUS
    <3>1. PICK m \in past : TRUE
      OBVIOUS
    <3>2. past \in SUBSET Nat /\ past \subseteq DOMAIN mounts
      BY <1>2
    <3> HIDE DEF past
    <3>3. \E k \in past : \A j \in past : k <= j
      BY <3>1, <3>2, Least
    <3>4. low \in past
      BY <3>3
    <3> QED BY <3>2, <3>4
  <2> QED BY <2>1, <2>2
<1> HIDE DEF past, low
<1>8. /\ DOMAIN next = ListFields
      /\ next.root = l.root /\ next.recurse = l.recurse /\ next.staying = l.staying
      /\ next.stage = IF child = {} THEN "end" ELSE "on"
      /\ next.last = IF past = {} THEN l.last ELSE mounts[low].id
      /\ next.visited = l.visited \cup {mounts[k].id : k \in past}
      /\ next.cut = (l.cut \/ (l.last # MaxId /\ l.last \notin Ids))
  <2>1. DOMAIN l = ListFields
    BY DEF IsListing
  <2> QED BY <1>0, <2>1 DEF ListFields
<1>9. next.last \in 0 .. nextId - 1 \cup {MaxId}
  BY <1>7, <1>8 DEF IsListing, VfsInv, TableType, IsTable
<1>10. next.cut \in BOOLEAN
  BY <1>8
<1>11. IsListing(next)
  BY <1>8, <1>9, <1>10 DEF IsListing
<1>12. Passes(next)
  <2> SUFFICES ASSUME ~ next.cut, NEW k \in DOMAIN mounts, mounts[k].id \in next.staying,
                      ListedAt(mounts[k], next) # Empty, Reached(next, mounts[k])
               PROVE  mounts[k].id \in next.visited
    BY DEF Passes
  <2>1. ~ l.cut /\ (l.last = MaxId \/ l.last \in Ids)
    BY <1>8
  <2>2. ListedAt(mounts[k], l) # Empty /\ mounts[k].id \in l.staying
    BY <1>8, ListedAlike
  <2>3. CASE ~ (k <= Below(l))
    <3>1. l.last # MaxId /\ l.last <= mounts[k].id
      BY <1>1, <2>1, <2>3, Standing
    <3>2. mounts[k].id \in l.visited
      BY <2>1, <2>2, <3>1 DEF Passes, Reached
    <3> QED BY <1>8, <3>2
  <2>4. CASE k <= Below(l)
    <3>1. k \in rest
      BY <1>1, <2>2, <2>4
    <3>2. k \in past
      <4>1. CASE full = {}
        BY <1>5, <3>1, <4>1
      <4>2. CASE full # {}
        <5>1. next.stage = "on" /\ next.last = mounts[stop].id
          BY <1>4, <1>6, <1>8, <4>2
        <5>2. mounts[stop].id <= mounts[k].id
          BY <5>1 DEF Reached
        <5>3. stop \in DOMAIN mounts
          BY <1>2, <1>3, <1>4, <4>2
        <5>4. \A i, j \in DOMAIN mounts : i < j => mounts[i].id < mounts[j].id
          BY DEF VfsInv, MountsKnown
        <5>5. mounts[stop].id \in Int /\ mounts[k].id \in Int
          BY <5>3, VfsAssumption DEF VfsInv, TableType, IsTable
        <5>6. k >= stop
          BY <1>1, <5>2, <5>3, <5>4, <5>5
        <5> QED BY <3>1, <5>6 DEF past
      <4> QED BY <4>1, <4>2
    <3> QED BY <1>8, <3>2
  <2> QED BY <2>3, <2>4
<1> QED
  BY <1>11, <1>12 DEF next

\* A thread's listing changes while the table does not.
LEMMA ListingMoves ==
    ASSUME VfsInv, NEW t \in Threads, NEW l, IsListing(l), Passes(l),
           UNCHANGED <<mounts, known, nextId>>, list' = [list EXCEPT ![t] = l]
    PROVE  TableType' /\ MountsKnown' /\ ListType' /\ Covering'
<1>1. TableType' /\ MountsKnown'
  BY TableKept
<1>2. DOMAIN list' = Threads /\ list'[t] = l /\ \A u \in Threads \ {t} : list'[u] = list[u]
  BY DEF VfsInv, ListType
<1>3. \A k : IsListing(k)' <=> IsListing(k)
  BY DEF IsListing
<1>4. \A k : Passes(k)' <=> Passes(k)
  BY DEF Passes, Reached, ListedAt
<1>5. ListType'
  BY <1>2, <1>3 DEF VfsInv, ListType
<1>6. Covering'
  BY <1>2, <1>4 DEF VfsInv, Covering
<1> QED
  BY <1>1, <1>5, <1>6

LEMMA ListHolds ==
    ASSUME VfsInv, NEW t \in Threads, NEW root, NEW recurse, List(t, root, recurse)
    PROVE  VfsInv'
<1> DEFINE l == [stage |-> "on", root |-> Resolve(root), recurse |-> recurse, last |-> MaxId,
                 child |-> {}, visited |-> {}, cut |-> FALSE, staying |-> Ids]
<1>0. list' = [list EXCEPT ![t] = NextMount(l)] /\ UNCHANGED <<mounts, known, nextId, secure, lock, calls, aborted>>
  BY DEF List, table
<1>1. IsListing(l)
  BY DEF IsListing, ListFields, Ids, VfsInv, TableType, IsTable
<1>2. l.stage = "on" /\ l.last = MaxId
  OBVIOUS
<1> HIDE DEF l
<1>3. Passes(l)
  BY <1>2 DEF Passes, Reached
<1>4. TableType' /\ MountsKnown' /\ ListType' /\ Covering'
  BY <1>0, <1>1, <1>3, NextMountHolds, ListingMoves
<1> QED
  BY <1>0, <1>4, CallsKept, FlagsKept DEF VfsInv

LEMMA AdvanceHolds ==
    ASSUME VfsInv, NEW t \in Threads, Advance(t)
    PROVE  VfsInv'
<1> DEFINE l == list[t]
<1>0. UNCHANGED <<mounts, known, nextId, secure, lock, calls>> /\ l.stage = "on"
  BY DEF Advance, table
<1>1. IsListing(l) /\ Passes(l)
  BY <1>0 DEF VfsInv, ListType, Covering, Idle
<1>2. PICK left \in l.child :
         IF l.child \ {left} = {}
         THEN /\ list' = [list EXCEPT ![t] = [NextMount(l) EXCEPT !.staying = @ \cap Ids]]
              /\ UNCHANGED aborted
         ELSE /\ aborted' = (l.last \notin Ids)
              /\ list' = [list EXCEPT ![t].child = l.child \ {left}, ![t].staying = @ \cap Ids]
  BY DEF Advance
\* A listing loses sight of a mount that has gone.
<1>3. ASSUME NEW k, IsListing(k), Passes(k), NEW c,
             NEW n, n = [k EXCEPT !.child = c, !.staying = @ \cap Ids]
                    \/ n = [k EXCEPT !.staying = @ \cap Ids]
      PROVE  IsListing(n) /\ Passes(n)
  <2>1. /\ DOMAIN n = ListFields /\ n.root = k.root /\ n.recurse = k.recurse
        /\ n.stage = k.stage /\ n.last = k.last /\ n.visited = k.visited /\ n.cut = k.cut
        /\ n.staying = k.staying \cap Ids
    BY <1>3 DEF IsListing, ListFields
  <2>2. IsListing(n)
    BY <1>3, <2>1 DEF IsListing
  <2>3. \A m : ListedAt(m, n) = ListedAt(m, k) /\ (Reached(n, m) <=> Reached(k, m))
    BY <2>1 DEF ListedAt, Reached
  <2> QED
    BY <1>3, <2>1, <2>2, <2>3 DEF Passes
<1>4. CASE l.child \ {left} = {}
  <2> DEFINE n == [NextMount(l) EXCEPT !.staying = @ \cap Ids]
  <2>1. IsListing(n) /\ Passes(n)
    BY <1>1, <1>3, NextMountHolds
  <2>2. list' = [list EXCEPT ![t] = n] /\ UNCHANGED aborted
    BY <1>2, <1>4
  <2> HIDE DEF n
  <2>3. TableType' /\ MountsKnown' /\ ListType' /\ Covering'
    BY <1>0, <2>1, <2>2, ListingMoves
  <2> QED
    BY <1>0, <2>2, <2>3, CallsKept, FlagsKept DEF VfsInv
<1>5. CASE l.child \ {left} # {}
  <2> DEFINE n == [l EXCEPT !.child = l.child \ {left}, !.staying = @ \cap Ids]
  <2>1. IsListing(n) /\ Passes(n)
    BY <1>1, <1>3
  <2>2. list' = [list EXCEPT ![t] = n]
    <3>1. t \in DOMAIN list
      BY DEF VfsInv, ListType
    <3> QED BY <1>2, <1>5, <3>1
  <2>3. aborted' \in BOOLEAN
    BY <1>2, <1>5
  <2> HIDE DEF n
  <2>4. TableType' /\ MountsKnown' /\ ListType' /\ Covering'
    BY <1>0, <2>1, <2>2, ListingMoves
  <2>5. secure' \in BOOLEAN
    BY <1>0, Zenon DEF VfsInv, FlagType
  <2>6. FlagType'
    BY <1>0, <2>3, <2>5 DEF VfsInv, FlagType
  <2> QED
    BY <1>0, <2>4, <2>6, CallsKept DEF VfsInv
<1> QED
  BY <1>4, <1>5

LEMMA DropHolds ==
    ASSUME VfsInv, NEW t \in Threads, Drop(t)
    PROVE  VfsInv'
<1>0. list' = [list EXCEPT ![t] = Idle] /\ UNCHANGED <<mounts, known, nextId, secure, lock, calls, aborted>>
  BY DEF Drop, table
<1>1. DOMAIN list' = Threads /\ list'[t] = Idle /\ \A u \in Threads \ {t} : list'[u] = list[u]
  BY <1>0 DEF VfsInv, ListType
<1>2. ListType'
  BY <1>0, <1>1 DEF VfsInv, ListType, IsListing
<1>3. \A k : Passes(k)' <=> Passes(k)
  BY <1>0 DEF Passes, Reached, ListedAt
<1>4. Covering'
  BY <1>1, <1>3 DEF VfsInv, Covering
<1> QED
  BY <1>0, <1>2, <1>4, TableKept, CallsKept, FlagsKept DEF VfsInv

-----------------------------------------------------------------------------
LEMMA InitHolds == Init => VfsInv
<1> SUFFICES ASSUME Init PROVE VfsInv
  OBVIOUS
<1>1. mounts = <<>> /\ DOMAIN mounts = {} /\ nextId = 0 /\ handles = {}
  BY DEF Init
<1>2. IsTable(mounts, nextId)
  BY <1>1, EmptySeq DEF IsTable
<1>3. DOMAIN known = FileSystems /\ \A fs \in FileSystems : DOMAIN known[fs] = {}
  BY DEF Init
<1>4. TableType /\ MountsKnown
  BY <1>1, <1>2, <1>3, VfsAssumption DEF TableType, MountsKnown
<1>5. FlagType
  BY DEF Init, FlagType
<1>6. \A t \in Threads : file[t] = [handle |-> NoHandle, depth |-> 0] /\ copy[t] = Idle /\ list[t] = Idle
  BY DEF Init
<1>7. CallType /\ ListType
  BY <1>1 DEF Init, CallType, CopyState, ListType
<1>8. Streams /\ Covering
  BY <1>6 DEF Streams, Covering
<1>9. \A t \in Threads : HeldBy(t) = {NoHandle} /\ copy[t].stage # "both"
  BY <1>6 DEF HeldBy, Idle
<1>10. Owned
  BY <1>1, <1>9 DEF Owned
<1> QED
  BY <1>4, <1>5, <1>7, <1>8, <1>10 DEF VfsInv

LEMMA NextHolds == VfsInv /\ [Next]_vars => VfsInv'
<1> SUFFICES ASSUME VfsInv, [Next]_vars PROVE VfsInv'
  OBVIOUS
<1>1. CASE UNCHANGED vars
  <2>1. UNCHANGED <<mounts, known, nextId, calls, list, aborted, secure, lock>>
    BY <1>1 DEF vars, table
  <2>2. secure' \in BOOLEAN
    BY <2>1, Zenon DEF VfsInv, FlagType
  <2> QED
    BY <2>1, <2>2, ElsewhereHolds
<1>2. CASE Next
  <2>1. PICK t \in Threads : Mounting(t) \/ Filing(t) \/ Storing(t) \/ Copy(t) \/ Listing(t)
    BY <1>2 DEF Next
  <2>2. CASE Mounting(t)
    BY <2>2, MountHolds, UnmountHolds, UnmountAllHolds, SetSecurePathingHolds, LockTwiceHolds DEF Mounting
  <2>3. CASE Filing(t)
    BY <2>3, OpenFileHolds, CloseFileHolds, FilterHolds DEF Filing
  <2>4. CASE Storing(t)
    BY <2>4, StoringHolds
  <2>5. CASE Copy(t)
    BY <2>5, CopyOpensInHolds, CopyOpensOutHolds, CopyFailsHolds, CopyClosesInHolds, CopyClosesOutHolds DEF Copy
  <2>6. CASE Listing(t)
    BY <2>6, ListHolds, AdvanceHolds, DropHolds DEF Listing
  <2> QED
    BY <2>1, <2>2, <2>3, <2>4, <2>5, <2>6
<1> QED
  BY <1>1, <1>2

-----------------------------------------------------------------------------
(****************************************************************************)
(* Mounts are layers.  The lookup tries each mount under two ranks, so that *)
(* the attempts of a table are ordered, and a mount that is added or cut    *)
(* out leaves the order of the others as it was.                            *)
(****************************************************************************)
Try(s, k, at) == [mount |-> s[k].id, fs |-> s[k].fs, at |-> at]
Direct(s, k, p) == [rank |-> 2 * k + 1, on |-> Try(s, k, p)]
Through(s, k, p) ==
    [rank |-> 2 * k, on |-> Try(s, k, Join(s[k].src, StripParent(p, s[k].dest)))]

Goes(s, safe, k, p) ==
    {a \in {Direct(s, k, p)} : ~safe /\ s[k].fs = "stdio"} \cup
    {a \in {Through(s, k, p)} : IsParent(s[k].dest, p)}

AttemptsIn(s, safe, p) == UNION {Goes(s, safe, k, p) : k \in DOMAIN s}

LEMMA AttemptsAre == \A p : Attempts(p) = AttemptsIn(mounts, secure, p)
<1> SUFFICES ASSUME NEW p PROVE Attempts(p) = AttemptsIn(mounts, secure, p)
  OBVIOUS
<1>1. ASSUME NEW a
      PROVE  a \in AttemptsIn(mounts, secure, p) <=>
                \E k \in DOMAIN mounts :
                   \/ ~secure /\ mounts[k].fs = "stdio" /\ a = Direct(mounts, k, p)
                   \/ IsParent(mounts[k].dest, p) /\ a = Through(mounts, k, p)
  BY DEF AttemptsIn, Goes
<1>2. ASSUME NEW a
      PROVE  a \in Attempts(p) <=>
                \E k \in DOMAIN mounts :
                   \/ ~secure /\ mounts[k].fs = "stdio" /\ a = Direct(mounts, k, p)
                   \/ IsParent(mounts[k].dest, p) /\ a = Through(mounts, k, p)
  BY DEF Attempts, Direct, Through, Try
<1> QED
  BY <1>1, <1>2

\* What is tried on one mount.
LEMMA GoesOn ==
    ASSUME NEW s, NEW safe, NEW k \in Nat, NEW p, NEW a \in Goes(s, safe, k, p)
    PROVE  /\ a.rank \in {2 * k, 2 * k + 1}
           /\ a.on.mount = s[k].id /\ a.on.fs = s[k].fs
           /\ \A b \in Goes(s, safe, k, p) : a.rank = b.rank => a = b
BY DEF Goes, Direct, Through, Try

\* A mount that has another place in the table is tried alike.
LEMMA GoesAlike ==
    ASSUME NEW s, NEW r, NEW safe, NEW k \in Nat, NEW j \in Nat, NEW p, r[j] = s[k],
           NEW a \in Goes(s, safe, k, p)
    PROVE  \E b \in Goes(r, safe, j, p) : b.on = a.on /\ b.rank - 2 * j = a.rank - 2 * k
<1>1. CASE a = Direct(s, k, p) /\ ~safe /\ s[k].fs = "stdio"
  <2>1. Direct(r, j, p) \in Goes(r, safe, j, p)
    BY <1>1 DEF Goes
  <2>2. /\ Direct(r, j, p).on = a.on
        /\ Direct(r, j, p).rank = 2 * j + 1 /\ a.rank = 2 * k + 1
    BY <1>1 DEF Direct, Try
  <2> QED BY <2>1, <2>2
<1>2. CASE a = Through(s, k, p) /\ IsParent(s[k].dest, p)
  <2>1. Through(r, j, p) \in Goes(r, safe, j, p)
    BY <1>2 DEF Goes
  <2>2. /\ Through(r, j, p).on = a.on
        /\ Through(r, j, p).rank = 2 * j /\ a.rank = 2 * k
    BY <1>2 DEF Through, Try
  <2> QED BY <2>1, <2>2
<1> QED
  BY <1>1, <1>2 DEF Goes

(****************************************************************************)
(* The first of a set of attempts with ranks of their own.                  *)
(****************************************************************************)
Ranked(S, n) == /\ \A a \in S : a.rank \in 0 .. n
                /\ \A a, b \in S : a.rank = b.rank => a = b

LEMMA AttemptsRanked ==
    ASSUME NEW n \in Nat, NEW s, IsTable(s, n), NEW safe, NEW p
    PROVE  Ranked(AttemptsIn(s, safe, p), 2 * Len(s) + 1) /\ 2 * Len(s) + 1 \in Nat
<1>1. Len(s) \in Nat /\ DOMAIN s = 1 .. Len(s)
  BY DEF IsTable
<1>2. ASSUME NEW a \in AttemptsIn(s, safe, p), NEW b \in AttemptsIn(s, safe, p)
      PROVE  a.rank \in 0 .. 2 * Len(s) + 1 /\ (a.rank = b.rank => a = b)
  <2>1. PICK j \in DOMAIN s : a \in Goes(s, safe, j, p)
    BY DEF AttemptsIn
  <2>2. PICK k \in DOMAIN s : b \in Goes(s, safe, k, p)
    BY DEF AttemptsIn
  <2>3. j \in Nat /\ k \in Nat /\ j <= Len(s) /\ k <= Len(s)
    BY <1>1
  <2>4. a.rank \in {2 * j, 2 * j + 1} /\ b.rank \in {2 * k, 2 * k + 1}
    BY <2>1, <2>2, <2>3, GoesOn
  <2>5. a.rank = b.rank => j = k
    BY <2>3, <2>4
  <2>6. a.rank = b.rank => a = b
    BY <2>1, <2>2, <2>3, <2>5, GoesOn
  <2> QED
    BY <1>1, <2>3, <2>4, <2>6
<1> QED
  BY <1>1, <1>2 DEF Ranked

LEMMA FirstIs ==
    ASSUME NEW n \in Nat, NEW S, Ranked(S, n),
           NEW b \in S, \A a \in S : a.rank <= b.rank
    PROVE  First(S) = b.on
<1> DEFINE c == CHOOSE c \in S : \A a \in S : c.rank >= a.rank
<1>1. \A a \in S : b.rank >= a.rank
  BY DEF Ranked
<1>2. c \in S /\ \A a \in S : c.rank >= a.rank
  BY <1>1
<1>3. First(S) = c.on
  BY DEF First
<1> HIDE DEF c
<1>4. c.rank = b.rank
  BY <1>1, <1>2 DEF Ranked
<1> QED
  BY <1>2, <1>3, <1>4 DEF Ranked

LEMMA FirstExists ==
    ASSUME NEW n \in Nat, NEW S, Ranked(S, n), S # {}
    PROVE  \E b \in S : \A a \in S : a.rank <= b.rank
<1> DEFINE R == {a.rank : a \in S}
<1>1. R \in SUBSET (0 .. n) /\ R # {}
  BY DEF Ranked
<1> HIDE DEF R
<1>2. PICK m \in R : \A k \in R : k <= m
  BY <1>1, Greatest
<1> QED
  BY <1>2 DEF R

-----------------------------------------------------------------------------
(* What a path is opened on, before and after a change of the table *)

Able(q, mode) == {a \in AttemptsIn(mounts, secure, InPath(q)) : Opens(a.on, mode)}

\* A call finds the first of what it is able to open.
Finding ==
    \A q, mode : InPath(q) # Empty =>
        /\ Opened(q, mode) = First(Able(q, mode))
        /\ OpenedOn(nextId - 1, q, mode) = First({a \in Able(q, mode) : a.on.mount = nextId - 1})

LEMMA OpenedIs == Finding
<1> SUFFICES ASSUME NEW q, NEW mode, InPath(q) # Empty
             PROVE  /\ Opened(q, mode) = First(Able(q, mode))
                    /\ OpenedOn(nextId - 1, q, mode) = First({a \in Able(q, mode) : a.on.mount = nextId - 1})
  BY DEF Finding
<1>1. Able(q, mode) = {a \in Tried(q) : Opens(a.on, mode)}
  BY AttemptsAre DEF Able, Tried
<1>2. Opened(q, mode) = First(Able(q, mode))
  BY <1>1 DEF Opened
<1>3. OpenedOn(nextId - 1, q, mode) = First({a \in Able(q, mode) : a.on.mount = nextId - 1})
  <2>1. {a \in Able(q, mode) : a.on.mount = nextId - 1}
          = {a \in Attempts(InPath(q)) : a.on.mount = nextId - 1 /\ Opens(a.on, mode)}
    BY AttemptsAre DEF Able
  <2> QED
    BY <2>1 DEF OpenedOn
<1> QED
  BY <1>2, <1>3

\* What is found is a mount of the table, whatever it is opened for.
Found ==
    /\ MaxId \notin Ids
    /\ \A q, mode :
        /\ Ranked(Able(q, mode), 2 * Len(mounts) + 1) /\ 2 * Len(mounts) + 1 \in Nat
        /\ \A a \in Able(q, mode) : /\ a.on.mount \in Ids
                                    /\ a.on.fs \in FileSystems
                                    /\ a.on.mount \in DOMAIN known[a.on.fs]
        /\ Able(q, mode) # {} => First(Able(q, mode)).mount \in Ids

LEMMA FoundInTable == VfsInv => Found
<1> SUFFICES ASSUME VfsInv PROVE Found
  OBVIOUS
<1>1. IsTable(mounts, nextId) /\ nextId \in Nat /\ nextId <= MaxId /\ MaxId \in Nat
  BY VfsAssumption DEF VfsInv, TableType
<1>2. DOMAIN mounts \subseteq Nat
  BY <1>1 DEF IsTable
<1>3. MaxId \notin Ids
  BY <1>1 DEF Ids, IsTable
<1>4. ASSUME NEW q, NEW mode
      PROVE  /\ Ranked(Able(q, mode), 2 * Len(mounts) + 1) /\ 2 * Len(mounts) + 1 \in Nat
             /\ \A a \in Able(q, mode) : /\ a.on.mount \in Ids
                                         /\ a.on.fs \in FileSystems
                                         /\ a.on.mount \in DOMAIN known[a.on.fs]
             /\ Able(q, mode) # {} => First(Able(q, mode)).mount \in Ids
  <2>1. Ranked(Able(q, mode), 2 * Len(mounts) + 1) /\ 2 * Len(mounts) + 1 \in Nat
    BY <1>1, AttemptsRanked DEF Able, Ranked
  <2>2. ASSUME NEW a \in Able(q, mode)
        PROVE  a.on.mount \in Ids /\ a.on.fs \in FileSystems /\ a.on.mount \in DOMAIN known[a.on.fs]
    <3>1. PICK k \in DOMAIN mounts : a \in Goes(mounts, secure, k, InPath(q))
      BY DEF Able, AttemptsIn
    <3>2. a.on.mount = mounts[k].id /\ a.on.fs = mounts[k].fs
      BY <1>2, <3>1, GoesOn
    <3>3. mounts[k].fs \in FileSystems
      BY <1>1 DEF IsTable
    <3> QED
      BY <3>2, <3>3 DEF Ids, VfsInv, MountsKnown
  <2>3. Able(q, mode) # {} => First(Able(q, mode)).mount \in Ids
    <3> SUFFICES ASSUME Able(q, mode) # {} PROVE First(Able(q, mode)).mount \in Ids
      OBVIOUS
    <3>1. PICK b \in Able(q, mode) : \A a \in Able(q, mode) : a.rank <= b.rank
      BY <2>1, FirstExists
    <3>2. First(Able(q, mode)) = b.on
      BY <2>1, <3>1, FirstIs
    <3> QED BY <2>2, <3>2
  <2> QED BY <2>1, <2>2, <2>3
<1> QED
  BY <1>3, <1>4 DEF Found

\* The paths that are asked for, and the file systems' answer for a mount that
\* stays, are the same after a change of the table.
LEMMA SameAnswer ==
    ASSUME NEW a, NEW mode, UNCHANGED store, ModeOf(a)' = ModeOf(a)
    PROVE  Opens(a, mode)' <=> Opens(a, mode)
BY DEF Opens, store

LEMMA MountOverlays ==
    ASSUME VfsInv, VfsInv', NEW t \in Threads, NEW m \in MountArgs, Mount(t, m), mounts' # mounts,
           NEW q, InPath(q) # Empty, NEW mode
    PROVE  /\ Len(mounts') > Len(mounts)
           /\ Opened(q, mode)' = IF OpenedOn(nextId - 1, q, mode)' = NotFound
                                 THEN Opened(q, mode) ELSE OpenedOn(nextId - 1, q, mode)'
<1> DEFINE src == IF secure THEN Resolve(m.src) ELSE m.src
           fs == Taker(src)
           new == [id |-> nextId, fs |-> fs, src |-> src, dest |-> Resolve(m.dest)]
           p == InPath(q)
           B == Able(q, mode)
           C == Able(q, mode)'
           T == {a \in C : a.on.mount = nextId}
<1>1. /\ fs # "none" /\ mounts' = Append(mounts, new)
      /\ known' = [known EXCEPT ![fs] = With(@, nextId, m.mode)]
      /\ nextId' = nextId + 1 /\ nextId < MaxId
      /\ UNCHANGED <<secure, store>>
  BY DEF Mount
<1>2. fs \in FileSystems /\ new.fs = fs /\ new.id = nextId
  BY <1>1 DEF Taker, FileSystems
<1> HIDE DEF fs, new
<1>3. IsTable(mounts, nextId) /\ nextId \in Nat /\ MaxId \in Nat
  BY VfsAssumption DEF VfsInv, TableType
<1>4. /\ Len(mounts) \in Nat /\ DOMAIN mounts = 1 .. Len(mounts)
      /\ DOMAIN mounts' = 1 .. Len(mounts) + 1 /\ Len(mounts') = Len(mounts) + 1
      /\ \A k \in DOMAIN mounts : mounts'[k] = mounts[k]
      /\ mounts'[Len(mounts) + 1].id = nextId
  BY <1>1, <1>2, <1>3, TableAdds
<1>5. InPath(q)' = p /\ InPath(q)' # Empty
  BY <1>1 DEF InPath
<1>6. /\ Opened(q, mode) = First(B) /\ Opened(q, mode)' = First(C)
      /\ OpenedOn(nextId - 1, q, mode)' = First(T)
  <2>1. Opened(q, mode) = First(B)
    BY OpenedIs DEF Finding
  <2>2. Finding'
    BY OpenedIs, PTL
  <2>3. /\ Opened(q, mode)' = First(C)
        /\ OpenedOn(nextId - 1, q, mode)' = First({a \in C : a.on.mount = nextId' - 1})
    BY <1>5, <2>2 DEF Finding
  <2>4. {a \in C : a.on.mount = nextId' - 1} = T
    BY <1>1, <1>3
  <2> QED
    BY <2>1, <2>3, <2>4
<1>7. Found /\ Found'
  <2>1. Found'
    BY FoundInTable, PTL
  <2> QED BY <2>1, FoundInTable
\* The old mounts are tried as before, the new one before them.
<1>8. /\ C = B \cup T
      /\ \A b \in B, c \in T : b.rank < c.rank
  <2>1. ASSUME NEW a
        PROVE  a \in AttemptsIn(mounts', secure', p) <=>
                  \/ a \in AttemptsIn(mounts, secure, p)
                  \/ a \in Goes(mounts', secure', Len(mounts) + 1, p)
    <3>1. \A k \in DOMAIN mounts : Goes(mounts', secure', k, p) = Goes(mounts, secure, k, p)
      BY <1>1, <1>4 DEF Goes, Direct, Through, Try
    <3>2. DOMAIN mounts' = DOMAIN mounts \cup {Len(mounts) + 1}
      BY <1>4
    <3> QED
      BY <3>1, <3>2 DEF AttemptsIn
  <2>2. ASSUME NEW a \in AttemptsIn(mounts, secure, p)
        PROVE  /\ a.on.mount # nextId /\ a.rank <= 2 * Len(mounts) + 1 /\ a.rank \in Nat
               /\ Opens(a.on, mode)' <=> Opens(a.on, mode)
    <3>1. PICK k \in DOMAIN mounts : a \in Goes(mounts, secure, k, p)
      BY DEF AttemptsIn
    <3>2. k \in Nat /\ k <= Len(mounts)
      BY <1>4
    <3>3. a.rank \in {2 * k, 2 * k + 1} /\ a.on.mount = mounts[k].id /\ a.on.fs = mounts[k].fs
      BY <3>1, <3>2, GoesOn
    <3>4. mounts[k].id < nextId /\ mounts[k].fs \in FileSystems /\ mounts[k].id \in Nat
      BY <1>3 DEF IsTable
    <3>5. mounts[k].id \in DOMAIN known[mounts[k].fs]
      BY <3>4 DEF VfsInv, MountsKnown
    <3>6. ModeOf(a.on)' = ModeOf(a.on)
      <4>1. known'[mounts[k].fs][mounts[k].id] = known[mounts[k].fs][mounts[k].id]
        <5>1. CASE mounts[k].fs = fs
          <6>1. known'[fs] = With(known[fs], nextId, m.mode)
            BY <1>1, <1>2 DEF VfsInv, TableType
          <6>2. known'[fs][mounts[k].id] = known[fs][mounts[k].id]
            BY <1>3, <3>4, <3>5, <5>1, <6>1 DEF With
          <6> QED BY <5>1, <6>2
        <5>2. CASE mounts[k].fs # fs
          BY <1>1, <3>4, <5>2 DEF VfsInv, TableType
        <5> QED BY <5>1, <5>2
      <4> QED BY <3>3, <4>1 DEF ModeOf
    <3>7. Opens(a.on, mode)' <=> Opens(a.on, mode)
      BY <1>1, <3>6, SameAnswer
    <3> QED
      BY <1>3, <1>4, <3>2, <3>3, <3>4, <3>7
  <2>3. ASSUME NEW a \in Goes(mounts', secure', Len(mounts) + 1, p)
        PROVE  a.on.mount = nextId /\ a.rank > 2 * Len(mounts) + 1 /\ a.rank \in Nat
    <3>1. Len(mounts) + 1 \in Nat
      BY <1>4
    <3>2. a.rank \in {2 * (Len(mounts) + 1), 2 * (Len(mounts) + 1) + 1} /\ a.on.mount = nextId
      BY <1>4, <3>1, GoesOn
    <3> QED BY <1>4, <3>2
  <2>4. \A a : a \in C <=> a \in AttemptsIn(mounts', secure', p) /\ Opens(a.on, mode)'
    BY <1>5 DEF Able
  <2>5. \A a : a \in B <=> a \in AttemptsIn(mounts, secure, p) /\ Opens(a.on, mode)
    BY DEF Able
  <2>6. \A a : a \in T <=> a \in C /\ a.on.mount = nextId
    OBVIOUS
  <2> HIDE DEF B, C, T
  <2>7. ASSUME NEW a PROVE a \in C <=> a \in B \cup T
    BY <2>1, <2>2, <2>3, <2>4, <2>5, <2>6
  <2>8. ASSUME NEW b \in B, NEW c \in T PROVE b.rank < c.rank
    <3>1. b.rank <= 2 * Len(mounts) + 1 /\ b.rank \in Nat
      BY <2>2, <2>5
    <3>2. c \in Goes(mounts', secure', Len(mounts) + 1, p)
      BY <2>1, <2>2, <2>4, <2>6
    <3>3. c.rank > 2 * Len(mounts) + 1 /\ c.rank \in Nat
      BY <2>3, <3>2
    <3> QED BY <1>4, <3>1, <3>3
  <2> QED BY <2>7, <2>8
<1>9. /\ Ranked(C, 2 * Len(mounts') + 1) /\ 2 * Len(mounts') + 1 \in Nat
      /\ Ranked(B, 2 * Len(mounts) + 1) /\ 2 * Len(mounts) + 1 \in Nat
  BY <1>7 DEF Found
<1>10. \A a \in T : a.on.mount = nextId
  OBVIOUS
<1> HIDE DEF B, C, T
<1>11. CASE T = {}
  <2>1. First(T) = NotFound /\ C = B
    BY <1>8, <1>11 DEF First
  <2> QED
    BY <1>4, <1>6, <2>1
<1>12. CASE T # {}
  <2>1. PICK c \in T : \A a \in T : a.rank <= c.rank
    <3>1. Ranked(T, 2 * Len(mounts') + 1)
      BY <1>8, <1>9 DEF Ranked
    <3> QED BY <1>9, <1>12, <3>1, FirstExists
  <2>2. First(T) = c.on
    <3>1. Ranked(T, 2 * Len(mounts') + 1)
      BY <1>8, <1>9 DEF Ranked
    <3> QED BY <1>9, <2>1, <3>1, FirstIs
  <2>3. First(C) = c.on
    <3>1. c \in C /\ \A a \in C : a.rank <= c.rank
      BY <1>8, <1>9, <2>1 DEF Ranked
    <3> QED BY <1>9, <3>1, FirstIs
  <2>4. c.on # NotFound
    <3>1. c.on.mount = nextId /\ NotFound.mount = MaxId
      BY <1>10 DEF NotFound
    <3> QED BY <1>1, <1>3, <3>1
  <2> QED
    BY <1>4, <1>6, <2>2, <2>3, <2>4
<1> QED
  BY <1>11, <1>12

(****************************************************************************)
(* With a mount gone the others keep their order, and their answers.        *)
(****************************************************************************)
LEMMA UnmountUncovers ==
    ASSUME VfsInv, VfsInv', NEW t \in Threads, NEW id \in 0 .. MaxId - 1, Unmount(t, id), mounts' # mounts,
           NEW q, InPath(q) # Empty, NEW mode,
           Opened(q, mode).mount \in Ids' \cup {MaxId}
    PROVE  Len(mounts') <= Len(mounts) /\ Opened(q, mode)' = Opened(q, mode)
<1> DEFINE p == InPath(q)
           B == Able(q, mode)
           C == Able(q, mode)'
<1>1. PICK k \in DOMAIN mounts :
         /\ mounts[k].id = id
         /\ mounts' = Cut(mounts, k)
         /\ known' = [known EXCEPT ![mounts[k].fs] = Without(@, {id})]
  BY DEF Unmount, Cut
<1>2. UNCHANGED <<nextId, secure, store>>
  BY DEF Unmount
<1>3. IsTable(mounts, nextId) /\ nextId \in Nat /\ mounts[k].fs \in FileSystems
  BY VfsAssumption DEF VfsInv, TableType, IsTable
<1>4. /\ Len(mounts) \in Nat /\ DOMAIN mounts = 1 .. Len(mounts)
      /\ DOMAIN mounts' = 1 .. Len(mounts) - 1 /\ Len(mounts') = Len(mounts) - 1
      /\ \A i \in DOMAIN mounts' : mounts'[i] = IF i < k THEN mounts[i] ELSE mounts[i + 1]
  BY <1>1, <1>3, TableCuts
<1>5. \A j \in DOMAIN mounts : mounts[j].id = id => j = k
  <2>1. \A i, j \in DOMAIN mounts : i < j => mounts[i].id < mounts[j].id
    BY DEF VfsInv, MountsKnown
  <2>2. \A j \in DOMAIN mounts : mounts[j].id \in Nat /\ j \in Nat
    BY <1>3, <1>4 DEF IsTable
  <2> QED BY <1>1, <2>1, <2>2
<1>6. /\ Opened(q, mode) = First(B) /\ Opened(q, mode)' = First(C)
  <2>1. Finding'
    BY OpenedIs, PTL
  <2>2. InPath(q)' = p
    BY <1>2 DEF InPath
  <2> QED
    BY <2>1, <2>2, OpenedIs DEF Finding
<1>7. Found /\ Found'
  <2>1. Found'
    BY FoundInTable, PTL
  <2> QED BY <2>1, FoundInTable
<1>8. ASSUME NEW j \in DOMAIN mounts, j # k, NEW a, a.mount = mounts[j].id, a.fs = mounts[j].fs
      PROVE  ModeOf(a)' = ModeOf(a)
  <2>1. mounts[j].id # id /\ mounts[j].fs \in FileSystems /\ mounts[j].id \in DOMAIN known[mounts[j].fs]
    BY <1>3, <1>5, <1>8 DEF IsTable, VfsInv, MountsKnown
  <2>2. CASE mounts[j].fs = mounts[k].fs
    <3>1. known'[mounts[k].fs] = Without(known[mounts[k].fs], {id})
      BY <1>1, <1>3 DEF VfsInv, TableType
    <3> QED BY <1>8, <2>1, <2>2, <3>1 DEF ModeOf, Without
  <2>3. CASE mounts[j].fs # mounts[k].fs
    BY <1>1, <1>8, <2>1, <2>3 DEF ModeOf, VfsInv, TableType
  <2> QED BY <2>2, <2>3
\* The rank that an attempt has in the new table, in the old one.
<1> DEFINE Up(r) == IF r < 2 * k THEN r ELSE r + 2
<1>9. ASSUME NEW a \in C PROVE \E b \in B : b.on = a.on /\ b.rank = Up(a.rank)
  <2>1. a \in AttemptsIn(mounts', secure, p) /\ Opens(a.on, mode)'
    BY <1>2 DEF Able, InPath
  <2>2. PICK i \in DOMAIN mounts' : a \in Goes(mounts', secure, i, p)
    BY <2>1 DEF AttemptsIn
  <2> DEFINE j == IF i < k THEN i ELSE i + 1
  <2>3. i \in Nat /\ j \in DOMAIN mounts /\ j \in Nat /\ mounts'[i] = mounts[j] /\ j # k /\ k \in Nat
    BY <1>4
  <2>4. a.rank \in {2 * i, 2 * i + 1} /\ a.on.mount = mounts[j].id /\ a.on.fs = mounts[j].fs
    BY <2>2, <2>3, GoesOn
  <2>5. PICK b \in Goes(mounts, secure, j, p) : b.on = a.on /\ b.rank - 2 * j = a.rank - 2 * i
    <3> HIDE DEF j
    <3> QED BY <2>2, <2>3, GoesAlike
  <2>6. b.rank = Up(a.rank)
    <3>1. b.rank \in {2 * j, 2 * j + 1}
      BY <2>3, GoesOn
    <3> QED BY <2>3, <2>4, <2>5, <3>1
  <2> HIDE DEF j
  <2>7. ModeOf(a.on)' = ModeOf(a.on)
    BY <2>3, <2>4, <1>8
  <2>8. b \in B
    BY <1>2, <2>1, <2>3, <2>5, <2>7, SameAnswer DEF Able, AttemptsIn
  <2> QED BY <2>5, <2>6, <2>8
<1>10. ASSUME NEW b \in B, b.on.mount # id PROVE \E a \in C : b.on = a.on /\ b.rank = Up(a.rank)
  <2>1. PICK j \in DOMAIN mounts : b \in Goes(mounts, secure, j, p)
    BY DEF Able, AttemptsIn
  <2> DEFINE i == IF j < k THEN j ELSE j - 1
  <2>2. j \in Nat /\ k \in Nat
    BY <1>4
  <2>3. b.rank \in {2 * j, 2 * j + 1} /\ b.on.mount = mounts[j].id /\ b.on.fs = mounts[j].fs
    BY <2>1, <2>2, GoesOn
  <2>4. j # k
    BY <1>1, <1>10, <2>3
  <2>5. i \in Nat /\ i \in DOMAIN mounts' /\ mounts'[i] = mounts[j]
    <3>1. CASE j < k
      BY <1>4, <2>2, <3>1
    <3>2. CASE j > k
      <4>1. j - 1 \in DOMAIN mounts' /\ ~ (j - 1 < k) /\ (j - 1) + 1 = j
        BY <1>4, <2>2, <3>2
      <4> QED BY <1>4, <3>2, <4>1
    <3> QED BY <2>2, <2>4, <3>1, <3>2
  <2>6. PICK a \in Goes(mounts', secure, i, p) : a.on = b.on /\ a.rank - 2 * i = b.rank - 2 * j
    <3> HIDE DEF i
    <3> QED BY <2>1, <2>2, <2>5, GoesAlike
  <2>7. b.rank = Up(a.rank)
    <3>1. a.rank \in {2 * i, 2 * i + 1}
      <4> HIDE DEF i
      <4> QED BY <2>5, GoesOn
    <3> QED BY <2>2, <2>3, <2>4, <2>6, <3>1
  <2> HIDE DEF i
  <2>8. ModeOf(b.on)' = ModeOf(b.on)
    BY <2>3, <2>4, <1>8
  <2>9. a \in C
    <3>1. Opens(a.on, mode)'
      BY <1>2, <2>6, <2>8, SameAnswer DEF Able
    <3>2. a \in AttemptsIn(mounts', secure, p)
      BY <2>5 DEF AttemptsIn
    <3> QED
      BY <1>2, <3>1, <3>2 DEF Able, InPath
  <2> QED BY <2>6, <2>7, <2>9
<1>11. /\ Ranked(C, 2 * Len(mounts') + 1) /\ 2 * Len(mounts') + 1 \in Nat
       /\ Ranked(B, 2 * Len(mounts) + 1) /\ 2 * Len(mounts) + 1 \in Nat
  BY <1>7 DEF Found
<1>12. id \notin Ids'
  <2>1. \A i \in DOMAIN mounts' : mounts'[i].id # id
    <3>1. ASSUME NEW i \in DOMAIN mounts' PROVE \E j \in DOMAIN mounts \ {k} : mounts'[i] = mounts[j]
      BY <1>4
    <3> QED BY <1>5, <3>1
  <2> QED BY <2>1 DEF Ids
<1>13. B # {} => First(B).mount \in Ids /\ First(B).mount # MaxId
  BY <1>7 DEF Found
<1> HIDE DEF B, C
<1>14. CASE B = {}
  <2>1. C = {}
    BY <1>9, <1>14
  <2> QED
    BY <1>4, <1>6, <1>14, <2>1 DEF First
<1>15. CASE B # {}
  <2>1. PICK b \in B : \A a \in B : a.rank <= b.rank
    BY <1>11, <1>15, FirstExists
  <2>2. First(B) = b.on
    BY <1>11, <2>1, FirstIs
  <2>3. b.on.mount # id
    BY <1>6, <1>12, <1>13, <1>15, <2>2
  <2>4. PICK c \in C : b.on = c.on /\ b.rank = Up(c.rank)
    BY <1>10, <2>3
  <2>5. ASSUME NEW a \in C PROVE a.rank <= c.rank
    <3>1. Up(a.rank) <= Up(c.rank)
      BY <1>9, <2>1, <2>4
    <3>2. a.rank \in Nat /\ c.rank \in Nat /\ k \in Nat
      BY <1>4, <1>11 DEF Ranked
    <3> QED BY <3>1, <3>2
  <2>6. First(C) = c.on
    BY <1>11, <2>5, FirstIs
  <2> QED
    BY <1>4, <1>6, <2>2, <2>4, <2>6
<1> QED
  BY <1>14, <1>15

LEMMA UnmountShortens ==
    ASSUME VfsInv, NEW t \in Threads, NEW id \in 0 .. MaxId - 1, Unmount(t, id)
    PROVE  Len(mounts') <= Len(mounts) /\ Len(mounts) \in Nat /\ Len(mounts') \in Nat
<1>1. PICK k \in DOMAIN mounts : mounts' = Cut(mounts, k) \/ mounts' = mounts
  BY DEF Unmount, Cut
<1>2. IsTable(mounts, nextId) /\ nextId \in Nat
  BY DEF VfsInv, TableType
<1>3. Len(mounts) \in Nat /\ DOMAIN mounts = 1 .. Len(mounts)
  BY <1>2 DEF IsTable
<1>4. Len(Cut(mounts, k)) = Len(mounts) - 1 /\ k \in 1 .. Len(mounts)
  BY <1>2, <1>3, TableCuts
<1> QED
  BY <1>1, <1>3, <1>4

LEMMA UnmountAllUncovers ==
    ASSUME VfsInv, VfsInv', NEW t \in Threads, UnmountAll(t),
           NEW q, InPath(q) # Empty, NEW mode,
           Opened(q, mode).mount \in Ids' \cup {MaxId}
    PROVE  ~ (Len(mounts') > Len(mounts)) /\ Opened(q, mode)' = Opened(q, mode)
<1>1. mounts' = <<>> /\ DOMAIN mounts' = {} /\ Len(mounts') = 0 /\ UNCHANGED secure
  BY DEF UnmountAll
<1>2. Len(mounts) \in Nat
  BY DEF VfsInv, TableType, IsTable
<1>3. InPath(q)' = InPath(q)
  BY <1>1 DEF InPath
<1>4. Able(q, mode)' = {}
  BY <1>1 DEF Able, AttemptsIn
<1>5. Opened(q, mode)' = NotFound
  <2>1. Finding'
    BY OpenedIs, PTL
  <2> QED BY <1>3, <1>4, <2>1 DEF Finding, First
<1>6. Ids' = {}
  BY <1>1 DEF Ids
<1>7. Opened(q, mode) = First(Able(q, mode))
  BY OpenedIs DEF Finding
<1>8. Able(q, mode) = {}
  BY <1>6, <1>7, FoundInTable DEF Found
<1>9. Opened(q, mode) = NotFound
  BY <1>7, <1>8 DEF First
<1> QED
  BY <1>1, <1>2, <1>5, <1>9

-----------------------------------------------------------------------------
(****************************************************************************)
(* The table of mounts, the handles, the calls and the listings are, in     *)
(* every reachable state, as the inductive invariant says.                  *)
(****************************************************************************)
THEOREM VfsInvariant == Spec => []VfsInv
  BY InitHolds, NextHolds, PTL DEF Spec

(****************************************************************************)
(* Types: ids are those given, handles and locks are of threads that can    *)
(* have them, and filters stand over an open stream.                        *)
(****************************************************************************)
THEOREM TypeCorrect == Spec => []TypeOK
<1>1. VfsInv => TypeOK
  <2> SUFFICES ASSUME VfsInv PROVE TypeOK
    OBVIOUS
  <2>1. /\ \A k \in DOMAIN mounts : mounts[k].fs \in FileSystems
        /\ nextId \in 0 .. MaxId /\ Ids \subseteq 0 .. nextId - 1
    BY DEF VfsInv, TableType, IsTable, Ids
  <2>2. secure \in BOOLEAN /\ aborted \in BOOLEAN /\ lock \in Threads \cup {NoThread}
    BY Zenon DEF VfsInv, FlagType
  <2>3. handles \subseteq 1 .. MaxHandles
    BY DEF VfsInv, CallType, Handle
  <2>4. ASSUME NEW t \in Threads
        PROVE  /\ file[t].handle \in handles \cup {NoHandle}
               /\ file[t].depth = 1 => file[t].handle # NoHandle
               /\ copy[t].stage \in {"idle", "out", "both", "last"}
               /\ list[t].stage \in {"idle", "on", "end"}
    <3>1. file[t].handle \in handles \cup {NoHandle}
      BY DEF VfsInv, Owned, HeldBy
    <3>2. file[t].depth = 1 => file[t].handle # NoHandle
      BY DEF VfsInv, Streams
    <3>3. copy[t].stage \in {"idle", "out", "both", "last"}
      BY CopyStates
    <3>4. list[t].stage \in {"idle", "on", "end"}
      BY DEF VfsInv, ListType, IsListing, Idle
    <3> QED BY <3>1, <3>2, <3>3, <3>4
  <2> QED
    BY <2>1, <2>2, <2>3, <2>4 DEF TypeOK
<1> QED
  BY <1>1, VfsInvariant, PTL

(****************************************************************************)
(* unmount never meets a mount that its file system does not know, and so   *)
(* never spins with the mutex; nor does an open (the CHECK of open).        *)
(****************************************************************************)
THEOREM MountsKnownHolds == Spec => []MountsKnown
  BY VfsInvariant, PTL DEF VfsInv

(****************************************************************************)
(* No call leaks a handle or closes another's, also a Copy that fails       *)
(* halfway and one whose mounts go while it runs.                           *)
(****************************************************************************)
THEOREM HandlesOwnedHolds == Spec => []HandlesOwned
<1>1. VfsInv => HandlesOwned
  <2> SUFFICES ASSUME VfsInv PROVE HandlesOwned
    OBVIOUS
  <2>1. NoHandle \notin handles
    BY DEF VfsInv, CallType, Handle, NoHandle
  <2>2. handles = (UNION {HeldBy(t) : t \in Threads}) \ {NoHandle}
    BY <2>1 DEF VfsInv, Owned
  <2> QED
    BY <2>2 DEF VfsInv, Owned, HandlesOwned
<1> QED
  BY <1>1, VfsInvariant, PTL

(****************************************************************************)
(* An iterator that takes no lock misses no mount that was there from its   *)
(* beginning to its end, whatever is mounted and unmounted in between, as   *)
(* long as the mount it stands on is not the one that goes.                 *)
(****************************************************************************)
THEOREM IteratorCoversHolds == Spec => []IteratorCovers
<1>1. VfsInv => IteratorCovers
  BY DEF VfsInv, Covering, Passes, Reached, IteratorCovers, Idle
<1> QED
  BY <1>1, VfsInvariant, PTL

(****************************************************************************)
(* Mounts are layers: what a mount or an unmount changes of what paths are  *)
(* opened on is the layer that comes or goes, and nothing else.             *)
(****************************************************************************)
THEOREM OverlayHolds == Spec => Overlay
<1>1. VfsInv /\ VfsInv' /\ [Next]_vars
        => [mounts' # mounts =>
              \A q \in {q \in Queries : InPath(q) # Empty}, mode \in {"in", "out"} :
                \E before \in {Opened(q, mode)}, after \in {Opened(q, mode)'},
                   top \in {OpenedOn(nextId - 1, q, mode)'} :
                  IF Len(mounts') > Len(mounts) THEN after = IF top = NotFound THEN before ELSE top
                  ELSE before.mount \in Ids' \cup {MaxId} => after = before]_vars
  <2> SUFFICES ASSUME VfsInv, VfsInv', [Next]_vars, mounts' # mounts,
                      NEW q \in Queries, InPath(q) # Empty, NEW mode \in {"in", "out"}
               PROVE  IF Len(mounts') > Len(mounts)
                      THEN Opened(q, mode)' = IF OpenedOn(nextId - 1, q, mode)' = NotFound
                                              THEN Opened(q, mode) ELSE OpenedOn(nextId - 1, q, mode)'
                      ELSE Opened(q, mode).mount \in Ids' \cup {MaxId} => Opened(q, mode)' = Opened(q, mode)
    OBVIOUS
  <2>1. PICK t \in Threads : \/ \E a \in MountArgs : Mount(t, a)
                             \/ \E id \in 0 .. MaxId - 1 : Unmount(t, id)
                             \/ UnmountAll(t)
    BY DEF Next, Mounting, Filing, Storing, Copy, Listing, SetSecurePathing, LockTwice, OpenFile, CloseFile,
           Filter, Remove, RmDir, CreateMem, CopyOpensIn, CopyOpensOut, CopyFails, CopyClosesIn,
           CopyClosesOut, List, Advance, Drop, table, vars
  <2>2. CASE \E a \in MountArgs : Mount(t, a)
    BY <2>2, MountOverlays
  <2>3. CASE \E id \in 0 .. MaxId - 1 : Unmount(t, id)
    <3>1. PICK id \in 0 .. MaxId - 1 : Unmount(t, id)
      BY <2>3
    <3>2. Len(mounts') <= Len(mounts) /\ Len(mounts) \in Nat /\ Len(mounts') \in Nat
      BY <3>1, UnmountShortens
    <3> QED
      BY <3>1, <3>2, UnmountUncovers
  <2>4. CASE UnmountAll(t)
    <3>1. mounts' = <<>> /\ Len(mounts) \in Nat
      BY <2>4 DEF UnmountAll, VfsInv, TableType, IsTable
    <3>2. ~ (Len(mounts') > Len(mounts))
      BY <3>1
    <3> QED
      BY <2>4, <3>2, UnmountAllUncovers
  <2> QED
    BY <2>1, <2>2, <2>3, <2>4
<1>2. VfsInv /\ [Next]_vars => VfsInv'
  BY NextHolds
<1> QED
  BY <1>1, <1>2, VfsInvariant, PTL DEF Spec, Overlay
=============================================================================
