---- MODULE Utilities_proofs ----
(***************************************************************************)
(* Three parts that do not touch each other: memory files, Path, AppStats.    *)
(*                                                                           *)
(* A handle of a memory file is a file of its own, for any handles, blob and *)
(* blocks.                                                                   *)
(*                                                                           *)
(* Path::resolve goes through the directories of a path from the last to the *)
(* first and counts what is still to remove; it ends where a walk from the   *)
(* left ends, for every path of names.  What is between: after the first i    *)
(* directories the walk is somewhere, and resolve has been through the       *)
(* others; what it has counted and kept, done to that place, is the same     *)
(* place for every i.                                                        *)
(*                                                                           *)
(* StatsExact is not inductive: a name that claims a slot must find it at 0,  *)
(* so the slots nobody has claimed hold 0 and the names without a slot count  *)
(* 0.                                                                        *)
(***************************************************************************)
EXTENDS AppStats, MemStream, PathResolution, SequenceTheorems, WellFoundedInduction, TLAPS

----------------------------------------------------------------------------
(* Memory files                                                              *)

MemSpec == MemInit /\ [][MemNext]_memVars

Byte == Characters \cup {"x"}

MemType ==
  /\ blob \in Seq(Byte) /\ Len(blob) = BlobSize /\ writable \in BOOLEAN
  /\ pos \in [MemHandles -> 0 .. BlobSize] /\ size \in [MemHandles -> 0 .. BlobSize]
  /\ opened \in SUBSET MemHandles
  /\ asFile \in [MemHandles -> Seq(Byte)] /\ faithful \in [MemHandles -> BOOLEAN]

(***************************************************************************)
(* A faithful handle has its file in the blob, from the first byte to its    *)
(* size, and is somewhere in it.                                             *)
(***************************************************************************)
IsFile(bytes, h, file) ==
  /\ Len(file) = size[h] /\ pos[h] <= size[h]
  /\ \A k \in 1 .. size[h] : file[k] = bytes[k]

AreFiles == \A h \in opened : faithful[h] => IsFile(blob, h, asFile[h])

MemInv == MemType /\ AreFiles /\ got.read = got.due
----------------------------------------------------------------------------
\* b is the stretch of n bytes of s that follows the first "from".
IsStretch(S, b, s, from, n) ==
  b \in Seq(S) /\ Len(b) = n /\ \A k \in 1 .. n : b[k] = s[from + k]

Agree(s, t, n) == \A k \in 1 .. n : s[k] = t[k]

\* o is s with block written over it.
IsRewritten(S, o, s, at, block) ==
  /\ o \in Seq(S) /\ Len(o) = Larger(Len(s), at + Len(block))
  /\ \A k \in 1 .. Larger(Len(s), at + Len(block)) :
        o[k] = IF k > at /\ k <= at + Len(block) THEN block[k - at] ELSE s[k]

LEMMA BytesAre ==
  ASSUME NEW S, NEW s \in Seq(S), NEW from \in Nat, NEW n \in Nat, from + n <= Len(s)
  PROVE  IsStretch(S, Bytes(s, from, n), s, from, n)
<1>1. \A k \in from + 1 .. from + n : s[k] \in S
  BY ElementOfSeq, LenProperties
<1>2. /\ Bytes(s, from, n) \in Seq(S)
      /\ Len(Bytes(s, from, n)) = IF from + 1 <= from + n THEN (from + n) - (from + 1) + 1 ELSE 0
      /\ \A k \in 1 .. (from + n) - (from + 1) + 1 : Bytes(s, from, n)[k] = s[(from + 1) + k - 1]
  <2>1. from + 1 \in Int /\ from + n \in Int
    OBVIOUS
  <2> QED
    BY <1>1, <2>1, SubSeqProperties DEF Bytes
<1>3. (from + n) - (from + 1) + 1 = n /\ (from + 1 <= from + n <=> n >= 1)
  OBVIOUS
<1>4. \A k \in 1 .. n : (from + 1) + k - 1 = from + k
  OBVIOUS
<1> QED
  BY <1>2, <1>3, <1>4 DEF IsStretch

\* Two sequences that agree so far have the same bytes in a stretch.
LEMMA BytesAgree ==
  ASSUME NEW S, NEW s \in Seq(S), NEW t \in Seq(S), NEW from \in Nat, NEW n \in Nat,
         from + n <= Len(s), from + n <= Len(t), Agree(s, t, from + n)
  PROVE  Bytes(s, from, n) = Bytes(t, from, n)
<1>1. IsStretch(S, Bytes(s, from, n), s, from, n) /\ IsStretch(S, Bytes(t, from, n), t, from, n)
  BY BytesAre
<1>2. ASSUME NEW k \in 1 .. n PROVE s[from + k] = t[from + k]
  <2>1. from + k \in 1 .. from + n
    OBVIOUS
  <2> QED
    BY <2>1 DEF Agree
<1> QED
  BY <1>1, <1>2, SeqEqual DEF IsStretch

LEMMA OverwrittenIs ==
  ASSUME NEW S, NEW s \in Seq(S), NEW at \in 0 .. Len(s), NEW block \in Seq(S)
  PROVE  IsRewritten(S, Overwritten(s, at, block), s, at, block)
<1> DEFINE n == Larger(Len(s), at + Len(block))
<1>1. Len(s) \in Nat /\ Len(block) \in Nat /\ n \in Nat
  BY LenProperties DEF Larger
<1>2. ASSUME NEW k \in 1 .. n
      PROVE  (IF k > at /\ k <= at + Len(block) THEN block[k - at] ELSE s[k]) \in S
  <2>1. CASE k > at /\ k <= at + Len(block)
    BY <1>1, <2>1, ElementOfSeq
  <2>2. CASE ~(k > at /\ k <= at + Len(block))
    BY <1>1, <2>2, ElementOfSeq DEF Larger
  <2> QED
    BY <2>1, <2>2
<1>3. Overwritten(s, at, block) \in [1 .. n -> S]
  BY <1>2 DEF Overwritten
<1>4. Overwritten(s, at, block) \in Seq(S) /\ Len(Overwritten(s, at, block)) = n
  <2> HIDE DEF n
  <2> QED
    BY <1>1, <1>3
<1> QED
  BY <1>4 DEF Overwritten, IsRewritten

----------------------------------------------------------------------------
LEMMA BlocksAre ==
  /\ BlobSize \in Nat
  /\ Blocks \subseteq Seq(Byte) /\ Characters \subseteq Byte
<1>1. Characters \subseteq Byte
  BY DEF Byte
<1> QED
  BY <1>1, BlobAssumption, SeqMonotonic

\* The smaller and the larger of two numbers.
LEMMA Bounds ==
  ASSUME NEW a \in Int, NEW b \in Int
  PROVE  /\ Smaller(a, b) \in {a, b} /\ Smaller(a, b) <= a /\ Smaller(a, b) <= b
         /\ Larger(a, b) \in {a, b} /\ Larger(a, b) >= a /\ Larger(a, b) >= b
  BY DEF Smaller, Larger

LEMMA MemInitHolds == MemInit => MemInv
<1> SUFFICES ASSUME MemInit PROVE MemInv
  OBVIOUS
<1>1. blob \in [1 .. BlobSize -> Byte]
  BY DEF MemInit, Untouched, Byte
<1>2. blob \in Seq(Byte) /\ Len(blob) = BlobSize
  BY <1>1, BlocksAre
<1> QED
  BY <1>2, BlocksAre, EmptySeq DEF MemInit, MemInv, MemType, AreFiles, Nothing

LEMMA OpenMemHolds ==
  ASSUME MemInv, NEW h \in MemHandles, OpenMem(h)
  PROVE  MemInv'
<1>1. MemType'
  BY BlocksAre, EmptySeq DEF MemInv, MemType, OpenMem
<1>2. IsFile(blob, h, asFile[h])'
  <2>1. pos'[h] = 0
    BY DEF MemInv, MemType, OpenMem
  <2>2. size'[h] = IF writable THEN 0 ELSE BlobSize
    BY DEF MemInv, MemType, OpenMem
  <2>3. asFile'[h] = IF writable THEN <<>> ELSE blob
    BY DEF MemInv, MemType, OpenMem
  <2>4. blob' = blob /\ Len(blob) = BlobSize
    BY DEF MemInv, MemType, OpenMem
  <2> QED
    BY <2>1, <2>2, <2>3, <2>4, BlocksAre DEF IsFile
<1>3. ASSUME NEW g \in opened, faithful[g] PROVE IsFile(blob, g, asFile[g])'
  <2>1. g \in MemHandles /\ g # h /\ IsFile(blob, g, asFile[g])
    BY <1>3 DEF MemInv, MemType, AreFiles, OpenMem
  <2> QED
    BY <2>1 DEF MemInv, MemType, OpenMem, IsFile
<1>4. AreFiles'
  BY <1>2, <1>3 DEF MemInv, MemType, AreFiles, OpenMem
<1>5. got'.read = got'.due
  BY DEF OpenMem, Nothing
<1> QED
  BY <1>1, <1>4, <1>5, Zenon DEF MemInv

LEMMA CloseMemHolds ==
  ASSUME MemInv, NEW h \in MemHandles, CloseMem(h)
  PROVE  MemInv'
  BY DEF MemInv, MemType, AreFiles, IsFile, CloseMem, Nothing

\* A handle moves, and remains in its file if it is faithful still.
LEMMA Moving ==
  ASSUME MemInv, NEW h \in MemHandles, NEW p \in 0 .. BlobSize,
         pos' = [pos EXCEPT ![h] = p],
         faithful' \in [MemHandles -> BOOLEAN],
         \A g \in MemHandles : faithful'[g] => faithful[g],
         faithful'[h] => p <= size[h],
         UNCHANGED <<blob, writable, size, opened, asFile>>
  PROVE  MemType' /\ AreFiles'
<1>1. MemType'
  BY DEF MemInv, MemType
<1>2. ASSUME NEW g \in opened, faithful'[g] PROVE IsFile(blob, g, asFile[g])'
  <2>1. g \in MemHandles /\ IsFile(blob, g, asFile[g])
    BY <1>2 DEF MemInv, MemType, AreFiles
  <2>2. pos'[g] = IF g = h THEN p ELSE pos[g]
    BY <2>1 DEF MemInv, MemType
  <2> QED
    BY <1>2, <2>1, <2>2 DEF IsFile
<1> QED
  BY <1>1, <1>2 DEF AreFiles

LEMMA ReadBlockHolds ==
  ASSUME MemInv, NEW h \in MemHandles, NEW n \in 1 .. BlobSize, ReadBlock(h, n)
  PROVE  MemInv'
<1> DEFINE actual == Smaller(n, size[h] - pos[h])
<1>1. /\ pos[h] \in 0 .. BlobSize /\ size[h] \in 0 .. BlobSize /\ BlobSize \in Nat
      /\ blob \in Seq(Byte) /\ Len(blob) = BlobSize /\ asFile[h] \in Seq(Byte)
      /\ faithful \in [MemHandles -> BOOLEAN] /\ h \in opened
  BY BlocksAre DEF MemInv, MemType, ReadBlock
<1>2. pos[h] + actual \in 0 .. BlobSize /\ pos[h] + actual <= size[h] /\ actual \in Int
  BY <1>1 DEF Smaller
<1>3. MemType' /\ AreFiles'
  <2>1. pos' = [pos EXCEPT ![h] = pos[h] + actual]
    BY DEF ReadBlock
  <2> HIDE DEF actual
  <2> QED
    BY <1>1, <1>2, <2>1, Moving DEF ReadBlock
<1>4. ASSUME faithful[h]
      PROVE  Bytes(blob, pos[h], actual) = Bytes(asFile[h], pos[h], Smaller(n, Len(asFile[h]) - pos[h]))
  <2>1. IsFile(blob, h, asFile[h])
    BY <1>1, <1>4 DEF MemInv, AreFiles
  <2>2. Smaller(n, Len(asFile[h]) - pos[h]) = actual /\ actual \in Nat
    BY <1>1, <2>1 DEF IsFile, Smaller
  <2>3. /\ pos[h] + actual <= Len(blob) /\ pos[h] + actual <= Len(asFile[h])
        /\ Agree(blob, asFile[h], pos[h] + actual)
    BY <1>1, <1>2, <2>1 DEF IsFile, Agree
  <2>4. pos[h] \in Nat
    BY <1>1
  <2> HIDE DEF actual
  <2>5. Bytes(blob, pos[h], actual) = Bytes(asFile[h], pos[h], actual)
    BY <1>1, <2>2, <2>3, <2>4, BytesAgree
  <2> QED
    BY <2>2, <2>5
<1>5. (got.read = got.due)'
  BY <1>1, <1>4 DEF ReadBlock, Nothing
<1> QED
  BY <1>3, <1>5 DEF MemInv

LEMMA SeekHolds ==
  ASSUME MemInv, NEW h \in MemHandles, NEW way \in {"beg", "cur", "end"}, NEW off \in -1 .. 1,
         Seek(h, way, off)
  PROVE  MemInv'
<1> DEFINE from == CASE way = "beg" -> 0 [] way = "cur" -> pos[h] [] way = "end" -> size[h]
           p == Larger(0, Smaller(from + off, size[h]))
<1>1. pos[h] \in 0 .. BlobSize /\ size[h] \in 0 .. BlobSize /\ BlobSize \in Nat
  BY BlocksAre DEF MemInv, MemType
<1>2. from \in Int
  BY <1>1
<1>3. p \in 0 .. BlobSize /\ p <= size[h]
  <2> HIDE DEF from
  <2> QED
    BY <1>1, <1>2 DEF Smaller, Larger
<1>4. pos' = [pos EXCEPT ![h] = p]
  BY DEF Seek
<1>5. MemType' /\ AreFiles'
  <2> HIDE DEF p
  <2>1. faithful' = faithful /\ faithful \in [MemHandles -> BOOLEAN]
    BY DEF Seek, MemInv, MemType
  <2> QED
    BY <1>3, <1>4, <2>1, Moving DEF Seek
<1> QED
  BY <1>5 DEF MemInv, Seek, Nothing

LEMMA GetCharHolds ==
  ASSUME MemInv, NEW h \in MemHandles, GetChar(h)
  PROVE  MemInv'
<1>1. /\ pos[h] \in 0 .. BlobSize /\ size[h] \in 0 .. BlobSize /\ BlobSize \in Nat
      /\ blob \in Seq(Byte) /\ Len(blob) = BlobSize /\ asFile[h] \in Seq(Byte)
      /\ faithful \in [MemHandles -> BOOLEAN] /\ h \in opened /\ pos[h] < BlobSize
  BY BlocksAre DEF MemInv, MemType, GetChar
<1>2. /\ pos[h] + 1 \in 0 .. BlobSize /\ pos' = [pos EXCEPT ![h] = pos[h] + 1]
      /\ faithful' = [faithful EXCEPT ![h] = faithful[h] /\ pos[h] < size[h]]
  BY <1>1 DEF GetChar
<1>3. /\ faithful' \in [MemHandles -> BOOLEAN]
      /\ \A g \in MemHandles : faithful'[g] => faithful[g]
      /\ faithful'[h] => faithful[h] /\ pos[h] < size[h]
  BY <1>1, <1>2
<1>4. MemType' /\ AreFiles'
  <2>1. faithful'[h] => pos[h] + 1 <= size[h]
    BY <1>1, <1>3
  <2>2. UNCHANGED <<blob, writable, size, opened, asFile>>
    BY DEF GetChar
  <2> QED
    BY <1>2, <1>3, <2>1, <2>2, Moving
<1>5. ASSUME faithful'[h] PROVE Bytes(blob, pos[h], 1) = Bytes(asFile[h], pos[h], 1)
  <2>1. IsFile(blob, h, asFile[h]) /\ pos[h] < size[h]
    BY <1>1, <1>3, <1>5 DEF MemInv, AreFiles
  <2>2. /\ pos[h] + 1 <= Len(blob) /\ pos[h] + 1 <= Len(asFile[h])
        /\ Agree(blob, asFile[h], pos[h] + 1)
    BY <1>1, <2>1 DEF IsFile, Agree
  <2>3. pos[h] \in Nat /\ 1 \in Nat
    BY <1>1
  <2> QED
    BY <1>1, <2>2, <2>3, BytesAgree
<1>6. (got.read = got.due)'
  BY <1>5 DEF GetChar, Nothing
<1> QED
  BY <1>4, <1>6 DEF MemInv

LEMMA PutCharHolds ==
  ASSUME MemInv, NEW h \in MemHandles, NEW c \in Characters, PutChar(h, c)
  PROVE  MemInv'
<1>1. blob \in Seq(Byte) /\ Len(blob) = BlobSize /\ pos[h] \in 0 .. BlobSize /\ BlobSize \in Nat
  BY BlocksAre DEF MemInv, MemType
<1>2. blob' \in Seq(Byte) /\ Len(blob') = BlobSize
  <2>1. CASE pos[h] < BlobSize
    <3>1. pos[h] + 1 \in 1 .. Len(blob) /\ c \in Byte
      BY <1>1, <2>1, BlocksAre
    <3> QED
      BY <1>1, <2>1, <3>1, ExceptSeq DEF PutChar
  <2>2. CASE ~(pos[h] < BlobSize)
    BY <1>1, <2>2 DEF PutChar
  <2> QED
    BY <2>1, <2>2
<1> QED
  BY <1>2 DEF MemInv, MemType, AreFiles, PutChar, Nothing

LEMMA WriteBlockHolds ==
  ASSUME MemInv, NEW h \in MemHandles, NEW block \in Blocks, WriteBlock(h, block)
  PROVE  MemInv'
<1> DEFINE actual == Smaller(Len(block), BlobSize - pos[h])
           part == Bytes(block, 0, actual)
<1>1. /\ pos[h] \in 0 .. BlobSize /\ size[h] \in 0 .. BlobSize /\ BlobSize \in Nat
      /\ blob \in Seq(Byte) /\ Len(blob) = BlobSize /\ asFile[h] \in Seq(Byte)
      /\ block \in Seq(Byte) /\ Len(block) \in Nat /\ h \in opened
      /\ faithful \in [MemHandles -> BOOLEAN]
  BY BlocksAre, LenProperties DEF MemInv, MemType, WriteBlock
<1>2. actual \in Nat /\ actual <= Len(block) /\ pos[h] + actual \in 0 .. BlobSize
  BY <1>1 DEF Smaller
<1>3. part \in Seq(Byte) /\ Len(part) = actual
  <2> HIDE DEF actual
  <2>1. 0 \in Nat /\ 0 + actual <= Len(block)
    BY <1>1, <1>2
  <2> QED
    BY <1>1, <1>2, <2>1, BytesAre DEF IsStretch
<1>4. /\ blob' = Overwritten(blob, pos[h], part)
      /\ pos' = [pos EXCEPT ![h] = pos[h] + actual]
      /\ size' = [size EXCEPT ![h] = Larger(size[h], pos[h] + actual)]
      /\ asFile' = IF faithful[h] THEN [asFile EXCEPT ![h] = Overwritten(asFile[h], pos[h], part)]
                   ELSE asFile
      /\ faithful' = [g \in MemHandles |-> faithful[g] /\ g = h] /\ got' = Nothing
      /\ UNCHANGED <<opened, writable>>
  BY DEF WriteBlock, NewSize
<1> HIDE DEF part
<1> HIDE DEF actual
<1>5. Larger(Len(blob), pos[h] + actual) = BlobSize
  BY <1>1, <1>2 DEF Larger
<1>6. /\ blob' \in Seq(Byte) /\ Len(blob') = BlobSize
      /\ \A k \in 1 .. BlobSize :
            blob'[k] = IF k > pos[h] /\ k <= pos[h] + actual THEN part[k - pos[h]] ELSE blob[k]
  <2>1. pos[h] \in 0 .. Len(blob)
    BY <1>1
  <2>2. IsRewritten(Byte, blob', blob, pos[h], part)
    BY <1>1, <1>3, <1>4, <2>1, OverwrittenIs
  <2> QED
    BY <1>3, <1>5, <2>2 DEF IsRewritten
<1>7. Larger(size[h], pos[h] + actual) \in 0 .. BlobSize
  BY <1>1, <1>2 DEF Larger
<1>8. ASSUME faithful[h]
      PROVE  /\ Overwritten(asFile[h], pos[h], part) \in Seq(Byte)
             /\ Len(Overwritten(asFile[h], pos[h], part)) = Larger(size[h], pos[h] + actual)
             /\ pos[h] + actual <= Larger(size[h], pos[h] + actual)
             /\ \A k \in 1 .. Larger(size[h], pos[h] + actual) :
                   Overwritten(asFile[h], pos[h], part)[k] = blob'[k]
  <2>1. IsFile(blob, h, asFile[h])
    BY <1>1, <1>8 DEF MemInv, AreFiles
  <2>2. Len(asFile[h]) = size[h] /\ pos[h] \in 0 .. Len(asFile[h])
    BY <1>1, <2>1 DEF IsFile
  <2>3. /\ Overwritten(asFile[h], pos[h], part) \in Seq(Byte)
        /\ Len(Overwritten(asFile[h], pos[h], part)) = Larger(size[h], pos[h] + actual)
        /\ \A k \in 1 .. Larger(size[h], pos[h] + actual) :
              Overwritten(asFile[h], pos[h], part)[k] =
                IF k > pos[h] /\ k <= pos[h] + actual THEN part[k - pos[h]] ELSE asFile[h][k]
    <3>1. IsRewritten(Byte, Overwritten(asFile[h], pos[h], part), asFile[h], pos[h], part)
      BY <1>1, <1>3, <2>2, OverwrittenIs
    <3> QED
      BY <1>3, <2>2, <3>1 DEF IsRewritten
  <2>4. ASSUME NEW k \in 1 .. Larger(size[h], pos[h] + actual)
        PROVE  Overwritten(asFile[h], pos[h], part)[k] = blob'[k]
    <3>1. k \in 1 .. BlobSize
      BY <1>1, <1>7
    <3>2. ~(k > pos[h] /\ k <= pos[h] + actual) => k \in 1 .. size[h]
      BY <1>1, <1>2, <2>1 DEF IsFile, Larger
    <3> QED
      BY <1>6, <2>1, <2>3, <3>1, <3>2 DEF IsFile
  <2> QED
    BY <1>1, <1>2, <2>3, <2>4 DEF Larger
<1>9. MemType'
  BY <1>2, <1>4, <1>6, <1>7, <1>8 DEF MemInv, MemType
<1>10. AreFiles'
  <2>1. ASSUME NEW g \in opened, faithful'[g] PROVE IsFile(blob, g, asFile[g])'
    <3>1. g = h /\ faithful[h] /\ h \in MemHandles
      BY <1>4, <2>1 DEF MemInv, MemType
    <3>2. /\ size'[h] = Larger(size[h], pos[h] + actual) /\ pos'[h] = pos[h] + actual
          /\ asFile'[h] = Overwritten(asFile[h], pos[h], part)
      BY <1>4, <3>1 DEF MemInv, MemType
    <3> QED
      BY <1>8, <3>1, <3>2 DEF IsFile
  <2> QED
    BY <1>4, <2>1 DEF AreFiles
<1> QED
  BY <1>4, <1>9, <1>10 DEF MemInv, Nothing

----------------------------------------------------------------------------
\* The handles of a memory file keep their types, read what they are due, and
\* those that nothing has disturbed are files: after any calls on any handles.
THEOREM MemInvariant == MemSpec => []MemInv
<1>1. MemInv /\ [MemNext]_memVars => MemInv'
  <2> SUFFICES ASSUME MemInv, [MemNext]_memVars PROVE MemInv'
    OBVIOUS
  <2>1. CASE MemNext
    BY <2>1, OpenMemHolds, CloseMemHolds, GetCharHolds, WriteBlockHolds, ReadBlockHolds, SeekHolds,
       PutCharHolds
    DEF MemNext
  <2>2. CASE UNCHANGED memVars
    BY <2>2 DEF memVars, MemInv, MemType, AreFiles, IsFile
  <2> QED
    BY <2>1, <2>2
<1> QED
  BY <1>1, MemInitHolds, PTL DEF MemSpec

(***************************************************************************)
(* A handle that no other has disturbed reads at its place what it has       *)
(* written, the blob holds its file, and no position leaves the blob: for    *)
(* xsputn, xsgetn, seekoff, overflow and uflow in any order.                 *)
(***************************************************************************)
THEOREM BlockIOIsAFileHolds == MemSpec => []BlockIOIsAFile
<1>1. MemInv => BlockIOIsAFile
  <2> SUFFICES ASSUME MemInv, NEW h \in opened
               PROVE  /\ pos[h] \in 0 .. BlobSize
                      /\ faithful[h] => Bytes(blob, 0, size[h]) = asFile[h] /\ pos[h] <= size[h]
    BY DEF MemInv, BlockIOIsAFile
  <2>1. /\ pos[h] \in 0 .. BlobSize /\ size[h] \in 0 .. BlobSize /\ BlobSize \in Nat
        /\ blob \in Seq(Byte) /\ Len(blob) = BlobSize /\ asFile[h] \in Seq(Byte)
    BY BlocksAre DEF MemInv, MemType
  <2>2. ASSUME faithful[h] PROVE Bytes(blob, 0, size[h]) = asFile[h] /\ pos[h] <= size[h]
    <3>1. IsFile(blob, h, asFile[h])
      BY <2>2 DEF MemInv, AreFiles
    <3>2. IsStretch(Byte, Bytes(blob, 0, size[h]), blob, 0, size[h])
      <4>1. size[h] \in Nat /\ 0 \in Nat /\ 0 + size[h] <= Len(blob)
        BY <2>1
      <4> QED
        BY <2>1, <4>1, BytesAre
    <3>3. Bytes(blob, 0, size[h]) = asFile[h]
      <4>1. \A k \in 1 .. size[h] : Bytes(blob, 0, size[h])[k] = asFile[h][k]
        BY <3>1, <3>2 DEF IsFile, IsStretch
      <4> QED
        BY <2>1, <3>1, <3>2, <4>1, SeqEqual DEF IsFile, IsStretch
    <3> QED
      BY <3>1, <3>3 DEF IsFile
  <2> QED
    BY <2>1, <2>2
<1> QED
  BY <1>1, MemInvariant, PTL

----------------------------------------------------------------------------
(* Paths                                                                     *)

Sofar(Name) == [kept : Seq(Name), skip : Nat]
Places(Name) == Seq(Name) \cup {Outside}

Through(at, sofar) ==
  IF at = Outside \/ sofar.skip > Len(at) THEN Outside
  ELSE SubSeq(at, 1, Len(at) - sofar.skip) \o sofar.kept

IsLoop(f, dirs, m) ==
  f = [i \in m .. Len(dirs) + 1 |->
         IF i > Len(dirs) THEN [kept |-> <<>>, skip |-> 0] ELSE Passed(dirs[i], f[i + 1])]

IsWalk(f, dirs, n) ==
  f = [i \in 0 .. n |-> IF i = 0 THEN <<>> ELSE Step(dirs[i], f[i - 1])]

----------------------------------------------------------------------------
\* A set of natural numbers has a least element.
LEMMA Least ==
  ASSUME NEW S \in SUBSET Nat, S # {}
  PROVE  \E k \in S : \A j \in S : k <= j
<1> DEFINE R == {p \in Nat \X Nat : p[1] < p[2]}
<1>1. R = OpToRel(<, Nat)
  BY DEF OpToRel
<1>2. IsWellFoundedOn(R, Nat)
  BY <1>1, NatLessThanWellFounded
<1>3. PICK k \in S : \A j \in S : <<j, k>> \notin R
  <2> HIDE DEF R
  <2> QED BY <1>2, WFMin
<1>4. \A j \in S : ~(j < k)
  BY <1>3
<1> QED BY <1>3, <1>4

\* The first n of a sequence.
Cut(s, n) == SubSeq(s, 1, n)

LEMMA Cutting ==
  ASSUME NEW S, NEW s \in Seq(S), NEW n \in 0 .. Len(s)
  PROVE  /\ Cut(s, n) \in Seq(S) /\ Len(Cut(s, n)) = n
         /\ \A k \in 1 .. n : Cut(s, n)[k] = s[k]
<1>1. \A k \in 1 .. n : s[k] \in S
  BY ElementOfSeq, LenProperties
<1> QED
  BY <1>1, SubSeqProperties DEF Cut

LEMMA CutTwice ==
  ASSUME NEW S, NEW s \in Seq(S), NEW n \in 0 .. Len(s), NEW k \in 0 .. n
  PROVE  Cut(Cut(s, n), k) = Cut(s, k)
<1>1. Len(s) \in Nat /\ k \in 0 .. Len(s)
  BY LenProperties
<1>2. Cut(s, n) \in Seq(S) /\ Len(Cut(s, n)) = n /\ \A i \in 1 .. n : Cut(s, n)[i] = s[i]
  BY Cutting
<1>3. /\ Cut(Cut(s, n), k) \in Seq(S) /\ Len(Cut(Cut(s, n), k)) = k
      /\ \A i \in 1 .. k : Cut(Cut(s, n), k)[i] = Cut(s, n)[i]
  BY <1>2, Cutting
<1>4. Cut(s, k) \in Seq(S) /\ Len(Cut(s, k)) = k /\ \A i \in 1 .. k : Cut(s, k)[i] = s[i]
  BY <1>1, Cutting
<1> QED
  BY <1>1, <1>2, <1>3, <1>4, SeqEqual

LEMMA CutAppend ==
  ASSUME NEW S, NEW s \in Seq(S), NEW e \in S, NEW k \in 0 .. Len(s)
  PROVE  Cut(Append(s, e), k) = Cut(s, k)
<1>1. Len(s) \in Nat
  BY LenProperties
<1>2. /\ Append(s, e) \in Seq(S) /\ Len(Append(s, e)) = Len(s) + 1
      /\ \A i \in 1 .. Len(s) : Append(s, e)[i] = s[i]
  BY AppendProperties
<1>3. k \in 0 .. Len(Append(s, e))
  BY <1>1, <1>2
<1>4. /\ Cut(Append(s, e), k) \in Seq(S) /\ Len(Cut(Append(s, e), k)) = k
      /\ \A i \in 1 .. k : Cut(Append(s, e), k)[i] = Append(s, e)[i]
  BY <1>2, <1>3, Cutting
<1>5. Cut(s, k) \in Seq(S) /\ Len(Cut(s, k)) = k /\ \A i \in 1 .. k : Cut(s, k)[i] = s[i]
  BY Cutting
<1> QED
  BY <1>1, <1>2, <1>4, <1>5, SeqEqual

LEMMA AppendThen ==
  ASSUME NEW S, NEW s \in Seq(S), NEW e \in S, NEW t \in Seq(S)
  PROVE  Append(s, e) \o t = s \o (<<e>> \o t)
<1>1. PICK one : one = <<e>>
  OBVIOUS
<1>2. Append(s, e) = s \o one /\ one \in Seq(S)
  BY <1>1, AppendIsConcat
<1>3. (s \o one) \o t = s \o (one \o t)
  BY <1>2, ConcatAssociative
<1> QED
  BY <1>1, <1>2, <1>3

----------------------------------------------------------------------------
\* One directory: to walk it and then do what resolve has counted behind it is
\* to do what resolve has counted with it.
LEMMA OneStep ==
  ASSUME NEW Name, NoName \notin Name, NEW name \in Name, NEW at \in Places(Name),
         NEW sofar \in Sofar(Name)
  PROVE  /\ Step(name, at) \in Places(Name) /\ Passed(name, sofar) \in Sofar(Name)
         /\ Through(Step(name, at), sofar) = Through(at, Passed(name, sofar))
<1>1. Outside \notin Seq(Name)
  <2> SUFFICES ASSUME Outside \in Seq(Name) PROVE FALSE
    OBVIOUS
  <2>1. 1 \in 1 .. Len(Outside) /\ Outside[1] = NoName
    BY DEF Outside
  <2> QED
    BY <2>1, ElementOfSeq
<1>2. sofar.kept \in Seq(Name) /\ sofar.skip \in Nat
  BY DEF Sofar
<1>3. Passed(name, sofar) \in Sofar(Name)
  <2>1. PICK longer : longer = <<name>> \o sofar.kept
    OBVIOUS
  <2>2. longer \in Seq(Name)
    <3>1. <<name>> \in Seq(Name)
      OBVIOUS
    <3> QED
      BY <1>2, <2>1, <3>1, ConcatProperties
  <2>3. sofar.skip + 1 \in Nat /\ (sofar.skip > 0 => sofar.skip - 1 \in Nat)
    BY <1>2
  <2>4. sofar = [kept |-> sofar.kept, skip |-> sofar.skip]
    BY DEF Sofar
  <2>5. \/ Passed(name, sofar) = sofar
        \/ Passed(name, sofar) = [kept |-> sofar.kept, skip |-> sofar.skip + 1]
        \/ sofar.skip > 0 /\ Passed(name, sofar) = [kept |-> sofar.kept, skip |-> sofar.skip - 1]
        \/ Passed(name, sofar) = [kept |-> longer, skip |-> sofar.skip]
    BY <2>1, <2>4 DEF Passed
  <2> QED
    BY <1>2, <2>2, <2>3, <2>5 DEF Sofar
<1>4. CASE name = "."
  BY <1>3, <1>4 DEF Step, Passed
<1>5. CASE at = Outside /\ name # "."
  BY <1>3, <1>5 DEF Step, Through, Places
<1>6. CASE at \in Seq(Name) /\ name = ".."
  <2>1. /\ at # Outside /\ Len(at) \in Nat /\ Passed(name, sofar).skip = sofar.skip + 1
        /\ Passed(name, sofar).kept = sofar.kept
    BY <1>1, <1>2, <1>6, LenProperties DEF Passed, Sofar
  <2>2. CASE at = <<>>
    BY <1>2, <1>3, <1>6, <2>1, <2>2 DEF Step, Through, Places
  <2>3. CASE at # <<>>
    <3>1. Len(at) # 0 /\ Len(at) - 1 \in 0 .. Len(at)
      BY <1>6, <2>1, <2>3, EmptySeq
    <3>2. Step(name, at) = Cut(at, Len(at) - 1)
      BY <1>6, <2>1, <2>3 DEF Step, Cut
    <3>3. Step(name, at) \in Seq(Name) /\ Len(Step(name, at)) = Len(at) - 1
      BY <1>6, <3>1, <3>2, Cutting
    <3>4. sofar.skip <= Len(at) - 1 =>
             Cut(Step(name, at), Len(at) - 1 - sofar.skip) = Cut(at, Len(at) - (sofar.skip + 1))
      <4> SUFFICES ASSUME sofar.skip <= Len(at) - 1
                   PROVE  Cut(Step(name, at), Len(at) - 1 - sofar.skip) = Cut(at, Len(at) - (sofar.skip + 1))
        OBVIOUS
      <4>1. /\ Len(at) - 1 - sofar.skip = Len(at) - (sofar.skip + 1)
            /\ Len(at) - (sofar.skip + 1) \in 0 .. Len(at) - 1
        BY <1>2, <2>1
      <4> QED
        BY <1>6, <3>1, <3>2, <4>1, CutTwice
    <3>5. Step(name, at) # Outside
      BY <1>1, <3>3
    <3>6. sofar.skip > Len(at) - 1 <=> sofar.skip + 1 > Len(at)
      BY <1>2, <2>1
    <3>7. Through(Step(name, at), sofar) =
            IF sofar.skip > Len(at) - 1 THEN Outside
            ELSE Cut(Step(name, at), Len(at) - 1 - sofar.skip) \o sofar.kept
      BY <3>3, <3>5 DEF Through, Cut
    <3>8. Through(at, Passed(name, sofar)) =
            IF sofar.skip + 1 > Len(at) THEN Outside
            ELSE Cut(at, Len(at) - (sofar.skip + 1)) \o sofar.kept
      BY <2>1 DEF Through, Cut
    <3>9. sofar.skip <= Len(at) - 1 \/ sofar.skip > Len(at) - 1
      BY <1>2, <2>1
    <3> QED
      BY <1>3, <3>3, <3>4, <3>6, <3>7, <3>8, <3>9 DEF Places
  <2> QED
    BY <2>2, <2>3
<1>7. CASE at \in Seq(Name) /\ name \notin {".", ".."}
  <2>1. at # Outside /\ Len(at) \in Nat /\ Step(name, at) = Append(at, name)
    BY <1>1, <1>7, LenProperties DEF Step
  <2>2. Step(name, at) \in Seq(Name) /\ Len(Step(name, at)) = Len(at) + 1 /\ Step(name, at) # Outside
    BY <1>1, <1>7, <2>1, AppendProperties
  <2>3. CASE sofar.skip > 0
    <3>1. Passed(name, sofar).skip = sofar.skip - 1 /\ Passed(name, sofar).kept = sofar.kept
      BY <1>2, <1>7, <2>3 DEF Passed, Sofar
    <3>2. sofar.skip <= Len(at) + 1 =>
             Cut(Step(name, at), Len(at) + 1 - sofar.skip) = Cut(at, Len(at) - (sofar.skip - 1))
      <4> SUFFICES ASSUME sofar.skip <= Len(at) + 1
                   PROVE  Cut(Step(name, at), Len(at) + 1 - sofar.skip) = Cut(at, Len(at) - (sofar.skip - 1))
        OBVIOUS
      <4>1. /\ Len(at) + 1 - sofar.skip = Len(at) - (sofar.skip - 1)
            /\ Len(at) - (sofar.skip - 1) \in 0 .. Len(at)
        BY <1>2, <2>1, <2>3
      <4> QED
        BY <1>7, <2>1, <4>1, CutAppend
    <3>3. sofar.skip > Len(at) + 1 <=> sofar.skip - 1 > Len(at)
      BY <1>2, <2>1
    <3>4. Through(Step(name, at), sofar) =
            IF sofar.skip > Len(at) + 1 THEN Outside
            ELSE Cut(Step(name, at), Len(at) + 1 - sofar.skip) \o sofar.kept
      <4>1. Through(Step(name, at), sofar) =
              IF sofar.skip > Len(Step(name, at)) THEN Outside
              ELSE Cut(Step(name, at), Len(Step(name, at)) - sofar.skip) \o sofar.kept
        BY <2>2, Zenon DEF Through, Cut
      <4>2. Len(Step(name, at)) = Len(at) + 1 /\ Len(at) \in Nat /\ sofar.skip \in Nat
        BY <1>2, <2>1, <2>2
      <4>3. Cut(Step(name, at), Len(Step(name, at)) - sofar.skip)
              = Cut(Step(name, at), Len(at) + 1 - sofar.skip)
        BY <4>2
      <4>4. CASE sofar.skip > Len(at) + 1
        BY <4>1, <4>2, <4>4
      <4>5. CASE ~ (sofar.skip > Len(at) + 1)
        BY <4>1, <4>2, <4>3, <4>5
      <4> QED
        BY <4>4, <4>5
    <3>5. Through(at, Passed(name, sofar)) =
            IF sofar.skip - 1 > Len(at) THEN Outside
            ELSE Cut(at, Len(at) - (sofar.skip - 1)) \o sofar.kept
      BY <2>1, <3>1 DEF Through, Cut
    <3>6. sofar.skip <= Len(at) + 1 \/ sofar.skip > Len(at) + 1
      BY <1>2, <2>1
    <3> QED
      BY <1>3, <2>2, <3>2, <3>3, <3>4, <3>5, <3>6 DEF Places
  <2>4. CASE ~(sofar.skip > 0)
    <3>1. sofar.skip = 0 /\ Passed(name, sofar).skip = 0 /\ Passed(name, sofar).kept = <<name>> \o sofar.kept
      BY <1>2, <1>7, <2>4 DEF Passed, Sofar
    <3>2. SubSeq(at, 1, Len(at)) = at /\ SubSeq(Step(name, at), 1, Len(Step(name, at))) = Step(name, at)
      BY <1>7, <2>2, SubSeqFull
    <3>3. Append(at, name) \o sofar.kept = at \o (<<name>> \o sofar.kept)
      <4>1. at \in Seq(Name) /\ name \in Name /\ sofar.kept \in Seq(Name)
        BY <1>2, <1>7
      <4>2. \A t \in Seq(Name) : Append(at, name) \o t = at \o (<<name>> \o t)
        BY <4>1, AppendThen
      <4> QED
        BY <4>1, <4>2
    <3>4. ~(0 > Len(at)) /\ ~(0 > Len(Step(name, at))) /\ Len(at) - 0 = Len(at)
          /\ Len(Step(name, at)) - 0 = Len(Step(name, at))
      BY <2>1, <2>2
    <3>5. Through(Step(name, at), sofar) = Step(name, at) \o sofar.kept
      BY <2>2, <3>1, <3>2, <3>4 DEF Through
    <3>6. Through(at, Passed(name, sofar)) = at \o (<<name>> \o sofar.kept)
      BY <2>1, <3>1, <3>2, <3>4 DEF Through
    <3> QED
      BY <1>3, <2>1, <2>2, <3>3, <3>5, <3>6 DEF Places
  <2> QED
    BY <2>3, <2>4
<1> QED
  BY <1>4, <1>5, <1>6, <1>7 DEF Places

----------------------------------------------------------------------------
\* The recursive functions of resolve and of the walk exist.

\* The loop goes one directory further.
LEMMA LoopGoesOn ==
  ASSUME NEW dirs, Len(dirs) \in Nat, NEW m \in 1 .. Len(dirs), NEW g, IsLoop(g, dirs, m + 1)
  PROVE  \E f : IsLoop(f, dirs, m) /\ f[m] = Passed(dirs[m], g[m + 1])
<1> DEFINE f == [i \in m .. Len(dirs) + 1 |-> IF i = m THEN Passed(dirs[m], g[m + 1]) ELSE g[i]]
<1>1. /\ m \in Nat /\ m <= Len(dirs) /\ m \in m .. Len(dirs) + 1 /\ m + 1 \in m + 1 .. Len(dirs) + 1
      /\ m + 1 # m
  OBVIOUS
<1>2. \A i \in m + 1 .. Len(dirs) + 1 :
        g[i] = IF i > Len(dirs) THEN [kept |-> <<>>, skip |-> 0] ELSE Passed(dirs[i], g[i + 1])
  BY DEF IsLoop
<1>3. f[m] = Passed(dirs[m], g[m + 1]) /\ f[m + 1] = g[m + 1]
  BY <1>1
<1>4. ASSUME NEW i \in m .. Len(dirs) + 1
      PROVE  f[i] = IF i > Len(dirs) THEN [kept |-> <<>>, skip |-> 0] ELSE Passed(dirs[i], f[i + 1])
  <2>1. CASE i = m
    BY <1>1, <1>3, <2>1
  <2>2. CASE i # m
    <3>1. i \in m + 1 .. Len(dirs) + 1 /\ f[i] = g[i]
      BY <1>1, <2>2
    <3>2. i <= Len(dirs) => i + 1 \in m .. Len(dirs) + 1 /\ i + 1 # m
      BY <1>1, <3>1
    <3>3. i <= Len(dirs) => f[i + 1] = g[i + 1]
      BY <3>2
    <3>4. i > Len(dirs) \/ i <= Len(dirs)
      BY <1>1
    <3> HIDE DEF f
    <3> QED
      BY <1>2, <3>1, <3>3, <3>4
  <2> QED
    BY <2>1, <2>2
<1>5. f = [i \in m .. Len(dirs) + 1 |->
             IF i > Len(dirs) THEN [kept |-> <<>>, skip |-> 0] ELSE Passed(dirs[i], f[i + 1])]
  BY <1>4
<1>6. IsLoop(f, dirs, m)
  <2> HIDE DEF f
  <2> QED
    BY <1>5 DEF IsLoop
<1> HIDE DEF f
<1> QED
  BY <1>3, <1>6

LEMMA LoopExists ==
  ASSUME NEW dirs, Len(dirs) \in Nat, NEW m \in 1 .. Len(dirs) + 1
  PROVE  \E f : IsLoop(f, dirs, m)
<1> DEFINE Bad == {k \in 0 .. Len(dirs) : ~\E f : IsLoop(f, dirs, Len(dirs) + 1 - k)}
<1>1. SUFFICES ASSUME Bad # {} PROVE FALSE
  <2>1. Len(dirs) + 1 - m \in 0 .. Len(dirs) /\ Len(dirs) + 1 - (Len(dirs) + 1 - m) = m
    OBVIOUS
  <2> QED
    BY <2>1
<1>2. Bad \in SUBSET Nat
  OBVIOUS
<1>3. PICK k \in Bad : \A j \in Bad : k <= j
  <2> HIDE DEF Bad
  <2> QED
    BY <1>1, <1>2, Least
<1>4. k \in 0 .. Len(dirs) /\ ~\E f : IsLoop(f, dirs, Len(dirs) + 1 - k)
  OBVIOUS
<1>5. CASE k = 0
  <2>1. \A g : IsLoop(g, dirs, Len(dirs) + 1) <=>
          g = [i \in Len(dirs) + 1 .. Len(dirs) + 1 |->
                 IF i > Len(dirs) THEN [kept |-> <<>>, skip |-> 0] ELSE Passed(dirs[i], g[i + 1])]
    BY DEF IsLoop
  <2> DEFINE g == [i \in Len(dirs) + 1 .. Len(dirs) + 1 |-> [kept |-> <<>>, skip |-> 0]]
  <2>2. \A i \in Len(dirs) + 1 .. Len(dirs) + 1 : i > Len(dirs)
    OBVIOUS
  <2>3. g = [i \in Len(dirs) + 1 .. Len(dirs) + 1 |->
               IF i > Len(dirs) THEN [kept |-> <<>>, skip |-> 0] ELSE Passed(dirs[i], g[i + 1])]
    BY <2>2
  <2>4. IsLoop(g, dirs, Len(dirs) + 1)
    <3> HIDE DEF g
    <3> QED
      BY <2>1, <2>3
  <2>5. Len(dirs) + 1 - k = Len(dirs) + 1
    BY <1>5
  <2> QED
    BY <1>4, <2>4, <2>5
<1>6. CASE k # 0
  <2>1. k - 1 \in 0 .. Len(dirs) /\ ~(k <= k - 1)
    BY <1>4, <1>6
  <2>2. k - 1 \notin Bad
    BY <1>3, <2>1
  <2>3. PICK g : IsLoop(g, dirs, Len(dirs) + 1 - (k - 1))
    BY <2>1, <2>2
  <2>4. PICK from : from = Len(dirs) + 1 - k
    OBVIOUS
  <2>5. from \in 1 .. Len(dirs) /\ from + 1 = Len(dirs) + 1 - (k - 1)
    BY <1>4, <1>6, <2>4
  <2>6. IsLoop(g, dirs, from + 1)
    BY <2>3, <2>5
  <2>7. \E f : IsLoop(f, dirs, from)
    BY <2>5, <2>6, LoopGoesOn
  <2> QED
    BY <1>4, <2>4, <2>7
<1> QED
  BY <1>5, <1>6

LEMMA WalkExists ==
  ASSUME NEW dirs, NEW n \in Nat
  PROVE  \E f : IsWalk(f, dirs, n)
<1> DEFINE Bad == {k \in Nat : ~\E f : IsWalk(f, dirs, k)}
<1>1. SUFFICES ASSUME Bad # {} PROVE FALSE
  OBVIOUS
<1>2. Bad \in SUBSET Nat
  OBVIOUS
<1>3. PICK k \in Bad : \A j \in Bad : k <= j
  <2> HIDE DEF Bad
  <2> QED
    BY <1>1, <1>2, Least
<1>4. k \in Nat /\ ~\E f : IsWalk(f, dirs, k)
  OBVIOUS
<1>5. CASE k = 0
  <2> DEFINE g == [i \in 0 .. k |-> <<>>]
  <2>1. g = [i \in 0 .. k |-> IF i = 0 THEN <<>> ELSE Step(dirs[i], g[i - 1])]
    BY <1>5
  <2>2. IsWalk(g, dirs, k)
    <3> HIDE DEF g
    <3> QED
      BY <2>1 DEF IsWalk
  <2> QED
    BY <1>4, <2>2
<1>6. CASE k # 0
  <2>1. k - 1 \in Nat /\ ~(k <= k - 1)
    BY <1>4, <1>6
  <2>2. PICK g : IsWalk(g, dirs, k - 1)
    BY <1>3, <2>1
  <2>3. \A i \in 0 .. k - 1 : g[i] = IF i = 0 THEN <<>> ELSE Step(dirs[i], g[i - 1])
    BY <2>2 DEF IsWalk
  <2> DEFINE f == [i \in 0 .. k |-> IF i = k THEN Step(dirs[k], g[k - 1]) ELSE g[i]]
  <2>4. f[k] = Step(dirs[k], g[k - 1]) /\ \A i \in 0 .. k - 1 : f[i] = g[i]
    BY <1>4
  <2>5. ASSUME NEW i \in 0 .. k
        PROVE  f[i] = IF i = 0 THEN <<>> ELSE Step(dirs[i], f[i - 1])
    <3>1. i = k \/ i \in 0 .. k - 1
      BY <1>4
    <3>2. i # 0 => i - 1 \in 0 .. k - 1
      BY <1>4
    <3> HIDE DEF f
    <3> QED
      BY <1>6, <2>3, <2>4, <3>1, <3>2
  <2>6. f = [i \in 0 .. k |-> IF i = 0 THEN <<>> ELSE Step(dirs[i], f[i - 1])]
    BY <2>5
  <2>7. IsWalk(f, dirs, k)
    <3> HIDE DEF f
    <3> QED
      BY <2>6 DEF IsWalk
  <2> QED
    BY <1>4, <2>7
<1> QED
  BY <1>5, <1>6

----------------------------------------------------------------------------
\* What a loop and a walk are at each of their places.
LEMMA LoopAt ==
  ASSUME NEW Name, NEW dirs \in Seq(Name), NEW f, IsLoop(f, dirs, 1)
  PROVE  /\ f[Len(dirs) + 1] = [kept |-> <<>>, skip |-> 0]
         /\ \A i \in 1 .. Len(dirs) : f[i] = Passed(dirs[i], f[i + 1])
<1>1. Len(dirs) \in Nat
  BY LenProperties
<1>2. \A i \in 1 .. Len(dirs) + 1 :
        f[i] = IF i > Len(dirs) THEN [kept |-> <<>>, skip |-> 0] ELSE Passed(dirs[i], f[i + 1])
  BY DEF IsLoop
<1>3. Len(dirs) + 1 \in 1 .. Len(dirs) + 1 /\ Len(dirs) + 1 > Len(dirs)
  BY <1>1
<1>4. \A i \in 1 .. Len(dirs) : i \in 1 .. Len(dirs) + 1 /\ ~(i > Len(dirs))
  BY <1>1
<1> QED
  BY <1>2, <1>3, <1>4

LEMMA WalkAt ==
  ASSUME NEW Name, NEW dirs \in Seq(Name), NEW h, IsWalk(h, dirs, Len(dirs))
  PROVE  h[0] = <<>> /\ \A i \in 1 .. Len(dirs) : h[i] = Step(dirs[i], h[i - 1])
<1>1. Len(dirs) \in Nat
  BY LenProperties
<1>2. \A i \in 0 .. Len(dirs) : h[i] = IF i = 0 THEN <<>> ELSE Step(dirs[i], h[i - 1])
  BY DEF IsWalk
<1>3. 0 \in 0 .. Len(dirs) /\ \A i \in 1 .. Len(dirs) : i \in 0 .. Len(dirs) /\ i # 0
  BY <1>1
<1> QED
  BY <1>2, <1>3

LEMMA LoopType ==
  ASSUME NEW Name, NoName \notin Name, NEW dirs \in Seq(Name), NEW f, IsLoop(f, dirs, 1)
  PROVE  \A i \in 1 .. Len(dirs) + 1 : f[i] \in Sofar(Name)
<1>1. Len(dirs) \in Nat
  BY LenProperties
<1>2. /\ f[Len(dirs) + 1] = [kept |-> <<>>, skip |-> 0]
      /\ \A i \in 1 .. Len(dirs) : f[i] = Passed(dirs[i], f[i + 1])
  BY LoopAt
<1> DEFINE Bad == {k \in 0 .. Len(dirs) : f[Len(dirs) + 1 - k] \notin Sofar(Name)}
<1>3. SUFFICES ASSUME Bad # {} PROVE FALSE
  <2>1. \A i \in 1 .. Len(dirs) + 1 :
          Len(dirs) + 1 - i \in 0 .. Len(dirs) /\ Len(dirs) + 1 - (Len(dirs) + 1 - i) = i
    BY <1>1
  <2> QED
    BY <2>1
<1>4. Bad \in SUBSET Nat
  OBVIOUS
<1>5. PICK k \in Bad : \A j \in Bad : k <= j
  <2> HIDE DEF Bad
  <2> QED
    BY <1>3, <1>4, Least
<1>6. k \in 0 .. Len(dirs) /\ f[Len(dirs) + 1 - k] \notin Sofar(Name)
  OBVIOUS
<1>7. CASE k = 0
  <2>1. Len(dirs) + 1 - k = Len(dirs) + 1
    BY <1>1, <1>7
  <2>2. [kept |-> <<>>, skip |-> 0] \in Sofar(Name)
    BY DEF Sofar
  <2> QED
    BY <1>2, <1>6, <2>1, <2>2
<1>8. CASE k # 0
  <2>1. k - 1 \in 0 .. Len(dirs) /\ ~(k <= k - 1)
    BY <1>1, <1>6, <1>8
  <2>2. f[Len(dirs) + 1 - (k - 1)] \in Sofar(Name)
    BY <1>5, <2>1
  <2>3. PICK i : i = Len(dirs) + 1 - k
    OBVIOUS
  <2>4. i \in 1 .. Len(dirs) /\ i + 1 = Len(dirs) + 1 - (k - 1)
    BY <1>1, <1>6, <1>8, <2>3
  <2>5. dirs[i] \in Name
    BY <2>4, ElementOfSeq
  <2>6. f[i + 1] \in Sofar(Name)
    BY <2>2, <2>4
  <2>7. <<>> \in Places(Name)
    BY DEF Places
  <2>8. Passed(dirs[i], f[i + 1]) \in Sofar(Name)
    BY <2>5, <2>6, <2>7, OneStep
  <2> QED
    BY <1>2, <1>6, <2>3, <2>4, <2>8
<1> QED
  BY <1>7, <1>8

LEMMA WalkType ==
  ASSUME NEW Name, NoName \notin Name, NEW dirs \in Seq(Name), NEW h, IsWalk(h, dirs, Len(dirs))
  PROVE  \A i \in 0 .. Len(dirs) : h[i] \in Places(Name)
<1>1. Len(dirs) \in Nat
  BY LenProperties
<1>2. h[0] = <<>> /\ \A i \in 1 .. Len(dirs) : h[i] = Step(dirs[i], h[i - 1])
  BY WalkAt
<1> DEFINE Bad == {k \in 0 .. Len(dirs) : h[k] \notin Places(Name)}
<1>3. SUFFICES ASSUME Bad # {} PROVE FALSE
  OBVIOUS
<1>4. Bad \in SUBSET Nat
  OBVIOUS
<1>5. PICK k \in Bad : \A j \in Bad : k <= j
  <2> HIDE DEF Bad
  <2> QED
    BY <1>3, <1>4, Least
<1>6. k \in 0 .. Len(dirs) /\ h[k] \notin Places(Name)
  OBVIOUS
<1>7. k # 0
  <2>1. <<>> \in Places(Name)
    BY DEF Places
  <2> QED
    BY <1>2, <1>6, <2>1
<1>8. k - 1 \in 0 .. Len(dirs) /\ ~(k <= k - 1) /\ k \in 1 .. Len(dirs)
  BY <1>1, <1>6, <1>7
<1>9. h[k - 1] \in Places(Name)
  BY <1>5, <1>8
<1>10. dirs[k] \in Name
  BY <1>8, ElementOfSeq
<1>11. [kept |-> <<>>, skip |-> 0] \in Sofar(Name)
  BY DEF Sofar
<1>12. Step(dirs[k], h[k - 1]) \in Places(Name)
  BY <1>9, <1>10, <1>11, OneStep
<1> QED
  BY <1>2, <1>6, <1>8, <1>12

\* Resolve's loop and the walk meet, wherever the path is cut in two.
LEMMA Meet ==
  ASSUME NEW Name, NoName \notin Name, NEW dirs \in Seq(Name),
         NEW f, IsLoop(f, dirs, 1), NEW h, IsWalk(h, dirs, Len(dirs))
  PROVE  \A i \in 0 .. Len(dirs) : Through(h[i], f[i + 1]) = Through(h[0], f[1])
<1>1. Len(dirs) \in Nat
  BY LenProperties
<1>2. \A i \in 1 .. Len(dirs) + 1 : f[i] \in Sofar(Name)
  BY LoopType
<1>3. \A i \in 0 .. Len(dirs) : h[i] \in Places(Name)
  BY WalkType
<1>4. \A i \in 1 .. Len(dirs) : f[i] = Passed(dirs[i], f[i + 1])
  BY LoopAt
<1>5. \A i \in 1 .. Len(dirs) : h[i] = Step(dirs[i], h[i - 1])
  BY WalkAt
<1> DEFINE Bad == {i \in 0 .. Len(dirs) : Through(h[i], f[i + 1]) # Through(h[0], f[1])}
<1>6. SUFFICES ASSUME Bad # {} PROVE FALSE
  OBVIOUS
<1>7. Bad \in SUBSET Nat
  OBVIOUS
<1>8. PICK k \in Bad : \A j \in Bad : k <= j
  <2> HIDE DEF Bad
  <2> QED
    BY <1>6, <1>7, Least
<1>9. k \in 0 .. Len(dirs) /\ Through(h[k], f[k + 1]) # Through(h[0], f[1])
  OBVIOUS
<1>10. k # 0
  <2>1. SUFFICES ASSUME k = 0 PROVE FALSE
    OBVIOUS
  <2>2. k + 1 = 1
    BY <2>1
  <2>3. h[k] = h[0] /\ f[k + 1] = f[1]
    BY <2>1, <2>2
  <2> HIDE DEF Bad
  <2> QED
    BY <1>9, <2>3, Zenon
<1>11. /\ k - 1 \in 0 .. Len(dirs) /\ ~(k <= k - 1) /\ (k - 1) + 1 = k
       /\ k \in 1 .. Len(dirs) /\ k + 1 \in 1 .. Len(dirs) + 1
  BY <1>1, <1>9, <1>10
<1>12. Through(h[k - 1], f[k]) = Through(h[0], f[1])
  BY <1>8, <1>11
<1>13. dirs[k] \in Name
  BY <1>11, ElementOfSeq
<1>14. h[k - 1] \in Places(Name) /\ f[k + 1] \in Sofar(Name)
  BY <1>2, <1>3, <1>11
<1>15. Through(Step(dirs[k], h[k - 1]), f[k + 1]) = Through(h[k - 1], Passed(dirs[k], f[k + 1]))
  BY <1>13, <1>14, OneStep
<1> QED
  BY <1>4, <1>5, <1>9, <1>11, <1>12, <1>15

----------------------------------------------------------------------------
\* A path of names without dots is where the walk along it leads.
LEMMA WalkWithoutDots ==
  ASSUME NEW Name, NoName \notin Name, NEW dirs \in Seq(Name),
         \A i \in 1 .. Len(dirs) : dirs[i] \notin {".", ".."},
         NEW h, IsWalk(h, dirs, Len(dirs))
  PROVE  h[Len(dirs)] = dirs
<1>1. Len(dirs) \in Nat
  BY LenProperties
<1>2. h[0] = <<>> /\ \A i \in 1 .. Len(dirs) : h[i] = Step(dirs[i], h[i - 1])
  BY WalkAt
<1> DEFINE Bad == {i \in 0 .. Len(dirs) : h[i] # Cut(dirs, i)}
<1>3. Bad = {}
  <2>1. SUFFICES ASSUME Bad # {} PROVE FALSE
    OBVIOUS
  <2>2. Bad \in SUBSET Nat
    OBVIOUS
  <2>3. PICK k \in Bad : \A j \in Bad : k <= j
    <3> HIDE DEF Bad
    <3> QED
      BY <2>1, <2>2, Least
  <2>4. k \in 0 .. Len(dirs) /\ h[k] # Cut(dirs, k)
    OBVIOUS
  <2>5. CASE k = 0
    <3>1. Cut(dirs, 0) \in Seq(Name) /\ Len(Cut(dirs, 0)) = 0
      BY <1>1, Cutting
    <3>2. Cut(dirs, 0) = <<>>
      BY <3>1, EmptySeq
    <3> QED
      BY <1>2, <2>4, <2>5, <3>2
  <2>6. CASE k # 0
    <3>1. /\ k - 1 \in 0 .. Len(dirs) /\ ~(k <= k - 1) /\ (k - 1) + 1 = k
          /\ k \in 1 .. Len(dirs)
      BY <1>1, <2>4, <2>6
    <3>2. h[k - 1] = Cut(dirs, k - 1)
      BY <2>3, <3>1
    <3>3. dirs[k] \in Name /\ dirs[k] \notin {".", ".."}
      BY <3>1, ElementOfSeq
    <3>4. /\ Cut(dirs, k - 1) \in Seq(Name) /\ Len(Cut(dirs, k - 1)) = k - 1
          /\ \A i \in 1 .. k - 1 : Cut(dirs, k - 1)[i] = dirs[i]
      BY <3>1, Cutting
    <3>5. Cut(dirs, k - 1) # Outside
      <4>1. SUFFICES ASSUME Cut(dirs, k - 1) = Outside PROVE FALSE
        OBVIOUS
      <4>2. 1 \in 1 .. Len(Outside) /\ Outside[1] = NoName
        BY DEF Outside
      <4> QED
        BY <3>4, <4>1, <4>2, ElementOfSeq
    <3>6. h[k] = Append(Cut(dirs, k - 1), dirs[k])
      BY <1>2, <3>1, <3>2, <3>3, <3>5 DEF Step
    <3>7. /\ Append(Cut(dirs, k - 1), dirs[k]) \in Seq(Name)
          /\ Len(Append(Cut(dirs, k - 1), dirs[k])) = k
          /\ \A i \in 1 .. k : Append(Cut(dirs, k - 1), dirs[k])[i] = dirs[i]
      <4>1. /\ Append(Cut(dirs, k - 1), dirs[k]) \in Seq(Name)
            /\ Len(Append(Cut(dirs, k - 1), dirs[k])) = Len(Cut(dirs, k - 1)) + 1
            /\ \A i \in 1 .. Len(Cut(dirs, k - 1)) :
                 Append(Cut(dirs, k - 1), dirs[k])[i] = Cut(dirs, k - 1)[i]
            /\ Append(Cut(dirs, k - 1), dirs[k])[Len(Cut(dirs, k - 1)) + 1] = dirs[k]
        BY <3>3, <3>4, AppendProperties
      <4>2. \A i \in 1 .. k : i = k \/ i \in 1 .. k - 1
        BY <3>1
      <4> QED
        BY <3>1, <3>4, <4>1, <4>2
    <3>8. /\ Cut(dirs, k) \in Seq(Name) /\ Len(Cut(dirs, k)) = k
          /\ \A i \in 1 .. k : Cut(dirs, k)[i] = dirs[i]
      BY <2>4, Cutting
    <3>9. Append(Cut(dirs, k - 1), dirs[k]) = Cut(dirs, k)
      BY <3>7, <3>8, SeqEqual
    <3> QED
      BY <2>4, <3>6, <3>9
  <2> QED
    BY <2>5, <2>6
<1>4. h[Len(dirs)] = Cut(dirs, Len(dirs))
  BY <1>1, <1>3
<1> QED
  BY <1>4, SubSeqFull DEF Cut

(***************************************************************************)
(* For every path of names, without the empty one: resolve gives the         *)
(* directory that is reached from the left, and no path for one that leaves  *)
(* the root (path.cpp:142).                                                  *)
(***************************************************************************)
THEOREM ResolveIsDestination ==
  ASSUME NEW Name, NoName \notin Name, NEW p, p.dirs \in Seq(Name),
         p = [dirs |-> p.dirs, file |-> p.file]
  PROVE  Resolve(p) = Destination(p)
<1> DEFINE dirs == p.dirs
           h == CHOOSE h : IsWalk(h, dirs, Len(dirs))
           g == CHOOSE g : IsLoop(g, dirs, 2)
<1>1. Len(dirs) \in Nat /\ DOMAIN dirs = 1 .. Len(dirs)
  BY LenProperties
<1>2. IsWalk(h, dirs, Len(dirs))
  BY <1>1, WalkExists
<1>3. Steps(p) = h[Len(dirs)]
  BY DEF Steps, IsWalk
<1>4. CASE ~HasDots(p)
  <2>1. \A i \in 1 .. Len(dirs) : dirs[i] \notin {".", ".."}
    BY <1>1, <1>4 DEF HasDots
  <2> HIDE DEF h
  <2>2. Steps(p) = dirs
    BY <1>2, <1>3, <2>1, WalkWithoutDots
  <2>3. dirs # Outside
    <3>1. SUFFICES ASSUME dirs = Outside PROVE FALSE
      OBVIOUS
    <3>2. 1 \in 1 .. Len(Outside) /\ Outside[1] = NoName
      BY DEF Outside
    <3> QED
      BY <3>1, <3>2, ElementOfSeq
  <2> QED
    BY <1>4, <2>2, <2>3 DEF Resolve, Destination
<1>5. CASE HasDots(p)
  <2>1. Len(dirs) >= 1
    BY <1>1, <1>5 DEF HasDots
  <2>2. IsLoop(g, dirs, 2)
    <3>1. 2 \in 1 .. Len(dirs) + 1
      BY <1>1, <2>1
    <3>2. \E f : IsLoop(f, dirs, 2)
      BY <1>1, <3>1, LoopExists
    <3> QED
      BY <3>2
  <2>3. dirs[1] # NoName
    BY <1>1, <2>1, ElementOfSeq
  <2>4. Walked(dirs) = Passed(dirs[1], g[2])
    BY <2>3 DEF Walked, IsLoop
  <2> HIDE DEF g, h
  <2>5. PICK f : IsLoop(f, dirs, 1) /\ f[1] = Passed(dirs[1], g[2])
    <3>1. 1 \in 1 .. Len(dirs) /\ 1 + 1 = 2
      BY <1>1, <2>1
    <3>2. IsLoop(g, dirs, 1 + 1)
      BY <2>2, <3>1
    <3> QED
      BY <1>1, <3>1, <3>2, LoopGoesOn
  <2>6. f[1] = Walked(dirs) /\ f[1] \in Sofar(Name)
    BY <1>1, <2>1, <2>4, <2>5, LoopType
  <2>7. f[Len(dirs) + 1] = [kept |-> <<>>, skip |-> 0]
    BY <2>5, LoopAt
  <2>8. h[0] = <<>> /\ h[Len(dirs)] \in Places(Name)
    BY <1>1, <1>2, WalkAt, WalkType
  <2>9. Through(h[Len(dirs)], f[Len(dirs) + 1]) = Through(h[0], f[1])
    BY <1>1, <1>2, <2>5, Meet
  <2>10. Through(h[Len(dirs)], [kept |-> <<>>, skip |-> 0]) = h[Len(dirs)]
    <3>1. CASE h[Len(dirs)] = Outside
      BY <3>1 DEF Through
    <3>2. CASE h[Len(dirs)] \in Seq(Name) /\ h[Len(dirs)] # Outside
      <4>1. PICK at \in Seq(Name) : at = h[Len(dirs)] /\ at # Outside
        BY <3>2
      <4>2. Len(at) \in Nat /\ ~(0 > Len(at)) /\ Len(at) - 0 = Len(at)
        BY LenProperties
      <4>3. SubSeq(at, 1, Len(at)) = at /\ at \o <<>> = at
        BY SubSeqFull, ConcatEmptySeq
      <4> QED
        BY <4>1, <4>2, <4>3 DEF Through
    <3> QED
      BY <2>8, <3>1, <3>2 DEF Places
  <2>11. Through(<<>>, f[1]) = IF Walked(dirs).skip > 0 THEN Outside ELSE Walked(dirs).kept
    <3>1. /\ Walked(dirs).skip \in Nat /\ Walked(dirs).kept \in Seq(Name)
          /\ <<>> # Outside /\ Len(<<>>) = 0
      BY <2>6 DEF Sofar, Outside
    <3>2. ~(Walked(dirs).skip > 0) => Walked(dirs).skip = 0
      BY <3>1
    <3>3. SubSeq(<<>>, 1, 0) = <<>> /\ <<>> \o Walked(dirs).kept = Walked(dirs).kept
      BY <3>1, ConcatEmptySeq
    <3>4. Through(<<>>, f[1]) = IF Walked(dirs).skip > 0 THEN Outside
                                ELSE SubSeq(<<>>, 1, 0 - Walked(dirs).skip) \o Walked(dirs).kept
      BY <2>6, <3>1 DEF Through
    <3>5. CASE Walked(dirs).skip > 0
      BY <3>4, <3>5
    <3>6. CASE Walked(dirs).skip = 0
      <4>1. 0 - Walked(dirs).skip = 0 /\ ~(Walked(dirs).skip > 0)
        BY <3>6
      <4> QED
        BY <3>3, <3>4, <4>1
    <3> QED
      BY <3>2, <3>5, <3>6
  <2>12. Steps(p) = IF Walked(dirs).skip > 0 THEN Outside ELSE Walked(dirs).kept
    BY <1>3, <2>7, <2>8, <2>9, <2>10, <2>11
  <2>13. Walked(dirs).kept # Outside
    <3>1. SUFFICES ASSUME Walked(dirs).kept = Outside PROVE FALSE
      OBVIOUS
    <3>2. 1 \in 1 .. Len(Outside) /\ Outside[1] = NoName
      BY DEF Outside
    <3>3. Outside \in Seq(Name)
      BY <2>6, <3>1 DEF Sofar
    <3> QED
      BY <3>2, <3>3, ElementOfSeq
  <2> QED
    BY <1>5, <2>12, <2>13 DEF Resolve, Destination
<1> QED
  BY <1>4, <1>5

----------------------------------------------------------------------------
PathSpec == PathInit /\ [][PathNext]_path

IsPath == path.dirs \in Seq(PathNames) /\ path = [dirs |-> path.dirs, file |-> NoName]

\* What resolve gives is a path of the same names.
LEMMA ResolveIsPath ==
  ASSUME IsPath
  PROVE  Resolve(path).dirs \in Seq(PathNames) /\ Resolve(path).file = NoName
         /\ Resolve(path) = [dirs |-> Resolve(path).dirs, file |-> Resolve(path).file]
<1> DEFINE h == CHOOSE h : IsWalk(h, path.dirs, Len(path.dirs))
<1>1. path.dirs \in Seq(PathNames) /\ path.file = NoName /\ path = [dirs |-> path.dirs, file |-> path.file]
  BY DEF IsPath
<1>2. Len(path.dirs) \in Nat
  BY <1>1, LenProperties
<1>3. IsWalk(h, path.dirs, Len(path.dirs))
  BY <1>2, WalkExists
<1>4. Steps(path) = h[Len(path.dirs)]
  BY DEF Steps, IsWalk
<1> HIDE DEF h
<1>5. Steps(path) \in Places(PathNames)
  BY <1>1, <1>2, <1>3, <1>4, NamesAssumption, WalkType
<1>6. Resolve(path) = Destination(path)
  BY <1>1, NamesAssumption, ResolveIsDestination
<1>7. <<>> \in Seq(PathNames)
  OBVIOUS
<1> QED
  BY <1>1, <1>5, <1>6, <1>7 DEF Destination, Places, Empty

LEMMA PathTyped == PathSpec => []IsPath
<1>1. PathInit => IsPath
  BY DEF PathInit, IsPath, Empty
<1>2. IsPath /\ [PathNext]_path => IsPath'
  <2> SUFFICES ASSUME IsPath, [PathNext]_path PROVE IsPath'
    OBVIOUS
  <2>1. ASSUME NEW n \in PathNames, path' = DirPath(Append(path.dirs, n)) PROVE IsPath'
    <3>1. Append(path.dirs, n) \in Seq(PathNames)
      BY AppendProperties DEF IsPath
    <3> QED
      BY <2>1, <3>1 DEF IsPath, DirPath
  <2>2. CASE path' = Resolve(path)
    BY <2>2, ResolveIsPath DEF IsPath
  <2>3. CASE UNCHANGED path
    BY <2>3 DEF IsPath
  <2> QED
    BY <2>1, <2>2, <2>3 DEF PathNext
<1> QED
  BY <1>1, <1>2, PTL DEF PathSpec

(***************************************************************************)
(* Of every path that is put together and resolved, again and again, resolve *)
(* gives the directory that its names lead to from the left (path.cpp:142).  *)
(***************************************************************************)
THEOREM PathResolvesHolds == PathSpec => []PathResolves
<1>1. IsPath => PathResolves
  <2> SUFFICES ASSUME IsPath PROVE PathResolves
    OBVIOUS
  <2>1. path.dirs \in Seq(PathNames) /\ path = [dirs |-> path.dirs, file |-> path.file]
    BY DEF IsPath
  <2>2. Resolve(path) = Destination(path)
    BY <2>1, NamesAssumption, ResolveIsDestination
  <2> QED
    BY <2>2 DEF PathResolves
<1> QED
  BY <1>1, PathTyped, PTL

----------------------------------------------------------------------------
(* Statistics                                                                *)

StatType ==
  /\ slots \in [1 .. MaxStats -> [name : StatNames \cup {NullName}, count : Nat]]
  /\ counter \in [StatThreads -> 0 .. MaxStats]
  /\ step \in [StatThreads -> {Idle, Reset} \cup Amounts]
  /\ oldValue \in [StatThreads -> Nat \cup {NotRead}]
  /\ total \in [StatNames -> Nat]
  /\ asked \in [StatThreads -> StatNames \cup {NullName}]

Pointing == \A t \in StatThreads :
  /\ counter[t] # 0 => asked[t] \in StatNames /\ slots[counter[t]].name = asked[t]
  /\ step[t] # Idle => counter[t] # 0

Unique == \A j, k \in 1 .. MaxStats :
  slots[j].name = slots[k].name /\ slots[j].name # NullName => j = k

Exact == \A k \in 1 .. MaxStats :
  slots[k].count = IF slots[k].name = NullName THEN 0 ELSE total[slots[k].name]

Unclaimed == \A n \in StatNames : (\A k \in 1 .. MaxStats : slots[k].name # n) => total[n] = 0

StatInv == StatType /\ Pointing /\ Unique /\ Exact /\ Unclaimed

\* SlotOf gives the slot of the name, or else one that is free.
LEMMA SlotFound ==
  ASSUME StatType, NEW n \in StatNames, SlotOf(n) # 0
  PROVE  /\ SlotOf(n) \in 1 .. MaxStats
         /\ \/ slots[SlotOf(n)].name = n
            \/ /\ slots[SlotOf(n)].name = NullName
               /\ \A k \in 1 .. MaxStats : slots[k].name # n
<1> DEFINE known == {k \in DOMAIN slots : slots[k].name = n}
           free == {k \in DOMAIN slots : slots[k].name = NullName}
           least(S) == CHOOSE k \in S : \A j \in S : k <= j
<1>0. DOMAIN slots = 1 .. MaxStats
  BY DEF StatType
<1>1. \A S \in SUBSET (1 .. MaxStats) : S # {} => least(S) \in S
  <2> TAKE S \in SUBSET (1 .. MaxStats)
  <2> HAVE S # {}
  <2>1. S \in SUBSET Nat
    BY AppStatsAssumption
  <2>2. \E k \in S : \A j \in S : k <= j
    BY <2>1, Least
  <2> QED BY <2>2
<1>2. SlotOf(n) = IF known # {} THEN least(known) ELSE IF free # {} THEN least(free) ELSE 0
  BY DEF SlotOf
<1>3. CASE known # {}
  <2>1. least(known) \in known
    BY <1>0, <1>1, <1>3
  <2> HIDE DEF least
  <2> QED BY <1>0, <1>2, <1>3, <2>1
<1>4. CASE known = {}
  <2>1. free # {}
    BY <1>2, <1>4
  <2>2. least(free) \in free
    BY <1>0, <1>1, <2>1
  <2> HIDE DEF least
  <2>3. SlotOf(n) \in free
    BY <1>2, <1>4, <2>1, <2>2
  <2> QED BY <1>0, <1>4, <2>3
<1> QED BY <1>3, <1>4

LEMMA WrappedType == ASSUME NEW n \in Nat PROVE Wrapped(n) \in Nat
BY AppStatsAssumption DEF Wrapped

----------------------------------------------------------------------------
\* An operation that leaves thread t's counter at n, and the count of its name
\* with it, keeps the invariant.
LEMMA Counted ==
  ASSUME StatInv, NEW t \in StatThreads, counter[t] # 0, NEW n \in Nat,
         slots' = [slots EXCEPT ![counter[t]].count = n],
         total' = [total EXCEPT ![asked[t]] = n],
         UNCHANGED <<counter, asked>>
  PROVE  /\ slots' \in [1 .. MaxStats -> [name : StatNames \cup {NullName}, count : Nat]]
         /\ total' \in [StatNames -> Nat]
         /\ \A k \in 1 .. MaxStats : slots'[k].name = slots[k].name
         /\ Unique' /\ Exact' /\ Unclaimed'
<1> USE DEF StatInv, StatType
<1>1. counter[t] \in 1 .. MaxStats /\ asked[t] \in StatNames /\ asked[t] # NullName
  BY AppStatsAssumption DEF Pointing
<1>2. slots' \in [1 .. MaxStats -> [name : StatNames \cup {NullName}, count : Nat]]
  BY <1>1
<1>3. total' \in [StatNames -> Nat]
  BY <1>1
<1>4. \A k \in 1 .. MaxStats : /\ slots'[k].name = slots[k].name
                               /\ slots'[k].count = IF k = counter[t] THEN n ELSE slots[k].count
  BY <1>1
<1>5. Unique'
  BY <1>4 DEF Unique
<1>6. slots[counter[t]].name = asked[t]
  BY DEF Pointing
<1>7. \A m \in StatNames : total'[m] = IF m = asked[t] THEN n ELSE total[m]
  BY <1>1
<1>8. Exact'
  BY <1>1, <1>4, <1>6, <1>7 DEF Exact, Unique
<1>9. Unclaimed'
  BY <1>1, <1>4, <1>6, <1>7 DEF Unclaimed
<1> QED BY <1>2, <1>3, <1>4, <1>5, <1>8, <1>9

LEMMA MakeStatKeeps ==
  ASSUME StatInv, NEW t \in StatThreads, NEW n \in StatNames, MakeStat(t, n)
  PROVE  StatInv'
<1> USE DEF StatInv, StatType
<1> DEFINE s == SlotOf(n)
<1>1. /\ s \in 1 .. MaxStats
      /\ \/ slots[s].name = n
         \/ /\ slots[s].name = NullName
            /\ \A k \in 1 .. MaxStats : slots[k].name # n
  BY SlotFound DEF MakeStat
<1> HIDE DEF s
<1>2. /\ slots' = [slots EXCEPT ![s].name = n]
      /\ counter' = [counter EXCEPT ![t] = s]
      /\ asked' = [asked EXCEPT ![t] = n]
      /\ step[t] = Idle /\ UNCHANGED <<step, oldValue, total>>
  BY DEF MakeStat, s
<1>3. StatType'
  BY <1>1, <1>2
<1>4. \A k \in 1 .. MaxStats : /\ slots'[k].count = slots[k].count
                               /\ slots'[k].name = IF k = s THEN n ELSE slots[k].name
  BY <1>1, <1>2
<1>5. n # NullName
  BY AppStatsAssumption
<1>6. Unique'
  <2> SUFFICES ASSUME NEW j \in 1 .. MaxStats, NEW k \in 1 .. MaxStats,
                      slots'[j].name = slots'[k].name, slots'[j].name # NullName
               PROVE  j = k
    BY DEF Unique
  <2>1. CASE j = s \/ k = s
    BY <1>1, <1>4, <1>5, <2>1 DEF Unique
  <2>2. CASE j # s /\ k # s
    BY <1>4, <2>2 DEF Unique
  <2> QED BY <2>1, <2>2
<1>7. Exact'
  BY <1>1, <1>2, <1>4, <1>5 DEF Exact, Unclaimed
<1>8. Unclaimed'
  <2> SUFFICES ASSUME NEW m \in StatNames, \A k \in 1 .. MaxStats : slots'[k].name # m
               PROVE  total'[m] = 0
    BY DEF Unclaimed
  <2>1. slots[s].name # m
    BY <1>1, <1>4, AppStatsAssumption
  <2>2. \A k \in 1 .. MaxStats : slots[k].name # m
    BY <1>4, <2>1
  <2> QED BY <1>2, <2>2 DEF Unclaimed
<1>9. Pointing'
  <2> SUFFICES ASSUME NEW u \in StatThreads
               PROVE  /\ counter'[u] # 0 => /\ asked'[u] \in StatNames
                                            /\ slots'[counter'[u]].name = asked'[u]
                      /\ step'[u] # Idle => counter'[u] # 0
    BY DEF Pointing
  <2>1. CASE u = t
    BY <1>1, <1>2, <1>4, <2>1
  <2>2. CASE u # t
    BY <1>1, <1>2, <1>4, <1>5, <2>2, AppStatsAssumption DEF Pointing
  <2> QED BY <2>1, <2>2
<1> QED BY <1>3, <1>6, <1>7, <1>8, <1>9

LEMMA StepKeeps ==
  ASSUME StatInv, StatNext PROVE StatInv'
<1> USE DEF StatInv
<1> PICK t \in StatThreads : \/ \E n \in StatNames : MakeStat(t, n)
                             \/ Increment(t) \/ ReadCounter(t) \/ Exchange(t)
                             \/ \E what \in Calls : Call(t, what)
  BY DEF StatNext
<1>1. CASE \E n \in StatNames : MakeStat(t, n)
  BY <1>1, MakeStatKeeps
<1>2. CASE Increment(t)
  <2> DEFINE n == Wrapped(slots[counter[t]].count + 1)
  <2>1. counter[t] # 0 /\ UNCHANGED <<counter, asked, step, oldValue>>
    BY <1>2 DEF Increment, Begin
  <2>2. counter[t] \in 1 .. MaxStats
    BY <2>1 DEF StatType
  <2>3. n \in Nat
    <3>1. slots[counter[t]].count + 1 \in Nat
      BY <2>2 DEF StatType
    <3> QED BY <3>1, WrappedType
  <2>4. slots[counter[t]].count = total[asked[t]]
    BY <2>1, <2>2, AppStatsAssumption DEF Pointing, Exact
  <2>5. slots' = [slots EXCEPT ![counter[t]].count = n] /\ total' = [total EXCEPT ![asked[t]] = n]
    BY <1>2, <2>4 DEF Increment, Store, Counts
  <2> HIDE DEF n
  <2>6. Pointing'
    BY <2>1, <2>2, <2>3, <2>5, Counted DEF Pointing, StatType
  <2> QED BY <2>1, <2>3, <2>5, <2>6, Counted DEF StatType
<1>3. CASE ReadCounter(t)
  <2>1. counter[t] \in 1 .. MaxStats
    BY <1>3 DEF ReadCounter, Pointing, StatType
  <2>2. Counts(t) \in Nat
    BY <2>1 DEF Counts, StatType
  <2> QED BY <1>3, <2>2 DEF ReadCounter, StatType, Pointing, Unique, Exact, Unclaimed
<1>4. CASE Exchange(t)
  <2>0. step[t] # Idle /\ counter[t] # 0 /\ UNCHANGED <<counter, asked>>
        /\ oldValue' = [oldValue EXCEPT ![t] = NotRead]
    BY <1>4 DEF Exchange, Pointing
  <2>1. CASE Compared(t)
    <3> DEFINE n == NewValue(t, oldValue[t])
    <3>1. counter[t] \in 1 .. MaxStats
      BY <2>0 DEF StatType
    <3>2. oldValue[t] \in Nat /\ oldValue[t] = slots[counter[t]].count
      BY <2>1, <3>1 DEF Compared, Counts, StatType
    <3>3. oldValue[t] = total[asked[t]]
      BY <2>0, <3>1, <3>2, AppStatsAssumption DEF Pointing, Exact
    <3>4. n \in Nat
      <4>1. step[t] = Reset \/ step[t] \in Nat
        BY <2>0, AppStatsAssumption DEF StatType
      <4>2. CASE step[t] = Reset
        BY <4>2 DEF NewValue
      <4>3. CASE step[t] # Reset
        BY <4>1, <4>3, <3>2, WrappedType DEF NewValue
      <4> QED BY <4>2, <4>3
    <3>5. /\ slots' = [slots EXCEPT ![counter[t]].count = n]
          /\ total' = [total EXCEPT ![asked[t]] = n]
          /\ step' = [step EXCEPT ![t] = Idle]
      BY <1>4, <2>1, <3>3 DEF Exchange, Store, Returned
    <3> HIDE DEF n
    <3>6. step' \in [StatThreads -> {Idle, Reset} \cup Amounts]
          /\ oldValue' \in [StatThreads -> Nat \cup {NotRead}]
      BY <2>0, <3>5 DEF StatType
    <3>7. Pointing'
      BY <2>0, <3>1, <3>4, <3>5, Counted DEF Pointing, StatType
    <3> QED BY <2>0, <3>4, <3>5, <3>6, <3>7, Counted DEF StatType
  <2>2. CASE ~Compared(t)
    <3>1. UNCHANGED <<slots, step, total>>
      BY <1>4, <2>2 DEF Exchange
    <3> QED BY <2>0, <3>1 DEF StatType, Pointing, Unique, Exact, Unclaimed
  <2> QED BY <2>1, <2>2
<1>5. CASE \E what \in Calls : Call(t, what)
  BY <1>5 DEF Call, Calls, Begin, StatType, Pointing, Unique, Exact, Unclaimed
<1> QED BY <1>1, <1>2, <1>3, <1>4, <1>5

LEMMA Unmoved == ASSUME StatInv, UNCHANGED statVars PROVE StatInv'
BY DEF StatInv, statVars, StatType, Pointing, Unique, Exact, Unclaimed

\* The counters are exact at all times, whatever operations of whatever
\* threads overlap (AppStat of appstats.cpp).
THEOREM StatsExactHolds == StatSpec => []StatsExact
<1>1. StatInit => StatInv
  BY AppStatsAssumption DEF StatInit, StatInv, StatType, Pointing, Unique, Exact, Unclaimed,
     Idle, Reset, NotRead
<1>2. StatInv /\ [StatNext]_statVars => StatInv'
  BY StepKeeps, Unmoved
<1>3. StatInv => StatsExact
  BY DEF StatInv, StatsExact, StatType, Pointing, Unique, Exact
<1> QED BY <1>1, <1>2, <1>3, PTL DEF StatSpec
====
