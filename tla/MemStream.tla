---- MODULE MemStream ----
(***************************************************************************)
(* The handles of a memory file (MemFileHandle, CORE/VFS/FILESYSTEMS/        *)
(* filesys_mem.cpp): each has a copy of the file's size and a position, all   *)
(* share the bytes, which belong to whoever has created the file.  The size   *)
(* of a writable file is 0 for every new handle, whatever has been written.   *)
(***************************************************************************)
EXTENDS Integers, Sequences

CONSTANTS MemHandles,
          BlobSize,    \* bytes of the blob
          Blocks       \* what is written at once

Characters == UNION {{block[k] : k \in DOMAIN block} : block \in Blocks}

ASSUME BlobAssumption == BlobSize \in Nat /\ Blocks \subseteq Seq(Characters)

VARIABLES blob,     \* the bytes of the file
          writable, \* created on a Blob, not on a ConstBlob: ~m_readonly
          pos, size,   \* m_pos and m_info.m_stats.m_size of each handle
          opened,
          asFile,   \* what each handle has as a file of its own (history)
          faithful, \* no step was taken in which a handle is no file (history)
          got       \* what the last read gave: [read, due]

memVars == <<blob, writable, pos, size, opened, asFile, faithful, got>>

Smaller(a, b) == IF a < b THEN a ELSE b
Larger(a, b) == IF a > b THEN a ELSE b

Untouched == [k \in 1 .. BlobSize |-> "x"]
Nothing == [read |-> <<>>, due |-> <<>>]

MemInit ==
  /\ blob = Untouched /\ writable \in BOOLEAN
  /\ pos = [h \in MemHandles |-> 0] /\ size = [h \in MemHandles |-> 0]
  /\ opened = {} /\ asFile = [h \in MemHandles |-> <<>>]
  /\ faithful = [h \in MemHandles |-> TRUE] /\ got = Nothing

\* create and open_base: the info of the file is copied.
OpenMem(h) ==
  /\ h \notin opened /\ opened' = opened \cup {h}
  /\ pos' = [pos EXCEPT ![h] = 0]
  /\ size' = [size EXCEPT ![h] = IF writable THEN 0 ELSE BlobSize]
  /\ asFile' = [asFile EXCEPT ![h] = IF writable THEN <<>> ELSE blob]
  /\ faithful' = [faithful EXCEPT ![h] = TRUE] /\ got' = Nothing
  /\ UNCHANGED <<blob, writable>>

CloseMem(h) ==
  /\ h \in opened /\ opened' = opened \ {h} /\ got' = Nothing
  /\ UNCHANGED <<blob, writable, pos, size, asFile, faithful>>

Overwritten(bytes, at, block) ==
  [k \in 1 .. Larger(Len(bytes), at + Len(block)) |->
     IF k > at /\ k <= at + Len(block) THEN block[k - at] ELSE bytes[k]]

Bytes(bytes, from, n) == SubSeq(bytes, from + 1, from + n)

\* A write in the middle leaves the size; the bug cuts the file there.
NewSizeCuts(old, end) == end
NewSize(old, end) == Larger(old, end)

\* xsputn: as much as there is room for in the blob.
WriteBlock(h, block) ==
  LET actual == Smaller(Len(block), BlobSize - pos[h])
      part == Bytes(block, 0, actual)
  IN  /\ h \in opened /\ writable
      /\ blob' = Overwritten(blob, pos[h], part)
      /\ pos' = [pos EXCEPT ![h] = @ + actual]
      /\ size' = [size EXCEPT ![h] = NewSize(@, pos[h] + actual)]
      /\ asFile' = IF faithful[h] THEN [asFile EXCEPT ![h] = Overwritten(@, pos[h], part)]
                   ELSE asFile
      /\ faithful' = [g \in MemHandles |-> faithful[g] /\ g = h] /\ got' = Nothing
      /\ UNCHANGED <<opened, writable>>

\* xsgetn: "actual" is negative when uflow has gone beyond the size.
ReadBlock(h, n) ==
  LET actual == Smaller(n, size[h] - pos[h])
  IN  /\ h \in opened
      /\ pos' = [pos EXCEPT ![h] = @ + actual]
      /\ got' = IF faithful[h] THEN [read |-> Bytes(blob, pos[h], actual),
                                     due |-> Bytes(asFile[h], pos[h],
                                                   Smaller(n, Len(asFile[h]) - pos[h]))]
                ELSE Nothing
      /\ UNCHANGED <<blob, writable, size, opened, asFile, faithful>>

\* seekoff, from the beginning, the position or the end.
Seek(h, way, off) ==
  LET from == CASE way = "beg" -> 0 [] way = "cur" -> pos[h] [] way = "end" -> size[h]
  IN  /\ h \in opened
      /\ pos' = [pos EXCEPT ![h] = Larger(0, Smaller(from + off, size[h]))]
      /\ got' = Nothing
      /\ UNCHANGED <<blob, writable, size, opened, asFile, faithful>>

\* overflow, the put of one character: the position stays, and at the end of
\* the blob the byte after it is written, which is not the file's.
PutChar(h, c) ==
  /\ h \in opened /\ writable
  /\ blob' = IF pos[h] < BlobSize THEN [blob EXCEPT ![pos[h] + 1] = c] ELSE blob
  /\ faithful' = [g \in MemHandles |-> FALSE] /\ got' = Nothing
  /\ UNCHANGED <<pos, size, opened, asFile, writable>>

\* uflow, the get of one character, goes up to the end of the blob; underflow,
\* the peek, changes nothing.
GetChar(h) ==
  /\ h \in opened /\ pos[h] < BlobSize
  /\ pos' = [pos EXCEPT ![h] = @ + 1]
  /\ faithful' = [faithful EXCEPT ![h] = @ /\ pos[h] < size[h]]
  /\ got' = IF faithful'[h] THEN [read |-> Bytes(blob, pos[h], 1),
                                  due |-> Bytes(asFile[h], pos[h], 1)]
            ELSE Nothing
  /\ UNCHANGED <<blob, writable, size, opened, asFile>>

MemNext ==
  \E h \in MemHandles :
    \/ OpenMem(h) \/ CloseMem(h) \/ GetChar(h)
    \/ \E block \in Blocks : WriteBlock(h, block)
    \/ \E n \in 1 .. BlobSize : ReadBlock(h, n)
    \/ \E way \in {"beg", "cur", "end"}, off \in -1 .. 1 : Seek(h, way, off)
    \/ \E c \in Characters : PutChar(h, c)

\* Until another handle writes, a character is put, or one is got beyond the
\* size, a handle is a file of its own: it reads what it has written at the
\* place it has sought, and the bytes below its size are its file.  Whatever
\* is done, no position leaves the blob.
BlockIOIsAFile ==
  /\ got.read = got.due
  /\ \A h \in opened : /\ pos[h] \in 0 .. BlobSize
                       /\ faithful[h] => /\ Bytes(blob, 0, size[h]) = asFile[h]
                                         /\ pos[h] <= size[h]
====
