---- MODULE Vfs ----
(***************************************************************************)
(* The virtual file system (CORE/VFS/vfs_internal.cpp): the table of mounts *)
(* and its mutex, the file systems behind it (filesys_stdio.cpp,            *)
(* filesys_mem.cpp) as far as they decide what a call finds, the files of   *)
(* vfs_file.cpp, Copy, and the directory iterator, which takes no lock.     *)
(*                                                                          *)
(* A call that holds the mutex from its beginning to its end is one action; *)
(* Copy and a listing are several.  What files contain is left out.         *)
(***************************************************************************)
EXTENDS Path, FiniteSets

CONSTANTS Threads,      \* the callers
          NoThread,     \* no thread
          Program,      \* per thread: the kinds of calls it makes
          MountArgs,    \* the mounts asked for: [src, dest, mode]
          Queries,      \* the logical paths opened, copied, removed
          Roots,        \* the logical directories listed
          MemFiles,     \* the in-memory files created
          DiskDirs, DiskFiles,   \* what the disk holds at the start
          MaxId,        \* bound: mounts asked for
          MaxHandles    \* bound: handles open at a time

NoHandle == 0
Idle == [stage |-> "idle"]
MemRoot == DirPath(<<"memfile">>)
FileSystems == {"stdio", "mem"}

ASSUME VfsAssumption == /\ NoThread \notin Threads
                        /\ MaxId \in Nat /\ MaxHandles \in Nat
                        /\ \A a \in MountArgs : a.mode \subseteq {"in", "out"}

VARIABLES mounts,      \* m_mountPoints: [id, fs, src, dest], the oldest first
          known,       \* the m_mounts of each file system: id -> mode
          nextId,      \* m_id
          secure,      \* m_vfsUseSecurePaths
          lock,        \* the thread that holds m_mutex and will not let go
          dirs, disk,  \* the directories and files the system has
          mem,         \* m_files: path -> read-only?
          handles,     \* the open handles, numbered
          file,        \* per thread: its stream's handle and filter depth
          copy,        \* per thread: its call of Copy
          list,        \* per thread: its directory iterator
          aborted      \* CHECK_UNREACHABLE ended the process

table == <<mounts, known, nextId>>
store == <<dirs, disk, mem>>
calls == <<handles, file, copy>>
vars == <<table, secure, lock, store, calls, list, aborted>>

Ids == {mounts[k].id : k \in DOMAIN mounts}

\* The mutex can be taken; a call can be begun; a call that takes it can be.
CanLock == lock = NoThread /\ ~aborted
Free(t) == copy[t] = Idle /\ lock # t /\ ~aborted
Begin(t) == Free(t) /\ CanLock

\* Bound: a thread has one file, one copy or one listing at a time.
Unbound(t) == file[t].handle = NoHandle /\ copy[t] = Idle /\ list[t] = Idle

Init == /\ mounts = <<>> /\ nextId = 0
        /\ known = [fs \in FileSystems |-> <<>>]
        /\ secure = FALSE /\ lock = NoThread /\ aborted = FALSE
        /\ dirs = DiskDirs /\ disk = DiskFiles /\ mem = <<>>
        /\ handles = {}
        /\ file = [t \in Threads |-> [handle |-> NoHandle, depth |-> 0]]
        /\ copy = [t \in Threads |-> Idle]
        /\ list = [t \in Threads |-> Idle]

----------------------------------------------------------------------------
(* The table of mounts *)

DirExists(p) == p.file = "" /\ p # Empty /\ p.dirs \in dirs

\* The file system that takes a mount of p: they are asked in order.
Taker(p) == IF DirExists(p) THEN "stdio"
            ELSE IF IsParent(MemRoot, p) THEN "mem" ELSE "none"

With(f, x, y) == [z \in DOMAIN f \cup {x} |-> IF z = x THEN y ELSE f[z]]
Without(f, xs) == [z \in DOMAIN f \ xs |-> f[z]]

Mount(t, a) ==
  LET src == IF secure THEN Resolve(a.src) ELSE a.src
      fs  == Taker(src)
  IN  /\ Begin(t) /\ nextId < MaxId
      /\ ~(secure /\ src = Empty)
      /\ nextId' = nextId + 1
      /\ IF fs = "none" THEN UNCHANGED <<mounts, known>>
         ELSE /\ known' = [known EXCEPT ![fs] = With(@, nextId, a.mode)]
              /\ mounts' = Append(mounts, [id |-> nextId, fs |-> fs, src |-> src,
                                           dest |-> Resolve(a.dest)])
      /\ UNCHANGED <<secure, lock, store, calls, list, aborted>>

\* A file system refuses to unmount what it does not know; the loop then stays
\* where it is, for ever, with the mutex.
Unmount(t, id) ==
  /\ Begin(t)
  /\ \E k \in DOMAIN mounts :
       /\ mounts[k].id = id
       /\ \A j \in 1 .. k - 1 : mounts[j].id # id
       /\ IF id \in DOMAIN known[mounts[k].fs]
          THEN /\ mounts' = SubSeq(mounts, 1, k - 1) \o SubSeq(mounts, k + 1, Len(mounts))
               /\ known' = [known EXCEPT ![mounts[k].fs] = Without(@, {id})]
               /\ UNCHANGED lock
          ELSE /\ lock' = t
               /\ UNCHANGED <<mounts, known>>
  /\ UNCHANGED <<nextId, secure, store, calls, list, aborted>>

\* Mutant: the table is cleared and the file systems are not told.
UnmountAllSilent(t) ==
  /\ Begin(t) /\ mounts # <<>>
  /\ mounts' = <<>>
  /\ UNCHANGED <<known, nextId, secure, lock, store, calls, list, aborted>>

UnmountAll(t) ==
  /\ Begin(t) /\ mounts # <<>>
  /\ mounts' = <<>>
  /\ known' = [fs \in FileSystems |->
                 Without(known[fs], {mounts[k].id : k \in {j \in DOMAIN mounts : mounts[j].fs = fs}})]
  /\ UNCHANGED <<nextId, secure, lock, store, calls, list, aborted>>

SetSecurePathing(t) ==
  /\ Begin(t)
  /\ secure' = ~secure
  /\ UNCHANGED <<table, lock, store, calls, list, aborted>>

\* MkDir takes the mutex and calls Stat, which takes it; MountTempFolder calls
\* mount.  A std::mutex is not recursive.
LockTwice(t) ==
  /\ Begin(t)
  /\ lock' = t
  /\ UNCHANGED <<table, secure, store, calls, list, aborted>>

----------------------------------------------------------------------------
(* The lookup *)

\* What is tried for the path p, by rank: the newest mount first, and on a mount
\* of the disk, without secure paths, the path itself before the mounted one.
Attempts(p) ==
  LET try(k, at) == [mount |-> mounts[k].id, fs |-> mounts[k].fs, at |-> at]
  IN  {[rank |-> 2 * k + 1, on |-> try(k, p)] :
         k \in {k \in DOMAIN mounts : ~secure /\ mounts[k].fs = "stdio"}} \cup
      {[rank |-> 2 * k, on |-> try(k, Join(mounts[k].src, StripParent(p, mounts[k].dest)))] :
         k \in {k \in DOMAIN mounts : IsParent(mounts[k].dest, p)}}

InPath(q) == IF Resolve(q) = Empty /\ ~secure THEN q ELSE Resolve(q)

NotFound == [mount |-> MaxId, fs |-> "none", at |-> Empty]

\* Mutant: the oldest mount is asked first.
FirstOldest(attempts) ==
  IF attempts = {} THEN NotFound
  ELSE (CHOOSE a \in attempts : \A b \in attempts : a.rank <= b.rank).on

\* findFileSysOperation: the first attempt that the file system accepts.
First(attempts) ==
  IF attempts = {} THEN NotFound
  ELSE (CHOOSE a \in attempts : \A b \in attempts : a.rank >= b.rank).on

Tried(q) == IF InPath(q) = Empty THEN {} ELSE Attempts(InPath(q))

ModeOf(a) == known[a.fs][a.mount]

\* The open of each file system, whose CHECK says that it knows the mount.
Opens(a, mode) ==
  /\ mode \in ModeOf(a)
  /\ IF a.fs = "mem" THEN /\ a.at \in DOMAIN mem
                          /\ mode = "out" => ~mem[a.at]
     ELSE a.at.file # "" /\ IF mode = "in" THEN a.at \in disk ELSE a.at.dirs \in dirs

Opened(q, mode) == First({a \in Tried(q) : Opens(a.on, mode)})

\* A handle that does not exist yet, and the store after an open for writing.
Fresh == CHOOSE h \in 1 .. MaxHandles : h \notin handles

OpenHandle(q, mode) ==
  LET a == Opened(q, mode)
  IN  /\ handles # 1 .. MaxHandles
      /\ a # NotFound
      /\ handles' = handles \cup {Fresh}
      /\ disk' = IF a.fs = "stdio" THEN disk \cup {a.at} ELSE disk
      /\ UNCHANGED <<dirs, mem>>

CloseHandle(h) == handles' = handles \ {h}

----------------------------------------------------------------------------
(* Files, removal, creation *)

OpenFile(t, q, mode) ==
  /\ Begin(t) /\ Unbound(t)
  /\ OpenHandle(q, mode)
  /\ file' = [file EXCEPT ![t].handle = Fresh]
  /\ UNCHANGED <<table, secure, lock, copy, list, aborted>>

\* close, and the destructor; its CHECK wants the filters popped.
CloseFile(t) ==
  /\ Begin(t) /\ file[t].handle # NoHandle /\ file[t].depth = 0
  /\ CloseHandle(file[t].handle)
  /\ file' = [file EXCEPT ![t].handle = NoHandle]
  /\ UNCHANGED <<table, secure, lock, store, copy, list, aborted>>

\* pushFilter and popFilter, bounded to one filter.
Filter(t) ==
  /\ Free(t) /\ file[t].handle # NoHandle
  /\ file' = [file EXCEPT ![t].depth = 1 - @]
  /\ UNCHANGED <<table, secure, lock, store, handles, copy, list, aborted>>

\* remove and rmdir: in memory they are accepted, whatever there is.
Removes(a) == a.fs = "stdio" => "out" \in ModeOf(a)
Removed(q) == First({a \in Tried(q) : Removes(a.on)})

Remove(t, q) ==
  LET a == Removed(q)
  IN  /\ Begin(t) /\ a # NotFound
      /\ disk' = IF a.fs = "stdio" THEN disk \ {a.at} ELSE disk
      /\ mem' = IF a.fs = "mem" THEN Without(mem, {a.at}) ELSE mem
      /\ UNCHANGED <<dirs, table, secure, lock, calls, list, aborted>>

\* Everything the disk holds, and the names of the directory it is in.
OnDisk == disk \cup {DirPath(d) : d \in dirs \ {<<>>, <<".">>}}
Above(f) == SubSeq(Names(f), 1, Len(Names(f)) - 1)

\* rmdir of the system refuses a directory that is not empty.
RmDir(t, q) ==
  LET a == Removed(q)
  IN  /\ Begin(t) /\ a.fs = "stdio" /\ a.at # Here
      /\ DirExists(a.at) /\ \A f \in OnDisk : Above(f) # a.at.dirs
      /\ dirs' = dirs \ {a.at.dirs}
      /\ UNCHANGED <<disk, mem, table, secure, lock, calls, list, aborted>>

\* MemFileSystem::create, which takes the file system's own lock only.
CreateMem(t, p, readonly) ==
  /\ Free(t) /\ p \notin DOMAIN mem
  /\ mem' = With(mem, p, readonly)
  /\ UNCHANGED <<dirs, disk, table, secure, lock, calls, list, aborted>>

----------------------------------------------------------------------------
(* Copy: two opens, a loop over both, two closes, each open and close a     *)
(* critical section of its own                                              *)

CopyOpensIn(t, q, r) ==
  /\ Begin(t) /\ Unbound(t)
  /\ OpenHandle(q, "in")
  /\ copy' = [copy EXCEPT ![t] = [stage |-> "out", in |-> Fresh, to |-> r]]
  /\ UNCHANGED <<table, secure, lock, file, list, aborted>>

CopyOpensOut(t) ==
  /\ CanLock /\ copy[t].stage = "out"
  /\ OpenHandle(copy[t].to, "out")
  /\ copy' = [copy EXCEPT ![t] = [stage |-> "both", in |-> copy[t].in, out |-> Fresh]]
  /\ UNCHANGED <<table, secure, lock, file, list, aborted>>

\* Mutant: the input stays open when the output cannot be opened.
CopyFailsOpen(t) ==
  /\ CanLock /\ copy[t].stage = "out"
  /\ Opened(copy[t].to, "out") = NotFound
  /\ copy' = [copy EXCEPT ![t] = Idle]
  /\ UNCHANGED <<table, secure, lock, store, handles, file, list, aborted>>

\* Mutant: Copy waits for an output it can open.
CopyRetries(t) ==
  /\ CanLock /\ copy[t].stage = "out"
  /\ Opened(copy[t].to, "out") = NotFound
  /\ UNCHANGED vars

CopyFails(t) ==
  /\ CanLock /\ copy[t].stage = "out"
  /\ Opened(copy[t].to, "out") = NotFound
  /\ CloseHandle(copy[t].in)
  /\ copy' = [copy EXCEPT ![t] = Idle]
  /\ UNCHANGED <<table, secure, lock, store, file, list, aborted>>

\* The loop has ended, with or without a short write.
CopyClosesIn(t) ==
  /\ CanLock /\ copy[t].stage = "both"
  /\ CloseHandle(copy[t].in)
  /\ copy' = [copy EXCEPT ![t] = [stage |-> "last", out |-> copy[t].out]]
  /\ UNCHANGED <<table, secure, lock, store, file, list, aborted>>

CopyClosesOut(t) ==
  /\ CanLock /\ copy[t].stage = "last"
  /\ CloseHandle(copy[t].out)
  /\ copy' = [copy EXCEPT ![t] = Idle]
  /\ UNCHANGED <<table, secure, lock, store, file, list, aborted>>

Copy(t) == \/ \E q, r \in Queries : CopyOpensIn(t, q, r)
           \/ CopyOpensOut(t) \/ CopyFails(t) \/ CopyClosesIn(t) \/ CopyClosesOut(t)

----------------------------------------------------------------------------
(* The directory iterator: the newest mount first, its entries one by one,   *)
(* then the next older mount from where the last one stands in the table     *)

\* The place a mount is listed at for a root, Empty if it is not; a mount below
\* the root is listed too when the listing is recursive.
ListedAt(m, l) ==
  IF IsParent(m.dest, l.root) THEN Join(m.src, StripParent(l.root, m.dest))
  ELSE IF l.recurse /\ IsParent(l.root, m.dest) THEN Join(m.src, l.root) ELSE Empty

\* iterate of the file systems: only the disk has entries.
Entries(m, p, recurse) ==
  IF m.fs = "mem" \/ "in" \notin known["stdio"][m.id] THEN {}
  ELSE {f \in OnDisk : IF recurse THEN f # p /\ IsParent(p, f) ELSE Above(f) = p.dirs}

\* Where the search goes on: below the last mount, or nowhere if it is gone.
Below(l) == IF l.last = MaxId THEN Len(mounts)
            ELSE IF l.last \notin Ids THEN 0
            ELSE (CHOOSE k \in DOMAIN mounts : mounts[k].id = l.last) - 1

\* Mutant: the search stops at the first mount, though it has nothing to list.
StopsAtOnce(l, rest) == rest

\* Of the mounts that are left, those with something to list: the others are
\* passed.
Stops(l, rest) ==
  {k \in rest : Entries(mounts[k], ListedAt(mounts[k], l), l.recurse) # {}}

\* findNextMount
NextMount(l) ==
  LET rest  == {k \in 1 .. Below(l) : ListedAt(mounts[k], l) # Empty}
      full  == Stops(l, rest)
      stop  == IF full = {} THEN 0 ELSE CHOOSE k \in full : \A j \in full : j <= k
      past  == {k \in rest : k >= stop}
      child == IF stop = 0 THEN {}
               ELSE Entries(mounts[stop], ListedAt(mounts[stop], l), l.recurse)
  IN  [l EXCEPT !.stage = IF child = {} THEN "end" ELSE "on",
                !.last = IF past = {} THEN @
                         ELSE mounts[CHOOSE k \in past : \A j \in past : k <= j].id,
                !.child = child,
                !.visited = @ \cup {mounts[k].id : k \in past},
                !.cut = @ \/ (l.last # MaxId /\ l.last \notin Ids)]

\* "staying" are the mounts in the table since the listing began (history).
List(t, root, recurse) ==
  /\ Free(t) /\ Unbound(t)
  /\ list' = [list EXCEPT ![t] = NextMount(
                [stage |-> "on", root |-> Resolve(root), recurse |-> recurse, last |-> MaxId,
                 child |-> {}, visited |-> {}, cut |-> FALSE, staying |-> Ids])]
  /\ UNCHANGED <<table, secure, lock, store, calls, aborted>>

\* operator++: the entry under the iterator is left, and the next one given is
\* translated by looking its mount up, which must still be there.
Advance(t) ==
  LET l == list[t]
  IN  /\ Free(t) /\ l.stage = "on"
      /\ \E left \in l.child :
           LET child == l.child \ {left}
           IN  IF child = {}
               THEN /\ list' = [list EXCEPT ![t] = [NextMount(l) EXCEPT !.staying = @ \cap Ids]]
                    /\ UNCHANGED aborted
               ELSE /\ aborted' = (l.last \notin Ids)
                    /\ list' = [list EXCEPT ![t].child = child, ![t].staying = @ \cap Ids]
      /\ UNCHANGED <<table, secure, lock, store, calls>>

\* The iterator is destroyed, at its end or before.
Drop(t) ==
  /\ Free(t) /\ list[t] # Idle
  /\ list' = [list EXCEPT ![t] = Idle]
  /\ UNCHANGED <<table, secure, lock, store, calls, aborted>>

----------------------------------------------------------------------------
Mounting(t) == \/ \E a \in MountArgs : Mount(t, a)
               \/ \E id \in 0 .. MaxId - 1 : Unmount(t, id)
               \/ UnmountAll(t) \/ SetSecurePathing(t) \/ LockTwice(t)
Filing(t) == \/ \E q \in Queries, mode \in {"in", "out"} : OpenFile(t, q, mode)
             \/ CloseFile(t) \/ Filter(t)
Storing(t) == \/ \E q \in Queries : Remove(t, q)
              \/ \E q \in Roots : RmDir(t, q)
              \/ \E p \in MemFiles, r \in BOOLEAN : CreateMem(t, p, r)
Listing(t) == \/ \E q \in Roots, r \in BOOLEAN : List(t, q, r)
              \/ Advance(t) \/ Drop(t)

Next ==
  \E t \in Threads :
       \/ "mount" \in Program[t] /\ Mounting(t)
       \/ "file" \in Program[t] /\ Filing(t)
       \/ "store" \in Program[t] /\ Storing(t)
       \/ "copy" \in Program[t] /\ Copy(t)
       \/ "list" \in Program[t] /\ Listing(t)

\* A copy that is under way goes on whenever it can have the mutex.
Spec == Init /\ [][Next]_vars
             /\ \A t \in Threads : WF_vars(CopyOpensOut(t) \/ CopyFails(t)
                                           \/ CopyClosesIn(t) \/ CopyClosesOut(t))

----------------------------------------------------------------------------
(* Properties *)

\* Every variable has its type; the lock, the filters and the iterators are of
\* threads that can have them, and filters only stand over an open stream.
TypeOK ==
  /\ \A k \in DOMAIN mounts : mounts[k].fs \in FileSystems
  /\ nextId \in 0 .. MaxId
  /\ Ids \subseteq 0 .. nextId - 1
  /\ secure \in BOOLEAN /\ aborted \in BOOLEAN /\ lock \in Threads \cup {NoThread}
  /\ handles \subseteq 1 .. MaxHandles
  /\ \A t \in Threads : /\ file[t].handle \in handles \cup {NoHandle}
                         /\ file[t].depth = 1 => file[t].handle # NoHandle
                         /\ copy[t].stage \in {"idle", "out", "both", "last"}
                         /\ list[t].stage \in {"idle", "on", "end"}

\* The table and the file systems' own tables hold the same mounts, the later
\* mount with the larger id: so a file system never refuses an unmount of the
\* table's (which would spin, vfs_internal.cpp:271) nor meets a mount it does
\* not know (the CHECK of open).
MountsKnown ==
  /\ \A fs \in FileSystems :
       DOMAIN known[fs] = {mounts[k].id : k \in {j \in DOMAIN mounts : mounts[j].fs = fs}}
  /\ \A j, k \in DOMAIN mounts : j < k => mounts[j].id < mounts[k].id

HeldBy(t) == {file[t].handle} \cup
             (IF copy[t].stage \in {"out", "both"} THEN {copy[t].in} ELSE {}) \cup
             (IF copy[t].stage \in {"both", "last"} THEN {copy[t].out} ELSE {})

\* Whoever opens a file closes it: each open handle is that of one stream or of
\* one Copy in progress, also when the second open of a Copy fails, and also
\* after the mount it was opened on has gone.
HandlesOwned ==
  /\ handles = (UNION {HeldBy(t) : t \in Threads}) \ {NoHandle}
  /\ \A t, u \in Threads : t # u => (HeldBy(t) \cap HeldBy(u)) \subseteq {NoHandle}

\* A listing that has ended normally has listed every mount that could have
\* entries under its root and stayed in the table all the while.
IteratorCovers ==
  \A t \in Threads :
    (list[t].stage = "end" /\ ~list[t].cut) =>
      \A k \in DOMAIN mounts :
        (mounts[k].id \in list[t].staying /\ ListedAt(mounts[k], list[t]) # Empty)
          => mounts[k].id \in list[t].visited

\* Mounts are layers: a new one takes over exactly the paths it can open, and
\* one that goes gives back to the older ones exactly the paths it had.
OpenedOn(id, q, mode) ==
  First({a \in Attempts(InPath(q)) : a.on.mount = id /\ Opens(a.on, mode)})

Overlay ==
  [][mounts' # mounts =>
     \A q \in {q \in Queries : InPath(q) # Empty}, mode \in {"in", "out"} :
       \E before \in {Opened(q, mode)}, after \in {Opened(q, mode)'},
          top \in {OpenedOn(nextId - 1, q, mode)'} :
         IF Len(mounts') > Len(mounts) THEN after = IF top = NotFound THEN before ELSE top
         ELSE before.mount \in Ids' \cup {MaxId} => after = before]_vars

\* Copy comes to its end, whether or not it can open its output, unless the
\* mutex is held by a thread that waits for itself (MkDir, MountTempFolder) or
\* the process has ended.
CopyReturns ==
  \A t \in Threads : copy[t] # Idle ~> (copy[t] = Idle \/ ~CanLock)
====
