---- MODULE PathResolution ----
(***************************************************************************)
(* Paths that are put together from names, "." and "..", and resolved, as in *)
(* findFileSysOperation (CORE/VFS/vfs_internal.cpp) does with what it gets.  *)
(***************************************************************************)
EXTENDS Path

CONSTANTS PathNames,   \* the names of directories, "." and ".." among them
          MaxDepth     \* bound: directories of a path

\* A path that is relative has no empty name.
ASSUME NamesAssumption == NoName \notin PathNames

VARIABLE path

PathInit == path = Empty

PathNext ==
  \/ /\ Len(path.dirs) < MaxDepth
     /\ \E n \in PathNames : path' = DirPath(Append(path.dirs, n))
  \/ path' = Resolve(path)

(***************************************************************************)
(* Whatever mix of names, "." and "..", resolve gives the directory that is  *)
(* reached by following them from the left, and no path for one that leaves  *)
(* the root (path.cpp:142), though it goes through them from the right.      *)
(***************************************************************************)
PathResolves == Resolve(path) = Destination(path)
====
