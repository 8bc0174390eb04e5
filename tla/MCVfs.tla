---- MODULE MCVfs ----
(***************************************************************************)
(* Two threads over the file systems of the disk and of the memory: the      *)
(* working directory mounted at the root, and two mounts over each other at  *)
(* d/, one of the memory and one of the directory disk/.                     *)
(***************************************************************************)
EXTENDS Vfs, TLC

CONSTANTS t1, t2

File(names, f) == [dirs |-> names, file |-> f]

MCProgram == (t1 :> {"mount", "store"} @@ t2 :> {"file", "copy", "list"})
MCMountArgs ==
  {[src |-> Here, dest |-> Here, mode |-> {"in"}],
   [src |-> DirPath(<<"memfile">>), dest |-> DirPath(<<"d">>), mode |-> {"in", "out"}],
   [src |-> DirPath(<<"disk">>), dest |-> DirPath(<<"d">>), mode |-> {"in", "out"}]}
MCQueries == {File(<<"disk">>, "g"), File(<<"d">>, "f")}
MCRoots == {DirPath(<<"d">>), Here}
MCMemFiles == {File(<<"memfile">>, "f")}
MCDiskDirs == {<<>>, <<".">>, <<"disk">>}
MCDiskFiles == {File(<<"disk">>, "f"), File(<<"disk">>, "g")}
====
