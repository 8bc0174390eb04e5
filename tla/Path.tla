---- MODULE Path ----
(***************************************************************************)
(* vfs::Path (CORE/VFS/path.cpp): a path is the names of its directories,   *)
(* each followed by one separator, and the name of its file, "" if it has   *)
(* none.  A first directory "" is a leading separator, one further on two   *)
(* separators in a row.  The separators of the constructors are one (either *)
(* slash), and names are atomic: none is a proper prefix of another.        *)
(***************************************************************************)
EXTENDS Naturals, Sequences

NoName == ""        \* of a leading separator, and of no file

Empty == [dirs |-> <<>>, file |-> NoName]
Here == [dirs |-> <<".">>, file |-> NoName]       \* "./"

DirPath(names) == [dirs |-> names, file |-> NoName]

\* operator+
Join(p, q) == IF p.file # NoName THEN Empty
              ELSE IF p = Here THEN q
              ELSE [dirs |-> p.dirs \o q.dirs, file |-> q.file]

Names(p) == IF p.file = NoName THEN p.dirs ELSE Append(p.dirs, p.file)

\* The string of p is a prefix of that of q.
IsParent(p, q) ==
  /\ Len(Names(p)) <= Len(Names(q))
  /\ Names(p) = SubSeq(Names(q), 1, Len(Names(p)))
  /\ p.file = NoName => Len(p.dirs) <= Len(q.dirs)

StripParent(p, parent) ==
  [dirs |-> SubSeq(p.dirs, Len(parent.dirs) + 1, Len(p.dirs)), file |-> p.file]

\* The bug counts one name to remove for any number of "..".
PassedOnce(name, sofar) ==
  IF name = "." THEN sofar
  ELSE IF name = ".." THEN [sofar EXCEPT !.skip = 1]
  ELSE IF sofar.skip > 0 THEN [sofar EXCEPT !.skip = 0]
  ELSE [sofar EXCEPT !.kept = <<name>> \o @]

\* One directory of the loop of resolve, which goes from the last to the
\* first: what is kept so far, and how many names a ".." has still to remove.
Passed(name, sofar) ==
  IF name = "." THEN sofar
  ELSE IF name = ".." THEN [sofar EXCEPT !.skip = @ + 1]
  ELSE IF sofar.skip > 0 THEN [sofar EXCEPT !.skip = @ - 1]
  ELSE [sofar EXCEPT !.kept = <<name>> \o @]

\* The loop: the first directory is the last it meets; a ".." there is kept
\* and fails the call, and a leading separator ends the loop unseen.
Walked(dirs) ==
  LET from[i \in 2 .. Len(dirs) + 1] ==
        IF i > Len(dirs) THEN [kept |-> <<>>, skip |-> 0] ELSE Passed(dirs[i], from[i + 1])
  IN  IF dirs[1] = NoName THEN from[2] ELSE Passed(dirs[1], from[2])

HasDots(p) == \E i \in DOMAIN p.dirs : p.dirs[i] \in {".", ".."}

Resolve(p) ==
  IF ~HasDots(p) THEN p
  ELSE LET walked == Walked(p.dirs)
       IN  IF walked.skip > 0 THEN Empty ELSE [dirs |-> walked.kept, file |-> p.file]

----------------------------------------------------------------------------
(* What resolve promises, for paths that are relative and have no empty      *)
(* name: walk from the left, one name down or one up, never above the start. *)

Outside == <<NoName>>        \* where no such path leads

Step(name, at) ==
  IF name = "." \/ at = Outside THEN at
  ELSE IF name # ".." THEN Append(at, name)
  ELSE IF at = <<>> THEN Outside
  ELSE SubSeq(at, 1, Len(at) - 1)

Steps(p) ==
  LET at[i \in 0 .. Len(p.dirs)] == IF i = 0 THEN <<>> ELSE Step(p.dirs[i], at[i - 1])
  IN  at[Len(p.dirs)]

Destination(p) == IF Steps(p) = Outside THEN Empty ELSE [dirs |-> Steps(p), file |-> p.file]
====
