---- MODULE Nfa ----
(***************************************************************************)
(* RegExPattern::Nfa::scan (CORE/UTIL/regex.cpp): a nondeterministic machine *)
(* runs over a text, with all its threads at once.  Characters are strings   *)
(* of length one, texts are sequences of them.                               *)
(*                                                                           *)
(* Splits that lead in a circle make addSplit call itself for ever; machines *)
(* with one are not among those built.                                       *)
(***************************************************************************)
EXTENDS Integers, Sequences

CONSTANTS Letters, Digits, Spaces   \* the characters of the classes

----------------------------------------------------------------------------
(* The machine: states are numbered from 1, Nowhere is an exit not connected *)

Nowhere == 0
State(type, c, out, out1) == [type |-> type, ch |-> c, out |-> out, out1 |-> out1]
Split(out, out1) == State("split", "?", out, out1)

\* What a machine that was built is: exits lead to its states.
IsMachine(m) ==
  /\ m.states \in Seq([type : {"lit", "notlit", "range", "notrange", "split", "match"}, ch : STRING,
                       out : 0 .. Len(m.states), out1 : 0 .. Len(m.states)])
  /\ m.frags[1].start \in DOMAIN m.states

\* The calls go no deeper than there are splits.
AddSplit(m, k) ==
  LET added[d \in 0 .. Len(m.states)] ==
        [j \in 0 .. Len(m.states) |->
           IF j = Nowhere THEN {}
           ELSE IF m.states[j].type # "split" THEN {j}
           ELSE IF d = 0 THEN {}
           ELSE added[d - 1][m.states[j].out] \cup added[d - 1][m.states[j].out1]]
  IN  added[Len(m.states)][k]

----------------------------------------------------------------------------
(* scan *)

InClass(c, class) == \/ class = "."
                     \/ class = "s" /\ c \in Spaces
                     \/ class = "d" /\ c \in Digits
                     \/ class = "w" /\ c \in Letters \cup Digits \cup {"_"}
                     \/ class = "a" /\ c \in Letters

\* There is no case for an inverted range, which matches nothing.
Accepts(state, c) == \/ state.type = "lit" /\ c = state.ch
                     \/ state.type = "notlit" /\ c # state.ch
                     \/ state.type = "range" /\ InClass(c, state.ch)

IsMatch(m, states) == \E k \in states : m.states[k].type = "match"

\* The threads that are left after the character c.
Moved(m, states, c) ==
  UNION {AddSplit(m, m.states[k].out) : k \in {k \in states : Accepts(m.states[k], c)}}

\* The loop leaves at the first character after a match that is not one.
ScanStep(m, s, c, at) ==
  LET next == Moved(m, s.current, c)
  IN  IF s.done THEN s
      ELSE IF IsMatch(m, next) THEN [current |-> next, end |-> at, done |-> FALSE]
      ELSE [current |-> next, end |-> s.end, done |-> s.end # Nowhere]

\* The end of the match that begins after position "begin", which is returned
\* when there is none.
Scan(m, s, begin) ==
  LET run[at \in begin .. Len(s)] ==
        IF at = begin
        THEN [current |-> AddSplit(m, m.frags[1].start), end |-> Nowhere, done |-> FALSE]
        ELSE ScanStep(m, run[at - 1], s[at], at)
  IN  IF run[Len(s)].end = Nowhere THEN begin ELSE run[Len(s)].end

----------------------------------------------------------------------------
(* What scan is to find                                                      *)

\* p is a way of one thread through the machine: its state after each character
\* of the text up to the k-th.
IsPath(m, s, begin, k, p) ==
  /\ p \in [begin .. k -> DOMAIN m.states]
  /\ p[begin] \in AddSplit(m, m.frags[1].start)
  /\ \A j \in begin + 1 .. k : /\ Accepts(m.states[p[j - 1]], s[j])
                               /\ p[j] \in AddSplit(m, m.states[p[j - 1]].out)

\* The places where a thread ends in a match.
MatchEnds(m, s, begin) ==
  {k \in begin + 1 .. Len(s) :
     \E p \in [begin .. k -> DOMAIN m.states] :
       IsPath(m, s, begin, k, p) /\ m.states[p[k]].type = "match"}

\* Of the places where a match may end, the last of the first run: the shortest
\* match that is not empty, and on from there while each longer one is one too.
FirstRun(ends, begin) ==
  LET runs == {k \in ends : \A j \in begin + 1 .. k : (\E i \in ends : i <= j) => j \in ends}
  IN  IF ends = {} THEN begin ELSE CHOOSE k \in runs : \A j \in runs : j <= k
====
