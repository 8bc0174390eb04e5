---- MODULE Regex ----
(***************************************************************************)
(* RegExPattern (CORE/UTIL/regex.cpp): a pattern is cut into tokens, its    *)
(* [] ranges become groups, the groups are put in postfix order, and a      *)
(* nondeterministic machine is made of them, for Nfa to run.                 *)
(*                                                                          *)
(* A pattern with an empty operand ("()", "a|") makes infixToPostfix count   *)
(* down past 0 (Spent is -1 here), and a star over what may be empty makes   *)
(* addSplit call itself for ever: neither is among the patterns built.       *)
(***************************************************************************)
EXTENDS Nfa, SequencesExt

CONSTANTS Patterns,              \* what is built: [text, expr]
          Texts                  \* what is scanned

VARIABLES machine,   \* m_machine
          expr,      \* the expression it was built from (history)
          text,      \* the text scanned last
          found      \* the end of the match scan returned, 0 for none

regexVars == <<machine, expr, text, found>>

NoExpr == [op |-> "none"]
NoMatch == -1        \* nothing has been scanned

----------------------------------------------------------------------------
(* The tokens *)

Op(c) == [type |-> "op", ch |-> c]

Classes == {"s", "d", "w", "a"}
Escapable == {"n", "t", "r", "(", ")", "\\", "[", "]", ".", "+", "*", "?", "|", "^"}

Emit(s, token) == [s EXCEPT !.out = Append(@, token), !.inverted = FALSE]
Literal(s, c) == Emit(s, [type |-> IF s.inverted THEN "notlit" ELSE "lit", ch |-> c])

Fail(s, e) == [s EXCEPT !.error = e]

\* A character that stands for itself in a pattern; the letter after a
\* backslash is kept as it is, also for n, t and r.
Escaped(s, c) ==
  IF c \in Classes THEN Emit(s, [type |-> IF s.inverted THEN "notrange" ELSE "range", ch |-> c])
  ELSE IF c \in Escapable THEN Literal(s, c)
  ELSE Fail(s, "BAD_ESCAPE")

\* An operator; "." is a range as well, and its operator is dropped later.
Operator(s, c) ==
  IF s.inverted THEN Fail(s, "RANGE_OUTSIDE_BRACE")
  ELSE LET dot == IF c = "." THEN Emit(s, [type |-> "range", ch |-> c]) ELSE s
       IN  Emit(dot, Op(c))

Bracket(s, c) ==
  IF c = "(" THEN IF s.braces > 0 THEN Fail(s, "PEREN_INSIDE_BRACE")
                  ELSE Operator([s EXCEPT !.perens = @ + 1], c)
  ELSE IF c = ")" THEN IF s.perens = 0 THEN Fail(s, "MISSING_PEREN")
                       ELSE Operator([s EXCEPT !.perens = @ - 1], c)
  ELSE IF c = "[" THEN IF s.braces > 0 THEN Fail(s, "MISSING_BRACE")
                       ELSE Operator([s EXCEPT !.braces = @ + 1], c)
  ELSE IF s.braces = 0 THEN Fail(s, "MISSING_BRACE")
       ELSE Operator([s EXCEPT !.braces = @ - 1], c)

\* What follows the last character, and the last token of the steps below.
EndOfPattern == ""
EndOfTokens == [type |-> "end", ch |-> ""]

EscapeStep(s, c) ==
  IF s.error # "NONE" THEN s
  ELSE IF c = EndOfPattern
  THEN IF s.escaping THEN Fail(s, "MISSING_ESCAPE")
       ELSE IF s.perens # 0 THEN Fail(s, "MISSING_PEREN")
       ELSE IF s.braces # 0 THEN Fail(s, "MISSING_BRACE") ELSE s
  ELSE IF s.escaping THEN Escaped([s EXCEPT !.escaping = FALSE], c)
  ELSE IF c = "\\" THEN [s EXCEPT !.escaping = TRUE]
  ELSE IF c \in {"(", ")", "[", "]"} THEN Bracket(s, c)
  ELSE IF c = "^" THEN IF s.braces = 0 THEN Fail(s, "RANGE_OUTSIDE_BRACE")
                       ELSE [s EXCEPT !.inverted = TRUE]
  ELSE IF c \in {"+", "|", "*", "?", "."} THEN Operator(s, c)
  ELSE Literal(s, c)

\* escapePattern
Escape(pattern) ==
  FoldLeft(EscapeStep, [out |-> <<>>, perens |-> 0, braces |-> 0, inverted |-> FALSE,
                        escaping |-> FALSE, error |-> "NONE"],
           Append(pattern, EndOfPattern))

\* expandPattern: [xyz] is (x|y|z).
ExpandStep(s, t) ==
  IF ~s.inside THEN IF t = Op("[") THEN [inside |-> TRUE, out |-> Append(s.out, Op("("))]
                    ELSE [s EXCEPT !.out = Append(@, t)]
  ELSE IF t = Op("]") THEN [inside |-> FALSE, out |-> Append(s.out, Op(")"))]
  ELSE IF Last(s.out) = Op("(") THEN [s EXCEPT !.out = Append(@, t)]
  ELSE [s EXCEPT !.out = @ \o <<Op("|"), t>>]

Expand(tokens) == FoldLeft(ExpandStep, [inside |-> FALSE, out |-> <<>>], tokens).out

----------------------------------------------------------------------------
(* infixToPostfix: per open group, the operands that wait to be concatenated *)
(* and the alternatives that wait for their operator, the innermost last     *)

Spent == -1
Repeat(x, n) == [i \in 1 .. n |-> x]

\* Before an operand: the two before it are concatenated.
Concat(s) == IF Last(s.lits) <= 1 THEN s
             ELSE [s EXCEPT !.out = Append(@, Op("&")), !.lits[Len(s.lits)] = @ - 1]

\* while (--lits.top()): the operands of an alternative become one.
Flush(s) ==
  IF Last(s.lits) = 0 THEN [s EXCEPT !.lits[Len(s.lits)] = Spent]
  ELSE [s EXCEPT !.out = @ \o Repeat(Op("&"), Last(s.lits) - 1), !.lits[Len(s.lits)] = 0]

CloseAlts(s) == [s EXCEPT !.out = @ \o Repeat(Op("|"), Last(s.alts)), !.alts = Front(@)]

Operand(s) == [s EXCEPT !.lits[Len(s.lits)] = @ + 1]

CloseGroup(s) == Operand([CloseAlts(Flush(s)) EXCEPT !.lits = Front(@)])

PostfixStep(s, t) ==
  IF s.error # "NONE" THEN s
  ELSE IF t = EndOfTokens THEN CloseAlts(Flush(s))
  ELSE IF t.type # "op" THEN LET c == Concat(s)
                             IN  Operand([c EXCEPT !.out = Append(@, t)])
  ELSE IF t.ch = "(" THEN LET c == Concat(s)
                          IN  [c EXCEPT !.alts = Append(@, 0), !.lits = Append(@, 0)]
  ELSE IF t.ch = ")" THEN CloseGroup(s)
  ELSE IF t.ch = "." THEN s
  ELSE IF Last(s.lits) = 0 THEN Fail(s, "MISSING_OPERAND")
  ELSE IF t.ch = "|" THEN LET f == Flush(s) IN [f EXCEPT !.alts[Len(f.alts)] = @ + 1]
  ELSE [s EXCEPT !.out = Append(@, t)]

\* On what escapePattern has left, which may be an error.
Postfix(escaped) ==
  FoldLeft(PostfixStep, [out |-> <<>>, alts |-> <<0>>, lits |-> <<0>>, error |-> escaped.error],
           Append(Expand(escaped.out), EndOfTokens))

----------------------------------------------------------------------------
(* Nfa::build *)

\* The bug connects the first exit of a split, which is its loop.
ConnectFirst(states, exits, next) ==
  [k \in DOMAIN states |-> IF k \in exits THEN [states[k] EXCEPT !.out = next] ELSE states[k]]

\* connect: the open exits of a fragment lead to the state next.
Connect(states, exits, next) ==
  [k \in DOMAIN states |->
     IF k \notin exits THEN states[k]
     ELSE IF states[k].out = Nowhere THEN [states[k] EXCEPT !.out = next]
     ELSE [states[k] EXCEPT !.out1 = next]]

\* A fragment has the state it starts with and the states with open exits.
Frag(start, exits) == [start |-> start, exits |-> exits]

BuildStep(s, t) ==
  LET new == Len(s.states) + 1
      top == Last(s.frags)
      rest == Front(s.frags)
      below == Last(rest)
      loop == Connect(Append(s.states, Split(top.start, Nowhere)), top.exits, new)
  IN  IF t = EndOfTokens
      THEN [states |-> Connect(Append(s.states, State("match", "?", Nowhere, Nowhere)),
                               top.exits, new),
            frags |-> <<Frag(top.start, {})>>]
      ELSE IF t.type # "op"
      THEN [states |-> Append(s.states, State(t.type, t.ch, Nowhere, Nowhere)),
            frags |-> Append(s.frags, Frag(new, {new}))]
      ELSE IF t.ch = "+"
      THEN [states |-> loop, frags |-> Append(rest, Frag(top.start, {new}))]
      ELSE IF t.ch = "*"
      THEN [states |-> loop, frags |-> Append(rest, Frag(new, {new}))]
      ELSE IF t.ch = "?"
      THEN [states |-> Append(s.states, Split(top.start, Nowhere)),
            frags |-> Append(rest, Frag(new, top.exits \cup {new}))]
      ELSE IF t.ch = "|"
      THEN [states |-> Append(s.states, Split(below.start, top.start)),
            frags |-> Append(Front(rest), Frag(new, below.exits \cup top.exits))]
      ELSE [states |-> Connect(s.states, below.exits, top.start),
            frags |-> Append(Front(rest), Frag(below.start, top.exits))]

NoMachine == [states |-> <<>>, frags |-> <<>>]

\* On a postfix expression; one that was refused leaves a machine of no states.
\* The fragment that is left is the whole machine.
Build(postfix) ==
  IF postfix.error # "NONE" THEN NoMachine
  ELSE FoldLeft(BuildStep, NoMachine, Append(postfix.out, EndOfTokens))

\* RegExPattern::build
Compile(pattern) == Build(Postfix(Escape(pattern)))

----------------------------------------------------------------------------
(* A RegExPattern object *)

RegexInit == machine = NoMachine /\ expr = NoExpr /\ text = <<>> /\ found = NoMatch

\* Bound: an object is built again before it is used, or never.
BuildPattern(p) ==
  /\ found = NoMatch
  /\ machine' = Compile(p.text)
  /\ expr' = p.expr
  /\ UNCHANGED <<text, found>>

\* scan, and match, which compares its result with the end of the text.  On a
\* machine of no states it reads an m_start that nobody has set.
ScanText(s) ==
  /\ found = NoMatch /\ expr # NoExpr
  /\ text' = s
  /\ found' = Scan(machine, s, 0)
  /\ UNCHANGED <<machine, expr>>

RegexNext == \/ \E p \in Patterns : BuildPattern(p)
             \/ \E s \in Texts : ScanText(s)

----------------------------------------------------------------------------
(* What a pattern means: the ends of the matches of e that begin after i.    *)

RECURSIVE Ends(_, _, _), Repeated(_, _, _)
Ends(e, s, i) ==
  CASE e.op = "char"  -> IF i < Len(s) /\ Accepts(e.token, s[i + 1]) THEN {i + 1} ELSE {}
    [] e.op = "cat"   -> UNION {Ends(e.right, s, j) : j \in Ends(e.left, s, i)}
    [] e.op = "or"    -> Ends(e.left, s, i) \cup Ends(e.right, s, i)
    [] e.op = "opt"   -> {i} \cup Ends(e.left, s, i)
    [] e.op = "star"  -> Repeated(e.left, s, {i})
    [] e.op = "plus"  -> Repeated(e.left, s, Ends(e.left, s, i))

Repeated(e, s, from) ==
  LET more == from \cup UNION {Ends(e, s, j) : j \in from}
  IN  IF more = from THEN from ELSE Repeated(e, s, more)

\* scan returns the end of the first run of matches: it "continues until the
\* first of end or match rejection" (regex.h:62), for every pattern and text.
ScanFindsFirstRun == found # NoMatch => found = FirstRun(Ends(expr, text, 0) \ {0}, 0)
====
