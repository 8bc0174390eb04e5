---- MODULE Reductions ----
(***************************************************************************)
(* The stack of LRParser::parse (CORE/UTIL/lrparser.inl): a token is pushed, *)
(* and the end of the stack is reduced by the first chain of the first rule  *)
(* that matches it, until none does.  The parser looks at no token ahead and *)
(* never takes a reduction back, so the order of the rules decides what it   *)
(* can parse.                                                                *)
(*                                                                           *)
(* A rule is a sequence of chains, a chain a sequence of symbols; rules are   *)
(* numbered from 1, the last is the one to be found.  Callbacks accept what   *)
(* they are given.  Lines and the nodes of the callbacks are left out.        *)
(***************************************************************************)
EXTENDS Integers, Sequences

CONSTANTS TokenIds,     \* the ids of the types of tokens
          Grammars      \* m_rules of the parsers

VARIABLES grammar,
          stack,       \* the symbols pushed and reduced
          verdict,     \* what parse returned, "none" before it does
          pushed,      \* the tokens pushed so far (history)
          derivation   \* from these to the stack, what each reduction left (history)

stackVars == <<grammar, stack, verdict, pushed, derivation>>

Token(id) == [token |-> id]
Node(rule) == [rule |-> rule]
IsToken(symbol) == "token" \in DOMAIN symbol
Symbols == [token : TokenIds] \cup [rule : Nat]

ASSUME GrammarAssumption == \A g \in Grammars : g \in Seq(Seq(Seq(Symbols))) /\ g # <<>>

----------------------------------------------------------------------------
(* reduce *)

Chains(g) == UNION {{<<r, c>> : c \in DOMAIN g[r]} : r \in DOMAIN g}

Before(x, y) == x[1] < y[1] \/ (x[1] = y[1] /\ x[2] <= y[2])

\* The chain is what the stack ends with.
Matches(chain, s) ==
  Len(chain) <= Len(s) /\ SubSeq(s, Len(s) - Len(chain) + 1, Len(s)) = chain

Matching(g, s) == {x \in Chains(g) : Matches(g[x[1]][x[2]], s)}

\* The bug is a loop that goes on after a match.
LastMatching(g, s) == {x \in Matching(g, s) : \A y \in Matching(g, s) : Before(y, x)}

FirstMatching(g, s) == {x \in Matching(g, s) : \A y \in Matching(g, s) : Before(x, y)}

\* The bug numbers the node as the chain.
ReducedToChain(g, s, x) == Append(SubSeq(s, 1, Len(s) - Len(g[x[1]][x[2]])), Node(x[2]))

\* What the chain x of the grammar leaves of the stack.
Reduced(g, s, x) == Append(SubSeq(s, 1, Len(s) - Len(g[x[1]][x[2]])), Node(x[1]))

----------------------------------------------------------------------------
(* parse *)

StackInit == /\ grammar \in Grammars /\ stack = <<>> /\ verdict = "none"
             /\ pushed = <<>> /\ derivation = <<<<>>>>

Push(id) ==
  /\ verdict = "none" /\ Matching(grammar, stack) = {}
  /\ stack' = Append(stack, Token(id)) /\ pushed' = Append(pushed, id)
  /\ derivation' = [k \in DOMAIN derivation |-> Append(derivation[k], Token(id))]
  /\ UNCHANGED <<grammar, verdict>>

\* One call of reduce that finds a chain.
Reduce ==
  /\ \E x \in FirstMatching(grammar, stack) : stack' = Reduced(grammar, stack, x)
  /\ derivation' = Append(derivation, stack')
  /\ UNCHANGED <<grammar, verdict, pushed>>

\* The verdict on a stack of one token is read from a m_ruleId nobody has set.
Verdicts ==
  IF Len(stack) # 1 THEN {"rejected"}
  ELSE IF IsToken(stack[1]) THEN {"accepted", "rejected"}
  ELSE IF stack[1].rule = Len(grammar) THEN {"accepted"} ELSE {"rejected"}

Decide == /\ verdict = "none" /\ Matching(grammar, stack) = {}
          /\ verdict' \in Verdicts
          /\ UNCHANGED <<grammar, stack, pushed, derivation>>

StackNext == Reduce \/ Decide \/ \E id \in TokenIds : Push(id)

StackSpec == StackInit /\ [][StackNext]_stackVars

----------------------------------------------------------------------------
\* The last node of x, with nothing but tokens behind it, is derived to one of
\* the chains of its rule, which gives y.
RightmostStep(g, x, y) ==
  \E k \in DOMAIN x :
    /\ ~IsToken(x[k]) /\ \A j \in k + 1 .. Len(x) : IsToken(x[j])
    /\ x[k].rule \in DOMAIN g
    /\ \E c \in DOMAIN g[x[k].rule] :
         y = SubSeq(x, 1, k - 1) \o g[x[k].rule][c] \o SubSeq(x, k + 1, Len(x))

\* The reductions are a rightmost derivation read backwards: from the tokens
\* pushed to the stack, each form is derived from the next one, whatever was
\* pushed between the reductions.  A parse that accepts has derived its tokens
\* from the last rule (lrparser.inl:280), unless it has only one.
RightmostDerivation ==
  /\ derivation[1] = [k \in DOMAIN pushed |-> Token(pushed[k])]
  /\ derivation[Len(derivation)] = stack
  /\ \A k \in 1 .. Len(derivation) - 1 : RightmostStep(grammar, derivation[k + 1], derivation[k])
  /\ verdict = "accepted" =>
       stack = <<Node(Len(grammar))>> \/ (Len(pushed) = 1 /\ stack = derivation[1])

\* No chain is empty, and one that is a single node is of an earlier rule, as in
\* the grammars of protoc (proto_parser.cpp:529) and of the XML files.
Ascending(g) ==
  \A r \in DOMAIN g : \A c \in DOMAIN g[r] :
    g[r][c] # <<>> /\ (Len(g[r][c]) = 1 => IsToken(g[r][c][1]) \/ g[r][c][1].rule < r)

\* The loop "while (reduce(stack))" (lrparser.inl:275) ends: over a whole parse
\* there are at most twice as many reductions as tokens for each rule.
ReductionsEnd ==
  Ascending(grammar) => Len(derivation) - 1 <= 2 * Len(grammar) * Len(pushed)
====
