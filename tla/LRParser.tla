---- MODULE LRParser ----
(***************************************************************************)
(* LRParser::parse (CORE/UTIL/lrparser.inl) over a Tokenizer, which tells    *)
(* the tokens of a text by RegExPatterns: what is pushed on the stack of     *)
(* Reductions, and what is said of a text that is refused.                   *)
(***************************************************************************)
EXTENDS Nfa, Reductions

CONSTANTS TokenTypes,   \* the types of the tokenizer in order: [id, nfa]
          Ignore,       \* the type that is not pushed
          Sources       \* the texts parsed

ASSUME TokenizerAssumption ==
  /\ DOMAIN TokenTypes \subseteq Nat
  /\ \A k \in DOMAIN TokenTypes : TokenTypes[k].id \in TokenIds /\ IsMachine(TokenTypes[k].nfa)
  /\ Sources \subseteq Seq(STRING)

VARIABLES source,
          cur,        \* how much of source has been read
          messages    \* what the error callback has been given

lrVars == <<stackVars, source, cur, messages>>

----------------------------------------------------------------------------
(* Tokenizer *)

\* The bug takes the first type whether it matches or not.
AnyToken(s, begin) ==
  {[id |-> TokenTypes[k].id, end |-> Scan(TokenTypes[k].nfa, s, begin)] :
     k \in {k \in DOMAIN TokenTypes : \A j \in DOMAIN TokenTypes : k <= j}}

\* getNextToken: the first type that matches at all, not the longest match.
\* The token, if there is one.
NextToken(s, begin) ==
  LET matching == {k \in DOMAIN TokenTypes : Scan(TokenTypes[k].nfa, s, begin) # begin}
  IN  {[id |-> TokenTypes[k].id, end |-> Scan(TokenTypes[k].nfa, s, begin)] :
         k \in {k \in matching : \A j \in matching : k <= j}}

----------------------------------------------------------------------------
(* storeBestError *)

\* matchLen: how many symbols of the chain the stack has from "at" on.
MatchLen(chain, s, at) ==
  LET lens == {n \in 0 .. Len(chain) :
                 at + n - 1 <= Len(s) /\ \A i \in 1 .. n : chain[i] = s[at + i - 1]}
  IN  CHOOSE n \in lens : \A m \in lens : m <= n

\* The chain c is the one to follow if more of it matches.
Longer(g, s, at, b, r, c) ==
  LET n == MatchLen(g[r][c], s, at)
  IN  IF n > b.len THEN [len |-> n, what |-> "while parsing", rule |-> r] ELSE b

\* A node of a rule counts as one symbol matched, and undoes what the rules
\* before it have matched.
BetterRule(g, s, at, best, r) ==
  LET better[c \in 0 .. Len(g[r])] ==
        IF c > 0 THEN Longer(g, s, at, better[c - 1], r, c)
        ELSE IF s[at] = Node(r) THEN [len |-> 1, what |-> "following", rule |-> r] ELSE best
  IN  better[Len(g[r])]

Best(g, s, at) ==
  LET best[r \in 0 .. Len(g)] ==
        IF r > 0 THEN BetterRule(g, s, at, best[r - 1], r)
        ELSE [len |-> 0, what |-> "unable to match", rule |-> 0]
  IN  best[Len(g)]

\* What is said from each place of the stack on.
Errors(g, s) ==
  LET errors[at \in 1 .. Len(s) + 1] ==
        LET best == Best(g, s, at)
            next == at + best.len
        IN  IF at > Len(s) THEN <<>>
            ELSE <<[what |-> best.what, rule |-> best.rule,
                    unexpected |-> IF next > Len(s) THEN Token("<EOF>") ELSE s[next]]>>
                 \o (IF best.len = 0 THEN <<>> ELSE errors[next])
  IN  errors[1]

----------------------------------------------------------------------------
(* parse *)

LRInit == StackInit /\ source \in Sources /\ cur = 0 /\ messages = <<>>

ReadToken(token) ==
  /\ cur' = token.end
  /\ \/ token.id # Ignore /\ Push(token.id)
     \/ /\ token.id = Ignore /\ verdict = "none" /\ Matching(grammar, stack) = {}
        /\ UNCHANGED stackVars
  /\ UNCHANGED <<source, messages>>

ReduceStack == Reduce /\ UNCHANGED <<source, cur, messages>>

\* No token is recognised: the end of the text, or a text no type matches.
Finish ==
  /\ NextToken(source, cur) = {} /\ Decide
  /\ messages' = IF verdict' = "rejected" THEN Errors(grammar, stack) ELSE <<>>
  /\ UNCHANGED <<source, cur>>

LRNext == Finish \/ ReduceStack \/ \E token \in NextToken(source, cur) : ReadToken(token)

LRSpec == LRInit /\ [][LRNext]_lrVars

----------------------------------------------------------------------------
\* A parse ends, whatever the text and the patterns: no token is empty or reaches
\* behind the text (the loop at lrparser.inl:269), and the reductions (275) are
\* at most twice as many as characters for each rule.
ParseEnds ==
  /\ Len(pushed) <= cur /\ cur <= Len(source)
  /\ Ascending(grammar) => Len(derivation) - 1 <= 2 * Len(grammar) * Len(source)
====
