---- MODULE Language ----
(***************************************************************************)
(* The language of a grammar, and the parser held against it.                *)
(***************************************************************************)
EXTENDS LRParser

RECURSIVE Yields(_, _, _), ChainYields(_, _, _)
Yields(g, r, w) == \E c \in DOMAIN g[r] : ChainYields(g, g[r][c], w)

ChainYields(g, chain, w) ==
  IF chain = <<>> THEN w = <<>>
  ELSE \E n \in 1 .. Len(w) - Len(chain) + 1 :
         /\ IF IsToken(Head(chain)) THEN n = 1 /\ w[1] = Head(chain).token
            ELSE Yields(g, Head(chain).rule, SubSeq(w, 1, n))
         /\ ChainYields(g, Tail(chain), SubSeq(w, n + 1, Len(w)))

\* A parse accepts the tokens it has read exactly when they are derived from
\* the last rule, and one that rejects what it has read says why ("called with
\* any parse errors", lrparser.h): the reductions taken as soon as they match,
\* without a look ahead, are the right ones for grammars of this kind.
ParsesLanguage ==
  verdict # "none" =>
    /\ (verdict = "rejected" /\ pushed # <<>>) => messages # <<>>
    /\ \/ Len(stack) = 1 /\ IsToken(stack[1])
       \/ (verdict = "accepted") = Yields(grammar, Len(grammar), pushed)
====
