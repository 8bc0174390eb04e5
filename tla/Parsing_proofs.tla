---- MODULE Parsing_proofs ----
(***************************************************************************)
(* The stack of the LR parser, for every grammar and every sequence of     *)
(* tokens; scans, for every machine and text; parses, for every tokenizer; *)
(* and varints, for every number.                                          *)
(*                                                                         *)
(* What the parser reduces is a rightmost derivation read backwards: a     *)
(* reduction adds a form to the derivation from which the one before is    *)
(* derived by what was reduced; a token pushed is appended to every form,  *)
(* which leaves a step between two forms what it was, as a token behind a  *)
(* node does not make it any less the last one.                            *)
(*                                                                         *)
(* The reductions are counted against the symbols that are gone: a chain of *)
(* one symbol replaces the top of the stack by a node of a later rule, so  *)
(* that at most as many as there are rules follow each other before a token *)
(* is pushed or a longer chain is reduced; there are as many of those as   *)
(* tokens pushed and symbols gone.                                         *)
(*                                                                         *)
(* A scan carries the states that some path of a single thread reaches     *)
(* (Reached), and knows after each character whether a match has begun, where *)
(* the last one ended and that it went on without a gap (Knows).  So a token *)
(* is never empty and never reaches behind the text, and a parse, which is a *)
(* run of the stack's specification, takes no more tokens than characters. *)
(*                                                                         *)
(* A number is written as bytes with the top bit and a last one without it *)
(* (IsNumber), so that a reader knows where it ends; the value of the bytes *)
(* is the number by induction over the number.  What a reader gets is the  *)
(* least of what it asks for, what the ranges have left and what is there. *)
(***************************************************************************)
EXTENDS LRParser, Varint, SequenceTheorems, WellFoundedInduction, TLAPS

----------------------------------------------------------------------------
(* Numbers and sequences                                                     *)

\* A set of natural numbers has a least element.
LEMMA Least ==
  ASSUME NEW S \in SUBSET Nat, S # {}
  PROVE  \E k \in S : \A j \in S : k <= j
<1> DEFINE R == {p \in Nat \X Nat : p[1] < p[2]}
<1>1. R = OpToRel(<, Nat)
  BY DEF OpToRel
<1>2. IsWellFoundedOn(R, Nat)
  BY <1>1, NatLessThanWellFounded
<1>3. PICK k \in S : \A j \in S : <<j, k>> \notin R
  <2> HIDE DEF R
  <2> QED BY <1>2, WFMin
<1>4. \A j \in S : ~(j < k)
  BY <1>3
<1> QED BY <1>3, <1>4

LEMMA ConcatIs ==
  ASSUME NEW S, NEW s \in Seq(S), NEW t \in Seq(S)
  PROVE  /\ s \o t \in Seq(S) /\ Len(s \o t) = Len(s) + Len(t)
         /\ \A i \in 1 .. Len(s) : (s \o t)[i] = s[i]
         /\ \A i \in 1 .. Len(t) : (s \o t)[Len(s) + i] = t[i]
<1>1. s \o t \in Seq(S)
  BY ConcatProperties
<1>2. Len(s) \in Nat /\ Len(t) \in Nat
  BY LenProperties
<1> QED
  BY <1>1, <1>2

LEMMA AppendIs ==
  ASSUME NEW S, NEW s \in Seq(S), NEW e \in S
  PROVE  /\ Append(s, e) \in Seq(S) /\ Len(Append(s, e)) = Len(s) + 1
         /\ \A i \in 1 .. Len(s) : Append(s, e)[i] = s[i]
         /\ Append(s, e)[Len(s) + 1] = e
  BY AppendProperties

LEMMA PartIs ==
  ASSUME NEW S, NEW s \in Seq(S), NEW m \in 1 .. Len(s) + 1, NEW n \in m - 1 .. Len(s)
  PROVE  /\ SubSeq(s, m, n) \in Seq(S) /\ Len(SubSeq(s, m, n)) = n - m + 1
         /\ \A i \in 1 .. n - m + 1 : SubSeq(s, m, n)[i] = s[m + i - 1]
<1>1. Len(s) \in Nat
  BY LenProperties
<1>2. m \in Int /\ n \in Int
  BY <1>1
<1>3. \A i \in m .. n : s[i] \in S
  BY <1>1, ElementOfSeq
<1> QED
  BY <1>1, <1>2, <1>3, SubSeqProperties

\* Behind what follows, or behind all of it.
LEMMA AppendBehind ==
  ASSUME NEW S, NEW s \in Seq(S), NEW t \in Seq(S), NEW e \in S
  PROVE  s \o Append(t, e) = Append(s \o t, e)
<1> DEFINE l == s \o Append(t, e)
           r == Append(s \o t, e)
           n == Len(s) + Len(t) + 1
<1>1. /\ Len(s) \in Nat /\ Len(t) \in Nat
      /\ Append(t, e) \in Seq(S) /\ Len(Append(t, e)) = Len(t) + 1
      /\ s \o t \in Seq(S) /\ Len(s \o t) = Len(s) + Len(t)
  BY LenProperties, AppendIs, ConcatIs
<1>2. l \in Seq(S) /\ Len(l) = n
  BY <1>1, ConcatIs
<1>3. r \in Seq(S) /\ Len(r) = n
  BY <1>1, AppendIs
<1>4. ASSUME NEW i \in 1 .. n PROVE l[i] = r[i]
  <2>1. CASE i \in 1 .. Len(s)
    <3>1. l[i] = s[i] /\ (s \o t)[i] = s[i]
      BY <1>1, <2>1, ConcatIs
    <3>2. i \in 1 .. Len(s \o t)
      BY <1>1, <2>1
    <3> QED
      BY <1>1, <3>1, <3>2, AppendIs
  <2>2. CASE i \notin 1 .. Len(s)
    <3>1. PICK j \in 1 .. Len(t) + 1 : i = Len(s) + j
      <4>1. i - Len(s) \in 1 .. Len(t) + 1 /\ i = Len(s) + (i - Len(s))
        BY <1>1, <2>2
      <4> QED
        BY <4>1
    <3>2. l[i] = Append(t, e)[j]
      BY <1>1, <3>1, ConcatIs
    <3>3. CASE j = Len(t) + 1
      BY <1>1, <3>1, <3>2, <3>3, AppendIs
    <3>4. CASE j \in 1 .. Len(t)
      <4>1. l[i] = t[j] /\ (s \o t)[i] = t[j]
        BY <3>1, <3>2, <3>4, AppendIs, ConcatIs
      <4>2. i \in 1 .. Len(s \o t)
        BY <1>1, <3>1, <3>4
      <4> QED
        BY <1>1, <4>1, <4>2, AppendIs
    <3> QED
      BY <1>1, <3>1, <3>3, <3>4
  <2> QED
    BY <2>1, <2>2
<1> QED
  <2> HIDE DEF l, r, n
  <2>1. l = r
    BY <1>2, <1>3, <1>4, SeqEqual
  <2> QED
    BY <2>1 DEF l, r

\* A sequence is what comes before a place and what follows.
LEMMA PartsMake ==
  ASSUME NEW S, NEW s \in Seq(S), NEW n \in 0 .. Len(s)
  PROVE  SubSeq(s, 1, n) \o SubSeq(s, n + 1, Len(s)) = s
<1> DEFINE p == SubSeq(s, 1, n)
           q == SubSeq(s, n + 1, Len(s))
<1>1. Len(s) \in Nat
  BY LenProperties
<1>2. p \in Seq(S) /\ Len(p) = n /\ \A i \in 1 .. n : p[i] = s[i]
  <2>1. 1 \in 1 .. Len(s) + 1 /\ n \in 1 - 1 .. Len(s) /\ n - 1 + 1 = n
    BY <1>1
  <2>2. \A i \in 1 .. n : 1 + i - 1 = i
    OBVIOUS
  <2> QED
    BY <2>1, <2>2, PartIs
<1>3. q \in Seq(S) /\ Len(q) = Len(s) - n /\ \A i \in 1 .. Len(s) - n : q[i] = s[n + i]
  <2>1. /\ n + 1 \in 1 .. Len(s) + 1 /\ Len(s) \in (n + 1) - 1 .. Len(s)
        /\ Len(s) - (n + 1) + 1 = Len(s) - n
    BY <1>1
  <2>2. /\ q \in Seq(S) /\ Len(q) = Len(s) - (n + 1) + 1
        /\ \A i \in 1 .. Len(s) - (n + 1) + 1 : q[i] = s[(n + 1) + i - 1]
    BY <2>1, PartIs
  <2>3. \A i \in 1 .. Len(s) - n : (n + 1) + i - 1 = n + i
    BY <1>1
  <2> HIDE DEF q
  <2> QED
    BY <2>1, <2>2, <2>3
<1> HIDE DEF p, q
<1>4. p \o q \in Seq(S) /\ Len(p \o q) = Len(s)
  <2>1. p \o q \in Seq(S) /\ Len(p \o q) = Len(p) + Len(q)
    BY <1>2, <1>3, ConcatIs
  <2>2. n + (Len(s) - n) = Len(s)
    BY <1>1
  <2> QED
    BY <1>2, <1>3, <2>1, <2>2
<1>5. ASSUME NEW i \in 1 .. Len(s) PROVE (p \o q)[i] = s[i]
  <2>1. CASE i \in 1 .. n
    BY <1>2, <1>3, <2>1, ConcatIs
  <2>2. CASE i \notin 1 .. n
    <3>1. i - n \in 1 .. Len(s) - n /\ i = n + (i - n)
      BY <1>1, <2>2
    <3>2. (p \o q)[n + (i - n)] = q[i - n]
      BY <1>2, <1>3, <3>1, ConcatIs
    <3> QED
      BY <1>3, <3>1, <3>2
  <2> QED
    BY <2>1, <2>2
<1> QED
  <2>1. p \o q = s
    BY <1>4, <1>5, SeqEqual
  <2> QED
    BY <2>1 DEF p, q

\* What an appended element leaves of a beginning, and adds to an end.
LEMMA PartsOfAppend ==
  ASSUME NEW S, NEW s \in Seq(S), NEW e \in S, NEW k \in 1 .. Len(s) + 1
  PROVE  /\ SubSeq(Append(s, e), 1, k - 1) = SubSeq(s, 1, k - 1)
         /\ SubSeq(Append(s, e), k, Len(s) + 1) = Append(SubSeq(s, k, Len(s)), e)
<1> DEFINE a == Append(s, e)
           n == Len(s) - k + 1
<1>1. Len(s) \in Nat /\ n \in Nat
  BY LenProperties
<1>2. a \in Seq(S) /\ Len(a) = Len(s) + 1 /\ a[Len(s) + 1] = e /\ \A i \in 1 .. Len(s) : a[i] = s[i]
  BY AppendIs
<1> HIDE DEF a
<1>3. SubSeq(a, 1, k - 1) = SubSeq(s, 1, k - 1)
  <2>1. /\ 1 \in 1 .. Len(s) + 1 /\ k - 1 \in 1 - 1 .. Len(s) /\ (k - 1) - 1 + 1 = k - 1
        /\ 1 \in 1 .. Len(a) + 1 /\ k - 1 \in 1 - 1 .. Len(a)
    BY <1>1, <1>2
  <2>2. /\ SubSeq(s, 1, k - 1) \in Seq(S) /\ Len(SubSeq(s, 1, k - 1)) = k - 1
        /\ \A i \in 1 .. k - 1 : SubSeq(s, 1, k - 1)[i] = s[1 + i - 1]
    BY <2>1, PartIs
  <2>3. /\ SubSeq(a, 1, k - 1) \in Seq(S) /\ Len(SubSeq(a, 1, k - 1)) = k - 1
        /\ \A i \in 1 .. k - 1 : SubSeq(a, 1, k - 1)[i] = a[1 + i - 1]
    BY <1>2, <2>1, PartIs
  <2>4. \A i \in 1 .. k - 1 : 1 + i - 1 \in 1 .. Len(s)
    BY <1>1
  <2>5. \A i \in 1 .. k - 1 : SubSeq(a, 1, k - 1)[i] = SubSeq(s, 1, k - 1)[i]
    BY <1>2, <2>2, <2>3, <2>4
  <2> QED
    BY <2>2, <2>3, <2>5, SeqEqual
<1>4. SubSeq(a, k, Len(s) + 1) = Append(SubSeq(s, k, Len(s)), e)
  <2> DEFINE r == SubSeq(s, k, Len(s))
             l == SubSeq(a, k, Len(s) + 1)
  <2>1. /\ Len(s) \in k - 1 .. Len(s)
        /\ k \in 1 .. Len(a) + 1 /\ Len(s) + 1 \in k - 1 .. Len(a)
        /\ Len(s) - k + 1 = n /\ (Len(s) + 1) - k + 1 = n + 1
    BY <1>1, <1>2
  <2>2. r \in Seq(S) /\ Len(r) = n /\ \A i \in 1 .. n : r[i] = s[k + i - 1]
    BY <2>1, PartIs
  <2>3. /\ l \in Seq(S) /\ Len(l) = (Len(s) + 1) - k + 1
        /\ \A i \in 1 .. (Len(s) + 1) - k + 1 : l[i] = a[k + i - 1]
    BY <1>2, <2>1, PartIs
  <2> HIDE DEF l, r, n
  <2>4. Append(r, e) \in Seq(S) /\ Len(Append(r, e)) = n + 1
    BY <2>2, AppendIs
  <2>5. ASSUME NEW i \in 1 .. n + 1 PROVE l[i] = Append(r, e)[i]
    <3>1. l[i] = a[k + i - 1]
      BY <2>1, <2>3
    <3>2. CASE i = n + 1
      <4>1. k + i - 1 = Len(s) + 1
        BY <1>1, <2>1, <3>2 DEF n
      <4> QED
        BY <1>2, <2>2, <3>1, <3>2, <4>1, AppendIs
    <3>3. CASE i \in 1 .. n
      <4>1. k + i - 1 \in 1 .. Len(s)
        BY <1>1, <3>3 DEF n
      <4>2. l[i] = r[i]
        BY <1>2, <2>2, <3>1, <3>3, <4>1
      <4>3. Append(r, e)[i] = r[i]
        BY <2>2, <3>3, AppendIs
      <4> QED
        BY <4>2, <4>3
    <3>4. i = n + 1 \/ i \in 1 .. n
      BY <1>1 DEF n
    <3> QED
      BY <3>2, <3>3, <3>4
  <2>6. l = Append(r, e)
    <3>1. Len(l) = n + 1
      BY <2>1, <2>3
    <3> QED
      BY <2>3, <2>4, <2>5, <3>1, SeqEqual
  <2> QED
    BY <2>6 DEF l, r
<1> QED
  BY <1>3, <1>4 DEF a

----------------------------------------------------------------------------
(* Derivations                                                               *)

LEMMA GrammarsAre ==
  ASSUME NEW g \in Grammars
  PROVE  /\ g \in Seq(Seq(Seq(Symbols))) /\ Len(g) \in Nat \ {0} /\ DOMAIN g = 1 .. Len(g)
         /\ \A r \in DOMAIN g : \A c \in DOMAIN g[r] : g[r][c] \in Seq(Symbols)
<1>1. g \in Seq(Seq(Seq(Symbols))) /\ g # <<>>
  BY GrammarAssumption
<1>2. \A r \in DOMAIN g : g[r] \in Seq(Seq(Symbols))
  BY <1>1, ElementOfSeq, LenProperties
<1>3. \A r \in DOMAIN g : \A c \in DOMAIN g[r] : g[r][c] \in Seq(Symbols)
  BY <1>2, ElementOfSeq, LenProperties
<1>4. Len(g) \in Nat /\ Len(g) # 0 /\ DOMAIN g = 1 .. Len(g)
  BY <1>1, LenProperties, EmptySeq
<1> QED
  BY <1>1, <1>3, <1>4

LEMMA SymbolsAre ==
  /\ \A id \in TokenIds : Token(id) \in Symbols /\ IsToken(Token(id))
  /\ \A r \in Nat : Node(r) \in Symbols /\ ~IsToken(Node(r)) /\ Node(r).rule = r
<1>1. \A id \in TokenIds : Token(id) \in [token : TokenIds] /\ "token" \in DOMAIN Token(id)
  BY DEF Token
<1>2. \A r \in Nat : /\ Node(r) \in [rule : Nat] /\ DOMAIN Node(r) = {"rule"}
                     /\ Node(r).rule = r
  BY DEF Node
<1> QED
  BY <1>1, <1>2 DEF Symbols, IsToken

\* A token pushed leaves a step between two forms what it was.
LEMMA StepBehind ==
  ASSUME NEW g \in Grammars, NEW x \in Seq(Symbols), NEW y \in Seq(Symbols),
         RightmostStep(g, x, y), NEW e \in Symbols, IsToken(e)
  PROVE  RightmostStep(g, Append(x, e), Append(y, e))
<1>1. PICK k \in DOMAIN x :
        /\ ~IsToken(x[k]) /\ \A j \in k + 1 .. Len(x) : IsToken(x[j])
        /\ x[k].rule \in DOMAIN g
        /\ \E c \in DOMAIN g[x[k].rule] :
             y = SubSeq(x, 1, k - 1) \o g[x[k].rule][c] \o SubSeq(x, k + 1, Len(x))
  BY DEF RightmostStep
<1>2. PICK c \in DOMAIN g[x[k].rule] :
        y = SubSeq(x, 1, k - 1) \o g[x[k].rule][c] \o SubSeq(x, k + 1, Len(x))
  BY <1>1
<1> DEFINE X == Append(x, e)
           p == SubSeq(x, 1, k - 1)
           m == g[x[k].rule][c]
           q == SubSeq(x, k + 1, Len(x))
<1>3. Len(x) \in Nat /\ DOMAIN x = 1 .. Len(x) /\ k \in 1 .. Len(x)
  BY LenProperties
<1>4. /\ X \in Seq(Symbols) /\ Len(X) = Len(x) + 1 /\ DOMAIN X = 1 .. Len(x) + 1
      /\ X[Len(x) + 1] = e /\ \A i \in 1 .. Len(x) : X[i] = x[i]
  BY AppendIs, LenProperties
<1>5. m \in Seq(Symbols)
  BY <1>1, GrammarsAre
<1>6. p \in Seq(Symbols) /\ q \in Seq(Symbols)
  <2>1. /\ 1 \in 1 .. Len(x) + 1 /\ k - 1 \in 1 - 1 .. Len(x)
        /\ k + 1 \in 1 .. Len(x) + 1 /\ Len(x) \in (k + 1) - 1 .. Len(x)
    BY <1>3
  <2> QED
    BY <2>1, PartIs
<1>7. SubSeq(X, 1, k - 1) = p /\ SubSeq(X, k + 1, Len(x) + 1) = Append(q, e)
  <2>1. k \in 1 .. Len(x) + 1 /\ k + 1 \in 1 .. Len(x) + 1
    BY <1>3
  <2> QED
    BY <2>1, PartsOfAppend
<1> HIDE DEF X, p, q, m
<1>8. Append(y, e) = (p \o m) \o Append(q, e)
  <2>1. p \o m \in Seq(Symbols)
    BY <1>5, <1>6, ConcatIs
  <2>2. y = (p \o m) \o q
    BY <1>2 DEF p, m, q
  <2>3. (p \o m) \o Append(q, e) = Append((p \o m) \o q, e)
    BY <1>6, <2>1, AppendBehind
  <2> QED
    BY <2>2, <2>3
<1>9. /\ k \in DOMAIN X /\ X[k] = x[k]
      /\ \A j \in k + 1 .. Len(X) : IsToken(X[j])
  <2>1. ASSUME NEW j \in k + 1 .. Len(x) + 1 PROVE IsToken(X[j])
    <3>1. CASE j = Len(x) + 1
      BY <1>4, <3>1
    <3>2. CASE j \in k + 1 .. Len(x)
      BY <1>1, <1>3, <1>4, <3>2
    <3> QED
      BY <1>3, <3>1, <3>2
  <2> QED
    BY <1>3, <1>4, <2>1
<1>10. Append(y, e) = SubSeq(X, 1, k - 1) \o g[X[k].rule][c] \o SubSeq(X, k + 1, Len(X))
  BY <1>4, <1>7, <1>8, <1>9 DEF m
<1>11. RightmostStep(g, X, Append(y, e))
  BY <1>1, <1>9, <1>10 DEF RightmostStep
<1> QED
  BY <1>11 DEF X

\* What was reduced is derived from what it was reduced to.
LEMMA StepBack ==
  ASSUME NEW g \in Grammars, NEW s \in Seq(Symbols), NEW x \in Matching(g, s)
  PROVE  /\ Reduced(g, s, x) \in Seq(Symbols)
         /\ Len(Reduced(g, s, x)) = Len(s) - Len(g[x[1]][x[2]]) + 1
         /\ Reduced(g, s, x)[Len(s) - Len(g[x[1]][x[2]]) + 1] = Node(x[1])
         /\ RightmostStep(g, Reduced(g, s, x), s)
<1>1. /\ x[1] \in DOMAIN g /\ x[2] \in DOMAIN g[x[1]]
      /\ Matches(g[x[1]][x[2]], s)
  BY DEF Matching, Chains
<1> DEFINE chain == g[x[1]][x[2]]
           n == Len(s) - Len(chain)
           kept == SubSeq(s, 1, n)
           new == Append(kept, Node(x[1]))
<1>2. chain \in Seq(Symbols) /\ x[1] \in Nat
  BY <1>1, GrammarsAre
<1>3. /\ Len(s) \in Nat /\ Len(chain) \in Nat /\ n \in 0 .. Len(s)
      /\ SubSeq(s, n + 1, Len(s)) = chain
  <2>1. Len(s) \in Nat /\ Len(chain) \in Nat
    BY <1>2, LenProperties
  <2>2. Len(chain) <= Len(s) /\ SubSeq(s, n + 1, Len(s)) = chain
    BY <1>1 DEF Matches
  <2> HIDE DEF chain
  <2>3. n \in 0 .. Len(s)
    BY <2>1, <2>2
  <2> QED
    BY <2>1, <2>2, <2>3
<1>4. kept \in Seq(Symbols) /\ Len(kept) = n
  <2>1. 1 \in 1 .. Len(s) + 1 /\ n \in 1 - 1 .. Len(s) /\ n - 1 + 1 = n
    BY <1>3
  <2> HIDE DEF n
  <2> QED
    BY <2>1, PartIs
<1>5. /\ new \in Seq(Symbols) /\ Len(new) = n + 1 /\ new[n + 1] = Node(x[1])
      /\ Node(x[1]) \in Symbols /\ ~IsToken(Node(x[1])) /\ Node(x[1]).rule = x[1]
  <2> HIDE DEF n, kept
  <2> QED
    BY <1>2, <1>4, SymbolsAre, AppendIs
<1>6. SubSeq(new, 1, (n + 1) - 1) = kept /\ SubSeq(new, (n + 1) + 1, n + 1) = <<>>
  <2> HIDE DEF n, kept
  <2>1. /\ n + 1 \in 1 .. Len(kept) + 1 /\ (n + 1) - 1 = n
        /\ (n + 1) + 1 \in 1 .. Len(new) + 1 /\ n + 1 \in ((n + 1) + 1) - 1 .. Len(new)
        /\ (n + 1) - ((n + 1) + 1) + 1 = 0
    BY <1>3, <1>4, <1>5
  <2>2. SubSeq(new, 1, (n + 1) - 1) = SubSeq(kept, 1, n)
    <3>1. SubSeq(new, 1, (n + 1) - 1) = SubSeq(kept, 1, (n + 1) - 1)
      BY <1>4, <1>5, <2>1, PartsOfAppend
    <3> QED
      BY <2>1, <3>1
  <2>3. SubSeq(kept, 1, n) = kept
    <3>1. /\ SubSeq(s, 1, n) = kept
          /\ 1 \in 1 .. Len(s) + 1 /\ n \in 1 - 1 .. Len(s) /\ n - 1 + 1 = n
          /\ 1 \in 1 .. Len(kept) + 1 /\ n \in 1 - 1 .. Len(kept)
      BY <1>3, <1>4 DEF kept
    <3>2. /\ SubSeq(kept, 1, n) \in Seq(Symbols) /\ Len(SubSeq(kept, 1, n)) = n
          /\ \A i \in 1 .. n : SubSeq(kept, 1, n)[i] = kept[1 + i - 1]
      BY <1>4, <3>1, PartIs
    <3>3. \A i \in 1 .. n : 1 + i - 1 = i
      BY <1>3
    <3> QED
      BY <1>4, <3>2, <3>3, SeqEqual
  <2>4. SubSeq(new, (n + 1) + 1, n + 1) = <<>>
    <3>1. /\ SubSeq(new, (n + 1) + 1, n + 1) \in Seq(Symbols)
          /\ Len(SubSeq(new, (n + 1) + 1, n + 1)) = 0
      BY <1>5, <2>1, PartIs
    <3> QED
      BY <3>1, EmptySeq
  <2> QED
    BY <2>2, <2>3, <2>4
<1>7. s = kept \o chain \o <<>>
  <2>1. kept \o chain = s
    BY <1>3, PartsMake
  <2>2. s \o <<>> = s
    BY ConcatEmptySeq
  <2> QED
    BY <2>1, <2>2
<1>8. RightmostStep(g, new, s)
  <2> HIDE DEF n, kept, new, chain
  <2>1. n + 1 \in DOMAIN new /\ Len(new) = n + 1
    BY <1>3, <1>5, LenProperties
  <2>2. \A j \in (n + 1) + 1 .. Len(new) : IsToken(new[j])
    BY <1>3, <1>5
  <2>3. new[n + 1].rule = x[1]
    BY <1>5
  <2>4. s = SubSeq(new, 1, (n + 1) - 1) \o g[new[n + 1].rule][x[2]] \o SubSeq(new, (n + 1) + 1, Len(new))
    BY <1>6, <1>7, <2>1, <2>3 DEF chain
  <2> QED
    BY <1>1, <1>5, <2>1, <2>2, <2>3, <2>4 DEF RightmostStep
<1>9. Reduced(g, s, x) = new
  BY DEF Reduced
<1> QED
  BY <1>5, <1>8, <1>9

----------------------------------------------------------------------------
(* What holds of the stack                                                   *)

StackType ==
  /\ grammar \in Grammars /\ stack \in Seq(Symbols) /\ pushed \in Seq(TokenIds)
  /\ derivation \in Seq(Seq(Symbols)) /\ Len(derivation) >= 1
  /\ verdict \in {"none", "accepted", "rejected"}

IsDerivation ==
  /\ derivation[1] = [k \in DOMAIN pushed |-> Token(pushed[k])]
  /\ derivation[Len(derivation)] = stack
  /\ \A k \in 1 .. Len(derivation) - 1 : RightmostStep(grammar, derivation[k + 1], derivation[k])

\* What is accepted is all that was pushed, and nothing is reduced afterwards.
IsDecided ==
  /\ verdict # "none" => Matching(grammar, stack) = {}
  /\ verdict = "accepted" =>
       stack = <<Node(Len(grammar))>> \/ (Len(pushed) = 1 /\ stack = derivation[1])

StackInv == StackType /\ IsDerivation /\ IsDecided

LEMMA StackInitHolds == StackInit => StackInv
<1> SUFFICES ASSUME StackInit PROVE StackInv
  OBVIOUS
<1>1. <<>> \in Seq(Symbols) /\ <<>> \in Seq(TokenIds) /\ Len(<<>>) = 0
  BY EmptySeq
<1>2. /\ derivation \in Seq(Seq(Symbols)) /\ Len(derivation) = 1 /\ derivation[1] = <<>>
  <2>1. derivation = <<<<>>>>
    BY DEF StackInit
  <2> QED
    BY <1>1, <2>1
<1>3. [k \in DOMAIN pushed |-> Token(pushed[k])] = <<>>
  <2>1. pushed = <<>> /\ DOMAIN pushed = {}
    BY DEF StackInit
  <2>2. <<>> = [k \in {} |-> Token(pushed[k])]
    BY EmptySeq
  <2> QED
    BY <2>1, <2>2
<1>4. StackType
  BY <1>1, <1>2 DEF StackInit, StackType
<1>5. IsDerivation
  BY <1>2, <1>3 DEF StackInit, IsDerivation
<1>6. IsDecided
  BY DEF StackInit, IsDecided
<1> QED
  BY <1>4, <1>5, <1>6 DEF StackInv

LEMMA PushHolds ==
  ASSUME StackInv, NEW id \in TokenIds, Push(id)
  PROVE  StackInv'
<1> DEFINE e == Token(id)
           n == Len(derivation)
<1>1. e \in Symbols /\ IsToken(e)
  BY SymbolsAre
<1>2. /\ grammar \in Grammars /\ stack \in Seq(Symbols) /\ pushed \in Seq(TokenIds)
      /\ derivation \in Seq(Seq(Symbols)) /\ n \in Nat /\ n >= 1 /\ DOMAIN derivation = 1 .. n
      /\ \A k \in 1 .. n : derivation[k] \in Seq(Symbols)
  BY LenProperties, ElementOfSeq DEF StackInv, StackType
<1>3. /\ stack' = Append(stack, e) /\ pushed' = Append(pushed, id)
      /\ derivation' = [k \in 1 .. n |-> Append(derivation[k], e)]
      /\ grammar' = grammar /\ verdict' = verdict /\ verdict = "none"
  BY <1>2 DEF Push
<1> HIDE DEF e, n
<1>4. /\ derivation' \in Seq(Seq(Symbols)) /\ Len(derivation') = n
      /\ \A k \in 1 .. n : derivation'[k] = Append(derivation[k], e)
  <2>1. \A k \in 1 .. n : Append(derivation[k], e) \in Seq(Symbols)
    BY <1>1, <1>2, AppendIs
  <2>2. derivation' \in [1 .. n -> Seq(Symbols)]
    BY <1>3, <2>1
  <2> QED
    BY <1>2, <1>3, <2>2
<1>5. StackType'
  <2>1. stack' \in Seq(Symbols) /\ pushed' \in Seq(TokenIds)
    BY <1>1, <1>2, <1>3, AppendIs
  <2> QED
    BY <1>2, <1>3, <1>4, <2>1 DEF StackType
<1>6. derivation'[1] = [k \in DOMAIN pushed' |-> Token(pushed'[k])]
  <2> DEFINE tokens == [k \in 1 .. Len(pushed) |-> Token(pushed[k])]
             more == [k \in 1 .. Len(pushed) + 1 |-> Token(pushed'[k])]
  <2>1. Len(pushed) \in Nat /\ DOMAIN pushed = 1 .. Len(pushed)
    BY <1>2, LenProperties
  <2>2. tokens \in Seq(Symbols) /\ Len(tokens) = Len(pushed)
    <3>1. \A k \in 1 .. Len(pushed) : Token(pushed[k]) \in Symbols
      BY <1>2, ElementOfSeq, SymbolsAre
    <3>2. tokens \in [1 .. Len(pushed) -> Symbols]
      BY <3>1
    <3> HIDE DEF tokens
    <3> QED
      BY <2>1, <3>2
  <2>3. /\ pushed' \in Seq(TokenIds) /\ Len(pushed') = Len(pushed) + 1
        /\ DOMAIN pushed' = 1 .. Len(pushed) + 1 /\ pushed'[Len(pushed) + 1] = id
        /\ \A k \in 1 .. Len(pushed) : pushed'[k] = pushed[k]
    BY <1>2, <1>3, AppendIs, LenProperties
  <2>4. more \in Seq(Symbols) /\ Len(more) = Len(pushed) + 1
    <3>1. \A k \in 1 .. Len(pushed) + 1 : Token(pushed'[k]) \in Symbols
      <4>1. \A k \in 1 .. Len(pushed) + 1 : pushed'[k] \in TokenIds
        BY <2>3, ElementOfSeq
      <4> QED
        BY <4>1, SymbolsAre
    <3>2. more \in [1 .. Len(pushed) + 1 -> Symbols]
      BY <3>1
    <3> HIDE DEF more
    <3> QED
      BY <2>1, <3>2
  <2>5. derivation[1] = tokens
    BY <2>1 DEF StackInv, IsDerivation
  <2>6. /\ Append(tokens, e) \in Seq(Symbols) /\ Len(Append(tokens, e)) = Len(pushed) + 1
        /\ Append(tokens, e)[Len(pushed) + 1] = e
        /\ \A k \in 1 .. Len(pushed) : Append(tokens, e)[k] = tokens[k]
    <3> HIDE DEF tokens
    <3> QED
      BY <1>1, <2>2, AppendIs
  <2>7. ASSUME NEW k \in 1 .. Len(pushed) + 1 PROVE Append(tokens, e)[k] = more[k]
    <3>1. CASE k = Len(pushed) + 1
      <4>1. more[k] = Token(id)
        BY <2>1, <2>3, <3>1
      <4> QED
        BY <2>6, <3>1, <4>1 DEF e
    <3>2. CASE k \in 1 .. Len(pushed)
      <4>1. tokens[k] = Token(pushed[k]) /\ more[k] = Token(pushed[k])
        BY <2>3, <3>2
      <4> QED
        BY <2>6, <3>2, <4>1
    <3> QED
      BY <2>1, <3>1, <3>2
  <2>8. Append(tokens, e) = more
    <3> HIDE DEF tokens, more
    <3> QED
      BY <2>4, <2>6, <2>7, SeqEqual
  <2>9. derivation'[1] = Append(tokens, e)
    BY <1>2, <1>4, <2>5
  <2> QED
    BY <2>3, <2>8, <2>9
<1>7. derivation'[Len(derivation')] = stack'
  <2>1. derivation[n] = stack
    BY DEF StackInv, IsDerivation, n
  <2> QED
    BY <1>2, <1>3, <1>4, <2>1
<1>8. ASSUME NEW k \in 1 .. n - 1
      PROVE  RightmostStep(grammar, derivation'[k + 1], derivation'[k])
  <2>1. k \in 1 .. n /\ k + 1 \in 1 .. n
    BY <1>2
  <2>2. RightmostStep(grammar, derivation[k + 1], derivation[k])
    BY DEF StackInv, IsDerivation, n
  <2>3. RightmostStep(grammar, Append(derivation[k + 1], e), Append(derivation[k], e))
    BY <1>1, <1>2, <2>1, <2>2, StepBehind
  <2> QED
    BY <1>4, <2>1, <2>3
<1>9. IsDerivation'
  BY <1>3, <1>4, <1>6, <1>7, <1>8 DEF IsDerivation
<1>10. IsDecided'
  BY <1>3 DEF IsDecided
<1> QED
  BY <1>5, <1>9, <1>10 DEF StackInv

LEMMA ReduceHolds ==
  ASSUME StackInv, Reduce
  PROVE  StackInv'
<1> DEFINE n == Len(derivation)
<1>1. PICK x \in FirstMatching(grammar, stack) : stack' = Reduced(grammar, stack, x)
  BY DEF Reduce
<1>2. x \in Matching(grammar, stack)
  BY DEF FirstMatching
<1>3. grammar' = grammar /\ verdict' = verdict /\ pushed' = pushed
  BY DEF Reduce
<1>4. /\ grammar \in Grammars /\ stack \in Seq(Symbols)
      /\ derivation \in Seq(Seq(Symbols)) /\ n \in Nat /\ n >= 1
  BY LenProperties DEF StackInv, StackType
<1>5. stack' \in Seq(Symbols) /\ RightmostStep(grammar, stack', stack)
  BY <1>1, <1>2, <1>4, StepBack
<1>6. /\ derivation' \in Seq(Seq(Symbols)) /\ Len(derivation') = n + 1
      /\ derivation'[n + 1] = stack' /\ \A k \in 1 .. n : derivation'[k] = derivation[k]
  BY <1>4, <1>5, AppendIs DEF Reduce
<1> HIDE DEF n
<1>7. StackType'
  BY <1>3, <1>4, <1>5, <1>6 DEF StackType, StackInv
<1>8. IsDerivation'
  <2>1. derivation'[1] = [k \in DOMAIN pushed' |-> Token(pushed'[k])]
    <3>1. derivation[1] = [k \in DOMAIN pushed |-> Token(pushed[k])]
      BY DEF StackInv, IsDerivation
    <3>2. derivation'[1] = derivation[1]
      BY <1>4, <1>6
    <3> QED
      BY <1>3, <3>1, <3>2
  <2>2. ASSUME NEW k \in 1 .. (n + 1) - 1
        PROVE  RightmostStep(grammar, derivation'[k + 1], derivation'[k])
    <3>1. CASE k = n
      <4>1. derivation[n] = stack
        BY DEF StackInv, IsDerivation, n
      <4> QED
        BY <1>4, <1>5, <1>6, <3>1, <4>1
    <3>2. CASE k # n
      <4>1. k \in 1 .. n - 1 /\ k \in 1 .. n /\ k + 1 \in 1 .. n
        BY <1>4, <3>2
      <4>2. RightmostStep(grammar, derivation[k + 1], derivation[k])
        BY <4>1 DEF StackInv, IsDerivation, n
      <4> QED
        BY <1>6, <4>1, <4>2
    <3> QED
      BY <3>1, <3>2
  <2> QED
    BY <1>3, <1>6, <2>1, <2>2 DEF IsDerivation
<1>9. IsDecided'
  <2>1. verdict = "none"
    BY <1>2 DEF StackInv, IsDecided
  <2> QED
    BY <1>3, <2>1 DEF IsDecided
<1> QED
  BY <1>7, <1>8, <1>9 DEF StackInv

LEMMA DecideHolds ==
  ASSUME StackInv, Decide
  PROVE  StackInv'
<1>1. /\ grammar' = grammar /\ stack' = stack /\ pushed' = pushed /\ derivation' = derivation
      /\ verdict' \in Verdicts /\ Matching(grammar, stack) = {}
  BY DEF Decide
<1>2. /\ grammar \in Grammars /\ stack \in Seq(Symbols) /\ pushed \in Seq(TokenIds)
      /\ Len(derivation) \in Nat /\ Len(derivation) >= 1 /\ Len(pushed) \in Nat
  BY LenProperties DEF StackInv, StackType
<1>3. verdict' \in {"accepted", "rejected"}
  BY <1>1 DEF Verdicts
<1>4. ASSUME verdict' = "accepted"
      PROVE  stack = <<Node(Len(grammar))>> \/ (Len(pushed) = 1 /\ stack = derivation[1])
  <2>1. Len(stack) = 1 /\ (IsToken(stack[1]) \/ stack[1].rule = Len(grammar))
    BY <1>1, <1>4 DEF Verdicts
  <2>2. stack[1] \in Symbols
    BY <1>2, <2>1, ElementOfSeq
  <2>3. CASE IsToken(stack[1])
    <3>1. Len(derivation) = 1
      <4> SUFFICES ASSUME Len(derivation) # 1 PROVE FALSE
        OBVIOUS
      <4> DEFINE n == Len(derivation)
      <4>0. n \in Nat /\ n >= 1 /\ n # 1
        BY <1>2
      <4>1. n - 1 \in 1 .. n - 1 /\ (n - 1) + 1 = n
        <5> HIDE DEF n
        <5> QED
          BY <4>0
      <4>2. RightmostStep(grammar, stack, derivation[Len(derivation) - 1])
        BY <4>1 DEF StackInv, IsDerivation
      <4>3. PICK k \in DOMAIN stack : ~IsToken(stack[k])
        BY <4>2 DEF RightmostStep
      <4>4. k = 1
        BY <1>2, <2>1, LenProperties
      <4> QED
        BY <2>3, <4>3, <4>4
    <3>2. stack = derivation[1] /\ derivation[1] = [k \in DOMAIN pushed |-> Token(pushed[k])]
      BY <3>1 DEF StackInv, IsDerivation
    <3>3. DOMAIN stack = 1 .. Len(pushed) /\ DOMAIN stack = 1 .. 1
      BY <1>2, <2>1, <3>2, LenProperties
    <3>4. Len(pushed) = 1
      BY <1>2, <3>3
    <3> QED
      BY <3>2, <3>4
  <2>4. CASE ~IsToken(stack[1])
    <3>1. stack[1] \in [rule : Nat]
      BY <2>2, <2>4 DEF Symbols, IsToken
    <3>2. stack[1] = Node(Len(grammar))
      BY <2>1, <2>4, <3>1 DEF Node
    <3>3. /\ <<Node(Len(grammar))>> \in Seq(Symbols) /\ Len(<<Node(Len(grammar))>>) = 1
          /\ <<Node(Len(grammar))>>[1] = Node(Len(grammar))
      BY <2>2, <3>2
    <3>4. stack = <<Node(Len(grammar))>>
      <4>1. \A i \in 1 .. 1 : stack[i] = <<Node(Len(grammar))>>[i]
        BY <3>2, <3>3
      <4> QED
        BY <1>2, <2>1, <3>3, <4>1, SeqEqual
    <3> QED
      BY <3>4
  <2> QED
    BY <2>3, <2>4
<1>5. StackType'
  BY <1>1, <1>3 DEF StackInv, StackType
<1>6. IsDerivation'
  BY <1>1 DEF StackInv, IsDerivation
<1>7. IsDecided'
  BY <1>1, <1>4 DEF IsDecided
<1> QED
  BY <1>5, <1>6, <1>7 DEF StackInv

THEOREM StackInvariant == StackSpec => []StackInv
<1>1. StackInv /\ [StackNext]_stackVars => StackInv'
  <2> SUFFICES ASSUME StackInv, [StackNext]_stackVars PROVE StackInv'
    OBVIOUS
  <2>1. CASE Reduce
    BY <2>1, ReduceHolds
  <2>2. CASE Decide
    BY <2>2, DecideHolds
  <2>3. CASE \E id \in TokenIds : Push(id)
    BY <2>3, PushHolds
  <2>4. CASE UNCHANGED stackVars
    <3>1. /\ grammar' = grammar /\ stack' = stack /\ verdict' = verdict
          /\ pushed' = pushed /\ derivation' = derivation
      BY <2>4 DEF stackVars
    <3> QED
      BY <3>1 DEF StackInv, StackType, IsDerivation, IsDecided
  <2> QED
    BY <2>1, <2>2, <2>3, <2>4 DEF StackNext
<1> QED
  BY <1>1, StackInitHolds, PTL DEF StackSpec

\* Whatever the grammar and the tokens pushed, what the parser has reduced is a
\* rightmost derivation read backwards: it accepts no tokens but those of the
\* last rule (and the single token of a m_ruleId nobody has set).
THEOREM RightmostDerivationHolds == StackSpec => []RightmostDerivation
<1>1. StackInv => RightmostDerivation
  BY DEF StackInv, IsDerivation, IsDecided, RightmostDerivation
<1> QED
  BY <1>1, StackInvariant, PTL

----------------------------------------------------------------------------
(* How often it reduces                                                      *)

\* The rule of the node on top, 0 when there is none.
Top(s) == IF s = <<>> THEN 0 ELSE IF IsToken(s[Len(s)]) THEN 0 ELSE s[Len(s)].rule

\* Every token pushed and every symbol gone allows for one reduction for each
\* rule; with a node of a late rule on top, more of them are behind us.
IsCounted ==
  /\ Top(stack) \in 0 .. Len(grammar)
  /\ Ascending(grammar) =>
       Len(derivation) - 1 <= Len(grammar) * (2 * Len(pushed) - Len(stack)) + Top(stack)

CountInv == StackInv /\ IsCounted

LEMMA MoreTimes ==
  ASSUME NEW n \in Nat, NEW a \in Int, NEW b \in Int, a + 1 <= b
  PROVE  n * a \in Int /\ n * b \in Int /\ n * a + n <= n * b
<1>1. PICK d \in Nat : b = a + 1 + d
  <2>1. b - a - 1 \in Nat /\ b = a + 1 + (b - a - 1)
    OBVIOUS
  <2> QED
    BY <2>1
<1>2. n * d \in Nat /\ n * a \in Int
  OBVIOUS
<1>3. n * b = n * a + n + n * d
  BY <1>1
<1> QED
  BY <1>2, <1>3

LEMMA CountInitHolds == StackInit => IsCounted
<1> SUFFICES ASSUME StackInit PROVE IsCounted
  OBVIOUS
<1>1. stack = <<>> /\ pushed = <<>> /\ Len(derivation) = 1 /\ Len(stack) = 0 /\ Len(pushed) = 0
  BY EmptySeq DEF StackInit
<1>2. Top(stack) = 0 /\ Len(grammar) \in Nat
  BY <1>1, GrammarsAre DEF Top, StackInit
<1>3. Len(grammar) * (2 * 0 - 0) = 0
  BY <1>2
<1> QED
  BY <1>1, <1>2, <1>3 DEF IsCounted

LEMMA PushCounted ==
  ASSUME CountInv, NEW id \in TokenIds, Push(id)
  PROVE  IsCounted'
<1> DEFINE r == Len(grammar)
           a == 2 * Len(pushed) - Len(stack)
<1>1. /\ stack \in Seq(Symbols) /\ pushed \in Seq(TokenIds) /\ Len(derivation) \in Nat
      /\ Len(stack) \in Nat /\ Len(pushed) \in Nat /\ r \in Nat /\ DOMAIN derivation = 1 .. Len(derivation)
  BY LenProperties, GrammarsAre DEF CountInv, StackInv, StackType
<1>2. /\ stack' = Append(stack, Token(id)) /\ pushed' = Append(pushed, id) /\ grammar' = grammar
      /\ derivation' = [k \in 1 .. Len(derivation) |-> Append(derivation[k], Token(id))]
  BY <1>1 DEF Push
<1>3. /\ Len(stack') = Len(stack) + 1 /\ Len(pushed') = Len(pushed) + 1
      /\ stack'[Len(stack) + 1] = Token(id) /\ IsToken(Token(id)) /\ stack' \in Seq(Symbols)
  BY <1>1, <1>2, SymbolsAre, AppendIs
<1>4. Len(derivation') = Len(derivation)
  <2>1. derivation' \in [1 .. Len(derivation) -> {Append(derivation[k], Token(id)) : k \in 1 .. Len(derivation)}]
    BY <1>2
  <2> QED
    BY <1>1, <2>1
<1>5. Top(stack') = 0
  BY <1>3, EmptySeq DEF Top
<1>6. ASSUME Ascending(grammar)
      PROVE  Len(derivation) - 1 <= r * (2 * Len(pushed') - Len(stack'))
  <2>1. Len(derivation) - 1 <= r * a + Top(stack) /\ Top(stack) \in 0 .. r
    BY <1>6 DEF CountInv, IsCounted
  <2>2. 2 * Len(pushed') - Len(stack') = a + 1 /\ a \in Int /\ a + 1 \in Int
    BY <1>1, <1>3
  <2> HIDE DEF a, r
  <2>3. r * a \in Int /\ r * (a + 1) \in Int /\ r * a + r <= r * (a + 1)
    <3>1. a + 1 <= a + 1
      BY <2>2
    <3> QED
      BY <1>1, <2>2, <3>1, MoreTimes
  <2>4. Len(derivation) - 1 <= r * (a + 1)
    BY <1>1, <2>1, <2>3
  <2> QED
    BY <2>2, <2>4
<1>7. 2 * Len(pushed') - Len(stack') \in Int
  BY <1>1, <1>3
<1>8. r * (2 * Len(pushed') - Len(stack')) + 0 = r * (2 * Len(pushed') - Len(stack'))
  BY <1>1, <1>7
<1> QED
  BY <1>1, <1>2, <1>4, <1>5, <1>6, <1>8 DEF IsCounted

LEMMA ReduceCounted ==
  ASSUME CountInv, Reduce
  PROVE  IsCounted'
<1> DEFINE r == Len(grammar)
           n == Len(derivation)
           a == 2 * Len(pushed) - Len(stack)
<1>1. /\ grammar \in Grammars /\ stack \in Seq(Symbols) /\ n \in Nat
      /\ Len(stack) \in Nat /\ Len(pushed) \in Nat /\ r \in Nat /\ DOMAIN grammar = 1 .. r
  BY LenProperties, GrammarsAre DEF CountInv, StackInv, StackType
<1>2. PICK x \in FirstMatching(grammar, stack) : stack' = Reduced(grammar, stack, x)
  BY DEF Reduce
<1> DEFINE chain == grammar[x[1]][x[2]]
           m == Len(chain)
<1>3. /\ x \in Matching(grammar, stack) /\ x[1] \in DOMAIN grammar /\ x[2] \in DOMAIN grammar[x[1]]
      /\ Matches(chain, stack) /\ chain \in Seq(Symbols) /\ m \in Nat
  <2>1. x \in Matching(grammar, stack)
    BY <1>2 DEF FirstMatching
  <2>2. x[1] \in DOMAIN grammar /\ x[2] \in DOMAIN grammar[x[1]] /\ Matches(chain, stack)
    BY <2>1 DEF Matching, Chains
  <2>3. chain \in Seq(Symbols)
    BY <1>1, <2>2, GrammarsAre
  <2> QED
    BY <2>1, <2>2, <2>3, LenProperties
<1>4. /\ grammar' = grammar /\ pushed' = pushed /\ Len(derivation') = n + 1
  <2>1. stack' \in Seq(Symbols) /\ derivation \in Seq(Seq(Symbols))
    BY <1>1, <1>2, <1>3, StepBack DEF CountInv, StackInv, StackType
  <2> QED
    BY <2>1, AppendIs DEF Reduce
<1>5. /\ stack' \in Seq(Symbols) /\ Len(stack') = Len(stack) - m + 1
      /\ stack'[Len(stack')] = Node(x[1])
  <2> DEFINE t == Reduced(grammar, stack, x)
  <2>1. t \in Seq(Symbols) /\ Len(t) = Len(stack) - m + 1 /\ t[Len(stack) - m + 1] = Node(x[1])
    BY <1>1, <1>3, StepBack
  <2> HIDE DEF t, m
  <2>2. t \in Seq(Symbols) /\ Len(t) = Len(stack) - m + 1 /\ t[Len(t)] = Node(x[1])
    BY <2>1
  <2> QED
    BY <1>2, <2>2, Zenon DEF t
<1>6. m <= Len(stack) /\ SubSeq(stack, Len(stack) - m + 1, Len(stack)) = chain
  BY <1>3 DEF Matches
<1>7. Top(stack') = x[1] /\ x[1] \in 1 .. r
  <2>1. x[1] \in 1 .. r /\ x[1] \in Nat
    BY <1>1, <1>3
  <2>2. ~IsToken(Node(x[1])) /\ Node(x[1]).rule = x[1]
    BY <2>1, SymbolsAre
  <2>3. Len(stack') # 0
    <3> HIDE DEF m
    <3> QED
      BY <1>1, <1>3, <1>5, <1>6
  <2> QED
    BY <1>5, <2>1, <2>2, <2>3, EmptySeq DEF Top
<1>8. ASSUME Ascending(grammar)
      PROVE  n <= r * (2 * Len(pushed) - Len(stack')) + x[1]
  <2>1. n - 1 <= r * a + Top(stack) /\ Top(stack) \in 0 .. r
    BY <1>8 DEF CountInv, IsCounted
  <2>2. m # 0 /\ (m = 1 => IsToken(chain[1]) \/ chain[1].rule < x[1])
    BY <1>3, <1>8, EmptySeq DEF Ascending
  <2>3. a \in Int /\ 2 * Len(pushed) - Len(stack') = a + m - 1
    <3> HIDE DEF m
    <3> QED
      BY <1>1, <1>3, <1>5
  <2> HIDE DEF a, r, n, m, chain
  <2>4. CASE m = 1
    <3>1. Top(stack) < x[1]
      <4>1. stack # <<>> /\ Len(stack) >= 1
        BY <1>1, <1>6, <2>4, EmptySeq
      <4>2. chain[1] = stack[Len(stack)]
        <5>1. /\ Len(stack) - 1 + 1 = Len(stack)
              /\ Len(stack) \in 1 .. Len(stack) + 1 /\ Len(stack) \in Len(stack) - 1 .. Len(stack)
              /\ 1 \in 1 .. Len(stack) - Len(stack) + 1 /\ Len(stack) + 1 - 1 = Len(stack)
          BY <1>1, <4>1
        <5>2. SubSeq(stack, Len(stack), Len(stack)) = chain
          BY <1>6, <2>4, <5>1
        <5>3. SubSeq(stack, Len(stack), Len(stack))[1] = stack[Len(stack) + 1 - 1]
          BY <1>1, <5>1, PartIs
        <5> QED
          BY <5>1, <5>2, <5>3
      <4> QED
        BY <1>7, <2>2, <2>4, <4>1, <4>2 DEF Top
    <3>2. 2 * Len(pushed) - Len(stack') = a /\ r * a \in Int
      BY <1>1, <2>3, <2>4
    <3>3. n <= r * a + x[1]
      BY <1>1, <1>7, <2>1, <3>1, <3>2
    <3> QED
      BY <3>2, <3>3
  <2>5. CASE m # 1
    <3>1. a + 1 <= a + m - 1 /\ a + m - 1 \in Int
      BY <1>3, <2>2, <2>3, <2>5
    <3>2. /\ r * a \in Int /\ r * (a + m - 1) \in Int
          /\ r * a + r <= r * (a + m - 1)
      BY <1>1, <2>3, <3>1, MoreTimes
    <3>3. n <= r * (a + m - 1) + x[1]
      BY <1>1, <1>7, <2>1, <3>2
    <3> QED
      BY <2>3, <3>3
  <2> QED
    BY <2>4, <2>5
<1>9. (n + 1) - 1 = n
  BY <1>1
<1> HIDE DEF n, m
<1> QED
  BY <1>1, <1>4, <1>7, <1>8, <1>9 DEF IsCounted

\* For every grammar without empty chains and without a chain that is a single
\* node of the same or a later rule, and for any tokens: there are only so many
\* reductions.
THEOREM ReductionsEndHolds == StackSpec => []ReductionsEnd
<1>1. CountInv /\ StackInv' /\ [StackNext]_stackVars => CountInv'
  <2> SUFFICES ASSUME CountInv, StackInv', [StackNext]_stackVars PROVE IsCounted'
    BY DEF CountInv
  <2>1. CASE Reduce
    BY <2>1, ReduceCounted
  <2>2. CASE Decide
    BY <2>2 DEF Decide, CountInv, IsCounted
  <2>3. CASE \E id \in TokenIds : Push(id)
    BY <2>3, PushCounted
  <2>4. CASE UNCHANGED stackVars
    BY <2>4 DEF stackVars, CountInv, IsCounted
  <2> QED
    BY <2>1, <2>2, <2>3, <2>4 DEF StackNext
<1>2. CountInv => ReductionsEnd
  <2> SUFFICES ASSUME CountInv, Ascending(grammar)
               PROVE  Len(derivation) - 1 <= 2 * Len(grammar) * Len(pushed)
    BY DEF ReductionsEnd
  <2> DEFINE r == Len(grammar)
             p == Len(pushed)
             l == Len(stack)
  <2>1. /\ r \in Nat /\ p \in Nat /\ l \in Nat /\ Len(derivation) \in Nat
        /\ (l = 0 => stack = <<>>)
    BY LenProperties, EmptySeq, GrammarsAre DEF CountInv, StackInv, StackType
  <2>2. Len(derivation) - 1 <= r * (2 * p - l) + Top(stack) /\ Top(stack) \in 0 .. r
    BY DEF CountInv, IsCounted
  <2>3. l = 0 => Top(stack) = 0
    BY <2>1 DEF Top
  <2> HIDE DEF r, p, l
  <2>4. 2 * r * p = r * (2 * p) /\ r * (2 * p) \in Int
    BY <2>1
  <2>5. r * (2 * p - l) + Top(stack) <= r * (2 * p)
    <3>1. CASE l = 0
      <4>1. 2 * p - l = 2 * p
        BY <2>1, <3>1
      <4> QED
        BY <2>3, <2>4, <3>1, <4>1
    <3>2. CASE l # 0
      <4>1. 2 * p - l \in Int /\ 2 * p \in Int /\ (2 * p - l) + 1 <= 2 * p
        BY <2>1, <3>2
      <4>2. r * (2 * p - l) \in Int /\ r * (2 * p - l) + r <= r * (2 * p)
        BY <2>1, <4>1, MoreTimes
      <4> QED
        BY <2>1, <2>2, <2>4, <4>2
    <3> QED
      BY <3>1, <3>2
  <2>6. r * (2 * p - l) \in Int
    <3>1. 2 * p - l \in Int
      BY <2>1
    <3> QED
      BY <2>1, <3>1
  <2>7. Len(derivation) - 1 <= r * (2 * p)
    BY <2>1, <2>2, <2>4, <2>5, <2>6
  <2>8. Len(derivation) - 1 <= 2 * r * p
    BY <2>4, <2>7
  <2> QED
    BY <2>8 DEF r, p
<1>3. StackInit => CountInv
  BY StackInitHolds, CountInitHolds DEF CountInv
<1> QED
  BY <1>1, <1>2, <1>3, StackInvariant, PTL DEF StackSpec

----------------------------------------------------------------------------
(* Machines                                                                  *)

Follows(S, F) == F \in [Nat \X S -> S]

IsIterated(f, S, z, F, a, n) ==
  f \in [a .. n -> S] /\ f[a] = z /\ \A d \in a + 1 .. n : f[d] = F[<<d, f[d - 1]>>]

\* A function whose values follow from one another exists.
LEMMA Iteration ==
  ASSUME NEW S, NEW z \in S, NEW F, Follows(S, F), NEW a \in Nat, NEW n \in Nat, a <= n
  PROVE  \E f : IsIterated(f, S, z, F, a, n)
<1> DEFINE Is(f, k) == IsIterated(f, S, z, F, a, k)
           Bad == {k \in Nat : a <= k /\ ~ \E f : Is(f, k)}
<1> USE DEF Follows, IsIterated
<1> SUFFICES ASSUME Bad # {} PROVE FALSE
  <2>1. n \notin Bad
    OBVIOUS
  <2> QED
    BY <2>1
<1>1. PICK b \in Bad : \A k \in Bad : b <= k
  <2>1. Bad \in SUBSET Nat
    OBVIOUS
  <2> HIDE DEF Bad
  <2> QED
    BY <2>1, Least
<1>2. b \in Nat /\ a <= b /\ ~ \E f : Is(f, b)
  BY <1>1
<1>3. CASE b = a
  <2> DEFINE f == [d \in a .. a |-> z]
  <2>1. f \in [a .. a -> S] /\ f[a] = z /\ a + 1 .. a = {}
    OBVIOUS
  <2>2. Is(f, a)
    BY <2>1
  <2> HIDE DEF Is, f
  <2> QED
    BY <1>2, <1>3, <2>2
<1>4. CASE b # a
  <2>1. b - 1 \in Nat /\ a <= b - 1 /\ ~(b <= b - 1) /\ b \in a + 1 .. b /\ b - 1 \in a .. b - 1
    BY <1>2, <1>4
  <2>2. PICK f : Is(f, b - 1)
    BY <1>1, <2>1
  <2> DEFINE e == F[<<b, f[b - 1]>>]
             g == [d \in a .. b |-> IF d = b THEN e ELSE f[d]]
  <2>3. e \in S
    BY <1>2, <2>1, <2>2
  <2>4. \A d \in a .. b : d # b => d \in a .. b - 1
    BY <1>2
  <2>5. g \in [a .. b -> S]
    BY <2>2, <2>3, <2>4
  <2>6. g[a] = z
    BY <1>2, <1>4, <2>2
  <2>7. ASSUME NEW d \in a + 1 .. b PROVE g[d] = F[<<d, g[d - 1]>>]
    <3>1. d \in a .. b /\ d - 1 \in a .. b /\ d - 1 # b
      BY <1>2
    <3>2. g[d - 1] = f[d - 1]
      BY <3>1
    <3>3. CASE d = b
      BY <3>1, <3>2, <3>3
    <3>4. CASE d # b
      <4>1. d \in a + 1 .. b - 1
        BY <1>2, <3>4
      <4>2. f[d] = F[<<d, f[d - 1]>>]
        BY <2>2, <4>1
      <4>3. g[d] = f[d]
        BY <3>1, <3>4
      <4> QED
        BY <3>2, <4>2, <4>3
    <3> QED
      BY <3>3, <3>4
  <2> HIDE DEF g
  <2>8. Is(g, b)
    BY <2>5, <2>6, <2>7
  <2> HIDE DEF Is
  <2> QED
    BY <1>2, <2>8
<1> QED
  BY <1>3, <1>4

States(m) == DOMAIN m.states
Indices(m) == 0 .. Len(m.states)

\* The row of AddSplit behind the row "before"; the first has none.
Row(m, first, before) ==
  [j \in Indices(m) |->
     IF j = Nowhere THEN {}
     ELSE IF m.states[j].type # "split" THEN {j}
     ELSE IF first THEN {} ELSE before[m.states[j].out] \cup before[m.states[j].out1]]

LEMMA MachineIs ==
  ASSUME NEW m, IsMachine(m)
  PROVE  /\ Len(m.states) \in Nat /\ States(m) = 1 .. Len(m.states) /\ m.frags[1].start \in States(m)
         /\ \A j \in States(m) : m.states[j].out \in Indices(m) /\ m.states[j].out1 \in Indices(m)
<1> DEFINE R == [type : {"lit", "notlit", "range", "notrange", "split", "match"}, ch : STRING,
                 out : 0 .. Len(m.states), out1 : 0 .. Len(m.states)]
<1>1. m.states \in Seq(R) /\ m.frags[1].start \in States(m)
  BY DEF IsMachine, States
<1>2. \A e \in R : e.out \in Indices(m) /\ e.out1 \in Indices(m)
  BY DEF Indices
<1> HIDE DEF R
<1>3. Len(m.states) \in Nat /\ States(m) = 1 .. Len(m.states)
  BY <1>1, LenProperties DEF States
<1>4. \A j \in States(m) : m.states[j] \in R
  BY <1>1, <1>3, ElementOfSeq
<1> QED
  BY <1>1, <1>2, <1>3, <1>4

\* A thread goes to states of the machine.
LEMMA AddSplitIn ==
  ASSUME NEW m, IsMachine(m), NEW k \in Indices(m)
  PROVE  AddSplit(m, k) \in SUBSET States(m)
<1> DEFINE N == Len(m.states)
           S == [Indices(m) -> SUBSET States(m)]
           Is(f) == f = [d \in 0 .. N |-> Row(m, d = 0, f[d - 1])]
           F == [p \in Nat \X S |-> Row(m, FALSE, p[2])]
           z == Row(m, TRUE, <<>>)
           added == CHOOSE f : Is(f)
<1>1. N \in Nat /\ Indices(m) = 0 .. N /\ States(m) = 1 .. N
  BY MachineIs DEF Indices
<1>2. \A before \in S : Row(m, FALSE, before) \in S
  BY <1>1, MachineIs DEF Row, Nowhere
<1>3. z \in S /\ \A before : Row(m, TRUE, before) = z
  BY <1>1, MachineIs DEF Row, Nowhere
<1>4. F \in [Nat \X S -> S]
  <2> HIDE DEF S
  <2> QED
    BY <1>2
<1> HIDE DEF S, z
<1>5. \A d \in 0 .. N : \A before : Row(m, d = 0, before) = IF d = 0 THEN z ELSE Row(m, FALSE, before)
  <2> TAKE d \in 0 .. N
  <2> TAKE before
  <2>1. CASE d = 0
    <3>1. (d = 0) = TRUE
      BY <2>1
    <3> QED
      BY <1>3, <3>1
  <2>2. CASE d # 0
    <3>1. (d = 0) = FALSE
      BY <2>2
    <3> QED
      BY <3>1
  <2> QED
    BY <2>1, <2>2
<1>6. \E f : Is(f)
  <2>0. PICK f : IsIterated(f, S, z, F, 0, N)
    <3>1. z \in S /\ 0 \in Nat /\ 0 <= N
      BY <1>1, <1>3
    <3>2. Follows(S, F)
      BY <1>4 DEF Follows
    <3> HIDE DEF F, N
    <3> QED
      BY <1>1, <3>1, <3>2, Iteration
  <2>1. f \in [0 .. N -> S] /\ f[0] = z /\ \A d \in 0 + 1 .. N : f[d] = F[<<d, f[d - 1]>>]
    <3> HIDE DEF F
    <3> QED
      BY <2>0 DEF IsIterated
  <2>2. ASSUME NEW d \in 0 .. N PROVE f[d] = Row(m, d = 0, f[d - 1])
    <3>1. CASE d = 0
      BY <1>5, <2>1, <3>1
    <3>2. CASE d # 0
      <4>1. d \in 0 + 1 .. N /\ d - 1 \in 0 .. N /\ d \in Nat
        BY <1>1, <3>2
      <4>2. f[d] = F[<<d, f[d - 1]>>] /\ f[d - 1] \in S
        BY <2>1, <4>1
      <4>3. f[d] = Row(m, FALSE, f[d - 1])
        BY <4>1, <4>2
      <4> QED
        BY <1>5, <3>2, <4>3
    <3> QED
      BY <3>1, <3>2
  <2>3. f = [d \in 0 .. N |-> f[d]]
    BY <2>1
  <2>4. Is(f)
    BY <2>2, <2>3
  <2> QED
    BY <2>4
<1>7. Is(added)
  <2> HIDE DEF Is
  <2> QED
    BY <1>6
<1>8. AddSplit(m, k) = added[N][k]
  BY Zenon DEF AddSplit, Row, Indices
<1> HIDE DEF added
<1>9. \A d \in 0 .. N : added[d] = Row(m, d = 0, added[d - 1])
  BY <1>7
<1>10. added[N] \in S
  <2> DEFINE Bad == {d \in 0 .. N : added[d] \notin S}
  <2> SUFFICES ASSUME Bad # {} PROVE FALSE
    BY <1>1
  <2>1. PICK b \in Bad : \A d \in Bad : b <= d
    <3>1. Bad \in SUBSET Nat
      BY <1>1
    <3> HIDE DEF Bad
    <3> QED
      BY <3>1, Least
  <2>2. b # 0
    BY <1>3, <1>5, <1>9, <2>1
  <2>3. b - 1 \in 0 .. N /\ b - 1 \notin Bad
    BY <1>1, <2>1, <2>2
  <2>4. added[b - 1] \in S
    BY <2>3
  <2>5. added[b] = Row(m, FALSE, added[b - 1])
    BY <1>5, <1>9, <2>1, <2>2
  <2> QED
    BY <1>2, <2>1, <2>4, <2>5
<1> QED
  BY <1>8, <1>10 DEF S

----------------------------------------------------------------------------
(* Scanning                                                                  *)

\* The states of a machine that has begun, one after the other.
RunStart(m) == [current |-> AddSplit(m, m.frags[1].start), end |-> Nowhere, done |-> FALSE]
IsRun(m, s, begin, f) ==
  f = [at \in begin .. Len(s) |-> IF at = begin THEN RunStart(m) ELSE ScanStep(m, f[at - 1], s[at], at)]
RunOf(m, s, begin) == CHOOSE f : IsRun(m, s, begin, f)

LEMMA ScanIs ==
  ASSUME NEW m, NEW s, NEW begin
  PROVE  LET run == RunOf(m, s, begin)
         IN  Scan(m, s, begin) = IF run[Len(s)].end = Nowhere THEN begin ELSE run[Len(s)].end
BY Zenon DEF Scan, RunOf, IsRun, RunStart

RunStates(m, s) == [current : SUBSET States(m), end : 0 .. Len(s), done : BOOLEAN]

LEMMA MovedIn ==
  ASSUME NEW m, IsMachine(m), NEW T \in SUBSET States(m), NEW c
  PROVE  Moved(m, T, c) \in SUBSET States(m)
<1>1. \A k \in T : AddSplit(m, m.states[k].out) \in SUBSET States(m)
  BY MachineIs, AddSplitIn
<1> QED
  BY <1>1 DEF Moved

LEMMA StepIn ==
  ASSUME NEW m, IsMachine(m), NEW s, NEW r \in RunStates(m, s), NEW c, NEW at \in 0 .. Len(s)
  PROVE  ScanStep(m, r, c, at) \in RunStates(m, s)
<1>1. Moved(m, r.current, c) \in SUBSET States(m)
  BY MovedIn DEF RunStates
<1>2. (r.end # Nowhere) \in BOOLEAN
  OBVIOUS
<1> QED
  BY <1>1, <1>2 DEF ScanStep, RunStates

LEMMA RunIs ==
  ASSUME NEW m, IsMachine(m), NEW s, Len(s) \in Nat, NEW begin \in 0 .. Len(s)
  PROVE  LET run == RunOf(m, s, begin)
         IN  /\ run[begin] = RunStart(m)
             /\ \A at \in begin + 1 .. Len(s) : run[at] = ScanStep(m, run[at - 1], s[at], at)
             /\ \A at \in begin .. Len(s) : run[at] \in RunStates(m, s)
<1> DEFINE S == RunStates(m, s)
           n == Len(s)
           z == RunStart(m)
           F == [p \in Nat \X S |-> IF p[1] \in 0 .. n THEN ScanStep(m, p[2], s[p[1]], p[1]) ELSE z]
           run == RunOf(m, s, begin)
<1>1. z \in S
  <2>1. AddSplit(m, m.frags[1].start) \in SUBSET States(m)
    BY MachineIs, AddSplitIn DEF Indices
  <2> QED
    BY <2>1 DEF RunStart, RunStates, Nowhere
<1>2. F \in [Nat \X S -> S]
  <2>1. \A p \in Nat \X S : p[1] \in 0 .. n => ScanStep(m, p[2], s[p[1]], p[1]) \in S
    BY StepIn
  <2> HIDE DEF S, z
  <2> QED
    BY <1>1, <2>1
<1>3. \E f : IsRun(m, s, begin, f)
  <2>0. PICK f : IsIterated(f, S, z, F, begin, n)
    <3>1. begin \in Nat /\ n \in Nat /\ begin <= n /\ Follows(S, F)
      BY <1>2 DEF Follows
    <3> HIDE DEF F, n, S, z
    <3> QED
      BY <1>1, <3>1, Iteration
  <2>1. f \in [begin .. n -> S] /\ f[begin] = z /\ \A at \in begin + 1 .. n : f[at] = F[<<at, f[at - 1]>>]
    <3> HIDE DEF F, S, z
    <3> QED
      BY <2>0 DEF IsIterated
  <2> HIDE DEF S, z
  <2>2. ASSUME NEW at \in begin .. n
        PROVE  f[at] = IF at = begin THEN z ELSE ScanStep(m, f[at - 1], s[at], at)
    <3>1. CASE at # begin
      <4>1. at \in begin + 1 .. n /\ at - 1 \in begin .. n /\ at \in Nat /\ at \in 0 .. n
        BY <3>1
      <4>2. f[at] = F[<<at, f[at - 1]>>] /\ f[at - 1] \in S
        BY <2>1, <4>1
      <4> QED
        BY <3>1, <4>1, <4>2
    <3> QED
      BY <2>1, <3>1
  <2>3. f = [at \in begin .. n |-> f[at]]
    BY <2>1
  <2>4. IsRun(m, s, begin, f)
    BY <2>2, <2>3 DEF IsRun, z
  <2> QED
    BY <2>4
<1>4. IsRun(m, s, begin, run)
  BY <1>3 DEF RunOf
<1> HIDE DEF run, F
<1>5. \A at \in begin .. n : run[at] = IF at = begin THEN z ELSE ScanStep(m, run[at - 1], s[at], at)
  BY <1>4 DEF IsRun
<1>6. run[begin] = z /\ \A at \in begin + 1 .. n : run[at] = ScanStep(m, run[at - 1], s[at], at)
  <2> HIDE DEF z
  <2> QED
    BY <1>5
<1>7. \A at \in begin .. n : run[at] \in S
  <2> DEFINE Bad == {at \in begin .. n : run[at] \notin S}
  <2> SUFFICES ASSUME Bad # {} PROVE FALSE
    OBVIOUS
  <2>1. PICK b \in Bad : \A at \in Bad : b <= at
    <3>1. Bad \in SUBSET Nat
      OBVIOUS
    <3> HIDE DEF Bad
    <3> QED
      BY <3>1, Least
  <2> HIDE DEF S, z
  <2>2. b # begin
    BY <1>1, <1>6, <2>1
  <2>3. b \in begin + 1 .. n /\ b - 1 \in begin .. n /\ b - 1 \notin Bad /\ b \in 0 .. n
    BY <2>1, <2>2
  <2>4. run[b - 1] \in S
    BY <2>3
  <2>5. ScanStep(m, run[b - 1], s[b], b) \in S
    BY <2>3, <2>4, StepIn DEF S
  <2> QED
    BY <1>6, <2>1, <2>3, <2>5
<1> QED
  BY <1>6, <1>7 DEF run

\* The states that single threads can be in.
Reached(m, s, begin, k) ==
  {x \in States(m) : \E p : IsPath(m, s, begin, k, p) /\ p[k] = x}

LEMMA ReachedFirst ==
  ASSUME NEW m, IsMachine(m), NEW s, NEW begin \in Nat
  PROVE  Reached(m, s, begin, begin) = AddSplit(m, m.frags[1].start)
<1> DEFINE A == AddSplit(m, m.frags[1].start)
<1>1. A \in SUBSET States(m)
  BY MachineIs, AddSplitIn DEF Indices
<1>2. ASSUME NEW x \in Reached(m, s, begin, begin) PROVE x \in A
  BY DEF Reached, IsPath
<1>3. ASSUME NEW x \in A PROVE x \in Reached(m, s, begin, begin)
  <2> DEFINE p == [j \in begin .. begin |-> x]
  <2>1. p \in [begin .. begin -> States(m)] /\ p[begin] = x /\ begin + 1 .. begin = {}
    BY <1>1
  <2> HIDE DEF p, A
  <2>2. IsPath(m, s, begin, begin, p)
    BY <2>1 DEF IsPath, States, A
  <2> QED
    BY <1>1, <2>1, <2>2 DEF Reached
<1> QED
  BY <1>2, <1>3

LEMMA ReachedNext ==
  ASSUME NEW m, IsMachine(m), NEW s, NEW begin \in Nat, NEW k \in Nat, begin < k
  PROVE  Reached(m, s, begin, k) = Moved(m, Reached(m, s, begin, k - 1), s[k])
<1> DEFINE R == Reached(m, s, begin, k - 1)
           to(x) == AddSplit(m, m.states[x].out)
<1>1. /\ k - 1 \in begin .. k - 1 /\ k \in begin + 1 .. k /\ k \in begin .. k /\ k - 1 # k
      /\ begin \in begin .. k - 1 /\ begin # k
      /\ \A j \in begin .. k : j # k => j \in begin .. k - 1
      /\ \A j \in begin + 1 .. k : j # k => j \in begin + 1 .. k - 1
      /\ \A j \in begin + 1 .. k : j - 1 \in begin .. k - 1 /\ j - 1 # k
      /\ \A j \in begin + 1 .. k - 1 : j \in begin + 1 .. k /\ j \in begin .. k - 1 /\ j # k
      /\ \A j \in begin .. k - 1 : j \in begin .. k /\ j # k
  OBVIOUS
<1>2. R \in SUBSET States(m)
  BY DEF Reached
<1>3. ASSUME NEW y \in Reached(m, s, begin, k) PROVE y \in Moved(m, R, s[k])
  <2>1. PICK p : IsPath(m, s, begin, k, p) /\ p[k] = y
    BY DEF Reached
  <2> DEFINE q == [j \in begin .. k - 1 |-> p[j]]
             x == p[k - 1]
  <2>2. IsPath(m, s, begin, k - 1, q)
    <3>1. q \in [begin .. k - 1 -> DOMAIN m.states]
      BY <1>1, <2>1 DEF IsPath
    <3>2. q[begin] = p[begin] /\ \A j \in begin + 1 .. k - 1 : q[j] = p[j] /\ q[j - 1] = p[j - 1]
      BY <1>1
    <3> HIDE DEF q
    <3> QED
      BY <1>1, <2>1, <3>1, <3>2 DEF IsPath
  <2>3. q[k - 1] = x /\ x \in States(m)
    BY <1>1, <2>1 DEF IsPath, States
  <2>4. x \in R
    <3> HIDE DEF q, x
    <3> QED
      BY <2>2, <2>3 DEF Reached
  <2>5. Accepts(m.states[x], s[k]) /\ y \in AddSplit(m, m.states[x].out)
    BY <1>1, <2>1 DEF IsPath
  <2> HIDE DEF R, x
  <2> QED
    BY <2>4, <2>5 DEF Moved
<1>4. ASSUME NEW y \in Moved(m, R, s[k]) PROVE y \in Reached(m, s, begin, k)
  <2>1. PICK x \in R : Accepts(m.states[x], s[k]) /\ y \in AddSplit(m, m.states[x].out)
    BY DEF Moved
  <2>2. PICK q : IsPath(m, s, begin, k - 1, q) /\ q[k - 1] = x
    BY DEF Reached
  <2>3. y \in States(m)
    BY <1>2, <2>1, MovedIn
  <2> DEFINE p == [j \in begin .. k |-> IF j = k THEN y ELSE q[j]]
  <2>4. /\ p \in [begin .. k -> DOMAIN m.states] /\ p[begin] = q[begin] /\ p[k] = y
        /\ \A j \in begin .. k - 1 : p[j] = q[j]
    BY <1>1, <2>2, <2>3 DEF IsPath, States
  <2> HIDE DEF p
  <2>5. ASSUME NEW j \in begin + 1 .. k
        PROVE  Accepts(m.states[p[j - 1]], s[j]) /\ p[j] \in AddSplit(m, m.states[p[j - 1]].out)
    <3>1. CASE j = k
      BY <1>1, <2>1, <2>2, <2>4, <3>1
    <3>2. CASE j # k
      <4>1. j \in begin + 1 .. k - 1 /\ p[j] = q[j] /\ p[j - 1] = q[j - 1]
        BY <1>1, <2>4, <3>2
      <4> QED
        BY <2>2, <4>1 DEF IsPath
    <3> QED
      BY <3>1, <3>2
  <2>6. p[begin] \in AddSplit(m, m.frags[1].start)
    BY <2>2, <2>4 DEF IsPath
  <2>7. IsPath(m, s, begin, k, p)
    BY <2>4, <2>5, <2>6 DEF IsPath
  <2> QED
    BY <2>3, <2>4, <2>7 DEF Reached
<1> QED
  BY <1>3, <1>4

LEMMA EndsAre ==
  ASSUME NEW m, IsMachine(m), NEW s, NEW begin \in Nat, NEW k \in begin + 1 .. Len(s)
  PROVE  k \in MatchEnds(m, s, begin) <=> IsMatch(m, Reached(m, s, begin, k))
<1>0. k \in begin .. k
  OBVIOUS
<1>1. ASSUME k \in MatchEnds(m, s, begin) PROVE IsMatch(m, Reached(m, s, begin, k))
  <2>1. PICK p \in [begin .. k -> DOMAIN m.states] : IsPath(m, s, begin, k, p) /\ m.states[p[k]].type = "match"
    BY <1>1 DEF MatchEnds
  <2>2. p[k] \in States(m)
    BY <1>0 DEF States
  <2>3. p[k] \in Reached(m, s, begin, k)
    BY <2>1, <2>2 DEF Reached
  <2> QED
    BY <2>1, <2>3 DEF IsMatch
<1>2. ASSUME IsMatch(m, Reached(m, s, begin, k)) PROVE k \in MatchEnds(m, s, begin)
  <2>1. PICK x \in Reached(m, s, begin, k) : m.states[x].type = "match"
    BY <1>2 DEF IsMatch
  <2>2. PICK p : IsPath(m, s, begin, k, p) /\ p[k] = x
    BY DEF Reached
  <2>3. p \in [begin .. k -> DOMAIN m.states]
    BY <2>2 DEF IsPath
  <2> QED
    BY <2>1, <2>2, <2>3 DEF MatchEnds
<1> QED
  BY <1>1, <1>2

\* What the loop knows of the ends E when it has read up to "at": its threads
\* are all that there are, until it is done; what it has found is the end of the
\* first run, as far as it has read.
Knows(m, s, begin, E, at, r) ==
  /\ ~r.done => r.current = Reached(m, s, begin, at)
  /\ r.end = Nowhere => ~r.done /\ \A j \in begin + 1 .. at : j \notin E
  /\ r.end # Nowhere =>
       /\ r.end \in E /\ r.end \in begin + 1 .. at
       /\ \A j \in begin + 1 .. r.end : (\E i \in E : i <= j) => j \in E
       /\ IF r.done THEN r.end + 1 \in begin + 1 .. at /\ r.end + 1 \notin E ELSE r.end = at

LEMMA KnowsNext ==
  ASSUME NEW m, IsMachine(m), NEW s, NEW begin \in Nat, NEW at \in begin + 1 .. Len(s), Len(s) \in Nat,
         NEW r \in RunStates(m, s), Knows(m, s, begin, MatchEnds(m, s, begin), at - 1, r)
  PROVE  Knows(m, s, begin, MatchEnds(m, s, begin), at, ScanStep(m, r, s[at], at))
<1> DEFINE E == MatchEnds(m, s, begin)
           next == Moved(m, r.current, s[at])
           e == r.end
           t == ScanStep(m, r, s[at], at)
<1>1. /\ E \subseteq begin + 1 .. Len(s) /\ e \in Nat /\ r.done \in BOOLEAN /\ at \in Nat /\ at # 0
  BY DEF MatchEnds, RunStates
<1>2. ASSUME r.done PROVE Knows(m, s, begin, E, at, t)
  <2>1. t = r
    BY <1>2 DEF ScanStep
  <2>2. \A j \in begin + 1 .. at - 1 : j \in begin + 1 .. at
    OBVIOUS
  <2> QED
    BY <1>2, <2>1, <2>2 DEF Knows
<1>3. ASSUME ~r.done PROVE Knows(m, s, begin, E, at, t)
  <2>1. next = Reached(m, s, begin, at)
    <3>1. begin < at
      OBVIOUS
    <3>2. r.current = Reached(m, s, begin, at - 1)
      BY <1>3 DEF Knows
    <3> QED
      BY <1>1, <3>1, <3>2, ReachedNext
  <2>2. at \in E <=> IsMatch(m, next)
    BY <2>1, EndsAre
  <2> HIDE DEF next, E
  <2>3. CASE at \in E
    <3>1. t = [current |-> next, end |-> at, done |-> FALSE]
      BY <1>3, <2>2, <2>3 DEF ScanStep, next
    <3> HIDE DEF t
    <3>2. t.current = next /\ t.end = at /\ t.done = FALSE
      BY <3>1
    <3>3. ASSUME NEW j \in begin + 1 .. at, NEW i \in E, i <= j PROVE j \in E
      <4>1. CASE j = at
        BY <2>3, <4>1
      <4>2. CASE j # at
        <5>1. j \in begin + 1 .. at - 1 /\ i \in begin + 1 .. at - 1
          BY <1>1, <3>3, <4>2
        <5>2. e # Nowhere
          BY <5>1 DEF Knows, E
        <5>3. e = at - 1 /\ j \in begin + 1 .. e
          BY <1>3, <5>1, <5>2 DEF Knows
        <5> QED
          BY <3>3, <5>2, <5>3 DEF Knows, E
      <4> QED
        BY <4>1, <4>2
    <3>4. at \in begin + 1 .. at /\ at # Nowhere
      BY <1>1 DEF Nowhere
    <3> QED
      BY <2>1, <2>3, <3>2, <3>3, <3>4 DEF Knows
  <2>4. CASE at \notin E
    <3>1. t = [current |-> next, end |-> e, done |-> e # Nowhere]
      BY <1>3, <2>2, <2>4 DEF ScanStep, next
    <3> HIDE DEF t
    <3>2. CASE e = Nowhere
      <4>1. (e # Nowhere) = FALSE
        BY <3>2
      <4>2. t.current = next /\ t.end = Nowhere /\ t.done = FALSE
        BY <3>1, <3>2, <4>1
      <4>3. \A j \in begin + 1 .. at : j = at \/ j \in begin + 1 .. at - 1
        OBVIOUS
      <4>4. \A j \in begin + 1 .. at : j \notin E
        BY <2>4, <3>2, <4>3 DEF Knows, E
      <4> QED
        BY <2>1, <4>2, <4>4 DEF Knows
    <3>3. CASE e # Nowhere
      <4>1. (e # Nowhere) = TRUE
        BY <3>3
      <4>2. t.end = e /\ t.done = TRUE
        BY <3>1, <4>1
      <4>3. /\ e \in E /\ e = at - 1 /\ e \in begin + 1 .. at - 1
            /\ \A j \in begin + 1 .. e : (\E i \in E : i <= j) => j \in E
        BY <1>3, <3>3 DEF Knows, E
      <4>4. e \in begin + 1 .. at /\ e + 1 = at /\ at \in begin + 1 .. at
        BY <1>1, <4>3
      <4> HIDE DEF e
      <4> QED
        BY <2>4, <3>3, <4>2, <4>3, <4>4 DEF Knows
    <3> QED
      BY <3>2, <3>3
  <2> QED
    BY <2>3, <2>4
<1> QED
  BY <1>2, <1>3

LEMMA KnowsAll ==
  ASSUME NEW m, IsMachine(m), NEW s, Len(s) \in Nat, NEW begin \in 0 .. Len(s), NEW at \in begin .. Len(s)
  PROVE  Knows(m, s, begin, MatchEnds(m, s, begin), at, RunOf(m, s, begin)[at])
<1> DEFINE E == MatchEnds(m, s, begin)
           n == Len(s)
           run == RunOf(m, s, begin)
           Bad == {k \in begin .. n : ~Knows(m, s, begin, E, k, run[k])}
<1> SUFFICES ASSUME Bad # {} PROVE FALSE
  OBVIOUS
<1>1. PICK b \in Bad : \A k \in Bad : b <= k
  <2>1. Bad \in SUBSET Nat
    OBVIOUS
  <2> HIDE DEF Bad
  <2> QED
    BY <2>1, Least
<1>2. /\ run[begin] = RunStart(m)
      /\ \A k \in begin + 1 .. n : run[k] = ScanStep(m, run[k - 1], s[k], k)
      /\ \A k \in begin .. n : run[k] \in RunStates(m, s)
  BY RunIs
<1> HIDE DEF run, E
<1>3. b # begin
  <2>1. Knows(m, s, begin, E, begin, RunStart(m))
    <3>1. begin + 1 .. begin = {} /\ begin \in Nat
      OBVIOUS
    <3>2. RunStart(m).current = Reached(m, s, begin, begin)
      BY <3>1, ReachedFirst DEF RunStart
    <3>3. RunStart(m).end = Nowhere /\ RunStart(m).done = FALSE
      BY DEF RunStart
    <3> QED
      BY <3>1, <3>2, <3>3 DEF Knows
  <2> QED
    BY <1>1, <1>2, <2>1
<1>4. b \in begin + 1 .. n /\ b - 1 \in begin .. n /\ b - 1 \notin Bad /\ begin \in Nat
  BY <1>1, <1>3
<1>5. Knows(m, s, begin, E, b - 1, run[b - 1]) /\ run[b - 1] \in RunStates(m, s)
  BY <1>2, <1>4
<1>6. Knows(m, s, begin, E, b, run[b])
  BY <1>2, <1>4, <1>5, KnowsNext DEF E
<1> QED
  BY <1>1, <1>6

\* A scan of any machine on any text, from any place on, returns the end of the
\* first run of places where one of its threads, each for itself, ends in a match;
\* it loses no thread by running them together, and none by leaving early
\* (regex.cpp:342).
THEOREM ScanIsFirstRun ==
  ASSUME NEW m, IsMachine(m), NEW s, Len(s) \in Nat, NEW begin \in 0 .. Len(s)
  PROVE  Scan(m, s, begin) = FirstRun(MatchEnds(m, s, begin), begin)
<1> DEFINE E == MatchEnds(m, s, begin)
           n == Len(s)
           r == RunOf(m, s, begin)[n]
           e == r.end
           runs == {k \in E : \A j \in begin + 1 .. k : (\E i \in E : i <= j) => j \in E}
<1>1. Knows(m, s, begin, E, n, r) /\ r \in RunStates(m, s)
  BY KnowsAll, RunIs
<1>2. Scan(m, s, begin) = IF e = Nowhere THEN begin ELSE e
  BY ScanIs
<1>3. FirstRun(E, begin) = IF E = {} THEN begin ELSE CHOOSE k \in runs : \A j \in runs : j <= k
  BY DEF FirstRun
<1>4. E \subseteq begin + 1 .. n
  BY DEF MatchEnds
<1> HIDE DEF E, r
<1>5. CASE e = Nowhere
  <2>1. E = {}
    BY <1>1, <1>4, <1>5 DEF Knows
  <2> QED
    BY <1>2, <1>3, <1>5, <2>1 DEF E
<1>6. CASE e # Nowhere
  <2>1. /\ e \in E /\ e \in begin + 1 .. n
        /\ \A j \in begin + 1 .. e : (\E i \in E : i <= j) => j \in E
        /\ IF r.done THEN e + 1 \in begin + 1 .. n /\ e + 1 \notin E ELSE e = n
    BY <1>1, <1>6 DEF Knows
  <2> HIDE DEF e
  <2>2. e \in runs
    BY <2>1
  <2>3. ASSUME NEW k \in runs PROVE k <= e
    <3>1. k \in begin + 1 .. n /\ \A j \in begin + 1 .. k : (\E i \in E : i <= j) => j \in E
      BY <1>4
    <3>2. CASE k > e
      <4>1. e + 1 \in begin + 1 .. k /\ e <= e + 1 /\ e # n
        BY <2>1, <3>1, <3>2
      <4>2. e + 1 \in E
        BY <2>1, <3>1, <4>1
      <4> QED
        BY <2>1, <4>1, <4>2
    <3> QED
      BY <2>1, <3>1, <3>2
  <2>4. runs \subseteq Nat
    <3>1. begin + 1 .. n \subseteq Nat
      OBVIOUS
    <3> HIDE DEF n
    <3> QED
      BY <1>4, <3>1
  <2> HIDE DEF runs
  <2>5. \A x \in runs : (\A j \in runs : j <= x) => x = e
    BY <2>2, <2>3, <2>4
  <2>6. (CHOOSE k \in runs : \A j \in runs : j <= k) = e
    BY <2>2, <2>3, <2>5
  <2>7. E # {}
    BY <2>1
  <2> QED
    BY <1>2, <1>3, <1>6, <2>6, <2>7 DEF E, e
<1> QED
  BY <1>5, <1>6

\* What is found lies in the text.
LEMMA ScanIn ==
  ASSUME NEW m, IsMachine(m), NEW s, Len(s) \in Nat, NEW begin \in 0 .. Len(s)
  PROVE  Scan(m, s, begin) \in begin .. Len(s)
<1> DEFINE E == MatchEnds(m, s, begin)
           n == Len(s)
           e == RunOf(m, s, begin)[n].end
<1>1. Knows(m, s, begin, E, n, RunOf(m, s, begin)[n])
  BY KnowsAll
<1>2. Scan(m, s, begin) = IF e = Nowhere THEN begin ELSE e
  BY ScanIs
<1>3. e # Nowhere => e \in begin + 1 .. n
  BY <1>1 DEF Knows
<1> HIDE DEF e
<1> QED
  BY <1>2, <1>3

----------------------------------------------------------------------------
(* Parses                                                                    *)

LEMMA TokensIn ==
  ASSUME NEW s \in Sources, NEW begin \in 0 .. Len(s), NEW token \in NextToken(s, begin)
  PROVE  token.id \in TokenIds /\ token.end \in begin + 1 .. Len(s)
<1>1. PICK k \in DOMAIN TokenTypes :
        /\ token = [id |-> TokenTypes[k].id, end |-> Scan(TokenTypes[k].nfa, s, begin)]
        /\ Scan(TokenTypes[k].nfa, s, begin) # begin
  BY DEF NextToken
<1>2. TokenTypes[k].id \in TokenIds /\ IsMachine(TokenTypes[k].nfa) /\ Len(s) \in Nat
  BY TokenizerAssumption, LenProperties
<1> DEFINE e == Scan(TokenTypes[k].nfa, s, begin)
<1>3. e \in begin .. Len(s) /\ e # begin
  BY <1>1, <1>2, ScanIn
<1>4. token.id = TokenTypes[k].id /\ token.end = e
  BY <1>1
<1> HIDE DEF e
<1> QED
  BY <1>2, <1>3, <1>4

\* Where the parse is in its text.
ParseInv ==
  /\ source \in Sources /\ cur \in 0 .. Len(source)
  /\ pushed \in Seq(TokenIds) /\ Len(pushed) <= cur

LEMMA ParseNext ==
  ASSUME ParseInv, [LRNext]_lrVars
  PROVE  ParseInv'
<1>0. Len(source) \in Nat /\ Len(pushed) \in Nat
  BY TokenizerAssumption, LenProperties DEF ParseInv
<1>1. ASSUME NEW token \in NextToken(source, cur), ReadToken(token) PROVE ParseInv'
  <2>1. token.id \in TokenIds /\ token.end \in cur + 1 .. Len(source)
    BY TokensIn DEF ParseInv
  <2>2. source' = source /\ cur' = token.end
    BY <1>1 DEF ReadToken
  <2>3. pushed' \in Seq(TokenIds) /\ Len(pushed') <= Len(pushed) + 1
    <3>1. CASE Push(token.id)
      BY <1>0, <2>1, <3>1, AppendProperties DEF Push, ParseInv
    <3>2. CASE UNCHANGED stackVars
      BY <1>0, <3>2 DEF stackVars, ParseInv
    <3> QED
      BY <1>1, <3>1, <3>2 DEF ReadToken
  <2>4. Len(pushed') \in Nat
    BY <2>3, LenProperties
  <2> QED
    BY <1>0, <2>1, <2>2, <2>3, <2>4 DEF ParseInv
<1>2. CASE ReduceStack
  BY <1>2 DEF ReduceStack, Reduce, ParseInv
<1>3. CASE Finish
  BY <1>3 DEF Finish, Decide, ParseInv
<1>4. CASE UNCHANGED lrVars
  BY <1>4 DEF lrVars, stackVars, ParseInv
<1> QED
  BY <1>1, <1>2, <1>3, <1>4 DEF LRNext

\* The parser does to the stack nothing else than what Reductions has.
LEMMA ParseIsStack ==
  ASSUME ParseInv, [LRNext]_lrVars
  PROVE  [StackNext]_stackVars
<1>1. ASSUME NEW token \in NextToken(source, cur), ReadToken(token) PROVE [StackNext]_stackVars
  <2>1. token.id \in TokenIds
    BY TokensIn DEF ParseInv
  <2>2. Push(token.id) \/ UNCHANGED stackVars
    BY <1>1 DEF ReadToken
  <2> QED
    BY <2>1, <2>2 DEF StackNext
<1>2. CASE ReduceStack
  BY <1>2 DEF ReduceStack, StackNext
<1>3. CASE Finish
  BY <1>3 DEF Finish, StackNext
<1>4. CASE UNCHANGED lrVars
  BY <1>4 DEF lrVars
<1> QED
  BY <1>1, <1>2, <1>3, <1>4 DEF LRNext

LEMMA ParseInvariant == LRSpec => []ParseInv
<1>1. LRInit => ParseInv
  <2> SUFFICES ASSUME LRInit PROVE ParseInv
    OBVIOUS
  <2>1. source \in Sources /\ cur = 0 /\ pushed = <<>>
    BY DEF LRInit, StackInit
  <2>2. Len(source) \in Nat
    BY <2>1, TokenizerAssumption, LenProperties
  <2> QED
    BY <2>1, <2>2 DEF ParseInv
<1>2. ParseInv /\ [LRNext]_lrVars => ParseInv'
  BY ParseNext
<1> QED
  BY <1>1, <1>2, PTL DEF LRSpec

\* The parser of a text keeps what was proved of the stack: it is the stack's
\* specification, with the tokens that the patterns find.
THEOREM ParsesOnStack == LRSpec => StackSpec
<1>1. LRInit => StackInit
  BY DEF LRInit
<1>2. ParseInv /\ [LRNext]_lrVars => [StackNext]_stackVars
  BY ParseIsStack
<1> QED
  BY <1>1, <1>2, ParseInvariant, PTL DEF LRSpec, StackSpec

\* For any patterns, texts and grammars: tokens are as many as characters at
\* most, and reductions, for a grammar that ascends, at most twice as many as
\* characters for each rule, so that every parse ends.
THEOREM ParseEndsHolds == LRSpec => []ParseEnds
<1>1. StackInv /\ ReductionsEnd /\ ParseInv => ParseEnds
  <2> SUFFICES ASSUME StackInv, ReductionsEnd, ParseInv PROVE ParseEnds
    OBVIOUS
  <2> DEFINE r == Len(grammar)
             p == Len(pushed)
             l == Len(source)
  <2>1. r \in Nat /\ p \in Nat /\ l \in Nat /\ Len(derivation) \in Nat
    BY TokenizerAssumption, LenProperties, GrammarsAre DEF ParseInv, StackInv
  <2>2. p <= cur /\ cur <= l /\ p <= l
    BY <2>1 DEF ParseInv
  <2>3. Ascending(grammar) => Len(derivation) - 1 <= 2 * r * p
    BY DEF ReductionsEnd
  <2> HIDE DEF r, p, l
  <2>4. 2 * r * p <= 2 * r * l
    <3>1. PICK d \in Nat : l = p + d
      <4>1. l - p \in Nat /\ l = p + (l - p)
        BY <2>1, <2>2
      <4> QED
        BY <4>1
    <3>2. 2 * r * l = 2 * r * p + 2 * r * d /\ r * d \in Nat
      BY <2>1, <3>1
    <3> QED
      BY <2>1, <3>1, <3>2
  <2>5. Ascending(grammar) => Len(derivation) - 1 <= 2 * r * l
    <3>1. 2 * r * p \in Int /\ 2 * r * l \in Int
      BY <2>1
    <3> QED
      BY <2>1, <2>3, <2>4, <3>1
  <2> QED
    BY <2>2, <2>5 DEF ParseEnds, r, p, l
<1> QED
  BY <1>1, ParsesOnStack, StackInvariant, ReductionsEndHolds, ParseInvariant, PTL

----------------------------------------------------------------------------
(* Numbers                                                                   *)

LEMMA SmallestIs ==
  ASSUME NEW S \in SUBSET Nat, NEW n \in S, \A k \in S : n <= k
  PROVE  SmallestOf(S) = n
<1> DEFINE s == SmallestOf(S)
<1>1. s \in S /\ \A k \in S : s <= k
  BY DEF SmallestOf
<1> HIDE DEF s
<1>2. s \in Nat /\ n \in Nat /\ s <= n /\ n <= s
  BY <1>1
<1>3. s = n
  BY <1>2
<1> QED
  BY <1>3 DEF s

LEMMA Division ==
  ASSUME NEW n \in Nat, NEW d \in Nat, d > 1
  PROVE  /\ n \div d \in Nat /\ n % d \in 0 .. d - 1 /\ n = d * (n \div d) + (n % d)
         /\ n >= d => n \div d < n
<1>1. n \div d \in Nat
  OBVIOUS
<1>2. n % d \in 0 .. d - 1
  OBVIOUS
<1>3. n = d * (n \div d) + (n % d)
  OBVIOUS
<1>4. ASSUME NEW q \in Nat, NEW r \in 0 .. d - 1, n = d * q + r, n >= d
      PROVE  q < n
  BY <1>4
<1> QED
  BY <1>1, <1>2, <1>3, <1>4

LEMMA Remainders ==
  ASSUME NEW d \in Nat, d > 1, NEW r \in 0 .. d - 1
  PROVE  r % d = r /\ (d + r) % d = r
<1>1. r % d = r
  OBVIOUS
<1>2. (d + r) % d = r
  OBVIOUS
<1> QED
  BY <1>1, <1>2

----------------------------------------------------------------------------
(* The bytes of a number.  The recursive function exists, and does not depend *)
(* on how far it is taken.                                                   *)

IsWritten(f, n) ==
  f = [k \in 0 .. n |-> IF k < VarBase THEN <<k>> ELSE <<VarBase + (k % VarBase)>> \o f[k \div VarBase]]

LEMMA WrittenExists ==
  ASSUME NEW n \in Nat
  PROVE  \E f : IsWritten(f, n)
<1> DEFINE Bad == {k \in Nat : ~ \E f : IsWritten(f, k)}
<1> SUFFICES ASSUME Bad # {} PROVE FALSE
  OBVIOUS
<1>1. PICK b \in Bad : \A k \in Bad : b <= k
  <2>1. Bad \in SUBSET Nat
    OBVIOUS
  <2> HIDE DEF Bad
  <2> QED
    BY <2>1, Least
<1>2. b # 0
  <2>1. IsWritten([k \in 0 .. 0 |-> <<k>>], 0)
    <3> DEFINE f == [k \in 0 .. 0 |-> <<k>>]
    <3>1. \A k \in 0 .. 0 : k < VarBase
      BY VarintAssumption
    <3>2. f = [k \in 0 .. 0 |-> IF k < VarBase THEN <<k>>
                               ELSE <<VarBase + (k % VarBase)>> \o f[k \div VarBase]]
      BY <3>1
    <3> HIDE DEF f
    <3>3. IsWritten(f, 0)
      BY <3>2 DEF IsWritten
    <3> QED
      BY <3>3 DEF f
  <2> QED
    BY <1>1, <2>1
<1>3. b - 1 \in Nat /\ b - 1 \notin Bad
  BY <1>1, <1>2
<1>4. PICK f : IsWritten(f, b - 1)
  BY <1>3
<1> DEFINE bytes(h, k) == IF k < VarBase THEN <<k>> ELSE <<VarBase + (k % VarBase)>> \o h[k \div VarBase]
           g == [k \in 0 .. b |-> IF k = b THEN bytes(f, b) ELSE f[k]]
<1>5. ASSUME NEW k \in 0 .. b PROVE g[k] = bytes(g, k)
  <2>1. g[k] = bytes(f, k)
    <3>1. CASE k = b
      BY <3>1
    <3>2. CASE k # b
      <4>1. k \in 0 .. b - 1 /\ g[k] = f[k]
        BY <1>1, <3>2
      <4> QED
        BY <1>4, <4>1 DEF IsWritten
    <3> QED
      BY <3>1, <3>2
  <2>2. k >= VarBase => g[k \div VarBase] = f[k \div VarBase]
    <3>1. k \in Nat /\ VarBase \in Nat /\ VarBase > 1
      BY <1>1, VarintAssumption
    <3>2. k >= VarBase => k \div VarBase \in Nat /\ k \div VarBase < k
      BY <3>1, Division
    <3>3. k >= VarBase => k \div VarBase \in 0 .. b /\ k \div VarBase # b
      BY <1>1, <3>2
    <3> QED
      BY <3>3
  <2>3. k < VarBase \/ k >= VarBase
    BY <1>1, VarintAssumption
  <2> HIDE DEF g
  <2> QED
    BY <2>1, <2>2, <2>3
<1>6. IsWritten(g, b)
  <2>1. g = [k \in 0 .. b |-> bytes(g, k)]
    <3>1. g = [k \in 0 .. b |-> g[k]]
      OBVIOUS
    <3> HIDE DEF g, bytes
    <3> QED
      BY <1>5, <3>1
  <2> HIDE DEF g
  <2> QED
    BY <2>1 DEF IsWritten
<1> QED
  BY <1>1, <1>6

LEMMA WrittenAgrees ==
  ASSUME NEW n \in Nat, NEW m \in Nat, NEW f, IsWritten(f, n), NEW g, IsWritten(g, m),
         NEW i \in Nat, i <= n, i <= m
  PROVE  f[i] = g[i]
<1> DEFINE Bad == {k \in 0 .. i : f[k] # g[k]}
<1> SUFFICES ASSUME Bad # {} PROVE FALSE
  OBVIOUS
<1>1. PICK b \in Bad : \A k \in Bad : b <= k
  <2>1. Bad \in SUBSET Nat
    OBVIOUS
  <2> HIDE DEF Bad
  <2> QED
    BY <2>1, Least
<1>2. b \in 0 .. n /\ b \in 0 .. m /\ b \in Nat
  BY <1>1
<1>3. f[b] = IF b < VarBase THEN <<b>> ELSE <<VarBase + (b % VarBase)>> \o f[b \div VarBase]
  BY <1>2 DEF IsWritten
<1>4. g[b] = IF b < VarBase THEN <<b>> ELSE <<VarBase + (b % VarBase)>> \o g[b \div VarBase]
  BY <1>2 DEF IsWritten
<1>5. ~(b < VarBase) => f[b \div VarBase] = g[b \div VarBase]
  <2>1. VarBase \in Nat /\ VarBase > 1
    BY VarintAssumption
  <2>2. ~(b < VarBase) => b \div VarBase \in Nat /\ b \div VarBase < b
    <3>1. b \in Nat /\ (~(b < VarBase) => b >= VarBase)
      BY <1>2, <2>1
    <3> QED
      BY <2>1, <3>1, Division
  <2>3. ~(b < VarBase) => b \div VarBase \in 0 .. i /\ ~(b <= b \div VarBase)
    BY <1>1, <2>2
  <2> QED
    BY <1>1, <2>3
<1> QED
  BY <1>1, <1>3, <1>4, <1>5

\* The recursion of VarUInt.
LEMMA VarUIntIs ==
  ASSUME NEW n \in Nat
  PROVE  VarUInt(n) = IF n < VarBase THEN <<n>>
                      ELSE <<VarBase + (n % VarBase)>> \o VarUInt(n \div VarBase)
<1>1. \A k : VarUInt(k) = (CHOOSE f : IsWritten(f, k))[k]
  BY DEF VarUInt, IsWritten
<1>2. PICK f : IsWritten(f, n) /\ VarUInt(n) = f[n]
  BY <1>1, WrittenExists
<1>3. n \in 0 .. n
  OBVIOUS
<1>4. VarUInt(n) = IF n < VarBase THEN <<n>>
                   ELSE <<VarBase + (n % VarBase)>> \o f[n \div VarBase]
  BY <1>2, <1>3 DEF IsWritten
<1>5. CASE n < VarBase
  BY <1>4, <1>5
<1>6. CASE ~(n < VarBase)
  <2> DEFINE m == n \div VarBase
  <2>1. m \in Nat /\ m < n
    <3>1. VarBase \in Nat /\ VarBase > 1 /\ n >= VarBase
      BY <1>6, VarintAssumption
    <3> QED
      BY <3>1, Division
  <2> HIDE DEF m
  <2>2. PICK g : IsWritten(g, m) /\ VarUInt(m) = g[m]
    BY <1>1, <2>1, WrittenExists
  <2>3. f[m] = g[m]
    <3>1. m <= n /\ m <= m
      BY <2>1
    <3> QED
      BY <1>2, <2>1, <2>2, <3>1, WrittenAgrees
  <2> QED
    BY <1>4, <1>6, <2>2, <2>3 DEF m
<1> QED
  BY <1>5, <1>6

----------------------------------------------------------------------------
(* The value of bytes, in the same way.                                      *)

IsValue(f, s, n) ==
  f = [k \in 0 .. n |-> IF k = 0 THEN 0 ELSE (s[Len(s) - k + 1] % VarBase) + VarBase * f[k - 1]]

LEMMA ValueExists ==
  ASSUME NEW s, NEW n \in Nat
  PROVE  \E f : IsValue(f, s, n)
<1> DEFINE Bad == {k \in Nat : ~ \E f : IsValue(f, s, k)}
<1> SUFFICES ASSUME Bad # {} PROVE FALSE
  OBVIOUS
<1>1. PICK b \in Bad : \A k \in Bad : b <= k
  <2>1. Bad \in SUBSET Nat
    OBVIOUS
  <2> HIDE DEF Bad
  <2> QED
    BY <2>1, Least
<1>2. b # 0
  <2>1. IsValue([k \in 0 .. 0 |-> 0], s, 0)
    BY DEF IsValue
  <2> QED
    BY <1>1, <2>1
<1>3. b - 1 \in Nat /\ b - 1 \notin Bad
  BY <1>1, <1>2
<1>4. PICK f : IsValue(f, s, b - 1)
  BY <1>3
<1> DEFINE value(h, k) == IF k = 0 THEN 0 ELSE (s[Len(s) - k + 1] % VarBase) + VarBase * h[k - 1]
           g == [k \in 0 .. b |-> IF k = b THEN value(f, b) ELSE f[k]]
<1>5. ASSUME NEW k \in 0 .. b PROVE g[k] = value(g, k)
  <2>1. g[k] = value(f, k)
    <3>1. CASE k = b
      BY <3>1
    <3>2. CASE k # b
      <4>1. k \in 0 .. b - 1 /\ g[k] = f[k]
        BY <1>1, <3>2
      <4> QED
        BY <1>4, <4>1 DEF IsValue
    <3> QED
      BY <3>1, <3>2
  <2>2. k # 0 => g[k - 1] = f[k - 1]
    <3>1. k # 0 => k - 1 \in 0 .. b /\ k - 1 # b
      BY <1>1
    <3> QED
      BY <3>1
  <2> HIDE DEF g
  <2> QED
    BY <2>1, <2>2
<1>6. IsValue(g, s, b)
  <2>1. g = [k \in 0 .. b |-> value(g, k)]
    <3>1. g = [k \in 0 .. b |-> g[k]]
      OBVIOUS
    <3> HIDE DEF g, value
    <3> QED
      BY <1>5, <3>1
  <2> HIDE DEF g
  <2> QED
    BY <2>1 DEF IsValue
<1> QED
  BY <1>1, <1>6

SameEnd(s, t, i) == \A k \in 1 .. i : s[Len(s) - k + 1] = t[Len(t) - k + 1]

\* The value of the last i bytes depends on those only.
LEMMA ValueAgrees ==
  ASSUME NEW s, NEW t, NEW n \in Nat, NEW m \in Nat, NEW f, IsValue(f, s, n), NEW g, IsValue(g, t, m),
         NEW i \in Nat, i <= n, i <= m, SameEnd(s, t, i)
  PROVE  f[i] = g[i]
<1> DEFINE Bad == {k \in 0 .. i : f[k] # g[k]}
<1> SUFFICES ASSUME Bad # {} PROVE FALSE
  OBVIOUS
<1>1. PICK b \in Bad : \A k \in Bad : b <= k
  <2>1. Bad \in SUBSET Nat
    OBVIOUS
  <2> HIDE DEF Bad
  <2> QED
    BY <2>1, Least
<1>2. b \in 0 .. n /\ b \in 0 .. m /\ b \in Nat /\ b <= i
  BY <1>1
<1>3. f[b] = IF b = 0 THEN 0 ELSE (s[Len(s) - b + 1] % VarBase) + VarBase * f[b - 1]
  BY <1>2 DEF IsValue
<1>4. g[b] = IF b = 0 THEN 0 ELSE (t[Len(t) - b + 1] % VarBase) + VarBase * g[b - 1]
  BY <1>2 DEF IsValue
<1>5. b # 0 => f[b - 1] = g[b - 1] /\ s[Len(s) - b + 1] = t[Len(t) - b + 1]
  <2>1. b # 0 => b - 1 \in 0 .. i /\ ~(b <= b - 1) /\ b \in 1 .. i
    BY <1>2
  <2> QED
    BY <1>1, <2>1 DEF SameEnd
<1> QED
  BY <1>1, <1>3, <1>4, <1>5

\* The recursion of VarValue.
LEMMA VarValueIs ==
  /\ \A b \in Nat : VarValue(<<b>>) = b % VarBase
  /\ \A b \in Nat : \A s \in Seq(Nat) : VarValue(<<b>> \o s) = (b % VarBase) + VarBase * VarValue(s)
<1>1. ASSUME NEW s \in Seq(Nat) PROVE \E f : IsValue(f, s, Len(s)) /\ VarValue(s) = f[Len(s)]
  <2>1. VarValue(s) = (CHOOSE f : IsValue(f, s, Len(s)))[Len(s)]
    BY DEF VarValue, IsValue
  <2>2. Len(s) \in Nat
    BY LenProperties
  <2> QED
    BY <2>1, <2>2, ValueExists
<1>2. ASSUME NEW b \in Nat, NEW s \in Seq(Nat)
      PROVE  VarValue(<<b>> \o s) = (b % VarBase) + VarBase * VarValue(s)
  <2> DEFINE t == <<b>> \o s
             l == Len(s)
  <2>1. /\ l \in Nat /\ t \in Seq(Nat) /\ Len(t) = l + 1 /\ t[1] = b
        /\ \A k \in 1 .. l : t[1 + k] = s[k]
    <3>1. <<b>> \in Seq(Nat) /\ Len(<<b>>) = 1 /\ <<b>>[1] = b
      OBVIOUS
    <3>2. l \in Nat
      BY LenProperties
    <3>3. /\ t \in Seq(Nat) /\ Len(t) = 1 + l
          /\ \A k \in 1 .. 1 : t[k] = <<b>>[k]
          /\ \A k \in 1 .. l : t[1 + k] = s[k]
      BY <3>1, ConcatIs
    <3> HIDE DEF t, l
    <3> QED
      BY <3>1, <3>2, <3>3
  <2>2. PICK f : IsValue(f, s, l) /\ VarValue(s) = f[l]
    BY <1>1
  <2> HIDE DEF t
  <2>3. PICK g : IsValue(g, t, l + 1) /\ VarValue(t) = g[l + 1]
    BY <1>1, <2>1
  <2> HIDE DEF l
  <2>4. SameEnd(s, t, l)
    <3> SUFFICES ASSUME NEW k \in 1 .. l PROVE s[l - k + 1] = t[(l + 1) - k + 1]
      BY <2>1 DEF l, SameEnd
    <3>1. l - k + 1 \in 1 .. l /\ 1 + (l - k + 1) = (l + 1) - k + 1
      BY <2>1
    <3> QED
      BY <2>1, <3>1
  <2>5. f[l] = g[l]
    <3>1. l \in Nat /\ l + 1 \in Nat /\ l <= l /\ l <= l + 1
      BY <2>1
    <3>2. IsValue(f, s, l) /\ IsValue(g, t, l + 1)
      BY <2>2, <2>3
    <3> QED
      BY <2>4, <3>1, <3>2, ValueAgrees
  <2>6. g[l + 1] = (t[Len(t) - (l + 1) + 1] % VarBase) + VarBase * g[(l + 1) - 1]
    <3>1. l + 1 \in 0 .. l + 1 /\ l + 1 # 0
      BY <2>1
    <3> QED
      BY <2>3, <3>1 DEF IsValue
  <2>7. Len(t) - (l + 1) + 1 = 1 /\ (l + 1) - 1 = l
    BY <2>1
  <2> QED
    BY <2>1, <2>2, <2>3, <2>5, <2>6, <2>7 DEF t
<1>3. VarValue(<<>>) = 0
  <2>1. PICK f : IsValue(f, <<>>, 0) /\ VarValue(<<>>) = f[0]
    <3>1. <<>> \in Seq(Nat) /\ Len(<<>>) = 0
      BY EmptySeq
    <3> QED
      BY <1>1, <3>1
  <2>2. 0 \in 0 .. 0
    OBVIOUS
  <2> QED
    BY <2>1, <2>2 DEF IsValue
<1>4. ASSUME NEW b \in Nat PROVE VarValue(<<b>>) = b % VarBase
  <2>1. <<>> \in Seq(Nat) /\ <<b>> \in Seq(Nat)
    BY EmptySeq
  <2>2. <<b>> \o <<>> = <<b>>
    BY <2>1, ConcatEmptySeq
  <2>3. VarValue(<<b>>) = (b % VarBase) + VarBase * 0
    BY <1>2, <1>3, <2>1, <2>2
  <2>4. b % VarBase \in Nat /\ VarBase * 0 = 0
    BY VarintAssumption
  <2> QED
    BY <2>3, <2>4
<1> QED
  BY <1>2, <1>4

----------------------------------------------------------------------------
\* Bytes with the top bit, and a last one without it.
IsNumber(s) ==
  /\ s \in Seq(Nat) /\ Len(s) >= 1 /\ s[Len(s)] < VarBase
  /\ \A k \in 1 .. Len(s) - 1 : s[k] >= VarBase

\* What is written of a number is of this form, and its value is the number.
LEMMA WrittenIsNumber ==
  ASSUME NEW n \in Nat
  PROVE  IsNumber(VarUInt(n)) /\ VarValue(VarUInt(n)) = n
<1> DEFINE Bad == {k \in Nat : ~(IsNumber(VarUInt(k)) /\ VarValue(VarUInt(k)) = k)}
<1> SUFFICES ASSUME Bad # {} PROVE FALSE
  OBVIOUS
<1>1. PICK b \in Bad : \A k \in Bad : b <= k
  <2>1. Bad \in SUBSET Nat
    OBVIOUS
  <2> HIDE DEF Bad
  <2> QED
    BY <2>1, Least
<1>2. b \in Nat /\ VarBase \in Nat /\ VarBase > 1
  BY <1>1, VarintAssumption
<1>3. CASE b < VarBase
  <2>1. VarUInt(b) = <<b>>
    BY <1>2, <1>3, VarUIntIs
  <2>2. IsNumber(<<b>>)
    BY <1>2, <1>3 DEF IsNumber
  <2>3. VarValue(<<b>>) = b
    <3>1. b \in 0 .. VarBase - 1
      BY <1>2, <1>3
    <3> QED
      BY <1>2, <3>1, VarValueIs, Remainders
  <2> QED
    BY <1>1, <2>1, <2>2, <2>3
<1>4. CASE b >= VarBase
  <2> DEFINE m == b \div VarBase
             c == b % VarBase
             s == VarUInt(m)
             e == VarBase + c
             t == <<e>> \o s
             l == Len(s)
  <2>1. m \in Nat /\ m < b /\ c \in 0 .. VarBase - 1 /\ b = VarBase * m + c
    BY <1>2, <1>4, Division
  <2>2. IsNumber(s) /\ VarValue(s) = m
    <3>1. m \notin Bad
      <4> HIDE DEF m, Bad
      <4> QED
        BY <1>1, <1>2, <2>1
    <3> HIDE DEF m
    <3> QED
      BY <2>1, <3>1
  <2>3. VarUInt(b) = t
    <3>1. ~(b < VarBase)
      BY <1>2, <1>4
    <3>2. VarUInt(b) = IF b < VarBase THEN <<b>>
                       ELSE <<VarBase + (b % VarBase)>> \o VarUInt(b \div VarBase)
      BY <1>2, VarUIntIs
    <3> QED
      BY <3>1, <3>2
  <2> HIDE DEF m, c, s
  <2>4. e \in Nat /\ e >= VarBase /\ e % VarBase = c
    BY <1>2, <2>1, Remainders
  <2> HIDE DEF e
  <2>5. VarValue(t) = b
    <3>1. VarValue(t) = c + VarBase * m
      BY <2>2, <2>4, VarValueIs DEF IsNumber
    <3> QED
      BY <1>2, <2>1, <3>1
  <2>6. /\ l \in Nat /\ l >= 1 /\ t \in Seq(Nat) /\ Len(t) = 1 + l /\ t[1] = e
        /\ \A k \in 1 .. l : t[1 + k] = s[k]
    <3>1. <<e>> \in Seq(Nat) /\ Len(<<e>>) = 1 /\ <<e>>[1] = e
      BY <2>4
    <3>2. l \in Nat /\ l >= 1 /\ s \in Seq(Nat)
      BY <2>2, LenProperties DEF IsNumber
    <3>3. /\ t \in Seq(Nat) /\ Len(t) = 1 + l
          /\ \A k \in 1 .. 1 : t[k] = <<e>>[k]
          /\ \A k \in 1 .. l : t[1 + k] = s[k]
      BY <3>1, <3>2, ConcatIs
    <3> HIDE DEF t, l
    <3> QED
      BY <3>1, <3>2, <3>3
  <2> HIDE DEF t
  <2>7. t[Len(t)] < VarBase
    <3>1. l \in 1 .. l /\ s[l] < VarBase
      BY <2>2, <2>6 DEF IsNumber
    <3> QED
      BY <2>6, <3>1
  <2>8. ASSUME NEW k \in 1 .. Len(t) - 1 PROVE t[k] >= VarBase
    <3>1. CASE k = 1
      BY <2>4, <2>6, <3>1
    <3>2. CASE k # 1
      <4>1. k - 1 \in 1 .. l /\ k - 1 \in 1 .. l - 1 /\ 1 + (k - 1) = k
        <5> HIDE DEF l
        <5> QED
          BY <2>6, <3>2
      <4>2. s[k - 1] >= VarBase
        BY <2>2, <4>1 DEF IsNumber
      <4>3. t[k] = s[k - 1]
        BY <2>6, <4>1
      <4> QED
        BY <4>2, <4>3
    <3> QED
      BY <3>1, <3>2
  <2>9. IsNumber(t)
    BY <2>6, <2>7, <2>8 DEF IsNumber
  <2> QED
    BY <1>1, <2>3, <2>5, <2>9
<1> QED
  BY <1>2, <1>3, <1>4

----------------------------------------------------------------------------
(* Sinks                                                                     *)

\* Where a reader of the bytes w can be.
Readings(w) == [at : 0 .. Len(w), limits : Seq(Nat), failed : BOOLEAN]

Asked(r, n, k) == SmallestOf({n} \cup {r.limits[j] : j \in k .. Len(r.limits)})
Given(w, r, n) == SmallestOf({Asked(r, n, 1), Len(w) - r.at})

LEMMA TakeBytes ==
  ASSUME NEW w, NEW r, NEW n
  PROVE  Take(w, r, n).bytes = SubSeq(w, r.at + 1, r.at + Given(w, r, n))
<1> DEFINE left == [k \in DOMAIN r.limits |-> r.limits[k] - Asked(r, n, k)]
           moved == [r EXCEPT !.at = @ + Given(w, r, n)]
           after == [moved EXCEPT !.limits = left]
           bytes == SubSeq(w, r.at + 1, r.at + Given(w, r, n))
<1>1. Take(w, r, n) = [r |-> after, bytes |-> bytes]
  BY Zenon DEF Take, Given, Asked
<1> HIDE DEF after, bytes
<1>2. Take(w, r, n).bytes = bytes
  BY <1>1
<1> QED
  BY <1>2 DEF bytes

LEMMA TakeParts ==
  ASSUME NEW w, NEW r \in Readings(w), NEW n
  PROVE  /\ Take(w, r, n).bytes = SubSeq(w, r.at + 1, r.at + Given(w, r, n))
         /\ Take(w, r, n).r = [at |-> r.at + Given(w, r, n),
                               limits |-> [k \in DOMAIN r.limits |-> r.limits[k] - Asked(r, n, k)],
                               failed |-> r.failed]
<1> DEFINE g == Given(w, r, n)
           left == [k \in DOMAIN r.limits |-> r.limits[k] - Asked(r, n, k)]
           moved == [r EXCEPT !.at = @ + g]
           after == [moved EXCEPT !.limits = left]
           bytes == SubSeq(w, r.at + 1, r.at + g)
<1>1. Take(w, r, n) = [r |-> after, bytes |-> bytes]
  BY Zenon DEF Take, Given, Asked
<1> HIDE DEF g, left
<1>2. moved = [at |-> r.at + g, limits |-> r.limits, failed |-> r.failed]
  BY DEF Readings
<1> HIDE DEF moved
<1>3. after = [at |-> r.at + g, limits |-> left, failed |-> r.failed]
  BY <1>2
<1> HIDE DEF after, bytes
<1>4. Take(w, r, n).bytes = bytes /\ Take(w, r, n).r = after
  BY <1>1
<1> QED
  BY <1>3, <1>4, Zenon DEF g, left, bytes

LEMMA SmallestExists ==
  ASSUME NEW S \in SUBSET Nat, S # {}
  PROVE  SmallestOf(S) \in S /\ \A k \in S : SmallestOf(S) <= k
<1>1. PICK n \in S : \A k \in S : n <= k
  BY Least
<1>2. SmallestOf(S) = n
  BY <1>1, SmallestIs
<1> QED
  BY <1>1, <1>2

\* Given is the smallest of what is asked for, what is there and all limits.
LEMMA GivenIs ==
  ASSUME NEW w \in Seq(Nat), NEW r \in Readings(w), NEW n \in Nat
  PROVE  LET g == Given(w, r, n)
         IN  /\ g \in 0 .. n /\ g <= Len(w) - r.at
             /\ \A j \in DOMAIN r.limits : g <= r.limits[j]
             /\ \/ g = n
                \/ g = Len(w) - r.at
                \/ \E j \in DOMAIN r.limits : g = r.limits[j]
<1> DEFINE S == {n} \cup {r.limits[j] : j \in 1 .. Len(r.limits)}
           a == Asked(r, n, 1)
           T == {a, Len(w) - r.at}
           g == Given(w, r, n)
<1>1. /\ r.limits \in Seq(Nat) /\ DOMAIN r.limits = 1 .. Len(r.limits)
      /\ \A j \in DOMAIN r.limits : r.limits[j] \in Nat
      /\ Len(w) \in Nat /\ r.at \in 0 .. Len(w)
  BY LenProperties, ElementOfSeq DEF Readings
<1>2. a \in S /\ \A k \in S : a <= k
  <2>1. S \in SUBSET Nat /\ S # {}
    BY <1>1
  <2>2. a = SmallestOf(S)
    BY DEF Asked
  <2> HIDE DEF S, a
  <2> QED
    BY <2>1, <2>2, SmallestExists
<1>3. a \in Nat
  BY <1>1, <1>2
<1> HIDE DEF a
<1>4. g \in T /\ \A k \in T : g <= k
  <2>1. T \in SUBSET Nat /\ T # {}
    BY <1>1, <1>3
  <2>2. g = SmallestOf(T)
    BY DEF Given, a
  <2> HIDE DEF T, g
  <2> QED
    BY <2>1, <2>2, SmallestExists
<1> HIDE DEF g
<1>5. g \in Nat /\ g <= a /\ g <= Len(w) - r.at /\ (g = a \/ g = Len(w) - r.at)
  BY <1>1, <1>3, <1>4
<1>6. a <= n /\ \A j \in DOMAIN r.limits : a <= r.limits[j]
  BY <1>1, <1>2
<1>7. a = n \/ \E j \in DOMAIN r.limits : a = r.limits[j]
  BY <1>1, <1>2
<1>8. g \in 0 .. n /\ \A j \in DOMAIN r.limits : g <= r.limits[j]
  BY <1>1, <1>3, <1>5, <1>6
<1> QED
  BY <1>5, <1>7, <1>8 DEF g

\* n bytes are there, and no range ends before them.
IsRoom(w, r, n) == n <= Len(w) - r.at /\ \A j \in DOMAIN r.limits : n <= r.limits[j]

LEMMA TakeAll ==
  ASSUME NEW w \in Seq(Nat), NEW r \in Readings(w), NEW n \in Nat, IsRoom(w, r, n)
  PROVE  /\ Take(w, r, n).bytes = SubSeq(w, r.at + 1, r.at + n)
         /\ Take(w, r, n).r = [at |-> r.at + n, limits |-> [k \in DOMAIN r.limits |-> r.limits[k] - n],
                               failed |-> r.failed]
<1>1. /\ r.limits \in Seq(Nat) /\ DOMAIN r.limits = 1 .. Len(r.limits)
      /\ \A j \in DOMAIN r.limits : r.limits[j] \in Nat
      /\ Len(w) \in Nat /\ r.at \in 0 .. Len(w)
  BY LenProperties, ElementOfSeq DEF Readings
<1>2. ASSUME NEW k \in 1 .. Len(r.limits) PROVE Asked(r, n, k) = n
  <2> DEFINE S == {n} \cup {r.limits[j] : j \in k .. Len(r.limits)}
  <2>1. S \in SUBSET Nat /\ n \in S
    BY <1>1
  <2>2. \A x \in S : n <= x
    <3>1. \A j \in k .. Len(r.limits) : j \in DOMAIN r.limits
      BY <1>1
    <3>2. \A j \in k .. Len(r.limits) : n <= r.limits[j]
      BY <3>1 DEF IsRoom
    <3> QED
      BY <3>2
  <2>3. Asked(r, n, k) = SmallestOf(S)
    BY DEF Asked
  <2> HIDE DEF S
  <2> QED
    BY <2>1, <2>2, <2>3, SmallestIs
<1>3. Given(w, r, n) = n
  <2> DEFINE g == Given(w, r, n)
  <2>1. /\ g \in 0 .. n
        /\ \/ g = n
           \/ g = Len(w) - r.at
           \/ \E j \in DOMAIN r.limits : g = r.limits[j]
    BY GivenIs
  <2> HIDE DEF g
  <2>2. g >= n
    BY <1>1, <2>1 DEF IsRoom
  <2>3. g = n
    BY <2>1, <2>2
  <2> QED
    BY <2>3 DEF g
<1>4. [k \in DOMAIN r.limits |-> r.limits[k] - Asked(r, n, k)] = [k \in DOMAIN r.limits |-> r.limits[k] - n]
  BY <1>1, <1>2
<1> QED
  BY <1>3, <1>4, TakeParts

LEMMA TakenIs ==
  ASSUME NEW w \in Seq(Nat), NEW r \in Readings(w), NEW n \in Nat
  PROVE  LET b == Take(w, r, n).bytes
         IN  /\ b \in Seq(Nat) /\ Len(b) = Given(w, r, n)
             /\ \A k \in 1 .. Len(b) : b[k] = w[r.at + k]
<1> DEFINE g == Given(w, r, n)
           b == Take(w, r, n).bytes
           a == r.at
           l == Len(w)
<1>1. l \in Nat /\ a \in 0 .. l
  BY LenProperties DEF Readings
<1>2. g \in 0 .. n /\ g <= l - a
  <2>1. Given(w, r, n) \in 0 .. n /\ Given(w, r, n) <= Len(w) - r.at
    BY GivenIs, Zenon
  <2> QED
    BY <2>1
<1>3. b = SubSeq(w, a + 1, a + g)
  <2> DEFINE e == SubSeq(w, r.at + 1, r.at + Given(w, r, n))
  <2>1. Take(w, r, n).bytes = e
    BY TakeBytes
  <2> HIDE DEF e, b
  <2>2. b = e
    BY <2>1 DEF b
  <2> QED
    BY <2>2 DEF e
<1> HIDE DEF g, b, a
<1>4. /\ a + 1 \in 1 .. l + 1 /\ a + g \in (a + 1) - 1 .. l
      /\ (a + g) - (a + 1) + 1 = g /\ a \in Int
  <2> HIDE DEF l
  <2> QED
    BY <1>1, <1>2
<1>5. /\ b \in Seq(Nat) /\ Len(b) = (a + g) - (a + 1) + 1
      /\ \A k \in 1 .. (a + g) - (a + 1) + 1 : b[k] = w[(a + 1) + k - 1]
  BY <1>3, <1>4, PartIs
<1>6. \A k \in 1 .. g : (a + 1) + k - 1 = a + k
  BY <1>4
<1>7. b \in Seq(Nat) /\ Len(b) = g /\ \A k \in 1 .. Len(b) : b[k] = w[a + k]
  BY <1>4, <1>5, <1>6
<1> QED
  BY <1>7 DEF g, b, a

\* The bytes that come next, as far as they can be read.
Ahead(w, r) == Take(w, r, Len(w)).bytes

LEMMA AheadIs ==
  ASSUME NEW w \in Seq(Nat), NEW r \in Readings(w)
  PROVE  /\ Ahead(w, r) \in Seq(Nat) /\ Len(Ahead(w, r)) \in 0 .. Len(w) - r.at
         /\ \A j \in DOMAIN r.limits : Len(Ahead(w, r)) <= r.limits[j]
         /\ \/ Len(Ahead(w, r)) = Len(w) - r.at
            \/ \E j \in DOMAIN r.limits : Len(Ahead(w, r)) = r.limits[j]
         /\ \A k \in 1 .. Len(Ahead(w, r)) : Ahead(w, r)[k] = w[r.at + k]
<1> DEFINE g == Given(w, r, Len(w))
<1>1. Len(w) \in Nat /\ r.at \in 0 .. Len(w)
  BY LenProperties DEF Readings
<1>2. /\ g \in 0 .. Len(w) /\ g <= Len(w) - r.at
      /\ \A j \in DOMAIN r.limits : g <= r.limits[j]
      /\ \/ g = Len(w)
         \/ g = Len(w) - r.at
         \/ \E j \in DOMAIN r.limits : g = r.limits[j]
  BY <1>1, GivenIs
<1>3. /\ Ahead(w, r) \in Seq(Nat) /\ Len(Ahead(w, r)) = g
      /\ \A k \in 1 .. Len(Ahead(w, r)) : Ahead(w, r)[k] = w[r.at + k]
  BY <1>1, TakenIs DEF Ahead
<1> HIDE DEF g
<1>4. g = Len(w) => g = Len(w) - r.at
  BY <1>1, <1>2
<1> QED
  BY <1>1, <1>2, <1>3, <1>4

LEMMA TakeIsPair ==
  ASSUME NEW w, NEW r, NEW n
  PROVE  Take(w, r, n) = [r |-> Take(w, r, n).r, bytes |-> Take(w, r, n).bytes]
BY Zenon DEF Take

\* A field of a field of a record changes.
LEMMA FailedIs ==
  ASSUME NEW t, NEW a, NEW m, NEW f, NEW b, NEW e,
         t = [r |-> [at |-> a, limits |-> m, failed |-> f], bytes |-> b]
  PROVE  [t EXCEPT !.r.failed = e] = [r |-> [at |-> a, limits |-> m, failed |-> e], bytes |-> b]
<1>1. t.r = [at |-> a, limits |-> m, failed |-> f]
  OBVIOUS
<1>2. [t.r EXCEPT !.failed = e] = [at |-> a, limits |-> m, failed |-> e]
  BY <1>1
<1>3. [t EXCEPT !.r = [t.r EXCEPT !.failed = e]] = [r |-> [at |-> a, limits |-> m, failed |-> e], bytes |-> b]
  BY <1>2
<1> QED
  BY <1>3

LEMMA ReadExactlyIs ==
  ASSUME NEW w, NEW r \in Readings(w), NEW n
  PROVE  LET b == Take(w, r, n).bytes
             d == Take(w, r, n).r
         IN  ReadExactly(w, r, n) = [r |-> [at |-> d.at, limits |-> d.limits, failed |-> Len(b) < n],
                                     bytes |-> b]
<1> DEFINE t == Take(w, r, n)
           b == t.bytes
           d == t.r
<1>1. d = [at |-> d.at, limits |-> d.limits, failed |-> d.failed]
  <2> DEFINE a == r.at + Given(w, r, n)
             m == [k \in DOMAIN r.limits |-> r.limits[k] - Asked(r, n, k)]
             f == r.failed
  <2>1. d = [at |-> a, limits |-> m, failed |-> f]
    <3>1. Take(w, r, n).r = [at |-> a, limits |-> m, failed |-> f]
      BY TakeParts
    <3> HIDE DEF a, m, f
    <3> QED
      BY <3>1
  <2> HIDE DEF a, m, f, d
  <2> QED
    BY <2>1
<1>2. t = [r |-> d, bytes |-> b]
  BY TakeIsPair
<1>3. ReadExactly(w, r, n) = [t EXCEPT !.r.failed = Len(b) < n]
  BY Zenon DEF ReadExactly
<1> HIDE DEF t
<1>4. t = [r |-> [at |-> d.at, limits |-> d.limits, failed |-> d.failed], bytes |-> b]
  BY <1>1, <1>2
<1>5. [t EXCEPT !.r.failed = Len(b) < n] = [r |-> [at |-> d.at, limits |-> d.limits, failed |-> Len(b) < n],
                                            bytes |-> b]
  <2> DEFINE e == Len(b) < n
             a == d.at
             m == d.limits
             f == d.failed
             c == b
  <2>1. t = [r |-> [at |-> a, limits |-> m, failed |-> f], bytes |-> c]
    BY <1>4
  <2> HIDE DEF a, m, f, c, e
  <2>2. [t EXCEPT !.r.failed = e] = [r |-> [at |-> a, limits |-> m, failed |-> e], bytes |-> c]
    BY <2>1, FailedIs
  <2> QED
    BY <2>2, Zenon DEF a, m, f, c, e
<1> QED
  BY <1>3, <1>5 DEF t

\* A whole number lies ahead: as many bytes are taken, and nothing fails.
LEMMA NumberAhead ==
  ASSUME NEW w \in Seq(Nat), NEW r \in Readings(w), NEW s, IsNumber(s), IsRoom(w, r, Len(s)),
         SubSeq(w, r.at + 1, r.at + Len(s)) = s
  PROVE  LET ends == {k \in DOMAIN Ahead(w, r) : Ahead(w, r)[k] < VarBase}
         IN  ends # {} /\ SmallestOf(ends) = Len(s)
<1> DEFINE rest == Ahead(w, r)
           l == Len(s)
           a == r.at
           ends == {k \in DOMAIN rest : rest[k] < VarBase}
<1>1. s \in Seq(Nat) /\ l \in Nat /\ l >= 1 /\ Len(w) \in Nat /\ a \in 0 .. Len(w)
  BY LenProperties DEF IsNumber, Readings
<1>2. /\ rest \in Seq(Nat) /\ Len(rest) \in Nat
      /\ \A k \in 1 .. Len(rest) : rest[k] = w[a + k] /\ rest[k] \in Nat
  BY AheadIs, ElementOfSeq, LenProperties
<1>3. l <= Len(w) - a /\ \A j \in DOMAIN r.limits : l <= r.limits[j]
  BY DEF IsRoom
<1>4. Len(rest) >= l
  BY <1>3, AheadIs
<1>5. ASSUME NEW k \in 1 .. l PROVE k \in 1 .. Len(rest) /\ rest[k] = s[k]
  <2>1. k \in 1 .. Len(rest)
    BY <1>1, <1>2, <1>4
  <2>2. /\ a + 1 \in 1 .. Len(w) + 1 /\ a + l \in (a + 1) - 1 .. Len(w)
        /\ (a + l) - (a + 1) + 1 = l /\ (a + 1) + k - 1 = a + k
    <3> HIDE DEF a, l
    <3> QED
      BY <1>1, <1>3
  <2>3. \A i \in 1 .. (a + l) - (a + 1) + 1 : SubSeq(w, a + 1, a + l)[i] = w[(a + 1) + i - 1]
    BY <2>2, PartIs
  <2>4. s[k] = w[a + k]
    <3>1. SubSeq(w, a + 1, a + l) = s
      OBVIOUS
    <3> HIDE DEF a, l
    <3> QED
      BY <2>2, <2>3, <3>1
  <2> QED
    BY <1>2, <2>1, <2>4
<1>6. l \in ends
  <2>1. l \in 1 .. l
    BY <1>1
  <2>2. rest[l] < VarBase
    BY <1>5, <2>1 DEF IsNumber
  <2> QED
    BY <1>2, <1>5, <2>1, <2>2, LenProperties
<1>7. ASSUME NEW k \in ends PROVE l <= k
  <2>1. k \in 1 .. Len(rest) /\ rest[k] < VarBase /\ rest[k] \in Nat
    BY <1>2
  <2>2. CASE k < l
    <3>1. k \in 1 .. l - 1 /\ k \in 1 .. l
      <4> HIDE DEF l
      <4> QED
        BY <1>1, <2>1, <2>2
    <3>2. rest[k] >= VarBase
      BY <1>5, <3>1 DEF IsNumber
    <3> QED
      BY <2>1, <3>2, VarintAssumption
  <2> QED
    BY <1>1, <2>1, <2>2
<1>8. ends \in SUBSET Nat
  BY <1>2
<1> HIDE DEF ends
<1>9. SmallestOf(ends) = l
  BY <1>6, <1>7, <1>8, SmallestIs
<1> QED
  BY <1>6, <1>9 DEF ends

\* What is written of a number is read back, for every number of the word,
\* whatever stands before and behind it and however many ranges the reader is
\* in, if their sizes and the bytes that are there have room for it: the reader
\* stands behind the number and every range is smaller by its bytes.
THEOREM NumberReadBack ==
  ASSUME NEW n \in 0 .. Word - 1, NEW w \in Seq(Nat), NEW r \in Readings(w),
         IsRoom(w, r, Len(VarUInt(n))),
         SubSeq(w, r.at + 1, r.at + Len(VarUInt(n))) = VarUInt(n)
  PROVE  ReadVar(w, r) = [r |-> [at |-> r.at + Len(VarUInt(n)),
                                 limits |-> [k \in DOMAIN r.limits |-> r.limits[k] - Len(VarUInt(n))],
                                 failed |-> FALSE],
                          value |-> n]
<1> DEFINE s == VarUInt(n)
           l == Len(s)
           ends == {k \in DOMAIN Ahead(w, r) : Ahead(w, r)[k] < VarBase}
           m == IF ends = {} THEN Len(Ahead(w, r)) + 1 ELSE SmallestOf(ends)
           t == ReadExactly(w, r, m)
           left == [k \in DOMAIN r.limits |-> r.limits[k] - l]
           after == [at |-> r.at + l, limits |-> left, failed |-> FALSE]
<1>1. n \in Nat /\ IsNumber(s) /\ VarValue(s) = n /\ n % Word = n
  BY WrittenIsNumber, VarintAssumption
<1>2. l \in Nat
  BY <1>1, LenProperties DEF IsNumber
<1>3. ends # {} /\ SmallestOf(ends) = l
  BY <1>1, NumberAhead
<1>4. m = l
  <2> HIDE DEF ends, l
  <2> QED
    BY <1>3
<1>5. t = [r |-> after, bytes |-> s]
  <2> DEFINE b == Take(w, r, l).bytes
             d == Take(w, r, l).r
  <2>1. b = s /\ d = [at |-> r.at + l, limits |-> left, failed |-> r.failed]
    BY <1>2, TakeAll
  <2>2. ReadExactly(w, r, l) = [r |-> [at |-> d.at, limits |-> d.limits, failed |-> Len(b) < l], bytes |-> b]
    BY ReadExactlyIs
  <2>3. t = ReadExactly(w, r, l)
    BY <1>4
  <2>4. (Len(b) < l) = FALSE
    <3>1. Len(b) = l
      BY <2>1
    <3> HIDE DEF b, l
    <3> QED
      BY <1>2, <3>1
  <2>5. d.at = r.at + l /\ d.limits = left
    <3> DEFINE p == r.at + l
    <3>1. d = [at |-> p, limits |-> left, failed |-> r.failed]
      BY <2>1
    <3> HIDE DEF d, left, p
    <3>2. d.at = p /\ d.limits = left
      BY <3>1
    <3> QED
      BY <3>2 DEF p
  <2> HIDE DEF t, b, d, l, left
  <2> QED
    BY <2>1, <2>2, <2>3, <2>4, <2>5
<1>6. ReadVar(w, r) = [r |-> t.r, value |-> IF t.r.failed THEN 0 ELSE VarValue(t.bytes) % Word]
  BY Zenon DEF ReadVar, Ahead
<1> HIDE DEF t, after
<1>7. t.r = after /\ t.bytes = s
  BY <1>5
<1>8. after.failed = FALSE
  BY DEF after
<1>9. ReadVar(w, r) = [r |-> after, value |-> n]
  <2> HIDE DEF s
  <2> QED
    BY <1>1, <1>6, <1>7, <1>8
<1> QED
  BY <1>9, Zenon DEF after, left, l, s

\* Nobody takes a number from bytes that end within it, whether the buffer or
\* a range around the reader ends there: the read fails.
THEOREM NumberCutOff ==
  ASSUME NEW n \in Nat, NEW w \in Seq(Nat), NEW r \in Readings(w),
         Len(Ahead(w, r)) < Len(VarUInt(n)),
         \A k \in 1 .. Len(Ahead(w, r)) : Ahead(w, r)[k] = VarUInt(n)[k]
  PROVE  ReadVar(w, r).r.failed = TRUE /\ ReadVar(w, r).value = 0
<1> DEFINE s == VarUInt(n)
           rest == Ahead(w, r)
           ends == {k \in DOMAIN rest : rest[k] < VarBase}
           m == IF ends = {} THEN Len(rest) + 1 ELSE SmallestOf(ends)
           t == ReadExactly(w, r, m)
<1>1. IsNumber(s) /\ Len(s) \in Nat
  BY WrittenIsNumber, LenProperties DEF IsNumber
<1>2. /\ rest \in Seq(Nat) /\ Len(rest) \in Nat /\ Len(rest) < Len(s)
      /\ \A k \in 1 .. Len(rest) : rest[k] = s[k] /\ rest[k] \in Nat
  BY AheadIs, ElementOfSeq, LenProperties
<1>3. ends = {}
  <2>1. ASSUME NEW k \in 1 .. Len(rest) PROVE ~(rest[k] < VarBase)
    <3>1. k \in 1 .. Len(s) - 1
      <4> DEFINE x == Len(rest)
                 y == Len(s)
      <4>1. k \in 1 .. x /\ x \in Nat /\ y \in Nat /\ x < y
        BY <1>1, <1>2
      <4> HIDE DEF x, y
      <4>2. k \in 1 .. y - 1
        BY <4>1
      <4> QED
        BY <4>2 DEF y
    <3>2. rest[k] >= VarBase
      BY <1>1, <1>2, <3>1 DEF IsNumber
    <3> QED
      BY <1>2, <3>2, VarintAssumption
  <2>2. DOMAIN rest = 1 .. Len(rest)
    BY <1>2, LenProperties
  <2> QED
    BY <2>1, <2>2
<1>4. m = Len(rest) + 1 /\ m \in Nat
  <2> HIDE DEF ends, rest
  <2> QED
    BY <1>2, <1>3
<1> HIDE DEF m
<1>5. (Len(Take(w, r, m).bytes) < m) = TRUE
  <2> DEFINE g == Given(w, r, m)
             x == Len(rest)
  <2>1. /\ g \in 0 .. m /\ g <= Len(w) - r.at
        /\ \A j \in DOMAIN r.limits : g <= r.limits[j]
    BY <1>4, GivenIs
  <2>2. x = Len(w) - r.at \/ \E j \in DOMAIN r.limits : x = r.limits[j]
    BY AheadIs
  <2>3. Len(Take(w, r, m).bytes) = g
    BY <1>4, TakenIs
  <2>4. x \in Nat /\ m = x + 1
    BY <1>2, <1>4
  <2> HIDE DEF g, x
  <2>5. g <= x
    BY <2>1, <2>2
  <2>6. g < m
    BY <2>1, <2>4, <2>5
  <2> QED
    BY <2>3, <2>6
<1>6. t.r.failed = TRUE
  <2> DEFINE b == Take(w, r, m).bytes
             d == Take(w, r, m).r
             x == d.at
             y == d.limits
             z == Len(b) < m
  <2>1. t = [r |-> [at |-> x, limits |-> y, failed |-> z], bytes |-> b]
    BY ReadExactlyIs
  <2>2. z = TRUE
    BY <1>5
  <2> HIDE DEF t, b, d, x, y, z
  <2> QED
    BY <2>1, <2>2
<1>7. ReadVar(w, r) = [r |-> t.r, value |-> IF t.r.failed THEN 0 ELSE VarValue(t.bytes) % Word]
  BY Zenon DEF ReadVar, Ahead, m
<1> HIDE DEF t
<1> QED
  BY <1>6, <1>7

\* The zigzag code of a signed number that fits the word is a word's number,
\* and it is the only code of that number: what is read back is what was written.
THEOREM SignedReadBack ==
  ASSUME NEW n \in Int
  PROVE  /\ ZigZag(n) \in Nat /\ UnZigZag(ZigZag(n)) = n
         /\ -Word <= 2 * n /\ 2 * n < Word => ZigZag(n) \in 0 .. Word - 1
         /\ n >= 0 => ZigZag(UnZigZag(n)) = n
<1>1. CASE n >= 0
  <2>1. ZigZag(n) = 2 * n /\ (2 * n) % 2 = 0 /\ (2 * n) \div 2 = n
    BY <1>1 DEF ZigZag
  <2>2. UnZigZag(ZigZag(n)) = n
    BY <2>1 DEF UnZigZag
  <2>3. CASE n % 2 = 0
    <3>1. UnZigZag(n) = n \div 2 /\ n \div 2 >= 0 /\ 2 * (n \div 2) = n
      BY <1>1, <2>3 DEF UnZigZag
    <3> QED
      BY <1>1, <2>1, <2>2, <3>1, VarintAssumption DEF ZigZag
  <2>4. CASE n % 2 # 0
    <3>1. /\ UnZigZag(n) = -(n \div 2) - 1 /\ n \div 2 \in Nat
          /\ -2 * (-(n \div 2) - 1) - 1 = n
      BY <1>1, <2>4 DEF UnZigZag
    <3>2. ZigZag(UnZigZag(n)) = n
      BY <3>1 DEF ZigZag
    <3> QED
      BY <1>1, <2>1, <2>2, <3>2, VarintAssumption
  <2> QED
    BY <2>3, <2>4
<1>2. CASE n < 0
  <2>1. /\ ZigZag(n) = -2 * n - 1 /\ (-2 * n - 1) % 2 = 1 /\ (-2 * n - 1) \div 2 = -n - 1
        /\ -2 * n - 1 \in Nat
    BY <1>2 DEF ZigZag
  <2>2. UnZigZag(ZigZag(n)) = n
    BY <2>1 DEF UnZigZag
  <2> QED
    BY <1>2, <2>1, <2>2, VarintAssumption
<1> QED
  BY <1>1, <1>2
====
