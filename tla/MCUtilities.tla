---- MODULE MCUtilities ----
(***************************************************************************)
(* The components that do not meet each other, one at a time: part is the    *)
(* one that runs, the others stay as they start.                             *)
(***************************************************************************)
EXTENDS Regex, Language, AppStats, Input, MemStream, Wire, PathResolution, TLC

CONSTANTS s1, s2, hits, misses, stick, pad, m1, m2

VARIABLE part

----------------------------------------------------------------------------
(* Expressions and the patterns they are written as                          *)

Char(type, c) == [op |-> "char", token |-> [type |-> type, ch |-> c]]
Two(op, l, r) == [op |-> op, left |-> l, right |-> r]
One(op, e) == [op |-> op, left |-> e]

RECURSIVE Written(_), Nullable(_)
Written(e) ==
  LET group(x) == IF x.op = "char" THEN Written(x) ELSE <<"(">> \o Written(x) \o <<")">>
      side(x) == IF x.op = "or" THEN group(x) ELSE Written(x)
      token == e.token
  IN  CASE e.op = "cat"  -> side(e.left) \o side(e.right)
        [] e.op = "or"   -> Written(e.left) \o <<"|">> \o Written(e.right)
        [] e.op = "opt"  -> group(e.left) \o <<"?">>
        [] e.op = "star" -> group(e.left) \o <<"*">>
        [] e.op = "plus" -> group(e.left) \o <<"+">>
        [] e.op = "char" -> CASE token.type = "lit" -> <<token.ch>>
                              [] token.type = "notlit" -> <<"[", "^", token.ch, "]">>
                              [] token.type = "range" -> <<"\\", token.ch>>

Nullable(e) == CASE e.op = "char" -> FALSE
                 [] e.op = "cat"  -> Nullable(e.left) /\ Nullable(e.right)
                 [] e.op = "or"   -> Nullable(e.left) \/ Nullable(e.right)
                 [] e.op \in {"opt", "star"} -> TRUE
                 [] e.op = "plus" -> Nullable(e.left)

Unary(E) == {One("opt", e) : e \in E} \cup
            {One(op, e) : op \in {"star", "plus"}, e \in {x \in E : ~Nullable(x)}}
Binary(E, F) == {Two(op, e, f) : op \in {"cat", "or"}, e \in E, f \in F}

A == Char("lit", "a")
AB == {A, Char("lit", "b")}
Chars == AB \cup {Char("notlit", "a"), Char("range", "d")}
Small == Chars \cup Binary(AB, AB) \cup Unary(AB)
Exprs == Small \cup Unary(Binary({A}, AB)) \cup Binary({A}, Small) \cup Binary(Small, AB \ {A})
         \cup {One("plus", Two("cat", One("opt", A), e)) : e \in Chars}

Refused == {<<"(">>, <<"a", "|", "*">>, <<"[", "a">>, <<"\\">>, <<"\\", "x">>, <<"^">>,
            <<"[", "(">>, <<")">>, <<"[", "^", "+">>}

MCPatterns == {[text |-> Written(e), expr |-> e] : e \in Exprs} \cup
              {[text |-> p, expr |-> NoExpr] : p \in Refused}
MCTexts == UNION {[1 .. n -> {"a", "b", "0"}] : n \in 0 .. 3} \cup [1 .. 4 -> {"a", "b"}]

----------------------------------------------------------------------------
(* The grammar of the tests, and one that lists                              *)

Type(id, pattern) == [id |-> id, nfa |-> Compile(pattern)]
MCTokenTypes == <<Type("OBRACE", <<"{">>), Type("CBRACE", <<"}">>),
                  Type("IDENT", <<"\\", "w", "+">>), Type("WS", <<"\\", "s", "+">>)>>
O == Token("OBRACE")
C == Token("CBRACE")
I == Token("IDENT")
Objects == <<<<<<O, C>>, <<O, Node(2), C>>>>, <<<<I, Node(1)>>>>>>
Lists == <<<<<<Node(1), I>>, <<I>>>>, <<<<O, Node(1), C>>>>>>
Sums == <<<<<<I>>>>, <<<<Node(2), O, Node(1)>>, <<Node(1)>>>>>>
MCGrammars == {Objects, Lists, Sums}

TextsOf(S, n) == UNION {[1 .. k -> S] : k \in 0 .. n}
MCSources == TextsOf({"{", "}", "a", " "}, 5) \cup TextsOf({"{", "}", "a", "%"}, 4) \cup
             {<<"a", "{", "a", "{", "}", "}">>, <<"a", "{", "a", "{", "}">>,
              <<"{", "a", " ", "a", " ", "a", "}">>}

----------------------------------------------------------------------------
MCKeyOf == ("mouse" :> 1)
MCButtonMaps == {0 :> 1}
MCAxisMaps == {0 :> "x"}
MCRangeMaps == {"x" :> <<0, 3>>}

MCBlocks == {<<"y">>, <<"z", "z">>}

----------------------------------------------------------------------------
(* Messages, and readers whose types are the same, or older                  *)

Field(n, type) == [num |-> n, type |-> type, repeated |-> FALSE, body |-> <<>>]
Many(f) == [f EXCEPT !.repeated = TRUE]
Child(body) == [Field(2, "msg") EXCEPT !.body = body]
Outer == <<Many(Field(1, "uint")), Child(<<Field(1, "int"), Field(2, "string")>>),
           Field(3, "bool"), Field(4, "fixed32"), Field(5, "fixed64"), Field(6, "string")>>
Numbers == SelectSeq(Outer, LAMBDA f : f.type \notin {"msg", "string"})
Older == <<Child(<<Field(2, "string")>>), Many(Field(1, "uint")), Field(6, "string")>>
Oldest == <<Field(5, "fixed64"), Field(3, "bool")>>
MCReaders == {Outer, Older, Oldest}

Inners == {1 :> i @@ 2 :> s : i \in {<<>>, <<-32>>}, s \in {<<>>, <<<<9, 1>>>>}}
MCSendings ==
  {[type |-> Outer, message |-> 1 :> u @@ 2 :> c @@ 3 :> b @@ 4 :> <<>> @@ 5 :> g @@ 6 :> s] :
     u \in {<<>>, <<0, 63>>}, c \in {<<>>} \cup {<<i>> : i \in Inners}, b \in {<<>>, <<TRUE>>},
     g \in {<<>>, <<70>>}, s \in {<<>>, <<<<2, 3>>>>}} \cup
  {[type |-> Numbers, message |-> 1 :> u @@ 3 :> <<TRUE>> @@ 4 :> f @@ 5 :> <<70>>] :
     u \in {<<>>, <<31>>}, f \in {<<>>, <<9>>}}
MCFixedSize == [fixed32 |-> 1, fixed64 |-> 2]

----------------------------------------------------------------------------
Parts == {"regex", "lr", "stats", "input", "mem", "wire", "path"}

Init ==
  /\ part \in Parts
  /\ RegexInit /\ StatInit /\ InputInit /\ MemInit /\ WireInit
  /\ (part # "mem" => writable)
  /\ LRInit /\ (part # "lr" => grammar = Lists /\ source = <<>>)
  /\ PathInit

Only(mine, vars) == part = mine /\ UNCHANGED vars

Next ==
  \/ Only("regex", <<part, lrVars, statVars, inputVars, memVars, wireVars, path>>) /\ RegexNext
  \/ Only("lr", <<part, regexVars, statVars, inputVars, memVars, wireVars, path>>) /\ LRNext
  \/ Only("stats", <<part, regexVars, lrVars, inputVars, memVars, wireVars, path>>) /\ StatNext
  \/ Only("input", <<part, regexVars, lrVars, statVars, memVars, wireVars, path>>) /\ InputNext
  \/ Only("mem", <<part, regexVars, lrVars, statVars, inputVars, wireVars, path>>) /\ MemNext
  \/ Only("wire", <<part, regexVars, lrVars, statVars, inputVars, memVars, path>>) /\ WireNext
  \/ Only("path", <<part, regexVars, lrVars, statVars, inputVars, memVars, wireVars>>) /\ PathNext

Spec == Init /\ [][Next]_<<part, regexVars, lrVars, statVars, inputVars, memVars, wireVars, path>>
====
