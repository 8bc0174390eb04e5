---- MODULE Wire ----
(***************************************************************************)
(* Messages in bytes: the code protoc prints for a message type              *)
(* (TOOLS/protoc/proto_printer_header.cpp), over the serializers of numbers   *)
(* of Varint and the sinks below them (CORE/BASE/serializer_basesinks.h).     *)
(*                                                                           *)
(* A message type is a sequence of fields [num, type, repeated, body], a      *)
(* message a function from their numbers to the sequences of their values;    *)
(* a field that is not repeated has one value or, at its default, none.       *)
(* Numbers of 32 and 64 bits differ in the bytes of a fixed field only.       *)
(***************************************************************************)
EXTENDS Varint, SequencesExt

CONSTANTS FixedSize,   \* bytes of a fixed32, 4, and of a fixed64, 8
          Sendings,    \* what is written: [type, message]
          Readers,     \* the types of who reads, older or newer than the writer's
          MaxCapacity, \* bound: bytes of the buffer written to
          Garbage      \* bytes nobody has written, and what is made of them

VARIABLES writer, sent,       \* the writer's type, and what it has written
          told,               \* what oserialize returned
          wire,               \* the bytes
          reader, received,   \* the reader's type, and what it has got
          accepted            \* what iserialize returned

wireVars == <<writer, sent, told, wire, reader, received, accepted>>

----------------------------------------------------------------------------
(* Fields *)

FieldId(f) ==
  CASE f.type = "fixed32" -> 5
    [] f.type = "fixed64" -> 1
    [] f.type \in {"uint", "int", "bool"} -> 0
    [] f.type \in {"string", "msg"} -> 2

Tag(f) == 8 * f.num + FieldId(f)

IsDefault(f, v) == CASE f.type = "bool" -> ~v
                     [] f.type = "string" -> v = <<>>
                     [] f.type = "msg" -> FALSE
                     [] OTHER -> v = 0

Unset(type) == [n \in {type[k].num : k \in DOMAIN type} |-> <<>>]

\* add_ and set_ of the builder.
PutField(m, f, v) ==
  [m EXCEPT ![f.num] = IF f.repeated THEN Append(@, v) ELSE IF IsDefault(f, v) THEN <<>> ELSE <<v>>]

\* The constructor does not set m_has_ of a message's field: one that was never
\* set may be taken for an empty message.
RECURSIVE Phantoms(_, _)
Phantoms(type, m) ==
  LET known(n) == CHOOSE f \in ToSet(type) : f.num = n
      phantom(f) == Phantoms(f.body, Unset(f.body))
      value(n, f) == IF m[n] = <<>> /\ ~f.repeated THEN <<phantom(f)>>
                     ELSE [i \in DOMAIN m[n] |-> Phantoms(f.body, m[n][i])]
  IN  IF m = Garbage THEN m
      ELSE [n \in DOMAIN m |-> IF known(n).type = "msg" THEN value(n, known(n)) ELSE m[n]]

----------------------------------------------------------------------------
(* Writing: the calls of write a message makes; the result of the one for   *)
(* the characters of a string is not looked at                              *)

Little(n, size) == [k \in 1 .. size |-> (n \div (2 * VarBase) ^ (k - 1)) % (2 * VarBase)]

Checked(bytes) == <<[bytes |-> bytes, checked |-> TRUE]>>
Unchecked(bytes) == <<[bytes |-> bytes, checked |-> FALSE]>>

AllBytes(writes) == FlattenSeq([k \in DOMAIN writes |-> writes[k].bytes])

\* The values of a message in the order in which they are written.
Pieces(type, m) ==
  FlattenSeq([k \in DOMAIN type |->
                [i \in DOMAIN m[type[k].num] |-> [field |-> type[k], value |-> m[type[k].num][i]]]])

RECURSIVE Writes(_, _)
PieceWrites(p) ==
  LET v == p.value
      t == p.field.type
  IN  Checked(VarUInt(Tag(p.field))) \o
      CASE t = "uint" -> Checked(VarUInt(v))
        [] t = "int"  -> Checked(VarUInt(ZigZag(v)))
        [] t = "bool" -> Checked(VarUInt(ZigZag(IF v THEN 1 ELSE 0)))
        [] t = "string" -> Checked(VarUInt(Len(v))) \o Unchecked(v)
        [] t = "msg"  -> LET inner == Writes(p.field.body, v)
                         IN  Checked(VarUInt(Len(AllBytes(inner)))) \o inner
        [] OTHER -> Checked(Little(v, FixedSize[t]))

Writes(type, m) ==
  LET ps == Pieces(type, m) IN FlattenSeq([k \in DOMAIN ps |-> PieceWrites(ps[k])])

\* BlobSink::write
Sunk(sink, write, capacity) ==
  LET n == SmallestOf({Len(write.bytes), capacity - Len(sink.bytes)})
  IN  [bytes |-> sink.bytes \o SubSeq(write.bytes, 1, n),
       fail |-> sink.fail \/ (write.checked /\ n < Len(write.bytes))]

----------------------------------------------------------------------------
(* Reading: see Varint *)

\* A slip a range could hide: it looks at the sink below it.
AvailBelow(w, r) == Len(w) - r.at

Avail(w, r) == IF r.limits = <<>> THEN Len(w) - r.at ELSE Last(r.limits)

ReadFixed(t) ==
  [r |-> t.r, value |-> FoldRight(LAMBDA b, v : b + 2 * VarBase * v, t.bytes, 0)]

\* A field the reader does not know: a string or message of n bytes is passed
\* by what n is as a signed varint.
SkipField(w, r, id) ==
  LET past(size) == Take(w, size.r, UnZigZag(size.value) % Word).r
  IN  CASE id = 0 -> ReadVar(w, r).r
        [] id = 1 -> Take(w, r, FixedSize["fixed64"]).r
        [] id = 2 -> past(ReadVar(w, r))
        [] id = 5 -> Take(w, r, FixedSize["fixed32"]).r
        [] OTHER -> r

\* A string is kept whatever was read of it.  Sizes that are refused ("1 << 31"
\* is one from 2^64 - 2^31) nobody writes.
ReadText(n, t) == [r |-> t.r, value |-> IF Len(t.bytes) = n THEN t.bytes ELSE Garbage]

\* A message of a message fails for itself: the sink of who holds it does not.
Unnested(inner) ==
  [r |-> [inner.r EXCEPT !.limits = Front(@), !.failed = FALSE],
   value |-> IF inner.r.failed THEN Garbage ELSE inner.message]

\* A field is read as the reader's type has it, whatever the tag says of it.
RECURSIVE ReadMessage(_, _, _, _)
ReadSized(w, f, v) ==
  CASE f.type = "uint" -> v
    [] f.type = "int"  -> [v EXCEPT !.value = UnZigZag(@)]
    [] f.type = "bool" -> [v EXCEPT !.value = UnZigZag(@) # 0]
    [] f.type \in {"string", "msg"} /\ v.r.failed -> v
    [] f.type = "string" /\ ~v.r.failed -> ReadText(v.value, Take(w, v.r, v.value))
    [] f.type = "msg" /\ ~v.r.failed ->
         Unnested(ReadMessage(w, f.body, [v.r EXCEPT !.limits = Append(@, v.value)],
                              Unset(f.body)))

ReadField(w, r, f) ==
  IF f.type \in DOMAIN FixedSize THEN ReadFixed(ReadExactly(w, r, FixedSize[f.type]))
  ELSE ReadSized(w, f, ReadVar(w, r))

ReadTagged(w, type, tag, m) ==
  LET fields == {f \in ToSet(type) : f.num = tag.value \div 8}
      next(f, v) ==
        ReadMessage(w, type, v.r, IF v.r.failed THEN m ELSE PutField(m, f, v.value))
      known(f) == next(f, ReadField(w, tag.r, f))
  IN  IF tag.r.failed THEN [r |-> tag.r, message |-> m]
      ELSE IF fields = {} THEN ReadMessage(w, type, SkipField(w, tag.r, tag.value % 8), m)
      ELSE known(CHOOSE f \in fields : TRUE)

\* operator>> of a builder.
ReadMessage(w, type, r, m) ==
  IF Avail(w, r) = 0 \/ r.failed THEN [r |-> r, message |-> m]
  ELSE ReadTagged(w, type, ReadVar(w, r), m)

----------------------------------------------------------------------------
None == <<>>

WireInit == /\ writer = None /\ sent = None /\ told = FALSE /\ wire = <<>>
            /\ reader = None /\ received = None /\ accepted = FALSE

\* oserialize into a BlobSink.
Serialize(s, phantom, capacity) ==
  LET m == IF phantom THEN Phantoms(s.type, s.message) ELSE s.message
      sink == FoldLeft(LAMBDA b, write : Sunk(b, write, capacity),
                       [bytes |-> <<>>, fail |-> FALSE], Writes(s.type, m))
  IN  /\ writer = None
      /\ writer' = s.type /\ sent' = m
      /\ wire' = sink.bytes /\ told' = ~sink.fail
      /\ UNCHANGED <<reader, received, accepted>>

\* iserialize of what was written.
Parse(type, phantom) ==
  LET result == ReadMessage(wire, type, [at |-> 0, limits |-> <<>>, failed |-> FALSE], Unset(type))
  IN  /\ writer # None /\ reader = None
      /\ reader' = type /\ accepted' = ~result.r.failed
      /\ received' = LET m == IF result.r.failed THEN Unset(type) ELSE result.message
                     IN  IF phantom THEN Phantoms(type, m) ELSE m
      /\ UNCHANGED <<writer, sent, told, wire>>

WireNext == \/ \E s \in Sendings, phantom \in BOOLEAN, n \in 0 .. MaxCapacity :
                 Serialize(s, phantom, n)
            \/ \E type \in Readers, phantom \in BOOLEAN : Parse(type, phantom)

----------------------------------------------------------------------------
(* What was sent, as the reader knows it *)

RECURSIVE KnownPart(_, _)
KnownPart(type, pieces) ==
  LET put(m, p) ==
        LET fields == {f \in ToSet(type) : f.num = p.field.num}
            f == CHOOSE f \in fields : TRUE
        IN  IF fields = {} THEN m
            ELSE PutField(m, f, IF f.type # "msg" THEN p.value
                                ELSE KnownPart(f.body, Pieces(p.field.body, p.value)))
  IN  FoldLeft(put, Unset(type), pieces)

\* No string and no message is unknown to the reader.
RECURSIVE KnowsSizes(_, _)
KnowsSizes(ours, theirs) ==
  \A g \in {g \in ToSet(theirs) : g.type \in {"string", "msg"}} :
    \E f \in ToSet(ours) : /\ f.num = g.num /\ f.type = g.type
                           /\ g.type = "msg" => KnowsSizes(f.body, g.body)

\* A message is read as it was written, up to the fields the reader does not
\* know (if they are numbers), when everything fitted or just the last fields
\* are missing; a buffer too small for it is told by the writer or the reader,
\* unless the cut is in a string or in a message of the message, or in a number
\* of fixed size the reader does not know.  A message that was not set may be
\* taken for an empty one (proto_printer_header.cpp:457, 543).
ReadsWhatWasWritten ==
  (reader # None /\ KnowsSizes(reader, writer)) =>
    LET pieces == Pieces(writer, sent)
        size(n) == Len(AllBytes(FlattenSeq([k \in 1 .. n |-> PieceWrites(pieces[k])])))
        whole == {n \in 0 .. Len(pieces) : size(n) <= Len(wire)}
        n == CHOOSE n \in whole : \A k \in whole : k <= n
        expected == KnownPart(reader, SubSeq(pieces, 1, n))
        cut == pieces[n + 1].field
        same(k) == \E m \in {expected, Phantoms(reader, expected)} : received[k] = m[k]
    IN  /\ told => \/ n = Len(pieces)
                   \/ n = Len(pieces) - 1 /\ cut.type \in {"string", "msg"}
        /\ size(n) = Len(wire) => accepted
        /\ (size(n) < Len(wire) /\ accepted) =>
             \/ cut.type \in {"string", "msg"}
             \/ cut.type \in {"fixed32", "fixed64"} /\ cut.num \notin DOMAIN received
        /\ accepted => \A k \in DOMAIN received :
             same(k) \/ (size(n) < Len(wire) /\ k = cut.num)
====
