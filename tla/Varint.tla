---- MODULE Varint ----
(***************************************************************************)
(* Numbers of as many bytes as they need (CORE/BASE/serializer_podtypes.h,   *)
(* CORE/TYPES/varint_types.h) and the sinks they are read from               *)
(* (serializer_basesinks.h).                                                 *)
(***************************************************************************)
EXTENDS Integers, Sequences

CONSTANTS VarBase,     \* what the payload of a varint's byte counts to, 2^7
          Word         \* 2^64

ASSUME VarintAssumption == VarBase \in Nat /\ VarBase > 1 /\ Word \in Nat

----------------------------------------------------------------------------
(* Writing *)

VarUInt(n) ==
  LET bytes[k \in 0 .. n] == IF k < VarBase THEN <<k>>
                             ELSE <<VarBase + (k % VarBase)>> \o bytes[k \div VarBase]
  IN  bytes[n]

ZigZag(n) == IF n >= 0 THEN 2 * n ELSE -2 * n - 1

----------------------------------------------------------------------------
(* Reading: at is the place in the bytes; limits are the m_size of the       *)
(* RangeSinks over them, the innermost last; failed is the m_fail of the     *)
(* innermost sink, which no sink around it hears of                          *)

SmallestOf(S) == CHOOSE n \in S : \A k \in S : n <= k

\* read and seek: each range takes what it asks for off its size, whatever it
\* gets.
Take(w, r, n) ==
  LET asked(k) == SmallestOf({n} \cup {r.limits[j] : j \in k .. Len(r.limits)})
      given == SmallestOf({asked(1), Len(w) - r.at})
  IN  [r |-> [r EXCEPT !.at = @ + given,
                       !.limits = [k \in DOMAIN @ |-> @[k] - asked(k)]],
       bytes |-> SubSeq(w, r.at + 1, r.at + given)]

ReadExactly(w, r, n) ==
  LET t == Take(w, r, n) IN [t EXCEPT !.r.failed = Len(t.bytes) < n]

\* The value of the last k bytes, from the end on.
VarValue(bytes) ==
  LET value[k \in 0 .. Len(bytes)] ==
        IF k = 0 THEN 0 ELSE (bytes[Len(bytes) - k + 1] % VarBase) + VarBase * value[k - 1]
  IN  value[Len(bytes)]

\* Byte by byte, up to one without the top bit; the value of a varint that
\* fails is dropped by everyone who reads one.
ReadVar(w, r) ==
  LET rest == Take(w, r, Len(w)).bytes
      ends == {k \in DOMAIN rest : rest[k] < VarBase}
      n == IF ends = {} THEN Len(rest) + 1 ELSE SmallestOf(ends)
      t == ReadExactly(w, r, n)
  IN  [r |-> t.r, value |-> IF t.r.failed THEN 0 ELSE VarValue(t.bytes) % Word]

UnZigZag(n) == IF n % 2 = 0 THEN n \div 2 ELSE -(n \div 2) - 1
====
