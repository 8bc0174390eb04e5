---- MODULE Input_proofs ----
(***************************************************************************)
(* What an application reads of keys and axes is what the devices did, for    *)
(* any devices, keys, maps and width of an int.                              *)
(***************************************************************************)
EXTENDS Input, FiniteSetTheorems, WellFoundedInduction, TLAPS

InputSpec == InputInit /\ [][InputNext]_inputVars

Bits == [0 .. 3 * Row - 1 -> BOOLEAN]

\* A state of the manager, with what is held.
States == [bits : Bits, pressed : Nat \X Nat, released : Nat \X Nat, held : SUBSET (Devices \X Keys)]

DownIsHeld(m) == \A d \in Devices, k \in Keys : m.bits[Down(d, k)] <=> <<d, k>> \in m.held

Edges(m) ==
  /\ \A d \in Devices, k \in Keys :
       LET now == <<d, k>> \in m.held
           was == <<d, k>> \in heldBefore
       IN  /\ now /\ ~was => m.bits[Pressed(d, k)]
           /\ was /\ ~now => m.bits[Released(d, k)]
           /\ (now <=> was) => (m.bits[Pressed(d, k)] <=> m.bits[Released(d, k)])
  /\ m.pressed[2] \in Keys => m.pressed[1] \in Devices /\ m.bits[Pressed(m.pressed[1], m.pressed[2])]
  /\ m.released[2] \in Keys => m.released[1] \in Devices /\ m.bits[Released(m.released[1], m.released[2])]

\* An axis that has a value of its controller to be compared with is in its range.
Scaled(a, value, pos) ==
  LET low == Mapping(rangeMap, a)[1]
      range == Mapping(rangeMap, a)[2] - low
      error == 2 * IntMax * (value - low) - (pos + IntMax) * range
  IN  pos \in -IntMax .. IntMax /\ error \in 0 .. 2 * range * (value - low)

AxesInv ==
  /\ axisPos \in [Devices -> [Axes -> Int]]
  /\ rawAxis \in [Devices -> [Axes -> SUBSET RawValues]]
  /\ \A a \in Axes : rawAxis[0][a] = {}
  /\ \A d \in Devices, a \in Axes : \A value \in rawAxis[d][a] :
       Mapped(rangeMap, a) /\ Scaled(a, value, axisPos[d][a])

MapsInv ==
  /\ \A m \in buttonMap : m \in ButtonMaps
  /\ \A m \in axisMap : m \in AxisMaps
  /\ \A m \in rangeMap : m \in RangeMaps
  /\ \A m, n \in buttonMap : m = n
  /\ \A m, n \in axisMap : m = n
  /\ \A m, n \in rangeMap : m = n

InputInv ==
  /\ Manager \in States /\ heldBefore \subseteq Devices \X Keys /\ focusLost \in BOOLEAN
  /\ DownIsHeld(Manager) /\ (focusLost \/ Edges(Manager))
  /\ AxesInv /\ MapsInv
----------------------------------------------------------------------------
(* Where the entries are                                                     *)

\* A set of natural numbers has a least element.
LEMMA Least ==
  ASSUME NEW S \in SUBSET Nat, S # {}
  PROVE  \E k \in S : \A j \in S : k <= j
<1> DEFINE R == {p \in Nat \X Nat : p[1] < p[2]}
<1>1. R = OpToRel(<, Nat)
  BY DEF OpToRel
<1>2. IsWellFoundedOn(R, Nat)
  BY <1>1, NatLessThanWellFounded
<1>3. PICK k \in S : \A j \in S : <<j, k>> \notin R
  <2> HIDE DEF R
  <2> QED BY <1>2, WFMin
<1>4. \A j \in S : ~(j < k)
  BY <1>3
<1> QED BY <1>3, <1>4

LEMMA Positive == DeviceCount \in Nat /\ DeviceCount > 0 /\ KeyCount \in Nat /\ KeyCount > 0
                  /\ Row \in Nat /\ 0 \in Devices
<1>1. DeviceCount \in Nat /\ DeviceCount > 0 /\ KeyCount \in Nat /\ KeyCount > 0
  BY InputAssumption
<1> QED
  BY <1>1 DEF Row, Devices

LEMMA Times ==
  ASSUME NEW n \in Nat, NEW d \in Nat, NEW e \in Nat, d < e
  PROVE  d * n \in Nat /\ d * n + n <= e * n
<1>1. PICK r \in Nat : e = d + 1 + r
  <2>1. e - d - 1 \in Nat /\ e = d + 1 + (e - d - 1)
    OBVIOUS
  <2> QED
    BY <2>1
<1>2. e * n = d * n + n + r * n
  BY <1>1
<1>3. r * n \in Nat /\ d * n \in Nat
  OBVIOUS
<1> QED
  BY <1>2, <1>3

\* The entries of a device are between its first and the next device's.
LEMMA InRow ==
  ASSUME NEW d \in Devices, NEW k \in 0 .. KeyCount - 1
  PROVE  /\ d * KeyCount \in Nat /\ d * KeyCount + k \in Nat /\ d * KeyCount + k < Row
         /\ \A e \in Devices, l \in 0 .. KeyCount - 1 :
              d * KeyCount + k = e * KeyCount + l => d = e /\ k = l
<1>1. d \in Nat /\ d < DeviceCount /\ k \in Nat /\ k < KeyCount
  BY Positive DEF Devices
<1>2. d * KeyCount \in Nat /\ d * KeyCount + KeyCount <= DeviceCount * KeyCount
  BY <1>1, Positive, Times
<1>3. ASSUME NEW e \in Devices, NEW l \in 0 .. KeyCount - 1, d * KeyCount + k = e * KeyCount + l
      PROVE  d = e /\ k = l
  <2>1. e \in Nat /\ l \in Nat /\ l < KeyCount
    BY Positive DEF Devices
  <2>2. e * KeyCount \in Nat
    BY <2>1, Positive
  <2>3. ~(d < e)
    <3>1. d < e => d * KeyCount + KeyCount <= e * KeyCount
      BY <1>1, <2>1, Positive, Times
    <3> QED
      BY <1>1, <1>2, <1>3, <2>1, <2>2, <3>1, Positive
  <2>4. ~(e < d)
    <3>1. e < d => e * KeyCount + KeyCount <= d * KeyCount
      BY <1>1, <2>1, Positive, Times
    <3> QED
      BY <1>1, <1>2, <1>3, <2>1, <2>2, <3>1, Positive
  <2>5. d = e
    BY <1>1, <2>1, <2>3, <2>4
  <2> QED
    BY <1>1, <1>2, <1>3, <2>1, <2>5
<1> QED
  BY <1>1, <1>2, <1>3, Positive DEF Row

\* The entries of the keys are apart.
LEMMA Apart ==
  ASSUME NEW d \in Devices, NEW k \in 0 .. KeyCount - 1, NEW e \in Devices, NEW l \in 0 .. KeyCount - 1
  PROVE  /\ Down(d, k) \in 0 .. 3 * Row - 1 /\ Pressed(d, k) \in 0 .. 3 * Row - 1
         /\ Released(d, k) \in 0 .. 3 * Row - 1 /\ Down(d, k) < Row
         /\ Down(d, k) # Pressed(e, l) /\ Down(d, k) # Released(e, l) /\ Pressed(d, k) # Released(e, l)
         /\ Down(d, k) = Down(e, l) => d = e /\ k = l
         /\ Pressed(d, k) = Pressed(e, l) => d = e /\ k = l
         /\ Released(d, k) = Released(e, l) => d = e /\ k = l
<1> DEFINE i == d * KeyCount + k
           j == e * KeyCount + l
<1>1. i \in Nat /\ i < Row /\ j \in Nat /\ j < Row /\ (i = j => d = e /\ k = l)
  BY InRow
<1>2. d * KeyCount \in Nat /\ e * KeyCount \in Nat /\ k \in Nat /\ l \in Nat
  BY InRow, Positive
<1>3. /\ Down(d, k) = i /\ Pressed(d, k) = Row + i /\ Released(d, k) = Row + Row + i
      /\ Down(e, l) = j /\ Pressed(e, l) = Row + j /\ Released(e, l) = Row + Row + j
  BY <1>2, Positive DEF Down, Pressed, Released, At
<1> HIDE DEF i, j
<1> QED
  BY <1>1, <1>3, Positive

\* The key that is none has no key's entry.
LEMMA NoneApart ==
  ASSUME NEW d \in Devices, NEW e \in Devices, NEW l \in Keys
  PROVE  /\ Down(d, KeyCount) \notin {Down(e, l), Pressed(e, l), Released(e, l)}
         /\ Pressed(d, KeyCount) \notin {Down(e, l), Pressed(e, l), Released(e, l)}
         /\ Released(d, KeyCount) \notin {Down(e, l), Pressed(e, l), Released(e, l)}
<1> DEFINE i == d * KeyCount + KeyCount
           j == e * KeyCount + l
<1>1. d \in Nat /\ e \in Nat /\ d + 1 <= DeviceCount /\ l \in 0 .. KeyCount - 1 /\ l > 0
  BY Positive DEF Devices, Keys
<1>2. j \in Nat /\ j < Row /\ e * KeyCount \in Nat /\ l \in Nat
  BY <1>1, InRow
<1>3. i = (d + 1) * KeyCount /\ i \in Nat
  BY <1>1, Positive
<1>4. i # j
  <2>1. CASE d + 1 < DeviceCount
    <3>1. d + 1 \in Devices /\ 0 \in 0 .. KeyCount - 1
      BY <1>1, <2>1, Positive DEF Devices
    <3>2. i = (d + 1) * KeyCount + 0
      BY <1>3
    <3> QED
      BY <1>1, <3>1, <3>2, InRow
  <2>2. CASE d + 1 = DeviceCount
    BY <1>2, <1>3, <2>2 DEF Row
  <2> QED
    BY <1>1, <2>1, <2>2, Positive
<1>5. i <= Row
  <2>1. CASE d + 1 < DeviceCount
    <3>1. (d + 1) * KeyCount + KeyCount <= DeviceCount * KeyCount
      BY <1>1, <2>1, Positive, Times
    <3> QED
      BY <1>3, <3>1, Positive DEF Row
  <2>2. CASE d + 1 = DeviceCount
    BY <1>3, <2>2, Positive DEF Row
  <2> QED
    BY <1>1, <2>1, <2>2, Positive
<1>6. j > 0
  BY <1>1, <1>2
<1>7. /\ Down(d, KeyCount) = i /\ Pressed(d, KeyCount) = Row + i /\ Released(d, KeyCount) = Row + Row + i
      /\ Down(e, l) = j /\ Pressed(e, l) = Row + j /\ Released(e, l) = Row + Row + j
  <2>1. d * KeyCount \in Nat
    BY <1>1, Positive
  <2> QED
    BY <1>2, <2>1, Positive DEF Down, Pressed, Released, At
<1> HIDE DEF i, j
<1> QED
  BY <1>2, <1>3, <1>4, <1>5, <1>6, <1>7, Positive

----------------------------------------------------------------------------
(* Events                                                                    *)

LEMMA SetIs ==
  ASSUME NEW bs \in Bits, NEW i, NEW v \in BOOLEAN
  PROVE  /\ Set(bs, i, v) \in Bits
         /\ \A j \in 0 .. 3 * Row - 1 : j # i => Set(bs, i, v)[j] = bs[j]
         /\ i \in 0 .. 3 * Row - 1 => Set(bs, i, v)[i] = v
BY DEF Set, Bits

\* What updateKey does to the arrays, when the key's bit is another.
AfterPress(bs, d, k) == Set(Set(bs, Pressed(d, k), TRUE), Down(d, k), TRUE)
AfterRelease(bs, d, k) == Set(Set(bs, Released(d, k), TRUE), Down(d, k), FALSE)

LEMMA AfterType ==
  ASSUME NEW bs \in Bits, NEW d, NEW k
  PROVE  AfterPress(bs, d, k) \in Bits /\ AfterRelease(bs, d, k) \in Bits
<1>1. Set(bs, Pressed(d, k), TRUE) \in Bits /\ Set(bs, Released(d, k), TRUE) \in Bits
  BY SetIs
<1> QED
  BY <1>1, SetIs DEF AfterPress, AfterRelease

\* A press and a release with d and k, whatever they are.
Press(d, k) == [device |-> d, key |-> k, down |-> TRUE]
Release(d, k) == [device |-> d, key |-> k, down |-> FALSE]

LEMMA StateIs ==
  ASSUME NEW m \in States
  PROVE  /\ m = [bits |-> m.bits, pressed |-> m.pressed, released |-> m.released, held |-> m.held]
         /\ m.bits \in Bits /\ m.pressed \in Nat \X Nat /\ m.released \in Nat \X Nat
         /\ m.held \subseteq Devices \X Keys
BY DEF States

LEMMA StateMade ==
  ASSUME NEW b \in Bits, NEW p \in Nat \X Nat, NEW r \in Nat \X Nat, NEW h, h \subseteq Devices \X Keys
  PROVE  [bits |-> b, pressed |-> p, released |-> r, held |-> h] \in States
BY DEF States

LEMMA PressEvent ==
  ASSUME NEW m \in States, NEW d \in Devices, NEW k \in Nat
  PROVE  /\ Event(m, Press(d, k)) \in States
         /\ Event(m, Press(d, k)).held = IF k \in Keys THEN m.held \cup {<<d, k>>} ELSE m.held
         /\ Repeats(m, d, k, TRUE) =>
              /\ Event(m, Press(d, k)).bits = m.bits
              /\ Event(m, Press(d, k)).pressed = m.pressed
              /\ Event(m, Press(d, k)).released = m.released
         /\ ~Repeats(m, d, k, TRUE) =>
              /\ Event(m, Press(d, k)).bits = AfterPress(m.bits, d, k)
              /\ Event(m, Press(d, k)).pressed = <<d, k>>
              /\ Event(m, Press(d, k)).released = m.released
<1> DEFINE h == IF k \in Keys THEN m.held \cup {<<d, k>>} ELSE m.held
<1>1. /\ m = [bits |-> m.bits, pressed |-> m.pressed, released |-> m.released, held |-> m.held]
      /\ m.bits \in Bits /\ m.pressed \in Nat \X Nat /\ m.released \in Nat \X Nat
      /\ h \subseteq Devices \X Keys /\ AfterPress(m.bits, d, k) \in Bits /\ <<d, k>> \in Nat \X Nat
  BY StateIs, AfterType DEF Devices
<1>2. CASE Repeats(m, d, k, TRUE)
  <2>1. UpdateKey(m, d, k, TRUE) = m
    BY <1>2 DEF UpdateKey
  <2>2. Event(m, Press(d, k)) = [m EXCEPT !.held = h]
    BY <2>1 DEF Event, Press
  <2> HIDE DEF h
  <2>3. Event(m, Press(d, k)) =
          [bits |-> m.bits, pressed |-> m.pressed, released |-> m.released, held |-> h]
    BY <1>1, <2>2
  <2>4. Event(m, Press(d, k)) \in States
    BY <1>1, <2>3, StateMade
  <2>5. Event(m, Press(d, k)).held = IF k \in Keys THEN m.held \cup {<<d, k>>} ELSE m.held
    BY <2>3 DEF h
  <2>6. Event(m, Press(d, k)).bits = m.bits /\ Event(m, Press(d, k)).pressed = m.pressed /\ Event(m, Press(d, k)).released = m.released
    BY <2>3
  <2> QED
    BY <1>2, <2>4, <2>5, <2>6, Zenon
<1>3. CASE ~Repeats(m, d, k, TRUE)
  <2>1. UpdateKey(m, d, k, TRUE) =
          [m EXCEPT !.bits = AfterPress(m.bits, d, k), !.pressed = <<d, k>>]
    BY <1>3 DEF UpdateKey, AfterPress
  <2>2. Event(m, Press(d, k)) = [UpdateKey(m, d, k, TRUE) EXCEPT !.held = h]
    <3>1. UpdateKey(m, d, k, TRUE).held = m.held
      BY <1>1, <2>1
    <3> QED
      BY <3>1 DEF Event, Press
  <2> HIDE DEF h
  <2>3. Event(m, Press(d, k)) =
          [bits |-> AfterPress(m.bits, d, k), pressed |-> <<d, k>>, released |-> m.released, held |-> h]
    BY <1>1, <2>1, <2>2
  <2>4. Event(m, Press(d, k)) \in States
    BY <1>1, <2>3, StateMade
  <2>5. Event(m, Press(d, k)).held = IF k \in Keys THEN m.held \cup {<<d, k>>} ELSE m.held
    BY <2>3 DEF h
  <2>6. Event(m, Press(d, k)).bits = AfterPress(m.bits, d, k) /\ Event(m, Press(d, k)).pressed = <<d, k>> /\ Event(m, Press(d, k)).released = m.released
    BY <2>3
  <2> QED
    BY <1>3, <2>4, <2>5, <2>6, Zenon
<1> QED
  BY <1>2, <1>3

LEMMA ReleaseEvent ==
  ASSUME NEW m \in States, NEW d \in Devices, NEW k \in Nat
  PROVE  /\ Event(m, Release(d, k)) \in States
         /\ Event(m, Release(d, k)).held = IF k \in Keys THEN m.held \ {<<d, k>>} ELSE m.held
         /\ Repeats(m, d, k, FALSE) =>
              /\ Event(m, Release(d, k)).bits = m.bits
              /\ Event(m, Release(d, k)).pressed = m.pressed
              /\ Event(m, Release(d, k)).released = m.released
         /\ ~Repeats(m, d, k, FALSE) =>
              /\ Event(m, Release(d, k)).bits = AfterRelease(m.bits, d, k)
              /\ Event(m, Release(d, k)).released = <<d, k>>
              /\ Event(m, Release(d, k)).pressed = m.pressed
<1> DEFINE h == IF k \in Keys THEN m.held \ {<<d, k>>} ELSE m.held
<1>1. /\ m = [bits |-> m.bits, pressed |-> m.pressed, released |-> m.released, held |-> m.held]
      /\ m.bits \in Bits /\ m.pressed \in Nat \X Nat /\ m.released \in Nat \X Nat
      /\ h \subseteq Devices \X Keys /\ AfterRelease(m.bits, d, k) \in Bits /\ <<d, k>> \in Nat \X Nat
  BY StateIs, AfterType DEF Devices
<1>2. CASE Repeats(m, d, k, FALSE)
  <2>1. UpdateKey(m, d, k, FALSE) = m
    BY <1>2 DEF UpdateKey
  <2>2. Event(m, Release(d, k)) = [m EXCEPT !.held = h]
    BY <2>1 DEF Event, Release
  <2> HIDE DEF h
  <2>3. Event(m, Release(d, k)) =
          [bits |-> m.bits, pressed |-> m.pressed, released |-> m.released, held |-> h]
    BY <1>1, <2>2
  <2>4. Event(m, Release(d, k)) \in States
    BY <1>1, <2>3, StateMade
  <2>5. Event(m, Release(d, k)).held = IF k \in Keys THEN m.held \ {<<d, k>>} ELSE m.held
    BY <2>3 DEF h
  <2>6. Event(m, Release(d, k)).bits = m.bits /\ Event(m, Release(d, k)).pressed = m.pressed /\ Event(m, Release(d, k)).released = m.released
    BY <2>3
  <2> QED
    BY <1>2, <2>4, <2>5, <2>6, Zenon
<1>3. CASE ~Repeats(m, d, k, FALSE)
  <2>1. UpdateKey(m, d, k, FALSE) =
          [m EXCEPT !.bits = AfterRelease(m.bits, d, k), !.released = <<d, k>>]
    BY <1>3 DEF UpdateKey, AfterRelease
  <2>2. Event(m, Release(d, k)) = [UpdateKey(m, d, k, FALSE) EXCEPT !.held = h]
    <3>1. UpdateKey(m, d, k, FALSE).held = m.held
      BY <1>1, <2>1
    <3> QED
      BY <3>1 DEF Event, Release
  <2> HIDE DEF h
  <2>3. Event(m, Release(d, k)) =
          [bits |-> AfterRelease(m.bits, d, k), pressed |-> m.pressed, released |-> <<d, k>>, held |-> h]
    BY <1>1, <2>1, <2>2
  <2>4. Event(m, Release(d, k)) \in States
    BY <1>1, <2>3, StateMade
  <2>5. Event(m, Release(d, k)).held = IF k \in Keys THEN m.held \ {<<d, k>>} ELSE m.held
    BY <2>3 DEF h
  <2>6. Event(m, Release(d, k)).bits = AfterRelease(m.bits, d, k) /\ Event(m, Release(d, k)).pressed = m.pressed /\ Event(m, Release(d, k)).released = <<d, k>>
    BY <2>3
  <2> QED
    BY <1>3, <2>4, <2>5, <2>6, Zenon
<1> QED
  BY <1>2, <1>3

LEMMA PressIs ==
  ASSUME NEW bs \in Bits, NEW d, NEW k
  PROVE  /\ \A i \in 0 .. 3 * Row - 1 :
              i # Pressed(d, k) /\ i # Down(d, k) => (AfterPress(bs, d, k)[i] <=> bs[i])
         /\ Down(d, k) \in 0 .. 3 * Row - 1 => AfterPress(bs, d, k)[Down(d, k)]
         /\ Pressed(d, k) \in 0 .. 3 * Row - 1 => AfterPress(bs, d, k)[Pressed(d, k)]
BY DEF AfterPress, Set, Bits

LEMMA ReleaseIs ==
  ASSUME NEW bs \in Bits, NEW d, NEW k
  PROVE  /\ \A i \in 0 .. 3 * Row - 1 :
              i # Released(d, k) /\ i # Down(d, k) => (AfterRelease(bs, d, k)[i] <=> bs[i])
         /\ Down(d, k) \in 0 .. 3 * Row - 1 => ~AfterRelease(bs, d, k)[Down(d, k)]
         /\ Released(d, k) \in 0 .. 3 * Row - 1 /\ Released(d, k) # Down(d, k)
              => AfterRelease(bs, d, k)[Released(d, k)]
BY DEF AfterRelease, Set, Bits

\* A key's entries after a press: its own are set, the others are as they were.
LEMMA PressOfKey ==
  ASSUME NEW bs \in Bits, NEW d \in Devices, NEW k \in Keys, NEW e \in Devices, NEW l \in Keys
  PROVE  /\ AfterPress(bs, d, k)[Down(d, k)] /\ AfterPress(bs, d, k)[Pressed(d, k)]
         /\ (AfterPress(bs, d, k)[Released(e, l)] <=> bs[Released(e, l)])
         /\ <<e, l>> # <<d, k>> => /\ (AfterPress(bs, d, k)[Down(e, l)] <=> bs[Down(e, l)])
                                   /\ (AfterPress(bs, d, k)[Pressed(e, l)] <=> bs[Pressed(e, l)])
<1>1. k \in 0 .. KeyCount - 1 /\ l \in 0 .. KeyCount - 1
  BY Positive DEF Keys
<1>2. /\ Down(d, k) \in 0 .. 3 * Row - 1 /\ Pressed(d, k) \in 0 .. 3 * Row - 1
      /\ Down(e, l) \in 0 .. 3 * Row - 1 /\ Pressed(e, l) \in 0 .. 3 * Row - 1
      /\ Released(e, l) \in 0 .. 3 * Row - 1
  BY <1>1, Apart
<1>3. /\ Released(e, l) # Pressed(d, k) /\ Released(e, l) # Down(d, k)
      /\ Down(e, l) # Pressed(d, k) /\ Pressed(e, l) # Down(d, k)
      /\ Down(e, l) = Down(d, k) => e = d /\ l = k
      /\ Pressed(e, l) = Pressed(d, k) => e = d /\ l = k
  BY <1>1, Apart
<1> QED
  BY <1>2, <1>3, PressIs

LEMMA ReleaseOfKey ==
  ASSUME NEW bs \in Bits, NEW d \in Devices, NEW k \in Keys, NEW e \in Devices, NEW l \in Keys
  PROVE  /\ ~AfterRelease(bs, d, k)[Down(d, k)] /\ AfterRelease(bs, d, k)[Released(d, k)]
         /\ (AfterRelease(bs, d, k)[Pressed(e, l)] <=> bs[Pressed(e, l)])
         /\ <<e, l>> # <<d, k>> => /\ (AfterRelease(bs, d, k)[Down(e, l)] <=> bs[Down(e, l)])
                                   /\ (AfterRelease(bs, d, k)[Released(e, l)] <=> bs[Released(e, l)])
<1>1. k \in 0 .. KeyCount - 1 /\ l \in 0 .. KeyCount - 1
  BY Positive DEF Keys
<1>2. /\ Down(d, k) \in 0 .. 3 * Row - 1 /\ Released(d, k) \in 0 .. 3 * Row - 1
      /\ Down(e, l) \in 0 .. 3 * Row - 1 /\ Pressed(e, l) \in 0 .. 3 * Row - 1
      /\ Released(e, l) \in 0 .. 3 * Row - 1
  BY <1>1, Apart
<1>3. /\ Released(d, k) # Pressed(e, l) /\ Released(d, k) # Down(d, k)
      /\ Down(e, l) # Released(d, k) /\ Pressed(e, l) # Down(d, k)
      /\ Released(e, l) # Down(d, k)
      /\ Down(e, l) = Down(d, k) => e = d /\ l = k
      /\ Released(e, l) = Released(d, k) => e = d /\ l = k
  BY <1>1, Apart
<1> QED
  BY <1>2, <1>3, ReleaseIs

\* An event of a key that is none changes no key's entry.
LEMMA NoKeysEvent ==
  ASSUME NEW bs \in Bits, NEW d \in Devices, NEW e \in Devices, NEW l \in Keys
  PROVE  /\ (AfterPress(bs, d, KeyCount)[Down(e, l)] <=> bs[Down(e, l)])
         /\ (AfterPress(bs, d, KeyCount)[Pressed(e, l)] <=> bs[Pressed(e, l)])
         /\ (AfterPress(bs, d, KeyCount)[Released(e, l)] <=> bs[Released(e, l)])
         /\ (AfterRelease(bs, d, KeyCount)[Down(e, l)] <=> bs[Down(e, l)])
         /\ (AfterRelease(bs, d, KeyCount)[Pressed(e, l)] <=> bs[Pressed(e, l)])
         /\ (AfterRelease(bs, d, KeyCount)[Released(e, l)] <=> bs[Released(e, l)])
<1>1. l \in 0 .. KeyCount - 1
  BY Positive DEF Keys
<1>2. /\ Down(e, l) \in 0 .. 3 * Row - 1 /\ Pressed(e, l) \in 0 .. 3 * Row - 1
      /\ Released(e, l) \in 0 .. 3 * Row - 1
  BY <1>1, Apart
<1> QED
  BY <1>2, NoneApart, PressIs, ReleaseIs

\* What Edges says of one key, whose entries are down, p and r.
Edge(p, r, now, was) ==
  /\ now /\ ~was => p
  /\ was /\ ~now => r
  /\ (now <=> was) => (p <=> r)

LEMMA EdgesOfKeys ==
  ASSUME NEW m \in States
  PROVE  Edges(m) <=>
           /\ \A d \in Devices, k \in Keys :
                Edge(m.bits[Pressed(d, k)], m.bits[Released(d, k)], <<d, k>> \in m.held, <<d, k>> \in heldBefore)
           /\ m.pressed[2] \in Keys => m.pressed[1] \in Devices /\ m.bits[Pressed(m.pressed[1], m.pressed[2])]
           /\ m.released[2] \in Keys => m.released[1] \in Devices /\ m.bits[Released(m.released[1], m.released[2])]
BY DEF Edges, Edge

LEMMA SameKeeps ==
  ASSUME NEW m \in States, NEW n \in States, n.held = m.held,
         \A e \in Devices, l \in Keys :
           /\ n.bits[Down(e, l)] <=> m.bits[Down(e, l)]
           /\ n.bits[Pressed(e, l)] <=> m.bits[Pressed(e, l)]
           /\ n.bits[Released(e, l)] <=> m.bits[Released(e, l)],
         n.pressed = m.pressed \/ n.pressed[2] \notin Keys,
         n.released = m.released \/ n.released[2] \notin Keys
  PROVE  (DownIsHeld(m) => DownIsHeld(n)) /\ (Edges(m) => Edges(n))
<1>1. DownIsHeld(m) => DownIsHeld(n)
  BY DEF DownIsHeld
<1>2. Edges(m) => Edges(n)
  BY DEF Edges
<1> QED
  BY <1>1, <1>2

LEMMA PressKeeps ==
  ASSUME NEW m \in States, DownIsHeld(m), NEW d \in Devices, NEW k \in 1 .. KeyCount
  PROVE  /\ Event(m, Press(d, k)) \in States /\ DownIsHeld(Event(m, Press(d, k)))
         /\ Edges(m) => Edges(Event(m, Press(d, k)))
<1> DEFINE n == Event(m, Press(d, k))
<1>1. k \in Nat /\ m.bits \in Bits /\ (k \in Keys => k \in 0 .. KeyCount - 1) /\ (k = KeyCount \/ k \in Keys)
  BY Positive, StateIs DEF Keys
<1>2. /\ n \in States /\ n.held = IF k \in Keys THEN m.held \cup {<<d, k>>} ELSE m.held
      /\ n.released = m.released
      /\ Repeats(m, d, k, TRUE) => n.bits = m.bits /\ n.pressed = m.pressed
      /\ ~Repeats(m, d, k, TRUE) => n.bits = AfterPress(m.bits, d, k) /\ n.pressed = <<d, k>>
  BY <1>1, PressEvent
<1> HIDE DEF n
<1>3. CASE Repeats(m, d, k, TRUE)
  <2>1. n.held = m.held
    <3>1. k \in Keys => <<d, k>> \in m.held
      BY <1>3 DEF DownIsHeld, Repeats
    <3> QED
      BY <1>2, <3>1
  <2> QED
    BY <1>2, <1>3, <2>1, SameKeeps DEF n
<1>4. CASE ~Repeats(m, d, k, TRUE) /\ k \notin Keys
  <2>1. \A e \in Devices, l \in Keys :
          /\ n.bits[Down(e, l)] <=> m.bits[Down(e, l)]
          /\ n.bits[Pressed(e, l)] <=> m.bits[Pressed(e, l)]
          /\ n.bits[Released(e, l)] <=> m.bits[Released(e, l)]
    BY <1>1, <1>2, <1>4, NoKeysEvent
  <2> QED
    BY <1>2, <1>4, <2>1, SameKeeps DEF n
<1>5. CASE ~Repeats(m, d, k, TRUE) /\ k \in Keys
  <2>1. ~m.bits[Down(d, k)]
    BY <1>1, <1>5, Apart DEF Repeats, Bits
  <2>2. <<d, k>> \notin m.held
    BY <1>5, <2>1 DEF DownIsHeld
  <2>3. /\ n.bits[Down(d, k)] /\ n.bits[Pressed(d, k)]
        /\ \A e \in Devices, l \in Keys :
             /\ n.bits[Released(e, l)] <=> m.bits[Released(e, l)]
             /\ <<e, l>> # <<d, k>> => /\ n.bits[Down(e, l)] <=> m.bits[Down(e, l)]
                                       /\ n.bits[Pressed(e, l)] <=> m.bits[Pressed(e, l)]
    BY <1>1, <1>2, <1>5, PressOfKey
  <2>4. DownIsHeld(n)
    <3> SUFFICES ASSUME NEW e \in Devices, NEW l \in Keys
                 PROVE  n.bits[Down(e, l)] <=> <<e, l>> \in n.held
      BY DEF DownIsHeld
    <3>1. m.bits[Down(e, l)] <=> <<e, l>> \in m.held
      BY DEF DownIsHeld
    <3>2. CASE <<e, l>> = <<d, k>>
      BY <1>2, <1>5, <2>3, <3>2
    <3>3. CASE <<e, l>> # <<d, k>>
      BY <1>2, <1>5, <2>3, <3>1, <3>3
    <3> QED
      BY <3>2, <3>3
  <2>5. ASSUME Edges(m) PROVE Edges(n)
    <3>1. ASSUME NEW e \in Devices, NEW l \in Keys
          PROVE  Edge(n.bits[Pressed(e, l)], n.bits[Released(e, l)], <<e, l>> \in n.held, <<e, l>> \in heldBefore)
      <4>1. Edge(m.bits[Pressed(e, l)], m.bits[Released(e, l)], <<e, l>> \in m.held, <<e, l>> \in heldBefore)
        BY <2>5, EdgesOfKeys
      <4>2. CASE <<e, l>> = <<d, k>>
        BY <1>2, <1>5, <2>2, <2>3, <4>1, <4>2 DEF Edge
      <4>3. CASE <<e, l>> # <<d, k>>
        BY <1>2, <1>5, <2>3, <4>1, <4>3 DEF Edge
      <4> QED
        BY <4>2, <4>3
    <3>2. n.released[2] \in Keys => n.released[1] \in Devices /\ n.bits[Released(n.released[1], n.released[2])]
      BY <1>2, <2>3, <2>5 DEF Edges
    <3>3. n.pressed[1] \in Devices /\ n.bits[Pressed(n.pressed[1], n.pressed[2])]
      BY <1>2, <1>5, <2>3
    <3> QED
      BY <1>2, <3>1, <3>2, <3>3, EdgesOfKeys
  <2> QED
    BY <1>2, <2>4, <2>5 DEF n
<1> QED
  BY <1>3, <1>4, <1>5

LEMMA ReleaseKeeps ==
  ASSUME NEW m \in States, DownIsHeld(m), NEW d \in Devices, NEW k \in 1 .. KeyCount
  PROVE  /\ Event(m, Release(d, k)) \in States /\ DownIsHeld(Event(m, Release(d, k)))
         /\ Edges(m) => Edges(Event(m, Release(d, k)))
<1> DEFINE n == Event(m, Release(d, k))
<1>1. k \in Nat /\ m.bits \in Bits /\ (k \in Keys => k \in 0 .. KeyCount - 1) /\ (k = KeyCount \/ k \in Keys)
  BY Positive, StateIs DEF Keys
<1>2. /\ n \in States /\ n.held = IF k \in Keys THEN m.held \ {<<d, k>>} ELSE m.held
      /\ n.pressed = m.pressed
      /\ Repeats(m, d, k, FALSE) => n.bits = m.bits /\ n.released = m.released
      /\ ~Repeats(m, d, k, FALSE) => n.bits = AfterRelease(m.bits, d, k) /\ n.released = <<d, k>>
  BY <1>1, ReleaseEvent
<1> HIDE DEF n
<1>3. CASE Repeats(m, d, k, FALSE)
  <2>1. n.held = m.held
    <3>1. k \in Keys => <<d, k>> \notin m.held
      BY <1>3 DEF DownIsHeld, Repeats
    <3> QED
      BY <1>2, <3>1
  <2> QED
    BY <1>2, <1>3, <2>1, SameKeeps DEF n
<1>4. CASE ~Repeats(m, d, k, FALSE) /\ k \notin Keys
  <2>1. \A e \in Devices, l \in Keys :
          /\ n.bits[Down(e, l)] <=> m.bits[Down(e, l)]
          /\ n.bits[Pressed(e, l)] <=> m.bits[Pressed(e, l)]
          /\ n.bits[Released(e, l)] <=> m.bits[Released(e, l)]
    BY <1>1, <1>2, <1>4, NoKeysEvent
  <2> QED
    BY <1>2, <1>4, <2>1, SameKeeps DEF n
<1>5. CASE ~Repeats(m, d, k, FALSE) /\ k \in Keys
  <2>1. m.bits[Down(d, k)]
    BY <1>1, <1>5, Apart DEF Repeats, Bits
  <2>2. <<d, k>> \in m.held
    BY <1>5, <2>1 DEF DownIsHeld
  <2>3. /\ ~n.bits[Down(d, k)] /\ n.bits[Released(d, k)]
        /\ \A e \in Devices, l \in Keys :
             /\ n.bits[Pressed(e, l)] <=> m.bits[Pressed(e, l)]
             /\ <<e, l>> # <<d, k>> => /\ n.bits[Down(e, l)] <=> m.bits[Down(e, l)]
                                       /\ n.bits[Released(e, l)] <=> m.bits[Released(e, l)]
    BY <1>1, <1>2, <1>5, ReleaseOfKey
  <2>4. DownIsHeld(n)
    <3> SUFFICES ASSUME NEW e \in Devices, NEW l \in Keys
                 PROVE  n.bits[Down(e, l)] <=> <<e, l>> \in n.held
      BY DEF DownIsHeld
    <3>1. m.bits[Down(e, l)] <=> <<e, l>> \in m.held
      BY DEF DownIsHeld
    <3>2. CASE <<e, l>> = <<d, k>>
      BY <1>2, <1>5, <2>3, <3>2
    <3>3. CASE <<e, l>> # <<d, k>>
      BY <1>2, <1>5, <2>3, <3>1, <3>3
    <3> QED
      BY <3>2, <3>3
  <2>5. ASSUME Edges(m) PROVE Edges(n)
    <3>1. ASSUME NEW e \in Devices, NEW l \in Keys
          PROVE  Edge(n.bits[Pressed(e, l)], n.bits[Released(e, l)], <<e, l>> \in n.held, <<e, l>> \in heldBefore)
      <4>1. Edge(m.bits[Pressed(e, l)], m.bits[Released(e, l)], <<e, l>> \in m.held, <<e, l>> \in heldBefore)
        BY <2>5, EdgesOfKeys
      <4>2. CASE <<e, l>> = <<d, k>>
        BY <1>2, <1>5, <2>2, <2>3, <4>1, <4>2 DEF Edge
      <4>3. CASE <<e, l>> # <<d, k>>
        BY <1>2, <1>5, <2>3, <4>1, <4>3 DEF Edge
      <4> QED
        BY <4>2, <4>3
    <3>2. n.pressed[2] \in Keys => n.pressed[1] \in Devices /\ n.bits[Pressed(n.pressed[1], n.pressed[2])]
      BY <1>2, <2>3, <2>5 DEF Edges
    <3>3. n.released[1] \in Devices /\ n.bits[Released(n.released[1], n.released[2])]
      BY <1>2, <1>5, <2>3
    <3> QED
      BY <1>2, <3>1, <3>2, <3>3, EdgesOfKeys
  <2> QED
    BY <1>2, <2>4, <2>5 DEF n
<1> QED
  BY <1>3, <1>4, <1>5

----------------------------------------------------------------------------
(* Sequences of events                                                       *)

IsAfter(f, m, es, n) == f = [i \in 0 .. n |-> IF i = 0 THEN m ELSE Event(f[i - 1], es[i])]

LEMMA AfterExists ==
  ASSUME NEW m, NEW es, NEW n \in Nat
  PROVE  \E f : IsAfter(f, m, es, n)
<1> DEFINE Bad == {k \in Nat : ~\E f : IsAfter(f, m, es, k)}
<1>1. SUFFICES ASSUME Bad # {} PROVE FALSE
  OBVIOUS
<1>2. Bad \in SUBSET Nat
  OBVIOUS
<1>3. PICK k \in Bad : \A j \in Bad : k <= j
  <2> HIDE DEF Bad
  <2> QED
    BY <1>1, <1>2, Least
<1>4. k \in Nat /\ ~\E f : IsAfter(f, m, es, k)
  OBVIOUS
<1>5. CASE k = 0
  <2> DEFINE g == [i \in 0 .. k |-> m]
  <2>1. g = [i \in 0 .. k |-> IF i = 0 THEN m ELSE Event(g[i - 1], es[i])]
    BY <1>5
  <2>2. IsAfter(g, m, es, k)
    <3> HIDE DEF g
    <3> QED
      BY <2>1 DEF IsAfter
  <2> QED
    BY <1>4, <2>2
<1>6. CASE k # 0
  <2>1. k - 1 \in Nat /\ ~(k <= k - 1)
    BY <1>4, <1>6
  <2>2. PICK g : IsAfter(g, m, es, k - 1)
    BY <1>3, <2>1
  <2>3. \A i \in 0 .. k - 1 : g[i] = IF i = 0 THEN m ELSE Event(g[i - 1], es[i])
    BY <2>2 DEF IsAfter
  <2> DEFINE f == [i \in 0 .. k |-> IF i = k THEN Event(g[k - 1], es[k]) ELSE g[i]]
  <2>4. f[k] = Event(g[k - 1], es[k]) /\ \A i \in 0 .. k - 1 : f[i] = g[i]
    BY <1>4
  <2>5. ASSUME NEW i \in 0 .. k
        PROVE  f[i] = IF i = 0 THEN m ELSE Event(f[i - 1], es[i])
    <3>1. i = k \/ i \in 0 .. k - 1
      BY <1>4
    <3>2. i # 0 => i - 1 \in 0 .. k - 1
      BY <1>4
    <3> HIDE DEF f
    <3> QED
      BY <1>6, <2>3, <2>4, <3>1, <3>2
  <2>6. f = [i \in 0 .. k |-> IF i = 0 THEN m ELSE Event(f[i - 1], es[i])]
    BY <2>5
  <2>7. IsAfter(f, m, es, k)
    <3> HIDE DEF f
    <3> QED
      BY <2>6 DEF IsAfter
  <2> QED
    BY <1>4, <2>7
<1> QED
  BY <1>5, <1>6

\* The states a sequence of events goes through.
LEMMA EventsAre ==
  ASSUME NEW es, Len(es) \in Nat, Events(es)
  PROVE  \E after : /\ after[0] = Manager
                    /\ \A i \in 1 .. Len(es) : after[i] = Event(after[i - 1], es[i])
                    /\ Becomes(after[Len(es)])
<1> DEFINE after == CHOOSE f : IsAfter(f, Manager, es, Len(es))
<1>1. IsAfter(after, Manager, es, Len(es))
  BY AfterExists
<1>2. Becomes(after[Len(es)])
  BY DEF Events, IsAfter
<1> HIDE DEF after
<1>3. \A i \in 0 .. Len(es) : after[i] = IF i = 0 THEN Manager ELSE Event(after[i - 1], es[i])
  BY <1>1 DEF IsAfter
<1>4. 0 \in 0 .. Len(es) /\ \A i \in 1 .. Len(es) : i \in 0 .. Len(es) /\ i # 0
  OBVIOUS
<1>5. after[0] = Manager /\ \A i \in 1 .. Len(es) : after[i] = Event(after[i - 1], es[i])
  BY <1>3, <1>4
<1> QED
  BY <1>2, <1>5

LEMMA BecomesIs ==
  ASSUME NEW m \in States, Becomes(m)
  PROVE  Manager' = m
BY StateIs DEF Becomes, Manager

IsEvent(e) == \E d \in Devices, k \in 1 .. KeyCount : e = Press(d, k) \/ e = Release(d, k)

LEMMA EventKeeps ==
  ASSUME NEW m \in States, DownIsHeld(m), NEW e, IsEvent(e)
  PROVE  Event(m, e) \in States /\ DownIsHeld(Event(m, e)) /\ (Edges(m) => Edges(Event(m, e)))
<1>1. PICK d \in Devices, k \in 1 .. KeyCount : e = Press(d, k) \/ e = Release(d, k)
  BY DEF IsEvent
<1> QED
  BY <1>1, PressKeeps, ReleaseKeeps

LEMMA EventsKeep ==
  ASSUME Manager \in States, DownIsHeld(Manager),
         NEW es, Len(es) \in Nat, \A i \in 1 .. Len(es) : IsEvent(es[i]),
         Events(es)
  PROVE  Manager' \in States /\ DownIsHeld(Manager') /\ (Edges(Manager) => Edges(Manager'))
<1>1. PICK after : /\ after[0] = Manager
                   /\ \A i \in 1 .. Len(es) : after[i] = Event(after[i - 1], es[i])
                   /\ Becomes(after[Len(es)])
  BY EventsAre
<1> DEFINE Bad == {i \in 0 .. Len(es) : ~(/\ after[i] \in States /\ DownIsHeld(after[i])
                                          /\ Edges(Manager) => Edges(after[i]))}
<1>2. Bad = {}
  <2>1. SUFFICES ASSUME Bad # {} PROVE FALSE
    OBVIOUS
  <2>2. Bad \in SUBSET Nat
    OBVIOUS
  <2>3. PICK k \in Bad : \A j \in Bad : k <= j
    <3> HIDE DEF Bad
    <3> QED
      BY <2>1, <2>2, Least
  <2>4. k \in 0 .. Len(es) /\ ~(/\ after[k] \in States /\ DownIsHeld(after[k])
                                /\ Edges(Manager) => Edges(after[k]))
    OBVIOUS
  <2>5. k # 0
    BY <1>1, <2>4
  <2>6. k - 1 \in 0 .. Len(es) /\ ~(k <= k - 1) /\ k \in 1 .. Len(es)
    BY <2>4, <2>5
  <2>7. k - 1 \notin Bad
    BY <2>3, <2>6
  <2>8. after[k - 1] \in States /\ DownIsHeld(after[k - 1]) /\ (Edges(Manager) => Edges(after[k - 1]))
    BY <2>6, <2>7
  <2>9. after[k] = Event(after[k - 1], es[k]) /\ IsEvent(es[k])
    BY <1>1, <2>6
  <2> QED
    BY <2>4, <2>8, <2>9, EventKeeps
<1>3. after[Len(es)] \in States /\ DownIsHeld(after[Len(es)]) /\ (Edges(Manager) => Edges(after[Len(es)]))
  BY <1>2
<1>4. Manager' = after[Len(es)]
  BY <1>1, <1>3, BecomesIs
<1> QED
  BY <1>3, <1>4

----------------------------------------------------------------------------
(* The lost focus                                                            *)

\* What a release leaves of the keys that are down, also one whose row is that
\* of a later device.
LEMMA FallKeeps ==
  ASSUME NEW m \in States, DownIsHeld(m), NEW d \in Devices, NEW k \in Nat,
         \A e \in Devices, l \in Keys :
           k >= KeyCount /\ Down(e, l) = Down(d, k) => ~m.bits[Down(e, l)]
  PROVE  /\ Event(m, Release(d, k)) \in States /\ DownIsHeld(Event(m, Release(d, k)))
         /\ \A e \in Devices, l \in Keys :
              Event(m, Release(d, k)).bits[Down(e, l)] => m.bits[Down(e, l)]
         /\ k \in Keys => ~Event(m, Release(d, k)).bits[Down(d, k)]
<1> DEFINE n == Event(m, Release(d, k))
<1>1. /\ n \in States /\ n.held = IF k \in Keys THEN m.held \ {<<d, k>>} ELSE m.held
      /\ Repeats(m, d, k, FALSE) => n.bits = m.bits
      /\ ~Repeats(m, d, k, FALSE) => n.bits = AfterRelease(m.bits, d, k)
  BY ReleaseEvent
<1>2. m.bits \in Bits
  BY StateIs
<1> HIDE DEF n
<1>3. CASE k \in Keys
  <2>1. k \in 1 .. KeyCount /\ k \in 0 .. KeyCount - 1
    BY <1>3, Positive DEF Keys
  <2>2. DownIsHeld(n)
    BY <2>1, ReleaseKeeps DEF n
  <2>3. \A e \in Devices, l \in Keys : <<e, l>> \in n.held => <<e, l>> \in m.held
    BY <1>1
  <2>4. <<d, k>> \notin n.held
    BY <1>1, <1>3
  <2> QED
    BY <1>1, <1>3, <2>2, <2>3, <2>4 DEF DownIsHeld, n
<1>4. CASE k \notin Keys
  <2>1. ASSUME NEW e \in Devices, NEW l \in Keys
        PROVE  n.bits[Down(e, l)] <=> m.bits[Down(e, l)]
    <3>1. l \in 0 .. KeyCount - 1 /\ l # 0 /\ l \in Nat
      BY Positive DEF Keys
    <3>2. Down(e, l) \in 0 .. 3 * Row - 1 /\ Down(e, l) < Row
      BY <3>1, Apart
    <3>3. Released(d, k) # Down(e, l)
      <4>1. d * KeyCount \in Nat
        BY Positive DEF Devices
      <4>2. Released(d, k) = Row + Row + (d * KeyCount + k)
        BY <4>1, Positive DEF Released, At
      <4> QED
        BY <3>2, <4>1, <4>2, Positive
    <3>4. CASE Down(e, l) # Down(d, k)
      <4>1. AfterRelease(m.bits, d, k)[Down(e, l)] <=> m.bits[Down(e, l)]
        BY <1>2, <3>2, <3>3, <3>4, ReleaseIs
      <4> QED
        BY <1>1, <4>1
    <3>5. CASE Down(e, l) = Down(d, k)
      <4>1. k # 0
        <5>1. k = 0 => k \in 0 .. KeyCount - 1
          BY Positive
        <5> QED
          BY <3>1, <3>5, <5>1, Apart
      <4>2. k >= KeyCount
        BY <1>4, <4>1, Positive DEF Keys
      <4>3. ~m.bits[Down(e, l)]
        BY <3>5, <4>2
      <4>4. ~AfterRelease(m.bits, d, k)[Down(d, k)]
        BY <1>2, <3>2, <3>5, ReleaseIs
      <4> QED
        BY <1>1, <3>5, <4>3, <4>4
    <3> QED
      BY <3>4, <3>5
  <2>2. n.held = m.held
    BY <1>1, <1>4
  <2>3. DownIsHeld(n)
    BY <2>1, <2>2 DEF DownIsHeld
  <2> QED
    BY <1>1, <1>4, <2>1, <2>3 DEF n
<1> QED
  BY <1>3, <1>4

LEMMA Quotient ==
  ASSUME NEW n \in Nat
  PROVE  /\ n % DeviceCount \in Devices /\ n \div DeviceCount \in Nat
         /\ n = (n \div DeviceCount) * DeviceCount + (n % DeviceCount)
<1>1. DeviceCount \in Nat /\ DeviceCount > 0
  BY Positive
<1> QED
  BY <1>1 DEF Devices

\* The order of the loop: by key, then by device.
LEMMA LoopOrder ==
  ASSUME NEW d \in Devices, NEW k \in Nat, NEW e \in Devices, NEW l \in Nat
  PROVE  /\ k * DeviceCount + d \in Nat
         /\ l < k => l * DeviceCount + e < k * DeviceCount + d
         /\ k * DeviceCount + d = l * DeviceCount + e => k = l /\ d = e
<1>1. /\ DeviceCount \in Nat /\ d \in Nat /\ e \in Nat /\ d < DeviceCount /\ e < DeviceCount
      /\ k * DeviceCount \in Nat /\ l * DeviceCount \in Nat
  BY Positive DEF Devices
<1>2. l < k => l * DeviceCount + DeviceCount <= k * DeviceCount
  BY <1>1, Times
<1>3. k < l => k * DeviceCount + DeviceCount <= l * DeviceCount
  BY <1>1, Times
<1>4. l < k \/ k < l \/ k = l
  OBVIOUS
<1> QED
  BY <1>1, <1>2, <1>3, <1>4

\* An entry that a key of no device has is a smaller key's of a later device.
LEMMA BeyondRow ==
  ASSUME NEW d \in Devices, NEW k \in Nat, k >= KeyCount, NEW e \in Devices, NEW l \in Keys,
         Down(e, l) = Down(d, k)
  PROVE  l < k
<1>1. KeyCount \in Nat /\ l \in Nat /\ l < KeyCount
  BY Positive DEF Keys
<1> QED
  BY <1>1

\* After i steps of the loop the keys it has come to are up.
Risen(m, i) ==
  /\ m \in States /\ DownIsHeld(m)
  /\ \A e \in Devices, l \in Keys : l * DeviceCount + e < i => ~m.bits[Down(e, l)]

LEMMA LoopStep ==
  ASSUME NEW n \in Nat, NEW m, Risen(m, n)
  PROVE  Risen(Event(m, Release(n % DeviceCount, n \div DeviceCount)), n + 1)
<1>1. PICK d \in Devices, k \in Nat :
        n = k * DeviceCount + d /\ d = n % DeviceCount /\ k = n \div DeviceCount
  BY Quotient
<1>2. m \in States /\ DownIsHeld(m)
  BY DEF Risen
<1>3. \A e \in Devices, l \in Keys :
        l \in Nat /\ l * DeviceCount + e \in Nat /\ (l < k => l * DeviceCount + e < n)
        /\ (n = l * DeviceCount + e => k = l /\ d = e)
  <2>1. \A l \in Keys : l \in Nat
    BY Positive DEF Keys
  <2> QED
    BY <1>1, <2>1, LoopOrder
<1>4. \A e \in Devices, l \in Keys :
        k >= KeyCount /\ Down(e, l) = Down(d, k) => ~m.bits[Down(e, l)]
  BY <1>3, BeyondRow DEF Risen
<1> DEFINE r == Event(m, Release(d, k))
<1>5. /\ r \in States /\ DownIsHeld(r)
      /\ \A e \in Devices, l \in Keys : r.bits[Down(e, l)] => m.bits[Down(e, l)]
      /\ k \in Keys => ~r.bits[Down(d, k)]
  BY <1>2, <1>4, FallKeeps
<1> HIDE DEF r
<1>6. ASSUME NEW e \in Devices, NEW l \in Keys, l * DeviceCount + e < n + 1
      PROVE  ~r.bits[Down(e, l)]
  <2>1. CASE l * DeviceCount + e < n
    BY <1>5, <2>1 DEF Risen
  <2>2. CASE l * DeviceCount + e = n
    BY <1>3, <1>5, <2>2
  <2>3. l * DeviceCount + e \in Nat
    BY <1>3
  <2> QED
    BY <1>6, <2>1, <2>2, <2>3
<1>7. Risen(r, n + 1)
  BY <1>5, <1>6 DEF Risen
<1> QED
  BY <1>1, <1>7 DEF r

LEMMA LoseFocusKeeps ==
  ASSUME Manager \in States, DownIsHeld(Manager), LoseFocus
  PROVE  Manager' \in States /\ DownIsHeld(Manager')
<1> DEFINE es == [n \in 1 .. KeyIds * DeviceCount |->
                    [device |-> (n - 1) % DeviceCount, key |-> (n - 1) \div DeviceCount, down |-> FALSE]]
<1>1. KeyIds * DeviceCount \in Nat
  BY Positive, InputAssumption
<1>2. Len(es) = KeyIds * DeviceCount /\ Len(es) \in Nat
  BY <1>1
<1>3. \A i \in 1 .. Len(es) : es[i] = Release((i - 1) % DeviceCount, (i - 1) \div DeviceCount)
  BY <1>2 DEF Release
<1>4. Events(es)
  BY DEF LoseFocus
<1> HIDE DEF es
<1>5. PICK after : /\ after[0] = Manager
                   /\ \A i \in 1 .. Len(es) : after[i] = Event(after[i - 1], es[i])
                   /\ Becomes(after[Len(es)])
  BY <1>2, <1>4, EventsAre
<1> DEFINE Bad == {i \in 0 .. Len(es) : ~Risen(after[i], i)}
<1>6. Bad = {}
  <2>1. SUFFICES ASSUME Bad # {} PROVE FALSE
    OBVIOUS
  <2>2. Bad \in SUBSET Nat
    OBVIOUS
  <2>3. PICK i \in Bad : \A j \in Bad : i <= j
    <3> HIDE DEF Bad
    <3> QED
      BY <2>1, <2>2, Least
  <2>4. i \in 0 .. Len(es) /\ ~Risen(after[i], i)
    OBVIOUS
  <2>5. Risen(after[0], 0)
    <3>1. \A e \in Devices, l \in Keys : ~(l * DeviceCount + e < 0)
      BY Positive DEF Devices, Keys
    <3> QED
      BY <1>5, <3>1 DEF Risen
  <2>6. i # 0
    BY <2>4, <2>5
  <2>7. i - 1 \in 0 .. Len(es) /\ ~(i <= i - 1) /\ i \in 1 .. Len(es) /\ i - 1 \in Nat /\ (i - 1) + 1 = i
    BY <1>2, <2>4, <2>6
  <2>8. i - 1 \notin Bad
    BY <2>3, <2>7
  <2>9. Risen(after[i - 1], i - 1)
    BY <2>7, <2>8
  <2>10. Risen(Event(after[i - 1], Release((i - 1) % DeviceCount, (i - 1) \div DeviceCount)), (i - 1) + 1)
    BY <2>7, <2>9, LoopStep
  <2>11. after[i] = Event(after[i - 1], Release((i - 1) % DeviceCount, (i - 1) \div DeviceCount))
    BY <1>3, <1>5, <2>7
  <2> QED
    BY <2>4, <2>7, <2>10, <2>11
<1>7. Risen(after[Len(es)], Len(es))
  BY <1>2, <1>6
<1>8. after[Len(es)] \in States /\ DownIsHeld(after[Len(es)])
  BY <1>7 DEF Risen
<1>9. Manager' = after[Len(es)]
  BY <1>5, <1>8, BecomesIs
<1> QED
  BY <1>8, <1>9

----------------------------------------------------------------------------
(* The keys, action by action                                                *)

KeysInv ==
  /\ Manager \in States /\ heldBefore \subseteq Devices \X Keys /\ focusLost \in BOOLEAN
  /\ DownIsHeld(Manager) /\ (focusLost \/ Edges(Manager))

LEMMA NoKeyIsNone == NoKey \in Nat \X Nat /\ NoKey[2] \notin Keys
BY Positive DEF NoKey, Keys

LEMMA ClearKeeps ==
  /\ Clear \in States /\ DownIsHeld(Clear)
  /\ \A d \in Devices, k \in Keys : ~Clear.bits[Pressed(d, k)] /\ ~Clear.bits[Released(d, k)]
<1> DEFINE none == [i \in 0 .. 3 * Row - 1 |-> FALSE]
<1>1. none \in Bits
  BY DEF Bits
<1>2. ASSUME NEW d \in Devices, NEW k \in Keys
      PROVE  ~none[Down(d, k)] /\ ~none[Pressed(d, k)] /\ ~none[Released(d, k)]
  <2>1. k \in 0 .. KeyCount - 1
    BY Positive DEF Keys
  <2>2. /\ Down(d, k) \in 0 .. 3 * Row - 1 /\ Pressed(d, k) \in 0 .. 3 * Row - 1
        /\ Released(d, k) \in 0 .. 3 * Row - 1
    BY <2>1, Apart
  <2> QED
    BY <2>2
<1>3. Clear = [bits |-> none, pressed |-> NoKey, released |-> NoKey, held |-> {}]
  BY DEF Clear
<1> HIDE DEF none
<1>4. Clear \in States
  BY <1>1, <1>3, NoKeyIsNone, StateMade
<1>5. Clear.bits = none /\ Clear.held = {}
  BY <1>3
<1> QED
  BY <1>2, <1>4, <1>5 DEF DownIsHeld

LEMMA InitKeys == InputInit => KeysInv
<1> SUFFICES ASSUME InputInit PROVE KeysInv
  OBVIOUS
<1>1. Manager = Clear
  BY DEF InputInit, Manager, Clear
<1>2. Clear.held = {} /\ Clear.pressed = NoKey /\ Clear.released = NoKey
  BY DEF Clear
<1>3. heldBefore = {} /\ focusLost = FALSE
  BY DEF InputInit
<1>4. Edges(Clear)
  BY <1>2, <1>3, ClearKeeps, NoKeyIsNone DEF Edges
<1> QED
  BY <1>1, <1>3, <1>4, ClearKeeps DEF KeysInv

LEMMA ResetAllKeys == KeysInv /\ ResetAll => KeysInv'
<1> SUFFICES ASSUME KeysInv, ResetAll PROVE KeysInv'
  OBVIOUS
<1>1. Manager' = Clear
  BY ClearKeeps, BecomesIs DEF ResetAll
<1>2. Clear.held = {} /\ Clear.pressed = NoKey /\ Clear.released = NoKey
  BY DEF Clear
<1>3. heldBefore' = {} /\ focusLost' = FALSE
  BY DEF ResetAll
<1>4. Edges(Clear)'
  BY <1>2, <1>3, ClearKeeps, NoKeyIsNone DEF Edges
<1>5. DownIsHeld(Manager)' /\ Edges(Manager)'
  BY <1>1, <1>4, ClearKeeps DEF Edges, DownIsHeld
<1> QED
  BY <1>1, <1>3, <1>5, ClearKeeps DEF KeysInv

LEMMA ResetPressKeys == KeysInv /\ ResetPress => KeysInv'
<1> SUFFICES ASSUME KeysInv, ResetPress PROVE KeysInv'
  OBVIOUS
<1> DEFINE bs == [i \in 0 .. 3 * Row - 1 |-> i < Row /\ bits[i]]
<1>1. bits \in Bits /\ held \subseteq Devices \X Keys /\ Manager.bits = bits /\ Manager.held = held
  BY StateIs DEF KeysInv, Manager
<1>2. bs \in Bits
  BY DEF Bits
<1>3. ASSUME NEW d \in Devices, NEW k \in Keys
      PROVE  (bs[Down(d, k)] <=> bits[Down(d, k)]) /\ ~bs[Pressed(d, k)] /\ ~bs[Released(d, k)]
  <2>1. k \in 0 .. KeyCount - 1
    BY Positive DEF Keys
  <2>2. /\ Down(d, k) \in 0 .. 3 * Row - 1 /\ Pressed(d, k) \in 0 .. 3 * Row - 1
        /\ Released(d, k) \in 0 .. 3 * Row - 1 /\ Down(d, k) < Row
    BY <2>1, Apart
  <2>3. ~(Pressed(d, k) < Row) /\ ~(Released(d, k) < Row)
    <3>1. d * KeyCount \in Nat /\ k \in Nat
      BY Positive DEF Devices, Keys
    <3> QED
      BY <3>1, Positive DEF Pressed, Released, At
  <2> QED
    BY <2>2, <2>3
<1>4. bits' = bs /\ held' = held /\ heldBefore' = held /\ lastPressed' = NoKey /\ lastReleased' = NoKey
      /\ focusLost' = FALSE
  BY <1>1 DEF ResetPress, Bits
<1> HIDE DEF bs
<1>5. Manager' = [bits |-> bs, pressed |-> NoKey, released |-> NoKey, held |-> held]
  BY <1>4 DEF Manager
<1>6. Manager' \in States
  BY <1>1, <1>2, <1>5, NoKeyIsNone, StateMade
<1>7. DownIsHeld(Manager)'
  BY <1>1, <1>3, <1>5 DEF KeysInv, DownIsHeld
<1>8. Edges(Manager)'
  BY <1>3, <1>4, <1>5, NoKeyIsNone DEF Edges
<1> QED
  BY <1>1, <1>4, <1>6, <1>7, <1>8 DEF KeysInv

\* An action that is a sequence of events.
LEMMA EventsKeys ==
  ASSUME KeysInv, NEW es, Len(es) \in Nat, \A i \in 1 .. Len(es) : IsEvent(es[i]),
         Events(es), UNCHANGED <<heldBefore, focusLost>>
  PROVE  KeysInv'
<1>1. Manager' \in States /\ DownIsHeld(Manager') /\ (Edges(Manager) => Edges(Manager'))
  BY EventsKeep DEF KeysInv
<1>2. DownIsHeld(Manager)' /\ (Edges(Manager) => Edges(Manager)')
  BY <1>1 DEF DownIsHeld, Edges
<1> QED
  BY <1>1, <1>2 DEF KeysInv

LEMMA LoseFocusKeys == KeysInv /\ LoseFocus => KeysInv'
<1> SUFFICES ASSUME KeysInv, LoseFocus PROVE KeysInv'
  OBVIOUS
<1>1. Manager' \in States /\ DownIsHeld(Manager')
  BY LoseFocusKeeps DEF KeysInv
<1>2. heldBefore' = heldBefore /\ focusLost' = TRUE
  BY DEF LoseFocus
<1> QED
  BY <1>1, <1>2 DEF KeysInv, DownIsHeld

LEMMA InOrder ==
  ASSUME NEW S, IsFiniteSet(S), NEW s \in Orders(S)
  PROVE  /\ Cardinality(S) \in Nat /\ DOMAIN s = 1 .. Cardinality(S)
         /\ \A i \in 1 .. Cardinality(S) : s[i] \in S
BY FS_CardinalityType DEF Orders

LEMMA KeyEventKeys ==
  ASSUME KeysInv, NEW ident, NEW down \in BOOLEAN, KeyEvent(ident, down)
  PROVE  KeysInv'
<1> DEFINE e == [device |-> 0, key |-> PlatformKey(ident), down |-> down]
<1>1. PlatformKey(ident) \in 1 .. KeyCount
  BY Positive, InputAssumption DEF PlatformKey
<1>2. IsEvent(e)
  BY <1>1, Positive DEF IsEvent, Press, Release
<1>3. Events(<<e>>) /\ UNCHANGED <<heldBefore, focusLost>>
  BY DEF KeyEvent
<1> HIDE DEF e
<1>4. Len(<<e>>) = 1 /\ \A i \in 1 .. 1 : <<e>>[i] = e
  OBVIOUS
<1> QED
  BY <1>2, <1>3, <1>4, EventsKeys

LEMMA PollKeysKeys ==
  ASSUME KeysInv, NEW down, PollKeys(down)
  PROVE  KeysInv'
<1>1. PICK idents \in Orders(DOMAIN KeyOf) :
        Events([i \in DOMAIN idents |->
                  [device |-> 0, key |-> KeyOf[idents[i]], down |-> idents[i] \in down]])
  BY DEF PollKeys
<1> DEFINE N == Cardinality(DOMAIN KeyOf)
           es == [i \in DOMAIN idents |->
                    [device |-> 0, key |-> KeyOf[idents[i]], down |-> idents[i] \in down]]
<1>2. N \in Nat /\ DOMAIN idents = 1 .. N /\ \A i \in 1 .. N : idents[i] \in DOMAIN KeyOf
  BY InOrder, InputAssumption
<1>3. Len(es) = N
  BY <1>2
<1>4. ASSUME NEW i \in 1 .. N PROVE IsEvent(es[i])
  <2>1. es[i] = [device |-> 0, key |-> KeyOf[idents[i]], down |-> idents[i] \in down]
    BY <1>2
  <2>2. KeyOf[idents[i]] \in 1 .. KeyCount
    BY <1>2, Positive, InputAssumption
  <2>3. CASE idents[i] \in down
    <3>1. es[i] = Press(0, KeyOf[idents[i]])
      BY <2>1, <2>3 DEF Press
    <3> QED
      BY <2>2, <3>1, Positive DEF IsEvent
  <2>4. CASE idents[i] \notin down
    <3>1. es[i] = Release(0, KeyOf[idents[i]])
      <4>1. (idents[i] \in down) = FALSE
        BY <2>4
      <4> HIDE DEF es
      <4> QED
        BY <2>1, <4>1 DEF Release
    <3> QED
      BY <2>2, <3>1, Positive DEF IsEvent
  <2> QED
    BY <2>3, <2>4
<1>5. Events(es) /\ UNCHANGED <<heldBefore, focusLost>>
  BY <1>1 DEF PollKeys
<1> HIDE DEF es, N
<1> QED
  BY <1>2, <1>3, <1>4, <1>5, EventsKeys

----------------------------------------------------------------------------
(* The maps and the axes                                                     *)

\* A table has one map, so that what is mapped is in it.
LEMMA MappingIs ==
  ASSUME NEW table, \A m, n \in table : m = n, NEW ident, Mapped(table, ident)
  PROVE  \E m \in table : ident \in DOMAIN m /\ Mapping(table, ident) = m[ident]
<1>1. PICK m \in table : ident \in DOMAIN m
  BY DEF Mapped
<1>2. (CHOOSE n \in table : TRUE) = m
  BY <1>1
<1> QED
  BY <1>1, <1>2 DEF Mapping

LEMMA RemapButtonIs ==
  ASSUME MapsInv, NEW b \in ButtonIds
  PROVE  RemapButton(b) \in 1 .. KeyCount
<1>1. b \in Nat /\ JoyFirst \in Nat /\ JoyFirst > 0 /\ KeyCount \in Nat /\ KeyCount > 0
  BY InputAssumption
<1>2. CASE Mapped(buttonMap, b)
  <2>1. PICK m \in buttonMap : b \in DOMAIN m /\ Mapping(buttonMap, b) = m[b]
    BY <1>2, MappingIs DEF MapsInv
  <2>2. m[b] \in 1 .. KeyCount - 1
    BY <2>1, InputAssumption DEF MapsInv
  <2> QED
    BY <1>1, <1>2, <2>1, <2>2 DEF RemapButton
<1>3. CASE ~Mapped(buttonMap, b)
  BY <1>1, <1>3 DEF RemapButton, DefaultButton
<1> QED
  BY <1>2, <1>3

\* A place that AssignDevice gives is never the default device's.
LEMMA AssignDeviceIs ==
  ASSUME NEW h, AssignDevice(h) # DeviceCount
  PROVE  AssignDevice(h) \in Devices \ {0}
<1> DEFINE places == {d \in Devices \ {0} : devices[d] \in {NoHandle, h}}
<1>1. places # {} /\ AssignDevice(h) = CHOOSE d \in places : \A e \in places : d <= e
  BY DEF AssignDevice
<1>2. places \in SUBSET Nat
  BY DEF Devices
<1>3. \E d \in places : \A e \in places : d <= e
  <2> HIDE DEF places
  <2> QED
    BY <1>1, <1>2, Least
<1>4. AssignDevice(h) \in places
  <2> HIDE DEF places
  <2> QED
    BY <1>1, <1>3
<1> QED
  BY <1>4

LEMMA ReportKeys ==
  ASSUME KeysInv, MapsInv, NEW h, NEW bs \in SUBSET ButtonIds, NEW ident, NEW value,
         Report(h, bs, ident, value)
  PROVE  KeysInv'
<1> DEFINE d == AssignDevice(h)
           pressed == {b \in bs : RemapButton(b) # KeyCount}
<1>1. PICK ids \in Orders(pressed) :
        Events([i \in DOMAIN ids |-> [device |-> d, key |-> RemapButton(ids[i]), down |-> TRUE]])
  BY DEF Report
<1>2. d \in Devices
  BY AssignDeviceIs DEF Report
<1>3. IsFiniteSet(pressed)
  BY FS_Subset, InputAssumption
<1>4. \A b \in pressed : RemapButton(b) \in 1 .. KeyCount
  BY RemapButtonIs
<1>5. UNCHANGED <<heldBefore, focusLost>>
  BY DEF Report
<1> HIDE DEF d, pressed
<1> DEFINE N == Cardinality(pressed)
           es == [i \in DOMAIN ids |-> [device |-> d, key |-> RemapButton(ids[i]), down |-> TRUE]]
<1>6. N \in Nat /\ DOMAIN ids = 1 .. N /\ \A i \in 1 .. N : ids[i] \in pressed
  BY <1>3, InOrder
<1>7. Len(es) = N
  BY <1>6
<1>8. ASSUME NEW i \in 1 .. N PROVE IsEvent(es[i])
  <2>1. es[i] = Press(d, RemapButton(ids[i]))
    BY <1>6 DEF Press
  <2>2. RemapButton(ids[i]) \in 1 .. KeyCount
    BY <1>4, <1>6
  <2> QED
    BY <1>2, <2>1, <2>2 DEF IsEvent
<1>9. Events(es)
  BY <1>1
<1> HIDE DEF es, N
<1> QED
  BY <1>5, <1>6, <1>7, <1>8, <1>9, EventsKeys

LEMMA AddMapsKeep == MapsInv /\ AddMaps => MapsInv'
<1> SUFFICES ASSUME MapsInv, AddMaps PROVE MapsInv'
  OBVIOUS
<1>1. CASE \E m \in ButtonMaps : AddMap(buttonMap, m) /\ UNCHANGED <<axisMap, rangeMap>>
  BY <1>1 DEF AddMap, MapsInv
<1>2. CASE \E m \in AxisMaps : AddMap(axisMap, m) /\ UNCHANGED <<buttonMap, rangeMap>>
  BY <1>2 DEF AddMap, MapsInv
<1>3. CASE \E m \in RangeMaps : AddMap(rangeMap, m) /\ UNCHANGED <<buttonMap, axisMap>>
  BY <1>3 DEF AddMap, MapsInv
<1> QED
  BY <1>1, <1>2, <1>3 DEF AddMaps

LEMMA Divided ==
  ASSUME NEW r \in Nat, r > 0, NEW n \in Nat
  PROVE  n \div r \in Nat /\ (n \div r) * r <= n /\ n - (n \div r) * r < r
OBVIOUS

LEMMA Product ==
  ASSUME NEW a \in Nat, NEW b \in Nat, NEW c \in Nat, a <= b
  PROVE  a * c \in Nat /\ b * c \in Nat /\ a * c <= b * c
<1>1. PICK r \in Nat : b = a + r
  <2>1. b - a \in Nat /\ b = a + (b - a)
    OBVIOUS
  <2> QED
    BY <2>1
<1>2. b * c = a * c + r * c
  BY <1>1
<1>3. r * c \in Nat /\ a * c \in Nat /\ b * c \in Nat
  OBVIOUS
<1> QED
  BY <1>2, <1>3

LEMMA AsIntIs ==
  ASSUME NEW n \in -IntMax .. IntMax
  PROVE  AsInt(n) = n
<1>1. IntMax \in Nat /\ n + IntMax + 1 \in Nat /\ n + IntMax + 1 < 2 * (IntMax + 1)
  BY InputAssumption
<1>2. \A x, w \in Nat : x < w => x % w = x
  OBVIOUS
<1>3. (n + IntMax + 1) % (2 * (IntMax + 1)) = n + IntMax + 1
  BY <1>1, <1>2
<1> QED
  BY <1>1, <1>3 DEF AsInt

\* The stride of a range of r steps: v steps from its low end are in the
\* range of an int, and the rounding is one part in IntMax \div r a step.
LEMMA Stride ==
  ASSUME NEW r \in 1 .. IntMax, NEW v \in 0 .. r
  PROVE  LET pos == v * ((IntMax \div r) * 2) - IntMax
         IN  /\ pos \in -IntMax .. IntMax
             /\ 2 * IntMax * v - (pos + IntMax) * r \in 0 .. 2 * r * v
<1> DEFINE q == IntMax \div r
           c == IntMax - q * r
           vq == v * q
           qr == q * r
           vqr == v * qr
           vr == v * r
           vc == v * c
<1>1. IntMax \in Nat /\ r \in Nat /\ r > 0 /\ v \in Nat /\ v <= r
  BY InputAssumption
<1>2. q \in Nat /\ qr \in Nat /\ qr <= IntMax /\ c \in Nat /\ c < r
  <2>1. q \in Nat /\ q * r <= IntMax /\ IntMax - q * r < r
    BY <1>1, Divided
  <2> HIDE DEF q
  <2>2. q * r \in Nat
    BY <1>1, <2>1
  <2> QED
    BY <1>1, <2>1, <2>2
<1> HIDE DEF q
<1>3. vq \in Nat /\ vq <= qr
  <2>1. v * q <= r * q /\ v * q \in Nat
    BY <1>1, <1>2, Product
  <2>2. r * q = q * r
    BY <1>1, <1>2
  <2> QED
    BY <2>1, <2>2
<1>4. v * (q * 2) - IntMax = 2 * vq - IntMax
  BY <1>1, <1>2
<1>5. 2 * vq - IntMax \in -IntMax .. IntMax
  <2> HIDE DEF vq, qr, c
  <2> QED
    BY <1>1, <1>2, <1>3
<1>6. 2 * IntMax * v - ((2 * vq - IntMax) + IntMax) * r = 2 * vc
  <2>1. ((2 * vq - IntMax) + IntMax) = 2 * vq
    BY <1>1, <1>3
  <2>2. (2 * vq) * r = 2 * vqr
    BY <1>1, <1>2
  <2>3. 2 * IntMax * v = 2 * (IntMax * v)
    BY <1>1
  <2>4. vc = IntMax * v - vqr
    BY <1>1, <1>2
  <2>5. IntMax * v \in Nat /\ vqr \in Nat
    BY <1>1, <1>2
  <2> HIDE DEF vq, vqr, vc
  <2> QED
    BY <2>1, <2>2, <2>3, <2>4, <2>5
<1>7. vc \in Nat /\ vc <= vr /\ vr \in Nat
  <2> HIDE DEF c
  <2>1. c <= r
    BY <1>1, <1>2
  <2>2. c * v \in Nat /\ r * v \in Nat /\ c * v <= r * v
    BY <1>1, <1>2, <2>1, Product
  <2>3. c * v = v * c /\ r * v = v * r
    BY <1>1, <1>2
  <2> QED
    BY <2>2, <2>3
<1>8. 2 * r * v = 2 * vr
  BY <1>1
<1>9. 2 * vc \in 0 .. 2 * vr
  <2> HIDE DEF vc, vr
  <2> QED
    BY <1>7
<1> HIDE DEF vq, vqr, vc, vr, qr, c
<1> QED
  BY <1>4, <1>5, <1>6, <1>8, <1>9 DEF q

LEMMA RemapRangeIs ==
  ASSUME MapsInv, NEW a \in Axes, NEW value \in RawValues
  PROVE  /\ RemapRange(a, value) \in Int
         /\ Mapped(rangeMap, a) => Scaled(a, value, RemapRange(a, value))
<1>1. IntMax \in Nat /\ value \in Int
  BY InputAssumption
<1>2. CASE ~Mapped(rangeMap, a)
  BY <1>1, <1>2 DEF RemapRange
<1>3. CASE Mapped(rangeMap, a)
  <2>1. PICK m \in rangeMap : a \in DOMAIN m /\ Mapping(rangeMap, a) = m[a]
    BY <1>3, MappingIs DEF MapsInv
  <2>2. m \in RangeMaps
    BY <2>1 DEF MapsInv
  <2> DEFINE low == Mapping(rangeMap, a)[1]
             high == Mapping(rangeMap, a)[2]
             r == high - low
             v == value - low
             pos == v * ((IntMax \div r) * 2) - IntMax
  <2>3. low \in Int /\ high \in Int /\ r \in 1 .. IntMax /\ low <= value /\ value <= high
    BY <2>1, <2>2, InputAssumption
  <2>4. r \in 1 .. IntMax /\ v \in 0 .. r
    <3> HIDE DEF low, high
    <3> QED
      BY <1>1, <2>3
  <2>5. RemapRange(a, value) = AsInt(pos)
    BY <1>3 DEF RemapRange
  <2>6. Scaled(a, value, pos) <=>
          pos \in -IntMax .. IntMax /\ 2 * IntMax * v - (pos + IntMax) * r \in 0 .. 2 * r * v
    BY DEF Scaled
  <2>7. pos \in -IntMax .. IntMax /\ 2 * IntMax * v - (pos + IntMax) * r \in 0 .. 2 * r * v
    <3> HIDE DEF r, v
    <3> QED
      BY <2>4, Stride
  <2> HIDE DEF pos, r, v
  <2>8. AsInt(pos) = pos
    BY <2>7, AsIntIs
  <2>9. pos \in Int
    BY <1>1, <2>7
  <2> QED
    BY <2>5, <2>6, <2>7, <2>8, <2>9
<1> QED
  BY <1>2, <1>3

LEMMA InitAxes == InputInit => AxesInv /\ MapsInv
BY Positive DEF InputInit, AxesInv, MapsInv

LEMMA SameAxes == AxesInv /\ UNCHANGED <<axisPos, rawAxis, rangeMap>> => AxesInv'
BY DEF AxesInv, Scaled, Mapped, Mapping

LEMMA ResetAllAxes == AxesInv /\ ResetAll => AxesInv'
BY Positive DEF AxesInv, ResetAll

LEMMA MouseAxes ==
  ASSUME AxesInv, NEW a \in Axes, MouseMove(a, 1)
  PROVE  AxesInv'
BY Positive DEF AxesInv, MouseMove, Scaled, Mapped, Mapping, mapVars

LEMMA AddMapsAxes == AxesInv /\ AddMaps => AxesInv'
<1> SUFFICES ASSUME AxesInv, AddMaps PROVE AxesInv'
  OBVIOUS
<1>1. UNCHANGED <<axisPos, rawAxis>>
  BY DEF AddMaps, managerVars
<1>2. CASE rangeMap' = rangeMap
  BY <1>1, <1>2, SameAxes
<1>3. CASE rangeMap = {}
  <2>1. \A d \in Devices, a \in Axes : \A value \in rawAxis[d][a] : FALSE
    BY <1>3 DEF AxesInv, Mapped
  <2> QED
    BY <1>1, <2>1 DEF AxesInv
<1> QED
  BY <1>2, <1>3 DEF AddMaps, AddMap

LEMMA ReportAxes ==
  ASSUME AxesInv, MapsInv, NEW h, NEW bs, NEW ident, NEW value \in RawValues,
         Report(h, bs, ident, value)
  PROVE  AxesInv'
<1> DEFINE d == AssignDevice(h)
           a == Mapping(axisMap, ident)
<1>1. d \in Devices /\ d # 0 /\ 0 \in Devices
  BY AssignDeviceIs, Positive DEF Report
<1>2. rangeMap' = rangeMap
  BY DEF Report, mapVars
<1>3. CASE ~Mapped(axisMap, ident)
  BY <1>2, <1>3, SameAxes DEF Report
<1>4. CASE Mapped(axisMap, ident)
  <2> DEFINE pos == RemapRange(a, value)
             raw == IF Mapped(rangeMap, a) THEN {value} ELSE {}
  <2>1. axisPos' = [axisPos EXCEPT ![d][a] = pos] /\ rawAxis' = [rawAxis EXCEPT ![d][a] = raw]
    BY <1>4 DEF Report
  <2>2. a \in Axes
    <3>1. PICK m \in axisMap : ident \in DOMAIN m /\ Mapping(axisMap, ident) = m[ident]
      BY <1>4, MappingIs DEF MapsInv
    <3> QED
      BY <3>1, InputAssumption DEF MapsInv
  <2>3. /\ pos \in Int /\ raw \in SUBSET RawValues
        /\ \A w \in raw : Mapped(rangeMap, a) /\ Scaled(a, w, pos)
    <3> HIDE DEF a
    <3> QED
      BY <2>2, RemapRangeIs
  <2> HIDE DEF d, a, pos, raw
  <2>4. /\ axisPos \in [Devices -> [Axes -> Int]]
        /\ rawAxis \in [Devices -> [Axes -> SUBSET RawValues]]
    BY DEF AxesInv
  <2>5. /\ axisPos'[d][a] = pos /\ rawAxis'[d][a] = raw
        /\ \A e \in Devices, b \in Axes : <<e, b>> # <<d, a>> =>
             axisPos'[e][b] = axisPos[e][b] /\ rawAxis'[e][b] = rawAxis[e][b]
    BY <1>1, <2>1, <2>2, <2>4
  <2>6. /\ axisPos' \in [Devices -> [Axes -> Int]]
        /\ rawAxis' \in [Devices -> [Axes -> SUBSET RawValues]]
    BY <1>1, <2>1, <2>2, <2>3, <2>4
  <2>7. \A b \in Axes : rawAxis'[0][b] = {}
    BY <1>1, <2>5 DEF AxesInv
  <2>8. \A e \in Devices, b \in Axes : \A w \in rawAxis'[e][b] :
          Mapped(rangeMap, b) /\ Scaled(b, w, axisPos'[e][b])
    <3>1. ASSUME NEW e \in Devices, NEW b \in Axes, NEW w \in rawAxis'[e][b]
          PROVE  Mapped(rangeMap, b) /\ Scaled(b, w, axisPos'[e][b])
      <4>1. CASE <<e, b>> = <<d, a>>
        BY <2>3, <2>5, <3>1, <4>1
      <4>2. CASE <<e, b>> # <<d, a>>
        BY <2>5, <3>1, <4>2 DEF AxesInv
      <4> QED
        BY <4>1, <4>2
    <3> QED
      BY <3>1
  <2> QED
    BY <1>2, <2>6, <2>7, <2>8 DEF AxesInv, Scaled, Mapped, Mapping
<1> QED
  BY <1>3, <1>4

----------------------------------------------------------------------------
(* The invariant                                                             *)

LEMMA InvParts ==
  /\ InputInv <=> KeysInv /\ AxesInv /\ MapsInv
  /\ InputInv' <=> KeysInv' /\ AxesInv' /\ MapsInv'
BY DEF InputInv, KeysInv

LEMMA SameMaps == MapsInv /\ UNCHANGED mapVars => MapsInv'
BY DEF MapsInv, mapVars

LEMMA SameKeys == KeysInv /\ UNCHANGED <<managerVars, held, heldBefore, focusLost>> => KeysInv'
BY DEF KeysInv, managerVars, Manager, States, Bits, DownIsHeld, Edges

LEMMA NextKeeps == InputInv /\ [InputNext]_inputVars => InputInv'
<1> SUFFICES ASSUME InputInv, [InputNext]_inputVars PROVE InputInv'
  OBVIOUS
<1>1. KeysInv /\ AxesInv /\ MapsInv
  BY InvParts
<1>2. CASE ResetPress
  <2>1. UNCHANGED <<axisPos, rawAxis, rangeMap>> /\ UNCHANGED mapVars
    BY <1>2 DEF ResetPress, mapVars
  <2> QED
    BY <1>1, <1>2, <2>1, ResetPressKeys, SameAxes, SameMaps, InvParts
<1>3. CASE ResetAll
  <2>1. UNCHANGED mapVars
    BY <1>3 DEF ResetAll
  <2> QED
    BY <1>1, <1>3, <2>1, ResetAllKeys, ResetAllAxes, SameMaps, InvParts
<1>4. CASE LoseFocus
  <2>1. UNCHANGED <<axisPos, rawAxis, rangeMap>> /\ UNCHANGED mapVars
    BY <1>4 DEF LoseFocus, mapVars
  <2> QED
    BY <1>1, <1>4, <2>1, LoseFocusKeys, SameAxes, SameMaps, InvParts
<1>5. CASE AddMaps
  <2>1. UNCHANGED <<managerVars, held, heldBefore, focusLost>>
    BY <1>5 DEF AddMaps
  <2> QED
    BY <1>1, <1>5, <2>1, SameKeys, AddMapsAxes, AddMapsKeep, InvParts
<1>6. ASSUME NEW ident \in DOMAIN KeyOf \cup {"unmapped"}, NEW down \in BOOLEAN, KeyEvent(ident, down)
      PROVE  InputInv'
  <2>1. UNCHANGED <<axisPos, rawAxis, rangeMap>> /\ UNCHANGED mapVars
    BY <1>6 DEF KeyEvent, mapVars
  <2> QED
    BY <1>1, <1>6, <2>1, KeyEventKeys, SameAxes, SameMaps, InvParts
<1>7. ASSUME NEW down \in SUBSET DOMAIN KeyOf, PollKeys(down)
      PROVE  InputInv'
  <2>1. UNCHANGED <<axisPos, rawAxis, rangeMap>> /\ UNCHANGED mapVars
    BY <1>7 DEF PollKeys, mapVars
  <2> QED
    BY <1>1, <1>7, <2>1, PollKeysKeys, SameAxes, SameMaps, InvParts
<1>8. ASSUME NEW a \in Axes, MouseMove(a, 1)
      PROVE  InputInv'
  <2>1. UNCHANGED mapVars
    BY <1>8 DEF MouseMove
  <2>2. KeysInv'
    BY <1>1, <1>8 DEF MouseMove, KeysInv, Manager, States, Bits, DownIsHeld, Edges
  <2> QED
    BY <1>1, <1>8, <2>1, <2>2, MouseAxes, SameMaps, InvParts
<1>9. ASSUME NEW h \in Controllers, NEW bs \in SUBSET ButtonIds, NEW i \in AxisIds, NEW v \in RawValues,
             Report(h, bs, i, v)
      PROVE  InputInv'
  <2>1. UNCHANGED mapVars
    BY <1>9 DEF Report
  <2> QED
    BY <1>1, <1>9, <2>1, ReportKeys, ReportAxes, SameMaps, InvParts
<1>10. CASE UNCHANGED inputVars
  <2>1. /\ UNCHANGED <<axisPos, rawAxis, rangeMap>> /\ UNCHANGED mapVars
        /\ UNCHANGED <<managerVars, held, heldBefore, focusLost>>
    BY <1>10 DEF inputVars, managerVars, mapVars
  <2> QED
    BY <1>1, <2>1, SameKeys, SameAxes, SameMaps, InvParts
<1> QED
  BY <1>2, <1>3, <1>4, <1>5, <1>6, <1>7, <1>8, <1>9, <1>10 DEF InputNext

\* The arrays of InputManager say of every key of every device what is held,
\* and, while the focus was kept, what was pressed and released in the frame;
\* the positions of the axes are the scaled values of the controllers.
THEOREM InputInvariant == InputSpec => []InputInv
<1>1. InputInit => InputInv
  BY InitKeys, InitAxes, InvParts
<1>2. InputInv /\ [InputNext]_inputVars => InputInv'
  BY NextKeeps
<1> QED
  BY <1>1, <1>2, PTL DEF InputSpec

LEMMA KeysFollow == KeysInv /\ ~focusLost => EdgesMatchHistory
<1> SUFFICES ASSUME KeysInv, ~focusLost PROVE EdgesMatchHistory
  OBVIOUS
<1>1. /\ bits \in Bits /\ lastPressed \in Nat \X Nat /\ lastReleased \in Nat \X Nat
      /\ Manager.bits = bits /\ Manager.pressed = lastPressed /\ Manager.released = lastReleased
      /\ Manager.held = held
  BY StateIs DEF KeysInv, Manager
<1>2. DownIsHeld(Manager) /\ Edges(Manager)
  BY DEF KeysInv
<1>3. ASSUME NEW d \in Devices, NEW k \in Keys
      PROVE  LET now == <<d, k>> \in held
                 was == <<d, k>> \in heldBefore
             IN  /\ bits[Down(d, k)] = now
                 /\ now /\ ~was => bits[Pressed(d, k)]
                 /\ was /\ ~now => bits[Released(d, k)]
                 /\ now = was => bits[Pressed(d, k)] = bits[Released(d, k)]
  <2>1. k \in 0 .. KeyCount - 1
    BY Positive DEF Keys
  <2>2. /\ bits[Down(d, k)] \in BOOLEAN /\ bits[Pressed(d, k)] \in BOOLEAN
        /\ bits[Released(d, k)] \in BOOLEAN
    BY <1>1, <2>1, Apart DEF Bits
  <2>3. bits[Down(d, k)] <=> <<d, k>> \in held
    BY <1>1, <1>2 DEF DownIsHeld
  <2>4. Edge(bits[Pressed(d, k)], bits[Released(d, k)], <<d, k>> \in held, <<d, k>> \in heldBefore)
    BY <1>1, <1>2 DEF Edges, Edge
  <2> QED
    BY <2>2, <2>3, <2>4 DEF Edge
<1>4. lastPressed[2] \in Keys => WasPressed(lastPressed)
  BY <1>1, <1>2 DEF Edges, WasPressed
<1>5. lastReleased[2] \in Keys => WasReleased(lastReleased)
  BY <1>1, <1>2 DEF Edges, WasReleased
<1> QED
  BY <1>3, <1>4, <1>5 DEF EdgesMatchHistory, IsDown, WasPressed, WasReleased

\* What an application reads of keys and axes in a frame is what the devices
\* did in it, for any number of devices and keys, any maps and any INT_MAX.
THEOREM InputFollowsDevicesHolds == InputSpec => []InputFollowsDevices
<1>1. InputInv => InputFollowsDevices
  <2>1. AxesInv => AxesScaled
    BY DEF AxesInv, AxesScaled, Scaled
  <2>2. KeysInv => focusLost \/ EdgesMatchHistory
    BY KeysFollow
  <2> QED
    BY <2>1, <2>2, InvParts DEF InputFollowsDevices
<1> QED
  BY <1>1, InputInvariant, PTL
====
