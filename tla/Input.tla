---- MODULE Input ----
(***************************************************************************)
(* Keys and axes (WRAPPERS/OS): the events of a window and the reports of     *)
(* controllers become calls of InputManager, which keeps what is down and     *)
(* what was pressed or released in the frame.                                 *)
(*                                                                           *)
(* The arrays of the manager lie one behind the other, and so do their rows:  *)
(* a key the tables do not know is type_COUNT, the first of the next row.     *)
(* Keys are numbered from 0 as in eKeyMap, where no key is 0.                 *)
(***************************************************************************)
EXTENDS Integers, Sequences, FiniteSets

CONSTANTS DeviceCount, KeyCount, Axes,   \* the enumerations; device 0 is the default
          KeyOf,          \* the keys of platform idents (Platform_RemapKeycode)
          KeyIds,         \* the loop of the lost focus: 255
          JoyFirst,       \* KEY_JOY_0
          Controllers,    \* handles of controllers that send reports
          ButtonIds, AxisIds, RawValues,
          ButtonMaps, AxisMaps, RangeMaps,   \* what applications register
          IntMax,         \* INT_MAX
          NoHandle

\* A registered range is one of the values of an int, and has more than one.
ASSUME InputAssumption ==
  /\ DeviceCount \in Nat \ {0} /\ KeyCount \in Nat \ {0} /\ IntMax \in Nat \ {0}
  /\ IsFiniteSet(DOMAIN KeyOf) /\ \A ident \in DOMAIN KeyOf : KeyOf[ident] \in 1 .. KeyCount - 1
  /\ KeyIds \in Nat
  /\ JoyFirst \in Nat \ {0}
  /\ IsFiniteSet(ButtonIds) /\ ButtonIds \subseteq Nat
  /\ \A m \in ButtonMaps : \A b \in DOMAIN m : m[b] \in 1 .. KeyCount - 1
  /\ \A m \in AxisMaps : \A i \in DOMAIN m : m[i] \in Axes
  /\ RawValues \subseteq Int
  /\ \A m \in RangeMaps : \A a \in DOMAIN m :
       /\ m[a] \in Int \X Int /\ m[a][2] - m[a][1] \in 1 .. IntMax
       /\ \A value \in RawValues : m[a][1] <= value /\ value <= m[a][2]

VARIABLES bits,         \* m_keysdown, m_keyspressed, m_keysreleased
          axisPos,      \* m_axispos
          lastPressed, lastReleased,   \* <<device, key>> of the last edges
          devices,      \* m_inputDevices
          buttonMap, axisMap, rangeMap,   \* the tables of the remapping, {} before they are added
          held, heldBefore,   \* keys down now, and at the last reset (history)
          rawAxis,      \* what the controllers sent (history)
          focusLost     \* the focus was lost in this frame (history)

managerVars == <<bits, axisPos, lastPressed, lastReleased>>
mapVars == <<buttonMap, axisMap, rangeMap>>
inputVars == <<managerVars, devices, mapVars, held, heldBefore, rawAxis, focusLost>>

Devices == 0 .. DeviceCount - 1
Keys == 1 .. KeyCount - 1
Row == DeviceCount * KeyCount

----------------------------------------------------------------------------
(* InputManager *)

\* Where device's entry for a key is in one of the three arrays.
At(array, d, k) == array * Row + d * KeyCount + k
Down(d, k) == At(0, d, k)
Pressed(d, k) == At(1, d, k)
Released(d, k) == At(2, d, k)

NoKey == <<DeviceCount, KeyCount>>

Clear == [bits |-> [i \in 0 .. 3 * Row - 1 |-> FALSE], pressed |-> NoKey, released |-> NoKey,
          held |-> {}]

\* A bit behind the arrays is in m_axispos, where it makes no difference that
\* is modelled.
Set(bs, i, v) == IF i \in DOMAIN bs THEN [bs EXCEPT ![i] = v] ELSE bs

\* updateKey: an event of a key that is down already is no press,
\* which the bug forgets.
NeverRepeats(m, d, k, down) == FALSE
Repeats(m, d, k, down) == m.bits[Down(d, k)] = down

UpdateKey(m, d, k, down) ==
  IF Repeats(m, d, k, down) THEN m
  ELSE IF down
  THEN [m EXCEPT !.bits = Set(Set(@, Pressed(d, k), TRUE), Down(d, k), TRUE), !.pressed = <<d, k>>]
  ELSE [m EXCEPT !.bits = Set(Set(@, Released(d, k), TRUE), Down(d, k), FALSE), !.released = <<d, k>>]

Manager == [bits |-> bits, pressed |-> lastPressed, released |-> lastReleased, held |-> held]

Becomes(m) ==
  bits' = m.bits /\ lastPressed' = m.pressed /\ lastReleased' = m.released /\ held' = m.held

\* An event; a key that is none is not among those held.
Event(m, e) ==
  [UpdateKey(m, e.device, e.key, e.down) EXCEPT
     !.held = IF e.key \notin Keys THEN @
              ELSE IF e.down THEN @ \cup {<<e.device, e.key>>} ELSE @ \ {<<e.device, e.key>>}]

\* A sequence of events.
Events(es) ==
  LET after[i \in 0 .. Len(es)] == IF i = 0 THEN Manager ELSE Event(after[i - 1], es[i])
  IN  Becomes(after[Len(es)])

\* The orders in which the members of S can come.
Orders(S) == {s \in [1 .. Cardinality(S) -> S] : \A x \in S : \E i \in DOMAIN s : s[i] = x}

InputInit ==
  /\ bits = Clear.bits /\ lastPressed = NoKey /\ lastReleased = NoKey
  /\ axisPos = [d \in Devices |-> [a \in Axes |-> 0]]
  /\ devices = [d \in Devices |-> NoHandle]
  /\ buttonMap = {} /\ axisMap = {} /\ rangeMap = {}
  /\ held = {} /\ heldBefore = {} /\ focusLost = FALSE
  /\ rawAxis = [d \in Devices |-> [a \in Axes |-> {}]]

\* resetAll at the start, resetPress at the end of a frame.
ResetPress ==
  /\ bits' = [i \in DOMAIN bits |-> i < Row /\ bits[i]]
  /\ lastPressed' = NoKey /\ lastReleased' = NoKey
  /\ heldBefore' = held /\ focusLost' = FALSE
  /\ UNCHANGED <<axisPos, devices, mapVars, held, rawAxis>>

ResetAll ==
  /\ Becomes(Clear)
  /\ axisPos' = [d \in Devices |-> [a \in Axes |-> 0]]
  /\ rawAxis' = [d \in Devices |-> [a \in Axes |-> {}]]
  /\ heldBefore' = {} /\ focusLost' = FALSE
  /\ UNCHANGED <<devices, mapVars>>

----------------------------------------------------------------------------
(* The window *)

PlatformKey(ident) == IF ident \in DOMAIN KeyOf THEN KeyOf[ident] ELSE KeyCount

\* KeyPress, ButtonPress and their releases (framestep on Linux), and the
\* keyboards of raw input: also a key of no mapping is reported.
KeyEvent(ident, down) ==
  /\ Events(<<[device |-> 0, key |-> PlatformKey(ident), down |-> down]>>)
  /\ UNCHANGED <<axisPos, devices, mapVars, heldBefore, rawAxis, focusLost>>

\* UpdateKeyStates (framestep on Windows): every key that has a mapping.
PollKeys(down) ==
  /\ \E idents \in Orders(DOMAIN KeyOf) :
       Events([i \in DOMAIN idents |->
                 [device |-> 0, key |-> KeyOf[idents[i]], down |-> idents[i] \in down]])
  /\ UNCHANGED <<axisPos, devices, mapVars, heldBefore, rawAxis, focusLost>>

\* WM_KILLFOCUS: "All keys get a 'release' message", and KeyIds is more than
\* there are keys.
LoseFocus ==
  /\ Events([n \in 1 .. KeyIds * DeviceCount |->
               [device |-> (n - 1) % DeviceCount, key |-> (n - 1) \div DeviceCount, down |-> FALSE]])
  /\ focusLost' = TRUE
  /\ UNCHANGED <<axisPos, devices, mapVars, heldBefore, rawAxis>>

\* MotionNotify, WM_MOUSEMOVE
MouseMove(a, value) ==
  /\ axisPos' = [axisPos EXCEPT ![0][a] = value]
  /\ UNCHANGED <<bits, lastPressed, lastReleased, devices, mapVars, held, heldBefore, rawAxis,
                 focusLost>>

----------------------------------------------------------------------------
(* Controllers: one product, so that a table is a set of at most one map     *)

\* A map of a product is added once.
AddMap(table, map) == table = {} /\ table' = {map}

AddMaps ==
  /\ \/ \E m \in ButtonMaps : AddMap(buttonMap, m) /\ UNCHANGED <<axisMap, rangeMap>>
     \/ \E m \in AxisMaps : AddMap(axisMap, m) /\ UNCHANGED <<buttonMap, rangeMap>>
     \/ \E m \in RangeMaps : AddMap(rangeMap, m) /\ UNCHANGED <<buttonMap, axisMap>>
  /\ UNCHANGED <<managerVars, devices, held, heldBefore, rawAxis, focusLost>>

Mapped(table, ident) == \E m \in table : ident \in DOMAIN m
Mapping(table, ident) == (CHOOSE m \in table : TRUE)[ident]

DefaultButton(b) == IF JoyFirst + b < KeyCount THEN JoyFirst + b ELSE KeyCount

RemapButton(b) == IF Mapped(buttonMap, b) THEN Mapping(buttonMap, b) ELSE DefaultButton(b)

\* The value of n in an int; a long of 32 bits overflows on the way and, with
\* wrapping, ends the same.
AsInt(n) == ((n + IntMax + 1) % (2 * (IntMax + 1))) - (IntMax + 1)

\* Platform_RemapControllerAxisRange
RemapRange(a, value) ==
  LET range == Mapping(rangeMap, a)[2] - Mapping(rangeMap, a)[1]
      stride == (IntMax \div range) * 2
  IN  IF ~Mapped(rangeMap, a) THEN value
      ELSE AsInt((value - Mapping(rangeMap, a)[1]) * stride - IntMax)

\* AssignDevice: the first place that is free or has this handle; no place is
\* ever free again.
AssignDevice(handle) ==
  LET places == {d \in Devices \ {0} : devices[d] \in {NoHandle, handle}}
  IN  IF places = {} THEN DeviceCount ELSE CHOOSE d \in places : \A e \in places : d <= e

\* ParseRawInputHID: a report has the buttons that are down, and a value of
\* every axis; a button that is up is not reported.
Report(handle, buttons, ident, value) ==
  LET d == AssignDevice(handle)
      pressed == {b \in buttons : RemapButton(b) # KeyCount}
  IN  /\ d # DeviceCount
      /\ devices' = [devices EXCEPT ![d] = handle]
      /\ \E ids \in Orders(pressed) :
           Events([i \in DOMAIN ids |-> [device |-> d, key |-> RemapButton(ids[i]), down |-> TRUE]])
      /\ IF Mapped(axisMap, ident)
         THEN LET a == Mapping(axisMap, ident)
              IN  /\ axisPos' = [axisPos EXCEPT ![d][a] = RemapRange(a, value)]
                  /\ rawAxis' = [rawAxis EXCEPT ![d][a] = IF Mapped(rangeMap, a) THEN {value} ELSE {}]
         ELSE UNCHANGED <<axisPos, rawAxis>>
      /\ UNCHANGED <<mapVars, heldBefore, focusLost>>

InputNext ==
  \/ ResetPress \/ ResetAll \/ LoseFocus \/ AddMaps
  \/ \E ident \in DOMAIN KeyOf \cup {"unmapped"}, down \in BOOLEAN : KeyEvent(ident, down)
  \/ \E down \in SUBSET DOMAIN KeyOf : PollKeys(down)
  \/ \E a \in Axes : MouseMove(a, 1)
  \/ \E h \in Controllers, bs \in SUBSET ButtonIds, i \in AxisIds, v \in RawValues : Report(h, bs, i, v)

----------------------------------------------------------------------------
IsDown(key) == bits[Down(key[1], key[2])]
WasPressed(key) == bits[Pressed(key[1], key[2])]
WasReleased(key) == bits[Released(key[1], key[2])]

\* A key that went from up to down in the frame is pressed, one that went from
\* down to up released, and one that is where it was is both or neither; the
\* last key pressed is one of those pressed.
EdgesMatchHistory ==
  /\ \A key \in (Devices \X Keys) :
       LET now == key \in held
           was == key \in heldBefore
       IN  /\ IsDown(key) = now
           /\ now /\ ~was => WasPressed(key)
           /\ was /\ ~now => WasReleased(key)
           /\ now = was => WasPressed(key) = WasReleased(key)
  /\ lastPressed[2] \in Keys => WasPressed(lastPressed)
  /\ lastReleased[2] \in Keys => WasReleased(lastReleased)

\* A controller's axis is in "the range [-INT_MAX, INT_MAX]" (raw_input.h), at
\* its place up to the rounding of the stride.
AxesScaled ==
  \A d \in Devices, a \in Axes : \A value \in rawAxis[d][a] :
    LET low == Mapping(rangeMap, a)[1]
        range == Mapping(rangeMap, a)[2] - low
        error == 2 * IntMax * (value - low) - (axisPos[d][a] + IntMax) * range
    IN  /\ axisPos[d][a] \in -IntMax .. IntMax
        /\ error \in 0 .. 2 * range * (value - low)

\* What the application reads in a frame is what the devices did in it, unless
\* the focus was lost, whose loop clears edges beyond its own row.
InputFollowsDevices == (focusLost \/ EdgesMatchHistory) /\ AxesScaled
====
