------------------------- MODULE StateMachine_proofs -------------------------
(****************************************************************************)
(* Theorems about StateMachine: with requests made from outside and from    *)
(* update(), and none from onEnter and onExit, enter and exit are balanced, *)
(* the requested state is always found, and every move is a valid one.      *)
(****************************************************************************)
EXTENDS StateMachine, TLAPS

(****************************************************************************)
(* No callback of a change requests another one.                            *)
(****************************************************************************)
QuietChanges == Requesting \subseteq {"update"}

(****************************************************************************)
(* While the machine is in use, a state has been requested as soon as there *)
(* is one to request, and a request that is pending was valid when it was   *)
(* made and still is.                                                       *)
(****************************************************************************)
Pending ==
    owned = Added =>
        /\ cur \in Added \cup {None}
        /\ IF Added = {} THEN cur = None /\ next = None ELSE next \in Added
        /\ Changing /\ cur \in Added => next \in Valid[cur]

Balanced == TypeOK /\ EnteredIsCurrent /\ NextFound /\ Pending

LEMMA QuietAsks ==
    ASSUME QuietChanges, NEW c
    PROVE  Asks("onExit", c) = {None} /\ Asks("onEnter", c) = {None}
  BY DEF QuietChanges, Asks

(****************************************************************************)
(* What update() asks for, if anything, is a state of the machine, and a    *)
(* valid move from its current state.                                       *)
(****************************************************************************)
LEMMA UpdateAsks ==
    ASSUME NEW c, NEW u \in Asks("update", c), u # None
    PROVE  u \in State /\ u \in Added /\ (c \in Added => u \in Valid[c])
  BY DEF Asks, MayRequest

(****************************************************************************)
(* A state that stands in m_states and is not the current one is found,     *)
(* whether it stands before or after the current one.                       *)
(****************************************************************************)
LEMMA FoundIsNext ==
    ASSUME TypeOK, Changing, next \in Added
    PROVE  Found(next) = next
<1> DEFINE matching == {i \in DOMAIN states : Matches(i, next)}
<1>1. PICK k \in DOMAIN states : states[k] = next
  BY DEF Added
<1>2. k \in matching
  BY <1>1 DEF Matches, Changing
<1>3. \A i \in matching : i = k
  BY <1>1 DEF Matches, TypeOK
<1>4. \A j \in matching : j <= k
  <2>1. k \in Nat
    BY <1>1 DEF TypeOK
  <2> QED
    BY <1>3, <2>1
<1>5. (CHOOSE i \in matching : \A j \in matching : j <= i) = k
  BY <1>2, <1>3, <1>4
<1> QED
  BY <1>1, <1>2, <1>5 DEF Found

LEMMA BalancedInit == Init => Balanced
<1> SUFFICES ASSUME Init PROVE Balanced
  OBVIOUS
<1>1. Added = {}
  BY DEF Init, Added
<1>2. states \in Seq(State) /\ DOMAIN states = {}
  BY DEF Init
<1>3. TypeOK
  BY <1>1, <1>2 DEF Init, TypeOK
<1> QED
  BY <1>1, <1>3, NoneAssumption DEF Init, Balanced, EnteredIsCurrent, NextFound, Pending, Changing

(****************************************************************************)
(* addState: the new state joins the others; it is requested only if it is  *)
(* the first.                                                               *)
(****************************************************************************)
LEMMA AddStateBalanced ==
    ASSUME Balanced, owned = Added, NEW s \in State, AddState(s)
    PROVE  Balanced'
<1> USE DEF Balanced
<1>1. /\ states' = Append(states, s) /\ states \in Seq(State)
      /\ s \notin Added /\ owned' = owned \cup {s}
      /\ UNCHANGED <<cur, entered, ran, lost>>
      /\ next' = IF cur = None /\ next = None THEN s ELSE next
  BY DEF AddState, TypeOK
<1>2. Added' = Added \cup {s}
  <2>1. DOMAIN states' = DOMAIN states \cup {Len(states) + 1}
    BY <1>1
  <2>2. /\ \A i \in DOMAIN states : states'[i] = states[i]
        /\ states'[Len(states) + 1] = s
    BY <1>1
  <2> QED
    BY <2>1, <2>2 DEF Added
<1>3. cur \in Added \cup {None} /\ cur # s
  BY <1>1, NoneAssumption DEF Pending
<1>4. TypeOK'
  <2>1. \A i, j \in DOMAIN states' : states'[i] = states'[j] => i = j
    BY <1>1 DEF TypeOK, Added
  <2>2. states' \in Seq(State)
    BY <1>1
  <2> QED
    BY <1>1, <1>2, <2>1, <2>2 DEF TypeOK
<1>5. EnteredIsCurrent'
  BY <1>1, <1>2, <1>3 DEF EnteredIsCurrent
<1>6. next' \in Added'
  BY <1>1, <1>2, NoneAssumption DEF Pending
<1>7. cur \in Added => next' = next
  <2>1. cur \in Added => cur # None
    BY NoneAssumption DEF TypeOK
  <2> QED
    BY <1>1, <2>1
<1>8. Pending'
  <2>1. Changing' /\ cur' \in Added' => next' \in Valid[cur']
    BY <1>1, <1>2, <1>3, <1>7 DEF Pending, Changing
  <2> QED
    BY <1>1, <1>2, <1>3, <1>6, <2>1 DEF Pending
<1> QED
  BY <1>1, <1>4, <1>5, <1>8 DEF NextFound

LEMMA RequestTransitionBalanced ==
    ASSUME Balanced, owned = Added, NEW s \in State, RequestTransition(s)
    PROVE  Balanced'
<1> USE DEF Balanced
<1>1. /\ s \in Added /\ (cur \in Added => s \in Valid[cur])
      /\ next' = s /\ Added' = Added
      /\ UNCHANGED <<states, owned, cur, entered, ran, lost>>
  BY DEF RequestTransition, MayRequest, Added
<1>2. TypeOK'
  BY <1>1 DEF TypeOK
<1>3. Pending'
  BY <1>1 DEF Pending, Changing
<1> QED
  BY <1>1, <1>2, <1>3 DEF EnteredIsCurrent, NextFound

(****************************************************************************)
(* A change: the current state is left and the requested one entered.       *)
(****************************************************************************)
LEMMA ChangeEffect ==
    ASSUME QuietChanges, Balanced, owned = Added, UpdateChanging
    PROVE  /\ Changing /\ next \in Added
           /\ cur' = next /\ entered' = {next} /\ lost' = lost
           /\ RunCurrent(next, next)
           /\ UNCHANGED <<states, owned>>
<1> USE DEF Balanced
<1>1. PICK x \in {None}, e \in {None} :
          ChangeStates(x, e) /\ RunCurrent(cur', AfterChange(x, e))
  BY QuietAsks DEF UpdateChanging
<1>2. ChangeStates(None, None) /\ RunCurrent(cur', AfterChange(None, None))
  BY <1>1
<1>3. Changing
  BY <1>2 DEF ChangeStates
<1>4. next \in Added
  BY <1>3 DEF Pending, Changing
<1>5. Found(next) = next /\ next # None
  BY <1>3, <1>4, FoundIsNext, NoneAssumption DEF TypeOK
<1>6. AfterChange(None, None) = next
  BY <1>5 DEF AfterChange, Obey
<1>7. cur' = next /\ lost' = (lost \/ FALSE) /\ entered' = (entered \ Exited) \cup {next}
  BY <1>2, <1>5, <1>6 DEF ChangeStates, Obey
<1>8. entered \ Exited = {}
  BY <1>3 DEF EnteredIsCurrent, Exited
<1>9. lost \in BOOLEAN
  BY DEF TypeOK
<1> QED
  BY <1>2, <1>3, <1>4, <1>6, <1>7, <1>8, <1>9 DEF UpdateChanging

(****************************************************************************)
(* update() of the current state c, if there is one, may request another.   *)
(****************************************************************************)
LEMMA RunEffect ==
    ASSUME TypeOK, NEW c \in State \cup {None}, NEW n \in State \cup {None}, RunCurrent(c, n)
    PROVE  /\ ran' \in State \cup {None}
           /\ \/ next' = n
              \/ c \in Added /\ next' \in State \cap Added \cap Valid[c]
<1>1. PICK u \in Asks("update", c) : next' = IF c \in Added THEN Obey(u, n) ELSE n
  BY DEF RunCurrent
<1>2. u = None \/ (u \in State /\ u \in Added /\ (c \in Added => u \in Valid[c]))
  BY UpdateAsks
<1>3. ran' \in State \cup {None}
  BY DEF RunCurrent
<1> QED
  BY <1>1, <1>2, <1>3 DEF Obey

LEMMA UpdateBalanced ==
    ASSUME QuietChanges, Balanced, owned = Added, Update
    PROVE  Balanced'
<1> USE DEF Balanced
<1>1. CASE UpdateChanging
  <2>1. /\ next \in Added /\ cur' = next /\ entered' = {next} /\ lost' = lost
        /\ RunCurrent(next, next) /\ UNCHANGED <<states, owned>>
    BY <1>1, ChangeEffect
  <2>2. Added' = Added
    BY <2>1 DEF Added
  <2>3. /\ ran' \in State \cup {None}
        /\ next' = next \/ next' \in State \cap Added \cap Valid[next]
    BY <2>1, RunEffect DEF TypeOK
  <2>4. TypeOK'
    BY <2>1, <2>2, <2>3 DEF TypeOK
  <2>5. EnteredIsCurrent' /\ NextFound'
    BY <2>1, <2>2 DEF EnteredIsCurrent, NextFound
  <2>6. Pending'
    BY <2>1, <2>2, <2>3 DEF Pending, Changing
  <2> QED
    BY <2>4, <2>5, <2>6
<1>2. CASE UpdateStaying
  <2>1. /\ cur = next /\ RunCurrent(cur, next)
        /\ UNCHANGED <<states, owned, cur, entered, lost>> /\ Added' = Added
    BY <1>2 DEF UpdateStaying, Changing, Added
  <2>2. /\ ran' \in State \cup {None}
        /\ next' = next \/ (cur \in Added /\ next' \in State \cap Added \cap Valid[cur])
    BY <2>1, RunEffect DEF TypeOK
  <2>3. TypeOK'
    BY <2>1, <2>2 DEF TypeOK
  <2>4. Pending'
    BY <2>1, <2>2 DEF Pending, Changing
  <2> QED
    BY <2>1, <2>3, <2>4 DEF EnteredIsCurrent, NextFound
<1> QED
  BY <1>1, <1>2 DEF Update

(****************************************************************************)
(* term: the current state is left.  What stays pending is never looked at. *)
(****************************************************************************)
LEMMA TermBalanced ==
    ASSUME QuietChanges, Balanced, owned = Added, Term
    PROVE  Balanced'
<1> USE DEF Balanced
<1>1. /\ states' = <<>> /\ entered' = entered \ ({cur} \cap Added) /\ ran' = None
      /\ next' = next /\ UNCHANGED <<owned, cur, lost>>
  BY QuietAsks DEF Term, Obey
<1>2. Added' = {} /\ entered' = {}
  BY <1>1 DEF Added, EnteredIsCurrent
<1>3. TypeOK'
  BY <1>1, <1>2 DEF TypeOK
<1>4. Pending'
  BY <1>1, <1>2 DEF Pending, Changing
<1> QED
  BY <1>1, <1>2, <1>3, <1>4 DEF EnteredIsCurrent, NextFound

LEMMA BalancedStep == ASSUME QuietChanges PROVE Balanced /\ [Next]_vars => Balanced'
<1> SUFFICES ASSUME Balanced, [Next]_vars PROVE Balanced'
  OBVIOUS
<1>1. ASSUME owned = Added, NEW s \in State, AddState(s) PROVE Balanced'
  BY <1>1, AddStateBalanced
<1>2. ASSUME owned = Added, NEW s \in State, RequestTransition(s) PROVE Balanced'
  BY <1>2, RequestTransitionBalanced
<1>3. CASE owned = Added /\ Update
  BY <1>3, UpdateBalanced
<1>4. CASE owned = Added /\ Term
  BY <1>4, TermBalanced
<1>5. CASE UNCHANGED vars
  BY <1>5 DEF vars, Balanced, TypeOK, EnteredIsCurrent, NextFound, Pending, Changing, Added
<1> QED
  BY <1>1, <1>2, <1>3, <1>4, <1>5 DEF Next

LEMMA BalancedInvariant == ASSUME QuietChanges PROVE Spec => []Balanced
<1>1. Balanced /\ [Next]_vars => Balanced'
  BY BalancedStep
<1> QED
  BY <1>1, BalancedInit, PTL DEF Spec

(****************************************************************************)
(* Types: in particular no state is twice in m_states.                      *)
(****************************************************************************)
THEOREM TypeCorrect == ASSUME QuietChanges PROVE Spec => []TypeOK
  BY BalancedInvariant, PTL DEF Balanced

(****************************************************************************)
(* onEnter and onExit are balanced, for any states and transitions, as long *)
(* as neither of the two requests a transition itself.                      *)
(****************************************************************************)
THEOREM EnteredIsCurrentHolds == ASSUME QuietChanges PROVE Spec => []EnteredIsCurrent
  BY BalancedInvariant, PTL DEF Balanced

(****************************************************************************)
(* ASSERT(pNext) of changeStates holds.                                     *)
(****************************************************************************)
THEOREM NextFoundHolds == ASSUME QuietChanges PROVE Spec => []NextFound
  BY BalancedInvariant, PTL DEF Balanced

(****************************************************************************)
(* Every move is along a transition that the state it leaves has named.     *)
(****************************************************************************)
THEOREM MovesAreValidHolds == ASSUME QuietChanges PROVE Spec => MovesAreValid
<1>1. Balanced /\ [Next]_vars => [ValidChange]_vars
  <2> SUFFICES ASSUME Balanced, [Next]_vars, cur' # cur, cur \in Added
               PROVE  cur' \in Valid[cur]
    BY DEF ValidChange
  <2>1. owned = Added /\ UpdateChanging
    BY DEF Next, Update, UpdateStaying, AddState, RequestTransition, Term, vars
  <2>2. Changing /\ cur' = next
    BY <2>1, ChangeEffect
  <2> QED
    BY <2>1, <2>2 DEF Balanced, Pending
<1> QED
  BY <1>1, BalancedInvariant, PTL DEF Spec, MovesAreValid
=============================================================================
