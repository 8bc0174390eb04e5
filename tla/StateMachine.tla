---------------------------- MODULE StateMachine -----------------------------
(****************************************************************************)
(* core::util::StateMachine (CORE/UTIL/state_machine.cpp): states are added *)
(* by their owner, transitions are requested from outside or from inside a  *)
(* callback of a state, and take effect at the next update().               *)
(*                                                                          *)
(* A callback that calls requestTransition() changes m_nextStateID in the   *)
(* middle of changeStates(), so what each callback asks for is an input of  *)
(* the step.  The callers honour the ASSERTs of addState, setOwner and      *)
(* requestTransition, and request states of the machine.                    *)
(****************************************************************************)
EXTENDS Naturals, Sequences, FiniteSets

CONSTANTS
    State,         \* the states, named by their ids
    Valid,         \* [State -> SUBSET State]: m_validTransitions
    Requesting,    \* the callbacks in which states request transitions
    None           \* STATE_INVALID; as a request, that there is none

ASSUME NoneAssumption == None \notin State
ASSUME ValidAssumption == Valid \in [State -> SUBSET State]
ASSUME RequestingAssumption == Requesting \subseteq {"onEnter", "onExit", "update"}

VARIABLES
    states,        \* m_states
    owned,         \* the states whose m_pOwner is set
    cur,           \* m_curStateID
    next,          \* m_nextStateID
    entered,       \* history: states that were sent onEnter and not yet onExit
    ran,           \* history: the state whose update() was called last
    lost           \* history: ASSERT(pNext) of changeStates has failed

vars == <<states, owned, cur, next, entered, ran, lost>>

Init ==
    /\ states = <<>> /\ owned = {}
    /\ cur = None /\ next = None
    /\ entered = {} /\ ran = None /\ lost = FALSE

Added == {states[i] : i \in DOMAIN states}

-----------------------------------------------------------------------------
(****************************************************************************)
(* addState; a state that is already there is refused.                      *)
(****************************************************************************)
AddState(s) ==
    /\ s \notin owned
    /\ states' = Append(states, s)
    /\ owned' = owned \cup {s}
    /\ next' = IF cur = None /\ next = None THEN s ELSE next
    /\ UNCHANGED <<cur, entered, ran, lost>>

(****************************************************************************)
(* requestTransition, under its ASSERTs, while c is current.                *)
(****************************************************************************)
MayRequestAny(c, s) == s \in Added

MayRequest(c, s) == s \in Added /\ (c \in Added => s \in Valid[c])

RequestTransition(s) ==
    /\ MayRequest(cur, s)
    /\ next' = s
    /\ UNCHANGED <<states, owned, cur, entered, ran, lost>>

(****************************************************************************)
(* What a callback may ask for while c is current.                          *)
(****************************************************************************)
Asks(callback, c) ==
    {None} \cup IF callback \in Requesting THEN {s \in State : MayRequest(c, s)} ELSE {}

Obey(asked, n) == IF asked = None THEN n ELSE asked

-----------------------------------------------------------------------------
(****************************************************************************)
(* changeStates.  The loop over m_states calls onExit when it comes to the  *)
(* current state, and compares the states before it with the id that was    *)
(* requested before onExit, those after it with the one requested since.    *)
(****************************************************************************)
ChangingFromState == cur # next /\ cur # None

Changing == cur # next

Exited == IF Changing THEN {cur} \cap Added ELSE {}

Before(i) == \E j \in DOMAIN states : i < j /\ states[j] = cur

Matches(i, n) == states[i] # cur /\ states[i] = IF Before(i) THEN next ELSE n

FoundAfterCurrent(n) ==
    LET matching == {i \in DOMAIN states : Matches(i, n) /\ (cur \in Added => Before(i))}
    IN IF matching = {} THEN None ELSE states[CHOOSE i \in matching : TRUE]

Found(n) ==
    LET matching == {i \in DOMAIN states : Matches(i, n)}
    IN IF matching = {} THEN None
       ELSE states[CHOOSE i \in matching : \A j \in matching : j <= i]

(****************************************************************************)
(* m_nextStateID when changeStates returns.                                 *)
(****************************************************************************)
AfterChange(asksExit, asksEnter) ==
    LET n == Obey(asksExit, next)
    IN IF Found(n) = None THEN n ELSE Obey(asksEnter, n)

ChangeStatesKeepingOld(asksExit, asksEnter) ==
    LET found == Found(Obey(asksExit, next))
    IN /\ Changing
       /\ lost' = (lost \/ found = None)
       /\ entered' = entered \cup ({found} \ {None})
       /\ cur' = IF found = None THEN None ELSE AfterChange(asksExit, asksEnter)

ChangeStates(asksExit, asksEnter) ==
    LET found == Found(Obey(asksExit, next))
    IN /\ Changing
       /\ lost' = (lost \/ found = None)
       /\ entered' = (entered \ Exited) \cup ({found} \ {None})
       /\ cur' = IF found = None THEN None ELSE AfterChange(asksExit, asksEnter)

(****************************************************************************)
(* update() of the machine: a change, if one was requested, and update() of *)
(* the state that is then current, which may request the next change.       *)
(****************************************************************************)
RunCurrent(c, n) ==
    /\ ran' = IF c \in Added THEN c ELSE None
    /\ \E u \in Asks("update", c) : next' = IF c \in Added THEN Obey(u, n) ELSE n

UpdateChanging ==
    /\ \E x \in IF Exited = {} THEN {None} ELSE Asks("onExit", cur),
          e \in Asks("onEnter", cur) :
          /\ ChangeStates(x, e)
          /\ RunCurrent(cur', AfterChange(x, e))
    /\ UNCHANGED <<states, owned>>

UpdateStaying ==
    /\ ~ Changing
    /\ RunCurrent(cur, next)
    /\ UNCHANGED <<states, owned, cur, entered, lost>>

Update == UpdateChanging \/ UpdateStaying

(****************************************************************************)
(* term: the ids are left as they are.                                      *)
(****************************************************************************)
Term ==
    /\ states' = <<>>
    /\ entered' = entered \ ({cur} \cap Added)
    /\ ran' = None
    /\ \E x \in Asks("onExit", cur) : next' = IF cur \in Added THEN Obey(x, next) ELSE next
    /\ UNCHANGED <<owned, cur, lost>>

-----------------------------------------------------------------------------
(****************************************************************************)
(* The owner adds states, requests transitions and updates in any order; it *)
(* does not use a machine again after term.                                 *)
(****************************************************************************)
Next ==
    /\ owned = Added
    /\ \/ \E s \in State : AddState(s) \/ RequestTransition(s)
       \/ Update
       \/ Term

(****************************************************************************)
(* The program's loop calls update once per frame (state_machine.h:94).     *)
(****************************************************************************)
Spec == Init /\ [][Next]_vars /\ WF_vars(owned = Added /\ Update)

-----------------------------------------------------------------------------
(****************************************************************************)
(* Types; m_states holds a state at most once.                              *)
(****************************************************************************)
TypeOK ==
    /\ states \in Seq(State)
    /\ \A i, j \in DOMAIN states : states[i] = states[j] => i = j
    /\ owned \subseteq State /\ Added \subseteq owned
    /\ cur \in State \cup {None} /\ next \in State \cup {None}
    /\ entered \subseteq State
    /\ ran \in State \cup {None}
    /\ lost \in BOOLEAN

(****************************************************************************)
(* onEnter and onExit are balanced: the state that was entered and not yet  *)
(* left is the current one, through any chain of requests, and there is     *)
(* none when no state is current.  So update() only reaches a state that    *)
(* was told of it (state_machine.h:40, :45).                                *)
(****************************************************************************)
EnteredIsCurrent == entered = {cur} \cap Added

(****************************************************************************)
(* changeStates always finds the state it changes to: wherever it stands in *)
(* m_states, ASSERT(pNext) (state_machine.cpp:175) holds.                   *)
(****************************************************************************)
NextFound == ~ lost

(****************************************************************************)
(* The machine never moves along a transition that its current state did    *)
(* not name as valid, although the request is checked when it is made and   *)
(* carried out at a later update.                                           *)
(****************************************************************************)
ValidChange == cur' # cur /\ cur \in Added => cur' \in Valid[cur]

MovesAreValid == [][ValidChange]_vars

(****************************************************************************)
(* A requested state becomes current, unless another request replaces it or *)
(* the machine is shut down first; addState requests the first state so     *)
(* that update has one to run (state_machine.cpp:86-87).                    *)
(****************************************************************************)
RequestTaken ==
    \A s \in State : next = s ~> (cur = s \/ next # s \/ states = <<>>)
=============================================================================
