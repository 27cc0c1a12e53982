------------------------------ MODULE Friendship ------------------------------
(***************************************************************************)
(* What a friend list promises: a user is shown as somebody's friend only  *)
(* after both have, each by a request of their own, asked for it or agreed *)
(* to it.  Who is shown may disappear at any time, one side at a time.     *)
(***************************************************************************)
CONSTANT Users

VARIABLES
  willing,  \* <<u, v>> : u has asked v, or agreed to v's request
  shown     \* <<u, v>> : v is on u's list of friends

Init == willing = {} /\ shown = {}

Declare(u, v) == willing' = willing \cup {<<u, v>>} /\ UNCHANGED shown

Show(u, v) ==
  /\ <<u, v>> \in willing /\ <<v, u>> \in willing
  /\ shown' = shown \cup {<<u, v>>}
  /\ UNCHANGED willing

Hide(u, v) == shown' = shown \ {<<u, v>>} /\ UNCHANGED willing

Next == \E u, v \in Users : u # v /\ (Declare(u, v) \/ Show(u, v) \/ Hide(u, v))

Spec == Init /\ [][Next]_<<willing, shown>>
==============================================================================
