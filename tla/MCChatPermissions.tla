------------------------- MODULE MCChatPermissions -------------------------
(* Instances of ChatPermissions for TLC. *)
EXTENDS ChatPermissions, TLC

CONSTANTS owen, mia, joe, a1, a2, a3, a4, members, admins, custom, j1, j2

\* joe may get a second association.
JoeTwice == a1 :> owen @@ a2 :> mia @@ a3 :> joe @@ a4 :> joe

\* mia may come back after leaving, with a new association.
MiaTwice == a1 :> owen @@ a2 :> mia @@ a3 :> joe @@ a4 :> mia

OneEach == a1 :> owen @@ a2 :> mia @@ a3 :> joe

MapValues ==
  {{"SEND_MESSAGES", "MANAGE_RANKS"}, {"TRUSTED", "ADMIN"}, {}}

GrantValues ==
  {{"SEND_MESSAGES", "MANAGE_RANKS"}, {"TRUSTED", "ADMIN"}}

OrderValues ==
  {<<admins, members>>, <<members, admins>>, <<admins, members, custom>>}
============================================================================
