----------------------- MODULE MCAuxUserAuthenticator -----------------------
(***************************************************************************)
(* Model-checking instance of AuxUserAuthenticator: two usernames (so the  *)
(* first-user admin rule is tested against a second user) and two tokens   *)
(* (so a second device of a username needs a grant).                       *)
(***************************************************************************)
EXTENDS AuxUserAuthenticator

CONSTANTS u1, u2, k1, k2

MCUsers == {u1, u2}
MCTokens == {k1, k2}

=============================================================================
