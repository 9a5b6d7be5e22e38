----------------------------- MODULE MCInvites -----------------------------
(***************************************************************************)
(* Small instances of Invites for TLC.                                     *)
(***************************************************************************)
EXTENDS Invites, TLC

Interchangeable ==
  Permutations(Users) \cup Permutations(InviteIDs) \cup Permutations(Workers)

=============================================================================
