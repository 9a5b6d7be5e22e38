------------------------------ MODULE MCSessions ------------------------------
(* Instances of Sessions for TLC. *)
EXTENDS SessionPromises, TLC

CONSTANTS b1, b2, t1, t2, alice, bob

\* A browser each, or one browser with two tabs.
OneTabEach == t1 :> b1 @@ t2 :> b2
TwoTabs    == t1 :> b1 @@ t2 :> b1
OneTab == t1 :> b1

=============================================================================
