----------------------------- MODULE Admission -----------------------------
(***************************************************************************)
(* Who gets into a household, and how: the promise that the invite         *)
(* handlers keep however their statements interleave, fail or are cut off  *)
(* by a restart.  An invite is issued once.  It is then spent on one       *)
(* person, at once and together with all that the person gets for it, or   *)
(* withdrawn.  Nobody gets in otherwise, the host excepted.                *)
(***************************************************************************)
EXTENDS Integers, FiniteSets

CONSTANTS Invites,     \* every invite that can ever be issued
          Names,       \* the names people may go by
          NoPlace,     \* the place of an invite that only lets a person in
          Host         \* the one who needs no invite

VARIABLES
  people,      \* those who are in
  called,      \* the pairs of a person and the name the person goes by
  place,       \* the chore lists
  member,      \* the pairs of a place and a person who belongs there
  issued,      \* the invites that were issued, ever
  open         \* the pairs of an invite that can be spent and the place it is for

admission == <<people, called, place, member, issued, open>>

Init ==
  /\ people = {} /\ called = {} /\ place = {} /\ member = {}
  /\ issued = {} /\ open = {}

HostArrives ==
  /\ Host \notin people
  /\ people' = people \cup {Host}
  /\ UNCHANGED <<called, place, member, issued, open>>

\* An invite is for a place there is, or for none.
Issue(i, l) ==
  /\ i \notin issued
  /\ l \in place \cup {NoPlace}
  /\ issued' = issued \cup {i}
  /\ open' = open \cup {<<i, l>>}
  /\ UNCHANGED <<people, called, place, member>>

Withdraw(i, l) ==
  /\ <<i, l>> \in open
  /\ open' = open \ {<<i, l>>}
  /\ UNCHANGED <<people, called, place, member, issued>>

\* One invite for one person, and never for a place the person has already.
Spend(i, l, p) ==
  /\ <<i, l>> \in open
  /\ <<l, p>> \notin member
  /\ open' = open \ {<<i, l>>}
  /\ member' = IF l = NoPlace THEN member ELSE member \cup {<<l, p>>}
  /\ UNCHANGED <<place, issued>>

\* Somebody new comes in, under a name that nobody has.
Welcome(i, l, p, n) ==
  /\ p \notin people
  /\ \A q \in people : <<q, n>> \notin called
  /\ Spend(i, l, p)
  /\ people' = people \cup {p}
  /\ called' = called \cup {<<p, n>>}

\* Somebody who is in takes the place as well.
Join(i, l, p) ==
  /\ p \in people
  /\ Spend(i, l, p)
  /\ UNCHANGED <<people, called>>

\* A place has the one who opened it for a member from the start.
OpenPlace(l, p) ==
  /\ l \notin place
  /\ p \in people
  /\ place' = place \cup {l}
  /\ member' = member \cup {<<l, p>>}
  /\ UNCHANGED <<people, called, issued, open>>

Leave(l, p) ==
  /\ <<l, p>> \in member
  /\ member' = member \ {<<l, p>>}
  /\ UNCHANGED <<people, called, place, issued, open>>

Next ==
  \/ HostArrives
  \/ \E i \in Invites, l \in place \cup {NoPlace} :
       \/ Issue(i, l)
       \/ Withdraw(i, l)
       \/ \E p \in people', n \in Names : Welcome(i, l, p, n)
       \/ \E p \in people : Join(i, l, p)
  \/ \E l \in place', p \in people : OpenPlace(l, p) \/ Leave(l, p)

Spec == Init /\ [][Next]_admission

-----------------------------------------------------------------------------
(* What it comes to *)

\* However many people are in, each of them cost an invite, which is not to be had again.
NobodyUninvited ==
  Cardinality(people \ {Host}) + Cardinality(open) <= Cardinality(issued)

\* Who belongs to a place that was there before has been let in by an invite for that very
\* place, and it is gone by the same step.
EveryMemberInvited ==
  [][\A m \in member' \ member :
       m[1] \in place => \E i \in Invites : <<i, m[1]>> \in open \ open']_admission

=============================================================================
