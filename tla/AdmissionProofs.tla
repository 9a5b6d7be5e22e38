--------------------------- MODULE AdmissionProofs ---------------------------
(***************************************************************************)
(* What the promise of Admission comes to, proved of the promise itself:   *)
(* every program that keeps it inherits these.                             *)
(*                                                                         *)
(* The count needs sets that can be counted, and that an invite which can  *)
(* be spent was issued: only then does a new one add to both sides.        *)
(***************************************************************************)
EXTENDS Admission, FiniteSetTheorems, TLAPS

Counted ==
  /\ IsFiniteSet(people)
  /\ IsFiniteSet(issued)
  /\ IsFiniteSet(open)
  /\ \A p \in open : p[1] \in issued
  /\ NobodyUninvited

\* All that can be said of somebody who comes in, the host included.
LEMMA OneMore ==
  ASSUME NEW S, NEW x, NEW h, IsFiniteSet(S)
  PROVE  /\ IsFiniteSet(S \ {h}) /\ IsFiniteSet(S \cup {x})
         /\ Cardinality(S \ {h}) \in Nat
         /\ Cardinality((S \cup {x}) \ {h}) \in
              {Cardinality(S \ {h}), Cardinality(S \ {h}) + 1}
<1>1. IsFiniteSet(S \ {h}) /\ IsFiniteSet(S \cup {x})
  BY FS_RemoveElement, FS_AddElement
<1>2. CASE x = h
  <2>1. (S \cup {x}) \ {h} = S \ {h}
    BY <1>2
  <2>2. QED
    BY <1>1, <2>1, FS_CardinalityType
<1>3. CASE x # h
  <2>1. (S \cup {x}) \ {h} = (S \ {h}) \cup {x}
    BY <1>3
  <2>2. QED
    BY <1>1, <2>1, FS_AddElement, FS_CardinalityType
<1>4. QED
  BY <1>2, <1>3

LEMMA OneLess ==
  ASSUME NEW S, NEW x \in S, IsFiniteSet(S)
  PROVE  IsFiniteSet(S \ {x}) /\ Cardinality(S \ {x}) = Cardinality(S) - 1
BY FS_RemoveElement

LEMMA CountedInit == Init => Counted
<1>1. SUFFICES ASSUME Init PROVE Counted
  OBVIOUS
<1>2. people = {} /\ issued = {} /\ open = {} /\ people \ {Host} = {}
  BY <1>1 DEF Init
<1>3. QED
  BY <1>2, FS_EmptySet DEF Counted, NobodyUninvited

\* An invite is spent on somebody: one less is open, and one more may be in.
LEMMA CountedSpend ==
  ASSUME Counted, NEW i \in Invites, NEW l, NEW p, Spend(i, l, p),
         people' \in {people, people \cup {p}}
  PROVE  Counted'
<1>1. /\ <<i, l>> \in open
      /\ open' = open \ {<<i, l>>}
      /\ issued' = issued
  BY DEF Spend
<1>2. IsFiniteSet(open') /\ Cardinality(open') = Cardinality(open) - 1
  BY <1>1, OneLess DEF Counted
<1>3. /\ IsFiniteSet(people')
      /\ Cardinality(people \ {Host}) \in Nat
      /\ Cardinality(people' \ {Host}) \in
           {Cardinality(people \ {Host}), Cardinality(people \ {Host}) + 1}
  <2>1. IsFiniteSet(people)
    BY DEF Counted
  <2>2. /\ IsFiniteSet(people \cup {p})
        /\ Cardinality(people \ {Host}) \in Nat
        /\ Cardinality((people \cup {p}) \ {Host}) \in
             {Cardinality(people \ {Host}), Cardinality(people \ {Host}) + 1}
    BY <2>1, OneMore
  <2>3. CASE people' = people
    BY <2>1, <2>2, <2>3
  <2>4. CASE people' = people \cup {p}
    BY <2>2, <2>4
  <2>5. QED
    BY <2>3, <2>4
<1>4. Cardinality(open) \in Nat /\ Cardinality(issued) \in Nat
  BY FS_CardinalityType DEF Counted
<1>5. NobodyUninvited'
  BY <1>1, <1>2, <1>3, <1>4 DEF Counted, NobodyUninvited
<1>6. QED
  BY <1>1, <1>2, <1>3, <1>5 DEF Counted

LEMMA CountedIssue ==
  ASSUME Counted, NEW i \in Invites, NEW l, Issue(i, l)
  PROVE  Counted'
<1>1. /\ i \notin issued
      /\ issued' = issued \cup {i}
      /\ open' = open \cup {<<i, l>>}
      /\ people' = people
  BY DEF Issue
<1>2. <<i, l>> \notin open
  BY <1>1 DEF Counted
<1>3. /\ IsFiniteSet(open') /\ Cardinality(open') = Cardinality(open) + 1
      /\ IsFiniteSet(issued') /\ Cardinality(issued') = Cardinality(issued) + 1
  BY <1>1, <1>2, FS_AddElement DEF Counted
<1>4. /\ Cardinality(open) \in Nat
      /\ Cardinality(issued) \in Nat
      /\ Cardinality(people \ {Host}) \in Nat
  BY OneMore, FS_CardinalityType DEF Counted
<1>5. NobodyUninvited'
  BY <1>1, <1>3, <1>4 DEF Counted, NobodyUninvited
<1>6. QED
  BY <1>1, <1>3, <1>5 DEF Counted

LEMMA CountedWithdraw ==
  ASSUME Counted, NEW i \in Invites, NEW l, Withdraw(i, l)
  PROVE  Counted'
<1>1. /\ <<i, l>> \in open
      /\ open' = open \ {<<i, l>>}
      /\ UNCHANGED <<people, issued>>
  BY DEF Withdraw
<1>2. IsFiniteSet(open') /\ Cardinality(open') = Cardinality(open) - 1
  BY <1>1, OneLess DEF Counted
<1>3. /\ Cardinality(open) \in Nat
      /\ Cardinality(issued) \in Nat
      /\ Cardinality(people \ {Host}) \in Nat
  BY OneMore, FS_CardinalityType DEF Counted
<1>4. NobodyUninvited'
  BY <1>1, <1>2, <1>3 DEF Counted, NobodyUninvited
<1>5. QED
  BY <1>1, <1>2, <1>4 DEF Counted

LEMMA CountedHost ==
  ASSUME Counted, HostArrives
  PROVE  Counted'
<1>1. people' = people \cup {Host} /\ UNCHANGED <<issued, open>>
  BY DEF HostArrives
<1>2. people' \ {Host} = people \ {Host} /\ IsFiniteSet(people')
  BY <1>1, OneMore DEF Counted
<1>3. QED
  BY <1>1, <1>2 DEF Counted, NobodyUninvited

LEMMA CountedStep == Counted /\ [Next]_admission => Counted'
<1>1. SUFFICES ASSUME Counted, [Next]_admission PROVE Counted'
  OBVIOUS
<1>2. CASE HostArrives
  BY <1>1, <1>2, CountedHost
<1>3. ASSUME NEW i \in Invites, NEW l,
             Issue(i, l) \/ Withdraw(i, l)
      PROVE  Counted'
  BY <1>1, <1>3, CountedIssue, CountedWithdraw
<1>4. ASSUME NEW i \in Invites, NEW l, NEW p, NEW n, Welcome(i, l, p, n)
      PROVE  Counted'
  BY <1>1, <1>4, CountedSpend DEF Welcome
<1>5. ASSUME NEW i \in Invites, NEW l, NEW p, Join(i, l, p)
      PROVE  Counted'
  BY <1>1, <1>5, CountedSpend DEF Join
<1>6. ASSUME NEW l, NEW p, OpenPlace(l, p) \/ Leave(l, p)
      PROVE  Counted'
  BY <1>1, <1>6 DEF OpenPlace, Leave, Counted, NobodyUninvited
<1>7. CASE UNCHANGED admission
  BY <1>1, <1>7 DEF admission, Counted, NobodyUninvited
<1>8. QED
  BY <1>1, <1>2, <1>3, <1>4, <1>5, <1>6, <1>7 DEF Next

\* No two people got in with one invite: as many were issued as there are people, the host
\* aside, and open invites.
THEOREM InvitesCoverPeople == Spec => []NobodyUninvited
<1>1. Counted => NobodyUninvited
  BY DEF Counted
<1>2. QED
  BY <1>1, CountedInit, CountedStep, PTL DEF Spec

\* Nobody turns up in a place that is there already but by an invite to it, spent then.
THEOREM InvitesCoverMembers == Spec => EveryMemberInvited
<1> DEFINE Invited == \A m \in member' \ member :
                        m[1] \in place => \E i \in Invites : <<i, m[1]>> \in open \ open'
<1>1. ASSUME Next PROVE Invited
  <2>1. ASSUME NEW i \in Invites, NEW l, NEW p, Spend(i, l, p)
        PROVE  Invited
    <3>1. /\ member' \ member \subseteq {<<l, p>>}
          /\ <<i, l>> \in open \ open'
      BY <2>1 DEF Spend
    <3>2. QED
      BY <3>1
  <2>2. ASSUME NEW l, NEW p, OpenPlace(l, p)
        PROVE  Invited
    BY <2>2 DEF OpenPlace
  <2>3. ASSUME member' \subseteq member
        PROVE  Invited
    BY <2>3
  <2> HIDE DEF Invited
  <2>4. QED
    BY <1>1, <2>1, <2>2, <2>3
    DEF Next, HostArrives, Issue, Withdraw, Welcome, Join, Leave
<1>2. QED
  BY <1>1, PTL DEF Spec, EveryMemberInvited

=============================================================================
