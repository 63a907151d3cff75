------------------------- MODULE FlowControl_proofs -------------------------
(***************************************************************************)
(* Window flow control, for every window size: the bytes of the window are *)
(* conserved, so a receiver is never sent more than it can hold.           *)
(***************************************************************************)
EXTENDS FlowControl, TLAPS

\* Conservation is inductive given the types; the two bounds follow from it.
FlowInv == TypeOK /\ Conservation

\* What Moves does to the two places it names.
LEMMA MovesShape ==
    ASSUME NEW a \in Nat, NEW b \in Nat, NEW a2, NEW b2, Moves(a, a2, b, b2)
    PROVE  a2 \in Nat /\ b2 \in Nat /\ a2 + b2 = a + b
  BY DEF Moves

\* The sum of the six places, with two of them grouped.
LEMMA Regroup ==
    ASSUME NEW a \in Nat, NEW b \in Nat, NEW c \in Nat, NEW d \in Nat, NEW e \in Nat, NEW f \in Nat
    PROVE  /\ a + b + c + d + e + f = (a + b) + (c + d + e + f)
           /\ a + b + c + d + e + f = (b + c) + (a + d + e + f)
           /\ a + b + c + d + e + f = (c + d) + (a + b + e + f)
           /\ a + b + c + d + e + f = (d + e) + (a + b + c + f)
           /\ a + b + c + d + e + f = (e + a) + (b + c + d + f)
           /\ a + b + c + d + e + f = (b + f) + (a + c + d + e)
           /\ a + b + c + d + e + f = (d + f) + (a + b + c + e)
           /\ a + b + c + d + e + f = (e + f) + (a + b + c + d)
  OBVIOUS

\* The whole window is credit when the channel opens.
LEMMA FlowInit == ASSUME Window \in Nat PROVE Init => FlowInv
  BY DEF Init, FlowInv, TypeOK, Conservation

\* Each step of the channel moves bytes from one place to one other.
LEMMA FlowNext == FlowInv /\ [Next]_vars => FlowInv'
<1> SUFFICES ASSUME FlowInv, [Next]_vars PROVE FlowInv'
  OBVIOUS
<1>t. /\ credit \in Nat /\ flight \in Nat /\ held \in Nat
      /\ taken \in Nat /\ returning \in Nat /\ lost \in Nat
  BY DEF FlowInv, TypeOK
<1>c. credit + flight + held + taken + returning + lost = Window
  BY DEF FlowInv, Conservation
\* It is enough that the six places stay natural numbers with the same sum.
<1>s. ASSUME credit' \in Nat, flight' \in Nat, held' \in Nat, taken' \in Nat, returning' \in Nat,
             lost' \in Nat,
             credit' + flight' + held' + taken' + returning' + lost'
                = credit + flight + held + taken + returning + lost
      PROVE  FlowInv'
  BY <1>c, <1>s DEF FlowInv, TypeOK, Conservation
<1>1. CASE Transmit
  <2>1. credit' \in Nat /\ flight' \in Nat /\ credit' + flight' = credit + flight
    BY <1>t, <1>1, MovesShape DEF Transmit
  <2>2. held' = held /\ taken' = taken /\ returning' = returning /\ lost' = lost
    BY <1>1 DEF Transmit
  <2>3. credit + flight + held + taken + returning + lost
           = (credit + flight) + (held + taken + returning + lost)
    BY <1>t, Regroup
  <2>4. credit' + flight' + held' + taken' + returning' + lost'
           = (credit' + flight') + (held' + taken' + returning' + lost')
    BY <1>t, <2>1, <2>2, Regroup
  <2> QED
    BY <1>s, <1>t, <2>1, <2>2, <2>3, <2>4
<1>2. CASE Deliver
  <2>1. flight' \in Nat /\ held' \in Nat /\ flight' + held' = flight + held
    BY <1>t, <1>2, MovesShape DEF Deliver
  <2>2. credit' = credit /\ taken' = taken /\ returning' = returning /\ lost' = lost
    BY <1>2 DEF Deliver
  <2>3. credit + flight + held + taken + returning + lost
           = (flight + held) + (credit + taken + returning + lost)
    BY <1>t, Regroup
  <2>4. credit' + flight' + held' + taken' + returning' + lost'
           = (flight' + held') + (credit' + taken' + returning' + lost')
    BY <1>t, <2>1, <2>2, Regroup
  <2> QED
    BY <1>s, <1>t, <2>1, <2>2, <2>3, <2>4
<1>3. CASE Take
  <2>1. held' \in Nat /\ taken' \in Nat /\ held' + taken' = held + taken
    BY <1>t, <1>3, MovesShape DEF Take
  <2>2. credit' = credit /\ flight' = flight /\ returning' = returning /\ lost' = lost
    BY <1>3 DEF Take
  <2>3. credit + flight + held + taken + returning + lost
           = (held + taken) + (credit + flight + returning + lost)
    BY <1>t, Regroup
  <2>4. credit' + flight' + held' + taken' + returning' + lost'
           = (held' + taken') + (credit' + flight' + returning' + lost')
    BY <1>t, <2>1, <2>2, Regroup
  <2> QED
    BY <1>s, <1>t, <2>1, <2>2, <2>3, <2>4
<1>4. CASE GiveBack
  <2>1. taken' \in Nat /\ returning' \in Nat /\ taken' + returning' = taken + returning
    BY <1>t, <1>4, MovesShape DEF GiveBack
  <2>2. credit' = credit /\ flight' = flight /\ held' = held /\ lost' = lost
    BY <1>4 DEF GiveBack
  <2>3. credit + flight + held + taken + returning + lost
           = (taken + returning) + (credit + flight + held + lost)
    BY <1>t, Regroup
  <2>4. credit' + flight' + held' + taken' + returning' + lost'
           = (taken' + returning') + (credit' + flight' + held' + lost')
    BY <1>t, <2>1, <2>2, Regroup
  <2> QED
    BY <1>s, <1>t, <2>1, <2>2, <2>3, <2>4
<1>5. CASE Adjust
  <2>1. returning' \in Nat /\ credit' \in Nat /\ returning' + credit' = returning + credit
    BY <1>t, <1>5, MovesShape DEF Adjust
  <2>2. flight' = flight /\ held' = held /\ taken' = taken /\ lost' = lost
    BY <1>5 DEF Adjust
  <2>3. credit + flight + held + taken + returning + lost
           = (returning + credit) + (flight + held + taken + lost)
    BY <1>t, Regroup
  <2>4. credit' + flight' + held' + taken' + returning' + lost'
           = (returning' + credit') + (flight' + held' + taken' + lost')
    BY <1>t, <2>1, <2>2, Regroup
  <2> QED
    BY <1>s, <1>t, <2>1, <2>2, <2>3, <2>4
<1>6. CASE Lose
  <2>1. CASE Moves(flight, flight', lost, lost') /\ UNCHANGED <<credit, held, taken, returning>>
    <3>1. flight' \in Nat /\ lost' \in Nat /\ flight' + lost' = flight + lost
      BY <1>t, <2>1, MovesShape
    <3>2. credit' = credit /\ held' = held /\ taken' = taken /\ returning' = returning
      BY <2>1
    <3>3. credit + flight + held + taken + returning + lost
             = (flight + lost) + (credit + held + taken + returning)
      BY <1>t, Regroup
    <3>4. credit' + flight' + held' + taken' + returning' + lost'
             = (flight' + lost') + (credit' + held' + taken' + returning')
      BY <1>t, <3>1, <3>2, Regroup
    <3> QED
      BY <1>s, <1>t, <3>1, <3>2, <3>3, <3>4
  <2>2. CASE Moves(taken, taken', lost, lost') /\ UNCHANGED <<credit, flight, held, returning>>
    <3>1. taken' \in Nat /\ lost' \in Nat /\ taken' + lost' = taken + lost
      BY <1>t, <2>2, MovesShape
    <3>2. credit' = credit /\ flight' = flight /\ held' = held /\ returning' = returning
      BY <2>2
    <3>3. credit + flight + held + taken + returning + lost
             = (taken + lost) + (credit + flight + held + returning)
      BY <1>t, Regroup
    <3>4. credit' + flight' + held' + taken' + returning' + lost'
             = (taken' + lost') + (credit' + flight' + held' + returning')
      BY <1>t, <3>1, <3>2, Regroup
    <3> QED
      BY <1>s, <1>t, <3>1, <3>2, <3>3, <3>4
  <2>3. CASE Moves(returning, returning', lost, lost') /\ UNCHANGED <<credit, flight, held, taken>>
    <3>1. returning' \in Nat /\ lost' \in Nat /\ returning' + lost' = returning + lost
      BY <1>t, <2>3, MovesShape
    <3>2. credit' = credit /\ flight' = flight /\ held' = held /\ taken' = taken
      BY <2>3
    <3>3. credit + flight + held + taken + returning + lost
             = (returning + lost) + (credit + flight + held + taken)
      BY <1>t, Regroup
    <3>4. credit' + flight' + held' + taken' + returning' + lost'
             = (returning' + lost') + (credit' + flight' + held' + taken')
      BY <1>t, <3>1, <3>2, Regroup
    <3> QED
      BY <1>s, <1>t, <3>1, <3>2, <3>3, <3>4
  <2> QED
    BY <1>6, <2>1, <2>2, <2>3 DEF Lose
<1>7. CASE UNCHANGED vars
  BY <1>7 DEF vars, FlowInv, TypeOK, Conservation
<1> QED
  BY <1>1, <1>2, <1>3, <1>4, <1>5, <1>6, <1>7 DEF Next

\* Every byte of the window is accounted for, always.
THEOREM FlowConservation == ASSUME Window \in Nat PROVE Spec => []Conservation
<1>1. Init => FlowInv
  BY FlowInit
<1>2. FlowInv => Conservation
  BY DEF FlowInv
<1> QED
  BY <1>1, <1>2, FlowNext, PTL DEF Spec

\* A receiver never has to hold more than the window it advertised.
THEOREM FlowNoOverrun == ASSUME Window \in Nat PROVE Spec => [](NoOverrun /\ NoInflation)
<1>1. Init => FlowInv
  BY FlowInit
<1>2. FlowInv => NoOverrun /\ NoInflation
  BY DEF FlowInv, TypeOK, Conservation, NoOverrun, NoInflation
<1> QED
  BY <1>1, <1>2, FlowNext, PTL DEF Spec
=============================================================================
