---------------------------- MODULE FlowControl ----------------------------
(***************************************************************************)
(* What SSH window flow control promises for one direction of a channel,   *)
(* free of threads, messages and streams: every byte of the window is in   *)
(* exactly one place, and only the sender's credit can become data.        *)
(* Channel is shown to implement it.                                       *)
(***************************************************************************)
EXTENDS Integers

CONSTANT Window    \* bytes the receiver advertised when the channel opened

VARIABLES credit,     \* the sender may still send this much
          flight,     \* sent, and not yet in the receiver's buffers
          held,       \* in the receiver's buffers
          taken,      \* read by the receiver's user, not yet given back
          returning,  \* window updates on their way to the sender
          lost        \* never given back: the channel was ending

vars == <<credit, flight, held, taken, returning, lost>>

TypeOK ==
    /\ credit \in Nat /\ flight \in Nat /\ held \in Nat
    /\ taken \in Nat /\ returning \in Nat /\ lost \in Nat

Init ==
    /\ credit = Window
    /\ flight = 0 /\ held = 0 /\ taken = 0 /\ returning = 0 /\ lost = 0

\* What leaves one place arrives in another, in one step.
Moves(from, fromNext, to, toNext) ==
    fromNext \in 0..from /\ toNext = to + (from - fromNext)

\* _send: part of the credit becomes data under way.
Transmit ==
    /\ Moves(credit, credit', flight, flight')
    /\ UNCHANGED <<held, taken, returning, lost>>

\* _feed, _feed_extended
Deliver ==
    /\ Moves(flight, flight', held, held')
    /\ UNCHANGED <<credit, taken, returning, lost>>

\* recv, recv_stderr
Take ==
    /\ Moves(held, held', taken, taken')
    /\ UNCHANGED <<credit, flight, returning, lost>>

\* _check_add_window decides to send an update.
GiveBack ==
    /\ Moves(taken, taken', returning, returning')
    /\ UNCHANGED <<credit, flight, held, lost>>

\* _window_adjust
Adjust ==
    /\ Moves(returning, returning', credit, credit')
    /\ UNCHANGED <<flight, held, taken, lost>>

\* Data or an update for a dead channel or on a dead transport is dropped, and
\* bytes read after the end of the stream are not credited.
Lose ==
    \/ /\ Moves(flight, flight', lost, lost')
       /\ UNCHANGED <<credit, held, taken, returning>>
    \/ /\ Moves(taken, taken', lost, lost')
       /\ UNCHANGED <<credit, flight, held, returning>>
    \/ /\ Moves(returning, returning', lost, lost')
       /\ UNCHANGED <<credit, flight, held, taken>>

Next == Transmit \/ Deliver \/ Take \/ GiveBack \/ Adjust \/ Lose

Spec == Init /\ [][Next]_vars

-----------------------------------------------------------------------------

\* Every byte of the window is in exactly one place.
Conservation ==
    credit + flight + held + taken + returning + lost = Window

\* The receiver never has to buffer more than it advertised, counting what is
\* still on its way to it.
NoOverrun == held + flight <= Window

\* The sender never holds more credit than was advertised.
NoInflation == credit <= Window
=============================================================================
