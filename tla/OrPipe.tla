------------------------------- MODULE OrPipe -------------------------------
(***************************************************************************)
(* paramiko/pipe.py: the file descriptor Channel.fileno gives to select.   *)
(* A PosixPipe is readable while either of a channel's two buffers is: the *)
(* event of each BufferedPipe is one of the two OrPipes make_or_pipe       *)
(* builds around it.                                                       *)
(*                                                                         *)
(* set and clear of an OrPipe run under the lock of its own buffer only,   *)
(* so the two buffers' threads interleave inside them: one action is one   *)
(* test, assignment or system call.  The transport thread feeds both       *)
(* buffers and handles the EOF; one user thread reads each buffer.         *)
(***************************************************************************)
EXTENDS Integers

CONSTANT MaxFeeds    \* bound: calls of feed by the transport thread

Buffers == {"stdout", "stderr"}
Partner(b) == IF b = "stdout" THEN "stderr" ELSE "stdout"

\* The transport thread and the reader of each buffer.
Actors == {"transport"} \cup Buffers

VARIABLES pc,       \* where each actor is
          on,       \* on[a]: the buffer whose lock actor a holds, or "none"
          full,     \* full[b]: buffer b holds data
          orSet,    \* orSet[b]: OrPipe._set of the OrPipe of b
          pipeSet,  \* PosixPipe._set
          forever,  \* PosixPipe._forever
          stars,    \* bytes in the OS pipe: the descriptor is readable if > 0
          feeds     \* feeds so far

vars == <<pc, on, full, orSet, pipeSet, forever, stars, feeds>>

TypeOK ==
    /\ pc \in [Actors -> {"idle", "set", "setOr", "pipeSet", "pipeMark", "write",
                          "clear", "clearOr", "pipeClear", "read", "unmark"}]
    /\ on \in [Actors -> Buffers \cup {"none"}]
    /\ full \in [Buffers -> BOOLEAN]
    /\ orSet \in [Buffers -> BOOLEAN]
    /\ pipeSet \in BOOLEAN /\ forever \in BOOLEAN
    /\ stars \in Nat /\ feeds \in 0..MaxFeeds

\* fileno has just built the pipes around two empty, open buffers.
Init ==
    /\ pc = [a \in Actors |-> "idle"]
    /\ on = [a \in Actors |-> "none"]
    /\ full = [b \in Buffers |-> FALSE]
    /\ orSet = [b \in Buffers |-> FALSE]
    /\ pipeSet = FALSE /\ forever = FALSE
    /\ stars = 0 /\ feeds = 0

Unlocked(b) == \A a \in Actors : on[a] # b

Goto(a, place) == pc' = [pc EXCEPT ![a] = place]

\* The end of set or clear; a feed leaves its data in the buffer.
Done(a) ==
    /\ Goto(a, "idle")
    /\ on' = [on EXCEPT ![a] = "none"]
    /\ full' = IF a = "transport" /\ on[a] # "none" THEN [full EXCEPT ![on[a]] = TRUE] ELSE full

-----------------------------------------------------------------------------

\* BufferedPipe.feed: takes the lock of b and calls event.set.
Feed(b) ==
    /\ pc["transport"] = "idle" /\ Unlocked(b)
    /\ feeds < MaxFeeds
    /\ feeds' = feeds + 1
    /\ on' = [on EXCEPT !["transport"] = b]
    /\ Goto("transport", "set")
    /\ UNCHANGED <<full, orSet, pipeSet, forever, stars>>

\* BufferedPipe.read takes everything and calls event.clear.
Drain(b) ==
    /\ pc[b] = "idle" /\ Unlocked(b) /\ full[b]
    /\ on' = [on EXCEPT ![b] = b]
    /\ full' = [full EXCEPT ![b] = FALSE]
    /\ Goto(b, "clear")
    /\ UNCHANGED <<orSet, pipeSet, forever, stars, feeds>>

\* PosixPipe.set_forever, from Channel._handle_eof.
SetForever ==
    /\ pc["transport"] = "idle" /\ ~forever
    /\ forever' = TRUE
    /\ Goto("transport", "pipeSet")
    /\ UNCHANGED <<on, full, orSet, pipeSet, stars, feeds>>

\* OrPipe.set
Set(a) ==
    \/ /\ pc[a] = "set"
       /\ orSet' = [orSet EXCEPT ![on[a]] = TRUE]
       /\ Goto(a, "setOr")
       /\ UNCHANGED <<on, full, pipeSet, forever, stars, feeds>>
    \/ /\ pc[a] = "setOr"
       /\ IF orSet[Partner(on[a])] THEN Done(a) ELSE Goto(a, "pipeSet") /\ UNCHANGED <<on, full>>
       /\ UNCHANGED <<orSet, pipeSet, forever, stars, feeds>>

\* PosixPipe.set
PipeSet(a) ==
    \/ /\ pc[a] = "pipeSet"
       /\ IF pipeSet THEN Done(a) ELSE Goto(a, "pipeMark") /\ UNCHANGED <<on, full>>
       /\ UNCHANGED <<orSet, pipeSet, forever, stars, feeds>>
    \/ /\ pc[a] = "pipeMark"
       /\ pipeSet' = TRUE
       /\ Goto(a, "write")
       /\ UNCHANGED <<on, full, orSet, forever, stars, feeds>>
    \/ /\ pc[a] = "write"
       /\ stars' = stars + 1
       /\ Done(a)
       /\ UNCHANGED <<orSet, pipeSet, forever, feeds>>

\* OrPipe.clear
Clear(a) ==
    \/ /\ pc[a] = "clear"
       /\ orSet' = [orSet EXCEPT ![on[a]] = FALSE]
       /\ Goto(a, "clearOr")
       /\ UNCHANGED <<on, full, pipeSet, forever, stars, feeds>>
    \/ /\ pc[a] = "clearOr"
       /\ IF orSet[Partner(on[a])] THEN Done(a) ELSE Goto(a, "pipeClear") /\ UNCHANGED <<on, full>>
       /\ UNCHANGED <<orSet, pipeSet, forever, stars, feeds>>

\* PosixPipe.clear: os.read blocks while the OS pipe is empty.
PipeClear(a) ==
    \/ /\ pc[a] = "pipeClear"
       /\ IF ~pipeSet \/ forever THEN Done(a) ELSE Goto(a, "read") /\ UNCHANGED <<on, full>>
       /\ UNCHANGED <<orSet, pipeSet, forever, stars, feeds>>
    \/ /\ pc[a] = "read"
       /\ stars > 0
       /\ stars' = stars - 1
       /\ Goto(a, "unmark")
       /\ UNCHANGED <<on, full, orSet, pipeSet, forever, feeds>>
    \/ /\ pc[a] = "unmark"
       /\ pipeSet' = FALSE
       /\ Done(a)
       /\ UNCHANGED <<orSet, forever, stars, feeds>>

Runs(a) == Set(a) \/ PipeSet(a) \/ Clear(a) \/ PipeClear(a)

Next ==
    \/ \E b \in Buffers : Feed(b) \/ Drain(b)
    \/ SetForever
    \/ \E a \in Actors : Runs(a)

Spec == Init /\ [][Next]_vars

-----------------------------------------------------------------------------

Quiet == \A a \in Actors : pc[a] = "idle"

\* make_or_pipe: "if either returned pipe is set, the wrapped pipe is set.  when
\* both are cleared, the wrapped pipe is cleared."
OrHolds ==
    Quiet /\ ~forever => (stars > 0 <=> \E b \in Buffers : orSet[b])
=============================================================================
