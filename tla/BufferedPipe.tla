---------------------------- MODULE BufferedPipe ----------------------------
(***************************************************************************)
(* paramiko/buffered_pipe.py: the byte buffer behind the stdout and the    *)
(* stderr of a Channel.  The transport thread feeds it, any number of user *)
(* threads read it, and Channel.fileno hangs an event on it.               *)
(*                                                                         *)
(* Every method holds _lock from its first to its last line, except read,  *)
(* which gives the lock up inside _cv.wait.  So a method is one action,    *)
(* and read is an action that starts the call and one for each return from *)
(* the wait.  The k-th byte ever fed is the number k, so that a byte lost, *)
(* duplicated or reordered is visible in what the readers got.             *)
(***************************************************************************)
EXTENDS Integers, Sequences

CONSTANTS Readers,      \* user threads that call read
          ChunkSizes,   \* lengths of the data passed to feed
          ReadSizes,    \* values of nbytes passed to read
          MaxFed        \* bound: bytes fed in one behaviour

ASSUME ChunkAssumption == ChunkSizes \subseteq Nat
ASSUME ReadAssumption  == ReadSizes \subseteq Nat \ {0}
ASSUME MaxFedAssumption == MaxFed \in Nat

\* The timeout argument of read: None, 0.0, or some positive number of seconds.
Timeouts == {"none", "zero", "positive"}

VARIABLES buffer,     \* self._buffer
          closed,     \* self._closed
          event,      \* self._event: None, or an event that is clear or set
          pc,         \* per reader: not in read / in the wait set of _cv /
                      \* notified (or expired) and about to take _lock again
          call,       \* per reader: the arguments of its read in progress
          result,     \* per reader: how its last read ended
          delivered,  \* history: bytes taken out of the buffer, in lock order
          fed         \* history: number of bytes fed so far

vars == <<buffer, closed, event, pc, call, result, delivered, fed>>

NoCall == [nbytes |-> 1, timeout |-> "none"]

TypeOK ==
    /\ buffer \in Seq(Nat)
    /\ closed \in BOOLEAN
    /\ event \in {"none", "clear", "set"}
    /\ pc \in [Readers -> {"idle", "waiting", "notified"}]
    /\ call \in [Readers -> [nbytes : Nat \ {0}, timeout : Timeouts]]
    /\ result \in [Readers -> {"nothing", "data", "eof", "timeout"}]
    /\ delivered \in Seq(Nat)
    /\ fed \in 0..MaxFed

Init ==
    /\ buffer = <<>>
    /\ closed = FALSE
    /\ event = "none"
    /\ pc = [r \in Readers |-> "idle"]
    /\ call = [r \in Readers |-> NoCall]
    /\ result = [r \in Readers |-> "nothing"]
    /\ delivered = <<>>
    /\ fed = 0

-----------------------------------------------------------------------------
(* _cv.notify_all, and the two ways the methods drive the event.            *)

NotifyAll == [r \in Readers |-> IF pc[r] = "waiting" THEN "notified" ELSE pc[r]]

EventSet   == IF event = "none" THEN "none" ELSE "set"

\* Mutant of EventDrain: the event of a closed pipe is cleared as well.
EventDrainAlways == IF event = "none" THEN event ELSE "clear"

EventDrain == IF event = "none" \/ closed THEN event ELSE "clear"

\* The bytes a call of feed with n bytes appends.
FedBytes(n) == [i \in 1..n |-> fed + i]

\* set_event: Channel.fileno installs its event once.
SetEvent ==
    /\ event = "none"
    /\ event' = IF closed \/ Len(buffer) > 0 THEN "set" ELSE "clear"
    /\ UNCHANGED <<buffer, closed, pc, call, result, delivered, fed>>

\* feed: sets the event before it looks at the data, and never looks at _closed.
Feed(n) ==
    /\ fed + n <= MaxFed
    /\ event' = EventSet
    /\ buffer' = buffer \o FedBytes(n)
    /\ pc' = NotifyAll
    /\ fed' = fed + n
    /\ UNCHANGED <<closed, call, result, delivered>>

\* Mutant of Close: the blocked readers are not notified.
CloseSilently ==
    /\ closed' = TRUE
    /\ event' = EventSet
    /\ UNCHANGED <<buffer, pc, call, result, delivered, fed>>

Close ==
    /\ closed' = TRUE
    /\ pc' = NotifyAll
    /\ event' = EventSet
    /\ UNCHANGED <<buffer, call, result, delivered, fed>>

\* empty: Channel.set_combine_stderr takes the whole buffer at once.
Empty ==
    /\ delivered' = delivered \o buffer
    /\ buffer' = <<>>
    /\ event' = EventDrain
    /\ UNCHANGED <<closed, pc, call, result, fed>>

-----------------------------------------------------------------------------
(* read                                                                     *)

Return(r, how) ==
    /\ pc' = [pc EXCEPT ![r] = "idle"]
    /\ result' = [result EXCEPT ![r] = how]

\* Mutant of Take: the byte at the limit is returned and also left behind.
TakeOffByOne(r, nbytes) ==
    /\ delivered' = delivered \o SubSeq(buffer, 1, nbytes)
    /\ buffer' = SubSeq(buffer, nbytes, Len(buffer))
    /\ Return(r, IF buffer = <<>> THEN "eof" ELSE "data")
    /\ UNCHANGED <<closed, call, event, fed>>

\* The tail of read: "something's in the buffer and we have the lock!"  (or the
\* pipe is closed and empty, and the zero bytes taken mean end of file).
Take(r, nbytes) ==
    /\ IF Len(buffer) <= nbytes
       THEN /\ delivered' = delivered \o buffer
            /\ buffer' = <<>>
            /\ event' = EventDrain
       ELSE /\ delivered' = delivered \o SubSeq(buffer, 1, nbytes)
            /\ buffer' = SubSeq(buffer, nbytes + 1, Len(buffer))
            /\ UNCHANGED event
    /\ Return(r, IF buffer = <<>> THEN "eof" ELSE "data")
    /\ UNCHANGED <<closed, call, fed>>

TimeOut(r) ==
    /\ Return(r, "timeout")
    /\ UNCHANGED <<buffer, closed, event, call, delivered, fed>>

\* read up to its return or its first _cv.wait.
Read(r, nbytes, timeout) ==
    /\ pc[r] = "idle"
    /\ \/ /\ Len(buffer) > 0
          /\ Take(r, nbytes)
       \/ /\ Len(buffer) = 0 /\ closed
          /\ Return(r, "eof")
          /\ UNCHANGED <<buffer, closed, event, call, delivered, fed>>
       \/ /\ Len(buffer) = 0 /\ ~closed /\ timeout = "zero"
          /\ TimeOut(r)
       \/ /\ Len(buffer) = 0 /\ ~closed /\ timeout # "zero"
          /\ pc' = [pc EXCEPT ![r] = "waiting"]
          /\ call' = [call EXCEPT ![r] = [nbytes |-> nbytes, timeout |-> timeout]]
          /\ UNCHANGED <<buffer, closed, event, result, delivered, fed>>

\* Mutant of Resume: an if instead of the loop around _cv.wait.
ResumeOnce(r) ==
    /\ pc[r] = "notified"
    /\ Take(r, call[r].nbytes)

\* The wait ended by notify_all and the reader has the lock with time left (or
\* no limit): back to the wait if another thread took everything.
Resume(r) ==
    /\ pc[r] = "notified"
    /\ \/ /\ Len(buffer) = 0 /\ ~closed
          /\ pc' = [pc EXCEPT ![r] = "waiting"]
          /\ UNCHANGED <<buffer, closed, event, call, result, delivered, fed>>
       \/ /\ Len(buffer) > 0 \/ closed
          /\ Take(r, call[r].nbytes)

\* The reader has the lock again and its time is used up, whether or not it was
\* notified first: the code raises before it looks at the buffer.
Expire(r) ==
    /\ pc[r] \in {"waiting", "notified"}
    /\ call[r].timeout = "positive"
    /\ TimeOut(r)

Next ==
    \/ SetEvent
    \/ Close
    \/ Empty
    \/ \E n \in ChunkSizes : Feed(n)
    \/ \E r \in Readers : \/ Resume(r)
                          \/ Expire(r)
                          \/ \E n \in ReadSizes, t \in Timeouts : Read(r, n, t)

Spec == Init /\ [][Next]_vars

\* A notified thread gets the lock in the end: the lock is held for a bounded
\* time by every method.
FairSpec == Spec /\ \A r \in Readers : WF_vars(Resume(r))

-----------------------------------------------------------------------------
(* Properties                                                               *)

\* Bytes come out of read and empty exactly once and in the order feed got
\* them, whichever of several readers takes the lock first.
FifoIntegrity ==
    /\ Len(delivered) + Len(buffer) = fed
    /\ \A i \in 1..Len(delivered) : delivered[i] = i
    /\ \A i \in 1..Len(buffer) : buffer[i] = Len(delivered) + i

\* No lost wakeup: a reader sits un-notified in the wait set only while there
\* is nothing to read and the pipe is open (read's loop, feed, close).
NoLostWakeup ==
    \A r \in Readers : pc[r] = "waiting" => buffer = <<>> /\ ~closed

\* The direction of set_event's contract a select loop depends on: an installed
\* event is set whenever data is ready or the pipe is closed.
EventNeverMissed ==
    event # "none" /\ (closed \/ Len(buffer) > 0) => event = "set"

\* read reports end of file (returns no bytes) only on a pipe that is closed
\* and drained, also when the bytes it was woken for went to another thread.
EofOnlyAtEnd ==
    [][\A r \in Readers :
         result[r] # "eof" /\ result'[r] = "eof" => closed /\ buffer = <<>>]_vars

\* Closing the pipe gets every blocked reader out of read.
CloseReleasesReaders ==
    \A r \in Readers : (closed /\ pc[r] # "idle") ~> pc[r] = "idle"
=============================================================================
