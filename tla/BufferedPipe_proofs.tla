------------------------ MODULE BufferedPipe_proofs ------------------------
(***************************************************************************)
(* The safety properties of BufferedPipe for any number of readers, any    *)
(* chunk and read sizes and any bound on the bytes fed.                    *)
(***************************************************************************)
EXTENDS BufferedPipe, SequenceTheorems, TLAPS

\* Lengths and elements of a sequence d extended by the first k elements of b,
\* and of what is left of b (the slices of read, buffered_pipe.py).
LEMMA CutShape ==
    ASSUME NEW d \in Seq(Nat), NEW b \in Seq(Nat), NEW k \in 0..Len(b)
    PROVE  /\ SubSeq(b, 1, k) \in Seq(Nat)
           /\ SubSeq(b, k + 1, Len(b)) \in Seq(Nat)
           /\ (d \o SubSeq(b, 1, k)) \in Seq(Nat)
           /\ Len(d \o SubSeq(b, 1, k)) = Len(d) + k
           /\ Len(SubSeq(b, k + 1, Len(b))) = Len(b) - k
           /\ \A i \in 1..Len(d) : (d \o SubSeq(b, 1, k))[i] = d[i]
           /\ \A i \in 1..k : (d \o SubSeq(b, 1, k))[Len(d) + i] = b[i]
           /\ \A i \in 1..(Len(b) - k) : SubSeq(b, k + 1, Len(b))[i] = b[k + i]
<1> DEFINE h == SubSeq(b, 1, k)
           t == SubSeq(b, k + 1, Len(b))
<1>1. h \in Seq(Nat) /\ Len(h) = k /\ \A i \in 1..k : h[i] = b[i]
  OBVIOUS
<1>2. t \in Seq(Nat) /\ Len(t) = Len(b) - k /\ \A i \in 1..(Len(b) - k) : t[i] = b[k + i]
  OBVIOUS
<1> HIDE DEF h
<1>3. (d \o h) \in Seq(Nat) /\ Len(d \o h) = Len(d) + k
  <2>1. (d \o h) \in Seq(Nat)
    BY <1>1
  <2>2. Len(d \o h) = Len(d) + Len(h)
    BY <1>1, ConcatProperties
  <2> QED
    BY <2>1, <2>2, <1>1
<1>4. \A i \in 1..Len(d) : (d \o h)[i] = d[i]
  BY <1>1
<1>5. \A i \in 1..k : (d \o h)[Len(d) + i] = b[i]
  <2> TAKE i \in 1..k
  <2>1. (d \o h)[Len(d) + i] = h[i]
    BY <1>1
  <2> QED
    BY <2>1, <1>1
<1> QED
  BY <1>1, <1>2, <1>3, <1>4, <1>5 DEF h

\* If d and b are the stream 1, 2, 3, ... cut in two, so are they after the first
\* k elements of b moved to d: what read and empty remove from the front of the
\* buffer arrives in the order it was fed.
LEMMA CutKeepsOrder ==
    ASSUME NEW d \in Seq(Nat), NEW b \in Seq(Nat), NEW k \in 0..Len(b),
           \A i \in 1..Len(d) : d[i] = i,
           \A i \in 1..Len(b) : b[i] = Len(d) + i
    PROVE  /\ Len(d \o SubSeq(b, 1, k)) + Len(SubSeq(b, k + 1, Len(b))) = Len(d) + Len(b)
           /\ \A i \in 1..Len(d \o SubSeq(b, 1, k)) : (d \o SubSeq(b, 1, k))[i] = i
           /\ \A i \in 1..Len(SubSeq(b, k + 1, Len(b))) :
                 SubSeq(b, k + 1, Len(b))[i] = Len(d \o SubSeq(b, 1, k)) + i
<1> DEFINE d2 == d \o SubSeq(b, 1, k)
           b2 == SubSeq(b, k + 1, Len(b))
<1>0. /\ Len(d2) = Len(d) + k
      /\ Len(b2) = Len(b) - k
      /\ \A i \in 1..Len(d) : d2[i] = d[i]
      /\ \A i \in 1..k : d2[Len(d) + i] = b[i]
      /\ \A i \in 1..(Len(b) - k) : b2[i] = b[k + i]
  BY CutShape
<1> HIDE DEF d2, b2
<1>1. Len(d) \in Nat /\ Len(b) \in Nat /\ k \in Nat /\ k <= Len(b)
  OBVIOUS
<1>2. \A i \in 1..Len(d2) : d2[i] = i
  <2> TAKE i \in 1..Len(d2)
  <2>1. CASE i <= Len(d)
    <3>1. i \in 1..Len(d)
      BY <2>1, <1>0, <1>1
    <3> QED
      BY <3>1, <1>0
  <2>2. CASE ~(i <= Len(d))
    <3>1. i - Len(d) \in 1..k /\ i = Len(d) + (i - Len(d)) /\ i - Len(d) \in 1..Len(b)
      BY <2>2, <1>0, <1>1
    <3>2. d2[i] = b[i - Len(d)]
      BY <3>1, <1>0
    <3>3. b[i - Len(d)] = Len(d) + (i - Len(d))
      BY <3>1
    <3> QED
      BY <3>1, <3>2, <3>3
  <2> QED
    BY <2>1, <2>2
<1>3. \A i \in 1..Len(b2) : b2[i] = Len(d2) + i
  <2> TAKE i \in 1..Len(b2)
  <2>1. i \in 1..(Len(b) - k) /\ k + i \in 1..Len(b) /\ i \in Nat
    BY <1>0, <1>1
  <2>2. b2[i] = b[k + i] /\ b[k + i] = Len(d) + (k + i)
    BY <2>1, <1>0
  <2> QED
    BY <2>1, <2>2, <1>0, <1>1
<1>4. Len(d2) + Len(b2) = Len(d) + Len(b)
  BY <1>0, <1>1
<1> QED
  BY <1>2, <1>3, <1>4 DEF d2, b2

\* Taking the whole buffer is a cut at its end.
LEMMA WholeBuffer ==
    ASSUME NEW b \in Seq(Nat)
    PROVE  /\ SubSeq(b, 1, Len(b)) = b
           /\ SubSeq(b, Len(b) + 1, Len(b)) = <<>>
  OBVIOUS

\* Both ways Take removes bytes are cuts of the buffer.
LEMMA TakeIsCut ==
    ASSUME TypeOK, NEW r \in Readers, NEW n \in Nat \ {0}, Take(r, n)
    PROVE  \E k \in 0..Len(buffer) :
              /\ delivered' = delivered \o SubSeq(buffer, 1, k)
              /\ buffer' = SubSeq(buffer, k + 1, Len(buffer))
<1> USE DEF TypeOK
<1>0. Len(buffer) \in Nat
  OBVIOUS
<1>1. CASE Len(buffer) <= n
  <2>0. Len(buffer) \in 0..Len(buffer)
    BY <1>0
  <2> WITNESS Len(buffer) \in 0..Len(buffer)
  <2> QED
    BY <1>1, WholeBuffer DEF Take, TypeOK
<1>2. CASE ~(Len(buffer) <= n)
  <2>0. n \in 0..Len(buffer)
    BY <1>0, <1>2
  <2> WITNESS n \in 0..Len(buffer)
  <2> QED
    BY <1>2 DEF Take, TypeOK
<1> QED
  BY <1>1, <1>2

\* Feeding n bytes extends the buffered part of the stream by exactly those.
LEMMA FeedExtends ==
    ASSUME TypeOK, FifoIntegrity, NEW n \in Nat
    PROVE  /\ (buffer \o FedBytes(n)) \in Seq(Nat)
           /\ Len(buffer \o FedBytes(n)) = Len(buffer) + n
           /\ \A i \in 1..(Len(buffer) + n) :
                 (buffer \o FedBytes(n))[i] = Len(delivered) + i
<1> DEFINE f == FedBytes(n)
<1>0. /\ buffer \in Seq(Nat) /\ Len(buffer) \in Nat /\ Len(delivered) \in Nat /\ fed \in Nat
      /\ fed = Len(delivered) + Len(buffer)
  BY MaxFedAssumption DEF TypeOK, FifoIntegrity
<1>1. f \in Seq(Nat) /\ Len(f) = n /\ \A i \in 1..n : f[i] = fed + i
  BY <1>0 DEF FedBytes
<1> HIDE DEF f
<1>2. /\ (buffer \o f) \in Seq(Nat)
      /\ Len(buffer \o f) = Len(buffer) + Len(f)
      /\ \A i \in 1..(Len(buffer) + Len(f)) :
            (buffer \o f)[i] = IF i <= Len(buffer) THEN buffer[i] ELSE f[i - Len(buffer)]
  BY <1>0, <1>1, ConcatProperties
<1>3. \A i \in 1..(Len(buffer) + n) : (buffer \o f)[i] = Len(delivered) + i
  <2> TAKE i \in 1..(Len(buffer) + n)
  <2>1. CASE i <= Len(buffer)
    <3>1. i \in 1..Len(buffer)
      BY <2>1, <1>0
    <3>2. buffer[i] = Len(delivered) + i
      BY <3>1 DEF FifoIntegrity
    <3> QED
      BY <2>1, <3>2, <1>1, <1>2
  <2>2. CASE ~(i <= Len(buffer))
    <3>1. i - Len(buffer) \in 1..n /\ i \in Nat
      BY <2>2, <1>0
    <3>2. (buffer \o f)[i] = fed + (i - Len(buffer))
      BY <2>2, <3>1, <1>1, <1>2
    <3> QED
      BY <3>1, <3>2, <1>0
  <2> QED
    BY <2>1, <2>2
<1> QED
  BY <1>1, <1>2, <1>3 DEF f

-----------------------------------------------------------------------------

\* The invariant that is inductive: each safety property needs beside itself
\* only the types.
PipeInv == TypeOK /\ FifoIntegrity /\ NoLostWakeup /\ EventNeverMissed

\* A new pipe is empty, open, and nobody waits on it.
LEMMA InitInv == Init => PipeInv
<1> SUFFICES ASSUME Init PROVE PipeInv
  OBVIOUS
<1>1. TypeOK
  <2>1. NoCall \in [nbytes : Nat \ {0}, timeout : Timeouts]
    BY DEF NoCall, Timeouts
  <2>2. buffer \in Seq(Nat) /\ delivered \in Seq(Nat) /\ fed \in 0..MaxFed
    BY MaxFedAssumption DEF Init
  <2>3. call \in [Readers -> [nbytes : Nat \ {0}, timeout : Timeouts]]
    BY <2>1 DEF Init
  <2> QED
    BY <2>2, <2>3 DEF Init, TypeOK
<1>2. FifoIntegrity
  BY DEF Init, FifoIntegrity
<1>3. NoLostWakeup /\ EventNeverMissed
  BY DEF Init, NoLostWakeup, EventNeverMissed
<1> QED
  BY <1>1, <1>2, <1>3 DEF PipeInv

\* Every way bytes leave the buffer keeps their type and their order.
LEMMA CutStep ==
    ASSUME PipeInv, NEW k \in 0..Len(buffer),
           delivered' = delivered \o SubSeq(buffer, 1, k),
           buffer' = SubSeq(buffer, k + 1, Len(buffer)),
           fed' = fed
    PROVE  /\ buffer' \in Seq(Nat) /\ delivered' \in Seq(Nat)
           /\ FifoIntegrity'
<1>1. buffer \in Seq(Nat) /\ delivered \in Seq(Nat)
  BY DEF PipeInv, TypeOK
<1>2. /\ \A i \in 1..Len(delivered) : delivered[i] = i
      /\ \A i \in 1..Len(buffer) : buffer[i] = Len(delivered) + i
      /\ Len(delivered) + Len(buffer) = fed
  BY DEF PipeInv, FifoIntegrity
<1>3. delivered' \in Seq(Nat) /\ buffer' \in Seq(Nat)
  BY <1>1, CutShape
<1>4. /\ Len(delivered') + Len(buffer') = Len(delivered) + Len(buffer)
      /\ \A i \in 1..Len(delivered') : delivered'[i] = i
      /\ \A i \in 1..Len(buffer') : buffer'[i] = Len(delivered') + i
  BY <1>1, <1>2, CutKeepsOrder
<1> QED
  BY <1>2, <1>3, <1>4 DEF FifoIntegrity

\* One step of the pipe keeps the invariant, action by action.
LEMMA NextInv == PipeInv /\ [Next]_vars => PipeInv'
<1> SUFFICES ASSUME PipeInv, [Next]_vars PROVE PipeInv'
  OBVIOUS
<1>t. TypeOK /\ FifoIntegrity /\ NoLostWakeup /\ EventNeverMissed
  BY DEF PipeInv
<1>n. Len(buffer) \in Nat /\ (Len(buffer) = 0 <=> buffer = <<>>)
  BY <1>t DEF TypeOK
<1>p. NotifyAll \in [Readers -> {"idle", "notified"}]
  BY <1>t DEF NotifyAll, TypeOK
\* Take, with a waiter that owns the lock and a size from its call.
<1>k. ASSUME NEW r \in Readers, NEW n \in Nat \ {0}, Take(r, n)
      PROVE  PipeInv'
  <2>1. PICK k \in 0..Len(buffer) :
            /\ delivered' = delivered \o SubSeq(buffer, 1, k)
            /\ buffer' = SubSeq(buffer, k + 1, Len(buffer))
    BY <1>k, <1>t, TakeIsCut
  <2>2. buffer' \in Seq(Nat) /\ delivered' \in Seq(Nat) /\ FifoIntegrity'
    BY <1>k, <2>1, CutStep DEF Take
  <2>3. TypeOK'
    BY <1>k, <1>t, <2>2 DEF Take, Return, EventDrain, TypeOK
  <2>4. NoLostWakeup'
    <3> SUFFICES ASSUME NEW x \in Readers, pc'[x] = "waiting"
                 PROVE  buffer' = <<>> /\ ~closed'
      BY DEF NoLostWakeup
    <3>1. pc[x] = "waiting"
      BY <1>k, <1>t DEF Take, Return, TypeOK
    <3>2. buffer = <<>> /\ ~closed
      BY <1>t, <3>1 DEF NoLostWakeup
    <3>3. Len(buffer) <= n
      BY <1>n, <3>2
    <3> QED
      BY <1>k, <3>2, <3>3 DEF Take
  <2>5. EventNeverMissed'
    <3>1. CASE Len(buffer) <= n
      <4>1. buffer' = <<>> /\ event' = EventDrain /\ closed' = closed
        BY <1>k, <3>1 DEF Take
      <4>2. Len(buffer') = 0
        BY <4>1
      <4> QED
        BY <1>t, <4>1, <4>2 DEF EventNeverMissed, EventDrain
    <3>2. CASE ~(Len(buffer) <= n)
      <4>1. event' = event /\ closed' = closed /\ Len(buffer) > 0
        BY <1>k, <1>n, <3>2 DEF Take
      <4> QED
        BY <1>t, <4>1 DEF EventNeverMissed
    <3> QED
      BY <3>1, <3>2
  <2> QED
    BY <2>2, <2>3, <2>4, <2>5 DEF PipeInv
\* A return from read that leaves the buffer alone.
<1>r. ASSUME NEW r \in Readers, NEW how \in {"eof", "timeout"}, Return(r, how),
             UNCHANGED <<buffer, closed, event, call, delivered, fed>>
      PROVE  PipeInv'
  BY <1>t, <1>r DEF Return, PipeInv, TypeOK, FifoIntegrity, NoLostWakeup, EventNeverMissed
<1>1. CASE SetEvent
  BY <1>t, <1>1 DEF SetEvent, PipeInv, TypeOK, FifoIntegrity, NoLostWakeup, EventNeverMissed
<1>2. CASE Close
  <2>1. TypeOK'
    BY <1>t, <1>p, <1>2 DEF Close, TypeOK, EventSet
  <2>2. NoLostWakeup'
    BY <1>t, <1>p, <1>2 DEF Close, NoLostWakeup
  <2> QED
    BY <1>t, <1>2, <2>1, <2>2 DEF Close, PipeInv, FifoIntegrity, EventNeverMissed, EventSet
<1>3. CASE Empty
  <2>1. /\ delivered' = delivered \o SubSeq(buffer, 1, Len(buffer))
        /\ buffer' = SubSeq(buffer, Len(buffer) + 1, Len(buffer))
        /\ Len(buffer) \in 0..Len(buffer)
    <3>1. buffer \in Seq(Nat)
      BY <1>t DEF TypeOK
    <3>2. SubSeq(buffer, 1, Len(buffer)) = buffer /\ SubSeq(buffer, Len(buffer) + 1, Len(buffer)) = <<>>
      BY <3>1, WholeBuffer
    <3>3. delivered' = delivered \o buffer /\ buffer' = <<>>
      BY <1>3 DEF Empty
    <3>4. Len(buffer) \in 0..Len(buffer)
      BY <1>n
    <3> QED
      BY <3>2, <3>3, <3>4, Zenon
  <2>2. buffer' \in Seq(Nat) /\ delivered' \in Seq(Nat) /\ FifoIntegrity'
    BY <1>3, <2>1, CutStep DEF Empty
  <2>3. TypeOK'
    BY <1>t, <1>3, <2>2 DEF Empty, TypeOK, EventDrain
  <2>4. NoLostWakeup'
    BY <1>t, <1>3 DEF Empty, NoLostWakeup
  <2>5. EventNeverMissed'
    <3>1. Len(buffer') = 0
      BY <1>3 DEF Empty
    <3> QED
      BY <1>t, <1>3, <3>1 DEF Empty, EventNeverMissed, EventDrain
  <2> QED
    BY <2>2, <2>3, <2>4, <2>5 DEF PipeInv
<1>4. ASSUME NEW n \in ChunkSizes, Feed(n) PROVE PipeInv'
  <2>1. n \in Nat /\ fed \in Nat /\ fed' \in 0..MaxFed
    BY <1>t, <1>4, ChunkAssumption, MaxFedAssumption DEF Feed, TypeOK
  <2>2. /\ buffer' \in Seq(Nat)
        /\ Len(buffer') = Len(buffer) + n
        /\ \A i \in 1..(Len(buffer) + n) : buffer'[i] = Len(delivered) + i
    BY <1>t, <1>4, <2>1, FeedExtends DEF Feed
  <2>3. TypeOK'
    BY <1>t, <1>p, <1>4, <2>1, <2>2 DEF Feed, TypeOK, EventSet
  <2>4. FifoIntegrity'
    <3>1. Len(delivered) \in Nat /\ Len(delivered) + Len(buffer) = fed
      BY <1>t DEF TypeOK, FifoIntegrity
    <3>2. Len(delivered) + Len(buffer') = fed'
      <4>1. fed' = fed + n
        BY <1>4 DEF Feed
      <4>2. Len(buffer') = Len(buffer) + n
        BY <2>2
      <4> QED
        BY <1>n, <2>1, <3>1, <4>1, <4>2
    <3> QED
      BY <1>t, <1>4, <2>2, <3>2 DEF Feed, FifoIntegrity
  <2>5. NoLostWakeup' /\ EventNeverMissed'
    BY <1>p, <1>4 DEF Feed, NoLostWakeup, EventNeverMissed, EventSet
  <2> QED
    BY <2>3, <2>4, <2>5 DEF PipeInv
<1>5. ASSUME NEW r \in Readers, Resume(r) PROVE PipeInv'
  <2>1. CASE Len(buffer) = 0 /\ ~closed /\ pc' = [pc EXCEPT ![r] = "waiting"]
             /\ UNCHANGED <<buffer, closed, event, call, result, delivered, fed>>
    BY <1>t, <1>n, <2>1 DEF PipeInv, TypeOK, FifoIntegrity, NoLostWakeup, EventNeverMissed
  <2>2. CASE Take(r, call[r].nbytes)
    <3>1. call[r].nbytes \in Nat \ {0}
      BY <1>t DEF TypeOK
    <3> QED
      BY <2>2, <3>1, <1>k
  <2> QED
    BY <1>5, <2>1, <2>2 DEF Resume
<1>6. ASSUME NEW r \in Readers, Expire(r) PROVE PipeInv'
  BY <1>6, <1>r DEF Expire, TimeOut
<1>7. ASSUME NEW r \in Readers, NEW n \in ReadSizes, NEW t \in Timeouts, Read(r, n, t)
      PROVE  PipeInv'
  <2>0. n \in Nat \ {0}
    BY ReadAssumption
  <2>1. CASE Take(r, n)
    BY <2>0, <2>1, <1>k
  <2>2. CASE Return(r, "eof") /\ UNCHANGED <<buffer, closed, event, call, delivered, fed>>
    BY <2>2, <1>r
  <2>3. CASE TimeOut(r)
    BY <2>3, <1>r DEF TimeOut
  <2>4. CASE /\ Len(buffer) = 0 /\ ~closed
             /\ pc' = [pc EXCEPT ![r] = "waiting"]
             /\ call' = [call EXCEPT ![r] = [nbytes |-> n, timeout |-> t]]
             /\ UNCHANGED <<buffer, closed, event, result, delivered, fed>>
    <3>1. [nbytes |-> n, timeout |-> t] \in [nbytes : Nat \ {0}, timeout : Timeouts]
      BY <2>0
    <3>2. TypeOK'
      BY <1>t, <2>4, <3>1 DEF TypeOK
    <3> QED
      BY <1>t, <1>n, <2>4, <3>2 DEF PipeInv, TypeOK, FifoIntegrity, NoLostWakeup, EventNeverMissed
  <2> QED
    BY <1>7, <2>1, <2>2, <2>3, <2>4 DEF Read
<1>8. CASE UNCHANGED vars
  BY <1>t, <1>8 DEF vars, PipeInv, TypeOK, FifoIntegrity, NoLostWakeup, EventNeverMissed
<1> QED
  BY <1>1, <1>2, <1>3, <1>4, <1>5, <1>6, <1>7, <1>8 DEF Next

-----------------------------------------------------------------------------

\* The types of buffered_pipe.py's state are kept by all its methods.
THEOREM PipeTypes == Spec => []TypeOK
<1>1. PipeInv => TypeOK
  BY DEF PipeInv
<1> QED
  BY <1>1, InitInv, NextInv, PTL DEF Spec

\* feed, read and empty neither lose nor duplicate nor reorder a byte.
THEOREM PipeFifo == Spec => []FifoIntegrity
<1>1. PipeInv => FifoIntegrity
  BY DEF PipeInv
<1> QED
  BY <1>1, InitInv, NextInv, PTL DEF Spec

\* No reader is left waiting by feed or close, with any number of readers.
THEOREM PipeNoLostWakeup == Spec => []NoLostWakeup
<1>1. PipeInv => NoLostWakeup
  BY DEF PipeInv
<1> QED
  BY <1>1, InitInv, NextInv, PTL DEF Spec

\* A select loop on the installed event never misses data or the close.
THEOREM PipeEventNeverMissed == Spec => []EventNeverMissed
<1>1. PipeInv => EventNeverMissed
  BY DEF PipeInv
<1> QED
  BY <1>1, InitInv, NextInv, PTL DEF Spec

\* A reader is told of the end of file only by a pipe that is closed and empty: a reader
\* whose bytes another one took goes back to its wait.
THEOREM PipeEofOnlyAtEnd == Spec => EofOnlyAtEnd
<1> DEFINE Ends == \A r \in Readers : result[r] # "eof" /\ result'[r] = "eof" => closed /\ buffer = <<>>
<1>1. TypeOK /\ [Next]_vars => [Ends]_vars
  <2> SUFFICES ASSUME TypeOK, Next, NEW r \in Readers, result[r] # "eof", result'[r] = "eof"
               PROVE  closed /\ buffer = <<>>
    OBVIOUS
  <2>1. result \in [Readers -> {"nothing", "data", "eof", "timeout"}] /\ buffer \in Seq(Nat)
    BY DEF TypeOK
  <2>2. PICK q \in Readers : \/ Resume(q) \/ Expire(q)
                             \/ \E n \in ReadSizes, t \in Timeouts : Read(q, n, t)
    BY DEF Next, SetEvent, Close, Empty, Feed
  <2>3. ASSUME NEW how \in {"data", "timeout"}, Return(q, how) PROVE FALSE
    BY <2>1, <2>3 DEF Return
  <2>4. CASE Resume(q)
    <3>1. (Len(buffer) > 0 \/ closed) /\ Take(q, call[q].nbytes)
      BY <2>4 DEF Resume
    <3>2. CASE buffer = <<>>
      BY <2>1, <3>1, <3>2
    <3>3. CASE buffer # <<>>
      BY <2>3, <3>1, <3>3 DEF Take
    <3> QED
      BY <3>2, <3>3
  <2>5. CASE Expire(q)
    BY <2>3, <2>5 DEF Expire, TimeOut
  <2>6. ASSUME NEW n \in ReadSizes, NEW t \in Timeouts, Read(q, n, t) PROVE closed /\ buffer = <<>>
    <3>1. CASE Len(buffer) > 0 /\ Take(q, n)
      BY <2>1, <2>3, <3>1 DEF Take
    <3>2. CASE Len(buffer) = 0 /\ closed
      BY <2>1, <3>2
    <3>3. CASE TimeOut(q)
      BY <2>3, <3>3 DEF TimeOut
    <3>4. CASE UNCHANGED result
      BY <3>4
    <3> QED
      BY <2>6, <3>1, <3>2, <3>3, <3>4 DEF Read
  <2> QED
    BY <2>2, <2>4, <2>5, <2>6
<1>2. PipeInv => TypeOK
  BY DEF PipeInv
<1> QED
  BY <1>1, <1>2, InitInv, NextInv, PTL DEF Spec, EofOnlyAtEnd
=============================================================================
