-------------------------- MODULE Channel_proofs --------------------------
(***************************************************************************)
(* Proofs about Channel, for any set of users at either end, any methods   *)
(* they call, any sizes of windows, packets, writes and reads: its types,  *)
(* that a sender never sleeps beside an open window, that a side sends one *)
(* EOF and one CLOSE at most, and that a request somebody waits for is     *)
(* still under way.                                                        *)
(***************************************************************************)
EXTENDS Channel, SequenceTheorems, TLAPS

ChOK == ch \in [Sides -> ChannelStates]

\* Where Dispatch may send a thread when its outbox is empty again.
Resumptions == {"idle", "send", "reqwait"}

\* A thread has messages to send exactly while it is sending them, and what a
\* caller of a request sends before it waits is that request.
GoodThreads ==
    {x \in ThreadStates :
        /\ x.pc = "transmit" <=> x.out # <<>>
        /\ x.after \in Resumptions
        /\ x.after = "reqwait" /\ x.pc = "transmit" => Len(x.out) = 1 /\ x.out[1].type = "request"}

ThOK == th \in [Threads -> GoodThreads]
WireOK == wire \in [Sides -> Seq(Messages)]
UpOK == up \in [Sides -> BOOLEAN]
SentOK == sent \in [Sides -> [eof : Nat, close : Nat]]
Typed == ChOK /\ ThOK /\ WireOK /\ UpOK /\ SentOK

-----------------------------------------------------------------------------
(* What the helpers of the actions return                                   *)

\* The two ends are each other's peers.
LEMMA PeerFacts == \A e \in Sides : Peer(e) \in Sides /\ Peer(e) # e /\ Peer(Peer(e)) = e
  BY DEF Sides, Peer

\* A user thread works at its side, a transport thread at its own.
LEMMA HomeFacts ==
    /\ \A u \in Users : u \in Threads /\ u \notin Sides /\ Home(u) = SideOf[u] /\ SideOf[u] \in Sides
    /\ \A e \in Sides : e \in Threads /\ Home(e) = e
    /\ \A t \in Threads : Home(t) \in Sides
<1>1. Users \cap Sides = {} /\ SideOf \in [Users -> Sides]
  BY ThreadAssumption
<1> QED
  BY <1>1 DEF Home, Threads

\* A message made of parts of the right kind.
LEMMA MsgFacts ==
    ASSUME NEW type \in MsgTypes, NEW n \in Nat
    PROVE  /\ Msg(type, n) \in Messages
           /\ Msg(type, n).type = type
           /\ Msg(type, n).n = n
           /\ <<Msg(type, n)>> \in Seq(Messages)
<1>1. Msg(type, n) \in Messages /\ Msg(type, n).type = type /\ Msg(type, n).n = n
  BY DEF Msg, Messages
<1> QED
  BY <1>1

\* The messages that end a stream or a channel.
LEMMA EndMessages ==
    ASSUME NEW c \in ChannelStates
    PROVE  /\ EofMessages(c) \in Seq(Messages)
           /\ CloseMessages(c) \in Seq(Messages)
<1>1. Msg("eof", 0) \in Messages /\ Msg("close", 0) \in Messages
  BY MsgFacts DEF MsgTypes
<1>2. EofMessages(c) \in Seq(Messages)
  BY <1>1 DEF EofMessages
<1>3. EofMessages(c) \o <<Msg("close", 0)>> \in Seq(Messages)
  BY <1>1, <1>2
<1> QED
  BY <1>2, <1>3 DEF CloseMessages

\* Closing keeps the record a channel.
LEMMA ClosedTypes ==
    ASSUME NEW c \in ChannelStates
    PROVE  /\ SetClosed(c) \in ChannelStates
           /\ CloseInternal(c) \in ChannelStates
           /\ [SetClosed(c) EXCEPT !.linked = FALSE] \in ChannelStates
           /\ [CloseInternal(c) EXCEPT !.linked = FALSE] \in ChannelStates
<1>1. SetClosed(c) \in ChannelStates
  BY DEF SetClosed, ChannelStates
<1>2. CloseInternal(c) \in ChannelStates
  BY <1>1 DEF CloseInternal, ChannelStates
<1> QED
  BY <1>1, <1>2 DEF ChannelStates

\* A thread with nothing to send leaves the lock with some messages, or none.
LEMMA DispatchTypes ==
    ASSUME NEW x \in GoodThreads, x.pc # "transmit", NEW messages \in Seq(Messages),
           NEW place \in Resumptions,
           place = "reqwait" => Len(messages) = 1 /\ messages[1].type = "request"
    PROVE  /\ Dispatch(x, messages, place) \in GoodThreads
           /\ Dispatch(x, messages, place).out = messages
           /\ Dispatch(x, messages, place).pc = IF messages = <<>> THEN place ELSE "transmit"
           /\ messages # <<>> => Dispatch(x, messages, place).after = place
<1>1. x \in ThreadStates /\ x.out = <<>> /\ x.after \in Resumptions
  BY DEF GoodThreads
<1>2. place \in Places /\ "transmit" \in Places /\ place # "transmit"
  BY DEF Places, Resumptions
<1>3. CASE messages = <<>>
  BY <1>1, <1>2, <1>3 DEF Dispatch, At, GoodThreads, ThreadStates
<1>4. CASE messages # <<>>
  BY <1>1, <1>2, <1>4 DEF Dispatch, GoodThreads, ThreadStates
<1> QED
  BY <1>3, <1>4

\* A user that begins a call.
LEMMA EnterTypes ==
    ASSUME ThOK, NEW u \in Users, th[u].pc = "idle",
           NEW method \in Methods, NEW n \in Nat, NEW place \in Places, place # "transmit"
    PROVE  /\ Enter(u, method, n, place) \in GoodThreads
           /\ Enter(u, method, n, place).pc = place
           /\ Enter(u, method, n, place).out = <<>>
<1>1. th[u] \in ThreadStates /\ th[u] \in GoodThreads
  BY HomeFacts DEF ThOK, GoodThreads
<1>2. th[u].calls + 1 \in Nat /\ method \in Methods \cup {"none", "in", "err"}
  BY <1>1 DEF ThreadStates
<1>3. th[u].out = <<>> /\ th[u].after \in Resumptions
  BY <1>1 DEF GoodThreads
<1> QED
  BY <1>1, <1>2, <1>3 DEF Enter, ThreadStates, GoodThreads

\* Waking touches nothing but the places of the waiting threads.
LEMMA WakeFacts ==
    ASSUME ThOK, NEW e \in Sides
    PROVE  /\ Wake(th, e) \in [Threads -> GoodThreads]
           /\ \A t \in Threads :
                 /\ Wake(th, e)[t].pc = IF th[t].pc = "sendwait" /\ Home(t) = e
                                        THEN "sendwoken" ELSE th[t].pc
                 /\ Wake(th, e)[t].out = th[t].out
                 /\ Wake(th, e)[t].after = th[t].after
                 /\ Wake(th, e)[t].n = th[t].n
                 /\ th[t].pc # "sendwait" => Wake(th, e)[t] = th[t]
<1> DEFINE W(t) == IF th[t].pc = "sendwait" /\ Home(t) = e
                   THEN [th[t] EXCEPT !.pc = "sendwoken"] ELSE th[t]
<1>1. ASSUME NEW t \in Threads
      PROVE  /\ W(t) \in GoodThreads
             /\ W(t).pc = IF th[t].pc = "sendwait" /\ Home(t) = e THEN "sendwoken" ELSE th[t].pc
             /\ W(t).out = th[t].out /\ W(t).after = th[t].after /\ W(t).n = th[t].n
             /\ th[t].pc # "sendwait" => W(t) = th[t]
  <2>1. th[t] \in GoodThreads
    BY DEF ThOK
  <2>2. "sendwoken" \in Places
    BY DEF Places
  <2> QED
    BY <2>1, <2>2 DEF GoodThreads, ThreadStates
<1>2. Wake(th, e) = [t \in Threads |-> W(t)]
  BY DEF Wake
<1> HIDE DEF W
<1> QED
  BY <1>1, <1>2

-----------------------------------------------------------------------------
(* Types: replacing one component                                           *)

\* One thread is replaced by a good one.
LEMMA ThReplaced ==
    ASSUME ThOK, NEW t \in Threads, NEW x \in GoodThreads, th' = [th EXCEPT ![t] = x]
    PROVE  ThOK'
  BY DEF ThOK

\* One Channel is replaced by a typed one.
LEMMA ChReplaced ==
    ASSUME ChOK, NEW e \in Sides, NEW c \in ChannelStates, ch' = [ch EXCEPT ![e] = c]
    PROVE  ChOK'
  BY DEF ChOK

\* A thread only moves.
LEMMA MoveTypes ==
    ASSUME ThOK, NEW t \in Threads, th[t].pc # "transmit",
           NEW place \in Places, place # "transmit", th' = [th EXCEPT ![t].pc = place]
    PROVE  ThOK'
<1>1. th[t] \in GoodThreads
  BY DEF ThOK
<1>2. [th[t] EXCEPT !.pc = place] \in GoodThreads
  BY <1>1 DEF ThreadStates, GoodThreads
<1>3. th' = [th EXCEPT ![t] = [th[t] EXCEPT !.pc = place]]
  BY DEF ThOK
<1> QED
  BY <1>2, <1>3, ThReplaced

\* A thread moves with another amount in hand.
LEMMA MoveCarryTypes ==
    ASSUME ThOK, NEW t \in Threads, th[t].pc # "transmit",
           NEW place \in Places, place # "transmit", NEW n \in Nat
    PROVE  /\ [th EXCEPT ![t].pc = place, ![t].n = n] \in [Threads -> GoodThreads]
           /\ [th[t] EXCEPT !.n = n] \in GoodThreads
           /\ [th[t] EXCEPT !.n = n].pc = th[t].pc
<1>1. th[t] \in GoodThreads
  BY DEF ThOK
<1>2. [th[t] EXCEPT !.pc = place, !.n = n] \in GoodThreads
  BY <1>1 DEF ThreadStates, GoodThreads
<1>3. [th[t] EXCEPT !.n = n] \in GoodThreads /\ [th[t] EXCEPT !.n = n].pc = th[t].pc
  BY <1>1 DEF ThreadStates, GoodThreads
<1>4. [th EXCEPT ![t].pc = place, ![t].n = n] = [th EXCEPT ![t] = [th[t] EXCEPT !.pc = place, !.n = n]]
  BY DEF ThOK
<1> QED
  BY <1>2, <1>3, <1>4 DEF ThOK

\* A user enters a call.
LEMMA EnterStepTypes ==
    ASSUME ThOK, NEW u \in Users, NEW method \in Methods, MayCall(u, method),
           NEW n \in Nat, NEW place \in Places, place # "transmit",
           th' = [th EXCEPT ![u] = Enter(u, method, n, place)]
    PROVE  ThOK'
  BY EnterTypes, ThReplaced, HomeFacts DEF MayCall

\* The message a transport thread is handling.
LEMMA HeadFacts ==
    ASSUME WireOK, NEW e \in Sides, NextMessage(e)
    PROVE  /\ Peer(e) \in Sides
           /\ wire[Peer(e)] \in Seq(Messages) /\ wire[Peer(e)] # <<>>
           /\ Head(wire[Peer(e)]) \in Messages
           /\ Amount(e) \in Nat
           /\ wire' = [wire EXCEPT ![Peer(e)] = Tail(wire[Peer(e)])]
           /\ WireOK'
<1>1. Peer(e) \in Sides
  BY PeerFacts
<1>2. wire[Peer(e)] \in Seq(Messages) /\ wire[Peer(e)] # <<>>
  BY <1>1 DEF WireOK, NextMessage
<1>3. Head(wire[Peer(e)]) \in Messages /\ Tail(wire[Peer(e)]) \in Seq(Messages)
  BY <1>2
<1>4. Amount(e) \in Nat
  BY <1>3 DEF Amount, Messages
<1>5. wire' = [wire EXCEPT ![Peer(e)] = Tail(wire[Peer(e)])]
  BY DEF NextMessage
<1> QED
  BY <1>1, <1>2, <1>3, <1>4, <1>5 DEF WireOK

-----------------------------------------------------------------------------
(* Types: the actions                                                       *)

\* _send_user_message
LEMMA TransmitTypes ==
    ASSUME Typed, NEW t \in Threads, Transmit(t)
    PROVE  Typed'
<1> DEFINE e == Home(t)
           m == Head(th[t].out)
           rest == Tail(th[t].out)
           x == [th[t] EXCEPT !.out = rest, !.pc = IF rest = <<>> THEN th[t].after ELSE "transmit"]
<1>1. e \in Sides /\ th[t] \in GoodThreads /\ wire[e] \in Seq(Messages) /\ th[t].pc = "transmit"
  BY HomeFacts DEF Typed, ThOK, WireOK, Transmit
<1>2. th[t].out \in Seq(Messages) /\ th[t].after \in Resumptions /\ th[t].out # <<>>
  BY <1>1 DEF ThreadStates, GoodThreads
<1>3. m \in Messages /\ rest \in Seq(Messages) /\ (Len(th[t].out) = 1 => rest = <<>>)
  <2>1. m \in Messages /\ rest \in Seq(Messages) /\ Len(rest) = Len(th[t].out) - 1
    BY <1>2, HeadTailProperties
  <2>2. Len(rest) = 0 => rest = <<>>
    BY <2>1, EmptySeq
  <2> QED
    BY <2>1, <2>2
<1>4. th' = [th EXCEPT ![t] = x]
  BY DEF Transmit, Typed, ThOK
<1>5. x \in GoodThreads
  <2>1. "transmit" \in Places /\ Resumptions \subseteq Places /\ "transmit" \notin Resumptions
    BY DEF Places, Resumptions
  <2>2. th[t].after = "reqwait" => rest = <<>>
    BY <1>1, <1>3 DEF GoodThreads
  <2> HIDE DEF rest
  <2> QED
    BY <1>1, <1>2, <1>3, <2>1, <2>2 DEF GoodThreads, ThreadStates
<1>6. WireOK'
  <2>1. Append(wire[e], m) \in Seq(Messages)
    BY <1>1, <1>3
  <2>2. wire' = wire \/ wire' = [wire EXCEPT ![e] = Append(wire[e], m)]
    BY DEF Transmit
  <2> HIDE DEF m, e
  <2> QED
    BY <2>1, <2>2 DEF Typed, WireOK
<1>7. SentOK'
  <2> DEFINE a == IF m.type = "eof" THEN 1 ELSE 0
             b == IF m.type = "close" THEN 1 ELSE 0
  <2>1. sent' = sent \/ sent' = [sent EXCEPT ![e].eof = @ + a, ![e].close = @ + b]
    BY DEF Transmit
  <2>2. a \in Nat /\ b \in Nat
    OBVIOUS
  <2>3. sent[e].eof + a \in Nat /\ sent[e].close + b \in Nat /\ sent[e] \in [eof : Nat, close : Nat]
    BY <1>1, <2>2 DEF Typed, SentOK
  <2> HIDE DEF m, e, a, b
  <2>4. [sent[e] EXCEPT !.eof = @ + a, !.close = @ + b] \in [eof : Nat, close : Nat]
    BY <2>3
  <2>5. sent' = sent \/ sent' = [sent EXCEPT ![e] = [sent[e] EXCEPT !.eof = @ + a, !.close = @ + b]]
    BY <2>1, <1>1 DEF Typed, SentOK
  <2> QED
    BY <2>4, <2>5 DEF Typed, SentOK
<1>8. ch' = ch /\ up' = up
  BY DEF Transmit
<1> HIDE DEF x
<1>9. ThOK'
  BY <1>4, <1>5, ThReplaced DEF Typed
<1> QED
  BY <1>6, <1>7, <1>8, <1>9 DEF Typed, ChOK, UpOK

\* The fields of a channel a user or a transport thread changes without closing it.
LEMMA ChannelFieldTypes ==
    ASSUME ChOK, NEW e \in Sides
    PROVE  /\ ch[e] \in ChannelStates
           /\ ch' = ch => ChOK'
           /\ \A n \in Nat : ch' = [ch EXCEPT ![e].outWindow = n] => ChOK'
           /\ \A n \in Nat : ch' = [ch EXCEPT ![e].inBuffer = n] => ChOK'
           /\ \A n \in Nat : ch' = [ch EXCEPT ![e].errBuffer = n] => ChOK'
           /\ \A n \in Nat : ch' = [ch EXCEPT ![e].inSofar = n] => ChOK'
           /\ \A n \in Nat, b \in BOOLEAN :
                 ch' = [ch EXCEPT ![e].combine = b, ![e].errBuffer = n] => ChOK'
           /\ ch' = [ch EXCEPT ![e].eofSent = TRUE] => ChOK'
           /\ ch' = [ch EXCEPT ![e].eofReceived = TRUE] => ChOK'
           /\ ch' = [ch EXCEPT ![e].status = TRUE] => ChOK'
           /\ ch' = [ch EXCEPT ![e].eofReceived = TRUE, ![e].bufClosed = TRUE] => ChOK'
           /\ \A b \in BOOLEAN :
                 ch' = [ch EXCEPT ![e].event = b, ![e].eventReady = b] => ChOK'
<1>1. ch[e] \in ChannelStates /\ (ch' = ch => ChOK')
  BY DEF ChOK
<1>2. ASSUME NEW n \in Nat
      PROVE  /\ ch' = [ch EXCEPT ![e].outWindow = n] => ChOK'
             /\ ch' = [ch EXCEPT ![e].inBuffer = n] => ChOK'
             /\ ch' = [ch EXCEPT ![e].errBuffer = n] => ChOK'
             /\ ch' = [ch EXCEPT ![e].inSofar = n] => ChOK'
  BY <1>1 DEF ChOK, ChannelStates
<1>3. ASSUME NEW n \in Nat, NEW b \in BOOLEAN
      PROVE  /\ ch' = [ch EXCEPT ![e].combine = b, ![e].errBuffer = n] => ChOK'
             /\ ch' = [ch EXCEPT ![e].event = b, ![e].eventReady = b] => ChOK'
  BY <1>1 DEF ChOK, ChannelStates
<1>4. ASSUME NEW b \in BOOLEAN
      PROVE  /\ ch' = [ch EXCEPT ![e].eofSent = b] => ChOK'
             /\ ch' = [ch EXCEPT ![e].eofReceived = b] => ChOK'
             /\ ch' = [ch EXCEPT ![e].status = b] => ChOK'
             /\ ch' = [ch EXCEPT ![e].eofReceived = b, ![e].bufClosed = b] => ChOK'
  BY <1>1 DEF ChOK, ChannelStates
<1>5. /\ ch' = [ch EXCEPT ![e].eofSent = TRUE] => ChOK'
      /\ ch' = [ch EXCEPT ![e].eofReceived = TRUE] => ChOK'
      /\ ch' = [ch EXCEPT ![e].status = TRUE] => ChOK'
      /\ ch' = [ch EXCEPT ![e].eofReceived = TRUE, ![e].bufClosed = TRUE] => ChOK'
  BY <1>4, Zenon
<1> QED
  BY <1>1, <1>2, <1>3, <1>5

\* Threads only: nothing else changes.
LEMMA OnlyThreads ==
    ASSUME Typed, ThOK', UNCHANGED <<ch, wire, up, sent>>
    PROVE  Typed'
  BY DEF Typed, ChOK, WireOK, UpOK, SentOK

\* Threads and channels: the messages on the wire stay.
LEMMA OnlyThreadsAndChannels ==
    ASSUME Typed, ThOK', ChOK', UNCHANGED <<wire, up, sent>>
    PROVE  Typed'
  BY DEF Typed, WireOK, UpOK, SentOK

\* send and its variants, recv and its variants, the waits: a call begins.
LEMMA CallTypes ==
    ASSUME Typed, NEW u \in Users,
           \/ \E n \in SendSizes, m \in Methods : CallSend(u, m, n)
           \/ \E n \in ReadSizes, m \in Methods : CallRecv(u, m, n)
           \/ CallRequest(u)
           \/ CallRecvExitStatus(u)
    PROVE  Typed'
<1>1. \A n \in SendSizes \cup ReadSizes : n \in Nat
  BY SizeAssumption
<1>2. {"send", "recv", "statwait", "reqpend", "idle"} \subseteq Places \ {"transmit"}
  BY DEF Places
<1>3. {"request", "recv_exit_status"} \subseteq Methods
  BY DEF Methods
<1>4. ASSUME NEW n \in SendSizes, NEW m \in Methods, CallSend(u, m, n) PROVE Typed'
  <2>1. ThOK'
    BY <1>1, <1>2, <1>4, EnterStepTypes DEF CallSend, Typed
  <2> QED
    BY <1>4, <2>1, OnlyThreads DEF CallSend
<1>5. ASSUME NEW n \in ReadSizes, NEW m \in Methods, CallRecv(u, m, n) PROVE Typed'
  <2>1. ThOK'
    BY <1>1, <1>2, <1>5, EnterStepTypes DEF CallRecv, Typed
  <2> QED
    BY <1>5, <2>1, OnlyThreads DEF CallRecv
<1>6. CASE CallRequest(u)
  <2>1. PICK place \in {"reqpend", "idle"} : th' = [th EXCEPT ![u] = Enter(u, "request", 0, place)]
    BY <1>6 DEF CallRequest
  <2>2. place \in Places /\ place # "transmit" /\ "request" \in Methods /\ MayCall(u, "request")
    BY <1>2, <1>3, <1>6 DEF CallRequest
  <2>3. ThOK'
    BY <2>1, <2>2, EnterStepTypes DEF Typed
  <2> QED
    BY <1>6, <2>3, OnlyThreads DEF CallRequest
<1>7. CASE CallRecvExitStatus(u)
  <2>1. ThOK'
    BY <1>2, <1>3, <1>7, EnterStepTypes DEF CallRecvExitStatus, Typed
  <2> QED
    BY <1>7, <2>1, OnlyThreads DEF CallRecvExitStatus
<1> QED
  BY <1>4, <1>5, <1>6, <1>7

\* What a caller sends right away.
LEMMA CallAndSendTypes ==
    ASSUME ThOK, NEW u \in Users, NEW method \in Methods, MayCall(u, method),
           NEW messages \in Seq(Messages)
    PROVE  Dispatch(Enter(u, method, 0, "idle"), messages, "idle") \in GoodThreads
<1>1. "idle" \in Places /\ "idle" \in Resumptions
  BY DEF Places, Resumptions
<1>2. Enter(u, method, 0, "idle") \in GoodThreads /\ Enter(u, method, 0, "idle").pc = "idle"
  BY <1>1, EnterTypes DEF MayCall
<1> QED
  BY <1>1, <1>2, DispatchTypes

\* close, send_exit_status
LEMMA CallCloseTypes ==
    ASSUME Typed, NEW u \in Users, CallClose(u) \/ CallSendExitStatus(u)
    PROVE  Typed'
<1>1. u \in Threads /\ SideOf[u] \in Sides
  BY HomeFacts
<1>2. ch[SideOf[u]] \in ChannelStates
  BY <1>1 DEF Typed, ChOK
<1>3. "close" \in Methods /\ "send_exit_status" \in Methods
  BY DEF Methods
<1>4. CASE CallClose(u)
  <2> DEFINE e == SideOf[u]
             x == Dispatch(Enter(u, "close", 0, "idle"), CloseMessages(ch[e]), "idle")
  <2>1. x \in GoodThreads
    BY <1>2, <1>3, <1>4, CallAndSendTypes, EndMessages DEF CallClose, Typed
  <2>2. th' = [Wake(th, e) EXCEPT ![u] = x] /\ ch' = [ch EXCEPT ![e] = CloseInternal(ch[e])]
    BY <1>4 DEF CallClose
  <2>3. Wake(th, e) \in [Threads -> GoodThreads]
    BY <1>1, WakeFacts DEF Typed
  <2> HIDE DEF x
  <2>4. ThOK'
    BY <2>1, <2>2, <2>3 DEF ThOK
  <2>5. ChOK'
    BY <1>1, <1>2, <2>2, ClosedTypes, ChReplaced DEF Typed
  <2> QED
    BY <1>4, <2>4, <2>5, OnlyThreadsAndChannels DEF CallClose
<1>5. CASE CallSendExitStatus(u)
  <2>1. <<Msg("status", 0)>> \in Seq(Messages)
    BY MsgFacts DEF MsgTypes
  <2>2. Dispatch(Enter(u, "send_exit_status", 0, "idle"), <<Msg("status", 0)>>, "idle") \in GoodThreads
    BY <1>3, <1>5, <2>1, CallAndSendTypes DEF CallSendExitStatus, Typed
  <2>3. ThOK'
    BY <1>1, <1>5, <2>2, ThReplaced DEF CallSendExitStatus, Typed
  <2> QED
    BY <1>5, <2>3, OnlyThreads DEF CallSendExitStatus
<1> QED
  BY <1>4, <1>5

\* The write half of shutdown.
LEMMA SendEofTypes ==
    ASSUME Typed, NEW u \in Users, NEW x \in GoodThreads, x.pc # "transmit", SendEof(u, x)
    PROVE  Typed'
<1>1. u \in Threads /\ SideOf[u] \in Sides /\ ch[SideOf[u]] \in ChannelStates
  BY HomeFacts DEF Typed, ChOK
<1>2. "idle" \in Resumptions
  BY DEF Resumptions
<1>3. Dispatch(x, EofMessages(ch[SideOf[u]]), "idle") \in GoodThreads
  BY <1>1, <1>2, EndMessages, DispatchTypes
<1>4. ThOK'
  BY <1>1, <1>3, ThReplaced DEF SendEof, Typed
<1>5. ChOK'
  BY <1>1, ChannelFieldTypes DEF SendEof, Typed
<1> QED
  BY <1>4, <1>5, OnlyThreadsAndChannels DEF SendEof

\* shutdown
LEMMA ShutdownTypes ==
    ASSUME Typed, NEW u \in Users, (\E m \in Methods : CallShutdown(u, m)) \/ ShutdownWrite(u)
    PROVE  Typed'
<1>1. u \in Threads /\ SideOf[u] \in Sides /\ th[u] \in GoodThreads
  BY HomeFacts DEF Typed, ThOK
<1>2. {"idle", "shutwrite"} \subseteq Places \ {"transmit"}
  BY DEF Places
<1>3. ASSUME NEW m \in Methods, CallShutdown(u, m) PROVE Typed'
  <2>1. CASE SendEof(u, Enter(u, m, 0, "idle"))
    <3>1. th[u].pc = "idle" /\ ThOK
      BY <1>3 DEF CallShutdown, MayCall, Typed
    <3>2. Enter(u, m, 0, "idle") \in GoodThreads /\ Enter(u, m, 0, "idle").pc = "idle"
      BY <1>2, <3>1, EnterTypes
    <3> QED
      BY <2>1, <3>2, SendEofTypes
  <2>2. CASE /\ ch' = [ch EXCEPT ![SideOf[u]].eofReceived = TRUE]
             /\ th' = [th EXCEPT ![u] = Enter(u, m, 0, IF m = "shutdown_both" THEN "shutwrite" ELSE "idle")]
             /\ UNCHANGED <<wire, up, sent>>
    <3>1. PICK place \in {"idle", "shutwrite"} : th' = [th EXCEPT ![u] = Enter(u, m, 0, place)]
      BY <2>2
    <3>2. place \in Places /\ place # "transmit" /\ MayCall(u, m)
      BY <1>2, <1>3 DEF CallShutdown
    <3>3. ThOK'
      BY <3>1, <3>2, EnterStepTypes DEF Typed
    <3>4. ChOK'
      BY <1>1, <2>2, ChannelFieldTypes DEF Typed
    <3> QED
      BY <2>2, <3>3, <3>4, OnlyThreadsAndChannels
  <2> QED
    BY <1>3, <2>1, <2>2 DEF CallShutdown
<1>4. CASE ShutdownWrite(u)
  BY <1>1, <1>4, SendEofTypes DEF ShutdownWrite
<1> QED
  BY <1>3, <1>4

\* set_combine_stderr
LEMMA CombineTypes ==
    ASSUME Typed, NEW u \in Users, (\E m \in Methods : CallCombine(u, m)) \/ Refeed(u)
    PROVE  Typed'
<1> DEFINE e == SideOf[u]
<1>1. u \in Threads /\ e \in Sides /\ ch[e] \in ChannelStates /\ th[u] \in GoodThreads
  BY HomeFacts DEF Typed, ChOK, ThOK
<1>2. ch[e].errBuffer \in Nat /\ ch[e].inBuffer \in Nat /\ th[u].n \in Nat
  BY <1>1 DEF ChannelStates, GoodThreads, ThreadStates
<1>3. {"idle", "refeed"} \subseteq Places \ {"transmit"}
  BY DEF Places
<1>4. ASSUME NEW m \in Methods, CallCombine(u, m) PROVE Typed'
  <2> DEFINE on == m = "combine_stderr"
             moved == IF on /\ ~ch[e].combine THEN ch[e].errBuffer ELSE 0
             place == IF moved > 0 THEN "refeed" ELSE "idle"
  <2>1. /\ ch' = [ch EXCEPT ![e].combine = on, ![e].errBuffer = ch[e].errBuffer - moved]
        /\ th' = [th EXCEPT ![u] = Enter(u, m, moved, place)]
        /\ MayCall(u, m)
    BY <1>1, <1>4 DEF CallCombine, Typed, ChOK, ChannelStates
  <2>2. moved \in Nat /\ ch[e].errBuffer - moved \in Nat /\ on \in BOOLEAN
    BY <1>2
  <2>3. place \in Places /\ place # "transmit"
    BY <1>3
  <2> HIDE DEF on, moved, place, e
  <2>4. ThOK'
    BY <2>1, <2>2, <2>3, EnterStepTypes DEF Typed
  <2>5. ChOK'
    BY <1>1, <2>1, <2>2, ChannelFieldTypes DEF Typed
  <2> QED
    BY <1>4, <2>4, <2>5, OnlyThreadsAndChannels DEF CallCombine
<1>5. CASE Refeed(u)
  <2>1. ch[e].inBuffer + th[u].n \in Nat /\ th[u].pc # "transmit"
    BY <1>2, <1>5 DEF Refeed
  <2>2. ThOK'
    BY <1>1, <1>3, <1>5, <2>1, MoveCarryTypes DEF Refeed, Typed, ThOK
  <2>3. ch' = [ch EXCEPT ![e].inBuffer = ch[e].inBuffer + th[u].n]
    BY <1>1, <1>5 DEF Refeed, Typed, ChOK
  <2>4. ChOK'
    BY <1>1, <2>1, <2>3, ChannelFieldTypes DEF Typed
  <2> QED
    BY <1>5, <2>2, <2>4, OnlyThreadsAndChannels DEF Refeed
<1> QED
  BY <1>4, <1>5

\* The steps of a call that only move its thread.
LEMMA UserMoveTypes ==
    ASSUME Typed, NEW u \in Users, TimesOut(u) \/ WaitForEvent(u) \/ RecvExitStatus(u)
    PROVE  Typed'
<1>1. u \in Threads /\ "idle" \in Places
  BY HomeFacts DEF Places
<1>2. th[u].pc # "transmit" /\ th' = [th EXCEPT ![u].pc = "idle"] /\ UNCHANGED <<ch, wire, up, sent>>
  BY DEF TimesOut, WaitForEvent, RecvExitStatus
<1>3. ThOK'
  BY <1>1, <1>2, MoveTypes DEF Typed
<1> QED
  BY <1>2, <1>3, OnlyThreads

\* How much _wait_for_send_window hands out.
LEMMA AllocationFacts ==
    ASSUME Typed, NEW u \in Users
    PROVE  /\ Allocation(u) \in Nat
           /\ Allocation(u) <= ch[SideOf[u]].outWindow
           /\ Allocation(u) <= th[u].n
           /\ ch[SideOf[u]].outWindow - Allocation(u) \in Nat
           /\ th[u].n - Allocation(u) \in Nat
<1>1. u \in Threads /\ SideOf[u] \in Sides
  BY HomeFacts
<1>2. ch[SideOf[u]].outWindow \in Nat /\ th[u].n \in Nat
  BY <1>1 DEF Typed, ChOK, ThOK, GoodThreads, ChannelStates, ThreadStates
<1>3. MaxPayload \in Nat
  BY WindowAssumption
<1> QED
  BY <1>2, <1>3 DEF Allocation, Least

\* Part of the window is taken and the data leaves the lock.
LEMMA AllocateTypes ==
    ASSUME Typed, NEW u \in Users, th[u].pc # "transmit", Allocate(u)
    PROVE  ChOK' /\ ThOK'
<1> DEFINE e == SideOf[u]
           size == Allocation(u)
           place == IF Repeats(u) /\ th[u].n > size THEN "send" ELSE "idle"
           x == [th[u] EXCEPT !.n = th[u].n - size]
           messages == <<Msg(DataType(u), size)>>
<1>1. u \in Threads /\ e \in Sides /\ "idle" \in Places
  BY HomeFacts DEF Places
<1>2. size \in Nat /\ ch[e].outWindow - size \in Nat /\ th[u].n - size \in Nat
  BY AllocationFacts
<1>3. /\ ch' = [ch EXCEPT ![e].outWindow = ch[e].outWindow - size]
      /\ th' = [th EXCEPT ![u] = Dispatch(x, messages, place)]
  BY <1>1 DEF Allocate, Typed, ChOK, ThOK
<1>4. DataType(u) \in MsgTypes
  BY DEF DataType, MsgTypes
<1>5. messages \in Seq(Messages)
  BY <1>2, <1>4, MsgFacts
<1>6. place \in Resumptions /\ place # "reqwait"
  BY DEF Resumptions
<1>7. x \in GoodThreads /\ x.pc # "transmit"
  <2> DEFINE k == th[u].n - size
  <2>1. k \in Nat /\ "idle" # "transmit"
    BY <1>2
  <2> HIDE DEF k
  <2>2. [th[u] EXCEPT !.n = k] \in GoodThreads /\ [th[u] EXCEPT !.n = k].pc = th[u].pc
    BY <1>1, <2>1, MoveCarryTypes DEF Typed
  <2> QED
    BY <2>2 DEF k
<1> HIDE DEF size, place, x, messages, e
<1>8. Dispatch(x, messages, place) \in GoodThreads
  BY <1>5, <1>6, <1>7, DispatchTypes
<1>9. ThOK'
  BY <1>1, <1>3, <1>8, ThReplaced DEF Typed
<1>10. ChOK'
  BY <1>1, <1>2, <1>3, ChannelFieldTypes DEF Typed
<1> QED
  BY <1>9, <1>10

\* _send and _wait_for_send_window
LEMMA SendTypes ==
    ASSUME Typed, NEW u \in Users, Send(u) \/ SendResumes(u)
    PROVE  Typed'
<1>1. u \in Threads /\ {"idle", "send", "sendwait"} \subseteq Places \ {"transmit"}
  BY HomeFacts DEF Places
<1>2. th[u].pc # "transmit" /\ UNCHANGED <<wire, up, sent>>
  BY DEF Send, SendResumes
<1>3. \/ Allocate(u)
      \/ /\ ch' = ch
         /\ \E place \in {"idle", "send", "sendwait"} : th' = [th EXCEPT ![u].pc = place]
  <2>1. SentNothing(u) => ch' = ch /\ \E place \in {"idle", "send"} : th' = [th EXCEPT ![u].pc = place]
    BY DEF SentNothing
  <2>2. SendBlocks(u) => ch' = ch /\ th' = [th EXCEPT ![u].pc = "sendwait"]
    BY DEF SendBlocks
  <2> QED
    BY <2>1, <2>2 DEF Send, SendResumes
<1>4. CASE Allocate(u)
  BY <1>2, <1>4, AllocateTypes, OnlyThreadsAndChannels
<1>5. ASSUME ch' = ch, NEW place \in {"idle", "send", "sendwait"}, th' = [th EXCEPT ![u].pc = place]
      PROVE  Typed'
  <2>1. place \in Places /\ place # "transmit"
    BY <1>1
  <2>2. ThOK'
    BY <1>1, <1>2, <1>5, <2>1, MoveTypes DEF Typed
  <2> QED
    BY <1>2, <1>5, <2>2, OnlyThreads
<1> QED
  BY <1>3, <1>4, <1>5

\* recv and recv_stderr: the buffer gives up what it has.
LEMMA RecvTypes ==
    ASSUME Typed, NEW u \in Users, Recv(u)
    PROVE  Typed'
<1> DEFINE e == SideOf[u]
           held == IF th[u].call = "recv" THEN ch[e].inBuffer ELSE ch[e].errBuffer
           got == Least(th[u].n, held)
<1>1. u \in Threads /\ e \in Sides /\ ch[e] \in ChannelStates /\ th[u] \in GoodThreads
  BY HomeFacts DEF Typed, ChOK, ThOK
<1>2. ch[e].errBuffer \in Nat /\ ch[e].inBuffer \in Nat /\ th[u].n \in Nat
  BY <1>1 DEF ChannelStates, GoodThreads, ThreadStates
<1>3. got \in Nat /\ held - got \in Nat
  BY <1>2 DEF Least
<1>4. /\ th[u].pc # "transmit" /\ UNCHANGED <<wire, up, sent>>
      /\ th' = [th EXCEPT ![u].pc = "credit", ![u].n = got]
      /\ \/ th[u].call = "recv" /\ ch' = [ch EXCEPT ![e].inBuffer = ch[e].inBuffer - got]
         \/ th[u].call # "recv" /\ ch' = [ch EXCEPT ![e].errBuffer = ch[e].errBuffer - got]
  BY <1>1 DEF Recv, Typed, ChOK
<1>5. "credit" \in Places /\ "credit" # "transmit"
  BY DEF Places
<1>6. \/ ch' = [ch EXCEPT ![e].inBuffer = held - got]
      \/ ch' = [ch EXCEPT ![e].errBuffer = held - got]
  BY <1>4
<1> HIDE DEF held, got, e
<1>7. ThOK'
  BY <1>1, <1>3, <1>4, <1>5, MoveCarryTypes DEF Typed, ThOK
<1>8. ChOK'
  BY <1>1, <1>3, <1>6, ChannelFieldTypes DEF Typed
<1> QED
  BY <1>4, <1>7, <1>8, OnlyThreadsAndChannels

\* _check_add_window
LEMMA CreditTypes ==
    ASSUME Typed, NEW u \in Users, Credit(u)
    PROVE  Typed'
<1> DEFINE e == SideOf[u]
           sofar == ch[e].inSofar + th[u].n
           done == [th[u] EXCEPT !.n = 0]
<1>1. u \in Threads /\ e \in Sides /\ ch[e] \in ChannelStates /\ th[u] \in GoodThreads
  BY HomeFacts DEF Typed, ChOK, ThOK
<1>2. sofar \in Nat
  BY <1>1 DEF ChannelStates, GoodThreads, ThreadStates
<1>3. th[u].pc # "transmit" /\ UNCHANGED <<wire, up, sent>>
  BY DEF Credit
<1>4. "idle" \in Places /\ "idle" \in Resumptions /\ "idle" # "transmit"
  BY DEF Places, Resumptions
<1>5. done \in GoodThreads /\ done.pc # "transmit"
  BY <1>1, <1>3, <1>4, MoveCarryTypes DEF Typed
<1>6. <<Msg("adjust", sofar)>> \in Seq(Messages)
  <2> HIDE DEF sofar
  <2> QED
    BY <1>2, MsgFacts DEF MsgTypes
<1>7. /\ \/ th' = [th EXCEPT ![u] = At(done, "idle")]
         \/ th' = [th EXCEPT ![u] = Dispatch(done, <<Msg("adjust", sofar)>>, "idle")]
      /\ ch' = ch \/ ch' = [ch EXCEPT ![e].inSofar = sofar] \/ ch' = [ch EXCEPT ![e].inSofar = 0]
  BY DEF Credit
<1> HIDE DEF sofar, done, e
<1>8. At(done, "idle") \in GoodThreads
  BY <1>4, <1>5 DEF At, GoodThreads, ThreadStates
<1>9. Dispatch(done, <<Msg("adjust", sofar)>>, "idle") \in GoodThreads
  BY <1>4, <1>5, <1>6, DispatchTypes
<1>10. ThOK'
  BY <1>1, <1>7, <1>8, <1>9, ThReplaced DEF Typed
<1>11. ChOK'
  BY <1>1, <1>2, <1>7, ChannelFieldTypes DEF Typed
<1> QED
  BY <1>3, <1>10, <1>11, OnlyThreadsAndChannels

\* _event_pending
LEMMA EventPendingTypes ==
    ASSUME Typed, NEW u \in Users, EventPending(u)
    PROVE  Typed'
<1>1. u \in Threads /\ SideOf[u] \in Sides /\ th[u] \in GoodThreads
  BY HomeFacts DEF Typed, ThOK
<1>2. <<Msg("request", 0)>> \in Seq(Messages) /\ Msg("request", 0).type = "request"
  BY MsgFacts DEF MsgTypes
<1>3. "reqwait" \in Resumptions /\ th[u].pc # "transmit"
  BY DEF Resumptions, EventPending
<1>4. Len(<<Msg("request", 0)>>) = 1 /\ <<Msg("request", 0)>>[1] = Msg("request", 0)
  OBVIOUS
<1>5. Dispatch(th[u], <<Msg("request", 0)>>, "reqwait") \in GoodThreads
  BY <1>1, <1>2, <1>3, <1>4, DispatchTypes
<1>6. ThOK'
  BY <1>1, <1>5, ThReplaced DEF Typed, EventPending
<1>7. ChOK'
  BY <1>1, ChannelFieldTypes DEF Typed, EventPending
<1> QED
  BY <1>6, <1>7, OnlyThreadsAndChannels DEF EventPending

-----------------------------------------------------------------------------
(* Types: the transport thread                                              *)

\* A handler that leaves its thread alone.
LEMMA QuietHandlerTypes ==
    ASSUME Typed, NEW e \in Sides,
           \/ Ignore(e) \/ HandleData(e) \/ HandleEof(e) \/ RequestSuccess(e) \/ HandleExitStatus(e)
    PROVE  Typed'
<1>1. NextMessage(e) /\ UNCHANGED <<th, up, sent>>
  BY DEF Ignore, HandleData, HandleEof, RequestSuccess, HandleExitStatus, Incoming
<1>2. WireOK' /\ Amount(e) \in Nat
  BY <1>1, HeadFacts DEF Typed
<1>3. ch[e] \in ChannelStates /\ ch[e].inBuffer \in Nat
  BY DEF Typed, ChOK, ChannelStates
<1>4. \/ ch' = ch
      \/ ch' = [ch EXCEPT ![e].inBuffer = ch[e].inBuffer + Amount(e)]
      \/ ch' = [ch EXCEPT ![e].eofReceived = TRUE, ![e].bufClosed = TRUE]
      \/ ch' = [ch EXCEPT ![e].event = TRUE, ![e].eventReady = TRUE]
      \/ ch' = [ch EXCEPT ![e].status = TRUE]
  BY <1>3 DEF Ignore, HandleData, HandleEof, RequestSuccess, HandleExitStatus, Typed, ChOK
<1>5. ch[e].inBuffer + Amount(e) \in Nat
  BY <1>2, <1>3
<1>6. ChOK'
  BY <1>4, <1>5, ChannelFieldTypes DEF Typed
<1> QED
  BY <1>1, <1>2, <1>6 DEF Typed, ThOK, UpOK, SentOK

\* _feed_extended
LEMMA ExtendedTypes ==
    ASSUME Typed, NEW e \in Sides, HandleExtended(e) \/ FeedExtended(e)
    PROVE  Typed'
<1>1. e \in Threads /\ th[e] \in GoodThreads /\ th[e] \in ThreadStates /\ ch[e] \in ChannelStates
  BY HomeFacts DEF Typed, ThOK, GoodThreads, ChOK
<1>2. CASE HandleExtended(e)
  <2> DEFINE c == IF ch[e].combine THEN "in" ELSE "err"
             x == [th[e] EXCEPT !.pc = "feed", !.n = Amount(e), !.call = c]
  <2>1. NextMessage(e) /\ UNCHANGED <<ch, up, sent>> /\ th[e].pc = "idle"
    BY <1>2 DEF HandleExtended, Incoming, NextMessage
  <2>2. WireOK' /\ Amount(e) \in Nat
    BY <2>1, HeadFacts DEF Typed
  <2>3. "feed" \in Places /\ c \in Methods \cup {"none", "in", "err"}
    BY DEF Places
  <2>4. th' = [th EXCEPT ![e] = x]
    BY <1>1, <1>2 DEF HandleExtended, Typed, ThOK
  <2>5. x \in GoodThreads
    <3> HIDE DEF c
    <3> QED
      BY <1>1, <2>1, <2>2, <2>3 DEF GoodThreads, ThreadStates
  <2> HIDE DEF x
  <2>6. ThOK'
    BY <1>1, <2>4, <2>5, ThReplaced DEF Typed
  <2> QED
    BY <2>1, <2>2, <2>6 DEF Typed, ChOK, UpOK, SentOK
<1>3. CASE FeedExtended(e)
  <2>1. th[e].n \in Nat /\ ch[e].inBuffer \in Nat /\ ch[e].errBuffer \in Nat
    BY <1>1 DEF ThreadStates, ChannelStates
  <2>2. th[e].pc # "transmit" /\ "idle" \in Places /\ "idle" # "transmit" /\ UNCHANGED <<wire, up, sent>>
    BY <1>3 DEF FeedExtended, Places
  <2>3. ThOK'
    BY <1>1, <1>3, <2>2, MoveCarryTypes DEF Typed, FeedExtended, ThOK
  <2>4. \/ ch' = [ch EXCEPT ![e].inBuffer = ch[e].inBuffer + th[e].n]
        \/ ch' = [ch EXCEPT ![e].errBuffer = ch[e].errBuffer + th[e].n]
    BY <1>3 DEF FeedExtended, Typed, ChOK
  <2>5. ch[e].inBuffer + th[e].n \in Nat /\ ch[e].errBuffer + th[e].n \in Nat
    BY <2>1
  <2>6. ChOK'
    BY <2>4, <2>5, ChannelFieldTypes DEF Typed
  <2> QED
    BY <2>2, <2>3, <2>6, OnlyThreadsAndChannels
<1> QED
  BY <1>2, <1>3

\* _window_adjust
LEMMA AdjustTypes ==
    ASSUME Typed, NEW e \in Sides, HandleWindowAdjust(e)
    PROVE  Typed'
<1>1. NextMessage(e) /\ UNCHANGED <<up, sent>> /\ th' = Wake(th, e)
  BY DEF HandleWindowAdjust, Incoming
<1>2. WireOK' /\ Amount(e) \in Nat
  BY <1>1, HeadFacts DEF Typed
<1>3. ch[e].outWindow + Amount(e) \in Nat
  BY <1>2 DEF Typed, ChOK, ChannelStates
<1>4. ch' = [ch EXCEPT ![e].outWindow = ch[e].outWindow + Amount(e)]
  BY DEF HandleWindowAdjust, Typed, ChOK
<1>5. ChOK'
  BY <1>3, <1>4, ChannelFieldTypes DEF Typed
<1>6. ThOK'
  BY <1>1, WakeFacts DEF Typed, ThOK
<1> QED
  BY <1>1, <1>2, <1>5, <1>6 DEF Typed, UpOK, SentOK

\* _handle_close, _request_failed
LEMMA CloseTypes ==
    ASSUME Typed, NEW e \in Sides, HandleClose(e) \/ RequestFailed(e)
    PROVE  Typed'
<1> DEFINE x == Dispatch(th[e], CloseMessages(ch[e]), "idle")
<1>1. NextMessage(e) /\ UNCHANGED <<up, sent>> /\ th[e].pc = "idle"
  BY DEF HandleClose, RequestFailed, Incoming, NextMessage
<1>2. WireOK'
  BY <1>1, HeadFacts DEF Typed
<1>3. ch[e] \in ChannelStates /\ e \in Threads /\ th[e] \in GoodThreads /\ "idle" \in Resumptions
  BY HomeFacts DEF Typed, ChOK, ThOK, Resumptions
<1>4. /\ Wake(th, e) \in [Threads -> GoodThreads]
      /\ Wake(th, e)[e] = th[e]
  BY <1>1, <1>3, WakeFacts DEF Typed
<1>5. x \in GoodThreads
  BY <1>1, <1>3, EndMessages, DispatchTypes
<1>6. th' = [Wake(th, e) EXCEPT ![e] = x]
  <2>1. th' = [Wake(th, e) EXCEPT ![e] = Dispatch(@, CloseMessages(ch[e]), "idle")]
    BY DEF HandleClose, RequestFailed
  <2> QED
    BY <1>3, <1>4, <2>1
<1>7. \/ ch' = [ch EXCEPT ![e] = [CloseInternal(ch[e]) EXCEPT !.linked = FALSE]]
      \/ ch' = [ch EXCEPT ![e] = CloseInternal(ch[e])]
  BY DEF HandleClose, RequestFailed
<1> HIDE DEF x
<1>8. ThOK'
  BY <1>4, <1>5, <1>6 DEF ThOK
<1>9. ChOK'
  BY <1>3, <1>7, ClosedTypes, ChReplaced DEF Typed
<1> QED
  BY <1>1, <1>2, <1>8, <1>9 DEF Typed, UpOK, SentOK

\* _handle_request
LEMMA HandleRequestTypes ==
    ASSUME Typed, NEW e \in Sides, HandleRequest(e)
    PROVE  Typed'
<1>1. NextMessage(e) /\ UNCHANGED <<ch, up, sent>> /\ th[e].pc = "idle"
  BY DEF HandleRequest, Incoming, NextMessage
<1>2. WireOK'
  BY <1>1, HeadFacts DEF Typed
<1>3. PICK answer \in {"success", "failure"} :
         th' = [th EXCEPT ![e] = Dispatch(th[e], <<Msg(answer, 0)>>, "idle")]
  BY DEF HandleRequest
<1>4. <<Msg(answer, 0)>> \in Seq(Messages)
  BY MsgFacts DEF MsgTypes
<1>5. e \in Threads /\ th[e] \in GoodThreads /\ "idle" \in Resumptions
  BY HomeFacts DEF Typed, ThOK, Resumptions
<1>6. Dispatch(th[e], <<Msg(answer, 0)>>, "idle") \in GoodThreads
  BY <1>1, <1>4, <1>5, DispatchTypes
<1>7. ThOK'
  BY <1>3, <1>5, <1>6, ThReplaced DEF Typed
<1> QED
  BY <1>1, <1>2, <1>7 DEF Typed, ChOK, UpOK, SentOK

\* The end of Transport.run.
LEMMA DieTypes ==
    ASSUME Typed, NEW e \in Sides, Die(e)
    PROVE  Typed'
<1> DEFINE w == Wake(th, e)
           x == [w[e] EXCEPT !.pc = "dead", !.out = <<>>]
<1>1. ch[e] \in ChannelStates /\ e \in Threads /\ "dead" \in Places
  BY HomeFacts DEF Typed, ChOK, Places
<1>2. w \in [Threads -> GoodThreads]
  BY WakeFacts DEF Typed
<1>3. th' = [w EXCEPT ![e] = x]
  <2>1. th' = [w EXCEPT ![e].pc = "dead", ![e].out = <<>>]
    BY DEF Die
  <2> HIDE DEF w
  <2> QED
    BY <1>1, <1>2, <2>1 DEF x
<1> HIDE DEF w
<1>4. x \in GoodThreads
  <2>1. w[e] \in GoodThreads /\ <<>> \in Seq(Messages)
    BY <1>1, <1>2
  <2> QED
    BY <1>1, <2>1 DEF GoodThreads, ThreadStates
<1> HIDE DEF x
<1>5. ThOK'
  BY <1>2, <1>3, <1>4 DEF ThOK
<1>6. ch' = ch \/ ch' = [ch EXCEPT ![e] = [SetClosed(ch[e]) EXCEPT !.linked = FALSE]]
  BY DEF Die
<1>7. ChOK'
  BY <1>1, <1>6, ClosedTypes, ChReplaced, ChannelFieldTypes DEF Typed
<1>8. UpOK' /\ UNCHANGED <<wire, sent>>
  BY DEF Die, Typed, UpOK
<1> QED
  BY <1>5, <1>7, <1>8 DEF Typed, WireOK, SentOK

-----------------------------------------------------------------------------
(* Types: the whole specification                                           *)

\* The initial state is typed.
LEMMA InitTyped == Init => Typed
<1> SUFFICES ASSUME Init PROVE Typed
  OBVIOUS
<1>1. ChOK
  BY WindowAssumption DEF Init, NewChannel, ChOK, ChannelStates
<1>2. ThOK
  <2>1. <<>> \in Seq(Messages) /\ "idle" \in Places /\ "idle" \in Resumptions
    BY DEF Places, Resumptions
  <2> QED
    BY <2>1 DEF Init, ThOK, GoodThreads, ThreadStates
<1>3. WireOK /\ UpOK /\ SentOK
  BY DEF Init, WireOK, UpOK, SentOK
<1> QED
  BY <1>1, <1>2, <1>3 DEF Typed

\* Every step of a user, a transport thread or a failing connection keeps the types.
LEMMA NextTyped == Typed /\ [Next]_vars => Typed'
<1> SUFFICES ASSUME Typed, [Next]_vars PROVE Typed'
  OBVIOUS
<1>1. CASE UNCHANGED vars
  BY <1>1 DEF vars, Typed, ChOK, ThOK, WireOK, UpOK, SentOK
<1>2. ASSUME NEW u \in Users, UserCalls(u) PROVE Typed'
  BY <1>2, CallTypes, CallCloseTypes, ShutdownTypes, CombineTypes DEF UserCalls
<1>3. ASSUME NEW u \in Users, UserRuns(u) \/ TimesOut(u) PROVE Typed'
  <2>1. u \in Threads
    BY HomeFacts
  <2> QED
    BY <1>3, <2>1, SendTypes, RecvTypes, CreditTypes, ShutdownTypes, EventPendingTypes,
       UserMoveTypes, CombineTypes, TransmitTypes DEF UserRuns
<1>4. ASSUME NEW e \in Sides, TransportRuns(e) \/ ConnectionLost(e) PROVE Typed'
  <2>1. e \in Threads
    BY HomeFacts
  <2>2. EndOfStream(e) \/ ConnectionLost(e) => Die(e)
    BY DEF EndOfStream, ConnectionLost
  <2> QED
    BY <1>4, <2>1, <2>2, QuietHandlerTypes, ExtendedTypes, AdjustTypes, CloseTypes,
       HandleRequestTypes, TransmitTypes, DieTypes DEF TransportRuns
<1> QED
  BY <1>1, <1>2, <1>3, <1>4 DEF Next

\* A typed thread has the type the specification states.
LEMMA TypedImpliesTypeOK == Typed => TypeOK
<1>1. GoodThreads \subseteq ThreadStates
  BY DEF GoodThreads
<1> QED
  BY <1>1 DEF Typed, ChOK, ThOK, WireOK, UpOK, SentOK, TypeOK

\* The types of both channels, of every thread and of the wire hold for ever: no
\* window, buffer or amount in hand ever becomes negative, whatever send, recv,
\* set_combine_stderr and the two transport threads do to them.
THEOREM ChannelTypes == Spec => []TypeOK
<1>1. Spec => []Typed
  BY InitTyped, NextTyped, PTL DEF Spec
<1> QED
  BY <1>1, TypedImpliesTypeOK, PTL

-----------------------------------------------------------------------------
(* Calm steps: most steps do nothing to the flags of a channel, to a        *)
(* waiting thread or to a message already on its way.                       *)

\* The channel of side d keeps its flags; its window changes only if it is open,
\* and its event is only ever set.
Steady(d) ==
    /\ ch'[d].closed = ch[d].closed
    /\ ch'[d].linked = ch[d].linked
    /\ ch'[d].eofSent = ch[d].eofSent
    /\ ch'[d].event = ch[d].event \/ ch'[d].event
    /\ ch'[d].outWindow = ch[d].outWindow \/ ch[d].outWindow > 0

\* Thread t, which had nothing to send, takes a step that no other thread sees and
\* leaves with nothing that ends a stream.
Calm(t) ==
    /\ th[t].out = <<>>
    /\ \A s \in Threads : s # t => th'[s] = th[s]
    /\ \A i \in DOMAIN th'[t].out : th'[t].out[i].type \notin {"eof", "close"}
    /\ th'[t].pc \notin {"sendwait", "reqwait"}
    /\ \A d \in Sides : Steady(d)
    /\ UNCHANGED <<up, sent>>

\* A thread that is not sending has nothing to send.
LEMMA Empty == ASSUME ThOK, NEW t \in Threads, th[t].pc # "transmit" PROVE th[t].out = <<>>
  BY DEF ThOK, GoodThreads

\* One thread is replaced by a calm one.
LEMMA CalmThread ==
    ASSUME ThOK, NEW t \in Threads, th[t].pc # "transmit", NEW x, th' = [th EXCEPT ![t] = x],
           \A i \in DOMAIN x.out : x.out[i].type \notin {"eof", "close"},
           x.pc \notin {"sendwait", "reqwait"},
           \A d \in Sides : Steady(d), UNCHANGED <<up, sent>>
    PROVE  Calm(t)
<1>1. th[t].out = <<>>
  BY Empty
<1>2. th'[t] = x /\ \A s \in Threads : s # t => th'[s] = th[s]
  BY DEF ThOK
<1> QED
  BY <1>1, <1>2 DEF Calm

\* An outbox with one message, or none.
LEMMA CalmOutbox ==
    /\ \A i \in DOMAIN <<>> : <<>>[i].type \notin {"eof", "close"}
    /\ \A m : m.type \notin {"eof", "close"} => \A i \in DOMAIN <<m>> : <<m>>[i].type \notin {"eof", "close"}
  OBVIOUS

\* A channel that does not change is steady.
LEMMA Unchanged == ch' = ch => \A d \in Sides : Steady(d)
  BY DEF Steady

\* A user enters a call without sending anything yet.
LEMMA CalmEnter ==
    ASSUME Typed, NEW u \in Users, NEW method \in Methods, MayCall(u, method),
           NEW n \in Nat, NEW place \in Places \ {"transmit", "sendwait", "reqwait"},
           th' = [th EXCEPT ![u] = Enter(u, method, n, place)],
           \A d \in Sides : Steady(d), UNCHANGED <<up, sent>>
    PROVE  Calm(u)
<1> DEFINE x == Enter(u, method, n, place)
<1>1. u \in Threads /\ th[u].pc = "idle" /\ ThOK
  BY HomeFacts DEF MayCall, Typed
<1>2. x.pc = place /\ x.out = <<>>
  BY <1>1, EnterTypes
<1> HIDE DEF x
<1> QED
  BY <1>1, <1>2, CalmThread, CalmOutbox DEF x

\* The calls that change no flag of the channel.
LEMMA CalmCalls ==
    ASSUME Typed, NEW u \in Users,
           \/ \E n \in SendSizes, m \in Methods : CallSend(u, m, n)
           \/ \E n \in ReadSizes, m \in Methods : CallRecv(u, m, n)
           \/ CallRequest(u)
           \/ CallRecvExitStatus(u)
           \/ CallSendExitStatus(u)
           \/ \E m \in Methods : CallCombine(u, m)
    PROVE  Calm(u)
<1> DEFINE Free == Places \ {"transmit", "sendwait", "reqwait"}
<1>1. \A n \in SendSizes \cup ReadSizes : n \in Nat
  BY SizeAssumption
<1>2. {"send", "recv", "statwait", "reqpend", "idle", "refeed"} \subseteq Free
  BY DEF Places
<1>3. {"request", "recv_exit_status", "send_exit_status"} \subseteq Methods
  BY DEF Methods
<1> HIDE DEF Free
<1>4. ASSUME NEW n \in SendSizes, NEW m \in Methods, CallSend(u, m, n) PROVE Calm(u)
  BY <1>1, <1>2, <1>4, CalmEnter, Unchanged DEF CallSend, Free
<1>5. ASSUME NEW n \in ReadSizes, NEW m \in Methods, CallRecv(u, m, n) PROVE Calm(u)
  BY <1>1, <1>2, <1>5, CalmEnter, Unchanged DEF CallRecv, Free
<1>6. CASE CallRequest(u)
  <2>1. PICK place \in {"reqpend", "idle"} : th' = [th EXCEPT ![u] = Enter(u, "request", 0, place)]
    BY <1>6 DEF CallRequest
  <2>2. place \in Free /\ MayCall(u, "request") /\ UNCHANGED <<up, sent>> /\ \A d \in Sides : Steady(d)
    BY <1>2, <1>6, Unchanged DEF CallRequest
  <2> QED
    BY <1>3, <2>1, <2>2, CalmEnter DEF Free
<1>7. CASE CallRecvExitStatus(u)
  BY <1>2, <1>3, <1>7, CalmEnter, Unchanged DEF CallRecvExitStatus, Free
<1>8. CASE CallSendExitStatus(u)
  <2> DEFINE y == Enter(u, "send_exit_status", 0, "idle")
             ms == <<Msg("status", 0)>>
             x == Dispatch(y, ms, "idle")
  <2>1. u \in Threads /\ th[u].pc = "idle" /\ ThOK /\ "idle" \in Places /\ "idle" \in Resumptions
    BY <1>8, HomeFacts DEF CallSendExitStatus, MayCall, Typed, Places, Resumptions
  <2>2. y \in GoodThreads /\ y.pc = "idle"
    <3>1. "send_exit_status" \in Methods /\ "idle" # "transmit" /\ 0 \in Nat
      BY <1>3
    <3> QED
      BY <2>1, <3>1, EnterTypes
  <2>3. ms \in Seq(Messages) /\ Msg("status", 0).type = "status" /\ ms # <<>>
    BY MsgFacts DEF MsgTypes
  <2>4. \A i \in DOMAIN ms : ms[i].type \notin {"eof", "close"}
    BY <2>3, CalmOutbox
  <2> HIDE DEF y, ms
  <2>5. x.out = ms /\ x.pc = "transmit"
    BY <2>1, <2>2, <2>3, DispatchTypes
  <2>6. th' = [th EXCEPT ![u] = x] /\ UNCHANGED <<up, sent>> /\ \A d \in Sides : Steady(d)
    BY <1>8, Unchanged DEF CallSendExitStatus, y, ms
  <2> HIDE DEF x
  <2> QED
    BY <2>1, <2>4, <2>5, <2>6, CalmThread
<1>9. ASSUME NEW m \in Methods, CallCombine(u, m) PROVE Calm(u)
  <2> DEFINE e == SideOf[u]
             moved == IF m = "combine_stderr" /\ ~ch[e].combine THEN ch[e].errBuffer ELSE 0
             place == IF moved > 0 THEN "refeed" ELSE "idle"
  <2>1. e \in Sides /\ ch[e] \in ChannelStates /\ MayCall(u, m) /\ UNCHANGED <<up, sent>>
    BY <1>9, HomeFacts DEF Typed, ChOK, CallCombine
  <2>2. moved \in Nat /\ place \in Free
    BY <1>2, <2>1 DEF ChannelStates
  <2>3. th' = [th EXCEPT ![u] = Enter(u, m, moved, place)]
    BY <1>9 DEF CallCombine
  <2>4. \A d \in Sides : Steady(d)
    BY <1>9, <2>1 DEF CallCombine, Typed, ChOK, ChannelStates, Steady
  <2> HIDE DEF moved, place
  <2> QED
    BY <2>1, <2>2, <2>3, <2>4, CalmEnter DEF Free
<1> QED
  BY <1>4, <1>5, <1>6, <1>7, <1>8, <1>9

\* The steps inside a call that neither block nor end a stream.
LEMMA CalmRuns ==
    ASSUME Typed, NEW u \in Users,
           TimesOut(u) \/ WaitForEvent(u) \/ RecvExitStatus(u) \/ Refeed(u) \/ Recv(u) \/ Credit(u)
    PROVE  Calm(u)
<1>1. u \in Threads /\ SideOf[u] \in Sides /\ th[u] \in GoodThreads /\ ThOK /\ ch[SideOf[u]] \in ChannelStates
  BY HomeFacts DEF Typed, ThOK, ChOK
<1>2. th[u].pc # "transmit" /\ UNCHANGED <<up, sent>>
  BY DEF TimesOut, WaitForEvent, RecvExitStatus, Refeed, Recv, Credit
<1>3. th[u] \in ThreadStates /\ th[u].out = <<>>
  BY <1>1, <1>2 DEF GoodThreads
<1>4. \A d \in Sides : Steady(d)
  <2>1. CASE TimesOut(u) \/ WaitForEvent(u) \/ RecvExitStatus(u)
    BY <2>1, Unchanged DEF TimesOut, WaitForEvent, RecvExitStatus
  <2>2. CASE Refeed(u) \/ Recv(u)
    BY <1>1, <2>2 DEF Refeed, Recv, Steady, Typed, ChOK, ChannelStates
  <2>3. CASE Credit(u)
    BY <1>1, <2>3 DEF Credit, Steady, Typed, ChOK, ChannelStates
  <2> QED
    BY <2>1, <2>2, <2>3
<1>5. CASE TimesOut(u) \/ WaitForEvent(u) \/ RecvExitStatus(u) \/ Refeed(u) \/ Recv(u)
  <2>1. \E place \in {"idle", "credit"} : \E n : th' = [th EXCEPT ![u] = [th[u] EXCEPT !.pc = place, !.n = n]]
    <3>1. CASE TimesOut(u) \/ WaitForEvent(u) \/ RecvExitStatus(u)
      <4>1. th' = [th EXCEPT ![u].pc = "idle"]
        BY <3>1 DEF TimesOut, WaitForEvent, RecvExitStatus
      <4>2. th' = [th EXCEPT ![u] = [th[u] EXCEPT !.pc = "idle", !.n = th[u].n]]
        BY <1>1, <1>3, <4>1 DEF ThOK, ThreadStates
      <4> QED
        BY <4>2
    <3>2. CASE Refeed(u)
      <4>1. th' = [th EXCEPT ![u] = [th[u] EXCEPT !.pc = "idle", !.n = 0]]
        BY <1>1, <3>2 DEF Refeed, ThOK
      <4> QED
        BY <4>1
    <3>3. CASE Recv(u)
      <4>1. PICK k : th' = [th EXCEPT ![u].pc = "credit", ![u].n = k]
        BY <3>3 DEF Recv
      <4>2. th' = [th EXCEPT ![u] = [th[u] EXCEPT !.pc = "credit", !.n = k]]
        BY <1>1, <4>1 DEF ThOK
      <4> QED
        BY <4>2
    <3> QED
      BY <1>5, <3>1, <3>2, <3>3
  <2> PICK place \in {"idle", "credit"} : \E n : th' = [th EXCEPT ![u] = [th[u] EXCEPT !.pc = place, !.n = n]]
    BY <2>1
  <2>2. PICK n : th' = [th EXCEPT ![u] = [th[u] EXCEPT !.pc = place, !.n = n]]
    OBVIOUS
  <2> DEFINE x == [th[u] EXCEPT !.pc = place, !.n = n]
  <2>3. x.pc = place /\ x.out = <<>>
    BY <1>3 DEF ThreadStates
  <2> HIDE DEF x
  <2>4. /\ x.pc \notin {"sendwait", "reqwait"}
        /\ \A i \in DOMAIN x.out : x.out[i].type \notin {"eof", "close"}
    BY <2>3, CalmOutbox
  <2> QED
    BY <1>1, <1>2, <1>4, <2>2, <2>4, CalmThread DEF x
<1>6. CASE Credit(u)
  <2> DEFINE done == [th[u] EXCEPT !.n = 0]
             sofar == ch[SideOf[u]].inSofar + th[u].n
             ms == <<Msg("adjust", sofar)>>
  <2>1. done.out = <<>> /\ done \in ThreadStates /\ done \in GoodThreads /\ done.pc # "transmit"
    BY <1>1, <1>2, <1>3 DEF ThreadStates, GoodThreads
  <2>2. sofar \in Nat /\ "idle" \in Resumptions
    BY <1>1 DEF ChannelStates, GoodThreads, ThreadStates, Resumptions
  <2>3. PICK x \in {At(done, "idle"), Dispatch(done, ms, "idle")} : th' = [th EXCEPT ![u] = x]
    BY <1>6 DEF Credit
  <2> HIDE DEF sofar, done
  <2>4. ms \in Seq(Messages) /\ Msg("adjust", sofar).type = "adjust" /\ ms # <<>>
    BY <2>2, MsgFacts DEF MsgTypes
  <2>5. \A i \in DOMAIN ms : ms[i].type \notin {"eof", "close"}
    BY <2>4, CalmOutbox
  <2>6. At(done, "idle").pc = "idle" /\ At(done, "idle").out = <<>>
    BY <2>1 DEF At, ThreadStates
  <2> HIDE DEF ms
  <2>7. Dispatch(done, ms, "idle").pc = "transmit" /\ Dispatch(done, ms, "idle").out = ms
    BY <2>1, <2>2, <2>4, DispatchTypes
  <2>8. /\ x.pc \notin {"sendwait", "reqwait"}
        /\ \A i \in DOMAIN x.out : x.out[i].type \notin {"eof", "close"}
    BY <2>3, <2>5, <2>6, <2>7, CalmOutbox
  <2> QED
    BY <1>1, <1>2, <1>4, <2>3, <2>8, CalmThread
<1> QED
  BY <1>5, <1>6

\* Data leaves the lock.
LEMMA CalmAllocate ==
    ASSUME Typed, NEW u \in Users, th[u].pc \in {"send", "sendwoken"}, ch[SideOf[u]].outWindow > 0,
           Allocate(u), UNCHANGED <<up, sent>>
    PROVE  Calm(u)
<1> DEFINE e == SideOf[u]
           size == Allocation(u)
           place == IF Repeats(u) /\ th[u].n > size THEN "send" ELSE "idle"
           left == [th[u] EXCEPT !.n = th[u].n - size]
           ms == <<Msg(DataType(u), size)>>
           x == Dispatch(left, ms, place)
<1>1. u \in Threads /\ e \in Sides /\ th[u] \in GoodThreads /\ ThOK /\ ch[e] \in ChannelStates
  BY HomeFacts DEF Typed, ThOK, ChOK
<1>2. size \in Nat /\ th[u].n - size \in Nat
  BY AllocationFacts
<1>3. th' = [th EXCEPT ![u] = x]
  BY <1>1 DEF Allocate
<1>4. \A d \in Sides : Steady(d)
  <2> HIDE DEF size
  <2>1. ch' = [ch EXCEPT ![e].outWindow = @ - size]
    BY DEF Allocate, size
  <2> QED
    BY <1>1, <2>1 DEF Steady, Typed, ChOK, ChannelStates
<1>5. DataType(u) \in MsgTypes /\ DataType(u) \notin {"eof", "close"}
  BY DEF DataType, MsgTypes
<1>6. ms \in Seq(Messages) /\ Msg(DataType(u), size).type \notin {"eof", "close"} /\ ms # <<>>
  <2> HIDE DEF size
  <2> QED
    BY <1>2, <1>5, MsgFacts
<1>7. \A i \in DOMAIN ms : ms[i].type \notin {"eof", "close"}
  BY <1>6, CalmOutbox
<1>8. place \in Resumptions /\ place # "reqwait"
  BY DEF Resumptions
<1>9. left \in GoodThreads /\ left.pc # "transmit"
  <2> HIDE DEF size
  <2> QED
    BY <1>1, <1>2 DEF GoodThreads, ThreadStates
<1> HIDE DEF ms, place, left, size
<1>10. x.out = ms /\ x.pc = "transmit"
  BY <1>6, <1>8, <1>9, DispatchTypes
<1> HIDE DEF x
<1> QED
  BY <1>1, <1>3, <1>4, <1>7, <1>10, CalmThread

\* _send and _wait_for_send_window: the thread goes on, or waits for a closed window.
LEMMA CalmSend ==
    ASSUME Typed, NEW u \in Users, Send(u) \/ SendResumes(u)
    PROVE  \/ Calm(u)
           \/ /\ ch[SideOf[u]].outWindow = 0 /\ ~ch[SideOf[u]].closed
              /\ th[u].out = <<>> /\ th' = [th EXCEPT ![u].pc = "sendwait"]
              /\ UNCHANGED <<ch, wire, up, sent>>
<1>1. u \in Threads /\ SideOf[u] \in Sides /\ th[u] \in GoodThreads /\ ThOK
  BY HomeFacts DEF Typed, ThOK
<1>2. th[u].pc \in {"send", "sendwoken"} /\ UNCHANGED <<wire, up, sent>>
  BY DEF Send, SendResumes
<1>3. th[u] \in ThreadStates /\ th[u].out = <<>>
  BY <1>1, <1>2 DEF GoodThreads
<1>4. CASE ch[SideOf[u]].outWindow > 0 /\ Allocate(u)
  BY <1>2, <1>4, CalmAllocate
<1>5. ASSUME NEW place \in {"idle", "send"}, th' = [th EXCEPT ![u].pc = place], ch' = ch
      PROVE  Calm(u)
  <2> DEFINE x == [th[u] EXCEPT !.pc = place]
  <2>1. th' = [th EXCEPT ![u] = x]
    BY <1>1, <1>5 DEF ThOK
  <2>2. x.pc = place /\ x.out = <<>>
    BY <1>3 DEF ThreadStates
  <2> HIDE DEF x
  <2> QED
    BY <1>1, <1>2, <1>5, <2>1, <2>2, CalmThread, CalmOutbox, Unchanged
<1>6. \/ ch[SideOf[u]].outWindow > 0 /\ Allocate(u)
      \/ ch' = ch /\ \E place \in {"idle", "send"} : th' = [th EXCEPT ![u].pc = place]
      \/ /\ ch[SideOf[u]].outWindow = 0 /\ ~ch[SideOf[u]].closed
         /\ th' = [th EXCEPT ![u].pc = "sendwait"] /\ ch' = ch
  <2>1. SentNothing(u) => ch' = ch /\ \E place \in {"idle", "send"} : th' = [th EXCEPT ![u].pc = place]
    BY DEF SentNothing
  <2>2. SendBlocks(u) => ch' = ch /\ th' = [th EXCEPT ![u].pc = "sendwait"]
    BY DEF SendBlocks
  <2> QED
    BY <2>1, <2>2 DEF Send, SendResumes
<1> QED
  BY <1>2, <1>3, <1>4, <1>5, <1>6

\* shutdown that does not send, or _send_eof.
LEMMA CalmShutdown ==
    ASSUME Typed, NEW u \in Users, (\E m \in Methods : CallShutdown(u, m)) \/ ShutdownWrite(u)
    PROVE  \/ Calm(u)
           \/ th[u].out = <<>> /\ \E x \in GoodThreads : x.pc # "transmit" /\ SendEof(u, x)
<1>1. u \in Threads /\ SideOf[u] \in Sides /\ th[u] \in GoodThreads /\ ThOK
  BY HomeFacts DEF Typed, ThOK
<1>2. {"idle", "shutwrite"} \subseteq Places \ {"transmit", "sendwait", "reqwait"}
  BY DEF Places
<1>3. ASSUME NEW m \in Methods, CallShutdown(u, m), SendEof(u, Enter(u, m, 0, "idle"))
      PROVE  th[u].out = <<>> /\ \E x \in GoodThreads : x.pc # "transmit" /\ SendEof(u, x)
  <2>1. th[u].pc = "idle" /\ th[u].out = <<>>
    BY <1>1, <1>3, Empty DEF CallShutdown, MayCall
  <2>2. Enter(u, m, 0, "idle") \in GoodThreads /\ Enter(u, m, 0, "idle").pc = "idle"
    BY <1>1, <1>2, <2>1, EnterTypes
  <2> QED
    BY <1>3, <2>1, <2>2
<1>4. ASSUME NEW m \in Methods, CallShutdown(u, m), ~SendEof(u, Enter(u, m, 0, "idle"))
      PROVE  Calm(u)
  <2>1. PICK place \in {"idle", "shutwrite"} : th' = [th EXCEPT ![u] = Enter(u, m, 0, place)]
    BY <1>4 DEF CallShutdown
  <2>2. MayCall(u, m) /\ UNCHANGED <<up, sent>> /\ ch' = [ch EXCEPT ![SideOf[u]].eofReceived = TRUE]
    BY <1>4 DEF CallShutdown
  <2>3. \A d \in Sides : Steady(d)
    BY <1>1, <2>2 DEF Steady, Typed, ChOK, ChannelStates
  <2>4. place \in Places \ {"transmit", "sendwait", "reqwait"}
    BY <1>2
  <2> QED
    BY <2>1, <2>2, <2>3, <2>4, CalmEnter
<1>5. CASE ShutdownWrite(u)
  BY <1>1, <1>5, Empty DEF ShutdownWrite
<1> QED
  BY <1>3, <1>4, <1>5

\* The handlers that wake nobody and end nothing.
LEMMA CalmHandlers ==
    ASSUME Typed, NEW e \in Sides,
           \/ Ignore(e) \/ HandleData(e) \/ HandleEof(e) \/ RequestSuccess(e) \/ HandleExitStatus(e)
           \/ HandleExtended(e) \/ FeedExtended(e) \/ HandleRequest(e)
    PROVE  Calm(e)
<1>1. e \in Threads /\ th[e] \in GoodThreads /\ ThOK /\ ch[e] \in ChannelStates
  BY HomeFacts DEF Typed, ThOK, ChOK
<1>2. th[e].pc \in {"idle", "feed"} /\ UNCHANGED <<up, sent>>
  BY DEF Ignore, HandleData, HandleEof, RequestSuccess, HandleExitStatus, HandleExtended,
         FeedExtended, HandleRequest, Incoming, NextMessage
<1>3. th[e] \in ThreadStates /\ th[e].out = <<>>
  BY <1>1, <1>2 DEF GoodThreads
<1>4. \A d \in Sides : Steady(d)
  <2>1. CASE Ignore(e) \/ HandleExtended(e) \/ HandleRequest(e)
    BY <2>1, Unchanged DEF Ignore, HandleExtended, HandleRequest
  <2>2. CASE HandleData(e) \/ HandleExitStatus(e)
    BY <1>1, <2>2 DEF HandleData, HandleExitStatus, Steady, Typed, ChOK, ChannelStates
  <2>3. CASE HandleEof(e) \/ RequestSuccess(e)
    BY <1>1, <2>3 DEF HandleEof, RequestSuccess, Steady, Typed, ChOK, ChannelStates
  <2>4. CASE FeedExtended(e)
    BY <1>1, <2>4 DEF FeedExtended, Steady, Typed, ChOK, ChannelStates
  <2> QED
    BY <2>1, <2>2, <2>3, <2>4
<1>5. CASE Ignore(e) \/ HandleData(e) \/ HandleEof(e) \/ RequestSuccess(e) \/ HandleExitStatus(e)
  <2>1. th' = th
    BY <1>5 DEF Ignore, HandleData, HandleEof, RequestSuccess, HandleExitStatus
  <2> QED
    BY <1>2, <1>3, <1>4, <2>1, CalmOutbox DEF Calm
<1>6. CASE HandleExtended(e) \/ FeedExtended(e)
  <2>1. th'[e].pc \in {"idle", "feed"} /\ th'[e].out = <<>> /\ \A s \in Threads : s # e => th'[s] = th[s]
    BY <1>1, <1>3, <1>6 DEF HandleExtended, FeedExtended, ThOK, ThreadStates
  <2> QED
    BY <1>2, <1>3, <1>4, <2>1, CalmOutbox DEF Calm
<1>7. CASE HandleRequest(e)
  <2>1. PICK answer \in {"success", "failure"} :
           th' = [th EXCEPT ![e] = Dispatch(th[e], <<Msg(answer, 0)>>, "idle")]
    BY <1>7 DEF HandleRequest
  <2> DEFINE ms == <<Msg(answer, 0)>>
             x == Dispatch(th[e], ms, "idle")
  <2>2. ms \in Seq(Messages) /\ Msg(answer, 0).type = answer /\ ms # <<>> /\ "idle" \in Resumptions
    BY MsgFacts DEF MsgTypes, Resumptions
  <2>3. \A i \in DOMAIN ms : ms[i].type \notin {"eof", "close"}
    BY <2>2, CalmOutbox
  <2> HIDE DEF ms
  <2>4. x.out = ms /\ x.pc = "transmit"
    BY <1>1, <1>2, <2>2, DispatchTypes
  <2>5. th' = [th EXCEPT ![e] = x]
    BY <2>1 DEF ms
  <2> HIDE DEF x
  <2> QED
    BY <1>1, <1>2, <1>4, <2>3, <2>4, <2>5, CalmThread
<1> QED
  BY <1>5, <1>6, <1>7

-----------------------------------------------------------------------------
(* The other steps, thread by thread and channel by channel                 *)

\* Everybody at side e who waits for the window has been notified, and no other
\* thread but t has moved.
Notified(t, e) ==
    \A s \in Threads : s # t =>
        /\ th'[s].out = th[s].out
        /\ th'[s].after = th[s].after
        /\ Home(s) = e => th'[s].pc # "sendwait"
        /\ th[s].pc # "sendwait" \/ Home(s) # e => th'[s].pc = th[s].pc
        /\ th[s].pc = "sendwait" => th'[s].pc \in {"sendwait", "sendwoken"}

\* Thread t closes the channel of its side: close, _handle_close, _request_failed.
Closes(t) ==
    LET e == Home(t)
    IN /\ th[t].out = <<>> /\ th'[t].out = CloseMessages(ch[e])
       /\ th'[t].pc \in {"idle", "transmit"}
       /\ Notified(t, e)
       /\ ch'[e].closed
       /\ ch'[e].eofSent = (~ch[e].closed \/ ch[e].eofSent)
       /\ ch'[e].event = ch[e].event \/ ch'[e].event
       /\ \A d \in Sides : d # e => ch'[d] = ch[d]
       /\ UNCHANGED <<up, sent>>

\* The transport thread of e ends.
Dies(e) ==
    /\ th'[e].out = <<>> /\ th'[e].pc = "dead"
    /\ Notified(e, e)
    /\ ch'[e].closed /\ ch'[e].eofSent = ch[e].eofSent
    /\ \A d \in Sides : d # e => ch'[d] = ch[d]
    /\ up' = [up EXCEPT ![e] = FALSE] /\ UNCHANGED <<wire, sent>>

\* The window of side e opens.
Opens(e) ==
    /\ th[e].pc = "idle" /\ th'[e] = th[e]
    /\ Notified(e, e)
    /\ \A d \in Sides :
          /\ ch'[d].closed = ch[d].closed /\ ch'[d].linked = ch[d].linked
          /\ ch'[d].eofSent = ch[d].eofSent /\ ch'[d].event = ch[d].event
          /\ d # e => ch'[d].outWindow = ch[d].outWindow
    /\ UNCHANGED <<up, sent>>

\* Thread u ends its side's stream: _send_eof.
EndsStream(u) ==
    LET e == SideOf[u]
    IN /\ th'[u].out = EofMessages(ch[e])
       /\ th'[u].pc \in {"idle", "transmit"}
       /\ \A s \in Threads : s # u => th'[s] = th[s]
       /\ ch'[e].eofSent
       /\ \A d \in Sides :
             /\ d # e => ch'[d].eofSent = ch[d].eofSent
             /\ ch'[d].closed = ch[d].closed /\ ch'[d].linked = ch[d].linked
             /\ ch'[d].outWindow = ch[d].outWindow /\ ch'[d].event = ch[d].event
       /\ UNCHANGED <<wire, up, sent>>

\* notify_all on out_buffer_cv, with one thread replaced.
LEMMA NotifiedByWake ==
    ASSUME ThOK, NEW e \in Sides, NEW t \in Threads, NEW x, th' = [Wake(th, e) EXCEPT ![t] = x]
    PROVE  Notified(t, e) /\ th'[t] = x
<1>1. Wake(th, e) \in [Threads -> GoodThreads]
  BY WakeFacts
<1>2. th'[t] = x /\ \A s \in Threads : s # t => th'[s] = Wake(th, e)[s]
  BY <1>1
<1> QED
  BY <1>2, WakeFacts DEF Notified

\* What _close_internal leaves.
LEMMA CloseInternalFacts ==
    ASSUME NEW c \in ChannelStates
    PROVE  /\ CloseInternal(c).closed
           /\ CloseInternal(c).eofSent = (~c.closed \/ c.eofSent)
           /\ CloseInternal(c).event = c.event \/ CloseInternal(c).event
           /\ CloseInternal(c).linked = c.linked
           /\ [CloseInternal(c) EXCEPT !.linked = FALSE].closed
           /\ [CloseInternal(c) EXCEPT !.linked = FALSE].eofSent = (~c.closed \/ c.eofSent)
           /\ \/ [CloseInternal(c) EXCEPT !.linked = FALSE].event = c.event
              \/ [CloseInternal(c) EXCEPT !.linked = FALSE].event
<1>1. CASE c.closed
  <2>1. CloseInternal(c) = c
    BY <1>1 DEF CloseInternal
  <2> QED
    BY <1>1, <2>1 DEF ChannelStates
<1>2. CASE ~c.closed
  BY <1>2 DEF CloseInternal, SetClosed, ChannelStates
<1> QED
  BY <1>1, <1>2

\* close
LEMMA CallCloses ==
    ASSUME Typed, NEW u \in Users, CallClose(u)
    PROVE  Closes(u) /\ \A d \in Sides : ch'[d].linked = ch[d].linked
<1> DEFINE e == SideOf[u]
           y == Enter(u, "close", 0, "idle")
           ms == CloseMessages(ch[e])
           x == Dispatch(y, ms, "idle")
<1>1. u \in Threads /\ e \in Sides /\ Home(u) = e /\ ThOK /\ ch[e] \in ChannelStates
  BY HomeFacts DEF Typed, ChOK
<1>2. th[u].pc = "idle" /\ UNCHANGED <<up, sent>> /\ "close" \in Methods /\ "idle" \in Places
      /\ "idle" \in Resumptions /\ "idle" # "transmit" /\ 0 \in Nat
  BY DEF CallClose, MayCall, Methods, Places, Resumptions
<1>3. y \in GoodThreads /\ y.pc = "idle"
  BY <1>1, <1>2, EnterTypes
<1>4. ms \in Seq(Messages)
  BY <1>1, EndMessages
<1>5. th' = [Wake(th, e) EXCEPT ![u] = x] /\ ch' = [ch EXCEPT ![e] = CloseInternal(ch[e])]
  BY DEF CallClose
<1>6. th[u].out = <<>>
  BY <1>1, <1>2, Empty
<1> HIDE DEF y, ms
<1>7. x.out = ms /\ x.pc \in {"idle", "transmit"}
  BY <1>2, <1>3, <1>4, DispatchTypes
<1> HIDE DEF x
<1>8. Notified(u, e) /\ th'[u] = x
  BY <1>1, <1>5, NotifiedByWake
<1>9. ch'[e] = CloseInternal(ch[e]) /\ \A d \in Sides : d # e => ch'[d] = ch[d]
  BY <1>1, <1>5 DEF Typed, ChOK
<1> HIDE DEF e
<1> QED
  BY <1>1, <1>2, <1>6, <1>7, <1>8, <1>9, CloseInternalFacts DEF Closes, ms

\* _handle_close and _request_failed
LEMMA HandlerCloses ==
    ASSUME Typed, NEW e \in Sides, HandleClose(e) \/ RequestFailed(e)
    PROVE  Closes(e)
<1> DEFINE ms == CloseMessages(ch[e])
           x == Dispatch(th[e], ms, "idle")
<1>1. e \in Threads /\ Home(e) = e /\ ThOK /\ ch[e] \in ChannelStates /\ th[e] \in GoodThreads
  BY HomeFacts DEF Typed, ChOK, ThOK
<1>2. th[e].pc = "idle" /\ UNCHANGED <<up, sent>> /\ "idle" \in Resumptions
  BY DEF HandleClose, RequestFailed, Incoming, NextMessage, Resumptions
<1>3. ms \in Seq(Messages)
  BY <1>1, EndMessages
<1>4. Wake(th, e)[e] = th[e] /\ Wake(th, e) \in [Threads -> GoodThreads]
  BY <1>1, <1>2, WakeFacts
<1>5. th' = [Wake(th, e) EXCEPT ![e] = x]
  <2>1. th' = [Wake(th, e) EXCEPT ![e] = Dispatch(@, CloseMessages(ch[e]), "idle")]
    BY DEF HandleClose, RequestFailed
  <2> QED
    BY <1>1, <1>4, <2>1
<1>6. \/ ch' = [ch EXCEPT ![e] = [CloseInternal(ch[e]) EXCEPT !.linked = FALSE]]
      \/ ch' = [ch EXCEPT ![e] = CloseInternal(ch[e])]
  BY DEF HandleClose, RequestFailed
<1>7. th[e].out = <<>>
  BY <1>1, <1>2, Empty
<1> HIDE DEF ms
<1>8. x.out = ms /\ x.pc \in {"idle", "transmit"}
  BY <1>1, <1>2, <1>3, DispatchTypes
<1> HIDE DEF x
<1>9. Notified(e, e) /\ th'[e] = x
  BY <1>1, <1>5, NotifiedByWake
<1>10. /\ \/ ch'[e] = CloseInternal(ch[e])
          \/ ch'[e] = [CloseInternal(ch[e]) EXCEPT !.linked = FALSE]
       /\ \A d \in Sides : d # e => ch'[d] = ch[d]
  BY <1>1, <1>6 DEF Typed, ChOK
<1>11. /\ ch'[e].closed
       /\ ch'[e].eofSent = (~ch[e].closed \/ ch[e].eofSent)
       /\ ch'[e].event = ch[e].event \/ ch'[e].event
  <2>1. CASE ch'[e] = CloseInternal(ch[e])
    BY <1>1, <2>1, CloseInternalFacts
  <2>2. CASE ch'[e] = [CloseInternal(ch[e]) EXCEPT !.linked = FALSE]
    BY <1>1, <2>2, CloseInternalFacts
  <2> QED
    BY <1>10, <2>1, <2>2
<1> QED
  BY <1>1, <1>2, <1>7, <1>8, <1>9, <1>10, <1>11 DEF Closes, ms

\* The end of Transport.run
LEMMA TransportDies == ASSUME Typed, NEW e \in Sides, Die(e) PROVE Dies(e)
<1> DEFINE w == Wake(th, e)
           x == [w[e] EXCEPT !.pc = "dead", !.out = <<>>]
<1>1. e \in Threads /\ ThOK /\ ch[e] \in ChannelStates
  BY HomeFacts DEF Typed, ChOK
<1>2. w \in [Threads -> GoodThreads]
  BY <1>1, WakeFacts
<1>3. th' = [w EXCEPT ![e] = x]
  <2>1. th' = [w EXCEPT ![e].pc = "dead", ![e].out = <<>>]
    BY DEF Die
  <2> HIDE DEF w
  <2> QED
    BY <1>1, <1>2, <2>1 DEF x
<1>4. x.out = <<>> /\ x.pc = "dead"
  <2> HIDE DEF w
  <2>1. w[e] \in ThreadStates
    BY <1>1, <1>2 DEF GoodThreads
  <2> QED
    BY <2>1 DEF ThreadStates
<1> HIDE DEF x
<1>5. Notified(e, e) /\ th'[e] = x
  BY <1>1, <1>3, NotifiedByWake
<1>6. ch'[e].closed /\ ch'[e].eofSent = ch[e].eofSent /\ \A d \in Sides : d # e => ch'[d] = ch[d]
  BY <1>1 DEF Die, SetClosed, Typed, ChOK, ChannelStates
<1>7. up' = [up EXCEPT ![e] = FALSE] /\ UNCHANGED <<wire, sent>>
  BY DEF Die
<1> QED
  BY <1>4, <1>5, <1>6, <1>7 DEF Dies

\* _window_adjust
LEMMA AdjustOpens == ASSUME Typed, NEW e \in Sides, HandleWindowAdjust(e) PROVE Opens(e)
<1>1. e \in Threads /\ ThOK /\ ch[e] \in ChannelStates
  BY HomeFacts DEF Typed, ChOK
<1>2. th[e].pc = "idle" /\ th' = Wake(th, e) /\ UNCHANGED <<up, sent>>
  BY DEF HandleWindowAdjust, Incoming, NextMessage
<1>3. th'[e] = th[e] /\ Notified(e, e)
  BY <1>1, <1>2, WakeFacts DEF Notified
<1>4. \A d \in Sides :
          /\ ch'[d].closed = ch[d].closed /\ ch'[d].linked = ch[d].linked
          /\ ch'[d].eofSent = ch[d].eofSent /\ ch'[d].event = ch[d].event
          /\ d # e => ch'[d].outWindow = ch[d].outWindow
  BY <1>1 DEF HandleWindowAdjust, Typed, ChOK, ChannelStates
<1> QED
  BY <1>2, <1>3, <1>4 DEF Opens

\* _send_eof
LEMMA SendEofEnds ==
    ASSUME Typed, NEW u \in Users, NEW x \in GoodThreads, x.pc # "transmit", SendEof(u, x)
    PROVE  EndsStream(u)
<1> DEFINE e == SideOf[u]
           ms == EofMessages(ch[e])
           y == Dispatch(x, ms, "idle")
<1>1. u \in Threads /\ e \in Sides /\ ThOK /\ ch[e] \in ChannelStates /\ "idle" \in Resumptions
  BY HomeFacts DEF Typed, ChOK, Resumptions
<1>2. ms \in Seq(Messages)
  BY <1>1, EndMessages
<1>3. th' = [th EXCEPT ![u] = y] /\ UNCHANGED <<wire, up, sent>>
  BY DEF SendEof
<1> HIDE DEF ms
<1>4. y.out = ms /\ y.pc \in {"idle", "transmit"}
  BY <1>1, <1>2, DispatchTypes
<1> HIDE DEF y
<1>5. th'[u] = y /\ \A s \in Threads : s # u => th'[s] = th[s]
  BY <1>1, <1>3 DEF ThOK
<1>6. /\ ch'[e].eofSent
      /\ \A d \in Sides :
             /\ d # e => ch'[d].eofSent = ch[d].eofSent
             /\ ch'[d].closed = ch[d].closed /\ ch'[d].linked = ch[d].linked
             /\ ch'[d].outWindow = ch[d].outWindow /\ ch'[d].event = ch[d].event
  BY <1>1 DEF SendEof, Typed, ChOK, ChannelStates
<1> HIDE DEF e
<1> QED
  BY <1>3, <1>4, <1>5, <1>6 DEF EndsStream, ms, e

-----------------------------------------------------------------------------
(* No sender sleeps beside an open window                                   *)

\* One user thread sleeps only beside a closed window of an open channel.
AwakeOrBlocked(u) ==
    th[u].pc = "sendwait" => ch[SideOf[u]].outWindow = 0 /\ ~ch[SideOf[u]].closed

\* The kinds of step there are.
LEMMA StepKinds ==
    ASSUME Typed, Next
    PROVE  \/ \E t \in Threads : Calm(t)
           \/ \E t \in Threads : Transmit(t)
           \/ \E t \in Threads : Closes(t)
           \/ \E u \in Users : th[u].out = <<>> /\ EndsStream(u)
           \/ \E u \in Users : EventPending(u)
           \/ \E e \in Sides : Opens(e) \/ Dies(e)
           \/ \E u \in Users :
                 /\ ch[SideOf[u]].outWindow = 0 /\ ~ch[SideOf[u]].closed
                 /\ th[u].out = <<>> /\ th' = [th EXCEPT ![u].pc = "sendwait"]
                 /\ UNCHANGED <<ch, wire, up, sent>>
<1>1. \A u \in Users : u \in Threads
  BY HomeFacts
<1>2. \A e \in Sides : e \in Threads
  BY HomeFacts
<1>3. ASSUME NEW u \in Users, UserCalls(u)
      PROVE  Calm(u) \/ Closes(u) \/ (th[u].out = <<>> /\ EndsStream(u))
  <2>1. CASE CallClose(u)
    BY <2>1, CallCloses
  <2>2. CASE \E m \in Methods : CallShutdown(u, m)
    BY <2>2, CalmShutdown, SendEofEnds
  <2> QED
    BY <1>3, <2>1, <2>2, CalmCalls DEF UserCalls
<1>4. ASSUME NEW u \in Users, UserRuns(u) \/ TimesOut(u)
      PROVE  \/ Calm(u) \/ Transmit(u) \/ EventPending(u)
             \/ th[u].out = <<>> /\ EndsStream(u)
             \/ /\ ch[SideOf[u]].outWindow = 0 /\ ~ch[SideOf[u]].closed
                /\ th[u].out = <<>> /\ th' = [th EXCEPT ![u].pc = "sendwait"]
                /\ UNCHANGED <<ch, wire, up, sent>>
  <2>1. CASE Send(u) \/ SendResumes(u)
    BY <2>1, CalmSend
  <2>2. CASE ShutdownWrite(u)
    BY <2>2, CalmShutdown, SendEofEnds
  <2> QED
    BY <1>4, <2>1, <2>2, CalmRuns DEF UserRuns
<1>5. ASSUME NEW e \in Sides, TransportRuns(e) \/ ConnectionLost(e)
      PROVE  Calm(e) \/ Transmit(e) \/ Closes(e) \/ Opens(e) \/ Dies(e)
  <2>1. EndOfStream(e) \/ ConnectionLost(e) => Die(e)
    BY DEF EndOfStream, ConnectionLost
  <2> QED
    BY <1>5, <2>1, CalmHandlers, HandlerCloses, AdjustOpens, TransportDies DEF TransportRuns
<1> QED
  BY <1>1, <1>2, <1>3, <1>4, <1>5 DEF Next

\* Nobody is put to sleep, and whoever sleeps keeps a reason to.
LEMMA WakeupStep ==
    ASSUME Typed, NoLostWindowWakeup, [Next]_vars
    PROVE  NoLostWindowWakeup'
<1> SUFFICES ASSUME NEW u \in Users PROVE AwakeOrBlocked(u)'
  BY DEF NoLostWindowWakeup, AwakeOrBlocked
<1>1. AwakeOrBlocked(u) /\ u \in Threads /\ SideOf[u] \in Sides /\ Home(u) = SideOf[u]
      /\ u \notin Sides /\ th[u] \in GoodThreads
  BY HomeFacts DEF NoLostWindowWakeup, AwakeOrBlocked, Typed, ThOK
<1>2. CASE UNCHANGED vars
  BY <1>1, <1>2 DEF vars, AwakeOrBlocked
<1>3. ASSUME NEW t \in Threads, Calm(t) PROVE AwakeOrBlocked(u)'
  <2>1. Steady(SideOf[u])
    BY <1>1, <1>3 DEF Calm
  <2>2. th'[u].pc = "sendwait" => th[u].pc = "sendwait"
    BY <1>1, <1>3 DEF Calm
  <2> QED
    BY <1>1, <2>1, <2>2 DEF AwakeOrBlocked, Steady
<1>4. ASSUME NEW t \in Threads, Transmit(t) PROVE AwakeOrBlocked(u)'
  <2>1. th[t] \in GoodThreads
    BY DEF Typed, ThOK
  <2>2. th[t].after # "sendwait" /\ ch' = ch
    BY <1>4, <2>1 DEF GoodThreads, Resumptions, Transmit
  <2>3. th'[u].pc = "sendwait" => th[u].pc = "sendwait"
    <3>1. th'[u].pc = th[u].pc \/ th'[u].pc \in {th[t].after, "transmit"}
      BY <1>1, <1>4, <2>1 DEF Transmit, Typed, ThOK, GoodThreads, ThreadStates
    <3> QED
      BY <2>2, <3>1
  <2> QED
    BY <1>1, <2>2, <2>3 DEF AwakeOrBlocked
<1>5. ASSUME NEW t \in Threads, Closes(t) PROVE AwakeOrBlocked(u)'
  BY <1>1, <1>5 DEF AwakeOrBlocked, Closes, Notified
<1>6. ASSUME NEW v \in Users, EndsStream(v) PROVE AwakeOrBlocked(u)'
  BY <1>1, <1>6 DEF AwakeOrBlocked, EndsStream
<1>7. ASSUME NEW v \in Users, EventPending(v) PROVE AwakeOrBlocked(u)'
  <2>1. v \in Threads /\ SideOf[v] \in Sides /\ th[v] \in GoodThreads /\ "reqwait" \in Resumptions
    BY HomeFacts DEF Typed, ThOK, Resumptions
  <2>2. th' = [th EXCEPT ![v] = Dispatch(th[v], <<Msg("request", 0)>>, "reqwait")]
    BY <1>7 DEF EventPending
  <2>3. Dispatch(th[v], <<Msg("request", 0)>>, "reqwait").pc = "transmit"
    BY <2>1 DEF Dispatch, GoodThreads, ThreadStates
  <2>4. th'[u].pc = "sendwait" => th[u].pc = "sendwait"
    BY <1>1, <2>1, <2>2, <2>3 DEF Typed, ThOK
  <2>5. ch'[SideOf[u]].outWindow = ch[SideOf[u]].outWindow /\ ch'[SideOf[u]].closed = ch[SideOf[u]].closed
    BY <1>1, <1>7, <2>1 DEF EventPending, Typed, ChOK, ChannelStates
  <2> QED
    BY <1>1, <2>4, <2>5 DEF AwakeOrBlocked
<1>8. ASSUME NEW e \in Sides, Opens(e) PROVE AwakeOrBlocked(u)'
  BY <1>1, <1>8 DEF AwakeOrBlocked, Opens, Notified
<1>9. ASSUME NEW e \in Sides, Dies(e) PROVE AwakeOrBlocked(u)'
  BY <1>1, <1>9 DEF AwakeOrBlocked, Dies, Notified
<1>10. ASSUME NEW v \in Users, ch[SideOf[v]].outWindow = 0, ~ch[SideOf[v]].closed,
              th' = [th EXCEPT ![v].pc = "sendwait"], ch' = ch
       PROVE  AwakeOrBlocked(u)'
  BY <1>1, <1>10 DEF AwakeOrBlocked, Typed, ThOK
<1> QED
  BY <1>2, <1>3, <1>4, <1>5, <1>6, <1>7, <1>8, <1>9, <1>10, StepKinds

\* A thread that waits in _wait_for_send_window, not yet notified, has an empty
\* window and an open channel: every _window_adjust, close, failed request and
\* lost connection notifies it, in whatever order they come.
THEOREM ChannelNoLostWakeup == Spec => []NoLostWindowWakeup
<1>1. Init => NoLostWindowWakeup
  <2> SUFFICES ASSUME Init, NEW u \in Users PROVE th[u].pc # "sendwait"
    BY DEF NoLostWindowWakeup
  <2>1. u \in Threads
    BY HomeFacts
  <2> QED
    BY <2>1 DEF Init
<1>2. Spec => []Typed
  BY InitTyped, NextTyped, PTL DEF Spec
<1>3. Typed /\ NoLostWindowWakeup /\ [Next]_vars => NoLostWindowWakeup'
  BY WakeupStep
<1> QED
  BY <1>1, <1>2, <1>3, PTL DEF Spec

-----------------------------------------------------------------------------
(* One EOF and one CLOSE                                                    *)

\* The flag that says side e has decided to send its message of kind k, and how
\* many of them it has put on the wire.
Decided(e, k) == IF k = "eof" THEN ch[e].eofSent ELSE ch[e].closed
Count(e, k) == IF k = "eof" THEN sent[e].eof ELSE sent[e].close

\* Message number i that thread t still has to send is of kind k.
Pending(t, k, i) == i \in DOMAIN th[t].out /\ th[t].out[i].type = k

\* The message of kind k is nowhere, in one place of one outbox, or on the wire:
\* in that order, and the flag is set from the second on.
OnceOnly(e, k) ==
    /\ Count(e, k) <= 1
    /\ Count(e, k) > 0 => Decided(e, k)
    /\ \A t \in Threads, i \in Nat :
          Home(t) = e /\ Pending(t, k, i) => Decided(e, k) /\ Count(e, k) = 0
    /\ \A s, t \in Threads, i, j \in Nat :
          Home(s) = e /\ Home(t) = e /\ Pending(s, k, i) /\ Pending(t, k, j) => s = t /\ i = j

Kinds == {"eof", "close"}

OneOfEach == \A e \in Sides, k \in Kinds : OnceOnly(e, k)

\* Two messages, one after the other.
LEMMA PairOf == ASSUME NEW S, NEW a \in S, NEW b \in S PROVE <<a>> \o <<b>> = <<a, b>>
<1>1. <<a>> \in Seq(S) /\ <<b>> \in Seq(S) /\ <<a, b>> \in Seq(S)
      /\ Len(<<a>>) = 1 /\ Len(<<b>>) = 1 /\ Len(<<a, b>>) = 2
  OBVIOUS
<1>2. /\ <<a>> \o <<b>> \in Seq(S) /\ Len(<<a>> \o <<b>>) = 2
      /\ \A i \in 1..2 : (<<a>> \o <<b>>)[i] = IF i <= 1 THEN <<a>>[i] ELSE <<b>>[i - 1]
  BY <1>1, ConcatProperties
<1>3. \A i \in 1..2 : (<<a>> \o <<b>>)[i] = <<a, b>>[i]
  BY <1>2
<1> QED
  BY <1>1, <1>2, <1>3, SeqEqual

\* The messages _send_eof and _close_internal return hold a kind once, and only if
\* it was not decided before.
LEMMA EndMessagesOnce ==
    ASSUME NEW c \in ChannelStates
    PROVE  /\ \A i \in DOMAIN EofMessages(c) : EofMessages(c)[i].type = "eof" /\ ~c.eofSent /\ i = 1
           /\ \A i \in DOMAIN CloseMessages(c) :
                 /\ ~c.closed
                 /\ CloseMessages(c)[i].type = "eof" => ~c.eofSent /\ i = 1
                 /\ CloseMessages(c)[i].type = "close" => i = IF c.eofSent THEN 1 ELSE 2
<1>1. Msg("eof", 0) \in Messages /\ Msg("close", 0) \in Messages
      /\ Msg("eof", 0).type = "eof" /\ Msg("close", 0).type = "close"
  BY MsgFacts DEF MsgTypes
<1>2. EofMessages(c) = IF c.eofSent THEN <<>> ELSE <<Msg("eof", 0)>>
  BY DEF EofMessages
<1>3. CloseMessages(c) = IF c.closed THEN <<>> ELSE IF c.eofSent THEN <<Msg("close", 0)>>
                         ELSE <<Msg("eof", 0), Msg("close", 0)>>
  <2>1. <<>> \o <<Msg("close", 0)>> = <<Msg("close", 0)>>
    BY <1>1
  <2>2. <<Msg("eof", 0)>> \o <<Msg("close", 0)>> = <<Msg("eof", 0), Msg("close", 0)>>
    BY <1>1, PairOf
  <2> QED
    BY <1>2, <2>1, <2>2 DEF CloseMessages
<1> QED
  BY <1>1, <1>2, <1>3

\* A step that lets no thread gain such a message and leaves flags and counts.
LEMMA OnceKept ==
    ASSUME NEW e \in Sides, NEW k \in Kinds, OnceOnly(e, k),
           \A t \in Threads, i \in Nat : Pending(t, k, i)' => Pending(t, k, i),
           Decided(e, k) => Decided(e, k)', Count(e, k)' = Count(e, k)
    PROVE  OnceOnly(e, k)'
  BY DEF OnceOnly

\* A step by which one thread gains one such message, not decided before.
LEMMA OnceGained ==
    ASSUME NEW e \in Sides, NEW k \in Kinds, OnceOnly(e, k), NEW t \in Threads, NEW p \in Nat,
           \A s \in Threads, i \in Nat : Pending(s, k, i)' => Pending(s, k, i) \/ (s = t /\ i = p),
           ~Decided(e, k), Decided(e, k)', Count(e, k)' = Count(e, k), Count(e, k) \in Nat
    PROVE  OnceOnly(e, k)'
  BY DEF OnceOnly

\* One of the messages of an outbox goes out.
LEMMA OnceTransmit ==
    ASSUME Typed, NEW t \in Threads, Transmit(t), NEW e \in Sides, NEW k \in Kinds, OnceOnly(e, k)
    PROVE  OnceOnly(e, k)'
<1> DEFINE m == Head(th[t].out)
           rest == Tail(th[t].out)
           more(kind) == IF m.type = kind THEN 1 ELSE 0
<1>1. th[t] \in GoodThreads /\ th[t].pc = "transmit" /\ Home(t) \in Sides
  BY HomeFacts DEF Typed, ThOK, Transmit
<1>2. th[t].out \in Seq(Messages) /\ th[t].out # <<>>
  BY <1>1 DEF GoodThreads, ThreadStates
<1>3. /\ rest \in Seq(Messages) /\ Len(rest) = Len(th[t].out) - 1 /\ Len(th[t].out) \in Nat \ {0}
      /\ DOMAIN rest = 1..Len(rest) /\ DOMAIN th[t].out = 1..Len(th[t].out)
      /\ \A i \in DOMAIN rest : rest[i] = th[t].out[i + 1]
      /\ m = th[t].out[1]
  BY <1>2, HeadTailProperties, EmptySeq, LenProperties
<1>4. th'[t].out = rest /\ \A s \in Threads : s # t => th'[s] = th[s]
  BY <1>1 DEF Transmit, Typed, ThOK, GoodThreads, ThreadStates
<1> HIDE DEF rest, m
<1>5. \A i \in Nat : Pending(t, k, i)' => Pending(t, k, i + 1)
  BY <1>3, <1>4 DEF Pending
<1>6. \A s \in Threads, i \in Nat : s # t => (Pending(s, k, i)' <=> Pending(s, k, i))
  BY <1>4 DEF Pending
<1>7. m.type = k => Pending(t, k, 1)
  BY <1>3 DEF Pending
<1>8. Decided(e, k)' = Decided(e, k)
  BY DEF Transmit, Decided
<1>9. sent[e].eof \in Nat /\ sent[e].close \in Nat /\ Count(e, k) \in Nat
  BY DEF Typed, SentOK, Count
<1>10. CASE Home(t) # e \/ ~up[Home(t)] \/ m.type # k
  <2>1. Count(e, k)' = Count(e, k)
    <3>1. \/ sent' = sent
          \/ sent' = [sent EXCEPT ![Home(t)].eof = @ + more("eof"), ![Home(t)].close = @ + more("close")]
      BY DEF Transmit, m
    <3>2. CASE sent' = sent
      BY <3>2 DEF Count
    <3>3. CASE sent' = [sent EXCEPT ![Home(t)].eof = @ + more("eof"), ![Home(t)].close = @ + more("close")]
               /\ Home(t) # e
      BY <1>1, <3>3 DEF Count, Typed, SentOK
    <3>4. CASE ~up[Home(t)]
      BY <3>4 DEF Transmit, Count
    <3>5. CASE m.type # k /\ Home(t) = e
               /\ sent' = [sent EXCEPT ![Home(t)].eof = @ + more("eof"), ![Home(t)].close = @ + more("close")]
      BY <1>1, <1>9, <3>5 DEF Count, Typed, SentOK, Kinds
    <3> QED
      BY <1>10, <3>1, <3>2, <3>3, <3>4, <3>5
  <2> QED
    BY <1>5, <1>6, <1>8, <1>9, <2>1 DEF OnceOnly
<1>11. CASE Home(t) = e /\ up[Home(t)] /\ m.type = k
  <2>1. Count(e, k) = 0 /\ Decided(e, k)
    BY <1>7, <1>11 DEF OnceOnly
  <2>2. Count(e, k)' = 1
    <3>1. sent' = [sent EXCEPT ![e].eof = @ + more("eof"), ![e].close = @ + more("close")]
      BY <1>11 DEF Transmit, m
    <3> QED
      BY <1>9, <1>11, <2>1, <3>1 DEF Count, Typed, SentOK, Kinds
  <2>3. \A s \in Threads, i \in Nat : Home(s) = e => ~Pending(s, k, i)'
    <3>1. \A i \in Nat : ~Pending(t, k, i + 1)  \/ i + 1 = 1
      BY <1>7, <1>11 DEF OnceOnly
    <3>2. \A i \in Nat : Pending(t, k, i)' => i \in Nat \ {0}
      BY <1>3, <1>4 DEF Pending
    <3>3. \A i \in Nat : ~Pending(t, k, i)'
      BY <1>5, <3>1, <3>2
    <3>4. \A s \in Threads, i \in Nat : Home(s) = e /\ s # t => ~Pending(s, k, i)
      BY <1>7, <1>11 DEF OnceOnly
    <3> QED
      BY <1>6, <3>3, <3>4
  <2> QED
    BY <1>8, <2>1, <2>2, <2>3 DEF OnceOnly
<1> QED
  BY <1>10, <1>11

\* The channel ends once: every kind of step keeps that.
LEMMA OnceStep ==
    ASSUME Typed, OneOfEach, [Next]_vars
    PROVE  OneOfEach'
<1> SUFFICES ASSUME NEW e \in Sides, NEW k \in Kinds PROVE OnceOnly(e, k)'
  BY DEF OneOfEach
<1>1. OnceOnly(e, k) /\ sent[e].eof \in Nat /\ sent[e].close \in Nat /\ Count(e, k) \in Nat
      /\ ch[e] \in ChannelStates
  BY DEF OneOfEach, Typed, SentOK, Count, ChOK
<1>2. CASE UNCHANGED vars
  BY <1>1, <1>2 DEF vars, OnceOnly, Pending, Decided, Count
<1>3. ASSUME NEW t \in Threads, Calm(t) PROVE OnceOnly(e, k)'
  <2>1. \A s \in Threads, i \in Nat : Pending(s, k, i)' => Pending(s, k, i)
    BY <1>3 DEF Calm, Pending, Kinds
  <2>2. Decided(e, k)' = Decided(e, k) /\ Count(e, k)' = Count(e, k)
    BY <1>3 DEF Calm, Steady, Decided, Count
  <2> QED
    BY <1>1, <2>1, <2>2, OnceKept
<1>4. ASSUME NEW t \in Threads, Transmit(t) PROVE OnceOnly(e, k)'
  BY <1>1, <1>4, OnceTransmit
<1>5. ASSUME NEW t \in Threads, Closes(t) PROVE OnceOnly(e, k)'
  <2> DEFINE d == Home(t)
  <2>1. d \in Sides /\ ch[d] \in ChannelStates
    BY HomeFacts DEF Typed, ChOK
  <2>2. \A s \in Threads, i \in Nat : s # t => (Pending(s, k, i)' <=> Pending(s, k, i))
    BY <1>5 DEF Closes, Notified, Pending
  <2>3. \A i \in Nat : Pending(t, k, i)' =>
           ~ch[d].closed /\ ~Decided(d, k) /\ i = IF k = "eof" \/ ch[d].eofSent THEN 1 ELSE 2
    BY <1>5, <2>1, EndMessagesOnce DEF Closes, Pending, Decided, Kinds
  <2>4. Count(e, k)' = Count(e, k) /\ (Decided(e, k) => Decided(e, k)')
    <3>1. CASE e = d
      BY <1>5, <3>1 DEF Closes, Count, Decided
    <3>2. CASE e # d
      BY <1>5, <3>2 DEF Closes, Count, Decided
    <3> QED
      BY <3>1, <3>2
  <2>5. ~ch[d].closed => Decided(d, k)'
    BY <1>5 DEF Closes, Decided
  <2>6. CASE e # d \/ ch[d].closed \/ Decided(d, k)
    <3>1. CASE e # d
      <4>1. \A s \in Threads, i \in Nat : Home(s) = e => (Pending(s, k, i)' <=> Pending(s, k, i))
        BY <2>2, <3>1
      <4> QED
        BY <1>1, <2>4, <4>1 DEF OnceOnly
    <3>2. CASE ch[d].closed \/ Decided(d, k)
      <4>1. \A s \in Threads, i \in Nat : Pending(s, k, i)' => Pending(s, k, i)
        BY <2>2, <2>3, <3>2
      <4> QED
        BY <1>1, <2>4, <4>1, OnceKept
    <3> QED
      BY <2>6, <3>1, <3>2
  <2>7. CASE e = d /\ ~ch[d].closed /\ ~Decided(d, k)
    <3> DEFINE p == IF k = "eof" \/ ch[d].eofSent THEN 1 ELSE 2
    <3>1. p \in Nat
      OBVIOUS
    <3>2. \A s \in Threads, i \in Nat : Pending(s, k, i)' => Pending(s, k, i) \/ (s = t /\ i = p)
      BY <2>2, <2>3
    <3> HIDE DEF p
    <3> QED
      BY <1>1, <2>4, <2>5, <2>7, <3>1, <3>2, OnceGained
  <2> QED
    BY <2>6, <2>7
<1>6. ASSUME NEW u \in Users, th[u].out = <<>>, EndsStream(u) PROVE OnceOnly(e, k)'
  <2> DEFINE d == SideOf[u]
  <2>1. d \in Sides /\ ch[d] \in ChannelStates /\ u \in Threads /\ Home(u) = d
    BY HomeFacts DEF Typed, ChOK
  <2>2. \A s \in Threads, i \in Nat : s # u => (Pending(s, k, i)' <=> Pending(s, k, i))
    BY <1>6 DEF EndsStream, Pending
  <2>3. \A i \in Nat : Pending(u, k, i)' => k = "eof" /\ ~ch[d].eofSent /\ i = 1
    BY <1>6, <2>1, EndMessagesOnce DEF EndsStream, Pending
  <2>4. Count(e, k)' = Count(e, k) /\ (Decided(e, k) => Decided(e, k)')
    BY <1>6, <2>1 DEF EndsStream, Count, Decided
  <2>5. CASE e # d
    <3>1. \A s \in Threads, i \in Nat : Home(s) = e => (Pending(s, k, i)' <=> Pending(s, k, i))
      BY <2>1, <2>2, <2>5
    <3> QED
      BY <1>1, <2>4, <3>1 DEF OnceOnly
  <2>6. CASE k # "eof" \/ ch[d].eofSent
    <3>1. \A s \in Threads, i \in Nat : Pending(s, k, i)' => Pending(s, k, i)
      BY <2>2, <2>3, <2>6
    <3> QED
      BY <1>1, <2>4, <3>1, OnceKept
  <2>7. CASE e = d /\ k = "eof" /\ ~ch[d].eofSent
    <3>1. ~Decided(e, k) /\ Decided(e, k)'
      BY <1>6, <2>7 DEF EndsStream, Decided
    <3>2. \A s \in Threads, i \in Nat : Pending(s, k, i)' => Pending(s, k, i) \/ (s = u /\ i = 1)
      BY <2>2, <2>3
    <3> QED
      BY <1>1, <2>1, <2>4, <3>1, <3>2, OnceGained
  <2> QED
    BY <2>5, <2>6, <2>7
<1>7. ASSUME NEW u \in Users, EventPending(u) PROVE OnceOnly(e, k)'
  <2>1. u \in Threads /\ SideOf[u] \in Sides /\ th[u] \in GoodThreads
    BY HomeFacts DEF Typed, ThOK
  <2>2. th' = [th EXCEPT ![u] = Dispatch(th[u], <<Msg("request", 0)>>, "reqwait")]
    BY <1>7 DEF EventPending
  <2>3. Dispatch(th[u], <<Msg("request", 0)>>, "reqwait").out = <<Msg("request", 0)>>
    BY <2>1 DEF Dispatch, GoodThreads, ThreadStates
  <2>4. th'[u].out = <<Msg("request", 0)>> /\ \A s \in Threads : s # u => th'[s] = th[s]
    BY <2>1, <2>2, <2>3 DEF Typed, ThOK
  <2>5. Msg("request", 0).type = "request"
    BY MsgFacts DEF MsgTypes
  <2>6. \A s \in Threads, i \in Nat : Pending(s, k, i)' => Pending(s, k, i)
    BY <2>4, <2>5 DEF Pending, Kinds
  <2>7. Decided(e, k)' = Decided(e, k) /\ Count(e, k)' = Count(e, k)
    BY <1>7, <2>1 DEF EventPending, Decided, Count, Typed, ChOK, ChannelStates
  <2> QED
    BY <1>1, <2>6, <2>7, OnceKept
<1>8. ASSUME NEW d \in Sides, Opens(d) PROVE OnceOnly(e, k)'
  <2>1. \A s \in Threads, i \in Nat : Pending(s, k, i)' => Pending(s, k, i)
    BY <1>8 DEF Opens, Notified, Pending
  <2>2. Decided(e, k)' = Decided(e, k) /\ Count(e, k)' = Count(e, k)
    BY <1>8 DEF Opens, Decided, Count
  <2> QED
    BY <1>1, <2>1, <2>2, OnceKept
<1>9. ASSUME NEW d \in Sides, Dies(d) PROVE OnceOnly(e, k)'
  <2>1. \A s \in Threads, i \in Nat : Pending(s, k, i)' => Pending(s, k, i)
    BY <1>9 DEF Dies, Notified, Pending
  <2>2. (Decided(e, k) => Decided(e, k)') /\ Count(e, k)' = Count(e, k)
    <3>1. CASE e = d
      BY <1>9, <3>1 DEF Dies, Decided, Count
    <3>2. CASE e # d
      BY <1>9, <3>2 DEF Dies, Decided, Count
    <3> QED
      BY <3>1, <3>2
  <2> QED
    BY <1>1, <2>1, <2>2, OnceKept
<1>10. ASSUME NEW u \in Users, th[u].out = <<>>, th' = [th EXCEPT ![u].pc = "sendwait"], UNCHANGED <<ch, sent>>
       PROVE  OnceOnly(e, k)'
  <2>1. u \in Threads
    BY HomeFacts
  <2>2. \A s \in Threads : th'[s].out = th[s].out
    BY <1>10, <2>1 DEF Typed, ThOK, GoodThreads, ThreadStates
  <2>3. \A s \in Threads, i \in Nat : Pending(s, k, i)' => Pending(s, k, i)
    BY <2>2 DEF Pending
  <2>4. Decided(e, k)' = Decided(e, k) /\ Count(e, k)' = Count(e, k)
    BY <1>10 DEF Decided, Count
  <2> QED
    BY <1>1, <2>3, <2>4, OnceKept
<1> QED
  BY <1>2, <1>3, <1>4, <1>5, <1>6, <1>7, <1>8, <1>9, <1>10, StepKinds

\* Nothing is pending and nothing is sent at the start.
LEMMA OnceInit == Init => OneOfEach
  BY DEF Init, OneOfEach, OnceOnly, Pending, Decided, Count, NewChannel

\* shutdown, close, the peer's CLOSE, a failed request and any number of threads
\* that call them at once: each side still sends one EOF and one CLOSE at most.
THEOREM ChannelEndsOnce == Spec => []OneEofOneClose
<1>1. Spec => []Typed
  BY InitTyped, NextTyped, PTL DEF Spec
<1>2. Typed /\ OneOfEach /\ [Next]_vars => OneOfEach'
  BY OnceStep
<1>3. OneOfEach => OneEofOneClose
  <2> SUFFICES ASSUME OneOfEach, NEW e \in Sides PROVE sent[e].eof <= 1 /\ sent[e].close <= 1
    BY DEF OneEofOneClose
  <2>1. OnceOnly(e, "eof") /\ OnceOnly(e, "close")
    BY DEF OneOfEach, Kinds
  <2> QED
    BY <2>1 DEF OnceOnly, Count
<1> QED
  BY OnceInit, <1>1, <1>2, <1>3, PTL DEF Spec

-----------------------------------------------------------------------------
(* A request somebody waits for is still under way                          *)

\* No outbox loses a message.
Kept == \A s \in Threads : th[s].out = <<>> \/ th'[s].out = th[s].out

\* A closed channel stays closed.
StaysClosed == \A d \in Sides : ch[d].closed => ch'[d].closed

\* A step that neither sends nor receives.
Local ==
    /\ Kept /\ StaysClosed
    /\ \A d \in Sides : ch'[d].linked = ch[d].linked
    /\ UNCHANGED <<wire, up>>

\* The transport thread of e reads the next message of its peer: what each kind of
\* message to a linked channel brings about.
Receives(e) ==
    LET kind == Head(wire[Peer(e)]).type
    IN /\ NextMessage(e) /\ UNCHANGED up
       /\ Kept /\ StaysClosed
       /\ \A d \in Sides : d # e => ch'[d].linked = ch[d].linked
       /\ ch'[e].linked = ch[e].linked \/ (kind = "close" /\ ch'[e].closed)
       /\ ch[e].linked =>
             /\ kind = "request" => \E a \in {"success", "failure"} : Pending(e, a, 1)'
             /\ kind = "success" => ch'[e].event
             /\ kind = "failure" => ch'[e].closed

\* A step of one thread that had nothing to send keeps every outbox.
LEMMA KeptByOne ==
    ASSUME NEW t \in Threads, th[t].out = <<>>, \A s \in Threads : s # t => th'[s].out = th[s].out
    PROVE  Kept
  BY DEF Kept

\* Calm steps lose nothing.
LEMMA CalmKeeps ==
    ASSUME NEW t \in Threads, Calm(t)
    PROVE  Kept /\ StaysClosed /\ (\A d \in Sides : ch'[d].linked = ch[d].linked) /\ UNCHANGED up
  BY DEF Calm, Steady, Kept, StaysClosed

\* Closing loses nothing.
LEMMA ClosesKeeps ==
    ASSUME NEW t \in Threads, Closes(t)
    PROVE  /\ Kept /\ StaysClosed /\ UNCHANGED up /\ ch'[Home(t)].closed
           /\ \A d \in Sides : d # Home(t) => ch'[d].linked = ch[d].linked
<1>1. Kept
  BY DEF Closes, Notified, Kept
<1>2. StaysClosed
  <2> SUFFICES ASSUME NEW d \in Sides, ch[d].closed PROVE ch'[d].closed
    BY DEF StaysClosed
  <2>1. CASE d = Home(t)
    BY <2>1 DEF Closes
  <2>2. CASE d # Home(t)
    BY <2>2 DEF Closes
  <2> QED
    BY <2>1, <2>2
<1> QED
  BY <1>1, <1>2 DEF Closes

\* What a user does, apart from sending, is local.
LEMMA UserIsLocal ==
    ASSUME Typed, NEW u \in Users, UserCalls(u) \/ UserRuns(u) \/ TimesOut(u)
    PROVE  Local \/ Transmit(u)
<1>1. u \in Threads /\ SideOf[u] \in Sides /\ Home(u) = SideOf[u] /\ ThOK
  BY HomeFacts DEF Typed
<1>3. CASE Calm(u) /\ UNCHANGED wire
  BY <1>1, <1>3, CalmKeeps DEF Local
<1>4. CASE th[u].out = <<>> /\ EndsStream(u)
  <2>1. Kept
    BY <1>1, <1>4, KeptByOne DEF EndsStream
  <2> QED
    BY <1>4, <2>1 DEF Local, EndsStream, StaysClosed
<1>5. CASE CallClose(u)
  <2>1. Closes(u) /\ UNCHANGED <<wire, up>> /\ \A d \in Sides : ch'[d].linked = ch[d].linked
    BY <1>5, CallCloses DEF CallClose
  <2> QED
    BY <1>1, <2>1, ClosesKeeps DEF Local
<1>6. CASE EventPending(u)
  <2>1. th[u].out = <<>> /\ UNCHANGED <<wire, up>>
    BY <1>1, <1>6, Empty DEF EventPending
  <2>2. \A s \in Threads : s # u => th'[s].out = th[s].out
    BY <1>1, <1>6 DEF EventPending, ThOK
  <2>3. \A d \in Sides : ch'[d].linked = ch[d].linked /\ ch'[d].closed = ch[d].closed
    BY <1>1, <1>6 DEF EventPending, Typed, ChOK, ChannelStates
  <2> QED
    BY <1>1, <2>1, <2>2, <2>3, KeptByOne DEF Local, StaysClosed
<1>7. CASE th[u].out = <<>> /\ th' = [th EXCEPT ![u].pc = "sendwait"] /\ UNCHANGED <<ch, wire, up, sent>>
  <2>1. \A s \in Threads : s # u => th'[s].out = th[s].out
    BY <1>1, <1>7 DEF ThOK
  <2> QED
    BY <1>1, <1>7, <2>1, KeptByOne DEF Local, StaysClosed
<1>8. CASE UserCalls(u)
  <2>1. CASE \E m \in Methods : CallShutdown(u, m)
    <3>1. UNCHANGED wire
      BY <2>1 DEF CallShutdown, SendEof
    <3> QED
      BY <1>3, <1>4, <2>1, <3>1, CalmShutdown, SendEofEnds
  <2>2. CASE ~CallClose(u) /\ ~\E m \in Methods : CallShutdown(u, m)
    <3>1. Calm(u)
      BY <1>8, <2>2, CalmCalls DEF UserCalls
    <3>2. UNCHANGED wire
      BY <1>8, <2>2 DEF UserCalls, CallSend, CallRecv, CallRequest, CallSendExitStatus,
                        CallRecvExitStatus, CallCombine
    <3> QED
      BY <1>3, <3>1, <3>2
  <2> QED
    BY <1>5, <2>1, <2>2
<1>9. CASE UserRuns(u) \/ TimesOut(u)
  <2>1. CASE Send(u) \/ SendResumes(u)
    <3>1. UNCHANGED wire
      BY <2>1 DEF Send, SendResumes
    <3> QED
      BY <1>3, <1>7, <2>1, <3>1, CalmSend
  <2>2. CASE ShutdownWrite(u)
    <3>1. UNCHANGED wire
      BY <2>2 DEF ShutdownWrite, SendEof
    <3> QED
      BY <1>3, <1>4, <2>2, <3>1, CalmShutdown, SendEofEnds
  <2>3. CASE Recv(u) \/ Credit(u) \/ WaitForEvent(u) \/ RecvExitStatus(u) \/ Refeed(u) \/ TimesOut(u)
    <3>1. UNCHANGED wire
      BY <2>3 DEF Recv, Credit, WaitForEvent, RecvExitStatus, Refeed, TimesOut
    <3> QED
      BY <1>3, <2>3, <3>1, CalmRuns
  <2> QED
    BY <1>6, <1>9, <2>1, <2>2, <2>3 DEF UserRuns
<1> QED
  BY <1>8, <1>9

\* What a transport thread does, apart from sending and ending, is to receive a
\* message or to finish with one it received.
LEMMA TransportReceives ==
    ASSUME Typed, NEW e \in Sides, TransportRuns(e) \/ ConnectionLost(e)
    PROVE  Local \/ Receives(e) \/ Transmit(e) \/ Dies(e)
<1> DEFINE kind == Head(wire[Peer(e)]).type
<1>1. e \in Threads /\ Home(e) = e /\ ThOK /\ ch[e] \in ChannelStates /\ th[e] \in GoodThreads
  BY HomeFacts DEF Typed, ChOK, ThOK
<1>2. CASE FeedExtended(e)
  <2>1. Calm(e) /\ UNCHANGED wire
    BY <1>2, CalmHandlers DEF FeedExtended
  <2> QED
    BY <1>1, <2>1, CalmKeeps DEF Local
<1>3. CASE Ignore(e)
  <2>1. Calm(e) /\ NextMessage(e) /\ ~ch[e].linked
    BY <1>3, CalmHandlers DEF Ignore
  <2> QED
    BY <1>1, <2>1, CalmKeeps DEF Receives
<1>4. CASE HandleData(e) \/ HandleExtended(e) \/ HandleEof(e) \/ HandleExitStatus(e)
  <2>1. Calm(e) /\ NextMessage(e) /\ kind \in {"data", "ext", "eof", "status"}
    BY <1>4, CalmHandlers DEF HandleData, HandleExtended, HandleEof, HandleExitStatus, Incoming
  <2> QED
    BY <1>1, <2>1, CalmKeeps DEF Receives
<1>5. CASE RequestSuccess(e)
  <2>1. Calm(e) /\ NextMessage(e) /\ kind = "success"
    BY <1>5, CalmHandlers DEF RequestSuccess, Incoming
  <2>2. ch'[e].event
    BY <1>5 DEF RequestSuccess, Typed, ChOK, ChannelStates
  <2> QED
    BY <1>1, <2>1, <2>2, CalmKeeps DEF Receives
<1>6. CASE HandleRequest(e)
  <2>1. Calm(e) /\ NextMessage(e) /\ kind = "request" /\ th[e].pc = "idle"
    BY <1>6, CalmHandlers DEF HandleRequest, Incoming, NextMessage
  <2>2. PICK a \in {"success", "failure"} :
           th' = [th EXCEPT ![e] = Dispatch(th[e], <<Msg(a, 0)>>, "idle")]
    BY <1>6 DEF HandleRequest
  <2>3. <<Msg(a, 0)>> \in Seq(Messages) /\ Msg(a, 0).type = a /\ "idle" \in Resumptions
        /\ "idle" # "reqwait" /\ th[e].pc # "transmit"
    BY <2>1, MsgFacts DEF MsgTypes, Resumptions
  <2>4. Dispatch(th[e], <<Msg(a, 0)>>, "idle").out = <<Msg(a, 0)>>
    BY <1>1, <2>1, <2>3, DispatchTypes
  <2>5. th'[e].out = <<Msg(a, 0)>>
    BY <1>1, <2>2, <2>4 DEF ThOK
  <2>6. Pending(e, a, 1)'
    BY <2>3, <2>5 DEF Pending
  <2> QED
    BY <1>1, <2>1, <2>6, CalmKeeps DEF Receives
<1>7. CASE HandleWindowAdjust(e)
  <2>1. Opens(e) /\ NextMessage(e) /\ kind = "adjust"
    BY <1>7, AdjustOpens DEF HandleWindowAdjust, Incoming
  <2>2. Kept /\ StaysClosed
    BY <2>1 DEF Opens, Notified, Kept, StaysClosed
  <2> QED
    BY <2>1, <2>2 DEF Receives, Opens
<1>8. CASE RequestFailed(e)
  <2>1. Closes(e) /\ NextMessage(e) /\ kind = "failure"
    BY <1>8, HandlerCloses DEF RequestFailed, Incoming
  <2>2. ch'[e].linked = ch[e].linked
    <3>1. ch'[e] = CloseInternal(ch[e])
      BY <1>8 DEF RequestFailed, Typed, ChOK
    <3> QED
      BY <1>1, <3>1, CloseInternalFacts
  <2> QED
    BY <1>1, <2>1, <2>2, ClosesKeeps DEF Receives
<1>9. CASE HandleClose(e)
  <2>1. Closes(e) /\ NextMessage(e) /\ kind = "close"
    BY <1>9, HandlerCloses DEF HandleClose, Incoming
  <2> QED
    BY <1>1, <2>1, ClosesKeeps DEF Receives
<1>10. CASE EndOfStream(e) \/ ConnectionLost(e)
  BY <1>10, TransportDies DEF EndOfStream, ConnectionLost
<1> QED
  BY <1>2, <1>3, <1>4, <1>5, <1>6, <1>7, <1>8, <1>9, <1>10 DEF TransportRuns

\* What becomes of the messages, in any step.
LEMMA MessageKinds ==
    ASSUME Typed, Next
    PROVE  \/ Local
           \/ \E t \in Threads : Transmit(t)
           \/ \E e \in Sides : Receives(e) \/ Dies(e)
<1>1. (\A u \in Users : u \in Threads) /\ \A e \in Sides : e \in Threads
  BY HomeFacts
<1> QED
  BY <1>1, UserIsLocal, TransportReceives DEF Next

\* Why a closed end is closed: a dead or unlinked end is a closed one, a CLOSE on
\* the wire comes from a closed end, and an end was unlinked by a CLOSE of its peer
\* or by the end of its transport.
EndsKnown(e) ==
    /\ ~up[e] => ch[e].closed
    /\ ~ch[e].linked => ch[e].closed
    /\ OnWire(e, "close") => ch[e].closed
    /\ ~ch[Peer(e)].linked => ~up[Peer(e)] \/ ch[e].closed

AllEndsKnown == \A e \in Sides : EndsKnown(e)

\* Append, seen from the kinds of message a queue holds.
LEMMA AppendKinds ==
    ASSUME NEW q \in Seq(Messages), NEW m \in Messages, NEW k
    PROVE  (\E i \in DOMAIN Append(q, m) : Append(q, m)[i].type = k)
              <=> (m.type = k \/ \E i \in DOMAIN q : q[i].type = k)
<1>1. Len(q) \in Nat /\ DOMAIN q = 1..Len(q)
  BY LenProperties
<1>2. /\ Append(q, m) \in Seq(Messages) /\ DOMAIN Append(q, m) = 1..(Len(q) + 1)
      /\ \A i \in 1..Len(q) : Append(q, m)[i] = q[i]
      /\ Append(q, m)[Len(q) + 1] = m
  BY <1>1
<1> QED
  BY <1>1, <1>2

\* Head and Tail, seen the same way.
LEMMA TailKinds ==
    ASSUME NEW q \in Seq(Messages), q # <<>>, NEW k
    PROVE  /\ Head(q).type = k => \E i \in DOMAIN q : q[i].type = k
           /\ (\E i \in DOMAIN Tail(q) : Tail(q)[i].type = k) => \E i \in DOMAIN q : q[i].type = k
           /\ (\E i \in DOMAIN q : q[i].type = k)
                 => Head(q).type = k \/ \E i \in DOMAIN Tail(q) : Tail(q)[i].type = k
<1>1. /\ Len(q) \in Nat \ {0} /\ Head(q) = q[1] /\ Len(Tail(q)) = Len(q) - 1
      /\ DOMAIN q = 1..Len(q) /\ DOMAIN Tail(q) = 1..(Len(q) - 1)
      /\ \A i \in 1..(Len(q) - 1) : Tail(q)[i] = q[i + 1]
  BY HeadTailProperties, EmptySeq, LenProperties
<1>2. \A i \in 1..Len(q) : i = 1 \/ (i - 1 \in 1..(Len(q) - 1) /\ Tail(q)[i - 1] = q[i])
  BY <1>1
<1>3. Head(q).type = k => \E i \in DOMAIN q : q[i].type = k
  BY <1>1
<1>4. (\E i \in DOMAIN Tail(q) : Tail(q)[i].type = k) => \E i \in DOMAIN q : q[i].type = k
  <2>1. \A i \in 1..(Len(q) - 1) : i + 1 \in DOMAIN q
    BY <1>1
  <2> QED
    BY <1>1, <2>1
<1>5. ASSUME NEW i \in DOMAIN q, q[i].type = k
      PROVE  Head(q).type = k \/ \E j \in DOMAIN Tail(q) : Tail(q)[j].type = k
  BY <1>1, <1>2, <1>5
<1> QED
  BY <1>3, <1>4, <1>5

\* What the wire of side d holds after the transport thread of e has read a message,
\* and after thread t has sent one.
LEMMA WireKinds ==
    ASSUME Typed, NEW d \in Sides, NEW k
    PROVE  /\ \A e \in Sides : NextMessage(e) =>
                 /\ OnWire(d, k)' => OnWire(d, k)
                 /\ OnWire(d, k) => \/ OnWire(d, k)'
                                    \/ d = Peer(e) /\ Head(wire[Peer(e)]).type = k
                 /\ Head(wire[Peer(e)]).type = k => OnWire(Peer(e), k)
           /\ \A t \in Threads : Transmit(t) =>
                 /\ OnWire(d, k) => OnWire(d, k)'
                 /\ OnWire(d, k)' => OnWire(d, k) \/ (Home(t) = d /\ Pending(t, k, 1))
                 /\ Home(t) = d /\ Pending(t, k, 1) => OnWire(d, k)' \/ ~up[d]
<1>1. ASSUME NEW e \in Sides, NextMessage(e)
      PROVE  /\ OnWire(d, k)' => OnWire(d, k)
             /\ OnWire(d, k) => \/ OnWire(d, k)'
                                \/ d = Peer(e) /\ Head(wire[Peer(e)]).type = k
             /\ Head(wire[Peer(e)]).type = k => OnWire(Peer(e), k)
  <2>1. /\ Peer(e) \in Sides /\ wire[Peer(e)] \in Seq(Messages) /\ wire[Peer(e)] # <<>>
        /\ wire' = [wire EXCEPT ![Peer(e)] = Tail(wire[Peer(e)])]
        /\ Head(wire[Peer(e)]) \in Messages
    BY <1>1, HeadFacts DEF Typed
  <2>2. \A s \in Sides : wire'[s] = IF s = Peer(e) THEN Tail(wire[s]) ELSE wire[s]
    BY <2>1 DEF Typed, WireOK
  <2> DEFINE q == wire[Peer(e)]
  <2> HIDE DEF q
  <2>3. /\ Head(q).type = k => \E i \in DOMAIN q : q[i].type = k
        /\ (\E i \in DOMAIN Tail(q) : Tail(q)[i].type = k) => \E i \in DOMAIN q : q[i].type = k
        /\ (\E i \in DOMAIN q : q[i].type = k)
              => Head(q).type = k \/ \E i \in DOMAIN Tail(q) : Tail(q)[i].type = k
    <3>1. q \in Seq(Messages) /\ q # <<>>
      BY <2>1 DEF q
    <3> QED
      BY <3>1, TailKinds
  <2> USE DEF q
  <2>4. CASE d = Peer(e)
    BY <2>1, <2>2, <2>3, <2>4 DEF OnWire
  <2>5. CASE d # Peer(e)
    BY <2>2, <2>3, <2>5 DEF OnWire
  <2> QED
    BY <2>4, <2>5
<1>2. ASSUME NEW t \in Threads, Transmit(t)
      PROVE  /\ OnWire(d, k) => OnWire(d, k)'
             /\ OnWire(d, k)' => OnWire(d, k) \/ (Home(t) = d /\ Pending(t, k, 1))
             /\ Home(t) = d /\ Pending(t, k, 1) => OnWire(d, k)' \/ ~up[d]
  <2> DEFINE m == Head(th[t].out)
  <2>1. th[t] \in GoodThreads /\ th[t].pc = "transmit" /\ Home(t) \in Sides
    BY <1>2, HomeFacts DEF Typed, ThOK, Transmit
  <2>2. th[t].out \in Seq(Messages) /\ th[t].out # <<>>
    BY <2>1 DEF GoodThreads, ThreadStates
  <2>3. m \in Messages /\ m = th[t].out[1] /\ 1 \in DOMAIN th[t].out
    BY <2>2, EmptySeq, LenProperties
  <2>4. m.type = k <=> Pending(t, k, 1)
    BY <2>3 DEF Pending
  <2>5. wire[d] \in Seq(Messages)
    BY DEF Typed, WireOK
  <2>6. IF up[Home(t)] THEN wire' = [wire EXCEPT ![Home(t)] = Append(wire[Home(t)], m)] ELSE wire' = wire
    BY <1>2 DEF Transmit
  <2> HIDE DEF m
  <2>7. CASE Home(t) = d /\ up[d]
    <3>1. wire'[d] = Append(wire[d], m)
      BY <2>1, <2>6, <2>7 DEF Typed, WireOK
    <3>2. (\E i \in DOMAIN Append(wire[d], m) : Append(wire[d], m)[i].type = k)
             <=> (m.type = k \/ \E i \in DOMAIN wire[d] : wire[d][i].type = k)
      <4> DEFINE q == wire[d]
      <4>1. q \in Seq(Messages) /\ m \in Messages
        BY <2>3, <2>5
      <4> HIDE DEF q
      <4>2. (\E i \in DOMAIN Append(q, m) : Append(q, m)[i].type = k)
               <=> (m.type = k \/ \E i \in DOMAIN q : q[i].type = k)
        BY <4>1, AppendKinds
      <4> QED
        BY <4>2 DEF q
    <3> QED
      BY <2>4, <2>7, <3>1, <3>2 DEF OnWire
  <2>8. CASE ~(Home(t) = d /\ up[d])
    <3>1. wire'[d] = wire[d]
      BY <2>1, <2>6, <2>8 DEF Typed, WireOK
    <3> QED
      BY <2>8, <3>1 DEF OnWire
  <2> QED
    BY <2>7, <2>8
<1> QED
  BY <1>1, <1>2

\* The reasons for which an end is closed stay known.
LEMMA EndsKnownStep ==
    ASSUME Typed, OneOfEach, AllEndsKnown, [Next]_vars
    PROVE  AllEndsKnown'
<1> SUFFICES ASSUME NEW e \in Sides PROVE EndsKnown(e)'
  BY DEF AllEndsKnown
<1>1. EndsKnown(e) /\ Peer(e) \in Sides /\ Peer(e) # e
  BY PeerFacts DEF AllEndsKnown
<1>2. CASE UNCHANGED vars
  BY <1>1, <1>2 DEF vars, EndsKnown, OnWire
<1>3. CASE Local
  BY <1>1, <1>3 DEF Local, StaysClosed, EndsKnown, OnWire
<1>4. ASSUME NEW t \in Threads, Transmit(t) PROVE EndsKnown(e)'
  <2>1. ch' = ch /\ up' = up
    BY <1>4 DEF Transmit
  <2>2. OnWire(e, "close")' => OnWire(e, "close") \/ (Home(t) = e /\ Pending(t, "close", 1))
    BY <1>4, WireKinds
  <2>3. Home(t) = e /\ Pending(t, "close", 1) => ch[e].closed
    <3>1. OnceOnly(e, "close")
      BY DEF OneOfEach, Kinds
    <3> QED
      BY <3>1 DEF OnceOnly, Decided
  <2> QED
    BY <1>1, <2>1, <2>2, <2>3 DEF EndsKnown
<1>5. ASSUME NEW d \in Sides, Receives(d) PROVE EndsKnown(e)'
  <2>1. OnWire(e, "close")' => OnWire(e, "close")
    BY <1>5, WireKinds DEF Receives
  <2>2. StaysClosed /\ up' = up
    BY <1>5 DEF Receives
  <2>3. ch'[e].linked = ch[e].linked \/ ch'[e].closed
    BY <1>5 DEF Receives
  <2>4. ch'[Peer(e)].linked = ch[Peer(e)].linked \/ (d = Peer(e) /\ Head(wire[Peer(d)]).type = "close")
    BY <1>1, <1>5 DEF Receives
  <2>5. d = Peer(e) /\ Head(wire[Peer(d)]).type = "close" => OnWire(e, "close")
    <3>1. Head(wire[Peer(d)]).type = "close" => OnWire(Peer(d), "close")
      BY <1>5, WireKinds DEF Receives
    <3> QED
      BY <3>1, PeerFacts
  <2> QED
    BY <1>1, <2>1, <2>2, <2>3, <2>4, <2>5 DEF EndsKnown, StaysClosed
<1>6. ASSUME NEW d \in Sides, Dies(d) PROVE EndsKnown(e)'
  <2>1. \A s \in Sides : up'[s] = (s # d /\ up[s])
    BY <1>6 DEF Dies, Typed, UpOK
  <2>2. OnWire(e, "close")' = OnWire(e, "close")
    BY <1>6 DEF Dies, OnWire
  <2>3. CASE d = e
    BY <1>1, <1>6, <2>1, <2>2, <2>3 DEF EndsKnown, Dies
  <2>4. CASE d = Peer(e)
    BY <1>1, <1>6, <2>1, <2>2, <2>4 DEF EndsKnown, Dies
  <2>5. d = e \/ d = Peer(e)
    BY DEF Sides, Peer
  <2> QED
    BY <2>3, <2>4, <2>5
<1> QED
  BY <1>2, <1>3, <1>4, <1>5, <1>6, MessageKinds

\* At the start both ends are open and linked, and the wires are empty.
LEMMA EndsKnownInit == Init => AllEndsKnown
<1> SUFFICES ASSUME Init, NEW e \in Sides PROVE EndsKnown(e)
  BY DEF AllEndsKnown
<1>1. Peer(e) \in Sides
  BY PeerFacts
<1>2. up[e] /\ ch[e].linked /\ ch[Peer(e)].linked /\ wire[e] = <<>>
  BY <1>1 DEF Init, NewChannel
<1>3. ~OnWire(e, "close")
  BY <1>2 DEF OnWire
<1> QED
  BY <1>2, <1>3 DEF EndsKnown

\* A message of kind k that side d has prepared and its peer has not read.
OnItsWay(d, k) == InOutbox(d, k) \/ OnWire(d, k)

\* An outbox holds a message of kind k: some thread has one pending.
LEMMA OutboxPending ==
    ASSUME NEW d \in Sides, NEW k
    PROVE  /\ InOutbox(d, k) <=> \E t \in Threads : Home(t) = d /\ \E i \in DOMAIN th[t].out : Pending(t, k, i)
           /\ InOutbox(d, k)' <=> \E t \in Threads : Home(t) = d /\ \E i \in DOMAIN th'[t].out : Pending(t, k, i)'
  BY DEF InOutbox, Pending

\* Steps that keep the outboxes keep what they hold.
LEMMA OutboxKept ==
    ASSUME Kept, NEW d \in Sides, NEW k, InOutbox(d, k)
    PROVE  InOutbox(d, k)'
<1>1. PICK t \in Threads : Home(t) = d /\ \E i \in DOMAIN th[t].out : th[t].out[i].type = k
  BY DEF InOutbox
<1>2. th[t].out # <<>>
  BY <1>1
<1>3. th'[t].out = th[t].out
  BY <1>2 DEF Kept
<1> QED
  BY <1>1, <1>3 DEF InOutbox

\* A message leaves its outbox for the wire, or is dropped on a dead transport.
LEMMA WayTransmit ==
    ASSUME Typed, NEW t \in Threads, Transmit(t), NEW d \in Sides, NEW k, OnItsWay(d, k)
    PROVE  OnItsWay(d, k)' \/ ~up[d]
<1>1. CASE OnWire(d, k)
  BY <1>1, WireKinds DEF OnItsWay
<1>2. CASE InOutbox(d, k)
  <2>1. PICK s \in Threads : Home(s) = d /\ \E i \in DOMAIN th[s].out : th[s].out[i].type = k
    BY <1>2 DEF InOutbox
  <2>2. /\ th[t] \in GoodThreads /\ th[t].pc = "transmit"
        /\ th' = [th EXCEPT ![t].out = Tail(th[t].out),
                            ![t].pc = IF Tail(th[t].out) = <<>> THEN th[t].after ELSE "transmit"]
    BY DEF Typed, ThOK, Transmit
  <2>3. CASE s # t
    <3>1. th'[s] = th[s]
      BY <2>2, <2>3 DEF Typed, ThOK
    <3> QED
      BY <2>1, <3>1 DEF OnItsWay, InOutbox
  <2>4. CASE s = t
    <3> DEFINE q == th[t].out
    <3>1. q \in Seq(Messages) /\ q # <<>>
      BY <2>2 DEF GoodThreads, ThreadStates
    <3>2. th'[t].out = Tail(q)
      BY <2>2 DEF Typed, ThOK, GoodThreads, ThreadStates
    <3>3. \E i \in DOMAIN q : q[i].type = k
      BY <2>1, <2>4
    <3> HIDE DEF q
    <3>4. Head(q).type = k \/ \E i \in DOMAIN Tail(q) : Tail(q)[i].type = k
      BY <3>1, <3>3, TailKinds
    <3>5. CASE Head(q).type = k
      <4>1. Head(q) = q[1] /\ 1 \in DOMAIN q
        BY <3>1, EmptySeq, LenProperties
      <4>2. Pending(t, k, 1)
        BY <3>5, <4>1 DEF Pending, q
      <4> QED
        BY <2>1, <2>4, <4>2, WireKinds DEF OnItsWay
    <3>6. CASE \E i \in DOMAIN Tail(q) : Tail(q)[i].type = k
      BY <2>1, <2>4, <3>2, <3>6 DEF OnItsWay, InOutbox
    <3> QED
      BY <3>4, <3>5, <3>6
  <2> QED
    BY <2>3, <2>4
<1> QED
  BY <1>1, <1>2 DEF OnItsWay

\* Only the peer's transport thread takes a message off its way, by reading it.
LEMMA WayReceives ==
    ASSUME Typed, NEW e \in Sides, Receives(e), NEW d \in Sides, NEW k, OnItsWay(d, k)
    PROVE  OnItsWay(d, k)' \/ (d = Peer(e) /\ Head(wire[Peer(e)]).type = k)
<1>1. Kept /\ NextMessage(e)
  BY DEF Receives
<1>2. CASE OnWire(d, k)
  BY <1>1, <1>2, WireKinds DEF OnItsWay
<1>3. CASE InOutbox(d, k)
  BY <1>1, <1>3, OutboxKept DEF OnItsWay
<1> QED
  BY <1>2, <1>3 DEF OnItsWay

\* The end of a transport loses only its own messages.
LEMMA WayDies ==
    ASSUME Typed, NEW e \in Sides, Dies(e), NEW d \in Sides, d # e, NEW k, OnItsWay(d, k)
    PROVE  OnItsWay(d, k)'
<1>1. CASE OnWire(d, k)
  BY <1>1 DEF Dies, OnWire, OnItsWay
<1>2. CASE InOutbox(d, k)
  <2>1. PICK s \in Threads : Home(s) = d /\ \E i \in DOMAIN th[s].out : th[s].out[i].type = k
    BY <1>2 DEF InOutbox
  <2>2. s # e
    BY <2>1, HomeFacts
  <2>3. th'[s].out = th[s].out
    BY <2>2 DEF Dies, Notified
  <2> QED
    BY <2>1, <2>3 DEF InOutbox, OnItsWay
<1> QED
  BY <1>1, <1>2 DEF OnItsWay

\* What somebody who waits on side e for the answer to a request can count on.
Outstanding(e) ==
    \/ ch[e].closed \/ ~up[Peer(e)]
    \/ OnItsWay(e, "request")
    \/ \E a \in {"success", "failure"} : OnItsWay(Peer(e), a)

\* It stays so until the answer is there.
LEMMA OutstandingStep ==
    ASSUME Typed, AllEndsKnown, Next, NEW e \in Sides, Outstanding(e)
    PROVE  Outstanding(e)' \/ ch'[e].event
<1> DEFINE p == Peer(e)
<1>1. p \in Sides /\ p # e /\ Peer(p) = e /\ EndsKnown(e)
  BY PeerFacts DEF AllEndsKnown
<1>2. CASE Local
  <2>1. \A d \in Sides, k \in MsgTypes : OnItsWay(d, k) => OnItsWay(d, k)'
    BY <1>2, OutboxKept DEF Local, OnItsWay, OnWire
  <2> QED
    BY <1>1, <1>2, <2>1 DEF Local, StaysClosed, Outstanding, MsgTypes
<1>3. ASSUME NEW t \in Threads, Transmit(t) PROVE Outstanding(e)'
  <2>1. ch' = ch /\ up' = up
    BY <1>3 DEF Transmit
  <2>2. \A d \in Sides, k \in MsgTypes : OnItsWay(d, k) => OnItsWay(d, k)' \/ ~up[d]
    BY <1>3, WayTransmit
  <2> QED
    BY <1>1, <2>1, <2>2 DEF Outstanding, EndsKnown, MsgTypes
<1>4. ASSUME NEW d \in Sides, Receives(d) PROVE Outstanding(e)' \/ ch'[e].event
  <2>1. StaysClosed /\ up' = up
    BY <1>4 DEF Receives
  <2>2. CASE ch[e].closed \/ ~up[p]
    BY <2>1, <2>2 DEF StaysClosed, Outstanding
  <2>3. CASE OnItsWay(e, "request") /\ ~ch[e].closed /\ up[p]
    <3>1. CASE OnItsWay(e, "request")'
      BY <3>1 DEF Outstanding
    <3>2. CASE ~OnItsWay(e, "request")'
      <4>1. e = Peer(d) /\ Head(wire[Peer(d)]).type = "request"
        BY <1>4, <2>3, <3>2, WayReceives
      <4>2. d = p
        BY <4>1, PeerFacts
      <4>3. ch[d].linked
        BY <1>1, <2>3, <4>2 DEF EndsKnown
      <4>4. PICK a \in {"success", "failure"} : Pending(d, a, 1)'
        BY <1>4, <4>1, <4>3 DEF Receives
      <4>5. d \in Threads /\ Home(d) = p
        BY <4>2, HomeFacts
      <4>6. InOutbox(p, a)'
        BY <4>4, <4>5 DEF InOutbox, Pending
      <4> QED
        BY <4>6 DEF Outstanding, OnItsWay
    <3> QED
      BY <3>1, <3>2
  <2>4. ASSUME NEW a \in {"success", "failure"}, OnItsWay(p, a), ~ch[e].closed
        PROVE  Outstanding(e)' \/ ch'[e].event
    <3>1. CASE OnItsWay(p, a)'
      BY <3>1 DEF Outstanding
    <3>2. CASE ~OnItsWay(p, a)'
      <4>1. p = Peer(d) /\ Head(wire[Peer(d)]).type = a
        BY <1>1, <1>4, <2>4, <3>2, WayReceives
      <4>2. d = e
        BY <1>1, <4>1, PeerFacts
      <4>3. ch[d].linked
        BY <1>1, <2>4, <4>2 DEF EndsKnown
      <4>4. ch'[d].event \/ ch'[d].closed
        BY <1>4, <4>1, <4>3 DEF Receives
      <4> QED
        BY <4>2, <4>4 DEF Outstanding
    <3> QED
      BY <3>1, <3>2
  <2> QED
    BY <2>2, <2>3, <2>4 DEF Outstanding
<1>5. ASSUME NEW d \in Sides, Dies(d) PROVE Outstanding(e)'
  <2>1. d = e \/ d = p
    BY DEF Sides, Peer
  <2>2. CASE d = e
    BY <1>5, <2>2 DEF Dies, Outstanding
  <2>3. CASE d = p
    BY <1>5, <2>3 DEF Dies, Outstanding, Typed, UpOK
  <2> QED
    BY <2>1, <2>2, <2>3
<1> QED
  BY <1>2, <1>3, <1>4, <1>5, MessageKinds

\* Who waits for an answer after a step, and the answer is not there: either he
\* waited before, or he has just sent his request, or somebody on his side has
\* just prepared one, or the channel is closed.
LEMMA WaitersKnown ==
    ASSUME Typed, Next, NEW u \in Users, th'[u].pc = "reqwait", ~ch'[SideOf[u]].event
    PROVE  \/ th[u].pc = "reqwait" /\ ~ch[SideOf[u]].event
           \/ Transmit(u) /\ th[u].out # <<>> /\ th[u].after = "reqwait"
           \/ OnItsWay(SideOf[u], "request")'
           \/ ch'[SideOf[u]].closed
<1> DEFINE e == SideOf[u]
<1>1. e \in Sides /\ u \in Threads /\ Home(u) = e
  BY HomeFacts
<1>2. ASSUME NEW t \in Threads, Calm(t) PROVE th[u].pc = "reqwait" /\ ~ch[e].event
  BY <1>1, <1>2 DEF Calm, Steady
<1>3. ASSUME NEW t \in Threads, Closes(t) PROVE th[u].pc = "reqwait" /\ ~ch[e].event
  <2>1. u # t
    BY <1>3 DEF Closes
  <2>2. th[u].pc = "reqwait"
    BY <1>1, <1>3, <2>1 DEF Closes, Notified
  <2> QED
    BY <1>1, <1>3, <2>2 DEF Closes
<1>4. ASSUME NEW v \in Users, EndsStream(v) PROVE th[u].pc = "reqwait" /\ ~ch[e].event
  BY <1>1, <1>4 DEF EndsStream
<1>5. ASSUME NEW d \in Sides, Opens(d) PROVE th[u].pc = "reqwait" /\ ~ch[e].event
  BY <1>1, <1>5 DEF Opens, Notified
<1>6. ASSUME NEW d \in Sides, Dies(d) PROVE th[u].pc = "reqwait" /\ (~ch[e].event \/ ch'[e].closed)
  BY <1>1, <1>6 DEF Dies, Notified
<1>7. ASSUME NEW v \in Users, th' = [th EXCEPT ![v].pc = "sendwait"], ch' = ch
      PROVE  th[u].pc = "reqwait" /\ ~ch[e].event
  BY <1>1, <1>7, HomeFacts DEF Typed, ThOK, GoodThreads, ThreadStates
<1>8. ASSUME NEW t \in Threads, Transmit(t)
      PROVE  \/ th[u].pc = "reqwait" /\ ~ch[e].event
             \/ Transmit(u) /\ th[u].out # <<>> /\ th[u].after = "reqwait"
  <2>1. /\ ch' = ch /\ th[t] \in GoodThreads /\ th[t].pc = "transmit"
        /\ th' = [th EXCEPT ![t].out = Tail(th[t].out),
                            ![t].pc = IF Tail(th[t].out) = <<>> THEN th[t].after ELSE "transmit"]
    BY <1>8 DEF Transmit, Typed, ThOK
  <2>2. CASE t # u
    BY <1>1, <2>1, <2>2 DEF Typed, ThOK
  <2>3. CASE t = u
    <3>1. th'[u].pc = IF Tail(th[t].out) = <<>> THEN th[u].after ELSE "transmit"
      BY <1>1, <2>1, <2>3 DEF Typed, ThOK, GoodThreads, ThreadStates
    <3>2. th[u].out # <<>>
      BY <2>1, <2>3 DEF GoodThreads
    <3> QED
      BY <1>8, <2>3, <3>1, <3>2
  <2> QED
    BY <2>2, <2>3
<1>9. ASSUME NEW v \in Users, EventPending(v)
      PROVE  (th[u].pc = "reqwait" /\ ~ch[e].event) \/ OnItsWay(e, "request")'
  <2>1. v \in Threads /\ SideOf[v] \in Sides /\ Home(v) = SideOf[v] /\ th[v] \in GoodThreads
    BY HomeFacts DEF Typed, ThOK
  <2>2. th' = [th EXCEPT ![v] = Dispatch(th[v], <<Msg("request", 0)>>, "reqwait")]
    BY <1>9 DEF EventPending
  <2>3. /\ Dispatch(th[v], <<Msg("request", 0)>>, "reqwait").out = <<Msg("request", 0)>>
        /\ Dispatch(th[v], <<Msg("request", 0)>>, "reqwait").pc = "transmit"
    BY <2>1 DEF Dispatch, GoodThreads, ThreadStates
  <2>4. /\ th'[v].out = <<Msg("request", 0)>> /\ th'[v].pc = "transmit"
        /\ \A s \in Threads : s # v => th'[s] = th[s]
    BY <2>1, <2>2, <2>3 DEF Typed, ThOK
  <2>5. u # v /\ th[u].pc = "reqwait"
    BY <1>1, <2>4
  <2>6. CASE SideOf[v] = e
    <3>1. Msg("request", 0).type = "request"
      BY MsgFacts DEF MsgTypes
    <3>2. Pending(v, "request", 1)'
      BY <2>4, <3>1 DEF Pending
    <3>3. InOutbox(e, "request")'
      BY <2>1, <2>6, <3>2 DEF InOutbox, Pending
    <3> QED
      BY <3>3 DEF OnItsWay
  <2>7. CASE SideOf[v] # e
    <3>1. ch'[e] = ch[e]
      BY <1>1, <1>9, <2>7 DEF EventPending, Typed, ChOK
    <3> QED
      BY <2>5, <3>1
  <2> QED
    BY <2>6, <2>7
<1> QED
  BY <1>2, <1>3, <1>4, <1>5, <1>6, <1>7, <1>8, <1>9, StepKinds

\* Every wait for an answer stays justified.
AllOutstanding ==
    \A u \in Users : th[u].pc = "reqwait" /\ ~ch[SideOf[u]].event => Outstanding(SideOf[u])

\* One step keeps it so.
LEMMA AllOutstandingStep ==
    ASSUME Typed, AllEndsKnown, AllOutstanding, [Next]_vars
    PROVE  AllOutstanding'
<1>1. CASE UNCHANGED vars
  BY <1>1 DEF vars, AllOutstanding, Outstanding, OnItsWay, InOutbox, OnWire
<1>2. CASE Next
  <2> SUFFICES ASSUME NEW u \in Users, th'[u].pc = "reqwait", ~ch'[SideOf[u]].event
               PROVE  Outstanding(SideOf[u])'
    BY DEF AllOutstanding
  <2> DEFINE e == SideOf[u]
  <2>1. e \in Sides /\ u \in Threads /\ Home(u) = e
    BY HomeFacts
  <2>2. CASE th[u].pc = "reqwait" /\ ~ch[e].event
    <3>1. Outstanding(e)
      BY <2>2 DEF AllOutstanding
    <3> HIDE DEF e
    <3>2. Outstanding(e)' \/ ch'[e].event
      BY <1>2, <2>1, <3>1, OutstandingStep
    <3> QED
      BY <3>2 DEF e
  <2>3. CASE Transmit(u) /\ th[u].out # <<>> /\ th[u].after = "reqwait"
    <3>1. th[u] \in GoodThreads /\ th[u].pc = "transmit"
      BY <2>1, <2>3 DEF Typed, ThOK, Transmit
    <3>2. Len(th[u].out) = 1 /\ th[u].out[1].type = "request" /\ th[u].out \in Seq(Messages)
      BY <2>3, <3>1 DEF GoodThreads, ThreadStates
    <3>3. Pending(u, "request", 1)
      BY <3>2 DEF Pending
    <3>4. OnWire(e, "request")' \/ ~up[e]
      BY <2>1, <2>3, <3>3, WireKinds
    <3>5. ~up[e] => ch'[e].closed
      BY <2>1, <2>3 DEF AllEndsKnown, EndsKnown, Transmit
    <3> QED
      BY <3>4, <3>5 DEF Outstanding, OnItsWay
  <2>4. CASE OnItsWay(e, "request")' \/ ch'[e].closed
    BY <2>4 DEF Outstanding
  <2> QED
    BY <1>2, <2>2, <2>3, <2>4, WaitersKnown
<1> QED
  BY <1>1, <1>2

\* A caller of exec_command and its like who waits for an answer waits for
\* something: the channel is closed, the peer is gone, or his request or its
\* answer is still in an outbox or on the wire, however the threads of both ends
\* interleave with requests, closes and the loss of a connection.
THEOREM ChannelRequestOutstanding == Spec => []RequestOutstanding
<1>1. Spec => []Typed
  BY InitTyped, NextTyped, PTL DEF Spec
<1>2. Typed /\ OneOfEach /\ [Next]_vars => OneOfEach'
  BY OnceStep
<1>3. Typed /\ OneOfEach /\ AllEndsKnown /\ [Next]_vars => AllEndsKnown'
  BY EndsKnownStep
<1>4. Typed /\ AllEndsKnown /\ AllOutstanding /\ [Next]_vars => AllOutstanding'
  BY AllOutstandingStep
<1>5. Init => AllOutstanding
  <2> SUFFICES ASSUME Init, NEW u \in Users PROVE th[u].pc # "reqwait"
    BY DEF AllOutstanding
  <2> QED
    BY HomeFacts DEF Init
<1>6. AllOutstanding => RequestOutstanding
  BY DEF AllOutstanding, Outstanding, OnItsWay, RequestOutstanding
<1> QED
  BY OnceInit, EndsKnownInit, <1>1, <1>2, <1>3, <1>4, <1>5, <1>6, PTL DEF Spec
===========================================================================
