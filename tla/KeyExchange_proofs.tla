------------------------ MODULE KeyExchange_proofs ------------------------
(***************************************************************************)
(* Proofs about KeyExchange, for any users, limits and set-ups, the        *)
(* disturbed ones included: its types, that both sides have the same       *)
(* session_id, and that no side switches to a key its peer has not got.    *)
(* For the undisturbed ones: that no sequence number is used twice under a *)
(* key, and that renegotiate_keys returns with the keys it asked for.      *)
(***************************************************************************)
EXTENDS KeyExchange, SequenceTheorems, FiniteSetTheorems, TLAPS

TrOK == tr \in [Sides -> TransportStates]
PkOK == pk \in [Sides -> PacketizerStates]
ThOK == th \in [Threads -> ThreadStates]
WireOK == wire \in [Sides -> Seq(Packets)]
SendsOK == sends \in [Sides -> 0..MaxMessages]
Typed == setup \in Setups /\ TrOK /\ PkOK /\ ThOK /\ WireOK /\ SendsOK

-----------------------------------------------------------------------------
(* The helpers of the actions                                               *)

\* The two ends are each other's peers.
LEMMA PeerFacts == \A s \in Sides : Peer(s) \in Sides /\ Peer(s) # s /\ Peer(Peer(s)) = s
  BY DEF Sides, Peer

\* Every thread belongs to a side.
LEMMA HomeFacts ==
    /\ \A s \in Sides : s \in Threads /\ Home(s) = s /\ s \notin Users
    /\ \A u \in Users : u \in Threads /\ Home(u) = SideOf[u] /\ SideOf[u] \in Sides /\ u \notin Sides
    /\ \A t \in Threads : Home(t) \in Sides
  BY KexAssumption DEF Threads, Home

\* The limit of a side is a number.
LEMMA LimitFacts == ASSUME Typed, NEW s \in Sides PROVE setup.limit[s] \in Nat
<1>1. setup \in SetupRecords
  BY KexAssumption DEF Typed
<1> QED
  BY <1>1 DEF SetupRecords

\* send_message counts, and asks for new keys at the limit.
LEMMA SentFacts ==
    ASSUME NEW p \in PacketizerStates, NEW limit \in Nat
    PROVE  /\ Sent(p, limit) \in PacketizerStates
           /\ Sent(p, limit).initCount = p.initCount
           /\ Sent(p, limit).needRekey = (p.needRekey \/ Reached(p.sent + 1, limit))
           /\ Sent(p, limit).sent = p.sent + 1
           /\ Sent(p, limit).keyOut = p.keyOut /\ Sent(p, limit).keyIn = p.keyIn
           /\ Sent(p, limit).seqOut = p.seqOut + 1
           /\ p.spent <= p.seqOut => Sent(p, limit).spent = p.seqOut + 1
<1> DEFINE b == p.needRekey \/ (Reached(p.sent + 1, limit) /\ ~p.needRekey)
<1> DEFINE o == IF Reached(p.sent + 1, limit) /\ ~p.needRekey THEN 0 ELSE p.overflow
<1> DEFINE n == IF p.seqOut >= p.spent THEN p.seqOut + 1 ELSE p.spent
<1>1. /\ p.seqOut \in Nat /\ p.sent \in Nat /\ p.overflow \in Nat /\ p.spent \in Nat
      /\ p.needRekey \in BOOLEAN
  BY DEF PacketizerStates
<1> DEFINE i == p.seqOut + 1
<1> DEFINE j == p.sent + 1
<1> DEFINE q == [p EXCEPT !.seqOut = i, !.sent = j, !.needRekey = b, !.overflow = o, !.spent = n]
<1>2. b \in BOOLEAN /\ o \in Nat /\ n \in Nat /\ i \in Nat /\ j \in Nat
  BY <1>1 DEF Reached
<1>3. Sent(p, limit) = q
  BY DEF Sent
<1>4. b = (p.needRekey \/ Reached(p.sent + 1, limit))
  BY <1>1 DEF Reached
<1>5. j = p.sent + 1 /\ i = p.seqOut + 1 /\ (p.spent <= p.seqOut => n = p.seqOut + 1)
  BY <1>1
<1> HIDE DEF b, o, n, i, j
<1>6. /\ q \in PacketizerStates /\ q.initCount = p.initCount /\ q.needRekey = b
      /\ q.sent = j /\ q.keyOut = p.keyOut /\ q.keyIn = p.keyIn
      /\ q.seqOut = i /\ q.spent = n
  BY <1>2 DEF PacketizerStates
<1> HIDE DEF q
<1> QED
  BY <1>3, <1>4, <1>5, <1>6

\* What a step may leave of a packetizer: its outbound key and numbers.
SameOut(p, q) == q.keyOut = p.keyOut /\ q.seqOut = p.seqOut /\ q.spent = p.spent

\* read_message counts too.
LEMMA ReceivedFacts ==
    ASSUME NEW p \in PacketizerStates, NEW limit \in Nat
    PROVE  /\ Received(p, limit) \in PacketizerStates
           /\ Received(p, limit).initCount = p.initCount
           /\ p.needRekey => Received(p, limit).needRekey
           /\ Received(p, limit).needRekey => p.needRekey \/ limit # Never
           /\ Received(p, limit).sent = p.sent
           /\ SameOut(p, Received(p, limit)) /\ Received(p, limit).keyIn = p.keyIn
<1> DEFINE b == p.needRekey \/ Reached(p.received + 1, limit)
<1> DEFINE o == IF p.needRekey THEN p.overflow + 1
                ELSE IF Reached(p.received + 1, limit) THEN 0 ELSE p.overflow
<1>1. p.seqIn \in Nat /\ p.received \in Nat /\ p.overflow \in Nat /\ p.needRekey \in BOOLEAN
  BY DEF PacketizerStates
<1> DEFINE i == p.seqIn + 1
<1> DEFINE j == p.received + 1
<1> DEFINE q == [p EXCEPT !.seqIn = i, !.received = j, !.needRekey = b, !.overflow = o]
<1>2. b \in BOOLEAN /\ o \in Nat /\ i \in Nat /\ j \in Nat
  BY <1>1 DEF Reached
<1>3. Received(p, limit) = q
  BY DEF Received
<1>4. (p.needRekey => b) /\ (b => p.needRekey \/ limit # Never)
  BY DEF Reached
<1> HIDE DEF b, o, i, j
<1>5. /\ q \in PacketizerStates /\ q.initCount = p.initCount /\ q.needRekey = b /\ q.sent = p.sent
      /\ SameOut(p, q) /\ q.keyIn = p.keyIn
  BY <1>2 DEF PacketizerStates, SameOut
<1> HIDE DEF q
<1> QED
  BY <1>3, <1>4, <1>5

\* need_rekey is cleared by the second switch.
LEMMA SwitchFacts ==
    ASSUME NEW q \in PacketizerStates, NEW n \in {1, 2, 3}
    PROVE  /\ BothSwitched(q, n) \in PacketizerStates /\ BothSwitched(q, n).sent = q.sent
           /\ SameOut(q, BothSwitched(q, n)) /\ BothSwitched(q, n).keyIn = q.keyIn
           /\ BothSwitched(q, n).needRekey => q.needRekey
           /\ n # 3 => BothSwitched(q, n).initCount = n /\ BothSwitched(q, n).needRekey = q.needRekey
<1>1. CASE n = 3
  <2>1. BothSwitched(q, n) = [q EXCEPT !.initCount = 0, !.needRekey = FALSE]
    BY <1>1 DEF BothSwitched
  <2>2. 0 \in 0..2 /\ FALSE \in BOOLEAN
    OBVIOUS
  <2>3. ASSUME NEW i \in 0..2, NEW b \in BOOLEAN
        PROVE  LET x == [q EXCEPT !.initCount = i, !.needRekey = b]
               IN /\ x \in PacketizerStates /\ x.sent = q.sent /\ x.needRekey = b
                  /\ SameOut(q, x) /\ x.keyIn = q.keyIn
    BY DEF PacketizerStates, SameOut
  <2> QED
    BY <1>1, <2>1, <2>2, <2>3
<1>2. CASE n # 3
  <2>1. BothSwitched(q, n) = [q EXCEPT !.initCount = n]
    BY <1>2 DEF BothSwitched
  <2>2. n \in 0..2
    BY <1>2
  <2> QED
    BY <1>2, <2>1, <2>2 DEF PacketizerStates, SameOut
<1> QED
  BY <1>1, <1>2

\* Switching the outbound key.
LEMMA OutboundFacts ==
    ASSUME NEW p \in PacketizerStates, NEW key \in Keys
    PROVE  /\ SetOutbound(p, key) \in PacketizerStates
           /\ SetOutbound(p, key).sent = 0
           /\ SetOutbound(p, key).keyOut = key /\ SetOutbound(p, key).keyIn = p.keyIn
           /\ SetOutbound(p, key).spent = 0 /\ SetOutbound(p, key).seqOut = p.seqOut
           /\ SetOutbound(p, key).needRekey => p.needRekey
           /\ p.initCount \in {0, 1} => /\ SetOutbound(p, key).initCount = 1
                                        /\ SetOutbound(p, key).needRekey = p.needRekey
<1> DEFINE q == [p EXCEPT !.keyOut = key, !.sent = 0, !.spent = 0]
<1>1. /\ q \in PacketizerStates /\ q.sent = 0 /\ q.needRekey = p.needRekey
      /\ q.keyOut = key /\ q.keyIn = p.keyIn /\ q.spent = 0 /\ q.seqOut = p.seqOut
  BY DEF PacketizerStates
<1>2. SetOutbound(p, key) = BothSwitched(q, IF p.initCount \in {0, 1} THEN 1 ELSE 3)
  BY DEF SetOutbound
<1> HIDE DEF q
<1> QED
  BY <1>1, <1>2, SwitchFacts DEF SameOut

\* Switching the inbound key.
LEMMA InboundFacts ==
    ASSUME NEW p \in PacketizerStates, NEW key \in Keys
    PROVE  /\ SetInbound(p, key) \in PacketizerStates
           /\ SameOut(p, SetInbound(p, key)) /\ SetInbound(p, key).keyIn = key
           /\ SetInbound(p, key).needRekey => p.needRekey
<1> DEFINE q == [p EXCEPT !.keyIn = key, !.received = 0, !.overflow = 0]
<1>1. q \in PacketizerStates /\ SameOut(p, q) /\ q.keyIn = key /\ q.needRekey = p.needRekey
  BY DEF PacketizerStates, SameOut
<1>2. SetInbound(p, key) = BothSwitched(q, IF p.initCount \in {0, 2} THEN 2 ELSE 3)
  BY DEF SetInbound
<1> HIDE DEF q
<1> QED
  BY <1>1, <1>2, SwitchFacts DEF SameOut

\* A packet of kind k is the i-th on the wire of s.
On(s, k, i) == i \in DOMAIN wire[s] /\ wire[s][i].kind = k

\* What sending a packet does: it is the last of its wire, and is counted.
Emitted(s, kind, val) ==
    /\ \A k \in Kinds, i \in Nat : On(s, k, i)' <=> On(s, k, i) \/ (k = kind /\ i = Len(wire[s]) + 1)
    /\ \A i \in DOMAIN wire[s] : wire'[s][i] = wire[s][i] /\ i <= Len(wire[s])
    /\ wire'[s][Len(wire[s]) + 1].val = val /\ wire'[s][Len(wire[s]) + 1].seq = pk[s].seqOut
    /\ Len(wire[s]) + 1 \in Nat /\ Len(wire'[s]) = Len(wire[s]) + 1
    /\ \A d \in Sides : d # s => wire'[d] = wire[d] /\ pk'[d] = pk[d]
    /\ pk'[s] = Sent(pk[s], setup.limit[s])

\* _send_message sends one packet.
LEMMA EmitFacts ==
    ASSUME Typed, NEW s \in Sides, NEW kind \in Kinds, NEW val \in Keys, Emit(s, kind, val)
    PROVE  WireOK' /\ PkOK' /\ Emitted(s, kind, val)
<1> DEFINE p == [kind |-> kind, val |-> val, key |-> pk[s].keyOut, seq |-> pk[s].seqOut]
<1> DEFINE q == wire[s]
<1>1. pk[s] \in PacketizerStates /\ q \in Seq(Packets) /\ setup.limit[s] \in Nat
  BY LimitFacts DEF Typed, PkOK, WireOK
<1>2. p \in Packets /\ p.kind = kind /\ p.val = val /\ p.seq = pk[s].seqOut
  BY <1>1 DEF Packets, PacketizerStates
<1>3. wire' = [wire EXCEPT ![s] = Append(q, p)] /\ pk' = [pk EXCEPT ![s] = Sent(pk[s], setup.limit[s])]
  BY DEF Emit
<1> HIDE DEF p, q
<1>4. /\ Append(q, p) \in Seq(Packets) /\ Len(q) \in Nat /\ DOMAIN q = 1..Len(q)
      /\ DOMAIN Append(q, p) = 1..(Len(q) + 1) /\ Len(Append(q, p)) = Len(q) + 1
      /\ \A i \in 1..Len(q) : Append(q, p)[i] = q[i]
      /\ Append(q, p)[Len(q) + 1] = p
  BY <1>1, <1>2, LenProperties
<1>5. wire'[s] = Append(q, p) /\ \A d \in Sides : d # s => wire'[d] = wire[d]
  BY <1>3 DEF Typed, WireOK
<1>6. pk'[s] = Sent(pk[s], setup.limit[s]) /\ \A d \in Sides : d # s => pk'[d] = pk[d]
  BY <1>3 DEF Typed, PkOK
<1>7. Sent(pk[s], setup.limit[s]) \in PacketizerStates
  BY <1>1, SentFacts
<1>8. WireOK' /\ PkOK'
  BY <1>3, <1>4, <1>7 DEF Typed, WireOK, PkOK
<1>9. \A k \in Kinds, i \in Nat : On(s, k, i)' <=> On(s, k, i) \/ (k = kind /\ i = Len(wire[s]) + 1)
  <2> SUFFICES ASSUME NEW k \in Kinds, NEW i \in Nat
               PROVE  On(s, k, i)' <=> On(s, k, i) \/ (k = kind /\ i = Len(wire[s]) + 1)
    OBVIOUS
  <2>1. q = wire[s]
    BY DEF q
  <2>2. On(s, k, i)' <=> i \in 1..(Len(q) + 1) /\ Append(q, p)[i].kind = k
    BY <1>4, <1>5 DEF On
  <2>3. On(s, k, i) <=> i \in 1..Len(q) /\ q[i].kind = k
    BY <1>4, <2>1 DEF On
  <2> QED
    BY <1>2, <1>4, <2>1, <2>2, <2>3
<1>10. q = wire[s]
  BY DEF q
<1> QED
  BY <1>2, <1>4, <1>5, <1>6, <1>8, <1>9, <1>10 DEF Emitted

\* What reading a packet does: all that follow it move up.
Taken(s) ==
    LET P == Peer(s)
    IN /\ \A k \in Kinds, i \in Nat : On(P, k, i)' <=> i # 0 /\ On(P, k, i + 1)
       /\ \A k \in Kinds : On(P, k, 1) <=> Head(wire[P]).kind = k
       /\ \A i \in Nat : i \in DOMAIN wire'[P] => wire'[P][i] = wire[P][i + 1] /\ i + 1 \in DOMAIN wire[P]
       /\ Head(wire[P]) = wire[P][1] /\ 1 \in DOMAIN wire[P] /\ Head(wire[P]) \in Packets
       /\ \A d \in Sides : d # P => wire'[d] = wire[d]
       /\ Len(wire[P]) \in Nat /\ Len(wire'[P]) = Len(wire[P]) - 1

\* read_message takes the first packet of the peer's wire.
LEMMA TakeFacts ==
    ASSUME Typed, NEW s \in Sides, Take(s)
    PROVE  WireOK' /\ Taken(s)
<1> DEFINE P == Peer(s)
<1> DEFINE q == wire[P]
<1>1. P \in Sides /\ q \in Seq(Packets) /\ q # <<>> /\ wire' = [wire EXCEPT ![P] = Tail(q)]
  BY PeerFacts DEF Typed, WireOK, Take
<1> HIDE DEF q
<1>2. wire'[P] = Tail(q) /\ \A d \in Sides : d # P => wire'[d] = wire[d]
  BY <1>1 DEF Typed, WireOK
<1>3. /\ Tail(q) \in Seq(Packets) /\ Len(q) \in Nat \ {0} /\ Head(q) = q[1] /\ Head(q) \in Packets
      /\ DOMAIN q = 1..Len(q) /\ DOMAIN Tail(q) = 1..(Len(q) - 1) /\ Len(Tail(q)) = Len(q) - 1
      /\ \A i \in 1..(Len(q) - 1) : Tail(q)[i] = q[i + 1]
  BY <1>1, HeadTailProperties, EmptySeq, LenProperties
<1>4. WireOK'
  BY <1>1, <1>3 DEF Typed, WireOK
<1>5. q = wire[P]
  BY DEF q
<1>6. \A k \in Kinds, i \in Nat : On(P, k, i)' <=> i # 0 /\ On(P, k, i + 1)
  <2> SUFFICES ASSUME NEW k \in Kinds, NEW i \in Nat PROVE On(P, k, i)' <=> i # 0 /\ On(P, k, i + 1)
    OBVIOUS
  <2>1. On(P, k, i)' <=> i \in 1..(Len(q) - 1) /\ Tail(q)[i].kind = k
    BY <1>2, <1>3 DEF On
  <2>2. On(P, k, i + 1) <=> i + 1 \in 1..Len(q) /\ q[i + 1].kind = k
    BY <1>3, <1>5 DEF On
  <2> QED
    BY <1>3, <2>1, <2>2
<1>7. \A k \in Kinds : On(P, k, 1) <=> Head(wire[P]).kind = k
  BY <1>3, <1>5 DEF On
<1>8. \A i \in Nat : i \in DOMAIN wire'[P] => wire'[P][i] = wire[P][i + 1] /\ i + 1 \in DOMAIN wire[P]
  BY <1>2, <1>3, <1>5
<1>9. /\ Head(wire[P]) = wire[P][1] /\ 1 \in DOMAIN wire[P] /\ Head(wire[P]) \in Packets
      /\ Len(wire[P]) \in Nat /\ Len(wire'[P]) = Len(wire[P]) - 1
  BY <1>2, <1>3, <1>5
<1> QED
  BY <1>2, <1>4, <1>6, <1>7, <1>8, <1>9 DEF Taken

-----------------------------------------------------------------------------
(* What each action does, and that it keeps the types                       *)

Others(t) == \A r \in Threads : r # t => th'[r] = th[r]

\* Thread t only moves.
Moved(t, place) ==
    /\ Others(t)
    /\ th'[t].pc = place /\ th'[t].init = th[t].init /\ th'[t].before = th[t].before
    /\ th'[t].msg = th[t].msg /\ th'[t].handling = th[t].handling

\* The handler of a transport thread returns.
Finished(s) ==
    /\ Others(s)
    /\ th'[s].pc = "top" /\ ~th'[s].handling /\ th'[s].msg = NoPacket

\* The Transport of s becomes x.
Becomes(s, x) == tr'[s] = x /\ \A d \in Sides : d # s => tr'[d] = tr[d]

\* Moving a thread.
LEMMA GotoFacts ==
    ASSUME Typed, NEW t \in Threads, NEW place \in Places, Goto(t, place)
    PROVE  ThOK' /\ Moved(t, place)
<1> DEFINE x == [th[t] EXCEPT !.pc = place]
<1>1. th[t] \in ThreadStates
  BY DEF Typed, ThOK
<1>2. /\ x \in ThreadStates /\ x.pc = place /\ x.init = th[t].init /\ x.before = th[t].before
      /\ x.msg = th[t].msg /\ x.handling = th[t].handling
  BY <1>1 DEF ThreadStates
<1>3. th' = [th EXCEPT ![t] = x]
  BY DEF Goto
<1> HIDE DEF x
<1> QED
  BY <1>2, <1>3 DEF Typed, ThOK, Moved, Others

\* No packet is a packet.
LEMMA NoPacketFacts == NoPacket \in Packets /\ NoPacket.kind = "data" /\ NoKey \in Keys
  BY DEF NoPacket, Packets, NoKey, Keys, Kinds, Traffic

\* The end of a handler.
LEMMA FinishFacts ==
    ASSUME Typed, NEW s \in Sides, th' = Finish(s)
    PROVE  ThOK' /\ Finished(s)
<1> DEFINE x == [th[s] EXCEPT !.pc = "top", !.handling = FALSE, !.msg = NoPacket]
<1>1. s \in Threads /\ th[s] \in ThreadStates
  BY HomeFacts DEF Typed, ThOK
<1>2. "top" \in Places /\ FALSE \in BOOLEAN /\ NoPacket \in Packets
  BY NoPacketFacts DEF Places
<1>3. x \in ThreadStates /\ x.pc = "top" /\ x.handling = FALSE /\ x.msg = NoPacket
  BY <1>1, <1>2 DEF ThreadStates
<1>4. th' = [th EXCEPT ![s] = x]
  BY DEF Finish
<1> HIDE DEF x
<1> QED
  BY <1>1, <1>3, <1>4 DEF Typed, ThOK, Finished, Others

\* One Transport is replaced.
LEMMA TrReplaced ==
    ASSUME Typed, NEW s \in Sides, NEW x \in TransportStates, tr' = [tr EXCEPT ![s] = x]
    PROVE  TrOK' /\ Becomes(s, x)
  BY DEF Typed, TrOK, Becomes

\* The parts that stay as they are.
LEMMA Untouched ==
    ASSUME Typed
    PROVE  /\ UNCHANGED setup => (setup \in Setups)'
           /\ UNCHANGED tr => TrOK' /\ \A s \in Sides : Becomes(s, tr[s])
           /\ UNCHANGED pk => PkOK'
           /\ UNCHANGED th => ThOK'
           /\ UNCHANGED wire => WireOK'
           /\ UNCHANGED sends => SendsOK'
  BY DEF Typed, TrOK, PkOK, ThOK, WireOK, SendsOK, Becomes

\* _clear_to_send is cleared and in_kex set.
LEMMA ClearToSendDoes ==
    ASSUME Typed, NEW t \in Threads, ClearToSend(t)
    PROVE  /\ Typed' /\ th[t].pc = "clear" /\ Moved(t, "local")
           /\ Becomes(Home(t), [tr[Home(t)] EXCEPT !.clear = FALSE, !.inKex = TRUE])
           /\ UNCHANGED <<setup, pk, wire>>
<1> DEFINE s == Home(t)
<1> DEFINE x == [tr[s] EXCEPT !.clear = FALSE, !.inKex = TRUE]
<1>1. s \in Sides /\ tr[s] \in TransportStates /\ "local" \in Places
  BY HomeFacts DEF Typed, TrOK, Places
<1>2. x \in TransportStates
  <2>1. ASSUME NEW a \in BOOLEAN, NEW b \in BOOLEAN
        PROVE  [tr[s] EXCEPT !.clear = a, !.inKex = b] \in TransportStates
    BY <1>1 DEF TransportStates
  <2> QED
    BY <2>1
<1>3. tr' = [tr EXCEPT ![s] = x]
  BY DEF ClearToSend
<1> HIDE DEF x
<1>4. TrOK' /\ Becomes(s, x)
  BY <1>1, <1>2, <1>3, TrReplaced
<1>5. ThOK' /\ Moved(t, "local")
  BY <1>1, GotoFacts DEF ClearToSend
<1>6. UNCHANGED <<setup, pk, wire, sends>> /\ th[t].pc = "clear"
  BY DEF ClearToSend
<1> QED
  BY <1>4, <1>5, <1>6, Untouched DEF Typed, x

\* A new KEXINIT is made.
LEMMA LocalKexInitDoes ==
    ASSUME Typed, NEW t \in Threads, LocalKexInit(t)
    PROVE  LET n == tr[Home(t)].inits + 1
           IN /\ Typed' /\ th[t].pc = "local" /\ n \in Nat
              /\ Others(t) /\ th'[t].pc = "emit" /\ th'[t].init = n /\ th'[t].before = th[t].before
              /\ th'[t].msg = th[t].msg /\ th'[t].handling = th[t].handling
              /\ Becomes(Home(t), [tr[Home(t)] EXCEPT !.local = n, !.inits = n])
              /\ UNCHANGED <<setup, pk, wire>>
<1> DEFINE s == Home(t)
<1> DEFINE n == tr[s].inits + 1
<1> DEFINE x == [tr[s] EXCEPT !.local = n, !.inits = n]
<1> DEFINE y == [th[t] EXCEPT !.pc = "emit", !.init = n]
<1>1. s \in Sides /\ tr[s] \in TransportStates /\ "emit" \in Places /\ th[t] \in ThreadStates
  BY HomeFacts DEF Typed, TrOK, Places, ThOK
<1>2. n \in Nat
  BY <1>1 DEF TransportStates
<1>3. tr' = [tr EXCEPT ![s] = x] /\ th' = [th EXCEPT ![t] = y]
  BY DEF LocalKexInit
<1> HIDE DEF n
<1>4. x \in TransportStates
  BY <1>1, <1>2 DEF TransportStates
<1>5. /\ y \in ThreadStates /\ y.pc = "emit" /\ y.init = n /\ y.before = th[t].before
      /\ y.msg = th[t].msg /\ y.handling = th[t].handling
  BY <1>1, <1>2 DEF ThreadStates
<1> HIDE DEF x, y
<1>6. TrOK' /\ Becomes(s, x)
  BY <1>1, <1>3, <1>4, TrReplaced
<1>7. ThOK' /\ Others(t) /\ th'[t] = y
  BY <1>3, <1>5 DEF Typed, ThOK, Others
<1>8. UNCHANGED <<setup, pk, wire, sends>> /\ th[t].pc = "local"
  BY DEF LocalKexInit
<1> QED
  BY <1>2, <1>5, <1>6, <1>7, <1>8, Untouched DEF Typed, x, n

\* _send_kex_init sends what was made.
LEMMA SendKexInitDoes ==
    ASSUME Typed, NEW t \in Threads, SendKexInit(t)
    PROVE  /\ Typed' /\ th[t].pc = "emit"
           /\ Moved(t, IF t \in Users THEN "wait" ELSE IF th[t].handling THEN "parse" ELSE "reading")
           /\ Emitted(Home(t), "kexinit", <<th[t].init, 0>>)
           /\ UNCHANGED <<setup, tr>>
<1> DEFINE place == IF t \in Users THEN "wait" ELSE IF th[t].handling THEN "parse" ELSE "reading"
<1>1. Home(t) \in Sides /\ place \in Places /\ "kexinit" \in Kinds /\ <<th[t].init, 0>> \in Keys
  BY HomeFacts DEF Typed, ThOK, Places, Kinds, Keys, ThreadStates
<1>2. Goto(t, place) /\ Emit(Home(t), "kexinit", <<th[t].init, 0>>) /\ UNCHANGED <<setup, tr, sends>>
      /\ th[t].pc = "emit"
  BY DEF SendKexInit
<1> HIDE DEF place
<1>3. ThOK' /\ Moved(t, place)
  BY <1>1, <1>2, GotoFacts
<1>4. WireOK' /\ PkOK' /\ Emitted(Home(t), "kexinit", <<th[t].init, 0>>)
  BY <1>1, <1>2, EmitFacts
<1> QED
  BY <1>2, <1>3, <1>4, Untouched DEF Typed, place

\* Steps that only move a thread.
LEMMA MovesDo ==
    ASSUME Typed
    PROVE  /\ \A u \in Users : SendKexInitFails(u) =>
                 Typed' /\ Moved(u, "failed") /\ UNCHANGED <<setup, tr, pk, wire>>
           /\ \A u \in Users : RenegotiateReturns(u) =>
                 /\ Typed' /\ UNCHANGED <<setup, tr, pk, wire>>
                 /\ Moved(u, IF tr[SideOf[u]].completion THEN "done" ELSE "wait")
           /\ \A u \in Users : RenegotiateFindsActive(u) =>
                 Typed' /\ Moved(u, "check") /\ UNCHANGED <<setup, tr, pk, wire>>
           /\ \A u \in Users : RenegotiateRaises(u) =>
                 Typed' /\ Moved(u, "failed") /\ UNCHANGED <<setup, tr, pk, wire>>
           /\ \A s \in Sides : CheckRekey(s) =>
                 /\ Typed' /\ th[s].pc = "top" /\ UNCHANGED <<setup, tr, pk, wire>>
                 /\ Moved(s, IF pk[s].needRekey /\ ~tr[s].inKex THEN "clear" ELSE "reading")
           /\ \A s \in Sides : ReadInterrupted(s) =>
                 Typed' /\ th[s].pc = "reading" /\ Moved(s, "top") /\ UNCHANGED <<setup, tr, pk, wire>>
<1>1. {"failed", "done", "wait", "check", "clear", "reading", "top"} \subseteq Places
  BY DEF Places
<1>2. (\A u \in Users : u \in Threads) /\ \A s \in Sides : s \in Threads
  BY HomeFacts
<1>3. ASSUME UNCHANGED <<setup, tr, pk, wire, sends>>, ThOK' PROVE Typed'
  BY <1>3, Untouched DEF Typed
<1>4. ASSUME NEW u \in Users, SendKexInitFails(u)
      PROVE  Typed' /\ Moved(u, "failed") /\ UNCHANGED <<setup, tr, pk, wire>>
  <2>1. Goto(u, "failed") /\ UNCHANGED <<setup, tr, pk, wire, sends>>
    BY <1>4 DEF SendKexInitFails
  <2> QED
    BY <1>1, <1>2, <1>3, <2>1, GotoFacts
<1>5. ASSUME NEW u \in Users, RenegotiateReturns(u)
      PROVE  /\ Typed' /\ UNCHANGED <<setup, tr, pk, wire>>
             /\ Moved(u, IF tr[SideOf[u]].completion THEN "done" ELSE "wait")
  <2> DEFINE place == IF tr[SideOf[u]].completion THEN "done" ELSE "wait"
  <2>1. Goto(u, place) /\ UNCHANGED <<setup, tr, pk, wire, sends>> /\ place \in Places
    BY <1>1, <1>5 DEF RenegotiateReturns
  <2> HIDE DEF place
  <2>2. ThOK' /\ Moved(u, place)
    BY <1>2, <2>1, GotoFacts
  <2> QED
    BY <1>3, <2>1, <2>2 DEF place
<1>6. ASSUME NEW u \in Users, RenegotiateRaises(u)
      PROVE  Typed' /\ Moved(u, "failed") /\ UNCHANGED <<setup, tr, pk, wire>>
  <2>1. Goto(u, "failed") /\ UNCHANGED <<setup, tr, pk, wire, sends>>
    BY <1>6 DEF RenegotiateRaises
  <2> QED
    BY <1>1, <1>2, <1>3, <2>1, GotoFacts
<1>7. ASSUME NEW s \in Sides, CheckRekey(s)
      PROVE  /\ Typed' /\ th[s].pc = "top" /\ UNCHANGED <<setup, tr, pk, wire>>
             /\ Moved(s, IF pk[s].needRekey /\ ~tr[s].inKex THEN "clear" ELSE "reading")
  <2> DEFINE place == IF pk[s].needRekey /\ ~tr[s].inKex THEN "clear" ELSE "reading"
  <2>1. Goto(s, place) /\ th[s].pc = "top" /\ UNCHANGED <<setup, tr, pk, wire, sends>> /\ place \in Places
    BY <1>1, <1>7 DEF CheckRekey
  <2> HIDE DEF place
  <2>2. ThOK' /\ Moved(s, place)
    BY <1>2, <2>1, GotoFacts
  <2> QED
    BY <1>3, <2>1, <2>2 DEF place
<1>8. ASSUME NEW s \in Sides, ReadInterrupted(s)
      PROVE  Typed' /\ th[s].pc = "reading" /\ Moved(s, "top") /\ UNCHANGED <<setup, tr, pk, wire>>
  <2>1. Goto(s, "top") /\ th[s].pc = "reading" /\ UNCHANGED <<setup, tr, pk, wire, sends>>
    BY <1>8 DEF ReadInterrupted
  <2> QED
    BY <1>1, <1>2, <1>3, <2>1, GotoFacts
<1>9. ASSUME NEW u \in Users, RenegotiateFindsActive(u)
      PROVE  Typed' /\ Moved(u, "check") /\ UNCHANGED <<setup, tr, pk, wire>>
  <2>1. Goto(u, "check") /\ UNCHANGED <<setup, tr, pk, wire, sends>>
    BY <1>9 DEF RenegotiateFindsActive
  <2> QED
    BY <1>1, <1>2, <1>3, <2>1, GotoFacts
<1> QED
  BY <1>4, <1>5, <1>6, <1>7, <1>8, <1>9

\* renegotiate_keys begins, once the first exchange is over.
LEMMA RenegotiateKeysDoes ==
    ASSUME Typed, NEW u \in Users, RenegotiateKeys(u)
    PROVE  /\ Typed' /\ tr[SideOf[u]].initialDone
           /\ Others(u) /\ th'[u].pc = "clear" /\ th'[u].before = pk[SideOf[u]].keyOut
           /\ Becomes(SideOf[u], [tr[SideOf[u]] EXCEPT !.completion = FALSE])
           /\ UNCHANGED <<setup, pk, wire>>
<1> DEFINE s == SideOf[u]
<1> DEFINE x == [tr[s] EXCEPT !.completion = FALSE]
<1> DEFINE y == [th[u] EXCEPT !.pc = "clear", !.before = pk[s].keyOut]
<1>1. /\ s \in Sides /\ tr[s] \in TransportStates /\ u \in Threads /\ th[u] \in ThreadStates
      /\ pk[s] \in PacketizerStates /\ "clear" \in Places
  BY HomeFacts DEF Typed, TrOK, ThOK, PkOK, Places
<1>2. x \in TransportStates
  <2>1. ASSUME NEW b \in BOOLEAN PROVE [tr[s] EXCEPT !.completion = b] \in TransportStates
    BY <1>1 DEF TransportStates
  <2> QED
    BY <2>1
<1>3. y \in ThreadStates /\ y.pc = "clear" /\ y.before = pk[s].keyOut
  BY <1>1 DEF ThreadStates, PacketizerStates
<1>4. /\ tr' = [tr EXCEPT ![s] = x] /\ th' = [th EXCEPT ![u] = y]
      /\ tr[s].initialDone /\ UNCHANGED <<setup, pk, wire, sends>>
  BY DEF RenegotiateKeys
<1> HIDE DEF x, y
<1>5. TrOK' /\ Becomes(s, x)
  BY <1>1, <1>2, <1>4, TrReplaced
<1>6. ThOK' /\ Others(u) /\ th'[u] = y
  BY <1>1, <1>3, <1>4 DEF Typed, ThOK, Others
<1> QED
  BY <1>3, <1>4, <1>5, <1>6, Untouched DEF Typed, x

\* _send_user_message sends when the way is clear.
LEMMA SendUserMessageDoes ==
    ASSUME Typed, NEW s \in Sides, NEW kind \in Traffic, SendUserMessage(s, kind)
    PROVE  /\ Typed' /\ tr[s].clear /\ Emitted(s, kind, NoKey)
           /\ UNCHANGED <<setup, tr, th>>
<1>1. kind \in Kinds /\ NoKey \in Keys
  BY NoPacketFacts DEF Kinds
<1>2. WireOK' /\ PkOK' /\ Emitted(s, kind, NoKey)
  BY <1>1, EmitFacts DEF SendUserMessage
<1>3. SendsOK'
  <2>1. /\ sends[s] \in 0..MaxMessages /\ sends[s] < MaxMessages /\ MaxMessages \in Nat
        /\ sends' = [sends EXCEPT ![s] = sends[s] + 1]
    BY KexAssumption DEF SendUserMessage, Typed, SendsOK
  <2>2. sends[s] + 1 \in 0..MaxMessages
    BY <2>1
  <2> QED
    BY <2>1, <2>2 DEF Typed, SendsOK
<1> QED
  BY <1>2, <1>3, Untouched DEF Typed, SendUserMessage

\* What a dead Transport keeps of its exchange.
SameKex(x, y) ==
    /\ y.clear = x.clear /\ y.inKex = x.inKex /\ y.local = x.local /\ y.remote = x.remote
    /\ y.inits = x.inits /\ y.initialDone = x.initialDone /\ y.expected = x.expected

\* What a step that ends neither a Transport nor an exchange leaves of it.
SameLife(x, y) == y.active = x.active /\ y.completion = x.completion

\* The end of a Transport.
LEMMA DeadFacts ==
    ASSUME NEW s, NEW x \in TransportStates
    PROVE  /\ Dead(s, x) \in TransportStates /\ SameKex(x, Dead(s, x)) /\ ~Dead(s, x).active
           /\ Dead(s, x).H = x.H /\ Dead(s, x).sessionId = x.sessionId
<1>1. ASSUME NEW a \in BOOLEAN, NEW b \in BOOLEAN
      PROVE  LET y == [x EXCEPT !.active = a, !.completion = b]
             IN /\ y \in TransportStates /\ SameKex(x, y) /\ y.H = x.H /\ y.sessionId = x.sessionId
                /\ y.active = a
  BY DEF TransportStates, SameKex
<1>2. Dead(s, x) = [x EXCEPT !.active = FALSE, !.completion = TRUE]
  BY DEF Dead
<1>3. FALSE \in BOOLEAN /\ TRUE \in BOOLEAN
  OBVIOUS
<1> QED
  BY <1>1, <1>2, <1>3

\* The thread of s ends.
Dies(s) ==
    /\ Moved(s, "dead")
    /\ SameKex(tr[s], tr'[s]) /\ tr'[s].H = tr[s].H /\ tr'[s].sessionId = tr[s].sessionId
    /\ ~tr'[s].active
    /\ \A d \in Sides : d # s => tr'[d] = tr[d]

\* It does, in Die.
LEMMA DieFacts ==
    ASSUME Typed, NEW s \in Sides, Die(s)
    PROVE  TrOK' /\ ThOK' /\ Dies(s)
<1>1. tr[s] \in TransportStates /\ s \in Threads /\ "dead" \in Places
  BY HomeFacts DEF Typed, TrOK, Places
<1> DEFINE x == Dead(s, tr[s])
<1>2. /\ x \in TransportStates /\ SameKex(tr[s], x) /\ x.H = tr[s].H /\ x.sessionId = tr[s].sessionId
      /\ ~x.active
  BY <1>1, DeadFacts
<1>3. tr' = [tr EXCEPT ![s] = x] /\ Goto(s, "dead")
  BY DEF Die
<1> HIDE DEF x
<1>4. TrOK' /\ Becomes(s, x)
  BY <1>2, <1>3, TrReplaced
<1>5. ThOK' /\ Moved(s, "dead")
  BY <1>1, <1>3, GotoFacts
<1> QED
  BY <1>2, <1>4, <1>5 DEF Dies, Becomes

\* The ways in which a transport thread ends outside of a handler of the exchange.
LEMMA EndsDo ==
    ASSUME Typed, NEW s \in Sides
    PROVE  /\ ReadRaises(s) => Typed' /\ th[s].pc = "reading" /\ Taken(s) /\ Dies(s) /\ UNCHANGED <<setup, pk>>
           /\ EndOfStream(s) => Typed' /\ th[s].pc = "reading" /\ Dies(s) /\ UNCHANGED <<setup, pk, wire>>
           /\ ReplyTimesOut(s) => Typed' /\ th[s].pc = "reply" /\ Dies(s) /\ UNCHANGED <<setup, pk, wire>>
<1>1. ASSUME ReadRaises(s)
      PROVE  Typed' /\ th[s].pc = "reading" /\ Taken(s) /\ Dies(s) /\ UNCHANGED <<setup, pk>>
  <2>1. Take(s) /\ Die(s) /\ UNCHANGED <<setup, pk, sends>> /\ th[s].pc = "reading"
    BY <1>1 DEF ReadRaises, Take
  <2> QED
    BY <2>1, TakeFacts, DieFacts, Untouched DEF Typed
<1>2. ASSUME EndOfStream(s)
      PROVE  Typed' /\ th[s].pc = "reading" /\ Dies(s) /\ UNCHANGED <<setup, pk, wire>>
  <2>1. Die(s) /\ UNCHANGED <<setup, pk, wire, sends>> /\ th[s].pc = "reading"
    BY <1>2 DEF EndOfStream
  <2> QED
    BY <2>1, DieFacts, Untouched DEF Typed
<1>3. ASSUME ReplyTimesOut(s)
      PROVE  Typed' /\ th[s].pc = "reply" /\ Dies(s) /\ UNCHANGED <<setup, pk, wire>>
  <2>1. Die(s) /\ UNCHANGED <<setup, pk, wire, sends>> /\ th[s].pc = "reply"
    BY <1>3 DEF ReplyTimesOut
  <2> QED
    BY <2>1, DieFacts, Untouched DEF Typed
<1> QED
  BY <1>1, <1>2, <1>3

\* Where the messages go.
LEMMA HandlerFacts ==
    ASSUME NEW k \in Kinds, NEW b \in BOOLEAN
    PROVE  /\ k = "kexinit" => Handler(k, b) = "negotiate"
           /\ k \in {"dhinit", "dhreply"} => Handler(k, b) = IF b THEN "dh" ELSE "answer"
           /\ k = "newkeys" => Handler(k, b) = "newkeysin"
           /\ k = "open" => Handler(k, b) = "answer"
           /\ k = "request" => Handler(k, b) = "reply"
           /\ k \in {"data", "extinfo", "answer"} => Handler(k, b) = "top"
           /\ Handler(k, b) \in {"negotiate", "dh", "answer", "newkeysin", "reply", "top"}
  BY DEF Handler, Kinds, Traffic

\* A packet is accepted and handed on.
LEMMA ReadMessageDoes ==
    ASSUME Typed, NEW s \in Sides, ReadMessage(s)
    PROVE  LET p == Head(wire[Peer(s)])
               place == Handler(p.kind, tr[s].expected # {})
           IN /\ Typed' /\ th[s].pc = "reading" /\ Taken(s)
              /\ tr[s].expected = {} \/ p.kind \in tr[s].expected
              /\ Others(s) /\ th'[s].pc = place /\ th'[s].init = th[s].init
              /\ th'[s].handling = (place # "top")
              /\ th'[s].msg = IF place = "top" THEN NoPacket ELSE p
              /\ Becomes(s, [tr[s] EXCEPT !.expected = {}])
              /\ pk'[s] = Received(pk[s], setup.limit[s]) /\ \A d \in Sides : d # s => pk'[d] = pk[d]
              /\ UNCHANGED setup
<1> DEFINE p == Head(wire[Peer(s)])
<1> DEFINE place == Handler(p.kind, tr[s].expected # {})
<1> DEFINE y == [th[s] EXCEPT !.pc = place, !.handling = (place # "top"),
                              !.msg = IF place = "top" THEN NoPacket ELSE p]
<1> DEFINE x == [tr[s] EXCEPT !.expected = {}]
<1>1. /\ Take(s) /\ UNCHANGED <<setup, sends>> /\ th[s].pc = "reading"
      /\ tr[s].expected = {} \/ p.kind \in tr[s].expected
      /\ pk' = [pk EXCEPT ![s] = Received(pk[s], setup.limit[s])]
      /\ tr' = [tr EXCEPT ![s] = x]
      /\ th' = [th EXCEPT ![s] = y]
  BY DEF ReadMessage, Unacceptable, Take
<1>2. WireOK' /\ Taken(s) /\ p \in Packets
  BY <1>1, TakeFacts DEF Taken
<1>3. s \in Threads /\ th[s] \in ThreadStates /\ tr[s] \in TransportStates /\ pk[s] \in PacketizerStates
  BY HomeFacts DEF Typed, ThOK, TrOK, PkOK
<1>4. place \in Places
  <2>1. p.kind \in Kinds /\ (tr[s].expected # {}) \in BOOLEAN
    BY <1>2 DEF Packets
  <2>2. place \in {"negotiate", "dh", "answer", "newkeysin", "reply", "top"}
    BY <2>1, HandlerFacts
  <2> HIDE DEF place
  <2> QED
    BY <2>2 DEF Places
<1> HIDE DEF place, p
<1>5. y \in ThreadStates /\ y.pc = place /\ y.handling = (place # "top") /\ y.init = th[s].init
      /\ y.msg = IF place = "top" THEN NoPacket ELSE p
  <2> DEFINE b == place # "top"
  <2> DEFINE m == IF place = "top" THEN NoPacket ELSE p
  <2>1. b \in BOOLEAN /\ m \in Packets /\ y = [th[s] EXCEPT !.pc = place, !.handling = b, !.msg = m]
    BY <1>2, NoPacketFacts
  <2> HIDE DEF b, m, y
  <2>2. y \in ThreadStates /\ y.pc = place /\ y.handling = b /\ y.init = th[s].init /\ y.msg = m
    BY <1>3, <1>4, <2>1 DEF ThreadStates
  <2> QED
    BY <2>2 DEF b, m
<1>6. x \in TransportStates
  BY <1>3 DEF TransportStates
<1> HIDE DEF x, y
<1>7. TrOK' /\ Becomes(s, x)
  BY <1>1, <1>6, TrReplaced
<1>8. ThOK' /\ Others(s) /\ th'[s] = y
  BY <1>1, <1>3, <1>5 DEF Typed, ThOK, Others
<1>9. Received(pk[s], setup.limit[s]) \in PacketizerStates
  BY <1>3, LimitFacts, ReceivedFacts
<1>10. /\ PkOK' /\ pk'[s] = Received(pk[s], setup.limit[s])
       /\ \A d \in Sides : d # s => pk'[d] = pk[d]
  BY <1>1, <1>9 DEF Typed, PkOK
<1>11. Typed'
  BY <1>1, <1>2, <1>7, <1>8, <1>10, Untouched DEF Typed
<1> QED
  BY <1>1, <1>2, <1>5, <1>7, <1>8, <1>10, <1>11 DEF place, p, x

\* A transport thread answers a message of its peer's users.
LEMMA AnswersDo ==
    ASSUME Typed, NEW s \in Sides, Answer(s) \/ Reply(s)
    PROVE  /\ Typed' /\ th[s].pc \in {"answer", "reply"} /\ Finished(s) /\ Emitted(s, "answer", NoKey)
           /\ UNCHANGED <<setup, tr>>
<1>1. "answer" \in Kinds /\ NoKey \in Keys
  BY NoPacketFacts DEF Kinds
<1>2. /\ Emit(s, "answer", NoKey) /\ th' = Finish(s) /\ UNCHANGED <<setup, tr, sends>>
      /\ th[s].pc \in {"answer", "reply"}
  BY DEF Answer, Reply
<1> QED
  BY <1>1, <1>2, EmitFacts, FinishFacts, Untouched DEF Typed

\* _negotiate_keys
LEMMA NegotiateKeysDoes ==
    ASSUME Typed, NEW s \in Sides, NegotiateKeys(s)
    PROVE  /\ Typed' /\ th[s].pc = "negotiate"
           /\ Moved(s, IF tr[s].local = 0 THEN "clear" ELSE "parse")
           /\ Becomes(s, [tr[s] EXCEPT !.clear = FALSE])
           /\ UNCHANGED <<setup, pk, wire>>
<1> DEFINE place == IF tr[s].local = 0 THEN "clear" ELSE "parse"
<1> DEFINE x == [tr[s] EXCEPT !.clear = FALSE]
<1>1. s \in Threads /\ tr[s] \in TransportStates /\ place \in Places
  BY HomeFacts DEF Typed, TrOK, Places
<1>2. x \in TransportStates
  <2>1. ASSUME NEW b \in BOOLEAN PROVE [tr[s] EXCEPT !.clear = b] \in TransportStates
    BY <1>1 DEF TransportStates
  <2> QED
    BY <2>1
<1>3. /\ tr' = [tr EXCEPT ![s] = x] /\ Goto(s, place) /\ th[s].pc = "negotiate"
      /\ UNCHANGED <<setup, pk, wire, sends>>
  BY DEF NegotiateKeys
<1> HIDE DEF x, place
<1>4. TrOK' /\ Becomes(s, x) /\ ThOK' /\ Moved(s, place)
  BY <1>1, <1>2, <1>3, TrReplaced, GotoFacts
<1> QED
  BY <1>3, <1>4, Untouched DEF Typed, x, place

\* _parse_kex_init: a client goes on to send its KEXDH_INIT.
LEMMA ParseKexInitDoes ==
    ASSUME Typed, NEW s \in Sides, ParseKexInit(s)
    PROVE  /\ Typed' /\ th[s].pc = "parse" /\ Finished(s)
           /\ Becomes(s, [tr[s] EXCEPT !.remote = th[s].msg.val[1], !.strict = AgreedStrict(s),
                             !.expected = IF s = "client" THEN {"dhreply"} ELSE {"dhinit"}])
           /\ IF s = "client" THEN Emitted(s, "dhinit", NoKey) ELSE UNCHANGED <<pk, wire>>
           /\ UNCHANGED setup
<1> DEFINE r == th[s].msg.val[1]
<1> DEFINE b == AgreedStrict(s)
<1> DEFINE e == IF s = "client" THEN {"dhreply"} ELSE {"dhinit"}
<1> DEFINE x == [tr[s] EXCEPT !.remote = r, !.strict = b, !.expected = e]
<1>1. s \in Threads /\ tr[s] \in TransportStates /\ th[s] \in ThreadStates /\ Peer(s) \in Sides
  BY HomeFacts, PeerFacts DEF Typed, TrOK, ThOK
<1>2. r \in Nat
  BY <1>1 DEF ThreadStates, Packets, Keys
<1>3. b \in BOOLEAN
  <2>1. setup.advertise \in [Sides -> BOOLEAN]
    BY KexAssumption DEF Typed, SetupRecords
  <2>2. setup.advertise[s] \in BOOLEAN /\ tr[s].strict \in BOOLEAN
    BY <1>1, <2>1 DEF TransportStates
  <2> QED
    BY <2>2 DEF AgreedStrict
<1>4. e \in SUBSET Kinds /\ "dhinit" \in Kinds /\ NoKey \in Keys
  BY NoPacketFacts DEF Kinds
<1>5. /\ tr' = [tr EXCEPT ![s] = x] /\ th' = Finish(s) /\ th[s].pc = "parse"
      /\ IF s = "client" THEN Emit(s, "dhinit", NoKey) ELSE UNCHANGED <<pk, wire>>
      /\ UNCHANGED <<setup, sends>>
  BY DEF ParseKexInit
<1> HIDE DEF r, b, e
<1>6. x \in TransportStates
  BY <1>1, <1>2, <1>3, <1>4 DEF TransportStates
<1> HIDE DEF x
<1>7. TrOK' /\ Becomes(s, x) /\ ThOK' /\ Finished(s)
  BY <1>5, <1>6, TrReplaced, FinishFacts
<1>8. /\ WireOK' /\ PkOK'
      /\ IF s = "client" THEN Emitted(s, "dhinit", NoKey) ELSE UNCHANGED <<pk, wire>>
  BY <1>4, <1>5, EmitFacts, Untouched
<1> QED
  BY <1>5, <1>7, <1>8, Untouched DEF Typed, x, r, b, e

\* _set_K_H and the hash it is given.
LEMMA HashFacts ==
    ASSUME Typed, NEW s \in Sides
    PROVE  /\ Hash(s) \in Keys /\ SetKH(tr[s], Hash(s)) \in TransportStates
           /\ SameKex(tr[s], SetKH(tr[s], Hash(s))) /\ SameLife(tr[s], SetKH(tr[s], Hash(s)))
           /\ SetKH(tr[s], Hash(s)).H = Hash(s)
           /\ SetKH(tr[s], Hash(s)).sessionId = IF tr[s].sessionId = NoKey THEN Hash(s) ELSE tr[s].sessionId
<1> DEFINE h == Hash(s)
<1> DEFINE i == IF tr[s].sessionId = NoKey THEN h ELSE tr[s].sessionId
<1>1. tr[s] \in TransportStates
  BY DEF Typed, TrOK
<1>2. h \in Keys
  BY <1>1 DEF TransportStates, Hash, Keys
<1>3. i \in Keys
  BY <1>1, <1>2 DEF TransportStates
<1>4. SetKH(tr[s], h) = [tr[s] EXCEPT !.H = h, !.sessionId = i]
  BY DEF SetKH
<1> HIDE DEF h, i
<1>5. LET y == [tr[s] EXCEPT !.H = h, !.sessionId = i]
      IN y \in TransportStates /\ SameKex(tr[s], y) /\ SameLife(tr[s], y) /\ y.H = h /\ y.sessionId = i
  BY <1>1, <1>2, <1>3 DEF TransportStates, SameKex, SameLife
<1> QED
  BY <1>2, <1>4, <1>5 DEF h, i

\* Side s has computed the exchange hash.
Hashed(s) ==
    /\ SameKex(tr[s], tr'[s])
    /\ tr'[s].H = Hash(s)
    /\ tr'[s].sessionId = IF tr[s].sessionId = NoKey THEN Hash(s) ELSE tr[s].sessionId
    /\ \A d \in Sides : d # s => tr'[d] = tr[d]

\* _parse_kexdh_init and _parse_kexdh_reply
LEMMA KexdhDo ==
    ASSUME Typed, NEW s \in Sides
    PROVE  /\ ParseKexdhInit(s) =>
                /\ Typed' /\ th[s].pc = "dh" /\ s = "server" /\ Hashed(s) /\ Moved(s, "newkeysout")
                /\ SameLife(tr[s], tr'[s])
                /\ Emitted(s, "dhreply", Hash(s)) /\ UNCHANGED setup
           /\ ParseKexdhReply(s) =>
                /\ Typed' /\ th[s].pc = "dh" /\ s = "client" /\ Hashed(s)
                /\ \/ Moved(s, "dead") /\ ~tr'[s].active
                   \/ Moved(s, "newkeysout") /\ th[s].msg.val = Hash(s) /\ SameLife(tr[s], tr'[s])
                /\ UNCHANGED <<setup, pk, wire>>
<1> DEFINE x == SetKH(tr[s], Hash(s))
<1>1. s \in Threads /\ {"newkeysout", "dead"} \subseteq Places /\ "dhreply" \in Kinds
  BY HomeFacts DEF Places, Kinds
<1>2. /\ Hash(s) \in Keys /\ x \in TransportStates /\ SameKex(tr[s], x) /\ x.H = Hash(s)
      /\ SameLife(tr[s], x)
      /\ x.sessionId = IF tr[s].sessionId = NoKey THEN Hash(s) ELSE tr[s].sessionId
  BY HashFacts
<1> HIDE DEF x
<1>3. ASSUME ParseKexdhInit(s)
      PROVE  /\ Typed' /\ th[s].pc = "dh" /\ s = "server" /\ Hashed(s) /\ Moved(s, "newkeysout")
             /\ SameLife(tr[s], tr'[s])
             /\ Emitted(s, "dhreply", Hash(s)) /\ UNCHANGED setup
  <2>1. /\ tr' = [tr EXCEPT ![s] = x] /\ Emit(s, "dhreply", Hash(s)) /\ Goto(s, "newkeysout")
        /\ UNCHANGED <<setup, sends>> /\ th[s].pc = "dh" /\ s = "server"
    BY <1>3 DEF ParseKexdhInit, x
  <2>2. TrOK' /\ Becomes(s, x)
    BY <1>2, <2>1, TrReplaced
  <2>3. ThOK' /\ Moved(s, "newkeysout")
    BY <1>1, <2>1, GotoFacts
  <2>4. WireOK' /\ PkOK' /\ Emitted(s, "dhreply", Hash(s))
    BY <1>1, <1>2, <2>1, EmitFacts
  <2>5. Hashed(s) /\ SameLife(tr[s], tr'[s])
    BY <1>2, <2>2 DEF Hashed, Becomes
  <2> QED
    BY <2>1, <2>2, <2>3, <2>4, <2>5, Untouched DEF Typed
<1>4. ASSUME ParseKexdhReply(s)
      PROVE  /\ Typed' /\ th[s].pc = "dh" /\ s = "client" /\ Hashed(s)
             /\ \/ Moved(s, "dead") /\ ~tr'[s].active
                \/ Moved(s, "newkeysout") /\ th[s].msg.val = Hash(s) /\ SameLife(tr[s], tr'[s])
             /\ UNCHANGED <<setup, pk, wire>>
  <2>1. UNCHANGED <<setup, pk, wire, sends>> /\ th[s].pc = "dh" /\ s = "client"
    BY <1>4 DEF ParseKexdhReply
  <2>2. CASE Verified(s, Hash(s)) /\ tr' = [tr EXCEPT ![s] = x] /\ Goto(s, "newkeysout")
    <3>1. TrOK' /\ Becomes(s, x)
      BY <1>2, <2>2, TrReplaced
    <3>2. ThOK' /\ Moved(s, "newkeysout") /\ th[s].msg.val = Hash(s)
      BY <1>1, <2>2, GotoFacts DEF Verified
    <3>3. Hashed(s) /\ SameLife(tr[s], tr'[s])
      BY <1>2, <3>1 DEF Hashed, Becomes
    <3> QED
      BY <2>1, <3>1, <3>2, <3>3, Untouched DEF Typed
  <2>3. CASE tr' = [tr EXCEPT ![s] = Dead(s, x)] /\ Goto(s, "dead")
    <3> DEFINE y == Dead(s, x)
    <3>1. /\ y \in TransportStates /\ SameKex(x, y) /\ y.H = x.H /\ y.sessionId = x.sessionId
          /\ ~y.active
      BY <1>2, DeadFacts
    <3>2. SameKex(tr[s], y)
      BY <1>2, <3>1 DEF SameKex
    <3> HIDE DEF y
    <3>3. TrOK' /\ Becomes(s, y)
      BY <2>3, <3>1, TrReplaced DEF y
    <3>4. ThOK' /\ Moved(s, "dead")
      BY <1>1, <2>3, GotoFacts
    <3>5. Hashed(s) /\ ~tr'[s].active
      BY <1>2, <3>1, <3>2, <3>3 DEF Hashed, Becomes
    <3> QED
      BY <2>1, <3>3, <3>4, <3>5, Untouched DEF Typed
  <2> QED
    BY <1>4, <2>2, <2>3 DEF ParseKexdhReply, x
<1> QED
  BY <1>3, <1>4

\* The NEWKEYS goes out under the old key.
LEMMA SendNewKeysDoes ==
    ASSUME Typed, NEW s \in Sides, SendNewKeys(s)
    PROVE  /\ Typed' /\ th[s].pc = "newkeysout" /\ Moved(s, "reset") /\ Emitted(s, "newkeys", NoKey)
           /\ UNCHANGED <<setup, tr>>
<1>1. s \in Threads /\ "reset" \in Places /\ "newkeys" \in Kinds /\ NoKey \in Keys
  BY HomeFacts, NoPacketFacts DEF Places, Kinds
<1>2. /\ Emit(s, "newkeys", NoKey) /\ Goto(s, "reset") /\ UNCHANGED <<setup, tr, sends>>
      /\ th[s].pc = "newkeysout"
  BY DEF SendNewKeys
<1> QED
  BY <1>1, <1>2, EmitFacts, GotoFacts, Untouched DEF Typed

\* The outbound number is set back, if strict.
LEMMA ResetSeqnoOutDoes ==
    ASSUME Typed, NEW s \in Sides, ResetSeqnoOut(s)
    PROVE  /\ Typed' /\ th[s].pc = "reset" /\ Moved(s, "cipher")
           /\ pk'[s].initCount = pk[s].initCount /\ pk'[s].needRekey = pk[s].needRekey
           /\ pk'[s].keyOut = pk[s].keyOut /\ pk'[s].keyIn = pk[s].keyIn
           /\ \A d \in Sides : d # s => pk'[d] = pk[d]
           /\ UNCHANGED <<setup, tr, wire>>
<1> DEFINE n == IF tr[s].strict THEN 0 ELSE pk[s].seqOut
<1> DEFINE q == [pk[s] EXCEPT !.seqOut = n]
<1>1. s \in Threads /\ "cipher" \in Places /\ pk[s] \in PacketizerStates
  BY HomeFacts DEF Places, Typed, PkOK
<1>2. n \in Nat
  BY <1>1 DEF PacketizerStates
<1>3. /\ pk' = [pk EXCEPT ![s] = q] /\ Goto(s, "cipher") /\ th[s].pc = "reset"
      /\ UNCHANGED <<setup, tr, wire, sends>>
  BY DEF ResetSeqnoOut
<1> HIDE DEF n
<1>4. /\ q \in PacketizerStates /\ q.initCount = pk[s].initCount /\ q.needRekey = pk[s].needRekey
      /\ q.keyOut = pk[s].keyOut /\ q.keyIn = pk[s].keyIn
  BY <1>1, <1>2 DEF PacketizerStates
<1> HIDE DEF q
<1>5. PkOK' /\ pk'[s] = q /\ \A d \in Sides : d # s => pk'[d] = pk[d]
  BY <1>3, <1>4 DEF Typed, PkOK
<1>6. ThOK' /\ Moved(s, "cipher")
  BY <1>1, <1>3, GotoFacts
<1> QED
  BY <1>3, <1>4, <1>5, <1>6, Untouched DEF Typed

\* set_outbound_cipher
LEMMA SetOutboundCipherDoes ==
    ASSUME Typed, NEW s \in Sides, SetOutboundCipher(s)
    PROVE  /\ Typed' /\ th[s].pc = "cipher" /\ Moved(s, "extinfo")
           /\ pk'[s] = SetOutbound(pk[s], tr[s].H) /\ \A d \in Sides : d # s => pk'[d] = pk[d]
           /\ Becomes(s, [tr[s] EXCEPT !.inKex = tr[s].inKex /\ pk'[s].needRekey])
           /\ UNCHANGED <<setup, wire>>
<1> DEFINE q == SetOutbound(pk[s], tr[s].H)
<1> DEFINE b == tr[s].inKex /\ q.needRekey
<1> DEFINE x == [tr[s] EXCEPT !.inKex = b]
<1>1. s \in Threads /\ "extinfo" \in Places /\ pk[s] \in PacketizerStates /\ tr[s] \in TransportStates
  BY HomeFacts DEF Places, Typed, PkOK, TrOK
<1>2. q \in PacketizerStates
  BY <1>1, OutboundFacts DEF TransportStates
<1>3. b \in BOOLEAN
  BY <1>1 DEF TransportStates
<1>4. /\ pk' = [pk EXCEPT ![s] = q] /\ tr' = [tr EXCEPT ![s] = x] /\ Goto(s, "extinfo") /\ th[s].pc = "cipher"
      /\ UNCHANGED <<setup, wire, sends>>
  BY DEF SetOutboundCipher
<1> HIDE DEF q
<1>5. PkOK' /\ pk'[s] = q /\ \A d \in Sides : d # s => pk'[d] = pk[d]
  BY <1>2, <1>4 DEF Typed, PkOK
<1>6. b = (tr[s].inKex /\ pk'[s].needRekey)
  BY <1>5
<1> HIDE DEF b
<1>7. x \in TransportStates
  BY <1>1, <1>3 DEF TransportStates
<1> HIDE DEF x
<1>8. TrOK' /\ Becomes(s, x) /\ ThOK' /\ Moved(s, "extinfo")
  BY <1>1, <1>4, <1>7, GotoFacts, TrReplaced
<1>9. Becomes(s, [tr[s] EXCEPT !.inKex = tr[s].inKex /\ pk'[s].needRekey])
  BY <1>6, <1>8 DEF x
<1> QED
  BY <1>4, <1>5, <1>8, <1>9, Untouched DEF Typed, q

\* The end of _activate_outbound.
LEMMA ExpectNewKeysDoes ==
    ASSUME Typed, NEW s \in Sides, ExpectNewKeys(s)
    PROVE  /\ Typed' /\ th[s].pc = "extinfo" /\ Finished(s)
           /\ Becomes(s, [tr[s] EXCEPT !.expected = {"newkeys"}])
           /\ IF s = "server" THEN Emitted(s, "extinfo", NoKey) ELSE UNCHANGED <<pk, wire>>
           /\ UNCHANGED setup
<1> DEFINE x == [tr[s] EXCEPT !.expected = {"newkeys"}]
<1>1. "extinfo" \in Kinds /\ "newkeys" \in Kinds /\ NoKey \in Keys /\ tr[s] \in TransportStates
  BY NoPacketFacts DEF Kinds, Typed, TrOK
<1>2. x \in TransportStates
  BY <1>1 DEF TransportStates
<1>3. /\ IF s = "server" THEN Emit(s, "extinfo", NoKey) ELSE UNCHANGED <<pk, wire>>
      /\ tr' = [tr EXCEPT ![s] = x] /\ th' = Finish(s) /\ th[s].pc = "extinfo"
      /\ UNCHANGED <<setup, sends>>
  BY DEF ExpectNewKeys
<1> HIDE DEF x
<1>4. TrOK' /\ Becomes(s, x) /\ ThOK' /\ Finished(s)
  BY <1>2, <1>3, TrReplaced, FinishFacts
<1>5. /\ WireOK' /\ PkOK'
      /\ IF s = "server" THEN Emitted(s, "extinfo", NoKey) ELSE UNCHANGED <<pk, wire>>
  BY <1>1, <1>3, EmitFacts, Untouched
<1> QED
  BY <1>3, <1>4, <1>5, Untouched DEF Typed, x

\* _parse_newkeys: the exchange is forgotten.
LEMMA ParseNewKeysDoes ==
    ASSUME Typed, NEW s \in Sides, ParseNewKeys(s)
    PROVE  /\ Typed' /\ th[s].pc = "newkeysin" /\ Moved(s, "reopen")
           /\ tr'[s].initialDone /\ tr'[s].expected = tr[s].expected /\ tr'[s].inits = tr[s].inits
           /\ tr'[s].H = tr[s].H /\ tr'[s].sessionId = tr[s].sessionId
           /\ tr'[s].local = 0 /\ tr'[s].clear = tr[s].clear /\ tr'[s].active = tr[s].active
           /\ SameOut(pk[s], pk'[s]) /\ pk'[s].keyIn = tr[s].H /\ (pk'[s].needRekey => pk[s].needRekey)
           /\ \A d \in Sides : d # s => tr'[d] = tr[d] /\ pk'[d] = pk[d]
           /\ UNCHANGED <<setup, wire>>
<1> DEFINE r == SetInbound(pk[s], tr[s].H)
<1> DEFINE n == IF tr[s].strict THEN 0 ELSE r.seqIn
<1> DEFINE q == [r EXCEPT !.seqIn = n]
<1> DEFINE x == [tr[s] EXCEPT !.local = 0, !.remote = 0, !.initialDone = TRUE, !.completion = TRUE]
<1>1. s \in Threads /\ "reopen" \in Places /\ pk[s] \in PacketizerStates /\ tr[s] \in TransportStates
  BY HomeFacts DEF Places, Typed, PkOK, TrOK
<1>2. /\ r \in PacketizerStates /\ SameOut(pk[s], r) /\ r.keyIn = tr[s].H
      /\ r.needRekey => pk[s].needRekey
  BY <1>1, InboundFacts DEF TransportStates
<1>3. /\ pk' = [pk EXCEPT ![s] = q] /\ tr' = [tr EXCEPT ![s] = x] /\ Goto(s, "reopen")
      /\ UNCHANGED <<setup, wire, sends>> /\ th[s].pc = "newkeysin"
  BY DEF ParseNewKeys
<1> HIDE DEF r
<1>4. n \in Nat
  BY <1>2 DEF PacketizerStates
<1> HIDE DEF n
<1>5. q \in PacketizerStates /\ SameOut(r, q) /\ q.keyIn = r.keyIn /\ q.needRekey = r.needRekey
  BY <1>2, <1>4 DEF PacketizerStates, SameOut
<1> HIDE DEF q
<1>6. /\ x \in TransportStates /\ x.initialDone /\ x.expected = tr[s].expected /\ x.inits = tr[s].inits
      /\ x.H = tr[s].H /\ x.sessionId = tr[s].sessionId
      /\ x.local = 0 /\ x.clear = tr[s].clear /\ x.active = tr[s].active
  <2>1. ASSUME NEW a \in BOOLEAN, NEW b \in BOOLEAN
        PROVE  LET y == [tr[s] EXCEPT !.local = 0, !.remote = 0, !.initialDone = a, !.completion = b]
               IN /\ y \in TransportStates /\ y.initialDone = a /\ y.expected = tr[s].expected
                  /\ y.inits = tr[s].inits /\ y.H = tr[s].H /\ y.sessionId = tr[s].sessionId
                  /\ y.local = 0 /\ y.clear = tr[s].clear /\ y.active = tr[s].active
    BY <1>1 DEF TransportStates
  <2>2. TRUE \in BOOLEAN
    OBVIOUS
  <2> QED
    BY <2>1, <2>2
<1> HIDE DEF x
<1>7. PkOK' /\ pk'[s] = q /\ \A d \in Sides : d # s => pk'[d] = pk[d]
  BY <1>3, <1>5 DEF Typed, PkOK
<1>9. SameOut(pk[s], pk'[s]) /\ pk'[s].keyIn = tr[s].H /\ (pk'[s].needRekey => pk[s].needRekey)
  BY <1>2, <1>5, <1>7 DEF SameOut
<1>8. TrOK' /\ Becomes(s, x) /\ ThOK' /\ Moved(s, "reopen")
  BY <1>1, <1>3, <1>6, GotoFacts, TrReplaced
<1> QED
  BY <1>3, <1>6, <1>7, <1>8, <1>9, Untouched DEF Typed, Becomes

\* The end of _parse_newkeys.
LEMMA ReopenTrafficDoes ==
    ASSUME Typed, NEW s \in Sides, ReopenTraffic(s)
    PROVE  /\ Typed' /\ th[s].pc = "reopen" /\ Finished(s)
           /\ tr'[s].initialDone = tr[s].initialDone /\ tr'[s].expected = tr[s].expected
           /\ tr'[s].inits = tr[s].inits /\ tr'[s].remote = tr[s].remote
           /\ tr'[s].H = tr[s].H /\ tr'[s].sessionId = tr[s].sessionId
           /\ tr'[s].local = tr[s].local /\ SameLife(tr[s], tr'[s])
           /\ \A d \in Sides : d # s => tr'[d] = tr[d]
           /\ UNCHANGED <<setup, pk, wire>>
<1> DEFINE b == tr[s].inKex /\ pk[s].needRekey
<1> DEFINE x == [tr[s] EXCEPT !.inKex = b, !.clear = TRUE]
<1>1. tr[s] \in TransportStates
  BY DEF Typed, TrOK
<1>2. b \in BOOLEAN
  BY <1>1 DEF TransportStates
<1>3. /\ tr' = [tr EXCEPT ![s] = x] /\ th' = Finish(s) /\ UNCHANGED <<setup, pk, wire, sends>>
      /\ th[s].pc = "reopen"
  BY DEF ReopenTraffic
<1> HIDE DEF b
<1>4. /\ x \in TransportStates /\ x.initialDone = tr[s].initialDone /\ x.expected = tr[s].expected
      /\ x.inits = tr[s].inits /\ x.remote = tr[s].remote
      /\ x.H = tr[s].H /\ x.sessionId = tr[s].sessionId
      /\ x.local = tr[s].local /\ SameLife(tr[s], x)
  <2>1. ASSUME NEW a \in BOOLEAN
        PROVE  LET y == [tr[s] EXCEPT !.inKex = b, !.clear = a]
               IN /\ y \in TransportStates /\ y.initialDone = tr[s].initialDone
                  /\ y.expected = tr[s].expected /\ y.inits = tr[s].inits /\ y.remote = tr[s].remote
                  /\ y.H = tr[s].H /\ y.sessionId = tr[s].sessionId
                  /\ y.local = tr[s].local /\ SameLife(tr[s], y)
    BY <1>1, <1>2 DEF TransportStates, SameLife
  <2>2. TRUE \in BOOLEAN
    OBVIOUS
  <2> QED
    BY <2>1, <2>2
<1> HIDE DEF x
<1>5. TrOK' /\ Becomes(s, x) /\ ThOK' /\ Finished(s)
  BY <1>3, <1>4, TrReplaced, FinishFacts
<1> QED
  BY <1>3, <1>4, <1>5, Untouched DEF Typed, Becomes

-----------------------------------------------------------------------------
(* Types                                                                    *)

\* The first states are typed.
LEMMA InitTyped == Init => Typed
<1> SUFFICES ASSUME Init PROVE Typed
  OBVIOUS
<1>1. NoKey \in Keys /\ NoPacket \in Packets /\ {"kexinit"} \in SUBSET Kinds
  BY NoPacketFacts DEF Kinds
<1>2. TrOK
  <2>1. ASSUME NEW a \in BOOLEAN, NEW b \in BOOLEAN
        PROVE  [active |-> a, clear |-> b, inKex |-> b, local |-> 0, remote |-> 0,
                inits |-> 0, strict |-> b, initialDone |-> b, expected |-> {"kexinit"},
                H |-> NoKey, sessionId |-> NoKey, completion |-> b] \in TransportStates
    BY <1>1 DEF TransportStates
  <2>2. TRUE \in BOOLEAN /\ FALSE \in BOOLEAN
    OBVIOUS
  <2> QED
    BY <2>1, <2>2 DEF Init, TrOK
<1>3. PkOK
  <2>1. ASSUME NEW b \in BOOLEAN
        PROVE  [keyOut |-> NoKey, keyIn |-> NoKey, seqOut |-> 0, seqIn |-> 0, sent |-> 0,
                received |-> 0, overflow |-> 0, needRekey |-> b, initCount |-> 0, spent |-> 0]
                   \in PacketizerStates
    BY <1>1 DEF PacketizerStates
  <2>2. FALSE \in BOOLEAN
    OBVIOUS
  <2> QED
    BY <2>1, <2>2 DEF Init, PkOK
<1>4. ThOK
  <2>1. ASSUME NEW place \in {"clear", "idle"}, NEW b \in BOOLEAN
        PROVE  [pc |-> place, init |-> 0, msg |-> NoPacket, handling |-> b, before |-> NoKey] \in ThreadStates
    BY <1>1 DEF ThreadStates, Places
  <2>2. FALSE \in BOOLEAN
    OBVIOUS
  <2> QED
    BY <2>1, <2>2 DEF Init, ThOK
<1>5. WireOK /\ SendsOK /\ setup \in Setups
  BY KexAssumption DEF Init, WireOK, SendsOK
<1> QED
  BY <1>2, <1>3, <1>4, <1>5 DEF Typed

\* Every step keeps the types.
LEMMA NextTyped == Typed /\ [Next]_vars => Typed'
<1> SUFFICES ASSUME Typed, [Next]_vars PROVE Typed'
  OBVIOUS
<1>1. CASE UNCHANGED vars
  BY <1>1, Untouched DEF vars, Typed
<1>2. ASSUME NEW t \in Threads, ClearToSend(t) \/ LocalKexInit(t) \/ SendKexInit(t) PROVE Typed'
  BY <1>2, ClearToSendDoes, LocalKexInitDoes, SendKexInitDoes
<1>3. ASSUME NEW u \in Users, RenegotiateKeys(u) \/ UserRuns(u) PROVE Typed'
  <2>1. u \in Threads
    BY HomeFacts
  <2> QED
    BY <1>2, <1>3, <2>1, RenegotiateKeysDoes, MovesDo DEF UserRuns
<1>4. ASSUME NEW s \in Sides, TransportRuns(s) PROVE Typed'
  <2>1. s \in Threads
    BY HomeFacts
  <2>2. CASE ClearToSend(s) \/ LocalKexInit(s) \/ SendKexInit(s)
    BY <1>2, <2>1, <2>2
  <2>3. CASE CheckRekey(s) \/ ReadInterrupted(s) \/ ReadMessage(s) \/ ReadRaises(s) \/ EndOfStream(s)
    BY <2>3, MovesDo, ReadMessageDoes, EndsDo
  <2>4. CASE Answer(s) \/ Reply(s) \/ ReplyTimesOut(s) \/ NegotiateKeys(s) \/ ParseKexInit(s)
    BY <2>4, AnswersDo, EndsDo, NegotiateKeysDoes, ParseKexInitDoes
  <2>5. CASE ParseKexdhInit(s) \/ ParseKexdhReply(s) \/ SendNewKeys(s) \/ ResetSeqnoOut(s)
    BY <2>5, KexdhDo, SendNewKeysDoes, ResetSeqnoOutDoes
  <2>6. CASE SetOutboundCipher(s) \/ ExpectNewKeys(s) \/ ParseNewKeys(s) \/ ReopenTraffic(s)
    BY <2>6, SetOutboundCipherDoes, ExpectNewKeysDoes, ParseNewKeysDoes, ReopenTrafficDoes
  <2> QED
    BY <1>4, <2>2, <2>3, <2>4, <2>5, <2>6 DEF TransportRuns
<1>5. ASSUME NEW s \in Sides, NEW kind \in Traffic, SendUserMessage(s, kind) PROVE Typed'
  BY <1>5, SendUserMessageDoes
<1> QED
  BY <1>1, <1>3, <1>4, <1>5 DEF Next

\* Every state of two Transports, their packetizers and their threads has the types
\* of TypeOK, whatever the set-up.
THEOREM KexTypes == Spec => []TypeOK
<1>1. Typed => TypeOK
  BY DEF Typed, TrOK, PkOK, ThOK, WireOK, SendsOK, TypeOK
<1> QED
  BY InitTyped, NextTyped, <1>1, PTL DEF Spec

-----------------------------------------------------------------------------
(* What a transport thread expects, and what it has in hand                 *)

\* Where a transport thread is that expects a certain message.
Waiting == {"clear", "local", "emit", "top", "reading", "dead"}

\* _expect_packet: only the message the exchange needs next.
Expectations(s) == {{}, {"kexinit"}, {"newkeys"}, IF s = "client" THEN {"dhreply"} ELSE {"dhinit"}}

\* A thread that expects something handles nothing; the handlers of the exchange
\* have the message they are for in hand.
Waits(s) ==
    /\ tr[s].expected \in Expectations(s)
    /\ tr[s].expected # {} => th[s].pc \in Waiting /\ ~th[s].handling
    /\ th[s].handling /\ th[s].pc \in {"negotiate", "clear", "local", "emit", "parse"}
          => th[s].msg.kind = "kexinit"
    /\ th[s].pc \in {"negotiate", "parse"} => th[s].handling
    /\ th[s].pc \in {"top", "reading"} => ~th[s].handling
    /\ th[s].pc = "dh" => th[s].msg.kind = (IF s = "client" THEN "dhreply" ELSE "dhinit")

AllWait == \A s \in Sides : Waits(s)

\* What a step may leave of a Transport: the exchange, its KEXINITs, its gates.
SameExchange(x, y) ==
    /\ y.expected = x.expected /\ y.H = x.H /\ y.sessionId = x.sessionId
    /\ y.remote = x.remote /\ y.initialDone = x.initialDone
SameInits(x, y) == y.local = x.local /\ y.inits = x.inits
SameGates(x, y) == y.clear = x.clear /\ y.inKex = x.inKex

\* The fields that the actions of _send_kex_init and of renegotiate_keys write.
LEMMA SenderFields ==
    ASSUME NEW x \in TransportStates, NEW y
    PROVE  /\ y = [x EXCEPT !.clear = FALSE, !.inKex = TRUE] =>
                SameExchange(x, y) /\ SameInits(x, y) /\ SameLife(x, y) /\ ~y.clear /\ y.inKex
           /\ \A n \in Nat : y = [x EXCEPT !.local = n, !.inits = n] =>
                SameExchange(x, y) /\ SameGates(x, y) /\ SameLife(x, y) /\ y.local = n /\ y.inits = n
           /\ y = [x EXCEPT !.completion = FALSE] =>
                /\ SameExchange(x, y) /\ SameInits(x, y) /\ SameGates(x, y)
                /\ y.active = x.active /\ ~y.completion
<1>1. ASSUME NEW a \in BOOLEAN, NEW b \in BOOLEAN, y = [x EXCEPT !.clear = a, !.inKex = b]
      PROVE  SameExchange(x, y) /\ SameInits(x, y) /\ SameLife(x, y) /\ y.clear = a /\ y.inKex = b
  BY <1>1 DEF TransportStates, SameExchange, SameInits, SameLife
<1>2. ASSUME NEW n \in Nat, y = [x EXCEPT !.local = n, !.inits = n]
      PROVE  SameExchange(x, y) /\ SameGates(x, y) /\ SameLife(x, y) /\ y.local = n /\ y.inits = n
  BY <1>2 DEF TransportStates, SameExchange, SameGates, SameLife
<1>3. ASSUME NEW a \in BOOLEAN, y = [x EXCEPT !.completion = a]
      PROVE  /\ SameExchange(x, y) /\ SameInits(x, y) /\ SameGates(x, y)
             /\ y.active = x.active /\ y.completion = a
  BY <1>3 DEF TransportStates, SameExchange, SameInits, SameGates
<1>4. FALSE \in BOOLEAN /\ TRUE \in BOOLEAN
  OBVIOUS
<1>5. ASSUME y = [x EXCEPT !.clear = FALSE, !.inKex = TRUE]
      PROVE  SameExchange(x, y) /\ SameInits(x, y) /\ SameLife(x, y) /\ ~y.clear /\ y.inKex
  BY <1>1, <1>4, <1>5
<1>6. ASSUME y = [x EXCEPT !.completion = FALSE]
      PROVE  /\ SameExchange(x, y) /\ SameInits(x, y) /\ SameGates(x, y)
             /\ y.active = x.active /\ ~y.completion
  BY <1>3, <1>4, <1>6
<1> QED
  BY <1>2, <1>5, <1>6

Steady(s) == SameExchange(tr[s], tr'[s])

\* Only the Transport of s may have changed.
OnlyTr(s) == \A d \in Sides : d # s => tr'[d] = tr[d]

\* What _send_kex_init and renegotiate_keys write, whoever runs them.
LEMMA SendersWrite ==
    ASSUME Typed, NEW t \in Threads
    PROVE  /\ ClearToSend(t) =>
                /\ OnlyTr(Home(t)) /\ Steady(Home(t)) /\ SameInits(tr[Home(t)], tr'[Home(t)])
                /\ SameLife(tr[Home(t)], tr'[Home(t)]) /\ ~tr'[Home(t)].clear /\ tr'[Home(t)].inKex
           /\ LocalKexInit(t) =>
                /\ OnlyTr(Home(t)) /\ Steady(Home(t)) /\ SameGates(tr[Home(t)], tr'[Home(t)])
                /\ SameLife(tr[Home(t)], tr'[Home(t)])
                /\ tr'[Home(t)].local = tr[Home(t)].inits + 1 /\ tr'[Home(t)].inits = tr[Home(t)].inits + 1
           /\ t \in Users /\ RenegotiateKeys(t) =>
                /\ OnlyTr(Home(t)) /\ Steady(Home(t)) /\ SameInits(tr[Home(t)], tr'[Home(t)])
                /\ SameGates(tr[Home(t)], tr'[Home(t)])
                /\ tr'[Home(t)].active = tr[Home(t)].active /\ ~tr'[Home(t)].completion
<1> DEFINE s == Home(t)
<1>1. s \in Sides /\ tr[s] \in TransportStates
  BY HomeFacts DEF Typed, TrOK
<1>2. ASSUME ClearToSend(t)
      PROVE  /\ OnlyTr(s) /\ Steady(s) /\ SameInits(tr[s], tr'[s])
             /\ SameLife(tr[s], tr'[s]) /\ ~tr'[s].clear /\ tr'[s].inKex
  <2>1. tr'[s] = [tr[s] EXCEPT !.clear = FALSE, !.inKex = TRUE] /\ OnlyTr(s)
    BY <1>2, ClearToSendDoes DEF Becomes, OnlyTr
  <2> QED
    BY <1>1, <2>1, SenderFields DEF Steady
<1>3. ASSUME LocalKexInit(t)
      PROVE  /\ OnlyTr(s) /\ Steady(s) /\ SameGates(tr[s], tr'[s])
             /\ SameLife(tr[s], tr'[s])
             /\ tr'[s].local = tr[s].inits + 1 /\ tr'[s].inits = tr[s].inits + 1
  <2> DEFINE n == tr[s].inits + 1
  <2>1. tr'[s] = [tr[s] EXCEPT !.local = n, !.inits = n] /\ n \in Nat /\ OnlyTr(s)
    BY <1>3, LocalKexInitDoes DEF Becomes, OnlyTr
  <2> HIDE DEF n
  <2>2. /\ Steady(s) /\ SameGates(tr[s], tr'[s]) /\ SameLife(tr[s], tr'[s])
        /\ tr'[s].local = n /\ tr'[s].inits = n
    BY <1>1, <2>1, SenderFields DEF Steady
  <2> QED
    BY <2>1, <2>2 DEF n
<1>4. ASSUME t \in Users, RenegotiateKeys(t)
      PROVE  /\ OnlyTr(s) /\ Steady(s) /\ SameInits(tr[s], tr'[s])
             /\ SameGates(tr[s], tr'[s])
             /\ tr'[s].active = tr[s].active /\ ~tr'[s].completion
  <2>1. s = SideOf[t]
    BY <1>4, HomeFacts
  <2>2. tr'[s] = [tr[s] EXCEPT !.completion = FALSE] /\ OnlyTr(s)
    BY <1>4, <2>1, RenegotiateKeysDoes DEF Becomes, OnlyTr
  <2> QED
    BY <1>1, <2>2, SenderFields DEF Steady
<1> QED
  BY <1>2, <1>3, <1>4

\* A user thread leaves the transport threads alone; it may send a KEXINIT.
LEMMA UserSteps ==
    ASSUME Typed, NEW u \in Users, RenegotiateKeys(u) \/ UserRuns(u)
    PROVE  /\ \A s \in Sides : th'[s] = th[s] /\ Steady(s)
           /\ \/ UNCHANGED <<pk, wire>>
              \/ th[u].pc = "emit" /\ Emitted(SideOf[u], "kexinit", <<th[u].init, 0>>)
           /\ UNCHANGED setup
<1>1. u \in Threads /\ Home(u) = SideOf[u] /\ SideOf[u] \in Sides /\ u \notin Sides
      /\ (\A s \in Sides : s \in Threads)
  BY HomeFacts
<1>2. ASSUME OnlyTr(SideOf[u]), Steady(SideOf[u]) PROVE \A s \in Sides : Steady(s)
  BY <1>2 DEF Steady, SameExchange, OnlyTr
<1>3. ASSUME Others(u) PROVE \A s \in Sides : th'[s] = th[s]
  BY <1>1, <1>3 DEF Others
<1>4. CASE ClearToSend(u)
  BY <1>1, <1>2, <1>3, <1>4, ClearToSendDoes, SendersWrite DEF Moved
<1>5. CASE LocalKexInit(u)
  BY <1>1, <1>2, <1>3, <1>5, LocalKexInitDoes, SendersWrite
<1>6. CASE RenegotiateKeys(u)
  BY <1>1, <1>2, <1>3, <1>6, RenegotiateKeysDoes, SendersWrite
<1>7. ASSUME UNCHANGED tr PROVE \A s \in Sides : Steady(s)
  BY <1>7 DEF Steady, SameExchange
<1>8. CASE SendKexInit(u)
  BY <1>1, <1>3, <1>7, <1>8, SendKexInitDoes DEF Moved
<1>9. CASE \/ SendKexInitFails(u) \/ RenegotiateRaises(u)
         \/ RenegotiateFindsActive(u) \/ RenegotiateReturns(u)
  BY <1>1, <1>3, <1>7, <1>9, MovesDo DEF Moved
<1> QED
  BY <1>4, <1>5, <1>6, <1>8, <1>9 DEF UserRuns

\* What the loop of run and the handlers write.
LEMMA HandlersWrite ==
    ASSUME Typed, NEW s \in Sides
    PROVE  /\ ReadMessage(s) =>
                /\ OnlyTr(s) /\ tr'[s].expected = {} /\ tr'[s].H = tr[s].H
                /\ tr'[s].sessionId = tr[s].sessionId /\ tr'[s].remote = tr[s].remote
                /\ tr'[s].initialDone = tr[s].initialDone
                /\ SameInits(tr[s], tr'[s]) /\ SameGates(tr[s], tr'[s]) /\ SameLife(tr[s], tr'[s])
           /\ NegotiateKeys(s) =>
                /\ OnlyTr(s) /\ Steady(s) /\ SameInits(tr[s], tr'[s]) /\ SameLife(tr[s], tr'[s])
                /\ ~tr'[s].clear /\ tr'[s].inKex = tr[s].inKex
           /\ ParseKexInit(s) =>
                /\ OnlyTr(s) /\ tr'[s].expected = (IF s = "client" THEN {"dhreply"} ELSE {"dhinit"})
                /\ tr'[s].H = tr[s].H /\ tr'[s].sessionId = tr[s].sessionId
                /\ tr'[s].remote = th[s].msg.val[1] /\ tr'[s].initialDone = tr[s].initialDone
                /\ SameInits(tr[s], tr'[s]) /\ SameGates(tr[s], tr'[s]) /\ SameLife(tr[s], tr'[s])
           /\ SetOutboundCipher(s) =>
                /\ OnlyTr(s) /\ Steady(s) /\ SameInits(tr[s], tr'[s]) /\ SameLife(tr[s], tr'[s])
                /\ tr'[s].clear = tr[s].clear /\ tr'[s].inKex = (tr[s].inKex /\ pk'[s].needRekey)
           /\ ExpectNewKeys(s) =>
                /\ OnlyTr(s) /\ tr'[s].expected = {"newkeys"} /\ tr'[s].H = tr[s].H
                /\ tr'[s].sessionId = tr[s].sessionId /\ tr'[s].remote = tr[s].remote
                /\ tr'[s].initialDone = tr[s].initialDone
                /\ SameInits(tr[s], tr'[s]) /\ SameGates(tr[s], tr'[s]) /\ SameLife(tr[s], tr'[s])
<1>1. tr[s] \in TransportStates /\ {} \in SUBSET Kinds /\ {"newkeys"} \in SUBSET Kinds
  BY DEF Typed, TrOK, Kinds
<1>2. ASSUME NEW e \in SUBSET Kinds, Becomes(s, [tr[s] EXCEPT !.expected = e])
      PROVE  /\ OnlyTr(s) /\ tr'[s].expected = e /\ tr'[s].H = tr[s].H
             /\ tr'[s].sessionId = tr[s].sessionId /\ tr'[s].remote = tr[s].remote
             /\ tr'[s].initialDone = tr[s].initialDone
             /\ SameInits(tr[s], tr'[s]) /\ SameGates(tr[s], tr'[s]) /\ SameLife(tr[s], tr'[s])
  <2>1. tr'[s] = [tr[s] EXCEPT !.expected = e] /\ OnlyTr(s)
    BY <1>2 DEF Becomes, OnlyTr
  <2> QED
    BY <1>1, <2>1 DEF TransportStates, SameInits, SameGates, SameLife
<1>3. ASSUME ReadMessage(s) PROVE Becomes(s, [tr[s] EXCEPT !.expected = {}])
  BY <1>3, ReadMessageDoes
<1>4. ASSUME ExpectNewKeys(s) PROVE Becomes(s, [tr[s] EXCEPT !.expected = {"newkeys"}])
  BY <1>4, ExpectNewKeysDoes
<1>5. ASSUME NegotiateKeys(s)
      PROVE  /\ OnlyTr(s) /\ Steady(s) /\ SameInits(tr[s], tr'[s]) /\ SameLife(tr[s], tr'[s])
             /\ ~tr'[s].clear /\ tr'[s].inKex = tr[s].inKex
  <2>1. tr'[s] = [tr[s] EXCEPT !.clear = FALSE] /\ OnlyTr(s)
    BY <1>5, NegotiateKeysDoes DEF Becomes, OnlyTr
  <2>2. ASSUME NEW b \in BOOLEAN, tr'[s] = [tr[s] EXCEPT !.clear = b]
        PROVE  /\ Steady(s) /\ SameInits(tr[s], tr'[s]) /\ SameLife(tr[s], tr'[s])
               /\ tr'[s].clear = b /\ tr'[s].inKex = tr[s].inKex
    BY <1>1, <2>2 DEF TransportStates, SameInits, Steady, SameExchange, SameLife
  <2>3. FALSE \in BOOLEAN
    OBVIOUS
  <2> QED
    BY <2>1, <2>2, <2>3
<1>6. ASSUME ParseKexInit(s)
      PROVE  /\ OnlyTr(s) /\ tr'[s].expected = (IF s = "client" THEN {"dhreply"} ELSE {"dhinit"})
             /\ tr'[s].H = tr[s].H /\ tr'[s].sessionId = tr[s].sessionId
             /\ tr'[s].remote = th[s].msg.val[1] /\ tr'[s].initialDone = tr[s].initialDone
             /\ SameInits(tr[s], tr'[s]) /\ SameGates(tr[s], tr'[s]) /\ SameLife(tr[s], tr'[s])
  <2> DEFINE n == th[s].msg.val[1]
  <2> DEFINE b == AgreedStrict(s)
  <2> DEFINE e == IF s = "client" THEN {"dhreply"} ELSE {"dhinit"}
  <2>1. tr'[s] = [tr[s] EXCEPT !.remote = n, !.strict = b, !.expected = e] /\ OnlyTr(s) /\ Typed'
    BY <1>6, ParseKexInitDoes DEF Becomes, OnlyTr
  <2>2. e \in SUBSET Kinds /\ th[s] \in ThreadStates /\ tr'[s] \in TransportStates
    BY <2>1, HomeFacts DEF Kinds, Typed, ThOK, TrOK
  <2>3. n \in Nat
    BY <2>2 DEF ThreadStates, Packets, Keys
  <2> HIDE DEF n, b, e
  <2>4. b \in BOOLEAN
    BY <1>1, <2>1, <2>2 DEF TransportStates
  <2>5. /\ tr'[s].expected = e /\ tr'[s].H = tr[s].H /\ tr'[s].sessionId = tr[s].sessionId
        /\ tr'[s].remote = n /\ tr'[s].initialDone = tr[s].initialDone
        /\ SameInits(tr[s], tr'[s]) /\ SameGates(tr[s], tr'[s]) /\ SameLife(tr[s], tr'[s])
    BY <1>1, <2>1, <2>2, <2>3, <2>4 DEF TransportStates, SameInits, SameGates, SameLife
  <2> QED
    BY <2>1, <2>5 DEF n, e
<1>7. ASSUME SetOutboundCipher(s)
      PROVE  /\ OnlyTr(s) /\ Steady(s) /\ SameInits(tr[s], tr'[s]) /\ SameLife(tr[s], tr'[s])
             /\ tr'[s].clear = tr[s].clear /\ tr'[s].inKex = (tr[s].inKex /\ pk'[s].needRekey)
  <2> DEFINE b == tr[s].inKex /\ pk'[s].needRekey
  <2>1. tr'[s] = [tr[s] EXCEPT !.inKex = b] /\ OnlyTr(s)
    BY <1>7, SetOutboundCipherDoes DEF Becomes, OnlyTr
  <2>2. b \in BOOLEAN
    BY <1>1 DEF TransportStates
  <2> HIDE DEF b
  <2>3. /\ Steady(s) /\ SameInits(tr[s], tr'[s]) /\ SameLife(tr[s], tr'[s])
        /\ tr'[s].clear = tr[s].clear /\ tr'[s].inKex = b
    BY <1>1, <2>1, <2>2 DEF TransportStates, SameInits, Steady, SameExchange, SameLife
  <2> QED
    BY <2>1, <2>3 DEF b
<1>8. ReadMessage(s) =>
                /\ OnlyTr(s) /\ tr'[s].expected = {} /\ tr'[s].H = tr[s].H
                /\ tr'[s].sessionId = tr[s].sessionId /\ tr'[s].remote = tr[s].remote
                /\ tr'[s].initialDone = tr[s].initialDone
                /\ SameInits(tr[s], tr'[s]) /\ SameGates(tr[s], tr'[s]) /\ SameLife(tr[s], tr'[s])
  BY <1>1, <1>2, <1>3
<1>9. ExpectNewKeys(s) =>
                /\ OnlyTr(s) /\ tr'[s].expected = {"newkeys"} /\ tr'[s].H = tr[s].H
                /\ tr'[s].sessionId = tr[s].sessionId /\ tr'[s].remote = tr[s].remote
                /\ tr'[s].initialDone = tr[s].initialDone
                /\ SameInits(tr[s], tr'[s]) /\ SameGates(tr[s], tr'[s]) /\ SameLife(tr[s], tr'[s])
  BY <1>1, <1>2, <1>4
<1> QED
  BY <1>5, <1>6, <1>7, <1>8, <1>9

\* A side whose thread and expectations stay as they are.
LEMMA WaitsKept ==
    ASSUME NEW s \in Sides, Waits(s), th'[s] = th[s], tr'[s].expected = tr[s].expected
    PROVE  Waits(s)'
  BY DEF Waits, Expectations

\* A side whose thread only moves, and sensibly.
LEMMA WaitsMoved ==
    ASSUME NEW s \in Sides, Waits(s), NEW place, Moved(s, place), tr'[s].expected = tr[s].expected,
           th[s].pc \in Waiting => place \in Waiting \cup {"parse"},
           th[s].pc \notin Waiting => place \notin Waiting \ {"clear", "dead"},
           place = "parse" => th[s].handling /\ th[s].pc \in {"emit", "negotiate"},
           place \in {"top", "reading"} => ~th[s].handling,
           place \in {"clear", "local", "emit"} /\ th[s].handling => th[s].pc \in {"negotiate", "clear", "local"},
           place \notin {"negotiate", "dh"}
    PROVE  Waits(s)'
  BY DEF Waits, Expectations, Moved, Waiting

\* A transport thread leaves the other threads and the other Transport alone.
LEMMA TransportAlone ==
    ASSUME Typed, NEW s \in Sides, TransportRuns(s)
    PROVE  OnlyTr(s) /\ Others(s)
<1>1. s \in Threads /\ Home(s) = s
  BY HomeFacts
<1>2. ASSUME UNCHANGED tr PROVE OnlyTr(s)
  BY <1>2 DEF OnlyTr
<1>3. CASE ClearToSend(s) \/ LocalKexInit(s) \/ SendKexInit(s)
  BY <1>1, <1>2, <1>3, ClearToSendDoes, LocalKexInitDoes, SendKexInitDoes, SendersWrite DEF Moved
<1>4. CASE CheckRekey(s) \/ ReadInterrupted(s)
  BY <1>2, <1>4, MovesDo DEF Moved
<1>5. CASE ReadMessage(s)
  BY <1>5, ReadMessageDoes, HandlersWrite
<1>6. CASE ReadRaises(s) \/ EndOfStream(s) \/ ReplyTimesOut(s)
  BY <1>6, EndsDo DEF Dies, OnlyTr, Moved
<1>7. CASE Answer(s) \/ Reply(s)
  BY <1>2, <1>7, AnswersDo DEF Finished
<1>8. CASE NegotiateKeys(s) \/ ParseKexInit(s)
  BY <1>8, NegotiateKeysDoes, ParseKexInitDoes, HandlersWrite DEF Moved, Finished
<1>9. CASE ParseKexdhInit(s) \/ ParseKexdhReply(s)
  BY <1>9, KexdhDo DEF Hashed, OnlyTr, Moved
<1>10. CASE SendNewKeys(s) \/ ResetSeqnoOut(s)
  BY <1>2, <1>10, SendNewKeysDoes, ResetSeqnoOutDoes DEF Moved
<1>11. CASE SetOutboundCipher(s) \/ ExpectNewKeys(s)
  BY <1>11, SetOutboundCipherDoes, ExpectNewKeysDoes, HandlersWrite DEF Moved, Finished
<1>12. CASE ParseNewKeys(s) \/ ReopenTraffic(s)
  BY <1>12, ParseNewKeysDoes, ReopenTrafficDoes DEF OnlyTr, Moved, Finished
<1> QED
  BY <1>3, <1>4, <1>5, <1>6, <1>7, <1>8, <1>9, <1>10, <1>11, <1>12 DEF TransportRuns

\* A handler that returns, expecting what the exchange needs next.
LEMMA WaitsFinished ==
    ASSUME NEW s \in Sides, Finished(s), tr'[s].expected \in Expectations(s)
    PROVE  Waits(s)'
  BY DEF Waits, Expectations, Finished, Waiting

\* A thread in a handler expects nothing.
LEMMA HandlerExpectsNothing ==
    ASSUME NEW s \in Sides, Waits(s), th[s].pc \notin Waiting
    PROVE  tr[s].expected = {}
  BY DEF Waits

\* Transport threads expect what they should.
LEMMA TransportWaits ==
    ASSUME Typed, NEW s \in Sides, Waits(s), TransportRuns(s)
    PROVE  Waits(s)'
<1>1. s \in Threads /\ Home(s) = s /\ s \notin Users
  BY HomeFacts
<1>2. Expectations(s)' = Expectations(s) /\ {} \in Expectations(s) /\ {"newkeys"} \in Expectations(s)
      /\ (IF s = "client" THEN {"dhreply"} ELSE {"dhinit"}) \in Expectations(s)
      /\ tr[s].expected \in Expectations(s)
  BY DEF Expectations, Waits
<1>3. CASE ClearToSend(s)
  <2>1. Moved(s, "local") /\ tr'[s].expected = tr[s].expected /\ th[s].pc = "clear"
    BY <1>1, <1>3, ClearToSendDoes, SendersWrite DEF Steady, SameExchange
  <2> QED
    BY <2>1, WaitsMoved DEF Waiting
<1>4. CASE LocalKexInit(s)
  <2>1. /\ th'[s].pc = "emit" /\ th'[s].msg = th[s].msg /\ th'[s].handling = th[s].handling
        /\ tr'[s].expected = tr[s].expected /\ th[s].pc = "local"
    BY <1>1, <1>4, LocalKexInitDoes, SendersWrite DEF Steady, SameExchange
  <2> QED
    BY <2>1 DEF Waits, Waiting, Expectations
<1>5. CASE SendKexInit(s)
  <2> DEFINE place == IF th[s].handling THEN "parse" ELSE "reading"
  <2>1. Moved(s, place) /\ UNCHANGED tr /\ th[s].pc = "emit"
    BY <1>1, <1>5, SendKexInitDoes
  <2> QED
    BY <2>1, WaitsMoved DEF Waiting
<1>6. CASE CheckRekey(s)
  <2> DEFINE place == IF pk[s].needRekey /\ ~tr[s].inKex THEN "clear" ELSE "reading"
  <2>1. Moved(s, place) /\ UNCHANGED tr /\ th[s].pc = "top"
    BY <1>6, MovesDo
  <2>2. place \in {"clear", "reading"}
    OBVIOUS
  <2> HIDE DEF place
  <2>3. ~th[s].handling
    BY <2>1 DEF Waits
  <2> QED
    BY <2>1, <2>2, <2>3, WaitsMoved DEF Waiting
<1>7. CASE ReadInterrupted(s)
  <2>1. Moved(s, "top") /\ UNCHANGED tr /\ th[s].pc = "reading" /\ ~th[s].handling
    BY <1>7, MovesDo DEF Waits
  <2> QED
    BY <2>1, WaitsMoved DEF Waiting
<1>8. CASE ReadMessage(s)
  <2> DEFINE p == Head(wire[Peer(s)])
  <2> DEFINE b == tr[s].expected # {}
  <2> DEFINE place == Handler(p.kind, b)
  <2>1. /\ tr'[s].expected = {} /\ th'[s].pc = place /\ th'[s].handling = (place # "top")
        /\ th'[s].msg = IF place = "top" THEN NoPacket ELSE p
        /\ tr[s].expected = {} \/ p.kind \in tr[s].expected
    BY <1>8, ReadMessageDoes, HandlersWrite
  <2>2. p.kind \in Kinds /\ b \in BOOLEAN
    BY <1>8, ReadMessageDoes DEF Taken, Packets
  <2>3. b => p.kind \in {"kexinit", "newkeys"} \/ p.kind = IF s = "client" THEN "dhreply" ELSE "dhinit"
    BY <2>1 DEF Waits, Expectations
  <2> HIDE DEF b, p
  <2>4. /\ place \in {"negotiate", "dh", "answer", "newkeysin", "reply", "top"}
        /\ place = "negotiate" => p.kind = "kexinit"
        /\ place = "dh" => p.kind \in {"dhinit", "dhreply"} /\ b
    BY <2>2, HandlerFacts DEF Kinds, Traffic
  <2> HIDE DEF place
  <2>5. place = "dh" => p.kind = IF s = "client" THEN "dhreply" ELSE "dhinit"
    BY <2>3, <2>4
  <2> QED
    BY <1>2, <2>1, <2>4, <2>5 DEF Waits
<1>9. CASE ReadRaises(s) \/ EndOfStream(s) \/ ReplyTimesOut(s)
  <2>1. Moved(s, "dead") /\ tr'[s].expected = tr[s].expected
    BY <1>9, EndsDo DEF Dies, SameKex
  <2> QED
    BY <2>1, WaitsMoved DEF Waiting
<1>10. CASE Answer(s) \/ Reply(s)
  BY <1>2, <1>10, AnswersDo, WaitsFinished
<1>11. CASE NegotiateKeys(s)
  <2> DEFINE place == IF tr[s].local = 0 THEN "clear" ELSE "parse"
  <2>1. Moved(s, place) /\ tr'[s].expected = tr[s].expected /\ th[s].pc = "negotiate" /\ th[s].handling
    BY <1>11, NegotiateKeysDoes, HandlersWrite DEF Steady, SameExchange, Waits
  <2>2. place \in {"clear", "parse"}
    OBVIOUS
  <2> HIDE DEF place
  <2> QED
    BY <2>1, <2>2, WaitsMoved DEF Waiting
<1>12. CASE ParseKexInit(s)
  BY <1>2, <1>12, ParseKexInitDoes, HandlersWrite, WaitsFinished
<1>13. CASE ParseKexdhInit(s) \/ ParseKexdhReply(s)
  <2>1. (Moved(s, "dead") \/ Moved(s, "newkeysout")) /\ tr'[s].expected = tr[s].expected /\ th[s].pc = "dh"
    BY <1>13, KexdhDo DEF Hashed, SameKex
  <2> QED
    BY <2>1, WaitsMoved DEF Waiting
<1>14. CASE SendNewKeys(s) \/ ResetSeqnoOut(s)
  <2>1. /\ Moved(s, "reset") \/ Moved(s, "cipher")
        /\ UNCHANGED tr /\ th[s].pc \in {"newkeysout", "reset"}
    BY <1>14, SendNewKeysDoes, ResetSeqnoOutDoes
  <2> QED
    BY <2>1, WaitsMoved DEF Waiting
<1>15. CASE SetOutboundCipher(s)
  <2>1. Moved(s, "extinfo") /\ tr'[s].expected = tr[s].expected /\ th[s].pc = "cipher"
    BY <1>15, SetOutboundCipherDoes, HandlersWrite DEF Steady, SameExchange
  <2> QED
    BY <2>1, WaitsMoved DEF Waiting
<1>16. CASE ExpectNewKeys(s)
  BY <1>2, <1>16, ExpectNewKeysDoes, HandlersWrite, WaitsFinished
<1>17. CASE ParseNewKeys(s)
  <2>1. Moved(s, "reopen") /\ tr'[s].expected = tr[s].expected /\ th[s].pc = "newkeysin"
    BY <1>17, ParseNewKeysDoes
  <2> QED
    BY <2>1, WaitsMoved DEF Waiting
<1>18. CASE ReopenTraffic(s)
  BY <1>2, <1>18, ReopenTrafficDoes, WaitsFinished
<1> QED
  BY <1>3, <1>4, <1>5, <1>6, <1>7, <1>8, <1>9, <1>10, <1>11, <1>12, <1>13, <1>14, <1>15, <1>16,
     <1>17, <1>18 DEF TransportRuns

\* The first states expect the KEXINIT.
LEMMA InitWaits == Init => AllWait
<1> SUFFICES ASSUME Init, NEW s \in Sides PROVE Waits(s)
  BY DEF AllWait
<1>1. s \in Threads
  BY HomeFacts
<1>2. tr[s].expected = {"kexinit"} /\ th[s].pc = "clear" /\ th[s].handling = FALSE
  BY <1>1 DEF Init
<1> QED
  BY <1>2 DEF Waits, Expectations, Waiting

\* Every step keeps what is expected in order.
LEMMA NextWaits == Typed /\ AllWait /\ [Next]_vars => AllWait'
<1> SUFFICES ASSUME Typed, AllWait, [Next]_vars, NEW d \in Sides PROVE Waits(d)'
  BY DEF AllWait
<1>1. Waits(d) /\ d \in Threads
  BY HomeFacts DEF AllWait
<1>2. CASE UNCHANGED vars
  BY <1>1, <1>2, WaitsKept DEF vars
<1>3. ASSUME NEW u \in Users, RenegotiateKeys(u) \/ UserRuns(u) PROVE Waits(d)'
  BY <1>1, <1>3, UserSteps, WaitsKept DEF Steady, SameExchange
<1>4. ASSUME NEW s \in Sides, TransportRuns(s) PROVE Waits(d)'
  <2>1. CASE d = s
    BY <1>1, <1>4, <2>1, TransportWaits
  <2>2. CASE d # s
    <3>1. th'[d] = th[d] /\ tr'[d] = tr[d]
      BY <1>1, <1>4, <2>2, TransportAlone DEF OnlyTr, Others
    <3> QED
      BY <1>1, <3>1, WaitsKept
  <2> QED
    BY <2>1, <2>2
<1>5. ASSUME NEW s \in Sides, NEW kind \in Traffic, SendUserMessage(s, kind) PROVE Waits(d)'
  BY <1>1, <1>5, SendUserMessageDoes, WaitsKept
<1> QED
  BY <1>2, <1>3, <1>4, <1>5 DEF Next

-----------------------------------------------------------------------------
(* The hash both sides have when NEWKEYS is accepted                        *)

\* A packet of kind k is on its way from s.
Out(s, k) == \E i \in Nat : On(s, k, i)

\* The client is between the hash and the NEWKEYS of its peer.
Switching == {"newkeysout", "reset", "cipher", "extinfo"}

\* The client waits for the server's part as long as its own is on its way or the
\* server's is; there is one of each at most.
DhInTurn ==
    /\ Out("client", "dhinit") \/ th["server"].pc = "dh" \/ Out("server", "dhreply")
          => tr["client"].expected = {"dhreply"}
    /\ \A i, j \in Nat : On("client", "dhinit", i) /\ On("client", "dhinit", j) => i = j
    /\ \A i, j \in Nat : On("server", "dhreply", i) /\ On("server", "dhreply", j) => i = j
    /\ th["server"].pc = "dh" => ~Out("client", "dhinit")
    /\ Out("client", "dhinit") \/ th["server"].pc = "dh" => ~Out("server", "dhreply")

\* The reply, on its way or in the client's hands, signs the server's hash.
ReplySigns ==
    /\ \A i \in Nat : On("server", "dhreply", i) => wire["server"][i].val = tr["server"].H
    /\ th["client"].pc = "dh" => th["client"].msg.val = tr["server"].H

\* A client that has verified the reply, and whoever has its NEWKEYS still to read,
\* has the hash of its peer.
HashesAgree ==
    /\ Out("client", "newkeys") =>
          /\ tr["client"].H = tr["server"].H
          /\ ~Out("server", "dhreply") /\ th["client"].pc # "dh" /\ th["server"].pc # "dh"
    /\ \A i, j \in Nat : On("client", "newkeys", j) /\ On("client", "dhinit", i) => j < i
    /\ th["client"].pc \in Switching \/ tr["client"].expected = {"newkeys"}
          => tr["client"].H = tr["server"].H

Exchange == DhInTurn /\ ReplySigns /\ HashesAgree

\* Nothing of this is touched.
CalmWires ==
    /\ \A i \in Nat : On("client", "dhinit", i)' <=> On("client", "dhinit", i)
    /\ \A i \in Nat : On("client", "newkeys", i)' <=> On("client", "newkeys", i)
    /\ \A i \in Nat : On("server", "dhreply", i)' <=> On("server", "dhreply", i)
    /\ \A i \in Nat : On("server", "dhreply", i) => wire'["server"][i].val = wire["server"][i].val
CalmThreads ==
    /\ th'["server"].pc = "dh" <=> th["server"].pc = "dh"
    /\ th'["client"].pc = "dh" <=> th["client"].pc = "dh"
    /\ th["client"].pc = "dh" => th'["client"].msg = th["client"].msg
    /\ th'["client"].pc \in Switching => th["client"].pc \in Switching
CalmHashes ==
    /\ tr'["client"].expected = tr["client"].expected
    /\ tr'["client"].H = tr["client"].H /\ tr'["server"].H = tr["server"].H

\* Such steps keep the invariant.
LEMMA ExchangeCalm == ASSUME Exchange, CalmWires, CalmThreads, CalmHashes PROVE Exchange'
<1>1. /\ Out("client", "dhinit")' <=> Out("client", "dhinit")
      /\ Out("client", "newkeys")' <=> Out("client", "newkeys")
      /\ Out("server", "dhreply")' <=> Out("server", "dhreply")
  BY DEF CalmWires, Out
<1>2. DhInTurn'
  BY <1>1 DEF Exchange, DhInTurn, CalmWires, CalmThreads, CalmHashes
<1>3. ReplySigns'
  BY <1>1 DEF Exchange, ReplySigns, CalmWires, CalmThreads, CalmHashes
<1>4. HashesAgree'
  BY <1>1 DEF Exchange, HashesAgree, CalmWires, CalmThreads, CalmHashes, Switching
<1> QED
  BY <1>2, <1>3, <1>4 DEF Exchange

\* Sending what is not part of this, or nothing.
LEMMA CalmSending ==
    /\ UNCHANGED wire => CalmWires
    /\ \A s \in Sides, kind \in Kinds, val \in Keys :
          /\ Emitted(s, kind, val)
          /\ s = "client" => kind \notin {"dhinit", "newkeys"}
          /\ s = "server" => kind # "dhreply"
          => CalmWires
<1>1. ASSUME UNCHANGED wire PROVE CalmWires
  BY <1>1 DEF CalmWires, On
<1>2. ASSUME NEW s \in Sides, NEW kind \in Kinds, NEW val \in Keys, Emitted(s, kind, val),
             s = "client" => kind \notin {"dhinit", "newkeys"},
             s = "server" => kind # "dhreply"
      PROVE  CalmWires
  <2>1. {"dhinit", "newkeys", "dhreply"} \subseteq Kinds
    BY DEF Kinds
  <2>2. CASE s = "client"
    <3>1. wire'["server"] = wire["server"]
      BY <1>2, <2>2 DEF Emitted, Sides
    <3>2. \A k \in {"dhinit", "newkeys"}, i \in Nat : On("client", k, i)' <=> On("client", k, i)
      BY <1>2, <2>1, <2>2 DEF Emitted
    <3>3. \A i \in Nat : On("server", "dhreply", i)' <=> On("server", "dhreply", i)
      BY <3>1 DEF On
    <3> QED
      BY <3>1, <3>2, <3>3 DEF CalmWires
  <2>3. CASE s = "server"
    <3>1. wire'["client"] = wire["client"]
      BY <1>2, <2>3 DEF Emitted, Sides
    <3>2. \A i \in Nat : On("server", "dhreply", i)' <=> On("server", "dhreply", i)
      BY <1>2, <2>1, <2>3 DEF Emitted
    <3>3. \A k \in {"dhinit", "newkeys"}, i \in Nat : On("client", k, i)' <=> On("client", k, i)
      BY <3>1 DEF On
    <3>4. \A i \in Nat : On("server", "dhreply", i) => wire'["server"][i].val = wire["server"][i].val
      BY <1>2, <2>3 DEF Emitted, On
    <3> QED
      BY <3>2, <3>3, <3>4 DEF CalmWires
  <2> QED
    BY <2>2, <2>3 DEF Sides
<1> QED
  BY <1>1, <1>2

\* A thread that moves between places that do not matter here.
LEMMA CalmMoving ==
    ASSUME NEW s \in Sides, Others(s), th[s].pc # "dh", th'[s].pc # "dh",
           th'[s].pc \in Switching => th[s].pc \in Switching
    PROVE  CalmThreads
<1>1. "client" \in Threads /\ "server" \in Threads
  BY HomeFacts DEF Sides
<1>2. CASE s = "client"
  BY <1>1, <1>2 DEF CalmThreads, Others
<1>3. CASE s = "server"
  BY <1>1, <1>3 DEF CalmThreads, Others
<1> QED
  BY <1>2, <1>3 DEF Sides

\* A Transport whose expectation and hash stay.
LEMMA CalmTransports ==
    /\ UNCHANGED tr => CalmHashes
    /\ \A s \in Sides :
          OnlyTr(s) /\ tr'[s].H = tr[s].H /\ (s = "client" => tr'[s].expected = tr[s].expected) => CalmHashes
  BY DEF CalmHashes, OnlyTr, Sides

\* A step of a user.
LEMMA UserExchange ==
    ASSUME Typed, Exchange, NEW u \in Users, RenegotiateKeys(u) \/ UserRuns(u)
    PROVE  Exchange'
<1>1. "client" \in Sides /\ "server" \in Sides /\ u \in Threads /\ SideOf[u] \in Sides
  BY HomeFacts DEF Sides
<1>2. CalmHashes
  BY <1>1, UserSteps DEF Steady, SameExchange, CalmHashes
<1>3. CalmThreads
  BY <1>1, UserSteps DEF CalmThreads
<1>4. CalmWires
  <2>1. <<th[u].init, 0>> \in Keys /\ "kexinit" \in Kinds
    BY <1>1 DEF Typed, ThOK, ThreadStates, Keys, Kinds
  <2> QED
    BY <1>1, <2>1, UserSteps, CalmSending
<1> QED
  BY <1>2, <1>3, <1>4, ExchangeCalm

\* Steps of a transport thread that have no part in the agreement.
LEMMA CalmSteps ==
    ASSUME Typed, Exchange, NEW s \in Sides,
           \/ ClearToSend(s) \/ LocalKexInit(s) \/ SendKexInit(s) \/ CheckRekey(s) \/ ReadInterrupted(s)
           \/ EndOfStream(s) \/ ReplyTimesOut(s) \/ Answer(s) \/ Reply(s) \/ NegotiateKeys(s)
           \/ ResetSeqnoOut(s) \/ SetOutboundCipher(s) \/ ParseNewKeys(s) \/ ReopenTraffic(s)
    PROVE  Exchange'
<1>1. s \in Threads /\ Home(s) = s /\ s \notin Users /\ NoKey \in Keys /\ {"kexinit", "answer"} \subseteq Kinds
  BY HomeFacts, NoPacketFacts DEF Kinds
<1>2. CASE ClearToSend(s) \/ LocalKexInit(s)
  <2>1. UNCHANGED wire /\ Others(s) /\ th[s].pc \in {"clear", "local"} /\ th'[s].pc \in {"local", "emit"}
    BY <1>1, <1>2, ClearToSendDoes, LocalKexInitDoes DEF Moved
  <2>2. OnlyTr(s) /\ tr'[s].H = tr[s].H /\ tr'[s].expected = tr[s].expected
    BY <1>1, <1>2, SendersWrite DEF Steady, SameExchange
  <2> QED
    BY <2>1, <2>2, CalmSending, CalmMoving, CalmTransports, ExchangeCalm DEF Switching
<1>3. CASE SendKexInit(s)
  <2>1. /\ UNCHANGED tr /\ Others(s) /\ th[s].pc = "emit" /\ th'[s].pc \in {"parse", "reading"}
        /\ Emitted(s, "kexinit", <<th[s].init, 0>>)
    BY <1>1, <1>3, SendKexInitDoes DEF Moved
  <2>2. <<th[s].init, 0>> \in Keys
    BY <1>1 DEF Typed, ThOK, ThreadStates, Keys
  <2> QED
    BY <1>1, <2>1, <2>2, CalmSending, CalmMoving, CalmTransports, ExchangeCalm DEF Switching
<1>4. CASE CheckRekey(s) \/ ReadInterrupted(s)
  <2>1. /\ UNCHANGED <<tr, wire>> /\ Others(s) /\ th[s].pc \in {"top", "reading"}
        /\ th'[s].pc \in {"clear", "reading", "top"}
    BY <1>4, MovesDo DEF Moved
  <2> QED
    BY <2>1, CalmSending, CalmMoving, CalmTransports, ExchangeCalm DEF Switching
<1>5. CASE EndOfStream(s) \/ ReplyTimesOut(s)
  <2>1. /\ UNCHANGED wire /\ Others(s) /\ th[s].pc \in {"reading", "reply"} /\ th'[s].pc = "dead"
        /\ OnlyTr(s) /\ tr'[s].H = tr[s].H /\ tr'[s].expected = tr[s].expected
    BY <1>5, EndsDo DEF Dies, Moved, SameKex, OnlyTr
  <2> QED
    BY <2>1, CalmSending, CalmMoving, CalmTransports, ExchangeCalm DEF Switching
<1>6. CASE Answer(s) \/ Reply(s)
  <2>1. /\ UNCHANGED tr /\ Others(s) /\ th[s].pc \in {"answer", "reply"} /\ th'[s].pc = "top"
        /\ Emitted(s, "answer", NoKey)
    BY <1>6, AnswersDo DEF Finished
  <2> QED
    BY <1>1, <2>1, CalmSending, CalmMoving, CalmTransports, ExchangeCalm DEF Switching
<1>7. CASE NegotiateKeys(s)
  <2>1. UNCHANGED wire /\ Others(s) /\ th[s].pc = "negotiate" /\ th'[s].pc \in {"clear", "parse"}
    BY <1>7, NegotiateKeysDoes DEF Moved
  <2>2. OnlyTr(s) /\ tr'[s].H = tr[s].H /\ tr'[s].expected = tr[s].expected
    BY <1>7, HandlersWrite DEF Steady, SameExchange
  <2> QED
    BY <2>1, <2>2, CalmSending, CalmMoving, CalmTransports, ExchangeCalm DEF Switching
<1>8. CASE ResetSeqnoOut(s)
  <2>1. UNCHANGED <<tr, wire>> /\ Others(s) /\ th[s].pc = "reset" /\ th'[s].pc = "cipher"
    BY <1>8, ResetSeqnoOutDoes DEF Moved
  <2> QED
    BY <2>1, CalmSending, CalmMoving, CalmTransports, ExchangeCalm DEF Switching
<1>9. CASE SetOutboundCipher(s)
  <2>1. UNCHANGED wire /\ Others(s) /\ th[s].pc = "cipher" /\ th'[s].pc = "extinfo"
    BY <1>9, SetOutboundCipherDoes DEF Moved
  <2>2. OnlyTr(s) /\ tr'[s].H = tr[s].H /\ tr'[s].expected = tr[s].expected
    BY <1>9, HandlersWrite DEF Steady, SameExchange
  <2> QED
    BY <2>1, <2>2, CalmSending, CalmMoving, CalmTransports, ExchangeCalm DEF Switching
<1>10. CASE ParseNewKeys(s) \/ ReopenTraffic(s)
  <2>1. /\ UNCHANGED wire /\ Others(s) /\ th[s].pc \in {"newkeysin", "reopen"} /\ th'[s].pc \in {"reopen", "top"}
        /\ OnlyTr(s) /\ tr'[s].H = tr[s].H /\ tr'[s].expected = tr[s].expected
    BY <1>10, ParseNewKeysDoes, ReopenTrafficDoes DEF Moved, Finished, OnlyTr
  <2> QED
    BY <2>1, CalmSending, CalmMoving, CalmTransports, ExchangeCalm DEF Switching
<1> QED
  BY <1>2, <1>3, <1>4, <1>5, <1>6, <1>7, <1>8, <1>9, <1>10

\* The client's part of the exchange.
LEMMA ClientExchange ==
    ASSUME Typed, AllWait, Exchange,
           \/ ParseKexInit("client") \/ ParseKexdhReply("client") \/ SendNewKeys("client")
           \/ ExpectNewKeys("client")
    PROVE  Exchange'
<1> DEFINE c == "client"
<1> DEFINE v == "server"
<1>1. c \in Sides /\ v \in Sides /\ c # v /\ c \in Threads /\ v \in Threads
      /\ {"dhinit", "newkeys", "dhreply"} \subseteq Kinds /\ Waits(c)
  BY HomeFacts DEF Sides, Kinds, AllWait
<1>2. ASSUME th[c].pc \notin Waiting
      PROVE  ~Out(c, "dhinit") /\ th[v].pc # "dh" /\ ~Out(v, "dhreply") /\ tr[c].expected = {}
  BY <1>1, <1>2, HandlerExpectsNothing DEF Exchange, DhInTurn
<1>3. CASE ParseKexInit(c)
  <2>1. th[c].pc = "parse" /\ Finished(c) /\ Emitted(c, "dhinit", NoKey)
    BY <1>1, <1>3, ParseKexInitDoes
  <2>2. OnlyTr(c) /\ tr'[c].expected = {"dhreply"} /\ tr'[c].H = tr[c].H
    BY <1>1, <1>3, HandlersWrite
  <2>3. ~Out(c, "dhinit") /\ th[v].pc # "dh" /\ ~Out(v, "dhreply")
    BY <1>2, <2>1 DEF Waiting
  <2>4. th'[v] = th[v] /\ th'[c].pc = "top" /\ tr'[v] = tr[v] /\ wire'[v] = wire[v]
    BY <1>1, <2>1, <2>2 DEF Finished, Others, OnlyTr, Emitted
  <2>5. ~Out(v, "dhreply")' /\ \A i \in Nat : ~On(v, "dhreply", i)'
    BY <2>3, <2>4 DEF Out, On
  <2> DEFINE n == Len(wire[c]) + 1
  <2>6. \A i \in Nat : On(c, "dhinit", i)' <=> i = n
    BY <1>1, <2>1, <2>3 DEF Emitted, Out
  <2>7. \A i \in Nat : On(c, "newkeys", i)' <=> On(c, "newkeys", i)
    BY <1>1, <2>1 DEF Emitted
  <2>8. Out(c, "newkeys")' <=> Out(c, "newkeys")
    BY <2>7 DEF Out
  <2>9. \A i \in Nat : On(c, "newkeys", i) => i < n
    <3>1. Len(wire[c]) \in Nat /\ \A i \in DOMAIN wire[c] : i <= Len(wire[c])
      BY <1>1, <2>1, LenProperties DEF Emitted, Typed, WireOK
    <3> QED
      BY <3>1 DEF On
  <2> HIDE DEF n
  <2>10. DhInTurn'
    BY <2>2, <2>3, <2>4, <2>5, <2>6 DEF DhInTurn
  <2>11. ReplySigns'
    BY <2>4, <2>5 DEF ReplySigns
  <2>12. HashesAgree'
    BY <2>2, <2>3, <2>4, <2>5, <2>6, <2>7, <2>8, <2>9 DEF Exchange, HashesAgree, Switching
  <2> QED
    BY <2>10, <2>11, <2>12 DEF Exchange
<1>4. CASE ParseKexdhReply(c)
  <2>1. /\ th[c].pc = "dh" /\ Hashed(c) /\ UNCHANGED wire /\ Others(c)
        /\ th'[c].pc = "dead" \/ (th'[c].pc = "newkeysout" /\ th[c].msg.val = Hash(c))
    BY <1>1, <1>4, KexdhDo DEF Moved
  <2>2. /\ ~Out(c, "dhinit") /\ th[v].pc # "dh" /\ ~Out(v, "dhreply") /\ tr[c].expected = {}
        /\ ~Out(c, "newkeys")
    BY <1>2, <2>1 DEF Waiting, Exchange, HashesAgree
  <2>3. th'[v] = th[v] /\ tr'[v] = tr[v] /\ tr'[c].expected = {} /\ tr'[c].H = Hash(c)
    BY <1>1, <2>1, <2>2 DEF Others, Hashed, SameKex
  <2>4. /\ ~Out(c, "dhinit")' /\ ~Out(v, "dhreply")' /\ ~Out(c, "newkeys")'
        /\ \A i \in Nat : ~On(c, "dhinit", i)' /\ ~On(v, "dhreply", i)' /\ ~On(c, "newkeys", i)'
    BY <2>1, <2>2 DEF Out, On
  <2>5. th[c].msg.val = tr[v].H
    BY <2>1 DEF Exchange, ReplySigns
  <2>6. DhInTurn' /\ ReplySigns'
    BY <2>1, <2>2, <2>3, <2>4 DEF DhInTurn, ReplySigns
  <2>7. HashesAgree'
    BY <2>1, <2>3, <2>4, <2>5 DEF HashesAgree, Switching
  <2> QED
    BY <2>6, <2>7 DEF Exchange
<1>5. CASE SendNewKeys(c)
  <2>1. /\ th[c].pc = "newkeysout" /\ th'[c].pc = "reset" /\ Others(c) /\ UNCHANGED tr
        /\ Emitted(c, "newkeys", NoKey)
    BY <1>1, <1>5, SendNewKeysDoes DEF Moved
  <2>2. ~Out(c, "dhinit") /\ th[v].pc # "dh" /\ ~Out(v, "dhreply")
    BY <1>2, <2>1 DEF Waiting
  <2>3. th'[v] = th[v] /\ wire'[v] = wire[v]
    BY <1>1, <2>1 DEF Others, Emitted
  <2>4. \A i \in Nat : On(c, "dhinit", i)' <=> On(c, "dhinit", i)
    BY <1>1, <2>1 DEF Emitted
  <2>5. /\ ~Out(c, "dhinit")' /\ ~Out(v, "dhreply")'
        /\ \A i \in Nat : ~On(c, "dhinit", i)' /\ ~On(v, "dhreply", i)'
    BY <2>2, <2>3, <2>4 DEF Out, On
  <2>6. DhInTurn' /\ ReplySigns'
    BY <2>1, <2>2, <2>3, <2>5 DEF DhInTurn, ReplySigns
  <2>7. HashesAgree'
    BY <2>1, <2>2, <2>3, <2>5 DEF Exchange, HashesAgree, Switching
  <2> QED
    BY <2>6, <2>7 DEF Exchange
<1>6. CASE ExpectNewKeys(c)
  <2>1. th[c].pc = "extinfo" /\ Finished(c) /\ UNCHANGED wire
    BY <1>1, <1>6, ExpectNewKeysDoes
  <2>2. OnlyTr(c) /\ tr'[c].expected = {"newkeys"} /\ tr'[c].H = tr[c].H
    BY <1>1, <1>6, HandlersWrite
  <2>3. ~Out(c, "dhinit") /\ th[v].pc # "dh" /\ ~Out(v, "dhreply")
    BY <1>2, <2>1 DEF Waiting
  <2>4. th'[v] = th[v] /\ th'[c].pc = "top" /\ tr'[v] = tr[v]
    BY <1>1, <2>1, <2>2 DEF Finished, Others, OnlyTr
  <2>5. /\ ~Out(c, "dhinit")' /\ ~Out(v, "dhreply")'
        /\ \A i \in Nat : ~On(c, "dhinit", i)' /\ ~On(v, "dhreply", i)'
    BY <2>1, <2>3 DEF Out, On
  <2>6. tr[c].H = tr[v].H
    BY <2>1 DEF Exchange, HashesAgree, Switching
  <2>7. DhInTurn' /\ ReplySigns'
    BY <2>3, <2>4, <2>5 DEF DhInTurn, ReplySigns
  <2>8. HashesAgree'
    BY <2>2, <2>3, <2>4, <2>5, <2>6 DEF HashesAgree, Switching
  <2> QED
    BY <2>7, <2>8 DEF Exchange
<1> QED
  BY <1>3, <1>4, <1>5, <1>6

\* The server's part of the exchange.
LEMMA ServerExchange ==
    ASSUME Typed, AllWait, Exchange,
           \/ ParseKexInit("server") \/ ParseKexdhInit("server") \/ SendNewKeys("server")
           \/ ExpectNewKeys("server")
    PROVE  Exchange'
<1> DEFINE c == "client"
<1> DEFINE v == "server"
<1>1. c \in Sides /\ v \in Sides /\ c # v /\ c \in Threads /\ v \in Threads /\ NoKey \in Keys
      /\ {"dhinit", "newkeys", "dhreply", "extinfo"} \subseteq Kinds /\ Waits(c)
  BY HomeFacts, NoPacketFacts DEF Sides, Kinds, AllWait
<1>2. CASE ParseKexInit(v)
  <2>1. th[v].pc = "parse" /\ Others(v) /\ th'[v].pc = "top" /\ UNCHANGED wire
    BY <1>1, <1>2, ParseKexInitDoes DEF Finished
  <2>2. OnlyTr(v) /\ tr'[v].H = tr[v].H
    BY <1>1, <1>2, HandlersWrite
  <2> QED
    BY <1>1, <2>1, <2>2, CalmSending, CalmMoving, CalmTransports, ExchangeCalm DEF Switching
<1>3. CASE SendNewKeys(v)
  <2>1. /\ th[v].pc = "newkeysout" /\ th'[v].pc = "reset" /\ Others(v) /\ UNCHANGED tr
        /\ Emitted(v, "newkeys", NoKey)
    BY <1>1, <1>3, SendNewKeysDoes DEF Moved
  <2> QED
    BY <1>1, <2>1, CalmSending, CalmMoving, CalmTransports, ExchangeCalm DEF Switching
<1>4. CASE ExpectNewKeys(v)
  <2>1. th[v].pc = "extinfo" /\ Others(v) /\ th'[v].pc = "top" /\ Emitted(v, "extinfo", NoKey)
    BY <1>1, <1>4, ExpectNewKeysDoes DEF Finished
  <2>2. OnlyTr(v) /\ tr'[v].H = tr[v].H
    BY <1>1, <1>4, HandlersWrite
  <2> QED
    BY <1>1, <2>1, <2>2, CalmSending, CalmMoving, CalmTransports, ExchangeCalm DEF Switching
<1>5. CASE ParseKexdhInit(v)
  <2>1. th[v].pc = "dh" /\ Hashed(v) /\ Others(v) /\ th'[v].pc = "newkeysout" /\ Emitted(v, "dhreply", Hash(v))
    BY <1>1, <1>5, KexdhDo DEF Moved
  <2>2. /\ tr[c].expected = {"dhreply"} /\ ~Out(c, "dhinit") /\ ~Out(v, "dhreply") /\ ~Out(c, "newkeys")
    BY <2>1 DEF Exchange, DhInTurn, HashesAgree
  <2>3. th[c].pc \in Waiting
    BY <1>1, <2>2 DEF Waits
  <2>4. th'[c] = th[c] /\ tr'[c] = tr[c] /\ tr'[v].H = Hash(v) /\ wire'[c] = wire[c]
    BY <1>1, <2>1 DEF Others, Hashed, Emitted
  <2>5. /\ ~Out(c, "dhinit")' /\ ~Out(c, "newkeys")'
        /\ \A i \in Nat : ~On(c, "dhinit", i)' /\ ~On(c, "newkeys", i)'
    BY <2>2, <2>4 DEF Out, On
  <2> DEFINE n == Len(wire[v]) + 1
  <2>6. \A i \in Nat : On(v, "dhreply", i)' <=> i = n
    BY <1>1, <2>1, <2>2 DEF Emitted, Out
  <2>7. wire'[v][n].val = Hash(v)
    BY <2>1 DEF Emitted
  <2> HIDE DEF n
  <2>8. DhInTurn'
    BY <2>1, <2>2, <2>4, <2>5, <2>6 DEF DhInTurn
  <2>9. ReplySigns'
    BY <2>3, <2>4, <2>6, <2>7 DEF ReplySigns, Waiting
  <2>10. HashesAgree'
    BY <2>2, <2>3, <2>4, <2>5 DEF HashesAgree, Switching, Waiting
  <2> QED
    BY <2>8, <2>9, <2>10 DEF Exchange
<1> QED
  BY <1>2, <1>3, <1>4, <1>5

\* What is left on the wires after a packet has been taken from one of them.
LEMMA WiresTaken ==
    ASSUME Typed, NEW s \in Sides, Taken(s), NEW k \in Kinds
    PROVE  /\ Out(Peer(s), k)' => Out(Peer(s), k)
           /\ Out(s, k)' <=> Out(s, k)
           /\ \A i \in Nat : On(s, k, i)' <=> On(s, k, i)
           /\ \A i \in Nat : On(Peer(s), k, i)' => On(Peer(s), k, i + 1) /\ i + 1 \in Nat
           /\ \A i \in Nat : On(Peer(s), k, i)' => wire'[Peer(s)][i] = wire[Peer(s)][i + 1]
           /\ wire'[s] = wire[s]
<1>1. wire'[s] = wire[s]
  BY PeerFacts DEF Taken
<1>2. \A i \in Nat : On(s, k, i)' <=> On(s, k, i)
  BY <1>1 DEF On
<1>3. \A i \in Nat : On(Peer(s), k, i)' => On(Peer(s), k, i + 1) /\ i + 1 \in Nat
  BY DEF Taken
<1>4. \A i \in Nat : On(Peer(s), k, i)' => wire'[Peer(s)][i] = wire[Peer(s)][i + 1]
  BY DEF Taken, On
<1> QED
  BY <1>1, <1>2, <1>3, <1>4 DEF Out

\* The client reads.
LEMMA ClientReads ==
    ASSUME Typed, AllWait, Exchange, ReadMessage("client") \/ ReadRaises("client")
    PROVE  Exchange'
<1> DEFINE c == "client"
<1> DEFINE v == "server"
<1>1. c \in Sides /\ v \in Sides /\ c # v /\ c \in Threads /\ v \in Threads /\ Peer(c) = v
      /\ {"dhinit", "newkeys", "dhreply"} \subseteq Kinds /\ Waits(c)
  BY HomeFacts DEF Sides, Kinds, AllWait, Peer
<1>2. Taken(c) /\ Others(c) /\ th[c].pc = "reading"
  BY <1>1, ReadMessageDoes, EndsDo DEF Dies, Moved
<1>3. /\ \A i \in Nat : On(c, "dhinit", i)' <=> On(c, "dhinit", i)
      /\ \A i \in Nat : On(c, "newkeys", i)' <=> On(c, "newkeys", i)
      /\ Out(c, "dhinit")' <=> Out(c, "dhinit")
      /\ Out(c, "newkeys")' <=> Out(c, "newkeys")
      /\ \A i \in Nat : On(v, "dhreply", i)' => On(v, "dhreply", i + 1) /\ i + 1 \in Nat
      /\ \A i \in Nat : On(v, "dhreply", i)' => wire'[v][i] = wire[v][i + 1]
      /\ Out(v, "dhreply")' => Out(v, "dhreply")
  BY <1>1, <1>2, WiresTaken
<1>4. th'[v] = th[v]
  BY <1>1, <1>2 DEF Others
<1>5. CASE ReadRaises(c)
  <2>1. th'[c].pc = "dead" /\ tr'[c].H = tr[c].H /\ tr'[c].expected = tr[c].expected /\ tr'[v] = tr[v]
    BY <1>1, <1>5, EndsDo DEF Dies, Moved, SameKex
  <2>2. DhInTurn'
    BY <1>3, <1>4, <2>1 DEF Exchange, DhInTurn
  <2>3. ReplySigns'
    BY <1>3, <1>4, <2>1 DEF Exchange, ReplySigns
  <2>4. HashesAgree'
    BY <1>3, <1>4, <2>1 DEF Exchange, HashesAgree, Switching
  <2> QED
    BY <2>2, <2>3, <2>4 DEF Exchange
<1>6. CASE ReadMessage(c)
  <2> DEFINE p == Head(wire[v])
  <2> DEFINE b == tr[c].expected # {}
  <2> DEFINE place == Handler(p.kind, b)
  <2>1. /\ th'[c].pc = place /\ th'[c].msg = IF place = "top" THEN NoPacket ELSE p
        /\ tr[c].expected = {} \/ p.kind \in tr[c].expected
    BY <1>1, <1>6, ReadMessageDoes
  <2>2. tr'[c].expected = {} /\ tr'[c].H = tr[c].H /\ tr'[v] = tr[v]
    BY <1>1, <1>6, HandlersWrite DEF OnlyTr
  <2>3. p \in Packets /\ p = wire[v][1] /\ b \in BOOLEAN /\ (On(v, "dhreply", 1) <=> p.kind = "dhreply")
    BY <1>1, <1>2 DEF Taken
  <2>4. p.kind \in Kinds
    BY <2>3 DEF Packets
  <2> HIDE DEF p
  <2>5. b => p.kind \in {"kexinit", "newkeys", "dhreply"}
    BY <1>1, <2>1 DEF Waits, Expectations
  <2> HIDE DEF b
  <2>6. place \in {"negotiate", "dh", "answer", "newkeysin", "reply", "top"}
        /\ (place = "dh" => p.kind = "dhreply") /\ (p.kind = "dhreply" /\ b => place = "dh")
    BY <2>3, <2>4, <2>5, HandlerFacts DEF Kinds, Traffic
  <2> HIDE DEF place
  <2>7. ~Out(c, "dhinit") /\ th[v].pc # "dh" /\ ~Out(v, "dhreply")'
    <3>1. CASE p.kind = "dhreply"
      <4>1. On(v, "dhreply", 1) /\ Out(v, "dhreply")
        BY <2>3, <3>1 DEF Out
      <4>2. ~Out(c, "dhinit") /\ th[v].pc # "dh"
        BY <4>1 DEF Exchange, DhInTurn
      <4>3. \A i \in Nat : ~On(v, "dhreply", i)'
        <5> SUFFICES ASSUME NEW i \in Nat, On(v, "dhreply", i)' PROVE FALSE
          OBVIOUS
        <5>1. On(v, "dhreply", i + 1) /\ i + 1 \in Nat
          BY <1>3
        <5>2. i # 0
          BY <1>1, <1>2 DEF Taken
        <5>3. i + 1 = 1
          BY <4>1, <5>1 DEF Exchange, DhInTurn
        <5> QED
          BY <5>2, <5>3
      <4> QED
        BY <4>2, <4>3 DEF Out
    <3>2. CASE p.kind # "dhreply"
      <4>1. tr[c].expected # {"dhreply"}
        BY <2>1, <3>2
      <4> QED
        BY <1>3, <4>1 DEF Exchange, DhInTurn
    <3> QED
      BY <3>1, <3>2
  <2>8. \A i \in Nat : ~On(v, "dhreply", i)'
    BY <2>7 DEF Out
  <2>9. place = "dh" => p.val = tr[v].H /\ ~Out(c, "newkeys")
    <3> SUFFICES ASSUME place = "dh" PROVE p.val = tr[v].H /\ ~Out(c, "newkeys")
      OBVIOUS
    <3>1. On(v, "dhreply", 1) /\ Out(v, "dhreply")
      BY <2>3, <2>6 DEF Out
    <3> QED
      BY <2>3, <3>1 DEF Exchange, ReplySigns, HashesAgree
  <2>10. DhInTurn'
    BY <1>3, <1>4, <2>2, <2>7, <2>8 DEF Exchange, DhInTurn
  <2>11. ReplySigns'
    BY <2>1, <2>2, <2>8, <2>9 DEF ReplySigns
  <2>12. HashesAgree'
    BY <1>3, <1>4, <2>1, <2>2, <2>6, <2>7, <2>9 DEF Exchange, HashesAgree, Switching
  <2> QED
    BY <2>10, <2>11, <2>12 DEF Exchange
<1> QED
  BY <1>5, <1>6

\* The server reads.
LEMMA ServerReads ==
    ASSUME Typed, AllWait, Exchange, ReadMessage("server") \/ ReadRaises("server")
    PROVE  Exchange'
<1> DEFINE c == "client"
<1> DEFINE v == "server"
<1>1. c \in Sides /\ v \in Sides /\ c # v /\ c \in Threads /\ v \in Threads /\ Peer(v) = c
      /\ {"dhinit", "newkeys", "dhreply"} \subseteq Kinds /\ Waits(v)
  BY HomeFacts DEF Sides, Kinds, AllWait, Peer
<1>2. Taken(v) /\ Others(v) /\ th[v].pc = "reading"
  BY <1>1, ReadMessageDoes, EndsDo DEF Dies, Moved
<1>3. /\ \A i \in Nat : On(v, "dhreply", i)' <=> On(v, "dhreply", i)
      /\ Out(v, "dhreply")' <=> Out(v, "dhreply")
      /\ wire'[v] = wire[v]
      /\ Out(c, "dhinit")' => Out(c, "dhinit")
      /\ Out(c, "newkeys")' => Out(c, "newkeys")
  BY <1>1, <1>2, WiresTaken
<1>4. /\ \A i \in Nat : On(c, "dhinit", i)' => On(c, "dhinit", i + 1) /\ i + 1 \in Nat
      /\ \A i \in Nat : On(c, "newkeys", i)' => On(c, "newkeys", i + 1) /\ i + 1 \in Nat
  BY <1>1, <1>2, WiresTaken
<1>5. th'[c] = th[c]
  BY <1>1, <1>2 DEF Others
<1>6. /\ \A i, j \in Nat : On(c, "dhinit", i)' /\ On(c, "dhinit", j)' => i = j
      /\ \A i, j \in Nat : On(c, "newkeys", j)' /\ On(c, "dhinit", i)' => j < i
  <2>1. ASSUME NEW i \in Nat, NEW j \in Nat, On(c, "dhinit", i)', On(c, "dhinit", j)' PROVE i = j
    <3>1. i + 1 = j + 1
      BY <1>4, <2>1 DEF Exchange, DhInTurn
    <3> QED
      BY <3>1
  <2>2. ASSUME NEW i \in Nat, NEW j \in Nat, On(c, "newkeys", j)', On(c, "dhinit", i)' PROVE j < i
    <3>1. j + 1 < i + 1
      BY <1>4, <2>2 DEF Exchange, HashesAgree
    <3> QED
      BY <3>1
  <2> QED
    BY <2>1, <2>2
<1>7. tr'[v].H = tr[v].H /\ tr'[c] = tr[c]
  BY <1>1, EndsDo, HandlersWrite DEF Dies, OnlyTr
<1>8. ReplySigns'
  BY <1>3, <1>5, <1>7 DEF Exchange, ReplySigns
<1>9. ASSUME th'[v].pc # "dh" PROVE Exchange'
  <2>1. DhInTurn'
    BY <1>3, <1>6, <1>7, <1>9 DEF Exchange, DhInTurn
  <2>2. HashesAgree'
    BY <1>3, <1>5, <1>6, <1>7, <1>9 DEF Exchange, HashesAgree
  <2> QED
    BY <1>8, <2>1, <2>2 DEF Exchange
<1>10. CASE ReadRaises(v)
  BY <1>1, <1>9, <1>10, EndsDo DEF Dies, Moved
<1>11. CASE ReadMessage(v) /\ th'[v].pc = "dh"
  <2> DEFINE p == Head(wire[c])
  <2> DEFINE b == tr[v].expected # {}
  <2>1. /\ Handler(p.kind, b) = "dh"
        /\ tr[v].expected = {} \/ p.kind \in tr[v].expected
    BY <1>1, <1>11, ReadMessageDoes
  <2>2. p \in Packets /\ b \in BOOLEAN /\ (On(c, "dhinit", 1) <=> p.kind = "dhinit")
    BY <1>1, <1>2 DEF Taken
  <2>3. p.kind \in Kinds
    BY <2>2 DEF Packets
  <2> HIDE DEF p
  <2>4. b => p.kind \in {"kexinit", "newkeys", "dhinit"}
    BY <1>1, <2>1 DEF Waits, Expectations
  <2> HIDE DEF b
  <2>5. p.kind = "dhinit"
    BY <2>1, <2>2, <2>3, <2>4, HandlerFacts DEF Kinds, Traffic
  <2>6. On(c, "dhinit", 1) /\ Out(c, "dhinit")
    BY <2>2, <2>5 DEF Out
  <2>7. \A i \in Nat : ~On(c, "dhinit", i)'
    <3> SUFFICES ASSUME NEW i \in Nat, On(c, "dhinit", i)' PROVE FALSE
      OBVIOUS
    <3>1. On(c, "dhinit", i + 1) /\ i + 1 \in Nat
      BY <1>4
    <3>2. i # 0
      BY <1>1, <1>2 DEF Taken
    <3>3. i + 1 = 1
      BY <2>6, <3>1 DEF Exchange, DhInTurn
    <3> QED
      BY <3>2, <3>3
  <2>8. \A i \in Nat : ~On(c, "newkeys", i)'
    <3> SUFFICES ASSUME NEW i \in Nat, On(c, "newkeys", i)' PROVE FALSE
      OBVIOUS
    <3>1. i + 1 < 1
      BY <1>4, <2>6 DEF Exchange, HashesAgree
    <3> QED
      BY <3>1
  <2>9. ~Out(c, "dhinit")' /\ ~Out(c, "newkeys")'
    BY <2>7, <2>8 DEF Out
  <2>10. tr[c].expected = {"dhreply"} /\ ~Out(v, "dhreply")
    BY <2>6 DEF Exchange, DhInTurn
  <2>11. DhInTurn'
    BY <1>3, <1>6, <1>7, <2>9, <2>10 DEF Exchange, DhInTurn
  <2>12. HashesAgree'
    BY <1>5, <1>6, <1>7, <2>9 DEF Exchange, HashesAgree
  <2> QED
    BY <1>8, <2>11, <2>12 DEF Exchange
<1> QED
  BY <1>9, <1>10, <1>11

\* Nothing is on its way at first.
LEMMA InitExchange == Init => Exchange
<1> SUFFICES ASSUME Init PROVE Exchange
  OBVIOUS
<1>1. "client" \in Sides /\ "server" \in Sides /\ "client" \in Threads /\ "server" \in Threads
  BY HomeFacts DEF Sides
<1>2. wire["client"] = <<>> /\ wire["server"] = <<>>
  BY <1>1 DEF Init
<1>3. /\ th["client"].pc = "clear" /\ th["server"].pc = "clear" /\ tr["client"].expected = {"kexinit"}
      /\ tr["client"].H = NoKey /\ tr["server"].H = NoKey
  BY <1>1 DEF Init
<1>4. \A i \in Nat, k \in Kinds : ~On("client", k, i) /\ ~On("server", k, i)
  BY <1>2 DEF On
<1>5. {"dhinit", "newkeys", "dhreply"} \subseteq Kinds
  BY DEF Kinds
<1> QED
  BY <1>3, <1>4, <1>5 DEF Exchange, DhInTurn, ReplySigns, HashesAgree, Out, Switching

\* Every step keeps the exchange in turn.
LEMMA NextExchange == Typed /\ AllWait /\ Exchange /\ [Next]_vars => Exchange'
<1> SUFFICES ASSUME Typed, AllWait, Exchange, [Next]_vars PROVE Exchange'
  OBVIOUS
<1>1. CASE UNCHANGED vars
  BY <1>1 DEF vars, Exchange, DhInTurn, ReplySigns, HashesAgree, Out, On
<1>2. ASSUME NEW u \in Users, RenegotiateKeys(u) \/ UserRuns(u) PROVE Exchange'
  BY <1>2, UserExchange
<1>3. ASSUME NEW s \in Sides, NEW kind \in Traffic, SendUserMessage(s, kind) PROVE Exchange'
  <2>1. UNCHANGED <<tr, th>> /\ Emitted(s, kind, NoKey)
    BY <1>3, SendUserMessageDoes
  <2>2. CalmThreads
    BY <2>1 DEF CalmThreads
  <2>3. CalmWires
    BY <2>1, NoPacketFacts, CalmSending DEF Traffic, Kinds
  <2> QED
    BY <2>1, <2>2, <2>3, CalmTransports, ExchangeCalm
<1>4. ASSUME NEW s \in Sides, TransportRuns(s) PROVE Exchange'
  <2>1. CASE \/ ClearToSend(s) \/ LocalKexInit(s) \/ SendKexInit(s) \/ CheckRekey(s) \/ ReadInterrupted(s)
             \/ EndOfStream(s) \/ ReplyTimesOut(s) \/ Answer(s) \/ Reply(s) \/ NegotiateKeys(s)
             \/ ResetSeqnoOut(s) \/ SetOutboundCipher(s) \/ ParseNewKeys(s) \/ ReopenTraffic(s)
    BY <2>1, CalmSteps
  <2>2. CASE ReadMessage(s) \/ ReadRaises(s)
    BY <2>2, ClientReads, ServerReads DEF Sides
  <2>3. ParseKexdhInit(s) => s = "server"
    BY DEF ParseKexdhInit
  <2>4. ParseKexdhReply(s) => s = "client"
    BY DEF ParseKexdhReply
  <2>5. CASE ParseKexInit(s) \/ ParseKexdhInit(s) \/ ParseKexdhReply(s) \/ SendNewKeys(s) \/ ExpectNewKeys(s)
    BY <2>3, <2>4, <2>5, ClientExchange, ServerExchange DEF Sides
  <2> QED
    BY <1>4, <2>1, <2>2, <2>5 DEF TransportRuns
<1> QED
  BY <1>1, <1>2, <1>3, <1>4 DEF Next

\* The NEWKEYS a side accepts comes from a peer that has computed the same exchange
\* hash, in every set-up: with crossing KEXINITs, KEXINITs sent twice by users that
\* renegotiate at the same time, and traffic in between.
THEOREM KexKeyAgreement == Spec => []KeyAgreement
<1>1. Typed /\ AllWait /\ Exchange => KeyAgreement
  <2> SUFFICES ASSUME Typed, Exchange, NEW s \in Sides, tr[s].expected = {"newkeys"},
                      wire[Peer(s)] # <<>>, Head(wire[Peer(s)]).kind = "newkeys"
               PROVE  tr[s].H = tr[Peer(s)].H
    BY DEF KeyAgreement
  <2>1. CASE s = "client"
    BY <2>1 DEF Exchange, HashesAgree, Peer
  <2>2. CASE s = "server"
    <3>1. Peer(s) = "client" /\ "client" \in Sides
      BY <2>2 DEF Peer, Sides
    <3>2. 1 \in DOMAIN wire["client"] /\ Head(wire["client"]) = wire["client"][1]
      BY <3>1, HeadTailProperties, EmptySeq, LenProperties DEF Typed, WireOK
    <3>3. Out("client", "newkeys")
      BY <3>1, <3>2 DEF Out, On
    <3> QED
      BY <2>2, <3>1, <3>3 DEF Exchange, HashesAgree
  <2> QED
    BY <2>1, <2>2 DEF Sides
<1>2. Init => Typed /\ AllWait /\ Exchange
  BY InitTyped, InitWaits, InitExchange
<1>3. Typed /\ AllWait /\ Exchange /\ [Next]_vars => (Typed /\ AllWait /\ Exchange)'
  BY NextTyped, NextWaits, NextExchange
<1> QED
  BY <1>1, <1>2, <1>3, PTL DEF Spec

-----------------------------------------------------------------------------
(* The first exchange                                                       *)

\* Until its first NEWKEYS a side sends one KEXINIT, lets no user through, and handles
\* only what it expects.
FirstPlace(s) ==
    /\ ~tr[s].clear
    /\ tr[s].inits \in {0, 1} /\ tr[s].local = tr[s].inits
    /\ th[s].pc \in {"clear", "local"} <=> tr[s].inits = 0
    /\ th[s].pc \in {"clear", "local", "emit"} => tr[s].expected = {"kexinit"}
    /\ th[s].pc \in {"top", "reading"} => tr[s].expected # {}
    /\ th[s].pc \notin {"answer", "reply", "reopen"}

UsersIdle(s) == \A u \in Users : SideOf[u] = s => th[u].pc = "idle"

\* The packetizer does not make it start a second exchange: when it asks for new keys
\* the first exchange is still on.
FirstKeys(s) ==
    /\ pk[s].initCount \in {0, 1}
    /\ Reached(1, setup.limit[s]) /\ tr[s].inits = 1 /\ th[s].pc # "emit" => pk[s].needRekey
    /\ th[s].pc = "extinfo" => pk[s].sent = 0
    /\ tr[s].inits = 1 /\ th[s].pc # "newkeysin" /\ pk[s].needRekey => tr[s].inKex
    /\ tr[s].inits = 1 /\ tr[s].expected # {"newkeys"} /\ th[s].pc \notin {"extinfo", "newkeysin", "dead"}
          => tr[s].inKex
    /\ th[s].pc = "local" => tr[s].inKex

First(s) == ~tr[s].initialDone => FirstPlace(s) /\ UsersIdle(s) /\ FirstKeys(s)
AllFirst == \A s \in Sides : First(s)

\* Counting a packet in the first exchange.
LEMMA FirstCounts ==
    ASSUME Typed, NEW s \in Sides
    PROVE  /\ pk'[s] = Sent(pk[s], setup.limit[s]) =>
                /\ pk'[s].initCount = pk[s].initCount
                /\ pk'[s].needRekey <=> (pk[s].needRekey \/ Reached(pk[s].sent + 1, setup.limit[s]))
           /\ pk'[s] = Received(pk[s], setup.limit[s]) =>
                /\ pk'[s].initCount = pk[s].initCount /\ (pk[s].needRekey => pk'[s].needRekey)
                /\ pk'[s].sent = pk[s].sent
           /\ Reached(1, setup.limit[s]) => Reached(pk[s].sent + 1, setup.limit[s])
           /\ pk[s].sent = 0 => pk[s].sent + 1 = 1
<1> DEFINE p == pk[s]
<1> DEFINE limit == setup.limit[s]
<1>1. p \in PacketizerStates /\ limit \in Nat
  BY LimitFacts DEF Typed, PkOK
<1>2. p.sent \in Nat
  BY <1>1 DEF PacketizerStates
<1> HIDE DEF p, limit
<1>3. ASSUME pk'[s] = Sent(p, limit)
      PROVE  pk'[s].initCount = p.initCount /\ (pk'[s].needRekey <=> (p.needRekey \/ Reached(p.sent + 1, limit)))
  <2>1. Sent(p, limit).initCount = p.initCount
    BY <1>1, SentFacts
  <2>2. Sent(p, limit).needRekey = (p.needRekey \/ Reached(p.sent + 1, limit))
    BY <1>1, SentFacts
  <2> QED
    BY <1>3, <2>1, <2>2
<1>4. ASSUME pk'[s] = Received(p, limit)
      PROVE  /\ pk'[s].initCount = p.initCount /\ (p.needRekey => pk'[s].needRekey)
             /\ pk'[s].sent = p.sent
  BY <1>1, <1>4, ReceivedFacts
<1>5. Reached(1, limit) => Reached(p.sent + 1, limit)
  BY <1>1, <1>2 DEF Reached
<1> QED
  BY <1>2, <1>3, <1>4, <1>5 DEF p, limit

\* A transport thread leaves the packetizer of the other side alone.
LEMMA PacketizerAlone ==
    ASSUME Typed, NEW s \in Sides, TransportRuns(s)
    PROVE  UNCHANGED setup /\ \A d \in Sides : d # s => pk'[d] = pk[d]
<1>1. s \in Threads /\ Home(s) = s
  BY HomeFacts
<1>2. ASSUME UNCHANGED pk PROVE \A d \in Sides : d # s => pk'[d] = pk[d]
  BY <1>2
<1>3. CASE ClearToSend(s) \/ LocalKexInit(s) \/ SendKexInit(s)
  BY <1>1, <1>2, <1>3, ClearToSendDoes, LocalKexInitDoes, SendKexInitDoes DEF Emitted
<1>4. CASE CheckRekey(s) \/ ReadInterrupted(s) \/ ReadRaises(s) \/ EndOfStream(s) \/ ReplyTimesOut(s)
  BY <1>2, <1>4, MovesDo, EndsDo
<1>5. CASE ReadMessage(s)
  BY <1>5, ReadMessageDoes
<1>6. CASE Answer(s) \/ Reply(s) \/ NegotiateKeys(s)
  BY <1>2, <1>6, AnswersDo, NegotiateKeysDoes DEF Emitted
<1>7. CASE ParseKexInit(s) \/ ExpectNewKeys(s)
  <2>1. CASE ParseKexInit(s)
    BY <1>2, <2>1, ParseKexInitDoes DEF Emitted
  <2>2. CASE ExpectNewKeys(s)
    BY <1>2, <2>2, ExpectNewKeysDoes DEF Emitted
  <2> QED
    BY <1>7, <2>1, <2>2
<1>8. CASE ParseKexdhInit(s) \/ ParseKexdhReply(s)
  BY <1>2, <1>8, KexdhDo DEF Emitted
<1>9. CASE SendNewKeys(s) \/ ResetSeqnoOut(s) \/ SetOutboundCipher(s)
  BY <1>9, SendNewKeysDoes, ResetSeqnoOutDoes, SetOutboundCipherDoes DEF Emitted
<1>10. CASE ParseNewKeys(s) \/ ReopenTraffic(s)
  BY <1>2, <1>10, ParseNewKeysDoes, ReopenTrafficDoes
<1> QED
  BY <1>3, <1>4, <1>5, <1>6, <1>7, <1>8, <1>9, <1>10 DEF TransportRuns

\* The transport thread, up to its first NEWKEYS.
LEMMA FirstSteps ==
    ASSUME Typed, NEW s \in Sides, Waits(s), First(s), TransportRuns(s)
    PROVE  First(s)'
<1>1. s \in Threads /\ Home(s) = s /\ s \notin Users
  BY HomeFacts
<1>2. UsersIdle(s) => UsersIdle(s)'
  BY HomeFacts, TransportAlone DEF UsersIdle, Others
<1>3. ASSUME ~tr[s].initialDone PROVE FirstPlace(s) /\ UsersIdle(s) /\ FirstKeys(s)
  BY <1>3 DEF First
<1>4. ASSUME ~tr[s].initialDone, FirstPlace(s)', FirstKeys(s)' PROVE First(s)'
  BY <1>2, <1>3, <1>4 DEF First
<1>5. CASE ClearToSend(s)
  <2>1. UNCHANGED <<setup, pk>> /\ th[s].pc = "clear" /\ th'[s].pc = "local"
    BY <1>1, <1>5, ClearToSendDoes DEF Moved
  <2>2. /\ Steady(s) /\ SameInits(tr[s], tr'[s]) /\ ~tr'[s].clear /\ tr'[s].inKex
    BY <1>1, <1>5, SendersWrite
  <2> SUFFICES ASSUME ~tr[s].initialDone PROVE First(s)'
    BY <2>2 DEF First, Steady, SameExchange
  <2>3. FirstPlace(s)'
    BY <1>3, <2>1, <2>2 DEF FirstPlace, Steady, SameExchange, SameInits
  <2>4. FirstKeys(s)'
    BY <1>3, <2>1, <2>2 DEF FirstPlace, FirstKeys, Steady, SameExchange, SameInits
  <2> QED
    BY <1>4, <2>3, <2>4
<1>6. CASE LocalKexInit(s)
  <2>1. UNCHANGED <<setup, pk>> /\ th[s].pc = "local" /\ th'[s].pc = "emit"
    BY <1>1, <1>6, LocalKexInitDoes
  <2>2. /\ Steady(s) /\ SameGates(tr[s], tr'[s])
        /\ tr'[s].local = tr[s].inits + 1 /\ tr'[s].inits = tr[s].inits + 1
    BY <1>1, <1>6, SendersWrite
  <2> SUFFICES ASSUME ~tr[s].initialDone PROVE First(s)'
    BY <2>2 DEF First, Steady, SameExchange
  <2>3. FirstPlace(s)'
    BY <1>3, <2>1, <2>2 DEF FirstPlace, Steady, SameExchange, SameGates
  <2>4. FirstKeys(s)'
    BY <1>3, <2>1, <2>2 DEF FirstPlace, FirstKeys, Steady, SameExchange, SameGates
  <2> QED
    BY <1>4, <2>3, <2>4
<1>7. CASE SendKexInit(s)
  <2>1. /\ UNCHANGED <<setup, tr>> /\ th[s].pc = "emit"
        /\ th'[s].pc = (IF th[s].handling THEN "parse" ELSE "reading")
        /\ pk'[s] = Sent(pk[s], setup.limit[s])
    BY <1>1, <1>7, SendKexInitDoes DEF Moved, Emitted
  <2> SUFFICES ASSUME ~tr[s].initialDone PROVE First(s)'
    BY <2>1 DEF First
  <2>2. tr[s].expected = {"kexinit"} /\ th'[s].pc = "reading"
    BY <1>3, <2>1 DEF FirstPlace, Waits
  <2>3. FirstPlace(s)'
    BY <1>3, <2>1, <2>2 DEF FirstPlace
  <2>4. FirstKeys(s)'
    BY <1>3, <2>1, <2>2, FirstCounts DEF FirstPlace, FirstKeys
  <2> QED
    BY <1>4, <2>3, <2>4
<1>8. CASE CheckRekey(s) \/ ReadInterrupted(s)
  <2>1. /\ UNCHANGED <<setup, tr, pk>> /\ th[s].pc \in {"top", "reading"}
        /\ \/ th'[s].pc = IF pk[s].needRekey /\ ~tr[s].inKex THEN "clear" ELSE "reading"
           \/ th'[s].pc = "top"
    BY <1>8, MovesDo DEF Moved
  <2> SUFFICES ASSUME ~tr[s].initialDone PROVE First(s)'
    BY <2>1 DEF First
  <2>2. th'[s].pc \in {"top", "reading"}
    BY <1>3, <2>1 DEF FirstPlace, FirstKeys
  <2>3. FirstPlace(s)'
    BY <1>3, <2>1, <2>2 DEF FirstPlace
  <2>4. FirstKeys(s)'
    BY <1>3, <2>1, <2>2 DEF FirstPlace, FirstKeys
  <2> QED
    BY <1>4, <2>3, <2>4
<1>9. CASE ReadMessage(s)
  <2> DEFINE p == Head(wire[Peer(s)])
  <2> DEFINE b == tr[s].expected # {}
  <2> DEFINE place == Handler(p.kind, b)
  <2>1. /\ UNCHANGED setup /\ th[s].pc = "reading" /\ th'[s].pc = place
        /\ tr[s].expected = {} \/ p.kind \in tr[s].expected
        /\ pk'[s] = Received(pk[s], setup.limit[s]) /\ p \in Packets
    BY <1>9, ReadMessageDoes DEF Taken
  <2>2. /\ tr'[s].expected = {} /\ tr'[s].initialDone = tr[s].initialDone
        /\ SameInits(tr[s], tr'[s]) /\ SameGates(tr[s], tr'[s])
    BY <1>9, HandlersWrite
  <2> SUFFICES ASSUME ~tr[s].initialDone PROVE First(s)'
    BY <2>2 DEF First
  <2>3. b /\ p.kind \in Kinds
    BY <1>3, <2>1 DEF FirstPlace, Packets
  <2> HIDE DEF p
  <2>4. /\ p.kind \in {"kexinit", "newkeys", "dhreply", "dhinit"}
        /\ tr[s].expected = {"newkeys"} => p.kind = "newkeys"
    BY <2>1, <2>3 DEF Waits, Expectations
  <2> HIDE DEF b
  <2>5. place \in {"negotiate", "dh", "newkeysin"} /\ (tr[s].expected = {"newkeys"} => place = "newkeysin")
    BY <2>3, <2>4, HandlerFacts
  <2> HIDE DEF place
  <2>6. FirstPlace(s)'
    BY <1>3, <2>1, <2>2, <2>5 DEF FirstPlace, SameInits, SameGates
  <2>7. tr[s].inits = 1
    BY <1>3, <2>1 DEF FirstPlace
  <2>8. FirstKeys(s)'
    BY <1>3, <2>1, <2>2, <2>5, <2>7, FirstCounts DEF FirstKeys, SameInits, SameGates
  <2> QED
    BY <1>4, <2>6, <2>8
<1>10. CASE ReadRaises(s) \/ EndOfStream(s) \/ ReplyTimesOut(s)
  <2>1. /\ UNCHANGED <<setup, pk>> /\ th[s].pc \in {"reading", "reply"} /\ th'[s].pc = "dead"
        /\ SameKex(tr[s], tr'[s])
    BY <1>10, EndsDo DEF Dies, Moved
  <2> SUFFICES ASSUME ~tr[s].initialDone PROVE First(s)'
    BY <2>1 DEF First, SameKex
  <2>2. FirstPlace(s)'
    BY <1>3, <2>1 DEF FirstPlace, SameKex
  <2>3. FirstKeys(s)'
    BY <1>3, <2>1 DEF FirstPlace, FirstKeys, SameKex
  <2> QED
    BY <1>4, <2>2, <2>3
<1>11. CASE Answer(s) \/ Reply(s)
  <2>1. th[s].pc \in {"answer", "reply"} /\ UNCHANGED tr
    BY <1>11, AnswersDo
  <2> QED
    BY <1>3, <2>1 DEF First, FirstPlace
<1>12. CASE NegotiateKeys(s)
  <2>1. /\ UNCHANGED <<setup, pk>> /\ th[s].pc = "negotiate"
        /\ th'[s].pc = IF tr[s].local = 0 THEN "clear" ELSE "parse"
    BY <1>12, NegotiateKeysDoes DEF Moved
  <2>2. Steady(s) /\ SameInits(tr[s], tr'[s]) /\ ~tr'[s].clear /\ tr'[s].inKex = tr[s].inKex
    BY <1>12, HandlersWrite
  <2> SUFFICES ASSUME ~tr[s].initialDone PROVE First(s)'
    BY <2>2 DEF First, Steady, SameExchange
  <2>3. th'[s].pc = "parse"
    BY <1>3, <2>1 DEF FirstPlace
  <2>4. FirstPlace(s)'
    BY <1>3, <2>1, <2>2, <2>3 DEF FirstPlace, Steady, SameExchange, SameInits
  <2>5. FirstKeys(s)'
    BY <1>3, <2>1, <2>2, <2>3 DEF FirstKeys, Steady, SameExchange, SameInits
  <2> QED
    BY <1>4, <2>4, <2>5
<1>13. CASE ParseKexInit(s)
  <2>1. /\ UNCHANGED setup /\ th[s].pc = "parse" /\ th'[s].pc = "top"
        /\ pk'[s] = pk[s] \/ pk'[s] = Sent(pk[s], setup.limit[s])
    BY <1>13, ParseKexInitDoes DEF Finished, Emitted
  <2>2. /\ tr'[s].expected = (IF s = "client" THEN {"dhreply"} ELSE {"dhinit"})
        /\ tr'[s].initialDone = tr[s].initialDone
        /\ SameInits(tr[s], tr'[s]) /\ SameGates(tr[s], tr'[s])
    BY <1>13, HandlersWrite
  <2> SUFFICES ASSUME ~tr[s].initialDone PROVE First(s)'
    BY <2>2 DEF First
  <2>3. tr[s].expected = {} /\ tr'[s].expected # {}
    BY <2>1, <2>2, HandlerExpectsNothing DEF Waiting
  <2>4. FirstPlace(s)'
    BY <1>3, <2>1, <2>2, <2>3 DEF FirstPlace, SameInits, SameGates
  <2>5. tr[s].inits = 1 /\ tr[s].inKex
    BY <1>3, <2>1, <2>3 DEF FirstPlace, FirstKeys
  <2>6. FirstKeys(s)'
    BY <1>3, <2>1, <2>2, <2>5, FirstCounts DEF FirstKeys, SameInits, SameGates
  <2> QED
    BY <1>4, <2>4, <2>6
<1>14. CASE ParseKexdhInit(s) \/ ParseKexdhReply(s)
  <2>1. /\ UNCHANGED setup /\ th[s].pc = "dh" /\ th'[s].pc \in {"newkeysout", "dead"} /\ SameKex(tr[s], tr'[s])
        /\ pk'[s] = pk[s] \/ pk'[s] = Sent(pk[s], setup.limit[s])
    BY <1>14, KexdhDo DEF Moved, Emitted, Hashed
  <2> SUFFICES ASSUME ~tr[s].initialDone PROVE First(s)'
    BY <2>1 DEF First, SameKex
  <2>2. FirstPlace(s)'
    BY <1>3, <2>1 DEF FirstPlace, SameKex
  <2>3. tr[s].inits = 1 /\ tr[s].inKex
    <3>1. tr[s].expected = {}
      BY <2>1, HandlerExpectsNothing DEF Waiting
    <3> QED
      BY <1>3, <2>1, <3>1 DEF FirstPlace, FirstKeys
  <2>4. FirstKeys(s)'
    BY <1>3, <2>1, <2>3, FirstCounts DEF FirstKeys, SameKex
  <2> QED
    BY <1>4, <2>2, <2>4
<1>15. CASE SendNewKeys(s)
  <2>1. /\ UNCHANGED <<setup, tr>> /\ th[s].pc = "newkeysout" /\ th'[s].pc = "reset"
        /\ pk'[s] = Sent(pk[s], setup.limit[s])
    BY <1>15, SendNewKeysDoes DEF Moved, Emitted
  <2> SUFFICES ASSUME ~tr[s].initialDone PROVE First(s)'
    BY <2>1 DEF First
  <2>2. FirstPlace(s)'
    BY <1>3, <2>1 DEF FirstPlace
  <2>3. tr[s].inits = 1 /\ tr[s].inKex
    <3>1. tr[s].expected = {}
      BY <2>1, HandlerExpectsNothing DEF Waiting
    <3> QED
      BY <1>3, <2>1, <3>1 DEF FirstPlace, FirstKeys
  <2>4. FirstKeys(s)'
    BY <1>3, <2>1, <2>3, FirstCounts DEF FirstKeys
  <2> QED
    BY <1>4, <2>2, <2>4
<1>16. CASE ResetSeqnoOut(s)
  <2>1. /\ UNCHANGED <<setup, tr>> /\ th[s].pc = "reset" /\ th'[s].pc = "cipher"
        /\ pk'[s].initCount = pk[s].initCount /\ pk'[s].needRekey = pk[s].needRekey
    BY <1>16, ResetSeqnoOutDoes DEF Moved
  <2> SUFFICES ASSUME ~tr[s].initialDone PROVE First(s)'
    BY <2>1 DEF First
  <2>2. FirstPlace(s)'
    BY <1>3, <2>1 DEF FirstPlace
  <2>3. FirstKeys(s)'
    BY <1>3, <2>1 DEF FirstKeys
  <2> QED
    BY <1>4, <2>2, <2>3
<1>17. CASE SetOutboundCipher(s)
  <2>1. /\ UNCHANGED setup /\ th[s].pc = "cipher" /\ th'[s].pc = "extinfo"
        /\ pk'[s] = SetOutbound(pk[s], tr[s].H)
    BY <1>17, SetOutboundCipherDoes DEF Moved
  <2>2. /\ Steady(s) /\ SameInits(tr[s], tr'[s]) /\ tr'[s].clear = tr[s].clear
        /\ tr'[s].inKex = (tr[s].inKex /\ pk'[s].needRekey)
    BY <1>17, HandlersWrite
  <2> SUFFICES ASSUME ~tr[s].initialDone PROVE First(s)'
    BY <2>2 DEF First, Steady, SameExchange
  <2>3. FirstPlace(s)'
    BY <1>3, <2>1, <2>2 DEF FirstPlace, Steady, SameExchange, SameInits
  <2>4. tr[s].inits = 1 /\ tr[s].inKex
    <3>1. tr[s].expected = {}
      BY <2>1, HandlerExpectsNothing DEF Waiting
    <3> QED
      BY <1>3, <2>1, <3>1 DEF FirstPlace, FirstKeys
  <2>5. pk'[s].sent = 0 /\ pk'[s].initCount = 1 /\ pk'[s].needRekey = pk[s].needRekey
    <3>1. pk[s] \in PacketizerStates /\ tr[s].H \in Keys
      BY DEF Typed, PkOK, TrOK, TransportStates
    <3> QED
      BY <1>3, <2>1, <3>1, OutboundFacts DEF FirstKeys
  <2>6. FirstKeys(s)'
    BY <1>3, <2>1, <2>2, <2>4, <2>5 DEF FirstKeys, SameInits
  <2> QED
    BY <1>4, <2>3, <2>6
<1>18. CASE ExpectNewKeys(s)
  <2>1. /\ UNCHANGED setup /\ th[s].pc = "extinfo" /\ th'[s].pc = "top"
        /\ pk'[s] = pk[s] \/ pk'[s] = Sent(pk[s], setup.limit[s])
    BY <1>18, ExpectNewKeysDoes DEF Finished, Emitted
  <2>2. /\ tr'[s].expected = {"newkeys"} /\ tr'[s].initialDone = tr[s].initialDone
        /\ SameInits(tr[s], tr'[s]) /\ SameGates(tr[s], tr'[s])
    BY <1>18, HandlersWrite
  <2> SUFFICES ASSUME ~tr[s].initialDone PROVE First(s)'
    BY <2>2 DEF First
  <2>3. FirstPlace(s)'
    BY <1>3, <2>1, <2>2 DEF FirstPlace, SameInits, SameGates
  <2>4. tr[s].inits = 1 /\ pk[s].sent = 0
    BY <1>3, <2>1 DEF FirstPlace, FirstKeys
  <2>5. pk'[s].initCount = pk[s].initCount /\ (pk'[s].needRekey <=> pk[s].needRekey)
    BY <1>3, <2>1, <2>4, FirstCounts DEF FirstKeys
  <2>6. FirstKeys(s)'
    BY <1>3, <2>1, <2>2, <2>4, <2>5 DEF FirstKeys, SameInits, SameGates
  <2> QED
    BY <1>4, <2>3, <2>6
<1>19. CASE ParseNewKeys(s)
  BY <1>19, ParseNewKeysDoes DEF First
<1>20. CASE ReopenTraffic(s)
  <2>1. th[s].pc = "reopen" /\ tr'[s].initialDone = tr[s].initialDone
    BY <1>20, ReopenTrafficDoes
  <2> QED
    BY <1>3, <2>1 DEF First, FirstPlace
<1> QED
  BY <1>5, <1>6, <1>7, <1>8, <1>9, <1>10, <1>11, <1>12, <1>13, <1>14, <1>15, <1>16, <1>17, <1>18,
     <1>19, <1>20 DEF TransportRuns

\* The first states.
LEMMA InitFirst == Init => AllFirst
<1> SUFFICES ASSUME Init, NEW s \in Sides PROVE First(s)
  BY DEF AllFirst
<1>1. s \in Threads
  BY HomeFacts
<1>2. /\ tr[s].expected = {"kexinit"} /\ th[s].pc = "clear" /\ tr[s].inits = 0 /\ tr[s].local = 0
      /\ tr[s].clear = FALSE /\ pk[s].initCount = 0
  BY <1>1 DEF Init
<1>3. FirstPlace(s) /\ FirstKeys(s)
  BY <1>2 DEF FirstPlace, FirstKeys
<1>4. UsersIdle(s)
  BY HomeFacts DEF UsersIdle, Init
<1> QED
  BY <1>3, <1>4 DEF First

\* Every step keeps the first exchange the only one until it is over.
LEMMA NextFirst == Typed /\ AllWait /\ AllFirst /\ [Next]_vars => AllFirst'
<1> SUFFICES ASSUME Typed, AllWait, AllFirst, [Next]_vars, NEW d \in Sides PROVE First(d)'
  BY DEF AllFirst
<1>1. First(d) /\ Waits(d) /\ d \in Threads /\ \A u \in Users : u \in Threads /\ u \notin Sides
  BY HomeFacts DEF AllFirst, AllWait
<1>2. ASSUME tr'[d] = tr[d], pk'[d] = pk[d], th'[d] = th[d], UNCHANGED setup,
             \A u \in Users : SideOf[u] = d => th'[u] = th[u]
      PROVE  First(d)'
  BY <1>1, <1>2 DEF First, FirstPlace, FirstKeys, UsersIdle
<1>3. CASE UNCHANGED vars
  BY <1>2, <1>3 DEF vars
<1>4. ASSUME NEW u \in Users, RenegotiateKeys(u) \/ UserRuns(u) PROVE First(d)'
  <2>1. SideOf[u] \in Sides /\ u \in Threads /\ Home(u) = SideOf[u]
    BY HomeFacts
  <2>2. CASE SideOf[u] = d
    <3>1. tr[d].initialDone
      <4>1. CASE RenegotiateKeys(u)
        BY <2>2, <4>1, RenegotiateKeysDoes
      <4>2. CASE UserRuns(u)
        <5>1. th[u].pc \in {"clear", "local", "emit", "wait", "check"}
          BY <4>2 DEF UserRuns, ClearToSend, LocalKexInit, SendKexInit, SendKexInitFails,
                      RenegotiateRaises, RenegotiateFindsActive, RenegotiateReturns
        <5> QED
          BY <1>1, <2>2, <5>1 DEF First, UsersIdle
      <4> QED
        BY <1>4, <4>1, <4>2
    <3>2. tr'[d].initialDone
      BY <1>4, <3>1, UserSteps DEF Steady, SameExchange
    <3> QED
      BY <3>2 DEF First
  <2>3. CASE SideOf[u] # d
    <3>1. th'[d] = th[d] /\ UNCHANGED setup /\ pk'[d] = pk[d]
      BY <1>4, <2>1, <2>3, UserSteps DEF Emitted
    <3>2. OnlyTr(SideOf[u]) /\ Others(u)
      BY <1>4, <2>1, ClearToSendDoes, LocalKexInitDoes, SendKexInitDoes, RenegotiateKeysDoes, SendersWrite,
         MovesDo DEF UserRuns, OnlyTr, Moved
    <3> QED
      BY <1>1, <1>2, <2>3, <3>1, <3>2 DEF OnlyTr, Others
  <2> QED
    BY <2>2, <2>3
<1>5. ASSUME NEW s \in Sides, TransportRuns(s) PROVE First(d)'
  <2>1. CASE s = d
    BY <1>1, <1>5, <2>1, FirstSteps
  <2>2. CASE s # d
    <3>1. OnlyTr(s) /\ Others(s)
      BY <1>5, TransportAlone
    <3>2. pk'[d] = pk[d] /\ UNCHANGED setup
      BY <1>5, <2>2, PacketizerAlone
    <3> QED
      BY <1>1, <1>2, <2>2, <3>1, <3>2 DEF OnlyTr, Others
  <2> QED
    BY <2>1, <2>2
<1>6. ASSUME NEW s \in Sides, NEW kind \in Traffic, SendUserMessage(s, kind) PROVE First(d)'
  <2>1. UNCHANGED <<setup, tr, th>> /\ Emitted(s, kind, NoKey) /\ tr[s].clear
    BY <1>6, SendUserMessageDoes
  <2>2. CASE s = d
    BY <1>1, <2>1, <2>2 DEF First, FirstPlace
  <2>3. CASE s # d
    BY <1>1, <1>2, <2>1, <2>3 DEF Emitted
  <2> QED
    BY <2>2, <2>3
<1> QED
  BY <1>3, <1>4, <1>5, <1>6 DEF Next

-----------------------------------------------------------------------------
(* The KEXINITs of a side, wherever they are, are those it has made         *)

InitsKnown(s) ==
    /\ \A i \in Nat : On(s, "kexinit", i) => wire[s][i].val[1] \in 1..tr[s].inits
    /\ th[Peer(s)].msg.kind = "kexinit" => th[Peer(s)].msg.val[1] \in 1..tr[s].inits
    /\ \A t \in Threads : Home(t) = s /\ th[t].pc = "emit" => th[t].init \in 1..tr[s].inits
AllInitsKnown == \A s \in Sides : InitsKnown(s)

\* What a step of a transport thread does to the wires.
LEMMA WireEffects ==
    ASSUME Typed, NEW s \in Sides, TransportRuns(s)
    PROVE  \/ UNCHANGED wire
           \/ Taken(s)
           \/ th[s].pc = "emit" /\ Emitted(s, "kexinit", <<th[s].init, 0>>)
           \/ th[s].pc = "newkeysout" /\ Emitted(s, "newkeys", NoKey)
           \/ \E k \in Kinds \ {"kexinit", "newkeys"}, val \in Keys : Emitted(s, k, val)
<1>1. s \in Threads /\ Home(s) = s /\ NoKey \in Keys /\ Hash(s) \in Keys
      /\ {"answer", "dhinit", "dhreply", "extinfo"} \subseteq Kinds \ {"kexinit", "newkeys"}
  BY HomeFacts, NoPacketFacts, HashFacts DEF Kinds
<1>2. CASE ClearToSend(s) \/ LocalKexInit(s) \/ SendKexInit(s)
  BY <1>1, <1>2, ClearToSendDoes, LocalKexInitDoes, SendKexInitDoes
<1>3. CASE CheckRekey(s) \/ ReadInterrupted(s) \/ ReadMessage(s)
  BY <1>3, MovesDo, ReadMessageDoes
<1>4. CASE ReadRaises(s) \/ EndOfStream(s) \/ ReplyTimesOut(s)
  BY <1>4, EndsDo
<1>5. CASE Answer(s) \/ Reply(s)
  BY <1>1, <1>5, AnswersDo
<1>6. CASE NegotiateKeys(s) \/ ParseKexInit(s)
  BY <1>1, <1>6, NegotiateKeysDoes, ParseKexInitDoes
<1>7. CASE ParseKexdhInit(s) \/ ParseKexdhReply(s)
  BY <1>1, <1>7, KexdhDo
<1>8. CASE SendNewKeys(s) \/ ResetSeqnoOut(s) \/ SetOutboundCipher(s)
  BY <1>8, SendNewKeysDoes, ResetSeqnoOutDoes, SetOutboundCipherDoes
<1>9. CASE ExpectNewKeys(s) \/ ParseNewKeys(s) \/ ReopenTraffic(s)
  BY <1>1, <1>9, ExpectNewKeysDoes, ParseNewKeysDoes, ReopenTrafficDoes
<1> QED
  BY <1>2, <1>3, <1>4, <1>5, <1>6, <1>7, <1>8, <1>9 DEF TransportRuns

\* What a step may do to the KEXINITs on the wire of d, in the hands of the transport
\* thread of d, and in those of a thread of d that is about to send one.
InitsOnWire(d) ==
    \/ \A i \in Nat : On(d, "kexinit", i)' => On(d, "kexinit", i) /\ wire'[d][i] = wire[d][i]
    \/ \E t \in Threads : Home(t) = d /\ th[t].pc = "emit" /\ Emitted(d, "kexinit", <<th[t].init, 0>>)
    \/ Taken(Peer(d))
InitInHand(d) ==
    \/ th'[d].msg = th[d].msg
    \/ th'[d].msg = NoPacket
    \/ Taken(d) /\ th'[d].msg = Head(wire[Peer(d)])
InitsToSend(d) ==
    /\ tr'[d].inits \in {tr[d].inits, tr[d].inits + 1}
    /\ \A t \in Threads : Home(t) = d /\ th'[t].pc = "emit" =>
          \/ th[t].pc = "emit" /\ th'[t].init = th[t].init
          \/ th'[t].init = tr'[d].inits /\ tr'[d].inits = tr[d].inits + 1

\* That much keeps them known.
LEMMA InitsStayKnown ==
    ASSUME Typed, NEW d \in Sides, InitsKnown(d), InitsOnWire(d), InitInHand(Peer(d)), InitsToSend(d)
    PROVE  InitsKnown(d)'
<1>1. tr[d].inits \in Nat /\ Peer(d) \in Sides /\ Peer(Peer(d)) = d /\ "kexinit" \in Kinds
  BY PeerFacts DEF Typed, TrOK, TransportStates, Kinds
<1>2. 1..tr[d].inits \subseteq 1..tr'[d].inits
  BY <1>1 DEF InitsToSend
<1>3. ASSUME NEW i \in Nat, On(d, "kexinit", i)' PROVE wire'[d][i].val[1] \in 1..tr[d].inits
  <2>1. CASE On(d, "kexinit", i) /\ wire'[d][i] = wire[d][i]
    BY <2>1 DEF InitsKnown
  <2>2. CASE Taken(Peer(d))
    <3>1. On(d, "kexinit", i + 1) /\ i + 1 \in Nat /\ wire'[d][i] = wire[d][i + 1]
      BY <1>1, <1>3, <2>2, WiresTaken
    <3> QED
      BY <3>1 DEF InitsKnown
  <2>3. CASE \E t \in Threads : Home(t) = d /\ th[t].pc = "emit" /\ Emitted(d, "kexinit", <<th[t].init, 0>>)
    <3>1. PICK t \in Threads : Home(t) = d /\ th[t].pc = "emit" /\ Emitted(d, "kexinit", <<th[t].init, 0>>)
      BY <2>3
    <3>2. CASE i = Len(wire[d]) + 1
      <4>1. wire'[d][i].val = <<th[t].init, 0>>
        BY <3>1, <3>2 DEF Emitted
      <4>2. th[t].init \in 1..tr[d].inits
        BY <3>1 DEF InitsKnown
      <4> QED
        BY <4>1, <4>2
    <3>3. CASE On(d, "kexinit", i)
      <4>1. wire'[d][i] = wire[d][i]
        BY <3>1, <3>3 DEF Emitted, On
      <4> QED
        BY <3>3, <4>1 DEF InitsKnown
    <3> QED
      BY <1>1, <1>3, <3>1, <3>2, <3>3 DEF Emitted
  <2> QED
    BY <1>3, <2>1, <2>2, <2>3 DEF InitsOnWire
<1>4. ASSUME th'[Peer(d)].msg.kind = "kexinit" PROVE th'[Peer(d)].msg.val[1] \in 1..tr[d].inits
  <2>1. CASE th'[Peer(d)].msg = th[Peer(d)].msg
    BY <1>4, <2>1 DEF InitsKnown
  <2>2. CASE th'[Peer(d)].msg = NoPacket
    BY <1>4, <2>2, NoPacketFacts
  <2>3. CASE Taken(Peer(d)) /\ th'[Peer(d)].msg = Head(wire[d])
    <3>1. On(d, "kexinit", 1) /\ Head(wire[d]) = wire[d][1]
      BY <1>1, <1>4, <2>3 DEF Taken
    <3> QED
      BY <2>3, <3>1 DEF InitsKnown
  <2> QED
    BY <1>1, <2>1, <2>2, <2>3 DEF InitInHand
<1>5. ASSUME NEW t \in Threads, Home(t) = d, th'[t].pc = "emit" PROVE th'[t].init \in 1..tr'[d].inits
  <2>1. CASE th[t].pc = "emit" /\ th'[t].init = th[t].init
    BY <1>2, <1>5, <2>1 DEF InitsKnown
  <2>2. CASE th'[t].init = tr'[d].inits /\ tr'[d].inits = tr[d].inits + 1
    BY <1>1, <2>2
  <2> QED
    BY <1>5, <2>1, <2>2 DEF InitsToSend
<1> QED
  BY <1>2, <1>3, <1>4, <1>5 DEF InitsKnown

\* Threads that send no new KEXINIT.
LEMMA NothingMade ==
    ASSUME NEW d \in Sides, NEW t \in Threads, Others(t), tr'[d].inits = tr[d].inits,
           th'[t].pc = "emit" => Home(t) # d
    PROVE  InitsToSend(d)
  BY DEF InitsToSend, Others

\* The effects of a transport thread's step.
LEMMA TransportInits ==
    ASSUME Typed, NEW s \in Sides, TransportRuns(s), NEW d \in Sides
    PROVE  InitsOnWire(d) /\ InitInHand(d) /\ InitsToSend(d)
<1>1. s \in Threads /\ Home(s) = s /\ "kexinit" \in Kinds /\ d \in Threads
  BY HomeFacts DEF Kinds
<1>2. OnlyTr(s) /\ Others(s)
  BY TransportAlone
<1>3. InitsOnWire(d)
  <2>1. CASE UNCHANGED wire
    BY <2>1 DEF InitsOnWire, On
  <2>2. CASE Taken(s)
    <3>1. CASE d = s
      BY <1>1, <2>2, <3>1, WiresTaken DEF InitsOnWire
    <3>2. CASE d # s
      <4>1. s = Peer(d)
        BY <3>2 DEF Sides, Peer
      <4> QED
        BY <2>2, <4>1 DEF InitsOnWire
    <3> QED
      BY <3>1, <3>2
  <2>3. ASSUME NEW k \in Kinds, NEW val \in Keys, Emitted(s, k, val), d # s \/ k # "kexinit" PROVE InitsOnWire(d)
    <3>1. CASE d # s
      <4>1. wire'[d] = wire[d]
        BY <2>3, <3>1 DEF Emitted
      <4> QED
        BY <4>1 DEF InitsOnWire, On
    <3>2. CASE d = s /\ k # "kexinit"
      <4>1. \A i \in Nat : On(d, "kexinit", i)' => On(d, "kexinit", i)
        BY <1>1, <2>3, <3>2 DEF Emitted
      <4>2. \A i \in Nat : On(d, "kexinit", i) => wire'[d][i] = wire[d][i]
        BY <2>3, <3>2 DEF Emitted, On
      <4> QED
        BY <4>1, <4>2 DEF InitsOnWire
    <3> QED
      BY <2>3, <3>1, <3>2
  <2>4. CASE th[s].pc = "emit" /\ Emitted(s, "kexinit", <<th[s].init, 0>>)
    <3>1. <<th[s].init, 0>> \in Keys
      BY <1>1 DEF Typed, ThOK, ThreadStates, Keys
    <3>2. CASE d = s
      BY <1>1, <2>4, <3>2 DEF InitsOnWire
    <3>3. CASE d # s
      BY <1>1, <2>3, <2>4, <3>1, <3>3
    <3> QED
      BY <3>2, <3>3
  <2>5. CASE Emitted(s, "newkeys", NoKey)
    BY <2>3, <2>5, NoPacketFacts DEF Kinds
  <2>6. CASE \E k \in Kinds \ {"kexinit", "newkeys"}, val \in Keys : Emitted(s, k, val)
    BY <2>3, <2>6
  <2> QED
    BY <2>1, <2>2, <2>4, <2>5, <2>6, WireEffects
<1>4. CASE d # s
  <2>1. th'[d] = th[d] /\ tr'[d] = tr[d] /\ \A t \in Threads : Home(t) = d => th'[t] = th[t]
    BY <1>1, <1>2, <1>4 DEF OnlyTr, Others
  <2> QED
    BY <1>3, <2>1 DEF InitInHand, InitsToSend
<1>5. CASE d = s
  <2>1. ASSUME tr'[s].inits = tr[s].inits, th'[s].pc # "emit" PROVE InitsToSend(d)
    BY <1>1, <1>2, <1>5, <2>1, NothingMade
  <2>2. CASE ClearToSend(s)
    <3>1. th'[s].pc = "local" /\ th'[s].msg = th[s].msg
      BY <1>1, <2>2, ClearToSendDoes DEF Moved
    <3>2. tr'[s].inits = tr[s].inits
      BY <1>1, <2>2, SendersWrite DEF SameInits
    <3> QED
      BY <1>3, <1>5, <2>1, <3>1, <3>2 DEF InitInHand
  <2>3. CASE LocalKexInit(s)
    <3>1. th'[s].msg = th[s].msg /\ th'[s].init = tr[s].inits + 1
      BY <1>1, <2>3, LocalKexInitDoes
    <3>2. tr'[s].inits = tr[s].inits + 1
      BY <1>1, <2>3, SendersWrite
    <3> QED
      BY <1>1, <1>2, <1>3, <1>5, <3>1, <3>2 DEF InitInHand, InitsToSend, Others
  <2>4. CASE SendKexInit(s)
    <3>1. th'[s].pc # "emit" /\ th'[s].msg = th[s].msg /\ UNCHANGED tr
      BY <1>1, <2>4, SendKexInitDoes DEF Moved
    <3> QED
      BY <1>3, <1>5, <2>1, <3>1 DEF InitInHand
  <2>5. CASE CheckRekey(s) \/ ReadInterrupted(s)
    <3>1. th'[s].pc # "emit" /\ th'[s].msg = th[s].msg /\ UNCHANGED tr
      BY <2>5, MovesDo DEF Moved
    <3> QED
      BY <1>3, <1>5, <2>1, <3>1 DEF InitInHand
  <2>6. CASE ReadMessage(s)
    <3> DEFINE p == Head(wire[Peer(s)])
    <3> DEFINE b == tr[s].expected # {}
    <3>1. Taken(s) /\ (th'[s].msg = NoPacket \/ th'[s].msg = p) /\ th'[s].pc = Handler(p.kind, b)
      BY <2>6, ReadMessageDoes
    <3>2. p.kind \in Kinds /\ b \in BOOLEAN
      BY <3>1 DEF Taken, Packets
    <3>3. th'[s].pc # "emit"
      <4> HIDE DEF p, b
      <4> QED
        BY <3>1, <3>2, HandlerFacts
    <3>4. tr'[s].inits = tr[s].inits
      BY <2>6, HandlersWrite DEF SameInits
    <3> QED
      BY <1>3, <1>5, <2>1, <3>1, <3>3, <3>4 DEF InitInHand
  <2>7. CASE ReadRaises(s) \/ EndOfStream(s) \/ ReplyTimesOut(s)
    <3>1. th'[s].pc # "emit" /\ th'[s].msg = th[s].msg /\ tr'[s].inits = tr[s].inits
      BY <2>7, EndsDo DEF Dies, Moved, SameKex
    <3> QED
      BY <1>3, <1>5, <2>1, <3>1 DEF InitInHand
  <2>8. CASE Answer(s) \/ Reply(s)
    <3>1. th'[s].pc # "emit" /\ th'[s].msg = NoPacket /\ UNCHANGED tr
      BY <2>8, AnswersDo DEF Finished
    <3> QED
      BY <1>3, <1>5, <2>1, <3>1 DEF InitInHand
  <2>9. CASE NegotiateKeys(s) \/ ParseKexInit(s) \/ SetOutboundCipher(s) \/ ExpectNewKeys(s)
    <3>1. th'[s].pc # "emit" /\ (th'[s].msg = NoPacket \/ th'[s].msg = th[s].msg)
      BY <2>9, NegotiateKeysDoes, ParseKexInitDoes, SetOutboundCipherDoes, ExpectNewKeysDoes
         DEF Finished, Moved
    <3>2. tr'[s].inits = tr[s].inits
      BY <2>9, HandlersWrite DEF SameInits
    <3> QED
      BY <1>3, <1>5, <2>1, <3>1, <3>2 DEF InitInHand
  <2>10. CASE ParseKexdhInit(s) \/ ParseKexdhReply(s)
    <3>1. th'[s].pc # "emit" /\ th'[s].msg = th[s].msg /\ tr'[s].inits = tr[s].inits
      BY <2>10, KexdhDo DEF Hashed, Moved, SameKex
    <3> QED
      BY <1>3, <1>5, <2>1, <3>1 DEF InitInHand
  <2>11. CASE SendNewKeys(s) \/ ResetSeqnoOut(s)
    <3>1. th'[s].pc # "emit" /\ th'[s].msg = th[s].msg /\ UNCHANGED tr
      BY <2>11, SendNewKeysDoes, ResetSeqnoOutDoes DEF Moved
    <3> QED
      BY <1>3, <1>5, <2>1, <3>1 DEF InitInHand
  <2>12. CASE ParseNewKeys(s) \/ ReopenTraffic(s)
    <3>1. /\ th'[s].pc # "emit" /\ (th'[s].msg = NoPacket \/ th'[s].msg = th[s].msg)
          /\ tr'[s].inits = tr[s].inits
      BY <2>12, ParseNewKeysDoes, ReopenTrafficDoes DEF Moved, Finished
    <3> QED
      BY <1>3, <1>5, <2>1, <3>1 DEF InitInHand
  <2> QED
    BY <2>2, <2>3, <2>4, <2>5, <2>6, <2>7, <2>8, <2>9, <2>10, <2>11, <2>12 DEF TransportRuns
<1> QED
  BY <1>4, <1>5

\* The effects of a user's step.
LEMMA UserInits ==
    ASSUME Typed, NEW u \in Users, RenegotiateKeys(u) \/ UserRuns(u), NEW d \in Sides
    PROVE  InitsOnWire(d) /\ InitInHand(d) /\ InitsToSend(d)
<1>1. u \in Threads /\ Home(u) = SideOf[u] /\ SideOf[u] \in Sides /\ u \notin Sides /\ d \in Threads
      /\ "kexinit" \in Kinds
  BY HomeFacts DEF Kinds
<1>2. InitInHand(d)
  BY UserSteps DEF InitInHand
<1>3. InitsOnWire(d)
  <2>1. CASE UNCHANGED wire
    BY <2>1 DEF InitsOnWire, On
  <2>2. CASE th[u].pc = "emit" /\ Emitted(SideOf[u], "kexinit", <<th[u].init, 0>>)
    <3>1. CASE d = SideOf[u]
      BY <1>1, <2>2, <3>1 DEF InitsOnWire
    <3>2. CASE d # SideOf[u]
      <4>1. wire'[d] = wire[d]
        BY <2>2, <3>2 DEF Emitted
      <4> QED
        BY <4>1 DEF InitsOnWire, On
    <3> QED
      BY <3>1, <3>2
  <2> QED
    BY <2>1, <2>2, UserSteps
<1>4. InitsToSend(d)
  <2>1. CASE LocalKexInit(u)
    <3>1. OnlyTr(SideOf[u]) /\ tr'[SideOf[u]].inits = tr[SideOf[u]].inits + 1
      BY <1>1, <2>1, SendersWrite
    <3>2. Others(u) /\ th'[u].init = tr[SideOf[u]].inits + 1
      BY <1>1, <2>1, LocalKexInitDoes
    <3> QED
      BY <1>1, <3>1, <3>2 DEF InitsToSend, Others, OnlyTr
  <2>2. ASSUME Others(u), th'[u].pc # "emit", OnlyTr(SideOf[u]), tr'[SideOf[u]].inits = tr[SideOf[u]].inits
        PROVE  InitsToSend(d)
    <3>1. tr'[d].inits = tr[d].inits
      BY <2>2 DEF OnlyTr
    <3> QED
      BY <1>1, <2>2, <3>1, NothingMade
  <2>3. CASE ClearToSend(u)
    BY <1>1, <2>2, <2>3, ClearToSendDoes, SendersWrite DEF Moved, SameInits
  <2>4. CASE RenegotiateKeys(u)
    BY <1>1, <2>2, <2>4, RenegotiateKeysDoes, SendersWrite DEF SameInits
  <2>5. CASE SendKexInit(u)
    <3>1. Others(u) /\ th'[u].pc = "wait" /\ UNCHANGED tr
      BY <1>1, <2>5, SendKexInitDoes DEF Moved
    <3> QED
      BY <2>2, <3>1 DEF OnlyTr
  <2>6. CASE \/ SendKexInitFails(u) \/ RenegotiateRaises(u)
         \/ RenegotiateFindsActive(u) \/ RenegotiateReturns(u)
    <3>1. Others(u) /\ th'[u].pc \in {"wait", "check", "done", "failed"} /\ UNCHANGED tr
      BY <2>6, MovesDo DEF Moved
    <3> QED
      BY <2>2, <3>1 DEF OnlyTr
  <2> QED
    BY <2>1, <2>3, <2>4, <2>5, <2>6 DEF UserRuns
<1> QED
  BY <1>2, <1>3, <1>4

\* No KEXINIT at first.
LEMMA InitInitsKnown == Init => AllInitsKnown
<1> SUFFICES ASSUME Init, NEW s \in Sides PROVE InitsKnown(s)
  BY DEF AllInitsKnown
<1>1. Peer(s) \in Threads
  BY PeerFacts, HomeFacts
<1>2. wire[s] = <<>> /\ th[Peer(s)].msg = NoPacket /\ \A t \in Threads : th[t].pc \in {"clear", "idle"}
  BY <1>1 DEF Init
<1>3. \A i \in Nat : ~On(s, "kexinit", i)
  BY <1>2 DEF On
<1> QED
  BY <1>2, <1>3, NoPacketFacts DEF InitsKnown

\* Every step keeps the KEXINITs known.
LEMMA NextInitsKnown == Typed /\ AllInitsKnown /\ [Next]_vars => AllInitsKnown'
<1> SUFFICES ASSUME Typed, AllInitsKnown, [Next]_vars, NEW d \in Sides PROVE InitsKnown(d)'
  BY DEF AllInitsKnown
<1>1. InitsKnown(d) /\ Peer(d) \in Sides
  BY PeerFacts DEF AllInitsKnown
<1>2. ASSUME UNCHANGED <<tr, th>>, InitsOnWire(d) PROVE InitsKnown(d)'
  <2>1. InitInHand(Peer(d)) /\ InitsToSend(d)
    BY <1>2 DEF InitInHand, InitsToSend
  <2> QED
    BY <1>1, <1>2, <2>1, InitsStayKnown
<1>3. CASE UNCHANGED vars
  BY <1>2, <1>3 DEF vars, InitsOnWire, On
<1>4. ASSUME NEW u \in Users, RenegotiateKeys(u) \/ UserRuns(u) PROVE InitsKnown(d)'
  BY <1>1, <1>4, UserInits, InitsStayKnown
<1>5. ASSUME NEW s \in Sides, TransportRuns(s) PROVE InitsKnown(d)'
  BY <1>1, <1>5, TransportInits, InitsStayKnown
<1>6. ASSUME NEW s \in Sides, NEW kind \in Traffic, SendUserMessage(s, kind) PROVE InitsKnown(d)'
  <2>1. UNCHANGED <<tr, th>> /\ Emitted(s, kind, NoKey) /\ kind # "kexinit" /\ "kexinit" \in Kinds
    BY <1>6, SendUserMessageDoes DEF Traffic, Kinds
  <2>2. \A i \in Nat : On(d, "kexinit", i)' => On(d, "kexinit", i) /\ wire'[d][i] = wire[d][i]
    <3>1. CASE d = s
      <4>1. \A i \in Nat : On(d, "kexinit", i)' => On(d, "kexinit", i)
        BY <2>1, <3>1 DEF Emitted
      <4>2. \A i \in Nat : On(d, "kexinit", i) => wire'[d][i] = wire[d][i]
        BY <2>1, <3>1 DEF Emitted, On
      <4> QED
        BY <4>1, <4>2
    <3>2. CASE d # s
      BY <2>1, <3>2 DEF Emitted, On
    <3> QED
      BY <3>1, <3>2
  <2> QED
    BY <1>2, <2>1, <2>2 DEF InitsOnWire
<1> QED
  BY <1>3, <1>4, <1>5, <1>6 DEF Next

-----------------------------------------------------------------------------
(* The session_id                                                           *)

\* The message of the peer that a side's hash is computed from.
DhOf(s) == IF s = "client" THEN {"dhreply"} ELSE {"dhinit"}

\* Past the first hash there is a session_id.
HasId(s) ==
    (\/ th[s].pc \in Switching \cup {"newkeysin"} \/ tr[s].expected = {"newkeys"}
     \/ tr[s].initialDone \/ tr[Peer(s)].initialDone
     \/ Out(s, "newkeys") \/ th[Peer(s)].pc = "newkeysin")
    => tr[s].sessionId # NoKey

\* The first hash is computed from the first KEXINIT of the peer.
FirstHash(s) ==
    tr[s].sessionId = NoKey /\ (tr[s].expected = DhOf(s) \/ th[s].pc = "dh") => tr[s].remote = 1

\* The session_id is the hash of the two first KEXINITs.
FirstId(s) == tr[s].sessionId \in {NoKey, <<1, 1>>}

Bound(s) == HasId(s) /\ FirstHash(s) /\ FirstId(s)
AllBound == \A s \in Sides : Bound(s)

\* A side that keeps its part, while the other's NEWKEYS stay where they are.
LEMMA BoundKept ==
    ASSUME NEW s \in Sides, Bound(s), tr'[s].sessionId = tr[s].sessionId,
           th'[s].pc \in Switching \cup {"newkeysin"} =>
               th[s].pc \in Switching \cup {"newkeysin"} \/ tr[s].initialDone \/ tr[s].expected = {"newkeys"},
           tr'[s].expected = {"newkeys"} => tr[s].expected = {"newkeys"} \/ th[s].pc = "extinfo",
           tr'[s].initialDone => tr[s].initialDone \/ th[s].pc = "newkeysin",
           tr'[Peer(s)].initialDone => tr[Peer(s)].initialDone \/ th[Peer(s)].pc = "newkeysin",
           Out(s, "newkeys")' => Out(s, "newkeys") \/ th[s].pc = "newkeysout",
           th'[Peer(s)].pc = "newkeysin" => th[Peer(s)].pc = "newkeysin" \/ Out(s, "newkeys"),
           tr'[s].expected = DhOf(s) \/ th'[s].pc = "dh" =>
               \/ tr'[s].remote = tr[s].remote /\ (tr[s].expected = DhOf(s) \/ th[s].pc = "dh")
               \/ tr[s].sessionId = NoKey => tr'[s].remote = 1
    PROVE  Bound(s)'
<1>1. HasId(s)'
  BY DEF Bound, HasId, Switching
<1>2. FirstHash(s)'
  BY DEF Bound, FirstHash, DhOf
<1>3. FirstId(s)'
  BY DEF Bound, FirstId
<1> QED
  BY <1>1, <1>2, <1>3 DEF Bound

\* The hash that becomes the session_id.
LEMMA BoundHashed ==
    ASSUME Typed, NEW s \in Sides, Waits(s), First(s), Bound(s), th[s].pc = "dh", Hashed(s),
           th'[s].pc # "dh"
    PROVE  Bound(s)'
<1>1. tr'[s].sessionId = <<1, 1>>
  <2>1. CASE tr[s].sessionId = NoKey
    <3>1. ~tr[s].initialDone /\ tr[s].remote = 1
      BY <2>1 DEF Bound, HasId, FirstHash
    <3>2. tr[s].local = 1
      BY <3>1 DEF First, FirstPlace
    <3> QED
      BY <2>1, <3>1, <3>2 DEF Hashed, Hash
  <2>2. CASE tr[s].sessionId # NoKey
    BY <2>2 DEF Bound, FirstId, Hashed
  <2> QED
    BY <2>1, <2>2
<1>2. <<1, 1>> # NoKey
  BY DEF NoKey
<1> QED
  BY <1>1, <1>2 DEF Bound, HasId, FirstHash, FirstId

\* NEWKEYS that are on their way after a step of a transport thread.
LEMMA NewKeysOut ==
    ASSUME Typed, NEW s \in Sides, TransportRuns(s)
    PROVE  /\ Out(s, "newkeys")' => Out(s, "newkeys") \/ th[s].pc = "newkeysout"
           /\ Out(Peer(s), "newkeys")' => Out(Peer(s), "newkeys")
<1>1. "newkeys" \in Kinds /\ Peer(s) \in Sides /\ Peer(s) # s /\ NoKey \in Keys /\ "kexinit" \in Kinds
  BY PeerFacts, NoPacketFacts DEF Kinds
<1>2. CASE UNCHANGED wire
  BY <1>2 DEF Out, On
<1>3. CASE Taken(s)
  BY <1>1, <1>3, WiresTaken
<1>4. ASSUME NEW k \in Kinds, NEW val, Emitted(s, k, val)
      PROVE  /\ Out(Peer(s), "newkeys")' => Out(Peer(s), "newkeys")
             /\ k # "newkeys" => (Out(s, "newkeys")' => Out(s, "newkeys"))
  <2>1. wire'[Peer(s)] = wire[Peer(s)]
    BY <1>1, <1>4 DEF Emitted
  <2>2. k # "newkeys" => \A i \in Nat : On(s, "newkeys", i)' => On(s, "newkeys", i)
    BY <1>1, <1>4 DEF Emitted
  <2> QED
    BY <2>1, <2>2 DEF Out, On
<1>5. CASE th[s].pc = "emit" /\ Emitted(s, "kexinit", <<th[s].init, 0>>)
  BY <1>1, <1>4, <1>5
<1>6. CASE th[s].pc = "newkeysout" /\ Emitted(s, "newkeys", NoKey)
  BY <1>1, <1>4, <1>6
<1>7. CASE \E k \in Kinds \ {"kexinit", "newkeys"}, val \in Keys : Emitted(s, k, val)
  BY <1>4, <1>7
<1> QED
  BY <1>2, <1>3, <1>5, <1>6, <1>7, WireEffects

\* A step of s after which its exchange, and its place in it, are what they were.
PlainStep(s) ==
    /\ Steady(s)
    /\ th[s].pc # "dh" /\ th'[s].pc \notin {"dh", "newkeysin"}
    /\ th'[s].pc \in Switching => th[s].pc \in Switching

\* The steps of the exchange: all others are plain.
LEMMA PlainSteps ==
    ASSUME Typed, NEW s \in Sides, TransportRuns(s)
    PROVE  \/ PlainStep(s)
           \/ ReadMessage(s) \/ ParseKexInit(s) \/ ParseKexdhInit(s) \/ ParseKexdhReply(s)
           \/ ExpectNewKeys(s) \/ ParseNewKeys(s)
<1>1. s \in Threads /\ Home(s) = s /\ s \notin Users
  BY HomeFacts
<1>2. ASSUME UNCHANGED tr PROVE Steady(s)
  BY <1>2 DEF Steady, SameExchange
<1>3. CASE ClearToSend(s) \/ LocalKexInit(s)
  <2>1. th[s].pc \in {"clear", "local"} /\ th'[s].pc \in {"local", "emit"}
    BY <1>1, <1>3, ClearToSendDoes, LocalKexInitDoes DEF Moved
  <2> QED
    BY <1>1, <1>3, <2>1, SendersWrite DEF PlainStep, Switching
<1>4. CASE SendKexInit(s) \/ CheckRekey(s) \/ ReadInterrupted(s)
  <2>1. /\ th[s].pc \in {"emit", "top", "reading"} /\ UNCHANGED tr
        /\ th'[s].pc \in {"parse", "reading", "clear", "top"}
    BY <1>1, <1>4, SendKexInitDoes, MovesDo DEF Moved
  <2> QED
    BY <1>2, <2>1 DEF PlainStep, Switching
<1>5. CASE ReadRaises(s) \/ EndOfStream(s) \/ ReplyTimesOut(s)
  <2>1. th[s].pc \in {"reading", "reply"} /\ th'[s].pc = "dead" /\ Steady(s)
    BY <1>5, EndsDo DEF Dies, Moved, SameKex, Steady, SameExchange
  <2> QED
    BY <2>1 DEF PlainStep, Switching
<1>6. CASE Answer(s) \/ Reply(s)
  <2>1. th[s].pc \in {"answer", "reply"} /\ th'[s].pc = "top" /\ UNCHANGED tr
    BY <1>6, AnswersDo DEF Finished
  <2> QED
    BY <1>2, <2>1 DEF PlainStep, Switching
<1>7. CASE NegotiateKeys(s)
  <2>1. th[s].pc = "negotiate" /\ th'[s].pc \in {"clear", "parse"} /\ Steady(s)
    BY <1>7, NegotiateKeysDoes, HandlersWrite DEF Moved
  <2> QED
    BY <2>1 DEF PlainStep, Switching
<1>8. CASE SendNewKeys(s) \/ ResetSeqnoOut(s)
  <2>1. th[s].pc \in {"newkeysout", "reset"} /\ th'[s].pc \in {"reset", "cipher"} /\ UNCHANGED tr
    BY <1>8, SendNewKeysDoes, ResetSeqnoOutDoes DEF Moved
  <2> QED
    BY <1>2, <2>1 DEF PlainStep, Switching
<1>9. CASE SetOutboundCipher(s)
  <2>1. th[s].pc = "cipher" /\ th'[s].pc = "extinfo" /\ Steady(s)
    BY <1>9, SetOutboundCipherDoes, HandlersWrite DEF Moved
  <2> QED
    BY <2>1 DEF PlainStep, Switching
<1>10. CASE ReopenTraffic(s)
  <2>1. th[s].pc = "reopen" /\ th'[s].pc = "top" /\ Steady(s)
    BY <1>10, ReopenTrafficDoes DEF Finished, Steady, SameExchange
  <2> QED
    BY <2>1 DEF PlainStep, Switching
<1> QED
  BY <1>3, <1>4, <1>5, <1>6, <1>7, <1>8, <1>9, <1>10 DEF TransportRuns

\* What ReadMessage brings a side that has its expectations.
LEMMA ReadBrings ==
    ASSUME Typed, NEW s \in Sides, Waits(s), First(s), ReadMessage(s)
    PROVE  /\ th'[s].pc = "newkeysin" =>
                Out(Peer(s), "newkeys") /\ (tr[s].initialDone \/ tr[s].expected = {"newkeys"})
           /\ th'[s].pc = "dh" => tr[s].expected = DhOf(s)
           /\ th'[s].pc \notin Switching /\ th[s].pc = "reading"
<1> DEFINE p == Head(wire[Peer(s)])
<1> DEFINE b == tr[s].expected # {}
<1> DEFINE place == Handler(p.kind, b)
<1>1. Taken(s) /\ th[s].pc = "reading" /\ th'[s].pc = place /\ (tr[s].expected = {} \/ p.kind \in tr[s].expected)
  BY ReadMessageDoes
<1>2. p.kind \in Kinds /\ b \in BOOLEAN /\ "newkeys" \in Kinds /\ (On(Peer(s), "newkeys", 1) <=> p.kind = "newkeys")
  BY <1>1 DEF Taken, Packets, Kinds
<1>3. /\ b /\ p.kind = "newkeys" => tr[s].expected = {"newkeys"}
      /\ b /\ p.kind \in {"dhinit", "dhreply"} => tr[s].expected = DhOf(s)
  BY <1>1 DEF Waits, Expectations, DhOf
<1>4. ~b => tr[s].initialDone
  BY <1>1 DEF First, FirstPlace
<1> HIDE DEF p, b
<1>5. /\ place = "newkeysin" => p.kind = "newkeys"
      /\ place = "dh" => p.kind \in {"dhinit", "dhreply"} /\ b
      /\ place \in {"negotiate", "dh", "answer", "newkeysin", "reply", "top"}
  BY <1>2, HandlerFacts DEF Kinds, Traffic
<1> HIDE DEF place
<1> QED
  BY <1>1, <1>2, <1>3, <1>4, <1>5 DEF Out, Switching

\* The session_id of the side that steps.
LEMMA BoundSteps ==
    ASSUME Typed, NEW s \in Sides, Waits(s), First(s), First(Peer(s)), Bound(s), InitsKnown(Peer(s)),
           TransportRuns(s)
    PROVE  Bound(s)'
<1>1. /\ Peer(s) \in Sides /\ Peer(s) # s /\ Peer(s) \in Threads /\ Peer(Peer(s)) = s /\ s \in Threads
  BY PeerFacts, HomeFacts
<1>2. th'[Peer(s)] = th[Peer(s)] /\ tr'[Peer(s)] = tr[Peer(s)]
  BY <1>1, TransportAlone DEF OnlyTr, Others
<1>3. Out(s, "newkeys")' => Out(s, "newkeys") \/ th[s].pc = "newkeysout"
  BY NewKeysOut
<1>4. CASE PlainStep(s)
  BY <1>2, <1>3, <1>4, BoundKept DEF PlainStep, Steady, SameExchange
<1>5. CASE ReadMessage(s)
  <2>1. /\ tr'[s].expected = {} /\ tr'[s].sessionId = tr[s].sessionId /\ tr'[s].remote = tr[s].remote
        /\ tr'[s].initialDone = tr[s].initialDone
    BY <1>5, HandlersWrite
  <2>2. tr'[s].expected # DhOf(s) /\ tr'[s].expected # {"newkeys"}
    BY <2>1 DEF DhOf
  <2> QED
    BY <1>2, <1>3, <1>5, <2>1, <2>2, ReadBrings, BoundKept
<1>6. CASE ParseKexInit(s)
  <2>1. th[s].pc = "parse" /\ th'[s].pc = "top"
    BY <1>6, ParseKexInitDoes DEF Finished
  <2>2. /\ tr'[s].expected = DhOf(s) /\ tr'[s].sessionId = tr[s].sessionId
        /\ tr'[s].remote = th[s].msg.val[1] /\ tr'[s].initialDone = tr[s].initialDone
    BY <1>6, HandlersWrite DEF DhOf
  <2>3. th[s].msg.kind = "kexinit"
    BY <2>1 DEF Waits
  <2>4. th[s].msg.val[1] \in 1..tr[Peer(s)].inits
    BY <1>1, <2>3 DEF InitsKnown
  <2>5. tr[s].sessionId = NoKey => tr'[s].remote = 1
    <3> SUFFICES ASSUME tr[s].sessionId = NoKey PROVE tr'[s].remote = 1
      OBVIOUS
    <3>1. ~tr[Peer(s)].initialDone
      BY DEF Bound, HasId
    <3>2. tr[Peer(s)].inits \in {0, 1}
      BY <3>1 DEF First, FirstPlace
    <3> QED
      BY <2>2, <2>4, <3>2
  <2>6. tr'[s].expected # {"newkeys"}
    BY <2>2 DEF DhOf
  <2> QED
    BY <1>2, <1>3, <2>1, <2>2, <2>5, <2>6, BoundKept DEF Switching
<1>7. CASE ParseKexdhInit(s) \/ ParseKexdhReply(s)
  <2>1. th[s].pc = "dh" /\ Hashed(s) /\ th'[s].pc # "dh"
    BY <1>7, KexdhDo DEF Moved
  <2> QED
    BY <2>1, BoundHashed
<1>8. CASE ExpectNewKeys(s)
  <2>1. th[s].pc = "extinfo" /\ th'[s].pc = "top"
    BY <1>8, ExpectNewKeysDoes DEF Finished
  <2>2. /\ tr'[s].expected = {"newkeys"} /\ tr'[s].sessionId = tr[s].sessionId
        /\ tr'[s].initialDone = tr[s].initialDone
    BY <1>8, HandlersWrite
  <2>3. tr'[s].expected # DhOf(s)
    BY <2>2 DEF DhOf
  <2> QED
    BY <1>2, <1>3, <2>1, <2>2, <2>3, BoundKept DEF Switching
<1>9. CASE ParseNewKeys(s)
  <2>1. /\ th[s].pc = "newkeysin" /\ th'[s].pc = "reopen" /\ tr'[s].expected = tr[s].expected
        /\ tr'[s].sessionId = tr[s].sessionId
    BY <1>9, ParseNewKeysDoes DEF Moved
  <2>2. tr[s].sessionId # NoKey
    BY <2>1 DEF Bound, HasId
  <2> QED
    BY <1>2, <1>3, <2>1, <2>2, BoundKept DEF Switching
<1> QED
  BY <1>4, <1>5, <1>6, <1>7, <1>8, <1>9, PlainSteps

\* The session_id of the other side.
LEMMA BoundPeer ==
    ASSUME Typed, NEW s \in Sides, Waits(s), First(s), Bound(Peer(s)), TransportRuns(s)
    PROVE  Bound(Peer(s))'
<1>1. /\ Peer(s) \in Sides /\ Peer(s) # s /\ Peer(s) \in Threads /\ Peer(Peer(s)) = s /\ s \in Threads
  BY PeerFacts, HomeFacts
<1>2. th'[Peer(s)] = th[Peer(s)] /\ tr'[Peer(s)] = tr[Peer(s)]
  BY <1>1, TransportAlone DEF OnlyTr, Others
<1>3. Out(Peer(s), "newkeys")' => Out(Peer(s), "newkeys")
  BY NewKeysOut
<1>4. /\ tr'[s].initialDone => tr[s].initialDone \/ th[s].pc = "newkeysin"
      /\ th'[s].pc = "newkeysin" => Out(Peer(s), "newkeys")
  <2>1. CASE PlainStep(s)
    BY <2>1 DEF PlainStep, Steady, SameExchange
  <2>2. CASE ReadMessage(s)
    BY <2>2, ReadBrings, HandlersWrite
  <2>3. CASE ParseKexInit(s) \/ ExpectNewKeys(s)
    BY <2>3, ParseKexInitDoes, ExpectNewKeysDoes, HandlersWrite DEF Finished
  <2>4. CASE ParseKexdhInit(s) \/ ParseKexdhReply(s)
    BY <2>4, KexdhDo DEF Hashed, SameKex, Moved
  <2>5. CASE ParseNewKeys(s)
    BY <2>5, ParseNewKeysDoes DEF Moved
  <2> QED
    BY <2>1, <2>2, <2>3, <2>4, <2>5, PlainSteps
<1> QED
  BY <1>1, <1>2, <1>3, <1>4, BoundKept

\* No session_id at first.
LEMMA InitBound == Init => AllBound
<1> SUFFICES ASSUME Init, NEW s \in Sides PROVE Bound(s)
  BY DEF AllBound
<1>1. s \in Threads /\ Peer(s) \in Sides /\ Peer(s) \in Threads
  BY PeerFacts, HomeFacts
<1>2. /\ th[s].pc = "clear" /\ th[Peer(s)].pc = "clear" /\ tr[s].expected = {"kexinit"} /\ wire[s] = <<>>
      /\ tr[s].sessionId = NoKey
  BY <1>1 DEF Init
<1>3. tr[s].initialDone = FALSE /\ tr[Peer(s)].initialDone = FALSE
  BY <1>1 DEF Init
<1>4. ~Out(s, "newkeys")
  BY <1>2 DEF Out, On
<1> QED
  BY <1>2, <1>3, <1>4 DEF Bound, HasId, FirstHash, FirstId, DhOf, Switching

\* Every step keeps the session_ids bound to the first exchange.
LEMMA NextBound ==
    Typed /\ AllWait /\ AllFirst /\ AllInitsKnown /\ AllBound /\ [Next]_vars => AllBound'
<1> SUFFICES ASSUME Typed, AllWait, AllFirst, AllInitsKnown, AllBound, [Next]_vars, NEW d \in Sides
             PROVE  Bound(d)'
  BY DEF AllBound
<1>1. Bound(d) /\ Peer(d) \in Sides /\ "newkeys" \in Kinds
  BY PeerFacts DEF AllBound, Kinds
<1>2. ASSUME th'[d] = th[d], th'[Peer(d)] = th[Peer(d)], Steady(d), Steady(Peer(d)),
             Out(d, "newkeys")' => Out(d, "newkeys")
      PROVE  Bound(d)'
  BY <1>1, <1>2, BoundKept DEF Steady, SameExchange
<1>3. CASE UNCHANGED vars
  BY <1>2, <1>3 DEF vars, Steady, SameExchange, Out, On
<1>4. ASSUME NEW s \in Sides, NEW k \in Kinds, NEW val, Emitted(s, k, val), k # "newkeys"
      PROVE  Out(d, "newkeys")' => Out(d, "newkeys")
  <2>1. \A i \in Nat : On(d, "newkeys", i)' => On(d, "newkeys", i)
    <3>1. CASE d = s
      BY <1>1, <1>4, <3>1 DEF Emitted
    <3>2. CASE d # s
      BY <1>4, <3>2 DEF Emitted, On
    <3> QED
      BY <3>1, <3>2
  <2> QED
    BY <2>1 DEF Out
<1>5. ASSUME NEW u \in Users, RenegotiateKeys(u) \/ UserRuns(u) PROVE Bound(d)'
  <2>1. SideOf[u] \in Sides /\ "kexinit" \in Kinds
    BY HomeFacts DEF Kinds
  <2>2. UNCHANGED wire => (Out(d, "newkeys")' => Out(d, "newkeys"))
    BY DEF Out, On
  <2>3. Out(d, "newkeys")' => Out(d, "newkeys")
    BY <1>4, <1>5, <2>1, <2>2, UserSteps
  <2> QED
    BY <1>1, <1>2, <1>5, <2>3, UserSteps
<1>6. ASSUME NEW s \in Sides, TransportRuns(s) PROVE Bound(d)'
  <2>1. Waits(s) /\ First(s) /\ Bound(s) /\ Peer(s) \in Sides
    BY PeerFacts DEF AllWait, AllFirst, AllBound
  <2>2. First(Peer(s)) /\ Bound(Peer(s)) /\ InitsKnown(Peer(s))
    BY <2>1 DEF AllFirst, AllBound, AllInitsKnown
  <2>3. d = s \/ d = Peer(s)
    BY DEF Sides, Peer
  <2> QED
    BY <1>6, <2>1, <2>2, <2>3, BoundSteps, BoundPeer
<1>7. ASSUME NEW s \in Sides, NEW kind \in Traffic, SendUserMessage(s, kind) PROVE Bound(d)'
  <2>1. UNCHANGED <<tr, th>> /\ Emitted(s, kind, NoKey) /\ kind \in Kinds /\ kind # "newkeys"
    BY <1>7, SendUserMessageDoes DEF Traffic, Kinds
  <2>2. Steady(d) /\ Steady(Peer(d))
    BY <2>1 DEF Steady, SameExchange
  <2> QED
    BY <1>2, <1>4, <2>1, <2>2
<1> QED
  BY <1>3, <1>5, <1>6, <1>7 DEF Next

\* The session_id both sides end up with is the hash of their two first KEXINITs, so
\* they agree on it, in every set-up and through all later exchanges: no packet limit,
\* user or crossing KEXINIT makes a side compute its first hash from another one.
THEOREM KexSessionIdAgreed == Spec => []SessionIdAgreed
<1> DEFINE I == Typed /\ AllWait /\ AllFirst /\ AllInitsKnown /\ AllBound
<1>1. Init => I
  BY InitTyped, InitWaits, InitFirst, InitInitsKnown, InitBound
<1>2. I /\ [Next]_vars => I'
  BY NextTyped, NextWaits, NextFirst, NextInitsKnown, NextBound
<1>3. I => SessionIdAgreed
  BY PeerFacts DEF AllBound, Bound, FirstId, SessionIdAgreed
<1> HIDE DEF I
<1> QED
  BY <1>1, <1>2, <1>3, PTL DEF Spec

-----------------------------------------------------------------------------
(* The steps of a transport thread, by their part in an exchange            *)

\* A thread is in _send_kex_init; a transport thread handles the peer's KEXINIT.
Preparing == {"clear", "local", "emit"}
Handles == {"negotiate", "parse"}
Polling == {"wait", "check"}

\* There is one packet of kind k at most on its way from d.
Single(d, k) == \A i, j \in Nat : On(d, k, i) /\ On(d, k, j) => i = j

\* A step adds no packet of kind k to those of d.
Keeps(d, k) == (Out(d, k)' => Out(d, k)) /\ (Single(d, k) => Single(d, k)')

\* Sending adds the packet that is sent.
LEMMA SendingKeeps ==
    ASSUME NEW s \in Sides, NEW kind \in Kinds, NEW val, Emitted(s, kind, val),
           NEW d \in Sides, NEW k \in Kinds
    PROVE  /\ d # s \/ k # kind => Keeps(d, k)
           /\ ~Out(s, kind) => Single(s, kind)'
<1>1. ASSUME d # s PROVE Keeps(d, k)
  <2>1. wire'[d] = wire[d]
    BY <1>1 DEF Emitted
  <2>2. \A i \in Nat : On(d, k, i)' <=> On(d, k, i)
    BY <2>1 DEF On
  <2> QED
    BY <2>2 DEF Keeps, Single, Out
<1>2. ASSUME d = s, k # kind PROVE Keeps(d, k)
  <2>1. \A i \in Nat : On(d, k, i)' <=> On(d, k, i)
    BY <1>2 DEF Emitted
  <2> QED
    BY <2>1 DEF Keeps, Single, Out
<1>3. ASSUME ~Out(s, kind) PROVE Single(s, kind)'
  <2>1. \A i \in Nat : On(s, kind, i)' => i = Len(wire[s]) + 1
    BY <1>3 DEF Emitted, Out
  <2> QED
    BY <2>1 DEF Single
<1> QED
  BY <1>1, <1>2, <1>3

\* Reading takes one away.
LEMMA TakingKeeps ==
    ASSUME Typed, NEW s \in Sides, Taken(s), NEW k \in Kinds
    PROVE  /\ \A d \in Sides : Keeps(d, k)
           /\ Single(Peer(s), k) /\ On(Peer(s), k, 1) => ~Out(Peer(s), k)'
<1>1. Keeps(s, k)
  BY WiresTaken DEF Keeps, Single
<1>2. \A i \in Nat : On(Peer(s), k, i)' => i # 0 /\ On(Peer(s), k, i + 1) /\ i + 1 \in Nat
  BY DEF Taken
<1>3. Single(Peer(s), k) => Single(Peer(s), k)'
  <2> SUFFICES ASSUME Single(Peer(s), k), NEW i \in Nat, NEW j \in Nat,
                      On(Peer(s), k, i)', On(Peer(s), k, j)'
               PROVE  i = j
    BY DEF Single
  <2>1. i + 1 = j + 1
    BY <1>2 DEF Single
  <2> QED
    BY <2>1
<1>4. Keeps(Peer(s), k)
  BY <1>3, WiresTaken DEF Keeps
<1>5. ASSUME Single(Peer(s), k), On(Peer(s), k, 1), NEW i \in Nat, On(Peer(s), k, i)' PROVE FALSE
  <2>1. i + 1 = 1 /\ i # 0
    BY <1>2, <1>5 DEF Single
  <2> QED
    BY <2>1
<1>6. \A d \in Sides : d = s \/ d = Peer(s)
  BY DEF Sides, Peer
<1> QED
  BY <1>1, <1>4, <1>5, <1>6 DEF Out

\* What a transport thread adds to the wires.
LEMMA TransportKeeps ==
    ASSUME Typed, NEW s \in Sides, TransportRuns(s)
    PROVE  /\ \A k \in Kinds : Keeps(Peer(s), k)
           /\ \/ Keeps(s, "kexinit")
              \/ th[s].pc = "emit" /\ (~Out(s, "kexinit") => Single(s, "kexinit")')
           /\ \/ Keeps(s, "newkeys")
              \/ th[s].pc = "newkeysout" /\ (~Out(s, "newkeys") => Single(s, "newkeys")')
           /\ Keeps(s, "dhinit") \/ (th[s].pc = "parse" /\ s = "client")
           /\ Keeps(s, "dhreply") \/ (th[s].pc = "dh" /\ s = "server")
<1>1. /\ s \in Threads /\ Home(s) = s /\ NoKey \in Keys /\ Hash(s) \in Keys /\ Peer(s) \in Sides /\ Peer(s) # s
      /\ {"kexinit", "newkeys", "answer", "dhinit", "dhreply", "extinfo"} \subseteq Kinds
  BY HomeFacts, PeerFacts, NoPacketFacts, HashFacts DEF Kinds
<1>2. ASSUME UNCHANGED wire, NEW d \in Sides, NEW k \in Kinds PROVE Keeps(d, k)
  BY <1>2 DEF Keeps, Single, Out, On
<1>3. CASE UNCHANGED wire
  BY <1>1, <1>2, <1>3
<1>4. CASE Taken(s)
  BY <1>1, <1>4, TakingKeeps
<1>5. ASSUME NEW kind \in Kinds, NEW val, Emitted(s, kind, val),
             kind = "kexinit" => th[s].pc = "emit",
             kind = "newkeys" => th[s].pc = "newkeysout",
             kind = "dhinit" => th[s].pc = "parse" /\ s = "client",
             kind = "dhreply" => th[s].pc = "dh" /\ s = "server"
      PROVE  /\ \A k \in Kinds : Keeps(Peer(s), k)
             /\ \/ Keeps(s, "kexinit")
                \/ th[s].pc = "emit" /\ (~Out(s, "kexinit") => Single(s, "kexinit")')
             /\ \/ Keeps(s, "newkeys")
                \/ th[s].pc = "newkeysout" /\ (~Out(s, "newkeys") => Single(s, "newkeys")')
             /\ Keeps(s, "dhinit") \/ (th[s].pc = "parse" /\ s = "client")
             /\ Keeps(s, "dhreply") \/ (th[s].pc = "dh" /\ s = "server")
  BY <1>1, <1>5, SendingKeeps
<1>6. CASE ClearToSend(s) \/ LocalKexInit(s)
  BY <1>1, <1>3, <1>6, ClearToSendDoes, LocalKexInitDoes
<1>7. CASE SendKexInit(s)
  <2>1. th[s].pc = "emit" /\ Emitted(s, "kexinit", <<th[s].init, 0>>)
    BY <1>1, <1>7, SendKexInitDoes
  <2> QED
    BY <1>1, <1>5, <2>1
<1>8. CASE CheckRekey(s) \/ ReadInterrupted(s) \/ ReadMessage(s)
  BY <1>3, <1>4, <1>8, MovesDo, ReadMessageDoes
<1>9. CASE ReadRaises(s) \/ EndOfStream(s) \/ ReplyTimesOut(s)
  BY <1>3, <1>4, <1>9, EndsDo
<1>10. CASE Answer(s) \/ Reply(s)
  <2>1. Emitted(s, "answer", NoKey)
    BY <1>10, AnswersDo
  <2> QED
    BY <1>1, <1>5, <2>1
<1>11. CASE NegotiateKeys(s)
  BY <1>3, <1>11, NegotiateKeysDoes
<1>12. CASE ParseKexInit(s)
  <2>1. th[s].pc = "parse" /\ IF s = "client" THEN Emitted(s, "dhinit", NoKey) ELSE UNCHANGED <<pk, wire>>
    BY <1>12, ParseKexInitDoes
  <2> QED
    BY <1>1, <1>3, <1>5, <2>1
<1>13. CASE ParseKexdhInit(s)
  <2>1. th[s].pc = "dh" /\ s = "server" /\ Emitted(s, "dhreply", Hash(s))
    BY <1>13, KexdhDo
  <2> QED
    BY <1>1, <1>5, <2>1
<1>14. CASE ParseKexdhReply(s)
  BY <1>3, <1>14, KexdhDo
<1>15. CASE SendNewKeys(s)
  <2>1. th[s].pc = "newkeysout" /\ Emitted(s, "newkeys", NoKey)
    BY <1>15, SendNewKeysDoes
  <2> QED
    BY <1>1, <1>5, <2>1
<1>16. CASE ResetSeqnoOut(s) \/ SetOutboundCipher(s)
  BY <1>3, <1>16, ResetSeqnoOutDoes, SetOutboundCipherDoes
<1>17. CASE ExpectNewKeys(s)
  <2>1. IF s = "server" THEN Emitted(s, "extinfo", NoKey) ELSE UNCHANGED <<pk, wire>>
    BY <1>17, ExpectNewKeysDoes
  <2> QED
    BY <1>1, <1>3, <1>5, <2>1
<1>18. CASE ParseNewKeys(s) \/ ReopenTraffic(s)
  BY <1>3, <1>18, ParseNewKeysDoes, ReopenTrafficDoes
<1> QED
  BY <1>6, <1>7, <1>8, <1>9, <1>10, <1>11, <1>12, <1>13, <1>14, <1>15, <1>16, <1>17, <1>18 DEF TransportRuns

\* _send_kex_init by the transport thread, up to the sending of the KEXINIT.
Prepares(s) ==
    /\ th[s].pc \in {"clear", "local"} /\ th'[s].pc \in {"local", "emit"}
    /\ th'[s].handling = th[s].handling /\ Steady(s) /\ (tr'[s].clear => tr[s].clear)
Offers(s) ==
    /\ th[s].pc = "emit" /\ th'[s].pc = (IF th[s].handling THEN "parse" ELSE "reading")
    /\ th'[s].handling = th[s].handling /\ UNCHANGED tr
Starts(s) ==
    th[s].pc = "top" /\ th'[s].pc = "clear" /\ pk[s].needRekey /\ ~th'[s].handling /\ UNCHANGED tr

\* The peer's KEXINIT.
Hears(s) ==
    /\ th[s].pc = "reading" /\ th'[s].pc = "negotiate" /\ Taken(s) /\ On(Peer(s), "kexinit", 1)
    /\ tr[s].expected \in {{}, {"kexinit"}}
    /\ tr'[s].expected = {} /\ tr'[s].sessionId = tr[s].sessionId /\ tr'[s].clear = tr[s].clear
Negotiates(s) ==
    /\ th[s].pc = "negotiate" /\ th'[s].pc = (IF tr[s].local = 0 THEN "clear" ELSE "parse")
    /\ th'[s].handling = th[s].handling /\ Steady(s) /\ ~tr'[s].clear
Parses(s) ==
    /\ th[s].pc = "parse" /\ th'[s].pc = "top" /\ ~th'[s].handling
    /\ tr'[s].expected = DhOf(s) /\ tr'[s].sessionId = tr[s].sessionId /\ tr'[s].clear = tr[s].clear

\* The rest of the exchange.
Reads(s) ==
    /\ th[s].pc = "reading" /\ th'[s].pc \in {"dh", "answer", "newkeysin", "reply", "top"} /\ Taken(s)
    /\ tr[s].expected = DhOf(s) => th'[s].pc = "dh"
    /\ tr[s].expected = {"newkeys"} => th'[s].pc = "newkeysin"
    /\ th'[s].pc = "dh" => tr[s].expected = DhOf(s) /\ On(Peer(s), IF s = "client" THEN "dhreply" ELSE "dhinit", 1)
    /\ th'[s].pc = "newkeysin" => On(Peer(s), "newkeys", 1)
    /\ tr'[s].expected = {} /\ tr'[s].sessionId = tr[s].sessionId /\ tr'[s].clear = tr[s].clear
Hashes(s) ==
    /\ th[s].pc = "dh" /\ th'[s].pc = "newkeysout"
    /\ tr'[s].expected = tr[s].expected /\ tr'[s].clear = tr[s].clear
Switches(s) ==
    /\ \/ th[s].pc = "newkeysout" /\ th'[s].pc = "reset"
       \/ th[s].pc = "reset" /\ th'[s].pc = "cipher"
       \/ th[s].pc = "cipher" /\ th'[s].pc = "extinfo"
    /\ Steady(s) /\ tr'[s].clear = tr[s].clear
Awaits(s) ==
    /\ th[s].pc = "extinfo" /\ th'[s].pc = "top"
    /\ tr'[s].expected = {"newkeys"} /\ tr'[s].sessionId = tr[s].sessionId /\ tr'[s].clear = tr[s].clear
Renews(s) ==
    /\ th[s].pc = "newkeysin" /\ th'[s].pc = "reopen"
    /\ tr'[s].expected = tr[s].expected /\ tr'[s].sessionId = tr[s].sessionId /\ tr'[s].clear = tr[s].clear
Reopens(s) ==
    /\ th[s].pc = "reopen" /\ th'[s].pc = "top"
    /\ tr'[s].expected = tr[s].expected /\ tr'[s].sessionId = tr[s].sessionId

\* Nothing of an exchange, and the end.
Idles(s) == th[s].pc \in {"top", "reading", "answer", "reply"} /\ th'[s].pc \in {"top", "reading"} /\ UNCHANGED tr
Stops(s) ==
    /\ th[s].pc \in {"reading", "reply", "dh"} /\ th'[s].pc = "dead" /\ ~tr'[s].active
    /\ tr'[s].expected = tr[s].expected /\ tr'[s].clear = tr[s].clear
    /\ tr'[s].sessionId = tr[s].sessionId \/ th[s].pc = "dh"

Acts(s) ==
    \/ Prepares(s) \/ Offers(s) \/ Starts(s) \/ Hears(s) \/ Negotiates(s) \/ Parses(s) \/ Reads(s) \/ Hashes(s)
    \/ Switches(s) \/ Awaits(s) \/ Renews(s) \/ Reopens(s) \/ Idles(s) \/ Stops(s)

\* What is read, and where it goes.
LEMMA ReadActs ==
    ASSUME Typed, NEW s \in Sides, Waits(s), ReadMessage(s)
    PROVE  Hears(s) \/ Reads(s)
<1> DEFINE p == Head(wire[Peer(s)])
<1> DEFINE b == tr[s].expected # {}
<1> DEFINE place == Handler(p.kind, b)
<1>1. /\ th[s].pc = "reading" /\ Taken(s) /\ th'[s].pc = place
      /\ tr[s].expected = {} \/ p.kind \in tr[s].expected
  BY ReadMessageDoes
<1>2. tr'[s].expected = {} /\ tr'[s].sessionId = tr[s].sessionId /\ tr'[s].clear = tr[s].clear
  BY HandlersWrite DEF SameGates
<1>3. p.kind \in Kinds /\ b \in BOOLEAN /\ \A k \in Kinds : On(Peer(s), k, 1) <=> p.kind = k
  BY <1>1 DEF Taken, Packets
<1>4. tr[s].expected \in {{}, {"kexinit"}, {"newkeys"}, DhOf(s)}
  BY DEF Waits, Expectations, DhOf
<1>5. {"kexinit", "newkeys", "dhinit", "dhreply"} \subseteq Kinds
  BY DEF Kinds
<1> HIDE DEF p
<1>6. CASE p.kind = "kexinit"
  <2>1. place = "negotiate" /\ On(Peer(s), "kexinit", 1)
    BY <1>3, <1>6, HandlerFacts
  <2>2. tr[s].expected \in {{}, {"kexinit"}}
    BY <1>1, <1>4, <1>6 DEF DhOf
  <2> QED
    BY <1>1, <1>2, <2>1, <2>2 DEF Hears
<1>7. CASE p.kind = "newkeys"
  <2>1. place = "newkeysin" /\ On(Peer(s), "newkeys", 1)
    BY <1>3, <1>7, HandlerFacts
  <2>2. tr[s].expected # DhOf(s)
    BY <1>1, <1>7 DEF DhOf
  <2> QED
    BY <1>1, <1>2, <2>1, <2>2 DEF Reads
<1>8. CASE p.kind \in {"dhinit", "dhreply"}
  <2>1. place = IF b THEN "dh" ELSE "answer"
    BY <1>3, <1>8, HandlerFacts
  <2>2. CASE tr[s].expected = {}
    <3>1. place = "answer"
      BY <2>1, <2>2
    <3> QED
      BY <1>1, <1>2, <2>2, <3>1 DEF Reads, DhOf
  <2>3. CASE tr[s].expected # {}
    <3>1. place = "dh"
      BY <2>1, <2>3
    <3>2. tr[s].expected = DhOf(s) /\ p.kind = (IF s = "client" THEN "dhreply" ELSE "dhinit")
      BY <1>1, <1>4, <1>8, <2>3 DEF DhOf
    <3>3. On(Peer(s), IF s = "client" THEN "dhreply" ELSE "dhinit", 1)
      BY <1>3, <1>5, <3>2
    <3>4. tr[s].expected # {"newkeys"}
      BY <3>2 DEF DhOf
    <3> QED
      BY <1>1, <1>2, <3>1, <3>2, <3>3, <3>4 DEF Reads
  <2> QED
    BY <2>2, <2>3
<1>9. CASE p.kind \notin {"kexinit", "newkeys", "dhinit", "dhreply"}
  <2>1. place \in {"answer", "reply", "top"}
    BY <1>3, <1>9, HandlerFacts DEF Kinds, Traffic
  <2>2. tr[s].expected = {}
    BY <1>1, <1>4, <1>9 DEF DhOf
  <2> HIDE DEF place
  <2> QED
    BY <1>1, <1>2, <2>1, <2>2 DEF Reads, DhOf
<1> QED
  BY <1>6, <1>7, <1>8, <1>9

\* Every step of a transport thread is one of these.
LEMMA TransportActs ==
    ASSUME Typed, NEW s \in Sides, Waits(s), TransportRuns(s)
    PROVE  Acts(s)
<1>1. s \in Threads /\ Home(s) = s /\ s \notin Users
  BY HomeFacts
<1>2. CASE ClearToSend(s)
  <2>1. th[s].pc = "clear" /\ Moved(s, "local") /\ Steady(s) /\ ~tr'[s].clear
    BY <1>1, <1>2, ClearToSendDoes, SendersWrite
  <2>2. Prepares(s)
    BY <2>1 DEF Prepares, Moved
  <2> QED
    BY <2>2 DEF Acts
<1>3. CASE LocalKexInit(s)
  <2>1. /\ th[s].pc = "local" /\ th'[s].pc = "emit" /\ th'[s].handling = th[s].handling
        /\ Steady(s) /\ tr'[s].clear = tr[s].clear
    BY <1>1, <1>3, LocalKexInitDoes, SendersWrite DEF SameGates
  <2>2. Prepares(s)
    BY <2>1 DEF Prepares
  <2> QED
    BY <2>2 DEF Acts
<1>4. CASE SendKexInit(s)
  <2>1. th[s].pc = "emit" /\ Moved(s, IF th[s].handling THEN "parse" ELSE "reading") /\ UNCHANGED tr
    BY <1>1, <1>4, SendKexInitDoes
  <2>2. Offers(s)
    BY <2>1 DEF Offers, Moved
  <2> QED
    BY <2>2 DEF Acts
<1>5. CASE CheckRekey(s)
  <2>1. /\ th[s].pc = "top" /\ UNCHANGED tr
        /\ Moved(s, IF pk[s].needRekey /\ ~tr[s].inKex THEN "clear" ELSE "reading")
    BY <1>5, MovesDo
  <2>2. ~th[s].handling
    BY <2>1 DEF Waits
  <2>3. Starts(s) \/ Idles(s)
    BY <2>1, <2>2 DEF Starts, Idles, Moved
  <2> QED
    BY <2>3 DEF Acts
<1>6. CASE ReadInterrupted(s) \/ Answer(s) \/ Reply(s)
  <2>1. Idles(s)
    BY <1>6, MovesDo, AnswersDo DEF Idles, Moved, Finished
  <2> QED
    BY <2>1 DEF Acts
<1>7. CASE ReadMessage(s)
  BY <1>7, ReadActs DEF Acts
<1>8. CASE ReadRaises(s) \/ EndOfStream(s) \/ ReplyTimesOut(s)
  <2>1. th[s].pc \in {"reading", "reply"} /\ Dies(s)
    BY <1>8, EndsDo
  <2>2. Stops(s)
    BY <2>1 DEF Stops, Dies, Moved, SameKex
  <2> QED
    BY <2>2 DEF Acts
<1>9. CASE NegotiateKeys(s)
  <2>1. Negotiates(s)
    BY <1>9, NegotiateKeysDoes, HandlersWrite DEF Negotiates, Moved
  <2> QED
    BY <2>1 DEF Acts
<1>10. CASE ParseKexInit(s)
  <2>1. Parses(s)
    BY <1>10, ParseKexInitDoes, HandlersWrite DEF Parses, Finished, SameGates, DhOf
  <2> QED
    BY <2>1 DEF Acts
<1>11. CASE ParseKexdhInit(s) \/ ParseKexdhReply(s)
  <2>1. th[s].pc = "dh" /\ Hashed(s) /\ (Moved(s, "newkeysout") \/ (Moved(s, "dead") /\ ~tr'[s].active))
    BY <1>11, KexdhDo
  <2>2. Hashes(s) \/ Stops(s)
    BY <2>1 DEF Hashes, Stops, Moved, Hashed, SameKex
  <2> QED
    BY <2>2 DEF Acts
<1>12. CASE SendNewKeys(s) \/ ResetSeqnoOut(s)
  <2>1. /\ UNCHANGED tr
        /\ \/ th[s].pc = "newkeysout" /\ Moved(s, "reset")
           \/ th[s].pc = "reset" /\ Moved(s, "cipher")
    BY <1>12, SendNewKeysDoes, ResetSeqnoOutDoes
  <2>2. Switches(s)
    BY <2>1 DEF Switches, Moved, Steady, SameExchange
  <2> QED
    BY <2>2 DEF Acts
<1>13. CASE SetOutboundCipher(s)
  <2>1. Switches(s)
    BY <1>13, SetOutboundCipherDoes, HandlersWrite DEF Switches, Moved
  <2> QED
    BY <2>1 DEF Acts
<1>14. CASE ExpectNewKeys(s)
  <2>1. Awaits(s)
    BY <1>14, ExpectNewKeysDoes, HandlersWrite DEF Awaits, Finished, SameGates
  <2> QED
    BY <2>1 DEF Acts
<1>15. CASE ParseNewKeys(s)
  <2>1. Renews(s)
    BY <1>15, ParseNewKeysDoes DEF Renews, Moved
  <2> QED
    BY <2>1 DEF Acts
<1>16. CASE ReopenTraffic(s)
  <2>1. Reopens(s)
    BY <1>16, ReopenTrafficDoes DEF Reopens, Finished
  <2> QED
    BY <2>1 DEF Acts
<1> QED
  BY <1>2, <1>3, <1>4, <1>5, <1>6, <1>7, <1>8, <1>9, <1>10, <1>11, <1>12, <1>13, <1>14, <1>15, <1>16
  DEF TransportRuns

-----------------------------------------------------------------------------
(* NEWKEYS are read by a side that expects them                             *)

\* A NEWKEYS of the server is due, or on its way.
ServerDue == th["server"].pc = "newkeysout" \/ Out("server", "newkeys")

\* A side is on its way to the NEWKEYS of its peer.
ClientAwaits ==
    \/ tr["client"].expected \in {{"dhreply"}, {"newkeys"}}
    \/ th["client"].pc \in {"dh", "dead"} \cup Switching
ServerAwaits == tr["server"].expected = {"newkeys"} \/ th["server"].pc \in {"dead"} \cup Switching

\* A NEWKEYS finds its reader waiting for it, and alone.
NewKeysInTurn ==
    /\ ServerDue => ClientAwaits
    /\ th["server"].pc = "dh" \/ Out("client", "dhinit") => ~ServerDue
    /\ Out("server", "dhreply") \/ th["client"].pc \in {"dh", "newkeysout"} \/ Out("client", "newkeys")
          => ServerAwaits
    /\ \A d \in Sides : (th[d].pc = "newkeysout" => ~Out(d, "newkeys")) /\ Single(d, "newkeys")

\* Steps that have no part in this.
LEMMA TurnKept ==
    ASSUME NewKeysInTurn,
           \A d \in Sides : th'[d] = th[d] /\ tr'[d].expected = tr[d].expected,
           \A d \in Sides : \A k \in {"newkeys", "dhinit", "dhreply"} : Keeps(d, k)
    PROVE  NewKeysInTurn'
<1>1. "client" \in Sides /\ "server" \in Sides
  BY DEF Sides
<1>2. ServerDue' => ServerDue
  BY <1>1 DEF ServerDue, Keeps
<1>3. (ClientAwaits => ClientAwaits') /\ (ServerAwaits => ServerAwaits')
  BY <1>1 DEF ClientAwaits, ServerAwaits, Switching
<1>4. /\ Out("client", "dhinit")' => Out("client", "dhinit")
      /\ Out("server", "dhreply")' => Out("server", "dhreply")
      /\ Out("client", "newkeys")' => Out("client", "newkeys")
  BY <1>1 DEF Keeps
<1>5. \A d \in Sides : (th[d].pc = "newkeysout" => ~Out(d, "newkeys"))' /\ Single(d, "newkeys")'
  BY DEF NewKeysInTurn, Keeps
<1> QED
  BY <1>1, <1>2, <1>3, <1>4, <1>5 DEF NewKeysInTurn

\* A step of the client's transport thread.
LEMMA ClientInTurn ==
    ASSUME Typed, AllWait, Exchange, NewKeysInTurn, TransportRuns("client")
    PROVE  NewKeysInTurn'
<1> DEFINE c == "client"
<1> DEFINE v == "server"
<1>1. /\ c \in Sides /\ v \in Sides /\ c # v /\ c \in Threads /\ v \in Threads /\ Peer(c) = v
      /\ {"dhinit", "newkeys", "dhreply"} \subseteq Kinds /\ Waits(c)
  BY HomeFacts DEF Sides, Kinds, AllWait, Peer
<1>2. Acts(c) /\ th'[v] = th[v] /\ tr'[v] = tr[v]
  BY <1>1, TransportActs, TransportAlone DEF Others, OnlyTr
<1>3. /\ Keeps(v, "newkeys") /\ Keeps(v, "dhreply")
      /\ \/ Keeps(c, "newkeys")
         \/ th[c].pc = "newkeysout" /\ (~Out(c, "newkeys") => Single(c, "newkeys")')
      /\ Keeps(c, "dhinit") \/ th[c].pc = "parse"
  BY <1>1, TransportKeeps
<1>4. ServerDue' => ServerDue
  BY <1>2, <1>3 DEF ServerDue, Keeps
<1>5. ServerAwaits => ServerAwaits'
  BY <1>2 DEF ServerAwaits, Switching
<1>6. ClientAwaits /\ ~ClientAwaits' => Reads(c) /\ th'[c].pc = "newkeysin"
  <2>1. th[c].pc # "dead"
    BY <1>2 DEF Acts, Prepares, Offers, Starts, Hears, Negotiates, Parses, Reads, Hashes, Switches, Awaits,
                Renews, Reopens, Idles, Stops
  <2>2. Steady(c) => tr'[c].expected = tr[c].expected
    BY DEF Steady, SameExchange
  <2>3. th[c].pc \in Switching => tr[c].expected = {}
    BY <1>1, HandlerExpectsNothing DEF Switching, Waiting
  <2> QED
    BY <1>2, <2>1, <2>2, <2>3
    DEF Acts, Prepares, Offers, Starts, Hears, Negotiates, Parses, Reads, Hashes, Switches, Awaits,
        Renews, Reopens, Idles, Stops, ClientAwaits, Switching, DhOf
<1>7. Reads(c) /\ th'[c].pc = "newkeysin" => ~ServerDue'
  <2> SUFFICES ASSUME Reads(c), th'[c].pc = "newkeysin" PROVE ~ServerDue'
    OBVIOUS
  <2>1. On(v, "newkeys", 1) /\ Taken(c)
    BY <1>1 DEF Reads
  <2>2. Out(v, "newkeys")
    BY <2>1 DEF Out
  <2>3. ~Out(v, "newkeys")' /\ th[v].pc # "newkeysout"
    BY <1>1, <2>1, <2>2, TakingKeeps DEF NewKeysInTurn
  <2> QED
    BY <1>2, <2>3 DEF ServerDue
<1>8. (ServerDue => ClientAwaits)'
  BY <1>4, <1>6, <1>7 DEF NewKeysInTurn
<1>9. (th[v].pc = "dh" \/ Out(c, "dhinit") => ~ServerDue)'
  <2>1. CASE Keeps(c, "dhinit")
    BY <1>2, <1>4, <2>1 DEF NewKeysInTurn, Keeps
  <2>2. CASE th[c].pc = "parse"
    <3>1. tr[c].expected = {}
      BY <1>1, <2>2, HandlerExpectsNothing DEF Waiting
    <3>2. ~ServerDue
      BY <2>2, <3>1 DEF NewKeysInTurn, ClientAwaits, Switching
    <3> QED
      BY <1>4, <3>2
  <2> QED
    BY <1>3, <2>1, <2>2
<1>10. th'[c].pc = "dh" => th[c].pc = "dh" \/ Out(v, "dhreply")
  BY <1>1, <1>2 DEF Acts, Prepares, Offers, Starts, Hears, Negotiates, Parses, Reads, Hashes, Switches, Awaits,
                Renews, Reopens, Idles, Stops, Out
<1>11. th'[c].pc = "newkeysout" => th[c].pc = "dh"
  BY <1>2 DEF Acts, Prepares, Offers, Starts, Hears, Negotiates, Parses, Reads, Hashes, Switches, Awaits,
                Renews, Reopens, Idles, Stops
<1>12. (Out(v, "dhreply") \/ th[c].pc \in {"dh", "newkeysout"} \/ Out(c, "newkeys") => ServerAwaits)'
  BY <1>3, <1>5, <1>10, <1>11 DEF NewKeysInTurn, Keeps
<1>13. (th[c].pc = "newkeysout" => ~Out(c, "newkeys"))' /\ Single(c, "newkeys")'
  <2>1. th[c].pc = "dh" => ~Out(c, "newkeys")
    BY DEF Exchange, HashesAgree
  <2> QED
    BY <1>1, <1>3, <1>11, <2>1 DEF NewKeysInTurn, Keeps
<1>14. (th[v].pc = "newkeysout" => ~Out(v, "newkeys"))' /\ Single(v, "newkeys")'
  BY <1>1, <1>2, <1>3 DEF NewKeysInTurn, Keeps
<1> QED
  BY <1>8, <1>9, <1>12, <1>13, <1>14 DEF NewKeysInTurn, Sides

\* A step of the server's transport thread.
LEMMA ServerInTurn ==
    ASSUME Typed, AllWait, Exchange, NewKeysInTurn, TransportRuns("server")
    PROVE  NewKeysInTurn'
<1> DEFINE c == "client"
<1> DEFINE v == "server"
<1>1. /\ c \in Sides /\ v \in Sides /\ c # v /\ c \in Threads /\ v \in Threads /\ Peer(v) = c
      /\ {"dhinit", "newkeys", "dhreply"} \subseteq Kinds /\ Waits(v)
  BY HomeFacts DEF Sides, Kinds, AllWait, Peer
<1>2. Acts(v) /\ th'[c] = th[c] /\ tr'[c] = tr[c]
  BY <1>1, TransportActs, TransportAlone DEF Others, OnlyTr
<1>3. /\ Keeps(c, "newkeys") /\ Keeps(c, "dhinit")
      /\ \/ Keeps(v, "newkeys")
         \/ th[v].pc = "newkeysout" /\ (~Out(v, "newkeys") => Single(v, "newkeys")')
      /\ Keeps(v, "dhreply") \/ th[v].pc = "dh"
  BY <1>1, TransportKeeps
<1>4. th'[v].pc = "newkeysout" => th[v].pc = "dh"
  BY <1>2 DEF Acts, Prepares, Offers, Starts, Hears, Negotiates, Parses, Reads, Hashes, Switches, Awaits,
                Renews, Reopens, Idles, Stops
<1>5. th'[v].pc = "dh" => Out(c, "dhinit")
  BY <1>1, <1>2 DEF Acts, Prepares, Offers, Starts, Hears, Negotiates, Parses, Reads, Hashes, Switches, Awaits,
                Renews, Reopens, Idles, Stops, Out
<1>6. Out(v, "newkeys")' => ServerDue
  BY <1>3 DEF Keeps, ServerDue
<1>7. ClientAwaits => ClientAwaits'
  BY <1>2 DEF ClientAwaits, Switching
<1>8. (ServerDue => ClientAwaits)'
  <2>1. th[v].pc = "dh" => ClientAwaits
    BY DEF Exchange, DhInTurn, ClientAwaits
  <2> QED
    BY <1>4, <1>6, <1>7, <2>1 DEF NewKeysInTurn, ServerDue
<1>9. (th[v].pc = "dh" \/ Out(c, "dhinit") => ~ServerDue)'
  <2>1. Out(c, "dhinit")' => Out(c, "dhinit")
    BY <1>3 DEF Keeps
  <2>2. th[v].pc = "dh" => ~Out(c, "dhinit")
    BY DEF Exchange, DhInTurn
  <2> QED
    BY <1>4, <1>5, <1>6, <2>1, <2>2 DEF NewKeysInTurn, ServerDue
<1>10. ServerAwaits /\ ~ServerAwaits' => Reads(v) /\ th'[v].pc = "newkeysin"
  <2>1. th[v].pc # "dead"
    BY <1>2 DEF Acts, Prepares, Offers, Starts, Hears, Negotiates, Parses, Reads, Hashes, Switches, Awaits,
                Renews, Reopens, Idles, Stops
  <2>2. Steady(v) => tr'[v].expected = tr[v].expected
    BY DEF Steady, SameExchange
  <2>3. th[v].pc \in {"parse"} \cup Switching => tr[v].expected = {}
    BY <1>1, HandlerExpectsNothing DEF Switching, Waiting
  <2> QED
    BY <1>2, <2>1, <2>2, <2>3
    DEF Acts, Prepares, Offers, Starts, Hears, Negotiates, Parses, Reads, Hashes, Switches, Awaits,
        Renews, Reopens, Idles, Stops, ServerAwaits, Switching, DhOf
<1>11. (Out(v, "dhreply") \/ th[c].pc \in {"dh", "newkeysout"} \/ Out(c, "newkeys") => ServerAwaits)'
  <2>1. CASE Reads(v) /\ th'[v].pc = "newkeysin"
    <3>1. On(c, "newkeys", 1) /\ Taken(v) /\ th[v].pc = "reading"
      BY <1>1, <2>1 DEF Reads
    <3>2. Out(c, "newkeys")
      BY <3>1 DEF Out
    <3>3. ~Out(v, "dhreply") /\ th[c].pc \notin {"dh", "newkeysout"}
      BY <1>1, <3>2 DEF Exchange, HashesAgree, NewKeysInTurn
    <3>4. ~Out(c, "newkeys")'
      BY <1>1, <3>1, TakingKeeps DEF NewKeysInTurn
    <3> QED
      BY <1>2, <1>3, <3>1, <3>3, <3>4 DEF Keeps
  <2>2. CASE th[v].pc = "dh"
    <3>1. th'[v].pc \in {"newkeysout", "dead"}
      BY <1>2, <2>2 DEF Acts, Prepares, Offers, Starts, Hears, Negotiates, Parses, Reads, Hashes, Switches,
                        Awaits, Renews, Reopens, Idles, Stops
    <3> QED
      BY <3>1 DEF ServerAwaits, Switching
  <2>3. CASE th[v].pc # "dh" /\ ~(Reads(v) /\ th'[v].pc = "newkeysin")
    BY <1>2, <1>3, <1>10, <2>3 DEF NewKeysInTurn, Keeps
  <2> QED
    BY <2>1, <2>2, <2>3
<1>12. (th[v].pc = "newkeysout" => ~Out(v, "newkeys"))' /\ Single(v, "newkeys")'
  <2>1. th[v].pc = "dh" => ~ServerDue
    BY DEF NewKeysInTurn
  <2>2. th'[v].pc = "newkeysout" => ~Out(v, "newkeys")'
    BY <1>4, <1>6, <2>1
  <2>3. Single(v, "newkeys")'
    BY <1>1, <1>3 DEF NewKeysInTurn, Keeps
  <2> QED
    BY <2>2, <2>3
<1>13. (th[c].pc = "newkeysout" => ~Out(c, "newkeys"))' /\ Single(c, "newkeys")'
  BY <1>1, <1>2, <1>3 DEF NewKeysInTurn, Keeps
<1> QED
  BY <1>8, <1>9, <1>11, <1>12, <1>13 DEF NewKeysInTurn, Sides

\* No NEWKEYS at first.
LEMMA InitInTurn == Init => NewKeysInTurn
<1> SUFFICES ASSUME Init PROVE NewKeysInTurn
  OBVIOUS
<1>1. \A s \in Sides : s \in Threads
  BY HomeFacts
<1>2. \A s \in Sides : th[s].pc = "clear" /\ wire[s] = <<>>
  BY <1>1 DEF Init
<1>3. \A s \in Sides, k \in Kinds, i \in Nat : ~On(s, k, i)
  BY <1>2 DEF On
<1>4. "client" \in Sides /\ "server" \in Sides /\ {"newkeys", "dhinit", "dhreply"} \subseteq Kinds
  BY DEF Sides, Kinds
<1>5. \A s \in Sides, k \in Kinds : ~Out(s, k) /\ Single(s, k)
  BY <1>3 DEF Out, Single
<1> QED
  BY <1>2, <1>4, <1>5 DEF NewKeysInTurn, ServerDue, Switching

\* What is neither read nor sent by a transport thread leaves the wires as they are
\* but for the packet a user sends.
LEMMA UserKeeps ==
    ASSUME Typed, NEW u \in Users, RenegotiateKeys(u) \/ UserRuns(u), NEW d \in Sides, NEW k \in Kinds
    PROVE  /\ Keeps(d, k) \/ (k = "kexinit" /\ th[u].pc = "emit" /\ d = SideOf[u])
           /\ ~Out(SideOf[u], "kexinit") => Single(SideOf[u], "kexinit")'
<1>1. SideOf[u] \in Sides /\ "kexinit" \in Kinds
  BY HomeFacts DEF Kinds
<1>2. CASE UNCHANGED <<pk, wire>>
  BY <1>1, <1>2 DEF Keeps, Single, Out, On
<1>3. CASE th[u].pc = "emit" /\ Emitted(SideOf[u], "kexinit", <<th[u].init, 0>>)
  BY <1>1, <1>3, SendingKeeps
<1> QED
  BY <1>2, <1>3, UserSteps

\* Traffic of the users.
LEMMA TrafficKeeps ==
    ASSUME Typed, NEW s \in Sides, NEW kind \in Traffic, SendUserMessage(s, kind), NEW d \in Sides,
           NEW k \in Kinds \ Traffic
    PROVE  Keeps(d, k)
<1>1. Emitted(s, kind, NoKey) /\ kind \in Kinds /\ kind # k
  BY SendUserMessageDoes DEF Kinds
<1> QED
  BY <1>1, SendingKeeps

\* Every step keeps the NEWKEYS in turn.
LEMMA NextInTurn == Typed /\ AllWait /\ Exchange /\ NewKeysInTurn /\ [Next]_vars => NewKeysInTurn'
<1> SUFFICES ASSUME Typed, AllWait, Exchange, NewKeysInTurn, [Next]_vars PROVE NewKeysInTurn'
  OBVIOUS
<1>1. {"newkeys", "dhinit", "dhreply"} \subseteq Kinds \ (Traffic \cup {"kexinit"})
  BY DEF Kinds, Traffic
<1>2. CASE UNCHANGED vars
  BY <1>2, TurnKept DEF vars, Keeps, Single, Out, On
<1>3. ASSUME NEW u \in Users, RenegotiateKeys(u) \/ UserRuns(u) PROVE NewKeysInTurn'
  <2>1. \A d \in Sides : \A k \in {"newkeys", "dhinit", "dhreply"} : Keeps(d, k)
    BY <1>1, <1>3, UserKeeps
  <2>2. \A d \in Sides : th'[d] = th[d] /\ tr'[d].expected = tr[d].expected
    BY <1>3, UserSteps DEF Steady, SameExchange
  <2> QED
    BY <2>1, <2>2, TurnKept
<1>4. ASSUME NEW s \in Sides, TransportRuns(s) PROVE NewKeysInTurn'
  BY <1>4, ClientInTurn, ServerInTurn DEF Sides
<1>5. ASSUME NEW s \in Sides, NEW kind \in Traffic, SendUserMessage(s, kind) PROVE NewKeysInTurn'
  <2>1. \A d \in Sides : \A k \in {"newkeys", "dhinit", "dhreply"} : Keeps(d, k)
    BY <1>1, <1>5, TrafficKeeps
  <2>2. UNCHANGED <<tr, th>>
    BY <1>5, SendUserMessageDoes
  <2> QED
    BY <2>1, <2>2, TurnKept
<1> QED
  BY <1>2, <1>3, <1>4, <1>5 DEF Next

\* A side that reads a NEWKEYS expects it.
LEMMA NewKeysExpected ==
    ASSUME Typed, NewKeysInTurn, NEW s \in Sides, Reads(s), th'[s].pc = "newkeysin"
    PROVE  tr[s].expected = {"newkeys"}
<1>1. Out(Peer(s), "newkeys") /\ th[s].pc = "reading" /\ tr[s].expected # DhOf(s)
  BY DEF Reads, Out
<1>2. CASE s = "client"
  BY <1>1, <1>2 DEF NewKeysInTurn, ServerDue, ClientAwaits, Switching, Peer, DhOf
<1>3. CASE s = "server"
  BY <1>1, <1>3 DEF NewKeysInTurn, ServerAwaits, Switching, Peer
<1> QED
  BY <1>2, <1>3 DEF Sides

-----------------------------------------------------------------------------
(* No user sends inside an exchange                                         *)

\* Side s is between the parsing of a KEXINIT and the NEWKEYS of its peer.
Engaged(s) ==
    \/ tr[s].expected \in {DhOf(s), {"newkeys"}}
    \/ th[s].pc \in {"dh", "newkeysin"} \cup Switching

\* Then, and from the moment it has the peer's KEXINIT, clear_to_send is not set.
Shut(s) ==
    Engaged(s) \/ th[s].pc = "parse" \/ (th[s].handling /\ th[s].pc \in Preparing) => ~tr[s].clear
AllShut == \A s \in Sides : Shut(s)

\* Only the parsing of a KEXINIT engages a side.
LEMMA EngagedSteps ==
    ASSUME Typed, NEW s \in Sides, Waits(s), NewKeysInTurn, Acts(s)
    PROVE  /\ Engaged(s)' => Engaged(s) \/ Parses(s)
           /\ Parses(s) => ~Engaged(s)
<1>1. Steady(s) => tr'[s].expected = tr[s].expected
  BY DEF Steady, SameExchange
<1>2. Reads(s) /\ th'[s].pc = "newkeysin" => tr[s].expected = {"newkeys"}
  BY NewKeysExpected
<1>3. th[s].pc \notin Waiting => tr[s].expected = {}
  BY HandlerExpectsNothing
<1>4. DhOf(s)' = DhOf(s) /\ DhOf(s) # {} /\ DhOf(s) # {"kexinit"}
  BY DEF DhOf
<1>5. Parses(s) => ~Engaged(s)
  BY <1>3, <1>4 DEF Parses, Engaged, Switching, Waiting
<1>6. CASE Prepares(s) \/ Offers(s) \/ Starts(s) \/ Hears(s) \/ Negotiates(s) \/ Idles(s) \/ Reopens(s)
  <2>1. tr'[s].expected = tr[s].expected \/ tr'[s].expected = {}
    BY <1>1, <1>6 DEF Prepares, Offers, Starts, Hears, Negotiates, Idles, Reopens
  <2>2. th'[s].pc \notin {"dh", "newkeysin"} \cup Switching
    BY <1>6 DEF Prepares, Offers, Starts, Hears, Negotiates, Idles, Reopens, Switching
  <2> QED
    BY <1>4, <1>5, <2>1, <2>2 DEF Engaged, Switching
<1>7. CASE Reads(s)
  BY <1>2, <1>4, <1>5, <1>7 DEF Reads, Engaged, Switching
<1>8. CASE Hashes(s) \/ Switches(s) \/ Awaits(s) \/ Renews(s)
  BY <1>5, <1>8 DEF Hashes, Switches, Awaits, Renews, Engaged, Switching
<1>9. CASE Stops(s)
  BY <1>4, <1>5, <1>9 DEF Stops, Engaged, Switching
<1> QED
  BY <1>5, <1>6, <1>7, <1>8, <1>9 DEF Acts

\* A transport thread keeps its side shut.
LEMMA TransportShut ==
    ASSUME Typed, NEW s \in Sides, Waits(s), NewKeysInTurn, Shut(s), Acts(s)
    PROVE  Shut(s)'
<1>1. Engaged(s)' => Engaged(s) \/ Parses(s)
  BY EngagedSteps
<1>2. Reopens(s) => ~Engaged(s)' /\ th'[s].pc = "top"
  <2> SUFFICES ASSUME Reopens(s) PROVE ~Engaged(s)'
    BY DEF Reopens
  <2>1. tr[s].expected = {} /\ th'[s].pc = "top" /\ tr'[s].expected = tr[s].expected
    BY HandlerExpectsNothing DEF Reopens, Waiting
  <2> QED
    BY <2>1 DEF Engaged, Switching, DhOf
<1>3. tr'[s].clear => tr[s].clear \/ Reopens(s)
  BY DEF Acts, Prepares, Offers, Starts, Hears, Negotiates, Parses, Reads, Hashes, Switches, Awaits,
         Renews, Idles, Stops
<1>4. th'[s].pc = "parse" \/ (th'[s].handling /\ th'[s].pc \in Preparing) =>
         \/ Negotiates(s)
         \/ th[s].handling /\ th[s].pc \in Preparing
  BY DEF Acts, Prepares, Offers, Starts, Hears, Parses, Reads, Hashes, Switches, Awaits,
         Renews, Reopens, Idles, Stops, Preparing
<1>5. Negotiates(s) => ~tr'[s].clear
  BY DEF Negotiates
<1>6. Parses(s) => th[s].pc = "parse" /\ tr'[s].clear = tr[s].clear
  BY DEF Parses
<1>7. Reopens(s) => Shut(s)'
  BY <1>2 DEF Shut, Preparing
<1> QED
  BY <1>1, <1>3, <1>4, <1>5, <1>6, <1>7 DEF Shut

\* At first everything is shut.
LEMMA InitShut == Init => AllShut
<1> SUFFICES ASSUME Init, NEW s \in Sides PROVE Shut(s)
  BY DEF AllShut
<1>1. tr[s].clear = FALSE
  BY DEF Init
<1> QED
  BY <1>1 DEF Shut

\* What a user's step leaves of the gates.
LEMMA UserGates ==
    ASSUME Typed, NEW u \in Users, RenegotiateKeys(u) \/ UserRuns(u), NEW s \in Sides
    PROVE  /\ tr'[s].clear => tr[s].clear
           /\ s # SideOf[u] => tr'[s] = tr[s]
<1>1. u \in Threads /\ Home(u) = SideOf[u] /\ SideOf[u] \in Sides
  BY HomeFacts
<1>2. CASE ClearToSend(u) \/ LocalKexInit(u) \/ RenegotiateKeys(u)
  <2>1. OnlyTr(SideOf[u]) /\ (tr'[SideOf[u]].clear => tr[SideOf[u]].clear)
    BY <1>1, <1>2, SendersWrite DEF SameGates
  <2> QED
    BY <2>1 DEF OnlyTr
<1>3. CASE \/ SendKexInit(u) \/ SendKexInitFails(u) \/ RenegotiateRaises(u)
         \/ RenegotiateFindsActive(u) \/ RenegotiateReturns(u)
  <2>1. UNCHANGED tr
    BY <1>1, <1>3, SendKexInitDoes, MovesDo
  <2> QED
    BY <2>1
<1> QED
  BY <1>2, <1>3 DEF UserRuns

\* Every step keeps the sides shut.
LEMMA NextShut == Typed /\ AllWait /\ NewKeysInTurn /\ AllShut /\ [Next]_vars => AllShut'
<1> SUFFICES ASSUME Typed, AllWait, NewKeysInTurn, AllShut, [Next]_vars, NEW d \in Sides PROVE Shut(d)'
  BY DEF AllShut
<1>1. Shut(d) /\ Waits(d) /\ d \in Threads
  BY HomeFacts DEF AllShut, AllWait
<1>2. ASSUME th'[d] = th[d], tr'[d].expected = tr[d].expected, tr'[d].clear => tr[d].clear PROVE Shut(d)'
  BY <1>1, <1>2 DEF Shut, Engaged, DhOf, Switching, Preparing
<1>3. CASE UNCHANGED vars
  BY <1>2, <1>3 DEF vars
<1>4. ASSUME NEW u \in Users, RenegotiateKeys(u) \/ UserRuns(u) PROVE Shut(d)'
  BY <1>2, <1>4, UserSteps, UserGates DEF Steady, SameExchange
<1>5. ASSUME NEW s \in Sides, TransportRuns(s) PROVE Shut(d)'
  <2>1. CASE s = d
    BY <1>1, <1>5, <2>1, TransportActs, TransportShut
  <2>2. CASE s # d
    BY <1>1, <1>2, <1>5, <2>2, TransportAlone DEF Others, OnlyTr
  <2> QED
    BY <2>1, <2>2
<1>6. ASSUME NEW s \in Sides, NEW kind \in Traffic, SendUserMessage(s, kind) PROVE Shut(d)'
  BY <1>2, <1>6, SendUserMessageDoes
<1> QED
  BY <1>3, <1>4, <1>5, <1>6 DEF Next

-----------------------------------------------------------------------------
(* The numbers used under a key                                             *)

\* What a transport thread does to its packetizer.
LEMMA PacketizerWrites ==
    ASSUME Typed, NEW s \in Sides, TransportRuns(s)
    PROVE  \/ pk'[s] = pk[s]
           \/ pk'[s] = Sent(pk[s], setup.limit[s]) /\ th[s].pc \notin {"cipher", "newkeysin"}
           \/ pk'[s] = Received(pk[s], setup.limit[s]) /\ th[s].pc = "reading"
           \/ /\ th[s].pc = "reset" /\ th'[s].pc = "cipher" /\ pk'[s].needRekey = pk[s].needRekey
              /\ pk'[s].keyOut = pk[s].keyOut /\ pk'[s].keyIn = pk[s].keyIn
           \/ th[s].pc = "cipher" /\ pk'[s] = SetOutbound(pk[s], tr[s].H)
           \/ /\ th[s].pc = "newkeysin" /\ SameOut(pk[s], pk'[s]) /\ pk'[s].keyIn = tr[s].H
              /\ pk'[s].needRekey => pk[s].needRekey
<1>1. s \in Threads /\ Home(s) = s
  BY HomeFacts
<1>2. CASE ClearToSend(s) \/ LocalKexInit(s) \/ SendKexInit(s)
  BY <1>1, <1>2, ClearToSendDoes, LocalKexInitDoes, SendKexInitDoes DEF Emitted
<1>3. CASE CheckRekey(s) \/ ReadInterrupted(s) \/ ReadRaises(s) \/ EndOfStream(s) \/ ReplyTimesOut(s)
  BY <1>3, MovesDo, EndsDo
<1>4. CASE ReadMessage(s)
  BY <1>4, ReadMessageDoes
<1>5. CASE Answer(s) \/ Reply(s) \/ NegotiateKeys(s)
  BY <1>5, AnswersDo, NegotiateKeysDoes DEF Emitted
<1>6. CASE ParseKexInit(s) \/ ExpectNewKeys(s)
  BY <1>6, ParseKexInitDoes, ExpectNewKeysDoes DEF Emitted
<1>7. CASE ParseKexdhInit(s) \/ ParseKexdhReply(s)
  BY <1>7, KexdhDo DEF Emitted
<1>8. CASE SendNewKeys(s) \/ ResetSeqnoOut(s) \/ SetOutboundCipher(s)
  BY <1>8, SendNewKeysDoes, ResetSeqnoOutDoes, SetOutboundCipherDoes DEF Emitted, Moved
<1>9. CASE ParseNewKeys(s) \/ ReopenTraffic(s)
  BY <1>9, ParseNewKeysDoes, ReopenTrafficDoes
<1> QED
  BY <1>2, <1>3, <1>4, <1>5, <1>6, <1>7, <1>8, <1>9 DEF TransportRuns

\* The next number has not been used under the outbound key, unless the thread is
\* between the reset of the number and the switch of the key.
Spent(s) == th[s].pc # "cipher" => pk[s].spent <= pk[s].seqOut
AllSpent == \A s \in Sides : Spent(s)

\* Sending a packet keeps that.
LEMMA SentSpent ==
    ASSUME Typed, NEW s \in Sides, Spent(s), th[s].pc # "cipher", pk'[s] = Sent(pk[s], setup.limit[s])
    PROVE  Spent(s)'
<1>1. pk[s] \in PacketizerStates /\ setup.limit[s] \in Nat
  BY LimitFacts DEF Typed, PkOK
<1>2. pk[s].spent <= pk[s].seqOut /\ pk[s].seqOut \in Nat
  BY <1>1 DEF Spent, PacketizerStates
<1>3. pk'[s].seqOut = pk[s].seqOut + 1 /\ pk'[s].spent = pk[s].seqOut + 1
  <2> DEFINE p == pk[s]
  <2> DEFINE limit == setup.limit[s]
  <2>1. p \in PacketizerStates /\ limit \in Nat /\ p.spent <= p.seqOut /\ pk'[s] = Sent(p, limit)
    BY <1>1, <1>2
  <2> HIDE DEF p, limit
  <2>2. Sent(p, limit).seqOut = p.seqOut + 1
    BY <2>1, SentFacts
  <2>3. Sent(p, limit).spent = p.seqOut + 1
    BY <2>1, SentFacts
  <2> QED
    BY <2>1, <2>2, <2>3 DEF p
<1> QED
  BY <1>2, <1>3 DEF Spent

\* A step of the transport thread.
LEMMA TransportSpent ==
    ASSUME Typed, NEW s \in Sides, Waits(s), Spent(s), TransportRuns(s)
    PROVE  Spent(s)'
<1>1. pk[s] \in PacketizerStates /\ tr[s] \in TransportStates /\ setup.limit[s] \in Nat
  BY LimitFacts DEF Typed, PkOK, TrOK
<1>2. Acts(s)
  BY TransportActs
<1>3. th[s].pc = "cipher" => th'[s].pc = "extinfo"
  BY <1>2 DEF Acts, Prepares, Offers, Starts, Hears, Negotiates, Parses, Reads, Hashes, Switches, Awaits,
              Renews, Reopens, Idles, Stops
<1>4. CASE th[s].pc # "cipher" /\ (pk'[s] = pk[s] \/ SameOut(pk[s], pk'[s]))
  BY <1>4 DEF Spent, SameOut
<1>5. CASE pk'[s] = Sent(pk[s], setup.limit[s]) /\ th[s].pc # "cipher"
  BY <1>5, SentSpent
<1>6. CASE pk'[s] = Received(pk[s], setup.limit[s]) /\ th[s].pc = "reading"
  BY <1>1, <1>4, <1>6, ReceivedFacts
<1>7. CASE th[s].pc = "reset" /\ th'[s].pc = "cipher"
  BY <1>7 DEF Spent
<1>8. CASE th[s].pc = "cipher" /\ pk'[s] = SetOutbound(pk[s], tr[s].H)
  <2>1. pk'[s].spent = 0 /\ pk'[s].seqOut = pk[s].seqOut /\ pk[s].seqOut \in Nat
    BY <1>1, <1>8, OutboundFacts DEF TransportStates, PacketizerStates
  <2> QED
    BY <2>1 DEF Spent
<1>9. CASE th[s].pc = "cipher" /\ pk'[s] = pk[s]
  <2>1. SetOutboundCipher(s)
    BY <1>9 DEF TransportRuns, ClearToSend, LocalKexInit, SendKexInit, CheckRekey, ReadInterrupted,
       ReadMessage, ReadRaises, Take, EndOfStream, Answer, Reply, ReplyTimesOut, NegotiateKeys, ParseKexInit,
       ParseKexdhInit, ParseKexdhReply, SendNewKeys, ResetSeqnoOut, ExpectNewKeys, ParseNewKeys, ReopenTraffic
  <2> QED
    BY <1>8, <2>1, SetOutboundCipherDoes
<1> QED
  BY <1>4, <1>5, <1>6, <1>7, <1>8, <1>9, PacketizerWrites

\* Nothing has been sent at first.
LEMMA InitSpent == Init => AllSpent
<1> SUFFICES ASSUME Init, NEW s \in Sides PROVE Spent(s)
  BY DEF AllSpent
<1>1. pk[s].spent = 0 /\ pk[s].seqOut = 0
  BY DEF Init
<1> QED
  BY <1>1 DEF Spent

\* Every step keeps the next number unused.
LEMMA NextSpent == Typed /\ AllWait /\ AllSpent /\ [Next]_vars => AllSpent'
<1> SUFFICES ASSUME Typed, AllWait, AllSpent, [Next]_vars, NEW d \in Sides PROVE Spent(d)'
  BY DEF AllSpent
<1>1. Spent(d) /\ Waits(d) /\ d \in Threads
  BY HomeFacts DEF AllSpent, AllWait
<1>2. ASSUME th'[d] = th[d], pk'[d] = pk[d] PROVE Spent(d)'
  BY <1>1, <1>2 DEF Spent
<1>3. ASSUME th'[d] = th[d], pk'[d] = Sent(pk[d], setup.limit[d]) PROVE Spent(d)'
  <2>1. CASE th[d].pc = "cipher"
    BY <1>3, <2>1 DEF Spent
  <2>2. CASE th[d].pc # "cipher"
    BY <1>1, <1>3, <2>2, SentSpent
  <2> QED
    BY <2>1, <2>2
<1>4. CASE UNCHANGED vars
  BY <1>2, <1>4 DEF vars
<1>5. ASSUME NEW u \in Users, RenegotiateKeys(u) \/ UserRuns(u) PROVE Spent(d)'
  BY <1>2, <1>3, <1>5, UserSteps DEF Emitted
<1>6. ASSUME NEW s \in Sides, TransportRuns(s) PROVE Spent(d)'
  <2>1. CASE s = d
    BY <1>1, <1>6, <2>1, TransportSpent
  <2>2. CASE s # d
    BY <1>1, <1>2, <1>6, <2>2, TransportAlone, PacketizerAlone DEF Others
  <2> QED
    BY <2>1, <2>2
<1>7. ASSUME NEW s \in Sides, NEW kind \in Traffic, SendUserMessage(s, kind) PROVE Spent(d)'
  BY <1>2, <1>3, <1>7, SendUserMessageDoes DEF Emitted
<1> QED
  BY <1>4, <1>5, <1>6, <1>7 DEF Next

-----------------------------------------------------------------------------
(* One user renegotiates                                                    *)

\* A look at active, or at the completion_event.
Polls(u) == th'[u].before = th[u].before /\ th'[u].init = th[u].init /\ UNCHANGED <<tr, pk, wire>>

\* What a user's step is.
LEMMA UserActs ==
    ASSUME Typed, NEW u \in Users, RenegotiateKeys(u) \/ UserRuns(u)
    PROVE  /\ Others(u) /\ UNCHANGED setup
           /\ \/ /\ RenegotiateKeys(u) /\ th[u].pc = "idle" /\ th'[u].pc = "clear" /\ u \in setup.renegotiators
                 /\ tr[SideOf[u]].initialDone /\ tr[SideOf[u]].active
                 /\ setup.patient => tr[SideOf[u]].clear
              \/ ClearToSend(u) /\ th[u].pc = "clear" /\ th'[u].pc = "local"
              \/ LocalKexInit(u) /\ th[u].pc = "local" /\ th'[u].pc = "emit"
              \/ SendKexInit(u) /\ th[u].pc = "emit" /\ th'[u].pc = "wait"
              \/ th[u].pc = "emit" /\ th'[u].pc = "failed" /\ UNCHANGED <<tr, pk, wire>>
              \/ th[u].pc = "wait" /\ th'[u].pc \in {"check", "failed"} /\ Polls(u)
              \/ /\ th[u].pc = "check" /\ th'[u].pc \in {"wait", "done"} /\ Polls(u)
                 /\ th'[u].pc = "done" => tr[SideOf[u]].completion
<1>1. u \in Threads
  BY HomeFacts
<1>2. CASE RenegotiateKeys(u)
  <2>1. /\ u \in setup.renegotiators /\ th[u].pc = "idle" /\ tr[SideOf[u]].initialDone /\ tr[SideOf[u]].active
        /\ setup.patient => tr[SideOf[u]].clear
    BY <1>2 DEF RenegotiateKeys
  <2> QED
    BY <1>2, <2>1, RenegotiateKeysDoes
<1>3. CASE ClearToSend(u)
  BY <1>1, <1>3, ClearToSendDoes DEF Moved
<1>4. CASE LocalKexInit(u)
  BY <1>1, <1>4, LocalKexInitDoes
<1>5. CASE SendKexInit(u)
  BY <1>1, <1>5, SendKexInitDoes DEF Moved
<1>6. CASE SendKexInitFails(u)
  <2>1. th[u].pc = "emit"
    BY <1>6 DEF SendKexInitFails
  <2> QED
    BY <1>6, <2>1, MovesDo DEF Moved
<1>7. CASE RenegotiateReturns(u)
  <2>1. th[u].pc = "check"
    BY <1>7 DEF RenegotiateReturns
  <2> QED
    BY <1>1, <1>7, <2>1, MovesDo DEF Moved, Polls
<1>8. CASE RenegotiateRaises(u)
  <2>1. th[u].pc = "wait"
    BY <1>8 DEF RenegotiateRaises
  <2> QED
    BY <1>1, <1>8, <2>1, MovesDo DEF Moved, Polls
<1>9. CASE RenegotiateFindsActive(u)
  <2>1. th[u].pc = "wait"
    BY <1>9 DEF RenegotiateFindsActive
  <2> QED
    BY <1>1, <1>9, <2>1, MovesDo DEF Moved, Polls
<1> QED
  BY <1>2, <1>3, <1>4, <1>5, <1>6, <1>7, <1>8, <1>9 DEF UserRuns

\* Only those call renegotiate_keys that the set-up lets.
Idlers == \A u \in Users : u \notin setup.renegotiators => th[u].pc = "idle"

\* A step that is not a user's leaves the users where they are.
LEMMA UsersStay ==
    ASSUME Typed, [Next]_vars, NEW v \in Users,
           ~\E u \in Users : u = v /\ (RenegotiateKeys(u) \/ UserRuns(u))
    PROVE  th'[v] = th[v] /\ UNCHANGED setup
<1>1. v \in Threads /\ v \notin Sides /\ \A u \in Users : u \in Threads
  BY HomeFacts
<1>2. CASE UNCHANGED vars
  BY <1>2 DEF vars
<1>3. ASSUME NEW u \in Users, RenegotiateKeys(u) \/ UserRuns(u) PROVE th'[v] = th[v] /\ UNCHANGED setup
  BY <1>1, <1>3, UserActs DEF Others
<1>4. ASSUME NEW s \in Sides, TransportRuns(s) PROVE th'[v] = th[v] /\ UNCHANGED setup
  BY <1>1, <1>4, TransportAlone, PacketizerAlone DEF Others
<1>5. ASSUME NEW s \in Sides, NEW kind \in Traffic, SendUserMessage(s, kind)
      PROVE  th'[v] = th[v] /\ UNCHANGED setup
  BY <1>5, SendUserMessageDoes
<1> QED
  BY <1>2, <1>3, <1>4, <1>5 DEF Next

\* Nobody calls at first; then only those.
LEMMA IdlersKept == (Init => Idlers) /\ (Typed /\ Idlers /\ [Next]_vars => Idlers')
<1>1. Init => Idlers
  BY HomeFacts DEF Init, Idlers
<1>2. ASSUME Typed, Idlers, [Next]_vars PROVE Idlers'
  <2>1. UNCHANGED setup
    BY <1>2, UserActs, PacketizerAlone, SendUserMessageDoes DEF Next, vars
  <2> SUFFICES ASSUME NEW v \in Users, v \notin setup.renegotiators PROVE th'[v].pc = "idle"
    BY <2>1 DEF Idlers
  <2>2. th[v].pc = "idle"
    BY <1>2 DEF Idlers
  <2>3. ~\E u \in Users : u = v /\ (RenegotiateKeys(u) \/ UserRuns(u))
    BY <1>2, <2>2, UserActs
  <2> QED
    BY <1>2, <2>2, <2>3, UsersStay
<1> QED
  BY <1>1, <1>2

\* The set-ups in which one user at most renegotiates, when sending is possible, and
\* no packet limit is reached.
OneCaller ==
    /\ \A u, v \in setup.renegotiators : u = v
    /\ setup.patient
    /\ \A s \in Sides : setup.limit[s] = Never

\* No packetizer asks for new keys.
NoLimit == \A s \in Sides : ~pk[s].needRekey

\* Nor will it.
LEMMA NoLimitKept ==
    /\ Init => NoLimit
    /\ Typed /\ OneCaller /\ NoLimit /\ [Next]_vars => NoLimit'
<1>1. Init => NoLimit
  BY DEF Init, NoLimit
<1>2. ASSUME Typed, OneCaller, NoLimit, [Next]_vars, NEW d \in Sides PROVE ~pk'[d].needRekey
  <2>1. ~pk[d].needRekey /\ setup.limit[d] = Never /\ pk[d] \in PacketizerStates /\ setup.limit[d] \in Nat
    BY <1>2, LimitFacts DEF NoLimit, OneCaller, Typed, PkOK
  <2>2. ASSUME pk'[d] = Sent(pk[d], setup.limit[d]) PROVE ~pk'[d].needRekey
    <3>1. pk'[d].needRekey <=> (pk[d].needRekey \/ Reached(pk[d].sent + 1, setup.limit[d]))
      BY <1>2, <2>2, FirstCounts
    <3> QED
      BY <2>1, <3>1 DEF Reached
  <2>3. ASSUME pk'[d] = Received(pk[d], setup.limit[d]) PROVE ~pk'[d].needRekey
    BY <2>1, <2>3, ReceivedFacts
  <2>4. ASSUME pk'[d] = SetOutbound(pk[d], tr[d].H) PROVE ~pk'[d].needRekey
    <3>1. tr[d].H \in Keys
      BY <1>2 DEF Typed, TrOK, TransportStates
    <3> QED
      BY <2>1, <2>4, <3>1, OutboundFacts
  <2>5. CASE UNCHANGED vars
    BY <2>1, <2>5 DEF vars
  <2>6. ASSUME NEW u \in Users, RenegotiateKeys(u) \/ UserRuns(u) PROVE ~pk'[d].needRekey
    BY <1>2, <2>1, <2>2, <2>6, UserSteps DEF Emitted
  <2>7. ASSUME NEW s \in Sides, TransportRuns(s) PROVE ~pk'[d].needRekey
    <3>1. CASE s = d
      BY <1>2, <2>1, <2>2, <2>3, <2>4, <2>7, <3>1, PacketizerWrites
    <3>2. CASE s # d
      BY <1>2, <2>1, <2>7, <3>2, PacketizerAlone
    <3> QED
      BY <3>1, <3>2
  <2>8. ASSUME NEW s \in Sides, NEW kind \in Traffic, SendUserMessage(s, kind) PROVE ~pk'[d].needRekey
    BY <1>2, <2>1, <2>2, <2>8, SendUserMessageDoes DEF Emitted
  <2> QED
    BY <1>2, <2>5, <2>6, <2>7, <2>8 DEF Next
<1> QED
  BY <1>1, <1>2 DEF NoLimit

\* No KEXINIT of e is being prepared, on its way, or in the hands of its peer.
QuietWay(e) ==
    th[e].pc \notin Preparing /\ ~Out(e, "kexinit") /\ th[Peer(e)].pc \notin Handles

\* Side q has parsed a KEXINIT of its peer.
Late(q) == tr[q].expected = DhOf(q) \/ th[q].pc = "dh" \/ tr[q].sessionId # NoKey

\* The first KEXINIT of e is in one place at a time, and is the only one.
Untold(e) ==
    /\ Single(e, "kexinit")
    /\ th[e].pc \in Preparing =>
          ~th[e].handling /\ ~Out(e, "kexinit") /\ th[Peer(e)].pc \notin Handles
    /\ Out(e, "kexinit") => th[Peer(e)].pc \notin Handles
    /\ Late(Peer(e)) => QuietWay(e)

\* So it is as long as no user has called renegotiate_keys.
FirstTurn == (\A u \in Users : th[u].pc = "idle") => \A e \in Sides : Untold(e)

\* A user prepares its KEXINIT while no other is about and its side is not engaged.
CallTurn ==
    \A u \in Users : th[u].pc \in Preparing => (\A e \in Sides : QuietWay(e)) /\ ~Engaged(SideOf[u])

\* A side that has the peer's first KEXINIT in hand has sent its own.
LEMMA FirstAnswered ==
    ASSUME Typed, NEW s \in Sides, First(s), HasId(s), Untold(Peer(s)), th[s].pc \in Handles
    PROVE  tr[s].local # 0
<1>1. Peer(Peer(s)) = s
  BY PeerFacts
<1>2. ~Late(s)
  BY <1>1 DEF Untold, QuietWay
<1>3. ~tr[s].initialDone
  BY <1>2 DEF Late, HasId
<1>4. tr[s].local = tr[s].inits /\ tr[s].inits # 0
  BY <1>3 DEF First, FirstPlace, Handles
<1> QED
  BY <1>4

\* Only the parsing of a KEXINIT makes a side late.
LEMMA LateSteps == ASSUME Typed, NEW s \in Sides, Acts(s) PROVE Late(s)' => Late(s) \/ Parses(s)
<1>1. Steady(s) => tr'[s].expected = tr[s].expected /\ tr'[s].sessionId = tr[s].sessionId
  BY DEF Steady, SameExchange
<1>2. DhOf(s) # {} /\ DhOf(s) # {"newkeys"} /\ DhOf(s)' = DhOf(s)
  BY DEF DhOf
<1>3. CASE Prepares(s) \/ Offers(s) \/ Starts(s) \/ Hears(s) \/ Negotiates(s) \/ Switches(s)
  BY <1>1, <1>2, <1>3 DEF Prepares, Offers, Starts, Hears, Negotiates, Switches, Late
<1>4. CASE Reads(s)
  BY <1>2, <1>4 DEF Reads, Late
<1>5. CASE Hashes(s) \/ Awaits(s) \/ Renews(s) \/ Reopens(s) \/ Idles(s) \/ Stops(s)
  BY <1>2, <1>5 DEF Hashes, Awaits, Renews, Reopens, Idles, Stops, Late
<1> QED
  BY <1>3, <1>4, <1>5 DEF Acts

\* Where a transport thread prepares or handles a KEXINIT, it came from.
LEMMA InitSteps ==
    ASSUME NEW s \in Sides, Acts(s)
    PROVE  /\ th'[s].pc \in Preparing =>
                \/ th[s].pc \in Preparing \ {"emit"} /\ th'[s].handling = th[s].handling
                \/ pk[s].needRekey
                \/ th[s].pc = "negotiate" /\ tr[s].local = 0
           /\ th'[s].pc \in Handles =>
                \/ th[s].pc \in Handles
                \/ Hears(s)
                \/ th[s].pc = "emit" /\ th[s].handling
<1>1. CASE Prepares(s) \/ Offers(s) \/ Starts(s) \/ Hears(s) \/ Negotiates(s) \/ Parses(s)
  BY <1>1 DEF Prepares, Offers, Starts, Hears, Negotiates, Parses, Preparing, Handles
<1>2. CASE Reads(s) \/ Hashes(s) \/ Switches(s) \/ Awaits(s) \/ Renews(s) \/ Reopens(s) \/ Idles(s) \/ Stops(s)
  BY <1>2 DEF Reads, Hashes, Switches, Awaits, Renews, Reopens, Idles, Stops, Preparing, Handles
<1> QED
  BY <1>1, <1>2 DEF Acts

\* A step of a transport thread before any user has called.
LEMMA TransportFirst ==
    ASSUME Typed, NEW s \in Sides, Waits(s), First(s), HasId(s), NoLimit,
           Untold(s), Untold(Peer(s)), TransportRuns(s)
    PROVE  Untold(s)' /\ Untold(Peer(s))'
<1> DEFINE p == Peer(s)
<1>1. /\ p \in Sides /\ p # s /\ p \in Threads /\ Peer(p) = s /\ s \in Threads /\ "kexinit" \in Kinds
      /\ ~pk[s].needRekey
  BY PeerFacts, HomeFacts DEF Kinds, NoLimit
<1>2. Acts(s) /\ th'[p] = th[p] /\ tr'[p] = tr[p]
  BY <1>1, TransportActs, TransportAlone DEF OnlyTr, Others
<1>3. /\ Keeps(p, "kexinit")
      /\ \/ Keeps(s, "kexinit")
         \/ th[s].pc = "emit" /\ (~Out(s, "kexinit") => Single(s, "kexinit")')
  BY <1>1, TransportKeeps
<1>4. th[s].pc \in Handles => tr[s].local # 0
  BY <1>1, FirstAnswered
<1>5. th'[s].pc \in Preparing => th[s].pc \in Preparing \ {"emit"} /\ th'[s].handling = th[s].handling
  BY <1>1, <1>2, <1>4, InitSteps DEF Handles
<1>6. th'[s].pc \in Handles => th[s].pc \in Handles \/ Hears(s)
  BY <1>2, InitSteps DEF Untold, Preparing
<1>7. Hears(s) => Out(p, "kexinit") /\ ~Out(p, "kexinit")'
  <2> SUFFICES ASSUME Hears(s) PROVE Out(p, "kexinit") /\ ~Out(p, "kexinit")'
    OBVIOUS
  <2>1. On(p, "kexinit", 1) /\ Taken(s)
    BY DEF Hears
  <2> QED
    BY <1>1, <2>1, TakingKeeps DEF Untold, Out
<1>8. Untold(s)'
  <2>1. Single(s, "kexinit")'
    BY <1>3 DEF Untold, Keeps, Preparing
  <2>2. Out(s, "kexinit")' => Out(s, "kexinit") \/ th[s].pc = "emit"
    BY <1>3 DEF Keeps
  <2>3. Late(p)' => Late(p)
    BY <1>2 DEF Late, DhOf
  <2> QED
    BY <1>2, <1>5, <2>1, <2>2, <2>3 DEF Untold, QuietWay, Preparing
<1>9. Untold(p)'
  <2>1. Single(p, "kexinit")' /\ (Out(p, "kexinit")' => Out(p, "kexinit"))
    BY <1>3 DEF Untold, Keeps
  <2>2. Late(s)' => Late(s) \/ Parses(s)
    BY <1>2, LateSteps
  <2>3. Late(s)' => QuietWay(p)'
    <3>1. CASE Late(s)
      BY <1>1, <1>2, <1>6, <1>7, <2>1, <3>1 DEF Untold, QuietWay
    <3>2. CASE Parses(s)
      <4>1. th[s].pc \in Handles /\ th'[s].pc \notin Handles
        BY <3>2 DEF Parses, Handles
      <4> QED
        BY <1>1, <1>2, <2>1, <4>1 DEF Untold, QuietWay
    <3> QED
      BY <2>2, <3>1, <3>2
  <2> QED
    BY <1>1, <1>2, <1>6, <1>7, <2>1, <2>3 DEF Untold
<1> QED
  BY <1>8, <1>9

\* What a step that is no transport thread's leaves of the KEXINITs.
LEMMA QuietKept ==
    ASSUME \A d \in Sides : th'[d] = th[d] /\ Keeps(d, "kexinit"), NEW e \in Sides
    PROVE  QuietWay(e) => QuietWay(e)'
<1>1. Peer(e) \in Sides
  BY PeerFacts
<1> QED
  BY <1>1 DEF QuietWay, Keeps

\* While a user prepares a KEXINIT the transport threads neither prepare nor hear one.
LEMMA TransportCalled ==
    ASSUME Typed, AllWait, NewKeysInTurn, NoLimit, NEW s \in Sides, TransportRuns(s),
           \A e \in Sides : QuietWay(e)
    PROVE  /\ \A e \in Sides : QuietWay(e)'
           /\ \A d \in Sides : Engaged(d)' => Engaged(d)
<1> DEFINE p == Peer(s)
<1>1. /\ p \in Sides /\ p # s /\ p \in Threads /\ Peer(p) = s /\ s \in Threads /\ "kexinit" \in Kinds
      /\ ~pk[s].needRekey /\ Waits(s) /\ \A d \in Sides : d = s \/ d = p
  BY PeerFacts, HomeFacts DEF Kinds, NoLimit, AllWait, Sides
<1>2. Acts(s) /\ th'[p] = th[p] /\ tr'[p] = tr[p]
  BY <1>1, TransportActs, TransportAlone DEF OnlyTr, Others
<1>3. QuietWay(s) /\ QuietWay(p)
  BY <1>1
<1>4. th[s].pc \notin Preparing \cup Handles /\ ~Out(p, "kexinit") /\ ~Out(s, "kexinit")
  BY <1>1, <1>3 DEF QuietWay
<1>5. ~Hears(s) /\ ~Parses(s)
  BY <1>1, <1>4 DEF Hears, Parses, Handles, Out
<1>6. th'[s].pc \notin Preparing \cup Handles
  BY <1>1, <1>2, <1>4, <1>5, InitSteps DEF Preparing, Handles
<1>7. ~Out(p, "kexinit")' /\ ~Out(s, "kexinit")'
  BY <1>1, <1>4, TransportKeeps DEF Keeps, Preparing
<1>8. QuietWay(s)' /\ QuietWay(p)'
  BY <1>1, <1>2, <1>3, <1>6, <1>7 DEF QuietWay
<1>9. (Engaged(s)' => Engaged(s)) /\ (Engaged(p)' => Engaged(p))
  BY <1>1, <1>2, <1>5, EngagedSteps DEF Engaged, DhOf, Switching
<1> QED
  BY <1>1, <1>8, <1>9

\* Two users that are not idle are one.
LEMMA Alone ==
    ASSUME Idlers, OneCaller, NEW u \in Users, NEW v \in Users,
           th[u].pc # "idle" \/ u \in setup.renegotiators, th[v].pc # "idle" \/ v \in setup.renegotiators
    PROVE  u = v
  BY DEF Idlers, OneCaller

\* A user calls when nothing of an exchange is about.
LEMMA CallingQuiet ==
    ASSUME Typed, AllBound, AllShut, Idlers, OneCaller, FirstTurn, NEW u \in Users, RenegotiateKeys(u)
    PROVE  (\A e \in Sides : QuietWay(e)) /\ ~Engaged(SideOf[u])
<1> DEFINE s == SideOf[u]
<1>1. /\ s \in Sides /\ th[u].pc = "idle" /\ u \in setup.renegotiators /\ tr[s].initialDone
      /\ setup.patient => tr[s].clear
  BY HomeFacts DEF RenegotiateKeys
<1>2. ASSUME NEW v \in Users PROVE th[v].pc = "idle"
  BY <1>1, Alone
<1>3. ~Engaged(s)
  BY <1>1 DEF AllShut, Shut, OneCaller
<1>4. ASSUME NEW e \in Sides PROVE QuietWay(e)
  <2>1. Peer(e) \in Sides /\ (s = Peer(e) \/ s = Peer(Peer(e)))
    BY <1>1 DEF Sides, Peer
  <2>2. tr[Peer(e)].sessionId # NoKey
    BY <1>1, <2>1 DEF AllBound, Bound, HasId
  <2> QED
    BY <1>2, <2>2 DEF FirstTurn, Untold, Late
<1> QED
  BY <1>3, <1>4

\* A step of a user keeps both, as its own KEXINIT is the only one about.
LEMMA UserTurns ==
    ASSUME Typed, AllBound, AllShut, Idlers, OneCaller, FirstTurn, CallTurn,
           NEW u \in Users, RenegotiateKeys(u) \/ UserRuns(u)
    PROVE  FirstTurn' /\ CallTurn'
<1>1. /\ u \in Threads /\ SideOf[u] \in Sides /\ "kexinit" \in Kinds
      /\ \A v \in Users : v \in Threads
  BY HomeFacts DEF Kinds
<1>2. \A d \in Sides : th'[d] = th[d] /\ tr'[d].expected = tr[d].expected
  BY UserSteps DEF Steady, SameExchange
<1>3. th'[u].pc # "idle" /\ Others(u) /\ (th[u].pc # "idle" \/ u \in setup.renegotiators)
  BY UserActs
<1>4. FirstTurn'
  BY <1>3 DEF FirstTurn
<1>5. ASSUME NEW v \in Users, th'[v].pc \in Preparing
      PROVE  (\A e \in Sides : QuietWay(e)') /\ ~Engaged(SideOf[v])'
  <2>1. th[v].pc \in Preparing \/ v = u
    BY <1>1, <1>3, <1>5 DEF Others
  <2>2. v = u
    BY <1>3, <2>1, Alone DEF Preparing
  <2>3. th[u].pc # "emit"
    BY <1>5, <2>2, UserActs DEF Preparing
  <2>4. \A d \in Sides : Keeps(d, "kexinit")
    BY <1>1, <2>3, UserKeeps
  <2>5. (\A e \in Sides : QuietWay(e)) /\ ~Engaged(SideOf[u])
    <3>1. CASE RenegotiateKeys(u)
      BY <3>1, CallingQuiet
    <3>2. CASE ~RenegotiateKeys(u)
      BY <1>5, <2>2, <3>2, UserActs DEF CallTurn, Preparing
    <3> QED
      BY <3>1, <3>2
  <2>6. \A e \in Sides : QuietWay(e)'
    BY <1>2, <2>4, <2>5, QuietKept
  <2>7. ~Engaged(SideOf[u])'
    BY <1>1, <1>2, <2>5 DEF Engaged, DhOf, Switching
  <2> QED
    BY <2>2, <2>6, <2>7
<1> QED
  BY <1>4, <1>5 DEF CallTurn

\* Before the first call and during one, in every step.
LEMMA NextTurns ==
    ASSUME Typed, AllWait, AllFirst, AllBound, NewKeysInTurn, AllShut, Idlers, OneCaller, NoLimit,
           FirstTurn, CallTurn, [Next]_vars
    PROVE  FirstTurn' /\ CallTurn'
<1>1. "kexinit" \in Kinds \ Traffic /\ \A u \in Users : u \in Threads /\ u \notin Sides /\ SideOf[u] \in Sides
  BY HomeFacts DEF Kinds, Traffic
<1>2. ASSUME UNCHANGED <<tr, th>>, \A d \in Sides : Keeps(d, "kexinit") PROVE FirstTurn' /\ CallTurn'
  <2>1. ASSUME NEW e \in Sides PROVE Untold(e) => Untold(e)'
    <3>1. Keeps(e, "kexinit") /\ (QuietWay(e) => QuietWay(e)')
      BY <1>2, QuietKept
    <3>2. Late(Peer(e))' => Late(Peer(e))
      BY <1>2 DEF Late, DhOf
    <3> QED
      BY <1>2, <3>1, <3>2 DEF Untold, Keeps
  <2>2. FirstTurn'
    BY <1>2, <2>1 DEF FirstTurn
  <2>3. ASSUME NEW e \in Sides PROVE QuietWay(e) => QuietWay(e)'
    BY <1>2, QuietKept
  <2>4. ASSUME NEW u \in Users PROVE ~Engaged(SideOf[u]) => ~Engaged(SideOf[u])'
    BY <1>2 DEF Engaged, DhOf
  <2> QED
    BY <1>2, <2>2, <2>3, <2>4 DEF CallTurn
<1>3. CASE UNCHANGED vars
  BY <1>2, <1>3 DEF vars, Keeps, Single, Out, On
<1>4. ASSUME NEW u \in Users, RenegotiateKeys(u) \/ UserRuns(u) PROVE FirstTurn' /\ CallTurn'
  BY <1>4, UserTurns
<1>5. ASSUME NEW s \in Sides, TransportRuns(s) PROVE FirstTurn' /\ CallTurn'
  <2>1. \A u \in Users : th'[u] = th[u]
    BY <1>1, <1>5, TransportAlone DEF Others
  <2>2. FirstTurn'
    <3> SUFFICES ASSUME \A u \in Users : th'[u].pc = "idle", NEW e \in Sides PROVE Untold(e)'
      BY DEF FirstTurn
    <3>1. /\ Peer(s) \in Sides /\ (e = s \/ e = Peer(s)) /\ Waits(s) /\ First(s) /\ HasId(s)
      BY PeerFacts DEF AllWait, AllFirst, AllBound, Bound, Sides, Peer
    <3>2. Untold(s) /\ Untold(Peer(s))
      BY <2>1, <3>1 DEF FirstTurn
    <3> QED
      BY <1>5, <3>1, <3>2, TransportFirst
  <2>3. ASSUME NEW u \in Users, th'[u].pc \in Preparing
        PROVE  (\A e \in Sides : QuietWay(e)') /\ ~Engaged(SideOf[u])'
    <3>1. (\A e \in Sides : QuietWay(e)) /\ ~Engaged(SideOf[u])
      BY <2>1, <2>3 DEF CallTurn
    <3> QED
      BY <1>1, <1>5, <3>1, TransportCalled
  <2> QED
    BY <2>2, <2>3 DEF CallTurn
<1>6. ASSUME NEW s \in Sides, NEW kind \in Traffic, SendUserMessage(s, kind) PROVE FirstTurn' /\ CallTurn'
  BY <1>1, <1>2, <1>6, SendUserMessageDoes, TrafficKeeps
<1> QED
  BY <1>3, <1>4, <1>5, <1>6 DEF Next

\* At first each side prepares its first KEXINIT.
LEMMA InitTurns == Init => FirstTurn /\ CallTurn
<1> SUFFICES ASSUME Init PROVE FirstTurn /\ CallTurn
  OBVIOUS
<1>1. \A t \in Threads : th[t].pc = (IF t \in Sides THEN "clear" ELSE "idle") /\ ~th[t].handling
  BY DEF Init
<1>2. ASSUME NEW e \in Sides PROVE Untold(e)
  <2>1. Peer(e) \in Sides /\ e \in Threads /\ Peer(e) \in Threads
    BY PeerFacts, HomeFacts
  <2>2. wire[e] = <<>> /\ tr[Peer(e)].expected = {"kexinit"} /\ tr[Peer(e)].sessionId = NoKey
    BY <2>1 DEF Init
  <2>3. ~Out(e, "kexinit") /\ Single(e, "kexinit")
    BY <2>2 DEF Out, On, Single
  <2>4. ~Late(Peer(e))
    BY <1>1, <2>1, <2>2 DEF Late, DhOf
  <2> QED
    BY <1>1, <2>1, <2>3, <2>4 DEF Untold, Handles
<1>3. \A u \in Users : th[u].pc = "idle"
  BY <1>1, HomeFacts
<1> QED
  BY <1>2, <1>3 DEF FirstTurn, CallTurn, Preparing

\* The packets that transport threads and users send, never in the middle of a switch.
LEMMA SentOutsideSwitch ==
    ASSUME Typed, AllShut, Idlers, setup.renegotiators = {} \/ (OneCaller /\ CallTurn),
           Next, NEW d \in Sides, Len(wire'[d]) > Len(wire[d])
    PROVE  /\ wire'[d][Len(wire'[d])].seq = pk[d].seqOut
           /\ th[d].pc # "cipher"
<1>1. ASSUME NEW s \in Sides, NEW kind, NEW val, Emitted(s, kind, val)
      PROVE  s = d /\ wire'[d][Len(wire'[d])].seq = pk[d].seqOut
  <2>1. s = d
    BY <1>1 DEF Emitted
  <2> QED
    BY <1>1, <2>1 DEF Emitted
<1>2. wire'[d] # wire[d]
  OBVIOUS
<1>3. ASSUME NEW s \in Sides, Taken(s) PROVE FALSE
  BY <1>2, <1>3, PeerFacts DEF Taken
<1>4. ASSUME NEW u \in Users, RenegotiateKeys(u) \/ UserRuns(u)
      PROVE  wire'[d][Len(wire'[d])].seq = pk[d].seqOut /\ th[d].pc # "cipher"
  <2>1. th[u].pc = "emit" /\ Emitted(SideOf[u], "kexinit", <<th[u].init, 0>>) /\ SideOf[u] \in Sides
    BY <1>2, <1>4, UserSteps, HomeFacts
  <2>2. u \in setup.renegotiators
    BY <2>1 DEF Idlers
  <2>3. ~Engaged(SideOf[u])
    BY <2>1, <2>2 DEF CallTurn, Preparing
  <2> QED
    BY <1>1, <2>1, <2>3 DEF Engaged, Switching
<1>5. ASSUME NEW s \in Sides, TransportRuns(s)
      PROVE  wire'[d][Len(wire'[d])].seq = pk[d].seqOut /\ th[d].pc # "cipher"
  <2>1. th[s].pc = "cipher" => UNCHANGED wire
    <3> SUFFICES ASSUME th[s].pc = "cipher" PROVE UNCHANGED wire
      OBVIOUS
    <3>1. SetOutboundCipher(s)
      BY <1>5 DEF TransportRuns, ClearToSend, LocalKexInit, SendKexInit, CheckRekey, ReadInterrupted,
         ReadMessage, ReadRaises, Take, EndOfStream, Answer, Reply, ReplyTimesOut, NegotiateKeys, ParseKexInit,
         ParseKexdhInit, ParseKexdhReply, SendNewKeys, ResetSeqnoOut, ExpectNewKeys, ParseNewKeys, ReopenTraffic
    <3> QED
      BY <3>1 DEF SetOutboundCipher
  <2> QED
    BY <1>1, <1>2, <1>3, <1>5, <2>1, WireEffects
<1>6. ASSUME NEW s \in Sides, NEW kind \in Traffic, SendUserMessage(s, kind)
      PROVE  wire'[d][Len(wire'[d])].seq = pk[d].seqOut /\ th[d].pc # "cipher"
  <2>1. Emitted(s, kind, NoKey) /\ tr[s].clear
    BY <1>6, SendUserMessageDoes
  <2> QED
    BY <1>1, <2>1 DEF AllShut, Shut, Engaged, Switching
<1> QED
  BY <1>4, <1>5, <1>6 DEF Next

\* An undisturbed set-up has one caller at most.
LEMMA UndisturbedCallers == Typed /\ Undisturbed => setup.renegotiators = {} \/ OneCaller
<1> SUFFICES ASSUME Typed, Undisturbed, setup.renegotiators # {} PROVE OneCaller
  OBVIOUS
<1> DEFINE R == setup.renegotiators
<1>1. R \subseteq Users /\ IsFiniteSet(Users)
  BY KexAssumption DEF Typed, SetupRecords
<1>2. IsFiniteSet(R)
  BY <1>1, FS_Subset
<1>3. Cardinality(R) = 1 /\ setup.patient /\ \A s \in Sides : setup.limit[s] = Never
  BY DEF Undisturbed
<1>4. PICK x : R = {x}
  BY <1>2, <1>3, FS_Singleton
<1> QED
  BY <1>3, <1>4 DEF OneCaller

\* What the key exchange keeps in every set-up, and what it keeps when one user calls.
Sound ==
    /\ Typed /\ AllWait /\ Exchange /\ AllFirst /\ AllInitsKnown /\ AllBound
    /\ NewKeysInTurn /\ AllShut /\ AllSpent /\ Idlers
    /\ OneCaller => NoLimit /\ FirstTurn /\ CallTurn

\* It does so from the beginning and in every step.
LEMMA SoundKept == (Init => Sound) /\ (Sound /\ [Next]_vars => Sound')
<1>1. Init => Sound
  BY InitTyped, InitWaits, InitExchange, InitFirst, InitInitsKnown, InitBound, InitInTurn, InitShut,
     InitSpent, IdlersKept, NoLimitKept, InitTurns DEF Sound
<1>2. ASSUME Sound, [Next]_vars PROVE Sound'
  <2>1. /\ Typed' /\ AllWait' /\ Exchange' /\ AllFirst' /\ AllInitsKnown' /\ AllBound'
        /\ NewKeysInTurn' /\ AllShut' /\ AllSpent' /\ Idlers'
    BY <1>2, NextTyped, NextWaits, NextExchange, NextFirst, NextInitsKnown, NextBound, NextInTurn, NextShut,
       NextSpent, IdlersKept DEF Sound
  <2>2. UNCHANGED setup
    BY <1>2, UserActs, PacketizerAlone, SendUserMessageDoes DEF Sound, Next, vars
  <2>3. OneCaller' => OneCaller
    BY <2>2 DEF OneCaller
  <2>4. OneCaller => NoLimit' /\ FirstTurn' /\ CallTurn'
    BY <1>2, NoLimitKept, NextTurns DEF Sound
  <2> QED
    BY <2>1, <2>3, <2>4 DEF Sound
<1> QED
  BY <1>1, <1>2

\* No sequence number is used twice under one outbound key: whoever sends, a transport
\* thread, a user with a message or the user that renegotiates, does so when its side is
\* not between the reset of the number and the switch of the cipher, which are two
\* critical sections of _activate_outbound.
THEOREM KexCounterNeverReused == Spec => CounterNeverReused
<1> DEFINE A == Undisturbed => \A s \in Sides :
                    Len(wire'[s]) > Len(wire[s]) =>
                        \/ wire'[s][Len(wire'[s])].key # pk[s].keyOut
                        \/ wire'[s][Len(wire'[s])].seq >= pk[s].spent
<1>1. (Init => Sound) /\ (Sound /\ [Next]_vars => Sound')
  BY SoundKept
<1>2. ASSUME Sound, Next PROVE A
  <2> SUFFICES ASSUME Undisturbed, NEW s \in Sides, Len(wire'[s]) > Len(wire[s])
               PROVE  wire'[s][Len(wire'[s])].seq >= pk[s].spent
    OBVIOUS
  <2>1. setup.renegotiators = {} \/ (OneCaller /\ CallTurn)
    BY <1>2, UndisturbedCallers DEF Sound
  <2>2. wire'[s][Len(wire'[s])].seq = pk[s].seqOut /\ th[s].pc # "cipher"
    BY <1>2, <2>1, SentOutsideSwitch DEF Sound
  <2>3. pk[s].spent <= pk[s].seqOut /\ pk[s].spent \in Nat /\ pk[s].seqOut \in Nat
    BY <1>2, <2>2 DEF Sound, AllSpent, Spent, Typed, PkOK, PacketizerStates
  <2> QED
    BY <2>2, <2>3
<1>3. Sound /\ [Next]_vars => [A]_vars
  BY <1>2
<1> HIDE DEF A
<1>4. Spec => [][A]_vars
  BY <1>1, <1>3, PTL DEF Spec
<1> QED
  BY <1>4 DEF CounterNeverReused, A

-----------------------------------------------------------------------------
(* What renegotiate_keys waits for                                          *)

\* What a transport thread writes of its exchange and its life.
LEMMA RunWrites ==
    ASSUME Typed, NEW s \in Sides, TransportRuns(s)
    PROVE  /\ tr'[s].active =>
                /\ tr[s].active
                /\ tr[s].completion => tr'[s].completion
                /\ tr'[s].completion => tr[s].completion \/ th[s].pc = "newkeysin"
           /\ th[s].pc = "newkeysin" => tr'[s].completion
           /\ tr[s].active => tr'[s].active \/ th'[s].pc = "dead"
           /\ th[s].pc # "newkeysin" /\ th[s].pc # "local" => tr'[s].local = tr[s].local
           /\ tr'[s].local \in {tr[s].local, 0, tr'[s].inits}
           /\ tr'[s].H = tr[s].H \/ (th[s].pc = "dh" /\ tr'[s].H = Hash(s))
<1> DEFINE Good ==
        /\ tr'[s].active =>
             /\ tr[s].active
             /\ tr[s].completion => tr'[s].completion
             /\ tr'[s].completion => tr[s].completion \/ th[s].pc = "newkeysin"
        /\ th[s].pc = "newkeysin" => tr'[s].completion
        /\ tr[s].active => tr'[s].active \/ th'[s].pc = "dead"
        /\ th[s].pc # "newkeysin" /\ th[s].pc # "local" => tr'[s].local = tr[s].local
        /\ tr'[s].local \in {tr[s].local, 0, tr'[s].inits}
        /\ tr'[s].H = tr[s].H \/ (th[s].pc = "dh" /\ tr'[s].H = Hash(s))
<1>1. s \in Threads /\ Home(s) = s /\ s \notin Users
  BY HomeFacts
<1>2. ASSUME SameLife(tr[s], tr'[s]), tr'[s].local = tr[s].local, th[s].pc # "newkeysin",
             tr'[s].H = tr[s].H \/ (th[s].pc = "dh" /\ tr'[s].H = Hash(s))
      PROVE  Good
  BY <1>2 DEF SameLife
<1>3. CASE UNCHANGED tr /\ th[s].pc # "newkeysin"
  BY <1>3
<1>4. CASE ClearToSend(s)
  BY <1>1, <1>2, <1>4, ClearToSendDoes, SendersWrite DEF SameInits, Steady, SameExchange
<1>5. CASE LocalKexInit(s)
  <2>1. th[s].pc = "local"
    BY <1>1, <1>5, LocalKexInitDoes
  <2>2. SameLife(tr[s], tr'[s]) /\ tr'[s].local = tr'[s].inits /\ Steady(s)
    BY <1>1, <1>5, SendersWrite
  <2> QED
    BY <2>1, <2>2 DEF SameLife, Steady, SameExchange
<1>6. CASE SendKexInit(s) \/ CheckRekey(s) \/ ReadInterrupted(s)
  BY <1>1, <1>3, <1>6, SendKexInitDoes, MovesDo
<1>7. CASE ReadMessage(s)
  BY <1>2, <1>7, ReadMessageDoes, HandlersWrite DEF SameInits
<1>8. CASE ReadRaises(s) \/ EndOfStream(s) \/ ReplyTimesOut(s)
  <2>1. Dies(s) /\ th[s].pc \in {"reading", "reply"}
    BY <1>8, EndsDo
  <2> QED
    BY <2>1 DEF Dies, SameKex, Moved
<1>9. CASE Answer(s) \/ Reply(s)
  BY <1>3, <1>9, AnswersDo
<1>10. CASE NegotiateKeys(s)
  BY <1>2, <1>10, NegotiateKeysDoes, HandlersWrite DEF SameInits, Steady, SameExchange
<1>11. CASE ParseKexInit(s) \/ ExpectNewKeys(s)
  BY <1>2, <1>11, ParseKexInitDoes, ExpectNewKeysDoes, HandlersWrite DEF SameInits
<1>12. CASE SetOutboundCipher(s)
  BY <1>2, <1>12, SetOutboundCipherDoes, HandlersWrite DEF SameInits, Steady, SameExchange
<1>13. CASE ParseKexdhInit(s) \/ ParseKexdhReply(s)
  <2>1. /\ th[s].pc = "dh" /\ tr'[s].H = Hash(s) /\ tr'[s].local = tr[s].local
        /\ SameLife(tr[s], tr'[s]) \/ (~tr'[s].active /\ th'[s].pc = "dead")
    BY <1>13, KexdhDo DEF Hashed, SameKex, Moved
  <2> QED
    BY <2>1 DEF SameLife
<1>14. CASE SendNewKeys(s) \/ ResetSeqnoOut(s)
  BY <1>3, <1>14, SendNewKeysDoes, ResetSeqnoOutDoes
<1>15. CASE ParseNewKeys(s)
  <2>1. tr'[s].completion
    <3>1. tr[s] \in TransportStates
      BY DEF Typed, TrOK
    <3>2. tr'[s] = [tr[s] EXCEPT !.local = 0, !.remote = 0, !.initialDone = TRUE, !.completion = TRUE]
      BY <1>15 DEF ParseNewKeys, Typed, TrOK
    <3> QED
      BY <3>1, <3>2 DEF TransportStates
  <2>2. /\ th[s].pc = "newkeysin" /\ tr'[s].local = 0 /\ tr'[s].active = tr[s].active /\ tr'[s].H = tr[s].H
    BY <1>15, ParseNewKeysDoes
  <2> QED
    BY <2>1, <2>2
<1>16. CASE ReopenTraffic(s)
  BY <1>2, <1>16, ReopenTrafficDoes
<1> QED
  BY <1>4, <1>5, <1>6, <1>7, <1>8, <1>9, <1>10, <1>11, <1>12, <1>13, <1>14, <1>15, <1>16 DEF TransportRuns

\* What it writes of its keys.
LEMMA RunKeys ==
    ASSUME Typed, NEW s \in Sides, TransportRuns(s)
    PROVE  /\ IF th[s].pc = "cipher" THEN pk'[s].keyOut = tr[s].H ELSE pk'[s].keyOut = pk[s].keyOut
           /\ IF th[s].pc = "newkeysin" THEN pk'[s].keyIn = tr[s].H ELSE pk'[s].keyIn = pk[s].keyIn
<1>1. pk[s] \in PacketizerStates /\ tr[s].H \in Keys /\ setup.limit[s] \in Nat
  BY LimitFacts DEF Typed, PkOK, TrOK, TransportStates
<1>2. CASE th[s].pc = "cipher"
  <2>1. SetOutboundCipher(s)
    BY <1>2 DEF TransportRuns, ClearToSend, LocalKexInit, SendKexInit, CheckRekey, ReadInterrupted,
       ReadMessage, ReadRaises, Take, EndOfStream, Answer, Reply, ReplyTimesOut, NegotiateKeys, ParseKexInit,
       ParseKexdhInit, ParseKexdhReply, SendNewKeys, ResetSeqnoOut, ExpectNewKeys, ParseNewKeys, ReopenTraffic
  <2>2. pk'[s] = SetOutbound(pk[s], tr[s].H)
    BY <2>1, SetOutboundCipherDoes
  <2> QED
    BY <1>1, <1>2, <2>2, OutboundFacts
<1>3. CASE th[s].pc = "newkeysin"
  <2>1. ParseNewKeys(s)
    BY <1>3 DEF TransportRuns, ClearToSend, LocalKexInit, SendKexInit, CheckRekey, ReadInterrupted,
       ReadMessage, ReadRaises, Take, EndOfStream, Answer, Reply, ReplyTimesOut, NegotiateKeys, ParseKexInit,
       ParseKexdhInit, ParseKexdhReply, SendNewKeys, ResetSeqnoOut, SetOutboundCipher, ExpectNewKeys, ReopenTraffic
  <2> QED
    BY <1>3, <2>1, ParseNewKeysDoes DEF SameOut
<1>4. CASE th[s].pc \notin {"cipher", "newkeysin"}
  <2>1. CASE pk'[s] = Sent(pk[s], setup.limit[s])
    BY <1>1, <1>4, <2>1, SentFacts
  <2>2. CASE pk'[s] = Received(pk[s], setup.limit[s])
    BY <1>1, <1>4, <2>2, ReceivedFacts DEF SameOut
  <2> QED
    BY <1>4, <2>1, <2>2, PacketizerWrites
<1> QED
  BY <1>2, <1>3, <1>4

\* What a user's step leaves of a side: its life, its exchange and its keys.
LEMMA UserWrites ==
    ASSUME Typed, NEW u \in Users, RenegotiateKeys(u) \/ UserRuns(u), NEW d \in Sides
    PROVE  /\ tr'[d].active = tr[d].active
           /\ tr'[d].completion = tr[d].completion \/ (RenegotiateKeys(u) /\ d = SideOf[u])
           /\ tr'[d].local = tr[d].local \/ (LocalKexInit(u) /\ d = SideOf[u])
           /\ tr'[d].local \in {tr[d].local, tr'[d].inits}
           /\ pk'[d].keyOut = pk[d].keyOut /\ pk'[d].keyIn = pk[d].keyIn
<1>1. u \in Threads /\ Home(u) = SideOf[u] /\ SideOf[u] \in Sides
  BY HomeFacts
<1>2. pk'[d].keyOut = pk[d].keyOut /\ pk'[d].keyIn = pk[d].keyIn
  <2>1. pk[d] \in PacketizerStates /\ setup.limit[d] \in Nat
    BY LimitFacts DEF Typed, PkOK
  <2>2. pk'[d] = pk[d] \/ pk'[d] = Sent(pk[d], setup.limit[d])
    BY <1>1, UserSteps DEF Emitted
  <2> QED
    BY <2>1, <2>2, SentFacts
<1>3. CASE ClearToSend(u)
  BY <1>1, <1>2, <1>3, SendersWrite DEF SameLife, SameInits, OnlyTr
<1>4. CASE LocalKexInit(u)
  BY <1>1, <1>2, <1>4, SendersWrite DEF SameLife, OnlyTr
<1>5. CASE RenegotiateKeys(u)
  BY <1>1, <1>2, <1>5, SendersWrite DEF SameInits, OnlyTr
<1>6. CASE \/ SendKexInit(u) \/ SendKexInitFails(u) \/ RenegotiateRaises(u)
         \/ RenegotiateFindsActive(u) \/ RenegotiateReturns(u)
  <2>1. UNCHANGED tr
    BY <1>1, <1>6, SendKexInitDoes, MovesDo
  <2> QED
    BY <1>2, <2>1
<1> QED
  BY <1>3, <1>4, <1>5, <1>6 DEF UserRuns

\* Traffic leaves the keys.
LEMMA TrafficWrites ==
    ASSUME Typed, NEW s \in Sides, NEW kind \in Traffic, SendUserMessage(s, kind), NEW d \in Sides
    PROVE  UNCHANGED <<tr, th>> /\ pk'[d].keyOut = pk[d].keyOut /\ pk'[d].keyIn = pk[d].keyIn
<1>1. pk[d] \in PacketizerStates /\ setup.limit[d] \in Nat
  BY LimitFacts DEF Typed, PkOK
<1>2. pk'[d] = pk[d] \/ pk'[d] = Sent(pk[d], setup.limit[d])
  BY SendUserMessageDoes DEF Emitted
<1> QED
  BY <1>1, <1>2, SentFacts, SendUserMessageDoes

\* A transport that is not active has no thread.
Alive == \A s \in Sides : tr[s].active \/ th[s].pc = "dead"

\* It never has one again.
LEMMA AliveKept == (Init => Alive) /\ (Typed /\ AllWait /\ Alive /\ [Next]_vars => Alive')
<1>1. Init => Alive
  BY DEF Init, Alive
<1>2. ASSUME Typed, AllWait, Alive, [Next]_vars, NEW d \in Sides PROVE tr'[d].active \/ th'[d].pc = "dead"
  <2>1. (tr[d].active \/ th[d].pc = "dead") /\ d \in Threads
    BY <1>2, HomeFacts DEF Alive
  <2>2. CASE UNCHANGED vars
    BY <2>1, <2>2 DEF vars
  <2>3. ASSUME NEW u \in Users, RenegotiateKeys(u) \/ UserRuns(u) PROVE tr'[d].active \/ th'[d].pc = "dead"
    BY <1>2, <2>1, <2>3, UserSteps, UserWrites
  <2>4. ASSUME NEW s \in Sides, TransportRuns(s) PROVE tr'[d].active \/ th'[d].pc = "dead"
    <3>1. CASE d = s
      <4>1. Acts(s)
        BY <1>2, <2>4, TransportActs DEF AllWait
      <4>2. th[s].pc # "dead"
        BY <4>1 DEF Acts, Prepares, Offers, Starts, Hears, Negotiates, Parses, Reads, Hashes, Switches, Awaits,
                Renews, Reopens, Idles, Stops
      <4> QED
        BY <1>2, <2>1, <2>4, <3>1, <4>2, RunWrites
    <3>2. CASE d # s
      BY <1>2, <2>1, <2>4, <3>2, TransportAlone DEF OnlyTr, Others
    <3> QED
      BY <3>1, <3>2
  <2>5. ASSUME NEW s \in Sides, NEW kind \in Traffic, SendUserMessage(s, kind)
        PROVE  tr'[d].active \/ th'[d].pc = "dead"
    BY <1>2, <2>1, <2>5, SendUserMessageDoes
  <2> QED
    BY <1>2, <2>2, <2>3, <2>4, <2>5 DEF Next
<1> QED
  BY <1>1, <1>2 DEF Alive

\* The KEXINIT of side d that a key was made from.
Own(d, key) == IF d = "client" THEN key[1] ELSE key[2]

\* The hash is made from the KEXINIT that the side has sent; the first is number 1.
LEMMA OwnFacts ==
    ASSUME NEW d \in Sides
    PROVE  /\ \A key \in Keys : Own(d, key) \in Nat
           /\ Own(d, NoKey) = 0
           /\ Own(d, Hash(d)) = tr[d].local
  BY DEF Own, Keys, NoKey, Hash

\* The KEXINITs of d in its exchange and in its key are among those it has made.
KeysKnown(d) ==
    /\ tr[d].local <= tr[d].inits
    /\ Own(d, tr[d].H) <= tr[d].inits /\ Own(d, pk[d].keyOut) <= tr[d].inits
AllKeysKnown == \A d \in Sides : KeysKnown(d)

\* What the fields are.
LEMMA KeyTypes ==
    ASSUME Typed, NEW d \in Sides
    PROVE  /\ tr[d].local \in Nat /\ tr[d].inits \in Nat /\ tr[d].H \in Keys /\ pk[d].keyOut \in Keys
           /\ Own(d, tr[d].H) \in Nat /\ Own(d, pk[d].keyOut) \in Nat
<1>1. tr[d].local \in Nat /\ tr[d].inits \in Nat /\ tr[d].H \in Keys /\ pk[d].keyOut \in Keys
  BY DEF Typed, TrOK, PkOK, TransportStates, PacketizerStates
<1> QED
  BY <1>1, OwnFacts

\* No step makes a key from anything else.
LEMMA KeysKnownKept == (Init => AllKeysKnown) /\ (Typed /\ AllKeysKnown /\ [Next]_vars => AllKeysKnown')
<1>1. ASSUME Init, NEW d \in Sides PROVE KeysKnown(d)
  <2>1. tr[d].local = 0 /\ tr[d].inits = 0 /\ tr[d].H = NoKey /\ pk[d].keyOut = NoKey
    BY <1>1 DEF Init
  <2> QED
    BY <2>1, OwnFacts DEF KeysKnown
<1>2. ASSUME Typed, AllKeysKnown, [Next]_vars, NEW d \in Sides PROVE KeysKnown(d)'
  <2>1. KeysKnown(d)
    BY <1>2 DEF AllKeysKnown
  <2>2. ASSUME tr'[d].inits \in {tr[d].inits, tr[d].inits + 1},
               tr'[d].local \in {tr[d].local, 0, tr'[d].inits},
               tr'[d].H = tr[d].H \/ tr'[d].H = Hash(d),
               pk'[d].keyOut = pk[d].keyOut \/ pk'[d].keyOut = tr[d].H
        PROVE  KeysKnown(d)'
    <3>1. tr'[d].inits \in Nat /\ tr[d].inits <= tr'[d].inits
      BY <1>2, <2>2, KeyTypes
    <3>2. tr'[d].local <= tr'[d].inits
      BY <1>2, <2>1, <2>2, <3>1, KeyTypes DEF KeysKnown
    <3>3. Own(d, tr'[d].H) \in {Own(d, tr[d].H), tr[d].local}
      BY <2>2, OwnFacts
    <3>4. Own(d, pk'[d].keyOut) \in {Own(d, pk[d].keyOut), Own(d, tr[d].H)}
      BY <2>2
    <3>5. Own(d, tr'[d].H) <= tr'[d].inits /\ Own(d, pk'[d].keyOut) <= tr'[d].inits
      BY <1>2, <2>1, <3>1, <3>3, <3>4, KeyTypes DEF KeysKnown
    <3> QED
      BY <3>2, <3>5 DEF KeysKnown, Own
  <2>3. CASE UNCHANGED vars
    BY <2>2, <2>3 DEF vars
  <2>4. ASSUME NEW u \in Users, RenegotiateKeys(u) \/ UserRuns(u) PROVE KeysKnown(d)'
    BY <1>2, <2>2, <2>4, UserWrites, UserInits, UserSteps DEF InitsToSend, Steady, SameExchange
  <2>5. ASSUME NEW s \in Sides, TransportRuns(s) PROVE KeysKnown(d)'
    <3>1. CASE d = s
      BY <1>2, <2>2, <2>5, <3>1, RunWrites, RunKeys, TransportInits DEF InitsToSend
    <3>2. CASE d # s
      BY <1>2, <2>2, <2>5, <3>2, TransportAlone, PacketizerAlone DEF OnlyTr
    <3> QED
      BY <3>1, <3>2
  <2>6. ASSUME NEW s \in Sides, NEW kind \in Traffic, SendUserMessage(s, kind) PROVE KeysKnown(d)'
    BY <1>2, <2>2, <2>6, TrafficWrites
  <2> QED
    BY <1>2, <2>3, <2>4, <2>5, <2>6 DEF Next
<1> QED
  BY <1>1, <1>2 DEF AllKeysKnown

\* The KEXINIT of the user of s, and the peer's answer, are in one place at a time; once
\* s has parsed the answer there is none about.
Hushed(s) == ~Out(s, "kexinit") /\ th[Peer(s)].pc # "negotiate" /\ QuietWay(Peer(s))
Answered(s) ==
    LET p == Peer(s)
    IN /\ Single(s, "kexinit") /\ Single(p, "kexinit")
       /\ Out(s, "kexinit") => th[p].pc # "negotiate" /\ QuietWay(p)
       /\ th[p].pc = "negotiate" => QuietWay(p)
       /\ th[p].pc \in Preparing => ~Out(p, "kexinit") /\ th[s].pc \notin Handles
       /\ Out(p, "kexinit") => th[s].pc \notin Handles
       /\ Engaged(s) \/ (tr[s].active /\ tr[s].completion) => Hushed(s)
       /\ th[s].pc \notin Preparing
ReplyTurn == \A u \in Users : th[u].pc \in Polling => Answered(SideOf[u])

\* The exchange that user u of side s waits for is the one its KEXINIT began: until it
\* completes every hash is made from that KEXINIT, and then so are the keys.
Fresh(u, s) ==
    /\ th[u].pc \in {"clear", "local"} => Own(s, th[u].before) <= tr[s].inits
    /\ th[u].pc \in {"emit"} \cup Polling => Own(s, th[u].before) < th[u].init
    /\ th[u].pc \in Preparing /\ tr[s].active => ~tr[s].completion
    /\ th[u].pc \in {"emit"} \cup Polling /\ tr[s].active /\ ~tr[s].completion =>
          /\ tr[s].local = th[u].init
          /\ th[s].pc \in {"newkeysout", "reset", "cipher"} => Own(s, tr[s].H) = th[u].init
          /\ th[s].pc \in {"extinfo", "newkeysin"} \/ tr[s].expected = {"newkeys"} =>
                Own(s, tr[s].H) = th[u].init /\ pk[s].keyOut = tr[s].H
    /\ th[u].pc \in Polling /\ tr[s].active /\ tr[s].completion =>
          pk[s].keyOut = pk[s].keyIn /\ Own(s, pk[s].keyOut) = th[u].init /\ ~Engaged(s)
AllFresh == \A u \in Users : Fresh(u, SideOf[u])

\* What a transport thread hears comes from the wire.
LEMMA NegotiateSteps == ASSUME NEW s \in Sides, Acts(s), th'[s].pc = "negotiate" PROVE Hears(s)
  BY DEF Acts, Prepares, Offers, Starts, Hears, Negotiates, Parses, Reads, Hashes, Switches, Awaits,
         Renews, Reopens, Idles, Stops

\* A step of the waiting side's transport thread.
LEMMA OwnAnswer ==
    ASSUME Typed, AllWait, NewKeysInTurn, NoLimit, Alive, NEW s \in Sides, Answered(s), TransportRuns(s),
           tr[s].active /\ ~tr[s].completion => tr[s].local # 0
    PROVE  Answered(s)'
<1> DEFINE p == Peer(s)
<1>1. /\ p \in Sides /\ p # s /\ p \in Threads /\ Peer(p) = s /\ s \in Threads /\ "kexinit" \in Kinds
      /\ ~pk[s].needRekey /\ Waits(s)
  BY PeerFacts, HomeFacts DEF Kinds, NoLimit, AllWait
<1>2. Acts(s) /\ th'[p] = th[p] /\ tr'[p] = tr[p]
  BY <1>1, TransportActs, TransportAlone DEF OnlyTr, Others
<1>3. th[s].pc \in Handles => tr[s].local # 0
  <2>1. th[s].pc \in Handles => tr[s].active
    BY DEF Alive, Handles
  <2>2. th[s].pc \in Handles => ~(tr[s].active /\ tr[s].completion)
    BY <1>1 DEF Answered, Hushed, QuietWay
  <2> QED
    BY <2>1, <2>2
<1>4. th[s].pc \notin Preparing /\ th'[s].pc \notin Preparing
  BY <1>1, <1>2, <1>3, InitSteps DEF Answered, Handles
<1>5. Keeps(s, "kexinit") /\ Keeps(p, "kexinit")
  BY <1>1, <1>4, TransportKeeps DEF Preparing
<1>6. th'[s].pc \in Handles => th[s].pc \in Handles \/ Hears(s)
  BY <1>2, <1>4, InitSteps DEF Preparing
<1>7. Hears(s) => Out(p, "kexinit") /\ ~Out(p, "kexinit")'
  <2> SUFFICES ASSUME Hears(s) PROVE Out(p, "kexinit") /\ ~Out(p, "kexinit")'
    OBVIOUS
  <2>1. On(p, "kexinit", 1) /\ Taken(s)
    BY DEF Hears
  <2> QED
    BY <1>1, <2>1, TakingKeeps DEF Answered, Out
<1>8. QuietWay(p) => QuietWay(p)'
  BY <1>1, <1>2, <1>5, <1>6, <1>7 DEF QuietWay, Keeps
<1>9. Hushed(s) => Hushed(s)'
  BY <1>2, <1>5, <1>8 DEF Hushed, Keeps
<1>10. (Engaged(s) \/ (tr[s].active /\ tr[s].completion))' => Engaged(s) \/ (tr[s].active /\ tr[s].completion) \/ Parses(s)
  <2>1. Engaged(s)' => Engaged(s) \/ Parses(s)
    BY <1>1, <1>2, EngagedSteps
  <2>2. tr'[s].active /\ tr'[s].completion => tr[s].active /\ (tr[s].completion \/ th[s].pc = "newkeysin")
    BY RunWrites
  <2> QED
    BY <2>1, <2>2 DEF Engaged
<1>11. Parses(s) => Hushed(s)'
  <2> SUFFICES ASSUME Parses(s) PROVE Hushed(s)'
    OBVIOUS
  <2>1. th[s].pc \in Handles /\ th'[s].pc \notin Handles
    BY DEF Parses, Handles
  <2>2. ~Out(s, "kexinit") /\ th[p].pc # "negotiate" /\ th[p].pc \notin Preparing /\ ~Out(p, "kexinit")
    BY <1>1, <2>1 DEF Answered, QuietWay
  <2> QED
    BY <1>1, <1>2, <1>5, <2>1, <2>2 DEF Hushed, QuietWay, Keeps
<1>12. (Engaged(s) \/ (tr[s].active /\ tr[s].completion) => Hushed(s))'
  BY <1>9, <1>10, <1>11 DEF Answered
<1>13. Single(s, "kexinit")' /\ Single(p, "kexinit")'
  BY <1>5 DEF Answered, Keeps
<1>14. (Out(s, "kexinit")' => Out(s, "kexinit")) /\ (Out(p, "kexinit")' => Out(p, "kexinit"))
  BY <1>5 DEF Keeps
<1> QED
  BY <1>2, <1>4, <1>6, <1>7, <1>8, <1>12, <1>13, <1>14 DEF Answered

\* A step of its peer's.
LEMMA PeerAnswer ==
    ASSUME Typed, AllWait, NoLimit, NEW s \in Sides, Answered(s), TransportRuns(Peer(s))
    PROVE  Answered(s)'
<1> DEFINE p == Peer(s)
<1>1. /\ p \in Sides /\ p # s /\ p \in Threads /\ Peer(p) = s /\ s \in Threads /\ "kexinit" \in Kinds
      /\ ~pk[p].needRekey /\ Waits(p)
  BY PeerFacts, HomeFacts DEF Kinds, NoLimit, AllWait
<1>2. Acts(p) /\ th'[s] = th[s] /\ tr'[s] = tr[s]
  BY <1>1, TransportActs, TransportAlone DEF OnlyTr, Others
<1>3. /\ Keeps(s, "kexinit")
      /\ \/ Keeps(p, "kexinit")
         \/ th[p].pc = "emit" /\ (~Out(p, "kexinit") => Single(p, "kexinit")')
  BY <1>1, TransportKeeps
<1>4. th'[p].pc \in Preparing => th[p].pc \in Preparing \ {"emit"} \/ th[p].pc = "negotiate"
  BY <1>1, <1>2, InitSteps
<1>5. th'[p].pc = "negotiate" => th[p].pc = "reading" /\ Out(s, "kexinit") /\ ~Out(s, "kexinit")'
  <2> SUFFICES ASSUME th'[p].pc = "negotiate"
               PROVE  th[p].pc = "reading" /\ Out(s, "kexinit") /\ ~Out(s, "kexinit")'
    OBVIOUS
  <2>1. On(s, "kexinit", 1) /\ Taken(p) /\ th[p].pc = "reading"
    BY <1>1, <1>2, NegotiateSteps DEF Hears
  <2>2. ~Out(s, "kexinit")'
    BY <1>1, <2>1, TakingKeeps DEF Answered
  <2> QED
    BY <2>1, <2>2 DEF Out
<1>6. /\ Out(s, "kexinit")' => Out(s, "kexinit")
      /\ Out(p, "kexinit")' => Out(p, "kexinit") \/ th[p].pc = "emit"
  BY <1>3 DEF Keeps
<1>7. Single(s, "kexinit")' /\ Single(p, "kexinit")'
  BY <1>3 DEF Answered, Keeps, Preparing
<1>8. QuietWay(p) /\ th[p].pc # "negotiate" => QuietWay(p)'
  BY <1>1, <1>2, <1>4, <1>6 DEF QuietWay, Preparing
<1>9. (Out(s, "kexinit") => th[p].pc # "negotiate" /\ QuietWay(p))'
  BY <1>5, <1>6, <1>8 DEF Answered
<1>10. (th[p].pc = "negotiate" => QuietWay(p))'
  BY <1>5, <1>8 DEF Answered
<1>11. (th[p].pc \in Preparing => ~Out(p, "kexinit") /\ th[s].pc \notin Handles)'
  BY <1>1, <1>2, <1>4, <1>6 DEF Answered, QuietWay, Preparing
<1>12. (Out(p, "kexinit") => th[s].pc \notin Handles)'
  BY <1>2, <1>6 DEF Answered, Preparing
<1>13. (Engaged(s) \/ (tr[s].active /\ tr[s].completion) => Hushed(s))'
  <2>1. Engaged(s)' => Engaged(s)
    BY <1>2 DEF Engaged, DhOf, Switching
  <2>2. Hushed(s) => Hushed(s)'
    BY <1>5, <1>6, <1>8 DEF Hushed
  <2> QED
    BY <1>2, <2>1, <2>2 DEF Answered
<1> QED
  BY <1>2, <1>7, <1>9, <1>10, <1>11, <1>12, <1>13 DEF Answered

\* What a step leaves alone keeps the KEXINITs of a waiting user.
LEMMA AnsweredKept ==
    ASSUME NEW s \in Sides, Answered(s), \A d \in Sides : th'[d] = th[d] /\ Keeps(d, "kexinit"),
           tr'[s].expected = tr[s].expected, tr'[s].active = tr[s].active,
           tr'[s].completion = tr[s].completion
    PROVE  Answered(s)'
<1> DEFINE p == Peer(s)
<1>1. p \in Sides /\ Peer(p) = s
  BY PeerFacts
<1>2. Keeps(s, "kexinit") /\ Keeps(p, "kexinit") /\ th'[s] = th[s] /\ th'[p] = th[p]
  BY <1>1
<1>3. QuietWay(p) => QuietWay(p)'
  BY <1>1, QuietKept
<1>4. Hushed(s) => Hushed(s)'
  BY <1>2, <1>3 DEF Hushed, Keeps
<1>5. Engaged(s)' => Engaged(s)
  BY <1>2 DEF Engaged, DhOf
<1> QED
  BY <1>2, <1>3, <1>4, <1>5 DEF Answered, Keeps

\* The user's KEXINIT goes out when no other is about.
LEMMA AskingAnswered ==
    ASSUME Typed, NEW u \in Users, SendKexInit(u), \A e \in Sides : QuietWay(e), ~Engaged(SideOf[u]),
           tr[SideOf[u]].active => ~tr[SideOf[u]].completion
    PROVE  Answered(SideOf[u])'
<1> DEFINE s == SideOf[u]
<1> DEFINE p == Peer(s)
<1>1. /\ s \in Sides /\ p \in Sides /\ p # s /\ Peer(p) = s /\ s \in Threads /\ p \in Threads
      /\ "kexinit" \in Kinds /\ u \in Threads /\ Home(u) = s /\ u \notin Sides
  BY HomeFacts, PeerFacts DEF Kinds
<1>2. UserRuns(u) /\ UNCHANGED tr /\ Emitted(s, "kexinit", <<th[u].init, 0>>)
  BY <1>1, SendKexInitDoes DEF UserRuns
<1>3. th'[s] = th[s] /\ th'[p] = th[p]
  BY <1>1, <1>2, UserSteps
<1>4. /\ QuietWay(p) /\ th[s].pc \notin Preparing /\ ~Out(s, "kexinit") /\ th[p].pc \notin Handles
      /\ ~Out(p, "kexinit") /\ th[p].pc \notin Preparing
  BY <1>1 DEF QuietWay
<1>5. Single(s, "kexinit")' /\ Keeps(p, "kexinit")
  BY <1>1, <1>2, <1>4, SendingKeeps
<1>6. \A i, j \in Nat : ~On(p, "kexinit", i)
  BY <1>4 DEF Out
<1>7. Single(p, "kexinit")' /\ ~Out(p, "kexinit")'
  BY <1>5, <1>6 DEF Keeps, Single, Out
<1>8. QuietWay(p)' /\ th'[p].pc # "negotiate"
  BY <1>1, <1>3, <1>4, <1>7 DEF QuietWay, Handles
<1>9. ~Engaged(s)' /\ ~(tr'[s].active /\ tr'[s].completion)
  BY <1>2, <1>3 DEF Engaged, DhOf
<1> QED
  BY <1>3, <1>4, <1>5, <1>7, <1>8, <1>9 DEF Answered

\* A user that waits gets its answer undisturbed, in every step.
LEMMA NextReplyTurn ==
    ASSUME Typed, AllWait, NewKeysInTurn, Alive, Idlers, OneCaller, NoLimit, CallTurn, ReplyTurn, AllFresh,
           [Next]_vars
    PROVE  ReplyTurn'
<1> SUFFICES ASSUME NEW u \in Users, th'[u].pc \in Polling PROVE Answered(SideOf[u])'
  BY DEF ReplyTurn
<1> DEFINE s == SideOf[u]
<1>1. s \in Sides /\ u \in Threads /\ u \notin Sides /\ Fresh(u, s) /\ "kexinit" \in Kinds \ Traffic
  BY HomeFacts DEF AllFresh, Kinds, Traffic
<1>2. th[u].pc \in Polling => Answered(s)
  BY DEF ReplyTurn
<1>3. CASE UNCHANGED vars
  BY <1>1, <1>2, <1>3, AnsweredKept DEF vars, Keeps, Single, Out, On
<1>4. ASSUME NEW v \in Users, RenegotiateKeys(v) \/ UserRuns(v) PROVE Answered(s)'
  <2>1. Others(v) /\ (th[v].pc # "idle" \/ v \in setup.renegotiators)
    BY <1>4, UserActs
  <2>2. u = v
    <3>1. ASSUME u # v PROVE FALSE
      <4>1. th[u].pc # "idle"
        BY <1>1, <2>1, <3>1 DEF Others, Polling
      <4>2. u = v
        BY <2>1, <4>1, Alone
      <4> QED
        BY <3>1, <4>2
    <3> QED
      BY <3>1
  <2>3. CASE SendKexInit(u) /\ th[u].pc = "emit"
    BY <1>1, <2>3, AskingAnswered DEF CallTurn, Preparing, Fresh
  <2>4. CASE th[u].pc \in Polling /\ Polls(u)
    <3>1. \A e \in Sides : th'[e] = th[e]
      BY <1>4, UserSteps
    <3> QED
      BY <1>1, <1>2, <2>4, <3>1, AnsweredKept DEF Polls, Keeps, Single, Out, On
  <2> QED
    BY <1>4, <2>2, <2>3, <2>4, UserActs DEF Polling
<1>5. ASSUME NEW d \in Sides, TransportRuns(d) PROVE Answered(s)'
  <2>1. th[u].pc \in Polling
    BY <1>1, <1>5, TransportAlone DEF Others
  <2>2. CASE d = s
    <3>1. tr[s].active /\ ~tr[s].completion => tr[s].local = th[u].init
      BY <1>1, <2>1 DEF Fresh
    <3>2. th[u].init # 0
      <4>1. Own(s, th[u].before) < th[u].init
        BY <1>1, <2>1 DEF Fresh
      <4>2. Own(s, th[u].before) \in Nat /\ th[u].init \in Nat
        BY <1>1, OwnFacts DEF Typed, ThOK, ThreadStates
      <4> QED
        BY <4>1, <4>2
    <3> QED
      BY <1>1, <1>2, <1>5, <2>1, <2>2, <3>1, <3>2, OwnAnswer
  <2>3. CASE d # s
    <3>1. d = Peer(s)
      BY <1>1, <2>3 DEF Sides, Peer
    <3> QED
      BY <1>1, <1>2, <1>5, <2>1, <3>1, PeerAnswer
  <2> QED
    BY <2>2, <2>3
<1>6. ASSUME NEW d \in Sides, NEW kind \in Traffic, SendUserMessage(d, kind) PROVE Answered(s)'
  BY <1>1, <1>2, <1>6, SendUserMessageDoes, TrafficKeeps, AnsweredKept
<1> QED
  BY <1>3, <1>4, <1>5, <1>6 DEF Next

\* What leaves a user, its side and its keys alone keeps its exchange the one it began.
LEMMA FreshKept ==
    ASSUME NEW u \in Users, NEW s \in Sides, Fresh(u, s), th'[u] = th[u], th'[s] = th[s], tr'[s] = tr[s],
           pk'[s].keyOut = pk[s].keyOut, pk'[s].keyIn = pk[s].keyIn
    PROVE  Fresh(u, s)'
<1>1. Engaged(s)' => Engaged(s)
  BY DEF Engaged, DhOf
<1> QED
  BY <1>1 DEF Fresh, Own

\* A step of the user.
LEMMA UserFresh ==
    ASSUME Typed, AllWait, CallTurn, AllKeysKnown, NEW u \in Users, RenegotiateKeys(u) \/ UserRuns(u),
           Fresh(u, SideOf[u])
    PROVE  Fresh(u, SideOf[u])'
<1> DEFINE s == SideOf[u]
<1>1. s \in Sides /\ u \in Threads /\ Home(u) = s /\ s \in Threads /\ KeysKnown(s)
  BY HomeFacts DEF AllKeysKnown
<1>2. th'[s] = th[s] /\ Steady(s)
  BY <1>1, UserSteps
<1>3. CASE RenegotiateKeys(u)
  <2>1. th'[u].pc = "clear" /\ th'[u].before = pk[s].keyOut
    BY <1>3, RenegotiateKeysDoes
  <2>2. ~tr'[s].completion /\ tr'[s].inits = tr[s].inits
    BY <1>1, <1>3, SendersWrite DEF SameInits
  <2> QED
    BY <2>1, <2>2, <1>1 DEF Fresh, KeysKnown, Own, Polling
<1>4. CASE ClearToSend(u)
  <2>1. th[u].pc = "clear" /\ th'[u].pc = "local" /\ th'[u].before = th[u].before
    BY <1>1, <1>4, ClearToSendDoes DEF Moved
  <2>2. SameLife(tr[s], tr'[s]) /\ tr'[s].inits = tr[s].inits
    BY <1>1, <1>4, SendersWrite DEF SameInits
  <2> QED
    BY <2>1, <2>2 DEF Fresh, SameLife, Own, Preparing, Polling
<1>5. CASE LocalKexInit(u)
  <2>1. /\ th[u].pc = "local" /\ th'[u].pc = "emit" /\ th'[u].before = th[u].before
        /\ th'[u].init = tr[s].inits + 1
    BY <1>1, <1>5, LocalKexInitDoes
  <2>2. SameLife(tr[s], tr'[s]) /\ tr'[s].local = tr[s].inits + 1
    BY <1>1, <1>5, SendersWrite
  <2>3. Own(s, th[u].before) <= tr[s].inits /\ Own(s, th[u].before) \in Nat /\ tr[s].inits \in Nat
    BY <1>1, <2>1, OwnFacts, KeyTypes DEF Fresh, Typed, ThOK, ThreadStates
  <2>4. Own(s, th'[u].before) < th'[u].init
    BY <2>1, <2>3
  <2>5. th'[s].pc \notin {"newkeysin"} \cup Switching /\ tr'[s].expected # {"newkeys"}
    BY <1>2, <2>1 DEF CallTurn, Preparing, Engaged, Steady, SameExchange
  <2>6. tr'[s].active => ~tr'[s].completion
    BY <2>1, <2>2 DEF Fresh, SameLife, Preparing
  <2> QED
    BY <2>1, <2>2, <2>4, <2>5, <2>6 DEF Fresh, Own, Switching
<1>6. CASE SendKexInit(u)
  <2>1. /\ th[u].pc = "emit" /\ th'[u].pc = "wait" /\ th'[u].before = th[u].before /\ th'[u].init = th[u].init
        /\ UNCHANGED tr
    BY <1>1, <1>6, SendKexInitDoes DEF Moved
  <2>2. pk'[s].keyOut = pk[s].keyOut
    BY <1>1, UserWrites
  <2> QED
    BY <1>2, <2>1, <2>2 DEF Fresh, Own, Preparing, Polling
<1>7. CASE th'[u].pc \in {"done", "failed"}
  BY <1>7 DEF Fresh, Preparing, Polling
<1>8. CASE th[u].pc \in Polling /\ th'[u].pc \in Polling /\ Polls(u)
  <2>1. Engaged(s)' => Engaged(s)
    BY <1>2, <1>8 DEF Engaged, DhOf, Polls
  <2> QED
    BY <1>2, <1>8, <2>1 DEF Fresh, Own, Preparing, Polling, Polls
<1> QED
  BY <1>3, <1>4, <1>5, <1>6, <1>7, <1>8, UserActs DEF Polling

\* The places of the switch, by where the thread comes from.
LEMMA SwitchSteps ==
    ASSUME Typed, NewKeysInTurn, NEW s \in Sides, Waits(s), Acts(s)
    PROVE  /\ th'[s].pc = "newkeysout" => th[s].pc = "dh"
           /\ th'[s].pc = "reset" => th[s].pc = "newkeysout"
           /\ th'[s].pc = "cipher" => th[s].pc = "reset"
           /\ th'[s].pc = "extinfo" => th[s].pc = "cipher"
           /\ th'[s].pc = "newkeysin" => tr[s].expected = {"newkeys"} /\ th[s].pc = "reading"
           /\ tr'[s].expected = {"newkeys"} =>
                th[s].pc = "extinfo" \/ (tr[s].expected = {"newkeys"} /\ th[s].pc \notin {"dh", "cipher"})
           /\ th[s].pc = "newkeysin" => th'[s].pc = "reopen" /\ tr'[s].expected = {}
<1>1. th'[s].pc = "newkeysin" => tr[s].expected = {"newkeys"} /\ th[s].pc = "reading"
  <2>1. th'[s].pc = "newkeysin" => Reads(s)
    BY DEF Acts, Prepares, Offers, Starts, Hears, Negotiates, Parses, Hashes, Switches, Awaits,
           Renews, Reopens, Idles, Stops
  <2> QED
    BY <2>1, NewKeysExpected DEF Reads
<1>2. th[s].pc \notin Waiting => tr[s].expected = {}
  BY HandlerExpectsNothing
<1>3. Steady(s) => tr'[s].expected = tr[s].expected
  BY DEF Steady, SameExchange
<1>4. DhOf(s) # {"newkeys"}
  BY DEF DhOf
<1>5. tr'[s].expected = {"newkeys"} => th[s].pc = "extinfo" \/ tr[s].expected = {"newkeys"}
  BY <1>3, <1>4 DEF Acts, Prepares, Offers, Starts, Hears, Negotiates, Parses, Reads, Hashes, Switches, Awaits,
             Renews, Reopens, Idles, Stops
<1>6. th[s].pc = "newkeysin" => th'[s].pc = "reopen" /\ tr'[s].expected = tr[s].expected
  BY DEF Acts, Prepares, Offers, Starts, Hears, Negotiates, Parses, Reads, Hashes, Switches, Awaits,
             Renews, Reopens, Idles, Stops
<1>7. /\ th'[s].pc = "newkeysout" => th[s].pc = "dh"
      /\ th'[s].pc = "reset" => th[s].pc = "newkeysout"
      /\ th'[s].pc = "cipher" => th[s].pc = "reset"
      /\ th'[s].pc = "extinfo" => th[s].pc = "cipher"
  BY DEF Acts, Prepares, Offers, Starts, Hears, Negotiates, Parses, Reads, Hashes, Switches, Awaits,
             Renews, Reopens, Idles, Stops
<1> QED
  BY <1>1, <1>2, <1>5, <1>6, <1>7 DEF Waiting

\* A step of the transport thread of its side.
LEMMA TransportFresh ==
    ASSUME Typed, AllWait, NewKeysInTurn, CallTurn, ReplyTurn, NEW u \in Users, Fresh(u, SideOf[u]),
           TransportRuns(SideOf[u])
    PROVE  Fresh(u, SideOf[u])'
<1> DEFINE s == SideOf[u]
<1>1. s \in Sides /\ u \in Threads /\ s \in Threads /\ u # s /\ Waits(s)
  BY HomeFacts DEF AllWait
<1>2. Acts(s) /\ th'[u] = th[u]
  BY <1>1, TransportActs, TransportAlone DEF Others
<1>3. /\ tr'[s].active => /\ tr[s].active
                          /\ tr[s].completion => tr'[s].completion
                          /\ tr'[s].completion => tr[s].completion \/ th[s].pc = "newkeysin"
      /\ th[s].pc = "newkeysin" => tr'[s].completion
      /\ th[s].pc # "newkeysin" /\ th[s].pc # "local" => tr'[s].local = tr[s].local
      /\ tr'[s].H = tr[s].H \/ (th[s].pc = "dh" /\ tr'[s].H = Hash(s))
  BY <1>1, RunWrites
<1>4. /\ IF th[s].pc = "cipher" THEN pk'[s].keyOut = tr[s].H ELSE pk'[s].keyOut = pk[s].keyOut
      /\ IF th[s].pc = "newkeysin" THEN pk'[s].keyIn = tr[s].H ELSE pk'[s].keyIn = pk[s].keyIn
  BY <1>1, RunKeys
<1>5. th[u].pc \in Preparing => th[s].pc \notin Preparing /\ ~Engaged(s)
  BY <1>1 DEF CallTurn, QuietWay
<1>6. th[u].pc \in Polling => th[s].pc \notin Preparing
  BY DEF ReplyTurn, Answered
<1>7. ASSUME th[u].pc \in {"clear", "local"} PROVE Own(s, th[u].before) <= tr'[s].inits
  <2>1. tr'[s].inits \in {tr[s].inits, tr[s].inits + 1}
    BY <1>1, TransportInits DEF InitsToSend
  <2>2. Own(s, th[u].before) <= tr[s].inits /\ Own(s, th[u].before) \in Nat /\ tr[s].inits \in Nat
    BY <1>1, <1>7, OwnFacts, KeyTypes DEF Fresh, Typed, ThOK, ThreadStates
  <2> QED
    BY <2>1, <2>2
<1>8. th[u].pc \in Preparing /\ tr'[s].active => ~tr'[s].completion
  BY <1>3, <1>5 DEF Fresh, Engaged
<1>9. ASSUME th[u].pc \in {"emit"} \cup Polling, tr'[s].active, ~tr'[s].completion
      PROVE  /\ tr'[s].local = th[u].init
             /\ th'[s].pc \in {"newkeysout", "reset", "cipher"} => Own(s, tr'[s].H) = th[u].init
             /\ th'[s].pc \in {"extinfo", "newkeysin"} \/ tr'[s].expected = {"newkeys"} =>
                   Own(s, tr'[s].H) = th[u].init /\ pk'[s].keyOut = tr'[s].H
  <2>1. tr[s].active /\ ~tr[s].completion /\ th[s].pc # "newkeysin" /\ th[s].pc # "local"
    BY <1>3, <1>5, <1>6, <1>9 DEF Preparing
  <2>2. /\ tr[s].local = th[u].init
        /\ th[s].pc \in {"newkeysout", "reset", "cipher"} => Own(s, tr[s].H) = th[u].init
        /\ th[s].pc \in {"extinfo", "newkeysin"} \/ tr[s].expected = {"newkeys"} =>
              Own(s, tr[s].H) = th[u].init /\ pk[s].keyOut = tr[s].H
    BY <1>9, <2>1 DEF Fresh
  <2>3. tr'[s].local = th[u].init
    BY <1>3, <2>1, <2>2
  <2>4. th[s].pc = "dh" /\ tr'[s].H = Hash(s) => Own(s, tr'[s].H) = th[u].init
    BY <1>1, <2>2, OwnFacts
  <2>5. th[s].pc # "dh" => tr'[s].H = tr[s].H
    BY <1>3
  <2>6. /\ th'[s].pc = "newkeysout" => th[s].pc = "dh"
        /\ th'[s].pc = "reset" => th[s].pc = "newkeysout"
        /\ th'[s].pc = "cipher" => th[s].pc = "reset"
        /\ th'[s].pc = "extinfo" => th[s].pc = "cipher"
        /\ th'[s].pc = "newkeysin" => tr[s].expected = {"newkeys"} /\ th[s].pc = "reading"
        /\ tr'[s].expected = {"newkeys"} =>
             th[s].pc = "extinfo" \/ (tr[s].expected = {"newkeys"} /\ th[s].pc \notin {"dh", "cipher"})
    BY <1>1, <1>2, SwitchSteps
  <2>7. th'[s].pc = "newkeysout" => Own(s, tr'[s].H) = th[u].init
    <3> SUFFICES ASSUME th'[s].pc = "newkeysout" PROVE Own(s, tr'[s].H) = th[u].init
      OBVIOUS
    <3>1. Hashed(s)
      <4>1. th[s].pc = "dh"
        BY <2>6
      <4>2. ParseKexdhInit(s) \/ ParseKexdhReply(s)
        BY <4>1 DEF TransportRuns, ClearToSend, LocalKexInit, SendKexInit, CheckRekey, ReadInterrupted,
           ReadMessage, ReadRaises, Take, EndOfStream, Answer, Reply, ReplyTimesOut, NegotiateKeys, ParseKexInit,
           SendNewKeys, ResetSeqnoOut, SetOutboundCipher, ExpectNewKeys, ParseNewKeys, ReopenTraffic
      <4> QED
        BY <1>1, <4>2, KexdhDo
    <3> QED
      BY <1>1, <2>2, <3>1, OwnFacts DEF Hashed
  <2>8. th'[s].pc \in {"reset", "cipher"} => Own(s, tr'[s].H) = th[u].init
    BY <2>2, <2>5, <2>6
  <2>9. th'[s].pc = "extinfo" => Own(s, tr'[s].H) = th[u].init /\ pk'[s].keyOut = tr'[s].H
    BY <1>4, <2>2, <2>5, <2>6
  <2>10. th'[s].pc = "newkeysin" \/ tr'[s].expected = {"newkeys"} =>
            Own(s, tr'[s].H) = th[u].init /\ pk'[s].keyOut = tr'[s].H
    BY <1>4, <2>2, <2>5, <2>6
  <2> QED
    BY <2>3, <2>7, <2>8, <2>9, <2>10
<1>10. ASSUME th[u].pc \in Polling, tr'[s].active, tr'[s].completion
       PROVE  pk'[s].keyOut = pk'[s].keyIn /\ Own(s, pk'[s].keyOut) = th[u].init /\ ~Engaged(s)'
  <2>1. tr[s].active /\ (tr[s].completion \/ th[s].pc = "newkeysin")
    BY <1>3, <1>10
  <2>2. CASE tr[s].completion
    <3>1. pk[s].keyOut = pk[s].keyIn /\ Own(s, pk[s].keyOut) = th[u].init /\ ~Engaged(s)
      BY <1>10, <2>1, <2>2 DEF Fresh
    <3>2. th[s].pc \notin Handles
      <4>1. Hushed(s)
        BY <1>10, <2>1, <2>2 DEF ReplyTurn, Answered
      <4> QED
        BY <1>1, <4>1, PeerFacts DEF Hushed, QuietWay
    <3>3. ~Engaged(s)'
      BY <1>1, <1>2, <3>1, <3>2, EngagedSteps DEF Parses, Handles
    <3>4. th[s].pc # "cipher" /\ th[s].pc # "newkeysin"
      BY <3>1 DEF Engaged, Switching
    <3> QED
      BY <1>4, <3>1, <3>3, <3>4
  <2>3. CASE ~tr[s].completion
    <3>1. th[s].pc = "newkeysin"
      BY <2>1, <2>3
    <3>2. Own(s, tr[s].H) = th[u].init /\ pk[s].keyOut = tr[s].H
      BY <1>10, <2>1, <2>3, <3>1 DEF Fresh
    <3>3. th'[s].pc = "reopen" /\ tr'[s].expected = {}
      BY <1>1, <1>2, <3>1, SwitchSteps
    <3>4. ~Engaged(s)'
      BY <3>3 DEF Engaged, Switching, DhOf
    <3> QED
      BY <1>4, <3>1, <3>2, <3>4
  <2> QED
    BY <2>2, <2>3
<1>11. th[u].pc \in {"emit"} \cup Polling => Own(s, th[u].before) < th[u].init
  BY DEF Fresh
<1>12. /\ (th[u].pc \in {"clear", "local"} => Own(s, th[u].before) <= tr[s].inits)'
       /\ (th[u].pc \in {"emit"} \cup Polling => Own(s, th[u].before) < th[u].init)'
       /\ (th[u].pc \in Preparing /\ tr[s].active => ~tr[s].completion)'
  BY <1>2, <1>7, <1>8, <1>11 DEF Own, Preparing
<1>13. (th[u].pc \in {"emit"} \cup Polling /\ tr[s].active /\ ~tr[s].completion =>
          /\ tr[s].local = th[u].init
          /\ th[s].pc \in {"newkeysout", "reset", "cipher"} => Own(s, tr[s].H) = th[u].init
          /\ th[s].pc \in {"extinfo", "newkeysin"} \/ tr[s].expected = {"newkeys"} =>
                Own(s, tr[s].H) = th[u].init /\ pk[s].keyOut = tr[s].H)'
  BY <1>2, <1>9 DEF Own
<1>14. (th[u].pc \in Polling /\ tr[s].active /\ tr[s].completion =>
          pk[s].keyOut = pk[s].keyIn /\ Own(s, pk[s].keyOut) = th[u].init /\ ~Engaged(s))'
  BY <1>2, <1>10 DEF Own
<1> QED
  BY <1>12, <1>13, <1>14 DEF Fresh

\* The exchange a user waits for stays the one it began, in every step.
LEMMA NextFresh ==
    ASSUME Typed, AllWait, NewKeysInTurn, Idlers, OneCaller, CallTurn, ReplyTurn, AllKeysKnown, AllFresh,
           [Next]_vars
    PROVE  AllFresh'
<1> SUFFICES ASSUME NEW u \in Users PROVE Fresh(u, SideOf[u])'
  BY DEF AllFresh
<1> DEFINE s == SideOf[u]
<1>1. s \in Sides /\ u \in Threads /\ u \notin Sides /\ s \in Threads /\ Fresh(u, s)
  BY HomeFacts DEF AllFresh
<1>2. CASE UNCHANGED vars
  BY <1>1, <1>2, FreshKept DEF vars
<1>3. ASSUME NEW v \in Users, RenegotiateKeys(v) \/ UserRuns(v) PROVE Fresh(u, s)'
  <2>1. CASE v = u
    BY <1>1, <1>3, <2>1, UserFresh
  <2>2. CASE v # u
    <3>1. th'[u] = th[u] /\ (th[v].pc # "idle" \/ v \in setup.renegotiators)
      BY <1>1, <1>3, <2>2, UserActs DEF Others
    <3>2. th[u].pc = "idle"
      BY <2>2, <3>1, Alone
    <3> QED
      BY <3>1, <3>2 DEF Fresh, Preparing, Polling
  <2> QED
    BY <2>1, <2>2
<1>4. ASSUME NEW d \in Sides, TransportRuns(d) PROVE Fresh(u, s)'
  <2>1. CASE d = s
    BY <1>1, <1>4, <2>1, TransportFresh
  <2>2. CASE d # s
    BY <1>1, <1>4, <2>2, TransportAlone, PacketizerAlone, FreshKept DEF OnlyTr, Others
  <2> QED
    BY <2>1, <2>2
<1>5. ASSUME NEW d \in Sides, NEW kind \in Traffic, SendUserMessage(d, kind) PROVE Fresh(u, s)'
  BY <1>1, <1>5, TrafficWrites, FreshKept
<1> QED
  BY <1>2, <1>3, <1>4, <1>5 DEF Next

\* At first nobody waits.
LEMMA InitReply == Init => ReplyTurn /\ AllFresh
<1> SUFFICES ASSUME Init, NEW u \in Users PROVE th[u].pc = "idle"
  BY DEF ReplyTurn, AllFresh, Fresh, Preparing, Polling
<1> QED
  BY HomeFacts DEF Init

\* What the exchange of a renegotiating user keeps.
Renewing == Sound /\ Alive /\ AllKeysKnown /\ (OneCaller => ReplyTurn /\ AllFresh)

\* It does so from the beginning and in every step.
LEMMA RenewingKept == (Init => Renewing) /\ (Renewing /\ [Next]_vars => Renewing')
<1>1. Init => Renewing
  BY SoundKept, AliveKept, KeysKnownKept, InitReply DEF Renewing
<1>2. ASSUME Renewing, [Next]_vars PROVE Renewing'
  <2>1. Sound' /\ Alive' /\ AllKeysKnown'
    BY <1>2, SoundKept, AliveKept, KeysKnownKept DEF Renewing, Sound
  <2>2. UNCHANGED setup
    BY <1>2, UserActs, PacketizerAlone, SendUserMessageDoes DEF Renewing, Sound, Next, vars
  <2>3. OneCaller' => OneCaller
    BY <2>2 DEF OneCaller
  <2>4. OneCaller => ReplyTurn' /\ AllFresh'
    BY <1>2, NextReplyTurn, NextFresh DEF Renewing, Sound
  <2> QED
    BY <2>1, <2>3, <2>4 DEF Renewing
<1> QED
  BY <1>1, <1>2

\* renegotiate_keys returns when both directions have switched to the keys of the exchange
\* that its own KEXINIT began, never on the completion of an earlier one: whoever wins
\* the race between the user, the transport thread that negotiates beside it and the
\* peer's answer, the completion_event it waits for is set by that exchange only, as long
\* as the transport lives (its end sets the event too).
THEOREM KexRenegotiateReturnsFresh == Spec => RenegotiateReturnsFresh
<1> DEFINE A == Undisturbed => \A u \in Users :
                    th[u].pc # "done" /\ th'[u].pc = "done" /\ tr[SideOf[u]].active =>
                        /\ pk[SideOf[u]].keyOut # th[u].before
                        /\ pk[SideOf[u]].keyIn = pk[SideOf[u]].keyOut
<1>1. (Init => Renewing) /\ (Renewing /\ [Next]_vars => Renewing')
  BY RenewingKept
<1>2. ASSUME Renewing, Next PROVE A
  <2> SUFFICES ASSUME Undisturbed, NEW u \in Users, th[u].pc # "done", th'[u].pc = "done",
                      tr[SideOf[u]].active
               PROVE  /\ pk[SideOf[u]].keyOut # th[u].before
                      /\ pk[SideOf[u]].keyIn = pk[SideOf[u]].keyOut
    OBVIOUS
  <2> DEFINE s == SideOf[u]
  <2>1. Typed /\ Idlers /\ [Next]_vars /\ s \in Sides /\ u \in Threads
    BY <1>2, HomeFacts DEF Renewing, Sound
  <2>2. \E v \in Users : v = u /\ (RenegotiateKeys(v) \/ UserRuns(v))
    BY <2>1, UsersStay
  <2>3. th[u].pc = "check" /\ tr[s].completion
    BY <2>1, <2>2, UserActs
  <2>4. OneCaller
    BY <2>1, <2>3, UndisturbedCallers DEF Idlers
  <2>5. Fresh(u, s)
    BY <1>2, <2>4 DEF Renewing, AllFresh
  <2>6. /\ pk[s].keyOut = pk[s].keyIn /\ Own(s, pk[s].keyOut) = th[u].init
        /\ Own(s, th[u].before) < th[u].init
    BY <2>3, <2>5 DEF Fresh, Polling
  <2>7. Own(s, th[u].before) \in Nat /\ th[u].init \in Nat
    BY <2>1, OwnFacts DEF Typed, ThOK, ThreadStates
  <2> QED
    BY <2>6, <2>7
<1>3. Renewing /\ [Next]_vars => [A]_vars
  BY <1>2
<1> HIDE DEF A
<1>4. Spec => [][A]_vars
  BY <1>1, <1>3, PTL DEF Spec
<1> QED
  BY <1>4 DEF RenegotiateReturnsFresh, A
=============================================================================
