---------------------------- MODULE KeyExchange ----------------------------
(***************************************************************************)
(* paramiko/transport.py, packet.py and kex_group14.py: two Transports     *)
(* that negotiate keys, use them, and negotiate new ones while their user  *)
(* threads go on sending.                                                  *)
(*                                                                         *)
(* A new exchange is started by a transport thread whose packetizer has    *)
(* counted REKEY_PACKETS packets, by the KEXINIT of the peer, or by a      *)
(* user thread in renegotiate_keys, which runs _send_kex_init itself.      *)
(* Packetizer.send_message holds the write lock throughout, so a packet    *)
(* goes out in one step.  A KEXINIT is a number, a key is the pair of      *)
(* KEXINITs the exchange hash H is computed from, and a packet carries the *)
(* key and the sequence number it was sent under: reading it under another *)
(* key or number is the "Mismatched MAC" of read_message.                  *)
(***************************************************************************)
EXTENDS Integers, Sequences, FiniteSets

CONSTANTS Users,        \* user threads that may call renegotiate_keys
          SideOf,       \* SideOf[u]: the end whose Transport user u calls
          MaxMessages,  \* bound: messages the users of one side send
          OverflowMax,  \* REKEY_PACKETS_OVERFLOW_MAX
          Never,        \* stands for a REKEY_PACKETS that no session reaches
          Setups        \* the configurations Init chooses from

Sides == {"client", "server"}
Peer(s) == IF s = "client" THEN "server" ELSE "client"

\* A side names its transport thread.
Threads == Users \cup Sides
Home(t) == IF t \in Sides THEN t ELSE SideOf[t]

\* What users send: data needs no answer, an open (or a global request) is
\* answered by the transport thread with _send_message, a channel request by
\* the transport thread with _send_user_message.
Traffic == {"data", "open", "request"}
Kinds == Traffic \cup {"kexinit", "dhinit", "dhreply", "newkeys", "extinfo", "answer"}

SetupRecords ==
    [limit : [Sides -> Nat],          \* Packetizer.REKEY_PACKETS
     advertise : [Sides -> BOOLEAN],  \* advertise_strict_kex
     renegotiators : SUBSET Users,    \* the users that call renegotiate_keys
     patient : BOOLEAN,               \* they call it only when sending is possible
     traffic : SUBSET Traffic]        \* what the users send

ASSUME KexAssumption ==
    /\ Users \cap Sides = {}
    /\ IsFiniteSet(Users) /\ SideOf \in [Users -> Sides]
    /\ MaxMessages \in Nat /\ OverflowMax \in Nat /\ Never \in Nat
    /\ Setups \subseteq SetupRecords

VARIABLES setup,  \* the configuration, fixed by Init
          tr,     \* tr[s]: the key exchange fields of the Transport of s
          pk,     \* pk[s]: its Packetizer
          th,     \* th[t]: where thread t is, and its local values
          wire,   \* wire[s]: packets sent by s, not yet read by its peer
          sends   \* sends[s]: messages the users of s have sent

vars == <<setup, tr, pk, th, wire, sends>>

Keys == Nat \X Nat
NoKey == <<0, 0>>
Packets == [kind : Kinds, val : Keys, key : Keys, seq : Nat]
NoPacket == [kind |-> "data", val |-> NoKey, key |-> NoKey, seq |-> 0]

\* local = 0, remote = 0: local_kex_init, remote_kex_init are None.
TransportStates ==
    [active : BOOLEAN, clear : BOOLEAN, inKex : BOOLEAN, local : Nat, remote : Nat,
     inits : Nat, strict : BOOLEAN, initialDone : BOOLEAN, expected : SUBSET Kinds,
     H : Keys, sessionId : Keys, completion : BOOLEAN]

\* spent: history, one more than the largest number used under keyOut.
PacketizerStates ==
    [keyOut : Keys, keyIn : Keys, seqOut : Nat, seqIn : Nat, sent : Nat, received : Nat,
     overflow : Nat, needRekey : BOOLEAN, initCount : 0..2, spent : Nat]

Places == {"idle", "clear", "local", "emit", "wait", "check", "done", "failed",
           "top", "reading", "negotiate", "parse", "dh", "newkeysout", "reset", "cipher",
           "extinfo", "newkeysin", "reopen", "answer", "reply", "dead"}

\* init: the KEXINIT the thread is sending; msg: the packet being handled;
\* before: history, the outbound key when renegotiate_keys was called.
ThreadStates == [pc : Places, init : Nat, msg : Packets, handling : BOOLEAN, before : Keys]

TypeOK ==
    /\ setup \in Setups
    /\ tr \in [Sides -> TransportStates]
    /\ pk \in [Sides -> PacketizerStates]
    /\ th \in [Threads -> ThreadStates]
    /\ wire \in [Sides -> Seq(Packets)]
    /\ sends \in [Sides -> 0..MaxMessages]

\* Both banners have been exchanged: run is about to call _send_kex_init.
Init ==
    /\ setup \in Setups
    /\ tr = [s \in Sides |->
              [active |-> TRUE, clear |-> FALSE, inKex |-> FALSE, local |-> 0, remote |-> 0,
               inits |-> 0, strict |-> FALSE, initialDone |-> FALSE, expected |-> {"kexinit"},
               H |-> NoKey, sessionId |-> NoKey, completion |-> FALSE]]
    /\ pk = [s \in Sides |->
              [keyOut |-> NoKey, keyIn |-> NoKey, seqOut |-> 0, seqIn |-> 0, sent |-> 0,
               received |-> 0, overflow |-> 0, needRekey |-> FALSE, initCount |-> 0, spent |-> 0]]
    /\ th = [t \in Threads |->
              [pc |-> IF t \in Sides THEN "clear" ELSE "idle", init |-> 0, msg |-> NoPacket,
               handling |-> FALSE, before |-> NoKey]]
    /\ wire = [s \in Sides |-> <<>>]
    /\ sends = [s \in Sides |-> 0]

-----------------------------------------------------------------------------
(* The packetizer                                                           *)

\* A count of packets has come to REKEY_PACKETS.
Reached(count, limit) == limit # Never /\ count >= limit

\* send_message: counts the packet and asks for new keys at the limit.
Sent(p, limit) ==
    LET triggers == Reached(p.sent + 1, limit) /\ ~p.needRekey
    IN [p EXCEPT !.seqOut = @ + 1, !.sent = @ + 1,
                 !.needRekey = @ \/ triggers,
                 !.overflow = IF triggers THEN 0 ELSE @,
                 !.spent = IF p.seqOut >= @ THEN p.seqOut + 1 ELSE @]

\* read_message: the same for what is received; a peer that is slow to answer a
\* request for new keys uses up its overflow.
Received(p, limit) ==
    [p EXCEPT !.seqIn = @ + 1, !.received = @ + 1,
              !.needRekey = @ \/ Reached(p.received + 1, limit),
              !.overflow = IF p.needRekey THEN @ + 1
                           ELSE IF Reached(p.received + 1, limit) THEN 0 ELSE @]

\* The end of set_outbound_cipher and set_inbound_cipher: need_rekey is only
\* cleared once both directions have switched.
BothSwitched(p, count) ==
    IF count = 3 THEN [p EXCEPT !.initCount = 0, !.needRekey = FALSE]
    ELSE [p EXCEPT !.initCount = count]

SetOutbound(p, key) ==
    BothSwitched([p EXCEPT !.keyOut = key, !.sent = 0, !.spent = 0],
                 IF p.initCount \in {0, 1} THEN 1 ELSE 3)

SetInbound(p, key) ==
    BothSwitched([p EXCEPT !.keyIn = key, !.received = 0, !.overflow = 0],
                 IF p.initCount \in {0, 2} THEN 2 ELSE 3)

\* Transport._send_message
Emit(s, kind, val) ==
    /\ wire' = [wire EXCEPT ![s] = Append(@, [kind |-> kind, val |-> val,
                                              key |-> pk[s].keyOut, seq |-> pk[s].seqOut])]
    /\ pk' = [pk EXCEPT ![s] = Sent(@, setup.limit[s])]

Goto(t, place) == th' = [th EXCEPT ![t].pc = place]

\* The thread leaves the loop of run by an exception: active is cleared and
\* whoever waits for completion_event is released.
Dead(s, x) == [x EXCEPT !.active = FALSE, !.completion = TRUE]
Die(s) ==
    /\ tr' = [tr EXCEPT ![s] = Dead(s, @)]
    /\ Goto(s, "dead")

-----------------------------------------------------------------------------
(* _send_kex_init, by a transport thread or by a user in renegotiate_keys    *)

\* Mutant of ClearToSend: clear_to_send is not cleared before the KEXINIT.
ClearToSendNot(t) ==
    /\ th[t].pc = "clear"
    /\ tr' = [tr EXCEPT ![Home(t)].inKex = TRUE]
    /\ Goto(t, "local")
    /\ UNCHANGED <<setup, pk, wire, sends>>

ClearToSend(t) ==
    /\ th[t].pc = "clear"
    /\ tr' = [tr EXCEPT ![Home(t)].clear = FALSE, ![Home(t)].inKex = TRUE]
    /\ Goto(t, "local")
    /\ UNCHANGED <<setup, pk, wire, sends>>

\* A new cookie makes every KEXINIT different.
LocalKexInit(t) ==
    LET init == tr[Home(t)].inits + 1
    IN /\ th[t].pc = "local"
       /\ tr' = [tr EXCEPT ![Home(t)].local = init, ![Home(t)].inits = init]
       /\ th' = [th EXCEPT ![t].pc = "emit", ![t].init = init]
       /\ UNCHANGED <<setup, pk, wire, sends>>

\* A user goes on to wait, a transport thread to the message it was handling.
SendKexInit(t) ==
    /\ th[t].pc = "emit"
    /\ tr[Home(t)].active
    /\ Emit(Home(t), "kexinit", <<th[t].init, 0>>)
    /\ Goto(t, IF t \in Users THEN "wait" ELSE IF th[t].handling THEN "parse" ELSE "reading")
    /\ UNCHANGED <<setup, tr, sends>>

\* The socket is closed: the exception of write_all leaves renegotiate_keys.
SendKexInitFails(u) ==
    /\ th[u].pc = "emit"
    /\ ~tr[SideOf[u]].active
    /\ Goto(u, "failed")
    /\ UNCHANGED <<setup, tr, pk, wire, sends>>

\* Mutant of RenegotiateKeys: the completion_event of the last exchange is kept.
RenegotiateKeysOldEvent(u) ==
    LET s == SideOf[u]
    IN /\ u \in setup.renegotiators
       /\ th[u].pc = "idle" /\ tr[s].initialDone /\ tr[s].active
       /\ setup.patient => tr[s].clear
       /\ th' = [th EXCEPT ![u].pc = "clear", ![u].before = pk[s].keyOut]
       /\ UNCHANGED <<setup, tr, pk, wire, sends>>

\* renegotiate_keys: a new completion_event, then _send_kex_init.  start_client
\* and start_server have returned, so the first exchange is over.
RenegotiateKeys(u) ==
    LET s == SideOf[u]
    IN /\ u \in setup.renegotiators
       /\ th[u].pc = "idle" /\ tr[s].initialDone /\ tr[s].active
       /\ setup.patient => tr[s].clear
       /\ tr' = [tr EXCEPT ![s].completion = FALSE]
       /\ th' = [th EXCEPT ![u].pc = "clear", ![u].before = pk[s].keyOut]
       /\ UNCHANGED <<setup, pk, wire, sends>>

\* The loop of renegotiate_keys reads active and then, without a lock, whether the
\* event is set: the transport may die in between.
RenegotiateRaises(u) ==
    /\ th[u].pc = "wait"
    /\ ~tr[SideOf[u]].active
    /\ Goto(u, "failed")
    /\ UNCHANGED <<setup, tr, pk, wire, sends>>

RenegotiateFindsActive(u) ==
    /\ th[u].pc = "wait"
    /\ tr[SideOf[u]].active
    /\ Goto(u, "check")
    /\ UNCHANGED <<setup, tr, pk, wire, sends>>

RenegotiateReturns(u) ==
    /\ th[u].pc = "check"
    /\ Goto(u, IF tr[SideOf[u]].completion THEN "done" ELSE "wait")
    /\ UNCHANGED <<setup, tr, pk, wire, sends>>

\* _send_user_message: the test of clear_to_send and the sending are under
\* clear_to_send_lock.  A call that waits in vain, or finds the transport dead,
\* changes nothing.
SendUserMessage(s, kind) ==
    /\ tr[s].active /\ tr[s].clear
    /\ kind \in setup.traffic
    /\ sends[s] < MaxMessages
    /\ Emit(s, kind, NoKey)
    /\ sends' = [sends EXCEPT ![s] = @ + 1]
    /\ UNCHANGED <<setup, tr, th>>

-----------------------------------------------------------------------------
(* The loop of Transport.run                                                *)

CheckRekey(s) ==
    /\ th[s].pc = "top"
    /\ Goto(s, IF pk[s].needRekey /\ ~tr[s].inKex THEN "clear" ELSE "reading")
    /\ UNCHANGED <<setup, tr, pk, wire, sends>>

\* NeedRekeyException: nothing to read, and a user's packet has reached the limit.
\* (While in_kex the loop only comes back to the same read.)
ReadInterrupted(s) ==
    /\ th[s].pc = "reading"
    /\ wire[Peer(s)] = <<>> /\ pk[s].needRekey /\ ~tr[s].inKex
    /\ Goto(s, "top")
    /\ UNCHANGED <<setup, tr, pk, wire, sends>>

\* Where a message is handled; data and the rest leave no trace here.  A key
\* exchange message nobody expects is answered with MSG_UNIMPLEMENTED.
Handler(kind, expected) ==
    CASE kind = "kexinit" -> "negotiate"
      [] kind \in {"dhinit", "dhreply"} -> IF expected THEN "dh" ELSE "answer"
      [] kind = "newkeys" -> "newkeysin"
      [] kind = "open" -> "answer"
      [] kind = "request" -> "reply"
      [] kind \in {"data", "extinfo", "answer"} -> "top"

\* agreed_on_strict_kex, once the peer's KEXINIT has been parsed.
AgreedStrict(s) ==
    IF setup.advertise[Peer(s)] THEN setup.advertise[s] ELSE tr[s].strict

\* read_message raises ("Mismatched MAC", "Remote transport is ignoring rekey
\* requests"), or run does ("Expecting packet from ..."), or _parse_kex_init
\* ("In strict-kex mode, but KEXINIT was not the first packet!").
Unacceptable(s, p) ==
    \/ p.key # pk[s].keyIn \/ p.seq # pk[s].seqIn
    \/ pk[s].needRekey /\ pk[s].overflow + 1 >= OverflowMax
    \/ tr[s].expected # {} /\ p.kind \notin tr[s].expected
    \/ p.kind = "kexinit" /\ AgreedStrict(s) /\ ~tr[s].initialDone /\ p.seq # 0

Take(s) ==
    /\ th[s].pc = "reading" /\ wire[Peer(s)] # <<>>
    /\ wire' = [wire EXCEPT ![Peer(s)] = Tail(@)]

ReadMessage(s) ==
    LET p == Head(wire[Peer(s)])
        place == Handler(p.kind, tr[s].expected # {})
    IN /\ Take(s)
       /\ ~Unacceptable(s, p)
       /\ pk' = [pk EXCEPT ![s] = Received(@, setup.limit[s])]
       /\ tr' = [tr EXCEPT ![s].expected = {}]
       /\ th' = [th EXCEPT ![s].pc = place,
                           ![s].handling = place # "top",
                           ![s].msg = IF place = "top" THEN NoPacket ELSE p]
       /\ UNCHANGED <<setup, sends>>

ReadRaises(s) ==
    /\ Take(s)
    /\ Unacceptable(s, Head(wire[Peer(s)]))
    /\ Die(s)
    /\ UNCHANGED <<setup, pk, sends>>

\* EOFError: the peer has closed the socket and all it sent has been read.
EndOfStream(s) ==
    /\ th[s].pc = "reading"
    /\ wire[Peer(s)] = <<>> /\ ~tr[Peer(s)].active
    /\ Die(s)
    /\ UNCHANGED <<setup, pk, wire, sends>>

\* The handler returns to the loop.
Finish(s) == [th EXCEPT ![s].pc = "top", ![s].handling = FALSE, ![s].msg = NoPacket]

\* _parse_channel_open, _parse_global_request, MSG_UNIMPLEMENTED: _send_message.
Answer(s) ==
    /\ th[s].pc = "answer"
    /\ Emit(s, "answer", NoKey)
    /\ th' = Finish(s)
    /\ UNCHANGED <<setup, tr, sends>>

\* Channel._handle_request: _send_user_message, called by the transport thread.
Reply(s) ==
    /\ th[s].pc = "reply" /\ tr[s].clear
    /\ Emit(s, "answer", NoKey)
    /\ th' = Finish(s)
    /\ UNCHANGED <<setup, tr, sends>>

\* "Key-exchange timed out waiting for key negotiation", raised into run.
ReplyTimesOut(s) ==
    /\ th[s].pc = "reply" /\ ~tr[s].clear
    /\ Die(s)
    /\ UNCHANGED <<setup, pk, wire, sends>>

-----------------------------------------------------------------------------
(* The handlers of the key exchange                                         *)

\* Mutant of NegotiateKeys: every KEXINIT is answered with a KEXINIT.
NegotiateKeysAlways(s) ==
    /\ th[s].pc = "negotiate"
    /\ tr' = [tr EXCEPT ![s].clear = FALSE]
    /\ Goto(s, "clear")
    /\ UNCHANGED <<setup, pk, wire, sends>>

\* _negotiate_keys: answers with its own KEXINIT unless it has sent one already.
NegotiateKeys(s) ==
    /\ th[s].pc = "negotiate"
    /\ tr' = [tr EXCEPT ![s].clear = FALSE]
    /\ Goto(s, IF tr[s].local = 0 THEN "clear" ELSE "parse")
    /\ UNCHANGED <<setup, pk, wire, sends>>

\* _parse_kex_init and start_kex.
ParseKexInit(s) ==
    /\ th[s].pc = "parse"
    /\ tr' = [tr EXCEPT ![s].remote = th[s].msg.val[1], ![s].strict = AgreedStrict(s),
                        ![s].expected = IF s = "client" THEN {"dhreply"} ELSE {"dhinit"}]
    /\ th' = Finish(s)
    /\ IF s = "client" THEN Emit(s, "dhinit", NoKey) ELSE UNCHANGED <<pk, wire>>
    /\ UNCHANGED <<setup, sends>>

\* The exchange hash H over both KEXINITs, the client's first.
Hash(s) == IF s = "client" THEN <<tr[s].local, tr[s].remote>> ELSE <<tr[s].remote, tr[s].local>>

\* Mutant of SetKH: session_id follows every exchange.
SetKHAlways(x, h) == [x EXCEPT !.H = h, !.sessionId = h]

\* _set_K_H: the first H is the session_id for good.
SetKH(x, h) == [x EXCEPT !.H = h, !.sessionId = IF @ = NoKey THEN h ELSE @]

\* _parse_kexdh_init (server): the reply carries the signature of H.
ParseKexdhInit(s) ==
    /\ th[s].pc = "dh" /\ s = "server"
    /\ tr' = [tr EXCEPT ![s] = SetKH(@, Hash(s))]
    /\ Emit(s, "dhreply", Hash(s))
    /\ Goto(s, "newkeysout")
    /\ UNCHANGED <<setup, sends>>

\* Mutant of Verified: the signature of the exchange hash is not verified.
VerifiedNot(s, h) == TRUE

\* _verify_key
Verified(s, h) == th[s].msg.val = h

\* _parse_kexdh_reply (client): raises if the server signed another hash.
ParseKexdhReply(s) ==
    /\ th[s].pc = "dh" /\ s = "client"
    /\ \/ /\ Verified(s, Hash(s))
          /\ tr' = [tr EXCEPT ![s] = SetKH(@, Hash(s))]
          /\ Goto(s, "newkeysout")
       \/ /\ ~Verified(s, Hash(s))
          /\ tr' = [tr EXCEPT ![s] = Dead(s, SetKH(@, Hash(s)))]
          /\ Goto(s, "dead")
    /\ UNCHANGED <<setup, pk, wire, sends>>

-----------------------------------------------------------------------------
(* _activate_outbound: not one critical section                             *)

\* Mutant of SendNewKeys: the sequence number is reset before the NEWKEYS.
SendNewKeysReset(s) ==
    /\ th[s].pc = "newkeysout"
    /\ LET p == IF tr[s].strict THEN [pk[s] EXCEPT !.seqOut = 0] ELSE pk[s]
       IN /\ wire' = [wire EXCEPT ![s] = Append(@, [kind |-> "newkeys", val |-> NoKey,
                                                    key |-> p.keyOut, seq |-> p.seqOut])]
          /\ pk' = [pk EXCEPT ![s] = Sent(p, setup.limit[s])]
    /\ Goto(s, "reset")
    /\ UNCHANGED <<setup, tr, sends>>

SendNewKeys(s) ==
    /\ th[s].pc = "newkeysout"
    /\ Emit(s, "newkeys", NoKey)
    /\ Goto(s, "reset")
    /\ UNCHANGED <<setup, tr, sends>>

ResetSeqnoOut(s) ==
    /\ th[s].pc = "reset"
    /\ pk' = [pk EXCEPT ![s].seqOut = IF tr[s].strict THEN 0 ELSE @]
    /\ Goto(s, "cipher")
    /\ UNCHANGED <<setup, tr, wire, sends>>

\* set_outbound_cipher, and the end of the exchange for senders of this thread.
SetOutboundCipher(s) ==
    LET p == SetOutbound(pk[s], tr[s].H)
    IN /\ th[s].pc = "cipher"
       /\ pk' = [pk EXCEPT ![s] = p]
       /\ tr' = [tr EXCEPT ![s].inKex = @ /\ p.needRekey]
       /\ Goto(s, "extinfo")
       /\ UNCHANGED <<setup, wire, sends>>

\* A server sends EXT_INFO under the new key; both now expect NEWKEYS.
ExpectNewKeys(s) ==
    /\ th[s].pc = "extinfo"
    /\ IF s = "server" THEN Emit(s, "extinfo", NoKey) ELSE UNCHANGED <<pk, wire>>
    /\ tr' = [tr EXCEPT ![s].expected = {"newkeys"}]
    /\ th' = Finish(s)
    /\ UNCHANGED <<setup, sends>>

\* Mutant of ParseNewKeys: local_kex_init survives the exchange it belongs to.
ParseNewKeysKeepInit(s) ==
    LET p == SetInbound(pk[s], tr[s].H)
    IN /\ th[s].pc = "newkeysin"
       /\ pk' = [pk EXCEPT ![s] = [p EXCEPT !.seqIn = IF tr[s].strict THEN 0 ELSE @]]
       /\ tr' = [tr EXCEPT ![s].initialDone = TRUE, ![s].completion = TRUE]
       /\ Goto(s, "reopen")
       /\ UNCHANGED <<setup, wire, sends>>

\* _parse_newkeys: _activate_inbound, then the exchange is forgotten.
ParseNewKeys(s) ==
    LET p == SetInbound(pk[s], tr[s].H)
    IN /\ th[s].pc = "newkeysin"
       /\ pk' = [pk EXCEPT ![s] = [p EXCEPT !.seqIn = IF tr[s].strict THEN 0 ELSE @]]
       /\ tr' = [tr EXCEPT ![s].local = 0, ![s].remote = 0,
                           ![s].initialDone = TRUE, ![s].completion = TRUE]
       /\ Goto(s, "reopen")
       /\ UNCHANGED <<setup, wire, sends>>

\* The end of _parse_newkeys: "it's now okay to send data again".
ReopenTraffic(s) ==
    /\ th[s].pc = "reopen"
    /\ tr' = [tr EXCEPT ![s].inKex = @ /\ pk[s].needRekey, ![s].clear = TRUE]
    /\ th' = Finish(s)
    /\ UNCHANGED <<setup, pk, wire, sends>>

-----------------------------------------------------------------------------

UserRuns(u) ==
    \/ ClearToSend(u) \/ LocalKexInit(u) \/ SendKexInit(u) \/ SendKexInitFails(u)
    \/ RenegotiateRaises(u) \/ RenegotiateFindsActive(u) \/ RenegotiateReturns(u)

TransportRuns(s) ==
    \/ ClearToSend(s) \/ LocalKexInit(s) \/ SendKexInit(s)
    \/ CheckRekey(s) \/ ReadInterrupted(s)
    \/ ReadMessage(s) \/ ReadRaises(s) \/ EndOfStream(s)
    \/ Answer(s) \/ Reply(s) \/ ReplyTimesOut(s)
    \/ NegotiateKeys(s) \/ ParseKexInit(s)
    \/ ParseKexdhInit(s) \/ ParseKexdhReply(s)
    \/ SendNewKeys(s) \/ ResetSeqnoOut(s) \/ SetOutboundCipher(s) \/ ExpectNewKeys(s)
    \/ ParseNewKeys(s) \/ ReopenTraffic(s)

Next ==
    \/ \E u \in Users : RenegotiateKeys(u) \/ UserRuns(u)
    \/ \E s \in Sides : TransportRuns(s) \/ \E kind \in Traffic : SendUserMessage(s, kind)

Spec == Init /\ [][Next]_vars

\* Every thread that can run does; nobody is obliged to send or to renegotiate.
FairSpec ==
    /\ Spec
    /\ \A u \in Users : WF_vars(UserRuns(u))
    /\ \A s \in Sides : WF_vars(TransportRuns(s))

-----------------------------------------------------------------------------
(* Properties                                                               *)

\* A set-up in which exchanges are started by one thread at a time on each side
\* (by the transport threads, or by a single user once the last one is over) and
\* no traffic has to be answered by a transport thread.
Undisturbed ==
    /\ setup.traffic \subseteq {"data"}
    /\ \/ setup.renegotiators = {}
       \/ /\ Cardinality(setup.renegotiators) = 1 /\ setup.patient
          /\ \A s \in Sides : setup.limit[s] = Never

\* However the two sides' exchanges, their KEXINITs that cross and their users'
\* messages interleave, neither side meets a packet it cannot accept: wrong key,
\* wrong number, user data inside an exchange, a second KEXINIT.
SessionSurvives == Undisturbed => \A s \in Sides : tr[s].active

\* In every set-up, disturbed or not: a side only switches its inbound key when
\* its peer has computed the same exchange hash, else the session ends first.
KeyAgreement ==
    \A s \in Sides :
        LET p == wire[Peer(s)]
        IN (tr[s].active /\ tr[s].expected = {"newkeys"} /\ p # <<>>
              /\ Head(p).kind = "newkeys" /\ ~Unacceptable(s, Head(p)))
           => tr[s].H = tr[Peer(s)].H

\* The session_id (the hash all later keys and the authentication are bound to)
\* is the same on both sides as soon as both have one, through all exchanges.
SessionIdAgreed ==
    \A s \in Sides :
        tr[s].sessionId # NoKey /\ tr[Peer(s)].sessionId # NoKey
            => tr[s].sessionId = tr[Peer(s)].sessionId

\* No sequence number is used twice under one outbound key, although strict
\* kex sets the counter back to 0 in the middle of the switch.
CounterNeverReused ==
    [][Undisturbed => \A s \in Sides :
          Len(wire'[s]) > Len(wire[s]) =>
              \/ wire'[s][Len(wire'[s])].key # pk[s].keyOut
              \/ wire'[s][Len(wire'[s])].seq >= pk[s].spent]_vars

\* "This method returns when the session has switched to new keys":
\* renegotiate_keys never returns on the completion of an earlier exchange.  (Nor on
\* the event that the end of run sets, unless the transport dies between its two
\* reads: it then returns as if the keys had been switched, FailureRaised.)
RenegotiateReturnsFresh ==
    [][Undisturbed => \A u \in Users :
          th[u].pc # "done" /\ th'[u].pc = "done" /\ tr[SideOf[u]].active =>
              /\ pk[SideOf[u]].keyOut # th[u].before
              /\ pk[SideOf[u]].keyIn = pk[SideOf[u]].keyOut]_vars

\* Every exchange ends: senders that wait for clear_to_send are let through.
SendersUnblocked ==
    \A s \in Sides : (Undisturbed /\ ~tr[s].clear) ~> tr[s].clear

\* ":raises: SSHException -- if the key renegotiation failed (which causes the session to
\* end)": renegotiate_keys does not return from a session that has ended under old keys.
FailureRaised ==
    [][\A u \in Users :
          th[u].pc # "done" /\ th'[u].pc = "done" /\ ~tr[SideOf[u]].active =>
              pk[SideOf[u]].keyOut # th[u].before]_vars

\* renegotiate_keys "gives you the option of forcing new keys whenever you want":
\* a session whose users only send data and renegotiate does not break down.
RenegotiateWhenever == \A s \in Sides : tr[s].active
=============================================================================
