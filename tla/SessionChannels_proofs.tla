---------------------- MODULE SessionChannels_proofs ----------------------
(***************************************************************************)
(* Proofs about the channels of a Session, for any finite set of users and *)
(* any calls they make: no number in a message is unknown to its reader,   *)
(* the two ends pair their numbers one to one, and a channel leaves the    *)
(* two tables together.                                                    *)
(*                                                                         *)
(* Three invariants, each resting on the one before:                       *)
(*   Known    what is said of a number comes after it was given;           *)
(*   Pairing  numbers are given once, and linked to one number each;       *)
(*   Steady   while the session is Intact, what is missing at one end of a *)
(*            channel is on its way there.                                 *)
(***************************************************************************)
EXTENDS Session_proofs

-----------------------------------------------------------------------------
(* Channel numbers: what messages, tables and threads say about them        *)

\* What side s has under number i.
Chan(s, i) == sd[s].channels[i]

\* The messages on the way from s.
Out(s) == {wire[s][k] : k \in DOMAIN wire[s]}

\* User u has a number whose CHANNEL_OPEN the peer has not handled yet.
Pending(u) ==
    \/ th[u].pc = "opensend"
    \/ \E m \in Out(SideOf[u]) : m.type = "open" /\ m.user = u

\* Side s knows, or is telling its peer, that its number i is the peer's j.
Claims(s, i, j) ==
    \/ Chan(s, i).active /\ Chan(s, i).remote = j
    \/ \E m \in Out(s) : m.type = "success" /\ m.from = i /\ m.to = j

\* One of the two ends does.
Linked(s, i, j) == Claims(s, i, j) \/ Claims(Peer(s), j, i)

\* All of these numbers are in channels_seen of the side whose numbers they are.
ClaimsKnown ==
    \A s \in Sides : \A i, j \in Ids : Claims(s, i, j) => i \in sd[s].seen /\ j \in sd[Peer(s)].seen

\* So are the numbers in messages, and those of threads about to send.
MessageKnown(s, m) ==
    /\ m.type \in {"success", "failure", "close"} => m.to \in sd[Peer(s)].seen
    /\ m.type \in {"open", "success"} => m.from \in sd[s].seen
MessagesKnown == \A s \in Sides : \A m \in Out(s) : MessageKnown(s, m)
OpenersKnown == \A u \in Users : th[u].pc = "opensend" => th[u].id \in sd[SideOf[u]].seen

Known == MessagesKnown /\ ClaimsKnown /\ OpenersKnown

\* The users that call open_channel.
Openers == {u \in Users : "open" \in menu[u]}

\* Where the thread is once it has sent its CHANNEL_OPEN.
Late == {"openwait", "opened", "timedout", "done"}

\* The openers that have cost side s a number.
Spent(s) == {u \in Openers : th[u].pc # "idle" /\ (SideOf[u] = s \/ ~Pending(u))}

\* As long as numbers are left, they are given in order.
Numbered ==
    \A s \in Sides :
        Cardinality(Spent(s)) < IdSpace =>
            /\ sd[s].counter <= Cardinality(Spent(s))
            /\ \A i \in sd[s].seen : i < sd[s].counter

\* What is in the table has a number given before, and is known to the peer only while it lives.
TableKnown ==
    \A s \in Sides : \A i \in Ids :
        /\ Chan(s, i).live => i \in sd[s].seen
        /\ Chan(s, i).active => Chan(s, i).live

\* A CHANNEL_OPEN is its sender's, and the only one.
Asks ==
    \A s \in Sides : \A m \in Out(s) :
        m.type = "open" => /\ m.user \in Openers /\ SideOf[m.user] = s
                           /\ th[m.user].pc \in Late /\ m.from = th[m.user].id
AskedOnce ==
    \A s \in Sides : \A k, l \in DOMAIN wire[s] :
        wire[s][k].type = "open" /\ wire[s][l].type = "open" /\ wire[s][k].user = wire[s][l].user => k = l

\* Openers that wait for an answer have numbers of their own, which have no link yet.
OpenersAsk == \A u \in Users : th[u].pc = "opensend" => u \in Openers
Apart ==
    \A u, v \in Users :
        Pending(u) /\ Pending(v) /\ SideOf[u] = SideOf[v] /\ th[u].id = th[v].id => u = v
Unanswered ==
    \A u \in Users : \A i, j \in Ids : Pending(u) /\ th[u].id = i => ~Linked(SideOf[u], i, j)

\* A number is linked to one number.
OneOne ==
    \A s \in Sides : \A i, j, k \in Ids : Linked(s, i, j) /\ Linked(s, i, k) => j = k

Pairing ==
    /\ Numbered /\ TableKnown
    /\ Asks /\ AskedOnce /\ OpenersAsk /\ Apart /\ Unanswered
    /\ OneOne

\* The session is on, and no open_channel has been given up and collected.
Intact == (\A s \in Sides : sd[s].active) /\ (\A u \in Timed : th[u].pc # "done")

\* Only a user with a timeout times out.
TimedOnly == \A u \in Users : th[u].pc = "timedout" => u \in Timed

\* A Channel being opened, one known at both ends, and the messages that tell the peer
\* of s that its Channel j is confirmed, or closed.
Half(s, i) == Chan(s, i).live /\ ~Chan(s, i).active
KnownAs(s, i, j) == Chan(s, i).active /\ Chan(s, i).remote = j
Confirmed(s, i, j) == \E m \in Out(s) : m.type = "success" /\ m.from = i /\ m.to = j
ClosesAt(s, j) == \E m \in Out(s) : m.type = "close" /\ m.to = j

\* A Channel that is being opened has a thread or a message that will decide over it, and
\* the event that tells the thread.
Decided ==
    \A s \in Sides : \A i \in Ids : Half(s, i) =>
        /\ sd[s].events[i] # Nobody
        /\ \/ \E u \in Users : Pending(u) /\ SideOf[u] = s /\ th[u].id = i
           \/ \E m \in Out(Peer(s)) : m.type \in {"success", "failure"} /\ m.to = i
Waiting ==
    \A u \in Users : \A i \in Ids : Pending(u) /\ th[u].id = i => Half(SideOf[u], i)

\* The Channel at the other end is there too, or its CLOSE is on the way.
Mirrored ==
    \A s \in Sides : \A i, j \in Ids :
        KnownAs(s, i, j) => Chan(Peer(s), j).live \/ ClosesAt(Peer(s), i)
CloseSent ==
    \A s \in Sides : \A i, j \in Ids :
        KnownAs(s, i, j) /\ Chan(s, i).closed => ClosesAt(s, j) \/ ~Chan(Peer(s), j).live

\* A CLOSE comes behind the confirmation.
CloseBehind ==
    \A s \in Sides : \A j \in Ids : \A k \in DOMAIN wire[s] :
        wire[s][k].type = "close" /\ wire[s][k].to = j /\ Half(Peer(s), j) =>
            \E l \in DOMAIN wire[s] : l < k /\ wire[s][l].type = "success" /\ wire[s][l].to = j
Confirming ==
    \A s \in Sides : \A i, j \in Ids :
        KnownAs(s, i, j) /\ Half(Peer(s), j) =>
            \E m \in Out(s) : m.type = "success" /\ m.to = j
ConfirmedLives ==
    \A s \in Sides : \A i, j \in Ids : \A k \in DOMAIN wire[s] :
        wire[s][k].type = "success" /\ wire[s][k].from = i /\ wire[s][k].to = j =>
            \/ Chan(s, i).live
            \/ \E l \in DOMAIN wire[s] : k < l /\ wire[s][l].type = "close" /\ wire[s][l].to = j

\* A confirmation is news: not about a Channel being opened here, known there or closed
\* there, and not repeated.  A refusal is final.
News ==
    \A s \in Sides : \A i, j \in Ids : Confirmed(s, i, j) =>
        ~Half(s, i) /\ ~Chan(Peer(s), j).active /\ ~ClosesAt(Peer(s), i)
ConfirmedOnce ==
    \A s \in Sides : \A k, l \in DOMAIN wire[s] :
        wire[s][k].type = "success" /\ wire[s][l].type = "success" /\ wire[s][k].to = wire[s][l].to => k = l
Refusals ==
    \A s \in Sides : \A j \in Ids : \A m \in Out(s) : m.type = "failure" /\ m.to = j =>
        /\ \A i \in Ids : ~Linked(Peer(s), j, i)
        /\ \A u \in Users : Pending(u) /\ SideOf[u] = Peer(s) => th[u].id # j

Steady ==
    /\ Decided /\ Waiting /\ Mirrored /\ CloseSent /\ CloseBehind /\ Confirming
    /\ ConfirmedLives /\ News /\ ConfirmedOnce /\ Refusals

-----------------------------------------------------------------------------
(* What the actions do to numbers, tables and messages                      *)

\* Messages that say nothing of channels.
Plain == {"request", "granted", "denied"}

\* What a step does to the wire of s.
Rests(s) == wire'[s] = wire[s]
Drops(s) == wire[s] # <<>> /\ wire'[s] = Tail(wire[s])
Adds(s, m) == wire'[s] = Append(wire[s], m)

\* Threads move on, and nobody starts or sends a CHANNEL_OPEN.
Onward ==
    /\ menu' = menu
    /\ \A u \in Users :
        /\ th'[u].pc = "idle" => th[u].pc = "idle"
        /\ th'[u].pc = "opensend" <=> th[u].pc = "opensend"
        /\ th[u].pc \in Late \cup {"opensend"} => th'[u].id = th[u].id
        /\ th[u].pc \in Late => th'[u].pc \in Late
        /\ th[u].pc = "done" => th'[u].pc = "done"
        /\ th'[u].pc = "timedout" => th[u].pc = "timedout" \/ u \in Timed

\* Side s keeps its table and its numbers.
Held(s) ==
    /\ sd'[s].active = sd[s].active /\ sd'[s].channels = sd[s].channels
    /\ sd'[s].events = sd[s].events /\ sd'[s].seen = sd[s].seen
    /\ sd'[s].counter = sd[s].counter

\* Side s keeps all but entry i of its table.
HeldBut(s, i, c) ==
    /\ sd'[s].active = sd[s].active /\ sd'[s].channels = [sd[s].channels EXCEPT ![i] = c]
    /\ sd'[s].seen = sd[s].seen /\ sd'[s].counter = sd[s].counter
    /\ \A j \in Ids : j # i => sd'[s].events[j] = sd[s].events[j]

\* Side s has taken number i.
Took(s, i) ==
    /\ i \in NextChannel(sd[s])
    /\ sd'[s].active = sd[s].active
    /\ sd'[s].counter = (i + 1) % IdSpace

\* A step that has nothing to do with opening and closing.
Quiet ==
    /\ Onward
    /\ \A s \in Sides : Held(s)
    /\ \A s \in Sides : \/ Rests(s)
                        \/ Drops(s) /\ Head(wire[s]).type \in Plain
                        \/ \E m \in Messages : m.type \in Plain /\ Adds(s, m)

\* Goto moves one thread.
LEMMA GotoOnward ==
    ASSUME ThOK, NEW u \in Users, NEW place \in Places, Goto(u, place), menu' = menu,
           th[u].pc \notin {"opensend", "done"}, place \notin {"idle", "opensend"},
           th[u].pc \in Late => place \in Late, place = "timedout" => u \in Timed
    PROVE  Onward
<1>1. th[u] \in ThreadStates /\ th \in [Users -> ThreadStates]
  BY DEF ThOK
<1>2. th' = [th EXCEPT ![u] = [th[u] EXCEPT !.pc = place]]
  BY DEF Goto
<1>3. [th[u] EXCEPT !.pc = place].pc = place /\ [th[u] EXCEPT !.pc = place].id = th[u].id
  BY <1>1 DEF ThreadStates
<1>4. \A v \in Users : IF v = u THEN th'[v].pc = place /\ th'[v].id = th[v].id ELSE th'[v] = th[v]
  BY <1>1, <1>2, <1>3
<1> QED
  BY <1>4 DEF Onward

\* Threads that keep their places and numbers, or are woken in accept, move on.
LEMMA StillOnward ==
    ASSUME menu' = menu,
           \A u \in Users : \/ th'[u].pc = th[u].pc /\ th'[u].id = th[u].id
                            \/ /\ th[u].pc \in {"acceptwait", "acceptexpired"}
                               /\ th'[u].pc = "acceptwoken"
    PROVE  Onward
  BY DEF Onward, Late

\* So it is with the events.
LEMMA SetEventOnward ==
    ASSUME ThOK, NEW t, NEW i, th' = SetEvent(th, t, i), menu' = menu
    PROVE  Onward
<1> DEFINE w == t.events[i]
<1>1. th' = th \/ th' = [th EXCEPT ![w] = [th[w] EXCEPT !.event = TRUE]]
  BY DEF SetEvent
<1> HIDE DEF w
<1>2. \A u \in Users : th'[u].pc = th[u].pc /\ th'[u].id = th[u].id
  <2>1. CASE w \in Users
    <3>1. th[w] \in ThreadStates /\ th \in [Users -> ThreadStates]
      BY <2>1 DEF ThOK
    <3>2. [th[w] EXCEPT !.event = TRUE].pc = th[w].pc /\ [th[w] EXCEPT !.event = TRUE].id = th[w].id
      BY <3>1 DEF ThreadStates
    <3> QED
      BY <1>1, <2>1, <3>1, <3>2
  <2>2. CASE w \notin Users
    BY <1>1, <2>2 DEF ThOK
  <2> QED
    BY <2>1, <2>2
<1> QED
  BY <1>2, StillOnward

\* And with notify.
LEMMA NotifiedOnward ==
    ASSUME ThOK, NEW s \in Sides, NEW T \in [Users -> ThreadStates],
           \A u \in Users : T[u].pc = th[u].pc /\ T[u].id = th[u].id,
           th' \in Notified(T, s), menu' = menu
    PROVE  Onward
<1>1. CASE th' = T
  BY <1>1, StillOnward
<1>2. CASE \E u \in Waiters(s) : th' = [T EXCEPT ![u].pc = "acceptwoken"]
  <2>1. PICK u \in Waiters(s) : th' = [T EXCEPT ![u].pc = "acceptwoken"]
    BY <1>2
  <2>2. u \in Users /\ th[u].pc \in {"acceptwait", "acceptexpired"}
    BY DEF Waiters, At
  <2>3. th'[u].pc = "acceptwoken" /\ \A v \in Users : v # u => th'[v] = T[v]
    BY <2>1, <2>2 DEF ThreadStates
  <2> QED
    BY <2>2, <2>3, StillOnward
<1> QED
  BY <1>1, <1>2 DEF Notified

\* A transport thread reads one message and answers with at most one.
LEMMA ExchangeWires ==
    ASSUME WireOK, NEW s \in Sides, wire[Peer(s)] # <<>>
    PROVE  /\ Exchange(s, <<>>) => Drops(Peer(s)) /\ Rests(s)
           /\ \A m \in Messages : Exchange(s, <<m>>) => Drops(Peer(s)) /\ Adds(s, m)
<1>1. Peer(s) \in Sides /\ Peer(s) # s /\ wire[s] \in Seq(Messages)
  BY PeerFacts DEF WireOK
<1>2. \A ms : Exchange(s, ms) => /\ wire'[Peer(s)] = Tail(wire[Peer(s)])
                                 /\ wire'[s] = wire[s] \o ms
  BY <1>1 DEF Exchange, WireOK
<1>3. wire[s] \o <<>> = wire[s] /\ \A m \in Messages : wire[s] \o <<m>> = Append(wire[s], m)
  BY <1>1
<1> QED
  BY <1>2, <1>3 DEF Drops, Adds, Rests

\* Post adds a message to the wire of a Transport that is active, and to no other.
LEMMA PostWires ==
    ASSUME WireOK, NEW s \in Sides, NEW m \in Messages, Post(s, m)
    PROVE  /\ sd[s].active => Adds(s, m)
           /\ ~sd[s].active => Rests(s)
           /\ Rests(Peer(s))
<1>1. Peer(s) \in Sides /\ Peer(s) # s
  BY PeerFacts
<1> QED
  BY <1>1 DEF Post, Adds, Rests, WireOK

\* The two sides.
LEMMA TwoSides == \A s, r \in Sides : r = s \/ r = Peer(s)
  BY DEF Sides, Peer

\* Peers are peers of each other.
LEMMA PeerPeer == \A s \in Sides : Peer(Peer(s)) = s
  BY DEF Sides, Peer

-----------------------------------------------------------------------------
(* The quiet actions                                                        *)

\* A step that only moves threads.
LEMMA IdleQuiet ==
    ASSUME Onward, UNCHANGED <<sd, wire>>
    PROVE  Quiet
  BY DEF Quiet, Held, Rests

\* One side is replaced, but not what Held speaks of.
LEMMA SideHeld ==
    ASSUME SdOK, NEW s \in Sides, NEW t,
           t.active = sd[s].active, t.channels = sd[s].channels, t.events = sd[s].events,
           t.seen = sd[s].seen, t.counter = sd[s].counter,
           sd' = [sd EXCEPT ![s] = t]
    PROVE  \A r \in Sides : Held(r)
  BY DEF SdOK, Held

\* open_channel ends its loop, or gives up.
LEMMA OpenReturnsQuiet ==
    ASSUME ThOK, NEW u \in Users, OpenReturns(u) \/ OpenTimesOut(u), menu' = menu
    PROVE  Quiet
<1>1. CASE OpenReturns(u)
  <2>1. PICK place \in {"opened", "done"} : Goto(u, place)
    BY <1>1 DEF OpenReturns
  <2>2. th[u].pc = "openwait" /\ place \in Places /\ place \in Late
    BY <1>1 DEF OpenReturns, Places, Late
  <2> QED
    BY <1>1, <2>1, <2>2, GotoOnward, IdleQuiet DEF OpenReturns
<1>2. CASE OpenTimesOut(u)
  <2>1. "timedout" \in Places /\ "timedout" \in Late
    BY DEF Places, Late
  <2> QED
    BY <1>2, <2>1, GotoOnward, IdleQuiet DEF OpenTimesOut
<1> QED
  BY <1>1, <1>2

\* A thread gets its channel from the queue.
LEMMA TakeAcceptQuiet ==
    ASSUME SdOK, ThOK, NEW u \in Users, TakeAccept(u), UNCHANGED wire, menu' = menu,
           th[u].pc \in {"idle", "acceptwoken", "acceptexpired"}
    PROVE  Quiet
<1> DEFINE s == SideOf[u]
           t == [sd[s] EXCEPT !.accepts = Tail(sd[s].accepts)]
           a == [th[u] EXCEPT !.pc = "opened", !.id = Head(sd[s].accepts)]
<1>1. s \in Sides /\ sd[s] \in SideStates
  BY SideFacts
<1>2. /\ t.active = sd[s].active /\ t.channels = sd[s].channels /\ t.events = sd[s].events
      /\ t.seen = sd[s].seen /\ t.counter = sd[s].counter
  BY <1>1 DEF SideStates
<1>3. sd' = [sd EXCEPT ![s] = t] /\ th' = [th EXCEPT ![u] = a]
  BY DEF TakeAccept
<1>4. th[u] \in ThreadStates /\ th \in [Users -> ThreadStates]
  BY DEF ThOK
<1>5. a.pc = "opened"
  BY <1>4 DEF ThreadStates
<1> HIDE DEF s, t, a
<1>6. \A r \in Sides : Held(r)
  BY <1>1, <1>2, <1>3, SideHeld
<1>7. \A v \in Users : IF v = u THEN th'[v].pc = "opened" ELSE th'[v] = th[v]
  BY <1>3, <1>4, <1>5
<1>8. Onward
  BY <1>7 DEF Onward, Late
<1> QED
  BY <1>6, <1>8 DEF Quiet, Rests

\* accept takes a channel or waits, and after its wait takes one or gives up.
LEMMA AcceptQuiet ==
    ASSUME SdOK, ThOK, NEW u \in Users, Accept(u) \/ AcceptResumes(u) \/ AcceptTimesOut(u), menu' = menu
    PROVE  Quiet
<1>1. CASE TakeAccept(u) /\ UNCHANGED wire /\ th[u].pc \in {"idle", "acceptwoken", "acceptexpired"}
  BY <1>1, TakeAcceptQuiet
<1>2. CASE /\ UNCHANGED <<sd, wire>>
           /\ th[u].pc \in {"idle", "acceptwait", "acceptwoken", "acceptexpired"}
           /\ \E place \in {"acceptwait", "acceptexpired", "done"} : Goto(u, place)
  <2>1. PICK place \in {"acceptwait", "acceptexpired", "done"} : Goto(u, place)
    BY <1>2
  <2>2. place \in Places /\ th[u].pc \notin Late
    BY <1>2 DEF Places, Late
  <2> QED
    BY <1>2, <2>1, <2>2, GotoOnward, IdleQuiet
<1> QED
  BY <1>1, <1>2 DEF Accept, AcceptResumes, AcceptTimesOut

\* global_request, up to its return, and the handler that request_port_forward installs.
LEMMA GlobalQuiet ==
    ASSUME SdOK, ThOK, WireOK, NEW u \in Users, menu' = menu,
           GlobalRequest(u) \/ GlobalSend(u) \/ GlobalReturns(u) \/ SetTcpHandler(u)
    PROVE  Quiet
<1> DEFINE s == SideOf[u]
<1>1. s \in Sides /\ sd[s] \in SideStates
  BY SideFacts
<1>2. ASSUME NEW place \in {"requestsend", "requestwait", "handler", "done"}, Goto(u, place),
             th[u].pc \in {"idle", "requestsend", "requestwait", "handler"}
      PROVE  Onward
  <2>1. place \in Places /\ th[u].pc \notin Late
    BY <1>2 DEF Places, Late
  <2> QED
    BY <1>2, <2>1, GotoOnward
<1>3. CASE GlobalRequest(u)
  <2> DEFINE t == [sd[s] EXCEPT !.completion = FALSE]
  <2>1. /\ t.active = sd[s].active /\ t.channels = sd[s].channels /\ t.events = sd[s].events
        /\ t.seen = sd[s].seen /\ t.counter = sd[s].counter
    BY <1>1 DEF SideStates
  <2>2. sd' = [sd EXCEPT ![s] = t]
    BY <1>3 DEF GlobalRequest
  <2> HIDE DEF t
  <2>3. \A r \in Sides : Held(r)
    BY <1>1, <2>1, <2>2, SideHeld
  <2> QED
    BY <1>2, <1>3, <2>3 DEF GlobalRequest, Quiet, Rests
<1>4. CASE GlobalSend(u)
  <2> DEFINE m == Msg("request", Unset, Unset, u)
  <2>1. m \in Messages /\ m.type \in Plain
    BY MsgTypes, ChannelTypes DEF Msg, Plain
  <2>2. Post(s, m) /\ Goto(u, "requestwait") /\ th[u].pc = "requestsend" /\ UNCHANGED sd
    BY <1>4 DEF GlobalSend
  <2> HIDE DEF m
  <2>3. Rests(Peer(s)) /\ (Rests(s) \/ Adds(s, m))
    BY <1>1, <2>1, <2>2, PostWires
  <2>4. \A r \in Sides : Rests(r) \/ Adds(r, m)
    BY <1>1, <2>3, TwoSides
  <2>5. Onward
    BY <1>2, <2>2
  <2>6. \A r \in Sides : Held(r)
    BY <2>2 DEF Held
  <2> QED
    BY <2>1, <2>4, <2>5, <2>6 DEF Quiet
<1>5. CASE GlobalReturns(u)
  <2>1. PICK place \in {"handler", "done"} : Goto(u, place)
    BY <1>5 DEF GlobalReturns
  <2> QED
    BY <1>2, <1>5, <2>1, IdleQuiet DEF GlobalReturns
<1>6. CASE SetTcpHandler(u)
  <2> DEFINE t == [sd[s] EXCEPT !.tcpHandler = TRUE]
  <2>1. /\ t.active = sd[s].active /\ t.channels = sd[s].channels /\ t.events = sd[s].events
        /\ t.seen = sd[s].seen /\ t.counter = sd[s].counter
    BY <1>1 DEF SideStates
  <2>2. sd' = [sd EXCEPT ![s] = t]
    BY <1>6 DEF SetTcpHandler
  <2> HIDE DEF t
  <2>3. \A r \in Sides : Held(r)
    BY <1>1, <2>1, <2>2, SideHeld
  <2> QED
    BY <1>2, <1>6, <2>3 DEF SetTcpHandler, Quiet, Rests
<1> QED
  BY <1>3, <1>4, <1>5, <1>6

\* The other side answers a global request, the answer arrives, keys are renewed.
LEMMA AnswerQuiet ==
    ASSUME SdOK, ThOK, WireOK, NEW s \in Sides, menu' = menu,
           ParseGlobalRequest(s) \/ ParseRequestAnswer(s) \/ ParseNewKeys(s)
    PROVE  Quiet
<1>1. Peer(s) \in Sides /\ sd[s] \in SideStates
  BY PeerFacts DEF SdOK
<1>2. CASE ParseGlobalRequest(s)
  <2>1. Incoming(s, "request")
    BY <1>2 DEF ParseGlobalRequest
  <2>2. /\ wire[Peer(s)] # <<>> /\ Head(wire[Peer(s)]).user \in Users \cup {Nobody}
        /\ Head(wire[Peer(s)]).type \in Plain
    BY <2>1, HeadTypes DEF Incoming, Plain
  <2>3. PICK answer \in {"granted", "denied"} :
            Exchange(s, <<Msg(answer, Unset, Unset, Head(wire[Peer(s)]).user)>>)
    BY <1>2 DEF ParseGlobalRequest
  <2>4. PICK m : m = Msg(answer, Unset, Unset, Head(wire[Peer(s)]).user)
    OBVIOUS
  <2>5. m \in Messages /\ m.type \in Plain
    <3>1. m \in Messages
      BY <2>2, <2>4, MsgTypes, ChannelTypes
    <3> QED
      BY <2>4, <3>1 DEF Msg, Plain
  <2>6. Drops(Peer(s)) /\ Adds(s, m)
    BY <2>2, <2>3, <2>4, <2>5, ExchangeWires
  <2>7. Onward /\ \A r \in Sides : Held(r)
    BY <1>2, StillOnward DEF ParseGlobalRequest, Held
  <2> QED
    BY <2>2, <2>5, <2>6, <2>7, TwoSides DEF Quiet
<1>3. CASE ParseRequestAnswer(s)
  <2>1. Incoming(s, "granted") \/ Incoming(s, "denied")
    BY <1>3 DEF ParseRequestAnswer
  <2>2. wire[Peer(s)] # <<>> /\ Head(wire[Peer(s)]).type \in Plain
    BY <2>1 DEF Incoming, Plain
  <2>3. Drops(Peer(s)) /\ Rests(s)
    BY <1>3, <2>2, ExchangeWires DEF ParseRequestAnswer
  <2> DEFINE m == Head(wire[Peer(s)])
             t == [sd[s] EXCEPT !.answer = [user |-> m.user, granted |-> m.type = "granted"],
                                !.completion = TRUE]
  <2>4. /\ t.active = sd[s].active /\ t.channels = sd[s].channels /\ t.events = sd[s].events
        /\ t.seen = sd[s].seen /\ t.counter = sd[s].counter
    BY <1>1 DEF SideStates
  <2>5. sd' = [sd EXCEPT ![s] = t]
    BY <1>3 DEF ParseRequestAnswer
  <2> HIDE DEF t
  <2>6. \A r \in Sides : Held(r)
    BY <2>4, <2>5, SideHeld
  <2>7. Onward
    BY <1>3, StillOnward DEF ParseRequestAnswer
  <2> QED
    BY <2>2, <2>3, <2>6, <2>7, TwoSides DEF Quiet
<1>4. CASE ParseNewKeys(s)
  <2> DEFINE t == [sd[s] EXCEPT !.completion = TRUE]
  <2>1. /\ t.active = sd[s].active /\ t.channels = sd[s].channels /\ t.events = sd[s].events
        /\ t.seen = sd[s].seen /\ t.counter = sd[s].counter
    BY <1>1 DEF SideStates
  <2>2. sd' = [sd EXCEPT ![s] = t]
    BY <1>4 DEF ParseNewKeys
  <2> HIDE DEF t
  <2>3. \A r \in Sides : Held(r)
    BY <2>1, <2>2, SideHeld
  <2>4. Onward
    BY <1>4, StillOnward DEF ParseNewKeys
  <2> QED
    BY <1>4, <2>3, <2>4 DEF Quiet, Rests, ParseNewKeys
<1> QED
  BY <1>2, <1>3, <1>4

-----------------------------------------------------------------------------
(* The actions that open and close                                          *)

\* A new entry: which fields of the side change.
LEMMA PutFields ==
    ASSUME NEW t \in SideStates, NEW i \in Ids, NEW c \in Channels
    PROVE  /\ Put(t, i, c).active = t.active /\ Put(t, i, c).events = t.events
           /\ Put(t, i, c).channels = [t.channels EXCEPT ![i] = c]
           /\ Put(t, i, c).seen = t.seen \cup {i}
           /\ Put(t, i, c).counter = (i + 1) % IdSpace
           /\ Advance(t, i).active = t.active /\ Advance(t, i).events = t.events
           /\ Advance(t, i).channels = t.channels /\ Advance(t, i).seen = t.seen
           /\ Advance(t, i).counter = (i + 1) % IdSpace
<1>1. Advance(t, i) \in SideStates
  BY PutTypes
<1>2. /\ Advance(t, i).active = t.active /\ Advance(t, i).events = t.events
      /\ Advance(t, i).channels = t.channels /\ Advance(t, i).seen = t.seen
      /\ Advance(t, i).counter = (i + 1) % IdSpace
  BY DEF Advance, SideStates
<1> DEFINE a == Advance(t, i)
<1>3. Put(t, i, c) = [a EXCEPT !.channels = [a.channels EXCEPT ![i] = c], !.seen = a.seen \cup {i}]
  BY <1>1 DEF Put, SideStates
<1> HIDE DEF a
<1>4. /\ Put(t, i, c).active = a.active /\ Put(t, i, c).events = a.events
      /\ Put(t, i, c).channels = [a.channels EXCEPT ![i] = c]
      /\ Put(t, i, c).seen = a.seen \cup {i} /\ Put(t, i, c).counter = a.counter
  BY <1>1, <1>3 DEF SideStates, a
<1> QED
  BY <1>2, <1>4 DEF a

\* User u begins to open number i.
Begins(u, i) ==
    LET s == SideOf[u]
    IN /\ u \in Openers /\ th[u].pc = "idle" /\ i \in Ids /\ menu' = menu
       /\ Took(s, i) /\ Held(Peer(s))
       /\ sd'[s].channels = [sd[s].channels EXCEPT ![i] = Opening]
       /\ sd'[s].seen = sd[s].seen \cup {i}
       /\ sd'[s].events = [sd[s].events EXCEPT ![i] = u]
       /\ Rests(s) /\ Rests(Peer(s))
       /\ th'[u].pc = "opensend" /\ th'[u].id = i
       /\ \A v \in Users : v # u => th'[v] = th[v]

\* open_channel takes a number.
LEMMA OpenChannelBegins ==
    ASSUME SdOK, ThOK, NEW u \in Users, OpenChannel(u), menu' = menu
    PROVE  \E i \in Ids : Begins(u, i)
<1> DEFINE s == SideOf[u]
<1>1. s \in Sides /\ sd[s] \in SideStates /\ Peer(s) \in Sides /\ Peer(s) # s
  BY SideFacts, PeerFacts
<1>2. PICK i \in NextChannel(sd[s]) :
        /\ sd' = [sd EXCEPT ![s] = [Put(sd[s], i, Opening) EXCEPT !.events[i] = u]]
        /\ th' = [th EXCEPT ![u] = [pc |-> "opensend", id |-> i, event |-> FALSE]]
  BY DEF OpenChannel
<1>3. i \in Ids
  BY DEF NextChannel, FreeIds
<1> DEFINE p == Put(sd[s], i, Opening)
           t == [p EXCEPT !.events[i] = u]
<1>4. /\ p \in SideStates /\ p.active = sd[s].active /\ p.events = sd[s].events
      /\ p.channels = [sd[s].channels EXCEPT ![i] = Opening]
      /\ p.seen = sd[s].seen \cup {i} /\ p.counter = (i + 1) % IdSpace
  <2>1. Opening \in Channels
    BY ChannelTypes
  <2>2. PICK t0 \in SideStates : t0 = sd[s]
    BY <1>1
  <2>3. Put(t0, i, Opening) \in SideStates
    BY <1>3, <2>1, PutTypes
  <2> QED
    BY <1>3, <2>1, <2>2, <2>3, PutFields
<1>5. sd' = [sd EXCEPT ![s] = t]
  BY <1>2
<1> HIDE DEF p
<1>6. /\ t.active = p.active /\ t.events = [p.events EXCEPT ![i] = u] /\ t.channels = p.channels
      /\ t.seen = p.seen /\ t.counter = p.counter
  BY <1>4 DEF SideStates
<1> HIDE DEF t
<1>7. sd'[s] = t /\ sd'[Peer(s)] = sd[Peer(s)]
  BY <1>1, <1>5 DEF SdOK
<1>8. th'[u].pc = "opensend" /\ th'[u].id = i /\ \A v \in Users : v # u => th'[v] = th[v]
  BY <1>2 DEF ThOK
<1>9. u \in Openers /\ th[u].pc = "idle" /\ UNCHANGED wire
  BY DEF OpenChannel, Openers
<1> QED
  BY <1>2, <1>3, <1>4, <1>6, <1>7, <1>8, <1>9 DEF Begins, Took, Held, Rests

\* User u sends its CHANNEL_OPEN.
Sends(u) ==
    LET s == SideOf[u]
    IN /\ th[u].pc = "opensend" /\ menu' = menu
       /\ \A r \in Sides : Held(r)
       /\ sd[s].active => Adds(s, Msg("open", Unset, th[u].id, u))
       /\ ~sd[s].active => Rests(s)
       /\ Rests(Peer(s))
       /\ th'[u].pc = "openwait" /\ th'[u].id = th[u].id
       /\ \A v \in Users : v # u => th'[v] = th[v]

\* The second step of open_channel.
LEMMA OpenSendSends ==
    ASSUME SdOK, ThOK, WireOK, NEW u \in Users, OpenSend(u), menu' = menu
    PROVE  Sends(u)
<1>1. SideOf[u] \in Sides /\ th[u].id \in Ids /\ th[u] \in ThreadStates
  BY SideFacts, ThreadFacts
<1>2. Msg("open", Unset, th[u].id, u) \in Messages
  BY <1>1, MsgTypes, ChannelTypes
<1>3. Post(SideOf[u], Msg("open", Unset, th[u].id, u)) /\ th[u].pc = "opensend" /\ UNCHANGED sd
  BY DEF OpenSend
<1>4. th' = [th EXCEPT ![u] = [th[u] EXCEPT !.pc = "openwait"]]
  BY DEF OpenSend, Goto
<1>5. [th[u] EXCEPT !.pc = "openwait"].pc = "openwait" /\ [th[u] EXCEPT !.pc = "openwait"].id = th[u].id
  BY <1>1 DEF ThreadStates
<1>6. /\ th'[u].pc = "openwait" /\ th'[u].id = th[u].id
      /\ \A v \in Users : v # u => th'[v] = th[v]
  BY <1>4, <1>5 DEF ThOK
<1>7. \A r \in Sides : Held(r)
  BY <1>3 DEF Held
<1> QED
  BY <1>1, <1>2, <1>3, <1>6, <1>7, PostWires DEF Sends

\* A Channel of s that the peer knows by another number sends its CLOSE, or there is
\* nothing to say any more.
Told(s, i) ==
    \/ Rests(s)
    \/ Chan(s, i).active /\ Adds(s, Msg("close", Chan(s, i).remote, Unset, Nobody))

\* User u gives up number i, and the Channel is collected.
Collects(u) ==
    LET s == SideOf[u]
    IN /\ th[u].pc = "timedout" /\ th'[u].pc = "done" /\ Onward
       /\ HeldBut(s, th[u].id, NoChannel) /\ Held(Peer(s))
       /\ Told(s, th[u].id) /\ Rests(Peer(s))

\* A CLOSE names one of the peer's numbers.
LEMMA CloseTypes ==
    ASSUME SdOK, NEW s \in Sides, NEW i \in Ids
    PROVE  Msg("close", Chan(s, i).remote, Unset, Nobody) \in Messages
  BY ChannelFacts, ChannelTypes, MsgTypes DEF Chan

\* One entry of the table of s is replaced.
LEMMA EntryHeld ==
    ASSUME SdOK, NEW s \in Sides, NEW i \in Ids, NEW c,
           sd' = [sd EXCEPT ![s].channels[i] = c]
    PROVE  HeldBut(s, i, c) /\ Held(Peer(s)) /\ sd'[s].events = sd[s].events
<1>1. sd[s] \in SideStates /\ Peer(s) \in Sides /\ Peer(s) # s
  BY PeerFacts DEF SdOK
<1> DEFINE t == [sd[s] EXCEPT !.channels = [sd[s].channels EXCEPT ![i] = c]]
<1>2. sd' = [sd EXCEPT ![s] = t]
  OBVIOUS
<1>3. /\ t.active = sd[s].active /\ t.events = sd[s].events /\ t.seen = sd[s].seen
      /\ t.counter = sd[s].counter /\ t.channels = [sd[s].channels EXCEPT ![i] = c]
  BY <1>1 DEF SideStates
<1> HIDE DEF t
<1>4. sd'[s] = t /\ sd'[Peer(s)] = sd[Peer(s)]
  BY <1>1, <1>2 DEF SdOK
<1> QED
  BY <1>3, <1>4 DEF HeldBut, Held

\* The garbage collector and __del__.
LEMMA CollectCollects ==
    ASSUME SdOK, ThOK, WireOK, NEW u \in Users, Collect(u), menu' = menu
    PROVE  Collects(u)
<1> DEFINE s == SideOf[u]
           i == th[u].id
           m == Msg("close", Chan(s, i).remote, Unset, Nobody)
<1>1. s \in Sides /\ i \in Ids /\ th[u] \in ThreadStates
  BY SideFacts, ThreadFacts
<1>2. sd' = [sd EXCEPT ![s].channels[i] = NoChannel]
  BY DEF Collect
<1>3. (Chan(s, i).active /\ Post(s, m)) \/ UNCHANGED wire
  BY DEF Collect, Chan
<1>4. Goto(u, "done") /\ th[u].pc = "timedout" /\ "done" \in Places /\ "done" \in Late
  BY DEF Collect, Places, Late
<1>5. Onward
  BY <1>4, GotoOnward
<1>6. m \in Messages
  BY <1>1, CloseTypes
<1>7. th'[u].pc = "done"
  BY <1>1, <1>4 DEF Goto, ThOK, ThreadStates
<1> HIDE DEF s, i, m
<1>8. Rests(Peer(s)) /\ (Rests(s) \/ (Chan(s, i).active /\ Adds(s, m)))
  BY <1>1, <1>3, <1>6, PostWires, PeerFacts DEF Rests
<1>9. HeldBut(s, i, NoChannel) /\ Held(Peer(s))
  BY <1>1, <1>2, EntryHeld
<1> QED
  BY <1>4, <1>5, <1>7, <1>8, <1>9 DEF Collects, Told, s, i, m

\* User u closes its Channel.
Closes(u) ==
    LET s == SideOf[u]
        c == Chan(s, th[u].id)
    IN /\ Onward /\ c.live /\ c.active
       /\ HeldBut(s, th[u].id, [c EXCEPT !.closed = TRUE]) /\ sd'[s].events = sd[s].events
       /\ Held(Peer(s)) /\ Rests(Peer(s))
       /\ sd[s].active => Adds(s, Msg("close", c.remote, Unset, Nobody))
       /\ Told(s, th[u].id)

\* Channel.close.
LEMMA CloseChannelCloses ==
    ASSUME SdOK, ThOK, WireOK, NEW u \in Users, CloseChannel(u), menu' = menu
    PROVE  Closes(u)
<1> DEFINE s == SideOf[u]
           i == th[u].id
           c == [Chan(s, i) EXCEPT !.closed = TRUE]
           m == Msg("close", Chan(s, i).remote, Unset, Nobody)
<1>1. s \in Sides /\ i \in Ids
  BY SideFacts, ThreadFacts
<1>2. sd' = [sd EXCEPT ![s].channels[i] = c]
  BY DEF CloseChannel, Chan
<1>3. Chan(s, i).live /\ Chan(s, i).active /\ Post(s, m)
  BY DEF CloseChannel, Chan
<1>4. Goto(u, "done") /\ th[u].pc = "opened" /\ "done" \in Places /\ "done" \in Late
  BY DEF CloseChannel, Places, Late
<1>5. Onward
  BY <1>4, GotoOnward
<1>6. m \in Messages
  BY <1>1, CloseTypes
<1> HIDE DEF s, i, c, m
<1>7. Rests(Peer(s)) /\ (sd[s].active => Adds(s, m)) /\ (~sd[s].active => Rests(s))
  BY <1>1, <1>3, <1>6, PostWires
<1>8. HeldBut(s, i, c) /\ Held(Peer(s)) /\ sd'[s].events = sd[s].events
  BY <1>1, <1>2, EntryHeld
<1>9. Told(s, i)
  BY <1>3, <1>7 DEF Told, m
<1> QED
  BY <1>3, <1>5, <1>7, <1>8, <1>9 DEF Closes, s, i, m, c

\* The message that the transport thread of s reads, and the step that reads one.
Got(s) == Head(wire[Peer(s)])
Reads(s, type) == sd[s].active /\ Got(s).type = type /\ Got(s) \in Messages /\ Drops(Peer(s))

\* What reading a message means.
LEMMA ExchangeReads ==
    ASSUME WireOK, NEW s \in Sides, NEW type, Incoming(s, type)
    PROVE  /\ Exchange(s, <<>>) => Reads(s, type) /\ Rests(s)
           /\ \A m \in Messages : Exchange(s, <<m>>) => Reads(s, type) /\ Adds(s, m)
<1>1. wire[Peer(s)] # <<>> /\ Got(s) \in Messages /\ Got(s).type = type /\ sd[s].active
  BY HeadTypes DEF Incoming, Got
<1>2. /\ Exchange(s, <<>>) => Drops(Peer(s)) /\ Rests(s)
      /\ \A m \in Messages : Exchange(s, <<m>>) => Drops(Peer(s)) /\ Adds(s, m)
  BY <1>1, ExchangeWires
<1> QED
  BY <1>1, <1>2 DEF Reads

\* Side s takes the channel its peer opens, as its number i.
Admits(s, i) ==
    /\ Reads(s, "open") /\ Adds(s, Msg("success", Got(s).from, i, Nobody))
    /\ Onward /\ i \in Ids
    /\ Took(s, i) /\ Held(Peer(s))
    /\ sd'[s].channels = [sd[s].channels EXCEPT ![i] = Opened(Got(s).from)]
    /\ sd'[s].seen = sd[s].seen \cup {i}
    /\ sd'[s].events = sd[s].events

\* Side s refuses it, perhaps after taking a number.
Refuses(s) ==
    /\ Reads(s, "open") /\ Adds(s, Msg("failure", Got(s).from, Unset, Nobody))
    /\ Onward /\ Held(Peer(s))
    /\ sd'[s].active = sd[s].active /\ sd'[s].channels = sd[s].channels
    /\ sd'[s].seen = sd[s].seen /\ sd'[s].events = sd[s].events
    /\ sd'[s].counter = sd[s].counter \/ \E i \in Ids : Took(s, i)

\* _parse_channel_open does one or the other.
LEMMA ParseChannelOpenEffect ==
    ASSUME SdOK, ThOK, WireOK, NEW s \in Sides, ParseChannelOpen(s), menu' = menu
    PROVE  Refuses(s) \/ \E i \in Ids : Admits(s, i)
<1>1. sd[s] \in SideStates /\ Peer(s) \in Sides /\ Peer(s) # s
  BY PeerFacts DEF SdOK
<1>2. Incoming(s, "open") /\ Got(s).from \in Ids
  BY HeadTypes DEF ParseChannelOpen, Got
<1>3. PICK ok \in MayAccept(s), i \in NextChannel(sd[s]) :
            IF ok
            THEN /\ sd' = [sd EXCEPT ![s] = [Put(sd[s], i, Opened(Got(s).from)) EXCEPT !.accepts = Append(@, i)]]
                 /\ th' \in Notified(th, s)
                 /\ Exchange(s, <<Msg("success", Got(s).from, i, Nobody)>>)
            ELSE /\ sd' = IF s = "server" THEN [sd EXCEPT ![s] = Advance(sd[s], i)] ELSE sd
                 /\ Exchange(s, <<Msg("failure", Got(s).from, Unset, Nobody)>>)
                 /\ UNCHANGED th
  BY DEF ParseChannelOpen, Got
<1>4. i \in Ids
  BY DEF NextChannel, FreeIds
<1>5. PICK from \in Ids : from = Got(s).from
  BY <1>2
<1>6. PICK t0 \in SideStates : t0 = sd[s]
  BY <1>1
<1>7. CASE ok
  <2> DEFINE c == Opened(from)
             p == Put(t0, i, c)
             t == [p EXCEPT !.accepts = Append(p.accepts, i)]
             m == Msg("success", from, i, Nobody)
  <2>1. /\ sd' = [sd EXCEPT ![s] = t] /\ th' \in Notified(th, s) /\ Exchange(s, <<m>>)
    BY <1>3, <1>5, <1>6, <1>7
  <2>2. c \in Channels
    BY ChannelTypes
  <2>3. m \in Messages
    BY <1>4, MsgTypes
  <2> HIDE DEF c, m
  <2>4. p \in SideStates
    BY <1>4, <2>2, PutTypes
  <2>5. /\ p.active = sd[s].active /\ p.events = sd[s].events
        /\ p.channels = [sd[s].channels EXCEPT ![i] = c]
        /\ p.seen = sd[s].seen \cup {i} /\ p.counter = (i + 1) % IdSpace
    BY <1>4, <1>6, <2>2, PutFields
  <2> HIDE DEF p
  <2>6. /\ t.active = p.active /\ t.events = p.events /\ t.channels = p.channels
        /\ t.seen = p.seen /\ t.counter = p.counter
    BY <2>4 DEF SideStates
  <2> HIDE DEF t
  <2>7. sd'[s] = t /\ sd'[Peer(s)] = sd[Peer(s)]
    BY <1>1, <2>1 DEF SdOK
  <2>8. Reads(s, "open") /\ Adds(s, m)
    BY <1>2, <2>1, <2>3, ExchangeReads
  <2>9. Onward
    BY <2>1, NotifiedOnward DEF ThOK
  <2>10. Took(s, i) /\ Held(Peer(s))
    BY <1>3, <2>5, <2>6, <2>7 DEF Took, Held
  <2>11. /\ sd'[s].channels = [sd[s].channels EXCEPT ![i] = c]
         /\ sd'[s].seen = sd[s].seen \cup {i} /\ sd'[s].events = sd[s].events
    BY <2>5, <2>6, <2>7
  <2>12. Admits(s, i)
    BY <1>4, <1>5, <2>8, <2>9, <2>10, <2>11 DEF Admits, c, m
  <2> QED
    BY <1>4, <2>12
<1>8. CASE ~ok
  <2> DEFINE m == Msg("failure", from, Unset, Nobody)
             a == Advance(t0, i)
  <2>1. /\ sd' = sd \/ sd' = [sd EXCEPT ![s] = a]
        /\ UNCHANGED th /\ Exchange(s, <<m>>)
    BY <1>3, <1>5, <1>6, <1>8
  <2>2. m \in Messages
    BY MsgTypes, ChannelTypes
  <2>3. /\ a.active = sd[s].active /\ a.events = sd[s].events /\ a.channels = sd[s].channels
        /\ a.seen = sd[s].seen /\ a.counter = (i + 1) % IdSpace
    BY <1>4, <1>6, PutFields, ChannelTypes
  <2> HIDE DEF m, a
  <2>4. Reads(s, "open") /\ Adds(s, m)
    BY <1>2, <2>1, <2>2, ExchangeReads
  <2>5. Onward
    BY <2>1, StillOnward
  <2>6. sd'[Peer(s)] = sd[Peer(s)] /\ (sd'[s] = sd[s] \/ sd'[s] = a)
    BY <1>1, <2>1 DEF SdOK
  <2>7. /\ Held(Peer(s))
        /\ sd'[s].active = sd[s].active /\ sd'[s].channels = sd[s].channels
        /\ sd'[s].seen = sd[s].seen /\ sd'[s].events = sd[s].events
    BY <2>3, <2>6 DEF Held
  <2>8. sd'[s].counter = sd[s].counter \/ Took(s, i)
    BY <1>3, <2>3, <2>6 DEF Took
  <2> QED
    BY <1>4, <1>5, <2>4, <2>5, <2>7, <2>8 DEF Refuses, m
<1> QED
  BY <1>7, <1>8

\* Side s learns the peer's number of its Channel.
Confirms(s) ==
    /\ Reads(s, "success") /\ Rests(s) /\ Onward
    /\ Chan(s, Got(s).to).live
    /\ HeldBut(s, Got(s).to, Opened(Got(s).from)) /\ Held(Peer(s))

\* Side s learns of a refusal.
Forgets(s) ==
    /\ Reads(s, "failure") /\ Rests(s) /\ Onward
    /\ HeldBut(s, Got(s).to, NoChannel) /\ Held(Peer(s))

\* Nobody waits for the answer any more.
Ignores(s) ==
    /\ \/ Reads(s, "success") /\ ~Chan(s, Got(s).to).live
       \/ Reads(s, "failure") /\ sd[s].events[Got(s).to] = Nobody
    /\ Rests(s) /\ Onward
    /\ Held(s) /\ Held(Peer(s))

\* An entry and its event are replaced.
LEMMA EntryEventHeld ==
    ASSUME SdOK, NEW s \in Sides, NEW i \in Ids, NEW c,
           sd' = [sd EXCEPT ![s].channels[i] = c, ![s].events[i] = Nobody]
    PROVE  HeldBut(s, i, c) /\ Held(Peer(s))
<1>1. sd[s] \in SideStates /\ Peer(s) \in Sides /\ Peer(s) # s
  BY PeerFacts DEF SdOK
<1> DEFINE t == [sd[s] EXCEPT !.channels = [sd[s].channels EXCEPT ![i] = c],
                              !.events = [sd[s].events EXCEPT ![i] = Nobody]]
<1>2. sd' = [sd EXCEPT ![s] = t]
  BY <1>1 DEF SideStates, SdOK
<1>3. /\ t.active = sd[s].active /\ t.seen = sd[s].seen /\ t.counter = sd[s].counter
      /\ t.channels = [sd[s].channels EXCEPT ![i] = c]
      /\ \A j \in Ids : j # i => t.events[j] = sd[s].events[j]
  BY <1>1 DEF SideStates
<1> HIDE DEF t
<1>4. sd'[s] = t /\ sd'[Peer(s)] = sd[Peer(s)]
  BY <1>1, <1>2 DEF SdOK
<1> QED
  BY <1>3, <1>4 DEF HeldBut, Held

\* _parse_channel_open_success.
LEMMA ParseOpenSuccessEffect ==
    ASSUME SdOK, ThOK, WireOK, NEW s \in Sides, ParseOpenSuccess(s), menu' = menu
    PROVE  Confirms(s) \/ Ignores(s)
<1>1. Incoming(s, "success") /\ Got(s).to \in Ids /\ Exchange(s, <<>>)
  BY HeadTypes DEF ParseOpenSuccess, Got
<1>2. Reads(s, "success") /\ Rests(s)
  BY <1>1, ExchangeReads
<1>3. CASE Chan(s, Got(s).to).live
  <2>1. /\ sd' = [sd EXCEPT ![s].channels[Got(s).to] = Opened(Got(s).from), ![s].events[Got(s).to] = Nobody]
        /\ th' = SetEvent(th, sd[s], Got(s).to)
    BY <1>3 DEF ParseOpenSuccess, Got, Chan
  <2>2. HeldBut(s, Got(s).to, Opened(Got(s).from)) /\ Held(Peer(s))
    BY <1>1, <2>1, EntryEventHeld
  <2>3. Onward
    BY <2>1, SetEventOnward
  <2> QED
    BY <1>2, <1>3, <2>2, <2>3 DEF Confirms
<1>4. CASE ~Chan(s, Got(s).to).live
  <2>1. UNCHANGED <<sd, th>>
    BY <1>4 DEF ParseOpenSuccess, Got, Chan
  <2>2. Onward /\ Held(s) /\ Held(Peer(s))
    BY <2>1, StillOnward DEF Held
  <2> QED
    BY <1>2, <1>4, <2>2 DEF Ignores
<1> QED
  BY <1>3, <1>4

\* _parse_channel_open_failure.
LEMMA ParseOpenFailureEffect ==
    ASSUME SdOK, ThOK, WireOK, NEW s \in Sides, ParseOpenFailure(s), menu' = menu
    PROVE  Forgets(s) \/ Ignores(s)
<1>1. Incoming(s, "failure") /\ Got(s).to \in Ids /\ Exchange(s, <<>>)
  BY HeadTypes DEF ParseOpenFailure, Got
<1>2. Reads(s, "failure") /\ Rests(s)
  BY <1>1, ExchangeReads
<1>3. CASE sd[s].events[Got(s).to] # Nobody
  <2>1. /\ sd' = [sd EXCEPT ![s].channels[Got(s).to] = NoChannel, ![s].events[Got(s).to] = Nobody]
        /\ th' = SetEvent(th, sd[s], Got(s).to)
    BY <1>3 DEF ParseOpenFailure, Got
  <2>2. HeldBut(s, Got(s).to, NoChannel) /\ Held(Peer(s))
    BY <1>1, <2>1, EntryEventHeld
  <2>3. Onward
    BY <2>1, SetEventOnward
  <2> QED
    BY <1>2, <2>2, <2>3 DEF Forgets
<1>4. CASE sd[s].events[Got(s).to] = Nobody
  <2>1. UNCHANGED <<sd, th>>
    BY <1>4 DEF ParseOpenFailure, Got
  <2>2. Onward /\ Held(s) /\ Held(Peer(s))
    BY <2>1, StillOnward DEF Held
  <2> QED
    BY <1>2, <1>4, <2>2 DEF Ignores
<1> QED
  BY <1>3, <1>4

\* Side s learns that the peer has closed.
Shuts(s) ==
    LET i == Got(s).to
        c == Chan(s, i)
    IN /\ Reads(s, "close") /\ Onward
       /\ HeldBut(s, i, NoChannel) /\ sd'[s].events = sd[s].events
       /\ Held(Peer(s)) /\ Told(s, i)
       /\ c.live /\ c.active /\ ~c.closed => Adds(s, Msg("close", c.remote, Unset, Nobody))

\* Channel._handle_close.
LEMMA HandleCloseShuts ==
    ASSUME SdOK, ThOK, WireOK, NEW s \in Sides, HandleClose(s), menu' = menu
    PROVE  Shuts(s)
<1>1. Incoming(s, "close") /\ Got(s).to \in Ids
  BY HeadTypes DEF HandleClose, Got
<1>2. PICK i \in Ids : i = Got(s).to
  BY <1>1
<1> DEFINE c == Chan(s, i)
           m == Msg("close", c.remote, Unset, Nobody)
<1>3. /\ sd' = [sd EXCEPT ![s].channels[i] = NoChannel] /\ UNCHANGED th
      /\ IF c.live /\ c.active /\ ~c.closed THEN Exchange(s, <<m>>) ELSE Exchange(s, <<>>)
  BY <1>2 DEF HandleClose, Got, Chan
<1>4. HeldBut(s, i, NoChannel) /\ Held(Peer(s)) /\ sd'[s].events = sd[s].events
  BY <1>3, EntryHeld
<1>5. m \in Messages
  BY CloseTypes
<1>6. /\ Reads(s, "close")
      /\ IF c.live /\ c.active /\ ~c.closed THEN Adds(s, m) ELSE Rests(s)
  <2> HIDE DEF c, m
  <2> QED
    BY <1>1, <1>3, <1>5, ExchangeReads
<1>7. Onward
  BY <1>3, StillOnward
<1>8. Told(s, i)
  BY <1>6 DEF Told
<1> QED
  BY <1>2, <1>4, <1>6, <1>7, <1>8 DEF Shuts

\* The session ends at side s.
Ends(s) ==
    /\ Onward /\ ~sd'[s].active
    /\ sd'[s].channels = NoChannels
    /\ sd'[s].seen = sd[s].seen /\ sd'[s].counter = sd[s].counter
    /\ Held(Peer(s)) /\ Rests(s) /\ Rests(Peer(s))

\* run leaves its loop.
LEMMA RunEndsEnds ==
    ASSUME SdOK, ThOK, NEW s \in Sides, RunEnds(s), menu' = menu
    PROVE  Ends(s)
<1>1. sd[s] \in SideStates /\ Peer(s) \in Sides /\ Peer(s) # s
  BY PeerFacts DEF SdOK
<1> DEFINE t == [sd[s] EXCEPT !.active = FALSE, !.channels = NoChannels, !.completion = TRUE]
           T == [u \in Users |-> IF \E i \in Ids : sd[s].events[i] = u
                                 THEN [th[u] EXCEPT !.event = TRUE] ELSE th[u]]
<1>2. sd' = [sd EXCEPT ![s] = t] /\ th' \in Notified(T, s) /\ UNCHANGED wire
  BY DEF RunEnds
<1>3. ~t.active /\ t.channels = NoChannels /\ t.seen = sd[s].seen /\ t.counter = sd[s].counter
  BY <1>1 DEF SideStates
<1>4. \A u \in Users : /\ [th[u] EXCEPT !.event = TRUE] \in ThreadStates
                       /\ [th[u] EXCEPT !.event = TRUE].pc = th[u].pc
                       /\ [th[u] EXCEPT !.event = TRUE].id = th[u].id
                       /\ th[u] \in ThreadStates
  BY DEF ThOK, ThreadStates
<1>5. T \in [Users -> ThreadStates] /\ \A u \in Users : T[u].pc = th[u].pc /\ T[u].id = th[u].id
  BY <1>4
<1> HIDE DEF t, T
<1>6. sd'[s] = t /\ sd'[Peer(s)] = sd[Peer(s)]
  BY <1>1, <1>2 DEF SdOK
<1>7. Onward
  BY <1>2, <1>5, NotifiedOnward
<1> QED
  BY <1>2, <1>3, <1>6, <1>7 DEF Ends, Held, Rests

\* Transport.close, which does nothing on a Transport that is not active.
LEMMA CloseTransportEnds ==
    ASSUME SdOK, ThOK, NEW u \in Users, CloseTransport(u), menu' = menu
    PROVE  Quiet \/ Ends(SideOf[u])
<1> DEFINE s == SideOf[u]
           t == [sd[s] EXCEPT !.active = FALSE, !.channels = NoChannels]
<1>1. s \in Sides /\ sd[s] \in SideStates /\ Peer(s) \in Sides /\ Peer(s) # s
  BY SideFacts, PeerFacts
<1>2. sd' = sd \/ sd' = [sd EXCEPT ![s] = t]
  BY DEF CloseTransport
<1>3. ~t.active /\ t.channels = NoChannels /\ t.seen = sd[s].seen /\ t.counter = sd[s].counter
  BY <1>1 DEF SideStates
<1>4. Goto(u, "done") /\ th[u].pc = "idle" /\ "done" \in Places /\ UNCHANGED wire
  BY DEF CloseTransport, Places
<1>5. Onward
  BY <1>4, GotoOnward DEF Late
<1> HIDE DEF t
<1>6. CASE sd' = sd
  BY <1>4, <1>5, <1>6, IdleQuiet
<1>7. CASE sd' = [sd EXCEPT ![s] = t]
  <2>1. sd'[s] = t /\ sd'[Peer(s)] = sd[Peer(s)]
    BY <1>1, <1>7 DEF SdOK
  <2> QED
    BY <1>3, <1>4, <1>5, <2>1 DEF Ends, Held, Rests
<1> QED
  BY <1>2, <1>6, <1>7

\* These are all the steps.
LEMMA StepKinds ==
    ASSUME SdOK, ThOK, WireOK, [Next]_vars
    PROVE  \/ Quiet
           \/ \E u \in Users : \/ \E i \in Ids : Begins(u, i)
                               \/ Sends(u) \/ Collects(u) \/ Closes(u)
           \/ \E s \in Sides : \/ Refuses(s) \/ \E i \in Ids : Admits(s, i)
                               \/ Confirms(s) \/ Forgets(s) \/ Ignores(s)
                               \/ Shuts(s) \/ Ends(s)
<1> DEFINE Goal == \/ Quiet
                   \/ \E u \in Users : \/ \E i \in Ids : Begins(u, i)
                                       \/ Sends(u) \/ Collects(u) \/ Closes(u)
                   \/ \E s \in Sides : \/ Refuses(s) \/ \E i \in Ids : Admits(s, i)
                                       \/ Confirms(s) \/ Forgets(s) \/ Ignores(s)
                                       \/ Shuts(s) \/ Ends(s)
<1>1. CASE UNCHANGED vars
  BY <1>1, StillOnward, IdleQuiet DEF vars
<1>2. CASE Next
  <2>1. menu' = menu
    BY <1>2 DEF Next
  <2>2. ASSUME NEW u \in Users, UserCalls(u)
        PROVE  Goal
    <3>1. CASE OpenChannel(u)
      BY <2>1, <3>1, OpenChannelBegins
    <3>2. CASE Accept(u)
      BY <2>1, <3>2, AcceptQuiet
    <3>3. CASE GlobalRequest(u)
      BY <2>1, <3>3, GlobalQuiet
    <3>4. CASE CloseTransport(u)
      <4>1. Quiet \/ Ends(SideOf[u])
        BY <2>1, <3>4, CloseTransportEnds
      <4>2. SideOf[u] \in Sides
        BY SideFacts
      <4> QED
        BY <4>1, <4>2
    <3> QED
      BY <2>2, <3>1, <3>2, <3>3, <3>4 DEF UserCalls
  <2>3. ASSUME NEW u \in Users, UserRuns(u)
        PROVE  Goal
    <3>1. CASE OpenSend(u)
      BY <2>1, <3>1, OpenSendSends
    <3>2. CASE OpenReturns(u)
      BY <2>1, <3>2, OpenReturnsQuiet
    <3>3. CASE Collect(u)
      BY <2>1, <3>3, CollectCollects
    <3>4. CASE AcceptResumes(u)
      BY <2>1, <3>4, AcceptQuiet
    <3>5. CASE GlobalSend(u) \/ GlobalReturns(u) \/ SetTcpHandler(u)
      BY <2>1, <3>5, GlobalQuiet
    <3> QED
      BY <2>3, <3>1, <3>2, <3>3, <3>4, <3>5 DEF UserRuns
  <2>4. ASSUME NEW u \in Users, OpenTimesOut(u) \/ AcceptTimesOut(u) \/ CloseChannel(u)
        PROVE  Goal
    BY <2>1, <2>4, OpenReturnsQuiet, AcceptQuiet, CloseChannelCloses
  <2>5. ASSUME NEW s \in Sides, TransportRuns(s)
        PROVE  Goal
    <3>1. CASE ParseChannelOpen(s)
      BY <2>1, <3>1, ParseChannelOpenEffect
    <3>2. CASE ParseOpenSuccess(s)
      BY <2>1, <3>2, ParseOpenSuccessEffect
    <3>3. CASE ParseOpenFailure(s)
      BY <2>1, <3>3, ParseOpenFailureEffect
    <3>4. CASE HandleClose(s)
      BY <2>1, <3>4, HandleCloseShuts
    <3>5. CASE ParseGlobalRequest(s) \/ ParseRequestAnswer(s)
      BY <2>1, <3>5, AnswerQuiet
    <3>6. CASE EndOfStream(s)
      BY <2>1, <3>6, RunEndsEnds DEF EndOfStream
    <3> QED
      BY <2>5, <3>1, <3>2, <3>3, <3>4, <3>5, <3>6 DEF TransportRuns
  <2>6. ASSUME NEW s \in Sides, ParseNewKeys(s) \/ ConnectionLost(s)
        PROVE  Goal
    BY <2>1, <2>6, AnswerQuiet, RunEndsEnds DEF ConnectionLost
  <2> QED
    BY <1>2, <2>2, <2>3, <2>4, <2>5, <2>6 DEF Next
<1> QED
  BY <1>1, <1>2

-----------------------------------------------------------------------------
(* Messages on the wires                                                    *)

\* A wire that rests.
LEMMA RestFacts ==
    ASSUME NEW s \in Sides, Rests(s)
    PROVE  Out(s)' = Out(s)
  BY DEF Rests, Out

\* A message more.
LEMMA AddFacts ==
    ASSUME WireOK, NEW s \in Sides, NEW m \in Messages, Adds(s, m)
    PROVE  /\ Out(s)' = Out(s) \cup {m}
           /\ DOMAIN wire'[s] = 1..(Len(wire[s]) + 1) /\ DOMAIN wire[s] = 1..Len(wire[s])
           /\ Len(wire[s]) \in Nat /\ wire'[s][Len(wire[s]) + 1] = m
           /\ \A k \in DOMAIN wire[s] : wire'[s][k] = wire[s][k]
<1>1. wire[s] \in Seq(Messages)
  BY DEF WireOK
<1>2. PICK q \in Seq(Messages) : q = wire[s]
  BY <1>1
<1>3. /\ DOMAIN wire'[s] = 1..(Len(wire[s]) + 1) /\ DOMAIN wire[s] = 1..Len(wire[s])
      /\ Len(wire[s]) \in Nat /\ wire'[s][Len(wire[s]) + 1] = m
      /\ \A k \in DOMAIN wire[s] : wire'[s][k] = wire[s][k]
  <2>1. /\ DOMAIN Append(q, m) = 1..(Len(q) + 1) /\ DOMAIN q = 1..Len(q)
        /\ Len(q) \in Nat /\ Append(q, m)[Len(q) + 1] = m
        /\ \A k \in DOMAIN q : Append(q, m)[k] = q[k]
    OBVIOUS
  <2> QED
    BY <1>2, <2>1 DEF Adds
<1>4. Out(s)' = Out(s) \cup {m}
  <2>1. ASSUME NEW x \in Out(s)' PROVE x \in Out(s) \cup {m}
    <3>1. PICK k \in DOMAIN wire'[s] : x = wire'[s][k]
      BY <2>1 DEF Out
    <3>2. k \in DOMAIN wire[s] \/ k = Len(wire[s]) + 1
      BY <1>3, <3>1
    <3> QED
      BY <1>3, <3>1, <3>2 DEF Out
  <2>2. ASSUME NEW x \in Out(s) PROVE x \in Out(s)'
    <3>1. PICK k \in DOMAIN wire[s] : x = wire[s][k]
      BY <2>2 DEF Out
    <3>2. k \in DOMAIN wire'[s]
      BY <1>3, <3>1
    <3> QED
      BY <1>3, <3>1, <3>2 DEF Out
  <2>3. m \in Out(s)'
    <3>1. Len(wire[s]) + 1 \in DOMAIN wire'[s]
      BY <1>3
    <3> QED
      BY <1>3, <3>1 DEF Out
  <2> QED
    BY <2>1, <2>2, <2>3
<1> QED
  BY <1>3, <1>4

\* A message less.
LEMMA DropFacts ==
    ASSUME WireOK, NEW s \in Sides, Drops(s)
    PROVE  /\ Out(s)' \subseteq Out(s) /\ Out(s) \subseteq Out(s)' \cup {Head(wire[s])}
           /\ Head(wire[s]) \in Out(s)
           /\ DOMAIN wire[s] \subseteq Nat /\ 1 \in DOMAIN wire[s] /\ wire[s][1] = Head(wire[s])
           /\ \A k \in DOMAIN wire'[s] :
                k + 1 \in DOMAIN wire[s] /\ wire'[s][k] = wire[s][k + 1] /\ k \in Nat /\ k > 0
           /\ \A k \in DOMAIN wire[s] :
                k # 1 => k - 1 \in DOMAIN wire'[s] /\ wire'[s][k - 1] = wire[s][k]
<1>1. wire[s] \in Seq(Messages) /\ wire[s] # <<>>
  BY DEF WireOK, Drops
<1>2. PICK q \in Seq(Messages) : q = wire[s] /\ q # <<>>
  BY <1>1
<1>3. /\ DOMAIN q = 1..Len(q) /\ DOMAIN Tail(q) = 1..(Len(q) - 1) /\ Len(q) \in Nat /\ Len(q) > 0
      /\ q[1] = Head(q)
      /\ \A k \in 1..(Len(q) - 1) : Tail(q)[k] = q[k + 1]
  BY <1>2
<1>4. /\ DOMAIN wire[s] \subseteq Nat /\ 1 \in DOMAIN wire[s] /\ wire[s][1] = Head(wire[s])
      /\ \A k \in DOMAIN wire'[s] :
                k + 1 \in DOMAIN wire[s] /\ wire'[s][k] = wire[s][k + 1] /\ k \in Nat /\ k > 0
      /\ \A k \in DOMAIN wire[s] :
                k # 1 => k - 1 \in DOMAIN wire'[s] /\ wire'[s][k - 1] = wire[s][k]
  <2>1. wire'[s] = Tail(q) /\ wire[s] = q
    BY <1>2 DEF Drops
  <2>2. /\ DOMAIN q \subseteq Nat /\ 1 \in DOMAIN q /\ q[1] = Head(q)
        /\ \A k \in DOMAIN Tail(q) : k + 1 \in DOMAIN q /\ Tail(q)[k] = q[k + 1] /\ k \in Nat /\ k > 0
    BY <1>3
  <2>3. ASSUME NEW k \in DOMAIN q, k # 1
        PROVE  k - 1 \in DOMAIN Tail(q) /\ Tail(q)[k - 1] = q[k]
    <3>1. k - 1 \in 1..(Len(q) - 1) /\ (k - 1) + 1 = k
      BY <1>3, <2>3
    <3> QED
      BY <1>3, <3>1
  <2> QED
    BY <2>1, <2>2, <2>3
<1>5. Out(s)' \subseteq Out(s)
  BY <1>4 DEF Out
<1>6. ASSUME NEW x \in Out(s) PROVE x \in Out(s)' \cup {Head(wire[s])}
  <2>1. PICK k \in DOMAIN wire[s] : x = wire[s][k]
    BY <1>6 DEF Out
  <2>2. CASE k = 1
    BY <1>4, <2>1, <2>2
  <2>3. CASE k # 1
    BY <1>4, <2>1, <2>3 DEF Out
  <2> QED
    BY <2>2, <2>3
<1>7. Head(wire[s]) \in Out(s)
  BY <1>4 DEF Out
<1> QED
  BY <1>4, <1>5, <1>6, <1>7

\* On the wire of s nothing is new but a CLOSE for a Channel that s knows the peer's number
\* of, and messages about other things.
Modest(s) ==
    \/ Rests(s) \/ Drops(s)
    \/ \E m \in Messages :
          /\ Adds(s, m)
          /\ \/ m.type \in Plain
             \/ m.type = "close" /\ \E i \in Ids : Chan(s, i).active /\ Chan(s, i).remote = m.to

\* A step that takes no number, and opens no channel but one that is confirmed.
Tame ==
    /\ Onward
    /\ \A s \in Sides : sd'[s].seen = sd[s].seen /\ sd'[s].counter = sd[s].counter
    /\ \A s \in Sides : \A i \in Ids :
          /\ Chan(s, i)'.live => Chan(s, i).live
          /\ Chan(s, i)'.active =>
                /\ Chan(s, i).active => Chan(s, i)'.live \/ ~Chan(s, i).live
                /\ ~Chan(s, i).active => Chan(s, i)'.live
                /\ \/ Chan(s, i).active /\ Chan(s, i)'.remote = Chan(s, i).remote
                   \/ \E m \in Out(Peer(s)) :
                         m.type = "success" /\ m.to = i /\ m.from = Chan(s, i)'.remote
    /\ \A s \in Sides : Modest(s)

\* What is new on a modest wire.
LEMMA ModestFacts ==
    ASSUME WireOK, NEW s \in Sides, Modest(s)
    PROVE  \A m \in Out(s)' : m \in Out(s) \/ m.type \in Plain
                 \/ (m.type = "close" /\ \E i \in Ids : Chan(s, i).active /\ Chan(s, i).remote = m.to)
<1>1. CASE Rests(s)
  BY <1>1, RestFacts
<1>2. CASE Drops(s)
  BY <1>2, DropFacts
<1>3. CASE \E m \in Messages :
          /\ Adds(s, m)
          /\ \/ m.type \in Plain
             \/ m.type = "close" /\ \E i \in Ids : Chan(s, i).active /\ Chan(s, i).remote = m.to
  BY <1>3, AddFacts
<1> QED
  BY <1>1, <1>2, <1>3 DEF Modest

\* Numbers other than the entry that changes keep their place in the table.
LEMMA HeldTable ==
    ASSUME SdOK, NEW s \in Sides
    PROVE  /\ Held(s) => \A i \in Ids : Chan(s, i)' = Chan(s, i)
           /\ \A i \in Ids : \A c : HeldBut(s, i, c) =>
                 \A j \in Ids : Chan(s, j)' = IF j = i THEN c ELSE Chan(s, j)
<1>1. sd[s].channels \in [Ids -> Channels]
  BY DEF SdOK, SideStates
<1> QED
  BY <1>1 DEF Held, HeldBut, Chan

\* Quiet steps.
LEMMA QuietTame ==
    ASSUME SdOK, Quiet
    PROVE  Tame
<1>1. \A s \in Sides : \A i \in Ids : Chan(s, i)' = Chan(s, i)
  BY HeldTable DEF Quiet
<1>2. \A s \in Sides : Modest(s)
  BY DEF Quiet, Modest
<1> QED
  BY <1>1, <1>2 DEF Quiet, Held, Tame

\* A step that changes one entry of the table of s.
LEMMA EntryTame ==
    ASSUME SdOK, Onward, NEW s \in Sides, NEW i \in Ids, NEW c, HeldBut(s, i, c), Held(Peer(s)),
           Modest(s), Modest(Peer(s)),
           c.live => Chan(s, i).live,
           c.active => /\ c.live
                       /\ \/ Chan(s, i).active /\ c.remote = Chan(s, i).remote
                          \/ \E m \in Out(Peer(s)) : m.type = "success" /\ m.to = i /\ m.from = c.remote
    PROVE  Tame
<1>1. Peer(s) \in Sides /\ \A r \in Sides : r = s \/ r = Peer(s)
  BY PeerFacts, TwoSides
<1>2. \A r \in Sides : Modest(r)
  BY <1>1
<1>3. \A r \in Sides : sd'[r].seen = sd[r].seen /\ sd'[r].counter = sd[r].counter
  BY <1>1 DEF Held, HeldBut
<1>4. \A j \in Ids : Chan(s, j)' = IF j = i THEN c ELSE Chan(s, j)
  BY HeldTable
<1>5. \A j \in Ids : Chan(Peer(s), j)' = Chan(Peer(s), j)
  BY <1>1, HeldTable
<1>6. ASSUME NEW r \in Sides, NEW j \in Ids
      PROVE  /\ Chan(r, j)'.live => Chan(r, j).live
             /\ Chan(r, j)'.active =>
                /\ Chan(r, j).active => Chan(r, j)'.live \/ ~Chan(r, j).live
                /\ ~Chan(r, j).active => Chan(r, j)'.live
                /\ \/ Chan(r, j).active /\ Chan(r, j)'.remote = Chan(r, j).remote
                   \/ \E m \in Out(Peer(r)) :
                         m.type = "success" /\ m.to = j /\ m.from = Chan(r, j)'.remote
  <2>1. CASE r = s /\ j = i
    <3>1. Chan(r, j)' = c
      BY <1>4, <2>1
    <3> QED
      BY <2>1, <3>1
  <2>2. CASE ~(r = s /\ j = i)
    <3>1. Chan(r, j)' = Chan(r, j)
      BY <1>1, <1>4, <1>5, <2>2
    <3> QED
      BY <3>1
  <2> QED
    BY <2>1, <2>2
<1> QED
  BY <1>2, <1>3, <1>6 DEF Tame

\* What Told adds is modest.
LEMMA ToldModest ==
    ASSUME SdOK, NEW s \in Sides, NEW i \in Ids, Told(s, i)
    PROVE  Modest(s)
<1>1. PICK m \in Messages : m = Msg("close", Chan(s, i).remote, Unset, Nobody)
  BY CloseTypes
<1>2. m.type = "close" /\ m.to = Chan(s, i).remote
  BY <1>1 DEF Msg
<1> QED
  BY <1>1, <1>2 DEF Told, Modest

\* All the others that take no number.
LEMMA OthersTame ==
    ASSUME SdOK, ThOK, WireOK,
           \/ \E u \in Users : Collects(u) \/ Closes(u)
           \/ \E s \in Sides : Confirms(s) \/ Forgets(s) \/ Ignores(s) \/ Shuts(s) \/ Ends(s)
    PROVE  Tame
<1>1. ASSUME NEW u \in Users, Collects(u) PROVE Tame
  <2>1. SideOf[u] \in Sides /\ th[u].id \in Ids
    BY SideFacts, ThreadFacts
  <2>2. ~NoChannel.live /\ ~NoChannel.active
    BY DEF NoChannel
  <2> QED
    BY <1>1, <2>1, <2>2, EntryTame, ToldModest DEF Collects, Modest
<1>2. ASSUME NEW u \in Users, Closes(u) PROVE Tame
  <2>1. SideOf[u] \in Sides /\ th[u].id \in Ids
    BY SideFacts, ThreadFacts
  <2>2. PICK s \in Sides, i \in Ids : s = SideOf[u] /\ i = th[u].id
    BY <2>1
  <2>3. PICK c : c = [Chan(s, i) EXCEPT !.closed = TRUE]
    OBVIOUS
  <2>4. Chan(s, i) \in Channels
    BY ChannelFacts DEF Chan
  <2>5. c.live = Chan(s, i).live /\ c.active = Chan(s, i).active /\ c.remote = Chan(s, i).remote
    BY <2>3, <2>4 DEF Channels
  <2>6. /\ Onward /\ Chan(s, i).live /\ Chan(s, i).active /\ HeldBut(s, i, c) /\ Held(Peer(s))
        /\ Rests(Peer(s)) /\ Told(s, i)
    BY <1>2, <2>2, <2>3 DEF Closes
  <2> QED
    BY <2>5, <2>6, EntryTame, ToldModest DEF Modest
<1>3. ASSUME NEW s \in Sides, Confirms(s) PROVE Tame
  <2>1. Got(s).to \in Ids
    BY <1>3 DEF Confirms, Reads, Messages
  <2>2. PICK i \in Ids : i = Got(s).to
    BY <2>1
  <2>3. PICK c : c = Opened(Got(s).from)
    OBVIOUS
  <2>4. c.live /\ c.active /\ c.remote = Got(s).from
    BY <2>3 DEF Opened
  <2>5. /\ Reads(s, "success") /\ Rests(s) /\ Onward /\ Chan(s, i).live /\ HeldBut(s, i, c)
        /\ Held(Peer(s)) /\ Drops(Peer(s)) /\ Got(s).type = "success"
    BY <1>3, <2>2, <2>3 DEF Confirms, Reads
  <2>6. Got(s) \in Out(Peer(s))
    BY <2>5, DropFacts, PeerFacts DEF Got
  <2> QED
    BY <2>2, <2>4, <2>5, <2>6, EntryTame DEF Modest
<1>4. ASSUME NEW s \in Sides, Forgets(s) \/ Shuts(s) PROVE Tame
  <2>1. Got(s).to \in Ids
    BY <1>4 DEF Forgets, Shuts, Reads, Messages
  <2>2. ~NoChannel.live /\ ~NoChannel.active
    BY DEF NoChannel
  <2>3. PICK i \in Ids : i = Got(s).to
    BY <2>1
  <2>4. /\ Onward /\ HeldBut(s, i, NoChannel) /\ Held(Peer(s)) /\ Drops(Peer(s))
        /\ Rests(s) \/ Told(s, i)
    BY <1>4, <2>3 DEF Forgets, Shuts, Reads
  <2> QED
    BY <2>2, <2>4, EntryTame, ToldModest DEF Modest
<1>5. ASSUME NEW s \in Sides, Ignores(s) PROVE Tame
  <2>1. /\ Onward /\ Held(s) /\ Held(Peer(s)) /\ Rests(s) /\ Drops(Peer(s))
        /\ Peer(s) \in Sides /\ \A r \in Sides : r = s \/ r = Peer(s)
    BY <1>5, PeerFacts, TwoSides DEF Ignores, Reads
  <2>2. \A r \in Sides : Held(r) /\ Modest(r)
    BY <2>1 DEF Modest
  <2>3. \A r \in Sides : \A i \in Ids : Chan(r, i)' = Chan(r, i)
    BY <2>2, HeldTable
  <2> QED
    BY <2>1, <2>2, <2>3 DEF Tame, Held
<1>6. ASSUME NEW s \in Sides, Ends(s) PROVE Tame
  <2>1. /\ Onward /\ Held(Peer(s)) /\ Rests(s) /\ Rests(Peer(s))
        /\ Peer(s) \in Sides /\ \A r \in Sides : r = s \/ r = Peer(s)
    BY <1>6, PeerFacts, TwoSides DEF Ends
  <2>2. \A i \in Ids : ~Chan(s, i)'.live /\ ~Chan(s, i)'.active
    BY <1>6 DEF Ends, Chan, NoChannels, NoChannel
  <2>3. \A i \in Ids : Chan(Peer(s), i)' = Chan(Peer(s), i)
    BY <2>1, HeldTable
  <2>4. \A r \in Sides : \A i \in Ids : Chan(r, i)' = Chan(r, i) \/ (~Chan(r, i)'.live /\ ~Chan(r, i)'.active)
    BY <2>1, <2>2, <2>3
  <2>5. \A r \in Sides : sd'[r].seen = sd[r].seen /\ sd'[r].counter = sd[r].counter /\ Modest(r)
    BY <1>6, <2>1 DEF Ends, Held, Modest
  <2> QED
    BY <2>1, <2>4, <2>5 DEF Tame
<1> QED
  BY <1>1, <1>2, <1>3, <1>4, <1>5, <1>6

-----------------------------------------------------------------------------
(* Numbers are known                                                        *)

\* A tame step makes no link that was not there.
LEMMA TameLinks ==
    ASSUME WireOK, Tame, NEW s \in Sides, NEW i \in Ids, NEW j \in Ids
    PROVE  /\ Claims(s, i, j)' => Linked(s, i, j)
           /\ Linked(s, i, j)' => Linked(s, i, j)
<1>1. Peer(s) \in Sides /\ Peer(Peer(s)) = s
  BY PeerFacts, PeerPeer
<1>2. ASSUME NEW r \in Sides, NEW a \in Ids, NEW b \in Ids, Claims(r, a, b)'
      PROVE  Claims(r, a, b) \/ Claims(Peer(r), b, a)
  <2>1. CASE Chan(r, a)'.active /\ Chan(r, a)'.remote = b
    BY <2>1 DEF Tame, Claims
  <2>2. CASE \E m \in Out(r)' : m.type = "success" /\ m.from = a /\ m.to = b
    <3>1. PICK m \in Out(r)' : m.type = "success" /\ m.from = a /\ m.to = b
      BY <2>2
    <3>2. m \in Out(r)
      BY <3>1, ModestFacts DEF Tame, Plain
    <3> QED
      BY <3>1, <3>2 DEF Claims
  <2> QED
    BY <1>2, <2>1, <2>2 DEF Claims
<1>3. Claims(s, i, j)' => Linked(s, i, j)
  BY <1>2 DEF Linked
<1>4. Claims(Peer(s), j, i)' => Linked(s, i, j)
  <2>1. Claims(Peer(s), j, i)' => Claims(Peer(s), j, i) \/ Claims(Peer(Peer(s)), i, j)
    BY <1>1, <1>2
  <2> QED
    BY <1>1, <2>1 DEF Linked
<1>5. Linked(s, i, j)' => Claims(s, i, j)' \/ Claims(Peer(s), j, i)'
  BY DEF Linked
<1> QED
  BY <1>3, <1>4, <1>5

\* Both ends of a link are known.
LEMMA LinksKnown ==
    ASSUME ClaimsKnown, NEW s \in Sides, NEW i \in Ids, NEW j \in Ids, Linked(s, i, j)
    PROVE  i \in sd[s].seen /\ j \in sd[Peer(s)].seen
<1>1. Peer(s) \in Sides /\ Peer(Peer(s)) = s
  BY PeerFacts, PeerPeer
<1> QED
  BY <1>1 DEF ClaimsKnown, Linked

\* Tame steps use known numbers only.
LEMMA KnownTame ==
    ASSUME SdOK, ThOK, WireOK, Known, Tame
    PROVE  Known'
<1> USE DEF Known
<1>1. MessagesKnown'
  <2>1. ASSUME NEW s \in Sides, NEW m \in Out(s)' PROVE MessageKnown(s, m)'
    <3>1. CASE m \in Out(s)
      BY <3>1, PeerFacts DEF MessagesKnown, MessageKnown, Tame
    <3>2. CASE m.type \in Plain
      BY <3>2 DEF MessageKnown, Plain
    <3>3. CASE m.type = "close" /\ \E i \in Ids : Chan(s, i).active /\ Chan(s, i).remote = m.to
      <4>1. PICK i \in Ids : Chan(s, i).active /\ Chan(s, i).remote = m.to
        BY <3>3
      <4>2. Chan(s, i).remote \in Ids
        BY ChannelFacts DEF Chan
      <4>3. Claims(s, i, m.to) /\ m.to \in Ids
        BY <4>1, <4>2 DEF Claims
      <4>4. m.to \in sd[Peer(s)].seen
        BY <4>3 DEF ClaimsKnown
      <4> QED
        BY <3>3, <4>4, PeerFacts DEF MessageKnown, Tame
    <3> QED
      BY <2>1, <3>1, <3>2, <3>3, ModestFacts DEF Tame
  <2> QED
    BY <2>1 DEF MessagesKnown
<1>2. ClaimsKnown'
  <2>1. ASSUME NEW s \in Sides, NEW i \in Ids, NEW j \in Ids, Claims(s, i, j)'
        PROVE  i \in sd'[s].seen /\ j \in sd'[Peer(s)].seen
    <3>1. Linked(s, i, j)
      BY <2>1, TameLinks
    <3>2. i \in sd[s].seen /\ j \in sd[Peer(s)].seen
      BY <3>1, LinksKnown
    <3> QED
      BY <3>2, PeerFacts DEF Tame
  <2> QED
    BY <2>1 DEF ClaimsKnown
<1>3. OpenersKnown'
  <2>1. \A u \in Users : SideOf[u] \in Sides
    BY SideFacts
  <2> QED
    BY <2>1 DEF OpenersKnown, Tame, Onward
<1> QED
  BY <1>1, <1>2, <1>3

\* A step that takes number i at side s, or none: what was known stays known.
LEMMA KnownGrows ==
    ASSUME SdOK, ThOK, WireOK, Known,
           \A s \in Sides : sd[s].seen \subseteq sd'[s].seen,
           \A s \in Sides : \A m \in Out(s)' : m \in Out(s) \/ MessageKnown(s, m)',
           \A s \in Sides : \A i \in Ids : Chan(s, i)'.active =>
                \/ Chan(s, i).active /\ Chan(s, i)'.remote = Chan(s, i).remote
                \/ i \in sd'[s].seen /\ Chan(s, i)'.remote \in sd'[Peer(s)].seen,
           \A u \in Users : th'[u].pc = "opensend" =>
                \/ th[u].pc = "opensend" /\ th'[u].id = th[u].id
                \/ th'[u].id \in sd'[SideOf[u]].seen
    PROVE  Known'
<1> USE DEF Known
<1>1. \A s \in Sides : Peer(s) \in Sides
  BY PeerFacts
<1>2. \A s \in Sides : \A m \in Out(s)' : MessageKnown(s, m)'
  <2>1. ASSUME NEW s \in Sides, NEW m \in Out(s) PROVE MessageKnown(s, m)'
    <3>1. MessageKnown(s, m)
      BY DEF MessagesKnown
    <3>2. sd[s].seen \subseteq sd'[s].seen /\ sd[Peer(s)].seen \subseteq sd'[Peer(s)].seen
      BY <1>1
    <3> QED
      BY <3>1, <3>2 DEF MessageKnown
  <2> QED
    BY <2>1
<1>3. MessagesKnown'
  BY <1>2 DEF MessagesKnown
<1>4. ClaimsKnown'
  <2>1. ASSUME NEW s \in Sides, NEW i \in Ids, NEW j \in Ids, Claims(s, i, j)'
        PROVE  i \in sd'[s].seen /\ j \in sd'[Peer(s)].seen
    <3>1. CASE Chan(s, i)'.active /\ Chan(s, i)'.remote = j
      <4>1. CASE Chan(s, i).active /\ Chan(s, i).remote = j
        <5>1. i \in sd[s].seen /\ j \in sd[Peer(s)].seen
          BY <4>1 DEF ClaimsKnown, Claims
        <5> QED
          BY <1>1, <5>1
      <4> QED
        BY <3>1, <4>1
    <3>2. CASE \E m \in Out(s)' : m.type = "success" /\ m.from = i /\ m.to = j
      BY <1>2, <3>2 DEF MessageKnown
    <3> QED
      BY <2>1, <3>1, <3>2 DEF Claims
  <2> QED
    BY <2>1 DEF ClaimsKnown
<1>5. OpenersKnown'
  <2>1. \A u \in Users : SideOf[u] \in Sides
    BY SideFacts
  <2> QED
    BY <2>1 DEF OpenersKnown
<1> QED
  BY <1>3, <1>4, <1>5

\* open_channel.
LEMMA KnownBegins ==
    ASSUME SdOK, ThOK, WireOK, Known, NEW u \in Users, NEW i \in Ids, Begins(u, i)
    PROVE  Known'
<1>1. PICK s \in Sides : s = SideOf[u]
  BY SideFacts
<1>2. Peer(s) \in Sides /\ Peer(s) # s /\ \A r \in Sides : r = s \/ r = Peer(s)
  BY PeerFacts, TwoSides
<1>3. /\ sd'[s].channels = [sd[s].channels EXCEPT ![i] = Opening]
      /\ sd'[s].seen = sd[s].seen \cup {i} /\ Held(Peer(s)) /\ Rests(s) /\ Rests(Peer(s))
      /\ th'[u].pc = "opensend" /\ th'[u].id = i
      /\ \A v \in Users : v # u => th'[v] = th[v]
  BY <1>1 DEF Begins
<1>4. \A r \in Sides : sd[r].seen \subseteq sd'[r].seen
  BY <1>2, <1>3 DEF Held
<1>5. \A r \in Sides : Out(r)' = Out(r)
  BY <1>2, <1>3, RestFacts
<1>6. \A r \in Sides : \A j \in Ids : Chan(r, j)' = Chan(r, j) \/ ~Chan(r, j)'.active
  <2>1. \A j \in Ids : Chan(s, j)' = Chan(s, j) \/ ~Chan(s, j)'.active
    <3>1. sd[s].channels \in [Ids -> Channels]
      BY DEF SdOK, SideStates
    <3> QED
      BY <1>3, <3>1 DEF Chan, Opening
  <2>2. \A j \in Ids : Chan(Peer(s), j)' = Chan(Peer(s), j)
    BY <1>2, <1>3, HeldTable
  <2> QED
    BY <1>2, <2>1, <2>2
<1>7. \A v \in Users : th'[v].pc = "opensend" =>
                \/ th[v].pc = "opensend" /\ th'[v].id = th[v].id
                \/ th'[v].id \in sd'[SideOf[v]].seen
  BY <1>1, <1>3
<1> QED
  BY <1>4, <1>5, <1>6, <1>7, KnownGrows

\* Its CHANNEL_OPEN.
LEMMA KnownSends ==
    ASSUME SdOK, ThOK, WireOK, Known, NEW u \in Users, Sends(u)
    PROVE  Known'
<1>1. PICK s \in Sides : s = SideOf[u]
  BY SideFacts
<1>2. Peer(s) \in Sides /\ Peer(s) # s /\ \A r \in Sides : r = s \/ r = Peer(s)
  BY PeerFacts, TwoSides
<1>3. PICK m : m = Msg("open", Unset, th[u].id, u)
  OBVIOUS
<1>4. m \in Messages /\ m.type = "open" /\ m.from = th[u].id
  <2>1. m \in Messages
    BY <1>3, ThreadFacts, ChannelTypes, MsgTypes
  <2> QED
    BY <1>3, <2>1 DEF Msg
<1>5. /\ th[u].pc = "opensend" /\ (\A r \in Sides : Held(r)) /\ Rests(Peer(s))
      /\ Adds(s, m) \/ Rests(s)
      /\ th'[u].pc = "openwait" /\ \A v \in Users : v # u => th'[v] = th[v]
  BY <1>1, <1>3 DEF Sends
<1>6. \A r \in Sides : sd'[r].seen = sd[r].seen
  BY <1>5 DEF Held
<1>7. \A r \in Sides : \A x \in Out(r)' : x \in Out(r) \/ (r = s /\ x = m)
  BY <1>2, <1>4, <1>5, AddFacts, RestFacts
<1>8. MessageKnown(s, m)'
  <2>1. th[u].id \in sd[s].seen
    BY <1>1, <1>5 DEF Known, OpenersKnown
  <2>2. m.from \in sd'[s].seen
    BY <1>4, <1>6, <2>1
  <2> QED
    BY <1>4, <2>2 DEF MessageKnown
<1>9. \A r \in Sides : \A j \in Ids : Chan(r, j)' = Chan(r, j)
  BY <1>5, HeldTable
<1>10. \A v \in Users : th'[v].pc = "opensend" => th[v].pc = "opensend" /\ th'[v].id = th[v].id
  BY <1>5
<1> QED
  BY <1>6, <1>7, <1>8, <1>9, <1>10, KnownGrows

\* The number in the CHANNEL_OPEN that s reads.
LEMMA ReadKnown ==
    ASSUME WireOK, Known, NEW s \in Sides, Reads(s, "open")
    PROVE  /\ Got(s).from \in sd[Peer(s)].seen /\ Got(s).from \in Ids
           /\ Got(s) \in Out(Peer(s)) /\ Out(Peer(s))' \subseteq Out(Peer(s))
<1>1. Peer(s) \in Sides /\ Drops(Peer(s)) /\ Got(s) = Head(wire[Peer(s)])
  BY PeerFacts DEF Reads, Got
<1>2. Got(s) \in Out(Peer(s)) /\ Out(Peer(s))' \subseteq Out(Peer(s))
  BY <1>1, DropFacts
<1>3. Got(s).type = "open" /\ Got(s).from \in Ids
  BY DEF Reads, Messages
<1> QED
  BY <1>1, <1>2, <1>3 DEF Known, MessagesKnown, MessageKnown

\* A refusal.
LEMMA KnownRefuses ==
    ASSUME SdOK, ThOK, WireOK, Known, NEW s \in Sides, Refuses(s)
    PROVE  Known'
<1>1. Peer(s) \in Sides /\ Peer(s) # s /\ \A r \in Sides : r = s \/ r = Peer(s)
  BY PeerFacts, TwoSides
<1>2. PICK m : m = Msg("failure", Got(s).from, Unset, Nobody)
  OBVIOUS
<1>3. /\ Reads(s, "open") /\ Adds(s, m) /\ Onward /\ Held(Peer(s))
      /\ sd'[s].channels = sd[s].channels /\ sd'[s].seen = sd[s].seen
  BY <1>2 DEF Refuses
<1>4. /\ Got(s).from \in sd[Peer(s)].seen /\ Got(s).from \in Ids
      /\ Out(Peer(s))' \subseteq Out(Peer(s))
  BY <1>3, ReadKnown
<1>5. m \in Messages /\ m.type = "failure" /\ m.to = Got(s).from
  <2>1. m \in Messages
    BY <1>2, <1>4, ChannelTypes, MsgTypes
  <2> QED
    BY <1>2, <2>1 DEF Msg
<1>6. \A r \in Sides : sd'[r].seen = sd[r].seen
  BY <1>1, <1>3 DEF Held
<1>7. \A r \in Sides : \A x \in Out(r)' : x \in Out(r) \/ (r = s /\ x = m)
  BY <1>1, <1>3, <1>4, <1>5, AddFacts
<1>8. MessageKnown(s, m)'
  <2>1. m.to \in sd'[Peer(s)].seen
    BY <1>1, <1>4, <1>5, <1>6
  <2> QED
    BY <1>5, <2>1 DEF MessageKnown
<1>9. \A r \in Sides : \A j \in Ids : Chan(r, j)' = Chan(r, j)
  BY <1>1, <1>3 DEF Held, Chan
<1>10. \A v \in Users : th'[v].pc = "opensend" => th[v].pc = "opensend" /\ th'[v].id = th[v].id
  BY <1>3 DEF Onward
<1> QED
  BY <1>6, <1>7, <1>8, <1>9, <1>10, KnownGrows

\* A channel is taken.
LEMMA KnownAdmits ==
    ASSUME SdOK, ThOK, WireOK, Known, NEW s \in Sides, NEW i \in Ids, Admits(s, i)
    PROVE  Known'
<1>1. Peer(s) \in Sides /\ Peer(s) # s /\ \A r \in Sides : r = s \/ r = Peer(s)
  BY PeerFacts, TwoSides
<1>2. PICK m : m = Msg("success", Got(s).from, i, Nobody)
  OBVIOUS
<1>3. /\ Reads(s, "open") /\ Adds(s, m) /\ Onward /\ Held(Peer(s))
      /\ sd'[s].channels = [sd[s].channels EXCEPT ![i] = Opened(Got(s).from)]
      /\ sd'[s].seen = sd[s].seen \cup {i}
  BY <1>2 DEF Admits
<1>4. /\ Got(s).from \in sd[Peer(s)].seen /\ Got(s).from \in Ids
      /\ Out(Peer(s))' \subseteq Out(Peer(s))
  BY <1>3, ReadKnown
<1>5. m \in Messages /\ m.type = "success" /\ m.to = Got(s).from /\ m.from = i
  <2>1. m \in Messages
    BY <1>2, <1>4, MsgTypes
  <2> QED
    BY <1>2, <2>1 DEF Msg
<1>6. \A r \in Sides : sd[r].seen \subseteq sd'[r].seen
  BY <1>1, <1>3 DEF Held
<1>7. \A r \in Sides : \A x \in Out(r)' : x \in Out(r) \/ (r = s /\ x = m)
  BY <1>1, <1>3, <1>4, <1>5, AddFacts
<1>8. i \in sd'[s].seen /\ Got(s).from \in sd'[Peer(s)].seen
  BY <1>1, <1>3, <1>4, <1>6
<1>9. MessageKnown(s, m)'
  BY <1>5, <1>8 DEF MessageKnown
<1>10. \A r \in Sides : \A j \in Ids : Chan(r, j)'.active =>
                \/ Chan(r, j).active /\ Chan(r, j)'.remote = Chan(r, j).remote
                \/ j \in sd'[r].seen /\ Chan(r, j)'.remote \in sd'[Peer(r)].seen
  <2>1. sd[s].channels \in [Ids -> Channels]
    BY DEF SdOK, SideStates
  <2>2. \A j \in Ids : IF j = i THEN Chan(s, j)'.remote = Got(s).from ELSE Chan(s, j)' = Chan(s, j)
    BY <1>3, <2>1 DEF Chan, Opened
  <2>3. \A j \in Ids : Chan(Peer(s), j)' = Chan(Peer(s), j)
    BY <1>1, <1>3, HeldTable
  <2> QED
    BY <1>1, <1>8, <2>2, <2>3
<1>11. \A v \in Users : th'[v].pc = "opensend" => th[v].pc = "opensend" /\ th'[v].id = th[v].id
  BY <1>3 DEF Onward
<1> QED
  BY <1>6, <1>7, <1>9, <1>10, <1>11, KnownGrows

\* Every step keeps numbers known.
LEMMA KnownNext ==
    ASSUME TypeOK, Known, [Next]_vars
    PROVE  Known'
<1>1. SdOK /\ ThOK /\ WireOK
  BY DEF TypeOK, SdOK, ThOK, WireOK
<1> HIDE DEF Known
<1>2. CASE Quiet
  BY <1>1, <1>2, QuietTame, KnownTame
<1>3. CASE \/ \E u \in Users : Collects(u) \/ Closes(u)
           \/ \E s \in Sides : Confirms(s) \/ Forgets(s) \/ Ignores(s) \/ Shuts(s) \/ Ends(s)
  BY <1>1, <1>3, OthersTame, KnownTame
<1>4. CASE \E u \in Users : Sends(u) \/ \E i \in Ids : Begins(u, i)
  BY <1>1, <1>4, KnownBegins, KnownSends
<1>5. CASE \E s \in Sides : Refuses(s) \/ \E i \in Ids : Admits(s, i)
  BY <1>1, <1>5, KnownRefuses, KnownAdmits
<1> QED
  BY <1>1, <1>2, <1>3, <1>4, <1>5, StepKinds

\* No number is known at first, and none is used.
LEMMA KnownInit == Init => Known
<1> SUFFICES ASSUME Init PROVE Known
  OBVIOUS
<1>1. \A s \in Sides : Out(s) = {}
  BY DEF Init, Out
<1>2. \A s \in Sides : \A i \in Ids : ~Chan(s, i).active
  BY DEF Init, Chan, NoChannel
<1>3. \A u \in Users : th[u].pc # "opensend"
  BY DEF Init
<1> QED
  BY <1>1, <1>2, <1>3 DEF Known, MessagesKnown, ClaimsKnown, OpenersKnown, Claims

\* run never meets a number it has not used, whichever channels are refused, given up,
\* collected or closed from both ends, and even if numbers are used again: what a peer
\* writes in a CHANNEL_OPEN_CONFIRMATION, CHANNEL_OPEN_FAILURE or CHANNEL_CLOSE is
\* in channels_seen.
THEOREM SessionNumbersKnown == Spec => []NumbersKnown
<1>1. TypeOK /\ Known => NumbersKnown
  <2> SUFFICES ASSUME Known PROVE NumbersKnown
    OBVIOUS
  <2>1. ASSUME NEW s \in Sides, NEW k \in DOMAIN wire[Peer(s)],
               wire[Peer(s)][k].type \in {"success", "failure", "close"}
        PROVE  wire[Peer(s)][k].to \in sd[s].seen
    <3>1. Peer(s) \in Sides /\ Peer(Peer(s)) = s /\ wire[Peer(s)][k] \in Out(Peer(s))
      BY PeerFacts, PeerPeer DEF Out
    <3>2. MessageKnown(Peer(s), wire[Peer(s)][k])
      BY <3>1 DEF Known, MessagesKnown
    <3> QED
      BY <2>1, <3>1, <3>2 DEF MessageKnown
  <2> QED
    BY <2>1 DEF NumbersKnown
<1>2. TypeOK /\ Known /\ [Next]_vars => Known'
  BY KnownNext
<1> QED
  BY <1>1, <1>2, KnownInit, SessionTypes, PTL DEF Spec

-----------------------------------------------------------------------------
(* Numbers are given once                                                   *)

\* Remainders of small numbers.
LEMMA Remainders ==
    ASSUME NEW N \in Nat \ {0}, NEW a \in 0..(N - 1), NEW b \in 0..(N - 1)
    PROVE  /\ (a - a) % N = 0
           /\ (a - b) % N <= 0 => a = b
           /\ a + 1 < N => (a + 1) % N = a + 1
<1>1. (a - a) % N = 0
  OBVIOUS
<1>2. a + 1 < N => (a + 1) % N = a + 1
  OBVIOUS
<1>3. (a - b) % N <= 0 => a = b
  OBVIOUS
<1> QED
  BY <1>1, <1>2, <1>3

\* The openers are finitely many, and those that have cost a number are among them.
LEMMA SpentFacts ==
    ASSUME TypeOK, NEW s \in Sides
    PROVE  /\ IsFiniteSet(Openers) /\ Cardinality(Openers) <= IdSpace
           /\ IsFiniteSet(Spent(s)) /\ Spent(s) \subseteq Openers
           /\ Cardinality(Spent(s)) \in Nat /\ Cardinality(Openers) \in Nat
<1>1. Openers \subseteq Users /\ Spent(s) \subseteq Openers
  BY DEF Openers, Spent
<1>2. IsFiniteSet(Openers) /\ IsFiniteSet(Spent(s))
  BY <1>1, SessionAssumption, FS_Subset
<1>3. Cardinality(Openers) <= IdSpace
  BY NumbersAssumption DEF Openers, TypeOK
<1> QED
  BY <1>1, <1>2, <1>3, FS_CardinalityType

\* As long as an opener has not cost s a number, the next number of s is new.
LEMMA FreshNumber ==
    ASSUME TypeOK, Numbered, TableKnown, NEW s \in Sides, NEW u \in Openers, u \notin Spent(s),
           NEW i \in NextChannel(sd[s])
    PROVE  /\ i = sd[s].counter /\ i \notin sd[s].seen
           /\ Cardinality(Spent(s)) < IdSpace
<1>1. Cardinality(Spent(s)) < IdSpace
  <2>1. Cardinality(Spent(s)) < Cardinality(Openers)
    BY SpentFacts, FS_Subset
  <2> QED
    BY <2>1, SpentFacts, SessionAssumption
<1>2. sd[s] \in SideStates
  BY DEF TypeOK
<1>3. /\ sd[s].counter \in Ids /\ \A j \in sd[s].seen : j < sd[s].counter
      /\ sd[s].seen \subseteq Ids
  BY <1>1, <1>2 DEF Numbered, SideStates
<1>4. sd[s].counter \notin sd[s].seen
  BY <1>3 DEF Ids
<1>5. sd[s].counter \in FreeIds(sd[s])
  BY <1>3, <1>4 DEF TableKnown, FreeIds, Chan
<1>6. i \in Ids /\ (i - sd[s].counter) % IdSpace <= (sd[s].counter - sd[s].counter) % IdSpace
  BY <1>5 DEF NextChannel, FreeIds, Distance
<1>7. i = sd[s].counter
  BY <1>3, <1>6, Remainders, SessionAssumption DEF Ids
<1> QED
  BY <1>1, <1>4, <1>7

\* Numbers stay in order when none is taken, or the next one by a new opener.
LEMMA NumberedKept ==
    ASSUME TypeOK, TypeOK', Numbered,
           \A s \in Sides :
              /\ Spent(s) \subseteq Spent(s)'
              /\ \/ sd'[s].counter = sd[s].counter /\ sd'[s].seen = sd[s].seen
                 \/ /\ sd'[s].counter = (sd[s].counter + 1) % IdSpace
                    /\ sd'[s].seen \subseteq sd[s].seen \cup {sd[s].counter}
                    /\ Spent(s)' # Spent(s)
    PROVE  Numbered'
<1> SUFFICES ASSUME NEW s \in Sides, Cardinality(Spent(s)') < IdSpace
             PROVE  /\ sd'[s].counter <= Cardinality(Spent(s)')
                    /\ \A i \in sd'[s].seen : i < sd'[s].counter
  BY DEF Numbered
<1>1. /\ IsFiniteSet(Spent(s)) /\ Cardinality(Spent(s)) \in Nat
      /\ IsFiniteSet(Spent(s)') /\ Cardinality(Spent(s)') \in Nat
  <2>1. IsFiniteSet(Spent(s)) /\ Cardinality(Spent(s)) \in Nat
    BY SpentFacts
  <2>2. IsFiniteSet(Spent(s)')
    <3>1. Spent(s)' \subseteq Users
      BY DEF Spent, Openers
    <3> QED
      BY <3>1, SessionAssumption, FS_Subset
  <2> QED
    BY <2>1, <2>2, FS_CardinalityType
<1>2. PICK a, b : a = Spent(s) /\ b = Spent(s)'
  OBVIOUS
<1>3. Cardinality(a) <= Cardinality(b) /\ (a # b => Cardinality(a) < Cardinality(b))
  BY <1>1, <1>2, FS_Subset
<1>4. /\ sd[s].counter \in Ids /\ sd[s].seen \subseteq Ids /\ IdSpace \in Nat \ {0}
      /\ sd[s].counter <= Cardinality(a) /\ \A i \in sd[s].seen : i < sd[s].counter
  <2>1. sd[s] \in SideStates /\ IdSpace \in Nat \ {0}
    BY SessionAssumption DEF TypeOK
  <2>2. Cardinality(Spent(s)) < IdSpace
    BY <1>1, <1>2, <1>3, <2>1
  <2> QED
    BY <1>2, <2>1, <2>2 DEF Numbered, SideStates
<1>5. CASE sd'[s].counter = sd[s].counter /\ sd'[s].seen = sd[s].seen
  BY <1>1, <1>2, <1>3, <1>4, <1>5 DEF Ids
<1>6. CASE /\ sd'[s].counter = (sd[s].counter + 1) % IdSpace
           /\ sd'[s].seen \subseteq sd[s].seen \cup {sd[s].counter}
           /\ Spent(s)' # Spent(s)
  <2>1. sd[s].counter + 1 <= Cardinality(b) /\ sd[s].counter + 1 < IdSpace
    BY <1>1, <1>2, <1>3, <1>4, <1>6 DEF Ids
  <2>2. sd'[s].counter = sd[s].counter + 1
    BY <1>4, <1>6, <2>1, Remainders DEF Ids
  <2> QED
    BY <1>2, <1>4, <1>6, <2>1, <2>2 DEF Ids
<1> QED
  BY <1>5, <1>6

\* What was pending is where it was.
LEMMA PendingFacts ==
    ASSUME ThOK, Asks, NEW u \in Users, Pending(u)
    PROVE  /\ th[u].pc \in Late \cup {"opensend"} /\ th[u].id \in Ids
           /\ SideOf[u] \in Sides /\ (OpenersAsk => u \in Openers)
<1>1. SideOf[u] \in Sides /\ th[u].id \in Ids
  BY SessionAssumption, ThreadFacts
<1>2. CASE th[u].pc = "opensend"
  BY <1>1, <1>2 DEF OpenersAsk
<1>3. CASE \E m \in Out(SideOf[u]) : m.type = "open" /\ m.user = u
  BY <1>1, <1>3 DEF Asks
<1> QED
  BY <1>2, <1>3 DEF Pending

\* Steps that start and send no CHANNEL_OPEN.
LEMMA OnwardPending ==
    ASSUME ThOK, Asks, Onward,
           \A s \in Sides : \A m \in Out(s)' : m.type = "open" => m \in Out(s)
    PROVE  /\ \A u \in Users : Pending(u)' => Pending(u) /\ th'[u].id = th[u].id
           /\ \A s \in Sides : Spent(s) \subseteq Spent(s)'
           /\ Asks' /\ (OpenersAsk => OpenersAsk') /\ (Apart => Apart')
<1>1. \A u \in Users : SideOf[u] \in Sides
  BY SessionAssumption
<1>2. ASSUME NEW u \in Users, Pending(u)' PROVE Pending(u) /\ th'[u].id = th[u].id
  <2>1. Pending(u)
    BY <1>1, <1>2 DEF Pending, Onward
  <2>2. th[u].pc \in Late \cup {"opensend"}
    BY <2>1, PendingFacts
  <2> QED
    BY <2>1, <2>2 DEF Onward
<1>3. Openers' = Openers
  BY DEF Openers, Onward
<1>4. ASSUME NEW s \in Sides, NEW u \in Spent(s) PROVE u \in Spent(s)'
  <2>1. u \in Openers /\ u \in Users /\ th[u].pc # "idle" /\ (SideOf[u] = s \/ ~Pending(u))
    BY DEF Spent, Openers
  <2>2. th'[u].pc # "idle" /\ (SideOf[u] = s \/ ~Pending(u)')
    BY <1>2, <2>1 DEF Onward
  <2> QED
    BY <1>3, <2>1, <2>2 DEF Spent
<1>5. Asks'
  <2>1. ASSUME NEW s \in Sides, NEW m \in Out(s)', m.type = "open"
        PROVE  /\ m.user \in Openers' /\ SideOf[m.user] = s
               /\ th'[m.user].pc \in Late /\ m.from = th'[m.user].id
    <3>1. /\ m.user \in Openers /\ SideOf[m.user] = s
          /\ th[m.user].pc \in Late /\ m.from = th[m.user].id
      BY <2>1 DEF Asks
    <3>2. m.user \in Users
      BY <3>1 DEF Openers
    <3> QED
      BY <1>3, <3>1, <3>2 DEF Onward
  <2> QED
    BY <2>1 DEF Asks
<1>6. OpenersAsk => OpenersAsk'
  BY <1>3 DEF OpenersAsk, Onward
<1>7. Apart => Apart'
  BY <1>2 DEF Apart
<1> QED
  BY <1>2, <1>4, <1>5, <1>6, <1>7

\* A wire to which no CHANNEL_OPEN is added.
LEMMA AskedOnceKept ==
    ASSUME WireOK, AskedOnce, NEW s \in Sides,
           Rests(s) \/ Drops(s) \/ \E m \in Messages : Adds(s, m) /\ m.type # "open"
    PROVE  \A k, l \in DOMAIN wire'[s] :
                /\ wire'[s][k].type = "open" /\ wire'[s][l].type = "open"
                /\ wire'[s][k].user = wire'[s][l].user
                => k = l
<1>1. CASE Rests(s)
  BY <1>1 DEF Rests, AskedOnce
<1>2. CASE Drops(s)
  <2>1. ASSUME NEW k \in DOMAIN wire'[s], NEW l \in DOMAIN wire'[s],
               wire'[s][k].type = "open", wire'[s][l].type = "open",
             wire'[s][k].user = wire'[s][l].user
        PROVE  k = l
    <3>1. /\ k + 1 \in DOMAIN wire[s] /\ l + 1 \in DOMAIN wire[s] /\ k \in Nat /\ l \in Nat
          /\ wire'[s][k] = wire[s][k + 1] /\ wire'[s][l] = wire[s][l + 1]
      BY <1>2, DropFacts
    <3>2. k + 1 = l + 1
      BY <2>1, <3>1 DEF AskedOnce
    <3> QED
      BY <3>1, <3>2
  <2> QED
    BY <2>1
<1>3. ASSUME NEW m \in Messages, Adds(s, m), m.type # "open",
             NEW k \in DOMAIN wire'[s], NEW l \in DOMAIN wire'[s],
             wire'[s][k].type = "open", wire'[s][l].type = "open",
             wire'[s][k].user = wire'[s][l].user
      PROVE  k = l
  <2>1. /\ DOMAIN wire'[s] = 1..(Len(wire[s]) + 1) /\ DOMAIN wire[s] = 1..Len(wire[s])
        /\ Len(wire[s]) \in Nat /\ wire'[s][Len(wire[s]) + 1] = m
        /\ \A n \in DOMAIN wire[s] : wire'[s][n] = wire[s][n]
    BY <1>3, AddFacts
  <2>2. k # Len(wire[s]) + 1 /\ l # Len(wire[s]) + 1
    BY <1>3, <2>1
  <2>3. k \in DOMAIN wire[s] /\ l \in DOMAIN wire[s]
    BY <1>3, <2>1, <2>2
  <2> QED
    BY <1>3, <2>1, <2>3 DEF AskedOnce
<1> QED
  BY <1>1, <1>2, <1>3

\* Tame steps keep the pairing.
LEMMA PairingTame ==
    ASSUME TypeOK, TypeOK', Pairing, Tame
    PROVE  Pairing'
<1> USE DEF Pairing
<1>1. SdOK /\ ThOK /\ WireOK /\ Onward
  BY DEF TypeOK, SdOK, ThOK, WireOK, Tame
<1>2. \A s \in Sides : Modest(s)
  BY DEF Tame
<1>3. \A s \in Sides : \A m \in Out(s)' : m.type = "open" => m \in Out(s)
  BY <1>1, <1>2, ModestFacts DEF Plain
<1>4. /\ \A u \in Users : Pending(u)' => Pending(u) /\ th'[u].id = th[u].id
      /\ \A s \in Sides : Spent(s) \subseteq Spent(s)'
      /\ Asks' /\ OpenersAsk' /\ Apart'
  BY <1>1, <1>3, OnwardPending
<1>5. Numbered'
  <2>1. \A s \in Sides : sd'[s].counter = sd[s].counter /\ sd'[s].seen = sd[s].seen
    BY DEF Tame
  <2> QED
    BY <1>4, <2>1, NumberedKept
<1>6. TableKnown'
  BY DEF TableKnown, Tame
<1>7. AskedOnce'
  <2>1. \A s \in Sides : Rests(s) \/ Drops(s) \/ \E m \in Messages : Adds(s, m) /\ m.type # "open"
    BY <1>2 DEF Modest, Plain
  <2> QED
    BY <1>1, <2>1, AskedOnceKept DEF AskedOnce
<1>8. Unanswered'
  <2>1. ASSUME NEW u \in Users, NEW i \in Ids, NEW j \in Ids, Pending(u)', th'[u].id = i,
               Linked(SideOf[u], i, j)'
        PROVE  FALSE
    <3>1. Pending(u) /\ th[u].id = i
      BY <1>4, <2>1
    <3>2. SideOf[u] \in Sides
      BY <1>1, <3>1, PendingFacts
    <3>3. Linked(SideOf[u], i, j)
      BY <1>1, <2>1, <3>2, TameLinks
    <3> QED
      BY <3>1, <3>3 DEF Unanswered
  <2> QED
    BY <2>1 DEF Unanswered
<1>9. OneOne'
  <2>1. ASSUME NEW s \in Sides, NEW i \in Ids, NEW j \in Ids, NEW k \in Ids,
               Linked(s, i, j)', Linked(s, i, k)'
        PROVE  j = k
    BY <1>1, <2>1, TameLinks DEF OneOne
  <2> QED
    BY <2>1 DEF OneOne
<1> QED
  BY <1>4, <1>5, <1>6, <1>7, <1>8, <1>9

-----------------------------------------------------------------------------
(* Numbers are paired                                                       *)

\* Claims that only become fewer.
LEMMA LinksShrink ==
    ASSUME \A s \in Sides : \A i, j \in Ids : Claims(s, i, j)' => Claims(s, i, j)
    PROVE  \A s \in Sides : \A i, j \in Ids : Linked(s, i, j)' => Linked(s, i, j)
<1>1. \A s \in Sides : \A i, j \in Ids : Linked(s, i, j)' => Claims(s, i, j)' \/ Claims(Peer(s), j, i)'
  BY DEF Linked
<1>2. \A s \in Sides : Peer(s) \in Sides
  BY PeerFacts
<1> QED
  BY <1>1, <1>2 DEF Linked

\* The number of a pending opener is known.
LEMMA PendingKnown ==
    ASSUME ThOK, Known, Asks, NEW u \in Users, Pending(u)
    PROVE  th[u].id \in sd[SideOf[u]].seen
<1>1. SideOf[u] \in Sides
  BY SessionAssumption
<1>2. CASE th[u].pc = "opensend"
  BY <1>2 DEF Known, OpenersKnown
<1>3. CASE \E m \in Out(SideOf[u]) : m.type = "open" /\ m.user = u
  <2>1. PICK m \in Out(SideOf[u]) : m.type = "open" /\ m.user = u
    BY <1>3
  <2>2. m.from = th[u].id
    BY <1>1, <2>1 DEF Asks
  <2>3. m.from \in sd[SideOf[u]].seen
    BY <1>1, <2>1 DEF Known, MessagesKnown, MessageKnown
  <2> QED
    BY <2>2, <2>3
<1> QED
  BY <1>2, <1>3 DEF Pending

\* open_channel.
LEMMA PairingBegins ==
    ASSUME TypeOK, TypeOK', Known, Pairing, NEW u \in Users, NEW i \in Ids, Begins(u, i)
    PROVE  Pairing'
<1> USE DEF Pairing
<1>1. SdOK /\ ThOK /\ WireOK
  BY DEF TypeOK, SdOK, ThOK, WireOK
<1>2. PICK s \in Sides : s = SideOf[u]
  BY SessionAssumption
<1>3. Peer(s) \in Sides /\ Peer(s) # s /\ \A r \in Sides : r = s \/ r = Peer(s)
  BY PeerFacts, TwoSides
<1>4. /\ u \in Openers /\ th[u].pc = "idle" /\ menu' = menu /\ i \in NextChannel(sd[s])
      /\ sd'[s].counter = (i + 1) % IdSpace
      /\ sd'[s].channels = [sd[s].channels EXCEPT ![i] = Opening]
      /\ sd'[s].seen = sd[s].seen \cup {i} /\ Held(Peer(s)) /\ Rests(s) /\ Rests(Peer(s))
      /\ th'[u].pc = "opensend" /\ th'[u].id = i
      /\ \A v \in Users : v # u => th'[v] = th[v]
  BY <1>2 DEF Begins, Took
<1>5. u \notin Spent(s)
  BY <1>4 DEF Spent
<1>6. i = sd[s].counter /\ i \notin sd[s].seen
  BY <1>4, <1>5, FreshNumber
<1>7. \A r \in Sides : Out(r)' = Out(r) /\ wire'[r] = wire[r]
  BY <1>3, <1>4, RestFacts DEF Rests
<1>8. \A v \in Users : v # u => (Pending(v)' <=> Pending(v)) /\ th'[v].id = th[v].id
  <2>1. \A v \in Users : SideOf[v] \in Sides
    BY SessionAssumption
  <2> QED
    BY <1>4, <1>7, <2>1 DEF Pending
<1>9. Openers' = Openers
  BY <1>4 DEF Openers
<1>10. \A r \in Sides : \A j \in Ids : Chan(r, j)' = IF r = s /\ j = i THEN Opening ELSE Chan(r, j)
  <2>1. \A j \in Ids : Chan(s, j)' = IF j = i THEN Opening ELSE Chan(s, j)
    <3>1. sd[s].channels \in [Ids -> Channels]
      BY <1>1 DEF SdOK, SideStates
    <3> QED
      BY <1>4, <3>1 DEF Chan
  <2>2. \A j \in Ids : Chan(Peer(s), j)' = Chan(Peer(s), j)
    BY <1>1, <1>3, <1>4, HeldTable
  <2> QED
    BY <1>3, <2>1, <2>2
<1>11. \A r \in Sides : \A a, b \in Ids : Linked(r, a, b)' => Linked(r, a, b)
  <2>1. ~Opening.active
    BY DEF Opening
  <2>2. \A r \in Sides : \A a, b \in Ids : Claims(r, a, b)' => Claims(r, a, b)
    BY <1>7, <1>10, <2>1 DEF Claims
  <2> QED
    BY <2>2, LinksShrink
<1>12. Numbered'
  <2>1. \A r \in Sides : Spent(r) \subseteq Spent(r)'
    <3>1. ASSUME NEW r \in Sides, NEW v \in Spent(r) PROVE v \in Spent(r)'
      <4>1. v \in Openers /\ v \in Users /\ th[v].pc # "idle" /\ (SideOf[v] = r \/ ~Pending(v))
        BY DEF Spent, Openers
      <4>2. v # u
        BY <1>4, <4>1
      <4>3. th'[v].pc # "idle" /\ (SideOf[v] = r \/ ~Pending(v)')
        BY <1>4, <1>8, <4>1, <4>2
      <4> QED
        BY <1>9, <4>1, <4>3 DEF Spent
    <3> QED
      BY <3>1
  <2>2. u \in Spent(s)'
    BY <1>2, <1>4, <1>9 DEF Spent
  <2>3. sd'[Peer(s)].counter = sd[Peer(s)].counter /\ sd'[Peer(s)].seen = sd[Peer(s)].seen
    BY <1>4 DEF Held
  <2> QED
    BY <1>3, <1>4, <1>5, <1>6, <2>1, <2>2, <2>3, NumberedKept
<1>13. TableKnown'
  <2>1. \A r \in Sides : sd[r].seen \subseteq sd'[r].seen
    BY <1>3, <1>4 DEF Held
  <2>2. ~Opening.active /\ i \in sd'[s].seen
    BY <1>4 DEF Opening
  <2>3. ASSUME NEW r \in Sides, NEW j \in Ids
        PROVE  /\ Chan(r, j)'.live => j \in sd'[r].seen
               /\ Chan(r, j)'.active => Chan(r, j)'.live
    <3>1. CASE r = s /\ j = i
      BY <1>10, <2>2, <3>1
    <3>2. CASE ~(r = s /\ j = i)
      <4>1. Chan(r, j)' = Chan(r, j)
        BY <1>10, <3>2
      <4> QED
        BY <2>1, <4>1 DEF TableKnown
    <3> QED
      BY <3>1, <3>2
  <2> QED
    BY <2>3 DEF TableKnown
<1>14. Asks'
  <2>1. ASSUME NEW r \in Sides, NEW m \in Out(r)', m.type = "open"
        PROVE  /\ m.user \in Openers' /\ SideOf[m.user] = r
               /\ th'[m.user].pc \in Late /\ m.from = th'[m.user].id
    <3>1. /\ m.user \in Openers /\ SideOf[m.user] = r
          /\ th[m.user].pc \in Late /\ m.from = th[m.user].id
      BY <1>7, <2>1 DEF Asks
    <3>2. m.user \in Users /\ m.user # u
      BY <1>4, <3>1 DEF Openers, Late
    <3> QED
      BY <1>4, <1>9, <3>1, <3>2
  <2> QED
    BY <2>1 DEF Asks
<1>15. AskedOnce'
  BY <1>7 DEF AskedOnce
<1>16. OpenersAsk'
  BY <1>4, <1>9 DEF OpenersAsk
<1>17. Apart'
  <2>1. ASSUME NEW v \in Users, v # u, Pending(v)', SideOf[v] = s PROVE th'[v].id # i
    <3>1. Pending(v) /\ th'[v].id = th[v].id
      BY <1>8, <2>1
    <3>2. th[v].id \in sd[s].seen
      BY <1>1, <2>1, <3>1, PendingKnown
    <3> QED
      BY <1>6, <3>1, <3>2
  <2>2. ASSUME NEW v \in Users, NEW w \in Users, Pending(v)', Pending(w)',
               SideOf[v] = SideOf[w], th'[v].id = th'[w].id
        PROVE  v = w
    <3>1. CASE v # u /\ w # u
      BY <1>8, <2>2, <3>1 DEF Apart
    <3>2. CASE v = u \/ w = u
      BY <1>2, <1>4, <2>1, <2>2, <3>2
    <3> QED
      BY <3>1, <3>2
  <2> QED
    BY <2>2 DEF Apart
<1>18. Unanswered'
  <2>1. ASSUME NEW v \in Users, NEW a \in Ids, NEW b \in Ids, Pending(v)', th'[v].id = a,
               Linked(SideOf[v], a, b)'
        PROVE  FALSE
    <3>1. SideOf[v] \in Sides
      BY SessionAssumption
    <3>2. Linked(SideOf[v], a, b)
      BY <1>11, <2>1, <3>1
    <3>3. CASE v = u
      <4>1. a \in sd[s].seen
        BY <1>2, <3>2, <3>3, LinksKnown DEF Known
      <4> QED
        BY <1>4, <1>6, <2>1, <3>3, <4>1
    <3>4. CASE v # u
      BY <1>8, <2>1, <3>2, <3>4 DEF Unanswered
    <3> QED
      BY <3>3, <3>4
  <2> QED
    BY <2>1 DEF Unanswered
<1>19. OneOne'
  BY <1>11 DEF OneOne
<1> QED
  BY <1>12, <1>13, <1>14, <1>15, <1>16, <1>17, <1>18, <1>19

\* Its CHANNEL_OPEN.
LEMMA PairingSends ==
    ASSUME TypeOK, TypeOK', Known, Pairing, NEW u \in Users, Sends(u)
    PROVE  Pairing'
<1> USE DEF Pairing
<1>1. SdOK /\ ThOK /\ WireOK
  BY DEF TypeOK, SdOK, ThOK, WireOK
<1>2. PICK s \in Sides : s = SideOf[u]
  BY SessionAssumption
<1>3. Peer(s) \in Sides /\ Peer(s) # s /\ \A r \in Sides : r = s \/ r = Peer(s)
  BY PeerFacts, TwoSides
<1>4. PICK m : m = Msg("open", Unset, th[u].id, u)
  OBVIOUS
<1>5. m \in Messages /\ m.type = "open" /\ m.from = th[u].id /\ m.user = u
  <2>1. m \in Messages
    BY <1>1, <1>4, ThreadFacts, ChannelTypes, MsgTypes
  <2> QED
    BY <1>4, <2>1 DEF Msg
<1>6. /\ th[u].pc = "opensend" /\ menu' = menu /\ (\A r \in Sides : Held(r)) /\ Rests(Peer(s))
      /\ Adds(s, m) \/ Rests(s)
      /\ th'[u].pc = "openwait" /\ th'[u].id = th[u].id
      /\ \A v \in Users : v # u => th'[v] = th[v]
  BY <1>2, <1>4 DEF Sends
<1>7. \A r \in Sides : \A x \in Out(r)' : x \in Out(r) \/ (r = s /\ x = m)
  BY <1>1, <1>3, <1>5, <1>6, AddFacts, RestFacts
<1>8. \A v \in Users : SideOf[v] \in Sides
  BY SessionAssumption
<1>9. \A v \in Users : (Pending(v)' => Pending(v)) /\ th'[v].id = th[v].id
  <2>1. ASSUME NEW v \in Users, v # u, Pending(v)' PROVE Pending(v)
    <3>1. CASE th'[v].pc = "opensend"
      BY <1>6, <2>1, <3>1 DEF Pending
    <3>2. CASE \E x \in Out(SideOf[v])' : x.type = "open" /\ x.user = v
      <4>1. PICK x \in Out(SideOf[v])' : x.type = "open" /\ x.user = v
        BY <3>2
      <4>2. x \in Out(SideOf[v])
        BY <1>5, <1>7, <1>8, <2>1, <4>1
      <4> QED
        BY <4>1, <4>2 DEF Pending
    <3> QED
      BY <2>1, <3>1, <3>2 DEF Pending
  <2>2. Pending(u)
    BY <1>6 DEF Pending
  <2> QED
    BY <1>6, <2>1, <2>2
<1>10. Openers' = Openers
  BY <1>6 DEF Openers
<1>11. \A r \in Sides : \A j \in Ids : Chan(r, j)' = Chan(r, j)
  BY <1>1, <1>6, HeldTable
<1>12. \A r \in Sides : \A a, b \in Ids : Linked(r, a, b)' => Linked(r, a, b)
  <2>1. \A r \in Sides : \A a, b \in Ids : Claims(r, a, b)' => Claims(r, a, b)
    <3>1. ASSUME NEW r \in Sides, NEW a \in Ids, NEW b \in Ids, Claims(r, a, b)'
          PROVE  Claims(r, a, b)
      <4>1. CASE Chan(r, a)'.active /\ Chan(r, a)'.remote = b
        BY <1>11, <4>1 DEF Claims
      <4>2. CASE \E x \in Out(r)' : x.type = "success" /\ x.from = a /\ x.to = b
        BY <1>5, <1>7, <4>2 DEF Claims
      <4> QED
        BY <3>1, <4>1, <4>2 DEF Claims
    <3> QED
      BY <3>1
  <2> QED
    BY <2>1, LinksShrink
<1>13. \A r \in Sides : sd'[r].counter = sd[r].counter /\ sd'[r].seen = sd[r].seen
  BY <1>6 DEF Held
<1>14. Numbered'
  <2>1. ASSUME NEW r \in Sides, NEW v \in Spent(r) PROVE v \in Spent(r)'
    <3>1. v \in Openers /\ v \in Users /\ th[v].pc # "idle" /\ (SideOf[v] = r \/ ~Pending(v))
      BY DEF Spent, Openers
    <3>2. th'[v].pc # "idle" /\ (SideOf[v] = r \/ ~Pending(v)')
      BY <1>6, <1>9, <3>1
    <3> QED
      BY <1>10, <3>1, <3>2 DEF Spent
  <2> QED
    BY <1>13, <2>1, NumberedKept
<1>15. TableKnown'
  BY <1>11, <1>13 DEF TableKnown
<1>16. Asks'
  <2>1. ASSUME NEW r \in Sides, NEW x \in Out(r)', x.type = "open"
        PROVE  /\ x.user \in Openers' /\ SideOf[x.user] = r
               /\ th'[x.user].pc \in Late /\ x.from = th'[x.user].id
    <3>1. CASE x \in Out(r)
      <4>1. /\ x.user \in Openers /\ SideOf[x.user] = r
            /\ th[x.user].pc \in Late /\ x.from = th[x.user].id
        BY <2>1, <3>1 DEF Asks
      <4>2. x.user \in Users /\ x.user # u
        BY <1>6, <4>1 DEF Openers, Late
      <4> QED
        BY <1>6, <1>10, <4>1, <4>2
    <3>2. CASE r = s /\ x = m
      <4>1. u \in Openers /\ th'[u].pc \in Late
        BY <1>6 DEF OpenersAsk, Late
      <4> QED
        BY <1>2, <1>5, <1>6, <1>10, <3>2, <4>1
    <3> QED
      BY <1>7, <2>1, <3>1, <3>2
  <2> QED
    BY <2>1 DEF Asks
<1>17. AskedOnce'
  <2>1. ASSUME NEW x \in Out(s), x.type = "open" PROVE x.user # u
    BY <1>6, <2>1 DEF Asks, Late
  <2>2. ASSUME NEW k \in DOMAIN wire'[s], NEW l \in DOMAIN wire'[s], Adds(s, m),
               wire'[s][k].type = "open", wire'[s][l].type = "open",
               wire'[s][k].user = wire'[s][l].user
        PROVE  k = l
    <3>1. /\ DOMAIN wire'[s] = 1..(Len(wire[s]) + 1) /\ DOMAIN wire[s] = 1..Len(wire[s])
          /\ Len(wire[s]) \in Nat /\ wire'[s][Len(wire[s]) + 1] = m
          /\ \A n \in DOMAIN wire[s] : wire'[s][n] = wire[s][n]
      BY <1>1, <1>5, <2>2, AddFacts
    <3>2. \A n \in DOMAIN wire'[s] : n \in DOMAIN wire[s] \/ n = Len(wire[s]) + 1
      BY <3>1
    <3>3. \A n \in DOMAIN wire[s] : wire'[s][n].type = "open" => wire'[s][n].user # u
      BY <2>1, <3>1 DEF Out
    <3>4. CASE k \in DOMAIN wire[s] /\ l \in DOMAIN wire[s]
      BY <2>2, <3>1, <3>4 DEF AskedOnce
    <3>5. CASE ~(k \in DOMAIN wire[s] /\ l \in DOMAIN wire[s])
      BY <1>5, <2>2, <3>1, <3>2, <3>3, <3>5
    <3> QED
      BY <3>4, <3>5
  <2>3. ASSUME NEW r \in Sides, Rests(r), NEW k \in DOMAIN wire'[r], NEW l \in DOMAIN wire'[r],
               wire'[r][k].type = "open", wire'[r][l].type = "open",
               wire'[r][k].user = wire'[r][l].user
        PROVE  k = l
    BY <2>3 DEF Rests, AskedOnce
  <2> QED
    BY <1>3, <1>6, <2>2, <2>3 DEF AskedOnce
<1>18. OpenersAsk'
  BY <1>6, <1>10 DEF OpenersAsk
<1>19. Apart'
  BY <1>9 DEF Apart
<1>20. Unanswered'
  BY <1>8, <1>9, <1>12 DEF Unanswered
<1>21. OneOne'
  BY <1>12 DEF OneOne
<1> QED
  BY <1>14, <1>15, <1>16, <1>17, <1>18, <1>19, <1>20, <1>21

\* The opener whose CHANNEL_OPEN side s reads is pending until then, and has now cost s
\* a number.
LEMMA AskedFacts ==
    ASSUME TypeOK, TypeOK', Pairing, NEW s \in Sides, Reads(s, "open"), Onward,
           \A r \in Sides : \A m \in Out(r)' : m.type = "open" => m \in Out(r),
           NEW w, w = Got(s).user
    PROVE  /\ w \in Openers /\ w \in Users /\ SideOf[w] = Peer(s)
           /\ Got(s).from = th[w].id
           /\ Pending(w) /\ ~Pending(w)'
           /\ w \notin Spent(s) /\ w \in Spent(s)'
<1> USE DEF Pairing
<1>1. SdOK /\ ThOK /\ WireOK
  BY DEF TypeOK, SdOK, ThOK, WireOK
<1>2. Peer(s) \in Sides /\ Peer(s) # s /\ Drops(Peer(s)) /\ Got(s).type = "open"
  BY PeerFacts DEF Reads
<1>3. Got(s) \in Out(Peer(s)) /\ Got(s) = wire[Peer(s)][1] /\ 1 \in DOMAIN wire[Peer(s)]
  BY <1>1, <1>2, DropFacts DEF Got
<1>4. /\ Got(s).user \in Openers /\ SideOf[Got(s).user] = Peer(s)
      /\ th[Got(s).user].pc \in Late /\ Got(s).from = th[Got(s).user].id
  BY <1>2, <1>3 DEF Asks
<1>5. w = Got(s).user
  OBVIOUS
<1>6. w \in Users /\ Pending(w)
  BY <1>2, <1>3, <1>4, <1>5 DEF Openers, Pending
<1>7. th'[w].pc \in Late
  BY <1>4, <1>5, <1>6 DEF Onward
<1>8. ~Pending(w)'
  <2>1. ASSUME NEW m \in Out(Peer(s))', m.type = "open", m.user = w PROVE FALSE
    <3>1. PICK k \in DOMAIN wire'[Peer(s)] : m = wire'[Peer(s)][k]
      BY <2>1 DEF Out
    <3>2. k + 1 \in DOMAIN wire[Peer(s)] /\ m = wire[Peer(s)][k + 1] /\ k \in Nat /\ k > 0
      BY <1>1, <1>2, <3>1, DropFacts
    <3>3. k + 1 = 1
      BY <1>2, <1>3, <1>5, <2>1, <3>2 DEF AskedOnce
    <3> QED
      BY <3>2, <3>3
  <2>2. th'[w].pc # "opensend"
    BY <1>7 DEF Late
  <2>3. SideOf[w] = Peer(s)
    BY <1>4, <1>5
  <2> QED
    BY <2>1, <2>2, <2>3 DEF Pending
<1>9. w \notin Spent(s)
  BY <1>2, <1>4, <1>5, <1>6 DEF Spent
<1>10. w \in Spent(s)'
  <2>1. w \in Openers'
    BY <1>4, <1>5 DEF Openers, Onward
  <2>2. th'[w].pc # "idle"
    BY <1>7 DEF Late
  <2> QED
    BY <1>8, <2>1, <2>2 DEF Spent
<1> QED
  BY <1>4, <1>5, <1>6, <1>8, <1>9, <1>10

\* Taking a number keeps them in order.
LEMMA TookKeeps ==
    ASSUME TypeOK, TypeOK', Pairing, NEW s \in Sides, Reads(s, "open"), Onward,
           \A r \in Sides : \A m \in Out(r)' : m.type = "open" => m \in Out(r),
           Held(Peer(s)),
           \/ sd'[s].counter = sd[s].counter /\ sd'[s].seen = sd[s].seen
           \/ \E i \in Ids : Took(s, i) /\ sd'[s].seen \subseteq sd[s].seen \cup {i}
    PROVE  /\ Numbered'
           /\ \A i \in Ids : Took(s, i) => i \notin sd[s].seen
<1> USE DEF Pairing
<1>1. Peer(s) \in Sides /\ Peer(s) # s /\ \A r \in Sides : r = s \/ r = Peer(s)
  BY PeerFacts, TwoSides
<1>2. PICK w : w \in Openers /\ w \notin Spent(s) /\ w \in Spent(s)'
  BY AskedFacts
<1>3. \A i \in Ids : Took(s, i) => i \notin sd[s].seen /\ i = sd[s].counter
  BY <1>2, FreshNumber DEF Took
<1>4. \A r \in Sides : Spent(r) \subseteq Spent(r)'
  BY OnwardPending DEF TypeOK, ThOK
<1>5. sd'[Peer(s)].counter = sd[Peer(s)].counter /\ sd'[Peer(s)].seen = sd[Peer(s)].seen
  BY DEF Held
<1>6. \/ sd'[s].counter = sd[s].counter /\ sd'[s].seen = sd[s].seen
      \/ /\ sd'[s].counter = (sd[s].counter + 1) % IdSpace
         /\ sd'[s].seen \subseteq sd[s].seen \cup {sd[s].counter}
  BY <1>3 DEF Took
<1>7. Spent(s)' # Spent(s)
  BY <1>2
<1>8. Numbered'
  BY <1>1, <1>4, <1>5, <1>6, <1>7, NumberedKept
<1> QED
  BY <1>3, <1>8

\* A refusal.
LEMMA PairingRefuses ==
    ASSUME TypeOK, TypeOK', Known, Pairing, NEW s \in Sides, Refuses(s)
    PROVE  Pairing'
<1> USE DEF Pairing
<1>1. SdOK /\ ThOK /\ WireOK
  BY DEF TypeOK, SdOK, ThOK, WireOK
<1>2. Peer(s) \in Sides /\ Peer(s) # s /\ \A r \in Sides : r = s \/ r = Peer(s)
  BY PeerFacts, TwoSides
<1>3. PICK m : m = Msg("failure", Got(s).from, Unset, Nobody)
  OBVIOUS
<1>4. /\ Reads(s, "open") /\ Adds(s, m) /\ Onward /\ Held(Peer(s)) /\ Drops(Peer(s))
      /\ sd'[s].channels = sd[s].channels /\ sd'[s].seen = sd[s].seen
      /\ sd'[s].counter = sd[s].counter \/ \E i \in Ids : Took(s, i)
  BY <1>3 DEF Refuses, Reads
<1>5. Got(s).from \in Ids /\ Out(Peer(s))' \subseteq Out(Peer(s))
  BY <1>1, <1>4, ReadKnown
<1>6. m \in Messages /\ m.type = "failure"
  <2>1. m \in Messages
    BY <1>3, <1>5, ChannelTypes, MsgTypes
  <2> QED
    BY <1>3, <2>1 DEF Msg
<1>7. \A r \in Sides : \A x \in Out(r)' : x \in Out(r) \/ (r = s /\ x = m)
  BY <1>1, <1>2, <1>4, <1>5, <1>6, AddFacts
<1>8. \A r \in Sides : \A x \in Out(r)' : x.type = "open" => x \in Out(r)
  BY <1>6, <1>7
<1>9. Numbered'
  BY <1>4, <1>8, TookKeeps
<1>10. /\ \A u \in Users : Pending(u)' => Pending(u) /\ th'[u].id = th[u].id
       /\ Asks' /\ OpenersAsk' /\ Apart'
  BY <1>1, <1>4, <1>8, OnwardPending
<1>11. \A r \in Sides : \A j \in Ids : Chan(r, j)' = Chan(r, j) /\ sd'[r].seen = sd[r].seen
  BY <1>2, <1>4 DEF Held, Chan
<1>12. TableKnown'
  BY <1>11 DEF TableKnown
<1>13. AskedOnce'
  <2>1. \A r \in Sides : Rests(r) \/ Drops(r) \/ \E x \in Messages : Adds(r, x) /\ x.type # "open"
    BY <1>2, <1>4, <1>6
  <2> QED
    BY <1>1, <2>1, AskedOnceKept DEF AskedOnce
<1>14. \A r \in Sides : \A a, b \in Ids : Linked(r, a, b)' => Linked(r, a, b)
  <2>1. \A r \in Sides : \A a, b \in Ids : Claims(r, a, b)' => Claims(r, a, b)
    <3>1. ASSUME NEW r \in Sides, NEW a \in Ids, NEW b \in Ids, Claims(r, a, b)'
          PROVE  Claims(r, a, b)
      <4>1. CASE Chan(r, a)'.active /\ Chan(r, a)'.remote = b
        BY <1>11, <4>1 DEF Claims
      <4>2. CASE \E x \in Out(r)' : x.type = "success" /\ x.from = a /\ x.to = b
        BY <1>6, <1>7, <4>2 DEF Claims
      <4> QED
        BY <3>1, <4>1, <4>2 DEF Claims
    <3> QED
      BY <3>1
  <2> QED
    BY <2>1, LinksShrink
<1>15. Unanswered'
  <2>1. \A v \in Users : SideOf[v] \in Sides
    BY SessionAssumption
  <2> QED
    BY <1>10, <1>14, <2>1 DEF Unanswered
<1>16. OneOne'
  BY <1>14 DEF OneOne
<1> QED
  BY <1>9, <1>10, <1>12, <1>13, <1>15, <1>16

\* A link is one from both sides.
LEMMA LinkedBoth ==
    \A s \in Sides : \A i, j \in Ids : Linked(s, i, j) <=> Linked(Peer(s), j, i)
  BY PeerPeer DEF Linked

\* The links once s has taken the channel that its peer opened: one more, between a number
\* that is new at s and one that waited for its answer at the peer.
LEMMA AdmitLinks ==
    ASSUME TypeOK, TypeOK', Known, Pairing, NEW s \in Sides, NEW i \in Ids, Admits(s, i)
    PROVE  /\ \A r \in Sides : \A a, b \in Ids : Linked(r, a, b)' =>
                 \/ Linked(r, a, b)
                 \/ r = s /\ a = i /\ b = Got(s).from
                 \/ r = Peer(s) /\ a = Got(s).from /\ b = i
           /\ i \notin sd[s].seen /\ Got(s).from \in Ids
           /\ \A b \in Ids : ~Linked(s, i, b) /\ ~Linked(Peer(s), Got(s).from, b)
<1> USE DEF Pairing
<1>1. SdOK /\ ThOK /\ WireOK
  BY DEF TypeOK, SdOK, ThOK, WireOK
<1>2. Peer(s) \in Sides /\ Peer(s) # s /\ Peer(Peer(s)) = s /\ \A r \in Sides : r = s \/ r = Peer(s)
  BY PeerFacts, TwoSides, PeerPeer
<1>3. PICK j, m : j = Got(s).from /\ m = Msg("success", Got(s).from, i, Nobody)
  OBVIOUS
<1>4. /\ Reads(s, "open") /\ Adds(s, m) /\ Onward /\ Held(Peer(s)) /\ Took(s, i)
      /\ sd'[s].channels = [sd[s].channels EXCEPT ![i] = Opened(j)]
      /\ sd'[s].seen = sd[s].seen \cup {i}
  BY <1>3 DEF Admits
<1>5. j \in Ids /\ Out(Peer(s))' \subseteq Out(Peer(s))
  BY <1>1, <1>3, <1>4, ReadKnown
<1>6. m \in Messages /\ m.type = "success" /\ m.to = j /\ m.from = i
  <2>1. m \in Messages
    BY <1>3, <1>5, MsgTypes
  <2> QED
    BY <1>3, <2>1 DEF Msg
<1>7. \A r \in Sides : \A x \in Out(r)' : x \in Out(r) \/ (r = s /\ x = m)
  BY <1>1, <1>2, <1>4, <1>5, <1>6, AddFacts
<1>8. \A r \in Sides : \A x \in Out(r)' : x.type = "open" => x \in Out(r)
  BY <1>6, <1>7
<1>9. i \notin sd[s].seen
  BY <1>4, <1>8, TookKeeps
<1>10. ASSUME NEW r \in Sides, NEW a \in Ids, NEW b \in Ids, Claims(r, a, b)'
       PROVE  Claims(r, a, b) \/ (r = s /\ a = i /\ b = j)
  <2>1. CASE Chan(r, a)'.active /\ Chan(r, a)'.remote = b
    <3>1. sd[s].channels \in [Ids -> Channels]
      BY <1>1 DEF SdOK, SideStates
    <3>2. \A c \in Ids : IF c = i THEN Chan(s, c)'.remote = j ELSE Chan(s, c)' = Chan(s, c)
      BY <1>4, <3>1 DEF Chan, Opened
    <3>3. \A c \in Ids : Chan(Peer(s), c)' = Chan(Peer(s), c)
      BY <1>1, <1>2, <1>4, HeldTable
    <3>4. Chan(r, a)' = Chan(r, a) \/ (r = s /\ a = i /\ Chan(r, a)'.remote = j)
      BY <1>2, <3>2, <3>3
    <3> QED
      BY <2>1, <3>4 DEF Claims
  <2>2. CASE \E x \in Out(r)' : x.type = "success" /\ x.from = a /\ x.to = b
    BY <1>6, <1>7, <2>2 DEF Claims
  <2> QED
    BY <1>10, <2>1, <2>2 DEF Claims
<1>11. \A r \in Sides : \A a, b \in Ids : Linked(r, a, b)' =>
                 \/ Linked(r, a, b)
                 \/ r = s /\ a = i /\ b = j
                 \/ r = Peer(s) /\ a = j /\ b = i
  <2>1. ASSUME NEW r \in Sides, NEW a \in Ids, NEW b \in Ids, Linked(r, a, b)'
        PROVE  \/ Linked(r, a, b)
               \/ r = s /\ a = i /\ b = j
               \/ r = Peer(s) /\ a = j /\ b = i
    <3>1. Peer(r) \in Sides /\ (Peer(r) = s => r = Peer(s))
      BY PeerFacts, PeerPeer
    <3>2. Claims(r, a, b)' \/ Claims(Peer(r), b, a)'
      BY <2>1 DEF Linked
    <3>3. Claims(Peer(r), b, a)' => Claims(Peer(r), b, a) \/ (Peer(r) = s /\ b = i /\ a = j)
      BY <1>10, <3>1
    <3> QED
      BY <1>10, <3>1, <3>2, <3>3 DEF Linked
  <2> QED
    BY <2>1
<1>12. \A b \in Ids : ~Linked(s, i, b)
  BY <1>9, LinksKnown DEF Known
<1>13. \A b \in Ids : ~Linked(Peer(s), j, b)
  <2>1. \E w \in Users : SideOf[w] = Peer(s) /\ j = th[w].id /\ Pending(w)
    BY <1>3, <1>4, <1>8, AskedFacts
  <2> QED
    BY <1>5, <2>1 DEF Unanswered
<1> QED
  BY <1>3, <1>5, <1>9, <1>11, <1>12, <1>13

\* A channel is taken.
LEMMA PairingAdmits ==
    ASSUME TypeOK, TypeOK', Known, Pairing, NEW s \in Sides, NEW i \in Ids, Admits(s, i)
    PROVE  Pairing'
<1> USE DEF Pairing
<1>1. SdOK /\ ThOK /\ WireOK
  BY DEF TypeOK, SdOK, ThOK, WireOK
<1>2. Peer(s) \in Sides /\ Peer(s) # s /\ Peer(Peer(s)) = s /\ \A r \in Sides : r = s \/ r = Peer(s)
  BY PeerFacts, TwoSides, PeerPeer
<1>3. PICK j, m, w : j = Got(s).from /\ m = Msg("success", Got(s).from, i, Nobody) /\ w = Got(s).user
  OBVIOUS
<1>4. /\ Reads(s, "open") /\ Adds(s, m) /\ Onward /\ Held(Peer(s)) /\ Drops(Peer(s)) /\ Took(s, i)
      /\ sd'[s].channels = [sd[s].channels EXCEPT ![i] = Opened(j)]
      /\ sd'[s].seen = sd[s].seen \cup {i}
  BY <1>3 DEF Admits, Reads
<1>5. /\ j \in Ids /\ i \notin sd[s].seen
      /\ \A b \in Ids : ~Linked(s, i, b) /\ ~Linked(Peer(s), j, b)
      /\ \A r \in Sides : \A a, b \in Ids : Linked(r, a, b)' =>
                 \/ Linked(r, a, b)
                 \/ r = s /\ a = i /\ b = j
                 \/ r = Peer(s) /\ a = j /\ b = i
  BY <1>3, AdmitLinks
<1>6. m \in Messages /\ m.type = "success" /\ Out(Peer(s))' \subseteq Out(Peer(s))
  <2>1. m \in Messages
    BY <1>3, <1>5, MsgTypes
  <2> QED
    BY <1>1, <1>3, <1>4, <2>1, ReadKnown DEF Msg
<1>7. \A r \in Sides : \A x \in Out(r)' : x.type = "open" => x \in Out(r)
  BY <1>1, <1>2, <1>4, <1>6, AddFacts
<1>8. Numbered'
  BY <1>4, <1>7, TookKeeps
<1>9. /\ \A u \in Users : Pending(u)' => Pending(u) /\ th'[u].id = th[u].id
      /\ Asks' /\ OpenersAsk' /\ Apart'
  BY <1>1, <1>4, <1>7, OnwardPending
<1>10. TableKnown'
  <2>1. sd[s].channels \in [Ids -> Channels]
    BY <1>1 DEF SdOK, SideStates
  <2>2. \A c \in Ids : IF c = i THEN Chan(s, c)'.live ELSE Chan(s, c)' = Chan(s, c)
    BY <1>4, <2>1 DEF Chan, Opened
  <2>3. \A c \in Ids : Chan(Peer(s), c)' = Chan(Peer(s), c)
    BY <1>1, <1>2, <1>4, HeldTable
  <2>4. \A r \in Sides : sd[r].seen \subseteq sd'[r].seen
    BY <1>2, <1>4 DEF Held
  <2>5. ASSUME NEW r \in Sides, NEW c \in Ids
        PROVE  /\ Chan(r, c)'.live => c \in sd'[r].seen
               /\ Chan(r, c)'.active => Chan(r, c)'.live
    <3>1. CASE Chan(r, c)' = Chan(r, c)
      BY <2>4, <3>1 DEF TableKnown
    <3>2. CASE r = s /\ c = i
      BY <1>4, <2>2, <3>2
    <3> QED
      BY <1>2, <2>2, <2>3, <3>1, <3>2
  <2> QED
    BY <2>5 DEF TableKnown
<1>11. AskedOnce'
  <2>1. \A r \in Sides : Rests(r) \/ Drops(r) \/ \E x \in Messages : Adds(r, x) /\ x.type # "open"
    BY <1>2, <1>4, <1>6
  <2> QED
    BY <1>1, <2>1, AskedOnceKept DEF AskedOnce
<1>12. w \in Users /\ SideOf[w] = Peer(s) /\ j = th[w].id /\ Pending(w) /\ ~Pending(w)'
  BY <1>3, <1>4, <1>7, AskedFacts
<1>13. Unanswered'
  <2>1. ASSUME NEW v \in Users, NEW a \in Ids, NEW b \in Ids, Pending(v)', th'[v].id = a,
               Linked(SideOf[v], a, b)'
        PROVE  FALSE
    <3>1. SideOf[v] \in Sides /\ Pending(v) /\ th[v].id = a
      BY <1>9, <2>1, SessionAssumption
    <3>2. CASE Linked(SideOf[v], a, b)
      BY <3>1, <3>2 DEF Unanswered
    <3>3. CASE SideOf[v] = s /\ a = i
      BY <1>1, <1>5, <3>1, <3>3, PendingKnown
    <3>4. CASE SideOf[v] = Peer(s) /\ a = j
      <4>1. v = w
        BY <1>12, <3>1, <3>4 DEF Apart
      <4> QED
        BY <1>12, <2>1, <4>1
    <3> QED
      BY <1>5, <2>1, <3>1, <3>2, <3>3, <3>4
  <2> QED
    BY <2>1 DEF Unanswered
<1>14. OneOne'
  <2>1. ASSUME NEW r \in Sides, NEW a \in Ids, NEW b \in Ids, NEW c \in Ids,
               Linked(r, a, b)', Linked(r, a, c)'
        PROVE  b = c
    <3>1. CASE Linked(r, a, b) /\ Linked(r, a, c)
      BY <3>1 DEF OneOne
    <3>2. CASE (r = s /\ a = i) \/ (r = Peer(s) /\ a = j)
      BY <1>2, <1>5, <2>1, <3>2
    <3> QED
      BY <1>5, <2>1, <3>1, <3>2
  <2> QED
    BY <2>1 DEF OneOne
<1> QED
  BY <1>8, <1>9, <1>10, <1>11, <1>13, <1>14

\* Every step keeps the pairing.
LEMMA PairingNext ==
    ASSUME TypeOK, TypeOK', Known, Pairing, [Next]_vars
    PROVE  Pairing'
<1>1. SdOK /\ ThOK /\ WireOK
  BY DEF TypeOK, SdOK, ThOK, WireOK
<1>2. CASE Quiet
  BY <1>1, <1>2, QuietTame, PairingTame
<1>3. CASE \/ \E u \in Users : Collects(u) \/ Closes(u)
           \/ \E s \in Sides : Confirms(s) \/ Forgets(s) \/ Ignores(s) \/ Shuts(s) \/ Ends(s)
  BY <1>1, <1>3, OthersTame, PairingTame
<1>4. CASE \E u \in Users : Sends(u) \/ \E i \in Ids : Begins(u, i)
  BY <1>4, PairingBegins, PairingSends
<1>5. CASE \E s \in Sides : Refuses(s) \/ \E i \in Ids : Admits(s, i)
  BY <1>5, PairingRefuses, PairingAdmits
<1> QED
  BY <1>1, <1>2, <1>3, <1>4, <1>5, StepKinds

\* At first there is nothing to pair.
LEMMA PairingInit == Init => Pairing
<1> SUFFICES ASSUME Init PROVE Pairing
  OBVIOUS
<1>1. \A s \in Sides : Out(s) = {} /\ wire[s] = <<>>
  BY DEF Init, Out
<1>2. \A s \in Sides : \A i \in Ids : ~Chan(s, i).active /\ ~Chan(s, i).live
  BY DEF Init, Chan, NoChannel
<1>3. \A u \in Users : th[u].pc = "idle"
  BY DEF Init
<1>4. \A s \in Sides : sd[s].seen = {} /\ sd[s].counter = 0
  BY DEF Init
<1>5. \A u \in Users : ~Pending(u)
  <2>1. \A u \in Users : SideOf[u] \in Sides
    BY SessionAssumption
  <2> QED
    BY <1>1, <1>3, <2>1 DEF Pending
<1>6. \A s \in Sides : \A i, j \in Ids : ~Linked(s, i, j)
  BY <1>1, <1>2, PeerFacts DEF Linked, Claims
<1>7. Numbered
  <2>1. \A s \in Sides : Spent(s) = {}
    BY <1>3 DEF Spent, Openers
  <2>2. \A s \in Sides : Cardinality(Spent(s)) = 0
    BY <2>1, FS_EmptySet
  <2> QED
    BY <1>4, <2>2 DEF Numbered
<1>8. TableKnown
  BY <1>2 DEF TableKnown
<1>9. Asks /\ AskedOnce /\ OpenersAsk /\ Apart /\ Unanswered
  BY <1>1, <1>3, <1>5 DEF Asks, AskedOnce, OpenersAsk, Apart, Unanswered
<1>10. OneOne
  BY <1>6 DEF OneOne
<1> QED
  BY <1>7, <1>8, <1>9, <1>10 DEF Pairing

\* Linked numbers are the same channel: two ends that both know of a channel agree on which
\* it is, through timeouts, refusals and closes, as long as numbers are not used again.
THEOREM SessionPaired == Spec => []Paired
<1>1. TypeOK /\ Pairing => Paired
  <2> SUFFICES ASSUME TypeOK, Pairing, NEW s \in Sides, NEW i \in Ids,
                      Chan(s, i).live, Chan(s, i).active,
                      Chan(Peer(s), Chan(s, i).remote).live, Chan(Peer(s), Chan(s, i).remote).active
               PROVE  Chan(Peer(s), Chan(s, i).remote).remote = i
    BY DEF Paired, Chan
  <2>1. SdOK /\ Peer(s) \in Sides /\ Peer(Peer(s)) = s
    BY PeerFacts, PeerPeer DEF TypeOK, SdOK
  <2>2. PICK j \in Ids : j = Chan(s, i).remote
    BY <2>1, ChannelFacts DEF Chan
  <2>3. PICK k \in Ids : k = Chan(Peer(s), j).remote
    BY <2>1, ChannelFacts DEF Chan
  <2>4. Claims(s, i, j) /\ Claims(Peer(s), j, k)
    BY <2>2, <2>3 DEF Claims
  <2>5. Linked(Peer(s), j, i) /\ Linked(Peer(s), j, k)
    BY <2>1, <2>4 DEF Linked
  <2>6. i = k
    BY <2>1, <2>5 DEF Pairing, OneOne
  <2> QED
    BY <2>2, <2>3, <2>6
<1>2. TypeOK /\ TypeOK' /\ Known /\ Pairing /\ [Next]_vars => Pairing'
  BY PairingNext
<1>3. TypeOK /\ Known /\ [Next]_vars => Known'
  BY KnownNext
<1> QED
  BY <1>1, <1>2, <1>3, KnownInit, PairingInit, SessionTypes, PTL DEF Spec

-----------------------------------------------------------------------------
(* Order on the wires                                                       *)

\* Being behind the confirmation lasts until the confirmation is read, and then it is
\* no longer needed.
LEMMA CloseBehindKept ==
    ASSUME WireOK, CloseBehind, NEW s \in Sides, NEW j \in Ids,
           Half(Peer(s), j)' => Half(Peer(s), j) \/ \A m \in Out(s)' : m.type = "close" => m.to # j,
           \/ Rests(s)
           \/ Drops(s) /\ (Head(wire[s]).type = "success" /\ Head(wire[s]).to = j => ~Half(Peer(s), j)')
           \/ \E m \in Messages :
                 /\ Adds(s, m)
                 /\ m.type = "close" /\ m.to = j /\ Half(Peer(s), j)' =>
                       \E x \in Out(s) : x.type = "success" /\ x.to = j,
           NEW k \in DOMAIN wire'[s], wire'[s][k].type = "close", wire'[s][k].to = j, Half(Peer(s), j)'
    PROVE  \E l \in DOMAIN wire'[s] : l < k /\ wire'[s][l].type = "success" /\ wire'[s][l].to = j
<1>1. Half(Peer(s), j)
  <2>1. wire'[s][k] \in Out(s)'
    BY DEF Out
  <2> QED
    BY <2>1
<1>2. CASE Rests(s)
  BY <1>1, <1>2 DEF Rests, CloseBehind
<1>3. CASE Drops(s) /\ (Head(wire[s]).type = "success" /\ Head(wire[s]).to = j => ~Half(Peer(s), j)')
  <2>1. k + 1 \in DOMAIN wire[s] /\ wire'[s][k] = wire[s][k + 1] /\ k \in Nat
    BY <1>3, DropFacts
  <2>2. PICK l \in DOMAIN wire[s] : l < k + 1 /\ wire[s][l].type = "success" /\ wire[s][l].to = j
    BY <1>1, <2>1 DEF CloseBehind
  <2>3. l # 1 /\ l \in Nat
    BY <1>3, <2>2, DropFacts
  <2>4. l - 1 \in DOMAIN wire'[s] /\ wire'[s][l - 1] = wire[s][l]
    BY <1>3, <2>2, <2>3, DropFacts
  <2>5. l - 1 < k
    BY <2>1, <2>2, <2>3
  <2> QED
    BY <2>2, <2>4, <2>5
<1>4. ASSUME NEW m \in Messages, Adds(s, m),
             m.type = "close" /\ m.to = j /\ Half(Peer(s), j)' =>
                       \E x \in Out(s) : x.type = "success" /\ x.to = j
      PROVE  \E l \in DOMAIN wire'[s] : l < k /\ wire'[s][l].type = "success" /\ wire'[s][l].to = j
  <2>1. /\ DOMAIN wire'[s] = 1..(Len(wire[s]) + 1) /\ DOMAIN wire[s] = 1..Len(wire[s])
        /\ Len(wire[s]) \in Nat /\ wire'[s][Len(wire[s]) + 1] = m
        /\ \A n \in DOMAIN wire[s] : wire'[s][n] = wire[s][n]
    BY <1>4, AddFacts
  <2>2. \A n \in DOMAIN wire[s] : n \in DOMAIN wire'[s]
    BY <2>1
  <2>3. CASE k \in DOMAIN wire[s]
    BY <1>1, <2>1, <2>2, <2>3 DEF CloseBehind
  <2>4. CASE k = Len(wire[s]) + 1
    <3>1. PICK x \in Out(s) : x.type = "success" /\ x.to = j
      BY <1>4, <2>1, <2>4
    <3>2. PICK l \in DOMAIN wire[s] : x = wire[s][l]
      BY DEF Out
    <3>3. l < k
      BY <2>1, <2>4, <3>2
    <3> QED
      BY <2>1, <2>2, <3>1, <3>2, <3>3
  <2> QED
    BY <2>1, <2>3, <2>4
<1> QED
  BY <1>2, <1>3, <1>4

\* A confirmed Channel lives on, or its CLOSE comes behind.
LEMMA ConfirmedLivesKept ==
    ASSUME WireOK, ConfirmedLives, NEW s \in Sides, NEW i \in Ids, NEW j \in Ids,
           Confirmed(s, i, j) /\ Chan(s, i).live => Chan(s, i)'.live,
           \/ Rests(s) \/ Drops(s)
           \/ \E m \in Messages :
                 /\ Adds(s, m)
                 /\ m.type = "success" /\ m.from = i /\ m.to = j => Chan(s, i)'.live,
           NEW k \in DOMAIN wire'[s], wire'[s][k].type = "success", wire'[s][k].from = i,
           wire'[s][k].to = j
    PROVE  \/ Chan(s, i)'.live
           \/ \E l \in DOMAIN wire'[s] : k < l /\ wire'[s][l].type = "close" /\ wire'[s][l].to = j
<1>1. ASSUME NEW n \in DOMAIN wire[s], wire[s][n].type = "success", wire[s][n].from = i,
             wire[s][n].to = j
      PROVE  \/ Chan(s, i)'.live
             \/ \E l \in DOMAIN wire[s] : n < l /\ wire[s][l].type = "close" /\ wire[s][l].to = j
  <2>1. Confirmed(s, i, j)
    BY <1>1 DEF Confirmed, Out
  <2> QED
    BY <1>1, <2>1 DEF ConfirmedLives
<1>2. CASE Rests(s)
  BY <1>1, <1>2 DEF Rests
<1>3. CASE Drops(s)
  <2>1. k + 1 \in DOMAIN wire[s] /\ wire'[s][k] = wire[s][k + 1] /\ k \in Nat
    BY <1>3, DropFacts
  <2>2. ASSUME NEW l \in DOMAIN wire[s], k + 1 < l
        PROVE  l - 1 \in DOMAIN wire'[s] /\ wire'[s][l - 1] = wire[s][l] /\ k < l - 1
    <3>1. l # 1 /\ l \in Nat
      BY <1>3, <2>1, <2>2, DropFacts
    <3>2. l - 1 \in DOMAIN wire'[s] /\ wire'[s][l - 1] = wire[s][l]
      BY <1>3, <3>1, DropFacts
    <3> QED
      BY <2>1, <2>2, <3>1, <3>2
  <2> QED
    BY <1>1, <2>1, <2>2
<1>4. ASSUME NEW m \in Messages, Adds(s, m),
             m.type = "success" /\ m.from = i /\ m.to = j => Chan(s, i)'.live
      PROVE  \/ Chan(s, i)'.live
             \/ \E l \in DOMAIN wire'[s] : k < l /\ wire'[s][l].type = "close" /\ wire'[s][l].to = j
  <2>1. /\ DOMAIN wire'[s] = 1..(Len(wire[s]) + 1) /\ DOMAIN wire[s] = 1..Len(wire[s])
        /\ Len(wire[s]) \in Nat /\ wire'[s][Len(wire[s]) + 1] = m
        /\ \A n \in DOMAIN wire[s] : wire'[s][n] = wire[s][n]
    BY <1>4, AddFacts
  <2>2. \A n \in DOMAIN wire[s] : n \in DOMAIN wire'[s]
    BY <2>1
  <2>3. CASE k \in DOMAIN wire[s]
    BY <1>1, <2>1, <2>2, <2>3
  <2>4. CASE k = Len(wire[s]) + 1
    BY <1>4, <2>1, <2>4
  <2> QED
    BY <2>1, <2>3, <2>4
<1> QED
  BY <1>2, <1>3, <1>4

\* A confirmation is sent once.
LEMMA ConfirmedOnceKept ==
    ASSUME WireOK, ConfirmedOnce, NEW s \in Sides,
           \/ Rests(s) \/ Drops(s)
           \/ \E m \in Messages :
                 /\ Adds(s, m)
                 /\ m.type = "success" => \A x \in Out(s) : x.type = "success" => x.to # m.to,
           NEW k \in DOMAIN wire'[s], NEW l \in DOMAIN wire'[s],
           wire'[s][k].type = "success", wire'[s][l].type = "success", wire'[s][k].to = wire'[s][l].to
    PROVE  k = l
<1>1. CASE Rests(s)
  BY <1>1 DEF Rests, ConfirmedOnce
<1>2. CASE Drops(s)
  <2>1. /\ k + 1 \in DOMAIN wire[s] /\ wire'[s][k] = wire[s][k + 1] /\ k \in Nat
        /\ l + 1 \in DOMAIN wire[s] /\ wire'[s][l] = wire[s][l + 1] /\ l \in Nat
    BY <1>2, DropFacts
  <2>2. k + 1 = l + 1
    BY <2>1 DEF ConfirmedOnce
  <2> QED
    BY <2>1, <2>2
<1>3. ASSUME NEW m \in Messages, Adds(s, m),
             m.type = "success" => \A x \in Out(s) : x.type = "success" => x.to # m.to
      PROVE  k = l
  <2>1. /\ DOMAIN wire'[s] = 1..(Len(wire[s]) + 1) /\ DOMAIN wire[s] = 1..Len(wire[s])
        /\ Len(wire[s]) \in Nat /\ wire'[s][Len(wire[s]) + 1] = m
        /\ \A n \in DOMAIN wire[s] : wire'[s][n] = wire[s][n]
    BY <1>3, AddFacts
  <2>2. \A n \in DOMAIN wire[s] : wire'[s][n] \in Out(s)
    BY <2>1 DEF Out
  <2>3. CASE k \in DOMAIN wire[s] /\ l \in DOMAIN wire[s]
    BY <2>1, <2>3 DEF ConfirmedOnce
  <2>4. CASE ~(k \in DOMAIN wire[s] /\ l \in DOMAIN wire[s])
    <3>1. \A n \in DOMAIN wire'[s] : n \in DOMAIN wire[s] \/ n = Len(wire[s]) + 1
      BY <2>1
    <3> QED
      BY <1>3, <2>1, <2>2, <2>4, <3>1
  <2> QED
    BY <2>3, <2>4
<1> QED
  BY <1>1, <1>2, <1>3

-----------------------------------------------------------------------------
(* Channels leave both tables together                                      *)

\* A Channel becomes known by the confirmation at the head of the peer's wire.
Learns(s, i, j) ==
    /\ Drops(Peer(s)) /\ Head(wire[Peer(s)]).type = "success"
    /\ Head(wire[Peer(s)]).to = i /\ Head(wire[Peer(s)]).from = j
    /\ ~Chan(s, i)'.closed
    /\ \A b \in Ids : Chan(Peer(s), b)' = Chan(Peer(s), b)

\* A Channel leaves with the refusal or the CLOSE at the head of the peer's wire, and
\* answers the CLOSE.
Leaves(s, i) ==
    /\ Drops(Peer(s)) /\ Head(wire[Peer(s)]).to = i
    /\ \/ Head(wire[Peer(s)]).type = "failure"
       \/ /\ Head(wire[Peer(s)]).type = "close"
          /\ \A j \in Ids : KnownAs(s, i, j) /\ ~Chan(s, i).closed => ClosesAt(s, j)'

\* A tame step of a session that is intact: messages that leave the wire have had their effect.
Settles ==
    /\ Tame
    /\ \A s \in Sides : \A i \in Ids :
          Half(s, i)' => Half(s, i) /\ sd'[s].events[i] = sd[s].events[i]
    /\ \A s \in Sides : \A j \in Ids : \A m \in Out(s) : m \notin Out(s)' =>
          /\ m.type # "open"
          /\ m.type \in {"success", "failure"} /\ m.to = j => ~Half(Peer(s), j)'
          /\ m.type = "close" /\ m.to = j => ~Chan(Peer(s), j)'.live
    /\ \A s \in Sides : \A j \in Ids :
          Drops(s) /\ Head(wire[s]).type = "success" /\ Head(wire[s]).to = j => ~Half(Peer(s), j)'
    /\ \A s \in Sides : \A i, j \in Ids : KnownAs(s, i, j)' =>
          \/ KnownAs(s, i, j) /\ (Chan(s, i)'.closed => Chan(s, i).closed \/ ClosesAt(s, j)')
          \/ Learns(s, i, j)
    /\ \A s \in Sides : \A i \in Ids : Chan(s, i).live /\ ~Chan(s, i)'.live => Leaves(s, i)

\* The head of a wire that is read, as a member of the set of messages.
LEMMA HeadOut ==
    ASSUME WireOK, NEW s \in Sides, Drops(s)
    PROVE  /\ Head(wire[s]) \in Out(s) /\ Head(wire[s]) = wire[s][1] /\ 1 \in DOMAIN wire[s]
           /\ \A k \in DOMAIN wire[s] : k \in Nat /\ k > 0
<1>1. wire[s] \in Seq(Messages)
  BY DEF WireOK
<1> QED
  BY <1>1, DropFacts

\* A link follows from each of its traces.
LEMMA LinkTraces ==
    ASSUME NEW s \in Sides, NEW i \in Ids, NEW j \in Ids
    PROVE  /\ KnownAs(s, i, j) => Linked(s, i, j) /\ Linked(Peer(s), j, i)
           /\ Confirmed(s, i, j) => Linked(s, i, j) /\ Linked(Peer(s), j, i)
  BY PeerPeer DEF KnownAs, Confirmed, Claims, Linked

\* A Channel whose CLOSE arrives is known, and the only one to be known under its number.
LEMMA LeavesKnown ==
    ASSUME TypeOK, Pairing, Steady, NEW s \in Sides, NEW i \in Ids, Leaves(s, i), Chan(s, i).live
    PROVE  /\ Half(s, i) => Head(wire[Peer(s)]).type = "failure"
           /\ \A j \in Ids : KnownAs(Peer(s), j, i) =>
                  KnownAs(s, i, j) /\ (~Chan(s, i).closed => ClosesAt(s, j)')
<1> USE DEF Pairing, Steady
<1>1. SdOK /\ ThOK /\ WireOK
  BY DEF TypeOK, SdOK, ThOK, WireOK
<1>2. Peer(s) \in Sides /\ Peer(Peer(s)) = s
  BY PeerFacts, PeerPeer
<1>3. PICK h : h = Head(wire[Peer(s)])
  OBVIOUS
<1>4. h \in Out(Peer(s)) /\ h = wire[Peer(s)][1] /\ 1 \in DOMAIN wire[Peer(s)] /\ h.to = i
      /\ \A k \in DOMAIN wire[Peer(s)] : k \in Nat /\ k > 0
  BY <1>1, <1>2, <1>3, HeadOut DEF Leaves
<1>5. ASSUME Half(s, i), h.type = "close" PROVE FALSE
  <2>1. PICK l \in DOMAIN wire[Peer(s)] : l < 1
    BY <1>2, <1>4, <1>5 DEF CloseBehind
  <2> QED
    BY <1>4, <2>1
<1>6. ASSUME NEW j \in Ids, KnownAs(Peer(s), j, i)
      PROVE  KnownAs(s, i, j) /\ (~Chan(s, i).closed => ClosesAt(s, j)')
  <2>1. Linked(s, i, j)
    BY <1>2, <1>6, LinkTraces
  <2>2. h.type # "failure"
    BY <1>2, <1>4, <2>1 DEF Refusals
  <2>3. h.type = "close"
    BY <1>3, <2>2 DEF Leaves
  <2>4. Chan(s, i).active
    BY <1>5, <2>3 DEF Half
  <2>5. PICK b \in Ids : b = Chan(s, i).remote
    BY <1>1, ChannelFacts DEF Chan
  <2>6. KnownAs(s, i, b)
    BY <2>4, <2>5 DEF KnownAs
  <2>7. b = j
    BY <2>1, <2>6, LinkTraces DEF OneOne
  <2> QED
    BY <1>3, <2>3, <2>6, <2>7 DEF Leaves
<1> QED
  BY <1>3, <1>5, <1>6 DEF Leaves

\* Such steps keep the tables in step.
LEMMA SteadySettles ==
    ASSUME TypeOK, TypeOK', Known, Pairing, Pairing', Steady, Settles
    PROVE  Steady'
<1> USE DEF Steady
<1>1. SdOK /\ ThOK /\ WireOK /\ Onward /\ Tame
  BY DEF TypeOK, SdOK, ThOK, WireOK, Settles, Tame
<1>2. \A s \in Sides : Peer(s) \in Sides /\ Peer(Peer(s)) = s
  BY PeerFacts, PeerPeer
<1>3. \A s \in Sides : Modest(s)
  BY <1>1 DEF Tame
<1>4. \A s \in Sides : \A m \in Out(s)' : m.type \in {"open", "success", "failure"} => m \in Out(s)
  BY <1>1, <1>3, ModestFacts DEF Plain
<1>5. \A u \in Users : Pending(u)' => Pending(u) /\ th'[u].id = th[u].id
  BY <1>1, <1>4, OnwardPending DEF Pairing
<1>6. \A s \in Sides : \A i \in Ids : Half(s, i)' => Half(s, i) /\ sd'[s].events[i] = sd[s].events[i]
  BY DEF Settles
<1>7. \A s \in Sides : \A j \in Ids : \A m \in Out(s) : m \notin Out(s)' =>
          /\ m.type # "open"
          /\ m.type \in {"success", "failure"} /\ m.to = j => ~Half(Peer(s), j)'
          /\ m.type = "close" /\ m.to = j => ~Chan(Peer(s), j)'.live
  BY DEF Settles
<1>8. \A s \in Sides : \A i, j \in Ids : KnownAs(s, i, j)' =>
          \/ KnownAs(s, i, j) /\ (Chan(s, i)'.closed => Chan(s, i).closed \/ ClosesAt(s, j)')
          \/ Learns(s, i, j)
  BY DEF Settles
<1>9. \A s \in Sides : \A i \in Ids : Chan(s, i).live /\ ~Chan(s, i)'.live => Leaves(s, i)
  BY DEF Settles
<1>10. \A s \in Sides : \A i \in Ids : /\ Chan(s, i)'.live => Chan(s, i).live
                                       /\ Chan(s, i)'.active => Chan(s, i)'.live
                                       /\ Chan(s, i).active => Chan(s, i).live
  BY <1>1 DEF Tame, Pairing, TableKnown
<1>11. \A s \in Sides : \A i, j \in Ids : Learns(s, i, j) => Confirmed(Peer(s), j, i)
  BY <1>1, <1>2, HeadOut DEF Learns, Confirmed
<1>12. \A s \in Sides : \A i \in Ids :
          ClosesAt(Peer(s), i) /\ Chan(s, i)'.live => ClosesAt(Peer(s), i)'
  BY <1>2, <1>7 DEF ClosesAt
<1>13. Decided'
  <2>1. ASSUME NEW s \in Sides, NEW i \in Ids, Half(s, i)'
        PROVE  /\ sd'[s].events[i] # Nobody
               /\ \/ \E u \in Users : Pending(u)' /\ SideOf[u] = s /\ th'[u].id = i
                  \/ \E m \in Out(Peer(s))' : m.type \in {"success", "failure"} /\ m.to = i
    <3>1. Half(s, i) /\ sd'[s].events[i] = sd[s].events[i]
      BY <1>6, <2>1
    <3>2. CASE \E u \in Users : Pending(u) /\ SideOf[u] = s /\ th[u].id = i
      <4>1. PICK u \in Users : Pending(u) /\ SideOf[u] = s /\ th[u].id = i
        BY <3>2
      <4>2. th'[u].id = i
        BY <1>1, <4>1, PendingFacts DEF Pairing, Onward
      <4>3. Pending(u)'
        <5>1. CASE th[u].pc = "opensend"
          BY <1>1, <5>1 DEF Onward, Pending
        <5>2. CASE \E m \in Out(SideOf[u]) : m.type = "open" /\ m.user = u
          BY <1>7, <4>1, <5>2 DEF Pending
        <5> QED
          BY <4>1, <5>1, <5>2 DEF Pending
      <4> QED
        BY <3>1, <4>1, <4>2, <4>3 DEF Decided
    <3>3. CASE \E m \in Out(Peer(s)) : m.type \in {"success", "failure"} /\ m.to = i
      <4>1. PICK m \in Out(Peer(s)) : m.type \in {"success", "failure"} /\ m.to = i
        BY <3>3
      <4>2. m \in Out(Peer(s))'
        BY <1>2, <1>7, <2>1, <4>1
      <4> QED
        BY <3>1, <4>1, <4>2 DEF Decided
    <3> QED
      BY <3>1, <3>2, <3>3 DEF Decided
  <2> QED
    BY <2>1 DEF Decided
<1>14. Waiting'
  <2>1. ASSUME NEW u \in Users, NEW i \in Ids, Pending(u)', th'[u].id = i
        PROVE  Half(SideOf[u], i)'
    <3>1. PICK s \in Sides : s = SideOf[u]
      BY SessionAssumption
    <3>2. Pending(u) /\ th[u].id = i /\ Half(s, i)
      BY <1>5, <2>1, <3>1 DEF Waiting
    <3>3. \A j \in Ids : ~Linked(s, i, j)
      BY <3>1, <3>2 DEF Pairing, Unanswered
    <3>4. Chan(s, i)'.live
      <4>1. ASSUME Leaves(s, i) PROVE FALSE
        <5>1. Chan(s, i).live
          BY <3>2 DEF Half
        <5>2. Drops(Peer(s)) /\ Head(wire[Peer(s)]).type = "failure" /\ Head(wire[Peer(s)]).to = i
          BY <3>2, <4>1, <5>1, LeavesKnown DEF Leaves
        <5>3. Head(wire[Peer(s)]) \in Out(Peer(s))
          BY <1>1, <1>2, <5>2, HeadOut
        <5> QED
          BY <1>2, <3>1, <3>2, <5>2, <5>3 DEF Refusals
      <4> QED
        BY <1>9, <3>2, <4>1 DEF Half
    <3>5. ~Chan(s, i)'.active
      <4>1. SUFFICES ASSUME Chan(s, i)'.active PROVE FALSE
        OBVIOUS
      <4>2. Chan(s, i)'.remote \in Ids
        <5>1. sd' \in [Sides -> SideStates]
          BY DEF TypeOK
        <5>2. sd'[s].channels[i] \in Channels
          BY <5>1 DEF SideStates
        <5> QED
          BY <5>2 DEF Channels, Chan
      <4>3. PICK j \in Ids : j = Chan(s, i)'.remote
        BY <4>2
      <4>4. KnownAs(s, i, j)'
        BY <4>1, <4>3 DEF KnownAs
      <4>5. ~KnownAs(s, i, j)
        BY <3>2 DEF Half, KnownAs
      <4>6. Confirmed(Peer(s), j, i)
        BY <1>8, <1>11, <4>4, <4>5
      <4>7. Linked(s, i, j)
        BY <1>2, <4>6, LinkTraces
      <4> QED
        BY <3>3, <4>7
    <3> QED
      BY <3>1, <3>4, <3>5 DEF Half
  <2> QED
    BY <2>1 DEF Waiting
<1>15. Mirrored'
  <2>1. ASSUME NEW s \in Sides, NEW i \in Ids, NEW j \in Ids, KnownAs(s, i, j)'
        PROVE  Chan(Peer(s), j)'.live \/ ClosesAt(Peer(s), i)'
    <3>1. Chan(s, i)'.live
      BY <1>10, <2>1 DEF KnownAs
    <3>2. CASE KnownAs(s, i, j)
      <4>1. CASE ClosesAt(Peer(s), i)
        BY <1>12, <3>1, <4>1
      <4>2. CASE Chan(Peer(s), j).live /\ ~Chan(Peer(s), j)'.live
        <5>1. Leaves(Peer(s), j)
          BY <1>2, <1>9, <4>2
        <5>2. KnownAs(Peer(s), j, i) /\ (~Chan(Peer(s), j).closed => ClosesAt(Peer(s), i)')
          BY <1>2, <3>2, <4>2, <5>1, LeavesKnown
        <5>3. CASE Chan(Peer(s), j).closed
          <6>1. ClosesAt(Peer(s), i) \/ ~Chan(s, i).live
            BY <1>2, <5>2, <5>3 DEF CloseSent
          <6>2. Chan(s, i).live
            BY <1>10, <3>2 DEF KnownAs
          <6> QED
            BY <1>12, <3>1, <6>1, <6>2
        <5> QED
          BY <5>2, <5>3
      <4> QED
        BY <3>2, <4>1, <4>2 DEF Mirrored
    <3>3. CASE Learns(s, i, j)
      <4>1. PICK p \in Sides : p = Peer(s)
        BY <1>2
      <4>2. /\ Drops(p) /\ wire[p][1].type = "success" /\ wire[p][1].to = i /\ wire[p][1].from = j
            /\ 1 \in DOMAIN wire[p] /\ Chan(p, j)' = Chan(p, j)
        BY <1>1, <3>3, <4>1, HeadOut DEF Learns
      <4>3. CASE Chan(p, j).live
        BY <4>1, <4>2, <4>3
      <4>4. CASE \E l \in DOMAIN wire[p] : 1 < l /\ wire[p][l].type = "close" /\ wire[p][l].to = i
        <5>1. PICK l \in DOMAIN wire[p] : 1 < l /\ wire[p][l].type = "close" /\ wire[p][l].to = i
          BY <4>4
        <5>2. ClosesAt(p, i)
          BY <5>1 DEF ClosesAt, Out
        <5> QED
          BY <1>12, <3>1, <4>1, <5>2
      <4> QED
        BY <4>2, <4>3, <4>4 DEF ConfirmedLives
    <3> QED
      BY <1>8, <2>1, <3>2, <3>3
  <2> QED
    BY <2>1 DEF Mirrored
<1>16. CloseSent'
  <2>1. ASSUME NEW s \in Sides, NEW i \in Ids, NEW j \in Ids, KnownAs(s, i, j)', Chan(s, i)'.closed,
               Chan(Peer(s), j)'.live
        PROVE  ClosesAt(s, j)'
    <3>1. KnownAs(s, i, j) /\ (Chan(s, i).closed \/ ClosesAt(s, j)')
      BY <1>8, <2>1 DEF Learns
    <3>2. CASE Chan(s, i).closed
      <4>1. Chan(Peer(s), j).live
        BY <1>2, <1>10, <2>1
      <4>2. ClosesAt(s, j)
        BY <3>1, <3>2, <4>1 DEF CloseSent
      <4>3. PICK p \in Sides : p = Peer(s) /\ Peer(p) = s
        BY <1>2
      <4> QED
        BY <1>12, <2>1, <4>2, <4>3
    <3> QED
      BY <3>1, <3>2
  <2> QED
    BY <2>1 DEF CloseSent
<1>17. Confirming'
  <2>1. ASSUME NEW s \in Sides, NEW i \in Ids, NEW j \in Ids, KnownAs(s, i, j)', Half(Peer(s), j)'
        PROVE  \E m \in Out(s)' : m.type = "success" /\ m.to = j
    <3>1. Half(Peer(s), j)
      BY <1>2, <1>6, <2>1
    <3>2. KnownAs(s, i, j)
      <4>1. Learns(s, i, j) => ~Half(Peer(s), j)
        BY <1>2, <1>11 DEF News
      <4> QED
        BY <1>8, <2>1, <3>1, <4>1
    <3>3. PICK m \in Out(s) : m.type = "success" /\ m.to = j
      BY <3>1, <3>2 DEF Confirming
    <3>4. m \in Out(s)'
      BY <1>7, <2>1, <3>3
    <3> QED
      BY <3>3, <3>4
  <2> QED
    BY <2>1 DEF Confirming
<1>18. News'
  <2>1. ASSUME NEW s \in Sides, NEW i \in Ids, NEW j \in Ids, Confirmed(s, i, j)'
        PROVE  ~Half(s, i)' /\ ~Chan(Peer(s), j)'.active /\ ~ClosesAt(Peer(s), i)'
    <3>1. PICK m \in Out(s)' : m.type = "success" /\ m.from = i /\ m.to = j
      BY <2>1 DEF Confirmed
    <3>2. m \in Out(s) /\ Confirmed(s, i, j)
      BY <1>4, <3>1 DEF Confirmed
    <3>3. ~Half(s, i) /\ ~Chan(Peer(s), j).active /\ ~ClosesAt(Peer(s), i)
      BY <3>2 DEF News
    <3>4. ~Chan(Peer(s), j)'.active
      <4>1. SUFFICES ASSUME Chan(Peer(s), j)'.active PROVE FALSE
        OBVIOUS
      <4>2. PICK p \in Sides : p = Peer(s) /\ Peer(p) = s
        BY <1>2
      <4>3. Chan(p, j)'.remote \in Ids
        <5>1. sd' \in [Sides -> SideStates]
          BY DEF TypeOK
        <5>2. sd'[p].channels[j] \in Channels
          BY <5>1 DEF SideStates
        <5> QED
          BY <5>2 DEF Channels, Chan
      <4>4. PICK a \in Ids : a = Chan(p, j)'.remote
        BY <4>3
      <4>5. KnownAs(p, j, a)' /\ ~KnownAs(p, j, a)
        BY <3>3, <4>1, <4>2, <4>4 DEF KnownAs
      <4>6. Learns(p, j, a)
        BY <1>8, <4>5
      <4>7. Drops(s) /\ wire[s][1].type = "success" /\ wire[s][1].to = j /\ 1 \in DOMAIN wire[s]
        BY <1>1, <4>2, <4>6, HeadOut DEF Learns
      <4>8. PICK k \in DOMAIN wire'[s] : m = wire'[s][k]
        BY DEF Out
      <4>9. k + 1 \in DOMAIN wire[s] /\ m = wire[s][k + 1] /\ k \in Nat /\ k > 0
        BY <1>1, <4>7, <4>8, DropFacts
      <4>10. k + 1 = 1
        BY <3>1, <4>7, <4>9 DEF ConfirmedOnce
      <4> QED
        BY <4>9, <4>10
    <3>5. ~ClosesAt(Peer(s), i)'
      <4>1. SUFFICES ASSUME ClosesAt(Peer(s), i)' PROVE FALSE
        OBVIOUS
      <4>2. PICK x \in Out(Peer(s))' : x.type = "close" /\ x.to = i
        BY <4>1 DEF ClosesAt
      <4>3. x \notin Out(Peer(s))
        BY <3>3, <4>2 DEF ClosesAt
      <4>4. PICK a \in Ids : Chan(Peer(s), a).active /\ Chan(Peer(s), a).remote = i
        BY <1>1, <1>2, <1>3, <4>2, <4>3, ModestFacts DEF Plain
      <4>5. Linked(s, i, a)
        BY <1>2, <4>4, LinkTraces DEF KnownAs
      <4>6. Linked(s, i, j)
        BY <3>2, LinkTraces
      <4>7. a = j
        BY <4>5, <4>6 DEF Pairing, OneOne
      <4> QED
        BY <3>3, <4>4, <4>7
    <3> QED
      BY <1>6, <3>3, <3>4, <3>5
  <2> QED
    BY <2>1 DEF News
<1>19. Refusals'
  <2>1. ASSUME NEW s \in Sides, NEW j \in Ids, NEW m \in Out(s)', m.type = "failure", m.to = j
        PROVE  /\ \A i \in Ids : ~Linked(Peer(s), j, i)'
               /\ \A u \in Users : Pending(u)' /\ SideOf[u] = Peer(s) => th'[u].id # j
    <3>1. m \in Out(s)
      BY <1>4, <2>1
    <3>2. /\ \A i \in Ids : ~Linked(Peer(s), j, i)
          /\ \A u \in Users : Pending(u) /\ SideOf[u] = Peer(s) => th[u].id # j
      BY <2>1, <3>1 DEF Refusals
    <3>3. \A i \in Ids : Linked(Peer(s), j, i)' => Linked(Peer(s), j, i)
      BY <1>1, <1>2, TameLinks
    <3> QED
      BY <1>5, <3>2, <3>3
  <2> QED
    BY <2>1 DEF Refusals
<1>20. CloseBehind'
  <2>1. ASSUME NEW s \in Sides, NEW j \in Ids
        PROVE  \/ Rests(s)
               \/ Drops(s) /\ (Head(wire[s]).type = "success" /\ Head(wire[s]).to = j => ~Half(Peer(s), j)')
               \/ \E m \in Messages :
                     /\ Adds(s, m)
                     /\ m.type = "close" /\ m.to = j /\ Half(Peer(s), j)' =>
                           \E x \in Out(s) : x.type = "success" /\ x.to = j
    <3>1. CASE Drops(s)
      BY <3>1 DEF Settles
    <3>2. ASSUME NEW m \in Messages, Adds(s, m), m.type \in Plain
          PROVE  \E x \in Messages : Adds(s, x) /\ x.type # "close"
      BY <3>2 DEF Plain
    <3>3. ASSUME NEW m \in Messages, Adds(s, m), NEW i \in Ids, Chan(s, i).active, Chan(s, i).remote = m.to
          PROVE  m.to = j /\ Half(Peer(s), j)' => \E x \in Out(s) : x.type = "success" /\ x.to = j
      <4>1. SUFFICES ASSUME m.to = j, Half(Peer(s), j)'
                     PROVE  \E x \in Out(s) : x.type = "success" /\ x.to = j
        OBVIOUS
      <4>2. KnownAs(s, i, j) /\ Half(Peer(s), j)
        BY <1>2, <1>6, <3>3, <4>1 DEF KnownAs
      <4> QED
        BY <4>2 DEF Confirming
    <3> QED
      BY <1>3, <3>1, <3>2, <3>3 DEF Modest
  <2>2. \A s \in Sides : \A j \in Ids : Half(Peer(s), j)' => Half(Peer(s), j)
    BY <1>2, <1>6
  <2> QED
    BY <1>1, <2>1, <2>2, CloseBehindKept DEF CloseBehind
<1>21. ConfirmedLives'
  <2>1. \A s \in Sides : \/ Rests(s) \/ Drops(s)
                         \/ \E m \in Messages : Adds(s, m) /\ m.type # "success"
    BY <1>3 DEF Modest, Plain
  <2>2. ASSUME NEW s \in Sides, NEW i \in Ids, NEW j \in Ids, Confirmed(s, i, j), Chan(s, i).live
        PROVE  Chan(s, i)'.live
    <3>1. SUFFICES ASSUME ~Chan(s, i)'.live PROVE FALSE
      OBVIOUS
    <3>2. Leaves(s, i)
      BY <1>9, <2>2, <3>1
    <3>3. /\ Head(wire[Peer(s)]) \in Out(Peer(s)) /\ Head(wire[Peer(s)]).to = i
          /\ Head(wire[Peer(s)]).type \in {"failure", "close"}
      BY <1>1, <1>2, <3>2, HeadOut DEF Leaves
    <3>4. CASE Head(wire[Peer(s)]).type = "close"
      <4>1. ClosesAt(Peer(s), i)
        BY <3>3, <3>4 DEF ClosesAt
      <4> QED
        BY <2>2, <4>1 DEF News
    <3>5. CASE Head(wire[Peer(s)]).type = "failure"
      <4>1. ~Linked(s, i, j)
        BY <1>2, <3>3, <3>5 DEF Refusals
      <4> QED
        BY <2>2, <4>1, LinkTraces
    <3> QED
      BY <3>3, <3>4, <3>5
  <2> QED
    BY <1>1, <2>1, <2>2, ConfirmedLivesKept DEF ConfirmedLives
<1>22. ConfirmedOnce'
  <2>1. \A s \in Sides : \/ Rests(s) \/ Drops(s)
                         \/ \E m \in Messages : Adds(s, m) /\ m.type # "success"
    BY <1>3 DEF Modest, Plain
  <2> QED
    BY <1>1, <2>1, ConfirmedOnceKept DEF ConfirmedOnce
<1> QED
  BY <1>13, <1>14, <1>15, <1>16, <1>17, <1>18, <1>19, <1>20, <1>21, <1>22

-----------------------------------------------------------------------------
(* The steps that settle                                                    *)

\* A wire that is read is not written.
LEMMA OneWay ==
    ASSUME WireOK, NEW s \in Sides, Drops(s)
    PROVE  ~Rests(s) /\ \A m \in Messages : ~Adds(s, m)
<1>1. PICK q \in Seq(Messages) : q = wire[s] /\ q # <<>>
  BY DEF WireOK, Drops
<1>2. Len(Tail(q)) = Len(q) - 1 /\ Len(q) \in Nat /\ \A m \in Messages : Len(Append(q, m)) = Len(q) + 1
  BY <1>1
<1>3. wire'[s] = Tail(q)
  BY <1>1 DEF Drops
<1>4. Tail(q) # q /\ \A m \in Messages : Tail(q) # Append(q, m)
  <2>1. Len(Tail(q)) # Len(q) /\ \A m \in Messages : Len(Tail(q)) # Len(Append(q, m))
    BY <1>2
  <2> QED
    BY <2>1
<1> QED
  BY <1>1, <1>3, <1>4 DEF Rests, Adds

\* A message that leaves a wire is its head.
LEMMA GoneFacts ==
    ASSUME WireOK, NEW s \in Sides, Modest(s), NEW m \in Out(s), m \notin Out(s)'
    PROVE  Drops(s) /\ m = Head(wire[s])
<1>1. ~Rests(s)
  BY RestFacts
<1>2. \A x \in Messages : ~Adds(s, x)
  BY AddFacts
<1>3. Drops(s)
  BY <1>1, <1>2 DEF Modest
<1> QED
  BY <1>3, DropFacts

\* Both tables are kept.
LEMMA StillSettles ==
    ASSUME TypeOK, Tame, \A r \in Sides : Held(r),
           \A r \in Sides : Drops(r) =>
              /\ Head(wire[r]).type \notin {"open", "close"}
              /\ Head(wire[r]).type \in {"success", "failure"} => ~Half(Peer(r), Head(wire[r]).to)
    PROVE  Settles
<1>1. SdOK /\ ThOK /\ WireOK /\ \A r \in Sides : Modest(r) /\ Peer(r) \in Sides
  BY PeerFacts DEF TypeOK, SdOK, ThOK, WireOK, Tame
<1>2. \A r \in Sides : \A j \in Ids : Chan(r, j)' = Chan(r, j) /\ sd'[r].events = sd[r].events
  BY <1>1, HeldTable DEF Held
<1>3. \A r \in Sides : \A j \in Ids : Half(r, j)' <=> Half(r, j)
  BY <1>2 DEF Half
<1>4. \A r \in Sides : \A j, k \in Ids : KnownAs(r, j, k)' <=> KnownAs(r, j, k)
  BY <1>2 DEF KnownAs
<1>5. ASSUME NEW r \in Sides, NEW j \in Ids, NEW m \in Out(r), m \notin Out(r)'
      PROVE  /\ m.type # "open"
             /\ m.type \in {"success", "failure"} /\ m.to = j => ~Half(Peer(r), j)'
             /\ m.type = "close" /\ m.to = j => ~Chan(Peer(r), j)'.live
  BY <1>1, <1>3, <1>5, GoneFacts
<1>6. ASSUME NEW r \in Sides, NEW j \in Ids, Drops(r), Head(wire[r]).type = "success", Head(wire[r]).to = j
      PROVE  ~Half(Peer(r), j)'
  BY <1>1, <1>3, <1>6
<1> QED
  BY <1>2, <1>3, <1>4, <1>5, <1>6 DEF Settles

\* One entry of one table is replaced.
LEMMA EntrySettles ==
    ASSUME TypeOK, Tame, NEW s \in Sides, NEW i \in Ids, NEW c, HeldBut(s, i, c), Held(Peer(s)),
           c.live => c.active,
           \A r \in Sides : Drops(r) =>
              /\ r = Peer(s) /\ Head(wire[r]).to = i /\ Head(wire[r]).type # "open"
              /\ Head(wire[r]).type = "close" => ~c.live,
           c.active => \/ /\ Chan(s, i).active /\ c.remote = Chan(s, i).remote
                          /\ c.closed => Chan(s, i).closed \/ ClosesAt(s, c.remote)'
                       \/ /\ Drops(Peer(s)) /\ Head(wire[Peer(s)]).type = "success"
                          /\ Head(wire[Peer(s)]).from = c.remote /\ ~c.closed,
           Chan(s, i).live /\ ~c.live => Leaves(s, i)
    PROVE  Settles
<1>1. SdOK /\ ThOK /\ WireOK /\ \A r \in Sides : Modest(r)
  BY DEF TypeOK, SdOK, ThOK, WireOK, Tame
<1>2. Peer(s) \in Sides /\ Peer(s) # s /\ Peer(Peer(s)) = s /\ \A r \in Sides : r = s \/ r = Peer(s)
  BY PeerFacts, TwoSides, PeerPeer
<1>3. \A j \in Ids : Chan(s, j)' = IF j = i THEN c ELSE Chan(s, j)
  BY <1>1, HeldTable
<1>4. \A j \in Ids : Chan(Peer(s), j)' = Chan(Peer(s), j)
  BY <1>1, <1>2, HeldTable
<1>5. \A r \in Sides : \A j \in Ids : (r = s /\ j = i) \/ Chan(r, j)' = Chan(r, j)
  BY <1>2, <1>3, <1>4
<1>6. \A r \in Sides : \A j \in Ids : (r = s /\ j = i) \/ sd'[r].events[j] = sd[r].events[j]
  BY <1>2 DEF Held, HeldBut
<1>7. ~Half(s, i)' /\ Chan(s, i)' = c
  BY <1>3 DEF Half
<1>8. \A r \in Sides : \A j \in Ids : Half(r, j)' => Half(r, j) /\ sd'[r].events[j] = sd[r].events[j]
  BY <1>5, <1>6, <1>7 DEF Half
<1>9. ASSUME NEW r \in Sides, NEW j \in Ids, NEW m \in Out(r), m \notin Out(r)'
      PROVE  /\ m.type # "open"
             /\ m.type \in {"success", "failure"} /\ m.to = j => ~Half(Peer(r), j)'
             /\ m.type = "close" /\ m.to = j => ~Chan(Peer(r), j)'.live
  <2>1. Drops(r) /\ m = Head(wire[r])
    BY <1>1, <1>9, GoneFacts
  <2> QED
    BY <1>2, <1>7, <2>1
<1>10. ASSUME NEW r \in Sides, NEW j \in Ids, Drops(r), Head(wire[r]).type = "success", Head(wire[r]).to = j
       PROVE  ~Half(Peer(r), j)'
  BY <1>2, <1>7, <1>10
<1>11. ASSUME NEW r \in Sides, NEW a \in Ids, NEW b \in Ids, KnownAs(r, a, b)'
       PROVE  \/ KnownAs(r, a, b) /\ (Chan(r, a)'.closed => Chan(r, a).closed \/ ClosesAt(r, b)')
              \/ Learns(r, a, b)
  <2>1. CASE Chan(r, a)' = Chan(r, a)
    BY <1>11, <2>1 DEF KnownAs
  <2>2. CASE r = s /\ a = i
    <3>1. c.active /\ c.remote = b
      BY <1>7, <1>11, <2>2 DEF KnownAs
    <3>2. CASE /\ Chan(s, i).active /\ c.remote = Chan(s, i).remote
               /\ c.closed => Chan(s, i).closed \/ ClosesAt(s, b)'
      BY <1>7, <2>2, <3>1, <3>2 DEF KnownAs
    <3>3. CASE /\ Drops(Peer(s)) /\ Head(wire[Peer(s)]).type = "success"
               /\ Head(wire[Peer(s)]).from = c.remote /\ ~c.closed
      BY <1>2, <1>4, <1>7, <2>2, <3>1, <3>3 DEF Learns
    <3> QED
      BY <3>1, <3>2, <3>3
  <2> QED
    BY <1>5, <2>1, <2>2
<1>12. ASSUME NEW r \in Sides, NEW a \in Ids, Chan(r, a).live, ~Chan(r, a)'.live
       PROVE  Leaves(r, a)
  BY <1>5, <1>7, <1>12
<1> QED
  BY <1>8, <1>9, <1>10, <1>11, <1>12 DEF Settles

\* All the steps of an intact session that are tame settle.
LEMMA StepsSettle ==
    ASSUME TypeOK, Steady, \A s \in Sides : sd[s].active,
           \/ Quiet
           \/ \E u \in Users : Closes(u)
           \/ \E s \in Sides : Confirms(s) \/ Forgets(s) \/ Ignores(s) \/ Shuts(s)
    PROVE  Settles
<1>1. SdOK /\ ThOK /\ WireOK
  BY DEF TypeOK, SdOK, ThOK, WireOK
<1>2. Tame
  BY <1>1, QuietTame, OthersTame
<1>3. \A s \in Sides : Peer(s) \in Sides /\ Peer(s) # s /\ Peer(Peer(s)) = s /\ \A r \in Sides : r = s \/ r = Peer(s)
  BY PeerFacts, TwoSides, PeerPeer
<1>4. \A s \in Sides : Drops(s) => ~Rests(s) /\ \A m \in Messages : ~Adds(s, m)
  BY <1>1, OneWay
<1>5. \A s \in Sides : \A i \in Ids : Told(s, i) => ~Drops(s)
  <2>1. \A s \in Sides : \A i \in Ids : Msg("close", Chan(s, i).remote, Unset, Nobody) \in Messages
    BY <1>1, CloseTypes
  <2> QED
    BY <1>4, <2>1 DEF Told
<1>6. ~NoChannel.live /\ ~NoChannel.active
  BY DEF NoChannel
<1>7. CASE Quiet
  <2>1. ASSUME NEW r \in Sides, Drops(r) PROVE Head(wire[r]).type \in Plain
    BY <1>4, <1>7, <2>1 DEF Quiet
  <2>2. \A r \in Sides : Held(r)
    BY <1>7 DEF Quiet
  <2>3. \A r \in Sides : Drops(r) => Head(wire[r]).type \notin {"open", "close", "success", "failure"}
    BY <2>1 DEF Plain
  <2> QED
    BY <1>2, <2>2, <2>3, StillSettles
<1>8. ASSUME NEW u \in Users, Closes(u) PROVE Settles
  <2>1. PICK s \in Sides, i \in Ids : s = SideOf[u] /\ i = th[u].id
    BY <1>1, SideFacts, ThreadFacts
  <2>2. PICK c : c = [Chan(s, i) EXCEPT !.closed = TRUE]
    OBVIOUS
  <2>3. Chan(s, i) \in Channels
    BY <1>1, ChannelFacts DEF Chan
  <2>4. c.live = Chan(s, i).live /\ c.active = Chan(s, i).active /\ c.remote = Chan(s, i).remote
    BY <2>2, <2>3 DEF Channels
  <2>5. PICK m : m = Msg("close", Chan(s, i).remote, Unset, Nobody)
    OBVIOUS
  <2>6. /\ Chan(s, i).live /\ Chan(s, i).active /\ HeldBut(s, i, c) /\ Held(Peer(s))
        /\ Rests(Peer(s)) /\ Told(s, i) /\ Adds(s, m)
    BY <1>8, <2>1, <2>2, <2>5 DEF Closes
  <2>7. m \in Messages /\ m.type = "close" /\ m.to = Chan(s, i).remote
    <3>1. m \in Messages
      BY <1>1, <2>5, CloseTypes
    <3> QED
      BY <2>5, <3>1 DEF Msg
  <2>8. ClosesAt(s, c.remote)'
    <3>1. m \in Out(s)' /\ \E j \in Ids : j = c.remote
      BY <1>1, <2>3, <2>4, <2>6, <2>7, AddFacts DEF Channels
    <3>2. PICK j \in Ids : j = c.remote
      BY <3>1
    <3>3. ClosesAt(s, j)'
      BY <2>4, <2>7, <3>1, <3>2 DEF ClosesAt
    <3> QED
      BY <3>2, <3>3
  <2>9. \A r \in Sides : ~Drops(r)
    BY <1>3, <1>4, <1>5, <2>6
  <2> QED
    BY <1>2, <2>4, <2>6, <2>8, <2>9, EntrySettles
<1>9. ASSUME NEW s \in Sides, Confirms(s) PROVE Settles
  <2>1. PICK i \in Ids : i = Got(s).to
    BY <1>9 DEF Confirms, Reads, Messages
  <2>2. PICK c : c = Opened(Got(s).from)
    OBVIOUS
  <2>3. c.live /\ c.active /\ c.remote = Got(s).from /\ ~c.closed
    BY <2>2 DEF Opened
  <2>4. /\ Got(s).type = "success" /\ Rests(s) /\ HeldBut(s, i, c) /\ Held(Peer(s)) /\ Drops(Peer(s))
    BY <1>9, <2>1, <2>2 DEF Confirms, Reads
  <2>5. \A r \in Sides : Drops(r) => r = Peer(s)
    BY <1>3, <1>4, <2>4
  <2> QED
    BY <1>2, <2>1, <2>3, <2>4, <2>5, EntrySettles DEF Got
<1>10. ASSUME NEW s \in Sides, Forgets(s) PROVE Settles
  <2>1. PICK i \in Ids : i = Got(s).to
    BY <1>10 DEF Forgets, Reads, Messages
  <2>2. /\ Got(s).type = "failure" /\ Rests(s) /\ HeldBut(s, i, NoChannel) /\ Held(Peer(s)) /\ Drops(Peer(s))
    BY <1>10, <2>1 DEF Forgets, Reads
  <2>3. \A r \in Sides : Drops(r) => r = Peer(s)
    BY <1>3, <1>4, <2>2
  <2>4. Leaves(s, i)
    BY <2>1, <2>2 DEF Leaves, Got
  <2> QED
    BY <1>2, <1>6, <2>1, <2>2, <2>3, <2>4, EntrySettles DEF Got
<1>11. ASSUME NEW s \in Sides, Ignores(s) PROVE Settles
  <2>1. PICK i \in Ids : i = Got(s).to
    BY <1>11 DEF Ignores, Reads, Messages
  <2>2. /\ Got(s).type \in {"success", "failure"} /\ Rests(s) /\ Held(s) /\ Held(Peer(s)) /\ Drops(Peer(s))
    BY <1>11, <2>1 DEF Ignores, Reads
  <2>3. ~Half(s, i)
    BY <1>11, <2>1 DEF Ignores, Half, Steady, Decided
  <2>4. \A r \in Sides : Held(r) /\ (Drops(r) => r = Peer(s))
    BY <1>3, <1>4, <2>2
  <2> QED
    BY <1>2, <1>3, <2>1, <2>2, <2>3, <2>4, StillSettles DEF Got
<1>12. ASSUME NEW s \in Sides, Shuts(s) PROVE Settles
  <2>1. PICK i \in Ids : i = Got(s).to
    BY <1>12 DEF Shuts, Reads, Messages
  <2>2. PICK m : m = Msg("close", Chan(s, i).remote, Unset, Nobody)
    OBVIOUS
  <2>3. /\ Got(s).type = "close" /\ HeldBut(s, i, NoChannel) /\ Held(Peer(s)) /\ Drops(Peer(s))
        /\ Told(s, i)
        /\ Chan(s, i).live /\ Chan(s, i).active /\ ~Chan(s, i).closed => Adds(s, m)
    BY <1>12, <2>1, <2>2 DEF Shuts, Reads
  <2>4. m \in Messages /\ m.type = "close" /\ m.to = Chan(s, i).remote
    <3>1. m \in Messages
      BY <1>1, <2>2, CloseTypes
    <3> QED
      BY <2>2, <3>1 DEF Msg
  <2>5. \A r \in Sides : Drops(r) => r = Peer(s)
    BY <1>3, <1>5, <2>3
  <2>6. ASSUME Chan(s, i).live PROVE Leaves(s, i)
    <3>1. ASSUME NEW j \in Ids, KnownAs(s, i, j), ~Chan(s, i).closed PROVE ClosesAt(s, j)'
      <4>1. Adds(s, m) /\ m.to = j
        BY <2>3, <2>4, <2>6, <3>1 DEF KnownAs
      <4>2. m \in Out(s)'
        BY <1>1, <2>4, <4>1, AddFacts
      <4> QED
        BY <2>4, <4>1, <4>2 DEF ClosesAt
    <3> QED
      BY <2>1, <2>3, <3>1 DEF Leaves, Got
  <2> QED
    BY <1>2, <1>6, <2>1, <2>3, <2>5, <2>6, EntrySettles DEF Got
<1> QED
  BY <1>7, <1>8, <1>9, <1>10, <1>11, <1>12

-----------------------------------------------------------------------------
(* The steps that open                                                      *)

\* open_channel has a new Channel to wait for.
LEMMA SteadyBegins ==
    ASSUME TypeOK, TypeOK', Known, Pairing, Steady, NEW u \in Users, NEW i \in Ids, Begins(u, i)
    PROVE  Steady'
<1> USE DEF Steady
<1>1. SdOK /\ ThOK /\ WireOK
  BY DEF TypeOK, SdOK, ThOK, WireOK
<1>2. PICK s \in Sides : s = SideOf[u]
  BY SessionAssumption
<1>3. Peer(s) \in Sides /\ Peer(s) # s /\ \A r \in Sides : (r = s \/ r = Peer(s)) /\ Peer(r) \in Sides
  BY PeerFacts, TwoSides
<1>4. /\ u \in Openers /\ th[u].pc = "idle" /\ i \in NextChannel(sd[s])
      /\ sd'[s].channels = [sd[s].channels EXCEPT ![i] = Opening]
      /\ sd'[s].events = [sd[s].events EXCEPT ![i] = u]
      /\ sd'[s].seen = sd[s].seen \cup {i} /\ Held(Peer(s)) /\ Rests(s) /\ Rests(Peer(s))
      /\ th'[u].pc = "opensend" /\ th'[u].id = i
      /\ \A v \in Users : v # u => th'[v] = th[v]
  BY <1>2 DEF Begins, Took
<1>5. i \notin sd[s].seen
  <2>1. u \notin Spent(s)
    BY <1>4 DEF Spent
  <2> QED
    BY <1>4, <2>1, FreshNumber DEF Pairing
<1>6. \A r \in Sides : Out(r)' = Out(r) /\ wire'[r] = wire[r]
  BY <1>3, <1>4, RestFacts DEF Rests
<1>7. ~Pending(u) /\ Pending(u)'
  BY <1>1, <1>4, PendingFacts DEF Pairing, Late, Pending
<1>8. \A v \in Users : v # u => (Pending(v)' <=> Pending(v)) /\ th'[v].id = th[v].id
  <2>1. \A v \in Users : SideOf[v] \in Sides
    BY SessionAssumption
  <2> QED
    BY <1>4, <1>6, <2>1 DEF Pending
<1>9. \A r \in Sides : \A j \in Ids :
          IF r = s /\ j = i THEN Chan(r, j)' = Opening /\ sd'[r].events[j] = u
          ELSE Chan(r, j)' = Chan(r, j) /\ sd'[r].events[j] = sd[r].events[j]
  <2>1. sd[s].channels \in [Ids -> Channels] /\ sd[s].events \in [Ids -> Users \cup {Nobody}]
    BY <1>1 DEF SdOK, SideStates
  <2>2. \A j \in Ids : IF j = i THEN Chan(s, j)' = Opening /\ sd'[s].events[j] = u
                       ELSE Chan(s, j)' = Chan(s, j) /\ sd'[s].events[j] = sd[s].events[j]
    BY <1>4, <2>1 DEF Chan
  <2>3. \A j \in Ids : Chan(Peer(s), j)' = Chan(Peer(s), j) /\ sd'[Peer(s)].events[j] = sd[Peer(s)].events[j]
    BY <1>4 DEF Held, Chan
  <2> QED
    BY <1>3, <2>2, <2>3
<1>10. Opening.live /\ ~Opening.active
  BY DEF Opening
<1>11. \A r \in Sides : \A j \in Ids : \/ r = s /\ j = i
                                       \/ (Half(r, j)' <=> Half(r, j)) /\ Chan(r, j)' = Chan(r, j)
  BY <1>9 DEF Half
<1>12. \A r \in Sides : \A a, b \in Ids : KnownAs(r, a, b)' =>
          KnownAs(r, a, b) /\ Chan(r, a)' = Chan(r, a) /\ b \in sd[Peer(r)].seen
  <2>1. \A r \in Sides : \A a, b \in Ids : KnownAs(r, a, b)' => KnownAs(r, a, b) /\ Chan(r, a)' = Chan(r, a)
    BY <1>9, <1>10 DEF KnownAs
  <2>2. \A r \in Sides : \A a, b \in Ids : KnownAs(r, a, b) => b \in sd[Peer(r)].seen
    BY DEF Known, ClaimsKnown, Claims, KnownAs
  <2> QED
    BY <2>1, <2>2
<1>13. \A r \in Sides : \A j \in Ids : Chan(r, j).live => Chan(r, j)'.live
  BY <1>9, <1>10
<1>14. \A r \in Sides : \A j \in Ids : ClosesAt(r, j)' <=> ClosesAt(r, j)
  BY <1>6 DEF ClosesAt
<1>15. \A r \in Sides : \A m \in Out(r) :
          /\ m.type \in {"success", "failure", "close"} => m.to \in sd[Peer(r)].seen
          /\ m.type = "success" => m.from \in sd[r].seen
  BY DEF Known, MessagesKnown, MessageKnown
<1>16. Decided'
  <2>1. ASSUME NEW r \in Sides, NEW j \in Ids, Half(r, j)'
        PROVE  /\ sd'[r].events[j] # Nobody
               /\ \/ \E v \in Users : Pending(v)' /\ SideOf[v] = r /\ th'[v].id = j
                  \/ \E m \in Out(Peer(r))' : m.type \in {"success", "failure"} /\ m.to = j
    <3>1. CASE r = s /\ j = i
      BY <1>2, <1>4, <1>7, <1>9, <3>1, SessionAssumption
    <3>2. CASE ~(r = s /\ j = i)
      <4>1. Half(r, j) /\ sd'[r].events[j] = sd[r].events[j]
        BY <1>9, <1>11, <2>1, <3>2
      <4>2. \A v \in Users : Pending(v) => Pending(v)' /\ th'[v].id = th[v].id
        BY <1>7, <1>8
      <4>3. Out(Peer(r))' = Out(Peer(r))
        BY <1>3, <1>6
      <4> QED
        BY <4>1, <4>2, <4>3 DEF Decided
    <3> QED
      BY <3>1, <3>2
  <2> QED
    BY <2>1 DEF Decided
<1>17. Waiting'
  <2>1. ASSUME NEW v \in Users, NEW a \in Ids, Pending(v)', th'[v].id = a
        PROVE  Half(SideOf[v], a)'
    <3>1. PICK r \in Sides : r = SideOf[v]
      BY SessionAssumption
    <3>2. CASE v = u
      <4>1. Half(s, i)'
        BY <1>9, <1>10 DEF Half
      <4> QED
        BY <1>2, <1>4, <2>1, <3>2, <4>1
    <3>3. CASE v # u
      <4>1. Pending(v) /\ th[v].id = a
        BY <1>8, <2>1, <3>3
      <4>2. a \in sd[r].seen
        BY <1>1, <3>1, <4>1, PendingKnown DEF Pairing
      <4>3. Half(r, a)
        BY <3>1, <4>1 DEF Waiting
      <4>4. Half(r, a)'
        BY <1>5, <1>11, <4>2, <4>3
      <4> QED
        BY <3>1, <4>4
    <3> QED
      BY <3>2, <3>3
  <2> QED
    BY <2>1 DEF Waiting
<1>18. Mirrored'
  BY <1>3, <1>12, <1>13, <1>14 DEF Mirrored
<1>19. \A r \in Sides : \A a, b \in Ids : KnownAs(r, a, b)' =>
          (Half(Peer(r), b)' <=> Half(Peer(r), b)) /\ Chan(Peer(r), b)' = Chan(Peer(r), b)
  BY <1>3, <1>5, <1>11, <1>12
<1>20. CloseSent'
  BY <1>3, <1>12, <1>14, <1>19 DEF CloseSent
<1>21. CloseBehind'
  <2>1. ASSUME NEW r \in Sides, NEW j \in Ids, NEW k \in DOMAIN wire'[r],
               wire'[r][k].type = "close", wire'[r][k].to = j, Half(Peer(r), j)'
        PROVE  \E l \in DOMAIN wire'[r] : l < k /\ wire'[r][l].type = "success" /\ wire'[r][l].to = j
    <3>1. wire'[r] = wire[r]
      BY <1>6
    <3>2. wire[r][k] \in Out(r)
      BY <3>1 DEF Out
    <3>3. j \in sd[Peer(r)].seen
      BY <1>15, <2>1, <3>1, <3>2
    <3>4. Half(Peer(r), j)
      BY <1>3, <1>5, <1>11, <2>1, <3>3
    <3> QED
      BY <2>1, <3>1, <3>4 DEF CloseBehind
  <2> QED
    BY <2>1 DEF CloseBehind
<1>22. Confirming'
  BY <1>6, <1>12, <1>19 DEF Confirming
<1>23. ConfirmedLives'
  BY <1>6, <1>13 DEF ConfirmedLives
<1>24. News'
  <2>1. ASSUME NEW r \in Sides, NEW a \in Ids, NEW b \in Ids, Confirmed(r, a, b)'
        PROVE  ~Half(r, a)' /\ ~Chan(Peer(r), b)'.active /\ ~ClosesAt(Peer(r), a)'
    <3>1. Confirmed(r, a, b)
      BY <1>6, <2>1 DEF Confirmed
    <3>2. a \in sd[r].seen
      BY <1>15, <3>1 DEF Confirmed
    <3>3. ~Half(r, a) /\ ~Chan(Peer(r), b).active /\ ~ClosesAt(Peer(r), a)
      BY <3>1 DEF News
    <3>4. ~Half(r, a)'
      BY <1>5, <1>11, <3>2, <3>3
    <3>5. ~Chan(Peer(r), b)'.active
      BY <1>3, <1>9, <1>10, <3>3
    <3> QED
      BY <1>3, <1>14, <3>3, <3>4, <3>5
  <2> QED
    BY <2>1 DEF News
<1>25. ConfirmedOnce'
  BY <1>6 DEF ConfirmedOnce
<1>26. Refusals'
  <2>1. ASSUME NEW r \in Sides, NEW j \in Ids, NEW m \in Out(r)', m.type = "failure", m.to = j
        PROVE  /\ \A a \in Ids : ~Linked(Peer(r), j, a)'
               /\ \A v \in Users : Pending(v)' /\ SideOf[v] = Peer(r) => th'[v].id # j
    <3>1. m \in Out(r) /\ j \in sd[Peer(r)].seen
      BY <1>6, <1>15, <2>1
    <3>2. /\ \A a \in Ids : ~Linked(Peer(r), j, a)
          /\ \A v \in Users : Pending(v) /\ SideOf[v] = Peer(r) => th[v].id # j
      BY <2>1, <3>1 DEF Refusals
    <3>3. \A t \in Sides : \A a, b \in Ids : Linked(t, a, b)' => Linked(t, a, b)
      <4>1. \A t \in Sides : \A a, b \in Ids : Claims(t, a, b)' => Claims(t, a, b)
        BY <1>6, <1>9, <1>10 DEF Claims
      <4> QED
        BY <4>1, LinksShrink
    <3>4. ASSUME NEW v \in Users, Pending(v)', SideOf[v] = Peer(r) PROVE th'[v].id # j
      <4>1. CASE v = u
        BY <1>2, <1>4, <1>5, <3>1, <3>4, <4>1
      <4>2. CASE v # u
        BY <1>8, <3>2, <3>4, <4>2
      <4> QED
        BY <4>1, <4>2
    <3> QED
      BY <1>3, <3>2, <3>3, <3>4
  <2> QED
    BY <2>1 DEF Refusals
<1> QED
  BY <1>16, <1>17, <1>18, <1>20, <1>21, <1>22, <1>23, <1>24, <1>25, <1>26

\* Its CHANNEL_OPEN goes out.
LEMMA SteadySends ==
    ASSUME TypeOK, TypeOK', Known, Pairing, Steady, NEW u \in Users, Sends(u), sd[SideOf[u]].active
    PROVE  Steady'
<1> USE DEF Steady
<1>1. SdOK /\ ThOK /\ WireOK
  BY DEF TypeOK, SdOK, ThOK, WireOK
<1>2. PICK s \in Sides : s = SideOf[u]
  BY SessionAssumption
<1>3. Peer(s) \in Sides /\ Peer(s) # s /\ \A r \in Sides : (r = s \/ r = Peer(s)) /\ Peer(r) \in Sides
  BY PeerFacts, TwoSides
<1>4. PICK m : m = Msg("open", Unset, th[u].id, u)
  OBVIOUS
<1>5. m \in Messages /\ m.type = "open" /\ m.from = th[u].id /\ m.user = u
  <2>1. m \in Messages
    BY <1>1, <1>4, ThreadFacts, ChannelTypes, MsgTypes
  <2> QED
    BY <1>4, <2>1 DEF Msg
<1>6. /\ th[u].pc = "opensend" /\ (\A r \in Sides : Held(r)) /\ Rests(Peer(s)) /\ Adds(s, m)
      /\ th'[u].pc = "openwait" /\ th'[u].id = th[u].id
      /\ \A v \in Users : v # u => th'[v] = th[v]
  BY <1>2, <1>4 DEF Sends
<1>7. /\ \A r \in Sides : \A x \in Out(r)' : x \in Out(r) \/ (r = s /\ x = m)
      /\ \A r \in Sides : Out(r) \subseteq Out(r)'
      /\ m \in Out(s)'
  BY <1>1, <1>3, <1>5, <1>6, AddFacts, RestFacts
<1>8. \A v \in Users : (Pending(v)' <=> Pending(v)) /\ th'[v].id = th[v].id
  <2>1. \A v \in Users : SideOf[v] \in Sides
    BY SessionAssumption
  <2>2. ASSUME NEW v \in Users, v # u PROVE Pending(v)' <=> Pending(v)
    <3>1. \A x \in Out(SideOf[v])' : x.type = "open" /\ x.user = v => x \in Out(SideOf[v])
      BY <1>5, <1>7, <2>1, <2>2
    <3>2. Out(SideOf[v]) \subseteq Out(SideOf[v])'
      BY <1>7, <2>1
    <3>3. th'[v].pc = th[v].pc
      BY <1>6, <2>2
    <3> QED
      BY <3>1, <3>2, <3>3 DEF Pending
  <2>3. Pending(u) /\ Pending(u)'
    BY <1>2, <1>5, <1>6, <1>7 DEF Pending
  <2> QED
    BY <1>6, <2>2, <2>3
<1>9. \A r \in Sides : \A j \in Ids : Chan(r, j)' = Chan(r, j) /\ sd'[r].events[j] = sd[r].events[j]
  BY <1>6 DEF Held, Chan
<1>10. \A r \in Sides : \A j \in Ids : Half(r, j)' <=> Half(r, j)
  BY <1>9 DEF Half
<1>11. \A r \in Sides : \A a, b \in Ids : KnownAs(r, a, b)' <=> KnownAs(r, a, b)
  BY <1>9 DEF KnownAs
<1>12. \A r \in Sides : \A j \in Ids : ClosesAt(r, j)' <=> ClosesAt(r, j)
  BY <1>5, <1>7 DEF ClosesAt
<1>13. \A r \in Sides : \A a, b \in Ids : Confirmed(r, a, b)' <=> Confirmed(r, a, b)
  BY <1>5, <1>7 DEF Confirmed
<1>14. \A r \in Sides : \A a, b \in Ids : Linked(r, a, b)' => Linked(r, a, b)
  <2>1. \A r \in Sides : \A a, b \in Ids : Claims(r, a, b)' => Claims(r, a, b)
    BY <1>11, <1>13 DEF Claims, KnownAs, Confirmed
  <2> QED
    BY <2>1, LinksShrink
<1>15. \A r \in Sides : Rests(r) \/ \E x \in Messages : Adds(r, x) /\ x.type = "open"
  BY <1>3, <1>5, <1>6
<1>16. Decided'
  <2>1. ASSUME NEW r \in Sides, NEW j \in Ids, Half(r, j)'
        PROVE  /\ sd'[r].events[j] # Nobody
               /\ \/ \E v \in Users : Pending(v)' /\ SideOf[v] = r /\ th'[v].id = j
                  \/ \E x \in Out(Peer(r))' : x.type \in {"success", "failure"} /\ x.to = j
    <3>1. Half(r, j) /\ sd'[r].events[j] = sd[r].events[j] /\ Out(Peer(r)) \subseteq Out(Peer(r))'
      BY <1>3, <1>7, <1>9, <1>10, <2>1
    <3> QED
      BY <1>8, <3>1 DEF Decided
  <2> QED
    BY <2>1 DEF Decided
<1>17. Waiting'
  <2>1. \A v \in Users : SideOf[v] \in Sides
    BY SessionAssumption
  <2> QED
    BY <1>8, <1>10, <2>1 DEF Waiting
<1>18. Mirrored' /\ CloseSent'
  BY <1>3, <1>9, <1>11, <1>12 DEF Mirrored, CloseSent
<1>19. CloseBehind'
  <2>1. \A r \in Sides : \A j \in Ids : Half(Peer(r), j)' => Half(Peer(r), j)
    BY <1>3, <1>10
  <2>2. \A r \in Sides : Rests(r) \/ \E x \in Messages : Adds(r, x) /\ x.type # "close"
    BY <1>15
  <2> QED
    BY <1>1, <2>1, <2>2, CloseBehindKept DEF CloseBehind
<1>20. Confirming'
  BY <1>3, <1>7, <1>10, <1>11 DEF Confirming
<1>21. ConfirmedLives' /\ ConfirmedOnce'
  <2>1. \A r \in Sides : Rests(r) \/ \E x \in Messages : Adds(r, x) /\ x.type # "success"
    BY <1>15
  <2>2. ConfirmedLives'
    BY <1>1, <1>9, <2>1, ConfirmedLivesKept DEF ConfirmedLives
  <2>3. ConfirmedOnce'
    BY <1>1, <2>1, ConfirmedOnceKept DEF ConfirmedOnce
  <2> QED
    BY <2>2, <2>3
<1>22. News'
  BY <1>3, <1>9, <1>10, <1>12, <1>13 DEF News
<1>23. Refusals'
  <2>1. ASSUME NEW r \in Sides, NEW j \in Ids, NEW x \in Out(r)', x.type = "failure", x.to = j
        PROVE  /\ \A a \in Ids : ~Linked(Peer(r), j, a)'
               /\ \A v \in Users : Pending(v)' /\ SideOf[v] = Peer(r) => th'[v].id # j
    <3>1. x \in Out(r)
      BY <1>5, <1>7, <2>1
    <3>2. /\ \A a \in Ids : ~Linked(Peer(r), j, a)
          /\ \A v \in Users : Pending(v) /\ SideOf[v] = Peer(r) => th[v].id # j
      BY <2>1, <3>1 DEF Refusals
    <3> QED
      BY <1>3, <1>8, <1>14, <3>2
  <2> QED
    BY <2>1 DEF Refusals
<1> QED
  BY <1>16, <1>17, <1>18, <1>19, <1>20, <1>21, <1>22, <1>23

\* What an answer to a CHANNEL_OPEN does to the messages and to those who wait.
LEMMA AnswerFacts ==
    ASSUME TypeOK, TypeOK', Known, Pairing, NEW s \in Sides, NEW m \in Messages, Reads(s, "open"),
           Onward, Adds(s, m), m.type \in {"success", "failure"}
    PROVE  /\ \A r \in Sides : \A x \in Out(r)' : x \in Out(r) \/ (r = s /\ x = m)
           /\ \A r \in Sides : \A x \in Out(r) : x.type # "open" => x \in Out(r)'
           /\ m \in Out(s)' /\ Got(s).from \in Ids
           /\ \A v \in Users : Pending(v)' => Pending(v) /\ th'[v].id = th[v].id
           /\ \E w \in Users : /\ SideOf[w] = Peer(s) /\ th[w].id = Got(s).from
                               /\ Pending(w) /\ ~Pending(w)'
                               /\ \A v \in Users : v # w /\ Pending(v) =>
                                     Pending(v)' /\ th'[v].id = th[v].id
<1> USE DEF Pairing
<1>1. SdOK /\ ThOK /\ WireOK
  BY DEF TypeOK, SdOK, ThOK, WireOK
<1>2. Peer(s) \in Sides /\ Peer(s) # s /\ \A r \in Sides : r = s \/ r = Peer(s)
  BY PeerFacts, TwoSides
<1>3. Got(s).from \in Ids /\ Got(s) \in Out(Peer(s)) /\ Out(Peer(s))' \subseteq Out(Peer(s))
  BY <1>1, ReadKnown
<1>4. Out(s)' = Out(s) \cup {m}
  BY <1>1, AddFacts
<1>5. \A r \in Sides : \A x \in Out(r)' : x \in Out(r) \/ (r = s /\ x = m)
  BY <1>2, <1>3, <1>4
<1>6. \A x \in Out(Peer(s)) : x \in Out(Peer(s))' \/ x = Got(s)
  BY <1>1, <1>2, DropFacts DEF Reads, Got
<1>7. Got(s).type = "open"
  BY DEF Reads
<1>8. \A r \in Sides : \A x \in Out(r) : x.type # "open" => x \in Out(r)'
  BY <1>2, <1>4, <1>6, <1>7
<1>9. \A r \in Sides : \A x \in Out(r)' : x.type = "open" => x \in Out(r)
  BY <1>5
<1>10. \A v \in Users : Pending(v)' => Pending(v) /\ th'[v].id = th[v].id
  BY <1>1, <1>9, OnwardPending
<1>11. PICK w : w = Got(s).user
  OBVIOUS
<1>12. w \in Users /\ SideOf[w] = Peer(s) /\ th[w].id = Got(s).from /\ Pending(w) /\ ~Pending(w)'
  BY <1>9, <1>11, AskedFacts
<1>13. ASSUME NEW v \in Users, v # w, Pending(v) PROVE Pending(v)' /\ th'[v].id = th[v].id
  <2>1. SideOf[v] \in Sides
    BY SessionAssumption
  <2>2. CASE th[v].pc = "opensend"
    BY <2>2 DEF Onward, Pending
  <2>3. CASE \E x \in Out(SideOf[v]) : x.type = "open" /\ x.user = v
    <3>1. PICK x \in Out(SideOf[v]) : x.type = "open" /\ x.user = v
      BY <2>3
    <3>2. x \in Out(SideOf[v])'
      BY <1>2, <1>4, <1>6, <1>11, <1>13, <2>1, <3>1
    <3>3. Pending(v)'
      BY <3>1, <3>2 DEF Pending
    <3> QED
      BY <1>10, <3>3
  <2> QED
    BY <1>13, <2>2, <2>3 DEF Pending
<1> QED
  BY <1>3, <1>4, <1>5, <1>8, <1>10, <1>12, <1>13

\* A refusal decides over the Channel that waits for it.
LEMMA SteadyRefuses ==
    ASSUME TypeOK, TypeOK', Known, Pairing, Steady, NEW s \in Sides, Refuses(s)
    PROVE  Steady'
<1> USE DEF Steady
<1>1. SdOK /\ ThOK /\ WireOK
  BY DEF TypeOK, SdOK, ThOK, WireOK
<1>2. /\ Peer(s) \in Sides /\ Peer(s) # s /\ Peer(Peer(s)) = s
      /\ \A r \in Sides : (r = s \/ r = Peer(s)) /\ Peer(r) \in Sides
  BY PeerFacts, TwoSides, PeerPeer
<1>3. PICK j0, m : j0 = Got(s).from /\ m = Msg("failure", Got(s).from, Unset, Nobody)
  OBVIOUS
<1>4. /\ Reads(s, "open") /\ Adds(s, m) /\ Onward /\ Held(Peer(s)) /\ Drops(Peer(s))
      /\ sd'[s].channels = sd[s].channels /\ sd'[s].events = sd[s].events
      /\ Head(wire[Peer(s)]).type = "open"
  BY <1>3 DEF Refuses, Reads, Got
<1>5. m \in Messages /\ m.type = "failure" /\ m.to = j0
  <2>1. j0 \in Ids
    BY <1>1, <1>3, <1>4, ReadKnown
  <2>2. m \in Messages
    BY <1>3, <2>1, ChannelTypes, MsgTypes
  <2> QED
    BY <1>3, <2>2 DEF Msg
<1>6. /\ \A r \in Sides : \A x \in Out(r)' : x \in Out(r) \/ (r = s /\ x = m)
      /\ \A r \in Sides : \A x \in Out(r) : x.type # "open" => x \in Out(r)'
      /\ m \in Out(s)' /\ j0 \in Ids
      /\ \A v \in Users : Pending(v)' => Pending(v) /\ th'[v].id = th[v].id
  BY <1>3, <1>4, <1>5, AnswerFacts
<1>7. PICK w \in Users : /\ SideOf[w] = Peer(s) /\ th[w].id = j0 /\ Pending(w) /\ ~Pending(w)'
                         /\ \A v \in Users : v # w /\ Pending(v) => Pending(v)' /\ th'[v].id = th[v].id
  BY <1>3, <1>4, <1>5, AnswerFacts
<1>8. \A r \in Sides : \A j \in Ids : Chan(r, j)' = Chan(r, j) /\ sd'[r].events[j] = sd[r].events[j]
  BY <1>2, <1>4 DEF Held, Chan
<1>9. \A r \in Sides : \A j \in Ids : Half(r, j)' <=> Half(r, j)
  BY <1>8 DEF Half
<1>10. \A r \in Sides : \A a, b \in Ids : KnownAs(r, a, b)' <=> KnownAs(r, a, b)
  BY <1>8 DEF KnownAs
<1>11. \A r \in Sides : \A j \in Ids : ClosesAt(r, j)' <=> ClosesAt(r, j)
  BY <1>5, <1>6 DEF ClosesAt
<1>12. \A r \in Sides : \A a, b \in Ids : Confirmed(r, a, b)' <=> Confirmed(r, a, b)
  BY <1>5, <1>6 DEF Confirmed
<1>13. \A r \in Sides : \A a, b \in Ids : Linked(r, a, b)' => Linked(r, a, b)
  <2>1. \A r \in Sides : \A a, b \in Ids : Claims(r, a, b)' => Claims(r, a, b)
    BY <1>10, <1>12 DEF Claims, KnownAs, Confirmed
  <2> QED
    BY <2>1, LinksShrink
<1>14. \A r \in Sides : \/ Drops(r) /\ Head(wire[r]).type = "open"
                        \/ \E x \in Messages : Adds(r, x) /\ x.type = "failure"
  BY <1>2, <1>4, <1>5
<1>15. Decided'
  <2>1. ASSUME NEW r \in Sides, NEW j \in Ids, Half(r, j)'
        PROVE  /\ sd'[r].events[j] # Nobody
               /\ \/ \E v \in Users : Pending(v)' /\ SideOf[v] = r /\ th'[v].id = j
                  \/ \E x \in Out(Peer(r))' : x.type \in {"success", "failure"} /\ x.to = j
    <3>1. Half(r, j) /\ sd'[r].events[j] = sd[r].events[j]
      BY <1>8, <1>9, <2>1
    <3>2. CASE \E x \in Out(Peer(r)) : x.type \in {"success", "failure"} /\ x.to = j
      BY <1>2, <1>6, <3>1, <3>2 DEF Decided
    <3>3. CASE \E v \in Users : Pending(v) /\ SideOf[v] = r /\ th[v].id = j
      <4>1. PICK v \in Users : Pending(v) /\ SideOf[v] = r /\ th[v].id = j
        BY <3>3
      <4>2. CASE v = w
        BY <1>2, <1>5, <1>6, <1>7, <3>1, <4>1, <4>2 DEF Decided
      <4>3. CASE v # w
        BY <1>7, <3>1, <4>1, <4>3 DEF Decided
      <4> QED
        BY <4>2, <4>3
    <3> QED
      BY <3>1, <3>2, <3>3 DEF Decided
  <2> QED
    BY <2>1 DEF Decided
<1>16. Waiting'
  <2>1. \A v \in Users : SideOf[v] \in Sides
    BY SessionAssumption
  <2> QED
    BY <1>6, <1>9, <2>1 DEF Waiting
<1>17. Mirrored' /\ CloseSent'
  BY <1>2, <1>8, <1>10, <1>11 DEF Mirrored, CloseSent
<1>18. CloseBehind'
  <2>1. \A r \in Sides : \A j \in Ids : Half(Peer(r), j)' => Half(Peer(r), j)
    BY <1>2, <1>9
  <2>2. \A r \in Sides : \/ Drops(r) /\ Head(wire[r]).type # "success"
                         \/ \E x \in Messages : Adds(r, x) /\ x.type # "close"
    BY <1>14
  <2> QED
    BY <1>1, <2>1, <2>2, CloseBehindKept DEF CloseBehind
<1>19. Confirming'
  BY <1>2, <1>6, <1>9, <1>10 DEF Confirming
<1>20. ConfirmedLives' /\ ConfirmedOnce'
  <2>1. \A r \in Sides : Drops(r) \/ \E x \in Messages : Adds(r, x) /\ x.type # "success"
    BY <1>14
  <2>2. ConfirmedLives'
    BY <1>1, <1>8, <2>1, ConfirmedLivesKept DEF ConfirmedLives
  <2>3. ConfirmedOnce'
    BY <1>1, <2>1, ConfirmedOnceKept DEF ConfirmedOnce
  <2> QED
    BY <2>2, <2>3
<1>21. News'
  BY <1>2, <1>8, <1>9, <1>11, <1>12 DEF News
<1>22. Refusals'
  <2>1. ASSUME NEW r \in Sides, NEW j \in Ids, NEW x \in Out(r)', x.type = "failure", x.to = j
        PROVE  /\ \A a \in Ids : ~Linked(Peer(r), j, a)'
               /\ \A v \in Users : Pending(v)' /\ SideOf[v] = Peer(r) => th'[v].id # j
    <3>1. CASE x \in Out(r)
      <4>1. /\ \A a \in Ids : ~Linked(Peer(r), j, a)
            /\ \A v \in Users : Pending(v) /\ SideOf[v] = Peer(r) => th[v].id # j
        BY <2>1, <3>1 DEF Refusals
      <4> QED
        BY <1>2, <1>6, <1>13, <4>1
    <3>2. CASE r = s /\ x = m
      <4>1. \A a \in Ids : ~Linked(Peer(s), j0, a)
        BY <1>6, <1>7 DEF Pairing, Unanswered
      <4>2. ASSUME NEW v \in Users, Pending(v)', SideOf[v] = Peer(s), th'[v].id = j0 PROVE FALSE
        <5>1. Pending(v) /\ th[v].id = j0
          BY <1>6, <4>2
        <5>2. v = w
          BY <1>7, <4>2, <5>1 DEF Pairing, Apart
        <5> QED
          BY <1>7, <4>2, <5>2
      <4> QED
        BY <1>2, <1>5, <1>6, <1>13, <2>1, <3>2, <4>1, <4>2
    <3> QED
      BY <1>6, <2>1, <3>1, <3>2
  <2> QED
    BY <2>1 DEF Refusals
<1> QED
  BY <1>15, <1>16, <1>17, <1>18, <1>19, <1>20, <1>21, <1>22

\* A Channel that is taken is confirmed.
LEMMA SteadyAdmits ==
    ASSUME TypeOK, TypeOK', Known, Pairing, Steady, NEW s \in Sides, NEW i \in Ids, Admits(s, i)
    PROVE  Steady'
<1> USE DEF Steady
<1>1. SdOK /\ ThOK /\ WireOK
  BY DEF TypeOK, SdOK, ThOK, WireOK
<1>2. /\ Peer(s) \in Sides /\ Peer(s) # s /\ Peer(Peer(s)) = s
      /\ \A r \in Sides : (r = s \/ r = Peer(s)) /\ Peer(r) \in Sides
  BY PeerFacts, TwoSides, PeerPeer
<1>3. PICK j0, m : j0 = Got(s).from /\ m = Msg("success", Got(s).from, i, Nobody)
  OBVIOUS
<1>4. /\ Reads(s, "open") /\ Adds(s, m) /\ Onward /\ Held(Peer(s)) /\ Drops(Peer(s))
      /\ sd'[s].channels = [sd[s].channels EXCEPT ![i] = Opened(j0)]
      /\ sd'[s].events = sd[s].events
      /\ Head(wire[Peer(s)]).type = "open"
  BY <1>3 DEF Admits, Reads, Got
<1>5. /\ j0 \in Ids /\ i \notin sd[s].seen
      /\ \A b \in Ids : ~Linked(s, i, b) /\ ~Linked(Peer(s), j0, b)
      /\ \A r \in Sides : \A a, b \in Ids : Linked(r, a, b)' =>
                 \/ Linked(r, a, b)
                 \/ r = s /\ a = i /\ b = j0
                 \/ r = Peer(s) /\ a = j0 /\ b = i
  BY <1>3, AdmitLinks
<1>6. m \in Messages /\ m.type = "success" /\ m.to = j0 /\ m.from = i
  <2>1. m \in Messages
    BY <1>3, <1>5, MsgTypes
  <2> QED
    BY <1>3, <2>1 DEF Msg
<1>7. /\ \A r \in Sides : \A x \in Out(r)' : x \in Out(r) \/ (r = s /\ x = m)
      /\ \A r \in Sides : \A x \in Out(r) : x.type # "open" => x \in Out(r)'
      /\ m \in Out(s)'
      /\ \A v \in Users : Pending(v)' => Pending(v) /\ th'[v].id = th[v].id
  BY <1>4, <1>6, AnswerFacts
<1>8. PICK w \in Users : /\ SideOf[w] = Peer(s) /\ th[w].id = j0 /\ Pending(w) /\ ~Pending(w)'
                         /\ \A v \in Users : v # w /\ Pending(v) => Pending(v)' /\ th'[v].id = th[v].id
  BY <1>3, <1>4, <1>6, AnswerFacts
<1>9. \A r \in Sides : \A j \in Ids :
          /\ sd'[r].events[j] = sd[r].events[j]
          /\ IF r = s /\ j = i THEN Chan(r, j)' = Opened(j0) ELSE Chan(r, j)' = Chan(r, j)
  <2>1. sd[s].channels \in [Ids -> Channels]
    BY <1>1 DEF SdOK, SideStates
  <2>2. \A j \in Ids : IF j = i THEN Chan(s, j)' = Opened(j0) ELSE Chan(s, j)' = Chan(s, j)
    BY <1>4, <2>1 DEF Chan
  <2>3. \A j \in Ids : Chan(Peer(s), j)' = Chan(Peer(s), j) /\ sd'[Peer(s)].events[j] = sd[Peer(s)].events[j]
    BY <1>4 DEF Held, Chan
  <2> QED
    BY <1>2, <1>4, <2>2, <2>3
<1>10. Opened(j0).live /\ Opened(j0).active /\ Opened(j0).remote = j0 /\ ~Opened(j0).closed
  BY DEF Opened
<1>11. \A r \in Sides : \A j \in Ids : Half(r, j)' => Half(r, j) /\ ~(r = s /\ j = i)
  BY <1>9, <1>10 DEF Half
<1>12. \A r \in Sides : \A j \in Ids : Half(r, j) /\ j \in sd[r].seen => Half(r, j)'
  BY <1>5, <1>9 DEF Half
<1>13. \A r \in Sides : \A a, b \in Ids : KnownAs(r, a, b)' =>
          \/ KnownAs(r, a, b) /\ Chan(r, a)' = Chan(r, a) /\ b \in sd[Peer(r)].seen
          \/ r = s /\ a = i /\ b = j0 /\ ~Chan(r, a)'.closed
  <2>1. \A r \in Sides : \A a, b \in Ids : KnownAs(r, a, b)' =>
          \/ KnownAs(r, a, b) /\ Chan(r, a)' = Chan(r, a)
          \/ r = s /\ a = i /\ b = j0 /\ ~Chan(r, a)'.closed
    BY <1>9, <1>10 DEF KnownAs
  <2>2. \A r \in Sides : \A a, b \in Ids : KnownAs(r, a, b) => b \in sd[Peer(r)].seen
    BY DEF Known, ClaimsKnown, Claims, KnownAs
  <2> QED
    BY <2>1, <2>2
<1>14. \A r \in Sides : \A j \in Ids : Chan(r, j).live => Chan(r, j)'.live
  BY <1>9, <1>10
<1>15. \A r \in Sides : \A j \in Ids : ClosesAt(r, j)' <=> ClosesAt(r, j)
  BY <1>6, <1>7 DEF ClosesAt
<1>16. \A r \in Sides : \A x \in Out(r) :
          x.type \in {"success", "failure", "close"} => x.to \in sd[Peer(r)].seen
  BY DEF Known, MessagesKnown, MessageKnown
<1>17. Half(Peer(s), j0) /\ Chan(Peer(s), j0)' = Chan(Peer(s), j0)
  BY <1>2, <1>5, <1>8, <1>9 DEF Waiting
<1>18. Decided'
  <2>1. ASSUME NEW r \in Sides, NEW j \in Ids, Half(r, j)'
        PROVE  /\ sd'[r].events[j] # Nobody
               /\ \/ \E v \in Users : Pending(v)' /\ SideOf[v] = r /\ th'[v].id = j
                  \/ \E x \in Out(Peer(r))' : x.type \in {"success", "failure"} /\ x.to = j
    <3>1. Half(r, j) /\ sd'[r].events[j] = sd[r].events[j]
      BY <1>9, <1>11, <2>1
    <3>2. CASE \E x \in Out(Peer(r)) : x.type \in {"success", "failure"} /\ x.to = j
      BY <1>2, <1>7, <3>1, <3>2 DEF Decided
    <3>3. CASE \E v \in Users : Pending(v) /\ SideOf[v] = r /\ th[v].id = j
      <4>1. PICK v \in Users : Pending(v) /\ SideOf[v] = r /\ th[v].id = j
        BY <3>3
      <4>2. CASE v = w
        BY <1>2, <1>6, <1>7, <1>8, <3>1, <4>1, <4>2 DEF Decided
      <4>3. CASE v # w
        BY <1>8, <3>1, <4>1, <4>3 DEF Decided
      <4> QED
        BY <4>2, <4>3
    <3> QED
      BY <3>1, <3>2, <3>3 DEF Decided
  <2> QED
    BY <2>1 DEF Decided
<1>19. Waiting'
  <2>1. ASSUME NEW v \in Users, NEW a \in Ids, Pending(v)', th'[v].id = a
        PROVE  Half(SideOf[v], a)'
    <3>1. PICK r \in Sides : r = SideOf[v]
      BY SessionAssumption
    <3>2. Pending(v) /\ th[v].id = a
      BY <1>7, <2>1
    <3>3. a \in sd[r].seen
      BY <1>1, <3>1, <3>2, PendingKnown DEF Pairing
    <3>4. Half(r, a)'
      BY <1>12, <3>1, <3>2, <3>3 DEF Waiting
    <3> QED
      BY <3>1, <3>4
  <2> QED
    BY <2>1 DEF Waiting
<1>20. Mirrored'
  <2>1. ASSUME NEW r \in Sides, NEW a \in Ids, NEW b \in Ids, KnownAs(r, a, b)'
        PROVE  Chan(Peer(r), b)'.live \/ ClosesAt(Peer(r), a)'
    <3>1. CASE KnownAs(r, a, b)
      BY <1>2, <1>14, <1>15, <3>1 DEF Mirrored
    <3>2. CASE r = s /\ b = j0
      BY <1>17, <3>2 DEF Half
    <3> QED
      BY <1>13, <2>1, <3>1, <3>2
  <2> QED
    BY <2>1 DEF Mirrored
<1>21. CloseSent'
  <2>1. ASSUME NEW r \in Sides, NEW a \in Ids, NEW b \in Ids, KnownAs(r, a, b)', Chan(r, a)'.closed
        PROVE  ClosesAt(r, b)' \/ ~Chan(Peer(r), b)'.live
    <3>1. KnownAs(r, a, b) /\ Chan(r, a).closed /\ b \in sd[Peer(r)].seen
      BY <1>13, <2>1
    <3>2. Chan(Peer(r), b)' = Chan(Peer(r), b)
      BY <1>2, <1>5, <1>9, <3>1
    <3> QED
      BY <1>15, <3>1, <3>2 DEF CloseSent
  <2> QED
    BY <2>1 DEF CloseSent
<1>22. \A r \in Sides : \/ Drops(r) /\ Head(wire[r]).type = "open"
                        \/ r = s /\ Adds(r, m)
  BY <1>2, <1>4
<1>23. CloseBehind'
  <2>1. \A r \in Sides : \A j \in Ids : Half(Peer(r), j)' => Half(Peer(r), j)
    BY <1>2, <1>11
  <2>2. \A r \in Sides : \/ Drops(r) /\ Head(wire[r]).type # "success"
                         \/ \E x \in Messages : Adds(r, x) /\ x.type # "close"
    BY <1>6, <1>22
  <2> QED
    BY <1>1, <2>1, <2>2, CloseBehindKept DEF CloseBehind
<1>24. Confirming'
  <2>1. ASSUME NEW r \in Sides, NEW a \in Ids, NEW b \in Ids, KnownAs(r, a, b)', Half(Peer(r), b)'
        PROVE  \E x \in Out(r)' : x.type = "success" /\ x.to = b
    <3>1. CASE KnownAs(r, a, b)
      <4>1. Half(Peer(r), b)
        BY <1>2, <1>11, <2>1
      <4> QED
        BY <1>7, <3>1, <4>1 DEF Confirming
    <3>2. CASE r = s /\ b = j0
      BY <1>6, <1>7, <3>2
    <3> QED
      BY <1>13, <2>1, <3>1, <3>2
  <2> QED
    BY <2>1 DEF Confirming
<1>25. ConfirmedLives'
  <2>1. \A r \in Sides : \A a, b \in Ids :
           \/ Drops(r)
           \/ \E x \in Messages : Adds(r, x) /\ (x.type = "success" /\ x.from = a /\ x.to = b => Chan(r, a)'.live)
    BY <1>6, <1>9, <1>10, <1>22
  <2> QED
    BY <1>1, <1>14, <2>1, ConfirmedLivesKept DEF ConfirmedLives
<1>26. ConfirmedOnce'
  <2>1. ASSUME NEW x \in Out(s), x.type = "success", x.to = j0 PROVE FALSE
    <3>1. x \in Messages
      BY <1>1 DEF WireOK, Out
    <3>2. PICK a \in Ids : a = x.from
      BY <3>1 DEF Messages
    <3>3. Confirmed(s, a, j0)
      BY <2>1, <3>2 DEF Confirmed
    <3> QED
      BY <1>5, <3>3, LinkTraces
  <2>2. \A r \in Sides : \/ Drops(r)
                         \/ \E x \in Messages :
                               /\ Adds(r, x)
                               /\ x.type = "success" => \A y \in Out(r) : y.type = "success" => y.to # x.to
    BY <1>6, <1>22, <2>1
  <2> QED
    BY <1>1, <2>2, ConfirmedOnceKept DEF ConfirmedOnce
<1>27. News'
  <2>1. ASSUME NEW r \in Sides, NEW a \in Ids, NEW b \in Ids, Confirmed(r, a, b)'
        PROVE  ~Half(r, a)' /\ ~Chan(Peer(r), b)'.active /\ ~ClosesAt(Peer(r), a)'
    <3>1. PICK x \in Out(r)' : x.type = "success" /\ x.from = a /\ x.to = b
      BY <2>1 DEF Confirmed
    <3>2. CASE x \in Out(r)
      <4>1. Confirmed(r, a, b) /\ b \in sd[Peer(r)].seen
        BY <1>16, <3>1, <3>2 DEF Confirmed
      <4>2. ~Half(r, a) /\ ~Chan(Peer(r), b).active /\ ~ClosesAt(Peer(r), a)
        BY <4>1 DEF News
      <4>3. Chan(Peer(r), b)' = Chan(Peer(r), b)
        BY <1>2, <1>5, <1>9, <4>1
      <4> QED
        BY <1>2, <1>11, <1>15, <4>2, <4>3
    <3>3. CASE r = s /\ x = m
      <4>1. a = i /\ b = j0
        BY <1>6, <3>1, <3>3
      <4>2. ~ClosesAt(Peer(s), i)
        BY <1>2, <1>5, <1>16 DEF ClosesAt
      <4>3. ~Chan(Peer(s), j0)'.active
        BY <1>17 DEF Half
      <4> QED
        BY <1>2, <1>11, <1>15, <3>3, <4>1, <4>2, <4>3
    <3> QED
      BY <1>7, <3>1, <3>2, <3>3
  <2> QED
    BY <2>1 DEF News
<1>28. Refusals'
  <2>1. ASSUME NEW r \in Sides, NEW j \in Ids, NEW x \in Out(r)', x.type = "failure", x.to = j
        PROVE  /\ \A a \in Ids : ~Linked(Peer(r), j, a)'
               /\ \A v \in Users : Pending(v)' /\ SideOf[v] = Peer(r) => th'[v].id # j
    <3>1. x \in Out(r) /\ j \in sd[Peer(r)].seen
      BY <1>6, <1>7, <1>16, <2>1
    <3>2. /\ \A a \in Ids : ~Linked(Peer(r), j, a)
          /\ \A v \in Users : Pending(v) /\ SideOf[v] = Peer(r) => th[v].id # j
      BY <2>1, <3>1 DEF Refusals
    <3>3. ~(Peer(r) = s /\ j = i)
      BY <1>5, <3>1
    <3>4. ~(Peer(r) = Peer(s) /\ j = j0)
      BY <1>8, <3>2
    <3> QED
      BY <1>2, <1>5, <1>7, <3>2, <3>3, <3>4
  <2> QED
    BY <2>1 DEF Refusals
<1> QED
  BY <1>18, <1>19, <1>20, <1>21, <1>23, <1>24, <1>25, <1>26, <1>27, <1>28

-----------------------------------------------------------------------------
(* InStep                                                                   *)

\* A thread never comes back from its end, and only who has a timeout times out.
LEMMA ThreadsEnd ==
    ASSUME TypeOK, [Next]_vars
    PROVE  /\ \A u \in Users : th[u].pc = "done" => th'[u].pc = "done"
           /\ TimedOnly => TimedOnly'
<1>1. SdOK /\ ThOK /\ WireOK
  BY DEF TypeOK, SdOK, ThOK, WireOK
<1>2. CASE Onward
  BY <1>2 DEF Onward, TimedOnly
<1>3. CASE \E u \in Users : \/ Sends(u) \/ \E i \in Ids : Begins(u, i)
  <2>1. PICK u \in Users : /\ th[u].pc \in {"idle", "opensend"} /\ th'[u].pc \in {"opensend", "openwait"}
                           /\ \A v \in Users : v # u => th'[v] = th[v]
    BY <1>3 DEF Sends, Begins
  <2> QED
    BY <2>1 DEF TimedOnly
<1> QED
  BY <1>1, <1>2, <1>3, StepKinds
     DEF Quiet, Collects, Closes, Refuses, Admits, Confirms, Forgets, Ignores, Shuts, Ends

\* A session that is intact was so before, and no Channel has just been collected.
LEMMA IntactBefore ==
    ASSUME TypeOK, TimedOnly, [Next]_vars, Intact'
    PROVE  /\ Intact
           /\ \A s \in Sides : ~Ends(s)
           /\ \A u \in Users : ~Collects(u)
<1>1. SdOK /\ ThOK /\ WireOK
  BY DEF TypeOK, SdOK, ThOK, WireOK
<1>2. \A s \in Sides : Peer(s) \in Sides /\ \A r \in Sides : r = s \/ r = Peer(s)
  BY PeerFacts, TwoSides
<1>3. \A s \in Sides : ~Ends(s)
  BY DEF Ends, Intact
<1>4. \A u \in Users : ~Collects(u)
  BY DEF Collects, Intact, TimedOnly
<1>5. \A s \in Sides : sd'[s].active = sd[s].active
  <2>1. CASE Quiet \/ \E u \in Users : Sends(u)
    BY <2>1 DEF Quiet, Sends, Held
  <2>2. ASSUME NEW s \in Sides, sd'[s].active = sd[s].active, Held(Peer(s))
        PROVE  \A r \in Sides : sd'[r].active = sd[r].active
    BY <1>2, <2>2 DEF Held
  <2>3. CASE \E u \in Users : Closes(u) \/ \E i \in Ids : Begins(u, i)
    <3>1. PICK u \in Users : Closes(u) \/ \E i \in Ids : Begins(u, i)
      BY <2>3
    <3>2. PICK s \in Sides : s = SideOf[u]
      BY SessionAssumption
    <3>3. sd'[s].active = sd[s].active /\ Held(Peer(s))
      BY <3>1, <3>2 DEF Closes, Begins, Took, HeldBut
    <3> QED
      BY <2>2, <3>3
  <2>4. ASSUME NEW s \in Sides, \/ Refuses(s) \/ \E i \in Ids : Admits(s, i)
                                \/ Confirms(s) \/ Forgets(s) \/ Ignores(s) \/ Shuts(s)
        PROVE  \A r \in Sides : sd'[r].active = sd[r].active
    <3>1. sd'[s].active = sd[s].active /\ Held(Peer(s))
      BY <2>4 DEF Refuses, Admits, Confirms, Forgets, Ignores, Shuts, Took, HeldBut, Held
    <3> QED
      BY <2>2, <3>1
  <2> QED
    BY <1>1, <1>3, <1>4, <2>1, <2>3, <2>4, StepKinds
<1>6. \A u \in Timed : th[u].pc # "done"
  BY ThreadsEnd, SessionAssumption DEF Intact
<1> QED
  BY <1>3, <1>4, <1>5, <1>6 DEF Intact

\* Every step of an intact session keeps its tables steady.
LEMMA SteadyNext ==
    ASSUME TypeOK, TypeOK', Known, Pairing, TimedOnly, Intact => Steady, [Next]_vars
    PROVE  Intact' => Steady'
<1> SUFFICES ASSUME Intact' PROVE Steady'
  OBVIOUS
<1>1. SdOK /\ ThOK /\ WireOK
  BY DEF TypeOK, SdOK, ThOK, WireOK
<1>2. /\ Steady /\ \A s \in Sides : sd[s].active
      /\ \A s \in Sides : ~Ends(s)
      /\ \A u \in Users : ~Collects(u)
  BY IntactBefore DEF Intact
<1>3. Pairing'
  BY PairingNext
<1>4. CASE \/ Quiet
           \/ \E u \in Users : Closes(u)
           \/ \E s \in Sides : Confirms(s) \/ Forgets(s) \/ Ignores(s) \/ Shuts(s)
  <2>1. Settles
    BY <1>2, <1>4, StepsSettle
  <2> QED
    BY <1>2, <1>3, <2>1, SteadySettles
<1>5. CASE \E u \in Users : Sends(u) \/ \E i \in Ids : Begins(u, i)
  <2>1. \A u \in Users : SideOf[u] \in Sides
    BY SessionAssumption
  <2> QED
    BY <1>2, <1>5, <2>1, SteadyBegins, SteadySends
<1>6. CASE \E s \in Sides : Refuses(s) \/ \E i \in Ids : Admits(s, i)
  BY <1>2, <1>6, SteadyRefuses, SteadyAdmits
<1> QED
  BY <1>1, <1>2, <1>4, <1>5, <1>6, StepKinds

\* At first the tables are empty.
LEMMA SteadyInit == Init => Steady /\ TimedOnly
<1> SUFFICES ASSUME Init PROVE Steady /\ TimedOnly
  OBVIOUS
<1>1. \A s \in Sides : Out(s) = {} /\ wire[s] = <<>> /\ Peer(s) \in Sides
  BY PeerFacts DEF Init, Out
<1>2. \A s \in Sides : \A i \in Ids : ~Chan(s, i).active /\ ~Chan(s, i).live
  BY DEF Init, Chan, NoChannel
<1>3. \A u \in Users : th[u].pc = "idle"
  BY DEF Init
<1>4. \A u \in Users : ~Pending(u)
  <2>1. \A u \in Users : SideOf[u] \in Sides
    BY SessionAssumption
  <2> QED
    BY <1>1, <1>3, <2>1 DEF Pending
<1>5. \A s \in Sides : \A i, j \in Ids : ~Half(s, i) /\ ~KnownAs(s, i, j) /\ ~Confirmed(s, i, j)
  BY <1>1, <1>2 DEF Half, KnownAs, Confirmed
<1>6. Decided /\ Waiting /\ Mirrored /\ CloseSent /\ Confirming /\ News /\ Refusals
  BY <1>1, <1>4, <1>5 DEF Decided, Waiting, Mirrored, CloseSent, Confirming, News, Refusals
<1>7. CloseBehind /\ ConfirmedLives /\ ConfirmedOnce
  BY <1>1 DEF CloseBehind, ConfirmedLives, ConfirmedOnce
<1> QED
  BY <1>3, <1>6, <1>7 DEF Steady, TimedOnly

\* A channel only leaves one table for good with the other: once nothing is under way in a
\* session that is on, every Channel of one side is known and in the table of the other,
\* whatever was opened, refused, confirmed and closed in which order, unless an
\* open_channel was given up.
THEOREM SessionInStep == Spec => []InStep
<1> DEFINE Inv == TimedOnly /\ (Intact => Steady)
<1>1. TypeOK /\ Steady => InStep
  <2> SUFFICES ASSUME TypeOK, Steady,
                      \A s \in Sides : sd[s].active /\ wire[s] = <<>>,
                      \A u \in Users : th[u].pc \notin {"opensend", "timedout"},
                      NEW s \in Sides, NEW i \in Ids, Chan(s, i).live
               PROVE  Chan(s, i).active /\ Chan(Peer(s), Chan(s, i).remote).live
    BY DEF InStep, Chan
  <2>1. SdOK /\ \A r \in Sides : Peer(r) \in Sides /\ Out(r) = {}
    BY PeerFacts DEF TypeOK, SdOK, Out
  <2>2. \A u \in Users : ~Pending(u)
    <3>1. \A u \in Users : SideOf[u] \in Sides
      BY SessionAssumption
    <3> QED
      BY <2>1, <3>1 DEF Pending
  <2>3. Chan(s, i).active
    BY <2>1, <2>2 DEF Steady, Decided, Half
  <2>4. PICK j \in Ids : j = Chan(s, i).remote
    BY <2>1, ChannelFacts DEF Chan
  <2>5. Chan(Peer(s), j).live
    BY <2>1, <2>3, <2>4 DEF Steady, Mirrored, KnownAs, ClosesAt
  <2> QED
    BY <2>3, <2>4, <2>5
<1>2. TypeOK /\ Inv => InStep
  <2>1. ASSUME ~Intact PROVE InStep
    BY <2>1 DEF Intact, InStep
  <2> QED
    BY <1>1, <2>1
<1>3. Init => Inv
  BY SteadyInit
<1>4. TypeOK /\ TypeOK' /\ Known /\ Pairing /\ Inv /\ [Next]_vars => Inv'
  BY SteadyNext, ThreadsEnd
<1>5. TypeOK /\ TypeOK' /\ Known /\ Pairing /\ [Next]_vars => Pairing'
  BY PairingNext
<1>6. TypeOK /\ Known /\ [Next]_vars => Known'
  BY KnownNext
<1> HIDE DEF Inv
<1> QED
  BY <1>2, <1>3, <1>4, <1>5, <1>6, KnownInit, PairingInit, SessionTypes, PTL DEF Spec
=============================================================================
