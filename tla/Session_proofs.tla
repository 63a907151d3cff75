-------------------------- MODULE Session_proofs --------------------------
(***************************************************************************)
(* Proofs about Session, for any finite set of users, any calls they make  *)
(* and any number of channel numbers: its types, and that no accept sleeps *)
(* beside a channel nobody was woken for.                                  *)
(***************************************************************************)
EXTENDS Session, FiniteSetTheorems, SequenceTheorems, TLAPS

SdOK == sd \in [Sides -> SideStates]
ThOK == th \in [Users -> ThreadStates]
WireOK == wire \in [Sides -> Seq(Messages)]

-----------------------------------------------------------------------------
(* What the helpers of the actions do to the types                          *)

\* The two ends are each other's peers.
LEMMA PeerFacts == \A s \in Sides : Peer(s) \in Sides /\ Peer(s) # s
  BY DEF Sides, Peer

\* One thread's state is replaced.
LEMMA ThreadReplaced ==
    ASSUME ThOK, NEW u \in Users, NEW t \in ThreadStates, th' = [th EXCEPT ![u] = t]
    PROVE  ThOK'
  BY DEF ThOK

\* Goto only moves a thread.
LEMMA GotoTypes ==
    ASSUME ThOK, NEW u \in Users, NEW place \in Places, Goto(u, place)
    PROVE  ThOK'
<1>1. th[u] \in ThreadStates
  BY DEF ThOK
<1>2. [th[u] EXCEPT !.pc = place] \in ThreadStates
  BY <1>1 DEF ThreadStates
<1>3. th' = [th EXCEPT ![u] = [th[u] EXCEPT !.pc = place]]
  BY DEF Goto
<1> QED
  BY <1>2, <1>3, ThreadReplaced

\* A message made of parts of the right kind.
LEMMA MsgTypes ==
    ASSUME NEW type \in {"open", "success", "failure", "close", "request", "granted", "denied"},
           NEW to \in Ids, NEW from \in Ids, NEW user \in Users \cup {Nobody}
    PROVE  Msg(type, to, from, user) \in Messages
  BY DEF Msg, Messages

\* Post sends one message, or drops it.
LEMMA PostTypes ==
    ASSUME WireOK, NEW s \in Sides, NEW m \in Messages, Post(s, m)
    PROVE  WireOK'
<1>1. wire[s] \in Seq(Messages)
  BY DEF WireOK
<1>2. Append(wire[s], m) \in Seq(Messages)
  BY <1>1
<1>3. wire' = wire \/ wire' = [wire EXCEPT ![s] = Append(wire[s], m)]
  BY DEF Post
<1> QED
  BY <1>2, <1>3 DEF WireOK

\* What a handler sends: nothing, or one message.
LEMMA Sendable == <<>> \in Seq(Messages) /\ \A m \in Messages : <<m>> \in Seq(Messages)
  OBVIOUS

\* Exchange takes one message and sends some.
LEMMA ExchangeTypes ==
    ASSUME WireOK, NEW s \in Sides, NEW ms \in Seq(Messages), wire[Peer(s)] # <<>>,
           Exchange(s, ms)
    PROVE  WireOK'
<1>1. Peer(s) \in Sides /\ Peer(s) # s
  BY PeerFacts
<1>2. wire[s] \in Seq(Messages) /\ wire[Peer(s)] \in Seq(Messages)
  BY <1>1 DEF WireOK
<1>3. Tail(wire[Peer(s)]) \in Seq(Messages)
  BY <1>2
<1>4. wire[s] \o ms \in Seq(Messages)
  BY <1>2
<1>5. wire' = [wire EXCEPT ![Peer(s)] = Tail(wire[Peer(s)]), ![s] = wire[s] \o ms]
  BY <1>1 DEF Exchange, WireOK
<1> QED
  BY <1>1, <1>3, <1>4, <1>5 DEF WireOK

\* The message being handled.
LEMMA HeadTypes ==
    ASSUME WireOK, NEW s \in Sides, NEW type, Incoming(s, type)
    PROVE  /\ wire[Peer(s)] # <<>>
           /\ Head(wire[Peer(s)]) \in Messages
           /\ Head(wire[Peer(s)]).to \in Ids
           /\ Head(wire[Peer(s)]).from \in Ids
           /\ Head(wire[Peer(s)]).user \in Users \cup {Nobody}
<1>1. Peer(s) \in Sides /\ wire[Peer(s)] # <<>>
  BY PeerFacts DEF Incoming
<1>2. wire[Peer(s)] \in Seq(Messages)
  BY <1>1 DEF WireOK
<1>3. Head(wire[Peer(s)]) \in Messages
  BY <1>1, <1>2
<1> QED
  BY <1>1, <1>3 DEF Messages

\* _next_channel and the new entry in the table.
LEMMA PutTypes ==
    ASSUME NEW t \in SideStates, NEW i \in Ids, NEW c \in Channels
    PROVE  /\ Advance(t, i) \in SideStates
           /\ Put(t, i, c) \in SideStates
           /\ Advance(t, i).accepts = t.accepts
           /\ Put(t, i, c).accepts = t.accepts
<1>1. (i + 1) % IdSpace \in Ids
  BY SessionAssumption DEF Ids
<1>2. Advance(t, i) \in SideStates /\ Advance(t, i).accepts = t.accepts
  BY <1>1 DEF Advance, SideStates
<1>3. Put(t, i, c) \in SideStates /\ Put(t, i, c).accepts = Advance(t, i).accepts
  <2> DEFINE a == Advance(t, i)
  <2>1. a \in SideStates
    BY <1>2
  <2>2. Put(t, i, c) = [a EXCEPT !.channels[i] = c, !.seen = a.seen \cup {i}]
    BY <2>1 DEF Put, SideStates
  <2> HIDE DEF a
  <2>3. [a.channels EXCEPT ![i] = c] \in [Ids -> Channels] /\ a.seen \cup {i} \in SUBSET Ids
    BY <2>1 DEF SideStates
  <2> QED
    BY <2>1, <2>2, <2>3 DEF SideStates, a
<1> QED
  BY <1>2, <1>3

\* Number 0 exists, and the Channels that the actions make are of their type.
LEMMA ChannelTypes ==
    /\ Unset \in Ids
    /\ NoChannel \in Channels /\ Opening \in Channels
    /\ \A i \in Ids : Opened(i) \in Channels
<1>1. Unset \in Ids
  BY SessionAssumption DEF Unset, Ids
<1> QED
  BY <1>1 DEF NoChannel, Opening, Opened, Channels

\* An entry of the table is replaced, or nothing is when i is no number.
LEMMA EntryTypes ==
    ASSUME NEW t \in SideStates, NEW i \in Ids, NEW c \in Channels
    PROVE  /\ [t EXCEPT !.channels[i] = c] \in SideStates
           /\ [t EXCEPT !.channels[i] = c].accepts = t.accepts
<1>1. [t.channels EXCEPT ![i] = c] \in [Ids -> Channels]
  BY DEF SideStates
<1> QED
  BY <1>1 DEF SideStates

\* The same for an event.
LEMMA EventTypes ==
    ASSUME NEW t \in SideStates, NEW i \in Ids, NEW e \in Users \cup {Nobody}
    PROVE  /\ [t EXCEPT !.events[i] = e] \in SideStates
           /\ [t EXCEPT !.events[i] = e].accepts = t.accepts
<1>1. [t.events EXCEPT ![i] = e] \in [Ids -> Users \cup {Nobody}]
  BY DEF SideStates
<1> QED
  BY <1>1 DEF SideStates

-----------------------------------------------------------------------------
(* Steps that leave the accept queue and its threads alone                  *)

\* The queues stay, nobody begins to wait, and nobody is woken or resumes.
Calm ==
    /\ \A s \in Sides : sd'[s].accepts = sd[s].accepts
    /\ \A u \in Users : /\ th'[u].pc = "acceptwait" => th[u].pc = "acceptwait"
                        /\ th'[u].pc = "acceptwoken" <=> th[u].pc = "acceptwoken"

\* Replacing one side by one with the same queue, while the threads keep their places.
LEMMA SameQueue ==
    ASSUME SdOK, NEW s \in Sides, NEW t \in SideStates, sd' = [sd EXCEPT ![s] = t],
           t.accepts = sd[s].accepts
    PROVE  SdOK' /\ \A r \in Sides : sd'[r].accepts = sd[r].accepts
  BY DEF SdOK

\* A thread that is not in accept, and does not get there, moves.
LEMMA GotoCalm ==
    ASSUME ThOK, NEW u \in Users, NEW place \in Places, Goto(u, place),
           th[u].pc # "acceptwoken", place \notin {"acceptwait", "acceptwoken"}
    PROVE  /\ ThOK'
           /\ \A v \in Users : /\ th'[v].pc = "acceptwait" => th[v].pc = "acceptwait"
                               /\ th'[v].pc = "acceptwoken" <=> th[v].pc = "acceptwoken"
<1>1. ThOK'
  BY GotoTypes
<1>2. th[u] \in ThreadStates
  BY DEF ThOK
<1>3. th' = [th EXCEPT ![u] = [th[u] EXCEPT !.pc = place]]
  BY DEF Goto
<1>4. [th[u] EXCEPT !.pc = place].pc = place
  BY <1>2 DEF ThreadStates
<1>5. \A v \in Users : th'[v] = IF v = u THEN [th[u] EXCEPT !.pc = place] ELSE th[v]
  BY <1>3 DEF ThOK
<1> QED
  BY <1>1, <1>4, <1>5

\* Setting an event moves nobody.
LEMMA SetEventCalm ==
    ASSUME ThOK, NEW t, NEW i, th' = SetEvent(th, t, i)
    PROVE  ThOK' /\ \A v \in Users : th'[v].pc = th[v].pc
<1> DEFINE w == t.events[i]
<1>1. th' = th \/ th' = [th EXCEPT ![w] = [th[w] EXCEPT !.event = TRUE]]
  BY DEF SetEvent
<1> HIDE DEF w
<1>2. CASE w \in Users
  <2>1. th[w] \in ThreadStates
    BY <1>2 DEF ThOK
  <2>2. /\ [th[w] EXCEPT !.event = TRUE] \in ThreadStates
        /\ [th[w] EXCEPT !.event = TRUE].pc = th[w].pc
    BY <2>1 DEF ThreadStates
  <2> QED
    BY <1>1, <1>2, <2>2 DEF ThOK
<1>3. CASE w \notin Users
  BY <1>1, <1>3 DEF ThOK
<1> QED
  BY <1>2, <1>3

-----------------------------------------------------------------------------
(* The actions of users, one by one                                         *)

Kept == SdOK' /\ ThOK' /\ WireOK' /\ Calm

\* SideOf gives a side, whose fields are of their types.
LEMMA SideFacts ==
    ASSUME SdOK, NEW u \in Users
    PROVE  SideOf[u] \in Sides /\ sd[SideOf[u]] \in SideStates
  BY SessionAssumption DEF SdOK

\* open_channel takes a number and makes its Channel.
LEMMA OpenChannelKept ==
    ASSUME SdOK, ThOK, WireOK, NEW u \in Users, OpenChannel(u)
    PROVE  Kept
<1> DEFINE s == SideOf[u]
<1>1. s \in Sides /\ sd[s] \in SideStates
  BY SideFacts
<1>2. PICK i \in NextChannel(sd[s]) :
        /\ sd' = [sd EXCEPT ![s] = [Put(sd[s], i, Opening) EXCEPT !.events[i] = u]]
        /\ th' = [th EXCEPT ![u] = [pc |-> "opensend", id |-> i, event |-> FALSE]]
  BY DEF OpenChannel
<1>3. i \in Ids
  BY DEF NextChannel, FreeIds
<1>4. SdOK' /\ \A r \in Sides : sd'[r].accepts = sd[r].accepts
  <2> DEFINE p == Put(sd[s], i, Opening)
             t == [p EXCEPT !.events[i] = u]
  <2>1. p \in SideStates /\ p.accepts = sd[s].accepts
    BY <1>1, <1>3, PutTypes, ChannelTypes
  <2> HIDE DEF p
  <2>2. t \in SideStates /\ t.accepts = sd[s].accepts
    BY <1>3, <2>1, EventTypes
  <2>3. sd' = [sd EXCEPT ![s] = t]
    BY <1>2 DEF p
  <2> HIDE DEF t, s
  <2> QED
    BY <1>1, <2>2, <2>3, SameQueue
<1>5. [pc |-> "opensend", id |-> i, event |-> FALSE] \in ThreadStates
  BY <1>3 DEF ThreadStates, Places
<1>6. /\ ThOK' /\ th[u].pc = "idle" /\ th'[u].pc = "opensend"
      /\ \A v \in Users : v # u => th'[v] = th[v]
  BY <1>2, <1>5 DEF ThOK, OpenChannel
<1>7. WireOK'
  BY DEF OpenChannel, WireOK
<1> QED
  BY <1>4, <1>6, <1>7 DEF Kept, Calm


\* A thread's fields have their types.
LEMMA ThreadFacts ==
    ASSUME ThOK, NEW u \in Users
    PROVE  th[u] \in ThreadStates /\ th[u].pc \in Places /\ th[u].id \in Ids
<1>1. th[u] \in ThreadStates
  BY DEF ThOK
<1> QED
  BY <1>1 DEF ThreadStates

\* An entry of the table of one side, and the number it holds.
LEMMA ChannelFacts ==
    ASSUME SdOK, NEW s \in Sides, NEW i \in Ids
    PROVE  sd[s].channels[i] \in Channels /\ sd[s].channels[i].remote \in Ids
<1>1. sd[s] \in SideStates
  BY DEF SdOK
<1>2. sd[s].channels[i] \in Channels
  BY <1>1 DEF SideStates
<1> QED
  BY <1>2 DEF Channels

\* A step of user u that leaves the Transports alone, outside accept.
LEMMA MoveKept ==
    ASSUME SdOK, ThOK, WireOK', NEW u \in Users, NEW place \in Places, Goto(u, place),
           th[u].pc # "acceptwoken", place \notin {"acceptwait", "acceptwoken"},
           \A s \in Sides : sd'[s].accepts = sd[s].accepts, SdOK'
    PROVE  Kept
  BY GotoCalm DEF Kept, Calm

\* open_channel sends CHANNEL_OPEN.
LEMMA OpenSendKept ==
    ASSUME SdOK, ThOK, WireOK, NEW u \in Users, OpenSend(u)
    PROVE  Kept
<1>1. SideOf[u] \in Sides /\ th[u].id \in Ids
  BY SideFacts, ThreadFacts
<1>2. Msg("open", Unset, th[u].id, u) \in Messages
  BY <1>1, MsgTypes, ChannelTypes
<1>3. WireOK'
  BY <1>1, <1>2, PostTypes DEF OpenSend
<1>4. SdOK' /\ \A s \in Sides : sd'[s].accepts = sd[s].accepts
  BY DEF OpenSend, SdOK
<1>5. Goto(u, "openwait") /\ th[u].pc = "opensend" /\ "openwait" \in Places
  BY DEF OpenSend, Places
<1> QED
  BY <1>3, <1>4, <1>5, MoveKept

\* open_channel ends its loop.
LEMMA OpenReturnsKept ==
    ASSUME SdOK, ThOK, WireOK, NEW u \in Users, OpenReturns(u)
    PROVE  Kept
<1>1. SdOK' /\ WireOK' /\ \A s \in Sides : sd'[s].accepts = sd[s].accepts
  BY DEF OpenReturns, SdOK, WireOK
<1>2. PICK place \in {"opened", "done"} : Goto(u, place)
  BY DEF OpenReturns
<1>3. th[u].pc = "openwait" /\ place \in Places
  BY DEF OpenReturns, Places
<1> QED
  BY <1>1, <1>2, <1>3, MoveKept

\* open_channel times out.
LEMMA OpenTimesOutKept ==
    ASSUME SdOK, ThOK, WireOK, NEW u \in Users, OpenTimesOut(u)
    PROVE  Kept
<1>1. SdOK' /\ WireOK' /\ \A s \in Sides : sd'[s].accepts = sd[s].accepts
  BY DEF OpenTimesOut, SdOK, WireOK
<1>2. Goto(u, "timedout") /\ th[u].pc = "openwait" /\ "timedout" \in Places
  BY DEF OpenTimesOut, Places
<1> QED
  BY <1>1, <1>2, MoveKept

\* The Channel of an open that timed out is collected.
LEMMA CollectKept ==
    ASSUME SdOK, ThOK, WireOK, NEW u \in Users, Collect(u)
    PROVE  Kept
<1> DEFINE s == SideOf[u]
           t == [sd[s] EXCEPT !.channels[th[u].id] = NoChannel]
           m == Msg("close", sd[s].channels[th[u].id].remote, Unset, Nobody)
<1>1. s \in Sides /\ sd[s] \in SideStates /\ th[u].id \in Ids
  BY SideFacts, ThreadFacts
<1>2. t \in SideStates /\ t.accepts = sd[s].accepts
  BY <1>1, EntryTypes, ChannelTypes
<1>3. sd' = [sd EXCEPT ![s] = t]
  BY DEF Collect
<1>4. m \in Messages
  BY <1>1, ChannelFacts, ChannelTypes, MsgTypes
<1>5. Post(s, m) \/ UNCHANGED wire
  BY DEF Collect
<1>6. Goto(u, "done") /\ th[u].pc = "timedout" /\ "done" \in Places
  BY DEF Collect, Places
<1> HIDE DEF s, t, m
<1>7. WireOK'
  BY <1>1, <1>4, <1>5, PostTypes DEF WireOK
<1>8. SdOK' /\ \A r \in Sides : sd'[r].accepts = sd[r].accepts
  BY <1>1, <1>2, <1>3, SameQueue
<1> QED
  BY <1>6, <1>7, <1>8, MoveKept

\* A user closes a Channel.
LEMMA CloseChannelKept ==
    ASSUME SdOK, ThOK, WireOK, NEW u \in Users, CloseChannel(u)
    PROVE  Kept
<1> DEFINE s == SideOf[u]
           c == [sd[s].channels[th[u].id] EXCEPT !.closed = TRUE]
           t == [sd[s] EXCEPT !.channels[th[u].id] = c]
           m == Msg("close", sd[s].channels[th[u].id].remote, Unset, Nobody)
<1>1. s \in Sides /\ sd[s] \in SideStates /\ th[u].id \in Ids
  BY SideFacts, ThreadFacts
<1>2. c \in Channels
  <2>1. sd[s].channels[th[u].id] \in Channels
    BY <1>1, ChannelFacts
  <2> QED
    BY <2>1 DEF Channels
<1>3. sd' = [sd EXCEPT ![s] = t]
  BY DEF CloseChannel
<1>4. t \in SideStates /\ t.accepts = sd[s].accepts
  <2> HIDE DEF c
  <2> QED
    BY <1>1, <1>2, EntryTypes
<1>5. m \in Messages
  BY <1>1, ChannelFacts, ChannelTypes, MsgTypes
<1>6. Post(s, m)
  BY DEF CloseChannel
<1>7. Goto(u, "done") /\ th[u].pc = "opened" /\ "done" \in Places
  BY DEF CloseChannel, Places
<1> HIDE DEF s, c, t, m
<1>8. WireOK'
  BY <1>1, <1>5, <1>6, PostTypes
<1>9. SdOK' /\ \A r \in Sides : sd'[r].accepts = sd[r].accepts
  BY <1>1, <1>3, <1>4, SameQueue
<1> QED
  BY <1>7, <1>8, <1>9, MoveKept

\* The time of a waiting accept is up; it still has to resume.
LEMMA AcceptTimesOutKept ==
    ASSUME SdOK, ThOK, WireOK, NEW u \in Users, AcceptTimesOut(u)
    PROVE  Kept
<1>1. SdOK' /\ WireOK' /\ \A s \in Sides : sd'[s].accepts = sd[s].accepts
  BY DEF AcceptTimesOut, SdOK, WireOK
<1>2. Goto(u, "acceptexpired") /\ th[u].pc = "acceptwait" /\ "acceptexpired" \in Places
  BY DEF AcceptTimesOut, Places
<1> QED
  BY <1>1, <1>2, MoveKept

\* A boolean field of one side is assigned.
LEMMA FlagTypes ==
    ASSUME NEW t \in SideStates, NEW b \in BOOLEAN
    PROVE  /\ [t EXCEPT !.completion = b] \in SideStates
           /\ [t EXCEPT !.completion = b].accepts = t.accepts
           /\ [t EXCEPT !.tcpHandler = b] \in SideStates
           /\ [t EXCEPT !.tcpHandler = b].accepts = t.accepts
  BY DEF SideStates

\* global_request makes a new completion_event.
LEMMA GlobalRequestKept ==
    ASSUME SdOK, ThOK, WireOK, NEW u \in Users, GlobalRequest(u)
    PROVE  Kept
<1> DEFINE s == SideOf[u]
           t == [sd[s] EXCEPT !.completion = FALSE]
<1>1. s \in Sides /\ sd[s] \in SideStates
  BY SideFacts
<1>2. t \in SideStates /\ t.accepts = sd[s].accepts
  BY <1>1, FlagTypes
<1>3. sd' = [sd EXCEPT ![s] = t]
  BY DEF GlobalRequest
<1>4. Goto(u, "requestsend") /\ th[u].pc = "idle" /\ "requestsend" \in Places /\ WireOK'
  BY DEF GlobalRequest, Places, WireOK
<1> HIDE DEF s, t
<1>5. SdOK' /\ \A r \in Sides : sd'[r].accepts = sd[r].accepts
  BY <1>1, <1>2, <1>3, SameQueue
<1> QED
  BY <1>4, <1>5, MoveKept

\* global_request sends GLOBAL_REQUEST.
LEMMA GlobalSendKept ==
    ASSUME SdOK, ThOK, WireOK, NEW u \in Users, GlobalSend(u)
    PROVE  Kept
<1>1. SideOf[u] \in Sides
  BY SideFacts
<1>2. Msg("request", Unset, Unset, u) \in Messages
  BY MsgTypes, ChannelTypes
<1>3. WireOK'
  BY <1>1, <1>2, PostTypes DEF GlobalSend
<1>4. SdOK' /\ \A s \in Sides : sd'[s].accepts = sd[s].accepts
  BY DEF GlobalSend, SdOK
<1>5. Goto(u, "requestwait") /\ th[u].pc = "requestsend" /\ "requestwait" \in Places
  BY DEF GlobalSend, Places
<1> QED
  BY <1>3, <1>4, <1>5, MoveKept

\* global_request ends its loop.
LEMMA GlobalReturnsKept ==
    ASSUME SdOK, ThOK, WireOK, NEW u \in Users, GlobalReturns(u)
    PROVE  Kept
<1>1. SdOK' /\ WireOK' /\ \A s \in Sides : sd'[s].accepts = sd[s].accepts
  BY DEF GlobalReturns, SdOK, WireOK
<1>2. PICK place \in {"handler", "done"} : Goto(u, place)
  BY DEF GlobalReturns
<1>3. th[u].pc = "requestwait" /\ place \in Places
  BY DEF GlobalReturns, Places
<1> QED
  BY <1>1, <1>2, <1>3, MoveKept

\* request_port_forward installs its handler.
LEMMA SetTcpHandlerKept ==
    ASSUME SdOK, ThOK, WireOK, NEW u \in Users, SetTcpHandler(u)
    PROVE  Kept
<1> DEFINE s == SideOf[u]
           t == [sd[s] EXCEPT !.tcpHandler = TRUE]
<1>1. s \in Sides /\ sd[s] \in SideStates
  BY SideFacts
<1>2. t \in SideStates /\ t.accepts = sd[s].accepts
  BY <1>1, FlagTypes
<1>3. sd' = [sd EXCEPT ![s] = t]
  BY DEF SetTcpHandler
<1>4. Goto(u, "done") /\ th[u].pc = "handler" /\ "done" \in Places /\ WireOK'
  BY DEF SetTcpHandler, Places, WireOK
<1> HIDE DEF s, t
<1>5. SdOK' /\ \A r \in Sides : sd'[r].accepts = sd[r].accepts
  BY <1>1, <1>2, <1>3, SameQueue
<1> QED
  BY <1>4, <1>5, MoveKept

\* The table of a session that has ended.
LEMMA EndedTypes ==
    ASSUME NEW t \in SideStates, NEW b \in BOOLEAN
    PROVE  /\ [t EXCEPT !.active = FALSE, !.channels = NoChannels, !.completion = b] \in SideStates
           /\ [t EXCEPT !.active = FALSE, !.channels = NoChannels, !.completion = b].accepts = t.accepts
           /\ [t EXCEPT !.active = FALSE, !.channels = NoChannels] \in SideStates
           /\ [t EXCEPT !.active = FALSE, !.channels = NoChannels].accepts = t.accepts
<1>1. NoChannels \in [Ids -> Channels]
  BY ChannelTypes DEF NoChannels
<1> QED
  BY <1>1 DEF SideStates

\* A user closes the Transport.
LEMMA CloseTransportKept ==
    ASSUME SdOK, ThOK, WireOK, NEW u \in Users, CloseTransport(u)
    PROVE  Kept
<1> DEFINE s == SideOf[u]
           t == [sd[s] EXCEPT !.active = FALSE, !.channels = NoChannels]
<1>1. s \in Sides /\ sd[s] \in SideStates
  BY SideFacts
<1>2. t \in SideStates /\ t.accepts = sd[s].accepts
  BY <1>1, EndedTypes
<1>3. sd' = [sd EXCEPT ![s] = t] \/ sd' = sd
  BY DEF CloseTransport
<1>4. Goto(u, "done") /\ th[u].pc = "idle" /\ "done" \in Places /\ WireOK'
  BY DEF CloseTransport, Places, WireOK
<1> HIDE DEF s, t
<1>5. SdOK' /\ \A r \in Sides : sd'[r].accepts = sd[r].accepts
  BY <1>1, <1>2, <1>3, SameQueue DEF SdOK
<1> QED
  BY <1>4, <1>5, MoveKept

-----------------------------------------------------------------------------
(* The actions of the transport threads, one by one                         *)

\* A step of the transport thread of s that keeps the queue and the places of threads.
LEMMA HandlerKept ==
    ASSUME SdOK, ThOK', WireOK', \A v \in Users : th'[v].pc = th[v].pc,
           NEW s \in Sides, NEW t \in SideStates,
           sd' = [sd EXCEPT ![s] = t], t.accepts = sd[s].accepts
    PROVE  Kept
  BY SameQueue DEF Kept, Calm

\* The same when no Transport changes.
LEMMA IdleKept ==
    ASSUME SdOK, ThOK', WireOK', \A v \in Users : th'[v].pc = th[v].pc, sd' = sd
    PROVE  Kept
  BY DEF Kept, Calm, SdOK

\* _parse_channel_open_success.
LEMMA ParseOpenSuccessKept ==
    ASSUME SdOK, ThOK, WireOK, NEW s \in Sides, ParseOpenSuccess(s)
    PROVE  Kept
<1> DEFINE m == Head(wire[Peer(s)])
           t0 == [sd[s] EXCEPT !.channels[m.to] = Opened(m.from)]
           t == [t0 EXCEPT !.events[m.to] = Nobody]
<1>1. wire[Peer(s)] # <<>> /\ m.to \in Ids /\ m.from \in Ids
  BY HeadTypes DEF ParseOpenSuccess
<1>2. WireOK'
  <2>1. Exchange(s, <<>>)
    BY DEF ParseOpenSuccess
  <2> QED
    BY <1>1, <2>1, Sendable, ExchangeTypes
<1>3. CASE sd[s].channels[m.to].live
  <2>1. sd' = [sd EXCEPT ![s] = t] /\ th' = SetEvent(th, sd[s], m.to)
    BY <1>3 DEF ParseOpenSuccess
  <2>2. ThOK' /\ \A v \in Users : th'[v].pc = th[v].pc
    BY <2>1, SetEventCalm
  <2>3. sd[s] \in SideStates
    BY DEF SdOK
  <2>4. t0 \in SideStates /\ t0.accepts = sd[s].accepts
    BY <1>1, <2>3, EntryTypes, ChannelTypes
  <2>5. t \in SideStates /\ t.accepts = sd[s].accepts
    <3> HIDE DEF t0
    <3> QED
      BY <1>1, <2>4, EventTypes
  <2> HIDE DEF t
  <2> QED
    BY <1>2, <2>1, <2>2, <2>5, HandlerKept
<1>4. CASE ~sd[s].channels[m.to].live
  BY <1>2, <1>4, IdleKept DEF ParseOpenSuccess, ThOK
<1> QED
  BY <1>3, <1>4

\* _parse_channel_open_failure.
LEMMA ParseOpenFailureKept ==
    ASSUME SdOK, ThOK, WireOK, NEW s \in Sides, ParseOpenFailure(s)
    PROVE  Kept
<1> DEFINE m == Head(wire[Peer(s)])
           t0 == [sd[s] EXCEPT !.channels[m.to] = NoChannel]
           t == [t0 EXCEPT !.events[m.to] = Nobody]
<1>1. wire[Peer(s)] # <<>> /\ m.to \in Ids
  BY HeadTypes DEF ParseOpenFailure
<1>2. WireOK'
  <2>1. Exchange(s, <<>>)
    BY DEF ParseOpenFailure
  <2> QED
    BY <1>1, <2>1, Sendable, ExchangeTypes
<1>3. CASE sd[s].events[m.to] # Nobody
  <2>1. sd' = [sd EXCEPT ![s] = t] /\ th' = SetEvent(th, sd[s], m.to)
    BY <1>3 DEF ParseOpenFailure
  <2>2. ThOK' /\ \A v \in Users : th'[v].pc = th[v].pc
    BY <2>1, SetEventCalm
  <2>3. sd[s] \in SideStates
    BY DEF SdOK
  <2>4. t0 \in SideStates /\ t0.accepts = sd[s].accepts
    BY <1>1, <2>3, EntryTypes, ChannelTypes
  <2>5. t \in SideStates /\ t.accepts = sd[s].accepts
    <3> HIDE DEF t0
    <3> QED
      BY <1>1, <2>4, EventTypes
  <2> HIDE DEF t
  <2> QED
    BY <1>2, <2>1, <2>2, <2>5, HandlerKept
<1>4. CASE sd[s].events[m.to] = Nobody
  BY <1>2, <1>4, IdleKept DEF ParseOpenFailure, ThOK
<1> QED
  BY <1>3, <1>4

\* Channel._handle_close.
LEMMA HandleCloseKept ==
    ASSUME SdOK, ThOK, WireOK, NEW s \in Sides, HandleClose(s)
    PROVE  Kept
<1> DEFINE m == Head(wire[Peer(s)])
           t == [sd[s] EXCEPT !.channels[m.to] = NoChannel]
           reply == Msg("close", sd[s].channels[m.to].remote, Unset, Nobody)
<1>1. wire[Peer(s)] # <<>> /\ m.to \in Ids /\ sd[s] \in SideStates
  BY HeadTypes DEF HandleClose, SdOK
<1>2. t \in SideStates /\ t.accepts = sd[s].accepts
  BY <1>1, EntryTypes, ChannelTypes
<1>3. sd' = [sd EXCEPT ![s] = t]
  BY DEF HandleClose
<1>4. reply \in Messages
  BY <1>1, ChannelFacts, ChannelTypes, MsgTypes
<1>5. PICK ms \in {<<reply>>, <<>>} : Exchange(s, ms)
  BY DEF HandleClose
<1>6. ThOK' /\ \A v \in Users : th'[v].pc = th[v].pc
  BY DEF HandleClose, ThOK
<1> HIDE DEF m, t, reply
<1>7. ms \in Seq(Messages)
  BY <1>4, Sendable
<1>8. WireOK'
  BY <1>1, <1>5, <1>7, ExchangeTypes
<1> QED
  BY <1>2, <1>3, <1>6, <1>8, HandlerKept

\* _parse_global_request.
LEMMA ParseGlobalRequestKept ==
    ASSUME SdOK, ThOK, WireOK, NEW s \in Sides, ParseGlobalRequest(s)
    PROVE  Kept
<1> DEFINE m == Head(wire[Peer(s)])
<1>1. wire[Peer(s)] # <<>> /\ m.user \in Users \cup {Nobody}
  BY HeadTypes DEF ParseGlobalRequest
<1>2. PICK answer \in {"granted", "denied"} : Exchange(s, <<Msg(answer, Unset, Unset, m.user)>>)
  BY DEF ParseGlobalRequest
<1>3. Msg(answer, Unset, Unset, m.user) \in Messages
  BY <1>1, ChannelTypes, MsgTypes
<1>4. <<Msg(answer, Unset, Unset, m.user)>> \in Seq(Messages)
  BY <1>3, Sendable
<1>5. WireOK'
  BY <1>1, <1>2, <1>4, ExchangeTypes
<1>6. ThOK' /\ sd' = sd /\ \A v \in Users : th'[v].pc = th[v].pc
  BY DEF ParseGlobalRequest, ThOK
<1> QED
  BY <1>5, <1>6, IdleKept

\* _parse_request_success and _parse_request_failure.
LEMMA ParseRequestAnswerKept ==
    ASSUME SdOK, ThOK, WireOK, NEW s \in Sides, ParseRequestAnswer(s)
    PROVE  Kept
<1> DEFINE m == Head(wire[Peer(s)])
           a == [user |-> m.user, granted |-> m.type = "granted"]
           t == [sd[s] EXCEPT !.answer = a, !.completion = TRUE]
<1>1. wire[Peer(s)] # <<>> /\ m.user \in Users \cup {Nobody}
  BY HeadTypes DEF ParseRequestAnswer
<1>2. sd[s] \in SideStates
  BY DEF SdOK
<1>3. sd' = [sd EXCEPT ![s] = t]
  BY DEF ParseRequestAnswer
<1>4. a \in Answers
  BY <1>1 DEF Answers
<1>5. t \in SideStates /\ t.accepts = sd[s].accepts
  <2> HIDE DEF a
  <2> QED
    BY <1>2, <1>4 DEF SideStates
<1>6. ThOK' /\ \A v \in Users : th'[v].pc = th[v].pc
  BY DEF ParseRequestAnswer, ThOK
<1>7. WireOK'
  <2>1. Exchange(s, <<>>)
    BY DEF ParseRequestAnswer
  <2> QED
    BY <1>1, <2>1, Sendable, ExchangeTypes
<1> HIDE DEF t
<1> QED
  BY <1>3, <1>5, <1>6, <1>7, HandlerKept

\* _parse_newkeys, as far as it touches completion_event.
LEMMA ParseNewKeysKept ==
    ASSUME SdOK, ThOK, WireOK, NEW s \in Sides, ParseNewKeys(s)
    PROVE  Kept
<1> DEFINE t == [sd[s] EXCEPT !.completion = TRUE]
<1>1. sd[s] \in SideStates
  BY DEF SdOK
<1>2. t \in SideStates /\ t.accepts = sd[s].accepts
  BY <1>1, FlagTypes
<1>3. sd' = [sd EXCEPT ![s] = t]
  BY DEF ParseNewKeys
<1>4. WireOK' /\ ThOK' /\ \A v \in Users : th'[v].pc = th[v].pc
  BY DEF ParseNewKeys, ThOK, WireOK
<1> HIDE DEF t
<1> QED
  BY <1>2, <1>3, <1>4, HandlerKept

-----------------------------------------------------------------------------
(* The accept queue                                                         *)

Asleep(s) == At(s, {"acceptwait"})
Woken(s) == At(s, {"acceptwoken"})

\* The sets of threads in accept are finite.
LEMMA WokenFinite == \A s \in Sides : IsFiniteSet(Woken(s)) /\ Cardinality(Woken(s)) \in Nat
<1> SUFFICES ASSUME NEW s \in Sides PROVE IsFiniteSet(Woken(s)) /\ Cardinality(Woken(s)) \in Nat
  OBVIOUS
<1>1. Woken(s) \in SUBSET Users
  BY DEF Woken, At
<1>2. IsFiniteSet(Woken(s))
  BY <1>1, SessionAssumption, FS_Subset
<1> QED
  BY <1>2, FS_CardinalityType

\* The queue of a side is a sequence.
LEMMA QueueFacts ==
    ASSUME SdOK, NEW s \in Sides
    PROVE  sd[s].accepts \in Seq(Ids) /\ Len(sd[s].accepts) \in Nat
<1>1. sd[s] \in SideStates
  BY DEF SdOK
<1>2. sd[s].accepts \in Seq(Ids)
  BY <1>1 DEF SideStates
<1> QED
  BY <1>2, LenProperties

\* Calm steps keep the property.
LEMMA CalmKeeps ==
    ASSUME NoLostAccept, Calm
    PROVE  NoLostAccept'
<1> SUFFICES ASSUME NEW s \in Sides, Asleep(s)' # {}
             PROVE  Len(sd'[s].accepts) <= Cardinality(Woken(s)')
  BY DEF NoLostAccept, Asleep, Woken
<1>1. Asleep(s)' \subseteq Asleep(s)
  BY DEF Calm, Asleep, At
<1>2. Woken(s)' = Woken(s)
  BY DEF Calm, Woken, At
<1>3. Len(sd[s].accepts) <= Cardinality(Woken(s))
  BY <1>1 DEF NoLostAccept, Asleep, Woken
<1> QED
  BY <1>2, <1>3 DEF Calm

\* One thread u moves; the others stay.
Moved(u, place) ==
    /\ ThOK' /\ th'[u].pc = place
    /\ \A v \in Users : v # u => th'[v].pc = th[v].pc

\* Goto moves one thread only.
LEMMA GotoMoved ==
    ASSUME ThOK, NEW u \in Users, NEW place \in Places, Goto(u, place)
    PROVE  Moved(u, place)
<1>1. ThOK'
  BY GotoTypes
<1>2. th[u] \in ThreadStates
  BY DEF ThOK
<1>3. [th[u] EXCEPT !.pc = place].pc = place
  BY <1>2 DEF ThreadStates
<1>4. th' = [th EXCEPT ![u] = [th[u] EXCEPT !.pc = place]]
  BY DEF Goto
<1> QED
  BY <1>1, <1>3, <1>4 DEF Moved, ThOK

\* TakeAccept removes one channel from the queue and moves its thread.
LEMMA TakeAcceptEffect ==
    ASSUME SdOK, ThOK, NEW u \in Users, TakeAccept(u), sd[SideOf[u]].accepts # <<>>
    PROVE  /\ SdOK' /\ Moved(u, "opened")
           /\ Len(sd'[SideOf[u]].accepts) = Len(sd[SideOf[u]].accepts) - 1
           /\ \A r \in Sides : r # SideOf[u] => sd'[r].accepts = sd[r].accepts
<1> DEFINE s == SideOf[u]
           q == sd[s].accepts
           t == [sd[s] EXCEPT !.accepts = Tail(q)]
           x == [th[u] EXCEPT !.pc = "opened", !.id = Head(q)]
<1>1. s \in Sides /\ sd[s] \in SideStates
  BY SideFacts
<1>2. q \in Seq(Ids) /\ q # <<>>
  BY <1>1, QueueFacts
<1>3. Head(q) \in Ids /\ Tail(q) \in Seq(Ids) /\ Len(Tail(q)) = Len(q) - 1
  BY <1>2
<1>4. t \in SideStates /\ t.accepts = Tail(q)
  BY <1>1, <1>3 DEF SideStates
<1>5. x \in ThreadStates /\ x.pc = "opened"
  BY <1>3, ThreadFacts DEF ThreadStates, Places
<1>6. sd' = [sd EXCEPT ![s] = t] /\ th' = [th EXCEPT ![u] = x]
  BY DEF TakeAccept
<1> HIDE DEF t, x
<1>7. Moved(u, "opened")
  BY <1>5, <1>6 DEF ThOK, Moved
<1>8. SdOK' /\ sd'[s].accepts = Tail(q) /\ \A r \in Sides : r # s => sd'[r].accepts = sd[r].accepts
  BY <1>1, <1>4, <1>6 DEF SdOK
<1> QED
  BY <1>3, <1>7, <1>8

\* A thread outside accept, or one that resumes, takes a channel.
LEMMA TakeAcceptKeeps ==
    ASSUME SdOK, ThOK, NoLostAccept, NEW u \in Users, TakeAccept(u), sd[SideOf[u]].accepts # <<>>
    PROVE  SdOK' /\ ThOK' /\ NoLostAccept'
<1> DEFINE o == SideOf[u]
<1>1. /\ SdOK' /\ Moved(u, "opened")
      /\ Len(sd'[o].accepts) = Len(sd[o].accepts) - 1
      /\ \A r \in Sides : r # o => sd'[r].accepts = sd[r].accepts
  BY TakeAcceptEffect
<1>2. ASSUME NEW s \in Sides, Asleep(s)' # {}
      PROVE  Len(sd'[s].accepts) <= Cardinality(Woken(s)')
  <2>1. Asleep(s)' \subseteq Asleep(s)
    BY <1>1 DEF Moved, Asleep, At
  <2>2. Len(sd[s].accepts) <= Cardinality(Woken(s))
    BY <1>2, <2>1 DEF NoLostAccept, Asleep, Woken
  <2>3. Cardinality(Woken(s)) \in Nat /\ IsFiniteSet(Woken(s)) /\ Len(sd[s].accepts) \in Nat
    BY WokenFinite, QueueFacts
  <2>4. CASE s = o
    <3>1. Woken(s)' = Woken(s) \ {u}
      BY <1>1 DEF Moved, Woken, At
    <3>2. Cardinality(Woken(s)') \in {Cardinality(Woken(s)), Cardinality(Woken(s)) - 1}
      BY <2>3, <3>1, FS_RemoveElement
    <3>3. Len(sd'[s].accepts) = Len(sd[s].accepts) - 1
      BY <1>1, <2>4
    <3> QED
      BY <2>2, <2>3, <3>2, <3>3
  <2>5. CASE s # o
    <3>1. Woken(s)' = Woken(s)
      BY <1>1, <2>5 DEF Moved, Woken, At
    <3> QED
      BY <1>1, <2>2, <2>5, <3>1
  <2> QED
    BY <2>4, <2>5
<1> QED
  BY <1>1, <1>2 DEF NoLostAccept, Asleep, Woken, Moved

\* With an empty queue, a thread begins to wait or gives up.
LEMMA EmptyQueueKeeps ==
    ASSUME SdOK, NoLostAccept, NEW u \in Users, NEW place \in Places \ {"acceptwoken"},
           Moved(u, place),
           sd[SideOf[u]].accepts = <<>>, UNCHANGED sd
    PROVE  NoLostAccept'
<1> DEFINE o == SideOf[u]
<1> SUFFICES ASSUME NEW s \in Sides, Asleep(s)' # {}
             PROVE  Len(sd'[s].accepts) <= Cardinality(Woken(s)')
  BY DEF NoLostAccept, Asleep, Woken
<1>1. CASE s = o
  <2>1. Len(sd'[s].accepts) = 0
    BY <1>1
  <2>2. Woken(s)' \in SUBSET Users
    BY DEF Woken, At
  <2>3. Cardinality(Woken(s)') \in Nat
    BY <2>2, SessionAssumption, FS_Subset, FS_CardinalityType
  <2> QED
    BY <2>1, <2>3
<1>2. CASE s # o
  <2>1. Asleep(s)' = Asleep(s) /\ Woken(s)' = Woken(s)
    BY <1>2 DEF Moved, Asleep, Woken, At
  <2> QED
    BY <2>1 DEF NoLostAccept, Asleep, Woken
<1> QED
  BY <1>1, <1>2

\* accept is called: it takes a channel or begins to wait.
LEMMA AcceptKeeps ==
    ASSUME SdOK, ThOK, WireOK, NoLostAccept, NEW u \in Users, Accept(u)
    PROVE  SdOK' /\ ThOK' /\ WireOK' /\ NoLostAccept'
<1>1. WireOK'
  BY DEF Accept, WireOK
<1>2. CASE sd[SideOf[u]].accepts # <<>>
  BY <1>1, <1>2, TakeAcceptKeeps DEF Accept
<1>3. CASE sd[SideOf[u]].accepts = <<>>
  <2>1. Goto(u, "acceptwait") /\ UNCHANGED sd /\ "acceptwait" \in Places \ {"acceptwoken"}
    BY <1>3 DEF Accept, Places
  <2>2. Moved(u, "acceptwait")
    BY <2>1, GotoMoved
  <2> QED
    BY <1>1, <1>3, <2>1, <2>2, EmptyQueueKeeps DEF Moved, SdOK
<1> QED
  BY <1>2, <1>3

\* accept returns from its one wait.
LEMMA AcceptResumesKeeps ==
    ASSUME SdOK, ThOK, WireOK, NoLostAccept, NEW u \in Users, AcceptResumes(u)
    PROVE  SdOK' /\ ThOK' /\ WireOK' /\ NoLostAccept'
<1>1. WireOK'
  BY DEF AcceptResumes, WireOK
<1>2. CASE sd[SideOf[u]].accepts # <<>>
  BY <1>1, <1>2, TakeAcceptKeeps DEF AcceptResumes
<1>3. CASE sd[SideOf[u]].accepts = <<>>
  <2>1. Goto(u, "done") /\ UNCHANGED sd /\ "done" \in Places \ {"acceptwoken"}
    BY <1>3 DEF AcceptResumes, Places
  <2>2. Moved(u, "done")
    BY <2>1, GotoMoved
  <2> QED
    BY <1>1, <1>3, <2>1, <2>2, EmptyQueueKeeps DEF Moved, SdOK
<1> QED
  BY <1>2, <1>3

\* notify moves one of the waiters, if there are any.
LEMMA NotifiedEffect ==
    ASSUME NEW s \in Sides, NEW T \in [Users -> ThreadStates],
           \A v \in Users : T[v].pc = th[v].pc, th' \in Notified(T, s)
    PROVE  /\ ThOK'
           /\ \/ Waiters(s) = {} /\ \A v \in Users : th'[v].pc = th[v].pc
              \/ \E u \in Waiters(s) : Moved(u, "acceptwoken")
<1>1. CASE Waiters(s) = {}
  BY <1>1 DEF Notified, ThOK
<1>2. CASE Waiters(s) # {}
  <2>1. PICK u \in Waiters(s) : th' = [T EXCEPT ![u].pc = "acceptwoken"]
    BY <1>2 DEF Notified
  <2>2. u \in Users /\ T[u] \in ThreadStates
    BY DEF Waiters, At
  <2> DEFINE x == [T[u] EXCEPT !.pc = "acceptwoken"]
  <2>3. x \in ThreadStates /\ x.pc = "acceptwoken"
    BY <2>2 DEF ThreadStates, Places
  <2>4. th' = [T EXCEPT ![u] = x]
    BY <2>1
  <2> HIDE DEF x
  <2>5. Moved(u, "acceptwoken")
    BY <2>2, <2>3, <2>4 DEF Moved, ThOK
  <2> QED
    BY <2>5 DEF Moved
<1> QED
  BY <1>1, <1>2

\* After a notify on s, nobody is newly asleep there, and one more thread is awake if
\* anybody was waiting.  The other side's threads stay where they are.
LEMMA NotifiedSets ==
    ASSUME NEW s \in Sides, NEW r \in Sides, ThOK',
           \/ Waiters(s) = {} /\ \A v \in Users : th'[v].pc = th[v].pc
           \/ \E u \in Waiters(s) : Moved(u, "acceptwoken")
    PROVE  /\ Asleep(r)' \subseteq Asleep(r)
           /\ IF r = s /\ Asleep(s) # {}
              THEN Cardinality(Woken(r)') = Cardinality(Woken(r)) + 1
              ELSE Cardinality(Woken(r)') >= Cardinality(Woken(r))
<1>1. Cardinality(Woken(r)) \in Nat /\ IsFiniteSet(Woken(r))
  BY WokenFinite
<1>2. CASE Waiters(s) = {} /\ \A v \in Users : th'[v].pc = th[v].pc
  <2>1. Asleep(r)' = Asleep(r) /\ Woken(r)' = Woken(r) /\ Asleep(s) = {}
    BY <1>2 DEF Asleep, Woken, Waiters, At
  <2> QED
    BY <1>1, <2>1
<1>3. ASSUME NEW u \in Waiters(s), Moved(u, "acceptwoken")
      PROVE  /\ Asleep(r)' \subseteq Asleep(r)
             /\ IF r = s /\ Asleep(s) # {}
                THEN Cardinality(Woken(r)') = Cardinality(Woken(r)) + 1
                ELSE Cardinality(Woken(r)') >= Cardinality(Woken(r))
  <2>1. u \in Users /\ SideOf[u] = s /\ th[u].pc # "acceptwoken"
    BY DEF Waiters, At
  <2>2. Asleep(r)' \subseteq Asleep(r)
    BY <1>3, <2>1 DEF Moved, Asleep, At
  <2>3. CASE r = s
    <3>1. Woken(r)' = Woken(r) \cup {u} /\ u \notin Woken(r)
      BY <1>3, <2>1, <2>3 DEF Moved, Woken, At
    <3>2. Cardinality(Woken(r)') = Cardinality(Woken(r)) + 1
      BY <1>1, <3>1, FS_AddElement
    <3> QED
      BY <1>1, <2>2, <3>2
  <2>4. CASE r # s
    <3>1. Woken(r)' = Woken(r)
      BY <1>3, <2>1, <2>4 DEF Moved, Woken, At
    <3> QED
      BY <1>1, <2>2, <2>4, <3>1
  <2> QED
    BY <2>3, <2>4
<1> QED
  BY <1>2, <1>3

\* A channel arrives, or is refused.
LEMMA ParseChannelOpenKeeps ==
    ASSUME SdOK, ThOK, WireOK, NoLostAccept, NEW s \in Sides, ParseChannelOpen(s)
    PROVE  SdOK' /\ ThOK' /\ WireOK' /\ NoLostAccept'
<1> DEFINE m == Head(wire[Peer(s)])
<1>1. wire[Peer(s)] # <<>> /\ m.from \in Ids /\ sd[s] \in SideStates
  BY HeadTypes DEF ParseChannelOpen, SdOK
<1>2. PICK ok \in MayAccept(s), i \in NextChannel(sd[s]) :
         IF ok
         THEN /\ sd' = [sd EXCEPT ![s] = [Put(sd[s], i, Opened(m.from)) EXCEPT !.accepts = Append(@, i)]]
              /\ th' \in Notified(th, s)
              /\ Exchange(s, <<Msg("success", m.from, i, Nobody)>>)
         ELSE /\ sd' = IF s = "server" THEN [sd EXCEPT ![s] = Advance(sd[s], i)] ELSE sd
              /\ Exchange(s, <<Msg("failure", m.from, Unset, Nobody)>>)
              /\ UNCHANGED th
  BY DEF ParseChannelOpen
<1>3. i \in Ids
  BY DEF NextChannel, FreeIds
<1>4. WireOK'
  <2>1. PICK reply \in {Msg("success", m.from, i, Nobody), Msg("failure", m.from, Unset, Nobody)} :
           Exchange(s, <<reply>>)
    BY <1>2
  <2>2. reply \in Messages
    BY <1>1, <1>3, MsgTypes, ChannelTypes
  <2>3. <<reply>> \in Seq(Messages)
    BY <2>2, Sendable
  <2> QED
    BY <1>1, <2>1, <2>3, ExchangeTypes
<1>5. CASE ok
  <2> DEFINE p == Put(sd[s], i, Opened(m.from))
             t == [p EXCEPT !.accepts = Append(sd[s].accepts, i)]
  <2>1. p \in SideStates /\ p.accepts = sd[s].accepts
    BY <1>1, <1>3, PutTypes, ChannelTypes
  <2>2. sd' = [sd EXCEPT ![s] = t]
    <3>1. sd' = [sd EXCEPT ![s] = [p EXCEPT !.accepts = Append(p.accepts, i)]]
      BY <1>2, <1>5
    <3> HIDE DEF p
    <3> QED
      BY <2>1, <3>1
  <2> HIDE DEF p
  <2>3. /\ sd[s].accepts \in Seq(Ids) /\ Append(sd[s].accepts, i) \in Seq(Ids)
        /\ Len(Append(sd[s].accepts, i)) = Len(sd[s].accepts) + 1
    BY <1>3, QueueFacts
  <2>4. t \in SideStates /\ t.accepts = Append(sd[s].accepts, i)
    BY <2>1, <2>3 DEF SideStates
  <2> HIDE DEF t
  <2>5. /\ SdOK' /\ sd'[s].accepts = Append(sd[s].accepts, i)
        /\ \A r \in Sides : r # s => sd'[r].accepts = sd[r].accepts
    BY <2>2, <2>4 DEF SdOK
  <2>6. /\ ThOK'
        /\ \/ Waiters(s) = {} /\ \A v \in Users : th'[v].pc = th[v].pc
           \/ \E u \in Waiters(s) : Moved(u, "acceptwoken")
    BY <1>2, <1>5, NotifiedEffect DEF ThOK
  <2>7. ASSUME NEW r \in Sides, Asleep(r)' # {}
        PROVE  Len(sd'[r].accepts) <= Cardinality(Woken(r)')
    <3>1. /\ Asleep(r)' \subseteq Asleep(r)
          /\ IF r = s /\ Asleep(s) # {}
             THEN Cardinality(Woken(r)') = Cardinality(Woken(r)) + 1
             ELSE Cardinality(Woken(r)') >= Cardinality(Woken(r))
      BY <2>6, NotifiedSets
    <3>2. Asleep(r) # {} /\ Len(sd[r].accepts) <= Cardinality(Woken(r))
      BY <2>7, <3>1 DEF NoLostAccept, Asleep, Woken
    <3>3. Cardinality(Woken(r)) \in Nat /\ Len(sd[r].accepts) \in Nat
      BY WokenFinite, QueueFacts
    <3>4. CASE r = s
      <4>1. Len(sd'[r].accepts) = Len(sd[r].accepts) + 1
        BY <2>3, <2>5, <3>4
      <4>2. Cardinality(Woken(r)') = Cardinality(Woken(r)) + 1
        BY <3>1, <3>2, <3>4
      <4> QED
        BY <3>2, <3>3, <4>1, <4>2
    <3>5. CASE r # s
      <4>1. Cardinality(Woken(r)') >= Cardinality(Woken(r)) /\ sd'[r].accepts = sd[r].accepts
        BY <2>5, <3>1, <3>5
      <4>2. Cardinality(Woken(r)') \in Nat
        <5>1. Woken(r)' \in SUBSET Users
          BY DEF Woken, At
        <5> QED
          BY <5>1, SessionAssumption, FS_Subset, FS_CardinalityType
      <4> QED
        BY <3>2, <3>3, <4>1, <4>2
    <3> QED
      BY <3>4, <3>5
  <2>8. NoLostAccept'
    BY <2>7 DEF NoLostAccept, Asleep, Woken
  <2> QED
    BY <1>4, <2>5, <2>6, <2>8
<1>6. CASE ~ok
  <2>1. ThOK' /\ \A v \in Users : th'[v].pc = th[v].pc
    BY <1>2, <1>6 DEF ThOK
  <2>2. Advance(sd[s], i) \in SideStates /\ Advance(sd[s], i).accepts = sd[s].accepts
    BY <1>1, <1>3, PutTypes, ChannelTypes
  <2>3. sd' = [sd EXCEPT ![s] = Advance(sd[s], i)] \/ sd' = sd
    BY <1>2, <1>6
  <2>4. Kept
    BY <1>4, <2>1, <2>2, <2>3, HandlerKept, IdleKept
  <2> QED
    BY <2>4, CalmKeeps DEF Kept
<1> QED
  BY <1>5, <1>6

\* run ends.
LEMMA RunEndsKeeps ==
    ASSUME SdOK, ThOK, WireOK, NoLostAccept, NEW s \in Sides, RunEnds(s)
    PROVE  SdOK' /\ ThOK' /\ WireOK' /\ NoLostAccept'
<1> DEFINE t == [sd[s] EXCEPT !.active = FALSE, !.channels = NoChannels, !.completion = TRUE]
           T == [u \in Users |-> IF \E i \in Ids : sd[s].events[i] = u
                                 THEN [th[u] EXCEPT !.event = TRUE] ELSE th[u]]
<1>1. t \in SideStates /\ t.accepts = sd[s].accepts
  <2>1. sd[s] \in SideStates
    BY DEF SdOK
  <2> QED
    BY <2>1, EndedTypes
<1>2. sd' = [sd EXCEPT ![s] = t] /\ th' \in Notified(T, s) /\ WireOK'
  BY DEF RunEnds, WireOK
<1>3. ASSUME NEW u \in Users
      PROVE  T[u] \in ThreadStates /\ T[u].pc = th[u].pc
  <2>1. th[u] \in ThreadStates
    BY DEF ThOK
  <2>2. [th[u] EXCEPT !.event = TRUE] \in ThreadStates /\ [th[u] EXCEPT !.event = TRUE].pc = th[u].pc
    BY <2>1 DEF ThreadStates
  <2> QED
    BY <2>1, <2>2
<1>4. T \in [Users -> ThreadStates]
  BY <1>3
<1> HIDE DEF t, T
<1>5. SdOK' /\ \A r \in Sides : sd'[r].accepts = sd[r].accepts
  BY <1>1, <1>2, SameQueue
<1>6. /\ ThOK'
      /\ \/ Waiters(s) = {} /\ \A v \in Users : th'[v].pc = th[v].pc
         \/ \E u \in Waiters(s) : Moved(u, "acceptwoken")
  BY <1>2, <1>3, <1>4, NotifiedEffect
<1>7. ASSUME NEW r \in Sides, Asleep(r)' # {}
      PROVE  Len(sd'[r].accepts) <= Cardinality(Woken(r)')
  <2>1. /\ Asleep(r)' \subseteq Asleep(r)
        /\ IF r = s /\ Asleep(s) # {}
           THEN Cardinality(Woken(r)') = Cardinality(Woken(r)) + 1
           ELSE Cardinality(Woken(r)') >= Cardinality(Woken(r))
    BY <1>6, NotifiedSets
  <2>2. Len(sd[r].accepts) <= Cardinality(Woken(r))
    BY <1>7, <2>1 DEF NoLostAccept, Asleep, Woken
  <2>3. Cardinality(Woken(r)) \in Nat /\ Len(sd[r].accepts) \in Nat
    BY WokenFinite, QueueFacts
  <2>4. Cardinality(Woken(r)') \in Nat
    <3>1. Woken(r)' \in SUBSET Users
      BY DEF Woken, At
    <3> QED
      BY <3>1, SessionAssumption, FS_Subset, FS_CardinalityType
  <2>5. Cardinality(Woken(r)') >= Cardinality(Woken(r))
    BY <2>1, <2>3, <2>4
  <2> QED
    BY <1>5, <2>2, <2>3, <2>4, <2>5
<1> QED
  BY <1>2, <1>5, <1>6, <1>7 DEF NoLostAccept, Asleep, Woken

-----------------------------------------------------------------------------
(* The theorems                                                             *)

\* NoLostAccept is inductive given the types: the count of threads notified keeps up
\* with the queue, because every channel that is added finds a waiter or nobody asleep.
SessionInv == TypeOK /\ NoLostAccept

\* A new session has empty queues and tables.
LEMMA InitInv == Init => SessionInv
<1> SUFFICES ASSUME Init PROVE SessionInv
  OBVIOUS
<1>1. NoAnswer \in Answers /\ [i \in Ids |-> NoChannel] \in [Ids -> Channels]
  BY ChannelTypes DEF NoAnswer, Answers
<1> DEFINE t == [active |-> TRUE, counter |-> 0,
                 channels |-> [i \in Ids |-> NoChannel], events |-> [i \in Ids |-> Nobody],
                 seen |-> {}, accepts |-> <<>>, tcpHandler |-> FALSE,
                 completion |-> TRUE, answer |-> NoAnswer]
<1>2. t \in SideStates /\ t.accepts = <<>>
  <2>1. 0 \in Ids /\ <<>> \in Seq(Ids) /\ [i \in Ids |-> Nobody] \in [Ids -> Users \cup {Nobody}]
    BY ChannelTypes DEF Unset
  <2> QED
    BY <1>1, <2>1 DEF SideStates
<1>3. sd = [s \in Sides |-> t]
  BY DEF Init
<1>4. [pc |-> "idle", id |-> Unset, event |-> FALSE] \in ThreadStates
  BY ChannelTypes DEF ThreadStates, Places
<1> HIDE DEF t
<1>5. TypeOK
  <2>1. sd \in [Sides -> SideStates]
    BY <1>2, <1>3
  <2>2. th \in [Users -> ThreadStates]
    BY <1>4 DEF Init
  <2>3. wire \in [Sides -> Seq(Messages)]
    BY Sendable DEF Init
  <2> QED
    BY <2>1, <2>2, <2>3 DEF Init, TypeOK
<1>6. NoLostAccept
  <2>1. \A s \in Sides : At(s, {"acceptwait"}) = {}
    BY DEF Init, At
  <2> QED
    BY <2>1 DEF NoLostAccept
<1> QED
  BY <1>5, <1>6 DEF SessionInv

\* Every step keeps the invariant.
LEMMA NextInv == SessionInv /\ [Next]_vars => SessionInv'
<1> SUFFICES ASSUME SessionInv, [Next]_vars PROVE SessionInv'
  OBVIOUS
<1> USE DEF SessionInv
<1>1. SdOK /\ ThOK /\ WireOK /\ NoLostAccept /\ menu \in Menus
  BY DEF TypeOK, SdOK, ThOK, WireOK
<1>2. ASSUME SdOK', ThOK', WireOK', NoLostAccept', menu' = menu
      PROVE  SessionInv'
  BY <1>1, <1>2 DEF TypeOK, SdOK, ThOK, WireOK
<1>3. ASSUME Kept, menu' = menu
      PROVE  SessionInv'
  BY <1>1, <1>2, <1>3, CalmKeeps DEF Kept
<1>4. CASE Next
  <2>1. menu' = menu
    BY <1>4 DEF Next
  <2>2. ASSUME NEW u \in Users, UserCalls(u)
        PROVE  SessionInv'
    <3>1. CASE OpenChannel(u)
      BY <1>1, <1>3, <2>1, <3>1, OpenChannelKept
    <3>2. CASE Accept(u)
      BY <1>1, <1>2, <2>1, <3>2, AcceptKeeps
    <3>3. CASE GlobalRequest(u)
      BY <1>1, <1>3, <2>1, <3>3, GlobalRequestKept
    <3>4. CASE CloseTransport(u)
      BY <1>1, <1>3, <2>1, <3>4, CloseTransportKept
    <3> QED
      BY <2>2, <3>1, <3>2, <3>3, <3>4 DEF UserCalls
  <2>3. ASSUME NEW u \in Users, UserRuns(u)
        PROVE  SessionInv'
    <3>1. CASE OpenSend(u)
      BY <1>1, <1>3, <2>1, <3>1, OpenSendKept
    <3>2. CASE OpenReturns(u)
      BY <1>1, <1>3, <2>1, <3>2, OpenReturnsKept
    <3>3. CASE Collect(u)
      BY <1>1, <1>3, <2>1, <3>3, CollectKept
    <3>4. CASE AcceptResumes(u)
      BY <1>1, <1>2, <2>1, <3>4, AcceptResumesKeeps
    <3>5. CASE GlobalSend(u)
      BY <1>1, <1>3, <2>1, <3>5, GlobalSendKept
    <3>6. CASE GlobalReturns(u)
      BY <1>1, <1>3, <2>1, <3>6, GlobalReturnsKept
    <3>7. CASE SetTcpHandler(u)
      BY <1>1, <1>3, <2>1, <3>7, SetTcpHandlerKept
    <3> QED
      BY <2>3, <3>1, <3>2, <3>3, <3>4, <3>5, <3>6, <3>7 DEF UserRuns
  <2>4. ASSUME NEW u \in Users, OpenTimesOut(u) \/ AcceptTimesOut(u) \/ CloseChannel(u)
        PROVE  SessionInv'
    BY <1>1, <1>3, <2>1, <2>4, OpenTimesOutKept, AcceptTimesOutKept, CloseChannelKept
  <2>5. ASSUME NEW s \in Sides, TransportRuns(s)
        PROVE  SessionInv'
    <3>1. CASE ParseChannelOpen(s)
      BY <1>1, <1>2, <2>1, <3>1, ParseChannelOpenKeeps
    <3>2. CASE ParseOpenSuccess(s)
      BY <1>1, <1>3, <2>1, <3>2, ParseOpenSuccessKept
    <3>3. CASE ParseOpenFailure(s)
      BY <1>1, <1>3, <2>1, <3>3, ParseOpenFailureKept
    <3>4. CASE HandleClose(s)
      BY <1>1, <1>3, <2>1, <3>4, HandleCloseKept
    <3>5. CASE ParseGlobalRequest(s)
      BY <1>1, <1>3, <2>1, <3>5, ParseGlobalRequestKept
    <3>6. CASE ParseRequestAnswer(s)
      BY <1>1, <1>3, <2>1, <3>6, ParseRequestAnswerKept
    <3>7. CASE EndOfStream(s)
      BY <1>1, <1>2, <2>1, <3>7, RunEndsKeeps DEF EndOfStream
    <3> QED
      BY <2>5, <3>1, <3>2, <3>3, <3>4, <3>5, <3>6, <3>7 DEF TransportRuns
  <2>6. ASSUME NEW s \in Sides, ParseNewKeys(s) \/ ConnectionLost(s)
        PROVE  SessionInv'
    BY <1>1, <1>2, <1>3, <2>1, <2>6, ParseNewKeysKept, RunEndsKeeps DEF ConnectionLost
  <2> QED
    BY <1>4, <2>2, <2>3, <2>4, <2>5, <2>6 DEF Next
<1>5. CASE UNCHANGED vars
  BY <1>1, <1>5 DEF vars, TypeOK, NoLostAccept, At
<1> QED
  BY <1>4, <1>5

\* The fields of both Transports, the threads' places and the messages keep their types,
\* whatever open_channel, accept, the handlers and the end of run do.
THEOREM SessionTypes == Spec => []TypeOK
<1>1. SessionInv => TypeOK
  BY DEF SessionInv
<1> QED
  BY <1>1, InitInv, NextInv, PTL DEF Spec

\* No thread sleeps in accept while the queue holds more channels than there are threads
\* notified for it, for any number of threads and however timeouts, late arrivals and
\* the end of run interleave with _queue_incoming_channel.
THEOREM SessionNoLostAccept == Spec => []NoLostAccept
<1>1. SessionInv => NoLostAccept
  BY DEF SessionInv
<1> QED
  BY <1>1, InitInv, NextInv, PTL DEF Spec
=============================================================================
