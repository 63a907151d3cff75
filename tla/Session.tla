------------------------------ MODULE Session ------------------------------
(***************************************************************************)
(* paramiko/transport.py: what the two Transports of an authenticated      *)
(* session share with their users beyond a single channel: the table of    *)
(* channels, the events of channels being opened, the accept queue, the    *)
(* answers to global requests, and the end of the session.                 *)
(*                                                                         *)
(* What runs under Transport.lock is one action; the lock is released      *)
(* before _send_user_message, so a CHANNEL_OPEN or GLOBAL_REQUEST goes out *)
(* in a step of its own.  A Channel is its entry in the table: its data is *)
(* the subject of module Channel.                                          *)
(***************************************************************************)
EXTENDS Integers, Sequences, FiniteSets

CONSTANTS Users,      \* user threads; each makes one call of its menu
          SideOf,     \* SideOf[u]: the end whose Transport user u calls
          Menus,      \* instances, one chosen by Init: the calls each user may make
          Timed,      \* users whose open_channel or accept has a timeout
          Mortal,     \* ends whose connection may fail at any time
          IdSpace     \* bound: channel numbers, 2^24 in the code; no fewer than
                      \* channels opened, as a reuse of numbers is out of reach

Sides == {"client", "server"}
Peer(s) == IF s = "client" THEN "server" ELSE "client"
Ids == 0..(IdSpace - 1)
Unset == 0    \* a number not given yet, as in Channel.__init__, or that a message lacks
Nobody == "nobody"
Calls == {"open", "accept", "forward", "close"}

ASSUME SessionAssumption ==
    /\ IsFiniteSet(Users) /\ Users \cap Sides = {} /\ Nobody \notin Users
    /\ SideOf \in [Users -> Sides]
    /\ Menus \subseteq [Users -> SUBSET Calls]
    /\ Timed \subseteq Users /\ Mortal \subseteq Sides
    /\ IdSpace \in Nat \ {0}

\* There are numbers for all the channels that can be opened.
ASSUME NumbersAssumption ==
    \A m \in Menus : Cardinality({u \in Users : "open" \in m[u]}) <= IdSpace

VARIABLES sd,    \* sd[s]: the fields of the Transport of s
          th,    \* th[u]: where user u is, its channel number and event
          wire,  \* wire[s]: messages sent by s, not yet read by its peer
          menu   \* the instance: a member of Menus, constant

vars == <<sd, th, wire, menu>>

Messages == [type : {"open", "success", "failure", "close", "request", "granted", "denied"},
             to : Ids, from : Ids, user : Users \cup {Nobody}]
Msg(type, to, from, user) == [type |-> type, to |-> to, from |-> from, user |-> user]

\* A Channel in the table: active, and with its peer's number, once both ends know it.
Channels == [live : BOOLEAN, active : BOOLEAN, remote : Ids, closed : BOOLEAN]
NoChannel == [live |-> FALSE, active |-> FALSE, remote |-> Unset, closed |-> FALSE]
Opened(remote) == [live |-> TRUE, active |-> TRUE, remote |-> remote, closed |-> FALSE]
Opening == [live |-> TRUE, active |-> FALSE, remote |-> Unset, closed |-> FALSE]

\* answer: global_response, as the user whose request it answers and the verdict.
Answers == [user : Users \cup {Nobody}, granted : BOOLEAN]
NoAnswer == [user |-> Nobody, granted |-> FALSE]

SideStates ==
    [active : BOOLEAN, counter : Ids, channels : [Ids -> Channels],
     events : [Ids -> Users \cup {Nobody}], seen : SUBSET Ids, accepts : Seq(Ids),
     tcpHandler : BOOLEAN, completion : BOOLEAN, answer : Answers]

Places == {"idle", "opensend", "openwait", "opened", "timedout", "acceptwait", "acceptwoken",
           "acceptexpired", "requestsend", "requestwait", "handler", "done"}
ThreadStates == [pc : Places, id : Ids, event : BOOLEAN]

TypeOK ==
    /\ sd \in [Sides -> SideStates]
    /\ th \in [Users -> ThreadStates]
    /\ wire \in [Sides -> Seq(Messages)]
    /\ menu \in Menus

Init ==
    /\ sd = [s \in Sides |->
              [active |-> TRUE, counter |-> 0,
               channels |-> [i \in Ids |-> NoChannel], events |-> [i \in Ids |-> Nobody],
               seen |-> {}, accepts |-> <<>>, tcpHandler |-> FALSE,
               completion |-> TRUE, answer |-> NoAnswer]]
    /\ th = [u \in Users |-> [pc |-> "idle", id |-> Unset, event |-> FALSE]]
    /\ wire = [s \in Sides |-> <<>>]
    /\ menu \in Menus

-----------------------------------------------------------------------------

\* _next_channel: the first free number from the counter on, in a set of its own, which
\* is empty if all are taken and _next_channel goes round for ever.
FreeIds(t) == {i \in Ids : ~t.channels[i].live}
Distance(t, i) == (i - t.counter) % IdSpace
NextChannel(t) == {i \in FreeIds(t) : \A j \in FreeIds(t) : Distance(t, i) <= Distance(t, j)}

\* _next_channel has taken number i.
Advance(t, i) == [t EXCEPT !.counter = (i + 1) % IdSpace]

\* A new Channel under number i.
Put(t, i, c) == [Advance(t, i) EXCEPT !.channels[i] = c, !.seen = @ \cup {i}]

Goto(u, place) == th' = [th EXCEPT ![u].pc = place]

\* Transport._send_user_message and _send_message: dropped on a dead transport.
Post(s, m) == wire' = IF sd[s].active THEN [wire EXCEPT ![s] = Append(@, m)] ELSE wire

-----------------------------------------------------------------------------
(* open_channel                                                             *)

OpenChannel(u) ==
    LET s == SideOf[u]
    IN /\ "open" \in menu[u] /\ th[u].pc = "idle" /\ sd[s].active
       /\ \E i \in NextChannel(sd[s]) :
            /\ sd' = [sd EXCEPT ![s] = [Put(sd[s], i, Opening) EXCEPT !.events[i] = u]]
            /\ th' = [th EXCEPT ![u] = [pc |-> "opensend", id |-> i, event |-> FALSE]]
       /\ UNCHANGED wire

OpenSend(u) ==
    /\ th[u].pc = "opensend"
    /\ Post(SideOf[u], Msg("open", Unset, th[u].id, u))
    /\ Goto(u, "openwait")
    /\ UNCHANGED sd

\* The loop of open_channel looks at active, then at the event: it returns the
\* Channel if it is (still) in the table, else it raises.
OpenReturns(u) ==
    LET t == sd[SideOf[u]]
        opened == t.active /\ t.channels[th[u].id].live
    IN /\ th[u].pc = "openwait"
       /\ ~t.active \/ th[u].event
       /\ Goto(u, IF opened THEN "opened" ELSE "done")
       /\ UNCHANGED <<sd, wire>>

\* "Timeout opening channel."  The event stays behind in channel_events.
OpenTimesOut(u) ==
    /\ u \in Timed
    /\ th[u].pc = "openwait" /\ sd[SideOf[u]].active /\ ~th[u].event
    /\ Goto(u, "timedout")
    /\ UNCHANGED <<sd, wire>>

\* The table holds its Channels weakly: the one nobody got is collected.  If it was
\* confirmed in the meantime, __del__ closes it.
Collect(u) ==
    LET s == SideOf[u]
        c == sd[s].channels[th[u].id]
    IN /\ th[u].pc = "timedout"
       /\ sd' = [sd EXCEPT ![s].channels[th[u].id] = NoChannel]
       /\ IF c.live /\ c.active THEN Post(s, Msg("close", c.remote, Unset, Nobody)) ELSE UNCHANGED wire
       /\ Goto(u, "done")

\* Channel.close by the user that opened or accepted it.
CloseChannel(u) ==
    LET s == SideOf[u]
        c == sd[s].channels[th[u].id]
    IN /\ th[u].pc = "opened"
       /\ c.live /\ c.active /\ ~c.closed
       /\ sd' = [sd EXCEPT ![s].channels[th[u].id].closed = TRUE]
       /\ Post(s, Msg("close", c.remote, Unset, Nobody))
       /\ Goto(u, "done")

-----------------------------------------------------------------------------
(* accept                                                                   *)

TakeAccept(u) ==
    LET s == SideOf[u]
    IN /\ sd' = [sd EXCEPT ![s].accepts = Tail(@)]
       /\ th' = [th EXCEPT ![u] = [@ EXCEPT !.pc = "opened", !.id = Head(sd[s].accepts)]]

Accept(u) ==
    /\ "accept" \in menu[u] /\ th[u].pc = "idle"
    /\ IF sd[SideOf[u]].accepts # <<>>
       THEN TakeAccept(u)
       ELSE /\ Goto(u, "acceptwait")
            /\ UNCHANGED sd
    /\ UNCHANGED wire

\* The one wait is over: a channel, or None.
AcceptResumes(u) ==
    /\ th[u].pc \in {"acceptwoken", "acceptexpired"}
    /\ IF sd[SideOf[u]].accepts # <<>>
       THEN TakeAccept(u)
       ELSE /\ Goto(u, "done")
            /\ UNCHANGED sd
    /\ UNCHANGED wire

AcceptTimesOut(u) ==
    /\ u \in Timed /\ th[u].pc = "acceptwait"
    /\ Goto(u, "acceptexpired")
    /\ UNCHANGED <<sd, wire>>

\* server_accept_cv.notify: one waiter, if there is one.  A waiter whose time is up
\* leaves the list of waiters only when it has the lock again.
At(s, places) == {u \in Users : SideOf[u] = s /\ th[u].pc \in places}
Waiters(s) == At(s, {"acceptwait", "acceptexpired"})
Notified(T, s) ==
    IF Waiters(s) = {} THEN {T} ELSE {[T EXCEPT ![u].pc = "acceptwoken"] : u \in Waiters(s)}

-----------------------------------------------------------------------------
(* global_request, as request_port_forward calls it                          *)

GlobalRequest(u) ==
    LET s == SideOf[u]
    IN /\ "forward" \in menu[u] /\ th[u].pc = "idle" /\ sd[s].active
       /\ sd' = [sd EXCEPT ![s].completion = FALSE]
       /\ Goto(u, "requestsend")
       /\ UNCHANGED wire

GlobalSend(u) ==
    /\ th[u].pc = "requestsend"
    /\ Post(SideOf[u], Msg("request", Unset, Unset, u))
    /\ Goto(u, "requestwait")
    /\ UNCHANGED sd

\* The caller gets whatever global_response is when completion_event is set.
GlobalReturns(u) ==
    LET t == sd[SideOf[u]]
    IN /\ th[u].pc = "requestwait"
       /\ ~t.active \/ t.completion
       /\ Goto(u, IF t.active /\ t.answer.granted THEN "handler" ELSE "done")
       /\ UNCHANGED <<sd, wire>>

\* The end of request_port_forward: from now on forwarded channels are taken.
SetTcpHandler(u) ==
    /\ th[u].pc = "handler"
    /\ sd' = [sd EXCEPT ![SideOf[u]].tcpHandler = TRUE]
    /\ Goto(u, "done")
    /\ UNCHANGED wire

-----------------------------------------------------------------------------
(* The transport thread of side s                                           *)

Incoming(s, type) ==
    /\ sd[s].active
    /\ wire[Peer(s)] # <<>> /\ Head(wire[Peer(s)]).type = type

\* The wires once s has read a message and sent these.
Exchange(s, messages) ==
    wire' = [wire EXCEPT ![Peer(s)] = Tail(@), ![s] = @ \o messages]

\* A server asks its server object; a client takes forwarded channels if it has
\* a handler for them.
MayAccept(s) == IF s = "server" THEN BOOLEAN ELSE {sd[s].tcpHandler}

\* Mutant of ParseChannelOpen: the queue grows without a notify.
ParseChannelOpenSilently(s) ==
    LET m == Head(wire[Peer(s)])
    IN /\ Incoming(s, "open")
       /\ \E ok \in MayAccept(s), i \in NextChannel(sd[s]) :
            IF ok
            THEN /\ sd' = [sd EXCEPT ![s] = [Put(sd[s], i, Opened(m.from)) EXCEPT !.accepts = Append(@, i)]]
                 /\ UNCHANGED th
                 /\ Exchange(s, <<Msg("success", m.from, i, Nobody)>>)
            ELSE /\ sd' = IF s = "server" THEN [sd EXCEPT ![s] = Advance(sd[s], i)] ELSE sd
                 /\ Exchange(s, <<Msg("failure", m.from, Unset, Nobody)>>)
                 /\ UNCHANGED th

\* _parse_channel_open and _queue_incoming_channel.  A server takes a number before
\* it asks, and does not give it back on a refusal.
ParseChannelOpen(s) ==
    LET m == Head(wire[Peer(s)])
    IN /\ Incoming(s, "open")
       /\ \E ok \in MayAccept(s), i \in NextChannel(sd[s]) :
            IF ok
            THEN /\ sd' = [sd EXCEPT ![s] = [Put(sd[s], i, Opened(m.from)) EXCEPT !.accepts = Append(@, i)]]
                 /\ th' \in Notified(th, s)
                 /\ Exchange(s, <<Msg("success", m.from, i, Nobody)>>)
            ELSE /\ sd' = IF s = "server" THEN [sd EXCEPT ![s] = Advance(sd[s], i)] ELSE sd
                 /\ Exchange(s, <<Msg("failure", m.from, Unset, Nobody)>>)
                 /\ UNCHANGED th

\* channel_events[i].set(), then it is deleted; the opener keeps its event.
SetEvent(T, t, i) == IF t.events[i] = Nobody THEN T ELSE [T EXCEPT ![t.events[i]].event = TRUE]

\* Mutant of ParseOpenSuccess: the two numbers of the message are swapped.
ParseOpenSuccessSwapped(s) ==
    LET m == Head(wire[Peer(s)])
    IN /\ Incoming(s, "success")
       /\ IF sd[s].channels[m.to].live
          THEN /\ sd' = [sd EXCEPT ![s].channels[m.to] = Opened(m.to), ![s].events[m.to] = Nobody]
               /\ th' = SetEvent(th, sd[s], m.to)
          ELSE UNCHANGED <<sd, th>>
       /\ Exchange(s, <<>>)

\* A success for a Channel that is gone leaves even its event alone.
ParseOpenSuccess(s) ==
    LET m == Head(wire[Peer(s)])
    IN /\ Incoming(s, "success")
       /\ IF sd[s].channels[m.to].live
          THEN /\ sd' = [sd EXCEPT ![s].channels[m.to] = Opened(m.from), ![s].events[m.to] = Nobody]
               /\ th' = SetEvent(th, sd[s], m.to)
          ELSE UNCHANGED <<sd, th>>
       /\ Exchange(s, <<>>)

\* Mutant of ParseOpenFailure: the Channel goes, its event is not set.
ParseOpenFailureNoEvent(s) ==
    LET m == Head(wire[Peer(s)])
    IN /\ Incoming(s, "failure")
       /\ sd' = [sd EXCEPT ![s].channels[m.to] = NoChannel, ![s].events[m.to] = Nobody]
       /\ UNCHANGED th
       /\ Exchange(s, <<>>)

ParseOpenFailure(s) ==
    LET m == Head(wire[Peer(s)])
    IN /\ Incoming(s, "failure")
       /\ IF sd[s].events[m.to] # Nobody
          THEN /\ sd' = [sd EXCEPT ![s].channels[m.to] = NoChannel, ![s].events[m.to] = Nobody]
               /\ th' = SetEvent(th, sd[s], m.to)
          ELSE UNCHANGED <<sd, th>>
       /\ Exchange(s, <<>>)

\* Mutant of HandleClose: the Channel leaves the table, the peer's CLOSE is not answered.
HandleCloseUnanswered(s) ==
    /\ Incoming(s, "close")
    /\ sd' = [sd EXCEPT ![s].channels[Head(wire[Peer(s)]).to] = NoChannel]
    /\ Exchange(s, <<>>)
    /\ UNCHANGED th

\* Channel._handle_close: answered once, and the Channel leaves the table.  For a dead
\* Channel there is nothing to do; run ends the session over a number never used, which
\* is never the case (NumbersKnown).
HandleClose(s) ==
    LET m == Head(wire[Peer(s)])
        c == sd[s].channels[m.to]
    IN /\ Incoming(s, "close")
       /\ sd' = [sd EXCEPT ![s].channels[m.to] = NoChannel]
       /\ Exchange(s, IF c.live /\ c.active /\ ~c.closed THEN <<Msg("close", c.remote, Unset, Nobody)>> ELSE <<>>)
       /\ UNCHANGED th

ParseGlobalRequest(s) ==
    LET m == Head(wire[Peer(s)])
    IN /\ Incoming(s, "request")
       /\ \E answer \in IF s = "server" THEN {"granted", "denied"} ELSE {"denied"} :
             Exchange(s, <<Msg(answer, Unset, Unset, m.user)>>)
       /\ UNCHANGED <<sd, th>>

\* _parse_request_success, _parse_request_failure
ParseRequestAnswer(s) ==
    LET m == Head(wire[Peer(s)])
    IN /\ Incoming(s, "granted") \/ Incoming(s, "denied")
       /\ sd' = [sd EXCEPT ![s].answer = [user |-> m.user, granted |-> m.type = "granted"],
                           ![s].completion = TRUE]
       /\ Exchange(s, <<>>)
       /\ UNCHANGED th

\* _parse_newkeys at the end of a key exchange sets completion_event as well.
ParseNewKeys(s) ==
    /\ sd[s].active
    /\ sd' = [sd EXCEPT ![s].completion = TRUE]
    /\ UNCHANGED <<th, wire>>

-----------------------------------------------------------------------------
(* The end of the session                                                   *)

NoChannels == [i \in Ids |-> NoChannel]

\* run leaves its loop: everybody it knows of is released, and one acceptor.
RunEnds(s) ==
    /\ sd' = [sd EXCEPT ![s].active = FALSE, ![s].channels = NoChannels,
                        ![s].completion = TRUE]
    /\ th' \in Notified([u \in Users |->
                           IF \E i \in Ids : sd[s].events[i] = u
                           THEN [th[u] EXCEPT !.event = TRUE] ELSE th[u]], s)
    /\ UNCHANGED wire

ConnectionLost(s) ==
    /\ s \in Mortal /\ sd[s].active
    /\ RunEnds(s)

EndOfStream(s) ==
    /\ sd[s].active
    /\ ~sd[Peer(s)].active /\ wire[Peer(s)] = <<>>
    /\ RunEnds(s)

\* Transport.close by a user; run then finds active cleared and releases nobody.  A
\* message that run reads while close is under way counts as handled before it.
CloseTransport(u) ==
    LET s == SideOf[u]
    IN /\ "close" \in menu[u] /\ th[u].pc = "idle"
       /\ sd' = IF sd[s].active
                THEN [sd EXCEPT ![s].active = FALSE, ![s].channels = NoChannels]
                ELSE sd
       /\ Goto(u, "done")
       /\ UNCHANGED wire

-----------------------------------------------------------------------------

UserCalls(u) == OpenChannel(u) \/ Accept(u) \/ GlobalRequest(u) \/ CloseTransport(u)

UserRuns(u) ==
    \/ OpenSend(u) \/ OpenReturns(u) \/ Collect(u)
    \/ AcceptResumes(u)
    \/ GlobalSend(u) \/ GlobalReturns(u) \/ SetTcpHandler(u)

TransportRuns(s) ==
    \/ ParseChannelOpen(s) \/ ParseOpenSuccess(s) \/ ParseOpenFailure(s) \/ HandleClose(s)
    \/ ParseGlobalRequest(s) \/ ParseRequestAnswer(s)
    \/ EndOfStream(s)

Next ==
    /\ \/ \E u \in Users : \/ UserCalls(u) \/ UserRuns(u)
                           \/ OpenTimesOut(u) \/ AcceptTimesOut(u) \/ CloseChannel(u)
       \/ \E s \in Sides : TransportRuns(s) \/ ParseNewKeys(s) \/ ConnectionLost(s)
    /\ UNCHANGED menu

Spec == Init /\ [][Next]_vars

\* Every thread that can run does; calls, timeouts and failures may never happen.
FairSpec ==
    /\ Spec
    /\ \A u \in Users : WF_vars(UserRuns(u) /\ UNCHANGED menu)
    /\ \A s \in Sides : WF_vars(TransportRuns(s) /\ UNCHANGED menu)

-----------------------------------------------------------------------------
(* Properties                                                               *)

\* Two ends that both know of a channel agree on which it is: the numbers that
\* _parse_channel_open and _parse_channel_open_success give it match, through timeouts,
\* refusals and closes.
Paired ==
    (\A s \in Sides : sd[s].active) =>
      \A s \in Sides : \A i \in Ids :
        LET c == sd[s].channels[i]
        IN c.live /\ c.active =>
             LET d == sd[Peer(s)].channels[c.remote]
             IN d.live /\ d.active => d.remote = i

\* run never meets a channel message for a number it has not used, for which it would
\* end the session: what a peer puts in a message is in channels_seen.
NumbersKnown ==
    \A s \in Sides : \A k \in DOMAIN wire[Peer(s)] :
        LET m == wire[Peer(s)][k]
        IN m.type \in {"success", "failure", "close"} => m.to \in sd[s].seen

\* When nothing is under way, every channel one side has is open or closing on the
\* other side too: a channel only leaves one table for good with the other, unless an
\* open_channel has timed out.
InStep ==
    /\ \A s \in Sides : sd[s].active /\ wire[s] = <<>>
    /\ \A u \in Users : th[u].pc \notin {"opensend", "timedout"}
    /\ \A u \in Timed : th[u].pc # "done"
    => \A s \in Sides : \A i \in Ids :
          LET c == sd[s].channels[i]
          IN c.live => c.active /\ sd[Peer(s)].channels[c.remote].live

\* No acceptor sleeps on server_accept_cv while there are more channels in the queue
\* than acceptors notified and on their way to it, although accept waits once, each
\* channel notifies one thread only, and that may be one whose time is up.
NoLostAccept ==
    \A s \in Sides :
        At(s, {"acceptwait"}) # {} =>
            Len(sd[s].accepts) <= Cardinality(At(s, {"acceptwoken"}))

\* open_channel ends: with a channel, a refusal, a timeout or the session's end.
OpenEnds == \A u \in Users : th[u].pc = "openwait" ~> th[u].pc # "openwait"
=============================================================================
