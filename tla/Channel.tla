------------------------------ MODULE Channel ------------------------------
(***************************************************************************)
(* paramiko/channel.py: the two Channel objects at the ends of one open    *)
(* SSH channel, the user threads that call their methods, and the two      *)
(* transport threads that hand them the peer's messages.                   *)
(*                                                                         *)
(* What runs under Channel.lock (or under the lock of a BufferedPipe) is   *)
(* one action.  The code never holds that lock while it calls              *)
(* transport._send_user_message, so the messages a method has prepared     *)
(* wait in its thread's outbox and each reaches the wire in a step of its  *)
(* own: other threads run in between.  Bytes are counted, not named: that  *)
(* the buffers keep their order is BufferedPipe's subject.  A closed or    *)
(* non-empty buffer wakes its readers (BufferedPipe!NoLostWakeup), so a    *)
(* blocked recv is simply enabled by them here.                            *)
(***************************************************************************)
EXTENDS Integers, Sequences

CONSTANTS Users,       \* user threads
          SideOf,      \* SideOf[u]: the end whose Channel user u calls
          Menu,        \* Menu[u]: the methods user u calls
          MaxCalls,    \* bound: MaxCalls[u] calls by user u
          Timed,       \* users whose blocking calls run under a settimeout
          Mortal,      \* ends whose connection may fail at any time
          Window,      \* window size both ends advertise (_set_window)
          MaxPayload,  \* out_max_packet_size - 64
          SendSizes,   \* lengths of the data passed to the send methods
          ReadSizes    \* nbytes passed to recv and recv_stderr

Sides == {"client", "server"}
Peer(e) == IF e = "client" THEN "server" ELSE "client"

\* A side names its transport thread.
Threads == Users \cup Sides
Home(t) == IF t \in Sides THEN t ELSE SideOf[t]

Methods == {"send", "send_stderr", "sendall", "sendall_stderr", "recv", "recv_stderr",
            "close", "shutdown_read", "shutdown_write", "shutdown_both", "request",
            "send_exit_status", "recv_exit_status", "combine_stderr", "split_stderr"}

ASSUME WindowAssumption == Window \in Nat \ {0} /\ MaxPayload \in Nat \ {0}
ASSUME SizeAssumption == SendSizes \subseteq Nat \ {0} /\ ReadSizes \subseteq Nat \ {0}
ASSUME ThreadAssumption ==
    /\ Users \cap Sides = {}
    /\ SideOf \in [Users -> Sides]
    /\ Menu \in [Users -> SUBSET Methods]
    /\ MaxCalls \in [Users -> Nat]
    /\ Timed \subseteq Users
    /\ Mortal \subseteq Sides

VARIABLES ch,     \* ch[e]: the fields of the Channel object of side e
          th,     \* th[t]: where thread t is, its arguments and its outbox
          wire,   \* wire[e]: messages sent by e, not yet read by its peer
          up,     \* up[e]: the transport of e is active
          sent    \* history: EOF and CLOSE messages side e put on the wire

vars == <<ch, th, wire, up, sent>>

Msg(type, n) == [type |-> type, n |-> n]
MsgTypes == {"data", "ext", "adjust", "eof", "close", "request", "success", "failure", "status"}
Messages == [type : MsgTypes, n : Nat]

Places == {"idle", "send", "sendwait", "sendwoken", "recv", "credit", "transmit",
           "reqpend", "reqwait", "statwait", "refeed", "feed", "shutwrite", "dead"}

ChannelStates ==
    [closed : BOOLEAN, eofReceived : BOOLEAN, eofSent : BOOLEAN, linked : BOOLEAN,
     outWindow : Nat, inSofar : Nat, inBuffer : Nat, errBuffer : Nat,
     bufClosed : BOOLEAN, combine : BOOLEAN, status : BOOLEAN,
     event : BOOLEAN, eventReady : BOOLEAN]

ThreadStates ==
    [pc : Places, call : Methods \cup {"none", "in", "err"}, n : Nat,
     out : Seq(Messages), after : Places, calls : Nat]

TypeOK ==
    /\ ch \in [Sides -> ChannelStates]
    /\ th \in [Threads -> ThreadStates]
    /\ wire \in [Sides -> Seq(Messages)]
    /\ up \in [Sides -> BOOLEAN]
    /\ sent \in [Sides -> [eof : Nat, close : Nat]]

\* Both Channels have been through _set_window and _set_remote_channel, which
\* makes them active for good.
NewChannel ==
    [closed |-> FALSE, eofReceived |-> FALSE, eofSent |-> FALSE, linked |-> TRUE,
     outWindow |-> Window, inSofar |-> 0, inBuffer |-> 0, errBuffer |-> 0,
     bufClosed |-> FALSE, combine |-> FALSE, status |-> FALSE,
     event |-> FALSE, eventReady |-> FALSE]

Init ==
    /\ ch = [e \in Sides |-> NewChannel]
    /\ th = [t \in Threads |-> [pc |-> "idle", call |-> "none", n |-> 0,
                                out |-> <<>>, after |-> "idle", calls |-> 0]]
    /\ wire = [e \in Sides |-> <<>>]
    /\ up = [e \in Sides |-> TRUE]
    /\ sent = [e \in Sides |-> [eof |-> 0, close |-> 0]]

\* Bytes read before a window update is worth sending.
Threshold == Window \div 10

Least(a, b) == IF a <= b THEN a ELSE b

-----------------------------------------------------------------------------
(* Helpers on a Channel c and on a thread's record x                        *)

\* _set_closed: closes both buffers and sets event and status_event; its
\* notify_all on out_buffer_cv is Wake, which the callers apply.
SetClosed(c) == [c EXCEPT !.closed = TRUE, !.bufClosed = TRUE, !.event = TRUE, !.status = TRUE]

\* Mutant of Wake: out_buffer_cv is never notified.
WakeNobody(T, e) == T

Wake(T, e) ==
    [t \in Threads |-> IF T[t].pc = "sendwait" /\ Home(t) = e
                       THEN [T[t] EXCEPT !.pc = "sendwoken"] ELSE T[t]]

\* Mutant of EofMessages: _send_eof without its test of eof_sent.
EofMessagesAlways(c) == <<Msg("eof", 0)>>

\* _send_eof returns a message once.
EofMessages(c) == IF c.eofSent THEN <<>> ELSE <<Msg("eof", 0)>>

\* Mutant of CloseMessages: the CLOSE is only sent by the side that closes first.
CloseMessagesOnce(c) == IF c.closed \/ c.eofReceived THEN <<>> ELSE EofMessages(c) \o <<Msg("close", 0)>>

\* _close_internal: the messages to send, and the Channel it leaves.
CloseMessages(c) == IF c.closed THEN <<>> ELSE EofMessages(c) \o <<Msg("close", 0)>>
CloseInternal(c) == IF c.closed THEN c ELSE [SetClosed(c) EXCEPT !.eofSent = TRUE]

At(x, place) == [x EXCEPT !.pc = place]

\* Leave the lock with messages to send, and go on at place afterwards.
Dispatch(x, messages, place) ==
    IF messages = <<>> THEN At(x, place)
    ELSE [x EXCEPT !.pc = "transmit", !.out = messages, !.after = place]

\* _send_user_message: one message of the outbox, dropped on a dead transport.
Transmit(t) ==
    LET e == Home(t)
        m == Head(th[t].out)
        rest == Tail(th[t].out)
    IN /\ th[t].pc = "transmit"
       /\ th' = [th EXCEPT ![t].out = rest,
                           ![t].pc = IF rest = <<>> THEN th[t].after ELSE "transmit"]
       /\ IF up[e]
          THEN /\ wire' = [wire EXCEPT ![e] = Append(@, m)]
               /\ sent' = [sent EXCEPT ![e].eof = @ + (IF m.type = "eof" THEN 1 ELSE 0),
                                       ![e].close = @ + (IF m.type = "close" THEN 1 ELSE 0)]
          ELSE UNCHANGED <<wire, sent>>
       /\ UNCHANGED <<ch, up>>

-----------------------------------------------------------------------------
(* send, send_stderr, sendall, sendall_stderr                               *)

\* A user begins a call of one of its methods at place, with argument n.
Enter(u, method, n, place) ==
    [th[u] EXCEPT !.pc = place, !.call = method, !.n = n, !.calls = @ + 1]

MayCall(u, method) ==
    th[u].pc = "idle" /\ method \in Menu[u] /\ th[u].calls < MaxCalls[u]

CallSend(u, method, n) ==
    /\ method \in {"send", "send_stderr", "sendall", "sendall_stderr"}
    /\ MayCall(u, method)
    /\ th' = [th EXCEPT ![u] = Enter(u, method, n, "send")]
    /\ UNCHANGED <<ch, wire, up, sent>>

Repeats(u) == th[u].call \in {"sendall", "sendall_stderr"}
DataType(u) == IF th[u].call \in {"send", "sendall"} THEN "data" ELSE "ext"

\* How much of the remaining data fits the window and one packet.
Allocation(u) == Least(Least(th[u].n, ch[SideOf[u]].outWindow), MaxPayload)

Allocate(u) ==
    LET e == SideOf[u]
        size == Allocation(u)
        left == [th[u] EXCEPT !.n = @ - size]
        place == IF Repeats(u) /\ th[u].n > size THEN "send" ELSE "idle"
    IN /\ ch' = [ch EXCEPT ![e].outWindow = @ - size]
       /\ th' = [th EXCEPT ![u] = Dispatch(left, <<Msg(DataType(u), size)>>, place)]

\* _send returned 0: send returns it, sendall calls send again with all of s.
SentNothing(u) ==
    /\ th' = [th EXCEPT ![u].pc = IF Repeats(u) THEN "send" ELSE "idle"]
    /\ UNCHANGED ch

SendBlocks(u) ==
    /\ th' = [th EXCEPT ![u].pc = "sendwait"]
    /\ UNCHANGED ch

\* _send and _wait_for_send_window up to the wait: a closed channel raises.
Send(u) ==
    LET c == ch[SideOf[u]]
    IN /\ th[u].pc = "send"
       /\ \/ /\ c.closed
             /\ th' = [th EXCEPT ![u].pc = "idle"]
             /\ UNCHANGED ch
          \/ /\ ~c.closed /\ c.eofSent
             /\ SentNothing(u)
          \/ /\ ~c.closed /\ ~c.eofSent /\ c.outWindow = 0
             /\ SendBlocks(u)
          \/ /\ ~c.closed /\ ~c.eofSent /\ c.outWindow > 0
             /\ Allocate(u)
       /\ UNCHANGED <<wire, up, sent>>

\* out_buffer_cv was notified and the thread has the lock again.
SendResumes(u) ==
    LET c == ch[SideOf[u]]
    IN /\ th[u].pc = "sendwoken"
       /\ \/ /\ c.closed \/ c.eofSent
             /\ SentNothing(u)
          \/ /\ ~c.closed /\ ~c.eofSent /\ c.outWindow = 0
             /\ SendBlocks(u)
          \/ /\ ~c.closed /\ ~c.eofSent /\ c.outWindow > 0
             /\ Allocate(u)
       /\ UNCHANGED <<wire, up, sent>>

\* socket.timeout out of _wait_for_send_window or out of recv.
TimesOut(u) ==
    /\ u \in Timed
    /\ th[u].pc \in {"sendwait", "sendwoken", "recv"}
    /\ th' = [th EXCEPT ![u].pc = "idle"]
    /\ UNCHANGED <<ch, wire, up, sent>>

-----------------------------------------------------------------------------
(* recv, recv_stderr                                                        *)

CallRecv(u, method, n) ==
    /\ method \in {"recv", "recv_stderr"}
    /\ MayCall(u, method)
    /\ th' = [th EXCEPT ![u] = Enter(u, method, n, "recv")]
    /\ UNCHANGED <<ch, wire, up, sent>>

\* BufferedPipe.read returns data, or nothing from a closed buffer.
Recv(u) ==
    LET e == SideOf[u]
        c == ch[e]
        held == IF th[u].call = "recv" THEN c.inBuffer ELSE c.errBuffer
        got == Least(th[u].n, held)
    IN /\ th[u].pc = "recv"
       /\ held > 0 \/ c.bufClosed
       /\ ch' = IF th[u].call = "recv" THEN [ch EXCEPT ![e].inBuffer = @ - got]
                                       ELSE [ch EXCEPT ![e].errBuffer = @ - got]
       /\ th' = [th EXCEPT ![u].pc = "credit", ![u].n = got]
       /\ UNCHANGED <<wire, up, sent>>

\* Mutant of Credit: in_window_sofar is not reset when it is acknowledged.
CreditTwice(u) ==
    LET e == SideOf[u]
        sofar == ch[e].inSofar + th[u].n
    IN /\ th[u].pc = "credit"
       /\ ch' = [ch EXCEPT ![e].inSofar = sofar]
       /\ th' = [th EXCEPT ![u] = Dispatch([@ EXCEPT !.n = 0],
                     IF sofar > Threshold THEN <<Msg("adjust", sofar)>> ELSE <<>>, "idle")]
       /\ UNCHANGED <<wire, up, sent>>

\* Mutant of Credit: the update waits until more than the whole window was read.
CreditTooLate(u) ==
    LET e == SideOf[u]
        sofar == ch[e].inSofar + th[u].n
    IN /\ th[u].pc = "credit"
       /\ ch' = [ch EXCEPT ![e].inSofar = IF sofar <= Window THEN sofar ELSE 0]
       /\ th' = [th EXCEPT ![u] = Dispatch([@ EXCEPT !.n = 0],
                     IF sofar <= Window THEN <<>> ELSE <<Msg("adjust", sofar)>>, "idle")]
       /\ UNCHANGED <<wire, up, sent>>

\* Mutant of Credit: what stays below the threshold is forgotten.
CreditForgets(u) ==
    LET e == SideOf[u]
    IN /\ th[u].pc = "credit"
       /\ th' = [th EXCEPT ![u] = Dispatch([@ EXCEPT !.n = 0],
                     IF th[u].n > Threshold THEN <<Msg("adjust", th[u].n)>> ELSE <<>>, "idle")]
       /\ UNCHANGED <<ch, wire, up, sent>>

\* _check_add_window: after EOF or close the bytes are not credited at all.
Credit(u) ==
    LET e == SideOf[u]
        sofar == ch[e].inSofar + th[u].n
        done == [th[u] EXCEPT !.n = 0]
    IN /\ th[u].pc = "credit"
       /\ \/ /\ ch[e].closed \/ ch[e].eofReceived
             /\ th' = [th EXCEPT ![u] = At(done, "idle")]
             /\ UNCHANGED ch
          \/ /\ ~ch[e].closed /\ ~ch[e].eofReceived /\ sofar <= Threshold
             /\ ch' = [ch EXCEPT ![e].inSofar = sofar]
             /\ th' = [th EXCEPT ![u] = At(done, "idle")]
          \/ /\ ~ch[e].closed /\ ~ch[e].eofReceived /\ sofar > Threshold
             /\ ch' = [ch EXCEPT ![e].inSofar = 0]
             /\ th' = [th EXCEPT ![u] = Dispatch(done, <<Msg("adjust", sofar)>>, "idle")]
       /\ UNCHANGED <<wire, up, sent>>

-----------------------------------------------------------------------------
(* close, shutdown                                                          *)

CallClose(u) ==
    LET e == SideOf[u]
    IN /\ MayCall(u, "close")
       /\ th' = [Wake(th, e) EXCEPT
                   ![u] = Dispatch(Enter(u, "close", 0, "idle"), CloseMessages(ch[e]), "idle")]
       /\ ch' = [ch EXCEPT ![e] = CloseInternal(@)]
       /\ UNCHANGED <<wire, up, sent>>

\* The write half of shutdown: _send_eof under the lock.  It wakes nobody.
SendEof(u, x) ==
    LET e == SideOf[u]
    IN /\ th' = [th EXCEPT ![u] = Dispatch(x, EofMessages(ch[e]), "idle")]
       /\ ch' = [ch EXCEPT ![e].eofSent = TRUE]
       /\ UNCHANGED <<wire, up, sent>>

\* shutdown(0), shutdown(1), and shutdown(2) which first "feigns" the read half.
CallShutdown(u, method) ==
    /\ MayCall(u, method)
    /\ \/ /\ method = "shutdown_write"
          /\ SendEof(u, Enter(u, method, 0, "idle"))
       \/ /\ method \in {"shutdown_read", "shutdown_both"}
          /\ ch' = [ch EXCEPT ![SideOf[u]].eofReceived = TRUE]
          /\ th' = [th EXCEPT ![u] = Enter(u, method, 0,
                        IF method = "shutdown_both" THEN "shutwrite" ELSE "idle")]
          /\ UNCHANGED <<wire, up, sent>>

ShutdownWrite(u) ==
    /\ th[u].pc = "shutwrite"
    /\ SendEof(u, th[u])

-----------------------------------------------------------------------------
(* Requests (get_pty, invoke_shell, exec_command, invoke_subsystem, ...)    *)

\* The open_only decorator: raises, or lets the method body begin.
CallRequest(u) ==
    LET c == ch[SideOf[u]]
        open == ~c.closed /\ ~c.eofReceived /\ ~c.eofSent
    IN /\ MayCall(u, "request")
       /\ th' = [th EXCEPT ![u] = Enter(u, "request", 0, IF open THEN "reqpend" ELSE "idle")]
       /\ UNCHANGED <<ch, wire, up, sent>>

\* _event_pending, then the request goes out; neither takes the channel lock.
EventPending(u) ==
    /\ th[u].pc = "reqpend"
    /\ ch' = [ch EXCEPT ![SideOf[u]].event = FALSE, ![SideOf[u]].eventReady = FALSE]
    /\ th' = [th EXCEPT ![u] = Dispatch(@, <<Msg("request", 0)>>, "reqwait")]
    /\ UNCHANGED <<wire, up, sent>>

\* _wait_for_event: returns if eventReady, else raises.
WaitForEvent(u) ==
    /\ th[u].pc = "reqwait"
    /\ ch[SideOf[u]].event
    /\ th' = [th EXCEPT ![u].pc = "idle"]
    /\ UNCHANGED <<ch, wire, up, sent>>

CallSendExitStatus(u) ==
    /\ MayCall(u, "send_exit_status")
    /\ th' = [th EXCEPT ![u] = Dispatch(Enter(u, "send_exit_status", 0, "idle"),
                                        <<Msg("status", 0)>>, "idle")]
    /\ UNCHANGED <<ch, wire, up, sent>>

CallRecvExitStatus(u) ==
    /\ MayCall(u, "recv_exit_status")
    /\ th' = [th EXCEPT ![u] = Enter(u, "recv_exit_status", 0, "statwait")]
    /\ UNCHANGED <<ch, wire, up, sent>>

RecvExitStatus(u) ==
    /\ th[u].pc = "statwait"
    /\ ch[SideOf[u]].status
    /\ th' = [th EXCEPT ![u].pc = "idle"]
    /\ UNCHANGED <<ch, wire, up, sent>>

\* set_combine_stderr: the old stderr bytes leave their buffer under the lock
\* and are fed to the other one after it is released.
CallCombine(u, method) ==
    LET e == SideOf[u]
        on == method = "combine_stderr"
        moved == IF on /\ ~ch[e].combine THEN ch[e].errBuffer ELSE 0
    IN /\ method \in {"combine_stderr", "split_stderr"}
       /\ MayCall(u, method)
       /\ ch' = [ch EXCEPT ![e].combine = on, ![e].errBuffer = @ - moved]
       /\ th' = [th EXCEPT ![u] = Enter(u, method, moved, IF moved > 0 THEN "refeed" ELSE "idle")]
       /\ UNCHANGED <<wire, up, sent>>

Refeed(u) ==
    /\ th[u].pc = "refeed"
    /\ ch' = [ch EXCEPT ![SideOf[u]].inBuffer = @ + th[u].n]
    /\ th' = [th EXCEPT ![u].pc = "idle", ![u].n = 0]
    /\ UNCHANGED <<wire, up, sent>>

-----------------------------------------------------------------------------
(* The transport thread of side e                                           *)

\* Transport.run reads the next message of the peer; one for a channel that is
\* no longer linked is ignored ("dead channel").
NextMessage(e) ==
    /\ up[e] /\ th[e].pc = "idle" /\ wire[Peer(e)] # <<>>
    /\ wire' = [wire EXCEPT ![Peer(e)] = Tail(@)]

Ignore(e) ==
    /\ NextMessage(e)
    /\ ~ch[e].linked
    /\ UNCHANGED <<ch, th, up, sent>>

Incoming(e, type) == NextMessage(e) /\ ch[e].linked /\ Head(wire[Peer(e)]).type = type
Amount(e) == Head(wire[Peer(e)]).n

\* _feed
HandleData(e) ==
    /\ Incoming(e, "data")
    /\ ch' = [ch EXCEPT ![e].inBuffer = @ + Amount(e)]
    /\ UNCHANGED <<th, up, sent>>

\* _feed_extended reads combine_stderr without the lock, then feeds.
HandleExtended(e) ==
    /\ Incoming(e, "ext")
    /\ th' = [th EXCEPT ![e].pc = "feed", ![e].n = Amount(e),
                        ![e].call = IF ch[e].combine THEN "in" ELSE "err"]
    /\ UNCHANGED <<ch, up, sent>>

FeedExtended(e) ==
    /\ th[e].pc = "feed"
    /\ ch' = IF th[e].call = "in" THEN [ch EXCEPT ![e].inBuffer = @ + th[e].n]
                                  ELSE [ch EXCEPT ![e].errBuffer = @ + th[e].n]
    /\ th' = [th EXCEPT ![e].pc = "idle", ![e].n = 0]
    /\ UNCHANGED <<wire, up, sent>>

\* _window_adjust
HandleWindowAdjust(e) ==
    /\ Incoming(e, "adjust")
    /\ ch' = [ch EXCEPT ![e].outWindow = @ + Amount(e)]
    /\ th' = Wake(th, e)
    /\ UNCHANGED <<up, sent>>

\* _handle_eof: ignored if eof_received is set already, by whomever.
HandleEof(e) ==
    /\ Incoming(e, "eof")
    /\ ch' = IF ch[e].eofReceived THEN ch
             ELSE [ch EXCEPT ![e].eofReceived = TRUE, ![e].bufClosed = TRUE]
    /\ UNCHANGED <<th, up, sent>>

\* _handle_close, and _request_failed, which closes without unlinking.
HandleClose(e) ==
    /\ Incoming(e, "close")
    /\ ch' = [ch EXCEPT ![e] = [CloseInternal(@) EXCEPT !.linked = FALSE]]
    /\ th' = [Wake(th, e) EXCEPT ![e] = Dispatch(@, CloseMessages(ch[e]), "idle")]
    /\ UNCHANGED <<up, sent>>

RequestFailed(e) ==
    /\ Incoming(e, "failure")
    /\ ch' = [ch EXCEPT ![e] = CloseInternal(@)]
    /\ th' = [Wake(th, e) EXCEPT ![e] = Dispatch(@, CloseMessages(ch[e]), "idle")]
    /\ UNCHANGED <<up, sent>>

RequestSuccess(e) ==
    /\ Incoming(e, "success")
    /\ ch' = [ch EXCEPT ![e].event = TRUE, ![e].eventReady = TRUE]
    /\ UNCHANGED <<th, up, sent>>

\* Mutant of HandleRequest: only a granted request is answered.
HandleRequestIfGranted(e) ==
    /\ Incoming(e, "request")
    /\ \E out \in {<<Msg("success", 0)>>, <<>>} :
          th' = [th EXCEPT ![e] = Dispatch(@, out, "idle")]
    /\ UNCHANGED <<ch, up, sent>>

\* _handle_request with want_reply: the server object decides; a client has none
\* and always answers with a failure.
HandleRequest(e) ==
    /\ Incoming(e, "request")
    /\ \E answer \in IF e = "server" THEN {"success", "failure"} ELSE {"failure"} :
          th' = [th EXCEPT ![e] = Dispatch(@, <<Msg(answer, 0)>>, "idle")]
    /\ UNCHANGED <<ch, up, sent>>

HandleExitStatus(e) ==
    /\ Incoming(e, "status")
    /\ ch' = [ch EXCEPT ![e].status = TRUE]
    /\ UNCHANGED <<th, up, sent>>

\* The end of Transport.run: _unlink closes the Channel without a message and
\* leaves one that is closed already in the channel map.
Die(e) ==
    /\ up' = [up EXCEPT ![e] = FALSE]
    /\ ch' = IF ch[e].closed THEN ch
             ELSE [ch EXCEPT ![e] = [SetClosed(@) EXCEPT !.linked = FALSE]]
    /\ th' = [Wake(th, e) EXCEPT ![e].pc = "dead", ![e].out = <<>>]
    /\ UNCHANGED <<wire, sent>>

\* The connection of e fails while its thread reads or writes the socket.
ConnectionLost(e) ==
    /\ e \in Mortal /\ up[e] /\ th[e].pc \in {"idle", "transmit"}
    /\ Die(e)

\* The peer is gone and all it sent has been read: EOFError in run.
EndOfStream(e) ==
    /\ up[e] /\ ~up[Peer(e)] /\ th[e].pc = "idle" /\ wire[Peer(e)] = <<>>
    /\ Die(e)

-----------------------------------------------------------------------------

UserCalls(u) ==
    \/ \E n \in SendSizes, m \in Methods : CallSend(u, m, n)
    \/ \E n \in ReadSizes, m \in Methods : CallRecv(u, m, n)
    \/ CallClose(u)
    \/ \E m \in Methods : CallShutdown(u, m)
    \/ CallRequest(u)
    \/ CallSendExitStatus(u)
    \/ CallRecvExitStatus(u)
    \/ \E m \in Methods : CallCombine(u, m)

UserRuns(u) ==
    \/ Send(u) \/ SendResumes(u)
    \/ Recv(u) \/ Credit(u)
    \/ ShutdownWrite(u)
    \/ EventPending(u) \/ WaitForEvent(u)
    \/ RecvExitStatus(u)
    \/ Refeed(u)
    \/ Transmit(u)

TransportRuns(e) ==
    \/ Ignore(e)
    \/ HandleData(e) \/ HandleExtended(e) \/ FeedExtended(e)
    \/ HandleWindowAdjust(e)
    \/ HandleEof(e) \/ HandleClose(e)
    \/ HandleRequest(e) \/ RequestSuccess(e) \/ RequestFailed(e)
    \/ HandleExitStatus(e)
    \/ Transmit(e)
    \/ EndOfStream(e)

Next ==
    \/ \E u \in Users : UserCalls(u) \/ UserRuns(u) \/ TimesOut(u)
    \/ \E e \in Sides : TransportRuns(e) \/ ConnectionLost(e)

Spec == Init /\ [][Next]_vars

\* The scheduler runs every thread that can run; nobody is obliged to call a
\* method, to time out or to lose the connection.
FairSpec ==
    /\ Spec
    /\ \A u \in Users : WF_vars(UserRuns(u))
    /\ \A e \in Sides : WF_vars(TransportRuns(e))

-----------------------------------------------------------------------------
(* Properties                                                               *)

\* Each side puts at most one EOF and one CLOSE on the wire, although shutdown,
\* close, the peer's CLOSE and a failed request may all want to, in any order.
OneEofOneClose ==
    \A e \in Sides : sent[e].eof <= 1 /\ sent[e].close <= 1

\* A thread waits un-notified for the window to open only while the window is
\* empty and the channel is not closed (_window_adjust, _set_closed).
NoLostWindowWakeup ==
    \A u \in Users : th[u].pc = "sendwait" =>
        ch[SideOf[u]].outWindow = 0 /\ ~ch[SideOf[u]].closed

InOutbox(e, type) ==
    \E t \in Threads : Home(t) = e /\ \E i \in DOMAIN th[t].out : th[t].out[i].type = type
OnWire(e, type) == \E i \in DOMAIN wire[e] : wire[e][i].type = type

\* Nobody waits for the answer to a request that can no longer come on a channel
\* that is still open: the request or its answer is on its way.
RequestOutstanding ==
    \A u \in Users :
        LET e == SideOf[u]
            p == Peer(e)
        IN th[u].pc = "reqwait" /\ ~ch[e].event =>
              \/ ch[e].closed \/ ~up[p]
              \/ InOutbox(e, "request") \/ OnWire(e, "request")
              \/ \E a \in {"success", "failure"} : InOutbox(p, a) \/ OnWire(p, a)

\* Closing a channel, from either end or by losing the connection, ends every
\* call that is blocked in a send, a recv or a wait for the exit status.
CloseReleasesCallers ==
    \A u \in Users :
        (ch[SideOf[u]].closed /\ th[u].pc \in {"send", "sendwait", "sendwoken", "recv", "statwait"})
            ~> th[u].pc = "idle"

\* A closed channel leaves its transport's channel map, unless the transport
\* ends first: the CLOSE handshake completes whoever starts it.
CloseCompletes ==
    \A e \in Sides : ch[e].closed ~> (~ch[e].linked \/ ~up[e])

\* exec_command and the other requests document ":raises: SSHException -- if the
\* request was rejected or the channel was closed": a request does not wait for
\* ever on a channel whose peer answers or closes.
RequestEnds ==
    \A u \in Users : th[u].pc = "reqwait" ~> th[u].pc = "idle"
=============================================================================
