---------------------------- MODULE ChannelFlow ----------------------------
(***************************************************************************)
(* Channel implements FlowControl, in each direction.  The mapping says    *)
(* where the bytes of the window are: in the sender's out_window_size, in  *)
(* messages in an outbox or on the wire, in the receiver's buffers, or     *)
(* between a recv and the update that gives them back.                     *)
(***************************************************************************)
EXTENDS Channel, FiniteSets

\* A process has finitely many threads.
ASSUME UsersAssumption == IsFiniteSet(Users)

\* The sum of a function from a finite set to the naturals: the number of pairs
\* below it.
Cells(w) == UNION {{<<x, k>> : k \in 1 .. w[x]} : x \in DOMAIN w}
Total(w) == Cardinality(Cells(w))

\* The bytes that messages of these types stand for.
Size(m, types) == IF m.type \in types THEN m.n ELSE 0
Bytes(messages, types) == Total([i \in DOMAIN messages |-> Size(messages[i], types)])

\* The threads of e at this place, and the bytes of these types that they are about to
\* send.
ThreadsAt(e, place) == {t \in Threads : th[t].pc = place /\ Home(t) = e}
Prepared(e, types) == Total([t \in ThreadsAt(e, "transmit") |-> Bytes(th[t].out, types)])

\* Bytes that threads of e at this place carry from one lock to the next.
Carried(e, place) == Total([t \in ThreadsAt(e, place) |-> th[t].n])

\* Bytes in a message of stderr between HandleExtended and FeedExtended.
Fed(e) == IF th[e].pc = "feed" THEN th[e].n ELSE 0

Outgoing(e, types) == Prepared(e, types) + Bytes(wire[e], types)
Flight(e)    == Outgoing(e, {"data", "ext"}) + Fed(Peer(e))
Held(e)      == ch[Peer(e)].inBuffer + ch[Peer(e)].errBuffer + Carried(Peer(e), "refeed")
Taken(e)     == ch[Peer(e)].inSofar + Carried(Peer(e), "credit")
Returning(e) == Outgoing(Peer(e), {"adjust"})
InUse(e)     == ch[e].outWindow + Flight(e) + Held(e) + Taken(e) + Returning(e)

ToServer == INSTANCE FlowControl
              WITH credit <- ch["client"].outWindow, flight <- Flight("client"), held <- Held("client"),
                   taken <- Taken("client"), returning <- Returning("client"), lost <- Window - InUse("client")
ToClient == INSTANCE FlowControl
              WITH credit <- ch["server"].outWindow, flight <- Flight("server"), held <- Held("server"),
                   taken <- Taken("server"), returning <- Returning("server"), lost <- Window - InUse("server")

\* Whatever the threads at the two ends do, the bytes of each direction's window
\* only move the way FlowControl lets them: no update is sent twice, no byte is
\* sent without credit, and nothing lost comes back.
ImplementsFlowControl == ToServer!Spec /\ ToClient!Spec

\* The receiver of e's data is still reading: nothing it reads goes uncredited.
Reading(e) ==
    /\ ~ch[Peer(e)].closed /\ ~ch[Peer(e)].eofReceived
    /\ up[e] /\ up[Peer(e)]

\* No credit leaks away while the receiver is reading.
NoCreditLost == \A e \in Sides : Reading(e) => InUse(e) = Window

\* However many threads write, read and merge the streams: what a receiver has buffered and
\* what is still coming fit the window it advertised, and so does what may yet be sent.
NoOverrun == \A e \in Sides : Held(e) + Flight(e) + ch[e].outWindow <= Window

\* When everything sent has been read and no update is under way, the sender has
\* window left: the threshold of _check_add_window cannot stall the channel.
NoWindowStall ==
    \A e \in Sides :
        Reading(e) /\ Flight(e) + Held(e) + Returning(e) + Carried(Peer(e), "credit") = 0
            => ch[e].outWindow > 0
=============================================================================
