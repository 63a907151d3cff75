------------------------ MODULE ClientAuth_proofs ------------------------
(***************************************************************************)
(* Proofs about ClientAuth, for any users, any answers a server may give,  *)
(* any limits and any of the programs: its types, that the server serves   *)
(* one user, that an answer wakes its caller, and, from the shape of the   *)
(* conversation between the two ends, that a caller is told the verdict on *)
(* its own request, that compression is switched on in step and that what  *)
(* a program reports is true.                                              *)
(***************************************************************************)
EXTENDS ClientAuth, SequenceTheorems, TLAPS

-----------------------------------------------------------------------------
(* Types                                                                   *)

Kinds == {"none", "eof", "shutdown", "ssh", "other", "timeout", "partial", "badtype",
          "failed", "success", "pending"}
Saved == [kind : Kinds, allowed : SUBSET Methods]
ResultSet == [kind : Kinds, raised : BOOLEAN, allowed : SUBSET Methods]
Keys == {"good", "disagreed", "unsupported"}
Numbers == 0..(2 * MaxAttempts)

ClientSet ==
    [active : BOOLEAN, thread : {"runs", "raised", "aborting", "over"}, accepted : BOOLEAN,
     compressed : Nat, saved : Saved]
HandlerSet ==
    [made : BOOLEAN, event : Numbers, method : Methods \cup {""}, user : BOOLEAN,
     strict : BOOLEAN, authenticated : BOOLEAN, banner : BOOLEAN]
CallSet ==
    [pc : {"idle", "poll", "made", "sent", "wait", "event", "except", "fudge"}, n : Numbers,
     method : Methods, key : Keys, fallback : BOOLEAN, async : BOOLEAN, fudging : BOOLEAN, woken : BOOLEAN,
     heard : BOOLEAN, original : ResultSet, result : ResultSet, about : Numbers]
ServerSet ==
    [active : BOOLEAN, user : Usernames \cup {Nobody}, authenticated : BOOLEAN, fails : Nat,
     queries : Nat, compressed : Nat, opened : BOOLEAN, grant : Usernames \cup {Nobody},
     said : [Numbers -> Results \cup {"nothing"}]]
Requests ==
    [type : {"service_request", "userauth_request", "info_response", "channel_open",
             "unimplemented"},
     n : Numbers, user : Usernames, service : {"known", "unknown"},
     method : Methods \cup {""}, key : Keys, sig : {"valid", "invalid", "absent"},
     change : BOOLEAN, compressed : Nat]
Answers ==
    [type : {"service_accept", "banner", "success", "failure", "info_request", "disconnect",
             "pk_ok", "open_success", "open_failure"},
     n : Numbers, allowed : SUBSET Methods, partial : BOOLEAN, many : BOOLEAN]
DriverSet ==
    [todo : Seq(IF program.runs = "AuthStrategy" THEN Sources ELSE KeyOrigins),
     trying : KeyOrigins \cup Sources \cup {"nothing", "source", "last"},
     twoFactor : BOOLEAN, early : BOOLEAN, saved : BOOLEAN,
     outcome : {"none", "returned", "raised"}]

TransportsOK ==
    /\ flavour \in {"Transport", "ServiceRequesting", "Foreign"}
    /\ c \in ClientSet /\ h \in HandlerSet /\ call \in CallSet /\ s \in ServerSet
    /\ toServer \in Seq(Requests) /\ toClient \in Seq(Answers)
    /\ abandoned \in BOOLEAN /\ garbled \in BOOLEAN
DriverOK == program \in Programs /\ d \in DriverSet

\* The numbers of calls stay below the bound: a call is numbered up to MaxAttempts, and
\* only the attempt to fudge that follows it may get the number after that.
Counted ==
    /\ call.pc # "idle" => call.n >= 1
    /\ call.pc # "idle" /\ ~call.fudging => call.n <= MaxAttempts
    /\ call.pc \in {"idle", "fudge"} => ~call.fudging
    /\ call.fudging => call.method = "keyboard-interactive" /\ call.n >= 2

Typed == TransportsOK /\ DriverOK /\ Counted

-----------------------------------------------------------------------------
(* The invariants                                                          *)

\* What is on its way.
Sent(q) == {q[i] : i \in 1..Len(q)}

\* A success on its way, or noted by the client, was given.
Granted ==
    /\ h.authenticated => s.authenticated
    /\ \A m \in Sent(toClient) : m.type = "success" => s.authenticated

\* A channel is only opened for a user that was let in.
Guarded == s.opened => s.authenticated

\* A caller of a Transport that waits has its event in the handler; before that nothing
\* that is under way is about its attempt, and the handler could send nothing for it.
Wakes ==
    flavour = "Transport" =>
        /\ call.pc \notin {"sent", "poll"}
        /\ \A m \in Sent(toServer) : m.n <= call.n
        /\ \A m \in Sent(toClient) : m.n <= call.n
        /\ call.pc \in {"wait", "event"} => h.event = call.n /\ (call.heard => call.woken)
        /\ call.pc = "made" =>
              /\ ~call.heard /\ ~h.user
              /\ \A m \in Sent(toServer) : m.n < call.n
              /\ \A m \in Sent(toClient) : m.n < call.n

\* A client that is not paramiko leaves the client's side of the model alone.
Alone ==
    flavour = "Foreign" =>
        /\ program.runs = "application" /\ d.outcome = "none"
        /\ call.pc = "idle" /\ call.result.kind = "none" /\ ~h.authenticated /\ ~garbled
        /\ Len(toServer) <= 1
        /\ \A m \in Sent(toServer) : m.compressed = s.compressed

\* The messages that pass the turn to the other end.
Asks(m) == m.type # "unimplemented"
Tells(m) == m.type \in {"service_accept", "info_request", "success", "failure"}
Quiet(q) == \A m \in Sent(q) : ~Tells(m)
Single(q) == \A i, j \in 1..Len(q) : Tells(q[i]) /\ Tells(q[j]) => i = j
LastAsks(q) == \A i \in 1..Len(q) : Asks(q[i]) => i = Len(q)

\* Where the caller is while the other end has the turn, about the service or not.
Attends(service) ==
    IF service /\ flavour = "ServiceRequesting" THEN call.pc = "poll" /\ ~c.accepted
                                                ELSE call.pc \in {"sent", "wait", "event"}

Verdict(result) ==
    CASE result = "success" -> "AUTH_SUCCESSFUL"
      [] result = "partial" -> "AUTH_PARTIALLY_SUCCESSFUL"
      [] OTHER -> "AUTH_FAILED"
Verdicts == {"success", "partial", "failed", "badtype"}

AskedWell(m) ==
    /\ Quiet(toClient) /\ ~call.heard /\ m.n = call.n
    /\ m.type = "info_response" => ~s.authenticated
    /\ c.active => Attends(m.type = "service_request")
    /\ m.type = "service_request" /\ flavour = "ServiceRequesting" => toClient = <<>>

ToldWell(m) ==
    /\ ~call.heard
    /\ m.type # "service_accept" => toServer = <<>> /\ m.n = call.n
    /\ m.type = "info_request" => ~s.authenticated
    /\ m.type = "success" => s.said[call.n] = "AUTH_SUCCESSFUL"
    /\ m.type = "failure" => s.said[call.n] = Verdict(IF m.partial THEN "partial" ELSE "failed")
    /\ c.active => Attends(m.type = "service_accept")

\* One message at a time passes the turn, and it is about the current attempt.
Turns ==
    /\ LastAsks(toServer) /\ Single(toClient)
    /\ \A m \in Sent(toServer) : Asks(m) => AskedWell(m)
    /\ \A m \in Sent(toClient) : Tells(m) => ToldWell(m)

\* Where the caller can be.  A ServiceRequestingTransport that was not accepted yet has not
\* begun, or polls; afterwards it has its handler.
Places ==
    /\ c.active => c.thread \in {"runs", "raised"}
    /\ c.active /\ call.woken => call.heard
    /\ call.pc = "except" => call.woken /\ ~h.authenticated
    /\ call.pc \in {"poll", "made"} => ~call.heard
    /\ call.pc \in {"made", "sent", "wait", "event", "except"} => h.made
    /\ flavour = "Transport" => call.pc \notin {"sent", "poll"}
    /\ flavour = "ServiceRequesting" /\ c.accepted /\ call.pc # "poll" => h.made
    /\ flavour = "ServiceRequesting" /\ ~c.accepted =>
          \/ call.pc = "poll"
          \/ call.pc = "idle" /\ toServer = <<>> /\ toClient = <<>>

\* The server has switched compression on, the client has still to be told.
Ahead == Delayed /\ \E m \in Sent(toClient) : m.type = "success"

\* Both ends use the same compressor, but while a success is on its way.
Compressors ==
    /\ ~garbled
    /\ s.active => \A m \in Sent(toServer) : m.compressed = s.compressed
    /\ s.active /\ c.active => s.compressed = IF Ahead THEN c.compressed + 1 ELSE c.compressed

\* The caller has asked the server and not yet concluded.
Asking == call.pc \in {"sent", "wait", "event", "except"}

\* What the client has noted of the verdict on an attempt, from the answer to its result.
Noted ==
    /\ c.saved.kind \notin {"success", "failed"}
    /\ c.saved.kind \in {"partial", "badtype"} =>
          /\ Asking /\ call.heard /\ ~h.authenticated
          /\ s.said[call.n] = Verdict(c.saved.kind)
    /\ Asking /\ call.heard =>
          /\ h.authenticated => s.said[call.n] = "AUTH_SUCCESSFUL"
          /\ c.active /\ ~h.authenticated /\ c.saved.kind = "none"
                => s.said[call.n] = "AUTH_FAILED"
    /\ call.pc = "fudge" =>
          /\ call.heard /\ s.said[call.n] = "AUTH_FAILED"
          /\ call.original.raised /\ call.original.kind = "badtype"
    /\ call.fudging =>
          /\ s.said[call.n - 1] = "AUTH_FAILED"
          /\ call.original.raised /\ call.original.kind = "badtype"
    /\ call.pc = "idle" /\ call.result.kind \in Verdicts =>
          \/ /\ s.said[call.about] = Verdict(call.result.kind)
             /\ call.about < call.n \/ (call.about = call.n /\ call.heard)
          \/ ~c.active /\ call.result.kind \in {"success", "failed"}

\* What is known of the user's success where a program is still trying, unless the
\* connection was lost with it and the caller is still to find out.
Arriving ==
    \/ call.pc = "idle" /\ call.result = Returned("success", {})
    \/ Asking /\ call.heard /\ h.authenticated
    \/ call.pc \in {"sent", "wait", "event"} /\ \E m \in Sent(toClient) : m.type = "success"
    \/ call.pc \in {"sent", "wait", "event"} /\ ~call.heard /\ c.thread = "raised"

\* What SSHClient._auth and AuthStrategy know.
Informed ==
    /\ call.pc = "idle" /\ call.n >= 1 /\ ~call.result.raised
          => call.result.kind \in {"success", "partial"}
    /\ call.pc = "idle" /\ call.result.kind = "success" => s.authenticated
    /\ d.outcome # "none" => call.pc = "idle"
    /\ program.runs = "application" => d.outcome = "none"
    /\ program.runs # "application" =>
          /\ call.pc # "idle" => d.trying # "nothing" /\ d.outcome = "none"
          /\ d.trying # "nothing" => call.n >= 1
          /\ d.outcome = "returned" =>
                call.result.kind = "partial" \/ (call.result.kind = "success" /\ s.authenticated)
          /\ s.authenticated /\ c.active =>
                d.outcome = "returned" \/ (d.outcome = "none" /\ d.trying # "nothing" /\ Arriving)

Talk == Turns /\ Places /\ Compressors /\ Noted /\ Informed

\* All of that, as long as no attempt was given up.
Conversation == flavour # "Foreign" /\ ~abandoned => Talk

-----------------------------------------------------------------------------
(* Queues                                                                  *)

\* What is in a queue that has none, one or two messages.
LEMMA SentFew ==
    /\ Sent(<<>>) = {}
    /\ \A x : Sent(<<x>>) = {x}
    /\ \A x, y : Sent(<<x, y>>) = {x, y}
<1>1. Sent(<<>>) = {}
  BY DEF Sent
<1>2. ASSUME NEW x PROVE Sent(<<x>>) = {x}
  BY DEF Sent
<1>3. ASSUME NEW x, NEW y PROVE Sent(<<x, y>>) = {x, y}
  <2>1. Len(<<x, y>>) = 2 /\ 1..2 = {1, 2} /\ <<x, y>>[1] = x /\ <<x, y>>[2] = y
    OBVIOUS
  <2> QED
    BY <2>1 DEF Sent
<1> QED
  BY <1>1, <1>2, <1>3

\* Taking the first message.
LEMMA SentTail ==
    ASSUME NEW S, NEW q \in Seq(S), q # <<>>
    PROVE  /\ Tail(q) \in Seq(S) /\ Len(Tail(q)) = Len(q) - 1
           /\ \A i \in 1..Len(Tail(q)) : Tail(q)[i] = q[i + 1]
           /\ Head(q) = q[1] /\ 1 \in 1..Len(q)
           /\ Head(q) \in S /\ Head(q) \in Sent(q)
           /\ Sent(Tail(q)) \subseteq Sent(q)
           /\ Sent(q) \subseteq S
<1>1. /\ Tail(q) \in Seq(S) /\ Len(q) \in Nat \ {0} /\ Head(q) = q[1]
      /\ Len(Tail(q)) = Len(q) - 1 /\ 1 \in 1..Len(q)
      /\ \A i \in 1..(Len(q) - 1) : Tail(q)[i] = q[i + 1]
      /\ \A i \in 1..Len(q) : q[i] \in S
  BY HeadTailProperties, EmptySeq, LenProperties
<1>2. Sent(Tail(q)) \subseteq Sent(q)
  BY <1>1 DEF Sent
<1> QED
  BY <1>1, <1>2 DEF Sent

\* Adding a message, or messages.
LEMMA SentMore ==
    ASSUME NEW S, NEW q \in Seq(S)
    PROVE  /\ \A x \in S : Append(q, x) \in Seq(S) /\ Sent(Append(q, x)) = Sent(q) \cup {x}
           /\ \A r \in Seq(S) : q \o r \in Seq(S) /\ Sent(q \o r) = Sent(q) \cup Sent(r)
<1>1. ASSUME NEW x \in S
      PROVE  Append(q, x) \in Seq(S) /\ Sent(Append(q, x)) = Sent(q) \cup {x}
  <2>1. /\ Append(q, x) \in Seq(S) /\ Len(q) \in Nat /\ Len(Append(q, x)) = Len(q) + 1
        /\ \A i \in 1..Len(q) : Append(q, x)[i] = q[i]
        /\ Append(q, x)[Len(q) + 1] = x
    BY AppendProperties, LenProperties
  <2>2. 1..(Len(q) + 1) = (1..Len(q)) \cup {Len(q) + 1}
    BY <2>1
  <2> HIDE DEF Sent
  <2>3. \A y : y \in Sent(Append(q, x)) <=> \E i \in 1..(Len(q) + 1) : y = Append(q, x)[i]
    BY <2>1 DEF Sent
  <2>4. \A y : y \in Sent(q) <=> \E i \in 1..Len(q) : y = q[i]
    BY DEF Sent
  <2>5. \A y : y \in Sent(Append(q, x)) <=> y \in Sent(q) \/ y = x
    BY <2>1, <2>2, <2>3, <2>4
  <2> QED
    BY <2>1, <2>5
<1>2. ASSUME NEW r \in Seq(S)
      PROVE  q \o r \in Seq(S) /\ Sent(q \o r) = Sent(q) \cup Sent(r)
  <2>1. /\ q \o r \in Seq(S) /\ Len(q) \in Nat /\ Len(r) \in Nat /\ Len(q \o r) = Len(q) + Len(r)
        /\ \A i \in 1..Len(q) : (q \o r)[i] = q[i]
        /\ \A i \in 1..Len(r) : (q \o r)[Len(q) + i] = r[i]
    BY ConcatProperties, LenProperties
  <2>2. \A y : y \in Sent(q \o r) <=> \E i \in 1..(Len(q) + Len(r)) : y = (q \o r)[i]
    BY <2>1 DEF Sent
  <2>3. \A y : y \in Sent(q) <=> \E i \in 1..Len(q) : y = q[i]
    BY DEF Sent
  <2>4. \A y : y \in Sent(r) <=> \E i \in 1..Len(r) : y = r[i]
    BY DEF Sent
  <2>5. \A i \in 1..(Len(q) + Len(r)) : i \in 1..Len(q) \/ i - Len(q) \in 1..Len(r)
    BY <2>1
  <2>6. ASSUME NEW y, y \in Sent(q \o r) PROVE y \in Sent(q) \/ y \in Sent(r)
    <3>1. PICK i \in 1..(Len(q) + Len(r)) : y = (q \o r)[i]
      BY <2>2, <2>6
    <3>2. CASE i \in 1..Len(q)
      BY <3>1, <3>2, <2>1, <2>3
    <3>3. CASE i - Len(q) \in 1..Len(r)
      <4>1. i = Len(q) + (i - Len(q))
        BY <2>1
      <4> QED
        BY <3>1, <3>3, <4>1, <2>1, <2>4
    <3> QED
      BY <3>2, <3>3, <2>5
  <2>7. ASSUME NEW y, y \in Sent(q) PROVE y \in Sent(q \o r)
    BY <2>1, <2>2, <2>3, <2>7
  <2>8. ASSUME NEW y, y \in Sent(r) PROVE y \in Sent(q \o r)
    <3>1. PICK i \in 1..Len(r) : y = r[i]
      BY <2>4, <2>8
    <3>2. Len(q) + i \in 1..(Len(q) + Len(r))
      BY <2>1
    <3> QED
      BY <3>1, <3>2, <2>1, <2>2
  <2> QED
    BY <2>1, <2>6, <2>7, <2>8
<1> QED
  BY <1>1, <1>2

\* The turn is with whoever the last message that asks was sent to.
LEMMA AskQueues ==
    ASSUME NEW q \in Seq(Requests)
    PROVE  /\ q # <<>> /\ LastAsks(q) => LastAsks(Tail(q))
           /\ q # <<>> /\ LastAsks(q) /\ Asks(Head(q)) => Tail(q) = <<>>
           /\ \A x \in Requests : (\A m \in Sent(q) : ~Asks(m)) => LastAsks(Append(q, x))
<1>1. ASSUME q # <<>>, LastAsks(q) PROVE LastAsks(Tail(q))
  <2>1. /\ Len(Tail(q)) = Len(q) - 1 /\ Len(q) \in Nat
        /\ \A i \in 1..Len(Tail(q)) : Tail(q)[i] = q[i + 1]
    BY <1>1, SentTail, LenProperties
  <2>2. SUFFICES ASSUME NEW i \in 1..Len(Tail(q)), Asks(Tail(q)[i]) PROVE i = Len(Tail(q))
    BY DEF LastAsks
  <2>3. i + 1 \in 1..Len(q) /\ Tail(q)[i] = q[i + 1]
    BY <2>1
  <2>4. i + 1 = Len(q)
    BY <1>1, <2>2, <2>3 DEF LastAsks, Asks
  <2> QED
    BY <2>1, <2>4
<1>2. ASSUME q # <<>>, LastAsks(q), Asks(Head(q)) PROVE Tail(q) = <<>>
  <2>1. /\ Len(Tail(q)) = Len(q) - 1 /\ Len(q) \in Nat /\ Head(q) = q[1] /\ 1 \in 1..Len(q)
        /\ Tail(q) \in Seq(Requests)
    BY <1>2, SentTail, LenProperties
  <2>2. Asks(q[1])
    BY <1>2, <2>1
  <2>3. 1 = Len(q)
    BY <1>2, <2>1, <2>2 DEF LastAsks
  <2>4. Len(Tail(q)) = 0
    BY <2>1, <2>3
  <2> QED
    BY <2>1, <2>4, EmptySeq
<1>3. ASSUME NEW x \in Requests, \A m \in Sent(q) : ~Asks(m) PROVE LastAsks(Append(q, x))
  <2>1. /\ Len(q) \in Nat /\ Len(Append(q, x)) = Len(q) + 1
        /\ \A i \in 1..Len(q) : Append(q, x)[i] = q[i]
    BY AppendProperties, LenProperties
  <2>2. \A i \in 1..Len(q) : ~Asks(q[i])
    BY <1>3 DEF Sent
  <2> QED
    BY <2>1, <2>2 DEF LastAsks
<1> QED
  BY <1>1, <1>2, <1>3

\* The same for what tells the client something.
LEMMA TellQueues ==
    ASSUME NEW q \in Seq(Answers)
    PROVE  /\ q # <<>> /\ Single(q) => Single(Tail(q))
           /\ q # <<>> /\ Single(q) /\ Tells(Head(q)) => Quiet(Tail(q))
           /\ \A r \in Seq(Answers) : Quiet(q) /\ Single(r) => Single(q \o r)
           /\ \A r \in Seq(Answers) : Single(q) /\ Quiet(r) => Single(q \o r)
           /\ Quiet(q) => Single(q)
<1>1. ASSUME q # <<>>, Single(q) PROVE Single(Tail(q))
  <2>1. /\ Len(Tail(q)) = Len(q) - 1 /\ Len(q) \in Nat
        /\ \A i \in 1..Len(Tail(q)) : Tail(q)[i] = q[i + 1]
    BY <1>1, SentTail, LenProperties
  <2>2. SUFFICES ASSUME NEW i \in 1..Len(Tail(q)), NEW j \in 1..Len(Tail(q)),
                        Tells(Tail(q)[i]), Tells(Tail(q)[j])
                 PROVE  i = j
    BY DEF Single
  <2>3. i + 1 \in 1..Len(q) /\ j + 1 \in 1..Len(q)
    BY <2>1
  <2>4. i + 1 = j + 1
    BY <1>1, <2>1, <2>2, <2>3 DEF Single
  <2> QED
    BY <2>4
<1>2. ASSUME q # <<>>, Single(q), Tells(Head(q)) PROVE Quiet(Tail(q))
  <2>1. /\ Len(Tail(q)) = Len(q) - 1 /\ Len(q) \in Nat /\ Head(q) = q[1] /\ 1 \in 1..Len(q)
        /\ \A i \in 1..Len(Tail(q)) : Tail(q)[i] = q[i + 1]
    BY <1>2, SentTail, LenProperties
  <2>2. ASSUME NEW i \in 1..Len(Tail(q)), Tells(Tail(q)[i]) PROVE FALSE
    <3>1. i + 1 \in 1..Len(q) /\ i + 1 # 1
      BY <2>1
    <3> QED
      BY <1>2, <2>1, <2>2, <3>1 DEF Single
  <2> QED
    BY <2>2 DEF Quiet, Sent
<1>3. ASSUME NEW r \in Seq(Answers)
      PROVE  /\ Quiet(q) /\ Single(r) => Single(q \o r)
             /\ Single(q) /\ Quiet(r) => Single(q \o r)
  <2>1. /\ Len(q) \in Nat /\ Len(r) \in Nat /\ Len(q \o r) = Len(q) + Len(r)
        /\ \A i \in 1..Len(q) : (q \o r)[i] = q[i]
        /\ \A i \in 1..(Len(q) + Len(r)) :
              i \in 1..Len(q) \/ (i - Len(q) \in 1..Len(r) /\ (q \o r)[i] = r[i - Len(q)])
    BY ConcatProperties, LenProperties
  <2>2. Quiet(q) => \A i \in 1..Len(q) : ~Tells(q[i])
    BY DEF Quiet, Sent
  <2>3. Quiet(r) => \A i \in 1..Len(r) : ~Tells(r[i])
    BY DEF Quiet, Sent
  <2>4. ASSUME Quiet(q), Single(r),
               NEW i \in 1..(Len(q) + Len(r)), NEW j \in 1..(Len(q) + Len(r)),
               Tells((q \o r)[i]), Tells((q \o r)[j])
        PROVE  i = j
    <3>1. /\ i - Len(q) \in 1..Len(r) /\ (q \o r)[i] = r[i - Len(q)]
          /\ j - Len(q) \in 1..Len(r) /\ (q \o r)[j] = r[j - Len(q)]
      BY <2>1, <2>2, <2>4
    <3>2. i - Len(q) = j - Len(q)
      BY <2>4, <3>1 DEF Single
    <3> QED
      BY <3>2, <2>1
  <2>5. ASSUME Single(q), Quiet(r),
               NEW i \in 1..(Len(q) + Len(r)), NEW j \in 1..(Len(q) + Len(r)),
               Tells((q \o r)[i]), Tells((q \o r)[j])
        PROVE  i = j
    <3>1. i \in 1..Len(q) /\ (q \o r)[i] = q[i] /\ j \in 1..Len(q) /\ (q \o r)[j] = q[j]
      BY <2>1, <2>3, <2>5
    <3> QED
      BY <2>5, <3>1 DEF Single
  <2> QED
    BY <2>1, <2>4, <2>5 DEF Single
<1>4. ASSUME Quiet(q) PROVE Single(q)
  BY <1>4 DEF Quiet, Single, Sent
<1> QED
  BY <1>1, <1>2, <1>3, <1>4

-----------------------------------------------------------------------------
(* What the records of a step become                                        *)

\* The bounds, and what is among the values of a field.
LEMMA Bounds ==
    /\ MaxAttempts \in Nat /\ 0 \in Numbers /\ Numbers \subseteq Nat
    /\ \A n \in Nat : n <= 2 * MaxAttempts => n \in Numbers
    /\ Me \in Usernames /\ Nobody \notin Usernames
    /\ \A a \in AllowedAuths : a \in SUBSET Methods
    /\ Delayed \in BOOLEAN /\ HasBanner \in BOOLEAN
<1>1. MaxAttempts \in Nat
  BY AuthAssumption
<1>2. 0 \in Numbers /\ Numbers \subseteq Nat /\ \A n \in Nat : n <= 2 * MaxAttempts => n \in Numbers
  BY <1>1 DEF Numbers
<1> QED
  BY <1>1, <1>2, AuthAssumption

\* What paramiko's client sends.
LEMMA MessageDoes ==
    ASSUME c \in ClientSet, NEW n \in Numbers,
           NEW type \in {"service_request", "userauth_request", "info_response", "channel_open",
                         "unimplemented"}
    PROVE  /\ Message(type, n) \in Requests /\ Message(type, n).type = type
           /\ Message(type, n).n = n /\ Message(type, n).compressed = c.compressed
<1>1. c.compressed \in Nat /\ Me \in Usernames
  BY Bounds DEF ClientSet
<1>2. "none" \in Methods \cup {""} /\ "good" \in Keys
  BY DEF Methods, Keys
<1> QED
  BY <1>1, <1>2 DEF Message, Requests

\* The request of an attempt.
LEMMA UserauthRequestDoes ==
    ASSUME c \in ClientSet, call \in CallSet, NEW method \in Methods \cup {""}
    PROVE  /\ UserauthRequest(method) \in Requests
           /\ UserauthRequest(method).type = "userauth_request"
           /\ UserauthRequest(method).n = call.n
           /\ UserauthRequest(method).compressed = c.compressed
<1> DEFINE m == Message("userauth_request", call.n)
<1>1. call.n \in Numbers /\ call.key \in Keys
  BY DEF CallSet
<1>2. m \in Requests /\ m.type = "userauth_request" /\ m.n = call.n /\ m.compressed = c.compressed
  BY <1>1, MessageDoes
<1>3. UserauthRequest(method) = [m EXCEPT !.method = method, !.key = call.key]
  BY DEF UserauthRequest
<1> HIDE DEF m
<1> QED
  BY <1>1, <1>2, <1>3 DEF Requests

\* What the server sends.
LEMMA AnswerDoes ==
    ASSUME NEW n \in Numbers, NEW allowed \in SUBSET Methods, NEW partial \in BOOLEAN,
           NEW many \in BOOLEAN,
           NEW type \in {"service_accept", "banner", "success", "failure", "info_request",
                         "disconnect", "pk_ok", "open_success", "open_failure"}
    PROVE  /\ Answer(type, n, allowed, partial, many) \in Answers
           /\ Answer(type, n, allowed, partial, many).type = type
           /\ Answer(type, n, allowed, partial, many).n = n
           /\ Answer(type, n, allowed, partial, many).partial = partial
  BY DEF Answer, Answers

\* An answer without contents.
LEMMA PlainDoes ==
    ASSUME NEW type \in {"service_accept", "banner", "success", "failure", "info_request",
                         "disconnect", "pk_ok", "open_success", "open_failure"}
    PROVE  Plain(type) \in Answers /\ Plain(type).type = type /\ Plain(type).n = 0
<1>1. 0 \in Numbers /\ {} \in SUBSET Methods /\ FALSE \in BOOLEAN
  BY Bounds
<1>2. /\ Answer(type, 0, {}, FALSE, FALSE) \in Answers
      /\ Answer(type, 0, {}, FALSE, FALSE).type = type
      /\ Answer(type, 0, {}, FALSE, FALSE).n = 0
  BY <1>1 DEF Answer, Answers
<1> QED
  BY <1>2 DEF Plain

\* A call that ends.
LEMMA EndDoes ==
    ASSUME call \in CallSet, Counted, NEW r \in ResultSet
    PROVE  /\ End(r) \in CallSet
           /\ End(r).pc = "idle" /\ ~End(r).fudging
           /\ End(r).n = call.n /\ End(r).heard = call.heard /\ End(r).woken = call.woken
           /\ \/ /\ call.fudging /\ r.raised
                 /\ End(r).result = call.original /\ End(r).about = call.n - 1
              \/ /\ ~(call.fudging /\ r.raised /\ r.kind \notin NotSSHException)
                 /\ End(r).result = r /\ End(r).about = call.n
<1> DEFINE o == call.fudging /\ r.raised /\ r.kind \notin NotSSHException
           res == IF o THEN call.original ELSE r
           abt == IF o THEN call.n - 1 ELSE call.n
<1>1. res \in ResultSet
  BY DEF CallSet
<1>2. call.n \in Nat /\ call.n \in Numbers /\ (call.fudging => call.n >= 2)
  BY Bounds DEF CallSet, Counted
<1>3. abt \in Numbers
  BY <1>2, Bounds DEF Numbers
<1>4. End(r) = [call EXCEPT !.pc = "idle", !.fudging = FALSE, !.result = res, !.about = abt]
  BY DEF End
<1>5. \/ o /\ call.fudging /\ r.raised /\ res = call.original /\ abt = call.n - 1
      \/ ~o /\ res = r /\ abt = call.n
  OBVIOUS
<1>6. End(r) \in CallSet /\ End(r).pc = "idle" /\ ~End(r).fudging /\ End(r).n = call.n
      /\ End(r).heard = call.heard /\ End(r).woken = call.woken
      /\ End(r).result = res /\ End(r).about = abt
  <2> HIDE DEF o, res, abt
  <2> QED
    BY <1>1, <1>3, <1>4 DEF CallSet
<1> QED
  BY <1>5, <1>6

\* A caller that may be woken, by an answer or not.
LEMMA WokenDoes ==
    ASSUME call \in CallSet, h \in HandlerSet, NEW n \in Numbers
    PROVE  /\ Woken \in CallSet /\ Woken.heard = call.heard
           /\ Woken.woken = (call.woken \/ h.event = call.n)
           /\ Woken.pc = call.pc /\ Woken.n = call.n /\ Woken.method = call.method
           /\ Woken.fudging = call.fudging /\ Woken.original = call.original
           /\ Woken.result = call.result /\ Woken.about = call.about
           /\ Answered(n) \in CallSet /\ Answered(n).heard = (call.heard \/ n = call.n)
           /\ Answered(n).woken = (call.woken \/ h.event = call.n)
           /\ Answered(n).pc = call.pc /\ Answered(n).n = call.n /\ Answered(n).method = call.method
           /\ Answered(n).fudging = call.fudging /\ Answered(n).original = call.original
           /\ Answered(n).result = call.result /\ Answered(n).about = call.about
<1>1. /\ Woken \in CallSet /\ Woken.heard = call.heard
      /\ Woken.woken = (call.woken \/ h.event = call.n)
      /\ Woken.pc = call.pc /\ Woken.n = call.n /\ Woken.method = call.method
      /\ Woken.fudging = call.fudging /\ Woken.original = call.original
      /\ Woken.result = call.result /\ Woken.about = call.about
  BY DEF Woken, CallSet
<1> DEFINE w == Woken
           b == w.heard \/ n = call.n
<1>2. Answered(n) = [w EXCEPT !.heard = b] /\ b \in BOOLEAN
  BY <1>1 DEF Answered, CallSet
<1>3. w \in CallSet
  BY <1>1
<1>4. /\ Answered(n) \in CallSet /\ Answered(n).heard = b
      /\ Answered(n).woken = w.woken
      /\ Answered(n).pc = w.pc /\ Answered(n).n = w.n /\ Answered(n).method = w.method
      /\ Answered(n).fudging = w.fudging /\ Answered(n).original = w.original
      /\ Answered(n).result = w.result /\ Answered(n).about = w.about
  <2> HIDE DEF w, b
  <2> QED
    BY <1>2, <1>3 DEF CallSet
<1> QED
  BY <1>1, <1>4

\* The handler of a new session.
LEMMA NewHandlerDoes ==
    /\ NewHandler \in HandlerSet /\ NewHandler.made /\ NewHandler.event = 0
    /\ ~NewHandler.user /\ ~NewHandler.authenticated
  BY Bounds DEF NewHandler, HandlerSet

\* A moved caller.
LEMMA PlacedDoes ==
    ASSUME call \in CallSet,
           NEW place \in {"idle", "poll", "made", "sent", "wait", "event", "except", "fudge"}
    PROVE  LET x == [call EXCEPT !.pc = place]
           IN  /\ x \in CallSet /\ x.pc = place
               /\ x.n = call.n /\ x.method = call.method /\ x.fudging = call.fudging
               /\ x.heard = call.heard /\ x.woken = call.woken /\ x.original = call.original
               /\ x.result = call.result /\ x.about = call.about
  BY DEF CallSet

\* What the server's state becomes with a verdict.
LEMMA JudgedDoes ==
    ASSUME s \in ServerSet, NEW user \in Usernames \cup {Nobody}, NEW n \in Numbers,
           NEW result \in Results
    PROVE  LET j == Judged(user, n, result)
           IN  /\ j \in ServerSet /\ j.user = user /\ j.opened = s.opened
               /\ j.authenticated = (s.authenticated \/ result = "AUTH_SUCCESSFUL")
               /\ j.compressed = IF result = "AUTH_SUCCESSFUL" /\ Delayed THEN s.compressed + 1
                                                                         ELSE s.compressed
               /\ j.said[n] = result
               /\ \A k \in Numbers : k # n => j.said[k] = s.said[k]
<1> DEFINE f == IF result = "AUTH_FAILED" THEN s.fails + 1 ELSE s.fails
           g == result = "AUTH_SUCCESSFUL"
           aut == s.authenticated \/ g
           gra == IF g THEN user ELSE s.grant
           cmp == IF g /\ Delayed THEN s.compressed + 1 ELSE s.compressed
           act == f < MaxFailures
           sd == [s.said EXCEPT ![n] = result]
<1>1. Judged(user, n, result) =
        [s EXCEPT !.user = user, !.fails = f, !.authenticated = aut, !.grant = gra,
                  !.compressed = cmp, !.active = act, !.said = sd]
  BY DEF Judged, ServerSet
<1>2. f \in Nat /\ cmp \in Nat /\ MaxFailures \in Nat
  BY AuthAssumption DEF ServerSet
<1>3. aut \in BOOLEAN /\ act \in BOOLEAN
  BY DEF ServerSet
<1>4. gra \in Usernames \cup {Nobody}
  BY DEF ServerSet
<1>5. /\ sd \in [Numbers -> Results \cup {"nothing"}] /\ sd[n] = result
      /\ \A k \in Numbers : k # n => sd[k] = s.said[k]
  BY DEF ServerSet
<1> HIDE DEF f, g, aut, gra, cmp, act, sd
<1>6. /\ Judged(user, n, result) \in ServerSet /\ Judged(user, n, result).user = user
      /\ Judged(user, n, result).opened = s.opened /\ Judged(user, n, result).authenticated = aut
      /\ Judged(user, n, result).compressed = cmp /\ Judged(user, n, result).said = sd
  BY <1>1, <1>2, <1>3, <1>4, <1>5 DEF ServerSet
<1> QED
  BY <1>5, <1>6 DEF aut, g, cmp

-----------------------------------------------------------------------------
(* What the steps of the user thread do                                     *)

Sound == TransportsOK /\ Counted

\* The caller's state but for where it is, its result and its original exception.
SameAttempt == call'.n = call.n /\ call'.heard = call.heard /\ call'.woken = call.woken

\* An attempt begins, to fudge or not.
Begins(fudging) ==
    /\ c.active /\ UNCHANGED <<flavour, c, s, toClient, abandoned, garbled>>
    /\ call'.n = call.n + 1 /\ ~call'.woken /\ ~call'.heard /\ call'.fudging = fudging
    /\ call'.original = call.original /\ call'.result = call.result /\ call'.about = call.about
    /\ \/ /\ flavour = "Transport" /\ h' = NewHandler
          /\ call'.pc = "made" /\ toServer' = toServer
       \/ /\ flavour = "ServiceRequesting" /\ h' = h /\ c.accepted
          /\ call'.pc = "made" /\ toServer' = toServer
       \/ /\ flavour = "ServiceRequesting" /\ h' = h /\ ~c.accepted /\ call'.pc = "poll"
          /\ toServer' = Append(toServer, Message("service_request", call.n + 1))

\* A call ends, with what r or the exception of the password's attempt says.
Ends(r) ==
    /\ SameAttempt /\ call'.pc = "idle" /\ ~call'.fudging
    /\ UNCHANGED <<flavour, s, toClient, garbled>>
    /\ \/ /\ call.fudging /\ r.raised
          /\ call'.result = call.original /\ call'.about = call.n - 1
       \/ /\ ~(call.fudging /\ r.raised /\ r.kind \notin NotSSHException)
          /\ call'.result = r /\ call'.about = call.n

\* A call goes on to another place.
Moves(place) ==
    /\ SameAttempt /\ call'.pc = place /\ call'.fudging = call.fudging
    /\ call'.result = call.result /\ call'.about = call.about
    /\ UNCHANGED <<flavour, s, toClient, garbled>>

\* Attempt, for a record that says what is attempted.
LEMMA AttemptDoes ==
    ASSUME Sound, NEW begun \in CallSet, begun.n = call.n, call.n + 1 \in Numbers,
           begun.original = call.original, begun.result = call.result, begun.about = call.about,
           Attempt(begun), UNCHANGED <<flavour, c, s, toClient, abandoned, garbled>>
    PROVE  Begins(begun.fudging) /\ TransportsOK' /\ call'.method = begun.method
<1> DEFINE called == [begun EXCEPT !.n = @ + 1, !.woken = FALSE, !.heard = FALSE]
<1>1. /\ called \in CallSet /\ called.n = call.n + 1 /\ ~called.woken /\ ~called.heard
      /\ called.fudging = begun.fudging /\ called.method = begun.method
      /\ called.original = call.original /\ called.result = call.result
      /\ called.about = call.about
  BY DEF CallSet
<1>2. c.active /\ (AttemptNew(called) \/ AttemptEnsured(called))
  BY DEF Attempt
<1> HIDE DEF called
<1>3. ASSUME NEW place \in {"made", "poll"}, call' = [called EXCEPT !.pc = place]
      PROVE  /\ call' \in CallSet /\ call'.pc = place
             /\ call'.n = call.n + 1 /\ ~call'.woken /\ ~call'.heard
             /\ call'.fudging = begun.fudging /\ call'.method = begun.method
             /\ call'.original = call.original /\ call'.result = call.result
             /\ call'.about = call.about
  BY <1>1, <1>3 DEF CallSet
<1>4. /\ c \in ClientSet /\ h \in HandlerSet /\ toServer \in Seq(Requests)
      /\ TransportsOK
  BY DEF Sound, TransportsOK
<1>5. CASE AttemptNew(called)
  <2>1. call' = [called EXCEPT !.pc = "made"] /\ h' = NewHandler /\ toServer' = toServer
        /\ flavour = "Transport"
    BY <1>5 DEF AttemptNew
  <2> QED
    BY <1>2, <1>3, <1>4, <2>1, NewHandlerDoes DEF Begins, TransportsOK
<1>6. CASE AttemptEnsured(called) /\ c.accepted
  <2>1. call' = [called EXCEPT !.pc = "made"] /\ h' = h /\ toServer' = toServer
        /\ flavour = "ServiceRequesting"
    BY <1>6 DEF AttemptEnsured
  <2> QED
    BY <1>2, <1>3, <1>4, <1>6, <2>1 DEF Begins, TransportsOK
<1>7. CASE AttemptEnsured(called) /\ ~c.accepted
  <2>1. /\ call' = [called EXCEPT !.pc = "poll"] /\ h' = h
        /\ toServer' = Append(toServer, Message("service_request", call.n + 1))
        /\ flavour = "ServiceRequesting"
    BY <1>7, <1>1 DEF AttemptEnsured, SendServer
  <2>2. Message("service_request", call.n + 1) \in Requests
    BY <1>4, MessageDoes
  <2>3. toServer' \in Seq(Requests)
    BY <1>4, <2>1, <2>2, SentMore
  <2> QED
    BY <1>2, <1>3, <1>4, <1>7, <2>1, <2>3 DEF Begins, TransportsOK
<1> QED
  BY <1>2, <1>5, <1>6, <1>7

\* A call of the program.
LEMMA CallDoes ==
    ASSUME Sound, NEW method \in Methods, NEW key \in Keys, NEW fallback \in BOOLEAN,
           NEW async \in BOOLEAN, Call(method, key, fallback, async)
    PROVE  Sound' /\ Begins(FALSE) /\ call.pc = "idle" /\ flavour # "Foreign"
<1> DEFINE begun == [call EXCEPT !.method = method, !.key = key, !.fallback = fallback,
                                 !.async = async, !.fudging = FALSE]
<1>1. call \in CallSet /\ call.n \in Nat /\ MaxAttempts \in Nat
  BY Bounds DEF Sound, TransportsOK, CallSet
<1>2. /\ begun \in CallSet /\ begun.n = call.n /\ begun.fudging = FALSE
      /\ begun.original = call.original /\ begun.result = call.result
      /\ begun.about = call.about
  BY <1>1 DEF CallSet
<1>3. /\ flavour # "Foreign" /\ call.pc = "idle" /\ call.n < MaxAttempts /\ Attempt(begun)
      /\ UNCHANGED <<flavour, c, s, toClient, abandoned, garbled>>
  BY DEF Call
<1>4. call.n + 1 \in Numbers /\ call.n + 1 <= MaxAttempts /\ call.n + 1 >= 1
  BY <1>1, <1>3, Bounds
<1> HIDE DEF begun
<1>5. Begins(FALSE) /\ TransportsOK'
  BY <1>2, <1>3, <1>4, AttemptDoes
<1>6. Counted'
  BY <1>4, <1>5 DEF Begins, Counted
<1> QED
  BY <1>3, <1>5, <1>6 DEF Sound

\* The second attempt of auth_password.
LEMMA FudgeDoes ==
    ASSUME Sound, Fudge
    PROVE  Sound' /\ Begins(TRUE) /\ call.pc = "fudge"
<1> DEFINE begun == [call EXCEPT !.method = "keyboard-interactive", !.fudging = TRUE,
                                 !.async = FALSE]
<1>1. call \in CallSet /\ call.n \in Nat /\ MaxAttempts \in Nat
  BY Bounds DEF Sound, TransportsOK, CallSet
<1>2. /\ begun \in CallSet /\ begun.n = call.n /\ begun.fudging = TRUE
      /\ begun.original = call.original /\ begun.result = call.result
      /\ begun.about = call.about /\ begun.method = "keyboard-interactive"
  BY <1>1 DEF CallSet, Methods
<1>3. /\ call.pc = "fudge" /\ Attempt(begun)
      /\ UNCHANGED <<flavour, c, s, toClient, abandoned, garbled>>
  BY DEF Fudge
<1>4. call.n >= 1 /\ call.n <= MaxAttempts
  BY <1>3 DEF Sound, Counted
<1>5. call.n + 1 \in Numbers /\ call.n + 1 >= 2
  BY <1>1, <1>4, Bounds
<1> HIDE DEF begun
<1>6. Begins(TRUE) /\ TransportsOK' /\ call'.method = "keyboard-interactive"
  BY <1>2, <1>3, <1>5, AttemptDoes
<1>7. call'.pc \in {"made", "poll"} /\ call'.n = call.n + 1 /\ call'.fudging
  BY <1>6 DEF Begins
<1>8. Counted'
  BY <1>1, <1>5, <1>6, <1>7 DEF Counted
<1> QED
  BY <1>3, <1>6, <1>8 DEF Sound

\* A call that ends leaves good records.
LEMMA EndsDoes ==
    ASSUME Sound, NEW r \in ResultSet, call' = End(r),
           UNCHANGED <<flavour, s, toClient, garbled>>
    PROVE  Ends(r) /\ call' \in CallSet /\ Counted'
<1>1. call \in CallSet /\ Counted
  BY DEF Sound, TransportsOK
<1>2. Ends(r) /\ call' \in CallSet
  BY <1>1, EndDoes DEF Ends, SameAttempt
<1> QED
  BY <1>1, <1>2 DEF Ends, Counted

\* A call that goes on does too.
LEMMA MovesDoes ==
    ASSUME Sound, NEW place \in {"made", "sent", "wait", "event", "except"},
           call' = [call EXCEPT !.pc = place],
           call.pc \notin {"idle", "fudge"}, UNCHANGED <<flavour, s, toClient, garbled>>
    PROVE  /\ Moves(place) /\ call'.original = call.original /\ call' \in CallSet /\ Counted'
<1>1. call \in CallSet /\ Counted
  BY DEF Sound, TransportsOK
<1>2. /\ Moves(place) /\ call'.original = call.original /\ call' \in CallSet
      /\ call'.method = call.method
  BY <1>1, PlacedDoes DEF Moves, SameAttempt
<1> QED
  BY <1>1, <1>2 DEF Moves, SameAttempt, Counted

\* The exceptions a call may end with.
LEMMA RaisedDoes ==
    \A kind \in Kinds : /\ Raised(kind) \in ResultSet /\ Raised(kind).raised
                        /\ Raised(kind).kind = kind
  BY DEF Raised, ResultSet

\* A call concludes with e, or goes on to fudge after it.
Concluded(e) ==
    \/ Ends(e)
    \/ /\ Moves("fudge") /\ call'.original = e
       /\ e.raised /\ e.kind = "badtype" /\ ~call.fudging

LEMMA ConcludesDoes ==
    ASSUME Sound, NEW e \in ResultSet, call' = Concludes(e), call.pc \notin {"idle", "fudge"},
           UNCHANGED <<flavour, s, toClient, garbled>>
    PROVE  Concluded(e) /\ call' \in CallSet /\ Counted'
<1> DEFINE fudges == /\ e.raised /\ e.kind = "badtype" /\ call.method = "password" /\ call.fallback
                     /\ "keyboard-interactive" \in e.allowed
<1>1. call \in CallSet /\ Counted
  BY DEF Sound, TransportsOK
<1>2. CASE fudges
  <2>1. call' = [call EXCEPT !.pc = "fudge", !.original = e]
    BY <1>2 DEF Concludes
  <2>2. /\ call' \in CallSet /\ call'.original = e /\ call'.method = call.method
        /\ Moves("fudge")
    BY <1>1, <2>1 DEF CallSet, Moves, SameAttempt
  <2>3. ~call.fudging
    BY <1>1, <1>2 DEF Counted
  <2>4. Counted'
    BY <1>1, <2>2, <2>3 DEF Counted, Moves, SameAttempt
  <2> QED
    BY <1>2, <2>2, <2>3, <2>4 DEF Concluded
<1>3. CASE ~fudges
  <2>1. call' = End(e)
    BY <1>3 DEF Concludes
  <2> QED
    BY <2>1, EndsDoes DEF Concluded
<1> QED
  BY <1>2, <1>3

\* get_exception clears what was saved.
LEMMA GetExceptionDoes ==
    ASSUME Sound, c' = GetException
    PROVE  /\ c' \in ClientSet /\ c'.active = c.active /\ c'.thread = c.thread
           /\ c'.accepted = c.accepted /\ c'.compressed = c.compressed
           /\ c'.saved.kind = "none" /\ c.saved \in Saved
<1>1. NoException \in Saved /\ NoException.kind = "none"
  BY DEF NoException, Saved, Kinds
<1>2. c \in ClientSet
  BY DEF Sound, TransportsOK
<1> QED
  BY <1>1, <1>2 DEF GetException, ClientSet

\* A call on a transport that has ended.
LEMMA CallRefusedDoes ==
    ASSUME Sound, CallRefused
    PROVE  /\ Sound' /\ Ends(Raised("ssh")) /\ UNCHANGED <<c, h, toServer, abandoned>>
           /\ call.pc = "idle" /\ ~c.active /\ flavour # "Foreign"
<1>1. Raised("ssh") \in ResultSet
  BY RaisedDoes DEF Kinds
<1>2. /\ call' = End(Raised("ssh")) /\ call.pc = "idle" /\ ~c.active /\ flavour # "Foreign"
      /\ UNCHANGED <<flavour, c, h, s, toServer, toClient, abandoned, garbled>>
  BY DEF CallRefused
<1>3. Ends(Raised("ssh")) /\ call' \in CallSet /\ Counted'
  BY <1>1, <1>2, EndsDoes
<1> QED
  BY <1>2, <1>3 DEF Sound, TransportsOK

\* ensure_session has seen that the service was accepted.
LEMMA SessionEnsuredDoes ==
    ASSUME Sound, SessionEnsured
    PROVE  /\ Sound' /\ Moves("made") /\ UNCHANGED <<c, toServer, abandoned>>
           /\ h' = NewHandler /\ call'.original = call.original
           /\ call.pc = "poll" /\ c.accepted
<1>1. /\ call' = [call EXCEPT !.pc = "made"] /\ call.pc = "poll" /\ c.accepted /\ h' = NewHandler
      /\ UNCHANGED <<flavour, c, s, toServer, toClient, abandoned, garbled>>
  BY DEF SessionEnsured
<1>2. Moves("made") /\ call'.original = call.original /\ call' \in CallSet /\ Counted'
  BY <1>1, MovesDoes
<1> QED
  BY <1>1, <1>2, NewHandlerDoes DEF Sound, TransportsOK

\* AuthHandler's auth_ method.
LEMMA RequestServiceDoes ==
    ASSUME Sound, RequestService
    PROVE  /\ Sound' /\ c' = c /\ flavour = "Transport" /\ call.pc = "made"
           /\ h'.event = call.n /\ h'.made = h.made /\ h'.authenticated = h.authenticated
           /\ \/ /\ c.active /\ toServer' = Append(toServer, Message("service_request", call.n))
                 /\ \/ Ends(Returned("pending", {})) /\ abandoned'
                    \/ Moves("wait") /\ abandoned' = abandoned /\ call'.original = call.original
              \/ /\ ~c.active /\ toServer' = toServer /\ abandoned' = abandoned
                 /\ Ends(Raised("other"))
<1>1. /\ call.pc = "made" /\ flavour = "Transport" /\ UNCHANGED <<flavour, c, s, toClient, garbled>>
      /\ h' = [h EXCEPT !.event = call.n, !.method = call.method, !.user = TRUE,
                        !.strict = call.fudging]
  BY DEF RequestService
<1>2. /\ TransportsOK /\ h \in HandlerSet /\ c \in ClientSet /\ toServer \in Seq(Requests)
      /\ call.n \in Numbers /\ call.method \in Methods /\ call.fudging \in BOOLEAN
      /\ abandoned \in BOOLEAN /\ call.async \in BOOLEAN
  BY DEF Sound, TransportsOK, CallSet
<1>3. /\ h' \in HandlerSet /\ h'.event = call.n /\ h'.made = h.made
      /\ h'.authenticated = h.authenticated
  BY <1>1, <1>2 DEF HandlerSet
<1>4. CASE c.active
  <2>1. /\ toServer' = Append(toServer, Message("service_request", call.n))
        /\ call' = IF call.async THEN End(Returned("pending", {})) ELSE [call EXCEPT !.pc = "wait"]
        /\ abandoned' = (abandoned \/ call.async)
    BY <1>4 DEF RequestService, SendServer
  <2>2. toServer' \in Seq(Requests)
    BY <1>2, <2>1, MessageDoes, SentMore
  <2>3. CASE call.async
    <3>1. Returned("pending", {}) \in ResultSet
      BY DEF Returned, ResultSet, Kinds
    <3>2. Ends(Returned("pending", {})) /\ call' \in CallSet /\ Counted'
      BY <1>1, <2>1, <2>3, <3>1, EndsDoes
    <3> QED
      BY <1>1, <1>2, <1>3, <1>4, <2>1, <2>2, <2>3, <3>2 DEF Sound, TransportsOK
  <2>4. CASE ~call.async
    <3>1. Moves("wait") /\ call'.original = call.original /\ call' \in CallSet /\ Counted'
      BY <1>1, <2>1, <2>4, MovesDoes
    <3>2. abandoned' = abandoned
      BY <1>2, <2>1, <2>4
    <3> QED
      BY <1>1, <1>2, <1>3, <1>4, <2>1, <2>2, <2>4, <3>1, <3>2 DEF Sound, TransportsOK
  <2> QED
    BY <2>3, <2>4
<1>5. CASE ~c.active
  <2>1. call' = End(Raised("other")) /\ toServer' = toServer /\ abandoned' = abandoned
    BY <1>5 DEF RequestService
  <2>2. Raised("other") \in ResultSet
    BY RaisedDoes DEF Kinds
  <2>3. Ends(Raised("other")) /\ call' \in CallSet /\ Counted'
    BY <1>1, <2>1, <2>2, EndsDoes
  <2> QED
    BY <1>1, <1>2, <1>3, <1>5, <2>1, <2>3 DEF Sound, TransportsOK
<1> QED
  BY <1>4, <1>5

\* AuthOnlyHandler's.
LEMMA RequestAuthDoes ==
    ASSUME Sound, RequestAuth
    PROVE  /\ Sound' /\ flavour = "ServiceRequesting" /\ call.pc = "made"
           /\ UNCHANGED <<c, abandoned>>
           /\ h'.event = h.event /\ h'.made = h.made /\ h'.authenticated = h.authenticated
           /\ \/ /\ c.active /\ toServer' = Append(toServer, UserauthRequest(call.method))
                 /\ Moves("sent") /\ call'.original = call.original
              \/ /\ toServer' = toServer /\ \E kind \in {"ssh", "other"} : Ends(Raised(kind))
<1>1. /\ call.pc = "made" /\ flavour = "ServiceRequesting"
      /\ UNCHANGED <<flavour, c, s, toClient, abandoned, garbled>>
  BY DEF RequestAuth
<1>2. /\ TransportsOK /\ h \in HandlerSet /\ c \in ClientSet /\ toServer \in Seq(Requests)
      /\ call \in CallSet /\ call.method \in Methods /\ call.fudging \in BOOLEAN
  BY DEF Sound, TransportsOK, CallSet
<1>3. ASSUME NEW kind \in {"ssh", "other"}, call' = End(Raised(kind))
      PROVE  Ends(Raised(kind)) /\ call' \in CallSet /\ Counted'
  <2>1. Raised(kind) \in ResultSet
    BY RaisedDoes DEF Kinds
  <2> QED
    BY <1>1, <1>3, <2>1, EndsDoes
<1>4. CASE NoAlgorithm(call.method)
  <2>1. call' = End(Raised("ssh")) /\ h' = h /\ toServer' = toServer
    BY <1>4 DEF RequestAuth
  <2> QED
    BY <1>1, <1>2, <1>3, <2>1 DEF Sound, TransportsOK
<1>5. CASE ~NoAlgorithm(call.method)
  <2>1. h' = [h EXCEPT !.method = call.method, !.user = TRUE, !.strict = call.fudging]
    BY <1>5 DEF RequestAuth
  <2>2. /\ h' \in HandlerSet /\ h'.event = h.event /\ h'.made = h.made
        /\ h'.authenticated = h.authenticated
    BY <1>2, <2>1 DEF HandlerSet
  <2>3. CASE Finishes(call.method) /\ c.active
    <3>1. /\ toServer' = Append(toServer, UserauthRequest(call.method))
          /\ call' = [call EXCEPT !.pc = "sent"]
      BY <1>5, <2>3 DEF RequestAuth, SendServer
    <3>2. toServer' \in Seq(Requests)
      BY <1>2, <3>1, UserauthRequestDoes, SentMore
    <3>3. Moves("sent") /\ call'.original = call.original /\ call' \in CallSet /\ Counted'
      BY <1>1, <3>1, MovesDoes
    <3> QED
      BY <1>1, <1>2, <2>2, <2>3, <3>1, <3>2, <3>3 DEF Sound, TransportsOK
  <2>4. CASE ~(Finishes(call.method) /\ c.active)
    <3>1. call' = End(Raised("other")) /\ toServer' = toServer
      BY <1>5, <2>4 DEF RequestAuth
    <3> QED
      BY <1>1, <1>2, <1>3, <2>2, <3>1 DEF Sound, TransportsOK
  <2> QED
    BY <2>3, <2>4
<1> QED
  BY <1>4, <1>5

\* Its event.
LEMMA NewEventDoes ==
    ASSUME Sound, NewEvent
    PROVE  /\ Sound' /\ Moves("wait") /\ UNCHANGED <<c, toServer, abandoned>>
           /\ call'.original = call.original /\ call.pc = "sent"
           /\ h'.event = call.n /\ h'.made = h.made /\ h'.authenticated = h.authenticated
<1>1. /\ call' = [call EXCEPT !.pc = "wait"] /\ call.pc = "sent"
      /\ h' = [h EXCEPT !.event = call.n]
      /\ UNCHANGED <<flavour, c, s, toServer, toClient, abandoned, garbled>>
  BY DEF NewEvent
<1>2. h \in HandlerSet /\ call.n \in Numbers /\ TransportsOK
  BY DEF Sound, TransportsOK, CallSet
<1>3. /\ h' \in HandlerSet /\ h'.event = call.n /\ h'.made = h.made
      /\ h'.authenticated = h.authenticated
  BY <1>1, <1>2 DEF HandlerSet
<1>4. Moves("wait") /\ call'.original = call.original /\ call' \in CallSet /\ Counted'
  BY <1>1, MovesDoes
<1> QED
  BY <1>1, <1>2, <1>3, <1>4 DEF Sound, TransportsOK

\* wait_for_response finds that the transport has ended.
LEMMA WaitFindsEndDoes ==
    ASSUME Sound, WaitFindsEnd
    PROVE  /\ Sound' /\ UNCHANGED <<h, toServer, abandoned>> /\ call.pc = "wait" /\ ~c.active
           /\ c'.active = c.active /\ c'.thread = c.thread /\ c'.accepted = c.accepted
           /\ c'.compressed = c.compressed /\ c'.saved.kind = "none"
           /\ \E r \in ResultSet : /\ Concluded(r) /\ r.raised /\ r.kind # "none"
                                  /\ r.kind \in {c.saved.kind, "shutdown"}
<1> DEFINE r == [kind |-> IF c.saved.kind \in {"none", "eof"} THEN "shutdown" ELSE c.saved.kind,
                 raised |-> TRUE, allowed |-> c.saved.allowed]
<1>1. /\ call.pc = "wait" /\ ~c.active /\ c' = GetException /\ call' = Concludes(r)
      /\ UNCHANGED <<flavour, h, s, toServer, toClient, abandoned, garbled>>
  BY DEF WaitFindsEnd
<1>2. /\ c' \in ClientSet /\ c'.active = c.active /\ c'.thread = c.thread
      /\ c'.accepted = c.accepted /\ c'.compressed = c.compressed
      /\ c'.saved.kind = "none" /\ c.saved \in Saved
  BY <1>1, GetExceptionDoes
<1>3. /\ r \in ResultSet /\ r.raised /\ r.kind # "none"
      /\ r.kind \in {c.saved.kind, "shutdown"}
  <2>1. c.saved.kind \in Kinds /\ c.saved.allowed \in SUBSET Methods
    BY <1>2 DEF Saved
  <2> QED
    BY <2>1 DEF ResultSet, Kinds
<1> HIDE DEF r
<1>4. Concluded(r) /\ call' \in CallSet /\ Counted'
  BY <1>1, <1>3, ConcludesDoes
<1>5. Sound'
  BY <1>1, <1>2, <1>4 DEF Sound, TransportsOK
<1> QED
  BY <1>1, <1>2, <1>3, <1>4, <1>5

\* It finds the transport active.
LEMMA WaitFindsActiveDoes ==
    ASSUME Sound, WaitFindsActive
    PROVE  /\ Sound' /\ Moves("event") /\ UNCHANGED <<c, h, toServer, abandoned>>
           /\ call'.original = call.original /\ call.pc = "wait" /\ c.active
<1>1. /\ call' = [call EXCEPT !.pc = "event"] /\ call.pc = "wait" /\ c.active
      /\ UNCHANGED <<flavour, c, h, s, toServer, toClient, abandoned, garbled>>
  BY DEF WaitFindsActive
<1>2. Moves("event") /\ call'.original = call.original /\ call' \in CallSet /\ Counted'
  BY <1>1, MovesDoes
<1> QED
  BY <1>1, <1>2 DEF Sound, TransportsOK

\* It finds its event set.
LEMMA EventSetDoes ==
    ASSUME Sound, EventSet
    PROVE  /\ Sound' /\ UNCHANGED <<c, h, toServer, abandoned>>
           /\ call.pc = "event" /\ call.woken
           /\ \/ h.authenticated /\ Ends(Returned("success", {}))
              \/ ~h.authenticated /\ Moves("except") /\ call'.original = call.original
<1>1. /\ call.pc = "event" /\ call.woken
      /\ UNCHANGED <<flavour, c, h, s, toServer, toClient, abandoned, garbled>>
  BY DEF EventSet
<1>2. CASE h.authenticated
  <2>1. call' = End(Returned("success", {}))
    BY <1>2 DEF EventSet, IsAuthenticated
  <2>2. Returned("success", {}) \in ResultSet
    BY DEF Returned, ResultSet, Kinds
  <2>3. Ends(Returned("success", {})) /\ call' \in CallSet /\ Counted'
    BY <1>1, <2>1, <2>2, EndsDoes
  <2> QED
    BY <1>1, <1>2, <2>3 DEF Sound, TransportsOK
<1>3. CASE ~h.authenticated
  <2>1. call' = [call EXCEPT !.pc = "except"]
    BY <1>3 DEF EventSet, IsAuthenticated
  <2>2. Moves("except") /\ call'.original = call.original /\ call' \in CallSet /\ Counted'
    BY <1>1, <2>1, MovesDoes
  <2> QED
    BY <1>1, <1>3, <2>2 DEF Sound, TransportsOK
<1> QED
  BY <1>2, <1>3

\* It raises what was saved.
LEMMA RaiseSavedDoes ==
    ASSUME Sound, RaiseSaved
    PROVE  /\ Sound' /\ UNCHANGED <<h, toServer, abandoned>> /\ call.pc = "except"
           /\ c'.active = c.active /\ c'.thread = c.thread /\ c'.accepted = c.accepted
           /\ c'.compressed = c.compressed /\ c'.saved.kind = "none"
           /\ \E r \in ResultSet :
                 /\ Concluded(r)
                 /\ c.saved.kind = "none" => r.kind = "failed" /\ r.raised
                 /\ c.saved.kind # "none" =>
                       r.kind = c.saved.kind /\ r.raised = (c.saved.kind # "partial")
<1> DEFINE r == IF c.saved.kind = "none" THEN Raised("failed")
                ELSE [kind |-> c.saved.kind, raised |-> c.saved.kind # "partial",
                      allowed |-> c.saved.allowed]
<1>1. /\ call.pc = "except" /\ c' = GetException /\ call' = Concludes(r)
      /\ UNCHANGED <<flavour, h, s, toServer, toClient, abandoned, garbled>>
  BY DEF RaiseSaved
<1>2. /\ c' \in ClientSet /\ c'.active = c.active /\ c'.thread = c.thread
      /\ c'.accepted = c.accepted /\ c'.compressed = c.compressed
      /\ c'.saved.kind = "none" /\ c.saved \in Saved
  BY <1>1, GetExceptionDoes
<1>3. /\ r \in ResultSet
      /\ c.saved.kind = "none" => r.kind = "failed" /\ r.raised
      /\ c.saved.kind # "none" => r.kind = c.saved.kind /\ r.raised = (c.saved.kind # "partial")
  <2>1. c.saved.kind \in Kinds /\ c.saved.allowed \in SUBSET Methods
    BY <1>2 DEF Saved
  <2>2. (c.saved.kind # "partial") \in BOOLEAN
    OBVIOUS
  <2>3. CASE c.saved.kind = "none"
    BY <2>3, RaisedDoes DEF Kinds
  <2>4. CASE c.saved.kind # "none"
    BY <2>1, <2>2, <2>4 DEF ResultSet
  <2> QED
    BY <2>3, <2>4
<1> HIDE DEF r
<1>4. Concluded(r) /\ call' \in CallSet /\ Counted'
  BY <1>1, <1>3, ConcludesDoes
<1>5. Sound'
  BY <1>1, <1>2, <1>4 DEF Sound, TransportsOK
<1> QED
  BY <1>1, <1>2, <1>3, <1>4, <1>5

\* It gives up.
LEMMA WaitTimesOutDoes ==
    ASSUME Sound, WaitTimesOut
    PROVE  Sound' /\ abandoned' /\ Ends(Raised("timeout")) /\ UNCHANGED <<c, h, toServer>>
<1>1. /\ call' = End(Raised("timeout")) /\ abandoned' = TRUE
      /\ UNCHANGED <<flavour, c, h, s, toServer, toClient, garbled>>
  BY DEF WaitTimesOut
<1>2. Raised("timeout") \in ResultSet
  BY RaisedDoes DEF Kinds
<1>3. Ends(Raised("timeout")) /\ call' \in CallSet /\ Counted'
  BY <1>1, <1>2, EndsDoes
<1> QED
  BY <1>1, <1>3 DEF Sound, TransportsOK

\* The transport has ended before the attempt to fudge.
LEMMA FudgeRefusedDoes ==
    ASSUME Sound, FudgeRefused
    PROVE  /\ Sound' /\ Ends(call.original) /\ UNCHANGED <<c, h, toServer, abandoned>>
           /\ call.pc = "fudge" /\ ~c.active
<1>1. /\ call' = End(call.original) /\ call.pc = "fudge" /\ ~c.active
      /\ UNCHANGED <<flavour, c, h, s, toServer, toClient, abandoned, garbled>>
  BY DEF FudgeRefused
<1>2. call.original \in ResultSet
  BY DEF Sound, TransportsOK, CallSet
<1>3. Ends(call.original) /\ call' \in CallSet /\ Counted'
  BY <1>1, <1>2, EndsDoes
<1> QED
  BY <1>1, <1>3 DEF Sound, TransportsOK

-----------------------------------------------------------------------------
(* What the steps of the client's transport thread do                       *)

\* The user thread is where it was.
SamePlace ==
    /\ call'.pc = call.pc /\ call'.n = call.n /\ call'.fudging = call.fudging
    /\ call'.original = call.original /\ call'.result = call.result /\ call'.about = call.about

\* The thread leaves its loop with an exception; nobody knows yet.
Dies(kind) ==
    /\ c.active /\ c'.active = c.active /\ c'.thread = "raised"
    /\ c'.accepted = c.accepted /\ c'.compressed = c.compressed /\ c'.saved.kind = kind
    /\ UNCHANGED <<flavour, h, call, abandoned, garbled>>

\* What follows, and close(): active is cleared, or the caller woken if its event is known.
Stops ==
    /\ ~c'.active \/ (c.thread = "aborting" /\ c'.active = c.active)
    /\ c'.accepted = c.accepted /\ c'.saved.kind \in {c.saved.kind, "eof"}
    /\ SamePlace /\ call'.heard = call.heard /\ (call.woken => call'.woken)
    /\ UNCHANGED <<flavour, h, s, toServer, toClient, abandoned, garbled>>

\* A waking of the caller keeps the counts.
LEMMA SamePlaceCounted ==
    ASSUME Counted, SamePlace, call'.method = call.method
    PROVE  Counted'
  BY DEF Counted, SamePlace

\* What the thread saves.
LEMMA ClientDiesDoes ==
    ASSUME Sound, NEW e \in Saved, c.active, ClientDies(e),
           UNCHANGED <<flavour, abandoned, garbled>>
    PROVE  Dies(e.kind) /\ c' \in ClientSet /\ call' \in CallSet /\ Counted'
<1>1. c \in ClientSet /\ call \in CallSet /\ Counted
  BY DEF Sound, TransportsOK
<1>2. c' = [c EXCEPT !.saved = e, !.thread = "raised"] /\ UNCHANGED <<h, call, toServer>>
  BY DEF ClientDies
<1>3. /\ c' \in ClientSet /\ c'.active = c.active /\ c'.thread = "raised"
      /\ c'.accepted = c.accepted /\ c'.compressed = c.compressed /\ c'.saved = e
  BY <1>1, <1>2 DEF ClientSet
<1>4. Counted'
  BY <1>1, <1>2 DEF Counted
<1> QED
  BY <1>1, <1>2, <1>3, <1>4 DEF Dies

\* What a transport may die of.
LEMMA ExceptionDoes ==
    \A kind \in Kinds : Exception(kind) \in Saved /\ Exception(kind).kind = kind
  BY DEF Exception, Saved

\* The end of run after its loop, and close().
LEMMA StopsDoes ==
    ASSUME Sound, RunStops \/ RunAborts \/ RunClosed \/ Close
    PROVE  Sound' /\ flavour # "Foreign" /\ Stops
<1>1. TransportsOK /\ c \in ClientSet /\ call \in CallSet /\ Counted
  BY DEF Sound, TransportsOK
<1>2. ASSUME NEW active \in BOOLEAN, NEW thread \in {"runs", "raised", "aborting", "over"},
             NEW saved \in Saved,
             c' = [c EXCEPT !.active = active, !.thread = thread, !.saved = saved]
      PROVE  /\ c' \in ClientSet /\ c'.active = active /\ c'.accepted = c.accepted
             /\ c'.saved = saved
  BY <1>1, <1>2 DEF ClientSet
<1>3. c.saved \in Saved /\ c.active \in BOOLEAN /\ Exception("eof") \in Saved
      /\ Exception("eof").kind = "eof"
      /\ c.thread \in {"runs", "raised", "aborting", "over"}
  BY <1>1, ExceptionDoes DEF ClientSet, Kinds
<1>4. CASE RunAborts
  <2>1. /\ c' = [c EXCEPT !.thread = "over"] /\ call' = Woken /\ c.thread = "aborting"
        /\ flavour # "Foreign"
        /\ UNCHANGED <<flavour, h, s, toServer, toClient, abandoned, garbled>>
    BY <1>4 DEF RunAborts
  <2>2. /\ c' \in ClientSet /\ c'.active = c.active /\ c'.accepted = c.accepted
        /\ c'.saved = c.saved
    BY <1>1, <2>1 DEF ClientSet
  <2>3. h \in HandlerSet /\ call.n \in Numbers
    BY <1>1 DEF TransportsOK, CallSet
  <2>4. /\ call' \in CallSet /\ SamePlace /\ call'.method = call.method
        /\ call'.heard = call.heard /\ (call.woken => call'.woken)
    BY <1>1, <2>1, <2>3, WokenDoes DEF SamePlace
  <2> QED
    BY <1>1, <2>1, <2>2, <2>4, SamePlaceCounted DEF Stops, Sound, TransportsOK
<1>5. CASE RunStops \/ RunClosed \/ Close
  <2>1. flavour # "Foreign"
        /\ UNCHANGED <<flavour, h, call, s, toServer, toClient, abandoned, garbled>>
    BY <1>5 DEF RunStops, RunClosed, Close
  <2>2. c' \in ClientSet /\ ~c'.active /\ c'.accepted = c.accepted
        /\ c'.saved.kind \in {c.saved.kind, "eof"}
    <3>1. CASE Close
      <4>1. c' = [c EXCEPT !.active = FALSE]
        BY <3>1 DEF Close
      <4> QED
        BY <1>1, <4>1 DEF ClientSet
    <3>2. CASE RunStops
      <4> DEFINE over == IF c.active THEN "aborting" ELSE "over"
      <4>1. c' = [c EXCEPT !.active = FALSE, !.thread = over]
        BY <3>2 DEF RunStops
      <4>2. over \in {"runs", "raised", "aborting", "over"}
        OBVIOUS
      <4> HIDE DEF over
      <4> QED
        BY <1>1, <4>1, <4>2 DEF ClientSet
    <3>3. CASE RunClosed
      <4>1. PICK e \in {c.saved, Exception("eof")} :
              ~c.active /\ c' = [c EXCEPT !.saved = e, !.thread = "over"]
        BY <3>3 DEF RunClosed
      <4>2. e \in Saved /\ e.kind \in {c.saved.kind, "eof"}
        BY <1>3, <4>1
      <4>3. c' \in ClientSet /\ c'.active = c.active /\ c'.accepted = c.accepted /\ c'.saved = e
        BY <1>1, <4>1, <4>2 DEF ClientSet
      <4> QED
        BY <4>1, <4>2, <4>3
    <3> QED
      BY <1>5, <3>1, <3>2, <3>3
  <2>3. Counted' /\ SamePlace
    BY <1>1, <2>1 DEF Counted, SamePlace
  <2> QED
    BY <1>1, <2>1, <2>2, <2>3 DEF Stops, Sound, TransportsOK
<1> QED
  BY <1>4, <1>5

\* The connection breaks.
LEMMA ConnectionLostDoes ==
    ASSUME Sound, ConnectionLost
    PROVE  /\ Sound' /\ flavour # "Foreign" /\ Dies("eof") /\ toServer' = <<>> /\ toClient' = <<>>
           /\ s'.user = s.user /\ s'.authenticated = s.authenticated /\ ~s'.active
           /\ s'.compressed = s.compressed /\ s'.opened = s.opened /\ s'.said = s.said
<1>1. /\ c' = [c EXCEPT !.saved = Exception("eof"), !.thread = "raised"]
      /\ s' = [s EXCEPT !.active = FALSE] /\ toServer' = <<>> /\ toClient' = <<>>
      /\ c.active /\ flavour # "Foreign" /\ UNCHANGED <<flavour, h, call, abandoned, garbled>>
  BY DEF ConnectionLost
<1>2. TransportsOK /\ s \in ServerSet /\ c \in ClientSet /\ Counted
  BY DEF Sound, TransportsOK
<1>3. Exception("eof") \in Saved /\ Exception("eof").kind = "eof"
  BY ExceptionDoes DEF Kinds
<1>4. Dies("eof") /\ c' \in ClientSet
  <2>1. /\ c' \in ClientSet /\ c'.active = c.active /\ c'.thread = "raised"
        /\ c'.accepted = c.accepted /\ c'.compressed = c.compressed
        /\ c'.saved = Exception("eof")
    BY <1>1, <1>2, <1>3 DEF ClientSet
  <2> QED
    BY <1>1, <1>3, <2>1 DEF Dies
<1>5. /\ s' \in ServerSet
      /\ s'.user = s.user /\ s'.authenticated = s.authenticated /\ ~s'.active
      /\ s'.compressed = s.compressed /\ s'.opened = s.opened /\ s'.said = s.said
  BY <1>1, <1>2 DEF ServerSet
<1>6. Counted'
  BY <1>1, <1>2 DEF Counted
<1> QED
  BY <1>1, <1>2, <1>4, <1>5, <1>6 DEF Sound, TransportsOK

\* The socket is at its end.
LEMMA ClientEofDoes ==
    ASSUME Sound, ClientEof
    PROVE  /\ Sound' /\ flavour # "Foreign" /\ Dies("eof")
           /\ UNCHANGED <<s, toServer, toClient>>
           /\ ~s.active /\ toClient = <<>>
<1>1. /\ ClientDies(Exception("eof")) /\ flavour # "Foreign" /\ c.active
      /\ ~s.active /\ toClient = <<>>
      /\ UNCHANGED <<flavour, s, toClient, abandoned, garbled>>
  BY DEF ClientEof
<1>2. Exception("eof") \in Saved /\ Exception("eof").kind = "eof"
  BY ExceptionDoes DEF Kinds
<1>3. Dies("eof") /\ c' \in ClientSet /\ call' \in CallSet /\ Counted'
  BY <1>1, <1>2, ClientDiesDoes
<1> QED
  BY <1>1, <1>3 DEF Sound, TransportsOK, ClientDies

\* The client takes a message.
Takes(type) ==
    /\ flavour # "Foreign" /\ c.active /\ c.thread = "runs"
    /\ toClient # <<>> /\ Head(toClient).type = type
    /\ toClient' = Tail(toClient) /\ UNCHANGED <<flavour, s, abandoned, garbled>>

\* What it takes is an answer.
LEMMA TakesDoes ==
    ASSUME Sound, NEW type, ClientTakes(type)
    PROVE  /\ Takes(type) /\ toClient' \in Seq(Answers) /\ Head(toClient) \in Answers
           /\ Head(toClient) \in Sent(toClient) /\ Sent(toClient') \subseteq Sent(toClient)
<1>1. toClient \in Seq(Answers)
  BY DEF Sound, TransportsOK
<1>2. Takes(type)
  BY DEF ClientTakes, Takes
<1> QED
  BY <1>1, <1>2, SentTail DEF Takes

\* ServiceRequestingTransport notes that its service was accepted.
LEMMA ServiceAcceptedDoes ==
    ASSUME Sound, ServiceAccepted
    PROVE  /\ Sound' /\ Takes("service_accept") /\ flavour = "ServiceRequesting"
           /\ c'.active = c.active /\ c'.thread = c.thread /\ c'.accepted
           /\ c'.compressed = c.compressed
           /\ c'.saved = c.saved /\ UNCHANGED <<h, call, toServer>>
<1>1. /\ ClientTakes("service_accept") /\ flavour = "ServiceRequesting"
      /\ c' = [c EXCEPT !.accepted = TRUE] /\ UNCHANGED <<h, call, toServer>>
  BY DEF ServiceAccepted
<1>2. TransportsOK /\ c \in ClientSet /\ Counted
  BY DEF Sound, TransportsOK
<1>3. Takes("service_accept") /\ toClient' \in Seq(Answers)
  BY <1>1, TakesDoes
<1>4. /\ c' \in ClientSet /\ c'.active = c.active /\ c'.thread = c.thread
      /\ c'.accepted /\ c'.compressed = c.compressed
      /\ c'.saved = c.saved
  BY <1>1, <1>2 DEF ClientSet
<1>5. Counted'
  BY <1>1, <1>2 DEF Counted
<1> QED
  BY <1>1, <1>2, <1>3, <1>4, <1>5 DEF Sound, TransportsOK, Takes

\* AuthHandler makes its request, or cannot.
LEMMA ParseServiceAcceptDoes ==
    ASSUME Sound, ParseServiceAccept
    PROVE  /\ Sound' /\ Takes("service_accept") /\ flavour = "Transport"
           /\ \/ toServer' = toServer /\ \E kind \in {"other", "ssh"} : Dies(kind)
              \/ /\ h.user /\ toServer' = Append(toServer, UserauthRequest(h.method))
                 /\ UNCHANGED <<c, h, call>>
<1>1. ClientTakes("service_accept") /\ flavour = "Transport"
  BY DEF ParseServiceAccept
<1>2. /\ TransportsOK /\ c \in ClientSet /\ call \in CallSet /\ h.method \in Methods \cup {""}
      /\ toServer \in Seq(Requests) /\ Counted
  BY DEF Sound, TransportsOK, HandlerSet
<1>3. Takes("service_accept") /\ toClient' \in Seq(Answers)
  BY <1>1, TakesDoes
<1>4. ASSUME NEW kind \in {"other", "ssh"}, ClientDies(Exception(kind))
      PROVE  /\ Dies(kind) /\ c' \in ClientSet /\ call' \in CallSet /\ Counted'
             /\ UNCHANGED <<h, toServer>>
  <2>1. Exception(kind) \in Saved /\ Exception(kind).kind = kind
    BY ExceptionDoes DEF Kinds
  <2>2. c.active /\ UNCHANGED <<flavour, h, toServer, abandoned, garbled>>
    BY <1>3, <1>4 DEF ClientDies, Takes
  <2> QED
    BY <1>4, <2>1, <2>2, ClientDiesDoes
<1>5. CASE ClientDies(Exception("other")) \/ ClientDies(Exception("ssh"))
  BY <1>1, <1>2, <1>3, <1>4, <1>5 DEF Sound, TransportsOK, Takes
<1>6. CASE /\ h.user /\ toServer' = Append(toServer, UserauthRequest(h.method))
           /\ UNCHANGED <<c, h, call>>
  <2>1. toServer' \in Seq(Requests)
    BY <1>2, <1>6, UserauthRequestDoes, SentMore
  <2>2. Counted'
    BY <1>2, <1>6 DEF Counted
  <2> QED
    BY <1>1, <1>2, <1>3, <1>6, <2>1, <2>2 DEF Sound, TransportsOK, Takes
<1> QED
  BY <1>5, <1>6 DEF ParseServiceAccept, SendServer

\* A banner is kept, or there is no handler for it.
LEMMA ParseUserauthBannerDoes ==
    ASSUME Sound, ParseUserauthBanner
    PROVE  /\ Sound' /\ Takes("banner") /\ UNCHANGED <<c, call>>
           /\ h'.event = h.event /\ h'.made = h.made /\ h'.user = h.user
           /\ h'.authenticated = h.authenticated
           /\ \/ h.made /\ toServer' = toServer
              \/ ~h.made /\ toServer' = Append(toServer, Message("unimplemented", 0))
<1>1. ClientTakes("banner") /\ UNCHANGED <<c, call>>
  BY DEF ParseUserauthBanner
<1>2. /\ TransportsOK /\ c \in ClientSet /\ h \in HandlerSet /\ toServer \in Seq(Requests)
      /\ Counted
  BY DEF Sound, TransportsOK
<1>3. Takes("banner") /\ toClient' \in Seq(Answers)
  BY <1>1, TakesDoes
<1>4. Counted'
  BY <1>1, <1>2 DEF Counted
<1>5. CASE h.made /\ h' = [h EXCEPT !.banner = TRUE] /\ toServer' = toServer
  <2>1. /\ h' \in HandlerSet /\ h'.event = h.event /\ h'.made = h.made /\ h'.user = h.user
        /\ h'.authenticated = h.authenticated
    BY <1>2, <1>5 DEF HandlerSet
  <2> QED
    BY <1>1, <1>2, <1>3, <1>4, <1>5, <2>1 DEF Sound, TransportsOK, Takes
<1>6. CASE ~h.made /\ h' = h /\ toServer' = Append(toServer, Message("unimplemented", 0))
  <2>1. toServer' \in Seq(Requests)
    BY <1>2, <1>6, Bounds, MessageDoes, SentMore
  <2> QED
    BY <1>1, <1>2, <1>3, <1>4, <1>6, <2>1 DEF Sound, TransportsOK, Takes
<1> QED
  BY <1>5, <1>6 DEF ParseUserauthBanner, SendServer

\* The caller has been answered.
Hears(n) ==
    /\ SamePlace /\ call'.heard = (call.heard \/ n = call.n)
    /\ call'.woken = (call.woken \/ h.event = call.n)

\* An answer is noted for the caller.
LEMMA HearsDoes ==
    ASSUME Sound, NEW n \in Numbers, call' = Answered(n)
    PROVE  Hears(n) /\ call' \in CallSet /\ Counted'
<1>1. call \in CallSet /\ h \in HandlerSet /\ Counted
  BY DEF Sound, TransportsOK
<1>2. Hears(n) /\ call' \in CallSet /\ call'.method = call.method
  BY <1>1, WokenDoes DEF Hears, SamePlace
<1> QED
  BY <1>1, <1>2, SamePlaceCounted DEF Hears

\* A success.
LEMMA ParseUserauthSuccessDoes ==
    ASSUME Sound, ParseUserauthSuccess
    PROVE  /\ Sound' /\ Takes("success") /\ toServer' = toServer /\ Hears(Head(toClient).n)
           /\ h'.authenticated /\ h'.made = h.made /\ h'.event = h.event /\ h'.user = h.user
           /\ c'.active = c.active /\ c'.thread = c.thread
           /\ c'.accepted = c.accepted /\ c'.saved = c.saved
           /\ c'.compressed = IF Delayed THEN c.compressed + 1 ELSE c.compressed
<1>1. /\ ClientTakes("success") /\ h' = [h EXCEPT !.authenticated = TRUE] /\ c' = AuthTrigger
      /\ call' = Answered(Head(toClient).n) /\ toServer' = toServer
  BY DEF ParseUserauthSuccess
<1>2. TransportsOK /\ c \in ClientSet /\ h \in HandlerSet
  BY DEF Sound, TransportsOK
<1>3. Takes("success") /\ toClient' \in Seq(Answers) /\ Head(toClient).n \in Numbers
  BY <1>1, TakesDoes DEF Answers
<1>4. Hears(Head(toClient).n) /\ call' \in CallSet /\ Counted'
  BY <1>1, <1>3, HearsDoes
<1>5. /\ h' \in HandlerSet /\ h'.authenticated /\ h'.made = h.made /\ h'.event = h.event
      /\ h'.user = h.user
  BY <1>1, <1>2 DEF HandlerSet
<1>6. /\ c' \in ClientSet /\ c'.active = c.active /\ c'.thread = c.thread
      /\ c'.accepted = c.accepted /\ c'.saved = c.saved
      /\ c'.compressed = IF Delayed THEN c.compressed + 1 ELSE c.compressed
  BY <1>1, <1>2 DEF ClientSet, AuthTrigger
<1> QED
  BY <1>1, <1>2, <1>3, <1>4, <1>5, <1>6 DEF Sound, TransportsOK, Takes

\* A failure, complete or partial.
LEMMA ParseUserauthFailureDoes ==
    ASSUME Sound, ParseUserauthFailure
    PROVE  /\ Sound' /\ Takes("failure") /\ toServer' = toServer /\ Hears(Head(toClient).n)
           /\ ~h'.authenticated /\ h'.made = h.made /\ h'.event = h.event /\ ~h'.user
           /\ c'.active = c.active /\ c'.thread = c.thread
           /\ c'.accepted = c.accepted /\ c'.compressed = c.compressed
           /\ c'.saved.kind \in IF Head(toClient).partial THEN {"partial"}
                                                        ELSE {"badtype", c.saved.kind}
<1> DEFINE m == Head(toClient)
           e == IF m.partial THEN [kind |-> "partial", allowed |-> m.allowed]
                ELSE IF h.method \notin m.allowed
                     THEN [kind |-> "badtype", allowed |-> m.allowed] ELSE c.saved
<1>1. /\ ClientTakes("failure") /\ c' = [c EXCEPT !.saved = e]
      /\ h' = [h EXCEPT !.authenticated = FALSE, !.user = FALSE]
      /\ call' = Answered(m.n) /\ toServer' = toServer
  BY DEF ParseUserauthFailure
<1>2. TransportsOK /\ c \in ClientSet /\ h \in HandlerSet
  BY DEF Sound, TransportsOK
<1>3. /\ Takes("failure") /\ toClient' \in Seq(Answers) /\ m.n \in Numbers
      /\ m.partial \in BOOLEAN /\ m.allowed \in SUBSET Methods
  BY <1>1, TakesDoes DEF Answers
<1>4. Hears(m.n) /\ call' \in CallSet /\ Counted'
  BY <1>1, <1>3, HearsDoes
<1>5. /\ h' \in HandlerSet /\ ~h'.authenticated /\ h'.made = h.made /\ h'.event = h.event
      /\ ~h'.user
  BY <1>1, <1>2 DEF HandlerSet
<1>6. c.saved \in Saved
  BY <1>2 DEF ClientSet
<1>7. /\ e \in Saved
      /\ e.kind \in IF m.partial THEN {"partial"} ELSE {"badtype", c.saved.kind}
  BY <1>3, <1>6 DEF Saved, Kinds
<1>8. /\ c' \in ClientSet /\ c'.active = c.active /\ c'.thread = c.thread
      /\ c'.accepted = c.accepted /\ c'.compressed = c.compressed /\ c'.saved = e
  <2> HIDE DEF e
  <2> QED
    BY <1>1, <1>2, <1>7 DEF ClientSet
<1> HIDE DEF e
<1> QED
  BY <1>1, <1>2, <1>3, <1>4, <1>5, <1>7, <1>8 DEF Sound, TransportsOK, Takes

\* A prompt is answered, or kills the transport.
LEMMA ParseUserauthInfoRequestDoes ==
    ASSUME Sound, ParseUserauthInfoRequest
    PROVE  /\ Sound' /\ Takes("info_request")
           /\ \/ toServer' = toServer /\ Dies("ssh")
              \/ /\ toServer' = Append(toServer, Message("info_response", Head(toClient).n))
                 /\ UNCHANGED <<c, h, call>>
<1>1. ClientTakes("info_request")
  BY DEF ParseUserauthInfoRequest
<1>2. TransportsOK /\ c \in ClientSet /\ toServer \in Seq(Requests) /\ Counted
  BY DEF Sound, TransportsOK
<1>3. Takes("info_request") /\ toClient' \in Seq(Answers) /\ Head(toClient).n \in Numbers
  BY <1>1, TakesDoes DEF Answers
<1>4. CASE ClientDies(Exception("ssh"))
  <2>1. Exception("ssh") \in Saved /\ Exception("ssh").kind = "ssh"
    BY ExceptionDoes DEF Kinds
  <2>2. c.active /\ UNCHANGED <<flavour, h, toServer, abandoned, garbled>>
    BY <1>3, <1>4 DEF ClientDies, Takes
  <2>3. Dies("ssh") /\ c' \in ClientSet /\ call' \in CallSet /\ Counted'
    BY <1>4, <2>1, <2>2, ClientDiesDoes
  <2> QED
    BY <1>2, <1>3, <2>2, <2>3 DEF Sound, TransportsOK, Takes
<1>5. CASE /\ toServer' = Append(toServer, Message("info_response", Head(toClient).n))
           /\ UNCHANGED <<c, h, call>>
  <2>1. toServer' \in Seq(Requests)
    BY <1>2, <1>3, <1>5, MessageDoes, SentMore
  <2>2. Counted'
    BY <1>2, <1>5 DEF Counted
  <2> QED
    BY <1>2, <1>3, <1>5, <2>1, <2>2 DEF Sound, TransportsOK, Takes
<1> QED
  BY <1>4, <1>5 DEF ParseUserauthInfoRequest, SendServer

\* The server disconnects.
LEMMA ParseDisconnectDoes ==
    ASSUME Sound, ParseDisconnect
    PROVE  Sound' /\ Takes("disconnect") /\ toServer' = toServer /\ Dies(c.saved.kind)
<1>1. ClientTakes("disconnect") /\ ClientDies(c.saved)
  BY DEF ParseDisconnect
<1>2. TransportsOK /\ c.saved \in Saved
  BY DEF Sound, TransportsOK, ClientSet
<1>3. Takes("disconnect") /\ toClient' \in Seq(Answers)
  BY <1>1, TakesDoes
<1>4. c.active /\ UNCHANGED <<flavour, h, toServer, abandoned, garbled>>
  BY <1>1, <1>3 DEF ClientDies, Takes
<1>5. Dies(c.saved.kind) /\ c' \in ClientSet /\ call' \in CallSet /\ Counted'
  BY <1>1, <1>2, <1>4, ClientDiesDoes
<1> QED
  BY <1>2, <1>3, <1>4, <1>5 DEF Sound, TransportsOK, Takes

-----------------------------------------------------------------------------
(* What the steps of the server do                                          *)

\* The server takes a message and sends ms, of which one at most passes the turn.
Serves(ms) ==
    /\ s.active /\ toServer # <<>> /\ Head(toServer).compressed = s.compressed
    /\ toServer' = Tail(toServer)
    /\ ms \in Seq(Answers) /\ Single(ms) /\ toClient' = toClient \o ms
    /\ UNCHANGED <<flavour, c, h, call, abandoned, garbled>>

\* The message that the server takes may lead to a verdict.
Judgeable ==
    /\ Head(toServer).type \in {"userauth_request", "info_response"}
    /\ Head(toServer).type = "userauth_request" => ~s.authenticated

\* It decides nothing.
Undecided ==
    /\ s'.authenticated = s.authenticated /\ s'.compressed = s.compressed /\ s'.said = s.said
    /\ s.user # Nobody => s'.user = s.user
    /\ s'.opened => s.opened \/ s.authenticated
Accepts(m) == m.type = "service_accept" /\ m.n = 0 /\ Head(toServer).type = "service_request"
Prompts(m) == m.type = "info_request" /\ m.n = Head(toServer).n /\ Judgeable
Calmly ==
    /\ Undecided
    /\ \E ms \in Seq(Answers) :
          /\ Serves(ms) /\ \A m \in Sent(ms) : IF Tells(m) THEN Accepts(m) \/ Prompts(m) ELSE m.n = 0
          /\ Head(toServer).type = "unimplemented" => ms = <<>>

\* It gives its verdict on the attempt.
Judges ==
    \E ms \in Seq(Answers), result \in Results :
        /\ Serves(ms) /\ Judgeable
        /\ s.user # Nobody => s'.user = s.user
        /\ s'.opened = s.opened
        /\ s'.authenticated = (s.authenticated \/ result = "AUTH_SUCCESSFUL")
        /\ s'.compressed = IF result = "AUTH_SUCCESSFUL" /\ Delayed THEN s.compressed + 1
                                                                   ELSE s.compressed
        /\ s'.said[Head(toServer).n] = result
        /\ \A k \in Numbers : k # Head(toServer).n => s'.said[k] = s.said[k]
        /\ \A m \in Sent(ms) :
              IF Tells(m)
              THEN /\ m.n = Head(toServer).n
                   /\ \/ m.type = "success" /\ result = "AUTH_SUCCESSFUL"
                      \/ /\ m.type = "failure" /\ result # "AUTH_SUCCESSFUL"
                         /\ m.partial = (result = "AUTH_PARTIALLY_SUCCESSFUL")
              ELSE m.n = 0
        /\ result = "AUTH_SUCCESSFUL" => \E m \in Sent(ms) : m.type = "success"

\* It ends without reading anything.
Leaves ==
    /\ Undecided /\ UNCHANGED <<flavour, c, h, call, toServer, toClient, abandoned>>
    /\ ~s'.active
    /\ garbled' => garbled \/ (s.active /\ \E m \in Sent(toServer) : m.compressed # s.compressed)

\* What a step of the server that takes a message does to the queues.
LEMMA ServesDoes ==
    ASSUME Sound, NEW type, ServerTakes(type), NEW ms \in Seq(Answers), Single(ms),
           toClient' = toClient \o ms, s' \in ServerSet
    PROVE  /\ Serves(ms) /\ Sound' /\ Head(toServer) \in Requests /\ Head(toServer).type = type
           /\ Head(toServer) \in Sent(toServer) /\ Sent(toServer') \subseteq Sent(toServer)
           /\ Sent(toClient') = Sent(toClient) \cup Sent(ms)
<1>1. TransportsOK /\ toServer \in Seq(Requests) /\ toClient \in Seq(Answers) /\ Counted
  BY DEF Sound, TransportsOK
<1>2. /\ s.active /\ toServer # <<>> /\ Head(toServer).type = type
      /\ Head(toServer).compressed = s.compressed
      /\ toServer' = Tail(toServer) /\ UNCHANGED <<flavour, c, h, call, abandoned, garbled>>
  BY DEF ServerTakes
<1>3. /\ toServer' \in Seq(Requests) /\ Head(toServer) \in Requests
      /\ Head(toServer) \in Sent(toServer) /\ Sent(toServer') \subseteq Sent(toServer)
  BY <1>1, <1>2, SentTail
<1>4. toClient' \in Seq(Answers) /\ Sent(toClient') = Sent(toClient) \cup Sent(ms)
  BY <1>1, SentMore
<1>5. Counted'
  BY <1>1, <1>2 DEF Counted
<1> QED
  BY <1>1, <1>2, <1>3, <1>4, <1>5 DEF Serves, Sound, TransportsOK

\* One message, or one and then others that do not pass the turn.
LEMMA FewAnswers ==
    /\ <<>> \in Seq(Answers) /\ Single(<<>>) /\ Quiet(<<>>)
    /\ \A x \in Answers : <<x>> \in Seq(Answers) /\ Single(<<x>>) /\ (~Tells(x) => Quiet(<<x>>))
    /\ \A x \in Answers, r \in Seq(Answers) :
          Quiet(r) => /\ <<x>> \o r \in Seq(Answers) /\ Single(<<x>> \o r)
                      /\ Sent(<<x>> \o r) = {x} \cup Sent(r)
<1>1. <<>> \in Seq(Answers) /\ Single(<<>>) /\ Quiet(<<>>)
  BY SentFew DEF Single, Quiet
<1>2. ASSUME NEW x \in Answers
      PROVE  <<x>> \in Seq(Answers) /\ Single(<<x>>) /\ (~Tells(x) => Quiet(<<x>>))
  BY SentFew DEF Single, Quiet
<1>3. ASSUME NEW x \in Answers, NEW r \in Seq(Answers), Quiet(r)
      PROVE  /\ <<x>> \o r \in Seq(Answers) /\ Single(<<x>> \o r)
             /\ Sent(<<x>> \o r) = {x} \cup Sent(r)
  <2>1. Sent(<<x>>) = {x} /\ <<x>> \in Seq(Answers) /\ Single(<<x>>)
    BY <1>2, SentFew
  <2> DEFINE q == <<x>>
  <2>2. q \in Seq(Answers) /\ Single(q) /\ Sent(q) = {x}
    BY <2>1
  <2> HIDE DEF q
  <2>3. Single(q \o r) /\ q \o r \in Seq(Answers) /\ Sent(q \o r) = Sent(q) \cup Sent(r)
    BY <1>3, <2>2, TellQueues, SentMore
  <2> QED
    BY <2>2, <2>3 DEF q
<1> QED
  BY <1>1, <1>2, <1>3

\* The server closes the connection.
LEMMA ServerEnds ==
    ASSUME s \in ServerSet, s' = [s EXCEPT !.active = FALSE]
    PROVE  s' \in ServerSet /\ Undecided
<1>1. /\ s' \in ServerSet /\ s'.authenticated = s.authenticated /\ s'.compressed = s.compressed
      /\ s'.said = s.said /\ s'.user = s.user /\ s'.opened = s.opened
  BY DEF ServerSet
<1> QED
  BY <1>1 DEF Undecided

\* A packet that cannot be read, or none that could come any more.
LEMMA ServerLeaves ==
    ASSUME Sound, ServerGarbled \/ ServerEof
    PROVE  Sound' /\ Leaves
<1>1. TransportsOK /\ s \in ServerSet /\ toServer \in Seq(Requests) /\ Counted
  BY DEF Sound, TransportsOK
<1>2. /\ s' = [s EXCEPT !.active = FALSE]
      /\ UNCHANGED <<flavour, c, h, call, toServer, toClient, abandoned>>
  BY DEF ServerGarbled, ServerEof
<1>3. s' \in ServerSet /\ Undecided /\ ~s'.active
  BY <1>1, <1>2, ServerEnds DEF ServerSet
<1>4. /\ garbled' \in BOOLEAN
      /\ garbled' => garbled \/ (s.active /\ \E m \in Sent(toServer) : m.compressed # s.compressed)
  <2>1. CASE ServerGarbled
    <3>1. s.active /\ toServer # <<>> /\ Head(toServer).compressed # s.compressed /\ garbled' = TRUE
      BY <2>1 DEF ServerGarbled
    <3>2. Head(toServer) \in Sent(toServer)
      BY <1>1, <3>1, SentTail
    <3> QED
      BY <3>1, <3>2
  <2>2. CASE ServerEof
    BY <1>1, <2>2 DEF ServerEof, TransportsOK
  <2> QED
    BY <2>1, <2>2
<1>5. Counted'
  BY <1>1, <1>2 DEF Counted
<1> QED
  BY <1>1, <1>2, <1>3, <1>4, <1>5 DEF Sound, TransportsOK, Leaves

\* A request for the service.
LEMMA ParseServiceRequestDoes ==
    ASSUME Sound, ParseServiceRequest
    PROVE  Sound' /\ Calmly
<1>1. ServerTakes("service_request") /\ s \in ServerSet
  BY DEF ParseServiceRequest, Sound, TransportsOK
<1>2. CASE Head(toServer).service = "known"
  <2> DEFINE r == IF HasBanner THEN <<Plain("banner")>> ELSE <<>>
             ms == <<Plain("service_accept")>> \o r
  <2>1. toClient' = toClient \o ms /\ s' = s
    BY <1>2 DEF ParseServiceRequest, Reply
  <2>2. /\ Plain("service_accept") \in Answers /\ Plain("service_accept").type = "service_accept"
        /\ Plain("service_accept").n = 0
    BY PlainDoes
  <2>3. Plain("banner") \in Answers /\ Plain("banner").type = "banner" /\ Plain("banner").n = 0
    BY PlainDoes
  <2>4. r \in Seq(Answers) /\ Quiet(r) /\ \A m \in Sent(r) : m.type = "banner" /\ m.n = 0
    <3>1. ~Tells(Plain("banner"))
      BY <2>3 DEF Tells
    <3>2. CASE HasBanner
      BY <2>3, <3>1, <3>2, FewAnswers, SentFew
    <3>3. CASE ~HasBanner
      BY <3>3, FewAnswers, SentFew
    <3> QED
      BY <3>2, <3>3
  <2> HIDE DEF r
  <2>5. ms \in Seq(Answers) /\ Single(ms) /\ Sent(ms) = {Plain("service_accept")} \cup Sent(r)
    BY <2>2, <2>4, FewAnswers
  <2> HIDE DEF ms
  <2>6. Serves(ms) /\ Sound' /\ Head(toServer).type = "service_request"
    BY <1>1, <2>1, <2>5, ServesDoes
  <2>7. \A m \in Sent(ms) : IF Tells(m) THEN Accepts(m) \/ Prompts(m) ELSE m.n = 0
    BY <2>2, <2>4, <2>5, <2>6 DEF Accepts, Tells
  <2> QED
    BY <2>1, <2>5, <2>6, <2>7 DEF Calmly, Undecided
<1>3. CASE Head(toServer).service # "known"
  <2>1. toClient' = toClient \o <<Disconnect>> /\ s' = [s EXCEPT !.active = FALSE]
    BY <1>3 DEF ParseServiceRequest, Reply
  <2>2. Disconnect \in Answers /\ Disconnect.type = "disconnect" /\ Disconnect.n = 0
    BY PlainDoes DEF Disconnect
  <2>3. s' \in ServerSet /\ Undecided
    BY <1>1, <2>1, ServerEnds
  <2>4. <<Disconnect>> \in Seq(Answers) /\ Single(<<Disconnect>>)
    BY <2>2, FewAnswers
  <2>5. Serves(<<Disconnect>>) /\ Sound' /\ Head(toServer).type = "service_request"
    BY <1>1, <2>1, <2>3, <2>4, ServesDoes
  <2>6. \A m \in Sent(<<Disconnect>>) : IF Tells(m) THEN Accepts(m) \/ Prompts(m) ELSE m.n = 0
    BY <2>2, SentFew DEF Tells
  <2> QED
    BY <2>3, <2>4, <2>5, <2>6 DEF Calmly
<1> QED
  BY <1>2, <1>3

\* A message that leads to one answer which does not pass the turn.
LEMMA CalmAnswer ==
    ASSUME Sound, NEW type, ServerTakes(type), type # "unimplemented", s' \in ServerSet, Undecided,
           NEW x \in Answers, toClient' = toClient \o <<x>>,
           (~Tells(x) /\ x.n = 0) \/ (Tells(x) /\ Prompts(x))
    PROVE  Sound' /\ Calmly
<1>1. <<x>> \in Seq(Answers) /\ Single(<<x>>) /\ Sent(<<x>>) = {x}
  BY FewAnswers, SentFew
<1>2. Serves(<<x>>) /\ Sound' /\ Head(toServer).type # "unimplemented"
  BY <1>1, ServesDoes
<1>3. \A m \in Sent(<<x>>) : IF Tells(m) THEN Accepts(m) \/ Prompts(m) ELSE m.n = 0
  BY <1>1
<1> QED
  BY <1>1, <1>2, <1>3 DEF Calmly

\* A message that nothing answers.
LEMMA CalmSilence ==
    ASSUME Sound, NEW type, ServerTakes(type), s' = s, toClient' = toClient
    PROVE  Sound' /\ Calmly
<1>1. toClient \in Seq(Answers) /\ s' \in ServerSet /\ Undecided
  BY DEF Sound, TransportsOK, Undecided
<1>2. <<>> \in Seq(Answers) /\ Single(<<>>) /\ Sent(<<>>) = {}
  BY FewAnswers, SentFew
<1>3. toClient' = toClient \o <<>>
  BY <1>1
<1>4. Serves(<<>>) /\ Sound'
  BY <1>1, <1>2, <1>3, ServesDoes
<1> QED
  BY <1>1, <1>2, <1>4 DEF Calmly

\* The requests that are refused at once.
LEMMA RejectUserauthRequestDoes ==
    ASSUME Sound, RejectUserauthRequest
    PROVE  Sound' /\ Calmly
<1> DEFINE m == Head(toServer)
           u == IF m.service = "known" /\ s.user = Nobody THEN m.user ELSE s.user
<1>1. /\ ServerTakes("userauth_request") /\ s' = [s EXCEPT !.active = FALSE, !.user = u]
      /\ toClient' = toClient \o <<Disconnect>>
  BY DEF RejectUserauthRequest, Reply
<1>2. s \in ServerSet /\ toServer \in Seq(Requests) /\ toServer # <<>>
  BY <1>1 DEF Sound, TransportsOK, ServerTakes
<1>3. m \in Requests
  BY <1>2, SentTail
<1>4. u \in Usernames \cup {Nobody} /\ (s.user # Nobody => u = s.user)
  BY <1>2, <1>3 DEF Requests, ServerSet
<1>5. /\ s' \in ServerSet /\ s'.authenticated = s.authenticated /\ s'.compressed = s.compressed
      /\ s'.said = s.said /\ s'.user = u /\ s'.opened = s.opened
  <2> HIDE DEF u
  <2> QED
    BY <1>1, <1>2, <1>4 DEF ServerSet
<1>6. Undecided
  BY <1>4, <1>5 DEF Undecided
<1>7. Disconnect \in Answers /\ ~Tells(Disconnect) /\ Disconnect.n = 0
  BY PlainDoes DEF Disconnect, Tells
<1> QED
  BY <1>1, <1>5, <1>6, <1>7, CalmAnswer

\* A channel is opened for an authenticated client only.
LEMMA ParseChannelOpenDoes ==
    ASSUME Sound, ParseChannelOpen
    PROVE  Sound' /\ Calmly
<1> DEFINE o == s.opened \/ s.authenticated
           x == Plain(IF s.authenticated THEN "open_success" ELSE "open_failure")
<1>1. ServerTakes("channel_open") /\ s' = [s EXCEPT !.opened = o] /\ toClient' = toClient \o <<x>>
  BY DEF ParseChannelOpen, Reply
<1>2. s \in ServerSet /\ o \in BOOLEAN
  BY DEF Sound, TransportsOK, ServerSet
<1>3. /\ s' \in ServerSet /\ s'.authenticated = s.authenticated /\ s'.compressed = s.compressed
      /\ s'.said = s.said /\ s'.user = s.user /\ s'.opened = o
  <2> HIDE DEF o
  <2> QED
    BY <1>1, <1>2 DEF ServerSet
<1>4. Undecided
  BY <1>3 DEF Undecided
<1>5. x \in Answers /\ ~Tells(x) /\ x.n = 0
  BY PlainDoes DEF Tells
<1> HIDE DEF x
<1> QED
  BY <1>1, <1>3, <1>4, <1>5, CalmAnswer

\* A query of the interactive method.
LEMMA InteractiveQueryDoes ==
    ASSUME Sound, NEW type, ServerTakes(type), Judgeable, NEW user \in Usernames \cup {Nobody},
           s.user # Nobody => user = s.user, InteractiveQuery(user, Head(toServer).n)
    PROVE  Sound' /\ Calmly
<1> DEFINE n == Head(toServer).n
<1>1. PICK many \in BOOLEAN :
        /\ s' = [s EXCEPT !.user = user, !.queries = @ + 1]
        /\ toClient' = toClient \o <<Answer("info_request", n, {}, FALSE, many)>>
  BY DEF InteractiveQuery, Reply
<1>2. s \in ServerSet /\ toServer \in Seq(Requests) /\ toServer # <<>>
  BY DEF Sound, TransportsOK, ServerTakes
<1>3. n \in Numbers
  <2>1. Head(toServer) \in Requests
    BY <1>2, SentTail
  <2> QED
    BY <2>1 DEF Requests
<1>4. /\ s' \in ServerSet /\ s'.authenticated = s.authenticated /\ s'.compressed = s.compressed
      /\ s'.said = s.said /\ s'.user = user /\ s'.opened = s.opened
  <2>1. s.queries + 1 \in Nat /\ s' = [s EXCEPT !.user = user, !.queries = s.queries + 1]
    BY <1>1, <1>2 DEF ServerSet
  <2> DEFINE k == s.queries + 1
  <2> HIDE DEF k
  <2>2. k \in Nat /\ s' = [s EXCEPT !.user = user, !.queries = k]
    BY <2>1 DEF k
  <2> QED
    BY <1>2, <2>2 DEF ServerSet
<1>5. Undecided
  BY <1>4 DEF Undecided
<1> DEFINE x == Answer("info_request", n, {}, FALSE, many)
<1>6. x \in Answers /\ x.type = "info_request" /\ x.n = n
  BY <1>3 DEF Answer, Answers
<1>7. Tells(x) /\ Prompts(x)
  BY <1>6 DEF Tells, Prompts
<1>8. type # "unimplemented"
  BY DEF Judgeable, ServerTakes
<1> HIDE DEF x
<1> QED
  BY <1>1, <1>4, <1>5, <1>6, <1>7, <1>8, CalmAnswer DEF x

\* A verdict.
LEMMA SendAuthResultDoes ==
    ASSUME Sound, NEW type, ServerTakes(type), Judgeable, NEW user \in Usernames \cup {Nobody},
           s.user # Nobody => user = s.user, NEW result \in Results,
           SendAuthResult(user, Head(toServer).n, result)
    PROVE  Sound' /\ Judges
<1> DEFINE n == Head(toServer).n
<1>1. PICK allowed \in AllowedAuths :
        /\ s' = Judged(user, n, result)
        /\ toClient' = toClient \o
              (<<IF result = "AUTH_SUCCESSFUL" THEN Answer("success", n, {}, FALSE, FALSE)
                 ELSE Answer("failure", n, allowed, result = "AUTH_PARTIALLY_SUCCESSFUL", FALSE)>>
               \o IF s'.active THEN <<>> ELSE <<Disconnect>>)
  BY DEF SendAuthResult, Reply
<1>2. s \in ServerSet /\ toServer \in Seq(Requests) /\ toServer # <<>>
  BY DEF Sound, TransportsOK, ServerTakes
<1>3. n \in Numbers
  <2>1. Head(toServer) \in Requests
    BY <1>2, SentTail
  <2> QED
    BY <2>1 DEF Requests
<1> DEFINE x == IF result = "AUTH_SUCCESSFUL" THEN Answer("success", n, {}, FALSE, FALSE)
                ELSE Answer("failure", n, allowed, result = "AUTH_PARTIALLY_SUCCESSFUL", FALSE)
           r == IF s'.active THEN <<>> ELSE <<Disconnect>>
           ms == <<x>> \o r
<1>4. /\ x \in Answers /\ x.n = n
      /\ \/ x.type = "success" /\ result = "AUTH_SUCCESSFUL"
         \/ /\ x.type = "failure" /\ result # "AUTH_SUCCESSFUL"
            /\ x.partial = (result = "AUTH_PARTIALLY_SUCCESSFUL")
  <2>1. allowed \in SUBSET Methods /\ {} \in SUBSET Methods
    BY Bounds
  <2>2. ASSUME NEW b \in BOOLEAN
        PROVE  /\ Answer("failure", n, allowed, b, FALSE) \in Answers
               /\ Answer("failure", n, allowed, b, FALSE).n = n
               /\ Answer("failure", n, allowed, b, FALSE).type = "failure"
               /\ Answer("failure", n, allowed, b, FALSE).partial = b
    BY <1>3, <2>1 DEF Answer, Answers
  <2>3. /\ Answer("success", n, {}, FALSE, FALSE) \in Answers
        /\ Answer("success", n, {}, FALSE, FALSE).n = n
        /\ Answer("success", n, {}, FALSE, FALSE).type = "success"
    BY <1>3, <2>1 DEF Answer, Answers
  <2>4. (result = "AUTH_PARTIALLY_SUCCESSFUL") \in BOOLEAN
    OBVIOUS
  <2>5. CASE result = "AUTH_SUCCESSFUL"
    BY <2>3, <2>5
  <2>6. CASE result # "AUTH_SUCCESSFUL"
    <3>1. x = Answer("failure", n, allowed, result = "AUTH_PARTIALLY_SUCCESSFUL", FALSE)
      BY <2>6
    <3> HIDE DEF x
    <3> QED
      BY <2>2, <2>4, <2>6, <3>1
  <2> QED
    BY <2>5, <2>6
<1>5. Disconnect \in Answers /\ ~Tells(Disconnect) /\ Disconnect.n = 0
  BY PlainDoes DEF Disconnect, Tells
<1>6. r \in Seq(Answers) /\ Quiet(r) /\ \A m \in Sent(r) : ~Tells(m) /\ m.n = 0
  <2>1. CASE s'.active
    BY <2>1, FewAnswers, SentFew
  <2>2. CASE ~s'.active
    BY <1>5, <2>2, FewAnswers, SentFew
  <2> QED
    BY <2>1, <2>2
<1>7. toClient' = toClient \o ms
  BY <1>1
<1> HIDE DEF x, r
<1>8. ms \in Seq(Answers) /\ Single(ms) /\ Sent(ms) = {x} \cup Sent(r)
  BY <1>4, <1>6, FewAnswers
<1>9. /\ s' \in ServerSet /\ s'.user = user /\ s'.opened = s.opened
      /\ s'.authenticated = (s.authenticated \/ result = "AUTH_SUCCESSFUL")
      /\ s'.compressed = IF result = "AUTH_SUCCESSFUL" /\ Delayed THEN s.compressed + 1
                                                                 ELSE s.compressed
      /\ s'.said[n] = result
      /\ \A k \in Numbers : k # n => s'.said[k] = s.said[k]
  <2> HIDE DEF n
  <2>1. s' = Judged(user, n, result)
    BY <1>1
  <2>2. LET j == Judged(user, n, result)
        IN  /\ j \in ServerSet /\ j.user = user /\ j.opened = s.opened
            /\ j.authenticated = (s.authenticated \/ result = "AUTH_SUCCESSFUL")
            /\ j.compressed = IF result = "AUTH_SUCCESSFUL" /\ Delayed THEN s.compressed + 1
                                                                      ELSE s.compressed
            /\ j.said[n] = result
            /\ \A k \in Numbers : k # n => j.said[k] = s.said[k]
    BY ONLY <1>2, <1>3, JudgedDoes
  <2> QED
    BY <2>1, <2>2
<1> HIDE DEF ms
<1>10. Serves(ms) /\ Sound'
  BY <1>7, <1>8, <1>9, ServesDoes
<1>11. \A m \in Sent(ms) :
         IF Tells(m)
         THEN /\ m.n = n
              /\ \/ m.type = "success" /\ result = "AUTH_SUCCESSFUL"
                 \/ /\ m.type = "failure" /\ result # "AUTH_SUCCESSFUL"
                    /\ m.partial = (result = "AUTH_PARTIALLY_SUCCESSFUL")
         ELSE m.n = 0
  <2>1. Tells(x)
    BY <1>4 DEF Tells
  <2> QED
    BY <1>4, <1>6, <1>8, <2>1
<1>12. result = "AUTH_SUCCESSFUL" => \E m \in Sent(ms) : m.type = "success"
  BY <1>4, <1>8
<1> QED
  BY <1>8, <1>9, <1>10, <1>11, <1>12 DEF Judges

\* A request to be authenticated.
LEMMA ParseUserauthRequestDoes ==
    ASSUME Sound, NEW check \in Results, ParseUserauthRequest(check)
    PROVE  Sound' /\ (Calmly \/ Judges)
<1> DEFINE m == Head(toServer)
           result == IF \/ m.method = "password" /\ m.change
                        \/ m.method = "publickey" /\ m.sig = "invalid"
                     THEN "AUTH_FAILED" ELSE check
<1>1. ServerTakes("userauth_request") /\ ~s.authenticated /\ ~Rejected(m)
  BY DEF ParseUserauthRequest
<1>2. s \in ServerSet /\ toServer \in Seq(Requests) /\ toServer # <<>> /\ m.type = "userauth_request"
  BY <1>1 DEF Sound, TransportsOK, ServerTakes
<1>3. m \in Requests
  BY <1>2, SentTail
<1>4. /\ m.user \in Usernames \cup {Nobody} /\ (s.user # Nobody => m.user = s.user)
      /\ Judgeable /\ result \in Results
  BY <1>1, <1>2, <1>3 DEF Requests, Rejected, Judgeable, Results
<1>5. CASE SendAuthResult(m.user, m.n, result)
  <2> HIDE DEF result
  <2> QED
    BY <1>1, <1>4, <1>5, SendAuthResultDoes
<1>6. CASE s' = [s EXCEPT !.user = m.user] /\ Reply(<<Plain("pk_ok")>>)
  <2>1. /\ s' \in ServerSet /\ s'.authenticated = s.authenticated /\ s'.compressed = s.compressed
        /\ s'.said = s.said /\ s'.user = m.user /\ s'.opened = s.opened
    BY <1>2, <1>4, <1>6 DEF ServerSet
  <2>2. Undecided
    BY <1>4, <2>1 DEF Undecided
  <2>3. Plain("pk_ok") \in Answers /\ ~Tells(Plain("pk_ok")) /\ Plain("pk_ok").n = 0
    BY PlainDoes DEF Tells
  <2>4. toClient' = toClient \o <<Plain("pk_ok")>>
    BY <1>6 DEF Reply
  <2> QED
    BY <1>1, <2>1, <2>2, <2>3, <2>4, CalmAnswer
<1>7. CASE InteractiveQuery(m.user, m.n)
  BY <1>1, <1>4, <1>7, InteractiveQueryDoes
<1> QED
  BY <1>5, <1>6, <1>7 DEF ParseUserauthRequest

\* The answer to a query.
LEMMA ParseUserauthInfoResponseDoes ==
    ASSUME Sound, NEW check \in Results, ParseUserauthInfoResponse(check)
    PROVE  Sound' /\ (Calmly \/ Judges)
<1>1. ServerTakes("info_response")
  BY DEF ParseUserauthInfoResponse
<1>2. s \in ServerSet /\ Head(toServer).type = "info_response"
  BY <1>1 DEF Sound, TransportsOK, ServerTakes
<1>3. s.user \in Usernames \cup {Nobody} /\ Judgeable
  BY <1>2 DEF ServerSet, Judgeable
<1>4. CASE SendAuthResult(s.user, Head(toServer).n, check)
  BY <1>1, <1>3, <1>4, SendAuthResultDoes
<1>5. CASE InteractiveQuery(s.user, Head(toServer).n)
  BY <1>1, <1>3, <1>5, InteractiveQueryDoes
<1> QED
  BY <1>4, <1>5 DEF ParseUserauthInfoResponse

\* Every step of the server leaves, decides nothing, or gives a verdict.
LEMMA ServerReadsDo ==
    ASSUME Sound, ServerReads
    PROVE  Sound' /\ (Leaves \/ Calmly \/ Judges)
<1>1. CASE ServerGarbled \/ ServerEof
  BY <1>1, ServerLeaves
<1>2. CASE ParseServiceRequest
  BY <1>2, ParseServiceRequestDoes
<1>3. CASE IgnoreUserauthRequest
  <2>1. ServerTakes("userauth_request") /\ s' = s /\ toClient' = toClient
    BY <1>3 DEF IgnoreUserauthRequest
  <2> QED
    BY <2>1, CalmSilence
<1>4. CASE RejectUserauthRequest
  BY <1>4, RejectUserauthRequestDoes
<1>5. CASE \E check \in Results : ParseUserauthRequest(check)
  BY <1>5, ParseUserauthRequestDoes
<1>6. CASE \E check \in Results : ParseUserauthInfoResponse(check)
  BY <1>6, ParseUserauthInfoResponseDoes
<1>7. CASE ParseChannelOpen
  BY <1>7, ParseChannelOpenDoes
<1>8. CASE ParseUnimplemented
  <2>1. ServerTakes("unimplemented") /\ s' = s /\ toClient' = toClient
    BY <1>8 DEF ParseUnimplemented
  <2> QED
    BY <2>1, CalmSilence
<1> QED
  BY <1>1, <1>2, <1>3, <1>4, <1>5, <1>6, <1>7, <1>8 DEF ServerReads

\* A foreign client's message, when the last one was read.
LEMMA ForeignDoes ==
    ASSUME Sound, Foreign
    PROVE  /\ Sound' /\ flavour = "Foreign" /\ toServer = <<>> /\ toClient' = <<>>
           /\ \E m \in Requests : toServer' = Append(toServer, m) /\ m.compressed = s.compressed
           /\ call'.pc = call.pc /\ call'.result = call.result /\ call'.heard = call.heard
           /\ UNCHANGED <<flavour, c, h, s, abandoned, garbled>>
<1>1. /\ flavour = "Foreign" /\ toServer = <<>> /\ toClient' = <<>> /\ call.n < MaxAttempts
      /\ call' = [call EXCEPT !.n = @ + 1] /\ UNCHANGED <<flavour, c, h, s, abandoned, garbled>>
  BY DEF Foreign
<1>2. /\ TransportsOK /\ call \in CallSet /\ call.n \in Nat /\ MaxAttempts \in Nat
      /\ s.compressed \in Nat /\ Counted /\ c \in ClientSet /\ toServer \in Seq(Requests)
  BY Bounds DEF Sound, TransportsOK, CallSet, ServerSet
<1> DEFINE k == call.n + 1
<1>3. k \in Numbers /\ k <= MaxAttempts /\ k >= 1
  BY <1>1, <1>2, Bounds
<1>4. PICK m \in ForeignMessages(k) : toServer' = Append(toServer, m)
  BY DEF Foreign, SendServer
<1> DEFINE Good(x) == x \in Requests /\ x.compressed = s.compressed
           base == ForeignMessage(k)
<1>5. Good(base)
  <2> DEFINE b == Message("service_request", k)
  <2>1. b \in Requests
    BY <1>2, <1>3, MessageDoes
  <2> HIDE DEF b
  <2>2. Good([b EXCEPT !.compressed = s.compressed])
    BY <1>2, <2>1 DEF Requests
  <2> QED
    BY <2>2 DEF b, ForeignMessage
<1>6. Good(m)
  <2> HIDE DEF base, k
  <2>1. ASSUME NEW service \in {"known", "unknown"} PROVE Good(ForeignService(k, service))
    <3>1. ForeignService(k, service) = [base EXCEPT !.service = service]
      BY DEF ForeignService, base
    <3> QED
      BY <1>5, <3>1 DEF Requests
  <2>2. ASSUME NEW type \in {"info_response", "channel_open", "unimplemented"}
        PROVE  Good(ForeignOther(k, type))
    <3>1. ForeignOther(k, type) = [base EXCEPT !.type = type]
      BY DEF ForeignOther, base
    <3> QED
      BY <1>5, <3>1 DEF Requests
  <2>3. ASSUME NEW user \in Usernames, NEW service \in {"known", "unknown"}, NEW change \in BOOLEAN
        PROVE  Good(ForeignPassword(k, user, service, change))
    <3>1. ForeignPassword(k, user, service, change) =
            [base EXCEPT !.type = "userauth_request", !.user = user, !.method = "password",
                         !.service = service, !.change = change]
      BY DEF ForeignPassword, base
    <3> QED
      BY <1>5, <3>1 DEF Requests, Methods
  <2>4. ASSUME NEW user \in Usernames, NEW key \in {"good", "unsupported"},
               NEW sig \in {"valid", "invalid", "absent"}
        PROVE  Good(ForeignPublickey(k, user, key, sig))
    <3>1. ForeignPublickey(k, user, key, sig) =
            [base EXCEPT !.type = "userauth_request", !.user = user, !.method = "publickey",
                         !.key = key, !.sig = sig]
      BY DEF ForeignPublickey, base
    <3> QED
      BY <1>5, <3>1 DEF Requests, Methods, Keys
  <2>5. ASSUME NEW user \in Usernames PROVE Good(ForeignInteractive(k, user))
    <3>1. ForeignInteractive(k, user) =
            [base EXCEPT !.type = "userauth_request", !.user = user,
                         !.method = "keyboard-interactive"]
      BY DEF ForeignInteractive, base
    <3> QED
      BY <1>5, <3>1 DEF Requests, Methods
  <2> HIDE DEF Good
  <2> QED
    BY <1>4, <2>1, <2>2, <2>3, <2>4, <2>5 DEF ForeignMessages
<1>7. toServer' \in Seq(Requests) /\ toClient' \in Seq(Answers)
  BY <1>1, <1>2, <1>4, <1>6, SentMore
<1>8. /\ call' \in CallSet /\ call'.pc = call.pc /\ call'.result = call.result
      /\ call'.heard = call.heard /\ call'.n = k /\ call'.fudging = call.fudging
      /\ call'.method = call.method
  <2>1. call' = [call EXCEPT !.n = k]
    BY <1>1, <1>2 DEF CallSet
  <2> HIDE DEF k
  <2> QED
    BY <1>2, <1>3, <2>1 DEF CallSet
<1>9. Counted'
  <2>1. call.fudging => call.n >= 2
    BY <1>2 DEF Counted
  <2>2. call.fudging => k >= 2
    BY <1>2, <2>1
  <2> HIDE DEF k
  <2> QED
    BY <1>2, <1>3, <1>8, <2>2 DEF Counted
<1> QED
  BY <1>1, <1>2, <1>4, <1>6, <1>7, <1>8, <1>9 DEF Sound, TransportsOK

-----------------------------------------------------------------------------
(* The steps of all, and their types                                        *)

\* A step of a call that has begun.
LEMMA CallStepsSound == Sound /\ CallSteps => Sound' /\ call.pc # "idle"
<1> SUFFICES ASSUME Sound, CallSteps PROVE Sound' /\ call.pc # "idle"
  OBVIOUS
<1>1. CASE WaitTimesOut
  <2>1. call.pc = "event"
    BY <1>1 DEF WaitTimesOut
  <2> QED
    BY <1>1, <2>1, WaitTimesOutDoes
<1> QED
  BY <1>1, SessionEnsuredDoes, RequestServiceDoes, RequestAuthDoes, NewEventDoes,
     WaitFindsEndDoes, WaitFindsActiveDoes, EventSetDoes, RaiseSavedDoes, FudgeDoes, FudgeRefusedDoes DEF CallSteps

\* A step of the client's transport thread, or one that ends it.
LEMMA ClientReadsSound == Sound /\ (ClientReads \/ Faults) => Sound' /\ flavour # "Foreign"
<1> SUFFICES ASSUME Sound, ClientReads \/ Faults PROVE Sound' /\ flavour # "Foreign"
  OBVIOUS
<1>1. CASE ServiceAccepted
  BY <1>1, ServiceAcceptedDoes DEF Takes
<1>2. CASE ParseServiceAccept
  BY <1>2, ParseServiceAcceptDoes DEF Takes
<1>3. CASE ParseUserauthBanner
  BY <1>3, ParseUserauthBannerDoes DEF Takes
<1>4. CASE ParseUserauthSuccess
  BY <1>4, ParseUserauthSuccessDoes DEF Takes
<1>5. CASE ParseUserauthFailure
  BY <1>5, ParseUserauthFailureDoes DEF Takes
<1>6. CASE ParseUserauthInfoRequest
  BY <1>6, ParseUserauthInfoRequestDoes DEF Takes
<1>7. CASE ParseDisconnect
  BY <1>7, ParseDisconnectDoes DEF Takes
<1>8. CASE ClientEof
  BY <1>8, ClientEofDoes
<1>9. CASE RunStops \/ RunAborts \/ RunClosed \/ Close
  BY <1>9, StopsDoes
<1>10. CASE ConnectionLost
  BY <1>10, ConnectionLostDoes
<1> QED
  BY <1>1, <1>2, <1>3, <1>4, <1>5, <1>6, <1>7, <1>8, <1>9, <1>10 DEF ClientReads, Faults

\* What a program does: it begins a call, or goes on to the next thing to try.
Drives ==
    /\ program' = program /\ d' \in DriverSet
    /\ program.runs # "application" /\ d.outcome = "none"
    /\ \/ /\ Begins(FALSE) /\ flavour # "Foreign" /\ call.pc = "idle" /\ d.trying = "nothing"
          /\ d'.trying # "nothing" /\ d'.outcome = "none"
       \/ /\ UNCHANGED authVars /\ d.trying = "nothing"
          /\ d'.trying = "nothing" /\ d'.outcome \in {"none", "raised"}
       \/ /\ UNCHANGED authVars /\ d.trying # "nothing" /\ call.pc = "idle"
          /\ d'.trying = "nothing"
          /\ d'.outcome = "returned" => ~call.result.raised
          /\ ~call.result.raised /\ call.result.allowed = {} => d'.outcome = "returned"

\* What a program still has to try.
LEMMA TodoDoes ==
    ASSUME Typed
    PROVE  /\ d.todo \in Seq(IF program.runs = "AuthStrategy" THEN Sources ELSE KeyOrigins)
           /\ d.todo # <<>> =>
                 /\ Tail(d.todo) \in Seq(IF program.runs = "AuthStrategy" THEN Sources ELSE KeyOrigins)
                 /\ Head(d.todo) \in KeyOrigins \cup Sources
                 /\ Head(d.todo) # "nothing"
                 /\ program.runs = "AuthStrategy" => Head(d.todo) \in Sources
<1>1. d.todo \in Seq(IF program.runs = "AuthStrategy" THEN Sources ELSE KeyOrigins)
  BY DEF Typed, DriverOK, DriverSet
<1> DEFINE S == IF program.runs = "AuthStrategy" THEN Sources ELSE KeyOrigins
<1>2. ASSUME d.todo # <<>> PROVE Tail(d.todo) \in Seq(S) /\ Head(d.todo) \in S
  <2> HIDE DEF S
  <2>1. d.todo \in Seq(S)
    BY <1>1 DEF S
  <2> QED
    BY <1>2, <2>1, SentTail
<1> QED
  BY <1>1, <1>2 DEF Sources, KeyOrigins

\* The drivers do one of these.
LEMMA DriverDrives ==
    ASSUME Typed, Driver
    PROVE  Drives /\ Sound'
<1>1. /\ Sound /\ d \in DriverSet /\ program \in Programs
  BY DEF Typed, Sound, DriverOK
<1>2. UNCHANGED authVars => Sound'
  <2> SUFFICES ASSUME UNCHANGED authVars PROVE Sound'
    OBVIOUS
  <2> QED
    BY <1>1 DEF authVars, Sound, TransportsOK, Counted
<1>3. /\ "good" \in Keys /\ "disagreed" \in Keys /\ "publickey" \in Methods
      /\ "password" \in Methods /\ "keyboard-interactive" \in Methods
  BY DEF Keys, Methods
<1>4. CASE TrySource
  <2>1. /\ Running("AuthStrategy") /\ d.trying = "nothing" /\ d.todo # <<>> /\ program' = program
        /\ d' = [d EXCEPT !.todo = Tail(@), !.trying = "source"]
    BY <1>4 DEF TrySource
  <2>2. PICK key \in {"good", "disagreed"} :
          Call(MethodOf(Head(d.todo)), key, Head(d.todo) = "Password", FALSE)
    BY <1>4 DEF TrySource
  <2>3. Head(d.todo) \in Sources /\ program.runs = "AuthStrategy"
    BY <2>1, TodoDoes DEF Running
  <2>4. MethodOf(Head(d.todo)) \in Methods
    BY <2>3 DEF Sources, MethodOf, Methods
  <2>5. (Head(d.todo) = "Password") \in BOOLEAN /\ key \in Keys
    BY <1>3
  <2>6. Sound' /\ Begins(FALSE) /\ call.pc = "idle" /\ flavour # "Foreign"
    BY <1>1, <2>2, <2>4, <2>5, CallDoes
  <2>7. d' \in DriverSet /\ d'.trying = "source" /\ d'.outcome = d.outcome
    BY <1>1, <2>1, TodoDoes DEF DriverSet
  <2> QED
    BY <2>1, <2>6, <2>7 DEF Drives, Running
<1>5. CASE SourceFails
  <2>1. /\ Running("AuthStrategy") /\ d.trying = "nothing" /\ d.todo # <<>>
        /\ d' = [d EXCEPT !.todo = Tail(@)] /\ UNCHANGED <<authVars, program>>
    BY <1>5 DEF SourceFails
  <2>2. d' \in DriverSet /\ d'.trying = d.trying /\ d'.outcome = d.outcome
    BY <1>1, <2>1, TodoDoes DEF DriverSet
  <2> QED
    BY <1>2, <2>1, <2>2 DEF Drives, Running
<1>6. CASE SourceTried
  <2> DEFINE o == IF call.result.raised THEN "none" ELSE "returned"
  <2>1. /\ Running("AuthStrategy") /\ d.trying = "source" /\ call.pc = "idle"
        /\ d' = [d EXCEPT !.trying = "nothing", !.outcome = o] /\ UNCHANGED <<authVars, program>>
    BY <1>6 DEF SourceTried
  <2>2. d' \in DriverSet /\ d'.trying = "nothing" /\ d'.outcome = o
    BY <1>1, <2>1 DEF DriverSet
  <2> QED
    BY <1>2, <2>1, <2>2 DEF Drives, Running
<1>7. CASE SourcesExhausted
  <2>1. /\ Running("AuthStrategy") /\ d.trying = "nothing"
        /\ d' = [d EXCEPT !.outcome = "raised"] /\ UNCHANGED <<authVars, program>>
    BY <1>7 DEF SourcesExhausted
  <2>2. d' \in DriverSet /\ d'.trying = d.trying /\ d'.outcome = "raised"
    BY <1>1, <2>1 DEF DriverSet
  <2> QED
    BY <1>2, <2>1, <2>2 DEF Drives, Running
<1>8. CASE SkipKey
  <2>1. /\ Running("_auth") /\ d.trying = "nothing" /\ d.todo # <<>>
        /\ d' = [d EXCEPT !.todo = Tail(@)] /\ UNCHANGED <<authVars, program>>
    BY <1>8 DEF SkipKey, KeyNext
  <2>2. d' \in DriverSet /\ d'.trying = d.trying /\ d'.outcome = d.outcome
    BY <1>1, <2>1, TodoDoes DEF DriverSet
  <2> QED
    BY <1>2, <2>1, <2>2 DEF Drives, Running
<1>9. CASE TryKey
  <2>1. /\ Running("_auth") /\ d.trying = "nothing" /\ d.todo # <<>> /\ program' = program
        /\ d' = [d EXCEPT !.todo = Tail(@), !.trying = Head(d.todo)]
    BY <1>9 DEF TryKey, KeyNext
  <2>2. PICK key \in {"good", "disagreed"} : Call("publickey", key, FALSE, FALSE)
    BY <1>9 DEF TryKey
  <2>3. key \in Keys
    BY <1>3
  <2>4. Sound' /\ Begins(FALSE) /\ call.pc = "idle" /\ flavour # "Foreign"
    BY <1>1, <1>3, <2>2, <2>3, CallDoes
  <2>5. d' \in DriverSet /\ d'.trying = Head(d.todo) /\ d'.outcome = d.outcome
    BY <1>1, <2>1, TodoDoes DEF DriverSet
  <2> QED
    BY <2>1, <2>4, <2>5, TodoDoes DEF Drives, Running
<1>10. CASE KeyFails
  <2>1. /\ Running("_auth") /\ d.trying = "nothing" /\ d.todo # <<>> /\ UNCHANGED <<authVars, program>>
        /\ \/ d' = [d EXCEPT !.todo = Tail(@), !.saved = TRUE]
           \/ d' = [d EXCEPT !.outcome = "raised"]
    BY <1>10 DEF KeyFails, KeyNext
  <2>2. d' \in DriverSet /\ d'.trying = d.trying /\ d'.outcome \in {d.outcome, "raised"}
    BY <1>1, <2>1, TodoDoes DEF DriverSet
  <2> QED
    BY <1>2, <2>1, <2>2 DEF Drives, Running
<1>11. CASE KeyTried
  <2> DEFINE f == call.result.allowed \cap TwoFactorTypes # {}
             tried == [d EXCEPT !.trying = "nothing"]
             e == d.early \/ (d.trying = "pkey" /\ f)
             o == IF f THEN "none" ELSE "returned"
  <2>1. /\ Running("_auth") /\ d.trying \in KeyOrigins /\ call.pc = "idle"
        /\ d' = IF call.result.raised
                THEN IF call.result.kind \in NotSSHException THEN [tried EXCEPT !.outcome = "raised"]
                                                   ELSE [tried EXCEPT !.saved = TRUE]
                ELSE [tried EXCEPT !.twoFactor = f, !.early = @ \/ (d.trying = "pkey" /\ f),
                                   !.outcome = o]
        /\ UNCHANGED <<authVars, program>>
    BY <1>11 DEF KeyTried
  <2>2. tried \in DriverSet /\ tried.trying = "nothing" /\ tried.outcome = d.outcome
        /\ tried.early = d.early
    BY <1>1 DEF DriverSet
  <2>3. f \in BOOLEAN /\ e \in BOOLEAN
    BY <1>1 DEF DriverSet
  <2>4. call.result.allowed = {} => o = "returned"
    OBVIOUS
  <2>5. d' = IF call.result.raised
             THEN IF call.result.kind \in NotSSHException THEN [tried EXCEPT !.outcome = "raised"]
                                                ELSE [tried EXCEPT !.saved = TRUE]
             ELSE [tried EXCEPT !.twoFactor = f, !.early = e, !.outcome = o]
    BY <2>1, <2>2 DEF DriverSet
  <2>6. o \in {"none", "returned"}
    OBVIOUS
  <2> HIDE DEF f, e, o, tried
  <2>7. CASE call.result.raised
    <3>1. d' \in DriverSet /\ d'.trying = "nothing" /\ d'.outcome \in {d.outcome, "raised"}
      BY <2>2, <2>5, <2>7 DEF DriverSet
    <3> QED
      BY <1>2, <2>1, <2>7, <3>1 DEF Drives, Running, KeyOrigins
  <2>8. CASE ~call.result.raised
    <3>1. d' \in DriverSet /\ d'.trying = "nothing" /\ d'.outcome = o
      BY <2>2, <2>3, <2>5, <2>6, <2>8 DEF DriverSet
    <3> QED
      BY <1>2, <2>1, <2>4, <2>8, <3>1 DEF Drives, Running, KeyOrigins
  <2> QED
    BY <2>7, <2>8
<1>12. CASE TryLast
  <2> DEFINE method == IF program.password THEN "password" ELSE "keyboard-interactive"
  <2>1. /\ Running("_auth") /\ d.trying = "nothing" /\ program' = program
        /\ d' = [d EXCEPT !.trying = "last"]
        /\ Call(method, "good", program.password, FALSE)
    BY <1>12 DEF TryLast
  <2>2. method \in Methods /\ program.password \in BOOLEAN
    BY <1>1, <1>3, ProgramsAssumption
  <2>3. Sound' /\ Begins(FALSE) /\ call.pc = "idle" /\ flavour # "Foreign"
    BY <1>1, <1>3, <2>1, <2>2, CallDoes
  <2>4. d' \in DriverSet /\ d'.trying = "last" /\ d'.outcome = d.outcome
    BY <1>1, <2>1 DEF DriverSet
  <2> QED
    BY <2>1, <2>3, <2>4 DEF Drives, Running
<1>13. CASE LastTried
  <2> DEFINE o == IF call.result.raised THEN "raised" ELSE "returned"
  <2>1. /\ Running("_auth") /\ d.trying = "last" /\ call.pc = "idle"
        /\ d' = [d EXCEPT !.trying = "nothing", !.outcome = o] /\ UNCHANGED <<authVars, program>>
    BY <1>13 DEF LastTried
  <2>2. d' \in DriverSet /\ d'.trying = "nothing" /\ d'.outcome = o
    BY <1>1, <2>1 DEF DriverSet
  <2> QED
    BY <1>2, <2>1, <2>2 DEF Drives, Running
<1>14. CASE NothingToTry
  <2>1. /\ Running("_auth") /\ d.trying = "nothing"
        /\ d' = [d EXCEPT !.outcome = "raised"] /\ UNCHANGED <<authVars, program>>
    BY <1>14 DEF NothingToTry
  <2>2. d' \in DriverSet /\ d'.trying = d.trying /\ d'.outcome = "raised"
    BY <1>1, <2>1 DEF DriverSet
  <2> QED
    BY <1>2, <2>1, <2>2 DEF Drives, Running
<1> QED
  BY <1>4, <1>5, <1>6, <1>7, <1>8, <1>9, <1>10, <1>11, <1>12, <1>13, <1>14 DEF Driver

Idly == UNCHANGED <<program, d>>
AnyCall ==
    \E method \in Methods, key \in Keys, fallback, async \in BOOLEAN :
        Call(method, key, fallback, async)

\* The steps there are.
LEMMA NextCases ==
    ASSUME Next
    PROVE  \/ AnyCall /\ Idly /\ program.runs = "application"
           \/ CallRefused /\ Idly /\ program.runs = "application"
           \/ Driver
           \/ CallSteps /\ Idly
           \/ ClientReads /\ Idly
           \/ ServerReads /\ Idly
           \/ Faults /\ Idly
           \/ Foreign /\ Idly
<1>1. CASE Application
  <2>1. program.runs = "application" /\ Idly
    BY <1>1 DEF Application, Running, Idly
  <2>2. AnyCall \/ CallRefused
    BY <1>1 DEF Application, AnyCall, Keys
  <2> QED
    BY <2>1, <2>2
<1>2. CASE Driver
  BY <1>2
<1>3. CASE Transports
  BY <1>3 DEF Transports, Idly
<1> QED
  BY <1>1, <1>2, <1>3 DEF Next

\* The types hold at first.
LEMMA InitTyped == Init => Typed
<1> SUFFICES ASSUME Init PROVE Typed
  OBVIOUS
<1>1. AuthInit /\ program \in Programs
      /\ d = [todo |-> program.todo, trying |-> "nothing", twoFactor |-> FALSE,
              early |-> FALSE, saved |-> FALSE, outcome |-> "none"]
  BY DEF Init
<1>2. flavour \in {"Transport", "ServiceRequesting", "Foreign"}
  BY <1>1, AuthAssumption DEF AuthInit
<1>3. c \in ClientSet
  <2>1. NoException \in Saved
    BY DEF NoException, Saved, Kinds
  <2> QED
    BY <1>1, <2>1 DEF AuthInit, ClientSet
<1>4. h \in HandlerSet
  <2>1. h = [NewHandler EXCEPT !.made = FALSE] /\ NewHandler \in HandlerSet
    BY <1>1, NewHandlerDoes DEF AuthInit
  <2> QED
    BY <2>1 DEF HandlerSet
<1>5. call \in CallSet /\ Counted
  <2>1. Raised("none") \in ResultSet /\ Returned("none", {}) \in ResultSet
    BY DEF Raised, Returned, ResultSet, Kinds
  <2>2. "none" \in Methods /\ "good" \in Keys /\ 0 \in Numbers
    BY Bounds DEF Methods, Keys
  <2>3. call = [pc |-> "idle", n |-> 0, method |-> "none", key |-> "good", fallback |-> FALSE,
                async |-> FALSE, fudging |-> FALSE, woken |-> FALSE,
                heard |-> FALSE, original |-> Raised("none"),
                result |-> Returned("none", {}), about |-> 0]
    BY <1>1 DEF AuthInit
  <2>4. call \in CallSet /\ call.pc = "idle" /\ call.fudging = FALSE
    BY <2>1, <2>2, <2>3 DEF CallSet
  <2> QED
    BY <2>4 DEF Counted
<1>6. s \in ServerSet
  <2> DEFINE f == [n \in 0..(2 * MaxAttempts) |-> "nothing"]
  <2>1. s = [active |-> TRUE, user |-> Nobody, authenticated |-> FALSE, fails |-> 0,
             queries |-> 0, compressed |-> 0, opened |-> FALSE, grant |-> Nobody, said |-> f]
    BY <1>1 DEF AuthInit
  <2>2. f \in [Numbers -> Results \cup {"nothing"}]
    BY DEF Numbers
  <2> HIDE DEF f
  <2> QED
    BY <2>1, <2>2 DEF ServerSet
<1>7. /\ toServer \in Seq(Requests) /\ toClient \in Seq(Answers) /\ abandoned \in BOOLEAN
      /\ garbled \in BOOLEAN
  <2>1. toServer = <<>> /\ toClient = <<>> /\ abandoned = FALSE /\ garbled = FALSE
    BY <1>1 DEF AuthInit
  <2>2. <<>> \in Seq(Requests) /\ <<>> \in Seq(Answers)
    OBVIOUS
  <2> QED
    BY <2>1, <2>2, Zenon
<1>8. d \in DriverSet
  <2>1. program.todo \in Seq(IF program.runs = "AuthStrategy" THEN Sources ELSE KeyOrigins)
    BY <1>1, ProgramsAssumption
  <2> QED
    BY <1>1, <2>1 DEF DriverSet
<1> QED
  BY <1>1, <1>2, <1>3, <1>4, <1>5, <1>6, <1>7, <1>8 DEF Typed, TransportsOK, DriverOK

\* A step that leaves everything alone.
LEMMA StutterTyped == Typed /\ UNCHANGED vars => Typed'
<1> SUFFICES ASSUME Typed, UNCHANGED vars PROVE Typed'
  OBVIOUS
<1>1. UNCHANGED <<flavour, c, h, call, s, toServer, toClient, abandoned, garbled, program, d>>
  BY DEF vars, authVars
<1>2. TransportsOK' /\ Counted'
  BY <1>1 DEF Typed, TransportsOK, Counted
<1>3. DriverOK'
  BY <1>1 DEF Typed, DriverOK, DriverSet
<1> QED
  BY <1>2, <1>3 DEF Typed

\* They hold afterwards.
LEMMA NextTyped == Typed /\ [Next]_vars => Typed'
<1> SUFFICES ASSUME Typed, Next PROVE Typed'
  BY StutterTyped
<1>1. Sound /\ DriverOK
  BY DEF Typed, Sound
<1>2. Sound' /\ (Idly \/ Driver)
  <2>1. CASE AnyCall /\ Idly
    BY <1>1, <2>1, CallDoes DEF AnyCall
  <2>2. CASE CallRefused /\ Idly
    BY <1>1, <2>2, CallRefusedDoes
  <2>3. CASE Driver
    BY <2>3, DriverDrives
  <2>4. CASE CallSteps /\ Idly
    BY <1>1, <2>4, CallStepsSound
  <2>5. CASE (ClientReads \/ Faults) /\ Idly
    BY <1>1, <2>5, ClientReadsSound
  <2>6. CASE ServerReads /\ Idly
    BY <1>1, <2>6, ServerReadsDo
  <2>7. CASE Foreign /\ Idly
    BY <1>1, <2>7, ForeignDoes
  <2> QED
    BY <2>1, <2>2, <2>3, <2>4, <2>5, <2>6, <2>7, NextCases
<1>3. CASE Idly
  BY <1>1, <1>2, <1>3 DEF Idly, Typed, Sound, DriverOK, DriverSet
<1>4. CASE Driver
  <2>1. d' \in DriverSet /\ program' = program
    BY <1>4, DriverDrives DEF Drives
  <2> QED
    BY <1>1, <1>2, <2>1 DEF Typed, Sound, DriverOK, DriverSet
<1> QED
  BY <1>2, <1>3, <1>4

\* The records, the messages on their way and the numbers of the calls are what they are
\* taken for, and auth_password tries to fudge once (auth_handler.py, transport.py).
THEOREM AuthTypes == Spec => []Typed
<1> QED
  BY InitTyped, NextTyped, PTL DEF Spec

-----------------------------------------------------------------------------
(* One user, and no channel before a success                                *)

SameServer ==
    /\ s'.user = s.user /\ s'.authenticated = s.authenticated /\ s'.compressed = s.compressed
    /\ s'.opened = s.opened /\ s'.said = s.said

\* Only the server's own thread changes what it has decided.
LEMMA ServerAlone ==
    ASSUME Typed, [Next]_vars
    PROVE  SameServer \/ (ServerReads /\ Idly)
<1>1. Sound
  BY DEF Typed, Sound
<1>2. s' = s => SameServer
  BY DEF SameServer
<1>3. CASE AnyCall /\ Idly
  BY <1>1, <1>2, <1>3, CallDoes DEF AnyCall, Begins
<1>4. CASE CallRefused /\ Idly
  BY <1>2, <1>4 DEF CallRefused
<1>5. CASE Driver
  BY <1>2, <1>5, DriverDrives DEF Drives, Begins, authVars
<1>6. CASE CallSteps /\ Idly
  <2>1. s' = s
    BY <1>6 DEF CallSteps, SessionEnsured, RequestService, RequestAuth, NewEvent,
                WaitFindsEnd, WaitFindsActive, EventSet, WaitTimesOut, RaiseSaved,
                Fudge, FudgeRefused
  <2> QED
    BY <1>2, <2>1
<1>7. CASE ClientReads /\ Idly
  <2>1. s' = s
    BY <1>7 DEF ClientReads, ClientTakes, ServiceAccepted, ParseServiceAccept,
                ParseUserauthBanner, ParseUserauthSuccess, ParseUserauthFailure,
                ParseUserauthInfoRequest, ParseDisconnect, ClientEof,
                RunStops, RunAborts, RunClosed
  <2> QED
    BY <1>2, <2>1
<1>8. CASE Faults /\ Idly
  BY <1>1, <1>2, <1>8, StopsDoes, ConnectionLostDoes DEF Faults, SameServer, Stops
<1>9. CASE Foreign /\ Idly
  BY <1>2, <1>9 DEF Foreign
<1>10. CASE UNCHANGED vars
  BY <1>2, <1>10 DEF vars, authVars
<1> QED
  BY <1>3, <1>4, <1>5, <1>6, <1>7, <1>8, <1>9, <1>10, NextCases

\* What the server decides: the user stays, a channel needs a success, a success stays.
LEMMA ServerDecides ==
    ASSUME Typed, Guarded, [Next]_vars
    PROVE  /\ s.user # Nobody => s'.user = s.user
           /\ s'.opened => s.authenticated
           /\ s.authenticated => s'.authenticated
<1>1. Sound
  BY DEF Typed, Sound
<1>2. CASE SameServer
  BY <1>2 DEF SameServer, Guarded
<1>3. CASE ServerReads /\ Idly
  <2>1. Leaves \/ Calmly \/ Judges
    BY <1>1, <1>3, ServerReadsDo
  <2>2. CASE Leaves \/ Calmly
    <3>1. Undecided
      BY <2>2 DEF Leaves, Calmly
    <3> QED
      BY <3>1 DEF Undecided, Guarded
  <2>3. CASE Judges
    BY <2>3 DEF Judges, Guarded
  <2> QED
    BY <2>1, <2>2, <2>3
<1> QED
  BY <1>2, <1>3, ServerAlone

\* The user that partial successes and failures are counted for never changes
\* (_parse_userauth_request), and no channel is opened before a success (_ensure_authed).
THEOREM AuthOneUser == Spec => OneUser
<1>1. Init => Guarded
  BY DEF Init, AuthInit, Guarded
<1>2. Typed /\ Guarded /\ [Next]_vars => Guarded'
  BY ServerDecides DEF Guarded
<1>3. Typed /\ Guarded /\ [Next]_vars =>
        [/\ s.user # Nobody => s'.user = s.user
         /\ s'.opened => s.authenticated]_vars
  BY ServerDecides
<1> QED
  BY <1>1, <1>2, <1>3, InitTyped, NextTyped, PTL DEF Spec, OneUser

-----------------------------------------------------------------------------
(* An answer wakes its caller                                               *)

\* What is on its way has a number.
LEMMA OnItsWay ==
    ASSUME Sound
    PROVE  /\ Sent(toServer) \subseteq Requests /\ Sent(toClient) \subseteq Answers
           /\ \A m \in Sent(toServer) \cup Sent(toClient) : m.n \in Nat
           /\ call.n \in Nat
<1>1. toServer \in Seq(Requests) /\ toClient \in Seq(Answers) /\ call \in CallSet
  BY DEF Sound, TransportsOK
<1>2. Sent(toServer) \subseteq Requests
  BY <1>1 DEF Sent
<1>3. Sent(toClient) \subseteq Answers
  BY <1>1 DEF Sent
<1>4. (\A m \in Requests : m.n \in Nat) /\ (\A m \in Answers : m.n \in Nat)
  BY Bounds DEF Requests, Answers
<1>5. call.n \in Nat
  BY <1>1, Bounds DEF CallSet
<1> QED
  BY <1>2, <1>3, <1>4, <1>5

\* A step that does not touch a waiting caller, nor the numbers that are on their way.
LEMMA WakesKept ==
    ASSUME Wakes, flavour' = flavour, call'.pc = call.pc, call'.n = call.n,
           call.pc = "made" => call'.heard = call.heard,
           call.pc \in {"wait", "event"} => (call'.heard => call.heard \/ call'.woken),
           call.woken => call'.woken,
           h'.event = h.event, h'.user => h.user,
           Sent(toServer') \subseteq Sent(toServer), Sent(toClient') \subseteq Sent(toClient)
    PROVE  Wakes'
<1> SUFFICES ASSUME flavour = "Transport" PROVE Wakes'
  BY DEF Wakes
<1> QED
  BY DEF Wakes

\* A message may be added that is about the attempt, if that is known, or an older one.
LEMMA WakesSend ==
    ASSUME Wakes, flavour' = flavour, call'.pc = call.pc, call'.n = call.n,
           call'.heard = call.heard, call'.woken = call.woken, h'.event = h.event, h'.user => h.user,
           \A m \in Sent(toServer') :
              m \in Sent(toServer) \/ (m.n <= call.n /\ (call.pc = "made" => m.n < call.n)),
           \A m \in Sent(toClient') :
              m \in Sent(toClient) \/ (m.n <= call.n /\ (call.pc = "made" => m.n < call.n))
    PROVE  Wakes'
<1> SUFFICES ASSUME flavour = "Transport" PROVE Wakes'
  BY DEF Wakes
<1> QED
  BY DEF Wakes

\* A call that ended, or one that is about to try to fudge.
LEMMA WakesEnd ==
    ASSUME Wakes, flavour' = flavour, call'.pc \in {"idle", "fudge"}, call'.n = call.n,
           \A m \in Sent(toServer') : m \in Sent(toServer) \/ m.n <= call.n,
           toClient' = toClient
    PROVE  Wakes'
<1> SUFFICES ASSUME flavour = "Transport" PROVE Wakes'
  BY DEF Wakes
<1> QED
  BY DEF Wakes

\* A new attempt.
LEMMA WakesBegin ==
    ASSUME Typed, Wakes, NEW f, Begins(f)
    PROVE  Wakes'
<1> SUFFICES ASSUME flavour = "Transport" PROVE Wakes'
  BY DEF Wakes, Begins
<1>1. /\ call'.n = call.n + 1 /\ ~call'.heard /\ h' = NewHandler /\ call'.pc = "made"
      /\ toServer' = toServer /\ toClient' = toClient
  BY DEF Begins
<1>2. Sound
  BY DEF Typed, Sound
<1>3. ~h'.user
  BY <1>1, NewHandlerDoes
<1>4. \A m \in Sent(toServer) \cup Sent(toClient) : m.n < call.n + 1 /\ m.n <= call.n + 1
  <2> SUFFICES ASSUME NEW m \in Sent(toServer) \cup Sent(toClient)
               PROVE  m.n < call.n + 1 /\ m.n <= call.n + 1
    OBVIOUS
  <2>1. m.n <= call.n /\ m.n \in Nat /\ call.n \in Nat
    BY <1>2, OnItsWay DEF Wakes
  <2> QED
    BY <2>1
<1> QED
  BY <1>1, <1>3, <1>4 DEF Wakes

\* A step of the user thread.
LEMMA CallStepsWake ==
    ASSUME Typed, Wakes, CallSteps
    PROVE  Wakes'
<1>1. Sound /\ call.n \in Nat /\ c \in ClientSet /\ toServer \in Seq(Requests)
      /\ call.n \in Numbers /\ call \in CallSet
  BY OnItsWay DEF Typed, Sound, TransportsOK, CallSet
<1>2. CASE SessionEnsured
  BY <1>1, <1>2, SessionEnsuredDoes DEF Wakes, Moves
<1>3. CASE RequestService
  <2>1. /\ flavour = "Transport" /\ flavour' = flavour /\ call.pc = "made" /\ h'.event = call.n
        /\ toClient' = toClient
    BY <1>1, <1>3, RequestServiceDoes DEF Ends, Moves
  <2> DEFINE q == Message("service_request", call.n)
  <2>2. q \in Requests /\ q.n = call.n
    BY <1>1, MessageDoes
  <2>3. Sent(toServer') \subseteq Sent(toServer) \cup {q}
    <3> HIDE DEF q
    <3>1. toServer' = toServer \/ toServer' = Append(toServer, q)
      BY <1>1, <1>3, RequestServiceDoes DEF q
    <3>2. CASE toServer' = toServer
      BY <3>2
    <3>3. CASE toServer' = Append(toServer, q)
      BY <1>1, <2>2, <3>3, SentMore
    <3> QED
      BY <3>1, <3>2, <3>3
  <2> HIDE DEF q
  <2>4. \A m \in Sent(toServer') : m \in Sent(toServer) \/ m.n <= call.n
    BY <1>1, <2>2, <2>3
  <2>5. CASE call'.pc = "idle" /\ call'.n = call.n
    BY <2>1, <2>3, <2>4, <2>5, WakesEnd
  <2>6. CASE Moves("wait")
    <3>1. call'.pc = "wait" /\ call'.n = call.n /\ ~call'.heard
      BY <2>1, <2>6 DEF Wakes, Moves, SameAttempt
    <3>2. /\ \A m \in Sent(toServer') : m.n <= call.n
          /\ \A m \in Sent(toClient') : m.n <= call.n
      BY <2>1, <2>3, <2>4 DEF Wakes
    <3> QED
      BY <2>1, <3>1, <3>2 DEF Wakes
  <2> QED
    BY <1>1, <1>3, <2>5, <2>6, RequestServiceDoes DEF Ends, SameAttempt
<1>4. CASE RequestAuth
  <2>1. flavour' = flavour /\ flavour = "ServiceRequesting"
    BY <1>4 DEF RequestAuth
  <2> QED
    BY <2>1 DEF Wakes
<1>5. CASE NewEvent
  BY <1>1, <1>5, NewEventDoes DEF Wakes, Moves
<1>6. CASE WaitFindsEnd \/ RaiseSaved
  <2>1. PICK r : Concluded(r) /\ toServer' = toServer
    BY <1>1, <1>6, WaitFindsEndDoes, RaiseSavedDoes
  <2>2. /\ flavour' = flavour /\ call'.pc \in {"idle", "fudge"} /\ call'.n = call.n
        /\ toServer' = toServer /\ toClient' = toClient
    BY <2>1 DEF Concluded, Ends, Moves, SameAttempt
  <2> QED
    BY <2>2, WakesEnd
<1>10. CASE WaitFindsActive
  <2>1. /\ UNCHANGED <<flavour, h, toServer, toClient>> /\ call'.pc = "event" /\ call.pc = "wait"
        /\ call'.n = call.n /\ call'.heard = call.heard /\ call'.woken = call.woken
    BY <1>1, <1>10, WaitFindsActiveDoes DEF Moves, SameAttempt
  <2> QED
    BY <2>1 DEF Wakes
<1>11. CASE EventSet
  <2>1. /\ UNCHANGED <<flavour, h, toServer, toClient>> /\ call'.pc \in {"idle", "except"}
        /\ call'.n = call.n
    BY <1>1, <1>11, EventSetDoes DEF Ends, Moves, SameAttempt
  <2> QED
    BY <2>1 DEF Wakes
<1>7. CASE WaitTimesOut
  <2>1. /\ flavour' = flavour /\ call'.pc = "idle" /\ call'.n = call.n
        /\ toServer' = toServer /\ toClient' = toClient
    BY <1>1, <1>7, WaitTimesOutDoes DEF Ends, SameAttempt
  <2> QED
    BY <2>1, WakesEnd
<1>8. CASE Fudge
  BY <1>1, <1>8, FudgeDoes, WakesBegin
<1>9. CASE FudgeRefused
  <2>1. /\ flavour' = flavour /\ call'.pc = "idle" /\ call'.n = call.n
        /\ toServer' = toServer /\ toClient' = toClient
    BY <1>1, <1>9, FudgeRefusedDoes DEF Ends, SameAttempt
  <2> QED
    BY <2>1, WakesEnd
<1> QED
  BY <1>2, <1>3, <1>4, <1>5, <1>6, <1>7, <1>8, <1>9, <1>10, <1>11 DEF CallSteps

\* A transport that ends hears nothing.
LEMMA DiesWakes ==
    ASSUME Wakes, Sound, NEW kind, Dies(kind),
           Sent(toServer') \subseteq Sent(toServer), Sent(toClient') \subseteq Sent(toClient)
    PROVE  Wakes'
<1>1. /\ flavour' = flavour /\ call'.pc = call.pc /\ call'.n = call.n /\ h' = h
      /\ call'.heard = call.heard /\ (call.woken => call'.woken)
  BY DEF Dies
<1> QED
  BY <1>1, WakesKept

\* A step of the client's transport thread.
LEMMA ClientReadsWake ==
    ASSUME Typed, Wakes, ClientReads \/ Faults
    PROVE  Wakes'
<1>1. /\ Sound /\ call.n \in Nat /\ c \in ClientSet /\ toServer \in Seq(Requests)
      /\ call \in CallSet /\ h \in HandlerSet /\ toClient \in Seq(Answers)
      /\ (call.pc # "idle" => call.n >= 1)
  BY OnItsWay DEF Typed, Sound, TransportsOK, Counted
<1>2. ASSUME NEW type, Takes(type)
      PROVE  /\ flavour' = flavour /\ Head(toClient) \in Sent(toClient) /\ Head(toClient) \in Answers
             /\ Sent(toClient') \subseteq Sent(toClient)
  BY <1>1, <1>2, SentTail DEF Takes
<1>3. CASE ServiceAccepted
  <2>1. flavour' = flavour /\ flavour = "ServiceRequesting"
    BY <1>1, <1>3, ServiceAcceptedDoes DEF Takes
  <2> QED
    BY <2>1 DEF Wakes
<1>4. CASE ParseServiceAccept
  <2>1. Takes("service_accept") /\ flavour = "Transport"
    BY <1>1, <1>4, ParseServiceAcceptDoes
  <2>2. CASE toServer' = toServer /\ \E kind \in {"other", "ssh"} : Dies(kind)
    BY <1>1, <1>2, <2>1, <2>2, DiesWakes
  <2>3. CASE /\ h.user /\ toServer' = Append(toServer, UserauthRequest(h.method))
             /\ UNCHANGED <<c, h, call>>
    <3> DEFINE q == UserauthRequest(h.method)
    <3>1. q \in Requests /\ q.n = call.n
      <4>1. h.method \in Methods \cup {""}
        BY <1>1 DEF HandlerSet
      <4> QED
        BY <1>1, <4>1, UserauthRequestDoes
    <3>2. toServer' = Append(toServer, q)
      BY <2>3
    <3> HIDE DEF q
    <3>3. Sent(toServer') = Sent(toServer) \cup {q}
      BY <1>1, <3>1, <3>2, SentMore
    <3>4. call.pc # "made"
      BY <2>1, <2>3 DEF Wakes
    <3>5. \A m \in Sent(toServer') :
            m \in Sent(toServer) \/ (m.n <= call.n /\ (call.pc = "made" => m.n < call.n))
      BY <1>1, <3>1, <3>3, <3>4
    <3>6. flavour' = flavour /\ Sent(toClient') \subseteq Sent(toClient)
      BY <1>2, <2>1
    <3> QED
      BY <2>3, <3>5, <3>6, WakesSend
  <2> QED
    BY <1>1, <1>4, <2>2, <2>3, ParseServiceAcceptDoes
<1>5. CASE ParseUserauthBanner
  <2>1. /\ Takes("banner") /\ UNCHANGED <<c, call>> /\ h'.event = h.event /\ h'.user = h.user
    BY <1>1, <1>5, ParseUserauthBannerDoes
  <2> DEFINE q == Message("unimplemented", 0)
  <2>2. q \in Requests /\ q.n = 0
    BY <1>1, Bounds, MessageDoes
  <2>3. Sent(toServer') \subseteq Sent(toServer) \cup {q}
    <3> HIDE DEF q
    <3>1. toServer' = toServer \/ toServer' = Append(toServer, q)
      BY <1>1, <1>5, ParseUserauthBannerDoes DEF q
    <3>2. CASE toServer' = toServer
      BY <3>2
    <3>3. CASE toServer' = Append(toServer, q)
      BY <1>1, <2>2, <3>3, SentMore
    <3> QED
      BY <3>1, <3>2, <3>3
  <2> HIDE DEF q
  <2>4. \A m \in Sent(toServer') :
          m \in Sent(toServer) \/ (m.n <= call.n /\ (call.pc = "made" => m.n < call.n))
    BY <1>1, <2>2, <2>3
  <2>5. flavour' = flavour /\ Sent(toClient') \subseteq Sent(toClient)
    BY <1>2, <2>1
  <2> QED
    BY <2>1, <2>4, <2>5, WakesSend
<1>6. CASE ParseUserauthSuccess \/ ParseUserauthFailure
  <2>1. /\ Takes("success") \/ Takes("failure")
        /\ toServer' = toServer /\ Hears(Head(toClient).n)
        /\ h'.event = h.event /\ (h'.user => h.user)
    BY <1>1, <1>6, ParseUserauthSuccessDoes, ParseUserauthFailureDoes
  <2>2. /\ flavour' = flavour /\ Head(toClient) \in Sent(toClient) /\ Head(toClient) \in Answers
        /\ Sent(toClient') \subseteq Sent(toClient)
    BY <1>2, <2>1
  <2>3. /\ call'.pc = call.pc /\ call'.n = call.n
        /\ call'.heard = (call.heard \/ Head(toClient).n = call.n)
        /\ call'.woken = (call.woken \/ h.event = call.n)
    BY <2>1 DEF Hears, SamePlace
  <2>4. CASE flavour = "Transport"
    <3>1. call.pc = "made" => Head(toClient).n # call.n
      <4>1. call.pc = "made" => Head(toClient).n < call.n
        BY <2>2, <2>4 DEF Wakes
      <4>2. Head(toClient).n \in Nat
        BY <1>1, <2>2, OnItsWay
      <4> QED
        BY <1>1, <4>1, <4>2
    <3>2. call.pc = "made" => call'.heard = call.heard
      <4>1. call.heard \in BOOLEAN
        BY <1>1 DEF CallSet
      <4> QED
        BY <2>3, <3>1, <4>1
    <3>3. call.pc \in {"wait", "event"} => call'.woken
      BY <2>3, <2>4 DEF Wakes
    <3> QED
      BY <2>1, <2>2, <2>3, <3>2, <3>3, WakesKept
  <2>5. CASE flavour # "Transport"
    BY <2>2, <2>5 DEF Wakes
  <2> QED
    BY <2>4, <2>5
<1>7. CASE ParseUserauthInfoRequest
  <2>1. Takes("info_request")
    BY <1>1, <1>7, ParseUserauthInfoRequestDoes
  <2>2. CASE toServer' = toServer /\ Dies("ssh")
    BY <1>1, <1>2, <2>1, <2>2, DiesWakes
  <2>3. CASE /\ toServer' = Append(toServer, Message("info_response", Head(toClient).n))
             /\ UNCHANGED <<c, h, call>>
    <3> DEFINE q == Message("info_response", Head(toClient).n)
    <3>1. q \in Requests /\ q.n = Head(toClient).n
      <4>1. Head(toClient).n \in Numbers
        BY <1>2, <2>1 DEF Answers
      <4> QED
        BY <1>1, <4>1, MessageDoes
    <3>2. toServer' = Append(toServer, q)
      BY <2>3
    <3> HIDE DEF q
    <3>3. Sent(toServer') = Sent(toServer) \cup {q}
      BY <1>1, <3>1, <3>2, SentMore
    <3>4. CASE flavour = "Transport"
      <4>1. q.n <= call.n /\ (call.pc = "made" => q.n < call.n)
        BY <1>2, <2>1, <3>1, <3>4 DEF Wakes
      <4>2. \A m \in Sent(toServer') :
              m \in Sent(toServer) \/ (m.n <= call.n /\ (call.pc = "made" => m.n < call.n))
        BY <3>3, <4>1
      <4>3. flavour' = flavour /\ Sent(toClient') \subseteq Sent(toClient)
        BY <1>2, <2>1
      <4> QED
        BY <2>3, <4>2, <4>3, WakesSend
    <3>5. CASE flavour # "Transport"
      BY <1>2, <2>1, <3>5 DEF Wakes
    <3> QED
      BY <3>4, <3>5
  <2> QED
    BY <1>1, <1>7, <2>2, <2>3, ParseUserauthInfoRequestDoes
<1>8. CASE ParseDisconnect
  BY <1>1, <1>2, <1>8, ParseDisconnectDoes, DiesWakes
<1>9. CASE ClientEof
  BY <1>1, <1>9, ClientEofDoes, DiesWakes
<1>10. CASE RunStops \/ RunAborts \/ RunClosed \/ Close
  BY <1>1, <1>10, StopsDoes, WakesKept DEF Stops, SamePlace
<1>11. CASE ConnectionLost
  <2>1. Dies("eof") /\ Sent(toServer') = {} /\ Sent(toClient') = {}
    BY <1>1, <1>11, ConnectionLostDoes, SentFew
  <2> QED
    BY <1>1, <2>1, DiesWakes
<1> QED
  BY <1>3, <1>4, <1>5, <1>6, <1>7, <1>8, <1>9, <1>10, <1>11 DEF ClientReads, Faults

\* What the server's message says of the queues, whatever it decides.
LEMMA ServesQueues ==
    ASSUME Sound, NEW ms, Serves(ms)
    PROVE  /\ ms \in Seq(Answers) /\ Head(toServer) \in Requests /\ Head(toServer) \in Sent(toServer)
           /\ Sent(toServer') \subseteq Sent(toServer)
           /\ Sent(toClient') = Sent(toClient) \cup Sent(ms)
           /\ Sent(ms) \subseteq Answers
<1>1. toServer \in Seq(Requests) /\ toClient \in Seq(Answers)
  BY DEF Sound, TransportsOK
<1>2. /\ toServer # <<>> /\ toServer' = Tail(toServer) /\ ms \in Seq(Answers)
      /\ toClient' = toClient \o ms
  BY DEF Serves
<1>3. /\ Head(toServer) \in Requests /\ Head(toServer) \in Sent(toServer)
      /\ Sent(toServer') \subseteq Sent(toServer)
  BY <1>1, <1>2, SentTail
<1>4. Sent(toClient') = Sent(toClient) \cup Sent(ms)
  BY <1>1, <1>2, SentMore
<1>5. Sent(ms) \subseteq Answers
  BY <1>2 DEF Sent
<1> QED
  BY <1>2, <1>3, <1>4, <1>5

\* A step of the server: its answers are about the request, or about nothing.
LEMMA ServerReadsWake ==
    ASSUME Typed, Wakes, ServerReads
    PROVE  Wakes'
<1>1. Sound /\ call.n \in Nat
  BY OnItsWay DEF Typed, Sound
<1>2. Leaves \/ Calmly \/ Judges
  BY <1>1, ServerReadsDo
<1>3. CASE Leaves
  BY <1>3, WakesKept DEF Leaves
<1>4. CASE Calmly \/ Judges
  <2>1. PICK ms : Serves(ms) /\ \A m \in Sent(ms) : m.n = 0 \/ m.n = Head(toServer).n
    BY <1>4 DEF Calmly, Judges, Accepts, Prompts
  <2>2. UNCHANGED <<flavour, c, h, call, abandoned, garbled>>
    BY <2>1 DEF Serves
  <2>3. CASE flavour = "Transport"
    <3>1. /\ Head(toServer).n <= call.n /\ (call.pc = "made" => Head(toServer).n < call.n)
          /\ (call.pc = "made" => 0 < call.n)
      BY <1>1, <2>1, <2>3, ServesQueues DEF Wakes, Typed, Counted
    <3>2. \A m \in Sent(ms) : m.n <= call.n /\ (call.pc = "made" => m.n < call.n)
      BY <1>1, <2>1, <3>1
    <3> QED
      BY <1>1, <2>1, <2>2, <3>2, ServesQueues, WakesSend
  <2>4. CASE flavour # "Transport"
    BY <2>2, <2>4 DEF Wakes
  <2> QED
    BY <2>3, <2>4
<1> QED
  BY <1>2, <1>3, <1>4

\* Every step.
LEMMA NextWakes == Typed /\ Wakes /\ [Next]_vars => Wakes'
<1> SUFFICES ASSUME Typed, Wakes, [Next]_vars PROVE Wakes'
  OBVIOUS
<1>1. Sound
  BY DEF Typed, Sound
<1>2. CASE AnyCall
  BY <1>1, <1>2, CallDoes, WakesBegin DEF AnyCall
<1>3. CASE CallRefused
  <2>1. /\ flavour' = flavour /\ call'.pc = "idle" /\ call'.n = call.n
        /\ toServer' = toServer /\ toClient' = toClient
    BY <1>1, <1>3, CallRefusedDoes DEF Ends, SameAttempt
  <2> QED
    BY <2>1, WakesEnd
<1>4. CASE Driver
  <2>1. (\E f : Begins(f)) \/ UNCHANGED authVars
    BY <1>4, DriverDrives DEF Drives
  <2>2. CASE UNCHANGED authVars
    BY <2>2, WakesKept DEF authVars
  <2> QED
    BY <2>1, <2>2, WakesBegin
<1>5. CASE Foreign
  BY <1>5 DEF Foreign, Wakes
<1>6. CASE UNCHANGED vars
  BY <1>6, WakesKept DEF vars, authVars
<1> QED
  BY <1>2, <1>3, <1>4, <1>5, <1>6, CallStepsWake, ClientReadsWake, ServerReadsWake, NextCases

\* The answer to a request wakes the caller that waits for it: AuthHandler sets auth_event
\* before it sends SERVICE_REQUEST, and the answer finds that event in the handler.
THEOREM AuthAnswerWakesCaller == Spec => []AnswerWakesCaller
<1>1. Init => Wakes
  BY SentFew DEF Init, AuthInit, Wakes
<1>2. Wakes => AnswerWakesCaller
  BY DEF Wakes, AnswerWakesCaller
<1> QED
  BY <1>1, <1>2, InitTyped, NextTyped, NextWakes, PTL DEF Spec

-----------------------------------------------------------------------------
(* A success is one the server gave, whatever became of its attempt         *)

\* The client's steps: nothing is added to what it reads, and a success noted was read.
LEMMA ClientNotes ==
    ASSUME Typed, [Next]_vars
    PROVE  \/ ServerReads /\ Idly
           \/ /\ Sent(toClient') \subseteq Sent(toClient)
              /\ h'.authenticated => \/ h.authenticated
                                     \/ \E m \in Sent(toClient) : m.type = "success"
<1>1. Sound /\ toClient \in Seq(Answers)
  BY DEF Typed, Sound, TransportsOK
<1> DEFINE Good == /\ Sent(toClient') \subseteq Sent(toClient)
                   /\ h'.authenticated => \/ h.authenticated
                                          \/ \E m \in Sent(toClient) : m.type = "success"
<1>2. ASSUME NEW f, Begins(f) PROVE Good
  BY <1>2, NewHandlerDoes DEF Begins
<1>3. ASSUME NEW type, Takes(type)
      PROVE  /\ Head(toClient) \in Sent(toClient) /\ Head(toClient).type = type
             /\ Sent(toClient') \subseteq Sent(toClient)
  BY <1>1, <1>3, SentTail DEF Takes
<1>4. CASE AnyCall
  BY <1>1, <1>2, <1>4, CallDoes DEF AnyCall
<1>5. CASE CallRefused
  BY <1>1, <1>5, CallRefusedDoes DEF Ends
<1>6. CASE Driver
  BY <1>2, <1>6, DriverDrives DEF Drives, authVars
<1>7. CASE CallSteps
  <2>1. CASE SessionEnsured
    BY <1>1, <2>1, SessionEnsuredDoes, NewHandlerDoes DEF Moves
  <2>2. CASE RequestService
    BY <1>1, <2>2, RequestServiceDoes DEF Moves, Ends
  <2>3. CASE RequestAuth
    BY <1>1, <2>3, RequestAuthDoes DEF Moves, Ends
  <2>4. CASE NewEvent
    BY <1>1, <2>4, NewEventDoes DEF Moves
  <2>5. CASE WaitFindsEnd \/ RaiseSaved
    <3>1. PICK r : Concluded(r) /\ h' = h
      BY <1>1, <2>5, WaitFindsEndDoes, RaiseSavedDoes
    <3> QED
      BY <3>1 DEF Concluded, Moves, Ends
  <2>9. CASE WaitFindsActive \/ EventSet
    BY <1>1, <2>9, WaitFindsActiveDoes, EventSetDoes DEF Moves, Ends
  <2>6. CASE WaitTimesOut
    BY <1>1, <2>6, WaitTimesOutDoes DEF Ends
  <2>7. CASE Fudge
    BY <1>1, <1>2, <2>7, FudgeDoes
  <2>8. CASE FudgeRefused
    BY <1>1, <2>8, FudgeRefusedDoes DEF Ends
  <2> QED
    BY <1>7, <2>1, <2>2, <2>3, <2>4, <2>5, <2>6, <2>7, <2>8, <2>9 DEF CallSteps
<1>8. CASE ClientReads
  <2>1. CASE ServiceAccepted
    BY <1>1, <1>3, <2>1, ServiceAcceptedDoes
  <2>2. CASE ParseServiceAccept
    BY <1>1, <1>3, <2>2, ParseServiceAcceptDoes DEF Dies
  <2>3. CASE ParseUserauthBanner
    BY <1>1, <1>3, <2>3, ParseUserauthBannerDoes
  <2>4. CASE ParseUserauthSuccess
    BY <1>1, <1>3, <2>4, ParseUserauthSuccessDoes
  <2>5. CASE ParseUserauthFailure
    BY <1>1, <1>3, <2>5, ParseUserauthFailureDoes
  <2>6. CASE ParseUserauthInfoRequest
    BY <1>1, <1>3, <2>6, ParseUserauthInfoRequestDoes DEF Dies
  <2>7. CASE ParseDisconnect
    BY <1>1, <1>3, <2>7, ParseDisconnectDoes DEF Dies
  <2>8. CASE ClientEof
    BY <1>1, <2>8, ClientEofDoes DEF Dies
  <2>9. CASE RunStops \/ RunAborts \/ RunClosed
    BY <1>1, <2>9, StopsDoes DEF Stops
  <2> QED
    BY <1>8, <2>1, <2>2, <2>3, <2>4, <2>5, <2>6, <2>7, <2>8, <2>9 DEF ClientReads
<1>9. CASE Faults
  BY <1>1, <1>9, StopsDoes, ConnectionLostDoes, SentFew DEF Faults, Dies, Stops
<1>10. CASE Foreign
  BY <1>1, <1>10, ForeignDoes, SentFew
<1>11. CASE UNCHANGED vars
  BY <1>11 DEF vars, authVars
<1> QED
  BY <1>4, <1>5, <1>6, <1>7, <1>8, <1>9, <1>10, <1>11, NextCases

\* Every step keeps it: a success is sent with s.authenticated set, which stays.
LEMMA NextGranted == Typed /\ Guarded /\ Granted /\ [Next]_vars => Granted'
<1> SUFFICES ASSUME Typed, Guarded, Granted, [Next]_vars PROVE Granted'
  OBVIOUS
<1>1. Sound
  BY DEF Typed, Sound
<1>2. s.authenticated => s'.authenticated
  BY ServerDecides
<1>3. CASE ServerReads
  <2>1. Leaves \/ Calmly \/ Judges
    BY <1>1, <1>3, ServerReadsDo
  <2>2. CASE Leaves
    BY <1>2, <2>2 DEF Leaves, Granted
  <2>3. CASE Calmly
    <3>1. PICK ms : Serves(ms) /\ \A m \in Sent(ms) : m.type # "success"
      BY <2>3 DEF Calmly, Accepts, Prompts, Tells
    <3>2. h' = h /\ Sent(toClient') = Sent(toClient) \cup Sent(ms)
      BY <1>1, <3>1, ServesQueues DEF Serves
    <3> QED
      BY <1>2, <3>1, <3>2 DEF Granted
  <2>4. CASE Judges
    <3>1. PICK ms : Serves(ms) /\ \A m \in Sent(ms) : m.type = "success" => s'.authenticated
      BY <2>4 DEF Judges, Tells
    <3>2. h' = h /\ Sent(toClient') = Sent(toClient) \cup Sent(ms)
      BY <1>1, <3>1, ServesQueues DEF Serves
    <3> QED
      BY <1>2, <3>1, <3>2 DEF Granted
  <2> QED
    BY <2>1, <2>2, <2>3, <2>4
<1>4. CASE /\ Sent(toClient') \subseteq Sent(toClient)
           /\ h'.authenticated => \/ h.authenticated
                                  \/ \E m \in Sent(toClient) : m.type = "success"
  BY <1>2, <1>4 DEF Granted
<1> QED
  BY <1>3, <1>4, ClientNotes

\* The flavour never changes, and an attempt given up stays given up.
LEMMA NextKeeps == Typed /\ [Next]_vars => flavour' = flavour /\ (abandoned => abandoned')
<1> SUFFICES ASSUME Typed, [Next]_vars PROVE flavour' = flavour /\ (abandoned => abandoned')
  OBVIOUS
<1>1. Sound
  BY DEF Typed, Sound
<1>2. CASE AnyCall
  BY <1>2 DEF AnyCall, Call
<1>3. CASE CallRefused
  BY <1>3 DEF CallRefused
<1>4. CASE Driver
  <2>1. flavour' = flavour /\ abandoned' = abandoned
    BY <1>4, DriverDrives DEF Drives, Begins, authVars
  <2> QED
    BY <2>1
<1>5. CASE CallSteps
  <2>1. flavour' = flavour
    BY <1>5 DEF CallSteps, SessionEnsured, RequestService, RequestAuth, NewEvent,
                WaitFindsEnd, WaitFindsActive, EventSet, WaitTimesOut, RaiseSaved,
                Fudge, FudgeRefused
  <2>2. CASE RequestService
    BY <2>1, <2>2 DEF RequestService
  <2>3. CASE WaitTimesOut
    BY <2>1, <2>3 DEF WaitTimesOut
  <2>4. CASE ~RequestService /\ ~WaitTimesOut
    <3>1. abandoned' = abandoned
      BY <1>5, <2>4 DEF CallSteps, SessionEnsured, RequestAuth, NewEvent,
                        WaitFindsEnd, WaitFindsActive, EventSet, RaiseSaved,
                        Fudge, FudgeRefused
    <3> QED
      BY <2>1, <3>1
  <2> QED
    BY <2>2, <2>3, <2>4
<1>6. CASE ClientReads
  BY <1>6 DEF ClientReads, ClientTakes, ServiceAccepted, ParseServiceAccept,
              ParseUserauthBanner, ParseUserauthSuccess, ParseUserauthFailure,
              ParseUserauthInfoRequest, ParseDisconnect, ClientEof,
              RunStops, RunAborts, RunClosed
<1>7. CASE ServerReads
  BY <1>1, <1>7, ServerReadsDo DEF Leaves, Calmly, Judges, Serves
<1>8. CASE Faults \/ Foreign
  BY <1>8 DEF Faults, Close, ConnectionLost, Foreign
<1>9. CASE UNCHANGED vars
  BY <1>9 DEF vars, authVars
<1> QED
  BY <1>2, <1>3, <1>4, <1>5, <1>6, <1>7, <1>8, <1>9, NextCases

-----------------------------------------------------------------------------
(* A client that is not paramiko                                            *)

\* Only the server and the foreign client itself have steps.
LEMMA NextAlone == Typed /\ Alone /\ [Next]_vars => Alone'
<1> SUFFICES ASSUME Typed, Alone, [Next]_vars PROVE Alone'
  OBVIOUS
<1>1. Sound /\ toServer \in Seq(Requests)
  BY DEF Typed, Sound, TransportsOK
<1>2. CASE flavour # "Foreign"
  <2>1. flavour' = flavour
    BY NextKeeps
  <2> QED
    BY <1>2, <2>1 DEF Alone
<1>3. CASE flavour = "Foreign"
  <2>1. /\ program.runs = "application" /\ d.outcome = "none"
        /\ call.pc = "idle" /\ call.result.kind = "none" /\ ~h.authenticated /\ ~garbled
        /\ Len(toServer) <= 1 /\ \A m \in Sent(toServer) : m.compressed = s.compressed
    BY <1>3 DEF Alone
  <2>2. \/ ServerReads /\ Idly
        \/ Foreign /\ Idly
        \/ UNCHANGED vars
    <3>1. ~AnyCall /\ ~CallRefused
      BY <1>3 DEF AnyCall, Call, CallRefused
    <3>2. ~Driver
      BY <2>1, DriverDrives DEF Drives
    <3>3. ~CallSteps
      BY <1>1, <2>1, CallStepsSound
    <3>4. ~ClientReads /\ ~Faults
      BY <1>1, <1>3, ClientReadsSound
    <3> QED
      BY <3>1, <3>2, <3>3, <3>4, NextCases
  <2>3. CASE ServerReads /\ Idly
    <3>1. UNCHANGED <<program, d, call, h>>
      BY <1>1, <2>3, ServerReadsDo DEF Leaves, Calmly, Judges, Serves, Idly
    <3>2. ~garbled' /\ Len(toServer') <= 1 /\ \A m \in Sent(toServer') : m.compressed = s'.compressed
      <4>1. CASE Leaves
        BY <2>1, <4>1 DEF Leaves, Undecided
      <4>2. CASE Calmly \/ Judges
        <5>1. toServer # <<>> /\ toServer' = Tail(toServer) /\ garbled' = garbled
          BY <4>2 DEF Calmly, Judges, Serves
        <5>2. Len(toServer') = Len(toServer) - 1 /\ Len(toServer) \in Nat /\ Len(toServer') \in Nat
          BY <1>1, <5>1, SentTail, LenProperties
        <5>3. Len(toServer') = 0
          BY <2>1, <5>2
        <5>4. Sent(toServer') = {}
          BY <5>3 DEF Sent
        <5> QED
          BY <2>1, <5>1, <5>3, <5>4
      <4> QED
        BY <1>1, <2>3, <4>1, <4>2, ServerReadsDo
    <3> QED
      BY <2>1, <3>1, <3>2 DEF Alone
  <2>4. CASE Foreign /\ Idly
    <3>1. PICK m \in Requests : toServer' = Append(toServer, m) /\ m.compressed = s.compressed
      BY <1>1, <2>4, ForeignDoes
    <3>2. /\ toServer = <<>> /\ call'.pc = call.pc /\ call'.result = call.result
          /\ UNCHANGED <<flavour, h, s, garbled, program, d>>
      BY <1>1, <2>4, ForeignDoes DEF Idly
    <3>3. Sent(toServer') = {m} /\ Len(toServer') = 1
      BY <1>1, <3>1, <3>2, SentMore, SentFew, AppendProperties
    <3> QED
      BY <2>1, <3>1, <3>2, <3>3 DEF Alone
  <2>5. CASE UNCHANGED vars
    BY <2>5 DEF Alone, vars, authVars
  <2> QED
    BY <2>2, <2>3, <2>4, <2>5
<1> QED
  BY <1>2, <1>3

-----------------------------------------------------------------------------
(* The conversation: what keeps its parts                                   *)

\* Nobody has the turn.
NoTurn == (\A m \in Sent(toServer) : ~Asks(m)) /\ Quiet(toClient)
SuccessSent == \E m \in Sent(toClient) : m.type = "success"

\* A queue is its first message and the others.
LEMMA SentHead ==
    ASSUME NEW S, NEW q \in Seq(S), q # <<>>
    PROVE  Sent(q) = {Head(q)} \cup Sent(Tail(q))
<1>1. /\ Len(Tail(q)) = Len(q) - 1 /\ Len(q) \in Nat
      /\ \A i \in 1..Len(Tail(q)) : Tail(q)[i] = q[i + 1]
      /\ Head(q) = q[1] /\ Head(q) \in Sent(q) /\ Sent(Tail(q)) \subseteq Sent(q)
  BY SentTail, LenProperties
<1>2. ASSUME NEW y \in Sent(q) PROVE y = Head(q) \/ y \in Sent(Tail(q))
  <2>1. PICK i \in 1..Len(q) : y = q[i]
    BY DEF Sent
  <2>2. CASE i = 1
    BY <1>1, <2>1, <2>2
  <2>3. CASE i # 1
    <3>1. i - 1 \in 1..Len(Tail(q)) /\ (i - 1) + 1 = i
      BY <1>1, <2>3
    <3>2. Tail(q)[i - 1] = y
      BY <1>1, <2>1, <3>1
    <3> QED
      BY <3>1, <3>2 DEF Sent
  <2> QED
    BY <2>2, <2>3
<1> QED
  BY <1>1, <1>2

\* When nobody has it.
LEMMA TurnFacts ==
    ASSUME Turns
    PROVE  /\ call.heard => NoTurn
           /\ c.active /\ call.pc \notin {"poll", "sent", "wait", "event"} => NoTurn
           /\ c.active /\ call.pc = "poll" /\ c.accepted => NoTurn
  BY DEF Turns, AskedWell, ToldWell, Attends, NoTurn, Quiet

\* What is known when the client takes a message that passes the turn to it.
LEMMA ToldFacts ==
    ASSUME Sound, Turns, NEW type, Takes(type),
           type \in {"service_accept", "info_request", "success", "failure"}
    PROVE  /\ ToldWell(Head(toClient)) /\ Head(toClient) \in Answers
           /\ \A m \in Sent(toServer) : ~Asks(m)
           /\ Quiet(toClient')
           /\ Attends(type = "service_accept") /\ ~call.heard
           /\ type # "service_accept" => call.pc \in {"sent", "wait", "event"}
<1>1. toClient \in Seq(Answers) /\ toClient # <<>> /\ toClient' = Tail(toClient)
      /\ Head(toClient).type = type /\ c.active
  BY DEF Sound, TransportsOK, Takes
<1>2. Head(toClient) \in Sent(toClient) /\ Tells(Head(toClient)) /\ Head(toClient) \in Answers
  BY <1>1, SentTail DEF Tells
<1>3. ToldWell(Head(toClient))
  BY <1>2 DEF Turns
<1>4. Quiet(toClient')
  BY <1>1, <1>2, TellQueues DEF Turns
<1>5. \A m \in Sent(toServer) : ~Asks(m)
  BY <1>2 DEF Turns, AskedWell, Quiet
<1>6. Attends(type = "service_accept")
  BY <1>1, <1>3 DEF ToldWell
<1>7. type # "service_accept" => call.pc \in {"sent", "wait", "event"}
  BY <1>6 DEF Attends
<1> QED
  BY <1>1, <1>2, <1>3, <1>4, <1>5, <1>6, <1>7 DEF ToldWell

\* Nobody has the turn after the step.
LEMMA TurnsNone ==
    ASSUME Sound', NoTurn'
    PROVE  Turns'
<1>1. toServer' \in Seq(Requests) /\ toClient' \in Seq(Answers)
  BY DEF Sound, TransportsOK
<1>2. Single(toClient')
  BY <1>1, TellQueues DEF NoTurn
<1>3. LastAsks(toServer')
  BY DEF NoTurn, LastAsks, Sent
<1> QED
  BY <1>2, <1>3 DEF NoTurn, Turns, Quiet

\* The client asks.
LEMMA TurnsAsk ==
    ASSUME Sound, Sound', \A m \in Sent(toServer) : ~Asks(m), Quiet(toClient'),
           NEW q \in Requests, toServer' = Append(toServer, q), Asks(q) => AskedWell(q)'
    PROVE  Turns'
<1>1. toServer \in Seq(Requests) /\ toClient' \in Seq(Answers)
  BY DEF Sound, TransportsOK
<1>2. Single(toClient')
  BY <1>1, TellQueues
<1>3. LastAsks(toServer') /\ Sent(toServer') = Sent(toServer) \cup {q}
  BY <1>1, AskQueues, SentMore
<1> QED
  BY <1>2, <1>3 DEF Turns, Quiet

\* Nothing but the caller's place has changed for those who have the turn.
LEMMA TurnsKept ==
    ASSUME Turns, flavour' = flavour, LastAsks(toServer'), Single(toClient'),
           Sent(toServer') \subseteq Sent(toServer),
           \A m \in Sent(toClient') : m \in Sent(toClient) \/ ~Tells(m),
           toServer = <<>> => toServer' = <<>>,
           flavour = "ServiceRequesting" /\ toClient = <<>> => toClient' = <<>>,
           call'.n = call.n, call'.heard = call.heard,
           s'.authenticated = s.authenticated, s'.said = s.said,
           c'.active => /\ c.active /\ c'.accepted = c.accepted
                        /\ call'.pc = call.pc \/ {call.pc, call'.pc} \subseteq {"sent", "wait", "event"}
    PROVE  Turns'
<1>1. ASSUME NEW b \in BOOLEAN, c'.active, Attends(b) PROVE Attends(b)'
  BY <1>1 DEF Attends
<1>2. ASSUME NEW m \in Sent(toServer'), Asks(m) PROVE AskedWell(m)'
  <2>1. AskedWell(m)
    BY <1>2 DEF Turns
  <2>2. (m.type = "service_request") \in BOOLEAN
    OBVIOUS
  <2> QED
    BY <1>1, <2>1, <2>2 DEF AskedWell, Quiet
<1>3. ASSUME NEW m \in Sent(toClient'), Tells(m) PROVE ToldWell(m)'
  <2>1. ToldWell(m)
    BY <1>3 DEF Turns
  <2>2. (m.type = "service_accept") \in BOOLEAN
    OBVIOUS
  <2> QED
    BY <1>1, <2>1, <2>2 DEF ToldWell
<1> QED
  BY <1>2, <1>3 DEF Turns

\* The compressors.
LEMMA CompressorsKept ==
    ASSUME Compressors, ~garbled', s'.compressed = s.compressed, s'.active => s.active,
           \A m \in Sent(toServer') : \/ m \in Sent(toServer)
                                      \/ s.active => m.compressed = s.compressed,
           s'.active /\ c'.active => /\ c.active /\ c'.compressed = c.compressed
                                     /\ SuccessSent' <=> SuccessSent
    PROVE  Compressors'
<1>1. s'.active => \A m \in Sent(toServer') : m.compressed = s'.compressed
  BY DEF Compressors
<1>2. Ahead <=> Delayed /\ SuccessSent
  BY DEF Ahead, SuccessSent
<1>3. Ahead' <=> Delayed /\ SuccessSent'
  BY DEF Ahead, SuccessSent
<1>4. s'.active /\ c'.active =>
        s'.compressed = IF Ahead' THEN c'.compressed + 1 ELSE c'.compressed
  <2> HIDE DEF SuccessSent, Ahead
  <2> QED
    BY <1>2, <1>3 DEF Compressors
<1> QED
  BY <1>1, <1>4 DEF Compressors

\* The caller goes on waiting.
Waits ==
    /\ call.pc \in {"sent", "wait"} /\ call'.original = call.original
    /\ \E place \in {"wait", "event"} : Moves(place)

\* What was noted.
LEMMA NotedKept ==
    ASSUME Noted, SamePlace \/ Waits,
           call'.heard = call.heard, h'.authenticated = h.authenticated,
           s'.said = s.said, c'.active => c.active,
           c'.saved.kind \in {c.saved.kind, "eof", "ssh", "other"}
    PROVE  Noted'
<1>1. /\ Asking' <=> Asking
      /\ call'.n = call.n /\ call'.fudging = call.fudging /\ call'.original = call.original
      /\ call'.result = call.result /\ call'.about = call.about
      /\ call'.pc = "fudge" <=> call.pc = "fudge"
      /\ call'.pc = "idle" <=> call.pc = "idle"
  BY DEF SamePlace, Waits, Moves, SameAttempt, Asking
<1> QED
  BY <1>1 DEF Noted

\* What the program knows.
LEMMA InformedKept ==
    ASSUME Informed, Idly, SamePlace \/ Waits,
           call'.heard = call.heard, h'.authenticated = h.authenticated,
           s'.authenticated = s.authenticated,
           c'.active => /\ c.active
                        /\ SuccessSent => SuccessSent' \/ (c'.thread = "raised" /\ ~call.heard)
                        /\ c.thread = "raised" => c'.thread = "raised"
    PROVE  Informed'
<1>1. /\ call'.pc = "idle" <=> call.pc = "idle"
      /\ call.pc \in {"sent", "wait", "event"} => call'.pc \in {"sent", "wait", "event"}
      /\ Asking => Asking'
      /\ call'.n = call.n /\ call'.result = call.result
  BY DEF SamePlace, Waits, Moves, SameAttempt, Asking
<1>2. c'.active /\ Arriving => Arriving'
  BY <1>1 DEF Arriving, SuccessSent
<1> HIDE DEF Arriving
<1> QED
  BY <1>1, <1>2 DEF Informed, Idly

-----------------------------------------------------------------------------
(* The conversation: the user thread                                        *)

\* An attempt begins: a call, or the attempt to fudge a password.
LEMMA BeginsTalks ==
    ASSUME Typed, Sound', Talk, NEW f \in BOOLEAN, Begins(f),
           call.pc = IF f THEN "fudge" ELSE "idle",
           program' = program,
           \/ d' = d /\ (program.runs = "application" \/ call.pc # "idle")
           \/ /\ program.runs # "application" /\ d.trying = "nothing" /\ d.outcome = "none"
              /\ d'.trying # "nothing" /\ d'.outcome = "none"
    PROVE  Talk'
<1>1. /\ Turns /\ Places /\ Compressors /\ Noted /\ Informed /\ Sound
      /\ c \in ClientSet /\ call.n \in Nat /\ call'.n \in Numbers /\ toServer \in Seq(Requests)
  BY OnItsWay DEF Talk, Typed, Sound, TransportsOK, CallSet
<1>2. /\ c.active /\ UNCHANGED <<flavour, c, s, toClient, abandoned, garbled>>
      /\ call'.n = call.n + 1 /\ ~call'.woken /\ ~call'.heard /\ call'.fudging = f
      /\ call'.original = call.original /\ call'.pc \in {"made", "poll"}
  BY DEF Begins
<1>3. call.pc \in {"idle", "fudge"}
  OBVIOUS
<1>4. NoTurn
  BY <1>1, <1>2, <1>3, TurnFacts
<1>5. ~SuccessSent
  BY <1>4 DEF NoTurn, Quiet, Tells, SuccessSent
<1>6. PICK q \in Requests : /\ q = Message("service_request", call.n + 1)
                           /\ q.n = call'.n /\ q.type = "service_request"
                           /\ q.compressed = c.compressed
  BY <1>1, <1>2, MessageDoes
<1>7. \/ toServer' = toServer /\ call'.pc = "made"
      \/ /\ flavour = "ServiceRequesting" /\ ~c.accepted /\ call'.pc = "poll"
         /\ toServer' = Append(toServer, q)
  BY <1>6 DEF Begins
<1>8. Turns'
  <2>1. CASE toServer' = toServer
    <3>1. NoTurn'
      BY <1>2, <1>4, <2>1 DEF NoTurn, Quiet
    <3> QED
      BY <3>1, TurnsNone
  <2>2. CASE /\ flavour = "ServiceRequesting" /\ ~c.accepted /\ call'.pc = "poll"
             /\ toServer' = Append(toServer, q)
    <3>1. toClient' = <<>>
      BY <1>1, <1>2, <1>3, <2>2 DEF Places
    <3>2. Quiet(toClient')
      BY <1>2, <1>4 DEF NoTurn, Quiet
    <3>3. Attends(TRUE)'
      BY <1>2, <2>2 DEF Attends
    <3>4. AskedWell(q)'
      BY <1>2, <1>6, <3>1, <3>2, <3>3 DEF AskedWell
    <3> QED
      BY <1>1, <1>4, <1>6, <2>2, <3>2, <3>4, TurnsAsk DEF NoTurn
  <2> QED
    BY <1>7, <2>1, <2>2
<1>9. Places'
  <2>1. CASE flavour = "Transport"
    BY <1>1, <1>2, <2>1, NewHandlerDoes DEF Begins, Places
  <2>2. CASE flavour = "ServiceRequesting" /\ c.accepted
    <3>1. h.made /\ h' = h /\ call'.pc = "made"
      BY <1>1, <1>3, <2>2 DEF Places, Begins
    <3> QED
      BY <1>1, <1>2, <2>2, <3>1 DEF Places
  <2>3. CASE flavour = "ServiceRequesting" /\ ~c.accepted
    BY <1>1, <1>2, <2>3 DEF Begins, Places
  <2> QED
    BY <1>2, <2>1, <2>2, <2>3 DEF Begins
<1>10. Compressors'
  <2>1. \A m \in Sent(toServer') : \/ m \in Sent(toServer)
                                   \/ s.active => m.compressed = s.compressed
    <3>1. s.active => c.compressed = s.compressed
      BY <1>1, <1>2, <1>5 DEF Compressors, Ahead, SuccessSent
    <3>2. CASE toServer' = toServer
      BY <3>2
    <3>3. CASE toServer' = Append(toServer, q)
      <4>1. Sent(toServer') = Sent(toServer) \cup {q}
        BY <1>1, <1>6, <3>3, SentMore
      <4> QED
        BY <1>6, <3>1, <4>1
    <3> QED
      BY <1>7, <3>2, <3>3
  <2>2. SuccessSent' <=> SuccessSent
    BY <1>2 DEF SuccessSent
  <2> QED
    BY <1>1, <1>2, <2>1, <2>2, CompressorsKept DEF Compressors
<1>11. Noted'
  <2>1. c'.saved.kind \notin {"success", "failed", "partial", "badtype"}
    BY <1>1, <1>2, <1>3 DEF Noted, Asking
  <2>2. CASE f
    <3>1. call'.n - 1 = call.n /\ call.pc = "fudge"
      BY <1>1, <1>2, <2>2
    <3>2. /\ s'.said[call'.n - 1] = "AUTH_FAILED"
          /\ call'.original.raised /\ call'.original.kind = "badtype"
      BY <1>1, <1>2, <3>1 DEF Noted
    <3> QED
      BY <1>2, <2>1, <3>2 DEF Noted, Asking
  <2>3. CASE ~f
    BY <1>2, <2>1, <2>3 DEF Noted, Asking
  <2> QED
    BY <2>2, <2>3
<1>12. Informed'
  <2>1. call'.pc # "idle" /\ call'.n >= 1
    BY <1>1, <1>2
  <2>2. d'.outcome = "none" /\ (program.runs # "application" => d'.trying # "nothing")
    BY <1>1 DEF Informed
  <2>3. program.runs # "application" => ~(s.authenticated /\ c.active)
    <3>1. CASE call.pc = "fudge"
      <4>1. ~Arriving
        BY <3>1 DEF Arriving, Asking
      <4> QED
        BY <1>1, <3>1, <4>1 DEF Informed
    <3>2. CASE call.pc = "idle"
      BY <1>1, <3>2 DEF Informed
    <3> QED
      BY <1>3, <3>1, <3>2
  <2> QED
    BY <1>2, <2>1, <2>2, <2>3 DEF Informed
<1> QED
  BY <1>8, <1>9, <1>10, <1>11, <1>12 DEF Talk

\* A call ends, with a result that says what the server said.
LEMMA EndsTalks ==
    ASSUME Typed, Sound', Talk, Idly, NEW r, Ends(r), toServer' = toServer, call.pc # "poll",
           program.runs = "application" \/ call.pc # "idle",
           c'.active = c.active, c'.thread = c.thread, c'.accepted = c.accepted,
           c'.compressed = c.compressed,
           c'.saved.kind \notin {"success", "failed", "partial", "badtype"}, h'.made = h.made,
           c.active => NoTurn,
           r.kind \in Verdicts => \/ s.said[call.n] = Verdict(r.kind) /\ call.heard
                                  \/ ~c.active /\ r.kind \in {"success", "failed"},
           ~r.raised => r.kind \in {"success", "partial"},
           r.kind = "success" => s.authenticated,
           program.runs # "application" /\ s.authenticated /\ c.active => r = Returned("success", {})
    PROVE  Talk'
<1>1. /\ Turns /\ Places /\ Compressors /\ Noted /\ Informed /\ Sound /\ call.n \in Nat
  BY OnItsWay DEF Talk, Typed, Sound
<1>2. /\ UNCHANGED <<flavour, s, toClient, garbled>> /\ call'.pc = "idle" /\ ~call'.fudging
      /\ call'.n = call.n /\ call'.heard = call.heard /\ call'.woken = call.woken
  BY DEF Ends, SameAttempt
<1>3. Turns'
  <2>1. CASE c.active
    <3>1. NoTurn'
      BY <1>2, <2>1 DEF NoTurn, Quiet
    <3> QED
      BY <3>1, TurnsNone
  <2>2. CASE ~c.active
    <3>1. LastAsks(toServer') /\ Single(toClient')
      BY <1>1, <1>2 DEF Turns
    <3> QED
      BY <1>1, <1>2, <2>2, <3>1, TurnsKept
  <2> QED
    BY <2>1, <2>2
<1>4. Places'
  BY <1>1, <1>2 DEF Places
<1>5. Compressors'
  <2>1. SuccessSent' <=> SuccessSent
    BY <1>2 DEF SuccessSent
  <2> QED
    BY <1>1, <1>2, <2>1, CompressorsKept DEF Compressors
<1>6. \/ /\ call.fudging /\ call'.about < call'.n
         /\ call'.result.kind = "badtype" /\ call'.result.raised
         /\ s'.said[call'.about] = "AUTH_FAILED"
      \/ call'.result = r /\ call'.about = call'.n
  <2>1. CASE call.fudging /\ r.raised /\ call'.result = call.original /\ call'.about = call.n - 1
    <3>1. call'.about < call.n
      BY <1>1, <2>1
    <3> QED
      BY <1>1, <1>2, <2>1, <3>1 DEF Noted
  <2>2. CASE call'.result = r /\ call'.about = call.n
    BY <1>2, <2>2
  <2> QED
    BY <2>1, <2>2 DEF Ends
<1>7. Noted'
  <2>1. call'.result.kind \in Verdicts =>
          \/ /\ s'.said[call'.about] = Verdict(call'.result.kind)
             /\ call'.about < call'.n \/ (call'.about = call'.n /\ call'.heard)
          \/ ~c'.active /\ call'.result.kind \in {"success", "failed"}
    <3>1. Verdict("badtype") = "AUTH_FAILED"
      BY DEF Verdict
    <3> QED
      BY <1>2, <1>6, <3>1
  <2> QED
    BY <1>2, <2>1 DEF Noted, Asking
<1>8. Informed'
  <2>1. /\ ~call'.result.raised => call'.result.kind \in {"success", "partial"}
        /\ call'.result.kind = "success" => s'.authenticated
    BY <1>2, <1>6
  <2>2. program.runs # "application" => d.trying # "nothing" /\ d.outcome = "none"
    BY <1>1 DEF Informed
  <2>3. program.runs # "application" /\ s'.authenticated /\ c'.active => Arriving'
    <3> SUFFICES ASSUME program.runs # "application", s.authenticated, c.active
                 PROVE  call'.result = Returned("success", {})
      BY <1>2 DEF Arriving
    <3>1. r = Returned("success", {}) /\ ~r.raised
      BY DEF Returned
    <3> QED
      BY <3>1 DEF Ends
  <2>4. program.runs = "application" => d.outcome = "none"
    BY <1>1 DEF Informed
  <2>5. program.runs # "application" => call.n >= 1
    BY <1>1, <2>2 DEF Informed
  <2> HIDE DEF Arriving
  <2> QED
    BY <1>2, <2>1, <2>2, <2>3, <2>4, <2>5 DEF Informed, Idly
<1> QED
  BY <1>3, <1>4, <1>5, <1>7, <1>8 DEF Talk

\* A call goes on where nobody has the turn, and may ask for the service or for its method.
LEMMA MovesTalks ==
    ASSUME Typed, Sound', Talk, Idly, NEW place, Moves(place),
           call.pc \in {"poll", "made"}, call.pc = "poll" => c.accepted /\ place = "made",
           call.pc = "made" => c.active /\ place = IF flavour = "Transport" THEN "wait" ELSE "sent",
           call'.original = call.original, c' = c, h'.made, flavour # "Foreign",
           \/ toServer' = toServer /\ call.pc = "poll"
           \/ \E q \in Requests : /\ toServer' = Append(toServer, q) /\ call.pc = "made"
                                  /\ q.n = call.n /\ q.compressed = c.compressed
                                  /\ q.type = IF flavour = "Transport" THEN "service_request"
                                                                       ELSE "userauth_request"
    PROVE  Talk'
<1>1. /\ Turns /\ Places /\ Compressors /\ Noted /\ Informed /\ Sound /\ toServer \in Seq(Requests)
      /\ flavour \in {"Transport", "ServiceRequesting"}
  BY DEF Talk, Typed, Sound, TransportsOK
<1>2. /\ UNCHANGED <<flavour, s, toClient, garbled>> /\ call'.pc = place
      /\ call'.fudging = call.fudging
      /\ call'.n = call.n /\ call'.heard = call.heard /\ call'.woken = call.woken
  BY DEF Moves, SameAttempt
<1>3. ~call.heard
  BY <1>1 DEF Places
<1>4. c.active => NoTurn
  BY <1>1, TurnFacts
<1>5. c.active /\ s.active => c.compressed = s.compressed
  <2>1. NoTurn => ~SuccessSent
    BY DEF NoTurn, Quiet, Tells, SuccessSent
  <2> QED
    BY <1>1, <1>4, <2>1 DEF Compressors, Ahead, SuccessSent
<1>6. Turns'
  <2>1. CASE toServer' = toServer /\ call.pc = "poll"
    <3>1. CASE c.active
      <4>1. NoTurn'
        BY <1>2, <1>4, <2>1, <3>1 DEF NoTurn, Quiet
      <4> QED
        BY <4>1, TurnsNone
    <3>2. CASE ~c.active
      <4>1. LastAsks(toServer') /\ Single(toClient')
        BY <1>1, <1>2, <2>1 DEF Turns
      <4> QED
        BY <1>1, <1>2, <2>1, <3>2, <4>1, TurnsKept
    <3> QED
      BY <3>1, <3>2
  <2>2. CASE call.pc = "made"
    <3>1. PICK q \in Requests : /\ toServer' = Append(toServer, q) /\ q.n = call.n
                                /\ q.type = IF flavour = "Transport" THEN "service_request"
                                                                     ELSE "userauth_request"
      BY <2>2
    <3>2. Quiet(toClient') /\ \A m \in Sent(toServer) : ~Asks(m)
      BY <1>2, <1>4, <2>2 DEF NoTurn
    <3>3. Attends(q.type = "service_request")'
      BY <1>1, <1>2, <2>2, <3>1 DEF Attends
    <3>4. AskedWell(q)'
      BY <1>1, <1>2, <1>3, <3>1, <3>2, <3>3 DEF AskedWell
    <3> QED
      BY <1>1, <3>1, <3>2, <3>4, TurnsAsk
  <2> QED
    BY <2>1, <2>2
<1>7. Places'
  BY <1>1, <1>2 DEF Places
<1>8. Compressors'
  <2>1. SuccessSent' <=> SuccessSent
    BY <1>2 DEF SuccessSent
  <2>2. \A m \in Sent(toServer') : \/ m \in Sent(toServer)
                                   \/ s.active => m.compressed = s.compressed
    <3>1. CASE toServer' = toServer
      BY <3>1
    <3>2. CASE call.pc = "made"
      <4>1. PICK q \in Requests : toServer' = Append(toServer, q) /\ q.compressed = c.compressed
        BY <3>2
      <4>2. Sent(toServer') = Sent(toServer) \cup {q}
        BY <1>1, <4>1, SentMore
      <4> QED
        BY <1>5, <3>2, <4>1, <4>2
    <3> QED
      BY <3>1, <3>2
  <2> QED
    BY <1>1, <1>2, <2>1, <2>2, CompressorsKept DEF Compressors
<1>9. Noted'
  <2>1. c'.saved.kind \notin {"success", "failed", "partial", "badtype"}
    BY <1>1 DEF Noted, Asking
  <2>2. call'.pc \in {"made", "sent", "wait"} /\ ~call'.heard
    BY <1>2, <1>3
  <2> QED
    BY <1>1, <1>2, <2>1, <2>2 DEF Noted
<1>10. Informed'
  <2>1. ~Arriving
    BY DEF Arriving, Asking
  <2>2. program.runs # "application" => ~(s.authenticated /\ c.active)
    BY <1>1, <2>1 DEF Informed
  <2>3. call'.pc # "idle"
    BY <1>2
  <2> QED
    BY <1>1, <1>2, <2>2, <2>3 DEF Informed, Idly
<1> QED
  BY <1>6, <1>7, <1>8, <1>9, <1>10 DEF Talk

\* The caller goes on waiting.
LEMMA WaitsTalks ==
    ASSUME Typed, Sound', Talk, Idly, Waits, UNCHANGED <<c, toServer>>,
           h'.made = h.made, h'.authenticated = h.authenticated
    PROVE  Talk'
<1>1. Turns /\ Places /\ Compressors /\ Noted /\ Informed
  BY DEF Talk
<1>2. /\ UNCHANGED <<flavour, s, toClient, garbled>>
      /\ call.pc \in {"sent", "wait"} /\ call'.pc \in {"wait", "event"}
      /\ call'.n = call.n /\ call'.heard = call.heard /\ call'.woken = call.woken
  BY DEF Waits, Moves, SameAttempt
<1>3. Turns'
  <2>1. LastAsks(toServer') /\ Single(toClient')
    BY <1>1, <1>2 DEF Turns
  <2> QED
    BY <1>1, <1>2, <2>1, TurnsKept
<1>4. Places'
  BY <1>1, <1>2 DEF Places
<1>5. SuccessSent' <=> SuccessSent
  BY <1>2 DEF SuccessSent
<1>6. Compressors'
  BY <1>1, <1>2, <1>5, CompressorsKept DEF Compressors
<1>7. Noted'
  BY <1>1, <1>2, NotedKept
<1>8. Informed'
  BY <1>1, <1>2, <1>5, InformedKept
<1> QED
  BY <1>3, <1>4, <1>6, <1>7, <1>8 DEF Talk

\* wait_for_response concludes: the call ends, or its password is to be fudged.
LEMMA ConcludesTalks ==
    ASSUME Typed, Sound', Talk, Idly, NEW r, Concluded(r), UNCHANGED <<h, toServer>>,
           call.pc \in {"wait", "except"},
           c'.active = c.active, c'.thread = c.thread, c'.accepted = c.accepted,
           c'.compressed = c.compressed, c'.saved.kind = "none",
           c.active => NoTurn,
           r.kind \in Verdicts => \/ s.said[call.n] = Verdict(r.kind) /\ call.heard
                                  \/ ~c.active /\ r.kind \in {"success", "failed"},
           ~r.raised => r.kind = "partial", r.kind # "success",
           program.runs # "application" => ~(s.authenticated /\ c.active)
    PROVE  Talk'
<1>1. Turns /\ Places /\ Compressors /\ Noted /\ Informed
  BY DEF Talk
<1>2. CASE Ends(r)
  BY <1>2, EndsTalks
<1>3. CASE /\ Moves("fudge") /\ call'.original = r
           /\ r.raised /\ r.kind = "badtype" /\ ~call.fudging
  <2>1. /\ UNCHANGED <<flavour, s, toClient, garbled>> /\ call'.pc = "fudge" /\ ~call'.fudging
        /\ call'.n = call.n /\ call'.heard = call.heard /\ call'.woken = call.woken
    BY <1>3 DEF Moves, SameAttempt
  <2>2. call.heard /\ s.said[call.n] = "AUTH_FAILED"
    BY <1>3 DEF Verdict, Verdicts
  <2>3. NoTurn'
    BY <1>1, <2>1, <2>2, TurnFacts DEF NoTurn, Quiet
  <2>4. Turns'
    BY <2>3, TurnsNone
  <2>5. Places'
    BY <1>1, <2>1, <2>2 DEF Places
  <2>6. Compressors'
    <3>1. SuccessSent' <=> SuccessSent
      BY <2>1 DEF SuccessSent
    <3> QED
      BY <1>1, <2>1, <3>1, CompressorsKept DEF Compressors
  <2>7. Noted'
    BY <1>3, <2>1, <2>2 DEF Noted, Asking
  <2>8. Informed'
    BY <1>1, <2>1 DEF Informed, Idly
  <2> QED
    BY <2>4, <2>5, <2>6, <2>7, <2>8 DEF Talk
<1> QED
  BY <1>2, <1>3 DEF Concluded

\* The transport has ended.
LEMMA WaitFindsEndTalks ==
    ASSUME Typed, Talk, Idly, WaitFindsEnd
    PROVE  Talk'
<1>1. Turns /\ Noted /\ Sound
  BY DEF Talk, Typed, Sound
<1>2. /\ Sound' /\ UNCHANGED <<h, toServer>> /\ call.pc = "wait" /\ ~c.active
      /\ c'.active = c.active /\ c'.thread = c.thread /\ c'.accepted = c.accepted
      /\ c'.compressed = c.compressed /\ c'.saved.kind = "none"
  BY <1>1, WaitFindsEndDoes
<1>3. PICK r \in ResultSet : Concluded(r) /\ r.raised /\ r.kind \in {c.saved.kind, "shutdown"}
  BY <1>1, WaitFindsEndDoes
<1>4. /\ r.kind # "success"
      /\ r.kind \in Verdicts => s.said[call.n] = Verdict(r.kind) /\ call.heard
  BY <1>1, <1>3 DEF Noted, Verdicts
<1> QED
  BY <1>2, <1>3, <1>4, ConcludesTalks

\* The caller of an active transport was woken by its answer.
LEMMA EventSetTalks ==
    ASSUME Typed, Granted, Talk, Idly, EventSet
    PROVE  Talk'
<1>1. Turns /\ Places /\ Compressors /\ Noted /\ Informed /\ Sound
  BY DEF Talk, Typed, Sound
<1>2. /\ Sound' /\ UNCHANGED <<c, h, toServer, abandoned>> /\ call.pc = "event" /\ call.woken
  BY <1>1, EventSetDoes
<1>3. c.active => call.heard /\ NoTurn
  BY <1>1, <1>2, TurnFacts DEF Places
<1>4. CASE h.authenticated /\ Ends(Returned("success", {}))
  <2>1. PICK r : r = Returned("success", {})
    OBVIOUS
  <2>2. r.kind = "success" /\ Verdict("success") = "AUTH_SUCCESSFUL"
    BY <2>1 DEF Returned, Verdict
  <2>3. /\ s.authenticated
        /\ c.active => s.said[call.n] = "AUTH_SUCCESSFUL"
    BY <1>1, <1>2, <1>3, <1>4 DEF Granted, Noted, Asking
  <2>4. c'.saved.kind \notin {"success", "failed", "partial", "badtype"}
    <3> SUFFICES ASSUME c.saved.kind \in {"success", "failed", "partial", "badtype"} PROVE FALSE
      BY <1>2
    <3> QED
      BY <1>1, <1>4 DEF Noted
  <2> QED
    BY <1>2, <1>3, <1>4, <2>1, <2>2, <2>3, <2>4, EndsTalks
<1>5. CASE ~h.authenticated /\ Moves("except") /\ call'.original = call.original
  <2>1. /\ UNCHANGED <<flavour, s, toClient, garbled>> /\ call'.pc = "except"
        /\ call'.n = call.n /\ call'.heard = call.heard /\ call'.woken = call.woken
        /\ call'.fudging = call.fudging
    BY <1>5 DEF Moves, SameAttempt
  <2>2. Turns'
    <3>1. CASE c.active
      <4>1. NoTurn'
        BY <1>2, <1>3, <2>1, <3>1 DEF NoTurn, Quiet
      <4> QED
        BY <1>2, <4>1, TurnsNone
    <3>2. CASE ~c.active
      <4>1. LastAsks(toServer') /\ Single(toClient')
        BY <1>1, <1>2, <2>1 DEF Turns
      <4> QED
        BY <1>1, <1>2, <2>1, <3>2, <4>1, TurnsKept
    <3> QED
      BY <3>1, <3>2
  <2>3. Places'
    BY <1>1, <1>2, <1>5, <2>1 DEF Places
  <2>4. Compressors'
    <3>1. SuccessSent' <=> SuccessSent
      BY <2>1 DEF SuccessSent
    <3> QED
      BY <1>1, <1>2, <2>1, <3>1, CompressorsKept DEF Compressors
  <2>5. Noted'
    BY <1>1, <1>2, <1>5, <2>1 DEF Noted, Asking
  <2>6. Informed'
    <3>1. c.active => ~Arriving
      BY <1>2, <1>3, <1>5 DEF Arriving, NoTurn, Quiet, Tells
    <3>2. program.runs # "application" => ~(s.authenticated /\ c.active)
      BY <1>1, <1>2, <3>1 DEF Informed
    <3> QED
      BY <1>1, <1>2, <2>1, <3>2 DEF Informed, Idly
  <2> QED
    BY <2>2, <2>3, <2>4, <2>5, <2>6 DEF Talk
<1> QED
  BY <1>1, <1>4, <1>5, EventSetDoes

\* It was not let in, and the transport may have ended since.
LEMMA RaiseSavedTalks ==
    ASSUME Typed, Talk, Idly, RaiseSaved
    PROVE  Talk'
<1>1. Turns /\ Places /\ Noted /\ Informed /\ Sound
  BY DEF Talk, Typed, Sound
<1>2. /\ Sound' /\ UNCHANGED <<h, toServer>> /\ call.pc = "except"
      /\ c'.active = c.active /\ c'.thread = c.thread /\ c'.accepted = c.accepted
      /\ c'.compressed = c.compressed /\ c'.saved.kind = "none"
  BY <1>1, RaiseSavedDoes
<1>3. PICK r \in ResultSet :
        /\ Concluded(r)
        /\ c.saved.kind = "none" => r.kind = "failed" /\ r.raised
        /\ c.saved.kind # "none" => r.kind = c.saved.kind /\ r.raised = (c.saved.kind # "partial")
  BY <1>1, RaiseSavedDoes
<1>4. ~h.authenticated /\ (c.active => call.heard /\ NoTurn)
  BY <1>1, <1>2, TurnFacts DEF Places
<1>5. /\ ~r.raised => r.kind = "partial"
      /\ r.kind # "success"
  BY <1>1, <1>3 DEF Noted
<1>6. r.kind \in Verdicts => \/ s.said[call.n] = Verdict(r.kind) /\ call.heard
                             \/ ~c.active /\ r.kind \in {"success", "failed"}
  <2>1. CASE c.saved.kind = "none"
    <3>1. c.active => s.said[call.n] = "AUTH_FAILED"
      BY <1>1, <1>2, <1>4, <2>1 DEF Noted, Asking
    <3> QED
      BY <1>3, <1>4, <2>1, <3>1 DEF Verdict
  <2>2. CASE c.saved.kind # "none"
    BY <1>1, <1>3, <2>2 DEF Noted, Verdicts
  <2> QED
    BY <2>1, <2>2
<1>7. program.runs # "application" => ~(s.authenticated /\ c.active)
  <2>1. ~Arriving
    BY <1>2, <1>4 DEF Arriving
  <2> QED
    BY <1>1, <1>2, <2>1 DEF Informed
<1> QED
  BY <1>2, <1>3, <1>4, <1>5, <1>6, <1>7, ConcludesTalks

\* A call that is over before anything was said about it.
LEMMA RaisesTalks ==
    ASSUME Typed, Sound', Talk, Idly, NEW kind \in {"ssh", "other"}, Ends(Raised(kind)),
           toServer' = toServer, c' = c, h'.made = h.made,
           call.pc \in {"idle", "made"}, call.pc = "idle" => program.runs = "application" /\ ~c.active
    PROVE  Talk'
<1>1. Turns /\ Places /\ Noted /\ Informed
  BY DEF Talk
<1>2. c'.saved.kind \notin {"success", "failed", "partial", "badtype"}
  BY <1>1 DEF Noted, Asking
<1>3. Raised(kind).raised /\ Raised(kind).kind \notin Verdicts \cup {"success"}
  BY DEF Raised, Verdicts
<1>4. c.active => NoTurn
  BY <1>1, TurnFacts
<1>5. program.runs # "application" => ~(s.authenticated /\ c.active)
  <2> SUFFICES ASSUME program.runs # "application" PROVE ~(s.authenticated /\ c.active)
    OBVIOUS
  <2>1. call.pc = "made" /\ ~Arriving
    BY DEF Arriving, Asking
  <2> QED
    BY <1>1, <2>1 DEF Informed
<1>6. PICK r : r = Raised(kind)
  OBVIOUS
<1> QED
  BY <1>2, <1>3, <1>4, <1>5, <1>6, EndsTalks

\* The steps of a call, but for the one that gives up.
LEMMA CallStepsTalk ==
    ASSUME Typed, Granted, Talk, Idly, flavour # "Foreign", CallSteps, ~abandoned'
    PROVE  Talk'
<1>1. /\ Turns /\ Places /\ Compressors /\ Noted /\ Informed /\ Sound
      /\ c \in ClientSet /\ call \in CallSet /\ call.n \in Numbers /\ call.method \in Methods
  BY DEF Talk, Typed, Sound, TransportsOK, CallSet
<1>2. CASE SessionEnsured
  <2>1. /\ Sound' /\ Moves("made") /\ c' = c /\ toServer' = toServer /\ h'.made
        /\ call'.original = call.original /\ call.pc = "poll" /\ c.accepted
    BY <1>1, <1>2, SessionEnsuredDoes, NewHandlerDoes
  <2> QED
    BY <2>1, MovesTalks
<1>3. CASE RequestService
  <2>1. /\ Sound' /\ c' = c /\ flavour = "Transport" /\ call.pc = "made" /\ h'.made = h.made
    BY <1>1, <1>3, RequestServiceDoes
  <2>2. CASE /\ c.active /\ toServer' = Append(toServer, Message("service_request", call.n))
             /\ Moves("wait") /\ call'.original = call.original
    <3>1. PICK q \in Requests : /\ toServer' = Append(toServer, q) /\ q.n = call.n
                                /\ q.type = "service_request" /\ q.compressed = c.compressed
      BY <1>1, <2>2, MessageDoes
    <3>2. h'.made
      BY <1>1, <2>1 DEF Places
    <3> QED
      BY <2>1, <2>2, <3>1, <3>2, MovesTalks
  <2>3. CASE toServer' = toServer /\ Ends(Raised("other"))
    BY <2>1, <2>3, RaisesTalks
  <2> QED
    BY <1>1, <1>3, <2>2, <2>3, RequestServiceDoes
<1>4. CASE RequestAuth
  <2>1. /\ Sound' /\ c' = c /\ flavour = "ServiceRequesting" /\ call.pc = "made" /\ h'.made = h.made
    BY <1>1, <1>4, RequestAuthDoes
  <2>2. CASE /\ c.active /\ toServer' = Append(toServer, UserauthRequest(call.method))
             /\ Moves("sent") /\ call'.original = call.original
    <3>1. PICK q \in Requests : /\ toServer' = Append(toServer, q) /\ q.n = call.n
                                /\ q.type = "userauth_request" /\ q.compressed = c.compressed
      BY <1>1, <2>2, UserauthRequestDoes
    <3>2. h'.made
      BY <1>1, <2>1 DEF Places
    <3> QED
      BY <2>1, <2>2, <3>1, <3>2, MovesTalks
  <2>3. CASE toServer' = toServer /\ \E kind \in {"ssh", "other"} : Ends(Raised(kind))
    BY <2>1, <2>3, RaisesTalks
  <2> QED
    BY <1>1, <1>4, <2>2, <2>3, RequestAuthDoes
<1>5. CASE NewEvent
  <2>1. /\ Sound' /\ Waits /\ UNCHANGED <<c, toServer>>
        /\ h'.made = h.made /\ h'.authenticated = h.authenticated
    BY <1>1, <1>5, NewEventDoes DEF Waits
  <2> QED
    BY <2>1, WaitsTalks
<1>6. CASE WaitFindsActive
  <2>1. Sound' /\ Waits /\ UNCHANGED <<c, h, toServer>>
    BY <1>1, <1>6, WaitFindsActiveDoes DEF Waits
  <2> QED
    BY <2>1, WaitsTalks
<1>10. CASE WaitFindsEnd \/ EventSet \/ RaiseSaved
  BY <1>10, WaitFindsEndTalks, EventSetTalks, RaiseSavedTalks
<1>7. CASE WaitTimesOut
  BY <1>1, <1>7, WaitTimesOutDoes
<1>8. CASE Fudge
  <2>1. Sound' /\ Begins(TRUE) /\ call.pc = "fudge"
    BY <1>1, <1>8, FudgeDoes
  <2> QED
    BY <2>1, BeginsTalks DEF Idly
<1>9. CASE FudgeRefused
  <2>1. /\ Sound' /\ Ends(call.original) /\ UNCHANGED <<c, h, toServer, abandoned>>
        /\ call.pc = "fudge" /\ ~c.active
    BY <1>1, <1>9, FudgeRefusedDoes
  <2>2. /\ call.heard /\ s.said[call.n] = "AUTH_FAILED"
        /\ call.original.raised /\ call.original.kind = "badtype"
    BY <1>1, <2>1 DEF Noted
  <2>3. c'.saved.kind \notin {"success", "failed", "partial", "badtype"}
    BY <1>1, <2>1 DEF Noted, Asking
  <2>4. Verdict("badtype") = "AUTH_FAILED"
    BY DEF Verdict
  <2>5. PICK r : r = call.original
    OBVIOUS
  <2> QED
    BY <2>1, <2>2, <2>3, <2>4, <2>5, EndsTalks
<1> QED
  BY <1>2, <1>3, <1>4, <1>5, <1>6, <1>7, <1>8, <1>9, <1>10 DEF CallSteps

-----------------------------------------------------------------------------
(* The conversation: the client's transport thread                          *)

\* A message that is taken leaves the others.
LEMMA TakesQueue ==
    ASSUME Sound, Turns, NEW type, Takes(type)
    PROVE  /\ Sent(toClient') \subseteq Sent(toClient) /\ Single(toClient')
           /\ toClient # <<>> /\ Head(toClient) \in Answers
           /\ type # "success" => (SuccessSent' <=> SuccessSent)
<1>1. toClient \in Seq(Answers) /\ toClient # <<>> /\ toClient' = Tail(toClient)
      /\ Head(toClient).type = type
  BY DEF Sound, TransportsOK, Takes
<1>2. Sent(toClient') \subseteq Sent(toClient) /\ Head(toClient) \in Answers
  BY <1>1, SentTail
<1>3. Single(toClient')
  BY <1>1, TellQueues DEF Turns
<1>4. Sent(toClient) = {Head(toClient)} \cup Sent(toClient')
  BY <1>1, SentHead
<1>5. type # "success" => (SuccessSent' <=> SuccessSent)
  BY <1>1, <1>4 DEF SuccessSent
<1> QED
  BY <1>1, <1>2, <1>3, <1>5

\* The thread leaves its loop: only what is known of the attempt counts from now on.
LEMMA DiesTalks ==
    ASSUME Typed, Sound', Talk, Idly, NEW kind, Dies(kind),
           kind \in {"eof", "ssh", "other"} \/ kind = c.saved.kind,
           LastAsks(toServer'), Single(toClient'),
           Sent(toServer') \subseteq Sent(toServer), Sent(toClient') \subseteq Sent(toClient),
           toServer = <<>> => toServer' = <<>>, toClient = <<>> => toClient' = <<>>,
           s'.authenticated = s.authenticated, s'.said = s.said, s'.compressed = s.compressed,
           s'.active => s.active /\ (SuccessSent' <=> SuccessSent)
    PROVE  Talk'
<1>1. Turns /\ Places /\ Compressors /\ Noted /\ Informed
  BY DEF Talk
<1>2. /\ c.active /\ c'.active = c.active /\ c'.thread = "raised" /\ c'.accepted = c.accepted
      /\ c'.compressed = c.compressed /\ c'.saved.kind = kind
      /\ UNCHANGED <<flavour, h, call, abandoned, garbled>>
  BY DEF Dies
<1>3. SamePlace
  BY <1>2 DEF SamePlace
<1>4. Turns'
  BY <1>1, <1>2, TurnsKept
<1>5. Places'
  BY <1>1, <1>2 DEF Places
<1>6. Compressors'
  BY <1>1, <1>2, CompressorsKept DEF Compressors
<1>7. Noted'
  BY <1>1, <1>2, <1>3, NotedKept
<1>8. Informed'
  <2>1. SuccessSent => ~call.heard
    BY <1>1 DEF SuccessSent, Turns, Tells, ToldWell
  <2> QED
    BY <1>1, <1>2, <1>3, <2>1, InformedKept
<1> QED
  BY <1>4, <1>5, <1>6, <1>7, <1>8 DEF Talk

\* active is cleared, by the thread or by close(), or the caller is woken afterwards.
LEMMA StopsTalks ==
    ASSUME Typed, Sound', Talk, Idly, Stops
    PROVE  Talk'
<1>1. Turns /\ Places /\ Compressors /\ Noted /\ Informed
  BY DEF Talk
<1>2. /\ c'.accepted = c.accepted /\ c'.saved.kind \in {c.saved.kind, "eof"}
      /\ SamePlace /\ call'.heard = call.heard /\ (call.woken => call'.woken)
      /\ UNCHANGED <<flavour, h, s, toServer, toClient, abandoned, garbled>>
  BY DEF Stops
<1>3. ~c'.active
  BY <1>1 DEF Stops, Places
<1>4. call'.pc = call.pc /\ call'.n = call.n
  BY <1>2 DEF SamePlace
<1>5. Turns'
  <2>1. LastAsks(toServer') /\ Single(toClient')
    BY <1>1, <1>2 DEF Turns
  <2> QED
    BY <1>1, <1>2, <1>3, <1>4, <2>1, TurnsKept
<1>6. Places'
  BY <1>1, <1>2, <1>3, <1>4 DEF Places
<1>7. Compressors'
  BY <1>1, <1>2, <1>3, CompressorsKept DEF Compressors
<1>8. Noted'
  BY <1>1, <1>2, <1>3, NotedKept
<1>9. Informed'
  BY <1>1, <1>2, <1>3, InformedKept
<1> QED
  BY <1>5, <1>6, <1>7, <1>8, <1>9 DEF Talk

\* The end of the connection, and what ends the transport afterwards.
LEMMA EndOfTransportTalks ==
    ASSUME Typed, Talk, Idly,
           Faults \/ ClientEof \/ ParseDisconnect \/ RunStops \/ RunAborts \/ RunClosed
    PROVE  Talk'
<1>1. Sound /\ Turns /\ LastAsks(toServer) /\ Single(toClient)
  BY DEF Talk, Turns, Typed, Sound
<1>2. CASE Close \/ RunStops \/ RunAborts \/ RunClosed
  BY <1>1, <1>2, StopsDoes, StopsTalks
<1>3. CASE ConnectionLost
  <2>1. /\ Sound' /\ Dies("eof") /\ toServer' = <<>> /\ toClient' = <<>> /\ ~s'.active
        /\ s'.authenticated = s.authenticated /\ s'.compressed = s.compressed /\ s'.said = s.said
    BY <1>1, <1>3, ConnectionLostDoes
  <2>2. Sent(toServer') = {} /\ Sent(toClient') = {} /\ LastAsks(toServer') /\ Single(toClient')
    BY <2>1, SentFew, FewAnswers DEF LastAsks
  <2> QED
    BY <2>1, <2>2, DiesTalks
<1>4. CASE ClientEof
  <2>1. Sound' /\ Dies("eof") /\ UNCHANGED <<s, toServer, toClient>>
    BY <1>1, <1>4, ClientEofDoes
  <2>2. SuccessSent' <=> SuccessSent
    BY <2>1 DEF SuccessSent
  <2> QED
    BY <1>1, <2>1, <2>2, DiesTalks
<1>5. CASE ParseDisconnect
  <2>1. Sound' /\ Takes("disconnect") /\ toServer' = toServer /\ Dies(c.saved.kind)
    BY <1>1, <1>5, ParseDisconnectDoes
  <2>2. /\ Sent(toClient') \subseteq Sent(toClient) /\ Single(toClient') /\ toClient # <<>> /\ s' = s
        /\ SuccessSent' <=> SuccessSent
    BY <1>1, <2>1, TakesQueue DEF Takes
  <2>3. PICK kind : kind = c.saved.kind
    OBVIOUS
  <2> QED
    BY <1>1, <2>1, <2>2, <2>3, DiesTalks
<1> QED
  BY <1>2, <1>3, <1>4, <1>5 DEF Faults

\* The client answers an accepted service, or a prompt.
LEMMA AsksTalks ==
    ASSUME Typed, Sound', Talk, Idly, NEW type \in {"service_accept", "info_request"}, Takes(type),
           type = "service_accept" => flavour = "Transport", flavour # "Foreign",
           UNCHANGED <<c, h, call>>, NEW q \in Requests, toServer' = Append(toServer, q),
           q.n = call.n, q.compressed = c.compressed,
           q.type = IF type = "service_accept" THEN "userauth_request" ELSE "info_response"
    PROVE  Talk'
<1>1. /\ Turns /\ Places /\ Compressors /\ Noted /\ Informed /\ Sound /\ toServer \in Seq(Requests)
      /\ UNCHANGED <<flavour, s, abandoned, garbled>> /\ c.active /\ Head(toClient).type = type
  BY DEF Talk, Typed, Sound, TransportsOK, Takes
<1>2. /\ ToldWell(Head(toClient)) /\ \A m \in Sent(toServer) : ~Asks(m)
      /\ Quiet(toClient') /\ Attends(type = "service_accept") /\ ~call.heard
  BY <1>1, ToldFacts
<1>3. (SuccessSent' <=> SuccessSent) /\ ~SuccessSent'
  BY <1>1, <1>2, TakesQueue DEF SuccessSent, Quiet, Tells
<1>4. call.pc \in {"sent", "wait", "event"}
  BY <1>2 DEF Attends
<1>5. AskedWell(q)'
  <2>1. q.type = "info_response" => ~s.authenticated
    BY <1>1, <1>2 DEF ToldWell
  <2>2. Attends(q.type = "service_request")'
    BY <1>1, <1>4 DEF Attends
  <2> QED
    BY <1>1, <1>2, <2>1, <2>2 DEF AskedWell
<1>6. Turns'
  BY <1>1, <1>2, <1>5, TurnsAsk
<1>7. Places'
  BY <1>1, <1>4 DEF Places
<1>8. Compressors'
  <2>1. Sent(toServer') = Sent(toServer) \cup {q}
    BY <1>1, SentMore
  <2>2. s.active => c.compressed = s.compressed
    BY <1>1, <1>3 DEF Compressors, Ahead, SuccessSent
  <2> QED
    BY <1>1, <1>3, <2>1, <2>2, CompressorsKept DEF Compressors
<1>9. SamePlace
  BY DEF SamePlace
<1>10. Noted'
  BY <1>1, <1>9, NotedKept
<1>11. Informed'
  BY <1>1, <1>3, <1>9, InformedKept
<1> QED
  BY <1>6, <1>7, <1>8, <1>10, <1>11 DEF Talk

\* SERVICE_ACCEPT.
LEMMA ServiceAcceptTalks ==
    ASSUME Typed, Talk, Idly, ServiceAccepted \/ ParseServiceAccept
    PROVE  Talk'
<1>1. /\ Turns /\ Places /\ Compressors /\ Noted /\ Informed /\ Sound
      /\ LastAsks(toServer) /\ c \in ClientSet /\ call \in CallSet /\ h \in HandlerSet
  BY DEF Talk, Turns, Typed, Sound, TransportsOK
<1>2. CASE ServiceAccepted
  <2>1. /\ Sound' /\ Takes("service_accept") /\ flavour = "ServiceRequesting"
        /\ c'.active = c.active /\ c'.thread = c.thread /\ c'.accepted /\ c'.compressed = c.compressed
        /\ c'.saved = c.saved /\ UNCHANGED <<h, call, toServer>>
    BY <1>1, <1>2, ServiceAcceptedDoes
  <2>2. UNCHANGED <<flavour, s, abandoned, garbled>> /\ c.active
    BY <2>1 DEF Takes
  <2>3. /\ \A m \in Sent(toServer) : ~Asks(m)
        /\ Quiet(toClient') /\ Attends(TRUE) /\ ~call.heard
    BY <1>1, <2>1, ToldFacts
  <2>4. call.pc = "poll"
    BY <2>1, <2>3 DEF Attends
  <2>5. NoTurn'
    BY <2>1, <2>3 DEF NoTurn
  <2>6. Turns'
    BY <2>1, <2>5, TurnsNone
  <2>7. Places'
    BY <1>1, <2>1, <2>2, <2>3, <2>4 DEF Places
  <2>8. SuccessSent' <=> SuccessSent
    BY <1>1, <2>1, TakesQueue
  <2>9. Compressors'
    BY <1>1, <2>1, <2>2, <2>8, CompressorsKept DEF Compressors
  <2>10. SamePlace
    BY <2>1 DEF SamePlace
  <2>11. Noted'
    BY <1>1, <2>1, <2>2, <2>10, NotedKept
  <2>12. Informed'
    BY <1>1, <2>1, <2>2, <2>8, <2>10, InformedKept
  <2> QED
    BY <2>6, <2>7, <2>9, <2>11, <2>12 DEF Talk
<1>3. CASE ParseServiceAccept
  <2>1. Sound' /\ Takes("service_accept") /\ flavour = "Transport" /\ s' = s
    BY <1>1, <1>3, ParseServiceAcceptDoes DEF Takes
  <2>2. CASE toServer' = toServer /\ \E kind \in {"other", "ssh"} : Dies(kind)
    <3>1. /\ Sent(toClient') \subseteq Sent(toClient) /\ Single(toClient') /\ toClient # <<>>
          /\ SuccessSent' <=> SuccessSent
      BY <1>1, <2>1, TakesQueue
    <3> QED
      BY <1>1, <2>1, <2>2, <3>1, DiesTalks
  <2>3. CASE toServer' = Append(toServer, UserauthRequest(h.method)) /\ UNCHANGED <<c, h, call>>
    <3>1. h.method \in Methods \cup {""}
      BY <1>1 DEF HandlerSet
    <3>2. PICK q \in Requests : /\ toServer' = Append(toServer, q) /\ q.n = call.n
                                /\ q.compressed = c.compressed /\ q.type = "userauth_request"
      BY <1>1, <2>3, <3>1, UserauthRequestDoes
    <3> QED
      BY <2>1, <2>3, <3>2, AsksTalks
  <2> QED
    BY <1>1, <1>3, <2>2, <2>3, ParseServiceAcceptDoes
<1> QED
  BY <1>2, <1>3

\* USERAUTH_INFO_REQUEST.
LEMMA InfoRequestTalks ==
    ASSUME Typed, Talk, Idly, ParseUserauthInfoRequest
    PROVE  Talk'
<1>1. /\ Turns /\ Sound /\ LastAsks(toServer) /\ c \in ClientSet /\ call.n \in Numbers
  BY DEF Talk, Turns, Typed, Sound, TransportsOK, CallSet
<1>2. Sound' /\ Takes("info_request") /\ s' = s /\ flavour # "Foreign"
      /\ Head(toClient).type = "info_request"
  BY <1>1, ParseUserauthInfoRequestDoes DEF Takes
<1>3. CASE toServer' = toServer /\ Dies("ssh")
  <2>1. /\ Sent(toClient') \subseteq Sent(toClient) /\ Single(toClient') /\ toClient # <<>>
        /\ SuccessSent' <=> SuccessSent
    BY <1>1, <1>2, TakesQueue
  <2> QED
    BY <1>1, <1>2, <1>3, <2>1, DiesTalks
<1>4. CASE /\ toServer' = Append(toServer, Message("info_response", Head(toClient).n))
           /\ UNCHANGED <<c, h, call>>
  <2>1. Head(toClient).n = call.n
    BY <1>1, <1>2, ToldFacts DEF ToldWell
  <2>2. PICK q \in Requests : /\ toServer' = Append(toServer, q) /\ q.n = call.n
                              /\ q.compressed = c.compressed /\ q.type = "info_response"
    BY <1>1, <1>4, <2>1, MessageDoes
  <2> QED
    BY <1>2, <1>4, <2>2, AsksTalks
<1> QED
  BY <1>1, <1>3, <1>4, ParseUserauthInfoRequestDoes

\* USERAUTH_BANNER: a client without a handler answers it, but has not asked for anything.
LEMMA BannerTalks ==
    ASSUME Typed, Talk, Idly, ParseUserauthBanner
    PROVE  Talk'
<1>1. /\ Turns /\ Places /\ Compressors /\ Noted /\ Informed /\ Sound
      /\ LastAsks(toServer) /\ c \in ClientSet /\ toServer \in Seq(Requests)
  BY DEF Talk, Turns, Typed, Sound, TransportsOK
<1>2. /\ Sound' /\ Takes("banner") /\ UNCHANGED <<c, call>>
      /\ h'.made = h.made /\ h'.authenticated = h.authenticated
      /\ \/ h.made /\ toServer' = toServer
         \/ ~h.made /\ toServer' = Append(toServer, Message("unimplemented", 0))
  BY <1>1, ParseUserauthBannerDoes
<1>3. UNCHANGED <<flavour, s, abandoned, garbled>> /\ c.active
  BY <1>2 DEF Takes
<1>4. /\ Sent(toClient') \subseteq Sent(toClient) /\ Single(toClient') /\ toClient # <<>>
      /\ SuccessSent' <=> SuccessSent
  BY <1>1, <1>2, TakesQueue
<1>5. CASE h.made /\ toServer' = toServer
  <2>1. Turns'
    BY <1>1, <1>2, <1>3, <1>4, <1>5, TurnsKept
  <2>2. Places'
    BY <1>1, <1>2, <1>3, <1>4, <1>5 DEF Places
  <2>3. Compressors'
    BY <1>1, <1>2, <1>3, <1>4, <1>5, CompressorsKept DEF Compressors
  <2> QED
    BY <1>1, <1>2, <1>3, <1>4, <2>1, <2>2, <2>3, NotedKept, InformedKept DEF Talk, SamePlace
<1>6. CASE ~h.made /\ toServer' = Append(toServer, Message("unimplemented", 0))
  <2>1. PICK q \in Requests : /\ toServer' = Append(toServer, q) /\ ~Asks(q)
                              /\ q.compressed = c.compressed
    BY <1>1, <1>6, Bounds, MessageDoes DEF Asks
  <2>2. call.pc \notin {"made", "sent", "wait", "event", "except"}
    BY <1>1, <1>6 DEF Places
  <2>3. ASSUME NEW m \in Sent(toServer), Asks(m) PROVE FALSE
    <3>1. AskedWell(m)
      BY <1>1, <2>3 DEF Turns
    <3>2. Attends(m.type = "service_request")
      BY <1>3, <3>1 DEF AskedWell
    <3>3. m.type = "service_request" /\ flavour = "ServiceRequesting"
      BY <2>2, <3>2 DEF Attends
    <3> QED
      BY <1>4, <3>1, <3>3 DEF AskedWell
  <2>4. ASSUME NEW m \in Sent(toClient), Tells(m)
        PROVE  m.type = "service_accept" /\ ToldWell(m)'
    <3>1. ToldWell(m) /\ Attends(m.type = "service_accept")
      BY <1>1, <1>3, <2>4 DEF Turns, ToldWell
    <3>2. m.type = "service_accept" /\ Attends(TRUE)
      BY <2>2, <3>1 DEF Attends
    <3>3. Attends(TRUE)'
      BY <1>2, <1>3, <3>2 DEF Attends
    <3> QED
      BY <1>2, <3>1, <3>2, <3>3 DEF ToldWell
  <2>5. LastAsks(toServer') /\ Sent(toServer') = Sent(toServer) \cup {q}
    BY <1>1, <2>1, <2>3, AskQueues, SentMore
  <2>6. Turns'
    BY <1>4, <2>1, <2>3, <2>4, <2>5 DEF Turns
  <2>7. Places'
    BY <1>1, <1>2, <1>3, <1>4 DEF Places
  <2>8. ~SuccessSent
    BY <2>4 DEF SuccessSent, Tells
  <2>9. s.active => q.compressed = s.compressed
    BY <1>1, <1>3, <2>1, <2>8 DEF Compressors, Ahead, SuccessSent
  <2>10. Compressors'
    BY <1>1, <1>2, <1>3, <1>4, <2>5, <2>9, CompressorsKept DEF Compressors
  <2> QED
    BY <1>1, <1>2, <1>3, <1>4, <2>6, <2>7, <2>10, NotedKept, InformedKept DEF Talk, SamePlace
<1> QED
  BY <1>2, <1>5, <1>6

\* USERAUTH_SUCCESS: it is the verdict on the attempt, and compression catches up.
LEMMA SuccessTalks ==
    ASSUME Typed, Talk, Idly, ParseUserauthSuccess
    PROVE  Talk'
<1>1. /\ Turns /\ Places /\ Compressors /\ Noted /\ Informed /\ Sound
      /\ c.compressed \in Nat /\ call.heard \in BOOLEAN /\ call.n \in Numbers
  BY DEF Talk, Typed, Sound, TransportsOK, ClientSet, CallSet
<1>2. /\ Sound' /\ Takes("success") /\ toServer' = toServer /\ Hears(Head(toClient).n)
      /\ h'.authenticated /\ h'.made = h.made
      /\ c'.active = c.active /\ c'.thread = c.thread
      /\ c'.accepted = c.accepted /\ c'.saved = c.saved
      /\ c'.compressed = IF Delayed THEN c.compressed + 1 ELSE c.compressed
  BY <1>1, ParseUserauthSuccessDoes
<1>3. UNCHANGED <<flavour, s, abandoned, garbled>> /\ c.active /\ c.thread = "runs"
      /\ Head(toClient).type = "success"
  BY <1>2 DEF Takes
<1>4. /\ ToldWell(Head(toClient)) /\ \A m \in Sent(toServer) : ~Asks(m)
      /\ Quiet(toClient') /\ call.pc \in {"sent", "wait", "event"} /\ ~call.heard
  BY <1>1, <1>2, ToldFacts
<1>5. /\ call.pc \in {"sent", "wait", "event"} /\ toServer = <<>> /\ Head(toClient).n = call.n
      /\ s.said[call.n] = "AUTH_SUCCESSFUL"
  BY <1>3, <1>4 DEF ToldWell
<1>6. SamePlace /\ call'.heard /\ call'.pc = call.pc /\ call'.n = call.n
      /\ call'.fudging = call.fudging /\ call'.original = call.original
  BY <1>2, <1>5 DEF Hears, SamePlace
<1>7. NoTurn'
  BY <1>2, <1>4 DEF NoTurn
<1>8. Turns'
  BY <1>2, <1>7, TurnsNone
<1>9. Places'
  BY <1>1, <1>2, <1>3, <1>5, <1>6 DEF Places
<1>10. SuccessSent /\ ~SuccessSent'
  <2>1. toClient \in Seq(Answers) /\ toClient # <<>>
    BY <1>2 DEF Takes, Typed, TransportsOK
  <2>2. Head(toClient) \in Sent(toClient)
    BY <2>1, SentTail
  <2> QED
    BY <1>3, <1>4, <2>2 DEF SuccessSent, Quiet, Tells
<1>11. Compressors'
  <2>1. s.active => s.compressed = IF Delayed THEN c.compressed + 1 ELSE c.compressed
    BY <1>1, <1>3, <1>10 DEF Compressors, Ahead, SuccessSent
  <2>2. Sent(toServer') = {}
    BY <1>2, <1>5, SentFew
  <2> QED
    BY <1>1, <1>2, <1>3, <1>10, <2>1, <2>2 DEF Compressors, Ahead, SuccessSent
<1>12. Noted'
  <2>1. c'.saved.kind \notin {"success", "failed", "partial", "badtype"}
    BY <1>1, <1>2, <1>4 DEF Noted
  <2> QED
    BY <1>1, <1>2, <1>3, <1>5, <1>6, <2>1 DEF Noted, Asking
<1>13. Informed'
  <2>1. Arriving'
    BY <1>2, <1>5, <1>6 DEF Arriving, Asking
  <2>2. call'.pc # "idle" /\ call.pc # "idle"
    BY <1>5, <1>6
  <2> HIDE DEF Arriving
  <2> QED
    BY <1>1, <1>3, <1>6, <2>1, <2>2 DEF Informed, Idly
<1> QED
  BY <1>8, <1>9, <1>11, <1>12, <1>13 DEF Talk

\* USERAUTH_FAILURE: so is that, and it is kept for get_exception.
LEMMA FailureTalks ==
    ASSUME Typed, Talk, Idly, ParseUserauthFailure
    PROVE  Talk'
<1>1. /\ Turns /\ Places /\ Compressors /\ Noted /\ Informed /\ Sound
      /\ call.heard \in BOOLEAN /\ call.n \in Numbers
  BY DEF Talk, Typed, Sound, TransportsOK, CallSet
<1>2. /\ Sound' /\ Takes("failure") /\ toServer' = toServer /\ Hears(Head(toClient).n)
      /\ ~h'.authenticated /\ h'.made = h.made
      /\ c'.active = c.active /\ c'.thread = c.thread
      /\ c'.accepted = c.accepted /\ c'.compressed = c.compressed
      /\ c'.saved.kind \in IF Head(toClient).partial THEN {"partial"}
                                                   ELSE {"badtype", c.saved.kind}
  BY <1>1, ParseUserauthFailureDoes
<1>3. UNCHANGED <<flavour, s, abandoned, garbled>> /\ c.active /\ c.thread = "runs"
      /\ Head(toClient).type = "failure"
  BY <1>2 DEF Takes
<1>4. /\ ToldWell(Head(toClient)) /\ \A m \in Sent(toServer) : ~Asks(m)
      /\ Quiet(toClient') /\ call.pc \in {"sent", "wait", "event"} /\ ~call.heard
  BY <1>1, <1>2, ToldFacts
<1>5. /\ call.pc \in {"sent", "wait", "event"} /\ toServer = <<>> /\ Head(toClient).n = call.n
      /\ s.said[call.n] = Verdict(IF Head(toClient).partial THEN "partial" ELSE "failed")
  BY <1>3, <1>4 DEF ToldWell
<1>6. SamePlace /\ call'.heard /\ call'.pc = call.pc /\ call'.n = call.n
      /\ call'.fudging = call.fudging /\ call'.original = call.original
  BY <1>2, <1>5 DEF Hears, SamePlace
<1>7. NoTurn'
  BY <1>2, <1>4 DEF NoTurn
<1>8. Turns'
  BY <1>2, <1>7, TurnsNone
<1>9. Places'
  BY <1>1, <1>2, <1>3, <1>5, <1>6 DEF Places
<1>10. (SuccessSent' <=> SuccessSent) /\ ~SuccessSent'
  BY <1>1, <1>2, <1>4, TakesQueue DEF SuccessSent, Quiet, Tells
<1>11. Compressors'
  BY <1>1, <1>2, <1>3, <1>10, CompressorsKept DEF Compressors
<1>12. Noted'
  <2>1. c.saved.kind \notin {"success", "failed", "partial", "badtype"}
    BY <1>1, <1>4 DEF Noted
  <2>2. /\ c'.saved.kind \notin {"success", "failed"}
        /\ c'.saved.kind = "partial" => Head(toClient).partial
        /\ c'.saved.kind \in {"badtype", "none"} => ~Head(toClient).partial
    BY <1>2, <2>1
  <2>3. /\ c'.saved.kind \in {"partial", "badtype"} => s.said[call.n] = Verdict(c'.saved.kind)
        /\ c'.saved.kind = "none" => s.said[call.n] = "AUTH_FAILED"
    BY <1>5, <2>2 DEF Verdict
  <2> QED
    BY <1>1, <1>2, <1>3, <1>5, <1>6, <2>2, <2>3 DEF Noted, Asking
<1>13. Informed'
  <2>1. ~Arriving
    BY <1>3, <1>4, <1>5, <1>10 DEF Arriving, SuccessSent
  <2>2. program.runs # "application" => ~(s.authenticated /\ c.active)
    BY <1>1, <1>5, <2>1 DEF Informed
  <2>3. call'.pc # "idle" /\ call.pc # "idle"
    BY <1>5, <1>6
  <2> QED
    BY <1>1, <1>2, <1>3, <1>6, <2>2, <2>3 DEF Informed, Idly
<1> QED
  BY <1>8, <1>9, <1>11, <1>12, <1>13 DEF Talk

\* The client's transport thread, and the faults.
LEMMA ClientReadsTalk ==
    ASSUME Typed, Talk, Idly, ClientReads \/ Faults
    PROVE  Talk'
  BY EndOfTransportTalks, ServiceAcceptTalks, BannerTalks, SuccessTalks, FailureTalks,
     InfoRequestTalks DEF ClientReads

-----------------------------------------------------------------------------
(* The conversation: the server                                             *)

\* What is known when the server takes a message that passes the turn to it.
LEMMA AskedFacts ==
    ASSUME Sound, Turns, NEW ms, Serves(ms), Asks(Head(toServer))
    PROVE  /\ toServer' = <<>> /\ Quiet(toClient) /\ ~call.heard /\ Head(toServer).n = call.n
           /\ Head(toServer).type = "info_response" => ~s.authenticated
           /\ c.active => Attends(Head(toServer).type = "service_request")
<1>1. toServer \in Seq(Requests) /\ toServer # <<>> /\ toServer' = Tail(toServer)
  BY DEF Sound, TransportsOK, Serves
<1>2. toServer' = <<>>
  BY <1>1, AskQueues DEF Turns
<1>3. AskedWell(Head(toServer))
  BY <1>1, SentTail DEF Turns
<1> QED
  BY <1>2, <1>3 DEF AskedWell

\* The server leaves.
LEMMA LeavesTalks ==
    ASSUME Typed, Sound', Talk, Idly, Leaves
    PROVE  Talk'
<1>1. /\ Turns /\ Places /\ Compressors /\ Noted /\ Informed
      /\ LastAsks(toServer) /\ Single(toClient)
  BY DEF Talk, Turns
<1>2. /\ UNCHANGED <<flavour, c, h, call, toServer, toClient, abandoned>>
      /\ s'.authenticated = s.authenticated /\ s'.compressed = s.compressed /\ s'.said = s.said
      /\ ~s'.active
  BY DEF Leaves, Undecided
<1>3. ~garbled'
  BY <1>1 DEF Leaves, Compressors
<1>4. Turns'
  BY <1>1, <1>2, TurnsKept
<1>5. Places'
  BY <1>1, <1>2 DEF Places
<1>6. SuccessSent' <=> SuccessSent
  BY <1>2 DEF SuccessSent
<1>7. Compressors'
  BY <1>1, <1>2, <1>3, <1>6, CompressorsKept
<1>8. SamePlace
  BY <1>2 DEF SamePlace
<1> QED
  BY <1>1, <1>2, <1>4, <1>5, <1>6, <1>7, <1>8, NotedKept, InformedKept DEF Talk

\* The server takes a message and decides nothing.
LEMMA CalmlyTalks ==
    ASSUME Typed, Sound', Talk, Idly, flavour # "Foreign", Calmly
    PROVE  Talk'
<1>1. /\ Turns /\ Places /\ Compressors /\ Noted /\ Informed /\ Sound
      /\ toServer \in Seq(Requests) /\ toClient \in Seq(Answers)
  BY DEF Talk, Typed, Sound, TransportsOK
<1>2. s'.authenticated = s.authenticated /\ s'.compressed = s.compressed /\ s'.said = s.said
  BY DEF Calmly, Undecided
<1>3. PICK ms \in Seq(Answers) :
        /\ Serves(ms) /\ \A m \in Sent(ms) : IF Tells(m) THEN Accepts(m) \/ Prompts(m) ELSE m.n = 0
        /\ Head(toServer).type = "unimplemented" => ms = <<>>
  BY DEF Calmly
<1>4. /\ toServer # <<>> /\ s.active /\ toServer' = Tail(toServer) /\ Single(ms) /\ toClient' = toClient \o ms
      /\ UNCHANGED <<flavour, c, h, call, abandoned, garbled>>
  BY <1>3 DEF Serves
<1>5. /\ Sent(toServer') \subseteq Sent(toServer)
      /\ Sent(toClient') = Sent(toClient) \cup Sent(ms)
  BY <1>1, <1>3, ServesQueues
<1>6. Turns'
  <2>1. CASE Asks(Head(toServer))
    <3>1. /\ toServer' = <<>> /\ Quiet(toClient) /\ ~call.heard /\ Head(toServer).n = call.n
          /\ Head(toServer).type = "info_response" => ~s.authenticated
          /\ c.active => Attends(Head(toServer).type = "service_request")
      BY <1>1, <1>3, <2>1, AskedFacts
    <3>2. LastAsks(toServer') /\ Sent(toServer') = {}
      BY <3>1, SentFew DEF LastAsks
    <3>3. Single(toClient')
      BY <1>1, <1>3, <1>4, <3>1, TellQueues
    <3>4. ASSUME NEW m \in Sent(toClient'), Tells(m) PROVE ToldWell(m)'
      <4>1. m \in Sent(ms) /\ (Accepts(m) \/ Prompts(m))
        BY <1>3, <1>5, <3>1, <3>4 DEF Quiet
      <4>2. CASE Accepts(m)
        <5>1. m.type = "service_accept" /\ Head(toServer).type = "service_request"
          BY <4>2 DEF Accepts
        <5>2. c.active => Attends(m.type = "service_accept")'
          BY <1>4, <3>1, <5>1 DEF Attends
        <5> QED
          BY <1>4, <3>1, <5>1, <5>2 DEF ToldWell
      <4>3. CASE Prompts(m)
        <5>1. /\ m.type = "info_request" /\ m.n = call.n /\ ~s.authenticated
              /\ Head(toServer).type \in {"userauth_request", "info_response"}
          BY <3>1, <4>3 DEF Prompts, Judgeable
        <5>2. c.active => Attends(m.type = "service_accept")'
          BY <1>4, <3>1, <5>1 DEF Attends
        <5> QED
          BY <1>2, <1>4, <3>1, <5>1, <5>2 DEF ToldWell
      <4> QED
        BY <4>1, <4>2, <4>3
    <3> QED
      BY <3>2, <3>3, <3>4 DEF Turns
  <2>2. CASE ~Asks(Head(toServer))
    <3>1. Head(toServer).type = "unimplemented" /\ ms = <<>>
      BY <1>3, <2>2 DEF Asks
    <3>2. toClient' = toClient
      BY <1>1, <1>4, <3>1
    <3>3. LastAsks(toServer') /\ Single(toClient')
      BY <1>1, <1>4, <3>2, AskQueues DEF Turns
    <3> QED
      BY <1>1, <1>2, <1>4, <1>5, <3>2, <3>3, TurnsKept
  <2> QED
    BY <2>1, <2>2
<1>7. Places'
  BY <1>1, <1>4 DEF Places
<1>8. SuccessSent' <=> SuccessSent
  <2>1. \A m \in Sent(ms) : m.type # "success"
    BY <1>3 DEF Tells, Accepts, Prompts
  <2> QED
    BY <1>5, <2>1 DEF SuccessSent
<1>9. Compressors'
  BY <1>1, <1>2, <1>4, <1>5, <1>8, CompressorsKept DEF Compressors
<1>10. SamePlace
  BY <1>4 DEF SamePlace
<1> QED
  BY <1>1, <1>2, <1>4, <1>6, <1>7, <1>8, <1>9, <1>10, NotedKept, InformedKept DEF Talk

\* The server gives its verdict on the attempt: it is the one that waits, and it was not told.
LEMMA JudgesTalks ==
    ASSUME Typed, Sound', Talk, Idly, flavour # "Foreign", Judges
    PROVE  Talk'
<1>1. /\ Turns /\ Places /\ Compressors /\ Noted /\ Informed /\ Sound
      /\ toServer \in Seq(Requests) /\ toClient \in Seq(Answers)
      /\ call.n \in Numbers /\ call.n \in Nat /\ call.about \in Numbers
      /\ s.authenticated \in BOOLEAN /\ s.compressed \in Nat /\ c.compressed \in Nat
  BY OnItsWay DEF Talk, Typed, Sound, TransportsOK, CallSet, ServerSet, ClientSet
<1>2. PICK ms \in Seq(Answers), result \in Results :
        /\ Serves(ms) /\ Judgeable
        /\ s'.authenticated = (s.authenticated \/ result = "AUTH_SUCCESSFUL")
        /\ s'.compressed = IF result = "AUTH_SUCCESSFUL" /\ Delayed THEN s.compressed + 1
                                                                   ELSE s.compressed
        /\ s'.said[Head(toServer).n] = result
        /\ \A k \in Numbers : k # Head(toServer).n => s'.said[k] = s.said[k]
        /\ \A m \in Sent(ms) :
              IF Tells(m)
              THEN /\ m.n = Head(toServer).n
                   /\ \/ m.type = "success" /\ result = "AUTH_SUCCESSFUL"
                      \/ /\ m.type = "failure" /\ result # "AUTH_SUCCESSFUL"
                         /\ m.partial = (result = "AUTH_PARTIALLY_SUCCESSFUL")
              ELSE m.n = 0
        /\ result = "AUTH_SUCCESSFUL" => \E m \in Sent(ms) : m.type = "success"
  BY DEF Judges
<1>3. /\ Single(ms) /\ toClient' = toClient \o ms /\ s.active
      /\ UNCHANGED <<flavour, c, h, call, abandoned, garbled>>
  BY <1>2 DEF Serves
<1>4. Sent(toClient') = Sent(toClient) \cup Sent(ms) /\ Sent(ms) \subseteq Answers
  BY <1>1, <1>2, ServesQueues
<1>5. /\ Asks(Head(toServer)) /\ Head(toServer).type \in {"userauth_request", "info_response"}
  BY <1>2 DEF Judgeable, Asks
<1>6. /\ toServer' = <<>> /\ Quiet(toClient) /\ ~call.heard /\ Head(toServer).n = call.n
      /\ c.active => Attends(Head(toServer).type = "service_request")
      /\ ~s.authenticated
  BY <1>1, <1>2, <1>5, AskedFacts DEF Judgeable
<1>7. c.active => call.pc \in {"sent", "wait", "event"}
  BY <1>5, <1>6 DEF Attends
<1>8. s'.said[call.n] = result /\ \A k \in Numbers : k # call.n => s'.said[k] = s.said[k]
  BY <1>2, <1>6
<1>9. ~SuccessSent /\ (SuccessSent' <=> result = "AUTH_SUCCESSFUL")
  <2>1. ~SuccessSent
    BY <1>6 DEF SuccessSent, Quiet, Tells
  <2>2. \A m \in Sent(ms) : m.type = "success" => result = "AUTH_SUCCESSFUL"
    BY <1>2 DEF Tells
  <2> QED
    BY <1>2, <1>4, <2>1, <2>2 DEF SuccessSent
<1>10. Turns'
  <2>1. LastAsks(toServer') /\ Sent(toServer') = {}
    BY <1>6, SentFew DEF LastAsks
  <2>2. Single(toClient')
    BY <1>1, <1>3, <1>6, TellQueues
  <2>3. ASSUME NEW m \in Sent(toClient'), Tells(m) PROVE ToldWell(m)'
    <3>1. m \in Sent(ms)
      BY <1>4, <1>6, <2>3 DEF Quiet
    <3>2. /\ m.n = call.n
          /\ \/ m.type = "success" /\ result = "AUTH_SUCCESSFUL"
             \/ /\ m.type = "failure" /\ result # "AUTH_SUCCESSFUL"
                /\ m.partial = (result = "AUTH_PARTIALLY_SUCCESSFUL")
      BY <1>2, <1>6, <2>3, <3>1
    <3>3. m.type = "failure" => result = Verdict(IF m.partial THEN "partial" ELSE "failed")
      BY <3>2 DEF Verdict, Results
    <3>4. c.active => Attends(m.type = "service_accept")'
      BY <1>3, <1>7, <3>2 DEF Attends
    <3> QED
      BY <1>3, <1>6, <1>8, <3>2, <3>3, <3>4 DEF ToldWell
  <2> QED
    BY <2>1, <2>2, <2>3 DEF Turns
<1>11. Places'
  <2>1. flavour = "ServiceRequesting" /\ ~c.accepted => call.pc = "poll"
    <3>1. toServer # <<>>
      BY <1>2 DEF Serves
    <3> QED
      BY <1>1, <3>1 DEF Places
  <2> QED
    BY <1>1, <1>3, <2>1 DEF Places
<1>12. Compressors'
  <2>1. Sent(toServer') = {}
    BY <1>6, SentFew
  <2>2. c.active => c.compressed = s.compressed
    BY <1>1, <1>3, <1>9 DEF Compressors, Ahead, SuccessSent
  <2>3. Ahead' <=> Delayed /\ result = "AUTH_SUCCESSFUL"
    BY <1>9 DEF Ahead, SuccessSent
  <2> HIDE DEF Ahead
  <2> QED
    BY <1>1, <1>2, <1>3, <2>1, <2>2, <2>3 DEF Compressors
<1>13. Noted'
  <2>1. c'.saved.kind \notin {"success", "failed", "partial", "badtype"}
    BY <1>1, <1>3, <1>6 DEF Noted
  <2>2. call'.pc # "fudge" /\ ~call'.heard
    BY <1>1, <1>3, <1>6 DEF Noted
  <2>3. call.fudging => s'.said[call.n - 1] = s.said[call.n - 1]
    <3> SUFFICES ASSUME call.fudging PROVE call.n - 1 \in Numbers /\ call.n - 1 # call.n
      BY <1>8
    <3>1. call.n >= 2 /\ call.n <= 2 * MaxAttempts
      BY <1>1 DEF Typed, Counted, Numbers
    <3> QED
      BY <1>1, <3>1, Bounds
  <2>4. call.pc = "idle" /\ call.result.kind \in Verdicts =>
          \/ s'.said[call.about] = Verdict(call.result.kind) /\ call.about < call.n
          \/ ~c.active /\ call.result.kind \in {"success", "failed"}
    <3> SUFFICES ASSUME call.pc = "idle", call.result.kind \in Verdicts,
                        ~(~c.active /\ call.result.kind \in {"success", "failed"})
                 PROVE  s'.said[call.about] = Verdict(call.result.kind) /\ call.about < call.n
      OBVIOUS
    <3>1. s.said[call.about] = Verdict(call.result.kind) /\ call.about < call.n
      BY <1>1, <1>6 DEF Noted
    <3>2. call.about # call.n
      BY <1>1, <3>1
    <3> QED
      BY <1>1, <1>8, <3>1, <3>2
  <2> QED
    BY <1>1, <1>3, <2>1, <2>2, <2>3, <2>4 DEF Noted
<1>14. Informed'
  <2>1. s.authenticated => s'.authenticated
    BY <1>2
  <2>2. program.runs # "application" /\ s'.authenticated /\ c.active =>
          d.outcome = "none" /\ d.trying # "nothing" /\ Arriving'
    <3> SUFFICES ASSUME program.runs # "application", s'.authenticated, c.active
                 PROVE  d.outcome = "none" /\ d.trying # "nothing" /\ Arriving'
      OBVIOUS
    <3>1. call.pc \in {"sent", "wait", "event"} /\ d.outcome = "none" /\ d.trying # "nothing"
      BY <1>1, <1>7 DEF Informed
    <3>4. SuccessSent'
      BY <1>2, <1>6, <1>9
    <3>5. Arriving'
      BY <1>3, <3>1, <3>4 DEF Arriving, SuccessSent
    <3> QED
      BY <3>1, <3>5
  <2> HIDE DEF Arriving
  <2> QED
    BY <1>1, <1>3, <2>1, <2>2 DEF Informed, Idly
<1> QED
  BY <1>10, <1>11, <1>12, <1>13, <1>14 DEF Talk

-----------------------------------------------------------------------------
(* The conversation: every step                                             *)

\* A program that goes on without a call has read the result of its last one.
LEMMA DriverTalks ==
    ASSUME Typed, Talk, Driver
    PROVE  Talk'
<1>1. Turns /\ Places /\ Compressors /\ Noted /\ Informed /\ Sound
  BY DEF Talk, Typed, Sound
<1>2. /\ program' = program /\ program.runs # "application" /\ d.outcome = "none" /\ Sound'
  BY DriverDrives DEF Drives
<1>3. CASE /\ Begins(FALSE) /\ call.pc = "idle" /\ d.trying = "nothing"
           /\ d'.trying # "nothing" /\ d'.outcome = "none"
  BY <1>2, <1>3, BeginsTalks
<1>4. CASE UNCHANGED authVars /\ Informed'
  <2>1. UNCHANGED <<flavour, c, h, call, s, toServer, toClient, abandoned, garbled>>
    BY <1>4 DEF authVars
  <2>2. Turns'
    BY <1>1, <2>1, TurnsKept DEF Turns
  <2>3. Places'
    BY <1>1, <2>1 DEF Places
  <2>4. Compressors'
    BY <1>1, <2>1 DEF Compressors, Ahead
  <2>5. Noted'
    BY <1>1, <2>1 DEF Noted, Asking
  <2> QED
    BY <1>4, <2>2, <2>3, <2>4, <2>5 DEF Talk
<1>5. CASE /\ UNCHANGED authVars /\ d.trying = "nothing"
           /\ d'.trying = "nothing" /\ d'.outcome \in {"none", "raised"}
  <2>1. c' = c /\ call' = call /\ s' = s
    BY <1>5 DEF authVars
  <2>2. call.pc = "idle" /\ ~(s.authenticated /\ c.active)
    BY <1>1, <1>2, <1>5 DEF Informed
  <2>3. Informed'
    BY <1>1, <1>2, <1>5, <2>1, <2>2 DEF Informed
  <2> QED
    BY <1>4, <1>5, <2>3
<1>6. CASE /\ UNCHANGED authVars /\ d.trying # "nothing" /\ call.pc = "idle"
           /\ d'.trying = "nothing"
           /\ d'.outcome = "returned" => ~call.result.raised
           /\ ~call.result.raised /\ call.result.allowed = {} => d'.outcome = "returned"
  <2>1. c' = c /\ call' = call /\ s' = s
    BY <1>6 DEF authVars
  <2>2. d'.outcome = "returned" => /\ call.result.kind \in {"success", "partial"}
                                   /\ call.result.kind = "success" => s.authenticated
    BY <1>1, <1>2, <1>6 DEF Informed
  <2>3. s.authenticated /\ c.active => d'.outcome = "returned"
    <3> SUFFICES ASSUME s.authenticated, c.active PROVE d'.outcome = "returned"
      OBVIOUS
    <3>1. call.result = Returned("success", {})
      BY <1>1, <1>2, <1>6 DEF Informed, Arriving, Asking
    <3>2. ~call.result.raised /\ call.result.allowed = {}
      BY <3>1 DEF Returned
    <3> QED
      BY <1>6, <3>2
  <2>4. Informed'
    BY <1>1, <1>2, <1>6, <2>1, <2>2, <2>3 DEF Informed
  <2> QED
    BY <1>4, <1>6, <2>4
<1> QED
  BY <1>3, <1>5, <1>6, DriverDrives DEF Drives

\* Every step keeps the conversation.
LEMMA NextConversation ==
    Typed /\ Granted /\ Conversation /\ [Next]_vars => Conversation'
<1> SUFFICES ASSUME Typed, Granted, Conversation, [Next]_vars, flavour' # "Foreign", ~abandoned'
             PROVE  Talk'
  BY DEF Conversation
<1>1. Sound /\ Talk /\ flavour # "Foreign"
  BY NextKeeps DEF Typed, Sound, Conversation
<1>2. CASE AnyCall /\ Idly /\ program.runs = "application"
  <2>1. Sound' /\ Begins(FALSE) /\ call.pc = "idle"
    BY <1>1, <1>2, CallDoes DEF AnyCall
  <2> QED
    BY <1>1, <1>2, <2>1, BeginsTalks DEF Idly
<1>3. CASE CallRefused /\ Idly /\ program.runs = "application"
  <2>1. /\ Sound' /\ Ends(Raised("ssh")) /\ UNCHANGED <<c, h, toServer, abandoned>>
        /\ call.pc = "idle" /\ ~c.active
    BY <1>1, <1>3, CallRefusedDoes
  <2> QED
    BY <1>1, <1>3, <2>1, RaisesTalks
<1>4. CASE Driver
  BY <1>1, <1>4, DriverTalks
<1>5. CASE CallSteps /\ Idly
  BY <1>1, <1>5, CallStepsTalk
<1>6. CASE (ClientReads \/ Faults) /\ Idly
  BY <1>1, <1>6, ClientReadsTalk
<1>7. CASE ServerReads /\ Idly
  BY <1>1, <1>7, ServerReadsDo, LeavesTalks, CalmlyTalks, JudgesTalks
<1>8. CASE Foreign
  BY <1>1, <1>8 DEF Foreign
<1>9. CASE UNCHANGED vars
  <2>1. /\ UNCHANGED <<flavour, c, h, call, s, toServer, toClient, abandoned, garbled>>
        /\ UNCHANGED <<program, d>>
    BY <1>9 DEF vars, authVars
  <2>2. /\ Turns /\ Places /\ Compressors /\ Noted /\ Informed
    BY <1>1 DEF Talk
  <2>3. Turns' /\ Places'
    BY <2>1, <2>2, TurnsKept DEF Turns, Places
  <2>4. Compressors' /\ Noted'
    BY <2>1, <2>2 DEF Compressors, Ahead, Noted, Asking
  <2>5. Informed'
    BY <2>1, <2>2 DEF Informed, Arriving, Asking
  <2> QED
    BY <2>3, <2>4, <2>5 DEF Talk
<1> QED
  BY <1>2, <1>3, <1>4, <1>5, <1>6, <1>7, <1>8, <1>9, NextCases

\* It holds at the start.
LEMMA InitConversation == Init => Guarded /\ Granted /\ Alone /\ Conversation
<1> SUFFICES ASSUME Init PROVE Guarded /\ Granted /\ Alone /\ Conversation
  OBVIOUS
<1>1. /\ c = [active |-> TRUE, thread |-> "runs", accepted |-> FALSE, compressed |-> 0,
             saved |-> NoException]
      /\ h = [NewHandler EXCEPT !.made = FALSE]
      /\ toServer = <<>> /\ toClient = <<>> /\ garbled = FALSE
      /\ d.outcome = "none" /\ d.trying = "nothing"
      /\ flavour = "Foreign" => program.runs = "application"
  BY DEF Init, AuthInit
<1>2. /\ call.pc = "idle" /\ call.n = 0 /\ ~call.woken /\ ~call.fudging
      /\ call.result = Returned("none", {})
  BY DEF Init, AuthInit
<1>3. ~s.authenticated /\ s.compressed = 0 /\ ~s.opened
  BY DEF Init, AuthInit
<1>4. Sent(toServer) = {} /\ Sent(toClient) = {} /\ Len(toServer) = 0
  BY <1>1, SentFew
<1>5. ~h.authenticated
  BY <1>1 DEF NewHandler
<1>6. c.saved.kind = "none" /\ call.result.kind = "none"
  BY <1>1, <1>2 DEF NoException, Returned
<1>7. Guarded /\ Granted
  BY <1>3, <1>4, <1>5 DEF Guarded, Granted
<1>8. Alone
  BY <1>1, <1>2, <1>4, <1>5, <1>6 DEF Alone
<1>9. Turns
  <2>1. LastAsks(toServer) /\ Single(toClient)
    BY <1>1, FewAnswers DEF LastAsks
  <2> QED
    BY <1>4, <2>1 DEF Turns
<1>10. Places
  BY <1>1, <1>2 DEF Places
<1>11. Compressors
  BY <1>1, <1>3, <1>4 DEF Compressors, Ahead
<1>12. Noted
  BY <1>2, <1>6 DEF Noted, Asking, Verdicts
<1>13. Informed
  BY <1>1, <1>2, <1>3, <1>6 DEF Informed
<1> QED
  BY <1>7, <1>8, <1>9, <1>10, <1>11, <1>12, <1>13 DEF Conversation, Talk

\* All invariants together.
Authentic == Typed /\ Guarded /\ Granted /\ Alone /\ Conversation

\* They are invariants.
LEMMA AlwaysAuthentic == Spec => []Authentic
<1>1. Init => Authentic
  BY InitTyped, InitConversation DEF Authentic
<1>2. Typed /\ Guarded /\ [Next]_vars => Guarded'
  BY ServerDecides DEF Guarded
<1>3. Authentic /\ [Next]_vars => Authentic'
  BY <1>2, NextTyped, NextGranted, NextAlone, NextConversation DEF Authentic
<1> QED
  BY <1>1, <1>3, PTL DEF Spec

\* What a call reports is what the server said of that call's own request, as long as no
\* attempt was given up: the answers that wait_for_response and get_exception read are
\* those to the request the caller sent.  On a transport that has ended a caller may
\* report a failure nobody told it of, or a success it was once told of.
THEOREM AuthOwnVerdict == Spec => []OwnVerdict
<1>1. Authentic => OwnVerdict
  <2> SUFFICES ASSUME Authentic, ~abandoned, call.pc = "idle" PROVE OwnVerdict
    BY DEF OwnVerdict
  <2>1. CASE call.result.kind \notin Verdicts
    BY <2>1 DEF OwnVerdict, Verdicts
  <2>2. CASE call.result.kind \in Verdicts
    <3>1. Noted /\ Informed
      BY <2>2 DEF Authentic, Alone, Verdicts, Conversation, Talk
    <3>2. \/ s.said[call.about] = Verdict(call.result.kind)
          \/ ~c.active /\ call.result.kind \in {"success", "failed"}
      BY <2>2, <3>1 DEF Noted
    <3>3. call.result.kind = "success" => s.authenticated
      BY <3>1 DEF Informed
    <3> QED
      BY <2>2, <3>2, <3>3 DEF OwnVerdict, Verdict, Verdicts
  <2> QED
    BY <2>1, <2>2
<1> QED
  BY <1>1, AlwaysAuthentic, PTL

\* A packet is never read under another compressor than it was sent with, unless an attempt
\* was given up: _auth_trigger is called at both ends with nothing on its way to the server.
THEOREM AuthCompressionInStep == Spec => []CompressionInStep
<1>1. Authentic => CompressionInStep
  <2> SUFFICES ASSUME Authentic, garbled, ~abandoned PROVE FALSE
    BY DEF CompressionInStep
  <2>1. flavour # "Foreign"
    BY DEF Authentic, Alone
  <2> QED
    BY <2>1 DEF Authentic, Conversation, Talk, Compressors
<1> QED
  BY <1>1, AlwaysAuthentic, PTL

\* is_authenticated is never true at the client alone; and unless an attempt was given up,
\* SSHClient._auth and AuthStrategy.authenticate return when the server let the user in (or
\* wants a further factor) and raise, on an open session, only when it did not.
THEOREM AuthOutcomeHonest == Spec => []OutcomeHonest
<1>1. Authentic => OutcomeHonest
  <2> SUFFICES ASSUME Authentic PROVE OutcomeHonest
    OBVIOUS
  <2>1. h.authenticated => s.authenticated
    BY DEF Authentic, Granted
  <2>2. ASSUME d.outcome # "none", ~abandoned
        PROVE  Informed /\ program.runs # "application"
    <3>1. flavour # "Foreign"
      BY <2>2 DEF Authentic, Alone
    <3>2. Informed
      BY <2>2, <3>1 DEF Authentic, Conversation, Talk
    <3> QED
      BY <2>2, <3>2 DEF Informed
  <2>3. d.outcome = "returned" /\ ~abandoned /\ call.result.kind # "partial" => s.authenticated
    BY <2>2 DEF Informed
  <2>4. d.outcome = "raised" /\ ~abandoned /\ c.active => ~s.authenticated
    BY <2>2 DEF Informed
  <2> QED
    BY <2>1, <2>3, <2>4 DEF OutcomeHonest
<1> QED
  BY <1>1, AlwaysAuthentic, PTL
=============================================================================
