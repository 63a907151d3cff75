------------------------------- MODULE Auth -------------------------------
(***************************************************************************)
(* paramiko/auth_handler.py, the auth_ methods of transport.py and the     *)
(* authentication callbacks of server.py: a user thread authenticates      *)
(* through the client's Transport, whose own thread handles the answers of *)
(* a server that is a Transport in server mode.                            *)
(*                                                                         *)
(* The client is a Transport, which makes a new AuthHandler for every call *)
(* and asks for the service every time, or a ServiceRequestingTransport    *)
(* with its one AuthOnlyHandler.  The server also meets clients that are   *)
(* not paramiko ("Foreign").  A call is an attempt with a number, which    *)
(* its messages and their answers carry for the properties' sake.  What    *)
(* ServerInterface answers is any of the results its methods document.     *)
(***************************************************************************)
EXTENDS Integers, Sequences, FiniteSets

CONSTANTS Flavours,     \* the clients of this instance
          Usernames,    \* what a foreign client may claim to be; paramiko's user is Me
          Me,
          AllowedAuths, \* what get_allowed_auths may return, each a set of methods
          HasBanner,    \* whether the server's get_banner returns one
          Delayed,      \* whether zlib@openssh.com was negotiated
          MaxAttempts,  \* bound: calls of the user thread, messages of a foreign client
          MaxFailures,  \* auth_fail_count at which the server disconnects, 10 in the code
          MaxQueries    \* bound: interactive queries of one server

Methods == {"none", "password", "publickey", "keyboard-interactive"}
Nobody == "nobody"

ASSUME AuthAssumption ==
    /\ Flavours \subseteq {"Transport", "ServiceRequesting", "Foreign"}
    /\ Me \in Usernames /\ Nobody \notin Usernames
    /\ AllowedAuths \subseteq SUBSET Methods
    /\ HasBanner \in BOOLEAN /\ Delayed \in BOOLEAN
    /\ MaxAttempts \in Nat /\ MaxFailures \in Nat \ {0} /\ MaxQueries \in Nat

VARIABLES flavour,    \* which client this is, constant
          c,          \* the client's Transport and where its thread is
          h,          \* the client's current auth_handler
          call,       \* the user thread: its attempt, where it is, its last result
          s,          \* the server's Transport and AuthHandler
          toServer, toClient,
          abandoned,  \* some attempt was given up, or never waited for
          garbled     \* the server read a packet under a compressor it was not sent with

authVars == <<flavour, c, h, call, s, toServer, toClient, abandoned, garbled>>

\* saved_exception and what a call ends with.
NoException == [kind |-> "none", allowed |-> {}]
Exception(kind) == [kind |-> kind, allowed |-> {}]
Raised(kind) == [kind |-> kind, raised |-> TRUE, allowed |-> {}]
Returned(kind, allowed) == [kind |-> kind, raised |-> FALSE, allowed |-> allowed]

NewHandler ==
    [made |-> TRUE, event |-> 0, method |-> "", user |-> FALSE, strict |-> FALSE,
     authenticated |-> FALSE, banner |-> FALSE]

AuthInit ==
    /\ flavour \in Flavours
    /\ c = [active |-> TRUE, thread |-> "runs", accepted |-> FALSE, compressed |-> 0,
            saved |-> NoException]
    /\ h = [NewHandler EXCEPT !.made = FALSE]
    /\ call = [pc |-> "idle", n |-> 0, method |-> "none", key |-> "good", fallback |-> FALSE,
               async |-> FALSE, fudging |-> FALSE, woken |-> FALSE,
               heard |-> FALSE, original |-> Raised("none"),
               result |-> Returned("none", {}), about |-> 0]
    /\ s = [active |-> TRUE, user |-> Nobody, authenticated |-> FALSE, fails |-> 0,
            queries |-> 0, compressed |-> 0, opened |-> FALSE, grant |-> Nobody,
            said |-> [n \in 0..(2 * MaxAttempts) |-> "nothing"]]
    /\ toServer = <<>> /\ toClient = <<>>
    /\ abandoned = FALSE /\ garbled = FALSE

-----------------------------------------------------------------------------
(* Messages                                                                *)

\* What paramiko puts in a request it signs or sends; foreign clients differ.
Message(type, n) ==
    [type |-> type, n |-> n, user |-> Me, service |-> "known", method |-> "none",
     key |-> "good", sig |-> "valid", change |-> FALSE, compressed |-> c.compressed]

UserauthRequest(method) ==
    [Message("userauth_request", call.n) EXCEPT !.method = method, !.key = call.key]

Answer(type, n, allowed, partial, many) ==
    [type |-> type, n |-> n, allowed |-> allowed, partial |-> partial, many |-> many]
Plain(type) == Answer(type, 0, {}, FALSE, FALSE)

SendServer(m) == toServer' = Append(toServer, m)

-----------------------------------------------------------------------------
(* The user thread: Transport.auth_none, auth_password, auth_publickey,    *)
(* auth_interactive and their counterparts in ServiceRequestingTransport.  *)

NotSSHException == {"other", "eof"}

\* How a call ends.  A failed attempt to fudge raises what the password attempt raised;
\* only an exception that is no SSHException gets through.
End(result) ==
    LET original == call.fudging /\ result.raised /\ result.kind \notin NotSSHException
    IN  [call EXCEPT !.pc = "idle", !.fudging = FALSE,
                     !.result = IF original THEN call.original ELSE result,
                     !.about = IF original THEN call.n - 1 ELSE call.n]

\* The beginning of an attempt, up to the point where its request is made.  Transport
\* makes a handler for it ...
AttemptNew(called) ==
    /\ flavour = "Transport"
    /\ h' = NewHandler
    /\ call' = [called EXCEPT !.pc = "made"]
    /\ UNCHANGED toServer

\* ... and ServiceRequestingTransport uses the one it has, or asks for the service first.
AttemptEnsured(called) ==
    /\ flavour = "ServiceRequesting"
    /\ IF c.accepted
       THEN call' = [called EXCEPT !.pc = "made"] /\ UNCHANGED toServer
       ELSE /\ SendServer(Message("service_request", called.n))
            /\ call' = [called EXCEPT !.pc = "poll"]
    /\ UNCHANGED h

Attempt(begun) ==
    LET called == [begun EXCEPT !.n = @ + 1, !.woken = FALSE, !.heard = FALSE]
    IN  c.active /\ (AttemptNew(called) \/ AttemptEnsured(called))

\* async: the caller passes an event and does not wait.
Call(method, key, fallback, async) ==
    /\ flavour # "Foreign" /\ call.pc = "idle" /\ call.n < MaxAttempts
    /\ key = "good" \/ method = "publickey"
    /\ fallback => method = "password"
    /\ async => flavour = "Transport" /\ method \in {"password", "publickey"}
    /\ Attempt([call EXCEPT !.method = method, !.key = key, !.fallback = fallback,
                            !.async = async, !.fudging = FALSE])
    /\ UNCHANGED <<flavour, c, s, toClient, abandoned, garbled>>

\* "No existing session"
CallRefused ==
    /\ flavour # "Foreign" /\ ~c.active /\ call.pc = "idle" /\ call.n < MaxAttempts
    /\ call' = End(Raised("ssh"))
    /\ UNCHANGED <<flavour, c, h, s, toServer, toClient, abandoned, garbled>>

\* ensure_session looks again: the service was accepted.
SessionEnsured ==
    /\ call.pc = "poll" /\ c.accepted
    /\ h' = NewHandler
    /\ call' = [call EXCEPT !.pc = "made"]
    /\ UNCHANGED <<flavour, c, s, toServer, toClient, abandoned, garbled>>

\* AuthHandler.auth_*: the event and the fields first, then SERVICE_REQUEST.
RequestService ==
    /\ flavour = "Transport" /\ call.pc = "made"
    /\ h' = [h EXCEPT !.event = call.n, !.method = call.method, !.user = TRUE,
                      !.strict = call.fudging]
    /\ IF c.active
       THEN /\ SendServer(Message("service_request", call.n))
            /\ call' = IF call.async THEN End(Returned("pending", {}))
                                     ELSE [call EXCEPT !.pc = "wait"]
            /\ abandoned' = (abandoned \/ call.async)
       ELSE /\ call' = End(Raised("other"))
            /\ UNCHANGED <<toServer, abandoned>>
    /\ UNCHANGED <<flavour, c, s, toClient, garbled>>

\* _finalize_pubkey_algorithm finds no algorithm for the (RSA) key that both ends know.
NoAlgorithm(method) == method = "publickey" /\ call.key = "disagreed"

\* All methods of AuthOnlyHandler but auth_none have a finish_message to call.
Finishes(method) == method # "none"

\* AuthOnlyHandler.send_auth_request up to its _send_message.
RequestAuth ==
    /\ flavour = "ServiceRequesting" /\ call.pc = "made"
    /\ IF NoAlgorithm(call.method)
       THEN /\ call' = End(Raised("ssh"))
            /\ UNCHANGED <<h, toServer>>
       ELSE /\ h' = [h EXCEPT !.method = call.method, !.user = TRUE, !.strict = call.fudging]
            /\ IF Finishes(call.method) /\ c.active
               THEN /\ SendServer(UserauthRequest(call.method))
                    /\ call' = [call EXCEPT !.pc = "sent"]
               ELSE /\ call' = End(Raised("other"))
                    /\ UNCHANGED toServer
    /\ UNCHANGED <<flavour, c, s, toClient, abandoned, garbled>>

\* Only now does AuthOnlyHandler make the event its answer is to set.
NewEvent ==
    /\ call.pc = "sent"
    /\ h' = [h EXCEPT !.event = call.n]
    /\ call' = [call EXCEPT !.pc = "wait"]
    /\ UNCHANGED <<flavour, c, s, toServer, toClient, abandoned, garbled>>

(* wait_for_response looks at the transport and at the event one after the other, both   *)
(* without a lock.  Of its loop the model takes the last round; one that finds the       *)
(* transport active, no event and time left changes nothing.                             *)

\* Mutant of GetException: the exception is returned and kept.
GetExceptionKeeps == c

\* get_exception clears what it returns.
GetException == [c EXCEPT !.saved = NoException]

\* The call raises or returns e, unless auth_password goes on to fudge.
Concludes(e) ==
    IF /\ e.raised /\ e.kind = "badtype" /\ call.method = "password" /\ call.fallback
       /\ "keyboard-interactive" \in e.allowed
    THEN [call EXCEPT !.pc = "fudge", !.original = e]
    ELSE End(e)

\* The transport is not active.
WaitFindsEnd ==
    /\ call.pc = "wait" /\ ~c.active
    /\ c' = GetException
    /\ call' = Concludes([kind |-> IF c.saved.kind \in {"none", "eof"} THEN "shutdown"
                                   ELSE c.saved.kind,
                          raised |-> TRUE, allowed |-> c.saved.allowed])
    /\ UNCHANGED <<flavour, h, s, toServer, toClient, abandoned, garbled>>

\* It is, and event.is_set() is next.
WaitFindsActive ==
    /\ call.pc = "wait" /\ c.active
    /\ call' = [call EXCEPT !.pc = "event"]
    /\ UNCHANGED <<flavour, c, h, s, toServer, toClient, abandoned, garbled>>

\* Mutant of IsAuthenticated: whoever was woken has been let in.
IsAuthenticatedWoken == TRUE

IsAuthenticated == h.authenticated

EventSet ==
    /\ call.pc = "event" /\ call.woken
    /\ call' = IF IsAuthenticated THEN End(Returned("success", {}))
                                  ELSE [call EXCEPT !.pc = "except"]
    /\ UNCHANGED <<flavour, c, h, s, toServer, toClient, abandoned, garbled>>

\* Mutant of WaitTimesOut: the time limit is never looked at.
WaitForEver == call.pc = "given up" /\ UNCHANGED authVars

\* auth_timeout has passed.
WaitTimesOut ==
    /\ call.pc = "event" /\ ~call.woken
    /\ call' = End(Raised("timeout"))
    /\ abandoned' = TRUE
    /\ UNCHANGED <<flavour, c, h, s, toServer, toClient, garbled>>

\* Woken without being authenticated: the saved exception by now, or "Authentication
\* failed." when there is none.
RaiseSaved ==
    /\ call.pc = "except"
    /\ c' = GetException
    /\ call' = Concludes(IF c.saved.kind = "none" THEN Raised("failed")
                         ELSE [kind |-> c.saved.kind, raised |-> c.saved.kind # "partial",
                               allowed |-> c.saved.allowed])
    /\ UNCHANGED <<flavour, h, s, toServer, toClient, abandoned, garbled>>

\* The password was not allowed but keyboard-interactive is: try to fudge it.
Fudge ==
    /\ call.pc = "fudge"
    /\ Attempt([call EXCEPT !.method = "keyboard-interactive", !.fudging = TRUE,
                            !.async = FALSE])
    /\ UNCHANGED <<flavour, c, s, toClient, abandoned, garbled>>

\* "No existing session" again, for which the first exception is raised instead.
FudgeRefused ==
    /\ call.pc = "fudge" /\ ~c.active
    /\ call' = End(call.original)
    /\ UNCHANGED <<flavour, c, h, s, toServer, toClient, abandoned, garbled>>

\* close() by another thread of the application: active is cleared, nobody is woken.
Close ==
    /\ flavour # "Foreign" /\ c.active
    /\ c' = [c EXCEPT !.active = FALSE]
    /\ UNCHANGED <<flavour, h, call, s, toServer, toClient, abandoned, garbled>>

-----------------------------------------------------------------------------
(* The client's transport thread                                           *)

\* auth_event.set(), where auth_event may be the event of an earlier attempt or none.
Woken == IF h.event = call.n THEN [call EXCEPT !.woken = TRUE] ELSE call

\* Mutant of Answered: the answer is taken note of, its event is not set.
AnsweredSilently(n) == [call EXCEPT !.heard = @ \/ n = call.n]
Answered(n) == [Woken EXCEPT !.heard = @ \/ n = call.n]

\* Transport.run leaves its loop and has saved the exception; what follows are steps of
\* their own.
ClientDies(e) ==
    /\ c' = [c EXCEPT !.saved = e, !.thread = "raised"]
    /\ UNCHANGED <<h, call, toServer>>

\* Only now active is cleared, if close() has not done so ...
RunStops ==
    /\ flavour # "Foreign" /\ c.thread = "raised"
    /\ c' = [c EXCEPT !.active = FALSE, !.thread = IF c.active THEN "aborting" ELSE "over"]
    /\ UNCHANGED <<flavour, h, call, s, toServer, toClient, abandoned, garbled>>

\* ... and then auth_handler.abort() wakes the caller.
RunAborts ==
    /\ flavour # "Foreign" /\ c.thread = "aborting"
    /\ c' = [c EXCEPT !.thread = "over"]
    /\ call' = Woken
    /\ UNCHANGED <<flavour, h, s, toServer, toClient, abandoned, garbled>>

\* After close() the loop ends, or the read on the closed socket does.
RunClosed ==
    /\ flavour # "Foreign" /\ c.thread = "runs" /\ ~c.active
    /\ \E e \in {c.saved, Exception("eof")} : c' = [c EXCEPT !.saved = e, !.thread = "over"]
    /\ UNCHANGED <<flavour, h, call, s, toServer, toClient, abandoned, garbled>>

ClientTakes(type) ==
    /\ flavour # "Foreign" /\ c.active /\ c.thread = "runs"
    /\ toClient # <<>> /\ Head(toClient).type = type
    /\ toClient' = Tail(toClient)
    /\ UNCHANGED <<flavour, s, abandoned, garbled>>

\* ServiceRequestingTransport._parse_service_accept
ServiceAccepted ==
    /\ ClientTakes("service_accept") /\ flavour = "ServiceRequesting"
    /\ c' = [c EXCEPT !.accepted = TRUE]
    /\ UNCHANGED <<h, call, toServer>>

\* AuthHandler._parse_service_accept makes the request out of the handler's fields; the
\* username is None in a handler that is new or was told of a failure.
ParseServiceAccept ==
    /\ ClientTakes("service_accept") /\ flavour = "Transport"
    /\ \/ ~h.user /\ ClientDies(Exception("other"))
       \/ h.user /\ NoAlgorithm(h.method) /\ ClientDies(Exception("ssh"))
       \/ /\ h.user /\ ~NoAlgorithm(h.method)
          /\ SendServer(UserauthRequest(h.method))
          /\ UNCHANGED <<c, h, call>>

\* A banner that finds no handler is answered with UNIMPLEMENTED.
ParseUserauthBanner ==
    /\ ClientTakes("banner")
    /\ \/ /\ h.made
          /\ h' = [h EXCEPT !.banner = TRUE]
          /\ UNCHANGED toServer
       \/ /\ ~h.made
          /\ SendServer(Message("unimplemented", 0))
          /\ UNCHANGED h
    /\ UNCHANGED <<c, call>>

\* Mutant of AuthTrigger: compression is left off.
AuthTriggerNot == c

\* _auth_trigger switches compression on.
AuthTrigger == IF Delayed THEN [c EXCEPT !.compressed = @ + 1] ELSE c

ParseUserauthSuccess ==
    /\ ClientTakes("success")
    /\ h' = [h EXCEPT !.authenticated = TRUE]
    /\ c' = AuthTrigger
    /\ call' = Answered(Head(toClient).n)
    /\ UNCHANGED toServer

ParseUserauthFailure ==
    /\ ClientTakes("failure")
    /\ LET m == Head(toClient)
       IN  c' = [c EXCEPT !.saved =
                   IF m.partial THEN [kind |-> "partial", allowed |-> m.allowed]
                   ELSE IF h.method \notin m.allowed
                        THEN [kind |-> "badtype", allowed |-> m.allowed]
                        ELSE c.saved]
    /\ h' = [h EXCEPT !.authenticated = FALSE, !.user = FALSE]
    /\ call' = Answered(Head(toClient).n)
    /\ UNCHANGED toServer

\* The handler that fudges a password answers one prompt, not several.
ParseUserauthInfoRequest ==
    /\ ClientTakes("info_request")
    /\ IF h.method # "keyboard-interactive" \/ (h.strict /\ Head(toClient).many)
       THEN ClientDies(Exception("ssh"))
       ELSE /\ SendServer(Message("info_response", Head(toClient).n))
            /\ UNCHANGED <<c, h, call>>

ParseDisconnect ==
    /\ ClientTakes("disconnect")
    /\ ClientDies(c.saved)

\* The server has closed its socket and all it sent was read.
ClientEof ==
    /\ flavour # "Foreign" /\ c.active /\ c.thread = "runs" /\ ~s.active /\ toClient = <<>>
    /\ ClientDies(Exception("eof"))
    /\ UNCHANGED <<flavour, s, toClient, abandoned, garbled>>

\* The connection breaks; what was on its way is lost.
ConnectionLost ==
    /\ flavour # "Foreign" /\ c.active /\ c.thread = "runs" /\ s.active
    /\ c' = [c EXCEPT !.saved = Exception("eof"), !.thread = "raised"]
    /\ s' = [s EXCEPT !.active = FALSE]
    /\ toServer' = <<>> /\ toClient' = <<>>
    /\ UNCHANGED <<flavour, h, call, abandoned, garbled>>

-----------------------------------------------------------------------------
(* The server's transport thread                                           *)

Results == {"AUTH_SUCCESSFUL", "AUTH_PARTIALLY_SUCCESSFUL", "AUTH_FAILED"}

\* A packet sent with another compressor than the server now uses cannot be read.
ServerTakes(type) ==
    /\ s.active /\ toServer # <<>> /\ Head(toServer).type = type
    /\ Head(toServer).compressed = s.compressed
    /\ toServer' = Tail(toServer)
    /\ UNCHANGED <<flavour, c, h, call, abandoned, garbled>>

ServerGarbled ==
    /\ s.active /\ toServer # <<>> /\ Head(toServer).compressed # s.compressed
    /\ garbled' = TRUE
    /\ s' = [s EXCEPT !.active = FALSE]
    /\ UNCHANGED <<flavour, c, h, call, toServer, toClient, abandoned>>

Reply(ms) == toClient' = toClient \o ms
Disconnect == Plain("disconnect")

ParseServiceRequest ==
    /\ ServerTakes("service_request")
    /\ IF Head(toServer).service = "known"
       THEN /\ Reply(<<Plain("service_accept")>> \o IF HasBanner THEN <<Plain("banner")>>
                                                                ELSE <<>>)
            /\ UNCHANGED s
       ELSE /\ Reply(<<Disconnect>>)
            /\ s' = [s EXCEPT !.active = FALSE]

\* What the server's state becomes with the result of a check of user, and what it sends.
Judged(user, n, result) ==
    LET fails == IF result = "AUTH_FAILED" THEN s.fails + 1 ELSE s.fails
        granted == result = "AUTH_SUCCESSFUL"
    IN  [s EXCEPT !.user = user, !.fails = fails,
                  !.authenticated = @ \/ granted,
                  !.grant = IF granted THEN user ELSE @,
                  !.compressed = IF granted /\ Delayed THEN @ + 1 ELSE @,
                  !.active = fails < MaxFailures,
                  !.said[n] = result]

SendAuthResult(user, n, result) ==
    \E allowed \in AllowedAuths :
        /\ s' = Judged(user, n, result)
        /\ Reply(<<IF result = "AUTH_SUCCESSFUL" THEN Answer("success", n, {}, FALSE, FALSE)
                   ELSE Answer("failure", n, allowed,
                               result = "AUTH_PARTIALLY_SUCCESSFUL", FALSE)>>
                 \o IF s'.active THEN <<>> ELSE <<Disconnect>>)

\* An InteractiveQuery of one or of several prompts.
InteractiveQuery(user, n) ==
    \E many \in BOOLEAN :
        /\ s.queries < MaxQueries
        /\ s' = [s EXCEPT !.user = user, !.queries = @ + 1]
        /\ Reply(<<Answer("info_request", n, {}, FALSE, many)>>)

\* Mutant of Rejected: the username may change between requests.
RejectedUnlessKnown(m) ==
    \/ m.service # "known"
    \/ m.method = "publickey" /\ m.key = "unsupported"

\* A request that ends the session before any check is made.
Rejected(m) ==
    \/ m.service # "known"
    \/ s.user \notin {Nobody, m.user}
    \/ m.method = "publickey" /\ m.key = "unsupported"

IgnoreUserauthRequest ==
    /\ ServerTakes("userauth_request") /\ s.authenticated
    /\ UNCHANGED <<s, toClient>>

RejectUserauthRequest ==
    /\ ServerTakes("userauth_request") /\ ~s.authenticated /\ Rejected(Head(toServer))
    /\ s' = [s EXCEPT !.active = FALSE,
                      !.user = IF Head(toServer).service = "known" /\ @ = Nobody
                               THEN Head(toServer).user ELSE @]
    /\ Reply(<<Disconnect>>)

\* check is what the ServerInterface says; a request to change the password fails
\* without being checked, and so does a key whose signature does not verify.
ParseUserauthRequest(check) ==
    /\ ServerTakes("userauth_request") /\ ~s.authenticated /\ ~Rejected(Head(toServer))
    /\ LET m == Head(toServer)
           result == IF \/ m.method = "password" /\ m.change
                        \/ m.method = "publickey" /\ m.sig = "invalid"
                     THEN "AUTH_FAILED" ELSE check
       IN  \/ /\ ~(m.method = "publickey" /\ m.sig = "absent" /\ check # "AUTH_FAILED")
              /\ SendAuthResult(m.user, m.n, result)
           \/ /\ m.method = "publickey" /\ m.sig = "absent" /\ check # "AUTH_FAILED"
              /\ s' = [s EXCEPT !.user = m.user]
              /\ Reply(<<Plain("pk_ok")>>)
           \/ /\ m.method = "keyboard-interactive"
              /\ InteractiveQuery(m.user, m.n)

ParseUserauthInfoResponse(check) ==
    /\ ServerTakes("info_response")
    /\ \/ SendAuthResult(s.user, Head(toServer).n, check)
       \/ InteractiveQuery(s.user, Head(toServer).n)

\* _ensure_authed: nothing but authentication before it has succeeded.
ParseChannelOpen ==
    /\ ServerTakes("channel_open")
    /\ s' = [s EXCEPT !.opened = @ \/ s.authenticated]
    /\ Reply(<<Plain(IF s.authenticated THEN "open_success" ELSE "open_failure")>>)

ParseUnimplemented ==
    /\ ServerTakes("unimplemented")
    /\ UNCHANGED <<s, toClient>>

ServerEof ==
    /\ flavour # "Foreign" /\ s.active /\ ~c.active /\ toServer = <<>>
    /\ s' = [s EXCEPT !.active = FALSE]
    /\ UNCHANGED <<flavour, c, h, call, toServer, toClient, abandoned, garbled>>

\* A client that is not paramiko: any message in any order, one at a time, sent with
\* the compressor the server expects.
ForeignMessage(n) == [Message("service_request", n) EXCEPT !.compressed = s.compressed]
ForeignService(n, service) == [ForeignMessage(n) EXCEPT !.service = service]
ForeignOther(n, type) == [ForeignMessage(n) EXCEPT !.type = type]
ForeignPassword(n, user, service, change) ==
    [ForeignMessage(n) EXCEPT !.type = "userauth_request", !.user = user, !.method = "password",
                              !.service = service, !.change = change]
ForeignPublickey(n, user, key, sig) ==
    [ForeignMessage(n) EXCEPT !.type = "userauth_request", !.user = user, !.method = "publickey",
                              !.key = key, !.sig = sig]
ForeignInteractive(n, user) ==
    [ForeignMessage(n) EXCEPT !.type = "userauth_request", !.user = user,
                              !.method = "keyboard-interactive"]

ForeignMessages(n) ==
    {ForeignService(n, service) : service \in {"known", "unknown"}}
    \cup {ForeignOther(n, type) : type \in {"info_response", "channel_open", "unimplemented"}}
    \cup {ForeignPassword(n, user, service, change) :
            user \in Usernames, service \in {"known", "unknown"}, change \in BOOLEAN}
    \cup {ForeignPublickey(n, user, key, sig) :
            user \in Usernames, key \in {"good", "unsupported"},
            sig \in {"valid", "invalid", "absent"}}
    \cup {ForeignInteractive(n, user) : user \in Usernames}

Foreign ==
    /\ flavour = "Foreign" /\ s.active /\ toServer = <<>> /\ call.n < MaxAttempts
    /\ \E m \in ForeignMessages(call.n + 1) : SendServer(m)
    /\ call' = [call EXCEPT !.n = @ + 1]
    /\ toClient' = <<>>
    /\ UNCHANGED <<flavour, c, h, s, abandoned, garbled>>

-----------------------------------------------------------------------------

ClientReads ==
    \/ ServiceAccepted
    \/ ParseServiceAccept
    \/ ParseUserauthBanner
    \/ ParseUserauthSuccess
    \/ ParseUserauthFailure
    \/ ParseUserauthInfoRequest
    \/ ParseDisconnect
    \/ ClientEof
    \/ RunStops
    \/ RunAborts
    \/ RunClosed

ServerReads ==
    \/ ServerGarbled
    \/ ParseServiceRequest
    \/ IgnoreUserauthRequest
    \/ RejectUserauthRequest
    \/ \E check \in Results : ParseUserauthRequest(check)
    \/ \E check \in Results : ParseUserauthInfoResponse(check)
    \/ ParseChannelOpen
    \/ ParseUnimplemented
    \/ ServerEof

\* The steps of a call once it has begun.
CallSteps ==
    \/ SessionEnsured
    \/ RequestService
    \/ RequestAuth
    \/ NewEvent
    \/ WaitFindsEnd
    \/ WaitFindsActive
    \/ EventSet
    \/ WaitTimesOut
    \/ RaiseSaved
    \/ Fudge
    \/ FudgeRefused

Faults == Close \/ ConnectionLost
=============================================================================
