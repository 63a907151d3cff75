---------------------------- MODULE ClientAuth ----------------------------
(***************************************************************************)
(* The programs that call the auth_ methods of a Transport: an application *)
(* that calls them itself, SSHClient._auth (client.py), which tries keys   *)
(* and then a password or an interactive second factor, and                *)
(* AuthStrategy.authenticate (auth_strategy.py), which tries its sources   *)
(* one after the other.                                                    *)
(***************************************************************************)
EXTENDS Auth

CONSTANT Programs  \* what the user thread runs, one chosen by Init

\* todo: the keys that _auth has at hand, by where they come from, or the sources that
\* the strategy yields; password: whether _auth was given one; calls: bound, the calls
\* of an application.
KeyOrigins == {"pkey", "key_filename", "agent", "keyfile"}
Sources == {"NoneAuth", "Password", "PrivateKey"}

ASSUME ProgramsAssumption ==
    \A p \in Programs :
        /\ p.runs \in {"application", "_auth", "AuthStrategy"}
        /\ p.password \in BOOLEAN /\ p.calls \in 0..MaxAttempts
        /\ p.todo \in Seq(IF p.runs = "AuthStrategy" THEN Sources ELSE KeyOrigins)

VARIABLES program,  \* the choice, constant
          d         \* todo; what is being tried; two_factor; saved_exception; outcome

vars == <<authVars, program, d>>

Init ==
    /\ AuthInit
    /\ program \in Programs
    /\ flavour = "Foreign" => program.runs = "application"
    /\ d = [todo |-> program.todo, trying |-> "nothing", twoFactor |-> FALSE,
            early |-> FALSE, saved |-> FALSE, outcome |-> "none"]

Running(runs) == program.runs = runs /\ d.outcome = "none"

\* The application: any call, with any of the options.
Application ==
    /\ Running("application") /\ call.n < program.calls
    /\ \/ \E method \in Methods, key \in {"good", "disagreed", "unsupported"},
             fallback, async \in BOOLEAN : Call(method, key, fallback, async)
       \/ CallRefused
    /\ UNCHANGED <<program, d>>

-----------------------------------------------------------------------------
(* AuthStrategy.authenticate                                               *)

MethodOf(source) ==
    CASE source = "NoneAuth" -> "none" [] source = "Password" -> "password"
      [] source = "PrivateKey" -> "publickey"

TrySource ==
    /\ Running("AuthStrategy") /\ d.trying = "nothing" /\ d.todo # <<>>
    /\ \E key \in {"good", "disagreed"} :
           Call(MethodOf(Head(d.todo)), key, Head(d.todo) = "Password", FALSE)
    /\ d' = [d EXCEPT !.todo = Tail(@), !.trying = "source"]
    /\ UNCHANGED program

\* source.authenticate raises before it calls: no session, or no password to be got.
SourceFails ==
    /\ Running("AuthStrategy") /\ d.trying = "nothing" /\ d.todo # <<>>
    /\ ~c.active \/ Head(d.todo) = "Password"
    /\ d' = [d EXCEPT !.todo = Tail(@)]
    /\ UNCHANGED <<authVars, program>>

\* Any value returned counts as success, any exception as failure.
SourceTried ==
    /\ Running("AuthStrategy") /\ d.trying = "source" /\ call.pc = "idle"
    /\ d' = [d EXCEPT !.trying = "nothing",
                      !.outcome = IF call.result.raised THEN "none" ELSE "returned"]
    /\ UNCHANGED <<authVars, program>>

SourcesExhausted ==
    /\ Running("AuthStrategy") /\ d.trying = "nothing" /\ d.todo = <<>>
    /\ d' = [d EXCEPT !.outcome = "raised"]
    /\ UNCHANGED <<authVars, program>>

-----------------------------------------------------------------------------
(* SSHClient._auth                                                         *)

TwoFactorTypes == {"keyboard-interactive", "password"}

\* Once a second factor is asked for no key of another origin is tried, nor another of
\* the same: but the loop over the key_filenames only leaves its inner loop.
Skipped(origin) ==
    CASE origin = "pkey" -> FALSE
      [] origin = "key_filename" -> d.early
      [] origin \in {"agent", "keyfile"} -> d.twoFactor

KeyNext == Running("_auth") /\ d.trying = "nothing" /\ d.todo # <<>>

SkipKey ==
    /\ KeyNext /\ Skipped(Head(d.todo))
    /\ d' = [d EXCEPT !.todo = Tail(@)]
    /\ UNCHANGED <<authVars, program>>

TryKey ==
    /\ KeyNext /\ ~Skipped(Head(d.todo))
    /\ \E key \in {"good", "disagreed"} : Call("publickey", key, FALSE, FALSE)
    /\ d' = [d EXCEPT !.todo = Tail(@), !.trying = Head(d.todo)]
    /\ UNCHANGED program

\* The key does not load, or there is no session: an SSHException, which is saved.  A
\* key_filename that cannot be opened ends _auth with an IOError.
KeyFails ==
    /\ KeyNext /\ ~Skipped(Head(d.todo))
    /\ \/ /\ ~c.active \/ Head(d.todo) \in {"key_filename", "keyfile"}
          /\ d' = [d EXCEPT !.todo = Tail(@), !.saved = TRUE]
       \/ /\ Head(d.todo) = "key_filename"
          /\ d' = [d EXCEPT !.outcome = "raised"]
    /\ UNCHANGED <<authVars, program>>

\* What auth_publickey returned decides whether _auth returns or needs a second factor.
KeyTried ==
    /\ Running("_auth") /\ d.trying \in KeyOrigins /\ call.pc = "idle"
    /\ LET twoFactor == call.result.allowed \cap TwoFactorTypes # {}
           tried == [d EXCEPT !.trying = "nothing"]
       IN  d' = IF call.result.raised
                THEN IF call.result.kind \in NotSSHException
                     THEN [tried EXCEPT !.outcome = "raised"]
                     ELSE [tried EXCEPT !.saved = TRUE]
                ELSE [tried EXCEPT !.twoFactor = twoFactor,
                                   !.early = @ \/ (d.trying = "pkey" /\ twoFactor),
                                   !.outcome = IF twoFactor THEN "none" ELSE "returned"]
    /\ UNCHANGED <<authVars, program>>

\* After the keys: the password, or auth_interactive_dumb as the second factor.
TryLast ==
    /\ Running("_auth") /\ d.trying = "nothing" /\ d.todo = <<>>
    /\ program.password \/ d.twoFactor
    /\ Call(IF program.password THEN "password" ELSE "keyboard-interactive", "good",
            program.password, FALSE)
    /\ d' = [d EXCEPT !.trying = "last"]
    /\ UNCHANGED program

LastTried ==
    /\ Running("_auth") /\ d.trying = "last" /\ call.pc = "idle"
    /\ d' = [d EXCEPT !.trying = "nothing",
                      !.outcome = IF call.result.raised THEN "raised" ELSE "returned"]
    /\ UNCHANGED <<authVars, program>>

\* Nothing left to try: the saved exception, or "No authentication methods available".
NothingToTry ==
    /\ Running("_auth") /\ d.trying = "nothing" /\ d.todo = <<>>
    /\ ~c.active \/ ~(program.password \/ d.twoFactor)
    /\ d' = [d EXCEPT !.outcome = "raised"]
    /\ UNCHANGED <<authVars, program>>

-----------------------------------------------------------------------------

Driver ==
    \/ TrySource \/ SourceFails \/ SourceTried \/ SourcesExhausted
    \/ SkipKey \/ TryKey \/ KeyFails \/ KeyTried
    \/ TryLast \/ LastTried \/ NothingToTry

Transports ==
    /\ ClientReads \/ ServerReads \/ CallSteps \/ Faults \/ Foreign
    /\ UNCHANGED <<program, d>>

Next == Application \/ Driver \/ Transports

Spec == Init /\ [][Next]_vars

\* The transport threads read, a call goes on, auth_timeout (30 seconds unless changed)
\* passes, and a program goes on with what it tries.
FairSpec ==
    /\ Spec
    /\ WF_vars(ClientReads /\ UNCHANGED <<program, d>>)
    /\ WF_vars(ServerReads /\ UNCHANGED <<program, d>>)
    /\ WF_vars(CallSteps /\ UNCHANGED <<program, d>>)
    /\ WF_vars(Driver)

-----------------------------------------------------------------------------
(* Properties                                                              *)

\* What a call reports is what the server said of that call's own request, and not of
\* an earlier one or of a stale saved_exception, as long as no attempt was given up
\* (wait_for_response, _parse_userauth_failure, get_exception).  But a caller that found
\* the transport active and then its event set by the transport's end has not been told
\* anything: it reports "Authentication failed.", or a success when the one handler of a
\* ServiceRequestingTransport still holds an earlier one (auth_handler.py:206-220).
OwnVerdict ==
    ~abandoned /\ call.pc = "idle" =>
        LET said == s.said[call.about]
        IN  CASE call.result.kind = "success" ->
                   said = "AUTH_SUCCESSFUL" \/ (~c.active /\ s.authenticated)
              [] call.result.kind = "failed" -> said = "AUTH_FAILED" \/ ~c.active
              [] call.result.kind = "partial" -> said = "AUTH_PARTIALLY_SUCCESSFUL"
              [] call.result.kind = "badtype" -> said = "AUTH_FAILED"
              [] OTHER -> TRUE

\* A client that counts itself authenticated is authenticated at the server, late answers
\* and changed handlers notwithstanding; without an attempt given up, a program that
\* returns has been let in (or asked for a further factor), and one that raises on a
\* session that is still open has not.
OutcomeHonest ==
    /\ h.authenticated => s.authenticated
    /\ d.outcome = "returned" /\ ~abandoned /\ call.result.kind # "partial" => s.authenticated
    /\ d.outcome = "raised" /\ ~abandoned /\ c.active => ~s.authenticated

\* The answer to a request wakes the caller that waits for it: AuthHandler sets auth_event
\* before it sends anything. (AuthOnlyHandler creates the event after send_auth_request has
\* sent the request, and its caller can sleep through an answer until its time is up.)
AnswerWakesCaller ==
    flavour = "Transport" /\ call.pc \in {"wait", "event"} /\ call.heard => call.woken

\* auth_password, auth_publickey and auth_interactive raise SSHException "if there was a
\* network error" (transport.py:1513, 1586, 1641); wait_for_response makes one of an
\* EOFError (auth_handler.py:208-211), in the first of the two places that raise.
NetworkErrors == call.pc = "idle" /\ call.method # "none" => call.result.kind # "eof"

\* Both ends switch on delayed compression at the same packet (_auth_trigger), unless an
\* attempt was given up and its success overtook the next request.
CompressionInStep == garbled => abandoned

\* The user that partial successes and failures are counted for never changes
\* (_parse_userauth_request), and no channel is opened before a success (_ensure_authed).
OneUser == [][/\ s.user # Nobody => s'.user = s.user
              /\ s'.opened => s.authenticated]_vars

\* Every call ends with a result or an exception, also when the transport dies in the
\* middle of it (wait_for_response, abort), except for one that polls in ensure_session,
\* which does not notice that the transport has ended.
CallEndsOrPolls ==
    call.pc # "idle" ~> (call.pc = "idle" \/ (call.pc = "poll" /\ ~c.active))
=============================================================================
