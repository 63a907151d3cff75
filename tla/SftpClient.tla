---------------------------- MODULE SftpClient ----------------------------
(***************************************************************************)
(* paramiko/sftp_client.py: an application thread calls the methods of an  *)
(* SFTPClient, one after the other; each sends requests and reads answers  *)
(* until its own has come.  Other answers belong to requests that nobody   *)
(* waits for yet: they are handed to the SFTPFile that prefetches, or      *)
(* dropped.                                                                *)
(*                                                                         *)
(* A request is numbered, entered in _expecting and sent in one step: no   *)
(* other thread looks at _expecting, and the order of the numbers on the   *)
(* wire does not matter.  The channel takes every packet whole.            *)
(***************************************************************************)
EXTENDS SftpServer

CONSTANT ReadAheads  \* read_aheads of listdir_iter, 50 by default

VARIABLES client,  \* the SFTPClient: request_number, _expecting, _cwd
          app,     \* the application thread: its call, where it is in it, the last result
          file     \* the one SFTPFile

wire == <<requests, answers, open>>
clientVars == <<client, app, file>>

NoFile == [made |-> FALSE]
NoRequest == [num |-> 0, t |-> ""]

\* The application thread between calls; req is the request it waits for and `then' what
\* it does with the answer, the rest are locals of the methods.
Result(out, exc) ==
    [pc |-> "idle", call |-> app.call, calls |-> app.calls,
     raised |-> app.raised \/ exc # "none", out |-> out, exc |-> exc,
     req |-> NoRequest, then |-> "", macro |-> "", stage |-> 0, err |-> "none",
     closing |-> FALSE, loop |-> "", n |-> 0, size |-> 0, total |-> 0, line |-> <<>>, rest |-> <<>>,
     keep |-> <<>>, after |-> "", chunks |-> <<>>]

ClientInit ==
    /\ client = [number |-> 1, expecting |-> <<>>, cwd |-> <<>>]
    /\ app = [pc |-> "connect", call |-> [op |-> "connect"], calls |-> 0, raised |-> FALSE,
              req |-> NoRequest, macro |-> "", err |-> "none", closing |-> FALSE]
    /\ file = NoFile

\* Between calls the application chooses the next; get and put are made of several.
Choose(call) ==
    /\ app.pc = "idle"
    /\ app' = [app EXCEPT !.pc = "call", !.call = call, !.calls = @ + 1,
                          !.out = <<>>, !.exc = "none",
                          !.macro = IF call.op \in {"get", "put"} THEN call.op ELSE ""]
    /\ UNCHANGED <<wire, client, file, serverVars>>

\* The next method is called.
Calling(op) == app.pc = "call" /\ app.call.op = op

-----------------------------------------------------------------------------
(* How calls end.  get, put and readv are made of other calls: app.macro   *)
(* says where they go on.  get and put close their file before an          *)
(* exception passes.                                                       *)

InWith == app.macro \in {"get", "put"} /\ file.made /\ ~app.closing

Returned(v) ==
    IF app.err # "none" THEN Result(<<>>, app.err)
    ELSE IF app.macro # "" THEN [app EXCEPT !.pc = app.macro, !.out = v]
    ELSE Result(v, "none")

Raised(e) ==
    IF InWith THEN [app EXCEPT !.pc = "close", !.err = e] ELSE Result(<<>>, e)

Return(v) == app' = Returned(v)
Raise(e) == app' = Raised(e)

\* _convert_status
Converted(code) ==
    CASE code = "OK" -> "none" [] code = "EOF" -> "EOFError" [] OTHER -> "IOError"

-----------------------------------------------------------------------------
(* _async_request and _read_response                                       *)

Request(t, on, off, len, data) ==
    [num |-> client.number, t |-> t, on |-> on, path |-> <<>>, kind |-> "",
     off |-> off, len |-> len, data |-> data]

\* _adjust_cwd; an absolute path begins with a slash.
Adjust(path) == IF path[1] = "/" THEN path ELSE client.cwd \o path

PathRequest(t, path, len, kind) ==
    [Request(t, 0, 0, len, <<>>) EXCEPT !.path = Adjust(path), !.kind = kind]

\* _async_request on behalf of fileobj, "none" or "file"; r carries the next number.
Issue(fileobj, r) ==
    /\ client' = [client EXCEPT !.number = @ + 1,
                                !.expecting = (client.number :> fileobj) @@ @]
    /\ requests' = IF open THEN Append(requests, r) ELSE requests
    /\ UNCHANGED <<answers, open>>

\* _request: the call goes on at `then' when the answer has come; a closed channel
\* raises socket.error.
Waiting(r, then) ==
    [app EXCEPT !.pc = "await", !.req = [num |-> r.num, t |-> r.t], !.then = then]
Ask(r, then) == /\ Issue("none", r)
                /\ app' = IF open THEN Waiting(r, then) ELSE Raised("socket.error")

\* _async_response: a STATUS is saved and leaves its extent behind, DATA goes into the
\* buffers; without extents the prefetch counts as done.
AsyncResponse(f, a) ==
    IF a.t = "STATUS"
    THEN [f EXCEPT !.saved = IF a.v = "OK" THEN @ ELSE Converted(a.v)]
    ELSE [f EXCEPT !.data = (f.extents[a.num][1] :> a.v) @@ @,
                   !.extents = Without(@, a.num),
                   !.done = @ \/ DOMAIN f.extents = {a.num}]

Answering(num) == /\ num \in DOMAIN client.expecting
                  /\ client.expecting[num] = "file"

Expected(num) == num \in DOMAIN client.expecting

\* Mutant of Mine: the first answer that is expected by anybody counts.
MineAny == answers # <<>> /\ Expected(Head(answers).num)

\* The answer at the head is the one the call waits for.
Mine == /\ answers # <<>> /\ Head(answers).num = app.req.num
        /\ Expected(app.req.num)

Forget == client' = [client EXCEPT !.expecting = Without(@, Head(answers).num)]
Consume == answers' = Tail(answers) /\ UNCHANGED <<requests, open>>

\* An answer for nobody is dropped, one for the file is given to it; DATA that comes
\* before the prefetch thread has noted its extent makes the reader spin.
Absorbing ==
    /\ answers # <<>>
    /\ Answering(Head(answers).num) /\ Head(answers).t # "STATUS"
          => Head(answers).num \in DOMAIN file.extents
    /\ Consume /\ Forget
Absorbed == IF Answering(Head(answers).num) THEN AsyncResponse(file, Head(answers)) ELSE file

\* _read_response(num) meets another answer and goes on.
ReadOther ==
    /\ app.pc = "await" /\ answers # <<>> /\ ~Mine
    /\ Absorbing
    /\ file' = Absorbed
    /\ UNCHANGED <<app, serverVars>>

Dropped == ~open /\ answers = <<>>

\* "Server connection dropped"
ReadDropped ==
    /\ app.pc = "await" /\ Dropped /\ app.then \notin {"size", "end"}
    /\ Raise("SSHException")
    /\ UNCHANGED <<wire, client, file, serverVars>>

\* The call's own answer is read: converted if it is a STATUS.
Answered(then) == app.pc = "await" /\ app.then = then /\ Mine /\ Consume /\ Forget
Verdict == IF Head(answers).t = "STATUS" THEN Converted(Head(answers).v) ELSE "none"

-----------------------------------------------------------------------------
(* The session                                                             *)

\* _send_version, and what it makes of the answer.
SendVersion ==
    /\ app.pc = "connect"
    /\ requests' = IF open THEN Append(requests, [num |-> 0, t |-> "INIT"]) ELSE requests
    /\ app' = IF open THEN [app EXCEPT !.pc = "version"] ELSE Raised("socket.error")
    /\ UNCHANGED <<answers, open, client, file, serverVars>>

ReadVersion ==
    /\ app.pc = "version"
    /\ \/ /\ answers # <<>> /\ Consume
          /\ IF Head(answers).t = "VERSION" THEN Return(<<>>) ELSE Raise("SFTPError")
       \/ Dropped /\ Raise("SSHException") /\ UNCHANGED wire
    /\ UNCHANGED <<client, file, serverVars>>

-----------------------------------------------------------------------------
(* Calls of one request.  Expects is the type of the answer that the       *)
(* method insists on, "" where it takes any.                               *)

Expects(t) == CASE t \in {"STAT", "FSTAT"} -> "ATTRS" [] t = "NAME" -> "NAME" [] OTHER -> ""

\* What the application calls, on a path: remove, rename, posix_rename, mkdir, rmdir and
\* symlink; stat and lstat; chmod, chown, utime (no size) and truncate; readlink and
\* normalize (kind REALPATH).
PathCall(t, path, size, kind) ==
    [op |-> "path", t |-> t, path |-> path, size |-> size, kind |-> kind]
ChangeCall(path) == PathCall("PATH", path, Unknown, "")
StatCall(path) == PathCall("STAT", path, Unknown, "")
ChattrCall(path, size) == PathCall("SETSTAT", path, size, "")
NameCall(path, kind) == PathCall("NAME", path, Unknown, kind)

\* ... and on the open file: stat; chmod, chown, utime and truncate; check.
HandleCall(t, off, size, block) ==
    [op |-> "handle", t |-> t, off |-> off, size |-> size, block |-> block]
FstatCall == HandleCall("FSTAT", 0, Unknown, 0)
FchattrCall(size) == HandleCall("FSETSTAT", 0, size, 0)
CheckCall(off, len, block) == HandleCall("EXTENDED", off, len, block)

CallPath ==
    /\ Calling("path")
    /\ Ask(PathRequest(app.call.t, app.call.path, app.call.size, app.call.kind), "simple")
    /\ UNCHANGED <<file, serverVars>>

\* These do not look whether the file is closed.
CallHandle ==
    /\ Calling("handle") /\ file.made
    /\ Ask(Request(app.call.t, file.h, app.call.off, app.call.size, <<app.call.block>>), "simple")
    /\ UNCHANGED <<file, serverVars>>

SimpleAnswered ==
    /\ Answered("simple")
    /\ IF Verdict # "none" THEN Raise(Verdict)
       ELSE IF Expects(app.req.t) \notin {"", Head(answers).t} THEN Raise("SFTPError")
       ELSE Return(Head(answers).v)
    /\ UNCHANGED <<file, serverVars>>

\* chdir: stat, then normalize, then the new _cwd.
CallChdir ==
    /\ Calling("chdir")
    /\ IF app.call.path = <<>>
       THEN /\ client' = [client EXCEPT !.cwd = <<>>]
            /\ Return(<<>>) /\ UNCHANGED wire
       ELSE Ask(PathRequest("STAT", app.call.path, Unknown, ""), "isdir")
    /\ UNCHANGED <<file, serverVars>>

DirAnswered ==
    /\ Answered("isdir")
    /\ IF Verdict # "none" THEN Raise(Verdict)
       ELSE IF Head(answers).v # Folder THEN Raise("SFTPError")
       ELSE app' = [app EXCEPT !.pc = "normalize"]
    /\ UNCHANGED <<file, serverVars>>

AskNormalize ==
    /\ app.pc = "normalize"
    /\ Ask(PathRequest("NAME", app.call.path, Unknown, "REALPATH"), "cwd")
    /\ UNCHANGED <<file, serverVars>>

CwdAnswered ==
    /\ app.pc = "await" /\ app.then = "cwd" /\ Mine /\ Consume
    /\ client' = [client EXCEPT !.expecting = Without(@, app.req.num),
                                !.cwd = IF Verdict = "none" THEN Head(answers).v[1] ELSE @]
    /\ IF Verdict = "none" THEN Return(<<>>) ELSE Raise(Verdict)
    /\ UNCHANGED <<file, serverVars>>

-----------------------------------------------------------------------------
(* listdir_attr and listdir_iter                                           *)

Visible(names) == SelectSeq(names, LAMBDA name : name \notin {".", ".."})

CallListdir ==
    /\ Calling("listdir") \/ Calling("listdir_iter")
    /\ Ask(PathRequest("OPENDIR", app.call.path, Unknown, ""), "opendir")
    /\ UNCHANGED <<file, serverVars>>

\* app.n is the handle of the folder, app.line the list so far.
FolderOpened ==
    /\ Answered("opendir")
    /\ IF Verdict # "none" THEN Raise(Verdict)
       ELSE IF Head(answers).t # "HANDLE" THEN Raise("SFTPError")
       ELSE app' = [app EXCEPT !.pc = app.call.op, !.n = Head(answers).v]
    /\ UNCHANGED <<file, serverVars>>

\* Mutant of EndOfFolder: any error ends the list like the end of the folder.
EndOfFolderOrError(verdict) == verdict # "none"

\* The READDIR that finds no more files.
EndOfFolder(verdict) == verdict = "EOFError"

AskReaddir ==
    /\ app.pc = "listdir"
    /\ Ask(Request("READDIR", app.n, 0, Unknown, <<>>), "readdir")
    /\ UNCHANGED <<file, serverVars>>

FolderRead ==
    /\ Answered("readdir")
    /\ IF EndOfFolder(Verdict) THEN app' = [app EXCEPT !.pc = "closedir"]
       ELSE IF Verdict # "none" THEN Raise(Verdict)
       ELSE IF Head(answers).t # "NAME" THEN Raise("SFTPError")
       ELSE app' = [app EXCEPT !.pc = "listdir", !.line = @ \o Visible(Head(answers).v)]
    /\ UNCHANGED <<file, serverVars>>

AskCloseFolder ==
    /\ app.pc = "closedir"
    /\ Ask(Request("CLOSE", app.n, 0, Unknown, <<>>), "closedir")
    /\ UNCHANGED <<file, serverVars>>

FolderClosed ==
    /\ Answered("closedir")
    /\ IF Verdict # "none" THEN Raise(Verdict) ELSE Return(app.line)
    /\ UNCHANGED <<file, serverVars>>

\* listdir_iter sends its requests ahead, and reads one packet for each of them.
SendAhead ==
    /\ app.pc = "listdir_iter"
    /\ LET nums == [i \in 1 .. ReadAheads |-> client.number + i - 1]
       IN  /\ client' = [client EXCEPT !.number = @ + ReadAheads,
                                       !.expecting = [i \in Range(nums) |-> "none"] @@ @]
           /\ requests' = IF open
                          THEN requests \o [i \in 1 .. ReadAheads |->
                                  [Request("READDIR", app.n, 0, Unknown, <<>>)
                                       EXCEPT !.num = nums[i]]]
                          ELSE requests
           /\ app' = IF open THEN [app EXCEPT !.pc = "iterate", !.chunks = nums]
                     ELSE Raised("socket.error")
    /\ UNCHANGED <<answers, open, file, serverVars>>

\* The packet is read past _expecting, which keeps the number, and taken for a list of
\* names whatever it is, unless it is the STATUS of the request whose turn it is: an OK for
\* another request reads as no names, any other packet as names made of its bytes, if they
\* can be decoded.
ReadAhead ==
    /\ app.pc = "iterate"
    /\ \/ /\ answers # <<>> /\ Consume
          /\ LET turn == Head(answers).num = Head(app.chunks)
                 left == Tail(app.chunks)
                 Yielding(names) == [app EXCEPT !.line = @ \o names, !.chunks = left,
                                                !.pc = IF left = <<>> THEN "listdir_iter" ELSE @]
             IN  IF turn /\ EndOfFolder(Verdict) THEN app' = [app EXCEPT !.pc = "closedir"]
                 ELSE IF turn /\ Verdict # "none" THEN Raise(Verdict)
                 ELSE app' \in CASE Head(answers).t = "NAME" -> {Yielding(Visible(Head(answers).v))}
                                 [] Head(answers).t = "STATUS" /\ Head(answers).code = "OK" -> {Yielding(<<>>)}
                                 [] OTHER -> {Yielding(<<"garbled">>), Raised("garbage")}
       \/ Dropped /\ app' = [app EXCEPT !.pc = "closedir"] /\ UNCHANGED wire
    /\ UNCHANGED <<client, file, serverVars>>

ClientSteps ==
    \/ SendVersion \/ ReadVersion \/ ReadOther \/ ReadDropped
    \/ CallPath \/ CallHandle \/ SimpleAnswered
    \/ CallChdir \/ DirAnswered \/ AskNormalize \/ CwdAnswered
    \/ CallListdir \/ FolderOpened \/ AskReaddir \/ FolderRead \/ AskCloseFolder \/ FolderClosed
    \/ SendAhead \/ ReadAhead
=============================================================================
