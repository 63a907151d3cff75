------------------------------- MODULE Sftp -------------------------------
(***************************************************************************)
(* An application, its SFTPClient and SFTPFile, the prefetch threads and   *)
(* an SFTPServer, joined by one channel that may be lost at any time.      *)
(***************************************************************************)
EXTENDS SftpFile

\* Records: the calls that an application chooses from, one set after the other, the
\* bytes of the file, how often (a bound) the server refuses, whether somebody else
\* shortens the file and whether the connection is lost.
CONSTANT Scenarios

VARIABLES scenario,  \* the choice, constant
          shrunk     \* the file was shortened

vars == <<wire, serverVars, fileVars, scenario, shrunk>>

Init ==
    /\ scenario \in Scenarios /\ shrunk = FALSE
    /\ requests = <<>> /\ answers = <<>> /\ open = TRUE
    /\ ServerInit(scenario.faults) /\ disk = scenario.bytes
    /\ ClientInit /\ threads = <<>>

FileCalls == {"handle", "prefetch", "readv", "read", "readall", "readline", "write",
              "flush", "seek", "set_pipelined", "close", "del"}

\* The application makes its next call; without a session there is none.  A file is
\* deleted when no prefetch thread refers to it any more.
NextCall ==
    /\ app.calls < Len(scenario.calls) /\ ~(app.call.op = "connect" /\ app.raised)
    /\ \E call \in scenario.calls[app.calls + 1] :
           /\ call.op \in {"open", "get", "put"} => ~file.made
           /\ call.op \in FileCalls => file.made /\ ~file.gone
           /\ call.op = "del" => \A i \in DOMAIN threads : threads[i].chunks = <<>>
           /\ Choose(call)
    /\ UNCHANGED threads

\* What was sent but not yet received is lost with the connection.
LoseSome == \E i \in 0 .. Len(requests), j \in 0 .. Len(answers) :
                requests' = First(requests, i) /\ answers' = First(answers, j)

\* SFTPClient.close
CallQuit ==
    /\ Calling("quit") /\ open' = FALSE /\ LoseSome
    /\ Return(<<>>)
    /\ UNCHANGED <<client, file, threads, serverVars>>

Lose ==
    /\ scenario.lossy /\ open /\ open' = FALSE /\ LoseSome
    /\ UNCHANGED <<fileVars, serverVars>>

\* Somebody else takes the last byte off the file.
Shrink ==
    /\ scenario.shrinks /\ ~shrunk /\ disk # <<>>
    /\ shrunk' = TRUE /\ disk' = First(disk, Len(disk) - 1)
    /\ UNCHANGED <<wire, s, fileVars, scenario>>

Server == ServerReads /\ UNCHANGED <<fileVars, scenario, shrunk>>
Caller == /\ (ClientSteps /\ UNCHANGED threads) \/ FileSteps \/ CallQuit
          /\ UNCHANGED <<scenario, shrunk>>
Prefetcher == PrefetchThreads /\ UNCHANGED <<scenario, shrunk>>

Next ==
    \/ Server \/ Caller \/ Prefetcher \/ Shrink
    \/ (NextCall \/ Lose) /\ UNCHANGED <<scenario, shrunk>>

Spec == Init /\ [][Next]_vars

\* The server's thread, the application inside a call and the prefetch threads run on.
FairSpec == Spec /\ WF_vars(Server) /\ WF_vars(Caller) /\ WF_vars(Prefetcher)

-----------------------------------------------------------------------------
(* Properties                                                              *)

Succeeded(op) == app.pc = "idle" /\ app.call.op = op /\ app.exc = "none"

\* n bytes read at off are the file's, and fewer only at its end.  (Once a call has
\* raised, the EOF of another prefetched chunk may cut a later read short.)
Faithful(off, n, data) ==
    /\ data = Slice(scenario.bytes, off, Len(data))
    /\ Len(data) < n /\ ~app.raised => off + Len(data) >= Len(disk)

\* The bytes of a text read with universal newlines.
Plain(bytes) ==
    LET kept == SelectSeq([i \in DOMAIN bytes |-> i],
                          LAMBDA i : ~(bytes[i] = LF /\ i > 1 /\ bytes[i - 1] = CR))
    IN  [k \in DOMAIN kept |-> IF bytes[kept[k]] = CR THEN LF ELSE bytes[kept[k]]]


\* What readline has returned so far is the beginning of the text, and the last line is
\* a line.
LinesOfText ==
    LET text == IF Universal(file) THEN Plain(scenario.bytes) ELSE scenario.bytes
        read == FlattenSeq(file.lines)
    IN  /\ IsPrefix(read, text)
        /\ app.call.n = Unknown =>
               /\ \A i \in 1 .. Len(app.out) - 1 : app.out[i] # LF
               /\ app.out = <<>> \/ Last(app.out) # LF => read = text

\* The lines that readline returns, cut by a size or not, make up the text, with every
\* newline converted where the file was opened for that, wherever a chunk may end; except
\* after a size that has parted a CR from an LF in the buffer.
LinesFaithful == Succeeded("readline") /\ ~file.split => LinesOfText

\* The same without the exception: the LF of a CR LF is eaten when readline has returned at
\* the CR, as the comment in readline says.
NewlineEaten == Succeeded("readline") => LinesOfText

\* Nothing in the scenario makes the file pipelined.
Unpipelined == \A i \in DOMAIN scenario.calls : \A call \in scenario.calls[i] :
                   call.op \notin {"set_pipelined", "put"}

\* What a file was told to write is in the server's file, where the caller was, once
\* nothing is buffered.
LandsWhereTold ==
    /\ app.pc = "idle" /\ file.made /\ Writable(file) /\ ~app.raised /\ file.wbuf = <<>>
    /\ Unpipelined \/ file.reqs = <<>> \/ (file.closed /\ s.faults = scenario.faults)
    => disk = file.want

\* Written bytes have landed: at once if the file is not pipelined, when the answers were
\* read if it is, and in any case at its close if no write was refused (_write,
\* _write_all, _close).  Excepted is a file that was written while it had buffered what it
\* read, or the reverse: _write sends its bytes for _realpos, which has moved on past the
\* position of the caller then (LandsWhereTold does not hold for it).
WriteLanded == file.made => file.mixed \/ LandsWhereTold

\* put returns without an exception only if the server's file holds the local one.
PutHonest == Succeeded("put") => disk = app.call.data

\* A listing that is returned is complete, and what listdir_iter yields on the way is the
\* beginning of it (listdir_attr, listdir_iter, _read_folder), with a prefetch under way in
\* the case of listdir.  (listdir_iter takes the answers to a prefetch for names: it need
\* not even end, and the scenario IterWhilePrefetching is left out of the run for it.)
ListComplete ==
    /\ Succeeded("listdir") \/ Succeeded("listdir_iter") => app.out = Visible(Entries)
    /\ app.pc = "iterate" => IsPrefix(app.line, Visible(Entries))

\* A CLOSE on its way names a handle that is open, once: a second one might close what
\* the server has opened since under the same name (_close, _send_handle_response).
HandlesSound ==
    /\ DOMAIN s.files \cap DOMAIN s.folders = {}
    /\ s.pc = "run" => \A i \in DOMAIN requests :
           requests[i].t = "CLOSE" =>
               /\ requests[i].on \in DOMAIN s.files \cup DOMAIN s.folders
               /\ \A j \in DOMAIN requests :
                      requests[j].t = "CLOSE" /\ requests[j].on = requests[i].on => i = j

\* A call of one request ends by the answer to that request, and raises what the server
\* decided, except for attributes set through a handle that is not open
\* (_read_response, _convert_status).
OwnOutcome ==
    [][app.pc = "await" /\ app.then = "simple" /\ app'.pc # "await" /\ answers' # answers
       => LET a == Head(answers)
          IN  /\ [num |-> a.req.num, t |-> a.req.t] = app.req
              /\ app.macro = "" /\ a.t # "READ" => app'.exc = Converted(a.code)]_vars

\* A reader waits for the answers to a prefetch of which none will come: all chunks were
\* there already, or some were answered with a STATUS, which leaves their extents.
PrefetchStarved ==
    /\ app.pc = "buffers" /\ ~file.done
    /\ \A i \in DOMAIN threads : threads[i].num = 0 /\ ~MaySend(i)
    /\ ~\E num \in DOMAIN client.expecting : Answering(num)

\* The answer to the pipelined write that a call waits for was read by an earlier call.
PipelineStarved == app.pc = "await" /\ ~Expected(app.req.num)

\* Every call ends, also when the connection is lost, unless its prefetch or its pipeline
\* has starved or the server's check-file has run into the end of the file
\* (_read_response, _read_prefetch, _finish_responses, _process).
CallEnds ==
    app.pc # "idle" ~> \/ app.pc = "idle" \/ s.pc = "spin"
                       \/ PrefetchStarved \/ PipelineStarved
=============================================================================
