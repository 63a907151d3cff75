----------------------------- MODULE SftpFile -----------------------------
(***************************************************************************)
(* paramiko/sftp_file.py and the calls of sftp_client.py that open and     *)
(* copy files: reading with and without prefetch, readv, writing with and  *)
(* without pipelining, seek and close.  Each prefetch runs a thread of its *)
(* own, which sends READ requests while the application reads.             *)
(***************************************************************************)
EXTENDS SftpClient, FiniteSets

CONSTANTS MaxRequest,  \* MAX_REQUEST_SIZE, 32768 in the code
          MaxReqs      \* unanswered writes of a pipelined file, 100 in the code

ASSUME FileAssumption ==
    MaxRequest \in Nat \ {0} /\ MaxReqs \in Nat /\ ReadAheads \in Nat \ {0}

VARIABLE threads  \* the prefetch threads, in the order they were started

fileVars == <<clientVars, threads>>

\* SFTPFile.__init__; for the properties, want is what the file should hold, lines what
\* readline has returned, split says that a size has parted a CR from its LF, and mixed
\* that the file was written while the other buffer held something to read, or read while
\* it held something to write.
SFTPFile(handle, mode, bufsize) ==
    NewFile(mode, bufsize) @@
    [made |-> TRUE, h |-> handle, gone |-> FALSE, pipelined |-> FALSE, prefetching |-> FALSE, done |-> FALSE,
     data |-> <<>>, extents |-> <<>>, saved |-> "none", reqs |-> <<>>,
     want |-> IF mode = "w" THEN <<>> ELSE disk, lines |-> <<>>, split |-> FALSE, mixed |-> FALSE]

\* A method of the file is called.
OnFile(op) == Calling(op) /\ file.made

-----------------------------------------------------------------------------
(* open                                                                    *)

\* get and put open the file themselves.
Mode == IF app.macro = "get" THEN "r" ELSE IF app.macro = "put" THEN "w" ELSE app.call.mode

CallOpen ==
    /\ Calling("open") /\ ~file.made
    /\ Ask(PathRequest("OPEN", <<"file">>, Unknown, Mode), "open")
    /\ UNCHANGED <<file, threads, serverVars>>

FileOpened ==
    /\ Answered("open")
    /\ IF Verdict # "none" THEN Raise(Verdict) /\ UNCHANGED file
       ELSE IF Head(answers).t # "HANDLE" THEN Raise("SFTPError") /\ UNCHANGED file
       ELSE /\ file' = SFTPFile(Head(answers).v, Mode, IF app.macro = "" THEN app.call.bufsize ELSE 0)
            /\ IF Mode = "a" THEN app' = [app EXCEPT !.pc = "getsize", !.then = "size"]
               ELSE Return(<<>>)
    /\ UNCHANGED <<threads, serverVars>>

\* _get_size, of a file opened to append or sought from its end; any exception is a 0.
AskSize ==
    /\ app.pc = "getsize"
    /\ LET r == Request("FSTAT", file.h, 0, Unknown, <<>>)
       IN  /\ Issue("none", r)
           /\ app' = IF open THEN Waiting(r, app.then) ELSE [app EXCEPT !.pc = "nosize"]
    /\ UNCHANGED <<file, threads, serverVars>>

Sized(size) ==
    /\ file' = IF app.then = "size" THEN AtEnd(file, size)
               ELSE [file EXCEPT !.pos = size + app.call.offset,
                                 !.realpos = size + app.call.offset, !.rbuf = <<>>]
    /\ Return(<<>>)

SizeAnswered ==
    /\ \/ \E then \in {"size", "end"} : Answered(then) /\ Sized(IF Verdict = "none" THEN Head(answers).v ELSE 0)
       \/ /\ app.pc = "nosize" \/ (app.pc = "await" /\ app.then \in {"size", "end"} /\ Dropped)
          /\ Sized(0) /\ UNCHANGED <<wire, client>>
    /\ UNCHANGED <<threads, serverVars>>

-----------------------------------------------------------------------------
(* The prefetch buffers and requests                                       *)

\* _data_in_prefetch_buffers: the set of the buffer's offset, or the empty set.
InBuffers(off) ==
    {i \in DOMAIN file.data :
        /\ i <= off /\ off - i < Len(file.data[i])
        /\ \A j \in DOMAIN file.data : j <= off => j <= i}

\* _data_in_prefetch_requests, for as many bytes as an extent may lack.
InRequests[off \in Nat, size \in Nat] ==
    LET starts == {n \in DOMAIN file.extents : file.extents[n][1] <= off}
        last == {n \in starts : \A m \in starts :
                    \/ file.extents[m][1] < file.extents[n][1]
                    \/ file.extents[m][1] = file.extents[n][1] /\ m <= n}
    IN  \E n \in last :
            LET end == file.extents[n][1] + file.extents[n][2]
            IN  /\ end > off
                /\ end >= off + size \/ InRequests[end, off + size - end]

\* The chunks of at most MAX_REQUEST_SIZE bytes that make up a range.
Chunks[off \in Nat, size \in Nat] ==
    IF size = 0 THEN <<>>
    ELSE LET len == Least(size, MaxRequest)
         IN  <<<<off, len>>>> \o Chunks[off + len, size - len]

\* _start_prefetch; max_concurrent_requests comes with the call, Unknown for None.
StartPrefetch(chunks) ==
    /\ file' = [file EXCEPT !.prefetching = TRUE, !.done = FALSE]
    /\ threads' = Append(threads, [chunks |-> chunks, num |-> 0, limit |-> app.call.limit])

\* prefetch, told the size of the file.
CallPrefetch ==
    /\ OnFile("prefetch")
    /\ IF file.realpos < app.call.size
       THEN StartPrefetch(Chunks[file.realpos, app.call.size - file.realpos])
       ELSE UNCHANGED <<file, threads>>
    /\ Return(<<>>)
    /\ UNCHANGED <<wire, client, serverVars>>

\* readv asks for what is neither in the buffers nor on its way.  A buffer at offset 0
\* is overlooked, since `if 0' is false.
Fetched(chunk) == \/ InBuffers(chunk[1]) \ {0} # {}
                  \/ InRequests[chunk[1], chunk[2]]

CallReadv ==
    /\ OnFile("readv")
    /\ LET chunks == app.call.chunks
       IN  /\ StartPrefetch(FlattenSeq([i \in DOMAIN chunks |->
                                      IF Fetched(chunks[i]) THEN <<>>
                                      ELSE Chunks[chunks[i][1], chunks[i][2]]]))
           /\ app' = [app EXCEPT !.pc = "readv", !.macro = "yield", !.chunks = chunks]
    /\ UNCHANGED <<wire, client, serverVars>>

\* _prefetch_thread, one chunk: wait until there are fewer requests than the limit, send,
\* and note the extent after that.  A closed channel ends the thread.
MaySend(i) ==
    /\ threads[i].num = 0 /\ threads[i].chunks # <<>>
    /\ threads[i].limit = Unknown \/ Cardinality(DOMAIN file.extents) < threads[i].limit

PrefetchSend(i) ==
    /\ MaySend(i)
    /\ LET chunk == Head(threads[i].chunks)
           r == Request("READ", file.h, chunk[1], chunk[2], <<>>)
       IN  /\ Issue("file", r)
           /\ threads' = IF open THEN [threads EXCEPT ![i].num = r.num]
                         ELSE [threads EXCEPT ![i].chunks = <<>>]
    /\ UNCHANGED <<app, file, serverVars>>


PrefetchNote(i) ==
    /\ threads[i].num # 0
    /\ file' = [file EXCEPT !.extents = (threads[i].num :> Head(threads[i].chunks)) @@ @]
    /\ threads' = [threads EXCEPT ![i].chunks = Tail(@), ![i].num = 0]
    /\ UNCHANGED <<wire, client, app, serverVars>>

PrefetchThreads == \E i \in DOMAIN threads : PrefetchSend(i) \/ PrefetchNote(i)

-----------------------------------------------------------------------------
(* read, readline and readv.  app.n is the size asked for, or Unknown;     *)
(* app.line is what read() or readline has so far, app.loop which of them  *)
(* called _read, and app.size how many bytes it asked for.                 *)

\* A file that is closed or not open for reading raises at once.
CallRead ==
    /\ OnFile("read") \/ OnFile("readall") \/ OnFile("readline")
    /\ IF file.closed \/ ~Readable(file) THEN Raise("IOError") /\ UNCHANGED file
       ELSE /\ app' = [app EXCEPT !.pc = app.call.op, !.n = app.call.n, !.line = file.rbuf]
            /\ LET f == [file EXCEPT !.mixed = @ \/ file.wbuf # <<>>]
               IN  file' = IF app.call.op = "readall" THEN ReadAllBegun(f) ELSE f
    /\ UNCHANGED <<wire, client, threads, serverVars>>

\* _read is called for at most size bytes.
ReadMore(a, size) ==
    [a EXCEPT !.loop = a.pc, !.size = Least(size, MaxRequest),
              !.pc = IF file.prefetching THEN "buffers" ELSE "fetch"]

\* One turn of the loop of each: enough is there, or _read is asked for more.
ReadTurn ==
    /\ app.pc = "read"
    /\ IF Len(file.rbuf) >= app.n
       THEN Return(ReadResult(file, app.n)) /\ file' = ReadDone(file, app.n)
       ELSE app' = ReadMore(app, ReadSize(file, app.n)) /\ UNCHANGED file
    /\ UNCHANGED <<wire, client, threads, serverVars>>

ReadAllTurn ==
    /\ app.pc = "readall"
    /\ app' = ReadMore(app, DefaultBuf)
    /\ UNCHANGED <<wire, client, file, threads, serverVars>>

\* The newline at the end of head is the CR of a CR LF whose LF is in the buffer.
Parted(f, head, cut) ==
    /\ Universal(f) /\ Newlines(f, head) = {Len(head)} /\ Last(head) = CR
    /\ cut # <<>> /\ cut[1] = LF

LineTurn ==
    /\ app.pc = "readline"
    /\ LET f == FileAfterCr(file, app.line)
           line == LineAfterCr(file, app.line)
           full == app.n # Unknown /\ Len(line) >= app.n
           head == IF full THEN First(line, app.n) ELSE line
           cut == IF full THEN After(line, app.n) ELSE <<>>
       IN  IF full \/ Newlines(f, line) # {}
           THEN /\ Return(LineResult(f, head))
                /\ file' = [LineDone(f, head, cut) EXCEPT !.lines = Append(@, LineResult(f, head)),
                                                          !.split = @ \/ Parted(f, head, cut)]
           ELSE /\ app' = ReadMore([app EXCEPT !.line = line],
                                   IF app.n = Unknown THEN f.bufsize ELSE app.n - Len(line))
                /\ file' = f
    /\ UNCHANGED <<wire, client, threads, serverVars>>

\* _read returned data, or nothing at the end of the file.
GotData(f, data) ==
    IF data = <<>>
    THEN /\ Return(IF app.loop = "read" THEN ReadResult(f, app.n) ELSE app.line)
         /\ file' = CASE app.loop = "read" -> ReadDone(f, app.n)
                      [] app.loop = "readall" -> f
                      [] app.loop = "readline" ->
                            [LastLine(f, app.line) EXCEPT !.lines = Append(@, app.line)]
    ELSE /\ app' = [app EXCEPT !.pc = app.loop,
                               !.line = IF app.loop = "read" THEN @ ELSE @ \o data]
         /\ file' = CASE app.loop = "read" -> Filled(f, data)
                      [] app.loop = "readall" -> ReadAllGot(f, data)
                      [] app.loop = "readline" -> [f EXCEPT !.realpos = @ + Len(data)]

\* _read without a prefetch.
AskData ==
    /\ app.pc = "fetch"
    /\ Ask(Request("READ", file.h, file.realpos, app.size, <<>>), "data")
    /\ UNCHANGED <<file, threads, serverVars>>

DataAnswered ==
    /\ Answered("data")
    /\ IF Verdict = "EOFError" THEN GotData(file, <<>>)
       ELSE IF Verdict # "none" THEN Raise(Verdict) /\ UNCHANGED file
       ELSE GotData(file, Head(answers).v)
    /\ UNCHANGED <<threads, serverVars>>

\* _read_prefetch finds the position in a buffer, and cuts what it takes out of it.
FromBuffers ==
    /\ app.pc = "buffers"
    /\ \E i \in InBuffers(file.realpos) :
           LET before == First(file.data[i], file.realpos - i)
               from == After(file.data[i], file.realpos - i)
               left == Without(file.data, i)
               kept == IF before = <<>> THEN left ELSE (i :> before) @@ left
           IN  GotData([file EXCEPT !.data =
                            IF Len(from) <= app.size THEN kept
                            ELSE (file.realpos + app.size :> After(from, app.size)) @@ kept],
                       First(from, app.size))
    /\ UNCHANGED <<wire, client, threads, serverVars>>

\* It waits for an answer, whatever it is, and raises what one has saved; an EOFError
\* ends the read.
WaitForBuffers ==
    /\ app.pc = "buffers" /\ InBuffers(file.realpos) = {} /\ ~file.done
    /\ \/ /\ Absorbing
          /\ LET f == Absorbed
                 cleared == [f EXCEPT !.saved = "none"]
             IN  IF f.saved = "none" THEN file' = f /\ UNCHANGED app
                 ELSE IF f.saved = "EOFError" THEN GotData(cleared, <<>>)
                 ELSE file' = cleared /\ Raise(f.saved)
       \/ Dropped /\ Raise("SSHException") /\ UNCHANGED <<wire, client, file>>
    /\ UNCHANGED <<threads, serverVars>>

\* Nothing more is coming: the prefetch is over, and _read asks for itself.
PrefetchOver ==
    /\ app.pc = "buffers" /\ InBuffers(file.realpos) = {} /\ file.done
    /\ file' = [file EXCEPT !.prefetching = FALSE]
    /\ app' = [app EXCEPT !.pc = "fetch"]
    /\ UNCHANGED <<wire, client, threads, serverVars>>

\* readv: seek, read and yield, chunk by chunk.
ReadvNext ==
    /\ app.pc = "readv"
    /\ app' = IF app.chunks = <<>> THEN Result(app.keep, "none")
              ELSE [app EXCEPT !.pc = "writeall", !.rest = file.wbuf, !.after = "readv"]
    /\ UNCHANGED <<wire, client, file, threads, serverVars>>

ReadvYield ==
    /\ app.pc = "yield"
    /\ app' = [app EXCEPT !.pc = "readv", !.chunks = Tail(@),
                          !.keep = Append(@, <<Head(app.chunks), app.out>>)]
    /\ UNCHANGED <<wire, client, file, threads, serverVars>>

-----------------------------------------------------------------------------
(* write, flush and seek                                                   *)

\* What the file should hold once data has been written where the caller is.
Wanted(data) ==
    Put(file.want, IF file.mode = "a" THEN Len(file.want) ELSE file.pos + Len(file.wbuf), data)

\* write, of app.rest: _write_all with what the buffer cannot keep.
WriteBegins(data, after) ==
    /\ file' = [file EXCEPT !.wbuf = WriteBuffer(file, data), !.want = Wanted(data),
                            !.mixed = @ \/ file.rbuf # <<>>]
    /\ app' = [app EXCEPT !.pc = "writeall", !.rest = WriteNow(file, data),
                          !.keep = WriteKeep(file, data), !.after = after]

CallWrite ==
    /\ OnFile("write")
    /\ IF file.closed \/ ~Writable(file) THEN Raise("IOError") /\ UNCHANGED file
       ELSE WriteBegins(app.call.data, "write")
    /\ UNCHANGED <<wire, client, threads, serverVars>>

\* flush and seek begin with the write buffer, whether or not the file is open.
CallSeek ==
    /\ OnFile("flush") \/ OnFile("seek")
    /\ app' = [app EXCEPT !.pc = "writeall", !.rest = file.wbuf, !.after = app.call.op]
    /\ UNCHANGED <<wire, client, file, threads, serverVars>>

CallSetPipelined ==
    /\ OnFile("set_pipelined")
    /\ file' = [file EXCEPT !.pipelined = app.call.pipelined]
    /\ Return(<<>>)
    /\ UNCHANGED <<wire, client, threads, serverVars>>

\* Mutant of Drains: the answers of a file that is not pipelined are left for later.
DrainsLater == Len(file.reqs) > MaxReqs /\ answers # <<>>

\* _write waits for the answers now: always, unless the file is pipelined.
Drains == ~file.pipelined \/ (Len(file.reqs) >= MaxReqs /\ answers # <<>>)

\* _write of the next chunk; a pipelined file goes on without the answer.
WriteChunk ==
    /\ app.pc = "writeall" /\ app.rest # <<>>
    /\ LET chunk == First(app.rest, MaxRequest)
           r == Request("WRITE", file.h, file.realpos, 0, chunk)
           f == [file EXCEPT !.reqs = Append(@, r)]
       IN  /\ Issue("none", r)
           /\ IF ~open THEN Raise("socket.error") /\ UNCHANGED file
              ELSE IF Drains THEN app' = [app EXCEPT !.pc = "drain"] /\ file' = f
              ELSE /\ app' = [app EXCEPT !.rest = After(@, Len(chunk))]
                   /\ file' = Written(f, Len(chunk))
    /\ UNCHANGED <<threads, serverVars>>

\* ... or with those of all the requests in _reqs, in order.
DrainNext ==
    /\ app.pc = "drain"
    /\ IF file.reqs # <<>>
       THEN /\ app' = Waiting(Head(file.reqs), "drained")
            /\ file' = [file EXCEPT !.reqs = Tail(@)]
       ELSE LET chunk == First(app.rest, MaxRequest)
            IN  /\ app' = [app EXCEPT !.pc = "writeall", !.rest = After(@, Len(chunk))]
                /\ file' = Written(file, Len(chunk))
    /\ UNCHANGED <<wire, client, threads, serverVars>>

WriteAnswered ==
    /\ Answered("drained")
    /\ IF Verdict # "none" THEN Raise(Verdict)
       ELSE IF Head(answers).t # "STATUS" THEN Raise("SFTPError")
       ELSE app' = [app EXCEPT !.pc = "drain"]
    /\ UNCHANGED <<file, threads, serverVars>>

\* All is written: the buffer is what could be kept, and the method goes on.
Position(off) == [file EXCEPT !.wbuf = <<>>, !.rbuf = <<>>, !.pos = off, !.realpos = off]

WriteAllDone ==
    /\ app.pc = "writeall" /\ app.rest = <<>>
    /\ CASE app.after \in {"write", "put"} ->
                file' = [file EXCEPT !.wbuf = app.keep] /\ Return(<<>>)
         [] app.after = "flush" -> file' = [file EXCEPT !.wbuf = <<>>] /\ Return(<<>>)
         [] app.after = "readv" ->
                /\ file' = Position(Head(app.chunks)[1])
                /\ app' = IF file.closed \/ ~Readable(file) THEN Raised("IOError")
                          ELSE [app EXCEPT !.pc = "read", !.n = Head(app.chunks)[2]]
         [] app.after = "seek" /\ app.call.whence # "END" ->
                /\ file' = Position(IF app.call.whence = "SET" THEN app.call.offset
                                    ELSE file.pos + app.call.offset)
                /\ Return(<<>>)
         [] app.after = "seek" /\ app.call.whence = "END" ->
                /\ file' = [file EXCEPT !.wbuf = <<>>]
                /\ app' = [app EXCEPT !.pc = "getsize", !.then = "end"]
         [] app.after = "close" ->
                /\ file' = [file EXCEPT !.wbuf = <<>>, !.closed = TRUE]
                /\ app' = [app EXCEPT !.pc = "sendclose"]
    /\ UNCHANGED <<wire, client, threads, serverVars>>

-----------------------------------------------------------------------------
(* close                                                                   *)

\* close, or __del__.
CallClose ==
    /\ OnFile("close") \/ OnFile("del")
    /\ app' = [app EXCEPT !.pc = "close"]
    /\ file' = [file EXCEPT !.gone = app.call.op = "del"]
    /\ UNCHANGED <<wire, client, threads, serverVars>>

\* Mutant of CloseBegins: a file that is closed is closed again.
CloseBeginsAgain ==
    /\ app.pc = "close"
    /\ app' = IF file.pipelined THEN [app EXCEPT !.closing = TRUE, !.pc = "finish"]
              ELSE [app EXCEPT !.closing = TRUE, !.pc = "writeall", !.rest = file.wbuf,
                               !.after = "close"]
    /\ UNCHANGED <<wire, client, file, threads, serverVars>>

\* _close
CloseBegins ==
    /\ app.pc = "close"
    /\ app' = IF file.closed THEN Returned(<<>>)
              ELSE IF file.pipelined THEN [app EXCEPT !.closing = TRUE, !.pc = "finish"]
              ELSE [app EXCEPT !.closing = TRUE, !.pc = "writeall", !.rest = file.wbuf,
                               !.after = "close"]
    /\ UNCHANGED <<wire, client, file, threads, serverVars>>

\* _finish_responses: only the requests of prefetches are entered with the file, so the
\* answers to writes are not waited for.
FinishResponses ==
    /\ app.pc = "finish"
    /\ IF ~\E num \in DOMAIN client.expecting : Answering(num)
       THEN /\ app' = [app EXCEPT !.pc = "writeall", !.rest = file.wbuf, !.after = "close"]
            /\ UNCHANGED <<wire, client, file>>
       ELSE \/ /\ Absorbing
               /\ file' = [Absorbed EXCEPT !.saved = "none"]
               /\ IF Absorbed.saved = "none" THEN UNCHANGED app ELSE Raise(Absorbed.saved)
            \/ Dropped /\ Raise("SSHException") /\ UNCHANGED <<wire, client, file>>
    /\ UNCHANGED <<threads, serverVars>>

\* CLOSE: __del__ does not wait for the answer, and with the object its entries go.
SendClose ==
    /\ app.pc = "sendclose"
    /\ LET r == Request("CLOSE", file.h, 0, Unknown, <<>>)
       IN  IF file.gone
           THEN /\ client' = [client EXCEPT
                        !.number = @ + 1,
                        !.expecting = (client.number :> "none") @@
                            [n \in {m \in DOMAIN @ : ~Answering(m)} |-> @[n]]]
                /\ requests' = IF open THEN Append(requests, r) ELSE requests
                /\ Return(<<>>) /\ UNCHANGED <<answers, open>>
           ELSE /\ Issue("none", r)
                /\ app' = IF open THEN Waiting(r, "closed") ELSE Returned(<<>>)
    /\ UNCHANGED <<file, threads, serverVars>>

\* An error is passed over.
CloseAnswered ==
    /\ Answered("closed")
    /\ Return(<<>>)
    /\ UNCHANGED <<file, threads, serverVars>>

-----------------------------------------------------------------------------
(* getfo and putfo, _transfer_with_callback included                       *)

CallGet ==
    /\ Calling("get") /\ ~file.made
    /\ Ask(PathRequest("STAT", <<"file">>, Unknown, ""), "simple")
    /\ UNCHANGED <<file, threads, serverVars>>

\* The size is known; the file is opened; it is prefetched; a chunk was read; all is
\* read and the file closed.
GetStep ==
    /\ app.pc = "get"
    /\ \/ /\ app.stage = 0
          /\ app' = [app EXCEPT !.stage = 1, !.total = app.out]
          /\ UNCHANGED <<wire, client, file, threads>>
       \/ /\ app.stage = 1 /\ ~file.made
          /\ Ask(PathRequest("OPEN", <<"file">>, Unknown, Mode), "open")
          /\ UNCHANGED <<file, threads>>
       \/ /\ app.stage = 1 /\ file.made
          /\ IF app.total > 0 THEN StartPrefetch(Chunks[0, app.total])
             ELSE UNCHANGED <<file, threads>>
          /\ app' = [app EXCEPT !.stage = 2, !.pc = "read", !.n = MaxRequest]
          /\ UNCHANGED <<wire, client>>
       \/ /\ app.stage = 2
          /\ app' = IF app.out = <<>> THEN [app EXCEPT !.stage = 3, !.pc = "close"]
                    ELSE [app EXCEPT !.pc = "read", !.line = @ \o app.out]
          /\ UNCHANGED <<wire, client, file, threads>>
       \/ /\ app.stage = 3
          /\ app' = Result(app.line, "none")
          /\ UNCHANGED <<wire, client, file, threads>>
    /\ UNCHANGED serverVars

CallPut ==
    /\ Calling("put") /\ ~file.made
    /\ Ask(PathRequest("OPEN", <<"file">>, Unknown, Mode), "open")
    /\ UNCHANGED <<file, threads, serverVars>>

\* The file is open, or a chunk was written; all is written; the file is closed, and its
\* size asked for; the size is known.  app.total counts what was written.
PutStep ==
    /\ app.pc = "put"
    /\ LET chunk == First(After(app.call.data, app.total), MaxRequest)
       IN  \/ /\ app.stage = 0 /\ chunk # <<>>
              /\ file' = [file EXCEPT !.pipelined = TRUE, !.want = Wanted(chunk)]
              /\ app' = [app EXCEPT !.pc = "writeall", !.after = "put", !.rest = chunk,
                                    !.total = @ + Len(chunk)]
              /\ UNCHANGED <<wire, client>>
           \/ /\ app.stage = 0 /\ chunk = <<>>
              /\ app' = [app EXCEPT !.stage = 1, !.pc = "close"]
              /\ UNCHANGED <<wire, client, file>>
           \/ /\ app.stage = 1
              /\ app' = [app EXCEPT !.stage = 2, !.pc = "confirm"]
              /\ UNCHANGED <<wire, client, file>>
           \/ /\ app.stage = 2
              /\ app' = Result(<<>>, IF app.out = app.total THEN "none" ELSE "IOError")
              /\ UNCHANGED <<wire, client, file>>
    /\ UNCHANGED <<threads, serverVars>>

PutConfirm ==
    /\ app.pc = "confirm"
    /\ Ask(PathRequest("STAT", <<"file">>, Unknown, ""), "simple")
    /\ UNCHANGED <<file, threads, serverVars>>

FileSteps ==
    \/ CallOpen \/ FileOpened \/ AskSize \/ SizeAnswered
    \/ CallPrefetch \/ CallReadv \/ ReadvNext \/ ReadvYield
    \/ CallRead \/ ReadTurn \/ ReadAllTurn \/ LineTurn \/ AskData \/ DataAnswered
    \/ FromBuffers \/ WaitForBuffers \/ PrefetchOver
    \/ CallWrite \/ CallSeek \/ CallSetPipelined
    \/ WriteChunk \/ DrainNext \/ WriteAnswered \/ WriteAllDone
    \/ CallClose \/ CloseBegins \/ FinishResponses \/ SendClose \/ CloseAnswered
    \/ CallGet \/ GetStep \/ CallPut \/ PutStep \/ PutConfirm
=============================================================================
