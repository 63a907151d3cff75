------------------------------ MODULE MCSftp ------------------------------
(***************************************************************************)
(* What applications do with a file of a few bytes and a folder.           *)
(***************************************************************************)
EXTENDS Sftp

TheFile == <<"file">>
Open(mode, bufsize) == [op |-> "open", mode |-> mode, bufsize |-> bufsize]
Read(n) == [op |-> "read", n |-> n]
Seek(whence, offset) == [op |-> "seek", whence |-> whence, offset |-> offset]
Write(data) == [op |-> "write", data |-> data]

Run(calls, bytes, faults, shrinks, lossy) ==
    [calls |-> calls, bytes |-> bytes, faults |-> faults, shrinks |-> shrinks, lossy |-> lossy]

Prefetch(size, limit) == [op |-> "prefetch", size |-> size, limit |-> limit]
Readv(chunks) == [op |-> "readv", chunks |-> chunks, limit |-> Unknown]
Get(limit) == [op |-> "get", limit |-> limit]

Readall == [op |-> "readall", n |-> Unknown]
Readline(n) == [op |-> "readline", n |-> n]
Op(op) == [op |-> op]
Chdir(path) == [op |-> "chdir", path |-> path]
List(op) == [op |-> op, path |-> <<"folder">>]
Pipelined(on) == [op |-> "set_pipelined", pipelined |-> on]

\* Reads after and during a prefetch or a readv, of all that is there and less.
Reader == Run(<<{Open("r", 0)}, {Prefetch(4, Unknown), Prefetch(4, 1),
                                  Readv(<<<<2, 2>>, <<0, 1>>>>)},
                {Seek("SET", 2), Read(1), FstatCall},
                {Read(3), Readv(<<<<0, 2>>>>)}, {Readall, Seek("CUR", 0), Op("del")}>>,
              <<1, 2, 3, 4>>, 0, FALSE, FALSE)

\* The same with a prefetch that the server refuses, a file that was shortened or a
\* connection that is lost.
Unlucky == Run(<<{Open("r", 0)}, {Prefetch(4, Unknown), Readv(<<<<2, 2>>, <<0, 2>>>>)},
                 {Read(2), Seek("END", 0)}, {Read(2)}, {Op("close")}>>,
               <<1, 2, 3, 4>>, 1, TRUE, FALSE)
Getter(bytes) == Run(<<{Get(Unknown), Get(1)}, {Op("close")}>>, bytes, 1, TRUE, TRUE)

\* Without a prefetch; the read buffer is smaller or larger than what is asked for.
Buffered == Run(<<{Open("r", 3), Open("r", 0), Open("w", 0)}, {Read(1), Read(4)},
                  {Read(2), Readall, Seek("SET", 1)}, {Read(1), Readall}>>,
                <<1, 2, 3, 4, 5>>, 1, FALSE, FALSE)

\* Lines of every short text, with newlines of all kinds at the edges of the chunks and of
\* the sizes.
Lines(bytes) == Run(<<{Open("rU", 0), Open("rU", 2), Open("r", 0)},
                      {Readline(Unknown), Readline(2)},
                      {Readline(Unknown), Readline(0), Readline(1), Readline(2)},
                      {Readline(Unknown), Readline(2)}, {Readline(Unknown)}>>,
                    bytes, 0, FALSE, FALSE)
Texts == UNION {[1 .. n -> {1, CR, LF}] : n \in 0 .. 4}

\* Writing, with every kind of buffer, from the start, at a hole and at the end.
Writer == Run(<<{Open("w", 0), Open("w", 1), Open("w", 3), Open("a", 0), Open("a", 2),
                 Open("r", 0)},
                {Write(<<7, LF, 8>>), Write(<<9>>)}, {Seek("SET", 1), Write(<<6, 5>>), Op("flush")},
                {Write(<<4>>), Op("close")}, {Op("close")}>>,
              <<1, 2>>, 1, FALSE, TRUE)
Pipeline == Run(<<{Open("w", 0)}, {Pipelined(TRUE)}, {Write(<<1, 2, 3, 4>>)},
                  {Write(<<5, 6, 7, 8>>), Seek("END", 0)}, {Write(<<9>>), Pipelined(FALSE)},
                  {Op("close"), Write(<<10>>)}>>,
                <<1, 2>>, 1, FALSE, FALSE)
Finisher == Run(<<{Open("r+", 0)}, {Prefetch(4, Unknown)}, {Pipelined(TRUE)}, {Op("close")},
                  {Op("close")}>>,
                <<1, 2, 3, 4>>, 1, FALSE, TRUE)
Putter(lossy) == Run(<<{[op |-> "put", data |-> <<1, 2, 3, 4>>]}>>, <<>>, 1, FALSE, lossy)

\* Calls of one request and of a few, on paths and on a handle that may be closed.
Paths == Run(<<{ChangeCall(TheFile), StatCall(TheFile), ChattrCall(TheFile, 1),
                NameCall(TheFile, "READLINK"), Chdir(<<"folder">>), Chdir(TheFile), Chdir(<<>>),
                Op("quit")},
               {NameCall(TheFile, "REALPATH"), Chdir(<<>>), Open("r", 0)},
               {Op("close"), List("listdir"), FstatCall},
               {FchattrCall(1), FchattrCall(Unknown), CheckCall(0, 0, 0), CheckCall(0, 3, 2),
                CheckCall(1, 3, 0), Op("quit")},
               {Op("close"), FstatCall}>>,
             <<1, 2, 3>>, 1, FALSE, TRUE)
Lister == Run(<<{List("listdir"), List("listdir_iter")},
                {List("listdir_iter"), StatCall(TheFile)}>>,
              <<1>>, 1, FALSE, TRUE)

\* A file that is read and written in turn, with and without a buffer.
Updater == Run(<<{Open("r+", 0), Open("r+", 3)}, {Read(1), Write(<<9>>)},
                 {Write(<<8, 7>>), Read(2), Seek("CUR", 0)}, {Write(<<6>>), Readall},
                 {Op("close")}>>,
               <<1, 2, 3, 4>>, 0, FALSE, FALSE)

\* A listing while a file is being prefetched.
WhilePrefetching(op) ==
    Run(<<{Open("r", 0)}, {Prefetch(3, Unknown), Prefetch(4, 1)}, {List(op)}, {Read(2)}>>,
        <<1, 2, 3, 4>>, 1, FALSE, FALSE)
IterWhilePrefetching == WhilePrefetching("listdir_iter")

MCEntries == <<".", "a", "b">>
MCScenarios ==
    {Reader, Unlucky, Getter(<<1, 2, 3, 4>>), Getter(<<>>), Buffered, Writer, Updater,
     Pipeline, Finisher, Putter(TRUE), Paths, Lister, WhilePrefetching("listdir")} \cup {Lines(bytes) : bytes \in Texts}
MCLines == {Lines(bytes) : bytes \in Texts}
MCPutters == {Putter(FALSE)}
MCUpdaters == {Updater}
MCIterators == {IterWhilePrefetching}
=============================================================================
