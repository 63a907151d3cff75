---------------------------- MODULE SftpServer ----------------------------
(***************************************************************************)
(* paramiko/sftp_server.py and sftp_handle.py: the thread of an SFTPServer *)
(* reads a request from its channel, answers it and reads the next.        *)
(*                                                                         *)
(* The channel is a pair of queues of packets, `requests' and `answers'.   *)
(* What SFTPServerInterface (sftp_si.py) does is left to the application:  *)
(* any operation may succeed or answer with any code.  There is one        *)
(* regular file, whose bytes are `disk', and one folder.                   *)
(*                                                                         *)
(* A request is [num, t, on, path, kind, off, len, data]: its number and   *)
(* type, the handle or the path it is on, and what it says about the file. *)
(* An answer is [num, t, v] with the code the server decided on and the    *)
(* request it answers, for the properties' sake.                           *)
(***************************************************************************)
EXTENDS BufferedFile, TLC

CONSTANTS Entries,    \* what list_folder returns, "." and ".." included, a sequence
          Batch,      \* names in one answer to READDIR, 16 in the code
          HashChunk,  \* bytes that check-file reads at a time, 65536 in the code
          MinBlock,   \* the smallest block that check-file hashes, 256 in the code
          Refusals    \* the codes with which the application refuses

ASSUME ServerAssumption ==
    /\ Batch \in Nat \ {0} /\ HashChunk \in Nat \ {0} /\ MinBlock \in Nat
    /\ Refusals \subseteq {"EOF", "NO_SUCH_FILE", "PERMISSION_DENIED", "FAILURE", "OP_UNSUPPORTED"}

VARIABLES requests, answers,  \* the two directions of the channel
          open,               \* the channel is
          s,                  \* the SFTPServer
          disk                \* the bytes of the regular file

serverVars == <<s, disk>>

\* No file is open on this handle; -1 is a __tell of None.
Unknown == -1

\* next is next_handle; faults is the bound on refusals, those that are left.
ServerInit(faults) ==
    s = [pc |-> "init", files |-> <<>>, folders |-> <<>>, next |-> 1, faults |-> faults]

\* The answer to the request at the head of the queue; a closed channel takes none.
Answer(t, v, code) ==
    LET r == Head(requests)
    IN  /\ requests' = Tail(requests)
        /\ answers' = IF open THEN Append(answers, [num |-> r.num, t |-> t, v |-> v,
                                                    code |-> code, req |-> r])
                      ELSE answers
        /\ UNCHANGED open

\* _send_status; the description that goes with the code is left out.
SendStatus(code) == Answer("STATUS", code, code)

Serving(t) == s.pc = "run" /\ requests # <<>> /\ Head(requests).t = t

\* The application's operation fails.
Refused(code) == /\ s.faults > 0
                 /\ s' = [s EXCEPT !.faults = @ - 1]
                 /\ SendStatus(code)
                 /\ UNCHANGED disk

\* Mutant of InvalidHandle: the request is passed over without an answer.
InvalidHandleSilent ==
    requests' = Tail(requests) /\ UNCHANGED <<answers, open, s, disk>>

InvalidHandle == SendStatus("BAD_MESSAGE") /\ UNCHANGED <<s, disk>>

-----------------------------------------------------------------------------
(* The session                                                             *)

\* _send_server_version
SendServerVersion ==
    /\ s.pc = "init" /\ requests # <<>>
    /\ s' = [s EXCEPT !.pc = IF Head(requests).t = "INIT" THEN "run" ELSE "ended"]
    /\ IF Head(requests).t = "INIT" THEN Answer("VERSION", 3, "OK")
       ELSE requests' = Tail(requests) /\ UNCHANGED <<answers, open>>
    /\ UNCHANGED disk

\* start_subsystem reads the end of the channel and returns; finish_subsystem closes
\* what was left open.
FinishSubsystem ==
    /\ s.pc \in {"init", "run"} /\ ~open /\ requests = <<>>
    /\ s' = [s EXCEPT !.pc = "ended", !.files = <<>>, !.folders = <<>>]
    /\ UNCHANGED <<requests, answers, open, disk>>

-----------------------------------------------------------------------------
(* SFTPHandle                                                              *)

Slice(bytes, off, len) == SubSeq(bytes, off + 1, Least(off + len, Len(bytes)))

\* The bytes with data put at off; a hole is filled with zeros.
Put(bytes, off, data) ==
    [i \in 1 .. Most(Len(bytes), off + Len(data)) |->
        IF i \in off + 1 .. off + Len(data) THEN data[i - off]
        ELSE IF i \in DOMAIN bytes THEN bytes[i] ELSE 0]

\* A handle as `open' of the application makes it: at is the position of the file object.
OpenHandle(mode) == [append |-> mode = "a", tell |-> Unknown, at |-> 0]

\* The position of the file object once it is sought where needed: __tell spares the seek
\* to where the handle believes it is.
Sought(f, off) ==
    LET believed == IF f.tell = Unknown THEN f.at ELSE f.tell
    IN  IF off = believed THEN f.at ELSE off

HandleRead(f, off, len) ==
    LET data == Slice(disk, Sought(f, off), len)
    IN  [data |-> data,
         f |-> [f EXCEPT !.at = Sought(f, off) + Len(data), !.tell = off + Len(data)]]

\* A file opened to append is never sought, and its __tell moves as if it had been.
HandleWrite(f, off, data) ==
    LET at == IF f.append THEN Len(disk) ELSE Sought(f, off)
    IN  [disk |-> Put(disk, at, data),
         f |-> [f EXCEPT !.at = at + Len(data),
                         !.tell = IF ~f.append THEN off + Len(data)
                                  ELSE IF @ = Unknown THEN @ ELSE @ + Len(data)]]

-----------------------------------------------------------------------------
(* _process                                                                *)

\* _send_handle_response
SendHandle(handle, folder) ==
    /\ s' = [IF folder THEN [s EXCEPT !.folders = (s.next :> handle) @@ @]
             ELSE [s EXCEPT !.files = (s.next :> handle) @@ @] EXCEPT !.next = @ + 1]
    /\ Answer("HANDLE", s.next, "OK")

\* The mode of the request went through the flags of `open' and _convert_pflags.
ServeOpen ==
    /\ Serving("OPEN")
    /\ \/ /\ SendHandle(OpenHandle(Head(requests).kind), FALSE)
          /\ disk' = IF Head(requests).kind = "w" THEN <<>> ELSE disk
       \/ \E code \in Refusals : Refused(code)

Without(f, key) == [k \in DOMAIN f \ {key} |-> f[k]]

ServeClose ==
    /\ Serving("CLOSE")
    /\ LET h == Head(requests).on
       IN  IF h \in DOMAIN s.folders \cup DOMAIN s.files
           THEN /\ s' = IF h \in DOMAIN s.folders
                        THEN [s EXCEPT !.folders = Without(@, h)]
                        ELSE [s EXCEPT !.files = Without(@, h)]
                /\ SendStatus("OK")
                /\ UNCHANGED disk
           ELSE InvalidHandle

ServeRead ==
    /\ Serving("READ")
    /\ LET r == Head(requests)
       IN  IF r.on \notin DOMAIN s.files THEN InvalidHandle
           ELSE \/ LET got == HandleRead(s.files[r.on], r.off, r.len)
                   IN  /\ s' = [s EXCEPT !.files[r.on] = got.f]
                       /\ IF got.data = <<>> THEN SendStatus("EOF")
                          ELSE Answer("DATA", got.data, "OK")
                       /\ UNCHANGED disk
                \/ \E code \in Refusals : Refused(code)

ServeWrite ==
    /\ Serving("WRITE")
    /\ LET r == Head(requests)
       IN  IF r.on \notin DOMAIN s.files THEN InvalidHandle
           ELSE \/ LET put == HandleWrite(s.files[r.on], r.off, r.data)
                   IN  /\ s' = [s EXCEPT !.files[r.on] = put.f]
                       /\ disk' = put.disk
                       /\ SendStatus("OK")
                \/ \E code \in Refusals : Refused(code)

\* REMOVE, RENAME, MKDIR, RMDIR, SYMLINK and the posix-rename extension.
ServePath ==
    /\ Serving("PATH")
    /\ \/ SendStatus("OK") /\ UNCHANGED <<s, disk>>
       \/ \E code \in Refusals : Refused(code)

\* STAT and LSTAT of the regular file, or of a folder: its size, or Folder.
Folder == -2

ServeStat ==
    /\ Serving("STAT")
    /\ \/ /\ Answer("ATTRS", IF Last(Head(requests).path) = "file" THEN Len(disk) ELSE Folder, "OK")
          /\ UNCHANGED <<s, disk>>
       \/ \E code \in Refusals : Refused(code)

ServeFstat ==
    /\ Serving("FSTAT")
    /\ IF Head(requests).on \notin DOMAIN s.files THEN InvalidHandle
       ELSE \/ Answer("ATTRS", Len(disk), "OK") /\ UNCHANGED <<s, disk>>
            \/ \E code \in Refusals : Refused(code)

\* set_file_attr: a size (len, or Unknown) is set by opening the file with "w+", which
\* empties it first.
Resized(len) == IF len = Unknown THEN disk ELSE [i \in 1 .. len |-> 0]

ServeSetstat ==
    /\ Serving("SETSTAT")
    /\ \/ disk' = Resized(Head(requests).len) /\ SendStatus("OK") /\ UNCHANGED s
       \/ \E code \in Refusals : Refused(code)

\* An invalid handle is answered by _response, with the code where the type belongs:
\* BAD_MESSAGE is 5, and so is CMD_READ.
ServeFsetstat ==
    /\ Serving("FSETSTAT")
    /\ IF Head(requests).on \notin DOMAIN s.files
       THEN Answer("READ", "Invalid handle", "BAD_MESSAGE") /\ UNCHANGED <<s, disk>>
       ELSE \/ disk' = Resized(Head(requests).len) /\ SendStatus("OK") /\ UNCHANGED s
            \/ \E code \in Refusals : Refused(code)

\* READLINK and REALPATH; canonicalize, which makes a path absolute, always has an answer.
Canonical(path) == IF path[1] = "/" THEN path ELSE <<"/">> \o path

ServeName ==
    /\ Serving("NAME")
    /\ \/ /\ Answer("NAME", <<Canonical(Head(requests).path)>>, "OK")
          /\ UNCHANGED <<s, disk>>
       \/ /\ Head(requests).kind = "READLINK"
          /\ \E code \in Refusals : Refused(code)

ServeOpendir ==
    /\ Serving("OPENDIR")
    /\ \/ SendHandle(Entries, TRUE) /\ UNCHANGED disk
       \/ \E code \in Refusals : Refused(code)

\* _read_folder and _get_next_files; what cannot be packed raises, which start_subsystem
\* answers with FAILURE, and the names are gone.
ServeReaddir ==
    /\ Serving("READDIR")
    /\ LET h == Head(requests).on
       IN  IF h \notin DOMAIN s.folders THEN InvalidHandle
           ELSE IF s.folders[h] = <<>> THEN SendStatus("EOF") /\ UNCHANGED <<s, disk>>
           ELSE /\ \/ /\ Answer("NAME", First(s.folders[h], Batch), "OK")
                      /\ s' = [s EXCEPT !.folders[h] = After(@, Batch)]
                   \/ /\ s.faults > 0 /\ SendStatus("FAILURE")
                      /\ s' = [s EXCEPT !.folders[h] = After(@, Batch), !.faults = @ - 1]
                /\ UNCHANGED disk

\* _check_file: the ranges of the file that its loops hash, block by block of size bs.
\* `offset += count' adds all that was read of the block, not what was read now; a read
\* at the end of the file returns nothing, and the loop never ends.
Endless == <<Unknown, 0>>

HashedRanges(start, len, bs) ==
    LET end == start + len
        Loop[off \in Nat, count \in Nat, block \in Nat] ==
            IF count < block
            THEN LET got == Len(Slice(disk, off, Least(block, HashChunk)))
                 IN  IF got = 0 THEN <<Endless>>
                     ELSE <<<<off, got>>>> \o Loop[off + count + got, count + got, block]
            ELSE IF off < end THEN Loop[off, 0, Least(bs, end - off)] ELSE <<>>
    IN  Loop[start, 0, 0]

\* check-file for len bytes (0: to the end) in blocks of a given size (0: one block).
ServeCheck ==
    /\ Serving("EXTENDED")
    /\ LET r == Head(requests)
           len == IF r.len = 0 THEN Len(disk) - r.off ELSE r.len
           bs == IF r.data = <<0>> THEN len ELSE r.data[1]
           ranges == HashedRanges(r.off, len, bs)
       IN  IF r.on \notin DOMAIN s.files THEN InvalidHandle
           ELSE \/ /\ bs < MinBlock
                   /\ SendStatus("FAILURE") /\ UNCHANGED <<s, disk>>
                \/ /\ bs >= MinBlock
                   /\ IF Contains(ranges, Endless)
                      THEN /\ s' = [s EXCEPT !.pc = "spin"]
                           /\ requests' = Tail(requests)
                           /\ UNCHANGED <<answers, open>>
                      ELSE /\ Answer("EXTENDED_REPLY", ranges, "OK")
                           /\ LET last == ranges[Len(ranges)][1] + ranges[Len(ranges)][2]
                              IN  s' = [s EXCEPT !.files[r.on].at = last,
                                                 !.files[r.on].tell = last]
                   /\ UNCHANGED disk
                \/ \E code \in Refusals : Refused(code)

ServerReads ==
    \/ SendServerVersion \/ FinishSubsystem
    \/ ServeOpen \/ ServeClose \/ ServeRead \/ ServeWrite
    \/ ServePath \/ ServeStat \/ ServeFstat \/ ServeSetstat \/ ServeFsetstat \/ ServeName
    \/ ServeOpendir \/ ServeReaddir \/ ServeCheck
=============================================================================
