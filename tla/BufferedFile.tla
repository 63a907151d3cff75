--------------------------- MODULE BufferedFile ---------------------------
(***************************************************************************)
(* paramiko/file.py: the buffering that SFTPFile and ChannelFile inherit.  *)
(* A file is a record with the attributes of the object; each operator is  *)
(* the part of a method between two calls of _read or _write, which the    *)
(* subclass overrides and which may block.  Bytes are numbers.             *)
(***************************************************************************)
EXTENDS Integers, Sequences, SequencesExt

CONSTANT DefaultBuf  \* _DEFAULT_BUFSIZE, 8192 in the code

ASSUME DefaultBufAssumption == DefaultBuf \in Nat \ {0}

CR == 13
LF == 10

Least(a, b) == IF a < b THEN a ELSE b
Most(a, b) == IF a < b THEN b ELSE a

\* The first n elements of a sequence, and the others.
First(s, n) == SubSeq(s, 1, Least(n, Len(s)))
After(s, n) == SubSeq(s, n + 1, Len(s))

\* __init__ and _set_mode; a bufsize of 1 buffers lines, a larger one is the size of the
\* buffer.  Text and binary differ in the type of what readline returns only.
NewFile(mode, bufsize) ==
    [mode |-> mode,
     buffering |-> IF bufsize <= 0 THEN "none" ELSE IF bufsize = 1 THEN "line" ELSE "full",
     bufsize |-> IF bufsize > 1 THEN bufsize ELSE DefaultBuf,
     rbuf |-> <<>>, wbuf |-> <<>>, cr |-> FALSE, newlines |-> {}, closed |-> FALSE,
     pos |-> 0, realpos |-> 0, size |-> 0]

\* _set_mode of a file opened to append, once _get_size has answered.
AtEnd(f, size) == [f EXCEPT !.size = size, !.pos = size, !.realpos = size]

Readable(f) == f.mode \in {"r", "rU", "r+"}
Writable(f) == f.mode \in {"w", "a", "r+"}
Universal(f) == f.mode = "rU"

-----------------------------------------------------------------------------
(* read                                                                    *)

\* How many bytes to ask _read for, with fewer than n in the buffer.
ReadSize(f, n) ==
    LET missing == n - Len(f.rbuf)
    IN  IF f.buffering = "none" THEN missing ELSE Most(f.bufsize, missing)

\* What _read returned goes into the buffer.
Filled(f, data) == [f EXCEPT !.rbuf = @ \o data, !.realpos = @ + Len(data)]

\* What read returns from the buffer, and the file afterwards.
ReadResult(f, n) == First(f.rbuf, n)
ReadDone(f, n) == [f EXCEPT !.rbuf = After(@, n), !.pos = @ + Len(ReadResult(f, n))]

\* read without a size: the buffer first, then whatever _read returns.
ReadAllBegun(f) == [f EXCEPT !.rbuf = <<>>, !.pos = @ + Len(f.rbuf)]
ReadAllGot(f, data) == [f EXCEPT !.pos = @ + Len(data), !.realpos = @ + Len(data)]

-----------------------------------------------------------------------------
(* readline                                                                *)

\* _record_newline; the order in which the kinds were seen is left out.
RecordNewline(f, kind) == IF Universal(f) THEN [f EXCEPT !.newlines = @ \cup {kind}] ELSE f

\* The newline may be CR LF, of which the last call returned at the CR.
Pending(f, line) == f.cr /\ Universal(f) /\ line # <<>>
LineAfterCr(f, line) == IF Pending(f, line) /\ line[1] = LF THEN Tail(line) ELSE line
FileAfterCr(f, line) ==
    IF Pending(f, line)
    THEN RecordNewline([f EXCEPT !.cr = FALSE],
                       IF line[1] = LF THEN <<CR, LF>> ELSE <<CR>>)
    ELSE f

Newlines(f, line) ==
    {i \in DOMAIN line : line[i] = LF \/ (Universal(f) /\ line[i] = CR)}

\* Where the newline of a line begins and ends.
NewlineFirst(f, line) == CHOOSE i \in Newlines(f, line) : \A j \in Newlines(f, line) : i <= j
NewlineLast(f, line) ==
    LET i == NewlineFirst(f, line)
    IN  IF line[i] = CR /\ i < Len(line) /\ line[i + 1] = LF THEN i + 1 ELSE i

\* What readline returns of a line that has a newline or was cut to its size.
LineResult(f, line) ==
    IF Newlines(f, line) = {} THEN line
    ELSE Append(SubSeq(line, 1, NewlineFirst(f, line) - 1), LF)

\* Mutant of LineDone: a CR at the end of the buffer is not remembered.
LineDoneForgetful(f, line, cut) ==
    [f EXCEPT !.rbuf = (IF Newlines(f, line) = {} THEN <<>>
                        ELSE After(line, NewlineLast(f, line))) \o cut,
              !.pos = @ + Len(LineResult(f, line))]

\* The file afterwards; cut is what the size left over.
LineDone(f, line, cut) ==
    LET moved == [f EXCEPT !.pos = @ + Len(LineResult(f, line))]
    IN  IF Newlines(f, line) = {} THEN [moved EXCEPT !.rbuf = cut]
        ELSE LET rest == After(line, NewlineLast(f, line)) \o cut
                 kind == SubSeq(line, NewlineFirst(f, line), NewlineLast(f, line))
                 kept == [moved EXCEPT !.rbuf = rest]
             IN  IF rest = <<>> /\ kind = <<CR>> THEN [kept EXCEPT !.cr = TRUE]
                 ELSE RecordNewline(kept, kind)

\* The end of the file: all that is left is the line.
LastLine(f, line) == [f EXCEPT !.rbuf = <<>>, !.pos = @ + Len(line)]

-----------------------------------------------------------------------------
(* write                                                                   *)

LastNewline(data) ==
    IF \E i \in DOMAIN data : data[i] = LF
    THEN CHOOSE i \in DOMAIN data : data[i] = LF /\ \A j \in i + 1 .. Len(data) : data[j] # LF
    ELSE 0

\* With data added to the write buffer: what has to be written now, what stays.  A file
\* that buffers lines returns before it looks at the size of its buffer.
WriteNow(f, data) ==
    LET all == f.wbuf \o data
    IN  CASE f.buffering = "none" -> data
          [] f.buffering = "line" ->
                IF LastNewline(data) = 0 THEN <<>> ELSE First(all, Len(f.wbuf) + LastNewline(data))
          [] f.buffering = "full" -> IF Len(all) >= f.bufsize THEN all ELSE <<>>
WriteKeep(f, data) ==
    IF f.buffering = "none" THEN f.wbuf ELSE After(f.wbuf \o data, Len(WriteNow(f, data)))
\* ... and what the buffer holds while _write_all is at it.
WriteBuffer(f, data) == IF f.buffering = "none" THEN f.wbuf ELSE f.wbuf \o data

\* _write_all, once _write has taken count bytes.
Written(f, count) ==
    IF f.mode = "a" THEN AtEnd(f, f.size + count)
    ELSE [f EXCEPT !.pos = @ + count, !.realpos = @ + count]
=============================================================================
