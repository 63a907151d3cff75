--------------------------- MODULE MCBufferedPipe ---------------------------
(* BufferedPipe with two competing readers, feeds of zero, one and two bytes *)
(* and reads that take part or all of the buffer.                            *)
EXTENDS BufferedPipe
=============================================================================
