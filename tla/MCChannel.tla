----------------------------- MODULE MCChannel -----------------------------
(***************************************************************************)
(* Three instances of one channel.                                         *)
(* Data: the client writes more than a window on one of its two streams    *)
(* while another of its threads shuts down or closes; the server reads,    *)
(* and a second thread of it merges the streams, reads stderr or shuts     *)
(* down its reading.                                                       *)
(* Close: everybody is in some blocking call (a write that outgrows the    *)
(* window, a read, a request, a wait for the exit status) when either end  *)
(* closes, shuts down or loses its connection.                             *)
(* Request: a request of the client races with a close by the server.      *)
(***************************************************************************)
EXTENDS ChannelFlow

CONSTANTS c1, c2, s1, s2

MCSideOf == [u \in Users |-> IF u \in {c1, c2} THEN "client" ELSE "server"]

DataMenu ==
    [u \in Users |->
        CASE u = c1 -> {"sendall", "sendall_stderr"}
          [] u = c2 -> {"close", "shutdown_write"}
          [] u = s1 -> {"recv"}
          [] u = s2 -> {"combine_stderr", "recv_stderr", "shutdown_read"}]
DataCalls == [u \in Users |-> IF u = s1 THEN 3 ELSE 1]

CloseMenu ==
    [u \in Users |->
        CASE u = c1 -> {"request", "sendall", "recv_exit_status"}
          [] u = c2 -> {"shutdown_both", "close", "recv"}
          [] u = s2 -> {"close", "split_stderr", "send_exit_status", "send", "send_stderr"}]
CloseCalls == [u \in Users |-> 1]

RequestMenu == [u \in Users |-> IF u = c1 THEN {"request"} ELSE {"close"}]
=============================================================================
