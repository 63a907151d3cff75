--------------------------- MODULE MCKeyExchange ---------------------------
(***************************************************************************)
(* Set-ups of one session, chosen by Init.                                 *)
(* At the limit: both sides re-key after a few packets, or only one does,  *)
(* with strict key exchange agreed on or refused by one side.              *)
(* On demand: one user of the client, or of the server, renegotiates.      *)
(* Disturbed: the user renegotiates as soon as start_client has returned;  *)
(* a user of each side renegotiates; or traffic that a transport thread    *)
(* must answer meets an exchange.                                          *)
(***************************************************************************)
EXTENDS KeyExchange

CONSTANTS uc, us

MCSideOf == [u \in Users |-> IF u = uc THEN "client" ELSE "server"]

Make(climit, slimit, cstrict, sstrict, renegotiators, traffic) ==
    [limit |-> [s \in Sides |-> IF s = "client" THEN climit ELSE slimit],
     advertise |-> [s \in Sides |-> IF s = "client" THEN cstrict ELSE sstrict],
     renegotiators |-> renegotiators,
     patient |-> TRUE,
     traffic |-> traffic]

AtTheLimit ==
    {Make(3, 3, TRUE, TRUE, {}, {"data"}), Make(Never, 2, TRUE, FALSE, {}, {"data"}),
     Make(2, Never, TRUE, TRUE, {}, {"data"})}
OnDemand ==
    {Make(Never, Never, TRUE, TRUE, {u}, {"data"}) : u \in {uc, us}}
AtOnce == {[Make(Never, Never, TRUE, TRUE, {uc}, {"data"}) EXCEPT !.patient = FALSE]}
BothOnDemand == {Make(Never, Never, TRUE, TRUE, {uc, us}, {})}
Answered == {Make(3, Never, TRUE, TRUE, {}, {"open", "request"})}

AllSetups == AtTheLimit \cup OnDemand \cup AtOnce \cup BothOnDemand \cup Answered
=============================================================================
