----------------------------- MODULE MCSession -----------------------------
(***************************************************************************)
(* Two users at each end of one session, each with one call to make, or    *)
(* none.                                                                   *)
(***************************************************************************)
EXTENDS Session

CONSTANTS c1, c2, s1, s2

MCSideOf == [u \in Users |-> IF u \in {c1, c2} THEN "client" ELSE "server"]

Make(mc1, mc2, ms1, ms2) ==
    [u \in Users |-> CASE u = c1 -> mc1 [] u = c2 -> mc2 [] u = s1 -> ms1 [] u = s2 -> ms2]

\* Two opens against two accepts, of which one is taken while the other waits; a
\* forwarded port with connections from the server; opens from both ends; a user that
\* closes the session.
Mixed ==
    {Make({"open"}, {"open"}, {"accept"}, {"accept"}),
     Make({"forward"}, {"accept"}, {"open"}, {}),
     Make({"forward"}, {"open"}, {"open"}, {}),
     Make({"open"}, {"close"}, {"accept"}, {"close"})}
=============================================================================
