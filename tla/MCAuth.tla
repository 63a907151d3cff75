------------------------------ MODULE MCAuth ------------------------------
(***************************************************************************)
(* One client and one server.                                              *)
(***************************************************************************)
EXTENDS ClientAuth

CONSTANTS me, you

MCAllowed == {{"publickey", "keyboard-interactive"}}

\* An application with calls of its own choice; _auth with keys of every origin, with
\* and without a password; a strategy of two sources.
MCPrograms ==
    {[runs |-> "application", password |-> FALSE, calls |-> 2, todo |-> <<>>],
     [runs |-> "_auth", password |-> TRUE, calls |-> 0, todo |-> <<"pkey", "key_filename">>],
     [runs |-> "_auth", password |-> FALSE, calls |-> 0, todo |-> <<"agent", "keyfile">>],
     [runs |-> "AuthStrategy", password |-> FALSE, calls |-> 0, todo |-> <<"PrivateKey", "Password">>],
     [runs |-> "AuthStrategy", password |-> FALSE, calls |-> 0, todo |-> <<"NoneAuth">>]}
=============================================================================
