--------------------------- MODULE MCKnownHosts ---------------------------
(***************************************************************************)
(* Two processes, a host that comes to have another key and one that is in *)
(* the system file.  The name of the one is the end of the other's, as in  *)
(* sub.example.com and example.com, and one machine may serve both.        *)
(***************************************************************************)
EXTENDS KnownHosts

CONSTANTS p1, p2, alpha, beta

ed(i) == [type |-> "ssh-ed25519", id |-> i]
rsa(i) == [type |-> "ssh-rsa", id |-> i]

MCServerKeys == (alpha :> {{ed(6)}, {ed(2), rsa(3)}}) @@ (beta :> {{ed(4)}, {rsa(5)}, {ed(6)}})
MCNameLength == (alpha :> 15) @@ (beta :> 11)
MCEndings == {<<alpha, beta>>}
MCSystemLines == <<Line(HostKeyEntry(<<Hashed(beta)>>, ed(4)))>>
MCDisabled == (p1 :> {}) @@ (p2 :> {"rsa-sha2-512"})

Known(lines) == [exists |-> TRUE, lines |-> lines]
MCFiles ==
    {[exists |-> FALSE, lines |-> <<>>],
     Known(<<Skipped(8)>>),
     Known(<<Line(HostKeyEntry(<<Plain(beta), Plain(alpha)>>, rsa(3)))>>),
     Known(<<Line(HostKeyEntry(<<Plain(beta)>>, rsa(5))), Line(HostKeyEntry(<<Hashed(alpha)>>, ed(6)))>>),
     Known(<<Line(HostKeyEntry(<<Plain(beta)>>, ed(4))), [Line(HostKeyEntry(<<Plain(alpha)>>, ed(6))) EXCEPT !.kind = "broken"]>>)}

Do(op, name, key, policy) == [op |-> op, name |-> name, key |-> key, policy |-> policy]
Simply(op) == Do(op, "none", NoKey, "none")
At(op, name) == Do(op, name, NoKey, "none")
With(op, name, key) == Do(op, name, key, "none")
Policy(policy) == Do("set_missing_host_key_policy", "none", NoKey, policy)
Opening(policy) == <<Simply("load_host_keys"), Policy(policy)>>

\* One process meets alpha under AutoAddPolicy; the other does the same, or something else.
MCFirst == Opening("AutoAddPolicy") \o <<At("connect", alpha), At("connect", alpha)>>
MCSecond ==
    {Opening("AutoAddPolicy") \o <<At("connect", alpha), At("connect", beta)>>,
     Opening("AutoAddPolicy") \o <<At("connect", beta), At("connect", alpha), Simply("close")>>,
     <<Simply("load_host_keys"), At("connect", alpha), Simply("load_host_keys"), At("connect", alpha)>>,
     <<Simply("load_system_host_keys"), Simply("load_host_keys"), At("connect", beta), Simply("close")>>,
     <<Policy("WarningPolicy"), At("connect", alpha), With("Transport.connect", alpha, rsa(3))>>,
     <<Simply("load_host_keys"), With("add", alpha, ed(2)), At("connect", alpha), Simply("save_host_keys")>>,
     <<Simply("load_host_keys"), With("setitem", beta, ed(4)), At("delitem", beta), Simply("save_host_keys")>>,
     <<With("subsetitem", alpha, rsa(3)), At("subdelitem", alpha), At("connect", alpha), Simply("save_host_keys")>>,
     <<Simply("load_host_keys"), Simply("clear"), Simply("load_host_keys"), Simply("save_host_keys")>>,
     <<Simply("load_host_keys"), With("subsetitem", beta, ed(4)), With("add", beta, rsa(5)), Simply("save")>>}
MCPrograms == {(p1 :> MCFirst) @@ (p2 :> p) : p \in MCSecond}
===========================================================================
