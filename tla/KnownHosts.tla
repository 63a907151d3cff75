---------------------------- MODULE KnownHosts ----------------------------
(***************************************************************************)
(* Which server key a client believes: HostKeys (hostkeys.py), the part of *)
(* SSHClient (client.py) that loads, looks up, adds and saves host keys    *)
(* around connect, the policies for unknown hosts, and Transport.connect   *)
(* with a given hostkey.  The clients are processes that share one         *)
(* known_hosts file; a server may change its keys.                         *)
(***************************************************************************)
EXTENDS Integers, Sequences, FiniteSets, SequencesExt, FiniteSetsExt

CONSTANTS Clients,
          Names,        \* what connect looks up: hostname, or [hostname]:port
          NameLength,   \* Names -> the characters of the name
          Endings,      \* the <<name, n>> for which n is the end of name
          ServerKeys,   \* Names -> the sets of keys its server may come to have
          SystemLines,  \* the system file, which nobody writes
          Files,        \* the user's file at the start, one chosen by Init
          Disabled,     \* Clients -> disabled_algorithms["keys"]
          Programs,     \* Clients -> calls, one chosen by Init
          MaxRolls,     \* bound: changes of a server's keys
          MaxCrashes    \* bound: processes killed

\* _preferred_keys, shortened to one algorithm of each kind and the two of RSA.
key_types == <<"ssh-ed25519", "rsa-sha2-512", "rsa-sha2-256">>
TypeOf(algorithm) == IF algorithm = "ssh-ed25519" THEN "ssh-ed25519" ELSE "ssh-rsa"
Types == {"ssh-ed25519", "ssh-rsa"}
NoKey == [type |-> "none", id |-> 0]

ASSUME KnownHostsAssumption ==
    /\ MaxRolls \in Nat /\ MaxCrashes \in Nat
    /\ NameLength \in [Names -> Nat \ {0}]
    /\ \A e \in Endings : e \in Names \X Names /\ NameLength[e[2]] < NameLength[e[1]]
    /\ \A n \in Names : \A keys \in ServerKeys[n] :
           \A k, l \in keys : k.type \in Types /\ (k.type = l.type => k = l)

VARIABLES server,   \* Names -> the keys of its server
          file,     \* the user's known_hosts file
          clients,  \* Clients -> the SSHClient, the call it is in and what it has to do
          origin,   \* ghost: the <<name, key>> somebody vouched for
          budget    \* rolls and crashes so far

vars == <<server, file, clients, origin, budget>>

-----------------------------------------------------------------------------
(* HostKeys: a sequence of entries, each with its hostnames and one key. A *)
(* hostname is plain or hashed.                                            *)

Plain(name) == [name |-> name, hashed |-> FALSE]
Hashed(name) == [name |-> name, hashed |-> TRUE]
HostKeyEntry(hostnames, key) == [hostnames |-> hostnames, key |-> key]

HostnameMatches(hostname, e) ==
    \E i \in DOMAIN e.hostnames :
        LET h == e.hostnames[i]
        IN h = hostname \/ (h.hashed /\ ~hostname.hashed /\ h.name = hostname.name)

Lookup(entries, hostname) ==
    SelectSeq(entries, LAMBDA e : HostnameMatches(hostname, e))

\* SubDict: the entries of one host; the first of a type is the one that counts.
IndicesOf(entries, type) == {i \in DOMAIN entries : entries[i].key.type = type}
Get(sub, type) ==
    IF IndicesOf(sub, type) = {} THEN NoKey ELSE sub[Min(IndicesOf(sub, type))].key

Check(entries, hostname, key) == Get(Lookup(entries, hostname), key.type) = key

\* The key is replaced in the entry, and so for every hostname of its line.
Holding(entries, hostname, type) ==
    {i \in IndicesOf(entries, type) : \E j \in DOMAIN entries[i].hostnames :
                                          entries[i].hostnames[j] = hostname}
Add(entries, hostname, key) ==
    LET held == Holding(entries, hostname, key.type)
    IN IF held = {} THEN Append(entries, HostKeyEntry(<<hostname>>, key))
                    ELSE [entries EXCEPT ![Min(held)].key = key]

\* hostkeys[hostname] = {type: key}: every entry of the name and type.
SetItem(entries, hostname, key) ==
    LET held == Holding(entries, hostname, key.type)
    IN IF held = {} THEN Append(entries, HostKeyEntry(<<hostname>>, key))
                    ELSE [i \in DOMAIN entries |->
                              IF i \in held THEN [entries[i] EXCEPT !.key = key] ELSE entries[i]]

\* hostkeys[hostname][type] = key, a KeyError for an unknown host: also an entry that
\* matches by its hash.
SubSetItem(entries, hostname, key) ==
    LET held == {i \in IndicesOf(entries, key.type) : HostnameMatches(hostname, entries[i])}
    IN IF Lookup(entries, hostname) = <<>> THEN entries
       ELSE IF held = {} THEN Append(entries, HostKeyEntry(<<hostname>>, key))
       ELSE [entries EXCEPT ![Min(held)].key = key]

\* del hostkeys[hostname]: the first entry only.
DelItem(entries, hostname) ==
    LET held == {i \in DOMAIN entries : HostnameMatches(hostname, entries[i])}
    IN IF held = {} THEN entries ELSE RemoveAt(entries, Min(held))

\* The loop of load removes from the list it walks over: the name that moves up into the
\* place of a removed one is not looked at.
Unknown(entries, e) ==
    LET Visit(left, i) ==
            IF i <= Len(left) /\ Check(entries, left[i], e.key) THEN RemoveAt(left, i) ELSE left
    IN FoldLeft(Visit, e.hostnames, [i \in DOMAIN e.hostnames |-> i])

\* A line of a file is an entry, or it is skipped, or it ends load with InvalidHostKey.
FromLine(entries, line) ==
    LET left == Unknown(entries, line.entry)
    IN IF line.kind = "skipped" \/ left = <<>> THEN entries
       ELSE Append(entries, HostKeyEntry(left, line.entry.key))

Broken(lines) == {i \in DOMAIN lines : lines[i].kind = "broken"}
Load(entries, lines) ==
    FoldLeft(FromLine, entries,
             IF Broken(lines) = {} THEN lines ELSE SubSeq(lines, 1, Min(Broken(lines)) - 1))
LoadRaises(f) == ~f.exists \/ Broken(f.lines) # {}

\* keys(): every hostname once, in order.
Keys(entries) ==
    FoldLeft(LAMBDA ks, h : IF Contains(ks, h) THEN ks ELSE Append(ks, h), <<>>,
             FlattenSeq([i \in DOMAIN entries |-> entries[i].hostnames]))

\* A line in characters: the names with commas between them, a space, the type, a space,
\* the key in base64 and the end of the line.
Length(h) ==
    IF h.hashed THEN 60 ELSE IF h.name \in Names THEN NameLength[h.name] ELSE h.name.left
NamesEnd(hostnames, i) ==
    FoldLeft(LAMBDA n, h : n + 1 + Length(h), 0, SubSeq(hostnames, 1, i)) - 1
KeyLength(key) == IF key.type = "ssh-rsa" THEN 382 ELSE 82
Line(entry) ==
    [kind |-> "entry", entry |-> entry,
     width |-> NamesEnd(entry.hostnames, Len(entry.hostnames)) + KeyLength(entry.key)]
\* A line of less than three fields.
Skipped(width) == [kind |-> "skipped", entry |-> HostKeyEntry(<<>>, NoKey), width |-> width]

Entries(lines) ==
    LET kept == SelectSeq(lines, LAMBDA l : l.kind = "entry")
    IN [i \in DOMAIN kept |-> kept[i].entry]

\* The lines save_host_keys writes: a hostname and a key each; for a type that several
\* entries of a host have, the first key as many times.
\* Mutant of Written: the line of the last entry of a hostname only.
WrittenLast(entries) ==
    [i \in DOMAIN Keys(entries) |->
        Line(HostKeyEntry(<<Keys(entries)[i]>>, Last(Lookup(entries, Keys(entries)[i])).key))]
Written(entries) ==
    LET LinesOf(hostname) ==
            LET sub == Lookup(entries, hostname)
            IN [i \in DOMAIN sub |->
                    Line(HostKeyEntry(<<hostname>>, Get(sub, sub[i].key.type)))]
    IN FlattenSeq([i \in DOMAIN Keys(entries) |-> LinesOf(Keys(entries)[i])])

\* HostKeys.save: an entry to a line.
ToLines(entries) == [i \in DOMAIN entries |-> Line(entries[i])]

-----------------------------------------------------------------------------
(* SSHClient                                                               *)

\* ours: our_server_keys; base: ghost, what the file held when save_host_keys merged it;
\* saver: the call that saves; accepted: ghost, the servers it went on to authenticate with.
NewClient(program) ==
    [program |-> program, todo |-> program, pc |-> "idle", policy |-> "RejectPolicy", filename |-> FALSE,
     system |-> <<>>, hosts |-> <<>>, transport |-> FALSE, sock |-> "closed",
     name |-> "none", ours |-> <<>>, pinned |-> NoKey, key |-> NoKey,
     base |-> <<>>, saver |-> "none", accepted |-> {}]

Vouched(entries) ==
    UNION {{<<h.name, e.key>> : h \in ToSet(e.hostnames)} : e \in ToSet(entries)}

Init ==
    /\ \E f \in Files : file = f
    /\ \E p \in Programs : clients = [c \in Clients |-> NewClient(p[c])]
    /\ server = [n \in Names |-> CHOOSE keys \in ServerKeys[n] : TRUE]
    /\ origin = Vouched(Entries(SystemLines)) \cup Vouched(Entries(file.lines))
    /\ budget = [rolls |-> 0, crashes |-> 0]

Calls(c, op) ==
    clients[c].pc = "idle" /\ clients[c].todo # <<>> /\ Head(clients[c].todo).op = op
Argument(c) == Head(clients[c].todo)
Done(client) == [client EXCEPT !.todo = Tail(@), !.pc = "idle"]

LoadSystemHostKeys(c) ==
    /\ Calls(c, "load_system_host_keys")
    /\ clients' = [clients EXCEPT ![c] = Done([@ EXCEPT !.system = Load(@, SystemLines)])]
    /\ UNCHANGED <<server, file, origin, budget>>

\* The filename is kept and what was read stays, also when load raises.
LoadHostKeys(c) ==
    /\ Calls(c, "load_host_keys")
    /\ clients' = [clients EXCEPT ![c] =
                       Done([@ EXCEPT !.filename = TRUE, !.hosts = Load(@, file.lines)])]
    /\ UNCHANGED <<server, file, origin, budget>>

SetMissingHostKeyPolicy(c) ==
    /\ Calls(c, "set_missing_host_key_policy")
    /\ clients' = [clients EXCEPT ![c] = Done([@ EXCEPT !.policy = Argument(c).policy])]
    /\ UNCHANGED <<server, file, origin, budget>>

\* The user changes the table through get_host_keys(): what it says after that is vouched
\* for, and earlier connections are no measure of it. del of a SubDict item takes the
\* entry out of the SubDict only.
Edited(entries, a) ==
    CASE a.op = "add" -> Add(entries, Plain(a.name), a.key)
      [] a.op = "setitem" -> SetItem(entries, Plain(a.name), a.key)
      [] a.op = "subsetitem" -> SubSetItem(entries, Plain(a.name), a.key)
      [] a.op = "delitem" -> DelItem(entries, Plain(a.name))
      [] a.op = "subdelitem" -> entries
      [] a.op = "clear" -> <<>>
Edit(c) ==
    /\ \E op \in {"add", "setitem", "subsetitem", "delitem", "subdelitem", "clear"} : Calls(c, op)
    /\ LET edited == Edited(clients[c].hosts, Argument(c))
       IN /\ clients' = [clients EXCEPT ![c] =
                             Done([@ EXCEPT !.hosts = edited, !.accepted = {}])]
          /\ origin' = origin \cup Vouched(edited)
    /\ UNCHANGED <<server, file, budget>>

-----------------------------------------------------------------------------
(* connect                                                                 *)

\* The addresses in turn until one answers. Refusals are counted by address: if all are
\* refused and an address is there twice, connect goes on with the socket it has closed.
Dialled(to_try, outcome) ==
    LET reached == {i \in DOMAIN to_try : outcome[i] # "refused"}
    IN IF reached # {} THEN (IF outcome[Min(reached)] = "connected" THEN "open" ELSE "raised")
       ELSE IF Cardinality(ToSet(to_try)) = Len(to_try) THEN "raised" ELSE "closed"
Socks ==
    {Dialled(to_try, outcome) : to_try \in {<<1, 2>>, <<1, 1>>},
                                outcome \in [1..2 -> {"connected", "refused", "failed"}]}

\* The keys of the host: the system's if it has any, else the user's.
OurServerKeys(client, hostname) ==
    IF Lookup(client.system, hostname) # <<>> THEN Lookup(client.system, hostname)
                                              ELSE Lookup(client.hosts, hostname)

Connect(c) ==
    /\ Calls(c, "connect")
    /\ \E sock \in Socks :
           clients' = [clients EXCEPT ![c] =
               IF sock = "raised" THEN Done(@)
               ELSE [@ EXCEPT !.pc = "looked up", !.sock = sock, !.transport = TRUE,
                              !.name = Argument(c).name,
                              !.ours = OurServerKeys(clients[c], Plain(Argument(c).name)),
                              !.pinned = NoKey]]
    /\ UNCHANGED <<server, file, origin, budget>>

\* Transport.connect with a hostkey, on a Transport of its own.
ConnectPinned(c) ==
    /\ Calls(c, "Transport.connect")
    /\ clients' = [clients EXCEPT ![c].pc = "looked up", ![c].sock = "open",
                                  ![c].name = Argument(c).name, ![c].ours = <<>>,
                                  ![c].pinned = Argument(c).key]
    /\ origin' = origin \cup {<<Argument(c).name, Argument(c).key>>}
    /\ UNCHANGED <<server, file, budget>>

\* _preferred_keys: the algorithm of the first key on record comes first; for a given
\* hostkey only its own algorithms.
FirstType(client) == client.ours[1].key.type
Algorithm(type) == IF type = "ssh-rsa" THEN "rsa-sha2-512" ELSE type
Preferred(client) ==
    IF client.pinned # NoKey
    THEN SelectSeq(key_types, LAMBDA a : TypeOf(a) = client.pinned.type)
    ELSE IF client.ours = <<>> THEN key_types
    ELSE LET first == Algorithm(FirstType(client))
         IN <<first>> \o SelectSeq(key_types, LAMBDA a : a # first)

PreferredKeys(c) == SelectSeq(Preferred(clients[c]), LAMBDA a : a \notin Disabled[c])

\* Negotiation: the first of the client's algorithms that the server has a key for.
Agreed(c) ==
    SelectSeq(PreferredKeys(c), LAMBDA a : \E k \in server[clients[c].name] : k.type = TypeOf(a))

StartClient(c) ==
    /\ clients[c].pc = "looked up" /\ clients[c].sock = "open" /\ Agreed(c) # <<>>
    /\ clients' = [clients EXCEPT ![c].pc = "met", ![c].key =
                       CHOOSE k \in server[clients[c].name] : k.type = TypeOf(Agreed(c)[1])]
    /\ UNCHANGED <<server, file, origin, budget>>

\* A closed socket, no algorithm in common, or an exchange that fails.
StartClientRaises(c) ==
    /\ clients[c].pc = "looked up"
    /\ clients' = [clients EXCEPT ![c] = Done(@)]
    /\ UNCHANGED <<server, file, origin, budget>>

\* The key is believed: authentication follows.
Accepted(client, by) ==
    Done([client EXCEPT !.accepted =
              @ \cup {[name |-> client.name, key |-> client.key, by |-> by]}])

\* Mutant of Believes: a type that is not on record is let pass.
BelievesNewType(client) ==
    IF client.pinned # NoKey THEN client.key = client.pinned
    ELSE Get(client.ours, client.key.type) \in {client.key, NoKey}
\* Mutant of Believes: any key of a type that is on record.
BelievesAnyOfType(client) ==
    IF client.pinned # NoKey THEN client.key = client.pinned
    ELSE Get(client.ours, client.key.type) # NoKey
Believes(client) ==
    IF client.pinned # NoKey THEN client.key = client.pinned
    ELSE Get(client.ours, client.key.type) = client.key

KnownHost(c) ==
    /\ clients[c].pc = "met" /\ (clients[c].ours # <<>> \/ clients[c].pinned # NoKey)
    /\ clients' = [clients EXCEPT ![c] =
                       IF ~Believes(@) THEN Done(@)  \* BadHostKeyException
                       ELSE Accepted(@, IF @.pinned # NoKey THEN "pinned" ELSE "recorded")]
    /\ UNCHANGED <<server, file, origin, budget>>

\* missing_host_key of the three policies.
Missing(c, policy) ==
    /\ clients[c].pc = "met" /\ clients[c].ours = <<>> /\ clients[c].pinned = NoKey
    /\ clients[c].policy = policy

Reject(c) ==
    /\ Missing(c, "RejectPolicy")
    /\ clients' = [clients EXCEPT ![c] = Done(@)]
    /\ UNCHANGED <<server, file, origin, budget>>

Warn(c) ==
    /\ Missing(c, "WarningPolicy")
    /\ clients' = [clients EXCEPT ![c] = Accepted(@, "warned")]
    /\ UNCHANGED <<server, file, origin, budget>>

AutoAdd(c) ==
    /\ Missing(c, "AutoAddPolicy")
    /\ clients' = [clients EXCEPT ![c] =
           LET added == [@ EXCEPT !.hosts = Add(@, Plain(clients[c].name), clients[c].key)]
           IN IF @.filename THEN [added EXCEPT !.pc = "merging", !.saver = "connect"]
                            ELSE Accepted(added, "first use")]
    /\ origin' = origin \cup {<<clients[c].name, clients[c].key>>}
    /\ UNCHANGED <<server, file, budget>>

-----------------------------------------------------------------------------
(* save_host_keys: the file is merged into the table, opened, which        *)
(* empties it, and written when it is closed.  Another process may come    *)
(* between any two of these.                                               *)

SaveHostKeys(c) ==
    /\ Calls(c, "save_host_keys")
    /\ clients' = [clients EXCEPT ![c].saver = "save_host_keys",
                       ![c].pc = IF clients[c].filename THEN "merging" ELSE "opening"]
    /\ UNCHANGED <<server, file, origin, budget>>

\* get_host_keys().save: nothing is merged.
Save(c) ==
    /\ Calls(c, "save")
    /\ clients' = [clients EXCEPT ![c].saver = "save", ![c].pc = "opening"]
    /\ UNCHANGED <<server, file, origin, budget>>

\* load_host_keys again; if it raises, nothing is saved and the connect fails.
SaveMerges(c) ==
    /\ clients[c].pc = "merging"
    /\ clients' = [clients EXCEPT ![c] =
           LET merged == [@ EXCEPT !.hosts = Load(@, file.lines)]
           IN IF LoadRaises(file) THEN Done(merged)
              ELSE [merged EXCEPT !.pc = "opening", !.base = file.lines]]
    /\ UNCHANGED <<server, file, origin, budget>>

SaveOpens(c) ==
    /\ clients[c].pc = "opening"
    /\ file' = [exists |-> TRUE, lines |-> <<>>]
    /\ clients' = [clients EXCEPT ![c].pc = "writing"]
    /\ UNCHANGED <<server, origin, budget>>

\* The write is at the start of the file: what another process has written there in the
\* meantime is overwritten, and if it is longer its end stays, with the line that is cut.
Bytes(lines) == FoldLeft(LAMBDA n, l : n + l.width, 0, lines)

\* The last characters of a hostname: another name, or one that nobody asks for.
EndOf(h, left) ==
    LET full == IF h.hashed \/ h.name \in Names THEN h ELSE h.name.of
        having == {n \in Names : (n = full.name \/ <<full.name, n>> \in Endings)
                                  /\ NameLength[n] >= left}
        shortest == CHOOSE n \in having : \A o \in having : NameLength[n] <= NameLength[o]
    IN IF full.hashed THEN (IF left = Length(full) THEN full ELSE Plain([of |-> full, left |-> left]))
       ELSE IF NameLength[shortest] = left THEN Plain(shortest)
       ELSE Plain([of |-> Plain(shortest), left |-> left])

\* A line without its first characters: cut within the names it is an entry still, for
\* what is left of them; cut after them it has too few fields.
Cut(line, gone) ==
    LET hostnames == line.entry.hostnames
        whole == {i \in DOMAIN hostnames : gone <= NamesEnd(hostnames, i)}
    IN IF gone >= NamesEnd(hostnames, Len(hostnames)) THEN Skipped(line.width - gone)
       ELSE [line EXCEPT !.width = @ - gone,
                         !.entry.hostnames =
                             <<EndOf(hostnames[Min(whole)], NamesEnd(hostnames, Min(whole)) - gone)>>
                                 \o SubSeq(hostnames, Min(whole) + 1, Len(hostnames))]

Overwrite(old, new) ==
    LET Left(i) == Bytes(SubSeq(old, 1, i)) - Bytes(new)  \* what is left of the first i lines
        beyond == {i \in DOMAIN old : Left(i) > 0}
    IN IF beyond = {} THEN new
       ELSE LET cut == Min(beyond)
                gone == old[cut].width - Left(cut)
            IN new \o <<IF gone > 0 THEN Cut(old[cut], gone) ELSE old[cut]>>
                   \o SubSeq(old, cut + 1, Len(old))

SaveWrites(c) ==
    /\ clients[c].pc = "writing"
    /\ file' = [file EXCEPT !.lines =
           Overwrite(@, IF clients[c].saver = "save" THEN ToLines(clients[c].hosts)
                                                     ELSE Written(clients[c].hosts))]
    /\ clients' = [clients EXCEPT ![c] =
           LET saved == [@ EXCEPT !.base = <<>>, !.saver = "none"]
           IN IF @.saver = "connect" THEN Accepted(saved, "first use") ELSE Done(saved)]
    /\ UNCHANGED <<server, origin, budget>>

\* close() drops the Transport.
Close(c) ==
    /\ Calls(c, "close")
    /\ clients' = [clients EXCEPT ![c] = Done([@ EXCEPT !.transport = FALSE])]
    /\ UNCHANGED <<server, file, origin, budget>>

-----------------------------------------------------------------------------
(* The environment: servers change keys, processes are killed and started  *)
(* again.                                                                  *)

RollKeys ==
    /\ budget.rolls < MaxRolls
    /\ \E n \in Names : \E keys \in ServerKeys[n] \ {server[n]} :
           server' = [server EXCEPT ![n] = keys]
    /\ budget' = [budget EXCEPT !.rolls = @ + 1]
    /\ UNCHANGED <<file, clients, origin>>

Crash(c) ==
    /\ budget.crashes < MaxCrashes /\ clients[c].todo # <<>>
    /\ clients' = [clients EXCEPT ![c] = NewClient(@.program)]
    /\ budget' = [budget EXCEPT !.crashes = @ + 1]
    /\ UNCHANGED <<server, file, origin>>

Next ==
    \/ \E c \in Clients :
           \/ LoadSystemHostKeys(c) \/ LoadHostKeys(c) \/ SetMissingHostKeyPolicy(c)
           \/ Edit(c) \/ Connect(c) \/ ConnectPinned(c) \/ StartClient(c)
           \/ StartClientRaises(c) \/ KnownHost(c) \/ Reject(c) \/ Warn(c) \/ AutoAdd(c)
           \/ SaveHostKeys(c) \/ Save(c) \/ SaveMerges(c) \/ SaveOpens(c) \/ SaveWrites(c)
           \/ Close(c) \/ Crash(c)
    \/ RollKeys

Spec == Init /\ [][Next]_vars

-----------------------------------------------------------------------------
(* Properties                                                              *)

\* A server that connect believes on the strength of a record has a key that was vouched
\* for under that name: it is in a file as the user left it, the user entered it or gave it
\* to Transport.connect, or some client with AutoAddPolicy met it there first. Saving,
\* merging, hashing and rewriting files vouch for nothing else, with one exception: two
\* processes that save at once may leave a line without its beginning, and a key that was
\* vouched for under one name is then on record for a name that is the end of it
\* (SSHClient.connect, SSHClient.save_host_keys, HostKeys.lookup).
TrustHasOrigin ==
    \A c \in Clients : \A a \in clients[c].accepted :
        a.by \in {"recorded", "pinned"} =>
            \E o \in origin : /\ o[2] = a.key
                              /\ o[1] = a.name \/ <<o[1], a.name>> \in Endings

\* What load says of itself, and load_host_keys too: keys that are in the file replace
\* those of the same host and type in the table. When save_host_keys has merged the file
\* the table answers as the file did.
Answer(entries, name, type) == Get(Lookup(entries, Plain(name)), type)
MergeReplaces ==
    \A c \in Clients : clients[c].pc = "opening" =>
        \A n \in Names, t \in Types :
            Answer(Entries(clients[c].base), n, t) \in {NoKey, Answer(clients[c].hosts, n, t)}

\* Once a client has gone on to authenticate with a server whose key it found on record or
\* added, it does not do so with another key of that type, whatever other processes write
\* to the file it merges: HostKeys.load appends what it reads behind the entries it has,
\* and the first entry counts, contrary to what load documents (MergeReplaces). Excepted
\* are a table the user has changed and names the system file speaks for.
FirstUseSticks ==
    \A c \in Clients : \A a, b \in clients[c].accepted :
        /\ {a.by, b.by} \subseteq {"recorded", "first use"}
        /\ a.name = b.name /\ a.key.type = b.key.type
        /\ Lookup(Entries(SystemLines), Plain(a.name)) = <<>>
        => a.key = b.key

\* A save loses nothing that it merged: for every host and type the file held then the
\* table has a key, and the file that is written answers every lookup as the table does,
\* hashed names, lines with several names and repeated types included (SSHClient.save_host_keys, HostKeys.save).
SavesMerge ==
    [][\A c \in Clients :
           clients[c].pc = "writing" /\ clients'[c].pc # "writing" /\ budget' = budget =>
               \A n \in Names, t \in Types :
                   LET mine == Answer(clients[c].hosts, n, t)
                   IN /\ Answer(Entries(clients[c].base), n, t) # NoKey => mine # NoKey
                      /\ mine # NoKey => Answer(Entries(file'.lines), n, t) = mine]_vars
=============================================================================
