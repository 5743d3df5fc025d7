------------------------------ MODULE Onboarding -------------------------------
(* How a host comes to trust the server: the key pair that dmux serve and dmux *)
(* connect load or make (config.go, main.go), dmux setup on the host           *)
(* (setup.go), and the verification that precedes a registration (server.go).  *)
(*                                                                             *)
(* A step is one system call on a file, one contact between two machines, or   *)
(* one step of setup that may fail.  Any process may die between two steps.    *)
EXTENDS Naturals

CONSTANTS
    Serve,      \* the process dmux serve
    Connect,    \* the process dmux connect
    Hosts,
    Keys,       \* what key generation may yield
    Overlap,    \* whether two processes may look for the key pair at once
    None,       \* no file, no key
    Empty,      \* a file that has been created and not written
    Junk        \* the beginning of a line that is no key

Procs == {Serve, Connect}

ASSUME OnboardingAssumption ==
    /\ Serve # Connect
    /\ None \notin Keys \cup Hosts /\ Empty \notin Keys \cup {None} /\ Junk \notin Keys \cup {None}
    /\ Overlap \in BOOLEAN

VARIABLES
    file,       \* the private key on disk
    pub,        \* the public key beside it
    step,       \* where each process is
    signer,     \* the key each process works with
    target,     \* the host dmux connect has verified
    registered, \* the hosts in the registry
    setup,      \* per host: where setup is, and the key it is to authorize
    auth,       \* per host: authorized_keys
    ragged      \* history: the hosts whose file has had a line without its end

keyVars == <<file, pub>>
procVars == <<step, signer, target, registered>>
hostVars == <<setup, auth, ragged>>
vars == <<keyVars, procVars, hostVars>>

Looking == {"look", "create", "write", "pubCreate", "pubWrite"}
SetupSteps == {"idle", "prepare", "authorize", "append", "start", "done"}

\* authorized_keys: the keys that sshd accepts, those whose text is in the file
\* somewhere, and what the last line holds if it has no end.
Files == [ok : SUBSET Keys, text : SUBSET Keys, open : Keys \cup {None, Junk}]

TypeOK ==
    /\ file \in Keys \cup {None, Empty} /\ pub \in Keys \cup {None, Empty}
    /\ step \in [Procs -> Looking \cup {"off", "serving", "verify", "add"}]
    /\ signer \in [Procs -> Keys \cup {None}]
    /\ \A p \in Procs : signer[p] = None <=> step[p] \in {"off", "look"}
    /\ target \in Hosts \cup {None} /\ registered \subseteq Hosts
    /\ setup \in [Hosts -> [at : SetupSteps, key : Keys \cup {None}]]
    /\ auth \in [Hosts -> Files]
    /\ ragged \subseteq Hosts

\* A new server; the file of a host may end in the middle of a line.
Init ==
    /\ file = None /\ pub = None
    /\ step = [p \in Procs |-> "off"]
    /\ signer = [p \in Procs |-> None]
    /\ target = None /\ registered = {}
    /\ setup = [h \in Hosts |-> [at |-> "idle", key |-> None]]
    /\ ragged \in SUBSET Hosts
    /\ auth = [h \in Hosts |-> [ok |-> {}, text |-> {},
                                open |-> IF h \in ragged THEN Junk ELSE None]]

-----------------------------------------------------------------------------
(* EnsureHostKey, in whichever process is started.  *)

Goto(p, at) == step' = [step EXCEPT ![p] = at]

\* Where a process that has its key goes on.
Ready(p) == Goto(p, IF p = Serve THEN "serving" ELSE "verify")

Start(p) ==
    /\ step[p] = "off"
    /\ Overlap \/ \A q \in Procs : step[q] \notin Looking
    /\ Goto(p, "look")
    /\ UNCHANGED <<keyVars, signer, target, registered, hostVars>>

\* A generated key is like none that is anywhere.
Fresh ==
    Keys \ ({file, pub} \cup {signer[p] : p \in Procs}
            \cup UNION {{setup[h].key} \cup auth[h].ok \cup auth[h].text : h \in Hosts})

\* The key is read; a file that does not parse is an error; a missing one is made.
Look(p) ==
    /\ step[p] = "look"
    /\ \/ file \in Keys /\ signer' = [signer EXCEPT ![p] = file] /\ Ready(p)
       \/ file = Empty /\ Goto(p, "off") /\ UNCHANGED signer
       \/ /\ file = None
          /\ \E k \in Fresh : signer' = [signer EXCEPT ![p] = k]
          /\ Goto(p, "create")
    /\ UNCHANGED <<keyVars, target, registered, hostVars>>

\* os.WriteFile creates or truncates the file,
Creates(p) ==
    /\ \/ step[p] = "create" /\ file' = Empty /\ Goto(p, "write") /\ UNCHANGED pub
       \/ step[p] = "pubCreate" /\ pub' = Empty /\ Goto(p, "pubWrite") /\ UNCHANGED file
    /\ UNCHANGED <<signer, target, registered, hostVars>>

\* Mutant: the public key is written first.
Writes_PubFirst(p) ==
    /\ \/ /\ step[p] = "write"
          /\ pub' = signer[p] /\ Goto(p, "pubCreate") /\ UNCHANGED file
       \/ step[p] = "pubWrite" /\ file' = signer[p] /\ Ready(p) /\ UNCHANGED pub
    /\ UNCHANGED <<signer, target, registered, hostVars>>

\* ... and writes it; the private key goes first.
Writes(p) ==
    /\ \/ step[p] = "write" /\ file' = signer[p] /\ Goto(p, "pubCreate") /\ UNCHANGED pub
       \/ step[p] = "pubWrite" /\ pub' = signer[p] /\ Ready(p) /\ UNCHANGED file
    /\ UNCHANGED <<signer, target, registered, hostVars>>

\* Mutant: the key outlives its process.
Die_KeepsKey(p) ==
    /\ step[p] # "off"
    /\ Goto(p, "off")
    /\ target' = IF p = Connect THEN None ELSE target
    /\ UNCHANGED <<keyVars, signer, registered, hostVars>>

\* An error, a signal or a crash, in any state.
Die(p) ==
    /\ step[p] # "off"
    /\ Goto(p, "off")
    /\ signer' = [signer EXCEPT ![p] = None]
    /\ target' = IF p = Connect THEN None ELSE target
    /\ UNCHANGED <<keyVars, registered, hostVars>>

-----------------------------------------------------------------------------
(* Server.Connect, in dmux connect *)

\* Mutant: a host that answers is taken for one that trusts the key.
Verify_AnswersOnly(h) ==
    /\ step[Connect] = "verify"
    /\ target' = h
    /\ Goto(Connect, "add")
    /\ UNCHANGED <<keyVars, signer, registered, hostVars>>

\* Verify logs in with the key and out again.  When it fails, so does connect: Die.
Verify(h) ==
    /\ step[Connect] = "verify"
    /\ signer[Connect] \in auth[h].ok
    /\ target' = h
    /\ Goto(Connect, "add")
    /\ UNCHANGED <<keyVars, signer, registered, hostVars>>

\* hosts.Add, the last thing that matters before the process ends.
Add ==
    /\ step[Connect] = "add"
    /\ registered' = registered \cup {target}
    /\ target' = None
    /\ signer' = [signer EXCEPT ![Connect] = None]
    /\ Goto(Connect, "off")
    /\ UNCHANGED <<keyVars, hostVars>>

-----------------------------------------------------------------------------
(* dmux setup, on host h; it may be run again at any time.  *)

Begin(h, k) ==
    /\ setup[h].at \in {"idle", "done"}
    /\ setup' = [setup EXCEPT ![h] = [at |-> "prepare", key |-> k]]
    /\ UNCHANGED <<keyVars, procVars, auth, ragged>>

\* --server: the key that the server presents in a handshake.
Fetch(h) == step[Serve] = "serving" /\ Begin(h, signer[Serve])

\* --server-key: a copy of the public key; an empty file is refused.
Offline(h) == pub \in Keys /\ Begin(h, pub)

At(h, at) == setup[h].at = at
Proceed(h, at) == setup' = [setup EXCEPT ![h].at = at]

\* Install sshd, generate its host keys, write its configuration.
Prepare(h) ==
    /\ At(h, "prepare")
    /\ Proceed(h, "authorize")
    /\ UNCHANGED <<keyVars, procVars, auth, ragged>>

\* "Idempotent: the key is not added twice": it is looked for as a text.
Authorize(h) ==
    /\ At(h, "authorize")
    /\ Proceed(h, IF setup[h].key \in auth[h].text THEN "start" ELSE "append")
    /\ UNCHANGED <<keyVars, procVars, auth, ragged>>

\* What is written after a line without an end becomes part of it; sshd may still
\* accept the key the line began with.
Written(a, k, end) ==
    IF a.open = None
    THEN {[a EXCEPT !.ok = @ \cup {k}, !.text = @ \cup {k}, !.open = IF end THEN None ELSE k]}
    ELSE {[a EXCEPT !.ok = @ \ lost, !.text = @ \cup {k}, !.open = IF end THEN None ELSE Junk] :
            lost \in {{}, {a.open}}}

Append(h) ==
    /\ At(h, "append")
    /\ \E a \in Written(auth[h], setup[h].key, TRUE) : auth' = [auth EXCEPT ![h] = a]
    /\ Proceed(h, "start")
    /\ UNCHANGED <<keyVars, procVars, ragged>>

\* A full disk or a power cut: part of the line is written, or all but its end.
AppendTorn(h) ==
    /\ At(h, "append")
    /\ \E a \in Written(auth[h], setup[h].key, FALSE) \cup {[auth[h] EXCEPT !.open = Junk]} :
            auth' = [auth EXCEPT ![h] = a]
    /\ ragged' = ragged \cup {h}
    /\ Proceed(h, "idle")
    /\ UNCHANGED <<keyVars, procVars>>

\* service, systemctl or sshd itself: one of them starts it.
StartSSHD(h) ==
    /\ At(h, "start")
    /\ Proceed(h, "done")
    /\ UNCHANGED <<keyVars, procVars, auth, ragged>>

\* Any step may fail, and is not undone.
SetupFails(h) ==
    /\ setup[h].at \notin {"idle", "done"}
    /\ Proceed(h, "idle")
    /\ UNCHANGED <<keyVars, procVars, auth, ragged>>

-----------------------------------------------------------------------------
ProcNext(p) == Start(p) \/ Look(p) \/ Creates(p) \/ Writes(p) \/ Die(p)

SetupNext(h) ==
    \/ Fetch(h) \/ Offline(h) \/ Prepare(h) \/ Authorize(h)
    \/ Append(h) \/ AppendTorn(h) \/ StartSSHD(h) \/ SetupFails(h)

Next ==
    \/ \E p \in Procs : ProcNext(p)
    \/ Add
    \/ \E h \in Hosts : Verify(h) \/ SetupNext(h)

Spec == Init /\ [][Next]_vars

-----------------------------------------------------------------------------
(* Properties *)

\* A host on which setup reported success trusts the key on the server's disk,
\* from then on, whichever process made it, however many died in between, and
\* whether the key was fetched or copied: unless its file had a line without an
\* end, to which the key was appended.
SetupIsEnough ==
    \A h \in Hosts : setup[h].at = "done" /\ h \notin ragged => file \in auth[h].ok

\* A registered host trusts the server that is running: the one verification by
\* another process is good for every server that is started later.
RegisteredTrusts ==
    \A h \in registered : step[Serve] = "serving" => signer[Serve] \in auth[h].ok

-----------------------------------------------------------------------------
(* What comments and documents say beyond that, and the code does not keep: a  *)
(* small instance of each is in the README.                                    *)

\* The comment on stepAuthorizeKey: the key is appended to the file.
SetupAuthorizes == \A h \in Hosts : setup[h].at = "done" => setup[h].key \in auth[h].ok

\* The comment on EnsureHostKey and TODO M1: the pair is generated if it does not
\* exist yet, so whoever runs has both halves of it on disk.
PairIsWhole == step[Serve] = "serving" => pub = file

\* The same comment: a first run that was cut short does not keep the next one
\* from its key.
KeyIsReadable == file = Empty => \E p \in Procs : step[p] = "write"
=============================================================================
