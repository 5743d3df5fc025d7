-------------------------------- MODULE Dialer --------------------------------
(* internal/remote: what Open, Run and Verify do from the dial to the end of   *)
(* the connection, the known_hosts file they share, and the two goroutines of  *)
(* an sshPTY.  Key loading and the bytes of a session are left out; what       *)
(* follows when a PTY is done is SessionManager.                               *)
EXTENDS Naturals, FiniteSets

CONSTANTS
    Conns,      \* connections; each is dialled once
    Hosts,      \* addresses, as known_hosts names them
    Keys,       \* host keys
    Procs,      \* processes on the data directory
    Proc,       \* the process of a connection
    Garbage,    \* what a damaged line names as the key of a host
    None        \* no host, no key, nobody

ASSUME DialerAssumption ==
    /\ Proc \in [Conns -> Procs]
    /\ None \notin Hosts /\ None \notin Keys /\ None \notin Conns
    /\ Garbage \notin Keys /\ Garbage # None

VARIABLES
    conn,       \* per connection: see Connections
    key,        \* per host: the key it presents now
    known,      \* per host: what readKnownHosts finds for it
    torn,       \* the host of a last line without an end, or None
    lock,       \* per process: who holds keyMu
    accepted,   \* history, per host: the keys the callback has accepted
    wrecked     \* history: a line has been written in part

vars == <<conn, key, known, torn, lock, accepted, wrecked>>
fileVars == <<known, torn, wrecked>>
keyVars == <<fileVars, lock, accepted>>

Connections ==
    [at : {"new", "dial", "key", "read", "append", "auth", "session", "pty", "stdin", "stdout",
           "shell", "command", "live", "unwind", "over"},
     op : {"Open", "Run", "Verify"},
     host : Hosts \cup {None}, offer : Keys \cup {None},
     tcp : BOOLEAN,                                 \* our end is open
     sess : BOOLEAN,                                \* the session on it is open
     owed : SUBSET {"sess", "client"},              \* what an error return has still to close
     link : {"ok", "hung", "cut", "reset"},         \* the other end, and the way to it
     done : BOOLEAN,                                \* the PTY is done
     waiter : BOOLEAN,                              \* the goroutine in sess.Wait runs
     pinger : {"none", "ticking", "asking", "ended"}] \* keepalive

Init ==
    /\ conn = [c \in Conns |->
                  [at |-> "new", op |-> "Open", host |-> None, offer |-> None, tcp |-> FALSE,
                   sess |-> FALSE, owed |-> {}, link |-> "ok", done |-> FALSE, waiter |-> FALSE, pinger |-> "none"]]
    /\ key \in [Hosts -> Keys]
    /\ known = [h \in Hosts |-> None]
    /\ torn = None
    /\ lock = [p \in Procs |-> None]
    /\ accepted = [h \in Hosts |-> {}]
    /\ wrecked = FALSE

\* keyMu belongs to a connection that is in the callback, or to nobody.
TypeOK ==
    /\ conn \in [Conns -> Connections]
    /\ key \in [Hosts -> Keys]
    /\ known \in [Hosts -> Keys \cup {None, Garbage}]
    /\ torn \in Hosts \cup {None}
    /\ lock \in [Procs -> Conns \cup {None}]
    /\ \A p \in Procs : lock[p] # None => conn[lock[p]].at \in {"read", "append"}
    /\ accepted \in [Hosts -> SUBSET Keys]
    /\ wrecked \in BOOLEAN

At(c, a) == conn[c].at = a
Goto(c, a) == conn' = [conn EXCEPT ![c].at = a]

HasSession == {"pty", "stdin", "stdout", "shell", "command"}

\* Mutant: RequestPty's error path forgets client.Close.
Cleanup_Leaks(a) == IF a = "pty" THEN {"sess"}
                    ELSE IF a \in HasSession THEN {"sess", "client"} ELSE {"client"}

\* What a function that returns from stage a calls: the Close calls of that error path
\* of Open, or the deferred ones of Run and Verify.  "client" is the TCP connection
\* while there is no client on it yet.
Cleanup(a) == IF a \in HasSession THEN {"sess", "client"} ELSE {"client"}

Returns(c) == conn' = [conn EXCEPT ![c].at = "unwind", ![c].owed = Cleanup(conn[c].at)]

-----------------------------------------------------------------------------
(* dial *)

Begin(c, o, h) ==
    /\ At(c, "new")
    /\ conn' = [conn EXCEPT ![c].at = "dial", ![c].op = o, ![c].host = h]
    /\ UNCHANGED <<key, keyVars>>

\* The configuration or the TCP connect fails, or the context is done.
DialFails(c) ==
    /\ At(c, "dial")
    /\ Goto(c, "over")
    /\ UNCHANGED <<key, keyVars>>

\* TCP connects, and the handshake gets to the key the host has now.
Connects(c) ==
    /\ At(c, "dial")
    /\ conn' = [conn EXCEPT ![c].at = "key", ![c].tcp = TRUE, ![c].offer = key[conn[c].host]]
    /\ UNCHANGED <<key, keyVars>>

\* Mutant: the known_hosts file is read and written without the lock.
Free_Always(p) == TRUE

Free(p) == lock[p] = None

\* The callback, under keyMu.
Lock(c) ==
    /\ At(c, "key") /\ Free(Proc[c])
    /\ lock' = [lock EXCEPT ![Proc[c]] = c]
    /\ Goto(c, "read")
    /\ UNCHANGED <<key, fileVars, accepted>>

Unlock(c) == lock' = [lock EXCEPT ![Proc[c]] = None]

Accepts(c) ==
    /\ accepted' = [accepted EXCEPT ![conn[c].host] = @ \cup {conn[c].offer}]
    /\ Goto(c, "auth")
    /\ Unlock(c)

\* Mutant: the lock is not returned with an error.
Rejects_Locked(c) ==
    /\ Returns(c)
    /\ UNCHANGED <<lock, accepted>>

Rejects(c) ==
    /\ Returns(c)
    /\ Unlock(c)
    /\ UNCHANGED accepted

\* The key on file decides; there is none at first contact.  Reading may fail.
Read(c) ==
    /\ At(c, "read")
    /\ LET k == known[conn[c].host]
       IN \/ k = conn[c].offer /\ Accepts(c)
          \/ k = None /\ Goto(c, "append") /\ UNCHANGED <<lock, accepted>>
          \/ Rejects(c)
    /\ UNCHANGED <<key, fileVars>>

\* After a line without an end the next one is read as part of it.
Glued(k) == IF torn = None THEN {k}
            ELSE {[k EXCEPT ![torn] = g] : g \in {None, Garbage}}

\* appendKnownHost writes the whole line,
Append(c) ==
    /\ At(c, "append")
    /\ LET h == conn[c].host
       IN known' \in Glued(IF torn = None THEN [known EXCEPT ![h] = conn[c].offer] ELSE known)
    /\ torn' = None
    /\ Accepts(c)
    /\ UNCHANGED <<key, wrecked>>

\* ... or fails before it has written anything or in the middle of it.
AppendFails(c) ==
    /\ At(c, "append")
    /\ \/ UNCHANGED fileVars
       \/ /\ LET h == conn[c].host
             IN known' \in IF torn # None THEN Glued(known)
                           ELSE {[known EXCEPT ![h] = k] : k \in {None, Garbage, conn[c].offer}}
          /\ torn' = IF torn = None THEN conn[c].host ELSE torn
          /\ wrecked' = TRUE
    /\ Rejects(c)
    /\ UNCHANGED key

Authenticates(c) ==
    /\ At(c, "auth")
    /\ Goto(c, "session")
    /\ UNCHANGED <<key, keyVars>>

\* The client is up: NewSession, and with a session what Open, or Run and Verify, ask
\* of it one after the other.
Follow(r) ==
    CASE r.at = "session" -> IF r.op = "Open" THEN "pty" ELSE "command"
      [] r.at = "pty"     -> "stdin"
      [] r.at = "stdin"   -> "stdout"
      [] r.at = "stdout"  -> "shell"

Proceeds(c) ==
    /\ conn[c].at \in {"session", "pty", "stdin", "stdout"}
    /\ conn' = [conn EXCEPT ![c].at = Follow(conn[c]), ![c].sess = TRUE]
    /\ UNCHANGED <<key, keyVars>>

\* The handshake, the new session, the PTY, a pipe, the shell or the command fails.
Breaks(c) ==
    /\ conn[c].at \in {"key", "auth", "session"} \cup HasSession
    /\ Returns(c)
    /\ UNCHANGED <<key, keyVars>>

\* Run and Verify have their answer.
Answered(c) ==
    /\ At(c, "command")
    /\ Returns(c)
    /\ UNCHANGED <<key, keyVars>>

\* sess.Close, where it is called, comes before client.Close,
CloseSession(c) ==
    /\ At(c, "unwind") /\ "sess" \in conn[c].owed
    /\ conn' = [conn EXCEPT ![c].sess = FALSE, ![c].owed = @ \ {"sess"}]
    /\ UNCHANGED <<key, keyVars>>

\* ... which ends the sessions on it as well.
CloseClient(c) ==
    /\ At(c, "unwind") /\ conn[c].owed = {"client"}
    /\ conn' = [conn EXCEPT ![c].tcp = FALSE, ![c].sess = FALSE, ![c].owed = {}]
    /\ UNCHANGED <<key, keyVars>>

\* The caller has its result.
Leaves(c) ==
    /\ At(c, "unwind") /\ conn[c].owed = {}
    /\ Goto(c, "over")
    /\ UNCHANGED <<key, keyVars>>

-----------------------------------------------------------------------------
(* An open PTY *)

Opened(c) ==
    /\ At(c, "shell")
    /\ conn' = [conn EXCEPT ![c].at = "live", ![c].waiter = TRUE, ![c].pinger = "ticking"]
    /\ UNCHANGED <<key, keyVars>>

Broken(c) == ~conn[c].tcp \/ conn[c].link = "reset"

\* sess.Wait returns: the shell has exited, or the connection is gone.
Waited(c) ==
    /\ conn[c].waiter /\ (Broken(c) \/ conn[c].link = "ok")
    /\ conn' = [conn EXCEPT ![c].waiter = FALSE, ![c].done = TRUE]
    /\ UNCHANGED <<key, keyVars>>

\* Mutant: no keepalive is ever sent.
Ping_Never(c) ==
    /\ conn[c].pinger = "ticking" /\ conn[c].done
    /\ conn' = [conn EXCEPT ![c].pinger = "ended"]
    /\ UNCHANGED <<key, keyVars>>

\* keepalive sends a request at a tick, and ends when the PTY is done.
Ping(c) ==
    /\ conn[c].pinger = "ticking"
    /\ \/ conn' = [conn EXCEPT ![c].pinger = "asking"]
       \/ conn[c].done /\ conn' = [conn EXCEPT ![c].pinger = "ended"]
    /\ UNCHANGED <<key, keyVars>>

\* SendRequest waits for the answer without a limit.
Pong(c) ==
    /\ conn[c].pinger = "asking" /\ ~Broken(c) /\ conn[c].link = "ok"
    /\ conn' = [conn EXCEPT ![c].pinger = "ticking"]
    /\ UNCHANGED <<key, keyVars>>

\* ... or for an error, and closes the PTY.
PingFails(c) ==
    /\ conn[c].pinger = "asking" /\ Broken(c)
    /\ conn' = [conn EXCEPT ![c].pinger = "ended", ![c].tcp = FALSE,
                            ![c].sess = FALSE, ![c].done = TRUE]
    /\ UNCHANGED <<key, keyVars>>

\* sshPTY.Close, by the manager at any time and by the pump of a PTY that is done.
Close(c) ==
    /\ At(c, "live") /\ conn[c].tcp
    /\ conn' = [conn EXCEPT ![c].tcp = FALSE, ![c].sess = FALSE, ![c].done = TRUE]
    /\ UNCHANGED <<key, keyVars>>

-----------------------------------------------------------------------------
(* The hosts and the network *)

\* The host stops answering while its kernel still does, nothing gets through any
\* more, or the connection is reset.
Fault(c, l) ==
    /\ At(c, "live") /\ conn[c].link = "ok" /\ l # "ok"
    /\ conn' = [conn EXCEPT ![c].link = l]
    /\ UNCHANGED <<key, keyVars>>

\* TCP gives up on data that is never acknowledged: there has to be some.
GivesUp(c) ==
    /\ conn[c].link = "cut" /\ conn[c].pinger = "asking"
    /\ conn' = [conn EXCEPT ![c].link = "reset"]
    /\ UNCHANGED <<key, keyVars>>

\* The host is installed anew, or is another one.
Rekey(h, k) ==
    /\ key' = [key EXCEPT ![h] = k]
    /\ UNCHANGED <<conn, keyVars>>

Next ==
    \/ \E c \in Conns, o \in {"Open", "Run", "Verify"}, h \in Hosts : Begin(c, o, h)
    \/ \E c \in Conns :
        \/ DialFails(c) \/ Connects(c) \/ Lock(c) \/ Read(c) \/ Append(c) \/ AppendFails(c)
        \/ Authenticates(c) \/ Proceeds(c) \/ Breaks(c) \/ Answered(c)
        \/ CloseSession(c) \/ CloseClient(c) \/ Leaves(c)
        \/ Opened(c) \/ Waited(c) \/ Ping(c) \/ Pong(c) \/ PingFails(c) \/ Close(c) \/ GivesUp(c)
    \/ \E c \in Conns, l \in {"hung", "cut", "reset"} : Fault(c, l)
    \/ \E h \in Hosts, k \in Keys : Rekey(h, k)

\* The goroutines of a PTY and its pump run, and so does TCP.  Nothing is assumed
\* of the host.
Fairness ==
    \A c \in Conns :
        /\ WF_vars(Broken(c) /\ Waited(c))
        /\ WF_vars(Ping(c)) /\ WF_vars(PingFails(c))
        /\ WF_vars(conn[c].done /\ Close(c))
        /\ WF_vars(GivesUp(c))

Spec == Init /\ [][Next]_vars /\ Fairness

-----------------------------------------------------------------------------
(* Properties *)

\* Trust on first use, then pin: whatever keys a host presents and however many
\* connections meet it at once, it is only ever accepted with the first of them,
\* and that one is on file.  A line that was written in part ends the claim.
FirstUseIsPinned ==
    ~wrecked => \A h \in Hosts : accepted[h] \subseteq {known[h]}

\* The same when writes fail.
PinSurvivesFailures == \A h \in Hosts : Cardinality(accepted[h]) <= 1

\* A connection whose caller has an error or its answer is closed, and so is its
\* session, whichever error return or deferred calls it left by.
NothingLeft == \A c \in Conns : At(c, "over") => ~conn[c].tcp /\ ~conn[c].sess

Ended(c) == ~conn[c].tcp /\ conn[c].done /\ ~conn[c].waiter /\ conn[c].pinger = "ended"

\* A PTY whose host is cut off is done in the end, by the keepalive, and so is one
\* that was reset or closed; nothing of it stays behind.
DropIsNoticed ==
    \A c \in Conns :
        (At(c, "live") /\ (conn[c].done \/ conn[c].link \in {"cut", "reset"})) ~> Ended(c)

\* The same when the host hangs and its kernel goes on to acknowledge.
HalfDeadIsNoticed == \A c \in Conns : (At(c, "live") /\ conn[c].link = "hung") ~> Ended(c)
=============================================================================
