---------------------------- MODULE Dialer_proofs -----------------------------
(* Proofs about Dialer, for any number of connections, hosts and keys.  The    *)
(* pin needs that all connections belong to one process.                       *)
EXTENDS Dialer, TLAPS

OneProcess == \A c, d \in Conns : Proc[c] = Proc[d]

InCallback == {"read", "append"}

\* From the handshake to the last thing asked of the session.
Opening == {"key", "auth", "session"} \cup InCallback \cup HasSession

\* A connection that has got as far as the key has a host and an offer, holds
\* the lock while it is in the callback, and is closed when it is over: as long as
\* it is open, whoever returns has still to close it.
Stages ==
    \A c \in Conns :
        /\ conn[c].at # "new" => conn[c].host \in Hosts
        /\ conn[c].at \in {"key"} \cup InCallback => conn[c].offer \in Keys
        /\ conn[c].at \in InCallback => lock[Proc[c]] = c
        /\ conn[c].at \in {"new", "dial", "over"} => ~conn[c].tcp
        /\ conn[c].at \in Opening => conn[c].tcp
        /\ conn[c].sess => conn[c].tcp
        /\ conn[c].at = "unwind" /\ conn[c].tcp => "client" \in conn[c].owed
        /\ conn[c].waiter \/ conn[c].pinger # "none" => conn[c].at = "live"
        /\ \A p \in Procs : lock[p] = c => Proc[c] = p

IInv == TypeOK /\ Stages

\* What is on file is what was accepted, and nobody is about to replace it.
Pinned ==
    ~wrecked =>
        /\ torn = None
        /\ \A h \in Hosts : accepted[h] \subseteq {known[h]}
        /\ \A c \in Conns : conn[c].at = "append" => known[conn[c].host] = None

LEMMA InitInv == Init => IInv /\ Pinned
<1> SUFFICES ASSUME Init PROVE IInv /\ Pinned
  OBVIOUS
<1>1. conn \in [Conns -> Connections]
  BY DEF Init, Connections
<1>2. TypeOK
  BY <1>1, DialerAssumption DEF Init, TypeOK
<1>3. Stages
  BY DialerAssumption DEF Init, Stages, InCallback, Opening, HasSession
<1>4. Pinned
  BY DEF Init, Pinned
<1> QED BY <1>2, <1>3, <1>4 DEF IInv

\* A connection that takes a step outside the callback.
LEMMA OutsideInv ==
    ASSUME IInv, NEW c \in Conns,
           \/ \E o \in {"Open", "Run", "Verify"}, h \in Hosts : Begin(c, o, h)
           \/ \E l \in {"hung", "cut", "reset"} : Fault(c, l)
           \/ DialFails(c) \/ Connects(c) \/ Authenticates(c) \/ Proceeds(c) \/ Breaks(c) \/ Answered(c)
           \/ CloseSession(c) \/ CloseClient(c) \/ Leaves(c)
           \/ Opened(c) \/ Waited(c) \/ Ping(c) \/ Pong(c) \/ PingFails(c) \/ Close(c) \/ GivesUp(c)
    PROVE  IInv' /\ UNCHANGED <<keyVars, key>> /\ \A d \in Conns : conn'[d].at \in InCallback => conn'[d] = conn[d]
<1> USE DEF IInv
<1>1. UNCHANGED <<keyVars, key>>
  BY DEF Begin, Fault, DialFails, Connects, Authenticates, Proceeds, Breaks, Answered, CloseSession,
         CloseClient, Leaves, Opened, Waited, Ping, Pong, PingFails, Close, GivesUp
<1> DEFINE x == conn[c]
<1> DEFINE Fine(r) ==
        /\ conn' = [conn EXCEPT ![c] = r]
        /\ r \in Connections /\ x.at \notin InCallback /\ r.at \notin InCallback
        /\ r.at # "new" => r.host \in Hosts
        /\ r.at = "key" => r.offer \in Keys
        /\ r.at \in {"new", "dial", "over"} => ~r.tcp
        /\ r.at \in Opening => r.tcp
        /\ r.sess => r.tcp
        /\ r.at = "unwind" /\ r.tcp => "client" \in r.owed
        /\ r.waiter \/ r.pinger # "none" => r.at = "live"
<1> x \in Connections /\ conn \in [Conns -> Connections]
  BY DEF TypeOK
<1>2. \E r : Fine(r)
  <2>1. CASE \E o \in {"Open", "Run", "Verify"}, h \in Hosts : Begin(c, o, h)
    <3> PICK o \in {"Open", "Run", "Verify"}, h \in Hosts : Begin(c, o, h)
      BY <2>1
    <3> WITNESS [x EXCEPT !.at = "dial", !.op = o, !.host = h]
    <3> QED BY DEF Connections, Stages, InCallback, Opening, HasSession, Begin, At
  <2>2. CASE \E l \in {"hung", "cut", "reset"} : Fault(c, l)
    <3> PICK l \in {"hung", "cut", "reset"} : Fault(c, l)
      BY <2>2
    <3> WITNESS [x EXCEPT !.link = l]
    <3> QED BY DEF Connections, Stages, InCallback, Opening, HasSession, Fault, At
  <2>3. CASE DialFails(c)
    <3> WITNESS [x EXCEPT !.at = "over"]
    <3> QED BY <2>3 DEF Connections, Stages, InCallback, Opening, HasSession, DialFails, At, Goto
  <2>4. CASE Connects(c)
    <3> WITNESS [x EXCEPT !.at = "key", !.tcp = TRUE, !.offer = key[x.host]]
    <3>1. x.host \in Hosts /\ key[x.host] \in Keys
      BY <2>4 DEF Connects, At, Stages, TypeOK
    <3> QED BY <2>4, <3>1 DEF Connections, Stages, InCallback, Opening, HasSession, Connects, At
  <2>5. CASE Authenticates(c)
    <3> WITNESS [x EXCEPT !.at = "session"]
    <3> QED BY <2>5 DEF Connections, Stages, InCallback, Opening, HasSession, Authenticates, At, Goto
  <2>6. CASE Breaks(c) \/ Answered(c)
    <3>1. conn' = [conn EXCEPT ![c] = [x EXCEPT !.at = "unwind", !.owed = Cleanup(x.at)]]
          /\ x.at \in {"key", "auth", "session"} \cup HasSession
      BY <2>6 DEF Breaks, Answered, Returns, At, HasSession
    <3>2. Cleanup(x.at) \in SUBSET {"sess", "client"} /\ "client" \in Cleanup(x.at)
      BY DEF Cleanup
    <3> WITNESS [x EXCEPT !.at = "unwind", !.owed = Cleanup(x.at)]
    <3> QED BY <3>1, <3>2 DEF Connections, Stages, InCallback, Opening, HasSession
  <2>7. CASE Opened(c)
    <3>1. x.at = "shell" /\ x.tcp
          /\ conn' = [conn EXCEPT ![c] = [x EXCEPT !.at = "live", !.waiter = TRUE, !.pinger = "ticking"]]
      BY <2>7 DEF Opened, At, Stages, Opening, HasSession
    <3> WITNESS [x EXCEPT !.at = "live", !.waiter = TRUE, !.pinger = "ticking"]
    <3> QED BY <3>1 DEF Connections, Stages, InCallback, Opening, HasSession
  <2>8. CASE Waited(c)
    <3>1. x.at = "live" /\ x.host \in Hosts /\ (x.sess => x.tcp)
          /\ conn' = [conn EXCEPT ![c] = [x EXCEPT !.waiter = FALSE, !.done = TRUE]]
      BY <2>8 DEF Waited, Stages
    <3> WITNESS [x EXCEPT !.waiter = FALSE, !.done = TRUE]
    <3> QED BY <3>1 DEF Connections, InCallback, Opening, HasSession
  <2>9. CASE Ping(c) \/ Pong(c)
    <3> PICK q \in {"asking", "ended", "ticking"} :
             x.pinger # "none" /\ conn' = [conn EXCEPT ![c].pinger = q]
      BY <2>9 DEF Ping, Pong
    <3> WITNESS [x EXCEPT !.pinger = q]
    <3> QED BY DEF Connections, Stages, InCallback, Opening, HasSession
  <2>10. CASE PingFails(c)
    <3>1. x.at = "live" /\ x.host \in Hosts
          /\ conn' = [conn EXCEPT ![c] = [x EXCEPT !.pinger = "ended", !.tcp = FALSE,
                                                 !.sess = FALSE, !.done = TRUE]]
      BY <2>10 DEF PingFails, Stages
    <3> WITNESS [x EXCEPT !.pinger = "ended", !.tcp = FALSE, !.sess = FALSE, !.done = TRUE]
    <3> QED BY <3>1 DEF Connections, InCallback, Opening, HasSession
  <2>11. CASE Close(c)
    <3>1. x.at = "live" /\ x.host \in Hosts
          /\ conn' = [conn EXCEPT ![c] = [x EXCEPT !.tcp = FALSE, !.sess = FALSE, !.done = TRUE]]
      BY <2>11 DEF Close, At, Stages
    <3> WITNESS [x EXCEPT !.tcp = FALSE, !.sess = FALSE, !.done = TRUE]
    <3> QED BY <3>1 DEF Connections, InCallback, Opening, HasSession
  <2>12. CASE GivesUp(c)
    <3> WITNESS [x EXCEPT !.link = "reset"]
    <3> QED BY <2>12 DEF Connections, Stages, InCallback, Opening, HasSession, GivesUp
  <2>13. CASE Proceeds(c)
    <3>1. conn' = [conn EXCEPT ![c] = [x EXCEPT !.at = Follow(x), !.sess = TRUE]]
          /\ x.at \in {"session", "pty", "stdin", "stdout"}
      BY <2>13 DEF Proceeds
    <3>2. Follow(x) \in HasSession
      BY <3>1 DEF Follow, HasSession
    <3>3. x.tcp
      BY <3>1 DEF Stages, Opening, HasSession
    <3> WITNESS [x EXCEPT !.at = Follow(x), !.sess = TRUE]
    <3> QED BY <3>1, <3>2, <3>3 DEF Connections, Stages, InCallback, Opening, HasSession
  <2>14. CASE CloseSession(c)
    <3> WITNESS [x EXCEPT !.sess = FALSE, !.owed = @ \ {"sess"}]
    <3> QED BY <2>14 DEF Connections, Stages, InCallback, Opening, HasSession, CloseSession, At
  <2>15. CASE CloseClient(c)
    <3> WITNESS [x EXCEPT !.tcp = FALSE, !.sess = FALSE, !.owed = {}]
    <3> QED BY <2>15 DEF Connections, Stages, InCallback, Opening, HasSession, CloseClient, At
  <2>16. CASE Leaves(c)
    <3> WITNESS [x EXCEPT !.at = "over"]
    <3> QED BY <2>16 DEF Connections, Stages, InCallback, Opening, HasSession, Leaves, At, Goto
  <2> QED BY <2>1, <2>2, <2>3, <2>4, <2>5, <2>6, <2>7, <2>8, <2>9, <2>10, <2>11, <2>12,
             <2>13, <2>14, <2>15, <2>16
<1> PICK r : Fine(r)
  BY <1>2
<1>3. conn' \in [Conns -> Connections] /\ conn'[c] = r /\ conn'[c].at \notin InCallback
      /\ \A d \in Conns \ {c} : conn'[d] = conn[d]
  OBVIOUS
<1>4. TypeOK'
  <2>1. \A p \in Procs : lock[p] # None => lock[p] \in Conns \ {c}
    BY DEF TypeOK, InCallback
  <2> QED BY <1>1, <1>3, <2>1 DEF TypeOK, keyVars, fileVars
<1>5. Stages'
  BY <1>1, <1>3 DEF Stages, keyVars, TypeOK, InCallback
<1> QED BY <1>1, <1>3, <1>4, <1>5

\* One of the three steps that hold the lock or take it: all that changes of the
\* connection is where it is, and that it may be closed.
LEMMA CallbackInv ==
    ASSUME IInv, NEW c \in Conns, Lock(c) \/ Read(c) \/ Append(c) \/ AppendFails(c)
    PROVE  IInv'
<1> USE DEF IInv
<1> DEFINE x == conn[c]
           h == x.host
           p == Proc[c]
<1>1. x \in Connections /\ p \in Procs /\ conn \in [Conns -> Connections]
      /\ lock \in [Procs -> Conns \cup {None}]
  BY DialerAssumption DEF TypeOK
<1>2. h \in Hosts /\ x.offer \in Keys /\ ~x.waiter /\ x.pinger = "none" /\ x.tcp
  BY <1>1 DEF Lock, Read, Append, AppendFails, At, Stages, InCallback, Opening, Connections
<1>3. x.at \in InCallback => lock[p] = c
  BY DEF Stages
<1>4. UNCHANGED key
  BY DEF Lock, Read, Append, AppendFails
<1>5. known' \in [Hosts -> Keys \cup {None, Garbage}] /\ torn' \in Hosts \cup {None}
      /\ wrecked' \in BOOLEAN
  <2>1. CASE Lock(c) \/ Read(c)
    BY <2>1 DEF Lock, Read, fileVars, TypeOK
  <2>2. CASE Append(c)
    BY <2>2, <1>2 DEF Append, Glued, TypeOK
  <2>3. CASE AppendFails(c)
    BY <2>3, <1>2 DEF AppendFails, Glued, fileVars, TypeOK
  <2> QED BY <2>1, <2>2, <2>3
<1>6. \/ /\ x.at = "key" /\ lock[p] = None /\ lock' = [lock EXCEPT ![p] = c]
         /\ conn' = [conn EXCEPT ![c].at = "read"] /\ UNCHANGED accepted
      \/ /\ x.at = "read" /\ UNCHANGED <<lock, accepted>>
         /\ conn' = [conn EXCEPT ![c].at = "append"]
      \/ /\ x.at \in InCallback /\ lock' = [lock EXCEPT ![p] = None]
         /\ conn' = [conn EXCEPT ![c].at = "auth"]
         /\ accepted' = [accepted EXCEPT ![h] = @ \cup {x.offer}]
      \/ /\ x.at \in InCallback /\ lock' = [lock EXCEPT ![p] = None]
         /\ conn' = [conn EXCEPT ![c].at = "unwind", ![c].owed = {"client"}]
         /\ UNCHANGED accepted
  <2>1. CASE Lock(c)
    BY <2>1 DEF Lock, Goto, At, Free
  <2>2. CASE Read(c)
    BY <2>2 DEF Read, Accepts, Rejects, Unlock, Returns, Cleanup, HasSession, Goto, At, InCallback
  <2>3. CASE Append(c) \/ AppendFails(c)
    BY <2>3 DEF Append, AppendFails, Accepts, Rejects, Unlock, Returns, Cleanup, HasSession, Goto,
                At, InCallback
  <2> QED BY <2>1, <2>2, <2>3
<1>7. accepted' \in [Hosts -> SUBSET Keys]
  BY <1>2, <1>6 DEF TypeOK
<1>8. lock' \in [Procs -> Conns \cup {None}]
  BY <1>1, <1>6
<1> DEFINE Fine(r) ==
        /\ r \in Connections /\ conn' = [conn EXCEPT ![c] = r]
        /\ r.host = h /\ r.offer = x.offer /\ r.waiter = x.waiter /\ r.pinger = x.pinger
        /\ r.tcp /\ r.sess = x.sess
        /\ \/ r.at = "unwind" /\ r.owed = {"client"} /\ lock'[p] = None
           \/ r.at = "auth" /\ lock'[p] = None
           \/ r.at \in InCallback /\ lock'[p] = c
<1>9. \E r : Fine(r)
  <2>1. CASE conn' = [conn EXCEPT ![c].at = "unwind", ![c].owed = {"client"}]
    <3>1. conn'[c].at = "unwind"
      BY <2>1, <1>1 DEF Connections
    <3>2. lock' = [lock EXCEPT ![p] = None]
      BY <3>1, <1>1, <1>6 DEF Connections
    <3> DEFINE r == [x EXCEPT !.at = "unwind", !.owed = {"client"}]
    <3>3. r \in Connections /\ conn' = [conn EXCEPT ![c] = r] /\ lock'[p] = None
      BY <2>1, <3>2, <1>1 DEF Connections
    <3> WITNESS r
    <3> QED BY <3>3, <1>1, <1>2 DEF Connections
  <2>2. CASE conn' = [conn EXCEPT ![c].at = "auth"] /\ lock' = [lock EXCEPT ![p] = None]
    <3> WITNESS [x EXCEPT !.at = "auth"]
    <3> QED BY <2>2, <1>1, <1>2 DEF Connections
  <2>3. CASE conn' = [conn EXCEPT ![c].at = "read"] /\ lock' = [lock EXCEPT ![p] = c]
    <3> WITNESS [x EXCEPT !.at = "read"]
    <3> QED BY <2>3, <1>1, <1>2 DEF Connections, InCallback
  <2>4. CASE conn' = [conn EXCEPT ![c].at = "append"] /\ x.at = "read" /\ UNCHANGED lock
    <3> WITNESS [x EXCEPT !.at = "append"]
    <3> QED BY <2>4, <1>1, <1>2, <1>3 DEF Connections, InCallback
  <2> QED BY <1>6, <2>1, <2>2, <2>3, <2>4
<1>10. \A q \in Procs \ {p} : lock'[q] = lock[q]
  BY <1>1, <1>6
<1> PICK r : Fine(r)
  BY <1>9
<1>11. conn' \in [Conns -> Connections] /\ conn'[c] = r
       /\ \A d \in Conns \ {c} : conn'[d] = conn[d]
  BY <1>1
<1>12. \A q \in Procs \ {p} : lock[q] # c
  BY <1>1 DEF Stages
<1>13. TypeOK'
  <2>1. \A q \in Procs \ {p} : lock[q] # None => lock[q] \in Conns \ {c}
    BY <1>1, <1>12
  <2>2. \A q \in Procs : lock'[q] # None => conn'[lock'[q]].at \in {"read", "append"}
    <3> SUFFICES ASSUME NEW q \in Procs, lock'[q] # None
                 PROVE  conn'[lock'[q]].at \in {"read", "append"}
      OBVIOUS
    <3>1. CASE q = p
      BY <3>1, <1>11 DEF InCallback
    <3>2. CASE q # p
      BY <3>2, <2>1, <1>10, <1>11 DEF TypeOK
    <3> QED BY <3>1, <3>2
  <2> QED BY <1>4, <1>5, <1>7, <1>8, <1>11, <2>2 DEF TypeOK
<1>14. Stages'
  <2> SUFFICES ASSUME NEW d \in Conns
      PROVE  /\ conn'[d].at # "new" => conn'[d].host \in Hosts
             /\ conn'[d].at \in {"key"} \cup InCallback => conn'[d].offer \in Keys
             /\ conn'[d].at \in InCallback => lock'[Proc[d]] = d
             /\ conn'[d].at \in {"new", "dial", "over"} => ~conn'[d].tcp
             /\ conn'[d].at \in Opening => conn'[d].tcp
             /\ conn'[d].sess => conn'[d].tcp
             /\ conn'[d].at = "unwind" /\ conn'[d].tcp => "client" \in conn'[d].owed
             /\ conn'[d].waiter \/ conn'[d].pinger # "none" => conn'[d].at = "live"
             /\ \A q \in Procs : lock'[q] = d => Proc[d] = q
    BY DEF Stages
  <2>1. CASE d = c
    BY <2>1, <1>1, <1>2, <1>10, <1>11, <1>12 DEF InCallback
  <2>2. CASE d # c
    <3>1. conn'[d] = conn[d] /\ Proc[d] \in Procs
      BY <2>2, <1>11, DialerAssumption
    <3>2. lock'[Proc[d]] = d \/ conn[d].at \notin InCallback
      <4>1. CASE Proc[d] = p
        <5>1. x.at \in InCallback \/ lock[p] = None
          BY <1>6 DEF InCallback
        <5>2. d # None /\ c # None
          BY DialerAssumption
        <5>3. lock[p] # d
          BY <5>1, <5>2, <2>2, <1>3
        <5>4. conn[d].at \in InCallback => lock[Proc[d]] = d
          BY DEF Stages
        <5> QED BY <4>1, <5>3, <5>4
      <4>2. CASE Proc[d] # p
        BY <4>2, <3>1, <1>10 DEF Stages
      <4> QED BY <4>1, <4>2
    <3>3. \A q \in Procs : lock'[q] = d => Proc[d] = q
      BY <2>2, <1>10, DialerAssumption DEF Stages
    <3> QED BY <3>1, <3>2, <3>3 DEF Stages
  <2> QED BY <2>1, <2>2
<1> QED BY <1>13, <1>14

LEMMA StepInv == IInv /\ [Next]_vars => IInv'
<1> SUFFICES ASSUME IInv, [Next]_vars PROVE IInv'
  OBVIOUS
<1>1. CASE UNCHANGED vars
  BY <1>1 DEF vars, IInv, TypeOK, Stages
<1>2. ASSUME NEW h \in Hosts, NEW k \in Keys, Rekey(h, k) PROVE IInv'
  BY <1>2 DEF Rekey, keyVars, fileVars, IInv, TypeOK, Stages
<1> QED BY <1>1, <1>2, OutsideInv, CallbackInv DEF Next

LEMMA InvAlways == Spec => []IInv
<1>1. Init => IInv
  BY InitInv
<1> QED BY <1>1, StepInv, PTL DEF Spec

\* The callback keeps the file and what was accepted in step.  At first contact
\* nothing has been accepted yet, and the lock keeps everybody else out until
\* the line is written.
LEMMA PinStep ==
    ASSUME OneProcess, IInv, Pinned, NEW c \in Conns,
           Lock(c) \/ Read(c) \/ Append(c) \/ AppendFails(c)
    PROVE  Pinned'
<1> SUFFICES ASSUME ~wrecked'
    PROVE  /\ torn' = None
           /\ \A h \in Hosts : accepted'[h] \subseteq {known'[h]}
           /\ \A d \in Conns : conn'[d].at = "append" => known'[conn'[d].host] = None
  BY DEF Pinned
<1> USE DEF IInv
<1> DEFINE x == conn[c]
           h == x.host
<1>1. ~wrecked
  BY DEF Lock, Read, Append, AppendFails, fileVars
<1>2. /\ torn = None
      /\ \A g \in Hosts : accepted[g] \subseteq {known[g]}
      /\ \A d \in Conns : conn[d].at = "append" => known[conn[d].host] = None
  BY <1>1 DEF Pinned
<1>3. /\ h \in Hosts /\ x.offer \in Keys /\ conn \in [Conns -> Connections]
      /\ known \in [Hosts -> Keys \cup {None, Garbage}] /\ accepted \in [Hosts -> SUBSET Keys]
  BY DEF Lock, Read, Append, AppendFails, At, Stages, InCallback, TypeOK
<1>4. CASE Lock(c)
  <2>1. UNCHANGED <<known, torn, accepted>> /\ conn' = [conn EXCEPT ![c].at = "read"]
    BY <1>4 DEF Lock, Goto, fileVars
  <2>2. \A d \in Conns : conn'[d].at = "append" => conn'[d] = conn[d]
    BY <2>1, <1>3
  <2> QED BY <2>1, <2>2, <1>2
<1>5. CASE Read(c)
  <2>1. UNCHANGED <<known, torn>>
    BY <1>5 DEF Read, fileVars
  <2>2. CASE known[h] = x.offer /\ Accepts(c)
    <3>1. accepted' = [accepted EXCEPT ![h] = @ \cup {x.offer}]
          /\ conn' = [conn EXCEPT ![c].at = "auth"]
      BY <2>2 DEF Accepts, Goto
    <3>2. \A d \in Conns : conn'[d].at = "append" => conn'[d] = conn[d]
      BY <3>1, <1>3
    <3> QED BY <2>1, <2>2, <3>1, <3>2, <1>2, <1>3
  <2>3. CASE known[h] = None /\ Goto(c, "append") /\ UNCHANGED <<lock, accepted>>
    <3>1. conn' = [conn EXCEPT ![c].at = "append"]
      BY <2>3 DEF Goto
    <3>2. /\ \A d \in Conns \ {c} : conn'[d] = conn[d]
          /\ conn'[c].host = h
      BY <3>1, <1>3 DEF Connections
    <3> QED BY <2>1, <2>3, <3>2, <1>2
  <2>4. CASE Rejects(c)
    <3>1. UNCHANGED accepted /\ conn' = [conn EXCEPT ![c].at = "unwind", ![c].owed = Cleanup(conn[c].at)]
      BY <2>4 DEF Rejects, Returns
    <3>2. \A d \in Conns : conn'[d].at = "append" => conn'[d] = conn[d]
      BY <3>1, <1>3 DEF Connections
    <3> QED BY <2>1, <3>1, <3>2, <1>2
  <2> QED BY <1>5, <2>2, <2>3, <2>4 DEF Read
<1>6. CASE Append(c)
  <2>1. known' = [known EXCEPT ![h] = x.offer] /\ torn' = None
    BY <1>6, <1>2 DEF Append, Glued
  <2>2. accepted' = [accepted EXCEPT ![h] = @ \cup {x.offer}]
        /\ conn' = [conn EXCEPT ![c].at = "auth"]
    BY <1>6 DEF Append, Accepts, Goto
  <2>3. known[h] = None /\ accepted[h] = {}
    BY <1>6, <1>2, <1>3, DialerAssumption DEF Append, At
  <2>4. \A d \in Conns : conn'[d].at # "append"
    <3> SUFFICES ASSUME NEW d \in Conns, d # c PROVE conn[d].at # "append"
      BY <2>2, <1>3 DEF Connections
    <3>1. lock[Proc[c]] = c
      BY <1>6 DEF Append, At, Stages, InCallback
    <3>2. Proc[d] = Proc[c]
      BY DEF OneProcess
    <3> QED BY <3>1, <3>2 DEF Stages, InCallback
  <2> QED BY <2>1, <2>2, <2>3, <2>4, <1>2, <1>3
<1>7. CASE AppendFails(c)
  <2>1. UNCHANGED <<known, torn, accepted>>
        /\ conn' = [conn EXCEPT ![c].at = "unwind", ![c].owed = Cleanup(conn[c].at)]
    BY <1>7 DEF AppendFails, fileVars, Rejects, Returns
  <2>2. \A d \in Conns : conn'[d].at = "append" => conn'[d] = conn[d]
    BY <2>1, <1>3 DEF Connections
  <2> QED BY <2>1, <2>2, <1>2
<1> QED BY <1>4, <1>5, <1>6, <1>7

LEMMA PinInv == OneProcess /\ IInv /\ Pinned /\ [Next]_vars => Pinned'
<1> SUFFICES ASSUME OneProcess, IInv, Pinned, [Next]_vars PROVE Pinned'
  OBVIOUS
<1>1. ASSUME UNCHANGED keyVars,
             \A d \in Conns : conn'[d].at \in InCallback => conn'[d] = conn[d]
      PROVE  Pinned'
  BY <1>1 DEF Pinned, keyVars, fileVars, InCallback
<1>2. ASSUME NEW h \in Hosts, NEW k \in Keys, Rekey(h, k) PROVE Pinned'
  BY <1>1, <1>2 DEF Rekey
<1>3. CASE UNCHANGED vars
  BY <1>3 DEF vars, Pinned
<1> QED BY <1>1, <1>2, <1>3, OutsideInv, PinStep DEF Next

\* The state of the dialer is of its declared types, and keyMu is held by nobody
\* who has left the callback.
THEOREM TypeCorrect == Spec => []TypeOK
<1>1. IInv => TypeOK
  BY DEF IInv
<1> QED BY <1>1, InvAlways, PTL

\* A connection that is over has been closed, whichever of its steps failed.
THEOREM NothingEverLeft == Spec => []NothingLeft
<1>1. IInv => NothingLeft
  BY DEF IInv, Stages, NothingLeft, At
<1> QED BY <1>1, InvAlways, PTL

\* With one process on the data directory, and unless a write of the file failed
\* half way, a host is only ever accepted with the key it was first met with.
THEOREM FirstUseAlwaysPinned == OneProcess /\ Spec => []FirstUseIsPinned
<1>1. Pinned => FirstUseIsPinned
  BY DEF Pinned, FirstUseIsPinned
<1>2. ASSUME OneProcess PROVE Spec => []FirstUseIsPinned
  <2>1. Init => IInv /\ Pinned
    BY InitInv
  <2>2. (IInv /\ Pinned) /\ [Next]_vars => (IInv /\ Pinned)'
    BY <1>2, StepInv, PinInv
  <2> QED BY <1>1, <2>1, <2>2, PTL DEF Spec
<1> QED BY <1>2
-----------------------------------------------------------------------------
(* What a failed write can cost *)

\* Whoever is about to write a line has found none, whether or not a line has ever
\* been written in part.
FirstContact == \A c \in Conns : At(c, "append") => known[conn[c].host] = None

\* The key on file for a host is kept; only that of a line without an end may not be.
Keeps == \A h \in Hosts : known[h] # None /\ torn # h => known'[h] = known[h]

\* Only Append and AppendFails write, and they write for a host that has no line, or
\* behind the line without an end.
LEMMA WriteKeeps ==
    ASSUME OneProcess, IInv, FirstContact, NEW c \in Conns, Append(c) \/ AppendFails(c)
    PROVE  FirstContact' /\ Keeps
<1> USE DEF IInv
<1> DEFINE x == conn[c]
           h == x.host
<1>1. /\ x.at = "append" /\ h \in Hosts /\ conn \in [Conns -> Connections]
      /\ known \in [Hosts -> Keys \cup {None, Garbage}]
  BY DEF Append, AppendFails, At, Stages, TypeOK
<1>2. known[h] = None
  BY <1>1 DEF FirstContact, At
<1>3. \A d \in Conns \ {c} : conn[d].at # "append"
  <2> SUFFICES ASSUME NEW d \in Conns \ {c} PROVE conn[d].at # "append"
    OBVIOUS
  <2>1. lock[Proc[c]] = c /\ Proc[d] = Proc[c]
    BY <1>1 DEF Stages, InCallback, OneProcess
  <2> QED BY <2>1 DEF Stages, InCallback
<1>4. \/ conn' = [conn EXCEPT ![c].at = "auth"]
      \/ conn' = [conn EXCEPT ![c].at = "unwind", ![c].owed = Cleanup(conn[c].at)]
  BY DEF Append, AppendFails, Accepts, Rejects, Goto, Returns
<1>5. FirstContact'
  BY <1>1, <1>3, <1>4 DEF FirstContact, At, Connections
<1>6. \/ UNCHANGED known
      \/ torn = None /\ \E k : known' = [known EXCEPT ![h] = k]
      \/ torn # None /\ \E k : known' = [known EXCEPT ![torn] = k]
  BY DEF Append, AppendFails, Glued, fileVars
<1>7. Keeps
  BY <1>1, <1>2, <1>6 DEF Keeps
<1> QED BY <1>5, <1>7

\* The other steps write nothing, and Read goes on to the append only for a host
\* without a line.
LEMMA OthersKeep ==
    ASSUME IInv, FirstContact, [Next]_vars,
           ~ \E c \in Conns : Append(c) \/ AppendFails(c)
    PROVE  FirstContact' /\ Keeps
<1> USE DEF IInv
<1>1. ASSUME NEW c \in Conns, Lock(c) \/ Read(c) PROVE FirstContact' /\ Keeps
  <2>1. UNCHANGED <<known, torn>>
    BY <1>1 DEF Lock, Read, fileVars
  <2>2. conn \in [Conns -> Connections]
    BY DEF TypeOK
  <2>3. \/ conn' = [conn EXCEPT ![c].at = "append"] /\ known[conn[c].host] = None
        \/ \E a \in {"read", "auth"} : conn' = [conn EXCEPT ![c].at = a]
        \/ conn' = [conn EXCEPT ![c].at = "unwind", ![c].owed = Cleanup(conn[c].at)]
    BY <1>1 DEF Lock, Read, Accepts, Rejects, Goto, Returns
  <2>4. FirstContact'
    BY <2>1, <2>2, <2>3 DEF FirstContact, At, Connections
  <2> QED BY <2>1, <2>4 DEF Keeps
<1>2. ASSUME UNCHANGED keyVars,
             \A d \in Conns : conn'[d].at \in InCallback => conn'[d] = conn[d]
      PROVE  FirstContact' /\ Keeps
  BY <1>2 DEF FirstContact, Keeps, At, keyVars, fileVars, InCallback
<1>3. ASSUME NEW h \in Hosts, NEW k \in Keys, Rekey(h, k) PROVE FirstContact' /\ Keeps
  BY <1>2, <1>3 DEF Rekey
<1>4. CASE UNCHANGED vars
  BY <1>4 DEF vars, keyVars, fileVars, FirstContact, Keeps, At
<1> QED BY <1>1, <1>2, <1>3, <1>4, OutsideInv DEF Next

\* With one process on the data directory the key on file for a host is never
\* replaced and never lost, also when writes of the file fail half way: what may be
\* lost is the one line that was not finished, until the next write.
THEOREM KeysAreKept ==
    OneProcess /\ Spec =>
        [][\A h \in Hosts : known[h] # None /\ torn # h => known'[h] = known[h]]_vars
<1>1. ASSUME OneProcess PROVE Spec => [][Keeps]_vars
  <2>1. Init => IInv /\ FirstContact
    BY InitInv DEF Init, FirstContact, At
  <2>2. (IInv /\ FirstContact) /\ [Next]_vars => (IInv /\ FirstContact)'
    BY <1>1, StepInv, WriteKeeps, OthersKeep
  <2>3. (IInv /\ FirstContact) /\ [Next]_vars => Keeps
    BY <1>1, WriteKeeps, OthersKeep
  <2> QED BY <2>1, <2>2, <2>3, PTL DEF Spec
<1> QED BY <1>1 DEF Keeps
-----------------------------------------------------------------------------
(* How an open PTY ends *)

\* While it is open, a PTY that is not done has its connection and both of its
\* goroutines.
Watched ==
    \A c \in Conns : At(c, "live") /\ ~conn[c].done =>
        conn[c].tcp /\ conn[c].waiter /\ conn[c].pinger \in {"ticking", "asking"}

\* A goroutine ends after it has said so, and nobody closes the connection without.
LEMMA WatchedStep == IInv /\ Watched /\ [Next]_vars => Watched'
<1> SUFFICES ASSUME IInv, Watched, [Next]_vars PROVE Watched'
  OBVIOUS
<1> USE DEF IInv, Watched, At, InCallback
<1>1. conn \in [Conns -> Connections]
  BY DEF TypeOK
<1>2. CASE UNCHANGED conn
  BY <1>2
<1>3. ASSUME NEW c \in Conns, NEW r, conn' = [conn EXCEPT ![c] = r],
             r.at = "live" /\ ~r.done => r.tcp /\ r.waiter /\ r.pinger \in {"ticking", "asking"}
      PROVE  Watched'
  <2>1. conn'[c] = r /\ \A d \in Conns \ {c} : conn'[d] = conn[d]
    BY <1>1, <1>3
  <2> QED BY <1>3, <2>1
<1>4. ASSUME NEW c \in Conns, NEW o \in {"Open", "Run", "Verify"}, NEW h \in Hosts, Begin(c, o, h)
      PROVE  Watched'
  <2>1. conn' = [conn EXCEPT ![c] = [conn[c] EXCEPT !.at = "dial", !.op = o, !.host = h]]
    BY <1>1, <1>4 DEF Begin
  <2> QED BY <1>1, <1>3, <2>1 DEF Connections
<1>5. ASSUME NEW c \in Conns, NEW l \in {"hung", "cut", "reset"}, Fault(c, l)
      PROVE  Watched'
  <2>1. conn' = [conn EXCEPT ![c] = [conn[c] EXCEPT !.link = l]] /\ conn[c].at = "live"
    BY <1>1, <1>5 DEF Fault
  <2> QED BY <1>1, <1>3, <2>1 DEF Connections
<1>6. ASSUME NEW c \in Conns, NEW a \in {"key", "read", "append", "auth", "session", "unwind", "over"}
                                       \cup HasSession,
             NEW r, r.at = a, conn' = [conn EXCEPT ![c] = r]
      PROVE  Watched'
  BY <1>3, <1>6 DEF HasSession
<1>7. ASSUME NEW c \in Conns,
             \/ DialFails(c) \/ Connects(c) \/ Authenticates(c) \/ Proceeds(c) \/ Breaks(c)
             \/ Answered(c) \/ CloseSession(c) \/ CloseClient(c) \/ Leaves(c)
             \/ Lock(c) \/ Read(c) \/ Append(c) \/ AppendFails(c)
      PROVE  Watched'
  <2> DEFINE x == conn[c]
             A == {"key", "read", "append", "auth", "session", "unwind", "over"} \cup HasSession
  <2>1. x \in Connections
    BY <1>1
  <2>2. \E r : r.at \in A /\ conn' = [conn EXCEPT ![c] = r]
    <3>1. CASE \E a \in A : Goto(c, a)
      <4> PICK a \in A : Goto(c, a)
        BY <3>1
      <4> WITNESS [x EXCEPT !.at = a]
      <4> QED BY <2>1 DEF Goto, Connections
    <3>2. CASE Returns(c)
      <4> WITNESS [x EXCEPT !.at = "unwind", !.owed = Cleanup(x.at)]
      <4> QED BY <2>1, <3>2 DEF Returns, Connections
    <3>3. CASE Connects(c)
      <4> WITNESS [x EXCEPT !.at = "key", !.tcp = TRUE, !.offer = key[x.host]]
      <4> QED BY <2>1, <3>3 DEF Connects, Connections
    <3>4. CASE Proceeds(c)
      <4> WITNESS [x EXCEPT !.at = Follow(x), !.sess = TRUE]
      <4> QED BY <2>1, <3>4 DEF Proceeds, Follow, HasSession, Connections
    <3>5. CASE CloseSession(c)
      <4> WITNESS [x EXCEPT !.sess = FALSE, !.owed = @ \ {"sess"}]
      <4> QED BY <2>1, <3>5 DEF CloseSession, Connections
    <3>6. CASE CloseClient(c)
      <4> WITNESS [x EXCEPT !.tcp = FALSE, !.sess = FALSE, !.owed = {}]
      <4> QED BY <2>1, <3>6 DEF CloseClient, Connections
    <3>7. \/ Connects(c) \/ Proceeds(c) \/ CloseSession(c) \/ CloseClient(c) \/ Returns(c)
          \/ \E a \in A : Goto(c, a)
      BY <1>7 DEF DialFails, Authenticates, Breaks, Answered, Leaves, Lock, Read, Append,
                  AppendFails, Accepts, Rejects
    <3> QED BY <3>1, <3>2, <3>3, <3>4, <3>5, <3>6, <3>7
  <2> HIDE DEF x
  <2> QED BY <1>6, <2>2
<1>9. ASSUME NEW c \in Conns, Opened(c) PROVE Watched'
  <2>1. conn' = [conn EXCEPT ![c] = [conn[c] EXCEPT !.at = "live", !.waiter = TRUE,
                                                    !.pinger = "ticking"]] /\ conn[c].tcp
    BY <1>1, <1>9 DEF Opened, Stages, Opening, HasSession
  <2> QED BY <1>1, <1>3, <2>1 DEF Connections
<1>10. ASSUME NEW c \in Conns, Waited(c) \/ PingFails(c) \/ Close(c) PROVE Watched'
  <2>1. conn[c].at = "live"
    BY <1>10 DEF Waited, PingFails, Close, Stages
  <2>2. \/ conn' = [conn EXCEPT ![c] = [conn[c] EXCEPT !.waiter = FALSE, !.done = TRUE]]
        \/ conn' = [conn EXCEPT ![c] = [conn[c] EXCEPT !.pinger = "ended", !.tcp = FALSE,
                                                       !.sess = FALSE, !.done = TRUE]]
        \/ conn' = [conn EXCEPT ![c] = [conn[c] EXCEPT !.tcp = FALSE, !.sess = FALSE, !.done = TRUE]]
    BY <1>1, <1>10 DEF Waited, PingFails, Close
  <2>3. ASSUME NEW r, r.at = "live", r.done, conn' = [conn EXCEPT ![c] = r]
        PROVE  Watched'
    BY <1>3, <2>3
  <2> DEFINE r1 == [conn[c] EXCEPT !.waiter = FALSE, !.done = TRUE]
             r2 == [conn[c] EXCEPT !.pinger = "ended", !.tcp = FALSE,
                                                       !.sess = FALSE, !.done = TRUE]
             r3 == [conn[c] EXCEPT !.tcp = FALSE, !.sess = FALSE, !.done = TRUE]
  <2>4. r1.at = "live" /\ r1.done /\ r2.at = "live" /\ r2.done /\ r3.at = "live" /\ r3.done
    BY <1>1, <2>1 DEF Connections
  <2>5. conn' \in {[conn EXCEPT ![c] = r1], [conn EXCEPT ![c] = r2], [conn EXCEPT ![c] = r3]}
    BY <2>2
  <2> HIDE DEF r1, r2, r3
  <2> QED BY ONLY <2>3, <2>4, <2>5
<1>11. ASSUME NEW c \in Conns, Ping(c) \/ Pong(c) \/ GivesUp(c) PROVE Watched'
  <2>1. conn[c].at = "live"
    BY <1>11 DEF Ping, Pong, GivesUp, Stages
  <2>2. \/ conn' = [conn EXCEPT ![c] = [conn[c] EXCEPT !.pinger = "ticking"]]
        \/ conn' = [conn EXCEPT ![c] = [conn[c] EXCEPT !.pinger = "asking"]]
        \/ conn[c].done /\ conn' = [conn EXCEPT ![c] = [conn[c] EXCEPT !.pinger = "ended"]]
        \/ conn' = [conn EXCEPT ![c] = [conn[c] EXCEPT !.link = "reset"]]
    BY <1>1, <1>11 DEF Ping, Pong, GivesUp
  <2>3. ASSUME NEW q \in {"ticking", "asking", "ended"}, q = "ended" => conn[c].done,
               conn' = [conn EXCEPT ![c] = [conn[c] EXCEPT !.pinger = q]]
        PROVE  Watched'
    BY <1>1, <1>3, <2>1, <2>3 DEF Connections
  <2>4. ASSUME conn' = [conn EXCEPT ![c] = [conn[c] EXCEPT !.link = "reset"]]
        PROVE  Watched'
    BY <1>1, <1>3, <2>1, <2>4 DEF Connections
  <2> QED BY <2>2, <2>3, <2>4
<1> QED
  BY <1>2, <1>4, <1>5, <1>7, <1>9, <1>10, <1>11 DEF Next, Rekey, vars

\* A PTY that has lost its connection or one of its goroutines is done, whichever of
\* the waiter, the keepalive and Close was first: the pump of its session, which
\* waits for Done, is never left with a PTY that nobody watches.
THEOREM NoPTYIsAbandoned == Spec => []Watched
<1>1. Init => Watched
  BY DEF Init, Watched, At, InCallback
<1>2. (IInv /\ Watched) /\ [Next]_vars => Watched'
  BY WatchedStep
<1> QED BY <1>1, <1>2, InvAlways, PTL DEF Spec
=============================================================================
