-------------------------- MODULE InboundConn_proofs --------------------------
(* Proofs about InboundConn, for any sizes, any buffer of the queue and any    *)
(* number of requests, keys and streams.                                       *)
EXTENDS InboundConn, TLAPS

Start == {"none", "start", "enter"}
Busy == {"auto", "dial", "subscribe", "store", "push", "render", "paint", "loop", "send"}
Open == {"start", "enter", "restore", "close", "hangup"} \cup Busy
After == {"hangup", "unsub", "detach", "last", "final", "ended"}

\* The queue is closed by the first Close, and by closeOnce never again.
Queue == (shut <=> once) /\ (shut <=> at \in After) /\ ~crashed

\* The last size asked for waits at the end of the queue, or has been taken.
Latest ==
    ~dropped /\ Usable(last) /\ ~shut =>
        IF queue = <<>> THEN size = last ELSE queue[Len(queue)] = last

\* The channel is closed after the terminal has been restored.
Terminal ==
    /\ chan = "none" <=> at = "none"
    /\ chan = "open" <=> at \in Open
    /\ at \in Start => term = "normal"
    /\ at \in After \cup {"close"} /\ link # "lost" => term = "normal"

ConnInv == ConnTypes /\ Queue /\ Latest /\ Terminal

IInv == ConnInv /\ StreamTypes

LEMMA InitInv == Init => IInv
<1> SUFFICES ASSUME Init PROVE IInv
  OBVIOUS
<1>1. [rows |-> 0, cols |-> 0] \in Cuts /\ Default \in Cuts /\ ~Usable([rows |-> 0, cols |-> 0])
  BY InboundAssumption DEF Cuts, Usable
<1>2. <<>> \in Seq(Asked) /\ <<>> \in Seq(Cuts) /\ Len(<<>>) = 0
  BY SMT
<1>3. 0 \in 0..MaxAsks /\ 0 \in 0..MaxKeys /\ 0 <= Cap
  BY InboundAssumption
<1>4. ConnTypes
  BY <1>1, <1>2, <1>3 DEF Init, ConnTypes
<1>6. StreamTypes
  <2>1. 0 \in Actors
    BY InboundAssumption DEF Actors
  <2> QED BY <2>1 DEF Init, StreamTypes
<1>5. Queue /\ Latest /\ Terminal
  BY <1>1 DEF Init, Queue, Latest, Terminal, Start, Open, Busy, After
<1> QED BY <1>4, <1>5, <1>6 DEF IInv, ConnInv

\* A size is cut to one the window can have.
LEMMA CutFits == ASSUME NEW z \in Asked PROVE Cut(z) \in Cuts
<1>1. z.rows \in Nat /\ z.cols \in Nat /\ Width \in Nat /\ Width > 0
  BY InboundAssumption
<1>2. \A n \in Nat : n % Width \in 0..(Width - 1)
  BY <1>1
<1> QED BY <1>1, <1>2 DEF Cut, Cuts

\* The last element of a queue of at least two is the last of its tail.
LEMMA TailKeepsLast ==
    ASSUME NEW q \in Seq(Cuts), q # <<>>
    PROVE  /\ Tail(q) \in Seq(Cuts) /\ Len(Tail(q)) = Len(q) - 1 /\ Head(q) \in Cuts
           /\ Tail(q) = <<>> => Head(q) = q[Len(q)]
           /\ Tail(q) # <<>> => Tail(q)[Len(Tail(q))] = q[Len(q)]
<1>1. Len(q) \in Nat /\ Len(q) > 0
  BY SMT
<1>2. Tail(q) \in Seq(Cuts) /\ Len(Tail(q)) = Len(q) - 1 /\ Head(q) = q[1] /\ q[1] \in Cuts
  BY <1>1
<1>3. \A i \in 1..(Len(q) - 1) : Tail(q)[i] = q[i + 1]
  BY <1>1
<1>4. Tail(q) = <<>> <=> Len(Tail(q)) = 0
  BY <1>2
<1> QED BY <1>1, <1>2, <1>3, <1>4

\* Requests: the queue gets what was asked for, or says that it did not.
LEMMA ServiceInv == ConnInv /\ ServiceRequest => ConnInv'
<1> SUFFICES ASSUME ConnInv, ServiceRequest PROVE ConnInv'
  OBVIOUS
<1> USE DEF ConnInv, ConnTypes
<1>1. wire \in Seq(Asked) /\ wire # <<>> /\ Head(wire) \in Asked /\ Tail(wire) \in Seq(Asked)
  BY DEF ServiceRequest
<1> DEFINE z == Cut(Head(wire))
<1>2. z \in Cuts
  BY <1>1, CutFits
<1>3. /\ queue' = IF shut \/ Len(queue) = Cap THEN queue ELSE Append(queue, z)
      /\ dropped' = (Len(queue) = Cap) /\ last' = z /\ wire' = Tail(wire)
      /\ reader' \in {reader, "panicking"}
      /\ UNCHANGED <<serve, listening, cancelled, stopped, process, link, asks, term, conn, chan,
                     shut, once, crashed, at, size, attached, keys>>
  BY DEF ServiceRequest, PushResize, serverVars, handleVars
<1>4. Len(queue) \in Nat /\ Cap \in Nat
  BY InboundAssumption
<1>5. queue' \in Seq(Cuts) /\ Len(queue') <= Cap
  BY <1>2, <1>3, <1>4
<1>6. ConnTypes'
  BY <1>1, <1>2, <1>3, <1>5
<1>7. Latest'
  <2>1. CASE shut \/ Len(queue) = Cap
    BY <2>1, <1>3 DEF Latest
  <2>2. CASE ~shut /\ Len(queue) # Cap
    <3>1. queue' = Append(queue, z)
      BY <2>2, <1>3
    <3>2. queue' # <<>> /\ queue'[Len(queue')] = z
      BY <3>1, <1>2, <1>4
    <3> QED BY <3>2, <1>3 DEF Latest
  <2> QED BY <2>1, <2>2
<1>8. Queue' /\ Terminal'
  BY <1>3 DEF Queue, Terminal
<1> QED BY <1>6, <1>7, <1>8

\* Handle takes a size out of the queue: what was last of it stays last, or is
\* the size the interface has now.
LEMMA TakeInv == ConnInv /\ (Attach \/ TakeSize) => ConnInv'
<1> SUFFICES ASSUME ConnInv, Attach \/ TakeSize PROVE ConnInv'
  OBVIOUS
<1> USE DEF ConnInv, ConnTypes
<1>1. /\ \/ at = "start" /\ at' = "enter"
         \/ at = "loop" /\ at' = "render"
      /\ UNCHANGED <<serve, listening, cancelled, stopped, process, link, wire, asks, term, conn,
                     chan, reader, shut, once, crashed, keys, last, dropped>>
      /\ attached' \in BOOLEAN
  BY DEF Attach, TakeSize, Goto, outer, serverVars, connVars, clientVars
<1>2. \/ queue = <<>> /\ UNCHANGED <<queue, size>>
      \/ /\ queue # <<>> /\ queue' = Tail(queue) /\ size' \in {Head(queue), size}
         /\ Usable(Head(queue)) => size' = Head(queue)
  BY DEF Attach, FirstSize, TakeSize, Usable
<1>3. ConnTypes' /\ Latest'
  <2>1. CASE queue = <<>> /\ UNCHANGED <<queue, size>>
    BY <2>1, <1>1 DEF Latest
  <2>2. CASE /\ queue # <<>> /\ queue' = Tail(queue) /\ size' \in {Head(queue), size}
             /\ Usable(Head(queue)) => size' = Head(queue)
    <3>1. /\ queue' \in Seq(Cuts) /\ Len(queue') = Len(queue) - 1 /\ Head(queue) \in Cuts
          /\ queue' = <<>> => Head(queue) = queue[Len(queue)]
          /\ queue' # <<>> => queue'[Len(queue')] = queue[Len(queue)]
      BY <2>2, TailKeepsLast
    <3>2. Len(queue) \in Nat /\ Cap \in Nat
      BY InboundAssumption
    <3>3. ConnTypes'
      BY <2>2, <3>1, <3>2, <1>1
    <3>4. Latest'
      BY <2>2, <3>1, <1>1 DEF Latest
    <3> QED BY <3>3, <3>4
  <2> QED BY <1>2, <2>1, <2>2
<1>4. Queue' /\ Terminal'
  BY <1>1 DEF Queue, Terminal, Start, Open, Busy, After
<1> QED BY <1>3, <1>4

\* Handle goes on without touching the queue or the size.
LEMMA HandleInv ==
    ASSUME ConnInv, \/ EnterTerm \/ AutoAttach \/ DialReturns \/ HandleSubscribes \/ HandleStores
                    \/ Pushed \/ Render \/ Paint \/ TakeKey \/ KeySent \/ Redraw \/ Leave
                    \/ RestoreTerm \/ CloseQueue \/ CloseChannel \/ Unsubscribe \/ Detach
    PROVE  ConnInv'
<1> USE DEF ConnInv
<1>1. CASE \/ AutoAttach \/ DialReturns \/ HandleSubscribes \/ HandleStores \/ Pushed \/ Render
           \/ Paint \/ TakeKey \/ KeySent \/ Redraw \/ Leave
  <2>1. UNCHANGED <<outer, link, wire, asks, term, queueVars, size, attached>>
    BY <1>1 DEF AutoAttach, DialReturns, HandleSubscribes, HandleStores, Pushed, Render, Paint,
                TakeKey, KeySent, Redraw, Leave, clientVars
  <2>2. at \in Busy /\ at' \in Busy \cup {"restore"}
    BY <1>1 DEF AutoAttach, DialReturns, HandleSubscribes, HandleStores, Pushed, Render, Paint,
                TakeKey, KeySent, Redraw, Leave, Goto, Busy
  <2>3. keys' \in 0..MaxKeys
    <3>1. keys' \in {keys, keys - 1} /\ (keys' # keys => keys > 0)
      BY <1>1 DEF AutoAttach, DialReturns, HandleSubscribes, HandleStores, Pushed, Render, Paint,
                  TakeKey, KeySent, Redraw, Leave, clientVars
    <3>2. keys \in 0..MaxKeys /\ MaxKeys \in Nat
      BY InboundAssumption DEF ConnTypes
    <3> QED BY <3>1, <3>2
  <2>4. ConnTypes'
    BY <2>1, <2>2, <2>3 DEF ConnTypes, Busy, outer, serverVars, connVars, queueVars
  <2>5. Queue' /\ Latest'
    BY <2>1, <2>2 DEF Queue, Latest, Busy, After, queueVars
  <2>6. Terminal'
    BY <2>1, <2>2 DEF Terminal, Open, Busy, Start, After, outer, connVars
  <2> QED BY <2>4, <2>5, <2>6
<1>2. CASE EnterTerm \/ RestoreTerm
  <2>1. UNCHANGED <<outer, link, wire, asks, keys, queueVars, size, attached>>
    BY <1>2 DEF EnterTerm, RestoreTerm
  <2>2. \/ at = "enter" /\ at' = "auto" /\ term' \in {"alt", term}
        \/ /\ at = "restore" /\ at' = "close" /\ link # "stalled"
           /\ term' = IF link = "up" /\ chan = "open" THEN "normal" ELSE term
    BY <1>2 DEF EnterTerm, RestoreTerm, Restored, Goto, CanWrite
  <2>3. ConnTypes'
    BY <2>1, <2>2 DEF ConnTypes, outer, serverVars, connVars, queueVars
  <2>4. Queue' /\ Latest'
    BY <2>1, <2>2 DEF Queue, Latest, After, queueVars
  <2>5. Terminal'
    BY <2>1, <2>2 DEF Terminal, ConnTypes, Open, Busy, Start, After, outer, connVars
  <2> QED BY <2>3, <2>4, <2>5
<1>3. CASE CloseQueue
  <2>1. UNCHANGED <<outer, clientVars, queue, last, dropped, size, attached>>
    BY <1>3 DEF CloseQueue
  <2>2. \/ at = "close" /\ at' = "hangup"
        \/ at = "last" /\ at' = "final"
    BY <1>3 DEF CloseQueue, Goto
  <2>3. shut' /\ once' /\ ~crashed'
    \* The first Close finds the queue open, and the second leaves it alone.
    <3>1. CASE at = "close"
      <4>1. ~once /\ ~shut /\ ~crashed
        BY <3>1 DEF Queue, After
      <4> QED BY <4>1, <1>3 DEF CloseQueue, CloseOnce, CloseChan
    <3>2. CASE at = "last"
      <4>1. once /\ shut /\ ~crashed
        BY <3>2 DEF Queue, After
      <4> QED BY <4>1, <1>3 DEF CloseQueue, CloseOnce
    <3> QED BY <2>2, <3>1, <3>2
  <2>4. shut' \in BOOLEAN /\ once' \in BOOLEAN /\ crashed' \in BOOLEAN
    BY <1>3 DEF CloseQueue, CloseOnce, CloseChan, ConnTypes
  <2>5. ConnTypes'
    BY <2>1, <2>2, <2>4 DEF ConnTypes, outer, serverVars, clientVars, connVars
  <2>6. Queue' /\ Latest'
    BY <2>2, <2>3 DEF Queue, Latest, After
  <2>7. Terminal'
    BY <2>1, <2>2 DEF Terminal, Open, Busy, Start, After, outer, connVars, clientVars
  <2> QED BY <2>5, <2>6, <2>7
<1>4. CASE CloseChannel
  <2>1. UNCHANGED <<serverVars, clientVars, conn, reader, queueVars, size, attached>>
    BY <1>4 DEF CloseChannel
  <2>2. chan' = "closed" /\ \/ at = "hangup" /\ at' = "unsub"
                            \/ at = "final" /\ at' = "ended"
    BY <1>4 DEF CloseChannel, Goto
  <2>3. ConnTypes'
    BY <2>1, <2>2 DEF ConnTypes, serverVars, clientVars, queueVars
  <2>4. Queue' /\ Latest'
    BY <2>1, <2>2 DEF Queue, Latest, After, queueVars
  <2>5. Terminal'
    BY <2>1, <2>2 DEF Terminal, Open, Busy, Start, After, clientVars
  <2> QED BY <2>3, <2>4, <2>5
<1>5. CASE Unsubscribe \/ Detach
  <2>1. UNCHANGED <<outer, clientVars, queueVars, size>>
    BY <1>5 DEF Unsubscribe, Detach
  <2>2. /\ \/ at = "unsub" /\ at' = "detach"
           \/ at = "detach" /\ at' = "last"
        /\ attached' = attached \/ attached' = FALSE
    BY <1>5 DEF Unsubscribe, Detach, Goto
  <2>3. attached' \in BOOLEAN
    BY <2>2 DEF ConnTypes
  <2>4. ConnTypes'
    BY <2>1, <2>2, <2>3 DEF ConnTypes, outer, serverVars, connVars, clientVars, queueVars
  <2>5. Queue' /\ Latest'
    BY <2>1, <2>2 DEF Queue, Latest, After, queueVars
  <2>6. Terminal'
    BY <2>1, <2>2 DEF Terminal, Open, Busy, Start, After, outer, connVars, clientVars
  <2> QED BY <2>4, <2>5, <2>6
<1> QED BY <1>1, <1>2, <1>3, <1>4, <1>5

\* What the server, the connection and the client do beside Handle.
LEMMA OthersInv ==
    ASSUME ConnInv, \/ ServeNext \/ ConnNext \/ Panics \/ RequestsEnd \/ ClientNext
                    \/ \E i \in Streams : SessionEnds(i) \/ PumpNext(i) \/ PumpPushed(i)
    PROVE  ConnInv'
<1> USE DEF ConnInv, ConnTypes
<1>1. CASE Listen \/ Watch \/ Stop \/ Cancel \/ AcceptFails \/ Accept \/ Handshake \/ ConnEnds
  <2>1. UNCHANGED <<process, clientVars, chan, reader, queueVars, handleVars>>
    BY <1>1 DEF Listen, Watch, Stop, Cancel, AcceptFails, Accept, Handshake, ConnEnds,
                serverVars, inner, connVars
  <2>2. /\ serve' \in {"starting", "accepting", "returned"}
        /\ conn' \in {"none", "handshake", "ready", "closed"}
    BY <1>1 DEF Listen, Watch, Stop, Cancel, AcceptFails, Accept, Handshake, ConnEnds,
                serverVars, inner, connVars
  <2>3. listening' \in BOOLEAN /\ cancelled' \in BOOLEAN /\ stopped' \in BOOLEAN
    BY <1>1 DEF Listen, Watch, Stop, Cancel, AcceptFails, Accept, Handshake, ConnEnds, serverVars
  <2>4. ConnTypes'
    BY <2>1, <2>2, <2>3 DEF clientVars, queueVars, handleVars
  <2> QED BY <2>1, <2>4 DEF Queue, Latest, Terminal, clientVars, queueVars, handleVars
<1>2. CASE Exit \/ Stall
  <2>1. UNCHANGED <<serve, listening, cancelled, stopped, wire, asks, keys, term, connVars,
                    queueVars, handleVars>>
    BY <1>2 DEF Exit, Stall, outer, serverVars
  <2>2. /\ process' \in {"up", "exited"} /\ link' \in {"up", "stalled", "lost"}
        /\ link' # "lost" => link # "lost"
    BY <1>2 DEF Exit, Stall, outer, serverVars
  <2> QED BY <2>1, <2>2 DEF connVars, queueVars, handleVars, Queue, Latest, Terminal
<1>3. CASE RequestsEnd \/ Panics
  <2>1. /\ reader' \in {"serving", "ended"}
        /\ UNCHANGED <<serverVars, clientVars, conn, chan, queueVars, handleVars>>
    BY <1>3 DEF RequestsEnd, Panics, Recovers, queueVars
  <2> QED BY <2>1 DEF serverVars, clientVars, queueVars, handleVars, Queue, Latest, Terminal
<1>4. CASE AcceptChannel
  <2>1. at = "none" /\ term = "normal"
    BY <1>4 DEF AcceptChannel, Terminal, Start
  <2> QED
    BY <1>4, <2>1 DEF AcceptChannel, serverVars, clientVars, queueVars, Queue, Latest, Terminal,
                      Start, Open, Busy, After
<1>5. ASSUME NEW z \in Asked, Ask(z) PROVE ConnInv'
  <2>1. wire' \in Seq(Asked) /\ asks' \in 0..MaxAsks
    BY <1>5, InboundAssumption DEF Ask
  <2> QED BY <1>5, <2>1 DEF Ask, outer, serverVars, connVars, queueVars, handleVars,
                            Queue, Latest, Terminal
<1>6. CASE Type
  BY <1>6, InboundAssumption DEF Type, outer, serverVars, connVars, queueVars, handleVars,
                                 Queue, Latest, Terminal
<1>7. CASE HangUp
  <2>1. \A n \in 0..Len(wire) : SubSeq(wire, 1, n) \in Seq(Asked)
    BY SMT
  <2>2. wire' \in Seq(Asked)
    BY <1>7, <2>1 DEF HangUp
  <2> QED BY <1>7, <2>2 DEF HangUp, outer, serverVars, connVars, queueVars, handleVars,
                            Queue, Latest, Terminal
<1>8. ASSUME NEW i \in Streams, SessionEnds(i) \/ PumpNext(i) \/ PumpPushed(i) PROVE ConnInv'
  <2>1. UNCHANGED <<outer, clientVars, queueVars, handleVars>>
    BY <1>8 DEF SessionEnds, PumpNext, PumpReads, PumpMoves, PumpSubscribes, PumpStores, PumpPushed
  <2> QED BY <2>1 DEF outer, serverVars, connVars, clientVars, queueVars, handleVars,
                      Queue, Latest, Terminal
<1> QED
  BY <1>1, <1>2, <1>3, <1>4, <1>5, <1>6, <1>7, <1>8 DEF ServeNext, ConnNext, ClientNext

\* What a step does to the streams.
LEMMA StreamInv == StreamTypes /\ Next => StreamTypes'
<1> SUFFICES ASSUME StreamTypes, Next PROVE StreamTypes'
  OBVIOUS
<1> USE DEF StreamTypes
<1>1. overlapped' \in BOOLEAN
  BY DEF Next, Noted
<1>2. CASE UNCHANGED streamVars
  BY <1>1, <1>2 DEF streamVars
<1>3. ASSUME NEW a \in Actors, BeginSwitch(a)
      PROVE  /\ cancelSub' \in Actors /\ making' \in [Actors -> Actors]
             /\ sub' \in [Streams -> {"none", "wanted", "live", "stopped", "cancelled"}]
  <2>1. PICK i \in Streams : /\ making' = [making EXCEPT ![a] = i] /\ cancelSub' = 0
                             /\ sub' = [k \in Streams |->
                                          CASE k = i -> "wanted"
                                            [] k = cancelSub /\ sub[k] = "live" -> "cancelled"
                                            [] OTHER -> sub[k]]
    BY <1>3 DEF BeginSwitch
  <2>2. i \in Actors /\ 0 \in Actors
    BY InboundAssumption DEF Streams, Actors
  <2> QED BY <2>1, <2>2
<1>4. CASE AutoAttach \/ DialReturns \/ TakeKey
  <2>1. UNCHANGED streamVars \/ (BeginSwitch(0) /\ UNCHANGED pump)
    BY <1>4 DEF AutoAttach, DialReturns, TakeKey
  <2>2. 0 \in Actors
    BY InboundAssumption DEF Actors
  <2>3. CASE BeginSwitch(0) /\ UNCHANGED pump
    BY <1>1, <1>3, <2>2, <2>3
  <2> QED BY <1>2, <2>1, <2>3
<1>5. CASE HandleSubscribes \/ HandleStores \/ Pushed \/ Unsubscribe
  <2>1. 0 \in Actors
    BY InboundAssumption DEF Actors
  <2>2. CASE HandleSubscribes
    BY <2>2, <1>1 DEF HandleSubscribes, Subscribe
  <2>3. CASE HandleStores
    BY <2>1, <2>3, <1>1 DEF HandleStores, Store
  <2>4. CASE Pushed
    BY <2>1, <2>4, <1>1 DEF Pushed
  <2>5. CASE Unsubscribe
    BY <2>1, <2>5, <1>1 DEF Unsubscribe, StopSub, Stopped
  <2> QED BY <1>5, <2>2, <2>3, <2>4, <2>5
<1>6. ASSUME NEW i \in Streams, SessionEnds(i) \/ PumpNext(i) \/ PumpPushed(i) PROVE StreamTypes'
  <2>1. i \in Actors /\ 0 \in Actors
    BY InboundAssumption DEF Streams, Actors
  <2>2. CASE SessionEnds(i)
    BY <2>2, <1>1 DEF SessionEnds
  <2>3. CASE PumpReads(i)
    BY <2>3, <1>1 DEF PumpReads, PumpAt
  <2>4. CASE PumpMoves(i)
    <3>1. pump' \in [Streams -> {"none", "reading", "told", "subscribe", "store", "push", "ended"}]
      BY <2>4 DEF PumpMoves, PumpAt
    <3>2. BeginSwitch(i) \/ UNCHANGED <<cancelSub, sub, making>>
      BY <2>4 DEF PumpMoves
    <3> QED BY <3>1, <3>2, <2>1, <1>1, <1>3
  <2>5. CASE PumpSubscribes(i)
    BY <2>5, <1>1 DEF PumpSubscribes, PumpAt, Subscribe
  <2>6. CASE PumpStores(i)
    BY <2>1, <2>6, <1>1 DEF PumpStores, PumpAt, Store
  <2>7. CASE PumpPushed(i)
    BY <2>1, <2>7, <1>1 DEF PumpPushed
  <2> QED BY <1>6, <2>2, <2>3, <2>4, <2>5, <2>6, <2>7 DEF PumpNext
<1>7. CASE ServeNext \/ ConnNext \/ ReaderNext \/ ClientNext
  BY <1>2, <1>7 DEF ServeNext, ConnNext, ReaderNext, ClientNext, Listen, Watch, Stop, Cancel,
                    AcceptFails, Accept, Exit, Handshake, AcceptChannel, ConnEnds, ServiceRequest,
                    Panics, RequestsEnd, Type, Stall, HangUp, Ask, inner
<1>8. CASE \/ Attach \/ EnterTerm \/ Render \/ Paint \/ KeySent \/ TakeSize \/ Redraw \/ Leave
           \/ RestoreTerm \/ CloseQueue \/ CloseChannel \/ Detach
  BY <1>2, <1>8 DEF Attach, EnterTerm, Render, Paint, KeySent, TakeSize, Redraw, Leave, RestoreTerm,
                    CloseQueue, CloseChannel, Detach
<1> QED
  BY <1>4, <1>5, <1>6, <1>7, <1>8 DEF Next, HandleNext, HostNext

LEMMA StepInv == IInv /\ [Next]_vars => IInv'
<1> SUFFICES ASSUME IInv, [Next]_vars PROVE IInv'
  OBVIOUS
<1>1. CASE UNCHANGED vars
  BY <1>1 DEF vars, serverVars, clientVars, connVars, queueVars, handleVars, streamVars,
              IInv, ConnInv, ConnTypes, StreamTypes, Queue, Latest, Terminal
<1>2. CASE Next
  <2>1. ConnInv'
    BY <1>2, ServiceInv, TakeInv, HandleInv, OthersInv DEF Next, ReaderNext, HandleNext, HostNext, IInv
  <2>2. StreamTypes'
    BY <1>2, StreamInv DEF IInv
  <2> QED BY <2>1, <2>2 DEF IInv
<1> QED BY <1>1, <1>2

LEMMA InvAlways == Spec => []IInv
BY InitInv, StepInv, PTL DEF Spec

\* The state of a connection is of its declared types: in particular the queue
\* never holds more than its buffer, and every size in it fits in 16 bits.
THEOREM TypeCorrect == Spec => []TypeOK
<1>1. IInv => TypeOK
  BY DEF IInv, ConnInv, TypeOK
<1> QED BY <1>1, InvAlways, PTL

\* No Close, of which every connection gets two, and no push to the closed queue
\* ever brings the server down.
THEOREM NeverPanics == Spec => []NoPanic
<1>1. IInv => NoPanic
  BY DEF IInv, ConnInv, Queue, NoPanic
<1> QED BY <1>1, InvAlways, PTL

\* An interface that has caught up draws at the last size its client asked for.
THEOREM SizeAlwaysCurrent == Spec => []SizeIsCurrent
<1>1. IInv => SizeIsCurrent
  BY DEF IInv, ConnInv, Latest, Queue, After, SizeIsCurrent
<1> QED BY <1>1, InvAlways, PTL

\* A channel the server closes leaves its client out of the alternate screen.
THEOREM TerminalAlwaysRestored == Spec => []TerminalRestored
<1>1. IInv => TerminalRestored
  BY DEF IInv, ConnInv, ConnTypes, Terminal, Start, Open, Busy, After, TerminalRestored
<1> QED BY <1>1, InvAlways, PTL
-----------------------------------------------------------------------------
(* What Handle leaves of its streams *)

\* A stream is made by one actor, and its pump starts when that is done with it.
Fresh ==
    /\ \A i \in Streams : sub[i] = "none" => pump[i] = "none"
    /\ \A a \in Actors : making[a] # 0 => sub[making[a]] # "none" /\ pump[making[a]] = "none"
    /\ \A a, b \in Actors : a # b /\ making[a] # 0 => making[a] # making[b]

\* As long as no two switches have overlapped, a stream that lives is the one that
\* cancelSub cancels, or the actor that has just subscribed has it in hand; and while
\* somebody is switching, or once Handle has left, there is nothing to cancel.
Held(i) ==
    \/ cancelSub = i
    \/ at = "store" /\ making[0] = i
    \/ \E k \in Streams : pump[k] = "store" /\ making[k] = i

Kept ==
    /\ \A i \in Streams : sub[i] = "live" => Held(i)
    /\ Left \/ at \in {"subscribe", "store"} \/ Moving # {} => cancelSub = 0

Owned == ~overlapped => ~Overlap /\ Kept

\* What an actor's switch does to the streams, up to its Subscribe.
LEMMA BeginEffect ==
    ASSUME StreamTypes, NEW a \in Actors, BeginSwitch(a)
    PROVE  \E i \in Streams :
              /\ sub[i] = "none" /\ making' = [making EXCEPT ![a] = i] /\ cancelSub' = 0
              /\ sub'[i] = "wanted"
              /\ \A k \in Streams \ {i} : sub'[k] \in {sub[k], "cancelled"}
              /\ \A k \in Streams \ {i} : sub'[k] = "live" => sub[k] = "live" /\ k # cancelSub
              /\ \A k \in Streams \ {i} : sub[k] # "none" => sub'[k] # "none"
<1>1. PICK i \in Streams : /\ sub[i] = "none" /\ making' = [making EXCEPT ![a] = i] /\ cancelSub' = 0
                           /\ sub' = [k \in Streams |->
                                        CASE k = i -> "wanted"
                                          [] k = cancelSub /\ sub[k] = "live" -> "cancelled"
                                          [] OTHER -> sub[k]]
  BY DEF BeginSwitch
<1>2. sub'[i] = "wanted"
  BY <1>1
<1>3. \A k \in Streams \ {i} :
         sub'[k] = IF k = cancelSub /\ sub[k] = "live" THEN "cancelled" ELSE sub[k]
  BY <1>1
<1> QED BY <1>1, <1>2, <1>3

LEMMA FreshStep == StreamTypes /\ Fresh /\ Next => Fresh'
<1> SUFFICES ASSUME StreamTypes, Fresh, Next PROVE Fresh'
  OBVIOUS
<1> USE DEF Fresh
<1>1. 0 \notin Streams /\ 0 \in Actors /\ Streams \subseteq Actors /\ Actors = Streams \cup {0}
  BY InboundAssumption DEF Streams, Actors
<1>2. CASE UNCHANGED streamVars
  BY <1>2 DEF streamVars
<1>3. ASSUME NEW a \in Actors, BeginSwitch(a), UNCHANGED pump PROVE Fresh'
  <2>1. PICK i \in Streams :
              /\ sub[i] = "none" /\ making' = [making EXCEPT ![a] = i]
              /\ sub'[i] = "wanted"
              /\ \A k \in Streams \ {i} : sub'[k] \in {sub[k], "cancelled"}
              /\ \A k \in Streams \ {i} : sub[k] # "none" => sub'[k] # "none"
    BY <1>3, BeginEffect
  <2>2. /\ making'[a] = i /\ \A b \in Actors \ {a} : making'[b] = making[b] /\ making[b] # i
        /\ \A b \in Actors : making[b] # 0 => making[b] \in Streams
    BY <1>1, <2>1 DEF StreamTypes
  <2>3. i # 0
    BY <1>1
  <2> QED BY <1>3, <2>1, <2>2, <2>3
<1>4. ASSUME NEW i \in Streams, BeginSwitch(i), PumpAt(i, "told", "subscribe") PROVE Fresh'
  <2>1. PICK k \in Streams :
              /\ sub[k] = "none" /\ making' = [making EXCEPT ![i] = k]
              /\ sub'[k] = "wanted"
              /\ \A m \in Streams \ {k} : sub'[m] \in {sub[m], "cancelled"}
              /\ \A m \in Streams \ {k} : sub[m] # "none" => sub'[m] # "none"
    BY <1>1, <1>4, BeginEffect
  <2>2. /\ making'[i] = k /\ \A b \in Actors \ {i} : making'[b] = making[b] /\ making[b] # k
        /\ \A b \in Actors : making[b] # 0 => making[b] \in Streams
    BY <1>1, <2>1 DEF StreamTypes
  <2>3. k # 0 /\ k # i /\ \A m \in Streams : pump[m] = "none" => pump'[m] = "none"
    BY <1>1, <1>4, <2>1 DEF PumpAt, StreamTypes
  <2> QED BY <2>1, <2>2, <2>3
\* A pump that goes on has been started.
<1>5. ASSUME NEW i \in Streams, NEW q, pump[i] # "none", pump' = [pump EXCEPT ![i] = q],
             UNCHANGED making, \A k \in Streams : sub'[k] = "none" <=> sub[k] = "none"
      PROVE  Fresh'
  <2>1. sub[i] # "none" /\ \A m \in Streams \ {i} : pump'[m] = pump[m]
    BY <1>5 DEF StreamTypes
  <2>2. \A a \in Actors : making[a] # 0 => making[a] \in Streams \ {i}
    BY <1>1, <1>5 DEF StreamTypes
  <2> QED BY <1>5, <2>1, <2>2
<1>6. ASSUME NEW a \in Actors, Subscribe(a) PROVE \A k \in Streams : sub'[k] = "none" <=> sub[k] = "none" 
  <2>1. PICK q \in {"live", "stopped"} : sub' = [sub EXCEPT ![making[a]] = q]
    BY <1>6 DEF Subscribe
  <2> QED BY <2>1, <1>1 DEF StreamTypes
<1>7. ASSUME NEW a \in Actors, NEW q, making' = [making EXCEPT ![a] = 0], UNCHANGED sub,
             a # 0 => pump[a] # "none",
             \A k \in Streams : pump'[k] # pump[k] => k = a \/ k = making[a]
      PROVE  Fresh'
  <2>1. \A k \in Streams : sub[k] = "none" => pump'[k] = "none"
    BY <1>7, <1>1 DEF StreamTypes
  <2>2. \A b \in Actors : making'[b] # 0 => b # a /\ making'[b] = making[b]
    BY <1>7 DEF StreamTypes
  <2>3. \A b \in Actors : making'[b] # 0 =>
            making[b] \in Streams /\ making[b] # making[a] /\ pump[making[b]] = "none"
    BY <2>2, <1>1 DEF StreamTypes
  <2>4. \A b \in Actors : making'[b] # 0 => pump'[making[b]] = "none"
    BY <2>3, <1>7, <1>1
  <2> QED BY <1>7, <2>1, <2>2, <2>3, <2>4
<1>8. CASE \/ AutoAttach \/ DialReturns \/ TakeKey
  <2>1. UNCHANGED streamVars \/ (BeginSwitch(0) /\ UNCHANGED pump)
    BY <1>8 DEF AutoAttach, DialReturns, TakeKey
  <2> QED BY <1>1, <1>2, <1>3, <2>1
<1>9. CASE HandleSubscribes \/ HandleStores \/ Unsubscribe
  <2>1. UNCHANGED <<pump, making>> /\ \A k \in Streams : sub'[k] = "none" <=> sub[k] = "none"
    BY <1>1, <1>6, <1>9 DEF HandleSubscribes, HandleStores, Unsubscribe, StopSub, Stopped, StreamTypes
  <2> QED BY <1>1, <2>1 DEF StreamTypes
<1>10. CASE Pushed
  <2>1. /\ making' = [making EXCEPT ![0] = 0] /\ UNCHANGED sub
        /\ \A k \in Streams : pump'[k] # pump[k] => k = making[0]
    BY <1>10 DEF Pushed, StreamTypes
  <2> QED BY <1>1, <1>7, <2>1
<1>11. ASSUME NEW i \in Streams, SessionEnds(i) \/ PumpNext(i) \/ PumpPushed(i) PROVE Fresh'
  <2>1. CASE SessionEnds(i)
    BY <1>1, <2>1 DEF SessionEnds, StreamTypes
  <2>2. CASE PumpReads(i) \/ PumpSubscribes(i) \/ PumpStores(i)
    <3>1. UNCHANGED making /\ \A k \in Streams : sub'[k] = "none" <=> sub[k] = "none"
      BY <1>1, <1>6, <2>2 DEF PumpReads, PumpSubscribes, PumpStores
    <3>2. pump[i] # "none" /\ \E q : pump' = [pump EXCEPT ![i] = q]
      BY <2>2 DEF PumpReads, PumpSubscribes, PumpStores, PumpAt
    <3> QED BY <1>5, <3>1, <3>2
  <2>3. CASE PumpMoves(i)
    <3>1. CASE PumpAt(i, "told", "subscribe") /\ BeginSwitch(i)
      BY <1>4, <3>1
    <3>2. CASE PumpAt(i, "told", "ended") /\ UNCHANGED <<cancelSub, sub, making>>
      BY <1>5, <3>2 DEF PumpAt
    <3> QED BY <2>3, <3>1, <3>2 DEF PumpMoves
  <2>4. CASE PumpPushed(i)
    <3>1. /\ making' = [making EXCEPT ![i] = 0] /\ UNCHANGED sub /\ pump[i] # "none"
          /\ \A k \in Streams : pump'[k] # pump[k] => k = i \/ k = making[i]
      BY <2>4 DEF PumpPushed, StreamTypes
    <3> QED BY <1>1, <1>7, <3>1
  <2> QED BY <1>11, <2>1, <2>2, <2>3, <2>4 DEF PumpNext
<1>12. CASE ServeNext \/ ConnNext \/ ReaderNext \/ ClientNext
  BY <1>2, <1>12 DEF ServeNext, ConnNext, ReaderNext, ClientNext, Listen, Watch, Stop, Cancel,
                     AcceptFails, Accept, Exit, Handshake, AcceptChannel, ConnEnds, ServiceRequest,
                     Panics, RequestsEnd, Type, Stall, HangUp, Ask, inner
<1>13. CASE \/ Attach \/ EnterTerm \/ Render \/ Paint \/ KeySent \/ TakeSize \/ Redraw \/ Leave
            \/ RestoreTerm \/ CloseQueue \/ CloseChannel \/ Detach
  BY <1>2, <1>13 DEF Attach, EnterTerm, Render, Paint, KeySent, TakeSize, Redraw, Leave, RestoreTerm,
                     CloseQueue, CloseChannel, Detach
<1> QED
  BY <1>8, <1>9, <1>10, <1>11, <1>12, <1>13 DEF Next, HandleNext, HostNext

\* One switch at a time: what it stores is what it has subscribed to, and there was
\* nothing in cancelSub before.
LEMMA OwnedStep == IInv /\ Fresh /\ Owned /\ Next => Owned'
<1> SUFFICES ASSUME IInv, Fresh, Owned, Next, ~overlapped' PROVE Owned'
  BY DEF Owned
<1>1. ~overlapped /\ ~Overlap' /\ StreamTypes
  BY DEF Next, Noted, IInv
<1>2. /\ ~Overlap
      /\ \A i \in Streams : sub[i] = "live" => Held(i)
      /\ Left \/ at \in {"subscribe", "store"} \/ Moving # {} => cancelSub = 0
  BY <1>1 DEF Owned, Kept
<1>3. 0 \notin Streams /\ 0 \in Actors /\ Streams \subseteq Actors
  BY InboundAssumption DEF Streams, Actors
<1> SUFFICES Kept'
  BY <1>1 DEF Owned
<1> USE DEF Kept
\* Handle goes on outside a switch.
<1>4. ASSUME UNCHANGED <<cancelSub, sub, making, pump>>, at # "store",
             Left' \/ at' \in {"subscribe", "store"} => Left \/ at \in {"subscribe", "store"}
      PROVE  Kept'
  BY <1>2, <1>4 DEF Held, Moving
\* It starts a switch: a pump that had a stream in hand would overlap with it.
<1>5. ASSUME BeginSwitch(0), UNCHANGED pump, at # "store", at' = "subscribe" PROVE Kept'
  <2>1. /\ cancelSub' = 0
        /\ \A k \in Streams : sub'[k] = "live" => sub[k] = "live" /\ k # cancelSub
    BY <1>1, <1>3, <1>5, BeginEffect
  <2>2. Moving = {} /\ \A k \in Streams : pump[k] # "store"
    BY <1>1, <1>5 DEF Overlap, Moving
  <2>3. \A k \in Streams : sub'[k] # "live"
    BY <1>2, <1>5, <2>1, <2>2 DEF Held
  <2> QED BY <2>1, <2>3
<1>6. CASE HandleSubscribes
  <2>1. /\ at = "subscribe" /\ at' = "store" /\ UNCHANGED <<cancelSub, pump, making>>
        /\ \E q \in {"live", "stopped"} : sub' = [sub EXCEPT ![making[0]] = q]
    BY <1>6 DEF HandleSubscribes, Goto, Subscribe
  <2>2. \A i \in Streams : sub'[i] = "live" => i = making[0] \/ sub[i] = "live"
    BY <1>1, <2>1 DEF StreamTypes
  <2> QED BY <1>2, <2>1, <2>2 DEF Held
<1>7. CASE HandleStores
  <2>1. at = "store" /\ at' = "push" /\ cancelSub' = making[0] /\ UNCHANGED <<sub, pump, making>>
    BY <1>7 DEF HandleStores, Goto, Store
  <2>2. Moving = {} /\ Moving' = {} /\ \A k \in Streams : pump[k] # "store"
    BY <1>2, <2>1 DEF Overlap, Moving
  <2>3. cancelSub = 0
    BY <1>2, <2>1
  <2> QED BY <1>2, <1>3, <2>1, <2>2, <2>3 DEF Held, Left
<1>8. CASE Pushed
  <2>1. /\ at = "push" /\ at' = "paint" /\ UNCHANGED <<cancelSub, sub>>
        /\ making' = [making EXCEPT ![0] = 0]
        /\ pump' = IF making[0] = 0 THEN pump ELSE [pump EXCEPT ![making[0]] = "reading"]
    BY <1>8 DEF Pushed, Goto
  <2>2. \A k \in Streams : making'[k] = making[k]
    BY <1>1, <1>3, <2>1 DEF StreamTypes
  <2>3. \A k \in Streams : pump'[k] = pump[k] \/ (pump[k] = "none" /\ pump'[k] = "reading")
    BY <1>1, <1>3, <2>1 DEF Fresh, StreamTypes
  <2>4. \A k \in Streams : pump'[k] = "store" <=> pump[k] = "store"
    BY <2>3
  <2>5. Moving' = Moving
    BY <2>3 DEF Moving
  <2> QED BY <1>2, <2>1, <2>2, <2>4, <2>5 DEF Held, Left
<1>9. CASE Unsubscribe
  <2>1. /\ at = "unsub" /\ at' = "detach" /\ cancelSub' = 0 /\ UNCHANGED <<pump, making>>
        /\ sub' = IF cancelSub = 0 THEN sub ELSE [sub EXCEPT ![cancelSub] = IF @ = "live" THEN "cancelled" ELSE @]
    BY <1>9 DEF Unsubscribe, StopSub, Stopped, Goto
  <2>2. Moving = {} /\ \A k \in Streams : pump[k] # "store"
    BY <1>1, <2>1 DEF Overlap, Moving, Left
  <2>3. \A i \in Streams : sub[i] = "live" => i = cancelSub
    BY <1>2, <2>1, <2>2 DEF Held
  <2>4. \A i \in Streams : sub'[i] # "live"
    BY <1>1, <1>3, <2>1, <2>3 DEF StreamTypes
  <2> QED BY <2>1, <2>4
\* The pumps.
<1>10. ASSUME NEW i \in Streams, SessionEnds(i) \/ PumpNext(i) \/ PumpPushed(i) PROVE Kept'
  <2>1. UNCHANGED at
    BY <1>10 DEF SessionEnds, PumpNext, PumpReads, PumpMoves, PumpSubscribes, PumpStores, PumpPushed,
                 handleVars
  <2>2. ASSUME NEW q, q \notin {"subscribe", "store"}, pump[i] # "store",
               pump' = [pump EXCEPT ![i] = q], UNCHANGED <<cancelSub, sub, making>>
        PROVE  Kept'
    <3>1. /\ \A k \in Streams : pump'[k] = "store" <=> pump[k] = "store"
          /\ \A k \in Streams : pump'[k] \in {"subscribe", "store"} => pump[k] \in {"subscribe", "store"}
      BY <1>1, <2>2 DEF StreamTypes
    <3>2. Moving' \subseteq Moving
      BY <3>1 DEF Moving
    <3> QED BY <1>2, <2>1, <2>2, <3>1, <3>2 DEF Held, Left
  <2>3. CASE SessionEnds(i)
    <3>1. /\ UNCHANGED <<cancelSub, pump, making>>
          /\ \A k \in Streams : sub'[k] = "live" => sub[k] = "live"
      BY <1>1, <2>3 DEF SessionEnds, StreamTypes
    <3> QED BY <1>2, <2>1, <3>1 DEF Held, Left, Moving
  <2>4. CASE PumpReads(i)
    BY <2>2, <2>4 DEF PumpReads, PumpAt
  <2>5. CASE PumpMoves(i)
    <3>1. CASE PumpAt(i, "told", "subscribe") /\ BeginSwitch(i)
      <4>1. /\ cancelSub' = 0
            /\ \A k \in Streams : sub'[k] = "live" => sub[k] = "live" /\ k # cancelSub
        BY <1>1, <1>3, <3>1, BeginEffect
      <4>2. pump'[i] = "subscribe" /\ pump[i] = "told" /\ \A k \in Streams \ {i} : pump'[k] = pump[k]
        BY <1>1, <3>1 DEF PumpAt, StreamTypes
      <4>3. at # "store" /\ \A k \in Streams : pump[k] # "store"
        BY <1>1, <2>1, <4>2 DEF Overlap, Moving
      <4>4. \A k \in Streams : sub'[k] # "live"
        BY <1>2, <4>1, <4>3 DEF Held
      <4> QED BY <4>1, <4>4
    <3>2. CASE PumpAt(i, "told", "ended") /\ UNCHANGED <<cancelSub, sub, making>>
      BY <2>2, <3>2 DEF PumpAt
    <3> QED BY <2>5, <3>1, <3>2 DEF PumpMoves
  <2>6. CASE PumpSubscribes(i)
    <3>1. /\ pump[i] = "subscribe" /\ pump' = [pump EXCEPT ![i] = "store"]
          /\ UNCHANGED <<cancelSub, making>>
          /\ \E q \in {"live", "stopped"} : sub' = [sub EXCEPT ![making[i]] = q]
      BY <2>6 DEF PumpSubscribes, PumpAt, Subscribe
    <3>2. /\ pump'[i] = "store" /\ \A k \in Streams \ {i} : pump'[k] = pump[k]
          /\ \A k \in Streams : sub'[k] = "live" => k = making[i] \/ sub[k] = "live"
      BY <1>1, <3>1 DEF StreamTypes
    <3>3. cancelSub = 0
      BY <1>2, <3>1 DEF Moving
    <3> QED BY <1>2, <2>1, <3>1, <3>2, <3>3 DEF Held
  <2>7. CASE PumpStores(i)
    <3>1. /\ pump[i] = "store" /\ pump' = [pump EXCEPT ![i] = "push"]
          /\ cancelSub' = making[i] /\ UNCHANGED <<sub, making>>
      BY <2>7 DEF PumpStores, PumpAt, Store
    <3>2. /\ cancelSub = 0 /\ ~Left /\ at \notin {"subscribe", "store"}
          /\ \A k \in Streams \ {i} : pump[k] \notin {"subscribe", "store"}
      BY <1>2, <3>1 DEF Overlap, Moving
    <3>3. pump'[i] = "push" /\ \A k \in Streams \ {i} : pump'[k] = pump[k]
      BY <1>1, <3>1 DEF StreamTypes
    <3>4. Moving' = {}
      BY <3>2, <3>3 DEF Moving
    <3>5. \A k \in Streams : sub[k] = "live" => making[i] = k
      BY <1>2, <1>3, <3>2 DEF Held
    <3> QED BY <2>1, <3>1, <3>2, <3>4, <3>5 DEF Held, Left
  <2>8. CASE PumpPushed(i)
    <3>1. /\ pump[i] = "push" /\ UNCHANGED <<cancelSub, sub>>
          /\ pump' = [pump EXCEPT ![i] = "ended", ![making[i]] = "reading"]
          /\ making' = [making EXCEPT ![i] = 0]
      BY <2>8 DEF PumpPushed
    <3>2. /\ \A k \in Streams : pump'[k] = "store" <=> pump[k] = "store"
          /\ \A k \in Streams : pump'[k] \in {"subscribe", "store"} <=> pump[k] \in {"subscribe", "store"}
      BY <1>1, <1>3, <3>1 DEF Fresh, StreamTypes
    <3>3. \A a \in Actors \ {i} : making'[a] = making[a]
      BY <1>1, <3>1 DEF StreamTypes
    <3>4. Moving' = Moving
      BY <3>2 DEF Moving
    <3>5. ASSUME NEW j \in Streams, Held(j) PROVE Held(j)'
      <4>1. \A k \in Streams : pump[k] = "store" => pump'[k] = "store" /\ making'[k] = making[k]
        BY <1>3, <3>1, <3>2, <3>3
      <4>2. making'[0] = making[0]
        BY <1>3, <3>3
      <4> QED BY <2>1, <3>1, <3>5, <4>1, <4>2 DEF Held
    <3> QED BY <1>2, <2>1, <3>1, <3>4, <3>5 DEF Left
  <2> QED BY <1>10, <2>3, <2>4, <2>5, <2>6, <2>7, <2>8 DEF PumpNext
<1>11. CASE ServeNext \/ ConnNext \/ ReaderNext \/ ClientNext
  <2>1. UNCHANGED streamVars /\ (UNCHANGED at \/ (AcceptChannel /\ at' = "start"))
    BY <1>11 DEF ServeNext, ConnNext, ReaderNext, ClientNext, Listen, Watch, Stop, Cancel,
                 AcceptFails, Accept, Exit, Handshake, AcceptChannel, ConnEnds, ServiceRequest,
                 Panics, RequestsEnd, Type, Stall, HangUp, Ask, inner, handleVars
  <2>2. CASE UNCHANGED at
    BY <1>2, <2>1, <2>2 DEF Held, Moving, Left, streamVars
  <2>3. CASE AcceptChannel /\ at' = "start"
    <3>1. at = "none"
      BY <2>3 DEF AcceptChannel, IInv, ConnInv, Terminal
    <3> QED BY <1>4, <2>1, <2>3, <3>1 DEF Left, streamVars
  <2> QED BY <2>1, <2>2, <2>3
<1>12. CASE AutoAttach \/ DialReturns \/ TakeKey
  <2>1. \/ BeginSwitch(0) /\ UNCHANGED pump /\ at' = "subscribe"
        \/ UNCHANGED streamVars /\ at' \in {"dial", "render", "restore", "send"}
    BY <1>12 DEF AutoAttach, DialReturns, TakeKey, Goto
  <2>2. at # "store"
    BY <1>12 DEF AutoAttach, DialReturns, TakeKey, Goto
  <2>3. CASE UNCHANGED streamVars /\ at' \in {"dial", "render", "restore", "send"}
    BY <1>4, <2>2, <2>3 DEF streamVars, Left
  <2> QED BY <1>5, <2>1, <2>2, <2>3
<1>13. CASE \/ Attach \/ EnterTerm \/ Render \/ Paint \/ KeySent \/ TakeSize \/ Redraw \/ Leave
            \/ RestoreTerm \/ CloseQueue \/ CloseChannel \/ Detach
  <2>1. UNCHANGED streamVars /\ at # "store"
    BY <1>13 DEF Attach, EnterTerm, Render, Paint, KeySent, TakeSize, Redraw, Leave, RestoreTerm,
                 CloseQueue, CloseChannel, Detach, Goto
  <2>2. Left' \/ at' \in {"subscribe", "store"} => Left
    BY <1>13 DEF Attach, EnterTerm, Render, Paint, KeySent, TakeSize, Redraw, Leave, RestoreTerm,
                 CloseQueue, CloseChannel, Detach, Goto, Left
  <2> QED BY <1>4, <2>1, <2>2 DEF streamVars
<1> QED
  BY <1>6, <1>7, <1>8, <1>9, <1>10, <1>11, <1>12, <1>13 DEF Next, HandleNext, HostNext

\* A Handle that has left leaves no subscription, for any number of streams, unless one
\* switch overlapped with another or with its leaving.
THEOREM NoStreamIsLeft == Spec => [](Left /\ ~overlapped => \A i \in Streams : sub[i] # "live")
<1>1. Init => Fresh /\ Owned
  BY DEF Init, Fresh, Owned, Kept, Overlap, Moving, Left, Streams, Actors
<1>2. IInv /\ (Fresh /\ Owned) /\ [Next]_vars => (Fresh /\ Owned)'
  <2>1. UNCHANGED vars /\ Fresh /\ Owned => (Fresh /\ Owned)'
    BY DEF vars, streamVars, handleVars, Fresh, Owned, Kept, Overlap, Held, Moving, Left
  <2> QED BY <2>1, FreshStep, OwnedStep DEF IInv
<1>3. Owned => (Left /\ ~overlapped => \A i \in Streams : sub[i] # "live")
  BY InboundAssumption DEF Owned, Kept, Held, Left, Overlap, Moving, Streams
<1> QED BY <1>1, <1>2, <1>3, InvAlways, PTL DEF Spec
=============================================================================
