----------------------------- MODULE InboundConn ------------------------------
(* internal/sshd, and the life internal/tui gives a connection: the accept     *)
(* loop, one inbound SSH connection with its session channel, the goroutine    *)
(* that answers channel requests and queues window sizes, TUI.Handle with its  *)
(* deferred calls, and the stream pumps with their subscriptions.  Every       *)
(* connection, and every session channel of one, runs the same code on state   *)
(* of its own, so one channel of one connection is modelled; which sessions it *)
(* shows, and at which size, is the business of ResizeFlow.                    *)
EXTENDS Naturals, Sequences

CONSTANTS
    Asked,      \* the sizes a client may ask for, [rows, cols] of 32 bits each
    Default,    \* the size of an interface that has not said its own: 24 by 80
    Width,      \* 2^16: a size is cut to that many rows and columns
    Cap,        \* the buffer of conn.resize: 8
    MaxAsks,    \* bound: channel requests a client sends
    MaxKeys,    \* bound: keys that are read and not yet handled
    MaxStreams  \* bound: subscriptions the interface makes, one per switchView

Cut(z) == [rows |-> z.rows % Width, cols |-> z.cols % Width]
Usable(z) == z.rows > 0 /\ z.cols > 0

ASSUME InboundAssumption ==
    /\ Width \in Nat \ {0} /\ Cap \in Nat \ {0}
    /\ MaxAsks \in Nat /\ MaxKeys \in Nat /\ MaxStreams \in Nat
    /\ Asked \subseteq [rows : Nat, cols : Nat]
    /\ Default \in [rows : 0..(Width - 1), cols : 0..(Width - 1)]

VARIABLES
    serve,      \* Serve: "starting", "accepting" or "returned"
    listening,  \* the listener is open
    cancelled,  \* ctx is done
    stopped,    \* Run has called inbound.Close
    process,    \* "up" or "exited"
    link,       \* the client's end: "up", "stalled" (reads nothing) or "lost"
    conn,       \* "none", "handshake", "ready" or "closed"
    chan,       \* the session channel: "none", "open" or "closed" by the server
    wire,       \* sizes in channel requests that have not been serviced
    asks,       \* how many requests the client has sent
    keys,       \* keys ListenReader has read and Handle has not handled
    reader,     \* serviceRequests: "none", "serving", "panicking" or "ended"
    queue,      \* conn.resize
    shut,       \* conn.resize is closed
    once,       \* closeOnce is done
    crashed,    \* a panic nobody recovered
    at,         \* where Handle is
    size,       \* connUI.size
    attached,   \* the client is in the attachments
    cancelSub,  \* the stream connUI.cancelSub would cancel, or 0
    sub,        \* per stream: see TypeOK; "stopped" has Stopped in its channel
    pump,       \* per stream: its streamPump
    making,     \* per actor, Handle (0) or a pump: the stream its switchView makes, or 0
    term,       \* the client's terminal: "normal" or "alt"
    last,       \* history: the last size serviceRequests was asked for, cut
    dropped,    \* history: the queue was full for that one
    overlapped  \* history: see Overlap

serverVars == <<serve, listening, cancelled, stopped, process>>
clientVars == <<link, wire, asks, keys, term>>
connVars == <<conn, chan, reader>>
queueVars == <<queue, shut, once, crashed, last, dropped>>
handleVars == <<at, size, attached>>
streamVars == <<cancelSub, sub, pump, making>>
vars == <<serverVars, clientVars, connVars, queueVars, handleVars, streamVars, overlapped>>

\* What Serve and Run leave alone, and what Handle does.
inner == <<clientVars, connVars, queueVars, handleVars, streamVars>>
outer == <<serverVars, connVars>>

Streams == 1..MaxStreams
Actors == 0..MaxStreams

Cuts == [rows : 0..(Width - 1), cols : 0..(Width - 1)]

Init ==
    /\ serve = "starting" /\ listening = FALSE /\ cancelled = FALSE /\ stopped = FALSE
    /\ process = "up" /\ link = "up" /\ conn = "none" /\ chan = "none"
    /\ wire = <<>> /\ asks = 0 /\ keys = 0 /\ reader = "none"
    /\ queue = <<>> /\ shut = FALSE /\ once = FALSE /\ crashed = FALSE
    /\ at = "none" /\ size = Default /\ attached = FALSE
    /\ cancelSub = 0 /\ sub = [i \in Streams |-> "none"] /\ pump = [i \in Streams |-> "none"]
    /\ making = [a \in Actors |-> 0] /\ overlapped = FALSE
    /\ term = "normal" /\ last = [rows |-> 0, cols |-> 0] /\ dropped = FALSE

ConnTypes ==
    /\ serve \in {"starting", "accepting", "returned"}
    /\ listening \in BOOLEAN /\ cancelled \in BOOLEAN /\ stopped \in BOOLEAN
    /\ shut \in BOOLEAN /\ once \in BOOLEAN /\ crashed \in BOOLEAN
    /\ attached \in BOOLEAN /\ dropped \in BOOLEAN
    /\ process \in {"up", "exited"}
    /\ link \in {"up", "stalled", "lost"}
    /\ conn \in {"none", "handshake", "ready", "closed"}
    /\ chan \in {"none", "open", "closed"}
    /\ wire \in Seq(Asked) /\ asks \in 0..MaxAsks /\ keys \in 0..MaxKeys
    /\ reader \in {"none", "serving", "panicking", "ended"}
    /\ queue \in Seq(Cuts) /\ Len(queue) <= Cap
    /\ at \in {"none", "start", "enter", "auto", "dial", "subscribe", "store", "push", "render",
               "paint", "loop", "send", "restore", "close", "hangup", "unsub", "detach",
               "last", "final", "ended"}
    /\ size \in Cuts /\ last \in Cuts
    /\ term \in {"normal", "alt"}

StreamTypes ==
    /\ cancelSub \in Actors /\ making \in [Actors -> Actors]
    /\ sub \in [Streams -> {"none", "wanted", "live", "stopped", "cancelled"}]
    /\ pump \in [Streams -> {"none", "reading", "told", "subscribe", "store", "push", "ended"}]
    /\ overlapped \in BOOLEAN

TypeOK == ConnTypes /\ StreamTypes

-----------------------------------------------------------------------------
(* Serve and Run *)

\* net.Listen may fail.
Listen ==
    /\ serve = "starting"
    /\ \/ serve' = "accepting" /\ listening' = TRUE
       \/ serve' = "returned" /\ UNCHANGED listening
    /\ UNCHANGED <<cancelled, stopped, process, inner>>

Cancel ==
    /\ ~cancelled
    /\ cancelled' = TRUE
    /\ UNCHANGED <<serve, listening, stopped, process, inner>>

\* Run calls Close once; a listener that has not been made yet is not closed.
Stop ==
    /\ cancelled /\ ~stopped
    /\ stopped' = TRUE /\ listening' = FALSE
    /\ UNCHANGED <<serve, cancelled, process, inner>>

\* Mutant: nobody waits for the context beside Accept.
Watch_Missing == FALSE /\ UNCHANGED vars

\* The goroutine Serve starts closes the listener when the context is done.
Watch ==
    /\ serve # "starting" /\ cancelled /\ listening
    /\ listening' = FALSE
    /\ UNCHANGED <<serve, cancelled, stopped, process, inner>>

\* Accept returns an error, and so does Serve, whatever the error is.
AcceptFails ==
    /\ serve = "accepting"
    /\ serve' = "returned"
    /\ UNCHANGED <<listening, cancelled, stopped, process, inner>>

Accept ==
    /\ serve = "accepting" /\ listening /\ conn = "none"
    /\ conn' = "handshake"
    /\ UNCHANGED <<serverVars, clientVars, chan, reader, queueVars, handleVars, streamVars>>

\* Run returns once Serve has, and the process ends under whoever is attached.
Exit ==
    /\ serve = "returned" /\ (cancelled => stopped)
    /\ process' = "exited" /\ link' = "lost"
    /\ UNCHANGED <<serve, listening, cancelled, stopped, wire, asks, keys, term, connVars,
                   queueVars, handleVars, streamVars>>

-----------------------------------------------------------------------------
(* handleConn *)

\* The handshake fails without an authorized key; nothing bounds its time.
Handshake ==
    /\ conn = "handshake"
    /\ conn' = "closed" \/ (conn' = "ready" /\ link = "up")
    /\ UNCHANGED <<serverVars, clientVars, chan, reader, queueVars, handleVars, streamVars>>

\* newConn and its two goroutines.
AcceptChannel ==
    /\ conn = "ready" /\ chan = "none" /\ link = "up"
    /\ chan' = "open" /\ reader' = "serving" /\ at' = "start"
    /\ UNCHANGED <<serverVars, clientVars, conn, queueVars, size, attached,
                   streamVars>>

\* No more channels come: the deferred conn.Close.
ConnEnds ==
    /\ conn = "ready" /\ link = "lost"
    /\ conn' = "closed"
    /\ UNCHANGED <<serverVars, clientVars, chan, reader, queueVars, handleVars, streamVars>>

-----------------------------------------------------------------------------
(* serviceRequests and the queue *)

\* Mutant: one size more than the buffer holds.
PushResize_Overfills(z) ==
    /\ queue' = IF shut \/ Len(queue) > Cap THEN queue ELSE Append(queue, z)
    /\ dropped' = (Len(queue) > Cap)
    /\ reader' = IF shut THEN "panicking" ELSE reader

\* A full queue drops the size.  To send on a closed channel panics, full or not.
PushResize(z) ==
    /\ queue' = IF shut \/ Len(queue) = Cap THEN queue ELSE Append(queue, z)
    /\ dropped' = (Len(queue) = Cap)
    /\ reader' = IF shut THEN "panicking" ELSE reader

\* pty-req or window-change; the other requests are only replied to.
ServiceRequest ==
    /\ reader = "serving" /\ wire # <<>>
    /\ wire' = Tail(wire)
    /\ PushResize(Cut(Head(wire)))
    /\ last' = Cut(Head(wire))
    /\ UNCHANGED <<serverVars, conn, chan, link, asks, keys, term, shut, once, crashed, handleVars,
                   streamVars>>

\* Mutant: pushResize does not recover.
Recovers_Not ==
    /\ crashed' = TRUE
    /\ reader' = "ended"

\* The deferred call of pushResize; serviceRequests goes on with the next request.
Recovers ==
    /\ reader' = "serving"
    /\ UNCHANGED crashed

Panics ==
    /\ reader = "panicking"
    /\ Recovers
    /\ UNCHANGED <<serverVars, clientVars, conn, chan, queue, shut, once, last, dropped, handleVars,
                   streamVars>>

\* The requests end with the connection, or with the client's answer to a close.
RequestsEnd ==
    /\ reader = "serving" /\ wire = <<>>
    /\ link = "lost" \/ (chan = "closed" /\ link = "up")
    /\ reader' = "ended"
    /\ UNCHANGED <<serverVars, clientVars, conn, chan, queueVars, handleVars, streamVars>>

-----------------------------------------------------------------------------
(* TUI.Handle *)

Goto(from, to) == at = from /\ at' = to

\* Writing blocks while the client does not read, and fails once it has gone.
CanWrite == link # "stalled"

\* stopSub takes cancelSub and calls it; that of a stream that has stopped does nothing.
Stopped(i) == [sub EXCEPT ![i] = IF @ = "live" THEN "cancelled" ELSE @]

\* Mutant: it forgets what it has taken.
StopSub_Not ==
    /\ cancelSub' = 0
    /\ UNCHANGED sub

StopSub ==
    /\ cancelSub' = 0
    /\ sub' = IF cancelSub = 0 THEN sub ELSE Stopped(cancelSub)

\* switchView, in Handle or in a pump, up to its Subscribe, for a stream of its own.
BeginSwitch(a) ==
    \E i \in Streams :
        /\ sub[i] = "none"
        /\ making' = [making EXCEPT ![a] = i]
        /\ cancelSub' = 0
        /\ sub' = [k \in Streams |->
                      CASE k = i -> "wanted"
                        [] k = cancelSub /\ sub[k] = "live" -> "cancelled"
                        [] OTHER -> sub[k]]

\* A session that has gone gets a channel with Stopped in it and a cancel that does nothing.
Subscribe(a) == \E q \in {"live", "stopped"} : sub' = [sub EXCEPT ![making[a]] = q]

\* viewing and cancelSub, under u.mu.
Store(a) == cancelSub' = making[a]

\* Mutant: the size in the queue is taken and forgotten.
FirstSize_Forgets == size

\* firstSize does not wait, and Handle looks at the rows alone.
FirstSize == IF queue # <<>> /\ Head(queue).rows > 0 THEN Head(queue) ELSE size

\* Up to Attach, which gets the size of the pane: see ResizeFlow.
Attach ==
    /\ Goto("start", "enter")
    /\ size' = FirstSize
    /\ queue' = IF queue = <<>> THEN queue ELSE Tail(queue)
    /\ attached' = TRUE
    /\ UNCHANGED <<outer, clientVars, shut, once, crashed, last, dropped, streamVars>>

EnterTerm ==
    /\ Goto("enter", "auto") /\ CanWrite
    /\ term' = IF link = "up" THEN "alt" ELSE term
    /\ UNCHANGED <<outer, link, wire, asks, keys, queueVars, size, attached, streamVars>>

\* autoAttach finds a session, dials for one, or finds no host either.
AutoAttach ==
    /\ \/ Goto("auto", "subscribe") /\ BeginSwitch(0) /\ UNCHANGED pump
       \/ Goto("auto", "dial") /\ UNCHANGED streamVars
       \/ Goto("auto", "render") /\ UNCHANGED streamVars
    /\ UNCHANGED <<outer, clientVars, queueVars, size, attached>>

\* The dial for a project ends, which it need not: see ProjectPicker.
DialReturns ==
    /\ \/ Goto("dial", "subscribe") /\ BeginSwitch(0) /\ UNCHANGED pump
       \/ Goto("dial", "render") /\ UNCHANGED streamVars
    /\ UNCHANGED <<outer, clientVars, queueVars, size, attached>>

HandleSubscribes ==
    /\ Goto("subscribe", "store") /\ Subscribe(0)
    /\ UNCHANGED <<outer, clientVars, queueVars, size, attached, cancelSub, pump, making>>

HandleStores ==
    /\ Goto("store", "push") /\ Store(0)
    /\ UNCHANGED <<outer, clientVars, queueVars, size, attached, sub, pump, making>>

\* A window change has been written to the host, of switchView or of a layout: it
\* takes as long as the connection to the host does.
Pushed ==
    /\ Goto("push", "paint")
    /\ pump' = IF making[0] = 0 THEN pump ELSE [pump EXCEPT ![making[0]] = "reading"]
    /\ making' = [making EXCEPT ![0] = 0]
    /\ UNCHANGED <<outer, clientVars, queueVars, size, attached, cancelSub, sub>>

\* render: a layout may change the pane, and the frame is written.
Render ==
    /\ Goto("render", "push") \/ (Goto("render", "loop") /\ CanWrite)
    /\ UNCHANGED <<outer, clientVars, queueVars, size, attached, streamVars>>

Paint ==
    /\ Goto("paint", "loop") /\ CanWrite
    /\ UNCHANGED <<outer, clientVars, queueVars, size, attached, streamVars>>

\* A key quits, opens a project, selects a session, goes to the session on screen or
\* does none of these.
TakeKey ==
    /\ keys > 0
    /\ keys' = keys - 1
    /\ \/ \E a \in {"restore", "dial", "send", "render"} : Goto("loop", a) /\ UNCHANGED streamVars
       \/ Goto("loop", "subscribe") /\ BeginSwitch(0) /\ UNCHANGED pump
    /\ UNCHANGED <<outer, link, wire, asks, term, queueVars, size, attached>>

\* The write to the session is over, which takes as long as its host does.
KeySent ==
    /\ Goto("send", "render")
    /\ UNCHANGED <<outer, clientVars, queueVars, size, attached, streamVars>>

\* handleResize, which ignores a size without rows or columns.
TakeSize ==
    /\ Goto("loop", "render")
    /\ queue # <<>>
    /\ queue' = Tail(queue)
    /\ size' = IF Usable(Head(queue)) THEN Head(queue) ELSE size
    /\ UNCHANGED <<outer, clientVars, shut, once, crashed, last, dropped, attached, streamVars>>

\* Output of the session on screen.
Redraw ==
    /\ Goto("loop", "render")
    /\ UNCHANGED <<outer, clientVars, queueVars, size, attached, streamVars>>

\* The context is done, or the last key has been handled and there are no more.
Leave ==
    /\ Goto("loop", "restore")
    /\ cancelled \/ (link = "lost" /\ keys = 0)
    /\ UNCHANGED <<outer, clientVars, queueVars, size, attached, streamVars>>

\* Mutant: the connection is closed before exitTerm is written.
Restored_Late == term

\* exitTerm reaches the client while the channel is open.
Restored == IF link = "up" /\ chan = "open" THEN "normal" ELSE term

RestoreTerm ==
    /\ Goto("restore", "close") /\ CanWrite
    /\ term' = Restored
    /\ UNCHANGED <<outer, link, wire, asks, keys, queueVars, size, attached, streamVars>>

\* To close the closed queue panics, and nobody recovers that.
CloseChan ==
    /\ shut' = TRUE
    /\ crashed' = (crashed \/ shut)

\* Mutant: no closeOnce.
CloseOnce_Twice == CloseChan /\ UNCHANGED once

CloseOnce ==
    /\ once' = TRUE
    /\ IF once THEN UNCHANGED <<shut, crashed>> ELSE CloseChan

\* sshConn.Close closes the queue once and the channel every time.  Handle defers
\* it, and so does handleConn for when Handle has returned.
CloseQueue ==
    /\ Goto("close", "hangup") \/ Goto("last", "final")
    /\ CloseOnce
    /\ UNCHANGED <<outer, clientVars, queue, last, dropped, size, attached, streamVars>>

CloseChannel ==
    /\ Goto("hangup", "unsub") \/ Goto("final", "ended")
    /\ chan' = "closed"
    /\ UNCHANGED <<serverVars, clientVars, conn, reader, queueVars, size, attached, streamVars>>

\* The deferred stopSub and Detach.
Unsubscribe ==
    /\ Goto("unsub", "detach")
    /\ StopSub
    /\ UNCHANGED <<outer, clientVars, queueVars, size, attached, pump, making>>

Detach ==
    /\ Goto("detach", "last")
    /\ attached' = FALSE
    /\ UNCHANGED <<outer, clientVars, queueVars, size, streamVars>>

-----------------------------------------------------------------------------
(* The stream pumps *)

PumpAt(i, from, to) == pump[i] = from /\ pump' = [pump EXCEPT ![i] = to]

\* The session ends: finalize leaves Stopped in the channel and closes it.
SessionEnds(i) ==
    /\ sub[i] = "live"
    /\ sub' = [sub EXCEPT ![i] = "stopped"]
    /\ UNCHANGED <<outer, clientVars, queueVars, handleVars, cancelSub, pump, making>>

\* A pump reads Stopped, or finds its channel cancelled.
PumpReads(i) ==
    /\ \/ PumpAt(i, "reading", "told") /\ sub[i] = "stopped"
       \/ PumpAt(i, "reading", "ended") /\ sub[i] = "cancelled"
    /\ UNCHANGED <<outer, clientVars, queueVars, handleVars, cancelSub, sub, making>>

\* onViewStopped: on to a session, or there is none to show.
PumpMoves(i) ==
    /\ \/ PumpAt(i, "told", "subscribe") /\ BeginSwitch(i)
       \/ PumpAt(i, "told", "ended") /\ UNCHANGED <<cancelSub, sub, making>>
    /\ UNCHANGED <<outer, clientVars, queueVars, handleVars>>

PumpSubscribes(i) ==
    /\ PumpAt(i, "subscribe", "store") /\ Subscribe(i)
    /\ UNCHANGED <<outer, clientVars, queueVars, handleVars, cancelSub, making>>

PumpStores(i) ==
    /\ PumpAt(i, "store", "push") /\ Store(i)
    /\ UNCHANGED <<outer, clientVars, queueVars, handleVars, sub, making>>

\* Its window change is written; the new pump starts and this one is done.
PumpPushed(i) ==
    /\ pump[i] = "push"
    /\ pump' = [pump EXCEPT ![i] = "ended", ![making[i]] = "reading"]
    /\ making' = [making EXCEPT ![i] = 0]
    /\ UNCHANGED <<outer, clientVars, queueVars, handleVars, cancelSub, sub>>

-----------------------------------------------------------------------------
(* The client *)

Ask(z) ==
    /\ link = "up" /\ chan = "open" /\ asks < MaxAsks
    /\ asks' = asks + 1
    /\ wire' = Append(wire, z)
    /\ UNCHANGED <<outer, link, keys, term, queueVars, handleVars, streamVars>>

Type ==
    /\ link = "up" /\ chan = "open" /\ keys < MaxKeys
    /\ keys' = keys + 1
    /\ UNCHANGED <<outer, link, wire, asks, term, queueVars, handleVars, streamVars>>

\* It stops reading, or reads again.
Stall ==
    /\ chan = "open" /\ link # "lost"
    /\ link' = IF link = "up" THEN "stalled" ELSE "up"
    /\ UNCHANGED <<outer, wire, asks, keys, term, queueVars, handleVars, streamVars>>

\* It goes away; requests that have not arrived are lost.
HangUp ==
    /\ conn # "none" /\ link # "lost"
    /\ link' = "lost"
    /\ \E n \in 0..Len(wire) : wire' = SubSeq(wire, 1, n)
    /\ UNCHANGED <<outer, asks, keys, term, queueVars, handleVars, streamVars>>

-----------------------------------------------------------------------------

ServeNext == Listen \/ Watch \/ Stop \/ Cancel \/ AcceptFails \/ Accept \/ Exit
ConnNext == Handshake \/ AcceptChannel \/ ConnEnds
ReaderNext == ServiceRequest \/ Panics \/ RequestsEnd
HandleNext ==
    \/ Attach \/ EnterTerm \/ AutoAttach \/ HandleSubscribes \/ HandleStores \/ Render \/ Paint
    \/ TakeKey \/ TakeSize \/ Redraw \/ Leave
    \/ RestoreTerm \/ CloseQueue \/ CloseChannel \/ Unsubscribe \/ Detach
HostNext == DialReturns \/ KeySent \/ Pushed \/ \E i \in Streams : SessionEnds(i) \/ PumpPushed(i)
PumpNext(i) == PumpReads(i) \/ PumpMoves(i) \/ PumpSubscribes(i) \/ PumpStores(i)
ClientNext == Type \/ Stall \/ HangUp \/ \E z \in Asked : Ask(z)

\* Two actors are in the middle of a switchView, or a pump is while Handle has run its
\* deferred stopSub.
Moving == {i \in Streams : pump[i] \in {"subscribe", "store"}}
Left == at \in {"detach", "last", "final", "ended"}
Overlap ==
    \/ \E i, k \in Moving : i # k
    \/ Moving # {} /\ (Left \/ at \in {"subscribe", "store"})

Noted == overlapped' = (overlapped \/ Overlap')

Next ==
    /\ process = "up"
    /\ \/ ServeNext \/ ConnNext \/ ReaderNext \/ HandleNext \/ HostNext \/ ClientNext
       \/ \E i \in Streams : PumpNext(i)
    /\ Noted

\* A goroutine that can run does, and select does not pass a ready case over for
\* ever.  Nothing is assumed of the client, of the hosts or of a failing listener.
Fairness ==
    /\ WF_vars(process = "up" /\ (Listen \/ Watch) /\ Noted)
    /\ WF_vars(process = "up" /\ Stop /\ Noted)
    /\ WF_vars(process = "up" /\ ~listening /\ AcceptFails /\ Noted)
    /\ WF_vars(process = "up" /\ link = "lost" /\ (Handshake \/ ConnEnds) /\ Noted)
    /\ WF_vars(process = "up" /\ ReaderNext /\ Noted)
    /\ WF_vars(process = "up" /\ HandleNext /\ Noted)
    /\ \A i \in Streams : WF_vars(process = "up" /\ PumpNext(i) /\ Noted)
    /\ SF_vars(process = "up" /\ TakeKey /\ Noted)
    /\ SF_vars(process = "up" /\ Leave /\ Noted)

Spec == Init /\ [][Next]_vars /\ Fairness

-----------------------------------------------------------------------------
(* Properties *)

\* The request goroutine, Handle and handleConn share one queue, which is closed while
\* sizes are still pushed to it, and by two deferred calls: no send and no second
\* close ever brings the server down.
NoPanic == ~crashed

\* An interface that has caught up draws at the size its client last asked for,
\* whichever of pty-req, firstSize and the loop the size went through, unless the
\* queue was full for it.
SizeIsCurrent ==
    at = "loop" /\ wire = <<>> /\ queue = <<>> /\ ~dropped /\ Usable(last) => size = last

\* The same with a full queue.
LastSizeWins ==
    at = "loop" /\ wire = <<>> /\ queue = <<>> /\ Usable(last) => size = last

\* What is drawn has rows and columns.
SizeIsUsable == Usable(size)

\* When the server closes the channel of a client that is still there, the
\* client's terminal is out of the alternate screen.
TerminalRestored == chan = "closed" /\ link # "lost" => term = "normal"

\* The same when the server stops.
TerminalSurvivesStop == process = "exited" /\ chan # "none" /\ cancelled => term = "normal"

\* Connections are accepted until the context is done.
ServesUntilCancelled == serve = "returned" /\ listening => cancelled

\* Of the streams and their pumps nothing is left.
Unwatched == \A i \in Streams : sub[i] # "live" /\ pump[i] \in {"none", "ended"}

Cleared ==
    /\ conn = "closed" /\ reader \notin {"serving", "panicking"} /\ at \in {"none", "ended"}
    /\ ~attached /\ (overlapped \/ Unwatched)

\* Handle or a pump waits for a host: in a dial, a key or a window change.
Awaiting == at \in {"dial", "send", "push"} \/ \E i \in Streams : pump[i] = "push"

\* A client that goes away takes everything with it, whatever the interface was doing:
\* its goroutines end, and it leaves no attachment and no subscription.  Two things
\* stand in the way.  A host that answers nothing keeps whoever waits for it; and
\* where a pump was on its way to another session while Handle, or another pump, was
\* as well, a stream that nobody cancels may be left.
ConnectionIsCleared ==
    link = "lost" ~> Cleared \/ process = "exited" \/ []Awaiting

\* The same without the second exception.
LeavesNoStream ==
    link = "lost" ~> (Cleared /\ Unwatched) \/ process = "exited" \/ []Awaiting

\* A cancelled context ends Serve, also if it comes before the listener is made.
ServeReturns == cancelled ~> serve = "returned"
=============================================================================
