----------------------------- MODULE EventStream -----------------------------
(* One live session of internal/session/manager.go and the channels it feeds:  *)
(* the reader goroutine that pump starts, pump and finalize, Subscribe, its    *)
(* cancel, broadcast, and the scrollback of scrollback.go.  What a subscriber  *)
(* does with its channel is what connUI.switchView and streamPump do: read the *)
(* scrollback once after subscribing, then receive until told to stop.         *)
(*                                                                             *)
(* Output is a sequence of chunks numbered from 1; a Go channel is the         *)
(* sequence of its buffered events.  Sending on a closed channel, or closing   *)
(* one twice, would panic and take the whole server down.                      *)
EXTENDS Naturals, Sequences

CONSTANTS
    Subs,       \* one per call of Subscribe
    SubBuffer,  \* subBuffer, the capacity of a subscriber's channel
    Lines,      \* the capacity of the scrollback, in chunks
    MaxChunk    \* bound: chunks the host writes

ASSUME StreamAssumption ==
    SubBuffer \in Nat \ {0} /\ Lines \in Nat \ {0} /\ MaxChunk \in Nat

Stopped == 0    \* the lifecycle event; chunks are numbered from 1

VARIABLES
    produced,   \* chunks read from the PTY and written to the scrollback
    pending,    \* the reader has one chunk it has not broadcast yet
    sb,         \* ringScrollback.buf
    ended,      \* the PTY's Done is closed, or Read failed
    step,       \* of the pump: "wait", "notify", "gone"
    subs,       \* domain of ls.subs
    swapped,    \* finalize's copy of ls.subs, less those already told
    chan,       \* per channel: its buffered events
    gate,       \* per channel: "none", "open" or "closed"
    user,       \* per subscriber: "idle", "joined", "streaming", "cancelled", "left"
    base,       \* per subscriber: the newest chunk its scrollback snapshot held
    got,        \* per subscriber: the events it received
    panicked,   \* a send on, or a close of, a closed channel
    dropped     \* history, per subscriber: the chunks its full buffer cost it

vars == <<produced, pending, sb, ended, step, subs, swapped, chan, gate, user, base, got,
          panicked, dropped>>
hostVars == <<produced, pending, sb, dropped>>
userVars == <<user, base, got>>

Events == 0..MaxChunk

TypeOK ==
    /\ produced \in 0..MaxChunk
    /\ pending \in BOOLEAN
    /\ sb \in Seq(1..MaxChunk) /\ Len(sb) <= Lines
    /\ ended \in BOOLEAN
    /\ step \in {"wait", "notify", "gone"}
    /\ subs \subseteq Subs /\ swapped \subseteq Subs
    /\ chan \in [Subs -> Seq(Events)]
    /\ \A c \in Subs : Len(chan[c]) <= SubBuffer
    /\ gate \in [Subs -> {"none", "open", "closed"}]
    /\ user \in [Subs -> {"idle", "joined", "streaming", "cancelled", "left"}]
    /\ base \in [Subs -> 0..MaxChunk]
    /\ got \in [Subs -> Seq(Events)]
    /\ panicked \in BOOLEAN
    /\ dropped \in [Subs -> SUBSET (1..MaxChunk)]

Init ==
    /\ produced = 0
    /\ pending = FALSE
    /\ sb = <<>>
    /\ ended = FALSE
    /\ step = "wait"
    /\ subs = {}
    /\ swapped = {}
    /\ chan = [c \in Subs |-> <<>>]
    /\ gate = [c \in Subs |-> "none"]
    /\ user = [c \in Subs |-> "idle"]
    /\ base = [c \in Subs |-> 0]
    /\ got = [c \in Subs |-> <<>>]
    /\ panicked = FALSE
    /\ dropped = [c \in Subs |-> {}]

-----------------------------------------------------------------------------
(* The reader goroutine.  It may outlive the pump: output that was in flight   *)
(* when Done was closed is still read.                                         *)

Trim(s) == IF Len(s) > Lines THEN SubSeq(s, Len(s) - Lines + 1, Len(s)) ELSE s

\* Read returns a chunk; ls.sb.write.
ReadChunk ==
    /\ ~pending
    /\ produced < MaxChunk
    /\ produced' = produced + 1
    /\ sb' = Trim(Append(sb, produced + 1))
    /\ pending' = TRUE
    /\ UNCHANGED <<dropped, ended, step, subs, swapped, chan, gate, userVars, panicked>>

\* The subscribers a send would have to wait for.
Crowded == {c \in subs : Len(chan[c]) >= SubBuffer}

\* Mutant: the send does not look whether the buffer has room.
Broadcast_Unbounded ==
    /\ pending
    /\ pending' = FALSE
    /\ chan' = [c \in Subs |-> IF c \in subs THEN Append(chan[c], produced) ELSE chan[c]]
    /\ dropped' = [c \in Subs |-> IF c \in Crowded THEN dropped[c] \cup {produced} ELSE dropped[c]]
    /\ panicked' = (panicked \/ \E c \in subs : gate[c] = "closed")
    /\ UNCHANGED <<produced, sb, ended, step, subs, swapped, gate, userVars>>

\* Mutant: the channels are unbuffered, so an event the subscriber is not
\* waiting for is dropped.
Broadcast_Unbuffered ==
    /\ pending
    /\ pending' = FALSE
    /\ chan' = [c \in Subs |->
                  IF c \in subs /\ chan[c] = <<>> THEN <<produced>> ELSE chan[c]]
    /\ dropped' = [c \in Subs |-> IF c \in Crowded THEN dropped[c] \cup {produced} ELSE dropped[c]]
    /\ panicked' = (panicked \/ \E c \in subs : gate[c] = "closed")
    /\ UNCHANGED <<produced, sb, ended, step, subs, swapped, gate, userVars>>

\* ls.broadcast: under ls.mu, to every subscriber whose buffer has room.
Broadcast ==
    /\ pending
    /\ pending' = FALSE
    /\ chan' = [c \in Subs |->
                  IF c \in subs \ Crowded
                  THEN Append(chan[c], produced) ELSE chan[c]]
    /\ dropped' = [c \in Subs |-> IF c \in Crowded THEN dropped[c] \cup {produced} ELSE dropped[c]]
    /\ panicked' = (panicked \/ \E c \in subs : gate[c] = "closed")
    /\ UNCHANGED <<produced, sb, ended, step, subs, swapped, gate, userVars>>

PTYEnds ==
    /\ ~ended
    /\ ended' = TRUE
    /\ UNCHANGED <<hostVars, step, subs, swapped, chan, gate, userVars, panicked>>

-----------------------------------------------------------------------------
(* The pump: finalize.  *)

\* Mutant: finalize walks ls.subs itself instead of taking the subscribers out.
FinalizeMark_NoSwap ==
    /\ ended
    /\ step = "wait"
    /\ step' = "notify"
    /\ swapped' = subs
    /\ UNCHANGED <<hostVars, ended, subs, chan, gate, userVars, panicked>>

\* Under ls.mu: closed is set and the subscribers are taken out of ls.subs.
FinalizeMark ==
    /\ ended
    /\ step = "wait"
    /\ step' = "notify"
    /\ swapped' = subs
    /\ subs' = {}
    /\ UNCHANGED <<hostVars, ended, chan, gate, userVars, panicked>>

\* With no lock held: the send waits for room, then the channel is closed.
FinalizeNotify(c) ==
    /\ step = "notify"
    /\ c \in swapped
    /\ Len(chan[c]) < SubBuffer
    /\ chan' = [chan EXCEPT ![c] = Append(@, Stopped)]
    /\ gate' = [gate EXCEPT ![c] = "closed"]
    /\ panicked' = (panicked \/ gate[c] = "closed")
    /\ swapped' = swapped \ {c}
    /\ UNCHANGED <<hostVars, ended, step, subs, userVars>>

\* The rest of finalize: the session leaves the maps.
FinalizeRemove ==
    /\ step = "notify"
    /\ swapped = {}
    /\ step' = "gone"
    /\ UNCHANGED <<hostVars, ended, subs, swapped, chan, gate, userVars, panicked>>

-----------------------------------------------------------------------------
(* Subscribers.  *)

\* Mutant: a closed session is not told apart from a live one.
Subscribe_IgnoresClosed(c) ==
    /\ user[c] = "idle"
    /\ user' = [user EXCEPT ![c] = "joined"]
    /\ subs' = subs \cup {c}
    /\ gate' = [gate EXCEPT ![c] = "open"]
    /\ UNCHANGED <<hostVars, ended, step, swapped, chan, base, got, panicked>>

\* Mutant: a session whose PTY has ended counts as closed already.
Subscribe_TestsDone(c) ==
    /\ user[c] = "idle"
    /\ user' = [user EXCEPT ![c] = "joined"]
    /\ IF ~ended
       THEN /\ subs' = subs \cup {c}
            /\ gate' = [gate EXCEPT ![c] = "open"]
            /\ chan' = chan
       ELSE /\ subs' = subs
            /\ gate' = [gate EXCEPT ![c] = "closed"]
            /\ chan' = [chan EXCEPT ![c] = <<Stopped>>]
    /\ UNCHANGED <<hostVars, ended, step, swapped, base, got, panicked>>

\* Subscribe looks the session up and then takes ls.mu.  The lookup fails only
\* for a session that is closed already, with the same answer, so what counts
\* is ls.closed at the second step.
Subscribe(c) ==
    /\ user[c] = "idle"
    /\ user' = [user EXCEPT ![c] = "joined"]
    /\ IF step = "wait"
       THEN /\ subs' = subs \cup {c}
            /\ gate' = [gate EXCEPT ![c] = "open"]
            /\ chan' = chan
       ELSE /\ subs' = subs
            /\ gate' = [gate EXCEPT ![c] = "closed"]
            /\ chan' = [chan EXCEPT ![c] = <<Stopped>>]
    /\ UNCHANGED <<hostVars, ended, step, swapped, base, got, panicked>>

\* switchView replays Scrollback(id).Snapshot(), if the session is still known.
Replay(c) ==
    /\ user[c] = "joined"
    /\ user' = [user EXCEPT ![c] = "streaming"]
    /\ base' = [base EXCEPT ![c] = IF step = "gone" \/ sb = <<>> THEN 0 ELSE sb[Len(sb)]]
    /\ UNCHANGED <<hostVars, ended, step, subs, swapped, chan, gate, got, panicked>>

\* The subscriber's cancel: under ls.mu, and only if finalize was not first.  It may
\* come before the replay, from another switchView; what the cancelled one still paints
\* of the scrollback is left out.
Cancel(c) ==
    /\ user[c] \in {"joined", "streaming"}
    /\ user' = [user EXCEPT ![c] = "cancelled"]
    /\ IF c \in subs
       THEN /\ subs' = subs \ {c}
            /\ gate' = [gate EXCEPT ![c] = "closed"]
            /\ panicked' = (panicked \/ gate[c] = "closed")
       ELSE UNCHANGED <<subs, gate, panicked>>
    /\ UNCHANGED <<hostVars, ended, step, swapped, chan, base, got>>

\* streamPump: the next event; it returns on Stopped, and keeps draining a
\* channel that was cancelled.
Receive(c) ==
    /\ user[c] \in {"streaming", "cancelled"}
    /\ chan[c] # <<>>
    /\ chan' = [chan EXCEPT ![c] = Tail(@)]
    /\ got' = [got EXCEPT ![c] = Append(@, Head(chan[c]))]
    /\ user' = [user EXCEPT ![c] = IF Head(chan[c]) = Stopped THEN "left" ELSE @]
    /\ UNCHANGED <<hostVars, ended, step, subs, swapped, gate, base, panicked>>

\* The range loop ends on a channel that is closed and drained.
Drained(c) ==
    /\ user[c] \in {"streaming", "cancelled"}
    /\ chan[c] = <<>>
    /\ gate[c] = "closed"
    /\ user' = [user EXCEPT ![c] = "left"]
    /\ UNCHANGED <<hostVars, ended, step, subs, swapped, chan, gate, base, got, panicked>>

-----------------------------------------------------------------------------
Reader == ReadChunk \/ Broadcast
Pump == FinalizeMark \/ FinalizeRemove \/ \E c \in Subs : FinalizeNotify(c)
StreamPump(c) == Replay(c) \/ Receive(c) \/ Drained(c)

\* The session is gone, its output read, and every interface has left.
AllOver ==
    /\ step = "gone" /\ produced = MaxChunk /\ ~pending
    /\ \A c \in Subs : user[c] = "left"
    /\ UNCHANGED vars

Next ==
    \/ Reader \/ PTYEnds \/ Pump \/ AllOver
    \/ \E c \in Subs : Subscribe(c) \/ Cancel(c) \/ StreamPump(c)

\* The pump runs when it can, and an interface keeps consuming its channel:
\* streamPump only paints into memory, it never waits for the client.
Fairness ==
    /\ WF_vars(Pump)
    /\ \A c \in Subs : WF_vars(StreamPump(c))

Spec == Init /\ [][Next]_vars /\ Fairness

-----------------------------------------------------------------------------
(* Properties *)

\* Everything that is or will be in a subscriber's hands, in order.
Stream(c) == got[c] \o chan[c]

\* broadcast, cancel and finalize work on the same channels from three
\* goroutines; no channel is ever sent to after it was closed, nor closed twice.
NoPanic == ~panicked

\* Between the replayed scrollback and the live stream there is no hole: every
\* chunk newer than the snapshot that has been broadcast is in the subscriber's
\* stream, unless it found the buffer full.  Subscribing before taking the
\* snapshot is what makes it so.
NoGapAfterReplay ==
    \A c \in subs : user[c] = "streaming" =>
        \A n \in (base[c] + 1)..(IF pending THEN produced - 1 ELSE produced) :
            n \in dropped[c] \/ \E i \in 1..Len(Stream(c)) : Stream(c)[i] = n

\* subBuffer's comment: "the pump never blocks".
PumpNeverBlocks == \A c \in swapped : Len(chan[c]) < SubBuffer

\* A subscriber that did not cancel learns that the session ended.
EveryViewerIsTold ==
    \A c \in Subs : (c \in subs /\ ended) ~>
        (user[c] = "cancelled" \/ (user[c] = "left" /\ got[c] # <<>> /\ got[c][Len(got[c])] = Stopped))

\* Why nothing panics: a channel that is registered, or that finalize still has
\* to tell, is open, and finalize and the registry never hold the same one.
ChannelsAreOpen ==
    /\ \A c \in subs \cup swapped : gate[c] = "open" /\ user[c] # "idle"
    /\ step = "wait" => swapped = {}
    /\ step # "wait" => subs = {}

(* The contract of StreamContract: a subscriber has seen the last chunk it     *)
(* received, and the session is over once finalize has marked it closed.       *)
LastSeen(s) == IF s = <<>> THEN 0
               ELSE IF s[Len(s)] # Stopped THEN s[Len(s)]
               ELSE IF Len(s) = 1 THEN 0 ELSE s[Len(s) - 1]

Phase(c) ==
    CASE user[c] = "idle" -> "idle"
      [] user[c] \in {"joined", "streaming"} -> "active"
      [] user[c] = "cancelled" -> "cancelled"
      [] user[c] = "left" -> IF got[c] # <<>> /\ got[c][Len(got[c])] = Stopped
                             THEN "stopped" ELSE "cancelled"

Contract == INSTANCE StreamContract WITH
    log <- produced,
    over <- (step # "wait"),
    status <- [c \in Subs |-> Phase(c)],
    seen <- [c \in Subs |-> LastSeen(got[c])]

\* The channels, the locks and the swap implement the contract.
ImplementsContract == Contract!CSpec
=============================================================================
