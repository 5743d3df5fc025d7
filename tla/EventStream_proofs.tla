--------------------------- MODULE EventStream_proofs ---------------------------
(* Proofs about EventStream, for any number of subscribers and any capacity.   *)
EXTENDS EventStream, SequenceTheorems, TLAPS

\* The part of the type invariant the argument needs.
Shapes ==
    /\ subs \subseteq Subs /\ swapped \subseteq Subs
    /\ gate \in [Subs -> {"none", "open", "closed"}]
    /\ user \in [Subs -> {"idle", "joined", "streaming", "cancelled", "left"}]
    /\ step \in {"wait", "notify", "gone"}
    /\ panicked \in BOOLEAN

SafeChannels == Shapes /\ ChannelsAreOpen /\ NoPanic

\* No channel exists before anybody subscribes.
LEMMA SafeInit == Init => SafeChannels
BY DEF Init, SafeChannels, Shapes, ChannelsAreOpen, NoPanic

\* No step closes a channel that a send or another close can still reach.
LEMMA SafeStep == SafeChannels /\ [Next]_vars => SafeChannels'
<1> SUFFICES ASSUME SafeChannels, [Next]_vars PROVE SafeChannels'
  OBVIOUS
<1> USE DEF SafeChannels, Shapes, ChannelsAreOpen, NoPanic, hostVars, userVars
<1>1. CASE Reader
  <2>1. CASE ReadChunk
    BY <2>1 DEF ReadChunk
  <2>2. CASE Broadcast
    <3>1. ~ \E c \in subs : gate[c] = "closed"
      OBVIOUS
    <3>2. ~panicked'
      BY <3>1, <2>2, Zenon DEF Broadcast
    <3> QED BY <2>2, <3>2 DEF Broadcast
  <2> QED BY <1>1, <2>1, <2>2 DEF Reader
<1>2. CASE PTYEnds
  BY <1>2 DEF PTYEnds
<1>3. CASE Pump
  <2>1. CASE FinalizeMark
    BY <2>1 DEF FinalizeMark
  <2>2. CASE FinalizeRemove
    BY <2>2 DEF FinalizeRemove
  <2>3. ASSUME NEW c \in Subs, FinalizeNotify(c) PROVE SafeChannels'
    <3>1. gate[c] # "closed"
      BY <2>3 DEF FinalizeNotify
    <3>2. ~panicked'
      BY <3>1, <2>3, Zenon DEF FinalizeNotify
    <3>3. step = "notify" /\ subs = {} /\ c \in swapped
      BY <2>3 DEF FinalizeNotify
    <3> QED BY <2>3, <3>2, <3>3 DEF FinalizeNotify
  <2> QED BY <1>3, <2>1, <2>2, <2>3 DEF Pump
<1>4. ASSUME NEW c \in Subs, Subscribe(c) PROVE SafeChannels'
  <2>1. c \notin subs \cup swapped
    BY <1>4 DEF Subscribe
  <2> QED BY <1>4, <2>1 DEF Subscribe
<1>5. ASSUME NEW c \in Subs, Cancel(c) PROVE SafeChannels'
  <2>1. CASE c \in subs
    <3>1. gate[c] # "closed"
      BY <2>1
    <3>2. ~panicked'
      BY <3>1, <2>1, <1>5, Zenon DEF Cancel
    <3>3. swapped = {}
      BY <2>1
    <3> QED BY <1>5, <2>1, <3>2, <3>3 DEF Cancel
  <2>2. CASE c \notin subs
    BY <1>5, <2>2 DEF Cancel
  <2> QED BY <2>1, <2>2
<1>6. ASSUME NEW c \in Subs, StreamPump(c) PROVE SafeChannels'
  BY <1>6 DEF StreamPump, Replay, Receive, Drained
<1>7. CASE AllOver \/ UNCHANGED vars
  BY <1>7 DEF AllOver, vars
<1> QED
  BY <1>1, <1>2, <1>3, <1>4, <1>5, <1>6, <1>7 DEF Next

\* The reader, the pump and the subscribers never send on a closed channel and
\* never close one twice, whatever the order in which they take ls.mu.
THEOREM NeverPanics == Spec => []NoPanic
<1>1. SafeChannels => NoPanic
  BY DEF SafeChannels
<1> QED BY <1>1, SafeInit, SafeStep, PTL DEF Spec

-----------------------------------------------------------------------------
(* What is in the buffers *)

\* The chunks that broadcast has been through.
Sent == IF pending THEN produced - 1 ELSE produced

\* A pending chunk has been produced, and is at the end of the scrollback.
Snapshot ==
    /\ pending => produced > 0
    /\ produced = 0 => sb = <<>>
    /\ produced > 0 => sb # <<>> /\ sb[Len(sb)] = produced

DataInv == TypeOK /\ Snapshot

\* The scrollback keeps its newest chunk and no more than its capacity.
LEMMA TrimKeeps ==
    ASSUME NEW S, NEW s \in Seq(S), NEW n \in S, NEW t, t = Trim(Append(s, n)),
           Len(s) <= Lines
    PROVE  t \in Seq(S) /\ t # <<>> /\ t[Len(t)] = n /\ Len(t) <= Lines
<1> DEFINE a == Append(s, n)
           m == Len(a) - Lines + 1
<1>1. a \in Seq(S) /\ Len(a) = Len(s) + 1 /\ Len(s) \in Nat /\ a[Len(s) + 1] = n /\ a # <<>>
  BY AppendProperties, LenProperties
<1>2. CASE Len(a) <= Lines
  <2>1. t = a
    BY <1>1, <1>2, StreamAssumption DEF Trim
  <2> QED BY <1>1, <1>2, <2>1
<1>3. CASE Len(a) > Lines
  <2>1. t = SubSeq(a, m, Len(a))
    BY <1>3 DEF Trim
  <2>2. m \in Int /\ Len(a) \in Int /\ 1 <= m /\ m <= Len(a) /\ Len(a) - m + 1 = Lines /\ Lines \in Nat \ {0}
    BY <1>1, <1>3, StreamAssumption
  <2>3. \A i \in m..Len(a) : a[i] \in S
    BY <1>1, <2>2, ElementOfSeq
  <2>4. a[Len(a)] = n
    BY <1>1
  <2> HIDE DEF a, m
  <2>5. t \in Seq(S) /\ Len(t) = Lines /\ \A i \in 1..Lines : t[i] = a[m + i - 1]
    BY <2>1, <2>2, <2>3, SubSeqProperties
  <2>6. Lines \in 1..Lines /\ m + Lines - 1 = Len(a)
    BY <2>2
  <2>7. t # <<>>
    BY <2>2, <2>5, EmptySeq
  <2>8. t[Lines] = a[m + Lines - 1]
    BY <2>5, <2>6
  <2>9. t[Len(t)] = n
    BY <2>4, <2>5, <2>6, <2>8
  <2> QED BY <2>2, <2>5, <2>7, <2>9
<1> QED BY <1>1, <1>2, <1>3, StreamAssumption

\* Chunks and Stopped are events.
LEMMA EventsAre == Stopped \in Events /\ 0 \in Events /\ \A n \in 1..MaxChunk : n \in Events
BY StreamAssumption DEF Stopped, Events

LEMMA DataInit == Init => DataInv
<1> SUFFICES ASSUME Init PROVE DataInv
  OBVIOUS
<1>1. sb = <<>> /\ <<>> \in Seq(1..MaxChunk) /\ Len(<<>>) = 0
  BY EmptySeq DEF Init
<1>2. chan \in [Subs -> Seq(Events)] /\ got \in [Subs -> Seq(Events)]
  BY EmptySeq DEF Init
<1>3. ASSUME NEW c \in Subs PROVE Len(chan[c]) <= SubBuffer
  <2>1. chan[c] = <<>>
    BY DEF Init
  <2>2. Len(chan[c]) = 0
    BY ONLY <1>1, <2>1, Zenon
  <2> QED BY ONLY <2>2, StreamAssumption
<1>4. Len(sb) <= Lines
  BY ONLY <1>1, StreamAssumption
<1>5. Snapshot
  BY <1>1 DEF Init, Snapshot
<1>6. base \in [Subs -> 0..MaxChunk] /\ produced \in 0..MaxChunk
  BY StreamAssumption DEF Init
<1> QED BY <1>1, <1>2, <1>3, <1>4, <1>5, <1>6 DEF Init, DataInv, TypeOK

LEMMA DataStep == DataInv /\ [Next]_vars => DataInv'
<1> SUFFICES ASSUME DataInv, [Next]_vars PROVE DataInv'
  OBVIOUS
<1>0. \A c \in Subs : Len(chan[c]) \in Nat
  BY LenProperties DEF DataInv, TypeOK
<1> USE StreamAssumption, EventsAre DEF DataInv, TypeOK, Snapshot, hostVars, userVars
<1>1. CASE ReadChunk
  <2> DEFINE n == produced + 1
  <2>1. n \in 1..MaxChunk
    BY <1>1 DEF ReadChunk
  <2>2. sb \in Seq(1..MaxChunk) /\ Len(sb) <= Lines /\ sb' = Trim(Append(sb, n))
    BY <1>1 DEF ReadChunk
  <2> HIDE DEF n
  <2>3. sb' \in Seq(1..MaxChunk) /\ sb' # <<>> /\ sb'[Len(sb')] = n /\ Len(sb') <= Lines
    BY ONLY <2>1, <2>2, TrimKeeps
  <2> QED BY <1>1, <2>1, <2>3 DEF ReadChunk, n
<1>2. CASE Broadcast
  <2>1. produced \in 1..MaxChunk
    BY <1>2 DEF Broadcast
  <2>2. ASSUME NEW c \in Subs PROVE chan'[c] \in Seq(Events) /\ Len(chan'[c]) <= SubBuffer
    <3>1. CASE c \in subs \ Crowded
      <4>1. chan'[c] = Append(chan[c], produced) /\ Len(chan[c]) < SubBuffer
        BY <1>0, <1>2, <3>1 DEF Broadcast, Crowded
      <4>2. produced \in Events /\ chan[c] \in Seq(Events)
        BY <2>1
      <4> QED BY <1>0, <4>1, <4>2, AppendProperties
    <3>2. CASE c \notin subs \ Crowded
      BY <1>2, <3>2 DEF Broadcast
    <3> QED BY <3>1, <3>2
  <2>3. chan' \in [Subs -> Seq(Events)]
    BY <1>2, <2>2 DEF Broadcast
  <2>4. dropped' \in [Subs -> SUBSET (1..MaxChunk)]
    BY <1>2, <2>1 DEF Broadcast
  <2>5. panicked' \in BOOLEAN
    BY <1>2, Zenon DEF Broadcast
  <2> QED BY <1>2, <2>2, <2>3, <2>4, <2>5 DEF Broadcast
<1>3. CASE PTYEnds
  BY <1>3 DEF PTYEnds
<1>4. CASE FinalizeMark \/ FinalizeRemove
  BY <1>4 DEF FinalizeMark, FinalizeRemove
<1>5. ASSUME NEW c \in Subs, FinalizeNotify(c) PROVE DataInv'
  <2>1. Append(chan[c], Stopped) \in Seq(Events) /\ Len(Append(chan[c], Stopped)) <= SubBuffer
    BY <1>0, <1>5, AppendProperties DEF FinalizeNotify
  <2>2. panicked' \in BOOLEAN
    BY <1>5, Zenon DEF FinalizeNotify
  <2> QED BY <1>5, <2>1, <2>2 DEF FinalizeNotify
<1>6. ASSUME NEW c \in Subs, Subscribe(c) PROVE DataInv'
  <2>1. <<Stopped>> \in Seq(Events) /\ Len(<<Stopped>>) = 1
    OBVIOUS
  <2>2. chan' = chan \/ chan' = [chan EXCEPT ![c] = <<Stopped>>]
    BY <1>6 DEF Subscribe
  <2>3. chan' \in [Subs -> Seq(Events)]
    BY <2>1, <2>2
  <2>4. ASSUME NEW d \in Subs PROVE Len(chan'[d]) <= SubBuffer
    <3>1. chan'[d] = chan[d] \/ chan'[d] = <<Stopped>>
      BY <2>2
    <3>2. Len(chan[d]) <= SubBuffer /\ 1 <= SubBuffer
      OBVIOUS
    <3>3. Len(chan'[d]) = Len(chan[d]) \/ Len(chan'[d]) = 1
      BY ONLY <2>1, <3>1, Zenon
    <3> QED BY ONLY <3>2, <3>3
  <2> QED BY <1>6, <2>3, <2>4 DEF Subscribe
<1>7. ASSUME NEW c \in Subs, Cancel(c) PROVE DataInv'
  <2>1. panicked' \in BOOLEAN
    BY <1>7, Zenon DEF Cancel
  <2> QED BY <1>7, <2>1 DEF Cancel
<1>8. ASSUME NEW c \in Subs, Replay(c) PROVE DataInv'
  <2>1. sb # <<>> => sb[Len(sb)] \in 1..MaxChunk
    OBVIOUS
  <2> QED BY <1>8, <2>1 DEF Replay
<1>9. ASSUME NEW c \in Subs, Receive(c) PROVE DataInv'
  <2>1. chan[c] \in Seq(Events) /\ chan[c] # <<>> /\ got[c] \in Seq(Events)
    BY <1>9 DEF Receive
  <2>2. /\ Head(chan[c]) \in Events /\ Tail(chan[c]) \in Seq(Events)
        /\ Len(Tail(chan[c])) = Len(chan[c]) - 1
    BY ONLY <2>1, HeadTailProperties
  <2>3. Append(got[c], Head(chan[c])) \in Seq(Events)
    BY ONLY <2>1, <2>2, AppendProperties
  <2> QED BY <1>0, <1>9, <2>2, <2>3 DEF Receive
<1>10. ASSUME NEW c \in Subs, Drained(c) PROVE DataInv'
  BY <1>10 DEF Drained
<1>11. CASE AllOver \/ UNCHANGED vars
  BY <1>11 DEF AllOver, vars
<1> QED
  BY <1>1, <1>2, <1>3, <1>4, <1>5, <1>6, <1>7, <1>8, <1>9, <1>10, <1>11
     DEF Next, Reader, Pump, StreamPump

\* Every variable keeps its type: above all, no channel of Subscribe ever holds
\* more than subBuffer events, and the scrollback never more than its capacity.
THEOREM StreamTypes == Spec => []TypeOK
<1>1. DataInv => TypeOK
  BY DEF DataInv
<1> QED BY <1>1, DataInit, DataStep, PTL DEF Spec

-----------------------------------------------------------------------------
(* No hole between the scrollback and the stream *)

Holds(s, e) == \E i \in 1..Len(s) : s[i] = e

LEMMA ConcatHolds ==
    ASSUME NEW S, NEW s \in Seq(S), NEW t \in Seq(S), NEW e
    PROVE  Holds(s \o t, e) <=> Holds(s, e) \/ Holds(t, e)
<1>1. Len(s) \in Nat /\ Len(t) \in Nat
  BY LenProperties
<1>2. Len(s \o t) = Len(s) + Len(t)
  BY ConcatProperties
<1>3. \A i \in 1..Len(s) : (s \o t)[i] = s[i]
  BY <1>1, ConcatProperties
<1>4. \A i \in 1..Len(t) : (s \o t)[Len(s) + i] = t[i]
  BY <1>1, ConcatProperties
<1>5. ASSUME Holds(s, e) PROVE Holds(s \o t, e)
  BY <1>1, <1>2, <1>3, <1>5 DEF Holds
<1>6. ASSUME Holds(t, e) PROVE Holds(s \o t, e)
  <2>1. PICK i \in 1..Len(t) : t[i] = e
    BY <1>6 DEF Holds
  <2>2. Len(s) + i \in 1..Len(s \o t) /\ (s \o t)[Len(s) + i] = e
    BY <1>1, <1>2, <1>4, <2>1
  <2> QED BY <2>2 DEF Holds
<1>7. ASSUME Holds(s \o t, e) PROVE Holds(s, e) \/ Holds(t, e)
  <2>1. PICK i \in 1..(Len(s) + Len(t)) : (s \o t)[i] = e
    BY <1>2, <1>7 DEF Holds
  <2>2. CASE i <= Len(s)
    BY <1>1, <1>3, <2>1, <2>2 DEF Holds
  <2>3. CASE i > Len(s)
    <3>1. i - Len(s) \in 1..Len(t) /\ Len(s) + (i - Len(s)) = i
      BY <1>1, <2>1, <2>3
    <3>2. t[i - Len(s)] = e
      BY <1>4, <2>1, <3>1
    <3> QED BY <3>1, <3>2 DEF Holds
  <2> QED BY <1>1, <2>1, <2>2, <2>3
<1> QED BY <1>5, <1>6, <1>7

LEMMA AppendHolds ==
    ASSUME NEW S, NEW s \in Seq(S), NEW a \in S, NEW e
    PROVE  Holds(Append(s, a), e) <=> Holds(s, e) \/ e = a
<1>1. Len(s) \in Nat /\ Len(Append(s, a)) = Len(s) + 1
  BY LenProperties, AppendProperties
<1>2. Append(s, a)[Len(s) + 1] = a /\ \A i \in 1..Len(s) : Append(s, a)[i] = s[i]
  BY AppendProperties
<1> QED BY <1>1, <1>2 DEF Holds

LEMMA TailHolds ==
    ASSUME NEW S, NEW s \in Seq(S), s # <<>>, NEW e
    PROVE  Holds(s, e) <=> Holds(Tail(s), e) \/ e = Head(s)
<1>1. Len(s) \in Nat /\ Len(s) >= 1 /\ Head(s) = s[1] /\ Len(Tail(s)) = Len(s) - 1
  BY LenProperties, EmptySeq, HeadTailProperties
<1>2. \A i \in 1..Len(Tail(s)) : Tail(s)[i] = s[i + 1]
  BY HeadTailProperties
<1>3. ASSUME Holds(Tail(s), e) PROVE Holds(s, e)
  BY <1>1, <1>2, <1>3 DEF Holds
<1>4. ASSUME Holds(s, e), e # Head(s) PROVE Holds(Tail(s), e)
  <2>1. PICK i \in 1..Len(s) : s[i] = e
    BY <1>4 DEF Holds
  <2>2. i - 1 \in 1..Len(Tail(s)) /\ (i - 1) + 1 = i
    BY <1>1, <1>4, <2>1
  <2>3. Tail(s)[i - 1] = e
    BY <1>2, <2>1, <2>2
  <2> QED BY <2>2, <2>3 DEF Holds
<1>5. e = Head(s) => Holds(s, e)
  BY <1>1 DEF Holds
<1> QED BY <1>3, <1>4, <1>5

\* What is in the subscriber's hands, or was lost to its full buffer.
HasOrLost(c, n) == n \in dropped[c] \/ Holds(got[c], n) \/ Holds(chan[c], n)

NoGap ==
    \A c \in subs : user[c] = "streaming" => \A n \in (base[c] + 1)..Sent : HasOrLost(c, n)

LEMMA NoGapSuffices == TypeOK /\ NoGap => NoGapAfterReplay
<1> SUFFICES ASSUME TypeOK, NoGap, NEW c \in subs, user[c] = "streaming",
                    NEW n \in (base[c] + 1)..Sent
             PROVE  n \in dropped[c] \/ Holds(Stream(c), n)
  BY DEF NoGapAfterReplay, Sent, Holds
<1>1. got[c] \in Seq(Events) /\ chan[c] \in Seq(Events)
  BY DEF TypeOK
<1>2. Holds(Stream(c), n) <=> Holds(got[c], n) \/ Holds(chan[c], n)
  BY <1>1, ConcatHolds DEF Stream
<1> QED BY <1>2 DEF NoGap, HasOrLost

GapInv == DataInv /\ SafeChannels /\ NoGap

\* The snapshot of a subscriber that subscribed first misses nothing that has
\* been broadcast by then; afterwards broadcast reaches it.
LEMMA NoGapStep == GapInv /\ [Next]_vars => NoGap'
<1> SUFFICES ASSUME GapInv, [Next]_vars, NEW c \in subs', user'[c] = "streaming",
                    NEW n \in (base'[c] + 1)..Sent'
             PROVE  HasOrLost(c, n)'
  BY DEF NoGap
<1>0. DataInv' /\ c \in Subs /\ n \in Nat
  BY DataStep, SafeStep DEF GapInv, DataInv, TypeOK, Sent, SafeChannels, Shapes
<1>1. ASSUME UNCHANGED <<chan, got, dropped>>, c \in subs, user[c] = "streaming", base'[c] = base[c],
             Sent' = Sent
      PROVE  HasOrLost(c, n)'
  BY <1>1 DEF GapInv, NoGap, HasOrLost
<1> USE DEF hostVars, userVars
<1>2. CASE ReadChunk
  <2>1. Sent' = Sent
    BY <1>2 DEF ReadChunk, Sent, GapInv, DataInv, TypeOK
  <2> QED BY <1>1, <1>2, <2>1 DEF ReadChunk
<1>3. CASE Broadcast
  <2>1. c \in subs /\ user[c] = "streaming" /\ base'[c] = base[c] /\ got' = got /\ Sent = produced - 1
        /\ Sent' = produced
    BY <1>3 DEF Broadcast, Sent
  <2>2. chan[c] \in Seq(Events) /\ produced \in Events /\ produced \in Nat /\ base[c] \in Nat
    BY <1>0 DEF GapInv, DataInv, TypeOK, Events
  <2>3. CASE n = produced
    <3>1. CASE c \in Crowded
      BY <1>0, <1>3, <2>3, <3>1 DEF Broadcast, HasOrLost
    <3>2. CASE c \notin Crowded
      <4>1. chan'[c] = Append(chan[c], produced)
        BY <1>0, <1>3, <2>1, <3>2 DEF Broadcast
      <4>2. Holds(chan'[c], n)
        BY <2>2, <2>3, <4>1, AppendHolds
      <4> QED BY <4>2 DEF HasOrLost
    <3> QED BY <3>1, <3>2
  <2>4. CASE n # produced
    <3>1. n \in (base[c] + 1)..Sent
      BY <2>1, <2>2, <2>4
    <3>2. HasOrLost(c, n)
      BY <2>1, <3>1 DEF GapInv, NoGap
    <3>3. dropped[c] \subseteq dropped'[c]
      BY <1>0, <1>3 DEF Broadcast
    <3>4. chan'[c] = chan[c] \/ chan'[c] = Append(chan[c], produced)
      BY <1>0, <1>3 DEF Broadcast
    <3>5. Holds(chan[c], n) => Holds(Append(chan[c], produced), n)
      BY <2>2, AppendHolds
    <3>6. Holds(chan[c], n) => Holds(chan'[c], n)
      BY <3>4, <3>5
    <3> QED BY <2>1, <3>2, <3>3, <3>6 DEF HasOrLost
  <2> QED BY <2>3, <2>4
<1>4. CASE PTYEnds \/ FinalizeMark \/ FinalizeRemove \/ AllOver
  BY <1>1, <1>4 DEF PTYEnds, FinalizeMark, FinalizeRemove, AllOver, vars, Sent
<1>5. ASSUME NEW d \in Subs, FinalizeNotify(d) PROVE HasOrLost(c, n)'
  <2>1. subs = {}
    BY <1>5 DEF FinalizeNotify, GapInv, SafeChannels, ChannelsAreOpen
  <2> QED BY <1>5, <2>1 DEF FinalizeNotify
<1>6. ASSUME NEW d \in Subs, Subscribe(d) PROVE HasOrLost(c, n)'
  <2>1. c # d
    BY <1>0, <1>6 DEF Subscribe, GapInv, DataInv, TypeOK
  <2>2. c \in subs /\ user[c] = "streaming" /\ Sent' = Sent /\ got' = got /\ base' = base /\ dropped' = dropped
    BY <1>0, <1>6, <2>1 DEF Subscribe, GapInv, DataInv, TypeOK, Sent
  <2>3. chan' = chan
    BY <1>6, <2>2 DEF Subscribe, GapInv, SafeChannels, ChannelsAreOpen
  <2> QED BY <1>1, <2>2, <2>3
<1>7. ASSUME NEW d \in Subs, Cancel(d) PROVE HasOrLost(c, n)'
  <2>1. c \in subs /\ user[c] = "streaming"
    BY <1>0, <1>7 DEF Cancel, GapInv, DataInv, TypeOK
  <2> QED BY <1>1, <1>7, <2>1 DEF Cancel, Sent
<1>8. ASSUME NEW d \in Subs, Replay(d) PROVE HasOrLost(c, n)'
  <2>1. CASE c = d
    <3>1. step = "wait"
      BY <1>8 DEF Replay, GapInv, SafeChannels, ChannelsAreOpen
    <3>2. base'[c] = produced
      BY <1>0, <1>8, <2>1, <3>1 DEF Replay, GapInv, DataInv, TypeOK, Snapshot
    <3>3. Sent' <= produced /\ produced \in Nat /\ Sent' \in Int
      BY <1>8 DEF Replay, Sent, GapInv, DataInv, TypeOK
    <3> QED BY <3>2, <3>3
  <2>2. CASE c # d
    BY <1>0, <1>1, <1>8, <2>2 DEF Replay, Sent, GapInv, DataInv, TypeOK
  <2> QED BY <2>1, <2>2
<1>9. ASSUME NEW d \in Subs, Receive(d) PROVE HasOrLost(c, n)'
  <2>1. c \in subs /\ user[c] = "streaming" /\ base' = base /\ Sent' = Sent /\ dropped' = dropped
    BY <1>0, <1>9 DEF Receive, Sent, GapInv, DataInv, TypeOK
  <2>2. HasOrLost(c, n)
    BY <2>1 DEF GapInv, NoGap
  <2>3. CASE c # d
    BY <1>0, <1>9, <2>1, <2>2, <2>3 DEF Receive, HasOrLost, GapInv, DataInv, TypeOK
  <2>4. CASE c = d
    <3>1. chan[c] \in Seq(Events) /\ chan[c] # <<>> /\ got[c] \in Seq(Events)
      BY <1>9, <2>4 DEF Receive, GapInv, DataInv, TypeOK
    <3>2. chan'[c] = Tail(chan[c]) /\ got'[c] = Append(got[c], Head(chan[c]))
      BY <1>9, <2>4 DEF Receive, GapInv, DataInv, TypeOK
    <3>3. Head(chan[c]) \in Events
      BY <3>1, HeadTailProperties
    <3>4. Holds(chan[c], n) => Holds(chan'[c], n) \/ n = Head(chan[c])
      BY <3>1, <3>2, TailHolds
    <3>5. Holds(got'[c], n) <=> Holds(got[c], n) \/ n = Head(chan[c])
      BY <3>1, <3>2, <3>3, AppendHolds
    <3> QED BY <2>1, <2>2, <3>4, <3>5 DEF HasOrLost
  <2> QED BY <2>3, <2>4
<1>10. ASSUME NEW d \in Subs, Drained(d) PROVE HasOrLost(c, n)'
  <2>1. c \in subs /\ user[c] = "streaming"
    BY <1>0, <1>10 DEF Drained, GapInv, DataInv, TypeOK
  <2> QED BY <1>1, <1>10, <2>1 DEF Drained, Sent
<1>11. CASE UNCHANGED vars
  BY <1>1, <1>11 DEF vars, Sent
<1> QED
  BY <1>2, <1>3, <1>4, <1>5, <1>6, <1>7, <1>8, <1>9, <1>10, <1>11
     DEF Next, Reader, Pump, StreamPump

\* Between the scrollback a subscriber replays and its stream there is no hole:
\* what broadcast has sent since is in its channel, was received, or was dropped
\* because the buffer was full.
THEOREM NothingMissedAfterReplay == Spec => []NoGapAfterReplay
<1>1. Init => GapInv
  BY DataInit, SafeInit DEF Init, GapInv, NoGap
<1>2. GapInv /\ [Next]_vars => GapInv'
  BY DataStep, SafeStep, NoGapStep DEF GapInv
<1>3. GapInv => NoGapAfterReplay
  BY NoGapSuffices DEF GapInv, DataInv
<1> QED BY <1>1, <1>2, <1>3, PTL DEF Spec

-----------------------------------------------------------------------------
(* The channels implement the contract *)

\* A buffer that takes up after chunk lo and holds nothing newer than hi: its
\* chunks ascend, and nothing follows Stopped.
Within(s, lo, hi) == \A i \in 1..Len(s) : s[i] # Stopped => lo < s[i] /\ s[i] <= hi
Ascends(s) ==
    \A i, j \in 1..Len(s) : i < j => s[i] # Stopped /\ (s[j] # Stopped => s[i] < s[j])

\* The last event a subscriber received is Stopped.
WasTold(c) == got[c] # <<>> /\ got[c][Len(got[c])] = Stopped

\* What is still to come is newer than what was received, Stopped is only sent
\* to a channel that is then closed, and who has received it has left.
StreamsFlow ==
    \A c \in Subs :
        /\ LastSeen(got[c]) <= Sent
        /\ Within(chan[c], LastSeen(got[c]), Sent) /\ Ascends(chan[c])
        /\ Holds(chan[c], Stopped) => step # "wait" /\ gate[c] = "closed"
        /\ user[c] # "left" => ~WasTold(c)
        /\ user[c] = "idle" => got[c] = <<>>

StreamInv == DataInv /\ SafeChannels /\ StreamsFlow

\* A chunk newer than everything buffered goes to the end of a buffer.
LEMMA AppendFlows ==
    ASSUME NEW s \in Seq(Nat), NEW lo \in Nat, NEW hi \in Nat, NEW n \in Nat,
           hi < n, lo <= hi, Within(s, lo, hi), Ascends(s), ~Holds(s, Stopped)
    PROVE  Within(Append(s, n), lo, n) /\ Ascends(Append(s, n))
<1> DEFINE t == Append(s, n)
<1>1. Len(s) \in Nat /\ Len(t) = Len(s) + 1 /\ t[Len(s) + 1] = n
  BY LenProperties, AppendProperties
<1>2. \A i \in 1..Len(s) : t[i] = s[i] /\ s[i] # Stopped /\ lo < s[i] /\ s[i] <= hi /\ s[i] \in Nat
  BY AppendProperties, ElementOfSeq DEF Within, Holds
<1> HIDE DEF t
<1>3. \A i \in 1..Len(t) : i \in 1..Len(s) \/ i = Len(s) + 1
  BY <1>1
<1>4. Within(t, lo, n)
  BY <1>1, <1>2, <1>3 DEF Within
<1>5. ASSUME NEW i \in 1..Len(t), NEW j \in 1..Len(t), i < j
      PROVE  t[i] # Stopped /\ (t[j] # Stopped => t[i] < t[j])
  <2>1. i \in 1..Len(s)
    BY <1>1, <1>5
  <2>2. CASE j \in 1..Len(s)
    BY <1>2, <1>5, <2>1, <2>2 DEF Ascends
  <2>3. CASE j = Len(s) + 1
    BY <1>1, <1>2, <2>1, <2>3
  <2> QED BY <1>3, <2>2, <2>3
<1> QED BY <1>4, <1>5 DEF t, Ascends

\* Stopped goes to the end of a buffer that does not hold it.
LEMMA StopFlows ==
    ASSUME NEW s \in Seq(Nat), NEW lo \in Nat, NEW hi \in Nat, Stopped \in Nat,
           Within(s, lo, hi), Ascends(s), ~Holds(s, Stopped)
    PROVE  Within(Append(s, Stopped), lo, hi) /\ Ascends(Append(s, Stopped))
<1> DEFINE t == Append(s, Stopped)
<1>1. Len(s) \in Nat /\ Len(t) = Len(s) + 1 /\ t[Len(s) + 1] = Stopped
  BY LenProperties, AppendProperties
<1>2. \A i \in 1..Len(s) : t[i] = s[i] /\ s[i] # Stopped
  BY AppendProperties DEF Holds
<1> HIDE DEF t
<1>3. \A i \in 1..Len(t) : i \in 1..Len(s) \/ i = Len(s) + 1
  BY <1>1
<1>4. Within(t, lo, hi)
  BY <1>1, <1>2, <1>3 DEF Within
<1>5. ASSUME NEW i \in 1..Len(t), NEW j \in 1..Len(t), i < j
      PROVE  t[i] # Stopped /\ (t[j] # Stopped => t[i] < t[j])
  <2>1. i \in 1..Len(s)
    BY <1>1, <1>5
  <2>2. CASE j \in 1..Len(s)
    BY <1>2, <1>5, <2>1, <2>2 DEF Ascends
  <2>3. CASE j = Len(s) + 1
    BY <1>1, <1>2, <2>1, <2>3
  <2> QED BY <1>3, <2>2, <2>3
<1> QED BY <1>4, <1>5 DEF t, Ascends

\* What follows the head of a buffer is newer than the head.
LEMMA TailFlows ==
    ASSUME NEW s \in Seq(Nat), s # <<>>, NEW lo \in Nat, NEW hi \in Nat,
           Within(s, lo, hi), Ascends(s)
    PROVE  /\ Within(Tail(s), lo, hi) /\ Ascends(Tail(s))
           /\ Head(s) # Stopped =>
                lo < Head(s) /\ Head(s) <= hi /\ Within(Tail(s), Head(s), hi)
<1> DEFINE t == Tail(s)
<1>1. Len(s) \in Nat /\ Len(s) >= 1 /\ Head(s) = s[1] /\ Len(t) = Len(s) - 1
  BY LenProperties, EmptySeq, HeadTailProperties
<1>2. \A i \in 1..Len(t) : t[i] = s[i + 1]
  BY HeadTailProperties
<1> HIDE DEF t
<1>3. \A i \in 1..Len(t) : i + 1 \in 1..Len(s) /\ 1 < i + 1
  BY <1>1
<1>4. Within(t, lo, hi)
  BY <1>2, <1>3 DEF Within
<1>5. ASSUME NEW i \in 1..Len(t), NEW j \in 1..Len(t), i < j
      PROVE  t[i] # Stopped /\ (t[j] # Stopped => t[i] < t[j])
  <2>1. i + 1 \in 1..Len(s) /\ j + 1 \in 1..Len(s) /\ i + 1 < j + 1
    BY <1>3, <1>5
  <2>2. s[i + 1] # Stopped /\ (s[j + 1] # Stopped => s[i + 1] < s[j + 1])
    BY <2>1 DEF Ascends
  <2> QED BY <1>2, <2>2
<1>6. ASSUME Head(s) # Stopped PROVE lo < s[1] /\ s[1] <= hi /\ Within(t, s[1], hi)
  <2>1. lo < s[1] /\ s[1] <= hi /\ 1 \in 1..Len(s)
    BY <1>1, <1>6 DEF Within
  <2>2. ASSUME NEW i \in 1..Len(t), t[i] # Stopped PROVE s[1] < t[i] /\ t[i] <= hi
    <3>1. s[i + 1] # Stopped /\ i + 1 \in 1..Len(s) /\ 1 < i + 1
      BY <1>2, <1>3, <2>2
    <3>2. s[1] < s[i + 1]
      BY <2>1, <3>1 DEF Ascends
    <3> QED BY <1>2, <1>4, <2>2, <3>2 DEF Within
  <2> QED BY <2>1, <2>2 DEF Within
<1> QED BY <1>1, <1>4, <1>5, <1>6 DEF t, Ascends

\* Receiving a chunk moves LastSeen to it, receiving Stopped leaves it.
LEMMA LastSeenMoves ==
    ASSUME NEW s \in Seq(Nat), NEW e \in Nat
    PROVE  /\ LastSeen(s) \in Nat
           /\ Append(s, e) # <<>> /\ Append(s, e)[Len(Append(s, e))] = e
           /\ e # Stopped => LastSeen(Append(s, e)) = e
           /\ e = Stopped /\ (s = <<>> \/ s[Len(s)] # Stopped) =>
                LastSeen(Append(s, e)) = LastSeen(s)
<1> DEFINE a == Append(s, e)
<1>1. Len(s) \in Nat /\ Len(a) = Len(s) + 1 /\ a[Len(s) + 1] = e /\ a # <<>>
  BY LenProperties, AppendProperties
<1>2. \A i \in 1..Len(s) : a[i] = s[i] /\ s[i] \in Nat
  BY AppendProperties, ElementOfSeq
<1>3. s # <<>> => Len(s) \in 1..Len(s) /\ s[Len(s)] \in Nat
  BY <1>1, <1>2, EmptySeq
<1>4. s = <<>> <=> Len(s) = 0
  BY <1>1, EmptySeq
<1> HIDE DEF a
<1>5. LastSeen(s) \in Nat
  <2>1. ASSUME s # <<>>, Len(s) # 1 PROVE s[Len(s) - 1] \in Nat
    <3>1. Len(s) # 0 /\ Len(s) # 1 /\ Len(s) \in Nat
      BY <1>1, <1>4, <2>1, Zenon
    <3> DEFINE k == Len(s)
    <3> HIDE DEF k
    <3>2. k # 0 /\ k # 1 /\ k \in Nat => k - 1 \in 1..k
      OBVIOUS
    <3>3. Len(s) - 1 \in 1..Len(s)
      BY <3>1, <3>2 DEF k
    <3> QED BY <1>2, <3>3
  <2> QED BY <1>3, <2>1 DEF LastSeen
<1>6. e # Stopped => LastSeen(a) = e
  BY <1>1 DEF LastSeen
<1>7. ASSUME e = Stopped, s = <<>> \/ s[Len(s)] # Stopped PROVE LastSeen(a) = LastSeen(s)
  BY <1>1, <1>2, <1>3, <1>4, <1>7 DEF LastSeen
<1>8. a[Len(a)] = e
  BY <1>1
<1> QED BY <1>1, <1>5, <1>6, <1>7, <1>8 DEF a

LEMMA StreamsInit == Init => StreamsFlow
<1> SUFFICES ASSUME Init PROVE StreamsFlow
  OBVIOUS
<1>1. ASSUME NEW c \in Subs PROVE got[c] = <<>> /\ chan[c] = <<>> /\ Sent = 0
  BY DEF Init, Sent
<1>2. \A i \in 1..Len(<<>>) : FALSE
  BY EmptySeq
<1>3. \A lo, hi : Within(<<>>, lo, hi) /\ Ascends(<<>>) /\ ~Holds(<<>>, Stopped)
  BY <1>2 DEF Within, Ascends, Holds
<1>4. LastSeen(<<>>) = 0
  BY DEF LastSeen
<1>5. \A c \in Subs : /\ LastSeen(got[c]) = 0 /\ ~WasTold(c)
                      /\ Within(chan[c], LastSeen(got[c]), Sent) /\ Ascends(chan[c])
                      /\ ~Holds(chan[c], Stopped)
  BY <1>1, <1>3, <1>4, Zenon DEF WasTold
<1>6. ASSUME NEW c \in Subs PROVE LastSeen(got[c]) <= Sent
  <2>1. LastSeen(got[c]) = 0 /\ Sent = 0
    BY <1>1, <1>5, Zenon
  <2> QED BY ONLY <2>1
<1>7. \A c \in Subs : user[c] = "idle" => got[c] = <<>>
  BY <1>1
<1> QED BY ONLY <1>5, <1>6, <1>7, Zenon DEF StreamsFlow

LEMMA StreamsStep == StreamInv /\ [Next]_vars => StreamsFlow'
<1> SUFFICES ASSUME StreamInv, [Next]_vars PROVE StreamsFlow'
  OBVIOUS
<1> DEFINE Good(c) == /\ LastSeen(got[c]) <= Sent
                      /\ Within(chan[c], LastSeen(got[c]), Sent) /\ Ascends(chan[c])
                      /\ Holds(chan[c], Stopped) => step # "wait" /\ gate[c] = "closed"
                      /\ user[c] # "left" => ~WasTold(c)
                      /\ user[c] = "idle" => got[c] = <<>>
<1>0. \A c \in Subs : Good(c)
  BY DEF StreamInv, StreamsFlow
<1>t. ASSUME NEW c \in Subs
      PROVE  /\ chan[c] \in Seq(Nat) /\ got[c] \in Seq(Nat)
             /\ LastSeen(got[c]) \in Nat /\ Sent \in Nat /\ Stopped \in Nat
  <2>1. chan[c] \in Seq(Events) /\ got[c] \in Seq(Events) /\ Events \subseteq Nat
    BY DEF StreamInv, DataInv, TypeOK, Events
  <2>2. chan[c] \in Seq(Nat) /\ got[c] \in Seq(Nat)
    BY <2>1, SeqMonotonic
  <2>3. Stopped \in Nat /\ Sent \in Nat
    BY DEF Stopped, Sent, StreamInv, DataInv, TypeOK, Snapshot
  <2> QED BY <2>2, <2>3, LastSeenMoves
<1> SUFFICES ASSUME NEW c \in Subs PROVE Good(c)'
  BY DEF StreamsFlow
<1>s. ASSUME chan'[c] = chan[c], got'[c] = got[c], user'[c] = user[c], Sent' = Sent,
             gate'[c] = gate[c] \/ gate'[c] = "closed", step' = step \/ step' # "wait"
      PROVE  Good(c)'
  BY <1>0, <1>s DEF WasTold
<1> USE DEF hostVars, userVars
<1>1. CASE ReadChunk
  <2>1. Sent' = Sent
    BY <1>1 DEF ReadChunk, Sent, StreamInv, DataInv, TypeOK
  <2> QED BY <1>s, <1>1, <2>1 DEF ReadChunk
<1>2. CASE Broadcast
  <2>1. Sent' = produced /\ Sent < produced /\ produced \in Nat /\ produced # Stopped
    BY <1>2 DEF Broadcast, Sent, Stopped, StreamInv, DataInv, TypeOK, Snapshot
  <2>2. got' = got /\ user' = user /\ gate' = gate /\ step' = step
    BY <1>2 DEF Broadcast
  <2>3. CASE c \in subs \ Crowded
    <3>1. chan'[c] = Append(chan[c], produced)
      BY <1>2, <2>3 DEF Broadcast
    <3>2. ~Holds(chan[c], Stopped)
      BY <1>0, <2>3 DEF StreamInv, SafeChannels, ChannelsAreOpen
    <3>3. Within(chan'[c], LastSeen(got[c]), produced) /\ Ascends(chan'[c])
      BY <1>0, <1>t, <2>1, <3>1, <3>2, AppendFlows
    <3>4. ~Holds(chan'[c], Stopped)
      BY <1>t, <2>1, <3>1, <3>2, AppendHolds
    <3> QED BY <1>0, <1>t, <2>1, <2>2, <3>3, <3>4 DEF WasTold
  <2>4. CASE c \notin subs \ Crowded
    <3>1. chan'[c] = chan[c]
      BY <1>2, <2>4 DEF Broadcast
    <3>2. \A i \in 1..Len(chan[c]) : chan[c][i] \in Nat
      BY <1>t, ElementOfSeq
    <3>3. Within(chan[c], LastSeen(got[c]), produced)
      BY <1>0, <1>t, <2>1, <3>2 DEF Within
    <3> QED BY <1>0, <1>t, <2>1, <2>2, <3>1, <3>3 DEF WasTold
  <2> QED BY <2>3, <2>4
<1>3. CASE PTYEnds \/ FinalizeMark \/ FinalizeRemove
  BY <1>s, <1>3 DEF PTYEnds, FinalizeMark, FinalizeRemove, Sent
<1>4. ASSUME NEW d \in Subs, FinalizeNotify(d) PROVE Good(c)'
  <2>1. Sent' = Sent /\ step' = step /\ got' = got /\ user' = user /\ step # "wait"
    BY <1>4 DEF FinalizeNotify, Sent
  <2>2. CASE c = d
    <3>1. chan'[c] = Append(chan[c], Stopped) /\ gate'[c] = "closed"
      BY <1>4, <2>2 DEF FinalizeNotify, StreamInv, DataInv, TypeOK
    <3>2. ~Holds(chan[c], Stopped)
      BY <1>0, <1>4, <2>2 DEF FinalizeNotify, StreamInv, SafeChannels, ChannelsAreOpen
    <3>3. Within(chan'[c], LastSeen(got[c]), Sent) /\ Ascends(chan'[c])
      BY <1>0, <1>t, <3>1, <3>2, StopFlows
    <3> QED BY <1>0, <2>1, <3>1, <3>3 DEF WasTold
  <2>3. CASE c # d
    <3>1. chan'[c] = chan[c] /\ gate'[c] = gate[c]
      BY <1>4, <2>3 DEF FinalizeNotify, StreamInv, DataInv, TypeOK
    <3> QED BY <1>s, <2>1, <3>1
  <2> QED BY <2>2, <2>3
<1>5. ASSUME NEW d \in Subs, Subscribe(d) PROVE Good(c)'
  <2>1. Sent' = Sent /\ step' = step /\ got' = got
    BY <1>5 DEF Subscribe, Sent
  <2>2. CASE c = d
    <3>1. user[c] = "idle" /\ user'[c] = "joined"
      BY <1>5, <2>2 DEF Subscribe, StreamInv, DataInv, TypeOK
    <3>2. CASE step = "wait"
      <4>1. chan'[c] = chan[c]
        BY <1>5, <3>2 DEF Subscribe
      <4> QED BY <1>0, <2>1, <3>1, <3>2, <4>1 DEF WasTold
    <3>3. CASE step # "wait"
      <4>1. chan'[c] = <<Stopped>> /\ gate'[c] = "closed"
        BY <1>5, <2>2, <3>3 DEF Subscribe, StreamInv, DataInv, TypeOK
      <4>2. \A i \in 1..Len(<<Stopped>>) : i = 1 /\ <<Stopped>>[i] = Stopped
        OBVIOUS
      <4>3. Within(chan'[c], LastSeen(got[c]), Sent) /\ Ascends(chan'[c])
        BY <4>1, <4>2 DEF Within, Ascends
      <4> QED BY <1>0, <2>1, <3>1, <3>3, <4>1, <4>3 DEF WasTold
    <3> QED BY <3>2, <3>3
  <2>3. CASE c # d
    <3>1. chan'[c] = chan[c] /\ gate'[c] = gate[c] /\ user'[c] = user[c]
      BY <1>5, <2>3 DEF Subscribe, StreamInv, DataInv, TypeOK
    <3> QED BY <1>s, <2>1, <3>1
  <2> QED BY <2>2, <2>3
<1>6. ASSUME NEW d \in Subs, Cancel(d) \/ Replay(d) \/ Drained(d) PROVE Good(c)'
  <2>1. Sent' = Sent /\ step' = step /\ got' = got /\ chan' = chan
    BY <1>6 DEF Cancel, Replay, Drained, Sent
  <2>2. gate'[c] = gate[c] \/ gate'[c] = "closed"
    BY <1>6 DEF Cancel, Replay, Drained, StreamInv, DataInv, TypeOK
  <2>3. /\ user'[c] # "left" => user[c] # "left"
        /\ user'[c] # "idle" \/ user[c] = "idle"
    BY <1>6 DEF Cancel, Replay, Drained, StreamInv, DataInv, TypeOK
  <2> QED BY <1>0, <2>1, <2>2, <2>3 DEF WasTold
<1>7. ASSUME NEW d \in Subs, Receive(d) PROVE Good(c)'
  <2>1. Sent' = Sent /\ step' = step /\ gate' = gate
    BY <1>7 DEF Receive, Sent
  <2>2. CASE c = d
    <3> DEFINE h == Head(chan[c])
    <3>1. chan[c] # <<>> /\ user[c] \in {"streaming", "cancelled"}
      BY <1>7, <2>2 DEF Receive
    <3>2. chan'[c] = Tail(chan[c]) /\ got'[c] = Append(got[c], h)
          /\ user'[c] = IF h = Stopped THEN "left" ELSE user[c]
      BY <1>7, <2>2 DEF Receive, StreamInv, DataInv, TypeOK
    <3>3. h \in Nat
      BY <1>t, <3>1, HeadTailProperties
    <3>4. ~WasTold(c)
      BY <1>0, <3>1
    <3> HIDE DEF h
    <3>5. Ascends(chan'[c]) /\ Within(chan'[c], LastSeen(got[c]), Sent)
      BY <1>0, <1>t, <3>1, <3>2, TailFlows
    <3>6. h # Stopped => h <= Sent /\ Within(chan'[c], h, Sent)
      BY <1>0, <1>t, <3>1, <3>2, TailFlows DEF h
    <3>7. /\ h # Stopped => LastSeen(got'[c]) = h
          /\ h = Stopped => LastSeen(got'[c]) = LastSeen(got[c])
          /\ got'[c] # <<>> /\ got'[c][Len(got'[c])] = h
      BY <1>t, <3>2, <3>3, <3>4, LastSeenMoves DEF WasTold
    <3>8. Holds(chan'[c], Stopped) => Holds(chan[c], Stopped)
      BY <1>t, <3>1, <3>2, TailHolds
    <3> QED BY <1>0, <2>1, <3>1, <3>2, <3>5, <3>6, <3>7, <3>8 DEF WasTold
  <2>3. CASE c # d
    <3>1. chan'[c] = chan[c] /\ got'[c] = got[c] /\ user'[c] = user[c]
      BY <1>7, <2>3 DEF Receive, StreamInv, DataInv, TypeOK
    <3> QED BY <1>s, <2>1, <3>1
  <2> QED BY <2>2, <2>3
<1>8. CASE AllOver \/ UNCHANGED vars
  BY <1>s, <1>8 DEF AllOver, vars, Sent
<1> QED
  BY <1>1, <1>2, <1>3, <1>4, <1>5, <1>6, <1>7, <1>8 DEF Next, Reader, Pump, StreamPump

\* What a subscriber has seen, and the phase it is in, as the contract counts.
LEMMA StartsTheContract == Init => Contract!CInit
<1> SUFFICES ASSUME Init PROVE Contract!CInit
  OBVIOUS
<1>1. \A c \in Subs : Phase(c) = "idle" /\ LastSeen(got[c]) = 0
  BY DEF Init, Phase, LastSeen
<1> QED BY <1>1 DEF Init, Contract!CInit

\* Each step of the threads is one step of the contract, or is invisible.
LEMMA StepsTheContract ==
    StreamInv /\ [Next]_vars => [Contract!CNext]_(Contract!cvars)
<1> SUFFICES ASSUME StreamInv, [Next]_vars PROVE [Contract!CNext]_(Contract!cvars)
  OBVIOUS
<1> DEFINE over == step # "wait"
           status == [c \in Subs |-> Phase(c)]
           seen == [c \in Subs |-> LastSeen(got[c])]
           Same(c) == user'[c] = user[c] /\ got'[c] = got[c]
<1>t. /\ user \in [Subs -> {"idle", "joined", "streaming", "cancelled", "left"}]
      /\ got \in [Subs -> Seq(Events)] /\ Events \subseteq Nat
      /\ chan \in [Subs -> Seq(Events)]
      /\ produced \in Nat /\ Sent \in Nat /\ Sent <= produced
  BY DEF StreamInv, DataInv, TypeOK, Snapshot, Sent, Events
<1>s. ASSUME NEW c \in Subs, Same(c) PROVE Phase(c)' = Phase(c) /\ LastSeen(got'[c]) = LastSeen(got[c])
  BY <1>s DEF Phase
<1>u. ASSUME UNCHANGED <<user, got>> PROVE UNCHANGED <<status, seen>>
  BY <1>u DEF Phase
<1>p. \A c \in Subs :
        /\ Phase(c) = "idle" <=> user[c] = "idle"
        /\ Phase(c) = "active" <=> user[c] \in {"joined", "streaming"}
        /\ Phase(c) = "cancelled" <=> user[c] = "cancelled" \/ (user[c] = "left" /\ ~WasTold(c))
        /\ Phase(c) = "stopped" <=> user[c] = "left" /\ WasTold(c)
  BY <1>t DEF Phase, WasTold
<1>1. CASE ReadChunk
  <2>1. UNCHANGED <<over, status, seen>> /\ produced' = produced + 1
    BY <1>1, <1>u DEF ReadChunk, userVars
  <2> QED BY <2>1 DEF Contract!CNext, Contract!Produce
<1>2. CASE Broadcast \/ PTYEnds \/ FinalizeRemove \/ AllOver \/ UNCHANGED vars
  <2>1. UNCHANGED <<produced, over, status, seen>>
    BY <1>2, <1>u DEF Broadcast, PTYEnds, FinalizeRemove, AllOver, vars, userVars, hostVars
  <2> QED BY <2>1 DEF Contract!cvars
<1>3. ASSUME NEW c \in Subs, FinalizeNotify(c) PROVE UNCHANGED Contract!cvars
  <2>1. UNCHANGED <<produced, over, status, seen>>
    BY <1>3, <1>u DEF FinalizeNotify, userVars, hostVars
  <2> QED BY <2>1 DEF Contract!cvars
<1>4. CASE FinalizeMark
  <2>1. UNCHANGED <<produced, status, seen>> /\ ~over /\ over'
    BY <1>4, <1>u DEF FinalizeMark, userVars, hostVars
  <2> QED BY <2>1 DEF Contract!CNext, Contract!End
<1>5. ASSUME NEW c \in Subs, Subscribe(c) PROVE Contract!Join(c)
  <2>1. user[c] = "idle" /\ user' = [user EXCEPT ![c] = "joined"]
        /\ UNCHANGED <<produced, step, got>>
    BY <1>5 DEF Subscribe, hostVars
  <2>2. Phase(c)' = "active" /\ \A d \in Subs : d # c => Phase(d)' = Phase(d)
    BY <1>t, <2>1 DEF Phase
  <2>3. status' = [status EXCEPT ![c] = "active"] /\ UNCHANGED <<produced, over, seen>>
    BY <2>1, <2>2
  <2> QED BY <1>p, <2>1, <2>3 DEF Contract!Join
<1>6. ASSUME NEW c \in Subs, Cancel(c) PROVE Contract!Leave(c)
  <2>1. user[c] \in {"joined", "streaming"} /\ user' = [user EXCEPT ![c] = "cancelled"]
        /\ UNCHANGED <<produced, step, got>>
    BY <1>6 DEF Cancel, hostVars
  <2>2. Phase(c)' = "cancelled" /\ \A d \in Subs : d # c => Phase(d)' = Phase(d)
    BY <1>t, <2>1 DEF Phase
  <2>3. status' = [status EXCEPT ![c] = "cancelled"] /\ UNCHANGED <<produced, over, seen>>
    BY <2>1, <2>2
  <2> QED BY <1>p, <2>1, <2>3 DEF Contract!Leave
<1>7. ASSUME NEW c \in Subs, Replay(c) PROVE UNCHANGED Contract!cvars
  <2>1. user[c] = "joined" /\ user' = [user EXCEPT ![c] = "streaming"]
        /\ UNCHANGED <<produced, step, got>>
    BY <1>7 DEF Replay, hostVars
  <2>2. \A d \in Subs : Phase(d)' = Phase(d)
    BY <1>t, <2>1 DEF Phase
  <2> QED BY <2>1, <2>2 DEF Contract!cvars
<1>8. ASSUME NEW c \in Subs, Drained(c) PROVE Contract!Leave(c) \/ UNCHANGED Contract!cvars
  <2>1. user[c] \in {"streaming", "cancelled"} /\ user' = [user EXCEPT ![c] = "left"]
        /\ UNCHANGED <<produced, step, got>>
    BY <1>8 DEF Drained, hostVars
  <2>2. ~WasTold(c)
    BY <2>1 DEF StreamInv, StreamsFlow
  <2>3. Phase(c)' = "cancelled" /\ \A d \in Subs : d # c => Phase(d)' = Phase(d)
    BY <1>t, <2>1, <2>2 DEF Phase, WasTold
  <2>4. status' = [status EXCEPT ![c] = "cancelled"] /\ UNCHANGED <<produced, over, seen>>
    BY <2>1, <2>3
  <2>5. CASE user[c] = "streaming"
    BY <1>p, <2>4, <2>5 DEF Contract!Leave
  <2>6. CASE user[c] = "cancelled"
    <3>1. status' = status
      BY <1>p, <2>4, <2>6
    <3> QED BY <2>4, <3>1 DEF Contract!cvars
  <2> QED BY <2>1, <2>5, <2>6
<1>9. ASSUME NEW c \in Subs, Receive(c) PROVE Contract!Deliver(c) \/ Contract!Tell(c)
  <2> DEFINE h == Head(chan[c])
  <2>1. /\ user[c] \in {"streaming", "cancelled"} /\ chan[c] # <<>>
        /\ user' = [user EXCEPT ![c] = IF h = Stopped THEN "left" ELSE @]
        /\ got' = [got EXCEPT ![c] = Append(@, h)]
        /\ UNCHANGED <<produced, step>>
    BY <1>9 DEF Receive, hostVars
  <2>2. chan[c] \in Seq(Nat) /\ got[c] \in Seq(Nat)
    BY <1>t, SeqMonotonic
  <2>3. h \in Nat /\ Holds(chan[c], h)
    BY <2>1, <2>2, HeadTailProperties, TailHolds
  <2>4. ~WasTold(c) /\ Within(chan[c], LastSeen(got[c]), Sent) /\ Ascends(chan[c])
    BY <2>1 DEF StreamInv, StreamsFlow
  <2>5. LastSeen(got[c]) \in Nat /\ got'[c] = Append(got[c], h)
    BY <1>t, <2>1, <2>2, LastSeenMoves
  <2>6. h # Stopped => LastSeen(got[c]) < h /\ h <= Sent
    BY <1>t, <2>1, <2>2, <2>4, <2>5, TailFlows
  <2> HIDE DEF h
  <2>7. /\ h # Stopped => LastSeen(got'[c]) = h
        /\ h = Stopped => LastSeen(got'[c]) = LastSeen(got[c])
        /\ got'[c] # <<>> /\ got'[c][Len(got'[c])] = h
    <3>1. got[c] = <<>> \/ got[c][Len(got[c])] # Stopped
      BY <2>4 DEF WasTold
    <3> DEFINE a == Append(got[c], h)
    <3>2. /\ h # Stopped => LastSeen(a) = h
          /\ h = Stopped => LastSeen(a) = LastSeen(got[c])
          /\ a # <<>> /\ a[Len(a)] = h
      BY ONLY <2>2, <2>3, <3>1, LastSeenMoves
    <3>3. got'[c] = a
      BY <2>5
    <3> HIDE DEF a
    <3> QED BY ONLY <3>2, <3>3, Zenon
  <2>8. \A d \in Subs : d # c => Phase(d)' = Phase(d) /\ LastSeen(got'[d]) = LastSeen(got[d])
    BY <1>s, <1>t, <2>1
  <2>9. Phase(c) \in {"active", "cancelled"}
    BY <1>p, <2>1
  <2>10. CASE h # Stopped
    <3>1. Phase(c)' = Phase(c)
      BY <1>t, <2>1, <2>7, <2>10 DEF Phase
    <3>2. UNCHANGED <<over, status>>
      BY <2>1, <2>8, <3>1
    <3>3. seen' = [seen EXCEPT ![c] = h]
      BY <2>7, <2>8, <2>10
    <3>4. h \in (seen[c] + 1)..produced
      BY <1>t, <2>3, <2>5, <2>6, <2>10
    <3> QED BY <2>1, <2>9, <3>2, <3>3, <3>4 DEF Contract!Deliver
  <2>11. CASE h = Stopped
    <3>1. Phase(c)' = "stopped"
      BY <1>t, <2>1, <2>7, <2>11 DEF Phase
    <3>2. status' = [status EXCEPT ![c] = "stopped"]
      BY <2>8, <3>1
    <3>3. UNCHANGED <<over, seen>>
      BY <2>1, <2>7, <2>8, <2>11
    <3>4. over
      BY <2>3, <2>11 DEF StreamInv, StreamsFlow
    <3> QED BY <2>1, <2>9, <3>2, <3>3, <3>4 DEF Contract!Tell
  <2> QED BY <2>10, <2>11
<1> QED
  BY <1>1, <1>2, <1>3, <1>4, <1>5, <1>6, <1>7, <1>8, <1>9
     DEF Next, Reader, Pump, StreamPump, Contract!CNext

\* The reader, the pump, the locks and the channels keep the contract of
\* Subscribe: output arrives in the order the host wrote it, the end is told
\* once, after it happened, and nothing follows it.
THEOREM StreamImplementsContract == Spec => ImplementsContract
<1>1. Init => StreamInv
  BY DataInit, SafeInit, StreamsInit DEF StreamInv
<1>2. StreamInv /\ [Next]_vars => StreamInv'
  BY DataStep, SafeStep, StreamsStep DEF StreamInv
<1> QED
  BY <1>1, <1>2, StartsTheContract, StepsTheContract, PTL
     DEF Spec, ImplementsContract, Contract!CSpec
-----------------------------------------------------------------------------
(* The order of what is received *)

\* What a subscriber has received ascends, nothing follows Stopped, and LastSeen is
\* the newest chunk of it.
InOrder == \A c \in Subs : Ascends(got[c]) /\ Within(got[c], 0, LastSeen(got[c]))

\* Who has not been told has received chunks only.
LEMMA StoppedIsLast ==
    ASSUME NEW s \in Seq(Nat), Ascends(s), s # <<>> => s[Len(s)] # Stopped
    PROVE  ~Holds(s, Stopped)
<1> SUFFICES ASSUME NEW i \in 1..Len(s), s[i] = Stopped PROVE FALSE
  BY DEF Holds
<1>1. Len(s) \in Nat \ {0} /\ s # <<>>
  BY EmptySeq, LenProperties
<1>2. Len(s) \in 1..Len(s) /\ i <= Len(s)
  BY <1>1
<1>3. i # Len(s)
  BY <1>1
<1> QED BY <1>1, <1>2, <1>3 DEF Ascends

\* Only Receive adds to it, and what it adds is newer.
LEMMA InOrderStep == StreamInv /\ InOrder /\ [Next]_vars => InOrder'
<1> SUFFICES ASSUME StreamInv, InOrder, [Next]_vars PROVE InOrder'
  OBVIOUS
<1>1. CASE UNCHANGED got
  BY <1>1 DEF InOrder
<1>2. ASSUME NEW c \in Subs, Receive(c) PROVE InOrder'
  <2> DEFINE h == Head(chan[c])
             a == Append(got[c], h)
             last == LastSeen(got[c])
  <2>1. /\ chan \in [Subs -> Seq(Events)] /\ got \in [Subs -> Seq(Events)]
        /\ Events \subseteq Nat /\ Stopped \in Nat
    BY StreamAssumption DEF StreamInv, DataInv, TypeOK, Events, Stopped
  <2>2. /\ user[c] \in {"streaming", "cancelled"} /\ chan[c] # <<>>
        /\ got' = [got EXCEPT ![c] = a]
    BY <1>2 DEF Receive
  <2>3. chan[c] \in Seq(Nat) /\ got[c] \in Seq(Nat)
    BY <2>1, SeqMonotonic
  <2>4. h \in Nat
    BY <2>2, <2>3, HeadTailProperties
  <2>5. Within(chan[c], last, Sent) /\ Ascends(chan[c]) /\ ~WasTold(c)
    BY <2>2 DEF StreamInv, StreamsFlow
  <2>6. last \in Nat
    BY <2>3, <2>4, LastSeenMoves
  <2>7. Sent \in Nat
    BY StreamAssumption DEF StreamInv, DataInv, TypeOK, Snapshot, Sent
  <2>8. h # Stopped => last < h
    BY <2>2, <2>3, <2>5, <2>6, <2>7, TailFlows
  <2>9. ~Holds(got[c], Stopped) /\ Ascends(got[c]) /\ Within(got[c], 0, last)
    <3>1. got[c] # <<>> => got[c][Len(got[c])] # Stopped
      BY <2>5 DEF WasTold
    <3>2. Ascends(got[c]) /\ Within(got[c], 0, last)
      BY DEF InOrder
    <3> QED BY <2>3, <3>1, <3>2, StoppedIsLast
  <2>10. LastSeen(a) = IF h = Stopped THEN last ELSE h
    <3>1. got[c] = <<>> \/ got[c][Len(got[c])] # Stopped
      BY <2>5 DEF WasTold
    <3> HIDE DEF h
    <3> QED BY <2>3, <2>4, <3>1, LastSeenMoves
  <2> HIDE DEF h, last
  <2>11. Ascends(a) /\ Within(a, 0, LastSeen(a))
    <3>1. CASE h = Stopped
      <4>1. Ascends(Append(got[c], Stopped)) /\ Within(Append(got[c], Stopped), 0, last)
        BY <2>1, <2>3, <2>6, <2>9, StopFlows
      <4> QED BY <3>1, <4>1, <2>10
    <3>2. CASE h # Stopped
      <4>1. Ascends(a) /\ Within(a, 0, h)
        BY <2>3, <2>4, <2>6, <2>8, <2>9, <3>2, AppendFlows
      <4> QED BY <3>2, <4>1, <2>10
    <3> QED BY <3>1, <3>2
  <2> HIDE DEF a
  <2>12. got'[c] = a /\ \A d \in Subs \ {c} : got'[d] = got[d]
    BY <2>1, <2>2
  <2>13. ASSUME NEW d \in Subs PROVE Ascends(got'[d]) /\ Within(got'[d], 0, LastSeen(got'[d]))
    <3>1. CASE d = c
      BY <2>11, <2>12, <3>1
    <3>2. CASE d # c
      BY <2>12, <3>2 DEF InOrder
    <3> QED BY <3>1, <3>2
  <2> QED BY <2>13 DEF InOrder
<1> QED
  BY <1>1, <1>2
     DEF Next, Reader, Pump, StreamPump, ReadChunk, Broadcast, PTYEnds, FinalizeMark,
         FinalizeNotify, FinalizeRemove, AllOver, Subscribe, Cancel, Replay, Drained,
         hostVars, userVars, vars

\* Output reaches a subscriber in the order the host wrote it, no chunk reaches it
\* twice, and nothing reaches it after Stopped, whatever its buffer has dropped.
THEOREM OutputArrivesInOrder == Spec => []\A c \in Subs : Ascends(got[c])
<1>1. Init => StreamInv /\ InOrder
  <2>1. ASSUME Init, NEW c \in Subs PROVE Ascends(got[c]) /\ Within(got[c], 0, LastSeen(got[c]))
    <3>1. got[c] = <<>> /\ Len(<<>>) = 0
      BY <2>1 DEF Init
    <3>2. \A i \in 1..Len(<<>>) : FALSE
      BY <3>1
    <3> QED BY <3>1, <3>2 DEF Ascends, Within
  <2> QED BY <2>1, DataInit, SafeInit, StreamsInit DEF StreamInv, InOrder
<1>2. (StreamInv /\ InOrder) /\ [Next]_vars => (StreamInv /\ InOrder)'
  BY DataStep, SafeStep, StreamsStep, InOrderStep DEF StreamInv
<1>3. InOrder => \A c \in Subs : Ascends(got[c])
  BY DEF InOrder
<1> QED BY <1>1, <1>2, <1>3, PTL DEF Spec
-----------------------------------------------------------------------------
(* How a stream ends *)

\* A channel that finalize has still to tell has a reader: somebody who has joined,
\* and has not left.
PumpWaitsForReaders == \A c \in swapped : user[c] \in {"joined", "streaming", "cancelled"}

\* Everybody who is registered reads, and whoever has not cancelled finds Stopped
\* in a channel that is closed.
Attended ==
    /\ \A c \in subs \cup swapped : user[c] \in {"joined", "streaming", "cancelled"}
    /\ \A c \in Subs :
        user[c] \in {"joined", "streaming"} /\ gate[c] = "closed" => Holds(chan[c], Stopped)

EndInv == StreamInv /\ Attended

\* Nobody has joined at first.
LEMMA AttendedInit == Init => Attended
BY DEF Init, Attended

\* Every step of reader, pump and subscribers keeps it.
LEMMA AttendedStep == EndInv /\ [Next]_vars => Attended'
<1> SUFFICES ASSUME EndInv, [Next]_vars PROVE Attended'
  OBVIOUS
<1>1. /\ chan \in [Subs -> Seq(Events)] /\ Stopped \in Events
      /\ user \in [Subs -> {"idle", "joined", "streaming", "cancelled", "left"}]
      /\ gate \in [Subs -> {"none", "open", "closed"}]
      /\ subs \subseteq Subs /\ swapped \subseteq Subs
  BY EventsAre DEF EndInv, StreamInv, DataInv, TypeOK
<1>2. /\ \A c \in subs \cup swapped : gate[c] = "open" /\ ~Holds(chan[c], Stopped)
      /\ step = "wait" => swapped = {}
      /\ step # "wait" => subs = {}
  BY <1>1 DEF EndInv, StreamInv, SafeChannels, ChannelsAreOpen, StreamsFlow
<1> USE DEF EndInv, Attended, hostVars, userVars
<1>3. CASE UNCHANGED <<subs, swapped, chan, gate, user>>
  BY <1>3
<1>4. CASE ReadChunk \/ PTYEnds \/ FinalizeRemove \/ AllOver \/ UNCHANGED vars
  BY <1>3, <1>4 DEF ReadChunk, PTYEnds, FinalizeRemove, AllOver, vars
<1>5. CASE Broadcast
  <2>1. UNCHANGED <<subs, swapped, gate, user>>
    BY <1>5 DEF Broadcast
  <2>2. \A c \in Subs : gate[c] = "closed" => chan'[c] = chan[c]
    BY <1>2, <1>5 DEF Broadcast
  <2> QED BY <2>1, <2>2
<1>6. CASE FinalizeMark
  BY <1>6 DEF FinalizeMark
<1>7. ASSUME NEW d \in Subs, FinalizeNotify(d) PROVE Attended'
  <2>1. /\ UNCHANGED <<subs, user>> /\ swapped' \subseteq swapped
        /\ chan' = [chan EXCEPT ![d] = Append(chan[d], Stopped)]
        /\ gate' = [gate EXCEPT ![d] = "closed"]
    BY <1>7 DEF FinalizeNotify
  <2>2. chan'[d] = Append(chan[d], Stopped)
    BY <1>1, <2>1
  <2>3. Holds(chan'[d], Stopped)
    BY <1>1, <2>2, AppendHolds
  <2>4. \A c \in Subs \ {d} : chan'[c] = chan[c] /\ gate'[c] = gate[c]
    BY <1>1, <2>1
  <2> QED BY <2>1, <2>3, <2>4
<1>8. ASSUME NEW d \in Subs, Subscribe(d) PROVE Attended'
  <2>1. /\ user[d] = "idle" /\ user'[d] = "joined" /\ swapped' = swapped
        /\ \A c \in Subs \ {d} : chan'[c] = chan[c] /\ gate'[c] = gate[c] /\ user'[c] = user[c]
        /\ subs' \subseteq subs \cup {d}
    BY <1>1, <1>8 DEF Subscribe
  <2>2. gate'[d] = "open" \/ chan'[d] = <<Stopped>>
    BY <1>1, <1>8 DEF Subscribe
  <2>3. Len(<<Stopped>>) = 1 /\ <<Stopped>>[1] = Stopped
    OBVIOUS
  <2>4. Holds(<<Stopped>>, Stopped)
    BY <2>3 DEF Holds
  <2>5. gate'[d] = "closed" => Holds(chan'[d], Stopped)
    <3>1. gate'[d] = "open" => gate'[d] # "closed"
      OBVIOUS
    <3> QED BY ONLY <2>2, <2>4, <3>1, Zenon
  <2>6. \A c \in subs' \cup swapped' : user'[c] \in {"joined", "streaming", "cancelled"}
    BY <1>1, <2>1
  <2>7. \A c \in Subs : user'[c] \in {"joined", "streaming"} /\ gate'[c] = "closed"
                          => Holds(chan'[c], Stopped)
    <3>1. \A c \in Subs \ {d} : user'[c] \in {"joined", "streaming"} /\ gate'[c] = "closed"
                                => Holds(chan'[c], Stopped)
      BY <2>1
    <3> QED BY <2>5, <3>1
  <2> QED BY <2>6, <2>7
<1>9. ASSUME NEW d \in Subs, Replay(d) PROVE Attended'
  <2>1. /\ UNCHANGED <<subs, swapped, chan, gate>> /\ user[d] = "joined"
        /\ user'[d] = "streaming" /\ \A c \in Subs \ {d} : user'[c] = user[c]
    BY <1>1, <1>9 DEF Replay
  <2> QED BY <1>1, <2>1
<1>10. ASSUME NEW d \in Subs, Cancel(d) PROVE Attended'
  <2>1. /\ UNCHANGED <<swapped, chan>> /\ subs' \subseteq subs /\ user'[d] = "cancelled"
        /\ \A c \in Subs \ {d} : user'[c] = user[c] /\ gate'[c] = gate[c]
    BY <1>1, <1>10 DEF Cancel
  <2> QED BY <1>1, <2>1
<1>11. ASSUME NEW d \in Subs, Receive(d) PROVE Attended'
  <2>1. /\ UNCHANGED <<subs, swapped, gate>> /\ chan[d] # <<>>
        /\ user[d] \in {"streaming", "cancelled"}
        /\ chan'[d] = Tail(chan[d])
        /\ user'[d] = IF Head(chan[d]) = Stopped THEN "left" ELSE user[d]
        /\ \A c \in Subs \ {d} : user'[c] = user[c] /\ chan'[c] = chan[c]
    BY <1>1, <1>11 DEF Receive
  <2>2. Holds(chan[d], Stopped) <=> Holds(chan'[d], Stopped) \/ Head(chan[d]) = Stopped
    BY <1>1, <2>1, TailHolds
  <2>3. d \in subs \cup swapped => user'[d] = user[d]
    BY <1>2, <2>1, <2>2
  <2> QED BY <1>1, <2>1, <2>2, <2>3
<1>12. ASSUME NEW d \in Subs, Drained(d) PROVE Attended'
  <2>1. /\ UNCHANGED <<subs, swapped, chan, gate>> /\ gate[d] = "closed" /\ user'[d] = "left"
        /\ \A c \in Subs \ {d} : user'[c] = user[c]
    BY <1>1, <1>12 DEF Drained
  <2>2. d \notin subs \cup swapped
    BY <1>2, <2>1
  <2> QED BY <1>1, <2>1, <2>2
<1> QED
  BY <1>4, <1>5, <1>6, <1>7, <1>8, <1>9, <1>10, <1>11, <1>12
     DEF Next, Reader, Pump, StreamPump

\* Everything that was proved of the channels, in one invariant.
LEMMA EndInvariance == Spec => []EndInv
<1>1. Init => EndInv
  BY DataInit, SafeInit, StreamsInit, AttendedInit DEF EndInv, StreamInv
<1>2. EndInv /\ [Next]_vars => EndInv'
  BY DataStep, SafeStep, StreamsStep, AttendedStep DEF EndInv, StreamInv
<1> QED BY <1>1, <1>2, PTL DEF Spec

\* finalize never waits for a channel nobody reads: when its send finds no room,
\* there is a subscriber that has still to empty the buffer, also one that has
\* cancelled after finalize took it out.
THEOREM FinalizeWaitsForReaders == Spec => []PumpWaitsForReaders
<1>1. EndInv => PumpWaitsForReaders
  BY DEF EndInv, Attended, PumpWaitsForReaders
<1> QED BY <1>1, EndInvariance, PTL

\* A subscriber that did not cancel leaves with Stopped, the last event it gets:
\* the closed channel alone never sends it away, and so an interface always learns
\* that the session on its screen has ended.
THEOREM NobodyLeavesUntold ==
    Spec => [][\A c \in Subs : user[c] = "streaming" /\ user'[c] = "left" => WasTold(c)']_vars
<1> DEFINE A == \A c \in Subs : user[c] = "streaming" /\ user'[c] = "left" => WasTold(c)'
<1>1. ASSUME EndInv, [Next]_vars, NEW c \in Subs, user[c] = "streaming", user'[c] = "left"
      PROVE  WasTold(c)'
  <2>1. /\ chan \in [Subs -> Seq(Events)] /\ got \in [Subs -> Seq(Events)]
        /\ user \in [Subs -> {"idle", "joined", "streaming", "cancelled", "left"}]
    BY <1>1 DEF EndInv, StreamInv, DataInv, TypeOK
  <2>2. Receive(c) \/ Drained(c)
    BY <1>1, <2>1
       DEF Next, Reader, Pump, StreamPump, ReadChunk, Broadcast, PTYEnds, FinalizeMark,
           FinalizeNotify, FinalizeRemove, AllOver, Subscribe, Cancel, Replay, Receive, Drained,
           hostVars, userVars, vars
  <2>3. ~Drained(c)
    <3>1. SUFFICES ASSUME Drained(c) PROVE FALSE
      OBVIOUS
    <3>2. Holds(chan[c], Stopped) /\ chan[c] = <<>>
      BY <1>1, <3>1 DEF Drained, EndInv, Attended
    <3> QED BY <3>2, EmptySeq DEF Holds
  <2>4. /\ chan[c] # <<>> /\ Head(chan[c]) = Stopped
        /\ got'[c] = Append(got[c], Head(chan[c]))
    BY <1>1, <2>1, <2>2, <2>3 DEF Receive
  <2>5. got[c] \in Seq(Events) /\ Stopped \in Events
    BY <2>1, EventsAre
  <2>6. got'[c] = Append(got[c], Stopped)
    BY <2>4
  <2>7. /\ Len(Append(got[c], Stopped)) = Len(got[c]) + 1
        /\ Append(got[c], Stopped)[Len(got[c]) + 1] = Stopped
        /\ Append(got[c], Stopped) # <<>>
    BY <2>5, AppendProperties
  <2> QED BY <2>6, <2>7 DEF WasTold
<1>2. EndInv /\ [Next]_vars => A
  BY <1>1
<1> QED BY <1>2, EndInvariance, PTL DEF Spec
-----------------------------------------------------------------------------
(* What the scrollback holds *)

\* The last n chunks, as many of them as fit, in the order they were read.
Latest(s, n) ==
    /\ Len(s) = IF n < Lines THEN n ELSE Lines
    /\ \A i \in 1..Len(s) : s[i] = n - Len(s) + i

\* Appending the next chunk and trimming moves the window on by one.
LEMMA TrimSlides ==
    ASSUME NEW s \in Seq(Nat), NEW n \in Nat, Latest(s, n), NEW t, t = Trim(Append(s, n + 1))
    PROVE  Latest(t, n + 1)
<1> DEFINE a == Append(s, n + 1)
           m == Len(a) - Lines + 1
<1>1. /\ a \in Seq(Nat) /\ Len(a) = Len(s) + 1 /\ Len(s) \in Nat /\ a[Len(s) + 1] = n + 1
      /\ \A i \in 1..Len(s) : a[i] = s[i]
  BY AppendProperties, LenProperties
<1>2. /\ Len(s) = IF n < Lines THEN n ELSE Lines
      /\ \A i \in 1..Len(s) : s[i] = n - Len(s) + i
      /\ Lines \in Nat \ {0}
  BY StreamAssumption DEF Latest
<1>t. t = IF Len(a) > Lines THEN SubSeq(a, m, Len(a)) ELSE a
  BY DEF Trim
<1> HIDE DEF a
<1>3. \A i \in 1..Len(a) : a[i] = n + 1 - Len(a) + i
  <2> SUFFICES ASSUME NEW i \in 1..Len(a) PROVE a[i] = n + 1 - Len(a) + i
    OBVIOUS
  <2>1. CASE i \in 1..Len(s)
    <3>1. a[i] = n - Len(s) + i
      BY <1>1, <1>2, <2>1
    <3> QED BY <1>1, <3>1
  <2>2. CASE i = Len(s) + 1
    <3>1. a[i] = n + 1
      BY <1>1, <2>2
    <3> QED BY <1>1, <2>2, <3>1
  <2> QED BY <1>1, <2>1, <2>2
<1>4. CASE n < Lines
  <2>1. t = a /\ Len(a) = n + 1
    BY <1>1, <1>2, <1>4, <1>t
  <2>2. n + 1 = IF n + 1 < Lines THEN n + 1 ELSE Lines
    BY <1>2, <1>4
  <2>3. \A i \in 1..Len(t) : t[i] = n + 1 - Len(t) + i
    BY <1>3, <2>1
  <2>4. Len(t) = IF n + 1 < Lines THEN n + 1 ELSE Lines
    BY <2>1, <2>2
  <2> QED BY <2>3, <2>4 DEF Latest
<1>5. CASE ~(n < Lines)
  <2>1. Len(a) = Lines + 1 /\ t = SubSeq(a, m, Len(a))
    BY <1>1, <1>2, <1>5, <1>t
  <2>2. m = 2 /\ Len(a) \in Int
    BY <1>2, <2>1
  <2>3. \A i \in m..Len(a) : a[i] \in Nat
    BY <1>1, <2>2, ElementOfSeq
  <2> HIDE DEF m
  <2>4. Len(t) = Lines /\ \A i \in 1..Lines : t[i] = a[m + i - 1]
    BY <1>2, <2>1, <2>2, <2>3, SubSeqProperties
  <2>5. \A i \in 1..Lines : t[i] = n + 1 - Lines + i
    BY <1>2, <1>3, <2>1, <2>2, <2>4
  <2>6. ~(n + 1 < Lines)
    BY <1>2, <1>5
  <2> QED BY <2>4, <2>5, <2>6 DEF Latest
<1> QED BY <1>4, <1>5

\* The scrollback is what the host wrote last, without a hole and in order, also
\* after the capacity has been passed any number of times: what an interface
\* replays is where the live stream goes on.
THEOREM ScrollbackIsLatest == Spec => []Latest(sb, produced)
<1> DEFINE L == Latest(sb, produced)
<1>1. Init => DataInv /\ L
  <2>1. ASSUME Init PROVE L
    <3>1. produced = 0 /\ sb = <<>> /\ Len(sb) = 0
      BY <2>1 DEF Init
    <3> QED BY <3>1, StreamAssumption DEF Latest
  <2> QED BY <2>1, DataInit
<1>2. (DataInv /\ L) /\ [Next]_vars => (DataInv /\ L)'
  <2> SUFFICES ASSUME DataInv, L, [Next]_vars PROVE L'
    BY DataStep
  <2>1. CASE ReadChunk
    <3>1. sb \in Seq(Nat) /\ produced \in Nat
      <4>1. sb \in Seq(1..MaxChunk) /\ produced \in 0..MaxChunk
        BY DEF DataInv, TypeOK
      <4>2. 1..MaxChunk \subseteq Nat /\ 0..MaxChunk \subseteq Nat
        BY StreamAssumption
      <4>3. Seq(1..MaxChunk) \subseteq Seq(Nat)
        BY <4>2, SeqMonotonic
      <4> QED BY <4>1, <4>2, <4>3
    <3>2. sb' = Trim(Append(sb, produced + 1)) /\ produced' = produced + 1
      BY <2>1 DEF ReadChunk
    <3>3. Latest(sb', produced + 1)
      BY <3>1, <3>2, TrimSlides
    <3> QED BY <3>2, <3>3
  <2>2. CASE ~ReadChunk
    <3>1. UNCHANGED <<sb, produced>>
      BY <2>2 DEF Next, Reader, Pump, StreamPump, Broadcast, PTYEnds, FinalizeMark,
           FinalizeNotify, FinalizeRemove, AllOver, Subscribe, Cancel, Replay, Receive, Drained,
           hostVars, userVars, vars
    <3> QED BY <3>1
  <2> QED BY <2>1, <2>2
<1> QED BY <1>1, <1>2, PTL DEF Spec
=============================================================================
