--------------------------- MODULE ResizeFlow_proofs ---------------------------
(* Proofs about ResizeFlow, for any number of interfaces, sessions and sizes,  *)
(* under either policy and whatever connects, leaves or drops.                 *)
EXTENDS ResizeFlow, SequenceTheorems, FiniteSetTheorems, TLAPS

\* The part of the type invariant the argument needs.
Attached ==
    /\ status \in [Clients -> {"new", "on", "gone"}]
    /\ driver \in [Sessions -> Clients \cup {None}]

DInv == Attached /\ DriversAttached

\* Nothing is designated before anybody connects.
LEMMA DriversInit == Init => DInv
BY DEF Init, DInv, Attached, DriversAttached

\* Only Connect, Detach and SetDriver touch what is claimed.
LEMMA DriversStep == DInv /\ [Next]_vars => DInv'
<1> SUFFICES ASSUME DInv, [Next]_vars PROVE DInv'
  OBVIOUS
<1> USE ResizeAssumption DEF DInv, Attached, DriversAttached
<1>1. ASSUME NEW t \in Threads, Run(t) PROVE DInv'
  <2>1. CASE Detach(t)
    <3> DEFINE c == Head(todo[t]).client
    <3>1. status' = [status EXCEPT ![c] = "gone"]
          /\ driver' = [s \in Sessions |-> IF driver[s] = c THEN None ELSE driver[s]]
      BY <2>1 DEF Detach
    <3> QED BY <3>1
  <2>2. CASE UNCHANGED <<status, driver>>
    BY <2>2
  <2>3. ~Detach(t) => UNCHANGED <<status, driver>>
    BY <1>1 DEF Run, StopSub, Show, Stream, Leave, SetViewing, PaneSize, SetSize, Current,
                Compute, Record, Push, ListViewers, Move, Follow, Compare, FirstRunning, Blank,
           Unmap, CloseHost, attachVars
  <2> QED BY <2>1, <2>2, <2>3
<1>2. ASSUME NEW c \in Clients, NEW z \in Sizes, Connect(c, z) PROVE DInv'
  BY <1>2 DEF Connect
<1>3. ASSUME NEW c \in Clients, NEW s \in Sessions, SetDriver(s, c) PROVE DInv'
  BY <1>3 DEF SetDriver
<1>4. CASE UNCHANGED <<status, driver>>
  BY <1>4
<1>5. ASSUME NEW c \in Clients, NEW z \in Sizes, Layout(c, z) PROVE UNCHANGED <<status, driver>>
  BY <1>5 DEF Layout, attachVars
<1>6. ASSUME NEW c \in Clients, NEW s \in Sessions, Jump(c, s) \/ ViewStopped(c, s)
      PROVE  UNCHANGED <<status, driver>>
  BY <1>6 DEF Jump, ViewStopped, attachVars
<1>7. ASSUME NEW c \in Clients, Quit(c) PROVE UNCHANGED <<status, driver>>
  BY <1>7 DEF Quit, attachVars
<1>8. ASSUME NEW s \in Sessions, HostDown(s) \/ ClosedEnds(s) PROVE UNCHANGED <<status, driver>>
  BY <1>8 DEF HostDown, ClosedEnds, attachVars
<1>9. UNCHANGED vars => UNCHANGED <<status, driver>>
  BY DEF vars
<1> QED
  BY <1>1, <1>2, <1>3, <1>4, <1>5, <1>6, <1>7, <1>8, <1>9 DEF Next

\* A designation never outlives the connection of the client that holds it, so
\* the driver policy cannot take the size of an interface that has gone.
THEOREM DriversAlwaysAttached == Spec => []DriversAttached
<1>1. DInv => DriversAttached
  BY DEF DInv
<1> QED BY <1>1, DriversInit, DriversStep, PTL DEF Spec

-----------------------------------------------------------------------------
(* The calls a thread may have to make, and what they are given *)

\* Each call has the client, the session and the size its handler uses.
ProperCalls ==
    {k \in Calls :
        /\ k.op \in {"stop", "show", "leave", "view", "pane", "size", "current", "stream",
                     "move", "detach", "follow", "compare", "first", "blank"} => k.client \in Clients
        /\ k.op \in {"show", "leave", "view", "stream", "negotiate", "record", "push", "compare",
                     "close", "list"} => k.session \in Sessions
        /\ k.op \in {"record", "push"} => k.size \in Shapes
        /\ k.op = "size" => k.size \in Sizes}

\* The calls of a streamPump or of a hook, before a switchView.
OtherOps == {"follow", "compare", "first", "blank", "remove", "close", "list", "move"}

USE DEF OtherOps

TInv ==
    /\ status \in [Clients -> {"new", "on", "gone"}]
    /\ viewing \in [Clients -> Sessions \cup {None}]
    /\ csize \in [Clients -> Sizes] /\ pane \in [Clients -> Sizes]
    /\ driver \in [Sessions -> Clients \cup {None}]
    /\ ui \in [Clients -> Sessions \cup {None}]
    /\ cancel \in [Clients -> Sessions \cup {None}]
    /\ subs \in [Clients -> SUBSET Sessions] /\ pumps \in [Clients -> SUBSET Sessions]
    /\ alive \subseteq Sessions /\ closed \in [Sessions -> SUBSET Sessions]
    /\ rec \in [Sessions -> Shapes] /\ pty \in [Sessions -> Shapes]
    /\ apart \in BOOLEAN /\ unsettled \in BOOLEAN
    /\ todo \in [Threads -> Seq(ProperCalls)]

LEMMA TypesFollow == TInv => TypeOK
<1> SUFFICES ASSUME TInv, NEW t \in Threads, NEW i \in DOMAIN todo[t]
             PROVE  todo[t][i] \in Calls
  BY DEF TInv, TypeOK
<1>1. todo[t] \in Seq(ProperCalls)
  BY DEF TInv
<1>2. i \in 1..Len(todo[t])
  BY <1>1, LenProperties
<1>3. todo[t][i] \in ProperCalls
  BY <1>1, <1>2, ElementOfSeq
<1> QED BY <1>3 DEF ProperCalls

\* The calls the handlers make are proper.
LEMMA CallsAreProper ==
    ASSUME NEW c \in Clients, NEW s \in Sessions
    PROVE  /\ Call("stop", c, None) \in ProperCalls /\ Call("show", c, s) \in ProperCalls
           /\ Call("leave", c, s) \in ProperCalls /\ Call("view", c, s) \in ProperCalls
           /\ Call("pane", c, None) \in ProperCalls /\ Call("current", c, None) \in ProperCalls
           /\ Call("stream", c, s) \in ProperCalls /\ Call("detach", c, None) \in ProperCalls
           /\ Call("move", c, None) \in ProperCalls /\ Call("follow", c, None) \in ProperCalls
           /\ Call("compare", c, s) \in ProperCalls /\ Call("first", c, None) \in ProperCalls
           /\ Call("blank", c, None) \in ProperCalls
BY DEF Call, ProperCalls, Calls

LEMMA HostCallsAreProper ==
    ASSUME NEW s \in Sessions
    PROVE  /\ Negotiate(s) \in ProperCalls /\ Call("list", None, s) \in ProperCalls
           /\ Call("remove", None, s) \in ProperCalls /\ Call("close", None, s) \in ProperCalls
           /\ \A z \in Shapes : /\ Sized("record", None, s, z) \in ProperCalls
                                /\ Sized("push", None, s, z) \in ProperCalls
BY DEF Call, Sized, Negotiate, ProperCalls, Calls

LEMMA SizesAreShapes == Sizes \subseteq Shapes
BY ResizeAssumption DEF Shapes

LEMMA SizeCallIsProper ==
    ASSUME NEW c \in Clients, NEW z \in Sizes
    PROVE  Sized("size", c, None, z) \in ProperCalls
BY SizesAreShapes DEF Sized, ProperCalls, Calls

LEMMA SwitchIsProper ==
    ASSUME NEW c \in Clients, NEW s \in Sessions
    PROVE  SwitchView(c, s) \in Seq(ProperCalls)
BY CallsAreProper DEF SwitchView

LEMMA HeadIsProper ==
    ASSUME TInv, NEW t \in Threads, ~Idle(t)
    PROVE  /\ todo[t] \in Seq(ProperCalls) /\ todo[t] # <<>>
           /\ Head(todo[t]) \in ProperCalls /\ Tail(todo[t]) \in Seq(ProperCalls)
<1>1. todo[t] \in Seq(ProperCalls) /\ todo[t] # <<>>
  BY DEF TInv, Idle
<1> QED BY <1>1, HeadTailProperties

LEMMA ThenKeeps ==
    ASSUME TInv, NEW t \in Threads, ~Idle(t), NEW calls \in Seq(ProperCalls), Then(t, calls)
    PROVE  todo' \in [Threads -> Seq(ProperCalls)] /\ apart' = apart
<1>1. calls \o Tail(todo[t]) \in Seq(ProperCalls)
  BY HeadIsProper, ConcatProperties
<1> QED BY <1>1 DEF TInv, Then

LEMMA StartKeeps ==
    ASSUME TInv, NEW t \in Threads, NEW calls \in Seq(ProperCalls), Start(t, calls)
    PROVE  todo' \in [Threads -> Seq(ProperCalls)] /\ apart' \in BOOLEAN
<1>1. todo' \in [Threads -> Seq(ProperCalls)]
  BY DEF TInv, Start
<1>2. apart' \in BOOLEAN
  BY Zenon DEF TInv, Start
<1> QED BY <1>1, <1>2

\* The smallest of some sizes is one of them.
LEMMA LeastIsOne ==
    ASSUME NEW S, S \subseteq Nat, S # {}
    PROVE  Least(S) \in S
<1> DEFINE L == {ss \in Nat \X Nat : ss[1] < ss[2]}
<1>1. IsWellFoundedOn(L, Nat)
  BY NatLessThanWellFounded DEF OpToRel
<1>2. PICK m \in S : \A j \in S : <<j, m>> \notin L
  <2> HIDE DEF L
  <2> QED BY <1>1, WFMin
<1>3. ASSUME NEW j \in S PROVE m <= j
  <2>1. j \in Nat /\ m \in Nat /\ <<j, m>> \notin L
    BY <1>2
  <2>2. ~ (j < m)
    BY <2>1
  <2> QED BY <2>1, <2>2
<1> QED BY <1>3 DEF Least

\* The negotiated size has the rows of some pane and the columns of some pane.
LEMMA NegotiatedIsShape ==
    ASSUME TInv, NEW s, Viewers(s) # {}
    PROVE  NegotiatedSize(s) \in Shapes
<1>1. Viewers(s) \subseteq Clients /\ \A c \in Clients : csize[c] \in Sizes
  BY DEF Viewers, TInv
<1>2. CASE Policy = "driver" /\ driver[s] \in Viewers(s)
  BY <1>1, <1>2, SizesAreShapes DEF NegotiatedSize
<1>3. CASE ~(Policy = "driver" /\ driver[s] \in Viewers(s))
  <2> DEFINE V == Viewers(s)
             R == {csize[c].rows : c \in V}
             C == {csize[c].cols : c \in V}
  <2>1. R # {} /\ C # {} /\ R \subseteq Nat /\ C \subseteq Nat
    BY <1>1, ResizeAssumption
  <2>2. R \subseteq {z.rows : z \in Sizes} /\ C \subseteq {z.cols : z \in Sizes}
    BY <1>1
  <2>3. NegotiatedSize(s) = [rows |-> Least(R), cols |-> Least(C)]
    BY <1>3 DEF NegotiatedSize, Smallest
  <2> HIDE DEF R, C
  <2>4. Least(R) \in R /\ Least(C) \in C
    BY <2>1, LeastIsOne
  <2> QED BY <2>2, <2>3, <2>4 DEF Shapes
<1> QED BY <1>2, <1>3

LEMMA TypesInit == Init => TInv
<1> SUFFICES ASSUME Init PROVE TInv
  OBVIOUS
<1>1. Initial \in Sizes /\ Initial \in Shapes
  BY ResizeAssumption, SizesAreShapes
<1>2. todo \in [Threads -> Seq(ProperCalls)]
  BY EmptySeq DEF Init
<1> QED BY <1>1, <1>2 DEF Init, TInv

LEMMA RunKeepsTypes ==
    ASSUME IsFiniteSet(Clients), TInv, NEW t \in Threads, Run(t)
    PROVE  TInv'
<1> DEFINE k == Head(todo[t])
<1> USE DEF attachVars, subVars, uiVars, sessionVars
<1>0. /\ ~Idle(t)
      /\ k \in ProperCalls
  <2>1. ~Idle(t)
    BY DEF Run, StopSub, Show, Stream, Detach, Leave, SetViewing, PaneSize, SetSize, Current,
           Compute, Record, Push, ListViewers, Move, Follow, Compare, FirstRunning, Blank,
           Unmap, CloseHost, At
  <2> QED BY <2>1, HeadIsProper
<1>e. <<>> \in Seq(ProperCalls)
  BY EmptySeq
<1>1. CASE StopSub(t)
  <2>1. k.client \in Clients
    BY <1>0, <1>1 DEF StopSub, At, ProperCalls
  <2>2. todo' \in [Threads -> Seq(ProperCalls)] /\ apart' = apart
    BY <1>0, <1>1, <1>e, ThenKeeps DEF StopSub
  <2>3. cancel' \in [Clients -> Sessions \cup {None}]
    BY <1>1, <2>1 DEF StopSub, TInv
  <2>4. subs' \in [Clients -> SUBSET Sessions] /\ pumps' \in [Clients -> SUBSET Sessions]
    <3>1. \/ UNCHANGED <<subs, pumps>>
          \/ \E s : /\ subs' = [subs EXCEPT ![k.client] = @ \ {s}]
                   /\ pumps' = [pumps EXCEPT ![k.client] = @ \ {s}]
      BY <1>1 DEF StopSub
    <3>2. subs \in [Clients -> SUBSET Sessions] /\ pumps \in [Clients -> SUBSET Sessions]
      BY DEF TInv
    <3> QED BY ONLY <2>1, <3>1, <3>2
  <2> QED BY <1>1, <2>2, <2>3, <2>4 DEF StopSub, TInv
<1>2. CASE Show(t)
  <2>1. k.client \in Clients /\ k.session \in Sessions
    BY <1>0, <1>2 DEF Show, At, ProperCalls
  <2>2. todo' \in [Threads -> Seq(ProperCalls)] /\ apart' = apart
    BY <1>0, <1>2, <1>e, ThenKeeps DEF Show
  <2> QED BY <1>2, <2>1, <2>2 DEF Show, TInv
<1>3. CASE Stream(t)
  <2>1. k.client \in Clients /\ k.session \in Sessions
    BY <1>0, <1>3 DEF Stream, At, ProperCalls
  <2>2. todo' \in [Threads -> Seq(ProperCalls)] /\ apart' = apart
    BY <1>0, <1>3, <1>e, ThenKeeps DEF Stream
  <2> QED BY <1>3, <2>1, <2>2 DEF Stream, TInv
<1>4. CASE Detach(t)
  <2>1. k.client \in Clients
    BY <1>0, <1>4 DEF Detach, At, ProperCalls
  <2>2. todo' \in [Threads -> Seq(ProperCalls)] /\ apart' = apart
    BY <1>0, <1>4, <1>e, ThenKeeps DEF Detach
  <2>3. unsettled' \in BOOLEAN
    BY <1>4, Zenon DEF Detach, TInv
  <2> QED BY <1>4, <2>1, <2>2, <2>3 DEF Detach, TInv
<1>5. CASE Leave(t)
  <2>1. k.client \in Clients /\ k.session \in Sessions
    BY <1>0, <1>5 DEF Leave, At, ProperCalls
  <2> DEFINE old == IF status[k.client] = "on" THEN viewing[k.client] ELSE None
             rest == IF old \in {None, k.session} THEN <<>> ELSE <<Negotiate(old)>>
  <2>2. old \in Sessions \cup {None}
    BY <2>1 DEF TInv
  <2>3. rest \in Seq(ProperCalls)
    <3>1. CASE old \in {None, k.session}
      BY <1>e, <3>1
    <3>2. CASE old \notin {None, k.session}
      <4>1. Negotiate(old) \in ProperCalls
        BY <2>2, <3>2, HostCallsAreProper
      <4> QED BY <3>2, <4>1
    <3> QED BY <3>1, <3>2
  <2>4. Then(t, <<Call("view", k.client, k.session)>> \o rest)
    BY <1>5 DEF Leave
  <2> HIDE DEF rest
  <2>5. <<Call("view", k.client, k.session)>> \in Seq(ProperCalls)
    BY <2>1, CallsAreProper
  <2>6. <<Call("view", k.client, k.session)>> \o rest \in Seq(ProperCalls)
    BY <2>3, <2>5, ConcatProperties
  <2>7. todo' \in [Threads -> Seq(ProperCalls)] /\ apart' = apart
    BY <1>0, <2>4, <2>6, ThenKeeps
  <2> QED BY <1>5, <2>7 DEF Leave, TInv
<1>6. CASE SetViewing(t)
  <2>1. k.client \in Clients /\ k.session \in Sessions
    BY <1>0, <1>6 DEF SetViewing, At, ProperCalls
  <2>2. todo' \in [Threads -> Seq(ProperCalls)] /\ apart' = apart
    BY <1>0, <1>6, <1>e, ThenKeeps DEF SetViewing
  <2> QED BY <1>6, <2>1, <2>2 DEF SetViewing, TInv
<1>7. CASE PaneSize(t)
  <2>1. k.client \in Clients
    BY <1>0, <1>7 DEF PaneSize, At, ProperCalls
  <2>2. Sized("size", k.client, None, pane[k.client]) \in ProperCalls
        /\ Call("current", k.client, None) \in ProperCalls
    <3>1. pane[k.client] \in Sizes
      BY <2>1 DEF TInv
    <3>2. \A s \in Sessions : Call("current", k.client, None) \in ProperCalls
      BY <2>1, CallsAreProper
    <3> QED BY <2>1, <3>1, SizeCallIsProper DEF Call, ProperCalls, Calls
  <2>3. todo' \in [Threads -> Seq(ProperCalls)] /\ apart' = apart
    <3>1. <<Sized("size", k.client, None, pane[k.client]), Call("current", k.client, None)>>
          \in Seq(ProperCalls)
      BY <2>2
    <3> QED BY <1>0, <1>7, <3>1, ThenKeeps DEF PaneSize
  <2> QED BY <1>7, <2>3 DEF PaneSize, TInv
<1>8. CASE SetSize(t)
  <2>1. k.client \in Clients /\ k.size \in Sizes
    BY <1>0, <1>8 DEF SetSize, At, ProperCalls
  <2>2. todo' \in [Threads -> Seq(ProperCalls)] /\ apart' = apart
    BY <1>0, <1>8, <1>e, ThenKeeps DEF SetSize
  <2> QED BY <1>8, <2>1, <2>2 DEF SetSize, TInv
<1>9. CASE Current(t)
  <2>1. k.client \in Clients
    BY <1>0, <1>9 DEF Current, At, ProperCalls
  <2>2. ui[k.client] \in Sessions \cup {None}
    BY <2>1 DEF TInv
  <2>3. CASE ui[k.client] = None
    <3>1. Then(t, <<>>)
      BY <1>9, <2>3 DEF Current
    <3>2. todo' \in [Threads -> Seq(ProperCalls)] /\ apart' = apart
      BY <1>0, <1>e, <3>1, ThenKeeps
    <3> QED BY <1>9, <3>2 DEF Current, TInv
  <2>4. CASE ui[k.client] # None
    <3>1. Then(t, <<Negotiate(ui[k.client])>>)
      BY <1>9, <2>4 DEF Current
    <3>2. Negotiate(ui[k.client]) \in ProperCalls
      BY <2>2, <2>4, HostCallsAreProper
    <3>3. <<Negotiate(ui[k.client])>> \in Seq(ProperCalls)
      BY <3>2
    <3>4. todo' \in [Threads -> Seq(ProperCalls)] /\ apart' = apart
      BY <1>0, <3>1, <3>3, ThenKeeps
    <3> QED BY <1>9, <3>4 DEF Current, TInv
  <2> QED BY <2>3, <2>4
<1>10. CASE Compute(t)
  <2>1. k.session \in Sessions
    BY <1>0, <1>10 DEF Compute, At, ProperCalls
  <2>2. CASE Viewers(k.session) = {}
    <3>1. Then(t, <<>>)
      BY <1>10, <2>2 DEF Compute
    <3>2. todo' \in [Threads -> Seq(ProperCalls)] /\ apart' = apart
      BY <1>0, <1>e, <3>1, ThenKeeps
    <3> QED BY <1>10, <3>2 DEF Compute, TInv
  <2>3. CASE Viewers(k.session) # {}
    <3> DEFINE z == NegotiatedSize(k.session)
    <3>1. Then(t, <<Sized("record", None, k.session, z), Sized("push", None, k.session, z)>>)
      BY <1>10, <2>3 DEF Compute
    <3>2. z \in Shapes
      BY <2>3, NegotiatedIsShape
    <3> HIDE DEF z
    <3>3. /\ Sized("record", None, k.session, z) \in ProperCalls
          /\ Sized("push", None, k.session, z) \in ProperCalls
      BY <2>1, <3>2, HostCallsAreProper
    <3>4. <<Sized("record", None, k.session, z), Sized("push", None, k.session, z)>>
          \in Seq(ProperCalls)
      BY <3>3
    <3>5. todo' \in [Threads -> Seq(ProperCalls)] /\ apart' = apart
      BY <1>0, <3>1, <3>4, ThenKeeps
    <3> QED BY <1>10, <3>5 DEF Compute, TInv
  <2> QED BY <2>2, <2>3
<1>11. CASE Record(t) \/ Push(t)
  <2>1. k.session \in Sessions /\ k.size \in Shapes
    BY <1>0, <1>11 DEF Record, Push, At, ProperCalls
  <2>2. Then(t, <<>>)
    BY <1>11 DEF Record, Push
  <2>3. todo' \in [Threads -> Seq(ProperCalls)] /\ apart' = apart
    BY <1>0, <1>e, <2>2, ThenKeeps
  <2> QED BY <1>11, <2>1, <2>3 DEF Record, Push, TInv
<1>12. CASE ListViewers(t)
  <2> DEFINE V == ViewersOf(closed[k.session])
             moves(q) == [i \in DOMAIN q |-> Call("move", q[i], None)]
  <2>1. PICK q \in SetToSeqs(V) : Then(t, moves(q))
    BY <1>12 DEF ListViewers
  <2>2. V \subseteq Clients /\ Cardinality(V) \in Nat
    BY FS_Subset, FS_CardinalityType DEF ViewersOf, Viewers
  <2>3. DOMAIN q = 1..Cardinality(V) /\ \A i \in 1..Cardinality(V) : q[i] \in Clients
    BY <2>1, <2>2 DEF SetToSeqs
  <2>4. \A i \in 1..Cardinality(V) : Call("move", q[i], None) \in ProperCalls
    BY <2>3 DEF Call, ProperCalls, Calls
  <2>5. moves(q) \in [1..Cardinality(V) -> ProperCalls]
    BY <2>3, <2>4
  <2>6. moves(q) \in Seq(ProperCalls)
    BY <2>2, <2>5, SeqDef
  <2> HIDE DEF moves
  <2>7. todo' \in [Threads -> Seq(ProperCalls)] /\ apart' = apart
    BY <1>0, <2>1, <2>6, ThenKeeps
  <2> QED BY <1>12, <2>7 DEF ListViewers, TInv
<1>13. CASE Move(t)
  <2>1. k.client \in Clients
    BY <1>0, <1>13 DEF Move, At, ProperCalls
  <2>2. CASE Then(t, <<>>)
    BY <1>0, <1>13, <1>e, <2>2, ThenKeeps DEF Move, TInv
  <2>3. ASSUME NEW s \in alive, Then(t, <<Call("view", k.client, s), Negotiate(s)>>) PROVE TInv'
    <3>1. Call("view", k.client, s) \in ProperCalls /\ Negotiate(s) \in ProperCalls
      BY <2>1, CallsAreProper, HostCallsAreProper DEF TInv
    <3>2. <<Call("view", k.client, s), Negotiate(s)>> \in Seq(ProperCalls)
      BY <3>1
    <3>3. todo' \in [Threads -> Seq(ProperCalls)] /\ apart' = apart
      BY <1>0, <2>3, <3>2, ThenKeeps
    <3> QED BY <1>13, <3>3 DEF Move, TInv
  <2> QED BY <1>13, <2>2, <2>3 DEF Move
<1>14. CASE Follow(t)
  <2>1. k.client \in Clients
    BY <1>0, <1>14 DEF Follow, At, ProperCalls
  <2>2. \/ Then(t, <<Call("first", k.client, None)>>)
        \/ \E s \in Sessions : Then(t, <<Call("compare", k.client, s)>>)
    <3>1. viewing[k.client] \in Sessions \cup {None}
      BY <2>1 DEF TInv
    <3>2. CASE status[k.client] = "on" /\ viewing[k.client] # None
      <4>1. Then(t, <<Call("compare", k.client, viewing[k.client])>>)
        BY <1>14, <3>2 DEF Follow
      <4> QED BY <3>1, <3>2, <4>1
    <3>3. CASE ~(status[k.client] = "on" /\ viewing[k.client] # None)
      <4>1. Then(t, <<Call("first", k.client, None)>>)
        BY <1>14, <3>3 DEF Follow
      <4> QED BY <4>1
    <3> QED BY <3>2, <3>3
  <2>3. ASSUME NEW m \in ProperCalls, Then(t, <<m>>)
        PROVE  todo' \in [Threads -> Seq(ProperCalls)] /\ apart' = apart
    <3>1. <<m>> \in Seq(ProperCalls)
      OBVIOUS
    <3> HIDE DEF k
    <3> QED BY <1>0, <2>3, <3>1, ThenKeeps
  <2>4. \A s \in Sessions : Call("compare", k.client, s) \in ProperCalls
    BY <2>1, CallsAreProper
  <2>5. Call("first", k.client, None) \in ProperCalls
    BY <2>1 DEF Call, ProperCalls, Calls
  <2>6. todo' \in [Threads -> Seq(ProperCalls)] /\ apart' = apart
    BY <2>2, <2>3, <2>4, <2>5
  <2> QED BY <1>14, <2>6 DEF Follow, TInv
<1>15. CASE Compare(t)
  <2>1. k.client \in Clients /\ k.session \in Sessions
    BY <1>0, <1>15 DEF Compare, At, ProperCalls
  <2> DEFINE first == <<Call("first", k.client, None)>>
  <2>2. SwitchView(k.client, k.session) \in Seq(ProperCalls) /\ first \in Seq(ProperCalls)
    BY <2>1, SwitchIsProper, CallsAreProper
  <2>3. Then(t, SwitchView(k.client, k.session)) \/ Then(t, first)
    BY <1>15 DEF Compare
  <2> HIDE DEF first
  <2>4. todo' \in [Threads -> Seq(ProperCalls)] /\ apart' = apart
    BY <1>0, <2>2, <2>3, ThenKeeps
  <2> QED BY <1>15, <2>4 DEF Compare, TInv
<1>16. CASE FirstRunning(t)
  <2>1. k.client \in Clients
    BY <1>0, <1>16 DEF FirstRunning, At, ProperCalls
  <2> DEFINE blank == <<Call("blank", k.client, None)>>
  <2>2. Call("blank", k.client, None) \in ProperCalls
    BY <2>1 DEF Call, ProperCalls, Calls
  <2>3. blank \in Seq(ProperCalls) /\ \A s \in Sessions : SwitchView(k.client, s) \in Seq(ProperCalls)
    BY <2>1, <2>2, SwitchIsProper
  <2>4. Then(t, blank) \/ \E s \in Sessions : Then(t, SwitchView(k.client, s))
    BY <1>16 DEF FirstRunning, TInv
  <2> HIDE DEF blank
  <2>5. todo' \in [Threads -> Seq(ProperCalls)] /\ apart' = apart
    BY <1>0, <2>3, <2>4, ThenKeeps
  <2> QED BY <1>16, <2>5 DEF FirstRunning, TInv
<1>17. CASE Blank(t) \/ Unmap(t)
  <2>1. Then(t, <<>>)
    BY <1>17 DEF Blank, Unmap
  <2>2. todo' \in [Threads -> Seq(ProperCalls)] /\ apart' = apart
    BY <1>0, <1>e, <2>1, ThenKeeps
  <2>3. ui' \in [Clients -> Sessions \cup {None}]
    BY <1>17 DEF Blank, Unmap, TInv
  <2> QED BY <1>17, <2>2, <2>3 DEF Blank, Unmap, TInv
<1>18. CASE CloseHost(t)
  <2>1. k.session \in Sessions
    BY <1>0, <1>18 DEF CloseHost, At, ProperCalls
  <2> DEFINE list == <<Call("list", None, k.session)>>
  <2>2. list \in Seq(ProperCalls)
    BY <2>1, HostCallsAreProper
  <2>3. Then(t, list)
    BY <1>18 DEF CloseHost
  <2> HIDE DEF list
  <2>4. todo' \in [Threads -> Seq(ProperCalls)] /\ apart' = apart
    BY <1>0, <2>2, <2>3, ThenKeeps
  <2>5. closed' \in [Sessions -> SUBSET Sessions]
    BY <1>18, <2>1 DEF CloseHost, TInv
  <2> QED BY <1>18, <2>4, <2>5 DEF CloseHost, TInv
<1> QED
  BY <1>1, <1>2, <1>3, <1>4, <1>5, <1>6, <1>7, <1>8, <1>9, <1>10, <1>11, <1>12, <1>13,
     <1>14, <1>15, <1>16, <1>17, <1>18 DEF Run

LEMMA TypesStep ==
    ASSUME IsFiniteSet(Clients), TInv, [Next]_vars
    PROVE  TInv'
<1> USE DEF attachVars, subVars, uiVars, sessionVars
<1>1. \A c \in Clients : Main(c) \in Threads /\ \A s \in Sessions : Pump(c, s) \in Threads
  BY DEF Threads
<1>2. \A s \in Sessions : Cascade(s) \in Threads
  BY DEF Threads
<1>3. ASSUME NEW t \in Threads, Run(t) PROVE TInv'
  BY <1>3, RunKeepsTypes
<1>4. ASSUME NEW c \in Clients, NEW z \in Sizes, Connect(c, z) PROVE TInv'
  <2>1. todo' \in [Threads -> Seq(ProperCalls)] /\ apart' \in BOOLEAN
    <3>1. CASE UNCHANGED <<todo, apart>>
      BY <3>1 DEF TInv
    <3>2. ASSUME NEW s \in alive, Start(Main(c), SwitchView(c, s))
          PROVE  todo' \in [Threads -> Seq(ProperCalls)] /\ apart' \in BOOLEAN
      <4>1. SwitchView(c, s) \in Seq(ProperCalls)
        BY SwitchIsProper DEF TInv
      <4> QED BY <1>1, <3>2, <4>1, StartKeeps
    <3> QED BY <1>4, <3>1, <3>2 DEF Connect
  <2> QED BY <1>4, <2>1 DEF Connect, TInv
<1>5. ASSUME NEW c \in Clients, NEW z \in Sizes, Layout(c, z) PROVE TInv'
  <2> DEFINE calls == <<Sized("size", c, None, z), Call("current", c, None)>>
  <2>1. Sized("size", c, None, z) \in ProperCalls /\ Call("current", c, None) \in ProperCalls
    BY SizeCallIsProper DEF Call, ProperCalls, Calls
  <2>2. calls \in Seq(ProperCalls) /\ Start(Main(c), calls)
    BY <1>5, <2>1 DEF Layout
  <2> HIDE DEF calls
  <2>3. todo' \in [Threads -> Seq(ProperCalls)] /\ apart' \in BOOLEAN
    BY <1>1, <2>2, StartKeeps
  <2> QED BY <1>5, <2>3 DEF Layout, TInv
<1>6. ASSUME NEW c \in Clients, NEW s \in Sessions, Jump(c, s) PROVE TInv'
  <2> DEFINE old == IF viewing[c] \in {None, s} THEN <<>> ELSE <<Negotiate(viewing[c])>>
             calls == <<Call("view", c, s)>> \o old \o <<Negotiate(s)>> \o SwitchView(c, s)
  <2>1. <<Call("view", c, s)>> \in Seq(ProperCalls) /\ <<Negotiate(s)>> \in Seq(ProperCalls)
    BY CallsAreProper, HostCallsAreProper
  <2>2. old \in Seq(ProperCalls)
    <3>1. CASE viewing[c] \in {None, s}
      BY <3>1, EmptySeq
    <3>2. CASE viewing[c] \notin {None, s}
      <4>1. Negotiate(viewing[c]) \in ProperCalls
        BY <3>2, HostCallsAreProper DEF TInv
      <4> QED BY <3>2, <4>1
    <3> QED BY <3>1, <3>2
  <2>3. Start(Main(c), calls)
    BY <1>6 DEF Jump
  <2> HIDE DEF old
  <2>4. SwitchView(c, s) \in Seq(ProperCalls)
    BY SwitchIsProper
  <2>5. calls \in Seq(ProperCalls)
    BY <2>1, <2>2, <2>4, ConcatProperties
  <2> HIDE DEF calls
  <2>6. todo' \in [Threads -> Seq(ProperCalls)] /\ apart' \in BOOLEAN
    BY <1>1, <2>3, <2>5, StartKeeps
  <2> QED BY <1>6, <2>6 DEF Jump, TInv
<1>7. ASSUME NEW c \in Clients, NEW s \in Sessions, ViewStopped(c, s) PROVE TInv'
  <2>1. subs' \in [Clients -> SUBSET Sessions] /\ pumps' \in [Clients -> SUBSET Sessions]
    BY <1>7 DEF ViewStopped, TInv
  <2>2. <<Call("follow", c, None)>> \in Seq(ProperCalls)
    BY CallsAreProper
  <2>3. todo' \in [Threads -> Seq(ProperCalls)] /\ apart' \in BOOLEAN
    BY <1>1, <1>7, <2>2, StartKeeps DEF ViewStopped
  <2> QED BY <1>7, <2>1, <2>3 DEF ViewStopped, TInv
<1>8. ASSUME NEW c \in Clients, NEW s \in Sessions, SetDriver(s, c) PROVE TInv'
  <2>1. unsettled' \in BOOLEAN
    BY <1>8, Zenon DEF SetDriver, TInv
  <2> QED BY <1>8, <2>1 DEF SetDriver, TInv
<1>9. ASSUME NEW c \in Clients, Quit(c) PROVE TInv'
  <2> DEFINE calls == <<Call("stop", c, None), Call("detach", c, None)>>
  <2>1. Call("stop", c, None) \in ProperCalls /\ Call("detach", c, None) \in ProperCalls
    BY DEF Call, ProperCalls, Calls
  <2>2. calls \in Seq(ProperCalls) /\ Start(Main(c), calls)
    BY <1>9, <2>1 DEF Quit
  <2> HIDE DEF calls
  <2>3. todo' \in [Threads -> Seq(ProperCalls)] /\ apart' \in BOOLEAN
    BY <1>1, <2>2, StartKeeps
  <2> QED BY <1>9, <2>3 DEF Quit, TInv
<1>10. ASSUME NEW s \in Sessions, HostDown(s) \/ ClosedEnds(s) PROVE TInv'
  <2> DEFINE hook == <<Call("remove", None, s), Call("close", None, s)>>
             none == <<Call("remove", None, s)>>
  <2>1. hook \in Seq(ProperCalls) /\ none \in Seq(ProperCalls)
    BY HostCallsAreProper
  <2>2. Start(Cascade(s), hook) \/ Start(Cascade(s), none)
    BY <1>10 DEF HostDown, ClosedEnds
  <2> HIDE DEF hook, none
  <2>3. todo' \in [Threads -> Seq(ProperCalls)] /\ apart' \in BOOLEAN
    BY <1>2, <2>1, <2>2, StartKeeps
  <2> QED BY <1>10, <2>3 DEF HostDown, ClosedEnds, TInv
<1>11. CASE UNCHANGED vars
  BY <1>11 DEF vars, TInv
<1> QED
  BY <1>3, <1>4, <1>5, <1>6, <1>7, <1>8, <1>9, <1>10, <1>11 DEF Next

\* Every variable keeps its type, and no handler is ever left with a call that
\* names no client or no session where it needs one: what Resize applies is
\* always made of the rows and the columns of real panes.
THEOREM ResizeTypes ==
    ASSUME IsFiniteSet(Clients)
    PROVE  Spec => []TypeOK
<1>1. TInv => TypeOK
  BY TypesFollow
<1>2. TInv /\ [Next]_vars => TInv'
  BY TypesStep
<1> QED BY <1>1, <1>2, TypesInit, PTL DEF Spec

-----------------------------------------------------------------------------
(* What an interface has still to do, while only interfaces move views *)

Queue(c) == todo[Main(c)]

\* The last j calls of q are those of L.
EndsWith(q, L, j) ==
    /\ j <= Len(q) /\ j <= Len(L)
    /\ \A k \in 0..(j - 1) : q[Len(q) - k] = L[Len(L) - k]

\* Calls that move nobody.
Quiet(k, c) == k.op \in {"negotiate", "record", "push"} \/ k = Call("current", c, None)

\* The last j calls are those of switchView, and those before them are quiet.
\* The first may be SetViewing, of Jump or of switchView, or SetSize, of
\* onPaneResize.
Form(q, c, s, j, z) ==
    /\ EndsWith(q, SwitchView(c, s), j)
    /\ \A i \in 1..(Len(q) - j) :
        \/ Quiet(q[i], c)
        \/ i = 1 /\ j \in {2, 5} /\ q[i] = Call("view", c, s)
        \/ i = 1 /\ j \in {0, 1} /\ q[i] = Sized("size", c, None, z)

\* The interface has j calls of switchView still to make.
Showing(c, s, j) ==
    /\ Form(Queue(c), c, s, j, pane[c])
    /\ cancel[c] = IF j = 4 THEN None ELSE ui[c]
    /\ j \in 1..3 => ui[c] = s
    /\ j <= 2 => At(Main(c), "view") \/ viewing[c] = ui[c]
    /\ j <= 1 => At(Main(c), "size") \/ csize[c] = pane[c]

\* What Handle defers: stopSub, then Detach.
Leaving(c) == <<Call("stop", c, None), Call("detach", c, None)>>
Quitting(c) ==
    \E j \in {1, 2} : /\ Len(Queue(c)) = j /\ EndsWith(Queue(c), Leaving(c), j)
                      /\ j = 1 => cancel[c] = None

\* The interface is at rest, in a switchView or quitting, or is not connected.
OnItsWay(c) ==
    /\ subs[c] = {cancel[c]} \ {None}
    /\ status[c] = "on" =>
        Quitting(c) \/ \E s \in Sessions \cup {None}, j \in 0..5 : Showing(c, s, j)
    /\ status[c] # "on" => Queue(c) = <<>> /\ cancel[c] = None /\ viewing[c] = None
    /\ status[c] = "new" => ui[c] = None

\* No cascade and no pump is at work.
OnlyItself ==
    /\ \A c \in Clients : OnItsWay(c) /\ \A s \in Sessions : todo[Pump(c, s)] = <<>>
    /\ \A s \in Sessions : todo[Cascade(s)] = <<>>

ViewInv == Undisturbed => OnlyItself

\* A list of calls whose first one is replaced by others.
LEMMA Replaced ==
    ASSUME NEW S, NEW q \in Seq(S), q # <<>>, NEW p \in Seq(S), NEW r, r = p \o Tail(q)
    PROVE  /\ r \in Seq(S) /\ Len(q) \in Nat \ {0} /\ Len(p) \in Nat
           /\ Len(r) = Len(p) + Len(q) - 1
           /\ \A i \in 1..Len(p) : r[i] = p[i]
           /\ \A i \in 2..Len(q) : r[Len(p) + i - 1] = q[i]
<1>1. Tail(q) \in Seq(S) /\ Len(Tail(q)) = Len(q) - 1
      /\ \A i \in 1..Len(Tail(q)) : Tail(q)[i] = q[i + 1]
  BY HeadTailProperties
<1>2. Len(q) \in Nat \ {0} /\ Len(p) \in Nat
  BY EmptySeq, LenProperties
<1>3. r \in Seq(S) /\ Len(r) = Len(p) + Len(q) - 1
  BY <1>1, <1>2, ConcatProperties
<1>4. \A i \in 1..(Len(p) + Len(Tail(q))) :
        r[i] = IF i <= Len(p) THEN p[i] ELSE Tail(q)[i - Len(p)]
  BY <1>1, ConcatProperties
<1>5. ASSUME NEW i \in 1..Len(p) PROVE r[i] = p[i]
  BY <1>1, <1>2, <1>4
<1>6. ASSUME NEW i \in 2..Len(q) PROVE r[Len(p) + i - 1] = q[i]
  <2>1. Len(p) + i - 1 \in 1..(Len(p) + Len(Tail(q))) /\ ~(Len(p) + i - 1 <= Len(p))
        /\ (Len(p) + i - 1) - Len(p) = i - 1
    BY <1>1, <1>2
  <2>2. r[Len(p) + i - 1] = Tail(q)[i - 1]
    BY <1>4, <2>1
  <2>3. i - 1 \in 1..Len(Tail(q)) /\ (i - 1) + 1 = i
    BY <1>1, <1>2
  <2> QED BY <1>1, <2>2, <2>3
<1> QED BY <1>2, <1>3, <1>5, <1>6

\* Its end stays what it was.
LEMMA EndStays ==
    ASSUME NEW S, NEW q \in Seq(S), q # <<>>, NEW p \in Seq(S), NEW r, r = p \o Tail(q),
           NEW L, Len(L) \in Nat, NEW j \in Nat, EndsWith(q, L, j), NEW m \in Nat, m <= j, m < Len(q)
    PROVE  EndsWith(r, L, m)
<1>1. Len(q) \in Nat \ {0} /\ Len(p) \in Nat /\ Len(r) = Len(p) + Len(q) - 1
  BY Replaced
<1>2. \A i \in 2..Len(q) : r[Len(p) + i - 1] = q[i]
  BY Replaced
<1>3. ASSUME NEW k \in 0..(m - 1) PROVE r[Len(r) - k] = L[Len(L) - k]
  <2>1. Len(q) - k \in 2..Len(q) /\ Len(p) + (Len(q) - k) - 1 = Len(r) - k /\ k \in 0..(j - 1)
    BY <1>1
  <2>2. r[Len(r) - k] = q[Len(q) - k]
    BY <1>2, <2>1
  <2>3. q[Len(q) - k] = L[Len(L) - k]
    BY <2>1 DEF EndsWith
  <2> QED BY <2>2, <2>3
<1>4. m <= Len(r) /\ m <= Len(L)
  BY <1>1 DEF EndsWith
<1> QED BY <1>3, <1>4 DEF EndsWith

\* What follows a list ends with it.
LEMMA EndsConcat ==
    ASSUME NEW S, NEW p \in Seq(S), NEW L \in Seq(S)
    PROVE  EndsWith(p \o L, L, Len(L))
<1>1. Len(p) \in Nat /\ Len(L) \in Nat /\ Len(p \o L) = Len(p) + Len(L)
  BY LenProperties, ConcatProperties
<1>2. ASSUME NEW k \in 0..(Len(L) - 1) PROVE (p \o L)[Len(p \o L) - k] = L[Len(L) - k]
  <2>1. Len(p) + Len(L) - k \in 1..(Len(p) + Len(L)) /\ ~(Len(p) + Len(L) - k <= Len(p))
        /\ (Len(p) + Len(L) - k) - Len(p) = Len(L) - k
    BY <1>1
  <2> QED BY <1>1, <2>1, ConcatProperties
<1> QED BY <1>1, <1>2 DEF EndsWith

LEMMA SwitchIs ==
    ASSUME NEW c, NEW s
    PROVE  /\ Len(SwitchView(c, s)) = 5
           /\ SwitchView(c, s)[1] = Call("stop", c, None) /\ SwitchView(c, s)[2] = Call("show", c, s)
           /\ SwitchView(c, s)[3] = Call("leave", c, s) /\ SwitchView(c, s)[4] = Call("pane", c, None)
           /\ SwitchView(c, s)[5] = Call("stream", c, s)
BY DEF SwitchView

\* The first call is quiet, moves the view, changes the size, or is switchView's.
LEMMA FormHead ==
    ASSUME NEW S, NEW q \in Seq(S), q # <<>>, NEW c, NEW s, NEW z, NEW j \in 0..5,
           Form(q, c, s, j, z)
    PROVE  \/ Len(q) > j /\ Quiet(Head(q), c)
           \/ Len(q) > j /\ j \in {2, 5} /\ Head(q) = Call("view", c, s)
           \/ Len(q) > j /\ j \in {0, 1} /\ Head(q) = Sized("size", c, None, z)
           \/ Len(q) = j /\ j > 0 /\ Head(q) = SwitchView(c, s)[6 - j]
<1>1. Len(q) \in Nat \ {0} /\ Head(q) = q[1] /\ j <= Len(q)
  BY EmptySeq, HeadTailProperties DEF Form, EndsWith
<1>2. CASE Len(q) > j
  <2>1. 1 \in 1..(Len(q) - j)
    BY <1>1, <1>2
  <2> QED BY <1>1, <1>2, <2>1 DEF Form
<1>3. CASE Len(q) = j
  <2> DEFINE L == SwitchView(c, s)
             k == j - 1
  <2>1. k \in 0..(j - 1) /\ Len(q) - k = 1 /\ 5 - k = 6 - j
    BY <1>1, <1>3
  <2> HIDE DEF L, k
  <2>2. q[Len(q) - k] = L[Len(L) - k]
    BY <2>1 DEF Form, EndsWith, L
  <2>3. Len(L) = 5
    BY SwitchIs DEF L
  <2>4. q[1] = L[6 - j]
    BY <2>1, <2>2, <2>3
  <2>5. q[1] = SwitchView(c, s)[6 - j]
    BY <2>4 DEF L
  <2> QED BY <1>1, <1>3, <2>5
<1> QED BY <1>1, <1>2, <1>3

\* Replacing the first call by quiet ones keeps the form.
LEMMA FormReplaced ==
    ASSUME NEW S, NEW q \in Seq(S), q # <<>>, NEW p \in Seq(S), NEW r, r = p \o Tail(q),
           NEW c, NEW s, NEW z, NEW j \in 0..5, Form(q, c, s, j, z),
           NEW m \in 0..5, m < Len(q), m = j \/ (Len(q) = j /\ m = j - 1),
           \A i \in 1..Len(p) :
                \/ Quiet(p[i], c)
                \/ i = 1 /\ m \in {2, 5} /\ p[i] = Call("view", c, s)
                \/ i = 1 /\ m \in {0, 1} /\ p[i] = Sized("size", c, None, z)
    PROVE  Form(r, c, s, m, z)
<1>1. Len(q) \in Nat \ {0} /\ Len(p) \in Nat /\ Len(r) = Len(p) + Len(q) - 1
  BY Replaced
<1>2. \A i \in 1..Len(p) : r[i] = p[i]
  BY Replaced
<1>3. \A i \in 2..Len(q) : r[Len(p) + i - 1] = q[i]
  BY Replaced
<1>4. EndsWith(r, SwitchView(c, s), m)
  <2> DEFINE L == SwitchView(c, s)
  <2>1. m <= j /\ j \in Nat /\ m \in Nat /\ Len(L) \in Nat
    BY SwitchIs
  <2>2. EndsWith(q, L, j)
    BY DEF Form
  <2> HIDE DEF L
  <2>3. EndsWith(r, L, m)
    BY <2>1, <2>2, EndStays
  <2> QED BY <2>3 DEF L
<1>5. ASSUME NEW i \in 1..(Len(r) - m)
      PROVE  \/ Quiet(r[i], c)
             \/ i = 1 /\ m \in {2, 5} /\ r[i] = Call("view", c, s)
             \/ i = 1 /\ m \in {0, 1} /\ r[i] = Sized("size", c, None, z)
  <2>1. CASE i <= Len(p)
    <3>1. i \in 1..Len(p)
      BY <1>1, <2>1
    <3> QED BY <1>2, <3>1
  <2>2. CASE i > Len(p)
    <3> DEFINE h == i - Len(p) + 1
    <3>1. h \in 2..Len(q) /\ Len(p) + h - 1 = i /\ h <= Len(q) - m
      BY <1>1, <2>2
    <3>2. r[i] = q[h]
      BY <1>3, <3>1
    <3>3. CASE m = j
      <4>1. h \in 1..(Len(q) - j) /\ h # 1
        BY <1>1, <3>1, <3>3
      <4>2. Quiet(q[h], c)
        BY <4>1 DEF Form
      <4> QED BY <3>2, <4>2
    <3>4. CASE Len(q) = j /\ m = j - 1
      BY <1>1, <3>1, <3>4
    <3> QED BY <3>3, <3>4
  <2> QED BY <1>1, <2>1, <2>2
<1> QED BY <1>4, <1>5 DEF Form

\* Which call is the first tells how far switchView is.
LEMMA StageOf ==
    ASSUME NEW S, NEW q \in Seq(S), q # <<>>, NEW c, NEW s, NEW z, NEW j \in 0..5,
           Form(q, c, s, j, z)
    PROVE  /\ Head(q).op = "stop" => Len(q) = j /\ j = 5 /\ Head(q) = Call("stop", c, None)
           /\ Head(q).op = "show" => Len(q) = j /\ j = 4 /\ Head(q) = Call("show", c, s)
           /\ Head(q).op = "leave" => Len(q) = j /\ j = 3 /\ Head(q) = Call("leave", c, s)
           /\ Head(q).op = "pane" => Len(q) = j /\ j = 2 /\ Head(q) = Call("pane", c, None)
           /\ Head(q).op = "stream" => Len(q) = j /\ j = 1 /\ Head(q) = Call("stream", c, s)
           /\ Head(q).op = "view" => Len(q) > j /\ j \in {2, 5} /\ Head(q) = Call("view", c, s)
           /\ Head(q).op = "size" => Len(q) > j /\ j \in {0, 1} /\ Head(q) = Sized("size", c, None, z)
           /\ Head(q).op \in {"negotiate", "record", "push", "current"} => Len(q) > j
           /\ Head(q).op = "current" => Head(q) = Call("current", c, None)
           /\ Head(q).op \notin OtherOps \cup {"detach"}
<1> DEFINE k == Head(q)
           L == SwitchView(c, s)
<1>0. /\ L[1] = Call("stop", c, None) /\ L[2] = Call("show", c, s) /\ L[3] = Call("leave", c, s)
      /\ L[4] = Call("pane", c, None) /\ L[5] = Call("stream", c, s)
  BY SwitchIs
<1>a. /\ L[1].op = "stop" /\ L[2].op = "show" /\ L[3].op = "leave" /\ L[4].op = "pane"
      /\ L[5].op = "stream"
  <2> HIDE DEF L
  <2> QED BY <1>0 DEF Call
<1> HIDE DEF L
<1>1. CASE Quiet(k, c)
  <2>1. k.op \in {"negotiate", "record", "push", "current"}
        /\ (k.op = "current" => k = Call("current", c, None))
    BY <1>1 DEF Quiet, Call
  <2>2. ~(Len(q) = j /\ j > 0 /\ k = L[6 - j])
    <3>1. \A i \in 1..5 : L[i].op \in {"stop", "show", "leave", "pane", "stream"}
      BY <1>a
    <3>2. j > 0 => 6 - j \in 1..5
      OBVIOUS
    <3> QED BY <2>1, <3>1, <3>2
  <2>3. Len(q) > j
    <3>1. k.op \notin {"view", "size"}
      BY <2>1
    <3>2. k # Call("view", c, s) /\ k # Sized("size", c, None, z)
      BY <3>1 DEF Call, Sized
    <3> HIDE DEF k
    <3> QED BY <2>2, <3>2, FormHead DEF k, L
  <2> QED BY <2>1, <2>3
<1>2. CASE Len(q) > j /\ j \in {2, 5} /\ k = Call("view", c, s)
  BY <1>2 DEF Call
<1>3. CASE Len(q) > j /\ j \in {0, 1} /\ k = Sized("size", c, None, z)
  BY <1>3 DEF Sized
<1>4. CASE Len(q) = j /\ j > 0 /\ k = L[6 - j]
  <2>1. j \in 1..5
    BY <1>4
  <2>2. CASE j = 5
    <3>1. k = L[1] /\ Len(q) = 5
      BY <1>4, <2>2
    <3> QED BY <1>0, <1>a, <2>2, <3>1
  <2>3. CASE j = 4
    <3>1. k = L[2] /\ Len(q) = 4
      BY <1>4, <2>3
    <3> QED BY <1>0, <1>a, <2>3, <3>1
  <2>4. CASE j = 3
    <3>1. k = L[3] /\ Len(q) = 3
      BY <1>4, <2>4
    <3> QED BY <1>0, <1>a, <2>4, <3>1
  <2>5. CASE j = 2
    <3>1. k = L[4] /\ Len(q) = 2
      BY <1>4, <2>5
    <3> QED BY <1>0, <1>a, <2>5, <3>1
  <2>6. CASE j = 1
    <3>1. k = L[5] /\ Len(q) = 1
      BY <1>4, <2>6
    <3> QED BY <1>0, <1>a, <2>6, <3>1
  <2> QED BY <2>1, <2>2, <2>3, <2>4, <2>5, <2>6
<1> QED
  <2>1. \/ Quiet(k, c)
        \/ Len(q) > j /\ j \in {2, 5} /\ k = Call("view", c, s)
        \/ Len(q) > j /\ j \in {0, 1} /\ k = Sized("size", c, None, z)
        \/ Len(q) = j /\ j > 0 /\ k = L[6 - j]
    BY FormHead DEF L
  <2> HIDE DEF k
  <2> QED BY <1>1, <1>2, <1>3, <1>4, <2>1 DEF k

\* The same when the interface is quitting.
LEMMA QuittingHead ==
    ASSUME TInv, NEW c \in Clients, Quitting(c)
    PROVE  /\ Queue(c) \in Seq(ProperCalls) /\ Queue(c) # <<>>
           /\ \/ Len(Queue(c)) = 2 /\ Head(Queue(c)) = Call("stop", c, None)
                 /\ Queue(c)[2] = Call("detach", c, None)
              \/ Len(Queue(c)) = 1 /\ Head(Queue(c)) = Call("detach", c, None) /\ cancel[c] = None
<1> DEFINE q == Queue(c)
<1>1. PICK j \in {1, 2} : Len(q) = j /\ EndsWith(q, Leaving(c), j) /\ (j = 1 => cancel[c] = None)
  BY DEF Quitting
<1>2. q \in Seq(ProperCalls)
  BY DEF TInv, Queue, Threads
<1>3. q # <<>>
  BY <1>1, <1>2, EmptySeq
<1>4. Head(q) = q[1]
  BY <1>2, <1>3, HeadTailProperties
<1>5. Len(Leaving(c)) = 2 /\ Leaving(c)[1] = Call("stop", c, None) /\ Leaving(c)[2] = Call("detach", c, None)
  BY DEF Leaving
<1> HIDE DEF q
<1>6. CASE j = 2
  <2>1. 0 \in 0..(2 - 1) /\ 1 \in 0..(2 - 1) /\ Len(q) - 0 = 2 /\ Len(q) - 1 = 1
    BY <1>1, <1>6
  <2>2. q[2] = Leaving(c)[2] /\ q[1] = Leaving(c)[1]
    BY <1>1, <1>5, <1>6, <2>1 DEF EndsWith
  <2> QED BY <1>1, <1>2, <1>3, <1>4, <1>5, <1>6, <2>2 DEF q
<1>7. CASE j = 1
  <2>1. 0 \in 0..(1 - 1) /\ Len(q) - 0 = 1
    BY <1>1, <1>7
  <2>2. q[1] = Leaving(c)[2]
    BY <1>1, <1>5, <1>7, <2>1 DEF EndsWith
  <2> QED BY <1>1, <1>2, <1>3, <1>4, <1>5, <1>7, <2>2 DEF q
<1> QED BY <1>1, <1>6, <1>7

\* The lists of the threads differ.
LEMMA ThreadsDiffer ==
    /\ \A c, d \in Clients : Main(c) = Main(d) => c = d
    /\ \A c, d \in Clients, s \in Sessions : Main(c) # Pump(d, s) /\ Main(c) # Cascade(s)
    /\ \A c \in Clients : Main(c) \in Threads
    /\ \A c \in Clients, s \in Sessions : Pump(c, s) \in Threads
    /\ \A s \in Sessions : Cascade(s) \in Threads
BY ResizeAssumption DEF Main, Pump, Cascade, Threads

\* What the first call of a list is after some were put before its rest.
LEMMA FirstIs ==
    ASSUME NEW S, NEW q \in Seq(S), q # <<>>, NEW p \in Seq(S), NEW r, r = p \o Tail(q), p # <<>>
    PROVE  r # <<>> /\ Head(r) = p[1]
<1>1. Len(p) \in Nat \ {0} /\ r \in Seq(S) /\ Len(r) = Len(p) + Len(q) - 1 /\ Len(q) \in Nat \ {0}
  BY Replaced, EmptySeq
<1>2. \A i \in 1..Len(p) : r[i] = p[i]
  BY Replaced
<1>3. r # <<>>
  BY <1>1, EmptySeq
<1>4. Head(r) = r[1]
  BY <1>1, <1>3, HeadTailProperties
<1>5. 1 \in 1..Len(p)
  BY <1>1
<1> QED BY <1>2, <1>3, <1>4, <1>5

\* What is left of a list when its first call is dropped.
LEMMA Dropped ==
    ASSUME NEW S, NEW q \in Seq(S), q # <<>>, NEW r, r = <<>> \o Tail(q)
    PROVE  r \in Seq(S) /\ Len(r) = Len(q) - 1 /\ \A i \in 2..Len(q) : r[i - 1] = q[i]
<1>1. r = Tail(q)
  BY HeadTailProperties, ConcatEmptySeq
<1>2. Tail(q) \in Seq(S) /\ Len(Tail(q)) = Len(q) - 1 /\ Len(q) \in Nat
  BY HeadTailProperties, LenProperties
<1>3. ASSUME NEW i \in 2..Len(q) PROVE r[i - 1] = q[i]
  <2>1. i - 1 \in 1..Len(Tail(q)) /\ (i - 1) + 1 = i
    BY <1>2
  <2> QED BY <1>1, <2>1, HeadTailProperties
<1> QED BY <1>1, <1>2, <1>3

\* Two lists of one call each.
LEMMA PairIs == ASSUME NEW a, NEW b PROVE <<a>> \o <<b>> = <<a, b>>
<1> DEFINE S == {a, b}
           u == <<a>>
           v == <<b>>
           w == <<a, b>>
<1>1. u \in Seq(S) /\ v \in Seq(S) /\ w \in Seq(S)
  OBVIOUS
<1>2. Len(u) = 1 /\ Len(v) = 1 /\ Len(w) = 2 /\ u[1] = a /\ v[1] = b /\ w[1] = a /\ w[2] = b
  OBVIOUS
<1> HIDE DEF S, u, v, w
<1>3. u \o v \in Seq(S) /\ Len(u \o v) = 2
  BY <1>1, <1>2, ConcatProperties
<1>4. \A i \in 1..2 : (u \o v)[i] = IF i <= 1 THEN u[i] ELSE v[i - 1]
  BY <1>1, <1>2, ConcatProperties
<1>5. (u \o v)[1] = a /\ (u \o v)[2] = b
  BY <1>2, <1>4
<1>6. \A i \in 1..2 : i = 1 \/ i = 2
  OBVIOUS
<1>7. u \o v = w
  BY <1>1, <1>2, <1>3, <1>5, <1>6, SeqEqual
<1> QED BY <1>7 DEF u, v, w

\* The parts of a call.
LEMMA CallIs ==
    /\ \A o, c, s : /\ Call(o, c, s).op = o /\ Call(o, c, s).client = c
                   /\ Call(o, c, s).session = s
    /\ \A o, c, s, z : /\ Sized(o, c, s, z).op = o /\ Sized(o, c, s, z).client = c
                      /\ Sized(o, c, s, z).session = s /\ Sized(o, c, s, z).size = z
BY DEF Call, Sized

\* What a call of the interface's own thread does to the list it is in.
LEMMA ThenIs ==
    ASSUME TInv, NEW c \in Clients, ~Idle(Main(c)), NEW p, Then(Main(c), p)
    PROVE  /\ Queue(c) \in Seq(ProperCalls) /\ Queue(c) # <<>>
           /\ Head(Queue(c)) \in ProperCalls
           /\ Queue(c)' = p \o Tail(Queue(c))
           /\ \A t \in Threads : t # Main(c) => todo'[t] = todo[t]
           /\ todo' \in [Threads -> Seq(ProperCalls)] => Queue(c)' \in Seq(ProperCalls)
<1>1. Main(c) \in Threads
  BY ThreadsDiffer
<1> QED BY <1>1, HeadIsProper DEF TInv, Then, Queue

\* A quiet call leaves the interface where it was.
LEMMA QuietKeeps ==
    ASSUME TInv, NEW c \in Clients, OnItsWay(c), ~Idle(Main(c)),
           Head(Queue(c)).op \in {"negotiate", "record", "push", "current"},
           NEW p \in Seq(ProperCalls), \A i \in 1..Len(p) : Quiet(p[i], c),
           Then(Main(c), p),
           UNCHANGED <<attachVars, uiVars>>
    PROVE  OnItsWay(c)'
<1> DEFINE q == Queue(c)
           r == Queue(c)'
<1>1. q \in Seq(ProperCalls) /\ q # <<>> /\ r = p \o Tail(q)
  BY ThenIs
<1>2. status[c] = "on"
  BY <1>1 DEF OnItsWay
<1>3. ~Quitting(c)
  <2>1. Call("stop", c, None).op = "stop" /\ Call("detach", c, None).op = "detach"
    BY DEF Call
  <2>2. Quitting(c) => Head(q) \in {Call("stop", c, None), Call("detach", c, None)}
    BY QuittingHead
  <2> QED BY <2>1, <2>2
<1>4. PICK s \in Sessions \cup {None}, j \in 0..5 : Showing(c, s, j)
  BY <1>2, <1>3 DEF OnItsWay
<1>5. Form(q, c, s, j, pane[c])
  BY <1>4 DEF Showing
<1> HIDE DEF q
<1>6. j < Len(q)
  <2>1. Len(q) > j
    BY <1>1, <1>5, StageOf DEF q
  <2>2. Len(q) \in Nat
    BY <1>1, LenProperties
  <2> QED BY <2>1, <2>2
<1>7. Form(r, c, s, j, pane[c])
  BY <1>1, <1>5, <1>6, FormReplaced
<1>8. ~At(Main(c), "view") /\ ~At(Main(c), "size")
  BY DEF At, Queue
<1>9. Showing(c, s, j)'
  BY <1>4, <1>7, <1>8 DEF Showing, attachVars, uiVars, subVars
<1> QED BY <1>2, <1>9 DEF OnItsWay, attachVars, uiVars, subVars

\* What a step of c's thread leaves alone.
Alone(c) ==
    /\ \A t \in Threads : t # Main(c) => todo'[t] = todo[t]
    /\ \A d \in Clients : d # c =>
        /\ subs'[d] = subs[d] /\ cancel'[d] = cancel[d] /\ status'[d] = status[d]
        /\ ui'[d] = ui[d] /\ viewing'[d] = viewing[d] /\ csize'[d] = csize[d]
        /\ pane'[d] = pane[d]

LEMMA AloneKeeps ==
    ASSUME TInv, NEW c \in Clients, OnlyItself, Alone(c), OnItsWay(c)'
    PROVE  OnlyItself'
<1>1. ASSUME NEW d \in Clients, d # c PROVE OnItsWay(d)'
  <2>1. todo'[Main(d)] = todo[Main(d)]
    BY <1>1, ThreadsDiffer DEF Alone
  <2>2. Quitting(d) => Quitting(d)'
    BY <1>1, <2>1 DEF Quitting, Queue, Alone
  <2>3. ASSUME NEW s, NEW j, Showing(d, s, j) PROVE Showing(d, s, j)'
    BY <1>1, <2>1, <2>3 DEF Showing, Queue, At, Idle, Alone
  <2> QED BY <1>1, <2>1, <2>2, <2>3 DEF OnlyItself, OnItsWay, Queue, Alone
<1>2. \A d \in Clients, s \in Sessions : todo'[Pump(d, s)] = <<>>
  BY ThreadsDiffer DEF Alone, OnlyItself
<1>3. \A s \in Sessions : todo'[Cascade(s)] = <<>>
  BY ThreadsDiffer DEF Alone, OnlyItself
<1> QED BY <1>1, <1>2, <1>3 DEF OnlyItself

\* One call of an interface's own thread.
LEMMA RunKeepsView ==
    ASSUME IsFiniteSet(Clients), TInv, TInv', Undisturbed, OnlyItself, NEW c \in Clients, Run(Main(c))
    PROVE  OnItsWay(c)' /\ Alone(c)
<1> DEFINE t == Main(c)
           q == Queue(c)
           k == Head(q)
           r == Queue(c)'
<1> USE DEF attachVars, subVars, uiVars, sessionVars
<1>a. ~Idle(t)
  BY DEF Run, StopSub, Show, Stream, Detach, Leave, SetViewing, PaneSize, SetSize, Current,
         Compute, Record, Push, ListViewers, Move, Follow, Compare, FirstRunning, Blank,
           Unmap, CloseHost, At
<1>b. \E p : Then(t, p)
  BY DEF Run, StopSub, Show, Stream, Detach, Leave, SetViewing, PaneSize, SetSize, Current,
         Compute, Record, Push, ListViewers, Move, Follow, Compare, FirstRunning, Blank,
           Unmap, CloseHost
<1>0. /\ q \in Seq(ProperCalls) /\ q # <<>> /\ k \in ProperCalls
      /\ \A u \in Threads : u # t => todo'[u] = todo[u]
      /\ r \in Seq(ProperCalls)
  BY <1>a, <1>b, ThenIs DEF TInv
<1>on. status[c] = "on" /\ OnItsWay(c)
  BY <1>0 DEF OnlyItself, OnItsWay
<1>e. <<>> \in Seq(ProperCalls) /\ Len(<<>>) = 0 /\ Len(q) \in Nat \ {0}
      /\ \A i \in 1..Len(<<>>) : FALSE
  BY <1>0, EmptySeq
<1>way. \/ Quitting(c)
        \/ \E s \in Sessions \cup {None}, j \in 0..5 : Showing(c, s, j)
  BY <1>on DEF OnItsWay
<1>same. ASSUME UNCHANGED <<attachVars, uiVars>> PROVE Alone(c)
  BY <1>0, <1>same DEF Alone
<1>neg. \A s : Quiet(Negotiate(s), c)
  BY DEF Quiet, Negotiate, Call
\* How far it is.
<1>quit. ASSUME Quitting(c)
         PROVE  \/ k.op = "stop" /\ k.client = c /\ Len(q) = 2 /\ q[2] = Call("detach", c, None)
                \/ k.op = "detach" /\ k.client = c /\ Len(q) = 1 /\ cancel[c] = None
  <2>1. \/ Len(q) = 2 /\ k = Call("stop", c, None) /\ q[2] = Call("detach", c, None)
        \/ Len(q) = 1 /\ k = Call("detach", c, None) /\ cancel[c] = None
    BY <1>quit, QuittingHead
  <2> QED BY <2>1, CallIs
<1>stage. ASSUME NEW s \in Sessions \cup {None}, NEW j \in 0..5, Showing(c, s, j)
          PROVE  /\ k.op = "stop" => Len(q) = j /\ j = 5 /\ k.client = c
                 /\ k.op = "show" => Len(q) = j /\ j = 4 /\ k.client = c /\ k.session = s
                 /\ k.op = "leave" => Len(q) = j /\ j = 3 /\ k.client = c /\ k.session = s
                 /\ k.op = "pane" => Len(q) = j /\ j = 2 /\ k.client = c
                 /\ k.op = "stream" => Len(q) = j /\ j = 1
                 /\ k.op = "view" => Len(q) > j /\ j \in {2, 5} /\ k.client = c /\ k.session = s
                 /\ k.op = "size" => Len(q) > j /\ j \in {0, 1} /\ k.client = c /\ k.size = pane[c]
                 /\ k.op \notin OtherOps \cup {"detach"}
  <2>1. Form(q, c, s, j, pane[c])
    BY <1>stage DEF Showing
  <2>2. /\ k.op = "stop" => Len(q) = j /\ j = 5 /\ k = Call("stop", c, None)
        /\ k.op = "show" => Len(q) = j /\ j = 4 /\ k = Call("show", c, s)
        /\ k.op = "leave" => Len(q) = j /\ j = 3 /\ k = Call("leave", c, s)
        /\ k.op = "pane" => Len(q) = j /\ j = 2 /\ k = Call("pane", c, None)
        /\ k.op = "stream" => Len(q) = j /\ j = 1 /\ k = Call("stream", c, s)
        /\ k.op = "view" => Len(q) > j /\ j \in {2, 5} /\ k = Call("view", c, s)
        /\ k.op = "size" => Len(q) > j /\ j \in {0, 1} /\ k = Sized("size", c, None, pane[c])
        /\ k.op \notin OtherOps \cup {"detach"}
    <3> DEFINE z == pane[c]
    <3>1. q \in Seq(ProperCalls) /\ q # <<>> /\ Form(q, c, s, j, z)
      BY <1>0, <2>1
    <3> HIDE DEF q, z
    <3>2. /\ k.op = "stop" => Len(q) = j /\ j = 5 /\ k = Call("stop", c, None)
          /\ k.op = "show" => Len(q) = j /\ j = 4 /\ k = Call("show", c, s)
          /\ k.op = "leave" => Len(q) = j /\ j = 3 /\ k = Call("leave", c, s)
          /\ k.op = "pane" => Len(q) = j /\ j = 2 /\ k = Call("pane", c, None)
          /\ k.op = "stream" => Len(q) = j /\ j = 1 /\ k = Call("stream", c, s)
          /\ k.op = "view" => Len(q) > j /\ j \in {2, 5} /\ k = Call("view", c, s)
          /\ k.op = "size" => Len(q) > j /\ j \in {0, 1} /\ k = Sized("size", c, None, z)
          /\ k.op \notin OtherOps \cup {"detach"}
      BY ONLY <3>1, StageOf, Zenon
    <3> QED BY <3>2 DEF z
  <2> HIDE DEF k, q
  <2> QED BY <2>2, CallIs
<1>form. ASSUME NEW s \in Sessions \cup {None}, NEW j \in 0..5, Showing(c, s, j),
                NEW m \in 0..5, m < Len(q), m = j \/ (Len(q) = j /\ m = j - 1),
                NEW p \in Seq(ProperCalls), Then(t, p),
                \A i \in 1..Len(p) :
                    \/ Quiet(p[i], c)
                    \/ i = 1 /\ m \in {2, 5} /\ p[i] = Call("view", c, s)
                    \/ i = 1 /\ m \in {0, 1} /\ p[i] = Sized("size", c, None, pane[c])
         PROVE  Form(r, c, s, m, pane[c]) /\ (p # <<>> => ~Idle(t)' /\ Head(r) = p[1])
  <2>1. r = p \o Tail(q)
    BY <1>a, <1>form, ThenIs
  <2>2. Form(q, c, s, j, pane[c])
    BY <1>form DEF Showing
  <2>3. Form(r, c, s, m, pane[c])
    BY <1>0, <1>form, <2>1, <2>2, FormReplaced
  <2>4. p # <<>> => r # <<>> /\ Head(r) = p[1]
    BY <1>0, <2>1, FirstIs
  <2> QED BY <2>3, <2>4 DEF Idle, Queue
<1>drop. ASSUME NEW s \in Sessions \cup {None}, NEW j \in 0..5, Showing(c, s, j),
                NEW m \in 0..5, m < Len(q), m = j \/ (Len(q) = j /\ m = j - 1), Then(t, <<>>)
         PROVE  Form(r, c, s, m, pane[c])
  <2>1. \A i \in 1..Len(<<>>) :
            \/ Quiet(<<>>[i], c)
            \/ i = 1 /\ m \in {2, 5} /\ <<>>[i] = Call("view", c, s)
            \/ i = 1 /\ m \in {0, 1} /\ <<>>[i] = Sized("size", c, None, pane[c])
    BY <1>e
  <2> HIDE DEF q, r
  <2> QED BY <1>e, <1>drop, <1>form, <2>1
<1> HIDE DEF q, k, r
<1>q. q = Queue(c) /\ k = Head(todo[t]) /\ q = todo[t] /\ r = Queue(c)'
  BY DEF q, k, r, Queue
<1>1. CASE StopSub(t)
  <2>1. k.op = "stop" /\ Then(t, <<>>)
    BY <1>1, <1>q DEF StopSub, At
  <2>2. k.client = c
    BY <1>way, <1>stage, <1>quit, <2>1
  <2>3. cancel' = [cancel EXCEPT ![c] = None] /\ subs'[c] = subs[c] \ {cancel[c]}
        /\ (\A d \in Clients : d # c => subs'[d] = subs[d])
    <3>1. cancel[c] \in alive \cup {None}
      BY DEF TInv, Undisturbed
    <3>2. cancel' = [cancel EXCEPT ![c] = None]
      BY <1>1, <1>q, <2>2 DEF StopSub
    <3>3. subs' = [subs EXCEPT ![c] = @ \ {cancel[c]}]
      BY <1>1, <1>q, <2>2, <3>1 DEF StopSub
    <3> QED BY <3>2, <3>3 DEF TInv
  <2>4. Alone(c) /\ UNCHANGED <<status, viewing, csize, ui, pane>>
    BY <1>0, <1>1, <2>3 DEF StopSub, Alone, TInv
  <2>5. subs'[c] = {} /\ cancel'[c] = None
    BY <1>on, <2>3 DEF OnItsWay, TInv
  <2>6. CASE Quitting(c)
    <3>1. Len(q) = 2 /\ q[2] = Call("detach", c, None)
      BY <1>quit, <2>1, <2>6
    <3>2. r = <<>> \o Tail(q)
      BY <1>a, <1>q, <2>1, ThenIs
    <3>3. Len(r) = 1 /\ r[1] = Call("detach", c, None)
      <4>1. Len(r) = Len(q) - 1 /\ \A i \in 2..Len(q) : r[i - 1] = q[i]
        BY <1>0, <3>2, Dropped
      <4>2. 2 \in 2..Len(q) /\ 2 - 1 = 1
        BY <3>1
      <4> QED BY <3>1, <4>1, <4>2
    <3>4. EndsWith(r, Leaving(c), 1)
      <4>1. Len(Leaving(c)) = 2 /\ Leaving(c)[2] = Call("detach", c, None)
        BY DEF Leaving
      <4>2. \A i \in 0..(1 - 1) : i = 0 /\ Len(r) - i = 1 /\ Len(Leaving(c)) - i = 2
        BY <3>3, <4>1
      <4> QED BY <3>3, <4>1, <4>2 DEF EndsWith
    <3>5. Quitting(c)'
      BY <1>q, <2>5, <3>3, <3>4 DEF Quitting, Leaving
    <3> QED BY <1>on, <2>4, <2>5, <3>5 DEF OnItsWay
  <2>7. ASSUME NEW s \in Sessions \cup {None}, NEW j \in 0..5, Showing(c, s, j) PROVE OnItsWay(c)'
    <3>1. Len(q) = j /\ j = 5
      BY <1>stage, <2>1, <2>7
    <3>2. Form(r, c, s, 4, pane[c])
      BY <1>drop, <2>1, <2>7, <3>1
    <3>3. Showing(c, s, 4)'
      BY <1>q, <2>4, <2>5, <3>2 DEF Showing
    <3> QED BY <1>on, <2>4, <2>5, <3>3 DEF OnItsWay
  <2> QED BY <1>way, <2>4, <2>6, <2>7
<1>2. CASE Show(t)
  <2>1. k.op = "show" /\ Then(t, <<>>)
    BY <1>2, <1>q DEF Show, At
  <2>2. ~Quitting(c)
    BY <1>quit, <2>1
  <2>3. PICK s \in Sessions \cup {None}, j \in 0..5 : Showing(c, s, j)
    BY <1>way, <2>2
  <2>4. Len(q) = j /\ j = 4 /\ k.client = c /\ k.session = s
    BY <1>stage, <2>1, <2>3
  <2>5. s \in Sessions
    BY <1>0, <2>1, <2>4 DEF ProperCalls
  <2>6. subs' = [subs EXCEPT ![c] = @ \cup {s}] /\ cancel' = [cancel EXCEPT ![c] = s]
        /\ ui' = [ui EXCEPT ![c] = s]
    BY <1>2, <1>q, <2>4 DEF Show
  <2>7. subs[c] = {} /\ s # None
    BY <1>on, <2>3, <2>4, <2>5, ResizeAssumption DEF Showing, OnItsWay
  <2>8. Form(r, c, s, 3, pane[c])
    BY <1>drop, <2>1, <2>3, <2>4
  <2>9. Showing(c, s, 3)' /\ subs'[c] = {cancel'[c]} \ {None}
    BY <1>2, <1>q, <2>6, <2>7, <2>8 DEF Showing, Show, TInv
  <2>10. Alone(c)
    BY <1>0, <1>2, <2>6 DEF Alone, Show, TInv
  <2> QED BY <1>2, <1>on, <2>9, <2>10 DEF OnItsWay, Show
<1>3. CASE Stream(t)
  <2>1. k.op = "stream" /\ Then(t, <<>>) /\ UNCHANGED <<attachVars, ui, pane, cancel, subs>>
    BY <1>3, <1>q DEF Stream, At
  <2>2. ~Quitting(c)
    BY <1>quit, <2>1
  <2>3. PICK s \in Sessions \cup {None}, j \in 0..5 : Showing(c, s, j)
    BY <1>way, <2>2
  <2>4. Len(q) = j /\ j = 1
    BY <1>stage, <2>1, <2>3
  <2>5. Form(r, c, s, 0, pane[c])
    BY <1>drop, <2>1, <2>3, <2>4
  <2>6. ~At(t, "view") /\ ~At(t, "size")
    BY <1>q, <2>1 DEF At
  <2>7. Showing(c, s, 0)'
    BY <1>q, <2>1, <2>3, <2>4, <2>5, <2>6 DEF Showing
  <2> QED BY <1>0, <1>on, <2>1, <2>7 DEF OnItsWay, Alone
<1>4. CASE Detach(t)
  <2>1. k.op = "detach" /\ Then(t, <<>>)
    BY <1>4, <1>q DEF Detach, At
  <2>2. Quitting(c)
    BY <1>way, <1>stage, <2>1
  <2>3. Len(q) = 1 /\ k.client = c /\ cancel[c] = None
    BY <1>quit, <2>1, <2>2
  <2>4. status' = [status EXCEPT ![c] = "gone"] /\ viewing' = [viewing EXCEPT ![c] = None]
    BY <1>4, <1>q, <2>3 DEF Detach
  <2>5. r = <<>>
    <3>1. r = <<>> \o Tail(q)
      BY <1>a, <1>q, <2>1, ThenIs
    <3>2. Len(r) = 1 - 1
      BY <1>0, <2>3, <3>1, Dropped
    <3> QED BY <1>0, <3>2, EmptySeq
  <2>6. OnItsWay(c)'
    BY <1>4, <1>on, <1>q, <2>3, <2>4, <2>5 DEF OnItsWay, Detach, TInv
  <2> QED BY <1>0, <1>4, <2>4, <2>6 DEF Alone, Detach, TInv
<1>5. CASE Leave(t)
  <2>1. k.op = "leave" /\ UNCHANGED <<attachVars, uiVars>>
    BY <1>5, <1>q DEF Leave, At
  <2>2. ~Quitting(c)
    BY <1>quit, <2>1
  <2>3. PICK s \in Sessions \cup {None}, j \in 0..5 : Showing(c, s, j)
    BY <1>way, <2>2
  <2>4. Len(q) = j /\ j = 3 /\ k.client = c /\ k.session = s
    BY <1>stage, <2>1, <2>3
  <2> DEFINE rest == IF viewing[c] \in {None, s} THEN <<>> ELSE <<Negotiate(viewing[c])>>
             p == <<Call("view", c, s)>> \o rest
  <2>5. Then(t, p)
    BY <1>5, <1>q, <1>on, <2>4 DEF Leave
  <2>6. s \in Sessions
    BY <1>0, <2>1, <2>4 DEF ProperCalls
  <2>7. p \in Seq(ProperCalls) /\ p # <<>> /\ p[1] = Call("view", c, s)
        /\ \A i \in 1..Len(p) : i = 1 \/ Quiet(p[i], c)
    <3>1. Call("view", c, s) \in ProperCalls
      BY <2>6, CallsAreProper
    <3>2. CASE viewing[c] \in {None, s}
      <4>1. p = <<Call("view", c, s)>>
        BY <3>2
      <4> HIDE DEF p
      <4> QED BY <3>1, <4>1
    <3>3. CASE viewing[c] \notin {None, s}
      <4>0. rest = <<Negotiate(viewing[c])>>
        BY <3>3
      <4>1. p = <<Call("view", c, s), Negotiate(viewing[c])>>
        <5> HIDE DEF rest
        <5> QED BY <4>0, PairIs
      <4>2. Negotiate(viewing[c]) \in ProperCalls
        BY <3>3, HostCallsAreProper DEF TInv
      <4> HIDE DEF p
      <4> QED BY <1>neg, <3>1, <4>1, <4>2
    <3> QED BY <3>2, <3>3
  <2> HIDE DEF p
  <2>8. Form(r, c, s, 2, pane[c]) /\ ~Idle(t)' /\ Head(r) = p[1]
    BY <1>e, <1>form, <2>3, <2>4, <2>5, <2>7
  <2>9. At(t, "view")'
    BY <1>q, <2>7, <2>8, CallIs DEF At, Queue
  <2>10. Showing(c, s, 2)'
    BY <1>q, <2>1, <2>3, <2>4, <2>8, <2>9 DEF Showing
  <2> QED BY <1>on, <1>same, <2>1, <2>10 DEF OnItsWay
<1>6. CASE SetViewing(t)
  <2>1. k.op = "view" /\ Then(t, <<>>) /\ UNCHANGED <<status, csize, driver, uiVars>>
    BY <1>6, <1>q DEF SetViewing, At
  <2>2. ~Quitting(c)
    BY <1>quit, <2>1
  <2>3. PICK s \in Sessions \cup {None}, j \in 0..5 : Showing(c, s, j)
    BY <1>way, <2>2
  <2>4. Len(q) > j /\ j \in {2, 5} /\ k.client = c /\ k.session = s
    BY <1>stage, <2>1, <2>3
  <2>5. viewing' = [viewing EXCEPT ![c] = s]
    BY <1>6, <1>on, <1>q, <2>4 DEF SetViewing
  <2>6. Form(r, c, s, j, pane[c])
    BY <1>drop, <2>1, <2>3, <2>4
  <2>7. Showing(c, s, j)'
    BY <1>q, <2>1, <2>3, <2>4, <2>5, <2>6 DEF Showing, TInv
  <2> QED BY <1>0, <1>on, <2>1, <2>5, <2>7 DEF OnItsWay, Alone, TInv
<1>7. CASE PaneSize(t)
  <2>1. k.op = "pane" /\ UNCHANGED <<attachVars, uiVars>>
    BY <1>7, <1>q DEF PaneSize, At
  <2>2. ~Quitting(c)
    BY <1>quit, <2>1
  <2>3. PICK s \in Sessions \cup {None}, j \in 0..5 : Showing(c, s, j)
    BY <1>way, <2>2
  <2>4. Len(q) = j /\ j = 2 /\ k.client = c
    BY <1>stage, <2>1, <2>3
  <2> DEFINE p == <<Sized("size", c, None, pane[c]), Call("current", c, None)>>
  <2>5. Then(t, p)
    BY <1>7, <1>q, <2>4 DEF PaneSize
  <2>6. p \in Seq(ProperCalls) /\ p # <<>> /\ p[1] = Sized("size", c, None, pane[c])
        /\ \A i \in 1..Len(p) : i = 1 \/ Quiet(p[i], c)
    <3>1. Sized("size", c, None, pane[c]) \in ProperCalls
      BY SizeCallIsProper DEF TInv
    <3>2. Call("current", c, None) \in ProperCalls /\ Quiet(Call("current", c, None), c)
      BY DEF Call, ProperCalls, Calls, Quiet
    <3> QED BY <3>1, <3>2
  <2> HIDE DEF p
  <2>7. Form(r, c, s, 1, pane[c]) /\ ~Idle(t)' /\ Head(r) = p[1]
    BY <1>e, <1>form, <2>3, <2>4, <2>5, <2>6
  <2>8. At(t, "size")' /\ ~At(t, "view")
    BY <1>q, <2>1, <2>6, <2>7, CallIs DEF At, Queue
  <2>9. Showing(c, s, 1)'
    BY <1>q, <2>1, <2>3, <2>4, <2>7, <2>8 DEF Showing
  <2> QED BY <1>on, <1>same, <2>1, <2>9 DEF OnItsWay
<1>8. CASE SetSize(t)
  <2>1. k.op = "size" /\ Then(t, <<>>) /\ UNCHANGED <<status, viewing, driver, uiVars>>
    BY <1>8, <1>q DEF SetSize, At
  <2>2. ~Quitting(c)
    BY <1>quit, <2>1
  <2>3. PICK s \in Sessions \cup {None}, j \in 0..5 : Showing(c, s, j)
    BY <1>way, <2>2
  <2>4. Len(q) > j /\ j \in {0, 1} /\ k.client = c /\ k.size = pane[c]
    BY <1>stage, <2>1, <2>3
  <2>5. csize' = [csize EXCEPT ![c] = pane[c]]
    BY <1>8, <1>on, <1>q, <2>4 DEF SetSize
  <2>6. Form(r, c, s, j, pane[c])
    BY <1>drop, <2>1, <2>3, <2>4
  <2>7. ~At(t, "view")
    BY <1>q, <2>1 DEF At
  <2>8. Showing(c, s, j)'
    BY <1>q, <2>1, <2>3, <2>4, <2>5, <2>6, <2>7 DEF Showing, TInv
  <2> QED BY <1>0, <1>on, <2>1, <2>5, <2>8 DEF OnItsWay, Alone, TInv
<1>9. CASE Current(t) \/ Compute(t) \/ Record(t) \/ Push(t)
  <2>1. k.op \in {"negotiate", "record", "push", "current"} /\ UNCHANGED <<attachVars, uiVars>>
    BY <1>9, <1>q DEF Current, Compute, Record, Push, At
  <2>2. ASSUME NEW p \in Seq(ProperCalls), \A i \in 1..Len(p) : Quiet(p[i], c), Then(t, p)
        PROVE  OnItsWay(c)'
    BY <1>a, <1>on, <1>q, <2>1, <2>2, QuietKeeps
  <2>3. ASSUME Then(t, <<>>) PROVE OnItsWay(c)'
    <3>1. \A i \in 1..Len(<<>>) : Quiet(<<>>[i], c)
      BY <1>e
    <3> QED BY <1>e, <2>2, <2>3, <3>1
  <2>4. ASSUME Current(t), ~Then(t, <<>>) PROVE OnItsWay(c)'
    <3>1. ui[k.client] # None /\ Then(t, <<Negotiate(ui[k.client])>>)
      BY <1>q, <2>4 DEF Current
    <3>2. k.client \in Clients
      BY <1>0, <1>q, <2>4 DEF Current, At, ProperCalls
    <3>3. Negotiate(ui[k.client]) \in ProperCalls
      BY <3>1, <3>2, HostCallsAreProper DEF TInv
    <3>4. <<Negotiate(ui[k.client])>> \in Seq(ProperCalls)
          /\ \A i \in 1..Len(<<Negotiate(ui[k.client])>>) : Quiet(<<Negotiate(ui[k.client])>>[i], c)
      BY <1>neg, <3>3
    <3> QED BY <2>2, <3>1, <3>4
  <2>5. ASSUME Compute(t), ~Then(t, <<>>) PROVE OnItsWay(c)'
    <3> DEFINE z == NegotiatedSize(k.session)
               p == <<Sized("record", None, k.session, z), Sized("push", None, k.session, z)>>
    <3>1. Viewers(k.session) # {} /\ Then(t, p)
      BY <1>q, <2>5 DEF Compute
    <3>2. k.session \in Sessions
      BY <1>0, <1>q, <2>5 DEF Compute, At, ProperCalls
    <3>3. z \in Shapes
      BY <3>1, NegotiatedIsShape
    <3> HIDE DEF z
    <3>4. /\ Sized("record", None, k.session, z) \in ProperCalls
          /\ Sized("push", None, k.session, z) \in ProperCalls
          /\ Quiet(Sized("record", None, k.session, z), c)
          /\ Quiet(Sized("push", None, k.session, z), c)
      BY <3>2, <3>3, HostCallsAreProper DEF Quiet, Sized
    <3>5. p \in Seq(ProperCalls) /\ \A i \in 1..Len(p) : Quiet(p[i], c)
      BY <3>4
    <3> QED BY <2>2, <3>1, <3>5
  <2>6. Record(t) \/ Push(t) => Then(t, <<>>)
    BY DEF Record, Push
  <2> QED BY <1>9, <1>same, <2>1, <2>3, <2>4, <2>5, <2>6
<1>10. ~(\/ Follow(t) \/ Compare(t) \/ FirstRunning(t) \/ Blank(t)
         \/ Unmap(t) \/ CloseHost(t) \/ ListViewers(t) \/ Move(t))
  <2>1. k.op \notin OtherOps
    BY <1>way, <1>stage, <1>quit
  <2> QED BY <1>q, <2>1 DEF ListViewers, Move, Follow, Compare, FirstRunning, Blank,
           Unmap, CloseHost, At
<1> QED
  BY <1>1, <1>2, <1>3, <1>4, <1>5, <1>6, <1>7, <1>8, <1>9, <1>10 DEF Run

\* What setting the interface's own thread to work does to the lists.
LEMMA StartIs ==
    ASSUME TInv, NEW c \in Clients, NEW p, Start(Main(c), p)
    PROVE  Queue(c)' = p /\ \A t \in Threads : t # Main(c) => todo'[t] = todo[t]
BY ThreadsDiffer DEF TInv, Start, Queue

\* At rest, what the interface is counted for is what it shows.
LEMMA AtRest ==
    ASSUME TInv, NEW c \in Clients, OnItsWay(c), status[c] = "on", Idle(Main(c))
    PROVE  cancel[c] = ui[c] /\ viewing[c] = ui[c] /\ csize[c] = pane[c]
<1>1. Queue(c) = <<>> /\ Len(Queue(c)) = 0
  BY EmptySeq DEF Idle, Queue
<1>2. ~Quitting(c)
  BY <1>1 DEF Quitting
<1>3. PICK s \in Sessions \cup {None}, j \in 0..5 : Showing(c, s, j)
  BY <1>2 DEF OnItsWay
<1>4. j = 0
  BY <1>1, <1>3 DEF Showing, Form, EndsWith
<1>5. ~At(Main(c), "view") /\ ~At(Main(c), "size")
  BY DEF At
<1> QED BY <1>3, <1>4, <1>5 DEF Showing

\* The calls of switchView alone, and no calls at all, have the form.
LEMMA FormSwitch == ASSUME NEW c, NEW s, NEW z PROVE Form(SwitchView(c, s), c, s, 5, z)
<1> DEFINE L == SwitchView(c, s)
<1>1. Len(L) = 5
  BY SwitchIs
<1> HIDE DEF L
<1>2. EndsWith(L, L, 5)
  BY <1>1 DEF EndsWith
<1>3. 1..(Len(L) - 5) = {}
  BY <1>1
<1> QED BY <1>2, <1>3 DEF Form, L

LEMMA FormNothing == ASSUME NEW c, NEW s, NEW z PROVE Form(<<>>, c, s, 0, z)
<1> DEFINE L == SwitchView(c, s)
           e == <<>>
<1>1. Len(L) = 5 /\ Len(e) = 0
  BY SwitchIs
<1> HIDE DEF L, e
<1>2. EndsWith(e, L, 0)
  BY <1>1 DEF EndsWith
<1>3. 1..(Len(e) - 0) = {}
  BY <1>1
<1> QED BY <1>2, <1>3 DEF Form, L, e

\* Calls that may come before those of switchView.
LeadIn(p, c, s) ==
    \A i \in 1..Len(p) : Quiet(p[i], c) \/ (i = 1 /\ p[i] = Call("view", c, s))

LEMMA LeadInGrows ==
    ASSUME NEW S, NEW p \in Seq(S), p # <<>>, NEW b \in Seq(S), NEW c, NEW s,
           LeadIn(p, c, s), \A i \in 1..Len(b) : Quiet(b[i], c)
    PROVE  p \o b \in Seq(S) /\ p \o b # <<>> /\ LeadIn(p \o b, c, s)
<1>1. Len(p) \in Nat \ {0} /\ Len(b) \in Nat
  BY EmptySeq, LenProperties
<1>2. p \o b \in Seq(S) /\ Len(p \o b) = Len(p) + Len(b)
  BY ConcatProperties
<1>3. p \o b # <<>>
  BY <1>1, <1>2, EmptySeq
<1>4. ASSUME NEW i \in 1..Len(p \o b)
      PROVE  Quiet((p \o b)[i], c) \/ (i = 1 /\ (p \o b)[i] = Call("view", c, s))
  <2>1. (p \o b)[i] = IF i <= Len(p) THEN p[i] ELSE b[i - Len(p)]
    BY <1>1, <1>2, ConcatProperties
  <2>2. CASE i <= Len(p)
    <3>1. i \in 1..Len(p)
      BY <1>1, <2>2
    <3> QED BY <2>1, <2>2, <3>1 DEF LeadIn
  <2>3. CASE ~(i <= Len(p))
    <3>1. i - Len(p) \in 1..Len(b)
      BY <1>1, <1>2, <2>3
    <3> QED BY <2>1, <2>3, <3>1
  <2> QED BY <2>2, <2>3
<1> QED BY <1>2, <1>3, <1>4 DEF LeadIn

LEMMA FormFront ==
    ASSUME NEW S, NEW p \in Seq(S), NEW c, NEW s, NEW z, SwitchView(c, s) \in Seq(S), LeadIn(p, c, s)
    PROVE  Form(p \o SwitchView(c, s), c, s, 5, z)
<1> DEFINE L == SwitchView(c, s)
<1>1. Len(L) = 5 /\ L \in Seq(S)
  BY SwitchIs
<1> HIDE DEF L
<1>2. EndsWith(p \o L, L, 5)
  BY <1>1, EndsConcat
<1>3. Len(p) \in Nat /\ Len(p \o L) = Len(p) + 5
  <2>1. Len(p) \in Nat
    BY LenProperties
  <2>2. Len(p \o L) = Len(p) + Len(L)
    BY <1>1, ConcatProperties
  <2> QED BY <1>1, <2>1, <2>2, Zenon
<1>4. ASSUME NEW i \in 1..(Len(p \o L) - 5)
      PROVE  Quiet((p \o L)[i], c) \/ (i = 1 /\ (p \o L)[i] = Call("view", c, s))
  <2>1. i \in 1..Len(p) /\ i \in 1..(Len(p) + Len(L)) /\ i <= Len(p)
    BY <1>1, <1>3
  <2>2. (p \o L)[i] = p[i]
    BY <1>1, <2>1, ConcatProperties
  <2> QED BY <2>1, <2>2 DEF LeadIn
<1> QED BY <1>2, <1>4 DEF Form, L

\* What an interface may start to do.
LEMMA StartKeepsView ==
    ASSUME TInv, Undisturbed, OnlyItself, NEW c \in Clients,
           (\E z \in Sizes : Connect(c, z) \/ Layout(c, z)) \/ (\E s \in Sessions : Jump(c, s)) \/ Quit(c)
    PROVE  OnItsWay(c)' /\ Alone(c)
<1> USE DEF attachVars, subVars, uiVars, sessionVars
<1>0. OnItsWay(c)
  BY DEF OnlyItself
<1>1. ASSUME NEW z \in Sizes, Connect(c, z) PROVE OnItsWay(c)' /\ Alone(c)
  <2>1. status[c] = "new" /\ Queue(c) = <<>> /\ cancel[c] = None /\ viewing[c] = None /\ ui[c] = None
        /\ subs[c] = {}
    BY <1>0, <1>1 DEF OnItsWay, Connect
  <2>2. \A t \in Threads : t # Main(c) => todo'[t] = todo[t]
    <3>1. CASE UNCHANGED <<todo, apart>>
      BY <3>1
    <3>2. ASSUME NEW s \in alive, Start(Main(c), SwitchView(c, s))
          PROVE  \A t \in Threads : t # Main(c) => todo'[t] = todo[t]
      BY <3>2, StartIs
    <3> QED BY <1>1, <3>1, <3>2 DEF Connect
  <2>3. Alone(c)
    BY <1>1, <2>2 DEF Alone, Connect, TInv
  <2>4. /\ status'[c] = "on" /\ csize'[c] = z /\ pane'[c] = z /\ viewing'[c] = None
        /\ ui'[c] = None /\ cancel'[c] = None /\ subs'[c] = {}
    BY <1>1, <2>1 DEF Connect, TInv
  <2>5. CASE UNCHANGED <<todo, apart>>
    <3>1. Queue(c)' = <<>>
      BY <2>1, <2>5 DEF Queue
    <3>2. Form(Queue(c)', c, None, 0, pane'[c])
      BY <3>1, FormNothing
    <3>3. Showing(c, None, 0)'
      BY <2>4, <3>2 DEF Showing
    <3> QED BY <2>3, <2>4, <3>3 DEF OnItsWay
  <2>6. ASSUME NEW s \in Sessions, Start(Main(c), SwitchView(c, s)) PROVE OnItsWay(c)'
    <3>1. Queue(c)' = SwitchView(c, s)
      BY <2>6, StartIs
    <3>2. Form(Queue(c)', c, s, 5, pane'[c])
      BY <3>1, FormSwitch
    <3>3. Showing(c, s, 5)'
      BY <2>4, <3>2 DEF Showing
    <3> QED BY <2>4, <3>3 DEF OnItsWay
  <2> QED BY <1>1, <2>3, <2>5, <2>6 DEF Connect, TInv
<1>2. ASSUME NEW z \in Sizes, Layout(c, z) PROVE OnItsWay(c)' /\ Alone(c)
  <2> DEFINE p == <<Sized("size", c, None, z), Call("current", c, None)>>
  <2>1. status[c] = "on" /\ Idle(Main(c)) /\ pane' = [pane EXCEPT ![c] = z] /\ Start(Main(c), p)
    BY <1>2 DEF Layout
  <2>2. cancel[c] = ui[c] /\ viewing[c] = ui[c]
    BY <1>0, <2>1, AtRest
  <2>3. p # <<>> /\ Len(p) = 2 /\ Head(p) = Sized("size", c, None, z) /\ p[1] = Sized("size", c, None, z)
        /\ p[2] = Call("current", c, None)
    OBVIOUS
  <2> HIDE DEF p
  <2>4. Queue(c)' = p /\ \A t \in Threads : t # Main(c) => todo'[t] = todo[t]
    BY <2>1, StartIs
  <2>5. Form(p, c, None, 0, z)
    <3> DEFINE L == SwitchView(c, None)
    <3>1. Len(L) = 5
      BY SwitchIs
    <3> HIDE DEF L
    <3>2. EndsWith(p, L, 0)
      BY <2>3, <3>1 DEF EndsWith
    <3>3. \A i \in 1..(Len(p) - 0) : i = 1 \/ (i = 2 /\ Quiet(p[i], c))
      BY <2>3 DEF Quiet
    <3> QED BY <2>3, <3>2, <3>3 DEF Form, L
  <2>6. At(Main(c), "size")'
    BY <2>3, <2>4, CallIs DEF At, Idle, Queue
  <2>7. pane'[c] = z
    BY <2>1 DEF TInv
  <2>8. Showing(c, None, 0)'
    BY <1>2, <2>2, <2>4, <2>5, <2>6, <2>7 DEF Showing, Layout
  <2>9. OnItsWay(c)'
    BY <1>0, <1>2, <2>1, <2>8 DEF OnItsWay, Layout
  <2> QED BY <1>2, <2>4, <2>9 DEF Alone, Layout, TInv
<1>3. ASSUME NEW s \in Sessions, Jump(c, s) PROVE OnItsWay(c)' /\ Alone(c)
  <2> DEFINE v == <<Call("view", c, s)>>
             old == IF viewing[c] \in {None, s} THEN <<>> ELSE <<Negotiate(viewing[c])>>
             n == <<Negotiate(s)>>
             p == v \o old \o n
  <2>1. status[c] = "on" /\ Idle(Main(c)) /\ Start(Main(c), p \o SwitchView(c, s))
    BY <1>3 DEF Jump
  <2>2. cancel[c] = ui[c]
    BY <1>0, <2>1, AtRest
  <2>3. \A x : Quiet(Negotiate(x), c)
    BY DEF Quiet, Negotiate, Call
  <2>4. v \in Seq(ProperCalls) /\ v # <<>> /\ LeadIn(v, c, s)
    BY CallsAreProper DEF LeadIn
  <2>5. n \in Seq(ProperCalls) /\ \A i \in 1..Len(n) : Quiet(n[i], c)
    BY <2>3, HostCallsAreProper
  <2>6. old \in Seq(ProperCalls) /\ \A i \in 1..Len(old) : Quiet(old[i], c)
    <3>1. CASE viewing[c] \in {None, s}
      <4>1. old = <<>>
        BY <3>1
      <4>2. <<>> \in Seq(ProperCalls) /\ \A i \in 1..Len(<<>>) : FALSE
        BY EmptySeq
      <4> HIDE DEF old
      <4> QED BY <4>1, <4>2
    <3>2. CASE viewing[c] \notin {None, s}
      <4>1. old = <<Negotiate(viewing[c])>>
        BY <3>2
      <4>2. Negotiate(viewing[c]) \in ProperCalls
        BY <3>2, HostCallsAreProper DEF TInv
      <4> HIDE DEF old
      <4> QED BY <2>3, <4>1, <4>2
    <3> QED BY <3>1, <3>2
  <2> HIDE DEF v, old, n
  <2>7. v \o old \in Seq(ProperCalls) /\ v \o old # <<>> /\ LeadIn(v \o old, c, s)
    BY <2>4, <2>6, LeadInGrows
  <2>8. p \in Seq(ProperCalls) /\ LeadIn(p, c, s)
    BY <2>5, <2>7, LeadInGrows
  <2> HIDE DEF p
  <2>9. Queue(c)' = p \o SwitchView(c, s) /\ \A t \in Threads : t # Main(c) => todo'[t] = todo[t]
    BY <2>1, StartIs
  <2>10. Form(Queue(c)', c, s, 5, pane[c])
    BY <2>8, <2>9, SwitchIsProper, FormFront
  <2>11. Showing(c, s, 5)'
    BY <1>3, <2>2, <2>10 DEF Showing, Jump
  <2>12. OnItsWay(c)'
    BY <1>0, <1>3, <2>1, <2>11 DEF OnItsWay, Jump
  <2> QED BY <1>3, <2>9, <2>12 DEF Alone, Jump
<1>4. ASSUME Quit(c) PROVE OnItsWay(c)' /\ Alone(c)
  <2> DEFINE p == Leaving(c)
  <2>1. status[c] = "on" /\ Start(Main(c), p)
    BY <1>4 DEF Quit, Leaving
  <2>2. Len(p) = 2
    BY DEF Leaving
  <2> HIDE DEF p
  <2>3. Queue(c)' = p /\ \A t \in Threads : t # Main(c) => todo'[t] = todo[t]
    BY <2>1, StartIs
  <2>4. EndsWith(p, p, 2)
    BY <2>2 DEF EndsWith
  <2>5. Quitting(c)'
    BY <2>2, <2>3, <2>4 DEF Quitting, p, Leaving
  <2>6. OnItsWay(c)'
    BY <1>0, <1>4, <2>1, <2>5 DEF OnItsWay, Quit
  <2> QED BY <1>4, <2>3, <2>6 DEF Alone, Quit
<1> QED BY <1>1, <1>2, <1>3, <1>4

LEMMA ViewInit == Init => ViewInv
<1> SUFFICES ASSUME Init PROVE OnlyItself
  BY DEF ViewInv
<1>1. ASSUME NEW c \in Clients PROVE OnItsWay(c) /\ \A s \in Sessions : todo[Pump(c, s)] = <<>>
  BY <1>1, ThreadsDiffer DEF Init, OnItsWay, Queue
<1> QED BY <1>1, ThreadsDiffer DEF Init, OnlyItself

\* Which steps there are while no host has dropped.
LEMMA StepsAre ==
    ASSUME TInv, ViewInv, [Next]_vars, Undisturbed'
    PROVE  /\ Undisturbed /\ OnlyItself
           /\ \/ \E c \in Clients : Run(Main(c))
              \/ \E c \in Clients : \/ \E z \in Sizes : Connect(c, z) \/ Layout(c, z)
                                    \/ \E s \in Sessions : Jump(c, s)
                                    \/ Quit(c)
              \/ \E c \in Clients, s \in Sessions : SetDriver(s, c)
              \/ UNCHANGED vars
<1> USE DEF attachVars, subVars, uiVars, sessionVars
<1>1. ASSUME NEW t \in Threads, Run(t) PROVE UNCHANGED alive /\ ~Idle(t)
  BY <1>1 DEF Run, StopSub, Show, Stream, Detach, Leave, SetViewing, PaneSize, SetSize, Current,
              Compute, Record, Push, ListViewers, Move, Follow, Compare, FirstRunning, Blank,
           Unmap, CloseHost, At
<1>2. ASSUME NEW s \in Sessions, HostDown(s) \/ ClosedEnds(s) PROVE FALSE
  BY <1>2 DEF HostDown, ClosedEnds, Undisturbed, TInv
<1>3. ASSUME NEW c \in Clients, NEW s \in Sessions, ViewStopped(c, s)
      PROVE  UNCHANGED alive /\ s \in Sessions \ alive
  BY <1>3 DEF ViewStopped
<1>4. ASSUME NEW c \in Clients, NEW s \in Sessions, Jump(c, s) \/ SetDriver(s, c)
      PROVE  UNCHANGED alive
  BY <1>4 DEF Jump, SetDriver
<1>5. ASSUME NEW c \in Clients, NEW z \in Sizes, Connect(c, z) \/ Layout(c, z) PROVE UNCHANGED alive
  BY <1>5 DEF Connect, Layout
<1>6. ASSUME NEW c \in Clients, Quit(c) PROVE UNCHANGED alive
  BY <1>6 DEF Quit
<1>7. UNCHANGED alive
  BY <1>1, <1>2, <1>3, <1>4, <1>5, <1>6 DEF Next, vars
<1>8. Undisturbed /\ OnlyItself
  BY <1>7 DEF Undisturbed, ViewInv
<1>9. ASSUME NEW t \in Threads, Run(t) PROVE \E c \in Clients : Run(Main(c))
  BY <1>1, <1>8, <1>9 DEF Threads, OnlyItself, Idle
<1>10. ~\E c \in Clients, s \in Sessions : ViewStopped(c, s)
  BY <1>3, <1>8 DEF Undisturbed
<1> QED BY <1>2, <1>8, <1>9, <1>10 DEF Next

LEMMA ViewStep ==
    ASSUME IsFiniteSet(Clients), TInv, TInv', ViewInv, [Next]_vars
    PROVE  ViewInv'
<1> SUFFICES ASSUME Undisturbed' PROVE OnlyItself'
  BY DEF ViewInv
<1>1. Undisturbed /\ OnlyItself
  BY StepsAre
<1>2. ASSUME NEW c \in Clients, Run(Main(c)) PROVE OnlyItself'
  BY <1>1, <1>2, RunKeepsView, AloneKeeps
<1>3. ASSUME NEW c \in Clients,
             (\E z \in Sizes : Connect(c, z) \/ Layout(c, z)) \/ (\E s \in Sessions : Jump(c, s)) \/ Quit(c)
      PROVE  OnlyItself'
  BY <1>1, <1>3, StartKeepsView, AloneKeeps
<1>4. ASSUME UNCHANGED <<status, viewing, csize, uiVars, todo>> PROVE OnlyItself'
  <2> USE DEF uiVars, subVars
  <2>1. ASSUME NEW c \in Clients PROVE (Queue(c) = Queue(c)') /\ (Quitting(c) => Quitting(c)')
    BY <1>4 DEF Queue, Quitting
  <2>2. ASSUME NEW c \in Clients, NEW s, NEW j, Showing(c, s, j) PROVE Showing(c, s, j)'
    BY <1>4, <2>2 DEF Showing, Queue, At, Idle
  <2>3. ASSUME NEW c \in Clients PROVE OnItsWay(c)'
    BY <1>1, <1>4, <2>1, <2>2 DEF OnlyItself, OnItsWay
  <2> QED BY <1>1, <1>4, <2>3 DEF OnlyItself
<1>5. (\E c \in Clients, s \in Sessions : SetDriver(s, c)) => UNCHANGED <<status, viewing, csize, uiVars, todo>>
  BY DEF SetDriver
<1>6. UNCHANGED vars => UNCHANGED <<status, viewing, csize, uiVars, todo>>
  BY DEF vars, uiVars, subVars
<1> QED BY <1>2, <1>3, <1>4, <1>5, <1>6, StepsAre

\* While only interfaces move views, whatever they do at the same time, each is
\* counted for the session on its screen, with the size of its pane, and streams
\* that session and no other; one that has left streams nothing.
THEOREM ViewsAgree ==
    ASSUME IsFiniteSet(Clients)
    PROVE  Spec => []ViewAgrees
<1> DEFINE Inv == TInv /\ ViewInv
<1>1. Init => Inv
  BY TypesInit, ViewInit
<1>2. Inv /\ [Next]_vars => Inv'
  BY TypesStep, ViewStep
<1>3. Inv => ViewAgrees
  <2> SUFFICES ASSUME Inv, AllIdle, Undisturbed, NEW c \in Clients
               PROVE  /\ status[c] = "gone" => subs[c] = {}
                      /\ status[c] = "on" /\ ui[c] # None =>
                            viewing[c] = ui[c] /\ csize[c] = pane[c] /\ subs[c] = {ui[c]}
    BY DEF ViewAgrees, LeftStreamsNothing
  <2>1. OnItsWay(c) /\ Idle(Main(c))
    BY ThreadsDiffer DEF ViewInv, OnlyItself, AllIdle
  <2>2. status[c] = "gone" => subs[c] = {}
    BY <2>1 DEF OnItsWay
  <2>3. status[c] = "on" => cancel[c] = ui[c] /\ viewing[c] = ui[c] /\ csize[c] = pane[c]
    BY <2>1, AtRest
  <2> QED BY <2>1, <2>2, <2>3 DEF OnItsWay
<1> QED BY <1>1, <1>2, <1>3, PTL DEF Spec

-----------------------------------------------------------------------------
(* What keeps the sizes right, while only one thread is at work at a time *)

\* rec.Size and the remote window are what the viewers negotiate.
Settled(s) == pty[s] = NegotiatedSize(s) /\ rec[s] = NegotiatedSize(s)

\* The calls of a list.
Ahead(q) == {q[i] : i \in 1..Len(q)}

\* Among the calls A of c, one will have s negotiated, when u is on its screen.
Debt(A, c, s, u) ==
    \/ Negotiate(s) \in A
    \/ u = s /\ Call("current", c, None) \in A
    \/ Call("pane", c, None) \in A /\ Call("stream", c, s) \in A

\* Some call the interface has still to make settles the session.
Owed(c, s) ==
    \/ Debt(Ahead(Queue(c)), c, s, ui[c])
    \/ At(Main(c), "record") /\ Head(Queue(c)).session = s
    \/ At(Main(c), "push") /\ Head(Queue(c)).session = s /\ rec[s] = NegotiatedSize(s)

NoResize(q) == \A k \in Ahead(q) : k.op \notin {"record", "push"}

\* A size that was negotiated is applied by the next calls, or by none.
Resizing(q) ==
    \/ NoResize(q)
    \/ \E s \in Sessions :
        /\ Viewers(s) # {}
        /\ q # <<>> /\ Head(q) = Sized("push", None, s, NegotiatedSize(s)) /\ NoResize(Tail(q))
    \/ \E s \in Sessions :
        /\ Viewers(s) # {}
        /\ q # <<>> /\ Head(q) = Sized("record", None, s, NegotiatedSize(s))
        /\ Tail(q) # <<>> /\ Head(Tail(q)) = Sized("push", None, s, NegotiatedSize(s))
        /\ NoResize(Tail(Tail(q)))

\* Who changes what a session negotiates has it renegotiated.
Renegotiates(c) ==
    /\ At(Main(c), "view") =>
        \/ viewing[c] \in {None, Head(Queue(c)).session}
        \/ Negotiate(viewing[c]) \in Ahead(Queue(c))
    /\ At(Main(c), "size") => Call("current", c, None) \in Ahead(Queue(c))

\* Each session with a viewer fits, or the interface at work will see to it.
PaysItsDebts(c) ==
    /\ Resizing(Queue(c)) /\ Renegotiates(c)
    /\ \A s \in Sessions : Viewers(s) # {} => Settled(s) \/ Owed(c, s)

AllFit ==
    /\ \A t, u \in Threads : Idle(t) \/ Idle(u) \/ t = u
    /\ \A c \in Clients : Idle(Main(c)) \/ PaysItsDebts(c)
    /\ AllIdle => \A s \in Sessions : Viewers(s) # {} => Settled(s)

FitInv == apart /\ ~unsettled /\ Undisturbed => AllFit

LEMMA AheadNone == Ahead(<<>>) = {}
<1>1. 1..Len(<<>>) = {}
  BY EmptySeq
<1> QED BY <1>1 DEF Ahead

LEMMA AheadOne == ASSUME NEW a PROVE Ahead(<<a>>) = {a}
<1> DEFINE q == <<a>>
<1>1. Len(q) = 1 /\ q[1] = a
  OBVIOUS
<1> HIDE DEF q
<1>2. 1..Len(q) = {1}
  BY <1>1
<1> QED BY <1>1, <1>2 DEF Ahead, q

LEMMA AheadTwo == ASSUME NEW a, NEW b PROVE Ahead(<<a, b>>) = {a, b}
<1> DEFINE q == <<a, b>>
<1>1. Len(q) = 2 /\ q[1] = a /\ q[2] = b
  OBVIOUS
<1> HIDE DEF q
<1>2. 1..Len(q) = {1, 2}
  BY <1>1
<1> QED BY <1>1, <1>2 DEF Ahead, q

\* The first call and the others.
LEMMA AheadSplit ==
    ASSUME NEW S, NEW q \in Seq(S), q # <<>>
    PROVE  Ahead(q) = {Head(q)} \cup Ahead(Tail(q))
<1>1. Len(q) \in Nat \ {0} /\ Head(q) = q[1] /\ Len(Tail(q)) = Len(q) - 1
      /\ \A i \in 1..Len(Tail(q)) : Tail(q)[i] = q[i + 1]
  BY EmptySeq, HeadTailProperties, LenProperties
<1>2. ASSUME NEW i \in 1..Len(q) PROVE q[i] \in {Head(q)} \cup Ahead(Tail(q))
  <2>1. CASE i = 1
    BY <1>1, <2>1
  <2>2. CASE i # 1
    <3>1. i - 1 \in 1..Len(Tail(q)) /\ (i - 1) + 1 = i
      BY <1>1, <2>2
    <3>2. Tail(q)[i - 1] = q[i]
      BY <1>1, <3>1
    <3> QED BY <3>1, <3>2 DEF Ahead
  <2> QED BY <2>1, <2>2
<1>3. ASSUME NEW i \in 1..Len(Tail(q)) PROVE Tail(q)[i] \in Ahead(q)
  <2>1. i + 1 \in 1..Len(q)
    BY <1>1
  <2> QED BY <1>1, <2>1 DEF Ahead
<1>4. Head(q) \in Ahead(q)
  <2>1. 1 \in 1..Len(q)
    BY <1>1
  <2> QED BY <1>1, <2>1 DEF Ahead
<1> QED BY <1>2, <1>3, <1>4 DEF Ahead

LEMMA AheadJoin ==
    ASSUME NEW S, NEW p \in Seq(S), NEW b \in Seq(S)
    PROVE  Ahead(p \o b) = Ahead(p) \cup Ahead(b)
<1>1. Len(p) \in Nat /\ Len(b) \in Nat /\ Len(p \o b) = Len(p) + Len(b)
  BY LenProperties, ConcatProperties
<1>2. \A i \in 1..(Len(p) + Len(b)) : (p \o b)[i] = IF i <= Len(p) THEN p[i] ELSE b[i - Len(p)]
  BY ConcatProperties
<1>3. ASSUME NEW i \in 1..(Len(p) + Len(b)) PROVE (p \o b)[i] \in Ahead(p) \cup Ahead(b)
  <2>1. CASE i <= Len(p)
    <3>1. i \in 1..Len(p)
      BY <1>1, <2>1
    <3> QED BY <1>2, <2>1, <3>1 DEF Ahead
  <2>2. CASE ~(i <= Len(p))
    <3>1. i - Len(p) \in 1..Len(b)
      BY <1>1, <2>2
    <3> QED BY <1>2, <2>2, <3>1 DEF Ahead
  <2> QED BY <2>1, <2>2
<1>4. ASSUME NEW i \in 1..Len(p) PROVE p[i] \in Ahead(p \o b)
  <2>1. i \in 1..(Len(p) + Len(b)) /\ i <= Len(p)
    BY <1>1
  <2>2. (p \o b)[i] = p[i]
    BY <1>2, <2>1
  <2> QED BY <1>1, <2>1, <2>2 DEF Ahead
<1>5. ASSUME NEW i \in 1..Len(b) PROVE b[i] \in Ahead(p \o b)
  <2>1. Len(p) + i \in 1..(Len(p) + Len(b)) /\ ~(Len(p) + i <= Len(p)) /\ (Len(p) + i) - Len(p) = i
    BY <1>1
  <2>2. (p \o b)[Len(p) + i] = b[i]
    BY <1>2, <2>1
  <2> QED BY <1>1, <2>1, <2>2 DEF Ahead
<1> QED BY <1>1, <1>3, <1>4, <1>5 DEF Ahead

\* Two calls put before a list.
LEMMA TwoBefore ==
    ASSUME NEW S, NEW p \in Seq(S), NEW l \in Seq(S), Len(p) = 2
    PROVE  Tail(p \o l) # <<>> /\ Head(Tail(p \o l)) = p[2] /\ Tail(Tail(p \o l)) = l
<1> DEFINE r == p \o l
<1>1. Len(p) = 2
  OBVIOUS
<1>2. r \in Seq(S) /\ Len(r) = 2 + Len(l) /\ Len(l) \in Nat
      /\ \A i \in 1..(Len(p) + Len(l)) : r[i] = IF i <= Len(p) THEN p[i] ELSE l[i - Len(p)]
  <2>1. r \in Seq(S) /\ Len(r) = Len(p) + Len(l)
        /\ \A i \in 1..(Len(p) + Len(l)) : r[i] = IF i <= Len(p) THEN p[i] ELSE l[i - Len(p)]
    BY <1>1, ConcatProperties
  <2>2. Len(l) \in Nat
    BY LenProperties
  <2> QED BY <1>1, <2>1, <2>2
<1> HIDE DEF r
<1>3. 1 \in 1..(Len(p) + Len(l)) /\ 2 \in 1..(Len(p) + Len(l)) /\ 1 <= Len(p) /\ 2 <= Len(p)
  BY <1>1, <1>2
<1>4. r[1] = p[1] /\ r[2] = p[2]
  BY <1>1, <1>2, <1>3
<1>5. r # <<>> /\ Tail(r) \in Seq(S) /\ Len(Tail(r)) = 1 + Len(l)
      /\ \A i \in 1..Len(Tail(r)) : Tail(r)[i] = r[i + 1]
  BY <1>2, <1>4, EmptySeq, HeadTailProperties
<1>6. 1 \in 1..Len(Tail(r)) /\ 1 + 1 = 2
  BY <1>2, <1>5
<1>7. Tail(r) # <<>> /\ Head(Tail(r)) = p[2]
  <2> DEFINE u == Tail(r)
  <2>1. u \in Seq(S) /\ Len(u) # 0 /\ u[1] = r[1 + 1]
    BY <1>2, <1>5, <1>6
  <2> HIDE DEF u
  <2>2. u # <<>> /\ Head(u) = u[1]
    <3>1. u # <<>>
      BY ONLY <2>1, EmptySeq
    <3>2. Head(u) = u[1]
      BY ONLY <2>1, <3>1, HeadTailProperties
    <3> QED BY <3>1, <3>2
  <2> QED BY <1>4, <1>6, <2>1, <2>2 DEF u
<1>8. Tail(Tail(r)) \in Seq(S) /\ Len(Tail(Tail(r))) = Len(l)
      /\ \A i \in 1..Len(l) : Tail(Tail(r))[i] = Tail(r)[i + 1]
  BY <1>2, <1>5, <1>7, HeadTailProperties
<1>9. ASSUME NEW i \in 1..Len(l) PROVE Tail(Tail(r))[i] = l[i]
  <2>1. i + 1 \in 1..Len(Tail(r)) /\ (i + 1) + 1 = i + 2
    BY <1>2, <1>5
  <2>2. i + 2 \in 1..(Len(p) + Len(l)) /\ ~(i + 2 <= Len(p)) /\ (i + 2) - Len(p) = i
    BY <1>1, <1>2
  <2>3. Tail(Tail(r))[i] = r[i + 2]
    BY <1>5, <1>8, <2>1
  <2>4. r[i + 2] = l[i]
    BY <1>2, <2>2
  <2> QED BY <2>3, <2>4
<1>10. Tail(Tail(r)) = l
  BY <1>8, <1>9, SeqEqual
<1> QED BY <1>7, <1>10 DEF r

\* A call of a list in the form is one of those before switchView or its own.
LEMMA FormAt ==
    ASSUME NEW S, NEW q \in Seq(S), NEW c, NEW s, NEW z, NEW j \in 0..5, Form(q, c, s, j, z),
           NEW i \in 1..Len(q)
    PROVE  \/ i <= Len(q) - j /\ Quiet(q[i], c)
           \/ i = 1 /\ i <= Len(q) - j /\ q[i].op \in {"view", "size"}
           \/ i > Len(q) - j /\ 5 - (Len(q) - i) \in (6 - j)..5
              /\ q[i] = SwitchView(c, s)[5 - (Len(q) - i)]
<1>1. Len(q) \in Nat
  BY LenProperties
<1>2. CASE i <= Len(q) - j
  <2>1. i \in 1..(Len(q) - j)
    BY <1>1, <1>2
  <2> QED BY <1>2, <2>1, CallIs DEF Form
<1>3. CASE ~(i <= Len(q) - j)
  <2> DEFINE L == SwitchView(c, s)
             k == Len(q) - i
  <2>1. k \in 0..(j - 1) /\ Len(q) - k = i /\ i > Len(q) - j /\ 5 - k \in (6 - j)..5
    BY <1>1, <1>3
  <2>2. Len(L) = 5
    BY SwitchIs
  <2>3. EndsWith(q, L, j)
    BY DEF Form
  <2> HIDE DEF L, k
  <2>4. q[Len(q) - k] = L[Len(L) - k]
    BY <2>1, <2>3 DEF EndsWith
  <2>5. q[i] = L[5 - k]
    BY <2>1, <2>2, <2>4
  <2> QED BY <2>1, <2>5 DEF L, k
<1> QED BY <1>2, <1>3

\* What a list in the form holds.
LEMMA FormTells ==
    ASSUME NEW S, NEW q \in Seq(S), q # <<>>, NEW c, NEW s, NEW z, NEW j \in 0..5, Form(q, c, s, j, z)
    PROVE  /\ \A x \in Ahead(Tail(q)) : x.op \notin {"view", "size"}
           /\ Len(q) > j /\ j >= 2 =>
                Call("pane", c, None) \in Ahead(Tail(q)) /\ Call("stream", c, s) \in Ahead(Tail(q))
<1> DEFINE L == SwitchView(c, s)
<1>1. Len(q) \in Nat \ {0} /\ Len(Tail(q)) = Len(q) - 1
      /\ \A i \in 1..Len(Tail(q)) : Tail(q)[i] = q[i + 1]
  BY EmptySeq, HeadTailProperties, LenProperties
<1>2. /\ L[1].op = "stop" /\ L[2].op = "show" /\ L[3].op = "leave" /\ L[4] = Call("pane", c, None)
      /\ L[4].op = "pane" /\ L[5] = Call("stream", c, s) /\ L[5].op = "stream"
  BY SwitchIs, CallIs
<1> HIDE DEF L
<1>3. ASSUME NEW h \in 1..Len(Tail(q)) PROVE Tail(q)[h].op \notin {"view", "size"}
  <2> DEFINE i == h + 1
  <2>1. i \in 1..Len(q) /\ i # 1 /\ Tail(q)[h] = q[i]
    BY <1>1
  <2> HIDE DEF i
  <2>2. \/ Quiet(q[i], c)
        \/ \E e \in (6 - j)..5 : q[i] = L[e]
    BY <2>1, FormAt DEF L
  <2>3. \A e \in (6 - j)..5 : L[e].op \notin {"view", "size"}
    <3>1. \A e \in (6 - j)..5 : e = 1 \/ e = 2 \/ e = 3 \/ e = 4 \/ e = 5
      OBVIOUS
    <3> QED BY <1>2, <3>1
  <2>4. Quiet(q[i], c) => q[i].op \notin {"view", "size"}
    BY CallIs DEF Quiet
  <2> QED BY <2>1, <2>2, <2>3, <2>4
<1>4. ASSUME Len(q) > j, j >= 2
      PROVE  Call("pane", c, None) \in Ahead(Tail(q)) /\ Call("stream", c, s) \in Ahead(Tail(q))
  <2> DEFINE n == Len(q)
  <2>1. n \in 1..n /\ n - 1 \in 1..n /\ ~(n <= n - j) /\ ~(n - 1 <= n - j) /\ 5 - (n - n) = 5
        /\ 5 - (n - (n - 1)) = 4
    BY <1>1, <1>4
  <2>2. q[n] = L[5 - (n - n)] /\ q[n - 1] = L[5 - (n - (n - 1))]
    BY <2>1, FormAt DEF L
  <2>3. n - 1 \in 1..Len(Tail(q)) /\ n - 2 \in 1..Len(Tail(q)) /\ (n - 1) + 1 = n /\ (n - 2) + 1 = n - 1
    BY <1>1, <1>4
  <2>4. Tail(q)[n - 1] = q[n] /\ Tail(q)[n - 2] = q[n - 1]
    BY <1>1, <2>3
  <2>5. Tail(q)[n - 1] = L[5] /\ Tail(q)[n - 2] = L[4]
    BY <2>1, <2>2, <2>4
  <2> QED BY <1>2, <2>3, <2>5 DEF Ahead
<1> QED BY <1>3, <1>4 DEF Ahead, L

\* What the first call of an interface's own thread says of the others.
LEMMA HeadTells ==
    ASSUME TInv, NEW c \in Clients, OnItsWay(c), ~Idle(Main(c)), NEW q, q = Queue(c), NEW k, k = Head(q)
    PROVE  /\ status[c] = "on"
           /\ k.op \in {"stop", "show", "leave", "view", "pane", "size", "current", "detach"} => k.client = c
           /\ k.op = "show" => Call("current", c, None) \notin Ahead(q)
           /\ k.op = "stream" => \A x \in Ahead(q) : x = k
           /\ k.op = "view" => Call("pane", c, None) \in Ahead(Tail(q))
                               /\ Call("stream", c, k.session) \in Ahead(Tail(q))
           /\ k.op = "pane" => \A x : Call("stream", c, x) \in Ahead(q) => x = ui[c]
           /\ k.op = "size" => viewing[c] = ui[c]
           /\ k.op \notin OtherOps
           /\ \A x \in Ahead(Tail(q)) : x.op \notin {"view", "size"}
<1>1. q \in Seq(ProperCalls) /\ q # <<>> /\ k \in ProperCalls
  BY HeadIsProper, ThreadsDiffer DEF Queue, Idle
<1>2. status[c] = "on"
  BY <1>1 DEF OnItsWay
<1>3. CASE Quitting(c)
  <2>1. \/ Len(q) = 2 /\ k = Call("stop", c, None) /\ q[2] = Call("detach", c, None)
        \/ Len(q) = 1 /\ k = Call("detach", c, None)
    BY <1>3, QuittingHead
  <2>2. Len(Tail(q)) = Len(q) - 1 /\ \A i \in 1..Len(Tail(q)) : Tail(q)[i] = q[i + 1]
    BY <1>1, HeadTailProperties
  <2>3. ASSUME NEW i \in 1..Len(Tail(q)) PROVE Tail(q)[i].op \notin {"view", "size"}
    <3>1. Len(q) = 2 /\ i = 1
      BY <2>1, <2>2
    <3>2. Tail(q)[i] = Call("detach", c, None)
      BY <2>1, <2>2, <3>1
    <3> QED BY <3>2, CallIs
  <2>4. k.op \in {"stop", "detach"} /\ k.client = c
    BY <2>1, CallIs
  <2>5. \A x \in Ahead(Tail(q)) : x.op \notin {"view", "size"}
    BY <2>3 DEF Ahead
  <2> QED BY <1>2, <2>4, <2>5
<1>4. ASSUME NEW s \in Sessions \cup {None}, NEW j \in 0..5, Showing(c, s, j)
      PROVE  /\ k.op \in {"stop", "show", "leave", "view", "pane", "size", "current", "detach"} => k.client = c
             /\ k.op = "show" => Call("current", c, None) \notin Ahead(q)
             /\ k.op = "stream" => \A x \in Ahead(q) : x = k
             /\ k.op = "view" => Call("pane", c, None) \in Ahead(Tail(q))
                                 /\ Call("stream", c, k.session) \in Ahead(Tail(q))
             /\ k.op = "pane" => \A x : Call("stream", c, x) \in Ahead(q) => x = ui[c]
             /\ k.op = "size" => viewing[c] = ui[c]
             /\ k.op \notin OtherOps
             /\ \A x \in Ahead(Tail(q)) : x.op \notin {"view", "size"}
  <2> DEFINE z == pane[c]
             L == SwitchView(c, s)
  <2>1. Form(q, c, s, j, z)
    BY <1>4 DEF Showing
  <2> HIDE DEF z
  <2>2. /\ k.op = "stop" => Len(q) = j /\ j = 5 /\ k = Call("stop", c, None)
        /\ k.op = "show" => Len(q) = j /\ j = 4 /\ k = Call("show", c, s)
        /\ k.op = "leave" => Len(q) = j /\ j = 3 /\ k = Call("leave", c, s)
        /\ k.op = "pane" => Len(q) = j /\ j = 2 /\ k = Call("pane", c, None)
        /\ k.op = "stream" => Len(q) = j /\ j = 1 /\ k = Call("stream", c, s)
        /\ k.op = "view" => Len(q) > j /\ j \in {2, 5} /\ k = Call("view", c, s)
        /\ k.op = "size" => Len(q) > j /\ j \in {0, 1} /\ k = Sized("size", c, None, z)
        /\ k.op = "current" => k = Call("current", c, None)
        /\ k.op \notin OtherOps \cup {"detach"}
    <3>1. q \in Seq(ProperCalls) /\ q # <<>> /\ k = Head(q) /\ j \in 0..5
      BY <1>1
    <3> HIDE DEF OtherOps
    <3> QED BY ONLY <3>1, <2>1, StageOf, ZenonT(60)
  <2>3. k.op \in {"stop", "show", "leave", "view", "pane", "size", "current", "detach"} => k.client = c
    BY <2>2, CallIs
  <2>4. /\ \A x \in Ahead(Tail(q)) : x.op \notin {"view", "size"}
        /\ Len(q) = j => \A x \in Ahead(q) : \E i \in (6 - j)..5 : x = L[i]
        /\ Len(q) > j /\ j >= 2 =>
             Call("pane", c, None) \in Ahead(Tail(q)) /\ Call("stream", c, s) \in Ahead(Tail(q))
    <3>1. q \in Seq(ProperCalls) /\ q # <<>> /\ Form(q, c, s, j, z)
      BY <1>1, <2>1
    <3>2. \A x \in Ahead(Tail(q)) : x.op \notin {"view", "size"}
      BY ONLY <3>1, FormTells
    <3>3. ASSUME Len(q) = j, NEW x \in Ahead(q) PROVE \E i \in (6 - j)..5 : x = L[i]
      <4>1. PICK h \in 1..Len(q) : x = q[h]
        BY <3>3 DEF Ahead
      <4>2. ~(h <= Len(q) - j)
        BY <3>3, <4>1
      <4> QED BY <3>1, <4>1, <4>2, FormAt
    <3>4. Len(q) > j /\ j >= 2 =>
            Call("pane", c, None) \in Ahead(Tail(q)) /\ Call("stream", c, s) \in Ahead(Tail(q))
      BY ONLY <3>1, FormTells
    <3> QED BY <3>2, <3>3, <3>4, Zenon
  <2>5. /\ L[1].op = "stop" /\ L[2].op = "show" /\ L[3].op = "leave" /\ L[4].op = "pane"
        /\ L[5].op = "stream" /\ L[5] = Call("stream", c, s)
    BY SwitchIs, CallIs
  <2> HIDE DEF L
  <2>6. ASSUME k.op = "show" PROVE Call("current", c, None) \notin Ahead(q)
    <3>1. \A x \in Ahead(q) : \E i \in 2..5 : x = L[i]
      BY <2>2, <2>4, <2>6
    <3>2. \A i \in 2..5 : L[i].op # "current"
      <4>1. \A i \in 2..5 : i = 2 \/ i = 3 \/ i = 4 \/ i = 5
        OBVIOUS
      <4> QED BY <2>5, <4>1
    <3> QED BY <3>1, <3>2, CallIs
  <2>7. ASSUME k.op = "stream", NEW x \in Ahead(q) PROVE x = k
    <3>1. \E i \in (6 - 1)..5 : x = L[i]
      BY <2>2, <2>4, <2>7
    <3>2. \A i \in (6 - 1)..5 : i = 5
      OBVIOUS
    <3> QED BY <2>2, <2>5, <2>7, <3>1, <3>2
  <2>8. ASSUME k.op = "view"
        PROVE  Call("pane", c, None) \in Ahead(Tail(q)) /\ Call("stream", c, k.session) \in Ahead(Tail(q))
    <3>1. Len(q) > j /\ j >= 2 /\ k.session = s
      BY <2>2, <2>8, CallIs
    <3> QED BY <2>4, <3>1
  <2>9. ASSUME k.op = "pane", NEW x, Call("stream", c, x) \in Ahead(q) PROVE x = ui[c]
    <3>1. Len(q) = j /\ j = 2
      BY <2>2, <2>9
    <3>2. ui[c] = s
      <4>1. j \in 1..3
        BY <3>1
      <4> QED BY <1>4, <4>1 DEF Showing
    <3>3. \E i \in (6 - 2)..5 : Call("stream", c, x) = L[i]
      BY <2>4, <2>9, <3>1
    <3>4. \A i \in (6 - 2)..5 : i = 4 \/ i = 5
      OBVIOUS
    <3>5. Call("stream", c, x) = L[5]
      BY <2>5, <3>3, <3>4, CallIs
    <3>6. Call("stream", c, x).session = Call("stream", c, s).session
      BY <2>5, <3>5
    <3> QED BY <3>2, <3>6, CallIs
  <2>10. ASSUME k.op = "size" PROVE viewing[c] = ui[c]
    <3>1. j <= 2
      BY <2>2, <2>10
    <3>2. ~At(Main(c), "view")
      BY <2>10 DEF At, Queue
    <3> QED BY <1>4, <3>1, <3>2 DEF Showing
  <2> QED BY <2>2, <2>3, <2>4, <2>6, <2>7, <2>8, <2>9, <2>10
<1> QED
  <2>1. Quitting(c) \/ \E s \in Sessions \cup {None}, j \in 0..5 : Showing(c, s, j)
    BY <1>2 DEF OnItsWay
  <2> QED BY <1>2, <1>3, <1>4, <2>1

\* The negotiated size depends on the viewers, their sizes and the driver, if
\* the driver is a viewer.
LEMMA NegotiatedSame ==
    ASSUME NEW s, Viewers(s)' = Viewers(s), \A c \in Viewers(s) : csize'[c] = csize[c],
           driver'[s] = driver[s] \/ (driver[s] \notin Viewers(s) /\ driver'[s] \notin Viewers(s))
    PROVE  NegotiatedSize(s)' = NegotiatedSize(s)
<1> DEFINE V == Viewers(s)
<1>1. {csize'[c].rows : c \in V} = {csize[c].rows : c \in V}
      /\ {csize'[c].cols : c \in V} = {csize[c].cols : c \in V}
  OBVIOUS
<1>2. NegotiatedSize(s)' = IF Policy = "driver" /\ driver'[s] \in V THEN csize'[driver'[s]]
                           ELSE [rows |-> Least({csize'[c].rows : c \in V}),
                                 cols |-> Least({csize'[c].cols : c \in V})]
  BY DEF NegotiatedSize, Smallest, Least
<1>3. NegotiatedSize(s) = IF Policy = "driver" /\ driver[s] \in V THEN csize[driver[s]]
                          ELSE [rows |-> Least({csize[c].rows : c \in V}),
                                cols |-> Least({csize[c].cols : c \in V})]
  BY DEF NegotiatedSize, Smallest
<1> HIDE DEF V
<1>4. CASE Policy = "driver" /\ driver[s] \in V
  <2>1. driver'[s] = driver[s] /\ csize'[driver[s]] = csize[driver[s]]
    BY <1>4 DEF V
  <2> QED BY <1>2, <1>3, <1>4, <2>1
<1>5. CASE ~(Policy = "driver" /\ driver[s] \in V)
  <2>1. ~(Policy = "driver" /\ driver'[s] \in V)
    BY <1>5 DEF V
  <2> QED BY <1>1, <1>2, <1>3, <1>5, <2>1
<1> QED BY <1>4, <1>5

\* A debt that is not the first call's remains with the others.
LEMMA DebtRest ==
    ASSUME NEW A, NEW B, NEW k, NEW c, NEW s, NEW u, Debt({k} \cup A, c, s, u),
           k # Negotiate(s), k.op \notin {"current", "pane", "stream"}
    PROVE  Debt(A, c, s, u) /\ Debt(B \cup A, c, s, u)
<1>1. k # Call("current", c, None) /\ k # Call("pane", c, None) /\ k # Call("stream", c, s)
  BY CallIs
<1> QED BY <1>1 DEF Debt

\* One call of the interface at work.
LEMMA RunPays ==
    ASSUME IsFiniteSet(Clients), TInv, TInv', Undisturbed, OnlyItself, NEW c \in Clients,
           Run(Main(c)), PaysItsDebts(c), ~unsettled'
    PROVE  PaysItsDebts(c)'
<1> DEFINE t == Main(c)
           q == Queue(c)
           k == Head(q)
           T == Tail(q)
           r == Queue(c)'
           Plain(p) == \A x \in Ahead(p) : x.op \notin {"record", "push"}
<1> USE DEF attachVars, subVars, uiVars, sessionVars
<1>a. ~Idle(t)
  BY DEF Run, StopSub, Show, Stream, Detach, Leave, SetViewing, PaneSize, SetSize, Current,
         Compute, Record, Push, ListViewers, Move, Follow, Compare, FirstRunning, Blank,
           Unmap, CloseHost, At
<1>b. OnItsWay(c)
  BY DEF OnlyItself
<1>0. /\ q \in Seq(ProperCalls) /\ q # <<>> /\ k \in ProperCalls /\ T \in Seq(ProperCalls)
      /\ Ahead(q) = {k} \cup Ahead(T)
  <2>1. q \in Seq(ProperCalls) /\ q # <<>> /\ k \in ProperCalls /\ T \in Seq(ProperCalls)
    BY <1>a, HeadIsProper, ThreadsDiffer DEF Queue, Idle
  <2> QED BY <2>1, AheadSplit
<1>e. <<>> \in Seq(ProperCalls) /\ Ahead(<<>>) = {}
  BY EmptySeq, AheadNone
<1>k. /\ status[c] = "on"
      /\ k.op \in {"stop", "show", "leave", "view", "pane", "size", "current", "detach"} => k.client = c
      /\ k.op = "show" => Call("current", c, None) \notin Ahead(q)
      /\ k.op = "stream" => \A x \in Ahead(q) : x = k
      /\ k.op = "view" => Call("pane", c, None) \in Ahead(T) /\ Call("stream", c, k.session) \in Ahead(T)
      /\ k.op = "pane" => \A x : Call("stream", c, x) \in Ahead(q) => x = ui[c]
      /\ k.op = "size" => viewing[c] = ui[c]
      /\ k.op \notin OtherOps
      /\ \A x \in Ahead(T) : x.op \notin {"view", "size"}
  BY <1>a, <1>b, HeadTells
<1>r. ASSUME NEW p \in Seq(ProperCalls), Then(t, p)
      PROVE  r = p \o T /\ Ahead(r) = Ahead(p) \cup Ahead(T) /\ (p # <<>> => r # <<>> /\ Head(r) = p[1])
  <2>1. r = p \o T
    BY <1>a, <1>r, ThenIs
  <2>2. Ahead(r) = Ahead(p) \cup Ahead(T)
    <3>1. T \in Seq(ProperCalls)
      BY <1>0
    <3> HIDE DEF r, T
    <3> QED BY <2>1, <3>1, AheadJoin
  <2> QED BY <1>0, <2>1, <2>2, FirstIs
<1>none. ASSUME Then(t, <<>>) PROVE r = T /\ Ahead(r) = Ahead(T)
  <2>1. r = <<>> \o T
    BY <1>a, <1>none, ThenIs
  <2>2. r = T
    BY <1>0, <2>1, ConcatEmptySeq
  <2> QED BY <2>2
<1>queue. q = Queue(c) /\ r = Queue(c)' /\ k = Head(todo[t]) /\ q = todo[t] /\ r = todo'[t]
          /\ \A o : At(t, o) <=> k.op = o
  BY <1>a DEF Queue, At
<1>owed. /\ Resizing(q) /\ Renegotiates(c)
         /\ \A s \in Sessions : Viewers(s) # {} =>
                \/ Settled(s)
                \/ Debt({k} \cup Ahead(T), c, s, ui[c])
                \/ k.op = "record" /\ k.session = s
                \/ k.op = "push" /\ k.session = s /\ rec[s] = NegotiatedSize(s)
  <2>1. \A s : Owed(c, s) =>
                \/ Debt(Ahead(q), c, s, ui[c])
                \/ k.op = "record" /\ k.session = s
                \/ k.op = "push" /\ k.session = s /\ rec[s] = NegotiatedSize(s)
    BY <1>queue, Zenon DEF Owed
  <2> QED BY <1>0, <2>1 DEF PaysItsDebts
<1>pay. ASSUME Resizing(Queue(c))', Renegotiates(c)',
               \A s \in Sessions : Viewers(s)' # {} => Settled(s)' \/ Debt(Ahead(r), c, s, ui'[c])
        PROVE  PaysItsDebts(c)'
  BY <1>pay DEF PaysItsDebts, Owed
<1> HIDE DEF q, k, T, r
<1>plain. k.op \notin {"record", "push"} => Plain(T)
  <2>1. ASSUME k.op \notin {"record", "push"} PROVE NoResize(q)
    BY <1>owed, <2>1, CallIs DEF Resizing, k
  <2> QED BY <1>0, <2>1 DEF NoResize
<1>res. ASSUME NEW p \in Seq(ProperCalls), Then(t, p), Plain(p), k.op \notin {"record", "push"}
        PROVE  Resizing(Queue(c))'
  <2>1. NoResize(r)
    BY <1>r, <1>plain, <1>res DEF NoResize
  <2> QED BY <2>1 DEF Resizing, r, NoResize, Ahead
<1>ren. ASSUME NEW p \in Seq(ProperCalls), Then(t, p), p # <<>>, p[1].op \notin {"view", "size"}
        PROVE  Renegotiates(c)'
  <2>1. r # <<>> /\ Head(r) = p[1]
    BY <1>r, <1>ren
  <2> QED BY <1>queue, <1>ren, <2>1 DEF Renegotiates, At, Idle
<1>ren0. ASSUME Then(t, <<>>) PROVE Renegotiates(c)'
  <2>1. r = T
    BY <1>none, <1>ren0
  <2>2. r # <<>> => Head(r) \in Ahead(T)
    BY <1>0, <2>1, AheadSplit
  <2>3. r # <<>> => Head(r).op \notin {"view", "size"}
    BY <1>k, <2>2
  <2> QED BY <1>queue, <2>3 DEF Renegotiates, At, Idle
<1>same. ASSUME UNCHANGED attachVars
         PROVE  \A s : Viewers(s)' = Viewers(s) /\ NegotiatedSize(s)' = NegotiatedSize(s)
  BY <1>same, NegotiatedSame DEF Viewers
<1>calm. ASSUME NEW p \in Seq(ProperCalls), Then(t, p), Plain(p), k.op \notin {"record", "push"},
                Renegotiates(c)', UNCHANGED <<attachVars, rec, pty>>,
                \A s \in Sessions : Viewers(s) # {} /\ Debt({k} \cup Ahead(T), c, s, ui[c]) =>
                    Debt(Ahead(p) \cup Ahead(T), c, s, ui'[c])
         PROVE  PaysItsDebts(c)'
  <2>1. Resizing(Queue(c))'
    BY <1>calm, <1>res
  <2>2. ASSUME NEW s \in Sessions, Viewers(s)' # {} PROVE Settled(s)' \/ Debt(Ahead(r), c, s, ui'[c])
    <3>1. Viewers(s) # {} /\ (Settled(s) => Settled(s)')
      BY <1>calm, <1>same, <2>2 DEF Settled
    <3>2. Settled(s) \/ Debt({k} \cup Ahead(T), c, s, ui[c])
      BY <1>calm, <1>owed, <3>1
    <3>3. Ahead(r) = Ahead(p) \cup Ahead(T)
      BY <1>calm, <1>r
    <3> QED BY <1>calm, <3>1, <3>2, <3>3
  <2> QED BY <1>calm, <1>pay, <2>1, <2>2
<1>1. CASE StopSub(t)
  <2>1. k.op = "stop" /\ Then(t, <<>>) /\ UNCHANGED <<attachVars, ui, rec, pty>>
    BY <1>1, <1>queue DEF StopSub
  <2>2. \A s : k # Negotiate(s)
    BY <2>1, CallIs DEF Negotiate
  <2> QED BY <1>e, <1>calm, <1>ren0, <2>1, <2>2, DebtRest
<1>2. CASE Show(t)
  <2>1. k.op = "show" /\ Then(t, <<>>) /\ UNCHANGED <<attachVars, rec, pty>>
    BY <1>2, <1>queue DEF Show
  <2>2. ASSUME NEW s \in Sessions, Debt({k} \cup Ahead(T), c, s, ui[c])
        PROVE  Debt(Ahead(<<>>) \cup Ahead(T), c, s, ui'[c])
    <3>1. k # Negotiate(s) /\ k # Call("pane", c, None) /\ k # Call("stream", c, s)
      BY <2>1, CallIs DEF Negotiate
    <3>2. Call("current", c, None) \notin {k} \cup Ahead(T)
      BY <1>0, <1>k, <2>1
    <3> QED BY <2>2, <3>1, <3>2 DEF Debt
  <2> QED BY <1>e, <1>calm, <1>ren0, <2>1, <2>2
<1>3. CASE Stream(t)
  <2>1. k.op = "stream" /\ Then(t, <<>>) /\ UNCHANGED <<attachVars, ui, rec, pty>>
    BY <1>3, <1>queue DEF Stream
  <2>2. ASSUME NEW s \in Sessions, Debt({k} \cup Ahead(T), c, s, ui[c])
        PROVE  Debt(Ahead(<<>>) \cup Ahead(T), c, s, ui'[c])
    <3>1. k # Negotiate(s) /\ k # Call("pane", c, None) /\ k # Call("current", c, None)
      BY <2>1, CallIs DEF Negotiate
    <3>2. \A x \in {k} \cup Ahead(T) : x = k
      BY <1>0, <1>k, <2>1
    <3> QED BY <2>2, <3>1, <3>2 DEF Debt
  <2> QED BY <1>e, <1>calm, <1>ren0, <2>1, <2>2
<1>4. CASE Detach(t)
  <2>1. k.op = "detach" /\ k.client = c /\ Then(t, <<>>)
    BY <1>4, <1>k, <1>queue DEF Detach
  <2>2. /\ status' = [status EXCEPT ![c] = "gone"] /\ viewing' = [viewing EXCEPT ![c] = None]
        /\ driver' = [s \in Sessions |-> IF driver[s] = c THEN None ELSE driver[s]]
        /\ Viewers(viewing[c]) = {c} /\ UNCHANGED <<csize, ui, rec, pty>>
    BY <1>4, <1>queue, <2>1 DEF Detach
  <2>3. ASSUME NEW s \in Sessions, Viewers(s)' # {} PROVE Settled(s)' \/ Debt(Ahead(r), c, s, ui'[c])
    <3>1. Viewers(s)' = Viewers(s) \ {c}
      BY <2>2, ResizeAssumption DEF Viewers, TInv
    <3>2. c \notin Viewers(s) /\ Viewers(s)' = Viewers(s)
      BY <2>2, <2>3, <3>1 DEF Viewers
    <3>3. driver'[s] = driver[s] \/ (driver[s] \notin Viewers(s) /\ driver'[s] \notin Viewers(s))
      BY <2>2, <3>2, ResizeAssumption DEF Viewers
    <3>4. NegotiatedSize(s)' = NegotiatedSize(s)
      BY <2>2, <3>2, <3>3, NegotiatedSame
    <3>5. Settled(s) \/ Debt({k} \cup Ahead(T), c, s, ui[c])
      BY <1>owed, <2>1, <2>3, <3>2
    <3>6. k # Negotiate(s)
      BY <2>1, CallIs DEF Negotiate
    <3>7. Ahead(r) = Ahead(T)
      BY <1>none, <2>1
    <3> QED BY <2>1, <2>2, <3>4, <3>5, <3>6, <3>7, DebtRest DEF Settled
  <2>4. Resizing(Queue(c))'
    BY <1>e, <1>res, <2>1
  <2> QED BY <1>pay, <1>ren0, <2>1, <2>3, <2>4
<1>5. CASE Leave(t)
  <2>1. k.op = "leave" /\ k.client = c /\ k.session \in Sessions /\ UNCHANGED <<attachVars, ui, rec, pty>>
    BY <1>0, <1>5, <1>k, <1>queue DEF Leave, ProperCalls
  <2> DEFINE s == k.session
             rest == IF viewing[c] \in {None, s} THEN <<>> ELSE <<Negotiate(viewing[c])>>
             v == <<Call("view", c, s)>>
             p == v \o rest
  <2>2. Then(t, p)
    BY <1>5, <1>k, <1>queue, <2>1 DEF Leave
  <2> HIDE DEF s
  <2>3. v \in Seq(ProperCalls) /\ v # <<>> /\ v[1] = Call("view", c, s) /\ Ahead(v) = {Call("view", c, s)}
    BY <2>1, CallsAreProper, AheadOne DEF s
  <2>4. rest \in Seq(ProperCalls) /\ \/ viewing[c] \in {None, s} /\ Ahead(rest) = {}
                                     \/ Ahead(rest) = {Negotiate(viewing[c])}
    <3>1. CASE viewing[c] \in {None, s}
      <4>1. rest = <<>>
        BY <3>1
      <4> HIDE DEF rest
      <4> QED BY <1>e, <3>1, <4>1
    <3>2. CASE viewing[c] \notin {None, s}
      <4>1. rest = <<Negotiate(viewing[c])>>
        BY <3>2
      <4>2. Negotiate(viewing[c]) \in ProperCalls
        BY <3>2, HostCallsAreProper DEF TInv
      <4> HIDE DEF rest
      <4> QED BY <4>1, <4>2, AheadOne
    <3> QED BY <3>1, <3>2
  <2> HIDE DEF v, rest
  <2>5. p \in Seq(ProperCalls) /\ Ahead(p) = Ahead(v) \cup Ahead(rest)
    BY <2>3, <2>4, AheadJoin, ConcatProperties
  <2>6. p # <<>> /\ p[1] = Call("view", c, s)
    <3>1. Len(v) = 1 /\ Len(rest) \in Nat /\ Len(p) = Len(v) + Len(rest)
      BY <2>3, <2>4, LenProperties, ConcatProperties DEF v
    <3>2. 1 \in 1..(Len(v) + Len(rest)) /\ 1 <= Len(v) /\ Len(p) # 0
      BY <3>1
    <3>3. p[1] = v[1]
      BY <2>3, <2>4, <3>2, ConcatProperties
    <3> QED BY <2>3, <2>5, <3>2, <3>3, EmptySeq
  <2> HIDE DEF p
  <2>7. Ahead(r) = Ahead(p) \cup Ahead(T) /\ r # <<>> /\ Head(r) = Call("view", c, s)
    BY <1>r, <2>2, <2>5, <2>6
  <2>8. Renegotiates(c)'
    <3>1. viewing'[c] \in {None, s} \/ Negotiate(viewing'[c]) \in Ahead(r)
      BY <2>1, <2>4, <2>5, <2>7
    <3>2. Head(r).op = "view" /\ Head(r).session = s
      BY <2>7, CallIs
    <3> QED BY <1>queue, <3>1, <3>2 DEF Renegotiates, At, Ahead
  <2>9. Plain(p)
    BY <2>3, <2>4, <2>5, CallIs DEF Negotiate
  <2>10. \A x : k # Negotiate(x)
    BY <2>1, CallIs DEF Negotiate
  <2> QED BY <1>calm, <2>1, <2>2, <2>5, <2>8, <2>9, <2>10, DebtRest
<1>6. CASE SetViewing(t)
  <2>1. k.op = "view" /\ k.client = c /\ k.session \in Sessions /\ Then(t, <<>>)
        /\ UNCHANGED <<status, csize, driver, ui, rec, pty>>
    BY <1>0, <1>6, <1>k, <1>queue DEF SetViewing, ProperCalls
  <2>2. viewing' = [viewing EXCEPT ![c] = k.session]
    BY <1>6, <1>k, <1>queue, <2>1 DEF SetViewing
  <2>3. Ahead(r) = Ahead(T)
    BY <1>none, <2>1
  <2>4. \A x : k # Negotiate(x)
    BY <2>1, CallIs DEF Negotiate
  <2>5. ASSUME NEW s \in Sessions, Viewers(s)' # {} PROVE Settled(s)' \/ Debt(Ahead(r), c, s, ui'[c])
    <3>1. CASE s = k.session
      BY <1>k, <2>1, <2>3, <3>1 DEF Debt
    <3>2. CASE s # k.session /\ s = viewing[c]
      <4>1. Negotiate(s) \in Ahead(q)
        BY <1>owed, <1>queue, <2>1, <3>2, ResizeAssumption DEF Renegotiates
      <4> QED BY <1>0, <2>3, <2>4, <4>1 DEF Debt
    <3>3. CASE s # k.session /\ s # viewing[c]
      <4>1. Viewers(s)' = Viewers(s)
        BY <2>1, <2>2, <3>3 DEF Viewers, TInv
      <4>2. NegotiatedSize(s)' = NegotiatedSize(s)
        BY <2>1, <4>1, NegotiatedSame
      <4>3. Settled(s) \/ Debt({k} \cup Ahead(T), c, s, ui[c])
        BY <1>owed, <2>1, <2>5, <4>1
      <4> QED BY <2>1, <2>3, <2>4, <4>2, <4>3, DebtRest DEF Settled
    <3> QED BY <3>1, <3>2, <3>3
  <2>6. Resizing(Queue(c))'
    BY <1>e, <1>res, <2>1
  <2> QED BY <1>pay, <1>ren0, <2>1, <2>5, <2>6
<1>7. CASE PaneSize(t)
  <2>1. k.op = "pane" /\ k.client = c /\ UNCHANGED <<attachVars, ui, rec, pty>>
    BY <1>7, <1>k, <1>queue DEF PaneSize
  <2> DEFINE z == pane[c]
             p == <<Sized("size", c, None, z), Call("current", c, None)>>
  <2>2. Then(t, p) /\ z \in Sizes
    BY <1>7, <1>queue, <2>1 DEF PaneSize, TInv
  <2> HIDE DEF z
  <2>3. Sized("size", c, None, z) \in ProperCalls /\ Call("current", c, None) \in ProperCalls
    BY <2>2, SizeCallIsProper DEF Call, ProperCalls, Calls
  <2>4. p \in Seq(ProperCalls) /\ p # <<>> /\ p[1] = Sized("size", c, None, z)
    BY <2>3
  <2>5. Ahead(p) = {Sized("size", c, None, z), Call("current", c, None)}
    BY AheadTwo
  <2> HIDE DEF p
  <2>6. Ahead(r) = Ahead(p) \cup Ahead(T) /\ r # <<>> /\ Head(r).op = "size"
    BY <1>r, <2>2, <2>4, CallIs
  <2>7. Renegotiates(c)'
    <3>1. Call("current", c, None) \in Ahead(r)
      BY <2>5, <2>6
    <3> QED BY <1>queue, <2>6, <3>1 DEF Renegotiates, At, Ahead
  <2>8. Plain(p)
    BY <2>5, CallIs
  <2>9. ASSUME NEW s \in Sessions, Debt({k} \cup Ahead(T), c, s, ui[c])
        PROVE  Debt(Ahead(p) \cup Ahead(T), c, s, ui'[c])
    <3>1. k # Negotiate(s) /\ k # Call("current", c, None) /\ k # Call("stream", c, s)
      BY <2>1, CallIs DEF Negotiate
    <3>2. Call("stream", c, s) \in Ahead(T) => s = ui[c]
      BY <1>0, <1>k, <2>1
    <3> QED BY <2>1, <2>5, <2>9, <3>1, <3>2 DEF Debt
  <2> QED BY <1>calm, <2>1, <2>2, <2>4, <2>7, <2>8, <2>9
<1>8. CASE SetSize(t)
  <2>1. k.op = "size" /\ k.client = c /\ Then(t, <<>>)
        /\ UNCHANGED <<status, viewing, driver, ui, rec, pty>>
    BY <1>8, <1>k, <1>queue DEF SetSize
  <2>2. csize' = [csize EXCEPT ![c] = k.size]
    BY <1>8, <1>k, <1>queue, <2>1 DEF SetSize
  <2>3. Ahead(r) = Ahead(T)
    BY <1>none, <2>1
  <2>4. \A x : k # Negotiate(x)
    BY <2>1, CallIs DEF Negotiate
  <2>5. ASSUME NEW s \in Sessions, Viewers(s)' # {} PROVE Settled(s)' \/ Debt(Ahead(r), c, s, ui'[c])
    <3>1. Viewers(s)' = Viewers(s)
      BY <2>1 DEF Viewers
    <3>2. CASE s = viewing[c]
      <4>1. Call("current", c, None) \in Ahead(q) /\ s = ui[c]
        BY <1>k, <1>owed, <1>queue, <2>1, <3>2 DEF Renegotiates
      <4>2. Call("current", c, None) # k
        BY <2>1, CallIs
      <4> QED BY <1>0, <2>1, <2>3, <4>1, <4>2 DEF Debt
    <3>3. CASE s # viewing[c]
      <4>1. \A d \in Viewers(s) : csize'[d] = csize[d]
        BY <2>2, <3>3 DEF Viewers, TInv
      <4>2. NegotiatedSize(s)' = NegotiatedSize(s)
        BY <2>1, <3>1, <4>1, NegotiatedSame
      <4>3. Settled(s) \/ Debt({k} \cup Ahead(T), c, s, ui[c])
        BY <1>owed, <2>1, <2>5, <3>1
      <4> QED BY <2>1, <2>3, <2>4, <4>2, <4>3, DebtRest DEF Settled
    <3> QED BY <3>2, <3>3
  <2>6. Resizing(Queue(c))'
    BY <1>e, <1>res, <2>1
  <2> QED BY <1>pay, <1>ren0, <2>1, <2>5, <2>6
<1>9. CASE Current(t)
  <2>1. k.op = "current" /\ k.client = c /\ UNCHANGED <<attachVars, ui, rec, pty>>
    BY <1>9, <1>k, <1>queue DEF Current
  <2>2. \A s : k # Negotiate(s) /\ k # Call("pane", c, None) /\ k # Call("stream", c, s)
    BY <2>1, CallIs DEF Negotiate
  <2>3. CASE ui[c] = None
    <3>1. Then(t, <<>>)
      BY <1>9, <1>queue, <2>1, <2>3 DEF Current
    <3>2. \A s \in Sessions : s # ui[c]
      BY <2>3, ResizeAssumption
    <3>3. ASSUME NEW s \in Sessions, Debt({k} \cup Ahead(T), c, s, ui[c])
          PROVE  Debt(Ahead(<<>>) \cup Ahead(T), c, s, ui'[c])
      BY <2>2, <3>2, <3>3 DEF Debt
    <3> QED BY <1>e, <1>calm, <1>ren0, <2>1, <3>1, <3>3
  <2>4. CASE ui[c] # None
    <3> DEFINE n == Negotiate(ui[c])
               p == <<n>>
    <3>1. Then(t, p)
      BY <1>9, <1>queue, <2>1, <2>4 DEF Current
    <3>2. n \in ProperCalls
      BY <2>4, HostCallsAreProper DEF TInv
    <3>3. n.op = "negotiate"
      BY CallIs DEF Negotiate
    <3> HIDE DEF n
    <3>4. p \in Seq(ProperCalls) /\ p # <<>> /\ p[1] = n
      BY <3>2
    <3>5. Ahead(p) = {n}
      BY AheadOne
    <3> HIDE DEF p
    <3>6. ASSUME NEW s \in Sessions, Debt({k} \cup Ahead(T), c, s, ui[c])
          PROVE  Debt(Ahead(p) \cup Ahead(T), c, s, ui'[c])
      BY <2>1, <2>2, <3>5, <3>6 DEF Debt, n
    <3>7. Renegotiates(c)'
      BY <1>ren, <3>1, <3>3, <3>4
    <3>8. Plain(p)
      BY <3>3, <3>5
    <3> QED BY <1>calm, <2>1, <3>1, <3>4, <3>6, <3>7, <3>8
  <2> QED BY <2>3, <2>4
<1>10. CASE Compute(t)
  <2>1. k.op = "negotiate" /\ k.session \in Sessions /\ UNCHANGED <<attachVars, ui, rec, pty>>
    BY <1>0, <1>10, <1>queue DEF Compute, ProperCalls
  <2>2. k = Negotiate(k.session) \/ \A s : k # Negotiate(s)
    BY CallIs DEF Negotiate
  <2>3. \A s : s # k.session => k # Negotiate(s)
    BY CallIs DEF Negotiate
  <2>4. CASE Viewers(k.session) = {}
    <3>1. Then(t, <<>>)
      BY <1>10, <1>queue, <2>4 DEF Compute
    <3>2. ASSUME NEW s \in Sessions, Viewers(s) # {}, Debt({k} \cup Ahead(T), c, s, ui[c])
          PROVE  Debt(Ahead(<<>>) \cup Ahead(T), c, s, ui'[c])
      BY <2>1, <2>3, <2>4, <3>2, DebtRest
    <3> QED BY <1>e, <1>calm, <1>ren0, <2>1, <3>1, <3>2
  <2>5. CASE Viewers(k.session) # {}
    <3>x. PICK x \in Sessions : x = k.session
      BY <2>1
    <3> DEFINE z == NegotiatedSize(x)
               a == Sized("record", None, x, z)
               b == Sized("push", None, x, z)
               p == <<a, b>>
    <3>1. Then(t, p) /\ z \in Shapes
      BY <1>10, <1>queue, <2>5, <3>x, NegotiatedIsShape DEF Compute
    <3> HIDE DEF z
    <3>2. a \in ProperCalls /\ b \in ProperCalls
      BY <3>1, HostCallsAreProper
    <3>3. a.op = "record" /\ a.session = x
      BY CallIs
    <3> HIDE DEF a, b
    <3>4. p \in Seq(ProperCalls) /\ p # <<>> /\ p[1] = a
      BY <3>2
    <3>5. r = p \o T /\ Ahead(r) = Ahead(p) \cup Ahead(T) /\ r # <<>> /\ Head(r) = a
      BY <1>r, <3>1, <3>4
    <3>6. Tail(r) # <<>> /\ Head(Tail(r)) = b /\ Tail(Tail(r)) = T
      <4>1. p \in Seq(ProperCalls) /\ Len(p) = 2 /\ p[2] = b
        BY <3>2
      <4>2. r = p \o T /\ T \in Seq(ProperCalls)
        BY <1>0, <3>5
      <4> HIDE DEF p
      <4>3. Tail(p \o T) # <<>> /\ Head(Tail(p \o T)) = p[2] /\ Tail(Tail(p \o T)) = T
        BY ONLY <4>1, <4>2, TwoBefore
      <4> QED BY <4>1, <4>2, <4>3, Zenon
    <3> HIDE DEF p
    <3>7. Viewers(x)' = Viewers(x) /\ NegotiatedSize(x)' = z
      BY <1>same, <2>1 DEF z
    <3>8. NoResize(T)
      BY <1>plain, <2>1 DEF NoResize
    <3>9. Resizing(Queue(c))'
      <4>1. /\ Viewers(x)' # {} /\ r # <<>>
            /\ Head(r) = Sized("record", None, x, NegotiatedSize(x)')
            /\ Tail(r) # <<>> /\ Head(Tail(r)) = Sized("push", None, x, NegotiatedSize(x)')
            /\ NoResize(Tail(Tail(r)))
        BY <2>5, <3>x, <3>5, <3>6, <3>7, <3>8 DEF a, b
      <4> QED BY <4>1, <1>queue DEF Resizing, NoResize, Ahead
    <3>10. Renegotiates(c)'
      BY <1>ren, <3>1, <3>3, <3>4
    <3>11. At(t, "record")' /\ Head(Queue(c))'.session = x
      BY <1>queue, <3>3, <3>5 DEF At, Idle
    <3>12. ASSUME NEW s \in Sessions, Viewers(s)' # {} PROVE Settled(s)' \/ Owed(c, s)'
      <4>1. CASE s = x
        BY <3>11, <4>1 DEF Owed
      <4>2. CASE s # x
        <5>1. Viewers(s) # {} /\ (Settled(s) => Settled(s)')
          BY <1>same, <2>1, <3>12 DEF Settled
        <5>2. Debt({k} \cup Ahead(T), c, s, ui[c]) => Debt(Ahead(r), c, s, ui'[c])
          <6>1. k # Negotiate(s) /\ k.op \notin {"current", "pane", "stream"}
            BY <2>1, <2>3, <3>x, <4>2
          <6>2. Ahead(r) = Ahead(p) \cup Ahead(T) /\ ui' = ui
            BY <2>1, <3>5
          <6>3. ASSUME Debt({k} \cup Ahead(T), c, s, ui[c])
                PROVE  Debt(Ahead(p) \cup Ahead(T), c, s, ui[c])
            BY <6>1, <6>3, DebtRest
          <6> QED BY <6>2, <6>3, Zenon
        <5>3. Settled(s) \/ Debt({k} \cup Ahead(T), c, s, ui[c])
          BY <1>owed, <2>1, <5>1
        <5>4. Debt(Ahead(r), c, s, ui'[c]) => Owed(c, s)'
          BY <1>queue DEF Owed, Debt, Ahead
        <5> QED BY <5>1, <5>2, <5>3, <5>4
      <4> QED BY <4>1, <4>2
    <3> QED BY <3>9, <3>10, <3>12 DEF PaysItsDebts
  <2> QED BY <2>4, <2>5
<1>11. CASE Record(t)
  <2>1. k.op = "record" /\ Then(t, <<>>) /\ UNCHANGED <<attachVars, ui, pty>>
    BY <1>11, <1>queue DEF Record
  <2>2. PICK x \in Sessions :
            /\ Viewers(x) # {} /\ k = Sized("record", None, x, NegotiatedSize(x))
            /\ T # <<>> /\ Head(T) = Sized("push", None, x, NegotiatedSize(x)) /\ NoResize(Tail(T))
    <3>1. ~NoResize(q)
      BY <1>0, <2>1 DEF NoResize
    <3>2. \A s, z : k # Sized("push", None, s, z)
      BY <2>1, CallIs
    <3> QED BY <1>owed, <3>1, <3>2 DEF Resizing, k, T
  <2>3. k.session = x /\ k.size = NegotiatedSize(x)
    BY <2>2, CallIs
  <2>4. rec' = [rec EXCEPT ![x] = NegotiatedSize(x)]
    BY <1>11, <1>queue, <2>3 DEF Record, Undisturbed
  <2>5. r = T /\ Ahead(r) = Ahead(T)
    BY <1>none, <2>1
  <2>6. Viewers(x)' = Viewers(x) /\ NegotiatedSize(x)' = NegotiatedSize(x)
    BY <1>same, <2>1
  <2>7. Resizing(Queue(c))'
    <3>1. /\ Viewers(x)' # {} /\ r # <<>> /\ Head(r) = Sized("push", None, x, NegotiatedSize(x)')
          /\ NoResize(Tail(r))
      BY <2>2, <2>5, <2>6
    <3> QED BY <1>queue, <3>1 DEF Resizing, NoResize, Ahead
  <2>8. At(t, "push")' /\ Head(Queue(c))'.session = x /\ rec'[x] = NegotiatedSize(x)'
    BY <1>queue, <2>2, <2>4, <2>5, <2>6, CallIs DEF At, Idle, TInv
  <2>9. ASSUME NEW s \in Sessions, Viewers(s)' # {} PROVE Settled(s)' \/ Owed(c, s)'
    <3>1. CASE s = x
      BY <2>8, <3>1 DEF Owed
    <3>2. CASE s # x
      <4>1. Viewers(s) # {} /\ (Settled(s) => Settled(s)')
        BY <1>same, <2>1, <2>4, <2>9, <3>2 DEF Settled
      <4>2. k # Negotiate(s)
        BY <2>1, CallIs DEF Negotiate
      <4>3. Debt({k} \cup Ahead(T), c, s, ui[c]) => Debt(Ahead(r), c, s, ui'[c])
        BY <2>1, <2>5, <4>2, DebtRest
      <4>4. Settled(s) \/ Debt({k} \cup Ahead(T), c, s, ui[c])
        BY <1>owed, <2>1, <2>3, <3>2, <4>1
      <4>5. Debt(Ahead(r), c, s, ui'[c]) => Owed(c, s)'
        BY <1>queue DEF Owed, Debt, Ahead
      <4> QED BY <4>1, <4>3, <4>4, <4>5
    <3> QED BY <3>1, <3>2
  <2> QED BY <1>ren0, <2>1, <2>7, <2>9 DEF PaysItsDebts
<1>12. CASE Push(t)
  <2>1. k.op = "push" /\ Then(t, <<>>) /\ UNCHANGED <<attachVars, ui, rec>>
    BY <1>12, <1>queue DEF Push
  <2>2. PICK x \in Sessions :
            Viewers(x) # {} /\ k = Sized("push", None, x, NegotiatedSize(x)) /\ NoResize(T)
    <3>1. ~NoResize(q)
      BY <1>0, <2>1 DEF NoResize
    <3>2. \A s, z : k # Sized("record", None, s, z)
      BY <2>1, CallIs
    <3> QED BY <1>owed, <3>1, <3>2 DEF Resizing, k, T
  <2>3. k.session = x /\ k.size = NegotiatedSize(x)
    BY <2>2, CallIs
  <2>4. pty' = [pty EXCEPT ![x] = NegotiatedSize(x)]
    BY <1>12, <1>queue, <2>3 DEF Push, Undisturbed
  <2>5. r = T /\ Ahead(r) = Ahead(T)
    BY <1>none, <2>1
  <2>6. Resizing(Queue(c))'
    <3>1. NoResize(r)
      BY <2>2, <2>5
    <3> QED BY <1>queue, <3>1 DEF Resizing, NoResize, Ahead
  <2>7. ASSUME NEW s \in Sessions, Viewers(s)' # {} PROVE Settled(s)' \/ Debt(Ahead(r), c, s, ui'[c])
    <3>1. Viewers(s) # {} /\ NegotiatedSize(s)' = NegotiatedSize(s)
      BY <1>same, <2>1, <2>7
    <3>2. Settled(s) => Settled(s)'
      BY <2>1, <2>4, <3>1 DEF Settled, TInv
    <3>3. k # Negotiate(s)
      BY <2>1, CallIs DEF Negotiate
    <3>4. Debt({k} \cup Ahead(T), c, s, ui[c]) => Debt(Ahead(r), c, s, ui'[c])
      BY <2>1, <2>5, <3>3, DebtRest
    <3>5. s = x /\ rec[s] = NegotiatedSize(s) => Settled(s)'
      BY <2>1, <2>4, <3>1 DEF Settled, TInv
    <3> QED BY <1>owed, <2>1, <2>3, <3>1, <3>2, <3>4, <3>5
  <2> QED BY <1>pay, <1>ren0, <2>1, <2>6, <2>7
<1>13. ~(\/ Follow(t) \/ Compare(t) \/ FirstRunning(t) \/ Blank(t)
         \/ Unmap(t) \/ CloseHost(t) \/ ListViewers(t) \/ Move(t))
  BY <1>k, <1>queue DEF ListViewers, Move, Follow, Compare, FirstRunning, Blank,
           Unmap, CloseHost
<1> QED
  BY <1>1, <1>2, <1>3, <1>4, <1>5, <1>6, <1>7, <1>8, <1>9, <1>10, <1>11, <1>12, <1>13 DEF Run

LEMMA FitInit == Init => FitInv
<1> SUFFICES ASSUME Init PROVE AllFit
  BY DEF FitInv
<1>1. \A t \in Threads : Idle(t)
  BY DEF Init, Idle
<1>2. \A s \in Sessions : Viewers(s) = {}
  BY DEF Init, Viewers
<1> QED BY <1>1, <1>2, ThreadsDiffer DEF AllFit

\* Nothing is owed by one who has nothing to do.
LEMMA IdleOwesNothing ==
    ASSUME NEW c, NEW s, Idle(Main(c))
    PROVE  ~Owed(c, s)
BY AheadNone DEF Owed, Debt, At, Idle, Queue

\* An interface sets to work when nobody else is.
LEMMA BeginPays ==
    ASSUME NEW c \in Clients, AllIdle, \A t \in Threads : t # Main(c) => todo'[t] = todo[t],
           \A k \in Ahead(Queue(c)') : k.op \notin {"record", "push"}, Renegotiates(c)',
           \A s \in Sessions : Viewers(s)' # {} => Settled(s)'
    PROVE  AllFit'
<1>1. \A t \in Threads : t # Main(c) => Idle(t)'
  BY DEF AllIdle, Idle
<1>2. NoResize(Queue(c)')
  BY DEF NoResize
<1>3. Resizing(Queue(c))'
  BY <1>2 DEF Resizing, NoResize, Ahead
<1>4. PaysItsDebts(c)'
  BY <1>3 DEF PaysItsDebts
<1>5. \A d \in Clients : Main(d) = Main(c) => d = c
  BY ThreadsDiffer
<1>6. \A d \in Clients : Main(d) \in Threads
  BY ThreadsDiffer
<1> QED BY <1>1, <1>4, <1>5, <1>6 DEF AllFit

\* What does not change what is negotiated.
LEMMA PaysSame ==
    ASSUME AllFit, UNCHANGED <<todo, viewing, ui, rec, pty>>,
           \A s \in Sessions : /\ Viewers(s)' = Viewers(s)
                               /\ Viewers(s) # {} => NegotiatedSize(s)' = NegotiatedSize(s)
    PROVE  AllFit'
<1>1. \A t : Idle(t)' = Idle(t)
  BY DEF Idle
<1>2. \A s \in Sessions : Viewers(s) # {} => Settled(s)' = Settled(s)
  BY DEF Settled
<1>3. ASSUME NEW c \in Clients, PaysItsDebts(c) PROVE PaysItsDebts(c)'
  <2>1. Queue(c)' = Queue(c)
    BY DEF Queue
  <2>2. Resizing(Queue(c))'
    <3> DEFINE q == Queue(c)
    <3>1. Resizing(q)
      BY <1>3 DEF PaysItsDebts
    <3>2. ASSUME NoResize(q) PROVE Resizing(Queue(c))'
      BY <2>1, <3>2 DEF Resizing, NoResize, Ahead
    <3> HIDE DEF q
    <3>3. ASSUME NEW s \in Sessions, Viewers(s) # {},
                 q # <<>> /\ Head(q) = Sized("push", None, s, NegotiatedSize(s)) /\ NoResize(Tail(q))
          PROVE  Resizing(Queue(c))'
      <4>1. Viewers(s)' # {} /\ NegotiatedSize(s)' = NegotiatedSize(s)
        BY <3>3
      <4> QED BY <2>1, <3>3, <4>1 DEF Resizing, NoResize, Ahead, q
    <3>4. ASSUME NEW s \in Sessions, Viewers(s) # {},
                 /\ q # <<>> /\ Head(q) = Sized("record", None, s, NegotiatedSize(s))
                 /\ Tail(q) # <<>> /\ Head(Tail(q)) = Sized("push", None, s, NegotiatedSize(s))
                 /\ NoResize(Tail(Tail(q)))
          PROVE  Resizing(Queue(c))'
      <4>1. Viewers(s)' # {} /\ NegotiatedSize(s)' = NegotiatedSize(s)
        BY <3>4
      <4> QED BY <2>1, <3>4, <4>1 DEF Resizing, NoResize, Ahead, q
    <3> QED BY <3>1, <3>2, <3>3, <3>4 DEF Resizing
  <2>3. Renegotiates(c)'
    BY <1>3, <2>1 DEF PaysItsDebts, Renegotiates, At, Idle
  <2>4. ASSUME NEW s \in Sessions, Viewers(s)' # {} PROVE Settled(s)' \/ Owed(c, s)'
    <3>1. Viewers(s) # {} /\ NegotiatedSize(s)' = NegotiatedSize(s)
      BY <2>4
    <3>2. Settled(s) \/ Owed(c, s)
      BY <1>3, <3>1 DEF PaysItsDebts
    <3>3. Owed(c, s) => Owed(c, s)'
      BY <2>1, <3>1 DEF Owed, Debt, At, Idle
    <3> QED BY <1>2, <3>1, <3>2, <3>3
  <2> QED BY <2>2, <2>3, <2>4 DEF PaysItsDebts
<1> QED BY <1>1, <1>2, <1>3, Zenon DEF AllFit, AllIdle

\* What an interface may start to do, when nobody else is at work.
LEMMA StartPays ==
    ASSUME TInv, Undisturbed, OnlyItself, AllFit, apart', NEW c \in Clients,
           (\E z \in Sizes : Connect(c, z) \/ Layout(c, z)) \/ (\E s \in Sessions : Jump(c, s)) \/ Quit(c)
    PROVE  AllFit'
<1> USE DEF attachVars, subVars, uiVars, sessionVars
<1>0. OnItsWay(c)
  BY DEF OnlyItself
<1>1. \A t \in Threads : t # Main(c) => todo'[t] = todo[t]
  BY StartKeepsView DEF Alone
<1>2. ASSUME AllIdle, NEW s \in Sessions, Viewers(s)' = Viewers(s),
             \A d \in Viewers(s) : csize'[d] = csize[d], UNCHANGED <<driver, rec, pty>>
      PROVE  Viewers(s)' # {} => Settled(s)'
  BY <1>2, NegotiatedSame DEF AllFit, Settled
<1>3. ASSUME NEW z \in Sizes, Connect(c, z) PROVE AllFit'
  <2>1. status[c] = "new" /\ viewing[c] = None
    BY <1>0, <1>3 DEF OnItsWay, Connect
  <2>2. ASSUME NEW s \in Sessions
        PROVE  Viewers(s)' = Viewers(s) /\ \A d \in Viewers(s) : csize'[d] = csize[d]
    <3>1. status' = [status EXCEPT ![c] = "on"] /\ csize' = [csize EXCEPT ![c] = z] /\ viewing' = viewing
      BY <1>3 DEF Connect
    <3> QED BY <2>1, <3>1, ResizeAssumption DEF Viewers, TInv
  <2>3. UNCHANGED <<viewing, driver, ui, rec, pty>>
    BY <1>3 DEF Connect
  <2>4. CASE UNCHANGED <<todo, apart>>
    <3>1. \A s \in Sessions : NegotiatedSize(s)' = NegotiatedSize(s)
      BY <2>2, <2>3, NegotiatedSame
    <3> QED BY <2>2, <2>3, <2>4, <3>1, PaysSame
  <2>5. ASSUME NEW s \in Sessions, Start(Main(c), SwitchView(c, s)) PROVE AllFit'
    <3> DEFINE L == SwitchView(c, s)
    <3>1. AllIdle /\ Queue(c)' = L
      BY <2>5, StartIs DEF Start
    <3>2. /\ L \in Seq(ProperCalls) /\ Len(L) = 5 /\ L[1].op = "stop" /\ L[2].op = "show"
          /\ L[3].op = "leave" /\ L[4].op = "pane" /\ L[5].op = "stream"
      BY SwitchIs, SwitchIsProper, CallIs
    <3> HIDE DEF L
    <3>3. \A k \in Ahead(L) : k.op \notin {"record", "push"}
      <4>1. \A i \in 1..Len(L) : i = 1 \/ i = 2 \/ i = 3 \/ i = 4 \/ i = 5
        BY <3>2
      <4> QED BY <3>2, <4>1 DEF Ahead
    <3>4. Head(L).op = "stop"
      <4>1. L # <<>>
        BY <3>2, EmptySeq
      <4> QED BY <3>2, <4>1, HeadTailProperties
    <3>5. Renegotiates(c)'
      BY <3>1, <3>4 DEF Renegotiates, At, Queue
    <3>6. \A x \in Sessions : Viewers(x)' # {} => Settled(x)'
      BY <1>2, <2>2, <2>3, <3>1
    <3> QED BY <1>1, <3>1, <3>3, <3>5, <3>6, BeginPays
  <2> QED BY <1>3, <2>4, <2>5 DEF Connect, TInv
<1>4. ASSUME UNCHANGED <<attachVars, rec, pty>>, AllIdle PROVE \A s \in Sessions : Viewers(s)' # {} => Settled(s)'
  <2>1. \A s \in Sessions : Viewers(s)' = Viewers(s)
    BY <1>4 DEF Viewers
  <2> QED BY <1>2, <1>4, <2>1
<1>5. ASSUME NEW z \in Sizes, Layout(c, z) PROVE AllFit'
  <2> DEFINE a == Sized("size", c, None, z)
             b == Call("current", c, None)
             p == <<a, b>>
  <2>1. Start(Main(c), p) /\ UNCHANGED <<attachVars, rec, pty>>
    BY <1>5 DEF Layout
  <2>2. a.op = "size" /\ b.op = "current"
    BY CallIs
  <2>3. b = Call("current", c, None)
    OBVIOUS
  <2> HIDE DEF a, b
  <2>4. Ahead(p) = {a, b}
    BY AheadTwo
  <2>5. Head(p) = a
    OBVIOUS
  <2> HIDE DEF p
  <2>6. AllIdle /\ Queue(c)' = p
    BY <2>1, StartIs DEF Start
  <2>7. Renegotiates(c)'
    BY <2>2, <2>3, <2>4, <2>5, <2>6 DEF Renegotiates, At, Queue, Ahead
  <2>8. \A k \in Ahead(Queue(c)') : k.op \notin {"record", "push"}
    BY <2>2, <2>4, <2>6
  <2> QED BY <1>1, <1>4, <2>1, <2>6, <2>7, <2>8, BeginPays
<1>6. ASSUME NEW s \in Sessions, Jump(c, s) PROVE AllFit'
  <2> DEFINE v == <<Call("view", c, s)>>
             old == IF viewing[c] \in {None, s} THEN <<>> ELSE <<Negotiate(viewing[c])>>
             n == <<Negotiate(s)>>
             L == SwitchView(c, s)
             r == v \o old \o n \o L
  <2>1. Start(Main(c), r) /\ UNCHANGED <<attachVars, rec, pty>>
    BY <1>6 DEF Jump
  <2>2. v \in Seq(ProperCalls) /\ Ahead(v) = {Call("view", c, s)} /\ Len(v) = 1 /\ v[1] = Call("view", c, s)
    BY CallsAreProper, AheadOne
  <2>3. n \in Seq(ProperCalls) /\ Ahead(n) = {Negotiate(s)}
    BY HostCallsAreProper, AheadOne
  <2>4. old \in Seq(ProperCalls) /\ \/ viewing[c] \in {None, s} /\ Ahead(old) = {}
                                    \/ Ahead(old) = {Negotiate(viewing[c])}
    <3>1. CASE viewing[c] \in {None, s}
      <4>1. old = <<>>
        BY <3>1
      <4> HIDE DEF old
      <4> QED BY <3>1, <4>1, AheadNone, EmptySeq
    <3>2. CASE viewing[c] \notin {None, s}
      <4>1. old = <<Negotiate(viewing[c])>>
        BY <3>2
      <4>2. Negotiate(viewing[c]) \in ProperCalls
        BY <3>2, HostCallsAreProper DEF TInv
      <4> HIDE DEF old
      <4> QED BY <4>1, <4>2, AheadOne
    <3> QED BY <3>1, <3>2
  <2>5. /\ L \in Seq(ProperCalls) /\ Len(L) = 5 /\ L[1].op = "stop" /\ L[2].op = "show"
        /\ L[3].op = "leave" /\ L[4].op = "pane" /\ L[5].op = "stream"
    BY SwitchIs, SwitchIsProper, CallIs
  <2> HIDE DEF v, old, n, L
  <2>6. \A k \in Ahead(L) : k.op \notin {"record", "push"}
    <3>1. \A i \in 1..Len(L) : i = 1 \/ i = 2 \/ i = 3 \/ i = 4 \/ i = 5
      BY <2>5
    <3> QED BY <2>5, <3>1 DEF Ahead
  <2> DEFINE vo == v \o old
  <2>7. vo \in Seq(ProperCalls) /\ Ahead(vo) = Ahead(v) \cup Ahead(old) /\ vo # <<>> /\ vo[1] = v[1]
    <3>1. vo \in Seq(ProperCalls) /\ Len(vo) = Len(v) + Len(old) /\ Len(old) \in Nat
      BY <2>2, <2>4, ConcatProperties, LenProperties
    <3>2. Ahead(vo) = Ahead(v) \cup Ahead(old)
      BY <2>2, <2>4, AheadJoin
    <3>3. 1 \in 1..(Len(v) + Len(old)) /\ 1 <= Len(v)
      BY <2>2, <3>1
    <3>4. vo[1] = v[1]
      BY <2>2, <2>4, <3>3, ConcatProperties
    <3> HIDE DEF vo
    <3>5. vo # <<>>
      BY <2>2, <3>1, EmptySeq
    <3> QED BY <3>1, <3>2, <3>4, <3>5
  <2> HIDE DEF vo
  <2> DEFINE von == vo \o n
  <2>8. von \in Seq(ProperCalls) /\ Ahead(von) = Ahead(vo) \cup Ahead(n)
    BY <2>3, <2>7, AheadJoin, ConcatProperties
  <2>9. Len(vo) \in Nat \ {0} /\ Len(n) \in Nat /\ Len(von) = Len(vo) + Len(n) /\ Len(L) \in Nat
    <3>1. Len(vo) \in Nat \ {0} /\ Len(n) \in Nat /\ Len(L) \in Nat
      BY <2>3, <2>5, <2>7, EmptySeq, LenProperties
    <3>2. Len(von) = Len(vo) + Len(n)
      BY <2>3, <2>7, ConcatProperties
    <3> QED BY <3>1, <3>2
  <2>10. von[1] = vo[1]
    <3>1. 1 \in 1..(Len(vo) + Len(n)) /\ 1 <= Len(vo)
      BY <2>9
    <3> QED BY <2>3, <2>7, <3>1, ConcatProperties
  <2>11. r = von \o L
    BY DEF vo
  <2> HIDE DEF von, r
  <2>12. Ahead(r) = Ahead(von) \cup Ahead(L) /\ r \in Seq(ProperCalls) /\ Len(r) = Len(von) + Len(L)
    <3>1. Ahead(von \o L) = Ahead(von) \cup Ahead(L)
      BY <2>5, <2>8, AheadJoin
    <3>2. von \o L \in Seq(ProperCalls) /\ Len(von \o L) = Len(von) + Len(L)
      BY <2>5, <2>8, ConcatProperties
    <3> QED BY <2>11, <3>1, <3>2, Zenon
  <2>13. r # <<>> /\ Head(r) = Call("view", c, s)
    <3>1. 1 \in 1..(Len(von) + Len(L)) /\ 1 <= Len(von) /\ Len(r) # 0
      BY <2>9, <2>12
    <3>2. r[1] = von[1]
      BY <2>5, <2>8, <2>11, <3>1, ConcatProperties
    <3>3. r # <<>>
      BY <2>12, <3>1, EmptySeq
    <3> QED BY <2>2, <2>7, <2>10, <2>12, <3>2, <3>3, HeadTailProperties
  <2>14. AllIdle /\ Queue(c)' = r
    BY <2>1, StartIs DEF Start
  <2>15. Renegotiates(c)'
    <3>1. viewing'[c] \in {None, s} \/ Negotiate(viewing'[c]) \in Ahead(r)
      BY <2>1, <2>4, <2>7, <2>8, <2>12
    <3>2. Head(r).op = "view" /\ Head(r).session = s
      BY <2>13, CallIs
    <3> QED BY <2>14, <3>1, <3>2 DEF Renegotiates, At, Queue, Ahead
  <2>16. \A k \in Ahead(Queue(c)') : k.op \notin {"record", "push"}
    <3>1. \A x : Negotiate(x).op = "negotiate"
      BY CallIs DEF Negotiate
    <3>2. Call("view", c, s).op = "view"
      BY CallIs
    <3>3. Ahead(r) = Ahead(v) \cup Ahead(old) \cup Ahead(n) \cup Ahead(L)
      BY <2>7, <2>8, <2>12
    <3>4. \A k \in Ahead(v) \cup Ahead(old) \cup Ahead(n) : k.op \in {"view", "negotiate"}
      BY <2>2, <2>3, <2>4, <3>1, <3>2
    <3> QED BY <2>6, <2>14, <3>3, <3>4
  <2> QED BY <1>1, <1>4, <2>1, <2>14, <2>15, <2>16, BeginPays
<1>7. ASSUME Quit(c) PROVE AllFit'
  <2> DEFINE a == Call("stop", c, None)
             b == Call("detach", c, None)
             p == <<a, b>>
  <2>1. Start(Main(c), p) /\ UNCHANGED <<attachVars, rec, pty>>
    BY <1>7 DEF Quit
  <2>2. a.op = "stop" /\ b.op = "detach"
    BY CallIs
  <2> HIDE DEF a, b
  <2>3. Ahead(p) = {a, b}
    BY AheadTwo
  <2>4. Head(p) = a
    OBVIOUS
  <2> HIDE DEF p
  <2>5. AllIdle /\ Queue(c)' = p
    BY <2>1, StartIs DEF Start
  <2>6. Renegotiates(c)'
    BY <2>2, <2>4, <2>5 DEF Renegotiates, At, Queue
  <2>7. \A k \in Ahead(Queue(c)') : k.op \notin {"record", "push"}
    BY <2>2, <2>3, <2>5
  <2> QED BY <1>1, <1>4, <2>1, <2>5, <2>6, <2>7, BeginPays
<1> QED BY <1>3, <1>5, <1>6, <1>7

LEMMA FitStep ==
    ASSUME IsFiniteSet(Clients), TInv, TInv', ViewInv, FitInv, [Next]_vars
    PROVE  FitInv'
<1> SUFFICES ASSUME apart', ~unsettled', Undisturbed' PROVE AllFit'
  BY DEF FitInv
<1> USE DEF attachVars, subVars, uiVars, sessionVars
<1>1. Undisturbed /\ OnlyItself
  BY StepsAre
<1>2. ASSUME NEW c \in Clients, Run(Main(c)) PROVE apart' = apart /\ (unsettled => unsettled') /\ ~Idle(Main(c))
  <2>1. apart' = apart /\ ~Idle(Main(c))
    BY <1>2 DEF Run, StopSub, Show, Stream, Detach, Leave, SetViewing, PaneSize, SetSize, Current,
                Compute, Record, Push, ListViewers, Move, Follow, Compare, FirstRunning, Blank,
           Unmap, CloseHost, Then, At
  <2>2. Detach(Main(c)) => (unsettled => unsettled')
    BY Zenon DEF Detach
  <2>3. ~Detach(Main(c)) => (unsettled' = unsettled)
    BY <1>2 DEF Run, StopSub, Show, Stream, Leave, SetViewing, PaneSize, SetSize, Current,
                Compute, Record, Push, ListViewers, Move, Follow, Compare, FirstRunning, Blank,
           Unmap, CloseHost
  <2>4. ~Detach(Main(c)) => (unsettled => unsettled')
    BY <2>3, Zenon
  <2>5. unsettled => unsettled'
    BY <2>2, <2>4, Zenon
  <2> QED BY <2>1, <2>5, Zenon
<1>3. ASSUME NEW c \in Clients,
             (\E z \in Sizes : Connect(c, z) \/ Layout(c, z)) \/ (\E s \in Sessions : Jump(c, s)) \/ Quit(c)
      PROVE  (apart' => apart) /\ unsettled' = unsettled
  BY <1>3 DEF Connect, Layout, Jump, Quit, Start
<1>4. (\E c \in Clients, s \in Sessions : SetDriver(s, c)) => apart' = apart /\ (unsettled => unsettled')
  BY DEF SetDriver
<1>5. UNCHANGED vars => apart' = apart /\ unsettled' = unsettled
  BY DEF vars
<1>6. AllFit
  BY <1>1, <1>2, <1>3, <1>4, <1>5, StepsAre DEF FitInv
<1>7. ASSUME NEW c \in Clients, Run(Main(c)) PROVE AllFit'
  <2>1. ~Idle(Main(c)) /\ Main(c) \in Threads
    BY <1>2, <1>7, ThreadsDiffer
  <2>2. PaysItsDebts(c) /\ \A t \in Threads : t # Main(c) => Idle(t)
    BY <1>6, <2>1 DEF AllFit
  <2>3. PaysItsDebts(c)'
    BY <1>1, <1>7, <2>2, RunPays
  <2>4. \A t \in Threads : t # Main(c) => todo'[t] = todo[t]
    BY <1>1, <1>7, RunKeepsView DEF Alone
  <2>5. \A t \in Threads : t # Main(c) => Idle(t)'
    BY <2>2, <2>4 DEF Idle
  <2>6. ASSUME Idle(Main(c))', NEW s \in Sessions PROVE ~Owed(c, s)'
    BY <2>6, AheadNone DEF Owed, Debt, At, Idle, Queue, Ahead
  <2>7. AllIdle' => \A s \in Sessions : Viewers(s)' # {} => Settled(s)'
    BY <2>1, <2>3, <2>6 DEF AllIdle, PaysItsDebts
  <2>8. \A d \in Clients : Main(d) \in Threads /\ (Main(d) = Main(c) => d = c)
    BY ThreadsDiffer
  <2> QED BY <2>3, <2>5, <2>7, <2>8 DEF AllFit
<1>8. ASSUME NEW c \in Clients, NEW s \in Sessions, SetDriver(s, c) PROVE AllFit'
  <2>1. UNCHANGED <<status, viewing, csize, ui, rec, pty, todo>> /\ driver' = [driver EXCEPT ![s] = c]
    BY <1>8 DEF SetDriver
  <2>2. Viewers(s) = {} \/ NegotiatedSize(s)' = NegotiatedSize(s)
    BY <1>8 DEF SetDriver
  <2>3. \A x \in Sessions : Viewers(x)' = Viewers(x)
    BY <2>1 DEF Viewers
  <2>4. \A x \in Sessions : x # s => NegotiatedSize(x)' = NegotiatedSize(x)
    BY <2>1, <2>3, NegotiatedSame DEF TInv
  <2> QED BY <1>6, <2>1, <2>2, <2>3, <2>4, PaysSame
<1>9. CASE UNCHANGED vars
  <2>1. UNCHANGED <<status, viewing, csize, driver, ui, rec, pty, todo>>
    BY <1>9 DEF vars
  <2>2. \A x \in Sessions : Viewers(x)' = Viewers(x)
    BY <2>1 DEF Viewers
  <2>3. \A x \in Sessions : NegotiatedSize(x)' = NegotiatedSize(x)
    BY <2>1, <2>2, NegotiatedSame
  <2> QED BY <1>6, <2>1, <2>2, <2>3, PaysSame
<1>10. ASSUME NEW c \in Clients,
              (\E z \in Sizes : Connect(c, z) \/ Layout(c, z)) \/ (\E s \in Sessions : Jump(c, s)) \/ Quit(c)
       PROVE  AllFit'
  BY <1>1, <1>6, <1>10, StartPays
<1> QED BY <1>7, <1>8, <1>9, <1>10, StepsAre

\* Interfaces that come, jump, change their windows and leave one after the other,
\* none before the calls of the last are done, leave every session at the size
\* its viewers negotiate, the record and the remote window alike; only what
\* renegotiates nothing, an interface that leaves others behind or a new driver,
\* is excepted, and the host dropping.
THEOREM SessionsFitIfApart ==
    ASSUME IsFiniteSet(Clients)
    PROVE  Spec => []FitsIfApart
<1> DEFINE Inv == TInv /\ ViewInv /\ FitInv
<1>1. Init => Inv
  BY TypesInit, ViewInit, FitInit
<1>2. Inv /\ [Next]_vars => Inv'
  BY TypesStep, ViewStep, FitStep
<1>3. Inv => FitsIfApart
  BY DEF FitInv, AllFit, FitsIfApart, FitsWhenQuiet, Settled
<1> QED BY <1>1, <1>2, <1>3, PTL DEF Spec
-----------------------------------------------------------------------------
(* One interface alone *)

OneInterface == \A c, d \in Clients : c = d

\* There is nobody to overlap with, and nobody to leave unsettled.
AloneInv == Undisturbed => apart /\ ~unsettled

\* What a session negotiates with a single viewer is the size of that viewer,
\* driver or not.
OneDecides ==
    \A c \in Clients, s \in Sessions : c \in Viewers(s) => NegotiatedSize(s) = csize[c]

LEMMA OneViewerDecides == ASSUME OneInterface PROVE TInv => OneDecides
<1> SUFFICES ASSUME TInv, NEW c \in Clients, NEW s \in Sessions, c \in Viewers(s)
             PROVE  NegotiatedSize(s) = csize[c]
  BY DEF OneDecides
<1>1. Viewers(s) = {c} /\ csize[c] \in Sizes
  BY DEF OneInterface, Viewers, TInv
<1>2. \A x \in Nat : Least({x}) = x
  <2> SUFFICES ASSUME NEW x \in Nat PROVE Least({x}) = x
    OBVIOUS
  <2>1. Least({x}) \in {x}
    BY LeastIsOne
  <2> QED BY <2>1
<1>3. csize[c].rows \in Nat /\ csize[c].cols \in Nat
      /\ csize[c] = [rows |-> csize[c].rows, cols |-> csize[c].cols]
  BY <1>1, ResizeAssumption
<1>4. {csize[d].rows : d \in Viewers(s)} = {csize[c].rows}
      /\ {csize[d].cols : d \in Viewers(s)} = {csize[c].cols}
  BY <1>1
<1>5. Smallest(Viewers(s)) = [rows |-> csize[c].rows, cols |-> csize[c].cols]
  BY <1>2, <1>3, <1>4 DEF Smallest
<1>6. driver[s] \in Viewers(s) => driver[s] = c
  BY <1>1
<1> QED BY <1>3, <1>5, <1>6 DEF NegotiatedSize

LEMMA OneViewerWillDecide == ASSUME OneInterface PROVE TInv' => OneDecides'
BY OneViewerDecides, PTL

\* Nothing of it is lost: there is no other thread to start beside, a viewer that
\* leaves was the last one, and a driver has the size that was negotiated before.
LEMMA AloneInvStep ==
    ASSUME OneInterface, TInv, TInv', ViewInv, AloneInv, [Next]_vars
    PROVE  AloneInv'
<1> SUFFICES ASSUME Undisturbed' PROVE apart' /\ ~unsettled'
  BY DEF AloneInv
<1> USE DEF attachVars, subVars, uiVars, sessionVars
<1>1. Undisturbed /\ OnlyItself /\ apart /\ ~unsettled
  BY StepsAre DEF AloneInv
<1>2. ASSUME NEW c \in Clients, Run(Main(c)) PROVE apart' /\ ~unsettled'
  <2>1. apart' = apart /\ ~Idle(Main(c))
    BY <1>2 DEF Run, StopSub, Show, Stream, Detach, Leave, SetViewing, PaneSize, SetSize, Current,
                Compute, Record, Push, ListViewers, Move, Follow, Compare, FirstRunning, Blank,
           Unmap, CloseHost, Then, At
  <2>2. CASE Detach(Main(c))
    <3>1. status[c] = "on"
      BY <1>1, <2>1 DEF OnlyItself, OnItsWay, Queue, Idle
    <3>2. Head(todo[Main(c)]).client = c
      <4>1. todo[Main(c)] \in Seq(ProperCalls) /\ todo[Main(c)] # <<>>
        BY <2>1, ThreadsDiffer DEF TInv, Idle
      <4>2. Head(todo[Main(c)]) \in ProperCalls /\ Head(todo[Main(c)]).op = "detach"
        BY <2>2, <4>1, HeadTailProperties DEF Detach, At
      <4> QED BY <4>2 DEF ProperCalls, OneInterface
    <3>3. Viewers(viewing[c]) = {c}
      BY <3>1 DEF Viewers, OneInterface
    <3>4. unsettled' = (unsettled \/ Viewers(viewing[c]) # {c})
      BY <2>2, <3>2, Zenon DEF Detach
    <3>5. ~unsettled'
      BY <1>1, <3>3, <3>4, Zenon
    <3> QED BY <1>1, <2>1, <3>5
  <2>3. CASE ~Detach(Main(c))
    <3>1. unsettled' = unsettled
      BY <1>2, <2>3 DEF Run, StopSub, Show, Stream, Leave, SetViewing, PaneSize, SetSize, Current,
                        Compute, Record, Push, ListViewers, Move, Follow, Compare, FirstRunning, Blank,
           Unmap, CloseHost
    <3> QED BY <1>1, <2>1, <3>1, Zenon
  <2> QED BY <2>2, <2>3
<1>3. ASSUME NEW c \in Clients,
             (\E z \in Sizes : Connect(c, z) \/ Layout(c, z)) \/ (\E s \in Sessions : Jump(c, s)) \/ Quit(c)
      PROVE  apart' /\ ~unsettled'
  <2>1. Idle(Main(c))
    BY <1>1, <1>3 DEF Connect, Layout, Jump, Quit, OnlyItself, OnItsWay, Queue, Idle
  <2>2. AllIdle
    BY <1>1, <2>1 DEF AllIdle, Threads, OnlyItself, OneInterface, Idle
  <2>3. unsettled' = unsettled
    BY <1>3 DEF Connect, Layout, Jump, Quit
  <2>4. apart' = apart \/ apart' = (apart /\ AllIdle)
    BY <1>3, Zenon DEF Connect, Layout, Jump, Quit, Start
  <2> QED BY <1>1, <2>2, <2>3, <2>4, Zenon
<1>4. ASSUME NEW c \in Clients, NEW s \in Sessions, SetDriver(s, c) PROVE apart' /\ ~unsettled'
  <2>1. UNCHANGED <<status, viewing, csize, apart>>
    BY <1>4 DEF SetDriver
  <2>2. Viewers(s)' = Viewers(s)
    BY <2>1 DEF Viewers
  <2>3. ASSUME NEW d \in Viewers(s) PROVE NegotiatedSize(s)' = NegotiatedSize(s)
    <3>1. d \in Clients /\ d \in Viewers(s)'
      BY <2>2, <2>3 DEF Viewers
    <3>2. NegotiatedSize(s) = csize[d]
      BY <3>1, OneViewerDecides DEF OneDecides
    <3>3. NegotiatedSize(s)' = csize'[d]
      BY <3>1, OneViewerWillDecide DEF OneDecides
    <3> QED BY <2>1, <3>2, <3>3
  <2>4. unsettled' = (unsettled \/ (Viewers(s) # {} /\ NegotiatedSize(s)' # NegotiatedSize(s)))
    BY <1>4, Zenon DEF SetDriver
  <2>5. ~unsettled'
    BY <1>1, <2>3, <2>4, Zenon
  <2> QED BY <1>1, <2>1, <2>5, Zenon
<1>5. UNCHANGED vars => apart' /\ ~unsettled'
  BY <1>1 DEF vars
<1> QED BY <1>2, <1>3, <1>4, <1>5, StepsAre

\* While one interface is connected and no host drops, every session it looks at is
\* at the size of its pane whenever its calls are done, the record and the remote
\* window alike, whatever it does and whoever is made a driver.
THEOREM AloneAlwaysFits ==
    ASSUME OneInterface
    PROVE  Spec => []FitsWhenQuiet
<1> DEFINE Inv == TInv /\ ViewInv /\ FitInv /\ AloneInv
<1>0. IsFiniteSet(Clients)
  <2>1. CASE Clients = {}
    BY <2>1, FS_EmptySet
  <2>2. ASSUME NEW c \in Clients PROVE IsFiniteSet(Clients)
    <3>1. Clients = {c}
      BY DEF OneInterface
    <3> QED BY <3>1, FS_Singleton
  <2> QED BY <2>1, <2>2
<1>1. Init => Inv
  BY <1>0, TypesInit, ViewInit, FitInit DEF Init, AloneInv
<1>2. Inv /\ [Next]_vars => Inv'
  BY <1>0, TypesStep, ViewStep, FitStep, AloneInvStep
<1>3. Inv => FitsWhenQuiet
  BY DEF FitInv, AloneInv, AllFit, FitsWhenQuiet, Settled
<1> QED BY <1>1, <1>2, <1>3, PTL DEF Spec
=============================================================================
