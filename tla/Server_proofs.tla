----------------------------- MODULE Server_proofs -----------------------------
(* Proofs about SessionManager, Server and ProjectPicker.  Those about the     *)
(* manager alone come first: they hold for any number of identifiers, hosts,   *)
(* roots and closing threads, and use ManagerAssumption only.  Those about the *)
(* server hold for any number of sessions, hosts, roots and interfaces, and    *)
(* rest on the invariant of the manager, which the server drives.  Those about *)
(* the picker (Server.Projects) hold for any number of hosts and any finite    *)
(* tree of directories.                                                        *)
EXTENDS Server, ProjectPicker, SequenceTheorems, FiniteSetTheorems,
        WellFoundedInduction, TLAPS

-----------------------------------------------------------------------------
(* The manager *)

\* Every state the manager reaches is of the declared types.
LEMMA TypeInit == Init => TypeOK
BY ManagerAssumption DEF Init, TypeOK, States, Causes, PumpSteps

\* Every step of the manager keeps the types.
LEMMA TypeStep == TypeOK /\ [Next]_vars => TypeOK'
<1> SUFFICES ASSUME TypeOK, [Next]_vars PROVE TypeOK'
  OBVIOUS
<1> USE DEF TypeOK, States, Causes, PumpSteps, pumpVars, closerVars
<1>1. ASSUME NEW id \in Ids, NEW k \in Keys, DialStart(id, k) PROVE TypeOK'
  BY <1>1 DEF DialStart
<1>2. ASSUME NEW id \in Ids, DialFail(id) PROVE TypeOK'
  BY <1>2 DEF DialFail
<1>3. ASSUME NEW id \in Ids, Register(id) PROVE TypeOK'
  BY <1>3 DEF Register
<1>4. ASSUME NEW id \in Ids, PumpNext(id) PROVE TypeOK'
  <2>1. CASE PumpWake(id)
    BY <2>1 DEF PumpWake
  <2>2. CASE PumpFinalize(id)
    BY <2>2 DEF PumpFinalize
  <2>3. CASE PumpNotify(id)
    BY <2>3 DEF PumpNotify
  <2>4. CASE PumpRemove(id)
    BY <2>4 DEF PumpRemove
  <2>5. CASE HookReturn(id)
    BY <2>5 DEF HookReturn
  <2> QED BY <1>4, <2>1, <2>2, <2>3, <2>4, <2>5 DEF PumpNext
<1>5. ASSUME NEW id \in Ids, NEW cause \in {"exit", "lost"}, PTYEnds(id, cause) PROVE TypeOK'
  BY <1>5 DEF PTYEnds
<1>6. ASSUME NEW t \in Closers, NEW id \in Ids, Mark(t, id) PROVE TypeOK'
  BY <1>6 DEF Mark
<1>7. ASSUME NEW t \in Closers, Drop(t) PROVE TypeOK'
  BY <1>7 DEF Drop
<1>8. ASSUME NEW t \in Closers, NEW id \in Ids, CloseLookup(t, id) PROVE TypeOK'
  BY <1>8 DEF CloseLookup
<1>9. ASSUME NEW t \in Closers, NEW h \in Hosts, CloseHostCollect(t, h) PROVE TypeOK'
  BY <1>9 DEF CloseHostCollect, OnHost
<1>10. CASE UNCHANGED vars
  BY <1>10 DEF vars
<1> QED
  BY <1>1, <1>2, <1>3, <1>4, <1>5, <1>6, <1>7, <1>8, <1>9, <1>10 DEF Next, CloserNext

\* The types of the manager's state hold in every reachable state, for any
\* number of identifiers, hosts, roots and closing threads.
THEOREM TypeCorrect == Spec => []TypeOK
BY TypeInit, TypeStep, PTL DEF Spec

-----------------------------------------------------------------------------
\* The inductive invariant holds initially ...
LEMMA InvInit == Init => IInv
BY ManagerAssumption, TypeInit
   DEF Init, IInv, RegisteredIsOwned, PumpFollowsCreate, FindIsSound, FlagBeforeClose,
       FlagReadAfterEnd, HookIsUnasked, Owning, Keys

\* ... and every step of every goroutine preserves it.
LEMMA InvStep == IInv /\ [Next]_vars => IInv'
<1> SUFFICES ASSUME IInv, [Next]_vars PROVE IInv'
  OBVIOUS
<1>0. TypeOK'
  BY TypeStep DEF IInv
<1> USE DEF IInv, TypeOK, RegisteredIsOwned, PumpFollowsCreate, FindIsSound,
            FlagBeforeClose, FlagReadAfterEnd, HookIsUnasked, Owning, pumpVars, closerVars
<1>1. ASSUME NEW id \in Ids, NEW k \in Keys, DialStart(id, k) PROVE IInv'
  BY <1>0, <1>1, ManagerAssumption DEF DialStart
<1>2. ASSUME NEW id \in Ids, DialFail(id) PROVE IInv'
  BY <1>0, <1>2 DEF DialFail
<1>3. ASSUME NEW id \in Ids, Register(id) PROVE IInv'
  <2>1. key[id] \in Keys
    BY <1>3 DEF Register
  <2>2. FindIsSound'
    BY <1>0, <1>3, <2>1 DEF Register
  <2> QED BY <1>0, <1>3, <2>1, <2>2 DEF Register
<1>4. ASSUME NEW id \in Ids, PumpNext(id) PROVE IInv'
  <2>1. CASE PumpWake(id)
    BY <1>0, <2>1 DEF PumpWake
  <2>2. CASE PumpFinalize(id)
    BY <1>0, <2>2 DEF PumpFinalize
  <2>3. CASE PumpNotify(id)
    BY <1>0, <2>3 DEF PumpNotify
  <2>4. CASE PumpRemove(id)
    <3>1. key[id] \in Keys
      BY <2>4 DEF PumpRemove
    <3>2. FindIsSound'
      BY <1>0, <2>4, <3>1 DEF PumpRemove
    <3> QED BY <1>0, <2>4, <3>1, <3>2 DEF PumpRemove
  <2>5. CASE HookReturn(id)
    BY <1>0, <2>5 DEF HookReturn
  <2> QED BY <1>4, <2>1, <2>2, <2>3, <2>4, <2>5 DEF PumpNext
<1>5. ASSUME NEW id \in Ids, NEW cause \in {"exit", "lost"}, PTYEnds(id, cause) PROVE IInv'
  BY <1>0, <1>5 DEF PTYEnds
<1>6. ASSUME NEW t \in Closers, NEW id \in Ids, Mark(t, id) PROVE IInv'
  BY <1>0, <1>6 DEF Mark
<1>7. ASSUME NEW t \in Closers, Drop(t) PROVE IInv'
  BY <1>0, <1>7, ManagerAssumption DEF Drop
<1>8. ASSUME NEW t \in Closers, NEW id \in Ids, CloseLookup(t, id) PROVE IInv'
  BY <1>0, <1>8 DEF CloseLookup
<1>9. ASSUME NEW t \in Closers, NEW h \in Hosts, CloseHostCollect(t, h) PROVE IInv'
  BY <1>0, <1>9 DEF CloseHostCollect
<1>10. CASE UNCHANGED vars
  BY <1>0, <1>10 DEF vars
<1> QED
  BY <1>1, <1>2, <1>3, <1>4, <1>5, <1>6, <1>7, <1>8, <1>9, <1>10 DEF Next, CloserNext

\* The inductive invariant holds in every reachable state.
THEOREM Invariance == Spec => []IInv
BY InvInit, InvStep, PTL DEF Spec

\* Find never returns a dangling identifier nor one of another key, whatever the
\* interleaving of creations of the same key and of the pumps that remove them.
THEOREM FindSoundAlways == Spec => []FindIsSound
<1>1. IInv => FindIsSound
  BY DEF IInv
<1> QED BY <1>1, Invariance, PTL

\* The host-down cascade never starts itself again: a session that Close or
\* CloseHost ended does not call the hook.
THEOREM CascadeNeverFeedsItself == Spec => []AskedNeverReportsHostDown
<1>1. IInv => AskedNeverReportsHostDown
  BY DEF IInv, FlagReadAfterEnd, HookIsUnasked, AskedNeverReportsHostDown
<1> QED BY <1>1, Invariance, PTL

-----------------------------------------------------------------------------
(* What closing a session comes to *)

\* A thread that has looked a session up has it still to mark, or has marked it and
\* still to close its PTY, or the PTY has ended.
OnItsWay(t, id) == id \in closing[t] \/ marked[t] = id \/ ended[id] # "no"

\* A target stays on its way, whatever the other threads and its own pump do.
LEMMA StaysOnItsWay ==
    ASSUME IInv, [Next]_vars, NEW t \in Closers, NEW id \in Ids, OnItsWay(t, id)
    PROVE  OnItsWay(t, id)'
<1> USE DEF IInv, TypeOK, OnItsWay, closerVars
<1>1. ASSUME NEW u \in Closers, NEW i \in Ids, Mark(u, i) PROVE OnItsWay(t, id)'
  BY <1>1, ManagerAssumption DEF Mark
<1>2. ASSUME NEW u \in Closers, Drop(u) PROVE OnItsWay(t, id)'
  BY <1>2, ManagerAssumption DEF Drop
<1>3. ASSUME NEW u \in Closers, NEW i \in Ids, CloseLookup(u, i) PROVE OnItsWay(t, id)'
  BY <1>3, ManagerAssumption DEF CloseLookup, Free
<1>4. ASSUME NEW u \in Closers, NEW h \in Hosts, CloseHostCollect(u, h) PROVE OnItsWay(t, id)'
  BY <1>4, ManagerAssumption DEF CloseHostCollect, Free
<1>5. ASSUME NEW i \in Ids, NEW cause \in {"exit", "lost"}, PTYEnds(i, cause)
      PROVE  OnItsWay(t, id)'
  BY <1>5 DEF PTYEnds
<1>6. CASE UNCHANGED <<closing, marked, ended>>
  BY <1>6
<1>7. CASE UNCHANGED vars
  BY <1>7 DEF vars
<1>8. ASSUME NEW i \in Ids, PumpNext(i) PROVE OnItsWay(t, id)'
  BY <1>6, <1>8 DEF PumpNext, PumpWake, PumpFinalize, PumpNotify, PumpRemove, HookReturn
<1>9. ASSUME NEW i \in Ids, NEW k \in Keys, DialStart(i, k) PROVE OnItsWay(t, id)'
  BY <1>6, <1>9 DEF DialStart
<1>10. ASSUME NEW i \in Ids, DialFail(i) \/ Register(i) PROVE OnItsWay(t, id)'
  BY <1>6, <1>10 DEF DialFail, Register
<1> QED BY <1>1, <1>2, <1>3, <1>4, <1>5, <1>7, <1>8, <1>9, <1>10 DEF Next, CloserNext

\* Close and CloseHost forget none of their targets: of a session that one of
\* their threads has looked up, the PTY ends before the thread is free again.
THEOREM TargetsAreNotForgotten ==
    Spec => [][\A t \in Closers, id \in Ids : OnItsWay(t, id) => OnItsWay(t, id)']_vars
<1> DEFINE A == \A t \in Closers, id \in Ids : OnItsWay(t, id) => OnItsWay(t, id)'
<1>1. IInv /\ [Next]_vars => A
  BY StaysOnItsWay
<1> QED BY <1>1, Invariance, PTL DEF Spec

\* What is over is over for good: why a PTY ended is settled by the first to end
\* it, and a session that its pump has closed and removed never runs again, is
\* never registered again and never changes its key.
THEOREM ClosedForGood ==
    Spec => [][\A id \in Ids :
                /\ ended[id] # "no" => ended'[id] = ended[id]
                /\ state[id] = "closed" => state'[id] = "closed" /\ key'[id] = key[id]
                /\ state[id] = "closed" /\ id \notin sessions => id \notin sessions']_vars
<1> DEFINE A(id) == /\ ended[id] # "no" => ended'[id] = ended[id]
                    /\ state[id] = "closed" => state'[id] = "closed" /\ key'[id] = key[id]
                    /\ state[id] = "closed" /\ id \notin sessions => id \notin sessions'
<1>1. ASSUME IInv, [Next]_vars, NEW id \in Ids PROVE A(id)
  <2> USE DEF IInv, TypeOK
  <2>1. ASSUME NEW i \in Ids, NEW k \in Keys, DialStart(i, k) PROVE A(id)
    BY <1>1, <2>1 DEF DialStart
  <2>2. ASSUME NEW i \in Ids, DialFail(i) \/ Register(i) PROVE A(id)
    BY <1>1, <2>2 DEF DialFail, Register
  <2>3. ASSUME NEW i \in Ids, PumpNext(i) PROVE A(id)
    BY <1>1, <2>3 DEF PumpNext, PumpWake, PumpFinalize, PumpNotify, PumpRemove, HookReturn
  <2>4. ASSUME NEW i \in Ids, NEW cause \in {"exit", "lost"}, PTYEnds(i, cause) PROVE A(id)
    BY <1>1, <2>4 DEF PTYEnds
  <2>5. ASSUME NEW t \in Closers, CloserNext(t) PROVE A(id)
    BY <1>1, <2>5, ManagerAssumption DEF CloserNext, Mark, Drop
  <2>6. CASE \/ \E t \in Closers, i \in Ids : CloseLookup(t, i)
             \/ \E t \in Closers, h \in Hosts : CloseHostCollect(t, h)
             \/ UNCHANGED vars
    BY <2>6 DEF CloseLookup, CloseHostCollect, vars
  <2> QED BY <1>1, <2>1, <2>2, <2>3, <2>4, <2>5, <2>6 DEF Next
<1>2. IInv /\ [Next]_vars => \A id \in Ids : A(id)
  BY <1>1
<1> QED BY <1>2, Invariance, PTL DEF Spec

-----------------------------------------------------------------------------
(* The server: what holds of it in every state *)

\* An interface that is opening or jumping knows for which session.
OpKnown == \A c \in Clients : op[c].pc # "idle" => op[c].id \in Ids

\* What holds whatever the interfaces and the cascades do.
SInv == IInv /\ ServerTypeOK /\ OpKnown

\* Until the server stops, what is being closed is being closed by a cascade: by
\* the hook of a session of the same host that is not one of them.
ClosedByCascade ==
    \A t \in Closers, id \in Ids :
        id \in closing[t] \/ marked[t] = id =>
            /\ t \in Ids /\ t # id
            /\ pump[t] = "hook" /\ cascade[t].pc = "status"
            /\ OnSameHost(id, t)

\* A flag that is set has its cause: a PTY of the same host that nobody closed.
FlagHasCause ==
    \A id \in Ids : intentional[id] =>
        \E j \in Ids : j # id /\ OnSameHost(id, j) /\ ended[j] \in {"lost", "exit"}

CascadeInv == phase \in {"load", "serving"} => ClosedByCascade /\ FlagHasCause

\* One interface: the key of a session leads to it, and the key of a dial to none.
KeyLeadsToSession == \A i \in sessions : byKey[key[i]] = i
DialIsFirst ==
    \A c \in Clients : op[c].pc = "dial" => \A i \in sessions : key[i] # key[op[c].id]

AloneInv == KeyLeadsToSession /\ DialIsFirst

-----------------------------------------------------------------------------
(* Types, and the invariant of the manager *)

\* A set of numbers has a least element.
LEMMA LeastOf ==
    ASSUME NEW S, S \subseteq Nat, S # {}
    PROVE  \E m \in S : \A j \in S : m <= j
<1> DEFINE L == {ss \in Nat \X Nat : ss[1] < ss[2]}
<1>1. IsWellFoundedOn(L, Nat)
  BY NatLessThanWellFounded DEF OpToRel
<1>2. PICK m \in S : \A j \in S : <<j, m>> \notin L
  <2> HIDE DEF L
  <2> QED BY <1>1, WFMin
<1>3. ASSUME NEW j \in S PROVE m <= j
  <2>1. j \in Nat /\ m \in Nat /\ <<j, m>> \notin L
    BY <1>2
  <2>2. ~ (j < m)
    BY <2>1
  <2> QED BY <2>1, <2>2
<1> QED BY <1>3

\* anyOpenSession answers with an open session, if there is one.
LEMMA OldestIsOne ==
    ASSUME NEW S, S \subseteq Nat, S # {}
    PROVE  Oldest(S) \in S /\ \A j \in S : Oldest(S) <= j
<1>1. \E m \in S : \A j \in S : m <= j
  BY LeastOf
<1> QED BY <1>1 DEF Oldest

\* The invariants hold when the process starts.
LEMMA ServerInitOK == ServerInit => SInv /\ CascadeInv /\ AloneInv
<1> SUFFICES ASSUME ServerInit PROVE SInv /\ CascadeInv /\ AloneInv
  OBVIOUS
<1>1. IInv
  BY InvInit DEF ServerInit
<1>2. ServerTypeOK
  BY <1>1 DEF ServerInit, ServerTypeOK, IInv, Statuses, OpSteps, CascadeSteps, Resting, NoCascade
<1>3. OpKnown /\ AloneInv
  BY DEF ServerInit, Init, OpKnown, AloneInv, KeyLeadsToSession, DialIsFirst, Resting
<1>4. CascadeInv
  BY ServerAssumption, ManagerAssumption
     DEF ServerInit, Init, CascadeInv, ClosedByCascade, FlagHasCause
<1> QED BY <1>1, <1>2, <1>3, <1>4 DEF SInv

\* Whatever a thread of the server does to the manager is a step of the manager.
LEMMA ManagerRuns == SInv /\ [ServerNext]_svars => [Next]_vars
<1> SUFFICES ASSUME SInv, ServerNext PROVE [Next]_vars
  BY DEF svars, managerVars, vars
<1> USE DEF SInv, ServerTypeOK
<1>1. CASE ManagerStep
  BY <1>1 DEF ManagerStep, Next, PumpNext
<1>2. ASSUME NEW id \in Ids, CascadeNext(id) PROVE [Next]_vars
  <2>1. CASE CascadeStart(id)
    <3>1. key[id].host \in Hosts
      BY <2>1 DEF CascadeStart, IInv, PumpFollowsCreate, Keys
    <3> QED BY <2>1, <3>1, ServerAssumption DEF CascadeStart, Next
  <2>2. CASE CascadeReturns(id)
    BY <2>2 DEF CascadeReturns, Next, PumpNext
  <2>3. CASE UNCHANGED managerVars
    BY <2>3 DEF managerVars, vars
  <2> QED
    BY <1>2, <2>1, <2>2, <2>3
       DEF CascadeNext, CascadeMarksDown, CascadeLists, CascadePicks, CascadeMoves, CascadeResizes
<1>3. ASSUME NEW c \in Clients, ClientNext(c) PROVE [Next]_vars
  <2>1. ASSUME NEW k \in Keys, NEW id \in Ids, OpenNew(c, k, id) PROVE [Next]_vars
    BY <2>1 DEF OpenNew, Next
  <2>2. CASE OpenFails(c)
    BY <2>2 DEF OpenFails, OpKnown, Next
  <2>3. CASE OpenSucceeds(c)
    BY <2>3 DEF OpenSucceeds, OpKnown, Next
  <2>4. CASE UNCHANGED managerVars
    BY <2>4 DEF managerVars, vars
  <2> QED
    BY <1>3, <2>1, <2>2, <2>3, <2>4
       DEF ClientNext, OpenExisting, JumpStart, OpenMarksUp, JumpChecks, JumpViews
<1>4. CASE RunNext
  <2>1. ASSUME NEW id \in Ids, StopCloses(id) PROVE [Next]_vars
    BY <2>1, ServerAssumption DEF StopCloses, Next, managerVars, vars
  <2>2. CASE UNCHANGED managerVars
    BY <2>2 DEF managerVars, vars
  <2> QED BY <1>4, <2>1, <2>2 DEF RunNext, Serve, Stop, Return, ServeFails, LoadHost
<1>5. CASE Rest
  BY <1>5 DEF Rest, svars, managerVars, vars
<1> QED BY <1>1, <1>2, <1>3, <1>4, <1>5 DEF ServerNext

\* What a thread is doing, and what a hook remembers.
OpRecords == [pc : OpSteps, id : Ids \cup {NoId}]
CascadeRecords == [pc : CascadeSteps, closed : SUBSET Ids, left : SUBSET Clients,
                   target : Ids \cup {NoId}]
Phases == {"load", "serving", "stopping", "stopped"}

LEMMA ServerTypeParts ==
    ServerTypeOK <=> /\ TypeOK
                     /\ status \in [Hosts -> Statuses]
                     /\ viewing \in [Clients -> Ids \cup {NoId}]
                     /\ op \in [Clients -> OpRecords]
                     /\ cascade \in [Ids -> CascadeRecords]
                     /\ phase \in Phases
                     /\ todo \subseteq Hosts /\ listed \subseteq Ids
BY DEF ServerTypeOK, OpRecords, CascadeRecords, Phases

\* What the hook's steps do to its record.
LEMMA RecordKept ==
    ASSUME NEW r \in CascadeRecords, NEW p \in CascadeSteps, NEW S \in SUBSET Ids,
           NEW L \in SUBSET Clients, NEW t \in Ids \cup {NoId}
    PROVE  /\ [r EXCEPT !.pc = p] \in CascadeRecords
           /\ [r EXCEPT !.pc = p, !.closed = S] \in CascadeRecords
           /\ [r EXCEPT !.pc = p, !.left = L] \in CascadeRecords
           /\ [r EXCEPT !.left = L] \in CascadeRecords
           /\ [r EXCEPT !.target = t] \in CascadeRecords
           /\ [r EXCEPT !.pc = p, !.target = t] \in CascadeRecords
BY DEF CascadeRecords

LEMMA CascadeTypes ==
    ASSUME SInv, NEW id \in Ids, CascadeNext(id)
    PROVE  /\ cascade' \in [Ids -> CascadeRecords]
           /\ viewing' \in [Clients -> Ids \cup {NoId}]
           /\ status' \in [Hosts -> Statuses]
           /\ UNCHANGED <<op, runVars>>
<1> DEFINE CT == cascade' \in [Ids -> CascadeRecords]
           Q == /\ viewing' \in [Clients -> Ids \cup {NoId}] /\ status' \in [Hosts -> Statuses]
                /\ UNCHANGED <<op, runVars>>
<1>1. /\ TypeOK /\ status \in [Hosts -> Statuses]
      /\ viewing \in [Clients -> Ids \cup {NoId}] /\ cascade \in [Ids -> CascadeRecords]
  BY ServerTypeParts DEF SInv
<1>2. /\ {"idle", "status", "list", "move", "resize"} \subseteq CascadeSteps /\ {} \in SUBSET Clients
      /\ NoId \in Ids \cup {NoId}
  BY DEF CascadeSteps
<1>3. cascade[id].left \in SUBSET Clients /\ cascade[id].target \in Ids \cup {NoId}
  BY <1>1 DEF CascadeRecords
<1>4. CASE CascadeStart(id)
  <2>1. OnHost(key[id].host) \in SUBSET Ids
    BY <1>1 DEF TypeOK, OnHost
  <2>2. CT
    BY <1>1, <1>2, <1>4, <2>1, RecordKept DEF CascadeStart
  <2> QED BY <1>1, <1>4, <2>2 DEF CascadeStart
<1>5. CASE CascadeMarksDown(id)
  <2>1. CT
    BY <1>1, <1>2, <1>5, RecordKept DEF CascadeMarksDown
  <2> QED BY <1>1, <1>5, <2>1 DEF CascadeMarksDown, Statuses
<1>6. CASE CascadeLists(id)
  <2>1. {c \in Clients : viewing[c] \in cascade[id].closed} \in SUBSET Clients
    OBVIOUS
  <2>2. CT
    BY <1>1, <1>2, <1>6, <2>1, RecordKept DEF CascadeLists
  <2> QED BY <1>1, <1>6, <2>2 DEF CascadeLists
<1>7. CASE CascadePicks(id)
  <2>1. AnyOpen # {} => Oldest(AnyOpen) \in Ids
    BY <1>1, OldestIsOne, ServerAssumption DEF TypeOK, AnyOpen
  <2>2. PICK c \in cascade[id].left :
            cascade' = IF AnyOpen = {}
                       THEN [cascade EXCEPT ![id].left = @ \ {c}]
                       ELSE [cascade EXCEPT ![id].target = Oldest(AnyOpen)]
    BY <1>7 DEF CascadePicks
  <2>3. CT
    <3>1. cascade[id].left \ {c} \in SUBSET Clients
      BY <1>3
    <3>2. CASE AnyOpen = {}
      BY <1>1, <1>2, <2>2, <3>1, <3>2, RecordKept
    <3>3. CASE AnyOpen # {}
      BY <1>1, <1>2, <2>1, <2>2, <3>3, RecordKept
    <3> QED BY <3>2, <3>3
  <2> QED BY <1>1, <1>7, <2>3 DEF CascadePicks
<1>8. CASE CascadeReturns(id)
  <2>1. NoCascade \in CascadeRecords
    BY DEF NoCascade, CascadeRecords, CascadeSteps
  <2> QED BY <1>1, <1>8, <2>1 DEF CascadeReturns
<1>9. ASSUME NEW c \in Clients, CascadeMoves(id, c) PROVE Q /\ CT
  <2>1. cascade[id].left \ {c} \in SUBSET Clients
    BY <1>3
  <2>2. CT
    BY <1>1, <1>2, <1>9, <2>1, RecordKept DEF CascadeMoves
  <2>3. Q
    BY <1>1, <1>3, <1>9 DEF CascadeMoves
  <2> QED BY <2>2, <2>3
<1>10. CASE CascadeResizes(id)
  <2>1. CT
    BY <1>1, <1>2, <1>10, RecordKept DEF CascadeResizes
  <2> QED BY <1>1, <1>10, <2>1 DEF CascadeResizes
<1> QED BY <1>4, <1>5, <1>6, <1>7, <1>8, <1>9, <1>10 DEF CascadeNext

\* An interface's own steps keep what it remembers, and know the session.
LEMMA ClientTypes ==
    ASSUME SInv, NEW c \in Clients, ClientNext(c)
    PROVE  /\ op' \in [Clients -> OpRecords] /\ OpKnown'
           /\ viewing' \in [Clients -> Ids \cup {NoId}]
           /\ status' \in [Hosts -> Statuses]
           /\ UNCHANGED <<cascade, runVars>>
<1> DEFINE Q == /\ op' \in [Clients -> OpRecords] /\ OpKnown'
                /\ viewing' \in [Clients -> Ids \cup {NoId}] /\ status' \in [Hosts -> Statuses]
                /\ UNCHANGED <<cascade, runVars>>
<1>1. /\ TypeOK /\ status \in [Hosts -> Statuses]
      /\ viewing \in [Clients -> Ids \cup {NoId}] /\ op \in [Clients -> OpRecords] /\ OpKnown
  BY ServerTypeParts DEF SInv
<1>2. Resting \in OpRecords
  BY DEF Resting, OpRecords, OpSteps
<1>3. ASSUME NEW k \in Keys, OpenExisting(c, k) PROVE Q
  <2>1. byKey[k] \in Ids
    BY <1>1, <1>3 DEF OpenExisting, TypeOK
  <2> QED BY <1>1, <1>3, <2>1 DEF OpenExisting, OpKnown, OpRecords, OpSteps
<1>4. ASSUME NEW k \in Keys, NEW id \in Ids, OpenNew(c, k, id) PROVE Q
  BY <1>1, <1>4 DEF OpenNew, OpKnown, OpRecords, OpSteps
<1>5. ASSUME NEW id \in Ids, JumpStart(c, id) PROVE Q
  BY <1>1, <1>5 DEF JumpStart, OpKnown, OpRecords, OpSteps
<1>6. CASE OpenFails(c)
  BY <1>1, <1>2, <1>6 DEF OpenFails, OpKnown, Resting
<1>7. CASE OpenSucceeds(c)
  BY <1>1, <1>7 DEF OpenSucceeds, OpKnown, OpRecords, OpSteps
<1>8. CASE OpenMarksUp(c)
  BY <1>1, <1>8 DEF OpenMarksUp, OpKnown, OpRecords, OpSteps, Statuses
<1>9. CASE JumpChecks(c)
  BY <1>1, <1>2, <1>9 DEF JumpChecks, OpKnown, OpRecords, OpSteps, Resting
<1>10. CASE JumpViews(c)
  <2>1. op[c].id \in Ids \cup {NoId}
    BY <1>1 DEF OpRecords
  <2> QED BY <1>1, <1>2, <1>10, <2>1 DEF JumpViews, OpKnown, Resting
<1> QED BY <1>3, <1>4, <1>5, <1>6, <1>7, <1>8, <1>9, <1>10 DEF ClientNext

\* Every step of the server keeps the types.
LEMMA ServerStep == SInv /\ [ServerNext]_svars => SInv'
<1> SUFFICES ASSUME SInv, [ServerNext]_svars PROVE SInv'
  OBVIOUS
<1>1. IInv'
  BY ManagerRuns, InvStep DEF SInv
<1>2. TypeOK'
  BY <1>1 DEF IInv
<1>3. /\ TypeOK /\ status \in [Hosts -> Statuses]
      /\ viewing \in [Clients -> Ids \cup {NoId}] /\ op \in [Clients -> OpRecords]
      /\ cascade \in [Ids -> CascadeRecords] /\ phase \in Phases
      /\ todo \subseteq Hosts /\ listed \subseteq Ids /\ OpKnown
  BY ServerTypeParts DEF SInv
<1> DEFINE Good == /\ status' \in [Hosts -> Statuses]
                   /\ viewing' \in [Clients -> Ids \cup {NoId}] /\ op' \in [Clients -> OpRecords]
                   /\ cascade' \in [Ids -> CascadeRecords] /\ phase' \in Phases
                   /\ todo' \subseteq Hosts /\ listed' \subseteq Ids /\ OpKnown'
<1>4. ASSUME ManagerStep PROVE Good
  BY <1>3, <1>4 DEF ManagerStep, runVars, OpKnown
<1>5. ASSUME NEW id \in Ids, CascadeNext(id) PROVE Good
  BY <1>3, <1>5, CascadeTypes DEF runVars, OpKnown
<1>6. ASSUME NEW c \in Clients, ClientNext(c) PROVE Good
  BY <1>3, <1>6, ClientTypes DEF runVars
<1>7. ASSUME RunNext PROVE Good
  <2>1. UNCHANGED <<viewing, op, cascade>>
    BY <1>7 DEF RunNext, Serve, Stop, Return, ServeFails, LoadHost, StopCloses
  <2>2. phase' \in Phases /\ status' \in [Hosts -> Statuses]
    BY <1>3, <1>7 DEF RunNext, Serve, Stop, Return, ServeFails, LoadHost, StopCloses, Phases, Statuses
  <2>3. todo' \subseteq Hosts /\ listed' \subseteq Ids
    BY <1>3, <1>7 DEF RunNext, Serve, Stop, Return, ServeFails, LoadHost, StopCloses, TypeOK
  <2> QED BY <1>3, <2>1, <2>2, <2>3 DEF OpKnown
<1>8. ASSUME UNCHANGED svars PROVE Good
  BY <1>3, <1>8 DEF svars, runVars, OpKnown
<1>9. Good
  BY <1>4, <1>5, <1>6, <1>7, <1>8 DEF ServerNext, Rest
<1>10. ServerTypeOK'
  BY <1>2, <1>9 DEF ServerTypeOK, OpRecords, CascadeRecords, Phases
<1> QED BY <1>1, <1>9, <1>10 DEF SInv

LEMMA ServerInvariance == ServerSpec => []SInv
<1>1. ServerInit => SInv
  BY ServerInitOK
<1> QED BY <1>1, ServerStep, PTL DEF ServerSpec

\* Every variable of the server has its type, whatever clients, pumps and Run do
\* to each other.
THEOREM ServerTypes == ServerSpec => []ServerTypeOK
<1>1. SInv => ServerTypeOK
  BY DEF SInv
<1> QED BY <1>1, ServerInvariance, PTL

\* The server uses the manager only in the ways the manager was verified for: its
\* threads are the manager's callers, its Create the manager's.
THEOREM ServerImplementsManager == ServerSpec => Init /\ [][Next]_vars
<1>1. ServerInit => Init
  BY DEF ServerInit
<1> QED BY <1>1, ServerInvariance, ManagerRuns, PTL DEF ServerSpec

\* What the server's threads rely on from the manager holds in the server.
THEOREM ServerFindSound == ServerSpec => [](FindIsSound /\ AskedNeverReportsHostDown)
<1>1. SInv => FindIsSound /\ AskedNeverReportsHostDown
  BY DEF SInv, IInv, FlagReadAfterEnd, HookIsUnasked, AskedNeverReportsHostDown
<1> QED BY <1>1, ServerInvariance, PTL

-----------------------------------------------------------------------------
(* The reach of a cascade *)

\* A session that has a pump keeps its host, and a PTY that has ended its cause.
LEMMA ManagerKeeps ==
    ASSUME IInv, [Next]_vars, NEW id \in Ids
    PROVE  /\ pump[id] # "none" => pump'[id] # "none" /\ key'[id] = key[id]
           /\ ended[id] # "no" => ended'[id] = ended[id]
<1> USE DEF IInv, TypeOK, PumpFollowsCreate, pumpVars, closerVars
<1>1. ASSUME NEW i \in Ids, NEW k \in Keys, DialStart(i, k) PROVE UNCHANGED <<pump, ended>> /\ (pump[id] # "none" => key'[id] = key[id])
  BY <1>1 DEF DialStart
<1>2. ASSUME NEW i \in Ids, Register(i) PROVE UNCHANGED <<key, ended>> /\ pump' = [pump EXCEPT ![i] = "wait"]
  BY <1>2 DEF Register
<1>3. ASSUME NEW i \in Ids, PumpNext(i)
      PROVE  UNCHANGED <<key, ended>> /\ \E x \in PumpSteps \ {"none"} : pump' = [pump EXCEPT ![i] = x]
  BY <1>3 DEF PumpNext, PumpWake, PumpFinalize, PumpNotify, PumpRemove, HookReturn, PumpSteps
<1>4. ASSUME NEW i \in Ids, NEW cause \in {"exit", "lost"}, PTYEnds(i, cause)
      PROVE  UNCHANGED <<key, pump>> /\ (ended[id] # "no" => ended'[id] = ended[id])
  BY <1>4 DEF PTYEnds
<1>5. ASSUME NEW t \in Closers, CloserNext(t)
      PROVE  UNCHANGED <<key, pump>> /\ (ended[id] # "no" => ended'[id] = ended[id])
  BY <1>5, ManagerAssumption DEF CloserNext, Mark, Drop
<1>6. CASE \/ \E i \in Ids : DialFail(i)
           \/ \E t \in Closers, i \in Ids : CloseLookup(t, i)
           \/ \E t \in Closers, h \in Hosts : CloseHostCollect(t, h)
           \/ UNCHANGED vars
  BY <1>6 DEF DialFail, CloseLookup, CloseHostCollect, vars
<1> QED BY <1>1, <1>2, <1>3, <1>4, <1>5, <1>6 DEF Next

\* A hook that is running was not asked for: its own PTY has ended by itself.
LEMMA HookIsCause ==
    ASSUME IInv, NEW id \in Ids, pump[id] = "hook"
    PROVE  ended[id] \in {"lost", "exit"} /\ id \notin sessions
BY DEF IInv, TypeOK, Causes, FlagReadAfterEnd, HookIsUnasked, RegisteredIsOwned, Owning

LEMMA CascadeStep == SInv /\ CascadeInv /\ [ServerNext]_svars => CascadeInv'
<1> SUFFICES ASSUME SInv, CascadeInv, [ServerNext]_svars, phase' \in {"load", "serving"}
             PROVE  ClosedByCascade' /\ FlagHasCause'
  BY DEF CascadeInv
<1>1. [Next]_vars /\ IInv /\ TypeOK /\ IInv' /\ TypeOK'
  BY ManagerRuns, InvStep DEF SInv, IInv
<1>2. phase \in {"load", "serving"}
  BY DEF ServerNext, Rest, ManagerStep, CascadeNext, CascadeStart, CascadeMarksDown, CascadeLists,
         CascadePicks, CascadeReturns, CascadeMoves, CascadeResizes, ClientNext, OpenExisting, OpenNew, JumpStart,
         OpenFails, OpenSucceeds, OpenMarksUp, JumpChecks, JumpViews, RunNext, Serve, Stop,
         Return, ServeFails, LoadHost, StopCloses, svars, runVars
<1>3. ClosedByCascade /\ FlagHasCause
  BY <1>2 DEF CascadeInv
<1>4. ASSUME NEW i \in Ids, NEW j \in Ids, OnSameHost(i, j) PROVE OnSameHost(i, j)'
  BY <1>1, <1>4, ManagerKeeps DEF OnSameHost
<1>5. cascade \in [Ids -> CascadeRecords] /\ Ids \subseteq Closers
  BY ServerTypeParts, ServerAssumption DEF SInv
<1>6. ASSUME intentional' = intentional PROVE FlagHasCause'
  BY <1>1, <1>3, <1>4, <1>6, ManagerKeeps DEF FlagHasCause
<1>7. ASSUME UNCHANGED <<closing, marked>>,
             \A t \in Ids : ~Free(t) /\ pump[t] = "hook" /\ cascade[t].pc = "status" =>
                              pump'[t] = "hook" /\ cascade'[t].pc = "status"
      PROVE  ClosedByCascade'
  BY <1>3, <1>4, <1>7, ManagerAssumption DEF ClosedByCascade, Free
<1>8. ASSUME ManagerStep PROVE ClosedByCascade' /\ FlagHasCause'
  <2>1. ASSUME NEW id \in Ids, PumpWake(id) \/ PumpFinalize(id) \/ PumpNotify(id) \/ PumpRemove(id)
        PROVE  ClosedByCascade' /\ FlagHasCause'
    BY <1>1, <1>6, <1>7, <1>8, <2>1
       DEF ManagerStep, PumpWake, PumpFinalize, PumpNotify, PumpRemove, TypeOK, closerVars
  <2>2. ASSUME NEW id \in Ids, NEW cause \in {"exit", "lost"}, PTYEnds(id, cause)
        PROVE  ClosedByCascade' /\ FlagHasCause'
    BY <1>6, <1>7, <1>8, <2>2 DEF ManagerStep, PTYEnds, closerVars, pumpVars
  <2>3. ASSUME NEW t \in Closers, NEW id \in Ids, Mark(t, id)
        PROVE  ClosedByCascade' /\ FlagHasCause'
    <3>1. t \in Ids /\ t # id /\ pump[t] = "hook" /\ OnSameHost(id, t)
      BY <1>3, <2>3 DEF Mark, ClosedByCascade
    <3>2. UNCHANGED <<pump, key, cascade, ended>>
      BY <1>8, <2>3 DEF ManagerStep, Mark, pumpVars
    <3>3. ClosedByCascade'
      BY <1>1, <1>3, <2>3, <3>2 DEF ClosedByCascade, OnSameHost, Mark, TypeOK
    <3>4. ended[t] \in {"lost", "exit"}
      BY <1>1, <3>1, HookIsCause
    <3>5. intentional' = [intentional EXCEPT ![id] = TRUE]
      BY <2>3 DEF Mark
    <3>6. FlagHasCause'
      BY <1>1, <1>3, <3>1, <3>2, <3>4, <3>5 DEF FlagHasCause, OnSameHost, TypeOK
    <3> QED BY <3>3, <3>6
  <2>4. ASSUME NEW t \in Closers, Drop(t) PROVE ClosedByCascade' /\ FlagHasCause'
    <3>1. UNCHANGED <<pump, key, cascade, closing, intentional>>
      BY <1>8, <2>4 DEF ManagerStep, Drop, pumpVars
    <3>2. ClosedByCascade'
      BY <1>1, <1>3, <2>4, <3>1, ManagerAssumption DEF ClosedByCascade, OnSameHost, Drop, TypeOK
    <3> QED BY <1>6, <3>1, <3>2
  <2> QED BY <1>8, <2>1, <2>2, <2>3, <2>4 DEF ManagerStep, CloserNext
<1>9. ASSUME NEW id \in Ids, CascadeNext(id) PROVE ClosedByCascade' /\ FlagHasCause'
  <2>1. CASE CascadeStart(id)
    <3>1. UNCHANGED <<pump, key, intentional, marked>>
      BY <2>1 DEF CascadeStart, CloseHostCollect, pumpVars
    <3>2. closing' = [closing EXCEPT ![id] = OnHost(key[id].host)] /\ pump[id] = "hook"
      BY <2>1 DEF CascadeStart, CloseHostCollect
    <3>3. cascade'[id].pc = "status" /\ \A t \in Ids \ {id} : cascade'[t] = cascade[t]
      BY <1>5, <2>1 DEF CascadeStart, CascadeRecords
    <3>4. marked[id] = NoId
      BY <2>1 DEF CascadeStart, CloseHostCollect, Free
    <3>5. \A i \in OnHost(key[id].host) : i # id /\ OnSameHost(i, id)
      BY <1>1, <3>2 DEF OnHost, OnSameHost, IInv, RegisteredIsOwned, Owning, TypeOK
    <3>6. ClosedByCascade'
      BY <1>1, <1>3, <1>5, <3>1, <3>2, <3>3, <3>4, <3>5, ManagerAssumption
         DEF ClosedByCascade, OnSameHost, TypeOK
    <3> QED BY <1>6, <3>1, <3>6
  <2>2. CASE CascadeMarksDown(id)
    BY <1>5, <1>6, <1>7, <2>2 DEF CascadeMarksDown, managerVars
  <2>3. CASE CascadeLists(id)
    BY <1>5, <1>6, <1>7, <2>3 DEF CascadeLists, managerVars
  <2>4. CASE CascadePicks(id)
    BY <1>5, <1>6, <1>7, <2>4 DEF CascadePicks, managerVars
  <2>5. CASE CascadeReturns(id)
    <3>1. UNCHANGED <<closing, marked, intentional>> /\ cascade[id].pc = "move"
      BY <2>5 DEF CascadeReturns, HookReturn, closerVars
    <3>2. \A t \in Ids \ {id} : pump'[t] = pump[t] /\ cascade'[t] = cascade[t]
      BY <1>1, <1>5, <2>5 DEF CascadeReturns, HookReturn, TypeOK
    <3> QED BY <1>6, <1>7, <3>1, <3>2
  <2>6. ASSUME NEW c \in Clients, CascadeMoves(id, c) PROVE ClosedByCascade' /\ FlagHasCause'
    <3>1. cascade[id].pc = "move" /\ \A t \in Ids \ {id} : cascade'[t] = cascade[t]
      BY <1>5, <2>6 DEF CascadeMoves
    <3> QED BY <1>6, <1>7, <2>6, <3>1 DEF CascadeMoves, managerVars
  <2>7. CASE CascadeResizes(id)
    <3>1. cascade[id].pc = "resize" /\ \A t \in Ids \ {id} : cascade'[t] = cascade[t]
      BY <1>5, <2>7 DEF CascadeResizes
    <3> QED BY <1>6, <1>7, <2>7, <3>1 DEF CascadeResizes, managerVars
  <2> QED BY <1>9, <2>1, <2>2, <2>3, <2>4, <2>5, <2>6, <2>7 DEF CascadeNext
<1>10. ASSUME NEW c \in Clients, ClientNext(c) PROVE ClosedByCascade' /\ FlagHasCause'
  <2>1. UNCHANGED <<closing, marked, intentional, cascade>>
    BY <1>10 DEF ClientNext, OpenExisting, OpenNew, JumpStart, OpenFails, OpenSucceeds, OpenMarksUp,
                 JumpChecks, JumpViews, DialStart, DialFail, Register, managerVars, closerVars
  <2>2. CASE OpenSucceeds(c)
    <3>1. state[op[c].id] = "starting" /\ pump' = [pump EXCEPT ![op[c].id] = "wait"]
      BY <2>2 DEF OpenSucceeds, Register
    <3>2. op[c].id \in Ids
      BY <2>2 DEF OpenSucceeds, SInv, OpKnown
    <3>3. pump[op[c].id] = "none"
      BY <1>1, <3>1, <3>2 DEF IInv, PumpFollowsCreate
    <3>4. \A t \in Ids : pump[t] = "hook" => pump'[t] = "hook"
      BY <1>1, <3>1, <3>3 DEF TypeOK
    <3> QED BY <1>6, <1>7, <2>1, <3>4
  <2>3. CASE ~OpenSucceeds(c)
    <3>1. UNCHANGED pump
      BY <1>10, <2>3 DEF ClientNext, OpenExisting, OpenNew, JumpStart, OpenFails, OpenMarksUp,
                 JumpChecks, JumpViews, DialStart, DialFail, managerVars, pumpVars
    <3> QED BY <1>6, <1>7, <2>1, <3>1
  <2> QED BY <2>2, <2>3
<1>11. ASSUME RunNext PROVE ClosedByCascade' /\ FlagHasCause'
  <2>1. UNCHANGED <<managerVars, cascade>>
    BY <1>2, <1>11 DEF RunNext, Serve, Stop, Return, ServeFails, LoadHost, StopCloses
  <2> QED BY <1>6, <1>7, <2>1 DEF managerVars
<1>12. ASSUME UNCHANGED svars PROVE ClosedByCascade' /\ FlagHasCause'
  BY <1>6, <1>7, <1>12 DEF svars, managerVars
<1> QED BY <1>8, <1>9, <1>10, <1>11, <1>12 DEF ServerNext, Rest

\* Until the server stops, a session is closed by the server only if the PTY of
\* another session of its host has ended by itself: for any number of hosts,
\* sessions, interfaces and cascades at once.
THEOREM CascadeStaysOnHost == ServerSpec => []NoForeignClose
<1>1. SInv /\ CascadeInv => NoForeignClose
  BY DEF CascadeInv, FlagHasCause, NoForeignClose
<1>2. ServerInit => CascadeInv
  BY ServerInitOK
<1> QED BY <1>1, <1>2, ServerInvariance, CascadeStep, PTL DEF ServerSpec

-----------------------------------------------------------------------------
(* The order of a cascade *)

\* A cascade marks its host down and moves clients away only when every session it
\* has closed has ended.
ClosesFirst ==
    \A id \in Ids : cascade[id].pc \in {"list", "move", "resize"} =>
        \A i \in cascade[id].closed : ended[i] # "no"

\* Before that its thread has every one of them on its way.
ClosesAll ==
    \A id \in Ids : cascade[id].pc = "status" =>
        \A i \in cascade[id].closed : OnItsWay(id, i)

\* Every step of the server keeps both.
LEMMA OrderStep ==
    ASSUME SInv, ClosesFirst, ClosesAll, [ServerNext]_svars
    PROVE  ClosesFirst' /\ ClosesAll'
<1>1. [Next]_vars /\ IInv
  BY ManagerRuns DEF SInv
<1>2. cascade \in [Ids -> CascadeRecords] /\ Ids \subseteq Closers
  BY ServerTypeParts, ServerAssumption DEF SInv
<1>3. \A id \in Ids : cascade[id].closed \subseteq Ids
  BY <1>2 DEF CascadeRecords
<1>4. ASSUME NEW id \in Ids, NEW i \in Ids
      PROVE  /\ ended[i] # "no" => ended'[i] # "no"
             /\ OnItsWay(id, i) => OnItsWay(id, i)'
  BY <1>1, <1>2, ManagerKeeps, StaysOnItsWay
<1>5. ASSUME NEW id \in Ids, cascade'[id].closed = cascade[id].closed,
             cascade'[id].pc = cascade[id].pc \/ cascade'[id].pc = "idle"
                 \/ {cascade[id].pc, cascade'[id].pc} \subseteq {"list", "move", "resize"}
      PROVE  /\ cascade'[id].pc \in {"list", "move", "resize"} =>
                    \A i \in cascade'[id].closed : ended'[i] # "no"
             /\ cascade'[id].pc = "status" =>
                    \A i \in cascade'[id].closed : OnItsWay(id, i)'
  BY <1>3, <1>4, <1>5 DEF ClosesFirst, ClosesAll
<1>6. ASSUME NEW x \in Ids,
             \A id \in Ids \ {x} : cascade'[id] = cascade[id],
             /\ cascade'[x].pc \in {"list", "move", "resize"} =>
                    \A i \in cascade'[x].closed : ended'[i] # "no"
             /\ cascade'[x].pc = "status" =>
                    \A i \in cascade'[x].closed : OnItsWay(x, i)'
      PROVE  ClosesFirst' /\ ClosesAll'
  BY <1>5, <1>6 DEF ClosesFirst, ClosesAll
<1>7. CASE UNCHANGED cascade
  BY <1>5, <1>7 DEF ClosesFirst, ClosesAll
<1>8. ASSUME NEW id \in Ids, CascadeNext(id) PROVE ClosesFirst' /\ ClosesAll'
  <2>1. CASE CascadeStart(id)
    <3>1. /\ \A x \in Ids \ {id} : cascade'[x] = cascade[x]
          /\ cascade'[id].pc = "status" /\ cascade'[id].closed = OnHost(key[id].host)
          /\ closing'[id] = OnHost(key[id].host)
      BY <1>1, <1>2, <2>1
         DEF CascadeStart, CascadeRecords, CloseHostCollect, IInv, TypeOK
    <3> QED BY <1>6, <3>1 DEF OnItsWay
  <2>2. CASE CascadeMarksDown(id)
    <3>1. /\ \A x \in Ids \ {id} : cascade'[x] = cascade[x]
          /\ cascade'[id].pc = "list" /\ cascade'[id].closed = cascade[id].closed
          /\ cascade[id].pc = "status" /\ closing[id] = {} /\ marked[id] = NoId
      BY <1>2, <2>2 DEF CascadeMarksDown, CascadeRecords, Free
    <3>2. \A i \in cascade[id].closed : OnItsWay(id, i) /\ i # NoId
      BY <1>3, <3>1, ManagerAssumption DEF ClosesAll
    <3>3. \A i \in cascade[id].closed : ended'[i] # "no"
      BY <1>3, <1>4, <3>1, <3>2 DEF OnItsWay
    <3> QED BY <1>6, <3>1, <3>3
  <2>3. CASE CascadeLists(id)
    <3>1. /\ \A x \in Ids \ {id} : cascade'[x] = cascade[x]
          /\ cascade[id].pc = "list"
          /\ cascade'[id].pc = "move" /\ cascade'[id].closed = cascade[id].closed
      BY <1>2, <2>3 DEF CascadeLists, CascadeRecords
    <3> QED BY <1>5, <1>6, <3>1
  <2>4. ASSUME NEW c \in Clients, CascadeMoves(id, c)
        PROVE  ClosesFirst' /\ ClosesAll'
    <3>1. /\ \A x \in Ids \ {id} : cascade'[x] = cascade[x]
          /\ cascade[id].pc = "move"
          /\ cascade'[id].pc = "resize" /\ cascade'[id].closed = cascade[id].closed
      BY <1>2, <2>4 DEF CascadeMoves, CascadeRecords
    <3> QED BY <1>5, <1>6, <3>1
  <2>5. CASE CascadePicks(id)
    <3>1. /\ \A x \in Ids \ {id} : cascade'[x] = cascade[x]
          /\ cascade'[id].pc = cascade[id].pc /\ cascade'[id].closed = cascade[id].closed
      BY <1>2, <2>5 DEF CascadePicks, CascadeRecords
    <3> QED BY <1>5, <1>6, <3>1
  <2>6. CASE CascadeReturns(id)
    <3>1. /\ \A x \in Ids \ {id} : cascade'[x] = cascade[x]
          /\ cascade'[id].pc = "idle"
      BY <1>2, <2>6 DEF CascadeReturns, NoCascade
    <3> QED BY <1>6, <3>1
  <2>7. CASE CascadeResizes(id)
    <3>1. /\ \A x \in Ids \ {id} : cascade'[x] = cascade[x]
          /\ cascade[id].pc = "resize"
          /\ cascade'[id].pc = "move" /\ cascade'[id].closed = cascade[id].closed
      BY <1>2, <2>7 DEF CascadeResizes, CascadeRecords
    <3> QED BY <1>5, <1>6, <3>1
  <2> QED BY <1>8, <2>1, <2>2, <2>3, <2>4, <2>5, <2>6, <2>7 DEF CascadeNext
<1>9. ASSUME NEW c \in Clients, ClientNext(c) PROVE UNCHANGED cascade
  BY <1>9 DEF ClientNext, OpenExisting, OpenNew, JumpStart, OpenFails, OpenSucceeds, OpenMarksUp,
              JumpChecks, JumpViews
<1>10. ASSUME RunNext PROVE UNCHANGED cascade
  BY <1>10 DEF RunNext, Serve, Stop, Return, ServeFails, LoadHost, StopCloses
<1> QED BY <1>7, <1>8, <1>9, <1>10 DEF ServerNext, Rest, ManagerStep, svars

\* A host is marked down, and its clients are moved, only after everything that was
\* registered on it has ended: however many cascades, interfaces and closing
\* threads are at it, and also while the server stops.
THEOREM CascadeClosesFirst == ServerSpec => []ClosesFirst
<1>1. ServerInit => ClosesFirst /\ ClosesAll
  BY DEF ServerInit, ClosesFirst, ClosesAll, NoCascade
<1>2. SInv /\ (ClosesFirst /\ ClosesAll) /\ [ServerNext]_svars => (ClosesFirst /\ ClosesAll)'
  BY OrderStep
<1> QED BY <1>1, <1>2, ServerInvariance, PTL DEF ServerSpec

-----------------------------------------------------------------------------
(* One interface *)

\* The steps that leave both maps alone, and no dial begun.
LEMMA AloneRest ==
    ASSUME IInv, AloneInv, [Next]_vars, sessions' = sessions, byKey' = byKey,
           \A c \in Clients : op'[c].pc = "dial" =>
               op[c].pc = "dial" /\ op'[c].id = op[c].id /\ key'[op[c].id] = key[op[c].id]
    PROVE  AloneInv'
<1>1. \A i \in sessions : i \in Ids /\ pump[i] # "none"
  BY DEF IInv, TypeOK, RegisteredIsOwned, Owning
<1>2. \A i \in sessions : key'[i] = key[i]
  BY <1>1, ManagerKeeps
<1> QED BY <1>2 DEF AloneInv, KeyLeadsToSession, DialIsFirst

LEMMA AloneStep ==
    ASSUME \A c, d \in Clients : c = d
    PROVE  SInv /\ AloneInv /\ [ServerNext]_svars => AloneInv'
<1> SUFFICES ASSUME SInv, AloneInv, [ServerNext]_svars PROVE AloneInv'
  OBVIOUS
<1>1. /\ [Next]_vars /\ IInv /\ TypeOK /\ OpKnown
      /\ op \in [Clients -> OpRecords]
  BY ManagerRuns, ServerTypeParts DEF SInv, IInv
<1>2. ASSUME UNCHANGED <<sessions, byKey, key, op>> PROVE AloneInv'
  BY <1>1, <1>2, AloneRest
<1>3. CASE ManagerStep
  <2>1. ASSUME NEW id \in Ids, PumpRemove(id) PROVE AloneInv'
    <3>1. sessions' = sessions \ {id} /\ byKey' = [byKey EXCEPT ![key[id]] = NoId] /\ key' = key
      BY <2>1 DEF PumpRemove
    <3>2. op' = op
      BY <1>3 DEF ManagerStep
    <3>3. id \in sessions
      BY <1>1, <2>1 DEF PumpRemove, IInv, RegisteredIsOwned, Owning
    <3>4. \A i \in sessions \ {id} : key[i] # key[id]
      BY <3>3 DEF AloneInv, KeyLeadsToSession
    <3> QED BY <1>1, <3>1, <3>2, <3>4 DEF AloneInv, KeyLeadsToSession, DialIsFirst, TypeOK
  <2> QED
    BY <1>2, <1>3, <2>1
       DEF ManagerStep, PumpWake, PumpFinalize, PumpNotify, PTYEnds, CloserNext, Mark, Drop
<1>4. ASSUME NEW id \in Ids, CascadeNext(id) PROVE AloneInv'
  BY <1>2, <1>4 DEF CascadeNext, CascadeStart, CloseHostCollect, CascadeMarksDown, CascadeLists,
                    CascadePicks, CascadeReturns, HookReturn, CascadeMoves, CascadeResizes,
                    managerVars
<1>5. ASSUME NEW c \in Clients, ClientNext(c) PROVE AloneInv'
  <2>1. ASSUME NEW k \in Keys, NEW id \in Ids, OpenNew(c, k, id) PROVE AloneInv'
    <3>1. /\ byKey[k] = NoId /\ UNCHANGED <<sessions, byKey>>
          /\ key' = [key EXCEPT ![id] = k] /\ op' = [op EXCEPT ![c] = [pc |-> "dial", id |-> id]]
          /\ state[id] = "none"
      BY <2>1 DEF OpenNew, DialStart
    <3>2. id \notin sessions /\ sessions \subseteq Ids
      BY <1>1, <3>1 DEF IInv, PumpFollowsCreate, RegisteredIsOwned, Owning, TypeOK
    <3>3. \A i \in sessions : key[i] # k
      BY <3>1, <3>2, ManagerAssumption DEF AloneInv, KeyLeadsToSession
    <3>4. \A i \in sessions : key'[i] = key[i]
      BY <1>1, <3>1, <3>2 DEF TypeOK
    <3>5. key'[id] = k /\ op'[c].id = id
      BY <1>1, <3>1 DEF TypeOK
    <3>6. \A d \in Clients : d = c
      OBVIOUS
    <3> QED BY <3>1, <3>3, <3>4, <3>5, <3>6 DEF AloneInv, KeyLeadsToSession, DialIsFirst
  <2>2. CASE OpenSucceeds(c)
    <3> DEFINE id == op[c].id
    <3>1. id \in Ids /\ op[c].pc = "dial"
      BY <1>1, <2>2 DEF OpenSucceeds, OpKnown
    <3>2. /\ state[id] = "starting" /\ sessions' = sessions \cup {id} /\ key' = key
          /\ byKey' = [byKey EXCEPT ![key[id]] = id]
      BY <2>2 DEF OpenSucceeds, Register
    <3>3. key[id] \in Keys
      BY <1>1, <3>1, <3>2 DEF IInv, PumpFollowsCreate
    <3>4. \A i \in sessions : key[i] # key[id]
      BY <3>1 DEF AloneInv, DialIsFirst
    <3>5. KeyLeadsToSession'
      BY <1>1, <3>2, <3>3, <3>4 DEF AloneInv, KeyLeadsToSession, TypeOK
    <3>6. \A d \in Clients : op'[d].pc # "dial"
      BY <1>1, <2>2 DEF OpenSucceeds, OpRecords
    <3> QED BY <3>5, <3>6 DEF AloneInv, DialIsFirst
  <2>3. CASE OpenFails(c)
    BY <1>1, <2>3, AloneRest DEF OpenFails, DialFail, Resting
  <2>4. CASE \/ \E k \in Keys : OpenExisting(c, k)
             \/ \E id \in Ids : JumpStart(c, id)
             \/ OpenMarksUp(c) \/ JumpChecks(c) \/ JumpViews(c)
    <3>1. UNCHANGED <<sessions, byKey, key>>
      BY <2>4 DEF OpenExisting, JumpStart, OpenMarksUp, JumpChecks, JumpViews, managerVars
    <3>2. op'[c].pc # "dial"
      BY <1>1, <2>4 DEF OpenExisting, JumpStart, OpenMarksUp, JumpChecks, JumpViews, Resting, OpRecords
    <3> QED BY <1>1, <3>1, <3>2, AloneRest
  <2> QED BY <1>5, <2>1, <2>2, <2>3, <2>4 DEF ClientNext
<1>6. CASE RunNext
  BY <1>2, <1>6 DEF RunNext, Serve, Stop, Return, ServeFails, LoadHost, StopCloses, CloseLookup, managerVars
<1>7. CASE UNCHANGED svars
  BY <1>2, <1>7 DEF svars, managerVars
<1> QED BY <1>3, <1>4, <1>5, <1>6, <1>7 DEF ServerNext, Rest

LEMMA AloneInvariance ==
    ASSUME \A c, d \in Clients : c = d
    PROVE  ServerSpec => [](SInv /\ AloneInv)
<1>1. SInv /\ AloneInv /\ [ServerNext]_svars => AloneInv'
  BY AloneStep
<1>2. ServerInit => AloneInv
  BY ServerInitOK
<1> QED BY <1>1, <1>2, ServerInvariance, PTL DEF ServerSpec

\* With one interface, a project has one session at a time: whatever ends, fails
\* or is closed under it, and however many pumps are between two of their steps.
THEOREM OneInterfaceOneSession ==
    ASSUME \A c, d \in Clients : c = d
    PROVE  ServerSpec => []OneSessionPerKey
<1>1. SInv /\ AloneInv => OneSessionPerKey
  BY DEF AloneInv, KeyLeadsToSession, OneSessionPerKey, Running
<1> QED BY <1>1, AloneInvariance, PTL

\* ... and Find finds it as long as it runs.
THEOREM OneInterfaceFinds ==
    ASSUME \A c, d \in Clients : c = d
    PROVE  ServerSpec => []FindFindsExisting
<1>1. SInv /\ AloneInv => FindFindsExisting
  BY ManagerAssumption
     DEF SInv, IInv, TypeOK, AloneInv, KeyLeadsToSession, FindFindsExisting
<1> QED BY <1>1, AloneInvariance, PTL

-----------------------------------------------------------------------------
(* The project picker.  Server.Projects shares no state with the rest of the   *)
(* server.                                                                     *)

\* Induction over the numbers up to n, for a set of those that are good.
LEMMA CountUp ==
    ASSUME NEW A, 0 \in A, NEW n \in Nat, \A k \in 0..(n - 1) : k \in A => k + 1 \in A
    PROVE  n \in A
<1> SUFFICES ASSUME n \notin A PROVE FALSE
  OBVIOUS
<1> DEFINE B == {k \in 0..n : k \notin A}
<1>1. B \subseteq Nat /\ n \in B
  OBVIOUS
<1>2. PICK m \in B : \A j \in B : m <= j
  <2> HIDE DEF B
  <2> QED BY <1>1, LeastOf
<1>3. m \in 1..n /\ m \notin A
  BY <1>2
<1>4. m - 1 \in A
  BY <1>2, <1>3
<1> QED BY <1>3, <1>4

\* In order, nothing twice.
Increasing(s) == \A i, j \in DOMAIN s : i < j => s[i] < s[j]

\* A finite set of numbers can be sorted.
LEMMA CanBeSorted ==
    ASSUME NEW S, S \subseteq Nat, IsFiniteSet(S)
    PROVE  \E s \in [1..Cardinality(S) -> S] : Increasing(s)
<1> DEFINE A == {n \in Nat : \A T \in SUBSET S :
                    Cardinality(T) = n => \E s \in [1..n -> T] : Increasing(s)}
<1>1. ASSUME NEW T \in SUBSET S
      PROVE  T \subseteq Nat /\ IsFiniteSet(T) /\ Cardinality(T) \in Nat
  BY FS_Subset, FS_CardinalityType
<1>2. 0 \in A
  <2>1. ASSUME NEW T \in SUBSET S, Cardinality(T) = 0
        PROVE  \E s \in [1..0 -> T] : Increasing(s)
    <3>1. 1..0 = {}
      OBVIOUS
    <3>2. [i \in {} |-> 0] \in [{} -> T] /\ DOMAIN [i \in {} |-> 0] = {}
      OBVIOUS
    <3> QED BY <3>1, <3>2 DEF Increasing
  <2> QED BY <2>1
<1>3. ASSUME NEW n \in Nat, n \in A PROVE n + 1 \in A
  <2> SUFFICES ASSUME NEW T \in SUBSET S, Cardinality(T) = n + 1
               PROVE  \E s \in [1..(n + 1) -> T] : Increasing(s)
    OBVIOUS
  <2>1. T # {} /\ T \subseteq Nat
    BY <1>1, FS_EmptySet
  <2>2. PICK m \in T : \A j \in T : m <= j
    BY <2>1, LeastOf
  <2>3. Cardinality(T \ {m}) = n
    BY <1>1, FS_RemoveElement
  <2>4. PICK s \in [1..n -> T \ {m}] : Increasing(s)
    BY <1>3, <2>3
  <2> DEFINE t == [i \in 1..(n + 1) |-> IF i = 1 THEN m ELSE s[i - 1]]
  <2>5. \A i \in 2..(n + 1) : i - 1 \in 1..n /\ t[i] = s[i - 1] /\ t[i] \in T \ {m}
    OBVIOUS
  <2>6. t[1] = m /\ DOMAIN t = 1..(n + 1)
    OBVIOUS
  <2>7. t \in [1..(n + 1) -> T]
    BY <2>5, <2>6
  <2>8. ASSUME NEW i \in 1..(n + 1), NEW j \in 1..(n + 1), i < j PROVE t[i] < t[j]
    <3>0. j \in 2..(n + 1)
      BY <2>8
    <3>1. j \in 2..(n + 1) /\ t[j] \in T \ {m} /\ t[j] \in Nat /\ m \in Nat
      BY <2>1, <2>5, <3>0
    <3>2. CASE i = 1
      <4>1. m <= t[j] /\ t[j] # m
        BY <2>2, <3>1
      <4> QED BY <2>6, <3>1, <3>2, <4>1
    <3>3. CASE i # 1
      <4>1. i - 1 \in DOMAIN s /\ j - 1 \in DOMAIN s /\ i - 1 < j - 1
        BY <2>8, <3>3
      <4>2. s[i - 1] < s[j - 1]
        BY <2>4, <4>1 DEF Increasing
      <4> QED BY <2>5, <3>1, <3>3, <4>2
    <3> QED BY <3>2, <3>3
  <2> HIDE DEF t
  <2>9. Increasing(t)
    BY <2>6, <2>8 DEF Increasing
  <2> QED BY <2>7, <2>9
<1>4. Cardinality(S) \in Nat
  BY <1>1
<1>5. Cardinality(S) \in A
  <2> HIDE DEF A
  <2> QED BY <1>2, <1>3, <1>4, CountUp
<1> QED BY <1>5

\* What is sorted is the set, each of its elements once.
LEMMA SortedIsSet ==
    ASSUME NEW S, S \subseteq Nat, IsFiniteSet(S)
    PROVE  /\ Sorted(S) \in Seq(S) /\ Increasing(Sorted(S))
           /\ \A x \in S : \E i \in 1..Len(Sorted(S)) : Sorted(S)[i] = x
<1> DEFINE n == Cardinality(S)
<1>1. n \in Nat
  BY FS_CardinalityType
<1>2. PICK t \in [1..n -> S] : Increasing(t)
  BY CanBeSorted
<1>3. ASSUME NEW i \in 1..n, NEW j \in 1..n, i # j PROVE t[i] # t[j]
  <2>1. t[i] \in Nat /\ t[j] \in Nat
    BY <1>2
  <2>2. i < j \/ j < i
    BY <1>1, <1>3
  <2>3. t[i] < t[j] \/ t[j] < t[i]
    BY <1>2, <2>2 DEF Increasing
  <2> QED BY <2>1, <2>3
<1>4. t \in SetToSeqs(S)
  BY <1>3 DEF SetToSeqs
<1>5. Sorted(S) \in SetToSeqs(S) /\ Increasing(Sorted(S))
  BY <1>2, <1>4 DEF Sorted, Increasing
<1>6. /\ Sorted(S) \in [1..n -> S]
      /\ \A i, j \in 1..n : i # j => Sorted(S)[i] # Sorted(S)[j]
  BY <1>5 DEF SetToSeqs
<1>7. Sorted(S) \in Injection(1..n, S)
  BY <1>6 DEF Injection, IsInjective
<1>8. IsFiniteSet(1..n) /\ Cardinality(1..n) = n
  BY <1>1, FS_Interval
<1>9. Sorted(S) \in Surjection(1..n, S)
  BY <1>7, <1>8, FS_Injection
<1>10. \A x \in S : \E i \in 1..n : Sorted(S)[i] = x
  BY <1>9 DEF Surjection
<1> HIDE DEF n
<1>11. Sorted(S) \in Seq(S) /\ Len(Sorted(S)) = n
  BY <1>1, <1>6
<1> QED BY <1>5, <1>10, <1>11

\* Joining n sequences one after the other, f has what there is after each.
Joining(f, s, n) ==
    /\ f[n] = FlattenSeq(s)
    /\ f[1] = s[1]
    /\ \A i \in 2..n : f[i] = f[i - 1] \o s[i]

\* FlattenSeq does so.
LEMMA FlattenSteps ==
    ASSUME NEW E, NEW n \in Nat \ {0}, NEW s \in [1..n -> Seq(E)]
    PROVE  \E f : Joining(f, s, n)
<1> DEFINE Joins(f, k) == f[1] = s[1] /\ \A i \in 2..k : f[i] = f[i - 1] \o s[i]
           A == {k \in Nat : k \in 1..n => \E f \in [1..k -> Seq(E)] : Joins(f, k)}
<1>1. 0 \in A
  OBVIOUS
<1>2. ASSUME NEW k \in 0..(n - 1), k \in A PROVE k + 1 \in A
  <2>1. CASE k = 0
    <3> DEFINE g == [i \in 1..1 |-> s[1]]
    <3>1. g \in [1..1 -> Seq(E)] /\ g[1] = s[1]
      OBVIOUS
    <3>2. 2..1 = {}
      OBVIOUS
    <3>3. Joins(g, 1)
      BY <3>1, <3>2
    <3> HIDE DEF g, Joins
    <3> QED BY <2>1, <3>1, <3>3
  <2>2. CASE k # 0
    <3>1. k \in 1..n
      BY <2>2
    <3>2. PICK f \in [1..k -> Seq(E)] : Joins(f, k)
      BY <1>2, <3>1
    <3> DEFINE g == [i \in 1..(k + 1) |-> IF i = k + 1 THEN f[k] \o s[k + 1] ELSE f[i]]
    <3>3. f[k] \o s[k + 1] \in Seq(E)
      BY <3>1, ConcatProperties
    <3>4. g[k + 1] = f[k] \o s[k + 1] /\ \A i \in 1..k : g[i] = f[i] /\ g[i] \in Seq(E)
      BY <3>1
    <3>5. g \in [1..(k + 1) -> Seq(E)]
      BY <3>3, <3>4
    <3> HIDE DEF g
    <3>6. g[1] = s[1]
      BY <3>1, <3>2, <3>4
    <3>7. ASSUME NEW i \in 2..(k + 1) PROVE g[i] = g[i - 1] \o s[i]
      <4>1. CASE i = k + 1
        <5>1. k = i - 1 /\ g[i - 1] = f[k]
          BY <3>1, <3>4, <4>1
        <5> QED BY <3>4, <4>1, <5>1
      <4>2. CASE i # k + 1
        <5>1. i \in 2..k /\ i \in 1..k /\ i - 1 \in 1..k
          BY <3>1, <4>2
        <5> QED BY <3>2, <3>4, <5>1
      <4> QED BY <4>1, <4>2
    <3>8. Joins(g, k + 1)
      BY <3>6, <3>7
    <3> HIDE DEF Joins
    <3> QED BY <3>5, <3>8
  <2> QED BY <2>1, <2>2
<1>3. n \in A
  <2> HIDE DEF A
  <2> QED BY <1>1, <1>2, CountUp
<1>4. PICK f \in [1..n -> Seq(E)] : Joins(f, n)
  <2>1. n \in 1..n
    OBVIOUS
  <2> HIDE DEF Joins
  <2> QED BY <1>3, <2>1
<1> DEFINE Eq(g) == g = [i \in 1..n |-> IF i = 1 THEN s[i] ELSE g[i - 1] \o s[i]]
           c == CHOOSE g : Eq(g)
<1>5. Eq(f)
  <2>1. \A i \in 1..n : i # 1 => i \in 2..n
    OBVIOUS
  <2>2. \A i \in 1..n : f[i] = IF i = 1 THEN s[i] ELSE f[i - 1] \o s[i]
    BY <1>4, <2>1
  <2> QED BY <2>2
<1>6. Eq(c)
  <2> HIDE DEF Eq
  <2> QED BY <1>5
<1>7. Len(s) = n
  OBVIOUS
<1>8. FlattenSeq(s) = c[n]
  BY <1>7 DEF FlattenSeq
<1>10. c[1] = s[1] /\ \A i \in 2..n : c[i] = c[i - 1] \o s[i]
  <2> HIDE DEF c
  <2>1. 1 \in 1..n /\ \A i \in 2..n : i \in 1..n /\ i # 1
    OBVIOUS
  <2> QED BY <1>6, <2>1
<1> HIDE DEF c, Eq
<1> DEFINE B == {k \in Nat : k \in 1..n => c[k] = f[k]}
<1>9. n \in B
  <2>1. 0 \in B
    OBVIOUS
  <2>2. ASSUME NEW k \in 0..(n - 1), k \in B PROVE k + 1 \in B
    <3>1. CASE k = 0
      BY <1>4, <1>10, <3>1
    <3>2. CASE k # 0
      <4>1. k \in 1..n /\ k + 1 \in 2..n /\ k + 1 \in 1..n /\ k + 1 # 1
        BY <3>2
      <4>2. c[k + 1] = c[(k + 1) - 1] \o s[k + 1]
        BY <1>10, <4>1
      <4>3. f[k + 1] = f[(k + 1) - 1] \o s[k + 1]
        BY <1>4, <4>1
      <4>4. (k + 1) - 1 = k /\ c[k] = f[k]
        BY <2>2, <4>1
      <4>5. c[k + 1] = f[k + 1]
        BY <4>2, <4>3, <4>4
      <4> QED BY <4>5
    <3> QED BY <3>1, <3>2
  <2> HIDE DEF B
  <2> QED BY <2>1, <2>2, CountUp
<1>11. c[n] = f[n]
  <2>1. n \in 1..n
    OBVIOUS
  <2> QED BY <1>9, <2>1
<1>12. Joining(f, s, n)
  BY <1>4, <1>8, <1>11 DEF Joining
<1> QED BY <1>12

\* The entries of one host, in order.
Part(h) ==
    [i \in DOMAIN Sorted(results[h]) |->
        [host |-> h, root |-> Sorted(results[h])[i]]]

\* Entries go by host, then by root.
Before(d, e) == d.host < e.host \/ (d.host = e.host /\ d.root < e.root)

\* The entries of the first k hosts, each once, in order.
IsList(q, k) ==
    /\ q \in Seq(Entries)
    /\ \A i \in 1..Len(q) : q[i].host <= k /\ q[i].root \in results[q[i].host]
    /\ \A e \in Entries :
        e.host <= k /\ e.root \in results[e.host] => \E i \in 1..Len(q) : q[i] = e
    /\ \A i, j \in 1..Len(q) : i < j => Before(q[i], q[j])

\* The part of a host has an entry for each of its roots, in order.
LEMMA PartIsList ==
    ASSUME IsFiniteSet(Paths), PickerTypeOK, NEW h \in Registered
    PROVE  /\ Part(h) \in Seq(Entries)
           /\ \A i \in 1..Len(Part(h)) : Part(h)[i].host = h /\ Part(h)[i].root \in results[h]
           /\ \A r \in results[h] : \E i \in 1..Len(Part(h)) : Part(h)[i] = [host |-> h, root |-> r]
           /\ \A i, j \in 1..Len(Part(h)) : i < j => Part(h)[i].root < Part(h)[j].root
<1> DEFINE S == results[h]
           s == Sorted(S)
<1>1. S \subseteq Paths /\ S \subseteq Nat /\ IsFiniteSet(S)
  BY FS_Subset, PickerAssumption DEF PickerTypeOK
<1>2. /\ s \in Seq(S) /\ Increasing(s)
      /\ \A x \in S : \E i \in 1..Len(s) : s[i] = x
  BY <1>1, SortedIsSet
<1>3. Part(h) = [i \in DOMAIN s |-> [host |-> h, root |-> s[i]]]
  BY DEF Part
<1> HIDE DEF S
<1> HIDE DEF s
<1>4. Len(s) \in Nat /\ DOMAIN s = 1..Len(s) /\ \A i \in 1..Len(s) : s[i] \in S
  BY <1>2
<1>5. \A i \in 1..Len(s) : [host |-> h, root |-> s[i]] \in Entries
  BY <1>1, <1>4 DEF Entries
<1>6. Part(h) \in [1..Len(s) -> Entries]
  BY <1>3, <1>4, <1>5
<1>7. Part(h) \in Seq(Entries) /\ Len(Part(h)) = Len(s)
  BY <1>4, <1>6
<1>8. \A i \in 1..Len(s) : Part(h)[i] = [host |-> h, root |-> s[i]]
  BY <1>3, <1>4
<1>9. \A r \in S : \E i \in 1..Len(Part(h)) : Part(h)[i] = [host |-> h, root |-> r]
  BY <1>2, <1>7, <1>8
<1>10. ASSUME NEW i \in 1..Len(s) PROVE Part(h)[i].host = h /\ Part(h)[i].root = s[i]
  <2>1. Part(h)[i] = [host |-> h, root |-> s[i]]
    BY <1>8
  <2> QED BY ONLY <2>1
<1>11. \A i, j \in 1..Len(s) : i < j => s[i] < s[j]
  BY <1>2, <1>4 DEF Increasing
<1>12. \A i, j \in 1..Len(Part(h)) : i < j => Part(h)[i].root < Part(h)[j].root
  BY <1>7, <1>10, <1>11
<1>13. \A i \in 1..Len(Part(h)) : Part(h)[i].host = h /\ Part(h)[i].root \in S
  BY <1>4, <1>7, <1>10
<1> QED BY <1>7, <1>9, <1>12, <1>13 DEF S

\* Hosts and roots are numbers, which is what puts entries in order.
LEMMA EntryParts ==
    ASSUME NEW e \in Entries
    PROVE  e.host \in Nat \ {0} /\ e.root \in Nat /\ e = [host |-> e.host, root |-> e.root]
<1>1. Registered \subseteq Nat \ {0} /\ Paths \subseteq Nat
  BY PickerAssumption DEF Registered
<1>2. e \in [host : Registered, root : Paths]
  BY DEF Entries
<1>3. e.host \in Registered /\ e.root \in Paths
  BY <1>2
<1> QED BY <1>1, <1>2, <1>3

\* The entries of the first k hosts and the part of the next one are the entries
\* of the first k + 1.
LEMMA ListGrows ==
    ASSUME IsFiniteSet(Paths), PickerTypeOK,
           NEW k \in Nat, k + 1 \in Registered,
           NEW q, IsList(q, k)
    PROVE  IsList(q \o Part(k + 1), k + 1)
<1> DEFINE h == k + 1
           p == Part(h)
           m == Len(q)
           n == Len(p)
           z == q \o p
<1>1. /\ p \in Seq(Entries)
      /\ \A i \in 1..n : p[i].host = h /\ p[i].root \in results[h]
      /\ \A r \in results[h] : \E i \in 1..n : p[i] = [host |-> h, root |-> r]
      /\ \A i, j \in 1..n : i < j => p[i].root < p[j].root
  BY PartIsList
<1>2. q \in Seq(Entries) /\ m \in Nat /\ n \in Nat
  BY <1>1 DEF IsList
<1>3. /\ z \in Seq(Entries) /\ Len(z) = m + n
      /\ \A i \in 1..(m + n) : z[i] = IF i <= m THEN q[i] ELSE p[i - m]
  BY <1>1, <1>2, ConcatProperties
<1>4. \A e \in Entries :
        e.host \in Nat /\ e.root \in Nat /\ e = [host |-> e.host, root |-> e.root]
  BY EntryParts
<1> HIDE DEF p, z, m, n
<1>5. \A i \in 1..m : i \in 1..(m + n) /\ z[i] = q[i]
  BY <1>2, <1>3
<1>6. \A i \in 1..n : i + m \in 1..(m + n) /\ z[i + m] = p[i]
  BY <1>2, <1>3
<1>7. \A i \in 1..(m + n) : i \in 1..m \/ (i - m \in 1..n /\ z[i] = p[i - m])
  BY <1>2, <1>3
<1>8. ASSUME NEW i \in 1..(m + n) PROVE z[i].host <= h /\ z[i].root \in results[z[i].host]
  <2>1. CASE i \in 1..m
    <3>1. q[i] \in Entries /\ q[i].host <= k /\ q[i].root \in results[q[i].host]
      BY <1>2, <2>1 DEF IsList, m
    <3> QED BY <1>4, <1>5, <2>1, <3>1
  <2>2. CASE i - m \in 1..n /\ z[i] = p[i - m]
    BY <1>1, <2>2 DEF n
  <2> QED BY <1>7, <2>1, <2>2
<1>9. ASSUME NEW e \in Entries, e.host <= h, e.root \in results[e.host]
      PROVE  \E i \in 1..(m + n) : z[i] = e
  <2>1. CASE e.host <= k
    <3>1. PICK i \in 1..m : q[i] = e
      BY <1>9, <2>1 DEF IsList, m
    <3> QED BY <1>5, <3>1
  <2>2. CASE ~(e.host <= k)
    <3>1. e.host = h
      BY <1>4, <1>9, <2>2
    <3>2. PICK i \in 1..n : p[i] = e
      BY <1>1, <1>4, <1>9, <3>1 DEF n
    <3> QED BY <1>6, <3>2
  <2> QED BY <2>1, <2>2
<1>10. ASSUME NEW i \in 1..(m + n), NEW j \in 1..(m + n), i < j PROVE Before(z[i], z[j])
  <2>1. CASE i \in 1..m /\ j \in 1..m
    BY <1>5, <1>10, <2>1 DEF IsList, m
  <2>2. CASE i \in 1..m /\ j \notin 1..m
    <3>1. q[i].host <= k /\ q[i].host \in Nat
      BY <1>2, <1>4, <2>2 DEF IsList, m
    <3>2. z[j].host = h
      BY <1>1, <1>7, <2>2 DEF n
    <3> QED BY <1>5, <2>2, <3>1, <3>2 DEF Before
  <2>3. CASE i \notin 1..m /\ j \notin 1..m
    <3>1. i - m \in 1..n /\ j - m \in 1..n /\ i - m < j - m /\ z[i] = p[i - m] /\ z[j] = p[j - m]
      BY <1>2, <1>7, <1>10, <2>3
    <3> QED BY <1>1, <3>1 DEF Before, n
  <2>4. ~(i \notin 1..m /\ j \in 1..m)
    BY <1>2, <1>10
  <2> QED BY <2>1, <2>2, <2>3, <2>4
<1>11. IsList(z, h)
  BY <1>3, <1>8, <1>9, <1>10 DEF IsList
<1> QED BY <1>11 DEF z, p

\* The picker's list is every entry of every host.
LEMMA MergeIsList ==
    ASSUME IsFiniteSet(Paths), PickerTypeOK
    PROVE  IsList(Merge, N)
<1> DEFINE s == [h \in Registered |-> Part(h)]
<1>1. Merge = FlattenSeq(s)
  BY DEF Merge, Part
<1>2. s \in [1..N -> Seq(Entries)] /\ N \in Nat
  BY PartIsList, PickerAssumption DEF Registered
<1>3. IsList(<<>>, 0)
  <2>1. \A e \in Entries : e.host \in Nat \ {0}
    BY EntryParts
  <2> QED BY <2>1 DEF IsList
<1>4. CASE N = 0
  <2>1. s = <<>>
    <3>1. Registered = {}
      BY <1>4 DEF Registered
    <3> QED BY <3>1
  <2> HIDE DEF s
  <2>2. FlattenSeq(s) = <<>>
    BY <2>1 DEF FlattenSeq
  <2> QED BY <1>1, <1>3, <1>4, <2>2
<1>5. CASE N # 0
  <2>1. N \in Nat \ {0}
    BY <1>2, <1>5
  <2>2. \A h \in 1..N : s[h] = Part(h)
    BY DEF Registered
  <2> HIDE DEF s
  <2>3. PICK f : Joining(f, s, N)
    <3>1. \E f : Joining(f, s, N)
      BY <1>2, <2>1, FlattenSteps, Zenon
    <3> QED BY <3>1
  <2> DEFINE A == {k \in Nat : k \in 1..N => IsList(f[k], k)}
  <2>4. 0 \in A
    OBVIOUS
  <2>5. ASSUME NEW k \in 0..(N - 1), k \in A PROVE k + 1 \in A
    <3>1. k \in Nat /\ k + 1 \in 1..N /\ k + 1 \in Registered
      BY <2>1 DEF Registered
    <3>2. CASE k = 0
      <4>1. Part(1) \in Seq(Entries)
        BY <3>1, <3>2, PartIsList
      <4>2. <<>> \o Part(1) = Part(1)
        BY <4>1, ConcatEmptySeq
      <4>3. IsList(Part(1), 1)
        <5>1. 0 \in Nat /\ 0 + 1 = 1 /\ 0 + 1 \in Registered
          BY <3>1, <3>2
        <5>2. IsList(<<>> \o Part(0 + 1), 0 + 1)
          BY <1>3, <5>1, ListGrows
        <5> QED BY <4>2, <5>1, <5>2
      <4>4. f[1] = Part(1)
        BY <2>1, <2>2, <2>3 DEF Joining
      <4> QED BY <3>2, <4>3, <4>4
    <3>3. CASE k # 0
      <4>1. k \in 1..N /\ k + 1 \in 2..N /\ (k + 1) - 1 = k
        BY <2>1, <3>1, <3>3
      <4>2. IsList(f[k], k)
        BY <2>5, <4>1
      <4>3. IsList(f[k] \o Part(k + 1), k + 1)
        BY <3>1, <4>2, ListGrows
      <4>4. f[k + 1] = f[k] \o Part(k + 1)
        BY <2>2, <2>3, <3>1, <4>1 DEF Joining
      <4>5. IsList(f[k + 1], k + 1)
        BY <4>3, <4>4
      <4> QED BY <3>1, <4>5
    <3> QED BY <3>2, <3>3
  <2>6. N \in A
    <3> HIDE DEF A
    <3> QED BY <1>2, <2>4, <2>5, CountUp
  <2> QED BY <1>1, <2>1, <2>3, <2>6 DEF Joining
<1> QED BY <1>4, <1>5

\* What the picker keeps: nothing hidden in the part of a host, and a list that
\* is complete and stays so, for nobody writes a part once all have returned.
PickerInv ==
    /\ PickerTypeOK
    /\ \A h \in Registered : results[h] # {} => NothingHidden(h)
    /\ out # <<>> => ~called /\ Waited /\ IsList(out, N)

\* Nothing is indexed before the first call.
LEMMA PickerInvInit == PickerInit => PickerInv
<1> SUFFICES ASSUME PickerInit PROVE PickerInv
  OBVIOUS
<1>1. \A h \in Registered : results[h] = {}
  BY DEF PickerInit
<1>2. DOMAIN out = {}
  BY DEF PickerInit
<1>3. {} \in SUBSET Paths
  OBVIOUS
<1>4. PickerTypeOK
  BY <1>2, <1>3 DEF PickerInit, PickerTypeOK
<1> QED BY <1>1, <1>4 DEF PickerInit, PickerInv

\* A top-level directory is an entry, or lies in a repository the first command
\* has found, whatever became of that repository since.
LEMMA CombineHidesNothing ==
    ASSUME PickerTypeOK, NEW h \in Registered
    PROVE  \A d \in SubDirs : InsideAnyRepo(d, Combine(h))
<1> TAKE d \in SubDirs
<1>1. CASE InsideAnyRepo(d, found[h])
  BY <1>1 DEF InsideAnyRepo, Combine
<1>2. CASE ~InsideAnyRepo(d, found[h])
  <2>1. d \in Combine(h)
    BY <1>2 DEF Combine
  <2> QED BY <2>1 DEF InsideAnyRepo
<1> QED BY <1>1, <1>2

\* Both commands print directories of the host.
LEMMA FindsPaths ==
    ASSUME PickerTypeOK, NEW h \in Registered
    PROVE  GitRoots(h) \subseteq Paths /\ Combine(h) \subseteq Paths
BY DEF PickerTypeOK, GitRoots, Combine, SubDirs

\* Every step of every goroutine, and the merge, keep it.
LEMMA PickerInvStep ==
    ASSUME IsFiniteSet(Paths), PickerInv, [PickerNext]_pvars
    PROVE  PickerInv'
<1> USE DEF PickerInv
<1>1. CASE Call
  BY <1>1 DEF Call, PickerTypeOK
<1>2. CASE ReturnList
  <2>1. IsList(Merge, N)
    BY MergeIsList
  <2>2. IsList(out, N)'
    BY <1>2, <2>1 DEF ReturnList, IsList
  <2>3. \A i \in DOMAIN out' : out'[i] \in Entries
    BY <2>2 DEF IsList
  <2>4. PickerTypeOK'
    BY <1>2, <2>3 DEF ReturnList, PickerTypeOK
  <2>5. Waited' /\ ~called'
    BY <1>2 DEF ReturnList, Waited
  <2>6. \A h \in Registered : results'[h] # {} => NothingHidden(h)'
    BY <1>2 DEF ReturnList, NothingHidden
  <2> QED BY <2>2, <2>4, <2>5, <2>6
<1>3. ASSUME NEW h \in Registered, SecondPrints(h) PROVE PickerInv'
  <2>1. ~Waited /\ out = <<>> /\ out' = <<>>
    BY <1>3 DEF SecondPrints, Waited
  <2>2. PickerTypeOK'
    BY <1>3, FindsPaths DEF SecondPrints, PickerTypeOK
  <2>3. ASSUME NEW g \in Registered, results'[g] # {} PROVE NothingHidden(g)'
    <3>1. CASE g = h
      <4>1. results'[g] = Combine(h)
        BY <1>3, <3>1 DEF SecondPrints, PickerTypeOK
      <4> QED BY <4>1, CombineHidesNothing DEF NothingHidden
    <3>2. CASE g # h
      <4>1. results'[g] = results[g]
        BY <1>3, <3>2 DEF SecondPrints, PickerTypeOK
      <4> QED BY <2>3, <4>1 DEF NothingHidden
    <3> QED BY <3>1, <3>2
  <2> QED BY <2>1, <2>2, <2>3
<1>4. ASSUME UNCHANGED <<results, called, out>>, PickerTypeOK', Waited => Waited'
      PROVE  PickerInv'
  <2>1. \A h \in Registered : NothingHidden(h)' <=> NothingHidden(h)
    BY <1>4 DEF NothingHidden
  <2>2. IsList(out, N) => IsList(out, N)'
    BY <1>4 DEF IsList
  <2> QED BY <1>4, <2>1, <2>2
<1>5. ASSUME NEW h \in Registered, FirstPrints(h) PROVE PickerInv'
  <2>1. PickerTypeOK'
    BY <1>5, FindsPaths DEF FirstPrints, PickerTypeOK
  <2>2. ~Waited
    BY <1>5 DEF FirstPrints, Waited
  <2> QED BY <1>4, <1>5, <2>1, <2>2 DEF FirstPrints
<1>6. ASSUME NEW h \in Registered, NEW at \in {"handshake", "done", "command", "hung"},
             Goto(h, at), pc[h] \in {"dial", "handshake", "command"}
      PROVE  PickerInv'
  <2>1. PickerTypeOK'
    BY <1>6 DEF Goto, PickerTypeOK
  <2>2. ~Waited
    BY <1>6 DEF Waited
  <2> QED BY <1>4, <1>6, <2>1, <2>2 DEF Goto
<1>7. ASSUME NEW h \in Registered, Expire(h) PROVE PickerInv'
  <2>1. PickerTypeOK'
    BY <1>7 DEF Expire, PickerTypeOK
  <2>2. Waited => Waited'
    BY <1>7 DEF Expire, Waited
  <2> QED BY <1>4, <1>7, <2>1, <2>2 DEF Expire
<1>8. ASSUME NEW h \in Registered, TreeChanges(h) PROVE PickerInv'
  <2>1. PickerTypeOK'
    BY <1>8 DEF TreeChanges, PickerTypeOK
  <2>2. Waited => Waited'
    BY <1>8 DEF TreeChanges, Waited
  <2> QED BY <1>4, <1>8, <2>1, <2>2 DEF TreeChanges
<1>9. CASE UNCHANGED pvars
  <2>1. PickerTypeOK' /\ (Waited => Waited')
    BY <1>9 DEF pvars, PickerTypeOK, Waited
  <2> QED BY <1>4, <1>9, <2>1 DEF pvars
<1>10. ASSUME NEW h \in Registered, Answers(h) PROVE PickerInv'
  BY <1>3, <1>5, <1>6, <1>10 DEF Answers, Connects, DialFails, Handshakes
<1>11. ASSUME NEW h \in Registered, Fails(h) \/ Hangs(h) PROVE PickerInv'
  BY <1>6, <1>11 DEF Fails, Hangs
<1> QED BY <1>1, <1>2, <1>7, <1>8, <1>9, <1>10, <1>11 DEF PickerNext

\* The picker's list is complete whenever the invariant holds.
LEMMA ListInPickerInv ==
    ASSUME PickerInv
    PROVE  ListIsComplete
<1>1. SUFFICES ASSUME out # <<>>
      PROVE /\ {out[i] : i \in DOMAIN out} = {e \in Entries : e.root \in results[e.host]}
            /\ \A i, j \in DOMAIN out : i < j =>
                \/ out[i].host < out[j].host
                \/ out[i].host = out[j].host /\ out[i].root < out[j].root
  BY DEF PickerInv, ListIsComplete
<1>2. IsList(out, N) /\ DOMAIN out = 1..Len(out)
  BY <1>1 DEF PickerInv, IsList
<1>3. \A e \in Entries : e.host <= N
  <2>1. \A e \in Entries : e.host \in Registered
    BY DEF Entries
  <2> QED BY <2>1, PickerAssumption DEF Registered
<1>4. \A i \in DOMAIN out : out[i] \in Entries /\ out[i].root \in results[out[i].host]
  BY <1>2 DEF IsList
<1>5. \A e \in Entries : e.root \in results[e.host] => \E i \in DOMAIN out : out[i] = e
  BY <1>2, <1>3 DEF IsList
<1> QED BY <1>2, <1>4, <1>5 DEF IsList, Before

\* The types of the picker's state hold in every reachable state, for any number
\* of hosts and any finite tree of directories.
THEOREM PickerTypes ==
    ASSUME IsFiniteSet(Paths)
    PROVE  PickerSpec => []PickerTypeOK
<1>1. PickerInit => PickerInv
  BY PickerInvInit
<1>2. PickerInv /\ [PickerNext]_pvars => PickerInv'
  BY PickerInvStep
<1>3. PickerInv => PickerTypeOK
  BY DEF PickerInv
<1> QED BY <1>1, <1>2, <1>3, PTL DEF PickerSpec

\* The picker's list has every project of every host that was indexed, once and
\* in order, and the part of a host is its whole tree or nothing: for any number
\* of hosts, whatever their goroutines interleave with, and although directories
\* become repositories or cease to be between the two commands.
THEOREM PickerListIsComplete ==
    ASSUME IsFiniteSet(Paths)
    PROVE  PickerSpec => []ListIsComplete
<1>1. PickerInit => PickerInv
  BY PickerInvInit
<1>2. PickerInv /\ [PickerNext]_pvars => PickerInv'
  BY PickerInvStep
<1>3. PickerInv => ListIsComplete
  BY ListInPickerInv
<1> QED BY <1>1, <1>2, <1>3, PTL DEF PickerSpec
=============================================================================
