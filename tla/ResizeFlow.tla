------------------------------ MODULE ResizeFlow ------------------------------
(* internal/attach/attachments.go and the way a window size reaches a PTY:     *)
(* onPaneResize and switchView of each interface, Jump and the cascade of the  *)
(* server, and Manager.Resize.  All of them negotiate under a.mu, drop it, and *)
(* apply what they computed later, so a thread here is a list of the locked    *)
(* calls it has still to make, and every call is a step.                       *)
EXTENDS FiniteSets, SequencesExt

CONSTANTS
    Clients,    \* interfaces; a connection gets a fresh id, none comes back
    Sessions,
    Sizes,      \* the sizes a pane may have, [rows, cols]
    Initial,    \* the size sessions are created with
    Policy,     \* config.ResizePolicy: "smallest" or "driver"
    MayLeave,   \* interfaces may disconnect
    LastJump,   \* nobody jumps any more once this many sessions have ended
    LastDrop,   \* no PTY ends by itself any more once this many sessions have ended
    MayDrive,   \* SetDriver is called (the server never does)
    None        \* no session, no client

\* The smallest of several sizes mixes the rows of one with the columns of another.
Shapes == [rows : {z.rows : z \in Sizes}, cols : {z.cols : z \in Sizes}]
NoSize == [rows |-> 0, cols |-> 0]

ASSUME ResizeAssumption ==
    /\ None \notin Clients /\ None \notin Sessions
    /\ Sizes \subseteq [rows : Nat \ {0}, cols : Nat \ {0}]
    /\ Initial \in Sizes
    /\ Policy \in {"smallest", "driver"}

VARIABLES
    status,     \* per client: "new", "on" (in a.clients) or "gone"
    viewing,    \* per client: Client.Viewing
    csize,      \* per client: Client.Size
    driver,     \* per session: a.driver
    ui,         \* per client: connUI.viewing
    cancel,     \* per client: the session whose subscription cancelSub ends
    subs,       \* per client: the sessions it has an open subscription to
    pumps,      \* per client: the sessions a streamPump of its is reading
    pane,       \* per client: the size its pane is laid out at
    alive,      \* running sessions
    closed,     \* per session: what the hook of its pump has closed with it
    rec,        \* per session: rec.Size
    pty,        \* per session: the window size its host was last told
    todo,       \* per thread: the calls it has still to make
    apart,      \* history: no two threads were at work at once
    unsettled   \* history: a session's size changed and nobody renegotiated it

vars == <<status, viewing, csize, driver, ui, cancel, subs, pumps, pane,
          alive, closed, rec, pty, todo, apart, unsettled>>
attachVars == <<status, viewing, csize, driver>>
subVars == <<cancel, subs, pumps>>
uiVars == <<ui, pane, subVars>>
sessionVars == <<alive, closed, rec, pty, unsettled>>

\* The goroutine of Handle, a streamPump for each session the interface streams,
\* and the pump of a session that has ended.
Main(c) == <<c, "main", None>>
Pump(c, s) == <<c, "pump", s>>
Cascade(s) == <<None, "cascade", s>>
Threads == {Main(c) : c \in Clients} \cup {Pump(c, s) : c \in Clients, s \in Sessions}
                \cup {Cascade(s) : s \in Sessions}

Calls == [op : {"stop", "show", "leave", "view", "pane", "size", "current", "stream",
                "negotiate", "record", "push", "detach", "follow", "compare", "first", "blank",
                "remove", "close", "list", "move"},
          client : Clients \cup {None}, session : Sessions \cup {None},
          size : Shapes \cup {NoSize}]
Call(op, c, s) == [op |-> op, client |-> c, session |-> s, size |-> NoSize]
Sized(op, c, s, z) == [op |-> op, client |-> c, session |-> s, size |-> z]
Negotiate(s) == Call("negotiate", None, s)

Init ==
    /\ status = [c \in Clients |-> "new"]
    /\ viewing = [c \in Clients |-> None]
    /\ csize = [c \in Clients |-> Initial]
    /\ driver = [s \in Sessions |-> None]
    /\ ui = [c \in Clients |-> None]
    /\ cancel = [c \in Clients |-> None]
    /\ subs = [c \in Clients |-> {}] /\ pumps = [c \in Clients |-> {}]
    /\ pane = [c \in Clients |-> Initial]
    /\ alive = Sessions /\ closed = [s \in Sessions |-> {}]
    /\ rec = [s \in Sessions |-> Initial] /\ pty = [s \in Sessions |-> Initial]
    /\ todo = [t \in Threads |-> <<>>]
    /\ apart = TRUE /\ unsettled = FALSE

TypeOK ==
    /\ status \in [Clients -> {"new", "on", "gone"}]
    /\ viewing \in [Clients -> Sessions \cup {None}]
    /\ csize \in [Clients -> Sizes] /\ pane \in [Clients -> Sizes]
    /\ driver \in [Sessions -> Clients \cup {None}]
    /\ ui \in [Clients -> Sessions \cup {None}]
    /\ cancel \in [Clients -> Sessions \cup {None}]
    /\ subs \in [Clients -> SUBSET Sessions] /\ pumps \in [Clients -> SUBSET Sessions]
    /\ alive \subseteq Sessions /\ closed \in [Sessions -> SUBSET Sessions]
    /\ rec \in [Sessions -> Shapes] /\ pty \in [Sessions -> Shapes]
    /\ apart \in BOOLEAN /\ unsettled \in BOOLEAN
    /\ \A t \in Threads : \A i \in DOMAIN todo[t] : todo[t][i] \in Calls

-----------------------------------------------------------------------------
(* Attachments.NegotiatedSize *)

Viewers(s) == {c \in Clients : status[c] = "on" /\ viewing[c] = s}

Least(S) == CHOOSE x \in S : \A y \in S : x <= y

\* Rows and columns shrink to the smallest viewer independently.
Smallest(V) == [rows |-> Least({csize[c].rows : c \in V}),
                cols |-> Least({csize[c].cols : c \in V})]

\* Defined when the session has a viewer.
NegotiatedSize(s) ==
    IF Policy = "driver" /\ driver[s] \in Viewers(s)
    THEN csize[driver[s]]
    ELSE Smallest(Viewers(s))

-----------------------------------------------------------------------------
(* What a thread is about to do, and what it does with the call at its head.  *)

Idle(t) == todo[t] = <<>>
AllIdle == \A t \in Threads : Idle(t)
Start(t, calls) ==
    /\ todo' = [todo EXCEPT ![t] = calls]
    /\ apart' = (apart /\ AllIdle)

At(t, op) == ~Idle(t) /\ Head(todo[t]).op = op
Then(t, calls) ==
    /\ todo' = [todo EXCEPT ![t] = calls \o Tail(todo[t])]
    /\ UNCHANGED apart

\* Mutant: the attachment is not told of the new view.
SwitchView_ScreenOnly(c, s) ==
    <<Call("stop", c, None), Call("show", c, s), Call("pane", c, None), Call("stream", c, s)>>

\* switchView: stopSub, Subscribe and u.viewing, setClientViewing, onPaneResize,
\* and at the end the goroutine that streams.
SwitchView(c, s) ==
    <<Call("stop", c, None), Call("show", c, s), Call("leave", c, s),
      Call("pane", c, None), Call("stream", c, s)>>

\* stopSub takes cancelSub and calls it.  That ends the stream, unless the pump
\* of a session that ended has its last event in the channel already.
StopSub(t) ==
    /\ At(t, "stop")
    /\ LET c == Head(todo[t]).client
           s == cancel[c]
       IN /\ cancel' = [cancel EXCEPT ![c] = None]
          /\ \/ /\ subs' = [subs EXCEPT ![c] = @ \ {s}]
                /\ pumps' = [pumps EXCEPT ![c] = @ \ {s}]
             \/ s \notin alive \cup {None} /\ UNCHANGED <<subs, pumps>>
    /\ Then(t, <<>>)
    /\ UNCHANGED <<attachVars, ui, pane, sessionVars>>

\* Subscribe under ls.mu, then viewing and cancelSub under u.mu, as one step: until
\* cancelSub is stored nobody else reaches this subscription, and a session that
\* ends in between leaves in it what one subscribed to after its end has, the last
\* event, so a Subscribe may as well come last.  (Who leaves in between is the
\* subject of InboundConn.)
Show(t) ==
    /\ At(t, "show")
    /\ LET k == Head(todo[t])
       IN /\ subs' = [subs EXCEPT ![k.client] = @ \cup {k.session}]
          /\ cancel' = [cancel EXCEPT ![k.client] = k.session]
          /\ ui' = [ui EXCEPT ![k.client] = k.session]
    /\ Then(t, <<>>)
    /\ UNCHANGED <<attachVars, pane, pumps, sessionVars>>

Stream(t) ==
    /\ At(t, "stream")
    /\ LET k == Head(todo[t])
       IN pumps' = [pumps EXCEPT ![k.client] = @ \cup ({k.session} \cap subs[k.client])]
    /\ Then(t, <<>>)
    /\ UNCHANGED <<attachVars, ui, pane, cancel, subs, sessionVars>>

\* setClientViewing reads the old view first, and renegotiates it at the end.
Leave(t) ==
    /\ At(t, "leave")
    /\ LET k == Head(todo[t])
           old == IF status[k.client] = "on" THEN viewing[k.client] ELSE None
       IN Then(t, <<Call("view", k.client, k.session)>>
                  \o IF old \in {None, k.session} THEN <<>> ELSE <<Negotiate(old)>>)
    /\ UNCHANGED <<attachVars, uiVars, sessionVars>>

SetViewing(t) ==
    /\ At(t, "view")
    /\ LET k == Head(todo[t])
       IN viewing' = IF status[k.client] = "on"
                     THEN [viewing EXCEPT ![k.client] = k.session] ELSE viewing
    /\ Then(t, <<>>)
    /\ UNCHANGED <<status, csize, driver, uiVars, sessionVars>>

\* onPaneResize with the size the pane has now.
PaneSize(t) ==
    /\ At(t, "pane")
    /\ LET c == Head(todo[t]).client
       IN Then(t, <<Sized("size", c, None, pane[c]), Call("current", c, None)>>)
    /\ UNCHANGED <<attachVars, uiVars, sessionVars>>

SetSize(t) ==
    /\ At(t, "size")
    /\ LET k == Head(todo[t])
       IN csize' = IF status[k.client] = "on"
                   THEN [csize EXCEPT ![k.client] = k.size] ELSE csize
    /\ Then(t, <<>>)
    /\ UNCHANGED <<status, viewing, driver, uiVars, sessionVars>>

\* currentView: the session on screen is the one to renegotiate.
Current(t) ==
    /\ At(t, "current")
    /\ LET c == Head(todo[t]).client
       IN Then(t, IF ui[c] = None THEN <<>> ELSE <<Negotiate(ui[c])>>)
    /\ UNCHANGED <<attachVars, uiVars, sessionVars>>

\* Mutant: without a viewer the zero size is applied.
Compute_AppliesZero(t) ==
    /\ At(t, "negotiate")
    /\ LET s == Head(todo[t]).session
           z == IF Viewers(s) = {} THEN NoSize ELSE NegotiatedSize(s)
       IN Then(t, <<Sized("record", None, s, z), Sized("push", None, s, z)>>)
    /\ UNCHANGED <<attachVars, uiVars, sessionVars>>

\* resizeSessionToNegotiated and Server.renegotiate: nothing without a viewer.
Compute(t) ==
    /\ At(t, "negotiate")
    /\ LET s == Head(todo[t]).session
       IN Then(t, IF Viewers(s) = {} THEN <<>>
                  ELSE <<Sized("record", None, s, NegotiatedSize(s)),
                         Sized("push", None, s, NegotiatedSize(s))>>)
    /\ UNCHANGED <<attachVars, uiVars, sessionVars>>

\* Manager.Resize: rec.Size under ls.mu, then the window change outside it.
Record(t) ==
    /\ At(t, "record")
    /\ LET k == Head(todo[t])
       IN rec' = IF k.session \in alive THEN [rec EXCEPT ![k.session] = k.size] ELSE rec
    /\ Then(t, <<>>)
    /\ UNCHANGED <<attachVars, uiVars, alive, closed, pty, unsettled>>

Push(t) ==
    /\ At(t, "push")
    /\ LET k == Head(todo[t])
       IN pty' = IF k.session \in alive THEN [pty EXCEPT ![k.session] = k.size] ELSE pty
    /\ Then(t, <<>>)
    /\ UNCHANGED <<attachVars, uiVars, alive, closed, rec, unsettled>>

\* finalize takes the session from the map before it runs the hook.
Unmap(t) ==
    /\ At(t, "remove")
    /\ Then(t, <<>>)
    /\ UNCHANGED <<attachVars, uiVars, sessionVars>>

Mapped(s) == s \in alive \/ At(Cascade(s), "remove")

\* onHostDown closes what is on the host: any of the sessions in the map, since
\* which of them share a host is left open.  What it closes runs on until its own
\* pump has finalized it.
CloseHost(t) ==
    /\ At(t, "close")
    /\ LET s == Head(todo[t]).session
       IN /\ \E q \in SUBSET {x \in Sessions : Mapped(x)} : closed' = [closed EXCEPT ![s] = q]
          /\ Then(t, <<Call("list", None, s)>>)
    /\ UNCHANGED <<attachVars, uiVars, alive, rec, pty, unsettled>>

\* ... finds the clients on the sessions it has closed, in map order,
ViewersOf(S) == UNION {Viewers(s) : s \in S}

ListViewers(t) ==
    /\ At(t, "list")
    /\ \E q \in SetToSeqs(ViewersOf(closed[Head(todo[t]).session])) :
        Then(t, [i \in DOMAIN q |-> Call("move", q[i], None)])
    /\ UNCHANGED <<attachVars, uiVars, sessionVars>>

\* and moves each to anyOpenSession, which is renegotiated.
Move(t) ==
    /\ At(t, "move")
    /\ LET c == Head(todo[t]).client
       IN \/ alive = {} /\ Then(t, <<>>)
          \/ \E s \in alive : Then(t, <<Call("view", c, s), Negotiate(s)>>)
    /\ UNCHANGED <<attachVars, uiVars, sessionVars>>

\* Mutant: the designations of a client outlive it.
Detach_KeepsDriver(t) ==
    /\ At(t, "detach")
    /\ status' = [status EXCEPT ![Head(todo[t]).client] = "gone"]
    /\ Then(t, <<>>)
    /\ UNCHANGED <<viewing, csize, driver, uiVars, sessionVars>>

\* The client and the designations it held go.
Detach(t) ==
    /\ At(t, "detach")
    /\ LET c == Head(todo[t]).client
       IN /\ status' = [status EXCEPT ![c] = "gone"]
          /\ viewing' = [viewing EXCEPT ![c] = None]
          /\ driver' = [s \in Sessions |-> IF driver[s] = c THEN None ELSE driver[s]]
          /\ unsettled' = (unsettled \/ Viewers(viewing[c]) # {c})
    /\ Then(t, <<>>)
    /\ UNCHANGED <<csize, uiVars, alive, closed, rec, pty>>

\* onViewStopped reads the attachment under a.mu,
Follow(t) ==
    /\ At(t, "follow")
    /\ LET c == Head(todo[t]).client
       IN Then(t, IF status[c] = "on" /\ viewing[c] # None
                  THEN <<Call("compare", c, viewing[c])>> ELSE <<Call("first", c, None)>>)
    /\ UNCHANGED <<attachVars, uiVars, sessionVars>>

\* Mutant: only a move the server made is followed.
Compare_WaitsForMove(t) ==
    /\ At(t, "compare")
    /\ LET k == Head(todo[t])
       IN Then(t, IF k.session # ui[k.client] THEN SwitchView(k.client, k.session)
                  ELSE <<Call("blank", k.client, None)>>)
    /\ UNCHANGED <<attachVars, uiVars, sessionVars>>

\* then what is on screen under u.mu,
Compare(t) ==
    /\ At(t, "compare")
    /\ LET k == Head(todo[t])
       IN Then(t, IF k.session # ui[k.client] THEN SwitchView(k.client, k.session)
                  ELSE <<Call("first", k.client, None)>>)
    /\ UNCHANGED <<attachVars, uiVars, sessionVars>>

\* then, when the server has not moved it, firstRunning under m.mu,
FirstRunning(t) ==
    /\ At(t, "first")
    /\ LET c == Head(todo[t]).client
       IN \/ alive = {} /\ Then(t, <<Call("blank", c, None)>>)
          \/ \E s \in alive : Then(t, SwitchView(c, s))
    /\ UNCHANGED <<attachVars, uiVars, sessionVars>>

\* and at last clears the screen, whatever has come onto it meanwhile.
Blank(t) ==
    /\ At(t, "blank")
    /\ ui' = [ui EXCEPT ![Head(todo[t]).client] = None]
    /\ Then(t, <<>>)
    /\ UNCHANGED <<attachVars, pane, subVars, sessionVars>>

Run(t) ==
    \/ StopSub(t) \/ Show(t) \/ Stream(t) \/ Detach(t) \/ Leave(t) \/ SetViewing(t)
    \/ PaneSize(t) \/ SetSize(t) \/ Current(t)
    \/ Compute(t) \/ Record(t) \/ Push(t)
    \/ Follow(t) \/ Compare(t) \/ FirstRunning(t) \/ Blank(t)
    \/ Unmap(t) \/ CloseHost(t) \/ ListViewers(t) \/ Move(t)

-----------------------------------------------------------------------------
(* What sets a thread to work.  *)

Ended == Cardinality(Sessions \ alive)

\* Handle: Attach with the pane size of the window, then autoAttach.
Connect(c, z) ==
    /\ status[c] = "new"
    /\ status' = [status EXCEPT ![c] = "on"]
    /\ csize' = [csize EXCEPT ![c] = z]
    /\ pane' = [pane EXCEPT ![c] = z]
    /\ \/ alive = {} /\ UNCHANGED <<todo, apart>>
       \/ \E s \in alive : Start(Main(c), SwitchView(c, s))
    /\ UNCHANGED <<viewing, driver, ui, subVars, sessionVars>>

\* A window change or a sidebar toggle has the next frame lay the pane out anew.
Layout(c, z) ==
    /\ status[c] = "on" /\ Idle(Main(c))
    /\ z # pane[c]
    /\ pane' = [pane EXCEPT ![c] = z]
    /\ Start(Main(c), <<Sized("size", c, None, z), Call("current", c, None)>>)
    /\ UNCHANGED <<attachVars, ui, subVars, sessionVars>>

\* Mutant: the session that is left keeps the size it had.
Jump_ForgetsOld(c, s) ==
    /\ Ended < LastJump /\ status[c] = "on" /\ Idle(Main(c))
    /\ s \in alive
    /\ Start(Main(c), <<Call("view", c, s), Negotiate(s)>> \o SwitchView(c, s))
    /\ UNCHANGED <<attachVars, uiVars, sessionVars>>

\* Server.Jump from the sidebar or the session list, then switchView.
Jump(c, s) ==
    /\ Ended < LastJump /\ status[c] = "on" /\ Idle(Main(c))
    /\ s \in alive
    /\ Start(Main(c), <<Call("view", c, s)>>
                      \o (IF viewing[c] \in {None, s} THEN <<>> ELSE <<Negotiate(viewing[c])>>)
                      \o <<Negotiate(s)>> \o SwitchView(c, s))
    /\ UNCHANGED <<attachVars, uiVars, sessionVars>>

\* Handle returns: stopSub, then Detach.
Quit(c) ==
    /\ MayLeave
    /\ status[c] = "on" /\ Idle(Main(c))
    /\ Start(Main(c), <<Call("stop", c, None), Call("detach", c, None)>>)
    /\ UNCHANGED <<attachVars, uiVars, sessionVars>>

\* Setting a driver renegotiates nothing.
SetDriver(s, c) ==
    /\ MayDrive
    /\ status[c] = "on"
    /\ driver' = [driver EXCEPT ![s] = c]
    /\ UNCHANGED <<status, viewing, csize, uiVars, alive, closed, rec, pty, todo, apart>>
    /\ unsettled' = (unsettled \/ (Viewers(s) # {} /\ NegotiatedSize(s)' # NegotiatedSize(s)))

\* The PTY of s ends, and its pump finalizes it, as unexpected: the flag may have
\* been read before a CloseHost sets it.
HostDown(s) ==
    /\ s \in alive /\ Ended < LastDrop
    /\ alive' = alive \ {s}
    /\ Start(Cascade(s), <<Call("remove", None, s), Call("close", None, s)>>)
    /\ UNCHANGED <<attachVars, uiVars, closed, rec, pty, unsettled>>

\* The pump of a session CloseHost has closed finalizes it, and runs no hook.
ClosedEnds(s) ==
    /\ s \in alive \cap UNION {closed[x] : x \in Sessions}
    /\ alive' = alive \ {s}
    /\ Start(Cascade(s), <<Call("remove", None, s)>>)
    /\ UNCHANGED <<attachVars, uiVars, closed, rec, pty, unsettled>>

\* A streamPump reads the last event of its session and runs onViewStopped,
\* whatever is on screen by now.
ViewStopped(c, s) ==
    /\ s \in pumps[c] /\ s \notin alive /\ Idle(Pump(c, s))
    /\ pumps' = [pumps EXCEPT ![c] = @ \ {s}]
    /\ subs' = [subs EXCEPT ![c] = @ \ {s}]
    /\ Start(Pump(c, s), <<Call("follow", c, None)>>)
    /\ UNCHANGED <<attachVars, ui, pane, cancel, sessionVars>>

Next ==
    \/ \E t \in Threads : Run(t)
    \/ \E c \in Clients, z \in Sizes : Connect(c, z) \/ Layout(c, z)
    \/ \E c \in Clients, s \in Sessions : Jump(c, s) \/ ViewStopped(c, s) \/ SetDriver(s, c)
    \/ \E c \in Clients : Quit(c)
    \/ \E s \in Sessions : HostDown(s) \/ ClosedEnds(s)

\* A goroutine that has calls to make gets to make them, and a PTY that has been
\* closed wakes its pump.
Fairness ==
    /\ \A t \in Threads : WF_vars(Run(t))
    /\ \A c \in Clients, s \in Sessions : WF_vars(ViewStopped(c, s))
    /\ \A s \in Sessions : WF_vars(ClosedEnds(s))

Spec == Init /\ [][Next]_vars /\ Fairness

-----------------------------------------------------------------------------
(* Properties *)

\* No host has dropped: no cascade and no pump has moved anybody.
Undisturbed == alive = Sessions

\* Once every call has run, a session has the size its viewers negotiate:
\* rec.Size and the remote window alike.
FitsWhenQuiet ==
    AllIdle /\ Undisturbed => \A s \in Sessions : Viewers(s) # {} =>
        pty[s] = NegotiatedSize(s) /\ rec[s] = NegotiatedSize(s)

\* Several interfaces that connect, jump and change their windows one after the
\* other, none of them before the last one's calls are done, always leave every
\* session at the size its viewers negotiate: it shrinks for one who comes and
\* grows back for one who goes to another session, and the driver has its way.
FitsIfApart == apart /\ ~unsettled => FitsWhenQuiet

\* The same when interfaces disconnect: the others get their room back.
FitsAfterDetach == apart => FitsWhenQuiet

\* Only clients that are attached are designated drivers.
DriversAttached ==
    \A s \in Sessions : driver[s] # None => status[driver[s]] = "on"

\* stopSub is deferred in Handle: an interface that has left has no subscription.
\* Without a host that drops: the pump it leaves behind may make one.
LeftStreamsNothing == \A c \in Clients : status[c] = "gone" => subs[c] = {}

\* While only the interface itself moves its view, what it is counted for is what
\* it shows: its attachment names the session on its screen, with the size of its
\* pane, and it streams that session and no other; when it has left, it streams
\* nothing.
ViewAgrees ==
    AllIdle /\ Undisturbed =>
        /\ LeftStreamsNothing
        /\ \A c \in Clients : status[c] = "on" /\ ui[c] # None =>
            viewing[c] = ui[c] /\ csize[c] = pane[c] /\ subs[c] = {ui[c]}

\* An interface whose session ended is on another one in the end, if any runs.
ScreenIsMoved ==
    \A c \in Clients :
        (status[c] = "on" /\ ui[c] \in Sessions \ alive)
            ~> (ui[c] \in alive \/ alive = {} \/ status[c] # "on")
=============================================================================
