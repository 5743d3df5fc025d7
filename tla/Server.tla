-------------------------------- MODULE Server --------------------------------
(* internal/server/server.go over the session manager: the threads that open   *)
(* projects and jump, the cascade that runs when a host is lost, and the       *)
(* startup and shutdown of Run.  The registry appears as the status of each    *)
(* host, the attachments as what each client is viewing.                       *)
(*                                                                             *)
(* Threads: every interface's main loop (OpenProject, Jump), the pump of every *)
(* session (the host-down hook runs in it) and the thread of Run.              *)
EXTENDS SessionManager

CONSTANTS
    Clients,    \* attached interfaces
    Main,       \* the thread of Run
    MayStop     \* bound: whether a run includes a shutdown

\* Identifiers are numbered in the order of Session.Created, which is the order
\* of manager.List.  Hooks and Run call Close and CloseHost.
ASSUME ServerAssumption ==
    /\ Ids \subseteq Nat
    /\ Closers = Ids \cup {Main}
    /\ MayStop \in BOOLEAN

VARIABLES
    status,     \* registry: reachability of each host
    viewing,    \* attachments: Client.Viewing of each client
    op,         \* per client: where it is in OpenProject or Jump, for which session
    cascade,    \* per pump: where it is in onHostDown
    phase,      \* of Run: "load", "serving", "stopping" or "stopped"
    todo,       \* hosts Run has not looked at yet while loading
    listed      \* sessions Run has not closed yet while stopping

managerVars == <<sessions, byKey, key, state, intentional, ended, pump, asked, closing, marked>>
runVars == <<phase, todo, listed>>
svars == <<managerVars, status, viewing, op, cascade, runVars>>

Statuses == {"unknown", "up", "down"}
OpSteps == {"idle", "dial", "up", "jump", "view"}
CascadeSteps == {"idle", "status", "list", "move", "resize"}

Resting == [pc |-> "idle", id |-> NoId]
NoCascade == [pc |-> "idle", closed |-> {}, left |-> {}, target |-> NoId]

ServerTypeOK ==
    /\ TypeOK
    /\ status \in [Hosts -> Statuses]
    /\ viewing \in [Clients -> Ids \cup {NoId}]
    /\ op \in [Clients -> [pc : OpSteps, id : Ids \cup {NoId}]]
    /\ cascade \in [Ids -> [pc : CascadeSteps, closed : SUBSET Ids,
                            left : SUBSET Clients, target : Ids \cup {NoId}]]
    /\ phase \in {"load", "serving", "stopping", "stopped"}
    /\ todo \subseteq Hosts /\ listed \subseteq Ids

\* A start, the first one or one after a crash in any state of an earlier life:
\* only the file is left, and whatever it says.
ServerInit ==
    /\ Init
    /\ status \in [Hosts -> Statuses]
    /\ viewing = [c \in Clients |-> NoId]
    /\ op = [c \in Clients |-> Resting]
    /\ cascade = [id \in Ids |-> NoCascade]
    /\ phase = "load"
    /\ todo = Hosts
    /\ listed = {}

-----------------------------------------------------------------------------
(* OpenProject and Jump, in the main loop of client c.  *)

Running(id) == id \in sessions /\ state[id] = "running"
Up == phase \in {"serving", "stopping"}

\* newID: creation times grow, so identifiers are taken in order.
Next1(id) == state[id] = "none" /\ \A j \in Ids : j < id => state[j] # "none"

\* Find hits: go on to Jump.
OpenExisting(c, k) ==
    /\ Up /\ op[c].pc = "idle"
    /\ byKey[k] # NoId
    /\ op' = [op EXCEPT ![c] = [pc |-> "jump", id |-> byKey[k]]]
    /\ UNCHANGED <<managerVars, status, viewing, cascade, runVars>>

\* Mutant: an open session is not looked for.
OpenNew_NoFind(c, k, id) ==
    /\ Up /\ op[c].pc = "idle"
    /\ Next1(id)
    /\ DialStart(id, k)
    /\ op' = [op EXCEPT ![c] = [pc |-> "dial", id |-> id]]
    /\ UNCHANGED <<status, viewing, cascade, runVars>>

\* Find misses: Create starts its dial.  Nothing is reserved for the key.
OpenNew(c, k, id) ==
    /\ Up /\ op[c].pc = "idle"
    /\ byKey[k] = NoId
    /\ Next1(id)
    /\ DialStart(id, k)
    /\ op' = [op EXCEPT ![c] = [pc |-> "dial", id |-> id]]
    /\ UNCHANGED <<status, viewing, cascade, runVars>>

OpenFails(c) ==
    /\ op[c].pc = "dial"
    /\ DialFail(op[c].id)
    /\ op' = [op EXCEPT ![c] = Resting]
    /\ UNCHANGED <<status, viewing, cascade, runVars>>

OpenSucceeds(c) ==
    /\ op[c].pc = "dial"
    /\ Register(op[c].id)
    /\ op' = [op EXCEPT ![c].pc = "up"]
    /\ UNCHANGED <<status, viewing, cascade, runVars>>

\* The dial succeeded some time ago: SetStatus(host, Up).
OpenMarksUp(c) ==
    /\ op[c].pc = "up"
    /\ status' = [status EXCEPT ![key[op[c].id].host] = "up"]
    /\ op' = [op EXCEPT ![c].pc = "jump"]
    /\ UNCHANGED <<managerVars, viewing, cascade, runVars>>

\* A sidebar click or a list entry: any session that was listed once.
JumpStart(c, id) ==
    /\ Up /\ op[c].pc = "idle"
    /\ pump[id] # "none"
    /\ op' = [op EXCEPT ![c] = [pc |-> "jump", id |-> id]]
    /\ UNCHANGED <<managerVars, status, viewing, cascade, runVars>>

\* Jump's checks.  Get takes m.mu and then ls.mu; what it finds in between does
\* not matter, since a session that is gone by then is closed too.
JumpChecks(c) ==
    /\ op[c].pc = "jump"
    /\ op' = [op EXCEPT ![c] = IF Running(op[c].id) THEN [@ EXCEPT !.pc = "view"] ELSE Resting]
    /\ UNCHANGED <<managerVars, status, viewing, cascade, runVars>>

JumpViews(c) ==
    /\ op[c].pc = "view"
    /\ viewing' = [viewing EXCEPT ![c] = op[c].id]
    /\ op' = [op EXCEPT ![c] = Resting]
    /\ UNCHANGED <<managerVars, status, cascade, runVars>>

-----------------------------------------------------------------------------
(* onHostDown, in the pump of the session whose PTY ended.  *)

\* Mutant: CloseHost takes every session, on whatever host.
CascadeStart_AllHosts(id) ==
    /\ pump[id] = "hook" /\ cascade[id].pc = "idle"
    /\ Free(id)
    /\ closing' = [closing EXCEPT ![id] = sessions]
    /\ cascade' = [cascade EXCEPT ![id].pc = "status", ![id].closed = sessions]
    /\ UNCHANGED <<sessions, byKey, key, state, intentional, ended, pump, asked, marked>>
    /\ UNCHANGED <<status, viewing, op, runVars>>

CascadeStart(id) ==
    /\ pump[id] = "hook" /\ cascade[id].pc = "idle"
    /\ CloseHostCollect(id, key[id].host)
    /\ cascade' = [cascade EXCEPT ![id].pc = "status", ![id].closed = OnHost(key[id].host)]
    /\ UNCHANGED <<status, viewing, op, runVars>>

\* CloseHost has returned: every target is marked and its PTY closed.
CascadeMarksDown(id) ==
    /\ cascade[id].pc = "status" /\ Free(id)
    /\ status' = [status EXCEPT ![key[id].host] = "down"]
    /\ cascade' = [cascade EXCEPT ![id].pc = "list"]
    /\ UNCHANGED <<managerVars, viewing, op, runVars>>

\* Mutant: the loop collects what is viewed where it means who views it.
CascadeLists_Sessions(id) ==
    /\ cascade[id].pc = "list"
    /\ cascade' = [cascade EXCEPT ![id].pc = "move",
                                  ![id].left = {viewing[c] : c \in Clients} \cap cascade[id].closed]
    /\ UNCHANGED <<managerVars, status, viewing, op, runVars>>

\* clients.List returns copies: the loop works on what was viewed at this moment.
CascadeLists(id) ==
    /\ cascade[id].pc = "list"
    /\ cascade' = [cascade EXCEPT ![id].pc = "move",
                                  ![id].left = {c \in Clients : viewing[c] \in cascade[id].closed}]
    /\ UNCHANGED <<managerVars, status, viewing, op, runVars>>

\* anyOpenSession, asked anew for every client: the oldest session in state Running.
\* When there is none, the client stays where it is.
AnyOpen == {id \in sessions : state[id] = "running"}
Oldest(S) == CHOOSE id \in S : \A j \in S : id <= j

\* Mutant: the hook waits for a session to move to.
CascadePicks_Waits(id) ==
    /\ cascade[id].pc = "move" /\ cascade[id].left # {} /\ cascade[id].target = NoId
    /\ AnyOpen # {}
    /\ cascade' = [cascade EXCEPT ![id].target = Oldest(AnyOpen)]
    /\ UNCHANGED <<managerVars, status, viewing, op, runVars>>

CascadePicks(id) ==
    /\ cascade[id].pc = "move" /\ cascade[id].target = NoId
    /\ \E c \in cascade[id].left :
            cascade' = IF AnyOpen = {}
                       THEN [cascade EXCEPT ![id].left = @ \ {c}]
                       ELSE [cascade EXCEPT ![id].target = Oldest(AnyOpen)]
    /\ UNCHANGED <<managerVars, status, viewing, op, runVars>>

CascadeMoves(id, c) ==
    /\ cascade[id].pc = "move" /\ cascade[id].target # NoId
    /\ c \in cascade[id].left
    /\ viewing' = [viewing EXCEPT ![c] = cascade[id].target]
    /\ cascade' = [cascade EXCEPT ![id].pc = "resize", ![id].left = @ \ {c}]
    /\ UNCHANGED <<managerVars, status, op, runVars>>

\* renegotiate: a window change is written to the target's connection, inside the
\* hook of another session's pump.  It waits while that host takes nothing, and
\* until that PTY ends.  The sizes are the subject of ResizeFlow.
ResizeWaits(id) == cascade[id].pc = "resize" /\ ended[cascade[id].target] = "no"

CascadeResizes(id) ==
    /\ cascade[id].pc = "resize"
    /\ cascade' = [cascade EXCEPT ![id].pc = "move", ![id].target = NoId]
    /\ UNCHANGED <<managerVars, status, viewing, op, runVars>>

CascadeReturns(id) ==
    /\ cascade[id].pc = "move" /\ cascade[id].left = {}
    /\ HookReturn(id)
    /\ cascade' = [cascade EXCEPT ![id] = NoCascade]
    /\ UNCHANGED <<status, viewing, op, runVars>>

-----------------------------------------------------------------------------
(* Run.  *)

\* Reachability does not survive a restart.
LoadHost(h) ==
    /\ phase = "load" /\ h \in todo
    /\ todo' = todo \ {h}
    /\ status' = [status EXCEPT ![h] = IF @ # "unknown" THEN "unknown" ELSE @]
    /\ UNCHANGED <<managerVars, viewing, op, cascade, phase, listed>>

Serve ==
    /\ phase = "load" /\ todo = {}
    /\ phase' = "serving"
    /\ UNCHANGED <<managerVars, status, viewing, op, cascade, todo, listed>>

\* ctx is done: the listener is closed and the sessions are listed.  The handlers
\* of attached interfaces are not waited for.
Stop ==
    /\ MayStop /\ phase = "serving"
    /\ phase' = "stopping"
    /\ listed' = sessions
    /\ UNCHANGED <<managerVars, status, viewing, op, cascade, todo>>

StopCloses(id) ==
    /\ phase = "stopping" /\ id \in listed /\ Free(Main)
    /\ listed' = listed \ {id}
    /\ IF id \in sessions THEN CloseLookup(Main, id) ELSE UNCHANGED managerVars
    /\ UNCHANGED <<status, viewing, op, cascade, phase, todo>>

Return ==
    /\ phase = "stopping" /\ listed = {} /\ Free(Main)
    /\ phase' = "stopped"
    /\ UNCHANGED <<managerVars, status, viewing, op, cascade, todo, listed>>

\* Serve has returned by itself, because Listen or Accept failed: so does Run, and
\* leaves the sessions to the end of the process.
ServeFails ==
    /\ MayStop /\ phase = "serving"
    /\ phase' = "stopped"
    /\ UNCHANGED <<managerVars, status, viewing, op, cascade, todo, listed>>

-----------------------------------------------------------------------------
\* What the manager does by itself, on no thread of this module.
ManagerStep ==
    /\ \/ \E id \in Ids : PumpWake(id) \/ PumpFinalize(id) \/ PumpNotify(id) \/ PumpRemove(id)
       \/ \E id \in Ids, cause \in {"exit", "lost"} : PTYEnds(id, cause)
       \/ \E t \in Closers : CloserNext(t)
    /\ UNCHANGED <<status, viewing, op, cascade, runVars>>

CascadeNext(id) ==
    \/ CascadeStart(id) \/ CascadeMarksDown(id) \/ CascadeLists(id) \/ CascadePicks(id)
    \/ CascadeResizes(id) \/ CascadeReturns(id)
    \/ \E c \in Clients : CascadeMoves(id, c)

ClientNext(c) ==
    \/ \E k \in Keys : OpenExisting(c, k)
    \/ \E k \in Keys, id \in Ids : OpenNew(c, k, id)
    \/ \E id \in Ids : JumpStart(c, id)
    \/ OpenFails(c) \/ OpenSucceeds(c) \/ OpenMarksUp(c) \/ JumpChecks(c) \/ JumpViews(c)

RunNext == Serve \/ Stop \/ Return \/ ServeFails \/ (\E h \in Hosts : LoadHost(h)) \/ \E id \in Ids : StopCloses(id)

\* Nothing to do: every interface waits for a key, every pump for its PTY; or the
\* server has returned.
Rest ==
    /\ \/ phase = "stopped"
       \/ /\ \A c \in Clients : op[c].pc = "idle"
          /\ \A id \in Ids : pump[id] \in {"none", "wait", "exit"}
          /\ \A t \in Closers : Free(t)
    /\ UNCHANGED svars

ServerNext ==
    \/ Rest
    \/ /\ phase # "stopped"
       /\ \/ ManagerStep
          \/ \E id \in Ids : CascadeNext(id)
          \/ \E c \in Clients : ClientNext(c)
          \/ RunNext

PumpStep(id) ==
    /\ phase # "stopped"
    /\ \/ /\ PumpWake(id) \/ PumpFinalize(id) \/ PumpNotify(id) \/ PumpRemove(id)
          /\ UNCHANGED <<status, viewing, op, cascade, runVars>>
       \/ ~ResizeWaits(id) /\ CascadeNext(id)

CloserStep(t) ==
    phase # "stopped" /\ CloserNext(t) /\ UNCHANGED <<status, viewing, op, cascade, runVars>>

\* A pump that can run does run, with the hook and the closing in it.  A dial may
\* hang, a window change may wait for its host, a PTY need not end, and nobody has
\* to open, jump or stop.
ServerFairness == \A id \in Ids : WF_svars(PumpStep(id)) /\ WF_svars(CloserStep(id))

ServerSpec == ServerInit /\ [][ServerNext]_svars /\ ServerFairness

-----------------------------------------------------------------------------
(* Properties *)

OnSameHost(i, j) == pump[i] # "none" /\ pump[j] # "none" /\ key[i].host = key[j].host

\* While the server runs, the only sessions closed by the server itself are on a
\* host where some other PTY has ended: a cascade never reaches another host,
\* however many of them run at once.
NoForeignClose ==
    phase = "serving" =>
        \A id \in Ids : intentional[id] =>
            \E j \in Ids : j # id /\ OnSameHost(id, j) /\ ended[j] \in {"lost", "exit"}

\* The cascade completes, with or without a session to move clients to: the hook
\* returns although it runs in a pump and takes the locks of manager, registry
\* and attachments in turn, and every session that is registered on the host when
\* it is called goes, also one that is being closed or lost at the same time.  Only
\* a window change that its host never takes holds up the hook, never what it closes.
CascadeCompletes ==
    \A id, s \in Ids :
        (/\ pump[id] = "hook" /\ cascade[id].pc = "idle"
         /\ s = id \/ (s \in sessions /\ OnSameHost(id, s)))
            ~> (phase = "stopped" \/ (s \notin sessions /\ (pump[id] = "exit" \/ []ResizeWaits(id))))

\* SPEC: a project that has a session already is switched to, so no two sessions
\* of one (host, project_root) run side by side.  It is what one interface can
\* rely on, whatever ends and restarts under it; two that open a project at the
\* same time break it.
OneSessionPerKey ==
    \A i, j \in Ids : i # j /\ Running(i) /\ Running(j) => key[i] # key[j]

-----------------------------------------------------------------------------
(* What comments and documents say beyond that, and the code does not keep: a  *)
(* small instance of each is in the README.                                    *)

\* PTY.Done and SetHostDownHook: the signal means that the host dropped.
DownMeansLost ==
    phase = "serving" =>
        \A h \in Hosts : status[h] = "down" =>
            \E id \in Ids : pump[id] # "none" /\ key[id].host = h /\ ended[id] = "lost"

\* TODO M9.6: the cascade fires exactly once per host.
CascadeOncePerHost ==
    \A i, j \in Ids : i # j /\ pump[i] = "hook" /\ pump[j] = "hook" => key[i].host # key[j].host

\* The comment on onHostDown: any attached interface is moved off the lost
\* host's sessions to another open one, if there is one.
NobodyLeftOnLostSession ==
    [][\A id \in Ids : pump[id] = "hook" /\ pump'[id] = "exit" /\ AnyOpen # {} =>
            \A c \in Clients : viewing[c] # id]_svars

\* The same comment: moved to another session, not back to one just closed.
MovedToAnother == \A id \in Ids : cascade[id].target \notin cascade[id].closed

\* The comment on Dialer.Open: the caller marks the host down when it fails.
FailedDialMarksDown ==
    [][\A c \in Clients : op[c].pc = "dial" /\ op'[c].pc = "idle" =>
            status'[key[op[c].id].host] = "down"]_svars

\* The comment in Run: every live session is closed before the server returns.
ReturnClosesEverything ==
    phase = "stopped" => \A id \in sessions : intentional[id] \/ ended[id] # "no"
=============================================================================
