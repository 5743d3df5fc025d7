# dmux in TLA+

dmux is one server process that its users reach over SSH: it shows each of them a
terminal interface, and behind it holds SSH sessions to a handful of hosts.  The
modules here specify the parts of that server that run concurrently or outlive a
crash, check them with TLC on small instances, and prove the results that matter
most for every instance with TLAPS.  Paths below are relative to `src/`.

## 1. The system and its components

```
 user's terminal
      | SSH
 internal/sshd      one goroutine per connection, one per channel request
      |
 internal/tui       per connection: Handle's main loop, one streamPump goroutine
      |      \
      |       internal/attach     who is attached, viewing what, at what size
 internal/server    Run, OpenProject, Jump, Projects, the host-down hook
      |      |          \
      |      |           internal/registry   hosts.json   <---- dmux connect, dmux sethome
      |      internal/project    two `find` commands per host
 internal/session   two maps; per session a pump, a reader, subscribers, scrollback
      |
 internal/remote    dialer, one SSH connection per session, known_hosts
      |
   hosts
```

| component | state | operations | what makes it hard | correct when |
|---|---|---|---|---|
| `internal/session/manager.go` | `sessions`, `byKey` under `m.mu`; record, `intentional`, `closed`, `subs` under `ls.mu` | Create, pump, finalize, Close, CloseHost, Find, Resize, Subscribe, broadcast, cancel | pumps, closers and creators interleave between the two locks; the flag is read long before it is used; three goroutines send on and close the same channels | Find is sound; what was closed on purpose never reports a lost host; whatever ended is removed; no panic; a viewer sees output in order, without an avoidable gap, and is told of the end |
| `internal/server/server.go` | `phase` of Run; nothing else of its own | Run, OpenProject, Jump, onHostDown, Projects | the cascade runs in the pump of a session while other pumps run theirs, and calls manager, registry and attachments in turn with no lock across | it closes sessions of its own host only, marks the host down, returns; status does not survive a restart; a project is opened once |
| `internal/registry/file_registry.go` | `hosts` under `r.mu`; `hosts.json`, `hosts.json.tmp` | Load, Add, four setters, saveLocked | crashes and failures between the steps of a save; a second process | the file is whole; what was acknowledged survives |
| `internal/attach/attachments.go` | clients, their view and size, drivers | Attach, Detach, SetViewing, SetSize, SetDriver, NegotiatedSize | a size is negotiated in one critical section and applied in others | sessions are at the size of their viewers; drivers are attached |
| `internal/tui/tui.go`, `pane.go` | `viewing`, `cancelSub`, the pane | Handle, switchView, stopSub, streamPump, onViewStopped, onPaneResize | the main loop and the pump both run switchView | one subscription, on the session on screen; screen and attachment agree; a view that ended is left |
| `internal/tui/render.go`, `overlay.go`, `sidebar.go` | `mode`, `overlay`, selection, filter, rows and their buttons | handleEvent, the prefix commands, the overlays, rebuild, routeMouse | the pump resets the mode between any two steps of a key; the list changes between press and release | the keyboard belongs to what the user sees; a key or a click acts on what it was meant for |
| `internal/project/indexer.go` with `Server.Projects` | results per host | Index, merge | a goroutine per host, two connections each, repositories that come and go, hosts that fail or hang | complete and sorted, nothing hidden, nothing half; it comes up |
| `internal/remote/dialer.go`, `pty.go` | known_hosts under `keyMu`, `done` | Open, Run, Verify, the host key callback, Wait, keepalive, Close | connections meet a host for the first time together; files are written in part; endings from four sides | one key per host is ever accepted; no way out leaves a connection open; a drop is noticed |
| `internal/sshd/server.go`, `conn.go` with `TUI.Handle` | the listener; queue of window sizes, `closeOnce`, the channel | Serve, Close, handleConn, serviceRequests, pushResize, the loop and the deferred calls of Handle | the queue is bounded and closed under its writer; Handle may be in a dial or blocked in a write when the client goes or the server stops | no panic; the last size is drawn; the terminal is restored; everything of a client goes with it; Serve ends |
| `internal/config/config.go`, `cmd/dmux` | the key pair on disk, authorized_keys on a host | EnsureHostKey, serve, connect, sethome, setup | processes that die between file operations, two of them at once, a file that ends in the middle of a line | a host that was set up, or registered, trusts every server started later |

`PROJECT.json` lists the same parts with what is modelled of each, and every
hazard with its line and the property that watches it.

## 2. The modules

A step of a model is one critical section of the code (everything between a Lock
and its Unlock), one system call, or one call that leaves the process.  Between
two steps any other goroutine may run.  Names of actions and variables are those
of the code wherever TLA+ allows it.

| module | models | built on |
|---|---|---|
| `SessionManager` | `manager.go`: Create to finalize, Close, CloseHost, Find; the ways a PTY ends | |
| `StreamContract` | what a subscriber is promised, with no channel in sight | |
| `EventStream` | one session's reader, broadcast, scrollback, Subscribe, cancel, finalize, and a viewer that replays and streams | implements `StreamContract` |
| `Server` | Run, OpenProject, Jump, onHostDown | `EXTENDS SessionManager` |
| `DurableMap` | a map that is flushed whole and found again | |
| `HostRegistry` | `file_registry.go` over inodes and names, for several processes | implements `DurableMap` |
| `ResizeFlow` | `attachments.go` and every path of a size or a view through interface, server and manager | |
| `ProjectPicker` | `Server.Projects`, `Indexer.Index`, `Dialer.Run` | |
| `Interface` | keys, prefix, overlays, filter, the sidebar's rows and buttons, and the view that moves underneath | |
| `InboundConn` | `internal/sshd` from Listen to the end, one connection, `TUI.Handle` from its first to its last deferred call | |
| `Dialer` | `dialer.go` and `pty.go`: dial, the host key callback and its file, every error path, Wait and keepalive | |
| `Onboarding` | `EnsureHostKey`, `dmux serve` and `connect` as processes, `dmux setup`, the Verify before Add | |
| `MC*` | the values the configurations give to constants | the module they check |
| `*_proofs` | theorems; `Server_proofs` has those about the manager and about `ProjectPicker` as well | the module they prove about, `TLAPS` |

An operator `X_Something` directly before an operator `X` is a variant of `X` with
a mistake that could be made in that code; none is used by a specification.  It
documents, for each property, a mistake the property detects.

**SessionManager.**  `sessions` and `byKey` are the two maps, `key`, `state` and
`intentional` the fields of a live session, `pump` the program counter of its
goroutine: `wait` (the select), `finalize` (mark closed under `ls.mu`), `notify`
(tell subscribers, close the PTY), `remove` (both maps under `m.mu`), `hook`.
`asked` is the local copy of the flag.  A dial (`DialStart` .. `Register`,
`DialFail`) runs outside every lock, so creations of one key overlap.  Close and
CloseHost are a lookup (`CloseLookup`, `CloseHostCollect`), then per target
`Mark` (the flag, under `ls.mu`) and `Drop` (`pty.Close`).  A shell that exits
and a host that is lost are told apart in `ended`, which the code never sees.

**EventStream.**  Output is numbered chunks; a Go channel is the sequence of its
buffered events with a gate that is open or closed; a send on or close of a
closed channel sets `panicked`.  `FinalizeMark` swaps the subscribers out under
`ls.mu`; `FinalizeNotify` sends with no lock held and waits for room.  `Replay`
is the snapshot of the scrollback that `switchView` takes after subscribing; a
`Cancel` may come before it, by another goroutine's `stopSub`, and at any time after.
`dropped` is a history variable: what a full buffer cost a subscriber.

**Server** adds the threads: an interface's main loop is `op` (`dial`, `up`,
`jump`, `view`), a hook is `cascade` (`status`, `list`, `move`, `resize`) inside the
pump whose session ended, `Run` is `phase`.  For each client it moves, the hook
looks for an open session anew (`CascadePicks`), sets the view (`CascadeMoves`) and
writes a window change to that session's host (`CascadeResizes`), which may wait
for as long as that session runs (`ResizeWaits`).  A life of the server begins in `ServerInit`
with whatever `status` the file holds, which is all that outlives a process, so a
restart is a new behaviour and not a step.  `Stop` is the end of the context,
`ServeFails` a listener that fails.

**HostRegistry.**  `data` maps inodes to bytes and `path`, `tmp` are the two names,
because two processes that share the temporary name write to inodes, not names.
A save is `SaveOpen` (truncate or create), `SaveWrite`, `SaveRename`; `SaveFails`
is an error at any of them and `Die` a crash at any of them.  A file that has been
opened holds `Torn` until it is written.

**ResizeFlow.**  All paths negotiate under `a.mu`, release it and apply the result
later, so a thread is the list `todo` of locked calls it still has to make, each
a step: `switchView` is stop, show, leave, pane, stream; `Server.Jump` is view,
negotiate; a negotiation becomes a record (`rec.Size`) and a push (the window
change on the wire).  The threads are the main loop of each interface, a stream
pump for each interface and session, and the pump of each session, so any number of
cascades and of pumps run at once.  `onViewStopped` is its own reads, one after the
other (`Follow` under `a.mu`, `Compare` under `u.mu`, `FirstRunning` under `m.mu`), and
then `switchView` or `Blank`.  A session that ends is taken from the map (`Unmap`)
before its hook closes what is on the host (`CloseHost`, any set of sessions, since
hosts are not told apart here), and what was closed ends when its own pump gets
there (`ClosedEnds`).  `Show` makes one step of Subscribe and of storing what it
returned: until that is stored nobody else reaches the subscription, and one whose
session ends in between holds what a later Subscribe would return, the last event.
Two subscriptions of one interface to one session are one element of `subs`.

`apart` and `unsettled` are history variables that say when a claim of `ResizeFlow` is
made: no two threads were at work at once, and no session has lost a viewer without
being sized again.

**ProjectPicker.**  `pc` is a host's goroutine on its first or second command:
`dial` is bounded by the context, `handshake` and `command` are not, and a host
in `Hanging` may go to `hung`.  Directories are numbers with a given order
`Below`; what `find` prints is computed from `repos`, which changes at any time.

**Interface.**  A stream pump that reads Stopped decides first (`ViewStopped`) and
shows what it chose later (`PumpShows`), whatever is on the screen by then, as the
main loop does after a jump (`Show`); both go through `SwitchView`, which sets the mode
back to streaming.  `at` is the step of `Handle` for the key in hand; every step holds
`u.mu` at most once.  Entries are labels, a filter is any ordered choice of
entries (the fuzzy matcher is a library), a query is its length.  `built` is what
the rows of the sidebar were last built for; `Render` makes them anew when that has
changed, and `pressed` are the buttons that are down, by their place.  The history
variables say what was meant: `due` what the user meant a key for, `sent` what the
last key that reached a session was meant for, `held` the sessions the mouse went
down on, `asked` the session on the screen when a rename was asked for.

**InboundConn.**  The goroutines around one connection: `serve` with the one that
waits for the context, `conn` (handleConn), `reader` (serviceRequests), `at` (Handle,
with its deferred calls in their order) and `pump`, a streamPump for each
subscription.  A subscription is a numbered stream with the state of its channel in
`sub`; `switchView`, in Handle or in a pump, is stop (`BeginSwitch`), `Subscribe`,
`Store` and the window change that goes with it, and `making` is the stream an actor
is about to store.  Handle waits for a host in a dial, in the write of a key and in a
window change (`at` in `dial`, `send`, `push`).  To push to the closed queue panics
(`reader` is `panicking`) and the deferred recover is a step of its own
(`Recovers`); to close it a second time would set `crashed`, and only `closeOnce`
keeps the second Close, of handleConn, from doing so.  The client's end is
`link`; a client that has `stalled` blocks whoever writes to it.  `wire` are
requests under way, `queue` is `conn.resize`, `shut` that it is closed.  Other
connections, and other session channels of one, which `sshd/server.go:116-132`
accepts in any number, run the same code on variables of their own, so one channel is
enough: what they share is in `ResizeFlow` and `SessionManager`.

**Dialer.**  Each connection goes through `dial`, `key` (waiting for `keyMu`),
`read`, `append`, `auth`, `session`, then `pty`, `stdin`, `stdout`, `shell` and `live`
(Open) or `command` (Run, Verify).  A function that returns from one of these stages
owes the Close calls of that path (`Cleanup`, stage by stage as in the code); in
`unwind` they are made one by one, sess.Close before client.Close, and only when
none is owed is the connection `over`.  `known`
is what a reader of known_hosts finds for a host; a line that was written in part
leaves `torn`, and the next line is read as a part of it.  `Fault` tells apart a
host that hangs above TCP, a network that is cut and a connection that is reset.

**Onboarding.**  `os.WriteFile` is two steps, `Creates` and `Writes`, and `Die` may
come between any two.  A generated key is like none that is anywhere (`Fresh`); two
keys are enough for a second one to be generated after a crash.  authorized_keys is
three things the code and sshd tell apart: the keys that are accepted, the keys
whose text is in the file, and what an unfinished last line holds.

## 3. What TLC checks

All runs finish with no state left to explore, with the bounds below.

| run | instance | shows |
|---|---|---|
| `SessionManager_close` | 2 sessions, 2 projects, 2 closing threads | types; `FindIsSound`; `AskedNeverReportsHostDown`; liveness: `LookedUpIsClosed` |
| `EventStream_viewers` | 2 subscribers, buffer 2, scrollback 1, 3 chunks | types; `NoPanic`; `NoGapAfterReplay`; refinement of `StreamContract` (order, Stopped once and last); liveness: `EveryViewerIsTold` |
| `Server_cascade` | 2 sessions, 2 hosts, 1 interface, a start with any file, a shutdown | types; `NoForeignClose`; `OneSessionPerKey`; liveness: `CascadeCompletes` |
| `HostRegistry_alone` | 1 process, 2 hosts, 2 values, 3 inodes | types; `AckedIsStored`; refinement of `DurableMap` |
| `HostRegistry_lost` | `serve` and `connect` on one directory | **violated**: `ConnectedSurvives` |
| `ResizeFlow_apart` | 3 interfaces, 2 sessions, 3 sizes, driver policy, interfaces that leave | types; `FitsIfApart`; `ViewAgrees`; `DriversAttached` |
| `ResizeFlow_automove` | 1 interface, 3 sessions of which 2 end by themselves and the hooks close any | liveness: `ScreenIsMoved` |
| `ProjectPicker_hosts` | 2 hosts, 3 directories, one host may hang | types; `ListIsComplete`; liveness: `PickerAnswersUnlessHung` |
| `Interface_keys` | 2 sessions that end, 1 host, lists of 2, queries of 1 | types with the selection; `ModeHasOverlay`; action property: `ActsOnWhatWasAsked` |
| `InboundConn_life` | 1 connection, 1 key read ahead; either a queue of 1 and 2 requests of 3 sizes, cut at 3, or 2 streams | types; `NoPanic`; `SizeIsCurrent`; `TerminalRestored`; liveness: `ConnectionIsCleared`, `ServeReturns` |
| `Dialer_pins` | 2 connections of one process, 2 hosts, 2 keys | types with the lock; `FirstUseIsPinned`; `NothingLeft`; liveness: `DropIsNoticed` |
| `Onboarding_trust` | `serve` and `connect`, 2 hosts, 2 keys | types; `SetupIsEnough`; `RegisteredTrusts` |

**Why these bounds.**  Two sessions are what it takes for two pumps, two keys or
two creations of one key to collide; a second closing thread marks what the first
has collected.  Two hosts are what it takes for a cascade to reach a wrong one.
A buffer of 2 below 3 chunks fills and drops, also while `Stopped` waits for room,
and a scrollback of 1 forgets.  Three inodes are both names and a file that is
still open.  The sizes 1x2 and 2x1 fit in neither order, so a minimum mixes both;
2x2 holds both.  Three interfaces are needed for a session to be left by one of
several viewers, and for a driver among them.  Directory 2 inside 1 inside 0 has a
repository below a plain directory, and one that comes to lie inside another.
Lists of two entries have a first, a last and a filtered-out one, and a query of
one is filtered and given up again.  A queue of one size is full and drops at the
second request; cut at 3 instead of 2^16, one of the three sizes loses its rows and
one its columns.  Two streams are one that ends or is left and one it is followed by,
in Handle or in a pump, so the overlap the property excepts is in the run.  Three
sessions under one interface let the session it was moved to end as well, while the
hook of the first is still at work; its configuration has nobody jump
(`LastJump` = 0) and leaves one session that only a hook can end (`LastDrop` = 2).
With two sessions and a jump before the first end the property holds as well
(888,779 states).  In `Server_cascade` the target of a hook's window change has
always been closed or lost by the time the hook gets there, so `ResizeWaits` does
not wait in it.  Two connections to one host, or to two, are what it takes to
contend for `keyMu`; a third meets a file that two have written to, and is used
for a refutation only.  Two keys are the pair that was made and the one a later
process would make.

`MCSpec` of `InboundConn` adds to the next-state relation that a client asks for
sizes or the interface makes streams, not both: the two meet in the place of Handle
only, and together they are out of reach.  No fair step is lost by it, since whoever would
make a stream may also find no session, or have another key.  `CONSTRAINT Apart` in `ResizeFlow_apart` stops where `FitsIfApart` claims nothing
any more, so in that run the other invariants speak of interfaces that take turns;
the types, `ViewAgrees` and `DriversAttached` are proved without it.  Symmetry is
used with invariants only.  `MaxAsks`, `MaxKeys`,
`MaxChunk`, `MaxQuery` and `Entries` bound inputs, not behaviour.

**Deadlock.**  `CHECK_DEADLOCK FALSE` is set where the system may really stop:
`ResizeFlow` and `Interface` (all interfaces have left), and `InboundConn` (the process
has exited).
Everywhere else TLC also shows that nothing gets stuck: `Server` and
`EventStream` say explicitly when there is nothing to do (`Rest`, `AllOver`), so a
pump that waits for ever would be reported.

**Fairness.**  Only for goroutines that are runnable with no outside help: pumps
(`PumpNext`, `Pump`, `PumpStep`), threads in Close or CloseHost, an interface's
remaining calls (`Run`), the stream goroutines (`PumpNext` of `InboundConn`), which
paint into memory and never wait for their client, sessions whose PTY has been closed
(`ClosedEnds`), expiring deadlines, the goroutines of a PTY, and TCP, which
gives up on data that is never acknowledged.  It is weak except in `InboundConn`,
where the loop of Handle may always find a redraw ready: Go's `select` chooses at
random, so `TakeKey` and `Leave` have strong fairness.  Nobody is obliged to type,
read, dial successfully, exit, drop or stop, a host in `Hanging` or a `hung`
connection need not answer, and no host need take a key or a window change:
`ConnectionIsCleared` and `CascadeCompletes` except an interface, and a hook, that
waits for one for ever (`Awaiting`, `ResizeWaits`).  `HostRegistry`, `Interface` and `Onboarding` have no
fairness and no liveness property.

## 4. What TLC finds against the documentation

One of the runs refutes a statement of the repository:

* `HostRegistry_lost`.  `cmd/dmux/main.go:9-11` has the admin commands change the
  registry on disk while the server runs, and `SPEC.md:45-46` promises that hosts
  reappear after a restart.  The server loads once and rewrites the whole file from
  memory (`file_registry.go:79`), so its next `SetStatus` erases the host that
  `dmux connect` has just registered successfully.

Other statements do not hold either.  Each is stated in its module; the instance
named here is enough for TLC to refute it, in seconds, when it is made the
property of a configuration like those above.

| definition | instance | what happens |
|---|---|---|
| `FindFindsExisting` (SessionManager) | 2 sessions, 1 project | finalize deletes `byKey[key]` also when the entry names the other session of that key (`manager.go:208`) |
| `OneSessionPerKey` (Server) | 2 interfaces, 1 project | both miss in Find and both dial (`server.go:274`) |
| `PumpNeverBlocks` (EventStream) | 1 subscriber, buffer 2 | finalize's last send blocks (`manager.go:201`); broadcast never does |
| `DownMeansLost` (Server) | 1 host | a shell that exits marks its host down (`dialer.go:177`) |
| `CascadeOncePerHost` (Server) | 2 sessions, 1 host | both pumps read their flag before either cascade sets it |
| `NobodyLeftOnLostSession` (Server) | 2 sessions, 2 hosts | the session that dropped is out of the maps when the cascade lists (`server.go:160`); its viewers move only because each interface follows the end of its stream, see `ScreenIsMoved` |
| `MovedToAnother` (Server) | 2 sessions, 1 host | a session just closed is still listed as running and chosen |
| `FailedDialMarksDown` (Server) | 1 session | OpenProject returns the error and leaves the status |
| `ReturnClosesEverything` (Server) | 1 session, `MayStop` | a dial that ends after Run listed the sessions registers one more |
| `FileIsWhole` (HostRegistry) | 2 processes | both use one temporary name, and one renames what the other writes |
| `FitsWhenQuiet` (ResizeFlow) | 2 interfaces, 1 session | of two negotiations the older is applied last |
| `FitsAfterDetach` (ResizeFlow) | 2 interfaces, `MayLeave` | Handle detaches without renegotiating (`tui.go:111`) |
| `ViewAgrees` without `Undisturbed` (ResizeFlow) | 1 interface, 3 sessions, `LastJump` = 1, `LastDrop` = 2 | the cascade moves a client that has jumped meanwhile; two goroutines in switchView leave one subscription open |
| `LeftStreamsNothing` (ResizeFlow) | 1 interface, 2 sessions, `LastJump` = 1, `LastDrop` = 2, `MayLeave` | the pump of an interface that is leaving follows the end of its session and subscribes anew after stopSub (`tui.go:292`) |
| `LeavesNoStream` (InboundConn) | 2 streams, `Asked` empty | the same, and two actors in switchView at once: each cancels what it finds, and one of the subscriptions they make is stored over the other |
| `PickerAnswers` (ProjectPicker) | 2 hosts, one in `Hanging` | `server.go:230-231` promises that one slow device cannot hold up the picker; the deadline reaches the TCP connect only (`dialer.go:94-99`), and a host that goes silent after it holds `wg.Wait` for ever |
| `OverlayOwnsInput`, `NextKeyIsCommand` (Interface) | 2 sessions, `MayEnd` | a view that ends resets the mode under an overlay or between prefix and command, and the next key goes to a session |
| `LastSizeWins` (InboundConn) | queue of 1, 2 requests | the queue drops the newest size when it is full (`conn.go:94`), not the oldest |
| `SizeIsUsable` (InboundConn) | a request of 24 rows and no columns | firstSize looks at the rows alone (`tui.go:104`), unlike handleResize |
| `TerminalSurvivesStop` (InboundConn) | 1 connection, a cancelled context | Run waits for Serve and not for the interfaces (`server.go:116`), so the process may end before exitTerm is written |
| `ServesUntilCancelled` (InboundConn) | any | any error of Accept ends Serve (`sshd/server.go:64`), also one that would pass |
| `HalfDeadIsNoticed` (Dialer) | 1 connection that hangs | the comment on keepalive promises that a half-dead host surfaces promptly; the request waits for its answer without a limit (`pty.go:67`) |
| `FirstUseIsPinned` with two processes (Dialer) | 2 connections, `Proc` one to one | the lock is per process: both find no key and both append one (`dialer.go:253`) |
| `PinSurvivesFailures` (Dialer) | 3 connections, 1 host, 2 keys | a line written in part hides the key, and a later first contact accepts another (`dialer.go:288`) |
| `SetupAuthorizes` (Onboarding) | 1 host, 1 key | the key is appended to a line without an end; its text is then in the file, so every later run skips it (`setup.go:310`) |
| `PairIsWhole`, `KeyIsReadable` (Onboarding) | 1 host, 1 key | a crash between the two files, or between creating and writing one, is never repaired (`config.go:222-231`): the first leaves no public key, the second an empty key that every later start refuses |
| `SetupIsEnough`, `RegisteredTrusts` with `Overlap = TRUE` (Onboarding) | 1 host, 2 keys | two first processes each make a key, and one works with a key that is not on disk |

## 5. What is proved

TLAPS checks the following for every value of the constants allowed by the named
assumptions of each module (`ManagerAssumption`, `ServerAssumption`,
`StreamAssumption`, `RegistryAssumption`, `ResizeAssumption`, `InterfaceAssumption`
and `OverlayAssumption`, `InboundAssumption`, `DialerAssumption`,
`OnboardingAssumption`, `PickerAssumption`): distinctness of the empty values, positive capacities,
sizes that are natural numbers, directories that are numbered as they sort and form
a tree below the root; nothing about how many.  `ServerAssumption` also
numbers the sessions and says that the hooks and Run are the callers of Close and
CloseHost; the theorems about the manager use `ManagerAssumption` only.  What a
theorem assumes beyond that is in its statement and in this table.

| theorem | statement | assumes | invariant |
|---|---|---|---|
| `Server_proofs!TypeCorrect` | `[]TypeOK` of the manager | | itself |
| `!Invariance`, `!FindSoundAlways`, `!CascadeNeverFeedsItself` | `[]IInv`, `[]FindIsSound`, `[]AskedNeverReportsHostDown` | | `IInv` |
| `!ServerTypes`, `!ServerImplementsManager`, `!ServerFindSound` | `[]ServerTypeOK`; the server is a manager; Find and the flag are sound in it | | `SInv` |
| `!TargetsAreNotForgotten` | who is to close a session has it to close until its PTY has ended: `[][...]` | | `IInv` |
| `!ClosedForGood` | a PTY that ended stays ended for the same reason, a session that is closed stays closed and out of the maps: `[][...]` | | `IInv` |
| `!CascadeStaysOnHost` | `[]NoForeignClose` | | `SInv`, `CascadeInv` |
| `!CascadeClosesFirst` | `[]ClosesFirst`: the host is marked down, and clients are moved, after all that the cascade closes has ended | | `SInv`, `ClosesAll` |
| `!OneInterfaceOneSession`, `!OneInterfaceFinds` | `[]OneSessionPerKey`, `[]FindFindsExisting` | one interface | `SInv`, `AloneInv` |
| `!PickerTypes`, `!PickerListIsComplete` | `[]PickerTypeOK`, `[]ListIsComplete` | finitely many directories | `PickerInv` |
| `EventStream_proofs!NeverPanics` | `[]NoPanic` | | `SafeChannels` |
| `!StreamTypes` | `[]TypeOK` | | `DataInv` |
| `!NothingMissedAfterReplay` | `[]NoGapAfterReplay` | | `GapInv` |
| `!StreamImplementsContract` | `ImplementsContract` | | `StreamInv`, step by step |
| `!OutputArrivesInOrder` | what a subscriber received ascends, and `Stopped` is the last of it | | `StreamInv`, `InOrder` |
| `!FinalizeWaitsForReaders` | `[]PumpWaitsForReaders` | | `EndInv` |
| `!NobodyLeavesUntold` | who did not cancel leaves with `Stopped`: `[][...]` | | `EndInv` |
| `!ScrollbackIsLatest` | the scrollback is the last chunks written, without a hole | | `DataInv`, itself |
| `HostRegistry_proofs!RegistryTypes` | `[]TypeOK`, any number of processes | | itself |
| `!FileAlwaysWhole`, `!AcknowledgedIsDurable` | `[]FileIsWhole`, `[]AckedIsStored` | one process | `FilesApart` |
| `!RegisteredSurvives` | `[]ConnectedSurvives` | one process | `FilesApart`, `ConnectedKept` |
| `!RegistryIsDurable` | the registry implements `DurableMap` | one process | `FilesApart`, step by step |
| `ResizeFlow_proofs!DriversAlwaysAttached` | `[]DriversAttached` | | `DInv` |
| `!ResizeTypes` | `[]TypeOK` | finitely many interfaces | `TInv` |
| `!ViewsAgree` | `[]ViewAgrees` | finitely many interfaces | `TInv`, `ViewInv` |
| `!SessionsFitIfApart` | `[]FitsIfApart` | finitely many interfaces | `TInv`, `ViewInv`, `FitInv` |
| `!AloneAlwaysFits` | `[]FitsWhenQuiet` | one interface | the same, and `AloneInv` |
| `Interface_proofs!InterfaceTypes`, `!KeyboardIsNeverLost` | `[]TypeOK`, `[]ModeHasOverlay` | finitely many sessions and hosts | `TInv` |
| `!MeantIsDone` | `ActsOnWhatWasAsked` | finitely many sessions and hosts | `MeantInv` |
| `InboundConn_proofs!TypeCorrect`, `!NeverPanics`, `!SizeAlwaysCurrent`, `!TerminalAlwaysRestored` | `[]TypeOK`, `[]NoPanic`, `[]SizeIsCurrent`, `[]TerminalRestored` | | `Queue`, `Latest`, `Terminal` |
| `!NoStreamIsLeft` | a Handle that has left has no open subscription, unless two switches, or a switch and the leaving, overlapped | | `Fresh`, `Owned` |
| `Dialer_proofs!TypeCorrect`, `!NothingEverLeft` | `[]TypeOK`, `[]NothingLeft`, any processes | | `Stages` |
| `!FirstUseAlwaysPinned` | `[]FirstUseIsPinned` | one process | `Stages`, `Pinned` |
| `!KeysAreKept` | a key on file stays, also when writes fail, but for an unfinished line: `[][...]` | one process | `Stages`, `FirstContact` |
| `!NoPTYIsAbandoned` | `[]Watched`, any processes | | `Stages`, `Opening`, itself |
| `Onboarding_proofs!OnboardingTypes` | `[]TypeOK` | | `TInv` |
| `!SetupSuffices`, `!RegisteredHostsTrust` | `[]SetupIsEnough`, `[]RegisteredTrusts` | `~Overlap` | `OInv` |
| `!KeyForGood` | a key on disk is never replaced: `[][(file \in Keys) => file' = file]_vars` | `~Overlap` | `OInv` |

**The hypotheses.**  Finite sets are what there is of connections, sessions and
hosts; the minimum of the sizes of a session's viewers, the rows of the sidebar and
the lists of the overlays are taken over them.  One process, one interface and
`~Overlap` (no two processes look for the key pair at once) are the instances of the
runs, and the hypotheses are needed: two processes break the registry
(`HostRegistry_lost`), the pins and the keys, two interfaces `OneSessionPerKey`
and `FitsWhenQuiet` (section 4).

**Why the invariants are needed.**  `FindIsSound` alone is not inductive: a pump
removes an entry of `byKey` by key, so one must know that every other entry of
that key would have been for this or a registered session.  `IInv` adds that a
session is in the maps exactly while its pump has the removal ahead
(`RegisteredIsOwned`) and that a key is fixed before the pump starts
(`PumpFollowsCreate`).  For the cascade it adds the order of the flag: it is set
before the PTY is closed (`FlagBeforeClose`) and read after it has ended
(`FlagReadAfterEnd`), and the hook is reached only on the copy (`HookIsUnasked`).

*Server.*  A step of the server is a step of the manager or leaves it alone
(`ManagerRuns`); that needs `OpKnown`, since what an interface opens is a session of
its own.  So `IInv` holds in the server and is not proved again.  For
`NoForeignClose`, a flag alone does not say who set it: `ClosedByCascade` has
whatever is collected, marked or about to be closed belong to a hook in its
`status` step, on the same host, and `FlagHasCause` keeps the PTY that ended it on
record.  Both stop when Run does, which closes everything.  With one interface,
`KeyLeadsToSession` says the registered sessions are the entries of `byKey`, and
`DialIsFirst` that while the interface dials no session has the key it dials for:
it looked, and nobody else opens any.

*How a session ends.*  `OnItsWay` is what a call of Close or CloseHost still has to
do for a session it looked up: mark it, or drop it, or nothing because its PTY has
ended; no step loses it.  `ClosesAll` ties the step of a hook to this: whatever the
hook has found is on its way or has ended, and the hook goes on to the status and
the clients when nothing of it is left to mark or to drop.

*The picker.*  `PickerInv` says that the part of a host hides nothing, whatever the
tree did between the two commands: a top-level directory the second command skips
lies in a repository the first one found, which is an entry itself
(`CombineHidesNothing`).  And it says that what the picker returned is a list of
all parts, each entry once and in order (`IsList`), and stays so, since all
goroutines have returned by then; that merging gives such a list, host by host, is
`MergeIsList`.  The library states the induction over numbers for an operator,
which the provers cannot be given; here the set of the numbers for which the claim
holds is formed and has no least missing one, since `<` is well founded.  The model
states what sorting gives (`Sorted`: the one sequence of these elements that
ascends) where the code calls `sort.Strings`, since nothing can be said of a sort
that is defined by recursion.

*EventStream.*  `NoPanic` needs that a channel which is registered, or which finalize
has taken out and not told, is open, and that finalize and the registry never hold
channels at the same time (`ChannelsAreOpen`): the swap under `ls.mu` is what gives
each channel one closer.  `NoGapAfterReplay` follows from where a chunk can be:
received, in the buffer, or dropped (`NoGap`); it needs that the newest chunk is the
last of the scrollback (`Snapshot`), so that what a viewer replays ends where its
stream begins.  The refinement maps a subscriber to the last chunk it received;
`StreamsFlow` says that what is in its buffer is newer than that and ascends, that
`Stopped` is the last thing in it and the channel is closed behind it, and that who
was told has left: so each receive is a Deliver or a Tell of the contract.
`InOrder` unfolds the contract to all that was received.  For the end, `Attended`
says that a registered channel, or one finalize has still to tell, has somebody
reading it, and that a closed channel of somebody who did not cancel holds
`Stopped`: so finalize never waits in vain, and nobody finds a channel closed and
empty.

The registry's theorems assume that any two processes are equal: what they say is
false for two, as `HostRegistry_lost` shows.  `FilesApart` says that the two names
and the open file are never mixed up and that what is about to be renamed is
complete.  The refinement maps the process that is down to the map it would load,
so a crash is a Restore, a start a stutter, a rename a Flush.

*ResizeFlow.*  What the model keeps of the code's control flow is the list of calls
a thread has still to make, so the invariants speak of these lists.  `TInv` has each
call carry what its step uses (`ProperCalls`).  `ViewAgrees` speaks of interfaces
at rest; `ViewInv` says what holds on the way: the calls that remain are the last j
calls of switchView, those of onPaneResize or those Handle defers (`OnItsWay`), and
what those calls have yet to set is all that may disagree.  It holds as long as no
host drops, and while it does no cascade and no pump has a call to make.
`FitsIfApart` speaks of the pauses between the turns; `FitInv` says that during a
turn one thread is at work, that each session with a viewer is at its negotiated
size or some call ahead settles it (`Owed`), that a size once negotiated is applied
by the very next calls (`Resizing`), and that whoever is about to change what a
session negotiates has its renegotiation ahead (`Renegotiates`): the old session of a
jump as well as the new one.  TLC has checked `FitInv` as an invariant of two and of
three interfaces.

With one interface `AloneInv` makes the two conditions of `FitsIfApart` facts: there
is no second thread while no host drops, a viewer that leaves is the last one, and
a session with one viewer is at its size with or without a driver.

*Interface.*  `ModeHasOverlay` is inductive with the types, because the mode and the
overlay are set together under `u.mu`, and the pump only ever sets the mode back to
streaming.  For the types one must know that what was filtered are entries of the
overlay (`Filtered`) and what an action under way is about (`ActKnown`).
`ActsOnWhatWasAsked` compares two moments; `TitleIsAsked` carries the session from
the key that asked to the rename, through a prompt that has the keyboard (the view
may move, and with it the mode, but no command is read while an overlay is up), and
`PressedIsHeld` carries the rows: a row that is pressed is one the button went down
on, since rows that are made anew are not pressed.

`SizeIsCurrent` speaks of a queue that is empty; `Latest` is what keeps it true on
the way there: the last size asked for is at the end of the queue as long as the
queue is not empty, and is the size of the interface when it is.  `Queue` ties the
closing of the queue to the place of Handle among its deferred calls: `once` and the
closing are one, and the first Close comes before the second, so nothing has ever
crashed, while the reader may panic and recover at any time after.  `Terminal` is
about the channel and the alternate screen.

For `NoStreamIsLeft`, `Owned` says where each open subscription is kept: it is the one
`cancelSub` names or the one an actor has made and not stored.  As long as no two
actors are in `switchView` at once there is one of these at most, and `stopSub`
takes it; `Fresh` says that a stream an actor is making is no other actor's and has
no pump yet.

`NothingLeft` follows from `Stages`: a connection that is unwinding and still open has
its client among what it owes, whichever stage it came from, and a session is only
open on an open connection, since closing the client ends it.

For `FirstUseIsPinned` one must know who is in the callback: `Stages` says that
whoever is between `read` and `append` holds the lock of its process, so that with
one process nobody else is; `Pinned` adds that the file then still has no key for
the host of that connection, and no unfinished line.  `FirstContact` is the part of
this that survives a failed write: whoever is about to append found no line, so
what it writes hides nobody's key.

*Onboarding.*  The files are written in steps, by processes that may die after any:
`KeyOnDisk` says for each step what the process may take the files to hold, and that
a public key and the key a process signs with are the one on disk; `OneLooks` that
no other process is at it.  `HostsFollow` says that hosts and setup have met no
other key, and that a line setup wrote is whole unless the file had one without an
end; `Verified` that a host which accepted the key still does.

**Only model-checked.**

* All liveness properties (`LookedUpIsClosed`, `EveryViewerIsTold`,
  `CascadeCompletes`, `ScreenIsMoved`, `PickerAnswersUnlessHung`,
  `ConnectionIsCleared`, `ServeReturns`, `DropIsNoticed`): a proof under fairness
  needs ENABLED, which TLAPS does not do.

What such a property says of safety is proved: what a closing call looked up it
never forgets (`TargetsAreNotForgotten`) and what ended stays ended
(`ClosedForGood`); a viewer that leaves was told and finalize waits for readers only
(`NobodyLeavesUntold`, `FinalizeWaitsForReaders`); a cascade does its steps in order
(`CascadeClosesFirst`); a PTY is watched until it is done (`NoPTYIsAbandoned`).  That
these steps are taken is what TLC shows.

## 6. What is not modelled, and why

* The terminal emulator, painting, colours and layout of the interface: sequential
  code over cells, better served by the unit tests it has.
* The SSH protocol, authentication and key parsing: the library's.  A handshake
  succeeds or fails.
* The configuration file and the flags of `cmd/dmux`: read once and never changed.
* In `setup.go`: package managers and their commands, the dry run, and the advice on
  Windows networking.  They succeed or fail, and change nothing the rest meets.  The
  comment on `stepAuthorizeKey` names the login user's authorized_keys while the
  code takes the home of whoever runs it (`setup.go:291-300`); the model has one
  file per host and does not tell them apart.
* Rename and Write of the manager change or forward one value; they appear as
  effects of keys in `Interface`.  `Registry.Remove` has no caller.
* `KeyRef`: a private key per host, which is one more way for a dial to fail.
* A power cut between write and rename of the registry: the temporary file is not
  synced, so a model of the page cache would only say so again.
* A chunk may be painted twice, from the scrollback and from the stream; the comments
  allow it, and `EventStream` has it in its behaviours.

## 7. Plan

Done, in this order of importance: the manager and its streams, the server's
cascade over it, the registry, sizes and views, the picker, keys and sidebar, the
inbound connection, the dialer and its known_hosts, the keys that hosts trust.

Proved since: every safety property of a run, the refinements of `StreamContract`,
`DurableMap` and of the manager by the server, and the safety half of the liveness
properties.

Left, in this order:

1. `FitsWhenQuiet` for several interfaces whose sessions are disjoint rather than for
   one, or for interfaces that take turns: `AloneAlwaysFits` is the case of one, and
   the invariants already speak of one interface at a time.
2. A composition of `Server` and `ProjectPicker`, whose names are kept apart for it, in
   which a project that is picked is opened.
