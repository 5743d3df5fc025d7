---------------------------- MODULE SessionManager ----------------------------
(* The session manager of internal/session/manager.go: the two maps it guards  *)
(* with m.mu, the per-session record it guards with ls.mu, the pump goroutine  *)
(* of every session, and the threads that call Close and CloseHost.            *)
(*                                                                             *)
(* One step is one critical section: everything done between a Lock and its    *)
(* Unlock happens in one action, and another goroutine may run between two of  *)
(* them.  Subscribers, buffers and scrollback are in EventStream; the hook's   *)
(* body and the callers of Create are in Server.                               *)
EXTENDS Naturals, FiniteSets

CONSTANTS
    Ids,        \* the identifiers newID may return (all distinct: 64 random bits)
    Hosts,
    Roots,      \* project roots; a key is a (host, root) pair
    Closers,    \* the threads that call Close or CloseHost
    NoId,       \* the empty session.ID
    NoKey       \* the key of an identifier that is not in use

ASSUME ManagerAssumption == NoId \notin Ids /\ NoKey \notin [host : Hosts, root : Roots]

VARIABLES
    sessions,       \* domain of m.sessions
    byKey,          \* m.byKey; NoId stands for an absent entry
    key,            \* ls.rec.Project
    state,          \* ls.rec.State; "closed" also stands for ls.closed
    intentional,    \* ls.intentional
    ended,          \* why the PTY ended ("no": Done is open and Read still works)
    pump,           \* the next critical section of the session's pump
    asked,          \* the pump's local copy of ls.intentional
    closing,        \* per closer: sessions it looked up and has not marked yet
    marked          \* per closer: the session it marked and has not closed yet

vars == <<sessions, byKey, key, state, intentional, ended, pump, asked, closing, marked>>
closerVars == <<closing, marked>>
pumpVars == <<pump, asked>>

Keys == [host : Hosts, root : Roots]
States == {"none", "starting", "running", "closed", "failed"}
Causes == {"no", "exit", "lost", "closed"}
PumpSteps == {"none", "wait", "finalize", "notify", "remove", "hook", "exit"}

\* A pump in one of these steps still has the removal of its session ahead.
Owning == {"wait", "finalize", "notify", "remove"}

TypeOK ==
    /\ sessions \subseteq Ids
    /\ byKey \in [Keys -> Ids \cup {NoId}]
    /\ key \in [Ids -> Keys \cup {NoKey}]
    /\ state \in [Ids -> States]
    /\ intentional \in [Ids -> BOOLEAN]
    /\ ended \in [Ids -> Causes]
    /\ pump \in [Ids -> PumpSteps]
    /\ asked \in [Ids -> BOOLEAN]
    /\ closing \in [Closers -> SUBSET Ids]
    /\ marked \in [Closers -> Ids \cup {NoId}]

\* Mutant: the map of keys is never made.
Init_NoKeyMap ==
    /\ sessions = {}
    /\ byKey = [k \in {} |-> NoId]
    /\ key = [id \in Ids |-> NoKey]
    /\ state = [id \in Ids |-> "none"]
    /\ intentional = [id \in Ids |-> FALSE]
    /\ ended = [id \in Ids |-> "no"]
    /\ pump = [id \in Ids |-> "none"]
    /\ asked = [id \in Ids |-> FALSE]
    /\ closing = [t \in Closers |-> {}]
    /\ marked = [t \in Closers |-> NoId]

Init ==
    /\ sessions = {}
    /\ byKey = [k \in Keys |-> NoId]
    /\ key = [id \in Ids |-> NoKey]
    /\ state = [id \in Ids |-> "none"]
    /\ intentional = [id \in Ids |-> FALSE]
    /\ ended = [id \in Ids |-> "no"]
    /\ pump = [id \in Ids |-> "none"]
    /\ asked = [id \in Ids |-> FALSE]
    /\ closing = [t \in Closers |-> {}]
    /\ marked = [t \in Closers |-> NoId]

-----------------------------------------------------------------------------
(* Create: the dial runs outside every lock, so any number of creations may be *)
(* in flight, for the same key too.                                            *)

DialStart(id, k) ==
    /\ state[id] = "none"
    /\ state' = [state EXCEPT ![id] = "starting"]
    /\ key' = [key EXCEPT ![id] = k]
    /\ UNCHANGED <<sessions, byKey, intentional, ended, pumpVars, closerVars>>

\* dialer.Open failed: nothing was registered, the identifier is never seen again.
DialFail(id) ==
    /\ state[id] = "starting"
    /\ state' = [state EXCEPT ![id] = "failed"]
    /\ UNCHANGED <<sessions, byKey, key, intentional, ended, pumpVars, closerVars>>

\* dialer.Open succeeded; the session enters both maps and its pump starts.
Register(id) ==
    /\ state[id] = "starting"
    /\ state' = [state EXCEPT ![id] = "running"]
    /\ sessions' = sessions \cup {id}
    /\ byKey' = [byKey EXCEPT ![key[id]] = id]
    /\ pump' = [pump EXCEPT ![id] = "wait"]
    /\ UNCHANGED <<key, intentional, ended, asked, closerVars>>

-----------------------------------------------------------------------------
(* The PTY.  sess.Wait returning, a failed keepalive and a failed Read all end *)
(* it; the manager cannot tell a shell that exited from a host that was lost.  *)

PTYEnds(id, cause) ==
    /\ pump[id] # "none"
    /\ ended[id] = "no"
    /\ ended' = [ended EXCEPT ![id] = cause]
    /\ UNCHANGED <<sessions, byKey, key, state, intentional, pumpVars, closerVars>>

-----------------------------------------------------------------------------
(* The pump goroutine.  *)

\* The select returns and ls.intentional is read under ls.mu.
PumpWake(id) ==
    /\ pump[id] = "wait"
    /\ ended[id] # "no"
    /\ asked' = [asked EXCEPT ![id] = intentional[id]]
    /\ pump' = [pump EXCEPT ![id] = "finalize"]
    /\ UNCHANGED <<sessions, byKey, key, state, intentional, ended, closerVars>>

\* Mutant: finalize gives up when the teardown was asked for.
PumpFinalize_SkipsAsked(id) ==
    /\ pump[id] = "finalize"
    /\ pump' = [pump EXCEPT ![id] = IF asked[id] THEN "exit" ELSE "notify"]
    /\ state' = [state EXCEPT ![id] = "closed"]
    /\ UNCHANGED <<sessions, byKey, key, intentional, ended, asked, closerVars>>

\* finalize marks the session closed under ls.mu, once.
PumpFinalize(id) ==
    /\ pump[id] = "finalize"
    /\ state[id] # "closed"
    /\ state' = [state EXCEPT ![id] = "closed"]
    /\ pump' = [pump EXCEPT ![id] = "notify"]
    /\ UNCHANGED <<sessions, byKey, key, intentional, ended, asked, closerVars>>

\* Every subscriber is told and pty.Close is called (a no-op for Done by now).
PumpNotify(id) ==
    /\ pump[id] = "notify"
    /\ pump' = [pump EXCEPT ![id] = "remove"]
    /\ UNCHANGED <<sessions, byKey, key, state, intentional, ended, asked, closerVars>>

\* Mutant: only the entry of m.sessions is deleted.
PumpRemove_KeepsKey(id) ==
    /\ pump[id] = "remove"
    /\ sessions' = sessions \ {id}
    /\ pump' = [pump EXCEPT ![id] = IF asked[id] THEN "exit" ELSE "hook"]
    /\ UNCHANGED <<byKey, key, state, intentional, ended, asked, closerVars>>

\* Both map entries go in one critical section.  The entry of byKey goes whoever
\* it names by now.
PumpRemove(id) ==
    /\ pump[id] = "remove"
    /\ sessions' = sessions \ {id}
    /\ byKey' = [byKey EXCEPT ![key[id]] = NoId]
    /\ pump' = [pump EXCEPT ![id] = IF asked[id] THEN "exit" ELSE "hook"]
    /\ UNCHANGED <<key, state, intentional, ended, asked, closerVars>>

\* The host-down hook, called by the pump with no lock held, returns.
HookReturn(id) ==
    /\ pump[id] = "hook"
    /\ pump' = [pump EXCEPT ![id] = "exit"]
    /\ UNCHANGED <<sessions, byKey, key, state, intentional, ended, asked, closerVars>>

-----------------------------------------------------------------------------
(* Close and CloseHost: look up under m.mu, then for each target mark it under *)
(* ls.mu and close its PTY.  The session stays in the maps, Running, until its *)
(* pump gets to it.                                                            *)

Free(t) == closing[t] = {} /\ marked[t] = NoId

CloseLookup(t, id) ==
    /\ Free(t)
    /\ id \in sessions
    /\ closing' = [closing EXCEPT ![t] = {id}]
    /\ UNCHANGED <<sessions, byKey, key, state, intentional, ended, pumpVars, marked>>

OnHost(h) == {id \in sessions : key[id].host = h}

CloseHostCollect(t, h) ==
    /\ Free(t)
    /\ closing' = [closing EXCEPT ![t] = OnHost(h)]
    /\ UNCHANGED <<sessions, byKey, key, state, intentional, ended, pumpVars, marked>>

\* Mutant: the PTY is closed without noting that this was asked for.
Mark_NoFlag(t, id) ==
    /\ marked[t] = NoId
    /\ id \in closing[t]
    /\ closing' = [closing EXCEPT ![t] = @ \ {id}]
    /\ marked' = [marked EXCEPT ![t] = id]
    /\ UNCHANGED <<sessions, byKey, key, state, intentional, ended, pumpVars>>

\* Mutant: CloseHost returns after its first target.
Mark_FirstOnly(t, id) ==
    /\ marked[t] = NoId
    /\ id \in closing[t]
    /\ intentional' = [intentional EXCEPT ![id] = TRUE]
    /\ closing' = [closing EXCEPT ![t] = {}]
    /\ marked' = [marked EXCEPT ![t] = id]
    /\ UNCHANGED <<sessions, byKey, key, state, ended, pumpVars>>

Mark(t, id) ==
    /\ marked[t] = NoId
    /\ id \in closing[t]
    /\ intentional' = [intentional EXCEPT ![id] = TRUE]
    /\ closing' = [closing EXCEPT ![t] = @ \ {id}]
    /\ marked' = [marked EXCEPT ![t] = id]
    /\ UNCHANGED <<sessions, byKey, key, state, ended, pumpVars>>

Drop(t) ==
    /\ marked[t] # NoId
    /\ ended' = [ended EXCEPT ![marked[t]] = IF @ = "no" THEN "closed" ELSE @]
    /\ marked' = [marked EXCEPT ![t] = NoId]
    /\ UNCHANGED <<sessions, byKey, key, state, intentional, pumpVars, closing>>

-----------------------------------------------------------------------------
PumpNext(id) ==
    PumpWake(id) \/ PumpFinalize(id) \/ PumpNotify(id) \/ PumpRemove(id) \/ HookReturn(id)

CloserNext(t) == Drop(t) \/ \E id \in Ids : Mark(t, id)

Next ==
    \/ \E id \in Ids, k \in Keys : DialStart(id, k)
    \/ \E id \in Ids : DialFail(id) \/ Register(id) \/ PumpNext(id)
    \/ \E id \in Ids, cause \in {"exit", "lost"} : PTYEnds(id, cause)
    \/ \E t \in Closers : CloserNext(t)
    \/ \E t \in Closers, id \in Ids : CloseLookup(t, id)
    \/ \E t \in Closers, h \in Hosts : CloseHostCollect(t, h)

\* Goroutines that can run do run; nothing obliges a PTY to end, a dial to
\* succeed or a caller to call.
Fairness ==
    /\ \A id \in Ids : WF_vars(PumpNext(id))
    /\ \A t \in Closers : WF_vars(CloserNext(t))

Spec == Init /\ [][Next]_vars /\ Fairness

-----------------------------------------------------------------------------
(* Properties *)

\* Find never hands out an identifier that Get, Jump or Subscribe would not know,
\* nor one of another (host, root): the entries of byKey and of sessions come and
\* go together although a key may have had several sessions.
FindIsSound ==
    \A k \in Keys : byKey[k] # NoId => byKey[k] \in sessions /\ key[byKey[k]] = k

\* A session whose PTY was ended by Close or CloseHost never reports its host as
\* down, although the pump reads the flag long after the caller set it: this is
\* what keeps the cascade from starting itself again.
AskedNeverReportsHostDown ==
    \A id \in Ids : ended[id] = "closed" => pump[id] # "hook"

\* The comment on Manager.Find: the existing session of a key, if any, is found,
\* so that the picker switches to it instead of opening a duplicate.
FindFindsExisting ==
    \A id \in sessions : state[id] = "running" => byKey[key[id]] # NoId

\* Close and CloseHost are asynchronous but not in vain: a session they looked
\* up is closed for good, even if other threads close it at the same time.
LookedUpIsClosed ==
    \A t \in Closers, id \in Ids : (id \in closing[t]) ~> (state[id] = "closed" /\ id \notin sessions)

-----------------------------------------------------------------------------
(* The inductive strengthening of the safety properties above.  *)

\* A session is in the maps exactly while its pump still has to remove it.
RegisteredIsOwned == \A id \in Ids : id \in sessions <=> pump[id] \in Owning

\* The pump starts with the registration, which needs a key.
PumpFollowsCreate ==
    \A id \in Ids :
        /\ state[id] \in {"none", "starting", "failed"} => pump[id] = "none"
        /\ state[id] # "none" => key[id] \in Keys
        /\ pump[id] # "none" => state[id] # "none"

\* The flag is set before the PTY is closed and read after it has ended.
FlagBeforeClose ==
    /\ \A t \in Closers : marked[t] # NoId => intentional[marked[t]]
    /\ \A id \in Ids : ended[id] = "closed" => intentional[id]

FlagReadAfterEnd ==
    \A id \in Ids :
        pump[id] \in {"finalize", "notify", "remove", "hook", "exit"} =>
            /\ ended[id] # "no"
            /\ ended[id] = "closed" => asked[id]

HookIsUnasked == \A id \in Ids : pump[id] = "hook" => ~asked[id]

\* What every step of every goroutine preserves; it implies the safety properties.
IInv ==
    /\ TypeOK
    /\ RegisteredIsOwned
    /\ PumpFollowsCreate
    /\ FindIsSound
    /\ FlagBeforeClose
    /\ FlagReadAfterEnd
    /\ HookIsUnasked
=============================================================================
