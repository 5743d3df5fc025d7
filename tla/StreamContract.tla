---------------------------- MODULE StreamContract ----------------------------
(* What session.Manager promises a subscriber, with no channel, lock or buffer *)
(* in sight: output arrives in the order the host wrote it, possibly with      *)
(* holes, and once the session has ended the subscriber is told exactly once   *)
(* and hears nothing more.                                                     *)
EXTENDS Naturals

CONSTANTS Subs      \* one per call of Subscribe

VARIABLES
    log,        \* how many chunks of output the host has written
    over,       \* the session has ended
    status,     \* per subscriber: "idle", "active", "cancelled" or "stopped"
    seen        \* per subscriber: the last chunk it received

cvars == <<log, over, status, seen>>

CInit ==
    /\ log = 0
    /\ over = FALSE
    /\ status = [c \in Subs |-> "idle"]
    /\ seen = [c \in Subs |-> 0]

Produce == log' = log + 1 /\ UNCHANGED <<over, status, seen>>

End == ~over /\ over' = TRUE /\ UNCHANGED <<log, status, seen>>

Join(c) ==
    /\ status[c] = "idle"
    /\ status' = [status EXCEPT ![c] = "active"]
    /\ UNCHANGED <<log, over, seen>>

\* What was buffered before a cancel may still be read after it.
Deliver(c) ==
    /\ status[c] \in {"active", "cancelled"}
    /\ \E n \in (seen[c] + 1)..log : seen' = [seen EXCEPT ![c] = n]
    /\ UNCHANGED <<log, over, status>>

Leave(c) ==
    /\ status[c] = "active"
    /\ status' = [status EXCEPT ![c] = "cancelled"]
    /\ UNCHANGED <<log, over, seen>>

Tell(c) ==
    /\ over
    /\ status[c] \in {"active", "cancelled"}
    /\ status' = [status EXCEPT ![c] = "stopped"]
    /\ UNCHANGED <<log, over, seen>>

CNext ==
    \/ Produce \/ End
    \/ \E c \in Subs : Join(c) \/ Deliver(c) \/ Leave(c) \/ Tell(c)

CSpec == CInit /\ [][CNext]_cvars
=============================================================================
