------------------------------ MODULE DurableMap ------------------------------
(* What the registry promises: a map from host to its record that is changed   *)
(* one host at a time, flushed as a whole, and found again after a restart as  *)
(* it was last flushed.                                                        *)
CONSTANTS
    Hosts,
    Values,     \* what a host's record may hold
    Absent      \* a host that is not registered

VARIABLES
    memory,     \* the map the server works with
    disk        \* the map a restart would find

dvars == <<memory, disk>>

Maps == [Hosts -> Values \cup {Absent}]

DInit == memory = [h \in Hosts |-> Absent] /\ disk = [h \in Hosts |-> Absent]

Change == /\ \E h \in Hosts, v \in Values \cup {Absent} : memory' = [memory EXCEPT ![h] = v]
          /\ UNCHANGED disk

Flush == disk' = memory /\ UNCHANGED memory

Restore == memory' = disk /\ UNCHANGED disk

DNext == Change \/ Flush \/ Restore

DSpec == DInit /\ [][DNext]_dvars
=============================================================================
