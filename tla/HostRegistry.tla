----------------------------- MODULE HostRegistry -----------------------------
(* internal/registry/file_registry.go: the host map in memory and its JSON     *)
(* file, replaced through a temporary file and a rename.  A process is `dmux   *)
(* serve`, which loads the file once and rewrites it for as long as it lives,  *)
(* or a `dmux connect` / `dmux sethome` that runs beside it on the same data   *)
(* directory.  r.mu orders the threads of one process, so a process has one    *)
(* save at a time; nothing orders two processes.                               *)
(*                                                                             *)
(* Files are inodes with names: a process that has opened the temporary file   *)
(* goes on writing to the same inode after another one has renamed it.         *)
EXTENDS Naturals, FiniteSets

CONSTANTS
    Procs,      \* processes sharing the data directory
    Adders,     \* those of them that register hosts (dmux connect)
    Hosts,
    Values,     \* a host's settings, as far as they differ
    Absent,     \* no such host
    Inodes,     \* bound: enough for both names and one open file per process
    NoInode,    \* a name that does not exist, a file that is not open
    Torn        \* bytes that are not the JSON of any map

Maps == [Hosts -> Values \cup {Absent}]
Empty == [h \in Hosts |-> Absent]

ASSUME RegistryAssumption ==
    /\ Adders \subseteq Procs
    /\ Absent \notin Values
    /\ NoInode \notin Inodes
    /\ Torn \notin Maps

VARIABLES
    mem,        \* per process: r.hosts
    step,       \* per process: "down", "idle", "save", "write" or "rename"
    fd,         \* per process: the inode WriteFile has open
    acked,      \* per process: the last operation returned nil
    adding,     \* per process: the host its Add in progress registers, or Absent
    data,       \* per inode: its bytes
    path,       \* the inode hosts.json names
    tmp,        \* the inode hosts.json.tmp names
    connected   \* hosts whose Add returned nil

vars == <<mem, step, fd, acked, adding, data, path, tmp, connected>>
fileVars == <<data, path, tmp>>

TypeOK ==
    /\ mem \in [Procs -> Maps]
    /\ step \in [Procs -> {"down", "idle", "save", "write", "rename"}]
    /\ fd \in [Procs -> Inodes \cup {NoInode}]
    /\ acked \in [Procs -> BOOLEAN]
    /\ adding \in [Procs -> Hosts \cup {Absent}]
    /\ data \in [Inodes -> Maps \cup {Torn}]
    /\ path \in Inodes \cup {NoInode} /\ tmp \in Inodes \cup {NoInode}
    /\ connected \subseteq Hosts

Init ==
    /\ mem = [p \in Procs |-> Empty]
    /\ step = [p \in Procs |-> "down"]
    /\ fd = [p \in Procs |-> NoInode]
    /\ acked = [p \in Procs |-> FALSE]
    /\ adding = [p \in Procs |-> Absent]
    /\ data = [i \in Inodes |-> Torn]
    /\ path = NoInode /\ tmp = NoInode
    /\ connected = {}

-----------------------------------------------------------------------------
\* What Load finds: a missing file is an empty registry.
Stored == IF path = NoInode THEN Empty ELSE data[path]

\* Mutant: a registry that cannot be parsed, or is missing, starts empty.
Load_StartsEmpty(p) ==
    /\ step[p] = "down"
    /\ mem' = [mem EXCEPT ![p] = Empty]
    /\ step' = [step EXCEPT ![p] = "idle"]
    /\ acked' = [acked EXCEPT ![p] = FALSE]
    /\ UNCHANGED <<fd, adding, fileVars, connected>>

\* The process starts and Load succeeds; on bytes it cannot parse it gives up.
Load(p) ==
    /\ step[p] = "down"
    /\ Stored # Torn
    /\ mem' = [mem EXCEPT ![p] = Stored]
    /\ step' = [step EXCEPT ![p] = "idle"]
    /\ acked' = [acked EXCEPT ![p] = TRUE]
    /\ UNCHANGED <<fd, adding, fileVars, connected>>

\* The process exits, is killed or crashes, in the middle of a save or not.
Die(p) ==
    /\ step[p] # "down"
    /\ step' = [step EXCEPT ![p] = "down"]
    /\ mem' = [mem EXCEPT ![p] = Empty]
    /\ fd' = [fd EXCEPT ![p] = NoInode]
    /\ acked' = [acked EXCEPT ![p] = FALSE]
    /\ adding' = [adding EXCEPT ![p] = Absent]
    /\ UNCHANGED <<fileVars, connected>>

-----------------------------------------------------------------------------
(* The mutators: memory changes first, then the whole map is saved.  *)

Mutate(p, h, v) ==
    /\ step[p] = "idle"
    /\ mem' = [mem EXCEPT ![p][h] = v]
    /\ step' = [step EXCEPT ![p] = "save"]
    /\ acked' = [acked EXCEPT ![p] = FALSE]
    /\ UNCHANGED <<fd, fileVars, connected>>

\* Add rejects a host that is registered already.
Add(p, h, v) ==
    /\ p \in Adders
    /\ mem[p][h] = Absent
    /\ Mutate(p, h, v)
    /\ adding' = [adding EXCEPT ![p] = h]

\* SetName, SetHome, SetColor and SetStatus change one field of a known host.
Set(p, h, v) ==
    /\ mem[p][h] # Absent
    /\ Mutate(p, h, v)
    /\ adding' = adding

-----------------------------------------------------------------------------
(* saveLocked.  *)

\* Mutant: the file itself is opened for writing.
SaveOpen_InPlace(p) ==
    /\ step[p] = "save"
    /\ \E i \in IF path # NoInode THEN {path} ELSE Inodes \ {fd[q] : q \in Procs} :
        /\ tmp' = i
        /\ fd' = [fd EXCEPT ![p] = i]
        /\ data' = [data EXCEPT ![i] = Torn]
    /\ step' = [step EXCEPT ![p] = "write"]
    /\ UNCHANGED <<mem, acked, adding, path, connected>>

\* WriteFile opens hosts.json.tmp: created if there is none, else truncated.
SaveOpen(p) ==
    /\ step[p] = "save"
    /\ \E i \in IF tmp # NoInode THEN {tmp}
                ELSE Inodes \ ({path} \cup {fd[q] : q \in Procs}) :
        /\ tmp' = i
        /\ fd' = [fd EXCEPT ![p] = i]
        /\ data' = [data EXCEPT ![i] = Torn]
    /\ step' = [step EXCEPT ![p] = "write"]
    /\ UNCHANGED <<mem, acked, adding, path, connected>>

\* The bytes go to the start of the open file.  Over what another process has
\* written there meanwhile they may leave the tail of its longer text.
SaveWrite(p) ==
    /\ step[p] = "write"
    /\ \E bytes \in {mem[p]} \cup (IF data[fd[p]] \in {Torn, mem[p]} THEN {} ELSE {Torn}) :
        data' = [data EXCEPT ![fd[p]] = bytes]
    /\ fd' = [fd EXCEPT ![p] = NoInode]
    /\ step' = [step EXCEPT ![p] = "rename"]
    /\ UNCHANGED <<mem, acked, adding, path, tmp, connected>>

\* The rename succeeds and the operation returns nil.
SaveRename(p) ==
    /\ step[p] = "rename"
    /\ tmp # NoInode
    /\ path' = tmp
    /\ tmp' = NoInode
    /\ step' = [step EXCEPT ![p] = "idle"]
    /\ acked' = [acked EXCEPT ![p] = TRUE]
    /\ connected' = connected \cup ({adding[p]} \ {Absent})
    /\ adding' = [adding EXCEPT ![p] = Absent]
    /\ UNCHANGED <<mem, fd, data>>

\* Mutant: a failed rename is not reported.
SaveFails_Silent(p) ==
    /\ step[p] \in {"save", "write", "rename"}
    /\ step' = [step EXCEPT ![p] = "idle"]
    /\ acked' = [acked EXCEPT ![p] = (step[p] = "rename")]
    /\ connected' = IF step[p] = "rename" THEN connected \cup ({adding[p]} \ {Absent}) ELSE connected
    /\ fd' = [fd EXCEPT ![p] = NoInode]
    /\ adding' = [adding EXCEPT ![p] = Absent]
    /\ UNCHANGED <<mem, fileVars>>

\* Mutant: a failed save is rolled back to an empty map.
SaveFails_Forgets(p) ==
    /\ step[p] \in {"save", "write", "rename"}
    /\ step' = [step EXCEPT ![p] = "idle"]
    /\ mem' = [mem EXCEPT ![p] = <<>>]
    /\ fd' = [fd EXCEPT ![p] = NoInode]
    /\ adding' = [adding EXCEPT ![p] = Absent]
    /\ UNCHANGED <<acked, fileVars, connected>>

\* Any step of a save may fail (a full disk, a rename of a name that is gone):
\* the operation returns an error and memory keeps the change.
SaveFails(p) ==
    /\ step[p] \in {"save", "write", "rename"}
    /\ step' = [step EXCEPT ![p] = "idle"]
    /\ fd' = [fd EXCEPT ![p] = NoInode]
    /\ adding' = [adding EXCEPT ![p] = Absent]
    /\ UNCHANGED <<mem, acked, fileVars, connected>>

-----------------------------------------------------------------------------
Save(p) == SaveOpen(p) \/ SaveWrite(p) \/ SaveRename(p) \/ SaveFails(p)

Next ==
    \E p \in Procs :
        \/ Load(p) \/ Die(p) \/ Save(p)
        \/ \E h \in Hosts, v \in Values : Add(p, h, v) \/ Set(p, h, v)

Spec == Init /\ [][Next]_vars

-----------------------------------------------------------------------------
(* Properties *)

\* hosts.json is at every moment missing or the JSON of a whole map, whenever a
\* process dies and whichever step of a save fails.
FileIsWhole == path # NoInode => data[path] # Torn

\* An operation that returned nil is on disk: after a crash a restart loads the
\* very map the process had.
AckedIsStored == \A p \in Procs : acked[p] => Stored = mem[p]

\* SPEC: hosts survive a server restart.  A host whose `dmux connect` succeeded
\* is in the file from then on.
ConnectedSurvives == Stored # Torn => \A h \in connected : Stored[h] # Absent

\* What one process alone keeps of its files: the name hosts.json, the temporary
\* name and the open file never mix, and what is about to be renamed is complete.
FilesApart ==
    /\ path # NoInode => data[path] \in Maps /\ tmp # path
    /\ \A p \in Procs :
        /\ step[p] = "write" => fd[p] = tmp /\ tmp # NoInode /\ data[tmp] = Torn
        /\ step[p] = "rename" => tmp # NoInode /\ data[tmp] = mem[p]
        /\ acked[p] => step[p] = "idle" /\ Stored = mem[p]

\* Alone, a process that is up knows every host whose Add returned nil, and the
\* one whose Add is in progress.
ConnectedKept ==
    /\ \A h \in connected : Stored[h] # Absent
    /\ \A p \in Procs :
        /\ step[p] # "down" => \A h \in connected : mem[p][h] # Absent
        /\ adding[p] # Absent => step[p] # "down" /\ mem[p][adding[p]] # Absent

\* The one process of a data directory that is not shared, and its map; while
\* it is down its memory is what its next start will load.
Owner == CHOOSE p \in Procs : TRUE

Durable == INSTANCE DurableMap WITH
    memory <- (IF step[Owner] = "down" THEN Stored ELSE mem[Owner]),
    disk <- Stored

\* Alone on its directory, a process with its two files is a durable map.
ImplementsDurableMap == Durable!DSpec
=============================================================================
