-------------------------- MODULE HostRegistry_proofs --------------------------
(* Proofs about HostRegistry for a data directory that one process has to      *)
(* itself, for any number of hosts, settings and inodes.                       *)
EXTENDS HostRegistry, TLAPS

RInv == TypeOK /\ FilesApart

\* A registry that was never saved is in order.
LEMMA RegistryInit == Init => RInv
BY RegistryAssumption DEF Init, RInv, TypeOK, FilesApart, Maps, Empty

\* Types are kept, with any number of processes.
LEMMA RegistryTypeStep == TypeOK /\ [Next]_vars => TypeOK'
<1> SUFFICES ASSUME TypeOK, [Next]_vars PROVE TypeOK'
  OBVIOUS
<1> USE DEF TypeOK, fileVars
<1>1. ASSUME NEW p \in Procs, Load(p) PROVE TypeOK'
  <2>1. Stored \in Maps
    BY <1>1 DEF Load, Stored, Empty, Maps
  <2> QED BY <1>1, <2>1 DEF Load
<1>2. ASSUME NEW p \in Procs, Die(p) PROVE TypeOK'
  <2>1. Empty \in Maps
    BY DEF Empty, Maps
  <2> QED BY <1>2, <2>1 DEF Die
<1>3. ASSUME NEW p \in Procs, SaveOpen(p) PROVE TypeOK'
  BY <1>3 DEF SaveOpen
<1>4. ASSUME NEW p \in Procs, SaveWrite(p) PROVE TypeOK'
  BY <1>4 DEF SaveWrite
<1>5. ASSUME NEW p \in Procs, SaveRename(p) PROVE TypeOK'
  BY <1>5 DEF SaveRename
<1>6. ASSUME NEW p \in Procs, SaveFails(p) PROVE TypeOK'
  BY <1>6 DEF SaveFails
<1>7. ASSUME NEW p \in Procs, NEW h \in Hosts, NEW v \in Values, Add(p, h, v) PROVE TypeOK'
  BY <1>7 DEF Add, Mutate, Maps
<1>8. ASSUME NEW p \in Procs, NEW h \in Hosts, NEW v \in Values, Set(p, h, v) PROVE TypeOK'
  BY <1>8 DEF Set, Mutate, Maps
<1>9. CASE UNCHANGED vars
  BY <1>9 DEF vars
<1> QED
  BY <1>1, <1>2, <1>3, <1>4, <1>5, <1>6, <1>7, <1>8, <1>9 DEF Next, Save

\* One process alone keeps its files apart, whatever fails and whenever it dies.
LEMMA AloneStep ==
    ASSUME \A p, q \in Procs : p = q
    PROVE  RInv /\ [Next]_vars => RInv'
<1> SUFFICES ASSUME RInv, [Next]_vars PROVE RInv'
  OBVIOUS
<1>0. TypeOK'
  BY RegistryTypeStep DEF RInv
<1> USE RegistryAssumption DEF RInv, TypeOK, FilesApart, fileVars
<1>1. ASSUME NEW p \in Procs, Load(p) PROVE FilesApart'
  <2>1. Stored' = Stored
    BY <1>1 DEF Load, Stored
  <2> QED BY <1>0, <1>1, <2>1 DEF Load
<1>2. ASSUME NEW p \in Procs, Die(p) PROVE FilesApart'
  BY <1>0, <1>2 DEF Die
<1>3. ASSUME NEW p \in Procs, SaveOpen(p) PROVE FilesApart'
  <2>1. ~acked[p]
    BY <1>3 DEF SaveOpen
  <2>2. PICK i \in Inodes : tmp' = i /\ i # path /\ fd' = [fd EXCEPT ![p] = i]
                            /\ data' = [data EXCEPT ![i] = Torn]
    BY <1>3 DEF SaveOpen
  <2> QED BY <1>0, <1>3, <2>1, <2>2 DEF SaveOpen
<1>4. ASSUME NEW p \in Procs, SaveWrite(p) PROVE FilesApart'
  <2>1. fd[p] = tmp /\ tmp # NoInode /\ tmp \in Inodes /\ ~acked[p]
    BY <1>4 DEF SaveWrite
  <2>2. path # NoInode => data'[path] = data[path]
    BY <1>4, <2>1 DEF SaveWrite
  <2>3. mem[p] \in Maps /\ Torn \notin Maps
    OBVIOUS
  <2>4. data'[tmp] = mem[p]
    BY <1>4, <2>1 DEF SaveWrite
  <2> QED BY <1>0, <1>4, <2>1, <2>2, <2>3, <2>4 DEF SaveWrite
<1>5. ASSUME NEW p \in Procs, SaveRename(p) PROVE FilesApart'
  <2>1. Stored' = mem'[p]
    BY <1>0, <1>5 DEF SaveRename, Stored
  <2> QED BY <1>0, <1>5, <2>1 DEF SaveRename
<1>6. ASSUME NEW p \in Procs, SaveFails(p) PROVE FilesApart'
  BY <1>0, <1>6 DEF SaveFails
<1>7. ASSUME NEW p \in Procs, NEW h \in Hosts, NEW v \in Values, Add(p, h, v) PROVE FilesApart'
  BY <1>0, <1>7 DEF Add, Mutate
<1>8. ASSUME NEW p \in Procs, NEW h \in Hosts, NEW v \in Values, Set(p, h, v) PROVE FilesApart'
  BY <1>0, <1>8 DEF Set, Mutate
<1>9. CASE UNCHANGED vars
  <2>1. Stored' = Stored
    BY <1>9 DEF vars, Stored
  <2> QED BY <1>0, <1>9, <2>1 DEF vars
<1> QED
  BY <1>0, <1>1, <1>2, <1>3, <1>4, <1>5, <1>6, <1>7, <1>8, <1>9 DEF Next, Save

\* The step from the acknowledged hosts of one process to those of the next.
LEMMA KeptStep ==
    ASSUME \A p, q \in Procs : p = q
    PROVE  RInv /\ RInv' /\ ConnectedKept /\ [Next]_vars => ConnectedKept'
<1> SUFFICES ASSUME RInv, RInv', ConnectedKept, [Next]_vars PROVE ConnectedKept'
  OBVIOUS
<1> USE RegistryAssumption DEF RInv, TypeOK, FilesApart, ConnectedKept, fileVars
<1>1. ASSUME NEW p \in Procs, Load(p) PROVE ConnectedKept'
  <2>1. Stored' = Stored
    BY <1>1 DEF Load, Stored
  <2> QED BY <1>1, <2>1 DEF Load
<1>2. ASSUME NEW p \in Procs, Die(p) PROVE ConnectedKept'
  <2>1. Stored' = Stored
    BY <1>2 DEF Die, Stored
  <2> QED BY <1>2, <2>1 DEF Die
<1>3. ASSUME NEW p \in Procs, SaveOpen(p) PROVE ConnectedKept'
  <2>1. Stored' = Stored
    BY <1>3 DEF SaveOpen, Stored
  <2> QED BY <1>3, <2>1 DEF SaveOpen
<1>4. ASSUME NEW p \in Procs, SaveWrite(p) PROVE ConnectedKept'
  <2>1. Stored' = Stored
    BY <1>4 DEF SaveWrite, Stored
  <2> QED BY <1>4, <2>1 DEF SaveWrite
<1>5. ASSUME NEW p \in Procs, SaveRename(p) PROVE ConnectedKept'
  <2>1. Stored' = mem[p] /\ mem' = mem
    BY <1>5 DEF SaveRename, Stored
  <2>2. \A h \in connected' : mem[p][h] # Absent
    BY <1>5 DEF SaveRename
  <2> QED BY <1>5, <2>1, <2>2 DEF SaveRename
<1>6. ASSUME NEW p \in Procs, SaveFails(p) PROVE ConnectedKept'
  <2>1. Stored' = Stored
    BY <1>6 DEF SaveFails, Stored
  <2> QED BY <1>6, <2>1 DEF SaveFails
<1>7. ASSUME NEW p \in Procs, NEW h \in Hosts, NEW v \in Values, Add(p, h, v) PROVE ConnectedKept'
  <2>1. Stored' = Stored
    BY <1>7 DEF Add, Mutate, Stored
  <2> QED BY <1>7, <2>1 DEF Add, Mutate, Maps
<1>8. ASSUME NEW p \in Procs, NEW h \in Hosts, NEW v \in Values, Set(p, h, v) PROVE ConnectedKept'
  <2>1. Stored' = Stored
    BY <1>8 DEF Set, Mutate, Stored
  <2> QED BY <1>8, <2>1 DEF Set, Mutate, Maps
<1>9. CASE UNCHANGED vars
  <2>1. Stored' = Stored
    BY <1>9 DEF vars, Stored
  <2> QED BY <1>9, <2>1 DEF vars
<1> QED
  BY <1>1, <1>2, <1>3, <1>4, <1>5, <1>6, <1>7, <1>8, <1>9 DEF Next, Save

\* The variables of the registry are of their types, with any number of
\* processes on one data directory.
THEOREM RegistryTypes == Spec => []TypeOK
<1>1. Init => TypeOK
  BY RegistryInit DEF RInv
<1> QED BY <1>1, RegistryTypeStep, PTL DEF Spec

\* hosts.json is whole at every moment, across failed saves and crashes in the
\* middle of one, when one process at a time uses the directory.
THEOREM FileAlwaysWhole ==
    ASSUME \A p, q \in Procs : p = q
    PROVE  Spec => []FileIsWhole
<1>1. RInv => FileIsWhole
  BY RegistryAssumption DEF RInv, FilesApart, FileIsWhole
<1> QED BY <1>1, RegistryInit, AloneStep, PTL DEF Spec

\* What an operation returned nil for is what a restart loads.
THEOREM AcknowledgedIsDurable ==
    ASSUME \A p, q \in Procs : p = q
    PROVE  Spec => []AckedIsStored
<1>1. RInv => AckedIsStored
  BY DEF RInv, FilesApart, AckedIsStored
<1> QED BY <1>1, RegistryInit, AloneStep, PTL DEF Spec

\* A host that was registered is in the file from then on.
THEOREM RegisteredSurvives ==
    ASSUME \A p, q \in Procs : p = q
    PROVE  Spec => []ConnectedSurvives
<1>1. Init => ConnectedKept
  BY DEF Init, ConnectedKept
<1>2. ConnectedKept => ConnectedSurvives
  BY DEF ConnectedKept, ConnectedSurvives
<1> QED BY <1>1, <1>2, RegistryInit, AloneStep, KeptStep, PTL DEF Spec

-----------------------------------------------------------------------------
\* The map a process works with, and the one a restart would find; see Durable.
Memory == IF step[Owner] = "down" THEN Stored ELSE mem[Owner]

\* Every step of the one process is a step of the durable map, or leaves it.
LEMMA DurableStep ==
    ASSUME \A p, q \in Procs : p = q, Procs # {}
    PROVE  RInv /\ RInv' /\ [Next]_vars => [Durable!DNext]_(Durable!dvars)
<1> SUFFICES ASSUME RInv, RInv', [Next]_vars
             PROVE  \/ Durable!Change \/ Durable!Flush \/ Durable!Restore
                    \/ Memory' = Memory /\ Stored' = Stored
  BY DEF Durable!DNext, Durable!dvars, Memory
<1>0. Owner \in Procs /\ \A p \in Procs : p = Owner
  BY DEF Owner
<1> USE <1>0 DEF RInv, TypeOK, Memory, fileVars
<1>1. ASSUME NEW p \in Procs, Load(p) PROVE Memory' = Memory /\ Stored' = Stored
  BY <1>1 DEF Load, Stored
<1>2. ASSUME NEW p \in Procs, Die(p) PROVE Durable!Restore
  <2>1. Stored' = Stored /\ Memory' = Stored'
    BY <1>2 DEF Die, Stored
  <2> QED BY <2>1 DEF Durable!Restore
<1>3. ASSUME NEW p \in Procs, SaveOpen(p) PROVE Memory' = Memory /\ Stored' = Stored
  BY <1>3 DEF SaveOpen, Stored, FilesApart
<1>4. ASSUME NEW p \in Procs, SaveWrite(p) PROVE Memory' = Memory /\ Stored' = Stored
  BY <1>4 DEF SaveWrite, Stored, FilesApart
<1>5. ASSUME NEW p \in Procs, SaveRename(p) PROVE Durable!Flush
  <2>1. Stored' = mem[Owner] /\ Memory = mem[Owner] /\ Memory' = Memory
    BY <1>5, RegistryAssumption DEF SaveRename, Stored, FilesApart
  <2> QED BY <2>1 DEF Durable!Flush
<1>6. ASSUME NEW p \in Procs, SaveFails(p) PROVE Memory' = Memory /\ Stored' = Stored
  BY <1>6 DEF SaveFails, Stored
<1>7. ASSUME NEW p \in Procs, NEW h \in Hosts, NEW v \in Values, Add(p, h, v) PROVE Durable!Change
  <2>1. Stored' = Stored /\ Memory' = [Memory EXCEPT ![h] = v]
    BY <1>7 DEF Add, Mutate, Stored, Maps
  <2> QED BY <2>1 DEF Durable!Change
<1>8. ASSUME NEW p \in Procs, NEW h \in Hosts, NEW v \in Values, Set(p, h, v) PROVE Durable!Change
  <2>1. Stored' = Stored /\ Memory' = [Memory EXCEPT ![h] = v]
    BY <1>8 DEF Set, Mutate, Stored, Maps
  <2> QED BY <2>1 DEF Durable!Change
<1>9. CASE UNCHANGED vars
  BY <1>9 DEF vars, Stored
<1> QED
  BY <1>1, <1>2, <1>3, <1>4, <1>5, <1>6, <1>7, <1>8, <1>9 DEF Next, Save

\* The JSON file, its temporary twin and the process around them implement a
\* map whose flushes are atomic and whose restarts find the last flush.
THEOREM RegistryIsDurable ==
    ASSUME \A p, q \in Procs : p = q, Procs # {}
    PROVE  Spec => ImplementsDurableMap
<1>1. Init => Durable!DInit
  BY DEF Init, Durable!DInit, Stored, Empty, Owner
<1> QED
  BY <1>1, RegistryInit, AloneStep, DurableStep, PTL
  DEF Spec, ImplementsDurableMap, Durable!DSpec
=============================================================================
