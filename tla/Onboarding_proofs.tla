--------------------------- MODULE Onboarding_proofs ---------------------------
(* Proofs about Onboarding, for any number of hosts and keys.                  *)
EXTENDS Onboarding, TLAPS

\* What setup authorizes once it has begun is a key, what connect adds is a host.
Keyed ==
    /\ \A h \in Hosts : setup[h].at # "idle" => setup[h].key \in Keys
    /\ step[Connect] = "add" => target \in Hosts

TInv == TypeOK /\ Keyed

\* One process at a time between the look for a key and the end of its writing.
OneLooks == \A p, q \in Procs : step[p] \in Looking /\ step[q] \in Looking => p = q

\* What a process may take the files to hold, wherever it is.
KeyOnDisk ==
    /\ \A p \in Procs :
         /\ step[p] = "create" => file = None
         /\ step[p] = "write" => file = Empty
         /\ step[p] \in {"pubCreate", "pubWrite", "serving", "verify", "add"} =>
              file \in Keys /\ signer[p] = file
    /\ pub \in Keys => pub = file

\* A host has met no key but the one on the server's disk, and a line that setup
\* wrote is whole unless the file had a line without an end.
HostsFollow ==
    \A h \in Hosts :
        /\ setup[h].key \in Keys => setup[h].key = file
        /\ auth[h].ok \cup auth[h].text \subseteq {file}
        /\ auth[h].open \in Keys => auth[h].open \in auth[h].text
        /\ h \notin ragged => auth[h].open = None /\ auth[h].ok = auth[h].text
        /\ setup[h].at = "append" => setup[h].key \notin auth[h].text
        /\ setup[h].at \in {"start", "done"} => setup[h].key \in auth[h].text

\* A host that has been verified accepts that key still.
Verified ==
    /\ step[Connect] = "add" => file \in auth[target].ok
    /\ \A h \in registered : file \in auth[h].ok

OInv == TInv /\ OneLooks /\ KeyOnDisk /\ HostsFollow /\ Verified

-----------------------------------------------------------------------------
(* Types *)

\* A line written by setup leaves a file whose text has gained the key.
LEMMA WrittenFile ==
    ASSUME NEW a \in Files, NEW k \in Keys, NEW end \in BOOLEAN, NEW w \in Written(a, k, end)
    PROVE  /\ w \in Files
           /\ w.text = a.text \cup {k}
           /\ w.ok \subseteq a.ok \cup {k}
           /\ a.ok \ {a.open} \subseteq w.ok
           /\ a.open = None => w.ok = a.ok \cup {k}
           /\ w.open \in {None, Junk, k}
<1>1. CASE a.open = None
  <2>1. w = [a EXCEPT !.ok = @ \cup {k}, !.text = @ \cup {k}, !.open = IF end THEN None ELSE k]
    BY <1>1 DEF Written
  <2>2. w = [ok |-> a.ok \cup {k}, text |-> a.text \cup {k},
             open |-> IF end THEN None ELSE k]
    BY <2>1 DEF Files
  <2> QED BY <1>1, <2>2 DEF Files
<1>2. CASE a.open # None
  <2>1. PICK lost \in {{}, {a.open}} :
          w = [a EXCEPT !.ok = @ \ lost, !.text = @ \cup {k},
                        !.open = IF end THEN None ELSE Junk]
    BY <1>2 DEF Written
  <2>2. w = [ok |-> a.ok \ lost, text |-> a.text \cup {k},
             open |-> IF end THEN None ELSE Junk]
    BY <2>1 DEF Files
  <2> QED BY <1>2, <2>1, <2>2 DEF Files
<1> QED BY <1>1, <1>2

\* ... and if all of the line is written, it has its end.
LEMMA WrittenWhole ==
    ASSUME NEW a \in Files, NEW k \in Keys, NEW w \in Written(a, k, TRUE)
    PROVE  w.open = None
BY DEF Written, Files

LEMMA OnboardingTypeInit == Init => TInv
BY OnboardingAssumption DEF Init, TInv, TypeOK, Keyed, Files, Procs, Looking, SetupSteps

LEMMA OnboardingTypeStep == TInv /\ [Next]_vars => TInv'
<1> SUFFICES ASSUME TInv, [Next]_vars PROVE TInv'
  OBVIOUS
<1> USE OnboardingAssumption DEF TInv, TypeOK, Keyed, keyVars, procVars, hostVars
<1>1. ASSUME NEW p \in Procs, Start(p) PROVE TInv'
  BY <1>1 DEF Start, Goto, Looking
<1>2. ASSUME NEW p \in Procs, Look(p) PROVE TInv'
  <2>1. Fresh \subseteq Keys
    BY DEF Fresh
  <2> QED BY <1>2, <2>1 DEF Look, Goto, Ready, Looking, Procs
<1>3. ASSUME NEW p \in Procs, Creates(p) PROVE TInv'
  BY <1>3 DEF Creates, Goto, Looking, Procs
<1>4. ASSUME NEW p \in Procs, Writes(p) PROVE TInv'
  BY <1>4 DEF Writes, Goto, Ready, Looking, Procs
<1>5. ASSUME NEW p \in Procs, Die(p) PROVE TInv'
  BY <1>5 DEF Die, Goto, Looking
<1>6. ASSUME NEW h \in Hosts, Verify(h) PROVE TInv'
  BY <1>6 DEF Verify, Goto, Procs, Looking
<1>7. CASE Add
  BY <1>7 DEF Add, Goto, Procs, Looking
<1>8. ASSUME NEW h \in Hosts, Fetch(h) \/ Offline(h) PROVE TInv'
  <2>1. PICK k \in Keys : Begin(h, k)
    BY <1>8 DEF Fetch, Offline, Procs, Looking
  <2> QED BY <2>1 DEF Begin, SetupSteps
<1>9. ASSUME NEW h \in Hosts, Prepare(h) \/ Authorize(h) \/ StartSSHD(h) \/ SetupFails(h)
      PROVE TInv'
  BY <1>9 DEF Prepare, Authorize, StartSSHD, SetupFails, At, Proceed, SetupSteps
<1>10. ASSUME NEW h \in Hosts, Append(h) PROVE TInv'
  <2>1. PICK w \in Written(auth[h], setup[h].key, TRUE) : auth' = [auth EXCEPT ![h] = w]
    BY <1>10 DEF Append
  <2>2. w \in Files
    BY <1>10, <2>1, WrittenFile DEF Append, At
  <2> QED BY <1>10, <2>1, <2>2 DEF Append, At, Proceed, SetupSteps
<1>11. ASSUME NEW h \in Hosts, AppendTorn(h) PROVE TInv'
  <2>1. PICK w \in Written(auth[h], setup[h].key, FALSE) \cup {[auth[h] EXCEPT !.open = Junk]} :
            auth' = [auth EXCEPT ![h] = w]
    BY <1>11 DEF AppendTorn
  <2>2. [auth[h] EXCEPT !.open = Junk] \in Files
    BY DEF Files
  <2>3. w \in Files
    BY <1>11, <2>1, <2>2, WrittenFile DEF AppendTorn, At
  <2> QED BY <1>11, <2>1, <2>3 DEF AppendTorn, At, Proceed, SetupSteps
<1>12. CASE UNCHANGED vars
  BY <1>12 DEF vars
<1> QED
  BY <1>1, <1>2, <1>3, <1>4, <1>5, <1>6, <1>7, <1>8, <1>9, <1>10, <1>11, <1>12
     DEF Next, ProcNext, SetupNext

\* Every variable has its type, whoever runs at once: a process has a key exactly
\* when it has read or made one, and setup authorizes nothing but keys.
THEOREM OnboardingTypes == Spec => []TypeOK
<1>1. TInv => TypeOK
  BY DEF TInv
<1> QED
  BY <1>1, OnboardingTypeInit, OnboardingTypeStep, PTL DEF Spec

-----------------------------------------------------------------------------
(* One key for good, and the hosts that have it *)

LEMMA OnboardingInit == Init => OInv
<1> USE OnboardingAssumption DEF Init
<1>1. ASSUME Init PROVE OneLooks /\ KeyOnDisk /\ Verified
  BY <1>1 DEF OneLooks, KeyOnDisk, Verified, Looking, Procs
<1>2. ASSUME Init PROVE HostsFollow
  BY <1>2 DEF HostsFollow
<1> QED BY <1>1, <1>2, OnboardingTypeInit DEF OInv

\* What a host has met, after a step that leaves the host and the key alone.
LEMMA HostsRest ==
    ASSUME OInv, file' = file, UNCHANGED <<setup, auth, ragged>>
    PROVE  HostsFollow'
BY DEF OInv, HostsFollow

\* Where no key has been written, no host has one: it may be changed.
LEMMA NoKeyYet ==
    ASSUME OInv, file \notin Keys, UNCHANGED <<setup, auth, ragged>>, registered' = registered,
           step'[Connect] # "add"
    PROVE  HostsFollow' /\ Verified'
<1> USE OnboardingAssumption DEF OInv, TInv, TypeOK, HostsFollow, Verified, Files
<1>1. \A h \in Hosts : /\ setup[h].key = None
                       /\ auth[h].ok = {} /\ auth[h].text = {} /\ auth[h].open \notin Keys
  OBVIOUS
<1>2. registered = {}
  BY <1>1
<1>3. HostsFollow'
  BY <1>1
<1> QED BY <1>2, <1>3

\* The steps of the processes: a key file is made by one that looks alone.
LEMMA ProcStep ==
    ASSUME ~Overlap, OInv, NEW p \in Procs, ProcNext(p)
    PROVE  OneLooks' /\ KeyOnDisk' /\ HostsFollow' /\ Verified'
<1> USE OnboardingAssumption DEF OInv, TInv, TypeOK, keyVars, hostVars, procVars, Goto
<1>1. CASE Start(p)
  <2>1. OneLooks'
    BY <1>1 DEF Start, OneLooks
  <2>2. KeyOnDisk'
    BY <1>1 DEF Start, KeyOnDisk, Looking
  <2>3. Verified'
    BY <1>1 DEF Start, Verified, Procs
  <2> QED BY <1>1, <2>1, <2>2, <2>3, HostsRest DEF Start
<1>2. CASE Look(p)
  <2>1. OneLooks'
    BY <1>2 DEF Look, Ready, OneLooks, Looking
  <2>2. KeyOnDisk'
    BY <1>2 DEF Look, Ready, KeyOnDisk, Looking
  <2>3. Verified'
    BY <1>2 DEF Look, Ready, Verified, Procs
  <2> QED BY <1>2, <2>1, <2>2, <2>3, HostsRest DEF Look
<1>3. CASE Creates(p)
  <2>1. OneLooks'
    BY <1>3 DEF Creates, OneLooks, Looking
  <2>2. KeyOnDisk'
    BY <1>3 DEF Creates, KeyOnDisk, OneLooks, Looking
  <2>3. CASE step[p] = "create"
    <3>1. file \notin Keys
      BY <2>3 DEF KeyOnDisk
    <3>2. step'[Connect] # "add"
      BY <1>3, <2>3, <3>1 DEF Creates, KeyOnDisk, Procs
    <3> QED BY <1>3, <2>1, <2>2, <3>1, <3>2, NoKeyYet DEF Creates
  <2>4. CASE step[p] # "create"
    <3>1. file' = file /\ Verified'
      BY <1>3, <2>4 DEF Creates, Verified, Procs
    <3> QED BY <1>3, <2>1, <2>2, <3>1, HostsRest DEF Creates
  <2> QED BY <2>3, <2>4
<1>4. CASE Writes(p)
  <2>1. OneLooks'
    BY <1>4 DEF Writes, Ready, OneLooks, Looking
  <2>2. KeyOnDisk'
    BY <1>4 DEF Writes, Ready, KeyOnDisk, OneLooks, Looking
  <2>3. CASE step[p] = "write"
    <3>1. file \notin Keys
      BY <2>3 DEF KeyOnDisk
    <3>2. step'[Connect] # "add"
      BY <1>4, <2>3, <3>1 DEF Writes, KeyOnDisk, Procs
    <3> QED BY <1>4, <2>1, <2>2, <2>3, <3>1, <3>2, NoKeyYet DEF Writes
  <2>4. CASE step[p] # "write"
    <3>1. file' = file /\ Verified'
      BY <1>4, <2>4 DEF Writes, Ready, Verified, Procs
    <3> QED BY <1>4, <2>1, <2>2, <3>1, HostsRest DEF Writes
  <2> QED BY <2>3, <2>4
<1>5. CASE Die(p)
  <2>1. OneLooks'
    BY <1>5 DEF Die, OneLooks, Looking
  <2>2. KeyOnDisk'
    BY <1>5 DEF Die, KeyOnDisk
  <2>3. Verified'
    BY <1>5 DEF Die, Verified, Procs
  <2> QED BY <1>5, <2>1, <2>2, <2>3, HostsRest DEF Die
<1> QED BY <1>1, <1>2, <1>3, <1>4, <1>5 DEF ProcNext

\* What the verification and the registration do.
LEMMA ConnectStep ==
    ASSUME OInv, Add \/ (\E h \in Hosts : Verify(h))
    PROVE  OneLooks' /\ KeyOnDisk' /\ HostsFollow' /\ Verified'
<1> USE OnboardingAssumption DEF OInv, TInv, TypeOK, keyVars, hostVars, Goto, Procs
<1>1. CASE Add
  <2>1. OneLooks'
    BY <1>1 DEF Add, OneLooks, Looking
  <2>2. KeyOnDisk'
    BY <1>1 DEF Add, KeyOnDisk
  <2>3. Verified'
    BY <1>1 DEF Add, Verified
  <2> QED BY <1>1, <2>1, <2>2, <2>3, HostsRest DEF Add
<1>2. ASSUME NEW h \in Hosts, Verify(h) PROVE OneLooks' /\ KeyOnDisk' /\ HostsFollow' /\ Verified'
  <2>1. OneLooks'
    BY <1>2 DEF Verify, OneLooks, Looking
  <2>2. KeyOnDisk'
    BY <1>2 DEF Verify, KeyOnDisk
  <2>3. Verified'
    BY <1>2 DEF Verify, Verified, KeyOnDisk
  <2> QED BY <1>2, <2>1, <2>2, <2>3, HostsRest DEF Verify
<1> QED BY <1>1, <1>2

\* What setup does: it authorizes the key on the disk or nothing.
LEMMA SetupStep ==
    ASSUME OInv, TInv', NEW h \in Hosts, SetupNext(h)
    PROVE  OneLooks' /\ KeyOnDisk' /\ HostsFollow' /\ Verified'
<1> USE OnboardingAssumption DEF keyVars, procVars
<1>1. UNCHANGED <<keyVars, procVars>>
  BY DEF SetupNext, Fetch, Offline, Begin, Prepare, Authorize, Append, AppendTorn, StartSSHD,
         SetupFails
<1>2. OneLooks' /\ KeyOnDisk'
  BY <1>1 DEF OInv, OneLooks, KeyOnDisk
<1>3. ASSUME auth' = auth PROVE Verified'
  BY <1>1, <1>3 DEF OInv, Verified
<1> USE DEF OInv, TInv, TypeOK, Keyed
<1>4. CASE Fetch(h) \/ Offline(h)
  <2>1. PICK k \in {file} \cap Keys : Begin(h, k)
    BY <1>4 DEF Fetch, Offline, KeyOnDisk, Procs
  <2>2. HostsFollow'
    BY <1>1, <2>1 DEF Begin, HostsFollow
  <2> QED BY <1>2, <1>3, <2>1, <2>2 DEF Begin
<1>5. CASE Prepare(h) \/ StartSSHD(h) \/ SetupFails(h)
  <2>1. HostsFollow'
    BY <1>1, <1>5 DEF Prepare, StartSSHD, SetupFails, At, Proceed, HostsFollow
  <2> QED BY <1>2, <1>3, <1>5, <2>1 DEF Prepare, StartSSHD, SetupFails
<1>6. CASE Authorize(h)
  <2>1. HostsFollow'
    BY <1>1, <1>6 DEF Authorize, At, Proceed, HostsFollow
  <2> QED BY <1>2, <1>3, <1>6, <2>1 DEF Authorize
<1>7. ASSUME setup[h].at = "append", NEW w \in Files, auth' = [auth EXCEPT ![h] = w],
             auth[h].ok \subseteq w.ok
      PROVE  Verified'
  BY <1>1, <1>7 DEF Verified
<1>8. CASE Append(h)
  <2>1. /\ setup[h].key \in Keys /\ setup[h].key = file /\ setup[h].key \notin auth[h].text
        /\ auth[h].open \notin Keys /\ auth[h] \in Files
    BY <1>8 DEF Append, At, HostsFollow
  <2>2. \E w \in Files :
          /\ auth' = [auth EXCEPT ![h] = w]
          /\ w.text = auth[h].text \cup {file} /\ w.ok \subseteq auth[h].ok \cup {file}
          /\ auth[h].ok \ {auth[h].open} \subseteq w.ok
          /\ auth[h].open = None => w.ok = auth[h].ok \cup {file}
          /\ w.open = None
    <3>1. PICK w \in Written(auth[h], setup[h].key, TRUE) : auth' = [auth EXCEPT ![h] = w]
      BY <1>8 DEF Append
    <3>2. auth[h] \in Files
      BY <2>1
    <3>3. file \in Keys
      BY <2>1
    <3>4. TRUE \in BOOLEAN
      OBVIOUS
    <3>5. w \in Written(auth[h], file, TRUE)
      BY <2>1, <3>1, Zenon
    <3>6. w.open = None
      BY ONLY <3>2, <3>3, <3>5, WrittenWhole, Zenon
    <3>7. /\ w \in Files /\ w.text = auth[h].text \cup {file}
          /\ w.ok \subseteq auth[h].ok \cup {file} /\ auth[h].ok \ {auth[h].open} \subseteq w.ok
          /\ auth[h].open = None => w.ok = auth[h].ok \cup {file}
      BY ONLY <3>2, <3>3, <3>4, <3>5, WrittenFile, Zenon
    <3> QED BY ONLY <3>1, <3>6, <3>7, Zenon
  <2>3. PICK w \in Files :
          /\ auth' = [auth EXCEPT ![h] = w]
          /\ w.text = auth[h].text \cup {file} /\ w.ok \subseteq auth[h].ok \cup {file}
          /\ auth[h].ok \ {auth[h].open} \subseteq w.ok
          /\ auth[h].open = None => w.ok = auth[h].ok \cup {file}
          /\ w.open = None
    BY <2>2
  <2>4. auth[h].ok \subseteq w.ok
    BY <2>1, <2>3 DEF Files
  <2>5. HostsFollow'
    <3>1. setup' = [setup EXCEPT ![h].at = "start"] /\ ragged' = ragged /\ file' = file
      BY <1>1, <1>8 DEF Append, Proceed
    <3>2. ASSUME NEW g \in Hosts, g # h PROVE auth'[g] = auth[g] /\ setup'[g] = setup[g]
      BY <2>3, <3>1, <3>2
    <3>3. /\ auth'[h] = w /\ setup'[h].at = "start" /\ setup'[h].key = file
      BY <2>1, <2>3, <3>1
    <3>4. auth[h].ok \cup auth[h].text \subseteq {file}
          /\ (h \notin ragged => auth[h].open = None /\ auth[h].ok = auth[h].text)
      BY DEF HostsFollow
    <3>5. w.ok \cup w.text \subseteq {file} /\ (h \notin ragged => w.ok = w.text)
      BY <2>3, <3>4
    <3>6. /\ setup'[h].key \in Keys => setup'[h].key = file'
          /\ auth'[h].ok \cup auth'[h].text \subseteq {file'}
          /\ auth'[h].open = None /\ None \notin Keys
          /\ h \notin ragged' => auth'[h].ok = auth'[h].text
          /\ setup'[h].at = "start" /\ setup'[h].key \in auth'[h].text
      BY <2>1, <2>3, <3>1, <3>3, <3>5
    <3> HIDE DEF OInv, TInv, TypeOK, Keyed
    <3> QED BY <3>1, <3>2, <3>6 DEF HostsFollow, OInv
  <2> QED BY <1>2, <1>7, <1>8, <2>3, <2>4, <2>5 DEF Append, At
<1>9. CASE AppendTorn(h)
  <2>1. /\ setup[h].key \in Keys /\ setup[h].key = file /\ setup[h].key \notin auth[h].text
        /\ auth[h].open \notin Keys /\ auth[h] \in Files
    BY <1>9 DEF AppendTorn, At, HostsFollow
  <2>2. \E w \in Files :
          /\ auth' = [auth EXCEPT ![h] = w]
          /\ w.text \in {auth[h].text, auth[h].text \cup {file}}
          /\ w.ok \subseteq auth[h].ok \cup {file}
          /\ auth[h].ok \ {auth[h].open} \subseteq w.ok
          /\ w.open \in {None, Junk, file} /\ (w.open = file => w.text = auth[h].text \cup {file})
    <3>1. \/ \E w \in Written(auth[h], setup[h].key, FALSE) : auth' = [auth EXCEPT ![h] = w]
          \/ auth' = [auth EXCEPT ![h] = [auth[h] EXCEPT !.open = Junk]]
      BY <1>9 DEF AppendTorn
    <3>2. ASSUME NEW w \in Written(auth[h], setup[h].key, FALSE), auth' = [auth EXCEPT ![h] = w]
          PROVE  \E v \in Files :
                   /\ auth' = [auth EXCEPT ![h] = v]
                   /\ v.text \in {auth[h].text, auth[h].text \cup {file}}
                   /\ v.ok \subseteq auth[h].ok \cup {file}
                   /\ auth[h].ok \ {auth[h].open} \subseteq v.ok
                   /\ v.open \in {None, Junk, file}
                   /\ v.open = file => v.text = auth[h].text \cup {file}
      <4>1. auth[h] \in Files
        BY <2>1
      <4>2. file \in Keys
        BY <2>1
      <4>3. FALSE \in BOOLEAN
        OBVIOUS
      <4>4. w \in Written(auth[h], file, FALSE)
        BY <2>1, <3>2, Zenon
      <4>5. /\ w \in Files /\ w.text = auth[h].text \cup {file}
            /\ w.ok \subseteq auth[h].ok \cup {file} /\ auth[h].ok \ {auth[h].open} \subseteq w.ok
            /\ auth[h].open = None => w.ok = auth[h].ok \cup {file}
        BY ONLY <4>1, <4>2, <4>3, <4>4, WrittenFile, Zenon
      <4>6. w.open \in {None, Junk, file}
        BY ONLY <4>1, <4>2, <4>3, <4>4, WrittenFile, Zenon
      <4>7. w.text \in {auth[h].text, auth[h].text \cup {file}}
        BY ONLY <4>5
      <4> QED BY ONLY <3>2, <4>5, <4>6, <4>7, Zenon
    <3>3. CASE auth' = [auth EXCEPT ![h] = [auth[h] EXCEPT !.open = Junk]]
      <4> DEFINE r == [ok |-> auth[h].ok, text |-> auth[h].text, open |-> Junk]
      <4>1. r \in Files /\ Junk # file
        BY ONLY <2>1, OnboardingAssumption DEF Files
      <4>2. [auth[h] EXCEPT !.open = Junk] = r
        BY ONLY <2>1 DEF Files
      <4> QED BY ONLY <3>3, <4>1, <4>2
    <3> QED BY <3>1, <3>2, <3>3, Zenon
  <2>3. PICK w \in Files :
          /\ auth' = [auth EXCEPT ![h] = w]
          /\ w.text \in {auth[h].text, auth[h].text \cup {file}}
          /\ w.ok \subseteq auth[h].ok \cup {file}
          /\ auth[h].ok \ {auth[h].open} \subseteq w.ok
          /\ w.open \in {None, Junk, file} /\ (w.open = file => w.text = auth[h].text \cup {file})
    BY <2>2
  <2>4. auth[h].ok \subseteq w.ok
    BY <2>1, <2>3 DEF Files
  <2>5. HostsFollow'
    BY <1>1, <1>9, <2>1, <2>3, <2>4 DEF AppendTorn, At, Proceed, HostsFollow
  <2> QED BY <1>2, <1>7, <1>9, <2>3, <2>4, <2>5 DEF AppendTorn, At
<1> QED BY <1>4, <1>5, <1>6, <1>8, <1>9 DEF SetupNext

LEMMA OnboardingStep == ~Overlap => (OInv /\ [Next]_vars => OInv')
<1> SUFFICES ASSUME ~Overlap, OInv, [Next]_vars PROVE OInv'
  OBVIOUS
<1>1. TInv'
  BY OnboardingTypeStep DEF OInv
<1>2. CASE UNCHANGED vars
  BY <1>1, <1>2 DEF vars, keyVars, procVars, hostVars, OInv, OneLooks, KeyOnDisk, HostsFollow, Verified
<1> QED BY <1>1, <1>2, ProcStep, ConnectStep, SetupStep DEF Next, OInv

LEMMA OnboardingInv == ASSUME ~Overlap PROVE Spec => []OInv
<1>1. OInv /\ [Next]_vars => OInv'
  BY OnboardingStep
<1> QED BY <1>1, OnboardingInit, PTL DEF Spec

\* If serve and connect are not both making the first key at once, then a host on
\* which setup reported success trusts the key on the server's disk: from then on,
\* for any number of hosts and keys, crashes, torn lines elsewhere and repetitions.
THEOREM SetupSuffices == ASSUME ~Overlap PROVE Spec => []SetupIsEnough
<1>1. OInv => SetupIsEnough
  BY DEF OInv, TInv, TypeOK, Keyed, HostsFollow, SetupIsEnough
<1> QED BY <1>1, OnboardingInv, PTL

\* Likewise, a host that was verified once and registered accepts every server that
\* is started later: its key is the one that was verified.
THEOREM RegisteredHostsTrust == ASSUME ~Overlap PROVE Spec => []RegisteredTrusts
<1>1. OInv => RegisteredTrusts
  BY DEF OInv, KeyOnDisk, Verified, RegisteredTrusts, Procs
<1> QED BY <1>1, OnboardingInv, PTL

\* A server that has a key has it for good: no start, crash or repetition changes it.
THEOREM KeyForGood == ASSUME ~Overlap PROVE Spec => [][(file \in Keys) => file' = file]_vars
<1>1. OInv /\ [Next]_vars => [(file \in Keys) => file' = file]_vars
  <2> SUFFICES ASSUME OInv, Next, file \in Keys PROVE file' = file
    BY DEF vars, keyVars
  <2>1. ASSUME NEW p \in Procs, Creates(p) \/ Writes(p) PROVE file' = file
    BY <2>1, OnboardingAssumption DEF Creates, Writes, OInv, KeyOnDisk
  <2> QED
    BY <2>1 DEF Next, ProcNext, SetupNext, Start, Look, Die, Verify, Add, Fetch, Offline, Begin,
                Prepare, Authorize, Append, AppendTorn, StartSSHD, SetupFails, keyVars
<1> QED BY <1>1, OnboardingInv, PTL DEF Spec
=============================================================================
