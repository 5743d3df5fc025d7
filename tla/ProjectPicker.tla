----------------------------- MODULE ProjectPicker -----------------------------
(* Server.Projects (internal/server/server.go) with the indexer it runs on     *)
(* every host (internal/project/indexer.go) and the dialer's Run               *)
(* (internal/remote/dialer.go): one goroutine per host, two remote commands    *)
(* each, every command on a connection of its own, and one wait for them all.  *)
(* Projects is a method of the server: its names are kept apart from those of  *)
(* Server, so that a module may extend both.                                   *)
EXTENDS Naturals, FiniteSets, SequencesExt

CONSTANTS
    N,              \* how many hosts are registered
    Down,           \* those that may be marked Down when the picker opens
    Homeless,       \* those whose HomeConfig may have no root by then
    Hanging,        \* those that may stop answering once TCP has connected
    Paths,          \* directories of a host, numbered in sorting order
    Root,           \* HomeConfig.Root
    Below,          \* pairs <<d, r>>: d lies strictly below r
    ScanDepth

\* Numbered in the order of Registry.List.
Registered == 1..N

ASSUME PickerAssumption ==
    /\ N \in Nat
    /\ Down \subseteq Registered /\ Homeless \subseteq Registered /\ Hanging \subseteq Registered
    /\ Paths \subseteq Nat /\ Root \in Paths
    /\ Below \subseteq Paths \X Paths
    /\ \A d \in Paths : <<d, d>> \notin Below
    /\ \A c, d, r \in Paths : <<c, d>> \in Below /\ <<d, r>> \in Below => <<c, r>> \in Below
    /\ \A d \in Paths \ {Root} : <<d, Root>> \in Below
    /\ ScanDepth \in Nat

VARIABLES
    pc,         \* per host: where its goroutine is
    run,        \* per host: the remote command it is on, 1 or 2
    expired,    \* per host: its context is done
    found,      \* per host: repoRoots, from the first command
    results,    \* per host: results[i]
    called,     \* the picker waits
    out,        \* what Projects returned
    repos       \* per host: the directories that are git repositories

pvars == <<pc, run, expired, found, results, called, out, repos>>

Entries == [host : Registered, root : Paths]

PickerTypeOK ==
    /\ pc \in [Registered -> {"none", "dial", "handshake", "command", "hung", "done"}]
    /\ run \in [Registered -> {1, 2}]
    /\ expired \in [Registered -> BOOLEAN]
    /\ found \in [Registered -> SUBSET Paths] /\ results \in [Registered -> SUBSET Paths]
    /\ called \in BOOLEAN
    /\ \A i \in DOMAIN out : out[i] \in Entries
    /\ repos \in [Registered -> SUBSET Paths]

PickerInit ==
    /\ pc = [h \in Registered |-> "none"]
    /\ run = [h \in Registered |-> 1]
    /\ expired = [h \in Registered |-> FALSE]
    /\ found = [h \in Registered |-> {}] /\ results = [h \in Registered |-> {}]
    /\ called = FALSE
    /\ out = <<>>
    /\ repos \in [Registered -> SUBSET Paths]

-----------------------------------------------------------------------------
(* Indexer.Index: what the two commands print and how they are combined.  *)

Level(d) == Cardinality({r \in Paths : <<d, r>> \in Below})

\* find Root -maxdepth ScanDepth+1 -name .git: the repositories near enough.  A
\* depth below one counts as one.
GitRoots(h) ==
    {d \in repos[h] : Level(d) <= (IF ScanDepth < 1 THEN 1 ELSE ScanDepth)}

\* find Root -mindepth 1 -maxdepth 1.
SubDirs == {d \in Paths : Level(d) = 1}

InsideAnyRepo(d, rs) == \E r \in rs : d = r \/ <<d, r>> \in Below

\* Mutant: directories are compared with the repositories there are by now.
Combine_Rescan(h) == found[h] \cup {d \in SubDirs : ~InsideAnyRepo(d, GitRoots(h))}

\* Repositories, and the plain directories that lie in none of them.
Combine(h) == found[h] \cup {d \in SubDirs : ~InsideAnyRepo(d, found[h])}

-----------------------------------------------------------------------------
(* The goroutine of a host *)

\* The picker opens: a goroutine for every host that is not Down.  One without a
\* root has nothing to index.
Call ==
    /\ ~called
    /\ called' = TRUE
    /\ \E down \in SUBSET Down, homeless \in SUBSET Homeless :
        pc' = [h \in Registered |-> IF h \in down THEN "none"
                               ELSE IF h \in homeless THEN "done" ELSE "dial"]
    /\ run' = [h \in Registered |-> 1]
    /\ expired' = [h \in Registered |-> FALSE]
    /\ found' = [h \in Registered |-> {}] /\ results' = [h \in Registered |-> {}]
    /\ out' = <<>>
    /\ UNCHANGED repos

\* hctx reaches indexTimeout, or the interface's own context is cancelled.
Expire(h) ==
    /\ pc[h] \notin {"none", "done"}
    /\ expired' = [expired EXCEPT ![h] = TRUE]
    /\ UNCHANGED <<pc, run, found, results, called, out, repos>>

Goto(h, at) ==
    /\ pc' = [pc EXCEPT ![h] = at]
    /\ UNCHANGED <<run, expired, found, results, called, out, repos>>

\* TCP connects, unless the context is done already.
Connects(h) == pc[h] = "dial" /\ ~expired[h] /\ Goto(h, "handshake")

\* DialContext gives up with its context, the goroutine ends with the error.
DialFails(h) == pc[h] = "dial" /\ expired[h] /\ Goto(h, "done")

\* NewClientConn and NewSession: no context reaches them.
Handshakes(h) == pc[h] = "handshake" /\ Goto(h, "command")

\* Refused, a bad key, a lost connection, a command that fails: an error ends
\* the goroutine, and what the first command found is dropped.
Fails(h) == pc[h] \in {"dial", "handshake", "command"} /\ Goto(h, "done")

\* The host stops answering: nothing that runs after the dial notices.
Hangs(h) == h \in Hanging /\ pc[h] \in {"handshake", "command"} /\ Goto(h, "hung")

\* The first command has printed: the second dials anew.
FirstPrints(h) ==
    /\ pc[h] = "command" /\ run[h] = 1
    /\ found' = [found EXCEPT ![h] = GitRoots(h)]
    /\ run' = [run EXCEPT ![h] = 2]
    /\ pc' = [pc EXCEPT ![h] = "dial"]
    /\ UNCHANGED <<expired, results, called, out, repos>>

\* The second one has: the goroutine leaves its list and is done.
SecondPrints(h) ==
    /\ pc[h] = "command" /\ run[h] = 2
    /\ results' = [results EXCEPT ![h] = Combine(h)]
    /\ pc' = [pc EXCEPT ![h] = "done"]
    /\ UNCHANGED <<run, expired, found, called, out, repos>>

-----------------------------------------------------------------------------
(* The picker *)

\* Mutant: the merge does not wait for the goroutines.
Waited_Not == \A h \in Registered : pc[h] # "dial"

\* Mutant: hosts that are skipped are waited for too.
Waited_All == \A h \in Registered : pc[h] = "done"

\* wg.Wait: every goroutine that was started has returned.
Waited == \A h \in Registered : pc[h] \in {"none", "done"}

\* sort.Strings: what the indexer found on a host, in order.
Sorted(S) == CHOOSE s \in SetToSeqs(S) : \A i, j \in DOMAIN s : i < j => s[i] < s[j]

\* Mutant: a list is merged under the host before its own.
Merge_OffByOne ==
    LET Listed(h) == Sorted(results[h])
        Entry(h) == [i \in DOMAIN Listed(h) |-> [host |-> h - 1, root |-> Listed(h)[i]]]
    IN FlattenSeq([h \in Registered |-> Entry(h)])

\* Host by host, each list sorted.  A root is once in its host's list, so the
\* map of keys seen never finds one twice: see ListIsComplete.
Merge == LET Listed(h) == Sorted(results[h])
             Entry(h) == [i \in DOMAIN Listed(h) |-> [host |-> h, root |-> Listed(h)[i]]]
         IN FlattenSeq([h \in Registered |-> Entry(h)])

ReturnList ==
    /\ called /\ Waited
    /\ called' = FALSE
    /\ out' = Merge
    /\ UNCHANGED <<pc, run, expired, found, results, repos>>

\* Somebody makes or removes a repository meanwhile.
TreeChanges(h) ==
    /\ pc[h] # "none"
    /\ \E d \in Paths :
        repos' = [repos EXCEPT ![h] = IF d \in @ THEN @ \ {d} ELSE @ \cup {d}]
    /\ UNCHANGED <<pc, run, expired, found, results, called, out>>

Answers(h) ==
    \/ Connects(h) \/ DialFails(h) \/ Handshakes(h) \/ FirstPrints(h) \/ SecondPrints(h)

PickerNext ==
    \/ Call \/ ReturnList
    \/ \E h \in Registered : Answers(h) \/ Fails(h) \/ Expire(h) \/ Hangs(h) \/ TreeChanges(h)

\* Deadlines pass, hosts that have not hung go on, and the waiting goroutine
\* wakes up when the last of the others is done.
PickerFairness ==
    /\ WF_pvars(ReturnList)
    /\ \A h \in Registered :
        /\ WF_pvars(Expire(h) /\ ~expired[h])
        /\ WF_pvars(DialFails(h))
        /\ WF_pvars(Handshakes(h) \/ FirstPrints(h) \/ SecondPrints(h))

PickerSpec == PickerInit /\ [][PickerNext]_pvars /\ PickerFairness

-----------------------------------------------------------------------------
(* Properties *)

\* The picker always comes up: within the deadline of every host, whatever the
\* hosts do.
PickerAnswers == called ~> ~called

\* What is left of it without a deadline on handshakes and commands: it comes up
\* unless a host stops answering after it has accepted the connection.
PickerAnswersUnlessHung == called ~> (~called \/ \E h \in Registered : pc[h] = "hung")

\* The list of one host hides nothing: between its two commands a repository may
\* come or go, and every top-level directory is still an entry or inside one.
NothingHidden(h) == \A d \in SubDirs : InsideAnyRepo(d, results[h])

\* The picker's list is complete: it has every project of every host that was
\* indexed, once and in the order of the hosts, although each goroutine writes
\* its part in its own time; and the part of a host is its whole tree or, when
\* either of its commands failed, nothing.
ListIsComplete ==
    /\ \A h \in Registered : results[h] # {} => NothingHidden(h)
    /\ out # <<>> =>
        /\ {out[i] : i \in DOMAIN out} = {e \in Entries : e.root \in results[e.host]}
        /\ \A i, j \in DOMAIN out : i < j =>
            \/ out[i].host < out[j].host
            \/ out[i].host = out[j].host /\ out[i].root < out[j].root
=============================================================================
