---------------------------- MODULE Interface_proofs ----------------------------
(* Proofs about Interface, for any finite sets of sessions and hosts, lists of *)
(* any length and filters of any length.                                       *)
EXTENDS Interface, FiniteSetTheorems, TLAPS

\* What Enter acts on, and what the goroutine of Handle is doing once it has.
Things == Sessions \cup Hosts \cup {None}
Acts == [do : Kinds \cup {"switch"}, about : Things]

\* What is filtered are entries of the overlay.
Filtered == overlay # None => overlay.filtered \in Seq(Indices(overlay))

\* An action is under way exactly when there is one, and a jump is to a session.
ActKnown ==
    /\ at \in {"act", "show"} => act \in Acts
    /\ at = "show" => act.about \in Sessions

TInv == TypeOK /\ Filtered /\ ActKnown /\ ModeHasOverlay

\* A prompt for a title that takes keys, or has been committed, is about the
\* session that was on the screen when r was typed.
TitleIsAsked ==
    /\ at = "open" => mode = "stream"
    /\ overlay # None /\ overlay.kind = "title" /\ (mode = "overlay" \/ at = "overlay") =>
        overlay.about = asked /\ asked # None
    /\ at = "act" /\ act.do = "title" => act.about = asked

\* A row that is pressed is one the button went down on.
PressedIsHeld == \A i \in pressed : i = Toggle \/ (i \in DOMAIN Rows /\ Rows[i] \in held)

MeantInv == TInv /\ TitleIsAsked /\ PressedIsHeld

-----------------------------------------------------------------------------
(* Sequences of the elements of a set, and the operators of the overlay *)

\* SetToSeq lists a finite set by its elements.
LEMMA SetToSeqOf ==
    ASSUME NEW S, IsFiniteSet(S)
    PROVE  SetToSeq(S) \in [1..Cardinality(S) -> S] /\ Cardinality(S) \in Nat
<1>1. Cardinality(S) \in Nat /\ ExistsBijection(1..Cardinality(S), S)
  BY FS_CardinalityType
<1>2. PICK f \in Bijection(1..Cardinality(S), S) : TRUE
  BY <1>1 DEF ExistsBijection
<1>3. f \in [1..Cardinality(S) -> S] /\ IsInjective(f)
  BY <1>2 DEF Bijection, Injection, IsInjective
<1> QED BY <1>1, <1>3 DEF SetToSeq

\* A new list has its entries in order, and the first one selected.
LEMMA NewIsOverlay ==
    ASSUME NEW kind \in Kinds, NEW n \in Nat, NEW labels \in [1..n -> Things], NEW about \in Things
    PROVE  LET ov == New(kind, labels, about)
           IN  /\ ov \in Overlays /\ InList(ov) /\ ov.filtered \in Seq(Indices(ov))
               /\ ov.kind = kind /\ ov.about = about /\ ov # None
<1> DEFINE f == [i \in 1..n |-> i]
<1>1. labels \in Seq(Things) /\ Len(labels) = n
  OBVIOUS
<1>2. f \in Seq(Nat) /\ f \in Seq(1..n) /\ Len(f) = n
  OBVIOUS
<1>3. New(kind, labels, about) = [kind |-> kind, labels |-> labels, about |-> about, query |-> 0,
                                  filtered |-> f, sel |-> 0]
  BY <1>1 DEF New
<1>4. 0 \in 0..MaxQuery
  BY InterfaceAssumption
<1>5. New(kind, labels, about) \in Overlays
  BY <1>1, <1>2, <1>3, <1>4 DEF Overlays, Things
<1> QED BY <1>1, <1>2, <1>3, <1>5, OverlayAssumption DEF InList, Indices

\* Filtering and moving keep the entries, and the selection in the list.
LEMMA RefilteredIsOverlay ==
    ASSUME NEW ov \in Overlays, NEW q \in 0..MaxQuery, NEW nv \in Refiltered(ov, q)
    PROVE  /\ nv \in Overlays /\ InList(nv) /\ nv.filtered \in Seq(Indices(nv))
           /\ nv.kind = ov.kind /\ nv.about = ov.about /\ nv # None
<1> DEFINE n == Len(ov.labels)
<1>1. n \in Nat /\ Indices(ov) = 1..n /\ IsFiniteSet(1..n)
  BY FS_Interval DEF Overlays, Indices
<1>2. ASSUME NEW S \in SUBSET Indices(ov), NEW f \in SetToSeqs(S)
      PROVE  f \in Seq(Indices(ov))
  <2>1. Cardinality(S) \in Nat
    BY <1>1, FS_Subset, FS_CardinalityType
  <2>2. f \in [1..Cardinality(S) -> S]
    BY DEF SetToSeqs
  <2> QED BY <2>1, <2>2
<1>3. [i \in Indices(ov) |-> i] \in Seq(Indices(ov))
  BY <1>1
<1>4. PICK f \in Seq(Indices(ov)) :
        nv = [ov EXCEPT !.query = q, !.filtered = f, !.sel = Clamp(ov.sel, Len(f))]
  BY <1>2, <1>3 DEF Refiltered, Matches
<1>5. f \in Seq(Nat) /\ Len(f) \in Nat
  BY <1>1
<1>6. ov.sel \in Nat
  BY DEF Overlays
<1>7. Clamp(ov.sel, Len(f)) \in Nat
      /\ (Clamp(ov.sel, Len(f)) = 0 \/ Clamp(ov.sel, Len(f)) < Len(f))
  BY <1>5, <1>6 DEF Clamp
<1>8. nv \in Overlays /\ nv.filtered = f /\ nv.labels = ov.labels /\ nv.kind = ov.kind
      /\ nv.about = ov.about /\ nv.sel = Clamp(ov.sel, Len(f))
  BY <1>4, <1>5, <1>7 DEF Overlays
<1> QED BY <1>7, <1>8, OverlayAssumption DEF InList, Indices

LEMMA MovedIsOverlay ==
    ASSUME NEW ov \in Overlays, InList(ov), ov.filtered \in Seq(Indices(ov)), NEW d
    PROVE  LET nv == Moved(ov, d)
           IN  /\ nv \in Overlays /\ InList(nv) /\ nv.filtered \in Seq(Indices(nv))
               /\ nv.kind = ov.kind /\ nv.about = ov.about /\ nv # None
<1>1. CASE ov.filtered = <<>>
  BY <1>1, OverlayAssumption DEF Moved
<1>2. CASE ov.filtered # <<>>
  <2> DEFINE n == Len(ov.filtered)
             z == IF d = "up" THEN (IF ov.sel = 0 THEN 0 ELSE ov.sel - 1) ELSE Clamp(ov.sel + 1, n)
  <2>1. n \in Nat /\ ov.sel \in Nat
    BY DEF Overlays
  <2>2. z \in Nat /\ (z = 0 \/ z < n)
    BY <2>1 DEF Clamp, InList
  <2>3. Moved(ov, d) = [ov EXCEPT !.sel = z]
    BY <1>2 DEF Moved
  <2> HIDE DEF z
  <2>4. LET nv == Moved(ov, d)
        IN  nv \in Overlays /\ nv.filtered = ov.filtered /\ nv.labels = ov.labels
            /\ nv.kind = ov.kind /\ nv.about = ov.about /\ nv.sel = z
    BY <2>2, <2>3 DEF Overlays
  <2> QED BY <2>2, <2>4, OverlayAssumption DEF InList, Indices
<1> QED BY <1>1, <1>2

\* Enter acts on an entry, or on nothing.
LEMMA SelectedIsThing ==
    ASSUME NEW ov \in Overlays, ov.filtered \in Seq(Indices(ov))
    PROVE  Selected(ov) \in Things
<1>1. CASE ov.sel < Len(ov.filtered)
  <2>1. ov.sel + 1 \in 1..Len(ov.filtered)
    BY <1>1 DEF Overlays
  <2>2. ov.filtered[ov.sel + 1] \in 1..Len(ov.labels)
    BY <2>1 DEF Indices
  <2>3. ov.labels \in Seq(Things)
    BY DEF Overlays, Things
  <2> QED BY <1>1, <2>2, <2>3 DEF Selected
<1> QED BY <1>1 DEF Selected, Things

\* The rows of the sidebar are sessions, no more than there are.
LEMMA RowsAreSessions ==
    ASSUME IsFiniteSet(Sessions), TypeOK
    PROVE  /\ DOMAIN Rows \subseteq 1..Cardinality(Sessions)
           /\ \A i \in DOMAIN Rows : Rows[i] \in Sessions
<1>1. built.list \subseteq Sessions
  BY DEF TypeOK
<1>2. IsFiniteSet(built.list) /\ Cardinality(built.list) <= Cardinality(Sessions)
  BY <1>1, FS_Subset
<1>3. Cardinality(Sessions) \in Nat /\ Cardinality(built.list) \in Nat
  BY <1>2, FS_CardinalityType
<1>4. SetToSeq(built.list) \in [1..Cardinality(built.list) -> built.list]
  BY <1>2, SetToSeqOf
<1>5. CASE built.collapsed
  BY <1>5, <1>3 DEF Rows
<1>6. CASE ~built.collapsed
  <2>1. Rows = SetToSeq(built.list)
    BY <1>6 DEF Rows
  <2> QED BY <1>1, <1>2, <1>3, <1>4, <2>1
<1> QED BY <1>5, <1>6
-----------------------------------------------------------------------------
(* Types, and who has the keyboard *)

\* What the invariant says of the overlay alone.
Fine(ov) == ov = None \/ (ov \in Overlays /\ InList(ov) /\ ov.filtered \in Seq(Indices(ov)))

LEMMA OverlayParts ==
    /\ TypeOK /\ Filtered => Fine(overlay)
    /\ Fine(overlay) => Filtered /\ (overlay = None \/ (overlay \in Overlays /\ InList(overlay)))
BY DEF TypeOK, Filtered, Fine

LEMMA TypesInit == ASSUME IsFiniteSet(Sessions) PROVE Init => TInv
<1>1. Cardinality(Sessions) \in Nat
  BY FS_CardinalityType
<1> SUFFICES ASSUME Init PROVE TInv
  OBVIOUS
<1>2. built \in [collapsed : BOOLEAN, view : Sessions \cup {None}, list : SUBSET Sessions]
  BY DEF Init
<1> QED BY <1>1, <1>2 DEF Init, TInv, TypeOK, Filtered, ActKnown, ModeHasOverlay, Keys

\* An overlay that Start opens.
LEMMA StartKeeps ==
    ASSUME NEW kind \in Kinds, NEW n \in Nat, NEW labels \in [1..n -> Things], NEW about \in Things,
           Start(New(kind, labels, about))
    PROVE  Fine(overlay') /\ overlay' # None /\ mode' = "overlay"
           /\ overlay'.kind = kind /\ overlay'.about = about
BY NewIsOverlay DEF Start, Fine

LEMMA OpenKeeps ==
    ASSUME IsFiniteSet(Sessions), IsFiniteSet(Hosts), TInv, Open
    PROVE  /\ Fine(overlay')
           /\ \/ UNCHANGED <<mode, overlay>> /\ asked' = view
              \/ /\ mode' = "overlay" /\ overlay' # None
                 /\ overlay'.kind = "title" => overlay'.about = asked' /\ asked' # None
<1> USE DEF Kinds
<1>1. None \in Things /\ Sessions \subseteq Things /\ Hosts \subseteq Things
  BY DEF Things
<1>2. CASE \E n \in 0..Entries : Start(New("projects", [i \in 1..n |-> None], None))
  <2>1. PICK n \in 0..Entries : Start(New("projects", [i \in 1..n |-> None], None))
    BY <1>2
  <2>2. n \in Nat /\ [i \in 1..n |-> None] \in [1..n -> Things]
    BY <1>1, InterfaceAssumption
  <2> QED BY <1>1, <2>1, <2>2, StartKeeps
<1>3. CASE Start(New("sessions", SetToSeq(running), None))
  <2>1. running \subseteq Sessions /\ IsFiniteSet(running)
    BY FS_Subset DEF TInv, TypeOK
  <2>2. SetToSeq(running) \in [1..Cardinality(running) -> Things] /\ Cardinality(running) \in Nat
    BY <1>1, <2>1, SetToSeqOf
  <2> QED BY <1>1, <1>3, <2>2, StartKeeps
<1>4. CASE Start(New("devices", SetToSeq(Hosts), None))
  <2>1. SetToSeq(Hosts) \in [1..Cardinality(Hosts) -> Things] /\ Cardinality(Hosts) \in Nat
    BY <1>1, SetToSeqOf
  <2> QED BY <1>1, <1>4, <2>1, StartKeeps
<1>5. CASE key = "r" /\ view # None /\ Start(New("title", <<>>, view))
  <2>1. <<>> \in [1..0 -> Things] /\ view \in Things
    BY <1>1 DEF TInv, TypeOK
  <2>2. asked' = view
    BY <1>5 DEF Open
  <2> QED BY <1>5, <2>1, <2>2, StartKeeps
<1>6. CASE key = "r" /\ view = None /\ UNCHANGED <<overlay, mode>>
  BY <1>6, OverlayParts DEF Open, TInv, Fine
<1> QED BY <1>2, <1>3, <1>4, <1>5, <1>6 DEF Open

LEMMA OverlayKeyKeeps ==
    ASSUME TInv, OverlayKey
    PROVE  /\ Fine(overlay')
           /\ \/ overlay' = None /\ mode' = "stream"
              \/ /\ overlay' # None /\ mode' = mode /\ at' = "render"
                 /\ overlay'.kind = overlay.kind /\ overlay'.about = overlay.about
           /\ at' \in {"act", "render"}
           /\ at' = "act" => /\ act' = [do |-> overlay.kind,
                                        about |-> IF overlay.about # None THEN overlay.about
                                                  ELSE Selected(overlay)]
                             /\ act' \in Acts
<1>1. /\ overlay # None /\ overlay \in Overlays /\ InList(overlay)
      /\ overlay.filtered \in Seq(Indices(overlay)) /\ Fine(overlay)
  BY OverlayParts DEF OverlayKey, TInv, TypeOK, Filtered
<1>2. CASE key = "esc" /\ Close /\ Goto("render")
  BY <1>2 DEF Close, Goto, Fine
<1>3. CASE key = "enter" /\ Close
  <2>1. overlay' = None /\ mode' = "stream" /\ at' \in {"act", "render"}
    BY <1>3 DEF OverlayKey, Close, Goto
  <2>2. CASE overlay.kind \in Text \/ overlay.sel < Len(overlay.filtered)
    <3> DEFINE a == IF overlay.about # None THEN overlay.about ELSE Selected(overlay)
    <3>1. a \in Things /\ overlay.kind \in Kinds
      BY <1>1, SelectedIsThing DEF Overlays, Things
    <3>2. act' = [do |-> overlay.kind, about |-> a]
      BY <1>3, <2>2 DEF OverlayKey, Runes, Mouse
    <3> HIDE DEF a
    <3>3. act' \in Acts
      BY <3>1, <3>2 DEF Acts
    <3> QED BY <2>1, <3>2, <3>3 DEF Fine, a
  <2>3. CASE ~(overlay.kind \in Text \/ overlay.sel < Len(overlay.filtered))
    BY <1>3, <2>1, <2>3 DEF OverlayKey, Goto, Fine
  <2> QED BY <2>2, <2>3
<1>4. CASE key \in {"up", "down"} /\ overlay' = Moved(overlay, key) /\ Goto("render") /\ UNCHANGED mode
  BY <1>1, <1>4, MovedIsOverlay DEF Goto, Fine
<1>5. CASE key \in {"back"} \cup Runes /\ Goto("render") /\ UNCHANGED mode
  <2> DEFINE q == IF key = "back"
                  THEN (IF overlay.query = 0 THEN 0 ELSE overlay.query - 1)
                  ELSE (IF overlay.query = MaxQuery THEN MaxQuery ELSE overlay.query + 1)
  <2>1. q \in 0..MaxQuery
    <3>1. overlay.query \in 0..MaxQuery
      BY <1>1 DEF Overlays
    <3> QED BY <3>1, InterfaceAssumption
  <2>2. overlay' = overlay \/ overlay' \in Refiltered(overlay, q)
    BY <1>5 DEF OverlayKey, Runes
  <2> HIDE DEF q
  <2>3. CASE overlay' = overlay
    BY <1>1, <1>5, <2>3 DEF Goto, Fine
  <2>4. CASE overlay' \in Refiltered(overlay, q)
    BY <1>1, <1>5, <2>1, <2>4, RefilteredIsOverlay DEF Goto, Fine
  <2> QED BY <2>2, <2>3, <2>4
<1>6. CASE Goto("render") /\ UNCHANGED <<overlay, mode>>
  BY <1>1, <1>6 DEF Goto, Fine
<1> QED BY <1>2, <1>3, <1>4, <1>5, <1>6 DEF OverlayKey

LEMMA ActDeviceKeeps ==
    ASSUME TInv, ActDevice
    PROVE  /\ Fine(overlay') /\ act.about \in Things
           /\ \/ UNCHANGED <<mode, overlay>>
              \/ mode' = "overlay" /\ overlay' # None /\ overlay'.kind # "title"
<1> USE DEF Kinds
<1>1. act.about \in Things
  BY DEF ActDevice, TInv, ActKnown, Acts
<1>2. CASE UNCHANGED <<mode, overlay>>
  BY <1>1, <1>2, OverlayParts DEF TInv, Fine
<1>3. ASSUME NEW n \in Nat, NEW k \in {"actions", "colors"}, Start(New(k, [i \in 1..n |-> None], act.about))
      PROVE  Fine(overlay') /\ mode' = "overlay" /\ overlay' # None /\ overlay'.kind # "title"
  <2>1. [i \in 1..n |-> None] \in [1..n -> Things]
    BY DEF Things
  <2> QED BY <1>1, <1>3, <2>1, StartKeeps
<1>4. ASSUME NEW k \in {"name", "home"}, Start(New(k, <<>>, act.about))
      PROVE  Fine(overlay') /\ mode' = "overlay" /\ overlay' # None /\ overlay'.kind # "title"
  <2>1. <<>> \in [1..0 -> Things]
    OBVIOUS
  <2> QED BY <1>1, <1>4, <2>1, StartKeeps
<1> QED BY <1>1, <1>2, <1>3, <1>4 DEF ActDevice

\* Every step keeps the types, and the overlay's mode has an overlay.
LEMMA TypesStep ==
    ASSUME IsFiniteSet(Sessions), IsFiniteSet(Hosts), TInv, [Next]_vars
    PROVE  TInv'
<1> USE DEF screen, sidebar, history
<1>0. /\ TypeOK /\ Fine(overlay) /\ ModeHasOverlay /\ ActKnown
      /\ (Fine(overlay) => Filtered /\ (overlay = None \/ (overlay \in Overlays /\ InList(overlay))))'
  BY OverlayParts DEF TInv, Fine, Filtered
<1>1. ASSUME NEW k \in Keys, Press(k) PROVE TInv'
  BY <1>0, <1>1 DEF Press, TInv, TypeOK, ActKnown, ModeHasOverlay, Filtered
<1>2. CASE StreamKey
  <2>1. mode' \in {mode, "prefix"} /\ armed' \in BOOLEAN
    BY <1>0, <1>2 DEF StreamKey, TypeOK
  <2>2. at' = "render" /\ key' \in Keys /\ due' \in {"stream", "prefix", "overlay"}
        /\ UNCHANGED <<overlay, screen, act, sidebar, held, asked>>
    BY <1>2 DEF StreamKey, Goto, Keys
  <2> QED BY <1>0, <2>1, <2>2 DEF TInv, TypeOK, ActKnown, ModeHasOverlay, Filtered
<1>3. CASE MousePress
  <2>1. Cardinality(Sessions) \in Nat /\ DOMAIN Rows \subseteq 1..Cardinality(Sessions)
        /\ \A i \in DOMAIN Rows : Rows[i] \in Sessions
    BY <1>0, RowsAreSessions, FS_CardinalityType
  <2>2. pressed' \subseteq 0..Cardinality(Sessions) /\ held' \subseteq Sessions
    <3>1. CASE pressed' = pressed \cup {Toggle} /\ UNCHANGED held
      BY <1>0, <2>1, <3>1 DEF TypeOK, Toggle
    <3>2. CASE \E i \in DOMAIN Rows : pressed' = pressed \cup {i} /\ held' = held \cup {Rows[i]}
      <4>1. PICK i \in DOMAIN Rows : pressed' = pressed \cup {i} /\ held' = held \cup {Rows[i]}
        BY <3>2
      <4>2. i \in 0..Cardinality(Sessions) /\ Rows[i] \in Sessions
        BY <2>1
      <4> QED BY <1>0, <4>1, <4>2 DEF TypeOK
    <3> QED BY <1>0, <1>3, <3>1, <3>2 DEF MousePress, TypeOK
  <2> QED BY <1>0, <1>3, <2>2 DEF MousePress, Goto, Keys, TInv, TypeOK, ActKnown, ModeHasOverlay, Filtered
<1>4. CASE MouseRelease
  <2>1. \/ at' = "render"
        \/ at' = "show" /\ act' \in Acts /\ act'.about \in Sessions
    <3>1. CASE \E i \in DOMAIN Rows : /\ Rows[i] \in running
                                      /\ act' = [do |-> "switch", about |-> Rows[i]]
                                      /\ Goto("show")
      <4>1. PICK x \in Sessions : act' = [do |-> "switch", about |-> x]
        BY <1>0, <3>1 DEF TypeOK
      <4> QED BY <3>1, <4>1 DEF Goto, Acts, Things
    <3> QED BY <1>4, <3>1 DEF MouseRelease, Goto
  <2>2. collapsed' \in BOOLEAN
    BY <1>0, <1>4 DEF MouseRelease, TypeOK
  <2>3. key' \in Keys /\ due' \in {"stream", "prefix", "overlay"}
    BY <1>0, <1>4 DEF MouseRelease, Goto, Keys, TypeOK
  <2>4. pressed' = {} /\ held' = {}
        /\ UNCHANGED <<mode, overlay, screen, built, renamed, armed, asked>>
    BY <1>4 DEF MouseRelease
  <2> QED BY <1>0, <2>1, <2>2, <2>3, <2>4 DEF TInv, TypeOK, ActKnown, ModeHasOverlay, Filtered
<1>5. CASE PrefixKey
  <2>1. at' \in {"literal", "open", "left", "render"} /\ key' \in Keys
        /\ due' \in {"stream", "prefix", "overlay"}
    BY <1>0, <1>5 DEF PrefixKey, Goto, Keys, TypeOK
  <2> QED BY <1>0, <1>5, <2>1 DEF PrefixKey, TInv, TypeOK, ActKnown, ModeHasOverlay, Filtered
<1>6. CASE Literal
  BY <1>0, <1>6 DEF Literal, Goto, Keys, TInv, TypeOK, ActKnown, ModeHasOverlay, Filtered
<1>7. CASE Open
  <2>1. Fine(overlay') /\ (mode' = "overlay" => overlay' # None)
        /\ mode' \in {"stream", "prefix", "overlay"}
    BY <1>0, <1>7, OpenKeeps DEF ModeHasOverlay, TypeOK
  <2>2. asked' \in Sessions \cup {None}
    BY <1>0, <1>7 DEF Open, TypeOK
  <2> QED BY <1>0, <1>7, <2>1, <2>2 DEF Open, Goto, Keys, TInv, TypeOK, ActKnown, ModeHasOverlay
<1>8. CASE OverlayKey
  <2>1. /\ Fine(overlay') /\ (mode' = "overlay" => overlay' # None)
        /\ mode' \in {"stream", "prefix", "overlay"} /\ at' \in {"act", "render"}
        /\ at' = "act" => act' \in Acts
    BY <1>0, <1>8, OverlayKeyKeeps DEF TypeOK
  <2>2. key' \in Keys /\ due' \in {"stream", "prefix", "overlay"}
    BY <1>0, <1>8 DEF OverlayKey, Goto, Keys, TypeOK
  <2>3. UNCHANGED <<screen, sidebar, history>>
    BY <1>8 DEF OverlayKey
  <2> QED BY <1>0, <2>1, <2>2, <2>3 DEF TInv, TypeOK, ActKnown, ModeHasOverlay
<1>9. CASE ActRename
  BY <1>0, <1>9 DEF ActRename, Goto, Keys, Acts, Things, TInv, TypeOK, ActKnown, ModeHasOverlay, Filtered
<1>10. CASE ActDevice
  <2>1. /\ Fine(overlay') /\ (mode' = "overlay" => overlay' # None)
        /\ mode' \in {"stream", "prefix", "overlay"} /\ act.about \in Things
    BY <1>0, <1>10, ActDeviceKeeps DEF TypeOK, ModeHasOverlay
  <2>2. renamed' \in Sessions \cup Hosts \cup {None}
    BY <1>0, <1>10, <2>1 DEF ActDevice, TypeOK, Things
  <2>3. at' = "render" /\ key' \in Keys /\ due' \in {"stream", "prefix", "overlay"}
        /\ UNCHANGED <<screen, collapsed, built, pressed, history>>
    BY <1>10 DEF ActDevice, Goto, Keys
  <2> QED BY <1>0, <2>1, <2>2, <2>3 DEF TInv, TypeOK, ActKnown, ModeHasOverlay
<1>11. CASE ActSwitch
  <2>1. \/ at' = "render"
        \/ at' = "show" /\ act' \in Acts /\ act'.about \in Sessions
    <3>1. CASE \E s \in running : act' = [do |-> "switch", about |-> s] /\ Goto("show")
      <4>1. PICK x \in Sessions : act' = [do |-> "switch", about |-> x]
        BY <1>0, <3>1 DEF TypeOK
      <4> QED BY <3>1, <4>1 DEF Goto, Acts, Things
    <3> QED BY <1>11, <3>1 DEF ActSwitch, Goto
  <2>2. key' \in Keys /\ due' \in {"stream", "prefix", "overlay"}
        /\ UNCHANGED <<mode, overlay, screen, sidebar, history>>
    BY <1>0, <1>11 DEF ActSwitch, Goto, Keys, TypeOK
  <2> QED BY <1>0, <2>1, <2>2 DEF TInv, TypeOK, ActKnown, ModeHasOverlay, Filtered
<1>12. CASE Show
  BY <1>0, <1>12 DEF Show, SwitchView, Goto, Keys, TInv, TypeOK, ActKnown, ModeHasOverlay, Filtered
<1>13. CASE Render
  <2>1. pressed' \subseteq pressed /\ renamed' \in {renamed, None}
        /\ built' \in [collapsed : BOOLEAN, view : Sessions \cup {None}, list : SUBSET Sessions]
        /\ held' \subseteq held /\ asked' \in {asked, None}
    BY <1>0, <1>13 DEF Render, TypeOK
  <2> QED BY <1>0, <1>13, <2>1 DEF Render, TInv, TypeOK, ActKnown, ModeHasOverlay, Filtered
<1>14. ASSUME NEW s \in Sessions, SessionEnds(s) PROVE TInv'
  BY <1>0, <1>14 DEF SessionEnds, TInv, TypeOK, ActKnown, ModeHasOverlay, Filtered
<1>15. ASSUME NEW s \in Sessions, ViewStopped(s) PROVE TInv'
  BY <1>0, <1>15 DEF ViewStopped, TInv, TypeOK, ActKnown, ModeHasOverlay, Filtered
<1>16. ASSUME NEW x \in Sessions \cup {None}, PumpShows(x) PROVE TInv'
  BY <1>0, <1>16 DEF PumpShows, SwitchView, TInv, TypeOK, ActKnown, ModeHasOverlay, Filtered
<1>17. CASE UNCHANGED vars
  BY <1>0, <1>17 DEF vars, TInv, TypeOK, ActKnown, ModeHasOverlay, Filtered
<1> QED BY <1>1, <1>2, <1>3, <1>4, <1>5, <1>6, <1>7, <1>8, <1>9, <1>10, <1>11, <1>12, <1>13,
           <1>14, <1>15, <1>16, <1>17 DEF Next

LEMMA TypesAlways ==
    ASSUME IsFiniteSet(Sessions), IsFiniteSet(Hosts)
    PROVE  Spec => []TInv
BY TypesInit, TypesStep, PTL DEF Spec

\* Whatever keys are typed and whatever sessions end, the selection of an overlay
\* is in its list and the rows that are pressed are rows, with lists and filters
\* of any length.
THEOREM InterfaceTypes ==
    ASSUME IsFiniteSet(Sessions), IsFiniteSet(Hosts)
    PROVE  Spec => []TypeOK
<1>1. TInv => TypeOK
  BY DEF TInv
<1> QED BY <1>1, TypesAlways, PTL

\* The keyboard is never left to an overlay that is gone, whichever goroutine set
\* the mode last.
THEOREM KeyboardIsNeverLost ==
    ASSUME IsFiniteSet(Sessions), IsFiniteSet(Hosts)
    PROVE  Spec => []ModeHasOverlay
<1>1. TInv => ModeHasOverlay
  BY DEF TInv
<1> QED BY <1>1, TypesAlways, PTL

-----------------------------------------------------------------------------
(* What is acted upon is what was asked for *)

LEMMA MeantInit == ASSUME IsFiniteSet(Sessions) PROVE Init => MeantInv
BY TypesInit DEF Init, MeantInv, TitleIsAsked, PressedIsHeld

\* The rows are what they were, as long as they are not made anew.
LEMMA RowsStay == UNCHANGED built => Rows' = Rows
BY DEF Rows

\* A prompt is about what was asked for, from the key that opens it to the rename:
\* only Open and a key typed with no overlay change what was asked for, and neither
\* happens while a prompt has the keyboard.
LEMMA TitleStep ==
    ASSUME IsFiniteSet(Sessions), IsFiniteSet(Hosts), TInv, TitleIsAsked, [Next]_vars
    PROVE  TitleIsAsked'
<1> USE DEF TitleIsAsked, screen, sidebar, history
<1>1. ASSUME NEW k \in Keys, Press(k) PROVE TitleIsAsked'
  BY <1>1 DEF Press, TInv, TypeOK, ModeHasOverlay
<1>2. CASE StreamKey
  BY <1>2 DEF StreamKey, Goto
<1>3. CASE MousePress
  BY <1>3 DEF MousePress, Goto
<1>4. CASE MouseRelease
  <2>1. at' \in {"render", "show"} /\ UNCHANGED <<mode, overlay, asked>>
    BY <1>4 DEF MouseRelease, Goto
  <2> QED BY <2>1
<1>5. CASE PrefixKey
  <2>1. mode' = "stream" /\ at' \in {"literal", "open", "left", "render"}
    BY <1>5 DEF PrefixKey, Goto
  <2> QED BY <2>1
<1>6. CASE Literal
  BY <1>6 DEF Literal, Goto
<1>7. CASE Open
  <2>1. at = "open" /\ mode = "stream" /\ at' = "render"
    BY <1>7 DEF Open, Goto
  <2> QED BY <1>7, <2>1, OpenKeeps
<1>8. CASE OverlayKey
  <2>1. at = "overlay" /\ overlay # None /\ asked' = asked
    BY <1>8 DEF OverlayKey
  <2>2. at' = "act" => act'.do = overlay.kind /\ (overlay.about # None => act'.about = overlay.about)
    BY <1>8, OverlayKeyKeeps
  <2> QED BY <1>8, <2>1, <2>2, OverlayKeyKeeps
<1>9. CASE ActRename
  BY <1>9 DEF ActRename, Goto
<1>10. CASE ActDevice
  <2>1. at = "act" /\ at' = "render" /\ asked' = asked
    BY <1>10 DEF ActDevice, Goto
  <2> QED BY <1>10, <2>1, ActDeviceKeeps
<1>11. CASE ActSwitch
  <2>1. at' \in {"render", "show"} /\ UNCHANGED <<mode, overlay, asked>>
    BY <1>11 DEF ActSwitch, Goto
  <2> QED BY <2>1
<1>12. CASE Show
  BY <1>12 DEF Show, SwitchView, Goto
<1>13. CASE Render
  BY <1>13 DEF Render
<1>14. ASSUME NEW s \in Sessions, SessionEnds(s) PROVE TitleIsAsked'
  BY <1>14 DEF SessionEnds
<1>15. ASSUME NEW s \in Sessions, ViewStopped(s) PROVE TitleIsAsked'
  BY <1>15 DEF ViewStopped
<1>16. ASSUME NEW x \in Sessions \cup {None}, PumpShows(x) PROVE TitleIsAsked'
  BY <1>16 DEF PumpShows, SwitchView, TInv, TypeOK
<1>17. CASE UNCHANGED vars
  BY <1>17 DEF vars
<1> QED BY <1>1, <1>2, <1>3, <1>4, <1>5, <1>6, <1>7, <1>8, <1>9, <1>10, <1>11, <1>12, <1>13,
           <1>14, <1>15, <1>16, <1>17 DEF Next

\* Rows that are made anew are not pressed, so a row that is pressed is the one the
\* button went down on.
LEMMA PressedStep ==
    ASSUME PressedIsHeld, [Next]_vars
    PROVE  PressedIsHeld'
<1> USE DEF screen, sidebar, history
<1>1. CASE UNCHANGED <<built, pressed, held>>
  BY <1>1, RowsStay DEF PressedIsHeld
<1>2. CASE MousePress
  <2>1. Rows' = Rows
    BY <1>2, RowsStay DEF MousePress
  <2>2. CASE pressed' = pressed \cup {Toggle} /\ UNCHANGED held
    BY <2>1, <2>2 DEF PressedIsHeld
  <2>3. CASE \E i \in DOMAIN Rows : pressed' = pressed \cup {i} /\ held' = held \cup {Rows[i]}
    <3>1. PICK i \in DOMAIN Rows : pressed' = pressed \cup {i} /\ held' = held \cup {Rows[i]}
      BY <2>3
    <3> QED BY <2>1, <3>1 DEF PressedIsHeld
  <2> QED BY <1>1, <1>2, <2>2, <2>3 DEF MousePress
<1>3. CASE MouseRelease
  BY <1>3 DEF MouseRelease, PressedIsHeld
<1>4. CASE Render
  <2>1. CASE pressed' = pressed \cap {Toggle}
    BY <2>1 DEF PressedIsHeld
  <2> QED BY <1>1, <1>4, <2>1 DEF Render
<1>5. CASE UNCHANGED vars
  BY <1>1, <1>5 DEF vars
<1> QED BY <1>1, <1>2, <1>3, <1>4, <1>5
        DEF Next, Press, StreamKey, PrefixKey, Literal, Open, OverlayKey, ActRename, ActDevice,
            ActSwitch, Show, SessionEnds, ViewStopped, PumpShows

\* Whatever moves the view or makes the sidebar anew in between: a click jumps to a
\* session whose row the button went down on, and a rename is for the session that
\* was on the screen when r was typed.
THEOREM MeantIsDone ==
    ASSUME IsFiniteSet(Sessions), IsFiniteSet(Hosts)
    PROVE  Spec => ActsOnWhatWasAsked
<1> DEFINE Meant == /\ at = "stream" /\ at' = "show" => act'.about \in held
                    /\ at = "act" /\ at' = "render" /\ act.do = "title" => renamed' = asked
<1>1. MeantInv /\ [Next]_vars => MeantInv'
  BY TypesStep, TitleStep, PressedStep DEF MeantInv
<1>2. MeantInv /\ [Next]_vars => [Meant]_vars
  <2> SUFFICES ASSUME MeantInv, Next PROVE Meant
    OBVIOUS
  <2>1. CASE MouseRelease
    <3>1. DOMAIN Rows \subseteq 1..Cardinality(Sessions)
      BY RowsAreSessions DEF MeantInv, TInv
    <3>2. Toggle \notin DOMAIN Rows
      BY <3>1 DEF Toggle
    <3>3. CASE at' = "show"
      <4>1. PICK i \in DOMAIN Rows : i \in pressed /\ act' = [do |-> "switch", about |-> Rows[i]]
        BY <2>1, <3>3 DEF MouseRelease, Goto
      <4>2. Rows[i] \in held
        BY <3>2, <4>1 DEF MeantInv, PressedIsHeld
      <4> QED BY <2>1, <4>1, <4>2 DEF MouseRelease
    <3> QED BY <2>1, <3>3 DEF MouseRelease
  <2>2. CASE ActRename
    BY <2>2 DEF ActRename, Goto, MeantInv, TitleIsAsked
  <2>3. CASE ~(MouseRelease \/ ActRename)
    BY <2>3 DEF Next, Press, StreamKey, MousePress, PrefixKey, Literal, Open, OverlayKey,
                ActDevice, ActSwitch, Show, Render, SessionEnds, ViewStopped, PumpShows, Goto
  <2> QED BY <2>1, <2>2, <2>3
<1>3. Spec => [][Meant]_vars
  BY <1>1, <1>2, MeantInit, PTL DEF Spec
<1> QED BY <1>3 DEF ActsOnWhatWasAsked
=============================================================================
