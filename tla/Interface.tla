------------------------------- MODULE Interface -------------------------------
(* The input side of one interface (internal/tui/render.go, overlay.go,        *)
(* sidebar.go, and the locked part of switchView in tui.go): the prefix key,   *)
(* the modal overlays with their filter, the buttons of the sidebar, and what  *)
(* a key ends up doing.  The goroutine of Handle takes one key at a time,      *)
(* renders after each, and drops u.mu between its steps; a streamPump whose    *)
(* session has ended moves the view, whatever is on it by then.                *)
EXTENDS Naturals, FiniteSets, SequencesExt

CONSTANTS
    Sessions,
    Hosts,
    MayEnd,     \* sessions may end
    Entries,    \* bound: the most entries a project list has
    MaxQuery,   \* bound: the longest filter that is typed
    None

ASSUME InterfaceAssumption ==
    /\ None \notin Sessions /\ None \notin Hosts
    /\ Entries \in Nat \ {0} /\ MaxQuery \in Nat

\* The keys that are told apart; "rune" is any other printable one.
Keys == {"prefix", "p", "l", "r", "k", "c", "d", "rune", "enter", "esc", "up",
         "down", "back", "press", "release"}
Mouse == {"press", "release"}
Toggle == 0
Runes == {"p", "l", "r", "k", "c", "d", "rune"}

VARIABLES
    mode,       \* u.mode: "stream", "prefix" or "overlay"
    overlay,    \* u.overlay, or None
    view,       \* u.viewing
    running,    \* the sessions that run
    streams,    \* the sessions a streamPump of this interface reads the end of
    moving,     \* where streamPumps that have read one are about to move the view
    at,         \* where the goroutine of Handle is
    key,        \* the key it works on
    act,        \* what it does once the overlay is closed, or None
    collapsed,  \* the sidebar is collapsed
    built,      \* the signature the rows of the sidebar were built for
    renamed,    \* whose name has changed since then, or None
    pressed,    \* the buttons that are pressed: the toggle, and rows by their number
    due,        \* history: what the user meant the key for, given what is open
    armed,      \* history: the key before this one was the prefix
    sent,       \* history: what the last key that a session got was meant for
    held,       \* history: the sessions whose rows the button went down on, while they last
    asked       \* history: the session that was on the screen when r was typed

screen == <<view, running, streams, moving>>
sidebar == <<collapsed, built, renamed, pressed>>
history == <<armed, sent, held, asked>>
vars == <<mode, overlay, screen, at, key, act, sidebar, due, history>>

Kinds == {"projects", "sessions", "devices", "actions", "colors", "title", "name", "home"}
Text == {"title", "name", "home"}

\* The entries of an overlay are 1..n; labels[i] is what entry i stands for.
Overlays == [kind : Kinds, labels : Seq(Sessions \cup Hosts \cup {None}),
             about : Sessions \cup Hosts \cup {None}, query : 0..MaxQuery,
             filtered : Seq(Nat), sel : Nat]

\* The missing overlay is not one.
ASSUME OverlayAssumption == None \notin Overlays

\* The selection is an entry of the filtered list, or zero when it is empty.
InList(ov) == ov.sel = 0 \/ ov.sel < Len(ov.filtered)

TypeOK ==
    /\ mode \in {"stream", "prefix", "overlay"}
    /\ overlay = None \/ (overlay \in Overlays /\ InList(overlay))
    /\ view \in Sessions \cup {None} /\ running \subseteq Sessions
    /\ streams \subseteq Sessions /\ moving \subseteq Sessions \cup {None}
    /\ at \in {"wait", "stream", "prefix", "overlay", "literal", "open", "act", "show", "render", "left"}
    /\ key \in Keys
    /\ due \in {"stream", "prefix", "overlay"} /\ armed \in BOOLEAN
    /\ collapsed \in BOOLEAN /\ renamed \in Sessions \cup Hosts \cup {None}
    /\ built \in [collapsed : BOOLEAN, view : Sessions \cup {None}, list : SUBSET Sessions]
    /\ pressed \subseteq 0..Cardinality(Sessions)
    /\ held \subseteq Sessions /\ asked \in Sessions \cup {None}

Init ==
    /\ mode = "stream" /\ overlay = None
    /\ running = Sessions
    /\ view \in Sessions /\ streams = {view} /\ moving = {}
    /\ at = "wait" /\ key = "rune" /\ act = None
    /\ collapsed = FALSE /\ renamed = None /\ pressed = {}
    /\ built = [collapsed |-> FALSE, view |-> view, list |-> running]
    /\ due = "stream" /\ armed = FALSE
    /\ sent = None /\ held = {} /\ asked = None

-----------------------------------------------------------------------------
(* The overlay: refilter and move *)

Indices(ov) == 1..Len(ov.labels)

\* The end of refilter: the selection is an entry of the list, or zero.
Clamp(sel, n) == IF n = 0 THEN 0 ELSE IF sel >= n THEN n - 1 ELSE sel

\* What fuzzy.Find may return: some of the entries, best first.
Matches(ov) == UNION {SetToSeqs(S) : S \in SUBSET Indices(ov)}

\* refilter with a query of q characters: every entry when there is none.
Refiltered(ov, q) ==
    {[ov EXCEPT !.query = q, !.filtered = f, !.sel = Clamp(ov.sel, Len(f))] :
        f \in IF q = 0 THEN {[i \in Indices(ov) |-> i]} ELSE Matches(ov)}

\* The selection starts at the top, in a list refilter has just made.
New(kind, labels, about) ==
    [kind |-> kind, labels |-> labels, about |-> about, query |-> 0,
     filtered |-> [i \in 1..Len(labels) |-> i], sel |-> 0]

\* Mutant: the selection leaves the list at the top.
Moved_PastTop(ov, d) ==
    IF ov.filtered = <<>> THEN ov
    ELSE [ov EXCEPT !.sel = IF d = "up" THEN @ - 1 ELSE Clamp(@ + 1, Len(ov.filtered))]

\* move: one up or down, and not past either end.
Moved(ov, d) ==
    IF ov.filtered = <<>> THEN ov
    ELSE [ov EXCEPT !.sel = IF d = "up" THEN (IF @ = 0 THEN 0 ELSE @ - 1)
                            ELSE Clamp(@ + 1, Len(ov.filtered))]

\* The entry Enter acts on, or None.
Selected(ov) ==
    IF ov.sel < Len(ov.filtered) THEN ov.labels[ov.filtered[ov.sel + 1]] ELSE None

-----------------------------------------------------------------------------
(* Steps of the goroutine of Handle, each within one hold of u.mu at most.  *)

\* On to the next step; what was decided for this key is forgotten with it.
Goto(x) ==
    /\ at' = x
    /\ key' = IF x = "render" THEN "rune" ELSE key
    /\ due' = IF x = "render" THEN "stream" ELSE due

\* handleEvent reads the mode and routes the key by it.
Press(k) ==
    /\ at = "wait"
    /\ key' = k
    /\ at' = mode
    /\ due' = IF overlay # None THEN "overlay" ELSE IF armed THEN "prefix" ELSE "stream"
    /\ armed' = FALSE /\ sent' = None
    /\ UNCHANGED <<mode, overlay, screen, act, sidebar, held, asked>>

Send == sent' = IF view = None THEN sent ELSE due

\* streamEvent: the prefix arms, anything else passes through to the session.
StreamKey ==
    /\ at = "stream" /\ key \notin Mouse
    /\ IF key = "prefix"
       THEN mode' = "prefix" /\ armed' = TRUE /\ UNCHANGED sent
       ELSE Send /\ UNCHANGED <<mode, armed>>
    /\ Goto("render")
    /\ UNCHANGED <<overlay, screen, act, sidebar, held, asked>>

\* rebuild makes a row for every session of the list, unless the sidebar
\* is collapsed.
Rows == IF built.collapsed THEN <<>> ELSE SetToSeq(built.list)

\* routeMouse, left button down: the button under the pointer, if any, is pressed.
MousePress ==
    /\ at = "stream" /\ key = "press"
    /\ \/ pressed' = pressed \cup {Toggle} /\ UNCHANGED held
       \/ \E i \in DOMAIN Rows : /\ pressed' = pressed \cup {i}
                               /\ held' = held \cup {Rows[i]}
       \/ UNCHANGED <<pressed, held>>
    /\ Goto("render")
    /\ UNCHANGED <<mode, overlay, screen, act, collapsed, built, renamed, armed, sent, asked>>

\* routeMouse, left button up: every button is released, and the one under the
\* pointer fires if it was pressed.  Jump does nothing for a session that ended.
MouseRelease ==
    /\ at = "stream" /\ key = "release"
    /\ pressed' = {} /\ held' = {}
    /\ \/ /\ Toggle \in pressed
          /\ collapsed' = ~collapsed
          /\ Goto("render") /\ UNCHANGED act
       \/ \E i \in DOMAIN Rows :
             /\ i \in pressed /\ Rows[i] \in running
             /\ act' = [do |-> "switch", about |-> Rows[i]]
             /\ Goto("show") /\ UNCHANGED collapsed
       \/ Goto("render") /\ UNCHANGED <<collapsed, act>>
    /\ UNCHANGED <<mode, overlay, screen, built, renamed, armed, sent, asked>>

\* prefixEvent: back to streaming, then the command.
PrefixKey ==
    /\ at = "prefix"
    /\ mode' = "stream"
    /\ Goto(IF key = "prefix" THEN "literal"
            ELSE IF key \in {"p", "l", "r", "k"} THEN "open"
            ELSE IF key = "d" THEN "left" ELSE "render")
    /\ collapsed' = IF key = "c" THEN ~collapsed ELSE collapsed
    /\ UNCHANGED <<overlay, screen, act, built, renamed, pressed, history>>

\* The prefix typed twice goes to the session once.
Literal ==
    /\ at = "literal"
    /\ sent' = IF view = None THEN sent ELSE "stream"
    /\ Goto("render")
    /\ UNCHANGED <<mode, overlay, screen, act, sidebar, armed, held, asked>>

\* startOverlay.
Start(ov) == overlay' = ov /\ mode' = "overlay"

\* openPicker, openList, openRename and openDevices, with what they find now.
Open ==
    /\ at = "open"
    /\ \/ /\ key = "p"
          /\ \E n \in 0..Entries : Start(New("projects", [i \in 1..n |-> None], None))
       \/ key = "l" /\ Start(New("sessions", SetToSeq(running), None))
       \/ key = "k" /\ Start(New("devices", SetToSeq(Hosts), None))
       \/ key = "r" /\ view # None /\ Start(New("title", <<>>, view))
       \/ key = "r" /\ view = None /\ UNCHANGED <<overlay, mode>>
    /\ asked' = IF key = "r" THEN view ELSE None
    /\ Goto("render")
    /\ UNCHANGED <<screen, act, sidebar, armed, sent, held>>

\* Mutant: Esc leaves the overlay's mode on.
Close_KeepsMode == overlay' = None /\ UNCHANGED mode

\* closeOverlay.
Close == overlay' = None /\ mode' = "stream"

\* overlayEvent.  Esc closes; Enter closes and acts; the rest moves or filters.
\* Its branch for a missing overlay is never taken: see ModeHasOverlay.
OverlayKey ==
    /\ at = "overlay" /\ overlay # None
    /\ \/ key = "esc" /\ Close /\ Goto("render") /\ UNCHANGED act
       \/ /\ key = "enter" /\ Close
          /\ IF overlay.kind \in Text \/ overlay.sel < Len(overlay.filtered)
             THEN /\ act' = [do |-> overlay.kind,
                             about |-> IF overlay.about # None THEN overlay.about
                                       ELSE Selected(overlay)]
                  /\ Goto("act")
             ELSE Goto("render") /\ UNCHANGED act
       \/ /\ key \in {"up", "down"}
          /\ overlay' = Moved(overlay, key)
          /\ Goto("render") /\ UNCHANGED <<mode, act>>
       \/ /\ key \in {"back"} \cup Runes
          /\ LET q == IF key = "back"
                      THEN (IF overlay.query = 0 THEN 0 ELSE overlay.query - 1)
                      ELSE (IF overlay.query = MaxQuery THEN MaxQuery ELSE overlay.query + 1)
             IN IF q = overlay.query /\ key = "back" THEN UNCHANGED overlay
                ELSE overlay' \in Refiltered(overlay, q)
          /\ Goto("render") /\ UNCHANGED <<mode, act>>
       \/ key \in {"prefix"} \cup Mouse /\ Goto("render") /\ UNCHANGED <<overlay, mode, act>>
    /\ UNCHANGED <<screen, sidebar, history>>

\* Mutant: the prompt renames what is on the screen when it is committed.
ActRename_Current ==
    /\ at = "act" /\ act.do = "title"
    /\ renamed' = view
    /\ act' = None
    /\ Goto("render")
    /\ UNCHANGED <<mode, overlay, screen, collapsed, built, pressed, history>>

\* The rename prompt holds on to the session it was opened for.
ActRename ==
    /\ at = "act" /\ act.do = "title"
    /\ renamed' = act.about
    /\ act' = None
    /\ Goto("render")
    /\ UNCHANGED <<mode, overlay, screen, collapsed, built, pressed, history>>

\* A device opens its menu, the menu one of its three overlays; a setting goes
\* to the registry.
ActDevice ==
    /\ at = "act" /\ act.do \in {"devices", "actions", "colors", "name", "home"}
    /\ \/ act.do = "devices" /\ Start(New("actions", [i \in 1..3 |-> None], act.about))
       \/ act.do = "actions" /\ \/ Start(New("colors", [i \in 1..2 |-> None], act.about))
                                \/ Start(New("name", <<>>, act.about))
                                \/ Start(New("home", <<>>, act.about))
       \/ act.do \in {"colors", "name", "home"} /\ UNCHANGED <<overlay, mode>>
    /\ renamed' = IF act.do = "name" THEN act.about ELSE renamed
    /\ act' = None
    /\ Goto("render")
    /\ UNCHANGED <<screen, collapsed, built, pressed, history>>

\* Jump to a listed session fails if it ended meanwhile; OpenProject may fail.
ActSwitch ==
    /\ at = "act" /\ act.do \in {"projects", "sessions"}
    /\ LET targets == IF act.do = "sessions" THEN running \cap {act.about} ELSE running
       IN \/ /\ \E s \in targets : act' = [do |-> "switch", about |-> s]
             /\ Goto("show")
          \/ /\ act.do = "projects" \/ targets = {}
             /\ act' = None /\ Goto("render")
    /\ UNCHANGED <<mode, overlay, screen, sidebar, history>>

\* switchView, as far as u.mu guards it, whichever goroutine runs it.  The cancel ends
\* the stream of a session that runs; one that has ended may have told its pump.
SwitchView(s) ==
    /\ view' = s
    /\ mode' = "stream"
    /\ \E kept \in SUBSET (streams \ running) : streams' = kept \cup {s}

Show ==
    /\ at = "show"
    /\ SwitchView(act.about)
    /\ act' = None
    /\ Goto("render")
    /\ UNCHANGED <<overlay, running, moving, sidebar, history>>

\* Mutant: the rows that are made anew take over what was pressed.
Render_KeepsPressed ==
    /\ at \in {"render", "wait"}
    /\ at' = "wait"
    /\ IF mode = "overlay" THEN UNCHANGED <<built, renamed>>
       ELSE /\ built' = [collapsed |-> collapsed, view |-> view, list |-> running]
            /\ renamed' = None
    /\ sent' = None
    /\ asked' = IF overlay = None THEN None ELSE asked
    /\ UNCHANGED <<mode, overlay, screen, key, act, collapsed, pressed, due, armed, held>>

\* render, after every key and on every redraw: the rows are made anew when the
\* list, the view or a name has changed, and new rows are not pressed.  The toggle
\* is the same button throughout.
Render ==
    /\ at \in {"render", "wait"}
    /\ at' = "wait"
    /\ sent' = None
    /\ asked' = IF overlay = None THEN None ELSE asked
    /\ LET now == [collapsed |-> collapsed, view |-> view, list |-> running]
       IN IF mode = "overlay" \/ (built = now /\ renamed = None)
          THEN UNCHANGED <<built, renamed, pressed, held>>
          ELSE /\ built' = now /\ renamed' = None
               /\ pressed' = pressed \cap {Toggle} /\ held' = {}
    /\ UNCHANGED <<mode, overlay, screen, key, act, collapsed, due, armed>>

-----------------------------------------------------------------------------
(* Meanwhile *)

SessionEnds(s) ==
    /\ MayEnd
    /\ s \in running
    /\ running' = running \ {s}
    /\ UNCHANGED <<mode, overlay, view, streams, moving, at, key, act, sidebar, due, history>>

\* streamPump gets Stopped, and onViewStopped decides: for where the server has
\* moved this interface, if that is not on the screen; for a session that runs; or
\* for none.
ViewStopped(s) ==
    /\ s \in streams \ running
    /\ streams' = streams \ {s}
    /\ \E x \in (Sessions \ {view}) \cup running \cup (IF running = {} THEN {None} ELSE {}) :
            moving' = moving \cup {x}
    /\ UNCHANGED <<mode, overlay, view, running, at, key, act, sidebar, due, history>>

\* Later, whatever is on the screen by then.
PumpShows(x) ==
    /\ x \in moving
    /\ moving' = moving \ {x}
    /\ IF x = None THEN view' = None /\ UNCHANGED <<mode, streams>>
       ELSE SwitchView(x)
    /\ UNCHANGED <<overlay, running, at, key, act, sidebar, due, history>>

Next ==
    \/ \E k \in Keys : Press(k)
    \/ StreamKey \/ MousePress \/ MouseRelease \/ PrefixKey \/ Literal \/ Open
    \/ OverlayKey \/ ActRename \/ ActDevice \/ ActSwitch \/ Show \/ Render
    \/ \E s \in Sessions : SessionEnds(s) \/ ViewStopped(s)
    \/ \E x \in Sessions \cup {None} : PumpShows(x)

Spec == Init /\ [][Next]_vars

-----------------------------------------------------------------------------
(* Properties *)

\* The overlay mode never outlives the overlay, whichever goroutine set it last:
\* the keyboard is never taken by nothing.
ModeHasOverlay == mode = "overlay" => overlay # None

\* What is acted upon is what the user pointed at or asked for, whatever moved
\* between: a click on the sidebar jumps to a session whose row the button went
\* down on, and to none when the rows were made anew before it came up; a rename is
\* for the session that was on the screen when its prompt was opened, also when
\* the view was moved while the title was being typed.
ActsOnWhatWasAsked ==
    [][/\ at = "stream" /\ at' = "show" => act'.about \in held
       /\ at = "act" /\ at' = "render" /\ act.do = "title" => renamed' = asked]_vars

-----------------------------------------------------------------------------
(* What comments say beyond that, and what holds only until a session ends: a  *)
(* small instance of each is in the README.                                    *)

\* "an overlay (picker) owns the screen + input": while one is up, no key goes
\* through to a session.
OverlayOwnsInput == sent # "overlay"

\* "prefix seen; next key is a command": it does not go through to a session.
NextKeyIsCommand == sent # "prefix"
=============================================================================
