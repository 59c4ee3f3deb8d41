------------------------------ MODULE Viewport ------------------------------
(***************************************************************************)
(* The size of a tab (apps/gateway: setTabViewport, getTabViewport, the    *)
(* second half of allocateTab, the settings; apps/web: ViewportControls    *)
(* and the New-tab button of SessionsView).                                *)
(*                                                                         *)
(* A tab is resized by its window: bounds and content are read, their      *)
(* difference is added to the size wanted, and what came of it is read     *)
(* back, each over an await of its own.  Dashboards, viewers and agents    *)
(* do so at the same time.  One dimension stands for both.  Every tab has  *)
(* a window of its own, as the tabs the pool creates do; that pages opened *)
(* by a human or a page may share one is left out.  So are the sessions of *)
(* Chrome over which the commands go: a call attaches and detaches its own.*)
(***************************************************************************)
EXTENDS Integers, FiniteSets

CONSTANTS
  Tabs,      \* ids of pages, each used once
  Calls,     \* calls of the gateway, each made once
  Sizes,     \* sizes that are asked for
  Bars,      \* what a window may have around its content
  Floor,     \* MIN_VIEWPORT
  MinOuter,  \* Chrome makes no window smaller
  Fit,       \* the size of the takeover pane
  Opening,   \* the height of the windows Chrome opens
  MaxBars,   \* bound: changes of what is around a content
  MaxSaves,  \* bound: changes of the default
  Unread,    \* what SessionsView knows before its settings arrive
  None

\* The values of calls that were made.
Made ==
  [kind : {"alloc", "resize", "read"}, tab : Tabs, want : Nat \cup {None},
   step : {"bounds", "delta", "set", "measure", "answer", "done"},
   bounds : Int, delta : Int, got : Int \cup {None}, alone : BOOLEAN,
   due : Sizes \cup {None}]

ASSUME ViewportAssumption ==
  /\ Sizes \subseteq Nat /\ Bars \subseteq Nat /\ Fit \in Nat /\ Opening \in Nat
  /\ Floor \in Nat /\ MinOuter \in Nat /\ MaxBars \in Nat /\ MaxSaves \in Nat
  /\ MinOuter <= Opening /\ \A b \in Bars : b < MinOuter
  /\ None \notin Nat \cup Tabs \cup Calls \cup Made

VARIABLES
  open,      \* pages
  fresh,     \* ids not used so far
  outer,     \* the height of each window
  bar,       \* what of it is not content
  moved,     \* how often that has changed
  leased,    \* leases of the tab pool
  reported,  \* tabs that an answer named
  call,      \* call[c]: the call, None before it is made
  default,   \* the default viewport of the settings
  saved,     \* how often it was changed
  view,      \* SessionsView: its request for settings, and the answer
  controls   \* ViewportControls: the tab, the calls whose size the viewport and
             \* the fields (the draft) have, the calls it waits for; without a
             \* viewport it says "size unknown", and a draft of None is blank
             \* or typed by the human

chrome == <<open, fresh, outer, bar, moved>>
settings == <<default, saved>>
vars == <<chrome, leased, reported, call, settings, view, controls>>

Larger(a, b) == IF a > b THEN a ELSE b
Content(t) == outer[t] - bar[t]
Clamp(size) == Larger(Floor, size)

\* Two fields are history.  alone: nobody else touched the window since the call was
\* made; due: the default at the moment the dashboard asked for a tab.
Call(kind, t, want, due) ==
  [kind |-> kind, tab |-> t, want |-> want,
   step |-> IF kind = "read" THEN "measure" ELSE "bounds",
   bounds |-> 0, delta |-> 0, got |-> None, alone |-> TRUE, due |-> due]

InFlight(c) == call[c] # None /\ call[c].step # "done"
On(t) == {c \in Calls : call[c] # None /\ call[c].tab = t}

Init ==
  /\ open = {} /\ fresh = Tabs /\ moved = 0
  /\ outer = [t \in Tabs |-> Opening] /\ \E b \in Bars : bar = [t \in Tabs |-> b]
  /\ leased = {} /\ reported = {}
  /\ call = [c \in Calls |-> None]
  /\ default = None /\ saved = 0
  /\ view = [asked |-> FALSE, knows |-> Unread]
  /\ controls = [tab |-> None, viewport |-> None, draft |-> None,
                 reading |-> None, applying |-> None]

-----------------------------------------------------------------------------
(* Chrome.                                                                 *)

Disturbs(t, c) ==
  [d \in Calls |-> IF d \in On(t) \ {c} THEN [call[d] EXCEPT !.alone = FALSE] ELSE call[d]]

\* An info bar comes or goes.
BarMoves(t) ==
  /\ t \in open /\ moved < MaxBars
  /\ \E b \in Bars \ {bar[t]} : bar' = [bar EXCEPT ![t] = b]
  /\ moved' = moved + 1
  /\ call' = Disturbs(t, None)
  /\ UNCHANGED <<open, fresh, outer, leased, reported, settings, view, controls>>

\* A human at the browser opens a page.
PageOpens(t) ==
  /\ t \in fresh
  /\ open' = open \cup {t} /\ fresh' = fresh \ {t}
  /\ UNCHANGED <<outer, bar, moved, leased, reported, call, settings, view, controls>>

\* A page is closed and its lease dropped.
PageCloses(t) ==
  /\ t \in open
  /\ open' = open \ {t}
  /\ leased' = leased \ {t}
  /\ UNCHANGED <<fresh, outer, bar, moved, reported, call, settings, view, controls>>

-----------------------------------------------------------------------------
(* setTabViewport, getTabViewport and allocateTab.                         *)

Goes(c, step) == call' = [call EXCEPT ![c].step = step]
Stays == UNCHANGED <<chrome, leased, reported, settings, view, controls>>

\* Browser.getWindowBounds, after a session was attached and the window was asked for.
ReadBounds(c) ==
  /\ InFlight(c) /\ call[c].step = "bounds" /\ call[c].tab \in open
  /\ call' = [call EXCEPT ![c].step = "delta", ![c].bounds = outer[call[c].tab]]
  /\ Stays

\* The first measure.
ReadContent(c) ==
  /\ InFlight(c) /\ call[c].step = "delta" /\ call[c].tab \in open
  /\ call' = [call EXCEPT ![c].step = "set", ![c].delta = call[c].bounds - Content(call[c].tab)]
  /\ Stays

\* Mutant: the size is given to the window, not to its content.
WishedOuter(c) == call[c].want

Wished(c) == call[c].want + call[c].delta

\* Chrome makes no window smaller than its own floor.
SetBounds(c) ==
  /\ InFlight(c) /\ call[c].step = "set" /\ call[c].tab \in open
  /\ outer' = [outer EXCEPT ![call[c].tab] = Larger(Wished(c), MinOuter)]
  /\ call' = [Disturbs(call[c].tab, c) EXCEPT ![c].step = "measure", ![c].bounds = 0, ![c].delta = 0]
  /\ UNCHANGED <<open, fresh, bar, moved, leased, reported, settings, view, controls>>

Measure(c) ==
  /\ InFlight(c) /\ call[c].step = "measure" /\ call[c].tab \in open
  /\ call' = [call EXCEPT ![c].step = "answer", ![c].got = Content(call[c].tab)]
  /\ Stays

\* A command is refused: the page is gone, or its window cannot be sized.
Refused(c) ==
  /\ InFlight(c) /\ call[c].step \in {"bounds", "delta", "set", "measure"}
  /\ call' = [call EXCEPT ![c].step = "answer", ![c].bounds = 0, ![c].delta = 0]
  /\ Stays

\* Mutant: the answer to a read counts although its tab was left.
ToldAlways(c) ==
  LET told == call[c].got # None /\ (call[c].kind = "read" \/ controls.applying = c) IN
  controls' =
    [controls EXCEPT
       !.viewport = IF told THEN c ELSE @, !.draft = IF told THEN c ELSE @,
       !.applying = IF @ = c THEN None ELSE @, !.reading = IF @ = c THEN None ELSE @]

\* What the controls make of the answer to a call of theirs.  A refused read takes
\* the viewport and leaves the fields as they are; a refused resize changes nothing.
Told(c) ==
  LET size == call[c].got # None IN
  controls' =
    CASE controls.applying = c ->
           [controls EXCEPT !.applying = None, !.viewport = IF size THEN c ELSE @,
                            !.draft = IF size THEN c ELSE @]
      [] controls.reading = c ->
           [controls EXCEPT !.reading = None, !.viewport = IF size THEN c ELSE None,
                            !.draft = IF size THEN c ELSE @]
      [] OTHER -> controls

\* Mutant: an allocation whose tab could not be sized fails.
AnswerFails(c) ==
  /\ InFlight(c) /\ call[c].step = "answer"
  /\ Goes(c, "done")
  /\ reported' = IF call[c].kind = "alloc" /\ call[c].got # None
                 THEN reported \cup {call[c].tab} ELSE reported
  /\ Told(c)
  /\ UNCHANGED <<chrome, leased, settings, view>>

\* The session is detached, and the call answers: an allocation with its tab, whether
\* the tab could be sized or not.
Answer(c) ==
  /\ InFlight(c) /\ call[c].step = "answer"
  /\ Goes(c, "done")
  /\ reported' = IF call[c].kind = "alloc" THEN reported \cup {call[c].tab} ELSE reported
  /\ Told(c)
  /\ UNCHANGED <<chrome, leased, settings, view>>

Makes(c, r) == call[c] = None /\ call' = [call EXCEPT ![c] = r]

Wanted(size) == IF size # None THEN size ELSE default

\* The lease has come; without a size and without a default the answer goes out at once.
Allocate(c, size, due) ==
  \E t \in fresh :
    /\ open' = open \cup {t} /\ fresh' = fresh \ {t}
    /\ leased' = leased \cup {t}
    /\ IF Wanted(size) = None
       THEN /\ Makes(c, [Call("alloc", t, None, due) EXCEPT !.step = "done"])
            /\ reported' = reported \cup {t}
       ELSE /\ Makes(c, Call("alloc", t, Clamp(Wanted(size)), due))
            /\ UNCHANGED reported
    /\ UNCHANGED <<outer, bar, moved, settings, view, controls>>

AgentAllocates(c) == \E size \in Sizes \cup {None} : Allocate(c, size, None)

AgentResizes(c) ==
  \E t \in open, size \in Sizes : Makes(c, Call("resize", t, Clamp(size), None)) /\ Stays

SaveDefault ==
  /\ saved < MaxSaves /\ saved' = saved + 1
  /\ default' \in (Sizes \cup {None}) \ {default}
  /\ UNCHANGED <<chrome, leased, reported, call, view, controls>>

-----------------------------------------------------------------------------
(* The dashboard.                                                          *)

\* SessionsView is mounted, and asks for the settings once.
MountView ==
  /\ ~view.asked
  /\ view' = [view EXCEPT !.asked = TRUE]
  /\ UNCHANGED <<chrome, leased, reported, call, settings, controls>>

SettingsArrive ==
  /\ view.asked /\ view.knows = Unread
  /\ \E answer \in {default, None} : view' = [view EXCEPT !.knows = answer]
  /\ UNCHANGED <<chrome, leased, reported, call, settings, controls>>

\* The New-tab button asks for the size of the pane unless it knows of a default.
NewTab(c) ==
  /\ view.asked
  /\ Allocate(c, IF view.knows \in Sizes THEN None ELSE Fit, default)

\* Another tab is selected: its size is read, and no other answer to a read counts.
Select(c, t) ==
  /\ t \in open /\ t # controls.tab
  /\ Makes(c, Call("read", t, None, None))
  /\ controls' = [controls EXCEPT !.tab = t, !.reading = c]
  /\ UNCHANGED <<chrome, leased, reported, settings, view>>

Apply(c) ==
  /\ controls.tab # None /\ controls.applying = None
  /\ \E size \in Sizes \cup {Fit} : Makes(c, Call("resize", controls.tab, Clamp(size), None))
  /\ controls' = [controls EXCEPT !.applying = c]
  /\ UNCHANGED <<chrome, leased, reported, settings, view>>

\* No tab is selected any more: the cast went blank.
Deselect ==
  /\ controls.tab # None
  /\ controls' = [controls EXCEPT !.tab = None, !.viewport = None, !.reading = None]
  /\ UNCHANGED <<chrome, leased, reported, call, settings, view>>

\* The human edits a field.
Type ==
  /\ controls.tab # None /\ controls.applying = None
  /\ controls' = [controls EXCEPT !.draft = None]
  /\ UNCHANGED <<chrome, leased, reported, call, settings, view>>

-----------------------------------------------------------------------------
ChromeStep == \E t \in Tabs : BarMoves(t) \/ PageOpens(t) \/ PageCloses(t)

Continue(c) ==
  \/ ReadBounds(c) \/ ReadContent(c) \/ SetBounds(c) \/ Measure(c)
  \/ Refused(c) \/ Answer(c)

Asks(c) ==
  \/ AgentAllocates(c) \/ AgentResizes(c) \/ NewTab(c) \/ Apply(c)
  \/ \E t \in Tabs : Select(c, t)

Next ==
  \/ ChromeStep \/ SaveDefault \/ MountView \/ SettingsArrive \/ Deselect \/ Type
  \/ \E c \in Calls : Continue(c) \/ Asks(c)

Spec == Init /\ [][Next]_vars

-----------------------------------------------------------------------------
(* Properties.                                                             *)

\* Every variable has its type.
TypeOK ==
  /\ open \in SUBSET Tabs /\ fresh \in SUBSET Tabs
  /\ outer \in [Tabs -> Nat] /\ bar \in [Tabs -> Bars] /\ moved \in Nat
  /\ leased \in SUBSET Tabs /\ reported \in SUBSET Tabs
  /\ call \in [Calls -> {None} \cup Made]
  /\ default \in Sizes \cup {None} /\ saved \in Nat
  /\ view \in [asked : BOOLEAN, knows : Sizes \cup {None, Unread}]
  /\ controls \in [tab : Tabs \cup {None}, viewport : Calls \cup {None},
                   draft : Calls \cup {None}, reading : Calls \cup {None}, applying : Calls \cup {None}]

Landed(c) == call[c].kind # "read" /\ call[c].step = "done" /\ call[c].got # None
Reached(c) == Larger(call[c].want, MinOuter - bar[call[c].tab])

\* A resize that had the window to itself answers with the size that was asked for, or
\* with the smallest that Chrome allows, and that is the size of the page until somebody
\* else touches the window ("one correction step lands it exactly").
ResizeLands ==
  \A c \in Calls : call[c] # None /\ Landed(c) /\ call[c].alone =>
    call[c].got = Reached(c) /\ call[c].got = Content(call[c].tab)

\* No tab is lost because it could not be sized: a lease was named in an answer, or the
\* call that took it is still at work.
LeasesAreReported ==
  \A t \in leased : t \in reported \/ \E c \in On(t) : call[c].kind = "alloc" /\ InFlight(c)

\* Once no read is outstanding, a viewport that was read is that of the tab selected,
\* however late other answers came, and the fields show it or what the human typed
\* over it; where they show anything else, they are marked "size unknown"
\* (TakeoverView.tsx:705-719 and 795).
FieldsFollowTab ==
  controls.viewport # None =>
    /\ controls.draft \in {controls.viewport, None}
    /\ controls.reading = None /\ call[controls.viewport].kind = "read" =>
         call[controls.viewport].tab = controls.tab

-----------------------------------------------------------------------------
(* Statements the code does not keep.                                      *)

\* A page has a size that somebody asked for: the content area is exactly the width and
\* height of a resize, or the floor of Chrome, whoever else resizes it.
SizeIsAsked ==
  \A t \in open :
    LET landed == {c \in On(t) : Landed(c)}
    IN  landed # {} /\ (\A c \in On(t) : ~InFlight(c)) =>
          Content(t) \in {Reached(c) : c \in landed}

\* The dashboard's own size never outranks the default of the settings.
DefaultRules ==
  \A c \in Calls : call[c] # None /\ call[c].due # None =>
    call[c].want = Clamp(call[c].due)

\* TakeoverView.tsx:682 as documented: the fields are "width/height of the selected
\* tab's viewport", once no read is outstanding and unless the human typed them.
DraftIsOfTab ==
  controls.tab # None /\ controls.reading = None /\ controls.draft # None
    => call[controls.draft].tab = controls.tab

=============================================================================
