-------------------------- MODULE DashboardProofs --------------------------
(***************************************************************************)
(* The dashboard, for any number of tabs, viewers, requests and addresses, *)
(* in three parts that share no state.                                     *)
(*                                                                         *)
(* Console, the pictures on the cards of the sessions view: the gateway    *)
(* keeps one session of a tab at most, and a card never shows an older     *)
(* picture after a newer one.  The second rests on the first: since a tab  *)
(* has one capture in flight, that one is its latest (Latest), and whoever *)
(* joins it waits for a picture at least as new as any that is shown       *)
(* (PicturesAreDue).                                                       *)
(*                                                                         *)
(* Access, the token and the throttle of wrong ones: the map of the        *)
(* throttle counts what is recent and nothing else (GuessesCounted), so    *)
(* that wrong tokens are bounded in every window and a Retry-After is long *)
(* enough (PromisesKept).                                                  *)
(*                                                                         *)
(* Viewer, the takeover view: what it shows, with what is on its way to it *)
(* and what the hub has still to do, is what Chrome has (Strip), and a     *)
(* button that is down in a page is in the human's hand (ButtonKept).      *)
(***************************************************************************)
EXTENDS Console, Access, Viewer,
        FiniteSetTheorems, SequenceTheorems, WellFoundedInduction, TLAPS

-----------------------------------------------------------------------------
(* Console: the invariant.                                                 *)

\* A tab has one capture in flight, and that is the latest begun.
OneCapture == \A c, d \in captures : c.tab = d.tab => c = d
Latest == \A c \in captures : c.n = shots[c.tab]

\* A session is that of a capture that has attached.
SessionsServe ==
  \A s \in sessions : \E c \in captures : s = <<c.tab, c.n>> /\ c.step # "attach"

\* A card waits for one picture, which is no older than the one it shows.
OneProbe == \A p, q \in probes : p.tab = q.tab => p = q
PicturesAreDue ==
  /\ \A p \in probes : thumb[p.tab] <= p.n /\ p.n <= shots[p.tab]
  /\ \A t \in Tabs : thumb[t] <= shots[t]

ConsoleInv ==
  /\ TypeOK
  /\ OneCapture
  /\ Latest
  /\ SessionsServe
  /\ OneProbe
  /\ PicturesAreDue

-----------------------------------------------------------------------------
(* The pictures, apart from the rest of the state.                         *)

PictureTypes ==
  /\ captures \in SUBSET [tab : Tabs, n : Nat, step : {"attach", "shoot", "shot", "missed"}]
  /\ sessions \in SUBSET (Tabs \X Nat) /\ shots \in [Tabs -> Nat]
  /\ probes \in SUBSET [tab : Tabs, n : Nat, answered : BOOLEAN]
  /\ thumb \in [Tabs -> Nat]

Pictures ==
  PictureTypes /\ OneCapture /\ Latest /\ SessionsServe /\ OneProbe /\ PicturesAreDue

\* The rest of the types.
RestTypes ==
  /\ state \in States
  /\ pages \in SUBSET Tabs /\ leased \in SUBSET Tabs /\ fresh \in SUBSET Tabs
  /\ lists \in Seq([by : Controls \cup {Poll}, step : {"sent", "asked", "read", "answered"},
                    pages : SUBSET Tabs, answer : Lists \cup {None}])
  /\ shown \in Lists \cup {None}
  /\ calls \in [Controls -> {"idle", "sent", "listing"}]

\* The pictures and the rest can be proved apart.
LEMMA TwoParts == ConsoleInv <=> Pictures /\ RestTypes
BY DEF ConsoleInv, TypeOK, Pictures, PictureTypes, RestTypes

\* Whatever takes sessions, requests and cards away, and begins nothing.
LEMMA LessIsRight ==
  ASSUME Pictures, UNCHANGED <<captures, shots>>,
         sessions' \subseteq sessions, probes' \subseteq probes,
         thumb' \in [Tabs -> Nat], \A t \in Tabs : thumb'[t] = thumb[t] \/ thumb'[t] = 0
  PROVE  Pictures'
<1>1. PictureTypes'
  BY DEF Pictures, PictureTypes
<1>2. OneCapture' /\ Latest'
  BY DEF Pictures, OneCapture, Latest
<1>3. SessionsServe'
  BY DEF Pictures, SessionsServe
<1>4. OneProbe'
  BY DEF Pictures, OneProbe
<1>5. PicturesAreDue'
  <2>1. ASSUME NEW p \in probes' PROVE thumb'[p.tab] <= p.n /\ p.n <= shots'[p.tab]
    <3>1. p \in probes /\ p.tab \in Tabs /\ p.n \in Nat
      BY <2>1 DEF Pictures, PictureTypes
    <3>2. thumb[p.tab] <= p.n /\ p.n <= shots[p.tab]
      BY <3>1 DEF Pictures, PicturesAreDue
    <3> QED BY <3>1, <3>2
  <2>2. ASSUME NEW t \in Tabs PROVE thumb'[t] <= shots'[t]
    <3>1. thumb[t] <= shots[t] /\ shots[t] \in Nat
      BY DEF Pictures, PicturesAreDue, PictureTypes
    <3> QED BY <3>1
  <2> QED BY <2>1, <2>2 DEF PicturesAreDue
<1> QED BY <1>1, <1>2, <1>3, <1>4, <1>5 DEF Pictures

\* A capture goes on.
LEMMA CapturesGoOn ==
  ASSUME Pictures, NEW c \in captures, NEW step \in {"shoot", "shot", "missed"},
         ToStep(c, step), UNCHANGED <<shots, probes, thumb>>,
         sessions' = sessions \/ sessions' = sessions \cup {<<c.tab, c.n>>}
  PROVE  Pictures'
<1> DEFINE d == [c EXCEPT !.step = step]
<1>1. c.tab \in Tabs /\ c.n \in Nat
  BY DEF Pictures, PictureTypes
<1>2. /\ d \in [tab : Tabs, n : Nat, step : {"attach", "shoot", "shot", "missed"}]
      /\ d.tab = c.tab /\ d.n = c.n /\ d.step = step
  BY DEF Pictures, PictureTypes
<1>3. captures' = (captures \ {c}) \cup {d}
  BY DEF ToStep
<1> HIDE DEF d
<1>4. PictureTypes'
  BY <1>1, <1>2, <1>3 DEF Pictures, PictureTypes
<1>5. OneCapture'
  BY <1>2, <1>3 DEF Pictures, OneCapture
<1>6. Latest'
  BY <1>2, <1>3 DEF Pictures, Latest
<1>7. SessionsServe'
  <2>1. SUFFICES ASSUME NEW s \in sessions'
                 PROVE  \E e \in captures' : s = <<e.tab, e.n>> /\ e.step # "attach"
    BY DEF SessionsServe
  <2>2. CASE s = <<c.tab, c.n>>
    BY <1>2, <1>3, <2>2
  <2>3. CASE s # <<c.tab, c.n>>
    <3>1. PICK e \in captures : s = <<e.tab, e.n>> /\ e.step # "attach"
      BY <2>1, <2>3 DEF Pictures, SessionsServe
    <3>2. e # c
      BY <2>3, <3>1
    <3> QED BY <1>3, <3>1, <3>2
  <2> QED BY <2>2, <2>3
<1>8. OneProbe' /\ PicturesAreDue'
  BY DEF Pictures, OneProbe, PicturesAreDue
<1> QED BY <1>4, <1>5, <1>6, <1>7, <1>8 DEF Pictures

\* A capture is over, and its session gone.
LEMMA CapturesSettle ==
  ASSUME Pictures, NEW c \in captures, NEW ok \in BOOLEAN, Settle(c, ok),
         UNCHANGED <<shots, thumb>>,
         sessions' \subseteq sessions, <<c.tab, c.n>> \notin sessions'
  PROVE  Pictures'
<1> DEFINE sharing == {p \in probes : p.tab = c.tab /\ p.n = c.n}
<1>1. captures' = captures \ {c}
      /\ probes' = (probes \ sharing) \cup
                     (IF ok THEN {[p EXCEPT !.answered = TRUE] : p \in sharing} ELSE {})
  BY DEF Settle
<1>2. \A q \in probes' : \E p \in probes :
        /\ q.tab = p.tab /\ q.n = p.n
        /\ \/ q = p /\ p \notin sharing
           \/ q = [p EXCEPT !.answered = TRUE] /\ p \in sharing
        /\ q \in [tab : Tabs, n : Nat, answered : BOOLEAN]
  <2>1. SUFFICES ASSUME NEW q \in probes'
                 PROVE  \E p \in probes :
                          /\ q.tab = p.tab /\ q.n = p.n
                          /\ \/ q = p /\ p \notin sharing
                             \/ q = [p EXCEPT !.answered = TRUE] /\ p \in sharing
                          /\ q \in [tab : Tabs, n : Nat, answered : BOOLEAN]
    OBVIOUS
  <2>2. CASE q \in probes \ sharing
    BY <2>2 DEF Pictures, PictureTypes
  <2>3. CASE q \notin probes \ sharing
    <3>1. PICK p \in sharing : q = [p EXCEPT !.answered = TRUE]
      BY <1>1, <2>1, <2>3
    <3>2. p \in probes /\ p \in [tab : Tabs, n : Nat, answered : BOOLEAN]
      BY DEF Pictures, PictureTypes
    <3>3. q.tab = p.tab /\ q.n = p.n /\ q \in [tab : Tabs, n : Nat, answered : BOOLEAN]
      BY <3>1, <3>2
    <3> QED BY <3>1, <3>2, <3>3
  <2> QED BY <2>2, <2>3
<1> HIDE DEF sharing
<1>3. PictureTypes'
  BY <1>1, <1>2 DEF Pictures, PictureTypes
<1>4. OneCapture' /\ Latest'
  BY <1>1 DEF Pictures, OneCapture, Latest
<1>5. SessionsServe'
  BY <1>1 DEF Pictures, SessionsServe
<1>6. OneProbe'
  BY <1>2 DEF Pictures, OneProbe
<1>7. PicturesAreDue'
  <2>1. \A q \in probes' : thumb'[q.tab] <= q.n /\ q.n <= shots'[q.tab]
    BY <1>2 DEF Pictures, PicturesAreDue
  <2> QED BY <2>1 DEF Pictures, PicturesAreDue
<1> QED BY <1>3, <1>4, <1>5, <1>6, <1>7 DEF Pictures

\* A request waits for the capture in flight, which is the latest, or for a new one.
LEMMA TickIsRight ==
  ASSUME Pictures, NEW t \in Tabs, Tick(t)
  PROVE  Pictures'
<1> DEFINE others == {p \in probes : p.tab # t}
<1>1. CaptureTab(t, others) /\ UNCHANGED <<sessions, thumb>>
  BY DEF Tick, listVars
<1>2. \A n \in Nat : Probe(t, n) \in [tab : Tabs, n : Nat, answered : BOOLEAN]
        /\ Probe(t, n).tab = t /\ Probe(t, n).n = n
  BY DEF Probe
<1>3. \A p \in others : p \in probes /\ p.tab # t
  OBVIOUS
<1>4. ASSUME NEW n \in Nat, probes' = others \cup {Probe(t, n)},
             \A u \in Tabs : shots[u] <= shots'[u] /\ shots'[u] \in Nat, n = shots'[t]
      PROVE  /\ probes' \in SUBSET [tab : Tabs, n : Nat, answered : BOOLEAN]
             /\ OneProbe' /\ PicturesAreDue'
  <2>1. probes' \in SUBSET [tab : Tabs, n : Nat, answered : BOOLEAN]
    BY <1>2, <1>4 DEF Pictures, PictureTypes
  <2>2. OneProbe'
    BY <1>2, <1>3, <1>4 DEF Pictures, OneProbe
  <2>3. ASSUME NEW u \in Tabs PROVE thumb[u] <= shots'[u]
    <3>1. thumb[u] \in Nat /\ shots[u] \in Nat /\ thumb[u] <= shots[u]
      BY DEF Pictures, PictureTypes, PicturesAreDue
    <3> QED BY <1>4, <3>1
  <2>4. ASSUME NEW p \in probes' PROVE thumb[p.tab] <= p.n /\ p.n <= shots'[p.tab]
    <3>1. CASE p \in others
      <4>1. p \in probes /\ p.tab \in Tabs /\ p.n \in Nat
        BY <1>3, <3>1 DEF Pictures, PictureTypes
      <4>2. thumb[p.tab] <= p.n /\ p.n <= shots[p.tab] /\ shots[p.tab] \in Nat
        BY <4>1 DEF Pictures, PicturesAreDue, PictureTypes
      <4> QED BY <1>4, <4>1, <4>2
    <3>2. CASE p = Probe(t, n)
      BY <1>2, <1>4, <2>3, <3>2
    <3> QED BY <1>4, <2>4, <3>1, <3>2
  <2>5. PicturesAreDue'
    BY <1>1, <2>3, <2>4 DEF PicturesAreDue
  <2> QED BY <2>1, <2>2, <2>5
<1>5. ASSUME NEW c \in Capturing(t), probes' = others \cup {Probe(t, c.n)},
             UNCHANGED <<captures, shots>>
      PROVE  Pictures'
  <2>1. c \in captures /\ c.tab = t /\ c.n \in Nat /\ c.n = shots[t]
    BY <1>5 DEF Capturing, Pictures, PictureTypes, Latest
  <2>2. \A u \in Tabs : shots[u] <= shots'[u] /\ shots'[u] \in Nat
    BY <1>5 DEF Pictures, PictureTypes
  <2>3. /\ probes' \in SUBSET [tab : Tabs, n : Nat, answered : BOOLEAN]
        /\ OneProbe' /\ PicturesAreDue'
    BY <1>4, <1>5, <2>1, <2>2
  <2>4. OneCapture' /\ Latest' /\ SessionsServe' /\ PictureTypes'
    BY <1>1, <1>5, <2>3 DEF Pictures, OneCapture, Latest, SessionsServe, PictureTypes
  <2> QED BY <2>3, <2>4 DEF Pictures
<1>6. ASSUME Capturing(t) = {}, shots' = [shots EXCEPT ![t] = @ + 1],
             captures' = captures \cup {Capture(t, shots[t] + 1, "attach")},
             probes' = others \cup {Probe(t, shots[t] + 1)}
      PROVE  Pictures'
  <2> DEFINE d == Capture(t, shots[t] + 1, "attach")
  <2>1. shots[t] \in Nat /\ shots' \in [Tabs -> Nat] /\ shots'[t] = shots[t] + 1
        /\ (\A u \in Tabs \ {t} : shots'[u] = shots[u])
        /\ (\A u \in Tabs : shots[u] <= shots'[u] /\ shots'[u] \in Nat)
    BY <1>6 DEF Pictures, PictureTypes
  <2>2. /\ probes' \in SUBSET [tab : Tabs, n : Nat, answered : BOOLEAN]
        /\ OneProbe' /\ PicturesAreDue'
    BY <1>4, <1>6, <2>1
  <2>3. /\ d \in [tab : Tabs, n : Nat, step : {"attach", "shoot", "shot", "missed"}]
        /\ d.tab = t /\ d.n = shots[t] + 1
    BY <2>1 DEF Capture
  <2>4. captures' = captures \cup {d}
    BY <1>6
  <2> HIDE DEF d
  <2>5. \A c \in captures : c.tab \in Tabs /\ c.tab # t
    BY <1>6 DEF Capturing, Pictures, PictureTypes
  <2>6. PictureTypes'
    BY <1>1, <2>1, <2>2, <2>3, <2>4 DEF Pictures, PictureTypes
  <2>7. OneCapture'
    BY <2>3, <2>4, <2>5 DEF Pictures, OneCapture
  <2>8. Latest'
    BY <2>1, <2>3, <2>4, <2>5 DEF Pictures, Latest
  <2>9. SessionsServe'
    BY <1>1, <2>4 DEF Pictures, SessionsServe
  <2> QED BY <2>2, <2>6, <2>7, <2>8, <2>9 DEF Pictures
<1> QED BY <1>1, <1>5, <1>6 DEF CaptureTab

\* A picture lands: the card waited for no other.
LEMMA LandIsRight ==
  ASSUME Pictures, NEW p \in probes, Land(p)
  PROVE  Pictures' /\ thumb'[p.tab] >= thumb[p.tab]
                   /\ \A t \in Tabs \ {p.tab} : thumb'[t] = thumb[t]
<1>1. UNCHANGED <<captures, sessions, shots>> /\ probes' = probes \ {p}
      /\ thumb' = [thumb EXCEPT ![p.tab] = p.n]
  BY DEF Land, captureVars
<1>2. p.tab \in Tabs /\ p.n \in Nat
  BY DEF Pictures, PictureTypes
<1>3. thumb' \in [Tabs -> Nat] /\ thumb'[p.tab] = p.n
      /\ \A t \in Tabs \ {p.tab} : thumb'[t] = thumb[t]
  BY <1>1, <1>2 DEF Pictures, PictureTypes
<1>4. PictureTypes' /\ OneCapture' /\ Latest' /\ SessionsServe' /\ OneProbe'
  BY <1>1, <1>3 DEF Pictures, PictureTypes, OneCapture, Latest, SessionsServe, OneProbe
<1>5. thumb[p.tab] <= p.n /\ p.n <= shots[p.tab]
  BY DEF Pictures, PicturesAreDue
<1>6. PicturesAreDue'
  <2>1. ASSUME NEW q \in probes' PROVE thumb'[q.tab] <= q.n /\ q.n <= shots'[q.tab]
    <3>1. q \in probes /\ q.tab # p.tab /\ q.tab \in Tabs
      BY <1>1, <2>1 DEF Pictures, OneProbe, PictureTypes
    <3> QED BY <1>1, <1>3, <3>1 DEF Pictures, PicturesAreDue
  <2>2. ASSUME NEW t \in Tabs PROVE thumb'[t] <= shots'[t]
    BY <1>1, <1>3, <1>5 DEF Pictures, PicturesAreDue
  <2> QED BY <2>1, <2>2 DEF PicturesAreDue
<1>7. thumb[p.tab] \in Nat
  BY <1>2 DEF Pictures, PictureTypes
<1> QED BY <1>2, <1>3, <1>4, <1>5, <1>6, <1>7 DEF Pictures

-----------------------------------------------------------------------------
(* The rest of the state.                                                  *)

WorldTypes ==
  /\ state \in States
  /\ pages \in SUBSET Tabs /\ leased \in SUBSET Tabs /\ fresh \in SUBSET Tabs

\* Whatever is asked of the gateway takes sessions away, and begins nothing.
LEMMA DoesIsTyped ==
  ASSUME WorldTypes, NEW kind \in {"create", "start", "stop", "delete", "health", "tab",
                                   "release", "close"},
         NEW t, NEW answer, Does(kind, t, answer)
  PROVE  WorldTypes' /\ sessions' \subseteq sessions
<1>1. ASSUME NEW s \in States, Becomes(s), UNCHANGED fresh
      PROVE  WorldTypes' /\ sessions' \subseteq sessions
  BY <1>1 DEF Becomes, Closed, WorldTypes
<1>2. ASSUME UNCHANGED <<worldVars, sessions>>
      PROVE  WorldTypes' /\ sessions' \subseteq sessions
  BY <1>2 DEF worldVars, WorldTypes
<1>3. "stopped" \in States /\ "running" \in States /\ "deleted" \in States
  BY DEF States
<1>4. CASE kind = "create"
  BY <1>1, <1>2, <1>3, <1>4 DEF Does
<1>5. CASE kind = "start"
  BY <1>1, <1>2, <1>3, <1>5 DEF Does
<1>6. CASE kind = "stop"
  BY <1>1, <1>2, <1>3, <1>6 DEF Does
<1>7. CASE kind = "delete"
  BY <1>1, <1>3, <1>7 DEF Does
<1>8. CASE kind = "health"
  BY <1>2, <1>8 DEF Does
<1>9. CASE kind = "tab"
  <2>1. \/ UNCHANGED <<worldVars, sessions>>
        \/ \E u \in fresh : Opens(u) /\ leased' = leased \cup {u} /\ UNCHANGED <<state, sessions>>
    BY <1>9 DEF Does
  <2>2. ASSUME NEW u \in fresh, Opens(u), leased' = leased \cup {u}, UNCHANGED <<state, sessions>>
        PROVE  WorldTypes' /\ sessions' \subseteq sessions
    BY <2>2 DEF Opens, WorldTypes
  <2> QED BY <1>2, <2>1, <2>2
<1>10. CASE kind = "release"
  <2>1. Closed({t} \cap leased) /\ leased' = leased \ {t} /\ UNCHANGED <<state, fresh>>
    BY <1>10 DEF Does
  <2> QED BY <2>1 DEF Closed, WorldTypes
<1>11. CASE kind = "close"
  <2>1. Closed({t}) /\ leased' = leased \ {t} /\ UNCHANGED <<state, fresh>>
    BY <1>11 DEF Does
  <2> QED BY <2>1 DEF Closed, WorldTypes
<1> QED BY <1>4, <1>5, <1>6, <1>7, <1>8, <1>9, <1>10, <1>11

\* What agents and other dashboards do has no part in pictures.
LEMMA ElsewhereKeeps ==
  ASSUME ConsoleInv, Elsewhere
  PROVE  ConsoleInv'
<1>1. Pictures /\ WorldTypes
  BY TwoParts DEF RestTypes, WorldTypes
<1>2. /\ UNCHANGED <<captures, shots, listVars, calls, pictureVars>>
      /\ WorldTypes' /\ sessions' \subseteq sessions
  <2>1. ASSUME NEW t \in Tabs, OpenElsewhere(t)
        PROVE  /\ UNCHANGED <<captures, shots, listVars, calls, pictureVars>>
               /\ WorldTypes' /\ sessions' \subseteq sessions
    BY <1>1, <2>1 DEF OpenElsewhere, Opens, captureVars, WorldTypes
  <2>2. ASSUME NEW t \in Tabs, CloseElsewhere(t)
        PROVE  /\ UNCHANGED <<captures, shots, listVars, calls, pictureVars>>
               /\ WorldTypes' /\ sessions' \subseteq sessions
    BY <1>1, <2>2 DEF CloseElsewhere, Closed, WorldTypes
  <2>3. ASSUME NEW kind \in {"create", "start", "stop", "delete"}, RunElsewhere(kind)
        PROVE  /\ UNCHANGED <<captures, shots, listVars, calls, pictureVars>>
               /\ WorldTypes' /\ sessions' \subseteq sessions
    <3>1. PICK answer \in {"ok", "failed"} : Does(kind, None, answer)
      BY <2>3 DEF RunElsewhere
    <3>2. WorldTypes' /\ sessions' \subseteq sessions
      BY <1>1, <3>1, DoesIsTyped
    <3> QED BY <2>3, <3>2 DEF RunElsewhere
  <2> QED BY <2>1, <2>2, <2>3 DEF Elsewhere
<1>3. Pictures'
  <2>1. UNCHANGED <<captures, shots>> /\ probes' = probes /\ thumb' = thumb
    BY <1>2 DEF pictureVars
  <2>2. probes' \subseteq probes /\ thumb' \in [Tabs -> Nat] /\ \A t \in Tabs : thumb'[t] = thumb[t]
    BY <1>1, <2>1 DEF Pictures, PictureTypes
  <2> QED BY <1>1, <1>2, <2>1, <2>2, LessIsRight
<1>4. RestTypes'
  BY <1>2, TwoParts DEF RestTypes, WorldTypes, listVars
<1> QED BY <1>3, <1>4, TwoParts DEF ConsoleInv, Pictures, PictureTypes, RestTypes, TypeOK

Entries ==
  [by : Controls \cup {Poll}, step : {"sent", "asked", "read", "answered"},
   pages : SUBSET Tabs, answer : Lists \cup {None}]

\* A request for the list is an entry of the queue.
LEMMA SendIsTyped ==
  ASSUME lists \in Seq(Entries), NEW by \in Controls \cup {Poll}, SendList(by)
  PROVE  lists' \in Seq(Entries)
<1>1. [by |-> by, step |-> "sent", pages |-> {}, answer |-> None] \in Entries
  BY DEF Entries
<1> QED BY <1>1 DEF SendList

\* Taking an answered request out leaves requests.
LEMMA ListedIsTyped ==
  ASSUME RestTypes, NEW i \in DOMAIN lists, Listed(i)
  PROVE  lists' \in Seq(Entries) /\ calls' \in [Controls -> {"idle", "sent", "listing"}]
<1>1. lists \in Seq(Entries) /\ lists[i] \in Entries /\ i \in 1..Len(lists)
  <2>1. lists \in Seq(Entries)
    BY DEF RestTypes, Entries
  <2> QED BY <2>1
<1>2. RemoveAt(lists, i) \in Seq(Entries)
  <2>1. SubSeq(lists, 1, i - 1) \in Seq(Entries) /\ SubSeq(lists, i + 1, Len(lists)) \in Seq(Entries)
    BY <1>1
  <2> QED BY <2>1 DEF RemoveAt
<1>3. calls' \in [Controls -> {"idle", "sent", "listing"}]
  BY <1>1 DEF Listed, RestTypes, Entries
<1> QED BY <1>2, <1>3 DEF Listed

\* What the gateway answers is a list, and a request stays one at every turn.
LEMMA TurnsAreTyped ==
  ASSUME WorldTypes, NEW i \in DOMAIN lists, lists[i] \in Entries,
         ReadState(i) \/ ReadPages(i) \/ MissPages(i) \/ AnswerList(i)
  PROVE  \E entry \in Entries : Turns(i, entry)
<1>1. \A found \in SUBSET Tabs : Snapshot("running", Cards(leased, found)) \in Lists
  BY DEF Snapshot, Cards, Lists, States, WorldTypes
<1>2. CASE ReadState(i)
  <2>1. Snapshot(state, NoCards) \in Lists
    BY DEF Snapshot, NoCards, Lists, WorldTypes
  <2> QED BY <1>2, <2>1 DEF ReadState, Entries
<1>3. CASE ReadPages(i)
  BY <1>3 DEF ReadPages, Entries, WorldTypes
<1>4. CASE MissPages(i)
  BY <1>4 DEF MissPages, Entries
<1>5. CASE AnswerList(i)
  <2>1. Snapshot("running", Cards(leased, lists[i].pages)) \in Lists
    BY <1>1 DEF Entries
  <2> QED BY <1>5, <2>1 DEF AnswerList, Entries
<1> QED BY <1>2, <1>3, <1>4, <1>5

\* The cards of a list lose their pictures and requests, or keep them.
LEMMA ShowsIsRight ==
  ASSUME Pictures, NEW list, Shows(list), UNCHANGED captureVars
  PROVE  Pictures'
<1>1. UNCHANGED <<captures, shots, sessions>>
  BY DEF captureVars
<1>2. probes' \subseteq probes /\ sessions' \subseteq sessions
  BY <1>1 DEF Shows
<1>3. thumb' = [t \in Tabs |-> IF Mounted(list, t) THEN thumb[t] ELSE 0]
  BY DEF Shows, NoPicture
<1>4. thumb' \in [Tabs -> Nat] /\ \A t \in Tabs : thumb'[t] = thumb[t] \/ thumb'[t] = 0
  BY <1>3 DEF Pictures, PictureTypes
<1> QED BY <1>1, <1>2, <1>4, LessIsRight

\* Nor have answers of the list, beyond closing cards and their requests.
LEMMA ListKeeps ==
  ASSUME ConsoleInv, NEW i \in DOMAIN lists, ListStep(i)
  PROVE  ConsoleInv'
<1>1. Pictures /\ RestTypes /\ WorldTypes
  BY TwoParts DEF RestTypes, WorldTypes
<1>2. lists \in Seq(Entries) /\ lists[i] \in Entries
  <2>1. lists \in Seq(Entries)
    BY <1>1 DEF RestTypes, Entries
  <2> QED BY <2>1
<1>3. CASE ReadState(i) \/ ReadPages(i) \/ MissPages(i) \/ AnswerList(i)
  <2>1. PICK entry \in Entries : Turns(i, entry)
    BY <1>1, <1>2, <1>3, TurnsAreTyped
  <2>2. /\ lists' = [lists EXCEPT ![i] = entry]
        /\ UNCHANGED <<worldVars, captureVars, shown, calls, pictureVars>>
    BY <2>1 DEF Turns
  <2>3. lists' \in Seq(Entries)
    BY <1>2, <2>2
  <2>4. RestTypes'
    BY <1>1, <2>2, <2>3 DEF RestTypes, worldVars, Entries
  <2>5. Pictures'
    BY <1>1, <2>2 DEF Pictures, PictureTypes, OneCapture, Latest, SessionsServe, OneProbe,
       PicturesAreDue, captureVars, pictureVars
  <2> QED BY <2>4, <2>5 DEF ConsoleInv, Pictures, PictureTypes, RestTypes, TypeOK
<1>4. CASE FailList(i)
  <2>1. Listed(i) /\ UNCHANGED <<worldVars, captureVars, shown, pictureVars>>
    BY <1>4 DEF FailList
  <2>2. RestTypes'
    BY <1>1, <2>1, ListedIsTyped DEF RestTypes, worldVars, Entries
  <2>3. Pictures'
    BY <1>1, <2>1 DEF Pictures, PictureTypes, OneCapture, Latest, SessionsServe, OneProbe,
       PicturesAreDue, captureVars, pictureVars
  <2> QED BY <2>2, <2>3 DEF ConsoleInv, Pictures, PictureTypes, RestTypes, TypeOK
<1>5. CASE DeliverList(i)
  <2>1. Listed(i) /\ Shows(lists[i].answer) /\ UNCHANGED <<worldVars, captureVars>>
    BY <1>5 DEF DeliverList
  <2>2. shown' \in Lists \cup {None}
    BY <1>2, <2>1 DEF Shows, Entries
  <2>3. RestTypes'
    BY <1>1, <2>1, <2>2, ListedIsTyped DEF RestTypes, worldVars, Entries
  <2>4. Pictures'
    BY <1>1, <2>1, ShowsIsRight
  <2> QED BY <2>3, <2>4 DEF ConsoleInv, Pictures, PictureTypes, RestTypes, TypeOK
<1> QED BY <1>3, <1>4, <1>5 DEF ListStep

\* Nor have the controls.
LEMMA ControlKeeps ==
  ASSUME ConsoleInv, NEW k \in Controls, Press(k) \/ Handle(k)
  PROVE  ConsoleInv'
<1>1. Pictures /\ RestTypes /\ WorldTypes
  BY TwoParts DEF RestTypes, WorldTypes
<1>2. CASE Press(k)
  <2>1. RestTypes'
    BY <1>1, <1>2 DEF Press, RestTypes, worldVars, listVars
  <2>2. Pictures'
    BY <1>1, <1>2 DEF Press, Pictures, PictureTypes, OneCapture, Latest, SessionsServe, OneProbe,
       PicturesAreDue, captureVars, pictureVars
  <2> QED BY <2>1, <2>2 DEF ConsoleInv, Pictures, PictureTypes, RestTypes, TypeOK
<1>3. CASE Handle(k)
  <2>1. PICK answer \in {"ok", "failed"} : Does(k[1], k[2], answer)
    BY <1>3 DEF Handle
  <2>2. k[1] \in {"create", "start", "stop", "delete", "health", "tab", "release", "close"}
    BY DEF Controls
  <2>3. WorldTypes' /\ sessions' \subseteq sessions
    BY <1>1, <2>1, <2>2, DoesIsTyped
  <2>4. lists \in Seq(Entries) /\ k \in Controls \cup {Poll}
    BY <1>1 DEF RestTypes, Entries
  <2>5. lists' \in Seq(Entries)
    BY <1>3, <2>4, SendIsTyped DEF Handle
  <2>6. calls' \in [Controls -> {"idle", "sent", "listing"}]
    BY <1>1, <1>3 DEF Handle, RestTypes
  <2>7. UNCHANGED <<captures, shots, shown, probes, thumb>>
    BY <1>3 DEF Handle, pictureVars
  <2>8. RestTypes'
    BY <1>1, <2>3, <2>5, <2>6, <2>7 DEF RestTypes, WorldTypes, Entries
  <2>9. probes' \subseteq probes /\ thumb' \in [Tabs -> Nat] /\ \A t \in Tabs : thumb'[t] = thumb[t]
    BY <1>1, <2>7 DEF Pictures, PictureTypes
  <2>10. Pictures'
    BY <1>1, <2>3, <2>7, <2>9, LessIsRight
  <2> QED BY <2>8, <2>10 DEF ConsoleInv, Pictures, PictureTypes, RestTypes, TypeOK
<1> QED BY <1>2, <1>3

\* The steps of a capture keep what is known of pictures.
LEMMA CaptureKeeps ==
  ASSUME ConsoleInv, NEW c \in captures, CaptureStep(c) \/ Shoot(c)
  PROVE  Pictures' /\ UNCHANGED <<worldVars, listVars, calls, thumb>>
<1>1. Pictures
  BY TwoParts
<1>2. CASE Attach(c)
  <2>1. CASE c.tab \in pages
    <3>1. ToStep(c, "shoot") /\ UNCHANGED <<shots, probes, thumb>>
          /\ sessions' = sessions \cup {<<c.tab, c.n>>}
      BY <1>2, <2>1 DEF Attach
    <3>2. Pictures'
      BY <1>1, <3>1, CapturesGoOn
    <3> QED BY <1>2, <3>2 DEF Attach
  <2>2. CASE c.tab \notin pages
    <3>1. Settle(c, FALSE) /\ UNCHANGED <<shots, thumb, sessions>> /\ c.step = "attach"
      BY <1>2, <2>2 DEF Attach
    <3>2. <<c.tab, c.n>> \notin sessions
      BY <1>1, <3>1 DEF Pictures, SessionsServe, OneCapture
    <3>3. sessions' \subseteq sessions /\ <<c.tab, c.n>> \notin sessions' /\ FALSE \in BOOLEAN
      BY <3>1, <3>2
    <3>4. Pictures'
      BY <1>1, <3>1, <3>3, CapturesSettle
    <3> QED BY <1>2, <3>4 DEF Attach
  <2> QED BY <2>1, <2>2
<1>3. CASE Shoot(c)
  <2>1. ToStep(c, "shot") /\ UNCHANGED <<shots, probes, thumb, sessions>>
    BY <1>3 DEF Shoot, pictureVars
  <2>2. Pictures'
    BY <1>1, <2>1, CapturesGoOn
  <2> QED BY <1>3, <2>1, <2>2 DEF Shoot
<1>4. CASE GiveUp(c)
  <2>1. ToStep(c, "missed") /\ UNCHANGED <<shots, probes, thumb, sessions>>
    BY <1>4 DEF GiveUp, pictureVars
  <2>2. Pictures'
    BY <1>1, <2>1, CapturesGoOn
  <2> QED BY <1>4, <2>1, <2>2 DEF GiveUp
<1>5. CASE Detach(c)
  <2>1. Settle(c, c.step = "shot") /\ UNCHANGED <<shots, thumb>>
        /\ sessions' = sessions \ {<<c.tab, c.n>>}
    BY <1>5 DEF Detach
  <2>2. sessions' \subseteq sessions /\ <<c.tab, c.n>> \notin sessions' /\ (c.step = "shot") \in BOOLEAN
    BY <2>1
  <2>3. Pictures'
    BY <1>1, <2>1, <2>2, CapturesSettle
  <2> QED BY <1>5, <2>3 DEF Detach
<1> QED BY <1>2, <1>3, <1>4, <1>5 DEF CaptureStep

\* What a capture leaves alone keeps its types.
LEMMA RestStays ==
  ASSUME RestTypes, UNCHANGED <<worldVars, listVars, calls>>
  PROVE  RestTypes'
BY DEF RestTypes, worldVars, listVars

\* The dashboard starts in the invariant.
LEMMA ConsoleInitially == Init => ConsoleInv
<1>1. SUFFICES ASSUME Init PROVE ConsoleInv
  OBVIOUS
<1>2. TypeOK
  BY <1>1 DEF Init, TypeOK, States, NoPicture
<1> QED BY <1>1, <1>2 DEF Init, ConsoleInv, OneCapture, Latest, SessionsServe, OneProbe,
                          PicturesAreDue, NoPicture

\* ConsoleInv is inductive.
LEMMA ConsoleStep == ConsoleInv /\ [Next]_vars => ConsoleInv'
<1>1. SUFFICES ASSUME ConsoleInv, [Next]_vars PROVE ConsoleInv'
  OBVIOUS
<1>2. Pictures /\ RestTypes
  BY <1>1, TwoParts
<1>3. Pictures' /\ RestTypes' => ConsoleInv'
  BY DEF ConsoleInv, Pictures, PictureTypes, RestTypes, TypeOK
<1>4. CASE Elsewhere
  BY <1>1, <1>4, ElsewhereKeeps
<1>5. CASE PollList
  <2>1. lists \in Seq(Entries) /\ Poll \in Controls \cup {Poll} /\ SendList(Poll)
    BY <1>2, <1>5 DEF RestTypes, Entries, PollList
  <2>2. lists' \in Seq(Entries)
    BY <2>1, SendIsTyped
  <2>3. RestTypes'
    BY <1>2, <1>5, <2>2 DEF PollList, RestTypes, Entries, worldVars
  <2>4. Pictures'
    BY <1>2, <1>5 DEF PollList, Pictures, PictureTypes, OneCapture, Latest, SessionsServe, OneProbe,
       PicturesAreDue, captureVars, pictureVars
  <2> QED BY <1>3, <2>3, <2>4
<1>6. ASSUME NEW i \in DOMAIN lists, ListStep(i) PROVE ConsoleInv'
  BY <1>1, <1>6, ListKeeps
<1>7. ASSUME NEW k \in Controls, Press(k) \/ Handle(k) PROVE ConsoleInv'
  BY <1>1, <1>7, ControlKeeps
<1>8. ASSUME NEW c \in captures, CaptureStep(c) \/ Shoot(c) PROVE ConsoleInv'
  BY <1>1, <1>2, <1>3, <1>8, CaptureKeeps, RestStays
<1>9. ASSUME NEW t \in Tabs, Tick(t) PROVE ConsoleInv'
  <2>1. UNCHANGED <<worldVars, listVars, calls>>
    BY <1>9 DEF Tick
  <2> QED BY <1>2, <1>3, <1>9, <2>1, TickIsRight, RestStays
<1>10. ASSUME NEW p \in probes, Land(p) PROVE ConsoleInv'
  <2>1. UNCHANGED <<worldVars, listVars, calls>>
    BY <1>10 DEF Land
  <2> QED BY <1>2, <1>3, <1>10, <2>1, LandIsRight, RestStays
<1>11. CASE UNCHANGED vars
  <2>1. Pictures'
    BY <1>2, <1>11 DEF vars, Pictures, PictureTypes, OneCapture, Latest, SessionsServe, OneProbe,
       PicturesAreDue, captureVars, pictureVars
  <2> QED BY <1>2, <1>3, <1>11, <2>1, RestStays DEF vars
<1> QED BY <1>1, <1>4, <1>5, <1>6, <1>7, <1>8, <1>9, <1>10, <1>11 DEF Next

\* The invariant holds of every behaviour.
LEMMA ConsoleInvariant == Spec => []ConsoleInv
<1> QED BY ConsoleInitially, ConsoleStep, PTL DEF Spec

-----------------------------------------------------------------------------

\* Every variable has its type.
THEOREM TypeCorrect == Spec => []TypeOK
<1>1. ConsoleInv => TypeOK
  BY DEF ConsoleInv
<1> QED BY <1>1, ConsoleInvariant, PTL

\* captureTab stacks no sessions on a tab: there is one capture of it at most, however
\* many cards of however many dashboards ask, and no session outlives its capture.
THEOREM SessionsDoNotStack == Spec => []NoStackedSessions
<1>1. ASSUME ConsoleInv PROVE NoStackedSessions
  <2>1. \A s \in sessions : \E c \in captures : s = <<c.tab, c.n>>
    BY <1>1 DEF ConsoleInv, SessionsServe
  <2>2. ASSUME NEW t \in Tabs PROVE Cardinality(Capturing(t)) <= 1
    <3>1. CASE Capturing(t) = {}
      BY <3>1, FS_EmptySet
    <3>2. CASE Capturing(t) # {}
      <4>1. PICK c : c \in Capturing(t)
        BY <3>2
      <4>2. Capturing(t) = {c}
        BY <1>1, <4>1 DEF ConsoleInv, OneCapture, Capturing
      <4>3. Cardinality({c}) = 1
        BY FS_Singleton
      <4> QED BY <4>2, <4>3
    <3> QED BY <3>1, <3>2
  <2> QED BY <2>1, <2>2 DEF NoStackedSessions
<1> QED BY <1>1, ConsoleInvariant, PTL

\* The picture on a card never gives way to an older one.
THEOREM PicturesGoForward == Spec => PicturesMoveForward
<1>1. ASSUME ConsoleInv, [Next]_vars
      PROVE  [\A t \in Tabs : NoPicture \notin {thumb[t], thumb'[t]} => thumb'[t] >= thumb[t]]_vars
  <2> DEFINE Forward == \A t \in Tabs : NoPicture \notin {thumb[t], thumb'[t]} => thumb'[t] >= thumb[t]
  <2>1. Pictures /\ thumb \in [Tabs -> Nat]
    BY <1>1, TwoParts DEF Pictures, PictureTypes
  <2>2. UNCHANGED thumb => Forward
    BY <2>1
  <2>3. ASSUME NEW p \in probes, Land(p) PROVE Forward
    <3>1. p.tab \in Tabs /\ thumb'[p.tab] >= thumb[p.tab]
          /\ \A t \in Tabs \ {p.tab} : thumb'[t] = thumb[t]
      BY <2>1, <2>3, LandIsRight DEF Pictures, PictureTypes
    <3> QED BY <2>1, <3>1
  <2>4. ASSUME NEW i \in DOMAIN lists, ListStep(i) PROVE Forward
    <3>1. CASE DeliverList(i)
      BY <2>1, <3>1 DEF DeliverList, Shows
    <3>2. CASE ~DeliverList(i)
      BY <2>2, <2>4, <3>2
        DEF ListStep, ReadState, ReadPages, MissPages, AnswerList, Turns, FailList, pictureVars
    <3> QED BY <3>1, <3>2
  <2>5. ASSUME NEW k \in Controls, Press(k) \/ Handle(k) PROVE UNCHANGED thumb
    BY <2>5 DEF Press, Handle, pictureVars
  <2>6. ASSUME NEW c \in captures, CaptureStep(c) \/ Shoot(c) PROVE UNCHANGED thumb
    BY <1>1, <2>6, CaptureKeeps
  <2>7. ASSUME NEW t \in Tabs, Tick(t) PROVE UNCHANGED thumb
    BY <2>7 DEF Tick
  <2>8. Elsewhere \/ PollList \/ UNCHANGED vars => UNCHANGED thumb
    BY DEF Elsewhere, OpenElsewhere, CloseElsewhere, RunElsewhere, PollList, vars, pictureVars
  <2> QED BY <1>1, <2>2, <2>3, <2>4, <2>5, <2>6, <2>7, <2>8 DEF Next
<1> QED BY <1>1, ConsoleInvariant, PTL DEF Spec, PicturesMoveForward

-----------------------------------------------------------------------------
(* Access: ages.                                                           *)

\* Ages are in the order of what happened.
InOrder(ages) == \A i, j \in DOMAIN ages : i <= j => ages[i] >= ages[j]

\* The first k ages are those that are not younger than span.
SplitAt(ages, span, k) ==
  /\ k \in 0..Len(ages)
  /\ \A i \in 1..k : ages[i] >= span
  /\ \A i \in k+1..Len(ages) : ages[i] < span

\* Ages are numbers up to the window.
LEMMA AgesAre ==
  ASSUME NEW ages \in Ages
  PROVE  /\ Len(ages) \in Nat /\ DOMAIN ages = 1..Len(ages)
         /\ \A i \in 1..Len(ages) : ages[i] \in 0..Window
         /\ \A i \in 1..Len(ages) : ages[i] \in Nat /\ ages[i] <= Window
<1>1. ages \in Seq(0..Window) /\ Window \in Nat
  BY AccessAssumption DEF Ages
<1>2. Len(ages) \in Nat /\ DOMAIN ages = 1..Len(ages)
  BY <1>1
<1>3. \A i \in 1..Len(ages) : ages[i] \in 0..Window
  BY <1>1, <1>2, ElementOfSeq
<1> QED BY <1>1, <1>2, <1>3

\* A set of numbers has a least one.
LEMMA LeastNumber ==
  ASSUME NEW S \in SUBSET Nat, S # {}
  PROVE  \E i \in S : \A j \in S : i <= j
<1>1. PICK R : R = OpToRel(<, Nat)
  OBVIOUS
<1>2. \A i, j \in Nat : i < j => <<i, j>> \in R
  BY <1>1, Zenon DEF OpToRel
<1>3. IsWellFoundedOn(R, Nat)
  BY <1>1, NatLessThanWellFounded
<1>4. PICK i \in S : \A j \in S : <<j, i>> \notin R
  BY <1>3, WFMin
<1>5. ASSUME NEW j \in S PROVE i <= j
  <2>1. ~(j < i)
    BY <1>2, <1>4
  <2> QED BY <2>1
<1> QED BY <1>5

\* Ages in order can be split at any span.
LEMMA SplitExists ==
  ASSUME NEW ages \in Ages, InOrder(ages), NEW span \in Nat
  PROVE  \E k \in 0..Len(ages) : SplitAt(ages, span, k)
<1> DEFINE S == {n \in Nat : \A i \in DOMAIN ages : ages[i] >= span => i <= n}
<1>1. Len(ages) \in S /\ Len(ages) \in Nat /\ DOMAIN ages = 1..Len(ages)
  BY AgesAre
<1>4. PICK k \in S : \A n \in S : k <= n
  BY <1>1, LeastNumber
<1>5. k <= Len(ages)
  BY <1>1, <1>4
<1>6. \A i \in 1..Len(ages) : ages[i] \in Nat
  BY AgesAre
<1>7. \A i \in k+1..Len(ages) : ages[i] < span
  BY <1>1, <1>4, <1>6
<1>8. ASSUME NEW i \in 1..k PROVE ages[i] >= span
  <2>1. k - 1 \in Nat /\ k - 1 \notin S
    BY <1>4, <1>8
  <2>2. PICK j \in DOMAIN ages : ages[j] >= span /\ ~(j <= k - 1)
    BY <2>1
  <2>3. i <= j /\ i \in DOMAIN ages /\ j \in DOMAIN ages
    BY <1>1, <1>4, <1>5, <1>8, <2>2
  <2>4. ages[i] >= ages[j]
    BY <2>3 DEF InOrder
  <2> QED BY <1>1, <1>6, <2>2, <2>3, <2>4
<1> QED BY <1>1, <1>4, <1>5, <1>7, <1>8 DEF SplitAt

\* What is younger than a span is what comes behind the split.
LEMMA YoungerIs ==
  ASSUME NEW ages \in Ages, NEW span \in Nat, NEW k, SplitAt(ages, span, k)
  PROVE  Younger(ages, span) = SubSeq(ages, k + 1, Len(ages))
<1> DEFINE old == {i \in DOMAIN ages : ages[i] >= span}
<1>1. Len(ages) \in Nat /\ DOMAIN ages = 1..Len(ages) /\ k \in Nat /\ k <= Len(ages)
  BY DEF Ages, SplitAt
<1>2. \A i \in 1..Len(ages) : ages[i] \in Nat
  BY AgesAre
<1>3. old = 1..k
  BY <1>1, <1>2 DEF SplitAt
<1>4. Cardinality(1..k) = k
  BY <1>1, FS_Interval
<1> QED BY <1>3, <1>4 DEF Younger

\* What Younger keeps of ages in order is the end of them that a filter keeps.
LEMMA YoungerFilters ==
  ASSUME NEW ages \in Ages, InOrder(ages)
  PROVE  /\ Younger(ages, Window) \in Ages
         /\ InOrder(Younger(ages, Window))
         /\ \A i \in DOMAIN Younger(ages, Window) : Younger(ages, Window)[i] < Window
         /\ \E k \in 0..Len(ages) :
              /\ SplitAt(ages, Window, k)
              /\ Len(Younger(ages, Window)) = Len(ages) - k
              /\ \A i \in 1..Len(ages) - k : Younger(ages, Window)[i] = ages[k + i]
<1>1. PICK k \in 0..Len(ages) : SplitAt(ages, Window, k)
  BY SplitExists, AccessAssumption
<1>2. Younger(ages, Window) = SubSeq(ages, k + 1, Len(ages))
  BY <1>1, YoungerIs, AccessAssumption
<1>3. Len(ages) \in Nat /\ k \in Nat /\ k <= Len(ages) /\ ages \in Seq(0..Window)
  BY DEF Ages
<1> DEFINE y == SubSeq(ages, k + 1, Len(ages))
<1>4. y \in Ages
  <2>1. \A i \in k + 1..Len(ages) : ages[i] \in 0..Window
    BY <1>3, AgesAre
  <2> QED BY <1>3, <2>1, SubSeqProperties DEF Ages
<1>5. Len(y) = Len(ages) - k /\ \A i \in 1..Len(ages) - k : y[i] = ages[k + i]
  BY <1>3, SubSeqProperties
<1>6. DOMAIN y = 1..Len(ages) - k
  BY <1>4, <1>5, AgesAre
<1> HIDE DEF y
<1>7. InOrder(y)
  <2> SUFFICES ASSUME NEW i \in 1..Len(ages) - k, NEW j \in 1..Len(ages) - k, i <= j
               PROVE  y[i] >= y[j]
    BY <1>6 DEF InOrder
  <2>1. k + i \in DOMAIN ages /\ k + j \in DOMAIN ages /\ k + i <= k + j
    BY <1>3, AgesAre
  <2> QED BY <1>5, <2>1 DEF InOrder
<1>8. \A i \in DOMAIN y : y[i] < Window
  BY <1>1, <1>3, <1>5, <1>6 DEF SplitAt
<1> QED BY <1>1, <1>2, <1>4, <1>5, <1>7, <1>8 DEF y

\* Ages that are all young stay.
LEMMA YoungStay ==
  ASSUME NEW ages \in Ages, \A i \in DOMAIN ages : ages[i] < Window
  PROVE  Younger(ages, Window) = ages
<1>1. SplitAt(ages, Window, 0)
  BY DEF SplitAt, Ages
<1>2. Younger(ages, Window) = SubSeq(ages, 1, Len(ages))
  BY <1>1, YoungerIs, AccessAssumption
<1> QED BY <1>2, SubSeqFull DEF Ages

\* Nothing is nothing younger.
LEMMA NoneStay == <<>> \in Ages /\ Younger(<<>>, Window) = <<>>
<1>1. <<>> \in Ages
  BY DEF Ages
<1> QED BY <1>1, YoungStay

Aged(ages) == [j \in DOMAIN ages |-> Older(ages[j])]

\* Time passes for all ages alike, so they stay in order.
LEMMA AgedAges ==
  ASSUME NEW ages \in Ages
  PROVE  /\ Aged(ages) \in Ages
         /\ Len(Aged(ages)) = Len(ages) /\ DOMAIN Aged(ages) = DOMAIN ages
         /\ \A i \in DOMAIN ages : Aged(ages)[i] = Older(ages[i])
         /\ InOrder(ages) => InOrder(Aged(ages))
<1>1. Len(ages) \in Nat /\ DOMAIN ages = 1..Len(ages) /\ \A i \in DOMAIN ages : ages[i] \in 0..Window
  BY AgesAre
<1>2. \A i \in DOMAIN ages : Older(ages[i]) \in 0..Window
  BY <1>1, AccessAssumption DEF Older
<1>3. Aged(ages) \in [1..Len(ages) -> 0..Window]
  BY <1>1, <1>2 DEF Aged
<1>4. Aged(ages) \in Ages
  BY <1>1, <1>3, SeqDef DEF Ages
<1>5. Len(Aged(ages)) = Len(ages)
  BY <1>1, <1>3, <1>4, AgesAre
<1>6. InOrder(ages) => InOrder(Aged(ages))
  BY <1>1, <1>3, AccessAssumption DEF InOrder, Aged, Older
<1> QED BY <1>1, <1>3, <1>4, <1>5, <1>6 DEF Aged

\* It does not matter whether what is old is dropped before or after time passes.
LEMMA AgingCommutes ==
  ASSUME NEW ages \in Ages, InOrder(ages)
  PROVE  /\ Younger(Aged(ages), Window) = Younger(Aged(Younger(ages, Window)), Window)
         /\ Len(Younger(Aged(ages), Window)) <= Len(Younger(ages, Window))
         /\ Len(Younger(Aged(ages), Window)) = Len(Younger(ages, Window))
              => Younger(Aged(ages), Window) = Aged(Younger(ages, Window))
<1> DEFINE y == Younger(ages, Window)  a == Aged(ages)  b == Aged(y)
<1>1. /\ y \in Ages /\ InOrder(y) /\ Len(ages) \in Nat /\ Len(y) \in Nat
      /\ DOMAIN ages = 1..Len(ages) /\ DOMAIN y = 1..Len(y)
  BY YoungerFilters, AgesAre
<1>2. PICK k \in 0..Len(ages) :
        /\ SplitAt(ages, Window, k)
        /\ Len(y) = Len(ages) - k
        /\ \A i \in 1..Len(ages) - k : y[i] = ages[k + i]
  BY YoungerFilters
<1>3. /\ a \in Ages /\ Len(a) = Len(ages) /\ InOrder(a)
      /\ \A i \in 1..Len(ages) : a[i] = Older(ages[i])
  BY <1>1, AgedAges
<1>4. /\ b \in Ages /\ Len(b) = Len(y) /\ InOrder(b) /\ DOMAIN b = 1..Len(y)
      /\ \A i \in 1..Len(y) : b[i] = Older(y[i])
  BY <1>1, AgedAges
<1>5. PICK l \in 0..Len(b) :
        /\ SplitAt(b, Window, l)
        /\ Len(Younger(b, Window)) = Len(b) - l
        /\ \A i \in 1..Len(b) - l : Younger(b, Window)[i] = b[l + i]
  BY <1>4, YoungerFilters
<1> HIDE DEF y, a, b
<1>6. k \in Nat /\ l \in Nat /\ k + l \in 0..Len(a)
  BY <1>1, <1>2, <1>3, <1>4, <1>5
<1>7. \A i \in 1..Len(y) : b[i] = a[k + i]
  BY <1>1, <1>2, <1>3, <1>4, <1>6
<1>8. \A i \in 1..Len(ages) : ages[i] \in 0..Window
  BY AgesAre
<1>9. ASSUME NEW i \in 1..k + l PROVE a[i] >= Window
  <2>1. CASE i <= k
    <3>1. ages[i] >= Window /\ i \in 1..Len(ages)
      BY <1>1, <1>2, <1>6, <2>1 DEF SplitAt
    <3> QED BY <1>3, <1>8, <3>1, AccessAssumption DEF Older
  <2>2. CASE i > k
    <3>1. i - k \in 1..l /\ i - k \in 1..Len(y) /\ k + (i - k) = i
      BY <1>1, <1>4, <1>5, <1>6, <2>2
    <3>2. b[i - k] >= Window /\ b[i - k] = a[k + (i - k)]
      BY <1>5, <1>7, <3>1 DEF SplitAt
    <3> QED BY <3>1, <3>2
  <2> QED BY <1>6, <2>1, <2>2
<1>10. ASSUME NEW i \in k + l + 1..Len(a) PROVE a[i] < Window
  <2>1. i - k \in l + 1..Len(b) /\ i - k \in 1..Len(y) /\ k + (i - k) = i
    BY <1>1, <1>2, <1>3, <1>4, <1>5, <1>6
  <2>2. b[i - k] < Window /\ b[i - k] = a[k + (i - k)]
    BY <1>5, <1>7, <2>1 DEF SplitAt
  <2> QED BY <2>1, <2>2
<1>11. SplitAt(a, Window, k + l)
  BY <1>6, <1>9, <1>10 DEF SplitAt
<1>12. Younger(a, Window) = SubSeq(a, k + l + 1, Len(a))
  BY <1>3, <1>11, YoungerIs, AccessAssumption
<1>13. /\ Younger(a, Window) \in Ages
       /\ Len(SubSeq(a, k + l + 1, Len(a))) = Len(a) - (k + l)
       /\ \A i \in 1..Len(a) - (k + l) : SubSeq(a, k + l + 1, Len(a))[i] = a[k + l + i]
  <2>1. \A i \in k + l + 1..Len(a) : a[i] \in 0..Window
    BY <1>3, <1>6, AgesAre
  <2>2. k + l + 1 \in Int /\ Len(a) \in Int /\ k + l <= Len(a)
    BY <1>1, <1>3, <1>6
  <2>3. /\ Len(SubSeq(a, k + l + 1, Len(a))) = Len(a) - (k + l)
        /\ \A i \in 1..Len(a) - (k + l) : SubSeq(a, k + l + 1, Len(a))[i] = a[k + l + i]
    <3> DEFINE m == k + l + 1  n == Len(a)
    <3>1. m \in Int /\ n \in Int /\ \A i \in m..n : a[i] \in 0..Window
      BY <2>1, <2>2
    <3>2. /\ n - m + 1 = Len(a) - (k + l)
          /\ (IF m <= n THEN n - m + 1 ELSE 0) = Len(a) - (k + l)
          /\ \A i \in 1..Len(a) - (k + l) : m + i - 1 = k + l + i
      BY <1>6, <2>2
    <3> HIDE DEF m, n
    <3>3. /\ Len(SubSeq(a, m, n)) = IF m <= n THEN n - m + 1 ELSE 0
          /\ \A i \in 1..n - m + 1 : SubSeq(a, m, n)[i] = a[m + i - 1]
      BY <3>1, SubSeqProperties
    <3>4. /\ Len(SubSeq(a, m, n)) = Len(a) - (k + l)
          /\ \A i \in 1..Len(a) - (k + l) : SubSeq(a, m, n)[i] = a[k + l + i]
      BY <3>2, <3>3
    <3> QED BY <3>4 DEF m, n
  <2> QED BY <1>3, <2>3, YoungerFilters
<1>14. Younger(b, Window) \in Ages
  BY <1>4, YoungerFilters
<1>15. Len(Younger(b, Window)) = Len(Younger(a, Window))
  <2>1. Len(Younger(a, Window)) = Len(a) - (k + l)
    BY <1>12, <1>13
  <2>2. Len(Younger(b, Window)) = (Len(ages) - k) - l
    BY <1>2, <1>4, <1>5
  <2> QED BY <1>1, <1>3, <1>6, <2>1, <2>2
<1>16. \A i \in 1..Len(Younger(a, Window)) : Younger(b, Window)[i] = Younger(a, Window)[i]
  <2> SUFFICES ASSUME NEW i \in 1..Len(a) - (k + l)
               PROVE  Younger(b, Window)[i] = a[k + l + i]
    BY <1>12, <1>13
  <2>1. i \in 1..Len(b) - l /\ l + i \in 1..Len(y) /\ k + (l + i) = k + l + i
    BY <1>1, <1>2, <1>3, <1>4, <1>5, <1>6
  <2> QED BY <1>5, <1>7, <2>1
<1>17. Younger(b, Window) = Younger(a, Window)
  BY <1>12, <1>13, <1>14, <1>15, <1>16, SeqEqual DEF Ages
<1>18. Len(Younger(a, Window)) <= Len(y)
  BY <1>1, <1>4, <1>5, <1>15
<1>19. ASSUME Len(Younger(a, Window)) = Len(y) PROVE Younger(b, Window) = b
  <2>1. l = 0
    BY <1>1, <1>4, <1>5, <1>15, <1>19
  <2>2. \A i \in DOMAIN b : b[i] < Window
    BY <1>4, <1>5, <2>1 DEF SplitAt
  <2> QED BY <1>4, <2>2, YoungStay
<1> QED BY <1>17, <1>18, <1>19 DEF y, a, b

-----------------------------------------------------------------------------
(* The map of the throttle.                                                *)

Entry == [address : Addresses, ages : Ages]

\* Each address has one entry, and its ages are in order.
GoodMap(m) ==
  /\ m \in Seq(Entry)
  /\ \A i, j \in DOMAIN m : m[i].address = m[j].address => i = j
  /\ \A i \in DOMAIN m : InOrder(m[i].ages)

\* The entry of a, if it has one, is that of the map m.
SameEntry(m, n, a) == (Has(n, a) <=> Has(m, a)) /\ AgesOf(n, a) = AgesOf(m, a)

\* A map of the throttle is a sequence of entries.
LEMMA MapsAre ==
  ASSUME NEW m, GoodMap(m)
  PROVE  /\ m \in Seq(Entry) /\ Len(m) \in Nat /\ DOMAIN m = 1..Len(m)
         /\ \A i \in 1..Len(m) :
              m[i] \in Entry /\ m[i].address \in Addresses /\ m[i].ages \in Ages
<1>1. m \in Seq(Entry)
  BY DEF GoodMap
<1>2. Len(m) \in Nat /\ DOMAIN m = 1..Len(m)
  BY <1>1
<1>3. \A i \in 1..Len(m) : m[i] \in Entry
  BY <1>1, <1>2, ElementOfSeq
<1> QED BY <1>1, <1>2, <1>3 DEF Entry

\* An address is found at its entry.
LEMMA EntryIs ==
  ASSUME NEW m, GoodMap(m), NEW i \in DOMAIN m
  PROVE  /\ Has(m, m[i].address) /\ PlaceOf(m, m[i].address) = i
         /\ AgesOf(m, m[i].address) = m[i].ages
<1>1. \A j \in DOMAIN m : m[j].address = m[i].address <=> j = i
  BY DEF GoodMap
<1>2. Has(m, m[i].address)
  BY DEF Has
<1>3. PlaceOf(m, m[i].address) = i
  BY <1>1 DEF PlaceOf
<1> QED BY <1>2, <1>3 DEF AgesOf

\* An address that has an entry has one, and that is its place.
LEMMA PlaceIs ==
  ASSUME NEW m, GoodMap(m), NEW a, Has(m, a)
  PROVE  /\ PlaceOf(m, a) \in DOMAIN m /\ m[PlaceOf(m, a)].address = a
         /\ AgesOf(m, a) = m[PlaceOf(m, a)].ages
         /\ \A i \in DOMAIN m : m[i].address = a => i = PlaceOf(m, a)
<1>1. PlaceOf(m, a) \in DOMAIN m /\ m[PlaceOf(m, a)].address = a
  BY DEF PlaceOf, Has
<1> QED BY <1>1 DEF AgesOf, GoodMap

\* What is looked up are ages in order, none for an address without entry.
LEMMA AgesOfAre ==
  ASSUME NEW m, GoodMap(m), NEW a
  PROVE  /\ AgesOf(m, a) \in Ages /\ InOrder(AgesOf(m, a))
         /\ Recent(m, a) \in Ages /\ InOrder(Recent(m, a))
         /\ ~Has(m, a) => AgesOf(m, a) = <<>> /\ Recent(m, a) = <<>>
<1>1. CASE Has(m, a)
  <2>1. AgesOf(m, a) \in Ages /\ InOrder(AgesOf(m, a))
    BY <1>1, PlaceIs, MapsAre DEF GoodMap
  <2> QED BY <1>1, <2>1, YoungerFilters DEF Recent
<1>2. CASE ~Has(m, a)
  <2>1. AgesOf(m, a) = <<>> /\ Recent(m, a) = <<>>
    BY <1>2, NoneStay DEF AgesOf, Recent
  <2> QED BY <2>1, NoneStay DEF InOrder
<1> QED BY <1>1, <1>2

\* What a map says of an address is what its entries say.
LEMMA EntryCarries ==
  ASSUME NEW m, NEW n, GoodMap(m), GoodMap(n), NEW a,
         \A i \in DOMAIN m : m[i].address = a =>
           \E j \in DOMAIN n : n[j].address = a /\ n[j].ages = m[i].ages,
         \A j \in DOMAIN n : n[j].address = a => \E i \in DOMAIN m : m[i].address = a
  PROVE  SameEntry(m, n, a)
<1>1. CASE Has(m, a)
  <2>1. PICK j \in DOMAIN n : n[j].address = a /\ n[j].ages = AgesOf(m, a)
    BY <1>1, PlaceIs
  <2>2. Has(n, a) /\ AgesOf(n, a) = n[j].ages
    BY <2>1, EntryIs
  <2> QED BY <1>1, <2>1, <2>2 DEF SameEntry
<1>2. CASE ~Has(m, a)
  <2>1. ~Has(n, a)
    BY <1>2 DEF Has
  <2> QED BY <1>2, <2>1 DEF SameEntry, AgesOf
<1> QED BY <1>1, <1>2

\* Dropping an address removes its entry and no other.
LEMMA DropIs ==
  ASSUME NEW m, GoodMap(m), NEW a
  PROVE  /\ GoodMap(Drop(m, a))
         /\ ~Has(Drop(m, a), a)
         /\ \A b : b # a => SameEntry(m, Drop(m, a), b)
         /\ Len(Drop(m, a)) = IF Has(m, a) THEN Len(m) - 1 ELSE Len(m)
<1>1. CASE ~Has(m, a)
  BY <1>1 DEF Drop, SameEntry
<1>2. CASE Has(m, a)
  <2> DEFINE p == PlaceOf(m, a)  l == SubSeq(m, 1, p - 1)  r == SubSeq(m, p + 1, Len(m))
             d == Drop(m, a)
  <2>1. /\ Len(m) \in Nat /\ DOMAIN m = 1..Len(m) /\ p \in 1..Len(m) /\ m[p].address = a
        /\ \A i \in 1..Len(m) : m[i] \in Entry
    BY <1>2, MapsAre, PlaceIs
  <2> HIDE DEF p
  <2>2. l \in Seq(Entry) /\ Len(l) = p - 1 /\ \A i \in 1..p - 1 : l[i] = m[i]
    <3>1. (\A i \in 1..p - 1 : m[i] \in Entry) /\ 1 \in Int /\ p - 1 \in Int
      BY <2>1
    <3>2. /\ l \in Seq(Entry) /\ Len(l) = IF 1 <= p - 1 THEN (p - 1) - 1 + 1 ELSE 0
          /\ \A i \in 1..(p - 1) - 1 + 1 : l[i] = m[1 + i - 1]
      BY <3>1, SubSeqProperties
    <3> QED BY <2>1, <3>2
  <2>3. r \in Seq(Entry) /\ Len(r) = Len(m) - p /\ \A i \in 1..Len(m) - p : r[i] = m[p + i]
    <3>1. (\A i \in p + 1..Len(m) : m[i] \in Entry) /\ p + 1 \in Int /\ Len(m) \in Int
      BY <2>1
    <3>2. /\ r \in Seq(Entry) /\ Len(r) = IF p + 1 <= Len(m) THEN Len(m) - (p + 1) + 1 ELSE 0
          /\ \A i \in 1..Len(m) - (p + 1) + 1 : r[i] = m[p + 1 + i - 1]
      BY <3>1, SubSeqProperties
    <3>3. Len(r) = Len(m) - p
      <4>1. Len(m) \in Int /\ p \in Int /\ p <= Len(m)
        BY <2>1
      <4> DEFINE n == Len(m)
      <4>2. n - (p + 1) + 1 = n - p /\ (~(p + 1 <= n) => n - p = 0)
        <5> HIDE DEF n
        <5> QED BY <4>1 DEF n
      <4> QED BY <3>2, <4>2
    <3>4. ASSUME NEW i \in 1..Len(m) - p PROVE r[i] = m[p + i]
      <4>1. i \in 1..Len(m) - (p + 1) + 1 /\ p + 1 + i - 1 = p + i
        BY <2>1
      <4> HIDE DEF r
      <4>2. r[i] = m[p + 1 + i - 1]
        BY <3>2, <4>1
      <4> QED BY <4>1, <4>2
    <3> QED BY <3>2, <3>3, <3>4
  <2>4. d = l \o r
    BY <1>2 DEF Drop, RemoveAt, p
  <2> HIDE DEF l, r
  <2>5. /\ d \in Seq(Entry) /\ Len(d) = Len(m) - 1
        /\ \A i \in 1..Len(m) - 1 : d[i] = IF i < p THEN m[i] ELSE m[i + 1]
    <3>1. /\ l \o r \in Seq(Entry) /\ Len(l \o r) = Len(l) + Len(r)
          /\ \A i \in 1..Len(l) + Len(r) :
               (l \o r)[i] = IF i <= Len(l) THEN l[i] ELSE r[i - Len(l)]
      BY <2>2, <2>3, ConcatProperties
    <3>2. Len(l) + Len(r) = Len(m) - 1
      BY <2>1, <2>2, <2>3
    <3>3. ASSUME NEW i \in 1..Len(m) - 1 PROVE d[i] = IF i < p THEN m[i] ELSE m[i + 1]
      <4>1. CASE i < p
        BY <2>1, <2>2, <2>4, <3>1, <3>2, <4>1
      <4>2. CASE ~(i < p)
        <5>1. i - Len(l) \in 1..Len(m) - p /\ p + (i - Len(l)) = i + 1 /\ ~(i <= Len(l))
          BY <2>1, <2>2, <4>2
        <5> QED BY <2>3, <2>4, <3>1, <3>2, <4>2, <5>1
      <4> QED BY <4>1, <4>2
    <3> QED BY <2>4, <3>1, <3>2, <3>3
  <2> HIDE DEF d
  <2>6. DOMAIN d = 1..Len(m) - 1
    BY <2>1, <2>5
  <2>7. \A i \in DOMAIN d : \E j \in DOMAIN m : j # p /\ d[i] = m[j] /\ j = IF i < p THEN i ELSE i + 1
    BY <2>1, <2>5, <2>6
  <2>8. \A i, j \in DOMAIN d : d[i].address = d[j].address => i = j
    <3> SUFFICES ASSUME NEW i \in DOMAIN d, NEW j \in DOMAIN d, d[i].address = d[j].address
                 PROVE  i = j
      OBVIOUS
    <3>1. PICK u \in DOMAIN m : u # p /\ d[i] = m[u] /\ u = IF i < p THEN i ELSE i + 1
      BY <2>7
    <3>2. PICK v \in DOMAIN m : v # p /\ d[j] = m[v] /\ v = IF j < p THEN j ELSE j + 1
      BY <2>7
    <3>3. u = v
      BY <3>1, <3>2 DEF GoodMap
    <3> QED BY <2>1, <2>6, <3>1, <3>2, <3>3
  <2>9. GoodMap(d)
    BY <2>5, <2>7, <2>8 DEF GoodMap
  <2>10. ~Has(d, a)
    BY <1>2, <2>7, PlaceIs DEF Has, p
  <2>11. ASSUME NEW b, b # a PROVE SameEntry(m, d, b)
    <3>1. ASSUME NEW i \in DOMAIN m, m[i].address = b
          PROVE  \E j \in DOMAIN d : d[j].address = b /\ d[j].ages = m[i].ages
      <4>1. i # p
        BY <2>1, <2>11, <3>1
      <4>2. CASE i < p
        BY <2>1, <2>5, <2>6, <3>1, <4>2
      <4>3. CASE i > p
        <5>1. i - 1 \in DOMAIN d /\ d[i - 1] = m[i]
          BY <2>1, <2>5, <2>6, <4>3
        <5> QED BY <3>1, <5>1
      <4> QED BY <2>1, <4>1, <4>2, <4>3
    <3>2. \A j \in DOMAIN d : d[j].address = b => \E i \in DOMAIN m : m[i].address = b
      BY <2>7
    <3> QED BY <2>9, <3>1, <3>2, EntryCarries
  <2> QED BY <1>2, <2>5, <2>9, <2>10, <2>11 DEF d
<1> QED BY <1>1, <1>2

\* Setting the ages of an address changes its entry, or adds one, and no other.
LEMMA PutIs ==
  ASSUME NEW m, GoodMap(m), NEW a \in Addresses, NEW ages \in Ages, InOrder(ages)
  PROVE  /\ GoodMap(Put(m, a, ages))
         /\ Has(Put(m, a, ages), a) /\ AgesOf(Put(m, a, ages), a) = ages
         /\ \A b : b # a => SameEntry(m, Put(m, a, ages), b)
         /\ Len(Put(m, a, ages)) = IF Has(m, a) THEN Len(m) ELSE Len(m) + 1
<1> DEFINE n == Put(m, a, ages)
<1>1. /\ m \in Seq(Entry) /\ Len(m) \in Nat /\ DOMAIN m = 1..Len(m)
      /\ \A i \in 1..Len(m) : m[i] \in Entry
  BY MapsAre
<1>2. /\ GoodMap(n) /\ Len(n) = IF Has(m, a) THEN Len(m) ELSE Len(m) + 1
      /\ \E i \in DOMAIN n : n[i].address = a /\ n[i].ages = ages
      /\ \A b : b # a =>
           /\ \A i \in DOMAIN m : m[i].address = b =>
                \E j \in DOMAIN n : n[j].address = b /\ n[j].ages = m[i].ages
           /\ \A j \in DOMAIN n : n[j].address = b => \E i \in DOMAIN m : m[i].address = b
  <2>1. CASE Has(m, a)
    <3>1. n = [i \in 1..Len(m) |-> IF m[i].address = a THEN [m[i] EXCEPT !.ages = ages] ELSE m[i]]
      BY <1>1, <2>1 DEF Put
    <3>2. \A i \in 1..Len(m) : n[i] \in Entry /\ n[i].address = m[i].address
      BY <1>1, <3>1 DEF Entry
    <3>3. n \in Seq(Entry) /\ Len(n) = Len(m) /\ DOMAIN n = 1..Len(m)
      <4>1. n \in [1..Len(m) -> Entry]
        BY <3>1, <3>2
      <4>2. n \in Seq(Entry)
        BY <1>1, <4>1, SeqDef
      <4> QED BY <1>1, <4>1, <4>2
    <3>4. \A i \in 1..Len(m) : n[i].ages = IF m[i].address = a THEN ages ELSE m[i].ages
      BY <1>1, <3>1 DEF Entry
    <3> HIDE DEF n
    <3>5. GoodMap(n)
      BY <1>1, <3>2, <3>3, <3>4 DEF GoodMap
    <3>6. PICK i \in DOMAIN m : m[i].address = a
      BY <2>1 DEF Has
    <3> QED BY <1>1, <2>1, <3>2, <3>3, <3>4, <3>5, <3>6
  <2>2. CASE ~Has(m, a)
    <3> DEFINE e == [address |-> a, ages |-> ages]
    <3>1. n = Append(m, e) /\ e \in Entry
      BY <2>2 DEF Put, Entry
    <3>2. /\ n \in Seq(Entry) /\ Len(n) = Len(m) + 1 /\ n[Len(m) + 1] = e
          /\ \A i \in 1..Len(m) : n[i] = m[i]
      BY <1>1, <3>1, AppendProperties
    <3>3. DOMAIN n = 1..Len(m) + 1
      BY <1>1, <3>2
    <3>4. e.address = a /\ e.ages = ages
      OBVIOUS
    <3>5. \A i \in 1..Len(m) : m[i].address # a
      BY <1>1, <2>2 DEF Has
    <3> HIDE DEF n, e
    <3>6. \A i, j \in DOMAIN n : n[i].address = n[j].address => i = j
      <4> SUFFICES ASSUME NEW i \in DOMAIN n, NEW j \in DOMAIN n, n[i].address = n[j].address
                   PROVE  i = j
        OBVIOUS
      <4>1. (i \in 1..Len(m) \/ i = Len(m) + 1) /\ (j \in 1..Len(m) \/ j = Len(m) + 1)
        BY <1>1, <3>3
      <4>2. CASE i \in 1..Len(m) /\ j \in 1..Len(m)
        BY <1>1, <3>2, <4>2 DEF GoodMap
      <4> QED BY <3>2, <3>4, <3>5, <4>1, <4>2
    <3>7. \A i \in DOMAIN n : InOrder(n[i].ages)
      <4> TAKE i \in DOMAIN n
      <4>1. i \in 1..Len(m) \/ i = Len(m) + 1
        BY <1>1, <3>3
      <4> QED BY <1>1, <3>2, <3>4, <4>1 DEF GoodMap
    <3>8. GoodMap(n)
      BY <3>2, <3>6, <3>7 DEF GoodMap
    <3>9. \E i \in DOMAIN n : n[i].address = a /\ n[i].ages = ages
      BY <1>1, <3>2, <3>3, <3>4
    <3>10. ASSUME NEW b, b # a
           PROVE  /\ \A i \in DOMAIN m : m[i].address = b =>
                       \E j \in DOMAIN n : n[j].address = b /\ n[j].ages = m[i].ages
                  /\ \A j \in DOMAIN n : n[j].address = b => \E i \in DOMAIN m : m[i].address = b
      <4>1. \A i \in DOMAIN m : i \in DOMAIN n /\ n[i] = m[i]
        BY <1>1, <3>2, <3>3
      <4>2. ASSUME NEW j \in DOMAIN n, n[j].address = b PROVE \E i \in DOMAIN m : m[i].address = b
        <5>1. j \in 1..Len(m) \/ j = Len(m) + 1
          BY <1>1, <3>3
        <5> QED BY <1>1, <3>2, <3>4, <3>10, <4>2, <5>1
      <4> QED BY <4>1, <4>2
    <3> QED BY <2>2, <3>2, <3>8, <3>9, <3>10
  <2> QED BY <2>1, <2>2
<1> HIDE DEF n
<1>3. Has(n, a) /\ AgesOf(n, a) = ages
  BY <1>2, EntryIs
<1>4. \A b : b # a => SameEntry(m, n, b)
  BY <1>2, EntryCarries
<1> QED BY <1>2, <1>3, <1>4 DEF n

\* The eldest entry is given up.
LEMMA TailIs ==
  ASSUME NEW m, GoodMap(m), m # <<>>
  PROVE  /\ GoodMap(Tail(m)) /\ Len(Tail(m)) = Len(m) - 1
         /\ \A b : Has(Tail(m), b) => SameEntry(m, Tail(m), b)
<1> DEFINE n == Tail(m)
<1>1. /\ m \in Seq(Entry) /\ Len(m) \in Nat /\ DOMAIN m = 1..Len(m)
  BY MapsAre
<1>2. /\ n \in Seq(Entry) /\ Len(n) = Len(m) - 1 /\ \A i \in 1..Len(n) : n[i] = m[i + 1]
  BY <1>1, HeadTailProperties
<1>3. DOMAIN n = 1..Len(n)
  BY <1>2
<1>4. Len(n) \in Nat
  BY <1>2
<1> HIDE DEF n
<1>5. \A i \in DOMAIN n : i + 1 \in DOMAIN m /\ n[i] = m[i + 1]
  BY <1>1, <1>2, <1>3, <1>4
<1>6. GoodMap(n)
  <2>1. ASSUME NEW i \in DOMAIN n, NEW j \in DOMAIN n, n[i].address = n[j].address PROVE i = j
    <3>1. i + 1 = j + 1
      BY <1>5, <2>1 DEF GoodMap
    <3> QED BY <1>3, <3>1
  <2> QED BY <1>2, <1>5, <2>1 DEF GoodMap
<1>7. ASSUME NEW b, Has(n, b) PROVE SameEntry(m, n, b)
  <2>1. PICK i \in DOMAIN n : n[i].address = b
    BY <1>7 DEF Has
  <2>2. Has(n, b) /\ AgesOf(n, b) = n[i].ages
    BY <1>6, <2>1, EntryIs
  <2>3. Has(m, b) /\ AgesOf(m, b) = m[i + 1].ages
    BY <1>5, <2>1, EntryIs
  <2> QED BY <1>5, <2>1, <2>2, <2>3 DEF SameEntry
<1> QED BY <1>2, <1>6, <1>7 DEF n

\* Who keeps his entry keeps his recent failures.
LEMMA SameRecent ==
  ASSUME NEW m, NEW n, NEW a, SameEntry(m, n, a)
  PROVE  Recent(n, a) = Recent(m, a)
BY DEF SameEntry, Recent

\* What is recent after a step.
LEMMA RecentThen ==
  ASSUME NEW m, failures' = m, NEW b
  PROVE  /\ Recent(failures, b)' = Recent(m, b)
         /\ Locked(b)' <=> Len(Recent(m, b)) >= MaxFailures
<1>1. Has(failures, b)' <=> Has(m, b)
  BY DEF Has
<1>2. PlaceOf(failures, b)' = PlaceOf(m, b)
  BY DEF PlaceOf
<1>3. AgesOf(failures, b)' = AgesOf(m, b)
  BY <1>1, <1>2 DEF AgesOf
<1>4. Recent(failures, b)' = Recent(m, b)
  BY <1>3 DEF Recent
<1> QED BY <1>4 DEF Locked

\* Pruning forgets nothing that is recent.
LEMMA PruneIs ==
  ASSUME NEW m, GoodMap(m), NEW a \in Addresses
  PROVE  /\ GoodMap(Prune(m, a))
         /\ \A b : b # a => SameEntry(m, Prune(m, a), b)
         /\ Has(Prune(m, a), a) => Has(m, a)
         /\ \A b : Recent(Prune(m, a), b) = Recent(m, b)
         /\ Len(Prune(m, a)) = IF Has(m, a) /\ ~Has(Prune(m, a), a) THEN Len(m) - 1 ELSE Len(m)
<1>1. Recent(m, a) \in Ages /\ InOrder(Recent(m, a)) /\ Len(m) \in Nat
  BY AgesOfAre, MapsAre
<1>2. CASE Recent(m, a) = <<>>
  <2>1. Prune(m, a) = Drop(m, a)
    BY <1>2 DEF Prune
  <2>2. /\ GoodMap(Drop(m, a)) /\ ~Has(Drop(m, a), a)
        /\ \A b : b # a => SameEntry(m, Drop(m, a), b)
        /\ Len(Drop(m, a)) = IF Has(m, a) THEN Len(m) - 1 ELSE Len(m)
    BY DropIs
  <2>3. Recent(Drop(m, a), a) = <<>>
    BY <2>2, AgesOfAre
  <2>4. \A b : Recent(Drop(m, a), b) = Recent(m, b)
    BY <1>2, <2>2, <2>3, SameRecent
  <2> QED BY <2>1, <2>2, <2>4
<1>3. CASE Recent(m, a) # <<>>
  <2>1. Prune(m, a) = Put(m, a, Recent(m, a))
    BY <1>3 DEF Prune
  <2>2. Has(m, a)
    BY <1>3, AgesOfAre
  <2>3. /\ GoodMap(Prune(m, a)) /\ Has(Prune(m, a), a)
        /\ AgesOf(Prune(m, a), a) = Recent(m, a)
        /\ \A b : b # a => SameEntry(m, Prune(m, a), b)
        /\ Len(Prune(m, a)) = Len(m)
    BY <1>1, <2>1, <2>2, PutIs
  <2>4. \A i \in DOMAIN Recent(m, a) : Recent(m, a)[i] < Window
    BY AgesOfAre, YoungerFilters DEF Recent
  <2>5. Recent(Prune(m, a), a) = Recent(m, a)
    BY <1>1, <2>3, <2>4, YoungStay DEF Recent
  <2> QED BY <2>2, <2>3, <2>5, SameRecent
<1> QED BY <1>2, <1>3

\* A failure that is recorded counts; whoever loses its entry to it starts afresh.
LEMMA RecordIs ==
  ASSUME NEW m, GoodMap(m), Len(m) <= MaxTracked, NEW a \in Addresses
  PROVE  /\ GoodMap(Record(m, a)) /\ Len(Record(m, a)) <= MaxTracked
         /\ Recent(Record(m, a), a) = Append(Recent(m, a), 0)
         /\ \A b : b # a /\ Has(Record(m, a), b) => Recent(Record(m, a), b) = Recent(m, b)
<1> DEFINE room == IF ~Has(m, a) /\ Len(m) >= MaxTracked THEN Tail(m) ELSE m
           ages == Append(Recent(room, a), 0)
<1>1. Len(m) \in Nat /\ MaxTracked \in Nat \ {0}
  BY MapsAre, AccessAssumption
<1>2. /\ GoodMap(room) /\ Len(room) \in Nat
      /\ \A b : Has(room, b) => SameEntry(m, room, b)
      /\ Has(room, a) <=> Has(m, a)
      /\ Recent(room, a) = Recent(m, a)
      /\ Len(room) + (IF Has(m, a) THEN 0 ELSE 1) <= MaxTracked
  <2>1. CASE ~Has(m, a) /\ Len(m) >= MaxTracked
    <3>1. room = Tail(m) /\ m # <<>>
      BY <1>1, <2>1
    <3>2. /\ GoodMap(room) /\ Len(room) = Len(m) - 1
          /\ \A b : Has(room, b) => SameEntry(m, room, b)
      BY <3>1, TailIs
    <3>3. ~Has(room, a)
      BY <2>1, <3>2 DEF SameEntry
    <3> QED BY <1>1, <2>1, <3>2, <3>3, MapsAre, AgesOfAre
  <2>2. CASE ~(~Has(m, a) /\ Len(m) >= MaxTracked)
    <3>1. room = m
      BY <2>2
    <3>2. Len(m) + (IF Has(m, a) THEN 0 ELSE 1) <= MaxTracked
      BY <1>1, <2>2
    <3> QED BY <1>1, <3>1, <3>2 DEF SameEntry
  <2> QED BY <2>1, <2>2
<1> HIDE DEF room
<1>3. Recent(room, a) \in Ages /\ InOrder(Recent(room, a))
  BY <1>2, AgesOfAre
<1>4. \A i \in DOMAIN Recent(room, a) : Recent(room, a)[i] < Window
  BY <1>2, AgesOfAre, YoungerFilters DEF Recent
<1>5. /\ ages \in Ages /\ Len(ages) = Len(Recent(room, a)) + 1 /\ ages[Len(ages)] = 0
      /\ \A i \in 1..Len(Recent(room, a)) : ages[i] = Recent(room, a)[i]
  <2>1. 0 \in 0..Window
    BY AccessAssumption
  <2> QED BY <1>3, <2>1, AppendProperties DEF Ages
<1> HIDE DEF ages
<1>6. /\ Len(Recent(room, a)) \in Nat /\ DOMAIN Recent(room, a) = 1..Len(Recent(room, a))
      /\ DOMAIN ages = 1..Len(ages)
      /\ \A i \in DOMAIN ages : ages[i] \in Nat
  BY <1>3, <1>5, AgesAre
<1>7. \A i \in DOMAIN ages : i \in DOMAIN Recent(room, a) \/ i = Len(ages)
  BY <1>5, <1>6
<1>8. InOrder(ages) /\ \A i \in DOMAIN ages : ages[i] < Window
  <2>1. ASSUME NEW i \in DOMAIN ages, NEW j \in DOMAIN ages, i <= j PROVE ages[i] >= ages[j]
    <3>1. CASE j = Len(ages)
      BY <1>5, <1>6, <2>1, <3>1
    <3>2. CASE j \in DOMAIN Recent(room, a)
      <4>1. i \in DOMAIN Recent(room, a)
        BY <1>5, <1>6, <2>1, <3>2
      <4> QED BY <1>3, <1>5, <1>6, <2>1, <3>2, <4>1 DEF InOrder
    <3> QED BY <1>7, <3>1, <3>2
  <2>2. ASSUME NEW i \in DOMAIN ages PROVE ages[i] < Window
    <3>1. CASE i = Len(ages)
      BY <1>5, <3>1, AccessAssumption
    <3>2. CASE i \in DOMAIN Recent(room, a)
      BY <1>4, <1>5, <1>6, <3>2
    <3> QED BY <1>7, <3>1, <3>2
  <2> QED BY <2>1, <2>2 DEF InOrder
<1> DEFINE n == Prune(room, a)
<1>9. /\ GoodMap(n) /\ Len(n) \in Nat
      /\ \A b : b # a => SameEntry(room, n, b)
      /\ Has(n, a) => Has(m, a)
      /\ Len(n) = IF Has(m, a) /\ ~Has(n, a) THEN Len(room) - 1 ELSE Len(room)
  BY <1>2, PruneIs, MapsAre
<1>10. Record(m, a) = Put(n, a, ages)
  BY DEF Record, room, ages
<1> HIDE DEF n
<1>11. /\ GoodMap(Record(m, a))
       /\ AgesOf(Record(m, a), a) = ages
       /\ \A b : b # a => SameEntry(n, Record(m, a), b)
       /\ Len(Record(m, a)) = IF Has(n, a) THEN Len(n) ELSE Len(n) + 1
  BY <1>5, <1>8, <1>9, <1>10, PutIs
<1>12. Len(Record(m, a)) <= MaxTracked
  BY <1>1, <1>2, <1>9, <1>11
<1>13. Recent(Record(m, a), a) = Append(Recent(m, a), 0)
  <2>1. Recent(Record(m, a), a) = ages
    BY <1>5, <1>8, <1>11, YoungStay DEF Recent
  <2> QED BY <1>2, <2>1 DEF ages
<1>14. ASSUME NEW b, b # a, Has(Record(m, a), b)
       PROVE  Recent(Record(m, a), b) = Recent(m, b)
  <2>1. SameEntry(n, Record(m, a), b) /\ SameEntry(room, n, b)
    BY <1>9, <1>11, <1>14
  <2>2. Has(room, b)
    BY <1>14, <2>1 DEF SameEntry
  <2>3. SameEntry(m, room, b)
    BY <1>2, <2>2
  <2> QED BY <2>1, <2>3, SameRecent
<1> QED BY <1>11, <1>12, <1>13, <1>14

\* Time passes over a map.
Later(m) == [i \in DOMAIN m |-> [m[i] EXCEPT !.ages = Aged(@)]]

\* A tick leaves the entries and ages what is in them.
LEMMA LaterIs ==
  ASSUME NEW m, GoodMap(m)
  PROVE  /\ GoodMap(Later(m)) /\ Len(Later(m)) = Len(m)
         /\ \A a : Recent(Later(m), a) = Younger(Aged(Recent(m, a)), Window)
<1> DEFINE n == Later(m)
<1>1. /\ m \in Seq(Entry) /\ Len(m) \in Nat /\ DOMAIN m = 1..Len(m)
      /\ \A i \in 1..Len(m) : m[i] \in Entry /\ m[i].ages \in Ages
  BY MapsAre
<1>2. n = [i \in 1..Len(m) |-> [m[i] EXCEPT !.ages = Aged(m[i].ages)]]
  BY <1>1 DEF Later
<1>3. \A i \in 1..Len(m) : Aged(m[i].ages) \in Ages
  BY <1>1, AgedAges
<1>4. \A i \in 1..Len(m) :
        n[i] \in Entry /\ n[i].address = m[i].address /\ n[i].ages = Aged(m[i].ages)
  BY <1>1, <1>2, <1>3 DEF Entry
<1>5. n \in Seq(Entry) /\ Len(n) = Len(m) /\ DOMAIN n = 1..Len(m)
  <2>1. n \in [1..Len(m) -> Entry]
    BY <1>2, <1>4
  <2>2. n \in Seq(Entry)
    BY <1>1, <2>1, SeqDef
  <2> QED BY <1>1, <2>1, <2>2
<1> HIDE DEF n
<1>6. \A i \in DOMAIN n : InOrder(n[i].ages)
  BY <1>1, <1>4, <1>5, AgedAges DEF GoodMap
<1>7. GoodMap(n)
  BY <1>1, <1>4, <1>5, <1>6 DEF GoodMap
<1>8. ASSUME NEW a PROVE Recent(n, a) = Younger(Aged(Recent(m, a)), Window)
  <2>1. CASE Has(m, a)
    <3>1. PICK i \in DOMAIN m : m[i].address = a
      BY <2>1 DEF Has
    <3>2. AgesOf(m, a) = m[i].ages /\ AgesOf(n, a) = Aged(m[i].ages)
      <4>1. n[i].address = a /\ i \in DOMAIN n
        BY <1>1, <1>4, <1>5, <3>1
      <4> QED BY <1>1, <1>4, <1>7, <3>1, <4>1, EntryIs
    <3>3. m[i].ages \in Ages /\ InOrder(m[i].ages)
      BY <1>1, <3>1 DEF GoodMap
    <3> QED BY <3>2, <3>3, AgingCommutes DEF Recent
  <2>2. CASE ~Has(m, a)
    <3>1. ~Has(n, a)
      BY <1>1, <1>4, <1>5, <2>2 DEF Has
    <3>2. Recent(m, a) = <<>> /\ Recent(n, a) = <<>>
      BY <1>7, <2>2, <3>1, AgesOfAre
    <3>3. Aged(<<>>) \in Ages /\ Len(Aged(<<>>)) = 0
      BY NoneStay, AgedAges
    <3>4. Aged(<<>>) = <<>>
      BY <3>3 DEF Ages
    <3> QED BY <3>2, <3>4, NoneStay
  <2> QED BY <2>1, <2>2
<1> QED BY <1>5, <1>7, <1>8 DEF n

-----------------------------------------------------------------------------
(* The invariant of Access.                                                *)

ThrottleTypes ==
  /\ GoodMap(failures)
  /\ guesses \in [Addresses -> Ages]
  /\ promise \in [Addresses -> Nat \cup {Absent}]

\* The wrong tokens of a window are those the throttle counts.
GuessesCounted == \A a \in Addresses : guesses[a] = Recent(failures, a)

\* As long as an address is locked, what is left of its Retry-After takes the eldest
\* failure that counts out of the window.
PromisesKept ==
  \A a \in Addresses :
    promise[a] \in Nat /\ Locked(a) => promise[a] + Recent(failures, a)[1] >= Window

Throttled == ThrottleTypes /\ WindowBound /\ GuessesCounted /\ PromisesKept

\* A printed token is the one in the file, which nothing overrules.
TokenKept ==
  printed # Absent =>
    /\ env = Absent /\ stored = printed /\ boot # "minting"
    /\ Up => token = printed

\* The rest of the types.
Values ==
  /\ stored \in Tokens \cup {Absent} /\ env \in Tokens \cup {Absent}
  /\ edits \in Nat
  /\ printed \in Tokens \cup {Absent}
  /\ boot \in {"down", "minting", "up"} /\ token \in Tokens \cup {Absent}
  /\ boot = "minting" => token # Absent /\ env = Absent
  /\ jar \in Tokens \cup {Absent}
  /\ gate \in [Screens -> {"closed", "asking", "login", "app"}]
  /\ net \subseteq [page : Screens, kind : {"status", "login", "poll", "logout"},
                   carried : Tokens \cup {Absent}, answer : Answers \cup {Absent}]

AccessInv == Values /\ TokenKept /\ Throttled

\* The invariant types the state.
LEMMA AccessTypes == AccessInv => AccessTypeOK
<1> SUFFICES ASSUME AccessInv PROVE AccessTypeOK
  OBVIOUS
<1>1. failures \in Seq([address : Addresses, ages : Ages])
  BY DEF AccessInv, Throttled, ThrottleTypes, GoodMap, Entry
<1>2. \A i, j \in DOMAIN failures : failures[i].address = failures[j].address => i = j
  BY DEF AccessInv, Throttled, ThrottleTypes, GoodMap
<1> QED BY <1>1, <1>2 DEF AccessTypeOK, AccessInv, Throttled, ThrottleTypes, Values

\* What is recent of an address that the throttle counts.
LEMMA RecentAre ==
  ASSUME Throttled, NEW a \in Addresses
  PROVE  /\ Recent(failures, a) \in Ages /\ Len(Recent(failures, a)) \in 0..MaxFailures
         /\ \A i \in 1..Len(Recent(failures, a)) :
              Recent(failures, a)[i] \in Nat /\ Recent(failures, a)[i] < Window
         /\ Locked(a) <=> Len(Recent(failures, a)) = MaxFailures
<1>1. Recent(failures, a) \in Ages
  BY AgesOfAre DEF Throttled, ThrottleTypes
<1>2. Len(Recent(failures, a)) <= MaxFailures
  BY DEF Throttled, WindowBound, GuessesCounted
<1>3. \A i \in DOMAIN Recent(failures, a) : Recent(failures, a)[i] < Window
  BY AgesOfAre, YoungerFilters DEF Throttled, ThrottleTypes, Recent
<1> QED BY <1>1, <1>2, <1>3, AgesAre, AccessAssumption DEF Locked

\* Whole seconds that are rounded up are no less.
LEMMA RoundedUp ==
  ASSUME NEW n \in Nat, NEW s \in Nat \ {0}
  PROVE  /\ AtLeast1((n + s - 1) \div s) \in Nat
         /\ AtLeast1((n + s - 1) \div s) * s >= n
<1> DEFINE q == (n + s - 1) \div s
<1>1. q \in Int /\ n + s - 1 \in Nat
  OBVIOUS
<1>2. q * s <= n + s - 1 /\ n + s - 1 < (q + 1) * s
  OBVIOUS
<1>3. q >= 0
  BY <1>1, <1>2, SMT
<1>4. (q + 1) * s = q * s + s
  BY <1>1
<1>5. q * s >= n
  BY <1>1, <1>2, <1>4
<1> HIDE DEF q
<1>6. CASE q < 1
  BY <1>1, <1>3, <1>5, <1>6 DEF AtLeast1, q
<1>7. CASE ~(q < 1)
  BY <1>1, <1>3, <1>5, <1>7 DEF AtLeast1, q
<1> QED BY <1>6, <1>7

\* A refusal promises enough.
LEMMA EnoughIsPromised ==
  ASSUME Throttled, NEW a \in Addresses, Locked(a)
  PROVE  /\ RetryAfter(a) * Second \in Nat
         /\ RetryAfter(a) * Second + Recent(failures, a)[1] >= Window
<1> DEFINE r == Recent(failures, a)  o == r[Len(r) - MaxFailures + 1]
<1>1. /\ Len(r) = MaxFailures /\ MaxFailures \in Nat \ {0}
      /\ r[1] \in Nat /\ r[1] < Window /\ Window \in Nat /\ Second \in Nat \ {0}
  BY RecentAre, AccessAssumption
<1>2. o = r[1]
  BY <1>1
<1>3. RetryAfter(a) = AtLeast1((Window - o + Second - 1) \div Second)
  BY DEF RetryAfter
<1> HIDE DEF r, o
<1>4. Window - o \in Nat
  BY <1>1, <1>2
<1>5. RetryAfter(a) \in Nat /\ RetryAfter(a) * Second >= Window - o
  BY <1>1, <1>3, <1>4, RoundedUp
<1>6. RetryAfter(a) * Second \in Nat
  BY <1>1, <1>5
<1> QED BY <1>1, <1>2, <1>5, <1>6 DEF r

\* The controller's login keeps the throttle.
LEMMA JudgeKeeps ==
  ASSUME Throttled, NEW a \in Addresses, NEW k, Judge(a, k)
  PROVE  Throttled'
<1> DEFINE pruned == Prune(failures, a)
<1>1. /\ GoodMap(failures) /\ Len(failures) <= MaxTracked /\ Len(failures) \in Nat
      /\ guesses \in [Addresses -> Ages] /\ promise \in [Addresses -> Nat \cup {Absent}]
      /\ MaxTracked \in Nat /\ MaxFailures \in Nat \ {0} /\ Absent \notin Nat
  BY MapsAre, AccessAssumption DEF Throttled, ThrottleTypes, WindowBound
<1>2. /\ GoodMap(pruned) /\ Len(pruned) <= MaxTracked /\ Len(pruned) \in Nat
      /\ \A b : Recent(pruned, b) = Recent(failures, b)
  BY <1>1, PruneIs, MapsAre
<1> HIDE DEF pruned
<1>3. CASE Verdict(a, k) = "429"
  <2>1. failures' = pruned /\ guesses' = guesses
        /\ promise' = [promise EXCEPT ![a] = RetryAfter(a) * Second]
    BY <1>3 DEF Judge, pruned
  <2>2. Locked(a)
    BY <1>3 DEF Verdict
  <2>3. RetryAfter(a) * Second \in Nat
        /\ RetryAfter(a) * Second + Recent(failures, a)[1] >= Window
    BY <2>2, EnoughIsPromised
  <2>4. \A b \in Addresses : Recent(failures, b)' = Recent(failures, b) /\ (Locked(b)' <=> Locked(b))
    BY <1>2, <2>1, RecentThen DEF Locked
  <2>5. ThrottleTypes'
    BY <1>1, <1>2, <2>1, <2>3 DEF ThrottleTypes, GoodMap
  <2>6. WindowBound'
    BY <1>2, <2>1 DEF WindowBound, Throttled
  <2>7. GuessesCounted'
    BY <2>1, <2>4 DEF GuessesCounted, Throttled
  <2>8. PromisesKept'
    BY <1>1, <2>1, <2>3, <2>4 DEF PromisesKept, Throttled
  <2> QED BY <2>5, <2>6, <2>7, <2>8 DEF Throttled
<1>4. CASE Verdict(a, k) = "ok"
  <2>1. /\ failures' = Drop(pruned, a)
        /\ promise' = [promise EXCEPT ![a] = Absent]
        /\ guesses' = [guesses EXCEPT ![a] = <<>>]
    BY <1>4 DEF Judge, pruned
  <2>2. /\ GoodMap(Drop(pruned, a)) /\ Len(Drop(pruned, a)) <= MaxTracked
        /\ Recent(Drop(pruned, a), a) = <<>>
        /\ \A b : b # a => Recent(Drop(pruned, a), b) = Recent(failures, b)
    <3>1. /\ GoodMap(Drop(pruned, a)) /\ ~Has(Drop(pruned, a), a)
          /\ \A b : b # a => SameEntry(pruned, Drop(pruned, a), b)
          /\ Len(Drop(pruned, a)) = IF Has(pruned, a) THEN Len(pruned) - 1 ELSE Len(pruned)
      BY <1>2, DropIs
    <3>2. Len(Drop(pruned, a)) <= MaxTracked
      BY <1>1, <1>2, <3>1
    <3>3. Recent(Drop(pruned, a), a) = <<>>
      BY <3>1, AgesOfAre
    <3>4. \A b : b # a => Recent(Drop(pruned, a), b) = Recent(failures, b)
      BY <1>2, <3>1, SameRecent
    <3> QED BY <3>1, <3>2, <3>3, <3>4
  <2>3. /\ Recent(failures, a)' = <<>>
        /\ \A b \in Addresses : b # a =>
             Recent(failures, b)' = Recent(failures, b) /\ (Locked(b)' <=> Locked(b))
    BY <2>1, <2>2, RecentThen DEF Locked
  <2>4. ThrottleTypes'
    BY <1>1, <2>1, <2>2, NoneStay DEF ThrottleTypes, GoodMap
  <2>5. WindowBound'
    BY <1>1, <2>1, <2>2 DEF WindowBound, Throttled
  <2>6. GuessesCounted'
    BY <1>1, <2>1, <2>3 DEF GuessesCounted, Throttled
  <2>7. PromisesKept'
    BY <1>1, <2>1, <2>3 DEF PromisesKept, Throttled
  <2> QED BY <2>4, <2>5, <2>6, <2>7 DEF Throttled
<1>5. CASE Verdict(a, k) = "401"
  <2> DEFINE n == Record(pruned, a)
  <2>1. /\ failures' = n
        /\ promise' = [b \in Addresses |-> IF b = a \/ ~Has(failures', b) THEN Absent
                                           ELSE promise[b]]
        /\ guesses' = [b \in Addresses |->
             IF b = a THEN Append(guesses[a], 0)
             ELSE IF Has(failures', b) THEN guesses[b] ELSE <<>>]
    BY <1>5 DEF Judge, pruned
  <2>2. /\ GoodMap(n) /\ Len(n) <= MaxTracked
        /\ Recent(n, a) = Append(Recent(failures, a), 0)
        /\ \A b : b # a /\ Has(n, b) => Recent(n, b) = Recent(failures, b)
    BY <1>2, RecordIs
  <2> HIDE DEF n
  <2>3. \A b : b # a /\ ~Has(n, b) => Recent(n, b) = <<>>
    BY <2>2, AgesOfAre
  <2>4. /\ \A b \in Addresses : Recent(failures, b)' = Recent(n, b)
        /\ \A b \in Addresses : b # a /\ Has(n, b) => (Locked(b)' <=> Locked(b))
    BY <2>1, <2>2, RecentThen DEF Locked
  <2>5. ~Locked(a)
    BY <1>5 DEF Verdict
  <2>6. Recent(failures, a) \in Ages /\ Len(Recent(failures, a)) < MaxFailures
    BY <2>5, RecentAre, AccessAssumption
  <2>7. Append(Recent(failures, a), 0) \in Ages
        /\ Len(Append(Recent(failures, a), 0)) <= MaxFailures
    <3>1. 0 \in 0..Window /\ Len(Recent(failures, a)) \in Nat
      BY <2>6, AgesAre, AccessAssumption
    <3>2. Append(Recent(failures, a), 0) \in Seq(0..Window)
          /\ Len(Append(Recent(failures, a), 0)) = Len(Recent(failures, a)) + 1
      BY <2>6, <3>1, AppendProperties DEF Ages
    <3> QED BY <1>1, <2>6, <3>1, <3>2 DEF Ages
  <2>8. \A b \in Addresses : guesses[b] = Recent(failures, b)
    BY DEF Throttled, GuessesCounted
  <2>9. GuessesCounted'
    <3> SUFFICES ASSUME NEW b \in Addresses PROVE guesses'[b] = Recent(n, b)
      BY <2>4 DEF GuessesCounted
    <3>1. guesses'[b] = IF b = a THEN Append(guesses[a], 0)
                        ELSE IF Has(n, b) THEN guesses[b] ELSE <<>>
      BY <2>1
    <3> QED BY <2>2, <2>3, <2>8, <3>1
  <2>10. \A b \in Addresses : guesses'[b] \in Ages /\ Len(guesses'[b]) <= MaxFailures
    <3> TAKE b \in Addresses
    <3>1. guesses'[b] = IF b = a THEN Append(guesses[a], 0)
                        ELSE IF Has(n, b) THEN guesses[b] ELSE <<>>
      BY <2>1
    <3>2. guesses[b] \in Ages /\ Len(guesses[b]) <= MaxFailures
      BY <1>1 DEF Throttled, WindowBound
    <3>3. <<>> \in Ages /\ Len(<<>>) <= MaxFailures
      BY <1>1, NoneStay
    <3> QED BY <2>7, <2>8, <3>1, <3>2, <3>3
  <2>11. ThrottleTypes'
    <3>1. guesses' \in [Addresses -> Ages]
      BY <2>1, <2>10
    <3>2. promise' \in [Addresses -> Nat \cup {Absent}]
      BY <1>1, <2>1
    <3> QED BY <2>1, <2>2, <3>1, <3>2 DEF ThrottleTypes, GoodMap
  <2>12. WindowBound'
    BY <2>1, <2>2, <2>10 DEF WindowBound
  <2>13. PromisesKept'
    <3> SUFFICES ASSUME NEW b \in Addresses, promise'[b] \in Nat, Locked(b)'
                 PROVE  promise'[b] + Recent(n, b)[1] >= Window
      BY <2>4 DEF PromisesKept
    <3>1. b # a /\ Has(n, b) /\ promise'[b] = promise[b]
      BY <1>1, <2>1
    <3>2. Locked(b) /\ Recent(n, b) = Recent(failures, b)
      BY <2>2, <2>4, <3>1
    <3> QED BY <3>1, <3>2 DEF Throttled, PromisesKept
  <2> QED BY <2>9, <2>11, <2>12, <2>13 DEF Throttled
<1>6. Verdict(a, k) \in {"429", "ok", "401"}
  BY DEF Verdict
<1> QED BY <1>3, <1>4, <1>5, <1>6

\* A tick keeps the counts and brings no promise forward.
LEMMA TimePassesKeeps ==
  ASSUME Throttled, TimePasses
  PROVE  Throttled'
<1>1. /\ GoodMap(failures) /\ Len(failures) <= MaxTracked
      /\ guesses \in [Addresses -> Ages] /\ promise \in [Addresses -> Nat \cup {Absent}]
      /\ \A a \in Addresses : guesses[a] = Recent(failures, a)
      /\ Absent \notin Nat
  BY AccessAssumption DEF Throttled, ThrottleTypes, WindowBound, GuessesCounted
<1>2. /\ failures' = Later(failures)
      /\ guesses' = [a \in Addresses |-> Younger(Aged(guesses[a]), Window)]
      /\ promise' = [a \in Addresses |-> IF promise[a] \in Nat \ {0} THEN promise[a] - 1
                                         ELSE Absent]
  BY DEF TimePasses, Later, Aged
<1>3. /\ GoodMap(Later(failures)) /\ Len(Later(failures)) = Len(failures)
      /\ \A a : Recent(Later(failures), a) = Younger(Aged(Recent(failures, a)), Window)
  BY <1>1, LaterIs
<1>4. \A a \in Addresses :
        /\ Recent(failures, a)' = Younger(Aged(Recent(failures, a)), Window)
        /\ Locked(a)' <=> Len(Younger(Aged(Recent(failures, a)), Window)) >= MaxFailures
  BY <1>2, <1>3, RecentThen
<1>5. \A a \in Addresses :
        /\ Recent(failures, a) \in Ages /\ Len(Recent(failures, a)) \in 0..MaxFailures
        /\ Younger(Recent(failures, a), Window) = Recent(failures, a)
        /\ InOrder(Recent(failures, a))
  <2> TAKE a \in Addresses
  <2>1. Recent(failures, a) \in Ages /\ Len(Recent(failures, a)) \in 0..MaxFailures
        /\ InOrder(Recent(failures, a))
    BY <1>1, RecentAre, AgesOfAre
  <2>2. \A i \in DOMAIN Recent(failures, a) : Recent(failures, a)[i] < Window
    BY <2>1, RecentAre, AgesAre
  <2> QED BY <2>1, <2>2, YoungStay
<1>6. \A a \in Addresses :
        /\ Younger(Aged(Recent(failures, a)), Window) \in Ages
        /\ Len(Younger(Aged(Recent(failures, a)), Window)) <= Len(Recent(failures, a))
        /\ Len(Younger(Aged(Recent(failures, a)), Window)) = Len(Recent(failures, a))
             => Younger(Aged(Recent(failures, a)), Window) = Aged(Recent(failures, a))
  <2> TAKE a \in Addresses
  <2>1. Aged(Recent(failures, a)) \in Ages /\ InOrder(Aged(Recent(failures, a)))
    BY <1>5, AgedAges
  <2> QED BY <1>5, <2>1, AgingCommutes, YoungerFilters
<1>7. ThrottleTypes'
  <2>1. guesses' \in [Addresses -> Ages]
    BY <1>1, <1>2, <1>6
  <2>2. promise' \in [Addresses -> Nat \cup {Absent}]
    BY <1>1, <1>2
  <2> QED BY <1>2, <1>3, <2>1, <2>2 DEF ThrottleTypes, GoodMap
<1>8. WindowBound'
  <2>1. \A a \in Addresses : Len(guesses'[a]) <= MaxFailures
    <3> TAKE a \in Addresses
    <3>1. guesses'[a] = Younger(Aged(Recent(failures, a)), Window)
      BY <1>1, <1>2
    <3>2. Len(guesses'[a]) \in Nat /\ Len(guesses'[a]) <= Len(Recent(failures, a))
      BY <1>6, <3>1, AgesAre
    <3> QED BY <1>5, <3>2, AccessAssumption
  <2> QED BY <1>1, <1>2, <1>3, <2>1 DEF WindowBound
<1>9. GuessesCounted'
  BY <1>1, <1>2, <1>4 DEF GuessesCounted
<1>10. PromisesKept'
  <2> SUFFICES ASSUME NEW a \in Addresses, promise'[a] \in Nat, Locked(a)'
               PROVE  promise'[a] + Recent(failures, a)'[1] >= Window
    BY DEF PromisesKept
  <2> DEFINE r == Recent(failures, a)
  <2>1. promise[a] \in Nat \ {0} /\ promise'[a] = promise[a] - 1
    BY <1>1, <1>2
  <2>2. Len(r) = MaxFailures /\ Recent(failures, a)' = Aged(r)
    <3>1. Len(Younger(Aged(r), Window)) \in Nat
      BY <1>6, AgesAre
    <3>2. Len(Younger(Aged(r), Window)) = Len(r) /\ Len(r) = MaxFailures
      BY <1>4, <1>5, <1>6, <3>1, AccessAssumption
    <3> QED BY <1>4, <1>6, <3>2
  <2>3. Locked(a) /\ 1 \in DOMAIN r /\ r[1] \in Nat /\ r[1] < Window
    BY <1>5, <2>2, RecentAre, AgesAre, AccessAssumption
  <2>4. Aged(r)[1] = r[1] + 1
    BY <1>5, <2>3, AgedAges DEF Older
  <2>5. promise[a] + r[1] >= Window
    BY <2>1, <2>3 DEF Throttled, PromisesKept
  <2> QED BY <2>1, <2>2, <2>3, <2>4, <2>5, AccessAssumption
<1> QED BY <1>7, <1>8, <1>9, <1>10 DEF Throttled

\* A throttle that holds nothing.
LEMMA FreshThrottle ==
  ASSUME failures = <<>>, guesses = [a \in Addresses |-> <<>>],
         promise = [a \in Addresses |-> Absent]
  PROVE  Throttled
<1>1. GoodMap(<<>>) /\ Len(<<>>) = 0
  BY DEF GoodMap
<1>2. \A a : ~Has(<<>>, a)
  BY DEF Has
<1>3. \A a : Recent(<<>>, a) = <<>>
  BY <1>1, <1>2, AgesOfAre
<1>4. ThrottleTypes
  BY <1>1, NoneStay DEF ThrottleTypes
<1>5. WindowBound
  BY <1>1, AccessAssumption DEF WindowBound
<1>6. GuessesCounted
  BY <1>3 DEF GuessesCounted
<1>7. PromisesKept
  BY AccessAssumption DEF PromisesKept
<1> QED BY <1>4, <1>5, <1>6, <1>7 DEF Throttled

\* So is what a restart leaves of the throttle.
LEMMA FreshThen ==
  ASSUME failures' = <<>>, guesses' = [a \in Addresses |-> <<>>],
         promise' = [a \in Addresses |-> Absent]
  PROVE  Throttled'
<1>1. GoodMap(<<>>) /\ Len(<<>>) = 0
  BY DEF GoodMap
<1>2. \A a : ~Has(<<>>, a)
  BY DEF Has
<1>3. \A a : Recent(failures, a)' = <<>>
  BY <1>1, <1>2, AgesOfAre, RecentThen
<1>4. ThrottleTypes'
  BY <1>1, NoneStay DEF ThrottleTypes, GoodMap
<1>5. WindowBound'
  BY <1>1, AccessAssumption DEF WindowBound
<1>6. GuessesCounted'
  BY <1>3 DEF GuessesCounted
<1>7. PromisesKept'
  BY AccessAssumption DEF PromisesKept
<1> QED BY <1>4, <1>5, <1>6, <1>7 DEF Throttled

\* A step that leaves the throttle alone keeps what is known of it.
LEMMA ThrottleStays ==
  ASSUME Throttled, UNCHANGED throttleVars
  PROVE  Throttled'
BY DEF Throttled, ThrottleTypes, GoodMap, WindowBound, GuessesCounted, PromisesKept, Locked,
       Recent, AgesOf, Has, PlaceOf, throttleVars

\* A promise that is kept is honest.
LEMMA RetryHolds == Throttled => RetryAfterIsHonest
<1> SUFFICES ASSUME Throttled, NEW a \in Addresses, promise[a] = 0, Locked(a) PROVE FALSE
  BY DEF RetryAfterIsHonest
<1>1. Recent(failures, a)[1] >= Window
  <2>1. promise[a] + Recent(failures, a)[1] >= Window
    BY DEF Throttled, PromisesKept
  <2>2. 1 \in 1..Len(Recent(failures, a))
    BY RecentAre, AccessAssumption
  <2> QED BY <2>1, <2>2, RecentAre
<1>2. Recent(failures, a)[1] < Window /\ Recent(failures, a)[1] \in Nat
  BY RecentAre, AccessAssumption
<1> QED BY <1>1, <1>2, AccessAssumption

\* The gateway starts in the invariant.
LEMMA AccessInitially == AccessInit => AccessInv
<1> SUFFICES ASSUME AccessInit PROVE AccessInv
  OBVIOUS
<1>1. Values
  BY AccessAssumption DEF AccessInit, Values
<1>2. TokenKept
  BY DEF AccessInit, TokenKept
<1>3. Throttled
  BY FreshThrottle DEF AccessInit
<1> QED BY <1>1, <1>2, <1>3 DEF AccessInv

\* What an answer makes of the set of requests.
LEMMA AnsweredKeeps ==
  ASSUME Values, NEW r \in net, NEW answer \in Answers, Answered(r, answer)
  PROVE  net' \subseteq [page : Screens, kind : {"status", "login", "poll", "logout"},
                         carried : Tokens \cup {Absent}, answer : Answers \cup {Absent}]
BY DEF Values, Answered

\* A request that is sent is one.
LEMMA SendKeeps ==
  ASSUME Values, NEW p \in Screens, NEW kind \in {"status", "login", "poll", "logout"},
         NEW carried \in Tokens \cup {Absent}, Send(p, kind, carried)
  PROVE  net' \subseteq [page : Screens, kind : {"status", "login", "poll", "logout"},
                         carried : Tokens \cup {Absent}, answer : Answers \cup {Absent}]
BY DEF Values, Send, Request

\* One step per action.
LEMMA OperatorKeeps ==
  ASSUME AccessInv, Operator
  PROVE  AccessInv'
<1> USE DEF AccessInv
<1>1. CASE \E f, v \in Tokens \cup {Absent} : Configure(f, v)
  <2>1. PICK f, v \in Tokens \cup {Absent} : Configure(f, v)
    BY <1>1
  <2>2. Values'
    BY <2>1 DEF Configure, Values, pageVars, throttleVars
  <2>3. TokenKept'
    BY <2>1 DEF Configure, TokenKept, Up, throttleVars, pageVars
  <2>4. Throttled'
    BY <2>1, ThrottleStays DEF Configure
  <2> QED BY <2>2, <2>3, <2>4
<1>2. CASE Boot
  <2>1. Values'
    BY <1>2 DEF Boot, Values, Resolved, configVars, pageVars
  <2>2. TokenKept'
    BY <1>2 DEF Boot, TokenKept, Up, Resolved, configVars
  <2>3. Throttled'
    BY <1>2, ThrottleStays DEF Boot
  <2> QED BY <2>1, <2>2, <2>3
<1>3. CASE \E k \in Tokens : Mint(k)
  <2>1. PICK k \in Tokens : Mint(k)
    BY <1>3
  <2>2. Values'
    BY <2>1, AccessAssumption DEF Mint, Values, Resolved, configVars, pageVars
  <2>3. TokenKept'
    BY <2>1 DEF Mint, TokenKept, Values, Up, Resolved, configVars
  <2>4. Throttled'
    BY <2>1, ThrottleStays DEF Mint
  <2> QED BY <2>2, <2>3, <2>4
<1>4. CASE Persist
  <2>1. Values'
    BY <1>4 DEF Persist, Values, pageVars
  <2>2. TokenKept'
    BY <1>4 DEF Persist, TokenKept, Values, Up
  <2>3. Throttled'
    BY <1>4, ThrottleStays DEF Persist
  <2> QED BY <2>1, <2>2, <2>3
<1>5. CASE GoDown
  <2>1. Values'
    <3>1. net' \subseteq [page : Screens, kind : {"status", "login", "poll", "logout"},
                          carried : Tokens \cup {Absent}, answer : Answers \cup {Absent}]
      BY <1>5 DEF GoDown, Values, Answers
    <3> QED BY <1>5, <3>1 DEF GoDown, Values, configVars
  <2>2. TokenKept'
    BY <1>5 DEF GoDown, TokenKept, Up, configVars
  <2>3. Throttled'
    BY <1>5, FreshThen DEF GoDown
  <2> QED BY <2>1, <2>2, <2>3
<1> QED BY <1>1, <1>2, <1>3, <1>4, <1>5 DEF Operator

\* The gateway answers a request.
LEMMA ServeKeeps ==
  ASSUME AccessInv, NEW r \in net, Serve(r)
  PROVE  AccessInv'
<1> DEFINE Net == [page : Screens, kind : {"status", "login", "poll", "logout"},
                   carried : Tokens \cup {Absent}, answer : Answers \cup {Absent}]
<1>1. /\ Values /\ TokenKept /\ Throttled /\ r \in Net
      /\ UNCHANGED <<configVars, bootVars, gate>>
  BY DEF AccessInv, Values, Serve
<1>2. TokenKept'
  BY <1>1 DEF TokenKept, Up, configVars, bootVars
<1>3. net' \subseteq Net /\ jar' \in Tokens \cup {Absent} /\ Throttled'
  <2>1. CASE r.kind \in {"status", "poll"}
    <3>1. /\ Answered(r, IF r.carried = token THEN "ok" ELSE "401")
          /\ UNCHANGED <<throttleVars, jar>>
      BY <2>1 DEF Serve
    <3>2. net' \subseteq Net
      BY <1>1, <3>1, AnsweredKeeps DEF Answers
    <3> QED BY <1>1, <3>1, <3>2, ThrottleStays DEF Values
  <2>2. CASE r.kind = "login"
    <3>1. /\ Judge(Browser, r.carried)
          /\ Answered(r, Verdict(Browser, r.carried))
          /\ jar' = IF Verdict(Browser, r.carried) = "ok" THEN r.carried ELSE jar
      BY <2>2 DEF Serve
    <3>2. Verdict(Browser, r.carried) \in Answers
      BY DEF Verdict, Answers
    <3>3. net' \subseteq Net
      BY <1>1, <3>1, <3>2, AnsweredKeeps
    <3>4. Throttled'
      BY <1>1, <3>1, JudgeKeeps, AccessAssumption
    <3> QED BY <1>1, <3>1, <3>3, <3>4 DEF Values
  <2>3. CASE r.kind = "logout"
    <3>1. Answered(r, "ok") /\ jar' = Absent /\ UNCHANGED throttleVars
      BY <2>3 DEF Serve
    <3>2. net' \subseteq Net
      BY <1>1, <3>1, AnsweredKeeps DEF Answers
    <3> QED BY <1>1, <3>1, <3>2, ThrottleStays
  <2> QED BY <1>1, <2>1, <2>2, <2>3
<1>4. Values'
  BY <1>1, <1>3 DEF Values, configVars, bootVars
<1> QED BY <1>2, <1>3, <1>4 DEF AccessInv

\* A page's step leaves the token and the throttle alone.
LEMMA PageStepKeeps ==
  ASSUME AccessInv, UNCHANGED <<configVars, bootVars, throttleVars>>,
         jar' \in Tokens \cup {Absent},
         gate' \in [Screens -> {"closed", "asking", "login", "app"}],
         net' \subseteq [page : Screens, kind : {"status", "login", "poll", "logout"},
                         carried : Tokens \cup {Absent}, answer : Answers \cup {Absent}]
  PROVE  AccessInv'
<1>1. Values'
  BY DEF AccessInv, Values, configVars, bootVars
<1>2. TokenKept'
  BY DEF AccessInv, TokenKept, Up, configVars, bootVars
<1>3. Throttled'
  BY ThrottleStays DEF AccessInv
<1> QED BY <1>1, <1>2, <1>3 DEF AccessInv

\* Every step keeps the invariant.
LEMMA AccessStep ==
  ASSUME AccessInv, [AccessNext]_accessVars
  PROVE  AccessInv'
<1> DEFINE Net == [page : Screens, kind : {"status", "login", "poll", "logout"},
                   carried : Tokens \cup {Absent}, answer : Answers \cup {Absent}]
           Gates == [Screens -> {"closed", "asking", "login", "app"}]
<1>0. /\ Values /\ TokenKept /\ Throttled
      /\ net \subseteq Net /\ gate \in Gates /\ jar \in Tokens \cup {Absent}
  BY DEF AccessInv, Values
<1>1. CASE Operator
  BY <1>1, OperatorKeeps
<1>2. CASE TimePasses
  <2>1. Values'
    BY <1>0, <1>2 DEF TimePasses, Values, configVars, bootVars, pageVars
  <2>2. TokenKept'
    BY <1>0, <1>2 DEF TimePasses, TokenKept, Up, configVars, bootVars
  <2>3. Throttled'
    BY <1>0, <1>2, TimePassesKeeps
  <2> QED BY <2>1, <2>2, <2>3 DEF AccessInv
<1>3. CASE \E a \in Addresses, k \in Tokens : LoginElsewhere(a, k)
  <2>1. PICK a \in Addresses, k \in Tokens : LoginElsewhere(a, k)
    BY <1>3
  <2>2. Values'
    BY <1>0, <2>1 DEF LoginElsewhere, Values, configVars, bootVars
  <2>3. TokenKept'
    BY <1>0, <2>1 DEF LoginElsewhere, TokenKept, Up, configVars, bootVars
  <2>4. Throttled'
    BY <1>0, <2>1, JudgeKeeps DEF LoginElsewhere
  <2> QED BY <2>2, <2>3, <2>4 DEF AccessInv
<1>4. CASE LogoutElsewhere
  BY <1>0, <1>4, PageStepKeeps DEF LogoutElsewhere
<1>5. ASSUME NEW p \in Screens, Load(p) PROVE AccessInv'
  <2>1. net' \subseteq Net
    BY <1>0, <1>5, SendKeeps DEF Load
  <2>2. gate' \in Gates
    BY <1>0, <1>5 DEF Load
  <2> QED BY <1>0, <1>5, <2>1, <2>2, PageStepKeeps DEF Load
<1>6. ASSUME NEW p \in Screens, PollSessions(p) \/ SignOut(p) PROVE AccessInv'
  <2>1. net' \subseteq Net
    BY <1>0, <1>6, SendKeeps DEF PollSessions, SignOut
  <2> QED BY <1>0, <1>6, <2>1, PageStepKeeps DEF PollSessions, SignOut
<1>7. ASSUME NEW p \in Screens, NEW k \in Tokens, SubmitToken(p, k) PROVE AccessInv'
  <2>1. net' \subseteq Net
    BY <1>0, <1>7, SendKeeps DEF SubmitToken
  <2> QED BY <1>0, <1>7, <2>1, PageStepKeeps DEF SubmitToken
<1>8. ASSUME NEW r \in net, Fails(r) PROVE AccessInv'
  <2>1. net' \subseteq Net
    BY <1>0, <1>8, AnsweredKeeps DEF Fails, Answers
  <2> QED BY <1>0, <1>8, <2>1, PageStepKeeps DEF Fails
<1>9. ASSUME NEW r \in net, Arrive(r) PROVE AccessInv'
  <2>1. r \in Net
    BY <1>0
  <2>2. After(r) \in {"closed", "asking", "login", "app"}
    BY <1>0, <2>1 DEF After
  <2>3. gate' \in Gates
    BY <1>0, <1>9, <2>2 DEF Arrive
  <2> QED BY <1>0, <1>9, <2>3, PageStepKeeps DEF Arrive
<1>10. CASE UNCHANGED accessVars
  BY <1>0, <1>10, PageStepKeeps DEF accessVars, pageVars
<1>11. ASSUME NEW r \in net, Serve(r) PROVE AccessInv'
  BY <1>11, ServeKeeps
<1> QED BY <1>1, <1>2, <1>3, <1>4, <1>5, <1>6, <1>7, <1>8, <1>9, <1>10, <1>11 DEF AccessNext

\* The invariant holds of every behaviour.
LEMMA AccessInvariant == AccessSpec => []AccessInv
<1>1. AccessInit => AccessInv
  BY AccessInitially
<1>2. AccessInv /\ [AccessNext]_accessVars => AccessInv'
  BY AccessStep
<1> QED BY <1>1, <1>2, PTL DEF AccessSpec

\* The types of the whole component, one entry of the throttle's map per address
\* (login-throttle.ts:20-58).
THEOREM AccessTypeCorrect == AccessSpec => []AccessTypeOK
BY AccessInvariant, AccessTypes, PTL

\* However failures, refusals, pruning, eviction and time are interleaved, no
\* address has more than MaxFailures wrong tokens compared in a window, and the map
\* stays below its cap (login-throttle.ts:12-45).
THEOREM GuessesAreBounded == AccessSpec => []WindowBound
<1>1. AccessInv => WindowBound
  BY DEF AccessInv, Throttled
<1> QED BY <1>1, AccessInvariant, PTL

\* Who has waited for Retry-After is not refused again (login-throttle.ts:27-37).
THEOREM RetryAfterIsEnough == AccessSpec => []RetryAfterIsHonest
<1>1. AccessInv => RetryAfterIsHonest
  BY RetryHolds DEF AccessInv
<1> QED BY <1>1, AccessInvariant, PTL

\* A printed token opens the gateway after every restart and crash, until somebody
\* configures another one (token.ts:66-84, main.ts:57).
THEOREM PrintedTokenStays == AccessSpec => []PrintedTokenLasts
<1>1. AccessInv => PrintedTokenLasts
  BY DEF AccessInv, TokenKept, PrintedTokenLasts
<1> QED BY <1>1, AccessInvariant, PTL

-----------------------------------------------------------------------------
(* The view: types.                                                        *)

PageOrNone   == Pages \cup {NoPage}
SocketOrNone == Sockets \cup {NoSocket}
Urls     == {"none", "blank", "site", "gone"}
TabLists == {<<>>} \cup UNION {[S -> Urls] : S \in SUBSET Pages}
Frames   == [page : PageOrNone, url : Urls]
Jobs     == [kind : {"join", "switch", "refresh", "stop"}, socket : SocketOrNone]
Pushes   == [to : SUBSET Sockets, read : BOOLEAN, list : TabLists]
Cuts     == [socket : SocketOrNone, page : PageOrNone, live : BOOLEAN, read : BOOLEAN]
Hubs ==
  [client : Nat, viewers : SUBSET Sockets, joined : SUBSET Sockets, jobs : Seq(Jobs),
   cast : PageOrNone, active : PageOrNone, wanted : PageOrNone, frame : Frames,
   watching : BOOLEAN, info : BOOLEAN, pushes : Seq(Pushes), cuts : Seq(Cuts),
   held : [Pages -> SocketOrNone], left : SUBSET Pages]
Views ==
  [link : PageOrNone, asked : PageOrNone, list : TabLists, tab : PageOrNone, image : Frames,
   waiting : BOOLEAN, holding : BOOLEAN, picked : BOOLEAN]
Said == [type : {"attach", "press", "letgo", "key", "cut", "close"}, page : PageOrNone]
Told ==
  [type : {"frame"}, frame : Frames] \cup [type : {"waiting"}]
    \cup [type : {"targets"}, list : TabLists, tab : PageOrNone] \cup [type : {"clipboard"}]

ViewerTypes ==
  /\ running \in BOOLEAN /\ client \in Nat \ {0}
  /\ url \in [Pages -> Urls]
  /\ hub \in Hubs
  /\ sock \in [Sockets -> {"new", "open", "closed"}]
  /\ up \in [Sockets -> Seq(Said)]
  /\ mine \in SocketOrNone
  /\ view \in Views
  /\ down \in Seq(Told)

-----------------------------------------------------------------------------
(* The jobs of a hub.                                                      *)

Queued(jobs, kinds) == \E i \in DOMAIN jobs : jobs[i].kind \in kinds

\* The view at m has not joined yet.
Awaits(jobs, m) == \E i \in DOMAIN jobs : jobs[i].kind = "join" /\ jobs[i].socket = m

\* Who joins is a viewer, once, and has not joined before.
JoinsOnce(h) ==
  /\ h.joined \subseteq h.viewers
  /\ \A i \in DOMAIN h.jobs : h.jobs[i].kind = "join" =>
       /\ h.jobs[i].socket \in h.viewers \ h.joined
       /\ \A j \in DOMAIN h.jobs :
            h.jobs[j].kind = "join" /\ h.jobs[j].socket = h.jobs[i].socket => i = j

\* No stop is queued behind job n, and none behind the join of m.
NoStopAfter(jobs, n) == \A i \in DOMAIN jobs : i > n => jobs[i].kind # "stop"
JoinStays(jobs, m) ==
  \A n \in DOMAIN jobs : jobs[n].kind = "join" /\ jobs[n].socket = m => NoStopAfter(jobs, n)

\* A hub without viewers casts nothing, or will stop when its jobs are done.
WillStop(jobs) == jobs # <<>> /\ jobs[Len(jobs)].kind = "stop"

\* What is cast is watched; without a cast there is no frame.  A button that is down
\* is in the page cast, or in one the cast has left.
CastRight(h) ==
  /\ h.cast # NoPage => h.watching /\ h.active = h.cast
  /\ h.cast = NoPage => h.frame = NoFrame
  /\ \A p \in Pages : h.held[p] # NoSocket /\ p \notin h.left => p = h.cast

\* Who drags in the page that is cast, since it is cast.
Dragger(h) ==
  IF h.cast # NoPage /\ h.cast \notin h.left THEN h.held[h.cast] ELSE NoSocket

\* What a queue of jobs keeps when its first is done.
LEMMA JobDone ==
  ASSUME NEW jobs \in Seq(Jobs), jobs # <<>>
  PROVE  /\ Head(jobs) \in Jobs /\ Tail(jobs) \in Seq(Jobs)
         /\ Head(jobs) = jobs[1] /\ 1 \in DOMAIN jobs
         /\ \A i \in DOMAIN Tail(jobs) : i + 1 \in DOMAIN jobs /\ Tail(jobs)[i] = jobs[i + 1]
         /\ \A i \in DOMAIN jobs : i # 1 => i - 1 \in DOMAIN Tail(jobs) /\ Tail(jobs)[i - 1] = jobs[i]
         /\ \A kinds : Queued(jobs, kinds) => Queued(Tail(jobs), kinds) \/ Head(jobs).kind \in kinds
         /\ \A m : Awaits(jobs, m) =>
              Awaits(Tail(jobs), m) \/ (Head(jobs).kind = "join" /\ Head(jobs).socket = m)
         /\ NoStopAfter(jobs, 0) => NoStopAfter(Tail(jobs), 0)
         /\ \A m : JoinStays(jobs, m) =>
              /\ JoinStays(Tail(jobs), m)
              /\ Head(jobs).kind = "join" /\ Head(jobs).socket = m => NoStopAfter(Tail(jobs), 0)
         /\ WillStop(jobs) => WillStop(Tail(jobs)) \/ (Tail(jobs) = <<>> /\ Head(jobs).kind = "stop")
<1> DEFINE t == Tail(jobs)
<1>1. /\ Len(jobs) \in Nat \ {0} /\ DOMAIN jobs = 1..Len(jobs)
      /\ Head(jobs) = jobs[1] /\ Head(jobs) \in Jobs /\ t \in Seq(Jobs)
      /\ Len(t) = Len(jobs) - 1 /\ \A i \in 1..Len(t) : t[i] = jobs[i + 1]
  BY HeadTailProperties
<1>2. DOMAIN t = 1..Len(jobs) - 1
  BY <1>1
<1> HIDE DEF t
<1>3. \A i \in DOMAIN t : i + 1 \in DOMAIN jobs /\ t[i] = jobs[i + 1] /\ i \in Nat
  BY <1>1, <1>2
<1>4. \A i \in DOMAIN jobs : i \in Nat /\ (i # 1 => i - 1 \in DOMAIN t /\ t[i - 1] = jobs[i])
  <2> TAKE i \in DOMAIN jobs
  <2> DEFINE k == i - 1
  <2>1. i \in Nat /\ (i # 1 => k \in DOMAIN t /\ k + 1 = i)
    BY <1>1, <1>2
  <2> HIDE DEF k
  <2>2. i # 1 => t[k] = jobs[i]
    BY <1>3, <2>1
  <2> QED BY <2>1, <2>2 DEF k
<1>5. \A kinds : Queued(jobs, kinds) => Queued(t, kinds) \/ Head(jobs).kind \in kinds
  BY <1>1, <1>4 DEF Queued
<1>6. \A m : Awaits(jobs, m) => Awaits(t, m) \/ (Head(jobs).kind = "join" /\ Head(jobs).socket = m)
  <2> SUFFICES ASSUME NEW m, NEW i \in DOMAIN jobs, jobs[i].kind = "join", jobs[i].socket = m,
                      ~(Head(jobs).kind = "join" /\ Head(jobs).socket = m)
               PROVE  Awaits(t, m)
    BY SMT DEF Awaits
  <2>1. i - 1 \in DOMAIN t /\ t[i - 1] = jobs[i]
    BY <1>1, <1>4
  <2> QED BY <2>1 DEF Awaits
<1>7. \A n \in Nat : NoStopAfter(jobs, n + 1) => NoStopAfter(t, n)
  BY <1>3 DEF NoStopAfter
<1>8. NoStopAfter(jobs, 0) => NoStopAfter(t, 0)
  BY <1>3 DEF NoStopAfter
<1>9. ASSUME NEW m, JoinStays(jobs, m)
      PROVE  /\ JoinStays(t, m)
             /\ Head(jobs).kind = "join" /\ Head(jobs).socket = m => NoStopAfter(t, 0)
  <2>1. JoinStays(t, m)
    BY <1>3, <1>7, <1>9 DEF JoinStays
  <2>2. 1 \in DOMAIN jobs /\ 0 + 1 = 1
    BY <1>1
  <2> QED BY <1>1, <1>7, <1>9, <2>1, <2>2 DEF JoinStays
<1>10. ASSUME WillStop(jobs)
       PROVE  WillStop(t) \/ (t = <<>> /\ Head(jobs).kind = "stop")
  <2>1. CASE Len(jobs) = 1
    BY <1>1, <1>10, <2>1 DEF WillStop
  <2>2. CASE Len(jobs) # 1
    <3>1. Len(t) \in 1..Len(t) /\ Len(t) + 1 = Len(jobs) /\ Len(t) # 0
      BY <1>1, <2>2
    <3>2. t # <<>>
      BY <3>1
    <3>3. t[Len(t)] = jobs[Len(t) + 1]
      BY <1>1, <3>1
    <3>4. t[Len(t)] = jobs[Len(jobs)]
      BY <3>1, <3>3
    <3> QED BY <1>10, <3>2, <3>4 DEF WillStop
  <2> QED BY <2>1, <2>2
<1>11. 1 \in DOMAIN jobs
  BY <1>1
<1> QED BY <1>1, <1>3, <1>4, <1>5, <1>6, <1>8, <1>9, <1>10, <1>11 DEF t

\* What a queue of jobs keeps when one is added.
LEMMA JobAdded ==
  ASSUME NEW jobs \in Seq(Jobs), NEW j \in Jobs
  PROVE  LET more == Append(jobs, j) IN
         /\ more \in Seq(Jobs) /\ more # <<>> /\ more[Len(more)] = j
         /\ \A i \in DOMAIN jobs : i \in DOMAIN more /\ more[i] = jobs[i]
         /\ \A i \in DOMAIN more : i \in DOMAIN jobs \/ (more[i] = j /\ i = Len(jobs) + 1)
         /\ \A kinds : Queued(jobs, kinds) \/ j.kind \in kinds => Queued(more, kinds)
         /\ \A m : Awaits(jobs, m) \/ (j.kind = "join" /\ j.socket = m) => Awaits(more, m)
         /\ j.kind # "stop" /\ NoStopAfter(jobs, 0) => NoStopAfter(more, 0)
         /\ \A m : j.kind # "stop" /\ JoinStays(jobs, m) => JoinStays(more, m)
         /\ j.kind = "stop" => WillStop(more)
<1> DEFINE more == Append(jobs, j)
<1>1. /\ Len(jobs) \in Nat /\ DOMAIN jobs = 1..Len(jobs)
      /\ more \in Seq(Jobs) /\ Len(more) = Len(jobs) + 1 /\ more[Len(jobs) + 1] = j
      /\ \A i \in 1..Len(jobs) : more[i] = jobs[i]
  BY AppendProperties
<1>2. DOMAIN more = 1..Len(jobs) + 1
  BY <1>1
<1>3. more # <<>>
  BY <1>1
<1> HIDE DEF more
<1>4. /\ \A i \in DOMAIN jobs : i \in DOMAIN more /\ more[i] = jobs[i]
      /\ \A i \in DOMAIN more : i \in Nat /\ (i \in DOMAIN jobs \/ (more[i] = j /\ i = Len(jobs) + 1))
      /\ Len(more) \in DOMAIN more
  <2>1. \A i \in DOMAIN jobs : i \in DOMAIN more /\ more[i] = jobs[i]
    BY <1>1, <1>2
  <2>2. \A i \in DOMAIN more : i \in Nat /\ (i \in DOMAIN jobs \/ i = Len(jobs) + 1)
    BY <1>1, <1>2
  <2>3. Len(more) \in DOMAIN more
    BY <1>1, <1>2
  <2>4. \A i \in DOMAIN more : i = Len(jobs) + 1 => more[i] = j
    BY <1>1
  <2> QED BY <2>1, <2>2, <2>3, <2>4
<1>5. \A kinds : Queued(jobs, kinds) \/ j.kind \in kinds => Queued(more, kinds)
  BY <1>1, <1>4 DEF Queued
<1>6. \A m : Awaits(jobs, m) \/ (j.kind = "join" /\ j.socket = m) => Awaits(more, m)
  BY <1>1, <1>4 DEF Awaits
<1>7. \A n : j.kind # "stop" /\ NoStopAfter(jobs, n) => NoStopAfter(more, n)
  BY <1>4 DEF NoStopAfter
<1>8. ASSUME NEW m, j.kind # "stop", JoinStays(jobs, m) PROVE JoinStays(more, m)
  <2> SUFFICES ASSUME NEW n \in DOMAIN more, more[n].kind = "join", more[n].socket = m
               PROVE  NoStopAfter(more, n)
    BY DEF JoinStays
  <2>1. CASE n \in DOMAIN jobs
    BY <1>4, <1>7, <1>8, <2>1 DEF JoinStays
  <2>2. CASE n = Len(jobs) + 1
    BY <1>1, <1>2, <2>2 DEF NoStopAfter
  <2> QED BY <1>4, <2>1, <2>2
<1>9. j.kind = "stop" => WillStop(more)
  BY <1>1, <1>3 DEF WillStop
<1> QED BY <1>1, <1>3, <1>4, <1>5, <1>6, <1>7, <1>8, <1>9 DEF more

-----------------------------------------------------------------------------
(* The lists that are on their way to a viewer.                            *)

\* The last push for m has yet to read, or has read the list l.
LastPush(pushes, m, i) ==
  m \in pushes[i].to /\ \A j \in DOMAIN pushes : j > i => m \notin pushes[j].to
WillPush(pushes, m, l) ==
  \E i \in DOMAIN pushes :
    LastPush(pushes, m, i) /\ (pushes[i].read => pushes[i].list = l)
Pushing(pushes, m) == \E i \in DOMAIN pushes : m \in pushes[i].to

\* A push that is added will read, and is the last for its viewers.
LEMMA PushAdded ==
  ASSUME NEW pushes \in Seq(Pushes), NEW p \in Pushes
  PROVE  LET more == Append(pushes, p) IN
         /\ more \in Seq(Pushes)
         /\ \A m : Pushing(more, m) <=> Pushing(pushes, m) \/ m \in p.to
         /\ \A m, l : m \in p.to /\ ~p.read => WillPush(more, m, l)
         /\ \A m, l : m \notin p.to /\ WillPush(pushes, m, l) => WillPush(more, m, l)
<1> DEFINE more == Append(pushes, p)
<1>1. /\ Len(pushes) \in Nat /\ DOMAIN pushes = 1..Len(pushes)
      /\ more \in Seq(Pushes) /\ Len(more) = Len(pushes) + 1 /\ more[Len(pushes) + 1] = p
      /\ \A i \in 1..Len(pushes) : more[i] = pushes[i]
  BY AppendProperties
<1>2. DOMAIN more = 1..Len(pushes) + 1
  BY <1>1
<1> HIDE DEF more
<1>3. \A i \in DOMAIN pushes : i \in DOMAIN more /\ more[i] = pushes[i]
  BY <1>1, <1>2
<1>4. \A i \in DOMAIN more : i \in Nat /\ (i \in DOMAIN pushes \/ i = Len(pushes) + 1)
  BY <1>1, <1>2
<1>5. Len(pushes) + 1 \in DOMAIN more
  BY <1>1, <1>2
<1>6. \A m : Pushing(more, m) <=> Pushing(pushes, m) \/ m \in p.to
  BY <1>1, <1>3, <1>4, <1>5 DEF Pushing
<1>7. ASSUME NEW m, NEW l, m \in p.to, ~p.read PROVE WillPush(more, m, l)
  <2>1. \A j \in DOMAIN more : ~(j > Len(pushes) + 1)
    BY <1>1, <1>2
  <2>2. LastPush(more, m, Len(pushes) + 1)
    BY <1>1, <1>7, <2>1 DEF LastPush
  <2> QED BY <1>1, <1>5, <1>7, <2>2 DEF WillPush
<1>8. ASSUME NEW m, NEW l, m \notin p.to, WillPush(pushes, m, l) PROVE WillPush(more, m, l)
  <2>1. PICK i \in DOMAIN pushes :
          LastPush(pushes, m, i) /\ (pushes[i].read => pushes[i].list = l)
    BY <1>8 DEF WillPush
  <2>2. ASSUME NEW j \in DOMAIN more, j > i PROVE m \notin more[j].to
    <3>1. CASE j \in DOMAIN pushes
      BY <1>3, <2>1, <2>2, <3>1 DEF LastPush
    <3>2. CASE j = Len(pushes) + 1
      BY <1>1, <1>8, <3>2
    <3> QED BY <1>4, <3>1, <3>2
  <2>3. LastPush(more, m, i)
    BY <1>3, <2>1, <2>2 DEF LastPush
  <2> QED BY <1>3, <2>1, <2>3 DEF WillPush
<1> QED BY <1>1, <1>6, <1>7, <1>8 DEF more

\* When the first push is done, the last for a viewer is still to come, or was it.
LEMMA PushDone ==
  ASSUME NEW pushes \in Seq(Pushes), pushes # <<>>
  PROVE  /\ Head(pushes) \in Pushes /\ Tail(pushes) \in Seq(Pushes)
         /\ \A m : Pushing(pushes, m) <=> Pushing(Tail(pushes), m) \/ m \in Head(pushes).to
         /\ \A m, l : WillPush(pushes, m, l) =>
              \/ WillPush(Tail(pushes), m, l)
              \/ /\ m \in Head(pushes).to /\ ~Pushing(Tail(pushes), m)
                 /\ Head(pushes).read => Head(pushes).list = l
<1> DEFINE t == Tail(pushes)
<1>1. /\ Len(pushes) \in Nat \ {0} /\ DOMAIN pushes = 1..Len(pushes)
      /\ Head(pushes) = pushes[1] /\ Head(pushes) \in Pushes /\ t \in Seq(Pushes)
      /\ Len(t) = Len(pushes) - 1 /\ \A i \in 1..Len(t) : t[i] = pushes[i + 1]
  BY HeadTailProperties
<1>2. DOMAIN t = 1..Len(pushes) - 1
  BY <1>1
<1> HIDE DEF t
<1>3. \A i \in DOMAIN t : i + 1 \in DOMAIN pushes /\ t[i] = pushes[i + 1] /\ i \in Nat
  BY <1>1, <1>2
<1>4. ASSUME NEW i \in DOMAIN pushes, i # 1
      PROVE  \E k \in DOMAIN t : k + 1 = i /\ k \in Nat /\ t[k] = pushes[i]
  <2>1. i - 1 \in DOMAIN t /\ (i - 1) + 1 = i /\ i - 1 \in Nat
    BY <1>1, <1>2, <1>4
  <2> QED BY <1>3, <2>1
<1>5. \A m : Pushing(pushes, m) <=> Pushing(t, m) \/ m \in Head(pushes).to
  <2>1. 1 \in DOMAIN pushes
    BY <1>1
  <2> QED BY <1>1, <1>3, <1>4, <2>1 DEF Pushing
<1>6. ASSUME NEW m, NEW l, WillPush(pushes, m, l)
      PROVE  \/ WillPush(t, m, l)
             \/ /\ m \in Head(pushes).to /\ ~Pushing(t, m)
                /\ Head(pushes).read => Head(pushes).list = l
  <2>1. PICK i \in DOMAIN pushes :
          LastPush(pushes, m, i) /\ (pushes[i].read => pushes[i].list = l)
    BY <1>6 DEF WillPush
  <2>2. CASE i = 1
    <3>1. \A k \in DOMAIN t : m \notin t[k].to
      <4> TAKE k \in DOMAIN t
      <4>1. k + 1 \in DOMAIN pushes /\ t[k] = pushes[k + 1] /\ k + 1 > 1
        BY <1>1, <1>2, <1>3
      <4> QED BY <2>1, <2>2, <4>1 DEF LastPush
    <3> QED BY <1>1, <2>1, <2>2, <3>1 DEF LastPush, Pushing
  <2>3. CASE i # 1
    <3>1. PICK k \in DOMAIN t : k + 1 = i /\ k \in Nat /\ t[k] = pushes[i]
      BY <1>4, <2>3
    <3>2. \A j \in DOMAIN t : j > k => m \notin t[j].to
      <4> SUFFICES ASSUME NEW j \in DOMAIN t, j > k PROVE m \notin t[j].to
        OBVIOUS
      <4>1. j + 1 \in DOMAIN pushes /\ t[j] = pushes[j + 1] /\ j + 1 > i
        BY <1>3, <3>1
      <4> QED BY <2>1, <4>1 DEF LastPush
    <3> QED BY <2>1, <3>1, <3>2 DEF WillPush, LastPush
  <2> QED BY <2>2, <2>3
<1> QED BY <1>1, <1>5, <1>6 DEF t

\* Reading the list makes a push no worse for anybody.
LEMMA PushReads ==
  ASSUME NEW pushes \in Seq(Pushes), NEW i \in DOMAIN pushes, NEW l \in TabLists
  PROVE  LET more == [pushes EXCEPT ![i] = [@ EXCEPT !.read = TRUE, !.list = l]] IN
         /\ more \in Seq(Pushes)
         /\ \A m : Pushing(more, m) <=> Pushing(pushes, m)
         /\ \A m : WillPush(pushes, m, l) => WillPush(more, m, l)
<1> DEFINE more == [pushes EXCEPT ![i] = [@ EXCEPT !.read = TRUE, !.list = l]]
<1>1. Len(pushes) \in Nat /\ DOMAIN pushes = 1..Len(pushes) /\ pushes \in [1..Len(pushes) -> Pushes]
  BY SeqDef
<1>2. \A j \in DOMAIN pushes : pushes[j] \in Pushes
  BY <1>1
<1>3. [pushes[i] EXCEPT !.read = TRUE, !.list = l] \in Pushes
  BY <1>2 DEF Pushes
<1>4. more \in [1..Len(pushes) -> Pushes] /\ DOMAIN more = DOMAIN pushes
  BY <1>1, <1>3
<1>5. more \in Seq(Pushes)
  BY <1>1, <1>4, SeqDef
<1>6. \A j \in DOMAIN pushes :
        /\ more[j].to = pushes[j].to
        /\ j = i => more[j].list = l
        /\ j # i => more[j] = pushes[j]
  BY <1>2, <1>3 DEF Pushes
<1> HIDE DEF more
<1>7. \A m : Pushing(more, m) <=> Pushing(pushes, m)
  BY <1>4, <1>6 DEF Pushing
<1>8. \A m, j : j \in DOMAIN pushes /\ LastPush(pushes, m, j) => LastPush(more, m, j)
  BY <1>4, <1>6 DEF LastPush
<1>9. \A m : WillPush(pushes, m, l) => WillPush(more, m, l)
  BY <1>4, <1>6, <1>8 DEF WillPush
<1> QED BY <1>5, <1>7, <1>9 DEF more

-----------------------------------------------------------------------------
(* What the view will show when it has read what is on its way.            *)

Silent(msgs, types) == \A i \in DOMAIN msgs : msgs[i].type \notin types
IsLast(msgs, types, i) ==
  msgs[i].type \in types /\ \A j \in DOMAIN msgs : j > i => msgs[j].type \notin types

ListMsg  == {"targets"}
ImageMsg == {"frame", "waiting"}

WillList(msgs, v, l) ==
  /\ Silent(msgs, ListMsg) => v.list = l
  /\ \A i \in DOMAIN msgs : IsLast(msgs, ListMsg, i) => msgs[i].list = l
WillMark(msgs, v, p) ==
  /\ Silent(msgs, ListMsg) => v.tab = p
  /\ \A i \in DOMAIN msgs : IsLast(msgs, ListMsg, i) => msgs[i].tab = p
WillShow(msgs, v, f) ==
  /\ Silent(msgs, ImageMsg) => v.image = f /\ ~v.waiting
  /\ \A i \in DOMAIN msgs : IsLast(msgs, ImageMsg, i) => msgs[i] = Frame(f)
WillWait(msgs, v) ==
  /\ Silent(msgs, ImageMsg) => v.waiting
  /\ \A i \in DOMAIN msgs : IsLast(msgs, ImageMsg, i) => msgs[i].type = "waiting"

\* The last message of some types, when one is added.
LEMMA LastAdded ==
  ASSUME NEW msgs \in Seq(Told), NEW e \in Told, NEW types
  PROVE  LET more == Append(msgs, e) IN
         /\ more \in Seq(Told)
         /\ Silent(more, types) => Silent(msgs, types) /\ e.type \notin types
         /\ \A i \in DOMAIN more : IsLast(more, types, i) =>
              IF e.type \in types THEN more[i] = e
              ELSE i \in DOMAIN msgs /\ more[i] = msgs[i] /\ IsLast(msgs, types, i)
<1> DEFINE more == Append(msgs, e)
<1>1. /\ Len(msgs) \in Nat /\ DOMAIN msgs = 1..Len(msgs)
      /\ more \in Seq(Told) /\ Len(more) = Len(msgs) + 1 /\ more[Len(msgs) + 1] = e
      /\ \A i \in 1..Len(msgs) : more[i] = msgs[i]
  BY AppendProperties
<1>2. DOMAIN more = 1..Len(msgs) + 1
  BY <1>1
<1> HIDE DEF more
<1>3. \A i \in DOMAIN msgs : i \in DOMAIN more /\ more[i] = msgs[i] /\ Len(msgs) + 1 > i
  BY <1>1, <1>2
<1>4. \A i \in DOMAIN more : i \in DOMAIN msgs \/ i = Len(msgs) + 1
  BY <1>1, <1>2
<1>5. Len(msgs) + 1 \in DOMAIN more
  BY <1>1, <1>2
<1>6. Silent(more, types) => Silent(msgs, types) /\ e.type \notin types
  BY <1>1, <1>3, <1>5 DEF Silent
<1>7. ASSUME NEW i \in DOMAIN more, IsLast(more, types, i)
      PROVE  IF e.type \in types THEN more[i] = e
             ELSE i \in DOMAIN msgs /\ more[i] = msgs[i] /\ IsLast(msgs, types, i)
  <2>1. CASE i = Len(msgs) + 1
    BY <1>1, <1>7, <2>1 DEF IsLast
  <2>2. CASE i \in DOMAIN msgs
    <3>1. e.type \notin types
      BY <1>1, <1>3, <1>5, <1>7, <2>2 DEF IsLast
    <3>2. IsLast(msgs, types, i)
      BY <1>3, <1>7, <2>2 DEF IsLast
    <3> QED BY <1>3, <2>2, <3>1, <3>2
  <2> QED BY <1>4, <2>1, <2>2
<1> QED BY <1>1, <1>6, <1>7 DEF more

\* The last message of some types, when the first is read.
LEMMA LastRead ==
  ASSUME NEW msgs \in Seq(Told), msgs # <<>>, NEW types
  PROVE  /\ Tail(msgs) \in Seq(Told) /\ Head(msgs) \in Told
         /\ Silent(Tail(msgs), types) =>
              IF Head(msgs).type \in types
              THEN \E i \in DOMAIN msgs : IsLast(msgs, types, i) /\ msgs[i] = Head(msgs)
              ELSE Silent(msgs, types)
         /\ \A i \in DOMAIN Tail(msgs) : IsLast(Tail(msgs), types, i) =>
              \E j \in DOMAIN msgs : IsLast(msgs, types, j) /\ msgs[j] = Tail(msgs)[i]
<1> DEFINE t == Tail(msgs)
<1>1. /\ Len(msgs) \in Nat \ {0} /\ DOMAIN msgs = 1..Len(msgs)
      /\ Head(msgs) = msgs[1] /\ Head(msgs) \in Told /\ t \in Seq(Told)
      /\ Len(t) = Len(msgs) - 1 /\ \A i \in 1..Len(t) : t[i] = msgs[i + 1]
  BY HeadTailProperties
<1>2. DOMAIN t = 1..Len(msgs) - 1
  BY <1>1
<1> HIDE DEF t
<1>3. \A i \in DOMAIN t : i + 1 \in DOMAIN msgs /\ t[i] = msgs[i + 1] /\ i \in Nat
  BY <1>1, <1>2
<1>4. ASSUME NEW i \in DOMAIN msgs, i # 1
      PROVE  \E k \in DOMAIN t : k + 1 = i /\ k \in Nat /\ t[k] = msgs[i]
  <2>1. i - 1 \in DOMAIN t /\ (i - 1) + 1 = i /\ i - 1 \in Nat
    BY <1>1, <1>2, <1>4
  <2> QED BY <1>3, <2>1
<1>5. 1 \in DOMAIN msgs /\ \A i \in DOMAIN msgs : i > 1 => i # 1
  BY <1>1
<1>6. ASSUME Silent(t, types)
      PROVE  IF Head(msgs).type \in types
             THEN \E i \in DOMAIN msgs : IsLast(msgs, types, i) /\ msgs[i] = Head(msgs)
             ELSE Silent(msgs, types)
  <2>1. \A i \in DOMAIN msgs : i # 1 => msgs[i].type \notin types
    BY <1>4, <1>6 DEF Silent
  <2>2. CASE Head(msgs).type \in types
    BY <1>1, <1>5, <2>1, <2>2 DEF IsLast
  <2>3. CASE Head(msgs).type \notin types
    BY <1>1, <2>1, <2>3 DEF Silent
  <2> QED BY <2>2, <2>3
<1>7. ASSUME NEW i \in DOMAIN t, IsLast(t, types, i)
      PROVE  \E j \in DOMAIN msgs : IsLast(msgs, types, j) /\ msgs[j] = t[i]
  <2>1. i + 1 \in DOMAIN msgs /\ t[i] = msgs[i + 1] /\ i \in Nat
    BY <1>3
  <2>2. ASSUME NEW j \in DOMAIN msgs, j > i + 1 PROVE msgs[j].type \notin types
    <3>1. j # 1
      BY <2>1, <2>2
    <3>2. PICK k \in DOMAIN t : k + 1 = j /\ k \in Nat /\ t[k] = msgs[j]
      BY <1>4, <3>1
    <3>3. k > i
      BY <2>1, <2>2, <3>2
    <3> QED BY <1>7, <3>2, <3>3 DEF IsLast
  <2>3. IsLast(msgs, types, i + 1)
    BY <1>7, <2>1, <2>2 DEF IsLast
  <2> QED BY <2>1, <2>3
<1> QED BY <1>1, <1>6, <1>7 DEF t

\* What the view will show when one more message is on its way.
LEMMA ToldMore ==
  ASSUME NEW msgs \in Seq(Told), NEW e \in Told, NEW v
  PROVE  LET more == Append(msgs, e) IN
         /\ more \in Seq(Told)
         /\ e.type = "targets" => WillList(more, v, e.list) /\ WillMark(more, v, e.tab)
         /\ e.type # "targets" =>
              /\ \A l : WillList(msgs, v, l) => WillList(more, v, l)
              /\ \A p : WillMark(msgs, v, p) => WillMark(more, v, p)
         /\ \A f : e = Frame(f) => WillShow(more, v, f)
         /\ e.type = "waiting" => WillWait(more, v)
         /\ e.type \notin ImageMsg =>
              /\ \A f : WillShow(msgs, v, f) => WillShow(more, v, f)
              /\ WillWait(msgs, v) => WillWait(more, v)
<1> DEFINE more == Append(msgs, e)
<1>1. \A types :
         /\ more \in Seq(Told)
         /\ Silent(more, types) => Silent(msgs, types) /\ e.type \notin types
         /\ \A i \in DOMAIN more : IsLast(more, types, i) =>
              IF e.type \in types THEN more[i] = e
              ELSE i \in DOMAIN msgs /\ more[i] = msgs[i] /\ IsLast(msgs, types, i)
  BY LastAdded
<1> HIDE DEF more
<1>2. e.type = "targets" => WillList(more, v, e.list) /\ WillMark(more, v, e.tab)
  BY <1>1 DEF WillList, WillMark, ListMsg
<1>3. e.type # "targets" =>
        /\ \A l : WillList(msgs, v, l) => WillList(more, v, l)
        /\ \A p : WillMark(msgs, v, p) => WillMark(more, v, p)
  BY <1>1 DEF WillList, WillMark, ListMsg
<1>4. \A f : e = Frame(f) => WillShow(more, v, f)
  BY <1>1 DEF WillShow, ImageMsg, Frame
<1>5. e.type = "waiting" => WillWait(more, v)
  BY <1>1 DEF WillWait, ImageMsg
<1>6. e.type \notin ImageMsg =>
        /\ \A f : WillShow(msgs, v, f) => WillShow(more, v, f)
        /\ WillWait(msgs, v) => WillWait(more, v)
  BY <1>1 DEF WillShow, WillWait
<1> QED BY <1>1, <1>2, <1>3, <1>4, <1>5, <1>6 DEF more

\* Reading a message changes nothing in what the view will show.
LEMMA ToldRead ==
  ASSUME NEW msgs \in Seq(Told), msgs # <<>>, NEW v, NEW w,
         Head(msgs).type = "targets" => w.list = Head(msgs).list /\ w.tab = Head(msgs).tab,
         Head(msgs).type # "targets" => w.list = v.list /\ w.tab = v.tab,
         Head(msgs).type = "frame" => w.image = Head(msgs).frame /\ w.waiting = FALSE,
         Head(msgs).type = "waiting" => w.waiting = TRUE,
         Head(msgs).type \notin ImageMsg => w.image = v.image /\ w.waiting = v.waiting
  PROVE  /\ Tail(msgs) \in Seq(Told)
         /\ \A l : WillList(msgs, v, l) => WillList(Tail(msgs), w, l)
         /\ \A p : WillMark(msgs, v, p) => WillMark(Tail(msgs), w, p)
         /\ \A f : WillShow(msgs, v, f) => WillShow(Tail(msgs), w, f)
         /\ WillWait(msgs, v) => WillWait(Tail(msgs), w)
<1> DEFINE t == Tail(msgs)  e == Head(msgs)
<1>1. \A types :
         /\ t \in Seq(Told)
         /\ Silent(t, types) =>
              IF e.type \in types
              THEN \E i \in DOMAIN msgs : IsLast(msgs, types, i) /\ msgs[i] = e
              ELSE Silent(msgs, types)
         /\ \A i \in DOMAIN t : IsLast(t, types, i) =>
              \E j \in DOMAIN msgs : IsLast(msgs, types, j) /\ msgs[j] = t[i]
  <2>1. ASSUME NEW types
        PROVE  /\ Tail(msgs) \in Seq(Told) /\ Head(msgs) \in Told
               /\ Silent(Tail(msgs), types) =>
                    IF Head(msgs).type \in types
                    THEN \E i \in DOMAIN msgs : IsLast(msgs, types, i) /\ msgs[i] = Head(msgs)
                    ELSE Silent(msgs, types)
               /\ \A i \in DOMAIN Tail(msgs) : IsLast(Tail(msgs), types, i) =>
                    \E j \in DOMAIN msgs : IsLast(msgs, types, j) /\ msgs[j] = Tail(msgs)[i]
    BY LastRead
  <2> QED BY <2>1
<1> HIDE DEF t, e
<1>2. \A l : WillList(msgs, v, l) => WillList(t, w, l)
  BY <1>1 DEF WillList, ListMsg, e
<1>3. \A p : WillMark(msgs, v, p) => WillMark(t, w, p)
  BY <1>1 DEF WillMark, ListMsg, e
<1>4. \A f : WillShow(msgs, v, f) => WillShow(t, w, f)
  <2> SUFFICES ASSUME NEW f, WillShow(msgs, v, f) PROVE WillShow(t, w, f)
    OBVIOUS
  <2>1. \A i \in DOMAIN t : IsLast(t, ImageMsg, i) => t[i] = Frame(f)
    BY <1>1 DEF WillShow
  <2>2. ASSUME Silent(t, ImageMsg) PROVE w.image = f /\ ~w.waiting
    <3>1. CASE e.type \in ImageMsg
      <4>1. e = Frame(f)
        BY <1>1, <2>2, <3>1 DEF WillShow
      <4>2. e.type = "frame" /\ e.frame = f
        BY <4>1 DEF Frame
      <4> QED BY <4>2 DEF e
    <3>2. CASE e.type \notin ImageMsg
      BY <1>1, <2>2, <3>2 DEF WillShow, e
    <3> QED BY <3>1, <3>2
  <2> QED BY <2>1, <2>2 DEF WillShow
<1>5. WillWait(msgs, v) => WillWait(t, w)
  <2> SUFFICES ASSUME WillWait(msgs, v) PROVE WillWait(t, w)
    OBVIOUS
  <2>1. \A i \in DOMAIN t : IsLast(t, ImageMsg, i) => t[i].type = "waiting"
    BY <1>1 DEF WillWait
  <2>2. ASSUME Silent(t, ImageMsg) PROVE w.waiting
    <3>1. CASE e.type \in ImageMsg
      <4>1. e.type = "waiting"
        BY <1>1, <2>2, <3>1 DEF WillWait
      <4> QED BY <4>1 DEF e
    <3>2. CASE e.type \notin ImageMsg
      BY <1>1, <2>2, <3>2 DEF WillWait, e
    <3> QED BY <3>1, <3>2
  <2> QED BY <2>1, <2>2 DEF WillWait
<1> QED BY <1>1, <1>2, <1>3, <1>4, <1>5 DEF t, e

-----------------------------------------------------------------------------
(* The operations of a hub.                                                *)

SamePicture(g, h) ==
  /\ g.cast = h.cast /\ g.active = h.active /\ g.frame = h.frame
  /\ g.watching = h.watching /\ g.info = h.info
SameCast(g, h) ==
  /\ g.cast = h.cast /\ g.active = h.active /\ g.frame = h.frame
  /\ g.watching = h.watching /\ g.info = h.info
  /\ g.held = h.held /\ g.left = h.left
SameCrowd(g, h) == g.client = h.client /\ g.viewers = h.viewers /\ g.joined = h.joined

\* Taking a job out of the queue changes nothing else.
LEMMA RanIs ==
  ASSUME NEW h \in Hubs, h.jobs # <<>>
  PROVE  /\ Ran(h) \in Hubs /\ Ran(h).jobs = Tail(h.jobs) /\ Ran(h).pushes = h.pushes
         /\ SameCast(Ran(h), h) /\ SameCrowd(Ran(h), h) /\ Dragger(Ran(h)) = Dragger(h)
<1>1. Tail(h.jobs) \in Seq(Jobs)
  BY JobDone DEF Hubs
<1> QED BY <1>1 DEF Ran, Hubs, SameCast, SameCrowd, Dragger

\* Asking for the list adds a push and changes nothing else.
LEMMA AsksIs ==
  ASSUME NEW h \in Hubs, NEW to \in SUBSET Sockets
  PROVE  LET push == [to |-> to, read |-> FALSE, list |-> <<>>] IN
         /\ push \in Pushes
         /\ Asks(h, to) \in Hubs /\ Asks(h, to).pushes = Append(h.pushes, push)
         /\ Asks(h, to).jobs = h.jobs
         /\ SameCast(Asks(h, to), h) /\ SameCrowd(Asks(h, to), h) /\ Dragger(Asks(h, to)) = Dragger(h)
<1> DEFINE push == [to |-> to, read |-> FALSE, list |-> <<>>]
<1>1. push \in Pushes
  BY DEF Pushes, TabLists
<1> HIDE DEF push
<1>2. Append(h.pushes, push) \in Seq(Pushes)
  BY <1>1, AppendProperties DEF Hubs
<1>3. Asks(h, to) = [h EXCEPT !.pushes = Append(h.pushes, push)]
  BY DEF Asks, push
<1> QED BY <1>1, <1>2, <1>3 DEF Hubs, SameCast, SameCrowd, push, Dragger

\* Queueing a job changes nothing else.
LEMMA QueuesIs ==
  ASSUME NEW h \in Hubs, NEW j \in Jobs
  PROVE  LET g == Queues(h, j.kind, j.socket) IN
         /\ g \in Hubs /\ g.jobs = Append(h.jobs, j) /\ g.pushes = h.pushes
         /\ SameCast(g, h) /\ SameCrowd(g, h) /\ Dragger(g) = Dragger(h)
<1>1. Append(h.jobs, j) \in Seq(Jobs) /\ j = [kind |-> j.kind, socket |-> j.socket]
  BY AppendProperties DEF Hubs, Jobs
<1>2. Queues(h, j.kind, j.socket) = [h EXCEPT !.jobs = Append(h.jobs, j)]
  BY <1>1 DEF Queues
<1> QED BY <1>1, <1>2 DEF Hubs, SameCast, SameCrowd, Dragger

\* Cuts that are cut off, without one, with one more or with one that has read.
LEMMA CutsAre ==
  ASSUME NEW cuts \in Seq(Cuts)
  PROVE  /\ Cutoff(cuts) \in Seq(Cuts)
         /\ \A c \in Cuts : Append(cuts, c) \in Seq(Cuts)
         /\ \A i \in DOMAIN cuts :
              /\ Seqs!RemoveAt(cuts, i) \in Seq(Cuts)
              /\ [cuts EXCEPT ![i] = [cuts[i] EXCEPT !.read = TRUE]] \in Seq(Cuts)
<1>1. /\ Len(cuts) \in Nat /\ DOMAIN cuts = 1..Len(cuts)
      /\ \A i \in 1..Len(cuts) : cuts[i] \in Cuts
  OBVIOUS
<1>2. \A i \in 1..Len(cuts) : /\ [cuts[i] EXCEPT !.live = FALSE] \in Cuts
                             /\ [cuts[i] EXCEPT !.read = TRUE] \in Cuts
  BY <1>1 DEF Cuts
<1>3. Cutoff(cuts) \in Seq(Cuts)
  <2>1. Cutoff(cuts) \in [1..Len(cuts) -> Cuts]
    BY <1>1, <1>2 DEF Cutoff
  <2> QED BY <1>1, <2>1
<1>4. \A c \in Cuts : Append(cuts, c) \in Seq(Cuts)
  BY AppendProperties
<1>5. ASSUME NEW i \in DOMAIN cuts PROVE Seqs!RemoveAt(cuts, i) \in Seq(Cuts)
  <2>1. /\ 1 \in Int /\ i - 1 \in Int /\ i + 1 \in Int /\ Len(cuts) \in Int
        /\ \A k \in 1..i - 1 : cuts[k] \in Cuts
        /\ \A k \in i + 1..Len(cuts) : cuts[k] \in Cuts
    BY <1>1, <1>5
  <2>2. SubSeq(cuts, 1, i - 1) \in Seq(Cuts)
    BY <2>1, SubSeqProperties
  <2>3. SubSeq(cuts, i + 1, Len(cuts)) \in Seq(Cuts)
    BY <2>1, SubSeqProperties
  <2> QED BY <2>2, <2>3, ConcatProperties DEF Seqs!RemoveAt
<1>6. ASSUME NEW i \in DOMAIN cuts
      PROVE  [cuts EXCEPT ![i] = [cuts[i] EXCEPT !.read = TRUE]] \in Seq(Cuts)
  <2>1. [cuts[i] EXCEPT !.read = TRUE] \in Cuts
    BY <1>1, <1>2, <1>6
  <2> QED BY <1>6, <2>1, ExceptSeq
<1> QED BY <1>3, <1>4, <1>5, <1>6

\* After a stop nothing is cast and no frame is kept.
LEMMA StoppedIs ==
  ASSUME NEW h \in Hubs, CastRight(h)
  PROVE  LET g == Stopped(h) IN
         /\ g \in Hubs /\ g.jobs = h.jobs /\ g.pushes = h.pushes
         /\ SameCrowd(g, h) /\ g.info = h.info
         /\ g.cast = NoPage /\ g.frame = NoFrame /\ CastRight(g)
         /\ Dragger(g) = Dragger(h) \/ Dragger(g) = NoSocket
<1>1. NoFrame \in Frames /\ NoPage \in PageOrNone /\ NoSocket \in SocketOrNone
  BY DEF NoFrame, Frames, Urls, PageOrNone, SocketOrNone
<1>2. CASE h.cast = NoPage
  BY <1>2 DEF Stopped, CastRight, SameCrowd
<1>3. CASE h.cast # NoPage
  <2> DEFINE g == Stopped(h)
             left == IF h.held[h.cast] = NoSocket THEN h.left ELSE h.left \cup {h.cast}
  <2>1. /\ Cutoff(h.cuts) \in Seq(Cuts) /\ h.cast \in Pages /\ left \in SUBSET Pages
        /\ h.held \in [Pages -> SocketOrNone]
    BY <1>3, CutsAre DEF Hubs, PageOrNone
  <2>2. /\ \A p \in Pages : p \notin left => p \notin h.left
        /\ h.held[h.cast] # NoSocket => h.cast \in left
    OBVIOUS
  <2>3. g = [h EXCEPT !.cast = NoPage, !.frame = NoFrame, !.cuts = Cutoff(h.cuts), !.left = left]
    BY <1>3 DEF Stopped
  <2> HIDE DEF g, left
  <2>4. /\ g \in Hubs /\ g.jobs = h.jobs /\ g.pushes = h.pushes
        /\ SameCrowd(g, h) /\ g.info = h.info
        /\ g.cast = NoPage /\ g.frame = NoFrame /\ g.held = h.held /\ g.left = left
    BY <1>1, <2>1, <2>3 DEF Hubs, SameCrowd
  <2>5. \A p \in Pages : h.held[p] # NoSocket => p \in left
    BY <2>2 DEF CastRight
  <2>6. CastRight(g) /\ Dragger(g) = NoSocket
    BY <2>4, <2>5 DEF CastRight, Dragger
  <2> QED BY <2>4, <2>6 DEF g
<1> QED BY <1>2, <1>3

\* After a start something is cast unless no page is open.
LEMMA StartedIs ==
  ASSUME NEW h \in Hubs, CastRight(h), NEW g \in Started(h)
  PROVE  /\ g \in Hubs /\ g.jobs = h.jobs /\ g.pushes = h.pushes
         /\ SameCrowd(g, h) /\ g.info = h.info /\ g.frame = h.frame /\ Dragger(g) = Dragger(h)
         /\ g.watching /\ CastRight(g)
         /\ h.cast # NoPage => g = h
         /\ h.cast = NoPage => g.active = g.cast /\ g.cast \in OpenPages \cup {NoPage}
                               /\ (g.cast = NoPage <=> OpenPages = {})
<1>1. CASE h.cast # NoPage
  BY <1>1 DEF Started, CastRight, SameCrowd
<1>2. CASE h.cast = NoPage
  <2>1. PICK p \in FrontPage(h) : g = [h EXCEPT !.watching = TRUE, !.cast = p, !.active = p]
    BY <1>2 DEF Started
  <2>2. p \in OpenPages \cup {NoPage} /\ (p = NoPage <=> OpenPages = {}) /\ p \in PageOrNone
    BY ViewerAssumption DEF FrontPage, OpenPages, Sites, PageOrNone
  <2>3. /\ g \in Hubs /\ g.jobs = h.jobs /\ g.pushes = h.pushes
        /\ SameCrowd(g, h) /\ g.info = h.info /\ g.frame = h.frame
        /\ g.watching /\ g.cast = p /\ g.active = p /\ g.held = h.held /\ g.left = h.left
    BY <2>1, <2>2 DEF Hubs, SameCrowd
  <2>4. CastRight(g) /\ Dragger(g) = NoSocket /\ Dragger(h) = NoSocket
    BY <1>2, <2>2, <2>3, ViewerAssumption DEF CastRight, Dragger, OpenPages
  <2> QED BY <1>2, <2>2, <2>3, <2>4
<1> QED BY <1>1, <1>2

-----------------------------------------------------------------------------
(* The invariant of Viewer.                                                *)

\* A hub follows one client; the sockets it knows have connected.
SocketsKnown ==
  /\ hub.client <= client
  /\ hub.client = 0 => hub.viewers = {}
  /\ JoinsOnce(hub)
  /\ \A s \in hub.viewers : sock[s] # "new"
  /\ \A s \in Sockets : sock[s] = "open" => s \in hub.viewers
  /\ \A s \in Sockets : sock[s] = "new" => Dragger(hub) # s /\ up[s] = <<>>
  /\ mine # NoSocket =>
       /\ sock[mine] # "new"
       /\ \A i \in DOMAIN up[mine] : up[mine][i].type # "close"

\* Behind message n nothing lets go.
KeepsDown(msgs, n) == \A i \in DOMAIN msgs : i > n => msgs[i].type # "letgo"

\* A button that is down in the page, or that a message on its way will press, and
\* that nothing on its way lets go, the human holds.
ButtonKept ==
  mine # NoSocket =>
    /\ Dragger(hub) = mine =>
         /\ mine \in hub.joined /\ sock[mine] = "open"
         /\ KeepsDown(up[mine], 0) => view.holding
    /\ sock[mine] = "open" =>
         \A n \in DOMAIN up[mine] :
           up[mine][n].type = "press" /\ KeepsDown(up[mine], n) => view.holding

LinkFollowed == view.picked => view.asked = view.link

\* A cast whose page is not in o, the pages that are open, is noticed; a cast that
\* nobody views is stopped.
CastLooksOut(h, o) ==
  /\ h.cast \notin o \cup {NoPage} => Queued(h.jobs, {"refresh", "switch", "stop"})
  /\ h.viewers = {} => IF h.jobs = <<>> THEN h.cast = NoPage ELSE WillStop(h.jobs)

\* The hub h tells the view at m of the pages o, whose list is l, or is about to.
Looks(h, m) == Queued(h.jobs, {"refresh", "switch"}) \/ Awaits(h.jobs, m)
StripKept(h, m, o, l, msgs, v) ==
  /\ m \in h.viewers
  /\ JoinStays(h.jobs, m)
  /\ (h.watching /\ NoStopAfter(h.jobs, 0)) \/ Awaits(h.jobs, m)
  /\ h.cast = NoPage /\ o # {} => Looks(h, m)
  /\ \/ WillList(msgs, v, l) /\ ~Pushing(h.pushes, m)
     \/ WillPush(h.pushes, m, l) \/ h.info \/ Looks(h, m)
  /\ h.cast # NoPage => WillMark(msgs, v, h.active) \/ Pushing(h.pushes, m) \/ Looks(h, m)
  /\ h.frame # NoFrame => WillShow(msgs, v, h.frame) \/ Awaits(h.jobs, m)
  /\ h.cast = NoPage => WillWait(msgs, v) \/ Awaits(h.jobs, m)

Viewing  == mine # NoSocket /\ sock[mine] = "open" /\ Live
CastKept == CastRight(hub) /\ (Live => CastLooksOut(hub, OpenPages))
Strip    == Viewing => StripKept(hub, mine, OpenPages, Listing, down, view)

ViewerInv ==
  /\ ViewerTypes
  /\ SocketsKnown
  /\ ButtonKept
  /\ LinkFollowed
  /\ CastKept
  /\ Strip

-----------------------------------------------------------------------------
(* What a longer or a shorter queue of jobs keeps.                         *)

\* A viewer that has joined is not queued to join again.
LEMMA JoinsOnceRan ==
  ASSUME NEW h \in Hubs, h.jobs # <<>>, JoinsOnce(h), NEW g,
         g.jobs = Tail(h.jobs), g.viewers = h.viewers,
         \/ g.joined = h.joined
         \/ Head(h.jobs).kind = "join" /\ g.joined = h.joined \cup {Head(h.jobs).socket}
  PROVE  JoinsOnce(g)
<1>1. /\ Head(h.jobs) = h.jobs[1] /\ 1 \in DOMAIN h.jobs
      /\ \A i \in DOMAIN g.jobs : i + 1 \in DOMAIN h.jobs /\ g.jobs[i] = h.jobs[i + 1]
      /\ \A i \in DOMAIN g.jobs : i \in Nat /\ i # 0
  <2>1. h.jobs \in Seq(Jobs) /\ Tail(h.jobs) \in Seq(Jobs)
    BY JobDone DEF Hubs
  <2>2. \A i \in DOMAIN g.jobs : i \in Nat /\ i # 0
    BY <2>1
  <2> QED BY <2>1, <2>2, JobDone
<1>2. \A i \in DOMAIN g.jobs : g.jobs[i].kind = "join" =>
        g.jobs[i].socket \in h.viewers \ h.joined
  BY <1>1 DEF JoinsOnce
<1>3. \A i, j \in DOMAIN g.jobs :
        g.jobs[i].kind = "join" /\ g.jobs[j].kind = "join" /\ g.jobs[j].socket = g.jobs[i].socket
          => i = j
  <2> SUFFICES ASSUME NEW i \in DOMAIN g.jobs, NEW j \in DOMAIN g.jobs,
                      g.jobs[i].kind = "join", g.jobs[j].kind = "join",
                      g.jobs[j].socket = g.jobs[i].socket
               PROVE  i = j
    OBVIOUS
  <2>1. i + 1 = j + 1
    BY <1>1 DEF JoinsOnce
  <2> QED BY <1>1, <2>1
<1>4. \A i \in DOMAIN g.jobs :
        g.jobs[i].kind = "join" /\ Head(h.jobs).kind = "join" => g.jobs[i].socket # Head(h.jobs).socket
  <2> SUFFICES ASSUME NEW i \in DOMAIN g.jobs, g.jobs[i].kind = "join", Head(h.jobs).kind = "join",
                      g.jobs[i].socket = Head(h.jobs).socket
               PROVE  FALSE
    OBVIOUS
  <2>1. i + 1 = 1
    BY <1>1 DEF JoinsOnce
  <2> QED BY <1>1, <2>1
<1>5. g.joined \subseteq g.viewers
  BY <1>1 DEF JoinsOnce
<1> QED BY <1>2, <1>3, <1>4, <1>5 DEF JoinsOnce

\* A job that is added joins nobody twice.
LEMMA JoinsOnceMore ==
  ASSUME NEW h \in Hubs, JoinsOnce(h), NEW g, NEW j \in Jobs,
         g.jobs \in {h.jobs, Append(h.jobs, j)},
         g.joined \subseteq h.joined, g.joined \subseteq g.viewers,
         h.viewers \ h.joined \subseteq g.viewers,
         j.kind = "join" => j.socket \in g.viewers /\ j.socket \notin h.viewers
  PROVE  JoinsOnce(g)
<1>1. CASE g.jobs = h.jobs
  BY <1>1 DEF JoinsOnce
<1>2. CASE g.jobs = Append(h.jobs, j)
  <2>1. \A i \in DOMAIN g.jobs :
          \/ i \in DOMAIN h.jobs /\ g.jobs[i] = h.jobs[i]
          \/ g.jobs[i] = j /\ i = Len(h.jobs) + 1
    BY <1>2, JobAdded DEF Hubs
  <2> QED BY <2>1 DEF JoinsOnce
<1> QED BY <1>1, <1>2

\* A hub that notices a lost page, and stops without viewers, goes on to do so.
LEMMA LooksOn ==
  ASSUME NEW h \in Hubs, NEW g, NEW o, NEW j \in Jobs, CastLooksOut(h, o), g.cast = h.cast,
         g.jobs \in {h.jobs, Append(h.jobs, j)},
         g.viewers = {} => \/ g.jobs = h.jobs /\ h.viewers = {}
                           \/ g.jobs = Append(h.jobs, j) /\ j.kind = "stop"
  PROVE  CastLooksOut(g, o)
<1>1. CASE g.jobs = h.jobs /\ (g.viewers = {} => h.viewers = {})
  BY <1>1 DEF CastLooksOut
<1>2. CASE g.jobs = Append(h.jobs, j) /\ (g.viewers = {} => j.kind = "stop")
  <2>1. /\ g.jobs # <<>> /\ (j.kind = "stop" => WillStop(g.jobs))
        /\ \A kinds : Queued(h.jobs, kinds) => Queued(g.jobs, kinds)
    BY <1>2, JobAdded DEF Hubs
  <2> QED BY <1>2, <2>1 DEF CastLooksOut
<1> QED BY <1>1, <1>2, JobAdded DEF Hubs

\* The view is told as before when jobs are added, other than a stop.
LEMMA StripStays ==
  ASSUME NEW h \in Hubs, NEW g, NEW m, NEW o, NEW l, NEW msgs, NEW v, NEW w, NEW j \in Jobs,
         StripKept(h, m, o, l, msgs, v),
         SamePicture(g, h), g.pushes = h.pushes, m \in g.viewers,
         g.jobs = h.jobs \/ (g.jobs = Append(h.jobs, j) /\ j.kind # "stop"),
         w.list = v.list, w.tab = v.tab, w.image = v.image, w.waiting = v.waiting
  PROVE  StripKept(g, m, o, l, msgs, w)
<1>1. /\ \A kinds : Queued(h.jobs, kinds) => Queued(g.jobs, kinds)
      /\ Awaits(h.jobs, m) => Awaits(g.jobs, m)
      /\ NoStopAfter(h.jobs, 0) => NoStopAfter(g.jobs, 0)
      /\ JoinStays(h.jobs, m) => JoinStays(g.jobs, m)
  <2>1. CASE g.jobs = h.jobs
    BY <2>1
  <2>2. CASE g.jobs = Append(h.jobs, j) /\ j.kind # "stop"
    BY <2>2, JobAdded DEF Hubs
  <2> QED BY <2>1, <2>2
<1>2. Looks(h, m) => Looks(g, m)
  BY <1>1 DEF Looks
<1>3. /\ \A k : WillList(msgs, v, k) => WillList(msgs, w, k)
      /\ \A p : WillMark(msgs, v, p) => WillMark(msgs, w, p)
      /\ \A f : WillShow(msgs, v, f) => WillShow(msgs, w, f)
      /\ WillWait(msgs, v) => WillWait(msgs, w)
  BY DEF WillList, WillMark, WillShow, WillWait
<1> QED BY <1>1, <1>2, <1>3 DEF StripKept, SamePicture

-----------------------------------------------------------------------------
(* What a step leaves alone stays.                                         *)

\* The sockets a step leaves alone stay known.
LEMMA SocketsStay ==
  ASSUME SocketsKnown, UNCHANGED <<client, sock, up, mine>>,
         hub'.client = hub.client, hub'.viewers = hub.viewers, JoinsOnce(hub'),
         Dragger(hub') = Dragger(hub) \/ Dragger(hub') = NoSocket
  PROVE  SocketsKnown'
BY ViewerAssumption DEF SocketsKnown, JoinsOnce

\* A button that a step leaves alone stays in the human's hand.
LEMMA ButtonStays ==
  ASSUME ButtonKept, UNCHANGED <<sock, up, mine>>, view'.holding = view.holding,
         hub.joined \subseteq hub'.joined,
         Dragger(hub') = Dragger(hub) \/ Dragger(hub') = NoSocket
  PROVE  ButtonKept'
BY DEF ButtonKept, KeepsDown

\* The pages a step leaves alone stay open, and the hub as live as it was.
LEMMA PagesStay ==
  ASSUME UNCHANGED <<running, client, url>>
  PROVE  /\ UNCHANGED <<OpenPages, Listing>>
         /\ hub'.client = hub.client => (Live' <=> Live)
BY DEF OpenPages, Listing, Live

\* So they do when all of Chrome is left alone.
LEMMA ChromeStays ==
  ASSUME UNCHANGED chrome
  PROVE  /\ UNCHANGED <<running, client, url, OpenPages, Listing>>
         /\ hub'.client = hub.client => (Live' <=> Live)
BY PagesStay DEF chrome

\* One message to some viewers reaches the view if it is one of them.
LEMMA TellsIs ==
  ASSUME ViewerTypes, NEW h, NEW to, NEW e \in Told
  PROVE  Tells(h, to, <<e>>) = IF mine \in to /\ sock[mine] = "open" THEN Append(down, e)
                               ELSE down
<1>1. down \in Seq(Told) /\ <<e>> \in Seq(Told) /\ Len(<<e>>) = 1 /\ <<e>>[1] = e
  BY DEF ViewerTypes
<1>2. down \o <<e>> = Append(down, e)
  BY <1>1
<1> QED BY <1>2 DEF Tells

\* No message changes nothing.
LEMMA TellsNothing ==
  ASSUME ViewerTypes, NEW h, NEW to
  PROVE  Tells(h, to, <<>>) = down
<1>1. down \in Seq(Told)
  BY DEF ViewerTypes
<1>2. down \o <<>> = down
  BY <1>1
<1> QED BY <1>2 DEF Tells

\* The messages of the hub are messages.
LEMMA MessagesAre ==
  /\ Waiting \in Told /\ Waiting.type = "waiting" /\ Clipboard \in Told
  /\ Clipboard.type = "clipboard"
  /\ \A f \in Frames : Frame(f) \in Told /\ Frame(f).type = "frame"
  /\ \A l \in TabLists, p \in PageOrNone :
       /\ Targets(l, p) \in Told /\ Targets(l, p).type = "targets"
       /\ Targets(l, p).list = l /\ Targets(l, p).tab = p
BY DEF Waiting, Clipboard, Frame, Targets, Told

\* After `waiting` the view will say that it waits; strip and mark are as before.
LEMMA ToldWaiting ==
  ASSUME NEW msgs \in Seq(Told), NEW v
  PROVE  LET more == Append(msgs, Waiting) IN
         /\ more \in Seq(Told) /\ WillWait(more, v)
         /\ \A l : WillList(msgs, v, l) => WillList(more, v, l)
         /\ \A p : WillMark(msgs, v, p) => WillMark(more, v, p)
<1>1. Waiting \in Told /\ Waiting.type = "waiting"
  BY MessagesAre
<1> QED BY <1>1, ToldMore

\* After a frame the view will show it; strip and mark are as before.
LEMMA ToldFrame ==
  ASSUME NEW msgs \in Seq(Told), NEW v, NEW f \in Frames
  PROVE  LET more == Append(msgs, Frame(f)) IN
         /\ more \in Seq(Told) /\ WillShow(more, v, f)
         /\ \A l : WillList(msgs, v, l) => WillList(more, v, l)
         /\ \A p : WillMark(msgs, v, p) => WillMark(more, v, p)
<1>1. Frame(f) \in Told /\ Frame(f).type = "frame"
  BY MessagesAre
<1> QED BY <1>1, ToldMore

\* After a list the view will show it; the picture is as before.
LEMMA ToldTargets ==
  ASSUME NEW msgs \in Seq(Told), NEW v, NEW l \in TabLists, NEW p \in PageOrNone
  PROVE  LET more == Append(msgs, Targets(l, p)) IN
         /\ more \in Seq(Told) /\ WillList(more, v, l) /\ WillMark(more, v, p)
         /\ \A f : WillShow(msgs, v, f) => WillShow(more, v, f)
         /\ WillWait(msgs, v) => WillWait(more, v)
<1>1. /\ Targets(l, p) \in Told /\ Targets(l, p).type = "targets"
      /\ Targets(l, p).list = l /\ Targets(l, p).tab = p
  BY MessagesAre
<1> QED BY <1>1, ToldMore DEF ImageMsg

\* After a text that was cut all is as before.
LEMMA ToldClipboard ==
  ASSUME NEW msgs \in Seq(Told), NEW v
  PROVE  LET more == Append(msgs, Clipboard) IN
         /\ more \in Seq(Told)
         /\ \A l : WillList(msgs, v, l) => WillList(more, v, l)
         /\ \A p : WillMark(msgs, v, p) => WillMark(more, v, p)
         /\ \A f : WillShow(msgs, v, f) => WillShow(more, v, f)
         /\ WillWait(msgs, v) => WillWait(more, v)
<1>1. Clipboard \in Told /\ Clipboard.type = "clipboard"
  BY MessagesAre
<1> QED BY <1>1, ToldMore DEF ImageMsg

\* What Chrome lists is a list of tabs.
LEMMA ListingIs ==
  ASSUME ViewerTypes
  PROVE  Listing \in TabLists
<1> DEFINE S == IF running THEN OpenPages ELSE {}
<1>1. S \in SUBSET Pages /\ \A p \in S : url[p] \in Urls
  BY DEF ViewerTypes, OpenPages
<1>2. [p \in S |-> url[p]] \in [S -> Urls]
  BY <1>1
<1> QED BY <1>1, <1>2 DEF Listing, TabLists

\* A view whose join is queued is not owed anything yet.
LEMMA AwaitsIsEnough ==
  ASSUME NEW h, NEW m, NEW o, NEW l, NEW msgs, NEW v,
         m \in h.viewers, JoinStays(h.jobs, m), Awaits(h.jobs, m)
  PROVE  StripKept(h, m, o, l, msgs, v)
BY DEF StripKept, Looks

-----------------------------------------------------------------------------
(* The jobs of the hub keep the invariant.                                 *)

\* A switch, or a look at pages that came or went.
LEMMA RunSwitchKeeps ==
  ASSUME ViewerInv, RunSwitch
  PROVE  ViewerInv'
<1> DEFINE r == Ran(hub)  stop == Job("switch") \/ hub.cast \notin OpenPages
           s == IF stop THEN Stopped(r) ELSE r
           j == Head(hub.jobs)
<1>1. /\ hub \in Hubs /\ hub.jobs \in Seq(Jobs) /\ hub.jobs # <<>>
      /\ j.kind \in {"switch", "refresh"} /\ Live /\ CastRight(hub)
      /\ CastLooksOut(hub, OpenPages) /\ JoinsOnce(hub) /\ mine \in SocketOrNone
  BY DEF RunSwitch, Job, ViewerInv, ViewerTypes, CastKept, SocketsKnown, Hubs
<1>2. PICK g \in Started(s) :
        /\ hub' = Asks(g, Sockets)
        /\ down' = Tells(g, g.viewers, Word(g))
  BY DEF RunSwitch
<1>3. /\ UNCHANGED <<chrome, sock, up, mine, view>>
      /\ UNCHANGED <<running, client, url, OpenPages, Listing>>
  BY ChromeStays DEF RunSwitch
<1>4. /\ r \in Hubs /\ r.jobs = Tail(hub.jobs) /\ r.pushes = hub.pushes
      /\ SameCast(r, hub) /\ SameCrowd(r, hub) /\ Dragger(r) = Dragger(hub) /\ CastRight(r)
  BY <1>1, RanIs DEF CastRight, SameCast
<1>5. /\ s \in Hubs /\ s.jobs = Tail(hub.jobs) /\ s.pushes = hub.pushes
      /\ SameCrowd(s, hub) /\ CastRight(s) /\ (Dragger(s) = Dragger(hub) \/ Dragger(s) = NoSocket)
      /\ s.cast \in OpenPages \cup {NoPage}
      /\ s.cast # NoPage => s.frame = hub.frame
  <2>1. CASE stop
    BY <1>4, <2>1, StoppedIs DEF SameCrowd
  <2>2. CASE ~stop
    BY <1>4, <2>2 DEF SameCast
  <2> QED BY <2>1, <2>2
<1> HIDE DEF r, s, stop
<1>6. /\ g \in Hubs /\ g.jobs = Tail(hub.jobs) /\ g.pushes = hub.pushes
      /\ SameCrowd(g, hub) /\ CastRight(g) /\ (Dragger(g) = Dragger(hub) \/ Dragger(g) = NoSocket)
      /\ g.watching /\ g.cast \in OpenPages \cup {NoPage}
      /\ g.cast = NoPage <=> OpenPages = {}
      /\ g.frame # NoFrame => g.frame = hub.frame
  <2>1. /\ g \in Hubs /\ g.jobs = s.jobs /\ g.pushes = s.pushes
        /\ SameCrowd(g, s) /\ g.frame = s.frame /\ Dragger(g) = Dragger(s)
        /\ g.watching /\ CastRight(g)
        /\ s.cast # NoPage => g = s
        /\ s.cast = NoPage => g.active = g.cast /\ g.cast \in OpenPages \cup {NoPage}
                              /\ (g.cast = NoPage <=> OpenPages = {})
    BY <1>5, StartedIs
  <2>2. g.cast \in OpenPages \cup {NoPage} /\ (g.cast = NoPage <=> OpenPages = {})
    BY <1>5, <2>1
  <2>3. g.frame # NoFrame => g.frame = hub.frame
    BY <1>5, <2>1 DEF CastRight
  <2> QED BY <1>5, <2>1, <2>2, <2>3 DEF SameCrowd
<1> DEFINE push == [to |-> Sockets, read |-> FALSE, list |-> <<>>]
<1>7. /\ push \in Pushes /\ hub' \in Hubs /\ hub'.pushes = Append(hub.pushes, push)
      /\ hub'.jobs = Tail(hub.jobs) /\ SameCast(hub', g) /\ SameCrowd(hub', g)
      /\ Dragger(hub') = Dragger(g)
  <2>1. Sockets \in SUBSET Sockets
    OBVIOUS
  <2> QED BY <1>2, <1>6, <2>1, AsksIs
<1>8. /\ hub'.client = hub.client /\ hub'.viewers = hub.viewers /\ hub'.joined = hub.joined
      /\ Dragger(hub') = Dragger(hub) \/ Dragger(hub') = NoSocket
  BY <1>6, <1>7 DEF SameCrowd
<1>9. down' = IF mine \in hub.viewers /\ sock[mine] = "open" /\ g.cast = NoPage
              THEN Append(down, Waiting) ELSE down
  <2>1. ViewerTypes /\ g.viewers = hub.viewers
    BY <1>6 DEF ViewerInv, SameCrowd
  <2>2. CASE g.cast = NoPage
    <3>1. down' = Tells(g, hub.viewers, <<Waiting>>)
      BY <1>2, <2>1, <2>2 DEF Word
    <3>2. Waiting \in Told
      BY MessagesAre
    <3> QED BY <2>1, <2>2, <3>1, <3>2, TellsIs
  <2>3. CASE g.cast # NoPage
    <3>1. down' = Tells(g, hub.viewers, <<>>)
      BY <1>2, <2>1, <2>3 DEF Word
    <3> QED BY <2>1, <2>3, <3>1, TellsNothing
  <2> QED BY <2>2, <2>3
<1>10. ViewerTypes'
  <2>1. down' \in Seq(Told)
    BY <1>9, ToldWaiting DEF ViewerInv, ViewerTypes
  <2> QED BY <1>3, <1>7, <2>1 DEF ViewerInv, ViewerTypes
<1>11. SocketsKnown'
  <2>1. JoinsOnce(hub')
    BY <1>1, <1>7, <1>8, JoinsOnceRan
  <2> QED BY <1>3, <1>8, <2>1, SocketsStay DEF ViewerInv
<1>12. ButtonKept'
  BY <1>3, <1>8, ButtonStays DEF ViewerInv
<1>13. LinkFollowed'
  BY <1>3 DEF ViewerInv, LinkFollowed
<1>14. CastKept'
  <2>1. CastRight(hub')
    BY <1>6, <1>7 DEF CastRight, SameCast
  <2>2. hub'.cast \in OpenPages \cup {NoPage}
    BY <1>6, <1>7 DEF SameCast
  <2>3. hub.viewers = {} => WillStop(Tail(hub.jobs))
    BY <1>1, JobDone DEF CastLooksOut
  <2>4. CastLooksOut(hub', OpenPages)
    BY <1>7, <1>8, <2>2, <2>3 DEF CastLooksOut, WillStop
  <2> QED BY <1>3, <2>1, <2>4 DEF CastKept
<1>15. Strip'
  <2> SUFFICES ASSUME Viewing' PROVE StripKept(hub', mine, OpenPages, Listing, down', view)
    BY <1>3 DEF Strip
  <2>1. Viewing /\ mine \in Sockets /\ sock[mine] = "open"
    BY <1>1, <1>3, <1>8, ChromeStays DEF Viewing, SocketOrNone
  <2>2. StripKept(hub, mine, OpenPages, Listing, down, view)
    BY <2>1 DEF ViewerInv, Strip
  <2>3. mine \in hub'.viewers /\ mine \in hub.viewers
    BY <1>8, <2>2 DEF StripKept
  <2>4. Awaits(hub.jobs, mine) => Awaits(hub'.jobs, mine)
    BY <1>1, <1>7, JobDone
  <2>5. JoinStays(hub'.jobs, mine) /\ (NoStopAfter(hub.jobs, 0) => NoStopAfter(hub'.jobs, 0))
    BY <1>1, <1>7, <2>2, JobDone DEF StripKept
  <2>6. (hub'.watching /\ NoStopAfter(hub'.jobs, 0)) \/ Awaits(hub'.jobs, mine)
    BY <1>6, <1>7, <2>2, <2>4, <2>5 DEF StripKept, SameCast
  <2>7. WillPush(hub'.pushes, mine, Listing) /\ Pushing(hub'.pushes, mine)
    BY <1>1, <1>7, <2>1, PushAdded DEF Hubs
  <2>8. hub'.frame # NoFrame => WillShow(down', view, hub'.frame) \/ Awaits(hub'.jobs, mine)
    BY <1>6, <1>7, <1>9, <2>2, <2>4 DEF StripKept, SameCast, CastRight
  <2>9. hub'.cast = NoPage => WillWait(down', view)
    BY <1>7, <1>9, <2>1, <2>3, ToldWaiting DEF SameCast, ViewerInv, ViewerTypes
  <2>10. ~(hub'.cast = NoPage /\ OpenPages # {})
    BY <1>6, <1>7 DEF SameCast
  <2> QED BY <2>3, <2>5, <2>6, <2>7, <2>8, <2>9, <2>10 DEF StripKept
<1> QED BY <1>10, <1>11, <1>12, <1>13, <1>14, <1>15 DEF ViewerInv

\* A viewer joins: it will be told the list, the mark and the last frame.
LEMMA RunJoinKeeps ==
  ASSUME ViewerInv, RunJoin
  PROVE  ViewerInv'
<1> DEFINE r == Ran(hub)  j == Head(hub.jobs)  s == j.socket
<1>1. /\ hub \in Hubs /\ hub.jobs \in Seq(Jobs) /\ hub.jobs # <<>>
      /\ j.kind = "join" /\ Live /\ CastRight(hub)
      /\ CastLooksOut(hub, OpenPages) /\ JoinsOnce(hub) /\ mine \in SocketOrNone
      /\ ViewerTypes /\ hub.viewers \subseteq Sockets
  BY DEF RunJoin, Job, ViewerInv, ViewerTypes, CastKept, SocketsKnown, Hubs
<1>2. PICK g \in Started(r) :
        /\ hub' = Asks([g EXCEPT !.joined = @ \cup {s}], {s})
        /\ down' = Tells(g, g.viewers, Word(g)
                     \o IF s = mine /\ g.frame # NoFrame THEN <<Frame(g.frame)>> ELSE <<>>)
  BY DEF RunJoin
<1>3. /\ UNCHANGED <<chrome, sock, up, mine, view>>
      /\ UNCHANGED <<running, client, url, OpenPages, Listing>>
  BY ChromeStays DEF RunJoin
<1>4. s \in hub.viewers /\ s \in Sockets
  BY <1>1, JobDone DEF JoinsOnce
<1>5. /\ r \in Hubs /\ r.jobs = Tail(hub.jobs) /\ r.pushes = hub.pushes
      /\ SameCast(r, hub) /\ SameCrowd(r, hub) /\ Dragger(r) = Dragger(hub) /\ CastRight(r)
  BY <1>1, RanIs DEF CastRight, SameCast
<1> HIDE DEF r, s, j
<1>6. /\ g \in Hubs /\ g.jobs = Tail(hub.jobs) /\ g.pushes = hub.pushes
      /\ SameCrowd(g, hub) /\ g.info = hub.info /\ g.frame = hub.frame /\ Dragger(g) = Dragger(hub)
      /\ g.watching /\ CastRight(g)
      /\ hub.cast # NoPage => g.cast = hub.cast /\ g.active = hub.active
      /\ hub.cast = NoPage => g.cast \in OpenPages \cup {NoPage} /\ (g.cast = NoPage <=> OpenPages = {})
  BY <1>5, StartedIs DEF SameCrowd, SameCast
<1> DEFINE n == [g EXCEPT !.joined = @ \cup {s}]
<1>7. /\ n \in Hubs /\ n.jobs = g.jobs /\ n.pushes = g.pushes /\ SameCast(n, g)
      /\ n.client = g.client /\ n.viewers = g.viewers /\ n.joined = g.joined \cup {s}
      /\ Dragger(n) = Dragger(g)
  BY <1>4, <1>6 DEF Hubs, SameCast, Dragger
<1> HIDE DEF n
<1> DEFINE push == [to |-> {s}, read |-> FALSE, list |-> <<>>]
<1>8. /\ push \in Pushes /\ hub' \in Hubs /\ hub'.pushes = Append(hub.pushes, push)
      /\ hub'.jobs = Tail(hub.jobs) /\ SameCast(hub', g)
      /\ hub'.client = hub.client /\ hub'.viewers = hub.viewers
      /\ hub'.joined = hub.joined \cup {s} /\ Dragger(hub') = Dragger(hub)
  <2>1. hub' = Asks(n, {s}) /\ {s} \in SUBSET Sockets
    BY <1>2, <1>4 DEF n
  <2>2. /\ push \in Pushes /\ hub' \in Hubs /\ hub'.pushes = Append(n.pushes, push)
        /\ hub'.jobs = n.jobs /\ SameCast(hub', n) /\ SameCrowd(hub', n) /\ Dragger(hub') = Dragger(n)
    BY <1>7, <2>1, AsksIs
  <2> QED BY <1>6, <1>7, <2>2 DEF SameCrowd, SameCast
<1>9. /\ g.cast = NoPage => down' = IF mine \in hub.viewers /\ sock[mine] = "open"
                                    THEN Append(down, Waiting) ELSE down
      /\ g.cast # NoPage => down' = IF /\ mine \in hub.viewers /\ sock[mine] = "open"
                                       /\ s = mine /\ g.frame # NoFrame
                                    THEN Append(down, Frame(g.frame)) ELSE down
  <2>1. g.viewers = hub.viewers /\ g.frame \in Frames
    BY <1>6 DEF SameCrowd, Hubs
  <2>2. CASE g.cast = NoPage
    <3>1. Word(g) = <<Waiting>> /\ g.frame = NoFrame
      BY <1>6, <2>2 DEF Word, CastRight
    <3>2. <<Waiting>> \o <<>> = <<Waiting>>
      OBVIOUS
    <3>3. down' = Tells(g, hub.viewers, <<Waiting>> \o <<>>)
      BY <1>2, <2>1, <3>1
    <3>4. down' = Tells(g, hub.viewers, <<Waiting>>)
      BY <3>2, <3>3
    <3>5. Waiting \in Told
      BY MessagesAre
    <3> QED BY <1>1, <2>2, <3>4, <3>5, TellsIs
  <2>3. CASE g.cast # NoPage
    <3>1. CASE s = mine /\ g.frame # NoFrame
      <4>1. down' = Tells(g, hub.viewers, <<>> \o <<Frame(g.frame)>>)
        BY <1>2, <2>1, <2>3, <3>1 DEF Word
      <4>2. <<>> \o <<Frame(g.frame)>> = <<Frame(g.frame)>>
        OBVIOUS
      <4>3. down' = Tells(g, hub.viewers, <<Frame(g.frame)>>) /\ Frame(g.frame) \in Told
        BY <2>1, <4>1, <4>2, MessagesAre
      <4> QED BY <1>1, <2>3, <3>1, <4>3, TellsIs
    <3>2. CASE ~(s = mine /\ g.frame # NoFrame)
      <4>1. down' = Tells(g, hub.viewers, <<>> \o <<>>)
        BY <1>2, <2>1, <2>3, <3>2 DEF Word
      <4>2. <<>> \o <<>> = <<>>
        OBVIOUS
      <4>3. down' = Tells(g, hub.viewers, <<>>)
        BY <4>1, <4>2
      <4> QED BY <1>1, <2>3, <3>2, <4>3, TellsNothing
    <3> QED BY <3>1, <3>2
  <2> QED BY <2>2, <2>3
<1>10. ViewerTypes'
  <2>1. down \in Seq(Told) /\ g.frame \in Frames
    BY <1>1, <1>6 DEF ViewerTypes, Hubs
  <2>2. down' \in Seq(Told)
    BY <1>9, <2>1, ToldWaiting, ToldFrame
  <2> QED BY <1>3, <1>8, <2>2 DEF ViewerInv, ViewerTypes
<1>11. SocketsKnown'
  <2>1. JoinsOnce(hub')
    BY <1>1, <1>8, JoinsOnceRan DEF s, j
  <2> QED BY <1>3, <1>8, <2>1, SocketsStay DEF ViewerInv
<1>12. ButtonKept'
  BY <1>3, <1>8, ButtonStays DEF ViewerInv
<1>13. LinkFollowed'
  BY <1>3 DEF ViewerInv, LinkFollowed
<1>14. \A kinds : "join" \notin kinds /\ Queued(hub.jobs, kinds) => Queued(hub'.jobs, kinds)
  BY <1>1, <1>8, JobDone DEF j
<1>15. CastKept'
  <2>1. CastRight(hub')
    BY <1>6, <1>8 DEF CastRight, SameCast
  <2>2. hub'.cast \notin OpenPages \cup {NoPage} => Queued(hub'.jobs, {"refresh", "switch", "stop"})
    BY <1>1, <1>6, <1>8, <1>14 DEF CastLooksOut, SameCast
  <2>3. CastLooksOut(hub', OpenPages)
    BY <1>4, <1>8, <2>2 DEF CastLooksOut
  <2> QED BY <1>3, <2>1, <2>3 DEF CastKept
<1>16. Strip'
  <2> SUFFICES ASSUME Viewing' PROVE StripKept(hub', mine, OpenPages, Listing, down', view)
    BY <1>3 DEF Strip
  <2>1. Viewing /\ mine \in Sockets /\ sock[mine] = "open"
    BY <1>1, <1>3, <1>8, ChromeStays DEF Viewing, SocketOrNone
  <2>2. StripKept(hub, mine, OpenPages, Listing, down, view)
    BY <2>1 DEF ViewerInv, Strip
  <2>3. mine \in hub'.viewers /\ mine \in hub.viewers
    BY <1>8, <2>2 DEF StripKept
  <2>4. s # mine /\ Awaits(hub.jobs, mine) => Awaits(hub'.jobs, mine)
    BY <1>1, <1>8, JobDone DEF s, j
  <2>5. /\ JoinStays(hub'.jobs, mine) /\ (NoStopAfter(hub.jobs, 0) => NoStopAfter(hub'.jobs, 0))
        /\ s = mine => NoStopAfter(hub'.jobs, 0)
    BY <1>1, <1>8, <2>2, JobDone DEF StripKept, s, j
  <2>6. s # mine /\ Looks(hub, mine) => Looks(hub', mine)
    BY <1>14, <2>4 DEF Looks
  <2>7. (hub'.watching /\ NoStopAfter(hub'.jobs, 0)) \/ Awaits(hub'.jobs, mine)
    BY <1>6, <1>8, <2>2, <2>4, <2>5 DEF StripKept, SameCast
  <2>8. ~(hub'.cast = NoPage /\ OpenPages # {})
    BY <1>6, <1>8 DEF SameCast
  <2>9. down \in Seq(Told) /\ g.frame \in Frames
    BY <1>1, <1>6 DEF ViewerTypes, Hubs
  <2>10. /\ \A l : WillList(down, view, l) /\ s # mine => WillList(down', view, l)
         /\ \A p : WillMark(down, view, p) /\ s # mine => WillMark(down', view, p)
    BY <1>9, <2>9, ToldWaiting, ToldFrame
  <2>11. \/ WillList(down', view, Listing) /\ ~Pushing(hub'.pushes, mine)
         \/ WillPush(hub'.pushes, mine, Listing) \/ hub'.info \/ Looks(hub', mine)
    <3>1. CASE s = mine
      <4>1. hub.pushes \in Seq(Pushes)
        BY <1>1 DEF Hubs
      <4>2. WillPush(hub'.pushes, mine, Listing)
        BY <1>8, <3>1, <4>1, PushAdded
      <4> QED BY <4>2
    <3>2. CASE s # mine
      <4>1. /\ WillPush(hub.pushes, mine, Listing) => WillPush(hub'.pushes, mine, Listing)
            /\ Pushing(hub'.pushes, mine) => Pushing(hub.pushes, mine)
        BY <1>1, <1>8, <3>2, PushAdded DEF Hubs
      <4> QED BY <1>6, <1>8, <2>2, <2>6, <2>10, <3>2, <4>1 DEF StripKept, SameCast
    <3> QED BY <3>1, <3>2
  <2>12. hub'.cast # NoPage => WillMark(down', view, hub'.active) \/ Pushing(hub'.pushes, mine)
                                 \/ Looks(hub', mine)
    <3>1. CASE s = mine
      BY <1>1, <1>8, <3>1, PushAdded DEF Hubs
    <3>2. CASE s # mine /\ hub.cast # NoPage
      <4>1. Pushing(hub.pushes, mine) => Pushing(hub'.pushes, mine)
        BY <1>1, <1>8, PushAdded DEF Hubs
      <4>2. hub'.active = hub.active
        BY <1>6, <1>8, <3>2 DEF SameCast
      <4> QED BY <2>2, <2>6, <2>10, <3>2, <4>1, <4>2 DEF StripKept
    <3>3. CASE s # mine /\ hub.cast = NoPage
      BY <1>6, <1>8, <2>2, <2>6, <3>3 DEF StripKept, SameCast
    <3> QED BY <3>1, <3>2, <3>3
  <2>13. hub'.frame # NoFrame => WillShow(down', view, hub'.frame) \/ Awaits(hub'.jobs, mine)
    <3> SUFFICES ASSUME hub'.frame # NoFrame
                 PROVE  WillShow(down', view, hub'.frame) \/ Awaits(hub'.jobs, mine)
      OBVIOUS
    <3>1. hub'.frame = g.frame /\ g.frame = hub.frame /\ g.cast # NoPage
      BY <1>6, <1>8 DEF SameCast, CastRight
    <3>2. CASE s = mine
      BY <1>9, <2>1, <2>3, <2>9, <3>1, <3>2, ToldFrame
    <3>3. CASE s # mine
      BY <1>9, <2>2, <2>4, <3>1, <3>3 DEF StripKept
    <3> QED BY <3>2, <3>3
  <2>14. hub'.cast = NoPage => WillWait(down', view)
    BY <1>8, <1>9, <2>1, <2>3, <2>9, ToldWaiting DEF SameCast
  <2> QED BY <2>3, <2>5, <2>7, <2>8, <2>11, <2>12, <2>13, <2>14 DEF StripKept
<1> QED BY <1>10, <1>11, <1>12, <1>13, <1>15, <1>16 DEF ViewerInv

\* The cast is stopped: a view that is connected has yet to join.
LEMMA RunStopKeeps ==
  ASSUME ViewerInv, RunStop
  PROVE  ViewerInv'
<1> DEFINE r == Ran(hub)  st == Stopped(r)  j == Head(hub.jobs)
<1>1. /\ hub \in Hubs /\ hub.jobs \in Seq(Jobs) /\ hub.jobs # <<>>
      /\ j.kind = "stop" /\ Live /\ CastRight(hub)
      /\ CastLooksOut(hub, OpenPages) /\ JoinsOnce(hub)
  BY DEF RunStop, Job, ViewerInv, ViewerTypes, CastKept, SocketsKnown, Hubs
<1>2. hub' = [st EXCEPT !.watching = FALSE, !.info = FALSE]
  BY DEF RunStop
<1>3. /\ UNCHANGED <<chrome, sock, up, mine, down, view>>
      /\ UNCHANGED <<running, client, url, OpenPages, Listing>>
  BY ChromeStays DEF RunStop, wires
<1>4. /\ r \in Hubs /\ r.jobs = Tail(hub.jobs) /\ r.pushes = hub.pushes
      /\ SameCrowd(r, hub) /\ Dragger(r) = Dragger(hub) /\ CastRight(r)
  BY <1>1, RanIs DEF CastRight, SameCast
<1> HIDE DEF r
<1>5. /\ st \in Hubs /\ st.jobs = Tail(hub.jobs)
      /\ SameCrowd(st, hub) /\ (Dragger(st) = Dragger(hub) \/ Dragger(st) = NoSocket)
      /\ st.cast = NoPage /\ st.frame = NoFrame /\ CastRight(st)
  BY <1>4, StoppedIs DEF SameCrowd
<1> HIDE DEF st
<1>6. /\ hub' \in Hubs /\ hub'.jobs = Tail(hub.jobs)
      /\ hub'.client = hub.client /\ hub'.viewers = hub.viewers /\ hub'.joined = hub.joined
      /\ Dragger(hub') = Dragger(hub) \/ Dragger(hub') = NoSocket
      /\ hub'.cast = NoPage /\ hub'.frame = NoFrame
      /\ hub'.held = st.held /\ hub'.left = st.left
  BY <1>2, <1>5 DEF Hubs, SameCrowd, Dragger
<1>7. ViewerTypes'
  BY <1>3, <1>6 DEF ViewerInv, ViewerTypes
<1>8. SocketsKnown'
  <2>1. JoinsOnce(hub')
    BY <1>1, <1>6, JoinsOnceRan
  <2> QED BY <1>3, <1>6, <2>1, SocketsStay DEF ViewerInv
<1>9. ButtonKept'
  BY <1>3, <1>6, ButtonStays DEF ViewerInv
<1>10. LinkFollowed'
  BY <1>3 DEF ViewerInv, LinkFollowed
<1>11. CastKept'
  <2>1. CastRight(hub')
    BY <1>5, <1>6 DEF CastRight
  <2>2. hub.viewers = {} => WillStop(Tail(hub.jobs)) \/ Tail(hub.jobs) = <<>>
    BY <1>1, JobDone DEF CastLooksOut
  <2>3. CastLooksOut(hub', OpenPages)
    BY <1>6, <2>2 DEF CastLooksOut, WillStop
  <2> QED BY <1>3, <2>1, <2>3 DEF CastKept
<1>12. Strip'
  <2> SUFFICES ASSUME Viewing' PROVE StripKept(hub', mine, OpenPages, Listing, down', view)
    BY <1>3 DEF Strip
  <2>1. Viewing
    BY <1>1, <1>3, <1>6, ChromeStays DEF Viewing
  <2>2. StripKept(hub, mine, OpenPages, Listing, down, view)
    BY <2>1 DEF ViewerInv, Strip
  <2>3. ~NoStopAfter(hub.jobs, 0)
    <3>1. 1 \in DOMAIN hub.jobs /\ hub.jobs[1].kind = "stop"
      BY <1>1, JobDone
    <3> QED BY <3>1 DEF NoStopAfter
  <2>4. Awaits(hub'.jobs, mine) /\ JoinStays(hub'.jobs, mine)
    BY <1>1, <1>6, <2>2, <2>3, JobDone DEF StripKept
  <2>5. mine \in hub'.viewers
    BY <1>6, <2>2 DEF StripKept
  <2> QED BY <2>4, <2>5, AwaitsIsEnough
<1> QED BY <1>7, <1>8, <1>9, <1>10, <1>11, <1>12 DEF ViewerInv

\* Jobs of a hub whose client is closed.
LEMMA JobFailsKeeps ==
  ASSUME ViewerInv, JobFails
  PROVE  ViewerInv'
<1> DEFINE j == Head(hub.jobs)
<1>1. /\ hub \in Hubs /\ hub.jobs \in Seq(Jobs) /\ hub.jobs # <<>> /\ j \in Jobs
      /\ ~Live /\ CastRight(hub) /\ JoinsOnce(hub) /\ sock \in [Sockets -> {"new", "open", "closed"}]
      /\ hub.viewers \subseteq Sockets /\ SocketsKnown /\ ButtonKept
  BY JobDone DEF JobFails, ViewerInv, ViewerTypes, CastKept, SocketsKnown, Hubs
<1>2. /\ hub' = Ran(hub)
      /\ sock' = IF j.kind = "join" THEN [sock EXCEPT ![j.socket] = "closed"] ELSE sock
      /\ UNCHANGED <<chrome, up, mine, down, view>>
      /\ UNCHANGED <<running, client, url>>
  BY DEF JobFails, chrome
<1>3. /\ hub' \in Hubs /\ hub'.jobs = Tail(hub.jobs) /\ SameCast(hub', hub)
      /\ hub'.client = hub.client /\ hub'.viewers = hub.viewers /\ hub'.joined = hub.joined
      /\ Dragger(hub') = Dragger(hub)
  BY <1>1, <1>2, RanIs DEF SameCrowd
<1>4. j.kind = "join" => j.socket \in hub.viewers \ hub.joined
  BY <1>1, JobDone DEF JoinsOnce
<1>5. \A s \in Sockets :
        /\ sock'[s] = sock[s] \/ (s \in hub.viewers \ hub.joined /\ sock'[s] = "closed")
        /\ sock'[s] = "open" => sock[s] = "open"
        /\ sock'[s] = "new" => sock[s] = "new"
        /\ sock[s] # "new" => sock'[s] # "new"
  BY <1>1, <1>2, <1>4
<1> HIDE DEF j
<1>6. ViewerTypes'
  <2>1. sock' \in [Sockets -> {"new", "open", "closed"}]
    BY <1>1, <1>2
  <2> QED BY <1>2, <1>3, <2>1 DEF ViewerInv, ViewerTypes
<1>7. mine # NoSocket => mine \in Sockets
  BY DEF ViewerInv, ViewerTypes, SocketOrNone
<1>8. SocketsKnown'
  <2>1. JoinsOnce(hub')
    BY <1>1, <1>3, JoinsOnceRan
  <2> QED BY <1>1, <1>2, <1>3, <1>5, <1>7, <2>1 DEF SocketsKnown
<1>9. ButtonKept'
  BY <1>1, <1>2, <1>3, <1>5, <1>7 DEF ButtonKept, KeepsDown
<1>10. LinkFollowed'
  BY <1>2 DEF ViewerInv, LinkFollowed
<1>11. ~Live'
  BY <1>1, <1>2, <1>3 DEF Live
<1>12. CastKept'
  BY <1>1, <1>3, <1>11 DEF CastKept, CastRight, SameCast
<1>13. Strip'
  BY <1>11 DEF Strip, Viewing
<1> QED BY <1>6, <1>8, <1>9, <1>10, <1>12, <1>13 DEF ViewerInv

-----------------------------------------------------------------------------
(* Steps of the hub that leave its jobs alone.                             *)

\* What they have in common.
LEMMA HubStep ==
  ASSUME ViewerInv, hub' \in Hubs, down' \in Seq(Told),
         UNCHANGED <<running, client, url, sock, up, mine, view>>,
         hub'.jobs = hub.jobs, SameCrowd(hub', hub), hub'.held = hub.held /\ hub'.left = hub.left,
         hub'.cast = hub.cast, hub'.watching = hub.watching, hub'.active = hub.active,
         hub.cast = NoPage => hub'.frame = NoFrame
  PROVE  /\ ViewerTypes' /\ SocketsKnown' /\ ButtonKept' /\ LinkFollowed' /\ CastKept'
         /\ Viewing' => Viewing /\ StripKept(hub, mine, OpenPages, Listing, down, view)
         /\ (Viewing => StripKept(hub', mine, OpenPages, Listing, down', view)) => Strip'
<1>1. /\ hub'.client = hub.client /\ hub'.viewers = hub.viewers /\ hub'.joined = hub.joined
      /\ UNCHANGED <<OpenPages, Listing>> /\ (Live' <=> Live)
  BY PagesStay DEF SameCrowd
<1>2. ViewerTypes'
  BY DEF ViewerInv, ViewerTypes
<1>1a. Dragger(hub') = Dragger(hub)
  BY DEF Dragger
<1>3. SocketsKnown'
  <2>1. JoinsOnce(hub')
    BY <1>1 DEF ViewerInv, SocketsKnown, JoinsOnce
  <2> QED BY <1>1, <1>1a, <2>1, SocketsStay DEF ViewerInv
<1>4. ButtonKept'
  BY <1>1, <1>1a, ButtonStays DEF ViewerInv
<1>5. LinkFollowed'
  BY DEF ViewerInv, LinkFollowed
<1>6. CastKept'
  <2>1. CastRight(hub')
    BY DEF ViewerInv, CastKept, CastRight
  <2>2. Live => CastLooksOut(hub', OpenPages)
    BY <1>1 DEF ViewerInv, CastKept, CastLooksOut
  <2> QED BY <1>1, <2>1, <2>2 DEF CastKept
<1>7. Viewing' <=> Viewing
  BY <1>1 DEF Viewing
<1>8. Viewing => StripKept(hub, mine, OpenPages, Listing, down, view)
  BY DEF ViewerInv, Strip
<1>9. (Viewing => StripKept(hub', mine, OpenPages, Listing, down', view)) => Strip'
  BY <1>1, <1>7 DEF Strip
<1> QED BY <1>2, <1>3, <1>4, <1>5, <1>6, <1>7, <1>8, <1>9

\* A page has navigated: all viewers are pushed to.
LEMMA InfoPushKeeps ==
  ASSUME ViewerInv, InfoPush
  PROVE  ViewerInv'
<1> DEFINE n == [hub EXCEPT !.info = FALSE]
           push == [to |-> Sockets, read |-> FALSE, list |-> <<>>]
<1>1. /\ hub \in Hubs /\ down \in Seq(Told) /\ mine \in SocketOrNone
      /\ hub' = Asks(n, Sockets)
      /\ UNCHANGED <<running, client, url, sock, up, mine, down, view>>
  BY DEF ViewerInv, ViewerTypes, InfoPush, chrome, wires
<1>2. /\ n \in Hubs /\ n.jobs = hub.jobs /\ n.pushes = hub.pushes /\ SameCrowd(n, hub)
      /\ n.cast = hub.cast /\ n.watching = hub.watching /\ n.active = hub.active
      /\ n.frame = hub.frame /\ n.held = hub.held /\ n.left = hub.left
  BY <1>1 DEF Hubs, SameCrowd
<1> HIDE DEF n
<1>3. /\ push \in Pushes /\ hub' \in Hubs /\ hub'.pushes = Append(hub.pushes, push)
      /\ hub'.jobs = hub.jobs /\ SameCrowd(hub', hub)
      /\ hub'.cast = hub.cast /\ hub'.watching = hub.watching /\ hub'.active = hub.active
      /\ hub'.frame = hub.frame /\ hub'.held = hub.held /\ hub'.left = hub.left
  <2>1. /\ push \in Pushes /\ hub' \in Hubs /\ hub'.pushes = Append(n.pushes, push)
        /\ hub'.jobs = n.jobs /\ SameCast(hub', n) /\ SameCrowd(hub', n)
    <3>1. Sockets \in SUBSET Sockets
      OBVIOUS
    <3> QED BY <1>1, <1>2, <3>1, AsksIs
  <2> QED BY <1>2, <2>1 DEF SameCast, SameCrowd
<1>4. hub.cast = NoPage => hub'.frame = NoFrame
  BY <1>3 DEF ViewerInv, CastKept, CastRight
<1>5. Strip'
  <2> SUFFICES ASSUME Viewing, StripKept(hub, mine, OpenPages, Listing, down, view)
               PROVE  StripKept(hub', mine, OpenPages, Listing, down', view)
    BY <1>1, <1>3, <1>4, HubStep DEF ViewerInv, Strip
  <2>1. mine \in Sockets
    BY <1>1 DEF Viewing, SocketOrNone
  <2>2. WillPush(hub'.pushes, mine, Listing) /\ Pushing(hub'.pushes, mine)
    BY <1>1, <1>3, <2>1, PushAdded DEF Hubs
  <2> QED BY <1>1, <1>3, <2>2 DEF StripKept, SameCrowd, Looks
<1> QED BY <1>1, <1>3, <1>4, <1>5, HubStep DEF ViewerInv

\* A push reads the list.
LEMMA ListReadKeeps ==
  ASSUME ViewerInv, ListRead
  PROVE  ViewerInv'
<1>1. /\ hub \in Hubs /\ hub.pushes \in Seq(Pushes) /\ down \in Seq(Told)
      /\ mine \in SocketOrNone /\ Listing \in TabLists
      /\ UNCHANGED <<running, client, url, sock, up, mine, down, view>>
  BY ListingIs DEF ViewerInv, ViewerTypes, ListRead, chrome, wires, Hubs
<1>2. PICK i \in DOMAIN hub.pushes :
        hub' = [hub EXCEPT !.pushes[i].read = TRUE, !.pushes[i].list = Listing]
  BY DEF ListRead
<1> DEFINE more == [hub.pushes EXCEPT ![i] = [@ EXCEPT !.read = TRUE, !.list = Listing]]
<1>3. hub.pushes[i] \in Pushes
  BY <1>1
<1>4. hub' = [hub EXCEPT !.pushes = more]
  BY <1>1, <1>2, <1>3 DEF Hubs, Pushes
<1>5. /\ more \in Seq(Pushes)
      /\ \A m : Pushing(more, m) <=> Pushing(hub.pushes, m)
      /\ \A m : WillPush(hub.pushes, m, Listing) => WillPush(more, m, Listing)
  BY <1>1, PushReads
<1> HIDE DEF more
<1>6. /\ hub' \in Hubs /\ hub'.pushes = more /\ hub'.info = hub.info
      /\ hub'.jobs = hub.jobs /\ SameCrowd(hub', hub)
      /\ hub'.cast = hub.cast /\ hub'.watching = hub.watching /\ hub'.active = hub.active
      /\ hub'.frame = hub.frame /\ hub'.held = hub.held /\ hub'.left = hub.left
  BY <1>1, <1>4, <1>5 DEF Hubs, SameCrowd
<1>7. hub.cast = NoPage => hub'.frame = NoFrame
  BY <1>6 DEF ViewerInv, CastKept, CastRight
<1>8. Strip'
  <2> SUFFICES ASSUME Viewing, StripKept(hub, mine, OpenPages, Listing, down, view)
               PROVE  StripKept(hub', mine, OpenPages, Listing, down', view)
    BY <1>1, <1>6, <1>7, HubStep DEF ViewerInv, Strip
  <2> QED BY <1>1, <1>5, <1>6 DEF StripKept, SameCrowd, Looks
<1> QED BY <1>1, <1>6, <1>7, <1>8, HubStep DEF ViewerInv

\* A push sends the list it read, with the mark of now.
LEMMA ListSentKeeps ==
  ASSUME ViewerInv, ListSent
  PROVE  ViewerInv'
<1> DEFINE push == Head(hub.pushes)
           to == IF push.to = Sockets THEN hub.viewers ELSE push.to
           e == Targets(push.list, hub.active)
<1>1. /\ ViewerTypes /\ hub \in Hubs /\ hub.pushes \in Seq(Pushes) /\ down \in Seq(Told)
      /\ mine \in SocketOrNone /\ hub.pushes # <<>> /\ push.read
      /\ UNCHANGED <<running, client, url, sock, up, mine, view>>
      /\ down' = Tells(hub, to, <<e>>)
      /\ hub' = [hub EXCEPT !.pushes = Tail(hub.pushes)]
  BY DEF ViewerInv, ViewerTypes, ListSent, chrome, Hubs
<1>2. /\ push \in Pushes /\ Tail(hub.pushes) \in Seq(Pushes)
      /\ \A m : Pushing(hub.pushes, m) <=> Pushing(Tail(hub.pushes), m) \/ m \in push.to
      /\ \A m : WillPush(hub.pushes, m, Listing) =>
           \/ WillPush(Tail(hub.pushes), m, Listing)
           \/ m \in push.to /\ push.list = Listing /\ ~Pushing(Tail(hub.pushes), m)
  BY <1>1, PushDone
<1>3. push.list \in TabLists /\ hub.active \in PageOrNone /\ e \in Told
  BY <1>1, <1>2, MessagesAre DEF Pushes, Hubs
<1>4. down' = IF mine \in to /\ sock[mine] = "open" THEN Append(down, e) ELSE down
  BY <1>1, <1>3, TellsIs
<1> HIDE DEF push
<1>5. /\ hub' \in Hubs /\ hub'.pushes = Tail(hub.pushes) /\ hub'.info = hub.info
      /\ hub'.jobs = hub.jobs /\ SameCrowd(hub', hub)
      /\ hub'.cast = hub.cast /\ hub'.watching = hub.watching /\ hub'.active = hub.active
      /\ hub'.frame = hub.frame /\ hub'.held = hub.held /\ hub'.left = hub.left
  BY <1>1, <1>2 DEF Hubs, SameCrowd
<1>6. hub.cast = NoPage => hub'.frame = NoFrame
  BY <1>5 DEF ViewerInv, CastKept, CastRight
<1>7. down' \in Seq(Told)
  BY <1>1, <1>3, <1>4, ToldTargets
<1>8. Strip'
  <2> SUFFICES ASSUME Viewing, StripKept(hub, mine, OpenPages, Listing, down, view)
               PROVE  StripKept(hub', mine, OpenPages, Listing, down', view)
    BY <1>1, <1>5, <1>6, <1>7, HubStep DEF ViewerInv, Strip
  <2>1. mine \in Sockets /\ sock[mine] = "open" /\ mine \in hub.viewers
    BY <1>1 DEF Viewing, SocketOrNone, StripKept
  <2>2. /\ \A f : WillShow(down, view, f) => WillShow(down', view, f)
        /\ WillWait(down, view) => WillWait(down', view)
    BY <1>1, <1>3, <1>4, ToldTargets
  <2>3. CASE mine \in push.to
    <3>1. down' = Append(down, e)
      BY <1>4, <2>1, <2>3
    <3>2. WillList(down', view, push.list) /\ WillMark(down', view, hub.active)
      BY <1>1, <1>3, <3>1, ToldTargets
    <3>3. Pushing(hub.pushes, mine)
      BY <1>2, <2>3
    <3>4. \/ WillList(down', view, Listing) /\ ~Pushing(hub'.pushes, mine)
          \/ WillPush(hub'.pushes, mine, Listing) \/ hub'.info \/ Looks(hub', mine)
      BY <1>2, <1>5, <3>2, <3>3 DEF StripKept, Looks
    <3> QED BY <1>5, <2>2, <3>2, <3>4 DEF StripKept, SameCrowd, Looks
  <2>4. CASE mine \notin push.to
    <3>1. down' = down
      BY <1>4, <2>1, <2>4
    <3> QED BY <1>2, <1>5, <2>4, <3>1 DEF StripKept, SameCrowd, Looks
  <2> QED BY <2>3, <2>4
<1> QED BY <1>1, <1>5, <1>6, <1>7, <1>8, HubStep DEF ViewerInv

\* The page that is cast repaints.
LEMMA RepaintKeeps ==
  ASSUME ViewerInv, Repaint
  PROVE  ViewerInv'
<1> DEFINE f == [page |-> hub.cast, url |-> url[hub.cast]]
<1>1. /\ ViewerTypes /\ hub \in Hubs /\ down \in Seq(Told) /\ mine \in SocketOrNone
      /\ url \in [Pages -> Urls]
      /\ hub.cast \in OpenPages
      /\ hub' = [hub EXCEPT !.frame = f]
      /\ down' = Tells(hub, hub.viewers, <<Frame(f)>>)
      /\ UNCHANGED <<running, client, url, sock, up, mine, view>>
  BY DEF ViewerInv, ViewerTypes, Repaint, chrome
<1>2. hub.cast \in Pages /\ hub.cast # NoPage
  BY <1>1, ViewerAssumption DEF OpenPages
<1>3. f \in Frames
  BY <1>1, <1>2 DEF Frames, PageOrNone
<1> HIDE DEF f
<1>4. /\ hub' \in Hubs /\ hub'.frame = f /\ hub'.info = hub.info /\ hub'.pushes = hub.pushes
      /\ hub'.jobs = hub.jobs /\ SameCrowd(hub', hub)
      /\ hub'.cast = hub.cast /\ hub'.watching = hub.watching /\ hub'.active = hub.active
      /\ hub'.held = hub.held /\ hub'.left = hub.left
  BY <1>1, <1>3 DEF Hubs, SameCrowd
<1>5. Frame(f) \in Told
  BY <1>3, MessagesAre
<1>6. down' = IF mine \in hub.viewers /\ sock[mine] = "open" THEN Append(down, Frame(f)) ELSE down
  BY <1>1, <1>5, TellsIs
<1>7. down' \in Seq(Told)
  BY <1>1, <1>3, <1>6, ToldFrame
<1>8. Strip'
  <2> SUFFICES ASSUME Viewing, StripKept(hub, mine, OpenPages, Listing, down, view)
               PROVE  StripKept(hub', mine, OpenPages, Listing, down', view)
    BY <1>1, <1>2, <1>4, <1>7, HubStep DEF ViewerInv, Strip
  <2>1. down' = Append(down, Frame(f))
    BY <1>6 DEF Viewing, StripKept
  <2>2. /\ WillShow(down', view, f)
        /\ \A l : WillList(down, view, l) => WillList(down', view, l)
        /\ \A p : WillMark(down, view, p) => WillMark(down', view, p)
    BY <1>1, <1>3, <2>1, ToldFrame
  <2> QED BY <1>2, <1>4, <2>2 DEF StripKept, SameCrowd, Looks
<1> QED BY <1>1, <1>2, <1>4, <1>7, <1>8, HubStep DEF ViewerInv

\* A step of a cut: the hub forgets or reads it, and the view may be told.
LEMMA CutStep ==
  ASSUME ViewerInv, NEW c \in Seq(Cuts), hub' = [hub EXCEPT !.cuts = c],
         UNCHANGED <<running, client, url, sock, up, mine, view>>,
         down' = down \/ (\E to : down' = Tells(hub, to, <<Clipboard>>))
  PROVE  ViewerInv'
<1>1. /\ ViewerTypes /\ hub \in Hubs /\ down \in Seq(Told)
  BY DEF ViewerInv, ViewerTypes
<1>2. /\ hub' \in Hubs /\ hub'.frame = hub.frame /\ hub'.info = hub.info /\ hub'.pushes = hub.pushes
      /\ hub'.jobs = hub.jobs /\ SameCrowd(hub', hub)
      /\ hub'.cast = hub.cast /\ hub'.watching = hub.watching /\ hub'.active = hub.active
      /\ hub'.held = hub.held /\ hub'.left = hub.left
  BY <1>1 DEF Hubs, SameCrowd
<1>3. Clipboard \in Told /\ Clipboard.type = "clipboard"
  BY MessagesAre
<1>4. down' = down \/ down' = Append(down, Clipboard)
  BY <1>1, <1>3, TellsIs
<1>5. hub.cast = NoPage => hub'.frame = NoFrame
  BY <1>2 DEF ViewerInv, CastKept, CastRight
<1>6. /\ down' \in Seq(Told)
      /\ \A l : WillList(down, view, l) => WillList(down', view, l)
      /\ \A p : WillMark(down, view, p) => WillMark(down', view, p)
      /\ \A f : WillShow(down, view, f) => WillShow(down', view, f)
      /\ WillWait(down, view) => WillWait(down', view)
  <2>1. CASE down' = down
    BY <1>1, <2>1
  <2>2. CASE down' = Append(down, Clipboard)
    BY <1>1, <1>3, <2>2, ToldMore DEF ImageMsg
  <2> QED BY <1>4, <2>1, <2>2
<1>7. Strip'
  <2> SUFFICES ASSUME Viewing, StripKept(hub, mine, OpenPages, Listing, down, view)
               PROVE  StripKept(hub', mine, OpenPages, Listing, down', view)
    BY <1>2, <1>5, <1>6, HubStep DEF ViewerInv, Strip
  <2> QED BY <1>2, <1>6 DEF StripKept, SameCrowd, Looks
<1> QED BY <1>2, <1>5, <1>6, <1>7, HubStep DEF ViewerInv

\* A cut reads, or deletes.
LEMMA CutsKeep ==
  ASSUME ViewerInv, NEW i \in DOMAIN hub.cuts, CutReads(i) \/ CutDeletes(i)
  PROVE  ViewerInv'
<1> DEFINE without == Seqs!RemoveAt(hub.cuts, i)
           read == [hub.cuts EXCEPT ![i] = [hub.cuts[i] EXCEPT !.read = TRUE]]
<1>1. hub \in Hubs /\ without \in Seq(Cuts) /\ read \in Seq(Cuts)
  <2>1. hub \in Hubs /\ hub.cuts \in Seq(Cuts)
    BY DEF ViewerInv, ViewerTypes, Hubs
  <2> QED BY <2>1, CutsAre
<1>2. CASE CutReads(i)
  <2>1. /\ UNCHANGED <<running, client, url, sock, up, mine, view>>
        /\ down' = down \/ down' = Tells(hub, {hub.cuts[i].socket}, <<Clipboard>>)
        /\ \/ hub' = [hub EXCEPT !.cuts = without]
           \/ hub' = [hub EXCEPT !.cuts = read]
    BY <1>1, <1>2 DEF CutReads, chrome
  <2> HIDE DEF without, read
  <2> QED BY <1>1, <2>1, CutStep
<1>3. CASE CutDeletes(i)
  <2>1. /\ UNCHANGED <<running, client, url, sock, up, mine, view>>
        /\ down' = Tells(hub, {hub.cuts[i].socket}, <<Clipboard>>)
        /\ hub' = [hub EXCEPT !.cuts = without]
    BY <1>3 DEF CutDeletes
  <2> HIDE DEF without
  <2> QED BY <1>1, <2>1, CutStep
<1> QED BY <1>2, <1>3

-----------------------------------------------------------------------------
(* What the view says arrives.                                             *)

\* The button of the page cast goes down for s, or comes up.
LEMMA ButtonIs ==
  ASSUME NEW h \in Hubs, CastRight(h), NEW s \in SocketOrNone
  PROVE  LET g == Button(h, s) IN
         /\ g \in Hubs /\ g.jobs = h.jobs /\ g.pushes = h.pushes
         /\ SamePicture(g, h) /\ SameCrowd(g, h) /\ CastRight(g)
         /\ Dragger(g) \in {s, NoSocket}
<1> DEFINE g == Button(h, s)
<1>1. CASE h.cast = NoPage
  BY <1>1 DEF Button, SamePicture, SameCrowd, Dragger
<1>2. CASE h.cast # NoPage
  <2>1. h.held \in [Pages -> SocketOrNone] /\ h.cast \in Pages /\ h.left \in SUBSET Pages
    BY <1>2 DEF Hubs, PageOrNone
  <2>2. g = [h EXCEPT !.held = [h.held EXCEPT ![h.cast] = s], !.left = h.left \ {h.cast}]
    BY <1>2 DEF Button
  <2> HIDE DEF g
  <2>3. /\ g \in Hubs /\ g.jobs = h.jobs /\ g.pushes = h.pushes
        /\ SamePicture(g, h) /\ SameCrowd(g, h) /\ g.cast = h.cast
        /\ g.held = [h.held EXCEPT ![h.cast] = s] /\ g.left = h.left \ {h.cast}
    BY <2>1, <2>2 DEF Hubs, SamePicture, SameCrowd
  <2>4. /\ g.held[h.cast] = s
        /\ \A p \in Pages : p # h.cast => g.held[p] = h.held[p] /\ (p \in g.left <=> p \in h.left)
    BY <2>1, <2>3
  <2>5. CastRight(g)
    BY <2>3, <2>4 DEF CastRight, SamePicture
  <2>6. Dragger(g) \in {s, NoSocket}
    BY <2>3, <2>4 DEF Dragger
  <2> QED BY <2>3, <2>5, <2>6 DEF g
<1> QED BY <1>1, <1>2

\* What a message of a viewer does to the hub.
LEMMA HandledIs ==
  ASSUME hub \in Hubs, JoinsOnce(hub), CastRight(hub), NEW s \in Sockets, NEW e \in Said
  PROVE  LET g == Handled(e, s) IN
         /\ g \in Hubs /\ SamePicture(g, hub) /\ g.client = hub.client /\ g.pushes = hub.pushes
         /\ JoinsOnce(g) /\ CastRight(g)
         /\ g.viewers = hub.viewers \/ (e.type = "close" /\ g.viewers = hub.viewers \ {s})
         /\ hub.joined \ {s} \subseteq g.joined
         /\ e.type # "close" => g.joined = hub.joined
         /\ \E j \in Jobs :
              \/ g.jobs = hub.jobs /\ (g.viewers = {} => hub.viewers = {})
              \/ g.jobs = Append(hub.jobs, j) /\ (g.viewers = {} <=> j.kind = "stop")
         /\ \/ Dragger(g) = Dragger(hub) \/ Dragger(g) = NoSocket
            \/ Dragger(g) = s /\ e.type = "press" /\ s \in hub.joined
         /\ e.type = "letgo" /\ s \in hub.joined => Dragger(g) = NoSocket
<1> DEFINE g == Handled(e, s)
           Result(k) ==
             /\ k \in Hubs /\ SamePicture(k, hub) /\ k.client = hub.client /\ k.pushes = hub.pushes
             /\ JoinsOnce(k) /\ CastRight(k)
             /\ k.viewers = hub.viewers \/ (e.type = "close" /\ k.viewers = hub.viewers \ {s})
             /\ hub.joined \ {s} \subseteq k.joined
             /\ e.type # "close" => k.joined = hub.joined
             /\ \E j \in Jobs :
                  \/ k.jobs = hub.jobs /\ (k.viewers = {} => hub.viewers = {})
                  \/ k.jobs = Append(hub.jobs, j) /\ (k.viewers = {} <=> j.kind = "stop")
             /\ \/ Dragger(k) = Dragger(hub) \/ Dragger(k) = NoSocket
                \/ Dragger(k) = s /\ e.type = "press" /\ s \in hub.joined
             /\ e.type = "letgo" /\ s \in hub.joined => Dragger(k) = NoSocket
<1> SUFFICES Result(g)
  OBVIOUS
<1>1. [kind |-> "switch", socket |-> NoSocket] \in Jobs /\ [kind |-> "stop", socket |-> NoSocket] \in Jobs
  BY DEF Jobs, SocketOrNone
<1>2. CASE s \notin hub.joined
  <2>1. g = hub
    BY <1>2 DEF Handled
  <2> QED BY <1>1, <1>2, <2>1 DEF SamePicture
<1>3. CASE s \in hub.joined /\ e.type = "attach"
  <2>1. g = Attaches(hub, e.page) /\ e.page \in PageOrNone /\ hub.viewers # {}
    BY <1>3 DEF Handled, Said, JoinsOnce
  <2>2. CASE e.page = hub.active
    <3>1. g = hub
      BY <2>1, <2>2 DEF Attaches
    <3> QED BY <1>1, <1>3, <3>1 DEF SamePicture
  <2>3. CASE e.page # hub.active
    <3> DEFINE w == [hub EXCEPT !.wanted = e.page]
               j == [kind |-> "switch", socket |-> NoSocket]
    <3>1. /\ w \in Hubs /\ SameCast(w, hub) /\ SameCrowd(w, hub) /\ Dragger(w) = Dragger(hub)
          /\ w.jobs = hub.jobs /\ w.pushes = hub.pushes
      BY <2>1 DEF Hubs, SameCast, SameCrowd, Dragger
    <3> HIDE DEF w
    <3>2. g = Queues(w, j.kind, j.socket)
      BY <2>1, <2>3 DEF Attaches, w
    <3> HIDE DEF g
    <3>2a. /\ Queues(w, j.kind, j.socket) \in Hubs
          /\ Queues(w, j.kind, j.socket).jobs = Append(w.jobs, j)
          /\ Queues(w, j.kind, j.socket).pushes = w.pushes
          /\ SameCast(Queues(w, j.kind, j.socket), w)
          /\ SameCrowd(Queues(w, j.kind, j.socket), w)
          /\ Dragger(Queues(w, j.kind, j.socket)) = Dragger(w)
      BY <1>1, <3>1, QueuesIs
    <3>3. /\ g \in Hubs /\ g.jobs = Append(w.jobs, j) /\ g.pushes = w.pushes
          /\ SameCast(g, w) /\ SameCrowd(g, w) /\ Dragger(g) = Dragger(w)
      BY <3>2, <3>2a
    <3>4. JoinsOnce(g)
      BY <1>1, <3>1, <3>3, JoinsOnceMore DEF SameCrowd, JoinsOnce
    <3>5. j.kind # "stop" /\ g.viewers = hub.viewers
      BY <3>1, <3>3 DEF SameCrowd
    <3>6. CastRight(g) /\ SamePicture(g, hub)
      BY <3>1, <3>3 DEF SameCast, SamePicture, CastRight
    <3> QED BY <1>1, <1>3, <2>1, <3>1, <3>3, <3>4, <3>5, <3>6 DEF SameCrowd
  <2> QED BY <2>2, <2>3
<1>4. CASE s \in hub.joined /\ e.type \in {"press", "letgo", "key", "cut"}
  <2>1. /\ g \in Hubs /\ SamePicture(g, hub) /\ SameCrowd(g, hub) /\ CastRight(g)
        /\ g.pushes = hub.pushes /\ g.jobs = hub.jobs
        /\ e.type = "letgo" => Dragger(g) = NoSocket
        /\ Dragger(g) \in {Dragger(hub), NoSocket} \/ (Dragger(g) = s /\ e.type = "press")
    <3>1. CASE e.type = "press"
      <4>1. g = Button(hub, s) /\ s \in SocketOrNone
        BY <1>4, <3>1 DEF Handled, SocketOrNone
      <4> HIDE DEF g
      <4> QED BY <3>1, <4>1, ButtonIs
    <3>2. CASE e.type = "letgo"
      <4>1. g = Button(hub, NoSocket) /\ NoSocket \in SocketOrNone
        BY <1>4, <3>2 DEF Handled, SocketOrNone
      <4> HIDE DEF g
      <4> QED BY <3>2, <4>1, ButtonIs
    <3>3. CASE e.type = "key" \/ (e.type = "cut" /\ hub.cast = NoPage)
      <4>1. g = hub
        BY <1>4, <3>3 DEF Handled, Cutting
      <4> HIDE DEF g
      <4> QED BY <3>3, <4>1 DEF SamePicture, SameCrowd
    <3>4. CASE e.type = "cut" /\ hub.cast # NoPage
      <4> DEFINE c == [socket |-> s, page |-> hub.cast, live |-> TRUE, read |-> FALSE]
      <4>1. g = [hub EXCEPT !.cuts = Append(hub.cuts, c)]
        BY <1>4, <3>4 DEF Handled, Cutting
      <4>2. hub.cuts \in Seq(Cuts) /\ c \in Cuts
        BY DEF Hubs, Cuts, SocketOrNone
      <4>3. Append(hub.cuts, c) \in Seq(Cuts)
        BY <4>2, CutsAre
      <4> HIDE DEF g, c
      <4>4. /\ g \in Hubs /\ SameCast(g, hub) /\ SameCrowd(g, hub)
            /\ g.pushes = hub.pushes /\ g.jobs = hub.jobs
        BY <4>1, <4>3 DEF Hubs, SameCast, SameCrowd
      <4> QED BY <3>4, <4>4 DEF SameCast, SamePicture, CastRight, Dragger
    <3> QED BY <1>4, <3>1, <3>2, <3>3, <3>4
  <2> HIDE DEF g
  <2>2. JoinsOnce(g)
    BY <2>1 DEF JoinsOnce, SameCrowd
  <2> QED BY <1>1, <1>4, <2>1, <2>2 DEF SameCrowd
<1>5. CASE s \in hub.joined /\ e.type = "close"
  <2> DEFINE left == [hub EXCEPT !.viewers = hub.viewers \ {s}, !.joined = hub.joined \ {s}]
             j == [kind |-> "stop", socket |-> NoSocket]
  <2>1. g = IF left.viewers = {} THEN Queues(left, "stop", NoSocket) ELSE left
    BY <1>5 DEF Handled, Drops
  <2>2. /\ left \in Hubs /\ SameCast(left, hub) /\ left.client = hub.client
        /\ Dragger(left) = Dragger(hub) /\ left.jobs = hub.jobs /\ left.pushes = hub.pushes
        /\ left.viewers = hub.viewers \ {s} /\ left.joined = hub.joined \ {s}
    BY DEF Hubs, SameCast, Dragger
  <2> HIDE DEF left
  <2>3. /\ Queues(left, j.kind, j.socket) \in Hubs
        /\ Queues(left, j.kind, j.socket).jobs = Append(left.jobs, j)
        /\ Queues(left, j.kind, j.socket).pushes = left.pushes
        /\ SameCast(Queues(left, j.kind, j.socket), left)
        /\ SameCrowd(Queues(left, j.kind, j.socket), left)
        /\ Dragger(Queues(left, j.kind, j.socket)) = Dragger(left)
    BY <1>1, <2>2, QueuesIs
  <2>4. /\ g \in Hubs /\ SameCast(g, hub) /\ g.client = hub.client /\ Dragger(g) = Dragger(hub)
        /\ g.pushes = hub.pushes
        /\ g.viewers = hub.viewers \ {s} /\ g.joined = hub.joined \ {s}
        /\ g.jobs = IF g.viewers = {} THEN Append(hub.jobs, j) ELSE hub.jobs
    BY <2>1, <2>2, <2>3 DEF SameCast, SameCrowd
  <2> HIDE DEF g
  <2>5. /\ g.jobs \in {hub.jobs, Append(hub.jobs, j)} /\ j.kind # "join" /\ j.kind = "stop" /\ j \in Jobs
        /\ g.joined \subseteq hub.joined /\ hub.viewers \ hub.joined \subseteq g.viewers
        /\ g.joined \subseteq g.viewers
    BY <1>1, <1>5, <2>4 DEF JoinsOnce
  <2>6. JoinsOnce(g)
    BY <2>5, JoinsOnceMore
  <2>7. \E k \in Jobs :
          \/ g.jobs = hub.jobs /\ (g.viewers = {} => hub.viewers = {})
          \/ g.jobs = Append(hub.jobs, k) /\ (g.viewers = {} <=> k.kind = "stop")
    <3>1. CASE g.viewers = {}
      BY <2>4, <2>5, <3>1
    <3>2. CASE g.viewers # {}
      BY <2>4, <2>5, <3>2
    <3> QED BY <3>1, <3>2
  <2>8. CastRight(g) /\ SamePicture(g, hub)
    BY <2>4 DEF SameCast, SamePicture, CastRight
  <2> QED BY <1>5, <2>4, <2>6, <2>7, <2>8
<1> HIDE DEF g
<1> HIDE DEF g, Result
<1> QED BY <1>2, <1>3, <1>4, <1>5 DEF Said

\* What is still to be let go when a message has arrived.
LEMMA SaidRead ==
  ASSUME NEW msgs \in Seq(Said), msgs # <<>>
  PROVE  /\ Tail(msgs) \in Seq(Said) /\ Head(msgs) \in Said
         /\ 1 \in DOMAIN msgs /\ msgs[1] = Head(msgs)
         /\ \A n \in DOMAIN Tail(msgs) : n + 1 \in DOMAIN msgs /\ Tail(msgs)[n] = msgs[n + 1]
         /\ \A n \in DOMAIN Tail(msgs) : KeepsDown(Tail(msgs), n) => KeepsDown(msgs, n + 1)
         /\ KeepsDown(Tail(msgs), 0) => KeepsDown(msgs, 1)
         /\ KeepsDown(Tail(msgs), 0) /\ Head(msgs).type # "letgo" => KeepsDown(msgs, 0)
<1> DEFINE t == Tail(msgs)
<1>1. /\ Len(msgs) \in Nat \ {0} /\ DOMAIN msgs = 1..Len(msgs)
      /\ Head(msgs) = msgs[1] /\ Head(msgs) \in Said /\ t \in Seq(Said)
      /\ Len(t) = Len(msgs) - 1 /\ \A i \in 1..Len(t) : t[i] = msgs[i + 1]
  BY HeadTailProperties
<1>2. DOMAIN t = 1..Len(msgs) - 1
  BY <1>1
<1> HIDE DEF t
<1>3. \A i \in DOMAIN t : i + 1 \in DOMAIN msgs /\ t[i] = msgs[i + 1] /\ i \in Nat
  BY <1>1, <1>2
<1>4. ASSUME NEW i \in DOMAIN msgs, i # 1
      PROVE  \E k \in DOMAIN t : k + 1 = i /\ k \in Nat /\ t[k] = msgs[i] /\ k > 0
  <2>1. i - 1 \in DOMAIN t /\ (i - 1) + 1 = i /\ i - 1 \in Nat /\ i - 1 > 0
    BY <1>1, <1>2, <1>4
  <2> QED BY <1>3, <2>1
<1>5. ASSUME NEW n \in Nat, KeepsDown(t, n) PROVE KeepsDown(msgs, n + 1)
  <2> SUFFICES ASSUME NEW i \in DOMAIN msgs, i > n + 1 PROVE msgs[i].type # "letgo"
    BY DEF KeepsDown
  <2>1. i # 1
    BY <1>1
  <2>2. PICK k \in DOMAIN t : k + 1 = i /\ k \in Nat /\ t[k] = msgs[i]
    BY <1>4, <2>1
  <2>3. k > n
    BY <2>2
  <2> QED BY <1>5, <2>2, <2>3 DEF KeepsDown
<1>6. KeepsDown(t, 0) => KeepsDown(msgs, 1)
  <2>1. 0 + 1 = 1 /\ 0 \in Nat
    OBVIOUS
  <2> QED BY <1>5, <2>1
<1>7. KeepsDown(t, 0) /\ Head(msgs).type # "letgo" => KeepsDown(msgs, 0)
  <2> SUFFICES ASSUME KeepsDown(t, 0), Head(msgs).type # "letgo", NEW i \in DOMAIN msgs
               PROVE  msgs[i].type # "letgo"
    BY DEF KeepsDown
  <2>1. CASE i = 1
    BY <1>1, <2>1
  <2>2. CASE i # 1
    BY <1>4, <2>2 DEF KeepsDown
  <2> QED BY <2>1, <2>2
<1>8. 1 \in DOMAIN msgs
  BY <1>1
<1> QED BY <1>1, <1>3, <1>5, <1>6, <1>7, <1>8 DEF t

\* The gateway receives a message of a viewer.
LEMMA ReceiveKeeps ==
  ASSUME ViewerInv, NEW s \in Sockets, Receive(s)
  PROVE  ViewerInv'
<1> DEFINE e == Head(up[s])
<1>1. /\ ViewerTypes /\ hub \in Hubs /\ SocketsKnown /\ JoinsOnce(hub) /\ ButtonKept
      /\ CastKept /\ CastRight(hub) /\ mine \in SocketOrNone
      /\ up \in [Sockets -> Seq(Said)] /\ sock \in [Sockets -> {"new", "open", "closed"}]
      /\ sock[s] = "open" /\ up[s] # <<>> /\ up[s] \in Seq(Said)
      /\ hub' = Handled(e, s)
      /\ sock' = IF e.type = "close" THEN [sock EXCEPT ![s] = "closed"] ELSE sock
      /\ up' = [up EXCEPT ![s] = Tail(up[s])]
      /\ UNCHANGED <<running, client, url, mine, down, view>>
  BY DEF ViewerInv, ViewerTypes, SocketsKnown, CastKept, Receive
<1>2. /\ Tail(up[s]) \in Seq(Said) /\ e \in Said
      /\ 1 \in DOMAIN up[s] /\ up[s][1] = e
  BY <1>1, SaidRead
<1>3. /\ hub' \in Hubs /\ SamePicture(hub', hub) /\ hub'.client = hub.client /\ hub'.pushes = hub.pushes
      /\ JoinsOnce(hub') /\ CastRight(hub')
      /\ hub'.viewers = hub.viewers \/ (e.type = "close" /\ hub'.viewers = hub.viewers \ {s})
      /\ hub.joined \ {s} \subseteq hub'.joined
      /\ e.type # "close" => hub'.joined = hub.joined
      /\ \/ Dragger(hub') = Dragger(hub) \/ Dragger(hub') = NoSocket
         \/ Dragger(hub') = s /\ e.type = "press" /\ s \in hub.joined
      /\ e.type = "letgo" /\ s \in hub.joined => Dragger(hub') = NoSocket
  BY <1>1, <1>2, HandledIs
<1> DEFINE g == Handled(e, s)
<1>3a. \E j \in Jobs :
        \/ g.jobs = hub.jobs /\ (g.viewers = {} => hub.viewers = {})
        \/ g.jobs = Append(hub.jobs, j) /\ (g.viewers = {} <=> j.kind = "stop")
  BY <1>1, <1>2, HandledIs
<1>3b. hub' = g
  BY <1>1
<1> HIDE DEF g
<1>4. PICK j \in Jobs :
        \/ hub'.jobs = hub.jobs /\ (hub'.viewers = {} => hub.viewers = {})
        \/ hub'.jobs = Append(hub.jobs, j) /\ (hub'.viewers = {} <=> j.kind = "stop")
  BY <1>3a, <1>3b
<1>5. UNCHANGED <<OpenPages, Listing>> /\ (Live' <=> Live)
  BY <1>1, <1>3, PagesStay
<1>6. /\ mine # NoSocket => mine \in Sockets
      /\ mine # NoSocket /\ s = mine => e.type # "close"
  BY <1>1, <1>2 DEF SocketsKnown, SocketOrNone
<1>7. /\ up'[s] = Tail(up[s]) /\ \A t \in Sockets : t # s => up'[t] = up[t]
      /\ \A t \in Sockets : t # s \/ e.type # "close" => sock'[t] = sock[t]
      /\ e.type = "close" => sock'[s] = "closed"
      /\ NoSocket # s
  BY <1>1, ViewerAssumption
<1>8. /\ \A n \in DOMAIN up'[s] : n + 1 \in DOMAIN up[s] /\ up'[s][n] = up[s][n + 1]
      /\ \A n \in DOMAIN up'[s] : KeepsDown(up'[s], n) => KeepsDown(up[s], n + 1)
      /\ KeepsDown(up'[s], 0) => KeepsDown(up[s], 1)
      /\ KeepsDown(up'[s], 0) /\ e.type # "letgo" => KeepsDown(up[s], 0)
  BY <1>1, <1>7, SaidRead
<1> HIDE DEF e
<1>9. ViewerTypes'
  <2>1. /\ sock' \in [Sockets -> {"new", "open", "closed"}]
        /\ up' \in [Sockets -> Seq(Said)]
    BY <1>1, <1>2
  <2> QED BY <1>1, <1>3, <2>1 DEF ViewerTypes
<1>10. SocketsKnown'
  <2>1. /\ hub'.client <= client' /\ (hub'.client = 0 => hub'.viewers = {})
        /\ \A t \in hub'.viewers : sock'[t] # "new"
    <3>1. hub.viewers \subseteq Sockets
      BY <1>1 DEF Hubs
    <3> QED BY <1>1, <1>3, <1>7, <3>1 DEF SocketsKnown
  <2>2. \A t \in Sockets : sock'[t] = "open" => t \in hub'.viewers
    BY <1>1, <1>3, <1>7 DEF SocketsKnown
  <2>3. \A t \in Sockets : sock'[t] = "new" => Dragger(hub') # t /\ up'[t] = <<>>
    <3> SUFFICES ASSUME NEW t \in Sockets, sock'[t] = "new" PROVE Dragger(hub') # t /\ up'[t] = <<>>
      OBVIOUS
    <3>1. t # s /\ sock[t] = "new" /\ t # NoSocket
      BY <1>1, <1>7, ViewerAssumption
    <3> QED BY <1>1, <1>3, <1>7, <3>1 DEF SocketsKnown
  <2>4. mine # NoSocket =>
          /\ sock'[mine] # "new"
          /\ \A i \in DOMAIN up'[mine] : up'[mine][i].type # "close"
    BY <1>1, <1>6, <1>7, <1>8 DEF SocketsKnown
  <2> QED BY <1>1, <1>3, <2>1, <2>2, <2>3, <2>4 DEF SocketsKnown
<1>11. ButtonKept'
  <2> SUFFICES ASSUME mine # NoSocket
               PROVE  /\ Dragger(hub') = mine =>
                           /\ mine \in hub'.joined /\ sock'[mine] = "open"
                           /\ KeepsDown(up'[mine], 0) => view.holding
                      /\ sock'[mine] = "open" =>
                           \A n \in DOMAIN up'[mine] :
                             up'[mine][n].type = "press" /\ KeepsDown(up'[mine], n) => view.holding
    BY <1>1 DEF ButtonKept
  <2>1. /\ Dragger(hub) = mine =>
             /\ mine \in hub.joined /\ sock[mine] = "open"
             /\ KeepsDown(up[mine], 0) => view.holding
        /\ sock[mine] = "open" =>
             \A n \in DOMAIN up[mine] :
               up[mine][n].type = "press" /\ KeepsDown(up[mine], n) => view.holding
    BY <1>1 DEF ButtonKept
  <2>2. CASE s # mine
    BY <1>3, <1>6, <1>7, <2>1, <2>2
  <2>3. CASE s = mine
    <3>1. sock'[mine] = "open" /\ sock[mine] = "open" /\ hub'.joined = hub.joined
      BY <1>1, <1>3, <1>6, <1>7, <2>3
    <3>2. Dragger(hub') = mine => mine \in hub'.joined /\ (KeepsDown(up'[mine], 0) => view.holding)
      <4>1. CASE Dragger(hub') = Dragger(hub) /\ e.type # "letgo"
        BY <1>8, <2>1, <2>3, <3>1, <4>1
      <4>2. CASE Dragger(hub') = s /\ e.type = "press" /\ s \in hub.joined
        BY <1>2, <1>8, <2>1, <2>3, <3>1, <4>2
      <4>3. CASE Dragger(hub') = Dragger(hub) /\ e.type = "letgo"
        BY <1>3, <2>1, <2>3, <4>3
      <4> QED BY <1>3, <4>1, <4>2, <4>3
    <3>3. \A n \in DOMAIN up'[mine] :
            up'[mine][n].type = "press" /\ KeepsDown(up'[mine], n) => view.holding
      BY <1>8, <2>1, <2>3, <3>1
    <3> QED BY <3>1, <3>2, <3>3
  <2> QED BY <2>2, <2>3
<1>12. LinkFollowed'
  BY <1>1 DEF ViewerInv, LinkFollowed
<1>13. CastKept'
  <2>1. Live => CastLooksOut(hub', OpenPages)
    BY <1>1, <1>3, <1>4, LooksOn DEF CastKept, SamePicture
  <2> QED BY <1>3, <1>5, <2>1 DEF CastKept
<1>14. Strip'
  <2> SUFFICES ASSUME Viewing' PROVE StripKept(hub', mine, OpenPages, Listing, down, view)
    BY <1>1, <1>5 DEF Strip
  <2>1. Viewing
    BY <1>1, <1>5, <1>6, <1>7 DEF Viewing
  <2>2. StripKept(hub, mine, OpenPages, Listing, down, view)
    BY <2>1 DEF ViewerInv, Strip
  <2>3. mine \in hub'.viewers
    BY <1>3, <1>6, <2>1, <2>2 DEF StripKept, Viewing
  <2>4. hub'.jobs = hub.jobs \/ (hub'.jobs = Append(hub.jobs, j) /\ j.kind # "stop")
    BY <1>4, <2>3
  <2> QED BY <1>1, <1>3, <2>2, <2>3, <2>4, StripStays
<1> QED BY <1>9, <1>10, <1>11, <1>12, <1>13, <1>14 DEF ViewerInv

-----------------------------------------------------------------------------
(* What the human does.                                                    *)

\* What is still to be let go when one more message is sent.
LEMMA SaidMore ==
  ASSUME NEW msgs \in Seq(Said), NEW e \in Said
  PROVE  LET more == Append(msgs, e) IN
         /\ more \in Seq(Said)
         /\ \A n \in DOMAIN more : \/ n \in DOMAIN msgs /\ more[n] = msgs[n]
                                   \/ more[n] = e
         /\ \A n \in DOMAIN msgs : KeepsDown(more, n) => KeepsDown(msgs, n) /\ e.type # "letgo"
         /\ KeepsDown(more, 0) => KeepsDown(msgs, 0) /\ e.type # "letgo"
<1> DEFINE more == Append(msgs, e)
<1>1. /\ Len(msgs) \in Nat /\ DOMAIN msgs = 1..Len(msgs)
      /\ more \in Seq(Said) /\ Len(more) = Len(msgs) + 1 /\ more[Len(msgs) + 1] = e
      /\ \A i \in 1..Len(msgs) : more[i] = msgs[i]
  BY AppendProperties
<1>2. DOMAIN more = 1..Len(msgs) + 1
  BY <1>1
<1> HIDE DEF more
<1>3. \A i \in DOMAIN msgs : i \in DOMAIN more /\ more[i] = msgs[i] /\ Len(msgs) + 1 > i
  BY <1>1, <1>2
<1>4. \A i \in DOMAIN more : i \in DOMAIN msgs \/ i = Len(msgs) + 1
  BY <1>1, <1>2
<1>5. Len(msgs) + 1 \in DOMAIN more /\ Len(msgs) + 1 > 0
  BY <1>1, <1>2
<1> QED BY <1>1, <1>3, <1>4, <1>5 DEF KeepsDown, more

\* The view says e: pressing and letting go are what it takes for holding.
LEMMA SaysKeeps ==
  ASSUME ViewerTypes, SocketsKnown, ButtonKept, NEW e \in Said, e.type # "close", Says(e),
         UNCHANGED <<client, hub, sock, mine>>,
         e.type = "press" => view'.holding,
         e.type \in {"attach", "key", "cut"} => view'.holding = view.holding
  PROVE  up' \in [Sockets -> Seq(Said)] /\ SocketsKnown' /\ ButtonKept'
<1>1. /\ up \in [Sockets -> Seq(Said)] /\ mine \in SocketOrNone
  BY DEF ViewerTypes
<1>2. CASE mine # NoSocket /\ sock[mine] = "open"
  <2>1. mine \in Sockets /\ up' = [up EXCEPT ![mine] = Append(up[mine], e)]
    BY <1>1, <1>2 DEF Says, SocketOrNone
  <2> DEFINE more == Append(up[mine], e)
  <2>2. /\ more \in Seq(Said)
        /\ \A n \in DOMAIN more : \/ n \in DOMAIN up[mine] /\ more[n] = up[mine][n]
                                  \/ more[n] = e
        /\ \A n \in DOMAIN up[mine] : KeepsDown(more, n) => KeepsDown(up[mine], n) /\ e.type # "letgo"
        /\ KeepsDown(more, 0) => KeepsDown(up[mine], 0) /\ e.type # "letgo"
    BY <1>1, <2>1, SaidMore
  <2> HIDE DEF more
  <2>3. /\ up' \in [Sockets -> Seq(Said)] /\ up'[mine] = more
        /\ \A t \in Sockets : t # mine => up'[t] = up[t]
    BY <1>1, <2>1, <2>2 DEF more
  <2>4. SocketsKnown'
    BY <1>2, <2>1, <2>2, <2>3 DEF SocketsKnown, JoinsOnce
  <2>5. ButtonKept'
    <3>1. Dragger(hub) = mine =>
            /\ mine \in hub.joined /\ sock[mine] = "open"
            /\ KeepsDown(more, 0) => view'.holding
      <4>1. e.type \in {"press", "letgo", "attach", "key", "cut"}
        BY DEF Said
      <4> QED BY <1>2, <2>2, <4>1 DEF ButtonKept
    <3>2. ASSUME NEW n \in DOMAIN more, more[n].type = "press", KeepsDown(more, n)
          PROVE  view'.holding
      <4>1. CASE e.type = "press"
        BY <4>1
      <4>2. CASE e.type # "press"
        <5>1. n \in DOMAIN up[mine] /\ more[n] = up[mine][n]
          BY <2>2, <3>2, <4>2
        <5>2. view.holding /\ e.type \in {"attach", "key", "cut"}
          BY <1>2, <2>2, <3>2, <4>2, <5>1 DEF ButtonKept, Said
        <5> QED BY <5>2
      <4> QED BY <4>1, <4>2
    <3> QED BY <2>3, <3>1, <3>2 DEF ButtonKept
  <2> QED BY <2>3, <2>4, <2>5
<1>3. CASE ~(mine # NoSocket /\ sock[mine] = "open")
  <2>1. up' = up
    BY <1>3 DEF Says
  <2>2. SocketsKnown'
    BY <2>1 DEF SocketsKnown, JoinsOnce
  <2>3. ButtonKept'
    BY <1>3, <2>1 DEF ButtonKept
  <2> QED BY <1>1, <2>1, <2>2, <2>3
<1> QED BY <1>2, <1>3

\* The view changes in nothing that it was told.
LEMMA ViewStep ==
  ASSUME ViewerInv, view' \in Views, up' \in [Sockets -> Seq(Said)],
         SocketsKnown', ButtonKept', LinkFollowed',
         UNCHANGED <<running, client, url, hub, sock, mine, down>>,
         view'.list = view.list, view'.tab = view.tab, view'.image = view.image,
         view'.waiting = view.waiting
  PROVE  ViewerInv'
<1>1. UNCHANGED <<OpenPages, Listing>> /\ (Live' <=> Live)
  BY PagesStay
<1>2. ViewerTypes' /\ CastKept'
  BY <1>1 DEF ViewerInv, ViewerTypes, CastKept, CastRight, CastLooksOut
<1>3. Strip'
  <2>1. [kind |-> "switch", socket |-> NoSocket] \in Jobs /\ hub \in Hubs
    BY DEF Jobs, SocketOrNone, ViewerInv, ViewerTypes
  <2> SUFFICES ASSUME Viewing PROVE StripKept(hub, mine, OpenPages, Listing, down, view')
    BY <1>1 DEF Strip, Viewing
  <2>2. StripKept(hub, mine, OpenPages, Listing, down, view) /\ mine \in hub.viewers
    BY DEF ViewerInv, Strip, StripKept
  <2> QED BY <2>1, <2>2, StripStays DEF SamePicture
<1> QED BY <1>2, <1>3 DEF ViewerInv

\* The human picks a tab.
LEMMA PickKeeps ==
  ASSUME ViewerInv, NEW p \in Pages, Pick(p)
  PROVE  ViewerInv'
<1>1. /\ view \in Views /\ ViewerTypes /\ SocketsKnown /\ ButtonKept /\ LinkFollowed
      /\ AttachTo(p) \in Said /\ AttachTo(p).type = "attach" /\ Says(AttachTo(p))
      /\ view' = [view EXCEPT !.picked = view.picked \/ view.asked = view.link]
      /\ UNCHANGED <<running, client, url, hub, sock, mine, down>>
  BY DEF ViewerInv, ViewerTypes, Pick, AttachTo, Said, PageOrNone, chrome
<1>2. (view.picked \/ view.asked = view.link) \in BOOLEAN
  BY <1>1 DEF Views
<1>3. /\ view' \in Views /\ view'.holding = view.holding
      /\ view'.list = view.list /\ view'.tab = view.tab /\ view'.image = view.image
      /\ view'.waiting = view.waiting
      /\ view'.link = view.link /\ view'.asked = view.asked
      /\ view'.picked <=> view.picked \/ view.asked = view.link
  BY <1>1, <1>2 DEF Views
<1>4. LinkFollowed'
  BY <1>1, <1>3 DEF LinkFollowed
<1>5. up' \in [Sockets -> Seq(Said)] /\ SocketsKnown' /\ ButtonKept'
  BY <1>1, <1>3, SaysKeeps
<1> QED BY <1>1, <1>3, <1>4, <1>5, ViewStep

\* The human presses, lets go, types and cuts.
LEMMA ButtonsKeep ==
  ASSUME ViewerInv, PressButton \/ LetGo \/ Keys
  PROVE  ViewerInv'
<1>1. /\ view \in Views /\ ViewerTypes /\ SocketsKnown /\ ButtonKept /\ LinkFollowed
      /\ UNCHANGED <<running, client, url, hub, sock, mine, down>>
  BY DEF ViewerInv, ViewerTypes, PressButton, LetGo, Keys, chrome
<1>2. PICK type \in {"press", "letgo", "key", "cut"} :
        /\ Says(Say(type))
        /\ view' = [view EXCEPT !.holding = IF type = "press" THEN TRUE
                                            ELSE IF type = "letgo" THEN FALSE ELSE view.holding]
  <2>1. CASE PressButton
    BY <2>1 DEF PressButton
  <2>2. CASE LetGo
    BY <2>2 DEF LetGo
  <2>3. CASE Keys
    BY <1>1, <2>3 DEF Keys, Views
  <2> QED BY <2>1, <2>2, <2>3
<1>3. Say(type) \in Said /\ Say(type).type = type
  BY DEF Say, Said, PageOrNone
<1>4. /\ view' \in Views
      /\ view'.list = view.list /\ view'.tab = view.tab /\ view'.image = view.image
      /\ view'.waiting = view.waiting
      /\ view'.link = view.link /\ view'.asked = view.asked /\ view'.picked = view.picked
      /\ type = "press" => view'.holding
      /\ type \in {"key", "cut"} => view'.holding = view.holding
  BY <1>1, <1>2 DEF Views
<1>5. LinkFollowed'
  BY <1>1, <1>4 DEF LinkFollowed
<1>6. up' \in [Sockets -> Seq(Said)] /\ SocketsKnown' /\ ButtonKept'
  BY <1>1, <1>2, <1>3, <1>4, SaysKeeps
<1> QED BY <1>1, <1>4, <1>5, <1>6, ViewStep

\* Calls of the toolbar, and what others say.
LEMMA QuietSteps ==
  ASSUME ViewerInv,
         Submit \/ Release \/ (\E s \in Sockets : OtherSays(s)) \/ UNCHANGED viewerVars
  PROVE  ViewerInv'
<1>1. /\ view \in Views /\ ViewerTypes /\ SocketsKnown /\ ButtonKept /\ LinkFollowed
      /\ up \in [Sockets -> Seq(Said)] /\ mine \in SocketOrNone
      /\ UNCHANGED <<running, client, url, hub, sock, mine, down, view>>
  BY DEF ViewerInv, ViewerTypes, Submit, Release, Requests, OtherSays, chrome, wires, viewerVars
<1>2. LinkFollowed'
  BY <1>1 DEF LinkFollowed
<1>3. up' \in [Sockets -> Seq(Said)] /\ SocketsKnown' /\ ButtonKept'
  <2>1. CASE up' = up
    <3>1. SocketsKnown'
      BY <1>1, <2>1 DEF SocketsKnown, JoinsOnce
    <3>2. ButtonKept'
      BY <1>1, <2>1 DEF ButtonKept
    <3> QED BY <1>1, <2>1, <3>1, <3>2
  <2>2. CASE \E s \in Sockets : OtherSays(s)
    <3>1. PICK s \in Sockets : OtherSays(s)
      BY <2>2
    <3>2. PICK m \in {AttachTo(p) : p \in OpenPages}
                       \cup {Say("key"), Say("cut"), Say("close")} :
            up' = [up EXCEPT ![s] = <<m>>]
      BY <3>1 DEF OtherSays
    <3>3. m \in Said /\ <<m>> \in Seq(Said)
      BY DEF AttachTo, Say, Said, OpenPages, PageOrNone
    <3>4. /\ up' \in [Sockets -> Seq(Said)] /\ \A t \in Sockets : t # s => up'[t] = up[t]
          /\ s # mine /\ sock[s] = "open"
      BY <1>1, <3>1, <3>2, <3>3 DEF OtherSays
    <3>5. mine # NoSocket => up'[mine] = up[mine]
      BY <1>1, <3>4 DEF SocketOrNone
    <3>6. \A t \in Sockets : sock[t] = "new" => up'[t] = <<>>
      BY <1>1, <3>4 DEF SocketsKnown
    <3>7. SocketsKnown'
      BY <1>1, <3>4, <3>5, <3>6 DEF SocketsKnown, JoinsOnce
    <3>8. ButtonKept'
      BY <1>1, <3>5 DEF ButtonKept
    <3> QED BY <3>4, <3>7, <3>8
  <2> QED BY <2>1, <2>2 DEF Submit, Release, Requests, viewerVars, wires
<1> QED BY <1>1, <1>2, <1>3, ViewStep

\* The view reads a message, and may follow its link.
LEMMA OnMessageKeeps ==
  ASSUME ViewerInv, OnMessage
  PROVE  ViewerInv'
<1> DEFINE m == Head(down)
<1>1. /\ ViewerTypes /\ view \in Views /\ SocketsKnown /\ ButtonKept /\ LinkFollowed
      /\ down \in Seq(Told) /\ down # <<>> /\ down' = Tail(down)
      /\ up \in [Sockets -> Seq(Said)]
      /\ UNCHANGED <<running, client, url, hub, sock, mine>>
  BY DEF ViewerInv, ViewerTypes, OnMessage, Reads, chrome
<1>2. m \in Told /\ down' \in Seq(Told)
  BY <1>1, HeadTailProperties
<1>3. /\ m.type \in {"frame", "waiting", "clipboard", "targets"}
      /\ m.type = "frame" => m.frame \in Frames
      /\ m.type = "targets" => m.list \in TabLists /\ m.tab \in PageOrNone
  BY <1>2 DEF Told
<1>4. /\ m.type = "frame" => view' = [view EXCEPT !.image = m.frame, !.waiting = FALSE] /\ up' = up
      /\ m.type = "waiting" => view' = [view EXCEPT !.waiting = TRUE] /\ up' = up
      /\ m.type = "clipboard" => view' = view /\ up' = up
      /\ m.type = "targets" => \E asked \in {view.asked, view.link} :
           /\ view' = [view EXCEPT !.list = m.list, !.tab = m.tab, !.asked = asked]
           /\ Says(AttachTo(view.link)) \/ up' = up
  <2>1. CASE m.type # "targets"
    BY <1>3, <2>1 DEF OnMessage, Reads
  <2>2. CASE m.type = "targets"
    <3> DEFINE wants == view.asked # view.link /\ view.link \in DOMAIN m.list
    <3>1. /\ view' = [view EXCEPT !.list = m.list, !.tab = m.tab,
                                  !.asked = IF wants THEN view.link ELSE view.asked]
          /\ IF wants THEN Says(AttachTo(view.link)) ELSE up' = up
      BY <2>2 DEF OnMessage, Reads
    <3>2. (IF wants THEN view.link ELSE view.asked) \in {view.asked, view.link}
      OBVIOUS
    <3> QED BY <2>2, <3>1, <3>2
  <2> QED BY <2>1, <2>2
<1> HIDE DEF m
<1>5. /\ view' \in Views
      /\ view'.holding = view.holding /\ view'.link = view.link /\ view'.picked = view.picked
      /\ view'.asked \in {view.asked, view.link}
      /\ m.type = "targets" => view'.list = m.list /\ view'.tab = m.tab
      /\ m.type # "targets" => view'.list = view.list /\ view'.tab = view.tab
      /\ m.type = "frame" => view'.image = m.frame /\ view'.waiting = FALSE
      /\ m.type = "waiting" => view'.waiting = TRUE
      /\ m.type \notin {"frame", "waiting"} => view'.image = view.image /\ view'.waiting = view.waiting
  <2>1. CASE m.type = "targets"
    BY <1>1, <1>3, <1>4, <2>1 DEF Views
  <2>2. CASE m.type = "frame"
    BY <1>1, <1>3, <1>4, <2>2 DEF Views
  <2>3. CASE m.type \in {"waiting", "clipboard"}
    BY <1>1, <1>3, <1>4, <2>3 DEF Views
  <2> QED BY <1>3, <2>1, <2>2, <2>3
<1>6. up' \in [Sockets -> Seq(Said)] /\ SocketsKnown' /\ ButtonKept'
  <2>1. CASE up' = up
    <3>1. SocketsKnown'
      BY <1>1, <2>1 DEF SocketsKnown, JoinsOnce
    <3>2. ButtonKept'
      BY <1>1, <1>5, <2>1 DEF ButtonKept
    <3> QED BY <1>1, <2>1, <3>1, <3>2
  <2>2. CASE Says(AttachTo(view.link))
    <3>1. AttachTo(view.link) \in Said /\ AttachTo(view.link).type = "attach"
      BY <1>1 DEF AttachTo, Said, Views
    <3> QED BY <1>1, <1>5, <2>2, <3>1, SaysKeeps
  <2> QED BY <1>3, <1>4, <2>1, <2>2
<1>7. LinkFollowed'
  BY <1>1, <1>5 DEF LinkFollowed
<1>8. UNCHANGED <<OpenPages, Listing>> /\ (Live' <=> Live)
  BY <1>1, PagesStay
<1>9. ViewerTypes' /\ CastKept'
  BY <1>1, <1>2, <1>5, <1>6, <1>8 DEF ViewerInv, ViewerTypes, CastKept, CastRight, CastLooksOut
<1>10. Strip'
  <2> SUFFICES ASSUME Viewing PROVE StripKept(hub, mine, OpenPages, Listing, down', view')
    BY <1>1, <1>8 DEF Strip, Viewing
  <2>1. StripKept(hub, mine, OpenPages, Listing, down, view)
    BY DEF ViewerInv, Strip
  <2>2. /\ \A l : WillList(down, view, l) => WillList(down', view', l)
        /\ \A p : WillMark(down, view, p) => WillMark(down', view', p)
        /\ \A f : WillShow(down, view, f) => WillShow(down', view', f)
        /\ WillWait(down, view) => WillWait(down', view')
    BY <1>1, <1>5, ToldRead DEF ImageMsg, m
  <2> QED BY <2>1, <2>2 DEF StripKept
<1> QED BY <1>6, <1>7, <1>9, <1>10 DEF ViewerInv

-----------------------------------------------------------------------------
(* Pages and the identity.                                                 *)

\* The identity is stopped or has a new client: no hub can reach it.
LEMMA IdentityKeeps ==
  ASSUME ViewerInv, IdentityStops \/ IdentityStarts
  PROVE  ViewerInv'
<1>1. /\ ViewerTypes /\ SocketsKnown /\ ButtonKept /\ LinkFollowed /\ CastKept
      /\ url \in [Pages -> Urls] /\ client \in Nat \ {0} /\ hub \in Hubs
      /\ UNCHANGED <<hub, sock, up, mine, down, view>>
  BY DEF ViewerInv, ViewerTypes, IdentityStops, IdentityStarts, wires
<1>2. /\ running' \in BOOLEAN /\ client' \in Nat \ {0} /\ client <= client'
      /\ (~running' \/ client' = client + 1)
  <2>1. CASE IdentityStops
    <3>1. running' = FALSE /\ client' = client
      BY <2>1 DEF IdentityStops
    <3>2. running' \in BOOLEAN /\ ~running'
      BY <3>1
    <3>3. client' \in Nat \ {0} /\ client <= client'
      BY <1>1, <3>1
    <3> QED BY <3>2, <3>3
  <2>2. CASE IdentityStarts
    BY <1>1, <2>2 DEF IdentityStarts
  <2> QED BY <2>1, <2>2
<1>3. url' \in [Pages -> Urls]
  BY <1>1 DEF IdentityStops, IdentityStarts, Urls
<1>4. ViewerTypes'
  BY <1>1, <1>2, <1>3 DEF ViewerTypes
<1>5. hub.client \in Nat /\ hub.client <= client
  BY <1>1 DEF Hubs, SocketsKnown
<1>6. SocketsKnown'
  <2>1. hub.client <= client'
    BY <1>1, <1>2, <1>5
  <2> QED BY <1>1, <2>1 DEF SocketsKnown, JoinsOnce
<1>7. ~Live'
  BY <1>1, <1>2, <1>5 DEF Live
<1>8. ButtonKept' /\ LinkFollowed' /\ CastKept' /\ Strip'
  BY <1>1, <1>7 DEF ButtonKept, LinkFollowed, CastKept, CastRight, Strip, Viewing
<1> QED BY <1>4, <1>6, <1>8 DEF ViewerInv

\* The view leaves.
LEMMA UnmountKeeps ==
  ASSUME ViewerInv, Unmount
  PROVE  ViewerInv'
<1>1. /\ ViewerTypes /\ SocketsKnown /\ CastKept /\ LinkFollowed
      /\ mine \in Sockets /\ mine # NoSocket /\ mine' = NoSocket /\ down' = <<>>
      /\ up \in [Sockets -> Seq(Said)] /\ Says(Say("close"))
      /\ UNCHANGED <<running, client, url, hub, sock, view>>
  BY DEF ViewerInv, ViewerTypes, Unmount, SocketOrNone, chrome
<1>2. Say("close") \in Said
  BY DEF Say, Said, PageOrNone
<1>3. /\ up' \in [Sockets -> Seq(Said)]
      /\ \A s \in Sockets : sock[s] = "new" => up'[s] = up[s]
  <2>1. CASE sock[mine] = "open"
    <3>1. Append(up[mine], Say("close")) \in Seq(Said)
      BY <1>1, <1>2, AppendProperties
    <3> QED BY <1>1, <2>1, <3>1 DEF Says
  <2>2. CASE sock[mine] # "open"
    BY <1>1, <2>2 DEF Says
  <2> QED BY <2>1, <2>2
<1>4. UNCHANGED <<OpenPages, Listing>> /\ (Live' <=> Live)
  BY <1>1, PagesStay
<1>5. ViewerTypes'
  BY <1>1, <1>3 DEF ViewerTypes, SocketOrNone, Told
<1>6. SocketsKnown'
  BY <1>1, <1>3 DEF SocketsKnown, JoinsOnce
<1>7. ButtonKept' /\ LinkFollowed' /\ CastKept' /\ Strip'
  BY <1>1, <1>4 DEF ButtonKept, LinkFollowed, CastKept, CastRight, CastLooksOut, Strip, Viewing
<1> QED BY <1>5, <1>6, <1>7 DEF ViewerInv

\* What the events of a page have in common.
LEMMA PageStep ==
  ASSUME ViewerInv, url' \in [Pages -> Urls], hub' \in Hubs,
         UNCHANGED <<running, client, sock, up, mine, down, view>>,
         SameCrowd(hub', hub), hub'.held = hub.held, hub'.left = hub.left,
         hub'.pushes = hub.pushes,
         hub'.cast = hub.cast, hub'.active = hub.active, hub'.frame = hub.frame,
         hub'.watching = hub.watching,
         ~Hears => hub' = hub,
         Hears => /\ JoinsOnce(hub') /\ CastLooksOut(hub', OpenPages')
                  /\ Viewing => StripKept(hub', mine, OpenPages', Listing', down, view)
  PROVE  ViewerInv'
<1>1. /\ ViewerTypes /\ SocketsKnown /\ ButtonKept /\ LinkFollowed /\ CastKept
      /\ hub \in Hubs /\ JoinsOnce(hub)
      /\ hub'.client = hub.client /\ hub'.viewers = hub.viewers /\ hub'.joined = hub.joined
  BY DEF ViewerInv, ViewerTypes, SocketsKnown, SameCrowd
<1>1a. Dragger(hub') = Dragger(hub)
  BY DEF Dragger
<1>2. Live' <=> Live
  BY <1>1 DEF Live
<1>3. ViewerTypes'
  BY <1>1 DEF ViewerTypes
<1>4. SocketsKnown'
  <2>1. JoinsOnce(hub')
    BY <1>1
  <2> QED BY <1>1, <1>1a, <2>1, SocketsStay
<1>5. ButtonKept' /\ LinkFollowed'
  BY <1>1, <1>1a, ButtonStays DEF LinkFollowed
<1>6. CastKept'
  <2>1. CastRight(hub')
    BY <1>1 DEF CastKept, CastRight
  <2>2. ASSUME Live PROVE CastLooksOut(hub', OpenPages')
    <3>1. CASE Hears
      BY <3>1
    <3>2. CASE ~Hears
      <4>1. hub' = hub /\ CastRight(hub) /\ CastLooksOut(hub, OpenPages)
        BY <1>1, <2>2, <3>2 DEF CastKept
      <4>2. ~hub.watching \/ hub.viewers = {}
        BY <2>2, <3>2 DEF Hears
      <4>3. CASE ~hub.watching
        BY <4>1, <4>3 DEF CastRight, CastLooksOut
      <4>4. CASE hub.viewers = {}
        <5>1. CASE hub.jobs = <<>>
          BY <4>1, <4>4, <5>1 DEF CastLooksOut
        <5>2. CASE hub.jobs # <<>>
          <6>1. WillStop(hub.jobs) /\ hub.jobs \in Seq(Jobs)
            BY <1>1, <4>1, <4>4, <5>2 DEF CastLooksOut, Hubs
          <6>2. Len(hub.jobs) \in DOMAIN hub.jobs
            BY <5>2, <6>1
          <6>3. Queued(hub.jobs, {"refresh", "switch", "stop"})
            BY <6>1, <6>2 DEF WillStop, Queued
          <6> QED BY <4>1, <4>4, <6>3 DEF CastLooksOut
        <5> QED BY <5>1, <5>2
      <4> QED BY <4>2, <4>3, <4>4
    <3> QED BY <3>1, <3>2
  <2> QED BY <1>2, <2>1, <2>2 DEF CastKept
<1>7. Strip'
  <2> SUFFICES ASSUME Viewing PROVE StripKept(hub', mine, OpenPages', Listing', down, view)
    BY <1>2 DEF Strip, Viewing
  <2>1. CASE Hears
    BY <2>1
  <2>2. CASE ~Hears
    <3>1. hub' = hub /\ StripKept(hub, mine, OpenPages, Listing, down, view)
      BY <2>2 DEF ViewerInv, Strip
    <3>2. mine \in hub.viewers /\ ~hub.watching
      BY <2>2, <3>1 DEF Hears, Viewing, StripKept
    <3>3. Awaits(hub.jobs, mine) /\ JoinStays(hub.jobs, mine)
      BY <3>1, <3>2 DEF StripKept
    <3> QED BY <3>1, <3>2, <3>3, AwaitsIsEnough
  <2> QED BY <2>1, <2>2
<1> QED BY <1>3, <1>4, <1>5, <1>6, <1>7 DEF ViewerInv

\* onTargetChange.
LEMMA ChangedKeeps ==
  ASSUME ViewerInv, url' \in [Pages -> Urls], Changed,
         UNCHANGED <<running, client, sock, up, mine, down, view>>
  PROVE  ViewerInv'
<1> DEFINE j == [kind |-> "refresh", socket |-> NoSocket]
<1>1. hub \in Hubs /\ JoinsOnce(hub) /\ hub.jobs \in Seq(Jobs) /\ j \in Jobs
  BY DEF ViewerInv, ViewerTypes, SocketsKnown, Hubs, Jobs, SocketOrNone
<1>2. CASE ~Hears
  <2>1. hub' = hub
    BY <1>2 DEF Changed
  <2> QED BY <1>1, <1>2, <2>1, PageStep DEF SameCrowd
<1>3. CASE Hears
  <2>1. hub' = Queues(hub, j.kind, j.socket)
    BY <1>3 DEF Changed
  <2>2. /\ hub' \in Hubs /\ hub'.jobs = Append(hub.jobs, j) /\ hub'.pushes = hub.pushes
        /\ SameCast(hub', hub) /\ SameCrowd(hub', hub) /\ Dragger(hub') = Dragger(hub)
    BY <1>1, <2>1, QueuesIs
  <2>3. j.kind = "refresh"
    OBVIOUS
  <2> HIDE DEF j
  <2>4. /\ Queued(hub'.jobs, {"refresh", "switch"})
        /\ Queued(hub'.jobs, {"refresh", "switch", "stop"})
        /\ \A m : Awaits(hub.jobs, m) => Awaits(hub'.jobs, m)
        /\ NoStopAfter(hub.jobs, 0) => NoStopAfter(hub'.jobs, 0)
        /\ \A m : JoinStays(hub.jobs, m) => JoinStays(hub'.jobs, m)
    BY <1>1, <2>2, <2>3, JobAdded
  <2>5. JoinsOnce(hub')
    BY <1>1, <2>2, <2>3, JoinsOnceMore DEF SameCrowd, JoinsOnce
  <2>6. CastLooksOut(hub', OpenPages')
    BY <1>3, <2>2, <2>4 DEF CastLooksOut, Hears, SameCrowd
  <2>7. ASSUME Viewing PROVE StripKept(hub', mine, OpenPages', Listing', down, view)
    <3>1. StripKept(hub, mine, OpenPages, Listing, down, view)
      BY <2>7 DEF ViewerInv, Strip
    <3>2. Looks(hub', mine)
      BY <2>4 DEF Looks
    <3> QED BY <2>2, <2>4, <3>1, <3>2 DEF StripKept, SameCast, SameCrowd
  <2> QED BY <1>3, <2>2, <2>5, <2>6, <2>7, PageStep DEF SameCast
<1> QED BY <1>2, <1>3

\* onTargetInfoChanged.
LEMMA NavigatedKeeps ==
  ASSUME ViewerInv, NEW p \in OpenPages, Navigated(p),
         UNCHANGED <<running, client, sock, up, mine, down, view>>
  PROVE  ViewerInv'
<1>1. /\ hub \in Hubs /\ JoinsOnce(hub) /\ CastKept
      /\ url \in [Pages -> Urls] /\ p \in Pages
      /\ url' = [url EXCEPT ![p] = "site"]
  BY DEF ViewerInv, ViewerTypes, SocketsKnown, Navigated, OpenPages
<1>2. url' \in [Pages -> Urls] /\ OpenPages' = OpenPages
  BY <1>1 DEF Urls, OpenPages
<1>3. CASE ~Hears
  <2>1. hub' = hub
    BY <1>3 DEF Navigated
  <2> QED BY <1>1, <1>2, <1>3, <2>1, PageStep DEF SameCrowd
<1>4. CASE Hears
  <2>1. hub' = [hub EXCEPT !.info = TRUE]
    BY <1>4 DEF Navigated
  <2>2. /\ hub' \in Hubs /\ SameCrowd(hub', hub) /\ hub'.held = hub.held /\ hub'.left = hub.left
        /\ hub'.pushes = hub.pushes /\ hub'.jobs = hub.jobs /\ hub'.info
        /\ hub'.cast = hub.cast /\ hub'.active = hub.active /\ hub'.frame = hub.frame
        /\ hub'.watching = hub.watching
    BY <1>1, <2>1 DEF Hubs, SameCrowd
  <2>3. JoinsOnce(hub')
    BY <1>1, <2>2 DEF JoinsOnce, SameCrowd
  <2>4. CastLooksOut(hub', OpenPages')
    BY <1>1, <1>2, <1>4, <2>2 DEF CastKept, CastLooksOut, Hears, SameCrowd
  <2>5. ASSUME Viewing PROVE StripKept(hub', mine, OpenPages', Listing', down, view)
    <3>1. StripKept(hub, mine, OpenPages, Listing, down, view)
      BY <2>5 DEF ViewerInv, Strip
    <3> QED BY <1>2, <2>2, <3>1 DEF StripKept, Looks, SameCrowd
  <2> QED BY <1>2, <1>4, <2>2, <2>3, <2>4, <2>5, PageStep
<1> QED BY <1>3, <1>4

\* Pages open, close and navigate.
LEMMA PagesKeep ==
  ASSUME ViewerInv, Served \/ (\E p \in Pages : PageOpens(p) \/ PageMoves(p))
  PROVE  ViewerInv'
<1>1. url \in [Pages -> Urls] /\ UNCHANGED <<running, client, sock, up, mine, down, view>>
  BY DEF ViewerInv, ViewerTypes, Served, PageOpens, PageMoves, wires
<1>2. ASSUME NEW p, PageCloses(p) PROVE ViewerInv'
  <2>1. Changed /\ url' = [url EXCEPT ![p] = "gone"] /\ "gone" \in Urls
    BY <1>2 DEF PageCloses, Urls
  <2>2. url' \in [Pages -> Urls]
    BY <1>1, <2>1
  <2> QED BY <1>1, <2>1, <2>2, ChangedKeeps
<1>3. CASE Served
  <2>1. PICK c \in httpCalls :
          IF c.page \notin OpenPages THEN UNCHANGED <<url, hub>>
          ELSE IF c.kind = "navigate" THEN Navigated(c.page) ELSE PageCloses(c.page)
    BY <1>3 DEF Served
  <2>2. CASE c.page \notin OpenPages
    <3>1. /\ UNCHANGED <<url, hub>> /\ ViewerTypes /\ SocketsKnown /\ ButtonKept
          /\ view \in Views /\ up \in [Sockets -> Seq(Said)] /\ LinkFollowed
      BY <2>1, <2>2 DEF ViewerInv, ViewerTypes
    <3>2. LinkFollowed' /\ ButtonKept'
      BY <1>1, <3>1 DEF LinkFollowed, ButtonKept
    <3>3. SocketsKnown'
      BY <1>1, <3>1 DEF SocketsKnown, JoinsOnce
    <3> QED BY <1>1, <3>1, <3>2, <3>3, ViewStep
  <2>3. CASE c.page \in OpenPages /\ c.kind = "navigate"
    BY <1>1, <2>1, <2>3, NavigatedKeeps
  <2>4. CASE c.page \in OpenPages /\ c.kind # "navigate"
    BY <1>2, <2>1, <2>4
  <2> QED BY <2>2, <2>3, <2>4
<1>4. CASE \E p \in Pages : PageOpens(p)
  <2>1. PICK p \in Pages, u \in {"blank", "site"} : url' = [url EXCEPT ![p] = u] /\ Changed
    BY <1>4 DEF PageOpens
  <2>2. url' \in [Pages -> Urls]
    BY <1>1, <2>1 DEF Urls
  <2> QED BY <1>1, <2>1, <2>2, ChangedKeeps
<1>5. CASE \E p \in Pages : PageMoves(p)
  <2>1. PICK p \in OpenPages : PageCloses(p) \/ Navigated(p)
    BY <1>5 DEF PageMoves
  <2> QED BY <1>1, <1>2, <2>1, NavigatedKeeps
<1> QED BY <1>3, <1>4, <1>5

-----------------------------------------------------------------------------
(* Connections.                                                            *)

\* A hub that is new.
LEMMA HubIs ==
  ASSUME NEW c \in Nat
  PROVE  /\ Hub(c) \in Hubs /\ Hub(c).client = c /\ Hub(c).viewers = {} /\ Hub(c).joined = {}
         /\ Hub(c).jobs = <<>> /\ Hub(c).pushes = <<>> /\ Dragger(Hub(c)) = NoSocket
         /\ CastRight(Hub(c)) /\ Hub(c).cast = NoPage
         /\ JoinsOnce(Hub(c))
<1>1. /\ NoFrame \in Frames /\ NoPage \in PageOrNone /\ NoSocket \in SocketOrNone
      /\ <<>> \in Seq(Jobs) /\ <<>> \in Seq(Pushes) /\ <<>> \in Seq(Cuts)
      /\ [p \in Pages |-> NoSocket] \in [Pages -> SocketOrNone]
  BY DEF NoFrame, Frames, Urls, PageOrNone, SocketOrNone
<1>2. Hub(c) \in Hubs
  BY <1>1 DEF Hub, Hubs
<1>3. DOMAIN <<>> = {}
  OBVIOUS
<1> QED BY <1>2, <1>3 DEF Hub, CastRight, Dragger, JoinsOnce

\* What an upgrade does to the hub and the sockets: the hub stays or is replaced,
\* and s is a viewer of it whose join is queued.
LEMMA AdmitsIs ==
  ASSUME ViewerTypes, SocketsKnown, NEW s \in Sockets, sock[s] = "new", Admits(s)
  PROVE  \E h \in Hubs :
           LET j == [kind |-> "join", socket |-> s] IN
           /\ \/ h = hub /\ hub.client = client
              \/ h = Hub(client) /\ hub.client # client
           /\ s \notin h.viewers /\ j \in Jobs
           /\ hub' \in Hubs /\ hub'.jobs = Append(h.jobs, j) /\ hub'.pushes = h.pushes
           /\ SameCast(hub', h) /\ hub'.client = client /\ hub'.joined = h.joined
           /\ hub'.viewers = h.viewers \cup {s} /\ Dragger(hub') = Dragger(h)
           /\ JoinsOnce(h) /\ JoinsOnce(hub')
<1> DEFINE h == IF hub.client = client THEN hub ELSE Hub(client)
           w == [h EXCEPT !.viewers = h.viewers \cup {s}]
           j == [kind |-> "join", socket |-> s]
<1>1. hub \in Hubs /\ client \in Nat /\ JoinsOnce(hub) /\ s \notin hub.viewers
  BY DEF ViewerTypes, SocketsKnown
<1>2. h \in Hubs /\ h.client = client /\ JoinsOnce(h) /\ s \notin h.viewers
  BY <1>1, HubIs
<1>3. hub' = Queues(w, "join", s)
  BY DEF Admits
<1>4. \/ h = hub /\ hub.client = client
      \/ h = Hub(client) /\ hub.client # client
  OBVIOUS
<1> HIDE DEF h
<1>5. /\ w \in Hubs /\ w.jobs = h.jobs /\ w.pushes = h.pushes /\ SameCast(w, h)
      /\ w.client = client /\ w.joined = h.joined /\ w.viewers = h.viewers \cup {s}
      /\ Dragger(w) = Dragger(h)
  BY <1>2 DEF Hubs, SameCast, Dragger
<1> HIDE DEF w
<1>6. j \in Jobs
  BY DEF Jobs, SocketOrNone
<1>7. /\ Queues(w, j.kind, j.socket) \in Hubs
      /\ Queues(w, j.kind, j.socket).jobs = Append(w.jobs, j)
      /\ Queues(w, j.kind, j.socket).pushes = w.pushes
      /\ SameCast(Queues(w, j.kind, j.socket), w)
      /\ SameCrowd(Queues(w, j.kind, j.socket), w)
      /\ Dragger(Queues(w, j.kind, j.socket)) = Dragger(w)
  BY <1>5, <1>6, QueuesIs
<1>8. /\ hub' \in Hubs /\ hub'.jobs = Append(h.jobs, j) /\ hub'.pushes = h.pushes
      /\ SameCast(hub', h) /\ hub'.client = client /\ hub'.joined = h.joined
      /\ hub'.viewers = h.viewers \cup {s} /\ Dragger(hub') = Dragger(h)
  BY <1>3, <1>5, <1>7 DEF SameCast, SameCrowd
<1>9. JoinsOnce(hub')
  BY <1>2, <1>6, <1>8, JoinsOnceMore DEF JoinsOnce
<1> QED BY <1>2, <1>4, <1>6, <1>8, <1>9

\* What the arrival of s has in common for the view and for somebody else.
LEMMA AdmitsKeeps ==
  ASSUME ViewerInv, NEW s \in Sockets, sock[s] = "new", Admits(s),
         UNCHANGED <<running, client, url, up>>,
         mine' = mine \/ mine' = s, mine' = s => down' = <<>> /\ mine = NoSocket,
         mine' = mine => UNCHANGED <<down, view>>,
         view' \in Views, LinkFollowed'
  PROVE  ViewerInv'
<1>1. /\ ViewerTypes /\ SocketsKnown /\ ButtonKept /\ CastKept /\ hub \in Hubs
      /\ client \in Nat \ {0} /\ mine \in SocketOrNone /\ down \in Seq(Told)
      /\ sock \in [Sockets -> {"new", "open", "closed"}]
      /\ up \in [Sockets -> Seq(Said)]
      /\ s # NoSocket
  BY ViewerAssumption DEF ViewerInv, ViewerTypes
<1> DEFINE j == [kind |-> "join", socket |-> s]
<1>2. PICK h \in Hubs :
        /\ \/ h = hub /\ hub.client = client
           \/ h = Hub(client) /\ hub.client # client
        /\ s \notin h.viewers /\ j \in Jobs
        /\ hub' \in Hubs /\ hub'.jobs = Append(h.jobs, j) /\ hub'.pushes = h.pushes
        /\ SameCast(hub', h) /\ hub'.client = client /\ hub'.joined = h.joined
        /\ hub'.viewers = h.viewers \cup {s} /\ Dragger(hub') = Dragger(h)
        /\ JoinsOnce(h) /\ JoinsOnce(hub')
  BY <1>1, AdmitsIs
<1>3. h.jobs \in Seq(Jobs) /\ j.kind = "join" /\ j.socket = s
  BY <1>2 DEF Hubs
<1> HIDE DEF j
<1>4. /\ \A kinds : Queued(h.jobs, kinds) => Queued(hub'.jobs, kinds)
      /\ Awaits(hub'.jobs, s)
  BY <1>2, <1>3, JobAdded
<1>5. /\ sock' = [t \in Sockets |->
            IF t = s THEN "open"
            ELSE IF t \in Disposed /\ sock[t] = "open" THEN "closed" ELSE sock[t]]
  BY DEF Admits
<1>6. sock' \in [Sockets -> {"new", "open", "closed"}] /\ sock'[s] = "open"
  BY <1>1, <1>5
<1>7. \A t \in Sockets : t # s =>
        /\ sock'[t] = "new" <=> sock[t] = "new"
        /\ sock'[t] = "open" => sock[t] = "open" /\ t \notin Disposed
  BY <1>5
<1>8. ViewerTypes'
  <2>1. mine' \in SocketOrNone /\ <<>> \in Seq(Told)
    BY <1>1 DEF SocketOrNone
  <2>2. down' \in Seq(Told)
    BY <1>1, <2>1
  <2> QED BY <1>1, <1>2, <1>6, <2>1, <2>2 DEF ViewerTypes
<1>8a. /\ Hub(client).viewers = {} /\ Dragger(Hub(client)) = NoSocket
       /\ CastRight(Hub(client)) /\ Hub(client).cast = NoPage
  BY <1>1, HubIs
<1>9. /\ h.viewers \subseteq hub.viewers /\ h.viewers \subseteq Sockets
      /\ (Dragger(h) = Dragger(hub) \/ Dragger(h) = NoSocket)
  <2>1. hub.viewers \subseteq Sockets
    BY <1>1 DEF Hubs
  <2> QED BY <1>2, <1>8a, <2>1
<1>10. SocketsKnown'
  <2>1. hub'.client <= client' /\ hub'.client # 0
    BY <1>1, <1>2
  <2>2. \A t \in hub'.viewers : sock'[t] # "new"
    BY <1>1, <1>2, <1>6, <1>7, <1>9 DEF SocketsKnown
  <2>3. \A t \in Sockets : sock'[t] = "open" => t \in hub'.viewers
    <3> SUFFICES ASSUME NEW t \in Sockets, sock'[t] = "open", t # s PROVE t \in h.viewers
      BY <1>2
    <3>1. t \in hub.viewers /\ t \notin Disposed
      BY <1>1, <1>7 DEF SocketsKnown
    <3>2. hub.client \in {0, client} /\ hub.client # 0
      BY <1>1, <3>1 DEF Disposed, SocketsKnown
    <3> QED BY <1>2, <3>1, <3>2
  <2>4. \A t \in Sockets : sock'[t] = "new" => Dragger(hub') # t /\ up'[t] = <<>>
    <3> SUFFICES ASSUME NEW t \in Sockets, sock'[t] = "new" PROVE Dragger(hub') # t /\ up'[t] = <<>>
      OBVIOUS
    <3>1. sock[t] = "new" /\ t # NoSocket
      BY <1>6, <1>7, ViewerAssumption
    <3> QED BY <1>1, <1>2, <1>9, <3>1 DEF SocketsKnown
  <2>5. mine' # NoSocket =>
          /\ sock'[mine'] # "new"
          /\ \A i \in DOMAIN up'[mine'] : up'[mine'][i].type # "close"
    <3>1. CASE mine' = s
      <4>1. up'[s] = <<>> /\ DOMAIN <<>> = {}
        BY <1>1 DEF SocketsKnown
      <4> QED BY <1>6, <3>1, <4>1
    <3>2. CASE mine' = mine /\ mine' # s
      BY <1>1, <1>7, <3>2 DEF SocketsKnown, SocketOrNone
    <3> QED BY <3>1, <3>2
  <2> QED BY <1>2, <2>1, <2>2, <2>3, <2>4, <2>5 DEF SocketsKnown
<1>11. mine # s
  BY <1>1 DEF SocketsKnown
<1>12. ButtonKept'
  <2>1. CASE mine' = s
    <3>1. up'[s] = <<>> /\ DOMAIN <<>> = {} /\ Dragger(hub) # s
      BY <1>1 DEF SocketsKnown
    <3>2. Dragger(hub') # mine'
      BY <1>1, <1>2, <1>9, <2>1, <3>1
    <3> QED BY <2>1, <3>1, <3>2 DEF ButtonKept
  <2>2. CASE mine' = mine
    <3> SUFFICES ASSUME mine # NoSocket
                 PROVE  /\ Dragger(hub') = mine =>
                             /\ mine \in hub'.joined /\ sock'[mine] = "open"
                             /\ KeepsDown(up[mine], 0) => view.holding
                        /\ sock'[mine] = "open" =>
                             \A n \in DOMAIN up[mine] :
                               up[mine][n].type = "press" /\ KeepsDown(up[mine], n) => view.holding
      BY <2>2 DEF ButtonKept
    <3>1. mine \in Sockets
      BY <1>1 DEF SocketOrNone
    <3>2. sock'[mine] = "open" => sock[mine] = "open"
      BY <1>7, <1>11, <3>1
    <3>3. Dragger(hub') = mine => h = hub /\ hub.client = client /\ Disposed = {}
      BY <1>1, <1>2, <1>8a DEF Disposed
    <3>4. Dragger(hub') = mine => hub'.joined = hub.joined /\ sock'[mine] = sock[mine]
      BY <1>2, <1>5, <1>11, <3>1, <3>3
    <3> QED BY <1>1, <1>2, <3>2, <3>3, <3>4 DEF ButtonKept
  <2> QED BY <2>1, <2>2
<1>13. UNCHANGED <<OpenPages, Listing>> /\ Live'
  BY <1>1, <1>2 DEF OpenPages, Listing, Live, Admits
<1>14. CastKept'
  <2>1. /\ CastRight(h)
        /\ h.cast \notin OpenPages \cup {NoPage} => Queued(h.jobs, {"refresh", "switch", "stop"})
    <3>1. CASE h = hub /\ hub.client = client
      <4>1. Live
        BY <3>1 DEF Live, Admits
      <4> QED BY <1>1, <3>1, <4>1 DEF CastKept, CastLooksOut
    <3>2. CASE h = Hub(client)
      BY <1>8a, <3>2
    <3> QED BY <1>2, <3>1, <3>2
  <2>2. CastRight(hub')
    BY <1>2, <2>1 DEF CastRight, SameCast
  <2>3. CastLooksOut(hub', OpenPages)
    BY <1>2, <1>4, <2>1 DEF CastLooksOut, SameCast
  <2> QED BY <1>13, <2>2, <2>3 DEF CastKept
<1>15. Strip'
  <2> SUFFICES ASSUME mine' # NoSocket, sock'[mine'] = "open"
               PROVE  StripKept(hub', mine', OpenPages, Listing, down', view')
    BY <1>13 DEF Strip, Viewing
  <2>1. CASE mine' = s
    <3>1. JoinStays(hub'.jobs, s)
      <4> SUFFICES ASSUME NEW n \in DOMAIN hub'.jobs, hub'.jobs[n].kind = "join",
                          hub'.jobs[n].socket = s
                   PROVE  NoStopAfter(hub'.jobs, n)
        BY DEF JoinStays
      <4>1. \/ n \in DOMAIN h.jobs /\ hub'.jobs[n] = h.jobs[n]
            \/ n = Len(h.jobs) + 1
        BY <1>2, <1>3, JobAdded
      <4>2. n \notin DOMAIN h.jobs \/ hub'.jobs[n] # h.jobs[n]
        BY <1>2 DEF JoinsOnce
      <4>3. Len(hub'.jobs) = n /\ DOMAIN hub'.jobs = 1..Len(hub'.jobs) /\ n \in Nat
        BY <1>2, <1>3, <4>1, <4>2, AppendProperties
      <4> QED BY <4>3 DEF NoStopAfter
    <3> QED BY <1>2, <1>4, <2>1, <3>1, AwaitsIsEnough
  <2>2. CASE mine' = mine
    <3>1. mine \in Sockets /\ sock[mine] = "open" /\ mine \notin Disposed
      BY <1>1, <1>7, <1>11, <2>2 DEF SocketOrNone
    <3>2. mine \in hub.viewers
      BY <1>1, <3>1 DEF SocketsKnown
    <3>3. hub.client = client /\ h = hub
      BY <1>1, <1>2, <3>1, <3>2 DEF Disposed, SocketsKnown
    <3>4. Viewing
      BY <2>2, <3>1, <3>3 DEF Viewing, Live, Admits
    <3>5. StripKept(hub, mine, OpenPages, Listing, down, view)
      BY <3>4 DEF ViewerInv, Strip
    <3>6. mine \in hub'.viewers
      BY <1>2, <3>2, <3>3
    <3>7. SamePicture(hub', hub)
      BY <1>2, <3>3 DEF SameCast, SamePicture
    <3> QED BY <1>1, <1>2, <1>3, <2>2, <3>3, <3>5, <3>6, <3>7, StripStays
  <2> QED BY <2>1, <2>2
<1> QED BY <1>8, <1>10, <1>12, <1>14, <1>15 DEF ViewerInv

\* The view connects, or somebody else does.
LEMMA ConnectionsKeep ==
  ASSUME ViewerInv, NEW s \in Sockets, Mount(s) \/ OtherJoins(s)
  PROVE  ViewerInv'
<1>1. /\ view \in Views /\ LinkFollowed /\ sock[s] = "new" /\ Admits(s)
      /\ UNCHANGED <<running, client, url, up>>
  BY DEF ViewerInv, ViewerTypes, Mount, OtherJoins, NextSocket, chrome
<1>2. CASE Mount(s)
  <2>1. PICK link \in PageOrNone, kept \in BOOLEAN, waiting \in BOOLEAN :
          view' = IF kept
                  THEN [FreshView(link) EXCEPT
                         !.asked = view.asked, !.waiting = waiting, !.holding = view.holding,
                         !.picked = view.picked /\ link = view.link]
                  ELSE FreshView(link)
    BY <1>2 DEF Mount, PageOrNone
  <2>2. NoFrame \in Frames /\ NoPage \in PageOrNone /\ <<>> \in TabLists
    BY DEF NoFrame, Frames, Urls, PageOrNone, TabLists
  <2>3. FreshView(link) \in Views /\ FreshView(link).picked = FALSE /\ FreshView(link).link = link
    BY <2>2 DEF FreshView, Views
  <2>4. (view.picked /\ link = view.link) \in BOOLEAN
    OBVIOUS
  <2>5. /\ view' \in Views /\ view'.link = link
        /\ view'.picked => view.picked /\ link = view.link /\ view'.asked = view.asked
    <3>1. CASE kept
      BY <1>1, <2>1, <2>2, <2>4, <3>1 DEF FreshView, Views
    <3>2. CASE ~kept
      BY <2>1, <2>3, <3>2
    <3> QED BY <3>1, <3>2
  <2>6. LinkFollowed'
    BY <1>1, <2>5 DEF LinkFollowed
  <2>7. mine' = s /\ mine = NoSocket /\ down' = <<>>
    BY <1>2 DEF Mount
  <2>8. mine' # mine
    BY <2>7, ViewerAssumption
  <2> QED BY <1>1, <2>5, <2>6, <2>7, <2>8, AdmitsKeeps
<1>3. CASE OtherJoins(s)
  <2>1. UNCHANGED <<mine, down, view>>
    BY <1>3 DEF OtherJoins
  <2>2. mine' # s
    BY <1>1, <2>1, ViewerAssumption DEF ViewerInv, SocketsKnown
  <2>3. LinkFollowed'
    BY <1>1, <2>1 DEF LinkFollowed
  <2> QED BY <1>1, <2>1, <2>2, <2>3, AdmitsKeeps
<1> QED BY <1>2, <1>3

-----------------------------------------------------------------------------
(* The invariant of Viewer holds.                                          *)

\* The view starts in the invariant.
LEMMA ViewerInitially ==
  ASSUME ViewerInit
  PROVE  ViewerInv
<1>1. /\ hub = Hub(0) /\ mine = NoSocket /\ down = <<>> /\ view = FreshView(NoPage)
      /\ running = TRUE /\ client = 1
      /\ sock = [s \in Sockets |-> "new"] /\ up = [s \in Sockets |-> <<>>]
      /\ url \in [Pages -> {"none", "site"}]
  BY DEF ViewerInit
<1>2. /\ hub \in Hubs /\ hub.client = 0 /\ hub.viewers = {} /\ Dragger(hub) = NoSocket
      /\ CastRight(hub) /\ JoinsOnce(hub)
  BY <1>1, HubIs
<1>3. view \in Views /\ view.picked = FALSE
  <2>1. NoFrame \in Frames /\ NoPage \in PageOrNone /\ <<>> \in TabLists
    BY DEF NoFrame, Frames, Urls, PageOrNone, TabLists
  <2> QED BY <1>1, <2>1 DEF FreshView, Views
<1>4. ViewerTypes
  <2>1. <<>> \in Seq(Told) /\ <<>> \in Seq(Said)
    OBVIOUS
  <2>2. up \in [Sockets -> Seq(Said)] /\ sock \in [Sockets -> {"new", "open", "closed"}]
    BY <1>1, <2>1
  <2>3. url \in [Pages -> Urls]
    BY <1>1 DEF Urls
  <2>4. running \in BOOLEAN
    BY <1>1
  <2>5. client \in Nat \ {0}
    BY <1>1
  <2> QED BY <1>1, <1>2, <1>3, <2>1, <2>2, <2>3, <2>4, <2>5 DEF ViewerTypes, SocketOrNone
<1>5. SocketsKnown
  BY <1>1, <1>2, ViewerAssumption DEF SocketsKnown
<1>6. ButtonKept /\ LinkFollowed /\ CastKept /\ Strip
  BY <1>1, <1>2, <1>3 DEF ButtonKept, LinkFollowed, CastKept, Live, Strip, Viewing
<1> QED BY <1>4, <1>5, <1>6 DEF ViewerInv

\* Every step keeps the invariant.
LEMMA ViewerStep ==
  ASSUME ViewerInv, [ViewerNext]_viewerVars
  PROVE  ViewerInv'
<1>1. CASE RunJoin
  BY <1>1, RunJoinKeeps
<1>2. CASE RunSwitch
  BY <1>2, RunSwitchKeeps
<1>3. CASE RunStop
  BY <1>3, RunStopKeeps
<1>4. CASE JobFails
  BY <1>4, JobFailsKeeps
<1>5. CASE InfoPush
  BY <1>5, InfoPushKeeps
<1>6. CASE ListRead
  BY <1>6, ListReadKeeps
<1>7. CASE ListSent
  BY <1>7, ListSentKeeps
<1>8. CASE Repaint
  BY <1>8, RepaintKeeps
<1>9. CASE \E i \in DOMAIN hub.cuts : CutReads(i) \/ CutDeletes(i)
  BY <1>9, CutsKeep
<1>10. CASE \E s \in Sockets : Receive(s)
  BY <1>10, ReceiveKeeps
<1>11. CASE \E s \in Sockets : Mount(s) \/ OtherJoins(s)
  BY <1>11, ConnectionsKeep
<1>12. CASE \/ Submit \/ Release \/ \E s \in Sockets : OtherSays(s)
            \/ UNCHANGED viewerVars
  BY <1>12, QuietSteps
<1>13. CASE Unmount
  BY <1>13, UnmountKeeps
<1>14. CASE OnMessage
  BY <1>14, OnMessageKeeps
<1>15. CASE PressButton \/ LetGo \/ Keys
  BY <1>15, ButtonsKeep
<1>16. CASE Served \/ \E p \in Pages : PageOpens(p) \/ PageMoves(p)
  BY <1>16, PagesKeep
<1>17. CASE \E p \in Pages : Pick(p)
  BY <1>17, PickKeeps
<1>18. CASE IdentityStops \/ IdentityStarts
  BY <1>18, IdentityKeeps
<1> QED BY <1>1, <1>2, <1>3, <1>4, <1>5, <1>6, <1>7, <1>8, <1>9, <1>10, <1>11, <1>12,
           <1>13, <1>14, <1>15, <1>16, <1>17, <1>18 DEF ViewerNext

\* The invariant holds of every behaviour.
LEMMA ViewerInvariant == ViewerSpec => []ViewerInv
<1>1. ViewerInit => ViewerInv
  BY ViewerInitially
<1>2. ViewerInv /\ [ViewerNext]_viewerVars => ViewerInv'
  BY ViewerStep
<1> QED BY <1>1, <1>2, PTL DEF ViewerSpec

\* When nothing is on its way, what the view will show is what it shows.
LEMMA SettledStrip ==
  ASSUME ViewerInv
  PROVE  StripConverges
<1> SUFFICES ASSUME mine # NoSocket, sock[mine] = "open", Live, Settled
             PROVE  /\ view.list = Listing
                    /\ view.waiting = (OpenPages = {})
                    /\ OpenPages # {} =>
                         /\ view.tab \in OpenPages
                         /\ view.image = [page |-> view.tab, url |-> url[view.tab]]
  BY DEF StripConverges
<1>1. /\ StripKept(hub, mine, OpenPages, Listing, down, view)
      /\ CastLooksOut(hub, OpenPages) /\ CastRight(hub)
      /\ view.waiting \in BOOLEAN
  BY DEF ViewerInv, Strip, Viewing, CastKept, ViewerTypes, Views
<1>2. /\ down = <<>> /\ hub.jobs = <<>> /\ hub.pushes = <<>> /\ ~hub.info /\ DOMAIN <<>> = {}
      /\ hub.cast \in OpenPages => hub.frame = [page |-> hub.cast, url |-> url[hub.cast]]
  BY DEF Settled
<1>3. /\ ~Awaits(hub.jobs, mine) /\ ~Looks(hub, mine) /\ ~Pushing(hub.pushes, mine)
      /\ ~WillPush(hub.pushes, mine, Listing)
      /\ ~Queued(hub.jobs, {"refresh", "switch", "stop"})
  BY <1>2 DEF Awaits, Looks, Queued, Pushing, WillPush
<1>4. \A types : Silent(down, types)
  BY <1>2 DEF Silent
<1>5. view.list = Listing
  BY <1>1, <1>2, <1>3, <1>4 DEF StripKept, WillList
<1>6. hub.cast \in OpenPages \cup {NoPage}
  BY <1>1, <1>3 DEF CastLooksOut
<1>7. CASE OpenPages = {}
  <2>1. WillWait(down, view)
    BY <1>1, <1>3, <1>6, <1>7 DEF StripKept
  <2>2. view.waiting
    BY <1>4, <2>1 DEF WillWait
  <2> QED BY <1>1, <1>5, <1>7, <2>2
<1>8. CASE OpenPages # {}
  <2>1. hub.cast \in OpenPages /\ hub.cast # NoPage
    BY <1>1, <1>3, <1>6, <1>8 DEF StripKept
  <2>2. view.tab = hub.cast
    BY <1>1, <1>3, <1>4, <2>1 DEF StripKept, CastRight, WillMark
  <2>3. hub.frame = [page |-> hub.cast, url |-> url[hub.cast]] /\ hub.frame # NoFrame
    BY <1>2, <2>1 DEF NoFrame
  <2>4. view.image = hub.frame /\ ~view.waiting
    BY <1>1, <1>3, <1>4, <2>3 DEF StripKept, WillShow
  <2> QED BY <1>1, <1>5, <1>8, <2>1, <2>2, <2>3, <2>4
<1> QED BY <1>7, <1>8

\* For every number of pages, viewers and acts: once nothing is under way between
\* the hub and the view, the view of a connected human shows the tabs Chrome has,
\* marks one that is open, and its picture is of that tab; it says that it waits
\* exactly if there is no tab (takeover.ts:208-219, 287-313).
THEOREM ViewTellsTheTruth == ViewerSpec => []StripConverges
<1>1. ViewerInv => StripConverges
  BY SettledStrip
<1> QED BY <1>1, ViewerInvariant, PTL

\* For every number of pages, viewers and acts: a button that the view pressed in
\* the page that is cast does not stay down once the human has let go and the
\* view's messages have arrived, unless the cast left the page during the drag
\* (TakeoverView.tsx:264-291, takeover.ts:251-262).
THEOREM NoDragGoesOn == ViewerSpec => []ButtonComesUp
<1>1. ViewerInv => ButtonComesUp
  <2> SUFFICES ASSUME ViewerInv, mine # NoSocket, up[mine] = <<>>, hub.cast # NoPage,
                      hub.held[hub.cast] = mine, hub.cast \notin hub.left
               PROVE  view.holding
    BY DEF ButtonComesUp
  <2>1. DOMAIN <<>> = {}
    OBVIOUS
  <2>2. KeepsDown(up[mine], 0)
    BY <2>1 DEF KeepsDown
  <2>3. Dragger(hub) = mine
    BY DEF Dragger
  <2> QED BY <2>2, <2>3 DEF ViewerInv, ButtonKept
<1> QED BY <1>1, ViewerInvariant, PTL

\* For every number of pages, viewers and acts: no list that arrives makes the view
\* follow its link once the human has picked a tab since it was followed
\* (TakeoverView.tsx:79-81, 146).
THEOREM PickIsKept == ViewerSpec => PickSticks
<1>1. ViewerInv /\ [ViewerNext]_viewerVars =>
        [OnMessage /\ mine # NoSocket /\ up' # up => ~view.picked]_viewerVars
  <2> SUFFICES ASSUME ViewerInv, OnMessage, up' # up PROVE ~view.picked
    OBVIOUS
  <2>1. view.asked # view.link
    <3> SUFFICES ASSUME view.asked = view.link PROVE up' = up
      OBVIOUS
    <3>1. Head(down) \in Told
      <4>1. down \in Seq(Told) /\ down # <<>>
        BY DEF ViewerInv, ViewerTypes, OnMessage, Reads
      <4> QED BY <4>1, HeadTailProperties
    <3>2. Head(down).type \in {"frame", "waiting", "clipboard", "targets"}
      BY <3>1 DEF Told
    <3> QED BY <3>2 DEF OnMessage, Reads
  <2> QED BY <2>1 DEF ViewerInv, LinkFollowed
<1> QED BY <1>1, ViewerInvariant, PTL DEF ViewerSpec, PickSticks

=============================================================================
