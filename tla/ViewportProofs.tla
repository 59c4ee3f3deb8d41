--------------------------- MODULE ViewportProofs ---------------------------
(***************************************************************************)
(* Tabs are sized soundly for any number of tabs, calls, sizes and bars,   *)
(* and any number of changes of what surrounds a content: a resize that    *)
(* was let alone lands, no lease is lost with a failed resize, and the     *)
(* fields of the dashboard never pass off the size of another tab, once no *)
(* read is outstanding, as that of the selected one.                       *)
(*                                                                         *)
(* A resize is five awaits; what each of them must have left for the next  *)
(* one to be right is the invariant (Underway): while nobody else touches  *)
(* the window, what the call remembers of it is what the window still is.  *)
(***************************************************************************)
EXTENDS Viewport, TLAPS

Sizing(c) == call[c] # None /\ call[c].kind # "read"

\* What a call that had the window to itself has of it.
Underway(c) ==
  LET t == call[c].tab
      fitted == outer[t] = Larger(call[c].want + bar[t], MinOuter)
  IN  /\ call[c].step = "delta" => call[c].bounds = outer[t]
      /\ call[c].step = "set" => call[c].delta = bar[t]
      /\ call[c].step = "measure" => fitted
      /\ call[c].got # None => fitted /\ call[c].got = Content(t)

\* A call wants a size as long as it has one to give, and measures last; a read does
\* nothing else.
Wants ==
  \A c \in Calls : call[c] # None =>
    /\ Sizing(c) /\ (call[c].step # "done" \/ call[c].got # None) => call[c].want \in Nat
    /\ call[c].got # None => call[c].step \in {"answer", "done"}
    /\ call[c].kind = "read" => call[c].step \in {"measure", "answer", "done"}

AloneIsRight == \A c \in Calls : Sizing(c) /\ call[c].alone => Underway(c)

\* The calls of the controls are at work and of the right kind.
ControlsWait ==
  /\ controls.reading # None =>
       /\ InFlight(controls.reading)
       /\ call[controls.reading].kind = "read"
       /\ call[controls.reading].tab = controls.tab
  /\ controls.applying # None =>
       InFlight(controls.applying) /\ call[controls.applying].kind = "resize"
  /\ controls.viewport # None =>
       call[controls.viewport] # None /\ controls.draft \in {controls.viewport, None}

IInv ==
  /\ TypeOK
  /\ Wants
  /\ AloneIsRight
  /\ ControlsWait
  /\ LeasesAreReported
  /\ FieldsFollowTab

-----------------------------------------------------------------------------
(* Facts about records and the size of windows.                            *)

LEMMA MadeIsNotNone == \A r \in Made : r # None
BY ViewportAssumption

\* A call that was made is a record, each field of its type.
LEMMA Fields ==
  ASSUME TypeOK, NEW c \in Calls, call[c] # None
  PROVE  /\ call[c] \in Made
         /\ call[c].kind \in {"alloc", "resize", "read"} /\ call[c].tab \in Tabs
         /\ call[c].step \in {"bounds", "delta", "set", "measure", "answer", "done"}
         /\ call[c].want \in Nat \cup {None}
         /\ call[c].bounds \in Int /\ call[c].delta \in Int /\ call[c].got \in Int \cup {None}
BY DEF TypeOK, Made

LEMMA SizeIsNat ==
  ASSUME NEW a \in Int, NEW n \in Nat
  PROVE  Larger(a, n) \in Nat /\ Larger(n, a) \in Nat
BY DEF Larger

\* A call that is refused, or is past its corrections, forgets what it read.
LEMMA Zeroed ==
  ASSUME NEW r \in Made, NEW s \in {"measure", "answer"}
  PROVE  [r EXCEPT !.step = s, !.bounds = 0, !.delta = 0] \in Made
<1>1. [r EXCEPT !.step = s] \in Made
  BY DEF Made
<1>2. \A q \in Made : [q EXCEPT !.bounds = 0] \in Made
  BY DEF Made
<1>3. \A q \in Made : [q EXCEPT !.delta = 0] \in Made
  BY DEF Made
<1>4. [r EXCEPT !.step = s, !.bounds = 0, !.delta = 0]
        = [[[r EXCEPT !.step = s] EXCEPT !.bounds = 0] EXCEPT !.delta = 0]
  BY DEF Made
<1> QED BY <1>1, <1>2, <1>3, <1>4

\* A call at work goes on by itself: it stays of its kind, on its tab, wants what it
\* wanted, and nothing happens to the windows.
LEMMA CallMovesOn ==
  ASSUME IInv, NEW c \in Calls, call[c] # None, NEW r \in Made,
         call' = [call EXCEPT ![c] = r],
         r.kind = call[c].kind, r.tab = call[c].tab, r.want = call[c].want,
         r.alone = call[c].alone, call[c].step # "done",
         r.got # None => r.step \in {"answer", "done"},
         r.kind = "read" => r.step \in {"measure", "answer", "done"},
         UNCHANGED <<outer, bar>>,
         call[c].kind # "read" /\ call[c].alone => Underway(c)'
  PROVE  /\ call' \in [Calls -> {None} \cup Made]
         /\ Wants' /\ AloneIsRight'
         /\ \A d \in Calls : call[d] # None =>
              /\ call'[d] # None
              /\ call'[d].kind = call[d].kind /\ call'[d].tab = call[d].tab
         /\ \A d \in Calls \ {c} : call'[d] = call[d]
         /\ call'[c] = r
<1>1. call \in [Calls -> {None} \cup Made] /\ call[c] \in Made /\ r # None
  BY MadeIsNotNone DEF IInv, TypeOK
<1>2. call' \in [Calls -> {None} \cup Made]
  BY <1>1
<1>3. call'[c] = r /\ \A d \in Calls \ {c} : call'[d] = call[d]
  BY <1>1
<1>4. Wants'
  <2>1. SUFFICES ASSUME NEW d \in Calls, call'[d] # None
                 PROVE  /\ call'[d].kind # "read" /\ (call'[d].step # "done" \/ call'[d].got # None)
                             => call'[d].want \in Nat
                        /\ call'[d].got # None => call'[d].step \in {"answer", "done"}
                        /\ call'[d].kind = "read" =>
                             call'[d].step \in {"measure", "answer", "done"}
    BY DEF Wants, Sizing
  <2>2. CASE d = c
    BY <1>1, <1>3, <2>1, <2>2 DEF IInv, Wants, Sizing
  <2>3. CASE d # c
    BY <1>3, <2>1, <2>3 DEF IInv, Wants, Sizing
  <2> QED BY <2>2, <2>3
<1>5. AloneIsRight'
  <2>1. SUFFICES ASSUME NEW d \in Calls, Sizing(d)', call'[d].alone
                 PROVE  Underway(d)'
    BY DEF AloneIsRight
  <2>2. CASE d = c
    BY <1>3, <2>1, <2>2 DEF Sizing
  <2>3. CASE d # c
    <3>1. call'[d] = call[d]
      BY <1>3, <2>3
    <3>2. Underway(d)
      BY <2>1, <3>1 DEF IInv, AloneIsRight, Sizing
    <3> QED BY <3>1, <3>2 DEF Underway, Content
  <2> QED BY <2>2, <2>3
<1> QED BY <1>1, <1>2, <1>3, <1>4, <1>5

\* The controls wait for the same calls, which go on, and show the same one.
LEMMA ControlsStay ==
  ASSUME IInv, UNCHANGED controls,
         \A d \in Calls : call[d] # None =>
           /\ call'[d] # None
           /\ call'[d].kind = call[d].kind /\ call'[d].tab = call[d].tab
           /\ InFlight(d) => InFlight(d)'
  PROVE  ControlsWait' /\ FieldsFollowTab'
<1>1. controls.reading \in Calls \cup {None} /\ controls.applying \in Calls \cup {None}
      /\ controls.viewport \in Calls \cup {None}
  BY DEF IInv, TypeOK
<1>2. \A d \in Calls : InFlight(d) => call[d] # None
  BY DEF InFlight
<1>3. ControlsWait'
  BY <1>1, <1>2 DEF IInv, ControlsWait
<1>4. FieldsFollowTab'
  BY <1>1 DEF IInv, ControlsWait, FieldsFollowTab
<1> QED BY <1>3, <1>4

\* Leases that were reported, or whose call is at work, stay so.
LEMMA LeasesStay ==
  ASSUME IInv, reported \subseteq reported',
         \A t \in leased' \ leased :
           t \in reported' \/ \E c \in On(t)' : call'[c].kind = "alloc" /\ InFlight(c)',
         \A d \in Calls : InFlight(d) =>
           /\ call'[d] # None
           /\ call'[d].kind = call[d].kind /\ call'[d].tab = call[d].tab
           /\ InFlight(d)' \/ (call[d].kind = "alloc" => call[d].tab \in reported')
  PROVE  LeasesAreReported'
<1>1. SUFFICES ASSUME NEW t \in leased', t \notin reported'
               PROVE  \E c \in On(t)' : call'[c].kind = "alloc" /\ InFlight(c)'
  BY DEF LeasesAreReported
<1>2. CASE t \notin leased
  BY <1>1, <1>2
<1>3. CASE t \in leased
  <2>1. PICK c \in On(t) : call[c].kind = "alloc" /\ InFlight(c)
    BY <1>1, <1>3 DEF IInv, LeasesAreReported
  <2>2. c \in Calls /\ call[c].tab = t
    BY DEF On
  <2>3. call'[c] # None /\ call'[c].kind = "alloc" /\ call'[c].tab = t /\ InFlight(c)'
    BY <1>1, <2>1, <2>2
  <2>4. c \in On(t)'
    BY <2>2, <2>3 DEF On
  <2> QED BY <2>3, <2>4
<1> QED BY <1>2, <1>3

-----------------------------------------------------------------------------
(* The steps of a call.                                                    *)

\* A step in which a call only goes on, and is at work afterwards.
LEMMA OnlyMovesOn ==
  ASSUME IInv, NEW c \in Calls, call[c] # None, NEW r \in Made,
         call' = [call EXCEPT ![c] = r], Stays,
         r.kind = call[c].kind, r.tab = call[c].tab, r.want = call[c].want,
         r.alone = call[c].alone, call[c].step # "done", r.step # "done",
         r.got # None => r.step = "answer", r.kind = "read" => r.step = "answer",
         call[c].kind # "read" /\ call[c].alone => Underway(c)'
  PROVE  IInv'
<1>1. UNCHANGED <<outer, bar, leased, reported, controls>>
  BY DEF Stays, chrome
<1>2. /\ call' \in [Calls -> {None} \cup Made]
      /\ Wants' /\ AloneIsRight'
      /\ \A d \in Calls : call[d] # None =>
           /\ call'[d] # None
           /\ call'[d].kind = call[d].kind /\ call'[d].tab = call[d].tab
      /\ \A d \in Calls \ {c} : call'[d] = call[d]
      /\ call'[c] = r
  BY <1>1, CallMovesOn
<1>3. \A d \in Calls : InFlight(d) => InFlight(d)' /\ call[d] # None
  BY <1>2 DEF InFlight
<1>4. TypeOK'
  BY <1>2 DEF IInv, TypeOK, Stays, chrome, settings
<1>5. LeasesAreReported'
  BY <1>1, <1>2, <1>3, LeasesStay
<1>6. ControlsWait' /\ FieldsFollowTab'
  BY <1>1, <1>2, <1>3, ControlsStay
<1> QED BY <1>2, <1>4, <1>5, <1>6 DEF IInv

LEMMA ReadBoundsKeeps ==
  ASSUME IInv, NEW c \in Calls, ReadBounds(c)
  PROVE  IInv'
<1> DEFINE r == [call[c] EXCEPT !.step = "delta", !.bounds = outer[call[c].tab]]
<1>1. call[c] # None /\ call[c].step = "bounds" /\ Stays
  BY DEF ReadBounds, InFlight
<1>2. call[c] \in Made /\ call[c].got = None /\ call[c].kind # "read"
  BY <1>1, Fields DEF IInv, Wants
<1>3. outer[call[c].tab] \in Int /\ call[c].tab \in Tabs
  BY <1>2 DEF IInv, TypeOK, Made
<1>4. /\ r \in Made /\ r.kind = call[c].kind /\ r.tab = call[c].tab /\ r.want = call[c].want
      /\ r.alone = call[c].alone /\ r.got = None /\ r.step = "delta"
      /\ r.bounds = outer[call[c].tab]
  BY <1>2, <1>3 DEF Made
<1>5. call' = [call EXCEPT ![c] = r]
  BY DEF ReadBounds
<1>6. call'[c] = r
  BY <1>5 DEF IInv, TypeOK
<1>7. UNCHANGED <<outer, bar>>
  BY <1>1 DEF Stays, chrome
<1>8. Underway(c)'
  BY <1>4, <1>6, <1>7 DEF Underway
<1> HIDE DEF r
<1> QED BY <1>1, <1>2, <1>4, <1>5, <1>8, OnlyMovesOn

LEMMA ReadContentKeeps ==
  ASSUME IInv, NEW c \in Calls, ReadContent(c)
  PROVE  IInv'
<1> DEFINE r == [call[c] EXCEPT !.step = "set", !.delta = call[c].bounds - Content(call[c].tab)]
<1>1. call[c] # None /\ call[c].step = "delta" /\ Stays
  BY DEF ReadContent, InFlight
<1>2. call[c] \in Made /\ call[c].got = None /\ call[c].kind # "read"
  BY <1>1, Fields DEF IInv, Wants
<1>3. outer[call[c].tab] \in Int /\ bar[call[c].tab] \in Int /\ call[c].bounds \in Int
  BY <1>2, ViewportAssumption DEF IInv, TypeOK, Made
<1>4. call[c].bounds - Content(call[c].tab) \in Int
  BY <1>3 DEF Content
<1>5. /\ r \in Made /\ r.kind = call[c].kind /\ r.tab = call[c].tab /\ r.want = call[c].want
      /\ r.alone = call[c].alone /\ r.got = None /\ r.step = "set"
      /\ r.delta = call[c].bounds - Content(call[c].tab)
  BY <1>2, <1>4 DEF Made
<1>6. call' = [call EXCEPT ![c] = r]
  BY DEF ReadContent
<1>7. call'[c] = r
  BY <1>6 DEF IInv, TypeOK
<1>8. UNCHANGED <<outer, bar>>
  BY <1>1 DEF Stays, chrome
<1>9. ASSUME call[c].kind # "read", call[c].alone
      PROVE  Underway(c)'
  <2>1. call[c].bounds = outer[call[c].tab]
    BY <1>1, <1>9 DEF IInv, AloneIsRight, Underway, Sizing
  <2>2. r.delta = bar[call[c].tab]
    BY <1>3, <1>5, <2>1 DEF Content
  <2> HIDE DEF r
  <2> QED BY <1>5, <1>7, <1>8, <2>2 DEF Underway
<1> HIDE DEF r
<1> QED BY <1>1, <1>2, <1>5, <1>6, <1>9, OnlyMovesOn

LEMMA MeasureKeeps ==
  ASSUME IInv, NEW c \in Calls, Measure(c)
  PROVE  IInv'
<1> DEFINE r == [call[c] EXCEPT !.step = "answer", !.got = Content(call[c].tab)]
<1>1. call[c] # None /\ call[c].step = "measure" /\ Stays
  BY DEF Measure, InFlight
<1>2. call[c] \in Made
  BY <1>1, Fields DEF IInv
<1>3. outer[call[c].tab] \in Int /\ bar[call[c].tab] \in Int
  <2>1. call[c].tab \in Tabs
    BY <1>2 DEF Made
  <2>2. outer[call[c].tab] \in Nat /\ bar[call[c].tab] \in Bars
    BY <2>1 DEF IInv, TypeOK
  <2>3. bar[call[c].tab] \in Nat
    BY <2>2, ViewportAssumption
  <2> QED BY <2>2, <2>3
<1>4. Content(call[c].tab) \in Int
  BY <1>3 DEF Content
<1>5. /\ r \in Made /\ r.kind = call[c].kind /\ r.tab = call[c].tab /\ r.want = call[c].want
      /\ r.alone = call[c].alone /\ r.got = Content(call[c].tab) /\ r.step = "answer"
  BY <1>2, <1>4 DEF Made
<1>6. call' = [call EXCEPT ![c] = r]
  BY DEF Measure
<1>7. call'[c] = r
  BY <1>6 DEF IInv, TypeOK
<1>8. UNCHANGED <<outer, bar>>
  BY <1>1 DEF Stays, chrome
<1>9. ASSUME call[c].kind # "read", call[c].alone
      PROVE  Underway(c)'
  <2>1. outer[call[c].tab] = Larger(call[c].want + bar[call[c].tab], MinOuter)
    BY <1>1, <1>9 DEF IInv, AloneIsRight, Underway, Sizing
  <2> HIDE DEF r
  <2> QED BY <1>5, <1>7, <1>8, <2>1 DEF Underway, Content
<1> HIDE DEF r
<1> QED BY <1>1, <1>5, <1>6, <1>9, OnlyMovesOn

LEMMA RefusedKeeps ==
  ASSUME IInv, NEW c \in Calls, Refused(c)
  PROVE  IInv'
<1> DEFINE r == [call[c] EXCEPT !.step = "answer", !.bounds = 0, !.delta = 0]
<1>1. call[c] # None /\ call[c].step \in {"bounds", "delta", "set", "measure"} /\ Stays
  BY DEF Refused, InFlight
<1>2. call[c] \in Made /\ call[c].got = None
  BY <1>1, Fields DEF IInv, Wants
<1>3. /\ r \in Made /\ r.kind = call[c].kind /\ r.tab = call[c].tab /\ r.want = call[c].want
      /\ r.alone = call[c].alone /\ r.got = None /\ r.step = "answer"
  <2>1. r \in Made
    BY <1>2, Zeroed
  <2>2. /\ r.kind = call[c].kind /\ r.tab = call[c].tab /\ r.want = call[c].want
        /\ r.alone = call[c].alone /\ r.got = call[c].got
    BY <1>2 DEF Made
  <2>3. r.step = "answer"
    BY <1>2 DEF Made
  <2> QED BY <1>2, <2>1, <2>2, <2>3
<1>4. call' = [call EXCEPT ![c] = r]
  BY DEF Refused
<1>5. call'[c] = r
  BY <1>4 DEF IInv, TypeOK
<1>6. Underway(c)'
  BY <1>3, <1>5 DEF Underway
<1> HIDE DEF r
<1> QED BY <1>1, <1>3, <1>4, <1>6, OnlyMovesOn

\* Mind the three cases of what the controls make of the answer.
LEMMA AnswerKeeps ==
  ASSUME IInv, NEW c \in Calls, Answer(c)
  PROVE  IInv'
<1> DEFINE r == [call[c] EXCEPT !.step = "done"]
<1>1. call[c] # None /\ call[c].step = "answer" /\ UNCHANGED <<outer, bar, leased>>
  BY DEF Answer, InFlight, chrome
<1>2. call[c] \in Made
  BY <1>1, Fields DEF IInv
<1>3. /\ r \in Made /\ r.kind = call[c].kind /\ r.tab = call[c].tab /\ r.want = call[c].want
      /\ r.alone = call[c].alone /\ r.got = call[c].got /\ r.step = "done"
  BY <1>2 DEF Made
<1>4. call' = [call EXCEPT ![c] = r]
  BY DEF Answer, Goes
<1>5. call'[c] = r
  BY <1>4 DEF IInv, TypeOK
<1>6. ASSUME call[c].kind # "read", call[c].alone
      PROVE  Underway(c)'
  <2>1. Underway(c)
    BY <1>1, <1>6 DEF IInv, AloneIsRight, Sizing
  <2> HIDE DEF r
  <2> QED BY <1>1, <1>3, <1>5, <2>1 DEF Underway, Content
<1> HIDE DEF r
<1>7. /\ call' \in [Calls -> {None} \cup Made]
      /\ Wants' /\ AloneIsRight'
      /\ \A d \in Calls : call[d] # None =>
           /\ call'[d] # None
           /\ call'[d].kind = call[d].kind /\ call'[d].tab = call[d].tab
      /\ \A d \in Calls \ {c} : call'[d] = call[d]
      /\ call'[c] = r
  BY <1>1, <1>3, <1>4, <1>6, CallMovesOn
<1>8. controls \in [tab : Tabs \cup {None}, viewport : Calls \cup {None}, draft : Calls \cup {None},
                    reading : Calls \cup {None}, applying : Calls \cup {None}]
  BY DEF IInv, TypeOK
<1>9. c # None
  BY ViewportAssumption
<1>10. /\ controls' \in [tab : Tabs \cup {None}, viewport : Calls \cup {None}, draft : Calls \cup {None},
                         reading : Calls \cup {None}, applying : Calls \cup {None}]
       /\ controls'.tab = controls.tab
       /\ controls'.reading = IF controls.reading = c THEN None ELSE controls.reading
       /\ controls'.applying = IF controls.applying = c THEN None ELSE controls.applying
       /\ controls'.viewport \in {controls.viewport, c, None}
       /\ controls'.viewport = c /\ controls.viewport # c =>
            controls.applying = c \/ controls.reading = c
       /\ \/ controls'.viewport = controls.viewport /\ controls'.draft = controls.draft
          \/ controls'.viewport = c /\ controls'.draft = c
          \/ controls'.viewport = None
  <2>1. ~(controls.applying = c /\ controls.reading = c)
    BY <1>9 DEF IInv, ControlsWait
  <2>2. Told(c)
    BY DEF Answer
  <2>3. CASE controls.applying = c
    BY <1>8, <2>1, <2>2, <2>3 DEF Told
  <2>4. CASE controls.applying # c /\ controls.reading = c
    BY <1>8, <2>2, <2>4 DEF Told
  <2>5. CASE controls.applying # c /\ controls.reading # c
    BY <1>8, <2>2, <2>5 DEF Told
  <2> QED BY <2>3, <2>4, <2>5
<1>11. reported' = IF call[c].kind = "alloc" THEN reported \cup {call[c].tab} ELSE reported
  BY DEF Answer
<1>12. TypeOK'
  BY <1>2, <1>7, <1>10, <1>11 DEF IInv, TypeOK, Answer, chrome, settings, Made
<1>13. \A d \in Calls : InFlight(d) /\ d # c => InFlight(d)'
  BY <1>7 DEF InFlight
<1>14. LeasesAreReported'
  <2>1. \A d \in Calls : InFlight(d) => call[d] # None
    BY DEF InFlight
  <2>2. \A d \in Calls : InFlight(d) =>
          /\ call'[d] # None
          /\ call'[d].kind = call[d].kind /\ call'[d].tab = call[d].tab
          /\ InFlight(d)' \/ (call[d].kind = "alloc" => call[d].tab \in reported')
    BY <1>7, <1>11, <1>13, <2>1
  <2> QED BY <1>1, <1>11, <2>2, LeasesStay
<1>15. ControlsWait'
  <2>1. controls'.reading # None =>
          InFlight(controls.reading)' /\ call'[controls.reading].kind = "read"
            /\ call'[controls.reading].tab = controls.tab /\ controls'.reading = controls.reading
    BY <1>7, <1>8, <1>10, <1>13 DEF IInv, ControlsWait, InFlight
  <2>2. controls'.applying # None =>
          InFlight(controls.applying)' /\ call'[controls.applying].kind = "resize"
            /\ controls'.applying = controls.applying
    BY <1>7, <1>8, <1>10, <1>13 DEF IInv, ControlsWait, InFlight
  <2>3. controls'.viewport # None =>
          call'[controls'.viewport] # None /\ controls'.draft \in {controls'.viewport, None}
    BY <1>1, <1>7, <1>8, <1>10 DEF IInv, ControlsWait
  <2> QED BY <1>10, <2>1, <2>2, <2>3 DEF ControlsWait, InFlight
<1>16. FieldsFollowTab'
  <2>1. SUFFICES ASSUME controls'.reading = None, controls'.viewport # None,
                        call'[controls'.viewport].kind = "read"
                 PROVE  call'[controls'.viewport].tab = controls'.tab
    BY <1>15 DEF FieldsFollowTab, ControlsWait
  <2>2. CASE controls'.viewport = controls.viewport /\ controls.reading = None
    BY <1>7, <1>8, <1>10, <2>1, <2>2 DEF IInv, FieldsFollowTab, ControlsWait
  <2>3. CASE controls'.viewport = c /\ controls.reading = c
    BY <1>7, <1>9, <1>10, <1>1, <2>3 DEF IInv, ControlsWait
  <2>4. CASE controls'.viewport = c /\ controls.applying = c /\ controls.reading # c
    BY <1>1, <1>7, <1>9, <2>1, <2>4 DEF IInv, ControlsWait
  <2>5. controls.reading = c => controls'.viewport \in {c, None}
    BY <1>8, <1>9 DEF Answer, Told, IInv, ControlsWait
  <2> QED BY <1>10, <2>1, <2>2, <2>3, <2>4, <2>5
<1> QED BY <1>7, <1>12, <1>14, <1>15, <1>16 DEF IInv

-----------------------------------------------------------------------------
(* Windows that change.                                                    *)

\* Nobody but the call that sizes the window is left with it to itself.
LEMMA Disturbed ==
  ASSUME TypeOK, NEW t \in Tabs, NEW c, NEW d \in Calls
  PROVE  /\ call[d] = None => Disturbs(t, c)[d] = None
         /\ call[d] # None =>
              /\ Disturbs(t, c)[d] \in Made
              /\ Disturbs(t, c)[d].kind = call[d].kind
              /\ Disturbs(t, c)[d].tab = call[d].tab
              /\ Disturbs(t, c)[d].want = call[d].want
              /\ Disturbs(t, c)[d].step = call[d].step
              /\ Disturbs(t, c)[d].bounds = call[d].bounds
              /\ Disturbs(t, c)[d].delta = call[d].delta
              /\ Disturbs(t, c)[d].got = call[d].got
              /\ Disturbs(t, c)[d].alone =>
                   call[d].alone /\ (call[d].tab # t \/ d = c)
<1>1. Disturbs(t, c)[d] =
        IF d \in On(t) \ {c} THEN [call[d] EXCEPT !.alone = FALSE] ELSE call[d]
  BY DEF Disturbs
<1>2. CASE call[d] = None
  BY <1>1, <1>2 DEF On
<1>3. CASE call[d] # None
  <2>1. call[d] \in Made
    BY <1>3, Fields
  <2> DEFINE q == [call[d] EXCEPT !.alone = FALSE]
  <2>2. /\ q \in Made /\ q.kind = call[d].kind /\ q.tab = call[d].tab /\ q.want = call[d].want
        /\ q.step = call[d].step /\ q.bounds = call[d].bounds /\ q.delta = call[d].delta
        /\ q.got = call[d].got /\ ~q.alone
    BY <2>1 DEF Made
  <2>3. d \notin On(t) \ {c} => call[d].tab # t \/ d = c
    BY <1>3 DEF On
  <2> HIDE DEF q
  <2>4. CASE d \in On(t) \ {c}
    <3>1. Disturbs(t, c)[d] = q
      BY <1>1, <2>4 DEF q
    <3> QED BY <1>3, <2>2, <3>1
  <2>5. CASE d \notin On(t) \ {c}
    <3>1. Disturbs(t, c)[d] = call[d]
      BY <1>1, <2>5
    <3>2. Disturbs(t, c)[d].alone => call[d].alone /\ (call[d].tab # t \/ d = c)
      BY <2>3, <2>5, <3>1
    <3> QED BY <1>3, <2>1, <3>1, <3>2
  <2> QED BY <2>4, <2>5
<1> QED BY <1>2, <1>3

\* The window of t changes under everybody but c: those who had it to themselves have
\* another one.
LEMMA OthersAreRight ==
  ASSUME IInv, NEW t \in Tabs, NEW c, NEW d \in Calls, d # c,
         call'[d] = Disturbs(t, c)[d],
         \A u \in Tabs \ {t} : outer'[u] = outer[u] /\ bar'[u] = bar[u],
         Sizing(d)', call'[d].alone
  PROVE  Underway(d)'
<1>1. call[d] # None /\ call'[d] # None
  BY Disturbed DEF IInv, Sizing
<1>2. /\ call'[d].kind = call[d].kind /\ call'[d].tab = call[d].tab
      /\ call'[d].want = call[d].want /\ call'[d].step = call[d].step
      /\ call'[d].bounds = call[d].bounds /\ call'[d].delta = call[d].delta
      /\ call'[d].got = call[d].got /\ call[d].alone /\ call[d].tab # t
  BY <1>1, Disturbed DEF IInv
<1>3. Underway(d)
  BY <1>1, <1>2 DEF IInv, AloneIsRight, Sizing
<1>4. call[d].tab \in Tabs
  BY <1>1, Fields DEF IInv
<1>5. outer'[call[d].tab] = outer[call[d].tab] /\ bar'[call[d].tab] = bar[call[d].tab]
  BY <1>2, <1>4
<1> QED BY <1>2, <1>3, <1>5 DEF Underway, Content

LEMMA BarMovesKeeps ==
  ASSUME IInv, NEW t \in Tabs, BarMoves(t)
  PROVE  IInv'
<1>1. call' = Disturbs(t, None) /\ UNCHANGED <<outer, leased, reported, controls>>
  BY DEF BarMoves
<1>2. \A d \in Calls : d # None
  BY ViewportAssumption
<1>3. \A d \in Calls :
        /\ call[d] = None => call'[d] = None
        /\ call[d] # None =>
             /\ call'[d] \in Made /\ call'[d] # None
             /\ call'[d].kind = call[d].kind /\ call'[d].tab = call[d].tab
             /\ call'[d].want = call[d].want /\ call'[d].step = call[d].step
             /\ call'[d].got = call[d].got
  BY <1>1, Disturbed, MadeIsNotNone DEF IInv
<1>4. call' \in [Calls -> {None} \cup Made]
  <2>1. call' = [d \in Calls |-> call'[d]]
    BY <1>1 DEF Disturbs
  <2> QED BY <1>3, <2>1
<1>5. PICK b \in Bars : bar' = [bar EXCEPT ![t] = b]
  BY DEF BarMoves
<1>6. bar' \in [Tabs -> Bars] /\ \A u \in Tabs \ {t} : bar'[u] = bar[u]
  BY <1>5 DEF IInv, TypeOK
<1>7. TypeOK'
  BY <1>4, <1>6 DEF IInv, TypeOK, BarMoves, settings
<1>8. Wants'
  BY <1>3 DEF IInv, Wants, Sizing
<1>9. AloneIsRight'
  <2>1. SUFFICES ASSUME NEW d \in Calls, Sizing(d)', call'[d].alone
                 PROVE  Underway(d)'
    BY DEF AloneIsRight
  <2>2. d # None /\ call'[d] = Disturbs(t, None)[d]
    BY <1>1, <1>2
  <2> QED BY <1>1, <1>6, <2>1, <2>2, OthersAreRight
<1>10. \A d \in Calls : InFlight(d) => InFlight(d)' /\ call[d] # None
  BY <1>3 DEF InFlight
<1>11. LeasesAreReported'
  BY <1>1, <1>3, <1>10, LeasesStay
<1>12. ControlsWait' /\ FieldsFollowTab'
  BY <1>1, <1>3, <1>10, ControlsStay
<1> QED BY <1>7, <1>8, <1>9, <1>11, <1>12 DEF IInv

LEMMA SetBoundsKeeps ==
  ASSUME IInv, NEW c \in Calls, SetBounds(c)
  PROVE  IInv'
<1> DEFINE t == call[c].tab
           r == [call[c] EXCEPT !.step = "measure", !.bounds = 0, !.delta = 0]
<1>1. call[c] # None /\ call[c].step = "set"
      /\ outer' = [outer EXCEPT ![t] = Larger(Wished(c), MinOuter)]
      /\ call' = [Disturbs(t, c) EXCEPT ![c].step = "measure", ![c].bounds = 0, ![c].delta = 0]
      /\ UNCHANGED <<bar, leased, reported, controls>>
  BY DEF SetBounds, InFlight
<1>2. call[c] \in Made /\ call[c].got = None /\ t \in Tabs /\ call[c].want \in Nat
  BY <1>1, Fields DEF IInv, Wants, Sizing
<1>3. Disturbs(t, c)[c] = call[c] /\ DOMAIN Disturbs(t, c) = Calls
  BY DEF Disturbs
<1>4. call'[c] = r /\ \A d \in Calls \ {c} : call'[d] = Disturbs(t, c)[d]
  BY <1>1, <1>3
<1>5. r \in Made
  BY <1>2, Zeroed
<1>6. /\ r.kind = call[c].kind /\ r.tab = call[c].tab /\ r.want = call[c].want
      /\ r.alone = call[c].alone /\ r.got = None
  BY <1>2 DEF Made
<1>7. r.step = "measure"
  BY <1>2 DEF Made
<1> HIDE DEF r
<1>8. \A d \in Calls :
        /\ call[d] = None => call'[d] = None
        /\ call[d] # None =>
             /\ call'[d] \in Made /\ call'[d] # None
             /\ call'[d].kind = call[d].kind /\ call'[d].tab = call[d].tab
             /\ call'[d].want = call[d].want
             /\ call'[d].got = call[d].got
             /\ call'[d].step = IF d = c THEN "measure" ELSE call[d].step
  <2>1. \A d \in Calls \ {c} :
          /\ call[d] = None => Disturbs(t, c)[d] = None
          /\ call[d] # None =>
               /\ Disturbs(t, c)[d] \in Made
               /\ Disturbs(t, c)[d].kind = call[d].kind
               /\ Disturbs(t, c)[d].tab = call[d].tab
               /\ Disturbs(t, c)[d].want = call[d].want
               /\ Disturbs(t, c)[d].step = call[d].step
               /\ Disturbs(t, c)[d].got = call[d].got
    BY <1>2, Disturbed DEF IInv
  <2> HIDE DEF t
  <2>2. SUFFICES ASSUME NEW d \in Calls
                 PROVE  /\ call[d] = None => call'[d] = None
                        /\ call[d] # None =>
                             /\ call'[d] \in Made /\ call'[d] # None
                             /\ call'[d].kind = call[d].kind /\ call'[d].tab = call[d].tab
                             /\ call'[d].want = call[d].want
                             /\ call'[d].got = call[d].got
                             /\ call'[d].step = IF d = c THEN "measure" ELSE call[d].step
    OBVIOUS
  <2>3. CASE d = c
    BY <1>1, <1>2, <1>4, <1>5, <1>6, <1>7, <2>3, MadeIsNotNone
  <2>4. CASE d # c
    BY <1>4, <2>1, <2>4, MadeIsNotNone
  <2> QED BY <2>3, <2>4
<1>9. call' \in [Calls -> {None} \cup Made]
  <2>1. call' = [d \in Calls |-> call'[d]]
    BY <1>1, <1>3
  <2> QED BY <1>8, <2>1
<1>10. outer' \in [Tabs -> Nat] /\ \A u \in Tabs \ {t} : outer'[u] = outer[u]
  <2>1. call[c].want + call[c].delta \in Int
    BY <1>2 DEF Made
  <2>2. Larger(Wished(c), MinOuter) \in Nat
    BY ViewportAssumption, <2>1, SizeIsNat DEF Wished
  <2> QED BY <1>1, <1>2, <2>2 DEF IInv, TypeOK
<1>11. TypeOK'
  BY <1>9, <1>10 DEF IInv, TypeOK, SetBounds, settings
<1>12. Wants'
  BY <1>1, <1>8 DEF IInv, Wants, Sizing
<1>13. AloneIsRight'
  <2>1. SUFFICES ASSUME NEW d \in Calls, Sizing(d)', call'[d].alone
                 PROVE  Underway(d)'
    BY DEF AloneIsRight
  <2>2. CASE d = c
    <3>1. call[c].delta = bar[t]
      BY <1>1, <1>4, <1>6, <2>1, <2>2 DEF IInv, AloneIsRight, Sizing, Underway
    <3>2. outer'[t] = Larger(call[c].want + bar[t], MinOuter)
      BY <1>1, <1>2, <3>1 DEF IInv, TypeOK, Wished
    <3> QED BY <1>1, <1>4, <1>6, <1>7, <2>2, <3>2 DEF Underway
  <2>3. CASE d # c
    <3>1. call'[d] = Disturbs(t, c)[d]
      BY <1>4, <2>3
    <3>2. \A u \in Tabs \ {t} : outer'[u] = outer[u] /\ bar'[u] = bar[u]
      BY <1>1, <1>10
    <3> QED BY <1>2, <2>1, <2>3, <3>1, <3>2, OthersAreRight
  <2> QED BY <2>2, <2>3
<1>14. \A d \in Calls : InFlight(d) => InFlight(d)' /\ call[d] # None
  BY <1>8 DEF InFlight
<1>15. LeasesAreReported'
  BY <1>1, <1>8, <1>14, LeasesStay
<1>16. ControlsWait' /\ FieldsFollowTab'
  BY <1>1, <1>8, <1>14, ControlsStay
<1> QED BY <1>11, <1>12, <1>13, <1>15, <1>16 DEF IInv

-----------------------------------------------------------------------------
(* Calls that are made.                                                    *)

\* A call that is made has corrected nothing so far, and disturbs nobody.
LEMMA CallIsMade ==
  ASSUME IInv, NEW c \in Calls, NEW r \in Made, Makes(c, r),
         UNCHANGED <<outer, bar>>, r.got = None,
         \/ r.kind = "read" /\ r.step = "measure"
         \/ r.kind # "read" /\ r.step = "bounds" /\ r.want \in Nat
         \/ r.kind # "read" /\ r.step = "done"
  PROVE  /\ call[c] = None
         /\ call' \in [Calls -> {None} \cup Made]
         /\ Wants' /\ AloneIsRight'
         /\ \A d \in Calls : call[d] # None =>
              /\ call'[d] # None
              /\ call'[d].kind = call[d].kind /\ call'[d].tab = call[d].tab
              /\ InFlight(d) => InFlight(d)'
         /\ call'[c] = r /\ call'[c] # None
<1>1. call \in [Calls -> {None} \cup Made] /\ call[c] = None /\ r # None
      /\ call' = [call EXCEPT ![c] = r]
  BY MadeIsNotNone DEF IInv, TypeOK, Makes
<1>2. call'[c] = r /\ \A d \in Calls \ {c} : call'[d] = call[d]
  BY <1>1
<1>3. call' \in [Calls -> {None} \cup Made]
  BY <1>1
<1>4. Wants'
  <2>1. SUFFICES ASSUME NEW d \in Calls, call'[d] # None
                 PROVE  /\ call'[d].kind # "read" /\ (call'[d].step # "done" \/ call'[d].got # None)
                             => call'[d].want \in Nat
                        /\ call'[d].got # None => call'[d].step \in {"answer", "done"}
                        /\ call'[d].kind = "read" =>
                             call'[d].step \in {"measure", "answer", "done"}
    BY DEF Wants, Sizing
  <2>2. CASE d = c
    BY <1>2, <2>2
  <2>3. CASE d # c
    BY <1>2, <2>1, <2>3 DEF IInv, Wants, Sizing
  <2> QED BY <2>2, <2>3
<1>5. AloneIsRight'
  <2>1. SUFFICES ASSUME NEW d \in Calls, Sizing(d)', call'[d].alone
                 PROVE  Underway(d)'
    BY DEF AloneIsRight
  <2>2. CASE d = c
    BY <1>2, <2>1, <2>2 DEF Sizing, Underway
  <2>3. CASE d # c
    <3>1. call'[d] = call[d]
      BY <1>2, <2>3
    <3>2. Underway(d)
      BY <2>1, <3>1 DEF IInv, AloneIsRight, Sizing
    <3> QED BY <3>1, <3>2 DEF Underway, Content
  <2> QED BY <2>2, <2>3
<1>6. \A d \in Calls : call[d] # None => call'[d] = call[d]
  BY <1>1, <1>2
<1> QED BY <1>1, <1>2, <1>3, <1>4, <1>5, <1>6 DEF InFlight

\* What a call starts with.
LEMMA CallFields ==
  ASSUME NEW kind \in {"alloc", "resize", "read"}, NEW t \in Tabs,
         NEW want, want \in Nat \/ want = None,
         NEW due, due \in Sizes \/ due = None
  PROVE  LET r == Call(kind, t, want, due)
         IN  /\ r \in Made /\ r.kind = kind /\ r.tab = t /\ r.want = want /\ r.got = None
             /\ r.step = IF kind = "read" THEN "measure" ELSE "bounds"
<1>1. Call(kind, t, want, due) \in Made
  <2>1. 0 \in Int /\ None \in Int \cup {None}
    OBVIOUS
  <2>2. (IF kind = "read" THEN "measure" ELSE "bounds")
          \in {"bounds", "delta", "set", "measure", "answer", "done"}
    OBVIOUS
  <2> QED BY <2>1, <2>2 DEF Call, Made
<1> QED BY <1>1 DEF Call

LEMMA SizesAreClamped ==
  ASSUME NEW size \in Sizes \cup {Fit}
  PROVE  Clamp(size) \in Nat
<1>1. size \in Nat /\ Floor \in Nat /\ size \in Int
  BY ViewportAssumption
<1> QED BY <1>1, SizeIsNat DEF Clamp

LEMMA AllocateKeeps ==
  ASSUME IInv, NEW c \in Calls, NEW size \in Sizes \cup {Fit, None},
         NEW due \in Sizes \cup {None}, Allocate(c, size, due)
  PROVE  IInv'
<1>1. PICK t \in fresh :
        /\ open' = open \cup {t} /\ fresh' = fresh \ {t}
        /\ leased' = leased \cup {t}
        /\ IF Wanted(size) = None
           THEN /\ Makes(c, [Call("alloc", t, None, due) EXCEPT !.step = "done"])
                /\ reported' = reported \cup {t}
           ELSE /\ Makes(c, Call("alloc", t, Clamp(Wanted(size)), due))
                /\ UNCHANGED reported
        /\ UNCHANGED <<outer, bar, moved, settings, view, controls>>
  BY DEF Allocate
<1>2. t \in Tabs /\ c # None
  BY ViewportAssumption DEF IInv, TypeOK
<1>3. PICK r \in Made :
        /\ Makes(c, r) /\ r.got = None /\ r.kind = "alloc" /\ r.tab = t
        /\ \/ r.step = "done" /\ reported' = reported \cup {t}
           \/ r.step = "bounds" /\ r.want \in Nat /\ reported' = reported
  <2>1. CASE Wanted(size) = None
    <3> DEFINE q == Call("alloc", t, None, due)
    <3>1. q \in Made /\ q.got = None /\ q.kind = "alloc" /\ q.tab = t
      BY <1>2, CallFields
    <3> HIDE DEF q
    <3> DEFINE r == [q EXCEPT !.step = "done"]
    <3>2. r \in Made /\ r.got = None /\ r.kind = "alloc" /\ r.tab = t /\ r.step = "done"
      BY <3>1 DEF Made
    <3>3. Makes(c, r) /\ reported' = reported \cup {t}
      BY <1>1, <2>1 DEF q
    <3> QED BY <3>2, <3>3
  <2>2. CASE Wanted(size) # None
    <3> DEFINE r == Call("alloc", t, Clamp(Wanted(size)), due)
    <3>1. Clamp(Wanted(size)) \in Nat
      <4>1. Wanted(size) \in Sizes \cup {Fit}
        BY <2>2 DEF Wanted, IInv, TypeOK
      <4> QED BY <4>1, SizesAreClamped
    <3>2. r \in Made /\ r.got = None /\ r.kind = "alloc" /\ r.tab = t
          /\ r.step = "bounds" /\ r.want \in Nat
      BY <1>2, <3>1, CallFields
    <3>3. Makes(c, r) /\ reported' = reported
      BY <1>1, <2>2
    <3> HIDE DEF r
    <3> QED BY <3>2, <3>3
  <2> QED BY <2>1, <2>2
<1>4. UNCHANGED <<outer, bar, controls>>
  BY <1>1
<1>5. /\ call[c] = None
      /\ call' \in [Calls -> {None} \cup Made]
      /\ Wants' /\ AloneIsRight'
      /\ \A d \in Calls : call[d] # None =>
           /\ call'[d] # None
           /\ call'[d].kind = call[d].kind /\ call'[d].tab = call[d].tab
           /\ InFlight(d) => InFlight(d)'
      /\ call'[c] = r /\ call'[c] # None
  BY <1>3, <1>4, CallIsMade
<1>6. TypeOK'
  BY <1>1, <1>2, <1>3, <1>5 DEF IInv, TypeOK, settings
<1>7. LeasesAreReported'
  <2>1. \A d \in Calls : InFlight(d) => call[d] # None
    BY DEF InFlight
  <2>2. t \in reported' \/ \E d \in On(t)' : call'[d].kind = "alloc" /\ InFlight(d)'
    BY <1>3, <1>5 DEF On, InFlight
  <2>3. leased' \ leased \subseteq {t} /\ reported \subseteq reported'
    BY <1>1, <1>3
  <2> QED BY <1>5, <2>1, <2>2, <2>3, LeasesStay
<1>8. ControlsWait' /\ FieldsFollowTab'
  BY <1>4, <1>5, ControlsStay
<1> QED BY <1>5, <1>6, <1>7, <1>8 DEF IInv

LEMMA AgentResizesKeeps ==
  ASSUME IInv, NEW c \in Calls, AgentResizes(c)
  PROVE  IInv'
<1>1. PICK t \in open, size \in Sizes : Makes(c, Call("resize", t, Clamp(size), None)) /\ Stays
  BY DEF AgentResizes
<1> DEFINE r == Call("resize", t, Clamp(size), None)
<1>2. t \in Tabs /\ Clamp(size) \in Nat
  BY SizesAreClamped DEF IInv, TypeOK
<1>3. r \in Made /\ r.got = None /\ r.kind = "resize" /\ r.step = "bounds" /\ r.want \in Nat
  BY <1>2, CallFields
<1> HIDE DEF r
<1>4. Makes(c, r) /\ UNCHANGED <<outer, bar, leased, reported, controls>>
  BY <1>1 DEF Stays, chrome, r
<1>5. /\ call' \in [Calls -> {None} \cup Made]
      /\ Wants' /\ AloneIsRight'
      /\ \A d \in Calls : call[d] # None =>
           /\ call'[d] # None
           /\ call'[d].kind = call[d].kind /\ call'[d].tab = call[d].tab
           /\ InFlight(d) => InFlight(d)'
  BY <1>3, <1>4, CallIsMade
<1>6. TypeOK'
  BY <1>1, <1>5 DEF IInv, TypeOK, Stays, chrome, settings
<1>7. LeasesAreReported'
  BY <1>4, <1>5, LeasesStay DEF InFlight
<1>8. ControlsWait' /\ FieldsFollowTab'
  BY <1>4, <1>5, ControlsStay
<1> QED BY <1>5, <1>6, <1>7, <1>8 DEF IInv

LEMMA SelectKeeps ==
  ASSUME IInv, NEW c \in Calls, NEW t \in Tabs, Select(c, t)
  PROVE  IInv'
<1> DEFINE r == Call("read", t, None, None)
<1>1. r \in Made /\ r.got = None /\ r.kind = "read" /\ r.step = "measure" /\ r.tab = t
  BY CallFields
<1>2. Makes(c, r) /\ UNCHANGED <<chrome, leased, reported, settings, view>>
      /\ controls' = [controls EXCEPT !.tab = t, !.reading = c]
  BY DEF Select
<1> HIDE DEF r
<1>3. UNCHANGED <<outer, bar>>
  BY <1>2 DEF chrome
<1>4. /\ call[c] = None
      /\ call' \in [Calls -> {None} \cup Made]
      /\ Wants' /\ AloneIsRight'
      /\ \A d \in Calls : call[d] # None =>
           /\ call'[d] # None
           /\ call'[d].kind = call[d].kind /\ call'[d].tab = call[d].tab
           /\ InFlight(d) => InFlight(d)'
      /\ call'[c] = r /\ call'[c] # None
  BY <1>1, <1>2, <1>3, CallIsMade
<1>5. controls' \in [tab : Tabs \cup {None}, viewport : Calls \cup {None}, draft : Calls \cup {None},
                     reading : Calls \cup {None}, applying : Calls \cup {None}]
      /\ controls'.tab = t /\ controls'.reading = c /\ c # None
      /\ controls'.viewport = controls.viewport /\ controls'.applying = controls.applying
      /\ controls'.draft = controls.draft /\ controls.viewport \in Calls \cup {None} /\ controls.applying \in Calls \cup {None}
  BY <1>2, ViewportAssumption DEF IInv, TypeOK
<1>6. TypeOK'
  BY <1>2, <1>4, <1>5 DEF IInv, TypeOK, chrome, settings
<1>7. LeasesAreReported'
  BY <1>2, <1>4, LeasesStay DEF InFlight
<1>8. ControlsWait'
  <2>1. InFlight(c)' /\ call'[c].kind = "read" /\ call'[c].tab = t
    BY <1>1, <1>4 DEF InFlight
  <2>2. controls.applying # None =>
          InFlight(controls.applying)' /\ call'[controls.applying].kind = "resize"
    BY <1>4, <1>5 DEF IInv, ControlsWait, InFlight
  <2>3. controls.viewport # None =>
          call'[controls.viewport] # None /\ controls.draft \in {controls.viewport, None}
    BY <1>4, <1>5 DEF IInv, ControlsWait
  <2> QED BY <1>5, <2>1, <2>2, <2>3 DEF ControlsWait, InFlight
<1>9. FieldsFollowTab'
  BY <1>5, <1>8 DEF FieldsFollowTab, ControlsWait
<1> QED BY <1>4, <1>6, <1>7, <1>8, <1>9 DEF IInv

LEMMA ApplyKeeps ==
  ASSUME IInv, NEW c \in Calls, Apply(c)
  PROVE  IInv'
<1>1. PICK size \in Sizes \cup {Fit} : Makes(c, Call("resize", controls.tab, Clamp(size), None))
  BY DEF Apply
<1> DEFINE r == Call("resize", controls.tab, Clamp(size), None)
<1>2. controls.tab \in Tabs /\ Clamp(size) \in Nat
  BY SizesAreClamped DEF IInv, TypeOK, Apply
<1>3. r \in Made /\ r.got = None /\ r.kind = "resize" /\ r.step = "bounds" /\ r.want \in Nat
  BY <1>2, CallFields
<1> HIDE DEF r
<1>4. Makes(c, r) /\ UNCHANGED <<chrome, leased, reported, settings, view>>
      /\ controls' = [controls EXCEPT !.applying = c]
  BY <1>1 DEF Apply, r
<1>5. UNCHANGED <<outer, bar>>
  BY <1>4 DEF chrome
<1>6. /\ call[c] = None
      /\ call' \in [Calls -> {None} \cup Made]
      /\ Wants' /\ AloneIsRight'
      /\ \A d \in Calls : call[d] # None =>
           /\ call'[d] # None
           /\ call'[d].kind = call[d].kind /\ call'[d].tab = call[d].tab
           /\ InFlight(d) => InFlight(d)'
      /\ call'[c] = r /\ call'[c] # None
  BY <1>3, <1>4, <1>5, CallIsMade
<1>7. controls' \in [tab : Tabs \cup {None}, viewport : Calls \cup {None}, draft : Calls \cup {None},
                     reading : Calls \cup {None}, applying : Calls \cup {None}]
      /\ controls'.tab = controls.tab /\ controls'.applying = c /\ c # None
      /\ controls'.viewport = controls.viewport /\ controls'.reading = controls.reading
      /\ controls'.draft = controls.draft /\ controls.viewport \in Calls \cup {None} /\ controls.reading \in Calls \cup {None}
  BY <1>4, ViewportAssumption DEF IInv, TypeOK
<1>8. TypeOK'
  BY <1>4, <1>6, <1>7 DEF IInv, TypeOK, chrome, settings
<1>9. LeasesAreReported'
  BY <1>4, <1>6, LeasesStay DEF InFlight
<1>10. ControlsWait'
  <2>1. InFlight(c)' /\ call'[c].kind = "resize"
    BY <1>3, <1>6 DEF InFlight
  <2>2. controls.reading # None =>
          /\ InFlight(controls.reading)' /\ call'[controls.reading].kind = "read"
          /\ call'[controls.reading].tab = controls.tab
    BY <1>6, <1>7 DEF IInv, ControlsWait, InFlight
  <2>3. controls.viewport # None =>
          call'[controls.viewport] # None /\ controls.draft \in {controls.viewport, None}
    BY <1>6, <1>7 DEF IInv, ControlsWait
  <2> QED BY <1>7, <2>1, <2>2, <2>3 DEF ControlsWait, InFlight
<1>11. FieldsFollowTab'
  BY <1>6, <1>7 DEF IInv, FieldsFollowTab, ControlsWait
<1> QED BY <1>6, <1>8, <1>9, <1>10, <1>11 DEF IInv

-----------------------------------------------------------------------------
(* The other steps: nothing happens to a call.                             *)

LEMMA Elsewhere ==
  ASSUME IInv, UNCHANGED <<outer, bar, reported, call, controls>>, leased' \subseteq leased
  PROVE  Wants' /\ AloneIsRight' /\ ControlsWait' /\ LeasesAreReported' /\ FieldsFollowTab'
<1>1. Wants' /\ AloneIsRight'
  BY DEF IInv, Wants, AloneIsRight, Sizing, Underway, Content
<1>2. ControlsWait' /\ FieldsFollowTab'
  BY DEF IInv, ControlsWait, FieldsFollowTab, InFlight
<1>3. LeasesAreReported'
  BY DEF IInv, LeasesAreReported, On, InFlight
<1> QED BY <1>1, <1>2, <1>3

\* The settings are among the sizes or None.
LEMMA OthersKeep ==
  ASSUME IInv,
         \/ \E t \in Tabs : PageOpens(t) \/ PageCloses(t)
         \/ SaveDefault \/ MountView \/ SettingsArrive \/ UNCHANGED vars
  PROVE  IInv'
<1>1. UNCHANGED <<outer, bar, reported, call, controls>> /\ leased' \subseteq leased
  BY DEF PageOpens, PageCloses, SaveDefault, MountView, SettingsArrive, vars, chrome, settings
<1>2. Wants' /\ AloneIsRight' /\ ControlsWait' /\ LeasesAreReported' /\ FieldsFollowTab'
  BY <1>1, Elsewhere
<1>3. TypeOK'
  <2>1. CASE \E t \in Tabs : PageOpens(t) \/ PageCloses(t)
    BY <2>1 DEF IInv, TypeOK, PageOpens, PageCloses, settings
  <2>2. CASE SaveDefault
    BY <2>2 DEF IInv, TypeOK, SaveDefault, chrome
  <2>3. CASE MountView
    BY <2>3 DEF IInv, TypeOK, MountView, chrome, settings
  <2>4. CASE SettingsArrive
    BY <2>4 DEF IInv, TypeOK, SettingsArrive, chrome, settings
  <2>5. CASE UNCHANGED vars
    BY <2>5 DEF IInv, TypeOK, vars, chrome, settings
  <2> QED BY <2>1, <2>2, <2>3, <2>4, <2>5
<1> QED BY <1>2, <1>3 DEF IInv

\* What the human does to the fields without a call: no tab is read any more, or the
\* draft is typed.
LEMMA FieldsKeep ==
  ASSUME IInv, Deselect \/ Type
  PROVE  IInv'
<1>1. UNCHANGED <<chrome, leased, reported, call, settings, view>>
  BY DEF Deselect, Type
<1>2. /\ controls \in [tab : Tabs \cup {None}, viewport : Calls \cup {None},
                       draft : Calls \cup {None}, reading : Calls \cup {None},
                       applying : Calls \cup {None}]
      /\ \/ controls' = [controls EXCEPT !.tab = None, !.viewport = None, !.reading = None]
         \/ controls' = [controls EXCEPT !.draft = None]
  BY DEF IInv, TypeOK, Deselect, Type
<1>3. /\ controls' \in [tab : Tabs \cup {None}, viewport : Calls \cup {None},
                        draft : Calls \cup {None}, reading : Calls \cup {None},
                        applying : Calls \cup {None}]
      /\ controls'.applying = controls.applying
      /\ \/ controls'.viewport = None /\ controls'.reading = None
         \/ /\ controls'.tab = controls.tab /\ controls'.viewport = controls.viewport
            /\ controls'.reading = controls.reading /\ controls'.draft = None
  BY <1>2
<1>4. TypeOK'
  BY <1>1, <1>3 DEF IInv, TypeOK, chrome, settings
<1>5. Wants' /\ AloneIsRight'
  BY <1>1 DEF IInv, Wants, AloneIsRight, Sizing, Underway, Content, chrome
<1>6. ControlsWait'
  BY <1>1, <1>3 DEF IInv, ControlsWait, InFlight
<1>7. FieldsFollowTab'
  BY <1>1, <1>3 DEF IInv, FieldsFollowTab
<1>8. LeasesAreReported'
  BY <1>1 DEF IInv, LeasesAreReported, On, InFlight
<1> QED BY <1>4, <1>5, <1>6, <1>7, <1>8 DEF IInv

LEMMA Initially == Init => IInv
<1>1. SUFFICES ASSUME Init PROVE IInv
  OBVIOUS
<1>2. call = [c \in Calls |-> None] /\ leased = {}
      /\ controls = [tab |-> None, viewport |-> None, draft |-> None, reading |-> None,
                  applying |-> None]
  BY <1>1 DEF Init
<1>3. TypeOK
  BY <1>1, ViewportAssumption DEF Init, TypeOK
<1> QED BY <1>2, <1>3 DEF IInv, Wants, AloneIsRight, Sizing, ControlsWait, LeasesAreReported,
                          FieldsFollowTab

\* IInv is inductive.
LEMMA InductiveInvariant == IInv /\ [Next]_vars => IInv'
<1>1. SUFFICES ASSUME IInv, [Next]_vars PROVE IInv'
  OBVIOUS
<1>2. ASSUME NEW t \in Tabs, BarMoves(t) PROVE IInv'
  BY <1>1, <1>2, BarMovesKeeps
<1>3. ASSUME NEW c \in Calls, Continue(c) PROVE IInv'
  BY <1>1, <1>3, ReadBoundsKeeps, ReadContentKeeps, SetBoundsKeeps, MeasureKeeps, RefusedKeeps,
     AnswerKeeps DEF Continue
<1>4. ASSUME NEW c \in Calls, Asks(c) PROVE IInv'
  <2>1. CASE AgentAllocates(c)
    <3>1. PICK size \in Sizes \cup {None} : Allocate(c, size, None)
      BY <2>1 DEF AgentAllocates
    <3>2. size \in Sizes \cup {Fit, None} /\ None \in Sizes \cup {None}
      OBVIOUS
    <3> QED BY <1>1, <3>1, <3>2, AllocateKeeps
  <2>2. CASE NewTab(c)
    <3> DEFINE size == IF view.knows \in Sizes THEN None ELSE Fit
    <3>1. size \in Sizes \cup {Fit, None} /\ default \in Sizes \cup {None}
      BY <1>1 DEF IInv, TypeOK
    <3>2. Allocate(c, size, default)
      BY <2>2 DEF NewTab
    <3> HIDE DEF size
    <3> QED BY <1>1, <3>1, <3>2, AllocateKeeps
  <2>3. CASE AgentResizes(c)
    BY <1>1, <2>3, AgentResizesKeeps
  <2>4. CASE Apply(c)
    BY <1>1, <2>4, ApplyKeeps
  <2>5. CASE \E t \in Tabs : Select(c, t)
    BY <1>1, <2>5, SelectKeeps
  <2> QED BY <1>4, <2>1, <2>2, <2>3, <2>4, <2>5 DEF Asks
<1>5. CASE \/ \E t \in Tabs : PageOpens(t) \/ PageCloses(t)
           \/ SaveDefault \/ MountView \/ SettingsArrive \/ UNCHANGED vars
  BY <1>1, <1>5, OthersKeep
<1>6. CASE Deselect \/ Type
  BY <1>1, <1>6, FieldsKeep
<1> QED BY <1>1, <1>2, <1>3, <1>4, <1>5, <1>6 DEF Next, ChromeStep

LEMMA Invariance == Spec => []IInv
<1> QED BY Initially, InductiveInvariant, PTL DEF Spec

-----------------------------------------------------------------------------

\* Every variable has its type.
THEOREM TypeCorrect == Spec => []TypeOK
<1>1. IInv => TypeOK
  BY DEF IInv
<1> QED BY <1>1, Invariance, PTL

\* A resize lands on the size that was asked for, or on the smallest Chrome allows, and
\* the page stays at it until somebody else touches its window: the one correction of
\* setTabViewport is enough whatever surrounds the content.
THEOREM ResizesLand == Spec => []ResizeLands
<1>1. ASSUME IInv PROVE ResizeLands
  <2>1. SUFFICES ASSUME NEW c \in Calls, call[c] # None, Landed(c), call[c].alone
                 PROVE  call[c].got = Reached(c) /\ call[c].got = Content(call[c].tab)
    BY DEF ResizeLands
  <2> DEFINE t == call[c].tab
  <2>2. Underway(c) /\ call[c].got # None
    BY <1>1, <2>1 DEF IInv, AloneIsRight, Sizing, Landed
  <2>3. outer[t] = Larger(call[c].want + bar[t], MinOuter) /\ call[c].got = outer[t] - bar[t]
    BY <2>2 DEF Underway, Content
  <2>4. call[c].want \in Nat
    BY <1>1, <2>1 DEF IInv, Wants, Sizing, Landed
  <2>5. bar[t] \in Nat
    <3>1. t \in Tabs
      BY <1>1, <2>1, Fields DEF IInv
    <3>2. bar[t] \in Bars
      BY <1>1, <3>1 DEF IInv, TypeOK
    <3> QED BY <3>2, ViewportAssumption
  <2>6. MinOuter \in Nat
    BY ViewportAssumption
  <2> HIDE DEF t
  <2>7. Larger(call[c].want + bar[t], MinOuter) - bar[t] = Larger(call[c].want, MinOuter - bar[t])
    BY <2>4, <2>5, <2>6 DEF Larger
  <2> QED BY <2>3, <2>7 DEF Reached, Content, t
<1> QED BY <1>1, Invariance, PTL

\* A tab that could not be sized is not lost: whoever leased it is told of it, or its
\* allocation is still at work.
THEOREM LeasesAreNamed == Spec => []LeasesAreReported
<1>1. IInv => LeasesAreReported
  BY DEF IInv
<1> QED BY <1>1, Invariance, PTL

\* With no read outstanding the fields show what was read of the selected tab, what
\* the human typed or a resize answered, or are marked as of unknown size.
THEOREM FieldsAreOfTheTab == Spec => []FieldsFollowTab
<1>1. IInv => FieldsFollowTab
  BY DEF IInv
<1> QED BY <1>1, Invariance, PTL

=============================================================================
