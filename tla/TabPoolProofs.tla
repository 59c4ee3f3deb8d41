--------------------------- MODULE TabPoolProofs ---------------------------
(***************************************************************************)
(* Theorems about the lease table for every number of agents, targets,     *)
(* callers and every cap: type correctness, the bound the cap check really *)
(* gives, exclusivity of leases, and what alone can leave a tab behind.    *)
(*                                                                         *)
(* Exclusivity rests on the answers in flight: a page created for a call   *)
(* is nobody else's until it is registered, because ids are fresh and      *)
(* adoption only ever names pages that `lease` did not create.             *)
(***************************************************************************)
EXTENDS TabPool, FiniteSetTheorems, TLAPS

\* Ids are minted before they are used.
MintedFirst ==
  /\ live \subseteq seen
  /\ foreign \subseteq seen
  /\ Leased \subseteq seen

\* An answered call holds a page of its own that no lease names yet.
AnswersFree ==
  /\ \A c \in Callers : pc[c] = "created" <=> answer[c] # NoTarget
  /\ \A c \in Callers : pc[c] # "idle" => asker[c] \in Agents
  /\ \A c \in Callers : pc[c] = "created" =>
       /\ answer[c] \in seen
       /\ answer[c] \notin foreign
       /\ leases[answer[c]] = NoAgent
  /\ \A c, d \in Callers :
       (pc[c] = "created" /\ pc[d] = "created" /\ c # d) => answer[c] # answer[d]

IInv == TypeOK /\ MintedFirst /\ AnswersFree

-----------------------------------------------------------------------------

\* Leases and calls are finite sets, so their sizes are numbers.
LEMMA Finiteness ==
  ASSUME TypeOK
  PROVE  /\ IsFiniteSet(Leased) /\ Cardinality(Leased) \in Nat
         /\ IsFiniteSet(InFlight) /\ Cardinality(InFlight) \in Nat
         /\ Cardinality(InFlight) <= Cardinality(Callers)
         /\ Cardinality(Callers) \in Nat
<1>1. Leased \in SUBSET Targets /\ InFlight \in SUBSET Callers
  BY DEF Leased, InFlight
<1>2. QED
  BY <1>1, TabPoolAssumption, FS_Subset, FS_CardinalityType

\* Adding one element to a finite set adds at most one to its size.
LEMMA GrowsByOne ==
  ASSUME NEW S, IsFiniteSet(S), NEW x, NEW T, T \subseteq S \cup {x}
  PROVE  Cardinality(T) <= Cardinality(S) + 1
<1>1. /\ IsFiniteSet(S \cup {x})
      /\ Cardinality(S \cup {x}) =
           IF x \in S THEN Cardinality(S) ELSE Cardinality(S) + 1
  BY FS_AddElement
<1>2. /\ IsFiniteSet(T)
      /\ Cardinality(T) <= Cardinality(S \cup {x})
  <2>1. T \in SUBSET (S \cup {x})
    OBVIOUS
  <2>2. QED
    BY <1>1, <2>1, FS_Subset
<1>3. /\ Cardinality(S) \in Nat
      /\ Cardinality(S \cup {x}) \in Nat
      /\ Cardinality(T) \in Nat
  BY <1>1, <1>2, FS_CardinalityType
<1>4. QED
  BY <1>1, <1>2, <1>3

-----------------------------------------------------------------------------

\* Type correctness: every variable of the lease table keeps its type.
THEOREM TypeCorrect == Spec => []TypeOK
<1>1. Init => TypeOK
  BY DEF Init, TypeOK
<1>2. TypeOK /\ [Next]_vars => TypeOK'
  <2> SUFFICES ASSUME TypeOK, [Next]_vars PROVE TypeOK'
    OBVIOUS
  <2> USE DEF TypeOK, callVars, chromeVars
  <2>1. ASSUME NEW c \in Callers, NEW a \in Agents, LeaseCheck(c, a) PROVE TypeOK'
    BY <2>1 DEF LeaseCheck
  <2>2. ASSUME NEW c \in Callers, LeaseCreated(c) PROVE TypeOK'
    <3>1. leases' \in [Targets -> Agents \cup {NoAgent}]
      BY <2>2 DEF LeaseCreated, Register
    <3>2. QED
      BY <2>2, <3>1 DEF LeaseCreated
  <2>3. ASSUME AdoptAny PROVE TypeOK'
    BY <2>3 DEF AdoptAny, Adopt, Register
  <2>4. ASSUME NEW t \in Targets, Release(t) PROVE TypeOK'
    BY <2>4 DEF Release, SendClose
  <2>5. ASSUME NEW t \in Targets, Drop(t) PROVE TypeOK'
    BY <2>5 DEF Drop
  <2>6. CASE ReleaseAll
    BY <2>6 DEF ReleaseAll, SendClose, Leased
  <2>7. ASSUME NEW c \in Callers, NEW t \in Targets, ChromeCreates(c, t) PROVE TypeOK'
    BY <2>7 DEF ChromeCreates
  <2>8. ASSUME NEW c \in Callers, ChromeRefuses(c) PROVE TypeOK'
    BY <2>8 DEF ChromeRefuses
  <2>9. ASSUME NEW t \in Targets, ChromeCloses(t) PROVE TypeOK'
    BY <2>9 DEF ChromeCloses
  <2>10. ASSUME NEW t \in Targets, PageOpens(t) PROVE TypeOK'
    BY <2>10 DEF PageOpens
  <2>11. ASSUME NEW t \in Targets, PageGone(t) PROVE TypeOK'
    BY <2>11 DEF PageGone
  <2>12. CASE ConnectionLost
    <3>1. PICK S \in SUBSET {c \in Callers : pc[c] = "created"} :
            /\ pc' = [c \in Callers |-> IF c \in S THEN "created" ELSE "idle"]
            /\ asker' = [c \in Callers |-> IF c \in S THEN asker[c] ELSE NoAgent]
            /\ answer' = [c \in Callers |-> IF c \in S THEN answer[c] ELSE NoTarget]
            /\ lost' = closing \cup ({answer[c] : c \in Callers \ S} \ {NoTarget})
      BY <2>12 DEF ConnectionLost
    <3>2. lost' \in SUBSET Targets
      BY <3>1
    <3>3. QED
      BY <2>12, <3>1, <3>2 DEF ConnectionLost
  <2>13. CASE UNCHANGED vars
    BY <2>13 DEF vars
  <2>14. QED
    BY <2>1, <2>2, <2>3, <2>4, <2>5, <2>6, <2>7, <2>8, <2>9, <2>10, <2>11,
       <2>12, <2>13 DEF Next
<1>3. QED
  BY <1>1, <1>2, PTL DEF Spec

-----------------------------------------------------------------------------

\* The bookkeeping around the lease map: fresh ids and free answers.
LEMMA InductiveInvariant == Spec => []IInv
<1>1. Init => IInv
  BY TypeCorrect, TabPoolAssumption DEF Init, IInv, TypeOK, MintedFirst, AnswersFree, Leased
<1>2. IInv /\ TypeOK' /\ [Next]_vars => IInv'
  <2> SUFFICES ASSUME IInv, TypeOK', [Next]_vars PROVE MintedFirst' /\ AnswersFree'
    BY DEF IInv
  <2> USE TabPoolAssumption DEF IInv, TypeOK, MintedFirst, AnswersFree, Leased, callVars, chromeVars
  <2>1. ASSUME NEW c \in Callers, NEW a \in Agents, LeaseCheck(c, a)
        PROVE  MintedFirst' /\ AnswersFree'
    BY <2>1 DEF LeaseCheck
  <2>2. ASSUME NEW c \in Callers, LeaseCreated(c)
        PROVE  MintedFirst' /\ AnswersFree'
    BY <2>2 DEF LeaseCreated, Register
  <2>3. ASSUME NEW a \in Agents, NEW t \in foreign, Adopt(a, t)
        PROVE  MintedFirst' /\ AnswersFree'
    BY <2>3 DEF Adopt, Register
  <2>4. ASSUME NEW t \in Targets, Release(t)
        PROVE  MintedFirst' /\ AnswersFree'
    BY <2>4 DEF Release, SendClose
  <2>5. ASSUME NEW t \in Targets, Drop(t)
        PROVE  MintedFirst' /\ AnswersFree'
    BY <2>5 DEF Drop
  <2>6. ASSUME ReleaseAll
        PROVE  MintedFirst' /\ AnswersFree'
    BY <2>6 DEF ReleaseAll, SendClose
  <2>7. ASSUME NEW c \in Callers, NEW t \in Targets, ChromeCreates(c, t)
        PROVE  MintedFirst' /\ AnswersFree'
    BY <2>7 DEF ChromeCreates
  <2>8. ASSUME NEW c \in Callers, ChromeRefuses(c)
        PROVE  MintedFirst' /\ AnswersFree'
    BY <2>8 DEF ChromeRefuses
  <2>9. ASSUME NEW t \in Targets, ChromeCloses(t)
        PROVE  MintedFirst' /\ AnswersFree'
    BY <2>9 DEF ChromeCloses
  <2>10. ASSUME NEW t \in Targets, PageOpens(t)
        PROVE  MintedFirst' /\ AnswersFree'
    BY <2>10 DEF PageOpens
  <2>11. ASSUME NEW t \in Targets, PageGone(t)
        PROVE  MintedFirst' /\ AnswersFree'
    BY <2>11 DEF PageGone
  <2>12. ASSUME ConnectionLost
        PROVE  MintedFirst' /\ AnswersFree'
    BY <2>12 DEF ConnectionLost
  <2>13. CASE UNCHANGED vars
    BY <2>13 DEF vars
  <2>14. QED
    BY <2>1, <2>2, <2>3, <2>4, <2>5, <2>6, <2>7, <2>8, <2>9, <2>10, <2>11,
       <2>12, <2>13 DEF Next, AdoptAny
<1>3. QED
  BY <1>1, <1>2, TypeCorrect, PTL DEF Spec

-----------------------------------------------------------------------------

\* The cap as `lease` and `adopt` enforce it (tab-pool.ts:53 and 72): leases and
\* calls past the check exceed it by at most one per concurrent caller.  A call
\* past the check moves one unit from InFlight to Leased when it registers, so
\* their sum is what the check bounds.
THEOREM CapBound == Spec => []CapOvershootBound
<1>1. Init => CapOvershootBound
  <2> SUFFICES ASSUME Init PROVE CapOvershootBound
    OBVIOUS
  <2>1. Leased = {} /\ InFlight = {}
    BY DEF Init, Leased, InFlight
  <2>2. Cardinality(Callers) \in Nat
    BY TabPoolAssumption, FS_CardinalityType
  <2>3. QED
    BY <2>1, <2>2, FS_EmptySet, TabPoolAssumption DEF CapOvershootBound
<1>2. TypeOK /\ TypeOK' /\ CapOvershootBound /\ [Next]_vars => CapOvershootBound'
  <2> SUFFICES ASSUME TypeOK, TypeOK', CapOvershootBound, [Next]_vars
               PROVE  CapOvershootBound'
    OBVIOUS
  <2>1. /\ IsFiniteSet(Leased) /\ Cardinality(Leased) \in Nat
        /\ IsFiniteSet(InFlight) /\ Cardinality(InFlight) \in Nat
        /\ Cardinality(InFlight) <= Cardinality(Callers)
        /\ Cardinality(Callers) \in Nat /\ MaxTabs \in Nat
    BY Finiteness, TabPoolAssumption
  <2>2. /\ IsFiniteSet(Leased') /\ Cardinality(Leased') \in Nat
        /\ IsFiniteSet(InFlight') /\ Cardinality(InFlight') \in Nat
        /\ Cardinality(InFlight') <= Cardinality(Callers)
    <3>1. Leased' \in SUBSET Targets /\ InFlight' \in SUBSET Callers
      BY DEF Leased, InFlight
    <3>2. QED
      BY <3>1, TabPoolAssumption, FS_Subset, FS_CardinalityType
  <2>3. ASSUME Leased' \subseteq Leased, InFlight' \subseteq InFlight
        PROVE  CapOvershootBound'
    <3>1. /\ Cardinality(Leased') <= Cardinality(Leased)
          /\ Cardinality(InFlight') <= Cardinality(InFlight)
      BY <2>1, <2>3, FS_Subset
    <3>2. QED
      BY <2>1, <2>2, <3>1 DEF CapOvershootBound
  <2>4. ASSUME NEW c \in Callers, NEW a \in Agents, LeaseCheck(c, a)
        PROVE  CapOvershootBound'
    <3>1. Leased' = Leased /\ ~(Cardinality(Leased) >= MaxTabs)
      BY <2>4 DEF LeaseCheck, Leased, AtCap
    <3>2. QED
      BY <2>1, <2>2, <3>1 DEF CapOvershootBound
  <2>5. ASSUME NEW c \in Callers, LeaseCreated(c)
        PROVE  CapOvershootBound'
    <3>1. /\ c \in InFlight
          /\ InFlight' = InFlight \ {c}
      BY <2>5 DEF LeaseCreated, InFlight, TypeOK
    <3>2. Leased' \subseteq Leased \cup {answer[c]}
      BY <2>5 DEF LeaseCreated, Register, Leased, TypeOK
    <3>3. Cardinality(Leased') <= Cardinality(Leased) + 1
      BY <2>1, <3>2, GrowsByOne
    <3>4. Cardinality(InFlight') = Cardinality(InFlight) - 1
      BY <2>1, <3>1, FS_RemoveElement
    <3>5. QED
      BY <2>1, <2>2, <3>3, <3>4 DEF CapOvershootBound
  <2>6. ASSUME NEW a \in Agents, NEW t \in foreign, Adopt(a, t)
        PROVE  CapOvershootBound'
    <3>1. /\ Leased' \subseteq Leased \cup {t}
          /\ ~(Cardinality(Leased) >= MaxTabs)
      BY <2>6 DEF Adopt, Register, Leased, AtCap, TypeOK
    <3>2. Cardinality(Leased') <= Cardinality(Leased) + 1
      BY <2>1, <3>1, GrowsByOne
    <3>3. QED
      BY <2>1, <2>2, <3>1, <3>2 DEF CapOvershootBound
  <2>7. ASSUME \/ \E t \in Targets :
                    \/ Release(t)
                    \/ Drop(t)
                    \/ ChromeCloses(t)
                    \/ PageOpens(t)
                    \/ PageGone(t)
               \/ \E c \in Callers :
                    \/ ChromeRefuses(c)
                    \/ \E t \in Targets : ChromeCreates(c, t)
               \/ ReleaseAll
               \/ ConnectionLost
               \/ UNCHANGED vars
        PROVE  CapOvershootBound'
    <3> USE DEF Leased, InFlight, TypeOK, callVars, chromeVars, vars
    <3>1. Leased' \subseteq Leased
      BY <2>7 DEF Release, Drop, ChromeCloses, PageOpens, PageGone,
                  ChromeRefuses, ChromeCreates, ReleaseAll, ConnectionLost
    <3>2. InFlight' \subseteq InFlight
      BY <2>7 DEF Release, Drop, ChromeCloses, PageOpens, PageGone,
                  ChromeRefuses, ChromeCreates, ReleaseAll, ConnectionLost
    <3>3. QED
      BY <2>3, <3>1, <3>2
  <2>8. QED
    BY <2>4, <2>5, <2>6, <2>7 DEF Next, AdoptAny
<1>3. QED
  BY <1>1, <1>2, TypeCorrect, PTL DEF Spec

-----------------------------------------------------------------------------

\* Tab affinity (tab-pool.ts:1-3): no step hands a leased tab to another agent.
\* The only steps that register are LeaseCreated, whose answer no lease names
\* (AnswersFree), and Adopt, which returns an existing lease unchanged.
THEOREM Exclusive == Spec => LeaseIsExclusive
<1> DEFINE Keeps == \A t \in Leased : leases'[t] \in {leases[t], NoAgent}
<1>1. IInv /\ [Next]_vars => [Keeps]_vars
  <2> SUFFICES ASSUME IInv, Next PROVE Keeps
    BY DEF vars
  <2> USE DEF Keeps, Leased, IInv, TypeOK
  <2>1. ASSUME NEW c \in Callers, LeaseCreated(c) PROVE Keeps
    BY <2>1 DEF LeaseCreated, Register, AnswersFree
  <2>2. ASSUME NEW a \in Agents, NEW t \in foreign, Adopt(a, t) PROVE Keeps
    BY <2>2 DEF Adopt, Register
  <2>3. ASSUME NEW t \in Targets, Release(t) \/ Drop(t) PROVE Keeps
    BY <2>3 DEF Release, Drop
  <2>4. CASE ReleaseAll
    BY <2>4 DEF ReleaseAll
  <2>5. ASSUME leases' = leases PROVE Keeps
    BY <2>5
  <2>6. QED
    BY <2>1, <2>2, <2>3, <2>4, <2>5
       DEF Next, AdoptAny, LeaseCheck, ChromeCreates, ChromeRefuses,
           ChromeCloses, PageOpens, PageGone, ConnectionLost
<1>2. QED
  BY <1>1, InductiveInvariant, PTL DEF Spec, LeaseIsExclusive

-----------------------------------------------------------------------------

\* No tab the pool created is left without somebody who will close it: the
\* lease, the call about to register it, or the closeTarget in flight.  When the
\* control connection goes and Chrome stays, the exception is what was in flight
\* then, or is released after it (tab-pool.ts:56, 93; client.ts:22 and 28).
THEOREM NoLeak == Spec => []NoLeakedTab
<1>1. Init => NoLeakedTab
  BY DEF Init, NoLeakedTab
<1>2. IInv /\ NoLeakedTab /\ [Next]_vars => NoLeakedTab'
  <2> SUFFICES ASSUME IInv, NoLeakedTab, [Next]_vars PROVE NoLeakedTab'
    OBVIOUS
  <2> USE TabPoolAssumption DEF NoLeakedTab, IInv, TypeOK, MintedFirst,
          AnswersFree, Leased, callVars, chromeVars
  <2>1. ASSUME NEW c \in Callers, NEW a \in Agents, LeaseCheck(c, a)
        PROVE  NoLeakedTab'
    BY <2>1 DEF LeaseCheck
  <2>2. ASSUME NEW c \in Callers, LeaseCreated(c)
        PROVE  NoLeakedTab'
    BY <2>2 DEF LeaseCreated, Register
  <2>3. ASSUME NEW a \in Agents, NEW t \in foreign, Adopt(a, t)
        PROVE  NoLeakedTab'
    BY <2>3 DEF Adopt, Register
  <2>4. ASSUME NEW t \in Targets, Release(t)
        PROVE  NoLeakedTab'
    BY <2>4 DEF Release, SendClose
  <2>5. ASSUME NEW t \in Targets, Drop(t)
        PROVE  NoLeakedTab'
    BY <2>5 DEF Drop
  <2>6. ASSUME ReleaseAll
        PROVE  NoLeakedTab'
    BY <2>6 DEF ReleaseAll, SendClose
  <2>7. ASSUME NEW c \in Callers, NEW t \in Targets, ChromeCreates(c, t)
        PROVE  NoLeakedTab'
    BY <2>7 DEF ChromeCreates
  <2>8. ASSUME NEW c \in Callers, ChromeRefuses(c)
        PROVE  NoLeakedTab'
    BY <2>8 DEF ChromeRefuses
  <2>9. ASSUME NEW t \in Targets, ChromeCloses(t)
        PROVE  NoLeakedTab'
    BY <2>9 DEF ChromeCloses
  <2>10. ASSUME NEW t \in Targets, PageOpens(t)
        PROVE  NoLeakedTab'
    BY <2>10 DEF PageOpens
  <2>11. ASSUME NEW t \in Targets, PageGone(t)
        PROVE  NoLeakedTab'
    BY <2>11 DEF PageGone
  <2>12. ASSUME ConnectionLost
        PROVE  NoLeakedTab'
    BY <2>12 DEF ConnectionLost
  <2>13. CASE UNCHANGED vars
    BY <2>13 DEF vars
  <2>14. QED
    BY <2>1, <2>2, <2>3, <2>4, <2>5, <2>6, <2>7, <2>8, <2>9, <2>10, <2>11,
       <2>12, <2>13 DEF Next, AdoptAny
<1>3. QED
  BY <1>1, <1>2, InductiveInvariant, PTL DEF Spec

=============================================================================
