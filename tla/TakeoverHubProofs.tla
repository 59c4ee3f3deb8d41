------------------------- MODULE TakeoverHubProofs -------------------------
(***************************************************************************)
(* The takeover hub, for any number of viewers, pages, sessions and jobs:  *)
(* no session is leaked, a viewer that joins late is painted, and when     *)
(* nothing is left to do the cast is where it belongs and nobody is left   *)
(* with a frame of a page that is gone.                                    *)
(*                                                                         *)
(* Two things carry the proof.  What the job at the head of the chain is   *)
(* about to do fixes who holds which session (Steps, Holding).  And        *)
(* whenever the cast is not what the viewers should see, something that    *)
(* will put it right is on its way (Due): an event that is not read yet, a *)
(* job that waits, or the one that runs (Recovers).                        *)
(***************************************************************************)
EXTENDS TakeoverHub, TLAPS

Runs(step) == chain # <<>> /\ chain[1].step = step

\* A job of the kind waits.
Waiting(kind) == \E i \in DOMAIN chain : chain[i].step = "queued" /\ chain[i].kind = kind

\* Jobs behind the running one wait.
Behind == \A i \in DOMAIN chain : i > 1 => chain[i].step = "queued"

\* A viewer joins once, and is in the set before and after.
Joining ==
  /\ \A v \in viewers : socket[v] # "new"
  /\ \A v \in joined : Open(v)
  /\ \A i \in DOMAIN chain : chain[i].kind = "join" => chain[i].viewer \in viewers \ joined
  /\ \A i, j \in DOMAIN chain :
       chain[i].kind = "join" /\ chain[j].kind = "join" /\ chain[i].viewer = chain[j].viewer
         => i = j

\* A stop was asked for when nobody was left; whoever came since joins after it.
Stops ==
  \A i \in DOMAIN chain : chain[i].kind = "stop" =>
    /\ joined = {}
    /\ chain[i].step \in {"queued", "stopping"}
    /\ \A j \in DOMAIN chain : j < i => chain[j].kind # "join"
    /\ viewers # {} => \E j \in DOMAIN chain : j > i /\ chain[j].kind = "join"

\* Without viewers there is no cast, or the last job stops it.
Ends ==
  viewers = {} =>
    /\ chain = <<>> => session = 0 /\ watch = "off"
    /\ chain # <<>> => chain[Len(chain)].kind = "stop"

\* What is known at each await of the running job.
Steps ==
  /\ Runs("probe") => chain[1].kind = "refresh" /\ session # 0
  /\ (\E step \in {"stopping", "discover", "list", "attach", "enable"} : Runs(step)) => session = 0
  /\ Runs("stopping") => chain[1].kind # "join"
  /\ Runs("enable") =>
       /\ chain[1].session \in 1..minted /\ chain[1].session \notin casting
       /\ pageOf[chain[1].session] = chain[1].page
  /\ Runs("cast") =>
       session = chain[1].session /\ session # 0 /\ session \notin casting /\ ~painted

Watching ==
  /\ watch = "asked" <=> Runs("discover")
  /\ session # 0 => watch = "on"
  /\ (\E step \in {"list", "attach", "enable"} : Runs(step)) => watch = "on"
  /\ watch = "on" => discovering

\* Who holds the sessions that exist.
Holding ==
  /\ attached \subseteq 1..minted
  /\ \A s \in attached :
       IF Runs("stopping") \/ Runs("enable") THEN s = chain[1].session ELSE s = session
  /\ session \in attached /\ ~Runs("cast") => session \in casting
  /\ session = 0 => ~painted

Seen == pages \subseteq seen /\ wanted \in seen \cup {NoPage}

\* A start of the cast is on its way.
Due ==
  \/ events > 0 /\ watch = "on"
  \/ Waiting("refresh") \/ Waiting("switch")
  \/ Waiting("join") /\ session = 0
  \/ \E step \in {"probe", "stopping", "discover", "list"} : Runs(step)
  \/ Runs("attach") /\ chain[1].page \in pages
  \/ (Runs("enable") \/ Runs("cast")) /\ chain[1].session \in attached

Watched == viewers # {} /\ \A i \in DOMAIN chain : chain[i].kind # "stop"

Astray ==
  \/ pages # {} /\ session \notin casting
  \/ session = 0 /\ \E v \in joined : shown[v] # 0

Recovers == Watched /\ Astray => Due

\* As long as the hub does not listen, somebody is about to join.
Waking ==
  Watched /\ watch # "on" =>
    \/ Waiting("join") /\ session = 0
    \/ \E step \in {"stopping", "discover", "list"} : Runs(step)

\* The page that was picked, as long as it exists, or a switch is on its way.
Picked(page) ==
  \/ wanted \in pages => page = wanted
  \/ Waiting("switch")

Follows ==
  /\ session # 0 => Picked(pageOf[session])
  /\ Runs("attach") \/ Runs("enable") => Picked(chain[1].page)

Shape == Behind /\ Joining /\ Stops /\ Ends
Core  == Steps /\ Watching /\ Holding

IInv ==
  /\ TypeOK /\ Shape /\ Core /\ Seen
  /\ JoinersArePainted
  /\ Recovers /\ Waking
  /\ Follows

-----------------------------------------------------------------------------
(* The chain.                                                              *)

StepNames == {"queued", "probe", "stopping", "discover", "list", "attach", "enable", "cast"}

LEMMA ChainFacts ==
  ASSUME TypeOK
  PROVE  /\ Len(chain) \in Nat /\ DOMAIN chain = 1..Len(chain)
         /\ \A i \in DOMAIN chain : chain[i] \in Jobs
         /\ chain = <<>> <=> Len(chain) = 0
         /\ chain # <<>> => 1 \in DOMAIN chain /\ job = chain[1]
<1>1. chain \in Seq(Jobs)
  BY DEF TypeOK
<1>2. Len(chain) \in Nat /\ DOMAIN chain = 1..Len(chain)
      /\ \A i \in DOMAIN chain : chain[i] \in Jobs
  BY <1>1
<1>3. chain = <<>> <=> Len(chain) = 0
  BY <1>1
<1>4. job = chain[1]
  BY <1>1 DEF job
<1> QED BY <1>2, <1>3, <1>4

\* A job that is asked for waits behind the others.
LEMMA Appended ==
  ASSUME TypeOK, NEW kind \in {"join", "stop", "refresh", "switch"},
         NEW v \in Viewers \cup {NoViewer}, chain' = Append(chain, Job(kind, v))
  PROVE  /\ chain' \in Seq(Jobs) /\ Len(chain') = Len(chain) + 1 /\ chain' # <<>>
         /\ DOMAIN chain' = 1..(Len(chain) + 1)
         /\ \A i \in DOMAIN chain : i \in DOMAIN chain' /\ chain'[i] = chain[i]
         /\ LET j == chain'[Len(chain) + 1]
            IN  j.kind = kind /\ j.viewer = v /\ j.step = "queued"
         /\ Waiting(kind)' /\ \A k : Waiting(k) => Waiting(k)'
         /\ \A s \in StepNames \ {"queued"} : Runs(s)' <=> Runs(s)
         /\ chain # <<>> => chain'[1] = chain[1]
<1> DEFINE j == Job(kind, v)
<1>1. j \in Jobs /\ j.kind = kind /\ j.viewer = v /\ j.step = "queued"
  <2>1. 0 \in 0..MaxSessions
    BY TakeoverHubAssumption
  <2> QED BY <2>1 DEF Job, Jobs
<1>2. chain \in Seq(Jobs) /\ Len(chain) \in Nat /\ DOMAIN chain = 1..Len(chain)
  BY ChainFacts DEF TypeOK
<1> HIDE DEF j
<1>3. chain' = Append(chain, j)
  BY DEF j
<1>4. /\ chain' \in Seq(Jobs) /\ Len(chain') = Len(chain) + 1
      /\ DOMAIN chain' = 1..(Len(chain) + 1)
      /\ \A i \in 1..Len(chain) : chain'[i] = chain[i]
      /\ chain'[Len(chain) + 1] = j
  BY <1>1, <1>2, <1>3
<1>5. chain' # <<>> /\ \A i \in DOMAIN chain : i \in DOMAIN chain' /\ chain'[i] = chain[i]
  BY <1>2, <1>4
<1>6. Waiting(kind)'
  <2>1. Len(chain) + 1 \in DOMAIN chain'
    BY <1>2, <1>4
  <2> QED BY <1>1, <1>4, <2>1 DEF Waiting
<1>7. \A k : Waiting(k) => Waiting(k)'
  BY <1>5 DEF Waiting
<1>8. chain # <<>> => chain'[1] = chain[1]
  BY <1>2, <1>4, ChainFacts
<1>9. chain = <<>> => chain'[1] = j
  BY <1>4, ChainFacts
<1>10. \A s \in StepNames \ {"queued"} : Runs(s)' <=> Runs(s)
  BY <1>1, <1>5, <1>8, <1>9 DEF Runs
<1> QED BY <1>1, <1>4, <1>5, <1>6, <1>7, <1>8, <1>10

\* The running job goes on.
LEMMA Stepped ==
  ASSUME TypeOK, chain # <<>>, NEW r \in Jobs, chain' = [chain EXCEPT ![1] = r],
         r.kind = chain[1].kind
  PROVE  /\ chain' \in Seq(Jobs) /\ Len(chain') = Len(chain) /\ chain' # <<>>
         /\ DOMAIN chain' = DOMAIN chain /\ chain'[1] = r
         /\ \A i \in DOMAIN chain : i # 1 => chain'[i] = chain[i]
         /\ \A i \in DOMAIN chain : chain'[i].kind = chain[i].kind
         /\ \A k : Waiting(k) /\ (chain[1].step # "queued" \/ chain[1].kind # k) => Waiting(k)'
         /\ \A s \in StepNames : Runs(s)' <=> s = r.step
<1>1. chain \in Seq(Jobs) /\ Len(chain) \in Nat /\ DOMAIN chain = 1..Len(chain) /\ 1 \in DOMAIN chain
  BY ChainFacts DEF TypeOK
<1>2. /\ chain' \in Seq(Jobs) /\ Len(chain') = Len(chain)
      /\ DOMAIN chain' = DOMAIN chain /\ chain'[1] = r
      /\ \A i \in DOMAIN chain : i # 1 => chain'[i] = chain[i]
  BY <1>1
<1>3. chain' # <<>>
  BY <1>1, <1>2
<1>4. \A i \in DOMAIN chain : chain'[i].kind = chain[i].kind
  BY <1>2
<1>5. \A k : Waiting(k) /\ (chain[1].step # "queued" \/ chain[1].kind # k) => Waiting(k)'
  BY <1>2 DEF Waiting
<1>6. \A s \in StepNames : Runs(s)' <=> s = r.step
  BY <1>2, <1>3 DEF Runs
<1> QED BY <1>2, <1>3, <1>4, <1>5, <1>6

\* The running job is done, and the next one waits.
LEMMA Tailed ==
  ASSUME TypeOK, Behind, chain # <<>>, chain' = Tail(chain)
  PROVE  /\ chain' \in Seq(Jobs) /\ Len(chain') = Len(chain) - 1
         /\ DOMAIN chain' = 1..(Len(chain) - 1)
         /\ \A i \in DOMAIN chain' : i + 1 \in DOMAIN chain /\ chain'[i] = chain[i + 1]
         /\ \A i \in DOMAIN chain : i # 1 => i - 1 \in DOMAIN chain' /\ chain'[i - 1] = chain[i]
         /\ \A i \in DOMAIN chain' : chain'[i].step = "queued"
         /\ \A k : Waiting(k) /\ (chain[1].step # "queued" \/ chain[1].kind # k) => Waiting(k)'
         /\ \A s \in StepNames \ {"queued"} : ~Runs(s)'
<1>1. chain \in Seq(Jobs) /\ Len(chain) \in Nat \ {0} /\ DOMAIN chain = 1..Len(chain)
  BY ChainFacts DEF TypeOK
<1>2. /\ chain' \in Seq(Jobs) /\ Len(chain') = Len(chain) - 1
      /\ DOMAIN chain' = 1..(Len(chain) - 1)
      /\ \A i \in 1..(Len(chain) - 1) : chain'[i] = chain[i + 1]
  BY <1>1
<1>3. \A i \in DOMAIN chain' : i + 1 \in DOMAIN chain /\ chain'[i] = chain[i + 1]
  BY <1>1, <1>2
<1>4. \A i \in DOMAIN chain : i # 1 => i - 1 \in DOMAIN chain' /\ chain'[i - 1] = chain[i]
  <2>1. SUFFICES ASSUME NEW i \in DOMAIN chain, i # 1
                 PROVE  i - 1 \in DOMAIN chain' /\ chain'[i - 1] = chain[i]
    OBVIOUS
  <2>2. i \in 2..Len(chain) /\ i - 1 \in 1..(Len(chain) - 1) /\ (i - 1) + 1 = i
    BY <1>1, <2>1
  <2>3. chain'[i - 1] = chain[(i - 1) + 1]
    BY <1>2, <2>2
  <2> QED BY <1>2, <2>2, <2>3
<1>5. \A i \in DOMAIN chain' : chain'[i].step = "queued"
  <2>1. \A i \in DOMAIN chain' : i + 1 > 1
    BY <1>1, <1>2
  <2> QED BY <1>3, <2>1 DEF Behind
<1>6. \A k : Waiting(k) /\ (chain[1].step # "queued" \/ chain[1].kind # k) => Waiting(k)'
  BY <1>4 DEF Waiting
<1>7. \A s \in StepNames \ {"queued"} : ~Runs(s)'
  <2>1. chain' # <<>> => 1 \in DOMAIN chain'
    BY <1>1, <1>2
  <2> QED BY <1>5, <2>1 DEF Runs
<1> QED BY <1>2, <1>3, <1>4, <1>5, <1>6, <1>7

-----------------------------------------------------------------------------
(* Viewers and their jobs.                                                 *)

\* A step of the running job does not tell its kind or its viewer.
LEMMA ShapeStepped ==
  ASSUME TypeOK, Shape, chain # <<>>, NEW r \in Jobs, chain' = [chain EXCEPT ![1] = r],
         r.kind = chain[1].kind, r.viewer = chain[1].viewer,
         r.kind = "stop" => r.step = "stopping",
         UNCHANGED <<socket, viewers, joined>>
  PROVE  Shape' /\ (Watched' <=> Watched)
<1>1. /\ DOMAIN chain' = DOMAIN chain /\ chain'[1] = r /\ Len(chain') = Len(chain)
      /\ chain' # <<>> /\ \A i \in DOMAIN chain : i # 1 => chain'[i] = chain[i]
      /\ \A i \in DOMAIN chain : chain'[i].kind = chain[i].kind
  BY Stepped
<1>2. \A i \in DOMAIN chain : chain'[i].viewer = chain[i].viewer
  BY <1>1
<1>3. Behind'
  <2>1. DOMAIN chain = 1..Len(chain) /\ Len(chain) \in Nat
    BY ChainFacts
  <2>2. \A i \in DOMAIN chain : i > 1 => i # 1
    BY <2>1
  <2> QED BY <1>1, <2>2 DEF Shape, Behind
<1>4. Joining'
  BY <1>1, <1>2 DEF Shape, Joining, Open
<1>5. Stops'
  <2>1. ASSUME NEW i \in DOMAIN chain, chain[i].kind = "stop"
        PROVE  chain'[i].step \in {"queued", "stopping"}
    BY <1>1, <2>1 DEF Shape, Stops
  <2> QED BY <1>1, <2>1 DEF Shape, Stops
<1>6. Ends'
  <2>1. Len(chain) \in DOMAIN chain
    BY ChainFacts
  <2> QED BY <1>1, <2>1 DEF Shape, Ends
<1>7. Watched' <=> Watched
  BY <1>1 DEF Watched
<1> QED BY <1>3, <1>4, <1>5, <1>6, <1>7 DEF Shape

\* The running job is over.  Whoever came while the hub stopped still waits to join.
LEMMA ShapeTailed ==
  ASSUME TypeOK, Shape, chain # <<>>, chain' = Tail(chain), UNCHANGED viewers,
         \/ /\ socket' = socket
            /\ joined' = IF chain[1].kind = "join" /\ Open(chain[1].viewer)
                         THEN joined \cup {chain[1].viewer} ELSE joined
         \/ /\ joined' = joined
            /\ socket' = IF chain[1].kind = "join"
                         THEN [socket EXCEPT ![chain[1].viewer] = "closed"] ELSE socket,
         chain[1].kind = "stop" => session' = 0 /\ watch' = "off"
  PROVE  /\ Shape' /\ joined' \in SUBSET viewers
         /\ socket' \in [Viewers -> {"new", "open", "closed"}]
         /\ chain[1].kind # "join" => joined' = joined
         /\ Watched' /\ chain[1].kind # "stop" => Watched
         /\ Watched' /\ chain[1].kind = "stop" => Waiting("join")'
<1>1. /\ Len(chain') = Len(chain) - 1 /\ DOMAIN chain' = 1..(Len(chain) - 1)
      /\ \A i \in DOMAIN chain' : i + 1 \in DOMAIN chain /\ chain'[i] = chain[i + 1]
      /\ \A i \in DOMAIN chain : i # 1 => i - 1 \in DOMAIN chain' /\ chain'[i - 1] = chain[i]
      /\ \A i \in DOMAIN chain' : chain'[i].step = "queued"
  BY Tailed DEF Shape
<1>2. Len(chain) \in Nat \ {0} /\ DOMAIN chain = 1..Len(chain) /\ 1 \in DOMAIN chain
  BY ChainFacts
<1>3. \A i \in DOMAIN chain' : i \in Nat /\ i + 1 # 1 /\ i + 1 > 1
  BY <1>1, <1>2
<1>4. socket \in [Viewers -> {"new", "open", "closed"}] /\ viewers \in SUBSET Viewers
      /\ joined \in SUBSET viewers
  BY DEF TypeOK
<1>5. chain[1].kind = "join" => chain[1].viewer \in viewers \ joined
  BY <1>2 DEF Shape, Joining
<1>6. Behind'
  BY <1>1 DEF Behind
<1>7. joined' \in SUBSET viewers /\ socket' \in [Viewers -> {"new", "open", "closed"}]
  BY <1>4, <1>5
<1>8. Joining'
  <2>1. \A v \in viewers : socket'[v] # "new"
    BY <1>4, <1>5 DEF Shape, Joining
  <2>2. \A v \in joined' : Open(v)'
    BY <1>4, <1>5 DEF Shape, Joining, Open
  <2>3. ASSUME NEW i \in DOMAIN chain', chain'[i].kind = "join"
        PROVE  chain'[i].viewer \in viewers \ joined'
    <3>1. i + 1 \in DOMAIN chain /\ chain'[i] = chain[i + 1] /\ i + 1 # 1
      BY <1>1, <1>3
    <3>2. chain[i + 1].viewer \in viewers \ joined
      BY <2>3, <3>1 DEF Shape, Joining
    <3>3. chain[1].kind = "join" => chain[i + 1].viewer # chain[1].viewer
      BY <1>2, <2>3, <3>1 DEF Shape, Joining
    <3> QED BY <3>1, <3>2, <3>3
  <2>4. ASSUME NEW i \in DOMAIN chain', NEW j \in DOMAIN chain', chain'[i].kind = "join",
               chain'[j].kind = "join", chain'[i].viewer = chain'[j].viewer
        PROVE  i = j
    <3>1. i + 1 = j + 1
      BY <1>1, <2>4 DEF Shape, Joining
    <3> QED BY <1>3, <3>1
  <2> QED BY <2>1, <2>2, <2>3, <2>4 DEF Joining
<1>9. Stops'
  <2>1. SUFFICES ASSUME NEW i \in DOMAIN chain', chain'[i].kind = "stop"
                 PROVE  /\ joined' = {} /\ chain'[i].step \in {"queued", "stopping"}
                        /\ \A j \in DOMAIN chain' : j < i => chain'[j].kind # "join"
                        /\ viewers # {} => \E j \in DOMAIN chain' : j > i /\ chain'[j].kind = "join"
    BY DEF Stops
  <2>2. i + 1 \in DOMAIN chain /\ chain[i + 1].kind = "stop" /\ 1 < i + 1
    BY <1>1, <1>3, <2>1
  <2>3. /\ joined = {}
        /\ \A j \in DOMAIN chain : j < i + 1 => chain[j].kind # "join"
        /\ viewers # {} => \E j \in DOMAIN chain : j > i + 1 /\ chain[j].kind = "join"
    BY <2>2 DEF Shape, Stops
  <2>4. joined' = {}
    BY <1>2, <2>2, <2>3
  <2>5. \A j \in DOMAIN chain' : j < i => chain'[j].kind # "join"
    <3>1. \A j \in DOMAIN chain' : j < i => j + 1 < i + 1
      BY <1>3
    <3> QED BY <1>1, <2>3, <3>1
  <2>6. ASSUME viewers # {} PROVE \E j \in DOMAIN chain' : j > i /\ chain'[j].kind = "join"
    <3>1. PICK j \in DOMAIN chain : j > i + 1 /\ chain[j].kind = "join"
      BY <2>3, <2>6
    <3>2. j # 1 /\ j - 1 > i
      BY <1>2, <1>3, <3>1
    <3> QED BY <1>1, <3>1, <3>2
  <2> QED BY <1>1, <2>1, <2>4, <2>5, <2>6
<1>10. Ends'
  <2>1. SUFFICES ASSUME viewers = {}
                 PROVE  /\ chain' = <<>> => session' = 0 /\ watch' = "off"
                        /\ chain' # <<>> => chain'[Len(chain')].kind = "stop"
    BY DEF Ends
  <2>2. chain[Len(chain)].kind = "stop"
    BY <2>1 DEF Shape, Ends
  <2>3. CASE Len(chain) = 1
    <3>1. chain' = <<>>
      <4>1. chain' \in Seq(Jobs) /\ Len(chain') = 0
        BY <1>1, <2>3, Tailed DEF Shape
      <4> QED BY <4>1
    <3> QED BY <2>2, <2>3, <3>1
  <2>4. CASE Len(chain) # 1
    <3>1. Len(chain) \in DOMAIN chain /\ Len(chain') = Len(chain) - 1
      BY <1>1, <1>2
    <3>2. chain'[Len(chain')] = chain[Len(chain)]
      BY <1>1, <2>4, <3>1
    <3>3. chain' # <<>>
      BY <1>1, <1>2, <2>4
    <3> QED BY <2>2, <3>2, <3>3
  <2> QED BY <2>3, <2>4
<1>11. Watched' /\ chain[1].kind # "stop" => Watched
  BY <1>1, SMTT(30) DEF Watched
<1>12. ASSUME Watched', chain[1].kind = "stop" PROVE Waiting("join")'
  <2>1. PICK j \in DOMAIN chain : j > 1 /\ chain[j].kind = "join"
    BY <1>2, <1>12 DEF Shape, Stops, Watched
  <2>2. j # 1
    BY <1>2, <2>1
  <2> QED BY <1>1, <2>1, <2>2 DEF Waiting
<1> QED BY <1>6, <1>7, <1>8, <1>9, <1>10, <1>11, <1>12 DEF Shape

\* A refresh or a switch is asked for as long as there are viewers.
LEMMA ShapeAppended ==
  ASSUME TypeOK, Shape, NEW kind \in {"refresh", "switch"},
         chain' = Append(chain, Job(kind, NoViewer)), viewers # {},
         UNCHANGED <<socket, viewers, joined>>
  PROVE  Shape' /\ (Watched' => Watched)
<1>1. kind \in {"join", "stop", "refresh", "switch"} /\ NoViewer \in Viewers \cup {NoViewer}
  OBVIOUS
<1>2. /\ Len(chain') = Len(chain) + 1 /\ chain' # <<>> /\ DOMAIN chain' = 1..(Len(chain) + 1)
      /\ \A i \in DOMAIN chain : i \in DOMAIN chain' /\ chain'[i] = chain[i]
      /\ chain'[Len(chain) + 1].kind = kind /\ chain'[Len(chain) + 1].step = "queued"
  BY <1>1, Appended
<1>3. Len(chain) \in Nat /\ DOMAIN chain = 1..Len(chain)
  BY ChainFacts
<1>4. \A i \in DOMAIN chain' : i \in DOMAIN chain \/ i = Len(chain) + 1
  BY <1>2, <1>3
<1>5. Behind'
  BY <1>2, <1>4 DEF Shape, Behind
<1>6. Joining'
  BY <1>2, <1>4 DEF Shape, Joining, Open
<1>7. Stops'
  <2>1. SUFFICES ASSUME NEW i \in DOMAIN chain', chain'[i].kind = "stop"
                 PROVE  /\ joined' = {} /\ chain'[i].step \in {"queued", "stopping"}
                        /\ \A j \in DOMAIN chain' : j < i => chain'[j].kind # "join"
                        /\ viewers # {} => \E j \in DOMAIN chain' : j > i /\ chain'[j].kind = "join"
    BY DEF Stops
  <2>2. i \in DOMAIN chain /\ chain'[i] = chain[i]
    BY <1>2, <1>4, <2>1
  <2> QED BY <1>2, <1>4, <2>1, <2>2 DEF Shape, Stops
<1>8. Ends'
  BY DEF Ends
<1> QED BY <1>2, <1>5, <1>6, <1>7, <1>8 DEF Shape, Watched

-----------------------------------------------------------------------------
(* Steps that leave the running job alone.                                 *)

\* No job is taken from the chain, and the running one is where it was.
Grows ==
  /\ \A k : Waiting(k) => Waiting(k)'
  /\ \A s \in StepNames \ {"queued"} : Runs(s)' <=> Runs(s)
  /\ chain # <<>> => chain'[1] = chain[1]

LEMMA SameChainGrows ==
  ASSUME UNCHANGED chain
  PROVE  Grows
BY DEF Grows, Waiting, Runs

LEMMA AppendedGrows ==
  ASSUME TypeOK, NEW kind \in {"join", "stop", "refresh", "switch"},
         NEW v \in Viewers \cup {NoViewer}, chain' = Append(chain, Job(kind, v))
  PROVE  Grows /\ Waiting(kind)' /\ chain' \in Seq(Jobs)
BY Appended DEF Grows

LEMMA RunsAreNamed ==
  ASSUME Grows
  PROVE  /\ Runs("probe")' <=> Runs("probe")
         /\ Runs("stopping")' <=> Runs("stopping")
         /\ Runs("discover")' <=> Runs("discover")
         /\ Runs("list")' <=> Runs("list")
         /\ Runs("attach")' <=> Runs("attach")
         /\ Runs("enable")' <=> Runs("enable")
         /\ Runs("cast")' <=> Runs("cast")
         /\ \A s \in StepNames \ {"queued"} : Runs(s) => chain'[1] = chain[1]
BY DEF Grows, StepNames, Runs

LEMMA CoreStays ==
  ASSUME Core, Grows,
         UNCHANGED <<session, painted, watch, discovering, pageOf, minted, attached, casting>>
  PROVE  Core'
<1>1. Steps'
  BY RunsAreNamed DEF Core, Steps, StepNames
<1>2. Watching'
  BY RunsAreNamed DEF Core, Watching
<1>3. Holding'
  BY RunsAreNamed DEF Core, Holding, StepNames
<1> QED BY <1>1, <1>2, <1>3 DEF Core

LEMMA DueStays ==
  ASSUME Due, Grows, UNCHANGED <<session, watch>>,
         events > 0 /\ watch = "on" => events' > 0 \/ Waiting("refresh")',
         Runs("attach") /\ ~(pages \subseteq pages') => events' > 0 /\ watch = "on",
         (Runs("enable") \/ Runs("cast")) /\ ~(attached \subseteq attached')
           => events' > 0 /\ watch = "on"
  PROVE  Due'
<1>1. CASE events > 0 /\ watch = "on"
  BY <1>1 DEF Due
<1>2. CASE Waiting("refresh") \/ Waiting("switch") \/ (Waiting("join") /\ session = 0)
  BY <1>2 DEF Due, Grows
<1>3. CASE \E step \in {"probe", "stopping", "discover", "list"} : Runs(step)
  BY <1>3, RunsAreNamed DEF Due
<1>4. CASE Runs("attach") /\ chain[1].page \in pages
  BY <1>4, RunsAreNamed DEF Due, StepNames
<1>5. CASE (Runs("enable") \/ Runs("cast")) /\ chain[1].session \in attached
  BY <1>5, RunsAreNamed DEF Due, StepNames
<1> QED BY <1>1, <1>2, <1>3, <1>4, <1>5 DEF Due

LEMMA WakingStays ==
  ASSUME Waking, Grows, UNCHANGED <<session, watch>>, Watched' => Watched
  PROVE  Waking'
BY RunsAreNamed DEF Waking, Grows

LEMMA FollowsStays ==
  ASSUME Follows, Grows, UNCHANGED <<session, pageOf, wanted>>,
         wanted \in pages' => wanted \in pages
  PROVE  Follows'
BY RunsAreNamed DEF Follows, Grows, Picked, StepNames

LEMMA JoinKeeps ==
  ASSUME IInv, NEW v \in Viewers, Join(v)
  PROVE  IInv'
<1>1. /\ socket[v] = "new" /\ socket' = [socket EXCEPT ![v] = "open"]
      /\ viewers' = viewers \cup {v} /\ chain' = Append(chain, Job("join", v))
      /\ UNCHANGED <<joined, shown, castVars, wanted, chromeVars>>
  BY DEF Join
<1>2. UNCHANGED <<session, painted, watch, active, pages, seen, events, discovering, pageOf,
                  minted, attached, casting>>
  BY <1>1 DEF castVars, chromeVars, pageVars
<1>3. /\ Len(chain') = Len(chain) + 1 /\ chain' # <<>> /\ DOMAIN chain' = 1..(Len(chain) + 1)
      /\ \A i \in DOMAIN chain : i \in DOMAIN chain' /\ chain'[i] = chain[i]
      /\ LET j == chain'[Len(chain) + 1]
         IN  j.kind = "join" /\ j.viewer = v /\ j.step = "queued"
  BY <1>1, Appended DEF IInv
<1>4. Len(chain) \in Nat /\ DOMAIN chain = 1..Len(chain) /\ (chain = <<>> <=> Len(chain) = 0)
  BY ChainFacts DEF IInv
<1>5. \A i \in DOMAIN chain' : i \in DOMAIN chain \/ i = Len(chain) + 1
  BY <1>3, <1>4
<1>6. v \notin viewers /\ v \notin joined
  BY <1>1 DEF IInv, Shape, Joining, TypeOK
<1>7. Grows /\ Waiting("join")' /\ chain' \in Seq(Jobs)
  BY <1>1, AppendedGrows DEF IInv
<1>8. TypeOK'
  BY <1>1, <1>2, <1>7 DEF IInv, TypeOK
<1>9. Behind'
  BY <1>3, <1>5 DEF IInv, Shape, Behind
<1>10. Joining'
  <2>1. \A u \in viewers' : socket'[u] # "new"
    BY <1>1 DEF IInv, TypeOK, Shape, Joining
  <2>2. \A u \in joined' : Open(u)'
    BY <1>1, <1>6 DEF IInv, TypeOK, Shape, Joining, Open
  <2>3. \A i \in DOMAIN chain : chain[i].kind = "join" => chain[i].viewer \in viewers \ joined
                                                          /\ chain[i].viewer # v
    BY <1>6 DEF IInv, Shape, Joining
  <2>4. \A i \in DOMAIN chain' : chain'[i].kind = "join" => chain'[i].viewer \in viewers' \ joined'
    BY <1>1, <1>3, <1>5, <1>6, <2>3
  <2>5. ASSUME NEW i \in DOMAIN chain', NEW j \in DOMAIN chain', chain'[i].kind = "join",
               chain'[j].kind = "join", chain'[i].viewer = chain'[j].viewer
        PROVE  i = j
    <3>1. CASE i \in DOMAIN chain /\ j \in DOMAIN chain
      BY <1>3, <2>5, <3>1 DEF IInv, Shape, Joining
    <3>2. CASE i \notin DOMAIN chain \/ j \notin DOMAIN chain
      BY <1>3, <1>5, <2>3, <2>5, <3>2
    <3> QED BY <3>1, <3>2
  <2> QED BY <2>1, <2>2, <2>4, <2>5 DEF Joining
<1>11. Stops'
  <2>1. SUFFICES ASSUME NEW i \in DOMAIN chain', chain'[i].kind = "stop"
                 PROVE  /\ joined' = {} /\ chain'[i].step \in {"queued", "stopping"}
                        /\ \A j \in DOMAIN chain' : j < i => chain'[j].kind # "join"
                        /\ viewers' # {} => \E j \in DOMAIN chain' : j > i /\ chain'[j].kind = "join"
    BY DEF Stops
  <2>2. i \in DOMAIN chain /\ chain'[i] = chain[i] /\ i < Len(chain) + 1
    BY <1>3, <1>4, <1>5, <2>1
  <2>3. \A j \in DOMAIN chain' : j < i => j \in DOMAIN chain
    BY <1>4, <1>5, <2>2
  <2>4. Len(chain) + 1 \in DOMAIN chain'
    BY <1>3, <1>4
  <2> QED BY <1>1, <1>3, <2>1, <2>2, <2>3, <2>4 DEF IInv, Shape, Stops
<1>12. Ends'
  BY <1>1 DEF Ends
<1>13. Watched' => Watched \/ (session = 0 /\ Waiting("join")')
  <2>1. SUFFICES ASSUME Watched', viewers = {} PROVE session = 0
    BY <1>3, <1>7 DEF Watched
  <2>2. chain = <<>>
    <3>1. chain # <<>> => Len(chain) \in DOMAIN chain
      BY <1>4
    <3> QED BY <1>3, <2>1, <3>1 DEF IInv, Shape, Ends, Watched
  <2> QED BY <2>1, <2>2 DEF IInv, Shape, Ends
<1>14. Core'
  BY <1>2, <1>7, CoreStays DEF IInv
<1>15. Seen' /\ JoinersArePainted'
  BY <1>1, <1>2 DEF IInv, Seen, JoinersArePainted
<1>16. Recovers'
  <2>1. Due => Due'
    BY <1>2, <1>7, DueStays
  <2>2. Astray' => Astray
    BY <1>1, <1>2 DEF Astray
  <2> QED BY <1>2, <1>13, <2>1, <2>2 DEF IInv, Recovers, Due
<1>17. Waking'
  <2>1. CASE Watched
    BY <1>2, <1>7, <2>1, WakingStays DEF IInv
  <2>2. CASE ~Watched
    BY <1>2, <1>13, <2>2 DEF Waking
  <2> QED BY <2>1, <2>2
<1>18. Follows'
  BY <1>1, <1>2, <1>7, FollowsStays DEF IInv
<1> QED BY <1>8, <1>9, <1>10, <1>11, <1>12, <1>14, <1>15, <1>16, <1>17, <1>18 DEF IInv, Shape

\* Either the last viewer leaves, and a stop is asked for, or the chain stays.
LEMMA LeaveKeeps ==
  ASSUME IInv, NEW v \in Viewers, Leave(v)
  PROVE  IInv'
<1>1. /\ Open(v) /\ socket' = [socket EXCEPT ![v] = "closed"] /\ joined' = joined \ {v}
      /\ viewers' = IF v \in joined THEN viewers \ {v} ELSE viewers
      /\ \/ v \in joined /\ viewers' = {} /\ Queue("stop")
         \/ ~(v \in joined /\ viewers' = {}) /\ UNCHANGED chain
      /\ UNCHANGED <<shown, castVars, wanted, chromeVars>>
  BY DEF Leave
<1>2. UNCHANGED <<session, painted, watch, active, pages, seen, events, discovering, pageOf,
                  minted, attached, casting>>
  BY <1>1 DEF castVars, chromeVars, pageVars
<1>3. Grows /\ chain' \in Seq(Jobs)
  <2>1. CASE UNCHANGED chain
    BY <2>1, SameChainGrows DEF IInv, TypeOK
  <2>2. CASE Queue("stop")
    BY <2>2, AppendedGrows DEF IInv, Queue
  <2> QED BY <1>1, <2>1, <2>2
<1>4. joined' \in SUBSET viewers' /\ viewers' \in SUBSET viewers /\ viewers \in SUBSET Viewers
      /\ socket \in [Viewers -> {"new", "open", "closed"}]
  BY <1>1 DEF IInv, TypeOK
<1>5. TypeOK'
  BY <1>1, <1>2, <1>3, <1>4 DEF IInv, TypeOK
<1>6. \A i \in DOMAIN chain : chain[i].kind = "join" => chain[i].viewer \in viewers' \ joined'
  <2>1. \A i \in DOMAIN chain : chain[i].kind = "join" => chain[i].viewer \in viewers \ joined
    BY DEF IInv, Shape, Joining
  <2> QED BY <1>1, <2>1
<1>7. /\ \A u \in viewers' : socket'[u] # "new"
      /\ \A u \in joined' : Open(u)'
  BY <1>1, <1>4 DEF IInv, Shape, Joining, Open, TypeOK
<1>8. Shape' /\ (Watched' => Watched)
  <2>1. CASE UNCHANGED chain /\ ~(v \in joined /\ viewers' = {})
    <3>1. Behind' /\ Joining'
      BY <1>6, <1>7, <2>1 DEF IInv, Shape, Behind, Joining
    <3>2. Stops'
      BY <1>1, <2>1 DEF IInv, Shape, Stops
    <3>3. Ends'
      BY <1>1, <1>2, <2>1 DEF IInv, Shape, Ends
    <3>4. Watched' => Watched
      BY <1>1, <2>1 DEF Watched
    <3> QED BY <3>1, <3>2, <3>3, <3>4 DEF Shape
  <2>2. CASE viewers' = {} /\ v \in joined /\ Queue("stop")
    <3>1. chain' = Append(chain, Job("stop", NoViewer))
      BY <2>2 DEF Queue
    <3>2. /\ Len(chain') = Len(chain) + 1 /\ DOMAIN chain' = 1..(Len(chain) + 1)
          /\ \A i \in DOMAIN chain : i \in DOMAIN chain' /\ chain'[i] = chain[i]
          /\ LET j == chain'[Len(chain) + 1] IN j.kind = "stop" /\ j.step = "queued"
      BY <3>1, Appended DEF IInv
    <3>3. Len(chain) \in Nat /\ DOMAIN chain = 1..Len(chain)
      BY ChainFacts DEF IInv
    <3>4. \A i \in DOMAIN chain' : i \in DOMAIN chain \/ i = Len(chain) + 1
      BY <3>2, <3>3
    <3>5. joined' = {} /\ \A i \in DOMAIN chain' : chain'[i].kind # "join"
      BY <1>4, <1>6, <2>2, <3>2, <3>4
    <3>6. Behind'
      BY <3>2, <3>4 DEF IInv, Shape, Behind
    <3>7. Joining'
      BY <1>7, <3>5 DEF Joining
    <3>8. \A i \in DOMAIN chain : chain[i].kind # "stop"
      BY <2>2 DEF IInv, Shape, Stops
    <3>9. Stops'
      BY <2>2, <3>2, <3>4, <3>5, <3>8 DEF Stops
    <3>10. Ends'
      BY <3>2, <3>1, Appended DEF Ends, IInv
    <3> QED BY <2>2, <3>6, <3>7, <3>9, <3>10 DEF Shape, Watched
  <2> QED BY <1>1, <2>1, <2>2
<1>9. Core'
  BY <1>2, <1>3, CoreStays DEF IInv
<1>10. Seen' /\ JoinersArePainted'
  BY <1>1, <1>2 DEF IInv, Seen, JoinersArePainted
<1>11. Recovers'
  <2>1. Due => Due'
    BY <1>2, <1>3, DueStays
  <2>2. Astray' => Astray
    BY <1>1, <1>2 DEF Astray
  <2> QED BY <1>8, <2>1, <2>2 DEF IInv, Recovers
<1>12. Waking'
  BY <1>2, <1>3, <1>8, WakingStays DEF IInv
<1>13. Follows'
  BY <1>1, <1>2, <1>3, FollowsStays DEF IInv
<1> QED BY <1>5, <1>8, <1>9, <1>10, <1>11, <1>12, <1>13 DEF IInv

LEMMA PickKeeps ==
  ASSUME IInv, NEW p \in Pages, Pick(p)
  PROVE  IInv'
<1>1. /\ joined # {} /\ p \in seen /\ wanted' = p
      /\ chain' = Append(chain, Job("switch", NoViewer))
      /\ UNCHANGED <<viewerVars, castVars, chromeVars>>
  BY DEF Pick, Queue
<1>2. UNCHANGED <<socket, viewers, joined, shown, session, painted, watch, active, pages, seen,
                  events, discovering, pageOf, minted, attached, casting>>
  BY <1>1 DEF viewerVars, castVars, chromeVars, pageVars
<1>3. viewers # {}
  BY <1>1 DEF IInv, TypeOK
<1>4. Grows /\ Waiting("switch")' /\ chain' \in Seq(Jobs)
  BY <1>1, AppendedGrows DEF IInv
<1>5. Shape'
  BY <1>1, <1>2, <1>3, ShapeAppended DEF IInv
<1>6. Core'
  BY <1>2, <1>4, CoreStays DEF IInv
<1>7. TypeOK' /\ Seen' /\ JoinersArePainted'
  BY <1>1, <1>2, <1>4 DEF IInv, TypeOK, Seen, JoinersArePainted
<1>8. Recovers' /\ Follows'
  BY <1>4 DEF Recovers, Due, Follows, Picked
<1>9. Waking'
  <2>1. Watched' => Watched
    BY <1>1, <1>2, <1>3, ShapeAppended DEF IInv
  <2> QED BY <1>2, <1>4, <2>1, WakingStays DEF IInv
<1> QED BY <1>5, <1>6, <1>7, <1>8, <1>9 DEF IInv

LEMMA TargetEventKeeps ==
  ASSUME IInv, TargetEvent
  PROVE  IInv'
<1>1. /\ events > 0 /\ events' = events - 1
      /\ \/ watch = "on" /\ viewers # {} /\ Queue("refresh")
         \/ ~(watch = "on" /\ viewers # {}) /\ UNCHANGED chain
      /\ UNCHANGED <<socket, viewers, joined, shown, session, painted, watch, active, wanted,
                     pages, seen, discovering, pageOf, minted, attached, casting>>
  BY DEF TargetEvent, viewerVars, castVars
<1>2. /\ Grows /\ chain' \in Seq(Jobs) /\ Shape' /\ (Watched' => Watched)
      /\ watch = "on" /\ viewers # {} => Waiting("refresh")'
  <2>1. CASE viewers # {} /\ Queue("refresh")
    <3>1. chain' = Append(chain, Job("refresh", NoViewer))
      BY <2>1 DEF Queue
    <3> QED BY <1>1, <2>1, <3>1, AppendedGrows, ShapeAppended DEF IInv
  <2>2. CASE ~(watch = "on" /\ viewers # {}) /\ UNCHANGED chain
    <3>1. Shape'
      BY <1>1, <2>2 DEF IInv, Shape, Behind, Joining, Stops, Ends, Open
    <3> QED BY <1>1, <2>2, <3>1, SameChainGrows DEF IInv, TypeOK, Watched
  <2> QED BY <1>1, <2>1, <2>2
<1>3. Core'
  BY <1>1, <1>2, CoreStays DEF IInv
<1>4. TypeOK' /\ Seen' /\ JoinersArePainted'
  BY <1>1, <1>2 DEF IInv, TypeOK, Seen, JoinersArePainted
<1>5. Recovers'
  <2>1. SUFFICES ASSUME Watched', Astray' PROVE Due'
    BY DEF Recovers
  <2>2. Due /\ viewers # {}
    BY <1>1, <1>2, <2>1 DEF IInv, Recovers, Astray, Watched
  <2> QED BY <1>1, <1>2, <2>2, DueStays
<1>6. Waking' /\ Follows'
  BY <1>1, <1>2, WakingStays, FollowsStays DEF IInv
<1> QED BY <1>2, <1>3, <1>4, <1>5, <1>6 DEF IInv

\* A step that concerns neither jobs nor viewers.
LEMMA ShapeStays ==
  ASSUME Shape, UNCHANGED <<chain, socket, viewers, joined, session, watch>>
  PROVE  Shape' /\ (Watched' <=> Watched)
BY DEF Shape, Behind, Joining, Stops, Ends, Open, Watched

LEMMA PageOpensKeeps ==
  ASSUME IInv, NEW p \in Pages, PageOpens(p)
  PROVE  IInv'
<1>1. /\ p \notin seen /\ pages' = pages \cup {p} /\ seen' = seen \cup {p}
      /\ events' = IF discovering THEN events + 1 ELSE events
      /\ UNCHANGED <<socket, viewers, joined, shown, chain, session, painted, watch, active,
                     wanted, discovering, pageOf, minted, attached, casting>>
  BY DEF PageOpens, Announced, viewerVars, castVars
<1>2. Grows
  BY <1>1, SameChainGrows
<1>3. Shape' /\ (Watched' <=> Watched)
  BY <1>1, ShapeStays DEF IInv
<1>4. Core'
  BY <1>1, <1>2, CoreStays DEF IInv
<1>5. TypeOK' /\ Seen' /\ JoinersArePainted'
  BY <1>1 DEF IInv, TypeOK, Seen, JoinersArePainted
<1>6. watch = "on" => events' > 0
  BY <1>1 DEF IInv, Core, Watching, TypeOK
<1>7. Waking'
  BY <1>1, <1>2, <1>3, WakingStays DEF IInv
<1>8. Recovers'
  <2>1. SUFFICES ASSUME Watched' PROVE Due'
    BY DEF Recovers
  <2>2. CASE watch = "on"
    BY <1>1, <1>6, <2>2 DEF Due
  <2>3. CASE watch # "on"
    BY <1>1, <1>7, <2>1, <2>3 DEF Waking, Due
  <2> QED BY <2>2, <2>3
<1>9. Follows'
  <2>1. p # NoPage
    BY TakeoverHubAssumption
  <2>2. wanted \in pages' => wanted \in pages
    BY <1>1, <2>1 DEF IInv, Seen
  <2> QED BY <1>1, <1>2, <2>2, FollowsStays DEF IInv
<1> QED BY <1>3, <1>4, <1>5, <1>7, <1>8, <1>9 DEF IInv

\* Whoever loses a session to it listens, and is told.
LEMMA PageClosesKeeps ==
  ASSUME IInv, NEW p \in Pages, PageCloses(p)
  PROVE  IInv'
<1>1. /\ p \in pages /\ pages' = pages \ {p}
      /\ attached' = {s \in attached : pageOf[s] # p}
      /\ casting' = {s \in casting : pageOf[s] # p}
      /\ events' = IF discovering THEN events + 1 ELSE events
      /\ UNCHANGED <<socket, viewers, joined, shown, chain, session, painted, watch, active,
                     wanted, seen, discovering, pageOf, minted>>
  BY DEF PageCloses, Announced, viewerVars, castVars
<1>2. Grows
  BY <1>1, SameChainGrows
<1>3. Shape' /\ (Watched' <=> Watched)
  BY <1>1, ShapeStays DEF IInv
<1>4. TypeOK'
  <2>1. attached' \in SUBSET (1..MaxSessions) /\ casting' \in SUBSET attached'
    BY <1>1 DEF IInv, TypeOK
  <2>2. events' \in Nat /\ pages' \in SUBSET Pages
    BY <1>1 DEF IInv, TypeOK
  <2> QED BY <1>1, <2>1, <2>2 DEF IInv, TypeOK
<1>5. Core'
  <2>1. attached' \subseteq attached /\ casting' \subseteq casting
    BY <1>1
  <2>2. Steps'
    BY <1>1, <1>2, <2>1, RunsAreNamed DEF IInv, Core, Steps, StepNames
  <2>3. Watching'
    BY <1>1, <1>2, RunsAreNamed DEF IInv, Core, Watching
  <2>4. Holding'
    BY <1>1, <1>2, <2>1, RunsAreNamed DEF IInv, Core, Holding, StepNames
  <2> QED BY <2>2, <2>3, <2>4 DEF Core
<1>6. Seen' /\ JoinersArePainted'
  BY <1>1 DEF IInv, Seen, JoinersArePainted
<1>7. watch = "on" => events' > 0
  BY <1>1 DEF IInv, Core, Watching, TypeOK
<1>8. Waking'
  BY <1>1, <1>2, <1>3, WakingStays DEF IInv
<1>9. Recovers'
  <2>1. SUFFICES ASSUME Watched', Astray' PROVE Due'
    BY DEF Recovers
  <2>2. CASE watch = "on"
    BY <1>1, <1>7, <2>2 DEF Due
  <2>3. CASE watch # "on"
    <3>1. session = 0 /\ ~Runs("attach") /\ ~Runs("enable") /\ ~Runs("cast")
      BY <2>3 DEF IInv, Core, Watching, Steps
    <3>2. 0 \notin casting
      BY DEF IInv, TypeOK
    <3>3. Due
      BY <1>1, <1>3, <2>1, <3>1, <3>2 DEF IInv, Recovers, Astray
    <3> QED BY <1>1, <1>2, <2>3, <3>1, <3>3, DueStays
  <2> QED BY <2>2, <2>3
<1>10. Follows'
  BY <1>1, <1>2, FollowsStays DEF IInv
<1> QED BY <1>3, <1>4, <1>5, <1>6, <1>8, <1>9, <1>10 DEF IInv

LEMMA FrameKeeps ==
  ASSUME IInv, Frame
  PROVE  IInv'
<1>1. /\ session \in casting /\ painted' = TRUE /\ shown' = Shows(session)
      /\ UNCHANGED <<socket, viewers, joined, chain, session, watch, active, wanted, pages, seen,
                     events, discovering, pageOf, minted, attached, casting>>
  BY DEF Frame, chromeVars, pageVars
<1>2. Grows
  BY <1>1, SameChainGrows
<1>3. Shape' /\ (Watched' <=> Watched)
  BY <1>1, ShapeStays DEF IInv
<1>4. session # 0
  BY <1>1 DEF IInv, TypeOK
<1>5. TypeOK'
  BY <1>1 DEF IInv, TypeOK, Shows
<1>6. Core'
  <2>1. Steps'
    BY <1>1, <1>2, <1>4, RunsAreNamed DEF IInv, Core, Steps, StepNames
  <2>2. Watching'
    BY <1>1, <1>2, RunsAreNamed DEF IInv, Core, Watching
  <2>3. Holding'
    BY <1>1, <1>2, <1>4, RunsAreNamed DEF IInv, Core, Holding, StepNames
  <2> QED BY <2>1, <2>2, <2>3 DEF Core
<1>7. Seen'
  BY <1>1 DEF IInv, Seen
<1>8. JoinersArePainted'
  BY <1>1 DEF IInv, JoinersArePainted, Shows, TypeOK, Shape, Joining
<1>9. Recovers'
  BY <1>1, <1>4 DEF Recovers, Astray
<1>10. Waking' /\ Follows'
  BY <1>1, <1>2, <1>3, WakingStays, FollowsStays DEF IInv
<1> QED BY <1>3, <1>5, <1>6, <1>7, <1>8, <1>9, <1>10 DEF IInv

LEMMA StutterKeeps ==
  ASSUME IInv, UNCHANGED vars
  PROVE  IInv'
<1>1. UNCHANGED <<socket, viewers, joined, shown, chain, session, painted, watch, active, wanted,
                  pages, seen, events, discovering, pageOf, minted, attached, casting>>
  BY DEF vars, viewerVars, castVars, chromeVars, pageVars
<1>2. Grows
  BY <1>1, SameChainGrows
<1>3. Shape' /\ (Watched' <=> Watched)
  BY <1>1, ShapeStays DEF IInv
<1>4. Core'
  BY <1>1, <1>2, CoreStays DEF IInv
<1>5. TypeOK' /\ Seen' /\ JoinersArePainted'
  BY <1>1 DEF IInv, TypeOK, Seen, JoinersArePainted
<1>6. Recovers'
  <2>1. Due => Due'
    BY <1>1, <1>2, DueStays
  <2> QED BY <1>1, <1>3, <2>1 DEF IInv, Recovers, Astray
<1>7. Waking' /\ Follows'
  BY <1>1, <1>2, <1>3, WakingStays, FollowsStays DEF IInv
<1> QED BY <1>3, <1>4, <1>5, <1>6, <1>7 DEF IInv

-----------------------------------------------------------------------------
(* Steps of the running job.                                               *)

Advances(r) ==
  /\ r \in Jobs /\ r.kind = chain[1].kind /\ r.viewer = chain[1].viewer
  /\ r.step # "queued" /\ (r.kind = "stop" => r.step = "stopping")
  /\ chain # <<>> /\ chain' = [chain EXCEPT ![1] = r]
  /\ UNCHANGED <<socket, viewers, joined>>

LEMMA AdvanceFacts ==
  ASSUME TypeOK, Shape, NEW r, Advances(r)
  PROVE  /\ chain' \in Seq(Jobs) /\ chain'[1] = r /\ Shape' /\ (Watched' <=> Watched)
         /\ \A k : Waiting(k) /\ (chain[1].step # "queued" \/ chain[1].kind # k) => Waiting(k)'
         /\ Runs("probe")' <=> r.step = "probe"
         /\ Runs("stopping")' <=> r.step = "stopping"
         /\ Runs("discover")' <=> r.step = "discover"
         /\ Runs("list")' <=> r.step = "list"
         /\ Runs("attach")' <=> r.step = "attach"
         /\ Runs("enable")' <=> r.step = "enable"
         /\ Runs("cast")' <=> r.step = "cast"
<1>1. /\ r \in Jobs /\ r.kind = chain[1].kind /\ r.viewer = chain[1].viewer
      /\ r.kind = "stop" => r.step = "stopping"
      /\ chain # <<>> /\ chain' = [chain EXCEPT ![1] = r]
      /\ UNCHANGED <<socket, viewers, joined>>
  BY DEF Advances
<1>2. Shape' /\ (Watched' <=> Watched)
  BY <1>1, ShapeStepped
<1>3. /\ chain' \in Seq(Jobs) /\ chain'[1] = r
      /\ \A k : Waiting(k) /\ (chain[1].step # "queued" \/ chain[1].kind # k) => Waiting(k)'
      /\ \A s \in StepNames : Runs(s)' <=> s = r.step
  BY <1>1, Stepped
<1> QED BY <1>2, <1>3 DEF StepNames

\* At(step) in terms of the chain.
LEMMA AtRuns ==
  ASSUME TypeOK, NEW step
  PROVE  At(step) <=> Runs(step)
BY ChainFacts DEF At, Runs

LEMMA HeadIsJob ==
  ASSUME TypeOK, chain # <<>>
  PROVE  chain[1] \in Jobs /\ job = chain[1]
BY ChainFacts

\* Go(step) advances the running job.
LEMMA GoAdvances ==
  ASSUME TypeOK, chain # <<>>, NEW step \in StepNames \ {"queued"}, Go(step),
         chain[1].kind = "stop" => step = "stopping", UNCHANGED <<socket, viewers, joined>>
  PROVE  LET r == [chain[1] EXCEPT !.step = step]
         IN  /\ Advances(r) /\ r.step = step /\ r.kind = chain[1].kind
             /\ r.page = chain[1].page /\ r.session = chain[1].session
<1> DEFINE r == [chain[1] EXCEPT !.step = step]
<1>1. chain[1] \in Jobs
  BY HeadIsJob
<1>2. /\ r \in Jobs /\ r.kind = chain[1].kind /\ r.viewer = chain[1].viewer /\ r.step = step
      /\ r.page = chain[1].page /\ r.session = chain[1].session
  BY <1>1 DEF Jobs, StepNames
<1>3. chain' = [chain EXCEPT ![1] = r]
  BY DEF Go
<1>4. step # "queued"
  OBVIOUS
<1> HIDE DEF r
<1>5. Advances(r)
  BY <1>2, <1>3, <1>4 DEF Advances
<1> QED BY <1>2, <1>5 DEF r

\* startCasting: nothing is attached when it begins.
LEMMA StartIsRight ==
  ASSUME IInv, chain # <<>>, Runs("queued") \/ Runs("stopping"), chain[1].kind # "stop",
         StartCasting, session = 0,
         UNCHANGED <<socket, viewers, joined, shown, session, painted, active, wanted, pages, seen,
                     events, discovering, pageOf, minted>>,
         attached' = {}, casting' = {}
  PROVE  IInv'
<1>1. watch # "asked"
  BY DEF IInv, Core, Watching, Runs
<1>2. PICK step \in {"discover", "list"} :
        /\ Go(step)
        /\ step = "discover" => watch' = "asked"
        /\ step = "list" => watch' = "on" /\ watch = "on"
  <2>1. watch \in {"off", "asked", "on"}
    BY DEF IInv, TypeOK
  <2> QED BY <1>1, <2>1 DEF StartCasting
<1> DEFINE r == [chain[1] EXCEPT !.step = step]
<1>3. Advances(r) /\ r.step = step
  <2>1. step \in StepNames \ {"queued"}
    BY DEF StepNames
  <2> QED BY <1>2, <2>1, GoAdvances DEF IInv
<1> HIDE DEF r
<1>4. /\ chain' \in Seq(Jobs) /\ chain'[1] = r /\ Shape' /\ (Watched' <=> Watched)
      /\ ~Runs("probe")' /\ ~Runs("stopping")' /\ ~Runs("attach")' /\ ~Runs("enable")'
      /\ ~Runs("cast")'
      /\ Runs("discover")' <=> step = "discover"
      /\ Runs("list")' <=> step = "list"
  BY <1>3, AdvanceFacts DEF IInv
<1>5. TypeOK'
  BY <1>2, <1>4 DEF IInv, TypeOK
<1>6. Core'
  <2>1. Steps'
    BY <1>4 DEF Steps
  <2>2. Watching'
    BY <1>2, <1>4 DEF IInv, Core, Watching
  <2>3. Holding'
    BY <1>4 DEF IInv, Core, Holding
  <2> QED BY <2>1, <2>2, <2>3 DEF Core
<1>7. Seen' /\ JoinersArePainted'
  BY DEF IInv, Seen, JoinersArePainted
<1>8. Recovers' /\ Waking'
  BY <1>4 DEF Recovers, Due, Waking
<1>9. Follows'
  BY <1>4 DEF Follows
<1> QED BY <1>4, <1>5, <1>6, <1>7, <1>8, <1>9 DEF IInv

\* Without a session of the hub, and none in the hands of the job, there is none.
LEMMA NothingAttached ==
  ASSUME TypeOK, Core, session = 0, ~Runs("stopping"), ~Runs("enable")
  PROVE  attached = {} /\ casting = {}
BY DEF TypeOK, Core, Holding

LEMMA BeginStartKeeps ==
  ASSUME IInv, BeginStart
  PROVE  IInv'
<1>1. Runs("queued") /\ chain[1].kind # "stop" /\ session = 0 /\ chain # <<>>
  BY AtRuns, HeadIsJob DEF BeginStart, IInv, Runs
<1>2. ~Runs("stopping") /\ ~Runs("enable")
  BY <1>1 DEF Runs
<1>3. StartCasting
      /\ UNCHANGED <<socket, viewers, joined, shown, session, painted, active, wanted, pages, seen,
                     events, discovering, pageOf, minted, attached, casting>>
  BY DEF BeginStart, viewerVars, chromeVars, pageVars
<1>4. attached' = {} /\ casting' = {}
  BY <1>1, <1>2, <1>3, NothingAttached DEF IInv
<1> QED BY <1>1, <1>3, <1>4, StartIsRight

LEMMA BeginProbeKeeps ==
  ASSUME IInv, BeginProbe
  PROVE  IInv'
<1>1. Runs("queued") /\ chain[1].kind = "refresh" /\ session # 0 /\ chain # <<>>
  BY AtRuns, HeadIsJob DEF BeginProbe, IInv, Runs
<1>2. Go("probe")
      /\ UNCHANGED <<socket, viewers, joined, shown, session, painted, watch, active, wanted, pages,
                     seen, events, discovering, pageOf, minted, attached, casting>>
  BY DEF BeginProbe, viewerVars, castVars, chromeVars, pageVars
<1> DEFINE r == [chain[1] EXCEPT !.step = "probe"]
<1>3. Advances(r) /\ r.step = "probe" /\ r.kind = "refresh"
  <2>1. "probe" \in StepNames \ {"queued"}
    BY DEF StepNames
  <2> QED BY <1>1, <1>2, <2>1, GoAdvances DEF IInv
<1> HIDE DEF r
<1>4. /\ chain' \in Seq(Jobs) /\ chain'[1] = r /\ Shape' /\ (Watched' <=> Watched)
      /\ \A k : Waiting(k) /\ (chain[1].step # "queued" \/ chain[1].kind # k) => Waiting(k)'
      /\ Runs("probe")' /\ ~Runs("stopping")' /\ ~Runs("discover")' /\ ~Runs("list")'
      /\ ~Runs("attach")' /\ ~Runs("enable")' /\ ~Runs("cast")'
  BY <1>3, AdvanceFacts DEF IInv
<1>5. ~Runs("stopping") /\ ~Runs("discover") /\ ~Runs("enable") /\ ~Runs("cast")
  BY <1>1 DEF Runs
<1>6. watch = "on"
  BY <1>1 DEF IInv, Core, Watching
<1>7. TypeOK' /\ Seen' /\ JoinersArePainted'
  BY <1>2, <1>4 DEF IInv, TypeOK, Seen, JoinersArePainted
<1>8. Core'
  <2>1. Steps'
    BY <1>1, <1>2, <1>3, <1>4 DEF Steps
  <2>2. Watching'
    BY <1>2, <1>4, <1>6 DEF IInv, Core, Watching
  <2>3. Holding'
    BY <1>2, <1>4, <1>5 DEF IInv, Core, Holding
  <2> QED BY <2>1, <2>2, <2>3 DEF Core
<1>9. Recovers' /\ Waking'
  BY <1>2, <1>4, <1>6 DEF Recovers, Due, Waking
<1>10. Follows'
  <2>1. Waiting("switch") => Waiting("switch")'
    BY <1>1, <1>4
  <2> QED BY <1>2, <1>4, <2>1 DEF IInv, Follows, Picked
<1> QED BY <1>4, <1>7, <1>8, <1>9, <1>10 DEF IInv

\* stopCasting: the session passes from the hub to the job.
LEMMA StopIsRight ==
  ASSUME IInv, chain # <<>>, Runs("queued") \/ Runs("probe"),
         chain[1].kind # "join", session # 0, StopCasting
  PROVE  IInv'
<1> DEFINE r == [chain[1] EXCEPT !.step = "stopping", !.session = session]
<1>1. /\ session' = 0 /\ painted' = FALSE /\ chain' = [chain EXCEPT ![1] = r]
      /\ UNCHANGED <<socket, viewers, joined, shown, watch, active, wanted, pages, seen, events,
                     discovering, pageOf, minted, attached, casting>>
  BY DEF StopCasting, viewerVars, chromeVars, pageVars
<1>2. /\ r \in Jobs /\ r.kind = chain[1].kind /\ r.viewer = chain[1].viewer
      /\ r.step = "stopping" /\ r.session = session
  <2>1. chain[1] \in Jobs /\ session \in 0..MaxSessions
    BY HeadIsJob DEF IInv, TypeOK
  <2> QED BY <2>1 DEF Jobs
<1> HIDE DEF r
<1>3. Advances(r)
  BY <1>1, <1>2 DEF Advances
<1>4. /\ chain' \in Seq(Jobs) /\ chain'[1] = r /\ Shape' /\ (Watched' <=> Watched)
      /\ Runs("stopping")' /\ ~Runs("probe")' /\ ~Runs("discover")' /\ ~Runs("list")'
      /\ ~Runs("attach")' /\ ~Runs("enable")' /\ ~Runs("cast")'
  BY <1>2, <1>3, AdvanceFacts DEF IInv
<1>5. ~Runs("stopping") /\ ~Runs("discover") /\ ~Runs("enable") /\ ~Runs("cast")
  BY DEF Runs
<1>6. TypeOK'
  <2>1. 0 \in 0..MaxSessions
    BY TakeoverHubAssumption
  <2> QED BY <1>1, <1>4, <2>1 DEF IInv, TypeOK
<1>7. Seen' /\ JoinersArePainted'
  BY <1>1 DEF IInv, Seen, JoinersArePainted
<1>8. Core'
  <2>1. Steps'
    BY <1>1, <1>2, <1>4 DEF Steps
  <2>2. Watching'
    BY <1>1, <1>4, <1>5 DEF IInv, Core, Watching
  <2>3. Holding'
    BY <1>1, <1>2, <1>4, <1>5 DEF IInv, Core, Holding, TypeOK
  <2> QED BY <2>1, <2>2, <2>3 DEF Core
<1>9. Recovers' /\ Waking'
  BY <1>4 DEF Recovers, Due, Waking
<1>10. Follows'
  BY <1>1, <1>4 DEF Follows
<1> QED BY <1>4, <1>6, <1>7, <1>8, <1>9, <1>10 DEF IInv

LEMMA BeginStopKeeps ==
  ASSUME IInv, BeginStop
  PROVE  IInv'
<1>1. Runs("queued") /\ chain[1].kind \in {"stop", "switch"} /\ session # 0 /\ chain # <<>>
  BY AtRuns, HeadIsJob DEF BeginStop, IInv, Runs
<1> QED BY <1>1, StopIsRight DEF BeginStop

LEMMA DiscoveredKeeps ==
  ASSUME IInv, Discovered
  PROVE  IInv'
<1>1. Runs("discover") /\ chain # <<>>
  BY AtRuns DEF Discovered, IInv, Runs
<1>2. /\ Go("list") /\ discovering' = TRUE /\ watch' = "on"
      /\ UNCHANGED <<socket, viewers, joined, shown, session, painted, active, wanted, pages, seen,
                     events, pageOf, minted, attached, casting>>
  BY DEF Discovered, viewerVars, pageVars
<1>3. session = 0 /\ ~Runs("stopping") /\ ~Runs("enable") /\ chain[1].kind # "stop"
  <2>1. session = 0
    BY <1>1 DEF IInv, Core, Steps
  <2>2. 1 \in DOMAIN chain
    BY <1>1, ChainFacts DEF IInv
  <2>3. chain[1].kind # "stop"
    BY <1>1, <2>2 DEF IInv, Shape, Stops, Runs
  <2> QED BY <1>1, <2>1, <2>3 DEF Runs
<1>4. attached = {} /\ casting = {}
  BY <1>3, NothingAttached DEF IInv
<1> DEFINE r == [chain[1] EXCEPT !.step = "list"]
<1>5. Advances(r) /\ r.step = "list"
  <2>1. "list" \in StepNames \ {"queued"}
    BY DEF StepNames
  <2> QED BY <1>1, <1>2, <1>3, <2>1, GoAdvances DEF IInv
<1> HIDE DEF r
<1>6. /\ chain' \in Seq(Jobs) /\ chain'[1] = r /\ Shape' /\ (Watched' <=> Watched)
      /\ Runs("list")' /\ ~Runs("probe")' /\ ~Runs("stopping")' /\ ~Runs("discover")'
      /\ ~Runs("attach")' /\ ~Runs("enable")' /\ ~Runs("cast")'
  BY <1>5, AdvanceFacts DEF IInv
<1>7. TypeOK' /\ Seen' /\ JoinersArePainted'
  BY <1>2, <1>6 DEF IInv, TypeOK, Seen, JoinersArePainted
<1>8. Core'
  <2>1. Steps'
    BY <1>2, <1>3, <1>6 DEF Steps
  <2>2. Watching'
    BY <1>2, <1>6 DEF Watching
  <2>3. Holding'
    BY <1>2, <1>3, <1>4, <1>6 DEF IInv, Core, Holding
  <2> QED BY <2>1, <2>2, <2>3 DEF Core
<1>9. Recovers' /\ Waking'
  BY <1>6 DEF Recovers, Due, Waking
<1>10. Follows'
  BY <1>2, <1>3, <1>6 DEF Follows
<1> QED BY <1>6, <1>7, <1>8, <1>9, <1>10 DEF IInv

LEMMA ListedKeeps ==
  ASSUME IInv, Listed
  PROVE  IInv'
<1>1. Runs("list") /\ chain # <<>>
  BY AtRuns DEF Listed, IInv, Runs
<1>2. PICK p \in IF wanted \in pages THEN {wanted} ELSE pages :
        chain' = [chain EXCEPT ![1].step = "attach", ![1].page = p]
  BY DEF Listed
<1>3. p \in pages /\ p \in Pages /\ (wanted \in pages => p = wanted)
  BY DEF IInv, TypeOK
<1>4. UNCHANGED <<socket, viewers, joined, shown, session, painted, watch, active, wanted, pages,
                  seen, events, discovering, pageOf, minted, attached, casting>>
  BY DEF Listed, viewerVars, castVars, chromeVars, pageVars
<1>5. session = 0 /\ watch = "on" /\ ~Runs("stopping") /\ ~Runs("enable") /\ ~Runs("discover")
      /\ chain[1].kind # "stop"
  <2>1. session = 0 /\ watch = "on"
    BY <1>1 DEF IInv, Core, Steps, Watching
  <2>2. 1 \in DOMAIN chain
    BY <1>1, ChainFacts DEF IInv
  <2>3. chain[1].kind # "stop"
    BY <1>1, <2>2 DEF IInv, Shape, Stops, Runs
  <2> QED BY <1>1, <2>1, <2>3 DEF Runs
<1> DEFINE r == [chain[1] EXCEPT !.step = "attach", !.page = p]
<1>6. r \in Jobs /\ r.kind = chain[1].kind /\ r.viewer = chain[1].viewer
      /\ r.step = "attach" /\ r.page = p
  <2>1. chain[1] \in Jobs
    BY <1>1, HeadIsJob DEF IInv
  <2> QED BY <1>3, <2>1 DEF Jobs
<1>7. chain' = [chain EXCEPT ![1] = r]
  BY <1>2
<1> HIDE DEF r
<1>8. Advances(r)
  BY <1>1, <1>4, <1>5, <1>6, <1>7 DEF Advances
<1>9. /\ chain' \in Seq(Jobs) /\ chain'[1] = r /\ Shape' /\ (Watched' <=> Watched)
      /\ Runs("attach")' /\ ~Runs("probe")' /\ ~Runs("stopping")' /\ ~Runs("discover")'
      /\ ~Runs("list")' /\ ~Runs("enable")' /\ ~Runs("cast")'
  BY <1>6, <1>8, AdvanceFacts DEF IInv
<1>10. TypeOK' /\ Seen' /\ JoinersArePainted'
  BY <1>4, <1>9 DEF IInv, TypeOK, Seen, JoinersArePainted
<1>11. attached = {} /\ casting = {}
  BY <1>5, NothingAttached DEF IInv
<1>12. Core'
  <2>1. Steps'
    BY <1>4, <1>5, <1>9 DEF Steps
  <2>2. Watching'
    BY <1>4, <1>5, <1>9 DEF IInv, Core, Watching
  <2>3. Holding'
    BY <1>4, <1>5, <1>9, <1>11 DEF IInv, Core, Holding
  <2> QED BY <2>1, <2>2, <2>3 DEF Core
<1>13. Recovers' /\ Waking'
  BY <1>3, <1>4, <1>5, <1>6, <1>9 DEF Recovers, Due, Waking
<1>14. Follows'
  BY <1>3, <1>4, <1>5, <1>6, <1>9 DEF Follows, Picked
<1> QED BY <1>9, <1>10, <1>12, <1>13, <1>14 DEF IInv

\* The job holds the session that Chrome has minted.
LEMMA AttachedKeeps ==
  ASSUME IInv, Runs("attach"), chain[1].page \in pages, minted < MaxSessions,
         minted' = minted + 1, pageOf' = [pageOf EXCEPT ![minted + 1] = chain[1].page],
         attached' = attached \cup {minted + 1},
         chain' = [chain EXCEPT ![1].step = "enable", ![1].session = minted + 1],
         UNCHANGED <<viewerVars, castVars, wanted, pageVars, discovering, casting>>
  PROVE  IInv'
<1>1. chain # <<>> /\ UNCHANGED <<socket, viewers, joined, shown, session, painted, watch, active,
                                  wanted, pages, seen, events, discovering, casting>>
  BY DEF Runs, viewerVars, castVars, pageVars
<1>2. session = 0 /\ watch = "on" /\ ~Runs("stopping") /\ ~Runs("enable") /\ ~Runs("discover")
      /\ chain[1].kind # "stop" /\ chain[1].step # "queued"
  <2>1. session = 0 /\ watch = "on"
    BY DEF IInv, Core, Steps, Watching
  <2>2. 1 \in DOMAIN chain
    BY <1>1, ChainFacts DEF IInv
  <2>3. chain[1].kind # "stop"
    BY <2>2 DEF IInv, Shape, Stops, Runs
  <2> QED BY <2>1, <2>3 DEF Runs
<1>3. minted \in Nat /\ minted + 1 \in 1..MaxSessions /\ minted + 1 \in 0..MaxSessions
  BY TakeoverHubAssumption, SMTT(30) DEF IInv, TypeOK
<1>4. attached = {} /\ casting = {}
  BY <1>2, NothingAttached DEF IInv
<1> DEFINE r == [chain[1] EXCEPT !.step = "enable", !.session = minted + 1]
<1>5. r \in Jobs /\ r.kind = chain[1].kind /\ r.viewer = chain[1].viewer
      /\ r.step = "enable" /\ r.page = chain[1].page /\ r.session = minted + 1
  <2>1. chain[1] \in Jobs
    BY <1>1, HeadIsJob DEF IInv
  <2> QED BY <1>3, <2>1 DEF Jobs
<1>6. chain' = [chain EXCEPT ![1] = r]
  OBVIOUS
<1> HIDE DEF r
<1>7. Advances(r)
  BY <1>1, <1>2, <1>5, <1>6 DEF Advances
<1>8. /\ chain' \in Seq(Jobs) /\ chain'[1] = r /\ Shape' /\ (Watched' <=> Watched)
      /\ \A k : Waiting(k) /\ (chain[1].step # "queued" \/ chain[1].kind # k) => Waiting(k)'
      /\ Runs("enable")' /\ ~Runs("probe")' /\ ~Runs("stopping")' /\ ~Runs("discover")'
      /\ ~Runs("list")' /\ ~Runs("attach")' /\ ~Runs("cast")'
  BY <1>5, <1>7, AdvanceFacts DEF IInv
<1>9. pageOf' \in [1..MaxSessions -> Pages \cup {NoPage}] /\ pageOf'[minted + 1] = chain[1].page
  <2>1. chain[1].page \in Pages
    BY DEF IInv, TypeOK
  <2> QED BY <1>3, <2>1 DEF IInv, TypeOK
<1>10. TypeOK' /\ Seen' /\ JoinersArePainted'
  <2>1. attached' \in SUBSET (1..MaxSessions) /\ casting' \in SUBSET attached'
    BY <1>1, <1>3, <1>4
  <2> QED BY <1>1, <1>3, <1>8, <1>9, <2>1 DEF IInv, TypeOK, Seen, JoinersArePainted
<1>11. Core'
  <2>1. Steps'
    BY <1>1, <1>2, <1>3, <1>4, <1>5, <1>8, <1>9 DEF Steps
  <2>2. Watching'
    BY <1>1, <1>2, <1>8 DEF IInv, Core, Watching
  <2>3. Holding'
    BY <1>1, <1>2, <1>3, <1>4, <1>5, <1>8 DEF IInv, Core, Holding
  <2> QED BY <2>1, <2>2, <2>3 DEF Core
<1>12. Recovers' /\ Waking'
  BY <1>1, <1>2, <1>5, <1>8 DEF Recovers, Due, Waking
<1>13. Follows'
  <2>1. PICK p : p = chain[1].page
    OBVIOUS
  <2>2. Picked(p)
    BY <2>1 DEF IInv, Follows
  <2>3. Waiting("switch") => Waiting("switch")'
    BY <1>2, <1>8
  <2>4. Picked(p)'
    BY <1>1, <2>2, <2>3 DEF Picked
  <2>5. chain'[1].page = p
    BY <1>5, <1>8, <2>1
  <2> QED BY <1>1, <1>2, <2>4, <2>5 DEF Follows
<1> QED BY <1>8, <1>10, <1>11, <1>12, <1>13 DEF IInv

\* The hub takes the session over from the job, and no frame of it has come so far.
LEMMA EnabledKeeps ==
  ASSUME IInv, Runs("enable"), chain[1].session \in attached,
         session' = chain[1].session, active' = chain[1].page, Go("cast"),
         UNCHANGED <<viewerVars, painted, watch, wanted, chromeVars>>
  PROVE  IInv'
<1>1. chain # <<>> /\ UNCHANGED <<socket, viewers, joined, shown, painted, watch, wanted, pages,
                                  seen, events, discovering, pageOf, minted, attached, casting>>
  BY DEF Runs, viewerVars, chromeVars, pageVars
<1>2. /\ session = 0 /\ watch = "on" /\ ~painted
      /\ chain[1].session \in 1..minted /\ chain[1].session \notin casting
      /\ pageOf[chain[1].session] = chain[1].page
      /\ \A s \in attached : s = chain[1].session
  BY DEF IInv, Core, Steps, Watching, Holding
<1>3. chain[1].kind # "stop" /\ chain[1].step # "queued"
  <2>1. 1 \in DOMAIN chain
    BY <1>1, ChainFacts DEF IInv
  <2> QED BY <2>1 DEF IInv, Shape, Stops, Runs
<1>4. minted \in Nat /\ chain[1].session # 0
  BY <1>2 DEF IInv, TypeOK
<1> DEFINE r == [chain[1] EXCEPT !.step = "cast"]
<1>5. Advances(r) /\ r.step = "cast" /\ r.session = chain[1].session /\ r.page = chain[1].page
  <2>1. "cast" \in StepNames \ {"queued"}
    BY DEF StepNames
  <2> QED BY <1>1, <1>3, <2>1, GoAdvances DEF IInv
<1> HIDE DEF r
<1>6. /\ chain' \in Seq(Jobs) /\ chain'[1] = r /\ Shape' /\ (Watched' <=> Watched)
      /\ \A k : Waiting(k) /\ (chain[1].step # "queued" \/ chain[1].kind # k) => Waiting(k)'
      /\ Runs("cast")' /\ ~Runs("probe")' /\ ~Runs("stopping")' /\ ~Runs("discover")'
      /\ ~Runs("list")' /\ ~Runs("attach")' /\ ~Runs("enable")'
  BY <1>5, AdvanceFacts DEF IInv
<1>7. TypeOK' /\ Seen' /\ JoinersArePainted'
  <2>1. chain[1].page \in Pages \cup {NoPage} /\ chain[1].session \in 0..MaxSessions
    BY <1>1, HeadIsJob DEF IInv, Jobs
  <2> QED BY <1>1, <1>2, <1>6, <2>1 DEF IInv, TypeOK, Seen, JoinersArePainted
<1>8. Core'
  <2>1. Steps'
    BY <1>1, <1>2, <1>4, <1>5, <1>6 DEF Steps
  <2>2. ~Runs("discover")
    BY DEF Runs
  <2>3. Watching'
    BY <1>1, <1>2, <1>6, <2>2 DEF IInv, Core, Watching
  <2>4. Holding'
    BY <1>1, <1>2, <1>4, <1>6 DEF IInv, Core, Holding
  <2> QED BY <2>1, <2>3, <2>4 DEF Core
<1>9. Recovers' /\ Waking'
  BY <1>1, <1>2, <1>5, <1>6 DEF Recovers, Due, Waking
<1>10. Follows'
  <2>1. Picked(chain[1].page)
    BY DEF IInv, Follows
  <2>2. Waiting("switch") => Waiting("switch")'
    BY <1>3, <1>6
  <2>3. Picked(pageOf[session])'
    BY <1>1, <1>2, <2>1, <2>2 DEF Picked
  <2> QED BY <1>6, <2>3 DEF Follows
<1> QED BY <1>6, <1>7, <1>8, <1>9, <1>10 DEF IInv

-----------------------------------------------------------------------------
(* The end of a job.                                                       *)

\* The chain goes on to the next job, as Done or Failed has it.
Finishes ==
  /\ chain # <<>> /\ chain' = Tail(chain) /\ UNCHANGED viewers
  /\ \/ /\ socket' = socket
        /\ joined' = IF chain[1].kind = "join" /\ Open(chain[1].viewer)
                     THEN joined \cup {chain[1].viewer} ELSE joined
     \/ /\ joined' = joined
        /\ socket' = IF chain[1].kind = "join"
                     THEN [socket EXCEPT ![chain[1].viewer] = "closed"] ELSE socket

LEMMA DoneFinishes ==
  ASSUME TypeOK, chain # <<>>, Done, UNCHANGED <<socket, viewers>>
  PROVE  Finishes
BY HeadIsJob DEF Done, Finishes

LEMMA FailedFinishes ==
  ASSUME TypeOK, chain # <<>>, Failed
  PROVE  Finishes /\ UNCHANGED <<shown, session, painted, watch, active, wanted, pages, seen, events,
                                 discovering, pageOf, minted, attached, casting>>
BY HeadIsJob DEF Failed, Finishes, castVars, chromeVars, pageVars

LEMMA FinishFacts ==
  ASSUME TypeOK, Shape, Finishes, chain[1].kind = "stop" => session' = 0 /\ watch' = "off"
  PROVE  /\ chain' \in Seq(Jobs) /\ Shape' /\ joined' \in SUBSET viewers
         /\ socket' \in [Viewers -> {"new", "open", "closed"}]
         /\ chain[1].kind # "join" => joined' = joined
         /\ Watched' /\ chain[1].kind # "stop" => Watched
         /\ Watched' /\ chain[1].kind = "stop" => Waiting("join")'
         /\ \A k : Waiting(k) /\ (chain[1].step # "queued" \/ chain[1].kind # k) => Waiting(k)'
         /\ ~Runs("probe")' /\ ~Runs("stopping")' /\ ~Runs("discover")' /\ ~Runs("list")'
         /\ ~Runs("attach")' /\ ~Runs("enable")' /\ ~Runs("cast")'
<1>1. chain # <<>> /\ chain' = Tail(chain) /\ Behind
  BY DEF Finishes, Shape
<1>2. /\ chain' \in Seq(Jobs)
      /\ \A k : Waiting(k) /\ (chain[1].step # "queued" \/ chain[1].kind # k) => Waiting(k)'
      /\ \A s \in StepNames \ {"queued"} : ~Runs(s)'
  BY <1>1, Tailed
<1>3. /\ Shape' /\ joined' \in SUBSET viewers
      /\ socket' \in [Viewers -> {"new", "open", "closed"}]
      /\ chain[1].kind # "join" => joined' = joined
      /\ Watched' /\ chain[1].kind # "stop" => Watched
      /\ Watched' /\ chain[1].kind = "stop" => Waiting("join")'
  BY ShapeTailed DEF Finishes
<1>4. /\ ~Runs("probe")' /\ ~Runs("stopping")' /\ ~Runs("discover")' /\ ~Runs("list")'
      /\ ~Runs("attach")' /\ ~Runs("enable")' /\ ~Runs("cast")'
  BY <1>2 DEF StepNames
<1> QED BY <1>2, <1>3, <1>4

\* Between two jobs the hub holds what there is.
LEMMA BetweenJobs ==
  ASSUME TypeOK, Shape, Seen, Follows, Finishes, chain[1].kind # "stop",
         chain[1].step # "queued" \/ chain[1].kind # "switch",
         UNCHANGED <<session, painted, watch, wanted, pages, seen, discovering,
                     pageOf, minted, attached, events>>,
         active' \in Pages \cup {NoPage}, shown' \in [Viewers -> 0..MaxSessions],
         casting' \in SUBSET attached, watch = "on", discovering,
         attached \subseteq 1..minted, \A s \in attached : s = session,
         session \in attached => session \in casting', session = 0 => ~painted
  PROVE  TypeOK' /\ Shape' /\ Core' /\ Seen' /\ Waking' /\ Follows'
<1>1. /\ chain' \in Seq(Jobs) /\ Shape' /\ joined' \in SUBSET viewers
      /\ socket' \in [Viewers -> {"new", "open", "closed"}]
      /\ Waiting("switch") => Waiting("switch")'
      /\ ~Runs("probe")' /\ ~Runs("stopping")' /\ ~Runs("discover")' /\ ~Runs("list")'
      /\ ~Runs("attach")' /\ ~Runs("enable")' /\ ~Runs("cast")'
  BY FinishFacts
<1>2. UNCHANGED viewers
  BY DEF Finishes
<1>3. TypeOK'
  BY <1>1, <1>2 DEF TypeOK
<1>4. Core'
  <2>1. Steps'
    BY <1>1 DEF Steps
  <2>2. Watching'
    BY <1>1 DEF Watching
  <2>3. Holding'
    BY <1>1 DEF Holding
  <2> QED BY <2>1, <2>2, <2>3 DEF Core
<1>5. Seen' /\ Waking'
  BY DEF Seen, Waking
<1>6. Follows'
  BY <1>1 DEF Follows, Picked
<1> QED BY <1>1, <1>3, <1>4, <1>5, <1>6

LEMMA JoinCastKeeps ==
  ASSUME IInv, JoinCast
  PROVE  IInv'
<1>1. Runs("queued") /\ chain[1].kind = "join" /\ session # 0 /\ chain # <<>> /\ job = chain[1]
  BY AtRuns, HeadIsJob DEF JoinCast, IInv, Runs
<1>2. /\ shown' = IF painted /\ Open(chain[1].viewer)
                  THEN [shown EXCEPT ![chain[1].viewer] = session] ELSE shown
      /\ Done
      /\ UNCHANGED <<socket, viewers, session, painted, watch, active, wanted, pages, seen, events,
                     discovering, pageOf, minted, attached, casting>>
  BY <1>1 DEF JoinCast, castVars, chromeVars, pageVars
<1>3. Finishes
  BY <1>1, <1>2, DoneFinishes DEF IInv
<1>4. chain[1].viewer \in viewers \ joined /\ chain[1].viewer \in Viewers
  BY <1>1, ChainFacts DEF IInv, Shape, Joining, TypeOK
<1>5. shown' \in [Viewers -> 0..MaxSessions]
  BY <1>2, <1>4 DEF IInv, TypeOK
<1>6. ~Runs("stopping") /\ ~Runs("enable") /\ ~Runs("cast") /\ ~Runs("attach") /\ ~Runs("probe")
      /\ ~Runs("discover") /\ ~Runs("list")
  BY <1>1 DEF Runs
<1>7. /\ watch = "on" /\ discovering /\ attached \subseteq 1..minted
      /\ \A s \in attached : s = session
      /\ session \in attached => session \in casting
  BY <1>1, <1>6 DEF IInv, Core, Watching, Holding
<1>8. TypeOK' /\ Shape' /\ Core' /\ Seen' /\ Waking' /\ Follows'
  <2>1. active' \in Pages \cup {NoPage} /\ casting' \in SUBSET attached
        /\ (session \in attached => session \in casting') /\ chain[1].kind # "stop"
        /\ chain[1].kind # "switch"
    BY <1>1, <1>2, <1>7 DEF IInv, TypeOK
  <2> QED BY <1>1, <1>2, <1>3, <1>5, <1>7, <2>1, BetweenJobs DEF IInv
<1>9. JoinersArePainted'
  <2>1. joined' = IF Open(chain[1].viewer) THEN joined \cup {chain[1].viewer} ELSE joined
    BY <1>1, <1>2 DEF Done
  <2>2. joined \in SUBSET Viewers
    BY DEF IInv, TypeOK
  <2>3. SUFFICES ASSUME painted, NEW v \in joined' PROVE shown'[v] = session
    BY <1>2 DEF JoinersArePainted
  <2>4. CASE v = chain[1].viewer
    BY <1>2, <1>4, <2>1, <2>3, <2>4 DEF IInv, TypeOK
  <2>5. CASE v # chain[1].viewer
    <3>1. v \in joined /\ shown[v] = session
      BY <1>1, <2>1, <2>3, <2>5 DEF IInv, JoinersArePainted
    <3>2. shown'[v] = shown[v]
      BY <1>2, <1>4, <2>2, <2>5, <3>1 DEF IInv, TypeOK
    <3> QED BY <3>1, <3>2
  <2> QED BY <2>4, <2>5
<1>10. Recovers'
  <2>1. SUFFICES ASSUME Watched', Astray' PROVE Due'
    BY DEF Recovers
  <2>2. Watched
    BY <1>1, <1>3, <2>1, FinishFacts DEF IInv
  <2>3. Due
    BY <1>1, <1>2, <2>1, <2>2 DEF IInv, Recovers, Astray
  <2>4. (Waiting("refresh") => Waiting("refresh")') /\ (Waiting("switch") => Waiting("switch")')
    BY <1>1, <1>3, FinishFacts DEF IInv
  <2> QED BY <1>1, <1>2, <1>6, <2>3, <2>4 DEF Due
<1> QED BY <1>8, <1>9, <1>10 DEF IInv

\* A stop is over: whoever came meanwhile waits to join.
LEMMA StopEnds ==
  ASSUME IInv, chain # <<>>, chain[1].kind = "stop", Done, session = 0, watch' = "off",
         UNCHANGED <<socket, viewers, shown, session, painted, active, wanted, pages, seen, events,
                     discovering, pageOf, minted>>,
         attached' = {}, casting' = {}
  PROVE  IInv'
<1>1. Finishes
  BY DoneFinishes DEF IInv
<1>2. /\ chain' \in Seq(Jobs) /\ Shape' /\ joined' \in SUBSET viewers /\ joined' = joined
      /\ Watched' => Waiting("join")'
      /\ ~Runs("probe")' /\ ~Runs("stopping")' /\ ~Runs("discover")' /\ ~Runs("list")'
      /\ ~Runs("attach")' /\ ~Runs("enable")' /\ ~Runs("cast")'
  <2>1. chain[1].kind = "stop" => session' = 0 /\ watch' = "off"
    OBVIOUS
  <2> QED BY <1>1, <2>1, FinishFacts DEF IInv
<1>3. TypeOK' /\ Seen' /\ JoinersArePainted'
  BY <1>2 DEF IInv, TypeOK, Seen, JoinersArePainted
<1>4. Core'
  <2>1. Steps' /\ Watching'
    BY <1>2 DEF Steps, Watching
  <2>2. Holding'
    BY <1>2 DEF IInv, Core, Holding
  <2> QED BY <2>1, <2>2 DEF Core
<1>5. Recovers' /\ Waking' /\ Follows'
  BY <1>2 DEF Recovers, Due, Waking, Follows
<1> QED BY <1>2, <1>3, <1>4, <1>5 DEF IInv

LEMMA UnwatchKeeps ==
  ASSUME IInv, Unwatch
  PROVE  IInv'
<1>1. Runs("queued") /\ chain[1].kind = "stop" /\ session = 0 /\ chain # <<>>
  BY AtRuns, HeadIsJob DEF Unwatch, IInv, Runs
<1>2. /\ watch' = "off" /\ Done
      /\ UNCHANGED <<socket, viewers, shown, session, painted, active, wanted, pages, seen, events,
                     discovering, pageOf, minted, attached, casting>>
  BY DEF Unwatch, chromeVars, pageVars
<1>3. ~Runs("stopping") /\ ~Runs("enable")
  BY <1>1 DEF Runs
<1>4. attached' = {} /\ casting' = {}
  BY <1>1, <1>2, <1>3, NothingAttached DEF IInv
<1> QED BY <1>1, <1>2, <1>4, StopEnds

LEMMA StoppedKeeps ==
  ASSUME IInv, Stopped
  PROVE  IInv'
<1>1. Runs("stopping") /\ chain # <<>> /\ job = chain[1]
  BY AtRuns, HeadIsJob DEF Stopped, IInv, Runs
<1>2. /\ casting' = casting \ {chain[1].session} /\ attached' = attached \ {chain[1].session}
      /\ \/ chain[1].kind = "stop" /\ watch' = "off" /\ Done
         \/ chain[1].kind # "stop" /\ StartCasting /\ UNCHANGED joined
      /\ UNCHANGED <<socket, viewers, shown, session, painted, active, wanted, pages, seen, events,
                     discovering, pageOf, minted>>
  BY <1>1 DEF Stopped, pageVars
<1>3. session = 0 /\ attached' = {} /\ casting' = {}
  BY <1>1, <1>2 DEF IInv, Core, Steps, Holding, TypeOK
<1>4. CASE chain[1].kind = "stop"
  BY <1>1, <1>2, <1>3, <1>4, StopEnds
<1>5. CASE chain[1].kind # "stop"
  BY <1>1, <1>2, <1>3, <1>5, StartIsRight
<1> QED BY <1>4, <1>5

\* A live session is found, which casts.
LEMMA ProbeKeeps ==
  ASSUME IInv, Probe
  PROVE  IInv'
<1>1. Runs("probe") /\ chain # <<>>
  BY AtRuns DEF Probe, IInv, Runs
<1>2. chain[1].kind = "refresh" /\ session # 0
  BY <1>1 DEF IInv, Core, Steps
<1>3. CASE StopCasting
  BY <1>1, <1>2, <1>3, StopIsRight
<1>4. CASE ~StopCasting
  <2>1. /\ session \in attached /\ Done
        /\ UNCHANGED <<socket, viewers, shown, session, painted, watch, active, wanted, pages, seen,
                       events, discovering, pageOf, minted, attached, casting>>
    BY <1>4 DEF Probe, castVars, chromeVars, pageVars
  <2>2. Finishes
    BY <1>1, <2>1, DoneFinishes DEF IInv
  <2>3. ~Runs("stopping") /\ ~Runs("enable") /\ ~Runs("cast")
    BY <1>1 DEF Runs
  <2>4. /\ watch = "on" /\ discovering /\ attached \subseteq 1..minted
        /\ \A s \in attached : s = session
        /\ session \in casting
    BY <1>1, <1>2, <2>1, <2>3 DEF IInv, Core, Watching, Holding
  <2>5. TypeOK' /\ Shape' /\ Core' /\ Seen' /\ Waking' /\ Follows'
    <3>1. active' \in Pages \cup {NoPage} /\ shown' \in [Viewers -> 0..MaxSessions]
          /\ casting' \in SUBSET attached /\ session \in casting'
          /\ chain[1].kind # "stop" /\ chain[1].kind # "switch"
      BY <1>2, <2>1, <2>4 DEF IInv, TypeOK
    <3> QED BY <1>2, <2>1, <2>2, <2>4, <3>1, BetweenJobs DEF IInv
  <2>6. joined' = joined
    BY <1>2, <2>2, FinishFacts DEF IInv
  <2>7. JoinersArePainted'
    BY <2>1, <2>6 DEF IInv, JoinersArePainted
  <2>8. Recovers'
    BY <1>2, <2>1, <2>4 DEF Recovers, Astray
  <2> QED BY <2>5, <2>7, <2>8 DEF IInv
<1> QED BY <1>3, <1>4

\* Every viewer is told that there is nothing to see.
LEMMA ListedNoneKeeps ==
  ASSUME IInv, ListedNone
  PROVE  IInv'
<1>1. Runs("list") /\ chain # <<>> /\ pages = {}
  BY AtRuns DEF ListedNone, IInv, Runs
<1>2. /\ active' = NoPage /\ Done /\ shown' = Shows(0)
      /\ UNCHANGED <<socket, viewers, session, painted, watch, wanted, pages, seen, events,
                     discovering, pageOf, minted, attached, casting>>
  BY DEF ListedNone, chromeVars, pageVars
<1>3. session = 0 /\ watch = "on" /\ ~Runs("stopping") /\ ~Runs("enable")
  BY <1>1 DEF IInv, Core, Steps, Watching, Runs
<1>4. chain[1].kind # "stop" /\ chain[1].step # "queued"
  <2>1. 1 \in DOMAIN chain
    BY <1>1, ChainFacts DEF IInv
  <2> QED BY <1>1, <2>1 DEF IInv, Shape, Stops, Runs
<1>5. attached = {} /\ casting = {}
  BY <1>3, NothingAttached DEF IInv
<1>6. Finishes
  BY <1>1, <1>2, DoneFinishes DEF IInv
<1>7. discovering /\ ~painted
  BY <1>3 DEF IInv, Core, Watching, Holding
<1>8. shown' \in [Viewers -> 0..MaxSessions] /\ \A v \in viewers : Open(v) => shown'[v] = 0
  <2>1. 0 \in 0..MaxSessions
    BY TakeoverHubAssumption
  <2> QED BY <1>2, <2>1 DEF IInv, TypeOK, Shows
<1>9. TypeOK' /\ Shape' /\ Core' /\ Seen' /\ Waking' /\ Follows'
  <2>1. active' \in Pages \cup {NoPage} /\ casting' \in SUBSET attached
    BY <1>2, <1>5
  <2> QED BY <1>2, <1>3, <1>4, <1>5, <1>6, <1>7, <1>8, <2>1, BetweenJobs DEF IInv
<1>10. JoinersArePainted'
  BY <1>2, <1>3 DEF JoinersArePainted
<1>11. Recovers'
  <2>1. \A v \in joined' : v \in viewers /\ Open(v)
    <3>1. joined' \in SUBSET viewers
      BY <1>3, <1>4, <1>6, FinishFacts DEF IInv
    <3>2. \A v \in joined' : Open(v)'
      BY <1>9 DEF Shape, Joining
    <3> QED BY <1>2, <3>1, <3>2 DEF Open
  <2> QED BY <1>1, <1>2, <1>8, <2>1 DEF Recovers, Astray
<1> QED BY <1>9, <1>10, <1>11 DEF IInv

\* The job throws, for its session is gone or its page: something else is due, as the
\* page that is gone was announced.
LEMMA FailedKeeps ==
  ASSUME IInv, Failed,
         \/ Runs("attach") /\ chain[1].page \notin pages
         \/ Runs("enable") /\ chain[1].session \notin attached
         \/ Runs("cast") /\ chain[1].session \notin attached
  PROVE  IInv'
<1>1. chain # <<>> /\ chain[1].step \in {"attach", "enable", "cast"} /\ 1 \in DOMAIN chain
  BY ChainFacts DEF Runs, IInv
<1>2. chain[1].kind # "stop"
  BY <1>1 DEF IInv, Shape, Stops
<1>3. /\ Finishes
      /\ UNCHANGED <<shown, session, painted, watch, active, wanted, pages, seen, events,
                     discovering, pageOf, minted, attached, casting>>
  BY <1>1, FailedFinishes DEF IInv
<1>4. ~Runs("stopping") /\ ~Runs("probe") /\ ~Runs("discover") /\ ~Runs("list")
  BY <1>1 DEF Runs
<1>5. /\ watch = "on" /\ discovering /\ attached \subseteq 1..minted
      /\ (session = 0 => ~painted)
  BY DEF IInv, Core, Watching, Holding, Steps
<1>6. attached = {}
  <2>1. CASE Runs("attach")
    BY <1>4, <2>1, NothingAttached DEF IInv, Core, Steps, Runs
  <2>2. CASE Runs("enable")
    BY <2>2 DEF IInv, Core, Holding, Runs
  <2>3. CASE Runs("cast")
    BY <1>4, <2>3 DEF IInv, Core, Holding, Steps, Runs
  <2> QED BY <2>1, <2>2, <2>3
<1>7. TypeOK' /\ Shape' /\ Core' /\ Seen' /\ Waking' /\ Follows'
  <2>1. /\ active' \in Pages \cup {NoPage} /\ shown' \in [Viewers -> 0..MaxSessions]
        /\ casting' \in SUBSET attached /\ (\A s \in attached : s = session)
        /\ (session \in attached => session \in casting') /\ chain[1].step # "queued"
    BY <1>1, <1>3, <1>6 DEF IInv, TypeOK
  <2> QED BY <1>2, <1>3, <1>5, <2>1, BetweenJobs DEF IInv
<1>8. joined' = joined
  BY DEF Failed
<1>9. JoinersArePainted'
  BY <1>3, <1>8 DEF IInv, JoinersArePainted
<1>10. Recovers'
  <2>1. SUFFICES ASSUME Watched', Astray' PROVE Due'
    BY DEF Recovers
  <2>2. Watched
    BY <1>2, <1>3, <2>1, FinishFacts DEF IInv
  <2>3. Due
    BY <1>3, <1>8, <2>1, <2>2 DEF IInv, Recovers, Astray
  <2>4. \A k : Waiting(k) => Waiting(k)'
    BY <1>1, <1>2, <1>3, FinishFacts DEF IInv
  <2>5. ~(Runs("attach") /\ chain[1].page \in pages)
    BY DEF Runs
  <2> QED BY <1>3, <1>4, <1>6, <2>3, <2>4, <2>5 DEF Due
<1> QED BY <1>7, <1>9, <1>10 DEF IInv

LEMMA CastStartedKeeps ==
  ASSUME IInv, CastStarted
  PROVE  IInv'
<1>1. Runs("cast") /\ chain # <<>> /\ job = chain[1] /\ 1 \in DOMAIN chain
  BY AtRuns, HeadIsJob, ChainFacts DEF CastStarted, IInv, Runs
<1>2. session = chain[1].session /\ session # 0 /\ session \notin casting /\ ~painted
  BY <1>1 DEF IInv, Core, Steps
<1>3. CASE chain[1].session \notin attached
  BY <1>1, <1>3, FailedKeeps DEF CastStarted
<1>4. CASE chain[1].session \in attached
  <2>1. /\ casting' = casting \cup {session} /\ Done
        /\ UNCHANGED <<socket, viewers, shown, session, painted, watch, active, wanted, pages, seen,
                       events, discovering, pageOf, minted, attached>>
    BY <1>1, <1>2, <1>4 DEF CastStarted, castVars, pageVars
  <2>2. chain[1].kind # "stop" /\ chain[1].step # "queued"
    BY <1>1 DEF IInv, Shape, Stops, Runs
  <2>3. Finishes
    BY <1>1, <2>1, DoneFinishes DEF IInv
  <2>4. ~Runs("stopping") /\ ~Runs("enable")
    BY <1>1 DEF Runs
  <2>5. /\ watch = "on" /\ discovering /\ attached \subseteq 1..minted
        /\ \A s \in attached : s = session
    BY <1>2, <2>4 DEF IInv, Core, Watching, Holding
  <2>6. TypeOK' /\ Shape' /\ Core' /\ Seen' /\ Waking' /\ Follows'
    <3>1. active' \in Pages \cup {NoPage} /\ shown' \in [Viewers -> 0..MaxSessions]
          /\ casting' \in SUBSET attached /\ session \in casting'
      BY <1>2, <1>4, <2>1 DEF IInv, TypeOK
    <3> QED BY <1>2, <2>1, <2>2, <2>3, <2>5, <3>1, BetweenJobs DEF IInv
  <2>7. JoinersArePainted'
    BY <1>2, <2>1 DEF JoinersArePainted
  <2>8. Recovers'
    BY <1>2, <2>1 DEF Recovers, Astray
  <2> QED BY <2>6, <2>7, <2>8 DEF IInv
<1> QED BY <1>3, <1>4

LEMMA AttachedStep ==
  ASSUME IInv, Attached
  PROVE  IInv'
<1>1. Runs("attach") /\ chain # <<>> /\ job = chain[1]
  BY AtRuns, HeadIsJob DEF Attached, IInv, Runs
<1>2. CASE chain[1].page \notin pages
  BY <1>1, <1>2, FailedKeeps DEF Attached
<1>3. CASE chain[1].page \in pages
  <2>1. /\ minted < MaxSessions /\ minted' = minted + 1
        /\ pageOf' = [pageOf EXCEPT ![minted + 1] = chain[1].page]
        /\ attached' = attached \cup {minted + 1}
        /\ chain' = [chain EXCEPT ![1].step = "enable", ![1].session = minted + 1]
        /\ UNCHANGED <<viewerVars, castVars, wanted, pageVars, discovering, casting>>
    BY <1>1, <1>3 DEF Attached
  <2> QED BY <1>1, <1>3, <2>1, AttachedKeeps
<1> QED BY <1>2, <1>3

LEMMA EnabledStep ==
  ASSUME IInv, Enabled
  PROVE  IInv'
<1>1. Runs("enable") /\ chain # <<>> /\ job = chain[1]
  BY AtRuns, HeadIsJob DEF Enabled, IInv, Runs
<1>2. CASE chain[1].session \notin attached
  BY <1>1, <1>2, FailedKeeps DEF Enabled
<1>3. CASE chain[1].session \in attached
  <2>1. /\ session' = chain[1].session /\ active' = chain[1].page /\ Go("cast")
        /\ UNCHANGED <<viewerVars, painted, watch, wanted, chromeVars>>
    BY <1>1, <1>3 DEF Enabled
  <2> QED BY <1>1, <1>3, <2>1, EnabledKeeps
<1> QED BY <1>2, <1>3

-----------------------------------------------------------------------------
(* The specification.                                                      *)

LEMMA Initially ==
  ASSUME Init
  PROVE  IInv
<1>1. /\ socket = [v \in Viewers |-> "new"] /\ viewers = {} /\ joined = {}
      /\ shown = [v \in Viewers |-> 0] /\ chain = <<>> /\ session = 0 /\ painted = FALSE
      /\ watch = "off" /\ wanted = NoPage /\ active = NoPage /\ pages \in SUBSET Pages
      /\ seen = pages /\ discovering = FALSE /\ events = 0
      /\ pageOf = [s \in 1..MaxSessions |-> NoPage] /\ minted = 0
      /\ attached = {} /\ casting = {}
  BY DEF Init
<1>2. \A step : ~Runs(step)
  BY <1>1 DEF Runs
<1>3. DOMAIN chain = {} /\ chain \in Seq(Jobs)
  BY <1>1
<1>4. TypeOK
  <2>1. /\ socket \in [Viewers -> {"new", "open", "closed"}] /\ viewers \in SUBSET Viewers
        /\ joined \in SUBSET viewers /\ 0 \in 0..MaxSessions
    BY <1>1, TakeoverHubAssumption
  <2>2. shown \in [Viewers -> 0..MaxSessions] /\ session \in 0..MaxSessions
        /\ minted \in 0..MaxSessions
    BY <1>1, <2>1
  <2>3. pageOf \in [1..MaxSessions -> Pages \cup {NoPage}]
    BY <1>1
  <2>4. painted \in BOOLEAN /\ watch \in {"off", "asked", "on"} /\ discovering \in BOOLEAN
        /\ wanted \in Pages \cup {NoPage} /\ active \in Pages \cup {NoPage}
        /\ pages \in SUBSET Pages /\ seen \in SUBSET Pages /\ events \in Nat
        /\ attached \in SUBSET (1..MaxSessions) /\ casting \in SUBSET attached
    BY <1>1
  <2> QED BY <1>3, <2>1, <2>2, <2>3, <2>4 DEF TypeOK
<1>5. Shape
  BY <1>1, <1>3 DEF Shape, Behind, Joining, Stops, Ends
<1>6. Core
  BY <1>1, <1>2 DEF Core, Steps, Watching, Holding
<1>7. Seen /\ JoinersArePainted
  BY <1>1 DEF Seen, JoinersArePainted
<1>8. Recovers /\ Waking
  BY <1>1 DEF Recovers, Waking, Watched
<1>9. Follows
  BY <1>1, <1>2 DEF Follows
<1> QED BY <1>4, <1>5, <1>6, <1>7, <1>8, <1>9 DEF IInv

LEMMA InductiveInvariant ==
  ASSUME IInv, [Next]_vars
  PROVE  IInv'
<1>1. ASSUME NEW v \in Viewers, Join(v) \/ Leave(v)
      PROVE  IInv'
  BY <1>1, JoinKeeps, LeaveKeeps
<1>2. ASSUME NEW p \in Pages, Pick(p) \/ PageOpens(p) \/ PageCloses(p)
      PROVE  IInv'
  BY <1>2, PickKeeps, PageOpensKeeps, PageClosesKeeps
<1>3. CASE TargetEvent
  BY <1>3, TargetEventKeeps
<1>4. CASE Frame
  BY <1>4, FrameKeeps
<1>5. CASE Run
  <2>1. CASE JoinCast
    BY <2>1, JoinCastKeeps
  <2>2. CASE BeginStart
    BY <2>2, BeginStartKeeps
  <2>3. CASE BeginProbe
    BY <2>3, BeginProbeKeeps
  <2>4. CASE BeginStop
    BY <2>4, BeginStopKeeps
  <2>5. CASE Unwatch
    BY <2>5, UnwatchKeeps
  <2>6. CASE Probe
    BY <2>6, ProbeKeeps
  <2>7. CASE Stopped
    BY <2>7, StoppedKeeps
  <2>8. CASE Discovered
    BY <2>8, DiscoveredKeeps
  <2>9. CASE ListedNone
    BY <2>9, ListedNoneKeeps
  <2>10. CASE Listed
    BY <2>10, ListedKeeps
  <2>11. CASE Attached
    BY <2>11, AttachedStep
  <2>12. CASE Enabled
    BY <2>12, EnabledStep
  <2>13. CASE CastStarted
    BY <2>13, CastStartedKeeps
  <2> QED BY <1>5, <2>1, <2>2, <2>3, <2>4, <2>5, <2>6, <2>7, <2>8, <2>9, <2>10, <2>11, <2>12,
             <2>13 DEF Run
<1>6. CASE UNCHANGED vars
  BY <1>6, StutterKeeps
<1> QED BY <1>1, <1>2, <1>3, <1>4, <1>5, <1>6 DEF Next

LEMMA Invariance == Spec => []IInv
<1>1. Init => IInv
  BY Initially
<1>2. IInv /\ [Next]_vars => IInv'
  BY InductiveInvariant
<1> QED BY <1>1, <1>2, PTL DEF Spec

\* When nothing is left to do, no start of the cast is on its way: the cast is
\* what the viewers who are there should see.
LEMMA SettledIsRight ==
  ASSUME IInv, Settled, joined # {}
  PROVE  ~Astray /\ ~Waiting("switch")
<1>1. chain = <<>> /\ events = 0 /\ DOMAIN chain = {}
  BY DEF Settled
<1>2. (\A step : ~Runs(step)) /\ (\A kind : ~Waiting(kind))
  BY <1>1 DEF Runs, Waiting
<1>3. ~Due
  BY <1>1, <1>2 DEF Due
<1>4. Watched
  BY <1>1 DEF IInv, TypeOK, Watched
<1> QED BY <1>2, <1>3, <1>4 DEF IInv, Recovers

\* Every variable of the hub has its type, whatever the viewers, the pages and
\* the jobs do (takeover.ts).
THEOREM TypeCorrect == Spec => []TypeOK
<1>1. IInv => TypeOK
  BY DEF IInv
<1> QED BY <1>1, Invariance, PTL

\* Every session that is attached is the hub's own or the one the running job
\* holds: no start, stop, switch or failure leaves one behind (takeover.ts:105
\* and 159-164).
THEOREM NoSessionLeaks == Spec => []NoLeakedSession
<1>1. IInv => NoLeakedSession
  <2>1. SUFFICES ASSUME IInv, NEW s \in attached
                 PROVE  s \in {session} \cup {chain[i].session : i \in {1} \cap DOMAIN chain}
    BY DEF NoLeakedSession
  <2>2. CASE Runs("stopping") \/ Runs("enable")
    <3>1. 1 \in DOMAIN chain
      BY <2>1, <2>2, ChainFacts DEF IInv, Runs
    <3>2. s = chain[1].session
      BY <2>1, <2>2 DEF IInv, Core, Holding
    <3> QED BY <3>1, <3>2
  <2>3. CASE ~(Runs("stopping") \/ Runs("enable"))
    BY <2>1, <2>3 DEF IInv, Core, Holding
  <2> QED BY <2>2, <2>3
<1> QED BY <1>1, Invariance, PTL

\* When no job and no event is left, a viewer who has joined gets a cast of a live
\* page if there is one, of the picked tab if that exists; without viewers there is
\* neither a cast nor a listener (takeover.ts:91, 145-153, 264-267 and 328-330).
THEOREM CastGoesWithViewers == Spec => []CastFollowsViewers
<1>1. IInv => CastFollowsViewers
  <2>1. SUFFICES ASSUME IInv, Settled PROVE CastFollowsViewers
    BY DEF CastFollowsViewers
  <2>2. ASSUME joined # {}, pages # {}
        PROVE  session \in casting /\ (wanted \in pages => pageOf[session] = wanted)
    <3>1. ~Astray /\ ~Waiting("switch")
      BY <2>1, <2>2, SettledIsRight
    <3>2. session \in casting
      BY <2>2, <3>1 DEF Astray
    <3>3. session # 0
      BY <2>1, <3>2, TakeoverHubAssumption DEF IInv, TypeOK
    <3>4. Picked(pageOf[session])
      BY <2>1, <3>3 DEF IInv, Follows
    <3> QED BY <3>1, <3>2, <3>4 DEF Picked
  <2>3. viewers = {} => session = 0 /\ watch = "off"
    BY <2>1 DEF IInv, Shape, Ends, Settled
  <2> QED BY <2>2, <2>3 DEF CastFollowsViewers
<1> QED BY <1>1, Invariance, PTL

\* A viewer that has joined displays the frame of the session that is cast, however
\* late it came and whatever jobs ran in between (takeover.ts:97-101).
THEOREM JoinersSeeTheFrame == Spec => []JoinersArePainted
<1>1. IInv => JoinersArePainted
  BY DEF IInv
<1> QED BY <1>1, Invariance, PTL

\* When no job and no event is left and nothing is cast, no viewer who has joined
\* still displays a frame (takeover.ts:226-228).
THEOREM NobodyIsFrozen == Spec => []NoFrozenFrame
<1>1. IInv => NoFrozenFrame
  <2>1. SUFFICES ASSUME IInv, Settled, session = 0, NEW v \in joined PROVE shown[v] = 0
    BY DEF NoFrozenFrame
  <2>2. ~Astray
    BY <2>1, SettledIsRight
  <2> QED BY <2>1, <2>2 DEF Astray
<1> QED BY <1>1, Invariance, PTL

=============================================================================
