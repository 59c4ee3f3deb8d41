----------------------------- MODULE MuxProofs -----------------------------
(***************************************************************************)
(* The routing of targets keeps every page with one agent, for any number  *)
(* of clients, agents, pages and sessions, every choice of commands and    *)
(* any slowness of Chrome: no client owns a session of, or is told of, a   *)
(* page that another agent leases; popups stay with the agent of their     *)
(* opener; and the routing is a correct user of the lease table.           *)
(*                                                                         *)
(* A lease may be given up while clients still hold sessions of the page,  *)
(* so the present leases are no invariant to prove this from.  What is:    *)
(* every page has one agent for its whole life, decided at its first lease *)
(* and shared with the page that opened it.  There is always a function    *)
(* from pages to agents that explains all leases, announcements, sessions, *)
(* handlers and messages at once (Affinity).                               *)
(*                                                                         *)
(* If no deadline passes before Chrome has answered, replays are complete; *)
(* if clients do not attach or detach by themselves either, the table of   *)
(* sessions is what Chrome says; and if an agent has one connection, the   *)
(* client that creates a page is told of it.                               *)
(***************************************************************************)
EXTENDS MuxTargets, SequenceTheorems, WellFoundedInduction, TLAPS

Waits == {"attach", "describe", "createTarget", "closeTarget"}

\* The messages on their way from Chrome to the mux.
MailOf(q) == {q[i] : i \in DOMAIN q}
Mail == MailOf(upstream)

IsAnswer(m, c) == m.type \in {"answer", "error"} /\ m.client = c

Answered(c) == \E m \in Mail : IsAnswer(m, c)

\* A page comes into being once; popups and the pages clients create are foreign
\* to the pool, and the pages it asked for are each one caller's.
PagesAreFresh ==
  /\ live \subseteq seen
  /\ foreign \subseteq seen
  /\ \A t \in Targets : opener[t] # NoTarget => t \in foreign /\ opener[t] \in seen
  /\ \A k \in Callers : pc[k] = "created" =>
       answer[k] \in seen \ foreign
  /\ \A k, l \in Callers : pc[k] = "created" /\ pc[l] = "created" /\ answer[k] = answer[l]
       => k = l

\* The handler of a client awaits one answer: Chrome holds its command, or the
\* answer is on its way, or it has been read.
OneCommand ==
  /\ \A c \in Clients : asked[c].op # "none" =>
       /\ task[c].op \in Waits
       /\ task[c].reply = "none"
       /\ ~Answered(c)
       /\ task[c].op = "createTarget" <=> asked[c].op \in {"createTarget", "created"}
       /\ task[c].op = "attach" <=> asked[c].op = "attachToTarget"
       /\ task[c].op # "createTarget" => asked[c].target = task[c].target
  /\ \A c \in Clients : Answered(c) => task[c].op \in Waits /\ task[c].reply = "none"
  /\ \A c \in Clients : task[c].op \in Waits \ {"createTarget"} => task[c].target \in Targets
  /\ \A c \in Clients \cup {Nobody} :
       asked[c].op \notin {"none", "createTarget"} => asked[c].target \in Targets

\* No client has two answers on their way.
OneEach(q) ==
  \A i, j \in DOMAIN q : \A c \in Clients :
    IsAnswer(q[i], c) /\ IsAnswer(q[j], c) => i = j
NoTwoAnswers == OneEach(upstream)

\* An answer is about the page that was asked for.
AnswersFit ==
  \A c \in Clients : \A m \in Mail :
    (IsAnswer(m, c) /\ task[c].op # "createTarget") => m.target = task[c].target

\* The page Chrome has made for c and c does not lease yet.
Pending(c, t) ==
  \/ asked[c].op = "created" /\ asked[c].target = t
  \/ /\ task[c].op = "createTarget"
     /\ \/ task[c].reply = "ok" /\ task[c].target = t
        \/ \E m \in Mail : m.type = "answer" /\ m.client = c /\ m.target = t

\* A page is made for one client, by no other page.
OneCreator ==
  /\ \A c \in Clients : \A m \in Mail :
       (m.type = "answer" /\ m.client = c /\ task[c].op = "createTarget") =>
         m.target \in Targets
  /\ \A c \in Clients : task[c].op = "createTarget" /\ task[c].reply = "ok" =>
       task[c].target \in Targets
  /\ \A c \in Clients, t \in Targets : Pending(c, t) =>
       t \in foreign /\ opener[t] = NoTarget
  /\ \A c, d \in Clients, t \in Targets : Pending(c, t) /\ Pending(d, t) => c = d

\* Whatever is not an answer is about a page.
MailNamesPages ==
  \A m \in Mail : m.type \notin {"answer", "error"} => m.target \in Targets

\* c was told of t, or owns a session of it ...
Holds(c, t) == told[c][t] > 0 \/ \E n \in 1..MaxSessions : owner[t][n] = c

\* ... replays it ...
Replaying(c, t) ==
  t \in task[c].todo \/ (task[c].op \in {"attach", "describe"} /\ task[c].target = t)

\* ... or has forwarded an attach to it.
Attaching(c, t) ==
  \/ \E f \in forwards : f.op = "attachToTarget" /\ f.client = c /\ f.target = t
  \/ \E m \in Mail : m.type = "attachAnswer" /\ m.client = c /\ m.target = t

Serves(c, t) == Holds(c, t) \/ Replaying(c, t) \/ Attaching(c, t)

\* fam is the agent each page has ever been leased to.
Explains(fam) ==
  /\ \A t \in Targets : leases[t] \in {fam[t], NoAgent}
  /\ \A t \in Targets : fam[t] # NoAgent => t \in seen
  /\ \A t \in Targets : opener[t] # NoTarget => fam[t] \in {fam[opener[t]], NoAgent}
  /\ \A k \in Callers : pc[k] = "created" => fam[answer[k]] = NoAgent
  /\ \A c \in Clients, t \in Targets : Pending(c, t) => fam[t] = NoAgent
  /\ \A c \in Clients, t \in Targets : Serves(c, t) => fam[t] = AgentOf[c]

Affinity == \E fam \in [Targets -> Agents \cup {NoAgent}] : Explains(fam)

\* A mark has a fallback behind it that Chrome has not executed, or that failed and
\* is about to take it back; or the event it is for is on its way.
MarksAreMeant ==
  \A t \in suppress :
    \/ \E m \in Mail : m.type = "attached" /\ m.target = t
    \/ \E c \in Clients :
         /\ task[c].op = "attach" /\ task[c].target = t
         /\ \/ asked[c].op = "attachToTarget"
            \/ task[c].reply = "error"
            \/ \E m \in Mail : m.type = "error" /\ m.client = c

Routing ==
  /\ PagesAreFresh
  /\ OneCommand
  /\ NoTwoAnswers
  /\ AnswersFit
  /\ OneCreator
  /\ MailNamesPages
  /\ Affinity
  /\ MarksAreMeant

IInv == TypeOK /\ Routing

-----------------------------------------------------------------------------

Messages ==
  [type : {"attached", "detached", "created", "destroyed", "answer", "error", "attachAnswer"},
   target : Targets \cup {NoTarget}, session : 0..MaxSessions,
   client : Clients \cup {Nobody}]

\* The messages of two queues in a row are those of both.
LEMMA MailOfConcat ==
  ASSUME NEW q \in Seq(Messages), NEW s \in Seq(Messages)
  PROVE  q \o s \in Seq(Messages) /\ MailOf(q \o s) = MailOf(q) \cup MailOf(s)
<1>1. q \o s \in Seq(Messages) /\ Len(q \o s) = Len(q) + Len(s)
  OBVIOUS
<1>2. \A i \in DOMAIN (q \o s) :
        (q \o s)[i] = IF i <= Len(q) THEN q[i] ELSE s[i - Len(q)]
  OBVIOUS
<1>3. ASSUME NEW m, m \in MailOf(q \o s) PROVE m \in MailOf(q) \cup MailOf(s)
  <2>1. PICK i \in DOMAIN (q \o s) : m = (q \o s)[i]
    BY <1>3 DEF MailOf
  <2>2. CASE i <= Len(q)
    BY <1>1, <1>2, <2>1, <2>2 DEF MailOf
  <2>3. CASE i > Len(q)
    <3>1. i - Len(q) \in DOMAIN s /\ m = s[i - Len(q)]
      BY <1>1, <1>2, <2>1, <2>3
    <3>2. QED
      BY <3>1 DEF MailOf
  <2>4. QED
    BY <1>1, <2>2, <2>3
<1>4. ASSUME NEW m, m \in MailOf(q) PROVE m \in MailOf(q \o s)
  <2>1. PICK i \in DOMAIN q : m = q[i]
    BY <1>4 DEF MailOf
  <2>2. i \in DOMAIN (q \o s) /\ m = (q \o s)[i]
    BY <1>1, <1>2, <2>1
  <2>3. QED
    BY <2>2 DEF MailOf
<1>5. ASSUME NEW m, m \in MailOf(s) PROVE m \in MailOf(q \o s)
  <2>1. PICK i \in DOMAIN s : m = s[i]
    BY <1>5 DEF MailOf
  <2>2. i + Len(q) \in DOMAIN (q \o s) /\ m = (q \o s)[i + Len(q)]
    BY <1>1, <1>2, <2>1
  <2>3. QED
    BY <2>2 DEF MailOf
<1>6. QED
  BY <1>1, <1>3, <1>4, <1>5

\* One of two queues in a row answers a client at most.
LEMMA OneEachConcat ==
  ASSUME NEW q \in Seq(Messages), NEW s \in Seq(Messages), OneEach(q), OneEach(s),
         \A c \in Clients : \A m \in MailOf(q), n \in MailOf(s) :
           ~(IsAnswer(m, c) /\ IsAnswer(n, c))
  PROVE  OneEach(q \o s)
<1>1. Len(q \o s) = Len(q) + Len(s)
  OBVIOUS
<1>2. \A i \in DOMAIN (q \o s) :
        (q \o s)[i] = IF i <= Len(q) THEN q[i] ELSE s[i - Len(q)]
  OBVIOUS
<1>3. \A i \in DOMAIN (q \o s) :
        \/ i <= Len(q) /\ i \in DOMAIN q /\ q[i] \in MailOf(q)
        \/ i > Len(q) /\ i - Len(q) \in DOMAIN s /\ s[i - Len(q)] \in MailOf(s)
  BY <1>1 DEF MailOf
<1>4. QED
  BY <1>1, <1>2, <1>3 DEF OneEach

\* A queue of one message, and of none.
LEMMA ShortQueues ==
  /\ MailOf(<<>>) = {} /\ OneEach(<<>>)
  /\ \A m : MailOf(<<m>>) = {m} /\ OneEach(<<m>>)
<1>1. MailOf(<<>>) = {} /\ OneEach(<<>>)
  BY DEF MailOf, OneEach
<1>2. ASSUME NEW m PROVE MailOf(<<m>>) = {m} /\ OneEach(<<m>>)
  <2>1. DOMAIN <<m>> = {1} /\ <<m>>[1] = m
    OBVIOUS
  <2>2. QED
    BY <2>1 DEF MailOf, OneEach
<1>3. QED
  BY <1>1, <1>2

\* Appending a message is adding a queue of one.
LEMMA AppendIsPost ==
  ASSUME NEW q \in Seq(Messages), NEW m \in Messages
  PROVE  Append(q, m) = q \o <<m>> /\ <<m>> \in Seq(Messages)
OBVIOUS

\* A message that is read leaves the queue; if it answers a client, nothing else does.
LEMMA MailOfTail ==
  ASSUME NEW q \in Seq(Messages), q # <<>>, OneEach(q)
  PROVE  /\ Tail(q) \in Seq(Messages)
         /\ Head(q) \in MailOf(q)
         /\ MailOf(Tail(q)) \subseteq MailOf(q)
         /\ MailOf(q) \subseteq MailOf(Tail(q)) \cup {Head(q)}
         /\ OneEach(Tail(q))
         /\ \A c \in Clients : IsAnswer(Head(q), c) =>
              \A m \in MailOf(Tail(q)) : ~IsAnswer(m, c)
<1>1. /\ Tail(q) \in Seq(Messages) /\ Len(Tail(q)) = Len(q) - 1 /\ Len(q) >= 1
      /\ Head(q) = q[1]
      /\ \A i \in DOMAIN Tail(q) : i + 1 \in DOMAIN q /\ Tail(q)[i] = q[i + 1]
  OBVIOUS
<1>2. Head(q) \in MailOf(q)
  BY <1>1 DEF MailOf
<1>3. MailOf(Tail(q)) \subseteq MailOf(q)
  BY <1>1 DEF MailOf
<1>4. ASSUME NEW m \in MailOf(q), m # Head(q) PROVE m \in MailOf(Tail(q))
  <2>1. PICK i \in DOMAIN q : m = q[i]
    BY DEF MailOf
  <2>2. i # 1
    BY <1>1, <1>4, <2>1
  <2>3. i - 1 \in DOMAIN Tail(q) /\ Tail(q)[i - 1] = m
    BY <1>1, <2>1, <2>2
  <2>4. QED
    BY <2>3 DEF MailOf
<1>5. OneEach(Tail(q))
  BY <1>1 DEF OneEach
<1>6. ASSUME NEW c \in Clients, IsAnswer(Head(q), c), NEW m \in MailOf(Tail(q))
      PROVE  ~IsAnswer(m, c)
  <2>1. PICK i \in DOMAIN Tail(q) : m = Tail(q)[i]
    BY DEF MailOf
  <2>2. i + 1 \in DOMAIN q /\ m = q[i + 1] /\ i + 1 # 1 /\ 1 \in DOMAIN q
    BY <1>1, <2>1
  <2>3. QED
    BY <1>1, <1>6, <2>2 DEF OneEach
<1>7. QED
  BY <1>1, <1>2, <1>3, <1>4, <1>5, <1>6

\* Chrome posts events.
LEMMA Posts ==
  ASSUME upstream \in Seq(Messages), NoTwoAnswers, NEW s \in Seq(Messages),
         upstream' = upstream \o s,
         \A m \in MailOf(s) : m.type \notin {"answer", "error"}
  PROVE  /\ upstream' \in Seq(Messages)
         /\ Mail' = Mail \cup MailOf(s)
         /\ NoTwoAnswers'
<1>1. OneEach(s)
  BY DEF OneEach, IsAnswer, MailOf
<1>2. QED
  BY <1>1, MailOfConcat, OneEachConcat DEF Mail, NoTwoAnswers, IsAnswer

\* Chrome answers the command of a client, with events around the answer.
LEMMA PostsAnswer ==
  ASSUME upstream \in Seq(Messages), NoTwoAnswers, NEW s \in Seq(Messages), OneEach(s),
         upstream' = upstream \o s, NEW c \in Clients \cup {Nobody}, ~Answered(c),
         \A m \in MailOf(s) : \A d \in Clients : IsAnswer(m, d) => d = c
  PROVE  /\ upstream' \in Seq(Messages)
         /\ Mail' = Mail \cup MailOf(s)
         /\ NoTwoAnswers'
BY MailOfConcat, OneEachConcat DEF Mail, NoTwoAnswers, Answered

\* The mux reads a message.
LEMMA Reads ==
  ASSUME upstream \in Seq(Messages), NoTwoAnswers, NEW type, Arrives(type)
  PROVE  /\ upstream' \in Seq(Messages)
         /\ NoTwoAnswers'
         /\ Head(upstream) \in Mail /\ Head(upstream).type = type
         /\ Head(upstream) \in Messages
         /\ Mail' \subseteq Mail
         /\ Mail \subseteq Mail' \cup {Head(upstream)}
         /\ \A c \in Clients : IsAnswer(Head(upstream), c) => ~Answered(c)'
<1>1. upstream # <<>> /\ Head(upstream).type = type /\ upstream' = Tail(upstream)
  BY DEF Arrives
<1>2. Head(upstream) \in Messages
  BY <1>1
<1>3. QED
  BY <1>1, <1>2, MailOfTail DEF Mail, NoTwoAnswers, Answered

\* The news of a page that goes.
LEMMA DeathMail ==
  ASSUME NEW t \in Targets
  PROVE  /\ DeathNotes(t) \in Seq(Messages)
         /\ \A m \in MailOf(DeathNotes(t)) : m.type \in {"detached", "destroyed"} /\ m.target = t
<1>1. Detached(t) \in Messages /\ Destroyed(t) \in Messages
  BY MuxTargetsAssumption DEF Detached, Destroyed, Message, Messages
<1>2. <<>> \in Seq(Messages) /\ <<Detached(t)>> \in Seq(Messages)
        /\ <<Destroyed(t)>> \in Seq(Messages)
  BY <1>1
<1>3. /\ MailOf(<<Detached(t)>>) = {Detached(t)}
      /\ MailOf(<<Destroyed(t)>>) = {Destroyed(t)}
      /\ MailOf(<<>>) = {}
  BY ShortQueues
<1>4. ASSUME NEW q \in Seq(Messages), NEW s \in Seq(Messages),
             q \in {<<>>, <<Detached(t)>>}, s \in {<<>>, <<Destroyed(t)>>}
      PROVE  /\ q \o s \in Seq(Messages)
             /\ MailOf(q \o s) \subseteq {Detached(t), Destroyed(t)}
  BY <1>3, <1>4, MailOfConcat
<1>5. /\ DeathNotes(t) \in Seq(Messages)
      /\ MailOf(DeathNotes(t)) \subseteq {Detached(t), Destroyed(t)}
  BY <1>2, <1>4 DEF DeathNotes
<1>6. QED
  BY <1>5 DEF Detached, Destroyed, Message

\* What Chrome says to a client that still waits.
LEMMA AnswerMail ==
  ASSUME NEW c \in Clients \cup {Nobody}, NEW type \in {"answer", "error"},
         NEW t \in Targets \cup {NoTarget}, NEW n \in 0..MaxSessions
  PROVE  /\ Answer(c, type, t, n) \in Seq(Messages)
         /\ OneEach(Answer(c, type, t, n))
         /\ \A m \in MailOf(Answer(c, type, t, n)) :
              c \in Clients /\ m.client = c /\ m.target = t /\ m.type = type
         /\ c \in Clients => \E m : m \in MailOf(Answer(c, type, t, n))
<1> DEFINE a == Message(type, t, n, c)
<1>1. a \in Messages /\ a.client = c /\ a.target = t /\ a.type = type
  BY DEF Message, Messages
<1>2. Answer(c, type, t, n) = IF c = Nobody THEN <<>> ELSE <<a>>
  BY DEF Answer
<1> HIDE DEF a
<1>3. CASE c = Nobody
  BY <1>2, <1>3, ShortQueues, MuxTargetsAssumption
<1>4. CASE c # Nobody
  BY <1>1, <1>2, <1>4, ShortQueues
<1>5. QED
  BY <1>3, <1>4

-----------------------------------------------------------------------------

\* A step that leaves the commands of the clients and their answers alone.
LEMMA CallsKept ==
  ASSUME OneCommand, AnswersFit, OneCreator, UNCHANGED <<asked, task>>,
         \A m : m.type \in {"answer", "error"} => (m \in Mail' <=> m \in Mail),
         foreign \subseteq foreign', \A t \in foreign : opener'[t] = opener[t]
  PROVE  /\ OneCommand' /\ AnswersFit' /\ OneCreator'
         /\ \A c \in Clients, t \in Targets : Pending(c, t)' <=> Pending(c, t)
<1>1. \A c : Answered(c)' <=> Answered(c)
  BY DEF Answered, IsAnswer
<1>2. \A c \in Clients, t \in Targets : Pending(c, t)' <=> Pending(c, t)
  BY DEF Pending
<1>3. OneCommand'
  BY <1>1 DEF OneCommand
<1>4. AnswersFit'
  BY DEF AnswersFit, IsAnswer
<1>5. OneCreator'
  BY <1>2 DEF OneCreator
<1>6. QED
  BY <1>2, <1>3, <1>4, <1>5

\* A step that leases no page: whoever comes to serve a page, its agent leases it.
LEMMA AffinityKept ==
  ASSUME TypeOK, Affinity,
         \A t \in Targets : leases'[t] \in {leases[t], NoAgent},
         seen \subseteq seen',
         \A t \in Targets : opener'[t] = opener[t] \/ t \notin seen,
         \A k \in Callers : pc'[k] = "created" =>
           (pc[k] = "created" /\ answer'[k] = answer[k]) \/ answer'[k] \in Targets \ seen,
         \A c \in Clients, t \in Targets : Pending(c, t)' => Pending(c, t) \/ t \notin seen,
         \A c \in Clients, t \in Targets :
           Serves(c, t)' => Serves(c, t) \/ leases[t] = AgentOf[c]
  PROVE  Affinity'
<1>1. PICK fam \in [Targets -> Agents \cup {NoAgent}] : Explains(fam)
  BY DEF Affinity
<1>2. \A t \in Targets : t \notin seen => fam[t] = NoAgent
  BY <1>1 DEF Explains
<1>3. \A c \in Clients : AgentOf[c] # NoAgent
  BY MuxTargetsAssumption
<1>4. \A c \in Clients, t \in Targets : leases[t] = AgentOf[c] => fam[t] = AgentOf[c]
  BY <1>1, <1>3 DEF Explains
<1>5. Explains(fam)'
  BY <1>1, <1>2, <1>4 DEF Explains
<1>6. QED
  BY <1>5 DEF Affinity

-----------------------------------------------------------------------------
(* The steps of Chrome.                                                    *)

\* What is common to the three ways a page comes into being.
LEMMA Births ==
  ASSUME IInv, NEW t \in Targets \ seen, NEW p \in live \cup {NoTarget}, Born(t, p),
         live' = live \cup {t}, seen' = seen \cup {t}, leases' = leases,
         foreign \subseteq foreign', foreign' \subseteq foreign \cup {t},
         p # NoTarget => t \in foreign',
         \A k \in Callers : pc'[k] = "created" =>
           \/ pc[k] = "created" /\ answer'[k] = answer[k]
           \/ answer'[k] = t /\ t \notin foreign',
         \A k, l \in Callers :
           pc'[k] = "created" /\ pc'[l] = "created" /\ answer'[k] = t /\ answer'[l] = t
             => k = l,
         UNCHANGED <<forwards, task, told, owner, suppress>>
  PROVE  /\ PagesAreFresh' /\ NoTwoAnswers' /\ MailNamesPages'
         /\ Mail \subseteq Mail'
         /\ \A m \in Mail' \ Mail : m.type = "created"
         /\ \A u \in foreign : opener'[u] = opener[u]
         /\ \A u \in Targets : opener'[u] = opener[u] \/ u \notin seen
         /\ opener'[t] = p
         /\ \A c \in Clients, u \in Targets : Serves(c, u)' => Serves(c, u)
<1> USE DEF IInv, Routing
<1>1. opener' = [opener EXCEPT ![t] = p] /\ opener \in [Targets -> Targets \cup {NoTarget}]
  BY DEF Born, TypeOK
<1>2. upstream \in Seq(Messages)
  BY DEF TypeOK, Messages
<1>3. NoTwoAnswers' /\ Mail \subseteq Mail' /\ \A m \in Mail' \ Mail : m = Created(t)
  <2>1. CASE Discover
    <3>1. Created(t) \in Messages /\ Created(t).type = "created"
      BY MuxTargetsAssumption DEF Created, Message, Messages
    <3>2. <<Created(t)>> \in Seq(Messages) /\ upstream' = upstream \o <<Created(t)>>
      BY <1>2, <2>1, <3>1 DEF Born
    <3>3. MailOf(<<Created(t)>>) = {Created(t)}
      BY ShortQueues
    <3>4. QED
      BY <1>2, <3>1, <3>2, <3>3, Posts
  <2>2. CASE ~Discover
    BY <2>2 DEF Born, Mail, NoTwoAnswers
  <2>3. QED
    BY <2>1, <2>2
<1>4. Created(t).type = "created" /\ Created(t).target = t
  BY DEF Created, Message
<1>5. MailNamesPages'
  BY <1>3, <1>4 DEF MailNamesPages
<1>6. \A u \in Targets : opener'[u] = (IF u = t THEN p ELSE opener[u])
  BY <1>1
<1>7. PagesAreFresh'
  <2>1. live' \subseteq seen' /\ foreign' \subseteq seen'
    BY DEF PagesAreFresh
  <2>2. \A u \in Targets : opener'[u] # NoTarget => u \in foreign' /\ opener'[u] \in seen'
    BY <1>6 DEF PagesAreFresh
  <2>3. \A k \in Callers : pc'[k] = "created" => answer'[k] \in seen' \ foreign'
    BY DEF PagesAreFresh
  <2>4. \A k, l \in Callers :
          pc'[k] = "created" /\ pc'[l] = "created" /\ answer'[k] = answer'[l] => k = l
    BY DEF PagesAreFresh
  <2>5. QED
    BY <2>1, <2>2, <2>3, <2>4 DEF PagesAreFresh
<1>8. foreign \subseteq seen /\ foreign \subseteq Targets
  BY DEF PagesAreFresh, TypeOK, Pool!TypeOK
<1>9. \A c \in Clients, u \in Targets : Serves(c, u)' => Serves(c, u)
  BY <1>3, <1>4 DEF Serves, Holds, Replaying, Attaching
<1>10. QED
  BY <1>3, <1>4, <1>5, <1>6, <1>7, <1>8, <1>9

\* A page the pool asked for, or one that a page or a human opens.
LEMMA BirthKeeps ==
  ASSUME IInv, NEW t \in Targets,
         PageOpens(t) \/ \E k \in Callers : LeaseOpensPage(k, t)
  PROVE  Routing'
<1> USE DEF IInv, Routing
<1>1. t \notin seen /\ live' = live \cup {t} /\ seen' = seen \cup {t} /\ leases' = leases
  BY DEF PageOpens, LeaseOpensPage, Pool!PageOpens, Pool!ChromeCreates
<1>2. UNCHANGED <<asked, forwards, task, told, owner, suppress>>
  BY DEF PageOpens, LeaseOpensPage, muxVars, routeVars, viewVars
<1>3. PICK p \in live \cup {NoTarget} :
        /\ Born(t, p)
        /\ foreign \subseteq foreign' /\ foreign' \subseteq foreign \cup {t}
        /\ p # NoTarget => t \in foreign'
        /\ \A k \in Callers : pc'[k] = "created" =>
             \/ pc[k] = "created" /\ answer'[k] = answer[k]
             \/ answer'[k] = t /\ t \notin foreign'
        /\ \A k, l \in Callers :
             pc'[k] = "created" /\ pc'[l] = "created" /\ answer'[k] = t /\ answer'[l] = t
               => k = l
  <2>1. CASE PageOpens(t)
    <3>1. \A k \in Callers : pc[k] = "created" => answer[k] # t
      BY <1>1 DEF PagesAreFresh
    <3>2. /\ foreign' = foreign \cup {t} /\ pc' = pc /\ answer' = answer
          /\ \E p \in live \cup {NoTarget} : Born(t, p)
      BY <2>1 DEF PageOpens, Pool!PageOpens, Pool!callVars
    <3>3. QED
      BY <3>1, <3>2
  <2>2. ASSUME NEW k \in Callers, LeaseOpensPage(k, t)
        PROVE  /\ Born(t, NoTarget)
               /\ foreign' = foreign
               /\ t \notin foreign
               /\ \A l \in Callers : pc'[l] = "created" =>
                    \/ l # k /\ pc[l] = "created" /\ answer'[l] = answer[l] /\ answer[l] # t
                    \/ l = k /\ answer'[l] = t
    BY <1>1, <2>2 DEF LeaseOpensPage, Pool!ChromeCreates, PagesAreFresh, TypeOK, Pool!TypeOK
  <2>3. QED
    BY <2>1, <2>2
<1>4. /\ PagesAreFresh' /\ NoTwoAnswers' /\ MailNamesPages'
      /\ Mail \subseteq Mail'
      /\ \A m \in Mail' \ Mail : m.type = "created"
      /\ \A u \in foreign : opener'[u] = opener[u]
      /\ \A u \in Targets : opener'[u] = opener[u] \/ u \notin seen
      /\ \A c \in Clients, u \in Targets : Serves(c, u)' => Serves(c, u)
  BY <1>1, <1>2, <1>3, Births
<1>5. /\ OneCommand' /\ AnswersFit' /\ OneCreator'
      /\ \A c \in Clients, u \in Targets : Pending(c, u)' <=> Pending(c, u)
  BY <1>2, <1>3, <1>4, CallsKept
<1>6. Affinity'
  BY <1>1, <1>3, <1>4, <1>5, AffinityKept
<1>7. MarksAreMeant'
  BY <1>2, <1>4 DEF MarksAreMeant
<1>8. QED
  BY <1>4, <1>5, <1>6, <1>7

\* A page Chrome makes for a client.
LEMMA CreatesKeep ==
  ASSUME IInv, NEW c \in Clients \cup {Nobody}, NEW t \in Targets, ChromeCreates(c, t)
  PROVE  Routing'
<1> USE DEF IInv, Routing
<1>1. /\ t \notin seen /\ live' = live \cup {t} /\ seen' = seen \cup {t} /\ leases' = leases
      /\ foreign' = foreign \cup {t} /\ pc' = pc /\ answer' = answer
      /\ Born(t, NoTarget)
  BY DEF ChromeCreates, Pool!PageOpens, Pool!callVars
<1>2. /\ asked[c].op = "createTarget"
      /\ asked' = [asked EXCEPT ![c] = Command("created", t)]
      /\ UNCHANGED <<forwards, task, told, owner, suppress>>
  BY DEF ChromeCreates, Asked, muxVars, routeVars, viewVars
<1>3. /\ PagesAreFresh' /\ NoTwoAnswers' /\ MailNamesPages'
      /\ Mail \subseteq Mail'
      /\ \A m \in Mail' \ Mail : m.type = "created"
      /\ \A u \in foreign : opener'[u] = opener[u]
      /\ \A u \in Targets : opener'[u] = opener[u] \/ u \notin seen
      /\ opener'[t] = NoTarget
      /\ \A d \in Clients, u \in Targets : Serves(d, u)' => Serves(d, u)
  <2>1. \A k \in Callers : pc[k] = "created" => answer[k] # t
    BY <1>1 DEF PagesAreFresh
  <2>2. QED
    BY <1>1, <1>2, <2>1, Births
<1>4. /\ asked'[c].op = "created" /\ asked'[c].target = t
      /\ \A d \in Clients \cup {Nobody} : d # c => asked'[d] = asked[d]
  BY <1>2 DEF Command, TypeOK
<1>5. \A m : m.type \in {"answer", "error"} => (m \in Mail' <=> m \in Mail)
  BY <1>3
<1>6. OneCommand'
  BY <1>2, <1>4, <1>5 DEF OneCommand, Answered, IsAnswer
<1>7. AnswersFit'
  BY <1>2, <1>5 DEF AnswersFit, IsAnswer
<1>8. \A d \in Clients, u \in Targets : Pending(d, u)' => Pending(d, u) \/ (d = c /\ u = t)
  BY <1>2, <1>4, <1>5 DEF Pending
<1>9. OneCreator'
  <2>1. \A d \in Clients, u \in Targets : Pending(d, u) => u # t
    BY <1>1 DEF OneCreator, PagesAreFresh
  <2>2. QED
    BY <1>1, <1>2, <1>3, <1>5, <1>8, <2>1 DEF OneCreator
<1>10. Affinity'
  BY <1>1, <1>3, <1>8, AffinityKept
<1>11. MarksAreMeant'
  BY <1>2, <1>3, <1>4 DEF MarksAreMeant
<1>12. QED
  BY <1>3, <1>6, <1>7, <1>9, <1>10, <1>11

\* Events about pages that exist, sent while the commands of clients stay as they are.
LEMMA EventsKeep ==
  ASSUME IInv, NEW s \in Seq(Messages), upstream' = upstream \o s,
         \A m \in MailOf(s) : m.type \notin {"answer", "error"} /\ m.target \in Targets,
         UNCHANGED <<leases, pc, answer, seen, foreign, opener, asked, task, told, owner,
                     suppress>>,
         live' \subseteq live, forwards' \subseteq forwards,
         \A m \in MailOf(s) : m.type = "attachAnswer" =>
           \E f \in forwards :
             f.op = "attachToTarget" /\ f.client = m.client /\ f.target = m.target
  PROVE  Routing'
<1> USE DEF IInv, Routing
<1>1. upstream \in Seq(Messages)
  BY DEF TypeOK, Messages
<1>2. Mail' = Mail \cup MailOf(s) /\ NoTwoAnswers'
  BY <1>1, Posts
<1>3. PagesAreFresh'
  BY DEF PagesAreFresh
<1>4. MailNamesPages'
  BY <1>2 DEF MailNamesPages
<1>5. \A m : m.type \in {"answer", "error"} => (m \in Mail' <=> m \in Mail)
  BY <1>2
<1>6. /\ OneCommand' /\ AnswersFit' /\ OneCreator'
      /\ \A c \in Clients, t \in Targets : Pending(c, t)' <=> Pending(c, t)
  BY <1>5, CallsKept
<1>7. \A c \in Clients, t \in Targets : Serves(c, t)' => Serves(c, t)
  BY <1>2 DEF Serves, Holds, Replaying, Attaching
<1>8. Affinity'
  BY <1>6, <1>7, AffinityKept
<1>9. MarksAreMeant'
  BY <1>2 DEF MarksAreMeant
<1>10. QED
  BY <1>2, <1>3, <1>4, <1>6, <1>8, <1>9

\* A page that goes, the attach events, and forwarded commands.
LEMMA ChromeKeeps ==
  ASSUME IInv,
         \/ \E t \in Targets : PageGone(t) \/ PoolClosesPage(t) \/ AutoAttach(t)
         \/ \E f \in forwards : ChromeForwards(f)
  PROVE  Routing'
<1> USE DEF IInv
<1>1. ASSUME NEW t \in Targets, PageGone(t) \/ PoolClosesPage(t) PROVE Routing'
  <2>1. /\ live' \subseteq live /\ upstream' = upstream \o DeathNotes(t)
        /\ UNCHANGED <<leases, pc, answer, seen, foreign, opener, asked, task, told, owner,
                       suppress, forwards>>
    BY <1>1 DEF PageGone, PoolClosesPage, Pool!PageGone, Pool!ChromeCloses, Pool!callVars,
                muxVars, routeVars, viewVars
  <2>2. QED
    BY <2>1, DeathMail, EventsKeep
<1>2. upstream \in Seq(Messages)
  BY DEF TypeOK, Messages
<1>3. ASSUME NEW t \in Targets, Mint(t) PROVE minted[t] + 1 \in 0..MaxSessions
  BY <1>3, MuxTargetsAssumption DEF Mint, TypeOK
<1>4. ASSUME NEW t \in Targets, AutoAttach(t) PROVE Routing'
  <2> DEFINE a == Attached(t, minted[t] + 1)
  <2>1. /\ upstream' = Append(upstream, a)
        /\ UNCHANGED <<leases, pc, answer, seen, foreign, opener, asked, task, told, owner,
                       suppress, forwards, live>>
    BY <1>4 DEF AutoAttach, poolVars, muxVars, routeVars, viewVars
  <2>2. minted[t] + 1 \in 0..MaxSessions
    BY <1>3, <1>4 DEF AutoAttach
  <2>3. a \in Messages /\ a.type = "attached" /\ a.target = t
    BY <2>2 DEF Attached, Message, Messages
  <2> HIDE DEF a
  <2>4. upstream' = upstream \o <<a>> /\ <<a>> \in Seq(Messages) /\ MailOf(<<a>>) = {a}
    BY <1>2, <2>1, <2>3, AppendIsPost, ShortQueues
  <2>5. QED
    BY <2>1, <2>3, <2>4, EventsKeep
<1>5. ASSUME NEW f \in forwards, ChromeForwards(f) PROVE Routing'
  <2> DEFINE t == f.target
  <2>1. /\ UNCHANGED <<leases, pc, answer, seen, foreign, opener, asked, task, told, owner,
                       suppress, live>>
        /\ forwards' \subseteq forwards
    BY <1>5 DEF ChromeForwards, poolVars, muxVars, routeVars, viewVars
  <2>2. t \in Targets /\ f.client \in Clients
    BY DEF TypeOK
  <2>3. CASE /\ f.op = "attachToTarget" /\ Mint(t)
             /\ upstream' = upstream \o
                  <<Attached(t, minted[t] + 1),
                    Message("attachAnswer", t, minted[t] + 1, f.client)>>
    <3> DEFINE a == Attached(t, minted[t] + 1)
               b == Message("attachAnswer", t, minted[t] + 1, f.client)
    <3>1. minted[t] + 1 \in 0..MaxSessions
      BY <1>3, <2>2, <2>3
    <3>2. /\ a \in Messages /\ a.type = "attached" /\ a.target = t
          /\ b \in Messages /\ b.type = "attachAnswer" /\ b.target = t /\ b.client = f.client
      BY <2>2, <3>1 DEF Attached, Message, Messages
    <3>3. upstream' = upstream \o <<a, b>>
      BY <2>3
    <3> HIDE DEF a, b, t
    <3>4. <<a, b>> \in Seq(Messages) /\ MailOf(<<a, b>>) = {a, b}
      BY <3>2 DEF MailOf
    <3>5. QED
      BY <2>1, <2>2, <2>3, <3>2, <3>3, <3>4, EventsKeep DEF t
  <2>4. CASE upstream' = Append(upstream, Detached(t))
    <3> DEFINE a == Detached(t)
    <3>1. a \in Messages /\ a.type = "detached" /\ a.target = t
      BY <2>2, MuxTargetsAssumption DEF Detached, Message, Messages
    <3>2. upstream' = Append(upstream, a)
      BY <2>4
    <3> HIDE DEF a, t
    <3>3. upstream' = upstream \o <<a>> /\ <<a>> \in Seq(Messages) /\ MailOf(<<a>>) = {a}
      BY <1>2, <3>1, <3>2, AppendIsPost, ShortQueues
    <3>4. QED
      BY <2>1, <2>2, <3>1, <3>3, EventsKeep
  <2>5. CASE upstream' = upstream
    <3>1. upstream' = upstream \o <<>> /\ <<>> \in Seq(Messages)
      BY <1>2, <2>5
    <3>2. \A m \in MailOf(<<>>) : FALSE
      BY ShortQueues
    <3>3. QED
      BY <2>1, <3>1, <3>2, EventsKeep
  <2>6. QED
    BY <1>5, <2>3, <2>4, <2>5 DEF ChromeForwards
<1>6. QED
  BY <1>1, <1>4, <1>5

\* Chrome is done with a command: it answers who still waits, about the page the
\* command was about, and tells of an attach before it answers that.
LEMMA AnswersKeep ==
  ASSUME IInv, NEW c \in Clients \cup {Nobody}, asked[c].op # "none", Done(c),
         NEW s \in Seq(Messages), OneEach(s), upstream' = upstream \o s,
         \A m \in MailOf(s) : m.type \in {"answer", "error"} =>
           /\ c \in Clients /\ m.client = c
           /\ m.target = asked[c].target \/ asked[c].op = "createTarget"
           /\ asked[c].op = "createTarget" => m.type = "error",
         \A m \in MailOf(s) : m.type \notin {"answer", "error"} =>
           m.type # "attachAnswer" /\ m.target \in Targets,
         (asked[c].op = "attachToTarget" /\ c \in Clients) =>
           \E m \in MailOf(s) : \/ m.type = "attached" /\ m.target = asked[c].target
                                \/ m.type = "error",
         UNCHANGED <<leases, pc, answer, seen, foreign, opener, task, told, owner, suppress,
                     forwards>>,
         live' \subseteq live
  PROVE  Routing'
<1> USE DEF IInv, Routing
<1>1. upstream \in Seq(Messages)
  BY DEF TypeOK, Messages
<1>2. c \in Clients => ~Answered(c)
  BY DEF OneCommand
<1>3. Mail' = Mail \cup MailOf(s) /\ NoTwoAnswers'
  <2>1. CASE c \in Clients
    BY <1>1, <1>2, <2>1, PostsAnswer DEF IsAnswer
  <2>2. CASE c \notin Clients
    BY <1>1, <2>2, Posts
  <2>3. QED
    BY <2>1, <2>2
<1>4. /\ asked'[c] = NoCommand
      /\ \A d \in Clients \cup {Nobody} : d # c => asked'[d] = asked[d]
  BY DEF Done, TypeOK
<1>5. asked'[c].op = "none"
  BY <1>4 DEF NoCommand
<1>6. \A d \in Clients : Answered(d)' => Answered(d) \/ d = c
  BY <1>3 DEF Answered, IsAnswer
<1>7. PagesAreFresh' /\ MailNamesPages'
  BY <1>3 DEF PagesAreFresh, MailNamesPages
<1>8. OneCommand'
  BY <1>4, <1>5, <1>6 DEF OneCommand
<1>9. c \in Clients =>
        /\ task[c].op # "createTarget" =>
             asked[c].target = task[c].target /\ asked[c].op # "createTarget"
        /\ task[c].op = "createTarget" => asked[c].op \in {"createTarget", "created"}
        /\ asked[c].op # "createTarget" => asked[c].target \in Targets
  BY DEF OneCommand
<1>10. AnswersFit'
  <2>1. ASSUME NEW d \in Clients, NEW m \in Mail', IsAnswer(m, d),
               task[d].op # "createTarget"
        PROVE  m.target = task[d].target
    <3>1. CASE m \in Mail
      BY <2>1, <3>1 DEF AnswersFit
    <3>2. CASE m \in MailOf(s)
      BY <1>9, <2>1, <3>2 DEF IsAnswer
    <3>3. QED
      BY <1>3, <3>1, <3>2
  <2>2. QED
    BY <2>1 DEF AnswersFit
<1>11. \A d \in Clients, t \in Targets : Pending(d, t)' => Pending(d, t)
  <2>1. SUFFICES ASSUME NEW d \in Clients, NEW t \in Targets, Pending(d, t)'
                 PROVE  Pending(d, t)
    OBVIOUS
  <2>2. CASE asked'[d].op = "created" /\ asked'[d].target = t
    BY <1>4, <1>5, <2>2 DEF Pending
  <2>3. CASE task[d].op = "createTarget" /\ task[d].reply = "ok" /\ task[d].target = t
    BY <2>3 DEF Pending
  <2>4. ASSUME task[d].op = "createTarget",
               NEW m \in Mail', m.type = "answer", m.client = d, m.target = t
        PROVE  Pending(d, t)
    <3>1. CASE m \in Mail
      BY <2>4, <3>1 DEF Pending
    <3>2. CASE m \in MailOf(s)
      BY <1>9, <2>4, <3>2 DEF Pending
    <3>3. QED
      BY <1>3, <2>4, <3>1, <3>2
  <2>5. QED
    BY <2>1, <2>2, <2>3, <2>4 DEF Pending
<1>12. OneCreator'
  <2>1. ASSUME NEW d \in Clients, NEW m \in Mail', m.type = "answer", m.client = d,
               task[d].op = "createTarget"
        PROVE  m.target \in Targets
    BY <1>3, <1>9, <2>1 DEF OneCreator
  <2>2. QED
    BY <1>11, <2>1 DEF OneCreator
<1>13. \A d \in Clients, t \in Targets : Serves(d, t)' => Serves(d, t)
  BY <1>3 DEF Serves, Holds, Replaying, Attaching
<1>14. Affinity'
  BY <1>11, <1>13, AffinityKept
<1>15. MarksAreMeant'
  <2>1. ASSUME NEW t \in suppress
        PROVE  \/ \E m \in Mail' : m.type = "attached" /\ m.target = t
               \/ \E d \in Clients :
                    /\ task[d].op = "attach" /\ task[d].target = t
                    /\ \/ asked'[d].op = "attachToTarget"
                       \/ task[d].reply = "error"
                       \/ \E m \in Mail' : m.type = "error" /\ m.client = d
    <3>1. CASE \E m \in Mail : m.type = "attached" /\ m.target = t
      BY <1>3, <3>1
    <3>2. ASSUME NEW d \in Clients, task[d].op = "attach", task[d].target = t,
                 \/ asked[d].op = "attachToTarget"
                 \/ task[d].reply = "error"
                 \/ \E m \in Mail : m.type = "error" /\ m.client = d
          PROVE  <2>1!2
      <4>1. CASE d # c
        BY <1>3, <1>4, <3>2, <4>1
      <4>2. CASE d = c /\ asked[d].op = "attachToTarget"
        BY <1>3, <1>9, <3>2, <4>2
      <4>3. CASE d = c /\ asked[d].op # "attachToTarget"
        BY <1>3, <3>2, <4>3
      <4>4. QED
        BY <4>1, <4>2, <4>3
    <3>3. QED
      BY <3>1, <3>2 DEF MarksAreMeant
  <2>2. QED
    BY <2>1 DEF MarksAreMeant
<1>16. QED
  BY <1>3, <1>7, <1>8, <1>10, <1>12, <1>14, <1>15

\* The commands of clients, and those the mux has given up.
LEMMA CommandsKeep ==
  ASSUME IInv, NEW c \in Clients \cup {Nobody},
         \/ ChromeAttaches(c) \/ ChromeDescribes(c)
         \/ ChromeAnswersCreate(c) \/ ChromeCloses(c)
  PROVE  Routing'
<1> DEFINE t == asked[c].target
           n == minted[t] + 1
<1>1. /\ t \in Targets \cup {NoTarget} /\ 0 \in 0..MaxSessions
      /\ upstream \in Seq(Messages)
  BY MuxTargetsAssumption DEF IInv, TypeOK, Messages
<1>2. asked[c].op \notin {"none", "createTarget"} => t \in Targets
  BY DEF IInv, Routing, OneCommand
<1>3. Verdict(t) \in {"answer", "error"}
  BY DEF Verdict
<1> HIDE DEF t, n
<1>4. ASSUME ChromeAttaches(c) PROVE Routing'
  <2>1. /\ asked[c].op = "attachToTarget" /\ t \in Targets /\ Done(c)
        /\ UNCHANGED <<leases, pc, answer, seen, foreign, opener, task, told, owner,
                       suppress, forwards, live>>
    BY <1>2, <1>4 DEF t, n, ChromeAttaches, Asked, poolVars, muxVars, routeVars, viewVars
  <2>2. CASE Mint(t) /\ upstream' = upstream \o <<Attached(t, n)>> \o Answer(c, "answer", t, n)
    <3> DEFINE a == <<Attached(t, n)>>
               b == Answer(c, "answer", t, n)
    <3>1. n \in 0..MaxSessions
      BY <2>1, <2>2, MuxTargetsAssumption DEF n, Mint, IInv, TypeOK
    <3>2. /\ Attached(t, n) \in Messages
          /\ Attached(t, n).type = "attached" /\ Attached(t, n).target = t
      BY <2>1, <3>1 DEF Attached, Message, Messages
    <3>3. a \in Seq(Messages) /\ MailOf(a) = {Attached(t, n)} /\ OneEach(a)
      BY <3>2, ShortQueues
    <3>4. /\ b \in Seq(Messages) /\ OneEach(b)
          /\ \A m \in MailOf(b) : /\ c \in Clients /\ m.client = c /\ m.target = t
                                  /\ m.type = "answer"
      BY <1>1, <3>1, AnswerMail, SMTT(30)
    <3>5. upstream' = (upstream \o a) \o b
      BY <2>2
    <3> HIDE DEF a, b
    <3>6. a \o b \in Seq(Messages) /\ MailOf(a \o b) = MailOf(a) \cup MailOf(b)
      BY <3>3, <3>4, MailOfConcat
    <3>7. OneEach(a \o b)
      BY <3>2, <3>3, <3>4, OneEachConcat DEF IsAnswer
    <3>8. upstream' = upstream \o (a \o b)
      BY <1>1, <3>3, <3>4, <3>5, ConcatAssociative, SMTT(30)
    <3>9. QED
      BY <2>1, <3>2, <3>3, <3>4, <3>6, <3>7, <3>8, AnswersKeep DEF t
  <2>3. CASE upstream' = upstream \o Answer(c, "error", t, 0)
    <3> DEFINE b == Answer(c, "error", t, 0)
    <3>1. /\ b \in Seq(Messages) /\ OneEach(b) /\ upstream' = upstream \o b
          /\ c \in Clients => \E m : m \in MailOf(b)
          /\ \A m \in MailOf(b) : /\ c \in Clients /\ m.client = c /\ m.target = t
                                  /\ m.type = "error"
      BY <1>1, <2>3, AnswerMail
    <3> HIDE DEF b
    <3>2. QED
      BY <2>1, <3>1, AnswersKeep DEF t
  <2>4. QED
    BY <1>4, <2>2, <2>3 DEF t, n, ChromeAttaches
<1>5. ASSUME ChromeDescribes(c) PROVE Routing'
  <2> DEFINE b == Answer(c, Verdict(t), t, 0)
  <2>1. /\ asked[c].op = "getTargetInfo" /\ Done(c) /\ upstream' = upstream \o b
        /\ UNCHANGED <<leases, pc, answer, seen, foreign, opener, task, told, owner,
                       suppress, forwards, live>>
    BY <1>5 DEF t, n, ChromeDescribes, Asked, poolVars, pageVars, muxVars, routeVars, viewVars
  <2>2. /\ b \in Seq(Messages) /\ OneEach(b)
        /\ \A m \in MailOf(b) : /\ c \in Clients /\ m.client = c /\ m.target = t
                                /\ m.type \in {"answer", "error"}
    BY <1>1, <1>3, AnswerMail
  <2> HIDE DEF b
  <2>3. QED
    BY <2>1, <2>2, AnswersKeep DEF t
<1>6. ASSUME ChromeAnswersCreate(c) PROVE Routing'
  <2>1. /\ Done(c)
        /\ UNCHANGED <<leases, pc, answer, seen, foreign, opener, task, told, owner,
                       suppress, forwards, live>>
    BY <1>6 DEF ChromeAnswersCreate, poolVars, pageVars, muxVars, routeVars, viewVars
  <2>2. CASE asked[c].op = "created" /\ upstream' = upstream \o Answer(c, "answer", t, 0)
    <3> DEFINE b == Answer(c, "answer", t, 0)
    <3>1. /\ b \in Seq(Messages) /\ OneEach(b)
          /\ \A m \in MailOf(b) : /\ c \in Clients /\ m.client = c /\ m.target = t
                                  /\ m.type = "answer"
      BY <1>1, AnswerMail
    <3>2. upstream' = upstream \o b
      BY <2>2
    <3> HIDE DEF b
    <3>3. QED
      BY <2>1, <2>2, <3>1, <3>2, AnswersKeep DEF t
  <2>3. CASE asked[c].op = "createTarget" /\ upstream' = upstream \o Answer(c, "error", NoTarget, 0)
    <3> DEFINE b == Answer(c, "error", NoTarget, 0)
    <3>1. /\ b \in Seq(Messages) /\ OneEach(b)
          /\ \A m \in MailOf(b) :
               c \in Clients /\ m.client = c /\ m.target = NoTarget /\ m.type = "error"
      <4>1. PICK u \in Targets \cup {NoTarget} : u = NoTarget
        OBVIOUS
      <4>2. /\ Answer(c, "error", u, 0) \in Seq(Messages)
            /\ OneEach(Answer(c, "error", u, 0))
            /\ \A m \in MailOf(Answer(c, "error", u, 0)) :
                 c \in Clients /\ m.client = c /\ m.target = u /\ m.type = "error"
        BY <1>1, AnswerMail
      <4>3. QED
        BY <4>1, <4>2
    <3>2. upstream' = upstream \o b
      BY <2>3
    <3> HIDE DEF b
    <3>3. QED
      BY <2>1, <2>3, <3>1, <3>2, AnswersKeep
  <2>4. QED
    BY <1>6, <2>2, <2>3 DEF t, n, ChromeAnswersCreate, Asked
<1>7. ASSUME ChromeCloses(c) PROVE Routing'
  <2> DEFINE a == Answer(c, Verdict(t), t, 0)
             b == DeathNotes(t)
  <2>1. /\ asked[c].op = "closeTarget" /\ t \in Targets /\ Done(c)
        /\ upstream' = (upstream \o a) \o b
        /\ live' \subseteq live
        /\ UNCHANGED <<leases, pc, answer, seen, foreign, opener, task, told, owner,
                       suppress, forwards>>
    BY <1>2, <1>7 DEF t, n, ChromeCloses, Asked, Pool!PageGone, Pool!callVars, poolVars, muxVars,
                      routeVars, viewVars
  <2>2. /\ a \in Seq(Messages) /\ OneEach(a)
        /\ \A m \in MailOf(a) : /\ c \in Clients /\ m.client = c /\ m.target = t
                                /\ m.type \in {"answer", "error"}
    BY <1>1, <1>3, AnswerMail
  <2>3. /\ b \in Seq(Messages)
        /\ \A m \in MailOf(b) : m.type \in {"detached", "destroyed"} /\ m.target = t
    BY <2>1, DeathMail
  <2> HIDE DEF a, b
  <2>4. a \o b \in Seq(Messages) /\ MailOf(a \o b) = MailOf(a) \cup MailOf(b)
    BY <2>2, <2>3, MailOfConcat
  <2>5. OneEach(b)
    BY <2>3 DEF OneEach, IsAnswer, MailOf
  <2>6. OneEach(a \o b)
    BY <2>2, <2>3, <2>5, OneEachConcat DEF IsAnswer
  <2>7. upstream' = upstream \o (a \o b)
    BY <1>1, <2>1, <2>2, <2>3, ConcatAssociative, SMTT(30)
  <2>8. QED
    BY <2>1, <2>2, <2>3, <2>4, <2>6, <2>7, AnswersKeep DEF t
<1>8. QED
  BY <1>4, <1>5, <1>6, <1>7

-----------------------------------------------------------------------------
(* The mux reads its socket.                                               *)

\* A set of numbers has a least one.
LEMMA LeastNumber ==
  ASSUME NEW S \in SUBSET Nat, S # {}
  PROVE  \E i \in S : \A j \in S : i <= j
<1>1. PICK R : R = OpToRel(<, Nat)
  OBVIOUS
<1>2. \A i, j \in Nat : i < j => <<i, j>> \in R
  BY <1>1, Zenon DEF OpToRel
<1>3. IsWellFoundedOn(R, Nat)
  BY <1>1, NatLessThanWellFounded
<1>4. PICK i \in S : \A j \in S : <<j, i>> \notin R
  BY <1>3, WFMin
<1>5. ASSUME NEW j \in S PROVE i <= j
  <2>1. ~(j < i)
    BY <1>2, <1>4
  <2>2. QED
    BY <2>1
<1>6. QED
  BY <1>5

\* The client a page is routed to is one of the agent that leases the page.
LEMMA RoutedToItsAgent ==
  ASSUME NEW L, NEW t \in Targets, conns \in Seq(Clients), ClientFor(L, t) # Nobody
  PROVE  ClientFor(L, t) \in Clients /\ L[t] = AgentOf[ClientFor(L, t)]
<1> DEFINE S == {i \in DOMAIN conns : L[t] = AgentOf[conns[i]]}
           k == CHOOSE i \in S : \A j \in S : i <= j
<1>1. S # {} /\ ClientFor(L, t) = conns[k]
  BY DEF ClientFor
<1>2. S \in SUBSET Nat
  OBVIOUS
<1>3. \E i \in S : \A j \in S : i <= j
  BY <1>1, <1>2, LeastNumber
<1>4. k \in S
  BY <1>3
<1>5. QED
  BY <1>1, <1>4

\* Handing a session over makes its client, and no other, one that holds the page.
LEMMA HandHolds ==
  ASSUME TypeOK, NEW c \in Clients, NEW t \in Targets, NEW n, Hand(c, t, n)
  PROVE  \A d \in Clients, u \in Targets : Holds(d, u)' => Holds(d, u) \/ (d = c /\ u = t)
<1> SUFFICES ASSUME NEW d \in Clients, NEW u \in Targets, ~(d = c /\ u = t)
             PROVE  Holds(d, u)' => Holds(d, u)
  OBVIOUS
<1>1. told'[d][u] = told[d][u]
  <2>1. told \in [Clients -> [Targets -> 0..2]]
    BY DEF TypeOK
  <2>2. QED
    BY <2>1 DEF Hand
<1>2. \A k \in 1..MaxSessions : owner'[u][k] = d => owner[u][k] = d
  <2>1. owner \in [Targets -> [1..MaxSessions -> Clients \cup {Nobody}]]
    BY DEF TypeOK
  <2>2. owner' = [owner EXCEPT ![t] = [owner[t] EXCEPT ![n] = c]]
    BY DEF Hand
  <2>3. QED
    BY <2>1, <2>2
<1>3. QED
  BY <1>1, <1>2 DEF Holds

\* A step that leases a page nobody leases: to the agent of the page that opened it, or
\* of the client or caller it was made for.
LEMMA AffinityLeased ==
  ASSUME TypeOK, PagesAreFresh, OneCreator, Affinity,
         NEW t \in Targets, NEW a \in Agents, t \in seen,
         leases' = [leases EXCEPT ![t] = a],
         \/ opener[t] # NoTarget /\ leases[opener[t]] = a
         \/ \E k \in Callers : pc[k] = "created" /\ answer[k] = t
         \/ \E c \in Clients : Pending(c, t),
         UNCHANGED <<seen, opener>>,
         \A k \in Callers : pc'[k] = "created" =>
           pc[k] = "created" /\ answer'[k] = answer[k] /\ answer[k] # t,
         \A c \in Clients, u \in Targets : Pending(c, u)' => Pending(c, u) /\ u # t,
         \A c \in Clients, u \in Targets : Serves(c, u)' =>
           \/ Serves(c, u)
           \/ u = t /\ AgentOf[c] = a
           \/ leases[u] = AgentOf[c]
  PROVE  Affinity'
<1>1. PICK fam \in [Targets -> Agents \cup {NoAgent}] : Explains(fam)
  BY DEF Affinity
<1>2. NoAgent \notin Agents /\ \A c \in Clients : AgentOf[c] \in Agents
  BY MuxTargetsAssumption
<1>3. \A u \in Targets : leases'[u] = IF u = t THEN a ELSE leases[u]
  BY DEF TypeOK, Pool!TypeOK
<1>4. \A u \in Targets : opener[u] # NoTarget => opener[u] \in Targets
  BY DEF TypeOK
<1>5. fam[t] \in {a, NoAgent} /\ (opener[t] # NoTarget => fam[opener[t]] = a)
  <2>1. CASE opener[t] # NoTarget /\ leases[opener[t]] = a
    BY <1>1, <1>2, <1>4, <2>1 DEF Explains
  <2>2. CASE \E k \in Callers : pc[k] = "created" /\ answer[k] = t
    BY <1>1, <2>2 DEF Explains, PagesAreFresh
  <2>3. CASE \E c \in Clients : Pending(c, t)
    BY <1>1, <2>3 DEF Explains, OneCreator
  <2>4. QED
    BY <2>1, <2>2, <2>3
<1> DEFINE now == [fam EXCEPT ![t] = a]
<1>6. now \in [Targets -> Agents \cup {NoAgent}]
  OBVIOUS
<1>7. \A u \in Targets : now[u] = IF u = t THEN a ELSE fam[u]
  OBVIOUS
<1> HIDE DEF now
<1>8. \A u \in Targets : leases'[u] \in {now[u], NoAgent}
  BY <1>1, <1>3, <1>7 DEF Explains
<1>9. \A u \in Targets : now[u] # NoAgent => u \in seen'
  BY <1>1, <1>7 DEF Explains
<1>10. \A u \in Targets : opener'[u] # NoTarget => now[u] \in {now[opener'[u]], NoAgent}
  BY <1>1, <1>4, <1>5, <1>7 DEF Explains
<1>11. \A k \in Callers : pc'[k] = "created" => now[answer'[k]] = NoAgent
  <2>1. \A k \in Callers : pc[k] = "created" => answer[k] \in Targets
    BY DEF PagesAreFresh, TypeOK, Pool!TypeOK
  <2>2. QED
    BY <1>1, <1>7, <2>1 DEF Explains
<1>12. \A c \in Clients, u \in Targets : Pending(c, u)' => now[u] = NoAgent
  BY <1>1, <1>7 DEF Explains
<1>13. \A c \in Clients, u \in Targets : Serves(c, u)' => now[u] = AgentOf[c]
  <2>1. SUFFICES ASSUME NEW c \in Clients, NEW u \in Targets, Serves(c, u)'
                 PROVE  now[u] = AgentOf[c]
    OBVIOUS
  <2>2. CASE Serves(c, u)
    BY <1>1, <1>2, <1>5, <1>7, <2>2 DEF Explains
  <2>3. CASE u = t /\ AgentOf[c] = a
    BY <1>7, <2>3
  <2>4. CASE leases[u] = AgentOf[c]
    <3>1. fam[u] = AgentOf[c]
      BY <1>1, <1>2, <2>4 DEF Explains
    <3>2. QED
      BY <1>2, <1>5, <1>7, <3>1
  <2>5. QED
    BY <2>1, <2>2, <2>3, <2>4
<1>14. Explains(now)'
  BY <1>8, <1>9, <1>10, <1>11, <1>12, <1>13 DEF Explains
<1>15. QED
  BY <1>6, <1>14 DEF Affinity

\* A message that answers no command is read, and no page is leased.
LEMMA EventReadKeeps ==
  ASSUME IInv, NEW type \in {"created", "attached", "detached", "destroyed", "attachAnswer"},
         Arrives(type),
         UNCHANGED <<live, seen, foreign, pc, answer, opener, asked, task, forwards>>
  PROVE  /\ PagesAreFresh' /\ OneCommand' /\ NoTwoAnswers' /\ AnswersFit' /\ OneCreator'
         /\ MailNamesPages'
         /\ \A c \in Clients, t \in Targets : Pending(c, t)' <=> Pending(c, t)
         /\ \A c \in Clients, t \in Targets : Attaching(c, t)' => Attaching(c, t)
         /\ \A c \in Clients, t \in Targets : Replaying(c, t)' <=> Replaying(c, t)
         /\ Head(upstream).target \in Targets
         /\ Mail' \subseteq Mail /\ Mail \subseteq Mail' \cup {Head(upstream)}
         /\ Head(upstream) \in Mail /\ Head(upstream).type = type
<1> USE DEF IInv, Routing
<1>1. /\ NoTwoAnswers'
      /\ Head(upstream) \in Mail /\ Head(upstream).type = type
      /\ Mail' \subseteq Mail
      /\ Mail \subseteq Mail' \cup {Head(upstream)}
  <2>1. upstream \in Seq(Messages)
    BY DEF TypeOK, Messages
  <2>2. QED
    BY <2>1, Reads
<1>2. Head(upstream).target \in Targets
  BY <1>1 DEF MailNamesPages
<1>3. \A m : m.type \in {"answer", "error"} => (m \in Mail' <=> m \in Mail)
  BY <1>1
<1>4. /\ OneCommand' /\ AnswersFit' /\ OneCreator'
      /\ \A c \in Clients, t \in Targets : Pending(c, t)' <=> Pending(c, t)
  BY <1>3, CallsKept
<1>5. PagesAreFresh' /\ MailNamesPages'
  BY <1>1 DEF PagesAreFresh, MailNamesPages
<1>6. \A c \in Clients, t \in Targets : Attaching(c, t)' => Attaching(c, t)
  BY <1>1 DEF Attaching
<1>7. \A c \in Clients, t \in Targets : Replaying(c, t)' <=> Replaying(c, t)
  BY DEF Replaying
<1>8. QED
  BY <1>1, <1>2, <1>4, <1>5, <1>6, <1>7

\* A page inherits a lease, or does not, when an event about it is read.
LEMMA InheritsKeeps ==
  ASSUME IInv, NEW t \in Targets, AdoptByOpener(t)
  PROVE  /\ UNCHANGED <<pc, asker, answer, closing, live, seen, foreign, connected>>
         /\ \/ leases' = leases
            \/ /\ opener[t] # NoTarget /\ leases[opener[t]] \in Agents
               /\ leases[t] = NoAgent
               /\ leases' = [leases EXCEPT ![t] = leases[opener[t]]]
               /\ t \in foreign /\ t \in seen
               /\ Pool!Adopt(leases[opener[t]], t)
<1>1. CASE Inherits(t)
  <2>1. opener[t] # NoTarget /\ opener[t] \in Targets /\ t \in foreign /\ t \in seen
    BY <1>1 DEF Inherits, IInv, TypeOK, Routing, PagesAreFresh
  <2>2. leases[opener[t]] \in Agents
    <3>1. conns \in Seq(Clients)
      BY DEF IInv, TypeOK
    <3>2. ClientFor(leases, opener[t]) # Nobody
      BY <1>1 DEF Inherits
    <3>3. QED
      BY <2>1, <3>1, <3>2, RoutedToItsAgent, MuxTargetsAssumption
  <2>3. QED
    BY <1>1, <2>1, <2>2 DEF AdoptByOpener, Pool!Adopt, Pool!Register, Pool!callVars,
                            Pool!chromeVars
<1>2. CASE ~Inherits(t)
  BY <1>2 DEF AdoptByOpener, poolVars
<1>3. QED
  BY <1>1, <1>2

\* What a page inherits, it inherits from its family.
LEMMA InheritedLease ==
  ASSUME IInv, NEW t \in Targets, AdoptByOpener(t), UNCHANGED opener,
         \A c \in Clients, u \in Targets : Pending(c, u)' <=> Pending(c, u),
         \A c \in Clients, u \in Targets :
           Serves(c, u)' => Serves(c, u) \/ (u = t /\ leases'[t] = AgentOf[c])
  PROVE  Affinity'
<1>1. TypeOK /\ PagesAreFresh /\ OneCreator /\ Affinity
  BY DEF IInv, Routing
<1>2. /\ UNCHANGED <<pc, answer, seen, foreign>>
      /\ \/ leases' = leases
         \/ /\ opener[t] # NoTarget /\ leases[opener[t]] \in Agents
            /\ leases' = [leases EXCEPT ![t] = leases[opener[t]]]
            /\ t \in foreign /\ t \in seen
  BY InheritsKeeps
<1>3. CASE leases' = leases
  BY <1>1, <1>2, <1>3, AffinityKept
<1>4. CASE /\ opener[t] # NoTarget /\ leases[opener[t]] \in Agents
           /\ leases' = [leases EXCEPT ![t] = leases[opener[t]]]
           /\ t \in foreign /\ t \in seen
  <2>1. \A k \in Callers : pc[k] = "created" => answer[k] # t
    BY <1>1, <1>4 DEF PagesAreFresh
  <2>2. \A c \in Clients : ~Pending(c, t)
    BY <1>1, <1>4 DEF OneCreator
  <2>3. PICK a \in Agents : leases[opener[t]] = a /\ leases' = [leases EXCEPT ![t] = a]
    BY <1>4
  <2>4. leases'[t] = a
    BY <1>1, <2>3 DEF TypeOK, Pool!TypeOK
  <2>5. /\ \A k \in Callers : pc'[k] = "created" =>
             pc[k] = "created" /\ answer'[k] = answer[k] /\ answer[k] # t
        /\ \A c \in Clients, u \in Targets : Pending(c, u)' => Pending(c, u) /\ u # t
    BY <1>2, <2>1, <2>2
  <2>6. \A c \in Clients, u \in Targets : Serves(c, u)' =>
          \/ Serves(c, u)
          \/ u = t /\ AgentOf[c] = a
          \/ leases[u] = AgentOf[c]
    BY <2>4
  <2>7. opener[t] # NoTarget /\ leases[opener[t]] = a /\ UNCHANGED <<seen, opener>> /\ t \in seen
    BY <1>2, <1>4, <2>3
  <2>8. QED
    BY <1>1, <2>3, <2>5, <2>6, <2>7, AffinityLeased
<1>5. QED
  BY <1>2, <1>3, <1>4

\* Every message but the answers of commands, and the end of a parked event's time.
LEMMA ReadsKeep ==
  ASSUME IInv,
         \/ DeliverCreated \/ DeliverAttached \/ DeliverDetached
         \/ DeliverDestroyed \/ DeliverAttachAnswer
  PROVE  Routing'
<1> DEFINE t == Head(upstream).target
<1> USE DEF IInv, Routing
<1>1. ASSUME DeliverCreated PROVE Routing'
  <2>1. /\ Arrives("created") /\ AdoptByOpener(t)
        /\ UNCHANGED <<opener, asked, task, forwards, told, owner, suppress>>
    BY <1>1 DEF DeliverCreated, chromeVars, pageVars, muxVars, routeVars, viewVars
  <2>2. t \in Targets
    <3>1. upstream \in Seq(Messages)
      BY DEF TypeOK, Messages
    <3>2. QED
      BY <2>1, <3>1, Reads DEF MailNamesPages
  <2>3. /\ UNCHANGED <<pc, asker, answer, closing, live, seen, foreign, connected>>
        /\ \/ leases' = leases
           \/ /\ opener[t] # NoTarget /\ leases[opener[t]] \in Agents
              /\ leases' = [leases EXCEPT ![t] = leases[opener[t]]]
              /\ t \in foreign /\ t \in seen
    BY <2>1, <2>2, InheritsKeeps
  <2>4. /\ PagesAreFresh' /\ OneCommand' /\ NoTwoAnswers' /\ AnswersFit' /\ OneCreator'
        /\ MailNamesPages'
        /\ \A c \in Clients, u \in Targets : Pending(c, u)' <=> Pending(c, u)
        /\ \A c \in Clients, u \in Targets : Attaching(c, u)' => Attaching(c, u)
        /\ \A c \in Clients, u \in Targets : Replaying(c, u)' <=> Replaying(c, u)
        /\ Mail \subseteq Mail' \cup {Head(upstream)} /\ Head(upstream).type = "created"
    BY <2>1, <2>3, EventReadKeeps
  <2> HIDE DEF t
  <2>5. \A c \in Clients, u \in Targets : Serves(c, u)' => Serves(c, u)
    BY <2>1, <2>4 DEF Serves, Holds
  <2>6. Affinity'
    BY <2>1, <2>2, <2>4, <2>5, InheritedLease
  <2>7. MarksAreMeant'
    BY <2>1, <2>4 DEF MarksAreMeant
  <2>8. QED
    BY <2>4, <2>6, <2>7
<1>2. ASSUME DeliverAttached PROVE Routing'
  <2> DEFINE n == Head(upstream).session
             c == ClientFor(leases', t)
  <2>1. /\ Arrives("attached") /\ AdoptByOpener(t)
        /\ UNCHANGED <<opener, asked, task, forwards, conns>>
    BY <1>2 DEF DeliverAttached, chromeVars, pageVars, connVars
  <2>2. t \in Targets
    <3>1. upstream \in Seq(Messages)
      BY DEF TypeOK, Messages
    <3>2. QED
      BY <2>1, <3>1, Reads DEF MailNamesPages
  <2>3. /\ UNCHANGED <<pc, asker, answer, closing, live, seen, foreign, connected>>
        /\ \/ leases' = leases
           \/ /\ opener[t] # NoTarget /\ leases[opener[t]] \in Agents
              /\ leases' = [leases EXCEPT ![t] = leases[opener[t]]]
              /\ t \in foreign /\ t \in seen
    BY <2>1, <2>2, InheritsKeeps
  <2>4. /\ PagesAreFresh' /\ OneCommand' /\ NoTwoAnswers' /\ AnswersFit' /\ OneCreator'
        /\ MailNamesPages'
        /\ \A d \in Clients, u \in Targets : Pending(d, u)' <=> Pending(d, u)
        /\ \A d \in Clients, u \in Targets : Attaching(d, u)' => Attaching(d, u)
        /\ \A d \in Clients, u \in Targets : Replaying(d, u)' <=> Replaying(d, u)
        /\ Mail \subseteq Mail' \cup {Head(upstream)} /\ Head(upstream).type = "attached"
    BY <2>1, <2>3, EventReadKeeps
  <2>5. \/ UNCHANGED <<told, owner>>
        \/ c # Nobody /\ Hand(c, t, n)
    BY <1>2 DEF DeliverAttached
  <2>6. c # Nobody => c \in Clients /\ leases'[t] = AgentOf[c]
    <3>1. conns \in Seq(Clients)
      BY DEF TypeOK
    <3>2. QED
      BY <2>2, <3>1, RoutedToItsAgent
  <2>7. suppress' \subseteq suppress /\ (t \in suppress => suppress' = suppress \ {t})
    BY <1>2 DEF DeliverAttached
  <2> HIDE DEF t, n, c
  <2>8. \A d \in Clients, u \in Targets :
          Holds(d, u)' => Holds(d, u) \/ (u = t /\ leases'[t] = AgentOf[d])
    <3>1. CASE UNCHANGED <<told, owner>>
      BY <3>1 DEF Holds
    <3>2. CASE c # Nobody /\ Hand(c, t, n)
      BY <2>2, <2>6, <3>2, HandHolds
    <3>3. QED
      BY <2>5, <3>1, <3>2
  <2>9. \A d \in Clients, u \in Targets :
          Serves(d, u)' => Serves(d, u) \/ (u = t /\ leases'[t] = AgentOf[d])
    BY <2>4, <2>8 DEF Serves
  <2>10. Affinity'
    BY <2>1, <2>2, <2>4, <2>9, InheritedLease
  <2>11. MarksAreMeant'
    <3>1. \A u \in suppress' : u \in suppress /\ u # t
      BY <2>7
    <3>2. \A m \in Mail : m.type = "attached" /\ m.target # t => m \in Mail'
      BY <2>4 DEF t
    <3>3. \A m \in Mail : m.type = "error" => m \in Mail'
      BY <2>4
    <3>4. QED
      BY <2>1, <3>1, <3>2, <3>3 DEF MarksAreMeant
  <2>12. QED
    BY <2>4, <2>10, <2>11
<1>3. ASSUME DeliverDetached \/ DeliverDestroyed PROVE Routing'
  <2>1. /\ Arrives("detached") \/ Arrives("destroyed")
        /\ UNCHANGED <<leases, live, seen, foreign, pc, answer, opener, asked, task, forwards,
                       told, owner>>
        /\ suppress' \subseteq suppress
    BY <1>3 DEF DeliverDetached, DeliverDestroyed, poolVars, chromeVars, pageVars, viewVars
  <2>2. /\ PagesAreFresh' /\ OneCommand' /\ NoTwoAnswers' /\ AnswersFit' /\ OneCreator'
        /\ MailNamesPages'
        /\ \A d \in Clients, u \in Targets : Pending(d, u)' <=> Pending(d, u)
        /\ \A d \in Clients, u \in Targets : Attaching(d, u)' => Attaching(d, u)
        /\ \A d \in Clients, u \in Targets : Replaying(d, u)' <=> Replaying(d, u)
        /\ Mail \subseteq Mail' \cup {Head(upstream)}
        /\ Head(upstream).type \in {"detached", "destroyed"}
    BY <2>1, EventReadKeeps
  <2>3. \A d \in Clients, u \in Targets : Serves(d, u)' => Serves(d, u)
    BY <2>1, <2>2 DEF Serves, Holds
  <2>4. Affinity'
    BY <2>1, <2>2, <2>3, AffinityKept
  <2>5. MarksAreMeant'
    BY <2>1, <2>2 DEF MarksAreMeant
  <2>6. QED
    BY <2>2, <2>4, <2>5
<1>4. ASSUME DeliverAttachAnswer PROVE Routing'
  <2> DEFINE n == Head(upstream).session
             c == Head(upstream).client
  <2>1. /\ Arrives("attachAnswer")
        /\ UNCHANGED <<leases, live, seen, foreign, pc, answer, opener, asked, task, forwards,
                       told, suppress>>
        /\ owner' = [owner EXCEPT ![t] = [owner[t] EXCEPT ![n] = c]]
    BY <1>4 DEF DeliverAttachAnswer, poolVars, chromeVars, pageVars, viewVars
  <2>2. /\ PagesAreFresh' /\ OneCommand' /\ NoTwoAnswers' /\ AnswersFit' /\ OneCreator'
        /\ MailNamesPages'
        /\ \A d \in Clients, u \in Targets : Pending(d, u)' <=> Pending(d, u)
        /\ \A d \in Clients, u \in Targets : Attaching(d, u)' => Attaching(d, u)
        /\ \A d \in Clients, u \in Targets : Replaying(d, u)' <=> Replaying(d, u)
        /\ Mail \subseteq Mail' \cup {Head(upstream)}
        /\ Head(upstream) \in Mail /\ Head(upstream).type = "attachAnswer"
        /\ t \in Targets
    BY <2>1, EventReadKeeps
  <2>3. \A d \in Clients : d = c => Attaching(d, t)
    BY <2>2 DEF Attaching
  <2> HIDE DEF t, n, c
  <2>4. \A d \in Clients, u \in Targets : Holds(d, u)' => Holds(d, u) \/ (d = c /\ u = t)
    <3>1. owner \in [Targets -> [1..MaxSessions -> Clients \cup {Nobody}]]
      BY DEF TypeOK
    <3>2. \A u \in Targets, k \in 1..MaxSessions :
            owner'[u][k] = owner[u][k] \/ (u = t /\ owner'[u][k] = c)
      BY <2>1, <2>2, <3>1
    <3>3. QED
      BY <2>1, <3>2 DEF Holds
  <2>5. \A d \in Clients, u \in Targets : Serves(d, u)' => Serves(d, u)
    BY <2>2, <2>3, <2>4 DEF Serves
  <2>6. Affinity'
    BY <2>1, <2>2, <2>5, AffinityKept
  <2>7. MarksAreMeant'
    BY <2>1, <2>2 DEF MarksAreMeant
  <2>8. QED
    BY <2>2, <2>6, <2>7
<1>5. QED
  BY <1>1, <1>2, <1>3, <1>4

\* The answer a handler waits for.
LEMMA AnswerReadKeeps ==
  ASSUME IInv, DeliverAnswer
  PROVE  Routing'
<1> USE DEF IInv, Routing
<1> SUFFICES ASSUME NEW m, m = Head(upstream), NEW c, c = m.client
             PROVE  Routing'
  OBVIOUS
<1>1. /\ Arrives("answer") \/ Arrives("error")
      /\ UNCHANGED <<leases, pc, answer, live, seen, foreign, opener, asked, forwards, told,
                     owner, suppress>>
      /\ \A d \in Clients \ {c} : task'[d] = task[d]
      /\ c \in Clients =>
           /\ UNCHANGED <<task[c].op, task[c].todo>>
           /\ task'[c].reply = IF m.type = "answer" THEN "ok" ELSE "error"
           /\ task'[c].target = m.target
  <2>1. /\ Arrives("answer") \/ Arrives("error")
        /\ UNCHANGED <<leases, pc, answer, live, seen, foreign, opener, asked, forwards, told,
                       owner, suppress>>
    BY DEF DeliverAnswer, poolVars, chromeVars, pageVars, routeVars, viewVars
  <2>2. PICK r, n : /\ r = IF m.type = "answer" THEN "ok" ELSE "error"
                    /\ task' = [task EXCEPT ![c].reply = r, ![c].session = n,
                                            ![c].target = m.target]
    BY DEF DeliverAnswer
  <2>3. task \in [Clients -> [op : {"idle", "replay", "attach", "describe", "createTarget",
                                    "closeTarget"},
                   todo : SUBSET Targets, granted : SUBSET Targets,
                   target : Targets \cup {NoTarget}, session : 0..MaxSessions,
                   reply : {"none", "ok", "error"}]]
    BY DEF TypeOK
  <2>4. \A d \in Clients \ {c} : task'[d] = task[d]
    BY <2>2, <2>3
  <2>5. c \in Clients =>
           /\ UNCHANGED <<task[c].op, task[c].todo>>
           /\ task'[c].reply = r
           /\ task'[c].target = m.target
    BY <2>2, <2>3
  <2>6. QED
    BY <2>1, <2>2, <2>4, <2>5
<1>2. /\ NoTwoAnswers'
      /\ m \in Mail /\ m.type \in {"answer", "error"}
      /\ Mail' \subseteq Mail
      /\ Mail \subseteq Mail' \cup {m}
      /\ \A d \in Clients : d = c => ~Answered(d)'
  <2>1. upstream \in Seq(Messages)
    BY DEF TypeOK, Messages
  <2>2. \A type : type \in {"answer", "error"} /\ Arrives(type) =>
          /\ NoTwoAnswers'
          /\ m \in Mail /\ m.type = type
          /\ Mail' \subseteq Mail
          /\ Mail \subseteq Mail' \cup {m}
          /\ \A d \in Clients : IsAnswer(m, d) => ~Answered(d)'
    BY <2>1, Reads
  <2>3. QED
    BY <1>1, <2>2 DEF IsAnswer
<1>3. PagesAreFresh' /\ MailNamesPages'
  BY <1>1, <1>2 DEF PagesAreFresh, MailNamesPages
<1>4. c \in Clients =>
        /\ IsAnswer(m, c) /\ Answered(c)
        /\ asked[c].op = "none"
        /\ task[c].op \in Waits /\ task[c].reply = "none"
        /\ task[c].op # "createTarget" => m.target = task[c].target
  BY <1>2 DEF IsAnswer, Answered, OneCommand, AnswersFit
<1>5. \A d \in Clients : Answered(d)' => Answered(d) /\ d # c
  BY <1>2 DEF Answered
<1>6. OneCommand'
  <2>1. \A d \in Clients : asked'[d].op # "none" =>
          /\ task'[d].op \in Waits
          /\ task'[d].reply = "none"
          /\ ~Answered(d)'
          /\ task'[d].op = "createTarget" <=> asked'[d].op \in {"createTarget", "created"}
          /\ task'[d].op = "attach" <=> asked'[d].op = "attachToTarget"
          /\ task'[d].op # "createTarget" => asked'[d].target = task'[d].target
    BY <1>1, <1>4, <1>5 DEF OneCommand
  <2>2. \A d \in Clients : Answered(d)' => task'[d].op \in Waits /\ task'[d].reply = "none"
    BY <1>1, <1>5 DEF OneCommand
  <2>3. \A d \in Clients : task'[d].op \in Waits \ {"createTarget"} => task'[d].target \in Targets
    BY <1>1, <1>4 DEF OneCommand
  <2>4. QED
    BY <1>1, <2>1, <2>2, <2>3 DEF OneCommand
<1>7. AnswersFit'
  <2>1. ASSUME NEW d \in Clients, NEW k \in Mail', IsAnswer(k, d), task'[d].op # "createTarget"
        PROVE  k.target = task'[d].target
    <3>1. d # c
      BY <1>5, <2>1 DEF Answered
    <3>2. QED
      BY <1>1, <1>2, <2>1, <3>1 DEF AnswersFit
  <2>2. QED
    BY <2>1 DEF AnswersFit
<1>8. \A d \in Clients, t \in Targets : Pending(d, t)' => Pending(d, t)
  <2>1. SUFFICES ASSUME NEW d \in Clients, NEW t \in Targets, Pending(d, t)'
                 PROVE  Pending(d, t)
    OBVIOUS
  <2>2. CASE d # c
    BY <1>1, <1>2, <2>1, <2>2 DEF Pending
  <2>3. CASE d = c
    <3>1. asked'[c].op # "created"
      BY <1>1, <1>4, <2>3
    <3>2. \A k \in Mail' : ~(k.type = "answer" /\ k.client = c)
      BY <1>2, <2>3 DEF Answered, IsAnswer
    <3>3. task'[c].op = "createTarget" /\ task'[c].reply = "ok" /\ task'[c].target = t
      BY <2>1, <2>3, <3>1, <3>2 DEF Pending
    <3>4. m.type = "answer" /\ m.target = t /\ m.client = c /\ task[c].op = "createTarget"
      BY <1>1, <1>4, <2>3, <3>3 DEF IsAnswer
    <3>5. QED
      BY <1>2, <2>3, <3>4 DEF Pending
  <2>4. QED
    BY <2>2, <2>3
<1>9. OneCreator'
  <2>1. ASSUME NEW d \in Clients, NEW k \in Mail', k.type = "answer", k.client = d,
               task'[d].op = "createTarget"
        PROVE  k.target \in Targets
    BY <1>1, <1>2, <2>1 DEF OneCreator
  <2>2. ASSUME NEW d \in Clients, task'[d].op = "createTarget", task'[d].reply = "ok"
        PROVE  task'[d].target \in Targets
    <3>1. CASE d # c
      BY <1>1, <2>2, <3>1 DEF OneCreator
    <3>2. CASE d = c
      <4>1. m.type = "answer" /\ m.client = d /\ task[d].op = "createTarget"
        BY <1>1, <1>4, <2>2, <3>2 DEF IsAnswer
      <4>2. QED
        BY <1>1, <1>2, <2>2, <3>2, <4>1 DEF OneCreator
    <3>3. QED
      BY <3>1, <3>2
  <2>3. QED
    BY <1>1, <1>8, <2>1, <2>2 DEF OneCreator
<1>10. \A d \in Clients, t \in Targets : Serves(d, t)' => Serves(d, t)
  <2>1. \A d \in Clients, t \in Targets : Replaying(d, t)' => Replaying(d, t)
    <3>1. ASSUME NEW d \in Clients, NEW t \in Targets, Replaying(d, t)'
          PROVE  Replaying(d, t)
      <4>1. CASE d # c
        BY <1>1, <3>1, <4>1 DEF Replaying
      <4>2. CASE d = c
        BY <1>1, <1>4, <3>1, <4>2 DEF Replaying
      <4>3. QED
        BY <4>1, <4>2
    <3>2. QED
      BY <3>1
  <2>2. QED
    BY <1>1, <1>2, <2>1 DEF Serves, Holds, Attaching
<1>11. Affinity'
  BY <1>1, <1>8, <1>10, AffinityKept
<1>12. MarksAreMeant'
  <2>1. ASSUME NEW t \in suppress
        PROVE  \/ \E k \in Mail' : k.type = "attached" /\ k.target = t
               \/ \E d \in Clients :
                    /\ task'[d].op = "attach" /\ task'[d].target = t
                    /\ \/ asked'[d].op = "attachToTarget"
                       \/ task'[d].reply = "error"
                       \/ \E k \in Mail' : k.type = "error" /\ k.client = d
    <3>1. CASE \E k \in Mail : k.type = "attached" /\ k.target = t
      BY <1>2, <3>1
    <3>2. ASSUME NEW d \in Clients, task[d].op = "attach", task[d].target = t,
                 \/ asked[d].op = "attachToTarget"
                 \/ task[d].reply = "error"
                 \/ \E k \in Mail : k.type = "error" /\ k.client = d
          PROVE  <2>1!2
      <4>1. CASE d # c
        <5>1. \A k \in Mail : k.client = d => k # m
          BY <4>1
        <5>2. QED
          BY <1>1, <1>2, <3>2, <4>1, <5>1
      <4>2. CASE d = c
        <5>1. \E k \in Mail : k.type = "error" /\ k.client = c
          BY <1>4, <3>2, <4>2
        <5>2. m.type = "error"
          BY <1>2, <4>2, <5>1 DEF Answered, IsAnswer
        <5>3. /\ task'[d].op = "attach" /\ task'[d].target = t /\ task'[d].reply = "error"
          BY <1>1, <1>4, <3>2, <4>2, <5>2
        <5>4. QED
          BY <5>3
      <4>3. QED
        BY <4>1, <4>2
    <3>3. QED
      BY <3>1, <3>2 DEF MarksAreMeant
  <2>2. QED
    BY <1>1, <2>1 DEF MarksAreMeant
<1>13. QED
  BY <1>2, <1>3, <1>6, <1>7, <1>9, <1>11, <1>12

-----------------------------------------------------------------------------
(* Clients come and go, and their handlers run.                            *)

\* A step that moves neither Chrome's queue nor any handler, and leases no page.
LEMMA QuietSteps ==
  ASSUME IInv,
         UNCHANGED <<pc, answer, live, seen, foreign, opener, asked, upstream, task, suppress>>,
         \A t \in Targets : leases'[t] \in {leases[t], NoAgent},
         \A c \in Clients, t \in Targets :
           Serves(c, t)' => Serves(c, t) \/ leases[t] = AgentOf[c]
  PROVE  Routing'
<1> USE DEF IInv, Routing
<1>1. Mail' = Mail
  BY DEF Mail, MailOf
<1>2. PagesAreFresh' /\ NoTwoAnswers' /\ MailNamesPages'
  BY <1>1 DEF PagesAreFresh, NoTwoAnswers, OneEach, MailNamesPages
<1>3. /\ OneCommand' /\ AnswersFit' /\ OneCreator'
      /\ \A c \in Clients, t \in Targets : Pending(c, t)' <=> Pending(c, t)
  BY <1>1, CallsKept
<1>4. Affinity'
  BY <1>3, AffinityKept
<1>5. MarksAreMeant'
  BY <1>1 DEF MarksAreMeant
<1>6. QED
  BY <1>2, <1>3, <1>4, <1>5

\* A parked event's time is over, a client connects or goes, a command is forwarded.
LEMMA ClientsKeep ==
  ASSUME IInv,
         \/ \E t \in Targets : ParkExpires(t)
         \/ \E c \in Clients : Connect(c) \/ Disconnect(c)
         \/ \E c \in Clients, op \in AllCommands, t \in Targets, n \in 0..MaxSessions :
              Forward(c, op, t, n)
  PROVE  Routing'
<1>1. ASSUME \/ \E t \in Targets : ParkExpires(t)
             \/ \E c \in Clients : Connect(c)
      PROVE  Routing'
  <2>1. UNCHANGED <<leases, pc, answer, live, seen, foreign, opener, asked, upstream, task,
                    suppress, told, owner, forwards>>
    BY <1>1 DEF ParkExpires, Connect, outside, poolVars, chromeVars, pageVars, routeVars,
                viewVars
  <2>2. \A c \in Clients, t \in Targets : Serves(c, t)' => Serves(c, t)
    BY <2>1 DEF Serves, Holds, Replaying, Attaching, Mail, MailOf
  <2>3. QED
    BY <2>1, <2>2, QuietSteps
<1>2. ASSUME NEW c \in Clients, Disconnect(c) PROVE Routing'
  <2>1. /\ UNCHANGED <<leases, pc, answer, live, seen, foreign, opener, asked, upstream, task,
                       suppress, told, forwards>>
        /\ \A t \in Targets, n \in 1..MaxSessions : owner'[t][n] \in {owner[t][n], Nobody}
    BY <1>2 DEF Disconnect, outside, poolVars, chromeVars, pageVars, viewVars
  <2>2. \A d \in Clients, t \in Targets : Holds(d, t)' => Holds(d, t)
    BY <2>1, MuxTargetsAssumption DEF Holds
  <2>3. \A d \in Clients, t \in Targets : Serves(d, t)' => Serves(d, t)
    BY <2>1, <2>2 DEF Serves, Replaying, Attaching, Mail, MailOf
  <2>4. QED
    BY <2>1, <2>3, QuietSteps
<1>3. ASSUME NEW c \in Clients, NEW op \in AllCommands, NEW t \in Targets,
             NEW n \in 0..MaxSessions, Forward(c, op, t, n)
      PROVE  Routing'
  <2>1. /\ UNCHANGED <<leases, pc, answer, live, seen, foreign, opener, asked, upstream, task,
                       suppress, told, owner>>
        /\ op = "attachToTarget" => leases[t] = AgentOf[c]
        /\ forwards' = forwards \cup {[client |-> c, op |-> op, target |-> t, session |-> n]}
    BY <1>3 DEF Forward, poolVars, pageVars, muxVars, routeVars, viewVars
  <2>2. \A d \in Clients, u \in Targets : Attaching(d, u)' =>
          Attaching(d, u) \/ (op = "attachToTarget" /\ d = c /\ u = t)
    BY <2>1 DEF Attaching, Mail, MailOf
  <2>3. \A d \in Clients, u \in Targets :
          Serves(d, u)' => Serves(d, u) \/ leases[u] = AgentOf[d]
    BY <2>1, <2>2 DEF Serves, Holds, Replaying
  <2>4. QED
    BY <2>1, <2>3, QuietSteps
<1>4. QED
  BY <1>1, <1>2, <1>3

\* A handler that is not blocked goes on, or starts; it may leave a command to Chrome.
LEMMA HandlerMoves ==
  ASSUME IInv, NEW c \in Clients, ~Answered(c),
         UNCHANGED <<upstream, foreign, opener, pc, answer, live, seen>>,
         \A d \in Clients \ {c} : asked'[d] = asked[d] /\ task'[d] = task[d],
         \A d \in {c, Nobody} :
           asked'[d].op \notin {"none", "createTarget"} => asked'[d].target \in Targets,
         task'[c].op \in Waits \ {"createTarget"} => task'[c].target \in Targets,
         asked'[c].op # "none" =>
           /\ task'[c].op \in Waits /\ task'[c].reply = "none"
           /\ task'[c].op = "createTarget" <=> asked'[c].op = "createTarget"
           /\ task'[c].op = "attach" <=> asked'[c].op = "attachToTarget"
           /\ task'[c].op # "createTarget" => asked'[c].target = task'[c].target,
         task'[c].op = "createTarget" => task'[c].reply # "ok",
         asked'[c].op # "created",
         \A t \in suppress' :
           \/ /\ task'[c].op = "attach" /\ task'[c].target = t
              /\ asked'[c].op = "attachToTarget" \/ task'[c].reply = "error"
           \/ /\ t \in suppress
              /\ ~ (/\ task[c].op = "attach" /\ task[c].target = t
                    /\ asked[c].op = "attachToTarget" \/ task[c].reply = "error")
  PROVE  /\ PagesAreFresh' /\ OneCommand' /\ NoTwoAnswers' /\ AnswersFit' /\ OneCreator'
         /\ MailNamesPages' /\ MarksAreMeant'
         /\ Mail' = Mail
         /\ \A d \in Clients, t \in Targets : Pending(d, t)' => Pending(d, t) /\ d # c
<1> USE DEF IInv, Routing
<1>1. Mail' = Mail /\ \A d : Answered(d)' <=> Answered(d)
  BY DEF Mail, Answered
<1>2. PagesAreFresh' /\ NoTwoAnswers' /\ MailNamesPages'
  BY <1>1 DEF PagesAreFresh, NoTwoAnswers, OneEach, MailNamesPages
<1>3. OneCommand'
  <2>1. \A d \in Clients : asked'[d].op # "none" =>
          /\ task'[d].op \in Waits
          /\ task'[d].reply = "none"
          /\ ~Answered(d)'
          /\ task'[d].op = "createTarget" <=> asked'[d].op \in {"createTarget", "created"}
          /\ task'[d].op = "attach" <=> asked'[d].op = "attachToTarget"
          /\ task'[d].op # "createTarget" => asked'[d].target = task'[d].target
    BY <1>1 DEF OneCommand
  <2>2. \A d \in Clients : Answered(d)' => task'[d].op \in Waits /\ task'[d].reply = "none"
    BY <1>1 DEF OneCommand
  <2>3. \A d \in Clients : task'[d].op \in Waits \ {"createTarget"} => task'[d].target \in Targets
    BY DEF OneCommand
  <2>4. \A d \in Clients \cup {Nobody} :
          asked'[d].op \notin {"none", "createTarget"} => asked'[d].target \in Targets
    BY DEF OneCommand
  <2>5. QED
    BY <2>1, <2>2, <2>3, <2>4 DEF OneCommand
<1>4. AnswersFit'
  BY <1>1 DEF AnswersFit, Answered
<1>5. \A d \in Clients, t \in Targets : Pending(d, t)' => Pending(d, t) /\ d # c
  <2>1. \A t \in Targets : ~Pending(c, t)'
    BY <1>1 DEF Pending, Answered, IsAnswer
  <2>2. QED
    BY <1>1, <2>1 DEF Pending
<1>6. OneCreator'
  <2>1. \A d \in Clients : \A m \in Mail' :
          (m.type = "answer" /\ m.client = d /\ task'[d].op = "createTarget") =>
            m.target \in Targets
    BY <1>1 DEF OneCreator, Answered, IsAnswer
  <2>2. \A d \in Clients : task'[d].op = "createTarget" /\ task'[d].reply = "ok" =>
          task'[d].target \in Targets
    BY DEF OneCreator
  <2>3. QED
    BY <1>5, <2>1, <2>2 DEF OneCreator
<1>7. MarksAreMeant'
  <2>1. ASSUME NEW t \in suppress'
        PROVE  \/ \E m \in Mail : m.type = "attached" /\ m.target = t
               \/ \E d \in Clients :
                    /\ task'[d].op = "attach" /\ task'[d].target = t
                    /\ \/ asked'[d].op = "attachToTarget"
                       \/ task'[d].reply = "error"
                       \/ \E m \in Mail : m.type = "error" /\ m.client = d
    <3>1. CASE /\ task'[c].op = "attach" /\ task'[c].target = t
               /\ asked'[c].op = "attachToTarget" \/ task'[c].reply = "error"
      BY <3>1
    <3>2. CASE /\ t \in suppress
               /\ ~ (/\ task[c].op = "attach" /\ task[c].target = t
                     /\ asked[c].op = "attachToTarget" \/ task[c].reply = "error")
      <4>1. ASSUME NEW d \in Clients, task[d].op = "attach", task[d].target = t,
                   \/ asked[d].op = "attachToTarget"
                   \/ task[d].reply = "error"
                   \/ \E m \in Mail : m.type = "error" /\ m.client = d
            PROVE  <2>1!2
        <5>1. d # c
          BY <3>2, <4>1 DEF Answered, IsAnswer
        <5>2. QED
          BY <4>1, <5>1
      <4>2. QED
        BY <3>2, <4>1 DEF MarksAreMeant
    <3>3. QED
      BY <2>1, <3>1, <3>2
  <2>2. QED
    BY <1>1, <2>1 DEF MarksAreMeant
<1>8. QED
  BY <1>1, <1>2, <1>3, <1>4, <1>5, <1>6, <1>7

\* A handler whose command has been answered, or that has none, has no answer coming.
LEMMA Unblocked ==
  ASSUME IInv, NEW c \in Clients, task[c].op \notin Waits \/ task[c].reply # "none"
  PROVE  ~Answered(c) /\ asked[c].op = "none"
BY DEF IInv, Routing, OneCommand

\* What the handler of c does to its own record, and to no other.
LEMMA ReplaysDo ==
  ASSUME TypeOK, NEW c \in Clients, NEW todo, NEW granted, Replays(c, todo, granted)
  PROVE  /\ \A d \in Clients \ {c} : task'[d] = task[d]
         /\ task'[c].op \in {"replay", "idle"} /\ task'[c].todo = todo
<1> DEFINE more == [Idle EXCEPT !.op = "replay", !.todo = todo, !.granted = granted]
<1>1. more.op = "replay" /\ more.todo = todo /\ Idle.op = "idle" /\ Idle.todo = {}
  BY DEF Idle
<1>2. \/ task' = [task EXCEPT ![c] = more]
      \/ todo = {} /\ task' = [task EXCEPT ![c] = Idle]
  BY DEF Replays
<1> HIDE DEF more
<1>3. \A r : task' = [task EXCEPT ![c] = r] =>
        task'[c] = r /\ \A d \in Clients \ {c} : task'[d] = task[d]
  BY DEF TypeOK
<1>4. QED
  BY <1>1, <1>2, <1>3

\* The handlers that replay the pages of an agent.
LEMMA ReplayKeeps ==
  ASSUME IInv, NEW c \in Clients,
         \/ StartReplay(c) \/ FallbackAttached(c) \/ FallbackDescribed(c) \/ FallbackFailed(c)
         \/ \E t \in Targets : ReplayKnown(c, t) \/ ReplayFallback(c, t)
  PROVE  Routing'
<1>1. UNCHANGED <<leases, pc, answer, live, seen, foreign, opener, upstream, forwards>>
  BY DEF StartReplay, FallbackAttached, FallbackDescribed, FallbackFailed, ReplayKnown,
         ReplayFallback, outside, poolVars, chromeVars, pageVars
<1>2. ~Answered(c) /\ asked[c].op = "none"
  BY Unblocked DEF StartReplay, FallbackAttached, FallbackDescribed, FallbackFailed,
                   ReplayKnown, ReplayFallback, Handles, Waits
<1>3. TypeOK /\ Affinity
  BY DEF IInv, Routing
<1>4. ASSUME \A d \in Clients \ {c} : asked'[d] = asked[d] /\ task'[d] = task[d],
             asked'[Nobody] = asked[Nobody],
             \/ /\ asked' = asked
                /\ task'[c].op \in {"replay", "idle"}
                /\ suppress' \subseteq suppress
                /\ \A t \in suppress' : ~(task[c].op = "attach" /\ task[c].target = t
                                            /\ task[c].reply = "error")
             \/ /\ asked'[c].op = "attachToTarget" /\ asked'[c].target = task'[c].target
                /\ task'[c].op = "attach" /\ task'[c].reply = "none"
                /\ task'[c].target \in Targets
                /\ suppress' = suppress \cup {task'[c].target}
                /\ task[c].op # "attach"
             \/ /\ asked'[c].op = "getTargetInfo" /\ asked'[c].target = task'[c].target
                /\ task'[c].op = "describe" /\ task'[c].reply = "none"
                /\ task'[c].target \in Targets
                /\ suppress' = suppress
                /\ task[c].reply # "error",
             \A d \in Clients, t \in Targets :
               Serves(d, t)' => Serves(d, t) \/ leases[t] = AgentOf[d]
      PROVE  Routing'
  <2>1. \A d \in {c, Nobody} :
          asked'[d].op \notin {"none", "createTarget"} => asked'[d].target \in Targets
    BY <1>2, <1>4 DEF IInv, Routing, OneCommand
  <2>2. /\ task'[c].op \in Waits \ {"createTarget"} => task'[c].target \in Targets
        /\ asked'[c].op # "none" =>
             /\ task'[c].op \in Waits /\ task'[c].reply = "none"
             /\ task'[c].op = "createTarget" <=> asked'[c].op = "createTarget"
             /\ task'[c].op = "attach" <=> asked'[c].op = "attachToTarget"
             /\ task'[c].op # "createTarget" => asked'[c].target = task'[c].target
        /\ task'[c].op = "createTarget" => task'[c].reply # "ok"
        /\ asked'[c].op # "created"
    BY <1>2, <1>4 DEF Waits
  <2>3. \A t \in suppress' :
           \/ /\ task'[c].op = "attach" /\ task'[c].target = t
              /\ asked'[c].op = "attachToTarget" \/ task'[c].reply = "error"
           \/ /\ t \in suppress
              /\ ~ (/\ task[c].op = "attach" /\ task[c].target = t
                    /\ asked[c].op = "attachToTarget" \/ task[c].reply = "error")
    BY <1>2, <1>4
  <2>4. /\ PagesAreFresh' /\ OneCommand' /\ NoTwoAnswers' /\ AnswersFit' /\ OneCreator'
        /\ MailNamesPages' /\ MarksAreMeant'
        /\ \A d \in Clients, t \in Targets : Pending(d, t)' => Pending(d, t) /\ d # c
    BY <1>1, <1>2, <1>4, <2>1, <2>2, <2>3, HandlerMoves
  <2>5. Affinity'
    BY <1>1, <1>3, <1>4, <2>4, AffinityKept
  <2>6. QED
    BY <2>4, <2>5 DEF Routing
<1>5. \A d, t : Attaching(d, t)' <=> Attaching(d, t)
  BY <1>1 DEF Attaching, Mail, MailOf
<1>6. \A d \in Clients, t \in Targets :
        (/\ Holds(d, t)' => Holds(d, t) \/ Replaying(d, t) \/ leases[t] = AgentOf[d]
         /\ Replaying(d, t)' => Replaying(d, t) \/ leases[t] = AgentOf[d])
          => (Serves(d, t)' => Serves(d, t) \/ leases[t] = AgentOf[d])
  BY <1>5 DEF Serves
<1>7. ASSUME StartReplay(c) PROVE Routing'
  <2>1. /\ task[c].op = "idle"
        /\ UNCHANGED <<asked, suppress, told, owner>>
        /\ Replays(c, Pool!TargetsFor(AgentOf[c]), Pool!TargetsFor(AgentOf[c]))
    BY <1>7 DEF StartReplay, Handles, outside, chromeVars, routeVars
  <2>2. /\ \A d \in Clients \ {c} : task'[d] = task[d]
        /\ task'[c].op \in {"replay", "idle"} /\ task'[c].todo = Pool!TargetsFor(AgentOf[c])
    BY <1>3, <2>1, ReplaysDo
  <2>3. \A d \in Clients, t \in Targets :
          Replaying(d, t)' => Replaying(d, t) \/ leases[t] = AgentOf[d]
    BY <2>2 DEF Replaying, Pool!TargetsFor
  <2>4. \A d \in Clients, t \in Targets : Holds(d, t)' => Holds(d, t)
    BY <2>1 DEF Holds
  <2>5. QED
    BY <1>4, <1>6, <2>1, <2>2, <2>3, <2>4
<1>8. ASSUME NEW t \in Targets, ReplayKnown(c, t) PROVE Routing'
  <2>1. /\ task[c].op = "replay" /\ t \in task[c].todo
        /\ UNCHANGED <<asked, suppress>>
        /\ Hand(c, t, table[t])
        /\ Replays(c, task[c].todo \ {t}, task[c].granted)
    BY <1>8 DEF ReplayKnown, Passes, outside, chromeVars
  <2>2. /\ \A d \in Clients \ {c} : task'[d] = task[d]
        /\ task'[c].op \in {"replay", "idle"} /\ task'[c].todo = task[c].todo \ {t}
    BY <1>3, <2>1, ReplaysDo
  <2>3. \A d \in Clients, u \in Targets : Replaying(d, u)' => Replaying(d, u)
    BY <2>2 DEF Replaying
  <2>4. \A d \in Clients, u \in Targets : Holds(d, u)' => Holds(d, u) \/ Replaying(d, u)
    BY <1>3, <2>1, HandHolds DEF Replaying
  <2>5. QED
    BY <1>4, <1>6, <2>1, <2>2, <2>3, <2>4
<1>9. ASSUME NEW t \in Targets, ReplayFallback(c, t) PROVE Routing'
  <2>1. /\ task[c].op = "replay" /\ t \in task[c].todo
        /\ suppress' = suppress \cup {t}
        /\ asked' = [asked EXCEPT ![c] = Command("attachToTarget", t)]
        /\ task' = [task EXCEPT ![c].op = "attach", ![c].target = t, ![c].reply = "none"]
        /\ UNCHANGED <<told, owner>>
    BY <1>9 DEF ReplayFallback, Asks, viewVars
  <2>2. /\ asked'[c].op = "attachToTarget" /\ asked'[c].target = t
        /\ \A d \in (Clients \cup {Nobody}) \ {c} : asked'[d] = asked[d]
    BY <1>3, <2>1 DEF TypeOK, Command
  <2>3. /\ task'[c].op = "attach" /\ task'[c].target = t /\ task'[c].reply = "none"
        /\ task'[c].todo = task[c].todo
        /\ \A d \in Clients \ {c} : task'[d] = task[d]
    BY <1>3, <2>1 DEF TypeOK
  <2>4. \A d \in Clients, u \in Targets : Replaying(d, u)' => Replaying(d, u)
    BY <2>1, <2>3 DEF Replaying
  <2>5. \A d \in Clients, u \in Targets : Holds(d, u)' => Holds(d, u)
    BY <2>1 DEF Holds
  <2>6. QED
    BY <1>4, <1>6, <2>1, <2>2, <2>3, <2>4, <2>5, MuxTargetsAssumption
<1>10. ASSUME FallbackAttached(c) PROVE Routing'
  <2>1. /\ task[c].op = "attach" /\ task[c].reply = "ok"
        /\ asked' = [asked EXCEPT ![c] = Command("getTargetInfo", task[c].target)]
        /\ task' = [task EXCEPT ![c].op = "describe", ![c].reply = "none"]
        /\ UNCHANGED <<told, owner, suppress>>
    BY <1>10 DEF FallbackAttached, Asks, viewVars, routeVars
  <2>2. /\ asked'[c].op = "getTargetInfo" /\ asked'[c].target = task[c].target
        /\ \A d \in (Clients \cup {Nobody}) \ {c} : asked'[d] = asked[d]
    BY <1>3, <2>1 DEF TypeOK, Command
  <2>3. /\ task'[c].op = "describe" /\ task'[c].target = task[c].target
        /\ task'[c].reply = "none" /\ task'[c].todo = task[c].todo
        /\ \A d \in Clients \ {c} : task'[d] = task[d]
    BY <1>3, <2>1 DEF TypeOK
  <2>4. task[c].target \in Targets
    BY <2>1 DEF IInv, Routing, OneCommand, Waits
  <2>5. \A d \in Clients, u \in Targets : Replaying(d, u)' => Replaying(d, u)
    BY <2>1, <2>3 DEF Replaying
  <2>6. \A d \in Clients, u \in Targets : Holds(d, u)' => Holds(d, u)
    BY <2>1 DEF Holds
  <2>7. QED
    BY <1>4, <1>6, <2>1, <2>2, <2>3, <2>4, <2>5, <2>6, MuxTargetsAssumption
<1>11. ASSUME FallbackDescribed(c) PROVE Routing'
  <2>1. /\ task[c].op = "describe"
        /\ UNCHANGED <<asked, suppress>>
        /\ Hand(c, task[c].target, task[c].session)
        /\ Replays(c, task[c].todo \ {task[c].target}, task[c].granted)
    BY <1>11 DEF FallbackDescribed, Passes, outside, chromeVars
  <2>2. /\ \A d \in Clients \ {c} : task'[d] = task[d]
        /\ task'[c].op \in {"replay", "idle"}
        /\ task'[c].todo = task[c].todo \ {task[c].target}
    BY <1>3, <2>1, ReplaysDo
  <2>3. task[c].target \in Targets
    BY <2>1 DEF IInv, Routing, OneCommand, Waits
  <2>4. \A d \in Clients, u \in Targets : Replaying(d, u)' => Replaying(d, u)
    BY <2>2 DEF Replaying
  <2>5. \A d \in Clients, u \in Targets : Holds(d, u)' => Holds(d, u) \/ Replaying(d, u)
    BY <1>3, <2>1, <2>3, HandHolds DEF Replaying
  <2>6. QED
    BY <1>4, <1>6, <2>1, <2>2, <2>4, <2>5
<1>12. ASSUME FallbackFailed(c) PROVE Routing'
  <2>1. /\ UNCHANGED <<asked, told, owner>>
        /\ suppress' = suppress \ {task[c].target}
        /\ Replays(c, task[c].todo \ {task[c].target}, task[c].granted)
    BY <1>12 DEF FallbackFailed, Passes, outside, chromeVars
  <2>2. /\ \A d \in Clients \ {c} : task'[d] = task[d]
        /\ task'[c].op \in {"replay", "idle"}
        /\ task'[c].todo = task[c].todo \ {task[c].target}
    BY <1>3, <2>1, ReplaysDo
  <2>3. \A d \in Clients, u \in Targets : Replaying(d, u)' => Replaying(d, u)
    BY <2>2 DEF Replaying
  <2>4. \A d \in Clients, u \in Targets : Holds(d, u)' => Holds(d, u)
    BY <2>1 DEF Holds
  <2>5. QED
    BY <1>4, <1>6, <2>1, <2>2, <2>3, <2>4
<1>13. QED
  BY <1>7, <1>8, <1>9, <1>10, <1>11, <1>12

\* The handlers of createTarget and closeTarget, and the deadline of a command.
LEMMA CreateCloseKeep ==
  ASSUME IInv, NEW c \in Clients,
         \/ StartCreate(c) \/ CreateFails(c) \/ CloseReplied(c) \/ Timeout(c)
         \/ \E t \in Targets : StartClose(c, t)
  PROVE  Routing'
<1>1. /\ UNCHANGED <<pc, answer, live, seen, foreign, opener, upstream, forwards, told, owner,
                     suppress>>
      /\ \A t \in Targets : leases'[t] \in {leases[t], NoAgent}
  <2>1. UNCHANGED <<pc, answer, live, seen, foreign, opener, upstream, forwards, told, owner,
                    suppress>>
    BY DEF StartCreate, CreateFails, CloseReplied, Timeout, StartClose, Pool!Drop,
           Pool!callVars, Pool!chromeVars, outside, poolVars, chromeVars, pageVars, routeVars,
           viewVars
  <2>2. \/ leases' = leases
        \/ leases' = [leases EXCEPT ![task[c].target] = NoAgent]
    BY DEF StartCreate, CreateFails, CloseReplied, Timeout, StartClose, Pool!Drop,
           outside, poolVars
  <2>3. QED
    BY <2>1, <2>2 DEF IInv, TypeOK, Pool!TypeOK
<1>2. ~Answered(c)
  <2>1. CASE Timeout(c)
    BY <2>1 DEF Timeout, AnswerComing, Answered, IsAnswer, Mail, MailOf
  <2>2. CASE ~Timeout(c)
    BY <2>2, Unblocked DEF StartCreate, CreateFails, CloseReplied, StartClose, CreateReply,
                           Handles, Waits
  <2>3. QED
    BY <2>1, <2>2
<1>3. TypeOK /\ Affinity
  BY DEF IInv, Routing
<1>4. ASSUME \A d \in Clients \ {c} : asked'[d] = asked[d] /\ task'[d] = task[d],
             \A d \in {c, Nobody} :
               asked'[d].op \notin {"none", "createTarget"} => asked'[d].target \in Targets,
             task'[c].op \in Waits \ {"createTarget"} => task'[c].target \in Targets,
             asked'[c].op # "none" =>
               /\ task'[c].op \in {"createTarget", "closeTarget"} /\ task'[c].reply = "none"
               /\ asked'[c].op = task'[c].op
               /\ task'[c].op # "createTarget" => asked'[c].target = task'[c].target,
             task'[c].op = "createTarget" => task'[c].reply # "ok",
             task[c].op = "attach" =>
               task'[c].op = "attach" /\ task'[c].target = task[c].target
                 /\ task'[c].reply = "error",
             \A t \in Targets : Replaying(c, t)' => Replaying(c, t)
      PROVE  Routing'
  <2>1. asked'[c].op # "none" =>
          /\ task'[c].op \in Waits /\ task'[c].reply = "none"
          /\ task'[c].op = "createTarget" <=> asked'[c].op = "createTarget"
          /\ task'[c].op = "attach" <=> asked'[c].op = "attachToTarget"
          /\ task'[c].op # "createTarget" => asked'[c].target = task'[c].target
    BY <1>4 DEF Waits
  <2>2. asked'[c].op # "created"
    BY <1>4
  <2>3. \A t \in suppress' :
           \/ /\ task'[c].op = "attach" /\ task'[c].target = t
              /\ asked'[c].op = "attachToTarget" \/ task'[c].reply = "error"
           \/ /\ t \in suppress
              /\ ~ (/\ task[c].op = "attach" /\ task[c].target = t
                    /\ asked[c].op = "attachToTarget" \/ task[c].reply = "error")
    BY <1>1, <1>4
  <2>4. /\ PagesAreFresh' /\ OneCommand' /\ NoTwoAnswers' /\ AnswersFit' /\ OneCreator'
        /\ MailNamesPages' /\ MarksAreMeant'
        /\ \A d \in Clients, t \in Targets : Pending(d, t)' => Pending(d, t) /\ d # c
    BY <1>1, <1>2, <1>4, <2>1, <2>2, <2>3, HandlerMoves
  <2>5. \A d \in Clients, t \in Targets : Serves(d, t)' => Serves(d, t)
    <3>1. \A d \in Clients, t \in Targets : Replaying(d, t)' => Replaying(d, t)
      BY <1>4 DEF Replaying
    <3>2. QED
      BY <1>1, <3>1 DEF Serves, Holds, Attaching, Mail, MailOf
  <2>6. Affinity'
    BY <1>1, <1>3, <2>4, <2>5, AffinityKept
  <2>7. QED
    BY <2>4, <2>6 DEF Routing
<1>5. \A d \in {c, Nobody} :
        asked[d].op \notin {"none", "createTarget"} => asked[d].target \in Targets
  BY DEF IInv, Routing, OneCommand
<1>6. Nobody # c
  BY MuxTargetsAssumption
<1>7. ASSUME NEW r, task' = [task EXCEPT ![c] = r]
      PROVE  task'[c] = r /\ \A d \in Clients \ {c} : task'[d] = task[d]
  BY <1>3, <1>7 DEF TypeOK
<1>8. ASSUME CreateFails(c) \/ CloseReplied(c) PROVE Routing'
  <2>1. asked' = asked /\ task[c].op # "attach" /\ task[c].reply # "none"
          /\ task' = [task EXCEPT ![c] = Idle]
    BY <1>8 DEF CreateFails, CloseReplied, CreateReply, outside, chromeVars
  <2>2. task'[c] = Idle /\ \A d \in Clients \ {c} : task'[d] = task[d]
    BY <1>7, <2>1
  <2>3. Idle.op = "idle" /\ Idle.todo = {}
    BY DEF Idle
  <2>4. asked[c].op = "none"
    BY <2>1, Unblocked
  <2>5. QED
    BY <1>4, <1>5, <2>1, <2>2, <2>3, <2>4 DEF Waits, Replaying
<1>9. ASSUME StartCreate(c) PROVE Routing'
  <2> DEFINE r == [Idle EXCEPT !.op = "createTarget"]
  <2>1. /\ task[c].op = "idle"
        /\ asked' = [asked EXCEPT ![c] = Command("createTarget", NoTarget)]
        /\ task' = [task EXCEPT ![c] = r]
    BY <1>9 DEF StartCreate, Handles, Asks
  <2>2. r.op = "createTarget" /\ r.todo = {} /\ r.reply = "none"
    BY DEF Idle
  <2> HIDE DEF r
  <2>3. task'[c] = r /\ \A d \in Clients \ {c} : task'[d] = task[d]
    BY <1>7, <2>1
  <2>4. /\ asked'[c].op = "createTarget"
        /\ \A d \in (Clients \cup {Nobody}) \ {c} : asked'[d] = asked[d]
    BY <1>3, <2>1 DEF TypeOK, Command
  <2>5. QED
    BY <1>4, <1>5, <1>6, <2>1, <2>2, <2>3, <2>4 DEF Waits, Replaying
<1>10. ASSUME NEW t \in Targets, StartClose(c, t) PROVE Routing'
  <2> DEFINE r == [Idle EXCEPT !.op = "closeTarget", !.target = t]
  <2>1. /\ task[c].op = "idle"
        /\ asked' = [asked EXCEPT ![c] = Command("closeTarget", t)]
        /\ task' = [task EXCEPT ![c] = r]
    BY <1>10 DEF StartClose, Handles, Asks
  <2>2. r.op = "closeTarget" /\ r.todo = {} /\ r.reply = "none" /\ r.target = t
    BY DEF Idle
  <2> HIDE DEF r
  <2>3. task'[c] = r /\ \A d \in Clients \ {c} : task'[d] = task[d]
    BY <1>7, <2>1
  <2>4. /\ asked'[c].op = "closeTarget" /\ asked'[c].target = t
        /\ \A d \in (Clients \cup {Nobody}) \ {c} : asked'[d] = asked[d]
    BY <1>3, <2>1 DEF TypeOK, Command
  <2>5. QED
    BY <1>4, <1>5, <1>6, <2>1, <2>2, <2>3, <2>4 DEF Waits, Replaying
<1>11. ASSUME Timeout(c) PROVE Routing'
  <2>1. /\ task[c].op \in Waits /\ task[c].reply = "none"
        /\ task' = [task EXCEPT ![c].reply = "error"]
        /\ \/ asked' = [asked EXCEPT ![c] = NoCommand]
           \/ asked' = [asked EXCEPT ![c] = NoCommand, ![Nobody] = asked[c]]
    BY <1>11 DEF Timeout, Waits
  <2>2. /\ task'[c].op = task[c].op /\ task'[c].target = task[c].target
        /\ task'[c].todo = task[c].todo /\ task'[c].reply = "error"
        /\ \A d \in Clients \ {c} : task'[d] = task[d]
    BY <1>3, <2>1 DEF TypeOK
  <2>3. /\ asked'[c] = NoCommand /\ asked'[Nobody] \in {asked[c], asked[Nobody]}
        /\ \A d \in Clients \ {c} : asked'[d] = asked[d]
    <3>1. asked \in [Clients \cup {Nobody} ->
             [op : {"none", "created", "getTargetInfo"} \cup AllCommands,
              target : Targets \cup {NoTarget}]]
      BY <1>3 DEF TypeOK
    <3>2. QED
      BY <1>6, <2>1, <3>1, MuxTargetsAssumption
  <2>4. NoCommand.op = "none"
    BY DEF NoCommand
  <2>5. task[c].op \in Waits \ {"createTarget"} => task[c].target \in Targets
    BY DEF IInv, Routing, OneCommand
  <2>6. QED
    BY <1>4, <1>5, <2>1, <2>2, <2>3, <2>4, <2>5 DEF Replaying
<1>12. QED
  BY <1>8, <1>9, <1>10, <1>11

\* The page a client created is leased to it.
LEMMA CreateAdoptsKeeps ==
  ASSUME IInv, NEW c \in Clients, CreateAdopts(c)
  PROVE  /\ Routing'
         /\ Pool!Adopt(AgentOf[c], task[c].target)
         /\ task[c].target \in foreign
<1> SUFFICES ASSUME NEW t, t = task[c].target
             PROVE  Routing' /\ Pool!Adopt(AgentOf[c], t) /\ t \in foreign
  OBVIOUS
<1>1. TypeOK /\ PagesAreFresh /\ OneCreator /\ Affinity
  BY DEF IInv, Routing
<1>2. /\ task[c].op = "createTarget" /\ task[c].reply = "ok"
      /\ UNCHANGED <<opener, upstream, forwards, asked, suppress>>
      /\ task' = [task EXCEPT ![c] = Idle]
      /\ \/ Pool!Adopt(AgentOf[c], t)
         \/ leases[t] # NoAgent
      /\ \/ Hand(c, t, parked[t])
         \/ UNCHANGED <<owner, told>>
  BY DEF CreateAdopts, CreateReply, chromeVars, pageVars
<1>3. t \in Targets /\ Pending(c, t)
  BY <1>1, <1>2 DEF Pending, OneCreator
<1>4. t \in foreign /\ t \in seen
  BY <1>1, <1>3 DEF OneCreator, PagesAreFresh
<1>5. leases[t] = NoAgent
  <2>1. PICK fam \in [Targets -> Agents \cup {NoAgent}] : Explains(fam)
    BY <1>1 DEF Affinity
  <2>2. QED
    BY <1>3, <2>1 DEF Explains
<1>6. /\ Pool!Adopt(AgentOf[c], t)
      /\ leases' = [leases EXCEPT ![t] = AgentOf[c]]
      /\ UNCHANGED <<pc, answer, live, seen, foreign>>
  BY <1>2, <1>5 DEF Pool!Adopt, Pool!Register, Pool!callVars, Pool!chromeVars
<1>7. ~Answered(c) /\ asked[c].op = "none"
  BY <1>2, Unblocked
<1>8. /\ task'[c].op = "idle" /\ task'[c].todo = {}
      /\ \A d \in Clients \ {c} : task'[d] = task[d]
  BY <1>1, <1>2 DEF TypeOK, Idle
<1>9. \A d \in {c, Nobody} :
        asked[d].op \notin {"none", "createTarget"} => asked[d].target \in Targets
  BY DEF IInv, Routing, OneCommand
<1>10. /\ PagesAreFresh' /\ OneCommand' /\ NoTwoAnswers' /\ AnswersFit' /\ OneCreator'
       /\ MailNamesPages' /\ MarksAreMeant'
       /\ \A d \in Clients, u \in Targets : Pending(d, u)' => Pending(d, u) /\ d # c
  BY <1>2, <1>6, <1>7, <1>8, <1>9, HandlerMoves DEF Waits
<1>11. \A d \in Clients, u \in Targets : Pending(d, u)' => Pending(d, u) /\ u # t
  BY <1>1, <1>3, <1>10 DEF OneCreator
<1>12. \A d \in Clients, u \in Targets : Holds(d, u)' => Holds(d, u) \/ (d = c /\ u = t)
  <2>1. CASE Hand(c, t, parked[t])
    BY <1>1, <1>3, <2>1, HandHolds
  <2>2. CASE UNCHANGED <<owner, told>>
    BY <2>2 DEF Holds
  <2>3. QED
    BY <1>2, <2>1, <2>2
<1>13. \A d \in Clients, u \in Targets : Replaying(d, u)' => Replaying(d, u)
  BY <1>8 DEF Replaying
<1>14. \A d \in Clients, u \in Targets : Attaching(d, u)' => Attaching(d, u)
  BY <1>2 DEF Attaching, Mail, MailOf
<1>15. PICK a \in Agents : a = AgentOf[c]
  BY MuxTargetsAssumption
<1>16. \A d \in Clients, u \in Targets : Serves(d, u)' =>
          \/ Serves(d, u)
          \/ u = t /\ AgentOf[d] = a
          \/ leases[u] = AgentOf[d]
  BY <1>12, <1>13, <1>14, <1>15 DEF Serves
<1>17. \A k \in Callers : pc'[k] = "created" =>
           pc[k] = "created" /\ answer'[k] = answer[k] /\ answer[k] # t
  BY <1>1, <1>4, <1>6 DEF PagesAreFresh
<1>18. leases' = [leases EXCEPT ![t] = a] /\ UNCHANGED <<seen, opener>>
  BY <1>2, <1>6, <1>15
<1>19. Affinity'
  BY <1>1, <1>3, <1>4, <1>11, <1>16, <1>17, <1>18, AffinityLeased
<1>20. QED
  BY <1>4, <1>6, <1>10, <1>19 DEF Routing

\* The callers of the pool.
LEMMA PoolKeeps ==
  ASSUME IInv, PoolStep
  PROVE  Routing'
<1>1. TypeOK /\ PagesAreFresh /\ OneCreator /\ Affinity
  BY DEF IInv, Routing
<1>2. UNCHANGED <<live, seen, foreign, opener, asked, upstream, task, suppress, told, owner,
                  forwards>>
  BY DEF PoolStep, Pool!LeaseCheck, Pool!LeaseCreated, Pool!ChromeRefuses, Pool!Release,
         Pool!chromeVars, chromeVars, pageVars, muxVars, routeVars, viewVars
<1>3. /\ NoTwoAnswers' /\ MailNamesPages' /\ Mail' = Mail
      /\ OneCommand' /\ AnswersFit' /\ OneCreator'
      /\ \A c \in Clients, t \in Targets : Pending(c, t)' <=> Pending(c, t)
  <2>1. Mail' = Mail
    BY <1>2 DEF Mail, MailOf
  <2>2. NoTwoAnswers' /\ MailNamesPages'
    BY <1>2, <2>1 DEF IInv, Routing, NoTwoAnswers, OneEach, MailNamesPages
  <2>3. QED
    BY <1>2, <2>1, <2>2, CallsKept DEF IInv, Routing
<1>4. MarksAreMeant'
  BY <1>2, <1>3 DEF IInv, Routing, MarksAreMeant
<1>5. \A c \in Clients, t \in Targets : Serves(c, t)' => Serves(c, t)
  BY <1>2, <1>3 DEF Serves, Holds, Replaying, Attaching
<1>6. ASSUME \A k \in Callers : pc'[k] = "created" =>
               pc[k] = "created" /\ answer'[k] = answer[k]
      PROVE  PagesAreFresh'
  BY <1>1, <1>2, <1>6 DEF PagesAreFresh
<1>7. ASSUME \A t \in Targets : leases'[t] \in {leases[t], NoAgent},
             \A k \in Callers : pc'[k] = "created" =>
               pc[k] = "created" /\ answer'[k] = answer[k]
      PROVE  Affinity'
  BY <1>1, <1>2, <1>3, <1>5, <1>7, AffinityKept
<1>8. ASSUME NEW k \in Callers, NEW a \in Agents, Pool!LeaseCheck(k, a)
      PROVE  PagesAreFresh' /\ Affinity'
  <2>1. /\ leases' = leases
        /\ \A l \in Callers : pc'[l] = "created" =>
             pc[l] = "created" /\ answer'[l] = answer[l]
    BY <1>1, <1>8 DEF Pool!LeaseCheck, TypeOK, Pool!TypeOK
  <2>2. QED
    BY <1>6, <1>7, <2>1
<1>9. ASSUME NEW k \in Callers, Pool!ChromeRefuses(k)
      PROVE  PagesAreFresh' /\ Affinity'
  <2>1. /\ leases' = leases
        /\ \A l \in Callers : pc'[l] = "created" =>
             pc[l] = "created" /\ answer'[l] = answer[l]
    BY <1>1, <1>9 DEF Pool!ChromeRefuses, TypeOK, Pool!TypeOK
  <2>2. QED
    BY <1>6, <1>7, <2>1
<1>10. ASSUME NEW t \in Targets, Pool!Release(t)
       PROVE  PagesAreFresh' /\ Affinity'
  <2>1. /\ \A u \in Targets : leases'[u] \in {leases[u], NoAgent}
        /\ pc' = pc /\ answer' = answer
    BY <1>1, <1>10 DEF Pool!Release, Pool!callVars, TypeOK, Pool!TypeOK
  <2>2. QED
    BY <1>6, <1>7, <2>1
<1>11. ASSUME NEW k \in Callers, Pool!LeaseCreated(k)
       PROVE  PagesAreFresh' /\ Affinity'
  <2>1. PICK t \in Targets : t = answer[k] /\ t \in seen /\ t \notin foreign
    BY <1>1, <1>11 DEF Pool!LeaseCreated, PagesAreFresh, TypeOK, Pool!TypeOK
  <2>2. PICK a \in Agents \cup {NoAgent} : a = asker[k]
    BY <1>1 DEF TypeOK, Pool!TypeOK
  <2>3. /\ pc[k] = "created"
        /\ leases' = [leases EXCEPT ![t] = a]
        /\ \A l \in Callers : pc'[l] = "created" =>
             l # k /\ pc[l] = "created" /\ answer'[l] = answer[l]
    BY <1>1, <1>11, <2>1, <2>2 DEF Pool!LeaseCreated, Pool!Register, TypeOK, Pool!TypeOK
  <2>4. CASE a = NoAgent
    <3>1. \A u \in Targets : leases'[u] \in {leases[u], NoAgent}
      BY <1>1, <2>3, <2>4 DEF TypeOK, Pool!TypeOK
    <3>2. QED
      BY <1>6, <1>7, <2>3, <3>1
  <2>5. CASE a \in Agents
    <3>1. \A l \in Callers : pc'[l] = "created" =>
            pc[l] = "created" /\ answer'[l] = answer[l] /\ answer[l] # t
      BY <1>1, <2>1, <2>3 DEF PagesAreFresh
    <3>2. \A c \in Clients, u \in Targets : Pending(c, u)' => Pending(c, u) /\ u # t
      BY <1>1, <1>3, <2>1 DEF OneCreator
    <3>3. \A c \in Clients, u \in Targets : Serves(c, u)' =>
            \/ Serves(c, u)
            \/ u = t /\ AgentOf[c] = a
            \/ leases[u] = AgentOf[c]
      BY <1>5
    <3>4. \E l \in Callers : pc[l] = "created" /\ answer[l] = t
      BY <2>1, <2>3
    <3>5. Affinity'
      BY <1>1, <1>2, <2>1, <2>3, <2>5, <3>1, <3>2, <3>3, <3>4, AffinityLeased
    <3>6. QED
      BY <1>6, <2>3, <3>5
  <2>6. QED
    BY <2>4, <2>5
<1>12. QED
  BY <1>3, <1>4, <1>8, <1>9, <1>10, <1>11 DEF PoolStep, Routing

-----------------------------------------------------------------------------
(* Types.                                                                  *)

Requests ==
  [op : {"none", "created", "getTargetInfo"} \cup AllCommands,
   target : Targets \cup {NoTarget}]

Tasks ==
  [op : {"idle", "replay", "attach", "describe", "createTarget", "closeTarget"},
   todo : SUBSET Targets, granted : SUBSET Targets,
   target : Targets \cup {NoTarget}, session : 0..MaxSessions,
   reply : {"none", "ok", "error"}]

\* The types of what belongs to Chrome, to the mux and to the observers.
ChromeTypes ==
  /\ opener \in [Targets -> Targets \cup {NoTarget}]
  /\ unattached \in SUBSET Targets
  /\ minted \in [Targets -> 0..MaxSessions]
  /\ attached \in [Targets -> SUBSET (1..MaxSessions)]
  /\ asked \in [Clients \cup {Nobody} -> Requests]
  /\ forwards \in SUBSET [client : Clients, op : AllCommands, target : Targets,
                          session : 0..MaxSessions]
  /\ upstream \in Seq(Messages)

ConnTypes == conns \in Seq(Clients) /\ left \in SUBSET Clients

RouteTypes ==
  /\ table \in [Targets -> 0..MaxSessions]
  /\ parked \in [Targets -> 0..MaxSessions]
  /\ suppress \in SUBSET Targets
  /\ owner \in [Targets -> [1..MaxSessions -> Clients \cup {Nobody}]]

TaskTypes == task \in [Clients -> Tasks]

ViewTypes ==
  /\ ready \in SUBSET Clients
  /\ told \in [Clients -> [Targets -> 0..2]]
  /\ creator \in [Targets -> Clients \cup {Nobody}]

Types == Pool!TypeOK /\ ChromeTypes /\ ConnTypes /\ RouteTypes /\ TaskTypes /\ ViewTypes

LEMMA TypesAreTypeOK == TypeOK <=> Types
BY DEF TypeOK, Types, ChromeTypes, ConnTypes, RouteTypes, TaskTypes, ViewTypes, Requests,
       Tasks, Messages

\* The operations of the lease table.
LEMMA PoolTypes ==
  ASSUME Pool!TypeOK,
         \/ \E a \in Agents, t \in Targets : Pool!Adopt(a, t)
         \/ \E t : Pool!Drop(t)
         \/ \E t \in Targets :
              Pool!PageOpens(t) \/ Pool!PageGone(t) \/ Pool!ChromeCloses(t) \/ Pool!Release(t)
         \/ \E k \in Callers, t \in Targets : Pool!ChromeCreates(k, t)
         \/ \E k \in Callers, a \in Agents : Pool!LeaseCheck(k, a)
         \/ \E k \in Callers : Pool!LeaseCreated(k) \/ Pool!ChromeRefuses(k)
         \/ UNCHANGED poolVars
  PROVE  Pool!TypeOK'
<1> USE DEF Pool!TypeOK, Pool!callVars, Pool!chromeVars
<1>1. ASSUME NEW a \in Agents, NEW t \in Targets, Pool!Adopt(a, t) PROVE Pool!TypeOK'
  BY <1>1 DEF Pool!Adopt, Pool!Register
<1>2. ASSUME NEW t, Pool!Drop(t) PROVE Pool!TypeOK'
  BY <1>2 DEF Pool!Drop
<1>3. ASSUME NEW t \in Targets,
             Pool!PageOpens(t) \/ Pool!PageGone(t) \/ Pool!ChromeCloses(t) \/ Pool!Release(t)
      PROVE  Pool!TypeOK'
  BY <1>3 DEF Pool!PageOpens, Pool!PageGone, Pool!ChromeCloses, Pool!Release,
         Pool!SendClose
<1>4. ASSUME NEW k \in Callers, NEW t \in Targets, Pool!ChromeCreates(k, t)
      PROVE  Pool!TypeOK'
  BY <1>4 DEF Pool!ChromeCreates
<1>5. ASSUME NEW k \in Callers, NEW a \in Agents, Pool!LeaseCheck(k, a) PROVE Pool!TypeOK'
  BY <1>5 DEF Pool!LeaseCheck
<1>6. ASSUME NEW k \in Callers, Pool!LeaseCreated(k) PROVE Pool!TypeOK'
  <2>1. asker[k] \in Agents \cup {NoAgent}
    OBVIOUS
  <2>2. leases' \in [Targets -> Agents \cup {NoAgent}]
    BY <1>6, <2>1 DEF Pool!LeaseCreated, Pool!Register
  <2>3. QED
    BY <1>6, <2>2 DEF Pool!LeaseCreated
<1>7. ASSUME NEW k \in Callers, Pool!ChromeRefuses(k) PROVE Pool!TypeOK'
  BY <1>7 DEF Pool!ChromeRefuses
<1>8. CASE UNCHANGED poolVars
  BY <1>8 DEF poolVars
<1>9. QED
  BY <1>1, <1>2, <1>3, <1>4, <1>5, <1>6, <1>7, <1>8

\* A minted session is within the bound.
LEMMA MintTypes ==
  ASSUME ChromeTypes, NEW t \in Targets, Mint(t)
  PROVE  /\ minted[t] + 1 \in 0..MaxSessions
         /\ minted' \in [Targets -> 0..MaxSessions]
         /\ attached' \in [Targets -> SUBSET (1..MaxSessions)]
<1>1. minted[t] + 1 \in 1..MaxSessions
  BY MuxTargetsAssumption DEF Mint, ChromeTypes
<1>2. QED
  BY <1>1, MuxTargetsAssumption DEF Mint, ChromeTypes

\* A client is told of a session and owns it.
LEMMA HandTypes ==
  ASSUME RouteTypes, ViewTypes, NEW c \in Clients, NEW t, NEW n, Hand(c, t, n)
  PROVE  /\ owner' \in [Targets -> [1..MaxSessions -> Clients \cup {Nobody}]]
         /\ told' \in [Clients -> [Targets -> 0..2]]
<1>1. owner' \in [Targets -> [1..MaxSessions -> Clients \cup {Nobody}]]
  <2>1. owner' = [owner EXCEPT ![t] = [owner[t] EXCEPT ![n] = c]]
    BY DEF Hand
  <2>2. QED
    BY <2>1 DEF RouteTypes
<1>2. told' \in [Clients -> [Targets -> 0..2]]
  <2>1. \A n1 \in 0..2 : Bump(n1) \in 0..2
    BY DEF Bump
  <2>2. told \in [Clients -> [Targets -> 0..2]]
    BY DEF ViewTypes
  <2>3. t \in Targets => [told[c] EXCEPT ![t] = Bump(told[c][t])] \in [Targets -> 0..2]
    BY <2>1, <2>2
  <2>4. t \notin Targets => [told[c] EXCEPT ![t] = Bump(told[c][t])] \in [Targets -> 0..2]
    BY <2>2
  <2>5. told' \in {told, [told EXCEPT ![c] = [told[c] EXCEPT ![t] = Bump(told[c][t])]]}
    BY DEF Hand
  <2>6. QED
    BY <2>2, <2>3, <2>4, <2>5
<1>3. QED
  BY <1>1, <1>2

LEMMA IdleTypes == Idle \in Tasks
BY MuxTargetsAssumption DEF Idle, Tasks

\* The steps of Chrome.
LEMMA ChromeKeepsTypes ==
  ASSUME Types, OneCommand, ChromeStep
  PROVE  Types'
<1> USE DEF Types
<1>1. ASSUME \/ \E t \in Targets : PageOpens(t)
             \/ \E k \in Callers, t \in Targets : LeaseOpensPage(k, t)
             \/ \E c \in Clients \cup {Nobody}, t \in Targets : ChromeCreates(c, t)
      PROVE  Types'
  <2>1. PICK t \in Targets, p \in live \cup {NoTarget} :
          /\ Born(t, p)
          /\ Pool!PageOpens(t) \/ \E k \in Callers : Pool!ChromeCreates(k, t)
          /\ UNCHANGED <<muxVars, viewVars, minted, attached, forwards>>
          /\ \/ asked' = asked
             \/ \E c \in Clients \cup {Nobody} :
                  asked' = [asked EXCEPT ![c] = Command("created", t)]
    BY <1>1 DEF PageOpens, LeaseOpensPage, ChromeCreates
  <2>2. Pool!TypeOK' /\ p \in Targets \cup {NoTarget}
    BY <2>1, PoolTypes DEF Pool!TypeOK
  <2>3. upstream' \in Seq(Messages)
    <3>1. Created(t) \in Messages
      BY MuxTargetsAssumption DEF Created, Message, Messages
    <3>2. QED
      BY <2>1, <3>1 DEF Born, ChromeTypes
  <2>4. asked' \in [Clients \cup {Nobody} -> Requests]
    <3>1. Command("created", t) \in Requests
      BY DEF Command, Requests
    <3>2. QED
      BY <2>1, <3>1 DEF ChromeTypes
  <2>5. ChromeTypes'
    BY <2>1, <2>2, <2>3, <2>4 DEF ChromeTypes, Born
  <2>6. QED
    BY <2>1, <2>2, <2>5 DEF muxVars, viewVars, connVars, routeVars, ConnTypes, RouteTypes,
                            TaskTypes, ViewTypes
<1>2. ASSUME NEW q, q \in Seq(Messages), upstream' = upstream \o q,
             \/ UNCHANGED poolVars
             \/ \E t \in Targets : Pool!PageGone(t) \/ Pool!ChromeCloses(t),
             UNCHANGED <<muxVars, viewVars, opener>>,
             unattached' \subseteq unattached, forwards' \subseteq forwards,
             minted' \in [Targets -> 0..MaxSessions],
             attached' \in [Targets -> SUBSET (1..MaxSessions)],
             asked' = asked \/ \E c \in Clients \cup {Nobody} : Done(c)
      PROVE  Types'
  <2>1. Pool!TypeOK'
    BY <1>2, PoolTypes
  <2>2. upstream' \in Seq(Messages)
    BY <1>2, MailOfConcat DEF ChromeTypes
  <2>3. asked' \in [Clients \cup {Nobody} -> Requests]
    <3>1. NoCommand \in Requests
      BY DEF NoCommand, Requests
    <3>2. QED
      BY <1>2, <3>1 DEF ChromeTypes, Done
  <2>4. ChromeTypes'
    BY <1>2, <2>2, <2>3 DEF ChromeTypes
  <2>5. QED
    BY <1>2, <2>1, <2>4 DEF muxVars, viewVars, connVars, routeVars, ConnTypes, RouteTypes,
                            TaskTypes, ViewTypes
<1>3. \A t \in Targets : Dies(t) =>
        attached' \in [Targets -> SUBSET (1..MaxSessions)] /\ unattached' \subseteq unattached
  BY DEF Dies, ChromeTypes
<1>4. /\ minted \in [Targets -> 0..MaxSessions]
      /\ attached \in [Targets -> SUBSET (1..MaxSessions)]
      /\ upstream \in Seq(Messages)
  BY DEF ChromeTypes
<1>5. ASSUME NEW t \in Targets, PageGone(t) \/ PoolClosesPage(t) PROVE Types'
  <2>1. Pool!PageGone(t) \/ Pool!ChromeCloses(t)
    BY <1>5 DEF PageGone, PoolClosesPage
  <2>2. /\ Dies(t) /\ upstream' = upstream \o DeathNotes(t)
        /\ UNCHANGED <<muxVars, viewVars, opener, minted, asked, forwards>>
    BY <1>5 DEF PageGone, PoolClosesPage
  <2>3. DeathNotes(t) \in Seq(Messages)
    BY DeathMail
  <2>4. minted' \in [Targets -> 0..MaxSessions] /\ forwards' \subseteq forwards
    BY <1>4, <2>2
  <2>5. QED
    BY <1>2, <1>3, <2>1, <2>2, <2>3, <2>4
<1>6. \A t \in Targets, n \in 0..MaxSessions : <<Attached(t, n)>> \in Seq(Messages)
  BY DEF Attached, Message, Messages
<1>7. ASSUME NEW t \in Targets, AutoAttach(t) PROVE Types'
  <2>1. /\ Mint(t) /\ upstream' = Append(upstream, Attached(t, minted[t] + 1))
        /\ UNCHANGED <<poolVars, muxVars, viewVars, opener, asked, forwards>>
        /\ unattached' \subseteq unattached
    BY <1>7 DEF AutoAttach
  <2>2. /\ minted[t] + 1 \in 0..MaxSessions
        /\ minted' \in [Targets -> 0..MaxSessions]
        /\ attached' \in [Targets -> SUBSET (1..MaxSessions)]
    BY <2>1, MintTypes
  <2>3. PICK a \in Messages : a = Attached(t, minted[t] + 1)
    BY <2>2 DEF Attached, Message, Messages
  <2>4. upstream' = upstream \o <<a>> /\ <<a>> \in Seq(Messages)
    BY <1>4, <2>1, <2>3, AppendIsPost
  <2>5. QED
    BY <1>2, <2>1, <2>2, <2>4
<1>8. ASSUME NEW c \in Clients \cup {Nobody},
             \/ ChromeAttaches(c) \/ ChromeDescribes(c)
             \/ ChromeAnswersCreate(c) \/ ChromeCloses(c)
      PROVE  Types'
  <2>1. PICK t \in Targets \cup {NoTarget} : t = asked[c].target
    BY DEF ChromeTypes, Requests
  <2>2. asked[c].op \notin {"none", "createTarget"} => t \in Targets
    BY <2>1 DEF OneCommand
  <2>3. Verdict(t) \in {"answer", "error"} /\ 0 \in 0..MaxSessions
    BY MuxTargetsAssumption DEF Verdict
  <2>4. \A type \in {"answer", "error"}, u \in Targets \cup {NoTarget}, n \in 0..MaxSessions :
          Answer(c, type, u, n) \in Seq(Messages)
    BY AnswerMail
  <2>5. \A q \in Seq(Messages), s \in Seq(Messages) :
          q \o s \in Seq(Messages) /\ (upstream \o q) \o s = upstream \o (q \o s)
    BY <1>4, ConcatAssociative, ConcatProperties
  <2>6. /\ Done(c) /\ forwards' = forwards
        /\ UNCHANGED <<muxVars, viewVars, opener>>
    BY <1>8 DEF ChromeAttaches, ChromeDescribes, ChromeAnswersCreate, ChromeCloses, pageVars
  <2>7. CASE ChromeAttaches(c)
    <3>1. t \in Targets /\ UNCHANGED <<poolVars, unattached>>
      BY <2>1, <2>2, <2>7 DEF ChromeAttaches, Asked
    <3>2. CASE /\ Mint(t)
               /\ upstream' = upstream \o <<Attached(t, minted[t] + 1)>>
                                       \o Answer(c, "answer", t, minted[t] + 1)
      <4>1. /\ minted[t] + 1 \in 0..MaxSessions
            /\ minted' \in [Targets -> 0..MaxSessions]
            /\ attached' \in [Targets -> SUBSET (1..MaxSessions)]
        BY <3>1, <3>2, MintTypes
      <4>2. PICK n \in 0..MaxSessions : n = minted[t] + 1
        BY <4>1
      <4>3. PICK q \in Seq(Messages), s \in Seq(Messages) :
              q = <<Attached(t, n)>> /\ s = Answer(c, "answer", t, n)
        BY <1>6, <2>4, <3>1
      <4>4. q \o s \in Seq(Messages) /\ upstream' = upstream \o (q \o s)
        BY <2>5, <3>2, <4>2, <4>3
      <4>5. QED
        BY <1>2, <2>6, <3>1, <4>1, <4>4
    <3>3. CASE /\ upstream' = upstream \o Answer(c, "error", t, 0)
               /\ UNCHANGED <<minted, attached>>
      BY <1>2, <1>4, <2>3, <2>4, <2>6, <3>1, <3>3
    <3>4. QED
      BY <2>1, <2>7, <3>2, <3>3 DEF ChromeAttaches
  <2>8. CASE ChromeDescribes(c)
    <3>1. /\ upstream' = upstream \o Answer(c, Verdict(t), t, 0)
          /\ UNCHANGED <<poolVars, minted, attached, unattached>>
      BY <2>1, <2>8 DEF ChromeDescribes, pageVars
    <3>2. QED
      BY <1>2, <1>4, <2>3, <2>4, <2>6, <3>1
  <2>9. CASE ChromeAnswersCreate(c)
    <3>1. /\ \/ upstream' = upstream \o Answer(c, "answer", t, 0)
             \/ upstream' = upstream \o Answer(c, "error", NoTarget, 0)
          /\ UNCHANGED <<poolVars, minted, attached, unattached>>
      BY <2>1, <2>9 DEF ChromeAnswersCreate, pageVars
    <3>2. QED
      BY <1>2, <1>4, <2>3, <2>4, <2>6, <3>1
  <2>10. CASE ChromeCloses(c)
    <3>1. /\ upstream' = upstream \o Answer(c, Verdict(t), t, 0) \o DeathNotes(t)
          /\ t \in Targets /\ Dies(t) /\ minted' = minted
          /\ Pool!PageGone(t) \/ UNCHANGED poolVars
      BY <2>1, <2>2, <2>10 DEF ChromeCloses, Asked
    <3>2. PICK q \in Seq(Messages), s \in Seq(Messages) :
            q = Answer(c, Verdict(t), t, 0) /\ s = DeathNotes(t)
      BY <2>3, <2>4, <3>1, DeathMail
    <3>3. q \o s \in Seq(Messages) /\ upstream' = upstream \o (q \o s)
      BY <2>5, <3>1, <3>2
    <3>4. QED
      BY <1>2, <1>3, <1>4, <2>6, <3>1, <3>3
  <2>11. QED
    BY <1>8, <2>7, <2>8, <2>9, <2>10
<1>9. ASSUME NEW f \in forwards, ChromeForwards(f) PROVE Types'
  <2>1. PICK t \in Targets, d \in Clients : t = f.target /\ d = f.client
    BY DEF ChromeTypes
  <2>2. /\ forwards' \subseteq forwards
        /\ UNCHANGED <<poolVars, muxVars, viewVars, opener, unattached, asked>>
    BY <1>9 DEF ChromeForwards
  <2>3. CASE /\ Mint(t)
             /\ upstream' = upstream \o <<Attached(t, minted[t] + 1),
                                          Message("attachAnswer", t, minted[t] + 1, d)>>
    <3>1. /\ minted[t] + 1 \in 0..MaxSessions
          /\ minted' \in [Targets -> 0..MaxSessions]
          /\ attached' \in [Targets -> SUBSET (1..MaxSessions)]
      BY <2>3, MintTypes
    <3>2. PICK a \in Messages, b \in Messages :
            /\ a = Attached(t, minted[t] + 1)
            /\ b = Message("attachAnswer", t, minted[t] + 1, d)
      BY <3>1 DEF Attached, Message, Messages
    <3>3. PICK q \in Seq(Messages) : q = <<a, b>>
      <4>1. <<a, b>> \in Seq(Messages)
        OBVIOUS
      <4>2. QED
        BY <4>1
    <3>4. upstream' = upstream \o q
      BY <2>3, <3>2, <3>3
    <3>5. QED
      BY <1>2, <2>2, <3>1, <3>4
  <2>4. CASE /\ attached' = [attached EXCEPT ![t] = @ \ {f.session}]
             /\ upstream' = Append(upstream, Detached(t))
             /\ minted' = minted
    <3>1. PICK a \in Messages : a = Detached(t)
      <4>1. Detached(t) \in Messages
        BY MuxTargetsAssumption DEF Detached, Message, Messages
      <4>2. QED
        BY <4>1
    <3>2. upstream' = upstream \o <<a>> /\ <<a>> \in Seq(Messages)
      BY <1>4, <2>4, <3>1, AppendIsPost
    <3>3. attached' \in [Targets -> SUBSET (1..MaxSessions)]
      BY <1>4, <2>4
    <3>4. QED
      BY <1>2, <1>4, <2>2, <2>4, <3>2, <3>3
  <2>5. CASE UNCHANGED <<minted, attached, upstream>>
    <3>1. upstream' = upstream \o <<>> /\ <<>> \in Seq(Messages)
      BY <1>4, <2>5
    <3>2. QED
      BY <1>2, <1>4, <2>2, <2>5, <3>1
  <2>6. QED
    BY <1>9, <2>1, <2>3, <2>4, <2>5 DEF ChromeForwards
<1>10. QED
  BY <1>1, <1>5, <1>7, <1>8, <1>9 DEF ChromeStep

\* What the mux reads.
LEMMA DeliverKeepsTypes ==
  ASSUME Types, IInv, Deliver
  PROVE  Types'
<1> USE DEF Types
<1>1. PICK m \in Messages : m = Head(upstream)
  <2>1. upstream \in Seq(Messages) /\ upstream # <<>>
    BY DEF ChromeTypes, Deliver, DeliverCreated, DeliverAttached, DeliverDetached,
           DeliverDestroyed, DeliverAnswer, DeliverAttachAnswer, Arrives
  <2>2. QED
    BY <2>1
<1>2. /\ m.target \in Targets \cup {NoTarget} /\ m.session \in 0..MaxSessions
      /\ m.client \in Clients \cup {Nobody}
  BY <1>1 DEF Messages
<1>3. ChromeTypes'
  <2>1. upstream' = Tail(upstream) /\ upstream # <<>> /\ UNCHANGED chromeVars
    BY DEF Deliver, DeliverCreated, DeliverAttached, DeliverDetached,
           DeliverDestroyed, DeliverAnswer, DeliverAttachAnswer, Arrives
  <2>2. QED
    BY <2>1 DEF ChromeTypes, chromeVars, pageVars
<1>4. ASSUME NEW type \in {"created", "attached"}, Arrives(type) PROVE m.target \in Targets
  <2>1. upstream \in Seq(Messages) /\ NoTwoAnswers /\ MailNamesPages
    BY DEF ChromeTypes, IInv, Routing
  <2>2. QED
    BY <1>1, <1>4, <2>1, Reads DEF MailNamesPages
<1>5. ASSUME NEW t \in Targets, AdoptByOpener(t) PROVE Pool!TypeOK'
  <2>1. /\ UNCHANGED <<pc, asker, answer, closing, live, seen, foreign, connected>>
        /\ \/ leases' = leases
           \/ leases[opener[t]] \in Agents /\ Pool!Adopt(leases[opener[t]], t)
    BY <1>5, InheritsKeeps
  <2>2. CASE leases' = leases
    <3>1. UNCHANGED poolVars
      BY <2>1, <2>2 DEF poolVars
    <3>2. QED
      BY <3>1, PoolTypes
  <2>3. CASE leases[opener[t]] \in Agents /\ Pool!Adopt(leases[opener[t]], t)
    BY <2>3, PoolTypes
  <2>4. QED
    BY <2>1, <2>2, <2>3
<1>6. ASSUME DeliverCreated PROVE Types'
  <2>1. Pool!TypeOK'
    BY <1>1, <1>4, <1>5, <1>6 DEF DeliverCreated
  <2>2. QED
    BY <1>3, <1>6, <2>1 DEF DeliverCreated, muxVars, viewVars, connVars, routeVars, ConnTypes,
                            RouteTypes, TaskTypes, ViewTypes
<1>7. ASSUME DeliverAttached PROVE Types'
  <2>1. m.target \in Targets /\ Pool!TypeOK'
    BY <1>1, <1>4, <1>5, <1>7 DEF DeliverAttached
  <2>2. /\ table' = [table EXCEPT ![m.target] = m.session]
        /\ parked' \in {parked, [parked EXCEPT ![m.target] = m.session]}
        /\ suppress' \subseteq suppress
        /\ UNCHANGED <<connVars, task, ready, creator>>
        /\ \/ UNCHANGED <<owner, told>>
           \/ /\ ClientFor(leases', m.target) # Nobody
              /\ Hand(ClientFor(leases', m.target), m.target, m.session)
    BY <1>1, <1>7 DEF DeliverAttached, Record
  <2>3. /\ owner' \in [Targets -> [1..MaxSessions -> Clients \cup {Nobody}]]
        /\ told' \in [Clients -> [Targets -> 0..2]]
    <3>1. CASE UNCHANGED <<owner, told>>
      BY <3>1 DEF RouteTypes, ViewTypes
    <3>2. CASE /\ ClientFor(leases', m.target) # Nobody
               /\ Hand(ClientFor(leases', m.target), m.target, m.session)
      <4>1. ClientFor(leases', m.target) \in Clients
        BY <2>1, <3>2, RoutedToItsAgent DEF ConnTypes
      <4>2. QED
        BY <3>2, <4>1, HandTypes
    <3>3. QED
      BY <2>2, <3>1, <3>2
  <2>4. RouteTypes' /\ ViewTypes'
    BY <1>2, <2>2, <2>3 DEF RouteTypes, ViewTypes
  <2>5. QED
    BY <1>3, <2>1, <2>2, <2>4 DEF connVars, ConnTypes, TaskTypes
<1>8. ASSUME DeliverDetached \/ DeliverDestroyed PROVE Types'
  <2>1. /\ table' = [table EXCEPT ![m.target] = 0]
        /\ suppress' \subseteq suppress
        /\ UNCHANGED <<poolVars, connVars, viewVars, parked, owner, task>>
    BY <1>1, <1>8 DEF DeliverDetached, DeliverDestroyed
  <2>2. 0 \in 0..MaxSessions
    BY MuxTargetsAssumption
  <2>3. RouteTypes'
    BY <2>1, <2>2 DEF RouteTypes
  <2>4. Pool!TypeOK'
    BY <2>1, PoolTypes
  <2>5. QED
    BY <1>3, <2>1, <2>3, <2>4 DEF connVars, viewVars, ConnTypes, TaskTypes, ViewTypes
<1>9. ASSUME DeliverAnswer PROVE Types'
  <2>1. PICK r, n : /\ r = IF m.type = "answer" THEN "ok" ELSE "error"
                    /\ n = IF m.session # 0 THEN m.session ELSE task[m.client].session
                    /\ task' = [task EXCEPT ![m.client].reply = r, ![m.client].session = n,
                                            ![m.client].target = m.target]
    BY <1>1, <1>9 DEF DeliverAnswer
  <2>2. UNCHANGED <<poolVars, connVars, routeVars, viewVars>>
    BY <1>9 DEF DeliverAnswer
  <2>3. task' \in [Clients -> Tasks]
    <3>1. CASE m.client \in Clients
      <4>1. task[m.client] \in Tasks
        BY <3>1 DEF TaskTypes
      <4>2. r \in {"none", "ok", "error"} /\ n \in 0..MaxSessions
        BY <1>2, <2>1, <4>1 DEF Tasks
      <4>3. [task[m.client] EXCEPT !.reply = r, !.session = n, !.target = m.target] \in Tasks
        BY <1>2, <4>1, <4>2 DEF Tasks
      <4>4. task' = [task EXCEPT ![m.client] =
                       [task[m.client] EXCEPT !.reply = r, !.session = n, !.target = m.target]]
        BY <2>1, <3>1 DEF TaskTypes
      <4>5. QED
        BY <4>3, <4>4 DEF TaskTypes
    <3>2. CASE m.client \notin Clients
      BY <2>1, <3>2 DEF TaskTypes
    <3>3. QED
      BY <3>1, <3>2
  <2>4. Pool!TypeOK'
    BY <2>2, PoolTypes
  <2>5. QED
    BY <1>3, <2>2, <2>3, <2>4 DEF connVars, routeVars, viewVars, ConnTypes, RouteTypes,
                                  TaskTypes, ViewTypes
<1>10. ASSUME DeliverAttachAnswer PROVE Types'
  <2>1. /\ owner' = [owner EXCEPT ![m.target] = [owner[m.target] EXCEPT ![m.session] = m.client]]
        /\ UNCHANGED <<poolVars, connVars, viewVars, table, parked, suppress, task>>
    BY <1>1, <1>10 DEF DeliverAttachAnswer
  <2>2. RouteTypes'
    BY <1>2, <2>1 DEF RouteTypes
  <2>3. Pool!TypeOK'
    BY <2>1, PoolTypes
  <2>4. QED
    BY <1>3, <2>1, <2>2, <2>3 DEF connVars, viewVars, ConnTypes, TaskTypes, ViewTypes
<1>11. QED
  BY <1>6, <1>7, <1>8, <1>9, <1>10 DEF Deliver

\* A handler's own record.
LEMMA TaskKeepsTypes ==
  ASSUME TaskTypes, NEW c \in Clients, NEW r \in Tasks, task' = [task EXCEPT ![c] = r]
  PROVE  TaskTypes'
BY DEF TaskTypes

LEMMA ReplaysTypes ==
  ASSUME TaskTypes, ViewTypes, NEW c \in Clients, NEW todo \in SUBSET Targets,
         NEW granted \in SUBSET Targets, Replays(c, todo, granted)
  PROVE  TaskTypes' /\ ready' \in SUBSET Clients
<1>1. [Idle EXCEPT !.op = "replay", !.todo = todo, !.granted = granted] \in Tasks
  BY IdleTypes DEF Tasks
<1>2. TaskTypes'
  BY <1>1, IdleTypes, TaskKeepsTypes DEF Replays
<1>3. ready' \in SUBSET Clients
  BY DEF Replays, ViewTypes
<1>4. QED
  BY <1>2, <1>3

\* A command for Chrome.
LEMMA AsksTypes ==
  ASSUME ChromeTypes, NEW c \in Clients \cup {Nobody}, NEW r \in Requests,
         asked' = [asked EXCEPT ![c] = r],
         UNCHANGED <<pageVars, forwards, upstream>>
  PROVE  ChromeTypes'
BY DEF ChromeTypes, pageVars

\* The connections, and the handlers of their messages.
LEMMA ClientsKeepTypes ==
  ASSUME Types, IInv, NEW c \in Clients,
         Connect(c) \/ Disconnect(c) \/ ClientSends(c) \/ Continue(c) \/ Timeout(c)
  PROVE  Types'
<1> USE DEF Types
<1> USE DEF connVars, routeVars, viewVars
<1>1. task[c] \in Tasks
  BY DEF TaskTypes
<1>2. /\ task[c].todo \in SUBSET Targets /\ task[c].granted \in SUBSET Targets
      /\ task[c].target \in Targets \cup {NoTarget} /\ task[c].session \in 0..MaxSessions
  BY <1>1 DEF Tasks
<1>3. UNCHANGED outside => Pool!TypeOK' /\ ChromeTypes'
  BY PoolTypes DEF outside, chromeVars, pageVars, ChromeTypes
<1>4. UNCHANGED poolVars => Pool!TypeOK'
  BY PoolTypes
<1>5. ASSUME Connect(c) PROVE Types'
  BY <1>3, <1>5 DEF Connect, ConnTypes, RouteTypes, TaskTypes, ViewTypes
<1>6. ASSUME Disconnect(c) PROVE Types'
  <2>1. conns' \in Seq(Clients)
    <3>1. PICK i \in DOMAIN conns :
            conns' = SubSeq(conns, 1, i - 1) \o SubSeq(conns, i + 1, Len(conns))
      BY <1>6 DEF Disconnect, Sequence!RemoveAt
    <3>2. conns \in Seq(Clients) /\ i \in 1..Len(conns)
      BY DEF ConnTypes
    <3>3. SubSeq(conns, 1, i - 1) \in Seq(Clients)
      BY <3>2
    <3>4. SubSeq(conns, i + 1, Len(conns)) \in Seq(Clients)
      BY <3>2
    <3>5. QED
      BY <3>1, <3>3, <3>4
  <2>2. owner' \in [Targets -> [1..MaxSessions -> Clients \cup {Nobody}]]
    BY <1>6 DEF Disconnect, RouteTypes
  <2>3. QED
    BY <1>3, <1>6, <2>1, <2>2 DEF Disconnect, ConnTypes, RouteTypes, TaskTypes, ViewTypes
<1>7. ASSUME StartReplay(c) PROVE Types'
  <2>1. Pool!TargetsFor(AgentOf[c]) \in SUBSET Targets
    BY DEF Pool!TargetsFor
  <2>2. TaskTypes' /\ ready' \in SUBSET Clients
    BY <1>7, <2>1, ReplaysTypes DEF StartReplay
  <2>3. QED
    BY <1>3, <1>7, <2>2 DEF StartReplay, ConnTypes, RouteTypes, ViewTypes
<1>8. ASSUME NEW t, Passes(c, t) PROVE TaskTypes' /\ ready' \in SUBSET Clients
  <2>1. task[c].todo \ {t} \in SUBSET Targets
    BY <1>2
  <2>2. QED
    BY <1>2, <1>8, <2>1, ReplaysTypes DEF Passes
<1>9. ASSUME NEW t \in Targets, ReplayKnown(c, t) PROVE Types'
  <2>1. TaskTypes' /\ ready' \in SUBSET Clients
    BY <1>8, <1>9 DEF ReplayKnown
  <2>2. /\ owner' \in [Targets -> [1..MaxSessions -> Clients \cup {Nobody}]]
        /\ told' \in [Clients -> [Targets -> 0..2]]
    BY <1>9, HandTypes DEF ReplayKnown
  <2>3. QED
    BY <1>3, <1>9, <2>1, <2>2 DEF ReplayKnown, ConnTypes, RouteTypes, ViewTypes
<1>10. ASSUME FallbackDescribed(c) PROVE Types'
  <2>1. TaskTypes' /\ ready' \in SUBSET Clients
    BY <1>8, <1>10 DEF FallbackDescribed
  <2>2. /\ owner' \in [Targets -> [1..MaxSessions -> Clients \cup {Nobody}]]
        /\ told' \in [Clients -> [Targets -> 0..2]]
    BY <1>10, HandTypes DEF FallbackDescribed
  <2>3. table' \in [Targets -> 0..MaxSessions]
    BY <1>2, <1>10 DEF FallbackDescribed, RouteTypes
  <2>4. QED
    BY <1>3, <1>10, <2>1, <2>2, <2>3 DEF FallbackDescribed, ConnTypes, RouteTypes, ViewTypes
<1>11. ASSUME FallbackFailed(c) PROVE Types'
  <2>1. TaskTypes' /\ ready' \in SUBSET Clients
    BY <1>8, <1>11 DEF FallbackFailed
  <2>2. QED
    BY <1>3, <1>11, <2>1 DEF FallbackFailed, ConnTypes, RouteTypes, ViewTypes
<1>12. ASSUME NEW t \in Targets \cup {NoTarget},
              NEW op \in AllCommands \cup {"getTargetInfo"}, Asks(c, op, t),
              NEW r \in Tasks, task' = [task EXCEPT ![c] = r],
              suppress' \in SUBSET Targets,
              UNCHANGED <<poolVars, pageVars, connVars, viewVars, forwards, upstream,
                          table, parked, owner>>
       PROVE  Types'
  <2>1. Command(op, t) \in Requests
    BY DEF Command, Requests
  <2>2. ChromeTypes'
    BY <1>12, <2>1, AsksTypes DEF Asks
  <2>3. TaskTypes'
    BY <1>12, TaskKeepsTypes
  <2>4. QED
    BY <1>4, <1>12, <2>2, <2>3 DEF ConnTypes, RouteTypes, ViewTypes
<1>13. ASSUME NEW t \in Targets, ReplayFallback(c, t) PROVE Types'
  <2>1. PICK r \in Tasks : r = [task[c] EXCEPT !.op = "attach", !.target = t, !.reply = "none"]
    <3>1. [task[c] EXCEPT !.op = "attach", !.target = t, !.reply = "none"] \in Tasks
      BY <1>1 DEF Tasks
    <3>2. QED
      BY <3>1
  <2>2. task' = [task EXCEPT ![c] = r]
    BY <1>13, <2>1 DEF ReplayFallback, TaskTypes
  <2>3. suppress' \in SUBSET Targets
    BY <1>13 DEF ReplayFallback, RouteTypes
  <2>4. QED
    BY <1>12, <1>13, <2>2, <2>3 DEF ReplayFallback, AllCommands
<1>14. ASSUME FallbackAttached(c) PROVE Types'
  <2>1. PICK r \in Tasks : r = [task[c] EXCEPT !.op = "describe", !.reply = "none"]
    <3>1. [task[c] EXCEPT !.op = "describe", !.reply = "none"] \in Tasks
      BY <1>1 DEF Tasks
    <3>2. QED
      BY <3>1
  <2>2. task' = [task EXCEPT ![c] = r]
    BY <1>14, <2>1 DEF FallbackAttached, TaskTypes
  <2>3. suppress' \in SUBSET Targets
    BY <1>14 DEF FallbackAttached, RouteTypes
  <2>4. QED
    BY <1>2, <1>12, <1>14, <2>2, <2>3 DEF FallbackAttached
<1>15. ASSUME StartCreate(c) PROVE Types'
  <2>1. PICK r \in Tasks : r = [Idle EXCEPT !.op = "createTarget"]
    <3>1. [Idle EXCEPT !.op = "createTarget"] \in Tasks
      BY IdleTypes DEF Tasks
    <3>2. QED
      BY <3>1
  <2>2. task' = [task EXCEPT ![c] = r]
    BY <1>15, <2>1 DEF StartCreate
  <2>3. suppress' \in SUBSET Targets
    BY <1>15 DEF StartCreate, RouteTypes
  <2>4. QED
    BY <1>12, <1>15, <2>2, <2>3 DEF StartCreate, AllCommands
<1>16. ASSUME NEW t \in Targets, StartClose(c, t) PROVE Types'
  <2>1. PICK r \in Tasks : r = [Idle EXCEPT !.op = "closeTarget", !.target = t]
    <3>1. [Idle EXCEPT !.op = "closeTarget", !.target = t] \in Tasks
      BY IdleTypes DEF Tasks
    <3>2. QED
      BY <3>1
  <2>2. task' = [task EXCEPT ![c] = r]
    BY <1>16, <2>1 DEF StartClose
  <2>3. suppress' \in SUBSET Targets
    BY <1>16 DEF StartClose, RouteTypes
  <2>4. QED
    BY <1>12, <1>16, <2>2, <2>3 DEF StartClose, AllCommands
<1>17. ASSUME CreateAdopts(c) PROVE Types'
  <2>1. Pool!Adopt(AgentOf[c], task[c].target) /\ task[c].target \in foreign
    BY <1>17, CreateAdoptsKeeps
  <2>2. Pool!TypeOK'
    <3>1. AgentOf[c] \in Agents /\ task[c].target \in Targets
      BY <2>1, MuxTargetsAssumption DEF Pool!TypeOK
    <3>2. QED
      BY <2>1, <3>1, PoolTypes
  <2>3. ChromeTypes'
    BY <1>17 DEF CreateAdopts, chromeVars, pageVars, ChromeTypes
  <2>4. TaskTypes'
    BY <1>17, IdleTypes, TaskKeepsTypes DEF CreateAdopts
  <2>5. /\ owner' \in [Targets -> [1..MaxSessions -> Clients \cup {Nobody}]]
        /\ told' \in [Clients -> [Targets -> 0..2]]
    <3>1. CASE UNCHANGED <<owner, told>>
      BY <3>1 DEF RouteTypes, ViewTypes
    <3>2. CASE Hand(c, task[c].target, parked[task[c].target])
      BY <3>2, HandTypes
    <3>3. QED
      BY <1>17, <3>1, <3>2 DEF CreateAdopts
  <2>6. parked' \in [Targets -> 0..MaxSessions]
    <3>1. parked' = parked \/ parked' = [parked EXCEPT ![task[c].target] = 0]
      BY <1>17 DEF CreateAdopts
    <3>2. 0 \in 0..MaxSessions /\ parked \in [Targets -> 0..MaxSessions]
      BY MuxTargetsAssumption DEF RouteTypes
    <3>3. QED
      BY <3>1, <3>2
  <2>7. creator' \in [Targets -> Clients \cup {Nobody}]
    BY <1>17 DEF CreateAdopts, ViewTypes
  <2>8. UNCHANGED <<connVars, table, suppress, ready>>
    BY <1>17 DEF CreateAdopts
  <2>9. QED
    BY <2>2, <2>3, <2>4, <2>5, <2>6, <2>7, <2>8 DEF ConnTypes, RouteTypes, ViewTypes
<1>18. ASSUME CreateFails(c) PROVE Types'
  <2>1. TaskTypes'
    BY <1>18, IdleTypes, TaskKeepsTypes DEF CreateFails
  <2>2. QED
    BY <1>3, <1>18, <2>1 DEF CreateFails, ConnTypes, RouteTypes, ViewTypes
<1>19. ASSUME CloseReplied(c) PROVE Types'
  <2>1. TaskTypes'
    BY <1>19, IdleTypes, TaskKeepsTypes DEF CloseReplied
  <2>2. Pool!TypeOK'
    <3>1. Pool!Drop(task[c].target) \/ UNCHANGED poolVars
      BY <1>19 DEF CloseReplied
    <3>2. QED
      BY <3>1, PoolTypes
  <2>3. ChromeTypes'
    BY <1>19 DEF CloseReplied, chromeVars, pageVars, ChromeTypes
  <2>4. QED
    BY <1>19, <2>1, <2>2, <2>3 DEF CloseReplied, ConnTypes, RouteTypes, ViewTypes
<1>20. ASSUME NEW op \in AllCommands, NEW t \in Targets, NEW n \in 0..MaxSessions,
              Forward(c, op, t, n)
       PROVE  Types'
  <2>1. [client |-> c, op |-> op, target |-> t, session |-> n] \in
          [client : Clients, op : AllCommands, target : Targets, session : 0..MaxSessions]
    OBVIOUS
  <2>2. ChromeTypes'
    BY <1>20, <2>1 DEF Forward, pageVars, ChromeTypes
  <2>3. QED
    BY <1>4, <1>20, <2>2 DEF Forward, muxVars, ConnTypes, RouteTypes, TaskTypes, ViewTypes
<1>21. ASSUME Timeout(c) PROVE Types'
  <2>1. PICK r \in Tasks : r = [task[c] EXCEPT !.reply = "error"]
    <3>1. [task[c] EXCEPT !.reply = "error"] \in Tasks
      BY <1>1 DEF Tasks
    <3>2. QED
      BY <3>1
  <2>2. task' = [task EXCEPT ![c] = r]
    BY <1>21, <2>1 DEF Timeout, TaskTypes
  <2>3. TaskTypes'
    BY <2>2, TaskKeepsTypes
  <2>4. asked' \in [Clients \cup {Nobody} -> Requests]
    <3>1. NoCommand \in Requests /\ asked[c] \in Requests
      BY DEF NoCommand, Requests, ChromeTypes
    <3>2. QED
      BY <1>21, <3>1 DEF Timeout, ChromeTypes
  <2>5. ChromeTypes'
    BY <1>21, <2>4 DEF Timeout, pageVars, ChromeTypes
  <2>6. QED
    BY <1>4, <1>21, <2>3, <2>5 DEF Timeout, ConnTypes, RouteTypes, ViewTypes
<1>22. QED
  BY <1>5, <1>6, <1>7, <1>9, <1>10, <1>11, <1>13, <1>14, <1>15, <1>16, <1>17, <1>18, <1>19,
     <1>20, <1>21 DEF ClientSends, Continue

\* Every step keeps the routing ...
LEMMA StepKeepsRouting ==
  ASSUME IInv, Next
  PROVE  Routing'
<1>1. CASE ChromeStep
  <2>1. ASSUME NEW k \in Callers, NEW t \in Targets, LeaseOpensPage(k, t) PROVE Routing'
    BY <2>1, BirthKeeps
  <2>2. ASSUME NEW t \in Targets,
               PageOpens(t) \/ PageGone(t) \/ PoolClosesPage(t) \/ AutoAttach(t)
        PROVE  Routing'
    BY <2>2, BirthKeeps, ChromeKeeps
  <2>3. ASSUME NEW c \in Clients \cup {Nobody},
               \/ ChromeAttaches(c) \/ ChromeDescribes(c)
               \/ ChromeAnswersCreate(c) \/ ChromeCloses(c)
        PROVE  Routing'
    BY <2>3, CommandsKeep
  <2>4. ASSUME NEW c \in Clients \cup {Nobody}, NEW t \in Targets, ChromeCreates(c, t)
        PROVE  Routing'
    BY <2>4, CreatesKeep
  <2>5. ASSUME NEW f \in forwards, ChromeForwards(f) PROVE Routing'
    BY <2>5, ChromeKeeps
  <2>6. QED
    BY <1>1, <2>1, <2>2, <2>3, <2>4, <2>5 DEF ChromeStep
<1>2. CASE Deliver
  BY <1>2, ReadsKeep, AnswerReadKeeps DEF Deliver
<1>3. CASE PoolStep
  BY <1>3, PoolKeeps
<1>4. ASSUME NEW t \in Targets, ParkExpires(t) PROVE Routing'
  BY <1>4, ClientsKeep
<1>5. ASSUME NEW c \in Clients, Connect(c) \/ Disconnect(c) PROVE Routing'
  BY <1>5, ClientsKeep
<1>6. ASSUME NEW c \in Clients, ClientSends(c) PROVE Routing'
  <2>1. ASSUME NEW op \in AllCommands, NEW t \in Targets, NEW n \in 0..MaxSessions,
               Forward(c, op, t, n)
        PROVE  Routing'
    BY <2>1, ClientsKeep
  <2>2. ASSUME \/ StartReplay(c) \/ StartCreate(c)
               \/ \E t \in Targets : StartClose(c, t)
        PROVE  Routing'
    BY <2>2, ReplayKeeps, CreateCloseKeep
  <2>3. QED
    BY <1>6, <2>1, <2>2 DEF ClientSends
<1>7. ASSUME NEW c \in Clients, Continue(c) PROVE Routing'
  BY <1>7, ReplayKeeps, CreateCloseKeep, CreateAdoptsKeeps DEF Continue
<1>8. ASSUME NEW c \in Clients, Timeout(c) PROVE Routing'
  BY <1>8, CreateCloseKeep
<1>9. QED
  BY <1>1, <1>2, <1>3, <1>4, <1>5, <1>6, <1>7, <1>8 DEF Next

\* ... and the types.
LEMMA StepKeepsTypes ==
  ASSUME IInv, Next
  PROVE  Types'
<1>1. Types
  BY TypesAreTypeOK DEF IInv
<1>2. CASE ChromeStep
  BY <1>1, <1>2, ChromeKeepsTypes DEF IInv, Routing
<1>3. CASE Deliver
  BY <1>1, <1>3, DeliverKeepsTypes
<1>4. CASE PoolStep
  <2>1. UNCHANGED <<chromeVars, muxVars, viewVars, upstream>>
    BY <1>4 DEF PoolStep
  <2>2. Pool!TypeOK'
    BY <1>1, <1>4, PoolTypes DEF PoolStep, Types
  <2>3. ChromeTypes' /\ ConnTypes' /\ RouteTypes' /\ TaskTypes' /\ ViewTypes'
    BY <1>1, <2>1 DEF Types, ChromeTypes, ConnTypes, RouteTypes, TaskTypes, ViewTypes,
                      chromeVars, pageVars, muxVars, connVars, routeVars, viewVars
  <2>4. QED
    BY <2>2, <2>3 DEF Types
<1>5. ASSUME NEW t \in Targets, ParkExpires(t) PROVE Types'
  <2>1. /\ parked' = [parked EXCEPT ![t] = 0]
        /\ UNCHANGED <<outside, connVars, table, suppress, owner, task, viewVars>>
    BY <1>5 DEF ParkExpires
  <2>2. Pool!TypeOK'
    BY <1>1, <2>1, PoolTypes DEF outside, Types
  <2>3. RouteTypes'
    <3>1. 0 \in 0..MaxSessions
      BY MuxTargetsAssumption
    <3>2. QED
      BY <1>1, <2>1, <3>1 DEF Types, RouteTypes
  <2>4. ChromeTypes' /\ ConnTypes' /\ TaskTypes' /\ ViewTypes'
    BY <1>1, <2>1 DEF Types, ChromeTypes, ConnTypes, TaskTypes, ViewTypes,
                      outside, chromeVars, pageVars, connVars, viewVars
  <2>5. QED
    BY <2>2, <2>3, <2>4 DEF Types
<1>6. ASSUME NEW c \in Clients,
             Connect(c) \/ Disconnect(c) \/ ClientSends(c) \/ Continue(c) \/ Timeout(c)
      PROVE  Types'
  BY <1>1, <1>6, ClientsKeepTypes
<1>7. QED
  BY <1>2, <1>3, <1>4, <1>5, <1>6 DEF Next

\* A step that changes nothing keeps everything.
LEMMA StutterKeeps ==
  ASSUME IInv, UNCHANGED vars
  PROVE  IInv'
<1> USE DEF vars, poolVars, chromeVars, pageVars, muxVars, connVars, routeVars, viewVars
<1>1. Types
  BY TypesAreTypeOK DEF IInv
<1>2. Types'
  <2>1. Pool!TypeOK'
    BY <1>1, PoolTypes DEF Types
  <2>2. QED
    BY <1>1, <2>1 DEF Types, ChromeTypes, ConnTypes, RouteTypes, TaskTypes, ViewTypes
<1>3. TypeOK'
  BY <1>2 DEF TypeOK, Types, ChromeTypes, ConnTypes, RouteTypes, TaskTypes, ViewTypes, Requests,
              Tasks, Messages
<1>4. PagesAreFresh' /\ OneCommand' /\ NoTwoAnswers' /\ AnswersFit' /\ MailNamesPages'
  BY DEF IInv, Routing, PagesAreFresh, OneCommand, NoTwoAnswers, OneEach, AnswersFit,
         MailNamesPages, Answered, Mail, MailOf, IsAnswer
<1>5. \A c \in Clients, t \in Targets :
        (Pending(c, t)' <=> Pending(c, t)) /\ (Serves(c, t)' <=> Serves(c, t))
  BY DEF Pending, Serves, Holds, Replaying, Attaching, Mail, MailOf
<1>6. OneCreator' /\ MarksAreMeant'
  BY <1>5 DEF IInv, Routing, OneCreator, MarksAreMeant, Mail, MailOf
<1>7. Affinity'
  <2>1. PICK fam \in [Targets -> Agents \cup {NoAgent}] : Explains(fam)
    BY DEF IInv, Routing, Affinity
  <2>2. Explains(fam)'
    BY <1>5, <2>1 DEF Explains
  <2>3. QED
    BY <2>2 DEF Affinity
<1>8. QED
  BY <1>3, <1>4, <1>6, <1>7 DEF IInv, Routing

\* At the start there is nothing to route.
LEMMA InitRoutes ==
  ASSUME Init
  PROVE  IInv
<1> USE DEF Init, Pool!Init
<1>1. TypeOK
  <2>1. Pool!TypeOK
    BY DEF Pool!TypeOK
  <2>2. ChromeTypes
    <3>1. upstream \in Seq(Messages)
      OBVIOUS
    <3>2. 0 \in 0..MaxSessions /\ NoCommand \in Requests
      BY MuxTargetsAssumption DEF NoCommand, Requests
    <3>3. QED
      BY <3>1, <3>2 DEF ChromeTypes
  <2>3. ConnTypes
    BY DEF ConnTypes
  <2>4. RouteTypes /\ ViewTypes
    <3>1. 0 \in 0..MaxSessions
      BY MuxTargetsAssumption
    <3>2. QED
      BY <3>1 DEF RouteTypes, ViewTypes
  <2>5. TaskTypes
    BY IdleTypes DEF TaskTypes
  <2>6. QED
    BY <2>1, <2>2, <2>3, <2>4, <2>5, TypesAreTypeOK DEF Types
<1>2. Mail = {} /\ \A c : ~Answered(c)
  BY DEF Mail, MailOf, Answered
<1>3. PagesAreFresh
  BY DEF PagesAreFresh
<1>4. \A c \in Clients : task[c].op = "idle" /\ task[c].todo = {} /\ task[c].reply = "none"
  BY DEF Idle
<1>5. \A c \in Clients \cup {Nobody} : asked[c].op = "none"
  BY DEF NoCommand
<1>6. OneCommand
  BY <1>2, <1>4, <1>5 DEF OneCommand, Waits
<1>7. NoTwoAnswers /\ AnswersFit /\ MailNamesPages /\ MarksAreMeant
  BY <1>2 DEF NoTwoAnswers, OneEach, AnswersFit, MailNamesPages, MarksAreMeant
<1>8. \A c \in Clients, t \in Targets : ~Pending(c, t)
  BY <1>2, <1>4, <1>5 DEF Pending
<1>9. OneCreator
  BY <1>2, <1>4, <1>8 DEF OneCreator
<1>10. \A c \in Clients, t \in Targets : ~Serves(c, t)
  <2>1. ASSUME NEW c \in Clients, NEW t \in Targets PROVE ~Holds(c, t)
    <3>1. told[c][t] = 0 /\ \A n \in 1..MaxSessions : owner[t][n] = Nobody
      OBVIOUS
    <3>2. QED
      BY <3>1, MuxTargetsAssumption DEF Holds
  <2>2. QED
    BY <1>2, <1>4, <2>1 DEF Serves, Replaying, Attaching
<1>11. Affinity
  <2>1. PICK fam \in [Targets -> Agents \cup {NoAgent}] : fam = [t \in Targets |-> NoAgent]
    OBVIOUS
  <2>2. Explains(fam)
    BY <1>8, <1>10, <2>1 DEF Explains
  <2>3. QED
    BY <2>2 DEF Affinity
<1>12. QED
  BY <1>1, <1>3, <1>6, <1>7, <1>9, <1>11 DEF IInv, Routing

LEMMA InductiveInvariant == Spec => []IInv
<1>1. Init => IInv
  BY InitRoutes
<1>2. IInv /\ [Next]_vars => IInv'
  <2> SUFFICES ASSUME IInv, [Next]_vars PROVE IInv'
    OBVIOUS
  <2>1. CASE Next
    <3>1. Routing' /\ Types'
      BY <2>1, StepKeepsRouting, StepKeepsTypes
    <3>2. TypeOK'
      BY <3>1 DEF TypeOK, Types, ChromeTypes, ConnTypes, RouteTypes, TaskTypes, ViewTypes,
                  Requests, Tasks, Messages
    <3>3. QED
      BY <3>1, <3>2 DEF IInv
  <2>2. CASE UNCHANGED vars
    BY <2>2, StutterKeeps
  <2>3. QED
    BY <2>1, <2>2
<1>3. QED
  BY <1>1, <1>2, PTL DEF Spec

-----------------------------------------------------------------------------

\* Every variable of the lease table, Chrome and the mux keeps its type.
THEOREM TypeCorrect == Spec => []TypeOK
<1>1. IInv => TypeOK
  BY DEF IInv
<1>2. QED
  BY <1>1, InductiveInvariant, PTL

\* The per-tab ACL (mux.ts:435-442, 260, 540): a client owns a session of, and is
\* told of, only pages its own agent leases or has leased last.
THEOREM AclHolds == Spec => []SessionAffinity
<1>1. IInv => SessionAffinity
  <2> SUFFICES ASSUME IInv, NEW c \in Clients, NEW t \in Targets,
                      told[c][t] > 0 \/ \E n \in 1..MaxSessions : owner[t][n] = c
               PROVE  leases[t] \in {AgentOf[c], NoAgent}
    BY DEF SessionAffinity
  <2>1. PICK fam \in [Targets -> Agents \cup {NoAgent}] : Explains(fam)
    BY DEF IInv, Routing, Affinity
  <2>2. fam[t] = AgentOf[c]
    BY <2>1 DEF Explains, Serves, Holds
  <2>3. QED
    BY <2>1, <2>2 DEF Explains
<1>2. QED
  BY <1>1, InductiveInvariant, PTL

\* Popups stay in the family (mux.ts:506-519): a page and its opener are never leased
\* to two agents.
THEOREM FamiliesStayTogether == Spec => []FamilyAffinity
<1>1. IInv => FamilyAffinity
  <2> SUFFICES ASSUME IInv, NEW t \in Targets, opener[t] # NoTarget, leases[t] # NoAgent
               PROVE  leases[opener[t]] \in {leases[t], NoAgent}
    BY DEF FamilyAffinity
  <2>1. PICK fam \in [Targets -> Agents \cup {NoAgent}] : Explains(fam)
    BY DEF IInv, Routing, Affinity
  <2>2. opener[t] \in Targets
    BY DEF IInv, TypeOK
  <2>3. leases[t] = fam[t] /\ fam[opener[t]] = fam[t]
    BY <2>1 DEF Explains
  <2>4. QED
    BY <2>1, <2>2, <2>3 DEF Explains
<1>2. QED
  BY <1>1, InductiveInvariant, PTL

\* No mark outlives its fallback and the event it waits for (mux.ts:65-66), so none
\* swallows the announcement of a later attach.
THEOREM MarksAreTaken == Spec => []SuppressionIsTransient
<1>1. IInv => SuppressionIsTransient
  <2> SUFFICES ASSUME IInv, NEW t \in suppress
               PROVE  \/ EventPending(t)
                      \/ \E c \in Clients :
                           task[c].op \in {"attach", "describe"} /\ task[c].target = t
    BY DEF SuppressionIsTransient
  <2>1. CASE \E m \in Mail : m.type = "attached" /\ m.target = t
    BY <2>1 DEF Mail, MailOf, EventPending
  <2>2. CASE \E c \in Clients : task[c].op = "attach" /\ task[c].target = t
    BY <2>2
  <2>3. QED
    BY <2>1, <2>2 DEF IInv, Routing, MarksAreMeant
<1>2. QED
  BY <1>1, InductiveInvariant, PTL

\* What the mux, its clients and REST callers do to the lease table is what the table
\* allows: each step is one of its own, or leaves it alone.  Adoption is the obligation:
\* only pages the pool did not ask for are adopted (tab-pool.ts:60-68), so that no
\* lease in the making is taken.
THEOREM PoolIsKept == Spec => PoolRefined
<1> USE DEF poolVars, Pool!vars
<1>1. Init => Pool!Init
  BY DEF Init
<1>2. ASSUME IInv, NEW t \in Targets, AdoptByOpener(t) PROVE [Pool!Next]_(Pool!vars)
  BY <1>2, InheritsKeeps DEF Pool!Next, Pool!AdoptAny
<1>3. ASSUME IInv, ChromeStep PROVE [Pool!Next]_(Pool!vars)
  <2>1. \/ \E t \in Targets : Pool!PageOpens(t) \/ Pool!PageGone(t) \/ Pool!ChromeCloses(t)
        \/ \E k \in Callers, t \in Targets : Pool!ChromeCreates(k, t)
        \/ UNCHANGED poolVars
    <3>1. ASSUME NEW c \in Clients \cup {Nobody}, ChromeCloses(c)
          PROVE  \/ \E t \in Targets : Pool!PageGone(t)
                 \/ UNCHANGED poolVars
      <4>1. asked[c].target \in Targets
        BY <1>3, <3>1 DEF IInv, Routing, OneCommand, ChromeCloses, Asked
      <4>2. QED
        BY <3>1, <4>1 DEF ChromeCloses
    <3>2. ASSUME NEW c \in Clients \cup {Nobody},
                 ChromeAttaches(c) \/ ChromeDescribes(c) \/ ChromeAnswersCreate(c)
          PROVE  UNCHANGED poolVars
      BY <3>2 DEF ChromeAttaches, ChromeDescribes, ChromeAnswersCreate
    <3>3. ASSUME NEW f \in forwards, ChromeForwards(f) PROVE UNCHANGED poolVars
      BY <3>3 DEF ChromeForwards
    <3>4. ASSUME NEW c \in Clients \cup {Nobody}, NEW t \in Targets, ChromeCreates(c, t)
          PROVE  Pool!PageOpens(t)
      BY <3>4 DEF ChromeCreates
    <3>5. ASSUME NEW k \in Callers, NEW t \in Targets, LeaseOpensPage(k, t)
          PROVE  Pool!ChromeCreates(k, t)
      BY <3>5 DEF LeaseOpensPage
    <3>6. ASSUME NEW t \in Targets,
                 PageOpens(t) \/ PageGone(t) \/ PoolClosesPage(t) \/ AutoAttach(t)
          PROVE  \/ Pool!PageOpens(t) \/ Pool!PageGone(t) \/ Pool!ChromeCloses(t)
                 \/ UNCHANGED poolVars
      BY <3>6 DEF PageOpens, PageGone, PoolClosesPage, AutoAttach
    <3>7. QED
      BY <1>3, <3>1, <3>2, <3>3, <3>4, <3>5, <3>6 DEF ChromeStep
  <2>2. QED
    BY <2>1 DEF Pool!Next
<1>4. ASSUME IInv, Deliver PROVE [Pool!Next]_(Pool!vars)
  <2>1. ASSUME NEW type \in {"created", "attached"}, Arrives(type)
        PROVE  Head(upstream).target \in Targets
    <3>1. upstream \in Seq(Messages) /\ NoTwoAnswers /\ MailNamesPages
      BY <1>4 DEF IInv, Routing, TypeOK, Messages
    <3>2. QED
      BY <2>1, <3>1, Reads DEF MailNamesPages
  <2>2. CASE DeliverCreated \/ DeliverAttached
    BY <1>2, <1>4, <2>1, <2>2 DEF DeliverCreated, DeliverAttached
  <2>3. CASE DeliverDetached \/ DeliverDestroyed \/ DeliverAnswer \/ DeliverAttachAnswer
    BY <2>3 DEF DeliverDetached, DeliverDestroyed, DeliverAnswer, DeliverAttachAnswer
  <2>4. QED
    BY <1>4, <2>2, <2>3 DEF Deliver
<1>5. ASSUME IInv, PoolStep PROVE [Pool!Next]_(Pool!vars)
  BY <1>5 DEF PoolStep, Pool!Next
<1>6. ASSUME IInv, NEW c \in Clients, Continue(c) PROVE [Pool!Next]_(Pool!vars)
  <2>1. CASE CreateAdopts(c)
    <3>1. AgentOf[c] \in Agents
      BY MuxTargetsAssumption
    <3>2. QED
      BY <1>6, <2>1, <3>1, CreateAdoptsKeeps DEF Pool!Next, Pool!AdoptAny
  <2>2. CASE CloseReplied(c)
    <3>1. task[c].target \in Targets
      BY <1>6, <2>2 DEF CloseReplied, IInv, Routing, OneCommand, Waits
    <3>2. QED
      BY <2>2, <3>1 DEF CloseReplied, Pool!Next
  <2>3. CASE \/ FallbackAttached(c) \/ FallbackDescribed(c) \/ FallbackFailed(c)
             \/ CreateFails(c)
             \/ \E t \in Targets : ReplayKnown(c, t) \/ ReplayFallback(c, t)
    BY <2>3 DEF FallbackAttached, FallbackDescribed, FallbackFailed, CreateFails, ReplayKnown,
                ReplayFallback, outside
  <2>4. QED
    BY <1>6, <2>1, <2>2, <2>3 DEF Continue
<1>7. ASSUME IInv,
             \/ \E t \in Targets : ParkExpires(t)
             \/ \E c \in Clients : Connect(c) \/ Disconnect(c) \/ ClientSends(c) \/ Timeout(c)
      PROVE  [Pool!Next]_(Pool!vars)
  <2>1. ASSUME NEW t \in Targets, ParkExpires(t) PROVE UNCHANGED poolVars
    BY <2>1 DEF ParkExpires, outside
  <2>2. ASSUME NEW c \in Clients, Connect(c) \/ Disconnect(c) \/ Timeout(c)
        PROVE  UNCHANGED poolVars
    BY <2>2 DEF Connect, Disconnect, Timeout, outside
  <2>3. ASSUME NEW c \in Clients, ClientSends(c) PROVE UNCHANGED poolVars
    BY <2>3 DEF ClientSends, StartReplay, StartCreate, StartClose, Forward, outside
  <2>4. QED
    BY <1>7, <2>1, <2>2, <2>3
<1>8. IInv /\ [Next]_vars => [Pool!Next]_(Pool!vars)
  BY <1>3, <1>4, <1>5, <1>6, <1>7 DEF Next, vars
<1>9. QED
  BY <1>1, <1>8, InductiveInvariant, PTL DEF Spec, PoolRefined, Pool!Spec

-----------------------------------------------------------------------------
(* Replays are complete, as long as deadlines do not pass before Chrome    *)
(* has answered.                                                           *)

Fallbacks == {"attach", "describe"}

\* Chrome has refused what the handler of c awaits.
Refused(c) ==
  task[c].reply = "error" \/ \E m \in Mail : m.type = "error" /\ m.client = c

\* Of the pages a replay was to announce, those it is done with have been announced
\* or are gone, and a page it was refused is gone.
Announces(c) ==
  /\ task[c].op # "idle" => Open(c) \/ c \in left
  /\ task[c].granted # {} => task[c].op \in {"replay"} \cup Fallbacks
  /\ task[c].granted \subseteq seen
  /\ \A t \in task[c].granted \ task[c].todo : Open(c) /\ t \in live => told[c][t] > 0
  /\ task[c].op \in Fallbacks /\ Refused(c) => task[c].target \notin live

Announcing == \A c \in Clients : Announces(c)

\* A replay that ends has announced what it was to announce.
Completes ==
  \A c \in Clients :
    (task[c].granted # {} /\ task'[c].op = "idle" /\ Open(c))
      => \A t \in task[c].granted \cap live : told'[c][t] > 0

\* Only pages that were there are replayed.
LEMMA ReplaysAreOfSeen ==
  ASSUME IInv, NEW c \in Clients, NEW t \in Targets, Replaying(c, t)
  PROVE  t \in seen
<1>1. PICK fam \in [Targets -> Agents \cup {NoAgent}] : Explains(fam)
  BY DEF IInv, Routing, Affinity
<1>2. fam[t] = AgentOf[c] /\ AgentOf[c] # NoAgent
  BY <1>1, MuxTargetsAssumption DEF Explains, Serves
<1> QED BY <1>1, <1>2 DEF Explains

\* A step that moves no handler.
LEMMA AnnouncesStays ==
  ASSUME IInv, Announcing, task' = task, seen \subseteq seen',
         \A t \in live' : t \in live \/ t \notin seen,
         \A c \in Clients : Open(c)' => Open(c) \/ task[c].op = "idle",
         \A c \in Clients : Open(c) \/ c \in left => Open(c)' \/ c \in left',
         \A c \in Clients, t \in Targets : told[c][t] > 0 => told'[c][t] > 0,
         \A c \in Clients, m \in Mail' :
           m.type = "error" /\ m.client = c /\ task[c].op \in Fallbacks =>
             m \in Mail \/ task[c].target \notin live
  PROVE  Announcing' /\ Completes
<1>1. Completes
  BY DEF Completes, Announcing, Announces, Fallbacks
<1>2. ASSUME NEW c \in Clients PROVE Announces(c)'
  <2>1. Announces(c) /\ task[c].granted \in SUBSET Targets
    BY DEF Announcing, IInv, TypeOK
  <2>2. task'[c] = task[c]
    OBVIOUS
  <2>3. task'[c].op # "idle" => Open(c)' \/ c \in left'
    BY <2>1, <2>2 DEF Announces
  <2>4. task'[c].granted # {} => task'[c].op \in {"replay"} \cup Fallbacks
    BY <2>1, <2>2 DEF Announces
  <2>5. task'[c].granted \subseteq seen'
    BY <2>1, <2>2 DEF Announces
  <2>6. \A t \in task'[c].granted \ task'[c].todo : Open(c)' /\ t \in live' => told'[c][t] > 0
    BY <2>1, <2>2 DEF Announces, Fallbacks
  <2>7. ASSUME task'[c].op \in Fallbacks, Refused(c)' PROVE task'[c].target \notin live'
    <3>1. task[c].target \notin live
      BY <2>1, <2>2, <2>7 DEF Announces, Refused
    <3>2. task[c].target \in Targets /\ Replaying(c, task[c].target)
      BY <2>2, <2>7 DEF IInv, Routing, OneCommand, Waits, Replaying, Fallbacks
    <3>3. task[c].target \in seen
      BY <3>2, ReplaysAreOfSeen
    <3> QED BY <2>2, <3>1, <3>3
  <2> QED BY <2>3, <2>4, <2>5, <2>6, <2>7 DEF Announces
<1> QED BY <1>1, <1>2 DEF Announcing

\* A step of the handler of c.
LEMMA AnnouncesMoves ==
  ASSUME IInv, Announcing, NEW c \in Clients,
         \A d \in Clients \ {c} : task'[d] = task[d],
         UNCHANGED <<conns, left, live, seen>>,
         \A d \in Clients, t \in Targets : told[d][t] > 0 => told'[d][t] > 0,
         \A m \in Mail' : m \in Mail,
         task[c].granted # {} /\ task'[c].op = "idle" /\ Open(c) =>
           \A t \in task[c].granted \cap live : told'[c][t] > 0,
         Announces(c)'
  PROVE  Announcing' /\ Completes
<1>1. \A d \in Clients : Open(d)' <=> Open(d)
  BY DEF Open
<1>2. Completes
  BY DEF Completes, Announcing, Announces, Fallbacks
<1>3. ASSUME NEW d \in Clients \ {c} PROVE Announces(d)'
  <2>1. Announces(d) /\ task'[d] = task[d] /\ task[d].granted \in SUBSET Targets
    BY DEF Announcing, IInv, TypeOK
  <2>2. Refused(d)' => Refused(d)
    BY <2>1 DEF Refused
  <2> QED BY <1>1, <2>1, <2>2 DEF Announces
<1> QED BY <1>2, <1>3 DEF Announcing

-----------------------------------------------------------------------------
(* What Chrome does, and what it posts about it.                           *)

BirthOf(t, s) ==
  /\ t \in Targets \ seen /\ live' = live \cup {t} /\ seen' = seen \cup {t}
  /\ unattached' = unattached \cup {t}
  /\ \A u \in Targets \ {t} : opener'[u] = opener[u]
  /\ foreign \subseteq foreign'
  /\ UNCHANGED <<minted, attached, forwards>>
  /\ \A m \in MailOf(s) : m.type = "created"
  /\ \/ asked' = asked
     \/ /\ t \in foreign' /\ opener'[t] = NoTarget
        /\ \E c \in Clients \cup {Nobody} :
             asked[c].op = "createTarget" /\ asked' = [asked EXCEPT ![c] = Command("created", t)]

DeathOf(t, s) ==
  /\ t \in Targets /\ live' = live \ {t} /\ unattached' = unattached \ {t}
  /\ attached' = [attached EXCEPT ![t] = {}]
  /\ UNCHANGED <<seen, foreign, opener, minted, forwards>>
  /\ \A m \in MailOf(s) :
       \/ m.type \in {"detached", "destroyed"} /\ m.target = t /\ (t \in live \/ attached[t] # {})
       \/ /\ m.type \in {"answer", "error"} /\ m.client \in Clients
          /\ asked[m.client].op = "closeTarget" /\ asked[m.client].target = t
          /\ m.type = "error" => t \notin live
  /\ attached[t] # {} => \E m \in MailOf(s) : m.type = "detached" /\ m.target = t
  /\ asked' = asked \/ \E c \in Clients \cup {Nobody} : asked[c].op = "closeTarget" /\ Done(c)

AttachOf(t, s) ==
  /\ t \in Targets /\ Mint(t) /\ UNCHANGED <<live, seen, foreign, opener>>
  /\ 1 \in DOMAIN s /\ s[1] = Attached(t, minted[t] + 1)
  /\ \A i \in DOMAIN s : i # 1 =>
       \/ s[i].type = "attachAnswer"
       \/ s[i].type = "answer" /\ s[i].client \in Clients /\ asked[s[i].client].op = "attachToTarget"
            /\ asked[s[i].client].target = t
  /\ \/ t \in unattached /\ unattached' = unattached \ {t} /\ UNCHANGED <<asked, forwards>>
     \/ /\ \E c \in Clients \cup {Nobody} :
             asked[c].op = "attachToTarget" /\ asked[c].target = t /\ Done(c)
        /\ t \in live /\ UNCHANGED <<unattached, forwards>>
     \/ /\ \E f \in forwards :
             f.op = "attachToTarget" /\ f.target = t /\ forwards' = forwards \ {f}
        /\ t \in live /\ UNCHANGED <<unattached, asked>>

ReplyOf(c, s) ==
  /\ c \in Clients \cup {Nobody} /\ asked[c].op \notin {"none", "closeTarget"} /\ Done(c)
  /\ UNCHANGED <<live, seen, foreign, opener, unattached, minted, attached, forwards>>
  /\ \A m \in MailOf(s) :
       /\ c \in Clients /\ m.client = c
       /\ \/ m.type = "error" /\ (asked[c].op = "createTarget" \/ asked[c].target \notin live)
          \/ m.type = "answer" /\ asked[c].op \in {"getTargetInfo", "created"} /\ asked[c].target = m.target
               /\ (asked[c].op = "getTargetInfo" => asked[c].target \in live)

ForwardOf(f, s) ==
  /\ f \in forwards /\ forwards' = forwards \ {f}
  /\ UNCHANGED <<live, seen, foreign, opener, unattached, minted, asked>>
  /\ \A m \in MailOf(s) : m.type = "detached" /\ m.target = f.target /\ f.op = "detachFromTarget"

Posting(s) ==
  /\ s \in Seq(Messages) /\ upstream' = upstream \o s
  /\ \/ \E t : BirthOf(t, s) \/ DeathOf(t, s) \/ AttachOf(t, s)
     \/ \E c : ReplyOf(c, s)
     \/ \E f : ForwardOf(f, s)

\* The news of a page that goes, if it did go.
LEMMA DeathNews ==
  ASSUME NEW t \in Targets
  PROVE  /\ attached[t] # {} => \E m \in MailOf(DeathNotes(t)) : m.type = "detached" /\ m.target = t
         /\ \A m \in MailOf(DeathNotes(t)) : t \in live \/ attached[t] # {}
<1>1. Detached(t) \in Messages /\ Destroyed(t) \in Messages
  BY MuxTargetsAssumption DEF Detached, Destroyed, Message, Messages
<1>2. <<>> \in Seq(Messages) /\ <<Detached(t)>> \in Seq(Messages)
        /\ <<Destroyed(t)>> \in Seq(Messages)
  BY <1>1
<1>3. Detached(t).type = "detached" /\ Detached(t).target = t
  BY DEF Detached, Message
<1>4. attached[t] # {} => \E m \in MailOf(DeathNotes(t)) : m.type = "detached" /\ m.target = t
  <2>1. ASSUME NEW s \in Seq(Messages)
        PROVE  Detached(t) \in MailOf(<<Detached(t)>> \o s)
    <3> DEFINE q == <<Detached(t)>>
    <3>1. q \in Seq(Messages) /\ MailOf(q) = {Detached(t)}
      BY <1>2, ShortQueues
    <3> HIDE DEF q
    <3>2. MailOf(q \o s) = MailOf(q) \cup MailOf(s)
      BY <3>1, MailOfConcat
    <3>3. Detached(t) \in MailOf(q \o s)
      BY <3>1, <3>2
    <3> QED BY <3>3 DEF q
  <2> QED BY <1>2, <1>3, <2>1 DEF DeathNotes
<1>5. t \notin live /\ attached[t] = {} => MailOf(DeathNotes(t)) = {}
  <2>1. <<>> \o <<>> = <<>>
    OBVIOUS
  <2> QED BY <2>1, ShortQueues DEF DeathNotes
<1> QED BY <1>4, <1>5

LEMMA ChromePosts ==
  ASSUME IInv, ChromeStep
  PROVE  /\ \E s : Posting(s)
         /\ UNCHANGED <<leases, conns, left, table, parked, suppress, owner, task, ready, told, creator>>
<1>1. upstream \in Seq(Messages) /\ <<>> \in Seq(Messages) /\ MailOf(<<>>) = {}
      /\ \A c \in Clients \cup {Nobody} : asked[c].target \in Targets \cup {NoTarget}
      /\ 0 \in 0..MaxSessions
  BY ShortQueues, MuxTargetsAssumption DEF IInv, TypeOK, Messages
<1>2. \A c \in Clients \cup {Nobody} :
        asked[c].op \notin {"none", "createTarget"} => asked[c].target \in Targets
  BY DEF IInv, Routing, OneCommand
<1>3. ASSUME NEW t \in Targets, NEW p, Born(t, p)
      PROVE  /\ unattached' = unattached \cup {t} /\ opener'[t] = p
             /\ \A u \in Targets \ {t} : opener'[u] = opener[u]
             /\ \E s \in Seq(Messages) : upstream' = upstream \o s /\ \A m \in MailOf(s) : m.type = "created"
  <2>1. opener \in [Targets -> Targets \cup {NoTarget}]
    BY DEF IInv, TypeOK
  <2>2. Created(t) \in Messages /\ Created(t).type = "created"
    BY MuxTargetsAssumption DEF Created, Message, Messages
  <2>3. Append(upstream, Created(t)) = upstream \o <<Created(t)>> /\ <<Created(t)>> \in Seq(Messages)
        /\ upstream = upstream \o <<>>
    BY <1>1, <2>2, AppendIsPost
  <2>4. CASE Discover
    BY <1>3, <2>1, <2>2, <2>3, <2>4, ShortQueues, ZenonT(40) DEF Born
  <2>5. CASE ~Discover
    BY <1>1, <1>3, <2>1, <2>3, <2>5 DEF Born
  <2> QED BY <2>4, <2>5
<1>4. ASSUME NEW t \in Targets, PageOpens(t) \/ \E k \in Callers : LeaseOpensPage(k, t)
      PROVE  \E s : Posting(s)
  <2>1. PICK p : Born(t, p)
    BY <1>4 DEF PageOpens, LeaseOpensPage
  <2>2. /\ t \notin seen /\ live' = live \cup {t} /\ seen' = seen \cup {t} /\ foreign \subseteq foreign'
        /\ UNCHANGED <<minted, attached, asked, forwards>>
    BY <1>4 DEF PageOpens, LeaseOpensPage, Pool!PageOpens, Pool!ChromeCreates
  <2>3. PICK s \in Seq(Messages) : upstream' = upstream \o s /\ \A m \in MailOf(s) : m.type = "created"
    BY <1>3, <2>1
  <2>4. BirthOf(t, s)
    BY <1>3, <2>1, <2>2, <2>3 DEF BirthOf
  <2> QED BY <2>3, <2>4 DEF Posting
<1>5. ASSUME NEW c \in Clients \cup {Nobody}, NEW t \in Targets, ChromeCreates(c, t)
      PROVE  \E s : Posting(s)
  <2>1. /\ Born(t, NoTarget) /\ asked[c].op = "createTarget"
        /\ t \notin seen /\ live' = live \cup {t} /\ seen' = seen \cup {t} /\ foreign' = foreign \cup {t}
        /\ asked' = [asked EXCEPT ![c] = Command("created", t)]
        /\ UNCHANGED <<minted, attached, forwards>>
    BY <1>5 DEF ChromeCreates, Pool!PageOpens, Asked
  <2>2. PICK s \in Seq(Messages) : upstream' = upstream \o s /\ \A m \in MailOf(s) : m.type = "created"
    BY <1>3, <2>1
  <2>3. BirthOf(t, s)
    BY <1>3, <2>1, <2>2 DEF BirthOf
  <2> QED BY <2>2, <2>3 DEF Posting
<1>6. ASSUME NEW t \in Targets, PageGone(t) \/ PoolClosesPage(t)
      PROVE  \E s : Posting(s)
  <2>1. /\ live' = live \ {t} /\ Dies(t) /\ upstream' = upstream \o DeathNotes(t)
        /\ UNCHANGED <<seen, foreign, opener, minted, forwards, asked>>
    BY <1>6 DEF PageGone, PoolClosesPage, Pool!PageGone, Pool!ChromeCloses
  <2>2. DeathNotes(t) \in Seq(Messages) /\ DeathOf(t, DeathNotes(t))
    BY <2>1, DeathMail, DeathNews DEF DeathOf, Dies
  <2> QED BY <2>1, <2>2 DEF Posting
<1>7. ASSUME NEW t \in Targets, Mint(t)
      PROVE  /\ minted[t] + 1 \in 0..MaxSessions
             /\ Attached(t, minted[t] + 1) \in Messages
             /\ Attached(t, minted[t] + 1).type = "attached"
  <2>1. minted[t] + 1 \in 0..MaxSessions
    BY <1>7, MuxTargetsAssumption DEF Mint, IInv, TypeOK
  <2> QED BY <2>1 DEF Attached, Message, Messages
<1>8. ASSUME NEW t \in Targets, AutoAttach(t)
      PROVE  \E s : Posting(s)
  <2> DEFINE a == Attached(t, minted[t] + 1)
  <2>1. /\ t \in unattached /\ unattached' = unattached \ {t} /\ Mint(t)
        /\ upstream' = Append(upstream, a)
        /\ UNCHANGED <<live, seen, foreign, opener, asked, forwards>>
    BY <1>8 DEF AutoAttach, poolVars
  <2>2. a \in Messages
    BY <1>7, <2>1
  <2> HIDE DEF a
  <2>3. upstream' = upstream \o <<a>> /\ <<a>> \in Seq(Messages)
    BY <1>1, <2>1, <2>2, AppendIsPost
  <2>4. DOMAIN <<a>> = {1} /\ <<a>>[1] = a
    OBVIOUS
  <2>5. AttachOf(t, <<a>>)
    BY <2>1, <2>4 DEF AttachOf, a
  <2> QED BY <2>3, <2>5 DEF Posting
<1>9. ASSUME NEW c \in Clients \cup {Nobody}, ChromeAttaches(c)
      PROVE  \E s : Posting(s)
  <2> DEFINE t == asked[c].target
             n == minted[t] + 1
             a == Attached(t, n)
  <2>1. /\ asked[c].op = "attachToTarget" /\ Done(c)
        /\ UNCHANGED <<live, seen, foreign, opener, unattached, forwards>>
        /\ \/ t \in live /\ Mint(t) /\ upstream' = upstream \o <<a>> \o Answer(c, "answer", t, n)
           \/ t \notin live /\ upstream' = upstream \o Answer(c, "error", t, 0) /\ UNCHANGED <<minted, attached>>
    BY <1>9 DEF ChromeAttaches, Asked, poolVars
  <2>2. t \in Targets
    BY <1>2, <2>1
  <2>3. Mint(t) => n \in 0..MaxSessions /\ a \in Messages
    BY <1>7, <2>2
  <2> HIDE DEF n, a
  <2>4. CASE t \in live /\ Mint(t) /\ upstream' = upstream \o <<a>> \o Answer(c, "answer", t, n)
    <3> DEFINE b == Answer(c, "answer", t, n)
    <3>1. b \in Seq(Messages)
      BY <2>2, <2>3, <2>4, AnswerMail
    <3>2. b = <<>> \/ (c \in Clients /\ b = <<Message("answer", t, n, c)>>)
      BY DEF Answer
    <3>3. Message("answer", t, n, c).type = "answer" /\ Message("answer", t, n, c).client = c
      BY DEF Message
    <3>4. upstream' = (upstream \o <<a>>) \o b
      BY <2>4
    <3> HIDE DEF b
    <3>5. <<a>> \in Seq(Messages)
      BY <2>3, <2>4
    <3>6. upstream' = upstream \o (<<a>> \o b) /\ <<a>> \o b \in Seq(Messages)
      BY <1>1, <3>1, <3>4, <3>5, ConcatAssociative
    <3>7. \A i \in DOMAIN (<<a>> \o b) : i # 1 =>
             (<<a>> \o b)[i].type = "answer" /\ (<<a>> \o b)[i].client = c /\ c \in Clients
      BY <3>2, <3>3, SMTT(30)
    <3>8. 1 \in DOMAIN (<<a>> \o b) /\ (<<a>> \o b)[1] = a
      BY <3>1
    <3>9. AttachOf(t, <<a>> \o b)
      BY <2>1, <2>2, <2>4, <3>7, <3>8 DEF AttachOf, a, n
    <3> QED BY <3>6, <3>9 DEF Posting
  <2>5. CASE t \notin live /\ upstream' = upstream \o Answer(c, "error", t, 0) /\ UNCHANGED <<minted, attached>>
    <3> DEFINE b == Answer(c, "error", t, 0)
    <3>1. /\ b \in Seq(Messages) /\ upstream' = upstream \o b
          /\ \A m \in MailOf(b) : c \in Clients /\ m.client = c /\ m.type = "error"
      BY <1>1, <2>2, <2>5, AnswerMail
    <3> HIDE DEF b
    <3>2. ReplyOf(c, b)
      BY <2>1, <2>5, <3>1 DEF ReplyOf
    <3> QED BY <3>1, <3>2 DEF Posting
  <2> QED BY <2>1, <2>4, <2>5
<1>10. ASSUME NEW c \in Clients \cup {Nobody}, ChromeDescribes(c)
       PROVE  \E s : Posting(s)
  <2> DEFINE t == asked[c].target
             v == Verdict(t)
             b == Answer(c, v, t, 0)
  <2>1. /\ asked[c].op = "getTargetInfo" /\ Done(c) /\ upstream' = upstream \o b
        /\ UNCHANGED <<live, seen, foreign, opener, unattached, minted, attached, forwards>>
    BY <1>10 DEF ChromeDescribes, Asked, poolVars, pageVars
  <2>2. v = (IF t \in live THEN "answer" ELSE "error")
    BY DEF Verdict
  <2>3. v \in {"answer", "error"} /\ t \in Targets \cup {NoTarget} /\ 0 \in 0..MaxSessions
    BY <1>1, <2>2
  <2> HIDE DEF t, v
  <2>4. /\ b \in Seq(Messages)
        /\ \A m \in MailOf(b) : c \in Clients /\ m.client = c /\ m.type = v /\ m.target = t
    BY <2>3, AnswerMail
  <2> HIDE DEF b
  <2>5. ReplyOf(c, b)
    BY <2>1, <2>2, <2>4 DEF ReplyOf, t
  <2> QED BY <2>1, <2>4, <2>5 DEF Posting
<1>11. ASSUME NEW c \in Clients \cup {Nobody}, ChromeAnswersCreate(c)
       PROVE  \E s : Posting(s)
  <2>1. /\ Done(c) /\ UNCHANGED <<live, seen, foreign, opener, unattached, minted, attached, forwards>>
        /\ \/ asked[c].op = "created" /\ upstream' = upstream \o Answer(c, "answer", asked[c].target, 0)
           \/ asked[c].op = "createTarget" /\ upstream' = upstream \o Answer(c, "error", NoTarget, 0)
    BY <1>11 DEF ChromeAnswersCreate, Asked, poolVars, pageVars
  <2>2. ASSUME NEW type \in {"answer", "error"}, NEW t \in Targets \cup {NoTarget},
               \/ type = "answer" /\ asked[c].op = "created" /\ t = asked[c].target
               \/ type = "error" /\ asked[c].op = "createTarget" /\ t = NoTarget,
               upstream' = upstream \o Answer(c, type, t, 0)
        PROVE  \E s : Posting(s)
    <3> DEFINE b == Answer(c, type, t, 0)
    <3>0. 0 \in 0..MaxSessions
      BY <1>1
    <3>1. /\ b \in Seq(Messages)
          /\ \A m \in MailOf(b) : c \in Clients /\ m.client = c /\ m.type = type /\ m.target = t
      BY <3>0, AnswerMail
    <3>2. upstream' = upstream \o b
      BY <2>2
    <3> HIDE DEF b
    <3>3. ReplyOf(c, b)
      BY <2>1, <2>2, <3>1 DEF ReplyOf
    <3> QED BY <3>1, <3>2, <3>3 DEF Posting
  <2>3. CASE asked[c].op = "created" /\ upstream' = upstream \o Answer(c, "answer", asked[c].target, 0)
    BY <1>1, <2>2, <2>3
  <2>4. CASE asked[c].op = "createTarget" /\ upstream' = upstream \o Answer(c, "error", NoTarget, 0)
    BY <2>2, <2>4
  <2> QED BY <2>1, <2>3, <2>4
<1>12. ASSUME NEW c \in Clients \cup {Nobody}, ChromeCloses(c)
       PROVE  \E s : Posting(s)
  <2> DEFINE t == asked[c].target
             v == Verdict(t)
             a == Answer(c, v, t, 0)
             b == DeathNotes(t)
  <2>1. /\ asked[c].op = "closeTarget" /\ Done(c) /\ Dies(t)
        /\ upstream' = (upstream \o a) \o b /\ live' = live \ {t}
        /\ UNCHANGED <<seen, foreign, opener, minted, forwards>>
    BY <1>12 DEF ChromeCloses, Asked, Pool!PageGone, poolVars
  <2>2. t \in Targets
    BY <1>2, <2>1
  <2>3. v = (IF t \in live THEN "answer" ELSE "error")
    BY DEF Verdict
  <2>4. /\ a \in Seq(Messages)
        /\ \A m \in MailOf(a) : c \in Clients /\ m.client = c /\ m.type = v /\ m.target = t
    <3>1. v \in {"answer", "error"} /\ t \in Targets \cup {NoTarget} /\ 0 \in 0..MaxSessions
      BY <1>1, <2>3
    <3> HIDE DEF t, v
    <3> QED BY <3>1, AnswerMail
  <2>5. /\ b \in Seq(Messages)
        /\ \A m \in MailOf(b) : m.type \in {"detached", "destroyed"} /\ m.target = t
        /\ attached[t] # {} => \E m \in MailOf(b) : m.type = "detached" /\ m.target = t
        /\ \A m \in MailOf(b) : t \in live \/ attached[t] # {}
    BY <2>2, DeathMail, DeathNews
  <2> HIDE DEF a, b, v
  <2>6. a \o b \in Seq(Messages) /\ MailOf(a \o b) = MailOf(a) \cup MailOf(b)
        /\ upstream' = upstream \o (a \o b)
    BY <1>1, <2>1, <2>4, <2>5, MailOfConcat, ConcatAssociative, SMTT(30)
  <2>7. DeathOf(t, a \o b)
    BY <2>1, <2>2, <2>3, <2>4, <2>5, <2>6 DEF DeathOf, Dies
  <2> QED BY <2>6, <2>7 DEF Posting
<1>13. ASSUME NEW f \in forwards, ChromeForwards(f)
       PROVE  \E s : Posting(s)
  <2> DEFINE t == f.target
             n == minted[t] + 1
             a == Attached(t, n)
             b == Message("attachAnswer", t, n, f.client)
  <2>1. /\ forwards' = forwards \ {f}
        /\ UNCHANGED <<live, seen, foreign, opener, unattached, asked>>
        /\ t \in Targets /\ f.client \in Clients
    BY <1>13 DEF ChromeForwards, poolVars, IInv, TypeOK
  <2>2. CASE f.op = "attachToTarget" /\ t \in live /\ Mint(t) /\ upstream' = upstream \o <<a, b>>
    <3>1. a \in Messages /\ b \in Messages /\ b.type = "attachAnswer"
      BY <1>7, <2>1, <2>2 DEF Message, Messages
    <3> HIDE DEF b, n
    <3>2. <<a, b>> \in Seq(Messages) /\ DOMAIN <<a, b>> = 1..2 /\ <<a, b>>[1] = a /\ <<a, b>>[2] = b
      BY <3>1
    <3>3. AttachOf(t, <<a, b>>)
      BY <2>1, <2>2, <3>1, <3>2 DEF AttachOf, n
    <3> QED BY <2>2, <3>2, <3>3 DEF Posting
  <2>3. CASE /\ f.op = "detachFromTarget" /\ UNCHANGED minted
             /\ upstream' = Append(upstream, Detached(t))
    <3>1. Detached(t) \in Messages /\ Detached(t).type = "detached" /\ Detached(t).target = t
      BY <2>1, MuxTargetsAssumption DEF Detached, Message, Messages
    <3>2. upstream' = upstream \o <<Detached(t)>> /\ <<Detached(t)>> \in Seq(Messages)
          /\ MailOf(<<Detached(t)>>) = {Detached(t)}
      BY <1>1, <2>3, <3>1, AppendIsPost, ShortQueues
    <3>3. ForwardOf(f, <<Detached(t)>>)
      BY <2>1, <2>3, <3>1, <3>2 DEF ForwardOf
    <3> QED BY <3>2, <3>3 DEF Posting
  <2>4. CASE UNCHANGED <<minted, attached, upstream>>
    <3>1. upstream' = upstream \o <<>>
      BY <1>1, <2>4
    <3>2. ForwardOf(f, <<>>)
      BY <1>1, <2>1, <2>4 DEF ForwardOf
    <3> QED BY <1>1, <3>1, <3>2 DEF Posting
  <2> QED BY <1>13, <2>2, <2>3, <2>4 DEF ChromeForwards
<1>14. \E s : Posting(s)
  BY <1>4, <1>5, <1>6, <1>8, <1>9, <1>10, <1>11, <1>12, <1>13 DEF ChromeStep
<1>15. leases' = leases
  BY DEF ChromeStep, LeaseOpensPage, PageOpens, PageGone, PoolClosesPage, AutoAttach, ChromeAttaches,
         ChromeDescribes, ChromeCreates, ChromeAnswersCreate, ChromeCloses, ChromeForwards, poolVars,
         Pool!PageOpens, Pool!PageGone, Pool!ChromeCloses, Pool!ChromeCreates
<1>16. UNCHANGED <<muxVars, viewVars>>
  BY DEF ChromeStep, LeaseOpensPage, PageOpens, PageGone, PoolClosesPage, AutoAttach, ChromeAttaches,
         ChromeDescribes, ChromeCreates, ChromeAnswersCreate, ChromeCloses, ChromeForwards
<1> QED BY <1>14, <1>15, <1>16 DEF muxVars, viewVars, connVars, routeVars


-----------------------------------------------------------------------------

\* c is told of t if it is connected, and nobody forgets what it was told.
LEMMA HandTells ==
  ASSUME TypeOK, NEW c \in Clients, NEW t \in Targets, NEW n, Hand(c, t, n)
  PROVE  /\ \A d \in Clients, u \in Targets : told[d][u] > 0 => told'[d][u] > 0
         /\ Open(c) => told'[c][t] > 0
<1>1. told \in [Clients -> [Targets -> 0..2]]
  BY DEF TypeOK
<1>2. told' = IF Open(c) THEN [told EXCEPT ![c][t] = Bump(told[c][t])] ELSE told
  BY DEF Hand
<1>3. Bump(told[c][t]) > 0
  BY <1>1 DEF Bump
<1> QED BY <1>1, <1>2, <1>3

\* Chrome refuses a fallback for a page that is gone, and only then.
LEMMA ChromeAnnounces ==
  ASSUME IInv, Announcing, ChromeStep
  PROVE  Announcing' /\ Completes
<1>1. PICK s : Posting(s)
  BY ChromePosts
<1>2. UNCHANGED <<conns, left, task, told>>
  BY ChromePosts
<1>3. seen \subseteq seen' /\ \A t \in live' : t \in live \/ t \notin seen
  BY <1>1 DEF Posting, BirthOf, DeathOf, AttachOf, ReplyOf, ForwardOf
<1>4. Mail' = Mail \cup MailOf(s)
  <2>1. upstream \in Seq(Messages)
    BY DEF IInv, TypeOK, Messages
  <2> QED BY <1>1, <2>1, MailOfConcat DEF Posting, Mail
<1>5. ASSUME NEW c \in Clients, NEW m \in MailOf(s), m.type = "error", m.client = c,
             task[c].op \in Fallbacks
      PROVE  task[c].target \notin live
  <2>1. asked[c].op # "none" =>
          /\ task[c].op = "createTarget" <=> asked[c].op \in {"createTarget", "created"}
          /\ task[c].op # "createTarget" => asked[c].target = task[c].target
    BY DEF IInv, Routing, OneCommand
  <2>2. task[c].op # "createTarget"
    BY <1>5 DEF Fallbacks
  <2>3. ASSUME NEW t, BirthOf(t, s) PROVE FALSE
    BY <1>5, <2>3 DEF BirthOf
  <2>4. ASSUME NEW t, DeathOf(t, s) PROVE task[c].target \notin live
    BY <1>5, <2>1, <2>2, <2>4 DEF DeathOf
  <2>5. ASSUME NEW t, AttachOf(t, s) PROVE FALSE
    <3>1. PICK i \in DOMAIN s : m = s[i]
      BY DEF MailOf
    <3>2. Attached(t, minted[t] + 1).type = "attached"
      BY DEF Attached, Message
    <3> QED BY <1>5, <2>5, <3>1, <3>2 DEF AttachOf
  <2>6. ASSUME NEW d, ReplyOf(d, s) PROVE task[c].target \notin live
    BY <1>5, <2>1, <2>2, <2>6 DEF ReplyOf
  <2>7. ASSUME NEW f, ForwardOf(f, s) PROVE FALSE
    BY <1>5, <2>7 DEF ForwardOf
  <2> QED BY <1>1, <2>3, <2>4, <2>5, <2>6, <2>7 DEF Posting
<1>6. \A c \in Clients : Open(c)' <=> Open(c)
  BY <1>2 DEF Open
<1> QED BY <1>2, <1>3, <1>4, <1>5, <1>6, AnnouncesStays

\* What is read from Chrome.
LEMMA DeliverAnnounces ==
  ASSUME IInv, Announcing, Deliver
  PROVE  Announcing' /\ Completes
<1>1. UNCHANGED <<conns, left, live, seen>>
  BY DEF Deliver, DeliverCreated, DeliverAttached, DeliverDetached, DeliverDestroyed, DeliverAnswer,
         DeliverAttachAnswer, AdoptByOpener, Pool!Adopt, Pool!chromeVars, poolVars, muxVars, connVars
<1>2. \A c \in Clients : Open(c)' <=> Open(c)
  BY <1>1 DEF Open
<1>3. upstream \in Seq(Messages) /\ NoTwoAnswers /\ MailNamesPages /\ TypeOK
  BY DEF IInv, Routing, TypeOK, Messages
<1>4. \A m \in Mail' : m \in Mail
  BY <1>3, Reads DEF Deliver, DeliverCreated, DeliverAttached, DeliverDetached, DeliverDestroyed,
                     DeliverAnswer, DeliverAttachAnswer
<1>5. ASSUME task' = task,
             \A c \in Clients, t \in Targets : told[c][t] > 0 => told'[c][t] > 0
      PROVE  Announcing' /\ Completes
  BY <1>1, <1>2, <1>4, <1>5, AnnouncesStays
<1>6. CASE DeliverCreated \/ DeliverDetached \/ DeliverDestroyed \/ DeliverAttachAnswer
  <2>1. UNCHANGED <<task, told>>
    BY <1>6 DEF DeliverCreated, DeliverDetached, DeliverDestroyed, DeliverAttachAnswer, muxVars, viewVars
  <2> QED BY <1>5, <2>1
<1>7. CASE DeliverAttached
  <2>1. Head(upstream).target \in Targets
    BY <1>3, <1>7, Reads DEF DeliverAttached, MailNamesPages
  <2>2. /\ task' = task
        /\ \/ told' = told
           \/ \E c, n : c # Nobody /\ c = ClientFor(leases', Head(upstream).target)
                          /\ Hand(c, Head(upstream).target, n)
    BY <1>7 DEF DeliverAttached
  <2>3. ASSUME NEW c, NEW n, c # Nobody, c = ClientFor(leases', Head(upstream).target),
               Hand(c, Head(upstream).target, n)
        PROVE  \A d \in Clients, u \in Targets : told[d][u] > 0 => told'[d][u] > 0
    <3>1. c \in Clients
      <4>1. conns \in Seq(Clients) /\ ClientFor(leases', Head(upstream).target) # Nobody
        BY <1>3, <2>3 DEF TypeOK
      <4> QED BY <2>1, <2>3, <4>1, RoutedToItsAgent
    <3> QED BY <1>3, <2>1, <2>3, <3>1, HandTells
  <2> QED BY <1>5, <2>2, <2>3
<1>8. CASE DeliverAnswer
  <2> SUFFICES ASSUME NEW m, m = Head(upstream), NEW c, c = m.client
               PROVE  Announcing' /\ Completes
    OBVIOUS
  <2>1. PICK r, n : /\ r = IF m.type = "answer" THEN "ok" ELSE "error"
                    /\ task' = [task EXCEPT ![c].reply = r, ![c].session = n,
                                            ![c].target = m.target]
    BY <1>8 DEF DeliverAnswer
  <2>2. told' = told
    BY <1>8 DEF DeliverAnswer, viewVars
  <2>3. task \in [Clients -> [op : {"idle", "replay", "attach", "describe", "createTarget",
                                    "closeTarget"},
                   todo : SUBSET Targets, granted : SUBSET Targets,
                   target : Targets \cup {NoTarget}, session : 0..MaxSessions,
                   reply : {"none", "ok", "error"}]]
    BY <1>3 DEF TypeOK
  <2>4. c \notin Clients => task' = task
    BY <2>1, <2>3
  <2>5. ASSUME c \in Clients PROVE Announcing' /\ Completes
    <3>1. \A d \in Clients \ {c} : task'[d] = task[d]
      BY <2>1, <2>3
    <3>2. /\ UNCHANGED <<task[c].op, task[c].todo, task[c].granted>>
          /\ task'[c].reply = r /\ task'[c].target = m.target
      BY <2>1, <2>3, <2>5
    <3>3. m \in Mail /\ m.type \in {"answer", "error"}
      BY <1>3, <1>8, Reads DEF DeliverAnswer
    <3>4. IsAnswer(m, c)
      BY <3>3 DEF IsAnswer
    <3>5. task[c].op # "createTarget" => m.target = task[c].target
      BY <2>5, <3>3, <3>4 DEF IInv, Routing, AnswersFit
    <3>6. Refused(c)' => Refused(c)
      BY <1>4, <2>1, <3>2, <3>3, SMTT(30) DEF Refused
    <3>7. Announces(c)
      BY <2>5 DEF Announcing
    <3>8. task[c].op # "idle"
      BY <2>5, <3>3, <3>4 DEF IInv, Routing, OneCommand, Answered, Waits
    <3>9. Announces(c)'
      BY <1>1, <1>2, <2>2, <2>5, <3>2, <3>5, <3>6, <3>7 DEF Announces, Fallbacks
    <3> QED BY <1>1, <1>4, <2>2, <2>5, <3>1, <3>2, <3>8, <3>9, AnnouncesMoves
  <2> QED BY <1>5, <2>2, <2>4, <2>5
<1> QED BY <1>6, <1>7, <1>8 DEF Deliver

\* Who connects is open, and who disconnects has left.
LEMMA Connects ==
  ASSUME NEW c \in Clients, Connect(c), conns \in Seq(Clients)
  PROVE  /\ ~Open(c) /\ c \notin left /\ left' = left
         /\ \A d \in Clients : Open(d)' <=> Open(d) \/ d = c
<1>1. ~Open(c) /\ c \notin left /\ conns' = Append(conns, c) /\ left' = left
  BY DEF Connect
<1>2. ASSUME NEW d \in Clients, Open(d)' PROVE Open(d) \/ d = c
  BY <1>1, <1>2 DEF Open
<1>3. ASSUME NEW d \in Clients, Open(d) PROVE Open(d)'
  BY <1>1, <1>3 DEF Open
<1>4. Open(c)'
  BY <1>1 DEF Open
<1> QED BY <1>1, <1>2, <1>3, <1>4

LEMMA Disconnects ==
  ASSUME NEW c \in Clients, Disconnect(c), conns \in Seq(Clients)
  PROVE  /\ left' = left \cup {c}
         /\ \A d \in Clients : (Open(d)' => Open(d)) /\ (Open(d) => Open(d)' \/ d = c)
<1>1. PICK i \in DOMAIN conns : conns[i] = c /\ conns' = Sequence!RemoveAt(conns, i)
  BY DEF Disconnect
<1>2. left' = left \cup {c}
  BY DEF Disconnect
<1>3. conns' = SubSeq(conns, 1, i - 1) \o SubSeq(conns, i + 1, Len(conns))
  BY <1>1 DEF Sequence!RemoveAt
<1>4. /\ DOMAIN conns = 1..Len(conns) /\ DOMAIN conns' = 1..(Len(conns) - 1)
      /\ \A j \in 1..(Len(conns) - 1) : conns'[j] = IF j < i THEN conns[j] ELSE conns[j + 1]
  <2>1. i \in 1..Len(conns) /\ Len(conns) \in Nat /\ DOMAIN conns = 1..Len(conns)
    OBVIOUS
  <2> DEFINE p == SubSeq(conns, 1, i - 1)
             q == SubSeq(conns, i + 1, Len(conns))
  <2>2. /\ p \in Seq(Clients) /\ Len(p) = i - 1 /\ \A j \in 1..(i - 1) : p[j] = conns[j]
    BY <2>1
  <2>3. /\ q \in Seq(Clients) /\ Len(q) = Len(conns) - i
        /\ \A j \in 1..(Len(conns) - i) : q[j] = conns[i + j]
    BY <2>1
  <2> HIDE DEF p, q
  <2>4. conns' = p \o q
    BY <1>3 DEF p, q
  <2>5. ASSUME NEW p1 \in Seq(Clients), NEW q1 \in Seq(Clients)
        PROVE  /\ DOMAIN (p1 \o q1) = 1..(Len(p1) + Len(q1))
               /\ \A j \in 1..(Len(p1) + Len(q1)) :
                    (p1 \o q1)[j] = IF j <= Len(p1) THEN p1[j] ELSE q1[j - Len(p1)]
    OBVIOUS
  <2>6. /\ DOMAIN conns' = 1..(Len(p) + Len(q))
        /\ \A j \in 1..(Len(p) + Len(q)) : conns'[j] = IF j <= Len(p) THEN p[j] ELSE q[j - Len(p)]
    BY <2>2, <2>3, <2>4, <2>5
  <2>7. Len(p) + Len(q) = Len(conns) - 1
    BY <2>1, <2>2, <2>3
  <2>8. ASSUME NEW j \in 1..(Len(conns) - 1)
        PROVE  conns'[j] = IF j < i THEN conns[j] ELSE conns[j + 1]
    <3>1. CASE j < i
      BY <2>1, <2>2, <2>6, <2>7, <3>1
    <3>2. CASE j >= i
      <4>1. conns'[j] = q[j - (i - 1)] /\ j - (i - 1) \in 1..(Len(conns) - i)
        BY <2>1, <2>2, <2>6, <2>7, <3>2
      <4>2. i + (j - (i - 1)) = j + 1
        BY <2>1
      <4> QED BY <2>1, <2>3, <3>2, <4>1, <4>2, SMTT(30)
    <3> QED BY <2>1, <3>1, <3>2
  <2> QED BY <2>1, <2>6, <2>7, <2>8
<1>5. \A d \in Clients : Open(d)' => Open(d)
  BY <1>4 DEF Open
<1>6. ASSUME NEW d \in Clients, Open(d), d # c PROVE Open(d)'
  <2>1. PICK j \in 1..Len(conns) : conns[j] = d
    BY <1>6 DEF Open
  <2>2. CASE j < i
    BY <1>1, <1>4, <2>1, <2>2 DEF Open
  <2>3. CASE j > i
    <3>1. j - 1 \in DOMAIN conns' /\ conns'[j - 1] = d
      BY <1>1, <1>4, <2>1, <2>3
    <3> QED BY <3>1 DEF Open
  <2> QED BY <1>1, <1>6, <2>1, <2>2, <2>3
<1> QED BY <1>2, <1>5, <1>6

\* Callers of the pool, a park that expires, a connection that comes or goes, a command
\* that is forwarded.
LEMMA OthersAnnounce ==
  ASSUME IInv, Announcing,
         \/ PoolStep
         \/ \E t \in Targets : ParkExpires(t)
         \/ \E c \in Clients : Connect(c) \/ Disconnect(c)
         \/ \E c \in Clients, op \in AllCommands, t \in Targets, n \in 0..MaxSessions :
              Forward(c, op, t, n)
         \/ UNCHANGED vars
  PROVE  Announcing' /\ Completes
<1>1. UNCHANGED <<live, seen, upstream, task, told>>
  BY DEF PoolStep, Pool!LeaseCheck, Pool!LeaseCreated, Pool!ChromeRefuses, Pool!Release, Pool!chromeVars,
         ParkExpires, Connect, Disconnect, Forward, outside, vars, poolVars, chromeVars, muxVars, viewVars
<1>2. \A m \in Mail' : m \in Mail
  BY <1>1 DEF Mail
<1>3. ASSUME \A c \in Clients : Open(c)' => Open(c) \/ task[c].op = "idle",
             \A c \in Clients : Open(c) \/ c \in left => Open(c)' \/ c \in left'
      PROVE  Announcing' /\ Completes
  BY <1>1, <1>2, <1>3, AnnouncesStays
<1>4. ASSUME UNCHANGED <<conns, left>> PROVE Announcing' /\ Completes
  <2>1. \A c \in Clients : Open(c)' <=> Open(c)
    BY <1>4 DEF Open
  <2> QED BY <1>3, <1>4, <2>1
<1>5. conns \in Seq(Clients)
  BY DEF IInv, TypeOK
<1>6. ASSUME NEW c \in Clients, Connect(c) PROVE Announcing' /\ Completes
  <2>1. /\ ~Open(c) /\ c \notin left /\ left' = left
        /\ \A d \in Clients : Open(d)' <=> Open(d) \/ d = c
    BY <1>5, <1>6, Connects
  <2>2. task[c].op = "idle"
    BY <2>1 DEF Announcing, Announces
  <2> QED BY <1>3, <2>1, <2>2
<1>7. ASSUME NEW c \in Clients, Disconnect(c) PROVE Announcing' /\ Completes
  BY <1>3, <1>5, <1>7, Disconnects
<1>8. CASE PoolStep \/ (\E t \in Targets : ParkExpires(t)) \/ UNCHANGED vars
           \/ \E c \in Clients, op \in AllCommands, t \in Targets, n \in 0..MaxSessions :
                Forward(c, op, t, n)
  BY <1>4, <1>8 DEF PoolStep, ParkExpires, Forward, vars, muxVars, connVars
<1> QED BY <1>6, <1>7, <1>8

\* A replay is done with t.
LEMMA ReplayGoesOn ==
  ASSUME IInv, Announcing, NEW c \in Clients, NEW t,
         task[c].op \in {"replay"} \cup Fallbacks, Passes(c, t),
         Open(c) /\ t \in live => told'[c][t] > 0,
         UNCHANGED <<conns, left, live, seen, upstream>>,
         \A d \in Clients, u \in Targets : told[d][u] > 0 => told'[d][u] > 0
  PROVE  Announcing' /\ Completes
<1> DEFINE todo == task[c].todo \ {t}
           granted == task[c].granted
<1>1. /\ Announces(c) /\ granted \subseteq Targets /\ TypeOK
      /\ Mail' = Mail /\ (Open(c)' <=> Open(c)) /\ Replays(c, todo, granted)
  BY DEF Announcing, IInv, TypeOK, Mail, Open, Passes
<1>2. \A u \in granted \ todo : Open(c) /\ u \in live => told'[c][u] > 0
  BY <1>1 DEF Announces
<1>3. \A d \in Clients \ {c} : task'[d] = task[d]
  BY <1>1, ReplaysDo
<1> HIDE DEF todo, granted
<1>4. CASE todo = {} /\ task' = [task EXCEPT ![c] = Idle]
  <2>1. task'[c] = Idle
    BY <1>1, <1>4 DEF TypeOK
  <2>2. task'[c].op = "idle" /\ task'[c].granted = {}
    BY <2>1 DEF Idle
  <2>3. Announces(c)'
    BY <2>2 DEF Announces, Fallbacks
  <2> QED BY <1>1, <1>2, <1>3, <1>4, <2>2, <2>3, AnnouncesMoves DEF granted
<1>5. CASE task' = [task EXCEPT ![c] =
                      [Idle EXCEPT !.op = "replay", !.todo = todo, !.granted = granted]]
  <2>1. task'[c] = [Idle EXCEPT !.op = "replay", !.todo = todo, !.granted = granted]
    BY <1>1, <1>5 DEF TypeOK
  <2>2. task'[c].op = "replay" /\ task'[c].todo = todo /\ task'[c].granted = granted
    BY <2>1 DEF Idle
  <2>3. Announces(c)'
    BY <1>1, <1>2, <2>2 DEF Announces, Fallbacks, granted
  <2> QED BY <1>1, <1>3, <2>2, <2>3, AnnouncesMoves
<1> QED BY <1>1, <1>4, <1>5 DEF Replays

\* A handler that replays nothing.
LEMMA OtherHandlers ==
  ASSUME IInv, Announcing, NEW c \in Clients, task[c].op \notin {"replay"} \cup Fallbacks,
         \A d \in Clients \ {c} : task'[d] = task[d],
         task'[c].granted = {}, task'[c].op \notin Fallbacks,
         task'[c].op # "idle" => Open(c) \/ c \in left,
         UNCHANGED <<conns, left, live, seen, upstream>>,
         \A d \in Clients, u \in Targets : told[d][u] > 0 => told'[d][u] > 0
  PROVE  Announcing' /\ Completes
<1>1. Announces(c) /\ Mail' = Mail /\ (Open(c)' <=> Open(c))
  BY DEF Announcing, Mail, Open
<1>2. task[c].granted = {}
  BY <1>1 DEF Announces
<1>3. Announces(c)'
  BY <1>1 DEF Announces
<1> QED BY <1>1, <1>2, <1>3, AnnouncesMoves


\* The handlers.
LEMMA HandlersAnnounce ==
  ASSUME IInv, Announcing, NEW c \in Clients,
         \/ StartReplay(c) \/ StartCreate(c) \/ \E t \in Targets : StartClose(c, t)
         \/ Continue(c)
  PROVE  Announcing' /\ Completes
<1>1. UNCHANGED <<conns, left, live, seen, upstream>>
  BY DEF StartReplay, StartCreate, StartClose, Continue, ReplayKnown, ReplayFallback, FallbackAttached,
         FallbackDescribed, FallbackFailed, CreateAdopts, CreateFails, CloseReplied, Pool!Adopt, Pool!Drop,
         Pool!chromeVars, outside, poolVars, connVars
<1>2. /\ TypeOK /\ Announces(c) /\ Mail' = Mail /\ (Open(c)' <=> Open(c))
      /\ task \in [Clients -> Tasks]
  BY <1>1 DEF Announcing, IInv, TypeOK, Mail, Open, Tasks
<1>3. ASSUME NEW r, task' = [task EXCEPT ![c] = r]
      PROVE  task'[c] = r /\ \A d \in Clients \ {c} : task'[d] = task[d]
  BY <1>2, <1>3
<1>4. Idle.op = "idle" /\ Idle.granted = {}
  BY DEF Idle
<1>5. CASE StartReplay(c)
  <2> DEFINE granted == Pool!TargetsFor(AgentOf[c])
             r == [Idle EXCEPT !.op = "replay", !.todo = granted, !.granted = granted]
  <2>1. /\ task[c].op = "idle" /\ (Open(c) \/ c \in left)
        /\ Replays(c, granted, granted) /\ UNCHANGED told
    BY <1>5 DEF StartReplay, Handles
  <2>2. task[c].granted = {}
    <3>1. task[c].op = "idle"
      BY <2>1
    <3> QED BY <1>2, <3>1 DEF Announces, Fallbacks
  <2>3. r.op = "replay" /\ r.todo = granted /\ r.granted = granted
    BY DEF Idle
  <2>4. granted \subseteq seen
    <3>1. PICK fam \in [Targets -> Agents \cup {NoAgent}] : Explains(fam)
      BY DEF IInv, Routing, Affinity
    <3>2. AgentOf[c] # NoAgent
      BY MuxTargetsAssumption
    <3> QED BY <3>1, <3>2 DEF Explains, Pool!TargetsFor
  <2> HIDE DEF granted, r
  <2>5. CASE task' = [task EXCEPT ![c] = Idle]
    <3>1. /\ task'[c].granted = {} /\ task'[c].op = "idle"
          /\ \A d \in Clients \ {c} : task'[d] = task[d]
      BY <1>3, <1>4, <2>5
    <3>2. /\ task[c].op \notin {"replay"} \cup Fallbacks /\ task'[c].op \notin Fallbacks
          /\ \A d \in Clients, u \in Targets : told[d][u] > 0 => told'[d][u] > 0
      BY <2>1, <3>1 DEF Fallbacks
    <3> QED BY <1>1, <3>1, <3>2, OtherHandlers
  <2>6. CASE task' = [task EXCEPT ![c] = r]
    <3>1. task'[c] = r /\ \A d \in Clients \ {c} : task'[d] = task[d]
      BY <1>3, <2>6
    <3>2. Announces(c)'
      BY <1>1, <1>2, <2>1, <2>3, <2>4, <3>1 DEF Announces, Fallbacks
    <3> QED BY <1>1, <1>2, <2>1, <2>2, <3>1, <3>2, AnnouncesMoves
  <2> QED BY <2>1, <2>5, <2>6 DEF Replays, r
<1>6. ASSUME NEW t \in Targets, ReplayKnown(c, t) PROVE Announcing' /\ Completes
  <2>1. task[c].op = "replay" /\ Hand(c, t, table[t]) /\ Passes(c, t)
    BY <1>6 DEF ReplayKnown
  <2>2. /\ \A d \in Clients, u \in Targets : told[d][u] > 0 => told'[d][u] > 0
        /\ Open(c) => told'[c][t] > 0
    BY <1>2, <2>1, HandTells
  <2> QED BY <1>1, <2>1, <2>2, ReplayGoesOn
<1>7. CASE FallbackDescribed(c)
  <2> DEFINE t == task[c].target
  <2>1. task[c].op = "describe" /\ Hand(c, t, task[c].session) /\ Passes(c, t)
    BY <1>7 DEF FallbackDescribed
  <2>2. t \in Targets
    BY <2>1 DEF IInv, Routing, OneCommand, Waits
  <2> HIDE DEF t
  <2>3. /\ \A d \in Clients, u \in Targets : told[d][u] > 0 => told'[d][u] > 0
        /\ Open(c) => told'[c][t] > 0
    BY <1>2, <2>1, <2>2, HandTells
  <2> QED BY <1>1, <2>1, <2>3, ReplayGoesOn DEF Fallbacks
<1>8. CASE FallbackFailed(c)
  <2> DEFINE t == task[c].target
  <2>1. task[c].op \in Fallbacks /\ Refused(c) /\ Passes(c, t) /\ told' = told
    BY <1>8 DEF FallbackFailed, Fallbacks, Refused
  <2>2. t \notin live
    BY <1>2, <2>1 DEF Announces
  <2> HIDE DEF t
  <2> QED BY <1>1, <2>1, <2>2, ReplayGoesOn
<1>9. CASE (\E t \in Targets : ReplayFallback(c, t)) \/ FallbackAttached(c)
  <2>1. PICK op, target :
          /\ op \in Fallbacks /\ task[c].op \in {"replay"} \cup Fallbacks /\ told' = told
          /\ task' = [task EXCEPT ![c].op = op, ![c].target = target, ![c].reply = "none"]
          /\ task[c].op \notin Waits \/ task[c].reply # "none"
    <3>1. CASE \E t \in Targets : ReplayFallback(c, t)
      BY <3>1 DEF ReplayFallback, Fallbacks, Waits, viewVars
    <3>2. CASE FallbackAttached(c)
      <4>1. task' = [task EXCEPT ![c].op = "describe", ![c].target = task[c].target, ![c].reply = "none"]
        BY <1>2, <3>2 DEF FallbackAttached, Tasks
      <4> QED BY <3>2, <4>1 DEF FallbackAttached, Fallbacks, Waits, viewVars
    <3> QED BY <1>9, <3>1, <3>2
  <2>2. /\ \A d \in Clients \ {c} : task'[d] = task[d]
        /\ task'[c].op = op /\ task'[c].reply = "none"
        /\ UNCHANGED <<task[c].todo, task[c].granted>>
    BY <1>2, <2>1 DEF Tasks
  <2>3. ~Answered(c)
    BY <2>1, Unblocked
  <2>4. ~Refused(c)'
    BY <1>2, <2>2, <2>3 DEF Refused, Answered, IsAnswer
  <2>5. task[c].op # "idle" /\ op # "idle"
    BY <2>1 DEF Fallbacks
  <2>6. Announces(c)'
    BY <1>1, <1>2, <2>1, <2>2, <2>4, <2>5 DEF Announces
  <2> QED BY <1>1, <1>2, <2>1, <2>2, <2>5, <2>6, AnnouncesMoves
<1>10. ASSUME NEW r, task' = [task EXCEPT ![c] = r], r.granted = {}, r.op \notin Fallbacks,
              Open(c) \/ c \in left, task[c].op \notin {"replay"} \cup Fallbacks,
              \A d \in Clients, u \in Targets : told[d][u] > 0 => told'[d][u] > 0
       PROVE  Announcing' /\ Completes
  <2>1. task'[c] = r /\ \A d \in Clients \ {c} : task'[d] = task[d]
    BY <1>3, <1>10
  <2> QED BY <1>1, <1>10, <2>1, OtherHandlers
<1>11. CASE StartCreate(c) \/ \E t \in Targets : StartClose(c, t)
  <2>1. /\ task[c].op = "idle" /\ (Open(c) \/ c \in left) /\ told' = told
        /\ \E r : r.op \notin Fallbacks /\ r.granted = {} /\ task' = [task EXCEPT ![c] = r]
    <3> SUFFICES /\ task[c].op = "idle" /\ (Open(c) \/ c \in left) /\ told' = told
                 /\ \E r : r.op \in {"createTarget", "closeTarget"} /\ r.granted = {}
                           /\ task' = [task EXCEPT ![c] = r]
      BY DEF Fallbacks
    <3>1. CASE StartCreate(c)
      <4>1. PICK r : r = [Idle EXCEPT !.op = "createTarget"]
        OBVIOUS
      <4>2. r.op = "createTarget" /\ r.granted = {}
        BY <4>1 DEF Idle
      <4>3. task' = [task EXCEPT ![c] = r]
        BY <3>1, <4>1 DEF StartCreate
      <4> QED BY <3>1, <4>2, <4>3 DEF StartCreate, Handles, viewVars
    <3>2. ASSUME NEW t \in Targets, StartClose(c, t)
          PROVE  /\ task[c].op = "idle" /\ (Open(c) \/ c \in left) /\ told' = told
                 /\ \E r : r.op \in {"createTarget", "closeTarget"} /\ r.granted = {}
                           /\ task' = [task EXCEPT ![c] = r]
      <4>1. PICK r : r = [Idle EXCEPT !.op = "closeTarget", !.target = t]
        OBVIOUS
      <4>2. r.op = "closeTarget" /\ r.granted = {}
        BY <4>1 DEF Idle
      <4>3. task' = [task EXCEPT ![c] = r]
        BY <3>2, <4>1 DEF StartClose
      <4> QED BY <3>2, <4>2, <4>3 DEF StartClose, Handles, viewVars
    <3> QED BY <1>11, <3>1, <3>2
  <2>2. PICK r : r.op \notin Fallbacks /\ r.granted = {} /\ task' = [task EXCEPT ![c] = r]
    BY <2>1
  <2>3. task[c].op \notin {"replay"} \cup Fallbacks
    BY <2>1 DEF Fallbacks
  <2> QED BY <1>10, <2>1, <2>2, <2>3
<1>12. CASE CreateAdopts(c) \/ CreateFails(c) \/ CloseReplied(c)
  <2>1. task' = [task EXCEPT ![c] = Idle] /\ task[c].op \in {"createTarget", "closeTarget"}
    BY <1>12 DEF CreateAdopts, CreateFails, CloseReplied, CreateReply
  <2>2. Open(c) \/ c \in left
    BY <1>2, <2>1 DEF Announces
  <2>3. \A d \in Clients, u \in Targets : told[d][u] > 0 => told'[d][u] > 0
    <3>1. CASE told' = told
      BY <3>1
    <3>2. CASE CreateAdopts(c) /\ Hand(c, task[c].target, parked[task[c].target])
      <4>1. task[c].target \in Targets
        BY <3>2 DEF CreateAdopts, CreateReply, IInv, Routing, OneCreator
      <4> QED BY <1>2, <3>2, <4>1, HandTells
    <3> QED BY <1>12, <3>1, <3>2 DEF CreateAdopts, CreateFails, CloseReplied, viewVars
  <2> QED BY <1>4, <1>10, <2>1, <2>2, <2>3 DEF Fallbacks
<1> QED BY <1>5, <1>6, <1>7, <1>8, <1>9, <1>11, <1>12 DEF Continue

\* When setAutoAttach is answered, the pages it was to announce have been announced
\* (mux.ts:249), if no deadline of the mux passes before Chrome has answered: the
\* fallback that times out skips its page.
THEOREM RepliesAreComplete == ~SlowChrome => (Spec => ReplayIsComplete)
<1> SUFFICES ASSUME ~SlowChrome PROVE Spec => ReplayIsComplete
  OBVIOUS
<1>1. Init => Announcing
  <2> SUFFICES ASSUME Init, NEW c \in Clients PROVE Announces(c)
    BY DEF Announcing
  <2>1. task[c].op = "idle" /\ task[c].granted = {}
    BY DEF Init, Idle
  <2> QED BY <2>1 DEF Announces, Fallbacks
<1>2. IInv /\ Announcing /\ [Next]_vars => Announcing' /\ Completes
  <2> SUFFICES ASSUME IInv, Announcing, [Next]_vars PROVE Announcing' /\ Completes
    OBVIOUS
  <2>1. ASSUME NEW c \in Clients, ClientSends(c) \/ Continue(c) \/ Timeout(c)
        PROVE  Announcing' /\ Completes
    BY <2>1, HandlersAnnounce, OthersAnnounce DEF ClientSends, Timeout
  <2> QED BY <2>1, ChromeAnnounces, DeliverAnnounces, OthersAnnounce DEF Next
<1>3. Spec => [][Completes]_vars
  BY <1>1, <1>2, InductiveInvariant, PTL DEF Spec
<1> QED BY <1>3 DEF ReplayIsComplete, Completes

-----------------------------------------------------------------------------
(* The table of sessions, as long as no deadline passes before Chrome has  *)
(* answered and clients do not attach and detach by themselves.            *)

\* Chrome holds no command but those of handlers.
HandlersOnly == asked[Nobody].op = "none" /\ forwards = {}

\* A page has a session, or Chrome is about to attach to it; one that is gone has none.
PagesHaveSessions ==
  /\ unattached \subseteq live
  /\ \A t \in Targets : t \in live <=> t \in unattached \/ attached[t] # {}

\* Pages are said to go when they have gone.
NewsOfTheGone ==
  \A m \in Mail : m.type \in {"detached", "destroyed"} => m.target \in seen \ live

\* A session that is announced exists, or its end is announced behind it.
NewsInOrder ==
  \A i \in DOMAIN upstream : upstream[i].type = "attached" =>
    /\ upstream[i].session # 0
    /\ \/ upstream[i].session \in attached[upstream[i].target]
       \/ \E j \in DOMAIN upstream :
            j > i /\ upstream[j].type = "detached" /\ upstream[j].target = upstream[i].target

\* Replays attach explicitly only to pages that are gone.
FallbacksFail ==
  \A c \in Clients : task[c].op \in Fallbacks =>
    /\ task[c].op = "attach" /\ task[c].reply # "ok" /\ task[c].target \notin live
    /\ \A m \in Mail : m.client = c => m.type # "answer"

Tabled ==
  /\ HandlersOnly
  /\ PagesHaveSessions
  /\ NewsOfTheGone
  /\ NewsInOrder
  /\ FallbacksFail
  /\ TableAccurate

\* What is true of the table, in terms of the messages on their way.
Announced(t) == \E m \in Mail : m.type = "attached" /\ m.target = t
Ending(t) == \E m \in Mail : m.type = "detached" /\ m.target = t

Accurate(t) ==
  /\ t \in live /\ attached[t] # {} /\ t \notin unattached /\ ~Announced(t) => table[t] # 0
  /\ table[t] # 0 => table[t] \in attached[t] \/ Ending(t)

LEMMA TableByMail ==
  /\ \A t : EventPending(t) <=> t \in unattached \/ Announced(t)
  /\ TableAccurate <=> \A t \in Targets : Accurate(t)
BY DEF EventPending, TableAccurate, Accurate, Announced, Ending, Mail, MailOf

\* No step of Chrome upsets the table.
LEMMA ChromeTables ==
  ASSUME IInv, Tabled, ChromeStep
  PROVE  Tabled'
<1>1. PICK s : Posting(s)
  BY ChromePosts
<1>2. UNCHANGED <<table, task>>
  BY ChromePosts
<1>3. upstream \in Seq(Messages) /\ s \in Seq(Messages) /\ upstream' = upstream \o s
  BY <1>1 DEF IInv, TypeOK, Messages, Posting
<1>4. Mail' = Mail \cup MailOf(s)
  BY <1>3, MailOfConcat DEF Mail
<1>5. /\ attached \in [Targets -> SUBSET (1..MaxSessions)] /\ minted \in [Targets -> 0..MaxSessions]
      /\ asked \in [Clients \cup {Nobody} ->
           [op : {"none", "created", "getTargetInfo"} \cup AllCommands, target : Targets \cup {NoTarget}]]
      /\ live \subseteq Targets /\ live \subseteq seen
  BY DEF IInv, Routing, PagesAreFresh, TypeOK, Pool!TypeOK
<1>6. /\ \A i \in DOMAIN upstream : i \in DOMAIN upstream' /\ upstream'[i] = upstream[i]
      /\ \A i \in DOMAIN upstream' \ DOMAIN upstream :
           i - Len(upstream) \in DOMAIN s /\ upstream'[i] = s[i - Len(upstream)]
      /\ \A i \in DOMAIN s : /\ i + Len(upstream) \in DOMAIN upstream'
                             /\ upstream'[i + Len(upstream)] = s[i]
                             /\ \A j \in DOMAIN upstream : i + Len(upstream) > j
  BY <1>3
<1>7. \A c \in Clients : asked[c].op # "none" =>
        /\ task[c].op = "createTarget" <=> asked[c].op \in {"createTarget", "created"}
        /\ task[c].op = "attach" <=> asked[c].op = "attachToTarget"
        /\ task[c].op # "createTarget" => asked[c].target = task[c].target
  BY DEF IInv, Routing, OneCommand
<1>8. \A c \in Clients : task[c].op \in Fallbacks => task[c].target \in seen
  BY ReplaysAreOfSeen DEF IInv, Routing, OneCommand, Waits, Replaying, Fallbacks
<1>9. \A t, i : AttachOf(t, s) /\ i \in DOMAIN s /\ i # 1 => s[i].type \in {"answer", "attachAnswer"}
  BY DEF AttachOf
<1>10. ASSUME NEW t, AttachOf(t, s)
       PROVE  /\ t \in Targets /\ t \in unattached /\ unattached' = unattached \ {t} /\ Mint(t)
              /\ 1 \in DOMAIN s /\ s[1] = Attached(t, minted[t] + 1)
              /\ UNCHANGED <<live, seen, asked, forwards>>
              /\ \A m \in MailOf(s) : m.type \notin {"detached", "destroyed", "answer"}
  <2>1. ASSUME NEW c \in Clients \cup {Nobody}, asked[c].op = "attachToTarget", asked[c].target \in live
        PROVE  FALSE
    <3>1. c \in Clients
      BY <2>1 DEF Tabled, HandlersOnly
    <3>2. task[c].op = "attach" /\ asked[c].target = task[c].target
      BY <1>7, <2>1, <3>1
    <3> QED BY <2>1, <3>1, <3>2 DEF Tabled, FallbacksFail, Fallbacks
  <2>2. t \in unattached /\ unattached' = unattached \ {t} /\ UNCHANGED <<asked, forwards>>
    BY <1>10, <2>1 DEF AttachOf, Tabled, HandlersOnly
  <2>3. t \in live
    BY <2>2 DEF Tabled, PagesHaveSessions
  <2>4. Attached(t, minted[t] + 1).type = "attached"
    BY DEF Attached, Message
  <2>5. \A m \in MailOf(s) : m.type \notin {"detached", "destroyed", "answer"}
    BY <1>10, <2>1, <2>3, <2>4 DEF AttachOf, MailOf
  <2> QED BY <1>10, <2>2, <2>5 DEF AttachOf
<1>11. HandlersOnly'
  <2>1. ASSUME NEW c \in Clients \cup {Nobody}, NEW r, asked[c].op # "none", asked' = [asked EXCEPT ![c] = r]
        PROVE  asked'[Nobody] = asked[Nobody]
    BY <1>5, <2>1 DEF Tabled, HandlersOnly
  <2>2. asked'[Nobody] = asked[Nobody]
    BY <1>1, <1>10, <2>1 DEF Posting, BirthOf, DeathOf, ReplyOf, ForwardOf, Done
  <2>3. forwards' = {}
    BY <1>1, <1>10 DEF Posting, BirthOf, DeathOf, ReplyOf, ForwardOf, Tabled, HandlersOnly
  <2> QED BY <2>2, <2>3 DEF Tabled, HandlersOnly
<1>12. PagesHaveSessions'
  <2>1. ASSUME NEW t, BirthOf(t, s) PROVE PagesHaveSessions'
    BY <1>5, <2>1 DEF BirthOf, Tabled, PagesHaveSessions
  <2>2. ASSUME NEW t, DeathOf(t, s) PROVE PagesHaveSessions'
    BY <1>5, <2>2 DEF DeathOf, Tabled, PagesHaveSessions
  <2>3. ASSUME NEW t, AttachOf(t, s) PROVE PagesHaveSessions'
    <3>1. attached' = [attached EXCEPT ![t] = @ \cup {minted[t] + 1}]
      BY <1>10, <2>3 DEF Mint
    <3>2. \A u \in Targets \ {t} : attached'[u] = attached[u]
      BY <1>5, <3>1
    <3>3. attached'[t] # {}
      BY <1>5, <1>10, <2>3, <3>1
    <3> QED BY <1>10, <2>3, <3>2, <3>3 DEF Tabled, PagesHaveSessions
  <2>4. ASSUME \E c : ReplyOf(c, s) PROVE PagesHaveSessions'
    BY <2>4 DEF ReplyOf, Tabled, PagesHaveSessions
  <2> QED BY <1>1, <2>1, <2>2, <2>3, <2>4 DEF Posting, ForwardOf, Tabled, HandlersOnly
<1>13. NewsOfTheGone'
  <2>1. ASSUME NEW t, BirthOf(t, s) PROVE NewsOfTheGone'
    BY <1>4, <2>1 DEF BirthOf, Tabled, NewsOfTheGone
  <2>2. ASSUME NEW t, DeathOf(t, s) PROVE NewsOfTheGone'
    BY <1>4, <1>5, <2>2 DEF DeathOf, Tabled, NewsOfTheGone, PagesHaveSessions
  <2>3. ASSUME NEW t, AttachOf(t, s) PROVE NewsOfTheGone'
    BY <1>4, <1>10, <2>3 DEF Tabled, NewsOfTheGone
  <2>4. ASSUME NEW c, ReplyOf(c, s) PROVE NewsOfTheGone'
    BY <1>4, <2>4 DEF ReplyOf, Tabled, NewsOfTheGone
  <2> QED BY <1>1, <2>1, <2>2, <2>3, <2>4 DEF Posting, ForwardOf, Tabled, HandlersOnly
<1>14. FallbacksFail'
  <2> SUFFICES ASSUME NEW c \in Clients, task[c].op \in Fallbacks
               PROVE  /\ task[c].target \notin live'
                      /\ \A m \in MailOf(s) : m.client = c => m.type # "answer"
    BY <1>2, <1>4 DEF Tabled, FallbacksFail
  <2>1. task[c].op = "attach" /\ task[c].target \in seen \ live
    BY <1>8 DEF Tabled, FallbacksFail
  <2>2. ASSUME NEW t, BirthOf(t, s)
        PROVE  task[c].target \notin live' /\ \A m \in MailOf(s) : m.type # "answer"
    BY <2>1, <2>2 DEF BirthOf
  <2>3. ASSUME NEW t, DeathOf(t, s)
        PROVE  task[c].target \notin live' /\ \A m \in MailOf(s) : m.client = c => m.type # "answer"
    BY <1>7, <2>1, <2>3 DEF DeathOf
  <2>4. ASSUME NEW t, AttachOf(t, s)
        PROVE  task[c].target \notin live' /\ \A m \in MailOf(s) : m.type # "answer"
    BY <1>10, <2>1, <2>4
  <2>5. ASSUME NEW d, ReplyOf(d, s)
        PROVE  task[c].target \notin live' /\ \A m \in MailOf(s) : m.client = c => m.type # "answer"
    BY <1>7, <2>1, <2>5 DEF ReplyOf
  <2> QED BY <1>1, <2>2, <2>3, <2>4, <2>5 DEF Posting, ForwardOf, Tabled, HandlersOnly
<1>15. ASSUME NEW i \in DOMAIN upstream, upstream[i].type = "attached",
              upstream[i].session \in attached[upstream[i].target] =>
                \/ upstream[i].session \in attached'[upstream[i].target]
                \/ \E m \in MailOf(s) : m.type = "detached" /\ m.target = upstream[i].target
       PROVE  /\ upstream'[i].session # 0
              /\ \/ upstream'[i].session \in attached'[upstream'[i].target]
                 \/ \E j \in DOMAIN upstream' :
                      j > i /\ upstream'[j].type = "detached" /\ upstream'[j].target = upstream'[i].target
  <2>1. upstream'[i] = upstream[i] /\ upstream[i].session # 0
    BY <1>6, <1>15 DEF Tabled, NewsInOrder
  <2>2. CASE upstream[i].session \in attached'[upstream[i].target]
    BY <2>1, <2>2
  <2>3. CASE \E m \in MailOf(s) : m.type = "detached" /\ m.target = upstream[i].target
    <3>1. PICK k \in DOMAIN s : s[k].type = "detached" /\ s[k].target = upstream[i].target
      BY <2>3 DEF MailOf
    <3> QED BY <1>6, <2>1, <3>1
  <2>4. CASE \E j \in DOMAIN upstream :
               j > i /\ upstream[j].type = "detached" /\ upstream[j].target = upstream[i].target
    BY <1>6, <2>1, <2>4
  <2> QED BY <1>15, <2>2, <2>3, <2>4 DEF Tabled, NewsInOrder
<1>16. NewsInOrder'
  <2>1. ASSUME \A m \in MailOf(s) : m.type # "attached", 
               \A t \in Targets : \/ attached'[t] = attached[t]
                                \/ attached[t] = {}
                                \/ \E m \in MailOf(s) : m.type = "detached" /\ m.target = t
        PROVE  NewsInOrder'
    <3>1. \A i \in DOMAIN upstream : upstream[i].type = "attached" => upstream[i].target \in Targets
      BY DEF IInv, Routing, MailNamesPages, Mail, MailOf
    <3>2. \A i \in DOMAIN upstream' \ DOMAIN upstream : upstream'[i].type # "attached"
      BY <1>6, <2>1 DEF MailOf
    <3> QED BY <1>6, <1>15, <2>1, <3>1, <3>2 DEF NewsInOrder
  <2>2. ASSUME NEW t, BirthOf(t, s) PROVE NewsInOrder'
    BY <2>1, <2>2 DEF BirthOf
  <2>3. ASSUME NEW t, DeathOf(t, s) PROVE NewsInOrder'
    <3>1. \A u \in Targets \ {t} : attached'[u] = attached[u]
      BY <1>5, <2>3 DEF DeathOf
    <3> QED BY <2>1, <2>3, <3>1 DEF DeathOf
  <2>4. ASSUME NEW t, AttachOf(t, s) PROVE NewsInOrder'
    <3>1. \A u \in Targets : attached[u] \subseteq attached'[u]
      BY <1>5, <1>10, <2>4 DEF Mint
    <3>2. \A i \in DOMAIN upstream : upstream[i].type = "attached" => upstream[i].target \in Targets
      BY DEF IInv, Routing, MailNamesPages, Mail, MailOf
    <3>3. /\ s[1].session = minted[t] + 1 /\ s[1].target = t
          /\ minted[t] + 1 \in attached'[t] /\ minted[t] + 1 # 0
      <4>1. Attached(t, minted[t] + 1).session = minted[t] + 1 /\ Attached(t, minted[t] + 1).target = t
        BY DEF Attached, Message
      <4>2. minted[t] + 1 \in attached'[t] /\ minted[t] + 1 # 0
        BY <1>5, <1>10, <2>4 DEF Mint
      <4> QED BY <1>10, <2>4, <4>1, <4>2
    <3>4. ASSUME NEW i \in DOMAIN upstream' \ DOMAIN upstream, upstream'[i].type = "attached"
          PROVE  upstream'[i].session # 0 /\ upstream'[i].session \in attached'[upstream'[i].target]
      BY <1>6, <1>9, <2>4, <3>3, <3>4
    <3> QED BY <1>6, <1>15, <3>1, <3>2, <3>4 DEF NewsInOrder
  <2>5. ASSUME NEW c, ReplyOf(c, s) PROVE NewsInOrder'
    BY <2>1, <2>5 DEF ReplyOf
  <2> QED BY <1>1, <2>2, <2>3, <2>4, <2>5 DEF Posting, ForwardOf, Tabled, HandlersOnly
<1>17. TableAccurate'
  <2>1. \A t : (Announced(t) => Announced(t)') /\ (Ending(t) => Ending(t)')
    BY <1>4 DEF Announced, Ending
  <2>2. ASSUME NEW t \in Targets, NEW u, BirthOf(u, s) PROVE Accurate(t)'
    <3>1. Accurate(t)
      BY TableByMail DEF Tabled
    <3>2. u \in Targets /\ live' = live \cup {u} /\ unattached' = unattached \cup {u} /\ attached' = attached
      BY <2>2 DEF BirthOf
    <3> QED BY <1>2, <2>1, <3>1, <3>2 DEF Accurate
  <2>3. ASSUME NEW t \in Targets, NEW u, DeathOf(u, s) PROVE Accurate(t)'
    <3>1. attached'[t] = IF t = u THEN {} ELSE attached[t]
      BY <1>5, <2>3 DEF DeathOf
    <3>2. t = u /\ attached[t] # {} => Ending(t)'
      BY <1>4, <2>3 DEF DeathOf, Ending
    <3>3. live' = live \ {u} /\ unattached' = unattached \ {u}
      BY <2>3 DEF DeathOf
    <3>4. Accurate(t)
      BY TableByMail DEF Tabled
    <3> QED BY <1>2, <2>1, <3>1, <3>2, <3>3, <3>4 DEF Accurate
  <2>4. ASSUME NEW t \in Targets, NEW u, AttachOf(u, s) PROVE Accurate(t)'
    <3>1. attached[t] \subseteq attached'[t] /\ (t # u => attached'[t] = attached[t])
      BY <1>5, <1>10, <2>4 DEF Mint
    <3>2. Announced(u)'
      <4>1. Attached(u, minted[u] + 1).type = "attached" /\ Attached(u, minted[u] + 1).target = u
        BY DEF Attached, Message
      <4>2. s[1] \in MailOf(s) /\ s[1].type = "attached" /\ s[1].target = u
        BY <1>10, <2>4, <4>1 DEF MailOf
      <4> QED BY <1>4, <4>2 DEF Announced
    <3>3. live' = live /\ unattached' = unattached \ {u}
      BY <1>10, <2>4
    <3>4. Accurate(t)
      BY TableByMail DEF Tabled
    <3> QED BY <1>2, <2>1, <3>1, <3>2, <3>3, <3>4 DEF Accurate
  <2>5. ASSUME NEW t \in Targets, NEW c, ReplyOf(c, s) PROVE Accurate(t)'
    <3>1. Accurate(t) /\ UNCHANGED <<live, attached, unattached>>
      BY <2>5, TableByMail DEF Tabled, ReplyOf
    <3> QED BY <1>2, <2>1, <3>1 DEF Accurate
  <2>6. \A t \in Targets : Accurate(t)'
    BY <1>1, <2>2, <2>3, <2>4, <2>5 DEF Posting, ForwardOf, Tabled, HandlersOnly
  <2> QED BY <2>6 DEF TableAccurate, Accurate, EventPending, Announced, Ending, Mail, MailOf
<1> QED BY <1>11, <1>12, <1>13, <1>14, <1>16, <1>17 DEF Tabled


\* What is read from Chrome is put into the table as it came about.
LEMMA DeliverTables ==
  ASSUME IInv, Tabled, Deliver
  PROVE  Tabled'
<1> SUFFICES ASSUME NEW m, m = Head(upstream) PROVE Tabled'
  OBVIOUS
<1>1. /\ upstream \in Seq(Messages) /\ NoTwoAnswers /\ MailNamesPages /\ upstream # <<>>
      /\ upstream' = Tail(upstream)
      /\ table \in [Targets -> 0..MaxSessions]
  BY DEF IInv, Routing, TypeOK, Messages, Deliver, DeliverCreated, DeliverAttached, DeliverDetached,
         DeliverDestroyed, DeliverAnswer, DeliverAttachAnswer, Arrives
<1>2. Arrives(m.type)
  BY <1>1 DEF Arrives
<1>3. m \in Mail /\ Mail' \subseteq Mail /\ Mail \subseteq Mail' \cup {m}
  BY <1>1, <1>2, Reads
<1>4. /\ \A i \in DOMAIN upstream' : i + 1 \in DOMAIN upstream /\ upstream'[i] = upstream[i + 1]
      /\ \A i \in DOMAIN upstream : i # 1 => i - 1 \in DOMAIN upstream' /\ upstream'[i - 1] = upstream[i]
      /\ DOMAIN upstream' \subseteq Nat /\ DOMAIN upstream \subseteq Nat
      /\ 1 \in DOMAIN upstream /\ m = upstream[1]
  BY <1>1
<1>5. UNCHANGED <<live, seen, chromeVars>>
  BY DEF Deliver, DeliverCreated, DeliverAttached, DeliverDetached, DeliverDestroyed, DeliverAnswer,
         DeliverAttachAnswer, AdoptByOpener, Pool!Adopt, Pool!chromeVars, poolVars
<1>6. UNCHANGED <<unattached, attached, asked, forwards>>
  BY <1>5 DEF chromeVars, pageVars
<1>7. HandlersOnly' /\ PagesHaveSessions'
  BY <1>5, <1>6 DEF Tabled, HandlersOnly, PagesHaveSessions
<1>8. NewsOfTheGone'
  BY <1>3, <1>5 DEF Tabled, NewsOfTheGone
<1>9. NewsInOrder'
  <2> SUFFICES ASSUME NEW i \in DOMAIN upstream', upstream'[i].type = "attached"
               PROVE  /\ upstream'[i].session # 0
                      /\ \/ upstream'[i].session \in attached[upstream'[i].target]
                         \/ \E j \in DOMAIN upstream' :
                              j > i /\ upstream'[j].type = "detached" /\ upstream'[j].target = upstream'[i].target
    BY <1>6 DEF NewsInOrder
  <2>1. PICK k : k = i + 1
    OBVIOUS
  <2>2. k \in DOMAIN upstream /\ upstream'[i] = upstream[k] /\ i \in Nat
    BY <1>4, <2>1
  <2>3. CASE upstream[k].session \in attached[upstream[k].target]
    BY <2>2, <2>3 DEF Tabled, NewsInOrder
  <2>4. ASSUME NEW j \in DOMAIN upstream, j > k, upstream[j].type = "detached",
               upstream[j].target = upstream[k].target
        PROVE  \E l \in DOMAIN upstream' :
                 l > i /\ upstream'[l].type = "detached" /\ upstream'[l].target = upstream'[i].target
    <3>1. j - 1 \in DOMAIN upstream' /\ upstream'[j - 1] = upstream[j] /\ j - 1 > i
      BY <1>4, <2>1, <2>2, <2>4
    <3> QED BY <2>2, <2>4, <3>1
  <2> QED BY <2>2, <2>3, <2>4 DEF Tabled, NewsInOrder
<1>10. ASSUME task' = task PROVE FallbacksFail'
  BY <1>3, <1>5, <1>10 DEF Tabled, FallbacksFail
<1>11. \A t \in Targets : Accurate(t)
  BY TableByMail DEF Tabled
<1>12. ASSUME \A t \in Targets : Accurate(t)' PROVE TableAccurate'
  BY <1>12 DEF TableAccurate, Accurate, EventPending, Announced, Ending, Mail, MailOf
<1>13. ASSUME NEW t \in Targets, table'[t] = table[t],
              m.type \notin {"attached", "detached"} \/ m.target # t
       PROVE  Accurate(t)'
  <2>1. (Announced(t)' <=> Announced(t)) /\ (Ending(t)' <=> Ending(t))
    BY <1>3, <1>13 DEF Announced, Ending
  <2> QED BY <1>5, <1>6, <1>11, <1>13, <2>1 DEF Accurate
<1>14. CASE DeliverCreated \/ DeliverAttachAnswer
  <2>1. m.type \notin {"attached", "detached"} /\ UNCHANGED <<table, task>>
    BY <1>14 DEF DeliverCreated, DeliverAttachAnswer, Arrives, muxVars, routeVars
  <2> QED BY <1>7, <1>8, <1>9, <1>10, <1>12, <1>13, <2>1 DEF Tabled
<1>15. CASE DeliverAttached
  <2>1. /\ m.type = "attached" /\ m.target \in Targets
        /\ table' = [table EXCEPT ![m.target] = m.session] /\ task' = task
    BY <1>1, <1>3, <1>15 DEF DeliverAttached, Record, Arrives, MailNamesPages
  <2>2. m.session # 0 /\ (m.session \in attached[m.target] \/ Ending(m.target)')
    <3>1. m.session # 0
      BY <1>4, <2>1 DEF Tabled, NewsInOrder
    <3>2. ASSUME NEW j \in DOMAIN upstream, j > 1, upstream[j].type = "detached",
                 upstream[j].target = m.target
          PROVE  Ending(m.target)'
      <4>1. upstream[j] \in Mail /\ upstream[j] # m
        BY <2>1, <3>2 DEF Mail, MailOf
      <4>2. upstream[j] \in Mail'
        BY <1>3, <4>1
      <4> QED BY <3>2, <4>2 DEF Ending
    <3> QED BY <1>4, <2>1, <3>1, <3>2 DEF Tabled, NewsInOrder
  <2>3. Accurate(m.target)'
    <3>1. table'[m.target] = m.session
      BY <1>1, <2>1
    <3> QED BY <1>5, <1>6, <2>2, <3>1 DEF Accurate
  <2>4. \A t \in Targets \ {m.target} : table'[t] = table[t]
    BY <1>1, <2>1
  <2>5. \A t \in Targets : Accurate(t)'
    BY <1>13, <2>3, <2>4
  <2> QED BY <1>7, <1>8, <1>9, <1>10, <1>12, <2>1, <2>5 DEF Tabled
<1>16. CASE DeliverDetached \/ DeliverDestroyed
  <2>1. /\ m.type \in {"detached", "destroyed"} /\ m.target \in Targets
        /\ table' = [table EXCEPT ![m.target] = 0] /\ task' = task
    BY <1>1, <1>3, <1>16 DEF DeliverDetached, DeliverDestroyed, Arrives, MailNamesPages
  <2>2. m.target \notin live
    BY <1>3, <2>1 DEF Tabled, NewsOfTheGone
  <2>3. /\ table'[m.target] = 0
        /\ \A t \in Targets \ {m.target} : table'[t] = table[t]
    BY <1>1, <2>1
  <2>4. Accurate(m.target)'
    BY <1>5, <2>2, <2>3 DEF Accurate
  <2>5. \A t \in Targets : Accurate(t)'
    BY <1>13, <2>3, <2>4
  <2> QED BY <1>7, <1>8, <1>9, <1>10, <1>12, <2>1, <2>5 DEF Tabled
<1>17. CASE DeliverAnswer
  <2> SUFFICES ASSUME NEW c, c = m.client
               PROVE  Tabled'
    OBVIOUS
  <2>1. PICK r, n : /\ r = IF m.type = "answer" THEN "ok" ELSE "error"
                    /\ task' = [task EXCEPT ![c].reply = r, ![c].session = n,
                                            ![c].target = m.target]
    BY <1>17 DEF DeliverAnswer
  <2>2. task \in [Clients -> Tasks]
    BY DEF IInv, TypeOK, Tasks
  <2>3. m.type \in {"answer", "error"} /\ table' = table
    BY <1>17 DEF DeliverAnswer, Arrives, routeVars
  <2>4. FallbacksFail'
    <3> SUFFICES ASSUME NEW d \in Clients, task'[d].op \in Fallbacks
                 PROVE  /\ task'[d].op = "attach" /\ task'[d].reply # "ok" /\ task'[d].target \notin live
                        /\ \A a \in Mail : a.client = d => a.type # "answer"
      BY <1>3, <1>5 DEF FallbacksFail
    <3>1. CASE d # c
      <4>1. task'[d] = task[d]
        BY <2>1, <2>2, <3>1
      <4> QED BY <4>1 DEF Tabled, FallbacksFail
    <3>2. CASE d = c
      <4>1. task'[d].op = task[d].op /\ task'[d].reply = r /\ task'[d].target = m.target
        BY <2>1, <2>2, <3>2 DEF Tasks
      <4>2. /\ task[d].op = "attach" /\ task[d].target \notin live
            /\ \A a \in Mail : a.client = d => a.type # "answer"
        BY <4>1 DEF Tabled, FallbacksFail
      <4>3. r = "error"
        BY <1>3, <2>1, <2>3, <3>2, <4>2
      <4>4. m.target = task[d].target
        BY <1>3, <2>3, <3>2, <4>2 DEF IInv, Routing, AnswersFit, IsAnswer
      <4> QED BY <4>1, <4>2, <4>3, <4>4
    <3> QED BY <3>1, <3>2
  <2> QED BY <1>7, <1>8, <1>9, <1>12, <1>13, <2>3, <2>4 DEF Tabled
<1> QED BY <1>14, <1>15, <1>16, <1>17 DEF Deliver

\* A step of the handlers, or of something else than Chrome, that leaves the table alone.
LEMMA TableStays ==
  ASSUME Tabled, UNCHANGED <<live, seen, unattached, attached, forwards, upstream, table>>,
         asked'[Nobody] = asked[Nobody], FallbacksFail'
  PROVE  Tabled'
<1>1. Mail' = Mail
  BY DEF Mail
<1>2. HandlersOnly' /\ PagesHaveSessions' /\ NewsOfTheGone' /\ NewsInOrder'
  BY <1>1 DEF Tabled, HandlersOnly, PagesHaveSessions, NewsOfTheGone, NewsInOrder
<1>3. TableAccurate'
  BY DEF Tabled, TableAccurate, EventPending
<1> QED BY <1>2, <1>3 DEF Tabled

NoAttachCommands == Commands \cap {"attachToTarget", "detachFromTarget"} = {}

LEMMA OthersTable ==
  ASSUME IInv, Tabled, ~SlowChrome, NoAttachCommands,
         \/ PoolStep
         \/ \E t \in Targets : ParkExpires(t)
         \/ \E c \in Clients : Connect(c) \/ Disconnect(c)
         \/ \E c \in Clients, op \in AllCommands, t \in Targets, n \in 0..MaxSessions :
              Forward(c, op, t, n)
         \/ \E c \in Clients : Timeout(c)
         \/ UNCHANGED vars
  PROVE  Tabled'
<1>1. /\ \A c \in Clients : ~Timeout(c)
      /\ \A c, op, t, n : ~Forward(c, op, t, n)
  BY DEF Timeout, Forward, Handles, NoAttachCommands
<1>2. UNCHANGED <<live, seen, unattached, attached, asked, forwards, upstream, table, task>>
  BY <1>1 DEF PoolStep, Pool!LeaseCheck, Pool!LeaseCreated, Pool!ChromeRefuses, Pool!Release,
         Pool!chromeVars, ParkExpires, Connect, Disconnect, outside, vars, poolVars, chromeVars, pageVars,
         muxVars, routeVars
<1>3. FallbacksFail'
  BY <1>2 DEF Tabled, FallbacksFail, Mail
<1> QED BY <1>2, <1>3, TableStays

\* A handler attaches explicitly only to a page that is gone.
LEMMA HandlersTable ==
  ASSUME IInv, Tabled, ~SlowChrome, NEW c \in Clients,
         \/ StartReplay(c) \/ StartCreate(c) \/ \E t \in Targets : StartClose(c, t)
         \/ Continue(c)
  PROVE  Tabled'
<1>1. ~FallbackAttached(c) /\ ~FallbackDescribed(c)
  BY DEF FallbackAttached, FallbackDescribed, Tabled, FallbacksFail, Fallbacks
<1>2. UNCHANGED <<live, seen, unattached, attached, forwards, upstream, table>>
  BY <1>1 DEF StartReplay, StartCreate, StartClose, Continue, ReplayKnown, ReplayFallback,
         FallbackFailed, CreateAdopts, CreateFails, CloseReplied, Pool!Adopt, Pool!Drop,
         Pool!chromeVars, outside, poolVars, chromeVars, pageVars, routeVars
<1>3. Mail' = Mail /\ TypeOK /\ task \in [Clients -> Tasks]
  BY <1>2 DEF Mail, IInv, TypeOK, Tasks
<1>4. asked'[Nobody] = asked[Nobody]
  <2>1. asked' = asked \/ \E r : asked' = [asked EXCEPT ![c] = r]
    BY <1>1 DEF StartReplay, StartCreate, StartClose, Continue, ReplayKnown, ReplayFallback,
           FallbackFailed, CreateAdopts, CreateFails, CloseReplied, Asks, outside, chromeVars
  <2> QED BY <1>3, <2>1, MuxTargetsAssumption DEF TypeOK
<1>5. ASSUME \A d \in Clients \ {c} : task'[d] = task[d],
             task'[c].op \in Fallbacks =>
               /\ task'[c].op = "attach" /\ task'[c].reply # "ok" /\ task'[c].target \notin live
               /\ \A m \in Mail : m.client = c => m.type # "answer"
      PROVE  Tabled'
  <2>1. FallbacksFail'
    BY <1>2, <1>3, <1>5 DEF Tabled, FallbacksFail
  <2> QED BY <1>2, <1>4, <2>1, TableStays
<1>6. ASSUME NEW t \in Targets, ReplayFallback(c, t) PROVE Tabled'
  <2>1. /\ task' = [task EXCEPT ![c].op = "attach", ![c].target = t, ![c].reply = "none"]
        /\ task[c].op = "replay" /\ table[t] = 0 /\ ~EventPending(t)
    BY <1>6 DEF ReplayFallback
  <2>2. /\ \A d \in Clients \ {c} : task'[d] = task[d]
        /\ task'[c].op = "attach" /\ task'[c].reply = "none" /\ task'[c].target = t
    BY <1>3, <2>1 DEF Tasks
  <2>3. t \notin live
    BY <2>1 DEF Tabled, TableAccurate, PagesHaveSessions, EventPending
  <2>4. ~Answered(c)
    BY <2>1, Unblocked DEF Waits
  <2> QED BY <1>5, <2>2, <2>3, <2>4 DEF Answered, IsAnswer
<1>7. ASSUME NEW todo, NEW granted, Replays(c, todo, granted) PROVE Tabled'
  <2>1. /\ \A d \in Clients \ {c} : task'[d] = task[d]
        /\ task'[c].op \in {"replay", "idle"}
    BY <1>3, <1>7, ReplaysDo
  <2> QED BY <1>5, <2>1 DEF Fallbacks
<1>8. ASSUME NEW r, task' = [task EXCEPT ![c] = r], r.op \notin Fallbacks PROVE Tabled'
  <2>1. task'[c] = r /\ \A d \in Clients \ {c} : task'[d] = task[d]
    BY <1>3, <1>8
  <2> QED BY <1>5, <1>8, <2>1
<1>9. ASSUME StartReplay(c) \/ FallbackFailed(c) \/ \E t \in Targets : ReplayKnown(c, t)
      PROVE  Tabled'
  BY <1>7, <1>9 DEF StartReplay, FallbackFailed, ReplayKnown, Passes
<1>10. ASSUME CreateAdopts(c) \/ CreateFails(c) \/ CloseReplied(c) PROVE Tabled'
  <2>1. task' = [task EXCEPT ![c] = Idle]
    BY <1>10 DEF CreateAdopts, CreateFails, CloseReplied
  <2>2. Idle.op \notin Fallbacks
    BY DEF Idle, Fallbacks
  <2> QED BY <1>8, <2>1, <2>2
<1>11. ASSUME StartCreate(c) \/ \E t \in Targets : StartClose(c, t) PROVE Tabled'
  <2>1. /\ [Idle EXCEPT !.op = "createTarget"].op \notin Fallbacks
        /\ \A t : [Idle EXCEPT !.op = "closeTarget", !.target = t].op \notin Fallbacks
    BY DEF Idle, Fallbacks
  <2> QED BY <1>8, <1>11, <2>1 DEF StartCreate, StartClose
<1> QED BY <1>1, <1>6, <1>9, <1>10, <1>11 DEF Continue

\* The table has a session of every page that has one, and none that is gone, once the
\* events that say so are read (mux.ts:252-253, 450): if no deadline of the mux passes
\* before Chrome has answered, and clients leave attaching to it.  Otherwise a replay
\* may attach a second time and a detach of either session clears the entry.
THEOREM TableKept == ~SlowChrome /\ NoAttachCommands => (Spec => []TableAccurate)
<1> SUFFICES ASSUME ~SlowChrome, NoAttachCommands PROVE Spec => []TableAccurate
  OBVIOUS
<1>1. Init => Tabled
  <2> SUFFICES ASSUME Init PROVE Tabled
    OBVIOUS
  <2>1. Mail = {} /\ DOMAIN upstream = {}
    BY DEF Init, Mail, MailOf
  <2>2. HandlersOnly /\ PagesHaveSessions
    BY DEF Init, Pool!Init, HandlersOnly, PagesHaveSessions, NoCommand
  <2>3. NewsOfTheGone /\ NewsInOrder
    BY <2>1 DEF NewsOfTheGone, NewsInOrder
  <2>4. \A c \in Clients : task[c].op = "idle"
    BY DEF Init, Idle
  <2>5. FallbacksFail
    BY <2>4 DEF FallbacksFail, Fallbacks
  <2>6. TableAccurate
    BY DEF Init, Pool!Init, TableAccurate
  <2> QED BY <2>2, <2>3, <2>5, <2>6 DEF Tabled
<1>2. IInv /\ Tabled /\ [Next]_vars => Tabled'
  <2> SUFFICES ASSUME IInv, Tabled, [Next]_vars PROVE Tabled'
    OBVIOUS
  <2>1. ASSUME NEW c \in Clients, ClientSends(c) \/ Continue(c) \/ Timeout(c)
        PROVE  Tabled'
    BY <2>1, HandlersTable, OthersTable DEF ClientSends
  <2> QED BY <2>1, ChromeTables, DeliverTables, OthersTable DEF Next
<1>3. Tabled => TableAccurate
  BY DEF Tabled
<1> QED BY <1>1, <1>2, <1>3, InductiveInvariant, PTL DEF Spec

-----------------------------------------------------------------------------
(* The page a client creates, as long as no deadline passes before Chrome  *)
(* has answered, clients do not attach by themselves, and an agent has one *)
(* connection.                                                             *)

\* The attach event of t has come and gone.
Settled(t) == minted[t] > 0 /\ t \notin unattached /\ ~Announced(t)

\* t is announced once at most.
OneEvent(t) ==
  \A i, j \in DOMAIN upstream :
    (/\ upstream[i].type = "attached" /\ upstream[i].target = t
     /\ upstream[j].type = "attached" /\ upstream[j].target = t) => i = j

\* t was made for a client.
Made(t) == creator[t] # Nobody \/ \E c \in Clients : Pending(c, t)

\* Such a page is attached to once, by Chrome itself, and no replay knows of it.
MadeOnce(t) ==
  /\ t \in foreign /\ opener[t] = NoTarget /\ t \notin suppress
  /\ \A c \in Clients : ~Replaying(c, t)
  /\ t \in unattached => minted[t] = 0
  /\ OneEvent(t)
  /\ parked[t] # 0 => Settled(t)

\* Before its client leases it, its event is parked; afterwards the client is told.
Awaited(c, t) == creator[t] = Nobody /\ (Settled(t) => parked[t] # 0)
Shown(t) ==
  LET c == creator[t] IN
  /\ c \in ready /\ (Open(c) \/ c \in left) /\ leases[t] \in {AgentOf[c], NoAgent}
  /\ Open(c) /\ leases[t] = AgentOf[c] => told[c][t] = IF Settled(t) THEN 1 ELSE 0

AttachesAreReplays ==
  asked[Nobody].op = "none" /\ \A f \in forwards : f.op # "attachToTarget"

EventsAreMinted ==
  /\ \A m \in Mail : m.type = "attached" => m.session # 0 /\ minted[m.target] > 0
  /\ \A t \in Targets \ seen : minted[t] = 0 /\ parked[t] = 0 /\ t \notin unattached

Creation ==
  /\ AttachesAreReplays
  /\ EventsAreMinted
  /\ \A t \in Targets : Made(t) => MadeOnce(t)
  /\ \A c \in Clients, t \in Targets : Pending(c, t) => Awaited(c, t)
  /\ \A t \in Targets : creator[t] # Nobody => Shown(t)

\* All of this for one page.
Kept(t) ==
  /\ Made(t) => MadeOnce(t)
  /\ \A c \in Clients : Pending(c, t) => Awaited(c, t)
  /\ creator[t] # Nobody => Shown(t)

\* A step that neither announces nor parks t, grants or replays it.
LEMMA PageStays ==
  ASSUME IInv, Creation, NEW t \in Targets, ready \subseteq ready', creator'[t] = creator[t],
         UNCHANGED <<unattached, minted, opener, foreign>>,
         \A c \in Clients : Pending(c, t)' => Pending(c, t),
         Made(t) =>
           /\ Announced(t)' <=> Announced(t)
           /\ OneEvent(t) => OneEvent(t)'
           /\ parked'[t] = parked[t] \/ (parked'[t] = 0 /\ \A c \in Clients : ~Pending(c, t)')
           /\ t \in suppress' => t \in suppress
           /\ leases'[t] \in {leases[t], NoAgent}
           /\ \A c \in Clients : told'[c][t] = told[c][t] /\ (Replaying(c, t)' => Replaying(c, t)),
         \A c \in Clients : c \in ready =>
           (Open(c)' => Open(c)) /\ (Open(c) \/ c \in left => Open(c)' \/ c \in left')
  PROVE  Kept(t)'
<1>1. Made(t) => (Settled(t)' <=> Settled(t))
  BY DEF Settled
<1>2. Made(t)' => Made(t) /\ MadeOnce(t)'
  <2>1. Made(t)' => Made(t)
    BY DEF Made
  <2>2. Made(t) => MadeOnce(t)
    BY DEF Creation
  <2> QED BY <1>1, <2>1, <2>2 DEF MadeOnce
<1>3. ASSUME NEW c \in Clients, Pending(c, t)' PROVE Awaited(c, t)'
  BY <1>1, <1>3 DEF Creation, Awaited, Made
<1>4. ASSUME creator'[t] # Nobody PROVE Shown(t)'
  <2>1. Shown(t) /\ Made(t) /\ creator'[t] = creator[t]
    BY <1>4 DEF Creation, Made
  <2>2. creator[t] \in Clients
    BY <1>4 DEF IInv, TypeOK
  <2> QED BY <1>1, <2>1, <2>2 DEF Shown
<1> QED BY <1>2, <1>3, <1>4 DEF Kept

\* Chrome makes pages, attaches to each once, and closes them.
LEMMA ChromeCreation ==
  ASSUME IInv, Creation, ChromeStep
  PROVE  Creation'
<1>1. PICK s : Posting(s)
  BY ChromePosts
<1>2. UNCHANGED <<leases, conns, left, parked, suppress, task, ready, told, creator>>
  BY ChromePosts
<1>3. upstream \in Seq(Messages) /\ s \in Seq(Messages) /\ upstream' = upstream \o s
  BY <1>1 DEF IInv, TypeOK, Messages, Posting
<1>4. Mail' = Mail \cup MailOf(s)
  BY <1>3, MailOfConcat DEF Mail
<1>5. /\ minted \in [Targets -> 0..MaxSessions] /\ opener \in [Targets -> Targets \cup {NoTarget}]
      /\ asked \in [Clients \cup {Nobody} ->
           [op : {"none", "created", "getTargetInfo"} \cup AllCommands, target : Targets \cup {NoTarget}]]
      /\ live \subseteq Targets /\ live \subseteq seen /\ foreign \subseteq seen
  BY DEF IInv, Routing, PagesAreFresh, TypeOK, Pool!TypeOK
<1>6. /\ \A i \in DOMAIN upstream : i \in DOMAIN upstream' /\ upstream'[i] = upstream[i]
      /\ \A i \in DOMAIN upstream' \ DOMAIN upstream :
           i - Len(upstream) \in DOMAIN s /\ upstream'[i] = s[i - Len(upstream)]
      /\ \A i, j \in DOMAIN upstream' : i - Len(upstream) = j - Len(upstream) => i = j
  BY <1>3
<1>7. \A c \in Clients : asked[c].op # "none" =>
        /\ task[c].op = "createTarget" <=> asked[c].op \in {"createTarget", "created"}
        /\ task[c].op = "attach" <=> asked[c].op = "attachToTarget"
        /\ task[c].op # "createTarget" => asked[c].target = task[c].target
  BY DEF IInv, Routing, OneCommand
<1>8. \A t, i : AttachOf(t, s) /\ i \in DOMAIN s /\ i # 1 => s[i].type \in {"answer", "attachAnswer"}
  BY DEF AttachOf
<1>9. ASSUME NEW t, AttachOf(t, s)
      PROVE  /\ t \in seen /\ t \in Targets /\ s[1].type = "attached" /\ s[1].target = t
             /\ s[1].session # 0 /\ 1 \in DOMAIN s
             /\ minted'[t] > 0 /\ \A u \in Targets \ {t} : minted'[u] = minted[u]
             /\ Announced(t)'
             /\ \A u \in Targets \ {t} : u \in unattached' <=> u \in unattached
  <2>1. 1 \in DOMAIN s /\ s[1] = Attached(t, minted[t] + 1) /\ t \in Targets
        /\ minted' = [minted EXCEPT ![t] = @ + 1]
    BY <1>9 DEF AttachOf, Mint
  <2>2. /\ Attached(t, minted[t] + 1).type = "attached" /\ Attached(t, minted[t] + 1).target = t
        /\ Attached(t, minted[t] + 1).session = minted[t] + 1
    BY DEF Attached, Message
  <2>3. minted[t] + 1 # 0 /\ minted'[t] > 0 /\ \A u \in Targets \ {t} : minted'[u] = minted[u]
    BY <1>5, <2>1
  <2>4. s[1].type = "attached" /\ s[1].target = t /\ s[1].session # 0
    BY <2>1, <2>2, <2>3
  <2>5. Announced(t)'
    BY <1>4, <2>1, <2>4 DEF Announced, MailOf
  <2>6. t \in unattached \/ t \in live
    BY <1>9 DEF AttachOf
  <2>7. t \in seen
    BY <1>5, <2>1, <2>6 DEF Creation, EventsAreMinted
  <2>8. \A u \in Targets \ {t} : u \in unattached' <=> u \in unattached
    BY <1>9 DEF AttachOf
  <2> QED BY <2>1, <2>3, <2>4, <2>5, <2>7, <2>8
<1>10. ASSUME NEW t, AttachOf(t, s), Made(t)
       PROVE  t \in unattached /\ unattached' = unattached \ {t}
  <2>1. t \in Targets /\ MadeOnce(t)
    BY <1>9, <1>10 DEF Creation
  <2>2. ASSUME NEW c \in Clients \cup {Nobody}, asked[c].op = "attachToTarget", asked[c].target = t
        PROVE  FALSE
    <3>1. c \in Clients
      BY <2>2 DEF Creation, AttachesAreReplays
    <3>2. Replaying(c, t)
      BY <1>7, <2>2, <3>1 DEF Replaying
    <3> QED BY <2>1, <3>1, <3>2 DEF MadeOnce
  <2> QED BY <1>10, <2>2 DEF AttachOf, Creation, AttachesAreReplays
<1>11. AttachesAreReplays'
  <2>1. ASSUME NEW c \in Clients \cup {Nobody}, NEW r, asked[c].op # "none", asked' = [asked EXCEPT ![c] = r]
        PROVE  asked'[Nobody] = asked[Nobody]
    BY <1>5, <2>1 DEF Creation, AttachesAreReplays
  <2>2. asked'[Nobody] = asked[Nobody]
    BY <1>1, <2>1 DEF Posting, BirthOf, DeathOf, AttachOf, ReplyOf, ForwardOf, Done
  <2>3. forwards' \subseteq forwards
    BY <1>1 DEF Posting, BirthOf, DeathOf, AttachOf, ReplyOf, ForwardOf
  <2> QED BY <2>2, <2>3 DEF Creation, AttachesAreReplays
<1>12. ASSUME NEW m \in MailOf(s), m.type = "attached"
       PROVE  m.session # 0 /\ AttachOf(m.target, s)
  <2>1. ASSUME NEW t, AttachOf(t, s) PROVE m.session # 0 /\ AttachOf(m.target, s)
    <3>1. PICK i \in DOMAIN s : m = s[i]
      BY DEF MailOf
    <3> QED BY <1>8, <1>9, <1>12, <2>1, <3>1
  <2> QED BY <1>1, <1>12, <2>1 DEF Posting, BirthOf, DeathOf, ReplyOf, ForwardOf
<1>13. EventsAreMinted'
  <2>1. \A t \in Targets : minted[t] > 0 => minted'[t] > 0
    BY <1>1, <1>9 DEF Posting, BirthOf, DeathOf, ReplyOf, ForwardOf
  <2>2. ASSUME NEW m \in Mail', m.type = "attached" PROVE m.session # 0 /\ minted'[m.target] > 0
    <3>1. CASE m \in Mail
      <4>1. m.target \in Targets
        BY <2>2, <3>1 DEF IInv, Routing, MailNamesPages
      <4> QED BY <2>1, <2>2, <3>1, <4>1 DEF Creation, EventsAreMinted
    <3>2. CASE m \in MailOf(s)
      BY <1>9, <1>12, <2>2, <3>2
    <3> QED BY <1>4, <3>1, <3>2
  <2>3. ASSUME NEW t \in Targets \ seen' PROVE minted'[t] = 0 /\ parked'[t] = 0 /\ t \notin unattached'
    <3>1. seen \subseteq seen'
      BY <1>1 DEF Posting, BirthOf, DeathOf, AttachOf, ReplyOf, ForwardOf
    <3>2. minted[t] = 0 /\ parked[t] = 0 /\ t \notin unattached /\ t \notin seen
      BY <2>3, <3>1 DEF Creation, EventsAreMinted
    <3>3. minted'[t] = 0
      BY <1>1, <1>9, <3>2 DEF Posting, BirthOf, DeathOf, ReplyOf, ForwardOf
    <3>4. t \notin unattached'
      BY <1>1, <1>9, <2>3, <3>2 DEF Posting, BirthOf, DeathOf, AttachOf, ReplyOf, ForwardOf
    <3> QED BY <1>2, <3>2, <3>3, <3>4
  <2> QED BY <2>2, <2>3 DEF EventsAreMinted
<1>14. ASSUME NEW t \in Targets, ~AttachOf(t, s) PROVE Announced(t)' <=> Announced(t)
  BY <1>4, <1>12, <1>14 DEF Announced
<1>15. ASSUME NEW t \in Targets, Made(t) PROVE (Settled(t)' <=> Settled(t)) /\ MadeOnce(t)'
  <2>1. MadeOnce(t) /\ t \in seen
    BY <1>5, <1>15 DEF Creation, MadeOnce
  <2>2. /\ t \in foreign' /\ opener'[t] = opener[t]
        /\ \A c \in Clients : Replaying(c, t)' <=> Replaying(c, t)
    BY <1>1, <1>2, <2>1 DEF Posting, BirthOf, DeathOf, AttachOf, ReplyOf, ForwardOf, MadeOnce, Replaying
  <2>3. CASE AttachOf(t, s)
    <3>1. t \in unattached /\ unattached' = unattached \ {t} /\ Announced(t)'
      BY <1>9, <1>10, <1>15, <2>3
    <3>2. ~Settled(t) /\ ~Settled(t)' /\ ~Announced(t) 
      BY <2>1, <3>1 DEF Settled, MadeOnce, Creation, EventsAreMinted, Announced
    <3>3. OneEvent(t)'
      <4>1. ASSUME NEW i \in DOMAIN upstream', upstream'[i].type = "attached", upstream'[i].target = t
            PROVE  i - Len(upstream) = 1
        <5>1. i \notin DOMAIN upstream
          BY <1>6, <3>2, <4>1 DEF Announced, Mail, MailOf
        <5> QED BY <1>6, <1>8, <2>3, <4>1, <5>1
      <4> QED BY <1>6, <4>1 DEF OneEvent
    <3> QED BY <1>2, <2>1, <2>2, <3>1, <3>2, <3>3 DEF MadeOnce
  <2>4. CASE ~AttachOf(t, s)
    <3>1. /\ minted'[t] = minted[t]
          /\ t \in unattached' => t \in unattached
          /\ t \in unattached => t \in unattached' \/ minted[t] = 0
      BY <1>1, <1>9, <2>1, <2>4 DEF Posting, BirthOf, DeathOf, ReplyOf, ForwardOf, MadeOnce
    <3>2. Settled(t)' <=> Settled(t)
      BY <1>5, <1>14, <2>4, <3>1 DEF Settled
    <3>3. OneEvent(t)'
      <4>1. \A i \in DOMAIN upstream' :
              upstream'[i].type = "attached" /\ upstream'[i].target = t => i \in DOMAIN upstream
        BY <1>6, <1>12, <2>4 DEF MailOf
      <4> QED BY <1>6, <2>1, <4>1 DEF OneEvent, MadeOnce
    <3> QED BY <1>2, <2>1, <2>2, <3>1, <3>2, <3>3 DEF MadeOnce
  <2> QED BY <2>3, <2>4
<1>16. ASSUME NEW c \in Clients, NEW t \in Targets, Pending(c, t)', ~Pending(c, t)
       PROVE  BirthOf(t, s) /\ t \in foreign' /\ opener'[t] = NoTarget
  <2>1. ASSUME asked'[c].op = "created", asked'[c].target = t
        PROVE  BirthOf(t, s) /\ t \in foreign' /\ opener'[t] = NoTarget
    <3>1. asked'[c] # asked[c]
      BY <1>16, <2>1 DEF Pending
    <3>2. ASSUME NEW d \in Clients \cup {Nobody}, Done(d) PROVE FALSE
      BY <1>5, <2>1, <3>1, <3>2 DEF Done, NoCommand
    <3>3. PICK u : BirthOf(u, s)
      BY <1>1, <3>1, <3>2 DEF Posting, DeathOf, AttachOf, ReplyOf, ForwardOf
    <3>4. PICK d \in Clients \cup {Nobody} : asked' = [asked EXCEPT ![d] = Command("created", u)]
      BY <3>1, <3>3 DEF BirthOf
    <3>5. d = c /\ u = t
      BY <1>5, <2>1, <3>1, <3>4 DEF Command
    <3> QED BY <3>1, <3>3, <3>5 DEF BirthOf
  <2>2. ASSUME NEW m \in MailOf(s), task[c].op = "createTarget", m.type = "answer", m.client = c, m.target = t
        PROVE  FALSE
    <3>1. ASSUME NEW u, AttachOf(u, s) PROVE FALSE
      <4>1. PICK i \in DOMAIN s : m = s[i]
        BY DEF MailOf
      <4> QED BY <1>7, <1>9, <2>2, <3>1, <4>1 DEF AttachOf
    <3>2. ASSUME NEW d, ReplyOf(d, s) PROVE FALSE
      BY <1>7, <1>16, <2>2, <3>2 DEF ReplyOf, Pending
    <3> QED BY <1>1, <1>7, <2>2, <3>1, <3>2 DEF Posting, BirthOf, DeathOf, ForwardOf
  <2> QED BY <1>2, <1>4, <1>16, <2>1, <2>2 DEF Pending
<1>17. ASSUME NEW c \in Clients, NEW t \in Targets, Pending(c, t)', ~Made(t)
       PROVE  MadeOnce(t)' /\ Awaited(c, t)'
  <2>1. BirthOf(t, s) /\ t \in foreign' /\ opener'[t] = NoTarget
    BY <1>16, <1>17 DEF Made
  <2>2. t \notin seen /\ minted' = minted /\ \A m \in MailOf(s) : m.type = "created"
    BY <2>1 DEF BirthOf
  <2>3. minted'[t] = 0 /\ parked'[t] = 0 /\ creator'[t] = Nobody
    BY <1>2, <1>17, <2>2 DEF Creation, EventsAreMinted, Made
  <2>4. \A d \in Clients : ~Replaying(d, t)'
    BY <1>2, <2>2, ReplaysAreOfSeen DEF Replaying
  <2>5. ~Announced(t)'
    BY <1>4, <2>2, <2>3 DEF Announced, Creation, EventsAreMinted
  <2>6. t \notin suppress'
    <3>1. t \notin suppress
      BY <2>2, <2>3, ReplaysAreOfSeen DEF IInv, Routing, MarksAreMeant, Replaying, Creation, EventsAreMinted
    <3> QED BY <1>2, <3>1
  <2>7. OneEvent(t)'
    BY <2>5 DEF OneEvent, Announced, Mail, MailOf
  <2>8. ~Settled(t)'
    BY <2>3 DEF Settled
  <2> QED BY <2>1, <2>3, <2>4, <2>6, <2>7, <2>8 DEF MadeOnce, Awaited
<1>18. ASSUME NEW t \in Targets, Made(t)' PROVE MadeOnce(t)'
  BY <1>2, <1>15, <1>17, <1>18 DEF Made
<1>19. ASSUME NEW c \in Clients, NEW t \in Targets, Pending(c, t)' PROVE Awaited(c, t)'
  <2>1. CASE Pending(c, t)
    <3>1. Awaited(c, t) /\ Made(t)
      BY <2>1 DEF Creation, Made
    <3> QED BY <1>2, <1>15, <3>1 DEF Awaited
  <2>2. CASE ~Pending(c, t)
    <3>1. t \in Targets \ seen /\ creator[t] = Nobody
      BY <1>5, <1>16, <1>19, <2>2 DEF BirthOf, Creation, Made, MadeOnce
    <3>2. ~Made(t)
      BY <1>5, <3>1 DEF Creation, MadeOnce
    <3> QED BY <1>17, <1>19, <3>2
  <2> QED BY <2>1, <2>2
<1>20. ASSUME NEW t \in Targets, creator'[t] # Nobody PROVE Shown(t)'
  <2>1. Shown(t) /\ Made(t) /\ creator'[t] = creator[t]
    BY <1>2, <1>20 DEF Creation, Made
  <2>2. Settled(t)' <=> Settled(t)
    BY <1>15, <2>1
  <2> QED BY <1>2, <2>1, <2>2 DEF Shown, Open
<1> QED BY <1>11, <1>13, <1>18, <1>19, <1>20 DEF Creation


\* A page that an open connection's agent leases is routed to somebody.
LEMMA RoutedToSomebody ==
  ASSUME NEW L, NEW t \in Targets, NEW c \in Clients, conns \in Seq(Clients), Open(c), L[t] = AgentOf[c]
  PROVE  ClientFor(L, t) # Nobody
<1> DEFINE S == {i \in DOMAIN conns : L[t] = AgentOf[conns[i]]}
           k == CHOOSE i \in S : \A j \in S : i <= j
<1>1. S # {}
  BY DEF Open
<1>2. ClientFor(L, t) = conns[k]
  BY <1>1 DEF ClientFor
<1>3. S \in SUBSET Nat
  OBVIOUS
<1>4. \E i \in S : \A j \in S : i <= j
  BY <1>1, <1>3, LeastNumber
<1>5. k \in S
  BY <1>4
<1>6. conns[k] \in Clients
  BY <1>5
<1> QED BY <1>2, <1>6, MuxTargetsAssumption

\* A page in the making has no lease, and nobody was told of it.
LEMMA PendingIsFree ==
  ASSUME IInv, NEW c \in Clients, NEW t \in Targets, Pending(c, t)
  PROVE  leases[t] = NoAgent /\ \A d \in Clients : told[d][t] = 0
<1>1. PICK fam \in [Targets -> Agents \cup {NoAgent}] : Explains(fam)
  BY DEF IInv, Routing, Affinity
<1>2. fam[t] = NoAgent
  BY <1>1 DEF Explains
<1>3. leases[t] = NoAgent
  BY <1>1, <1>2 DEF Explains
<1>4. ASSUME NEW d \in Clients PROVE told[d][t] = 0
  <2>1. ~Holds(d, t)
    BY <1>1, <1>2, MuxTargetsAssumption DEF Explains, Serves
  <2>2. told[d][t] \in 0..2
    BY DEF IInv, TypeOK
  <2> QED BY <2>1, <2>2 DEF Holds
<1> QED BY <1>3, <1>4

OneConnectionEach == \A c, d \in Clients : AgentOf[c] = AgentOf[d] => c = d

\* What is read from Chrome.
LEMMA DeliverCreation ==
  ASSUME IInv, Creation, OneConnectionEach, Deliver
  PROVE  Creation'
<1> SUFFICES ASSUME NEW m, m = Head(upstream), NEW u, u = m.target PROVE Creation'
  OBVIOUS
<1>1. /\ upstream \in Seq(Messages) /\ NoTwoAnswers /\ MailNamesPages /\ upstream # <<>>
      /\ upstream' = Tail(upstream)
      /\ parked \in [Targets -> 0..MaxSessions] /\ TypeOK /\ conns \in Seq(Clients)
  BY DEF IInv, Routing, TypeOK, Messages, Deliver, DeliverCreated, DeliverAttached, DeliverDetached,
         DeliverDestroyed, DeliverAnswer, DeliverAttachAnswer, Arrives
<1>2. Arrives(m.type)
  BY <1>1 DEF Arrives
<1>3. m \in Mail /\ Mail' \subseteq Mail /\ Mail \subseteq Mail' \cup {m}
  BY <1>1, <1>2, Reads
<1>4. /\ \A i \in DOMAIN upstream' : i + 1 \in DOMAIN upstream /\ upstream'[i] = upstream[i + 1] /\ i + 1 # 1
      /\ DOMAIN upstream' \subseteq Nat
      /\ 1 \in DOMAIN upstream /\ m = upstream[1]
  BY <1>1
<1>5. UNCHANGED <<live, seen, foreign, chromeVars, conns, left, ready, creator>>
  BY DEF Deliver, DeliverCreated, DeliverAttached, DeliverDetached, DeliverDestroyed, DeliverAnswer,
         DeliverAttachAnswer, AdoptByOpener, Pool!Adopt, Pool!chromeVars, poolVars, muxVars, connVars, viewVars
<1>6. UNCHANGED <<unattached, minted, opener, asked, forwards>>
  BY <1>5 DEF chromeVars, pageVars
<1>7. AttachesAreReplays'
  BY <1>6 DEF Creation, AttachesAreReplays
<1>8. \A t : OneEvent(t) => OneEvent(t)'
  BY <1>4 DEF OneEvent
<1>9. \A c \in Clients : Open(c)' <=> Open(c)
  BY <1>5 DEF Open
<1>10. ASSUME \A t \in Targets \ seen : parked'[t] = parked[t], \A t \in Targets : Kept(t)'
       PROVE  Creation'
  <2>1. EventsAreMinted'
    BY <1>3, <1>5, <1>6, <1>10 DEF Creation, EventsAreMinted
  <2> QED BY <1>7, <1>10, <2>1 DEF Creation, Kept
<1>11. ASSUME AdoptByOpener(u), u \in Targets, NEW t \in Targets, opener[t] = NoTarget
       PROVE  leases'[t] = leases[t]
  BY <1>1, <1>11 DEF AdoptByOpener, Inherits, Pool!Adopt, Pool!Register, poolVars, TypeOK, Pool!TypeOK
<1>12. ASSUME NEW t \in Targets, parked'[t] = parked[t], m.type # "attached" \/ u # t,
              \A c \in Clients : Pending(c, t)' => Pending(c, t),
              \A c \in Clients : Replaying(c, t)' => Replaying(c, t),
              suppress' \subseteq suppress,
              \A c \in Clients : told'[c][t] = told[c][t],
              opener[t] = NoTarget => leases'[t] = leases[t]
       PROVE  Kept(t)'
  <2>1. Announced(t)' <=> Announced(t)
    BY <1>3, <1>12 DEF Announced
  <2>2. Made(t) => opener[t] = NoTarget
    BY DEF Creation, MadeOnce
  <2> QED BY <1>5, <1>6, <1>8, <1>9, <1>12, <2>1, <2>2, PageStays
<1>13. ASSUME task' = task
       PROVE  \A c \in Clients, t \in Targets :
                (Pending(c, t)' => Pending(c, t)) /\ (Replaying(c, t)' => Replaying(c, t))
  BY <1>3, <1>6, <1>13 DEF Pending, Replaying
<1>14. CASE DeliverCreated \/ DeliverDetached \/ DeliverDestroyed \/ DeliverAttachAnswer
  <2>1. /\ m.type # "attached" /\ UNCHANGED <<parked, task, told>> /\ suppress' \subseteq suppress
        /\ m.type \in {"created", "detached", "destroyed", "attachAnswer"}
        /\ AdoptByOpener(u) \/ leases' = leases
    BY <1>14 DEF DeliverCreated, DeliverDetached, DeliverDestroyed, DeliverAttachAnswer, Arrives, muxVars,
                 routeVars, viewVars, poolVars
  <2>2. u \in Targets
    BY <1>3, <1>1, <2>1 DEF MailNamesPages
  <2>3. \A t \in Targets : opener[t] = NoTarget => leases'[t] = leases[t]
    BY <1>11, <2>1, <2>2
  <2> QED BY <1>10, <1>12, <1>13, <2>1, <2>3
<1>15. CASE DeliverAnswer
  <2> SUFFICES ASSUME NEW c, c = m.client
               PROVE  Creation'
    OBVIOUS
  <2>1. PICK r, n : /\ r = IF m.type = "answer" THEN "ok" ELSE "error"
                    /\ task' = [task EXCEPT ![c].reply = r, ![c].session = n,
                                            ![c].target = m.target]
    BY <1>15 DEF DeliverAnswer
  <2>2. task \in [Clients -> Tasks]
    BY <1>1 DEF TypeOK, Tasks
  <2>3. m.type \in {"answer", "error"} /\ UNCHANGED <<parked, suppress, told, leases>>
    BY <1>15 DEF DeliverAnswer, Arrives, routeVars, viewVars, poolVars
  <2>4. ASSUME NEW d \in Clients, NEW t \in Targets
        PROVE  (Pending(d, t)' => Pending(d, t)) /\ (Replaying(d, t)' => Replaying(d, t))
    <3>1. CASE d # c
      <4>1. task'[d] = task[d]
        BY <2>1, <2>2, <3>1
      <4> QED BY <1>3, <1>6, <4>1 DEF Pending, Replaying
    <3>2. CASE d = c
      <4>1. task'[d].op = task[d].op /\ task'[d].todo = task[d].todo /\ task'[d].reply = r
            /\ task'[d].target = m.target
        BY <2>1, <2>2, <3>2 DEF Tasks
      <4>2. task[d].op # "createTarget" => m.target = task[d].target
        BY <1>3, <2>3, <3>2 DEF IInv, Routing, AnswersFit, IsAnswer
      <4>3. r = "ok" => m.type = "answer"
        BY <2>1
      <4> QED BY <1>3, <1>6, <3>2, <4>1, <4>2, <4>3 DEF Pending, Replaying
    <3> QED BY <3>1, <3>2
  <2> QED BY <1>10, <1>12, <2>3, <2>4
<1>16. CASE DeliverAttached
  <2>1. /\ m.type = "attached" /\ AdoptByOpener(u) /\ task' = task
    BY <1>16 DEF DeliverAttached, Arrives
  <2>2. u \in Targets
    BY <1>1, <1>3, <2>1 DEF MailNamesPages
  <2> SUFFICES ASSUME NEW n, n = m.session, NEW c, c = ClientFor(leases', u)
               PROVE  Creation'
    OBVIOUS
  <2>3. \/ u \in suppress /\ suppress' = suppress \ {u} /\ UNCHANGED <<parked, told>>
        \/ u \notin suppress /\ c # Nobody /\ Hand(c, u, n) /\ UNCHANGED <<parked, suppress>>
        \/ u \notin suppress /\ c = Nobody /\ parked' = [parked EXCEPT ![u] = n]
             /\ UNCHANGED <<suppress, told>>
    BY <1>16 DEF DeliverAttached
  <2>4. c # Nobody => c \in Clients /\ leases'[u] = AgentOf[c]
    BY <1>1, <2>2, RoutedToItsAgent
  <2>5. n # 0 /\ minted[u] > 0 /\ u \in seen
    BY <1>3, <2>1, <2>2 DEF Creation, EventsAreMinted
  <2>6. told \in [Clients -> [Targets -> 0..2]]
    BY <1>1 DEF TypeOK
  <2>7. ASSUME NEW t \in Targets \ {u} PROVE Kept(t)' /\ parked'[t] = parked[t]
    <3>1. parked'[t] = parked[t] /\ suppress' \subseteq suppress
      BY <1>1, <2>3
    <3>2. \A d \in Clients : told'[d][t] = told[d][t]
      BY <2>2, <2>3, <2>4, <2>6 DEF Hand
    <3> QED BY <1>11, <1>12, <1>13, <2>1, <2>2, <3>1, <3>2
  <2>8. Kept(u)'
    <3>1. CASE ~Made(u)
      <4>1. ~Made(u)'
        BY <1>5, <1>13, <2>1, <2>2, <3>1 DEF Made
      <4> QED BY <1>5, <4>1 DEF Kept, Made
    <3>2. CASE Made(u)
      <4>1. MadeOnce(u) /\ ~Settled(u) /\ parked[u] = 0 /\ leases' = leases
        <5>1. MadeOnce(u)
          BY <2>2, <3>2 DEF Creation
        <5>2. ~Settled(u)
          BY <1>3, <2>1 DEF Settled, Announced
        <5>3. leases' = leases
          BY <2>1, <5>1 DEF AdoptByOpener, Inherits, MadeOnce, poolVars
        <5> QED BY <5>1, <5>2, <5>3 DEF MadeOnce
      <4>2. Settled(u)'
        <5>1. u \notin unattached
          BY <2>5, <4>1 DEF MadeOnce
        <5>2. ASSUME NEW i \in DOMAIN upstream', upstream'[i].type = "attached", upstream'[i].target = u
              PROVE  FALSE
          BY <1>4, <2>1, <4>1, <5>2 DEF MadeOnce, OneEvent
        <5>3. ~Announced(u)'
          BY <5>2 DEF Announced, Mail, MailOf
        <5> QED BY <1>6, <2>5, <5>1, <5>3 DEF Settled
      <4>3. MadeOnce(u)'
        BY <1>5, <1>6, <1>8, <1>13, <2>1, <2>2, <2>3, <4>1, <4>2 DEF MadeOnce
      <4>4. ASSUME NEW d \in Clients, Pending(d, u)' PROVE Awaited(d, u)'
        <5>1. Pending(d, u)
          BY <1>13, <2>1, <2>2, <4>4
        <5>2. leases[u] = NoAgent /\ creator[u] = Nobody
          BY <2>2, <5>1, PendingIsFree DEF Creation, Awaited
        <5>3. c = Nobody
          BY <2>4, <4>1, <5>2, MuxTargetsAssumption
        <5>4. parked'[u] # 0
          BY <1>1, <2>2, <2>3, <2>5, <4>1, <5>3 DEF MadeOnce
        <5> QED BY <1>5, <5>2, <5>4 DEF Awaited
      <4>5. ASSUME creator[u] # Nobody PROVE Shown(u)'
        <5> SUFFICES ASSUME NEW d, d = creator[u] PROVE Shown(u)'
          OBVIOUS
        <5>1. Shown(u) /\ d \in Clients
          BY <1>1, <2>2, <4>5 DEF Creation, TypeOK
        <5>2. ASSUME Open(d), leases[u] = AgentOf[d] PROVE told'[d][u] = 1
          <6>1. c # Nobody
            BY <1>1, <2>2, <4>1, <5>1, <5>2, RoutedToSomebody
          <6>2. c = d
            BY <2>4, <4>1, <5>1, <5>2, <6>1 DEF OneConnectionEach
          <6>3. told' = [told EXCEPT ![d][u] = Bump(@)]
            BY <2>3, <4>1, <5>2, <6>1, <6>2 DEF Hand, MadeOnce
          <6>4. told[d][u] = 0
            BY <4>1, <5>1, <5>2 DEF Shown
          <6> QED BY <2>2, <2>6, <5>1, <6>3, <6>4 DEF Bump
        <5> QED BY <1>5, <1>9, <4>1, <4>2, <5>1, <5>2 DEF Shown
      <4> QED BY <1>5, <4>3, <4>4, <4>5 DEF Kept
    <3> QED BY <3>1, <3>2
  <2> QED BY <1>10, <2>5, <2>7, <2>8
<1> QED BY <1>14, <1>15, <1>16 DEF Deliver


\* A step that reads and posts nothing.
LEMMA QuietPage ==
  ASSUME IInv, Creation, ready \subseteq ready', AttachesAreReplays',
         UNCHANGED <<unattached, minted, opener, foreign, seen, creator, upstream>>,
         \A c \in Clients, t \in Targets : Pending(c, t)' => Pending(c, t),
         \A t \in Targets : \/ parked'[t] = parked[t]
                            \/ parked'[t] = 0 /\ \A c \in Clients : ~Pending(c, t)',
         \A t \in Targets : Made(t) =>
           /\ t \in suppress' => t \in suppress
           /\ leases'[t] \in {leases[t], NoAgent}
           /\ \A c \in Clients : told'[c][t] = told[c][t] /\ (Replaying(c, t)' => Replaying(c, t)),
         \A c \in Clients : c \in ready =>
           (Open(c)' => Open(c)) /\ (Open(c) \/ c \in left => Open(c)' \/ c \in left')
  PROVE  Creation'
<1>1. \A t : (Announced(t)' <=> Announced(t)) /\ (OneEvent(t) => OneEvent(t)')
  BY DEF Announced, OneEvent, Mail
<1>2. EventsAreMinted'
  BY DEF Creation, EventsAreMinted, Mail
<1>3. ASSUME NEW t \in Targets PROVE Kept(t)'
  BY <1>1, PageStays
<1> QED BY <1>2, <1>3 DEF Creation, Kept

NoAttach == "attachToTarget" \notin Commands

\* The pool's callers, parks, connections and forwarded commands.
LEMMA OthersCreation ==
  ASSUME IInv, Announcing, Creation, ~SlowChrome, NoAttach,
         \/ PoolStep
         \/ \E t \in Targets : ParkExpires(t)
         \/ \E c \in Clients : Connect(c) \/ Disconnect(c)
         \/ \E c \in Clients, op \in AllCommands, t \in Targets, n \in 0..MaxSessions :
              Forward(c, op, t, n)
         \/ \E c \in Clients : Timeout(c)
         \/ UNCHANGED vars
  PROVE  Creation'
<1>1. \A c \in Clients : ~Timeout(c)
  BY DEF Timeout
<1>2. UNCHANGED <<unattached, minted, opener, foreign, seen, creator, upstream, asked, task, told, ready, suppress>>
  BY <1>1 DEF PoolStep, Pool!LeaseCheck, Pool!LeaseCreated, Pool!ChromeRefuses, Pool!Release,
         Pool!chromeVars, ParkExpires, Connect, Disconnect, Forward, outside, vars, poolVars, chromeVars,
         pageVars, muxVars, routeVars, viewVars
<1>3. \A c, t : (Pending(c, t)' <=> Pending(c, t)) /\ (Replaying(c, t)' <=> Replaying(c, t))
  BY <1>2 DEF Pending, Replaying, Mail
<1>4. /\ TypeOK /\ conns \in Seq(Clients) /\ parked \in [Targets -> 0..MaxSessions]
      /\ leases \in [Targets -> Agents \cup {NoAgent}]
  BY DEF IInv, TypeOK, Pool!TypeOK
<1>5. ASSUME AttachesAreReplays',
             \A t \in Targets : \/ parked'[t] = parked[t]
                                \/ parked'[t] = 0 /\ \A c \in Clients : ~Pending(c, t)',
             \A t \in Targets : t \in foreign => leases'[t] \in {leases[t], NoAgent},
             \A c \in Clients : c \in ready =>
               (Open(c)' => Open(c)) /\ (Open(c) \/ c \in left => Open(c)' \/ c \in left')
      PROVE  Creation'
  <2>1. \A t \in Targets : Made(t) => t \in foreign
    BY DEF Creation, MadeOnce
  <2> QED BY <1>2, <1>3, <1>5, <2>1, QuietPage
<1>6. ASSUME UNCHANGED <<conns, left>>
      PROVE  \A c \in Clients : c \in ready =>
               (Open(c)' => Open(c)) /\ (Open(c) \/ c \in left => Open(c)' \/ c \in left')
  BY <1>6 DEF Open
<1>7. CASE PoolStep
  <2>1. UNCHANGED <<conns, left, parked, forwards>>
    BY <1>7 DEF PoolStep, muxVars, connVars, routeVars, chromeVars
  <2>2. ASSUME NEW t \in Targets, t \in foreign PROVE leases'[t] \in {leases[t], NoAgent}
    <3>1. ASSUME NEW k \in Callers, Pool!LeaseCreated(k) PROVE leases'[t] = leases[t]
      <4>1. answer[k] # t
        BY <2>2, <3>1 DEF Pool!LeaseCreated, IInv, Routing, PagesAreFresh
      <4> QED BY <1>4, <3>1, <4>1 DEF Pool!LeaseCreated, Pool!Register
    <3>2. ASSUME NEW u \in Targets, Pool!Release(u) PROVE leases'[t] \in {leases[t], NoAgent}
      BY <1>4, <3>2 DEF Pool!Release
    <3> QED BY <1>7, <3>1, <3>2 DEF PoolStep, Pool!LeaseCheck, Pool!ChromeRefuses
  <2>3. AttachesAreReplays'
    BY <1>2, <2>1 DEF Creation, AttachesAreReplays
  <2> QED BY <1>5, <1>6, <2>1, <2>2, <2>3
<1>8. ASSUME NEW u \in Targets, ParkExpires(u) PROVE Creation'
  <2>1. /\ UNCHANGED <<conns, left, leases, forwards>> /\ parked' = [parked EXCEPT ![u] = 0]
        /\ \A c \in Clients : task[c].op # "createTarget"
    BY <1>8 DEF ParkExpires, outside, poolVars, chromeVars, connVars
  <2>2. \A c \in Clients, t \in Targets : ~Pending(c, t)'
    BY <1>3, <2>1 DEF Pending, IInv, Routing, OneCommand
  <2>3. \A t \in Targets : parked'[t] \in {parked[t], 0}
    BY <1>4, <2>1
  <2>4. AttachesAreReplays'
    BY <1>2, <2>1 DEF Creation, AttachesAreReplays
  <2> QED BY <1>5, <1>6, <2>1, <2>2, <2>3, <2>4
<1>9. ASSUME NEW d \in Clients, Connect(d) \/ Disconnect(d) PROVE Creation'
  <2>1. UNCHANGED <<leases, parked, forwards>>
    BY <1>9 DEF Connect, Disconnect, outside, poolVars, chromeVars, routeVars
  <2>2. AttachesAreReplays'
    BY <1>2, <2>1 DEF Creation, AttachesAreReplays
  <2>3. CASE Connect(d)
    <3>1. /\ ~Open(d) /\ d \notin left /\ left' = left
          /\ \A e \in Clients : Open(e)' <=> Open(e) \/ e = d
      BY <1>4, <2>3, Connects
    <3>2. \A t \in Targets : creator[t] # d
      BY <3>1, MuxTargetsAssumption DEF Creation, Shown
    <3>3. ASSUME NEW t \in Targets PROVE Kept(t)'
      <4>1. /\ Announced(t)' <=> Announced(t)
            /\ OneEvent(t)' <=> OneEvent(t)
            /\ Settled(t)' <=> Settled(t)
        BY <1>2 DEF Announced, OneEvent, Settled, Mail
      <4>2. (Made(t)' <=> Made(t)) /\ (MadeOnce(t)' <=> MadeOnce(t))
        BY <1>2, <1>3, <2>1, <4>1 DEF Made, MadeOnce
      <4>3. \A c \in Clients : Awaited(c, t)' <=> Awaited(c, t)
        BY <1>2, <2>1, <4>1 DEF Awaited
      <4>4. creator[t] # Nobody => (Shown(t)' <=> Shown(t))
        <5>1. creator[t] # Nobody => creator[t] \in Clients
          BY <1>4 DEF TypeOK
        <5> QED BY <1>2, <2>1, <3>1, <3>2, <4>1, <5>1 DEF Shown
      <4> QED BY <1>2, <1>3, <4>2, <4>3, <4>4 DEF Kept, Creation
    <3>4. EventsAreMinted'
      BY <1>2, <2>1 DEF Creation, EventsAreMinted, Mail
    <3> QED BY <2>2, <3>3, <3>4 DEF Creation, Kept
  <2>4. CASE Disconnect(d)
    <3>1. \A c \in Clients : (Open(c)' => Open(c)) /\ (Open(c) \/ c \in left => Open(c)' \/ c \in left')
      BY <1>4, <2>4, Disconnects
    <3> QED BY <1>5, <2>1, <2>2, <3>1
  <2> QED BY <1>9, <2>3, <2>4
<1>10. ASSUME NEW c \in Clients, NEW op \in AllCommands, NEW t \in Targets, NEW n \in 0..MaxSessions,
              Forward(c, op, t, n)
       PROVE  Creation'
  <2>1. /\ op # "attachToTarget"
        /\ forwards' = forwards \cup {[client |-> c, op |-> op, target |-> t, session |-> n]}
        /\ UNCHANGED <<conns, left, leases, parked>>
    BY <1>10 DEF Forward, Handles, NoAttach, poolVars, muxVars, connVars, routeVars
  <2>2. AttachesAreReplays'
    BY <1>2, <2>1 DEF Creation, AttachesAreReplays
  <2> QED BY <1>5, <1>6, <2>1, <2>2
<1>11. CASE UNCHANGED vars
  <2>1. UNCHANGED <<conns, left, leases, parked, forwards>>
    BY <1>11 DEF vars, poolVars, chromeVars, muxVars, connVars, routeVars
  <2>2. AttachesAreReplays'
    BY <1>2, <2>1 DEF Creation, AttachesAreReplays
  <2> QED BY <1>5, <1>6, <2>1, <2>2
<1> QED BY <1>1, <1>7, <1>8, <1>9, <1>10, <1>11

\* The page is leased to its client, which is told of it if its event was parked, and
\* will be otherwise.
LEMMA AdoptsCreation ==
  ASSUME IInv, Announcing, Creation, NEW d \in Clients, CreateAdopts(d)
  PROVE  Creation'
<1> SUFFICES ASSUME NEW t, t = task[d].target PROVE Creation'
  OBVIOUS
<1>1. /\ task[d].op = "createTarget" /\ task[d].reply = "ok"
      /\ Pool!Adopt(AgentOf[d], t) \/ (leases[t] # NoAgent /\ UNCHANGED poolVars)
      /\ \/ /\ parked[t] # 0
            /\ Hand(d, t, parked[t])
            /\ parked' = [parked EXCEPT ![t] = 0]
         \/ parked[t] = 0 /\ UNCHANGED <<parked, owner, told>>
      /\ creator' = IF d \in ready THEN [creator EXCEPT ![t] = d] ELSE creator
      /\ task' = [task EXCEPT ![d] = Idle]
      /\ UNCHANGED <<chromeVars, conns, left, upstream, table, suppress, ready>>
  BY DEF CreateAdopts, CreateReply, connVars
<1>2. t \in Targets /\ Pending(d, t) /\ TypeOK /\ Made(t)
  BY <1>1 DEF IInv, Routing, OneCreator, Pending, Made
<1>3. /\ leases \in [Targets -> Agents \cup {NoAgent}] /\ parked \in [Targets -> 0..MaxSessions]
      /\ creator \in [Targets -> Clients \cup {Nobody}] /\ told \in [Clients -> [Targets -> 0..2]]
      /\ task \in [Clients -> Tasks]
  BY <1>2 DEF TypeOK, Pool!TypeOK, Tasks
<1>4. leases[t] = NoAgent /\ \A c \in Clients : told[c][t] = 0
  BY <1>2, PendingIsFree
<1>5. /\ leases' = [leases EXCEPT ![t] = AgentOf[d]]
      /\ UNCHANGED <<live, seen, foreign, unattached, minted, opener, asked, forwards>>
  BY <1>1, <1>4 DEF Pool!Adopt, Pool!Register, Pool!chromeVars, chromeVars, pageVars
<1>6. /\ \A c \in Clients \ {d} : task'[c] = task[c]
      /\ task'[d].op = "idle" /\ task'[d].todo = {}
  BY <1>1, <1>3 DEF Idle
<1>7. Mail' = Mail /\ \A u : (Announced(u)' <=> Announced(u)) /\ (OneEvent(u)' <=> OneEvent(u))
  BY <1>1 DEF Mail, Announced, OneEvent
<1>8. \A c \in Clients : Open(c)' <=> Open(c)
  BY <1>1 DEF Open
<1>9. asked[d].op = "none"
  BY <1>1, Unblocked
<1>10. ASSUME NEW c \in Clients, NEW u \in Targets
       PROVE  (Pending(c, u)' => Pending(c, u) /\ c # d) /\ (Replaying(c, u)' => Replaying(c, u))
  BY <1>5, <1>6, <1>7, <1>9 DEF Pending, Replaying
<1>11. ASSUME NEW u \in Targets \ {t} PROVE Kept(u)'
  <2>1. creator'[u] = creator[u] /\ parked'[u] = parked[u] /\ leases'[u] = leases[u]
    BY <1>1, <1>2, <1>3, <1>5
  <2>2. \A c \in Clients : told'[c][u] = told[c][u]
    BY <1>1, <1>2, <1>3 DEF Hand
  <2> QED BY <1>1, <1>5, <1>7, <1>8, <1>10, <2>1, <2>2, PageStays
<1>12. Kept(t)'
  <2>1. MadeOnce(t) /\ creator[t] = Nobody /\ (Settled(t) <=> parked[t] # 0)
    BY <1>2 DEF Creation, Awaited, MadeOnce
  <2>2. Settled(t)' <=> Settled(t)
    BY <1>5, <1>7 DEF Settled
  <2>3. parked'[t] = 0
    BY <1>1, <1>2, <1>3
  <2>4. MadeOnce(t)'
    BY <1>1, <1>2, <1>5, <1>7, <1>10, <2>1, <2>3 DEF MadeOnce
  <2>5. \A c \in Clients : ~Pending(c, t)'
    BY <1>2, <1>10 DEF IInv, Routing, OneCreator
  <2>6. ASSUME creator'[t] # Nobody PROVE Shown(t)'
    <3>1. d \in ready /\ creator'[t] = d
      BY <1>1, <1>2, <1>3, <2>1, <2>6
    <3>2. Open(d) \/ d \in left
      BY <1>1 DEF Announcing, Announces
    <3>3. leases'[t] = AgentOf[d]
      BY <1>2, <1>3, <1>5
    <3>4. Open(d) => told'[d][t] = IF Settled(t) THEN 1 ELSE 0
      <4>1. CASE parked[t] # 0 /\ Open(d)
        <5>1. told' = [told EXCEPT ![d][t] = Bump(@)]
          BY <1>1, <4>1 DEF Hand
        <5> QED BY <1>2, <1>3, <1>4, <2>1, <4>1, <5>1 DEF Bump
      <4>2. CASE parked[t] = 0
        BY <1>1, <1>4, <2>1, <4>2
      <4> QED BY <4>1, <4>2
    <3> QED BY <1>1, <1>8, <2>2, <3>1, <3>2, <3>3, <3>4 DEF Shown
  <2> QED BY <2>4, <2>5, <2>6 DEF Kept
<1>13. EventsAreMinted'
  <2>1. t \in seen
    BY <1>2 DEF IInv, Routing, OneCreator, PagesAreFresh
  <2>2. \A u \in Targets \ {t} : parked'[u] = parked[u]
    BY <1>1, <1>2, <1>3
  <2> QED BY <1>5, <1>7, <2>1, <2>2 DEF Creation, EventsAreMinted
<1>14. AttachesAreReplays'
  BY <1>5 DEF Creation, AttachesAreReplays
<1> QED BY <1>11, <1>12, <1>13, <1>14 DEF Creation, Kept

\* The other handlers: none replays a page a client has made.
LEMMA HandlersCreation ==
  ASSUME IInv, Announcing, Creation, OneConnectionEach, NEW c \in Clients,
         \/ StartReplay(c) \/ StartCreate(c) \/ \E t \in Targets : StartClose(c, t)
         \/ Continue(c)
  PROVE  Creation'
<1>1. CASE CreateAdopts(c)
  BY <1>1, AdoptsCreation
<1>2. CASE ~CreateAdopts(c)
  <2>1. UNCHANGED <<live, seen, foreign, upstream, opener, unattached, minted, forwards, conns, left, creator,
                    parked>>
    BY <1>2 DEF StartReplay, StartCreate, StartClose, Continue, ReplayKnown, ReplayFallback, FallbackAttached,
           FallbackDescribed, FallbackFailed, CreateFails, CloseReplied, Pool!Drop,
           Pool!chromeVars, outside, poolVars, chromeVars, pageVars, connVars, routeVars, viewVars
  <2>2. /\ TypeOK /\ Mail' = Mail /\ task \in [Clients -> Tasks]
        /\ leases \in [Targets -> Agents \cup {NoAgent}] /\ told \in [Clients -> [Targets -> 0..2]]
        /\ asked \in [Clients \cup {Nobody} ->
             [op : {"none", "created", "getTargetInfo"} \cup AllCommands, target : Targets \cup {NoTarget}]]
    BY <2>1 DEF IInv, TypeOK, Pool!TypeOK, Mail, Tasks
  <2>3. \A d \in Clients : Open(d)' <=> Open(d)
    BY <2>1 DEF Open
  <2>4. ready \subseteq ready'
    BY <1>2 DEF StartReplay, StartCreate, StartClose, Continue, ReplayKnown, ReplayFallback, FallbackAttached,
           FallbackDescribed, FallbackFailed, CreateFails, CloseReplied, Passes, Replays, viewVars
  <2>5. \A t \in Targets : leases'[t] \in {leases[t], NoAgent}
    BY <1>2, <2>2 DEF StartReplay, StartCreate, StartClose, Continue, ReplayKnown, ReplayFallback, FallbackAttached,
           FallbackDescribed, FallbackFailed, CreateFails, CloseReplied, Pool!Drop, outside, poolVars
  <2>6. /\ task[c].op \notin Waits \/ task[c].reply # "none"
        /\ asked' = asked \/ \E r : r.op # "created" /\ asked' = [asked EXCEPT ![c] = r]
    BY <1>2 DEF StartReplay, StartCreate, StartClose, Continue, ReplayKnown, ReplayFallback, FallbackAttached,
           FallbackDescribed, FallbackFailed, CreateFails, CloseReplied, CreateReply, Asks, Command, Handles, Waits,
           outside, chromeVars
  <2>7. ~Answered(c) /\ asked[c].op = "none"
    BY <2>6, Unblocked
  <2>8. /\ asked'[c].op # "created" /\ asked'[Nobody] = asked[Nobody]
        /\ \A d \in Clients \ {c} : asked'[d] = asked[d]
    BY <2>2, <2>6, <2>7, MuxTargetsAssumption
  <2>9. AttachesAreReplays'
    BY <2>1, <2>8 DEF Creation, AttachesAreReplays
  <2>10. ASSUME \A d \in Clients \ {c} : task'[d] = task[d],
                task'[c].op = "createTarget" => task'[c].reply # "ok",
                \A t \in Targets : Made(t) => ~Replaying(c, t)',
                \A t \in suppress' : t \in suppress \/ ~Made(t),
                \A t \in Targets : Made(t) => \A d \in Clients : told'[d][t] = told[d][t]
         PROVE  Creation'
    <3>1. ASSUME NEW d \in Clients, NEW t \in Targets PROVE Pending(d, t)' => Pending(d, t)
      <4>1. CASE d = c
        BY <2>2, <2>7, <2>8, <2>10, <4>1 DEF Pending, Answered, IsAnswer
      <4>2. CASE d # c
        BY <2>2, <2>8, <2>10, <4>2 DEF Pending
      <4> QED BY <4>1, <4>2
    <3>2. \A d \in Clients, t \in Targets : Made(t) => (Replaying(d, t)' => Replaying(d, t))
      BY <2>10 DEF Replaying
    <3> QED BY <2>1, <2>3, <2>4, <2>5, <2>9, <2>10, <3>1, <3>2, QuietPage
  <2>11. ASSUME NEW t \in Targets, Made(t) PROVE ~Replaying(c, t) /\ t \notin task[c].todo
    BY <2>11 DEF Creation, MadeOnce, Replaying
  <2>12. ASSUME NEW t \in Targets, NEW n, Replaying(c, t), Hand(c, t, n)
         PROVE  \A u \in Targets : Made(u) => \A d \in Clients : told'[d][u] = told[d][u]
    BY <2>2, <2>11, <2>12 DEF Hand
  <2>13. ASSUME NEW todo \in SUBSET Targets, NEW granted, Replays(c, todo, granted),
                \A t \in todo : ~Made(t),
                suppress' \subseteq suppress,
                \A t \in Targets : Made(t) => \A d \in Clients : told'[d][t] = told[d][t]
         PROVE  Creation'
    <3>1. /\ \A d \in Clients \ {c} : task'[d] = task[d]
          /\ task'[c].op \in {"replay", "idle"} /\ task'[c].todo = todo
      BY <2>2, <2>13, ReplaysDo
    <3> QED BY <2>10, <2>13, <3>1 DEF Replaying
  <2>14. task[c].todo \subseteq Targets
    BY <2>2 DEF Tasks
  <2>15. CASE StartReplay(c)
    <3> DEFINE granted == Pool!TargetsFor(AgentOf[c])
    <3>1. Replays(c, granted, granted) /\ c \notin ready /\ UNCHANGED <<told, suppress>>
      BY <2>15 DEF StartReplay, routeVars
    <3>2. granted \subseteq Targets /\ \A t \in granted : leases[t] = AgentOf[c]
      BY DEF Pool!TargetsFor
    <3> HIDE DEF granted
    <3>3. ASSUME NEW t \in granted, Made(t) PROVE FALSE
      <4>1. ASSUME NEW d \in Clients, Pending(d, t) PROVE FALSE
        BY <3>2, <4>1, PendingIsFree, MuxTargetsAssumption
      <4>2. creator[t] # Nobody
        BY <3>3, <4>1 DEF Made
      <4>3. creator[t] \in Clients /\ creator[t] \in ready /\ leases[t] \in {AgentOf[creator[t]], NoAgent}
        BY <2>2, <3>2, <4>2 DEF TypeOK, Creation, Shown
      <4>4. creator[t] = c
        BY <3>2, <4>3, MuxTargetsAssumption DEF OneConnectionEach
      <4> QED BY <3>1, <4>3, <4>4
    <3> QED BY <2>13, <3>1, <3>2, <3>3
  <2>16. ASSUME NEW t \in Targets, ReplayKnown(c, t) PROVE Creation'
    <3>1. /\ t \in task[c].todo /\ Hand(c, t, table[t]) /\ suppress' = suppress
          /\ Replays(c, task[c].todo \ {t}, task[c].granted)
      BY <2>16 DEF ReplayKnown, Passes
    <3>2. Replaying(c, t)
      BY <3>1 DEF Replaying
    <3>3. \A u \in Targets : Made(u) => \A d \in Clients : told'[d][u] = told[d][u]
      BY <2>12, <3>1, <3>2
    <3> QED BY <2>11, <2>13, <2>14, <3>1, <3>3
  <2>17. CASE FallbackDescribed(c)
    <3> SUFFICES ASSUME NEW t, t = task[c].target PROVE Creation'
      OBVIOUS
    <3>1. /\ task[c].op = "describe" /\ Hand(c, t, task[c].session) /\ suppress' = suppress
          /\ Replays(c, task[c].todo \ {t}, task[c].granted)
      BY <2>17 DEF FallbackDescribed, Passes
    <3>2. Replaying(c, t) /\ t \in Targets
      BY <3>1 DEF Replaying, IInv, Routing, OneCommand, Waits
    <3>3. \A u \in Targets : Made(u) => \A d \in Clients : told'[d][u] = told[d][u]
      BY <2>12, <3>1, <3>2
    <3> QED BY <2>11, <2>13, <2>14, <3>1, <3>3
  <2>18. CASE FallbackFailed(c)
    <3> SUFFICES ASSUME NEW t, t = task[c].target PROVE Creation'
      OBVIOUS
    <3>1. /\ suppress' = suppress \ {t} /\ told' = told
          /\ Replays(c, task[c].todo \ {t}, task[c].granted)
      BY <2>18 DEF FallbackFailed, Passes
    <3> QED BY <2>11, <2>13, <2>14, <3>1
  <2>19. ASSUME NEW t \in Targets, ReplayFallback(c, t) PROVE Creation'
    <3>1. /\ t \in task[c].todo /\ suppress' = suppress \cup {t} /\ told' = told
          /\ task' = [task EXCEPT ![c].op = "attach", ![c].target = t, ![c].reply = "none"]
      BY <2>19 DEF ReplayFallback, viewVars
    <3>2. /\ \A d \in Clients \ {c} : task'[d] = task[d]
          /\ task'[c].op = "attach" /\ task'[c].target = t /\ task'[c].todo = task[c].todo
      BY <2>2, <3>1 DEF Tasks
    <3> QED BY <2>10, <2>11, <3>1, <3>2 DEF Replaying
  <2>20. CASE FallbackAttached(c)
    <3>1. /\ UNCHANGED <<suppress, told>> /\ task[c].op = "attach"
          /\ task' = [task EXCEPT ![c].op = "describe", ![c].reply = "none"]
      BY <2>20 DEF FallbackAttached, routeVars, viewVars
    <3>2. /\ \A d \in Clients \ {c} : task'[d] = task[d]
          /\ task'[c].op = "describe" /\ task'[c].target = task[c].target /\ task'[c].todo = task[c].todo
      BY <2>2, <3>1 DEF Tasks
    <3> QED BY <2>10, <2>11, <3>1, <3>2 DEF Replaying
  <2>21. ASSUME NEW r, task' = [task EXCEPT ![c] = r], r.todo = {}, r.reply # "ok",
                r.op \notin {"attach", "describe"}, UNCHANGED <<suppress, told>>
         PROVE  Creation'
    <3>1. task'[c] = r /\ \A d \in Clients \ {c} : task'[d] = task[d]
      BY <2>2, <2>21
    <3> QED BY <2>10, <2>21, <3>1 DEF Replaying
  <2>22. CASE CreateFails(c) \/ CloseReplied(c)
    <3>1. task' = [task EXCEPT ![c] = Idle] /\ UNCHANGED <<suppress, told>>
      BY <2>22 DEF CreateFails, CloseReplied, routeVars, viewVars
    <3>2. Idle.todo = {} /\ Idle.reply = "none" /\ Idle.op = "idle"
      BY DEF Idle
    <3> QED BY <2>21, <3>1, <3>2
  <2>23. CASE StartCreate(c) \/ \E t \in Targets : StartClose(c, t)
    <3>1. UNCHANGED <<suppress, told>>
      BY <2>23 DEF StartCreate, StartClose, routeVars, viewVars
    <3>2. \E r : /\ r.todo = {} /\ r.reply = "none" /\ r.op \in {"createTarget", "closeTarget"}
                 /\ task' = [task EXCEPT ![c] = r]
      <4>1. CASE StartCreate(c)
        <5>1. PICK r : r = [Idle EXCEPT !.op = "createTarget"]
          OBVIOUS
        <5>2. r.op = "createTarget" /\ r.todo = {} /\ r.reply = "none"
          BY <5>1 DEF Idle
        <5> QED BY <4>1, <5>1, <5>2 DEF StartCreate
      <4>2. ASSUME NEW t \in Targets, StartClose(c, t)
            PROVE  \E r : /\ r.todo = {} /\ r.reply = "none" /\ r.op \in {"createTarget", "closeTarget"}
                          /\ task' = [task EXCEPT ![c] = r]
        <5>1. PICK r : r = [Idle EXCEPT !.op = "closeTarget", !.target = t]
          OBVIOUS
        <5>2. r.op = "closeTarget" /\ r.todo = {} /\ r.reply = "none"
          BY <5>1 DEF Idle
        <5> QED BY <4>2, <5>1, <5>2 DEF StartClose
      <4> QED BY <2>23, <4>1, <4>2
    <3>3. PICK r : /\ r.todo = {} /\ r.reply = "none" /\ r.op \in {"createTarget", "closeTarget"}
                   /\ task' = [task EXCEPT ![c] = r]
      BY <3>2
    <3> QED BY <2>21, <3>1, <3>3
  <2> QED BY <1>2, <2>15, <2>16, <2>17, <2>18, <2>19, <2>20, <2>22, <2>23 DEF Continue
<1> QED BY <1>1, <1>2

\* A client that has enabled auto-attach is told of the page it creates exactly once while
\* it leases it (mux.ts:302-306), whichever of the attach event and Chrome's answer comes
\* first: if no deadline of the mux passes before Chrome has answered, no client attaches
\* by itself, and an agent has one connection.
THEOREM CreatorsAreTold ==
  ~SlowChrome /\ NoAttach /\ OneConnectionEach => (Spec => []CreatorSeesItsPage)
<1> SUFFICES ASSUME ~SlowChrome, NoAttach, OneConnectionEach PROVE Spec => []CreatorSeesItsPage
  OBVIOUS
<1>1. Init => Announcing /\ Creation
  <2> SUFFICES ASSUME Init PROVE Announcing /\ Creation
    OBVIOUS
  <2>1. Mail = {}
    BY DEF Init, Mail, MailOf
  <2>2. \A c \in Clients : task[c].op = "idle" /\ task[c].granted = {}
    BY DEF Init, Idle
  <2>3. Announcing
    BY <2>2 DEF Announcing, Announces, Fallbacks
  <2>4. \A c \in Clients \cup {Nobody} : asked[c].op = "none"
    BY DEF Init, NoCommand
  <2>5. \A c \in Clients, t \in Targets : ~Pending(c, t)
    BY <2>2, <2>4 DEF Pending
  <2>6. \A t \in Targets : creator[t] = Nobody /\ minted[t] = 0 /\ parked[t] = 0 /\ t \notin unattached
    BY DEF Init
  <2>7. AttachesAreReplays
    BY <2>4 DEF Init, AttachesAreReplays
  <2> QED BY <2>1, <2>3, <2>5, <2>6, <2>7 DEF Creation, EventsAreMinted, Made
<1>2. IInv /\ Announcing /\ Creation /\ [Next]_vars => Announcing' /\ Creation'
  <2> SUFFICES ASSUME IInv, Announcing, Creation, [Next]_vars PROVE Announcing' /\ Creation'
    OBVIOUS
  <2>1. ASSUME NEW c \in Clients, ClientSends(c) \/ Continue(c) \/ Timeout(c)
        PROVE  Announcing' /\ Creation'
    <3>1. Announcing'
      BY <2>1, HandlersAnnounce, OthersAnnounce DEF ClientSends, Timeout
    <3>2. Creation'
      BY <2>1, HandlersCreation, OthersCreation DEF ClientSends
    <3> QED BY <3>1, <3>2
  <2>2. Announcing'
    BY <2>1, ChromeAnnounces, DeliverAnnounces, OthersAnnounce DEF Next
  <2>3. Creation'
    BY <2>1, ChromeCreation, DeliverCreation, OthersCreation DEF Next
  <2> QED BY <2>2, <2>3
<1>3. IInv /\ Creation => CreatorSeesItsPage
  <2> SUFFICES ASSUME IInv, Creation, NEW t \in live, creator[t] # Nobody, Open(creator[t]),
                      leases[t] = AgentOf[creator[t]], minted[t] > 0, ~EventPending(t)
               PROVE  told[creator[t]][t] = 1
    BY DEF CreatorSeesItsPage
  <2>1. t \in Targets
    BY DEF IInv, TypeOK, Pool!TypeOK
  <2>2. Settled(t)
    BY DEF Settled, EventPending, Announced, Mail, MailOf
  <2>3. Shown(t)
    BY <2>1 DEF Creation
  <2> QED BY <2>2, <2>3 DEF Shown
<1> QED BY <1>1, <1>2, <1>3, InductiveInvariant, PTL DEF Spec

=============================================================================
