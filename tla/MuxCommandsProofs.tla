------------------------- MODULE MuxCommandsProofs -------------------------
(***************************************************************************)
(* The numbering of commands is sound for any number of clients, each      *)
(* sending any number of commands of any kind: an answer reaches the       *)
(* client, and the number, of the command it answers, and no number is     *)
(* answered twice, although Chrome answers in any order and the mux gives  *)
(* up on some; and the commands of a client reach Chrome in its order.     *)
(*                                                                         *)
(* The argument: the numbers of a client that wait in its queue follow     *)
(* those that were taken from it; a number that was taken is with the      *)
(* handler, or with Chrome, or answered, and never in two of these places. *)
(***************************************************************************)
EXTENDS MuxCommands, TLAPS

\* The last command of c that left its queue.
Taken(c) == sent[c] - Len(queue[c])

\* Commands wait in the order they were sent.
QueuesAreRuns ==
  \A c \in Clients :
    /\ Taken(c) \in Nat
    /\ \A i \in DOMAIN queue[c] : queue[c][i].id = Taken(c) + i

\* The numbers for Chrome are used once, and an answer is about what was asked.
NumbersAreFresh ==
  /\ \A e \in pending : e.upstreamId < nextUpstreamId
  /\ \A a \in chrome : a.upstreamId < nextUpstreamId
  /\ \A e, f \in pending : e.upstreamId = f.upstreamId => e = f
  /\ \A e \in pending, a \in chrome : e.upstreamId = a.upstreamId => a.of = e.of

\* What the mux asks for itself is the one command the client's handler awaits.
OneHandler ==
  /\ \A c \in Clients : task[c] # Idle => task[c].id = Taken(c)
  /\ \A e \in pending : e.internal =>
       /\ task[e.of.client] # Idle
       /\ task[e.of.client].id = e.of.id
       /\ task[e.of.client].upstreamId = e.upstreamId

\* A forwarded command is not the handler's, and is owed once.
OwedOnce ==
  /\ \A e \in pending : e.of.id <= Taken(e.of.client)
  /\ \A e \in pending : ~e.internal => task[e.of.client].id # e.of.id
  /\ \A e, f \in pending : e.of = f.of => e = f

\* What is with the handler or with Chrome is not answered.
OpenEnded ==
  /\ \A c \in Clients : \A i \in DOMAIN got[c] : got[c][i].id <= Taken(c)
  /\ \A c \in Clients : task[c] # Idle => AnswersTo(c, task[c].id) = {}
  /\ \A e \in pending : ~e.internal => AnswersTo(e.of.client, e.of.id) = {}

\* Answers are right, and there is one for each number.
Right ==
  \A c \in Clients :
    /\ \A i \in DOMAIN got[c] : got[c][i].of = Command(c, got[c][i].id)
    /\ \A id \in Ids : \A i, j \in AnswersTo(c, id) : i = j

IInv ==
  /\ TypeOK
  /\ QueuesAreRuns
  /\ NumbersAreFresh
  /\ OneHandler
  /\ OwedOnce
  /\ OpenEnded
  /\ Right

-----------------------------------------------------------------------------

Received == [type : {"answer", "context"}, id : Ids, ok : BOOLEAN, of : Commands]
Entries  == [upstreamId : Nat \ {0}, of : Commands, internal : BOOLEAN]
Works    == [upstreamId : Nat \ {0}, of : Commands]
Handlers == [id : Ids, kind : Kinds, step : {1, 2}, upstreamId : Nat \ {0}]

\* A command that goes to Chrome under the next number.
LEMMA IssueKeeps ==
  ASSUME TypeOK, NumbersAreFresh, NEW c \in Clients, NEW id \in Ids, NEW internal \in BOOLEAN,
         NEW owed \in SUBSET pending, NEW busy \in SUBSET chrome,
         Issue(c, id, internal, owed, busy)
  PROVE  /\ NumbersAreFresh'
         /\ nextUpstreamId' \in Nat \ {0}
         /\ pending' \in SUBSET Entries
         /\ chrome' \in SUBSET Works
         /\ pending' = owed \cup {[upstreamId |-> nextUpstreamId, of |-> Command(c, id),
                                   internal |-> internal]}
<1> DEFINE entry == [upstreamId |-> nextUpstreamId, of |-> Command(c, id), internal |-> internal]
           work  == [upstreamId |-> nextUpstreamId, of |-> Command(c, id)]
<1>1. /\ nextUpstreamId \in Nat \ {0} /\ pending \in SUBSET Entries /\ chrome \in SUBSET Works
      /\ nextUpstreamId' = nextUpstreamId + 1
      /\ pending' = owed \cup {entry}
      /\ chrome' \subseteq busy \cup {work}
  BY DEF TypeOK, Issue, Entries, Works
<1>2. /\ entry \in Entries /\ work \in Works
      /\ entry.upstreamId = nextUpstreamId /\ work.upstreamId = nextUpstreamId
      /\ entry.of = work.of
  BY <1>1 DEF Entries, Works, Command, Commands
<1>3. \A e \in Entries : e.upstreamId \in Nat
  BY DEF Entries
<1>4. \A a \in Works : a.upstreamId \in Nat
  BY DEF Works
<1> HIDE DEF entry, work
<1>5. NumbersAreFresh'
  BY <1>1, <1>2, <1>3, <1>4 DEF NumbersAreFresh
<1>6. QED
  BY <1>1, <1>2, <1>5 DEF entry

\* The types, by name.
LEMMA Types ==
  TypeOK <=>
    /\ open \in SUBSET Clients /\ sent \in [Clients -> Nat]
    /\ queue \in [Clients -> Seq(Messages)] /\ task \in [Clients -> {Idle} \cup Handlers]
    /\ nextUpstreamId \in Nat \ {0} /\ pending \in SUBSET Entries /\ chrome \in SUBSET Works
    /\ got \in [Clients -> Seq(Received)] /\ link \in {"up", "gone", "closed"}
BY DEF TypeOK, Handlers, Entries, Works, Received

\* A command leaves the queue of its client.
LEMMA TakesKeeps ==
  ASSUME TypeOK, QueuesAreRuns, NEW c \in Clients, NEW m, Takes(c, m), UNCHANGED sent
  PROVE  /\ m \in Messages /\ m.id = Taken(c) + 1
         /\ queue' \in [Clients -> Seq(Messages)]
         /\ QueuesAreRuns'
         /\ Taken(c)' = Taken(c) + 1
         /\ \A d \in Clients \ {c} : Taken(d)' = Taken(d)
<1>1. PICK q \in Seq(Messages) : q = queue[c] /\ q # <<>>
  BY DEF TypeOK, Takes
<1>2. /\ Tail(q) \in Seq(Messages) /\ Len(Tail(q)) = Len(q) - 1 /\ Len(q) \in Nat /\ Len(q) >= 1
      /\ \A i \in DOMAIN Tail(q) : i + 1 \in DOMAIN q /\ Tail(q)[i] = q[i + 1]
      /\ Head(q) = q[1] /\ 1 \in DOMAIN q /\ Head(q) \in Messages
  BY <1>1
<1>3. queue' = [queue EXCEPT ![c] = Tail(q)] /\ m = Head(q)
  BY <1>1 DEF Takes
<1>4. queue' \in [Clients -> Seq(Messages)] /\ queue'[c] = Tail(q)
      /\ \A d \in Clients \ {c} : queue'[d] = queue[d]
  BY <1>2, <1>3 DEF TypeOK
<1>5. sent \in [Clients -> Nat] /\ sent' = sent
  BY DEF TypeOK
<1>6. Taken(c)' = Taken(c) + 1 /\ \A d \in Clients \ {c} : Taken(d)' = Taken(d)
  BY <1>1, <1>2, <1>4, <1>5 DEF Taken
<1>7. Taken(c) \in Nat /\ \A i \in DOMAIN q : q[i].id = Taken(c) + i
  BY <1>1 DEF QueuesAreRuns
<1>8. m.id = Taken(c) + 1
  BY <1>2, <1>3, <1>7
<1>9. QueuesAreRuns'
  <2>1. ASSUME NEW d \in Clients
        PROVE  Taken(d)' \in Nat /\ \A i \in DOMAIN queue'[d] : queue'[d][i].id = Taken(d)' + i
    <3>1. CASE d = c
      <4>1. \A i \in DOMAIN Tail(q) : i \in Int /\ Tail(q)[i].id = Taken(c) + (i + 1)
        BY <1>2, <1>7
      <4>2. Taken(d)' = Taken(c) + 1 /\ queue'[d] = Tail(q)
        BY <1>4, <1>6, <3>1 DEF Taken
      <4>3. QED
        BY <1>7, <4>1, <4>2
    <3>2. CASE d # c
      <4>1. Taken(d)' = Taken(d) /\ queue'[d] = queue[d]
        BY <1>4, <1>6, <3>2
      <4>2. QED
        BY <4>1 DEF QueuesAreRuns
    <3>3. QED
      BY <3>1, <3>2
  <2>2. QED
    BY <2>1 DEF QueuesAreRuns
<1>10. QED
  BY <1>2, <1>3, <1>4, <1>6, <1>8, <1>9

\* Nothing is handled: what Chrome works on may get less.
LEMMA QuietKeeps ==
  ASSUME IInv, UNCHANGED <<task, nextUpstreamId, pending, got>>, chrome' \subseteq chrome,
         QueuesAreRuns', \A c \in Clients : Taken(c)' = Taken(c)
  PROVE  NumbersAreFresh' /\ OneHandler' /\ OwedOnce' /\ OpenEnded' /\ Right'
<1>1. \A e \in pending : e.of.client \in Clients
  BY DEF IInv, TypeOK, Commands
<1>2. NumbersAreFresh'
  BY DEF IInv, NumbersAreFresh
<1>3. OneHandler' /\ OwedOnce'
  BY <1>1 DEF IInv, OneHandler, OwedOnce
<1>4. OpenEnded' /\ Right'
  BY DEF IInv, OpenEnded, Right, AnswersTo
<1>5. QED
  BY <1>2, <1>3, <1>4

\* A command of c is answered: it is neither the handler's nor Chrome's any more.
LEMMA AnswerKeeps ==
  ASSUME IInv, NEW c \in Clients, NEW id \in Ids, id <= Taken(c)',
         task' = task \/ task' = [task EXCEPT ![c] = Idle],
         task'[c] # Idle => task[c].id # id /\ Taken(c)' = Taken(c),
         \A d \in Clients \ {c} : Taken(d)' = Taken(d),
         Taken(c) \in Nat, Taken(c)' \in Nat, Taken(c) <= Taken(c)',
         pending' \subseteq pending,
         \A e \in pending' : e.of # Command(c, id),
         \A e \in pending' : e.internal => task'[e.of.client] = task[e.of.client],
         \A d \in Clients : \A i \in DOMAIN got'[d] :
              \/ d = c /\ got'[d][i].id = id
              \/ i \in DOMAIN got[d] /\ got'[d][i] = got[d][i],
         \A d \in Clients, n \in Ids :
              (AnswersTo(d, n) = {} /\ (d # c \/ n # id)) => AnswersTo(d, n)' = {}
  PROVE  OneHandler' /\ OwedOnce' /\ OpenEnded'
<1>1. /\ pending \in SUBSET Entries /\ task \in [Clients -> {Idle} \cup Handlers]
      /\ got \in [Clients -> Seq(Received)]
  BY Types DEF IInv
<1>2. \A e \in Entries : e.of \in Commands /\ e.of.client \in Clients /\ e.of.id \in Ids
                          /\ e.of = Command(e.of.client, e.of.id)
  BY DEF Entries, Commands, Command
<1>3. Idle.id = 0 /\ \A h \in Handlers : h.id \in Ids
  BY DEF Idle, Handlers
<1>4. \A d \in Clients : task'[d] = task[d] \/ (d = c /\ task'[d] = Idle)
  BY <1>1
<1>5. \A d \in Clients : Taken(d) \in Nat
  BY DEF IInv, QueuesAreRuns
<1>6. OneHandler'
  <2>1. \A d \in Clients : task'[d] # Idle => task'[d].id = Taken(d)'
    BY <1>4 DEF IInv, OneHandler
  <2>2. ASSUME NEW e \in pending', e.internal
        PROVE  task'[e.of.client] # Idle /\ task'[e.of.client].id = e.of.id
                 /\ task'[e.of.client].upstreamId = e.upstreamId
    BY <2>2 DEF IInv, OneHandler
  <2>3. QED
    BY <2>1, <2>2 DEF OneHandler
<1>7. OwedOnce'
  <2>1. ASSUME NEW e \in pending' PROVE e.of.id <= Taken(e.of.client)'
    <3>1. e.of.id <= Taken(e.of.client) /\ e.of.client \in Clients /\ e.of.id \in Nat
      BY <1>1, <1>2 DEF IInv, OwedOnce, Ids
    <3>2. QED
      BY <1>5, <3>1
  <2>2. ASSUME NEW e \in pending', ~e.internal PROVE task'[e.of.client].id # e.of.id
    BY <1>1, <1>2, <1>3, <1>4, <2>2 DEF IInv, OwedOnce, Ids
  <2>3. QED
    BY <2>1, <2>2 DEF IInv, OwedOnce
<1>8. OpenEnded'
  <2>1. ASSUME NEW d \in Clients, NEW i \in DOMAIN got'[d] PROVE got'[d][i].id <= Taken(d)'
    <3>1. CASE d = c /\ got'[d][i].id = id
      BY <3>1
    <3>2. CASE i \in DOMAIN got[d] /\ got'[d][i] = got[d][i]
      <4>1. got[d][i] \in Received
        BY <1>1, <3>2
      <4>2. got[d][i].id <= Taken(d) /\ got[d][i].id \in Nat
        BY <3>2, <4>1 DEF IInv, OpenEnded, Received, Ids
      <4>3. QED
        BY <1>5, <3>2, <4>2
    <3>3. QED
      BY <3>1, <3>2
  <2>2. ASSUME NEW d \in Clients, task'[d] # Idle PROVE AnswersTo(d, task[d].id)' = {}
    <3>1. PICK n \in Ids : n = task[d].id /\ task'[d] = task[d]
      BY <1>1, <1>3, <1>4, <2>2
    <3>2. AnswersTo(d, n) = {} /\ (d # c \/ n # id)
      BY <2>2, <3>1 DEF IInv, OpenEnded
    <3>3. AnswersTo(d, n)' = {}
      BY <3>2
    <3>4. QED
      BY <3>1, <3>3 DEF AnswersTo
  <2>3. ASSUME NEW e \in pending', ~e.internal PROVE AnswersTo(e.of.client, e.of.id)' = {}
    <3>1. PICK d \in Clients, n \in Ids : d = e.of.client /\ n = e.of.id /\ e.of = Command(d, n)
      BY <1>1, <1>2
    <3>2. AnswersTo(d, n) = {} /\ (d # c \/ n # id)
      BY <2>3, <3>1 DEF IInv, OpenEnded
    <3>3. AnswersTo(d, n)' = {}
      BY <3>2
    <3>4. QED
      BY <3>1, <3>3 DEF AnswersTo
  <2>4. QED
    BY <2>1, <2>2, <2>3 DEF OpenEnded
<1>9. QED
  BY <1>6, <1>7, <1>8

\* What a client is sent, and the context that may go before it.
LEMMA Frames ==
  ASSUME NEW c \in Clients, NEW id \in Ids, NEW ok \in BOOLEAN
  PROVE  /\ Reply(id, ok, Command(c, id)) \in Received
         /\ Reply(id, ok, Command(c, id)).type = "answer"
         /\ Reply(id, ok, Command(c, id)).id = id
         /\ Reply(id, ok, Command(c, id)).of = Command(c, id)
         /\ Context(id, Command(c, id)) \in Received
         /\ Context(id, Command(c, id)).type = "context"
         /\ Context(id, Command(c, id)).id = id
         /\ Context(id, Command(c, id)).of = Command(c, id)
<1>1. Command(c, id) \in Commands
  BY DEF Command, Commands
<1>2. QED
  BY <1>1 DEF Reply, Context, Received

\* The frames of an answer are sent.
LEMMA AnswerSent ==
  ASSUME IInv, NEW c \in Clients, NEW id \in Ids, NEW ok \in BOOLEAN, AnswersTo(c, id) = {},
         \/ Send(c, <<Reply(id, ok, Command(c, id))>>)
         \/ Send(c, <<Context(id, Command(c, id)), Reply(id, ok, Command(c, id))>>)
  PROVE  /\ got' \in [Clients -> Seq(Received)]
         /\ Right'
         /\ \A d \in Clients : \A i \in DOMAIN got'[d] :
              \/ d = c /\ got'[d][i].id = id
              \/ i \in DOMAIN got[d] /\ got'[d][i] = got[d][i]
         /\ \A d \in Clients, n \in Ids :
              (AnswersTo(d, n) = {} /\ (d # c \/ n # id)) => AnswersTo(d, n)' = {}
<1>1. PICK m \in Received, k \in Received :
        /\ m = Reply(id, ok, Command(c, id)) /\ k = Context(id, Command(c, id))
        /\ m.type = "answer" /\ m.id = id /\ m.of = Command(c, id)
        /\ k.type = "context" /\ k.id = id /\ k.of = Command(c, id)
  BY Frames
<1>2. PICK messages : messages \in {<<m>>, <<k, m>>} /\ Send(c, messages)
  BY <1>1
<1>3. got \in [Clients -> Seq(Received)] /\ Right
  BY Types DEF IInv
<1>4. /\ messages \in Seq(Received) /\ Len(messages) \in {1, 2}
      /\ messages[Len(messages)] = m
      /\ \A j \in DOMAIN messages : j # Len(messages) => messages[j] = k
  <2>1. CASE messages = <<m>>
    <3>1. <<m>> \in Seq(Received) /\ Len(<<m>>) = 1 /\ DOMAIN <<m>> = {1} /\ <<m>>[1] = m
      OBVIOUS
    <3>2. QED
      BY <2>1, <3>1
  <2>2. CASE messages = <<k, m>>
    <3>1. /\ <<k, m>> \in Seq(Received) /\ Len(<<k, m>>) = 2 /\ DOMAIN <<k, m>> = {1, 2}
          /\ <<k, m>>[1] = k /\ <<k, m>>[2] = m
      OBVIOUS
    <3>2. QED
      BY <2>2, <3>1
  <2>3. QED
    BY <1>2, <2>1, <2>2
<1>5. got' \in [Clients -> Seq(Received)]
  BY <1>2, <1>3, <1>4 DEF Send
<1>6. ASSUME NEW d \in Clients, got'[d] # got[d]
      PROVE  d = c /\ got'[d] = got[d] \o messages
  BY <1>2, <1>3, <1>6 DEF Send
<1>7. ASSUME NEW d \in Clients, NEW i \in DOMAIN got'[d]
      PROVE  \/ i \in DOMAIN got[d] /\ got'[d][i] = got[d][i]
             \/ /\ d = c /\ i = Len(got[c]) + Len(messages) /\ got'[d][i] = m
                /\ got'[c] = got[c] \o messages
             \/ d = c /\ got'[d][i] = k
  <2>1. CASE got'[d] = got[d]
    BY <2>1
  <2>2. CASE got'[d] # got[d]
    <3>1. d = c /\ got'[d] = got[d] \o messages /\ got[d] \in Seq(Received)
      BY <1>3, <1>6, <2>2
    <3>2. \/ i \in DOMAIN got[d] /\ got'[d][i] = got[d][i]
          \/ i - Len(got[d]) \in DOMAIN messages /\ got'[d][i] = messages[i - Len(got[d])]
      BY <1>4, <3>1
    <3>3. ASSUME NEW j \in DOMAIN messages, j = i - Len(got[d])
          PROVE  (i = Len(got[c]) + Len(messages) /\ messages[j] = m) \/ messages[j] = k
      BY <1>4, <3>1, <3>3
    <3>4. QED
      BY <3>1, <3>2, <3>3
  <2>3. QED
    BY <2>1, <2>2
<1>8. \A d \in Clients : \A i \in DOMAIN got'[d] :
        \/ d = c /\ got'[d][i].id = id
        \/ i \in DOMAIN got[d] /\ got'[d][i] = got[d][i]
  BY <1>1, <1>7
<1>9. ASSUME NEW d \in Clients, NEW n \in Ids, NEW i \in AnswersTo(d, n)'
      PROVE  \/ i \in AnswersTo(d, n)
             \/ d = c /\ n = id /\ i = Len(got[c]) + Len(messages)
  BY <1>1, <1>7, <1>9 DEF AnswersTo
<1>10. \A d \in Clients, n \in Ids :
        (AnswersTo(d, n) = {} /\ (d # c \/ n # id)) => AnswersTo(d, n)' = {}
  BY <1>9
<1>11. Right'
  <2>1. ASSUME NEW d \in Clients, NEW i \in DOMAIN got'[d]
        PROVE  got'[d][i].of = Command(d, got'[d][i].id)
    BY <1>1, <1>3, <1>7, <2>1 DEF Right
  <2>2. ASSUME NEW d \in Clients, NEW n \in Ids,
               NEW i \in AnswersTo(d, n)', NEW j \in AnswersTo(d, n)'
        PROVE  i = j
    BY <1>3, <1>9, <2>2 DEF Right
  <2>3. QED
    BY <2>1, <2>2 DEF Right, Command
<1>12. QED
  BY <1>5, <1>8, <1>10, <1>11

\* Clients send, connect and leave; Chrome works, and connections end.
LEMMA OutsideKeeps ==
  ASSUME IInv,
         \/ \E c \in Clients : Disconnect(c) \/ \E kind \in Kinds : ClientSends(c, kind)
         \/ \E a \in chrome : AnswerLate(a)
         \/ UpstreamCloses \/ Close
         \/ UNCHANGED vars
  PROVE  IInv'
<1> USE DEF clientVars
<1>1. ASSUME NEW c \in Clients, NEW kind \in Kinds, ClientSends(c, kind) PROVE IInv'
  <2>1. PICK m \in Messages : m = [id |-> sent[c] + 1, kind |-> kind]
    <3>1. [id |-> sent[c] + 1, kind |-> kind] \in Messages
      BY DEF Messages, Ids, IInv, TypeOK
    <3>2. QED
      BY <3>1
  <2>2. PICK q \in Seq(Messages) : q = queue[c]
    BY DEF IInv, TypeOK
  <2>3. /\ Append(q, m) \in Seq(Messages) /\ Len(Append(q, m)) = Len(q) + 1
        /\ \A i \in DOMAIN Append(q, m) :
             \/ i \in DOMAIN q /\ Append(q, m)[i] = q[i]
             \/ i = Len(q) + 1 /\ Append(q, m)[i] = m
        /\ Len(q) \in Nat
    OBVIOUS
  <2>4. /\ queue' = [queue EXCEPT ![c] = Append(q, m)] /\ sent' = [sent EXCEPT ![c] = @ + 1]
        /\ queue \in [Clients -> Seq(Messages)] /\ sent \in [Clients -> Nat]
    BY <1>1, <2>1, <2>2 DEF ClientSends, IInv, TypeOK
  <2>5. /\ queue' \in [Clients -> Seq(Messages)] /\ sent' \in [Clients -> Nat]
        /\ queue'[c] = Append(q, m) /\ sent'[c] = sent[c] + 1
        /\ \A d \in Clients \ {c} : queue'[d] = queue[d] /\ sent'[d] = sent[d]
    BY <2>3, <2>4
  <2>6. Taken(c)' = Taken(c) /\ \A d \in Clients \ {c} : Taken(d)' = Taken(d)
    BY <2>2, <2>3, <2>4, <2>5 DEF Taken
  <2>7. \A d \in Clients : Taken(d)' = Taken(d)
    BY <2>6
  <2>8. ASSUME NEW d \in Clients, NEW i \in DOMAIN queue'[d]
        PROVE  queue'[d][i].id = Taken(d) + i
    <3>1. CASE d # c
      <4>1. queue'[d] = queue[d]
        BY <2>5, <3>1
      <4>2. QED
        BY <2>8, <4>1 DEF IInv, QueuesAreRuns
    <3>2. CASE d = c
      <4>1. m.id = sent[c] + 1 /\ Taken(c) = sent[c] - Len(q) /\ sent[c] \in Nat
        BY <2>1, <2>2, <2>4 DEF Taken
      <4>2. CASE i \in DOMAIN q /\ Append(q, m)[i] = q[i]
        BY <2>2, <2>5, <3>2, <4>2 DEF IInv, QueuesAreRuns
      <4>3. CASE i = Len(q) + 1 /\ Append(q, m)[i] = m
        BY <2>3, <2>5, <3>2, <4>1, <4>3
      <4>4. QED
        BY <2>3, <2>5, <2>8, <3>2, <4>2, <4>3
    <3>3. QED
      BY <3>1, <3>2
  <2>9. QueuesAreRuns'
    BY <2>7, <2>8 DEF IInv, QueuesAreRuns
  <2>10. UNCHANGED <<open, task, nextUpstreamId, pending, chrome, got, link>>
    BY <1>1 DEF ClientSends
  <2>11. TypeOK'
    BY <2>5, <2>10 DEF IInv, TypeOK
  <2>12. QED
    BY <2>7, <2>9, <2>10, <2>11, QuietKeeps DEF IInv
<1>2. ASSUME UNCHANGED <<sent, queue, task, nextUpstreamId, pending, got>>,
             open' \subseteq open, chrome' \subseteq chrome, link' \in {link, "gone", "closed"}
      PROVE  IInv'
  <2>1. \A c \in Clients : Taken(c)' = Taken(c)
    BY <1>2 DEF Taken
  <2>2. QueuesAreRuns'
    BY <1>2, <2>1 DEF IInv, QueuesAreRuns
  <2>3. TypeOK'
    BY <1>2 DEF IInv, TypeOK
  <2>4. QED
    BY <1>2, <2>1, <2>2, <2>3, QuietKeeps DEF IInv
<1>3. ASSUME NEW c \in Clients, Disconnect(c) PROVE IInv'
  BY <1>2, <1>3 DEF Disconnect
<1>4. ASSUME NEW a \in chrome, AnswerLate(a) PROVE IInv'
  BY <1>2, <1>4 DEF AnswerLate
<1>5. CASE UpstreamCloses \/ Close
  BY <1>2, <1>5 DEF UpstreamCloses, Close
<1>6. CASE UNCHANGED vars
  BY <1>2, <1>6 DEF vars
<1>7. QED
  BY <1>1, <1>3, <1>4, <1>5, <1>6

\* A command leaves the queue to be refused.
LEMMA DenyKeeps ==
  ASSUME IInv, NEW c \in Clients, NEW m, Deny(c, m)
  PROVE  IInv'
<1>1. /\ Takes(c, m) /\ Send(c, <<Failure(c, m.id)>>)
      /\ UNCHANGED <<open, sent, task, nextUpstreamId, pending, chrome, link>>
  BY DEF Deny
<1>2. TypeOK /\ QueuesAreRuns
  BY DEF IInv
<1>3. /\ m \in Messages /\ m.id = Taken(c) + 1 /\ queue' \in [Clients -> Seq(Messages)]
      /\ QueuesAreRuns' /\ Taken(c)' = Taken(c) + 1
      /\ \A d \in Clients \ {c} : Taken(d)' = Taken(d)
  BY <1>1, <1>2, TakesKeeps
<1>4. PICK id \in Ids : id = m.id
  BY <1>3 DEF Messages
<1>5. Taken(c) \in Nat /\ task[c] = Idle
  BY <1>1, <1>2 DEF QueuesAreRuns, Takes
<1>6. AnswersTo(c, id) = {}
  BY <1>3, <1>4, <1>5 DEF IInv, OpenEnded, AnswersTo
<1>7. Send(c, <<Reply(id, FALSE, Command(c, id))>>)
  BY <1>1, <1>4 DEF Failure
<1>8. /\ got' \in [Clients -> Seq(Received)] /\ Right'
      /\ \A d \in Clients : \A i \in DOMAIN got'[d] :
           \/ d = c /\ got'[d][i].id = id
           \/ i \in DOMAIN got[d] /\ got'[d][i] = got[d][i]
      /\ \A d \in Clients, n \in Ids :
           (AnswersTo(d, n) = {} /\ (d # c \/ n # id)) => AnswersTo(d, n)' = {}
  BY <1>6, <1>7, AnswerSent
<1>9. \A e \in pending : e.of # Command(c, id)
  BY <1>3, <1>4, <1>5 DEF IInv, OwedOnce, Command
<1>10. OneHandler' /\ OwedOnce' /\ OpenEnded'
  <2>1. /\ id <= Taken(c)' /\ Taken(c)' \in Nat /\ Taken(c) <= Taken(c)'
        /\ task' = task /\ task'[c] = Idle /\ pending' = pending
    BY <1>1, <1>3, <1>4, <1>5
  <2>2. QED
    BY <1>3, <1>5, <1>8, <1>9, <2>1, AnswerKeeps
<1>11. TypeOK'
  BY <1>1, <1>3, <1>8 DEF IInv, TypeOK, Received
<1>12. NumbersAreFresh'
  BY <1>1 DEF IInv, NumbersAreFresh
<1>13. QED
  BY <1>3, <1>8, <1>10, <1>11, <1>12 DEF IInv

\* A command leaves the queue for Chrome, or for a handler of the mux.
LEMMA IssuedKeeps ==
  ASSUME IInv, NEW c \in Clients, NEW m, Forward(c, m) \/ Begin(c, m)
  PROVE  IInv'
<1>1. PICK internal \in BOOLEAN :
        /\ Takes(c, m) /\ Issue(c, m.id, internal, pending, chrome)
        /\ UNCHANGED <<open, sent, got, link>>
        /\ ~internal => task' = task
        /\ internal => task' = [task EXCEPT ![c] = [id |-> m.id, kind |-> m.kind, step |-> 1,
                                                    upstreamId |-> nextUpstreamId]]
  BY DEF Forward, Begin
<1>2. TypeOK /\ QueuesAreRuns /\ NumbersAreFresh
  BY DEF IInv
<1>3. /\ m \in Messages /\ m.id = Taken(c) + 1 /\ queue' \in [Clients -> Seq(Messages)]
      /\ QueuesAreRuns' /\ Taken(c)' = Taken(c) + 1
      /\ \A d \in Clients \ {c} : Taken(d)' = Taken(d)
  BY <1>1, <1>2, TakesKeeps
<1>4. PICK id \in Ids : id = m.id
  BY <1>3 DEF Messages
<1>5. PICK e \in Entries :
        e = [upstreamId |-> nextUpstreamId, of |-> Command(c, id), internal |-> internal]
  <2>1. nextUpstreamId \in Nat \ {0} /\ Command(c, id) \in Commands
    BY <1>2 DEF TypeOK, Command, Commands
  <2>2. QED
    BY <2>1 DEF Entries
<1>6. /\ e.upstreamId = nextUpstreamId /\ e.of = Command(c, id) /\ e.of.client = c /\ e.of.id = id
      /\ e.internal = internal
  BY <1>5 DEF Command
<1>7. /\ NumbersAreFresh' /\ nextUpstreamId' \in Nat \ {0} /\ chrome' \in SUBSET Works
      /\ pending' \in SUBSET Entries /\ pending' = pending \cup {e}
  BY <1>1, <1>2, <1>4, <1>5, IssueKeeps, SMTT(30)
<1>8. PICK h \in Handlers :
        /\ h.id = id /\ h.upstreamId = nextUpstreamId
        /\ internal => task' = [task EXCEPT ![c] = h]
  <2>1. PICK h \in Handlers :
          h = [id |-> m.id, kind |-> m.kind, step |-> 1, upstreamId |-> nextUpstreamId]
    <3>1. nextUpstreamId \in Nat \ {0} /\ m.id \in Ids /\ m.kind \in Kinds
      BY <1>2, <1>3 DEF TypeOK, Messages
    <3>2. QED
      BY <3>1 DEF Handlers
  <2>2. QED
    BY <1>1, <1>4, <2>1
<1>9. /\ task \in [Clients -> {Idle} \cup Handlers] /\ pending \in SUBSET Entries
      /\ got \in [Clients -> Seq(Received)]
  BY <1>2, Types
<1>10. /\ \A f \in Entries : f.of.client \in Clients /\ f.of.id \in Nat /\ f.of.id # 0
       /\ \A g \in Handlers : g.id # 0
       /\ \A x \in Received : x.id \in Nat
       /\ Idle.id = 0 /\ id \in Nat
  BY DEF Entries, Commands, Handlers, Received, Ids, Idle
<1>11. Taken(c) \in Nat /\ task[c] = Idle /\ \A d \in Clients : Taken(d) \in Nat
  BY <1>1, <1>2 DEF QueuesAreRuns, Takes
<1>12. /\ task' \in [Clients -> {Idle} \cup Handlers]
       /\ \A d \in Clients \ {c} : task'[d] = task[d]
       /\ internal => task'[c] = h
       /\ ~internal => task'[c] = Idle
  BY <1>1, <1>8, <1>9, <1>11
<1>13. h # Idle
  BY <1>10
<1>14. \A f \in pending : f.of.client = c => f.of.id # id /\ ~f.internal
  BY <1>3, <1>4, <1>9, <1>10, <1>11 DEF IInv, OwedOnce, OneHandler
<1>15. OneHandler'
  <2>1. \A d \in Clients : task'[d] # Idle => task'[d].id = Taken(d)'
    BY <1>3, <1>4, <1>8, <1>12 DEF IInv, OneHandler
  <2>2. ASSUME NEW f \in pending', f.internal
        PROVE  task'[f.of.client] # Idle /\ task'[f.of.client].id = f.of.id
                 /\ task'[f.of.client].upstreamId = f.upstreamId
    <3>1. CASE f = e
      BY <1>6, <1>8, <1>12, <1>13, <2>2, <3>1
    <3>2. CASE f \in pending
      BY <1>9, <1>10, <1>12, <1>14, <2>2, <3>2 DEF IInv, OneHandler
    <3>3. QED
      BY <1>7, <3>1, <3>2
  <2>3. QED
    BY <2>1, <2>2 DEF OneHandler
<1>16. OwedOnce'
  <2>1. ASSUME NEW f \in pending' PROVE f.of.id <= Taken(f.of.client)'
    <3>1. CASE f = e
      <4>1. id <= Taken(c)'
        BY <1>3, <1>4, <1>11
      <4>2. QED
        BY <1>6, <3>1, <4>1
    <3>2. CASE f \in pending
      <4>1. PICK d \in Clients : d = f.of.client /\ f.of.id <= Taken(d) /\ f.of.id \in Nat
        BY <1>9, <1>10, <3>2 DEF IInv, OwedOnce
      <4>2. f.of.id <= Taken(d)'
        BY <1>3, <1>11, <4>1
      <4>3. QED
        BY <4>1, <4>2
    <3>3. QED
      BY <1>7, <3>1, <3>2
  <2>2. ASSUME NEW f \in pending', ~f.internal PROVE task'[f.of.client].id # f.of.id
    <3>1. CASE f = e
      BY <1>6, <1>10, <1>12, <2>2, <3>1
    <3>2. CASE f \in pending
      <4>1. f.of.client # c => task'[f.of.client] = task[f.of.client]
        BY <1>9, <1>10, <1>12, <3>2
      <4>2. f.of.client = c => task'[c].id \in {0, id}
        BY <1>8, <1>10, <1>12
      <4>3. QED
        BY <1>9, <1>10, <1>14, <2>2, <3>2, <4>1, <4>2 DEF IInv, OwedOnce
    <3>3. QED
      BY <1>7, <3>1, <3>2
  <2>3. \A f, g \in pending' : f.of = g.of => f = g
    BY <1>6, <1>7, <1>14 DEF IInv, OwedOnce
  <2>4. QED
    BY <2>1, <2>2, <2>3 DEF OwedOnce
<1>17. \A d \in Clients, n \in Ids : AnswersTo(d, n)' = AnswersTo(d, n)
  BY <1>1 DEF AnswersTo
<1>18. AnswersTo(c, id) = {}
  BY <1>3, <1>4, <1>11 DEF IInv, OpenEnded, AnswersTo
<1>19. OpenEnded'
  <2>1. ASSUME NEW d \in Clients, NEW i \in DOMAIN got'[d] PROVE got'[d][i].id <= Taken(d)'
    <3>1. got'[d] = got[d] /\ got[d][i] \in Received
      BY <1>1, <1>9, <2>1
    <3>2. got[d][i].id <= Taken(d) /\ got[d][i].id \in Nat
      BY <1>10, <2>1, <3>1 DEF IInv, OpenEnded
    <3>3. Taken(d)' \in {Taken(d), Taken(d) + 1}
      BY <1>3
    <3>4. QED
      BY <1>11, <3>1, <3>2, <3>3
  <2>2. ASSUME NEW d \in Clients, task'[d] # Idle, NEW n \in Ids, n = task'[d].id
        PROVE  AnswersTo(d, n)' = {}
    <3>1. CASE d = c
      <4>1. n = id
        BY <1>8, <1>12, <2>2, <3>1
      <4>2. QED
        BY <1>1, <1>18, <3>1, <4>1 DEF AnswersTo
    <3>2. CASE d # c
      <4>1. task[d] # Idle /\ n = task[d].id
        BY <1>12, <2>2, <3>2
      <4>2. AnswersTo(d, n) = {}
        BY <4>1 DEF IInv, OpenEnded
      <4>3. QED
        BY <1>17, <4>2
    <3>3. QED
      BY <3>1, <3>2
  <2>3. ASSUME NEW f \in pending', ~f.internal, NEW d \in Clients, NEW n \in Ids,
               d = f.of.client, n = f.of.id
        PROVE  AnswersTo(d, n)' = {}
    <3>1. CASE f = e
      BY <1>1, <1>6, <1>18, <2>3, <3>1 DEF AnswersTo
    <3>2. CASE f \in pending
      <4>1. AnswersTo(d, n) = {}
        BY <2>3, <3>2 DEF IInv, OpenEnded
      <4>2. QED
        BY <1>17, <4>1
    <3>3. QED
      BY <1>7, <3>1, <3>2
  <2>4. \A d \in Clients : task'[d] # Idle => task'[d].id \in Ids
    BY <1>12 DEF Handlers
  <2>5. \A f \in pending' : f.of.client \in Clients /\ f.of.id \in Ids
    BY <1>7 DEF Entries, Commands
  <2>6. ASSUME NEW d \in Clients, task'[d] # Idle PROVE AnswersTo(d, task[d].id)' = {}
    <3>1. PICK n \in Ids : n = task'[d].id
      BY <2>4, <2>6
    <3>2. AnswersTo(d, n)' = {}
      BY <2>2, <2>6, <3>1
    <3>3. QED
      BY <3>1, <3>2 DEF AnswersTo
  <2>7. ASSUME NEW f \in pending', ~f.internal PROVE AnswersTo(f.of.client, f.of.id)' = {}
    <3>1. PICK d \in Clients, n \in Ids : d = f.of.client /\ n = f.of.id
      BY <2>5
    <3>2. AnswersTo(d, n)' = {}
      BY <2>3, <2>7, <3>1
    <3>3. QED
      BY <3>1, <3>2 DEF AnswersTo
  <2>8. QED
    BY <2>1, <2>6, <2>7 DEF OpenEnded
<1>20. Right'
  BY <1>1 DEF IInv, Right, AnswersTo
<1>21. TypeOK'
  BY <1>1, <1>2, <1>3, <1>7, <1>12 DEF TypeOK, Handlers, Entries, Works
<1>22. QED
  BY <1>3, <1>7, <1>15, <1>16, <1>19, <1>20, <1>21 DEF IInv

\* The handler of c ends, with an answer to its command: Chrome's or a failure.
LEMMA HandlerEnds ==
  ASSUME IInv, NEW c \in Clients, task[c] # Idle, NEW id \in Ids, id = task[c].id,
         NEW ok \in BOOLEAN,
         \/ Send(c, <<Reply(id, ok, Command(c, id))>>)
         \/ Send(c, <<Context(id, Command(c, id)), Reply(id, ok, Command(c, id))>>),
         task' = [task EXCEPT ![c] = Idle],
         pending' \subseteq pending, chrome' \subseteq chrome,
         \A e \in pending' : e.upstreamId # task[c].upstreamId,
         UNCHANGED <<clientVars, nextUpstreamId, link>>
  PROVE  IInv'
<1> USE DEF clientVars
<1>1. /\ task \in [Clients -> {Idle} \cup Handlers] /\ pending \in SUBSET Entries
      /\ got \in [Clients -> Seq(Received)] /\ TypeOK /\ QueuesAreRuns
  BY Types DEF IInv
<1>2. AnswersTo(c, id) = {}
  BY DEF IInv, OpenEnded
<1>3. /\ got' \in [Clients -> Seq(Received)] /\ Right'
      /\ \A d \in Clients : \A i \in DOMAIN got'[d] :
           \/ d = c /\ got'[d][i].id = id
           \/ i \in DOMAIN got[d] /\ got'[d][i] = got[d][i]
      /\ \A d \in Clients, n \in Ids :
           (AnswersTo(d, n) = {} /\ (d # c \/ n # id)) => AnswersTo(d, n)' = {}
  BY <1>2, AnswerSent
<1>4. \A d \in Clients : Taken(d)' = Taken(d) /\ Taken(d) \in Nat
  BY <1>1 DEF Taken, QueuesAreRuns
<1>5. \A e \in pending' : e.of.client = c => ~e.internal /\ e.of.id # id
  BY DEF IInv, OneHandler, OwedOnce
<1>6. \A e \in pending' : e.of # Command(c, id)
  BY <1>5 DEF Command
<1>7. \A e \in pending' : e.internal => task'[e.of.client] = task[e.of.client]
  BY <1>1, <1>5 DEF Entries, Commands
<1>8. OneHandler' /\ OwedOnce' /\ OpenEnded'
  <2>1. /\ id = Taken(c) /\ task'[c] = Idle
        /\ id <= Taken(c)' /\ Taken(c) \in Nat /\ Taken(c)' \in Nat /\ Taken(c) <= Taken(c)'
    BY <1>1, <1>4 DEF IInv, OneHandler
  <2>2. \A d \in Clients \ {c} : Taken(d)' = Taken(d)
    BY <1>4
  <2>3. QED
    BY <1>3, <1>6, <1>7, <2>1, <2>2, AnswerKeeps
<1>9. QueuesAreRuns'
  BY <1>4 DEF IInv, QueuesAreRuns
<1>10. NumbersAreFresh'
  BY DEF IInv, NumbersAreFresh
<1>11. TypeOK'
  <2>1. task' \in [Clients -> {Idle} \cup Handlers]
    BY <1>1
  <2>2. QED
    BY <1>1, <1>3, <2>1 DEF TypeOK, Handlers, Received
<1>12. QED
  BY <1>3, <1>8, <1>9, <1>10, <1>11 DEF IInv

LEMMA TimeoutKeeps ==
  ASSUME IInv, NEW c \in Clients, Timeout(c)
  PROVE  IInv'
<1>1. PICK id \in Ids : id = task[c].id
  <2>1. task[c] \in Handlers
    BY Types DEF IInv, Timeout
  <2>2. QED
    BY <2>1 DEF Handlers
<1>2. /\ task[c] # Idle
      /\ Send(c, <<Reply(id, FALSE, Command(c, id))>>)
      /\ task' = [task EXCEPT ![c] = Idle]
      /\ pending' \subseteq pending /\ chrome' \subseteq chrome
      /\ \A e \in pending' : e.upstreamId # task[c].upstreamId
      /\ UNCHANGED <<clientVars, nextUpstreamId, link>>
  BY <1>1 DEF Timeout, Fails, Failure
<1>3. QED
  BY <1>1, <1>2, HandlerEnds

\* Chrome answers a command of a client.
LEMMA ForwardedKeeps ==
  ASSUME IInv, NEW a \in chrome, NEW ok \in BOOLEAN, AnswerForwarded(a, ok)
  PROVE  IInv'
<1> USE DEF clientVars
<1>1. PICK e \in pending :
        /\ e.upstreamId = a.upstreamId /\ ~e.internal
        /\ pending' = pending \ {e} /\ chrome' = chrome \ {a}
        /\ Send(e.of.client, <<Reply(e.of.id, ok, a.of)>>)
        /\ UNCHANGED <<clientVars, task, nextUpstreamId, link>>
  BY DEF AnswerForwarded, OwedBy
<1>2. PICK c \in Clients, id \in Ids : c = e.of.client /\ id = e.of.id /\ e.of = Command(c, id)
  <2>1. e.of \in Commands
    BY DEF IInv, TypeOK
  <2>2. QED
    BY <2>1 DEF Commands, Command
<1>3. Send(c, <<Reply(id, ok, Command(c, id))>>)
  BY <1>1, <1>2 DEF IInv, NumbersAreFresh
<1>4. AnswersTo(c, id) = {}
  BY <1>1, <1>2 DEF IInv, OpenEnded
<1>5. /\ got' \in [Clients -> Seq(Received)] /\ Right'
      /\ \A d \in Clients : \A i \in DOMAIN got'[d] :
           \/ d = c /\ got'[d][i].id = id
           \/ i \in DOMAIN got[d] /\ got'[d][i] = got[d][i]
      /\ \A d \in Clients, n \in Ids :
           (AnswersTo(d, n) = {} /\ (d # c \/ n # id)) => AnswersTo(d, n)' = {}
  BY <1>3, <1>4, AnswerSent
<1>6. \A d \in Clients : Taken(d)' = Taken(d) /\ Taken(d) \in Nat
  BY <1>1 DEF Taken, IInv, QueuesAreRuns
<1>7. \A f \in pending' : f.of # Command(c, id)
  BY <1>1, <1>2 DEF IInv, OwedOnce
<1>8. OneHandler' /\ OwedOnce' /\ OpenEnded'
  <2>1. /\ task' = task /\ pending' \subseteq pending
        /\ id <= Taken(c)' /\ Taken(c) \in Nat /\ Taken(c)' \in Nat /\ Taken(c) <= Taken(c)'
    <3>1. id <= Taken(c)
      BY <1>2 DEF IInv, OwedOnce
    <3>2. QED
      BY <1>1, <1>6, <3>1
  <2>2. task'[c] # Idle => task[c].id # id /\ Taken(c)' = Taken(c)
    BY <1>1, <1>2, <1>6 DEF IInv, OwedOnce
  <2>3. \A d \in Clients \ {c} : Taken(d)' = Taken(d)
    BY <1>6
  <2>4. \A f \in pending' : f.internal => task'[f.of.client] = task[f.of.client]
    BY <2>1
  <2>5. QED
    BY <1>5, <1>7, <2>1, <2>2, <2>3, <2>4, AnswerKeeps
<1>9. QueuesAreRuns'
  BY <1>1, <1>6 DEF IInv, QueuesAreRuns
<1>10. NumbersAreFresh'
  BY <1>1 DEF IInv, NumbersAreFresh
<1>11. TypeOK'
  BY <1>1, <1>5 DEF IInv, TypeOK, Received
<1>12. QED
  BY <1>5, <1>8, <1>9, <1>10, <1>11 DEF IInv

\* Chrome answers a command of the mux.
LEMMA InternalKeeps ==
  ASSUME IInv, NEW a \in chrome, NEW ok \in BOOLEAN, AnswerInternal(a, ok)
  PROVE  IInv'
<1> USE DEF clientVars
<1>1. PICK e \in pending :
        /\ e.upstreamId = a.upstreamId /\ e.internal
        /\ \/ Resumes(e.of.client, a, pending \ {e}, chrome \ {a})
           \/ /\ Fails(e.of.client)
              /\ pending' = pending \ {e} /\ chrome' = chrome \ {a}
              /\ UNCHANGED nextUpstreamId
        /\ UNCHANGED <<clientVars, link>>
  BY DEF AnswerInternal, OwedBy
<1>2. PICK c \in Clients, id \in Ids : c = e.of.client /\ id = e.of.id /\ e.of = Command(c, id)
  <2>1. e.of \in Commands
    BY DEF IInv, TypeOK
  <2>2. QED
    BY <2>1 DEF Commands, Command
<1>3. /\ task[c] # Idle /\ id = task[c].id /\ task[c].upstreamId = e.upstreamId
      /\ a.of = Command(c, id)
  BY <1>1, <1>2 DEF IInv, OneHandler, NumbersAreFresh
<1>4. \A f \in pending \ {e} : f.upstreamId # task[c].upstreamId
  BY <1>3 DEF IInv, NumbersAreFresh
<1>5. ASSUME NEW good \in BOOLEAN,
             \/ Send(c, <<Reply(id, good, Command(c, id))>>)
             \/ Send(c, <<Context(id, Command(c, id)), Reply(id, good, Command(c, id))>>),
             task' = [task EXCEPT ![c] = Idle], pending' = pending \ {e},
             chrome' = chrome \ {a}, UNCHANGED nextUpstreamId
      PROVE  IInv'
  <2>1. /\ pending' \subseteq pending /\ chrome' \subseteq chrome
        /\ \A f \in pending' : f.upstreamId # task[c].upstreamId
        /\ UNCHANGED <<clientVars, nextUpstreamId, link>>
    BY <1>1, <1>4, <1>5
  <2>2. QED
    BY <1>3, <1>5, <2>1, HandlerEnds
<1>6. CASE Fails(c) /\ pending' = pending \ {e} /\ chrome' = chrome \ {a}
             /\ UNCHANGED nextUpstreamId
  BY <1>3, <1>5, <1>6 DEF Fails, Failure
<1>7. CASE /\ Send(c, <<Context(task[c].id, a.of), Reply(task[c].id, TRUE, a.of)>>)
           /\ task' = [task EXCEPT ![c] = Idle]
           /\ pending' = pending \ {e} /\ chrome' = chrome \ {a} /\ UNCHANGED nextUpstreamId
  BY <1>3, <1>5, <1>7
<1>8. CASE /\ Send(c, <<Reply(task[c].id, TRUE, a.of)>>)
           /\ task' = [task EXCEPT ![c] = Idle]
           /\ pending' = pending \ {e} /\ chrome' = chrome \ {a} /\ UNCHANGED nextUpstreamId
  BY <1>3, <1>5, <1>8
<1>9. CASE /\ Issue(c, task[c].id, TRUE, pending \ {e}, chrome \ {a})
           /\ task' = [task EXCEPT ![c].step = 2, ![c].upstreamId = nextUpstreamId]
           /\ UNCHANGED got
  <2>1. PICK h \in Handlers : h = [task[c] EXCEPT !.step = 2, !.upstreamId = nextUpstreamId]
    <3>1. task[c] \in Handlers /\ nextUpstreamId \in Nat \ {0}
      BY <1>3, Types DEF IInv
    <3>2. [task[c] EXCEPT !.step = 2, !.upstreamId = nextUpstreamId] \in Handlers
      BY <3>1 DEF Handlers
    <3>3. QED
      BY <3>2
  <2>2. task' = [task EXCEPT ![c] = h] /\ task \in [Clients -> {Idle} \cup Handlers]
    BY <1>9, <2>1, Types DEF IInv
  <2>3. h.id = id /\ h.upstreamId = nextUpstreamId /\ h # Idle
    <3>1. task[c] \in Handlers
      BY <1>3, Types DEF IInv
    <3>2. h.id = id /\ h.upstreamId = nextUpstreamId
      BY <1>3, <2>1, <3>1 DEF Handlers
    <3>3. QED
      BY <3>2 DEF Idle, Ids
  <2>4. PICK n \in Entries :
          n = [upstreamId |-> nextUpstreamId, of |-> Command(c, id), internal |-> TRUE]
    <3>1. nextUpstreamId \in Nat \ {0} /\ Command(c, id) \in Commands
      BY DEF IInv, TypeOK, Command, Commands
    <3>2. QED
      BY <3>1 DEF Entries
  <2>5. n.upstreamId = nextUpstreamId /\ n.of = Command(c, id) /\ n.internal
    BY <2>4
  <2>6. /\ NumbersAreFresh' /\ nextUpstreamId' \in Nat \ {0} /\ chrome' \in SUBSET Works
        /\ pending' \in SUBSET Entries /\ pending' = (pending \ {e}) \cup {n}
    <3>1. pending \ {e} \in SUBSET pending /\ chrome \ {a} \in SUBSET chrome
          /\ TypeOK /\ NumbersAreFresh
      BY DEF IInv
    <3>2. Issue(c, id, TRUE, pending \ {e}, chrome \ {a})
      BY <1>3, <1>9
    <3>3. QED
      BY <2>4, <3>1, <3>2, IssueKeeps
  <2>7. /\ task' \in [Clients -> {Idle} \cup Handlers] /\ task'[c] = h
        /\ \A d \in Clients \ {c} : task'[d] = task[d]
    BY <2>2
  <2>8. \A d \in Clients : Taken(d)' = Taken(d)
    BY <1>1 DEF Taken
  <2>9. \A f \in pending \ {e} : f.of.client = c => ~f.internal /\ f.of.id # id
    BY <1>3, <1>4 DEF IInv, OneHandler, OwedOnce
  <2>10. \A f \in pending : f \in Entries /\ f.of.client \in Clients
    BY Types DEF IInv, Entries, Commands
  <2>11. n.of.client = c /\ n.of.id = id
    BY <2>5 DEF Command
  <2>12. OneHandler'
    <3>1. \A d \in Clients : task'[d] # Idle => task'[d].id = Taken(d)'
      BY <1>3, <2>3, <2>7, <2>8 DEF IInv, OneHandler
    <3>2. \A f \in pending \ {e} : f.internal =>
            /\ task'[f.of.client] # Idle /\ task'[f.of.client].id = f.of.id
            /\ task'[f.of.client].upstreamId = f.upstreamId
      BY <2>7, <2>9, <2>10 DEF IInv, OneHandler
    <3>3. QED
      BY <2>3, <2>5, <2>6, <2>7, <2>11, <3>1, <3>2 DEF OneHandler
  <2>13. OwedOnce'
    <3>1. \A f \in pending' : f.of.id <= Taken(f.of.client)'
      <4>1. \A f \in pending \ {e} : f.of.id <= Taken(f.of.client)'
        BY <2>8, <2>10 DEF IInv, OwedOnce
      <4>2. n.of.id <= Taken(n.of.client)'
        <5>1. id <= Taken(c)'
          BY <1>2, <2>8 DEF IInv, OwedOnce
        <5>2. QED
          BY <2>11, <5>1
      <4>3. QED
        BY <2>6, <4>1, <4>2
    <3>2. \A f \in pending' : ~f.internal => task'[f.of.client].id # f.of.id
      BY <2>3, <2>5, <2>6, <2>7, <2>9, <2>10 DEF IInv, OwedOnce
    <3>3. \A f, g \in pending' : f.of = g.of => f = g
      BY <2>6, <2>9, <2>11 DEF IInv, OwedOnce
    <3>4. QED
      BY <3>1, <3>2, <3>3 DEF OwedOnce
  <2>14. OpenEnded'
    <3>1. \A d \in Clients : \A i \in DOMAIN got'[d] : got'[d][i].id <= Taken(d)'
      BY <1>9, <2>8 DEF IInv, OpenEnded
    <3>2. ASSUME NEW d \in Clients, task'[d] # Idle PROVE AnswersTo(d, task[d].id)' = {}
      <4>1. task[d] # Idle /\ task'[d].id = task[d].id
        BY <1>3, <2>3, <2>7, <3>2
      <4>2. AnswersTo(d, task[d].id) = {}
        BY <4>1 DEF IInv, OpenEnded
      <4>3. QED
        BY <1>9, <4>1, <4>2 DEF AnswersTo
    <3>3. ASSUME NEW f \in pending', ~f.internal
          PROVE  AnswersTo(f.of.client, f.of.id)' = {}
      <4>1. f \in pending
        BY <2>5, <2>6, <3>3
      <4>2. AnswersTo(f.of.client, f.of.id) = {}
        BY <3>3, <4>1 DEF IInv, OpenEnded
      <4>3. QED
        BY <1>9, <4>2 DEF AnswersTo
    <3>4. QED
      BY <3>1, <3>2, <3>3 DEF OpenEnded
  <2>15. QueuesAreRuns' /\ Right'
    BY <1>1, <1>9, <2>8 DEF IInv, QueuesAreRuns, Right, AnswersTo
  <2>16. TypeOK'
    BY <1>1, <1>9, <2>6, <2>7 DEF IInv, TypeOK, Handlers, Entries, Works
  <2>17. QED
    BY <2>6, <2>12, <2>13, <2>14, <2>15, <2>16 DEF IInv
<1>10. QED
  BY <1>1, <1>2, <1>6, <1>7, <1>8, <1>9 DEF Resumes

-----------------------------------------------------------------------------

LEMMA InductiveInvariant == Spec => []IInv
<1>1. Init => IInv
  <2> SUFFICES ASSUME Init PROVE IInv
    OBVIOUS
  <2> USE DEF Init
  <2>1. \A c \in Clients : queue[c] = <<>> /\ got[c] = <<>> /\ sent[c] = 0 /\ task[c] = Idle
    OBVIOUS
  <2>2. <<>> \in Seq(Messages) /\ <<>> \in Seq(Received) /\ Len(<<>>) = 0 /\ DOMAIN <<>> = {}
    OBVIOUS
  <2>3. TypeOK
    BY <2>2 DEF TypeOK, Received
  <2>4. \A c \in Clients : Taken(c) = 0
    BY <2>1, <2>2 DEF Taken
  <2>5. QueuesAreRuns /\ NumbersAreFresh /\ OneHandler /\ OwedOnce
    BY <2>1, <2>2, <2>4 DEF QueuesAreRuns, NumbersAreFresh, OneHandler, OwedOnce
  <2>6. OpenEnded /\ Right
    BY <2>1, <2>2 DEF OpenEnded, Right, AnswersTo
  <2>7. QED
    BY <2>3, <2>5, <2>6 DEF IInv
<1>2. IInv /\ [Next]_vars => IInv'
  <2> SUFFICES ASSUME IInv, [Next]_vars PROVE IInv'
    OBVIOUS
  <2>1. ASSUME NEW c \in Clients, Handle(c) PROVE IInv'
    BY <2>1, DenyKeeps, IssuedKeeps DEF Handle
  <2>2. CASE ChromeAnswers
    BY <2>2, OutsideKeeps, ForwardedKeeps, InternalKeeps DEF ChromeAnswers
  <2>3. QED
    BY <2>1, <2>2, OutsideKeeps, TimeoutKeeps DEF Next
<1>3. QED
  BY <1>1, <1>2, PTL DEF Spec

\* Every variable has its type: queues, handlers, both tables and what clients got.
THEOREM TypeCorrect == Spec => []TypeOK
<1>1. IInv => TypeOK
  BY DEF IInv
<1>2. QED
  BY <1>1, InductiveInvariant, PTL

\* mux.ts:2-3: every answer is the result of the very command whose number it bears, and
\* no number is answered twice, although all clients share a connection whose answers come
\* in any order and some of them late.
THEOREM AnswersAreRight == Spec => []AnswersMatch
<1>1. IInv => AnswersMatch
  BY DEF IInv, Right, AnswersMatch, Ids, TypeOK
<1>2. QED
  BY <1>1, InductiveInvariant, PTL

\* mux.ts:32-38: what goes to Chrome for a client is its eldest unhandled command.
THEOREM CommandsKeepOrder == Spec => OrderKept
<1> DEFINE InOrder ==
      \A e \in pending' \ pending : \A id \in Unhandled(e.of.client) : e.of.id <= id
<1>1. ASSUME IInv, NEW c \in Clients, NEW id \in Ids, NEW internal \in BOOLEAN,
             NEW owed \in SUBSET pending, NEW busy \in SUBSET chrome,
             Issue(c, id, internal, owed, busy), \A n \in Unhandled(c) : id <= n
      PROVE  InOrder
  BY <1>1 DEF Issue, Command
<1>2. ASSUME IInv, NEW c \in Clients, NEW n \in Unhandled(c)
      PROVE  Taken(c) < n \/ (n = task[c].id /\ n = Taken(c) /\ task[c] # Idle)
  <2>1. CASE \E i \in DOMAIN queue[c] : n = queue[c][i].id
    <3>1. PICK i \in DOMAIN queue[c] : n = queue[c][i].id
      BY <2>1
    <3>2. queue[c] \in Seq(Messages) /\ n = Taken(c) + i /\ Taken(c) \in Nat
      BY <1>2, <3>1 DEF IInv, TypeOK, QueuesAreRuns
    <3>3. QED
      BY <3>1, <3>2
  <2>2. CASE n = task[c].id /\ n # 0
    BY <1>2, <2>2 DEF IInv, OneHandler, Idle
  <2>3. QED
    BY <1>2, <2>1, <2>2 DEF Unhandled
<1>3. ASSUME IInv, NEW c \in Clients, NEW n \in Unhandled(c) PROVE n \in Nat
  <2>1. CASE \E i \in DOMAIN queue[c] : n = queue[c][i].id
    <3>1. PICK i \in DOMAIN queue[c] : n = queue[c][i].id
      BY <2>1
    <3>2. queue[c][i] \in Messages
      BY <1>3, <3>1 DEF IInv, TypeOK
    <3>3. QED
      BY <3>1, <3>2 DEF Messages, Ids
  <2>2. CASE n = task[c].id /\ n # 0
    <3>1. task[c] \in {Idle} \cup Handlers
      BY <1>3, Types DEF IInv
    <3>2. QED
      BY <2>2, <3>1 DEF Handlers, Idle, Ids
  <2>3. QED
    BY <1>3, <2>1, <2>2 DEF Unhandled
<1>4. ASSUME IInv, NEW c \in Clients, NEW m, Forward(c, m) \/ Begin(c, m) PROVE InOrder
  <2>1. TypeOK /\ QueuesAreRuns /\ Takes(c, m) /\ UNCHANGED sent
    BY <1>4 DEF IInv, Forward, Begin
  <2>2. m \in Messages /\ m.id = Taken(c) + 1
    BY <2>1, TakesKeeps
  <2>3. PICK id \in Ids : id = m.id
    BY <2>2 DEF Messages
  <2>4. \A n \in Unhandled(c) : Taken(c) < n
    BY <1>2, <1>4, <2>1 DEF Takes
  <2>5. \A n \in Unhandled(c) : n \in Nat
    BY <1>4, <1>3
  <2>6. Taken(c) \in Nat
    BY <2>1 DEF QueuesAreRuns
  <2>7. \A n \in Unhandled(c) : id <= n
    BY <2>2, <2>3, <2>4, <2>5, <2>6
  <2>8. PICK internal \in BOOLEAN : Issue(c, id, internal, pending, chrome)
    BY <1>4, <2>3 DEF Forward, Begin
  <2>9. QED
    BY <1>1, <1>4, <2>7, <2>8
<1>5. ASSUME IInv, NEW a \in chrome, NEW ok \in BOOLEAN, AnswerInternal(a, ok) PROVE InOrder
  <2>1. PICK e \in pending :
          /\ e.internal
          /\ \/ Resumes(e.of.client, a, pending \ {e}, chrome \ {a})
             \/ pending' = pending \ {e}
    BY <1>5 DEF AnswerInternal, OwedBy
  <2>2. PICK c \in Clients, id \in Ids : c = e.of.client /\ id = e.of.id
    BY <1>5 DEF IInv, TypeOK, Commands
  <2>3. task[c] # Idle /\ id = task[c].id /\ id = Taken(c)
    BY <1>5, <2>1, <2>2 DEF IInv, OneHandler
  <2>4. \A n \in Unhandled(c) : id <= n
    BY <1>2, <1>5, <1>3, <2>3 DEF Ids
  <2>5. CASE Issue(c, id, TRUE, pending \ {e}, chrome \ {a})
    BY <1>1, <1>5, <2>4, <2>5, ZenonT(40)
  <2>6. CASE pending' = pending \ {e}
    BY <2>6
  <2>7. QED
    BY <2>1, <2>2, <2>3, <2>5, <2>6 DEF Resumes
<1>6. ASSUME IInv, Next PROVE InOrder
  <2>1. \/ pending' \subseteq pending
        \/ \E m : \E c \in Clients : Forward(c, m) \/ Begin(c, m)
        \/ \E a \in chrome, ok \in BOOLEAN : AnswerInternal(a, ok)
    BY <1>6 DEF Next, ClientSends, Disconnect, Handle, Deny, Timeout, ChromeAnswers,
                AnswerLate, AnswerForwarded, UpstreamCloses, Close
  <2>2. QED
    BY <1>4, <1>5, <1>6, <2>1
<1>7. IInv /\ [Next]_vars => [InOrder]_vars
  BY <1>6
<1>8. QED
  BY <1>7, InductiveInvariant, PTL DEF Spec, OrderKept

=============================================================================
