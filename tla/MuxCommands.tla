---------------------------- MODULE MuxCommands ----------------------------
(***************************************************************************)
(* The command plane of the mux (packages/cdp: CdpMux; packages/fidelity:  *)
(* the suppression of Runtime.enable): many clients share one connection   *)
(* to Chrome.  Every client numbers its own commands; the mux numbers them *)
(* again for Chrome and turns the answers back.  A client's commands are   *)
(* handled one at a time, in order, although some need round trips of the  *)
(* mux's own; these are time-boxed, forwarded commands are not.            *)
(*                                                                         *)
(* Which targets and sessions a command is about is MuxTargets's matter.   *)
(***************************************************************************)
EXTENDS Naturals, Sequences, SequencesExt

CONSTANTS
  Clients,   \* downstream connections
  Compat,    \* those that asked for the unmitigated protocol
  Sends      \* Sends[c], a bound: commands c sends

ASSUME MuxCommandsAssumption ==
  /\ Compat \subseteq Clients
  /\ Sends \in [Clients -> Nat]

VARIABLES
  open,     \* clients whose socket is open
  sent,     \* sent[c]: commands c has sent; they are numbered from 1
  queue,    \* queue[c]: commands of c that wait for their turn
  task,     \* task[c]: the command of c that awaits an answer of Chrome, or Idle
  nextUpstreamId,
  pending,  \* the table of commands Chrome owes the mux an answer for
  chrome,   \* commands Chrome works on
  got,      \* got[c]: the messages c has received
  link      \* the connection to Chrome: "up", "gone" (unnoticed) or "closed"

clientVars == <<open, sent, queue>>
vars == <<clientVars, task, nextUpstreamId, pending, chrome, got, link>>

\* What a command needs: nothing but Chrome's answer, a target that the client's
\* scope does not grant, one round trip of the mux (closeTarget), or two.
Kinds == {"plain", "denied", "closeTarget", "Runtime.enable"}

Idle == [id |-> 0, kind |-> "idle", step |-> 0, upstreamId |-> 0]
Init ==
  /\ open = Clients
  /\ sent = [c \in Clients |-> 0]
  /\ queue = [c \in Clients |-> <<>>]
  /\ task = [c \in Clients |-> Idle]
  /\ nextUpstreamId = 1
  /\ pending = {} /\ chrome = {}
  /\ got = [c \in Clients |-> <<>>]
  /\ link = "up"

\* What a client receives: the result of the command `of`, under the number id.
Reply(id, ok, of)   == [type |-> "answer", id |-> id, ok |-> ok, of |-> of]
Context(id, of)     == [type |-> "context", id |-> id, ok |-> TRUE, of |-> of]
Command(c, id)      == [client |-> c, id |-> id]
Failure(c, id)      == Reply(id, FALSE, Command(c, id))

\* Nothing is sent to a socket that is not open.
Send(c, messages) ==
  got' = IF c \in open THEN [got EXCEPT ![c] = @ \o messages] ELSE got

-----------------------------------------------------------------------------
(* Clients.                                                                *)

ClientSends(c, kind) ==
  /\ c \in open /\ sent[c] < Sends[c]
  /\ sent' = [sent EXCEPT ![c] = @ + 1]
  /\ queue' = [queue EXCEPT ![c] = Append(@, [id |-> sent[c] + 1, kind |-> kind])]
  /\ UNCHANGED <<open, task, nextUpstreamId, pending, chrome, got, link>>

\* The client is dropped; what it sent before is still handled.
Disconnect(c) ==
  /\ c \in open
  /\ open' = open \ {c}
  /\ UNCHANGED <<sent, queue, task, nextUpstreamId, pending, chrome, got, link>>

-----------------------------------------------------------------------------
(* Handling a command.                                                     *)

\* Mutant: the client's own number goes to Chrome.
IssueVerbatim(c, id, internal, owed, busy) ==
  /\ nextUpstreamId' = nextUpstreamId + 1
  /\ pending' = {e \in owed : e.upstreamId # id} \cup
       {[upstreamId |-> id, of |-> Command(c, id), internal |-> internal]}
  /\ chrome' = busy \cup
       IF link = "up" THEN {[upstreamId |-> id, of |-> Command(c, id)]} ELSE {}

\* A command for Chrome under the next number, besides those Chrome owes an answer
\* for and is busy with; a socket that is not open drops it without a word.
Issue(c, id, internal, owed, busy) ==
  /\ nextUpstreamId' = nextUpstreamId + 1
  /\ pending' = owed \cup
       {[upstreamId |-> nextUpstreamId, of |-> Command(c, id), internal |-> internal]}
  /\ chrome' = busy \cup
       IF link = "up" THEN {[upstreamId |-> nextUpstreamId, of |-> Command(c, id)]} ELSE {}

\* Mutant: messages are handled as they come.
TakesAny(c, m) ==
  \E i \in DOMAIN queue[c] :
    /\ m = queue[c][i] /\ task[c] = Idle
    /\ queue' = [queue EXCEPT ![c] = RemoveAt(@, i)]

\* The next command of c, once the one before it is done.
Takes(c, m) ==
  /\ task[c] = Idle
  /\ queue[c] # <<>> /\ m = Head(queue[c])
  /\ queue' = [queue EXCEPT ![c] = Tail(@)]

\* aclDeniedTarget.
Deny(c, m) ==
  /\ Takes(c, m) /\ m.kind = "denied"
  /\ Send(c, <<Failure(c, m.id)>>)
  /\ UNCHANGED <<open, sent, task, nextUpstreamId, pending, chrome, link>>

Forward(c, m) ==
  /\ Takes(c, m)
  /\ m.kind = "plain" \/ (m.kind = "Runtime.enable" /\ c \in Compat)
  /\ Issue(c, m.id, FALSE, pending, chrome)
  /\ UNCHANGED <<open, sent, task, got, link>>

\* closeTarget, and Page.getFrameTree in place of Runtime.enable.
Begin(c, m) ==
  /\ Takes(c, m)
  /\ m.kind = "closeTarget" \/ (m.kind = "Runtime.enable" /\ c \notin Compat)
  /\ Issue(c, m.id, TRUE, pending, chrome)
  /\ task' = [task EXCEPT ![c] = [id |-> m.id, kind |-> m.kind, step |-> 1,
                                  upstreamId |-> nextUpstreamId]]
  /\ UNCHANGED <<open, sent, got, link>>

\* Mutant: the handler throws and nobody is told.
FailsSilently(c) ==
  /\ task' = [task EXCEPT ![c] = Idle]
  /\ UNCHANGED got

\* failMessage: the handler of c's command threw.
Fails(c) ==
  /\ task' = [task EXCEPT ![c] = Idle]
  /\ Send(c, <<Failure(c, task[c].id)>>)

\* The handler goes on with the answer to a: it asks for an isolated world, hands
\* the context of that world to the client before the answer, or answers at once.
Resumes(c, a, owed, busy) ==
  \/ /\ task[c].kind = "Runtime.enable" /\ task[c].step = 1
     /\ Issue(c, task[c].id, TRUE, owed, busy)
     /\ task' = [task EXCEPT ![c].step = 2, ![c].upstreamId = nextUpstreamId]
     /\ UNCHANGED got
  \/ /\ task[c].kind = "Runtime.enable" /\ task[c].step = 2
     /\ Send(c, <<Context(task[c].id, a.of), Reply(task[c].id, TRUE, a.of)>>)
     /\ task' = [task EXCEPT ![c] = Idle]
     /\ pending' = owed /\ chrome' = busy /\ UNCHANGED nextUpstreamId
  \/ /\ task[c].kind = "closeTarget"
     /\ Send(c, <<Reply(task[c].id, TRUE, a.of)>>)
     /\ task' = [task EXCEPT ![c] = Idle]
     /\ pending' = owed /\ chrome' = busy /\ UNCHANGED nextUpstreamId

\* internalCommand's deadline: the entry goes, a late answer finds none.
Timeout(c) ==
  /\ task[c] # Idle
  /\ pending' = {e \in pending : e.upstreamId # task[c].upstreamId}
  /\ Fails(c)
  /\ UNCHANGED <<clientVars, nextUpstreamId, chrome, link>>

-----------------------------------------------------------------------------
(* Chrome.                                                                 *)

\* Chrome answers in any order; the mux hands the answer to whom it is owed.
OwedBy(a) == {e \in pending : e.upstreamId = a.upstreamId}

AnswerForwarded(a, ok) ==
  \E e \in OwedBy(a) :
    /\ ~e.internal
    /\ pending' = pending \ {e} /\ chrome' = chrome \ {a}
    /\ Send(e.of.client, <<Reply(e.of.id, ok, a.of)>>)
    /\ UNCHANGED <<clientVars, task, nextUpstreamId, link>>

AnswerInternal(a, ok) ==
  \E e \in OwedBy(a) :
    /\ e.internal
    /\ \/ ok /\ Resumes(e.of.client, a, pending \ {e}, chrome \ {a})
       \/ /\ ~ok /\ Fails(e.of.client)
          /\ pending' = pending \ {e} /\ chrome' = chrome \ {a}
          /\ UNCHANGED nextUpstreamId
    /\ UNCHANGED <<clientVars, link>>

AnswerLate(a) ==
  /\ OwedBy(a) = {}
  /\ chrome' = chrome \ {a}
  /\ UNCHANGED <<clientVars, task, nextUpstreamId, pending, got, link>>

\* Chrome ends the connection in good order: nobody listens to that.
UpstreamCloses ==
  /\ link = "up"
  /\ link' = "gone" /\ chrome' = {}
  /\ UNCHANGED <<clientVars, task, nextUpstreamId, pending, got>>

\* The connection fails, or the identity is stopped: the mux closes its clients.
Close ==
  /\ link # "closed"
  /\ link' = "closed" /\ chrome' = {} /\ open' = {}
  /\ UNCHANGED <<sent, queue, task, nextUpstreamId, pending, got>>

-----------------------------------------------------------------------------

Handle(c) ==
  \E i \in DOMAIN queue[c] : LET m == queue[c][i] IN Deny(c, m) \/ Forward(c, m) \/ Begin(c, m)

ChromeAnswers ==
  \E a \in chrome :
    AnswerLate(a) \/ \E ok \in BOOLEAN : AnswerForwarded(a, ok) \/ AnswerInternal(a, ok)

Next ==
  \/ \E c \in Clients :
       \/ \E kind \in Kinds : ClientSends(c, kind)
       \/ Disconnect(c)
       \/ Handle(c) \/ Timeout(c)
  \/ ChromeAnswers
  \/ UpstreamCloses \/ Close

Spec == Init /\ [][Next]_vars

\* The event loop runs handlers and timers; a Chrome that is there answers.
Fairness ==
  /\ \A c \in Clients : WF_vars(Handle(c)) /\ WF_vars(Timeout(c))
  /\ WF_vars(ChromeAnswers)

FairSpec == Spec /\ Fairness

-----------------------------------------------------------------------------

Ids      == Nat \ {0}
Messages == [id : Ids, kind : Kinds]
Commands == [client : Clients, id : Ids]

\* Every variable has its type.
TypeOK ==
  /\ open \in SUBSET Clients
  /\ sent \in [Clients -> Nat]
  /\ queue \in [Clients -> Seq(Messages)]
  /\ task \in [Clients -> {Idle} \cup
       [id : Ids, kind : Kinds, step : {1, 2}, upstreamId : Nat \ {0}]]
  /\ nextUpstreamId \in Nat \ {0}
  /\ pending \in SUBSET [upstreamId : Nat \ {0}, of : Commands, internal : BOOLEAN]
  /\ chrome \in SUBSET [upstreamId : Nat \ {0}, of : Commands]
  /\ got \in [Clients -> Seq([type : {"answer", "context"}, id : Ids, ok : BOOLEAN,
                              of : Commands])]
  /\ link \in {"up", "gone", "closed"}

AnswersTo(c, id) == {i \in DOMAIN got[c] : got[c][i].type = "answer" /\ got[c][i].id = id}

\* mux.ts:2-3: commands of all clients share a connection and a numbering, their
\* answers come in any order, some after a time-out, and yet a client gets at most
\* one answer under each of its numbers: the result of that very command.
AnswersMatch ==
  \A c \in Clients :
    /\ \A i \in DOMAIN got[c] : got[c][i].of = Command(c, got[c][i].id)
    /\ \A id \in 1..sent[c] : \A i, j \in AnswersTo(c, id) : i = j

\* Commands of c that have not been handled to the end.
Unhandled(c) == {queue[c][i].id : i \in DOMAIN queue[c]} \cup ({task[c].id} \ {0})

\* mux.ts:32-38: a command reaches Chrome only when every earlier one of its
\* client has been handled, however many round trips that took.
OrderKept ==
  [][\A e \in pending' \ pending : \A id \in Unhandled(e.of.client) : e.of.id <= id]_vars

\* mux.ts:157, 340-346: while Chrome is connected, an open client gets an answer to
\* every command: Chrome's, or an error when the handling failed or took too long.
EveryCommandIsAnswered ==
  \A c \in Clients : \A id \in 1..Sends[c] :
    sent[c] >= id ~> (AnswersTo(c, id) # {} \/ c \notin open \/ link # "up")

=============================================================================
