------------------------------- MODULE Access ------------------------------
(***************************************************************************)
(* Who gets in: the access token and its resolution at boot                *)
(* (packages/shared), the throttle and the login of the gateway            *)
(* (apps/gateway/src/auth), and the sign-in gate of the dashboard          *)
(* (apps/web: App, LoginView, lib/auth, lib/trpc).                         *)
(*                                                                         *)
(* All pages of one browser share a cookie jar and an address; those that  *)
(* are not in Screens log in and out all the same.  A request              *)
(* takes its cookie when it is sent, is judged when the gateway handles it *)
(* and changes the page when its answer arrives; pages sign in and out in  *)
(* between, and the gateway may be restarted with another token.           *)
(*                                                                         *)
(* Time is kept as the age of what happened, up to Window, where nothing   *)
(* changes any more.                                                       *)
(***************************************************************************)
EXTENDS Naturals, Sequences, FiniteSets, SequencesExt

CONSTANTS
  Tokens,       \* tokens the operator may configure or the gateway may mint
  Screens,      \* pages of the dashboard, in one browser
  Addresses,    \* socket addresses that log in
  Browser,      \* the one of the pages
  Window,       \* WINDOW_MS, in ticks
  Second,       \* a second, in ticks
  MaxFailures,  \* MAX_FAILURES
  MaxTracked,   \* MAX_TRACKED
  Edits,        \* bound: changes of the configuration
  Absent

ASSUME AccessAssumption ==
  /\ Browser \in Addresses
  /\ Absent \notin Tokens \cup Nat
  /\ Window \in Nat \ {0} /\ Second \in Nat \ {0}
  /\ MaxFailures \in Nat \ {0} /\ MaxTracked \in Nat \ {0}
  /\ Edits \in Nat

VARIABLES
  stored,    \* the token in the config file
  env,       \* CHROMATRIX_TOKEN
  edits,     \* changes left to the operator
  printed,   \* the token that was printed, until another is configured (history)
  boot,      \* "down", "minting", "up"
  token,     \* accessToken of the running process
  failures,  \* the map of the throttle, in insertion order
  guesses,   \* guesses[a]: ages of the wrong tokens compared for a (history)
  promise,   \* promise[a]: ticks until Retry-After has just passed (history)
  jar,       \* the session cookie of the browser
  gate,      \* gate[p]: "closed", "asking", "login", "app"
  net        \* requests of pages: kind, the cookie or token carried, the answer

configVars   == <<stored, env, edits>>
bootVars     == <<printed, boot, token>>
throttleVars == <<failures, guesses, promise>>
pageVars     == <<jar, gate, net>>
accessVars == <<configVars, bootVars, throttleVars, pageVars>>

Up == boot = "up"

AccessInit ==
  /\ stored = Absent
  /\ env = Absent
  /\ edits = Edits
  /\ printed = Absent
  /\ boot = "down"
  /\ token = Absent
  /\ failures = <<>>
  /\ guesses = [a \in Addresses |-> <<>>]
  /\ promise = [a \in Addresses |-> Absent]
  /\ jar = Absent
  /\ gate = [p \in Screens |-> "closed"]
  /\ net = {}

-----------------------------------------------------------------------------
(* Configuration and boot.                                                 *)

\* The environment overrides the file.
Resolved == IF env # Absent THEN env ELSE stored

\* The operator edits the file or sets the environment (not in the instant of a
\* first boot between minting and writing); a running gateway does not look.  A
\* printed token that is overruled on purpose is not promised to last.
Configure(file, variable) ==
  /\ edits > 0
  /\ boot # "minting"
  /\ (file = stored) # (variable = env)
  /\ edits' = edits - 1
  /\ stored' = file
  /\ env' = variable
  /\ printed' = IF file # stored \/ variable # Absent THEN Absent ELSE printed
  /\ UNCHANGED <<boot, token, throttleVars, pageVars>>

\* ensureToken finds a token.
Boot ==
  /\ boot = "down"
  /\ Resolved # Absent
  /\ boot' = "up"
  /\ token' = Resolved
  /\ UNCHANGED <<configVars, printed, throttleVars, pageVars>>

\* ensureToken mints one, which nobody has seen before.
Mint(k) ==
  /\ boot = "down"
  /\ Resolved = Absent
  /\ k \notin {printed, jar}
  /\ boot' = "minting"
  /\ token' = k
  /\ UNCHANGED <<configVars, printed, throttleVars, pageVars>>

\* Mutant: the minted token is printed and not persisted.
PrintOnly ==
  /\ boot = "minting"
  /\ boot' = "up"
  /\ printed' = IF printed = Absent THEN token ELSE printed
  /\ UNCHANGED <<configVars, token, throttleVars, pageVars>>

\* It is written to the file before anything is served, then printed once.
Persist ==
  /\ boot = "minting"
  /\ stored' = token
  /\ boot' = "up"
  /\ printed' = IF printed = Absent THEN token ELSE printed
  /\ UNCHANGED <<env, edits, token, throttleVars, pageVars>>

\* The process ends: the throttle is memory, and unanswered requests fail.
GoDown ==
  /\ boot # "down"
  /\ boot' = "down"
  /\ token' = Absent
  /\ failures' = <<>>
  /\ guesses' = [a \in Addresses |-> <<>>]
  /\ promise' = [a \in Addresses |-> Absent]
  /\ net' = {IF r.answer = Absent THEN [r EXCEPT !.answer = "failed"] ELSE r : r \in net}
  /\ UNCHANGED <<configVars, printed, jar, gate>>

-----------------------------------------------------------------------------
(* The throttle.                                                           *)

Older(age) == IF age < Window THEN age + 1 ELSE Window

\* What is younger than span.  Ages are in the order of what happened, so that a
\* filter by age keeps an end of them.
Younger(ages, span) ==
  LET old == {i \in DOMAIN ages : ages[i] >= span}
  IN  SubSeq(ages, Cardinality(old) + 1, Len(ages))

\* Time passes.
TimePasses ==
  /\ Up
  /\ failures' = [i \in DOMAIN failures |->
                    [failures[i] EXCEPT !.ages = [j \in DOMAIN @ |-> Older(@[j])]]]
  /\ guesses' = [a \in Addresses |->
       Younger([j \in DOMAIN guesses[a] |-> Older(guesses[a][j])], Window)]
  /\ promise' = [a \in Addresses |-> IF promise[a] \in Nat \ {0} THEN promise[a] - 1
                                     ELSE Absent]
  /\ UNCHANGED <<configVars, bootVars, pageVars>>

Has(m, a)     == \E i \in DOMAIN m : m[i].address = a
PlaceOf(m, a) == CHOOSE i \in DOMAIN m : m[i].address = a
Drop(m, a)    == IF Has(m, a) THEN RemoveAt(m, PlaceOf(m, a)) ELSE m
AgesOf(m, a)  == IF Has(m, a) THEN m[PlaceOf(m, a)].ages ELSE <<>>

\* Map.set: an entry keeps its place, a new one goes to the end.
Put(m, a, ages) ==
  IF Has(m, a)
  THEN [i \in DOMAIN m |-> IF m[i].address = a THEN [m[i] EXCEPT !.ages = ages] ELSE m[i]]
  ELSE Append(m, [address |-> a, ages |-> ages])

\* Mutant: a failure counts for one tick less.
RecentShort(m, a) == Younger(AgesOf(m, a), Window - 1)

Recent(m, a) == Younger(AgesOf(m, a), Window)

\* An address without recent failures leaves the map.
Prune(m, a) ==
  IF Recent(m, a) = <<>> THEN Drop(m, a) ELSE Put(m, a, Recent(m, a))

Locked(a) == Len(Recent(failures, a)) >= MaxFailures

AtLeast1(n) == IF n < 1 THEN 1 ELSE n

\* Mutant: the wait is rounded down.
RetryAfterFloor(a) ==
  LET recent == Recent(failures, a)
      oldest == recent[Len(recent) - MaxFailures + 1]
  IN  AtLeast1((Window - oldest) \div Second)

\* Seconds until the oldest failure that counts is out of the window.
RetryAfter(a) ==
  LET recent == Recent(failures, a)
      oldest == recent[Len(recent) - MaxFailures + 1]
  IN  AtLeast1((Window - oldest + Second - 1) \div Second)

\* recordLoginFailure: a full map gives up its eldest address for a new one.
Record(m, a) ==
  LET room == IF ~Has(m, a) /\ Len(m) >= MaxTracked THEN Tail(m) ELSE m
  IN  Put(Prune(room, a), a, Append(Recent(room, a), 0))

\* login of the controller, for a token k from address a.
Verdict(a, k) ==
  CASE Locked(a)  -> "429"
    [] ~Locked(a) /\ k = token  -> "ok"
    [] ~Locked(a) /\ k # token  -> "401"

Judge(a, k) ==
  LET pruned == Prune(failures, a) IN
  CASE Verdict(a, k) = "429" ->
         /\ failures' = pruned
         /\ promise' = [promise EXCEPT ![a] = RetryAfter(a) * Second]
         /\ UNCHANGED guesses
    [] Verdict(a, k) = "ok" ->
         /\ failures' = Drop(pruned, a)
         /\ promise' = [promise EXCEPT ![a] = Absent]
         /\ guesses' = [guesses EXCEPT ![a] = <<>>]
    [] Verdict(a, k) = "401" ->
         /\ failures' = Record(pruned, a)
         /\ promise' = [b \in Addresses |-> IF b = a \/ ~Has(failures', b) THEN Absent
                                            ELSE promise[b]]
         /\ guesses' = [b \in Addresses |->
              IF b = a THEN Append(guesses[a], 0)
              ELSE IF Has(failures', b) THEN guesses[b] ELSE <<>>]

\* A login that no modelled page makes: a script's, or another page's of the
\* browser, whose cookie it sets.
LoginElsewhere(a, k) ==
  /\ Up
  /\ Judge(a, k)
  /\ jar' = IF a = Browser /\ Verdict(a, k) = "ok" THEN k ELSE jar
  /\ UNCHANGED <<configVars, bootVars, gate, net>>

\* Another page of the browser signs out.
LogoutElsewhere ==
  /\ Up
  /\ jar' = Absent
  /\ UNCHANGED <<configVars, bootVars, throttleVars, gate, net>>

-----------------------------------------------------------------------------
(* The pages.                                                              *)

Request(p, kind, carried) ==
  [page |-> p, kind |-> kind, carried |-> carried, answer |-> Absent]

Asking(p, kind) == \E r \in net : r.page = p /\ r.kind = kind

Send(p, kind, carried) ==
  /\ ~Asking(p, kind)
  /\ net' = net \cup {Request(p, kind, carried)}

\* A page is loaded; until it knows whether it is signed in it shows nothing.
Load(p) ==
  /\ gate[p] = "closed"
  /\ gate' = [gate EXCEPT ![p] = "asking"]
  /\ Send(p, "status", jar)
  /\ UNCHANGED <<configVars, bootVars, throttleVars, jar>>

\* LoginView submits; it is busy until the answer.
SubmitToken(p, k) ==
  /\ gate[p] = "login"
  /\ Send(p, "login", k)
  /\ UNCHANGED <<configVars, bootVars, throttleVars, jar, gate>>

\* SessionsProvider polls as long as the app is shown.
PollSessions(p) ==
  /\ gate[p] = "app"
  /\ Send(p, "poll", jar)
  /\ UNCHANGED <<configVars, bootVars, throttleVars, jar, gate>>

SignOut(p) ==
  /\ gate[p] = "app"
  /\ Send(p, "logout", jar)
  /\ UNCHANGED <<configVars, bootVars, throttleVars, jar, gate>>

Answered(r, answer) == net' = (net \ {r}) \cup {[r EXCEPT !.answer = answer]}

\* The gateway is not there, or the connection breaks.
Fails(r) ==
  /\ r.answer = Absent
  /\ ~Up
  /\ Answered(r, "failed")
  /\ UNCHANGED <<configVars, bootVars, throttleVars, jar, gate>>

\* The gateway handles a request, with the cookie it came with; a cookie that it
\* sets or clears is in the jar with the headers of the answer.
Serve(r) ==
  /\ Up
  /\ r.answer = Absent
  /\ CASE r.kind \in {"status", "poll"} ->
            /\ Answered(r, IF r.carried = token THEN "ok" ELSE "401")
            /\ UNCHANGED <<throttleVars, jar>>
       [] r.kind = "login" ->
            /\ Judge(Browser, r.carried)
            /\ Answered(r, Verdict(Browser, r.carried))
            /\ jar' = IF Verdict(Browser, r.carried) = "ok" THEN r.carried ELSE jar
       [] r.kind = "logout" ->
            /\ Answered(r, "ok")
            /\ jar' = Absent
            /\ UNCHANGED throttleVars
  /\ UNCHANGED <<configVars, bootVars, gate>>

\* Mutant: a 401 is an error like any other.
AfterIgnoring401(r) ==
  CASE r.kind = "status" -> IF r.answer = "ok" THEN "app" ELSE "login"
    [] r.kind = "login"  -> IF r.answer = "ok" THEN "app" ELSE gate[r.page]
    [] r.kind = "logout" -> "login"
    [] r.kind = "poll"   -> gate[r.page]

\* The gate of a page after an answer: status decides, a login that was accepted
\* opens, a sign-out closes whatever the gateway said, and so does any 401.
After(r) ==
  CASE r.kind = "status" -> IF r.answer = "ok" THEN "app" ELSE "login"
    [] r.kind = "login"  -> IF r.answer = "ok" THEN "app" ELSE gate[r.page]
    [] r.kind = "logout" -> "login"
    [] r.kind = "poll"   -> IF r.answer = "401" THEN "login" ELSE gate[r.page]

Arrive(r) ==
  /\ r.answer # Absent
  /\ net' = net \ {r}
  /\ gate' = [gate EXCEPT ![r.page] = After(r)]
  /\ UNCHANGED <<configVars, bootVars, throttleVars, jar>>

-----------------------------------------------------------------------------

Operator ==
  \/ \E f, v \in Tokens \cup {Absent} : Configure(f, v)
  \/ Boot \/ (\E k \in Tokens : Mint(k)) \/ Persist \/ GoDown

AccessNext ==
  \/ Operator
  \/ TimePasses
  \/ \E a \in Addresses, k \in Tokens : LoginElsewhere(a, k)
  \/ LogoutElsewhere
  \/ \E p \in Screens :
       \/ Load(p) \/ PollSessions(p) \/ SignOut(p)
       \/ \E k \in Tokens : SubmitToken(p, k)
  \/ \E r \in net : Serve(r) \/ Fails(r) \/ Arrive(r)

AccessSpec == AccessInit /\ [][AccessNext]_accessVars

\* The poll runs on a timer, and is answered or fails.
AccessFairSpec ==
  /\ AccessSpec
  /\ \A p \in Screens :
       /\ WF_accessVars(PollSessions(p))
       /\ WF_accessVars(\E r \in net : r.page = p /\ r.kind = "poll"
                                 /\ (Serve(r) \/ Fails(r) \/ Arrive(r)))

-----------------------------------------------------------------------------
(* Properties.                                                             *)

Ages    == Seq(0..Window)
Answers == {"ok", "401", "429", "failed"}

\* The values of the variables; the map has each address once.
AccessTypeOK ==
  /\ stored \in Tokens \cup {Absent} /\ env \in Tokens \cup {Absent}
  /\ edits \in Nat
  /\ printed \in Tokens \cup {Absent}
  /\ boot \in {"down", "minting", "up"} /\ token \in Tokens \cup {Absent}
  /\ failures \in Seq([address : Addresses, ages : Ages])
  /\ \A i, j \in DOMAIN failures : failures[i].address = failures[j].address => i = j
  /\ guesses \in [Addresses -> Ages]
  /\ promise \in [Addresses -> Nat \cup {Absent}]
  /\ jar \in Tokens \cup {Absent}
  /\ gate \in [Screens -> {"closed", "asking", "login", "app"}]
  /\ net \subseteq [page : Screens, kind : {"status", "login", "poll", "logout"},
                   carried : Tokens \cup {Absent}, answer : Answers \cup {Absent}]

\* Whatever the order of failures, refusals, pruning and eviction, no address has
\* more than MaxFailures wrong tokens compared within any window, and the map
\* does not outgrow its cap (login-throttle.ts:12-15, 20-45).  A success, an
\* eviction and a restart start afresh.
WindowBound ==
  /\ \A a \in Addresses : Len(guesses[a]) <= MaxFailures
  /\ Len(failures) <= MaxTracked

\* Who waits as long as Retry-After said is not refused again, with whole seconds
\* and a window that moves (login-throttle.ts:27-37).
RetryAfterIsHonest == \A a \in Addresses : promise[a] = 0 => ~Locked(a)

\* The token that was printed "the only time it is printed" (main.ts:57) opens the
\* gateway after every restart and crash, until somebody configures another one
\* (token.ts:66-84).
PrintedTokenLasts == Up /\ printed # Absent => token = printed

\* A page that shows the app without a valid cookie - signed out in another page,
\* or the token rotated - comes to the sign-in screen by itself (App.tsx:22-24,
\* auth.ts:46-55), unless the cookie becomes valid or the gateway goes away.
GateFollowsCookie ==
  \A p \in Screens :
    (Up /\ gate[p] = "app" /\ jar # token)
      ~> (gate[p] # "app" \/ jar = token \/ ~Up)

=============================================================================
