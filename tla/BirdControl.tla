----------------------------- MODULE BirdControl -----------------------------
(***************************************************************************)
(* The control client of BIRD that the include appliers and the canary     *)
(* use: Reconnecting.call over Client.Do.  A call holds the mutex from its *)
(* first attempt to its return, so callers never meet in here.             *)
(*                                                                         *)
(* BIRD (external) takes commands off a connection in order and answers    *)
(* each with one or several lines, asynchronous ones among them; it may be *)
(* slower than the deadline, and may be restarted at any time.  What it    *)
(* was told before the client hung up it still carries out.                *)
(***************************************************************************)
EXTENDS Integers, Sequences

CONSTANT MaxCalls   \* bound: calls made

VARIABLES
  at,        \* where the call is: "idle", "ensure", "write" or "read"
  call,      \* its number, counted from 1
  attempt,   \* attempts of it that failed
  cur,       \* Reconnecting holds a client
  sock,      \* that client's connection: "open", or "closed" by BIRD
  pipe,      \* lines on that connection not read yet: [call, kind]
  queue,     \* commands BIRD has to carry out: [call, live], live if it can answer
  up,        \* BIRD is up
  runs,      \* how often the call was carried out
  faulty,    \* a deadline passed or a connection was lost during the call
  out        \* how the last call returned: [kind, of], of the call the answer is to

birdVars == <<at, call, attempt, cur, sock, pipe, queue, up, runs, faulty, out>>

\* A line is asynchronous ('+'), continued ('-'), or the last of a reply, which is a
\* refusal if its code is 8000 or more.
Lines == {"async", "more", "ok", "refused"}

BirdInit ==
  /\ at = "idle"
  /\ call = 0
  /\ attempt = 0
  /\ cur = FALSE
  /\ sock = "closed"
  /\ pipe = <<>>
  /\ queue = <<>>
  /\ up = TRUE
  /\ runs = 0
  /\ faulty = FALSE
  /\ out = [kind |-> "none", of |-> 0]

-----------------------------------------------------------------------------
(***************************************************************************)
(* The client.                                                             *)
(***************************************************************************)

\* ConfigureCheck, Configure, ConfigureTimeout, ConfigureConfirm.
Begin ==
  /\ at = "idle"
  /\ call < MaxCalls
  /\ call' = call + 1
  /\ at' = "ensure"
  /\ attempt' = 0
  /\ runs' = 0
  /\ faulty' = FALSE
  /\ UNCHANGED <<cur, sock, pipe, queue, up, out>>

Return(kind, of) ==
  /\ at' = "idle"
  /\ out' = [kind |-> kind, of |-> of]

\* ensureLocked: the client held, or a new connection.
Held ==
  /\ at = "ensure"
  /\ cur
  /\ at' = "write"
  /\ UNCHANGED <<call, attempt, cur, sock, pipe, queue, up, runs, faulty, out>>

\* Dial, its banner read.
Dialled ==
  /\ at = "ensure"
  /\ ~cur
  /\ up
  /\ cur' = TRUE
  /\ sock' = "open"
  /\ pipe' = <<>>
  /\ at' = "write"
  /\ UNCHANGED <<call, attempt, queue, up, runs, faulty, out>>

\* No socket, no banner in time, or another banner: the call gives up.
DialFails ==
  /\ at = "ensure"
  /\ ~cur
  /\ Return("error", call)
  /\ UNCHANGED <<call, attempt, cur, sock, pipe, queue, up, runs, faulty>>

\* At most one redial and retry.
RetryOnce(failed) == failed < 2

\* A connection fault: Do closes the connection, dropLocked forgets the client; BIRD
\* can no longer answer what it was told on it.
ConnFault ==
  /\ cur' = FALSE
  /\ sock' = "closed"
  /\ pipe' = <<>>
  /\ queue' = [i \in DOMAIN queue |-> [queue[i] EXCEPT !.live = FALSE]]
  /\ IF RetryOnce(attempt + 1)
     THEN at' = "ensure" /\ attempt' = attempt + 1 /\ UNCHANGED out
     ELSE Return("error", call) /\ UNCHANGED attempt

\* Do writes the command.
Write ==
  /\ at = "write"
  /\ IF sock = "open"
     THEN /\ queue' = Append(queue, [call |-> call, live |-> TRUE])
          /\ at' = "read"
          /\ UNCHANGED <<attempt, cur, sock, pipe, faulty, out>>
     ELSE /\ ConnFault
          /\ faulty' = TRUE
  /\ UNCHANGED <<call, up, runs>>

\* Mutant: the first line with a code ends a reply.
AnyCoded(line) == line.kind # "async"

\* readReply goes on past asynchronous and continued lines.
Final(line) == line.kind \in {"ok", "refused"}

\* Mutant: a refusal is taken for a dead connection.
AnyError(err) == TRUE

\* isConnFault: a CommandError is an answer, every other error a dead connection.
IsConnFault(err) == err # "refused"

Read ==
  /\ at = "read"
  /\ pipe # <<>>
  /\ LET line == Head(pipe) IN
     CASE ~Final(line) ->
            pipe' = Tail(pipe) /\ UNCHANGED <<at, attempt, cur, sock, queue, out>>
       [] line.kind = "refused" /\ IsConnFault(line.kind) -> ConnFault
       [] OTHER ->
            /\ Return(line.kind, line.call)
            /\ pipe' = Tail(pipe)
            /\ UNCHANGED <<attempt, cur, sock, queue>>
  /\ UNCHANGED <<call, up, runs, faulty>>

\* Mutant: the connection has no deadline.
NoDeadline == FALSE

\* SetDeadline: however far BIRD is, the time may be up.
Deadline == TRUE

\* The deadline passes, or the end of the connection is read.
ReadFails ==
  /\ at = "read"
  /\ Deadline \/ (sock = "closed" /\ pipe = <<>>)
  /\ ConnFault
  /\ faulty' = TRUE
  /\ UNCHANGED <<call, up, runs>>

-----------------------------------------------------------------------------
(***************************************************************************)
(* BIRD (external).                                                        *)
(***************************************************************************)

Replies == {<<"ok">>, <<"refused">>, <<"more", "ok">>, <<"async", "ok">>, <<"more", "refused">>}

\* It carries out the next command, and answers if the client is still there.
Executes ==
  /\ up
  /\ queue # <<>>
  /\ queue' = Tail(queue)
  /\ runs' = IF Head(queue).call = call THEN runs + 1 ELSE runs
  /\ \E lines \in Replies :
       pipe' = IF Head(queue).live
               THEN pipe \o [i \in DOMAIN lines |-> [call |-> Head(queue).call, kind |-> lines[i]]]
               ELSE pipe
  /\ UNCHANGED <<at, call, attempt, cur, sock, up, faulty, out>>

GoesDown ==
  /\ up
  /\ up' = FALSE
  /\ sock' = "closed"
  /\ queue' = <<>>
  /\ UNCHANGED <<at, call, attempt, cur, pipe, runs, faulty, out>>

ComesUp ==
  /\ ~up
  /\ up' = TRUE
  /\ UNCHANGED <<at, call, attempt, cur, sock, pipe, queue, runs, faulty, out>>

BirdClient == Begin \/ Held \/ Dialled \/ DialFails \/ Write \/ Read \/ ReadFails

BirdNext == BirdClient \/ Executes \/ GoesDown \/ ComesUp

BirdSpec == BirdInit /\ [][BirdNext]_birdVars

-----------------------------------------------------------------------------

\* Every answer returned is BIRD's answer to this command, whatever earlier commands
\* left unanswered: an acceptance taken from another command would make the applier
\* record a configuration that BIRD refused (Do, readReply, dropLocked).
AnswersItsOwn ==
  out.kind \in {"ok", "refused"} => out.of = call \/ at # "idle"

\* BIRD carries out a command once, unless a deadline passed or a connection was lost
\* in between, and never more than twice: a refusal is no reason to ask again ("never
\* redial"; call, isConnFault).
AskedOnce == runs <= 2 /\ (~faulty => runs <= 1)

\* A call that returns an answer was carried out by BIRD meanwhile, also where the
\* answer came to the retry: the appliers record, or roll back, on the strength of it
\* (call, Do).
Answered == at = "idle" /\ out.kind \in {"ok", "refused"}
CarriedOut == Answered => runs >= 1

\* Every call returns, however often BIRD is restarted or stays silent: the appliers
\* and the canary, which runs within a reconcile pass, wait for it (call, SetDeadline).
CallReturns == (at # "idle") ~> (at = "idle")

\* A call has one answer: its own, to a command that BIRD has carried out, and was
\* asked once unless the connection broke (readReply, Reconnecting.call).
OneAnswer == AnswersItsOwn /\ AskedOnce /\ CarriedOut
=============================================================================
