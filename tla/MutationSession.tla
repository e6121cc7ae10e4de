--------------------------- MODULE MutationSession ---------------------------
(***************************************************************************)
(* One session of the generated-app mutation client with its broker: the   *)
(* calls that the patches queue, the two pipes, the broker that reads and  *)
(* exchanges files, another program that writes the same files, and the    *)
(* ways a broker may fail.  A session ends with close().                   *)
(***************************************************************************)
EXTENDS Integers, Sequences, FiniteSets

CONSTANTS Callers,     \* asynchronous functions that share the client
          Files,       \* files of the generated app
          MaxCalls,    \* bound: calls of one session
          MaxWrites,   \* bound: writes of the other program
          MaxFaults    \* bound: crashes of the broker, changes of its executable,
                       \* and frames that it sends unasked

ASSUME SessionAssumption ==
    MaxCalls \in Nat /\ MaxWrites \in Nat /\ MaxFaults \in Nat

VARIABLES
    file, temp, clock,              \* the generated app
    binary, digest, ran,            \* the broker's executable
    broker, serving, tokens,        \* the broker
    exit, killed,                   \*   its exit code, whether it was signalled
    stdin, down, up,                \* the pipes
    queue, reading, frames, ended,  \* the client
    poison, closing, verdict,
    held, settled,                  \* the callers
    calls, writes, faults           \* counters

files  == <<file, temp, clock>>
exe    == <<binary, digest, ran>>
server == <<broker, serving, tokens, exit>>
pipes  == <<stdin, down, up>>
client == <<queue, reading, frames, ended>>
fate   == <<poison, closing, verdict, killed>>
users  == <<held, settled>>
vars   == <<files, exe, server, pipes, client, fate, users, calls, writes, faults>>

None == [none |-> TRUE]

\* What a call asks, and the frame that answers one.  A call keeps its number
\* only for the properties: the protocol has no request numbers.
Call(c, op, f, token, new) ==
    [id |-> calls, by |-> c, op |-> op, file |-> f, token |-> token, new |-> new]
Frame(to, op, ok, token) ==
    [to |-> to, op |-> op, ok |-> ok, token |-> token]

-----------------------------------------------------------------------------
Init ==
    /\ file = [f \in Files |-> [n |-> 0, base |-> 0]]
    /\ temp = None /\ clock = 0
    /\ binary = 0 /\ digest = -1 /\ ran = -1
    /\ broker = "none" /\ serving = None /\ tokens = {} /\ exit = "no"
    /\ killed = FALSE
    /\ stdin = "open" /\ down = <<>> /\ up = <<>>
    /\ queue = <<>> /\ reading = FALSE /\ frames = <<>> /\ ended = "no"
    /\ poison = FALSE /\ closing = "opening" /\ verdict = "none"
    /\ held = [c \in Callers |-> None] /\ settled = [c \in Callers |-> "idle"]
    /\ calls = 0 /\ writes = 0 /\ faults = 0

-----------------------------------------------------------------------------
(* Opening a session. *)

Digest ==
    /\ closing = "opening" /\ digest = -1
    /\ digest' = binary
    /\ UNCHANGED <<files, binary, ran, server, pipes, client, fate, users, calls, writes, faults>>

\* The process is started from the descriptor that was hashed.
Spawn ==
    /\ closing = "opening" /\ digest # -1 /\ ran = -1
    /\ ran' = binary /\ broker' = "ready"
    /\ UNCHANGED <<files, binary, digest, serving, tokens, exit, pipes, client, fate,
                   users, calls, writes, faults>>

\* The executable is hashed once more; a difference ends the session.
Opened ==
    /\ closing = "opening" /\ ran # -1
    /\ IF binary = digest
       THEN /\ closing' = "no" /\ UNCHANGED <<verdict, killed>>
       ELSE /\ closing' = "closed" /\ verdict' = "failed" /\ killed' = TRUE
    /\ UNCHANGED <<files, exe, server, pipes, client, poison, users, calls, writes, faults>>

ChangeBinary ==
    /\ faults < MaxFaults /\ closing # "closed"
    /\ faults' = faults + 1 /\ binary' = binary + 1
    /\ UNCHANGED <<files, digest, ran, server, pipes, client, fate, users, calls, writes>>

-----------------------------------------------------------------------------
(* The client. *)

\* poisonClient: the first error stays, nothing more is sent, the broker is
\* asked to end.
Poisoned == poison' = TRUE /\ stdin' = "closed" /\ killed' = TRUE

\* A caller asks for something.  A poisoned or closing session refuses.
Enqueue(c, call) ==
    /\ settled[c] = "idle" /\ closing # "opening" /\ calls < MaxCalls
    /\ calls' = calls + 1
    /\ IF poison \/ closing # "no"
       THEN settled' = [settled EXCEPT ![c] = "rejected"] /\ UNCHANGED queue
       ELSE settled' = [settled EXCEPT ![c] = "pending"] /\ queue' = Append(queue, call)
    /\ UNCHANGED <<files, exe, server, pipes, reading, frames, ended, fate, held, writes, faults>>

List(c) == Enqueue(c, Call(c, "list", None, -1, None))

Read(c, f) == Enqueue(c, Call(c, "read", f, -1, None))

\* The token of an earlier read, and a new content made from what was read.
Replace(c) ==
    /\ held[c] # None
    /\ Enqueue(c, Call(c, "replace", held[c].file, held[c].token,
                       [n |-> MaxWrites + calls + 1, base |-> held[c].version.n]))

\* A call that cannot be encoded poisons the session at once, whatever else
\* is queued or on its way.
Misuse(c) ==
    /\ settled[c] = "idle" /\ closing # "opening" /\ calls < MaxCalls
    /\ calls' = calls + 1
    /\ settled' = [settled EXCEPT ![c] = "rejected"]
    /\ Poisoned
    /\ UNCHANGED <<files, exe, server, down, up, client, closing, verdict, held, writes, faults>>


\* Mutant: a call that was queued before the error is still sent.
TurnMutant ==
    /\ queue # <<>> /\ ~reading
    /\ LET call == Head(queue) IN
       IF frames # <<>> \/ broker = "exited"
       THEN /\ queue' = Tail(queue)
            /\ settled' = [settled EXCEPT ![call.by] = "rejected"]
            /\ Poisoned
            /\ UNCHANGED <<reading, down>>
       ELSE /\ down' = Append(down, call)
            /\ reading' = TRUE
            /\ UNCHANGED <<queue, settled, poison, stdin, killed>>
    /\ UNCHANGED <<files, exe, server, up, frames, ended, closing, verdict, held, calls, writes, faults>>

\* The turn of the first call of the queue: refused when the session has been
\* poisoned meanwhile, an error when a frame nobody asked for is there, and an
\* error after it was sent when the stream of answers can be read no more.
Turn ==
    /\ queue # <<>> /\ ~reading
    /\ LET call == Head(queue)
           refused == poison \/ frames # <<>> \/ stdin = "closed" \/ broker = "exited"
       IN
       /\ down' = IF refused THEN down ELSE Append(down, call)
       /\ IF refused \/ ended # "no"
          THEN /\ queue' = Tail(queue)
               /\ settled' = [settled EXCEPT ![call.by] = "rejected"]
               /\ Poisoned
               /\ UNCHANGED reading
          ELSE /\ reading' = TRUE
               /\ UNCHANGED <<queue, settled, poison, stdin, killed>>
    /\ UNCHANGED <<files, exe, server, up, frames, ended, closing, verdict, held, calls, writes, faults>>

\* decodeResponse: the answer has to be of the kind asked for, and for a
\* replacement to carry its token.
Accepts(call, answer) ==
    /\ answer.ok
    /\ answer.op = call.op
    /\ call.op = "replace" => answer.token = call.token

\* What a read returned: the token, and with it the version.
Learned(call, answer) ==
    IF call.op # "read" THEN held[call.by]
    ELSE LET t == CHOOSE t \in tokens : t.id = answer.token
         IN [file |-> t.file, token |-> t.id, version |-> t.version]

\* A chunk with k frames arrives.  The first one answers the call that waits;
\* more than it asked for is an error, and so is an answer that is refused.
Receive(k) ==
    LET chunk == SubSeq(up, 1, k)
        call == Head(queue)
        answer == Head(chunk)
        taken == IF reading THEN Tail(chunk) ELSE chunk
    IN
    /\ k \in 1..Len(up) /\ ended = "no" /\ closing # "closed"
    /\ up' = SubSeq(up, k + 1, Len(up))
    /\ frames' = frames \o taken
    /\ reading' = FALSE
    /\ IF ~reading
       THEN UNCHANGED <<queue, settled, held, poison, stdin, killed>>
       ELSE /\ queue' = Tail(queue)
            /\ IF taken = <<>> /\ Accepts(call, answer)
               THEN /\ settled' = [settled EXCEPT ![call.by] =
                            IF answer.to = call.id THEN "idle" ELSE "mismatch"]
                    /\ held' = [held EXCEPT ![call.by] =
                            IF call.op = "replace" THEN None ELSE Learned(call, answer)]
                    /\ UNCHANGED <<poison, stdin, killed>>
               ELSE /\ settled' = [settled EXCEPT ![call.by] = "rejected"]
                    /\ Poisoned /\ UNCHANGED held
    /\ UNCHANGED <<files, exe, server, down, ended, closing, verdict, calls, writes, faults>>


\* Mutant: the waiter is not told that the stream has ended.
StreamEndsMutant(kind) ==
    /\ broker = "exited" /\ up = <<>> /\ ended = "no"
    /\ kind = "partial" => exit = "signal"
    /\ ended' = kind
    /\ UNCHANGED <<files, exe, server, down, up, frames, reading, queue, settled, poison,
                   stdin, killed, closing, verdict, held, calls, writes, faults>>

\* FrameReader.fail: nothing is read any more, and the call that waits fails.
Fail(kind) ==
    /\ ended' = kind /\ reading' = FALSE
    /\ IF reading
       THEN /\ queue' = Tail(queue)
            /\ settled' = [settled EXCEPT ![Head(queue).by] = "rejected"]
            /\ Poisoned
       ELSE UNCHANGED <<queue, settled, poison, stdin, killed>>
    /\ UNCHANGED <<files, exe, server, down, up, frames, closing, verdict, held, calls, writes>>

\* The stream of answers ends, perhaps within a frame.
StreamEnds(kind) ==
    /\ broker = "exited" /\ up = <<>> /\ ended = "no"
    /\ kind = "partial" => exit = "signal"
    /\ Fail(kind)
    /\ UNCHANGED faults

\* A broker that works sends a frame whose length is out of bounds.
Malformed ==
    /\ broker = "ready" /\ up = <<>> /\ ended = "no" /\ closing # "closed"
    /\ faults < MaxFaults
    /\ faults' = faults + 1
    /\ Fail("protocol")

\* close() waits for what is queued, and refuses what comes later.
Close ==
    /\ closing = "no"
    /\ closing' = "draining"
    /\ UNCHANGED <<files, exe, server, pipes, client, poison, verdict, killed, users,
                   calls, writes, faults>>

Drained ==
    /\ closing = "draining" /\ queue = <<>>
    /\ closing' = IF poison THEN "reaping" ELSE "ending"
    /\ stdin' = "closed"
    /\ UNCHANGED <<files, exe, server, down, up, client, poison, verdict, killed, users,
                   calls, writes, faults>>


\* Mutants: frames nobody asked for, or the exit code, are not looked at.
ReapedFramesMutant ==
    /\ closing \in {"ending", "reaping"} /\ ended # "no" /\ broker = "exited"
    /\ closing' = "closed"
    /\ verdict' = IF closing = "ending" /\ exit = "ok" /\ ended = "end" /\ binary = digest
                  THEN "clean" ELSE "failed"
    /\ UNCHANGED <<files, exe, server, pipes, client, poison, killed, users, calls, writes, faults>>
ReapedExitMutant ==
    /\ closing \in {"ending", "reaping"} /\ ended # "no" /\ broker = "exited"
    /\ closing' = "closed"
    /\ verdict' = IF closing = "ending" /\ frames = <<>> /\ ended = "end" /\ binary = digest
                  THEN "clean" ELSE "failed"
    /\ UNCHANGED <<files, exe, server, pipes, client, poison, killed, users, calls, writes, faults>>

\* The broker has ended: was everything in order to the end?
Reaped ==
    /\ closing \in {"ending", "reaping"} /\ ended # "no" /\ broker = "exited"
    /\ closing' = "closed"
    /\ verdict' = IF closing = "ending" /\ exit = "ok" /\ frames = <<>>
                     /\ ended = "end" /\ binary = digest
                  THEN "clean" ELSE "failed"
    /\ UNCHANGED <<files, exe, server, pipes, client, poison, killed, users, calls, writes, faults>>

\* The bound on waiting for the broker to end.
TimedOut ==
    /\ closing \in {"ending", "reaping"}
    /\ ended = "no" \/ broker # "exited"
    /\ closing' = "closed" /\ verdict' = "failed" /\ killed' = TRUE
    /\ UNCHANGED <<files, exe, server, pipes, client, poison, users, calls, writes, faults>>

-----------------------------------------------------------------------------
(* The broker. *)

Answer(ok, token) ==
    up' = Append(up, Frame(serving'.id, serving'.op, ok, token))

\* Every refusal is answered and ends the broker.
Refuse(r) ==
    /\ up' = Append(up, Frame(r.id, r.op, FALSE, -1))
    /\ broker' = "exited" /\ exit' = "error"

\* list and read are answered at once, or refused: the path, the file or the
\* root may not be what the broker accepts.  A replacement begins with the check
\* of its token against the file.  The token of a read is new: here the number of
\* the call, in the code a random number that no token has.
Serve ==
    /\ broker = "ready" /\ down # <<>>
    /\ down' = Tail(down)
    /\ serving' = Head(down)
    /\ LET r == Head(down) IN
       \/ /\ r.op \in {"list", "read"} /\ Refuse(r)
          /\ UNCHANGED tokens
       \/ /\ r.op = "list" /\ Answer(TRUE, -1)
          /\ UNCHANGED <<broker, exit, tokens>>
       \/ /\ r.op = "read" /\ Answer(TRUE, r.id)
          /\ tokens' = tokens \cup {[id |-> r.id, file |-> r.file, version |-> file[r.file],
                                     used |-> FALSE]}
          /\ UNCHANGED <<broker, exit>>
       \/ /\ r.op = "replace" /\ broker' = "checking"
          /\ UNCHANGED <<up, exit, tokens>>
    /\ UNCHANGED <<files, exe, stdin, client, fate, users, calls, writes, faults>>

Current(r) == \E t \in tokens :
    t.id = r.token /\ ~t.used /\ t.file = r.file /\ t.version = file[r.file]

\* The target is compared with the token, and the replacement is written
\* beside it under a name of its own; when that fails it is removed, if that
\* does not fail too.
Stage ==
    /\ broker = "checking"
    /\ \/ /\ Current(serving)
          /\ temp' = [file |-> serving.file, version |-> serving.new]
          /\ \/ broker' = "staged" /\ UNCHANGED <<up, exit>>
             \/ Refuse(serving)
       \/ Refuse(serving) /\ UNCHANGED temp
    /\ UNCHANGED <<file, clock, exe, serving, tokens, stdin, down, client, fate, users,
                   calls, writes, faults>>

\* Target and replacement change names in one step of the file system.
Exchange ==
    /\ broker = "staged"
    /\ broker' = "exchanged"
    /\ file' = [file EXCEPT ![serving.file] = temp.version]
    /\ temp' = [temp EXCEPT !.version = file[serving.file]]
    /\ UNCHANGED <<clock, exe, serving, tokens, exit, pipes, client, fate, users, calls, writes, faults>>

\* The exchange fails: the replacement is removed, if that does not fail too.
ExchangeFails ==
    /\ broker = "staged"
    /\ Refuse(serving)
    /\ temp' \in {temp, None}
    /\ UNCHANGED <<file, clock, exe, serving, tokens, stdin, down, client, fate, users,
                   calls, writes, faults>>

\* Mutant: what was displaced is not compared with what was read.
DisplacedMutant(t) == t.id = serving.token

\* What was displaced has to be what was read; otherwise it stays beside the
\* target, and the session ends.  It ends, too, when what was displaced cannot be
\* read or removed, or the directory not be synced.
Displaced(t) == t.id = serving.token /\ t.version = temp.version

Validate ==
    /\ broker = "exchanged"
    /\ \/ /\ \E t \in tokens : Displaced(t)
          /\ broker' = "ready" /\ temp' = None
          /\ tokens' = {[t EXCEPT !.used = @ \/ t.id = serving.token] : t \in tokens}
          /\ up' = Append(up, Frame(serving.id, "replace", TRUE, serving.token))
          /\ UNCHANGED exit
       \/ /\ Refuse(serving)
          /\ \/ temp' = temp
             \/ temp' = None /\ \E t \in tokens : Displaced(t)
          /\ UNCHANGED tokens
    /\ UNCHANGED <<file, clock, exe, serving, stdin, down, client, fate, users, calls, writes, faults>>

\* The end of its input ends the broker.
EndOfInput ==
    /\ broker = "ready" /\ down = <<>> /\ stdin = "closed"
    /\ broker' = "exited" /\ exit' = "ok"
    /\ UNCHANGED <<files, exe, serving, tokens, pipes, client, fate, users, calls, writes, faults>>

\* A signal ends it anywhere, and so may a crash.
Die ==
    /\ broker \notin {"none", "exited"}
    /\ killed \/ faults < MaxFaults
    /\ faults' = IF killed THEN faults ELSE faults + 1
    /\ broker' = "exited" /\ exit' = "signal"
    /\ UNCHANGED <<files, exe, serving, tokens, pipes, client, fate, users, calls, writes>>

\* A broker that falls silent: it answers no request that is sent, and ignores
\* the end of its input.
Hang ==
    /\ broker = "ready" /\ ~killed /\ faults < MaxFaults
    /\ faults' = faults + 1 /\ broker' = "hung"
    /\ UNCHANGED <<files, exe, serving, tokens, exit, pipes, client, fate, users, calls, writes>>

\* A broker that sends what nobody asked for.
Stray(op) ==
    /\ broker = "ready" /\ faults < MaxFaults
    /\ faults' = faults + 1
    /\ \E token \in {-1} \cup {t.id : t \in tokens} :
          /\ op = "read" => token # -1
          /\ up' = Append(up, Frame(-1, op, TRUE, token))
    /\ UNCHANGED <<files, exe, server, stdin, down, client, fate, users, calls, writes>>

\* The other program writes a file.
Write(f) ==
    /\ writes < MaxWrites
    /\ writes' = writes + 1 /\ clock' = clock + 1
    /\ file' = [file EXCEPT ![f] = [n |-> clock', base |-> clock']]
    /\ UNCHANGED <<temp, exe, server, pipes, client, fate, users, calls, faults>>

-----------------------------------------------------------------------------
BrokerStep == Serve \/ Stage \/ Exchange \/ ExchangeFails \/ Validate \/ EndOfInput
ClientStep ==
    \/ Digest \/ Spawn \/ Opened
    \/ Turn \/ Drained \/ Reaped \/ TimedOut
    \/ \E k \in 1..Len(up) : Receive(k)
    \/ \E kind \in {"end", "partial"} : StreamEnds(kind)
CallerStep == \E c \in Callers :
    List(c) \/ Replace(c) \/ Misuse(c) \/ \E f \in Files : Read(c, f)
Environment ==
    \/ ChangeBinary \/ Die \/ Hang \/ Malformed
    \/ \E op \in {"list", "read", "replace"} : Stray(op)
    \/ \E f \in Files : Write(f)

\* A request is waited for without a bound.
Unanswered == reading /\ broker = "hung"

Stopped ==
    /\ Unanswered \/ (closing = "closed" /\ broker = "exited")
    /\ UNCHANGED vars

Next == BrokerStep \/ ClientStep \/ CallerStep \/ Close \/ Environment \/ Stopped

\* The two event loops run; a signalled process dies.
Fairness == WF_vars(BrokerStep) /\ WF_vars(ClientStep) /\ WF_vars(killed /\ Die)

Spec == Init /\ [][Next]_vars /\ Fairness

-----------------------------------------------------------------------------
Closing == {"opening", "no", "draining", "ending", "reaping", "closed"}

TypeOK ==
    /\ file \in [Files -> [n: Nat, base: Nat]] /\ clock \in 0..MaxWrites
    /\ binary \in 0..MaxFaults /\ digest \in -1..MaxFaults /\ ran \in -1..MaxFaults
    /\ broker \in {"none", "ready", "checking", "staged", "exchanged", "hung", "exited"}
    /\ exit \in {"no", "ok", "error", "signal"} /\ stdin \in {"open", "closed"}
    /\ ended \in {"no", "end", "partial", "protocol"} /\ closing \in Closing
    /\ verdict \in {"none", "clean", "failed"}
    /\ settled \in [Callers -> {"idle", "pending", "rejected", "mismatch"}]
    /\ \A v \in {poison, killed, reading} : v \in BOOLEAN
    /\ Len(queue) <= Cardinality(Callers)

\* The session implements the exchange of files it is built for.
Kept == IF temp # None /\ broker \in {"exchanged", "exited"}
           /\ temp.version # serving.new /\ temp.version.n # serving.new.base
        THEN {temp.version} ELSE {}

Exchanged == INSTANCE FileExchange WITH kept <- Kept,
                 Numbers <- 0..(MaxWrites + MaxCalls)

\* A replacement only ever takes the place of the version it was made from;
\* if another program wrote in between, that version is kept and nothing is
\* replaced any more.  (lib.rs, replace)
KeepsVersions == Exchanged!Spec

\* A session that was closed without an error gave every call its own answer,
\* though answers carry no number and a broker may send frames unasked.
AnswersMatch ==
    verdict = "clean" => \A c \in Callers : settled[c] # "mismatch"

\* ... applied every replacement it reported, left nothing beside a target,
\* and ran the executable whose digest it reports.
CleanIsWhole ==
    verdict = "clean" =>
        /\ temp = None /\ queue = <<>> /\ down = <<>>
        /\ exit = "ok" /\ ran = digest

\* What a session sends after its first error: nothing.  In particular no
\* queued replacement of another caller is begun by the client.
SilentAfterError ==
    [][poison => Len(down') <= Len(down)]_vars

\* close() comes to an end, however the broker fails: a stream that ends or breaks
\* settles the call that waits, and waiting for the broker is bounded.  The one
\* exception: it waits for the calls before it, and a call that is never answered
\* keeps it waiting for as long as nothing else poisons the session.
CloseEnds ==
    closing = "draining" ~> (closing = "closed" \/ []Unanswered)
=============================================================================
