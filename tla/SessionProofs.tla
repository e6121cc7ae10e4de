----------------------------- MODULE SessionProofs -----------------------------
(***************************************************************************)
(* Proofs about MutationSession, for every number of callers, files, calls,*)
(* writes of another program and faults: the session implements the        *)
(* exchange of files (FileExchange), and one that closed without an error  *)
(* gave every call its own answer and did everything it reported.          *)
(***************************************************************************)
EXTENDS MutationSession, SequenceTheorems, TLAPS

Num == 0..(MaxWrites + MaxCalls)
Version == [n : Num, base : Num]
CallType ==
    [id : Nat, by : Callers, op : {"list"}, file : {None}, token : Int, new : {None}] \cup
    [id : Nat, by : Callers, op : {"read"}, file : Files, token : Int, new : {None}] \cup
    [id : Nat, by : Callers, op : {"replace"}, file : Files, token : Int, new : Version]
Op == {"list", "read", "replace"}
FrameType == [to : Int, op : Op, ok : BOOLEAN, token : Int]
TokenType == [id : Nat, file : Files, version : Version, used : BOOLEAN]
Besides == [file : Files, version : Version]
Known == [file : Files, token : Int, version : Version]
Fates == {"idle", "pending", "rejected", "mismatch"}
Replacing == {"checking", "staged", "exchanged"}  \* states of the broker

Elems(s) == {s[i] : i \in 1..Len(s)}
Rising(s) == \A i, j \in 1..Len(s) : i < j => s[i].id < s[j].id

TypedFiles ==
    /\ file \in [Files -> Version] /\ temp \in Besides \cup {None}
    /\ clock = writes /\ writes \in 0..MaxWrites
TypedPipes ==
    /\ down \in Seq(CallType) /\ up \in Seq(FrameType)
    /\ tokens \in SUBSET TokenType
TypedClient ==
    /\ queue \in Seq(CallType) /\ reading \in BOOLEAN /\ frames \in Seq(FrameType)
    /\ held \in [Callers -> Known \cup {None}] /\ settled \in [Callers -> Fates]
    /\ calls \in 0..MaxCalls
Typed == TypedFiles /\ TypedPipes /\ TypedClient

\* The executable that runs is not older than the one that was hashed.
ExeOK ==
    /\ binary \in Nat /\ digest \in Int /\ ran \in Int
    /\ digest <= binary
    /\ ran # -1 => digest # -1 /\ digest <= ran /\ ran <= binary
    /\ ran = -1 => broker = "none" /\ closing = "opening"

\* What the broker has beside a target, and what it has left when it ended well.
BrokerOK ==
    /\ broker \in Replacing => serving \in CallType /\ serving.op = "replace"
    /\ broker \notin {"staged", "exchanged", "exited"} => temp = None
    /\ broker = "staged" => temp = [file |-> serving.file, version |-> serving.new]
    /\ broker = "exchanged" => temp \in Besides
    /\ exit # "no" => broker = "exited"
    /\ exit = "ok" => temp = None /\ down = <<>> /\ stdin = "closed"

\* The ends of the stream, of a wait and of the session.
EndsOK ==
    /\ ended \in {"end", "partial"} => broker = "exited" /\ up = <<>>
    /\ ended # "no" => ~reading
    /\ reading => queue # <<>> /\ frames = <<>>
    /\ closing = "ending" => queue = <<>>
    /\ verdict = "clean" =>
         /\ closing = "closed" /\ exit = "ok" /\ queue = <<>> /\ frames = <<>>
         /\ ended = "end" /\ ran = digest

\* Calls are served in the order in which they were made: what has a token
\* was served before what is in the pipe, and that was sent before what waits.
Waiting == IF reading THEN Tail(queue) ELSE queue
OrderOK ==
    /\ Rising(queue) /\ Rising(down)
    /\ \A r \in Elems(queue) \cup Elems(down) \cup tokens : r.id < calls
    /\ \A r \in Elems(Waiting) : \A x \in Elems(down) \cup tokens : x.id < r.id
    /\ \A r \in Elems(down) : \A t \in tokens : t.id < r.id

\* A replacement bears the token of the version that it was made from.
Made(r) == r.op = "replace" =>
    \E t \in tokens : t.id = r.token /\ t.version.n = r.new.base
LinksOK ==
    /\ \A t, u \in tokens : t.id = u.id => t.version = u.version
    /\ \A r \in Elems(queue) \cup Elems(down) : Made(r)
    /\ broker \in Replacing => Made(serving)
    /\ \A c \in Callers : held[c] # None =>
         \E t \in tokens : t.id = held[c].token /\ t.version = held[c].version
    /\ \A a \in Elems(up) : a.ok /\ a.op = "read" => \E t \in tokens : t.id = a.token

\* How many answers there are, or will be, above those that are waited for.
Busy == IF broker \in Replacing THEN 1 ELSE 0
Awaited == IF reading THEN 1 ELSE 0
Balance == Len(down) + Busy + Len(up) + Len(frames) - Awaited

\* When there is none too many, the one under way is the one that is waited for.
Aligned == reading =>
    /\ \A r \in Elems(down) : r.id = Head(queue).id
    /\ broker \in Replacing => serving.id = Head(queue).id
    /\ \A a \in Elems(up) : a.to = Head(queue).id
Mismatch == \E c \in Callers : settled[c] = "mismatch"
BalanceOK == exit \notin {"error", "signal"} =>
    /\ Balance >= 0
    /\ Balance = 0 => Aligned /\ ~Mismatch

IInv == Typed /\ ExeOK /\ BrokerOK /\ EndsOK /\ OrderOK /\ LinksOK /\ BalanceOK

-----------------------------------------------------------------------------
(* Sequences. *)

\* The elements of a sequence.
LEMMA ElemsType == ASSUME NEW S, NEW s \in Seq(S) PROVE Elems(s) \subseteq S
BY LenProperties DEF Elems

\* A sequence that is not empty.
LEMMA TailFacts ==
  ASSUME NEW S, NEW s \in Seq(S), s # <<>>
  PROVE  /\ Head(s) \in S /\ Tail(s) \in Seq(S) /\ Head(s) = s[1]
         /\ Len(s) \in Nat \ {0} /\ Len(Tail(s)) = Len(s) - 1
         /\ Elems(s) = {Head(s)} \cup Elems(Tail(s))
<1>1. /\ Head(s) \in S /\ Tail(s) \in Seq(S) /\ Head(s) = s[1]
      /\ Len(s) \in Nat \ {0} /\ Len(Tail(s)) = Len(s) - 1
      /\ \A i \in 1..Len(Tail(s)) : Tail(s)[i] = s[i + 1]
  BY HeadTailProperties, EmptySeq
<1>2. ASSUME NEW x \in Elems(s) PROVE x = Head(s) \/ x \in Elems(Tail(s))
  <2>1. PICK i \in 1..Len(s) : x = s[i]
    BY DEF Elems
  <2>2. CASE i = 1
    BY <1>1, <2>1, <2>2
  <2>3. CASE i # 1
    <3>1. i - 1 \in 1..Len(Tail(s)) /\ Tail(s)[i - 1] = s[i]
      BY <1>1, <2>3
    <3> QED BY <2>1, <3>1 DEF Elems
  <2> QED BY <2>2, <2>3
<1>3. Head(s) \in Elems(s)
  BY <1>1 DEF Elems
<1>4. ASSUME NEW x \in Elems(Tail(s)) PROVE x \in Elems(s)
  <2>1. PICK i \in 1..Len(Tail(s)) : x = Tail(s)[i]
    BY DEF Elems
  <2>2. i + 1 \in 1..Len(s) /\ x = s[i + 1]
    BY <1>1, <2>1
  <2> QED BY <2>2 DEF Elems
<1> QED BY <1>1, <1>2, <1>3, <1>4

\* What comes after the first is greater, and rises too.
LEMMA RisingTail ==
  ASSUME NEW S, NEW s \in Seq(S), s # <<>>, Rising(s)
  PROVE  Rising(Tail(s)) /\ \A x \in Elems(Tail(s)) : Head(s).id < x.id
<1>1. /\ Head(s) = s[1] /\ Len(s) \in Nat \ {0} /\ Len(Tail(s)) = Len(s) - 1
      /\ \A i \in 1..Len(Tail(s)) : Tail(s)[i] = s[i + 1]
  BY HeadTailProperties, EmptySeq
<1>2. Rising(Tail(s))
  BY <1>1 DEF Rising
<1>3. \A x \in Elems(Tail(s)) : Head(s).id < x.id
  BY <1>1 DEF Rising, Elems
<1> QED BY <1>2, <1>3

\* A sequence with one more at its end.
LEMMA AppendFacts ==
  ASSUME NEW S, NEW s \in Seq(S), NEW x \in S
  PROVE  /\ Append(s, x) \in Seq(S) /\ Append(s, x) # <<>>
         /\ Len(s) \in Nat /\ Len(Append(s, x)) = Len(s) + 1
         /\ Elems(Append(s, x)) = Elems(s) \cup {x}
         /\ s # <<>> => Head(Append(s, x)) = Head(s)
         /\ s = <<>> => Head(Append(s, x)) = x /\ Tail(Append(s, x)) = <<>>
<1>1. /\ Append(s, x) \in Seq(S) /\ Append(s, x) # <<>>
      /\ Len(s) \in Nat /\ Len(Append(s, x)) = Len(s) + 1
      /\ \A i \in 1..Len(s) : Append(s, x)[i] = s[i]
      /\ Append(s, x)[Len(s) + 1] = x
  BY AppendProperties
<1>2. Elems(Append(s, x)) = Elems(s) \cup {x}
  BY <1>1 DEF Elems
<1>3. s # <<>> => Head(Append(s, x)) = Head(s)
  BY <1>1, HeadTailProperties, EmptySeq
<1>4. s = <<>> => Head(Append(s, x)) = x /\ Tail(Append(s, x)) = <<>>
  <2>1. SUFFICES ASSUME s = <<>> PROVE Head(Append(s, x)) = x /\ Tail(Append(s, x)) = <<>>
    OBVIOUS
  <2>2. Len(Append(s, x)) = 1
    BY <1>1, <2>1
  <2>3. Head(Append(s, x)) = x
    BY <1>1, <2>1, <2>2, HeadTailProperties
  <2>4. Tail(Append(s, x)) \in Seq(S) /\ Len(Tail(Append(s, x))) = 0
    BY <1>1, <2>2, HeadTailProperties
  <2> QED BY <2>3, <2>4, EmptySeq
<1> QED BY <1>1, <1>2, <1>3, <1>4

\* It rises when the one is greater than the others.
LEMMA RisingAppend ==
  ASSUME NEW S, NEW s \in Seq(S), NEW x \in S, Rising(s),
         \A r \in Elems(s) : r.id < x.id
  PROVE  Rising(Append(s, x))
<1>1. /\ Len(s) \in Nat /\ Len(Append(s, x)) = Len(s) + 1
      /\ \A i \in 1..Len(s) : Append(s, x)[i] = s[i]
      /\ Append(s, x)[Len(s) + 1] = x
  BY AppendProperties
<1> QED BY <1>1 DEF Rising, Elems

\* The tail of a sequence with one more.
LEMMA TailAppend ==
  ASSUME NEW S, NEW s \in Seq(S), NEW x \in S, s # <<>>
  PROVE  Elems(Tail(Append(s, x))) = Elems(Tail(s)) \cup {x}
<1> DEFINE a == Append(s, x)
           t == Tail(s)
           u == Tail(a)
<1>1. /\ Len(s) \in Nat \ {0} /\ Len(t) = Len(s) - 1
      /\ \A i \in 1..Len(t) : t[i] = s[i + 1]
  BY HeadTailProperties, EmptySeq
<1>2. /\ a \in Seq(S) /\ a # <<>> /\ Len(a) = Len(s) + 1
      /\ \A i \in 1..Len(s) : a[i] = s[i]
      /\ a[Len(s) + 1] = x
  BY AppendProperties
<1>3. Len(u) = Len(s) /\ \A i \in 1..Len(u) : u[i] = a[i + 1]
  <2> HIDE DEF a
  <2> QED BY <1>1, <1>2, HeadTailProperties
<1> HIDE DEF a, t, u
<1>4. Len(u) = Len(t) + 1 /\ u[Len(t) + 1] = x
  BY <1>1, <1>2, <1>3
<1>5. \A i \in 1..Len(t) : u[i] = t[i]
  BY <1>1, <1>2, <1>3
<1>6. Elems(u) = Elems(t) \cup {x}
  BY <1>1, <1>4, <1>5 DEF Elems
<1> QED BY <1>6 DEF a, t, u

\* The empty sequence.
LEMMA EmptyFacts ==
  /\ Elems(<<>>) = {} /\ Len(<<>>) = 0 /\ Rising(<<>>)
  /\ \A S : \A s \in Seq(S) : Len(s) \in Nat /\ (Len(s) = 0 <=> s = <<>>)
BY EmptySeq DEF Elems, Rising

\* The first part of a sequence and the rest.
LEMMA ChunkFacts ==
  ASSUME NEW S, NEW s \in Seq(S), NEW k \in 1..Len(s)
  PROVE  /\ SubSeq(s, 1, k) \in Seq(S) /\ SubSeq(s, 1, k) # <<>>
         /\ Len(SubSeq(s, 1, k)) = k /\ Head(SubSeq(s, 1, k)) \in Elems(s)
         /\ SubSeq(s, k + 1, Len(s)) \in Seq(S)
         /\ Len(SubSeq(s, k + 1, Len(s))) = Len(s) - k
         /\ Elems(SubSeq(s, k + 1, Len(s))) \subseteq Elems(s)
<1>0. Len(s) \in Nat /\ k \in Int
  BY EmptyFacts
<1> DEFINE a == SubSeq(s, 1, k)
           b == SubSeq(s, k + 1, Len(s))
<1>1. a \in Seq(S) /\ Len(a) = k /\ \A i \in 1..k : a[i] = s[i]
  BY <1>0, SubSeqProperties
<1>2. b \in Seq(S) /\ Len(b) = Len(s) - k /\ \A i \in 1..(Len(s) - k) : b[i] = s[k + i]
  BY <1>0, SubSeqProperties
<1> HIDE DEF a, b
<1>3. a # <<>>
  BY <1>0, <1>1, EmptyFacts
<1>4. Head(a) \in Elems(s)
  BY <1>0, <1>1, <1>3, HeadTailProperties DEF Elems
<1>5. Elems(b) \subseteq Elems(s)
  BY <1>0, <1>2 DEF Elems
<1> QED BY <1>1, <1>2, <1>3, <1>4, <1>5 DEF a, b

\* Two sequences, one after the other.
LEMMA ConcatFacts ==
  ASSUME NEW S, NEW s \in Seq(S), NEW t \in Seq(S)
  PROVE  s \o t \in Seq(S) /\ Len(s \o t) = Len(s) + Len(t)
BY ConcatProperties

-----------------------------------------------------------------------------
(* Steps that touch neither a call nor an answer. *)

\* What is absent is none of the records.
LEMMA NotNone ==
  /\ None \notin Version /\ None \notin Besides /\ None \notin CallType
  /\ None \notin Known
BY DEF None, Version, Besides, CallType, Known

\* The queue, the pipe to the broker and the tokens are as before.
LEMMA SameOrder ==
  ASSUME OrderOK, UNCHANGED <<queue, reading, down, tokens, calls>>
  PROVE  OrderOK'
BY DEF OrderOK, Waiting

\* And the answers and what the callers hold.
LEMMA SameLinks ==
  ASSUME LinksOK, UNCHANGED <<queue, down, tokens, held, up>>,
         broker' \in Replacing => broker \in Replacing /\ serving' = serving
  PROVE  LinksOK'
BY DEF LinksOK, Made

\* And the broker replaces what it replaced before.
LEMMA SameBalance ==
  ASSUME BalanceOK, UNCHANGED <<down, up, frames, reading, queue, settled>>,
         broker' \in Replacing <=> broker \in Replacing,
         broker \in Replacing => serving' = serving,
         exit \in {"error", "signal"} => exit' = exit
  PROVE  BalanceOK'
<1>1. Balance' = Balance /\ (Aligned => Aligned') /\ (Mismatch' => Mismatch)
  BY DEF Balance, Busy, Awaited, Aligned, Mismatch
<1> QED BY <1>1 DEF BalanceOK

\* At the start.
LEMMA InitInv == ASSUME Init PROVE IInv
<1>1. TypedFiles
  <2>1. file \in [Files -> Version]
    BY SessionAssumption DEF Init, Version, Num
  <2> QED BY <2>1, SessionAssumption DEF Init, TypedFiles
<1>2. TypedPipes
  BY DEF Init, TypedPipes
<1>3. TypedClient
  <2>1. queue \in Seq(CallType) /\ frames \in Seq(FrameType)
    BY EmptySeq DEF Init
  <2>2. held \in [Callers -> Known \cup {None}] /\ settled \in [Callers -> Fates]
    BY DEF Init, Fates
  <2>3. calls \in 0..MaxCalls
    BY SessionAssumption DEF Init
  <2>4. reading \in BOOLEAN
    BY DEF Init
  <2> QED BY <2>1, <2>2, <2>3, <2>4 DEF TypedClient
<1>4. ExeOK /\ BrokerOK /\ EndsOK
  BY DEF Init, ExeOK, BrokerOK, EndsOK, Replacing
<1>5. queue = <<>> /\ down = <<>> /\ up = <<>> /\ tokens = {} /\ ~reading
  BY DEF Init
<1>6. OrderOK
  BY <1>5, EmptyFacts DEF OrderOK, Waiting
<1>7. LinksOK
  BY <1>5, EmptyFacts DEF Init, LinksOK, Replacing
<1>8. Balance = 0
  BY EmptyFacts DEF Init, Balance, Busy, Awaited, Replacing
<1>9. ~Mismatch /\ Aligned
  BY DEF Init, Mismatch, Aligned
<1> QED BY <1>1, <1>2, <1>3, <1>4, <1>6, <1>7, <1>8, <1>9 DEF IInv, Typed, BalanceOK

\* Nothing.
LEMMA StutterKeeps == ASSUME IInv, UNCHANGED vars PROVE IInv'
<1> USE DEF vars, files, exe, server, pipes, client, fate, users
<1>1. Typed'
  BY DEF IInv, Typed, TypedFiles, TypedPipes, TypedClient
<1>2. ExeOK' /\ BrokerOK' /\ EndsOK'
  BY DEF IInv, ExeOK, BrokerOK, EndsOK
<1>3. OrderOK' /\ LinksOK' /\ BalanceOK'
  BY SameOrder, SameLinks, SameBalance DEF IInv
<1> QED BY <1>1, <1>2, <1>3 DEF IInv

\* Opening and closing a session, and the executable.
LEMMA EdgesKeep ==
  ASSUME IInv,
         \/ Digest \/ Spawn \/ Opened \/ ChangeBinary
         \/ Close \/ Drained \/ Reaped \/ TimedOut
  PROVE  IInv'
<1> USE DEF files, exe, server, pipes, client, fate, users
<1>1. /\ UNCHANGED <<file, temp, clock, writes, serving, tokens, exit, down, up>>
      /\ UNCHANGED <<queue, reading, frames, ended, held, settled, calls>>
  BY DEF Digest, Spawn, Opened, ChangeBinary, Close, Drained, Reaped, TimedOut
<1>2. Typed'
  BY <1>1 DEF IInv, Typed, TypedFiles, TypedPipes, TypedClient
<1>3. broker' = broker \/ (broker = "none" /\ broker' = "ready")
  BY DEF IInv, ExeOK, Digest, Spawn, Opened, ChangeBinary, Close, Drained, Reaped, TimedOut
<1>4. ExeOK'
  <2>1. CASE Digest
    BY <2>1 DEF IInv, ExeOK, Digest
  <2>2. CASE Spawn
    BY <2>2 DEF IInv, ExeOK, Spawn
  <2>3. CASE Opened
    BY <2>3 DEF IInv, ExeOK, Opened
  <2>4. CASE ChangeBinary
    BY <2>4 DEF IInv, ExeOK, ChangeBinary
  <2>5. CASE Close \/ Drained \/ Reaped \/ TimedOut
    BY <2>5 DEF IInv, ExeOK, Close, Drained, Reaped, TimedOut
  <2> QED BY <2>1, <2>2, <2>3, <2>4, <2>5
<1>5. exit = "ok" => stdin' = stdin \/ stdin' = "closed"
  BY DEF Digest, Spawn, Opened, ChangeBinary, Close, Drained, Reaped, TimedOut
<1>6. BrokerOK'
  BY <1>1, <1>3, <1>5 DEF IInv, BrokerOK, Replacing
<1>7. EndsOK'
  <2>1. CASE Digest \/ Spawn
    BY <2>1, <1>1, <1>3 DEF IInv, EndsOK, Digest, Spawn
  <2>2. CASE Opened \/ ChangeBinary \/ Close \/ TimedOut
    BY <2>2, <1>1, <1>3 DEF IInv, EndsOK, Opened, ChangeBinary, Close, TimedOut
  <2>3. CASE Drained
    BY <2>3, <1>1 DEF IInv, EndsOK, Drained
  <2>4. CASE Reaped
    BY <2>4, <1>1, <1>3 DEF IInv, EndsOK, ExeOK, Reaped
  <2> QED BY <2>1, <2>2, <2>3, <2>4
<1>8. OrderOK' /\ LinksOK' /\ BalanceOK'
  BY <1>1, <1>3, SameOrder, SameLinks, SameBalance DEF IInv, Replacing
<1> QED BY <1>2, <1>4, <1>6, <1>7, <1>8 DEF IInv

\* The end of the broker, and another program.
LEMMA EnvironmentKeeps ==
  ASSUME IInv, EndOfInput \/ Die \/ Hang \/ \E f \in Files : Write(f)
  PROVE  IInv'
<1> USE DEF files, exe, server, pipes, client, fate, users
<1>1. /\ UNCHANGED <<temp, serving, tokens, stdin, down, up, binary, digest, ran>>
      /\ UNCHANGED <<queue, reading, frames, ended, held, settled, calls, closing, verdict>>
  BY DEF EndOfInput, Die, Hang, Write
<1>2. TypedFiles'
  <2>1. CASE EndOfInput \/ Die \/ Hang
    BY <2>1 DEF IInv, Typed, TypedFiles, EndOfInput, Die, Hang
  <2>2. CASE \E f \in Files : Write(f)
    <3>1. PICK f \in Files : Write(f)
      BY <2>2
    <3>2. clock' = writes' /\ writes' \in 0..MaxWrites /\ temp' = temp
      BY <3>1, SessionAssumption DEF IInv, Typed, TypedFiles, Write
    <3>3. [n |-> clock', base |-> clock'] \in Version
      BY <3>2, SessionAssumption DEF IInv, Typed, TypedFiles, Version, Num
    <3>4. file' \in [Files -> Version]
      BY <3>1, <3>3 DEF IInv, Typed, TypedFiles, Write
    <3> QED BY <3>2, <3>4 DEF IInv, Typed, TypedFiles
  <2> QED BY <2>1, <2>2
<1>3. Typed'
  BY <1>1, <1>2 DEF IInv, Typed, TypedPipes, TypedClient
<1>4. \/ broker' = broker /\ exit' = exit
      \/ broker \notin {"none", "exited"} /\ broker' = "exited"
      \/ broker = "ready" /\ broker' = "hung" /\ exit' = exit
  <2>1. CASE EndOfInput
    BY <2>1 DEF EndOfInput
  <2>2. CASE Die
    BY <2>2 DEF Die
  <2>3. CASE Hang
    BY <2>3 DEF Hang
  <2>4. CASE \E f \in Files : Write(f)
    BY <2>4 DEF Write
  <2> QED BY <2>1, <2>2, <2>3, <2>4
<1>5. ExeOK'
  BY <1>1, <1>4 DEF IInv, ExeOK
<1>6. exit' = "ok" => exit = "ok" \/ EndOfInput
  BY DEF EndOfInput, Die, Hang, Write
<1>7. BrokerOK'
  BY <1>1, <1>4, <1>6 DEF IInv, BrokerOK, Replacing, EndOfInput
<1>8. EndsOK'
  BY <1>1, <1>4, <1>6 DEF IInv, EndsOK, BrokerOK
<1>9. OrderOK' /\ LinksOK'
  BY <1>1, <1>4, SameOrder, SameLinks DEF IInv, Replacing
<1>10. BalanceOK'
  <2>1. CASE Die
    BY <2>1 DEF BalanceOK, Die
  <2>2. CASE EndOfInput \/ Hang \/ \E f \in Files : Write(f)
    <3>1. broker' \in Replacing <=> broker \in Replacing
      BY <2>2 DEF Replacing, EndOfInput, Hang, Write
    <3>2. exit' = exit \/ broker = "ready"
      BY <2>2 DEF EndOfInput, Hang, Write
    <3>3. exit \in {"error", "signal"} => exit' = exit
      BY <3>2 DEF IInv, BrokerOK
    <3> QED BY <1>1, <3>1, <3>3, SameBalance DEF IInv
  <2> QED BY <2>1, <2>2
<1> QED BY <1>3, <1>5, <1>7, <1>8, <1>9, <1>10 DEF IInv

-----------------------------------------------------------------------------
(* The callers. *)

\* Calls and tokens have numbers.
LEMMA IdsAreNumbers ==
  ASSUME Typed
  PROVE  \A r \in Elems(queue) \cup Elems(down) \cup tokens : r.id \in Nat
<1>1. \A r \in CallType : r.id \in Nat
  BY DEF CallType
<1>2. Elems(queue) \subseteq CallType /\ Elems(down) \subseteq CallType
  BY ElemsType DEF Typed, TypedClient, TypedPipes
<1>3. \A t \in tokens : t.id \in Nat
  BY DEF Typed, TypedPipes, TokenType
<1> QED BY <1>1, <1>2, <1>3

\* A call that is queued, or refused.
LEMMA EnqueueKeeps ==
  ASSUME IInv, NEW c \in Callers, NEW call \in CallType, Enqueue(c, call),
         call.id = calls, Made(call)
  PROVE  IInv'
<1> USE DEF files, exe, server, pipes, fate
<1>1. /\ UNCHANGED <<file, temp, clock, writes, binary, digest, ran, broker, serving>>
      /\ UNCHANGED <<tokens, exit, stdin, down, up, reading, frames, ended, closing>>
      /\ UNCHANGED <<verdict, held>> /\ calls' = calls + 1
      /\ settled[c] = "idle"
  BY DEF Enqueue
<1>2. queue \in Seq(CallType) /\ calls \in Nat
  BY DEF IInv, Typed, TypedClient
<1>3. \/ queue' = queue
      \/ closing = "no" /\ queue' = Append(queue, call)
  BY DEF Enqueue
<1>4. Typed'
  <2>1. queue' \in Seq(CallType)
    BY <1>2, <1>3
  <2>2. calls' \in 0..MaxCalls
    BY SessionAssumption DEF Enqueue, IInv, Typed, TypedClient
  <2>3. settled' \in [Callers -> Fates]
    BY DEF Enqueue, IInv, Typed, TypedClient, Fates
  <2> QED BY <1>1, <2>1, <2>2, <2>3 DEF IInv, Typed, TypedFiles, TypedPipes, TypedClient
<1>5. ExeOK' /\ BrokerOK'
  BY <1>1 DEF IInv, ExeOK, BrokerOK
<1>6. queue # <<>> => queue' # <<>> /\ Head(queue') = Head(queue)
  BY <1>2, <1>3, AppendFacts
<1>7. EndsOK'
  BY <1>1, <1>3, <1>6 DEF IInv, EndsOK
<1>8. OrderOK'
  <2>1. CASE queue' = queue
    BY <1>1, <1>2, <2>1, IdsAreNumbers DEF IInv, OrderOK, Waiting
  <2>2. CASE queue' = Append(queue, call)
    <3>1. Rising(queue')
      BY <1>2, <2>2, RisingAppend DEF IInv, OrderOK
    <3>2. Elems(queue') = Elems(queue) \cup {call}
      BY <1>2, <2>2, AppendFacts
    <3>3. Elems(Waiting') = Elems(Waiting) \cup {call}
      BY <1>1, <1>2, <2>2, <3>2, TailAppend DEF Waiting, IInv, EndsOK
    <3>4. \A r \in Elems(queue') \cup Elems(down') \cup tokens' : r.id < calls'
      BY <1>1, <1>2, <3>2, IdsAreNumbers DEF IInv, OrderOK
    <3>5. \A r \in Elems(Waiting') : \A x \in Elems(down') \cup tokens' : x.id < r.id
      BY <1>1, <3>3 DEF IInv, OrderOK
    <3> QED BY <1>1, <3>1, <3>4, <3>5 DEF IInv, OrderOK
  <2> QED BY <1>3, <2>1, <2>2
<1>9. LinksOK'
  <2>1. Elems(queue') \subseteq Elems(queue) \cup {call}
    <3>1. Elems(Append(queue, call)) = Elems(queue) \cup {call}
      BY <1>2, AppendFacts
    <3> QED BY <1>3, <3>1
  <2> QED BY <1>1, <2>1 DEF IInv, LinksOK, Made
<1>10. BalanceOK'
  <2>1. Mismatch' => Mismatch
    BY <1>1 DEF Enqueue, Mismatch, IInv, Typed, TypedClient
  <2>2. Balance' = Balance /\ (Aligned => Aligned')
    BY <1>1, <1>6 DEF Balance, Busy, Awaited, Aligned, IInv, EndsOK
  <2> QED BY <1>1, <2>1, <2>2 DEF IInv, BalanceOK
<1> QED BY <1>4, <1>5, <1>7, <1>8, <1>9, <1>10 DEF IInv

\* A call that cannot be encoded.
LEMMA MisuseKeeps ==
  ASSUME IInv, NEW c \in Callers, Misuse(c)
  PROVE  IInv'
<1> USE DEF files, exe, server, client
<1>1. /\ UNCHANGED <<file, temp, clock, writes, binary, digest, ran, broker, serving>>
      /\ UNCHANGED <<tokens, exit, down, up, queue, reading, frames, ended, closing>>
      /\ UNCHANGED <<verdict, held>> /\ stdin' = "closed" /\ calls' = calls + 1
  BY DEF Misuse, Poisoned
<1>2. Typed'
  <2>1. calls' \in 0..MaxCalls
    BY SessionAssumption DEF Misuse, IInv, Typed, TypedClient
  <2>2. settled' \in [Callers -> Fates]
    BY DEF Misuse, IInv, Typed, TypedClient, Fates
  <2> QED BY <1>1, <2>1, <2>2 DEF IInv, Typed, TypedFiles, TypedPipes, TypedClient
<1>3. ExeOK' /\ BrokerOK' /\ EndsOK'
  BY <1>1 DEF IInv, ExeOK, BrokerOK, EndsOK
<1>4. OrderOK'
  <2>1. calls \in Nat
    BY DEF IInv, Typed, TypedClient
  <2> QED BY <1>1, <2>1, IdsAreNumbers DEF IInv, OrderOK, Waiting
<1>5. LinksOK'
  BY <1>1, SameLinks DEF IInv
<1>6. BalanceOK'
  <2>1. Mismatch' => Mismatch
    BY DEF Misuse, Mismatch, IInv, Typed, TypedClient
  <2>2. Balance' = Balance /\ (Aligned => Aligned')
    BY <1>1 DEF Balance, Busy, Awaited, Aligned
  <2> QED BY <1>1, <2>1, <2>2 DEF IInv, BalanceOK
<1> QED BY <1>2, <1>3, <1>4, <1>5, <1>6 DEF IInv

\* Whatever a caller does.
LEMMA CallerKeeps == ASSUME IInv, CallerStep PROVE IInv'
<1>1. PICK c \in Callers :
          List(c) \/ Replace(c) \/ Misuse(c) \/ \E f \in Files : Read(c, f)
  BY DEF CallerStep
<1>2. calls \in Nat
  BY DEF IInv, Typed, TypedClient
<1>3. CASE List(c)
  <2> DEFINE r == Call(c, "list", None, -1, None)
  <2>1. r \in CallType /\ r.id = calls /\ Made(r)
    BY <1>2 DEF Call, CallType, Made
  <2> HIDE DEF r
  <2>2. Enqueue(c, r)
    BY <1>3 DEF List, r
  <2> QED BY <2>1, <2>2, EnqueueKeeps
<1>4. CASE \E f \in Files : Read(c, f)
  <2>1. PICK f \in Files : Read(c, f)
    BY <1>4
  <2> DEFINE r == Call(c, "read", f, -1, None)
  <2>2. r \in CallType /\ r.id = calls /\ Made(r)
    BY <1>2 DEF Call, CallType, Made
  <2> HIDE DEF r
  <2>3. Enqueue(c, r)
    BY <2>1 DEF Read, r
  <2> QED BY <2>2, <2>3, EnqueueKeeps
<1>5. CASE Replace(c)
  <2> DEFINE v == [n |-> MaxWrites + calls + 1, base |-> held[c].version.n]
             r == Call(c, "replace", held[c].file, held[c].token, v)
  <2>1. held[c] # None /\ calls < MaxCalls /\ held[c] \in Known
    BY <1>5 DEF Replace, Enqueue, IInv, Typed, TypedClient
  <2>2. v \in Version
    <3>1. MaxWrites + calls + 1 \in Num
      BY <1>2, <2>1, SessionAssumption DEF Num
    <3> QED BY <2>1, <3>1 DEF Known, Version
  <2>3. r \in CallType /\ r.id = calls /\ r.op = "replace" /\ r.token = held[c].token
        /\ r.new.base = held[c].version.n
    <3> HIDE DEF v
    <3>1. r \in CallType /\ r.id = calls /\ r.op = "replace" /\ r.token = held[c].token
          /\ r.new = v
      BY <1>2, <2>1, <2>2 DEF Call, CallType, Known
    <3>2. v.base = held[c].version.n
      BY DEF v
    <3> QED BY <3>1, <3>2
  <2>4. Enqueue(c, r)
    BY <1>5 DEF Replace
  <2> HIDE DEF r
  <2>5. Made(r)
    BY <2>1, <2>3 DEF Made, IInv, LinksOK
  <2> QED BY <2>3, <2>4, <2>5, EnqueueKeeps
<1>6. CASE Misuse(c)
  BY <1>6, MisuseKeeps
<1> QED BY <1>1, <1>3, <1>4, <1>5, <1>6

-----------------------------------------------------------------------------
(* The client. *)

\* The turn of a call that is refused.
LEMMA RefusedKeeps ==
  ASSUME IInv, Turn, UNCHANGED <<reading, down>>, queue' = Tail(queue), stdin' = "closed"
  PROVE  IInv'
<1> USE DEF files, exe, server
<1>1. /\ UNCHANGED <<file, temp, clock, writes, binary, digest, ran, broker, serving>>
      /\ UNCHANGED <<tokens, exit, up, frames, ended, closing, verdict, held, calls>>
      /\ queue # <<>> /\ ~reading
  BY DEF Turn
<1>2. /\ queue' \in Seq(CallType) /\ Elems(queue') \subseteq Elems(queue)
      /\ Rising(queue')
  BY <1>1, TailFacts, RisingTail DEF IInv, Typed, TypedClient, OrderOK
<1>3. Typed'
  <2>1. settled' \in [Callers -> Fates]
    BY DEF Turn, IInv, Typed, TypedClient, Fates
  <2> QED BY <1>1, <1>2, <2>1 DEF IInv, Typed, TypedFiles, TypedPipes, TypedClient
<1>4. ExeOK' /\ BrokerOK' /\ EndsOK'
  BY <1>1 DEF IInv, ExeOK, BrokerOK, EndsOK
<1>5. OrderOK'
  BY <1>1, <1>2 DEF IInv, OrderOK, Waiting
<1>6. LinksOK'
  BY <1>1, <1>2 DEF IInv, LinksOK, Made
<1>7. BalanceOK'
  <2>1. Mismatch' => Mismatch
    BY DEF Turn, Mismatch, IInv, Typed, TypedClient
  <2>2. Balance' = Balance /\ Aligned'
    BY <1>1 DEF Balance, Busy, Awaited, Aligned
  <2> QED BY <1>1, <2>1, <2>2 DEF IInv, BalanceOK
<1> QED BY <1>3, <1>4, <1>5, <1>6, <1>7 DEF IInv

\* The turn of a call that is sent.
LEMMA SentKeeps ==
  ASSUME IInv, Turn, frames = <<>>, broker # "exited", ended = "no",
         down' = Append(down, Head(queue)), reading' = TRUE,
         UNCHANGED <<queue, settled, stdin>>
  PROVE  IInv'
<1> USE DEF files, exe, server
<1> DEFINE call == Head(queue)
<1>1. /\ UNCHANGED <<file, temp, clock, writes, binary, digest, ran, broker, serving>>
      /\ UNCHANGED <<tokens, exit, up, frames, ended, closing, verdict, held, calls>>
      /\ queue # <<>> /\ ~reading
  BY DEF Turn
<1>2. queue \in Seq(CallType) /\ down \in Seq(CallType) /\ up \in Seq(FrameType)
  BY DEF IInv, Typed, TypedClient, TypedPipes
<1>3. call \in CallType /\ call \in Elems(queue)
      /\ Elems(Tail(queue)) \subseteq Elems(queue)
  BY <1>1, <1>2, TailFacts
<1> HIDE DEF call
<1>4. /\ down' = Append(down, call) /\ down' \in Seq(CallType)
      /\ Elems(down') = Elems(down) \cup {call}
      /\ Len(down) \in Nat /\ Len(down') = Len(down) + 1
  BY <1>2, <1>3, AppendFacts DEF call
<1>5. Typed'
  BY <1>1, <1>4 DEF IInv, Typed, TypedFiles, TypedPipes, TypedClient
<1>6. ExeOK' /\ BrokerOK' /\ EndsOK'
  BY <1>1 DEF IInv, ExeOK, BrokerOK, EndsOK
<1>7. OrderOK'
  <2>1. Waiting = queue /\ Waiting' = Tail(queue)
    BY <1>1 DEF Waiting
  <2>2. Rising(down')
    BY <1>2, <1>3, <1>4, <2>1, RisingAppend DEF IInv, OrderOK
  <2>3. \A r \in Elems(Tail(queue)) : call.id < r.id
    BY <1>1, <1>2, RisingTail DEF IInv, OrderOK, call
  <2>4. \A r \in Elems(Waiting') : \A x \in Elems(down') \cup tokens' : x.id < r.id
    BY <1>1, <1>3, <1>4, <2>1, <2>3 DEF IInv, OrderOK
  <2>5. \A r \in Elems(down') : \A t \in tokens' : t.id < r.id
    BY <1>1, <1>3, <1>4, <2>1 DEF IInv, OrderOK
  <2> QED BY <1>1, <1>3, <1>4, <2>2, <2>4, <2>5 DEF IInv, OrderOK
<1>8. LinksOK'
  BY <1>1, <1>3, <1>4 DEF IInv, LinksOK, Made
<1>9. BalanceOK'
  <2>1. Balance' = Balance
    <3>1. Awaited = 0 /\ Awaited' = 1 /\ Busy' = Busy /\ Busy \in {0, 1}
      BY <1>1 DEF Awaited, Busy
    <3>2. Len(up) \in Nat /\ Len(frames) = 0 /\ up' = up /\ frames' = frames
      BY <1>1, <1>2, EmptyFacts
    <3> QED BY <1>4, <3>1, <3>2 DEF Balance
  <2>2. Balance = 0 => down = <<>> /\ up = <<>> /\ broker \notin Replacing
    <3>1. Len(down) \in Nat /\ Len(up) \in Nat /\ Len(frames) = 0
      BY <1>2, EmptyFacts
    <3>2. Balance = Len(down) + Busy + Len(up)
      BY <1>1, <3>1 DEF Balance, Awaited, Busy
    <3>3. Balance = 0 => Len(down) = 0 /\ Len(up) = 0 /\ Busy = 0
      BY <3>1, <3>2 DEF Busy
    <3> QED BY <1>2, <3>3, EmptyFacts DEF Busy
  <2>3. Balance = 0 => Aligned'
    <3>1. SUFFICES ASSUME Balance = 0 PROVE Aligned'
      OBVIOUS
    <3>2. Elems(down') = {call} /\ Elems(up') = {} /\ broker' \notin Replacing
      BY <1>1, <1>4, <2>2, <3>1, EmptyFacts
    <3>3. Head(queue') = call
      BY DEF call
    <3> QED BY <3>2, <3>3 DEF Aligned
  <2>4. Mismatch' => Mismatch
    BY DEF Mismatch
  <2> QED BY <1>1, <2>1, <2>3, <2>4 DEF IInv, BalanceOK
<1> QED BY <1>5, <1>6, <1>7, <1>8, <1>9 DEF IInv

\* The turn of a call that is sent when the answers can be read no more.
LEMMA LostKeeps ==
  ASSUME IInv, Turn, broker # "exited", UNCHANGED reading,
         down' = Append(down, Head(queue)), queue' = Tail(queue), stdin' = "closed"
  PROVE  IInv'
<1> USE DEF files, exe, server
<1> DEFINE call == Head(queue)
<1>1. /\ UNCHANGED <<file, temp, clock, writes, binary, digest, ran, broker, serving>>
      /\ UNCHANGED <<tokens, exit, up, frames, ended, closing, verdict, held, calls>>
      /\ queue # <<>> /\ ~reading
  BY DEF Turn
<1>2. queue \in Seq(CallType) /\ down \in Seq(CallType)
  BY DEF IInv, Typed, TypedClient, TypedPipes
<1>3. /\ call \in CallType /\ call \in Elems(queue) /\ queue' \in Seq(CallType)
      /\ Elems(queue') \subseteq Elems(queue)
  BY <1>1, <1>2, TailFacts
<1>4. Rising(queue') /\ \A r \in Elems(queue') : call.id < r.id
  BY <1>1, <1>2, RisingTail DEF IInv, OrderOK
<1> HIDE DEF call
<1>5. /\ down' = Append(down, call) /\ down' \in Seq(CallType)
      /\ Elems(down') = Elems(down) \cup {call}
      /\ Len(down) \in Nat /\ Len(down') = Len(down) + 1
  BY <1>2, <1>3, AppendFacts DEF call
<1>6. Typed'
  <2>1. settled' \in [Callers -> Fates]
    BY DEF Turn, IInv, Typed, TypedClient, Fates
  <2> QED BY <1>1, <1>3, <1>5, <2>1 DEF IInv, Typed, TypedFiles, TypedPipes, TypedClient
<1>7. ExeOK' /\ BrokerOK' /\ EndsOK'
  BY <1>1 DEF IInv, ExeOK, BrokerOK, EndsOK
<1>8. OrderOK'
  <2>1. Waiting = queue /\ Waiting' = queue'
    BY <1>1 DEF Waiting
  <2>2. Rising(down')
    BY <1>2, <1>3, <1>5, <2>1, RisingAppend DEF IInv, OrderOK
  <2>3. \A r \in Elems(Waiting') : \A x \in Elems(down') \cup tokens' : x.id < r.id
    BY <1>1, <1>3, <1>4, <1>5, <2>1 DEF IInv, OrderOK
  <2>4. \A r \in Elems(down') : \A t \in tokens' : t.id < r.id
    BY <1>1, <1>3, <1>5, <2>1 DEF IInv, OrderOK
  <2> QED BY <1>1, <1>3, <1>4, <1>5, <2>2, <2>3, <2>4 DEF IInv, OrderOK
<1>9. LinksOK'
  BY <1>1, <1>3, <1>5 DEF IInv, LinksOK, Made
<1>10. BalanceOK'
  <2>1. Len(up) \in Nat /\ Len(frames) \in Nat /\ up' = up /\ frames' = frames
    BY <1>1, EmptyFacts DEF IInv, Typed, TypedPipes, TypedClient
  <2>2. Awaited = 0 /\ Awaited' = 0 /\ Busy' = Busy /\ Busy \in {0, 1}
    BY <1>1 DEF Awaited, Busy
  <2>3. Balance' = Balance + 1 /\ Balance \in Int
    BY <1>5, <2>1, <2>2 DEF Balance
  <2>4. exit \notin {"error", "signal"} => Balance' >= 1 /\ Balance' \in Int
    BY <2>3 DEF IInv, BalanceOK
  <2> QED BY <1>1, <2>4 DEF BalanceOK
<1> QED BY <1>6, <1>7, <1>8, <1>9, <1>10 DEF IInv

\* The turn of a call.
LEMMA TurnKeeps == ASSUME IInv, Turn PROVE IInv'
<1> DEFINE refused == poison \/ frames # <<>> \/ stdin = "closed" \/ broker = "exited"
<1>1. CASE refused
  BY <1>1, RefusedKeeps DEF Turn, Poisoned
<1>2. CASE ~refused /\ ended # "no"
  BY <1>2, LostKeeps DEF Turn, Poisoned
<1>3. CASE ~refused /\ ended = "no"
  BY <1>3, SentKeeps DEF Turn
<1> QED BY <1>1, <1>2, <1>3

\* The answers end, or can be read no more.
LEMMA FailKeeps ==
  ASSUME IInv, NEW kind \in {"end", "partial", "protocol"}, Fail(kind),
         up = <<>>, ended = "no", kind # "protocol" => broker = "exited"
  PROVE  IInv'
<1> USE DEF files, exe, server
<1>1. /\ UNCHANGED <<file, temp, clock, writes, binary, digest, ran, broker, serving>>
      /\ UNCHANGED <<tokens, exit, down, up, frames, closing, verdict, held, calls>>
      /\ ended' = kind /\ ~reading' /\ reading' = FALSE
  BY DEF Fail
<1>2. /\ queue' = Waiting
      /\ IF reading THEN stdin' = "closed" ELSE UNCHANGED <<stdin, settled>>
  BY DEF Fail, Poisoned, Waiting
<1>3. queue \in Seq(CallType) /\ (reading => queue # <<>>) /\ reading \in BOOLEAN
  BY DEF IInv, Typed, TypedClient, EndsOK
<1>4. queue' \in Seq(CallType) /\ Elems(queue') \subseteq Elems(queue) /\ Rising(queue')
  BY <1>2, <1>3, TailFacts, RisingTail DEF IInv, OrderOK, Waiting
<1>5. Typed'
  <2>1. settled' \in [Callers -> Fates]
    BY DEF Fail, IInv, Typed, TypedClient, Fates
  <2> QED BY <1>1, <1>4, <2>1 DEF IInv, Typed, TypedFiles, TypedPipes, TypedClient
<1>6. ExeOK' /\ BrokerOK'
  BY <1>1, <1>2 DEF IInv, ExeOK, BrokerOK
<1>7. EndsOK'
  BY <1>1, <1>2, <1>3 DEF IInv, EndsOK, Waiting
<1>8. OrderOK'
  <2>1. Waiting' = Waiting
    BY <1>1, <1>2 DEF Waiting
  <2> QED BY <1>1, <1>4, <2>1 DEF IInv, OrderOK
<1>9. LinksOK'
  BY <1>1, <1>4 DEF IInv, LinksOK, Made
<1>10. BalanceOK'
  <2>1. Mismatch' => Mismatch
    BY DEF Fail, Mismatch, IInv, Typed, TypedClient
  <2>2. Aligned' /\ Awaited' = 0 /\ Awaited \in {0, 1}
    BY <1>1 DEF Aligned, Awaited
  <2>3. Balance' >= Balance /\ Balance \in Int
    <3>1. Len(down) \in Nat /\ Len(up) \in Nat /\ Len(frames) \in Nat
      BY EmptyFacts DEF IInv, Typed, TypedPipes, TypedClient
    <3> QED BY <1>1, <2>2, <3>1 DEF Balance, Busy
  <2>4. Balance' \in Int
    BY <1>1, <2>2, EmptyFacts DEF IInv, Typed, TypedPipes, TypedClient, Balance, Busy
  <2>5. ASSUME exit \notin {"error", "signal"}, Balance' = 0 PROVE ~Mismatch
    BY <2>3, <2>4, <2>5 DEF IInv, BalanceOK
  <2> QED BY <1>1, <2>1, <2>2, <2>3, <2>4, <2>5 DEF IInv, BalanceOK
<1> QED BY <1>5, <1>6, <1>7, <1>8, <1>9, <1>10 DEF IInv

\* A chunk of the stream of answers.
LEMMA ReceiveKeeps ==
  ASSUME IInv, NEW k \in 1..Len(up), Receive(k)
  PROVE  IInv'
<1> USE DEF files, exe, server
<1> DEFINE chunk == SubSeq(up, 1, k)
           call == Head(queue)
           answer == Head(chunk)
           taken == IF reading THEN Tail(chunk) ELSE chunk
           fits == reading /\ taken = <<>> /\ Accepts(call, answer)
<1>1. /\ UNCHANGED <<file, temp, clock, writes, binary, digest, ran, broker, serving>>
      /\ UNCHANGED <<tokens, exit, down, ended, closing, verdict, calls>>
      /\ ended = "no" /\ closing # "closed" /\ reading' = FALSE
      /\ up' = SubSeq(up, k + 1, Len(up))
  BY DEF Receive
<1>2. frames' = frames \o taken
  BY DEF Receive
<1>3. /\ queue' = Waiting
      /\ stdin' = stdin \/ stdin' = "closed"
  BY DEF Receive, Poisoned, Waiting
<1>4. /\ fits => /\ settled' = [settled EXCEPT ![call.by] =
                          IF answer.to = call.id THEN "idle" ELSE "mismatch"]
                 /\ held' = [held EXCEPT ![call.by] =
                          IF call.op = "replace" THEN None ELSE Learned(call, answer)]
      /\ ~fits => /\ held' = held
                  /\ settled' = settled \/ settled' = [settled EXCEPT ![call.by] = "rejected"]
  BY DEF Receive
<1>5. /\ queue \in Seq(CallType) /\ (reading => queue # <<>>) /\ reading \in BOOLEAN
      /\ up \in Seq(FrameType) /\ frames \in Seq(FrameType)
  BY DEF IInv, Typed, TypedClient, TypedPipes, EndsOK
<1>6. queue' \in Seq(CallType) /\ Elems(queue') \subseteq Elems(queue) /\ Rising(queue')
  BY <1>3, <1>5, TailFacts, RisingTail DEF IInv, OrderOK, Waiting
<1>7. reading => call \in CallType
  BY <1>5, TailFacts
<1>8. /\ chunk \in Seq(FrameType) /\ chunk # <<>> /\ Len(chunk) = k
      /\ answer \in Elems(up) /\ answer \in FrameType
      /\ up' \in Seq(FrameType) /\ Len(up') = Len(up) - k /\ Elems(up') \subseteq Elems(up)
  <2>0. up \in Seq(FrameType)
    BY <1>5
  <2>1. /\ SubSeq(up, 1, k) \in Seq(FrameType) /\ SubSeq(up, 1, k) # <<>>
        /\ Len(SubSeq(up, 1, k)) = k /\ Head(SubSeq(up, 1, k)) \in Elems(up)
        /\ SubSeq(up, k + 1, Len(up)) \in Seq(FrameType)
        /\ Len(SubSeq(up, k + 1, Len(up))) = Len(up) - k
        /\ Elems(SubSeq(up, k + 1, Len(up))) \subseteq Elems(up)
    <3> HIDE DEF chunk, call, answer, taken, fits
    <3> QED BY <2>0, ChunkFacts
  <2>2. /\ up' \in Seq(FrameType) /\ Len(up') = Len(up) - k
        /\ Elems(up') \subseteq Elems(up)
    BY <1>1, <2>1
  <2>3. /\ chunk \in Seq(FrameType) /\ chunk # <<>> /\ Len(chunk) = k
        /\ answer \in Elems(up)
    BY <2>1
  <2> HIDE DEF answer
  <2>4. answer \in FrameType
    BY <2>0, <2>3, ElemsType
  <2> QED BY <2>2, <2>3, <2>4
<1> HIDE DEF chunk
<1>9. /\ taken \in Seq(FrameType)
      /\ Len(taken) = IF reading THEN k - 1 ELSE k
  BY <1>8, TailFacts
<1> HIDE DEF taken
<1>10. frames' \in Seq(FrameType) /\ Len(frames') = Len(frames) + Len(taken)
  BY <1>2, <1>5, <1>9, ConcatFacts
<1>11. ASSUME fits, call.op = "read"
       PROVE  /\ Learned(call, answer) \in Known
              /\ \E t \in tokens : /\ t.id = Learned(call, answer).token
                                   /\ t.version = Learned(call, answer).version
  <2>1. \E t \in tokens : t.id = answer.token
    BY <1>8, <1>11 DEF Accepts, IInv, LinksOK
  <2> DEFINE t == CHOOSE t \in tokens : t.id = answer.token
  <2>2. t \in tokens
    BY <2>1
  <2>3. t \in TokenType
    BY <2>2 DEF IInv, Typed, TypedPipes
  <2>4. Learned(call, answer) = [file |-> t.file, token |-> t.id, version |-> t.version]
    BY <1>11 DEF Learned
  <2> HIDE DEF t
  <2> QED BY <2>2, <2>3, <2>4 DEF TokenType, Known
<1>12. Typed'
  <2>1. settled' \in [Callers -> Fates]
    BY <1>4 DEF IInv, Typed, TypedClient, Fates
  <2>2. held' \in [Callers -> Known \cup {None}]
    <3>1. CASE ~fits
      BY <1>4, <3>1 DEF IInv, Typed, TypedClient
    <3>2. CASE fits
      <4>1. call.by \in Callers /\ call.op \in Op
        BY <1>7, <3>2 DEF CallType, Op
      <4>2. (IF call.op = "replace" THEN None ELSE Learned(call, answer))
              \in Known \cup {None}
        <5>1. CASE call.op = "read"
          BY <1>11, <3>2, <5>1
        <5>2. CASE call.op = "list"
          BY <4>1, <5>2 DEF Learned, IInv, Typed, TypedClient
        <5>3. CASE call.op = "replace"
          BY <5>3
        <5> QED BY <4>1, <5>1, <5>2, <5>3 DEF Op
      <4> QED BY <1>4, <3>2, <4>1, <4>2 DEF IInv, Typed, TypedClient
    <3> QED BY <3>1, <3>2
  <2> QED BY <1>1, <1>6, <1>8, <1>10, <2>1, <2>2
          DEF IInv, Typed, TypedFiles, TypedPipes, TypedClient
<1>13. ExeOK' /\ BrokerOK'
  BY <1>1, <1>3 DEF IInv, ExeOK, BrokerOK
<1>14. EndsOK'
  BY <1>1, <1>3, <1>5 DEF IInv, EndsOK, Waiting
<1>15. OrderOK'
  <2>1. Waiting' = Waiting
    BY <1>1, <1>3 DEF Waiting
  <2> QED BY <1>1, <1>6, <2>1 DEF IInv, OrderOK
<1>16. LinksOK'
  <2>1. \A c \in Callers : held'[c] # None =>
            \E t \in tokens : t.id = held'[c].token /\ t.version = held'[c].version
    <3>1. CASE ~fits
      BY <1>4, <3>1 DEF IInv, LinksOK
    <3>2. CASE fits
      <4>1. call.op \in Op
        BY <1>7, <3>2 DEF CallType, Op
      <4> DEFINE h == IF call.op = "replace" THEN None ELSE Learned(call, answer)
      <4>2. h # None => h = held[call.by] \/
              \E t \in tokens : t.id = h.token /\ t.version = h.version
        BY <1>11, <3>2, <4>1 DEF Op, Learned
      <4>3. held' = [held EXCEPT ![call.by] = h] /\ held \in [Callers -> Known \cup {None}]
        BY <1>4, <3>2 DEF IInv, Typed, TypedClient
      <4> HIDE DEF h
      <4> QED BY <4>2, <4>3 DEF IInv, LinksOK
    <3> QED BY <3>1, <3>2
  <2> QED BY <1>1, <1>6, <1>8, <2>1 DEF IInv, LinksOK, Made
<1>17. BalanceOK'
  <2> DEFINE n == Len(down) + Busy
  <2>1. Len(up) \in Nat /\ Len(frames) \in Nat /\ n \in Nat /\ Busy \in {0, 1}
        /\ k \in Nat /\ k >= 1 /\ Len(down) \in Nat
    BY <1>5, EmptyFacts DEF IInv, Typed, TypedPipes, Busy
  <2>2. Aligned' /\ Awaited' = 0 /\ Busy' = Busy /\ Awaited = IF reading THEN 1 ELSE 0
    BY <1>1 DEF Aligned, Awaited, Busy
  <2>3. Balance' = Balance
    <3>1. Len(down') = Len(down)
      BY <1>1
    <3>2. Len(up') + Len(frames') = Len(up) + Len(frames) - Awaited
      BY <1>8, <1>9, <1>10, <2>1, <2>2
    <3>3. Len(up') \in Int /\ Len(frames') \in Int /\ Awaited \in Int
      BY <1>8, <1>9, <1>10, <2>1, <2>2
    <3> QED BY <2>1, <2>2, <3>1, <3>2, <3>3 DEF Balance
  <2>4. ASSUME exit \notin {"error", "signal"}, Balance = 0 PROVE ~Mismatch'
    <3>1. reading /\ Aligned /\ ~Mismatch
      <4>1. reading
        BY <2>1, <2>2, <2>4 DEF Balance
      <4> QED BY <2>4, <4>1 DEF IInv, BalanceOK
    <3>2. answer.to = call.id
      BY <1>8, <3>1 DEF Aligned
    <3> HIDE DEF call, answer, fits
    <3> QED BY <1>4, <3>1, <3>2 DEF Mismatch, IInv, Typed, TypedClient
  <2> QED BY <1>1, <2>2, <2>3, <2>4 DEF IInv, BalanceOK
<1> QED BY <1>12, <1>13, <1>14, <1>15, <1>16, <1>17 DEF IInv

\* Whatever the client does.
LEMMA ClientKeeps == ASSUME IInv, ClientStep PROVE IInv'
<1>1. CASE \E kind \in {"end", "partial"} : StreamEnds(kind)
  <2>1. PICK kind \in {"end", "partial"} : StreamEnds(kind)
    BY <1>1
  <2> QED BY <2>1, FailKeeps DEF StreamEnds
<1>2. CASE \E k \in 1..Len(up) : Receive(k)
  BY <1>2, ReceiveKeeps
<1>3. CASE ~\E kind \in {"end", "partial"} : StreamEnds(kind)
  BY <1>2, <1>3, EdgesKeep, TurnKeeps DEF ClientStep
<1> QED BY <1>1, <1>3

-----------------------------------------------------------------------------
(* The broker. *)

\* The refusal of a request, whatever is left beside the target.
LEMMA RefuseKeeps ==
  ASSUME IInv, NEW r \in CallType, Refuse(r), broker \notin {"none", "exited"},
         UNCHANGED <<file, clock, exe, tokens, stdin, client, fate, users,
                     calls, writes, faults>>,
         temp' \in Besides \cup {None},
         down' \in Seq(CallType), Rising(down'), Elems(down') \subseteq Elems(down)
  PROVE  IInv'
<1> USE DEF exe, client, fate, users
<1>1. /\ UNCHANGED <<file, clock, writes, binary, digest, ran>>
      /\ UNCHANGED <<tokens, stdin, queue, reading, frames, ended, closing>>
      /\ UNCHANGED <<verdict, held, settled, calls>>
      /\ broker' = "exited" /\ exit' = "error"
  BY DEF Refuse
<1> DEFINE a == Frame(r.id, r.op, FALSE, -1)
<1>3. a \in FrameType /\ a.ok = FALSE
  <2>1. r.id \in Int /\ r.op \in Op
    BY DEF CallType, Op
  <2> QED BY <2>1 DEF Frame, FrameType
<1>4. up' = Append(up, a)
  BY DEF Refuse
<1> HIDE DEF a
<1>5. up' \in Seq(FrameType) /\ Elems(up') = Elems(up) \cup {a}
  BY <1>3, <1>4, AppendFacts DEF IInv, Typed, TypedPipes
<1>6. Typed'
  BY <1>1, <1>5 DEF IInv, Typed, TypedFiles, TypedPipes, TypedClient
<1>7. ExeOK' /\ BrokerOK' /\ EndsOK'
  BY <1>1 DEF IInv, ExeOK, BrokerOK, EndsOK, Replacing
<1>8. OrderOK'
  BY <1>1 DEF IInv, OrderOK, Waiting
<1>9. LinksOK'
  BY <1>1, <1>3, <1>5 DEF IInv, LinksOK, Made, Replacing
<1>10. BalanceOK'
  BY <1>1 DEF BalanceOK
<1> QED BY <1>6, <1>7, <1>8, <1>9, <1>10 DEF IInv

\* The refusal of a replacement.
LEMMA RefuseReplaceKeeps ==
  ASSUME IInv, Refuse(serving), broker \in Replacing, temp' \in Besides \cup {None},
         UNCHANGED <<file, clock, exe, serving, tokens, stdin, down, client, fate, users,
                     calls, writes, faults>>
  PROVE  IInv'
<1>1. serving \in CallType /\ broker \notin {"none", "exited"}
  BY DEF IInv, BrokerOK, Replacing
<1>2. down' \in Seq(CallType) /\ Rising(down') /\ Elems(down') \subseteq Elems(down)
  BY DEF IInv, Typed, TypedPipes, OrderOK
<1> QED BY <1>1, <1>2, RefuseKeeps

\* The check of a token, and the file beside the target.
LEMMA StageKeeps == ASSUME IInv, Stage PROVE IInv'
<1> USE DEF exe, client, fate, users
<1>1. broker = "checking" /\ serving \in CallType /\ serving.op = "replace" /\ temp = None
  BY DEF Stage, IInv, BrokerOK, Replacing
<1>2. CASE Refuse(serving)
  <2>1. temp' = temp \/ temp' = [file |-> serving.file, version |-> serving.new]
    BY DEF Stage
  <2>2. temp' \in Besides \cup {None}
    BY <1>1, <2>1 DEF CallType, Besides
  <2> QED BY <1>1, <1>2, <2>2, RefuseReplaceKeeps DEF Stage, Replacing
<1>3. CASE ~Refuse(serving)
  <2>1. /\ UNCHANGED <<file, clock, writes, binary, digest, ran, serving, tokens, down>>
        /\ UNCHANGED <<up, exit, stdin, queue, reading, frames, ended, closing, verdict>>
        /\ UNCHANGED <<held, settled, calls>>
        /\ broker' = "staged"
        /\ temp' = [file |-> serving.file, version |-> serving.new]
    BY <1>3 DEF Stage
  <2>2. temp' \in Besides
    BY <1>1, <2>1 DEF CallType, Besides
  <2>3. Typed'
    BY <2>1, <2>2 DEF IInv, Typed, TypedFiles, TypedPipes, TypedClient
  <2>4. ExeOK' /\ BrokerOK' /\ EndsOK'
    BY <1>1, <2>1 DEF IInv, ExeOK, BrokerOK, EndsOK, Replacing
  <2>5. OrderOK' /\ LinksOK' /\ BalanceOK'
    BY <1>1, <2>1, SameOrder, SameLinks, SameBalance DEF IInv, Replacing
  <2> QED BY <2>3, <2>4, <2>5 DEF IInv
<1> QED BY <1>2, <1>3

\* The exchange.
LEMMA ExchangeKeeps == ASSUME IInv, Exchange PROVE IInv'
<1> USE DEF exe, pipes, client, fate, users
<1>1. /\ UNCHANGED <<clock, writes, binary, digest, ran, serving, tokens, down, up, exit>>
      /\ UNCHANGED <<stdin, queue, reading, frames, ended, closing, verdict>>
      /\ UNCHANGED <<held, settled, calls>>
      /\ broker = "staged" /\ broker' = "exchanged"
  BY DEF Exchange
<1>2. /\ serving \in CallType /\ serving.op = "replace"
      /\ temp = [file |-> serving.file, version |-> serving.new]
  BY <1>1 DEF IInv, BrokerOK, Replacing
<1>3. temp \in Besides /\ serving.file \in Files /\ file \in [Files -> Version]
  BY <1>2 DEF CallType, Besides, IInv, Typed, TypedFiles
<1>4. file' \in [Files -> Version] /\ temp' \in Besides
  BY <1>3 DEF Exchange, Besides
<1>5. Typed'
  BY <1>1, <1>4 DEF IInv, Typed, TypedFiles, TypedPipes, TypedClient
<1>6. ExeOK' /\ BrokerOK' /\ EndsOK'
  BY <1>1, <1>4 DEF IInv, ExeOK, BrokerOK, EndsOK, Replacing
<1>7. OrderOK' /\ LinksOK' /\ BalanceOK'
  BY <1>1, SameOrder, SameLinks, SameBalance DEF IInv, Replacing
<1> QED BY <1>5, <1>6, <1>7 DEF IInv

\* An exchange that fails.
LEMMA ExchangeFailsKeeps == ASSUME IInv, ExchangeFails PROVE IInv'
<1>1. broker = "staged" /\ temp \in Besides \cup {None}
  BY DEF ExchangeFails, IInv, Typed, TypedFiles
<1> QED BY <1>1, RefuseReplaceKeeps DEF ExchangeFails, Replacing

\* The validation of what was displaced.
LEMMA ValidateKeeps == ASSUME IInv, Validate PROVE IInv'
<1> USE DEF exe, client, fate, users
<1>1. broker = "exchanged" /\ serving \in CallType /\ serving.op = "replace"
  BY DEF Validate, IInv, BrokerOK, Replacing
<1>2. CASE Refuse(serving)
  <2>1. temp' \in Besides \cup {None}
    BY DEF Validate, IInv, Typed, TypedFiles
  <2>2. UNCHANGED <<file, clock, exe, serving, tokens, stdin, down, client, fate, users,
                    calls, writes, faults>>
    BY <1>2 DEF Validate, Refuse
  <2> QED BY <1>1, <1>2, <2>1, <2>2, RefuseReplaceKeeps DEF Replacing
<1>3. CASE ~Refuse(serving)
  <2>1. /\ UNCHANGED <<file, clock, writes, binary, digest, ran, serving, down>>
        /\ UNCHANGED <<exit, stdin, queue, reading, frames, ended, closing, verdict>>
        /\ UNCHANGED <<held, settled, calls>>
        /\ broker' = "ready" /\ temp' = None
        /\ tokens' = {[t EXCEPT !.used = @ \/ t.id = serving.token] : t \in tokens}
        /\ up' = Append(up, Frame(serving.id, "replace", TRUE, serving.token))
    BY <1>3 DEF Validate
  <2> DEFINE a == Frame(serving.id, "replace", TRUE, serving.token)
  <2>2. a \in FrameType /\ a.op = "replace" /\ a.to = serving.id
    <3>1. serving.id \in Int /\ serving.token \in Int /\ "replace" \in Op
      BY <1>1 DEF CallType, Op
    <3> QED BY <3>1 DEF Frame, FrameType
  <2>3. up' = Append(up, a)
    BY <2>1
  <2> HIDE DEF a
  <2>4. /\ up' \in Seq(FrameType) /\ Elems(up') = Elems(up) \cup {a}
        /\ Len(up) \in Nat /\ Len(up') = Len(up) + 1
    BY <2>2, <2>3, AppendFacts DEF IInv, Typed, TypedPipes
  <2>5. tokens \subseteq TokenType
    BY DEF IInv, Typed, TypedPipes
  <2>6. \A u \in tokens' : u \in TokenType /\ \E t \in tokens : u.id = t.id /\ u.version = t.version
    BY <2>1, <2>5 DEF TokenType
  <2>7. \A t \in tokens : \E u \in tokens' : u.id = t.id /\ u.version = t.version
    <3>1. TAKE t \in tokens
    <3> DEFINE u == [t EXCEPT !.used = @ \/ t.id = serving.token]
    <3>2. u \in tokens'
      BY <2>1
    <3>3. u.id = t.id /\ u.version = t.version
      BY <2>5 DEF TokenType
    <3> QED BY <3>2, <3>3
  <2>8. Typed'
    BY <2>1, <2>4, <2>6 DEF IInv, Typed, TypedFiles, TypedPipes, TypedClient
  <2>9. ExeOK' /\ BrokerOK'
    BY <1>1, <2>1 DEF IInv, ExeOK, BrokerOK, Replacing
  <2>10. EndsOK'
    BY <1>1, <2>1 DEF IInv, EndsOK
  <2>11. OrderOK'
    <3>1. \A u \in tokens' : \E t \in tokens : u.id = t.id
      BY <2>6
    <3> QED BY <2>1, <3>1 DEF IInv, OrderOK, Waiting
  <2>12. LinksOK'
    <3>1. \A t, u \in tokens' : t.id = u.id => t.version = u.version
      BY <2>6 DEF IInv, LinksOK
    <3>2. \A r \in Elems(queue) \cup Elems(down) : r.op = "replace" =>
            \E t \in tokens' : t.id = r.token /\ t.version.n = r.new.base
      <4>1. \A r \in Elems(queue) \cup Elems(down) : Made(r)
        BY DEF IInv, LinksOK
      <4> QED BY <2>7, <4>1 DEF Made
    <3>3. \A c \in Callers : held[c] # None =>
            \E t \in tokens' : t.id = held[c].token /\ t.version = held[c].version
      BY <2>7 DEF IInv, LinksOK
    <3>4. \A b \in Elems(up') : b.ok /\ b.op = "read" => \E t \in tokens' : t.id = b.token
      BY <2>2, <2>4, <2>7 DEF IInv, LinksOK
    <3> QED BY <2>1, <3>1, <3>2, <3>3, <3>4 DEF LinksOK, Replacing, Made
  <2>13. BalanceOK'
    <3>1. Busy = 1 /\ Busy' = 0 /\ Awaited' = Awaited /\ Awaited \in {0, 1}
      BY <1>1, <2>1 DEF Busy, Awaited, Replacing
    <3>2. Balance' = Balance
      <4>1. Len(down) \in Nat /\ Len(frames) \in Nat /\ down' = down /\ frames' = frames
        BY <2>1, EmptyFacts DEF IInv, Typed, TypedPipes, TypedClient
      <4> QED BY <2>4, <3>1, <4>1 DEF Balance
    <3>3. Aligned => Aligned'
      BY <1>1, <2>1, <2>2, <2>4 DEF Aligned, Replacing
    <3>4. Mismatch' => Mismatch
      BY <2>1 DEF Mismatch
    <3> QED BY <2>1, <3>2, <3>3, <3>4 DEF IInv, BalanceOK
  <2> QED BY <2>8, <2>9, <2>10, <2>11, <2>12, <2>13 DEF IInv
<1> QED BY <1>2, <1>3

\* A frame that nobody asked for.
LEMMA StrayKeeps ==
  ASSUME IInv, NEW op \in Op, Stray(op)
  PROVE  IInv'
<1> USE DEF files, exe, server, client, fate, users
<1>1. /\ UNCHANGED <<file, temp, clock, writes, binary, digest, ran, broker, serving>>
      /\ UNCHANGED <<tokens, exit, down, stdin, queue, reading, frames, ended, closing>>
      /\ UNCHANGED <<verdict, held, settled, calls>> /\ broker = "ready"
  BY DEF Stray
<1>2. PICK token \in {-1} \cup {t.id : t \in tokens} :
          /\ op = "read" => token # -1
          /\ up' = Append(up, Frame(-1, op, TRUE, token))
  BY DEF Stray
<1>3. token \in Int /\ (op = "read" => \E t \in tokens : t.id = token)
  BY <1>2 DEF IInv, Typed, TypedPipes, TokenType
<1> DEFINE a == Frame(-1, op, TRUE, token)
<1>4. a \in FrameType /\ a.op = op /\ a.token = token
  BY <1>3 DEF Frame, FrameType
<1>5. up' = Append(up, a)
  BY <1>2
<1> HIDE DEF a
<1>6. /\ up' \in Seq(FrameType) /\ Elems(up') = Elems(up) \cup {a}
      /\ Len(up) \in Nat /\ Len(up') = Len(up) + 1
  BY <1>4, <1>5, AppendFacts DEF IInv, Typed, TypedPipes
<1>7. Typed'
  BY <1>1, <1>6 DEF IInv, Typed, TypedFiles, TypedPipes, TypedClient
<1>8. ExeOK' /\ BrokerOK' /\ EndsOK'
  BY <1>1 DEF IInv, ExeOK, BrokerOK, EndsOK, Replacing
<1>9. OrderOK'
  BY <1>1, SameOrder DEF IInv
<1>10. LinksOK'
  BY <1>1, <1>3, <1>4, <1>6 DEF IInv, LinksOK, Made
<1>11. BalanceOK'
  <2>1. Len(down) \in Nat /\ Len(frames) \in Nat /\ down' = down /\ frames' = frames
    BY <1>1, EmptyFacts DEF IInv, Typed, TypedPipes, TypedClient
  <2>2. Busy' = Busy /\ Busy \in {0, 1} /\ Awaited' = Awaited /\ Awaited \in {0, 1}
    BY <1>1 DEF Busy, Awaited
  <2>3. Balance' = Balance + 1 /\ Balance \in Int
    BY <1>6, <2>1, <2>2 DEF Balance
  <2>4. exit \notin {"error", "signal"} => Balance' >= 1 /\ Balance' \in Int
    BY <2>3 DEF IInv, BalanceOK
  <2> QED BY <1>1, <2>4 DEF BalanceOK
<1> QED BY <1>7, <1>8, <1>9, <1>10, <1>11 DEF IInv

\* What the broker takes next from the pipe and does not refuse: a read or a list
\* is answered, and leaves a token or none; a replacement begins.
LEMMA ServeFacts ==
  ASSUME IInv, Serve, ~Refuse(Head(down))
  PROVE  \E r \in CallType :
    /\ r = Head(down) /\ serving' = r /\ r \in Elems(down) /\ Elems(down') \subseteq Elems(down)
    /\ down' \in Seq(CallType) /\ Rising(down') /\ \A x \in Elems(down') : r.id < x.id
    /\ Len(down) \in Nat \ {0} /\ Len(down') = Len(down) - 1
    /\ UNCHANGED exit
    /\ \/ r.op = "replace" /\ broker' = "checking" /\ UNCHANGED <<up, tokens>>
       \/ \E a \in FrameType :
            /\ broker' = "ready" /\ up' = Append(up, a) /\ a.to = r.id
            /\ \/ a.op = "list" /\ UNCHANGED tokens
               \/ \E t \in TokenType :
                    a.token = t.id /\ t.id = r.id /\ tokens' = tokens \cup {t}
<1> DEFINE r == Head(down)
<1>1. /\ down \in Seq(CallType) /\ down # <<>> /\ Rising(down)
      /\ down' = Tail(down) /\ serving' = r /\ broker = "ready"
  BY DEF Serve, IInv, Typed, TypedPipes, OrderOK
<1>2. /\ r \in CallType /\ r \in Elems(down) /\ Elems(down') \subseteq Elems(down)
      /\ down' \in Seq(CallType) /\ Len(down) \in Nat \ {0} /\ Len(down') = Len(down) - 1
  BY <1>1, TailFacts
<1>3. Rising(down') /\ \A x \in Elems(down') : r.id < x.id
  BY <1>1, RisingTail
<1>9. UNCHANGED exit
  BY DEF Serve
<1>4. \/ r.op = "list" /\ Answer(TRUE, -1) /\ UNCHANGED <<broker, tokens>>
      \/ /\ r.op = "read" /\ Answer(TRUE, r.id) /\ UNCHANGED broker
         /\ tokens' = tokens \cup {[id |-> r.id, file |-> r.file,
                                    version |-> file[r.file], used |-> FALSE]}
      \/ r.op = "replace" /\ broker' = "checking" /\ UNCHANGED <<up, tokens>>
  BY DEF Serve
<1>0. r = Head(down)
  OBVIOUS
<1> HIDE DEF r
<1>5. r.id \in Int /\ r.id \in Nat /\ r.op \in Op /\ (r.op = "read" => r.file \in Files)
  BY <1>2 DEF CallType, Op
<1>6. CASE r.op = "list" /\ Answer(TRUE, -1) /\ UNCHANGED <<broker, tokens>>
  <2> DEFINE a == Frame(r.id, r.op, TRUE, -1)
  <2>1. a \in FrameType /\ a.to = r.id /\ a.op = "list"
    BY <1>5, <1>6 DEF Frame, FrameType
  <2>2. up' = Append(up, a) /\ broker' = "ready" /\ UNCHANGED tokens
    BY <1>1, <1>6 DEF Answer
  <2> HIDE DEF a
  <2>3. \E b \in FrameType :
            /\ broker' = "ready" /\ up' = Append(up, b) /\ b.to = r.id
            /\ b.op = "list" /\ UNCHANGED tokens
    BY <2>1, <2>2
  <2> QED BY <1>0, <1>9, <1>1, <1>2, <1>3, <2>3
<1>7. CASE /\ r.op = "read" /\ Answer(TRUE, r.id) /\ UNCHANGED broker
           /\ tokens' = tokens \cup {[id |-> r.id, file |-> r.file,
                                      version |-> file[r.file], used |-> FALSE]}
  <2> DEFINE a == Frame(r.id, r.op, TRUE, r.id)
             t == [id |-> r.id, file |-> r.file, version |-> file[r.file], used |-> FALSE]
  <2>1. a \in FrameType /\ a.to = r.id /\ a.token = r.id
    BY <1>5 DEF Frame, FrameType
  <2>2. t \in TokenType /\ t.id = r.id
    BY <1>5, <1>7 DEF TokenType, IInv, Typed, TypedFiles
  <2>3. up' = Append(up, a) /\ broker' = "ready" /\ tokens' = tokens \cup {t}
    BY <1>1, <1>7 DEF Answer
  <2> HIDE DEF a, t
  <2>4. \E b \in FrameType :
            /\ broker' = "ready" /\ up' = Append(up, b) /\ b.to = r.id
            /\ \E u \in TokenType : b.token = u.id /\ u.id = r.id /\ tokens' = tokens \cup {u}
    BY <2>1, <2>2, <2>3
  <2> QED BY <1>0, <1>9, <1>1, <1>2, <1>3, <2>4
<1>8. CASE r.op = "replace" /\ broker' = "checking" /\ UNCHANGED <<up, tokens>>
  BY <1>0, <1>9, <1>1, <1>2, <1>3, <1>8
<1> QED BY <1>4, <1>6, <1>7, <1>8

\* It is answered, or begun.
LEMMA AnswerKeeps == ASSUME IInv, Serve, ~Refuse(Head(down)) PROVE IInv'
<1> USE DEF files, exe, client, fate, users
<1>1. PICK r \in CallType :
    /\ r = Head(down) /\ serving' = r /\ r \in Elems(down) /\ Elems(down') \subseteq Elems(down)
    /\ down' \in Seq(CallType) /\ Rising(down') /\ \A x \in Elems(down') : r.id < x.id
    /\ Len(down) \in Nat \ {0} /\ Len(down') = Len(down) - 1
    /\ UNCHANGED exit
    /\ \/ r.op = "replace" /\ broker' = "checking" /\ UNCHANGED <<up, tokens>>
       \/ \E a \in FrameType :
            /\ broker' = "ready" /\ up' = Append(up, a) /\ a.to = r.id
            /\ \/ a.op = "list" /\ UNCHANGED tokens
               \/ \E t \in TokenType :
                    a.token = t.id /\ t.id = r.id /\ tokens' = tokens \cup {t}
  BY ServeFacts
<1>2. /\ UNCHANGED <<file, temp, clock, writes, binary, digest, ran, exit, stdin>>
      /\ UNCHANGED <<queue, reading, frames, ended, closing, verdict, held, settled, calls>>
      /\ broker = "ready"
  BY <1>1 DEF Serve
<1>3. /\ exit = "no" /\ ended \notin {"end", "partial"} /\ temp = None /\ ran # -1
      /\ verdict # "clean"
  BY <1>2 DEF IInv, ExeOK, BrokerOK, EndsOK
<1>4. up \in Seq(FrameType) /\ tokens \subseteq TokenType /\ calls \in Nat
  BY DEF IInv, Typed, TypedPipes, TypedClient
<1>5. \/ up' = up
      \/ \E a \in FrameType : up' = Append(up, a)
  BY <1>1
<1>6. up' \in Seq(FrameType)
  BY <1>4, <1>5, AppendFacts
<1>7. tokens' \subseteq TokenType /\ \A t \in tokens' : t \in tokens \/ t.id = r.id
  BY <1>1, <1>4
<1>8. Typed'
  BY <1>1, <1>2, <1>6, <1>7 DEF IInv, Typed, TypedFiles, TypedPipes, TypedClient
<1>9. broker' \in {"ready", "checking"} /\ (broker' = "checking" => r.op = "replace")
  BY <1>1
<1>10. ExeOK' /\ BrokerOK' /\ EndsOK'
  BY <1>1, <1>2, <1>3, <1>9 DEF IInv, ExeOK, BrokerOK, EndsOK, Replacing
<1>11. OrderOK'
  <2>1. Waiting' = Waiting
    BY <1>2 DEF Waiting
  <2>2. \A x \in Elems(queue) \cup Elems(down') \cup tokens' : x.id < calls
    BY <1>1, <1>7 DEF IInv, OrderOK
  <2>3. \A w \in Elems(Waiting) : \A x \in Elems(down') \cup tokens' : x.id < w.id
    BY <1>1, <1>7 DEF IInv, OrderOK
  <2>4. \A x \in Elems(down') : \A t \in tokens' : t.id < x.id
    BY <1>1, <1>7 DEF IInv, OrderOK
  <2> QED BY <1>1, <1>2, <2>1, <2>2, <2>3, <2>4 DEF IInv, OrderOK
<1>12. LinksOK'
  <2>1. tokens \subseteq tokens' /\ \A x \in Elems(queue) \cup Elems(down) : Made(x)
    BY <1>1 DEF IInv, LinksOK
  <2>2. \A t \in tokens : t.id # r.id
    <3>1. \A t \in tokens : t.id < r.id /\ t.id \in Nat
      BY <1>1, IdsAreNumbers DEF IInv, OrderOK
    <3>2. r.id \in Nat
      BY DEF CallType
    <3> QED BY <3>1, <3>2
  <2>3. \A t, u \in tokens' : t.id = u.id => t.version = u.version
    <3>1. tokens' = tokens \/ \E t \in TokenType : t.id = r.id /\ tokens' = tokens \cup {t}
      BY <1>1
    <3> QED BY <2>2, <3>1 DEF IInv, LinksOK
  <2>4. \A x \in Elems(queue) \cup Elems(down) : x.op = "replace" =>
          \E t \in tokens' : t.id = x.token /\ t.version.n = x.new.base
    BY <2>1 DEF Made
  <2>5. \A c \in Callers : held[c] # None =>
          \E t \in tokens' : t.id = held[c].token /\ t.version = held[c].version
    BY <2>1 DEF IInv, LinksOK
  <2>6. \A b \in Elems(up') : b.ok /\ b.op = "read" => \E t \in tokens' : t.id = b.token
    <3>1. \A b \in Elems(up) : b.ok /\ b.op = "read" => \E t \in tokens' : t.id = b.token
      BY <2>1 DEF IInv, LinksOK
    <3>2. CASE up' = up
      BY <3>1, <3>2
    <3>3. CASE \E a \in FrameType : /\ up' = Append(up, a)
                                    /\ a.op = "list" \/ \E t \in tokens' : t.id = a.token
      <4>1. PICK a \in FrameType : /\ up' = Append(up, a)
                                   /\ a.op = "list" \/ \E t \in tokens' : t.id = a.token
        BY <3>3
      <4>2. Elems(up') = Elems(up) \cup {a}
        BY <1>4, <4>1, AppendFacts
      <4> QED BY <3>1, <4>1, <4>2
    <3> QED BY <1>1, <3>2, <3>3
  <2> QED BY <1>1, <1>2, <2>3, <2>4, <2>5, <2>6 DEF LinksOK, Made
<1>13. BalanceOK'
  <2>1. Len(up) \in Nat /\ Len(frames) \in Nat /\ frames' = frames
    BY <1>2, <1>4, EmptyFacts DEF IInv, Typed, TypedClient
  <2>2. Busy = 0 /\ Awaited' = Awaited /\ Awaited \in {0, 1}
    BY <1>2 DEF Busy, Awaited, Replacing
  <2>3. Mismatch' => Mismatch
    BY <1>2 DEF Mismatch
  <2>4. CASE r.op = "replace" /\ broker' = "checking" /\ UNCHANGED <<up, tokens>>
    <3>1. Busy' = 1
      BY <2>4 DEF Busy, Replacing
    <3>2. Balance' = Balance
      BY <1>1, <2>1, <2>2, <2>4, <3>1 DEF Balance
    <3>3. Aligned => Aligned'
      BY <1>1, <1>2, <2>4 DEF Aligned
    <3> QED BY <1>3, <2>3, <3>2, <3>3 DEF IInv, BalanceOK
  <2>5. CASE \E a \in FrameType : broker' = "ready" /\ up' = Append(up, a) /\ a.to = r.id
    <3>1. PICK a \in FrameType : broker' = "ready" /\ up' = Append(up, a) /\ a.to = r.id
      BY <2>5
    <3>2. Elems(up') = Elems(up) \cup {a} /\ Len(up') = Len(up) + 1
      BY <1>4, <3>1, AppendFacts
    <3>3. Busy' = 0
      BY <3>1 DEF Busy, Replacing
    <3>4. Balance' = Balance
      BY <1>1, <2>1, <2>2, <3>2, <3>3 DEF Balance
    <3>5. Aligned => Aligned'
      BY <1>1, <1>2, <3>1, <3>2 DEF Aligned, Replacing
    <3> QED BY <1>3, <2>3, <3>4, <3>5 DEF IInv, BalanceOK
  <2> QED BY <1>1, <2>4, <2>5
<1> QED BY <1>8, <1>10, <1>11, <1>12, <1>13 DEF IInv

\* What the broker takes next from the pipe.
LEMMA ServeKeeps == ASSUME IInv, Serve PROVE IInv'
<1>1. CASE Refuse(Head(down))
  <2>1. /\ down \in Seq(CallType) /\ down # <<>> /\ Rising(down) /\ broker = "ready"
        /\ temp \in Besides \cup {None} /\ down' = Tail(down)
    BY DEF Serve, IInv, Typed, TypedPipes, TypedFiles, OrderOK
  <2>2. /\ Head(down) \in CallType /\ down' \in Seq(CallType)
        /\ Elems(down') \subseteq Elems(down) /\ Rising(down')
    BY <2>1, TailFacts, RisingTail
  <2>3. UNCHANGED <<file, temp, clock, exe, tokens, stdin, client, fate, users, calls,
                    writes, faults>>
    BY <1>1 DEF Serve, files, Refuse, Answer, Frame
  <2> QED BY <1>1, <2>1, <2>2, <2>3, RefuseKeeps
<1>2. CASE ~Refuse(Head(down))
  BY <1>2, AnswerKeeps
<1> QED BY <1>1, <1>2

-----------------------------------------------------------------------------
(* The session. *)

\* Every step keeps the invariant.
LEMMA StepKeeps == ASSUME IInv, [Next]_vars PROVE IInv'
<1>1. CASE BrokerStep
  BY <1>1, ServeKeeps, StageKeeps, ExchangeKeeps, ExchangeFailsKeeps, ValidateKeeps,
     EnvironmentKeeps
     DEF BrokerStep
<1>2. CASE ClientStep
  BY <1>2, ClientKeeps
<1>3. CASE CallerStep
  BY <1>3, CallerKeeps
<1>4. CASE Close
  BY <1>4, EdgesKeep
<1>5. CASE Environment
  <2>1. CASE ChangeBinary
    BY <2>1, EdgesKeep
  <2>2. CASE Die \/ Hang \/ \E f \in Files : Write(f)
    BY <2>2, EnvironmentKeeps
  <2>3. CASE \E op \in {"list", "read", "replace"} : Stray(op)
    BY <2>3, StrayKeeps DEF Op
  <2>4. CASE Malformed
    BY <2>4, FailKeeps DEF Malformed
  <2> QED BY <1>5, <2>1, <2>2, <2>3, <2>4 DEF Environment
<1>6. CASE UNCHANGED vars
  BY <1>6, StutterKeeps
<1> QED BY <1>1, <1>2, <1>3, <1>4, <1>5, <1>6 DEF Next, Stopped

\* The invariant of the session: what is in the pipes, who waits for what, and
\* what the broker has beside a target, in every state.
THEOREM SessionInvariant == Spec => []IInv
<1>1. Init => IInv
  BY InitInv
<1>2. IInv /\ [Next]_vars => IInv'
  BY StepKeeps
<1> QED BY <1>1, <1>2, PTL DEF Spec

\* A session that closed without an error has settled no call with the answer
\* of another, although answers carry no number: when as many came as were
\* asked for, each was the one that was waited for.  (lib.rs, serve;
\* generated-app-mutation-client.js, request and close)
THEOREM EveryAnswerMatches == Spec => []AnswersMatch
<1>1. IInv => AnswersMatch
  <2>1. SUFFICES ASSUME IInv, verdict = "clean" PROVE ~Mismatch
    BY DEF AnswersMatch, Mismatch
  <2>2. /\ exit = "ok" /\ frames = <<>> /\ up = <<>> /\ ~reading
        /\ broker = "exited" /\ down = <<>>
    BY <2>1 DEF IInv, EndsOK, BrokerOK
  <2>3. Balance = 0
    BY <2>2, EmptyFacts DEF Balance, Busy, Awaited, Replacing
  <2> QED BY <2>1, <2>2, <2>3 DEF IInv, BalanceOK
<1> QED BY <1>1, SessionInvariant, PTL

\* A session that closed without an error did everything that it was asked,
\* left nothing beside a target, and ran the executable whose digest it
\* reports.  (generated-app-mutation-client.js, close; lib.rs, serve)
THEOREM CleanSessionIsWhole == Spec => []CleanIsWhole
<1>1. IInv => CleanIsWhole
  BY DEF IInv, EndsOK, BrokerOK, CleanIsWhole
<1> QED BY <1>1, SessionInvariant, PTL

\* After its first error a session sends no call, whatever was queued before.
\* (generated-app-mutation-client.js, enqueue and request)
THEOREM NothingSentAfterError == Spec => SilentAfterError
<1>1. IInv /\ [Next]_vars => [poison => Len(down') <= Len(down)]_vars
  <2>1. SUFFICES ASSUME IInv, [Next]_vars, poison PROVE Len(down') <= Len(down)
    OBVIOUS
  <2>2. down \in Seq(CallType) /\ Len(down) \in Nat
    BY <2>1, EmptyFacts DEF IInv, Typed, TypedPipes
  <2>3. CASE UNCHANGED down
    BY <2>2, <2>3
  <2>4. CASE Serve
    BY <2>2, <2>4, TailFacts DEF Serve
  <2>5. CASE Turn
    BY <2>1, <2>3, <2>5 DEF Turn
  <2>6. Next => Serve \/ Turn \/ UNCHANGED down
    <3> USE DEF pipes, vars
    <3>1. BrokerStep => Serve \/ UNCHANGED down
      BY DEF BrokerStep, Stage, Exchange, ExchangeFails, Validate, EndOfInput
    <3>2. ClientStep => Turn \/ UNCHANGED down
      BY DEF ClientStep, Digest, Spawn, Opened, Drained, Reaped, TimedOut, Receive, StreamEnds,
             Fail
    <3>3. CallerStep => UNCHANGED down
      BY DEF CallerStep, List, Read, Replace, Misuse, Enqueue
    <3>4. Close \/ Environment \/ Stopped => UNCHANGED down
      BY DEF Close, Environment, ChangeBinary, Die, Hang, Malformed, Fail, Stray, Write,
             Stopped
    <3> QED BY <3>1, <3>2, <3>3, <3>4 DEF Next
  <2> QED BY <2>1, <2>3, <2>4, <2>5, <2>6 DEF vars, pipes
<1> QED BY <1>1, SessionInvariant, PTL DEF Spec, SilentAfterError

-----------------------------------------------------------------------------
(* The exchange of files. *)

\* What is kept beside a target, before and after a step that neither touches
\* it nor begins or ends an exchange.
LEMMA KeptSame ==
  ASSUME UNCHANGED <<temp, serving>>,
         broker' \in {"exchanged", "exited"} <=> broker \in {"exchanged", "exited"}
  PROVE  Kept' = Kept
BY DEF Kept

\* A step that changes no file, and none of what the broker works on.
LEMMA OtherSteps ==
  ASSUME IInv,
         \/ ClientStep \/ CallerStep \/ Close \/ Stopped \/ Malformed
         \/ ChangeBinary \/ \E op \in {"list", "read", "replace"} : Stray(op)
  PROVE  file' = file /\ Kept' = Kept
<1> USE DEF files, exe, server, vars
<1>1. UNCHANGED <<file, temp, serving>> /\ (broker' = broker \/ Spawn)
  <2>1. ClientStep => UNCHANGED <<file, temp, serving>> /\ (broker' = broker \/ Spawn)
    BY DEF ClientStep, Digest, Spawn, Opened, Turn, Drained, Reaped, TimedOut, Receive,
           StreamEnds, Fail
  <2>2. CallerStep => UNCHANGED <<file, temp, serving, broker>>
    BY DEF CallerStep, List, Read, Replace, Misuse, Enqueue
  <2>3. Close \/ Stopped \/ ChangeBinary \/ Malformed =>
           UNCHANGED <<file, temp, serving, broker>>
    BY DEF Close, Stopped, ChangeBinary, Malformed, Fail
  <2>4. (\E op \in {"list", "read", "replace"} : Stray(op)) =>
           UNCHANGED <<file, temp, serving, broker>>
    BY DEF Stray
  <2> QED BY <2>1, <2>2, <2>3, <2>4
<1>2. CASE broker' = broker
  BY <1>1, <1>2, KeptSame
<1>3. CASE Spawn
  <2>1. broker = "none" /\ broker' = "ready"
    BY <1>3 DEF Spawn, IInv, ExeOK
  <2> QED BY <1>1, <2>1, KeptSame
<1> QED BY <1>1, <1>2, <1>3

\* Another program writes a file.
LEMMA WriteIsWrite ==
  ASSUME IInv, NEW f \in Files, Write(f)
  PROVE  Exchanged!Write(f) /\ Kept' = Kept
<1>1. clock' \in Num
  BY SessionAssumption DEF Write, IInv, Typed, TypedFiles, TypedClient, Num
<1>2. Kept' = Kept
  BY KeptSame DEF Write, server
<1>3. file' = [file EXCEPT ![f] = [n |-> clock', base |-> clock']]
  BY DEF Write
<1>4. Exchanged!Write(f)
  BY <1>1, <1>2, <1>3 DEF Exchanged!Write, Num
<1> QED BY <1>2, <1>4

\* The exchange of target and replacement is a swap when the version that was
\* read is in place, and a conflict otherwise.
LEMMA ExchangeIsSwap ==
  ASSUME IInv, IInv', Exchange
  PROVE  [Exchanged!Next]_(Exchanged!vars)
<1> DEFINE f == serving.file
           v == serving.new
<1>1. /\ broker = "staged" /\ broker' = "exchanged" /\ serving' = serving
      /\ temp = [file |-> f, version |-> v]
  BY DEF Exchange, IInv, BrokerOK
<1>2. f \in Files /\ v \in Version
  BY <1>1 DEF CallType, IInv, BrokerOK, Replacing
<1>3. file' = [file EXCEPT ![f] = v] /\ temp' = [temp EXCEPT !.version = file[f]]
  BY <1>1 DEF Exchange
<1>4. Kept = {}
  BY <1>1 DEF Kept
<1>5. temp' # None /\ temp'.version = file[f]
  <2>1. temp' \in Besides
    BY <1>1 DEF IInv, BrokerOK
  <2> QED BY <1>1, <1>3, <2>1, NotNone
<1>6. Kept' = IF file[f] # v /\ file[f].n # v.base THEN {file[f]} ELSE {}
  BY <1>1, <1>5 DEF Kept
<1>7. v \in Exchanged!Version
  BY <1>2 DEF Version, Num, Exchanged!Version
<1> HIDE DEF f, v
<1>8. CASE file[f].n = v.base
  <2>1. Exchanged!Swap(f)
    BY <1>3, <1>4, <1>6, <1>7, <1>8 DEF Exchanged!Swap
  <2> QED BY <1>2, <2>1 DEF Exchanged!Next
<1>9. CASE file[f].n # v.base /\ file[f] = v
  <2>1. file' = file
    BY <1>2, <1>3, <1>9 DEF IInv, Typed, TypedFiles
  <2> QED BY <1>4, <1>6, <1>9, <2>1 DEF Exchanged!vars
<1>10. CASE file[f].n # v.base /\ file[f] # v
  <2>1. Exchanged!Conflict(f)
    BY <1>3, <1>4, <1>6, <1>7, <1>10 DEF Exchanged!Conflict
  <2> QED BY <1>2, <2>1 DEF Exchanged!Next
<1> QED BY <1>8, <1>9, <1>10

\* What is beside a target when its replacement was made and not exchanged.
LEMMA StagedIsNotKept ==
  ASSUME IInv, broker = "staged" \/ broker = "checking", serving' = serving,
         temp' \in {None, temp, [file |-> serving.file, version |-> serving.new]}
  PROVE  Kept = {} /\ Kept' = {}
<1>1. temp = None \/ temp = [file |-> serving.file, version |-> serving.new]
  BY DEF IInv, BrokerOK
<1>2. Kept = {}
  BY DEF Kept
<1>3. CASE temp' = None
  BY <1>2, <1>3 DEF Kept
<1>4. CASE temp' = [file |-> serving.file, version |-> serving.new]
  <2>1. temp'.version = serving.new
    BY <1>4
  <2> QED BY <1>2, <2>1 DEF Kept
<1> QED BY <1>1, <1>3, <1>4

\* The rest of the broker's steps neither change a file nor what is kept: when
\* what was displaced bears the token of the call it is the version that its
\* author had read.
LEMMA BrokerKeepsFiles ==
  ASSUME IInv, Serve \/ Stage \/ ExchangeFails \/ Validate \/ EndOfInput \/ Die \/ Hang
  PROVE  file' = file /\ Kept' = Kept
<1> USE DEF files
<1>1. file' = file
  BY DEF Serve, Stage, ExchangeFails, Validate, EndOfInput, Die, Hang
<1>2. CASE Serve \/ EndOfInput \/ Hang
  <2>1. temp = None /\ temp' = None
    BY <1>2 DEF Serve, EndOfInput, Hang, IInv, BrokerOK
  <2> QED BY <1>1, <2>1 DEF Kept
<1>3. CASE Stage
  BY <1>1, <1>3, StagedIsNotKept DEF Stage
<1>6. CASE ExchangeFails
  BY <1>1, <1>6, StagedIsNotKept DEF ExchangeFails
<1>4. CASE Validate
  <2>1. broker = "exchanged" /\ serving' = serving
    BY <1>4 DEF Validate
  <2>2. CASE temp' = temp /\ broker' = "exited"
    BY <1>1, <2>1, <2>2, KeptSame
  <2>3. CASE temp' = None /\ \E t \in tokens : Displaced(t)
    <3>1. PICK t \in tokens : t.id = serving.token /\ t.version = temp.version
      BY <2>3 DEF Displaced
    <3>2. serving.op = "replace" /\ Made(serving)
      BY <2>1 DEF IInv, BrokerOK, LinksOK, Replacing
    <3>3. PICK u \in tokens : u.id = serving.token /\ u.version.n = serving.new.base
      BY <3>2 DEF Made
    <3>4. temp.version.n = serving.new.base
      BY <3>1, <3>3 DEF IInv, LinksOK
    <3> QED BY <1>1, <2>3, <3>4 DEF Kept
  <2> QED BY <1>4, <2>2, <2>3 DEF Validate, Refuse
<1>5. CASE Die
  <2>1. temp' = temp /\ serving' = serving /\ broker' = "exited" /\ broker # "exited"
    BY <1>5 DEF Die, server
  <2>2. CASE broker = "exchanged"
    BY <1>1, <2>1, <2>2, KeptSame
  <2>3. CASE broker = "staged"
    <3>1. temp = [file |-> serving.file, version |-> serving.new]
      BY <2>3 DEF IInv, BrokerOK
    <3>2. temp.version = serving.new
      BY <3>1
    <3> QED BY <1>1, <2>1, <3>2 DEF Kept
  <2>4. CASE broker \notin {"exchanged", "staged"}
    <3>1. temp = None
      BY <2>1, <2>4 DEF IInv, BrokerOK
    <3> QED BY <1>1, <2>1, <3>1 DEF Kept
  <2> QED BY <2>2, <2>3, <2>4
<1> QED BY <1>2, <1>3, <1>4, <1>5, <1>6

\* The session implements the exchange of files: a replacement takes the place
\* of the version that it was made from, or what it displaced is kept and no
\* other replacement follows.  (lib.rs, replace)
THEOREM SessionExchangesFiles == Spec => KeepsVersions
<1>1. Init => Exchanged!Init
  BY DEF Init, Exchanged!Init, Kept
<1>2. IInv /\ IInv' /\ [Next]_vars => [Exchanged!Next]_(Exchanged!vars)
  <2>1. SUFFICES ASSUME IInv, IInv', [Next]_vars PROVE [Exchanged!Next]_(Exchanged!vars)
    OBVIOUS
  <2>2. CASE \E f \in Files : Write(f)
    BY <2>1, <2>2, WriteIsWrite DEF Exchanged!Next
  <2>3. CASE Exchange
    BY <2>1, <2>3, ExchangeIsSwap
  <2>4. CASE Serve \/ Stage \/ ExchangeFails \/ Validate \/ EndOfInput \/ Die \/ Hang
    BY <2>1, <2>4, BrokerKeepsFiles DEF Exchanged!vars
  <2>5. CASE \/ ClientStep \/ CallerStep \/ Close \/ Stopped \/ Malformed
             \/ ChangeBinary \/ \E op \in {"list", "read", "replace"} : Stray(op)
    BY <2>1, <2>5, OtherSteps DEF Exchanged!vars
  <2>6. CASE UNCHANGED vars
    <3>1. UNCHANGED <<file, temp, broker, serving>>
      BY <2>6 DEF vars, files, server
    <3> QED BY <3>1, KeptSame DEF Exchanged!vars
  <2> QED BY <2>1, <2>2, <2>3, <2>4, <2>5, <2>6 DEF Next, BrokerStep, Environment
<1> QED BY <1>1, <1>2, SessionInvariant, PTL DEF Spec, KeepsVersions, Exchanged!Spec
=============================================================================
