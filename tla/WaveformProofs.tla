--------------------------- MODULE WaveformProofs ----------------------------
(***************************************************************************)
(* The library of the waveform generator, for every size of the memory,    *)
(* every length of the connection and all waveforms: library and           *)
(* controller keep in step over every failure, and a call that succeeds    *)
(* has done what it says.  Then the core, behind the same controller.      *)
(***************************************************************************)
EXTENDS WaveformGenerator, WaveformCore, SequenceTheorems, WellFoundedInduction, TLAPS

-----------------------------------------------------------------------------
(***************************************************************************)
(* The controller and the tokens on their way to it.  c are its registers, *)
(* d the tokens.                                                           *)
(***************************************************************************)
\* A token that the controller is waiting for, and its registers when it has taken it.
Legal(c, t) ==
  \/ t.t = "reset"
  \/ c.st = "init" /\ t.t \in Commands
  \/ c.st = "number" /\ t.t = "field"
  \/ c.st = "write" /\ t.t = "sample"

Took(c, t) ==
  CASE t.t = "reset"  -> [st |-> "init", last |-> c.last, count |-> c.count]
    [] t.t = "number" -> [st |-> "number", last |-> c.last, count |-> c.count]
    [] t.t = "write"  -> [st |-> "write", last |-> c.last, count |-> 0]
    [] t.t = "field"  -> [st |-> "init", last |-> t.v, count |-> c.count]
    [] t.t = "sample" -> IF c.count = c.last
                         THEN [st |-> "init", last |-> c.last, count |-> c.count]
                         ELSE [st |-> "write", last |-> c.last, count |-> Plus1(c.count)]
    [] OTHER          -> c

\* The registers after each token, and after the last one.
Run(c, d) ==
  LET r[i \in 0..Len(d)] == IF i = 0 THEN c ELSE Took(r[i - 1], d[i]) IN r

Final(c, d) == Run(c, d)[Len(d)]

Lawful(c, d) == \A i \in 1..Len(d) : Legal(Run(c, d)[i - 1], d[i])

LEMMA LeastNumber ==
  ASSUME NEW T, T \subseteq Nat, T # {}
  PROVE  \E x \in T : \A y \in T : x <= y
  <1>1. IsWellFoundedOn(OpToRel(<, Nat), Nat)
    BY NatLessThanWellFounded
  <1>2. PICK x \in T : \A y \in T : ~ (<<y, x>> \in OpToRel(<, Nat))
    BY <1>1, WFMin
  <1>3. \A y \in T : ~(y < x)
    BY <1>2 DEF OpToRel
  <1> QED BY <1>3

IsRun(r, c, d, n) == r = [i \in 0..n |-> IF i = 0 THEN c ELSE Took(r[i - 1], d[i])]

\* The registers after the first n tokens, for every n: a number for which there are
\* none would have a least one, and one token more is one step more.
LEMMA RunExists ==
  ASSUME NEW c, NEW d, NEW n \in Nat
  PROVE  \E r : IsRun(r, c, d, n)
  <1> DEFINE T == {k \in Nat : ~ \E r : IsRun(r, c, d, k)}
  <1>1. T = {}
    <2> SUFFICES ASSUME T # {} PROVE FALSE
      OBVIOUS
    <2>1. PICK k \in T : \A j \in T : k <= j
      <3>1. T \subseteq Nat
        OBVIOUS
      <3> HIDE DEF T
      <3> QED BY <3>1, LeastNumber
    <2>2. k \in Nat /\ ~ \E r : IsRun(r, c, d, k)
      OBVIOUS
    <2>3. k # 0
      <3>1. IsRun([i \in 0..0 |-> c], c, d, 0)
        BY DEF IsRun
      <3> QED BY <2>2, <3>1
    <2>4. PICK r : IsRun(r, c, d, k - 1)
      BY <2>1, <2>2, <2>3
    <2> DEFINE s == [i \in 0..k |-> IF i = k THEN Took(r[k - 1], d[k]) ELSE r[i]]
    <2>5. \A i \in 0..k : s[i] = IF i = 0 THEN c ELSE Took(s[i - 1], d[i])
      <3> SUFFICES ASSUME NEW i \in 0..k PROVE s[i] = IF i = 0 THEN c ELSE Took(s[i - 1], d[i])
        OBVIOUS
      <3>1. CASE i = k
        BY <3>1, <2>2, <2>3
      <3>2. CASE i # k
        <4>1. i \in 0..k - 1 /\ s[i] = r[i] /\ (i # 0 => s[i - 1] = r[i - 1])
          BY <3>2, <2>2, <2>3
        <4> QED BY <4>1, <2>4 DEF IsRun
      <3> QED BY <3>1, <3>2
    <2>6. IsRun(s, c, d, k)
      BY <2>5 DEF IsRun
    <2> QED BY <2>2, <2>6
  <1> QED BY <1>1

\* There is one such run only, so Run is one.
LEMMA RunValue ==
  ASSUME NEW c, NEW d, Len(d) \in Nat
  PROVE  /\ DOMAIN Run(c, d) = 0..Len(d)
         /\ Run(c, d)[0] = c
         /\ \A i \in 1..Len(d) : Run(c, d)[i] = Took(Run(c, d)[i - 1], d[i])
  <1> DEFINE r == Run(c, d)
  <1>1. r = CHOOSE s : IsRun(s, c, d, Len(d))
    BY DEF Run, IsRun
  <1>2. IsRun(r, c, d, Len(d))
    BY <1>1, RunExists
  <1> HIDE DEF r
  <1>3. DOMAIN r = 0..Len(d) /\ r[0] = c /\ \A i \in 1..Len(d) : r[i] = Took(r[i - 1], d[i])
    BY <1>2 DEF IsRun
  <1> QED BY <1>3 DEF r

LEMMA RunUnique ==
  ASSUME NEW c, NEW d, Len(d) \in Nat, NEW r, r[0] = c,
         \A i \in 1..Len(d) : r[i] = Took(r[i - 1], d[i])
  PROVE  \A i \in 0..Len(d) : Run(c, d)[i] = r[i]
  <1> DEFINE T == {i \in 0..Len(d) : Run(c, d)[i] # r[i]}
  <1>1. T = {}
    <2> SUFFICES ASSUME T # {} PROVE FALSE
      OBVIOUS
    <2>1. PICK k \in T : \A j \in T : k <= j
      <3>1. T \subseteq Nat
        OBVIOUS
      <3> HIDE DEF T
      <3> QED BY <3>1, LeastNumber
    <2>2. k \in 0..Len(d) /\ Run(c, d)[k] # r[k]
      BY <2>1
    <2>3. k # 0
      BY <2>2, RunValue
    <2>4. k - 1 \in 0..Len(d) /\ Run(c, d)[k - 1] = r[k - 1]
      BY <2>1, <2>2, <2>3
    <2>5. Run(c, d)[k] = Took(Run(c, d)[k - 1], d[k])
      BY <2>2, <2>3, RunValue
    <2> QED BY <2>2, <2>3, <2>4, <2>5
  <1> QED BY <1>1

LEMMA NothingToTake ==
  ASSUME NEW c
  PROVE  Final(c, <<>>) = c /\ Lawful(c, <<>>)
  <1>1. Len(<<>>) = 0
    OBVIOUS
  <1> QED BY <1>1, RunValue DEF Final, Lawful

\* One more token is sent.
LEMMA TakesAppended ==
  ASSUME NEW c, NEW S, NEW d \in Seq(S), NEW t \in S
  PROVE  /\ Final(c, Append(d, t)) = Took(Final(c, d), t)
         /\ Lawful(c, d) /\ Legal(Final(c, d), t) => Lawful(c, Append(d, t))
  <1> DEFINE e == Append(d, t)
             n == Len(d)
             r == Run(c, e)
  <1>1. n \in Nat /\ Len(e) = n + 1 /\ e[n + 1] = t /\ \A i \in 1..n : e[i] = d[i]
    BY AppendProperties, LenProperties
  <1> HIDE DEF e, n
  <1>2. r[0] = c /\ \A i \in 1..n + 1 : r[i] = Took(r[i - 1], e[i])
    <2>1. Len(e) \in Nat
      BY <1>1
    <2>2. r[0] = c /\ \A i \in 1..Len(e) : r[i] = Took(r[i - 1], e[i])
      BY <2>1, RunValue
    <2> QED BY <1>1, <2>2
  <1> USE DEF n
  <1> HIDE DEF e, r
  <1>3. \A i \in 1..n : r[i] = Took(r[i - 1], d[i])
    BY <1>1, <1>2
  <1>4. \A i \in 0..n : Run(c, d)[i] = r[i]
    BY <1>1, <1>2, <1>3, RunUnique
  <1>5. Final(c, d) = r[n]
    BY <1>1, <1>4 DEF Final
  <1>6. r[n + 1] = Took(r[n], t)
    BY <1>1, <1>2
  <1>7. Final(c, e) = Took(Final(c, d), t)
    BY <1>1, <1>5, <1>6 DEF Final, r
  <1>8. ASSUME Lawful(c, d), Legal(Final(c, d), t), NEW i \in 1..n + 1
        PROVE  Legal(r[i - 1], e[i])
    <2>1. CASE i = n + 1
      BY <2>1, <1>1, <1>5, <1>8
    <2>2. CASE i \in 1..n
      <3>1. i - 1 \in 0..n
        BY <2>2, <1>1
      <3> QED BY <2>2, <3>1, <1>1, <1>4, <1>8 DEF Lawful
    <2> QED BY <2>1, <2>2, <1>1
  <1>9. Lawful(c, d) /\ Legal(Final(c, d), t) => Lawful(c, e)
    BY <1>1, <1>8 DEF Lawful, r
  <1> QED BY <1>7, <1>9 DEF e

\* The core takes the first token.
LEMMA TakesFirst ==
  ASSUME NEW c, NEW S, NEW d \in Seq(S), d # <<>>
  PROVE  /\ Final(c, d) = Final(Took(c, Head(d)), Tail(d))
         /\ Lawful(c, d) => Legal(c, Head(d)) /\ Lawful(Took(c, Head(d)), Tail(d))
         /\ \A b : Took(b, Head(d)) = Took(c, Head(d)) =>
              /\ Final(b, d) = Final(c, d)
              /\ Legal(b, Head(d)) /\ Lawful(c, d) => Lawful(b, d)
  <1> DEFINE e == Tail(d)
             n == Len(d)
  <1>1. n \in Nat /\ n > 0 /\ Len(e) = n - 1 /\ Head(d) = d[1]
        /\ \A i \in 1..n - 1 : e[i] = d[i + 1]
    BY HeadTailProperties, EmptySeq, LenProperties
  <1> HIDE DEF e
  <1>2. ASSUME NEW b
        PROVE  \A i \in 0..n - 1 : Run(b, d)[i + 1] = Run(Took(b, Head(d)), e)[i]
    <2> DEFINE r == Run(b, d)
               s == [i \in 0..n - 1 |-> r[i + 1]]
    <2>1. r[0] = b /\ \A i \in 1..n : r[i] = Took(r[i - 1], d[i])
      BY <1>1, RunValue
    <2> HIDE DEF r
    <2>2. s[0] = Took(b, Head(d))
      <3>1. 1 \in 1..n /\ 0 \in 0..n - 1
        BY <1>1
      <3> QED BY <1>1, <2>1, <3>1
    <2>3. ASSUME NEW i \in 1..n - 1 PROVE s[i] = Took(s[i - 1], e[i])
      <3>1. i + 1 \in 1..n /\ i \in 0..n - 1 /\ i - 1 \in 0..n - 1 /\ (i + 1) - 1 = i /\ (i - 1) + 1 = i
        BY <1>1
      <3> QED BY <3>1, <2>1, <1>1
    <2>4. \A i \in 0..n - 1 : s[i] = r[i + 1]
      OBVIOUS
    <2> HIDE DEF s
    <2>5. \A i \in 0..Len(e) : Run(Took(b, Head(d)), e)[i] = s[i]
      BY <1>1, <2>2, <2>3, RunUnique
    <2> QED BY <1>1, <2>4, <2>5 DEF r
  <1>3. \A b : Final(b, d) = Final(Took(b, Head(d)), e)
    <2> TAKE b
    <2>1. n - 1 \in 0..n - 1 /\ (n - 1) + 1 = n
      BY <1>1
    <2> QED BY <1>1, <1>2, <2>1 DEF Final
  <1>4. ASSUME Lawful(c, d)
        PROVE  Legal(c, Head(d)) /\ Lawful(Took(c, Head(d)), e)
    <2>1. \A i \in 1..n : Legal(Run(c, d)[i - 1], d[i])
      BY <1>4 DEF Lawful
    <2>2. Legal(Run(c, d)[0], d[1]) /\ Run(c, d)[0] = c
      BY <1>1, <2>1, RunValue
    <2>3. ASSUME NEW i \in 1..n - 1
          PROVE  Legal(Run(Took(c, Head(d)), e)[i - 1], e[i])
      <3>1. i + 1 \in 1..n /\ i - 1 \in 0..n - 1 /\ (i + 1) - 1 = i /\ (i - 1) + 1 = i
        BY <1>1
      <3>2. Run(Took(c, Head(d)), e)[i - 1] = Run(c, d)[i]
        BY <1>2, <3>1
      <3> QED BY <1>1, <2>1, <3>1, <3>2
    <2> QED BY <1>1, <2>2, <2>3 DEF Lawful
  <1>5. ASSUME NEW b, Took(b, Head(d)) = Took(c, Head(d)), Legal(b, Head(d)), Lawful(c, d)
        PROVE  Lawful(b, d)
    <2>1. \A i \in 1..n : Legal(Run(c, d)[i - 1], d[i])
      BY <1>5 DEF Lawful
    <2>2. ASSUME NEW i \in 1..n PROVE Legal(Run(b, d)[i - 1], d[i])
      <3>1. CASE i = 1
        BY <1>1, <1>5, <3>1, RunValue
      <3>2. CASE i # 1
        <4>1. i - 2 \in 0..n - 1 /\ (i - 2) + 1 = i - 1
          BY <1>1, <3>2
        <4>2. Run(b, d)[i - 1] = Run(c, d)[i - 1]
          BY <1>2, <1>5, <4>1
        <4> QED BY <2>1, <4>2
      <3> QED BY <3>1, <3>2
    <2> QED BY <2>2 DEF Lawful
  <1> QED BY <1>3, <1>4, <1>5 DEF e

\* Tokens at the end are dropped: what is left is lawful.
LEMMA Dropped ==
  ASSUME NEW c, NEW S, NEW d \in Seq(S), NEW e \in Prefixes(d)
  PROVE  /\ e \in Seq(S)
         /\ d = <<>> => e = <<>>
         /\ Lawful(c, d) => Lawful(c, e)
  <1>1. PICK l \in 0..Len(d) : e = SubSeq(d, 1, l)
    BY DEF Prefixes
  <1> DEFINE n == Len(d)
  <1>2. n \in Nat /\ l \in Nat /\ l <= n
    BY LenProperties
  <1>3. e \in Seq(S) /\ Len(e) = l /\ \A i \in 1..l : e[i] = d[i]
    BY <1>1, <1>2, SubSeqProperties, LenProperties
  <1>4. \A i \in 0..l : Run(c, e)[i] = Run(c, d)[i]
    <2> DEFINE r == Run(c, d)
    <2>1. r[0] = c /\ \A i \in 1..n : r[i] = Took(r[i - 1], d[i])
      BY <1>2, RunValue
    <2> HIDE DEF r
    <2>2. \A i \in 1..l : r[i] = Took(r[i - 1], e[i])
      BY <2>1, <1>2, <1>3
    <2>3. \A i \in 0..Len(e) : Run(c, e)[i] = r[i]
      <3>1. Len(e) \in Nat /\ \A i \in 1..Len(e) : r[i] = Took(r[i - 1], e[i])
        BY <1>2, <1>3, <2>2
      <3> QED BY <2>1, <3>1, RunUnique
    <2> QED BY <1>3, <2>3 DEF r
  <1>5. Lawful(c, d) => Lawful(c, e)
    BY <1>2, <1>3, <1>4 DEF Lawful
  <1>6. d = <<>> => e = <<>>
    BY <1>2, <1>3, EmptySeq
  <1> QED BY <1>3, <1>5, <1>6

-----------------------------------------------------------------------------
(***************************************************************************)
(* The invariant.                                                          *)
(***************************************************************************)
CallNames == ControlCommands \cup {"status", "write", "open", "close"}
DownTokens == [t : Bytes \cup {"none", "reset"}, v : Addr]
UpTokens == [t : {"sizes", "status", "progress", "done"}, v : {0}]
CallSteps == [do : {"send", "receive"}, tok : DownTokens, n : 0..1,
              as : {"nothing", "sizes", "status", "progress"}]

TypeOK ==
  /\ open \in BOOLEAN /\ gone \in BOOLEAN
  /\ call \in CallNames \cup {"none"}
  /\ todo \in Seq(CallSteps) /\ down \in Seq(DownTokens) /\ up \in Seq(UpTokens)
  /\ ctl = [st |-> ctl.st, last |-> ctl.last, count |-> ctl.count]

Connections == (call # "none" => open) /\ (call = "none" => todo = <<>>) /\ (~open => up = <<>>)

\* The question a call ends with, and its steps, counted from the last one; n is
\* the number of samples of a write.
Question == IF call = "open" THEN "sizes" ELSE "status"

Longest(n) == IF call = "write" THEN n + 4 ELSE 3

StepAt(n, k) ==
  IF call = "write"
  THEN CASE k = 1     -> Receive(1, "progress")
         [] k = n + 2 -> Send("write", 0)
         [] k = n + 3 -> Send("field", n - 1)
         [] k = n + 4 -> Send("number", 0)
         [] OTHER     -> Send("sample", 0)
  ELSE CASE k = 1     -> Receive(1, Question)
         [] k = 2     -> Send(Question, 0)
         [] OTHER     -> Send(IF call = "open" THEN "reset" ELSE call, 0)

StepsAre(n) ==
  /\ Len(todo) <= Longest(n)
  /\ \A i \in 1..Len(todo) : todo[i] = StepAt(n, Len(todo) + 1 - i)
  /\ Len(todo) = 3 /\ call # "write" => call \in ControlCommands \cup {"open"}

Live == open /\ ~gone

\* All that was sent has arrived.
Arrived == down = <<>> /\ ctl.st = "init"

\* In a connection that holds: the controller when it has taken what is on its way,
\* the tokens on their way, and what has arrived with the answer.
Ready(n, f, k) ==
  IF call = "write"
  THEN /\ k = n + 3 => f.st = "number"
       /\ k \in {1, n + 2, n + 4} => f.st = "init"
       /\ k = n + 2 => f.last = n - 1
       /\ k \in 2..n + 1 => f.st = "write" /\ f.last = n - 1 /\ f.count = n + 1 - k
  ELSE (k = 3 /\ call = "open") \/ f.st = "init"

WillBe(n) == Ready(n, Final(ctl, down), Len(todo))

OnTheirWay(n) ==
  \A i \in DOMAIN down :
    /\ down[i].t = "sample" => call = "write" /\ Len(todo) <= n + 1
    /\ down[i].t \in {"sizes", "status"} =>
         call # "write" /\ down[i].t = Question /\ Len(todo) = 1 /\ i = Len(down)
    /\ call = "write" => \A j \in DOMAIN down : down[i].t = "sample" /\ i <= j => down[j].t = "sample"

Answered ==
  /\ up # <<>> => call = "write" \/ (Len(todo) = 1 /\ Arrived)
  /\ \A i \in DOMAIN up :
       /\ up[i].t = "progress" => call = "write"
       /\ up[i].t = "done" => Arrived /\ stored = writes
  /\ todo = <<>> => up = <<>> /\ Arrived /\ (call = "write" => stored = writes)
  /\ Len(todo) = 3 /\ call = "open" => down = <<>>

Progress ==
  /\ call = "none" /\ Live => Arrived /\ up = <<>>
  /\ call # "none" => \E n \in 1..Depth :
       StepsAre(n) /\ (Live => WillBe(n) /\ OnTheirWay(n) /\ Answered)

\* In every connection: an answer other than a sign of life is the last that is on its
\* way, and the call in progress waits for it.
UpRight ==
  \A i \in DOMAIN up : up[i].t # "progress" =>
    /\ i = Len(up) /\ call # "none" /\ Len(todo) = 1
    /\ up[i].t = IF call = "write" THEN "done" ELSE Question
    /\ call # "write" => i = 1

IInv == TypeOK /\ Connections /\ Lawful(ctl, down) /\ Progress /\ UpRight

-----------------------------------------------------------------------------
(***************************************************************************)
(* The steps of the calls.                                                 *)
(***************************************************************************)
LEMMA DepthAndAddr == Depth \in Nat /\ Depth >= 2 /\ Addr = 0..Depth - 1 /\ 0 \in Addr
  BY WaveformControllerAssumption DEF Addr

LEMMA StepTypes ==
  /\ \A t \in Bytes \cup {"reset"}, v \in Addr : Send(t, v) \in CallSteps
  /\ \A a \in {"sizes", "status", "progress"} : Receive(1, a) \in CallSteps
  BY DepthAndAddr DEF Send, Receive, Token, CallSteps, DownTokens

LEMMA WriteSteps ==
  ASSUME NEW n \in 1..Depth
  PROVE  LET w == WriteSamples(n)
         IN  /\ w \in Seq(CallSteps) /\ Len(w) = n + 4
             /\ w[1] = Send("number", 0) /\ w[2] = Send("field", n - 1) /\ w[3] = Send("write", 0)
             /\ \A i \in 4..n + 3 : w[i] = Send("sample", 0)
             /\ w[n + 4] = Receive(1, "progress")
  <1> DEFINE a == <<Send("number", 0), Send("field", n - 1), Send("write", 0)>>
             b == [i \in 1..n |-> Send("sample", 0)]
             c == <<Receive(1, "progress")>>
  <1>1. n \in Nat /\ n - 1 \in Addr
    BY DepthAndAddr
  <1>2. /\ Send("number", 0) \in CallSteps /\ Send("field", n - 1) \in CallSteps
        /\ Send("write", 0) \in CallSteps /\ Send("sample", 0) \in CallSteps
        /\ Receive(1, "progress") \in CallSteps
    BY <1>1, StepTypes, DepthAndAddr DEF Bytes, Commands
  <1>3. a \in Seq(CallSteps) /\ Len(a) = 3
        /\ a[1] = Send("number", 0) /\ a[2] = Send("field", n - 1) /\ a[3] = Send("write", 0)
    BY <1>2
  <1>4. b \in Seq(CallSteps) /\ Len(b) = n /\ \A i \in 1..n : b[i] = Send("sample", 0)
    <2>1. b \in [1..n -> CallSteps]
      BY <1>2
    <2> QED BY <1>1, <2>1
  <1>5. c \in Seq(CallSteps) /\ Len(c) = 1 /\ c[1] = Receive(1, "progress")
    BY <1>2
  <1>6. WriteSamples(n) = (a \o b) \o c
    BY DEF WriteSamples
  <1> HIDE DEF a, b, c
  <1> DEFINE d == a \o b
  <1>7. d \in Seq(CallSteps) /\ Len(d) = 3 + n
        /\ \A i \in 1..3 + n : d[i] = IF i <= 3 THEN a[i] ELSE b[i - 3]
    <2>1. d \in Seq(CallSteps) /\ Len(d) = Len(a) + Len(b)
          /\ \A i \in 1..Len(a) + Len(b) : d[i] = IF i <= Len(a) THEN a[i] ELSE b[i - Len(a)]
      BY <1>3, <1>4, ConcatProperties
    <2> HIDE DEF d
    <2> QED BY <1>3, <1>4, <2>1
  <1> HIDE DEF d
  <1> DEFINE e == d \o c
  <1>8. e \in Seq(CallSteps) /\ Len(e) = n + 4
        /\ \A i \in 1..n + 4 : e[i] = IF i <= 3 + n THEN d[i] ELSE c[i - (3 + n)]
    <2>1. e \in Seq(CallSteps) /\ Len(e) = Len(d) + Len(c)
          /\ \A i \in 1..Len(d) + Len(c) : e[i] = IF i <= Len(d) THEN d[i] ELSE c[i - Len(d)]
      BY <1>5, <1>7, ConcatProperties
    <2>2. (3 + n) + 1 = n + 4
      BY <1>1
    <2> HIDE DEF e
    <2> QED BY <1>5, <1>7, <2>1, <2>2
  <1> HIDE DEF e
  <1>9. \A i \in 1..3 + n : e[i] = IF i <= 3 THEN a[i] ELSE b[i - 3]
    <2> TAKE i \in 1..3 + n
    <2>1. i \in 1..n + 4 /\ i <= 3 + n
      BY <1>1
    <2> QED BY <1>7, <1>8, <2>1
  <1>10. \A i \in 4..n + 3 : e[i] = Send("sample", 0)
    <2> TAKE i \in 4..n + 3
    <2>1. i \in 1..3 + n /\ ~(i <= 3) /\ i - 3 \in 1..n
      BY <1>1
    <2> QED BY <1>4, <1>9, <2>1
  <1>11. e[1] = a[1] /\ e[2] = a[2] /\ e[3] = a[3]
    <2>1. 1 \in 1..3 + n /\ 2 \in 1..3 + n /\ 3 \in 1..3 + n
      BY <1>1
    <2> QED BY <1>9, <2>1
  <1>12. e[n + 4] = c[1]
    <2>1. n + 4 \in 1..n + 4 /\ ~(n + 4 <= 3 + n) /\ n + 4 - (3 + n) = 1
      BY <1>1
    <2> QED BY <1>8, <2>1
  <1> QED BY <1>3, <1>5, <1>6, <1>8, <1>10, <1>11, <1>12 DEF d, e

\* The first of the steps that are left, the last, and what is left after the first.
LEMMA StepsLeft ==
  ASSUME TypeOK, NEW n \in 1..Depth, StepsAre(n), todo # <<>>
  PROVE  /\ Len(todo) \in Nat \ {0} /\ Len(todo) <= Longest(n)
         /\ Head(todo) = StepAt(n, Len(todo)) /\ Last(todo) = StepAt(n, 1)
         /\ Head(todo) \in CallSteps
         /\ Tail(todo) \in Seq(CallSteps) /\ Len(Tail(todo)) = Len(todo) - 1
         /\ \A i \in 1..Len(todo) - 1 : Tail(todo)[i] = StepAt(n, (Len(todo) - 1) + 1 - i)
         /\ Head(todo).do = "receive" <=> Len(todo) = 1
         /\ Head(todo).do = "send" <=> Len(todo) # 1
         /\ Tail(todo) = <<>> <=> Len(todo) = 1
  <1> DEFINE k == Len(todo)
  <1>1. todo \in Seq(CallSteps)
    BY DEF TypeOK
  <1>2. k \in Nat /\ k # 0 /\ Head(todo) = todo[1] /\ Tail(todo) \in Seq(CallSteps)
        /\ Len(Tail(todo)) = k - 1 /\ (\A i \in 1..k - 1 : Tail(todo)[i] = todo[i + 1])
        /\ (\A i \in 1..k : todo[i] \in CallSteps) /\ Last(todo) = todo[k]
    BY <1>1, HeadTailProperties, EmptySeq, LenProperties, ElementOfSeq DEF Last
  <1>3. k <= Longest(n) /\ \A i \in 1..k : todo[i] = StepAt(n, k + 1 - i)
    BY DEF StepsAre
  <1>4. Tail(todo) = <<>> <=> Len(Tail(todo)) = 0
    BY <1>2, EmptySeq
  <1> HIDE DEF k
  <1>5. todo[1] = StepAt(n, k) /\ todo[k] = StepAt(n, 1)
    <2>1. 1 \in 1..k /\ k \in 1..k /\ k + 1 - 1 = k /\ k + 1 - k = 1
      BY <1>2
    <2> QED BY <1>3, <2>1
  <1>6. \A i \in 1..k - 1 : Tail(todo)[i] = StepAt(n, (k - 1) + 1 - i)
    <2> TAKE i \in 1..k - 1
    <2>1. i + 1 \in 1..k /\ k + 1 - (i + 1) = (k - 1) + 1 - i
      BY <1>2
    <2> QED BY <1>2, <1>3, <2>1
  <1>7. n \in Nat /\ n >= 1
    BY DepthAndAddr
  <1>8. StepAt(n, k).do = IF k = 1 THEN "receive" ELSE "send"
    BY <1>2, <1>7 DEF StepAt, Send, Receive
  <1> QED BY <1>2, <1>3, <1>4, <1>5, <1>6, <1>8 DEF k

\* A call goes on with what is left after its first step.
LEMMA StepDone ==
  ASSUME TypeOK, NEW n \in 1..Depth, StepsAre(n), todo # <<>>, todo' = Tail(todo), call' = call
  PROVE  StepsAre(n)' /\ Len(todo') = Len(todo) - 1 /\ todo' \in Seq(CallSteps)
  <1> DEFINE k == Len(todo)
             l == Len(todo')
  <1>2. l = k - 1 /\ todo' \in Seq(CallSteps) /\ k \in Nat \ {0} /\ k <= Longest(n)
        /\ \A i \in 1..k - 1 : todo'[i] = StepAt(n, (k - 1) + 1 - i)
    BY StepsLeft
  <1>3. Longest(n)' = Longest(n) /\ Longest(n) \in Nat /\ (call # "write" => Longest(n) = 3)
    BY DepthAndAddr DEF Longest
  <1> HIDE DEF k, l
  <1>4. \A i \in 1..l : todo'[i] = StepAt(n, l + 1 - i)
    BY <1>2
  <1>5. l <= Longest(n)' /\ ~(l = 3 /\ call' # "write")
    BY <1>2, <1>3
  <1>6. StepsAre(n)'
    BY <1>4, <1>5 DEF StepsAre, StepAt, Question, l
  <1> QED BY <1>2, <1>6 DEF k, l

LEMMA InitIInv == Init => IInv
  <1> SUFFICES ASSUME Init PROVE IInv
    OBVIOUS
  <1>1. TypeOK
    <2>1. <<>> \in Seq(CallSteps) /\ <<>> \in Seq(DownTokens) /\ <<>> \in Seq(UpTokens)
      BY EmptySeq
    <2> QED BY <2>1 DEF TypeOK, Init, LinkInit, ControllerInit
  <1>2. Lawful(ctl, down)
    BY NothingToTake DEF Init, LinkInit
  <1>3. Connections /\ Progress /\ UpRight
    BY DEF Connections, Progress, UpRight, Live, Init, LinkInit
  <1> QED BY <1>1, <1>2, <1>3 DEF IInv

\* The variables that matter here.
stepVars == <<open, gone, call, todo, down, up, controllerVars>>

LEMMA Unmoved == ASSUME IInv, UNCHANGED stepVars PROVE IInv'
  <1>1. TypeOK' /\ Connections' /\ Lawful(ctl, down)' /\ UpRight'
    BY DEF IInv, TypeOK, Connections, UpRight, Question, stepVars, controllerVars
  <1>2. Progress'
    BY DEF IInv, Progress, Live, StepsAre, StepAt, Question, Longest, WillBe, Ready, OnTheirWay, Answered,
           Arrived, stepVars, controllerVars
  <1> QED BY <1>1, <1>2 DEF IInv

-----------------------------------------------------------------------------
(***************************************************************************)
(* The calls begin and end.                                                *)
(***************************************************************************)
LEMMA Begins ==
  ASSUME IInv, call = "none", open, NEW n \in 1..Depth,
         call' \in CallNames \ {"open"}, todo' \in Seq(CallSteps), StepsAre(n)', todo' # <<>>,
         call' = "write" => Len(todo') = n + 4,
         UNCHANGED <<open, gone, down, up, controllerVars>>
  PROVE  IInv'
  <1>1. TypeOK' /\ Connections' /\ Lawful(ctl, down)'
    <2>1. call' # "none"
      BY DEF CallNames, ControlCommands
    <2>2. TypeOK'
      BY DEF IInv, TypeOK, controllerVars
    <2> QED BY <2>1, <2>2 DEF IInv, Connections, controllerVars
  <1>2. UpRight'
    BY DEF IInv, UpRight
  <1>3. Live' => down' = <<>> /\ up' = <<>> /\ ctl'.st = "init"
    BY DEF IInv, Progress, Live, Arrived, controllerVars
  <1>4. ASSUME Live' PROVE WillBe(n)' /\ OnTheirWay(n)' /\ Answered'
    <2>1. Final(ctl', down').st = "init"
      BY <1>3, <1>4, NothingToTake
    <2>2. call' = "write" => ~(Len(todo') = n + 3) /\ ~(Len(todo') = n + 2) /\ Len(todo') \notin 2..n + 1
      <3>1. n \in Nat
        BY DepthAndAddr
      <3> QED BY <3>1
    <2>3. WillBe(n)'
      BY <2>1, <2>2 DEF WillBe, Ready
    <2>4. OnTheirWay(n)'
      BY <1>3, <1>4 DEF OnTheirWay
    <2>5. Answered'
      BY <1>3, <1>4 DEF Answered
    <2> QED BY <2>3, <2>4, <2>5
  <1>5. Progress'
    <2>1. call' # "none"
      BY DEF CallNames, ControlCommands
    <2> QED BY <1>4, <2>1 DEF Progress
  <1> QED BY <1>1, <1>2, <1>5 DEF IInv

LEMMA Join12 ==
  ASSUME NEW a, NEW b, NEW c
  PROVE  <<a>> \o <<b, c>> = <<a, b, c>>
  <1> DEFINE S == {a, b, c}
             l == <<a>> \o <<b, c>>
             r == <<a, b, c>>
  <1>1. l \in Seq(S) /\ Len(l) = 3 /\ l[1] = a /\ l[2] = b /\ l[3] = c
    BY ConcatProperties, <<a>> \in Seq(S), <<b, c>> \in Seq(S)
  <1>2. r \in Seq(S) /\ Len(r) = 3 /\ r[1] = a /\ r[2] = b /\ r[3] = c
    OBVIOUS
  <1> HIDE DEF l, r, S
  <1>3. l = r
    BY <1>1, <1>2, SeqEqual
  <1> QED BY <1>3 DEF l, r

\* A question, alone or behind a command.
LEMMA Asks ==
  ASSUME call' \in ControlCommands \cup {"status", "open", "close"},
         NEW q, q = (IF call' = "open" THEN "sizes" ELSE "status"),
         NEW c, c = (IF call' = "open" THEN "reset" ELSE call'),
         \/ todo' = <<Send(q, 0), Receive(1, q)>>
         \/ call' \in ControlCommands \cup {"open"} /\ todo' = <<Send(c, 0), Send(q, 0), Receive(1, q)>>
  PROVE  StepsAre(1)' /\ todo' \in Seq(CallSteps) /\ todo' # <<>> /\ call' # "write"
         /\ 1 \in 1..Depth
  <1>1. Send(q, 0) \in CallSteps /\ Receive(1, q) \in CallSteps
        /\ (call' \in ControlCommands \cup {"open"} => Send(c, 0) \in CallSteps)
    BY StepTypes, DepthAndAddr DEF Bytes, Commands, ControlCommands
  <1>2. call' # "write" /\ 1 \in 1..Depth
    BY DepthAndAddr DEF ControlCommands
  <1>3. CASE todo' = <<Send(q, 0), Receive(1, q)>>
    <2>1. Len(todo') = 2 /\ todo'[1] = Send(q, 0) /\ todo'[2] = Receive(1, q)
          /\ todo' \in Seq(CallSteps) /\ todo' # <<>>
      BY <1>1, <1>3
    <2>2. StepsAre(1)'
      BY <1>2, <2>1 DEF StepsAre, StepAt, Question, Longest
    <2> QED BY <1>2, <2>1, <2>2
  <1>4. CASE call' \in ControlCommands \cup {"open"} /\ todo' = <<Send(c, 0), Send(q, 0), Receive(1, q)>>
    <2>1. Len(todo') = 3 /\ todo'[1] = Send(c, 0) /\ todo'[2] = Send(q, 0) /\ todo'[3] = Receive(1, q)
          /\ todo' \in Seq(CallSteps) /\ todo' # <<>>
      BY <1>1, <1>4
    <2>2. StepsAre(1)'
      BY <1>2, <1>4, <2>1 DEF StepsAre, StepAt, Question, Longest
    <2> QED BY <1>2, <2>1, <2>2
  <1> QED BY <1>3, <1>4

LEMMA Refused == ASSUME IInv, Refuse, UNCHANGED controllerVars PROVE IInv'
  BY Unmoved DEF Refuse, stepVars

LEMMA CallKeeps ==
  ASSUME IInv, ControlCall \/ GetStatus \/ Write \/ WriteRefused \/ WriteThrows \/ Getter \/ SetTimeout
  PROVE  IInv'
  <1>1. CASE ControlCall
    <2>1. PICK c \in ControlCommands : CallOf(c, <<Send(c, 0)>> \o ReadStatus)
      BY <1>1 DEF ControlCall
    <2>2. CASE ~open
      BY <2>1, <2>2, Refused DEF CallOf
    <2>3. CASE open
      <3>1. <<Send(c, 0)>> \o ReadStatus = <<Send(c, 0), Send("status", 0), Receive(1, "status")>>
        BY Join12 DEF ReadStatus
      <3>2. call = "none" /\ call' = c /\ UNCHANGED <<open, gone, down, up, controllerVars>>
            /\ todo' = <<Send(c, 0), Send("status", 0), Receive(1, "status")>>
        BY <2>1, <2>3, <3>1 DEF CallOf, Begin
      <3>3. call' \in CallNames \ {"open"} /\ call' # "open"
        BY <3>2 DEF CallNames, ControlCommands
      <3>4. StepsAre(1)' /\ todo' \in Seq(CallSteps) /\ todo' # <<>> /\ call' # "write" /\ 1 \in 1..Depth
        BY <3>2, <3>3, Asks
      <3> QED BY <2>3, <3>2, <3>3, <3>4, Begins
    <2> QED BY <2>2, <2>3
  <1>2. CASE GetStatus
    <2>2. CASE ~open
      BY <1>2, <2>2, Refused DEF GetStatus, CallOf
    <2>3. CASE open
      <3>2. call = "none" /\ call' = "status" /\ UNCHANGED <<open, gone, down, up, controllerVars>>
            /\ todo' = <<Send("status", 0), Receive(1, "status")>>
        BY <1>2, <2>3 DEF CallOf, Begin, GetStatus, ReadStatus
      <3>4. StepsAre(1)' /\ todo' \in Seq(CallSteps) /\ todo' # <<>> /\ call' # "write" /\ 1 \in 1..Depth
        BY <3>2, Asks
      <3>5. call' \in CallNames \ {"open"}
        BY <3>2 DEF CallNames
      <3> QED BY <2>3, <3>2, <3>4, <3>5, Begins
    <2> QED BY <2>2, <2>3
  <1>3. CASE Write
    <2>1. PICK n \in Counts : CallOf("write", WriteSamples(n))
      BY <1>3 DEF Write
    <2>2. CASE ~open
      BY <2>1, <2>2, Refused DEF CallOf
    <2>3. CASE open
      <3>1. n \in 1..Depth /\ n \in Nat /\ n >= 1
        BY DepthAndAddr, WaveformGeneratorAssumption
      <3>2. call = "none" /\ call' = "write" /\ UNCHANGED <<open, gone, down, up, controllerVars>>
            /\ todo' = WriteSamples(n)
        BY <2>1, <2>3 DEF CallOf, Begin
      <3>3. /\ todo' \in Seq(CallSteps) /\ Len(todo') = n + 4
            /\ todo'[1] = Send("number", 0) /\ todo'[2] = Send("field", n - 1) /\ todo'[3] = Send("write", 0)
            /\ \A i \in 4..n + 3 : todo'[i] = Send("sample", 0)
            /\ todo'[n + 4] = Receive(1, "progress")
        BY <3>1, <3>2, WriteSteps
      <3>4. ASSUME NEW i \in 1..n + 4
            PROVE  todo'[i] = CASE n + 4 + 1 - i = 1     -> Receive(1, "progress")
                                [] n + 4 + 1 - i = n + 2 -> Send("write", 0)
                                [] n + 4 + 1 - i = n + 3 -> Send("field", n - 1)
                                [] n + 4 + 1 - i = n + 4 -> Send("number", 0)
                                [] OTHER                 -> Send("sample", 0)
        <4>1. CASE i = 1
          BY <3>1, <3>3, <4>1
        <4>2. CASE i = 2
          BY <3>1, <3>3, <4>2
        <4>3. CASE i = 3
          BY <3>1, <3>3, <4>3
        <4>4. CASE i = n + 4
          BY <3>1, <3>3, <4>4
        <4>5. CASE i \in 4..n + 3
          BY <3>1, <3>3, <4>5
        <4> QED BY <3>1, <4>1, <4>2, <4>3, <4>4, <4>5
      <3>5. StepsAre(n)'
        <4>1. Longest(n)' = n + 4 /\ n + 4 <= n + 4
          BY <3>1, <3>2 DEF Longest
        <4> QED BY <3>2, <3>3, <3>4, <4>1 DEF StepsAre, StepAt
      <3>6. todo' # <<>>
        BY <3>1, <3>3
      <3> QED BY <2>3, <3>1, <3>2, <3>3, <3>5, <3>6, Begins DEF CallNames
    <2> QED BY <2>2, <2>3
  <1>4. CASE WriteRefused \/ WriteThrows \/ Getter \/ SetTimeout
    BY <1>4, Refused, Unmoved DEF WriteRefused, WriteThrows, Getter, SetTimeout, Succeed, stepVars
  <1> QED BY <1>1, <1>2, <1>3, <1>4

LEMMA OpenKeeps == ASSUME IInv, Open PROVE IInv'
  <1>1. CASE Refuse
    BY <1>1, Refused DEF Open
  <1>2. CASE ~open /\ Connect("open", <<Send("reset", 0)>> \o GetSizes)
    <2>1. <<Send("reset", 0)>> \o GetSizes = <<Send("reset", 0), Send("sizes", 0), Receive(1, "sizes")>>
      BY Join12 DEF GetSizes
    <2>2. /\ down = <<>> /\ down' = <<>> /\ up' = <<>> /\ open' = TRUE /\ gone' = FALSE
          /\ call' = "open" /\ UNCHANGED controllerVars
          /\ todo' = <<Send("reset", 0), Send("sizes", 0), Receive(1, "sizes")>>
      BY <1>2, <2>1 DEF Open, Connect
    <2>3. StepsAre(1)' /\ todo' \in Seq(CallSteps) /\ todo' # <<>> /\ 1 \in 1..Depth
      BY <2>2, Asks
    <2>4. Len(todo') = 3
      BY <2>2
    <2>5. TypeOK' /\ Connections' /\ Lawful(ctl, down)' /\ UpRight'
      <3>1. up' \in Seq(UpTokens)
        BY <2>2, EmptySeq
      <3>2. TypeOK'
        BY <2>2, <2>3, <3>1 DEF IInv, TypeOK, controllerVars, CallNames
      <3>3. Lawful(ctl, down)'
        BY <2>2 DEF IInv, controllerVars
      <3> QED BY <2>2, <3>2, <3>3 DEF Connections, UpRight
    <2>6. WillBe(1)' /\ OnTheirWay(1)' /\ Answered'
      BY <2>2, <2>3, <2>4 DEF WillBe, Ready, OnTheirWay, Answered
    <2>7. Progress'
      BY <2>2, <2>3, <2>6 DEF Progress
    <2> QED BY <2>5, <2>7 DEF IInv
  <1> QED BY <1>1, <1>2 DEF Open

\* The socket is closed.
LEMMA Closes ==
  ASSUME IInv, CloseSocket, call' = "none", todo' = <<>>, UNCHANGED controllerVars
  PROVE  IInv'
  <1>1. down' \in Seq(DownTokens) /\ Lawful(ctl, down')
    BY Dropped DEF IInv, TypeOK, CloseSocket
  <1>2. open' = FALSE /\ gone' = FALSE /\ up' = <<>> /\ up' \in Seq(UpTokens) /\ todo' \in Seq(CallSteps)
    BY EmptySeq DEF CloseSocket
  <1>3. TypeOK'
    BY <1>1, <1>2 DEF IInv, TypeOK, controllerVars
  <1>4. Lawful(ctl, down)'
    BY <1>1 DEF controllerVars
  <1>5. Connections' /\ UpRight' /\ Progress'
    BY <1>2 DEF Connections, UpRight, Progress, Live
  <1> QED BY <1>3, <1>4, <1>5 DEF IInv

\* A call fails and leaves the handle its connection, which is gone.
LEMMA Fails ==
  ASSUME IInv, call # "none", gone, call' = "none", todo' = <<>>,
         up = <<>> \/ Len(todo) # 1, UNCHANGED <<open, gone, down, up, controllerVars>>
  PROVE  IInv'
  <1>1. todo' \in Seq(CallSteps)
    BY EmptySeq
  <1>2. UpRight'
    BY DEF IInv, UpRight
  <1>3. TypeOK' /\ Connections' /\ Lawful(ctl, down)' /\ Progress'
    BY <1>1 DEF IInv, TypeOK, Connections, Progress, Live, controllerVars
  <1> QED BY <1>2, <1>3 DEF IInv

LEMMA EndKeeps ==
  ASSUME IInv, Close \/ Delete \/ TimeoutStep \/ BreakStep \/ ReturnStep \/ ServerStep
  PROVE  IInv'
  <1> USE EmptySeq
  <1>1. CASE Close
    <2>1. CASE ~open
      BY <1>1, <2>1, Unmoved DEF Close, Succeed, stepVars
    <2>2. CASE open
      <3>1. call = "none" /\ call' = "close" /\ UNCHANGED <<open, gone, down, up, controllerVars>>
            /\ todo' = <<Send("status", 0), Receive(1, "status")>>
        BY <1>1, <2>2 DEF Close, Begin, ReadStatus
      <3>2. StepsAre(1)' /\ todo' \in Seq(CallSteps) /\ todo' # <<>> /\ call' # "write" /\ 1 \in 1..Depth
        BY <3>1, Asks
      <3>3. call' \in CallNames \ {"open"}
        BY <3>1 DEF CallNames
      <3> QED BY <2>2, <3>1, <3>2, <3>3, Begins
    <2> QED BY <2>1, <2>2
  <1>2. CASE Delete
    <2>1. todo' = <<>> /\ call' = "none"
      BY <1>2 DEF Delete, IInv, Connections
    <2> QED BY <1>2, <2>1, Closes DEF Delete
  <1>3. CASE TimeoutStep
    BY <1>3, Closes DEF TimeoutStep, TimesOut, Return
  <1>4. CASE BreakStep
    <2>1. gone /\ call' = "none" /\ todo' = <<>> /\ todo # <<>> /\ UNCHANGED controllerVars
          /\ (Head(todo).do = "send" \/ (Head(todo).do = "receive" /\ Len(up) < Head(todo).n))
          /\ (CloseSocket \/ UNCHANGED <<open, gone, down, up>>)
      BY <1>4 DEF BreakStep, Breaks, Return, Next_is
    <2>2. call # "none"
      BY <2>1 DEF IInv, Connections
    <2>3. PICK n \in 1..Depth : StepsAre(n)
      BY <2>2 DEF IInv, Progress
    <2>4. up = <<>> \/ Len(todo) # 1
      <3>1. up \in Seq(UpTokens) /\ TypeOK
        BY DEF IInv, TypeOK
      <3>2. Head(todo) = StepAt(n, Len(todo)) /\ (Head(todo).do = "send" => Len(todo) # 1)
        BY <2>1, <2>3, <3>1, StepsLeft
      <3>3. Len(todo) = 1 => Head(todo).n = 1
        BY <3>2 DEF StepAt, Receive
      <3> QED BY <2>1, <3>1, <3>2, <3>3, EmptySeq, LenProperties
    <2>5. CASE CloseSocket
      BY <2>1, <2>5, Closes
    <2>6. CASE UNCHANGED <<open, gone, down, up>>
      BY <2>1, <2>2, <2>4, <2>6, Fails
    <2> QED BY <2>1, <2>5, <2>6
  <1>5. CASE ReturnStep
    <2>1. call # "none" /\ todo = <<>> /\ call' = "none" /\ todo' = <<>> /\ UNCHANGED controllerVars
      BY <1>5 DEF ReturnStep, Return
    <2>2. CASE call = "close"
      BY <1>5, <2>1, <2>2, Closes DEF ReturnStep
    <2>3. CASE call # "close"
      <3>1. UNCHANGED <<open, gone, down, up>>
        BY <1>5, <2>3 DEF ReturnStep
      <3>2. Len(todo) # 1
        BY <2>1
      <3>3. CASE gone
        BY <2>1, <3>1, <3>2, <3>3, Fails
      <3>4. CASE ~gone
        <4>1. up = <<>> /\ Arrived
          BY <2>1, <3>4 DEF IInv, Progress, Connections, Live, Answered
        <4>2. todo' \in Seq(CallSteps)
          BY <2>1
        <4> QED BY <2>1, <3>1, <4>1, <4>2
             DEF IInv, TypeOK, Connections, Progress, Live, Arrived, UpRight, controllerVars
      <3> QED BY <3>3, <3>4
    <2> QED BY <2>2, <2>3
  <1>6. CASE ServerStep
    <2>1. /\ open /\ ~gone /\ gone' = TRUE /\ down' \in Prefixes(down)
          /\ UNCHANGED <<open, call, todo, up, controllerVars>>
      BY <1>6 DEF ServerStep, ServerCloses
    <2>2. down' \in Seq(DownTokens) /\ Lawful(ctl, down')
      BY <2>1, Dropped DEF IInv, TypeOK
    <2>3. TypeOK' /\ Connections' /\ Lawful(ctl, down)' /\ UpRight'
      BY <2>1, <2>2 DEF IInv, TypeOK, Connections, UpRight, Question, controllerVars
    <2>4. Progress'
      <3>1. ASSUME NEW n \in 1..Depth, StepsAre(n) PROVE StepsAre(n)'
        BY <2>1, <3>1 DEF StepsAre, StepAt, Question, Longest
      <3> QED BY <2>1, <3>1 DEF IInv, Progress, Live
    <2> QED BY <2>3, <2>4 DEF IInv
  <1> QED BY <1>1, <1>2, <1>3, <1>4, <1>5, <1>6

-----------------------------------------------------------------------------
(***************************************************************************)
(* The steps of a call.                                                    *)
(***************************************************************************)
\* The controller will be ready for every token that is sent.
LEMMA SendsReady ==
  ASSUME NEW n \in 1..Depth, NEW f, NEW k \in 2..Longest(n), call \in CallNames, Ready(n, f, k),
         k = 3 /\ call # "write" => call \in ControlCommands \cup {"open"},
         NEW t, t = StepAt(n, k).tok
  PROVE  Legal(f, t) /\ Ready(n, Took(f, t), k - 1)
  <1>1. n \in Nat /\ n >= 1 /\ n <= Depth
    BY DepthAndAddr
  <1>2. CASE call = "write"
    <2>1. k \in 2..n + 4
      BY <1>2 DEF Longest
    <2>2. CASE k = n + 4
      <3>1. t = Token("number", 0) /\ f.st = "init"
        BY <1>1, <1>2, <2>2 DEF StepAt, Send, Ready
      <3>2. Legal(f, t) /\ Took(f, t).st = "number"
        BY <3>1 DEF Legal, Took, Token, Commands
      <3> QED BY <1>1, <1>2, <2>2, <3>2 DEF Ready
    <2>3. CASE k = n + 3
      <3>1. t = Token("field", n - 1) /\ f.st = "number"
        BY <1>1, <1>2, <2>3 DEF StepAt, Send, Ready
      <3>2. Legal(f, t) /\ Took(f, t).st = "init" /\ Took(f, t).last = n - 1
        BY <3>1 DEF Legal, Took, Token
      <3> QED BY <1>1, <1>2, <2>3, <3>2 DEF Ready
    <2>4. CASE k = n + 2
      <3>1. t = Token("write", 0) /\ f.st = "init" /\ f.last = n - 1
        BY <1>1, <1>2, <2>4 DEF StepAt, Send, Ready
      <3>2. Legal(f, t) /\ Took(f, t).st = "write" /\ Took(f, t).last = n - 1 /\ Took(f, t).count = 0
        BY <3>1 DEF Legal, Took, Token, Commands
      <3>3. 0 = n + 1 - (k - 1) /\ k - 1 = n + 1 /\ n + 1 \notin {1, n + 2, n + 4} /\ n + 1 # n + 3
        BY <1>1, <2>4
      <3> QED BY <1>2, <3>2, <3>3, <1>1 DEF Ready
    <2>5. CASE k \in 2..n + 1
      <3>1. t = Token("sample", 0) /\ f.st = "write" /\ f.last = n - 1 /\ f.count = n + 1 - k
        BY <1>1, <1>2, <2>5 DEF StepAt, Send, Ready
      <3>2. Legal(f, t)
        BY <3>1 DEF Legal, Token
      <3>3. CASE k = 2
        <4>1. f.count = f.last
          BY <1>1, <3>1, <3>3
        <4>2. Took(f, t).st = "init"
          BY <3>1, <4>1 DEF Took, Token
        <4> QED BY <1>1, <1>2, <3>2, <3>3, <4>2 DEF Ready
      <3>4. CASE k # 2
        <4>1. f.count # f.last /\ f.count # Depth - 1 /\ f.count + 1 = n + 1 - (k - 1) /\ k - 1 \in 2..n
          BY <1>1, <2>5, <3>1, <3>4, DepthAndAddr
        <4>2. Took(f, t).st = "write" /\ Took(f, t).last = n - 1 /\ Took(f, t).count = n + 1 - (k - 1)
          BY <3>1, <4>1 DEF Took, Token, Plus1
        <4>3. k - 1 \notin {1, n + 2, n + 4} /\ k - 1 # n + 3
          BY <1>1, <4>1
        <4> QED BY <1>2, <3>2, <4>2, <4>3, <1>1 DEF Ready
      <3> QED BY <3>3, <3>4
    <2> QED BY <1>1, <2>1, <2>2, <2>3, <2>4, <2>5
  <1>3. CASE call # "write"
    <2>1. k \in {2, 3}
      BY <1>3 DEF Longest
    <2>2. CASE k = 2
      <3>1. t = Token(Question, 0) /\ f.st = "init" /\ Question \in {"sizes", "status"}
        BY <1>3, <2>2 DEF StepAt, Send, Ready, Question
      <3>2. Legal(f, t) /\ Took(f, t) = f
        BY <3>1 DEF Legal, Took, Token, Commands
      <3> QED BY <1>3, <3>1, <3>2 DEF Ready
    <2>3. CASE k = 3
      <3>1. CASE call = "open"
        <4>1. t = Token("reset", 0)
          BY <1>3, <2>3, <3>1 DEF StepAt, Send
        <4>2. Legal(f, t) /\ Took(f, t).st = "init"
          BY <4>1 DEF Legal, Took, Token
        <4> QED BY <1>3, <4>2 DEF Ready
      <3>2. CASE call # "open"
        <4>1. t = Token(call, 0) /\ call \in ControlCommands /\ f.st = "init"
          BY <1>3, <2>3, <3>2 DEF StepAt, Send, Ready
        <4>2. Legal(f, t) /\ Took(f, t) = f
          BY <4>1 DEF Legal, Took, Token, Commands, ControlCommands
        <4> QED BY <1>3, <4>1, <4>2 DEF Ready
      <3> QED BY <3>1, <3>2
    <2> QED BY <2>1, <2>2, <2>3
  <1> QED BY <1>2, <1>3

LEMMA SendKeeps == ASSUME IInv, SendStep PROVE IInv'
  <1>1. /\ todo # <<>> /\ Head(todo).do = "send" /\ todo' = Tail(todo)
        /\ IF gone THEN UNCHANGED down ELSE down' = Append(down, Head(todo).tok)
        /\ UNCHANGED <<open, gone, call, up, controllerVars>>
    BY DEF SendStep, Sends, Next_is
  <1>2. TypeOK /\ Connections /\ Lawful(ctl, down) /\ UpRight /\ call # "none" /\ open /\ call \in CallNames
    BY <1>1 DEF IInv, Connections, TypeOK
  <1>3. PICK n \in 1..Depth : StepsAre(n) /\ (Live => WillBe(n) /\ OnTheirWay(n) /\ Answered)
    BY <1>2 DEF IInv, Progress
  <1> DEFINE k == Len(todo)
             t == Head(todo).tok
  <1>4. k \in Nat \ {0} /\ k # 1 /\ k <= Longest(n) /\ Head(todo) = StepAt(n, k) /\ Head(todo) \in CallSteps
    BY <1>1, <1>2, <1>3, StepsLeft
  <1>5. StepsAre(n)' /\ Len(todo') = k - 1 /\ todo' \in Seq(CallSteps)
    BY <1>1, <1>2, <1>3, StepDone
  <1>6. t \in DownTokens
    BY <1>4 DEF CallSteps
  <1>7. \A i \in DOMAIN up : up[i].t = "progress"
    BY <1>2, <1>4 DEF UpRight
  <1>8. UpRight'
    BY <1>1, <1>7 DEF UpRight
  <1>9. Connections'
    BY <1>1, <1>2 DEF Connections
  <1> HIDE DEF k, t
  <1>10. k \in 2..Longest(n) /\ n \in Nat /\ k \in Nat /\ k # 1 /\ k >= 2
    <2>1. n \in Nat /\ Longest(n) \in Nat
      BY DepthAndAddr DEF Longest
    <2> QED BY <1>4, <2>1
  <1>11. CASE gone
    <2>1. down' = down /\ ~Live'
      BY <1>1, <1>11 DEF Live
    <2>2. TypeOK' /\ Lawful(ctl, down)'
      BY <1>1, <1>2, <1>5, <2>1 DEF TypeOK, controllerVars
    <2>3. Progress'
      BY <1>1, <1>2, <1>5, <2>1 DEF Progress
    <2> QED BY <1>8, <1>9, <2>2, <2>3 DEF IInv
  <1>12. CASE ~gone
    <2>1. down' = Append(down, t) /\ Live /\ down \in Seq(DownTokens) /\ ctl' = ctl
      BY <1>1, <1>2, <1>12 DEF Live, TypeOK, controllerVars, t
    <2>2. WillBe(n) /\ OnTheirWay(n) /\ Answered
      BY <1>3, <2>1
    <2>3. k = 3 /\ call # "write" => call \in ControlCommands \cup {"open"}
      BY <1>3 DEF StepsAre, k
    <2>4. t = StepAt(n, k).tok
      BY <1>4 DEF t
    <2>5. Legal(Final(ctl, down), t) /\ Ready(n, Took(Final(ctl, down), t), k - 1)
      BY <1>2, <1>10, <2>2, <2>3, <2>4, SendsReady DEF WillBe, k
    <2>6. Final(ctl, down') = Took(Final(ctl, down), t) /\ Lawful(ctl, down')
      BY <1>2, <1>6, <2>1, <2>5, TakesAppended
    <2>7. down' \in Seq(DownTokens) /\ Len(down) \in Nat /\ Len(down') = Len(down) + 1
          /\ DOMAIN down = 1..Len(down) /\ DOMAIN down' = 1..Len(down) + 1
          /\ down'[Len(down) + 1] = t /\ \A i \in DOMAIN down : down'[i] = down[i]
      BY <1>6, <2>1, AppendProperties, LenProperties
    <2>8. TypeOK' /\ Lawful(ctl, down)'
      BY <1>1, <1>2, <1>5, <2>1, <2>6, <2>7 DEF TypeOK, controllerVars
    <2>9. WillBe(n)'
      BY <1>1, <1>5, <2>1, <2>5, <2>6 DEF WillBe, Ready
    <2>10. OnTheirWay(n)'
      <3>1. \A i \in DOMAIN down :
              /\ down[i].t = "sample" => call = "write" /\ k <= n + 1
              /\ down[i].t \notin {"sizes", "status"}
              /\ call = "write" => \A j \in DOMAIN down : down[i].t = "sample" /\ i <= j => down[j].t = "sample"
        BY <1>10, <2>2 DEF OnTheirWay, k
      <3>2. t.t = "sample" => call = "write" /\ k <= n + 1
        BY <1>4, <1>10, <2>3, <2>4 DEF StepAt, Send, Receive, Token, Question, ControlCommands, Longest
      <3>3. call = "write" /\ k <= n + 1 => t.t = "sample"
        BY <1>10, <2>4 DEF StepAt, Send, Token
      <3>4. t.t \in {"sizes", "status"} => call # "write" /\ t.t = Question /\ k = 2
        BY <1>4, <1>10, <2>3, <2>4 DEF StepAt, Send, Receive, Token, Question, ControlCommands, Longest
      <3>5. ASSUME NEW i \in DOMAIN down'
            PROVE  /\ down'[i].t = "sample" => call = "write" /\ k - 1 <= n + 1
                   /\ down'[i].t \in {"sizes", "status"} =>
                        call # "write" /\ down'[i].t = Question /\ k - 1 = 1 /\ i = Len(down')
                   /\ call = "write" =>
                        \A j \in DOMAIN down' : down'[i].t = "sample" /\ i <= j => down'[j].t = "sample"
        <4>1. CASE i = Len(down) + 1
          BY <1>10, <2>7, <3>2, <3>4, <4>1
        <4>2. CASE i \in DOMAIN down
          <5>1. down'[i] = down[i]
            BY <2>7, <4>2
          <5>2. ASSUME call = "write", down[i].t = "sample", NEW j \in DOMAIN down', i <= j
                PROVE  down'[j].t = "sample"
            <6>1. t.t = "sample"
              BY <3>1, <3>3, <4>2, <5>2
            <6> QED BY <2>7, <3>1, <4>2, <5>2, <6>1
          <5> QED BY <1>10, <3>1, <4>2, <5>1, <5>2
        <4> QED BY <2>7, <4>1, <4>2
      <3> QED BY <1>1, <1>5, <3>5 DEF OnTheirWay, Question
    <2>11. Answered'
      <3>1. up # <<>> => call = "write"
        BY <1>10, <2>2 DEF Answered, k
      <3>2. todo' # <<>> /\ ~(Len(todo') = 3 /\ call = "open")
        BY <1>5, <1>10 DEF Longest
      <3> QED BY <1>1, <1>7, <3>1, <3>2 DEF Answered
    <2>12. Progress'
      BY <1>1, <1>2, <1>5, <2>9, <2>10, <2>11 DEF Progress
    <2> QED BY <1>8, <1>9, <2>8, <2>12 DEF IInv
  <1> QED BY <1>11, <1>12

LEMMA AnswerKeeps == ASSUME IInv, AnswerStep PROVE IInv'
  <1> DEFINE more == IF Head(todo).as = "progress" /\ Head(up).t = "progress" THEN <<Head(todo)>> ELSE <<>>
  <1>1. /\ todo # <<>> /\ Head(todo).do = "receive" /\ Len(up) >= Head(todo).n
        /\ Head(todo).as = "status" \/ Head(up).t \in {Head(todo).as, "done"}
        /\ up' = SubSeq(up, Head(todo).n + 1, Len(up)) /\ todo' = more \o Tail(todo)
        /\ UNCHANGED <<open, gone, call, down, controllerVars>>
    BY DEF AnswerStep, CanReceive, Receives, Next_is
  <1> HIDE DEF more
  <1>2. TypeOK /\ Connections /\ Lawful(ctl, down) /\ UpRight /\ call # "none" /\ open /\ call \in CallNames
        /\ up \in Seq(UpTokens) /\ todo \in Seq(CallSteps)
    BY <1>1 DEF IInv, Connections, TypeOK
  <1>3. PICK n \in 1..Depth : StepsAre(n) /\ (Live => WillBe(n) /\ OnTheirWay(n) /\ Answered)
    BY <1>2 DEF IInv, Progress
  <1>4. Len(todo) = 1 /\ Head(todo) = StepAt(n, 1) /\ Tail(todo) = <<>> /\ Head(todo) \in CallSteps
    BY <1>1, <1>2, <1>3, StepsLeft
  <1>5. Head(todo) = Receive(1, IF call = "write" THEN "progress" ELSE Question)
    BY <1>4 DEF StepAt
  <1>6. Head(todo).n = 1 /\ Head(todo).as = IF call = "write" THEN "progress" ELSE Question
    BY <1>5 DEF Receive
  <1>7. /\ Len(up) \in Nat /\ Len(up) >= 1 /\ DOMAIN up = 1..Len(up) /\ Head(up) = up[1] /\ up # <<>>
        /\ up' \in Seq(UpTokens) /\ Len(up') = Len(up) - 1 /\ DOMAIN up' = 1..Len(up) - 1
        /\ \A i \in 1..Len(up) - 1 : up'[i] = up[i + 1]
    <2>1. Len(up) \in Nat /\ Len(up) >= 1 /\ up # <<>> /\ up' = SubSeq(up, 2, Len(up))
      BY <1>1, <1>2, <1>6, LenProperties, EmptySeq
    <2>2. up' = Tail(up)
      BY <1>2, <2>1, TailIsSubSeq
    <2>3. /\ Head(up) = up[1] /\ up' \in Seq(UpTokens) /\ Len(up') = Len(up) - 1
          /\ \A i \in 1..Len(up) - 1 : up'[i] = up[i + 1]
      <3> DEFINE s == up
                 u == Tail(s)
      <3>1. s \in Seq(UpTokens) /\ s # <<>> /\ up' = u
        BY <1>2, <2>1, <2>2
      <3> HIDE DEF s
      <3>2. /\ Head(s) = s[1] /\ u \in Seq(UpTokens) /\ Len(u) = Len(s) - 1
            /\ \A i \in 1..Len(s) - 1 : u[i] = s[i + 1]
        BY <3>1, HeadTailProperties
      <3> QED BY <3>1, <3>2 DEF s
    <2>4. DOMAIN up = 1..Len(up) /\ DOMAIN up' = 1..Len(up')
      BY <1>2, <2>3, LenProperties
    <2> QED BY <2>1, <2>3, <2>4
  <1>11. Len(up) = 1 => up' = <<>>
    <2>1. Len(up') = Len(up) - 1 /\ Len(up) \in Nat
      BY <1>7
    <2>2. Len(up) = 1 => Len(up') = 0
      BY <2>1
    <2> QED BY <1>7, <2>2, EmptySeq
  <1>8. Connections'
    BY <1>1, <1>2 DEF Connections
  <1>9. CASE call = "write" /\ Head(up).t = "progress"
    <2>1. todo' = todo
      <3>1. more = <<Head(todo)>>
        BY <1>6, <1>9 DEF more
      <3>2. todo' \in Seq(CallSteps) /\ Len(todo') = 1 /\ todo'[1] = Head(todo)
        <4>1. <<Head(todo)>> \in Seq(CallSteps) /\ <<>> \in Seq(CallSteps)
          BY <1>4
        <4>2. todo' = <<Head(todo)>>
          BY <1>1, <1>4, <3>1, <4>1, ConcatEmptySeq
        <4> QED BY <4>1, <4>2
      <3>3. Len(todo) = 1 /\ todo[1] = Head(todo)
        BY <1>2, <1>4, HeadTailProperties, EmptySeq
      <3> QED BY <1>2, <3>2, <3>3, SeqEqual
    <2>2. TypeOK' /\ Lawful(ctl, down)'
      BY <1>1, <1>2, <1>7, <2>1 DEF TypeOK, controllerVars
    <2>3. UpRight'
      <3>1. ASSUME NEW i \in DOMAIN up', up'[i].t # "progress"
            PROVE  i = Len(up') /\ up'[i].t = "done" /\ Len(todo') = 1
        <4>1. i + 1 \in DOMAIN up /\ up[i + 1].t # "progress"
          BY <1>7, <3>1
        <4>2. i + 1 = Len(up) /\ up[i + 1].t = "done"
          BY <1>2, <1>9, <4>1 DEF UpRight
        <4> QED BY <1>4, <1>7, <2>1, <3>1, <4>2
      <3> QED BY <1>1, <1>2, <1>9, <3>1 DEF UpRight
    <2>4. Live => Answered'
      <3> SUFFICES ASSUME Live PROVE Answered'
        OBVIOUS
      <3>1. \A i \in DOMAIN up' : up'[i].t = "done" => Arrived /\ stored = writes
        BY <1>3, <1>7 DEF Answered
      <3>2. todo' # <<>> /\ Len(todo') # 3
        BY <1>1, <1>4, <2>1
      <3>3. Arrived' = Arrived /\ stored' = stored /\ writes' = writes /\ call' = "write"
        BY <1>1, <1>9 DEF Arrived, controllerVars
      <3> QED BY <3>1, <3>2, <3>3 DEF Answered
    <2>5. StepsAre(n)' /\ (Live' => WillBe(n)' /\ OnTheirWay(n)' /\ Answered') /\ call' # "none"
      BY <1>1, <1>2, <1>3, <2>1, <2>4
         DEF StepsAre, StepAt, Question, Longest, Live, WillBe, Ready, OnTheirWay, controllerVars
    <2> QED BY <1>8, <2>2, <2>3, <2>5 DEF IInv, Progress
  <1>10. CASE ~(call = "write" /\ Head(up).t = "progress")
    <2>1. todo' = <<>>
      <3>1. more = <<>>
        BY <1>6, <1>10 DEF more, Question
      <3> QED BY <1>1, <1>4, <3>1
    <2>2. \A i \in DOMAIN up' : up'[i].t = "progress"
      <3> SUFFICES ASSUME NEW i \in DOMAIN up', up'[i].t # "progress" PROVE FALSE
        OBVIOUS
      <3>1. i + 1 \in DOMAIN up /\ up[i + 1].t # "progress" /\ i + 1 # 1 /\ 1 \in DOMAIN up /\ 1 # Len(up)
        BY <1>7
      <3>2. call = "write"
        BY <1>2, <3>1 DEF UpRight
      <3>3. up[1].t # "progress"
        BY <1>7, <1>10, <3>2
      <3> QED BY <1>2, <3>1, <3>3 DEF UpRight
    <2>3. TypeOK' /\ Lawful(ctl, down)'
      <3>1. todo' \in Seq(CallSteps)
        BY <2>1
      <3> QED BY <1>1, <1>2, <1>7, <3>1 DEF TypeOK, controllerVars
    <2>4. UpRight'
      BY <2>2 DEF UpRight
    <2>5. StepsAre(n)'
      <3>1. Longest(n)' >= 0
        BY DepthAndAddr DEF Longest
      <3> QED BY <2>1, <3>1 DEF StepsAre
    <2>6. ASSUME Live PROVE WillBe(n)' /\ OnTheirWay(n)' /\ Answered'
      <3>1. WillBe(n) /\ OnTheirWay(n) /\ Answered
        BY <1>3, <2>6
      <3>2. Arrived /\ up' = <<>> /\ (call = "write" => stored = writes)
        <4>1. CASE call = "write"
          <5>1. up[1].t = "done" /\ 1 = Len(up)
            BY <1>2, <1>7, <1>10, <4>1 DEF UpRight
          <5>2. Arrived /\ stored = writes
            BY <1>7, <3>1, <5>1 DEF Answered
          <5> QED BY <1>11, <5>1, <5>2
        <4>2. CASE call # "write"
          <5>1. Arrived
            BY <1>7, <3>1, <4>2 DEF Answered
          <5>2. up[1].t # "progress" /\ 1 = Len(up)
            BY <1>2, <1>7, <3>1, <4>2 DEF Answered, UpRight
          <5> QED BY <1>11, <4>2, <5>1, <5>2
        <4> QED BY <4>1, <4>2
      <3>3. down' = <<>> /\ ctl'.st = "init" /\ ctl' = ctl
        BY <1>1, <3>2 DEF Arrived, controllerVars
      <3>4. Final(ctl', down').st = "init"
        BY <3>3, NothingToTake
      <3>5. WillBe(n)'
        <4>1. n \in Nat /\ n >= 1 /\ Len(todo') = 0
          BY <2>1, DepthAndAddr
        <4> QED BY <3>4, <4>1 DEF WillBe, Ready
      <3>6. OnTheirWay(n)'
        BY <3>3 DEF OnTheirWay
      <3>7. Answered'
        <4>1. Arrived' /\ (call' = "write" => stored' = writes')
          BY <1>1, <3>2, <3>3 DEF Arrived, controllerVars
        <4>2. up' = <<>> /\ down' = <<>>
          BY <3>2, <3>3
        <4> QED BY <4>1, <4>2 DEF Answered
      <3> QED BY <3>5, <3>6, <3>7
    <2>7. Progress'
      BY <1>1, <1>2, <2>5, <2>6 DEF Progress, Live
    <2> QED BY <1>8, <2>3, <2>4, <2>7 DEF IInv
  <1> QED BY <1>9, <1>10

-----------------------------------------------------------------------------
(***************************************************************************)
(* The controller.                                                         *)
(***************************************************************************)
\* It takes a token: what it will be at the end stays.
LEMMA TokenTaken ==
  ASSUME IInv, down # <<>>, down' = Tail(down), ctl' = Took(ctl, Head(down)),
         UNCHANGED <<open, gone, call, todo>>, up' \in Seq(UpTokens),
         open \/ up' = up,
         Live /\ (up' # up \/ stored' # stored) => Answered',
         UpRight'
  PROVE  IInv'
  <1>1. TypeOK /\ down \in Seq(DownTokens) /\ Lawful(ctl, down)
    BY DEF IInv, TypeOK
  <1>2. /\ Legal(ctl, Head(down)) /\ Lawful(ctl', down') /\ Final(ctl', down') = Final(ctl, down)
    BY <1>1, TakesFirst
  <1>3. /\ Tail(down) \in Seq(DownTokens) /\ Len(down) \in Nat /\ Len(down) > 0
        /\ Len(down') = Len(down) - 1 /\ DOMAIN down = 1..Len(down) /\ DOMAIN down' = 1..Len(down) - 1
        /\ \A i \in 1..Len(down) - 1 : down'[i] = down[i + 1]
    BY <1>1, HeadTailProperties, EmptySeq, LenProperties
  <1>4. TypeOK'
    <2>1. ctl' = [st |-> ctl'.st, last |-> ctl'.last, count |-> ctl'.count]
      <3>1. CASE Head(down).t = "reset"
        BY <3>1 DEF Took
      <3>2. CASE Head(down).t \in {"number", "write", "field", "sample"}
        BY <3>2 DEF Took
      <3>3. CASE Head(down).t \notin {"reset", "number", "write", "field", "sample"}
        <4>1. ctl' = ctl
          BY <3>3 DEF Took
        <4> QED BY <1>1, <4>1 DEF TypeOK
      <3> QED BY <3>1, <3>2, <3>3
    <2> QED BY <1>1, <1>3, <2>1 DEF TypeOK
  <1>5. Connections'
    BY DEF IInv, Connections
  <1>6. ASSUME NEW n \in 1..Depth, StepsAre(n), Live, WillBe(n), OnTheirWay(n), Answered, call # "none"
        PROVE  WillBe(n)' /\ OnTheirWay(n)' /\ Answered'
    <2>1. WillBe(n)'
      BY <1>2, <1>6 DEF WillBe, Ready
    <2>2. OnTheirWay(n)'
      <3> SUFFICES ASSUME NEW i \in DOMAIN down'
                   PROVE  /\ down'[i].t = "sample" => call = "write" /\ Len(todo) <= n + 1
                          /\ down'[i].t \in {"sizes", "status"} =>
                               call # "write" /\ down'[i].t = Question /\ Len(todo) = 1 /\ i = Len(down')
                          /\ call = "write" =>
                               \A j \in DOMAIN down' : down'[i].t = "sample" /\ i <= j => down'[j].t = "sample"
        BY DEF OnTheirWay, Question
      <3>1. i + 1 \in DOMAIN down /\ down'[i] = down[i + 1]
        BY <1>3
      <3>2. i + 1 = Len(down) => i = Len(down')
        BY <1>3
      <3>3. ASSUME NEW j \in DOMAIN down', call = "write", down'[i].t = "sample", i <= j
            PROVE  down'[j].t = "sample"
        <4>1. j + 1 \in DOMAIN down /\ down'[j] = down[j + 1] /\ i + 1 <= j + 1
          BY <1>3, <3>3
        <4> QED BY <1>6, <3>1, <3>3, <4>1 DEF OnTheirWay
      <3> QED BY <1>6, <3>1, <3>2, <3>3 DEF OnTheirWay
    <2>3. Answered'
      <3>1. CASE up' # up \/ stored' # stored
        BY <1>6, <3>1
      <3>2. CASE up' = up /\ stored' = stored
        <4>1. ~Arrived /\ todo' # <<>> /\ (up # <<>> => call = "write") /\ ~(Len(todo) = 3 /\ call = "open")
              /\ \A i \in DOMAIN up : up[i].t = "progress" => call = "write"
          BY <1>6 DEF Arrived, Answered
        <4>2. \A i \in DOMAIN up : up[i].t # "done"
          BY <1>6, <4>1 DEF Answered
        <4> QED BY <3>2, <4>1, <4>2 DEF Answered
      <3> QED BY <3>1, <3>2
    <2> QED BY <2>1, <2>2, <2>3
  <1>7. call # "none" => \E n \in 1..Depth :
          StepsAre(n) /\ (Live => WillBe(n) /\ OnTheirWay(n) /\ Answered)
    BY DEF IInv, Progress
  <1>8. call = "none" => ~Live
    BY DEF IInv, Progress, Arrived
  <1>9. Progress'
    <2>1. \A n \in 1..Depth : StepsAre(n) => StepsAre(n)'
      BY DEF StepsAre, StepAt, Question, Longest
    <2>2. Live' <=> Live
      BY DEF Live
    <2> QED BY <1>6, <1>7, <1>8, <2>1, <2>2 DEF Progress
  <1> QED BY <1>2, <1>4, <1>5, <1>9 DEF IInv

\* It answers nothing, or nobody gets the answer.
LEMMA TakenInSilence ==
  ASSUME IInv, down # <<>>, down' = Tail(down), ctl' = Took(ctl, Head(down)),
         UNCHANGED <<open, gone, call, todo, up>>, stored' = stored \/ ~Live
  PROVE  IInv'
  <1>1. up' \in Seq(UpTokens) /\ UpRight'
    BY DEF IInv, TypeOK, UpRight, Question
  <1> QED BY <1>1, TokenTaken

LEMMA HeadLegal == ASSUME IInv, down # <<>> PROVE Legal(ctl, Head(down)) /\ Head(down) \in DownTokens
  BY TakesFirst, HeadTailProperties DEF IInv, TypeOK

LEMMA CoreQuietKeeps ==
  ASSUME IInv, TakeReset \/ TakeControl \/ TakeNumberCommand \/ TakeNumber \/ TakeWriteCommand
  PROVE  IInv'
  <1>1. ctl = [st |-> ctl.st, last |-> ctl.last, count |-> ctl.count]
    BY DEF IInv, TypeOK
  <1>2. CASE TakeReset
    <2>1. ctl' = [st |-> "init", last |-> ctl.last, count |-> ctl.count] /\ Head(down).t = "reset"
      BY <1>1, <1>2 DEF TakeReset, ControllerReset, Takes
    <2>2. ctl' = Took(ctl, Head(down))
      BY <2>1 DEF Took
    <2> QED BY <1>2, <2>2, TakenInSilence DEF TakeReset, ControllerReset, Takes
  <1>3. CASE TakeControl
    <2>1. Head(down).t \in ControlCommands /\ ctl' = ctl /\ stored' = stored
          /\ down # <<>> /\ down' = Tail(down) /\ UNCHANGED <<open, gone, call, todo, up>>
      BY <1>3 DEF TakeControl, ControllerSignals, Takes, controllerVars
    <2>2. ctl' = Took(ctl, Head(down))
      BY <2>1 DEF Took, ControlCommands
    <2> QED BY <2>1, <2>2, TakenInSilence
  <1>4. CASE TakeNumberCommand
    <2>1. ctl' = [st |-> "number", last |-> ctl.last, count |-> ctl.count] /\ Head(down).t = "number"
      BY <1>1, <1>4 DEF TakeNumberCommand, NumberCommand, Takes
    <2>2. ctl' = Took(ctl, Head(down))
      BY <2>1 DEF Took
    <2> QED BY <1>4, <2>2, TakenInSilence DEF TakeNumberCommand, NumberCommand, Takes
  <1>5. CASE TakeNumber
    <2>1. ctl' = [st |-> "init", last |-> Head(down).v, count |-> ctl.count] /\ ctl.st = "number"
          /\ Head(down).t \in Bytes /\ down # <<>>
      BY <1>1, <1>5 DEF TakeNumber, Number, Takes
    <2>2. Head(down).t = "field"
      BY <2>1, HeadLegal DEF Legal, Bytes, Commands, ControlCommands
    <2>3. ctl' = Took(ctl, Head(down))
      BY <2>1, <2>2 DEF Took
    <2> QED BY <1>5, <2>3, TakenInSilence DEF TakeNumber, Number, Takes
  <1>6. CASE TakeWriteCommand
    <2>1. ctl' = [st |-> "write", last |-> ctl.last, count |-> 0] /\ Head(down).t = "write"
      BY <1>1, <1>6 DEF TakeWriteCommand, WriteCommand, Takes
    <2>2. ctl' = Took(ctl, Head(down))
      BY <2>1 DEF Took
    <2> QED BY <1>6, <2>2, TakenInSilence DEF TakeWriteCommand, WriteCommand, Takes
  <1> QED BY <1>2, <1>3, <1>4, <1>5, <1>6

\* One token more on the way to the host.
LEMMA UpAppended ==
  ASSUME up \in Seq(UpTokens), NEW t \in {"sizes", "status", "progress", "done"},
         up' = up \o <<Token(t, 0)>>
  PROVE  /\ up' \in Seq(UpTokens) /\ Len(up) \in Nat /\ Len(up') = Len(up) + 1
         /\ DOMAIN up = 1..Len(up) /\ DOMAIN up' = 1..Len(up) + 1
         /\ up'[Len(up) + 1].t = t /\ \A i \in DOMAIN up : up'[i] = up[i]
  <1>1. Token(t, 0) \in UpTokens /\ Token(t, 0).t = t
    BY DEF Token, UpTokens
  <1>2. up' = Append(up, Token(t, 0))
    BY <1>1, AppendIsConcat
  <1>3. up' \in Seq(UpTokens) /\ Len(up) \in Nat /\ Len(up') = Len(up) + 1
        /\ up'[Len(up) + 1] = Token(t, 0) /\ \A i \in 1..Len(up) : up'[i] = up[i]
    BY <1>1, <1>2, AppendProperties, LenProperties
  <1>4. DOMAIN up = 1..Len(up) /\ DOMAIN up' = 1..Len(up')
    BY <1>3, LenProperties
  <1> QED BY <1>1, <1>3, <1>4

LEMMA QuestionKeeps == ASSUME IInv, TakeQuestion PROVE IInv'
  <1>1. PICK q \in {"sizes", "status"} : Takes({q}) /\ ControllerSignals /\ Answers(<<Token(q, 0)>>)
    BY DEF TakeQuestion
  <1>2. /\ Head(down).t = q /\ ctl' = ctl /\ ctl.st = "init" /\ stored' = stored /\ writes' = writes
        /\ down # <<>> /\ down' = Tail(down) /\ UNCHANGED <<open, gone, call, todo>>
    BY <1>1 DEF ControllerSignals, Takes, controllerVars
  <1>3. ctl' = Took(ctl, Head(down))
    BY <1>2 DEF Took
  <1>4. CASE ~Live
    <2>1. up' = up
      BY <1>1, <1>4 DEF Answers, Live
    <2> QED BY <1>2, <1>3, <2>1, TakenInSilence
  <1>5. CASE Live
    <2>1. up' = up \o <<Token(q, 0)>>
      BY <1>1, <1>5 DEF Answers, Live
    <2>2. call # "none"
      BY <1>2, <1>5 DEF IInv, Progress, Arrived
    <2>3. PICK n \in 1..Depth : OnTheirWay(n) /\ Answered
      BY <1>5, <2>2 DEF IInv, Progress
    <2>4. down \in Seq(DownTokens) /\ up \in Seq(UpTokens)
      BY DEF IInv, TypeOK
    <2>5. 1 \in DOMAIN down /\ Head(down) = down[1] /\ Tail(down) \in Seq(DownTokens)
          /\ Len(Tail(down)) = Len(down) - 1 /\ Len(down) \in Nat
      BY <1>2, <2>4, HeadTailProperties, EmptySeq, LenProperties
    <2>6. call # "write" /\ q = Question /\ Len(todo) = 1 /\ 1 = Len(down)
      BY <1>2, <2>3, <2>5 DEF OnTheirWay
    <2>7. down' = <<>>
      <3>1. Len(Tail(down)) = 0
        <4>1. Len(Tail(down)) = Len(down) - 1 /\ Len(down) \in Nat
          BY <2>5
        <4>2. Len(down) = 1
          BY <2>6
        <4> QED BY <4>1, <4>2
      <3> QED BY <1>2, <2>5, <3>1, EmptySeq
    <2>8. up = <<>>
      BY <1>2, <2>3, <2>6 DEF Answered, Arrived
    <2>9. up' \in Seq(UpTokens) /\ Len(up') = 1 /\ DOMAIN up' = 1..1 /\ up'[1].t = q
      <3>1. Len(up) = 0
        BY <2>8
      <3>2. /\ up' \in Seq(UpTokens) /\ Len(up') = Len(up) + 1 /\ DOMAIN up' = 1..Len(up) + 1
            /\ up'[Len(up) + 1].t = q
        BY <2>1, <2>4, UpAppended
      <3> QED BY <3>1, <3>2
    <2>10. Answered'
      <3>1. Arrived' /\ todo' # <<>> /\ call' # "write" /\ Len(todo') = 1
        BY <1>2, <2>6, <2>7 DEF Arrived
      <3>2. \A i \in DOMAIN up' : up'[i].t \notin {"progress", "done"}
        BY <2>9
      <3> QED BY <3>1, <3>2 DEF Answered
    <2>11. UpRight'
      BY <1>2, <2>2, <2>6, <2>9 DEF UpRight, Question
    <2> QED BY <1>2, <1>3, <1>5, <2>9, <2>10, <2>11, TokenTaken DEF Live
  <1> QED BY <1>4, <1>5

LEMMA SampleKeeps == ASSUME IInv, TakeSample PROVE IInv'
  <1>1. /\ Head(down).t \in Bytes /\ ctl.st = "write" /\ writes' = writes
        /\ down # <<>> /\ down' = Tail(down) /\ UNCHANGED <<open, gone, call, todo>>
    BY DEF TakeSample, Takes, Sample
  <1>2. Head(down).t = "sample"
    BY <1>1, HeadLegal DEF Legal, Bytes, Commands, ControlCommands
  <1>3. ctl = [st |-> ctl.st, last |-> ctl.last, count |-> ctl.count]
        /\ down \in Seq(DownTokens) /\ up \in Seq(UpTokens)
    BY DEF IInv, TypeOK
  <1>4. ctl' = Took(ctl, Head(down))
    <2>1. CASE LastSample
      <3>1. ctl' = [st |-> "init", last |-> ctl.last, count |-> ctl.count] /\ ctl.count = ctl.last
        BY <1>3, <2>1 DEF TakeSample, Sample, LastSample
      <3> QED BY <1>2, <3>1 DEF Took
    <2>2. CASE ~LastSample
      <3>1. ctl' = [st |-> "write", last |-> ctl.last, count |-> Plus1(ctl.count)] /\ ctl.count # ctl.last
        BY <1>1, <1>3, <2>2 DEF TakeSample, Sample, LastSample
      <3> QED BY <1>2, <3>1 DEF Took
    <2> QED BY <2>1, <2>2
  <1>5. CASE ~Live
    <2>1. up' = up
      BY <1>5 DEF TakeSample, Answers, Live
    <2> QED BY <1>1, <1>4, <1>5, <2>1, TakenInSilence
  <1>6. CASE Live /\ up' = up /\ ~LastSample
    <2>1. stored' = stored
      BY <1>6 DEF TakeSample, Sample
    <2> QED BY <1>1, <1>4, <1>6, <2>1, TakenInSilence
  <1>7. CASE Live /\ ~(up' = up /\ ~LastSample)
    <2>1. call # "none"
      BY <1>1, <1>7 DEF IInv, Progress, Arrived
    <2>2. PICK n \in 1..Depth : WillBe(n) /\ OnTheirWay(n) /\ Answered /\ StepsAre(n)
      BY <1>7, <2>1 DEF IInv, Progress
    <2>3. 1 \in DOMAIN down /\ Head(down) = down[1] /\ DOMAIN down = 1..Len(down) /\ Len(down) \in Nat
      BY <1>1, <1>3, HeadTailProperties, EmptySeq, LenProperties
    <2>4. call = "write" /\ Len(todo) <= n + 1 /\ \A j \in DOMAIN down : down[j].t = "sample"
      BY <1>2, <2>2, <2>3 DEF OnTheirWay
    <2>5. ~Arrived /\ todo # <<>> /\ (\A i \in DOMAIN up : up[i].t # "done")
      BY <1>1, <2>2 DEF Answered, Arrived
    <2>6. CASE ~LastSample
      <3>1. up' = up \o <<Token("progress", 0)>> /\ stored' = stored
        BY <1>7, <2>6 DEF TakeSample, Answers, Live, Sample
      <3>2. /\ up' \in Seq(UpTokens) /\ Len(up) \in Nat /\ Len(up') = Len(up) + 1
            /\ DOMAIN up = 1..Len(up) /\ DOMAIN up' = 1..Len(up) + 1
            /\ up'[Len(up) + 1].t = "progress" /\ \A i \in DOMAIN up : up'[i] = up[i]
        BY <1>3, <3>1, UpAppended
      <3>3. \A i \in DOMAIN up : up[i].t = "progress"
        BY <2>4, <2>5 DEF IInv, UpRight
      <3>4. \A i \in DOMAIN up' : up'[i].t = "progress"
        BY <3>2, <3>3
      <3>5. UpRight'
        BY <3>4 DEF UpRight
      <3>6. Answered'
        BY <1>1, <2>4, <2>5, <3>4 DEF Answered
      <3> QED BY <1>1, <1>4, <1>7, <3>2, <3>5, <3>6, TokenTaken DEF Live
    <2>7. CASE LastSample
      <3>1. up' = up \o <<Token("done", 0)>> /\ stored' = writes /\ ctl'.st = "init"
        BY <1>3, <1>7, <2>7 DEF TakeSample, Answers, Live, Sample
      <3>2. /\ up' \in Seq(UpTokens) /\ Len(up) \in Nat /\ Len(up') = Len(up) + 1
            /\ DOMAIN up = 1..Len(up) /\ DOMAIN up' = 1..Len(up) + 1
            /\ up'[Len(up) + 1].t = "done" /\ \A i \in DOMAIN up : up'[i] = up[i]
        BY <1>3, <3>1, UpAppended
      <3>3. \A i \in DOMAIN up : up[i].t = "progress"
        BY <2>4, <2>5 DEF IInv, UpRight
      <3>4. down' = <<>>
        <4> SUFFICES ASSUME down' # <<>> PROVE FALSE
          OBVIOUS
        <4>1. down' \in Seq(DownTokens) /\ Lawful(ctl', down')
          BY <1>1, <1>3, <1>4, TakesFirst, HeadTailProperties DEF IInv
        <4>2. Legal(ctl', Head(down')) /\ Head(down') = down'[1]
          <5>1. Legal(ctl', Head(down'))
            BY <4>1, TakesFirst
          <5>2. Head(down') = down'[1]
            BY <4>1, HeadTailProperties
          <5> QED BY <5>1, <5>2
        <4>3. Head(down').t = "sample"
          <5>1. /\ Len(Tail(down)) = Len(down) - 1 /\ Len(Tail(down)) \in Nat /\ Len(Tail(down)) # 0
                /\ \A i \in 1..Len(down) - 1 : Tail(down)[i] = down[i + 1]
            BY <1>1, <1>3, <4>1, HeadTailProperties, EmptySeq, LenProperties
          <5>2. 1 \in 1..Len(down) - 1 /\ 1 + 1 \in DOMAIN down
            BY <2>3, <5>1
          <5> QED BY <1>1, <2>4, <4>2, <5>1, <5>2
        <4> QED BY <3>1, <4>2, <4>3 DEF Legal, Commands, ControlCommands
      <3>5. Len(todo) = 1
        <4>1. Ready(n, ctl', Len(todo))
          <5>1. Final(ctl', down') = Final(ctl, down) /\ Final(ctl', <<>>) = ctl'
            BY <1>1, <1>3, <1>4, TakesFirst, NothingToTake
          <5> QED BY <2>2, <3>4, <5>1 DEF WillBe
        <4>2. Len(todo) \notin 2..n + 1
          BY <2>4, <3>1, <4>1 DEF Ready
        <4>3. Len(todo) \in Nat /\ Len(todo) # 0 /\ n \in Nat
          BY <2>5, DepthAndAddr, EmptySeq, LenProperties DEF IInv, TypeOK
        <4> DEFINE k == Len(todo)
        <4>4. k <= n + 1 /\ k \notin 2..n + 1 /\ k \in Nat /\ k # 0 /\ n \in Nat
          BY <2>4, <4>2, <4>3
        <4> HIDE DEF k
        <4>5. k = 1
          BY <4>4
        <4> QED BY <4>5 DEF k
      <3>6. UpRight'
        <4>1. ASSUME NEW i \in DOMAIN up', up'[i].t # "progress" PROVE i = Len(up') /\ up'[i].t = "done"
          BY <3>2, <3>3, <4>1
        <4> QED BY <1>1, <2>1, <2>4, <3>5, <4>1 DEF UpRight
      <3>7. Answered'
        <4>1. Arrived' /\ stored' = writes' /\ call' = "write" /\ todo' # <<>> /\ Len(todo') # 3
          BY <1>1, <2>4, <2>5, <3>1, <3>4, <3>5 DEF Arrived
        <4> QED BY <4>1 DEF Answered
      <3> QED BY <1>1, <1>4, <1>7, <3>2, <3>6, <3>7, TokenTaken DEF Live
    <2> QED BY <2>6, <2>7
  <1> QED BY <1>5, <1>6, <1>7

-----------------------------------------------------------------------------
(***************************************************************************)
(* The theorems.                                                           *)
(***************************************************************************)
LEMMA Invariant == Spec => []IInv
  <1>1. ASSUME IInv, [Next]_vars PROVE IInv'
    <2>1. CASE UNCHANGED vars
      BY <1>1, <2>1, Unmoved DEF vars, linkVars, stepVars
    <2>2. CASE Program
      BY <1>1, <2>2, CallKeeps, OpenKeeps, EndKeeps DEF Program
    <2>3. CASE Library
      BY <1>1, <2>3, SendKeeps, AnswerKeeps, EndKeeps DEF Library
    <2>4. CASE Core
      BY <1>1, <2>4, CoreQuietKeeps, QuestionKeeps, SampleKeeps DEF Core
    <2>5. CASE ServerStep
      BY <1>1, <2>5, EndKeeps
    <2> QED BY <1>1, <2>1, <2>2, <2>3, <2>4, <2>5 DEF Next
  <1> QED BY InitIInv, <1>1, PTL DEF Spec

\* Every token that arrives is one the controller waits for, and every answer the
\* one the call waits for, over every failure and every new connection.
THEOREM ControllerInStep == Spec => []InStep
  <1>1. ASSUME IInv PROVE CommandsMatch
    <2> SUFFICES ASSUME down # <<>>
                 PROVE  CASE Head(down).t = "field"  -> ctl.st = "number"
                          [] Head(down).t = "sample" -> ctl.st = "write"
                          [] Head(down).t = "reset"  -> TRUE
                          [] OTHER                   -> ctl.st = "init"
      BY DEF CommandsMatch
    <2>1. Legal(ctl, Head(down))
      BY <1>1, HeadLegal
    <2> QED BY <2>1 DEF Legal, Commands, ControlCommands
  <1>2. ASSUME IInv PROVE AnswersMatch
    <2> SUFFICES ASSUME up # <<>>, call # "none", ~(gone /\ Head(up).t = "progress")
                 PROVE  /\ todo # <<>>
                        /\ Last(todo).as \in {Head(up).t, "progress"}
                        /\ Head(up).t \in {"progress", "done"} <=> call = "write"
      BY DEF AnswersMatch
    <2>1. TypeOK /\ up \in Seq(UpTokens) /\ open
      BY <1>2 DEF IInv, TypeOK, Connections
    <2>2. 1 \in DOMAIN up /\ Head(up) = up[1]
      BY <2>1, HeadTailProperties, EmptySeq, LenProperties
    <2>3. PICK n \in 1..Depth : StepsAre(n) /\ (Live => Answered)
      BY <1>2 DEF IInv, Progress
    <2>4. todo # <<>> => Last(todo) = Receive(1, IF call = "write" THEN "progress" ELSE Question)
      BY <2>1, <2>3, StepsLeft DEF StepAt
    <2>5. CASE up[1].t = "progress"
      <3>1. Live /\ Answered
        BY <2>1, <2>2, <2>3, <2>5 DEF Live
      <3>2. call = "write" /\ todo # <<>>
        BY <2>2, <2>5, <3>1 DEF Answered
      <3> QED BY <2>2, <2>4, <2>5, <3>2 DEF Receive
    <2>6. CASE up[1].t # "progress"
      <3>1. Len(todo) = 1 /\ up[1].t = IF call = "write" THEN "done" ELSE Question
        BY <1>2, <2>2, <2>6 DEF IInv, UpRight
      <3>2. todo # <<>>
        BY <3>1
      <3> QED BY <2>2, <2>4, <3>1, <3>2 DEF Receive, Question
    <2> QED BY <2>5, <2>6
  <1>3. IInv => InStep
    BY <1>1, <1>2 DEF InStep
  <1> QED BY <1>3, Invariant, PTL

\* A call that succeeds has done what it says.
THEOREM SuccessMeansDone == Spec => DoneMeansArrived
  <1>1. ASSUME IInv, [Next]_vars, call # "none", call' = "none", ret' = "OK", ~gone
        PROVE  down = <<>> /\ ctl.st = "init" /\ (call = "write" => stored = writes)
    <2>1. todo = <<>>
      <3>1. ReturnStep
        BY <1>1
           DEF Next, vars, linkVars, Program, Library, Core, ControlCall, GetStatus, Write, CallOf, WriteRefused,
               WriteThrows, Getter, SetTimeout, Open, Close, Delete, SendStep, Sends, TimeoutStep, TimesOut,
               BreakStep, Breaks, Return, AnswerStep, Receives, TakeReset, TakeControl, TakeQuestion,
               TakeNumberCommand, TakeNumber, TakeWriteCommand, TakeSample, Takes, ServerStep, ServerCloses
      <3> QED BY <3>1 DEF ReturnStep
    <2>2. Live
      BY <1>1 DEF IInv, Connections, Live
    <2> QED BY <1>1, <2>1, <2>2 DEF IInv, Progress, Answered, Arrived
  <1>2. IInv /\ [Next]_vars =>
          [call # "none" /\ call' = "none" /\ ret' = "OK" /\ ~gone =>
             /\ down = <<>> /\ ctl.st = "init"
             /\ call = "write" => stored = writes]_vars
    BY <1>1
  <1> QED BY <1>2, Invariant, PTL DEF Spec, DoneMeansArrived

-----------------------------------------------------------------------------
(***************************************************************************)
(* The core, for memories of every size and any number of writes.          *)
(* WriteSide says what is in the memory that is being written, Sound(w)    *)
(* that waveform w is whole as long as it may not be overwritten, and      *)
(* Inside and OneWaveform that the playback stays inside its waveform.     *)
(***************************************************************************)

Spare == IF double THEN 1 ELSE 0

WriteSide ==
  /\ stored <= writes /\ next.id = stored
  /\ ctl.st = "write" =>
       /\ stored < writes
       /\ \A a \in Addr : a < wr.addr => mem[Memory(wr.buf)][a] = writes

Sound(w) ==
  /\ w.id <= stored
  /\ writes = w.id => wr.buf = w.buf
  /\ writes = w.id + 1 => wr.buf # w.buf
  /\ writes <= w.id + Spare => \A a \in Addr : a <= w.last => mem[Memory(w.buf)][a] = w.id

Inside ==
  Playing /\ Bounded =>
    /\ rd.addr <= rd.last /\ rep.n = rd.addr
    /\ rd.st = "running" => (rd.sync = 1 <=> rd.addr = rd.last)

OneWaveform == Playing /\ Bounded /\ writes <= rd.id + Spare => rep.ids \subseteq {rd.id}

CoreInv == CoreTypeOK /\ WriteSide /\ Sound(next) /\ Sound(rd) /\ Inside /\ OneWaveform

LEMMA Addresses ==
  /\ 0 \in Addr
  /\ \A a \in Addr : Plus1(a) \in Addr
  BY WaveformControllerAssumption DEF WaveformControllerAssumption, Addr, Plus1

LEMMA TypeInit == CoreInit => CoreTypeOK
<1> SUFFICES ASSUME CoreInit PROVE CoreTypeOK
  OBVIOUS
<1>1. Flags
  <2>1. PICK g \in Generics : double = g[1] /\ master = g[2]
    BY DEF CoreInit
  <2>2. g[1] \in BOOLEAN /\ g[2] \in BOOLEAN
    BY WaveformCoreAssumption DEF WaveformCoreAssumption
  <2> QED BY <2>1, <2>2 DEF Flags
<1>2. ControllerTypeOK
  BY Addresses DEF CoreInit, ControllerInit, ControllerTypeOK
<1>3. 0 \in Addr
  BY Addresses
<1>4. mem \in [{0, 1} -> [Addr -> Nat]]
  BY DEF CoreInit
<1>5. rep \in [n : Nat, ids : SUBSET Nat] /\ strobe \subseteq ControlCommands
  BY DEF CoreInit, NoRep
<1>6. /\ wr \in [buf : {0, 1}, addr : Addr]
      /\ next \in [buf : {0, 1}, last : Addr, id : Nat]
      /\ rd \in [st : {"idle", "wait_sync", "running", "oneshot"}, addr : Addr, buf : {0, 1},
                 last : Addr, id : Nat, sync : {0, 1}]
  BY <1>3 DEF CoreInit
<1> QED BY <1>1, <1>2, <1>4, <1>5, <1>6 DEF CoreTypeOK

LEMMA FlagsStep == Flags /\ [CoreNext]_coreVars => Flags'
<1>1. ASSUME [CoreNext]_coreVars PROVE UNCHANGED generics
  BY <1>1 DEF CoreNext, coreVars, Reset, Control, SetNumber, BeginWrite, WriteSample, Read, ReadIdle,
    ReadWaitSync, ReadRunning, ReadOneShot, Enabled
<1>2. Flags /\ UNCHANGED generics => Flags'
  BY DEF Flags, generics
<1> QED BY <1>1, <1>2

LEMMA ReadType == CoreTypeOK /\ Flags' /\ Read => CoreTypeOK'
<1> SUFFICES ASSUME CoreTypeOK, Flags', Read PROVE CoreTypeOK'
  OBVIOUS
<1>1. UNCHANGED <<ctl, writes, stored, wr, mem, next>> /\ strobe' = {}
  BY DEF Read, ReadIdle, ReadWaitSync, ReadRunning, ReadOneShot, Enabled, controllerVars
<1>2. rep' \in [n : Nat, ids : SUBSET Nat]
  <2>1. NoRep \in [n : Nat, ids : SUBSET Nat]
    BY DEF NoRep
  <2>2. Played \in [n : Nat, ids : SUBSET Nat]
    <3>1. mem[Memory(rd.buf)][rd.addr] \in Nat
      BY DEF CoreTypeOK, Memory
    <3> QED BY <3>1 DEF Played, Heard, CoreTypeOK
  <2> QED BY <2>1, <2>2 DEF Read, ReadIdle, ReadWaitSync, ReadRunning, ReadOneShot
<1>3. rd' \in [st : {"idle", "wait_sync", "running", "oneshot"}, addr : Addr, buf : {0, 1},
               last : Addr, id : Nat, sync : {0, 1}]
  <2>1. ASSUME NEW st \in {"idle", "wait_sync", "running", "oneshot"}
        PROVE  Loaded(st) \in [st : {"idle", "wait_sync", "running", "oneshot"}, addr : Addr,
                               buf : {0, 1}, last : Addr, id : Nat, sync : {0, 1}]
    BY Addresses DEF Loaded, CoreTypeOK
  <2>2. Plus1(rd.addr) \in Addr
    BY Addresses DEF CoreTypeOK
  <2>3. CASE ReadIdle
    BY <2>1, <2>3 DEF ReadIdle
  <2>4. CASE ReadWaitSync
    BY <2>1, <2>4 DEF ReadWaitSync
  <2>5. CASE ReadRunning
    <3>1. CASE rd.sync = 1
      BY <2>1, <2>5, <3>1 DEF ReadRunning
    <3>2. CASE rd.sync # 1
      BY <2>2, <2>5, <3>2 DEF ReadRunning, CoreTypeOK
    <3> QED BY <3>1, <3>2
  <2>6. CASE ReadOneShot
    BY <2>2, <2>6 DEF ReadOneShot, CoreTypeOK
  <2> QED BY <2>3, <2>4, <2>5, <2>6 DEF Read
<1> QED BY <1>1, <1>2, <1>3 DEF CoreTypeOK, ControllerTypeOK

LEMMA TypeStep == CoreTypeOK /\ [CoreNext]_coreVars => CoreTypeOK'
<1> SUFFICES ASSUME CoreTypeOK, [CoreNext]_coreVars PROVE CoreTypeOK'
  OBVIOUS
<1>0. Flags'
  BY FlagsStep DEF CoreTypeOK
<1>1. CASE Reset
  BY <1>0, <1>1 DEF Reset, ControllerReset, CoreTypeOK, ControllerTypeOK
<1>2. ASSUME NEW c \in ControlCommands, Control(c) PROVE CoreTypeOK'
  BY <1>0, <1>2 DEF Control, ControllerSignals, controllerVars, CoreTypeOK, ControllerTypeOK
<1>3. CASE SetNumber
  BY <1>0, <1>3 DEF SetNumber, NumberCommand, Number, CoreTypeOK, ControllerTypeOK
<1>4. CASE BeginWrite
  <2>1. ControllerTypeOK'
    <3>1. writes' \in Nat /\ stored' \in 0..writes'
      BY <1>4 DEF BeginWrite, WriteCommand, CoreTypeOK, ControllerTypeOK
    <3>2. ctl' \in [st : {"init", "number", "write"}, last : Addr, count : Addr]
      BY <1>4, Addresses DEF BeginWrite, WriteCommand, CoreTypeOK, ControllerTypeOK
    <3> QED BY <3>1, <3>2 DEF ControllerTypeOK
  <2>2. wr' \in [buf : {0, 1}, addr : Addr]
    BY <1>4, Addresses DEF BeginWrite, CoreTypeOK
  <2> QED BY <2>1, <2>2, <1>0, <1>4 DEF BeginWrite, CoreTypeOK
<1>5. CASE WriteSample
  <2>1. ControllerTypeOK'
    BY <1>5, Addresses DEF WriteSample, Sample, CoreTypeOK, ControllerTypeOK
  <2>2. mem' \in [{0, 1} -> [Addr -> Nat]]
    BY <1>5 DEF WriteSample, CoreTypeOK, ControllerTypeOK, Memory
  <2>3. wr' \in [buf : {0, 1}, addr : Addr]
    BY <1>5, Addresses DEF WriteSample, CoreTypeOK
  <2>4. next' \in [buf : {0, 1}, last : Addr, id : Nat]
    BY <1>5 DEF WriteSample, CoreTypeOK, ControllerTypeOK
  <2> QED BY <2>1, <2>2, <2>3, <2>4, <1>0, <1>5 DEF WriteSample, CoreTypeOK
<1>6. CASE Read
  BY <1>0, <1>6, ReadType
<1>7. CASE UNCHANGED coreVars
  BY <1>0, <1>7 DEF coreVars, controllerVars, CoreTypeOK, ControllerTypeOK
<1> QED BY <1>1, <1>2, <1>3, <1>4, <1>5, <1>6, <1>7 DEF CoreNext

-----------------------------------------------------------------------------
\* The writing of samples.
LEMMA SamplesStay ==
  ASSUME CoreTypeOK, NEW w \in [buf : {0, 1}, last : Addr, id : Nat], Sound(w), WriteSide,
         WriteSample
  PROVE  Sound(w)'
<1>1. stored < writes /\ writes' = writes /\ stored' \in {stored, writes} /\ wr'.buf = wr.buf
  BY DEF WriteSample, Sample, WriteSide, CoreTypeOK
<1>2. double' = double
  BY DEF WriteSample, generics
<1>3. writes \in Nat /\ stored \in Nat /\ w.id \in Nat /\ wr.buf \in {0, 1} /\ w.buf \in {0, 1}
  BY DEF CoreTypeOK, ControllerTypeOK
<1>4. w.id <= stored'
  BY <1>1, <1>3 DEF Sound
<1>5. ASSUME writes <= w.id + Spare, NEW a \in Addr, a <= w.last
      PROVE  mem'[Memory(w.buf)][a] = w.id
  <2>1. w.id < writes
    BY <1>1, <1>3 DEF Sound
  <2>2. double /\ writes = w.id + 1
    BY <2>1, <1>3, <1>5 DEF Spare
  <2>3. Memory(wr.buf) = wr.buf /\ Memory(w.buf) = w.buf /\ wr.buf # w.buf
    BY <2>2 DEF Memory, Sound
  <2>4. mem'[w.buf] = mem[w.buf]
    BY <2>3, <1>3 DEF WriteSample, CoreTypeOK
  <2> QED BY <2>3, <2>4, <1>5 DEF Sound
<1>6. Spare' = Spare /\ \A b : Memory(b)' = Memory(b)
  BY <1>2 DEF Spare, Memory
<1>7. writes' <= w.id + Spare' =>
        \A a \in Addr : a <= w.last => mem'[Memory(w.buf)'][a] = w.id
  BY <1>1, <1>5, <1>6
<1>8. /\ writes' = w.id => wr'.buf = w.buf
      /\ writes' = w.id + 1 => wr'.buf # w.buf
  BY <1>1 DEF Sound
<1> QED BY <1>4, <1>7, <1>8 DEF Sound

LEMMA BeginStays ==
  ASSUME CoreTypeOK, NEW w \in [buf : {0, 1}, last : Addr, id : Nat], Sound(w), WriteSide,
         BeginWrite
  PROVE  Sound(w)'
<1>1. writes' = writes + 1 /\ stored' = stored /\ wr'.buf = 1 - wr.buf /\ mem' = mem
  BY DEF BeginWrite, WriteCommand
<1>2. double' = double
  BY DEF BeginWrite, generics
<1>3. writes \in Nat /\ stored \in Nat /\ w.id \in Nat /\ wr.buf \in {0, 1} /\ w.buf \in {0, 1}
  BY DEF CoreTypeOK, ControllerTypeOK
<1>4. w.id <= stored /\ stored <= writes
  BY DEF Sound, WriteSide
<1>5. writes' = w.id + 1 => wr'.buf # w.buf
  BY <1>1, <1>3 DEF Sound
<1>6. Spare' = Spare
  BY <1>2 DEF Spare
<1>7. Spare \in {0, 1}
  BY DEF Spare
<1>8. writes' <= w.id + Spare => writes <= w.id + Spare
  BY <1>1, <1>3, <1>7
<1>9. \A b : Memory(b)' = Memory(b)
  BY <1>2 DEF Memory
<1>10. w.id <= stored'
  BY <1>1, <1>4
<1>11. writes' # w.id
  BY <1>1, <1>3, <1>4
<1>12. writes' <= w.id + Spare' =>
         \A a \in Addr : a <= w.last => mem'[Memory(w.buf)'][a] = w.id
  BY <1>1, <1>6, <1>8, <1>9 DEF Sound
<1> QED BY <1>5, <1>10, <1>11, <1>12 DEF Sound

LEMMA OthersStay ==
  ASSUME NEW w, Sound(w), UNCHANGED <<double, writes, stored, wr, mem>>
  PROVE  Sound(w)'
  BY DEF Sound, Spare, Memory

\* A complete write is sound.
LEMMA WriteCompletes ==
  ASSUME CoreTypeOK, WriteSide, WriteSample, LastSample
  PROVE  Sound(next)'
<1>1. /\ next' = [buf |-> wr.buf, last |-> wr.addr, id |-> writes]
      /\ writes' = writes /\ stored' = writes /\ wr'.buf = wr.buf /\ double' = double
  BY DEF WriteSample, Sample, generics, CoreTypeOK
<1>2. ASSUME NEW a \in Addr, a <= wr.addr PROVE mem'[Memory(wr.buf)][a] = writes
  <2>1. Memory(wr.buf) \in {0, 1} /\ wr.addr \in Addr
    BY DEF Memory, CoreTypeOK
  <2>2. CASE a = wr.addr
    BY <2>1, <2>2 DEF WriteSample, CoreTypeOK
  <2>3. CASE a # wr.addr
    <3>1. a < wr.addr
      BY <1>2, <2>1, <2>3 DEF Addr
    <3>2. mem[Memory(wr.buf)][a] = writes
      BY <3>1 DEF WriteSide, WriteSample, Sample
    <3> QED BY <3>2, <2>1, <2>3 DEF WriteSample, CoreTypeOK
  <2> QED BY <2>2, <2>3
<1>3. writes \in Nat
  BY DEF CoreTypeOK, ControllerTypeOK
<1>4. next'.buf = wr.buf /\ next'.last = wr.addr /\ next'.id = writes
  BY <1>1
<1>5. Memory(next.buf)' = Memory(wr.buf)
  BY <1>1, <1>4 DEF Memory
<1>6. writes' # next'.id + 1
  BY <1>1, <1>3, <1>4
<1>7. \A a \in Addr : a <= next'.last => mem'[Memory(next.buf)'][a] = next'.id
  BY <1>2, <1>4, <1>5
<1>8. next'.id <= stored' /\ wr'.buf = next'.buf
  BY <1>1, <1>3, <1>4
<1> QED BY <1>6, <1>7, <1>8 DEF Sound

LEMMA WriteSideStep == CoreTypeOK /\ WriteSide /\ [CoreNext]_coreVars => WriteSide'
<1> SUFFICES ASSUME CoreTypeOK, WriteSide, [CoreNext]_coreVars PROVE WriteSide'
  OBVIOUS
<1>0. writes \in Nat /\ stored \in Nat
  BY DEF CoreTypeOK, ControllerTypeOK
<1>1. CASE Reset
  BY <1>1 DEF Reset, ControllerReset, CoreTypeOK, ControllerTypeOK, generics, WriteSide, Memory
<1>2. ASSUME NEW c \in ControlCommands, Control(c) PROVE WriteSide'
  BY <1>2 DEF Control, ControllerSignals, controllerVars, generics, WriteSide, Memory
<1>3. CASE SetNumber
  BY <1>3 DEF SetNumber, NumberCommand, Number, CoreTypeOK, ControllerTypeOK, generics, WriteSide, Memory
<1>4. CASE BeginWrite
  <2>1. writes' = writes + 1 /\ stored' = stored /\ next' = next /\ wr'.addr = 0
    BY <1>4 DEF BeginWrite, WriteCommand
  <2>2. \A a \in Addr : ~(a < wr'.addr)
    BY <2>1 DEF Addr
  <2> QED BY <1>0, <2>1, <2>2 DEF WriteSide
<1>5. CASE WriteSample
  <2>1. CASE LastSample
    BY <1>0, <1>5, <2>1 DEF WriteSample, Sample, WriteSide, CoreTypeOK, ControllerTypeOK
  <2>2. CASE ~LastSample
    <3>1. /\ stored < writes /\ stored' = stored /\ writes' = writes /\ next' = next
          /\ double' = double /\ wr'.buf = wr.buf /\ wr'.addr = Plus1(wr.addr)
      BY <1>5, <2>2 DEF WriteSample, Sample, WriteSide, generics, CoreTypeOK
    <3>2. ASSUME NEW a \in Addr, a < wr'.addr PROVE mem'[Memory(wr.buf)][a] = writes
      <4>1. Memory(wr.buf) \in {0, 1} /\ wr.addr \in Addr
        BY DEF Memory, CoreTypeOK
      <4>2. a = wr.addr \/ a < wr.addr
        BY <3>1, <3>2, <4>1, WaveformControllerAssumption
          DEF WaveformControllerAssumption, Addr, Plus1
      <4>3. CASE a = wr.addr
        BY <1>5, <4>1, <4>3 DEF WriteSample, CoreTypeOK
      <4>4. CASE a # wr.addr
        <5>1. mem[Memory(wr.buf)][a] = writes
          BY <1>5, <4>2, <4>4 DEF WriteSide, WriteSample, Sample
        <5> QED BY <1>5, <5>1, <4>1, <4>4 DEF WriteSample, CoreTypeOK
      <4> QED BY <4>3, <4>4
    <3>3. Memory(wr.buf)' = Memory(wr.buf)
      BY <3>1 DEF Memory
    <3> QED BY <3>1, <3>2, <3>3 DEF WriteSide
  <2> QED BY <2>1, <2>2
<1>6. CASE Read
  BY <1>6 DEF Read, ReadIdle, ReadWaitSync, ReadRunning, ReadOneShot, Enabled, controllerVars,
    generics, WriteSide, Memory
<1>7. CASE UNCHANGED coreVars
  BY <1>7 DEF coreVars, controllerVars, generics, WriteSide, Memory
<1> QED BY <1>1, <1>2, <1>3, <1>4, <1>5, <1>6, <1>7 DEF CoreNext

\* What the output does not do leaves the playback alone.
LEMMA NotRead ==
  ASSUME [CoreNext]_coreVars, ~Read
  PROVE  rd' = rd /\ rep' = rep /\ double' = double
  BY DEF CoreNext, coreVars, Reset, Control, SetNumber, BeginWrite, WriteSample, generics

LEMMA ReadLeaves ==
  ASSUME Read
  PROVE  UNCHANGED <<double, writes, stored, wr, mem, next>>
  BY DEF Read, ReadIdle, ReadWaitSync, ReadRunning, ReadOneShot, Enabled, controllerVars, generics

LEMMA SoundStep ==
  CoreTypeOK /\ WriteSide /\ Sound(next) /\ Sound(rd) /\ [CoreNext]_coreVars => Sound(next)' /\ Sound(rd)'
<1> SUFFICES ASSUME CoreTypeOK, WriteSide, Sound(next), Sound(rd), [CoreNext]_coreVars
             PROVE  Sound(next)' /\ Sound(rd)'
  OBVIOUS
<1> DEFINE W == [buf : {0, 1}, last : Addr, id : Nat]
           core == [buf |-> rd.buf, last |-> rd.last, id |-> rd.id]
<1>1. next \in W /\ core \in W /\ Sound(core)
  BY DEF CoreTypeOK, Sound
<1>2. Sound(core)' => Sound(rd)'
  BY DEF Sound
<1>3. CASE Read
  <2>1. Sound(next)'
    BY <1>3, ReadLeaves DEF Sound, Spare, Memory
  <2>2. \/ rd'.buf = next.buf /\ rd'.last = next.last /\ rd'.id = next.id
        \/ rd'.buf = rd.buf /\ rd'.last = rd.last /\ rd'.id = rd.id
    <3>1. CASE ReadIdle
      BY <3>1 DEF ReadIdle, Loaded
    <3>2. CASE ReadWaitSync
      BY <3>2 DEF ReadWaitSync, Loaded
    <3>3. CASE ReadRunning
      <4>1. CASE rd.sync = 1
        BY <3>3, <4>1 DEF ReadRunning, Loaded
      <4>2. CASE rd.sync # 1
        BY <3>3, <4>2 DEF ReadRunning, CoreTypeOK
      <4> QED BY <4>1, <4>2
    <3>4. CASE ReadOneShot
      BY <3>4 DEF ReadOneShot, CoreTypeOK
    <3> QED BY <1>3, <3>1, <3>2, <3>3, <3>4 DEF Read
  <2> QED BY <1>3, <2>1, <2>2, ReadLeaves DEF Sound, Spare, Memory
<1>4. CASE ~Read
  <2>0. rd' = rd
    BY <1>4, NotRead
  <2>1. CASE WriteSample
    <3>1. Sound(rd)'
      <4>1. PICK w \in W : w = core
        BY <1>1
      <4>2. Sound(w)'
        BY <2>1, <4>1, <1>1, SamplesStay
      <4>3. w.buf = rd'.buf /\ w.last = rd'.last /\ w.id = rd'.id
        BY <2>0, <4>1
      <4> QED BY <4>2, <4>3 DEF Sound
    <3>2. CASE LastSample
      BY <2>1, <3>1, <3>2, WriteCompletes
    <3>3. CASE ~LastSample
      BY <2>1, <3>1, <3>3, <1>1, SamplesStay DEF WriteSample
    <3> QED BY <3>2, <3>3
  <2>2. CASE BeginWrite
    BY <2>2, <1>1, <1>2, BeginStays DEF BeginWrite
  <2>3. CASE UNCHANGED <<double, writes, stored, wr, mem, next>>
    BY <2>0, <2>3 DEF Sound, Spare, Memory
  <2>4. WriteSample \/ BeginWrite \/ UNCHANGED <<double, writes, stored, wr, mem, next>>
    BY <1>4 DEF CoreNext, coreVars, Reset, ControllerReset, Control, ControllerSignals, SetNumber,
      NumberCommand, Number, controllerVars, generics
  <2> QED BY <2>1, <2>2, <2>3, <2>4
<1> QED BY <1>3, <1>4

-----------------------------------------------------------------------------
\* The playback.
LEMMA InsideStep == CoreTypeOK /\ Inside /\ [CoreNext]_coreVars => Inside'
<1> SUFFICES ASSUME CoreTypeOK, Inside, [CoreNext]_coreVars PROVE Inside'
  OBVIOUS
<1>0. /\ rd.addr \in Nat /\ rd.last \in Nat /\ rd.last < Depth /\ rep.n \in Nat /\ rd.sync \in {0, 1}
      /\ next.last \in Nat
  BY WaveformControllerAssumption DEF WaveformControllerAssumption, CoreTypeOK, Addr
<1>1. ASSUME NEW st, rd' = Loaded(st), rep' = NoRep PROVE Inside'
  <2>1. rd'.addr = 0 /\ rd'.last = next.last /\ rd'.sync = 0 /\ rep'.n = 0 /\ rd'.st = st
    BY <1>1 DEF Loaded, NoRep
  <2> QED BY <1>0, <2>1 DEF Inside, Playing, Bounded
<1>2. CASE ReadIdle
  BY <1>1, <1>2 DEF ReadIdle
<1>3. CASE ReadWaitSync
  BY <1>1, <1>3 DEF ReadWaitSync
<1>4. CASE ReadRunning
  <2>1. CASE rd.sync = 1
    BY <1>1, <1>4, <2>1 DEF ReadRunning
  <2>2. CASE rd.sync # 1
    <3>1. /\ rd'.addr = Plus1(rd.addr) /\ rd'.last = rd.last /\ rep'.n = rep.n + 1
          /\ rd'.sync = IF Plus1(rd.addr) = rd.last THEN 1 ELSE 0
          /\ rd'.st \in {"idle", "running"}
      <4>1. rep'.n = rep.n + 1
        BY <1>4, <2>2 DEF ReadRunning, Played
      <4>2. PICK st \in {"idle", "running"} :
              rd' = [rd EXCEPT !.st = st, !.addr = Plus1(@),
                               !.sync = IF Plus1(rd.addr) = rd.last THEN 1 ELSE 0]
        BY <1>4, <2>2 DEF ReadRunning
      <4> QED BY <4>1, <4>2 DEF CoreTypeOK
    <3>2. CASE rd.last > 0
      <4>1. rd.addr < rd.last /\ rep.n = rd.addr
        BY <1>0, <1>4, <2>2, <3>2 DEF Inside, Playing, Bounded, ReadRunning
      <4>2. Plus1(rd.addr) = rd.addr + 1
        BY <4>1, <1>0, WaveformControllerAssumption DEF WaveformControllerAssumption, Plus1
      <4> QED BY <1>0, <3>1, <4>1, <4>2 DEF Inside
    <3>3. CASE ~(rd.last > 0)
      BY <3>1, <3>3 DEF Inside, Bounded, Playing
    <3> QED BY <3>2, <3>3
  <2> QED BY <2>1, <2>2
<1>5. CASE ReadOneShot
  <2>1. CASE rd.addr = rd.last
    BY <1>5, <2>1 DEF ReadOneShot, Inside, Playing, CoreTypeOK
  <2>2. CASE rd.addr # rd.last
    <3>1. /\ rd'.addr = Plus1(rd.addr) /\ rd'.last = rd.last /\ rep'.n = rep.n + 1
          /\ rd'.st = "oneshot"
      BY <1>5, <2>2 DEF ReadOneShot, Played, CoreTypeOK
    <3>2. rd.addr < rd.last /\ rep.n = rd.addr
      BY <1>0, <1>5, <2>2 DEF Inside, Playing, Bounded, ReadOneShot
    <3>3. Plus1(rd.addr) = rd.addr + 1
      BY <3>2, <1>0, WaveformControllerAssumption DEF WaveformControllerAssumption, Plus1
    <3> QED BY <1>0, <3>1, <3>2, <3>3 DEF Inside
  <2> QED BY <2>1, <2>2
<1>6. CASE ~Read
  BY <1>6, NotRead DEF Inside, Playing, Bounded
<1> QED BY <1>2, <1>3, <1>4, <1>5, <1>6 DEF Read

\* What is heard now is of the waveform that is played.
LEMMA HeardNow ==
  ASSUME CoreTypeOK, Inside, Sound(rd), OneWaveform, Playing, Bounded, writes <= rd.id + Spare
  PROVE  Heard \subseteq {rd.id}
<1>1. rd.addr \in Addr /\ rd.addr <= rd.last
  BY DEF CoreTypeOK, Inside
<1> QED BY <1>1 DEF Sound, OneWaveform, Heard

LEMMA OneWaveformStep ==
  CoreTypeOK /\ Inside /\ Sound(rd) /\ OneWaveform /\ [CoreNext]_coreVars => OneWaveform'
<1> SUFFICES ASSUME CoreTypeOK, Inside, Sound(rd), OneWaveform, [CoreNext]_coreVars PROVE OneWaveform'
  OBVIOUS
<1>1. ASSUME rep' = NoRep PROVE OneWaveform'
  BY <1>1 DEF OneWaveform, NoRep
<1>2. ASSUME rep' = Played, Read, Playing, rd'.id = rd.id, rd'.last = rd.last,
             rd'.st \in {"idle", rd.st}
      PROVE  OneWaveform'
  <2>1. writes' = writes /\ Spare' = Spare
    BY <1>2, ReadLeaves DEF Spare
  <2>2. rep'.ids = Heard
    BY <1>2 DEF Played
  <2>3. Playing' /\ Bounded' => Bounded
    BY <1>2 DEF Playing, Bounded
  <2> QED BY <1>2, <2>1, <2>2, <2>3, HeardNow DEF OneWaveform
<1>3. CASE ReadIdle \/ ReadWaitSync
  BY <1>1, <1>3 DEF ReadIdle, ReadWaitSync
<1>4. CASE ReadRunning
  <2>1. CASE rd.sync = 1
    BY <1>1, <1>4, <2>1 DEF ReadRunning
  <2>2. CASE rd.sync # 1
    BY <1>2, <1>4, <2>2 DEF ReadRunning, Read, Playing, CoreTypeOK
  <2> QED BY <2>1, <2>2
<1>5. CASE ReadOneShot
  BY <1>2, <1>5 DEF ReadOneShot, Read, Playing, CoreTypeOK
<1>6. CASE ~Read
  <2>1. rd' = rd /\ rep' = rep /\ Spare' = Spare
    BY <1>6, NotRead DEF Spare
  <2>2. writes <= writes'
    <3>1. writes' = writes \/ writes' = writes + 1
      BY <1>6 DEF CoreNext, coreVars, controllerVars, Reset, ControllerReset, Control, ControllerSignals,
        SetNumber, NumberCommand, Number, BeginWrite, WriteCommand, WriteSample, Sample
    <3> QED BY <3>1 DEF CoreTypeOK, ControllerTypeOK
  <2>3. writes' \in Nat /\ writes \in Nat /\ rd.id \in Nat /\ Spare \in {0, 1}
    BY TypeStep DEF CoreTypeOK, ControllerTypeOK, Spare
  <2>4. writes' <= rd.id + Spare => writes <= rd.id + Spare
    BY <2>2, <2>3
  <2> QED BY <2>1, <2>4 DEF OneWaveform, Playing, Bounded
<1> QED BY <1>3, <1>4, <1>5, <1>6 DEF Read

-----------------------------------------------------------------------------
LEMMA Initially == CoreInit => CoreInv
<1> SUFFICES ASSUME CoreInit PROVE CoreInv
  OBVIOUS
<1>1. CoreTypeOK
  BY TypeInit
<1>2. writes = 0 /\ stored = 0 /\ ctl.st = "init" /\ rd.st = "idle" /\ wr.buf = 0
  BY DEF CoreInit, ControllerInit
<1>3. next.id = 0 /\ next.buf = 0 /\ rd.id = 0 /\ rd.buf = 0
  BY DEF CoreInit
<1>4. \A a \in Addr : mem[Memory(0)][a] = 0
  BY DEF CoreInit, Memory
<1>5. WriteSide
  BY <1>2, <1>3 DEF WriteSide
<1>6. Sound(next) /\ Sound(rd)
  BY <1>2, <1>3, <1>4 DEF Sound
<1> QED BY <1>1, <1>2, <1>5, <1>6 DEF CoreInv, Inside, OneWaveform, Playing

LEMMA Always == CoreSpec => []CoreInv
<1>1. CoreInv /\ [CoreNext]_coreVars => CoreInv'
  BY TypeStep, WriteSideStep, SoundStep, InsideStep, OneWaveformStep DEF CoreInv
<1> QED BY Initially, <1>1, PTL DEF CoreSpec

\* The state has its type: addresses stay inside the memory.
THEOREM TypeCorrect == CoreSpec => []CoreTypeOK
<1>1. CoreInv => CoreTypeOK
  BY DEF CoreInv
<1> QED BY Always, <1>1, PTL

\* What is played is one waveform, whole, until a second write (without double
\* buffer: a first) begins before the generator has switched.
THEOREM Clean == CoreSpec => []CleanSwitch
<1>1. CoreInv => CleanSwitch
  BY HeardNow DEF CoreInv, CleanSwitch, NotOverwritten, Spare
<1> QED BY Always, <1>1, PTL

\* The playback never leaves its waveform: every repetition and every one-shot
\* has all its samples, and no other.
THEOREM WholeRepetitions == CoreSpec => RepetitionLength
<1> DEFINE A == /\ Playing /\ Bounded /\ rd' # rd
                /\ rep' = NoRep \/ (rd.st = "oneshot" /\ rd'.st = "idle")
                => rep.n = rd.last
<1>1. CoreInv /\ [CoreNext]_coreVars => [A]_coreVars
  <2> SUFFICES ASSUME CoreInv, [CoreNext]_coreVars, Playing, Bounded, rd' # rd,
                      rep' = NoRep \/ (rd.st = "oneshot" /\ rd'.st = "idle")
               PROVE  rep.n = rd.last
    OBVIOUS
  <2>1. Read
    BY NotRead
  <2>2. CASE rd.st = "running"
    <3>1. ReadRunning /\ rep' = NoRep
      BY <2>1, <2>2 DEF Read, ReadIdle, ReadWaitSync, ReadOneShot
    <3>2. rd.sync = 1
      <4>1. Played.n # 0 /\ NoRep.n = 0
        BY DEF Played, NoRep, CoreInv, CoreTypeOK
      <4> QED BY <3>1, <4>1 DEF ReadRunning
    <3> QED BY <2>2, <3>2 DEF CoreInv, Inside
  <2>3. CASE rd.st = "oneshot"
    <3>1. ReadOneShot
      BY <2>1, <2>3 DEF Read, ReadIdle, ReadWaitSync, ReadRunning
    <3>2. rd.addr = rd.last
      <4>1. Played.n # 0 /\ NoRep.n = 0
        BY DEF Played, NoRep, CoreInv, CoreTypeOK
      <4> QED BY <3>1, <4>1, <2>3 DEF ReadOneShot, CoreInv, CoreTypeOK
    <3> QED BY <3>2 DEF CoreInv, Inside
  <2> QED BY <2>2, <2>3 DEF Playing
<1>2. [][A]_coreVars => RepetitionLength
  BY PTL DEF RepetitionLength
<1> QED BY Always, <1>1, <1>2, PTL DEF CoreSpec

=============================================================================
