--------------------------- MODULE BusAccessProofs ---------------------------
(***************************************************************************)
(* The BusAccess library, for every core, every length of the connection   *)
(* and all data: library and core keep in step over every failure, what    *)
(* the bus sees is a RemoteBus, and the misc signals arrive.               *)
(***************************************************************************)
EXTENDS BusAccess, SequenceTheorems, FiniteSetTheorems, WellFoundedInduction, TLAPS

-----------------------------------------------------------------------------
(***************************************************************************)
(* The core and the tokens on their way to it.  w is the width of the misc *)
(* signals, c the registers of the core, d the tokens.                     *)
(***************************************************************************)
\* A token that the core is waiting for, and its registers when it has taken it.
Legal(c, t) ==
  \/ t.t = "reset"
  \/ c.st = "idle" /\ t.t \in Commands \cup {"Q", "R", "Rlock"}
  \/ c.st \in Commands /\ t.t = "field"

Took(w, c, t) ==
  CASE t.t = "reset"          -> ResetCore
    [] t.t \in Commands       -> [st |-> t.t, address |-> c.address, misc |-> c.misc, lock |-> c.lock]
    [] t.t \in {"R", "Rlock"} -> [st |-> "read", address |-> c.address, misc |-> c.misc,
                                  lock |-> t.t = "Rlock"]
    [] t.t = "Q"              -> c
    [] OTHER -> [st      |-> IF c.st \in {"W", "Wlock"} THEN "write" ELSE "idle",
                 address |-> IF c.st = "A" THEN t.v ELSE c.address,
                 misc    |-> IF c.st = "M" THEN Field(t.v, w) ELSE c.misc,
                 lock    |-> IF c.st \in {"W", "Wlock"} THEN c.st = "Wlock" ELSE c.lock]

\* The registers after each token, and after the last one.
Run(w, c, d) ==
  LET r[i \in 0..Len(d)] == IF i = 0 THEN c ELSE Took(w, r[i - 1], d[i]) IN r

Final(w, c, d) == Run(w, c, d)[Len(d)]

Lawful(w, c, d) == \A i \in 1..Len(d) : Legal(Run(w, c, d)[i - 1], d[i])

Busy(c) == c.st \in {"read", "write"}

LEMMA LeastNumber ==
  ASSUME NEW T, T \subseteq Nat, T # {}
  PROVE  \E x \in T : \A y \in T : x <= y
  <1>1. IsWellFoundedOn(OpToRel(<, Nat), Nat)
    BY NatLessThanWellFounded
  <1>2. PICK x \in T : \A y \in T : ~ (<<y, x>> \in OpToRel(<, Nat))
    BY <1>1, WFMin
  <1>3. \A y \in T : ~(y < x)
    BY <1>2 DEF OpToRel
  <1> QED BY <1>3

IsRun(r, w, c, d, n) == r = [i \in 0..n |-> IF i = 0 THEN c ELSE Took(w, r[i - 1], d[i])]

\* The registers after the first n tokens, for every n: a number for which there are
\* none would have a least one, and one token more is one step more.
LEMMA RunExists ==
  ASSUME NEW w, NEW c, NEW d, NEW n \in Nat
  PROVE  \E r : IsRun(r, w, c, d, n)
  <1> DEFINE T == {k \in Nat : ~ \E r : IsRun(r, w, c, d, k)}
  <1>1. T = {}
    <2> SUFFICES ASSUME T # {} PROVE FALSE
      OBVIOUS
    <2>1. PICK k \in T : \A j \in T : k <= j
      <3>1. T \subseteq Nat
        OBVIOUS
      <3> HIDE DEF T
      <3> QED BY <3>1, LeastNumber
    <2>2. k \in Nat /\ ~ \E r : IsRun(r, w, c, d, k)
      OBVIOUS
    <2>3. k # 0
      <3>1. IsRun([i \in 0..0 |-> c], w, c, d, 0)
        BY DEF IsRun
      <3> QED BY <2>2, <3>1
    <2>4. PICK r : IsRun(r, w, c, d, k - 1)
      BY <2>1, <2>2, <2>3
    <2> DEFINE s == [i \in 0..k |-> IF i = k THEN Took(w, r[k - 1], d[k]) ELSE r[i]]
    <2>5. \A i \in 0..k : s[i] = IF i = 0 THEN c ELSE Took(w, s[i - 1], d[i])
      <3> SUFFICES ASSUME NEW i \in 0..k PROVE s[i] = IF i = 0 THEN c ELSE Took(w, s[i - 1], d[i])
        OBVIOUS
      <3>1. CASE i = k
        BY <3>1, <2>2, <2>3
      <3>2. CASE i # k
        <4>1. i \in 0..k - 1 /\ s[i] = r[i] /\ (i # 0 => s[i - 1] = r[i - 1])
          BY <3>2, <2>2, <2>3
        <4> QED BY <4>1, <2>4 DEF IsRun
      <3> QED BY <3>1, <3>2
    <2>6. IsRun(s, w, c, d, k)
      BY <2>5 DEF IsRun
    <2> QED BY <2>2, <2>6
  <1> QED BY <1>1

\* There is one such run only, so Run is one.
LEMMA RunValue ==
  ASSUME NEW w, NEW c, NEW d, Len(d) \in Nat
  PROVE  /\ DOMAIN Run(w, c, d) = 0..Len(d)
         /\ Run(w, c, d)[0] = c
         /\ \A i \in 1..Len(d) : Run(w, c, d)[i] = Took(w, Run(w, c, d)[i - 1], d[i])
  <1> DEFINE r == Run(w, c, d)
  <1>1. r = CHOOSE s : IsRun(s, w, c, d, Len(d))
    BY DEF Run, IsRun
  <1>2. IsRun(r, w, c, d, Len(d))
    BY <1>1, RunExists
  <1> HIDE DEF r
  <1>3. DOMAIN r = 0..Len(d) /\ r[0] = c /\ \A i \in 1..Len(d) : r[i] = Took(w, r[i - 1], d[i])
    BY <1>2 DEF IsRun
  <1> QED BY <1>3 DEF r

LEMMA RunUnique ==
  ASSUME NEW w, NEW c, NEW d, Len(d) \in Nat, NEW r, r[0] = c,
         \A i \in 1..Len(d) : r[i] = Took(w, r[i - 1], d[i])
  PROVE  \A i \in 0..Len(d) : Run(w, c, d)[i] = r[i]
  <1> DEFINE T == {i \in 0..Len(d) : Run(w, c, d)[i] # r[i]}
  <1>1. T = {}
    <2> SUFFICES ASSUME T # {} PROVE FALSE
      OBVIOUS
    <2>1. PICK k \in T : \A j \in T : k <= j
      <3>1. T \subseteq Nat
        OBVIOUS
      <3> HIDE DEF T
      <3> QED BY <3>1, LeastNumber
    <2>2. k \in 0..Len(d) /\ Run(w, c, d)[k] # r[k]
      BY <2>1
    <2>3. k # 0
      BY <2>2, RunValue
    <2>4. k - 1 \in 0..Len(d) /\ Run(w, c, d)[k - 1] = r[k - 1]
      BY <2>1, <2>2, <2>3
    <2>5. Run(w, c, d)[k] = Took(w, Run(w, c, d)[k - 1], d[k])
      BY <2>2, <2>3, RunValue
    <2> QED BY <2>2, <2>3, <2>4, <2>5
  <1> QED BY <1>1

LEMMA NothingToTake ==
  ASSUME NEW w, NEW c
  PROVE  Final(w, c, <<>>) = c /\ Lawful(w, c, <<>>)
  <1>1. Len(<<>>) = 0
    OBVIOUS
  <1> QED BY <1>1, RunValue DEF Final, Lawful

\* One more token is sent.
LEMMA TakesAppended ==
  ASSUME NEW w, NEW c, NEW S, NEW d \in Seq(S), NEW t \in S
  PROVE  /\ Final(w, c, Append(d, t)) = Took(w, Final(w, c, d), t)
         /\ Lawful(w, c, d) /\ Legal(Final(w, c, d), t) => Lawful(w, c, Append(d, t))
  <1> DEFINE e == Append(d, t)
             n == Len(d)
             r == Run(w, c, e)
  <1>1. n \in Nat /\ Len(e) = n + 1 /\ e[n + 1] = t /\ \A i \in 1..n : e[i] = d[i]
    BY AppendProperties, LenProperties
  <1>2. r[0] = c /\ \A i \in 1..n + 1 : r[i] = Took(w, r[i - 1], e[i])
    BY <1>1, RunValue
  <1> HIDE DEF e, r
  <1>3. \A i \in 1..n : r[i] = Took(w, r[i - 1], d[i])
    BY <1>1, <1>2
  <1>4. \A i \in 0..n : Run(w, c, d)[i] = r[i]
    BY <1>1, <1>2, <1>3, RunUnique
  <1>5. Final(w, c, d) = r[n]
    BY <1>1, <1>4 DEF Final
  <1>6. r[n + 1] = Took(w, r[n], t)
    BY <1>1, <1>2
  <1>7. Final(w, c, e) = Took(w, Final(w, c, d), t)
    BY <1>1, <1>5, <1>6 DEF Final, r
  <1>8. ASSUME Lawful(w, c, d), Legal(Final(w, c, d), t), NEW i \in 1..n + 1
        PROVE  Legal(r[i - 1], e[i])
    <2>1. CASE i = n + 1
      BY <2>1, <1>1, <1>5, <1>8
    <2>2. CASE i \in 1..n
      <3>1. i - 1 \in 0..n
        BY <2>2, <1>1
      <3> QED BY <2>2, <3>1, <1>1, <1>4, <1>8 DEF Lawful
    <2> QED BY <2>1, <2>2, <1>1
  <1>9. Lawful(w, c, d) /\ Legal(Final(w, c, d), t) => Lawful(w, c, e)
    BY <1>1, <1>8 DEF Lawful, r
  <1> QED BY <1>7, <1>9 DEF e

\* The core takes the first token.
LEMMA TakesFirst ==
  ASSUME NEW w, NEW c, NEW S, NEW d \in Seq(S), d # <<>>
  PROVE  /\ Final(w, c, d) = Final(w, Took(w, c, Head(d)), Tail(d))
         /\ Lawful(w, c, d) => Legal(c, Head(d)) /\ Lawful(w, Took(w, c, Head(d)), Tail(d))
         /\ \A b : Took(w, b, Head(d)) = Took(w, c, Head(d)) =>
              /\ Final(w, b, d) = Final(w, c, d)
              /\ Legal(b, Head(d)) /\ Lawful(w, c, d) => Lawful(w, b, d)
  <1> DEFINE e == Tail(d)
             n == Len(d)
  <1>1. n \in Nat /\ n > 0 /\ Len(e) = n - 1 /\ Head(d) = d[1]
        /\ \A i \in 1..n - 1 : e[i] = d[i + 1]
    BY HeadTailProperties, EmptySeq, LenProperties
  <1> HIDE DEF e
  <1>2. ASSUME NEW b
        PROVE  \A i \in 0..n - 1 : Run(w, b, d)[i + 1] = Run(w, Took(w, b, Head(d)), e)[i]
    <2> DEFINE r == Run(w, b, d)
               s == [i \in 0..n - 1 |-> r[i + 1]]
    <2>1. r[0] = b /\ \A i \in 1..n : r[i] = Took(w, r[i - 1], d[i])
      BY <1>1, RunValue
    <2> HIDE DEF r
    <2>2. s[0] = Took(w, b, Head(d))
      <3>1. 1 \in 1..n /\ 0 \in 0..n - 1
        BY <1>1
      <3> QED BY <1>1, <2>1, <3>1
    <2>3. ASSUME NEW i \in 1..n - 1 PROVE s[i] = Took(w, s[i - 1], e[i])
      <3>1. i + 1 \in 1..n /\ i \in 0..n - 1 /\ i - 1 \in 0..n - 1 /\ (i + 1) - 1 = i /\ (i - 1) + 1 = i
        BY <1>1
      <3> QED BY <3>1, <2>1, <1>1
    <2>4. \A i \in 0..n - 1 : s[i] = r[i + 1]
      OBVIOUS
    <2> HIDE DEF s
    <2>5. \A i \in 0..Len(e) : Run(w, Took(w, b, Head(d)), e)[i] = s[i]
      BY <1>1, <2>2, <2>3, RunUnique
    <2> QED BY <1>1, <2>4, <2>5 DEF r
  <1>3. \A b : Final(w, b, d) = Final(w, Took(w, b, Head(d)), e)
    <2> TAKE b
    <2>1. n - 1 \in 0..n - 1 /\ (n - 1) + 1 = n
      BY <1>1
    <2> QED BY <1>1, <1>2, <2>1 DEF Final
  <1>4. ASSUME Lawful(w, c, d)
        PROVE  Legal(c, Head(d)) /\ Lawful(w, Took(w, c, Head(d)), e)
    <2>1. \A i \in 1..n : Legal(Run(w, c, d)[i - 1], d[i])
      BY <1>4 DEF Lawful
    <2>2. Legal(Run(w, c, d)[0], d[1]) /\ Run(w, c, d)[0] = c
      BY <1>1, <2>1, RunValue
    <2>3. ASSUME NEW i \in 1..n - 1
          PROVE  Legal(Run(w, Took(w, c, Head(d)), e)[i - 1], e[i])
      <3>1. i + 1 \in 1..n /\ i - 1 \in 0..n - 1 /\ (i + 1) - 1 = i /\ (i - 1) + 1 = i
        BY <1>1
      <3>2. Run(w, Took(w, c, Head(d)), e)[i - 1] = Run(w, c, d)[i]
        BY <1>2, <3>1
      <3> QED BY <1>1, <2>1, <3>1, <3>2
    <2> QED BY <1>1, <2>2, <2>3 DEF Lawful
  <1>5. ASSUME NEW b, Took(w, b, Head(d)) = Took(w, c, Head(d)), Legal(b, Head(d)), Lawful(w, c, d)
        PROVE  Lawful(w, b, d)
    <2>1. \A i \in 1..n : Legal(Run(w, c, d)[i - 1], d[i])
      BY <1>5 DEF Lawful
    <2>2. ASSUME NEW i \in 1..n PROVE Legal(Run(w, b, d)[i - 1], d[i])
      <3>1. CASE i = 1
        BY <1>1, <1>5, <3>1, RunValue
      <3>2. CASE i # 1
        <4>1. i - 2 \in 0..n - 1 /\ (i - 2) + 1 = i - 1
          BY <1>1, <3>2
        <4>2. Run(w, b, d)[i - 1] = Run(w, c, d)[i - 1]
          BY <1>2, <1>5, <4>1
        <4> QED BY <2>1, <4>2
      <3> QED BY <3>1, <3>2
    <2> QED BY <2>2 DEF Lawful
  <1> QED BY <1>3, <1>4, <1>5 DEF e

\* A reset is only ever the first token, and after a question nothing is sent before
\* its answer.
ResetFirst(d) == \A i \in DOMAIN d : d[i].t = "reset" => i = 1
QuestionLast(d) == \A i \in DOMAIN d : d[i].t = "Q" => i = Len(d)

\* A command that starts an access is the last one.
LEMMA AccessIsLast ==
  ASSUME NEW w, NEW c, NEW S, NEW d \in Seq(S), Lawful(w, c, d), ResetFirst(d),
         NEW i \in 1..Len(d), Busy(Run(w, c, d)[i])
  PROVE  i = Len(d)
  <1> DEFINE n == Len(d)
  <1>1. n \in Nat /\ DOMAIN d = 1..n /\ i \in 1..n
    BY LenProperties
  <1> SUFFICES ASSUME i # n PROVE FALSE
    OBVIOUS
  <1>2. i + 1 \in 1..n /\ (i + 1) - 1 = i /\ i + 1 # 1
    <2> HIDE DEF n
    <2> QED BY <1>1
  <1>3. Legal(Run(w, c, d)[i], d[i + 1])
    BY <1>2 DEF Lawful
  <1>4. d[i + 1].t # "reset"
    BY <1>1, <1>2 DEF ResetFirst
  <1> QED BY <1>3, <1>4 DEF Legal, Busy, Commands

LEMMA AccessIsFirst ==
  ASSUME NEW w, NEW c, NEW S, NEW d \in Seq(S), Lawful(w, c, d), ResetFirst(d),
         d # <<>>, Busy(Took(w, c, Head(d)))
  PROVE  Len(d) = 1 /\ Tail(d) = <<>>
  <1>1. Len(d) \in Nat /\ Len(d) > 0 /\ Head(d) = d[1]
    BY HeadTailProperties, EmptySeq, LenProperties
  <1>2. Run(w, c, d)[1] = Took(w, c, Head(d))
    BY <1>1, RunValue
  <1>3. 1 \in 1..Len(d)
    BY <1>1
  <1>4. Len(d) = 1
    BY <1>2, <1>3, AccessIsLast
  <1>5. Tail(d) \in Seq(S) /\ Len(Tail(d)) = 0
    BY <1>4, HeadTailProperties
  <1> QED BY <1>4, <1>5, EmptySeq

\* Its command is still on the way, or the core waits for its data.
LEMMA AccessIsOnItsWay ==
  ASSUME NEW w, NEW c, NEW S, NEW d \in Seq(S), Lawful(w, c, d), d # <<>>, Busy(Final(w, c, d))
  PROVE  \/ c.st \in {"W", "Wlock"}
         \/ \E i \in DOMAIN d : d[i].t \in {"W", "Wlock", "R", "Rlock"}
  <1> DEFINE n == Len(d)
             r == Run(w, c, d)
  <1>1. n \in Nat /\ n > 0 /\ DOMAIN d = 1..n
    BY EmptySeq, LenProperties
  <1>2. r[0] = c /\ \A i \in 1..n : r[i] = Took(w, r[i - 1], d[i]) /\ Legal(r[i - 1], d[i])
    BY <1>1, RunValue DEF Lawful
  <1> HIDE DEF r
  <1>3. n \in 1..n /\ r[n] = Took(w, r[n - 1], d[n]) /\ Legal(r[n - 1], d[n]) /\ Busy(r[n])
    BY <1>1, <1>2 DEF Final, r
  <1>4. d[n].t \in {"R", "Rlock"} \/ r[n - 1].st \in {"W", "Wlock"}
    BY <1>3 DEF Took, Legal, Busy, Commands, ResetCore
  <1>5. ASSUME r[n - 1].st \in {"W", "Wlock"}, n # 1
        PROVE  d[n - 1].t \in {"W", "Wlock"}
    <2>1. n - 1 \in 1..n /\ r[n - 1] = Took(w, r[n - 2], d[n - 1]) /\ Legal(r[n - 2], d[n - 1])
      BY <1>1, <1>2, <1>5
    <2> QED BY <2>1, <1>5 DEF Took, Legal, Commands, ResetCore
  <1> QED BY <1>1, <1>2, <1>3, <1>4, <1>5

\* Tokens at the end are dropped: what is left is lawful, and no access is among it
\* unless nothing was dropped.
LEMMA Dropped ==
  ASSUME NEW w, NEW c, NEW S, NEW d \in Seq(S), NEW e \in Prefixes(d)
  PROVE  /\ e \in Seq(S)
         /\ d = <<>> => e = <<>>
         /\ DOMAIN e \subseteq DOMAIN d /\ \A i \in DOMAIN e : e[i] = d[i]
         /\ ResetFirst(d) => ResetFirst(e)
         /\ QuestionLast(d) => QuestionLast(e)
         /\ Lawful(w, c, d) => Lawful(w, c, e)
         /\ Lawful(w, c, d) /\ ResetFirst(d) /\ Busy(Final(w, c, e)) /\ e # <<>> => e = d
  <1>1. PICK l \in 0..Len(d) : e = SubSeq(d, 1, l)
    BY DEF Prefixes
  <1> DEFINE n == Len(d)
  <1>2. n \in Nat /\ l \in Nat /\ l <= n /\ DOMAIN d = 1..n
    BY LenProperties
  <1>3. e \in Seq(S) /\ Len(e) = l /\ DOMAIN e = 1..l /\ \A i \in 1..l : e[i] = d[i]
    BY <1>1, <1>2, SubSeqProperties, LenProperties
  <1>4. l = n => e = d
    BY <1>1, <1>2, <1>3, SeqEqual
  <1>5. \A i \in 0..l : Run(w, c, e)[i] = Run(w, c, d)[i]
    <2> DEFINE r == Run(w, c, d)
    <2>1. r[0] = c /\ \A i \in 1..n : r[i] = Took(w, r[i - 1], d[i])
      BY <1>2, RunValue
    <2> HIDE DEF r
    <2>2. \A i \in 1..l : r[i] = Took(w, r[i - 1], e[i])
      BY <2>1, <1>2, <1>3
    <2>3. \A i \in 0..Len(e) : Run(w, c, e)[i] = r[i]
      <3>1. Len(e) \in Nat /\ \A i \in 1..Len(e) : r[i] = Took(w, r[i - 1], e[i])
        BY <1>2, <1>3, <2>2
      <3> QED BY <2>1, <3>1, RunUnique
    <2> QED BY <1>3, <2>3 DEF r
  <1>6. Lawful(w, c, d) => Lawful(w, c, e)
    BY <1>2, <1>3, <1>5 DEF Lawful
  <1>7. ASSUME Lawful(w, c, d), ResetFirst(d), Busy(Final(w, c, e)), e # <<>> PROVE e = d
    <2>1. l \in 1..n
      BY <1>2, <1>3, <1>7, EmptySeq
    <2>2. Busy(Run(w, c, d)[l])
      BY <1>2, <1>3, <1>5, <1>7 DEF Final
    <2> QED BY <1>4, <1>7, <2>1, <2>2, AccessIsLast
  <1>8. d = <<>> => e = <<>>
    BY <1>2, <1>3, EmptySeq
  <1>9. DOMAIN e \subseteq DOMAIN d /\ \A i \in DOMAIN e : e[i] = d[i]
    BY <1>2, <1>3
  <1>10. ResetFirst(d) => ResetFirst(e)
    BY <1>9 DEF ResetFirst
  <1>11. QuestionLast(d) => QuestionLast(e)
    BY <1>2, <1>3 DEF QuestionLast
  <1> QED BY <1>3, <1>6, <1>7, <1>8, <1>9, <1>10, <1>11

-----------------------------------------------------------------------------
(***************************************************************************)
(* The invariant.                                                          *)
(***************************************************************************)
Words == Data \cup Int
TokenNames == Commands \cup {"none", "field", "Q", "R", "Rlock", "reset"}
Tokens == [t : TokenNames, v : Words]
UpTokens == [t : {"id", "widths", "ACK", "NAK", "data"}, v : {0}]
Steps == [do : {"send", "receive", "local"}, tok : Tokens, n : 0..2,
          as : {"nothing", "id", "widths", "answer", "shadow", "modify"}]
CoreStates == {"idle", "read", "write"} \cup Commands
AccessCalls == {"read", "write", "rmw"}

TypeOK ==
  /\ open \in BOOLEAN /\ gone \in BOOLEAN
  /\ call \in AccessCalls \cup {"none", "set", "open", "close"}
  /\ todo \in Seq(Steps) /\ down \in Seq(Tokens) /\ up \in Seq(UpTokens)
  /\ widths \in Cores /\ shadow \in Address
  /\ core.st \in CoreStates
  /\ core = [st |-> core.st, address |-> core.address, misc |-> core.misc, lock |-> core.lock]
  /\ req \in Requests \cup {NoRequest} /\ made \in {"no", "started", "ACK", "NAK"}
  /\ req.addr \in Address

\* When there is a connection, a call and a request.
Connections ==
  /\ call # "none" => open
  /\ req # NoRequest => call \in AccessCalls
  /\ req = NoRequest => made = "no"
  /\ Busy(core) <=> bus # NoRequest
  /\ \A i \in DOMAIN down : down[i].t = "reset" => call = "open" \/ ~open

\* The tokens on their way to the core.
TokensRight == Lawful(widths.misc, core, down) /\ ResetFirst(down) /\ QuestionLast(down)

\* The steps that are left of a call, counted to the answer that ends its waiting:
\* the answer to an access, or the widths.  After it, a read_modify_write still
\* modifies, and an open sends the address.
Behind ==
  IF req # NoRequest THEN IF call = "rmw" /\ req.op = "read" THEN 1 ELSE 0
  ELSE IF call = "open" /\ widths.addr # 0 THEN 2 ELSE 0

Ahead == Len(todo) - Behind

CommandAt == IF req.op = "write" THEN 3 ELSE 2

CommandOf(r) ==
  IF r.op = "write" THEN IF r.lock THEN "Wlock" ELSE "W" ELSE IF r.lock THEN "Rlock" ELSE "R"

\* The step with k - 1 steps ahead of the answer.
AccessStep(k) ==
  CASE k = 0             -> [Local("modify") EXCEPT !.n = req.addr]
    [] k = 1             -> Receive(IF req.op = "write" THEN 1 ELSE 2, "answer")
    [] k = CommandAt     -> Send(CommandOf(req), 0)
    [] k = CommandAt + 1 -> [Local("shadow") EXCEPT !.n = req.addr]
    [] k = CommandAt + 2 -> Send("field", req.addr)
    [] k = CommandAt + 3 -> Send("A", 0)
    [] OTHER             -> Send("field", req.data)

SizesStepAt(k) ==
  CASE k = -1 -> Send("field", 0)
    [] k = 0  -> Send("A", 0)
    [] k = 1  -> Receive(1, "widths")
    [] k = 2  -> Receive(1, "id")
    [] k = 3  -> Send("Q", 0)
    [] OTHER  -> Send("reset", 0)

\* While the answer to an access is waited for.
AccessPlan ==
  req # NoRequest =>
    /\ Ahead \in 1..CommandAt + 3
    /\ \A i \in 1..Len(todo) : todo[i] = AccessStep(Ahead + 1 - i)
    /\ made # "no" => Ahead = 1
    /\ Ahead <= CommandAt => shadow = req.addr
    /\ call = "rmw" => IF req.op = "read" THEN req.lock ELSE ~req.lock /\ Ahead <= CommandAt

\* All other calls, and what is left of an access when it is answered.
OtherPlan ==
  req = NoRequest =>
    /\ call = "none" => todo = <<>>
    /\ call \in AccessCalls =>
         \/ todo = <<>>
         \/ call = "rmw" /\ Len(todo) = 1 /\ todo[1] = [Local("modify") EXCEPT !.n = shadow]
    /\ call = "set" =>
         /\ Len(todo) <= 2
         /\ \A i \in 1..Len(todo) :
              IF i = Len(todo) THEN todo[i] = Send("field", todo[i].tok.v)
                               ELSE todo[i] \in {Send("M", 0), Send("S", 0)}
    /\ call \in {"open", "close"} =>
         /\ Ahead <= IF call = "open" THEN 4 ELSE 3
         /\ \A i \in 1..Len(todo) : todo[i] = SizesStepAt(Ahead + 1 - i)
    /\ call = "open" => shadow = 0

Live == open /\ ~gone

\* What the tokens on their way will have made of the core, as the call goes on.
End == Final(widths.misc, core, down)

AccessProgress ==
  Live /\ req # NoRequest =>
    /\ Ahead = CommandAt + 3 => End.st = "idle"
    /\ Ahead = CommandAt + 2 => End.st = "A"
    /\ Ahead \in {CommandAt, CommandAt + 1} => End.st = "idle" /\ End.address = req.addr
    /\ Ahead = 2 /\ req.op = "write" => End.st = CommandOf(req) /\ End.address = req.addr
    /\ Ahead = 1 /\ made = "no" => End.st = req.op /\ down # <<>>
    /\ made # "no" => down = <<>> /\ core.address = shadow /\ core.lock = req.lock
    /\ made = "started" => core.st = req.op
    /\ made \in {"ACK", "NAK"} => core.st = "idle"

\* Between the accesses of a read_modify_write.
Between ==
  Live /\ call = "rmw" =>
    /\ req = NoRequest /\ todo # <<>> => core.lock /\ down = <<>>
    /\ req.op = "write" /\ made = "no" =>
         /\ core.lock /\ core.address = req.addr /\ core.st \in {"idle", "W"}
         /\ \A i \in DOMAIN down : down[i].t \in {"W", "field"}

OtherProgress ==
  Live /\ req = NoRequest =>
    /\ call \notin {"set", "open"} => End.st = "idle"
    /\ call # "open" => End.address = shadow
    /\ call = "set" => IF Len(todo) = 1 THEN End.st \in {"M", "S"} ELSE End.st = "idle"
    /\ call = "open" => CASE Ahead = 4  -> down = <<>>
                          [] Ahead = -1 -> End = [st |-> "A", address |-> 0, misc |-> 0, lock |-> FALSE]
                          [] OTHER      -> End = ResetCore

\* A question that is not answered is waited for, and nothing is behind it.
Questions ==
  /\ Live => \A i \in DOMAIN down : down[i].t = "Q" => call \in {"open", "close"} /\ Ahead = 2
  /\ call \in {"open", "close"} /\ Ahead = 1 => down = <<>>
  /\ call = "close" /\ Ahead = 0 => down = <<>>
  /\ call = "open" /\ Ahead <= 1 => \A i \in DOMAIN down : down[i].t # "reset"
  /\ Live /\ call = "open" /\ Ahead = 3 => \A i \in DOMAIN down : down[i].t = "reset"

\* The access that is on its way, of a call that failed or of this one.
OnItsWay == IF owed # NoRequest THEN owed ELSE req

AccessRight ==
  /\ Live => owed = NoRequest
  /\ Busy(End) /\ down # <<>> =>
       /\ owed = NoRequest => made = "no" /\ Ahead = 1
       /\ OnItsWay = Request(End.st, End.address, IF End.st = "write" THEN down[Len(down)].v ELSE 0, End.lock)

\* What is on the way to the host.
AnswersRight ==
  open =>
    /\ req # NoRequest =>
         \/ up = <<>>
         \/ /\ Ahead = 1 /\ Len(up) = IF req.op = "write" THEN 1 ELSE 2
            /\ up[1].t = made
    /\ req = NoRequest /\ call \notin {"open", "close"} => up = <<>>
    /\ call \in {"open", "close"} =>
         \/ up = <<>> /\ Ahead # 1
         \/ Ahead = 2 /\ down = <<>> /\ Len(up) = 2 /\ up[1].t = "id" /\ up[2].t = "widths"
         \/ Ahead = 1 /\ Len(up) = 1 /\ up[1].t = "widths"
         \/ call = "open" /\ Ahead >= 2 /\ up # <<>> /\ up[1].t \in {"ACK", "NAK"}

IInv ==
  /\ TypeOK /\ Connections /\ TokensRight
  /\ AccessPlan /\ OtherPlan
  /\ AccessProgress /\ Between /\ OtherProgress /\ Questions
  /\ AccessRight /\ AnswersRight

-----------------------------------------------------------------------------
(***************************************************************************)
(* The calls begin.                                                        *)
(***************************************************************************)
LEMMA Join21 ==
  ASSUME NEW a, NEW b, NEW c
  PROVE  <<a, b>> \o <<c>> = <<a, b, c>>
  <1> DEFINE S == {a, b, c}
             l == <<a, b>> \o <<c>>
             r == <<a, b, c>>
  <1>1. l \in Seq(S) /\ Len(l) = 3 /\ l[1] = a /\ l[2] = b /\ l[3] = c
    BY ConcatProperties, <<a, b>> \in Seq(S), <<c>> \in Seq(S)
  <1>2. r \in Seq(S) /\ Len(r) = 3 /\ r[1] = a /\ r[2] = b /\ r[3] = c
    OBVIOUS
  <1> HIDE DEF l, r, S
  <1>3. l = r
    BY <1>1, <1>2, SeqEqual
  <1> QED BY <1>3 DEF l, r

LEMMA Join33 ==
  ASSUME NEW a, NEW b, NEW c, NEW d, NEW e, NEW f
  PROVE  <<a, b, c>> \o <<d, e, f>> = <<a, b, c, d, e, f>>
  <1> DEFINE S == {a, b, c, d, e, f}
             l == <<a, b, c>> \o <<d, e, f>>
             r == <<a, b, c, d, e, f>>
  <1>1. l \in Seq(S) /\ Len(l) = 6 /\ l[1] = a /\ l[2] = b /\ l[3] = c /\ l[4] = d /\ l[5] = e /\ l[6] = f
    BY ConcatProperties, <<a, b, c>> \in Seq(S), <<d, e, f>> \in Seq(S)
  <1>2. r \in Seq(S) /\ Len(r) = 6 /\ r[1] = a /\ r[2] = b /\ r[3] = c /\ r[4] = d /\ r[5] = e /\ r[6] = f
    OBVIOUS
  <1> HIDE DEF l, r, S
  <1>3. l = r
    BY <1>1, <1>2, SeqEqual
  <1> QED BY <1>3 DEF l, r

LEMMA Join32 ==
  ASSUME NEW a, NEW b, NEW c, NEW d, NEW e
  PROVE  <<a, b, c>> \o <<d, e>> = <<a, b, c, d, e>>
  <1> DEFINE S == {a, b, c, d, e}
             l == <<a, b, c>> \o <<d, e>>
             r == <<a, b, c, d, e>>
  <1>1. l \in Seq(S) /\ Len(l) = 5 /\ l[1] = a /\ l[2] = b /\ l[3] = c /\ l[4] = d /\ l[5] = e
    BY ConcatProperties, <<a, b, c>> \in Seq(S), <<d, e>> \in Seq(S)
  <1>2. r \in Seq(S) /\ Len(r) = 5 /\ r[1] = a /\ r[2] = b /\ r[3] = c /\ r[4] = d /\ r[5] = e
    OBVIOUS
  <1> HIDE DEF l, r, S
  <1>3. l = r
    BY <1>1, <1>2, SeqEqual
  <1> QED BY <1>3 DEF l, r

LEMMA Join51 ==
  ASSUME NEW a, NEW b, NEW c, NEW d, NEW e, NEW f
  PROVE  <<a, b, c, d, e>> \o <<f>> = <<a, b, c, d, e, f>>
  <1> DEFINE S == {a, b, c, d, e, f}
             l == <<a, b, c, d, e>> \o <<f>>
             r == <<a, b, c, d, e, f>>
  <1>1. l \in Seq(S) /\ Len(l) = 6 /\ l[1] = a /\ l[2] = b /\ l[3] = c /\ l[4] = d /\ l[5] = e /\ l[6] = f
    BY ConcatProperties, <<a, b, c, d, e>> \in Seq(S), <<f>> \in Seq(S)
  <1>2. r \in Seq(S) /\ Len(r) = 6 /\ r[1] = a /\ r[2] = b /\ r[3] = c /\ r[4] = d /\ r[5] = e /\ r[6] = f
    OBVIOUS
  <1> HIDE DEF l, r, S
  <1>3. l = r
    BY <1>1, <1>2, SeqEqual
  <1> QED BY <1>3 DEF l, r

LEMMA Join13 ==
  ASSUME NEW a, NEW b, NEW c, NEW d
  PROVE  <<a>> \o <<b, c, d>> = <<a, b, c, d>>
  <1> DEFINE S == {a, b, c, d}
             l == <<a>> \o <<b, c, d>>
             r == <<a, b, c, d>>
  <1>1. l \in Seq(S) /\ Len(l) = 4 /\ l[1] = a /\ l[2] = b /\ l[3] = c /\ l[4] = d
    BY ConcatProperties, <<a>> \in Seq(S), <<b, c, d>> \in Seq(S)
  <1>2. r \in Seq(S) /\ Len(r) = 4 /\ r[1] = a /\ r[2] = b /\ r[3] = c /\ r[4] = d
    OBVIOUS
  <1> HIDE DEF l, r, S
  <1>3. l = r
    BY <1>1, <1>2, SeqEqual
  <1> QED BY <1>3 DEF l, r

LEMMA Join42 ==
  ASSUME NEW a, NEW b, NEW c, NEW d, NEW e, NEW f
  PROVE  <<a, b, c, d>> \o <<e, f>> = <<a, b, c, d, e, f>>
  <1> DEFINE S == {a, b, c, d, e, f}
             l == <<a, b, c, d>> \o <<e, f>>
             r == <<a, b, c, d, e, f>>
  <1>1. l \in Seq(S) /\ Len(l) = 6 /\ l[1] = a /\ l[2] = b /\ l[3] = c /\ l[4] = d /\ l[5] = e /\ l[6] = f
    BY ConcatProperties, <<a, b, c, d>> \in Seq(S), <<e, f>> \in Seq(S)
  <1>2. r \in Seq(S) /\ Len(r) = 6 /\ r[1] = a /\ r[2] = b /\ r[3] = c /\ r[4] = d /\ r[5] = e /\ r[6] = f
    OBVIOUS
  <1> HIDE DEF l, r, S
  <1>3. l = r
    BY <1>1, <1>2, SeqEqual
  <1> QED BY <1>3 DEF l, r

LEMMA OtherAddress ==
  ASSUME shadow \in Address, NEW a \in Address, a # shadow
  PROVE  widths.addr # 0
  BY DEF Address

LEMMA WriteSteps ==
  ASSUME shadow \in Address, NEW a \in Address, NEW d, NEW l
  PROVE  Write(a, d, l) =
           IF a = shadow
           THEN <<Send(IF l THEN "Wlock" ELSE "W", 0), Send("field", d), Receive(1, "answer")>>
           ELSE <<Send("A", 0), Send("field", a), [Local("shadow") EXCEPT !.n = a],
                  Send(IF l THEN "Wlock" ELSE "W", 0), Send("field", d), Receive(1, "answer")>>
  <1>1. CASE a = shadow
    BY <1>1 DEF Write, SetAddress
  <1>2. CASE a # shadow
    <2>1. SendAddress(a) = <<Send("A", 0), Send("field", a)>>
      BY <1>2, OtherAddress DEF SendAddress
    <2>2. SetAddress(a) = <<Send("A", 0), Send("field", a), [Local("shadow") EXCEPT !.n = a]>>
      BY <1>2, <2>1, Join21 DEF SetAddress
    <2>3. Write(a, d, l) = SetAddress(a) \o <<Send(IF l THEN "Wlock" ELSE "W", 0), Send("field", d), Receive(1, "answer")>>
      BY DEF Write
    <2> QED BY <1>2, <2>2, <2>3, Join33
  <1> QED BY <1>1, <1>2

LEMMA ReadSteps ==
  ASSUME shadow \in Address, NEW a \in Address, NEW l
  PROVE  Read(a, l) =
           IF a = shadow
           THEN <<Send(IF l THEN "Rlock" ELSE "R", 0), Receive(2, "answer")>>
           ELSE <<Send("A", 0), Send("field", a), [Local("shadow") EXCEPT !.n = a],
                  Send(IF l THEN "Rlock" ELSE "R", 0), Receive(2, "answer")>>
  <1>1. CASE a = shadow
    BY <1>1 DEF Read, SetAddress
  <1>2. CASE a # shadow
    <2>1. SendAddress(a) = <<Send("A", 0), Send("field", a)>>
      BY <1>2, OtherAddress DEF SendAddress
    <2>2. SetAddress(a) = <<Send("A", 0), Send("field", a), [Local("shadow") EXCEPT !.n = a]>>
      BY <1>2, <2>1, Join21 DEF SetAddress
    <2>3. Read(a, l) = SetAddress(a) \o <<Send(IF l THEN "Rlock" ELSE "R", 0), Receive(2, "answer")>>
      BY DEF Read
    <2> QED BY <1>2, <2>2, <2>3, Join32
  <1> QED BY <1>1, <1>2

LEMMA ModifySteps ==
  ASSUME shadow \in Address, NEW a \in Address, NEW l
  PROVE  Read(a, l) \o <<[Local("modify") EXCEPT !.n = a]>> =
           IF a = shadow
           THEN <<Send(IF l THEN "Rlock" ELSE "R", 0), Receive(2, "answer"),
                  [Local("modify") EXCEPT !.n = a]>>
           ELSE <<Send("A", 0), Send("field", a), [Local("shadow") EXCEPT !.n = a],
                  Send(IF l THEN "Rlock" ELSE "R", 0), Receive(2, "answer"),
                  [Local("modify") EXCEPT !.n = a]>>
  <1> DEFINE m == [Local("modify") EXCEPT !.n = a]
  <1>1. CASE a = shadow
    <2>1. Read(a, l) = <<Send(IF l THEN "Rlock" ELSE "R", 0), Receive(2, "answer")>>
      BY <1>1, ReadSteps
    <2> HIDE DEF m
    <2>2. Read(a, l) \o <<m>> = <<Send(IF l THEN "Rlock" ELSE "R", 0), Receive(2, "answer"), m>>
      BY <2>1, Join21
    <2> QED BY <1>1, <2>2 DEF m
  <1>2. CASE a # shadow
    <2>1. Read(a, l) = <<Send("A", 0), Send("field", a), [Local("shadow") EXCEPT !.n = a],
                         Send(IF l THEN "Rlock" ELSE "R", 0), Receive(2, "answer")>>
      BY <1>2, ReadSteps
    <2> HIDE DEF m
    <2>2. Read(a, l) \o <<m>> =
            <<Send("A", 0), Send("field", a), [Local("shadow") EXCEPT !.n = a],
              Send(IF l THEN "Rlock" ELSE "R", 0), Receive(2, "answer"), m>>
      BY <2>1, Join51
    <2> QED BY <1>2, <2>2 DEF m
  <1> QED BY <1>1, <1>2

LEMMA OpenSteps ==
  <<Send("reset", 0)>> \o GetSizes \o SendAddress(0) =
    IF widths.addr = 0
    THEN <<Send("reset", 0), Send("Q", 0), Receive(1, "id"), Receive(1, "widths")>>
    ELSE <<Send("reset", 0), Send("Q", 0), Receive(1, "id"), Receive(1, "widths"),
           Send("A", 0), Send("field", 0)>>
  <1>1. <<Send("reset", 0)>> \o GetSizes =
          <<Send("reset", 0), Send("Q", 0), Receive(1, "id"), Receive(1, "widths")>>
    BY Join13 DEF GetSizes
  <1>2. CASE widths.addr = 0
    BY <1>1, <1>2 DEF SendAddress
  <1>3. CASE widths.addr # 0
    <2>1. SendAddress(0) = <<Send("A", 0), Send("field", 0)>>
      BY <1>3 DEF SendAddress
    <2>2. <<Send("reset", 0), Send("Q", 0), Receive(1, "id"), Receive(1, "widths")>>
            \o <<Send("A", 0), Send("field", 0)>> =
          <<Send("reset", 0), Send("Q", 0), Receive(1, "id"), Receive(1, "widths"),
            Send("A", 0), Send("field", 0)>>
      BY Join42
    <2> QED BY <1>1, <1>3, <2>1, <2>2
  <1> QED BY <1>2, <1>3

LEMMA InitIInv == Init => IInv
  <1> SUFFICES ASSUME Init PROVE IInv
    OBVIOUS
  <1>1. Final(widths.misc, core, down) = core /\ Lawful(widths.misc, core, down)
    BY NothingToTake DEF Init, LinkInit
  <1>2. TypeOK
    <2>1. open \in BOOLEAN /\ gone \in BOOLEAN /\ call \in AccessCalls \cup {"none", "set", "open", "close"}
      BY DEF Init, LinkInit
    <2>2. todo \in Seq(Steps) /\ down \in Seq(Tokens) /\ up \in Seq(UpTokens)
      BY EmptySeq DEF Init, LinkInit
    <2>3. widths \in Cores /\ shadow \in Address /\ core.st \in CoreStates
          /\ core = [st |-> core.st, address |-> core.address, misc |-> core.misc, lock |-> core.lock]
      BY DEF Init, Address, ResetCore, CoreStates
    <2>4. req \in Requests \cup {NoRequest} /\ made \in {"no", "started", "ACK", "NAK"}
          /\ req.addr \in Address
      BY DEF Init, NoRequest, Request, Address
    <2> QED BY <2>1, <2>2, <2>3, <2>4 DEF TypeOK
  <1>3. Connections /\ TokensRight
    BY <1>1 DEF Connections, TokensRight, Init, LinkInit, ResetFirst, QuestionLast, Busy, ResetCore,
                AccessCalls
  <1>4. AccessPlan /\ OtherPlan
    BY DEF AccessPlan, OtherPlan, Init, LinkInit, AccessCalls
  <1> QED BY <1>1, <1>2, <1>3, <1>4
       DEF IInv, AccessProgress, Between, OtherProgress, Questions, AccessRight, AnswersRight, Live,
           Init, LinkInit

\* The variables that matter here.
busVariables == <<open, gone, call, todo, down, up, widths, shadow, core, req, made, owed, bus>>

LEMMA Unmoved == ASSUME IInv, UNCHANGED busVariables PROVE IInv'
  <1>1. TypeOK' /\ Connections' /\ TokensRight'
    BY DEF IInv, TypeOK, Connections, TokensRight, busVariables, Address, Busy
  <1>2. Ahead' = Ahead /\ Behind' = Behind /\ \A k : AccessStep(k)' = AccessStep(k)
    BY DEF busVariables, Ahead, Behind, CommandAt, AccessStep
  <1>3. AccessPlan'
    BY <1>2 DEF IInv, AccessPlan, busVariables, CommandAt
  <1>4. OtherPlan'
    BY <1>2 DEF IInv, OtherPlan, busVariables
  <1>5. AccessProgress' /\ Between' /\ OtherProgress' /\ Questions' /\ AccessRight' /\ AnswersRight'
    BY DEF IInv, AccessProgress, Between, OtherProgress, Questions, AccessRight, AnswersRight,
           busVariables, Ahead, Behind, CommandAt, Live, End, OnItsWay
  <1> QED BY <1>1, <1>3, <1>4, <1>5 DEF IInv

LEMMA StepTypes ==
  /\ \A t \in TokenNames, v \in Words : Send(t, v) \in Steps
  /\ \A n \in 0..2, a \in {"id", "widths", "answer"} : Receive(n, a) \in Steps
  /\ \A a \in {"shadow", "modify"}, n \in 0..2 : [Local(a) EXCEPT !.n = n] \in Steps
  BY DEF Send, Receive, Local, Token, Steps, Tokens, Words, TokenNames, Commands

LEMMA RequestTypes ==
  /\ NoRequest \notin Requests
  /\ \A r \in Requests : /\ r.op \in {"read", "write"} /\ r.lock \in BOOLEAN /\ r.addr \in 0..1
                         /\ r.data \in Words
                         /\ r = Request(r.op, r.addr, r.data, r.lock)
                         /\ r.op = "read" => r.data = 0
                         /\ CommandOf(r) \in {"W", "Wlock", "R", "Rlock"}
  BY DEF Requests, NoRequest, Request, Words, CommandOf

LEMMA BetweenCalls ==
  ASSUME IInv, call = "none"
  PROVE  /\ req = NoRequest /\ made = "no" /\ todo = <<>>
         /\ open => up = <<>> /\ \A i \in DOMAIN down : down[i].t # "reset"
         /\ Live => End.st = "idle" /\ End.address = shadow /\ owed = NoRequest
         /\ Live => \A i \in DOMAIN down : down[i].t # "Q"
         /\ Busy(End) /\ down # <<>> => owed # NoRequest
  <1>1. req = NoRequest /\ made = "no"
    BY DEF IInv, Connections, AccessCalls
  <1>2. todo = <<>>
    BY <1>1 DEF IInv, OtherPlan
  <1>3. open => up = <<>> /\ \A i \in DOMAIN down : down[i].t # "reset"
    BY <1>1 DEF IInv, AnswersRight, Connections
  <1>4. Live => End.st = "idle" /\ End.address = shadow /\ owed = NoRequest
    BY <1>1 DEF IInv, OtherProgress, AccessRight
  <1>5. Live => \A i \in DOMAIN down : down[i].t # "Q"
    BY DEF IInv, Questions
  <1>6. Busy(End) /\ down # <<>> => owed # NoRequest
    BY <1>1 DEF IInv, AccessRight, OnItsWay, NoRequest, Request, Busy
  <1> QED BY <1>1, <1>2, <1>3, <1>4, <1>5, <1>6

\* An access begins: with its command, or with the address before it.
LEMMA BeginAccess ==
  ASSUME IInv, call = "none", open, call' \in AccessCalls, req' \in Requests,
         UNCHANGED <<open, gone, down, up, widths, shadow, core, made, owed, bus>>,
         call' = "rmw" => req'.op = "read" /\ req'.lock,
         todo' \in Seq(Steps), req'.addr \in Address,
         Ahead' = IF req'.addr = shadow THEN CommandAt' ELSE CommandAt' + 3,
         \A i \in 1..Len(todo') : (todo[i] = AccessStep(Ahead + 1 - i))'
  PROVE  IInv'
  <1>1. req = NoRequest /\ made = "no" /\ up = <<>> /\ req' # NoRequest
    BY BetweenCalls, RequestTypes
  <1>2. End' = End /\ Live' = Live /\ CommandAt' \in 2..3
    BY DEF End, Live, CommandAt
  <1>3. TypeOK'
    BY DEF IInv, TypeOK, AccessCalls, Address
  <1>4. Connections' /\ TokensRight'
    BY <1>1, BetweenCalls DEF IInv, Connections, TokensRight, AccessCalls, Busy
  <1>5. AccessPlan' /\ OtherPlan'
    <2> DEFINE n == Ahead'
               m == CommandAt'
    <2>4. n = (IF req'.addr = shadow THEN m ELSE m + 3) /\ m \in 2..3
      BY <1>2
    <2> HIDE DEF n, m
    <2>5. n \in 1..m + 3 /\ (n <= m => req'.addr = shadow)
      BY <2>4
    <2>1. made' = "no" /\ (Ahead \in 1..CommandAt + 3)'
      BY <1>1, <2>5 DEF n, m
    <2>2. (Ahead <= CommandAt => shadow = req.addr)'
      BY <2>5 DEF n, m
    <2>3. (call = "rmw" => IF req.op = "read" THEN req.lock ELSE ~req.lock /\ Ahead <= CommandAt)'
      OBVIOUS
    <2> QED BY <1>1, <2>1, <2>2, <2>3 DEF AccessPlan, OtherPlan
  <1>6. AccessProgress' /\ Between' /\ OtherProgress'
    <2>1. Live => End.st = "idle" /\ End.address = shadow
      BY BetweenCalls
    <2>2. CommandAt' = IF req'.op = "write" THEN 3 ELSE 2
      BY DEF CommandAt
    <2>3. (Live /\ req # NoRequest =>
            /\ Ahead = CommandAt + 3 => End.st = "idle"
            /\ Ahead = CommandAt + 2 => End.st = "A"
            /\ Ahead \in {CommandAt, CommandAt + 1} => End.st = "idle" /\ End.address = req.addr
            /\ Ahead = 2 /\ req.op = "write" => End.st = CommandOf(req) /\ End.address = req.addr
            /\ Ahead = 1 /\ made = "no" => End.st = req.op /\ down # <<>>)'
      BY <1>2, <2>1, <2>2
    <2>4. AccessProgress'
      BY <1>1, <2>3 DEF AccessProgress
    <2> QED BY <1>1, <2>4 DEF Between, OtherProgress
  <1>7. Questions'
    BY <1>2, BetweenCalls DEF Questions, AccessCalls
  <1>8. AccessRight' /\ AnswersRight'
    BY <1>1, <1>2, BetweenCalls DEF IInv, AccessRight, AnswersRight, OnItsWay, AccessCalls
  <1> QED BY <1>3, <1>4, <1>5, <1>6, <1>7, <1>8 DEF IInv

LEMMA BeginsWrite ==
  ASSUME IInv, call = "none", open, NEW a \in Address, NEW d \in Data, NEW l \in BOOLEAN,
         Begin("write", Write(a, d, l)), Asks(Request("write", a, d, l)),
         UNCHANGED <<widths, shadow, core, wanted>>
  PROVE  IInv'
  <1>1. shadow \in Address /\ a \in 0..1 /\ d \in Words
    BY DEF IInv, TypeOK, Address, Words
  <1>2. call' = "write" /\ todo' = Write(a, d, l) /\ req' = Request("write", a, d, l)
        /\ UNCHANGED <<open, gone, down, up, made, owed, bus>>
    BY DEF Begin, Asks
  <1>3. req' \in Requests /\ req'.addr = a /\ req'.data = d /\ req'.op = "write" /\ req'.lock = l
    BY <1>1, <1>2 DEF Requests, Request
  <1>4. Behind' = 0 /\ CommandAt' = 3 /\ CommandOf(req') = IF l THEN "Wlock" ELSE "W"
    BY <1>2, <1>3, RequestTypes DEF Behind, CommandAt, CommandOf
  <1>5. /\ todo' \in Seq(Steps)
        /\ Ahead' = IF req'.addr = shadow THEN CommandAt' ELSE CommandAt' + 3
        /\ \A i \in 1..Len(todo') : (todo[i] = AccessStep(Ahead + 1 - i))'
    <2>1. CASE a = shadow
      <3>1. todo' = <<Send(IF l THEN "Wlock" ELSE "W", 0), Send("field", d), Receive(1, "answer")>>
        BY <1>1, <1>2, <2>1, WriteSteps
      <3>2. todo' \in Seq(Steps) /\ Len(todo') = 3
        BY <1>1, <3>1, StepTypes DEF Words, TokenNames, Commands
      <3>3. Ahead' = 3
        BY <1>4, <3>2 DEF Ahead
      <3> QED BY <1>3, <1>4, <2>1, <3>1, <3>2, <3>3 DEF AccessStep
    <2>2. CASE a # shadow
      <3>1. todo' = <<Send("A", 0), Send("field", a), [Local("shadow") EXCEPT !.n = a],
                  Send(IF l THEN "Wlock" ELSE "W", 0), Send("field", d), Receive(1, "answer")>>
        BY <1>1, <1>2, <2>2, WriteSteps
      <3>2. todo' \in Seq(Steps) /\ Len(todo') = 6
        <4>1. /\ Send("A", 0) \in Steps /\ Send("field", a) \in Steps
              /\ [Local("shadow") EXCEPT !.n = a] \in Steps
              /\ Send(IF l THEN "Wlock" ELSE "W", 0) \in Steps /\ Send("field", d) \in Steps
              /\ Receive(1, "answer") \in Steps
          BY <1>1, StepTypes DEF Words, TokenNames, Commands
        <4> QED BY <3>1, <4>1
      <3>3. Ahead' = 6
        BY <1>4, <3>2 DEF Ahead
      <3> QED BY <1>3, <1>4, <2>2, <3>1, <3>2, <3>3 DEF AccessStep
    <2> QED BY <2>1, <2>2
  <1> QED BY <1>2, <1>3, <1>5, BeginAccess DEF AccessCalls

LEMMA BeginsRead ==
  ASSUME IInv, call = "none", open, NEW a \in Address, NEW l \in BOOLEAN, NEW name,
         \/ name = "read" /\ Begin(name, Read(a, l))
         \/ name = "rmw" /\ l /\ Begin(name, Read(a, l) \o <<[Local("modify") EXCEPT !.n = a]>>),
         Asks(Request("read", a, 0, l)), UNCHANGED <<widths, shadow, core, wanted>>
  PROVE  IInv'
  <1>1. shadow \in Address /\ a \in 0..1 /\ 0 \in Words
    BY DEF IInv, TypeOK, Address, Words
  <1>2. call' = name /\ req' = Request("read", a, 0, l)
        /\ UNCHANGED <<open, gone, down, up, made, owed, bus>>
    BY DEF Begin, Asks
  <1>3. req' \in Requests /\ req'.addr = a /\ req'.op = "read" /\ req'.lock = l
    BY <1>1, <1>2 DEF Requests, Request
  <1>4. Behind' = (IF name = "rmw" THEN 1 ELSE 0) /\ CommandAt' = 2
        /\ CommandOf(req') = IF l THEN "Rlock" ELSE "R"
    BY <1>2, <1>3, RequestTypes DEF Behind, CommandAt, CommandOf
  <1> DEFINE c == Send(IF l THEN "Rlock" ELSE "R", 0)
             m == [Local("modify") EXCEPT !.n = a]
             s == [Local("shadow") EXCEPT !.n = a]
  <1>5. /\ Send("A", 0) \in Steps /\ Send("field", a) \in Steps
        /\ s \in Steps /\ c \in Steps /\ Receive(2, "answer") \in Steps /\ m \in Steps
    BY <1>1, StepTypes DEF Words, TokenNames, Commands
  <1>6. /\ AccessStep(0)' = m /\ AccessStep(1)' = Receive(2, "answer") /\ AccessStep(2)' = c
        /\ AccessStep(3)' = s /\ AccessStep(4)' = Send("field", a) /\ AccessStep(5)' = Send("A", 0)
    BY <1>3, <1>4 DEF AccessStep
  <1>7. todo' = IF name = "rmw"
                THEN IF a = shadow THEN <<c, Receive(2, "answer"), m>>
                     ELSE <<Send("A", 0), Send("field", a), s, c, Receive(2, "answer"), m>>
                ELSE IF a = shadow THEN <<c, Receive(2, "answer")>>
                     ELSE <<Send("A", 0), Send("field", a), s, c, Receive(2, "answer")>>
    <2>1. CASE name = "read" /\ Begin(name, Read(a, l))
      BY <1>1, <2>1, ReadSteps DEF Begin
    <2>2. CASE name = "rmw" /\ l /\ Begin(name, Read(a, l) \o <<m>>)
      BY <1>1, <2>2, ModifySteps DEF Begin
    <2> QED BY <2>1, <2>2
  <1> HIDE DEF c, m, s
  <1>8. /\ todo' \in Seq(Steps)
        /\ Len(todo') = Behind' + IF req'.addr = shadow THEN 2 ELSE 5
    BY <1>3, <1>4, <1>5, <1>7
  <1>9. Ahead' = IF req'.addr = shadow THEN 2 ELSE 5
    BY <1>4, <1>8 DEF Ahead
  <1>10. \A i \in 1..Len(todo') : (todo[i] = AccessStep(Ahead + 1 - i))'
    <2>1. CASE a = shadow /\ name = "rmw"
      BY <1>3, <1>6, <1>7, <1>9, <2>1
    <2>2. CASE a = shadow /\ name # "rmw"
      BY <1>3, <1>6, <1>7, <1>9, <2>2
    <2>3. CASE a # shadow /\ name = "rmw"
      BY <1>3, <1>6, <1>7, <1>9, <2>3
    <2>4. CASE a # shadow /\ name # "rmw"
      BY <1>3, <1>6, <1>7, <1>9, <2>4
    <2> QED BY <2>1, <2>2, <2>3, <2>4
  <1> QED BY <1>2, <1>3, <1>4, <1>8, <1>9, <1>10, BeginAccess DEF AccessCalls

\* What the helpers send is a number.
LEMMA MiscSent ==
  ASSUME widths \in Cores, NEW m \in MiscCalls, m.ok
  PROVE  m.sent \in Int
  <1> USE BusAccessAssumption DEF Field
  <1>1. widths.misc \in Nat
    OBVIOUS
  <1>2. CASE \E p, q \in Prot : m = SetAxprot(p, q)
    BY <1>2 DEF SetAxprot
  <1>3. CASE \E p \in Prot : m = SetPprot(p)
    BY <1>3 DEF SetPprot
  <1>4. CASE \E p \in Prot : m = SetDebugAccess(p)
    BY <1>4 DEF SetDebugAccess
  <1>5. CASE \E p \in Prot, s \in Size : m = SetHprotHsize(p, s)
    <2>1. PICK p \in Prot, s \in Size : m = SetHprotHsize(p, s)
      BY <1>5
    <2>2. widths.misc \in {3, 7, 10}
      BY <2>1 DEF SetHprotHsize
    <2>3. p \in Nat /\ s \in Nat
      OBVIOUS
    <2> DEFINE b == IF widths.misc > 3 THEN widths.misc - 3 ELSE 0
    <2>4. Field(s, 3) \in Int /\ Field(p, b) \in Int
      <3>1. b \in {0, 4, 7}
        BY <2>2
      <3> HIDE DEF b
      <3>2. p % 2^0 \in Int /\ p % 2^4 \in Int /\ p % 2^7 \in Int /\ s % 2^3 \in Int
        BY <2>3
      <3> QED BY <3>1, <3>2
    <2> HIDE DEF b
    <2>5. Field(Field(s, 3) + 8 * Field(p, b), 8) \in Int /\ Field(p, b) \div 8 \in Int
      BY <2>4
    <2>6. m.sent = IF widths.misc > 8 THEN Field(Field(s, 3) + 8 * Field(p, b), 8) + 256 * (Field(p, b) \div 8)
                                      ELSE Field(Field(s, 3) + 8 * Field(p, b), 8)
      BY <2>1 DEF SetHprotHsize, b
    <2> HIDE DEF Field
    <2> QED BY <2>5, <2>6
  <1>6. CASE \E r, h \in {0, 1} : m = SetResets(r, h)
    BY <1>6 DEF SetResets
  <1>7. CASE \E d \in Prot : m = [ok |-> widths.misc > 0, sent |-> d, meant |-> Field(d, widths.misc)]
    BY <1>7
  <1> QED BY <1>2, <1>3, <1>4, <1>5, <1>6, <1>7 DEF MiscCalls

LEMMA BeginSet ==
  ASSUME IInv, call = "none", open, NEW c \in {"M", "S"}, NEW v \in Words,
         Begin("set", <<Send(c, 0), Send("field", v)>>),
         UNCHANGED <<widths, shadow, core, busVars>>
  PROVE  IInv'
  <1>1. req = NoRequest /\ made = "no" /\ up = <<>>
    BY BetweenCalls
  <1>2. call' = "set" /\ todo' = <<Send(c, 0), Send("field", v)>>
        /\ UNCHANGED <<open, gone, down, up, req, made, owed, bus>>
    BY DEF Begin, busVars
  <1>3. End' = End /\ Live' = Live
    BY <1>2 DEF End, Live
  <1>4. todo' \in Seq(Steps) /\ Len(todo') = 2 /\ todo'[1] = Send(c, 0) /\ todo'[2] = Send("field", v)
    <2>1. Send(c, 0) \in Steps /\ Send("field", v) \in Steps
      BY StepTypes DEF Words, TokenNames, Commands
    <2> QED BY <1>2, <2>1
  <1>5. TypeOK'
    BY <1>2, <1>4 DEF IInv, TypeOK, Address
  <1>6. Connections' /\ TokensRight'
    BY <1>1, <1>2, BetweenCalls DEF IInv, Connections, TokensRight, AccessCalls, Busy
  <1>7. AccessPlan' /\ OtherPlan'
    <2>1. todo'[2].tok.v = v
      BY <1>4 DEF Send, Token
    <2>2. \A i \in 1..Len(todo') : IF i = Len(todo') THEN todo'[i] = Send("field", todo'[i].tok.v)
                                                    ELSE todo'[i] \in {Send("M", 0), Send("S", 0)}
      BY <1>4, <2>1
    <2> QED BY <1>1, <1>2, <1>4, <2>2 DEF AccessPlan, OtherPlan, AccessCalls
  <1>8. AccessProgress' /\ Between' /\ OtherProgress'
    BY <1>1, <1>2, <1>3, <1>4, BetweenCalls DEF AccessProgress, Between, OtherProgress
  <1>9. Questions'
    BY <1>2, <1>3, BetweenCalls DEF Questions
  <1>10. AccessRight' /\ AnswersRight'
    BY <1>1, <1>2, <1>3, BetweenCalls DEF IInv, AccessRight, AnswersRight, OnItsWay, AccessCalls
  <1> QED BY <1>5, <1>6, <1>7, <1>8, <1>9, <1>10 DEF IInv

LEMMA BeginClose ==
  ASSUME IInv, call = "none", open, Begin("close", GetSizes),
         UNCHANGED <<widths, shadow, core, busVars>>
  PROVE  IInv'
  <1>1. req = NoRequest /\ made = "no" /\ up = <<>>
    BY BetweenCalls
  <1>2. call' = "close" /\ todo' = GetSizes /\ UNCHANGED <<open, gone, down, up, req, made, owed, bus>>
    BY DEF Begin, busVars
  <1>3. End' = End /\ Live' = Live
    BY <1>2 DEF End, Live
  <1>4. todo' \in Seq(Steps) /\ Len(todo') = 3 /\ todo'[1] = SizesStepAt(3)
        /\ todo'[2] = SizesStepAt(2) /\ todo'[3] = SizesStepAt(1)
    <2>1. Send("Q", 0) \in Steps /\ Receive(1, "id") \in Steps /\ Receive(1, "widths") \in Steps
      BY StepTypes DEF Words, TokenNames
    <2> QED BY <1>2, <2>1 DEF GetSizes, SizesStepAt
  <1>5. Ahead' = 3
    BY <1>1, <1>2, <1>4 DEF Ahead, Behind
  <1>6. TypeOK'
    BY <1>2, <1>4 DEF IInv, TypeOK, Address
  <1>7. Connections' /\ TokensRight'
    BY <1>1, <1>2, BetweenCalls DEF IInv, Connections, TokensRight, AccessCalls, Busy
  <1>8. AccessPlan' /\ OtherPlan'
    <2>1. \A i \in 1..Len(todo') : todo'[i] = SizesStepAt(3 + 1 - i)
      BY <1>4
    <2> QED BY <1>1, <1>2, <1>5, <2>1 DEF AccessPlan, OtherPlan, AccessCalls
  <1>9. AccessProgress' /\ Between' /\ OtherProgress'
    BY <1>1, <1>2, <1>3, BetweenCalls DEF AccessProgress, Between, OtherProgress
  <1>10. Questions'
    BY <1>2, <1>3, <1>5, BetweenCalls DEF Questions
  <1>11. AccessRight' /\ AnswersRight'
    BY <1>1, <1>2, <1>3, <1>5, BetweenCalls DEF IInv, AccessRight, AnswersRight, OnItsWay, AccessCalls
  <1> QED BY <1>6, <1>7, <1>8, <1>9, <1>10, <1>11 DEF IInv

LEMMA OpenConnects ==
  ASSUME IInv, call = "none", Connect("open", <<Send("reset", 0)>> \o GetSizes \o SendAddress(0)),
         shadow' = 0, owed' = NoRequest, UNCHANGED <<widths, core, req, made, bus>>
  PROVE  IInv'
  <1>1. req = NoRequest /\ made = "no" /\ down' = <<>> /\ up' = <<>> /\ open' /\ ~gone'
        /\ call' = "open"
    BY BetweenCalls DEF Connect
  <1> DEFINE n == IF widths.addr = 0 THEN 4 ELSE 6
  <1>2. todo' \in Seq(Steps) /\ Len(todo') = n /\ \A i \in 1..n : todo'[i] = SizesStepAt(4 + 1 - i)
    <2>1. todo' = IF widths.addr = 0
                  THEN <<Send("reset", 0), Send("Q", 0), Receive(1, "id"), Receive(1, "widths")>>
                  ELSE <<Send("reset", 0), Send("Q", 0), Receive(1, "id"), Receive(1, "widths"),
                         Send("A", 0), Send("field", 0)>>
      BY OpenSteps DEF Connect
    <2>2. /\ Send("reset", 0) \in Steps /\ Send("Q", 0) \in Steps /\ Receive(1, "id") \in Steps
          /\ Receive(1, "widths") \in Steps /\ Send("A", 0) \in Steps /\ Send("field", 0) \in Steps
      BY StepTypes DEF Words, TokenNames, Commands
    <2>3. CASE widths.addr = 0
      BY <2>1, <2>2, <2>3 DEF SizesStepAt
    <2>4. CASE widths.addr # 0
      <3>1. todo' = <<Send("reset", 0), Send("Q", 0), Receive(1, "id"), Receive(1, "widths"),
                      Send("A", 0), Send("field", 0)>>
        BY <2>1, <2>4
      <3>2. todo' \in Seq(Steps) /\ Len(todo') = 6
        BY <3>1, <2>2
      <3>3. \A i \in 1..6 : todo'[i] = SizesStepAt(5 - i)
        BY <3>1 DEF SizesStepAt
      <3> QED BY <2>4, <3>2, <3>3
    <2> QED BY <2>3, <2>4
  <1>3. Ahead' = 4
    BY <1>1, <1>2 DEF Ahead, Behind
  <1>4. Final(widths.misc, core, <<>>) = core /\ Lawful(widths.misc, core, <<>>)
    BY NothingToTake
  <1>5. TypeOK'
    <2>1. shadow' \in Address' /\ open' \in BOOLEAN /\ gone' \in BOOLEAN
      BY <1>1 DEF Address, Connect
    <2>2. down' \in Seq(Tokens) /\ up' \in Seq(UpTokens)
      BY <1>1, EmptySeq
    <2>3. req.addr \in Address'
      BY <1>1 DEF Address, NoRequest, Request
    <2> QED BY <1>1, <1>2, <2>1, <2>2, <2>3 DEF IInv, TypeOK
  <1>6. Connections' /\ TokensRight'
    BY <1>1, <1>4 DEF IInv, Connections, TokensRight, AccessCalls, Busy, ResetFirst, QuestionLast
  <1>7. AccessPlan' /\ OtherPlan'
    BY <1>1, <1>2, <1>3 DEF AccessPlan, OtherPlan, AccessCalls
  <1>8. AccessProgress' /\ Between' /\ OtherProgress'
    BY <1>1, <1>3 DEF AccessProgress, Between, OtherProgress
  <1>9. Questions' /\ AccessRight' /\ AnswersRight'
    BY <1>1, <1>3 DEF Questions, AccessRight, AnswersRight, AccessCalls
  <1> QED BY <1>5, <1>6, <1>7, <1>8, <1>9 DEF IInv

-----------------------------------------------------------------------------
(***************************************************************************)
(* The server closes the connection, or the handle is deleted.             *)
(***************************************************************************)
LEMMA AllTokens == ASSUME NEW S, NEW d \in Seq(S) PROVE d \in Prefixes(d) /\ <<>> \in Prefixes(d)
  <1>1. Len(d) \in 0..Len(d) /\ SubSeq(d, 1, Len(d)) = d /\ 0 \in 0..Len(d) /\ SubSeq(d, 1, 0) = <<>>
    BY LenProperties, SubSeqProperties
  <1> QED BY <1>1 DEF Prefixes

LEMMA TokensDropped ==
  ASSUME IInv, down' \in Prefixes(down), UNCHANGED <<widths, core>>
  PROVE  /\ down' \in Seq(Tokens) /\ TokensRight'
         /\ down = <<>> => down' = <<>>
         /\ \A i \in DOMAIN down' : i \in DOMAIN down /\ down'[i] = down[i]
         /\ Busy(End') /\ down' # <<>> => down' = down /\ End' = End
  <1>1. down \in Seq(Tokens) /\ TokensRight
    BY DEF IInv, TypeOK
  <1>2. /\ down' \in Seq(Tokens) /\ ResetFirst(down') /\ QuestionLast(down')
        /\ Lawful(widths.misc, core, down')
        /\ down = <<>> => down' = <<>>
        /\ \A i \in DOMAIN down' : i \in DOMAIN down /\ down'[i] = down[i]
        /\ Busy(Final(widths.misc, core, down')) /\ down' # <<>> => down' = down
    BY <1>1, Dropped DEF TokensRight
  <1> QED BY <1>2 DEF TokensRight, End

LEMMA Unplugged ==
  ASSUME IInv, ~Live', down' \in Prefixes(down),
         UNCHANGED <<call, todo, widths, shadow, core, req, made, owed, bus>>,
         open' \in BOOLEAN, gone' \in BOOLEAN,
         IF open' THEN open /\ up' = up ELSE call = "none" /\ up' = <<>>
  PROVE  IInv'
  <1>1. TypeOK'
    BY TokensDropped, EmptySeq DEF IInv, TypeOK, Address
  <1>2. Connections' /\ TokensRight'
    BY TokensDropped DEF IInv, Connections, AccessCalls, Busy
  <1>3. Ahead' = Ahead /\ Behind' = Behind /\ \A k : AccessStep(k)' = AccessStep(k)
    BY DEF Ahead, Behind, CommandAt, AccessStep
  <1>4. AccessPlan'
    BY <1>3 DEF IInv, AccessPlan, CommandAt
  <1>5. OtherPlan'
    BY <1>3 DEF IInv, OtherPlan
  <1>6. AccessProgress' /\ Between' /\ OtherProgress'
    BY DEF AccessProgress, Between, OtherProgress
  <1>7. Questions'
    BY <1>3, TokensDropped DEF IInv, Questions
  <1>8. AccessRight'
    BY <1>3, TokensDropped DEF IInv, AccessRight, OnItsWay
  <1>9. AnswersRight'
    BY <1>3, TokensDropped DEF IInv, AnswersRight
  <1> QED BY <1>1, <1>2, <1>4, <1>5, <1>6, <1>7, <1>8, <1>9 DEF IInv

LEMMA ProgramKeeps == ASSUME IInv, Program PROVE IInv'
  <1>1. ASSUME WriteCtrlLock PROVE IInv'
    <2>1. PICK a \in Address, d \in Data, l \in BOOLEAN :
            /\ CallOf("write", widths.wr > 0, Write(a, d, l))
            /\ Asks(IF open /\ widths.wr > 0 THEN Request("write", a, d, l) ELSE req)
            /\ UNCHANGED <<widths, shadow, core, wanted>>
      BY <1>1 DEF WriteCtrlLock
    <2>2. CASE open /\ widths.wr > 0
      BY <2>1, <2>2, BeginsWrite DEF CallOf
    <2>3. CASE ~(open /\ widths.wr > 0)
      BY <2>1, <2>3, Unmoved DEF CallOf, Refuse, Asks, busVariables
    <2> QED BY <2>2, <2>3
  <1>2. ASSUME ReadCtrlLock PROVE IInv'
    <2>1. PICK a \in Address, l \in BOOLEAN :
            /\ CallOf("read", widths.rd > 0, Read(a, l))
            /\ Asks(IF open /\ widths.rd > 0 THEN Request("read", a, 0, l) ELSE req)
            /\ UNCHANGED <<widths, shadow, core, wanted>>
      BY <1>2 DEF ReadCtrlLock
    <2>2. CASE open /\ widths.rd > 0
      BY <2>1, <2>2, BeginsRead DEF CallOf
    <2>3. CASE ~(open /\ widths.rd > 0)
      BY <2>1, <2>3, Unmoved DEF CallOf, Refuse, Asks, busVariables
    <2> QED BY <2>2, <2>3
  <1>3. ASSUME ReadModifyWrite PROVE IInv'
    <2>1. PICK a \in Address :
            /\ CallOf("rmw", CanModify, Read(a, TRUE) \o <<[Local("modify") EXCEPT !.n = a]>>)
            /\ Asks(IF open /\ CanModify THEN Request("read", a, 0, TRUE) ELSE req)
            /\ UNCHANGED <<widths, shadow, core, wanted>>
      BY <1>3 DEF ReadModifyWrite
    <2>2. CASE open /\ CanModify
      <3>1. call = "none" /\ Begin("rmw", Read(a, TRUE) \o <<[Local("modify") EXCEPT !.n = a]>>)
            /\ Asks(Request("read", a, 0, TRUE)) /\ TRUE \in BOOLEAN
        BY <2>1, <2>2 DEF CallOf
      <3> HIDE DEF CanModify
      <3> QED BY <2>1, <2>2, <3>1, BeginsRead
    <2>3. CASE ~(open /\ CanModify)
      BY <2>1, <2>3, Unmoved DEF CallOf, Refuse, Asks, busVariables
    <2> QED BY <2>2, <2>3
  <1>4. ASSUME SetMiscellaneous PROVE IInv'
    <2>1. PICK m \in MiscCalls :
            /\ CallOf("set", m.ok, <<Send("M", 0), Send("field", m.sent)>>)
            /\ UNCHANGED <<widths, shadow, core, busVars>>
      BY <1>4 DEF SetMiscellaneous
    <2>2. CASE open /\ m.ok
      <3>1. m.sent \in Words
        BY <2>2, MiscSent DEF IInv, TypeOK, Words
      <3> QED BY <2>1, <2>2, <3>1, BeginSet DEF CallOf
    <2>3. CASE ~(open /\ m.ok)
      BY <2>1, <2>3, Unmoved DEF CallOf, Refuse, busVars, busVariables
    <2> QED BY <2>2, <2>3
  <1>5. ASSUME SetStrobe PROVE IInv'
    <2>1. CASE open /\ widths.strb > 0
      BY <1>5, <2>1, BeginSet DEF SetStrobe, CallOf, Words
    <2>2. CASE ~(open /\ widths.strb > 0)
      BY <1>5, <2>2, Unmoved DEF SetStrobe, CallOf, Refuse, busVars, busVariables
    <2> QED BY <2>1, <2>2
  <1>6. ASSUME Getter \/ SetTimeout \/ Throw PROVE IInv'
    BY <1>6, Unmoved DEF Getter, SetTimeout, Throw, Succeed, Refuse, busVars, busVariables
  <1>7. ASSUME Open PROVE IInv'
    <2>1. CASE Refuse /\ UNCHANGED <<shadow, wanted, owed>>
      BY <1>7, <2>1, Unmoved DEF Open, Refuse, busVariables
    <2>2. CASE Connect("open", <<Send("reset", 0)>> \o GetSizes \o SendAddress(0))
               /\ shadow' = 0 /\ owed' = NoRequest
      BY <1>7, <2>2, OpenConnects DEF Open
    <2> QED BY <1>7, <2>1, <2>2 DEF Open
  <1>8. ASSUME Close PROVE IInv'
    <2>1. CASE open
      BY <1>8, <2>1, BeginClose DEF Close
    <2>2. CASE ~open
      BY <1>8, <2>2, Unmoved DEF Close, Succeed, busVars, busVariables
    <2> QED BY <2>1, <2>2
  <1>9. ASSUME Delete PROVE IInv'
    BY <1>9, Unplugged DEF Delete, CloseSocket, busVars, Live
  <1> QED BY <1>1, <1>2, <1>3, <1>4, <1>5, <1>6, <1>7, <1>8, <1>9 DEF Program

LEMMA ServerKeeps == ASSUME IInv, ServerStep PROVE IInv'
  BY Unplugged DEF ServerStep, ServerCloses, busVars, Live

-----------------------------------------------------------------------------
(***************************************************************************)
(* A call ends.                                                            *)
(***************************************************************************)
\* The step a call is at.
LEMMA StepAt ==
  ASSUME IInv, todo # <<>>
  PROVE  /\ Len(todo) \in Nat /\ Len(todo) > 0 /\ Head(todo) = todo[1] /\ call # "none"
         /\ req # NoRequest => Ahead \in 1..CommandAt + 3 /\ Head(todo) = AccessStep(Ahead)
         /\ req = NoRequest /\ call \in AccessCalls =>
              call = "rmw" /\ Len(todo) = 1 /\ Head(todo) = [Local("modify") EXCEPT !.n = shadow]
         /\ call \in {"open", "close"} => Head(todo) = SizesStepAt(Ahead)
  <1>1. Len(todo) \in Nat /\ Len(todo) > 0 /\ Head(todo) = todo[1] /\ 1 \in 1..Len(todo)
    BY HeadTailProperties, EmptySeq, LenProperties DEF IInv, TypeOK
  <1>2. Behind \in 0..2 /\ Ahead \in Int /\ Ahead + 1 - 1 = Ahead
    BY <1>1 DEF Behind, Ahead
  <1>3. req # NoRequest => call # "none" /\ call \notin {"open", "close"}
    BY DEF IInv, Connections, AccessCalls
  <1> QED BY <1>1, <1>2, <1>3 DEF IInv, AccessPlan, OtherPlan

LEMMA Awaited ==
  ASSUME IInv, Busy(End), down # <<>>, owed = NoRequest
  PROVE  /\ made = "no" /\ Ahead = 1 /\ req # NoRequest
         /\ req = Request(End.st, End.address, IF End.st = "write" THEN down[Len(down)].v ELSE 0, End.lock)
  <1>1. /\ made = "no" /\ Ahead = 1
        /\ req = Request(End.st, End.address, IF End.st = "write" THEN down[Len(down)].v ELSE 0, End.lock)
    BY DEF IInv, AccessRight, OnItsWay
  <1>2. req # NoRequest
    BY <1>1 DEF Busy, Request, NoRequest
  <1> QED BY <1>1, <1>2

LEMMA AccessSteps ==
  /\ CommandAt \in 2..3
  /\ AccessStep(1) = Receive(IF req.op = "write" THEN 1 ELSE 2, "answer")
  /\ \A k \in (1..CommandAt + 3) \ {1, CommandAt + 1} : AccessStep(k).do = "send" /\ AccessStep(k).as = "nothing"
  /\ LET s == AccessStep(CommandAt + 1) IN s.do = "local" /\ s.as = "shadow" /\ s.n = req.addr
  <1>1. CommandAt \in 2..3
    BY DEF CommandAt
  <1>2. AccessStep(1) = Receive(IF req.op = "write" THEN 1 ELSE 2, "answer")
    BY <1>1 DEF AccessStep
  <1>3. ASSUME NEW k \in 1..CommandAt + 3, k # 1, k # CommandAt + 1
        PROVE  AccessStep(k).do = "send" /\ AccessStep(k).as = "nothing"
    BY <1>1, <1>3 DEF AccessStep, Send
  <1>4. AccessStep(CommandAt + 1) = [Local("shadow") EXCEPT !.n = req.addr]
    BY <1>1 DEF AccessStep
  <1> QED BY <1>1, <1>2, <1>3, <1>4 DEF Local

LEMMA CallFails ==
  ASSUME IInv, ~Live', call' = "none", todo' = <<>>, Failed,
         down' \in Prefixes(down), UNCHANGED <<widths, shadow, core>>,
         open' \in BOOLEAN, gone' \in BOOLEAN, up' \in Seq(UpTokens),
         open' => open /\ up' = <<>> /\ call # "open"
  PROVE  IInv'
  <1>1. req' = NoRequest /\ made' = "no" /\ bus' = bus
        /\ owed' = IF req # NoRequest /\ made = "no" /\ owed = NoRequest /\ InFlight THEN req ELSE owed
    BY DEF Failed
  <1>2. TypeOK'
    <2>1. todo' \in Seq(Steps) /\ down' \in Seq(Tokens)
      BY EmptySeq, TokensDropped
    <2>2. req'.addr \in Address'
      BY <1>1 DEF Address, NoRequest, Request
    <2> QED BY <1>1, <2>1, <2>2 DEF IInv, TypeOK, Address
  <1>3. Connections' /\ TokensRight'
    BY <1>1, TokensDropped DEF IInv, Connections, AccessCalls, Busy
  <1>4. AccessPlan' /\ OtherPlan'
    BY <1>1 DEF AccessPlan, OtherPlan, AccessCalls
  <1>5. AccessProgress' /\ Between' /\ OtherProgress' /\ Questions' /\ AnswersRight'
    BY <1>1 DEF AccessProgress, Between, OtherProgress, Questions, AnswersRight
  <1>6. AccessRight'
    <2>1. SUFFICES ASSUME Busy(End'), down' # <<>>
                   PROVE  /\ owed' # NoRequest
                          /\ (OnItsWay = Request(End.st, End.address, IF End.st = "write" THEN down[Len(down)].v ELSE 0, End.lock))'
      BY <1>1 DEF AccessRight
    <2>2. down' = down /\ End' = End /\ Busy(End) /\ down # <<>>
      BY <2>1, TokensDropped
    <2>3. /\ owed = NoRequest => made = "no"
          /\ OnItsWay = Request(End.st, End.address, IF End.st = "write" THEN down[Len(down)].v ELSE 0, End.lock)
      BY <2>2 DEF IInv, AccessRight
    <2>4. InFlight
      <3>1. down \in Seq(Tokens) /\ Lawful(widths.misc, core, down)
        BY DEF IInv, TypeOK, TokensRight
      <3> QED BY <2>2, <3>1, AccessIsOnItsWay DEF InFlight, End
    <2>5. owed = NoRequest => req # NoRequest
      BY <2>2, <2>3 DEF OnItsWay, Busy, Request, NoRequest
    <2>6. owed' # NoRequest /\ OnItsWay' = OnItsWay
      BY <1>1, <2>3, <2>4, <2>5 DEF OnItsWay
    <2> QED BY <2>2, <2>3, <2>6
  <1> QED BY <1>2, <1>3, <1>4, <1>5, <1>6 DEF IInv

LEMMA CallDone ==
  ASSUME IInv, call # "none", req = NoRequest, todo = <<>> \/ call = "rmw",
         call' = "none", todo' = <<>>,
         UNCHANGED <<widths, shadow, core, req, made, owed, bus>>,
         IF call = "close" THEN CloseSocket ELSE UNCHANGED <<open, gone, down, up>>
  PROVE  IInv'
  <1>1. /\ down' \in Prefixes(down) /\ up' \in Seq(UpTokens) /\ open' \in BOOLEAN /\ gone' \in BOOLEAN
        /\ open' => open
        /\ Live' => Live /\ call # "close"
        /\ call # "close" => down' = down /\ up' = up /\ End' = End
        /\ call = "close" => ~open'
    BY AllTokens, EmptySeq DEF CloseSocket, IInv, TypeOK, Live, End
  <1>2. made = "no" /\ (call \in {"open", "close"} => Ahead \in {0, -2} /\ todo = <<>>)
    <2>1. todo = <<>> => Len(todo) = 0
      OBVIOUS
    <2> QED BY <2>1 DEF IInv, Connections, Ahead, Behind
  <1>3. TypeOK'
    <2>1. todo' \in Seq(Steps) /\ down' \in Seq(Tokens)
      BY <1>1, EmptySeq, TokensDropped
    <2> QED BY <1>1, <2>1 DEF IInv, TypeOK, Address
  <1>4. Connections' /\ TokensRight'
    <2>1. \A i \in DOMAIN down' : down'[i].t = "reset" => ~open'
      BY <1>1, <1>2, TokensDropped DEF IInv, Connections, Questions
    <2> QED BY <1>1, <1>2, <2>1, TokensDropped DEF IInv, Connections, AccessCalls, Busy
  <1>5. AccessPlan' /\ OtherPlan'
    BY DEF AccessPlan, OtherPlan, AccessCalls
  <1>6. OtherProgress'
    <2>1. SUFFICES ASSUME Live' PROVE End.st = "idle" /\ End.address = shadow
      BY <1>1 DEF OtherProgress
    <2>2. CASE call = "open"
      BY <1>1, <1>2, <2>1, <2>2 DEF IInv, OtherProgress, OtherPlan, ResetCore
    <2>3. CASE call # "open"
      <3>1. call = "set" => Len(todo) # 1
        OBVIOUS
      <3>2. Live
        BY <1>1, <2>1
      <3>3. /\ call \notin {"set", "open"} => End.st = "idle"
            /\ call # "open" => End.address = shadow
            /\ call = "set" => IF Len(todo) = 1 THEN End.st \in {"M", "S"} ELSE End.st = "idle"
        BY <3>2 DEF IInv, OtherProgress
      <3> QED BY <2>3, <3>1, <3>3
    <2> QED BY <2>2, <2>3
  <1>7. AccessProgress' /\ Between'
    BY DEF AccessProgress, Between
  <1>8. Questions'
    <2>1. Live' => \A i \in DOMAIN down' : down'[i].t # "Q"
      BY <1>1, <1>2 DEF IInv, Questions
    <2> QED BY <2>1 DEF Questions
  <1>9. AccessRight' /\ AnswersRight'
    <2>1. open' => up' = <<>>
      BY <1>1, <1>2 DEF IInv, AnswersRight
    <2>2. Busy(End) /\ down # <<>> => owed # NoRequest
      BY Awaited
    <2> QED BY <1>1, <1>2, <2>1, <2>2, TokensDropped DEF IInv, AccessRight, AnswersRight, OnItsWay
  <1> QED BY <1>3, <1>4, <1>5, <1>6, <1>7, <1>8, <1>9 DEF IInv

LEMMA TimeoutKeeps == ASSUME IInv, TimeoutStep PROVE IInv'
  BY CallFails, EmptySeq DEF TimeoutStep, TimesOut, CloseSocket, Return, Live

LEMMA BreakKeeps == ASSUME IInv, BreakStep PROVE IInv'
  <1>1. gone /\ todo # <<>> /\ Failed /\ UNCHANGED <<widths, shadow, core>>
        /\ (Head(todo).do = "send" \/ (Head(todo).do = "receive" /\ Len(up) < Head(todo).n))
        /\ call' = "none" /\ todo' = <<>>
        /\ IF call \in {"open", "close"} THEN CloseSocket ELSE UNCHANGED <<open, gone, down, up>>
    BY DEF BreakStep, Breaks, Next_is, Return
  <1>2. CASE call \in {"open", "close"}
    BY <1>1, <1>2, CallFails, EmptySeq DEF CloseSocket, Live
  <1>3. CASE call \notin {"open", "close"}
    <2>1. call # "none" /\ open
      BY <1>1, StepAt DEF IInv, Connections
    <2>2. up = <<>>
      <3>1. SUFFICES ASSUME req # NoRequest, Ahead = 1, Len(up) = IF req.op = "write" THEN 1 ELSE 2
                     PROVE  FALSE
        BY <1>3, <2>1 DEF IInv, AnswersRight
      <3>2. Head(todo) = Receive(IF req.op = "write" THEN 1 ELSE 2, "answer")
        BY <1>1, <3>1, StepAt, AccessSteps
      <3> QED BY <1>1, <3>1, <3>2 DEF Receive
    <2> QED BY <1>1, <1>3, <2>1, <2>2, CallFails, AllTokens DEF IInv, TypeOK, Live
  <1> QED BY <1>2, <1>3

\* Only open and close ask for the widths.
LEMMA AsksForWidths ==
  ASSUME IInv, todo # <<>>, Head(todo).as \in {"id", "widths"}
  PROVE  call \in {"open", "close"} /\ req = NoRequest /\ (Ahead = IF Head(todo).as = "id" THEN 2 ELSE 1)
         /\ Head(todo).n = 1 /\ Head(todo).do = "receive"
  <1>1. req = NoRequest
    BY StepAt, AccessSteps DEF Receive
  <1>2. call \notin AccessCalls
    BY <1>1, StepAt DEF Local
  <1>3. call # "set"
    <2>1. SUFFICES ASSUME call = "set" PROVE FALSE
      OBVIOUS
    <2>2. todo[1] \in {Send("M", 0), Send("S", 0), Send("field", todo[1].tok.v)}
      BY <1>1, <2>1, StepAt DEF IInv, OtherPlan
    <2> QED BY <2>2, StepAt DEF Send
  <1>4. call \in {"open", "close"} /\ Head(todo) = SizesStepAt(Ahead)
    BY <1>2, <1>3, StepAt DEF IInv, TypeOK, AccessCalls
  <1> QED BY <1>1, <1>4 DEF SizesStepAt, Send, Receive

LEMMA WrongSizesKeeps == ASSUME IInv, WrongSizesStep PROVE IInv'
  <1>1. todo # <<>> /\ Head(todo).as \in {"id", "widths"} /\ Failed
        /\ UNCHANGED <<widths, shadow, core>> /\ call' = "none" /\ todo' = <<>>
        /\ (IF call \in {"open", "close"} THEN open' = FALSE /\ gone' = FALSE /\ down' \in Prefixes(down)
                                          ELSE UNCHANGED <<open, gone, down>>)
        /\ Len(up) >= Head(todo).n /\ up' = SubSeq(up, Head(todo).n + 1, Len(up))
    BY DEF WrongSizesStep, Misreceives, CanReceive, Next_is, Return
  <1>2. call \in {"open", "close"} /\ Head(todo).n = 1
    BY <1>1, AsksForWidths
  <1>3. up' \in Seq(UpTokens)
    <2>1. up \in Seq(UpTokens) /\ Len(up) \in Nat
      BY LenProperties DEF IInv, TypeOK
    <2> QED BY <1>1, <1>2, <2>1, SubSeqProperties
  <1> QED BY <1>1, <1>2, <1>3, CallFails DEF Live

LEMMA ThrowKeeps == ASSUME IInv, ModifyThrows PROVE IInv'
  <1>1. todo # <<>> /\ Head(todo).do = "local" /\ Head(todo).as = "modify"
    BY DEF ModifyThrows, Next_is
  <1>2. req = NoRequest
    BY <1>1, StepAt, AccessSteps DEF Receive
  <1>3. call = "rmw"
    <2>1. call \notin {"open", "close"}
      BY <1>1, StepAt DEF SizesStepAt, Send, Receive
    <2>2. call # "set"
      <3>1. SUFFICES ASSUME call = "set" PROVE FALSE
        OBVIOUS
      <3>2. todo[1] \in {Send("M", 0), Send("S", 0), Send("field", todo[1].tok.v)}
        BY <1>1, <1>2, <3>1, StepAt DEF IInv, OtherPlan
      <3> QED BY <1>1, <3>2, StepAt DEF Send
    <2> QED BY <1>1, <1>2, <2>1, <2>2, StepAt DEF IInv, TypeOK
  <1> QED BY <1>2, <1>3, CallDone DEF ModifyThrows, Return

LEMMA ReturnKeeps == ASSUME IInv, ReturnStep PROVE IInv'
  <1>1. req = NoRequest
    <2>1. todo = <<>> /\ Len(todo) = 0
      BY DEF ReturnStep
    <2>2. Behind \in 0..2 /\ CommandAt \in 2..3
      BY DEF Behind, CommandAt
    <2> QED BY <2>1, <2>2 DEF IInv, AccessPlan, Ahead
  <1>2. /\ call # "none" /\ todo = <<>> /\ call' = "none" /\ todo' = <<>>
        /\ UNCHANGED <<widths, shadow, core, req, made, owed, bus>>
        /\ IF call = "close" THEN CloseSocket ELSE UNCHANGED <<open, gone, down, up>>
    BY DEF ReturnStep, Return
  <1> QED BY <1>1, <1>2, CallDone

-----------------------------------------------------------------------------
(***************************************************************************)
(* A call goes on.                                                         *)
(***************************************************************************)
LEMMA StepDone ==
  ASSUME IInv, todo # <<>>, todo' = Tail(todo), UNCHANGED <<call, req, widths>>
  PROVE  /\ todo' \in Seq(Steps) /\ Len(todo') = Len(todo) - 1
         /\ Ahead \in Int /\ Ahead' = Ahead - 1 /\ CommandAt' = CommandAt
         /\ \A k : AccessStep(k)' = AccessStep(k)
         /\ req # NoRequest => \A i \in 1..Len(todo') : (todo[i] = AccessStep(Ahead + 1 - i))'
         /\ req = NoRequest /\ call \in AccessCalls => todo' = <<>>
         /\ req = NoRequest /\ call = "set" =>
              /\ Len(todo') <= 1
              /\ \A i \in 1..Len(todo') : todo'[i] = Send("field", todo'[i].tok.v)
         /\ req = NoRequest /\ call \in {"open", "close"} =>
              \A i \in 1..Len(todo') : (todo[i] = SizesStepAt(Ahead + 1 - i))'
  <1>1. /\ todo' \in Seq(Steps) /\ Len(todo) \in Nat /\ Len(todo) > 0 /\ Len(todo') = Len(todo) - 1
        /\ \A i \in 1..Len(todo') : todo'[i] = todo[i + 1] /\ i + 1 \in 1..Len(todo)
    BY HeadTailProperties, EmptySeq, LenProperties DEF IInv, TypeOK
  <1>2. Behind \in 0..2 /\ Behind' = Behind /\ CommandAt' = CommandAt /\ \A k : AccessStep(k)' = AccessStep(k)
    BY DEF Behind, CommandAt, AccessStep
  <1>3. Ahead \in Int /\ Ahead' = Ahead - 1
    BY <1>1, <1>2 DEF Ahead
  <1>4. \A i \in 1..Len(todo') : Ahead + 1 - (i + 1) = Ahead' + 1 - i
    BY <1>1, <1>3
  <1>5. ASSUME req # NoRequest PROVE \A i \in 1..Len(todo') : (todo[i] = AccessStep(Ahead + 1 - i))'
    <2>1. \A i \in 1..Len(todo) : todo[i] = AccessStep(Ahead + 1 - i)
      BY <1>5 DEF IInv, AccessPlan
    <2>2. SUFFICES ASSUME NEW i \in 1..Len(todo') PROVE (todo[i] = AccessStep(Ahead + 1 - i))'
      OBVIOUS
    <2>3. todo'[i] = AccessStep(Ahead' + 1 - i)
      BY <1>1, <1>4, <2>1, <2>2
    <2> QED BY <1>2, <2>3 DEF AccessStep, CommandAt
  <1>6. ASSUME req = NoRequest, call \in AccessCalls PROVE todo' = <<>>
    <2>1. Len(todo) = 1
      BY <1>6 DEF IInv, OtherPlan
    <2> QED BY <1>1, <2>1, EmptySeq
  <1>7. ASSUME req = NoRequest, call = "set"
        PROVE  /\ Len(todo') <= 1
               /\ \A i \in 1..Len(todo') : todo'[i] = Send("field", todo'[i].tok.v)
    <2>1. /\ Len(todo) <= 2
          /\ \A i \in 1..Len(todo) : i = Len(todo) => todo[i] = Send("field", todo[i].tok.v)
      BY <1>7 DEF IInv, OtherPlan
    <2>2. Len(todo') <= 1
      <3> DEFINE n == Len(todo)
                 m == Len(todo')
      <3>1. n \in Nat /\ n <= 2 /\ m = n - 1
        BY <1>1, <2>1
      <3> HIDE DEF n, m
      <3>2. m <= 1
        BY <3>1
      <3> QED BY <3>2 DEF m
    <2>3. ASSUME NEW i \in 1..Len(todo') PROVE todo'[i] = Send("field", todo'[i].tok.v)
      <3>1. i + 1 = Len(todo) /\ todo'[i] = todo[i + 1]
        <4> DEFINE n == Len(todo)
                   m == Len(todo')
        <4>1. i \in 1..m /\ n \in Nat /\ n <= 2 /\ m = n - 1
          BY <1>1, <2>1
        <4> HIDE DEF n, m
        <4>2. i + 1 = n
          BY <4>1
        <4> QED BY <1>1, <4>2 DEF n
      <3>2. Len(todo) \in 1..Len(todo)
        BY <1>1
      <3>3. todo[Len(todo)] = Send("field", todo[Len(todo)].tok.v)
        BY <2>1, <3>2
      <3> QED BY <3>1, <3>3
    <2> QED BY <2>2, <2>3
  <1>8. ASSUME req = NoRequest, call \in {"open", "close"}
        PROVE  \A i \in 1..Len(todo') : (todo[i] = SizesStepAt(Ahead + 1 - i))'
    <2>1. \A i \in 1..Len(todo) : todo[i] = SizesStepAt(Ahead + 1 - i)
      BY <1>8 DEF IInv, OtherPlan
    <2>2. \A i \in 1..Len(todo') : todo'[i] = SizesStepAt(Ahead' + 1 - i)
      BY <1>1, <1>4, <2>1
    <2> QED BY <2>2 DEF SizesStepAt
  <1> QED BY <1>1, <1>2, <1>3, <1>5, <1>6, <1>7, <1>8

\* Of the plan, the address is remembered in time.
LEMMA PlanMoves ==
  ASSUME IInv, todo # <<>>, todo' = Tail(todo), UNCHANGED <<call, req, widths, shadow, made>>,
         req # NoRequest => Ahead # 1 /\ Ahead # CommandAt + 1
  PROVE  AccessPlan' /\ OtherPlan'
  <1>1. AccessPlan'
    <2>1. SUFFICES ASSUME req # NoRequest PROVE AccessPlan'
      BY DEF AccessPlan
    <2>2. /\ Ahead \in 1..CommandAt + 3 /\ CommandAt \in 2..3
          /\ made # "no" => Ahead = 1
          /\ Ahead <= CommandAt => shadow = req.addr
          /\ call = "rmw" => IF req.op = "read" THEN req.lock ELSE ~req.lock /\ Ahead <= CommandAt
      BY <2>1 DEF IInv, AccessPlan, CommandAt
    <2>3. Ahead' = Ahead - 1 /\ CommandAt' = CommandAt
          /\ \A i \in 1..Len(todo') : (todo[i] = AccessStep(Ahead + 1 - i))'
      BY <2>1, StepDone
    <2>4. (Ahead \in 1..CommandAt + 3)' /\ (Ahead <= CommandAt => shadow = req.addr)' /\ made = "no"
      BY <2>1, <2>2, <2>3
    <2>5. (call = "rmw" => IF req.op = "read" THEN req.lock ELSE ~req.lock /\ Ahead <= CommandAt)'
      BY <2>2, <2>3
    <2> QED BY <2>3, <2>4, <2>5 DEF AccessPlan
  <1>2. OtherPlan'
    <2>1. SUFFICES ASSUME req = NoRequest PROVE OtherPlan'
      BY DEF OtherPlan
    <2>2. /\ Len(todo') = Len(todo) - 1 /\ Len(todo) \in Nat /\ Ahead' = Ahead - 1 /\ Ahead \in Int
          /\ call \in AccessCalls => todo' = <<>>
          /\ call = "set" =>
              /\ Len(todo') <= 1
              /\ \A i \in 1..Len(todo') : todo'[i] = Send("field", todo'[i].tok.v)
          /\ call \in {"open", "close"} => \A i \in 1..Len(todo') : (todo[i] = SizesStepAt(Ahead + 1 - i))'
      BY <2>1, StepDone, StepAt
    <2>3. call # "none"
      BY StepAt
    <2>4. call = "set" => \A i \in 1..Len(todo') : i = Len(todo')
      <3> DEFINE n == Len(todo')
      <3>1. n \in Nat /\ (call = "set" => n <= 1)
        BY <2>2
      <3> HIDE DEF n
      <3>2. call = "set" => \A i \in 1..n : i = n
        BY <3>1
      <3> QED BY <3>2 DEF n
    <2>5. call \in {"open", "close"} => Ahead - 1 <= IF call = "open" THEN 4 ELSE 3
      BY <2>1, <2>2 DEF IInv, OtherPlan
    <2>6. call = "open" => shadow = 0
      BY <2>1 DEF IInv, OtherPlan
    <2>7. call = "set" => Len(todo') <= 2
      BY <2>2
    <2> QED BY <2>1, <2>2, <2>3, <2>4, <2>5, <2>6, <2>7 DEF OtherPlan
  <1> QED BY <1>1, <1>2

\* What is sent: nobody waits for an answer, and no read_modify_write modifies.
LEMMA Sending ==
  ASSUME IInv, todo # <<>>, Head(todo).do = "send"
  PROVE  /\ req # NoRequest => Ahead \in (2..CommandAt + 3) \ {CommandAt + 1} /\ made = "no" /\ (open => up = <<>>)
         /\ req = NoRequest => call \in {"set", "open", "close"}
         /\ call \in {"open", "close"} => Ahead \notin {1, 2} /\ (call = "close" => Ahead \in {3})
                                          /\ Ahead \in -1..4
         /\ Head(todo).tok \in Tokens
  <1>1. ASSUME req # NoRequest
        PROVE  Ahead \in (2..CommandAt + 3) \ {CommandAt + 1} /\ made = "no" /\ (open => up = <<>>)
    <2>1. Ahead \in (1..CommandAt + 3) \ {1, CommandAt + 1} /\ CommandAt \in 2..3
      BY <1>1, StepAt, AccessSteps DEF Receive
    <2>2. made = "no"
      BY <1>1, <2>1 DEF IInv, AccessPlan
    <2> QED BY <1>1, <2>1, <2>2 DEF IInv, AnswersRight
  <1>2. req = NoRequest => call \in {"set", "open", "close"}
    BY StepAt DEF IInv, TypeOK, Local, AccessCalls
  <1>3. ASSUME call \in {"open", "close"}
        PROVE  Ahead \notin {1, 2} /\ (call = "close" => Ahead \in {3}) /\ Ahead \in -1..4
    <2>1. Head(todo) = SizesStepAt(Ahead) /\ req = NoRequest
      BY <1>3, StepAt DEF IInv, Connections, AccessCalls
    <2>2. Len(todo) \in Nat /\ Len(todo) > 0 /\ Ahead = Len(todo) - IF call = "open" /\ widths.addr # 0 THEN 2 ELSE 0
      BY <2>1, StepAt DEF Ahead, Behind
    <2>3. Ahead <= IF call = "open" THEN 4 ELSE 3
      BY <1>3, <2>1 DEF IInv, OtherPlan
    <2>4. Ahead \notin {1, 2}
      BY <2>1 DEF SizesStepAt, Receive
    <2>5. CASE call = "open"
      <3>1. Ahead \in Int /\ Ahead >= -1 /\ Ahead <= 4
        BY <2>2, <2>3, <2>5
      <3> QED BY <2>4, <2>5, <3>1
    <2>6. CASE call = "close"
      <3>1. Ahead \in Int /\ Ahead >= 1 /\ Ahead <= 3
        BY <2>2, <2>3, <2>6
      <3> QED BY <2>4, <2>6, <3>1
    <2> QED BY <1>3, <2>5, <2>6
  <1>4. Head(todo).tok \in Tokens
    <2>1. todo \in Seq(Steps) /\ Len(todo) > 0 /\ Len(todo) \in Nat /\ Head(todo) = todo[1]
      BY StepAt DEF IInv, TypeOK
    <2>2. Head(todo) \in Steps
      BY <2>1
    <2> QED BY <2>2 DEF Steps
  <1> QED BY <1>1, <1>2, <1>3, <1>4

\* Nobody reads what is sent.
LEMMA SentInVain ==
  ASSUME IInv, todo # <<>>, Head(todo).do = "send", gone, todo' = Tail(todo),
         UNCHANGED <<open, gone, call, down, up, widths, shadow, core, req, made, owed, bus>>
  PROVE  IInv'
  <1>1. ~Live /\ ~Live' /\ End' = End
    BY DEF Live, End
  <1>2. /\ todo' \in Seq(Steps) /\ Ahead \in Int /\ Ahead' = Ahead - 1
    BY StepDone
  <1>3. TypeOK'
    BY <1>2 DEF IInv, TypeOK, Address
  <1>4. Connections' /\ TokensRight' /\ AccessPlan' /\ OtherPlan'
    BY PlanMoves, Sending DEF IInv, Connections, TokensRight, Busy
  <1>5. AccessProgress' /\ Between' /\ OtherProgress'
    BY <1>1 DEF AccessProgress, Between, OtherProgress
  <1>6. Questions'
    BY <1>1, <1>2, Sending DEF IInv, Questions
  <1>7. AccessRight'
    <2>1. Busy(End) /\ down # <<>> => owed # NoRequest
      BY <1>2, Awaited, Sending
    <2> QED BY <1>1, <2>1 DEF IInv, AccessRight, OnItsWay
  <1>8. AnswersRight'
    <2>1. call \in {"open", "close"} => Ahead \in Int /\ Ahead \notin {1, 2}
      BY <1>2, Sending
    <2> QED BY <1>2, <2>1, Sending DEF IInv, AnswersRight
  <1> QED BY <1>3, <1>4, <1>5, <1>6, <1>7, <1>8 DEF IInv

LEMMA TokenSent ==
  ASSUME IInv, NEW t \in Tokens, down' = Append(down, t), UNCHANGED <<widths, core>>,
         Legal(End, t), t.t = "reset" => down = <<>>, \A i \in DOMAIN down : down[i].t # "Q"
  PROVE  /\ down' \in Seq(Tokens) /\ TokensRight' /\ End' = Took(widths.misc, End, t)
         /\ down' # <<>> /\ down'[Len(down')] = t
         /\ \A i \in DOMAIN down' : down'[i] = t \/ \E j \in DOMAIN down : down'[i] = down[j]
  <1> DEFINE d == down
             e == Append(d, t)
  <1>1. d \in Seq(Tokens) /\ Lawful(widths.misc, core, d) /\ ResetFirst(d)
    BY DEF IInv, TypeOK, TokensRight
  <1>2. /\ Final(widths.misc, core, e) = Took(widths.misc, Final(widths.misc, core, d), t)
        /\ Lawful(widths.misc, core, e)
    BY <1>1, TakesAppended DEF End
  <1> HIDE DEF d
  <1>3. /\ e \in Seq(Tokens) /\ Len(d) \in Nat /\ Len(e) = Len(d) + 1 /\ DOMAIN e = 1..Len(d) + 1 /\ DOMAIN d = 1..Len(d)
        /\ e[Len(d) + 1] = t /\ \A i \in 1..Len(d) : e[i] = d[i]
    BY <1>1, AppendProperties, LenProperties
  <1>4. e # <<>>
    BY <1>3, EmptySeq
  <1>5. \A i \in DOMAIN e : e[i] = t \/ \E j \in DOMAIN d : e[i] = d[j]
    BY <1>3
  <1>6. ResetFirst(e)
    <2>1. d = <<>> => Len(d) = 0
      OBVIOUS
    <2>2. t.t = "reset" => Len(d) = 0
      BY <2>1 DEF d
    <2> QED BY <1>1, <1>3, <2>2 DEF ResetFirst
  <1>7. QuestionLast(e)
    <2>1. \A i \in DOMAIN d : d[i].t # "Q"
      BY DEF d
    <2> QED BY <1>3, <2>1 DEF QuestionLast
  <1> QED BY <1>2, <1>3, <1>4, <1>5, <1>6, <1>7 DEF TokensRight, End, d

LEMMA SendAccess ==
  ASSUME IInv, Live, req # NoRequest, todo # <<>>, Head(todo).do = "send",
         todo' = Tail(todo), down' = Append(down, Head(todo).tok),
         UNCHANGED <<open, gone, call, up, widths, shadow, core, req, made, owed, bus>>
  PROVE  IInv'
  <1> DEFINE t == Head(todo).tok
             n == Ahead
             c == CommandAt
             E == Took(widths.misc, End, t)
  <1>1. /\ n \in (2..c + 3) \ {c + 1} /\ c = (IF req.op = "write" THEN 3 ELSE 2) /\ made = "no" /\ up = <<>>
        /\ t \in Tokens /\ Head(todo) = AccessStep(n) /\ owed = NoRequest
        /\ call \in AccessCalls /\ n' = n - 1 /\ c' = c /\ todo' \in Seq(Steps)
    BY Sending, StepAt, StepDone DEF CommandAt, Live, IInv, AccessRight, Connections
  <1>2. /\ req.op \in {"read", "write"} /\ req.lock \in BOOLEAN
        /\ req = Request(req.op, req.addr, req.data, req.lock) /\ (req.op = "read" => req.data = 0)
        /\ CommandOf(req) = IF req.op = "write" THEN IF req.lock THEN "Wlock" ELSE "W"
                            ELSE IF req.lock THEN "Rlock" ELSE "R"
    BY RequestTypes DEF IInv, TypeOK, CommandOf
  <1>3. t = CASE n = c     -> Token(CommandOf(req), 0)
              [] n = c + 2 -> Token("field", req.addr)
              [] n = c + 3 -> Token("A", 0)
              [] OTHER     -> Token("field", req.data)
    <2> HIDE DEF n
    <2>1. Head(todo) = CASE n = c    -> Send(CommandOf(req), 0)
              [] n = c + 2 -> Send("field", req.addr)
              [] n = c + 3 -> Send("A", 0)
              [] OTHER     -> Send("field", req.data)
      BY <1>1 DEF AccessStep
    <2> QED BY <1>1, <2>1 DEF Send
  <1>4. /\ n = c + 3 => End.st = "idle"
        /\ n = c + 2 => End.st = "A"
        /\ n = c => End.st = "idle" /\ End.address = req.addr
        /\ n = 2 /\ req.op = "write" => End.st = CommandOf(req) /\ End.address = req.addr
    BY <1>1 DEF IInv, AccessProgress, CommandAt
  <1> HIDE DEF n, c, t
  <1>5. /\ Legal(End, t) /\ t.t \notin {"reset", "Q"}
        /\ n = c + 3 => E.st = "A"
        /\ n = c + 2 => E.st = "idle" /\ E.address = req.addr
        /\ n = c /\ req.op = "write" => E.st = CommandOf(req) /\ E.address = req.addr
        /\ n = c /\ req.op = "read" => req = Request(E.st, E.address, 0, E.lock) /\ Busy(E)
        /\ n = 2 /\ req.op = "write" => req = Request(E.st, E.address, t.v, E.lock) /\ Busy(E)
        /\ E.st \in {"read", "write"} => n = 2
        /\ call = "rmw" /\ req.op = "write" => t.t \in {"W", "field"}
    <2>1. CASE n = c + 3
      <3>1. t = Token("A", 0) /\ n # 2
        BY <1>1, <1>3, <2>1
      <3>2. call = "rmw" => req.op = "read"
        BY <1>1, <1>2, <2>1 DEF IInv, AccessPlan, n, c
      <3> QED BY <1>1, <1>4, <2>1, <3>1, <3>2 DEF Legal, Took, Token, Commands
    <2>2. CASE n = c + 2
      <3>1. t = Token("field", req.addr) /\ n # 2
        BY <1>1, <1>3, <2>2
      <3> QED BY <1>1, <1>4, <2>2, <3>1 DEF Legal, Took, Token, Commands
    <2>3. CASE n = c
      <3>1. t = Token(CommandOf(req), 0) /\ (req.op = "write" => n # 2)
        BY <1>1, <1>3, <2>3
      <3>2. call = "rmw" /\ req.op = "write" => ~req.lock
        BY <1>2 DEF IInv, AccessPlan
      <3> QED BY <1>1, <1>2, <1>4, <2>3, <3>1, <3>2 DEF Legal, Took, Token, Commands, Request, Busy
    <2>4. CASE n = 2 /\ n # c
      <3>1. t = Token("field", req.data) /\ req.op = "write"
        BY <1>1, <1>2, <1>3, <2>4
      <3> QED BY <1>1, <1>2, <1>4, <2>4, <3>1 DEF Legal, Took, Token, Commands, Request, Busy
    <2> QED BY <1>1, <2>1, <2>2, <2>3, <2>4
  <1>6. \A i \in DOMAIN down : down[i].t # "Q"
    BY <1>1 DEF IInv, Questions, AccessCalls
  <1>7. /\ down' \in Seq(Tokens) /\ TokensRight' /\ End' = E
        /\ down' # <<>> /\ down'[Len(down')] = t
        /\ \A i \in DOMAIN down' : down'[i] = t \/ \E j \in DOMAIN down : down'[i] = down[j]
    BY <1>1, <1>5, <1>6, TokenSent DEF t
  <1>8. TypeOK'
    BY <1>1, <1>7 DEF IInv, TypeOK, Address
  <1>9. Connections'
    BY <1>5, <1>7 DEF IInv, Connections, Busy
  <1>10. AccessPlan' /\ OtherPlan'
    BY <1>1, PlanMoves DEF n, c
  <1> HIDE DEF E
  <1>11. AccessProgress'
    <2>1. /\ n' = c' + 3 => E.st = "idle"
          /\ n' = c' + 2 => E.st = "A"
          /\ n' \in {c', c' + 1} => E.st = "idle" /\ E.address = req.addr
          /\ n' = 2 /\ req.op = "write" => E.st = CommandOf(req) /\ E.address = req.addr
          /\ n' = 1 => E.st = req.op
      <3>1. n' = n - 1 /\ c' = c /\ n \in (2..c + 3) \ {c + 1} /\ c = IF req.op = "write" THEN 3 ELSE 2
        BY <1>1
      <3>2. n' # c' + 3 /\ n' # c'
        BY <3>1
      <3>3. n' = c' + 2 => n = c + 3
        BY <3>1
      <3>4. n' = c' + 1 => n = c + 2
        BY <3>1
      <3>5. n' = 2 /\ req.op = "write" => n = c
        BY <3>1
      <3>6. n' = 1 => n = 2
        BY <3>1
      <3>7. n = 2 /\ req.op # "write" => n = c /\ req.op = "read"
        BY <1>2, <3>1
      <3>8. n = 2 => E.st = req.op
        BY <1>2, <1>5, <3>7 DEF Request
      <3> QED BY <1>5, <3>2, <3>3, <3>4, <3>5, <3>6, <3>8
    <2> QED BY <1>1, <1>7, <2>1 DEF AccessProgress, n, c, CommandOf
  <1>12. Between' /\ OtherProgress'
    BY <1>1, <1>5, <1>7 DEF IInv, Between, OtherProgress, Live
  <1>13. Questions'
    BY <1>1, <1>5, <1>6, <1>7 DEF Questions, AccessCalls
  <1>14. AccessRight'
    <2>1. Busy(E) => req = Request(E.st, E.address, IF E.st = "write" THEN t.v ELSE 0, E.lock)
      <3>1. SUFFICES ASSUME Busy(E) PROVE req = Request(E.st, E.address, IF E.st = "write" THEN t.v ELSE 0, E.lock)
        OBVIOUS
      <3>2. n = 2
        BY <1>5, <3>1 DEF Busy
      <3>3. CASE req.op = "write"
        BY <1>5, <3>2, <3>3 DEF Request
      <3>4. CASE req.op = "read"
        BY <1>1, <1>5, <3>2, <3>4 DEF Request
      <3> QED BY <1>2, <3>3, <3>4
    <2>2. Busy(E) => n' = 1
      BY <1>1, <1>5 DEF Busy
    <2> QED BY <1>1, <1>7, <2>1, <2>2 DEF AccessRight, OnItsWay, n
  <1>15. AnswersRight'
    BY <1>1 DEF AnswersRight, AccessCalls
  <1> QED BY <1>7, <1>8, <1>9, <1>10, <1>11, <1>12, <1>13, <1>14, <1>15 DEF IInv

LEMMA SendSet ==
  ASSUME IInv, Live, call = "set", todo # <<>>, Head(todo).do = "send",
         todo' = Tail(todo), down' = Append(down, Head(todo).tok),
         UNCHANGED <<open, gone, call, up, widths, shadow, core, req, made, owed, bus>>
  PROVE  IInv'
  <1> DEFINE t == Head(todo).tok
             E == Took(widths.misc, End, t)
  <1>1. req = NoRequest /\ made = "no" /\ up = <<>> /\ owed = NoRequest
    BY DEF IInv, Connections, AccessCalls, AnswersRight, AccessRight, Live
  <1>2. /\ Len(todo) \in {1, 2} /\ Len(todo') = Len(todo) - 1 /\ todo' \in Seq(Steps) /\ t \in Tokens
        /\ End.address = shadow
        /\ Len(todo) = 2 => Head(todo) \in {Send("M", 0), Send("S", 0)} /\ End.st = "idle"
        /\ Len(todo) = 1 => Head(todo) = Send("field", t.v) /\ End.st \in {"M", "S"}
    <2>1. /\ Len(todo) \in Nat /\ Len(todo) > 0 /\ Len(todo) <= 2 /\ Head(todo) = todo[1]
          /\ Len(todo') = Len(todo) - 1 /\ todo' \in Seq(Steps) /\ t \in Tokens
      BY <1>1, StepAt, StepDone, Sending DEF IInv, OtherPlan
    <2>2. /\ Len(todo) = 2 => todo[1] \in {Send("M", 0), Send("S", 0)}
          /\ Len(todo) = 1 => todo[1] = Send("field", todo[1].tok.v)
      BY <1>1, <2>1 DEF IInv, OtherPlan
    <2>3. /\ End.address = shadow
          /\ IF Len(todo) = 1 THEN End.st \in {"M", "S"} ELSE End.st = "idle"
      BY <1>1 DEF IInv, OtherProgress
    <2>4. Len(todo) \in {1, 2}
      BY <2>1
    <2> QED BY <2>1, <2>2, <2>3, <2>4
  <1>3. /\ Legal(End, t) /\ t.t \notin {"reset", "Q"} /\ E.address = shadow
        /\ Len(todo) = 2 => E.st \in {"M", "S"}
        /\ Len(todo) = 1 => E.st = "idle"
    BY <1>2 DEF Legal, Took, Send, Token, Commands
  <1>4. \A i \in DOMAIN down : down[i].t # "Q"
    BY DEF IInv, Questions
  <1>5. /\ down' \in Seq(Tokens) /\ TokensRight' /\ End' = E
        /\ \A i \in DOMAIN down' : down'[i] = t \/ \E j \in DOMAIN down : down'[i] = down[j]
    BY <1>2, <1>3, <1>4, TokenSent
  <1> HIDE DEF t, E
  <1>6. TypeOK'
    BY <1>2, <1>5 DEF IInv, TypeOK, Address
  <1>7. Connections'
    BY <1>3, <1>5 DEF IInv, Connections, Busy
  <1>8. AccessPlan' /\ OtherPlan'
    BY <1>1, PlanMoves DEF t
  <1>9. AccessProgress' /\ Between'
    BY <1>1 DEF AccessProgress, Between
  <1>10. OtherProgress'
    <2>1. IF Len(todo') = 1 THEN E.st \in {"M", "S"} ELSE E.st = "idle"
      BY <1>2, <1>3
    <2> QED BY <1>3, <1>5, <2>1 DEF OtherProgress
  <1>11. Questions'
    BY <1>3, <1>4, <1>5 DEF Questions
  <1>12. AccessRight' /\ AnswersRight'
    <2>1. ~Busy(End')
      BY <1>2, <1>3, <1>5 DEF Busy
    <2> QED BY <1>1, <2>1 DEF AccessRight, AnswersRight
  <1> QED BY <1>5, <1>6, <1>7, <1>8, <1>9, <1>10, <1>11, <1>12 DEF IInv

LEMMA SendSizes ==
  ASSUME IInv, Live, call \in {"open", "close"}, todo # <<>>, Head(todo).do = "send",
         todo' = Tail(todo), down' = Append(down, Head(todo).tok),
         UNCHANGED <<open, gone, call, up, widths, shadow, core, req, made, owed, bus>>
  PROVE  IInv'
  <1> DEFINE t == Head(todo).tok
             E == Took(widths.misc, End, t)
             n == Ahead
  <1>1. req = NoRequest /\ made = "no" /\ owed = NoRequest
    BY DEF IInv, Connections, AccessCalls, AccessRight
  <1>2. /\ n \in {-1, 0, 3, 4} /\ (call = "close" => n = 3) /\ n' = n - 1
        /\ todo' \in Seq(Steps) /\ t \in Tokens /\ Head(todo) = SizesStepAt(n)
    <2>1. n \in Int /\ n' = n - 1 /\ todo' \in Seq(Steps) /\ t \in Tokens /\ Head(todo) = SizesStepAt(n)
      BY StepAt, StepDone, Sending
    <2>2. n \notin {1, 2} /\ (call = "close" => n \in {3}) /\ n \in -1..4
      BY Sending
    <2> HIDE DEF n
    <2>3. n \in {-1, 0, 3, 4}
      BY <2>1, <2>2
    <2> QED BY <2>1, <2>2, <2>3
  <1>3. t = CASE n = -1 -> Token("field", 0)
              [] n = 0  -> Token("A", 0)
              [] n = 3  -> Token("Q", 0)
              [] OTHER  -> Token("reset", 0)
    <2> HIDE DEF n
    <2> QED BY <1>2 DEF SizesStepAt, Send
  <1>4. /\ call = "close" => End.st = "idle" /\ End.address = shadow
        /\ call = "open" /\ n = 4 => down = <<>>
        /\ call = "open" /\ n = -1 => End = [st |-> "A", address |-> 0, misc |-> 0, lock |-> FALSE]
        /\ call = "open" /\ n \notin {4, -1} => End = ResetCore
        /\ call = "open" => shadow = 0
    BY <1>1 DEF IInv, OtherProgress, OtherPlan
  <1>5. \A i \in DOMAIN down : down[i].t # "Q" /\ (down[i].t = "reset" => call = "open" /\ n = 3)
    <2>1. \A i \in DOMAIN down : down[i].t # "Q"
      BY <1>2 DEF IInv, Questions
    <2>2. ASSUME NEW i \in DOMAIN down, down[i].t = "reset" PROVE call = "open" /\ n = 3
      <3>1. call = "open"
        BY <2>2 DEF IInv, Connections, Live
      <3>2. n # 4
        <4>1. down # <<>>
          BY <2>2
        <4> QED BY <1>4, <3>1, <4>1
      <3> QED BY <1>2, <2>2, <3>1, <3>2 DEF IInv, Questions
    <2> QED BY <2>1, <2>2
  <1>6. call = "open" /\ n = 3 => \A i \in DOMAIN down : down[i].t = "reset"
    BY DEF IInv, Questions
  <1>7. AccessPlan' /\ OtherPlan'
    BY <1>1, PlanMoves
  <1>8. up = <<>> \/ (call = "open" /\ n >= 3 /\ up # <<>> /\ up[1].t \in {"ACK", "NAK"})
    BY <1>1, <1>2 DEF IInv, AnswersRight, Live
  <1> HIDE DEF n, t
  <1>9. /\ Legal(End, t) /\ (t.t = "reset" <=> n = 4) /\ (t.t = "Q" <=> n = 3)
        /\ call = "close" => E = End
        /\ call = "open" => E = IF n = 0 THEN [st |-> "A", address |-> 0, misc |-> 0, lock |-> FALSE] ELSE ResetCore
    <2>1. CASE n = 4
      <3>1. t.t = "reset" /\ call = "open"
        BY <1>2, <1>3, <2>1 DEF Token
      <3>2. E = ResetCore /\ Legal(End, t)
        BY <3>1 DEF Took, Legal, Commands
      <3> QED BY <2>1, <3>1, <3>2
    <2>2. CASE n = 3
      <3>1. t.t = "Q"
        BY <1>2, <1>3, <2>2 DEF Token
      <3>2. E = End
        BY <3>1 DEF Took, Commands
      <3>3. Legal(End, t) /\ (call = "open" => End = ResetCore)
        BY <1>2, <1>4, <2>2, <3>1 DEF Legal, ResetCore
      <3> QED BY <1>2, <2>2, <3>1, <3>2, <3>3
    <2>3. CASE n = 0
      <3>1. t.t = "A" /\ call = "open"
        BY <1>2, <1>3, <2>3 DEF Token
      <3>2. End = ResetCore
        BY <1>4, <2>3, <3>1
      <3>3. E = [st |-> "A", address |-> End.address, misc |-> End.misc, lock |-> End.lock]
        BY <3>1 DEF Took, Commands
      <3>5. End.address = 0 /\ End.misc = 0 /\ End.lock = FALSE /\ End.st = "idle"
        BY <3>2 DEF ResetCore
      <3>6. E = [st |-> "A", address |-> 0, misc |-> 0, lock |-> FALSE]
        BY <3>3, <3>5
      <3>7. Legal(End, t)
        BY <3>1, <3>5 DEF Legal, Commands
      <3> QED BY <2>3, <3>1, <3>6, <3>7
    <2>4. CASE n = -1
      <3>1. t.t = "field" /\ t.v = 0 /\ call = "open"
        BY <1>2, <1>3, <2>4 DEF Token
      <3>2. End.st = "A" /\ End.address = 0 /\ End.misc = 0 /\ End.lock = FALSE
        BY <1>4, <2>4, <3>1
      <3>3. E = [st |-> "idle", address |-> 0, misc |-> 0, lock |-> FALSE]
        BY <3>1, <3>2 DEF Took, Commands
      <3>4. E = ResetCore /\ Legal(End, t)
        BY <3>1, <3>2, <3>3 DEF Legal, ResetCore, Commands
      <3> QED BY <2>4, <3>1, <3>4
    <2> QED BY <1>2, <2>1, <2>2, <2>3, <2>4
  <1>10. /\ down' \in Seq(Tokens) /\ TokensRight' /\ End' = E
         /\ \A i \in DOMAIN down' : down'[i] = t \/ \E j \in DOMAIN down : down'[i] = down[j]
    <2>1. t.t = "reset" => down = <<>>
      BY <1>2, <1>4, <1>9
    <2> QED BY <1>2, <1>5, <1>9, <2>1, TokenSent DEF t
  <1> HIDE DEF E
  <1>11. TypeOK'
    BY <1>2, <1>10 DEF IInv, TypeOK, Address
  <1>12. Connections'
    <2>1. \A i \in DOMAIN down' : down'[i].t = "reset" => call = "open"
      BY <1>2, <1>5, <1>9, <1>10
    <2> QED BY <2>1 DEF IInv, Connections, Busy
  <1>13. AccessProgress' /\ Between'
    BY <1>1 DEF AccessProgress, Between
  <1>14. OtherProgress'
    <2>1. CASE call = "close"
      BY <1>4, <1>9, <1>10, <2>1 DEF OtherProgress
    <2>2. CASE call = "open"
      <3>1. n' # 4 /\ (n' = -1 <=> n = 0)
        BY <1>2
      <3> QED BY <1>4, <1>9, <1>10, <2>2, <3>1 DEF OtherProgress, n
    <2> QED BY <2>1, <2>2
  <1>15. Questions'
    <2>1. n = 3 => n' = 2
      BY <1>2
    <2>2. \A i \in DOMAIN down' : down'[i].t = "Q" => n' = 2
      BY <1>5, <1>9, <1>10, <2>1
    <2>3. n' # 1 /\ (call = "close" => n' # 0) /\ (n' <= 1 => n \in {-1, 0}) /\ (n' = 3 => n = 4)
      BY <1>2
    <2>4. n \in {-1, 0} => \A i \in DOMAIN down' : down'[i].t # "reset"
      BY <1>5, <1>9, <1>10
    <2>5. n = 4 => \A i \in DOMAIN down' : down'[i].t = "reset"
      <3>1. call = "open" /\ n = 4 => down = <<>> /\ DOMAIN down = {}
        BY <1>4
      <3>2. n = 4 => call = "open"
        BY <1>2
      <3> QED BY <1>9, <1>10, <3>1, <3>2
    <2> QED BY <2>2, <2>3, <2>4, <2>5 DEF Questions, n
  <1>16. AccessRight'
    <2>1. ~Busy(End')
      BY <1>4, <1>9, <1>10 DEF Busy, ResetCore
    <2> QED BY <1>1, <2>1 DEF AccessRight
  <1>17. AnswersRight'
    <2>1. n' # 1 /\ (n >= 3 => n' >= 2)
      BY <1>2
    <2> QED BY <1>1, <1>8, <2>1 DEF AnswersRight, n
  <1> QED BY <1>7, <1>10, <1>11, <1>12, <1>13, <1>14, <1>15, <1>16, <1>17 DEF IInv

LEMMA SendKeeps == ASSUME IInv, SendStep PROVE IInv'
  <1>1. /\ todo # <<>> /\ Head(todo).do = "send" /\ todo' = Tail(todo)
        /\ UNCHANGED <<open, gone, call, up, widths, shadow, core, req, made, owed, bus>>
        /\ IF gone THEN down' = down ELSE down' = Append(down, Head(todo).tok)
    BY DEF SendStep, Sends, Next_is, busVars
  <1>2. CASE gone
    BY <1>1, <1>2, SentInVain
  <1>3. CASE ~gone
    <2>1. Live
      BY <1>1, <1>3, StepAt DEF IInv, Connections, Live
    <2>2. CASE req # NoRequest
      BY <1>1, <1>3, <2>1, <2>2, SendAccess
    <2>3. CASE req = NoRequest
      BY <1>1, <1>3, <2>1, <2>3, Sending, SendSet, SendSizes
    <2> QED BY <2>2, <2>3
  <1> QED BY <1>2, <1>3

LEMMA ShadowKeeps == ASSUME IInv, ShadowStep PROVE IInv'
  <1>1. /\ todo # <<>> /\ Head(todo).do = "local" /\ Head(todo).as = "shadow"
        /\ shadow' = Head(todo).n /\ todo' = Tail(todo)
        /\ UNCHANGED <<open, gone, call, down, up, widths, core, req, made, owed, bus>>
    BY DEF ShadowStep, Next_is, busVars
  <1>2. req # NoRequest
    <2>1. SUFFICES ASSUME req = NoRequest PROVE FALSE
      OBVIOUS
    <2>2. call \notin AccessCalls
      BY <1>1, <2>1, StepAt DEF Local
    <2>3. call \notin {"open", "close"}
      BY <1>1, StepAt DEF SizesStepAt, Send, Receive
    <2>4. call = "set"
      BY <2>2, <2>3, StepAt, <1>1 DEF IInv, TypeOK
    <2>5. todo[1] \in {Send("M", 0), Send("S", 0), Send("field", todo[1].tok.v)}
      BY <1>1, <2>1, <2>4, StepAt DEF IInv, OtherPlan
    <2> QED BY <1>1, <2>5, StepAt DEF Send
  <1>3. /\ Ahead = CommandAt + 1 /\ Head(todo).n = req.addr /\ made = "no" /\ CommandAt \in 2..3
        /\ call \in AccessCalls /\ req \in Requests
    <2>1. Ahead \in 1..CommandAt + 3 /\ Head(todo) = AccessStep(Ahead) /\ CommandAt \in 2..3
      BY <1>1, <1>2, StepAt, AccessSteps
    <2>2. Ahead = CommandAt + 1
      BY <1>1, <2>1, AccessSteps DEF Receive
    <2>3. Head(todo).n = req.addr
      BY <2>1, <2>2, AccessSteps
    <2> QED BY <1>2, <2>1, <2>2, <2>3 DEF IInv, AccessPlan, Connections, TypeOK
  <1>4. /\ todo' \in Seq(Steps) /\ Ahead' = CommandAt' /\ CommandAt' = CommandAt
        /\ \A i \in 1..Len(todo') : (todo[i] = AccessStep(Ahead + 1 - i))'
    BY <1>1, <1>2, <1>3, StepDone
  <1>5. End' = End /\ Live' = Live /\ shadow' = req.addr
    BY <1>1, <1>3 DEF End, Live
  <1>6. TypeOK'
    BY <1>1, <1>4, <1>5 DEF IInv, TypeOK, Address
  <1>7. Connections' /\ TokensRight'
    BY <1>1 DEF IInv, Connections, TokensRight, Busy
  <1>8. AccessPlan' /\ OtherPlan'
    <2>1. (Ahead \in 1..CommandAt + 3)' /\ (Ahead <= CommandAt)'
      BY <1>3, <1>4
    <2>2. call = "rmw" => IF req.op = "read" THEN req.lock ELSE ~req.lock
      BY <1>2 DEF IInv, AccessPlan
    <2> QED BY <1>1, <1>2, <1>3, <1>4, <1>5, <2>1, <2>2 DEF AccessPlan, OtherPlan
  <1>9. AccessProgress'
    <2>1. Live => End.st = "idle" /\ End.address = req.addr
      BY <1>2, <1>3 DEF IInv, AccessProgress
    <2>2. CommandAt' = IF req'.op = "write" THEN 3 ELSE 2
      BY DEF CommandAt
    <2>3. /\ CommandAt' # CommandAt' + 3 /\ CommandAt' # CommandAt' + 2 /\ CommandAt' # 1
          /\ ~(CommandAt' = 2 /\ req'.op = "write")
      BY <2>2
    <2> QED BY <1>1, <1>3, <1>4, <1>5, <2>1, <2>3 DEF AccessProgress
  <1>10. Between' /\ OtherProgress'
    BY <1>1, <1>2, <1>5 DEF IInv, Between, OtherProgress
  <1>11. Questions'
    BY <1>1, <1>3, <1>5 DEF IInv, Questions, AccessCalls
  <1>12. AccessRight'
    <2>1. Busy(End) /\ down # <<>> => owed # NoRequest
      BY <1>3, Awaited
    <2> QED BY <1>1, <1>5, <2>1 DEF IInv, AccessRight, OnItsWay
  <1>13. AnswersRight'
    <2>1. open => up = <<>>
      BY <1>2, <1>3 DEF IInv, AnswersRight
    <2> QED BY <1>1, <1>2, <1>3, <2>1 DEF AnswersRight, AccessCalls
  <1> QED BY <1>6, <1>7, <1>8, <1>9, <1>10, <1>11, <1>12, <1>13 DEF IInv

\* What is left of an answer when n tokens have been received.
LEMMA Rest ==
  ASSUME NEW S, NEW u \in Seq(S), NEW n \in Nat, Len(u) >= n
  PROVE  LET r == SubSeq(u, n + 1, Len(u))
         IN r \in Seq(S) /\ Len(r) = Len(u) - n /\ (Len(u) = n => r = <<>>)
            /\ \A i \in 1..Len(r) : r[i] = u[i + n]
  <1> DEFINE r == SubSeq(u, n + 1, Len(u))
  <1>1. Len(u) \in Nat /\ n + 1 \in 1..Len(u) + 1
    BY LenProperties
  <1>2. r \in Seq(S) /\ Len(r) = Len(u) - n /\ \A i \in 1..Len(r) : r[i] = u[i + n]
    <2>1. \A i \in 1..Len(u) - (n + 1) + 1 : (n + 1) + i - 1 = i + n
      BY <1>1
    <2> QED BY <1>1, <2>1, SubSeqProperties
  <1>3. Len(u) = n => r = <<>>
    BY <1>1, <1>2, EmptySeq
  <1> QED BY <1>2, <1>3

LEMMA NothingBefore == ASSUME NEW S, NEW s \in Seq(S) PROVE <<>> \o s = s
  OBVIOUS

LEMMA SizesKeeps == ASSUME IInv, SizesStep PROVE IInv'
  <1>1. /\ todo # <<>> /\ Head(todo).as \in {"id", "widths"} /\ Head(up).t = Head(todo).as
        /\ Len(up) >= Head(todo).n
        /\ up' = SubSeq(up, Head(todo).n + 1, Len(up)) /\ todo' = <<>> \o Tail(todo)
        /\ UNCHANGED <<open, gone, call, down, widths, shadow, core, req, made, owed, bus>>
    BY DEF SizesStep, CanReceive, Next_is, Receives, busVars
  <1>2. /\ call \in {"open", "close"} /\ req = NoRequest /\ Head(todo).n = 1
        /\ (Ahead = IF Head(todo).as = "id" THEN 2 ELSE 1)
    BY <1>1, AsksForWidths
  <1>3. todo' = Tail(todo)
    <2>1. Tail(todo) \in Seq(Steps)
      BY <1>1 DEF IInv, TypeOK
    <2> QED BY <1>1, <2>1, NothingBefore
  <1>4. todo' \in Seq(Steps) /\ Ahead' = Ahead - 1
    BY <1>1, <1>3, StepDone
  <1>5. up \in Seq(UpTokens) /\ Len(up) \in Nat /\ Len(up) >= 1 /\ Head(up) = up[1]
    <2>1. up \in Seq(UpTokens) /\ Len(up) \in Nat /\ Len(up) >= 1
      BY <1>1, <1>2, LenProperties DEF IInv, TypeOK
    <2> QED BY <2>1, HeadTailProperties, EmptySeq
  <1>6. /\ up' \in Seq(UpTokens) /\ Len(up') = Len(up) - 1 /\ (Len(up) = 1 => up' = <<>>)
        /\ \A i \in 1..Len(up') : up'[i] = up[i + 1]
    <2>1. up' = SubSeq(up, 1 + 1, Len(up))
      BY <1>1, <1>2
    <2>2. 1 \in Nat /\ Len(up) >= 1
      BY <1>5
    <2> QED BY <1>5, <2>1, <2>2, Rest
  <1>7. open /\ down = <<>> /\ End = core
        /\ IF Ahead = 2 THEN Len(up) = 2 /\ up[2].t = "widths" ELSE Len(up) = 1
    <2>1. open /\ up # <<>>
      BY <1>2, <1>5 DEF IInv, Connections
    <2>2. CASE Ahead = 2
      BY <1>1, <1>2, <1>5, <2>1, <2>2, NothingToTake DEF IInv, AnswersRight, End
    <2>3. CASE Ahead = 1
      BY <1>1, <1>2, <1>5, <2>1, <2>3, NothingToTake DEF IInv, AnswersRight, Questions, End
    <2> QED BY <1>2, <2>2, <2>3
  <1>8. Live' = Live /\ End' = End /\ down' = <<>>
    BY <1>1, <1>7 DEF Live, End
  <1>9. TypeOK'
    BY <1>1, <1>4, <1>6 DEF IInv, TypeOK, Address
  <1>10. Connections' /\ TokensRight'
    BY <1>1 DEF IInv, Connections, TokensRight, Busy
  <1>11. AccessPlan' /\ OtherPlan'
    BY <1>1, <1>2, <1>3, PlanMoves
  <1>12. AccessProgress' /\ Between'
    BY <1>1, <1>2 DEF AccessProgress, Between
  <1>13. OtherProgress'
    <2>1. Ahead \notin {4, -1} /\ Ahead' \notin {4, -1}
      BY <1>2, <1>4
    <2> QED BY <1>1, <1>2, <1>8, <2>1 DEF IInv, OtherProgress
  <1>14. Questions'
    BY <1>8 DEF Questions
  <1>15. AccessRight'
    BY <1>1, <1>8 DEF IInv, AccessRight
  <1>16. AnswersRight'
    <2>1. CASE Ahead = 2
      <3>1. Ahead' = 1 /\ Len(up') = 1 /\ up'[1].t = "widths"
        <4>1. Ahead' = 1 /\ Len(up') = 1 /\ 1 \in 1..Len(up') /\ 1 + 1 = 2
          <5>1. Len(up) = 2
            BY <1>7, <2>1
          <5>2. Len(up') = 2 - 1
            BY <1>6, <5>1
          <5> QED BY <1>4, <2>1, <5>2
        <4> QED BY <1>6, <1>7, <2>1, <4>1
      <3> QED BY <1>1, <1>2, <3>1 DEF AnswersRight
    <2>2. CASE Ahead = 1
      <3>1. Ahead' = 0 /\ up' = <<>>
        BY <1>4, <1>6, <1>7, <2>2
      <3> QED BY <1>1, <1>2, <3>1 DEF AnswersRight
    <2> QED BY <1>2, <2>1, <2>2
  <1> QED BY <1>9, <1>10, <1>11, <1>12, <1>13, <1>14, <1>15, <1>16 DEF IInv

\* The answer to the access that was asked for.
LEMMA AnswerComes ==
  ASSUME IInv, todo # <<>>, Head(todo).as = "answer"
  PROVE  /\ req # NoRequest /\ Ahead = 1 /\ call \in AccessCalls /\ open
         /\ Head(todo) = Receive(IF req.op = "write" THEN 1 ELSE 2, "answer")
         /\ up # <<>> => Len(up) = Head(todo).n /\ up[1].t = made
  <1>1. req # NoRequest
    <2>1. SUFFICES ASSUME req = NoRequest PROVE FALSE
      OBVIOUS
    <2>2. call \notin AccessCalls
      BY <2>1, StepAt DEF Local
    <2>3. call \notin {"open", "close"}
      BY StepAt DEF SizesStepAt, Send, Receive
    <2>4. call = "set"
      BY <2>2, <2>3, StepAt DEF IInv, TypeOK
    <2>5. todo[1] \in {Send("M", 0), Send("S", 0), Send("field", todo[1].tok.v)}
      BY <2>1, <2>4, StepAt DEF IInv, OtherPlan
    <2> QED BY <2>5, StepAt DEF Send
  <1>2. Ahead = 1 /\ Head(todo) = Receive(IF req.op = "write" THEN 1 ELSE 2, "answer")
    <2>1. Ahead \in 1..CommandAt + 3 /\ Head(todo) = AccessStep(Ahead) /\ CommandAt \in 2..3
      BY <1>1, StepAt, AccessSteps
    <2>2. Ahead = 1
      BY <2>1, AccessSteps
    <2> QED BY <2>1, <2>2, AccessSteps
  <1>3. call \in AccessCalls /\ open
    BY <1>1 DEF IInv, Connections, AccessCalls
  <1>4. up # <<>> => Len(up) = Head(todo).n /\ up[1].t = made
    <2> DEFINE m == IF req.op = "write" THEN 1 ELSE 2
    <2>1. up # <<>> => Len(up) = m /\ up[1].t = made
      BY <1>1, <1>3 DEF IInv, AnswersRight
    <2>2. Head(todo).n = m
      BY <1>2 DEF Receive
    <2> HIDE DEF m
    <2> QED BY <2>1, <2>2
  <1> QED BY <1>1, <1>2, <1>3, <1>4

LEMMA AnswerKeeps == ASSUME IInv, AnswerStep PROVE IInv'
  <1>1. /\ todo # <<>> /\ Head(todo).as = "answer" /\ Head(up).t \in {"ACK", "NAK"}
        /\ Len(up) >= Head(todo).n /\ req' = NoRequest /\ made' = "no"
        /\ up' = SubSeq(up, Head(todo).n + 1, Len(up)) /\ todo' = <<>> \o Tail(todo)
        /\ UNCHANGED <<open, gone, call, down, widths, shadow, core, owed, bus>>
    BY DEF AnswerStep, CanReceive, Next_is, Receives
  <1>2. /\ req # NoRequest /\ Ahead = 1 /\ call \in AccessCalls /\ open
        /\ Head(todo).n = IF req.op = "write" THEN 1 ELSE 2
        /\ up # <<>> => Len(up) = Head(todo).n /\ up[1].t = made
    BY <1>1, AnswerComes DEF Receive
  <1>3. up \in Seq(UpTokens) /\ up # <<>> /\ Head(up) = up[1] /\ Len(up) \in Nat
    <2>1. up \in Seq(UpTokens) /\ Len(up) \in Nat /\ Len(up) >= 1
      BY <1>1, <1>2, LenProperties DEF IInv, TypeOK
    <2> QED BY <2>1, HeadTailProperties, EmptySeq
  <1>4. up' = <<>> /\ made \in {"ACK", "NAK"}
    BY <1>1, <1>2, <1>3, Rest
  <1>5. /\ todo' \in Seq(Steps) /\ Len(todo) \in Nat /\ Len(todo') = Len(todo) - 1
        /\ \A i \in 1..Len(todo') : todo'[i] = todo[i + 1]
    <2>1. todo \in Seq(Steps) /\ Tail(todo) \in Seq(Steps)
      BY <1>1 DEF IInv, TypeOK
    <2>2. todo' = Tail(todo)
      BY <1>1, <2>1, NothingBefore
    <2> QED BY <1>1, <2>1, <2>2, HeadTailProperties, LenProperties
  <1>6. /\ shadow = req.addr
        /\ IF call = "rmw" /\ req.op = "read"
           THEN req.lock /\ Len(todo) = 2 /\ todo[2] = [Local("modify") EXCEPT !.n = shadow]
           ELSE Len(todo) = 1
    <2>1. /\ shadow = req.addr /\ Ahead = Len(todo) - Behind
          /\ Behind = IF call = "rmw" /\ req.op = "read" THEN 1 ELSE 0
          /\ call = "rmw" /\ req.op = "read" => req.lock
      BY <1>2, AccessSteps DEF IInv, AccessPlan, Ahead, Behind
    <2>2. CASE call = "rmw" /\ req.op = "read"
      <3>1. Len(todo) = 2
        <4>1. Behind = 1 /\ Ahead = 1 /\ Ahead = Len(todo) - Behind /\ Len(todo) \in Nat
          BY <1>2, <1>5, <2>1, <2>2
        <4> QED BY <4>1
      <3>2. todo[2] = AccessStep(Ahead + 1 - 2) /\ Ahead + 1 - 2 = 0
        BY <1>2, <3>1 DEF IInv, AccessPlan
      <3>3. todo[2] = [Local("modify") EXCEPT !.n = req.addr]
        BY <3>2, AccessSteps DEF AccessStep
      <3> QED BY <2>1, <2>2, <3>1, <3>3
    <2>3. CASE ~(call = "rmw" /\ req.op = "read")
      BY <1>2, <1>5, <2>1, <2>3
    <2> QED BY <2>2, <2>3
  <1>7. Live => /\ down = <<>> /\ End = core /\ core.st = "idle" /\ core.address = shadow
                /\ core.lock = req.lock
    BY <1>2, <1>4, NothingToTake DEF IInv, AccessProgress, End
  <1>8. Live' = Live /\ End' = End
    BY <1>1 DEF Live, End
  <1>9. TypeOK'
    <2>1. req'.addr \in Address' /\ up' \in Seq(UpTokens)
      BY <1>1, <1>4, EmptySeq DEF NoRequest, Request, Address
    <2> QED BY <1>1, <1>5, <2>1 DEF IInv, TypeOK, Address
  <1>10. Connections' /\ TokensRight'
    BY <1>1 DEF IInv, Connections, TokensRight, Busy
  <1>11. AccessPlan' /\ OtherPlan'
    <2>1. todo' = <<>> \/ (call = "rmw" /\ Len(todo') = 1 /\ todo'[1] = [Local("modify") EXCEPT !.n = shadow])
      <3>1. CASE call = "rmw" /\ req.op = "read"
        <4>1. Len(todo') = 1 /\ 1 \in 1..Len(todo') /\ 1 + 1 = 2
          <5>1. Len(todo) = 2
            BY <1>6, <3>1
          <5>2. Len(todo') = 2 - 1
            BY <1>5, <5>1
          <5> QED BY <5>2
        <4>2. todo'[1] = todo[2]
          BY <1>5, <4>1
        <4> QED BY <1>6, <3>1, <4>1, <4>2
      <3>2. CASE ~(call = "rmw" /\ req.op = "read")
        BY <1>5, <1>6, <3>2, EmptySeq
      <3> QED BY <3>1, <3>2
    <2> QED BY <1>1, <1>2, <2>1 DEF AccessPlan, OtherPlan, AccessCalls
  <1>12. AccessProgress' /\ OtherProgress'
    BY <1>1, <1>2, <1>7, <1>8 DEF AccessProgress, OtherProgress, AccessCalls
  <1>13. Between'
    <2>1. call = "rmw" /\ todo' # <<>> => req.lock
      BY <1>5, <1>6, EmptySeq
    <2> QED BY <1>1, <1>7, <1>8, <2>1 DEF Between, NoRequest, Request
  <1>14. Questions'
    BY <1>1, <1>2, <1>7, <1>8 DEF Questions, AccessCalls
  <1>15. AccessRight'
    <2>1. Busy(End) /\ down # <<>> => owed # NoRequest
      BY <1>4 DEF IInv, AccessRight
    <2> QED BY <1>1, <1>8, <2>1 DEF IInv, AccessRight, OnItsWay
  <1>16. AnswersRight'
    BY <1>1, <1>2, <1>4 DEF AnswersRight, AccessCalls
  <1> QED BY <1>9, <1>10, <1>11, <1>12, <1>13, <1>14, <1>15, <1>16 DEF IInv

\* The locked read has been answered.
LEMMA Modifies ==
  ASSUME IInv, todo # <<>>, Head(todo).as = "modify"
  PROVE  /\ req = NoRequest /\ made = "no" /\ call = "rmw" /\ open /\ up = <<>>
         /\ Head(todo).n = shadow
  <1>1. req = NoRequest
    BY StepAt, AccessSteps DEF Receive
  <1>2. call = "rmw" /\ Head(todo).n = shadow
    <2>1. call \notin {"open", "close"}
      BY StepAt DEF SizesStepAt, Send, Receive
    <2>2. call # "set"
      <3>1. SUFFICES ASSUME call = "set" PROVE FALSE
        OBVIOUS
      <3>2. todo[1] \in {Send("M", 0), Send("S", 0), Send("field", todo[1].tok.v)}
        BY <1>1, <3>1, StepAt DEF IInv, OtherPlan
      <3> QED BY <3>2, StepAt DEF Send
    <2>3. call \in AccessCalls
      BY <2>1, <2>2, StepAt DEF IInv, TypeOK
    <2> QED BY <1>1, <2>3, StepAt DEF Local
  <1> QED BY <1>1, <1>2 DEF IInv, Connections, AnswersRight

LEMMA ModifyKeeps == ASSUME IInv, ModifyStep PROVE IInv'
  <1>1. /\ todo # <<>> /\ Head(todo).as = "modify"
        /\ UNCHANGED <<open, gone, call, down, up, widths, shadow, core, made, owed, bus>>
    BY DEF ModifyStep, Next_is, busVars, Asks
  <1>2. /\ req = NoRequest /\ made = "no" /\ call = "rmw" /\ open /\ up = <<>> /\ Head(todo).n = shadow
    BY <1>1, Modifies
  <1>3. PICK d \in Data :
       IF reply = "ACK"
       THEN todo' = Write(shadow, d, FALSE) /\ req' = Request("write", shadow, d, FALSE)
       ELSE todo' = <<>> /\ req' = req
    BY <1>2 DEF ModifyStep, Asks, busVars
  <1>4. Live' = Live /\ End' = End /\ shadow \in Address
    BY <1>1 DEF Live, End, IInv, TypeOK
  <1>5. Connections' /\ TokensRight' /\ Questions'
    BY <1>1, <1>2, <1>4 DEF IInv, Connections, TokensRight, Questions, Busy, AccessCalls
  <1>6. Live => /\ down = <<>> /\ End = core /\ core.lock /\ core.st = "idle" /\ core.address = shadow
    <2>1. Live => down = <<>> /\ core.lock
      BY <1>1, <1>2 DEF IInv, Between
    <2>2. Live => End.st = "idle" /\ End.address = shadow
      BY <1>2 DEF IInv, OtherProgress
    <2> QED BY <2>1, <2>2, NothingToTake DEF End
  <1>7. AccessRight'
    <2>1. Busy(End) /\ down # <<>> => owed # NoRequest
      BY <1>2 DEF IInv, AccessRight, OnItsWay, NoRequest, Request, Busy
    <2> QED BY <1>1, <1>4, <2>1 DEF IInv, AccessRight, OnItsWay
  <1>8. AnswersRight'
    BY <1>1, <1>2 DEF AnswersRight
  <1>9. CASE reply = "ACK"
    <2>1. todo' = Write(shadow, d, FALSE) /\ req' = Request("write", shadow, d, FALSE)
      BY <1>3, <1>9
    <2>2. /\ req' \in Requests /\ req' # NoRequest /\ req'.op = "write" /\ req'.addr = shadow /\ req'.data = d
          /\ req'.lock = FALSE
      <3>1. req' \in Requests
        BY <1>4, <2>1 DEF Requests, Request, Address
      <3> QED BY <2>1, <3>1, RequestTypes DEF Request
    <2>3. todo' = <<Send("W", 0), Send("field", d), Receive(1, "answer")>>
      BY <1>4, <2>1, WriteSteps
    <2>4. todo' \in Seq(Steps) /\ Len(todo') = 3
      <3>1. Send("W", 0) \in Steps /\ Send("field", d) \in Steps /\ Receive(1, "answer") \in Steps
        BY StepTypes DEF Words, TokenNames, Commands
      <3> QED BY <2>3, <3>1
    <2>5. Behind' = 0 /\ CommandAt' = 3 /\ Ahead' = 3
      BY <2>2, <2>4 DEF Behind, CommandAt, Ahead
    <2>6. \A i \in 1..Len(todo') : (todo[i] = AccessStep(Ahead + 1 - i))'
      <3>1. AccessStep(3)' = Send("W", 0) /\ AccessStep(2)' = Send("field", d) /\ AccessStep(1)' = Receive(1, "answer")
        BY <2>2, <2>5 DEF AccessStep, CommandOf
      <3> QED BY <2>3, <2>4, <2>5, <3>1
    <2>7. TypeOK'
      BY <1>1, <1>4, <2>2, <2>4 DEF IInv, TypeOK, Address
    <2>8. AccessPlan' /\ OtherPlan'
      BY <1>1, <1>2, <2>2, <2>5, <2>6 DEF AccessPlan, OtherPlan
    <2>9. AccessProgress' /\ OtherProgress'
      BY <1>1, <1>2, <1>4, <1>6, <2>2, <2>5 DEF AccessProgress, OtherProgress
    <2>10. Between'
      BY <1>1, <1>4, <1>6, <2>2 DEF Between
    <2> QED BY <1>5, <1>7, <1>8, <2>7, <2>8, <2>9, <2>10 DEF IInv
  <1>10. CASE reply # "ACK"
    <2>1. todo' = <<>> /\ req' = NoRequest
      BY <1>2, <1>3, <1>10
    <2>2. TypeOK'
      BY <1>1, <1>2, <1>3, <1>4, <1>10, EmptySeq DEF IInv, TypeOK, Address
    <2>3. AccessPlan' /\ OtherPlan'
      BY <1>1, <1>2, <2>1 DEF AccessPlan, OtherPlan
    <2>4. AccessProgress' /\ Between' /\ OtherProgress'
      BY <1>1, <1>2, <1>4, <1>6, <2>1 DEF AccessProgress, Between, OtherProgress, NoRequest, Request
    <2> QED BY <1>5, <1>7, <1>8, <2>2, <2>3, <2>4 DEF IInv
  <1> QED BY <1>9, <1>10

LEMMA LibraryKeeps == ASSUME IInv, Library PROVE IInv'
  BY SendKeeps, TimeoutKeeps, BreakKeeps, SizesKeeps, WrongSizesKeeps, AnswerKeeps, ShadowKeeps,
     ModifyKeeps, ThrowKeeps, ReturnKeeps DEF Library

-----------------------------------------------------------------------------
(***************************************************************************)
(* The core takes a token, and the bus answers.                            *)
(***************************************************************************)
LEMMA TokenTaken ==
  ASSUME IInv, down # <<>>, down' = Tail(down), core' = Took(widths.misc, core, Head(down)),
         UNCHANGED widths
  PROVE  /\ Legal(core, Head(down)) /\ Head(down) = down[1] /\ 1 \in DOMAIN down
         /\ down' \in Seq(Tokens) /\ TokensRight' /\ End' = End
         /\ \A i \in DOMAIN down' : \E j \in DOMAIN down : down'[i] = down[j]
         /\ \A i \in DOMAIN down' : down'[i].t # "reset"
         /\ Head(down).t = "Q" => down' = <<>>
         /\ down' # <<>> => down'[Len(down')] = down[Len(down)]
         /\ Busy(core') => down' = <<>> /\ Len(down) = 1
  <1> DEFINE w == widths.misc
             d == down
             e == Tail(down)
             c == Took(w, core, Head(d))
  <1>1. d \in Seq(Tokens) /\ Lawful(w, core, d) /\ ResetFirst(d) /\ QuestionLast(d)
    BY DEF IInv, TypeOK, TokensRight
  <1>2. /\ Len(d) \in Nat /\ Len(d) > 0 /\ e \in Seq(Tokens) /\ Len(e) = Len(d) - 1 /\ Head(d) = d[1]
        /\ DOMAIN d = 1..Len(d) /\ DOMAIN e = 1..Len(d) - 1 /\ \A i \in 1..Len(d) - 1 : e[i] = d[i + 1]
    BY <1>1, HeadTailProperties, EmptySeq, LenProperties
  <1>3. Final(w, core, d) = Final(w, c, e) /\ Legal(core, Head(d)) /\ Lawful(w, c, e)
    BY <1>1, TakesFirst
  <1>4. Busy(c) => e = <<>> /\ Len(d) = 1
    BY <1>1, AccessIsFirst
  <1> HIDE DEF d, e, c
  <1>5. \A i \in DOMAIN e : i + 1 \in DOMAIN d /\ i + 1 # 1 /\ e[i] = d[i + 1]
    BY <1>2
  <1>6. ResetFirst(e) /\ \A i \in DOMAIN e : e[i].t # "reset"
    BY <1>1, <1>5 DEF ResetFirst
  <1>7. QuestionLast(e)
    BY <1>1, <1>2, <1>5 DEF QuestionLast
  <1>8. Head(d).t = "Q" => e = <<>>
    <2>1. Head(d).t = "Q" => Len(d) = 1
      BY <1>1, <1>2 DEF QuestionLast
    <2> QED BY <1>2, <2>1, EmptySeq
  <1>9. e # <<>> => e[Len(e)] = d[Len(d)]
    <2>1. e # <<>> => Len(e) # 0
      BY <1>2, EmptySeq
    <2> QED BY <1>2, <2>1
  <1>10. 1 \in DOMAIN d
    BY <1>2
  <1>11. core' = c /\ down' = e /\ w' = w
    BY DEF c, e, d
  <1>12. (Lawful(widths.misc, core, down))' /\ End' = End
    BY <1>3, <1>11 DEF End, d
  <1> QED BY <1>2, <1>3, <1>4, <1>5, <1>6, <1>7, <1>8, <1>9, <1>10, <1>11, <1>12 DEF TokensRight, d

\* The core stays a core.
LEMMA TookCore ==
  ASSUME NEW w, NEW t \in Tokens, NEW c, c = Took(w, core, t), Legal(core, t), core.st \in CoreStates,
         core = [st |-> core.st, address |-> core.address, misc |-> core.misc, lock |-> core.lock]
  PROVE  /\ c.st \in CoreStates
         /\ c = [st |-> c.st, address |-> c.address, misc |-> c.misc, lock |-> c.lock]
  <1>1. CASE t.t = "reset"
    <2>1. c = ResetCore
      BY <1>1 DEF Took, Commands
    <2> QED BY <2>1 DEF ResetCore, CoreStates
  <1>2. CASE t.t \in Commands
    <2>1. c = [st |-> t.t, address |-> core.address, misc |-> core.misc, lock |-> core.lock]
      BY <1>2 DEF Took, Commands
    <2> QED BY <1>2, <2>1 DEF CoreStates
  <1>3. CASE t.t \in {"R", "Rlock"}
    <2>1. c = [st |-> "read", address |-> core.address, misc |-> core.misc, lock |-> t.t = "Rlock"]
      BY <1>3 DEF Took, Commands
    <2> QED BY <2>1 DEF CoreStates
  <1>4. CASE t.t = "Q"
    BY <1>4 DEF Took, Commands
  <1>5. CASE t.t = "field"
    <2> DEFINE s == IF core.st \in {"W", "Wlock"} THEN "write" ELSE "idle"
               a == IF core.st = "A" THEN t.v ELSE core.address
               m == IF core.st = "M" THEN Field(t.v, w) ELSE core.misc
               l == IF core.st \in {"W", "Wlock"} THEN core.st = "Wlock" ELSE core.lock
    <2>1. c = [st |-> s, address |-> a, misc |-> m, lock |-> l]
      BY <1>5 DEF Took, Commands
    <2>2. s \in CoreStates
      BY DEF CoreStates
    <2> HIDE DEF s, a, m, l
    <2> QED BY <2>1, <2>2
  <1> QED BY <1>1, <1>2, <1>3, <1>4, <1>5 DEF Legal

LEMMA TokenKeeps ==
  ASSUME IInv, down # <<>>, down' = Tail(down), core' = Took(widths.misc, core, Head(down)), ~Busy(core'),
         bus' = NoRequest, UNCHANGED <<open, gone, call, todo, widths, shadow, req, made, owed>>,
         up' \in Seq(UpTokens),
         \/ up' = up
         \/ Live /\ call \in {"open", "close"} /\ Ahead = 2 /\ down' = <<>>
            /\ up' = up \o <<Token("id", 0), Token("widths", 0)>>
  PROVE  IInv'
  <1>1. /\ Legal(core, Head(down)) /\ Head(down) = down[1] /\ 1 \in DOMAIN down
        /\ TokensRight' /\ End' = End
        /\ \A i \in DOMAIN down' : \E j \in DOMAIN down : down'[i] = down[j]
        /\ down' # <<>> => down'[Len(down')] = down[Len(down)]
    BY TokenTaken
  <1>2. Ahead' = Ahead /\ Behind' = Behind /\ CommandAt' = CommandAt /\ Live' = Live
        /\ \A k : AccessStep(k)' = AccessStep(k)
    BY DEF Ahead, Behind, CommandAt, AccessStep, Live
  <1>3. Live => made = "no"
    BY DEF IInv, AccessProgress, Connections, Live
  <1>4. core'.st \in CoreStates /\ TypeOK'
    <2>1. down \in Seq(Tokens) /\ Head(down) \in Tokens
      BY <1>1 DEF IInv, TypeOK
    <2>2. core'.st \in CoreStates
          /\ core' = [st |-> core'.st, address |-> core'.address, misc |-> core'.misc, lock |-> core'.lock]
      BY <1>1, <2>1, TookCore DEF IInv, TypeOK
    <2> QED BY <2>1, <2>2, TokenTaken DEF IInv, TypeOK, Address
  <1>5. Connections'
    BY <1>1 DEF IInv, Connections
  <1>6. AccessPlan'
    BY <1>2 DEF IInv, AccessPlan
  <1>7. OtherPlan'
    BY <1>2 DEF IInv, OtherPlan
  <1>8. AccessProgress'
    <2>1. SUFFICES ASSUME Live, req # NoRequest
                   PROVE  /\ Ahead = CommandAt + 3 => End.st = "idle"
                          /\ Ahead = CommandAt + 2 => End.st = "A"
                          /\ Ahead \in {CommandAt, CommandAt + 1} => End.st = "idle" /\ End.address = req.addr
                          /\ Ahead = 2 /\ req.op = "write" => End.st = CommandOf(req) /\ End.address = req.addr
                          /\ Ahead = 1 => End.st = req.op /\ down' # <<>>
      BY <1>1, <1>2, <1>3 DEF AccessProgress, CommandOf
    <2>2. Ahead = 1 => End.st = req.op
      BY <1>3, <2>1 DEF IInv, AccessProgress
    <2>3. down' = <<>> => End = core'
      BY <1>1, NothingToTake DEF End
    <2>4. req.op \in {"read", "write"}
      BY <2>1, RequestTypes DEF IInv, TypeOK
    <2> QED BY <1>3, <2>1, <2>2, <2>3, <2>4 DEF IInv, AccessProgress, Busy
  <1>9. Between'
    <2>1. ASSUME Live, call = "rmw", req.op = "write", made = "no"
          PROVE  core'.lock /\ core'.address = req.addr /\ core'.st \in {"idle", "W"}
      <3>1. core.lock /\ core.address = req.addr /\ core.st \in {"idle", "W"} /\ Head(down).t \in {"W", "field"}
        BY <1>1, <2>1 DEF IInv, Between
      <3>2. Head(down).t # "field"
        BY <1>1, <3>1 DEF Took, Legal, Commands, Busy
      <3>3. core' = [st |-> "W", address |-> core.address, misc |-> core.misc, lock |-> core.lock]
        BY <3>1, <3>2 DEF Took, Commands
      <3> QED BY <3>1, <3>3
    <2>2. Live /\ call = "rmw" => ~(req = NoRequest /\ todo # <<>>)
      BY DEF IInv, Between
    <2>3. Live /\ call = "rmw" /\ req.op = "write" /\ made = "no" => \A i \in DOMAIN down' : down'[i].t \in {"W", "field"}
      BY <1>1 DEF IInv, Between
    <2> QED BY <1>2, <2>1, <2>2, <2>3 DEF Between
  <1>10. OtherProgress'
    BY <1>1, <1>2 DEF IInv, OtherProgress
  <1>11. Questions'
    <2>1. down' # <<>> \/ down' = <<>>
      OBVIOUS
    <2>2. call \in {"open", "close"} => Ahead # 1 /\ (call = "close" => Ahead # 0)
      BY DEF IInv, Questions
    <2> QED BY <1>1, <1>2, <2>2 DEF IInv, Questions
  <1>12. AccessRight'
    BY <1>1, <1>2 DEF IInv, AccessRight, OnItsWay
  <1>13. AnswersRight'
    <2>1. CASE up' = up
      BY <1>2, <2>1 DEF IInv, AnswersRight
    <2>2. CASE Live /\ call \in {"open", "close"} /\ Ahead = 2 /\ down' = <<>>
               /\ up' = up \o <<Token("id", 0), Token("widths", 0)>>
      <3>1. req = NoRequest /\ open
        BY <2>2 DEF IInv, Connections, AccessCalls, Live
      <3>2. up \in Seq(UpTokens) /\ up # <<>> => up' # <<>> /\ up'[1] = up[1]
        <4>1. <<Token("id", 0), Token("widths", 0)>> \in Seq(UpTokens)
          BY DEF UpTokens, Token
        <4> QED BY <2>2, <4>1, ConcatProperties, EmptySeq, LenProperties
      <3>3. up = <<>> => Len(up') = 2 /\ up'[1].t = "id" /\ up'[2].t = "widths"
        <4>1. up = <<>> => up' = <<Token("id", 0), Token("widths", 0)>>
          BY <2>2
        <4> QED BY <4>1 DEF Token
      <3>4. up = <<>> \/ (call = "open" /\ up[1].t \in {"ACK", "NAK"})
        BY <2>2, <3>1 DEF IInv, AnswersRight
      <3>5. up \in Seq(UpTokens)
        BY DEF IInv, TypeOK
      <3>6. CASE up = <<>>
        BY <1>2, <2>2, <3>1, <3>3, <3>6 DEF AnswersRight
      <3>7. CASE up # <<>>
        BY <1>2, <2>2, <3>1, <3>2, <3>4, <3>5, <3>7 DEF AnswersRight
      <3> QED BY <3>6, <3>7
    <2> QED BY <2>1, <2>2
  <1> QED BY <1>1, <1>4, <1>5, <1>6, <1>7, <1>8, <1>9, <1>10, <1>11, <1>12, <1>13 DEF IInv

\* An access begins, the one that was asked for last or that an earlier call owes.
LEMMA AccessStarts ==
  ASSUME IInv, down # <<>>, down' = Tail(down), core' = Took(widths.misc, core, Head(down)), Busy(core'),
         bus' # NoRequest, UNCHANGED <<open, gone, call, todo, up, widths, shadow, req>>,
         IF owed # NoRequest THEN owed' = NoRequest /\ UNCHANGED made
                             ELSE made' = "started" /\ UNCHANGED owed
  PROVE  IInv'
  <1>1. TokensRight' /\ End' = End /\ down' = <<>> /\ down' \in Seq(Tokens)
    BY TokenTaken
  <1>2. End = core' /\ Busy(End)
    BY <1>1, NothingToTake DEF End
  <1>3. Ahead' = Ahead /\ Behind' = Behind /\ CommandAt' = CommandAt /\ Live' = Live
        /\ \A k : AccessStep(k)' = AccessStep(k)
    BY DEF Ahead, Behind, CommandAt, AccessStep, Live
  <1>4. Live => owed = NoRequest
    BY DEF IInv, AccessRight
  <1>5. owed = NoRequest =>
          /\ made = "no" /\ Ahead = 1 /\ req # NoRequest
          /\ req.op = core'.st /\ req.addr = core'.address /\ req.lock = core'.lock /\ req.addr = shadow
    <2>1. SUFFICES ASSUME owed = NoRequest
                   PROVE  /\ made = "no" /\ Ahead = 1 /\ req # NoRequest
                          /\ req.op = core'.st /\ req.addr = core'.address /\ req.lock = core'.lock
                          /\ req.addr = shadow
      OBVIOUS
    <2>2. /\ made = "no" /\ Ahead = 1 /\ req # NoRequest
          /\ req = Request(End.st, End.address, IF End.st = "write" THEN down[Len(down)].v ELSE 0, End.lock)
      BY <1>2, <2>1, Awaited
    <2>3. req.addr = shadow
      BY <2>2, AccessSteps DEF IInv, AccessPlan
    <2> QED BY <1>2, <2>2, <2>3 DEF Request
  <1>6. TypeOK'
    <2>1. down \in Seq(Tokens) /\ Head(down) \in Tokens
      BY DEF IInv, TypeOK
    <2>2. core'.st \in CoreStates
          /\ core' = [st |-> core'.st, address |-> core'.address, misc |-> core'.misc, lock |-> core'.lock]
      BY <2>1, TokenTaken, TookCore DEF IInv, TypeOK
    <2>3. made' \in {"no", "started", "ACK", "NAK"}
      BY DEF IInv, TypeOK
    <2> QED BY <1>1, <2>2, <2>3 DEF IInv, TypeOK, Address
  <1>7. Connections'
    BY <1>1, <1>5 DEF IInv, Connections
  <1>8. AccessPlan' /\ OtherPlan'
    BY <1>3, <1>5 DEF IInv, AccessPlan, OtherPlan
  <1>9. AccessProgress'
    <2>1. CommandAt \in 2..3
      BY DEF CommandAt
    <2> QED BY <1>1, <1>2, <1>3, <1>4, <1>5, <2>1 DEF AccessProgress
  <1>10. Between' /\ OtherProgress'
    BY <1>3, <1>4, <1>5 DEF Between, OtherProgress
  <1>11. Questions' /\ AccessRight'
    BY <1>1, <1>3, <1>4 DEF Questions, AccessRight
  <1>12. AnswersRight'
    <2>1. CASE owed # NoRequest
      BY <1>1, <1>3, <2>1 DEF IInv, AnswersRight
    <2>2. CASE owed = NoRequest
      <3>1. open => up = <<>>
        <4>1. SUFFICES ASSUME open, up # <<>> PROVE FALSE
          OBVIOUS
        <4>2. up[1].t = "no" /\ Len(up) \in 1..2
          BY <1>5, <2>2, <4>1 DEF IInv, AnswersRight
        <4>3. up \in Seq(UpTokens) /\ 1 \in 1..Len(up)
          BY <4>2 DEF IInv, TypeOK
        <4>4. up[1] \in UpTokens
          BY <4>3
        <4> QED BY <4>2, <4>4 DEF UpTokens
      <3> QED BY <1>5, <2>2, <3>1 DEF IInv, Connections, AnswersRight, AccessCalls
    <2> QED BY <2>1, <2>2
  <1> QED BY <1>1, <1>6, <1>7, <1>8, <1>9, <1>10, <1>11, <1>12 DEF IInv

\* What waits is legal, and what each action does to the core is what was foreseen.
LEMMA Waiting ==
  ASSUME IInv, down # <<>>
  PROVE  /\ Legal(core, Head(down)) /\ Head(down) = down[1] /\ 1 \in DOMAIN down
         /\ Busy(core) => Head(down).t = "reset"
  <1>1. down \in Seq(Tokens) /\ Lawful(widths.misc, core, down)
    BY DEF IInv, TypeOK, TokensRight
  <1>2. Legal(core, Head(down))
    BY <1>1, TakesFirst
  <1>3. Head(down) = down[1] /\ 1 \in DOMAIN down
    BY <1>1, HeadTailProperties, EmptySeq, LenProperties
  <1> QED BY <1>2, <1>3 DEF Legal, Busy, Commands

LEMMA ResetKeeps == ASSUME IInv, CoreReset PROVE IInv'
  <1>1. /\ down # <<>> /\ Head(down).t = "reset" /\ down' = Tail(down) /\ core' = ResetCore /\ bus' = NoRequest
        /\ UNCHANGED <<open, gone, call, todo, up, widths, shadow, req, made, owed>>
    BY DEF CoreReset, CoreTakes
  <1>2. core' = Took(widths.misc, core, Head(down)) /\ ~Busy(core')
    BY <1>1 DEF Took, Commands, Busy, ResetCore
  <1> QED BY <1>1, <1>2, TokenKeeps DEF IInv, TypeOK

LEMMA CommandKeeps == ASSUME IInv, CoreCommand PROVE IInv'
  <1>1. /\ core.st = "idle" /\ down # <<>> /\ Head(down).t \in Commands /\ down' = Tail(down)
        /\ core' = [core EXCEPT !.st = Head(down).t]
        /\ UNCHANGED <<open, gone, call, todo, up, widths, shadow, req, made, owed, bus>>
    BY DEF CoreCommand, CoreTakes, busVars
  <1>2. core = [st |-> core.st, address |-> core.address, misc |-> core.misc, lock |-> core.lock]
    BY DEF IInv, TypeOK
  <1>3. core' = [st |-> Head(down).t, address |-> core.address, misc |-> core.misc, lock |-> core.lock]
    BY <1>1, <1>2
  <1>4. core' = Took(widths.misc, core, Head(down)) /\ ~Busy(core')
    BY <1>1, <1>3 DEF Took, Commands, Busy
  <1>5. bus = NoRequest
    BY <1>1 DEF IInv, Connections, Busy
  <1> QED BY <1>1, <1>4, <1>5, TokenKeeps DEF IInv, TypeOK

LEMMA WidthsKeeps == ASSUME IInv, CoreWidths PROVE IInv'
  <1>1. /\ core.st = "idle" /\ down # <<>> /\ Head(down).t = "Q" /\ down' = Tail(down) /\ core' = core
        /\ up' = IF Live THEN up \o <<Token("id", 0), Token("widths", 0)>> ELSE up
        /\ UNCHANGED <<open, gone, call, todo, widths, shadow, req, made, owed, bus>>
    BY DEF CoreWidths, CoreTakes, Answers, Live, busVars
  <1>2. core' = Took(widths.misc, core, Head(down)) /\ ~Busy(core')
    BY <1>1 DEF Took, Commands, Busy
  <1>3. bus = NoRequest
    BY <1>1 DEF IInv, Connections, Busy
  <1>4. Live => call \in {"open", "close"} /\ Ahead = 2
    BY <1>1, Waiting DEF IInv, Questions
  <1>5. down' = <<>>
    BY <1>1, <1>2, TokenTaken
  <1>6. up' \in Seq(UpTokens)
    <2>1. <<Token("id", 0), Token("widths", 0)>> \in Seq(UpTokens)
      BY DEF UpTokens, Token
    <2> QED BY <1>1, <2>1, ConcatProperties DEF IInv, TypeOK
  <1> QED BY <1>1, <1>2, <1>3, <1>4, <1>5, <1>6, TokenKeeps

LEMMA FieldKeeps == ASSUME IInv, CoreField PROVE IInv'
  <1> DEFINE t == Head(down)
             a == IF core.st = "A" THEN t.v ELSE core.address
             m == IF core.st = "M" THEN Field(t.v, widths.misc) ELSE core.misc
  <1>1. /\ core.st \in {"A", "M", "S"} /\ down # <<>> /\ down' = Tail(down)
        /\ t.t # "reset" /\ core' = [core EXCEPT !.st = "idle", !.address = a, !.misc = m]
        /\ UNCHANGED <<open, gone, call, todo, up, widths, shadow, req, made, owed, bus>>
    BY DEF CoreField, CoreTakes, busVars, Commands
  <1>2. t.t = "field"
    BY <1>1, Waiting DEF Legal
  <1>3. core = [st |-> core.st, address |-> core.address, misc |-> core.misc, lock |-> core.lock]
    BY DEF IInv, TypeOK
  <1>4. core' = [st |-> "idle", address |-> a, misc |-> m, lock |-> core.lock]
    <2> HIDE DEF a, m
    <2> QED BY <1>1, <1>3
  <1>5. Took(widths.misc, core, t) = [st |-> "idle", address |-> a, misc |-> m, lock |-> core.lock]
    BY <1>1, <1>2 DEF Took, Commands
  <1>6. ~Busy(core') /\ bus = NoRequest
    BY <1>1, <1>4 DEF IInv, Connections, Busy
  <1> QED BY <1>1, <1>4, <1>5, <1>6, TokenKeeps DEF IInv, TypeOK

LEMMA ReadTaken ==
  ASSUME IInv, CoreReads
  PROVE  /\ down # <<>> /\ down' = Tail(down) /\ core' = Took(widths.misc, core, Head(down)) /\ Busy(core')
         /\ ~Busy(core) /\ bus' = Request(core'.st, core'.address, 0, core'.lock) /\ core'.st = "read"
         /\ UNCHANGED <<open, gone, call, todo, up, widths, shadow, req, reply>>
         /\ IF owed # NoRequest THEN owed' = NoRequest /\ UNCHANGED made
                                ELSE made' = "started" /\ UNCHANGED owed
  <1> DEFINE l == Head(down).t = "Rlock"
  <1>1. /\ core.st = "idle" /\ down # <<>> /\ Head(down).t \in {"R", "Rlock"} /\ down' = Tail(down)
        /\ core' = [core EXCEPT !.st = "read", !.lock = l]
        /\ bus' = Request("read", core.address, 0, l)
        /\ UNCHANGED <<open, gone, call, todo, up, widths, shadow, req, reply>>
        /\ IF owed # NoRequest THEN owed' = NoRequest /\ UNCHANGED made
                               ELSE made' = "started" /\ UNCHANGED owed
    BY DEF CoreReads, CoreTakes, Starts
  <1>2. core = [st |-> core.st, address |-> core.address, misc |-> core.misc, lock |-> core.lock]
    BY DEF IInv, TypeOK
  <1>3. core' = [st |-> "read", address |-> core.address, misc |-> core.misc, lock |-> l]
    <2> HIDE DEF l
    <2> QED BY <1>1, <1>2
  <1>4. core' = Took(widths.misc, core, Head(down)) /\ Busy(core') /\ ~Busy(core)
    BY <1>1, <1>3 DEF Took, Commands, Busy
  <1> QED BY <1>1, <1>3, <1>4

LEMMA WriteTaken ==
  ASSUME IInv, CoreWrites
  PROVE  /\ down # <<>> /\ down' = Tail(down) /\ core' = Took(widths.misc, core, Head(down)) /\ Busy(core')
         /\ ~Busy(core) /\ bus' = Request(core'.st, core'.address, Head(down).v, core'.lock) /\ core'.st = "write"
         /\ UNCHANGED <<open, gone, call, todo, up, widths, shadow, req, reply>>
         /\ IF owed # NoRequest THEN owed' = NoRequest /\ UNCHANGED made
                                ELSE made' = "started" /\ UNCHANGED owed
  <1> DEFINE l == core.st = "Wlock"
  <1>1. /\ core.st \in {"W", "Wlock"} /\ down # <<>> /\ Head(down).t # "reset" /\ down' = Tail(down)
        /\ core' = [core EXCEPT !.st = "write", !.lock = l]
        /\ bus' = Request("write", core.address, Head(down).v, l)
        /\ UNCHANGED <<open, gone, call, todo, up, widths, shadow, req, reply>>
        /\ IF owed # NoRequest THEN owed' = NoRequest /\ UNCHANGED made
                               ELSE made' = "started" /\ UNCHANGED owed
    BY DEF CoreWrites, CoreTakes, Starts, Commands
  <1>2. core = [st |-> core.st, address |-> core.address, misc |-> core.misc, lock |-> core.lock]
    BY DEF IInv, TypeOK
  <1>3. core' = [st |-> "write", address |-> core.address, misc |-> core.misc, lock |-> l]
    <2> HIDE DEF l
    <2> QED BY <1>1, <1>2
  <1>4. Head(down).t = "field"
    BY <1>1, Waiting DEF Legal
  <1>5. core' = Took(widths.misc, core, Head(down)) /\ Busy(core') /\ ~Busy(core)
    BY <1>1, <1>3, <1>4 DEF Took, Commands, Busy
  <1> QED BY <1>1, <1>3, <1>5

LEMMA ReadKeeps == ASSUME IInv, CoreReads PROVE IInv'
  <1>1. bus' # NoRequest
    BY ReadTaken DEF NoRequest, Request
  <1> QED BY <1>1, ReadTaken, AccessStarts

LEMMA WriteKeeps == ASSUME IInv, CoreWrites PROVE IInv'
  <1>1. bus' # NoRequest
    BY WriteTaken DEF NoRequest, Request
  <1> QED BY <1>1, WriteTaken, AccessStarts

\* While the core is busy the call waits for it, or a new connection has not reached
\* the core yet.
LEMMA WhoWaits ==
  ASSUME IInv, Busy(core), Live
  PROVE  \/ made = "started" /\ req # NoRequest /\ call \in AccessCalls /\ Ahead = 1 /\ down = <<>> /\ up = <<>>
            /\ core.st = req.op
         \/ made = "no" /\ req = NoRequest /\ call = "open" /\ Ahead >= 2 /\ (down = <<>> => Ahead = 4)
  <1>1. CASE req # NoRequest
    <2>1. down = <<>>
      BY <1>1, Waiting DEF IInv, Connections, Live, AccessCalls
    <2>2. End = core
      BY <2>1, NothingToTake DEF End
    <2>3. /\ Ahead \in 1..CommandAt + 3 /\ CommandAt \in 2..3 /\ call \in AccessCalls
          /\ made # "no" => Ahead = 1
          /\ req.op \in {"read", "write"} /\ CommandAt = IF req.op = "write" THEN 3 ELSE 2
          /\ CommandOf(req) \in {"W", "Wlock", "R", "Rlock"}
      BY <1>1, RequestTypes, AccessSteps DEF IInv, AccessPlan, Connections, TypeOK, CommandAt
    <2>4. Ahead = 1
      <3>1. /\ Ahead = CommandAt + 3 => End.st = "idle"
            /\ Ahead = CommandAt + 2 => End.st = "A"
            /\ Ahead \in {CommandAt, CommandAt + 1} => End.st = "idle"
            /\ Ahead = 2 /\ req.op = "write" => End.st = CommandOf(req)
        BY <1>1 DEF IInv, AccessProgress
      <3> DEFINE n == Ahead
                 c == CommandAt
      <3>2. n \in 1..c + 3 /\ c = (IF req.op = "write" THEN 3 ELSE 2) /\ n \notin {c + 3, c + 2, c, c + 1}
            /\ ~(n = 2 /\ req.op = "write")
        BY <2>2, <2>3, <3>1 DEF Busy
      <3> HIDE DEF n, c
      <3>3. n = 1
        BY <3>2
      <3> QED BY <3>3 DEF n
    <2>5. made \notin {"no", "ACK", "NAK"}
      BY <1>1, <2>1, <2>4 DEF IInv, AccessProgress, Busy
    <2>6. made = "started" /\ core.st = req.op
      BY <1>1, <2>5 DEF IInv, TypeOK, AccessProgress
    <2>7. up = <<>>
      <3>1. SUFFICES ASSUME up # <<>> PROVE FALSE
        OBVIOUS
      <3>2. up[1].t = "started" /\ Len(up) \in 1..2
        BY <1>1, <2>6, <3>1 DEF IInv, AnswersRight, Live
      <3>3. up \in Seq(UpTokens) /\ 1 \in 1..Len(up)
        BY <3>2 DEF IInv, TypeOK
      <3>4. up[1] \in UpTokens
        BY <3>3
      <3> QED BY <3>2, <3>4 DEF UpTokens
    <2> QED BY <1>1, <2>1, <2>3, <2>4, <2>6, <2>7
  <1>2. CASE req = NoRequest
    <2>1. made = "no"
      BY <1>2 DEF IInv, Connections
    <2>2. CASE down = <<>>
      <3>1. End = core
        BY <2>2, NothingToTake DEF End
      <3> QED BY <1>2, <2>1, <2>2, <3>1 DEF IInv, OtherProgress, Busy, ResetCore
    <2>3. CASE down # <<>>
      <3>1. call = "open" /\ ~(Ahead <= 1)
        BY <2>3, Waiting DEF IInv, Connections, Live, Questions
      <3>2. Ahead \in Int
        BY <3>1 DEF IInv, TypeOK, Ahead, Behind
      <3> QED BY <1>2, <2>1, <2>3, <3>1, <3>2
    <2> QED BY <2>2, <2>3
  <1> QED BY <1>1, <1>2

LEMMA BusKeeps == ASSUME IInv, BusAnswers PROVE IInv'
  <1>1. PICK a \in {"ACK", "NAK"} :
          /\ up' = IF Live THEN up \o (IF core.st = "read" THEN <<Token(a, 0), Token("data", 0)>> ELSE <<Token(a, 0)>>)
                   ELSE up
          /\ made' = IF made = "started" THEN a ELSE made
    BY DEF BusAnswers, Answers, Live
  <1>2. /\ Busy(core) /\ core' = [core EXCEPT !.st = "idle"] /\ bus' = NoRequest
        /\ UNCHANGED <<open, gone, call, todo, down, widths, shadow, req, owed>>
    BY DEF BusAnswers, CoreBusy, Busy
  <1>3. core = [st |-> core.st, address |-> core.address, misc |-> core.misc, lock |-> core.lock]
    BY DEF IInv, TypeOK
  <1>4. core' = [st |-> "idle", address |-> core.address, misc |-> core.misc, lock |-> core.lock]
    BY <1>2, <1>3
  <1>5. Ahead' = Ahead /\ Behind' = Behind /\ CommandAt' = CommandAt /\ Live' = Live
        /\ \A k : AccessStep(k)' = AccessStep(k)
    BY <1>2 DEF Ahead, Behind, CommandAt, AccessStep, Live
  <1>6. up \in Seq(UpTokens) /\ up' \in Seq(UpTokens)
    <2>1. <<Token(a, 0), Token("data", 0)>> \in Seq(UpTokens) /\ <<Token(a, 0)>> \in Seq(UpTokens)
      BY DEF UpTokens, Token
    <2> QED BY <1>1, <2>1, ConcatProperties DEF IInv, TypeOK
  <1>7. TokensRight' /\ (down # <<>> => End' = End)
    <2>1. down \in Seq(Tokens) /\ Lawful(widths.misc, core, down) /\ ResetFirst(down) /\ QuestionLast(down)
      BY DEF IInv, TypeOK, TokensRight
    <2>2. CASE down = <<>>
      BY <1>2, <2>1, <2>2, NothingToTake DEF TokensRight
    <2>3. CASE down # <<>>
      <3>1. Head(down).t = "reset" /\ Legal(core', Head(down))
        BY <1>2, <2>3, Waiting DEF Legal
      <3>2. Took(widths.misc, core', Head(down)) = Took(widths.misc, core, Head(down))
        BY <3>1 DEF Took, Commands
      <3>3. Lawful(widths.misc, core', down) /\ Final(widths.misc, core', down) = Final(widths.misc, core, down)
        BY <2>1, <2>3, <3>1, <3>2, TakesFirst
      <3> QED BY <1>2, <2>1, <3>3 DEF TokensRight, End
    <2> QED BY <2>2, <2>3
  <1>8. TypeOK'
    BY <1>1, <1>2, <1>4, <1>6 DEF IInv, TypeOK, Address, CoreStates
  <1>9. Connections'
    <2>1. made = "started" => req # NoRequest
      BY DEF IInv, Connections
    <2> QED BY <1>1, <1>2, <1>4, <2>1 DEF IInv, Connections, Busy
  <1>10. AccessPlan' /\ OtherPlan'
    <2>1. made' # "no" <=> made # "no"
      BY <1>1
    <2>2. AccessPlan'
      BY <1>2, <1>5, <2>1 DEF IInv, AccessPlan
    <2>3. OtherPlan'
      BY <1>2, <1>5 DEF IInv, OtherPlan
    <2> QED BY <2>2, <2>3
  <1>11. AccessProgress'
    <2>1. SUFFICES ASSUME Live, req # NoRequest PROVE AccessProgress'
      BY <1>2, <1>5 DEF AccessProgress
    <2>2. made = "started" /\ Ahead = 1 /\ down = <<>> /\ CommandAt \in 2..3
      BY <1>2, <2>1, WhoWaits, AccessSteps
    <2>3. core.address = shadow /\ core.lock = req.lock
      BY <2>1, <2>2 DEF IInv, AccessProgress
    <2>4. core'.st = "idle" /\ core'.address = shadow /\ core'.lock = req.lock
      BY <1>4, <2>3
    <2> QED BY <1>1, <1>2, <1>5, <2>2, <2>4 DEF AccessProgress
  <1>12. Between'
    <2>1. Live /\ call = "rmw" /\ req.op = "write" => made # "no"
      BY <1>2 DEF IInv, Between, Busy
    <2>2. made' = "no" => made = "no"
      BY <1>1
    <2>3. core'.lock = core.lock
      BY <1>4
    <2> QED BY <1>2, <1>5, <2>1, <2>2, <2>3 DEF IInv, Between
  <1>13. OtherProgress'
    <2>1. SUFFICES ASSUME Live, req = NoRequest PROVE OtherProgress'
      BY <1>2, <1>5 DEF OtherProgress
    <2>2. call = "open" /\ (down = <<>> => Ahead = 4)
      BY <1>2, <2>1, WhoWaits
    <2> QED BY <1>2, <1>5, <1>7, <2>1, <2>2 DEF IInv, OtherProgress
  <1>14. Questions'
    BY <1>2, <1>5 DEF IInv, Questions
  <1>15. AccessRight'
    BY <1>1, <1>2, <1>5, <1>7 DEF IInv, AccessRight, OnItsWay
  <1>16. AnswersRight'
    <2>1. CASE Live /\ made = "started"
      <3>1. /\ req # NoRequest /\ call \in AccessCalls /\ Ahead = 1 /\ up = <<>> /\ core.st = req.op
            /\ req.op \in {"read", "write"}
        BY <1>2, <2>1, WhoWaits, RequestTypes DEF IInv, TypeOK
      <3>2. up' = IF req.op = "read" THEN <<Token(a, 0), Token("data", 0)>> ELSE <<Token(a, 0)>>
        BY <1>1, <2>1, <3>1
      <3>3. (Len(up') = IF req.op = "write" THEN 1 ELSE 2) /\ up'[1].t = a
        BY <3>1, <3>2 DEF Token
      <3> QED BY <1>1, <1>2, <1>5, <2>1, <3>1, <3>3 DEF AnswersRight, AccessCalls
    <2>2. CASE Live /\ made # "started"
      <3>1. req = NoRequest /\ call = "open" /\ Ahead >= 2 /\ (down = <<>> => Ahead = 4) /\ open
        BY <1>2, <2>2, WhoWaits DEF Live
      <3>2. up = <<>> \/ up[1].t \in {"ACK", "NAK"}
        BY <3>1 DEF IInv, AnswersRight
      <3>3. /\ up # <<>> => up' # <<>> /\ up'[1] = up[1]
            /\ up = <<>> => up' # <<>> /\ up'[1].t = a
        <4> DEFINE x == IF core.st = "read" THEN <<Token(a, 0), Token("data", 0)>> ELSE <<Token(a, 0)>>
        <4>1. up' = up \o x /\ x \in Seq(UpTokens) /\ Len(x) > 0 /\ x[1].t = a
          <5>1. up' = up \o x
            BY <1>1, <2>2
          <5>2. x = <<Token(a, 0), Token("data", 0)>> \/ x = <<Token(a, 0)>>
            OBVIOUS
          <5>3. Token(a, 0) \in UpTokens /\ Token("data", 0) \in UpTokens /\ Token(a, 0).t = a
            BY DEF UpTokens, Token
          <5> HIDE DEF x
          <5>4. x \in Seq(UpTokens) /\ Len(x) > 0 /\ x[1] = Token(a, 0)
            <6> DEFINE v == Token(a, 0)
                       u == Token("data", 0)
            <6>1. v \in UpTokens /\ u \in UpTokens /\ (x = <<v, u>> \/ x = <<v>>)
              BY <5>2, <5>3
            <6> HIDE DEF v, u
            <6>2. CASE x = <<v, u>>
              BY <6>1, <6>2 DEF v
            <6>3. CASE x = <<v>>
              BY <6>1, <6>3 DEF v
            <6> QED BY <6>1, <6>2, <6>3
          <5> QED BY <5>1, <5>3, <5>4
        <4> HIDE DEF x
        <4>2. up # <<>> => up' # <<>> /\ up'[1] = up[1]
          BY <1>6, <4>1, ConcatProperties, EmptySeq, LenProperties
        <4>3. up = <<>> => up' = x /\ x # <<>>
          BY <1>6, <4>1
        <4> QED BY <4>1, <4>2, <4>3
      <3> QED BY <1>1, <1>2, <1>5, <3>1, <3>2, <3>3 DEF AnswersRight
    <2>3. CASE ~Live
      <3>1. up' = up
        BY <1>1, <2>3
      <3>2. open /\ made = "started" => up = <<>>
        <4>1. SUFFICES ASSUME open, made = "started", up # <<>> PROVE FALSE
          OBVIOUS
        <4>2. req # NoRequest
          BY <4>1 DEF IInv, Connections
        <4>3. up[1].t = "started" /\ Len(up) \in 1..2
          BY <4>1, <4>2 DEF IInv, AnswersRight
        <4>4. up[1] \in UpTokens
          BY <1>6, <4>3
        <4> QED BY <4>3, <4>4 DEF UpTokens
      <3>3. made # "started" => made' = made
        BY <1>1
      <3> QED BY <1>2, <1>5, <3>1, <3>2, <3>3 DEF IInv, AnswersRight
    <2> QED BY <2>1, <2>2, <2>3
  <1> QED BY <1>7, <1>8, <1>9, <1>10, <1>11, <1>12, <1>13, <1>14, <1>15, <1>16 DEF IInv

LEMMA CoreKeeps == ASSUME IInv, Core PROVE IInv'
  BY ResetKeeps, CommandKeeps, WidthsKeeps, FieldKeeps, ReadKeeps, WriteKeeps, BusKeeps DEF Core

LEMMA Invariant == Spec => []IInv
  <1>1. ASSUME IInv, [Next]_vars PROVE IInv'
    <2>1. CASE UNCHANGED vars
      BY <1>1, <2>1, Unmoved DEF vars, linkVars, busVars, busVariables
    <2> QED BY <1>1, <2>1, ProgramKeeps, LibraryKeeps, CoreKeeps, ServerKeeps DEF Next
  <1> QED BY InitIInv, <1>1, PTL DEF Spec

\* Library and core keep in step over every call that fails and every connection.
THEOREM CoreInStep == Spec => []InStep
  <1>1. IInv => InStep
    <2>1. SUFFICES ASSUME IInv, down # <<>>, Head(down).t # "reset"
                   PROVE  ~CoreBusy /\ (Head(down).t = "field" <=> core.st \in Commands)
      BY DEF InStep
    <2>2. Legal(core, Head(down))
      BY <2>1, Waiting
    <2> QED BY <2>1, <2>2 DEF Legal, CoreBusy, Commands
  <1> QED BY <1>1, Invariant, PTL

\* An answer is never the late one to an earlier call or connection.
THEOREM AnswersAreTheirs == Spec => []AnswersMatch
  <1>1. IInv => AnswersMatch
    <2>1. SUFFICES ASSUME IInv, up # <<>>, call \in {"read", "write", "rmw"}
                   PROVE  /\ todo # <<>> /\ Head(todo).as = "answer"
                          /\ Head(up).t \in {"ACK", "NAK"} /\ Len(up) = Head(todo).n
                          /\ gone \/ Head(up).t = made
      BY DEF AnswersMatch
    <2>2. open /\ req # NoRequest
      BY <2>1 DEF IInv, Connections, AnswersRight
    <2>3. Ahead = 1 /\ (Len(up) = IF req.op = "write" THEN 1 ELSE 2) /\ up[1].t = made
      BY <2>1, <2>2 DEF IInv, AnswersRight
    <2>4. todo # <<>>
      <3>1. Behind \in 0..2 /\ (todo = <<>> => Len(todo) = 0)
        BY DEF Behind
      <3> QED BY <2>3, <3>1 DEF Ahead
    <2>5. Head(todo) = Receive(IF req.op = "write" THEN 1 ELSE 2, "answer")
      BY <2>1, <2>2, <2>3, <2>4, StepAt, AccessSteps
    <2>6. Head(up) = up[1] /\ Head(up) \in UpTokens
      <3>1. up \in Seq(UpTokens)
        BY <2>1 DEF IInv, TypeOK
      <3>2. Head(up) = up[1] /\ Head(up) \in UpTokens
        BY <2>1, <3>1, HeadTailProperties, EmptySeq
      <3> QED BY <3>2
    <2>7. made \in {"ACK", "NAK"}
      BY <2>1, <2>3, <2>6 DEF UpTokens, IInv, TypeOK
    <2> QED BY <2>3, <2>4, <2>5, <2>6, <2>7 DEF Receive
  <1> QED BY <1>1, Invariant, PTL

\* The bus stays locked between the accesses of a read_modify_write, at its address.
THEOREM LockIsHeld == Spec => []LockHeld
  <1>1. IInv => LockHeld
    <2>1. SUFFICES ASSUME IInv, call = "rmw", req.op = "write", made = "no", ~gone
                   PROVE  core.lock /\ core.address = req.addr
      BY DEF LockHeld
    <2>2. Live
      BY <2>1 DEF IInv, Connections, Live
    <2> QED BY <2>1, <2>2 DEF IInv, Between
  <1> QED BY <1>1, Invariant, PTL

\* A close that succeeds has lost nothing of what was sent before.
THEOREM CloseLosesNothing == Spec => CloseDelivers
  <1> DEFINE Delivers == call = "close" /\ call' = "none" /\ ret' = "OK" /\ ~gone => down = <<>> /\ core.st = "idle"
  <1>1. ASSUME IInv, [Next]_vars PROVE Delivers
    <2>1. SUFFICES ASSUME call = "close", call' = "none", ret' = "OK", ~gone
                   PROVE  down = <<>> /\ core.st = "idle"
      OBVIOUS
    <2>2. ~ UNCHANGED vars
      BY <2>1 DEF vars, linkVars
    <2>3. ~Program
      BY <2>1 DEF Program, WriteCtrlLock, ReadCtrlLock, ReadModifyWrite, SetMiscellaneous, SetStrobe,
                  Getter, SetTimeout, Throw, Open, Close, Delete, CallOf
    <2>4. ~Core /\ ~ServerStep
      BY <2>1 DEF Core, CoreReset, CoreCommand, CoreWidths, CoreField, CoreReads, CoreWrites, BusAnswers,
                  CoreTakes, ServerStep, ServerCloses
    <2>5. ~(SendStep \/ TimeoutStep \/ BreakStep \/ SizesStep \/ WrongSizesStep
            \/ AnswerStep \/ ShadowStep \/ ModifyStep \/ ModifyThrows)
      BY <2>1 DEF SendStep, Sends, TimeoutStep, TimesOut, BreakStep, Breaks, SizesStep, WrongSizesStep,
                  AnswerStep, ShadowStep, ModifyStep, ModifyThrows, Receives, Return
    <2>6. ReturnStep
      BY <1>1, <2>2, <2>3, <2>4, <2>5 DEF Next, Library
    <2>7. todo = <<>> /\ Len(todo) = 0
      BY <2>6 DEF ReturnStep
    <2>8. req = NoRequest /\ Live
      BY <1>1, <2>1 DEF IInv, Connections, AccessCalls, Live
    <2>9. Ahead = 0
      BY <2>1, <2>7, <2>8 DEF Ahead, Behind
    <2>10. down = <<>> /\ End.st = "idle"
      BY <1>1, <2>1, <2>8, <2>9 DEF IInv, Questions, OtherProgress
    <2> QED BY <2>10, NothingToTake DEF End
  <1>2. CloseDelivers <=> [][Delivers]_vars
    BY DEF CloseDelivers
  <1> QED BY <1>1, <1>2, Invariant, PTL DEF Spec

-----------------------------------------------------------------------------
(***************************************************************************)
(* What the bus sees.                                                      *)
(***************************************************************************)
LEMMA AccessIsThat ==
  ASSUME IInv, down # <<>>, down' = Tail(down), core' = Took(widths.misc, core, Head(down)), Busy(core'),
         UNCHANGED widths
  PROVE  /\ OnItsWay = Request(core'.st, core'.address, IF core'.st = "write" THEN Head(down).v ELSE 0, core'.lock)
         /\ owed = NoRequest => made = "no" /\ req # NoRequest
  <1>1. End' = End /\ down' = <<>> /\ Len(down) = 1 /\ Head(down) = down[1]
    BY TokenTaken
  <1>2. End = core' /\ Busy(End)
    BY <1>1, NothingToTake DEF End
  <1>3. OnItsWay = Request(End.st, End.address, IF End.st = "write" THEN down[Len(down)].v ELSE 0, End.lock)
    BY <1>2 DEF IInv, AccessRight
  <1>4. owed = NoRequest => made = "no" /\ req # NoRequest
    BY <1>2, Awaited
  <1> QED BY <1>1, <1>2, <1>3, <1>4

LEMMA AccessSimulated ==
  ASSUME IInv, CoreReads \/ CoreWrites
  PROVE  RB!Access \/ RB!LateAccess
  <1>1. /\ bus' = OnItsWay /\ bus = NoRequest /\ UNCHANGED <<req, reply>>
        /\ owed = NoRequest => made = "no" /\ req # NoRequest
        /\ IF owed # NoRequest THEN owed' = NoRequest /\ UNCHANGED made
                               ELSE made' = "started" /\ UNCHANGED owed
    <2>1. ~Busy(core) => bus = NoRequest
      BY DEF IInv, Connections
    <2>2. CASE CoreReads
      BY <2>1, <2>2, ReadTaken, AccessIsThat
    <2>3. CASE CoreWrites
      BY <2>1, <2>3, WriteTaken, AccessIsThat
    <2> QED BY <2>2, <2>3
  <1> QED BY <1>1 DEF OnItsWay, RB!Access, RB!LateAccess

LEMMA FailureSimulated == ASSUME IInv, Failed PROVE RB!Fail \/ RB!Proceed
  <1>1. req = NoRequest => made = "no"
    BY DEF IInv, Connections
  <1> QED BY <1>1 DEF Failed, RB!Fail, RB!Proceed

LEMMA AskSimulated ==
  ASSUME req = NoRequest, NEW r \in Requests, Asks(r)
  PROVE  RB!Ask
  BY DEF Asks, RB!Ask

LEMMA StepSimulated == ASSUME IInv, Next PROVE RB!Next \/ UNCHANGED busVars
  <1>1. \A a \in Address, d \in Data, l \in BOOLEAN :
          Request("write", a, d, l) \in Requests /\ Request("read", a, 0, l) \in Requests
    BY DEF Address, Requests, Request
  <1>2. CASE WriteCtrlLock
    <2>1. PICK a \in Address, d \in Data, l \in BOOLEAN :
            call = "none" /\ Asks(IF open /\ widths.wr > 0 THEN Request("write", a, d, l) ELSE req)
      BY <1>2 DEF WriteCtrlLock, CallOf
    <2>2. CASE open /\ widths.wr > 0
      BY <1>1, <2>1, <2>2, BetweenCalls, AskSimulated DEF RB!Next
    <2>3. CASE ~(open /\ widths.wr > 0)
      BY <2>1, <2>3 DEF Asks, busVars
    <2> QED BY <2>2, <2>3
  <1>3. CASE ReadCtrlLock
    <2>1. PICK a \in Address, l \in BOOLEAN :
            call = "none" /\ Asks(IF open /\ widths.rd > 0 THEN Request("read", a, 0, l) ELSE req)
      BY <1>3 DEF ReadCtrlLock, CallOf
    <2>2. Request("read", a, 0, l) \in Requests
      BY DEF Address, Requests, Request
    <2>3. CASE open /\ widths.rd > 0
      BY <2>1, <2>2, <2>3, BetweenCalls, AskSimulated DEF RB!Next
    <2>4. CASE ~(open /\ widths.rd > 0)
      BY <2>1, <2>4 DEF Asks, busVars
    <2> QED BY <2>3, <2>4
  <1>4. CASE ReadModifyWrite
    <2>1. PICK a \in Address :
            call = "none" /\ Asks(IF open /\ CanModify THEN Request("read", a, 0, TRUE) ELSE req)
      BY <1>4 DEF ReadModifyWrite, CallOf
    <2>2. Request("read", a, 0, TRUE) \in Requests
      BY DEF Address, Requests, Request
    <2>3. CASE open /\ CanModify
      BY <2>1, <2>2, <2>3, BetweenCalls, AskSimulated DEF RB!Next
    <2>4. CASE ~(open /\ CanModify)
      BY <2>1, <2>4 DEF Asks, busVars
    <2> QED BY <2>3, <2>4
  <1>5. CASE SetMiscellaneous \/ SetStrobe \/ Getter \/ SetTimeout \/ Throw \/ Close \/ Delete
    BY <1>5 DEF SetMiscellaneous, SetStrobe, Getter, SetTimeout, Throw, Close, Delete
  <1>6. CASE Open
    BY <1>6, BetweenCalls DEF Open, RB!Next, RB!Reconnect, busVars
  <1>7. CASE SendStep \/ SizesStep \/ ShadowStep \/ ServerStep
    BY <1>7 DEF SendStep, SizesStep, ShadowStep, ServerStep
  <1>8. CASE TimeoutStep \/ BreakStep \/ WrongSizesStep
    BY <1>8, FailureSimulated DEF TimeoutStep, BreakStep, WrongSizesStep, RB!Next
  <1>9. CASE AnswerStep
    <2>1. /\ todo # <<>> /\ Head(todo).as = "answer" /\ Head(up).t \in {"ACK", "NAK"} /\ Len(up) >= Head(todo).n
          /\ reply' = Head(up).t /\ req' = NoRequest /\ made' = "no" /\ UNCHANGED <<owed, bus>>
      BY <1>9 DEF AnswerStep, CanReceive, Next_is
    <2>2. req # NoRequest /\ Head(todo).n \in 1..2 /\ (up # <<>> => up[1].t = made)
      BY <2>1, AnswerComes DEF Receive
    <2>3. up # <<>> /\ Head(up) = up[1]
      <3>1. up \in Seq(UpTokens) /\ Len(up) \in Nat /\ Len(up) >= 1
        BY <2>1, <2>2, LenProperties DEF IInv, TypeOK
      <3> QED BY <3>1, HeadTailProperties, EmptySeq
    <2> QED BY <2>1, <2>2, <2>3 DEF RB!Next, RB!Reply
  <1>10. CASE ModifyStep
    <2>1. todo # <<>> /\ Head(todo).as = "modify"
      BY <1>10 DEF ModifyStep, Next_is
    <2>2. req = NoRequest /\ Head(todo).n = shadow /\ shadow \in Address
      BY <2>1, Modifies DEF IInv, TypeOK
    <2>3. PICK d \in Data : IF reply = "ACK" THEN Asks(Request("write", shadow, d, FALSE)) ELSE UNCHANGED busVars
      BY <1>10, <2>2 DEF ModifyStep
    <2> QED BY <1>1, <2>2, <2>3, AskSimulated DEF RB!Next
  <1>11. CASE ModifyThrows \/ ReturnStep
    BY <1>11 DEF ModifyThrows, ReturnStep, RB!Next, RB!Proceed
  <1>12. CASE CoreReset
    <2>1. down # <<>> /\ Head(down).t = "reset" /\ bus' = NoRequest /\ UNCHANGED <<req, made, owed, reply>>
      BY <1>12 DEF CoreReset, CoreTakes
    <2>2. call = "open" \/ ~open
      BY <2>1, Waiting DEF IInv, Connections
    <2>3. req = NoRequest
      BY <2>2 DEF IInv, Connections, AccessCalls
    <2> QED BY <2>1, <2>3 DEF RB!Next, RB!Reconnect
  <1>13. CASE CoreCommand \/ CoreWidths \/ CoreField
    BY <1>13 DEF CoreCommand, CoreWidths, CoreField
  <1>14. CASE CoreReads \/ CoreWrites
    BY <1>14, AccessSimulated DEF RB!Next
  <1>15. CASE BusAnswers
    <2>1. bus # NoRequest
      BY <1>15 DEF BusAnswers, CoreBusy, Busy, IInv, Connections
    <2> QED BY <1>15, <2>1 DEF BusAnswers, RB!Next, RB!Complete
  <1> QED BY <1>2, <1>3, <1>4, <1>5, <1>6, <1>7, <1>8, <1>9, <1>10, <1>11, <1>12, <1>13, <1>14, <1>15
       DEF Next, Program, Library, Core

\* The library, the connection and the core are a remote bus.
THEOREM ImplementsRemoteBus == Spec => IsRemoteBus
  <1>1. Init => RB!Init
    BY DEF Init, RB!Init
  <1>2. ASSUME IInv, [Next]_vars PROVE [RB!Next]_(RB!vars)
    <2>1. CASE UNCHANGED vars
      BY <2>1 DEF vars, busVars, RB!vars
    <2>2. CASE Next
      BY <2>2, <1>2, StepSimulated DEF busVars, RB!vars
    <2> QED BY <1>2, <2>1, <2>2
  <1> QED BY <1>1, <1>2, Invariant, PTL DEF Spec, IsRemoteBus, RB!Spec

-----------------------------------------------------------------------------
(***************************************************************************)
(* The misc signals.                                                       *)
(***************************************************************************)
\* A set of the misc signals whose value is not yet sent.
MiscToSend == call = "set" /\ todo # <<>> /\ (Head(todo).tok.t = "M" \/ End.st = "M")

MiscRight ==
  /\ Field(core.misc, widths.misc) = core.misc
  /\ call = "open" => wanted = 0
  /\ Live /\ call # "open" =>
       IF MiscToSend THEN Field(todo[Len(todo)].tok.v, widths.misc) = wanted ELSE End.misc = wanted

\* The width of a field as the number of its values.
LEMMA PowerOfTwo == ASSUME NEW n \in Nat PROVE 2^n \in Nat \ {0}
  <1>1. IsFiniteSet(1..n) /\ Cardinality(1..n) = n
    BY FS_Interval
  <1>2. IsFiniteSet(SUBSET (1..n)) /\ Cardinality(SUBSET (1..n)) = 2^n
    BY <1>1, FS_SUBSET
  <1>3. 2^n \in Nat /\ (2^n = 0 <=> SUBSET (1..n) = {})
    BY <1>2, FS_CardinalityType, FS_EmptySet
  <1> QED BY <1>3

LEMMA FieldOfField ==
  ASSUME NEW x \in Int, NEW n \in Nat
  PROVE  Field(Field(x, n), n) = Field(x, n) /\ Field(0, n) = 0
  <1> DEFINE b == 2^n
  <1>1. b \in Nat \ {0}
    BY PowerOfTwo
  <1> HIDE DEF b
  <1>2. x % b \in 0..b - 1
    BY <1>1
  <1>3. (x % b) % b = x % b /\ 0 % b = 0
    BY <1>1, <1>2
  <1> QED BY <1>3 DEF Field, b

\* What a helper sends is what it means, but for a core with ten misc signals.
LEMMA MiscMeant ==
  ASSUME widths \in Cores, widths.misc # 10, NEW m \in MiscCalls, m.ok
  PROVE  Field(m.sent, widths.misc) = m.meant
  <1> USE BusAccessAssumption
  <1>1. widths.misc \in Nat
    OBVIOUS
  <1>2. CASE \E p, q \in Prot : m = SetAxprot(p, q)
    <2>1. PICK p \in Prot, q \in Prot : m = SetAxprot(p, q)
      BY <1>2
    <2>2. widths.misc = 6 /\ m.sent = Field(q, 3) * 8 + Field(p, 3) /\ m.meant = m.sent
      BY <2>1 DEF SetAxprot
    <2>3. p \in Nat /\ q \in Nat
      OBVIOUS
    <2>4. Field(q, 3) \in 0..7 /\ Field(p, 3) \in 0..7
      BY <2>3 DEF Field
    <2>5. m.sent \in 0..63
      BY <2>2, <2>4
    <2> QED BY <2>2, <2>5 DEF Field
  <1>3. CASE \E p \in Prot : m = SetPprot(p)
    <2>1. PICK p \in Prot : m = SetPprot(p)
      BY <1>3
    <2>2. widths.misc = 3 /\ m.sent = Field(p, 3) /\ m.meant = m.sent
      BY <2>1 DEF SetPprot
    <2>3. p \in Nat
      OBVIOUS
    <2>4. m.sent \in 0..7
      BY <2>2, <2>3 DEF Field
    <2> QED BY <2>2, <2>4 DEF Field
  <1>4. CASE \E p \in Prot : m = SetDebugAccess(p)
    <2>1. PICK p \in Prot : m = SetDebugAccess(p)
      BY <1>4
    <2>2. widths.misc = 1 /\ m.sent = (IF p = 0 THEN 0 ELSE 1) /\ m.meant = m.sent
      BY <2>1 DEF SetDebugAccess
    <2>3. m.sent \in 0..1
      BY <2>2
    <2> QED BY <2>2, <2>3 DEF Field
  <1>5. CASE \E p \in Prot, s \in Size : m = SetHprotHsize(p, s)
    <2>1. PICK p \in Prot, s \in Size : m = SetHprotHsize(p, s)
      BY <1>5
    <2>2. p \in Nat /\ s \in Nat
      OBVIOUS
    <2> DEFINE b == IF widths.misc > 3 THEN widths.misc - 3 ELSE 0
    <2>3. widths.misc \in {3, 7, 10}
      BY <2>1 DEF SetHprotHsize
    <2>4. m.meant = Field(s, 3) + 8 * Field(p, b)
          /\ m.sent = IF widths.misc > 8 THEN Field(m.meant, 8) + 256 * (Field(p, b) \div 8) ELSE Field(m.meant, 8)
      BY <2>1 DEF SetHprotHsize
    <2>5. m.sent = Field(m.meant, 8) /\ ((widths.misc = 7 /\ b = 4) \/ (widths.misc = 3 /\ b = 0))
      <3>1. widths.misc = 7 \/ widths.misc = 3
        BY <2>3
      <3>2. ~(widths.misc > 8)
        BY <3>1
      <3> QED BY <2>4, <3>1, <3>2
    <2> HIDE DEF b
    <2>6. Field(s, 3) \in 0..7
      BY <2>2 DEF Field
    <2>7. CASE widths.misc = 7
      <3>1. Field(p, b) \in 0..15
        BY <2>2, <2>5, <2>7 DEF Field
      <3>2. m.meant \in 0..127
        BY <2>4, <2>6, <3>1
      <3> QED BY <2>5, <2>7, <3>2 DEF Field
    <2>8. CASE widths.misc = 3
      <3>1. Field(p, b) = 0
        BY <2>2, <2>5, <2>8 DEF Field
      <3>2. m.meant \in 0..7
        BY <2>4, <2>6, <3>1
      <3> QED BY <2>5, <2>8, <3>2 DEF Field
    <2> QED BY <2>5, <2>7, <2>8
  <1>6. CASE \E r, h \in {0, 1} : m = SetResets(r, h)
    <2>1. PICK r \in {0, 1}, h \in {0, 1} : m = SetResets(r, h)
      BY <1>6
    <2>2. widths.misc = 2 /\ m.sent = r + 2 * h /\ m.meant = m.sent
      BY <2>1 DEF SetResets
    <2>3. m.sent \in 0..3
      BY <2>2
    <2> QED BY <2>2, <2>3 DEF Field
  <1>7. CASE \E d \in Prot : m = [ok |-> widths.misc > 0, sent |-> d, meant |-> Field(d, widths.misc)]
    BY <1>7
  <1> QED BY <1>2, <1>3, <1>4, <1>5, <1>6, <1>7 DEF MiscCalls

\* What a token makes of the misc signals.
LEMMA TookMisc ==
  ASSUME NEW w, NEW c, NEW t, Legal(c, t)
  PROVE  /\ t.t # "reset" /\ c.st # "M" => Took(w, c, t).misc = c.misc
         /\ t.t # "reset" /\ c.st = "M" => Took(w, c, t).misc = Field(t.v, w)
         /\ t.t = "reset" => Took(w, c, t).misc = 0
         /\ Took(w, c, t).st = "M" <=> t.t = "M"
  <1>1. CASE t.t = "reset"
    BY <1>1 DEF Took, ResetCore, Commands
  <1>2. CASE t.t \in Commands
    BY <1>2 DEF Took, Commands, Legal
  <1>3. CASE t.t \in {"R", "Rlock"}
    BY <1>3 DEF Took, Commands, Legal
  <1>4. CASE t.t = "Q"
    BY <1>4 DEF Took, Commands, Legal
  <1>5. CASE t.t = "field" /\ c.st \in Commands
    BY <1>5 DEF Took, Commands
  <1> QED BY <1>1, <1>2, <1>3, <1>4, <1>5 DEF Legal

\* The last command M on its way is the one that counts.
LEMMA MiscAfter ==
  ASSUME IInv, Field(core.misc, widths.misc) = core.misc, \A i \in DOMAIN down : down[i].t # "reset"
  PROVE  Field(AfterDown("M", core.misc), widths.misc) = End.misc
  <1> DEFINE d == down
             n == Len(d)
             r == Run(widths.misc, core, d)
             sets == {i \in 1..n - 1 : d[i].t = "M"}
  <1>1. d \in Seq(Tokens) /\ n \in Nat /\ DOMAIN d = 1..n /\ Lawful(widths.misc, core, d)
    BY LenProperties DEF IInv, TypeOK, TokensRight
  <1>2. r[0] = core /\ End = r[n]
        /\ \A i \in 1..n : r[i] = Took(widths.misc, r[i - 1], d[i]) /\ Legal(r[i - 1], d[i])
    BY <1>1, RunValue DEF Lawful, End, Final
  <1>3. d = <<>> <=> n = 0
    BY <1>1, EmptySeq
  <1>4. n > 0 => Head(d) = d[1]
    BY <1>1, <1>3, HeadTailProperties
  <1>5. AfterDown("M", core.misc) = IF sets # {} THEN d[Max(sets) + 1].v
                                    ELSE IF core.st = "M" /\ d # <<>> THEN Head(d).v ELSE core.misc
    BY DEF AfterDown
  <1> HIDE DEF r, d
  <1>6. \A i \in 1..n : /\ r[i - 1].st # "M" => r[i].misc = r[i - 1].misc
                        /\ r[i - 1].st = "M" => r[i].misc = Field(d[i].v, widths.misc)
                        /\ r[i].st = "M" <=> d[i].t = "M"
    <2> SUFFICES ASSUME NEW i \in 1..n
                 PROVE  /\ r[i - 1].st # "M" => r[i].misc = r[i - 1].misc
                        /\ r[i - 1].st = "M" => r[i].misc = Field(d[i].v, widths.misc)
                        /\ r[i].st = "M" <=> d[i].t = "M"
      OBVIOUS
    <2>1. d[i].t # "reset"
      BY <1>1 DEF d
    <2> QED BY <1>2, <2>1, TookMisc
  <1> HIDE DEF n
  <1>7. ASSUME NEW k \in 0..n, \A j \in k..n - 1 : r[j].st # "M"
        PROVE  r[n].misc = r[k].misc
    <2> DEFINE T == {j \in k..n : r[j].misc # r[k].misc}
    <2>1. SUFFICES ASSUME T # {} PROVE FALSE
      BY <1>1
    <2>2. PICK j \in T : \A i \in T : j <= i
      <3>1. T \subseteq Nat
        BY <1>1
      <3> HIDE DEF T
      <3> QED BY <2>1, <3>1, LeastNumber
    <2>3. j \in k..n /\ j # k /\ r[j].misc # r[k].misc
      OBVIOUS
    <2>4. j \in 1..n /\ j - 1 \in k..n - 1
      BY <1>1, <2>3
    <2>5. r[j - 1].misc = r[k].misc
      BY <1>1, <2>2, <2>4
    <2> QED BY <1>6, <1>7, <2>3, <2>4, <2>5
  <1>8. CASE sets # {}
    <2> DEFINE T == {n - i : i \in sets}
    <2>1. \E x \in sets : \A y \in sets : x >= y
      <3>1. T \subseteq Nat /\ T # {}
        BY <1>1, <1>8
      <3>2. PICK x \in T : \A y \in T : x <= y
        <4> HIDE DEF T
        <4> QED BY <3>1, LeastNumber
      <3>3. PICK i \in sets : x = n - i
        OBVIOUS
      <3>4. \A y \in sets : n - i <= n - y
        BY <3>2, <3>3
      <3> QED BY <1>1, <3>3, <3>4
    <2> DEFINE m == Max(sets)
    <2>2. m \in sets /\ \A y \in sets : m >= y
      BY <2>1 DEF Max
    <2> HIDE DEF m
    <2>3. m \in 1..n - 1 /\ d[m].t = "M" /\ m + 1 \in 1..n /\ (m + 1) - 1 = m /\ m \in 1..n
      BY <1>1, <2>2
    <2>4. r[m + 1].misc = Field(d[m + 1].v, widths.misc)
      BY <1>6, <2>3
    <2>5. \A j \in m + 1..n - 1 : r[j].st # "M"
      <3> SUFFICES ASSUME NEW j \in m + 1..n - 1, r[j].st = "M" PROVE FALSE
        OBVIOUS
      <3>1. j \in 1..n /\ j \in 1..n - 1
        BY <1>1, <2>3
      <3>2. j \in sets
        BY <1>6, <3>1
      <3> QED BY <2>2, <2>3, <3>2
    <2>6. r[n].misc = r[m + 1].misc
      BY <1>1, <1>7, <2>3, <2>5
    <2> QED BY <1>2, <1>5, <1>8, <2>4, <2>6 DEF m
  <1>9. CASE sets = {}
    <2>1. \A j \in 1..n - 1 : r[j].st # "M"
      <3> SUFFICES ASSUME NEW j \in 1..n - 1, r[j].st = "M" PROVE FALSE
        OBVIOUS
      <3>1. j \in 1..n
        BY <1>1
      <3> QED BY <1>6, <1>9, <3>1
    <2>2. CASE core.st = "M" /\ n > 0
      <3>1. 1 \in 1..n /\ 1 \in 0..n /\ 1 - 1 = 0
        BY <1>1, <2>2
      <3>2. r[1].misc = Field(d[1].v, widths.misc)
        BY <1>2, <1>6, <2>2, <3>1
      <3>3. r[n].misc = r[1].misc
        BY <1>7, <2>1, <3>1
      <3> QED BY <1>2, <1>3, <1>4, <1>5, <1>9, <2>2, <3>2, <3>3
    <2>3. CASE ~(core.st = "M" /\ n > 0)
      <3>1. 0 \in 0..n /\ \A j \in 0..n - 1 : r[j].st # "M"
        BY <1>1, <1>2, <2>1, <2>3
      <3>2. r[n].misc = core.misc
        BY <1>2, <1>7, <3>1
      <3>3. AfterDown("M", core.misc) = core.misc
        BY <1>1, <1>3, <1>5, <1>9, <2>3
      <3> QED BY <1>2, <3>2, <3>3
    <2> QED BY <2>2, <2>3
  <1> QED BY <1>8, <1>9

\* Without a connection nothing is said of the misc signals.
LEMMA MiscUnplugged ==
  ASSUME MiscRight, ~Live', UNCHANGED <<widths, core, wanted>>, call' = "open" => call = "open"
  PROVE  MiscRight'
  BY DEF MiscRight

\* Nothing is sent, the core does nothing.
LEMMA MiscStays ==
  ASSUME MiscRight, UNCHANGED <<open, gone, down, widths, core, wanted>>,
         Live /\ call' # "open" => End.misc = wanted /\ ~MiscToSend',
         call' = "open" => call = "open"
  PROVE  MiscRight'
  <1>1. End' = End /\ Live' = Live
    BY DEF End, Live
  <1> QED BY <1>1 DEF MiscRight

\* Between two calls, and in all calls but an open and a set, nothing is to be sent.
LEMMA MiscArrived ==
  ASSUME IInv, MiscRight, Live, call # "open", call # "set" \/ todo = <<>>
  PROVE  End.misc = wanted
  BY DEF MiscRight, MiscToSend

LEMMA MiscCall ==
  ASSUME IInv, MiscRight, call = "none", Begin("set", todo'), NEW v, NEW c \in {"M", "S"},
         todo' = <<Send(c, 0), Send("field", v)>>, UNCHANGED <<widths, core>>,
         IF c = "M" THEN wanted' = Field(v, widths.misc) ELSE wanted' = wanted
  PROVE  MiscRight'
  <1>1. UNCHANGED <<open, gone, down>> /\ call' = "set"
    BY DEF Begin
  <1>2. End' = End /\ Live' = Live
    BY <1>1 DEF End, Live
  <1>3. /\ todo' # <<>> /\ Head(todo').tok.t = c
        /\ todo'[Len(todo')].tok.v = v
    BY DEF Send, Token
  <1>4. Live => End.st = "idle" /\ End.misc = wanted
    BY MiscArrived, BetweenCalls
  <1>5. MiscToSend' <=> call' = "set" /\ todo' # <<>> /\ (Head(todo').tok.t = "M" \/ End'.st = "M")
    BY DEF MiscToSend
  <1>6. CASE c = "M"
    BY <1>1, <1>2, <1>3, <1>5, <1>6 DEF MiscRight
  <1>7. CASE c = "S"
    <2>1. Live => ~MiscToSend'
      BY <1>2, <1>3, <1>4, <1>5, <1>7
    <2> QED BY <1>1, <1>2, <1>4, <1>7, <2>1 DEF MiscRight
  <1> QED BY <1>6, <1>7

LEMMA MiscProgram ==
  ASSUME IInv, MiscRight, Program, widths.misc # 10
  PROVE  MiscRight'
  <1>0. call = "none" /\ (Live => End.misc = wanted)
    <2>1. call = "none"
      BY DEF Program, WriteCtrlLock, ReadCtrlLock, ReadModifyWrite, SetMiscellaneous, SetStrobe,
             Getter, SetTimeout, Throw, Open, Close, Delete, CallOf
    <2> QED BY <2>1, MiscArrived
  <1>1. ASSUME WriteCtrlLock \/ ReadCtrlLock \/ ReadModifyWrite \/ Getter \/ SetTimeout \/ Throw \/ Close
        PROVE  MiscRight'
    <2>1. UNCHANGED <<open, gone, down, widths, core, wanted>> /\ call' \notin {"open", "set"}
      BY <1>0, <1>1 DEF WriteCtrlLock, ReadCtrlLock, ReadModifyWrite, Getter, SetTimeout, Throw, Close,
                  CallOf, Begin, Refuse, Succeed
    <2>2. ~MiscToSend'
      BY <2>1 DEF MiscToSend
    <2> QED BY <1>0, <2>1, <2>2, MiscStays
  <1>2. ASSUME UNCHANGED <<open, gone, down, widths, core, wanted, call>> PROVE MiscRight'
    <2>1. ~MiscToSend'
      BY <1>0, <1>2 DEF MiscToSend
    <2> QED BY <1>0, <1>2, <2>1, MiscStays
  <1>3. ASSUME SetMiscellaneous PROVE MiscRight'
    <2>1. PICK m \in MiscCalls :
            /\ CallOf("set", m.ok, <<Send("M", 0), Send("field", m.sent)>>)
            /\ wanted' = IF open /\ m.ok THEN m.meant ELSE wanted
            /\ UNCHANGED <<widths, shadow, core, busVars>>
      BY <1>3 DEF SetMiscellaneous
    <2>2. CASE open /\ m.ok
      <3>1. Field(m.sent, widths.misc) = m.meant
        BY <2>2, MiscMeant DEF IInv, TypeOK
      <3>2. Begin("set", <<Send("M", 0), Send("field", m.sent)>>) /\ wanted' = m.meant
        BY <2>1, <2>2 DEF CallOf
      <3>3. todo' = <<Send("M", 0), Send("field", m.sent)>> /\ Begin("set", todo')
        BY <3>2 DEF Begin
      <3> QED BY <1>0, <2>1, <3>1, <3>2, <3>3, MiscCall
    <2>3. CASE ~(open /\ m.ok)
      BY <1>2, <2>1, <2>3 DEF CallOf, Refuse
    <2> QED BY <2>2, <2>3
  <1>4. ASSUME SetStrobe PROVE MiscRight'
    <2>1. CASE open /\ widths.strb > 0
      <3>1. Begin("set", <<Send("S", 0), Send("field", 1)>>) /\ wanted' = wanted /\ UNCHANGED <<widths, core>>
        BY <1>4, <2>1 DEF SetStrobe, CallOf
      <3>2. todo' = <<Send("S", 0), Send("field", 1)>> /\ Begin("set", todo')
        BY <3>1 DEF Begin
      <3> QED BY <1>0, <3>1, <3>2, MiscCall
    <2>2. CASE ~(open /\ widths.strb > 0)
      BY <1>2, <1>4, <2>2 DEF SetStrobe, CallOf, Refuse
    <2> QED BY <2>1, <2>2
  <1>5. ASSUME Open PROVE MiscRight'
    <2>1. CASE Refuse /\ UNCHANGED <<shadow, wanted, owed>>
      BY <1>2, <1>5, <2>1 DEF Open, Refuse
    <2>2. CASE Connect("open", <<Send("reset", 0)>> \o GetSizes \o SendAddress(0)) /\ wanted' = 0
      <3>1. call' = "open" /\ wanted' = 0 /\ UNCHANGED <<widths, core>>
        BY <1>5, <2>2 DEF Open, Connect
      <3> QED BY <3>1 DEF MiscRight
    <2> QED BY <1>5, <2>1, <2>2 DEF Open
  <1>6. ASSUME Delete PROVE MiscRight'
    BY <1>6, MiscUnplugged DEF Delete, CloseSocket, Live
  <1> QED BY <1>1, <1>3, <1>4, <1>5, <1>6 DEF Program

\* Of a call that sets nothing, no token is taken for the misc signals.
LEMMA OtherSent ==
  ASSUME IInv, Live, todo # <<>>, Head(todo).do = "send", call \notin {"set", "open"}
  PROVE  Head(todo).tok.t # "reset" /\ End.st # "M" /\ Legal(End, Head(todo).tok)
  <1> DEFINE t == Head(todo).tok
             n == Ahead
             c == CommandAt
  <1>1. CASE req = NoRequest
    <2>1. call = "close" /\ Ahead = 3 /\ Head(todo) = SizesStepAt(3)
      BY <1>1, Sending, StepAt
    <2>2. t.t = "Q"
      BY <2>1 DEF SizesStepAt, Send, Token
    <2>3. End.st = "idle"
      BY <1>1, <2>1 DEF IInv, OtherProgress
    <2> QED BY <2>2, <2>3 DEF Legal
  <1>2. CASE req # NoRequest
    <2>1. /\ n \in (2..c + 3) \ {c + 1} /\ c = (IF req.op = "write" THEN 3 ELSE 2)
          /\ made = "no" /\ Head(todo) = AccessStep(n)
      BY <1>2, Sending, StepAt DEF CommandAt
    <2>2. CommandOf(req) \in {"W", "Wlock", "R", "Rlock"} /\ req.op \in {"read", "write"}
          /\ (req.op = "write" => CommandOf(req) \in {"W", "Wlock"})
      BY <1>2, RequestTypes DEF IInv, TypeOK, CommandOf
    <2>3. /\ n = c + 3 => End.st = "idle"
          /\ n = c + 2 => End.st = "A"
          /\ n = c => End.st = "idle"
          /\ n = 2 /\ req.op = "write" => End.st = CommandOf(req)
      BY <1>2 DEF IInv, AccessProgress
    <2>4. t = CASE n = c     -> Token(CommandOf(req), 0)
                [] n = c + 2 -> Token("field", req.addr)
                [] n = c + 3 -> Token("A", 0)
                [] OTHER     -> Token("field", req.data)
      <3> HIDE DEF n
      <3>1. Head(todo) = CASE n = c -> Send(CommandOf(req), 0)
                [] n = c + 2 -> Send("field", req.addr)
                [] n = c + 3 -> Send("A", 0)
                [] OTHER     -> Send("field", req.data)
        BY <2>1 DEF AccessStep
      <3> QED BY <2>1, <3>1 DEF Send
    <2> HIDE DEF n, c, t
    <2>5. CASE n = c + 3
      <3>1. t = Token("A", 0)
        BY <2>1, <2>4, <2>5
      <3> QED BY <2>3, <2>5, <3>1 DEF Legal, Token, Commands, t
    <2>6. CASE n = c + 2
      <3>1. t = Token("field", req.addr)
        BY <2>1, <2>4, <2>6
      <3> QED BY <2>3, <2>6, <3>1 DEF Legal, Token, Commands, t
    <2>7. CASE n = c
      <3>1. t = Token(CommandOf(req), 0)
        BY <2>1, <2>4, <2>7
      <3> QED BY <2>2, <2>3, <2>7, <3>1 DEF Legal, Token, Commands, t
    <2>8. CASE n = 2 /\ n # c
      <3>1. t = Token("field", req.data) /\ req.op = "write"
        BY <2>1, <2>2, <2>4, <2>8
      <3> QED BY <2>2, <2>3, <2>8, <3>1 DEF Legal, Token, Commands, t
    <2> QED BY <2>1, <2>5, <2>6, <2>7, <2>8
  <1> QED BY <1>1, <1>2

\* A token is sent.
LEMMA MiscSend ==
  ASSUME IInv, MiscRight, SendStep
  PROVE  MiscRight'
  <1> DEFINE t == Head(todo).tok
  <1>1. /\ todo # <<>> /\ Head(todo).do = "send" /\ todo' = Tail(todo)
        /\ UNCHANGED <<open, gone, call, widths, core, wanted, req>>
        /\ IF gone THEN down' = down ELSE down' = Append(down, t)
    BY DEF SendStep, Sends, Next_is, busVars
  <1>2. CASE ~Live' \/ call = "open"
    BY <1>1, <1>2 DEF MiscRight
  <1>3. CASE Live' /\ call # "open"
    <2>1. Live /\ down' = Append(down, t) /\ Live' = Live
      BY <1>1, <1>3 DEF Live
    <2>2. End' = Took(widths.misc, End, t)
      <3>1. down \in Seq(Tokens) /\ t \in Tokens
        BY <1>1, Sending DEF IInv, TypeOK
      <3>2. Final(widths.misc, core, Append(down, t)) = Took(widths.misc, Final(widths.misc, core, down), t)
        BY <3>1, TakesAppended
      <3>3. UNCHANGED <<widths, core>>
        BY <1>1
      <3> QED BY <2>1, <3>2, <3>3 DEF End
    <2>3. CASE call # "set"
      <3>1. t.t # "reset" /\ (End.st # "M" /\ Legal(End, t))
        BY <1>1, <1>3, <2>1, <2>3, OtherSent
      <3>2. End'.misc = End.misc
        BY <2>2, <3>1, TookMisc
      <3>3. ~MiscToSend'
        BY <1>1, <2>3 DEF MiscToSend
      <3> QED BY <1>1, <1>3, <2>1, <2>3, <3>2, <3>3, MiscArrived DEF MiscRight
    <2>4. CASE call = "set"
      <3>1. req = NoRequest
        BY <2>4 DEF IInv, Connections, AccessCalls
      <3>2. /\ Len(todo) \in {1, 2} /\ Len(todo') = Len(todo) - 1 /\ Head(todo) = todo[1]
            /\ Len(todo) = 2 => Head(todo) \in {Send("M", 0), Send("S", 0)} /\ todo'[1] = todo[2]
                                /\ todo[2] = Send("field", todo[2].tok.v) /\ End.st = "idle"
            /\ Len(todo) = 1 => Head(todo) = Send("field", t.v) /\ End.st \in {"M", "S"}
        <4>1. /\ Len(todo) \in Nat /\ Len(todo) > 0 /\ Len(todo) <= 2 /\ Head(todo) = todo[1]
              /\ Len(todo') = Len(todo) - 1 /\ todo \in Seq(Steps)
          BY <1>1, <2>4, <3>1, StepAt, StepDone DEF IInv, OtherPlan, TypeOK
        <4>2. Len(todo) \in {1, 2}
          BY <4>1
        <4>3. \A i \in 1..Len(todo) : IF i = Len(todo) THEN todo[i] = Send("field", todo[i].tok.v)
                                       ELSE todo[i] \in {Send("M", 0), Send("S", 0)}
          BY <2>4, <3>1 DEF IInv, OtherPlan
        <4>4. IF Len(todo) = 1 THEN End.st \in {"M", "S"} ELSE End.st = "idle"
          BY <2>1, <2>4, <3>1 DEF IInv, OtherProgress
        <4>5. CASE Len(todo) = 1
          BY <4>1, <4>3, <4>4, <4>5
        <4>6. CASE Len(todo) = 2
          <5>1. 1 \in 1..Len(todo) /\ 2 \in 1..Len(todo) /\ 1 # Len(todo)
            BY <4>6
          <5>2. todo[1] \in {Send("M", 0), Send("S", 0)} /\ todo[2] = Send("field", todo[2].tok.v)
            BY <4>3, <4>6, <5>1
          <5>3. todo'[1] = todo[2]
            <6>1. Tail(todo)[1] = todo[1 + 1]
              BY <1>1, <4>1, <4>6, HeadTailProperties
            <6>2. 1 + 1 = 2
              OBVIOUS
            <6> QED BY <1>1, <6>1, <6>2
          <5> QED BY <4>1, <4>4, <4>6, <5>2, <5>3
        <4> QED BY <4>1, <4>2, <4>5, <4>6
      <3>3. CASE Len(todo) = 1
        <4>1. todo' = <<>>
          <5>1. Len(todo') = 0 /\ todo' \in Seq(Steps)
            BY <1>1, <3>2, <3>3, StepDone
          <5> QED BY <5>1, EmptySeq
        <4>2. ~MiscToSend' /\ todo[Len(todo)].tok.v = t.v /\ t.t = "field" /\ Legal(End, t)
          <5>1. t.t = "field" /\ todo[Len(todo)].tok = t
            BY <3>2, <3>3 DEF Send, Token
          <5> QED BY <3>2, <3>3, <4>1, <5>1 DEF MiscToSend, Legal, Commands
        <4>3. MiscToSend <=> End.st = "M"
          BY <1>1, <2>4, <3>3, <4>2 DEF MiscToSend
        <4>4. End'.misc = IF End.st = "M" THEN Field(t.v, widths.misc) ELSE End.misc
          BY <2>2, <4>2, TookMisc
        <4> QED BY <1>1, <1>3, <2>1, <3>3, <4>2, <4>3, <4>4 DEF MiscRight
      <3>4. CASE Len(todo) = 2
        <4>1. t.t \in {"M", "S"} /\ t.v = 0 /\ (End'.st = "M" <=> t.t = "M") /\ End'.misc = End.misc
          <5>1. t.t \in {"M", "S"} /\ t.v = 0
            BY <3>2, <3>4 DEF Send, Token
          <5>2. Legal(End, t) /\ End.st # "M"
            BY <3>2, <3>4, <5>1 DEF Legal, Commands
          <5> QED BY <2>2, <5>1, <5>2, TookMisc
        <4>2. Len(todo') = 1 /\ todo' # <<>> /\ todo'[Len(todo')] = todo[Len(todo)] /\ Head(todo').tok.t = "field"
          <5>1. Len(todo') = 1 /\ todo' \in Seq(Steps)
            BY <1>1, <3>2, <3>4, StepDone
          <5>2. todo' # <<>> /\ Head(todo') = todo'[1]
            BY <5>1, HeadTailProperties, EmptySeq
          <5>3. todo'[1] = todo[2] /\ todo[2].tok.t = "field"
            BY <3>2, <3>4 DEF Send, Token
          <5> QED BY <3>4, <5>1, <5>2, <5>3
        <4>3. MiscToSend <=> t.t = "M"
          BY <1>1, <2>4, <3>2, <3>4 DEF MiscToSend
        <4>4. MiscToSend' <=> t.t = "M"
          BY <1>1, <2>4, <4>1, <4>2 DEF MiscToSend
        <4> QED BY <1>1, <1>3, <2>1, <4>1, <4>2, <4>3, <4>4 DEF MiscRight
      <3> QED BY <3>2, <3>3, <3>4
    <2> QED BY <2>3, <2>4
  <1> QED BY <1>2, <1>3

LEMMA MiscLibrary ==
  ASSUME IInv, MiscRight, Library
  PROVE  MiscRight'
  <1>1. ASSUME TimeoutStep PROVE MiscRight'
    BY <1>1, MiscUnplugged DEF TimeoutStep, TimesOut, CloseSocket, Return, Live
  <1>2. ASSUME BreakStep PROVE MiscRight'
    BY <1>2, MiscUnplugged DEF BreakStep, Breaks, CloseSocket, Return, Live
  <1>3. ASSUME WrongSizesStep PROVE MiscRight'
    <2>1. todo # <<>> /\ Head(todo).as \in {"id", "widths"}
      BY <1>3 DEF WrongSizesStep, Misreceives, CanReceive, Next_is
    <2>2. call \in {"open", "close"}
      BY <2>1, AsksForWidths
    <2> QED BY <1>3, <2>2, MiscUnplugged DEF WrongSizesStep, Return, Live
  <1>4. ASSUME UNCHANGED <<open, gone, down, widths, core, wanted>>, call' \in {call, "none"},
               Live /\ call = "set" => todo = <<>> /\ call' = "none",
               Live /\ call = "open" => call' = "open" \/ (Len(todo) = 0 /\ req = NoRequest)
        PROVE  MiscRight'
    <2>1. Live /\ call' # "open" => End.misc = wanted
      <3>1. CASE call # "open"
        BY <1>4, <3>1, MiscArrived
      <3>2. CASE call = "open"
        <4>1. SUFFICES ASSUME Live, Len(todo) = 0, req = NoRequest PROVE End.misc = wanted
          BY <1>4, <3>2
        <4>2. Ahead # 4
          BY <4>1 DEF Ahead, Behind
        <4>3. End.misc = 0
          BY <3>2, <4>1, <4>2 DEF IInv, OtherProgress, ResetCore
        <4> QED BY <3>2, <4>3 DEF MiscRight
      <3> QED BY <3>1, <3>2
    <2>2. Live => ~MiscToSend'
      BY <1>4 DEF MiscToSend
    <2> QED BY <1>4, <2>1, <2>2, MiscStays
  <1>5. ASSUME SizesStep PROVE MiscRight'
    <2>1. todo # <<>> /\ Head(todo).as \in {"id", "widths"}
      BY <1>5 DEF SizesStep, CanReceive, Next_is
    <2>2. call \in {"open", "close"}
      BY <2>1, AsksForWidths
    <2> QED BY <1>4, <1>5, <2>2 DEF SizesStep, Receives
  <1>6. ASSUME AnswerStep PROVE MiscRight'
    <2>1. todo # <<>> /\ Head(todo).as = "answer"
      BY <1>6 DEF AnswerStep, CanReceive, Next_is
    <2>2. call \in AccessCalls
      BY <2>1, AnswerComes
    <2> QED BY <1>4, <1>6, <2>2 DEF AnswerStep, Receives, AccessCalls
  <1>7. ASSUME ShadowStep \/ ModifyStep \/ ModifyThrows PROVE MiscRight'
    <2>1. todo # <<>> /\ Head(todo).do = "local"
      BY <1>7 DEF ShadowStep, ModifyStep, ModifyThrows, Next_is
    <2>2. call \notin {"open", "close"}
      BY <2>1, StepAt DEF SizesStepAt, Send, Receive
    <2>3. call # "set"
      <3>1. SUFFICES ASSUME call = "set" PROVE FALSE
        OBVIOUS
      <3>2. req = NoRequest
        BY <3>1 DEF IInv, Connections, AccessCalls
      <3>3. todo[1] \in {Send("M", 0), Send("S", 0), Send("field", todo[1].tok.v)}
        BY <2>1, <3>1, <3>2, StepAt DEF IInv, OtherPlan
      <3> QED BY <2>1, <3>3, StepAt DEF Send
    <2>4. UNCHANGED <<open, gone, down, widths, core, wanted>> /\ call' \in {call, "none"}
      BY <1>7 DEF ShadowStep, ModifyStep, ModifyThrows, Return
    <2> QED BY <1>4, <2>2, <2>3, <2>4
  <1>8. ASSUME ReturnStep PROVE MiscRight'
    <2>1. call # "none" /\ todo = <<>> /\ Len(todo) = 0 /\ call' = "none" /\ UNCHANGED <<widths, core, wanted>>
          /\ IF call = "close" THEN CloseSocket ELSE UNCHANGED <<open, gone, down, up>>
      BY <1>8 DEF ReturnStep, Return
    <2>2. CASE call = "close"
      BY <2>1, <2>2, MiscUnplugged DEF CloseSocket, Live
    <2>3. CASE call # "close"
      <3>1. call = "open" => req = NoRequest
        BY DEF IInv, Connections, AccessCalls
      <3> QED BY <1>4, <2>1, <2>3, <3>1
    <2> QED BY <2>2, <2>3
  <1> QED BY <1>1, <1>2, <1>3, <1>5, <1>6, <1>7, <1>8, MiscSend DEF Library

\* Whatever token the core takes, Took says what becomes of it.
LEMMA TookIsTaken ==
  ASSUME IInv, CoreReset \/ CoreCommand \/ CoreWidths \/ CoreField \/ CoreReads \/ CoreWrites
  PROVE  core' = Took(widths.misc, core, Head(down))
  <1>1. core = [st |-> core.st, address |-> core.address, misc |-> core.misc, lock |-> core.lock]
    BY DEF IInv, TypeOK
  <1>2. ASSUME CoreReset PROVE core' = Took(widths.misc, core, Head(down))
    BY <1>2 DEF CoreReset, CoreTakes, Took, Commands
  <1>3. ASSUME CoreCommand PROVE core' = Took(widths.misc, core, Head(down))
    <2>1. Head(down).t \in Commands /\ core' = [core EXCEPT !.st = Head(down).t]
      BY <1>3 DEF CoreCommand, CoreTakes
    <2>2. core' = [st |-> Head(down).t, address |-> core.address, misc |-> core.misc, lock |-> core.lock]
      BY <1>1, <2>1
    <2> QED BY <2>1, <2>2 DEF Took, Commands
  <1>4. ASSUME CoreWidths PROVE core' = Took(widths.misc, core, Head(down))
    BY <1>4 DEF CoreWidths, CoreTakes, Took, Commands
  <1>5. ASSUME CoreField PROVE core' = Took(widths.misc, core, Head(down))
    <2> DEFINE t == Head(down)
               a == IF core.st = "A" THEN t.v ELSE core.address
               m == IF core.st = "M" THEN Field(t.v, widths.misc) ELSE core.misc
    <2>1. /\ core.st \in {"A", "M", "S"} /\ down # <<>>
          /\ t.t # "reset" /\ core' = [core EXCEPT !.st = "idle", !.address = a, !.misc = m]
      BY <1>5 DEF CoreField, CoreTakes, Commands
    <2>2. t.t = "field"
      BY <2>1, Waiting DEF Legal
    <2>3. core' = [st |-> "idle", address |-> a, misc |-> m, lock |-> core.lock]
      <3> HIDE DEF a, m
      <3> QED BY <1>1, <2>1
    <2>4. Took(widths.misc, core, t) = [st |-> "idle", address |-> a, misc |-> m, lock |-> core.lock]
      BY <2>1, <2>2 DEF Took, Commands
    <2> QED BY <2>3, <2>4
  <1> QED BY <1>2, <1>3, <1>4, <1>5, ReadTaken, WriteTaken

\* The core takes a token.
LEMMA MiscTaken ==
  ASSUME IInv, MiscRight, down # <<>>, down' = Tail(down), core' = Took(widths.misc, core, Head(down)),
         UNCHANGED <<open, gone, call, todo, widths, wanted>>
  PROVE  MiscRight'
  <1>1. Legal(core, Head(down)) /\ End' = End /\ Head(down) \in Tokens
    <2>1. Head(down) = down[1] /\ 1 \in DOMAIN down /\ down \in Seq(Tokens)
      BY TokenTaken DEF IInv, TypeOK
    <2> QED BY <2>1, TokenTaken
  <1>2. widths.misc \in Nat
    BY BusAccessAssumption DEF IInv, TypeOK
  <1>3. Field(core'.misc, widths.misc) = core'.misc
    <2>1. core'.misc \in {0, core.misc, Field(Head(down).v, widths.misc)}
      BY <1>1, TookMisc
    <2>2. Head(down).v \in Int
      <3>1. Head(down).v \in Words /\ Data \subseteq Int
        BY <1>1, BusAccessAssumption DEF Tokens
      <3> QED BY <3>1 DEF Words
    <2>3. Field(Field(Head(down).v, widths.misc), widths.misc) = Field(Head(down).v, widths.misc)
      BY <1>2, <2>2, FieldOfField
    <2>4. Field(0, widths.misc) = 0
      BY <1>2, FieldOfField
    <2> QED BY <2>1, <2>3, <2>4 DEF MiscRight
  <1>4. Live' = Live /\ (MiscToSend' <=> MiscToSend)
    BY <1>1 DEF Live, MiscToSend
  <1> QED BY <1>1, <1>3, <1>4 DEF MiscRight

LEMMA MiscCore ==
  ASSUME IInv, MiscRight, Core
  PROVE  MiscRight'
  <1>1. ASSUME CoreReset \/ CoreCommand \/ CoreWidths \/ CoreField \/ CoreReads \/ CoreWrites
        PROVE  MiscRight'
    <2>1. UNCHANGED <<open, gone, call, todo, widths, wanted>> /\ down # <<>> /\ down' = Tail(down)
      BY <1>1 DEF CoreReset, CoreCommand, CoreWidths, CoreField, CoreReads, CoreWrites, CoreTakes
    <2>2. core' = Took(widths.misc, core, Head(down))
      BY <1>1, TookIsTaken
    <2> QED BY <2>1, <2>2, MiscTaken
  <1>2. ASSUME BusAnswers PROVE MiscRight'
    <2>1. /\ Busy(core) /\ core' = [core EXCEPT !.st = "idle"]
          /\ UNCHANGED <<open, gone, call, todo, down, widths, wanted>>
      BY <1>2 DEF BusAnswers, CoreBusy, Busy
    <2>2. core'.misc = core.misc /\ core'.st = "idle"
      <3>1. core = [st |-> core.st, address |-> core.address, misc |-> core.misc, lock |-> core.lock]
        BY DEF IInv, TypeOK
      <3> QED BY <2>1, <3>1
    <2>3. Live' = Live
      BY <2>1 DEF Live
    <2>4. CASE down = <<>>
      <3>1. End = core /\ End' = core'
        BY <2>1, <2>4, NothingToTake DEF End
      <3>2. MiscToSend' <=> MiscToSend
        BY <2>1, <2>2, <3>1, <2>4 DEF MiscToSend, Busy
      <3> QED BY <2>1, <2>2, <2>3, <3>1, <3>2 DEF MiscRight
    <2>5. CASE down # <<>>
      <3>1. Head(down).t = "reset" /\ down \in Seq(Tokens)
        BY <2>1, <2>5, Waiting DEF IInv, TypeOK
      <3>2. Took(widths.misc, core', Head(down)) = Took(widths.misc, core, Head(down))
        BY <3>1 DEF Took, Commands
      <3>3. Final(widths.misc, core', down) = Final(widths.misc, core, down)
        BY <2>5, <3>1, <3>2, TakesFirst
      <3>4. End' = End
        BY <2>1, <3>3 DEF End
      <3>5. MiscToSend' <=> MiscToSend
        BY <2>1, <3>4 DEF MiscToSend
      <3> QED BY <2>1, <2>2, <2>3, <3>4, <3>5 DEF MiscRight
    <2> QED BY <2>4, <2>5
  <1> QED BY <1>1, <1>2 DEF Core

LEMMA MiscInvariant ==
  ASSUME \A w \in Cores : w.misc # 10
  PROVE  Spec => [](IInv /\ MiscRight)
  <1>1. Init => MiscRight
    <2> SUFFICES ASSUME Init PROVE MiscRight
      OBVIOUS
    <2>1. core.misc = 0 /\ wanted = 0 /\ ~Live /\ widths.misc \in Nat
      BY BusAccessAssumption DEF Init, LinkInit, ResetCore, Live
    <2>2. Field(0, widths.misc) = 0
      BY <2>1, FieldOfField
    <2> QED BY <2>1, <2>2 DEF MiscRight
  <1>2. ASSUME IInv, MiscRight, [Next]_vars PROVE MiscRight'
    <2>1. CASE UNCHANGED vars
      <3>1. UNCHANGED <<open, gone, down, widths, core, wanted, call, todo>>
        BY <2>1 DEF vars, linkVars
      <3>2. End' = End /\ Live' = Live
        BY <3>1 DEF End, Live
      <3>3. MiscToSend' <=> MiscToSend
        BY <3>1, <3>2 DEF MiscToSend
      <3> QED BY <1>2, <3>1, <3>2, <3>3 DEF MiscRight
    <2>2. ASSUME ServerStep PROVE MiscRight'
      BY <1>2, <2>2, MiscUnplugged DEF ServerStep, ServerCloses, Live
    <2>3. widths.misc # 10
      BY <1>2 DEF IInv, TypeOK
    <2> QED BY <1>2, <2>1, <2>2, <2>3, MiscProgram, MiscLibrary, MiscCore DEF Next
  <1> QED BY <1>1, <1>2, Invariant, PTL DEF Spec

\* Between two calls the misc signals are, or will be, those that the program has set
\* last.  With ten of them, an AHB master with seven bits of hprot, they are not:
\* setHprotHsize() shifts the upper byte wrongly.
THEOREM MiscIsThere ==
  ASSUME \A w \in Cores : w.misc # 10
  PROVE  Spec => []MiscArrives
  <1>1. IInv /\ MiscRight => MiscArrives
    <2>1. SUFFICES ASSUME IInv, MiscRight, open, ~gone, call = "none"
                   PROVE  Field(AfterDown("M", core.misc), widths.misc) = wanted
      BY DEF MiscArrives, Connected
    <2>2. End.misc = wanted
      BY <2>1, MiscArrived DEF Live
    <2>3. \A i \in DOMAIN down : down[i].t # "reset"
      BY <2>1, BetweenCalls
    <2> QED BY <2>1, <2>2, <2>3, MiscAfter DEF MiscRight
  <1> QED BY <1>1, MiscInvariant, PTL

=============================================================================
