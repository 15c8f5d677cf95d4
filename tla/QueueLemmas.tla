---------------------------- MODULE QueueLemmas -----------------------------
(***************************************************************************)
(* Facts about the sequences that stand for queues, used by the proofs of  *)
(* the modules that contain them.                                          *)
(***************************************************************************)
EXTENDS Naturals, Sequences, SequencesExt, SequenceTheorems, WellFoundedInduction, TLAPS

\* A queue after its oldest item may have left, and after one may have come.
Left(s, gone) == IF gone THEN Tail(s) ELSE s
Came(s, x, come) == IF come THEN Append(s, x) ELSE s

\* Leaving shortens a queue by one and renumbers what stays.
LEMMA LeftProperties ==
    ASSUME NEW R, NEW s \in Seq(R), NEW gone \in BOOLEAN, gone => s # <<>>
    PROVE  /\ Left(s, gone) \in Seq(R)
           /\ gone => /\ Len(s) > 0
                      /\ Len(Left(s, gone)) = Len(s) - 1
                      /\ \A i \in 1 .. Len(s) - 1 : Left(s, gone)[i] = s[i + 1]
           /\ ~gone => Left(s, gone) = s
BY HeadTailProperties, EmptySeq DEF Left

\* Coming lengthens a queue by one and renumbers nothing.
LEMMA CameProperties ==
    ASSUME NEW R, NEW s \in Seq(R), NEW x \in R, NEW come \in BOOLEAN
    PROVE  /\ Came(s, x, come) \in Seq(R)
           /\ come => /\ Len(Came(s, x, come)) = Len(s) + 1
                      /\ \A i \in 1 .. Len(s) : Came(s, x, come)[i] = s[i]
                      /\ Came(s, x, come)[Len(s) + 1] = x
           /\ ~come => Came(s, x, come) = s
BY DEF Came

\* What leaves a concatenation leaves its first part, if there is something in it.
LEMMA LeftOfConcat ==
    ASSUME NEW R, NEW s \in Seq(R), NEW t \in Seq(R), NEW gone \in BOOLEAN, gone => s # <<>>
    PROVE  /\ Left(s \o t, gone) = Left(s, gone) \o t
           /\ gone => Head(s \o t) = Head(s) /\ s \o t # <<>>
<1>1. CASE ~gone
  BY <1>1 DEF Left
<1>2. CASE gone
  <2> DEFINE st == s \o t
             a == Tail(st)
             b == Tail(s) \o t
  <2>1. /\ s # <<>> /\ Len(s) \in Nat /\ Len(t) \in Nat /\ Len(s) > 0
    BY <1>2, LenProperties, EmptySeq
  <2>2. /\ st \in Seq(R) /\ Len(st) = Len(s) + Len(t)
        /\ \A i \in 1 .. Len(s) + Len(t) : st[i] = IF i <= Len(s) THEN s[i] ELSE t[i - Len(s)]
    BY ConcatProperties
  <2>3. st # <<>>
    BY <2>1, <2>2, EmptySeq
  <2>4. /\ Tail(s) \in Seq(R) /\ Len(Tail(s)) = Len(s) - 1
        /\ \A i \in 1 .. Len(s) - 1 : Tail(s)[i] = s[i + 1]
    BY <2>1, HeadTailProperties
  <2>5. /\ b \in Seq(R) /\ Len(b) = Len(s) - 1 + Len(t)
        /\ \A i \in 1 .. Len(s) - 1 + Len(t) :
              b[i] = IF i <= Len(s) - 1 THEN Tail(s)[i] ELSE t[i - (Len(s) - 1)]
    BY <2>4, ConcatProperties
  <2> HIDE DEF st
  <2>6. /\ a \in Seq(R) /\ Len(a) = Len(st) - 1
        /\ \A i \in 1 .. Len(st) - 1 : a[i] = st[i + 1]
    BY <2>2, <2>3, HeadTailProperties
  <2> HIDE DEF a, b
  <2>7. Len(a) = Len(b)
    BY <2>1, <2>2, <2>5, <2>6
  <2>8. ASSUME NEW i \in 1 .. Len(a) PROVE a[i] = b[i]
    <3>1. i \in Nat /\ i >= 1 /\ i <= Len(s) - 1 + Len(t)
      BY <2>1, <2>2, <2>6
    <3>2. a[i] = IF i + 1 <= Len(s) THEN s[i + 1] ELSE t[i + 1 - Len(s)]
      BY <2>1, <2>2, <2>6, <3>1
    <3>3. CASE i + 1 <= Len(s)
      BY <2>1, <2>4, <2>5, <3>1, <3>2, <3>3
    <3>4. CASE ~(i + 1 <= Len(s))
      <4>1. i - (Len(s) - 1) = i + 1 - Len(s) /\ ~(i <= Len(s) - 1)
        BY <2>1, <3>1, <3>4
      <4> QED BY <2>1, <2>5, <3>1, <3>2, <3>4, <4>1
    <3> QED BY <3>3, <3>4
  <2>9. a = b
    BY <2>5, <2>6, <2>7, <2>8, SeqEqual
  <2>10. Head(st) = st[1] /\ Head(s) = s[1] /\ st[1] = s[1]
    BY <2>1, <2>2
  <2> QED BY <1>2, <2>3, <2>9, <2>10, Zenon DEF Left, st, a, b
<1> QED BY <1>1, <1>2

-----------------------------------------------------------------------------
(* The two queues of a memory port.                                        *)

\* What MemPort!Cycle makes of the queues todo and done.
Possible(todo, done, reqs, perform, ack) ==
    /\ perform => todo \o reqs # <<>>
    /\ ack => done # <<>>
TodoNext(todo, reqs, perform) == Left(todo \o reqs, perform)
Given(todo, reqs, perform) == IF perform THEN <<Head(todo \o reqs)>> ELSE <<>>
DoneNext(todo, done, reqs, perform, ack) ==
    Left(done, ack) \o Given(todo, reqs, perform)

\* A request performed goes from one queue to the other.
LEMMA TodoLength ==
    ASSUME NEW R, NEW todo \in Seq(R), NEW reqs \in Seq(R), NEW done,
           NEW perform \in BOOLEAN, NEW ack,
           Possible(todo, done, reqs, perform, ack)
    PROVE  /\ TodoNext(todo, reqs, perform) \in Seq(R)
           /\ Given(todo, reqs, perform) \in Seq(R)
           /\ Len(TodoNext(todo, reqs, perform)) + Len(Given(todo, reqs, perform))
                = Len(todo) + Len(reqs)
<1> DEFINE queued == todo \o reqs
<1>1. queued \in Seq(R) /\ Len(queued) = Len(todo) + Len(reqs)
  BY ConcatProperties
<1>2. perform => queued # <<>>
  BY DEF Possible
<1>3. TodoNext(todo, reqs, perform) = Left(queued, perform)
  BY DEF TodoNext
<1>4. Given(todo, reqs, perform) = IF perform THEN <<Head(queued)>> ELSE <<>>
  BY DEF Given
<1>5. Len(todo) \in Nat /\ Len(reqs) \in Nat
  BY LenProperties
<1> HIDE DEF queued
<1>6. CASE perform
  <2>1. /\ Left(queued, perform) \in Seq(R)
        /\ Len(Left(queued, perform)) = Len(queued) - 1
    BY <1>1, <1>2, <1>6, LeftProperties
  <2>2. <<Head(queued)>> \in Seq(R) /\ Len(<<Head(queued)>>) = 1
    BY <1>1, <1>2, <1>6, HeadTailProperties
  <2>3. ASSUME NEW n \in Nat PROVE (n - 1) + 1 = n
    OBVIOUS
  <2>4. TodoNext(todo, reqs, perform) \in Seq(R) /\ Given(todo, reqs, perform) \in Seq(R)
    BY <1>3, <1>4, <1>6, <2>1, <2>2, Zenon
  <2>5. Len(queued) \in Nat
    BY <1>1, LenProperties
  <2>6. (Len(queued) - 1) + 1 = Len(todo) + Len(reqs)
    BY <1>1, <2>3, <2>5, Zenon
  <2> QED BY <1>3, <1>4, <1>6, <2>1, <2>2, <2>4, <2>6, Zenon
<1>7. CASE ~perform
  <2>1. Left(queued, perform) = queued
    BY <1>1, <1>7, LeftProperties
  <2>2. Given(todo, reqs, perform) \in Seq(R) /\ Len(Given(todo, reqs, perform)) = 0
    BY <1>4, <1>7, EmptySeq
  <2> QED BY <1>1, <1>3, <1>5, <2>1, <2>2
<1> QED BY <1>6, <1>7

\* Together the two queues grow by the request accepted and shrink by the one
\* acknowledged.
LEMMA CycleLengths ==
    ASSUME NEW R, NEW todo \in Seq(R), NEW done \in Seq(R), NEW reqs \in Seq(R),
           NEW perform \in BOOLEAN, NEW ack \in BOOLEAN,
           Possible(todo, done, reqs, perform, ack)
    PROVE  LET t == TodoNext(todo, reqs, perform)
               d == DoneNext(todo, done, reqs, perform, ack)
           IN  /\ t \in Seq(R) /\ d \in Seq(R)
               /\ ack => Len(t) + Len(d) = Len(todo) + Len(done) + Len(reqs) - 1
               /\ ~ack => Len(t) + Len(d) = Len(todo) + Len(done) + Len(reqs)
<1> DEFINE t == TodoNext(todo, reqs, perform)
           g == Given(todo, reqs, perform)
           l == Left(done, ack)
           d == DoneNext(todo, done, reqs, perform, ack)
<1>1. t \in Seq(R) /\ g \in Seq(R) /\ Len(t) + Len(g) = Len(todo) + Len(reqs)
  BY TodoLength
<1>2. ack => done # <<>>
  BY DEF Possible
<1>3. /\ l \in Seq(R)
      /\ ack => Len(l) = Len(done) - 1
      /\ ~ack => Len(l) = Len(done)
  BY <1>2, LeftProperties
<1>4. d = l \o g
  BY DEF DoneNext
<1> HIDE DEF t, g, l, d
<1>5. d \in Seq(R) /\ Len(d) = Len(l) + Len(g)
  BY <1>1, <1>3, <1>4, ConcatProperties
<1>6. /\ Len(todo) \in Nat /\ Len(done) \in Nat /\ Len(reqs) \in Nat
      /\ Len(t) \in Nat /\ Len(g) \in Nat /\ Len(l) \in Nat /\ Len(d) \in Nat
  BY <1>1, <1>3, <1>5, LenProperties
<1> DEFINE nt == Len(t) ng == Len(g) nl == Len(l) nd == Len(d)
           x == Len(todo) y == Len(reqs) z == Len(done)
<1>7. /\ nt + ng = x + y
      /\ nd = nl + ng
      /\ nt \in Nat /\ ng \in Nat /\ nl \in Nat /\ nd \in Nat
      /\ x \in Nat /\ y \in Nat /\ z \in Nat
  BY <1>1, <1>5, <1>6
<1>8. /\ nl = z - 1 => nt + nd = x + z + y - 1
      /\ nl = z => nt + nd = x + z + y
  <2> HIDE DEF nt, ng, nl, nd, x, y, z
  <2> QED BY <1>7
<1> QED BY <1>1, <1>3, <1>5, <1>8, Zenon DEF t, d

-----------------------------------------------------------------------------
(* The items of a queue of queues, one after the other: FlattenSeq.        *)

\* A set that contains 0 and the successor of each of its numbers contains all
\* natural numbers.  The induction theorems of the library take a predicate; a
\* set is what the provers can be given.
LEMMA SetInduction ==
    ASSUME NEW N, 0 \in N, \A n \in Nat : n \in N => n + 1 \in N
    PROVE  Nat \subseteq N
<1> DEFINE Less == OpToRel(<, Nat)
           Missing == Nat \ N
<1>1. IsWellFoundedOn(Less, Nat)
  BY NatLessThanWellFounded
<1>2. Missing \subseteq Nat
  OBVIOUS
<1>3. \A m, n \in Nat : m < n => <<m, n>> \in Less
  BY DEF OpToRel
<1> HIDE DEF Less
<1>4. SUFFICES ASSUME Missing # {} PROVE FALSE
  BY Zenon
<1> HIDE DEF Missing
<1>5. PICK least \in Missing : \A n \in Missing : <<n, least>> \notin Less
  BY <1>1, <1>2, <1>4, WFMin, Zenon
<1> USE DEF Missing
<1>6. least \in Nat /\ least # 0
  BY <1>5
<1>7. least - 1 \in Nat /\ least - 1 < least /\ (least - 1) + 1 = least
  BY <1>6
<1>8. least - 1 \notin Missing
  BY <1>3, <1>5, <1>6, <1>7
<1> QED BY <1>5, <1>7, <1>8

\* The largest of some numbers.
LEMMA MaxIs ==
    ASSUME NEW s, NEW m \in s, s \subseteq Nat, \A x \in s : x <= m
    PROVE  Max(s) = m
<1>1. \E x \in s : \A y \in s : x >= y
  OBVIOUS
<1>2. Max(s) \in s /\ \A y \in s : Max(s) >= y
  BY <1>1, Zenon DEF Max
<1>3. PICK most : most = Max(s)
  OBVIOUS
<1>4. most \in Nat /\ m \in Nat /\ most <= m /\ most >= m
  BY <1>2, <1>3
<1> QED BY <1>3, <1>4

\* What FlattenSeq computes on the way: the first i queues of s, flattened.
Item(g, s, i) == IF i = 1 THEN s[i] ELSE g[i - 1] \o s[i]
Flattens(g, s, n) == \A i \in 1 .. n : g[i] = Item(g, s, i)
Agree(s, t, n) == \A i \in 1 .. n : s[i] = t[i]

\* There is such a function.
LEMMA FlattenDefined ==
    ASSUME NEW s, NEW n \in Nat
    PROVE  \E g : g = [i \in 1 .. n |-> Item(g, s, i)]
<1> DEFINE N == {m \in Nat : \E g : g = [i \in 1 .. m |-> Item(g, s, i)]}
<1>1. 0 \in N
  <2> DEFINE g == [i \in 1 .. 0 |-> s]
  <2>1. g = [i \in 1 .. 0 |-> Item(g, s, i)]
    OBVIOUS
  <2> QED BY <2>1
<1>2. ASSUME NEW m \in Nat, m \in N PROVE m + 1 \in N
  <2>1. PICK g : g = [i \in 1 .. m |-> Item(g, s, i)]
    BY <1>2
  <2> DEFINE h == [i \in 1 .. m + 1 |-> IF i = m + 1 THEN Item(g, s, i) ELSE g[i]]
  <2>2. ASSUME NEW i \in 1 .. m + 1 PROVE h[i] = Item(h, s, i)
    <3>1. CASE i = 1
      BY <2>1, <3>1 DEF Item
    <3>2. CASE i # 1
      <4>1. i - 1 \in 1 .. m /\ h[i - 1] = g[i - 1]
        BY <3>2
      <4>2. h[i] = Item(g, s, i)
        BY <2>1
      <4> QED BY <3>2, <4>1, <4>2 DEF Item
    <3> QED BY <3>1, <3>2
  <2>3. h = [i \in 1 .. m + 1 |-> Item(h, s, i)]
    <3>1. h = [i \in 1 .. m + 1 |-> h[i]]
      OBVIOUS
    <3> HIDE DEF h
    <3> QED BY <2>2, <3>1
  <2> HIDE DEF h
  <2> QED BY <2>3
<1> HIDE DEF N
<1>3. n \in N
  BY <1>1, <1>2, SetInduction
<1> QED BY <1>3 DEF N

\* FlattenSeq is the last value of it.
LEMMA FlattenIs ==
    ASSUME NEW s, Len(s) \in Nat, Len(s) # 0
    PROVE  \E g : Flattens(g, s, Len(s)) /\ FlattenSeq(s) = g[Len(s)]
<1> DEFINE Is(g) == g = [i \in 1 .. Len(s) |-> Item(g, s, i)]
<1>1. \E g : Is(g)
  BY FlattenDefined
<1>2. FlattenSeq(s) = (CHOOSE g : Is(g))[Len(s)]
  BY DEF FlattenSeq, Item
<1> QED BY <1>1, <1>2 DEF Flattens

\* The values depend on the queues before alone.
LEMMA FlattenUnique ==
    ASSUME NEW s, NEW t, NEW g, NEW h, NEW n \in Nat,
           Agree(s, t, n), Flattens(g, s, n), Flattens(h, t, n)
    PROVE  Agree(g, h, n)
<1> DEFINE N == {m \in Nat : m \in 1 .. n => g[m] = h[m]}
<1>1. 0 \in N
  OBVIOUS
<1>2. ASSUME NEW m \in Nat, m \in N PROVE m + 1 \in N
  <2>1. SUFFICES ASSUME m + 1 \in 1 .. n PROVE g[m + 1] = h[m + 1]
    OBVIOUS
  <2>2. g[m + 1] = Item(g, s, m + 1) /\ h[m + 1] = Item(h, t, m + 1) /\ s[m + 1] = t[m + 1]
    BY <2>1 DEF Agree, Flattens
  <2>3. CASE m = 0
    BY <2>2, <2>3 DEF Item
  <2>4. CASE m # 0
    <3>1. m \in 1 .. n /\ (m + 1) - 1 = m /\ m + 1 # 1
      BY <2>1, <2>4
    <3>2. g[m] = h[m]
      BY <1>2, <3>1
    <3> QED BY <2>2, <3>1, <3>2, Zenon DEF Item
  <2> QED BY <2>3, <2>4
<1> HIDE DEF N
<1>3. Nat \subseteq N
  BY <1>1, <1>2, SetInduction
<1> QED BY <1>3 DEF N, Agree

\* What FlattenSeq makes of the empty queue, and of one item more.
LEMMA FlattenAppend ==
    ASSUME NEW R, NEW s \in Seq(Seq(R)), NEW x \in Seq(R), FlattenSeq(s) \in Seq(R)
    PROVE  FlattenSeq(Append(s, x)) = FlattenSeq(s) \o x
<1> DEFINE t == Append(s, x)
           n == Len(s)
<1>1. /\ n \in Nat /\ Len(t) = n + 1 /\ t[n + 1] = x
      /\ \A i \in 1 .. n : t[i] = s[i]
  BY AppendProperties, LenProperties
<1> HIDE DEF t
<1>2. PICK h : Flattens(h, t, n + 1) /\ FlattenSeq(t) = h[n + 1]
  <2>1. Len(t) \in Nat /\ Len(t) # 0
    BY <1>1
  <2> QED BY <1>1, <2>1, FlattenIs
<1>3. h[n + 1] = Item(h, t, n + 1)
  BY <1>1, <1>2 DEF Flattens
<1>4. CASE n = 0
  <2>1. FlattenSeq(s) = <<>>
    BY <1>4, EmptySeq DEF FlattenSeq
  <2>2. h[n + 1] = x
    BY <1>1, <1>3, <1>4 DEF Item
  <2> QED BY <1>2, <2>1, <2>2, ConcatEmptySeq DEF t
<1>5. CASE n # 0
  <2>1. PICK g : Flattens(g, s, n) /\ FlattenSeq(s) = g[n]
    BY <1>1, <1>5, FlattenIs
  <2>2. Flattens(h, t, n) /\ Agree(s, t, n)
    BY <1>1, <1>2 DEF Flattens, Agree
  <2>3. h[n] = g[n]
    <3> HIDE DEF n
    <3>1. n \in Nat /\ n \in 1 .. n
      BY <1>1, <1>5
    <3>2. Agree(g, h, n)
      BY <2>1, <2>2, <3>1, FlattenUnique, Zenon
    <3> QED BY <3>1, <3>2 DEF Agree
  <2>4. n + 1 # 1 /\ (n + 1) - 1 = n
    BY <1>1, <1>5
  <2> QED BY <1>1, <1>2, <1>3, <2>1, <2>3, <2>4, Zenon DEF Item, t
<1> QED BY <1>4, <1>5

\* Of queues of R it makes a queue of R.
LEMMA FlattenType ==
    ASSUME NEW R, NEW s \in Seq(Seq(R)) PROVE FlattenSeq(s) \in Seq(R)
<1> DEFINE N == {m \in Nat : \A t \in Seq(Seq(R)) : Len(t) = m => FlattenSeq(t) \in Seq(R)}
<1>1. 0 \in N
  <2>1. ASSUME NEW t \in Seq(Seq(R)), Len(t) = 0 PROVE FlattenSeq(t) \in Seq(R)
    <3>1. t = <<>>
      BY <2>1, EmptySeq
    <3>2. <<>> \in Seq(R)
      OBVIOUS
    <3> QED BY <2>1, <3>1, <3>2, Zenon DEF FlattenSeq
  <2> QED BY <2>1
<1>2. ASSUME NEW m \in Nat, m \in N PROVE m + 1 \in N
  <2>1. ASSUME NEW t \in Seq(Seq(R)), Len(t) = m + 1 PROVE FlattenSeq(t) \in Seq(R)
    <3>1. t # <<>>
      BY <2>1, EmptySeq
    <3>2. PICK u \in Seq(Seq(R)), x \in Seq(R) : t = Append(u, x)
      BY <3>1, SequenceEmptyOrAppend
    <3>3. Len(u) = m
      BY <2>1, <3>2, AppendProperties, LenProperties
    <3>4. FlattenSeq(u) \in Seq(R)
      BY <1>2, <3>3
    <3>5. FlattenSeq(t) = FlattenSeq(u) \o x
      BY <3>2, <3>4, FlattenAppend
    <3> QED BY <3>4, <3>5, ConcatProperties
  <2> QED BY <2>1
<1> HIDE DEF N
<1>3. Len(s) \in N
  BY <1>1, <1>2, SetInduction, LenProperties
<1> QED BY <1>3 DEF N

\* FlattenSeq takes the first queue apart from the rest.
LEMMA FlattenHead ==
    ASSUME NEW R, NEW s \in Seq(Seq(R)), s # <<>>
    PROVE  FlattenSeq(s) = Head(s) \o FlattenSeq(Tail(s))
<1> DEFINE Split(t) == FlattenSeq(t) = Head(t) \o FlattenSeq(Tail(t))
           N == {m \in Nat : \A t \in Seq(Seq(R)) : Len(t) = m + 1 => Split(t)}
<1>1. \A t \in Seq(Seq(R)), x \in Seq(R) :
          FlattenSeq(Append(t, x)) = FlattenSeq(t) \o x
  BY FlattenType, FlattenAppend
<1>2. FlattenSeq(<<>>) = <<>>
  BY DEF FlattenSeq
<1>3. \A a, b, c \in Seq(R) : (a \o b) \o c = a \o (b \o c)
  <2> TAKE a, b, c \in Seq(R)
  <2> QED BY ConcatAssociative, SMTT(30)
<1>4. ASSUME NEW t \in Seq(Seq(R)), NEW m \in Nat, Len(t) = m + 1
      PROVE  \E u \in Seq(Seq(R)), x \in Seq(R) : t = Append(u, x) /\ Len(u) = m
  <2>1. t # <<>>
    BY <1>4, EmptySeq
  <2>2. PICK u \in Seq(Seq(R)), x \in Seq(R) : t = Append(u, x)
    BY <2>1, SequenceEmptyOrAppend
  <2>3. Len(u) = m
    BY <1>4, <2>2, AppendProperties, LenProperties
  <2> QED BY <2>2, <2>3
<1>5. 0 \in N
  <2>1. ASSUME NEW t \in Seq(Seq(R)), Len(t) = 0 + 1 PROVE Split(t)
    <3>1. PICK u \in Seq(Seq(R)), x \in Seq(R) : t = Append(u, x) /\ Len(u) = 0
      BY <1>4, <2>1
    <3>2. u = <<>>
      BY <3>1, EmptySeq
    <3>3. FlattenSeq(t) = x
      <4>1. FlattenSeq(t) = <<>> \o x
        BY <1>1, <1>2, <3>1, <3>2, Zenon
      <4> QED BY <4>1, ConcatEmptySeq
    <3>4. Head(t) = x /\ Tail(t) = <<>>
      BY <3>1, <3>2, HeadTailAppend
    <3> QED BY <1>2, <3>3, <3>4, ConcatEmptySeq
  <2> QED BY <2>1
<1>6. ASSUME NEW m \in Nat, m \in N PROVE m + 1 \in N
  <2>1. ASSUME NEW t \in Seq(Seq(R)), Len(t) = (m + 1) + 1 PROVE Split(t)
    <3>1. PICK u \in Seq(Seq(R)), x \in Seq(R) : t = Append(u, x) /\ Len(u) = m + 1
      <4>1. m + 1 \in Nat
        OBVIOUS
      <4> QED BY <1>4, <2>1, <4>1, Zenon
    <3>2. u # <<>>
      BY <3>1, EmptySeq
    <3>3. Head(u) \in Seq(R) /\ Tail(u) \in Seq(Seq(R))
      BY <3>2, HeadTailProperties
    <3>4. Head(t) = Head(u) /\ Tail(t) = Append(Tail(u), x)
      BY <3>1, <3>2, HeadTailAppend
    <3>5. FlattenSeq(u) = Head(u) \o FlattenSeq(Tail(u))
      BY <1>6, <3>1
    <3>6. FlattenSeq(t) = (Head(u) \o FlattenSeq(Tail(u))) \o x
      BY <1>1, <3>1, <3>5
    <3>7. FlattenSeq(Tail(t)) = FlattenSeq(Tail(u)) \o x
      BY <1>1, <3>3, <3>4
    <3>8. (Head(u) \o FlattenSeq(Tail(u))) \o x = Head(u) \o (FlattenSeq(Tail(u)) \o x)
      <4>1. FlattenSeq(Tail(u)) \in Seq(R)
        BY <3>3, FlattenType
      <4> QED BY <1>3, <3>3, <4>1, Zenon
    <3> QED BY <3>4, <3>6, <3>7, <3>8
  <2> QED BY <2>1
<1> HIDE DEF N, Split
<1>7. Len(s) - 1 \in Nat /\ Len(s) = (Len(s) - 1) + 1
  BY LenProperties, EmptySeq
<1>8. Len(s) - 1 \in N
  BY <1>5, <1>6, <1>7, SetInduction
<1>9. Split(s)
  BY <1>7, <1>8 DEF N
<1> QED BY <1>9 DEF Split

-----------------------------------------------------------------------------
(* Frames in a queue of bytes, each behind its length in two bytes.        *)

\* The first of a queue in front of another.
LEMMA FirstOfConcat ==
    ASSUME NEW r \in Seq(Nat), NEW t \in Seq(Nat), r # <<>>
    PROVE  /\ r \o t # <<>> /\ Head(r \o t) = Head(r) /\ Tail(r \o t) = Tail(r) \o t
           /\ Head(r) \in Nat /\ Tail(r) \in Seq(Nat) /\ Len(Tail(r)) = Len(r) - 1
           /\ r = <<Head(r)>> \o Tail(r)
<1>1. Left(r \o t, TRUE) = Left(r, TRUE) \o t /\ Head(r \o t) = Head(r) /\ r \o t # <<>>
  <2>1. TRUE \in BOOLEAN
    OBVIOUS
  <2> QED BY <2>1, LeftOfConcat
<1>2. Tail(r \o t) = Tail(r) \o t
  BY <1>1 DEF Left
<1>3. Head(r) \in Nat /\ Tail(r) \in Seq(Nat) /\ Len(Tail(r)) = Len(r) - 1
  BY HeadTailProperties
<1>4. r = <<Head(r)>> \o Tail(r)
  <2> DEFINE u == <<Head(r)>> \o Tail(r)
  <2>1. <<Head(r)>> \in Seq(Nat) /\ Len(<<Head(r)>>) = 1 /\ <<Head(r)>>[1] = Head(r)
    BY <1>3
  <2>2. /\ u \in Seq(Nat) /\ Len(u) = 1 + (Len(r) - 1)
        /\ \A k \in 1 .. 1 + (Len(r) - 1) :
              u[k] = IF k <= 1 THEN <<Head(r)>>[k] ELSE Tail(r)[k - 1]
    BY <1>3, <2>1, ConcatProperties
  <2>3. Len(r) \in Nat /\ \A k \in 1 .. Len(r) - 1 : Tail(r)[k] = r[k + 1]
    BY LenProperties, HeadTailProperties
  <2> HIDE DEF u
  <2>4. Len(u) = Len(r)
    BY <2>2, <2>3
  <2>5. ASSUME NEW k \in 1 .. Len(r) PROVE u[k] = r[k]
    <3>1. CASE k = 1
      <4>1. r[1] = Head(r) /\ u[1] = Head(r)
        BY <2>1, <2>2, <2>3, <3>1
      <4> QED BY <3>1, <4>1
    <3>2. CASE k # 1
      <4>1. k - 1 \in 1 .. Len(r) - 1 /\ (k - 1) + 1 = k /\ ~(k <= 1) /\ k \in 1 .. 1 + (Len(r) - 1)
        BY <2>3, <3>2
      <4>2. u[k] = Tail(r)[k - 1]
        BY <2>2, <4>1
      <4>3. Tail(r)[k - 1] = r[(k - 1) + 1]
        BY <2>3, <4>1
      <4> QED BY <4>1, <4>2, <4>3
    <3> QED BY <3>1, <3>2
  <2>6. u = r
    BY <2>2, <2>4, <2>5, SeqEqual
  <2> QED BY <2>6 DEF u
<1> QED BY <1>1, <1>2, <1>3, <1>4

\* Of several queues it does not matter which are put together first.
LEMMA BytesAssociate == \A u, v, w \in Seq(Nat) : (u \o v) \o w = u \o (v \o w)
<1> TAKE u, v, w \in Seq(Nat)
<1> QED BY ConcatAssociative, SMTT(30)

\* A frame behind its length, in bytes below base; and several frames.
Coded(base, f) == <<Len(f) \div base, Len(f) % base>> \o f
Codes(base, fs) == [k \in 1 .. Len(fs) |-> Coded(base, fs[k])]
AllCoded(base, fs) == FlattenSeq(Codes(base, fs))

\* The two bytes are numbers and give the length.
LEMMA CodedProperties ==
    ASSUME NEW base \in Nat \ {0}, NEW f \in Seq(Nat)
    PROVE  /\ Len(f) \in Nat
           /\ Len(f) \div base \in Nat /\ Len(f) % base \in Nat
           /\ (Len(f) \div base) * base + (Len(f) % base) = Len(f)
           /\ Coded(base, f) \in Seq(Nat)
           /\ Coded(base, f) = <<Len(f) \div base>> \o (<<Len(f) % base>> \o f)
<1> DEFINE n == Len(f)
<1>1. n \in Nat
  BY LenProperties
<1> HIDE DEF n
<1>2. n \div base \in Nat /\ n % base \in Nat /\ (n \div base) * base + (n % base) = n
  <2>1. n \div base \in Nat /\ n % base \in Nat
    BY <1>1
  <2>2. base * (n \div base) + (n % base) = n
    BY <1>1, Z3
  <2>3. \A x \in Nat : base * x = x * base
    OBVIOUS
  <2> QED BY <2>1, <2>2, <2>3, Zenon
<1> DEFINE high == n \div base
           low == n % base
<1>3. Coded(base, f) = <<high, low>> \o f
  BY DEF Coded, n
<1> HIDE DEF high, low
<1>4. high \in Nat /\ low \in Nat
  BY <1>2 DEF high, low
<1>5. /\ <<high, low>> = <<high>> \o <<low>>
      /\ <<high>> \in Seq(Nat) /\ <<low>> \in Seq(Nat)
  <2>1. <<high>> \in Seq(Nat) /\ <<low>> \in Seq(Nat) /\ <<high, low>> = Append(<<high>>, low)
    BY <1>4
  <2> QED BY <1>4, <2>1, AppendIsConcat
<1>6. <<high, low>> \o f = <<high>> \o (<<low>> \o f)
  BY <1>5, ConcatAssociative
<1>7. <<high>> \o (<<low>> \o f) \in Seq(Nat)
  BY <1>5, ConcatProperties
<1> QED BY <1>1, <1>2, <1>3, <1>6, <1>7 DEF high, low, n

\* Nothing is sent for no frame.
LEMMA AllCodedNone == ASSUME NEW base PROVE AllCoded(base, <<>>) = <<>>
<1> DEFINE m == [k \in 1 .. 0 |-> Coded(base, <<>>[k])]
<1>1. m \in Seq(Nat) /\ Len(m) = 0
  BY IsASeq
<1>2. m = <<>>
  BY <1>1, EmptySeq
<1>3. AllCoded(base, <<>>) = FlattenSeq(m)
  <2>1. Len(<<>>) = 0
    OBVIOUS
  <2>2. AllCoded(base, <<>>) = FlattenSeq([k \in 1 .. Len(<<>>) |-> Coded(base, <<>>[k])])
    BY DEF AllCoded, Codes
  <2> QED BY <2>1, <2>2
<1> QED BY <1>2, <1>3 DEF FlattenSeq

\* It is a queue of queues of bytes.
LEMMA CodesSeq ==
    ASSUME NEW base \in Nat \ {0}, NEW fs \in Seq(Seq(Nat))
    PROVE  Codes(base, fs) \in Seq(Seq(Nat)) /\ Len(Codes(base, fs)) = Len(fs)
<1>1. ASSUME NEW k \in 1 .. Len(fs) PROVE Coded(base, fs[k]) \in Seq(Nat)
  BY ElementOfSeq, CodedProperties
<1> QED BY <1>1, IsASeq, LenProperties DEF Codes

\* The bytes of several frames are bytes.
LEMMA AllCodedBytes ==
    ASSUME NEW base \in Nat \ {0}, NEW fs \in Seq(Seq(Nat)) PROVE AllCoded(base, fs) \in Seq(Nat)
<1>1. AllCoded(base, fs) = FlattenSeq(Codes(base, fs))
  BY DEF AllCoded
<1> QED BY <1>1, CodesSeq, FlattenType

\* A frame that arrives comes behind those in the FIFO.
LEMMA AllCodedAppend ==
    ASSUME NEW base \in Nat \ {0}, NEW fs \in Seq(Seq(Nat)), NEW f \in Seq(Nat)
    PROVE  AllCoded(base, Append(fs, f)) = AllCoded(base, fs) \o Coded(base, f)
<1> DEFINE gs == Append(fs, f)
           c == Codes(base, fs)
           n == Len(fs)
<1>1. /\ gs \in Seq(Seq(Nat)) /\ Len(gs) = n + 1 /\ n \in Nat
      /\ \A k \in 1 .. n : gs[k] = fs[k]
      /\ gs[n + 1] = f
  BY AppendProperties, LenProperties
<1>2. c \in Seq(Seq(Nat)) /\ Len(c) = n
  BY CodesSeq
<1>3. Coded(base, f) \in Seq(Nat)
  BY CodedProperties
<1> DEFINE d == Append(c, Coded(base, f))
<1>4. /\ d \in Seq(Seq(Nat)) /\ Len(d) = n + 1 /\ d[n + 1] = Coded(base, f)
      /\ \A k \in 1 .. n : d[k] = c[k]
  BY <1>2, <1>3, AppendProperties
<1>5. Codes(base, gs) \in Seq(Seq(Nat)) /\ Len(Codes(base, gs)) = n + 1
  BY <1>1, CodesSeq
<1> HIDE DEF gs, d
<1>6. ASSUME NEW k \in 1 .. n + 1 PROVE Codes(base, gs)[k] = d[k]
  <2>1. Codes(base, gs)[k] = Coded(base, gs[k])
    BY <1>1 DEF Codes
  <2>2. CASE k = n + 1
    BY <1>1, <1>4, <2>1, <2>2
  <2>3. CASE k # n + 1
    <3>1. k \in 1 .. n
      BY <1>1, <2>3
    <3>2. c[k] = Coded(base, fs[k])
      BY <3>1 DEF Codes
    <3> QED BY <1>1, <1>4, <2>1, <3>1, <3>2
  <2> QED BY <2>2, <2>3
<1>7. Codes(base, gs) = d
  BY <1>4, <1>5, <1>6, SeqEqual
<1>8. FlattenSeq(c) \in Seq(Nat)
  BY <1>2, FlattenType
<1>9. FlattenSeq(Append(c, Coded(base, f))) = FlattenSeq(c) \o Coded(base, f)
  BY <1>2, <1>3, <1>8, FlattenAppend
<1>10. AllCoded(base, gs) = FlattenSeq(Codes(base, gs)) /\ AllCoded(base, fs) = FlattenSeq(c)
  BY DEF AllCoded
<1> QED BY <1>7, <1>9, <1>10, Zenon DEF gs, d

\* The oldest frame comes before the others.
LEMMA AllCodedHead ==
    ASSUME NEW base \in Nat \ {0}, NEW fs \in Seq(Seq(Nat)), fs # <<>>
    PROVE  AllCoded(base, fs) = Coded(base, Head(fs)) \o AllCoded(base, Tail(fs))
<1> DEFINE c == Codes(base, fs)
           gs == Tail(fs)
<1>1. /\ c \in Seq(Seq(Nat)) /\ Len(c) = Len(fs) /\ Len(fs) \in Nat /\ Len(fs) > 0
  <2>1. c \in Seq(Seq(Nat)) /\ Len(c) = Len(fs)
    BY CodesSeq
  <2>2. Len(fs) \in Nat
    BY LenProperties
  <2>3. Len(fs) # 0
    BY EmptySeq
  <2> QED BY <2>1, <2>2, <2>3
<1>2. c # <<>>
  BY <1>1, EmptySeq
<1>3. /\ gs \in Seq(Seq(Nat)) /\ Len(gs) = Len(fs) - 1
      /\ \A k \in 1 .. Len(fs) - 1 : gs[k] = fs[k + 1]
  BY HeadTailProperties
<1>4. Head(c) = Coded(base, Head(fs))
  <2>1. c[1] = Coded(base, fs[1])
    BY <1>1 DEF Codes
  <2>2. Head(c) = c[1] /\ Head(fs) = fs[1]
    OBVIOUS
  <2> QED BY <2>1, <2>2
<1>5. Codes(base, gs) \in Seq(Seq(Nat)) /\ Len(Codes(base, gs)) = Len(fs) - 1
  BY <1>3, CodesSeq
<1>6. /\ Tail(c) \in Seq(Seq(Nat)) /\ Len(Tail(c)) = Len(fs) - 1
      /\ \A k \in 1 .. Len(fs) - 1 : Tail(c)[k] = c[k + 1]
  BY <1>1, <1>2, HeadTailProperties
<1> HIDE DEF gs
<1>7. ASSUME NEW k \in 1 .. Len(fs) - 1 PROVE Codes(base, gs)[k] = Tail(c)[k]
  <2>1. k + 1 \in 1 .. Len(fs)
    BY <1>1
  <2>2. c[k + 1] = Coded(base, fs[k + 1])
    BY <2>1 DEF Codes
  <2>3. Codes(base, gs)[k] = Coded(base, gs[k])
    BY <1>3 DEF Codes
  <2> QED BY <1>3, <1>6, <2>2, <2>3
<1>8. Codes(base, gs) = Tail(c)
  BY <1>5, <1>6, <1>7, SeqEqual
<1> HIDE DEF c
<1>9. FlattenSeq(c) = Head(c) \o FlattenSeq(Tail(c))
  BY <1>1, <1>2, FlattenHead
<1>10. AllCoded(base, gs) = FlattenSeq(Codes(base, gs)) /\ AllCoded(base, fs) = FlattenSeq(c)
  BY DEF AllCoded, c
<1> QED BY <1>4, <1>8, <1>9, <1>10, Zenon DEF gs

\* What is behind the first of two queues.
LEMMA BehindFirst ==
    ASSUME NEW a \in Seq(Nat), NEW b \in Seq(Nat)
    PROVE  SubSeq(a \o b, 1 + Len(a), Len(a \o b)) = b
<1> DEFINE ab == a \o b
           m == Len(a)
           n == Len(b)
           s == SubSeq(ab, 1 + m, m + n)
<1>1. /\ m \in Nat /\ n \in Nat /\ ab \in Seq(Nat) /\ Len(ab) = m + n
      /\ \A k \in 1 .. m + n : ab[k] = IF k <= m THEN a[k] ELSE b[k - m]
  BY ConcatProperties, LenProperties
<1> HIDE DEF ab, m
<1>2. /\ s \in Seq(Nat)
      /\ Len(s) = IF 1 + m <= m + n THEN (m + n) - (1 + m) + 1 ELSE 0
      /\ \A k \in 1 .. (m + n) - (1 + m) + 1 : s[k] = ab[(1 + m) + k - 1]
  <2>1. \A k \in 1 + m .. m + n : ab[k] \in Nat
    <3>1. \A k \in 1 + m .. m + n : k \in 1 .. Len(ab)
      BY <1>1
    <3> QED BY <1>1, <3>1, ElementOfSeq
  <2>2. 1 + m \in Int /\ m + n \in Int
    BY <1>1
  <2> HIDE DEF n
  <2> QED BY <2>1, <2>2, SubSeqProperties
<1>3. (m + n) - (1 + m) + 1 = n
  BY <1>1
<1> HIDE DEF s
<1>4. Len(s) = n
  BY <1>1, <1>2, <1>3
<1>5. ASSUME NEW k \in 1 .. n PROVE s[k] = b[k]
  <2>1. s[k] = ab[(1 + m) + k - 1]
    BY <1>2, <1>3
  <2>2. (1 + m) + k - 1 = m + k /\ m + k \in 1 .. m + n /\ ~(m + k <= m) /\ (m + k) - m = k
    BY <1>1
  <2> QED BY <1>1, <2>1, <2>2
<1>6. s = b
  BY <1>2, <1>4, <1>5, SeqEqual
<1>7. Len(a \o b) = m + n
  BY <1>1 DEF ab
<1> QED BY <1>6, <1>7 DEF s, ab, m

\* What is between the first and the last of three queues.
LEMMA MiddleOf ==
    ASSUME NEW a \in Seq(Nat), NEW f \in Seq(Nat), NEW b \in Seq(Nat)
    PROVE  SubSeq((a \o f) \o b, Len(a) + 1, Len(a) + Len(f)) = f
<1> DEFINE fb == f \o b
           s == (a \o f) \o b
           m == Len(a)
           n == Len(f)
           t == SubSeq(s, m + 1, m + n)
<1>1. /\ m \in Nat /\ n \in Nat /\ Len(b) \in Nat
      /\ fb \in Seq(Nat) /\ Len(fb) = n + Len(b)
      /\ \A k \in 1 .. n + Len(b) : fb[k] = IF k <= n THEN f[k] ELSE b[k - n]
  BY ConcatProperties, LenProperties
<1>2. s = a \o fb
  BY BytesAssociate, Zenon
<1> HIDE DEF fb, s
<1>3. /\ s \in Seq(Nat) /\ Len(s) = m + Len(fb)
      /\ \A k \in 1 .. m + Len(fb) : s[k] = IF k <= m THEN a[k] ELSE fb[k - m]
  <2>1. /\ a \o fb \in Seq(Nat) /\ Len(a \o fb) = Len(a) + Len(fb)
        /\ \A k \in 1 .. Len(a) + Len(fb) :
              (a \o fb)[k] = IF k <= Len(a) THEN a[k] ELSE fb[k - Len(a)]
    <3>1. PICK g \in Seq(Nat) : g = fb
      BY <1>1
    <3>2. /\ a \o g \in Seq(Nat) /\ Len(a \o g) = Len(a) + Len(g)
          /\ \A k \in 1 .. Len(a) + Len(g) :
                (a \o g)[k] = IF k <= Len(a) THEN a[k] ELSE g[k - Len(a)]
      BY ConcatProperties
    <3> QED BY <3>1, <3>2, Zenon
  <2> QED BY <1>2, <2>1, Zenon DEF m
<1> HIDE DEF m, n
<1>4. /\ t \in Seq(Nat)
      /\ Len(t) = IF m + 1 <= m + n THEN (m + n) - (m + 1) + 1 ELSE 0
      /\ \A k \in 1 .. (m + n) - (m + 1) + 1 : t[k] = s[(m + 1) + k - 1]
  <2>1. \A k \in m + 1 .. m + n : s[k] \in Nat
    <3>1. \A k \in m + 1 .. m + n : k \in 1 .. Len(s)
      BY <1>1, <1>3
    <3> QED BY <1>3, <3>1, ElementOfSeq
  <2> DEFINE x == m + 1
             y == m + n
  <2>2. x \in Int /\ y \in Int /\ \A k \in x .. y : s[k] \in Nat
    BY <1>1, <2>1
  <2> HIDE DEF x, y
  <2>3. /\ SubSeq(s, x, y) \in Seq(Nat)
        /\ Len(SubSeq(s, x, y)) = IF x <= y THEN y - x + 1 ELSE 0
        /\ \A k \in 1 .. y - x + 1 : SubSeq(s, x, y)[k] = s[x + k - 1]
    BY <2>2, SubSeqProperties
  <2> QED BY <2>3 DEF x, y
<1>5. (m + n) - (m + 1) + 1 = n
  BY <1>1
<1> HIDE DEF t
<1>6. Len(t) = n
  BY <1>1, <1>4, <1>5
<1>7. ASSUME NEW k \in 1 .. n PROVE t[k] = f[k]
  <2>1. t[k] = s[(m + 1) + k - 1]
    BY <1>4, <1>5
  <2>2. (m + 1) + k - 1 = m + k /\ m + k \in 1 .. m + Len(fb) /\ ~(m + k <= m) /\ (m + k) - m = k
        /\ k \in 1 .. n + Len(b) /\ k <= n
    BY <1>1
  <2> QED BY <1>1, <1>3, <2>1, <2>2
<1>8. n = Len(f)
  BY DEF n
<1>9. t = f
  BY <1>4, <1>6, <1>7, <1>8, SeqEqual
<1> QED BY <1>9 DEF t, s, m, n

\* The oldest of several frames: its length, its bytes, and what is behind it.
FirstFrame(s, base, f, b) ==
    /\ s[1] * base + s[2] = Len(f) /\ Len(s) = 2 + Len(f) + Len(b)
    /\ SubSeq(s, 3, 2 + Len(f)) = f
    /\ SubSeq(s, 3 + Len(f), Len(s)) = b

LEMMA OldestCoded ==
    ASSUME NEW base \in Nat \ {0}, NEW f \in Seq(Nat), NEW b \in Seq(Nat)
    PROVE  FirstFrame(Coded(base, f) \o b, base, f, b)
<1> DEFINE s == Coded(base, f) \o b
<1> DEFINE n == Len(f)
           high == n \div base
           low == n % base
           p == <<high, low>>
           c == Coded(base, f)
<1>1. /\ n \in Nat /\ high \in Nat /\ low \in Nat /\ high * base + low = n
      /\ c \in Seq(Nat) /\ c = p \o f /\ Len(b) \in Nat
  <2>1. c = p \o f
    BY DEF Coded
  <2> QED BY <2>1, CodedProperties, LenProperties
<1> HIDE DEF n, high, low, c, s
<1>2. p \in Seq(Nat) /\ Len(p) = 2 /\ p[1] = high /\ p[2] = low
  BY <1>1
<1> HIDE DEF p
<1>3. Len(c) = 2 + n /\ c[1] = high /\ c[2] = low
  <2>1. /\ Len(p \o f) = Len(p) + Len(f)
        /\ \A k \in 1 .. Len(p) + Len(f) : (p \o f)[k] = IF k <= Len(p) THEN p[k] ELSE f[k - Len(p)]
    BY <1>2, ConcatProperties
  <2>2. Len(c) = 2 + n /\ \A k \in 1 .. 2 + n : c[k] = IF k <= 2 THEN p[k] ELSE f[k - 2]
    BY <1>1, <1>2, <2>1 DEF n
  <2>3. 1 \in 1 .. 2 + n /\ 2 \in 1 .. 2 + n
    BY <1>1
  <2> QED BY <1>2, <2>2, <2>3
<1>4. Len(s) = 2 + n + Len(b) /\ s[1] = high /\ s[2] = low
  <2>1. s = c \o b
    BY DEF c, s
  <2>2. /\ Len(s) = Len(c) + Len(b)
        /\ \A k \in 1 .. Len(c) + Len(b) : s[k] = IF k <= Len(c) THEN c[k] ELSE b[k - Len(c)]
    BY <1>1, <2>1, ConcatProperties
  <2>3. /\ Len(s) = 2 + n + Len(b)
        /\ \A k \in 1 .. 2 + n + Len(b) : s[k] = IF k <= 2 + n THEN c[k] ELSE b[k - (2 + n)]
    BY <1>3, <2>2
  <2>4. /\ 1 \in 1 .. 2 + n + Len(b) /\ 2 \in 1 .. 2 + n + Len(b)
        /\ 1 <= 2 + n /\ 2 <= 2 + n
    BY <1>1
  <2> QED BY <1>3, <2>3, <2>4
<1>5. SubSeq(s, 3, 2 + n) = f
  <2>1. SubSeq((p \o f) \o b, Len(p) + 1, Len(p) + Len(f)) = f
    BY <1>2, MiddleOf
  <2>2. s = (p \o f) \o b
    BY <1>1 DEF c, s
  <2>3. Len(p) + 1 = 3 /\ Len(p) + Len(f) = 2 + n
    BY <1>2 DEF n
  <2> QED BY <2>1, <2>2, <2>3, Zenon
<1>6. SubSeq(s, 3 + n, Len(s)) = b
  <2>1. SubSeq(c \o b, 1 + Len(c), Len(c \o b)) = b
    BY <1>1, BehindFirst
  <2>2. s = c \o b
    BY DEF c, s
  <2>3. 1 + Len(c) = 3 + n
    BY <1>1, <1>3
  <2> QED BY <2>1, <2>2, <2>3, Zenon
<1>7. FirstFrame(s, base, f, b)
  BY <1>1, <1>4, <1>5, <1>6 DEF n, FirstFrame
<1> QED BY <1>7 DEF s

\* What the first queue adds to the length.
LEMMA FlattenLength ==
    ASSUME NEW R, NEW s \in Seq(Seq(R)), s # <<>>
    PROVE  /\ Head(s) \in Seq(R) /\ Tail(s) \in Seq(Seq(R))
           /\ Len(FlattenSeq(s)) = Len(Head(s)) + Len(FlattenSeq(Tail(s)))
           /\ Len(FlattenSeq(s)) \in Nat /\ Len(FlattenSeq(Tail(s))) \in Nat
<1>1. Head(s) \in Seq(R) /\ Tail(s) \in Seq(Seq(R))
  BY HeadTailProperties
<1>2. FlattenSeq(s) \in Seq(R) /\ FlattenSeq(Tail(s)) \in Seq(R)
  BY <1>1, FlattenType
<1>3. FlattenSeq(s) = Head(s) \o FlattenSeq(Tail(s))
  BY FlattenHead
<1> QED BY <1>1, <1>2, <1>3, ConcatProperties, LenProperties

\* A single queue, flattened.
LEMMA FlattenSingle ==
    ASSUME NEW R, NEW s \in Seq(Seq(R)), Len(s) = 1
    PROVE  FlattenSeq(s) = s[1] /\ Head(s) = s[1] /\ s[1] \in Seq(R)
<1>1. s # <<>>
  <2>1. Len(<<>>) # 1
    OBVIOUS
  <2> QED BY <2>1, Zenon
<1>2. FlattenSeq(s) = Head(s) \o FlattenSeq(Tail(s))
  BY <1>1, FlattenHead
<1>3. Head(s) = s[1] /\ Head(s) \in Seq(R) /\ Tail(s) = <<>>
  <2>1. /\ Head(s) \in Seq(R) /\ Tail(s) \in Seq(Seq(R)) /\ Len(Tail(s)) = Len(s) - 1
    BY <1>1, HeadTailProperties
  <2>2. Len(Tail(s)) = 0
    BY <2>1
  <2>3. Tail(s) = <<>>
    BY <2>1, <2>2, EmptySeq
  <2>4. Head(s) = s[1]
    OBVIOUS
  <2> QED BY <2>1, <2>3, <2>4
<1>4. FlattenSeq(<<>>) = <<>>
  BY DEF FlattenSeq
<1> QED BY <1>2, <1>3, <1>4, ConcatEmptySeq
=============================================================================
