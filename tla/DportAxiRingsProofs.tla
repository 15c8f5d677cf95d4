------------------------ MODULE DportAxiRingsProofs -------------------------
(***************************************************************************)
(* The bridge of the data port and its FIFOs.  For every depth and every   *)
(* set of data, the ring of slots is a bounded queue (RingFifo).  For      *)
(* every set of requests the bridge keeps its two queues in step, has one  *)
(* request on the bus, and is an in-order memory port (DportAxi).  And     *)
(* wherever the bridge has its queue of tags the circuit may have the      *)
(* ring: the two hold the same at every clock edge (DportAxiRings).        *)
(***************************************************************************)
EXTENDS DportAxiRings, QueueLemmas

-----------------------------------------------------------------------------
(* The ring of slots.                                                      *)

\* A pointer that has not reached the end of the ring stays where it is.
LEMMA WrapBelow ==
    ASSUME NEW p \in Nat, p < Depth PROVE Wrap(p) = p
BY DepthAssumption DEF Wrap

\* A pointer at most one turn past the end comes back by one turn.
LEMMA WrapOnce ==
    ASSUME NEW p \in Nat, Depth <= p, p < 2 * Depth PROVE Wrap(p) = p - Depth
BY DepthAssumption DEF Wrap

\* The slot a count of items past a pointer.
LEMMA WrapSum ==
    ASSUME NEW p \in 0 .. Depth - 1, NEW c \in 0 .. Depth
    PROVE  Wrap(p + c) = IF p + c < Depth THEN p + c ELSE p + c - Depth
<1>1. p + c \in Nat /\ p + c < 2 * Depth
  BY DepthAssumption
<1> QED BY <1>1, WrapBelow, WrapOnce, DepthAssumption

\* A count within range does not overflow its register when it is raised.
LEMMA CountFits ==
    ASSUME NEW c \in 0 .. Depth, c # Depth PROVE (c + 1) % (2 * Depth) = c + 1
BY DepthAssumption

\* What one clock edge does when the registers are in range: the two pointers
\* and the count move exactly when an item goes in or out.
LEMMA ClockEffect ==
    ASSUME FifoInv, NEW push \in BOOLEAN, NEW pop \in BOOLEAN, NEW x \in Data,
           FifoClock(push, x, pop)
    PROVE  LET in  == push /\ Accept
               out == pop /\ Valid
           IN  /\ ram' = IF in THEN [ram EXCEPT ![wrPtr] = x] ELSE ram
               /\ wrPtr' = IF in THEN Wrap(wrPtr + 1) ELSE wrPtr
               /\ rdPtr' = IF out THEN Wrap(rdPtr + 1) ELSE rdPtr
               /\ count' = IF in /\ ~out THEN count + 1
                           ELSE IF ~in /\ out THEN count - 1 ELSE count
BY CountFits DEF FifoInv, FifoTypeOK, FifoClock, PushSlot, PopSlot, Count, Accept, Valid

\* The registers fit together after the reset.
LEMMA RingStart == FifoInit => FifoInv
BY WrapBelow, DepthAssumption DEF FifoInit, FifoInv, FifoTypeOK, PointersAgree, Slots

\* Every clock edge keeps them together.
LEMMA RingStep == ASSUME FifoInv, [FifoNext]_fifovars PROVE FifoInv'
<1>1. CASE UNCHANGED fifovars
  BY <1>1 DEF fifovars, FifoInv, FifoTypeOK, PointersAgree
<1>2. ASSUME NEW push \in BOOLEAN, NEW pop \in BOOLEAN, NEW x \in Data,
             FifoClock(push, x, pop)
      PROVE  FifoInv'
  <2> DEFINE in  == push /\ Accept
             out == pop /\ Valid
  <2>1. /\ ram' = IF in THEN [ram EXCEPT ![wrPtr] = x] ELSE ram
        /\ wrPtr' = IF in THEN Wrap(wrPtr + 1) ELSE wrPtr
        /\ rdPtr' = IF out THEN Wrap(rdPtr + 1) ELSE rdPtr
        /\ count' = IF in /\ ~out THEN count + 1
                    ELSE IF ~in /\ out THEN count - 1 ELSE count
    BY <1>2, ClockEffect
  <2>2. /\ ram \in [Slots -> Data]
        /\ rdPtr \in 0 .. Depth - 1
        /\ wrPtr \in 0 .. Depth - 1
        /\ count \in 0 .. Depth
        /\ wrPtr = Wrap(rdPtr + count)
    BY DEF FifoInv, FifoTypeOK, PointersAgree, Slots
  <2>3. /\ Wrap(rdPtr + 1) = IF rdPtr + 1 = Depth THEN 0 ELSE rdPtr + 1
        /\ Wrap(wrPtr + 1) = IF wrPtr + 1 = Depth THEN 0 ELSE wrPtr + 1
    BY <2>2, WrapBelow, WrapOnce, DepthAssumption
  <2>4. FifoTypeOK'
    <3>1. ram' \in [Slots -> Data]
      BY <2>1, <2>2 DEF Slots
    <3>2. rdPtr' \in Slots /\ wrPtr' \in Slots
      BY <2>1, <2>2, <2>3, DepthAssumption DEF Slots
    <3>3. count' \in 0 .. Depth
      BY <2>1, <2>2, DepthAssumption DEF Accept, Valid
    <3> QED BY <3>1, <3>2, <3>3 DEF FifoTypeOK, Slots
  <2>5. wrPtr' = Wrap(rdPtr' + count')
    <3>1. wrPtr = IF rdPtr + count < Depth THEN rdPtr + count
                  ELSE rdPtr + count - Depth
      BY <2>2, WrapSum
    <3>2. Wrap(rdPtr' + count') =
            IF rdPtr' + count' < Depth THEN rdPtr' + count'
            ELSE rdPtr' + count' - Depth
      BY <2>4, WrapSum DEF FifoTypeOK, Slots
    <3> HIDE DEF in, out
    <3>3. /\ in => count # Depth
          /\ out => count # 0
      BY DEF in, out, Accept, Valid
    <3> QED BY <2>1, <2>2, <2>3, <3>1, <3>2, <3>3, DepthAssumption
  <2> QED BY <2>4, <2>5 DEF FifoInv, PointersAgree
<1> QED BY <1>1, <1>2 DEF FifoNext

\* The strengthened invariant: types and the agreement of the pointers.
THEOREM RingInvariant == FifoSpec => []FifoInv
BY RingStart, RingStep, PTL DEF FifoSpec

\* The registers keep their types, and the count never passes the depth.
THEOREM TypesHold == FifoSpec => []FifoTypeOK
<1>1. FifoInv => FifoTypeOK
  BY DEF FifoInv
<1> QED BY <1>1, RingInvariant, PTL

-----------------------------------------------------------------------------
(* Refinement                                                              *)

\* A stretch of the ring is a sequence of data.
LEMMA RingIsSeq ==
    ASSUME NEW s \in [Slots -> Data], NEW p \in Slots, NEW c \in 0 .. Depth
    PROVE  /\ Ring(s, p, c) \in Seq(Data)
           /\ Len(Ring(s, p, c)) = c
           /\ \A i \in 1 .. c : /\ Wrap(p + i - 1) \in Slots
                                /\ Ring(s, p, c)[i] = s[Wrap(p + i - 1)]
<1>1. ASSUME NEW i \in 1 .. c PROVE Wrap(p + i - 1) \in Slots
  <2>1. i - 1 \in 0 .. Depth /\ p \in 0 .. Depth - 1
    BY DepthAssumption DEF Slots
  <2>2. Wrap(p + (i - 1)) = IF p + (i - 1) < Depth THEN p + (i - 1)
                            ELSE p + (i - 1) - Depth
    BY <2>1, WrapSum
  <2>3. p + (i - 1) = p + i - 1
    BY <2>1, DepthAssumption
  <2> QED BY <2>1, <2>2, <2>3, DepthAssumption DEF Slots
<1>2. Ring(s, p, c) \in [1 .. c -> Data]
  BY <1>1 DEF Ring
<1>3. c \in Nat
  BY DepthAssumption
<1>4. Ring(s, p, c) \in Seq(Data) /\ Len(Ring(s, p, c)) = c
  BY <1>2, <1>3
<1> QED BY <1>1, <1>4 DEF Ring

\* Taking the oldest item out moves the read pointer one slot on.
LEMMA RingTail ==
    ASSUME NEW s \in [Slots -> Data], NEW p \in Slots, NEW c \in 1 .. Depth
    PROVE  Tail(Ring(s, p, c)) = Ring(s, Wrap(p + 1), c - 1)
<1>1. p \in 0 .. Depth - 1 /\ 1 \in 0 .. Depth /\ c - 1 \in 0 .. Depth
  BY DepthAssumption DEF Slots
<1>2. Wrap(p + 1) \in Slots /\ Wrap(p + 1) = IF p + 1 < Depth THEN p + 1 ELSE p + 1 - Depth
  BY <1>1, WrapSum, DepthAssumption DEF Slots
<1>3. /\ Ring(s, p, c) \in Seq(Data)
      /\ Len(Ring(s, p, c)) = c
      /\ \A i \in 1 .. c : Ring(s, p, c)[i] = s[Wrap(p + i - 1)]
  BY <1>1, RingIsSeq
<1>4. /\ Ring(s, Wrap(p + 1), c - 1) \in Seq(Data)
      /\ Len(Ring(s, Wrap(p + 1), c - 1)) = c - 1
      /\ \A i \in 1 .. c - 1 :
            Ring(s, Wrap(p + 1), c - 1)[i] = s[Wrap(Wrap(p + 1) + i - 1)]
  BY <1>1, <1>2, RingIsSeq
<1>5. /\ Tail(Ring(s, p, c)) \in Seq(Data)
      /\ Len(Tail(Ring(s, p, c))) = c - 1
      /\ \A i \in 1 .. c - 1 : Tail(Ring(s, p, c))[i] = Ring(s, p, c)[i + 1]
  BY <1>1, <1>3, HeadTailProperties, EmptySeq
<1>6. ASSUME NEW i \in 1 .. c - 1
      PROVE  Tail(Ring(s, p, c))[i] = Ring(s, Wrap(p + 1), c - 1)[i]
  <2>1. i + 1 \in 1 .. c /\ i \in 0 .. Depth /\ i - 1 \in 0 .. Depth
    BY <1>1, DepthAssumption
  <2>2. Wrap(p + i) = IF p + i < Depth THEN p + i ELSE p + i - Depth
    BY <1>1, <2>1, WrapSum
  <2>3. Wrap(Wrap(p + 1) + (i - 1)) =
          IF Wrap(p + 1) + (i - 1) < Depth THEN Wrap(p + 1) + (i - 1)
          ELSE Wrap(p + 1) + (i - 1) - Depth
    BY <1>2, <2>1, WrapSum DEF Slots
  <2>4. Wrap(p + i) = Wrap(Wrap(p + 1) + i - 1)
    BY <1>1, <1>2, <2>1, <2>2, <2>3, DepthAssumption DEF Slots
  <2>5. p + (i + 1) - 1 = p + i
    BY <1>1
  <2> QED BY <1>3, <1>4, <1>5, <2>1, <2>4, <2>5
<1> QED BY <1>4, <1>5, <1>6, SeqEqual

\* Filling the slot after the last item appends to the queue.
LEMMA RingAppend ==
    ASSUME NEW s \in [Slots -> Data], NEW p \in Slots, NEW c \in 0 .. Depth - 1,
           NEW x \in Data
    PROVE  Append(Ring(s, p, c), x) = Ring([s EXCEPT ![Wrap(p + c)] = x], p, c + 1)
<1> DEFINE t == [s EXCEPT ![Wrap(p + c)] = x]
<1>1. p \in 0 .. Depth - 1 /\ c \in 0 .. Depth /\ c + 1 \in 0 .. Depth
  BY DepthAssumption DEF Slots
<1>2. Wrap(p + c) = IF p + c < Depth THEN p + c ELSE p + c - Depth
  BY <1>1, WrapSum
<1>3. Wrap(p + c) \in Slots
  BY <1>1, <1>2, DepthAssumption DEF Slots
<1>4. t \in [Slots -> Data]
  OBVIOUS
<1>5. /\ Ring(s, p, c) \in Seq(Data)
      /\ Len(Ring(s, p, c)) = c
      /\ \A i \in 1 .. c : Ring(s, p, c)[i] = s[Wrap(p + i - 1)]
  BY <1>1, RingIsSeq
<1>6. /\ Ring(t, p, c + 1) \in Seq(Data)
      /\ Len(Ring(t, p, c + 1)) = c + 1
      /\ \A i \in 1 .. c + 1 : /\ Wrap(p + i - 1) \in Slots
                               /\ Ring(t, p, c + 1)[i] = t[Wrap(p + i - 1)]
  BY <1>1, <1>4, RingIsSeq
<1> HIDE DEF t
<1>7. ASSUME NEW i \in 1 .. c + 1
      PROVE  Append(Ring(s, p, c), x)[i] = Ring(t, p, c + 1)[i]
  <2>1. CASE i = c + 1
    <3>1. p + i - 1 = p + c
      BY <1>1, <2>1
    <3>2. t[Wrap(p + c)] = x
      BY <1>3 DEF t
    <3>3. Append(Ring(s, p, c), x)[c + 1] = x
      BY <1>1, <1>5
    <3> QED BY <1>6, <2>1, <3>1, <3>2, <3>3
  <2>2. CASE i # c + 1
    <3>1. i \in 1 .. c /\ i - 1 \in 0 .. Depth /\ p + (i - 1) = p + i - 1
      BY <1>1, <2>2, DepthAssumption
    <3>2. Wrap(p + i - 1) = IF p + i - 1 < Depth THEN p + i - 1 ELSE p + i - 1 - Depth
      BY <1>1, <3>1, WrapSum
    <3>3. Wrap(p + i - 1) # Wrap(p + c)
      BY <1>1, <1>2, <3>1, <3>2, DepthAssumption
    <3>4. t[Wrap(p + i - 1)] = s[Wrap(p + i - 1)]
      BY <1>6, <3>3 DEF t
    <3>5. Append(Ring(s, p, c), x)[i] = Ring(s, p, c)[i]
      BY <1>5, <3>1
    <3> QED BY <1>5, <1>6, <3>1, <3>4, <3>5
  <2> QED BY <2>1, <2>2
<1>8. /\ Append(Ring(s, p, c), x) \in Seq(Data)
      /\ Len(Append(Ring(s, p, c), x)) = c + 1
  BY <1>5
<1> QED BY <1>6, <1>7, <1>8, SeqEqual DEF t

\* One edge of the ring is one edge of the queue it holds.
LEMMA ClockImplements ==
    ASSUME FifoInv, NEW push \in BOOLEAN, NEW pop \in BOOLEAN, NEW x \in Data,
           FifoClock(push, x, pop)
    PROVE  Queue!Clock(push, x, pop)
<1> DEFINE in   == push /\ Accept
           out  == pop /\ Valid
           kept == IF out THEN Tail(Contents) ELSE Contents
<1>1. /\ ram' = IF in THEN [ram EXCEPT ![wrPtr] = x] ELSE ram
      /\ rdPtr' = IF out THEN Wrap(rdPtr + 1) ELSE rdPtr
      /\ count' = IF in /\ ~out THEN count + 1
                  ELSE IF ~in /\ out THEN count - 1 ELSE count
  BY ClockEffect
<1>2. /\ ram \in [Slots -> Data]
      /\ rdPtr \in Slots
      /\ count \in 0 .. Depth
      /\ wrPtr = Wrap(rdPtr + count)
  BY DEF FifoInv, FifoTypeOK, PointersAgree
<1>3. Contents \in Seq(Data) /\ Len(Contents) = count
  BY <1>2, RingIsSeq DEF Contents
<1>4. Accept <=> Queue!Accept
  BY <1>3 DEF Accept, Queue!Accept
<1>5. Valid <=> Queue!Valid
  BY <1>2, <1>3, EmptySeq, DepthAssumption DEF Valid, Queue!Valid
<1>6. Contents' = Ring(ram', rdPtr', count')
  BY DEF Contents, Ring, Wrap
<1>7. kept = Ring(ram, rdPtr', IF out THEN count - 1 ELSE count)
  <2>1. CASE ~out
    BY <1>1, <2>1 DEF Contents
  <2>2. CASE out
    <3>1. count \in 1 .. Depth
      BY <1>2, <2>2, DepthAssumption DEF Valid
    <3>2. Tail(Ring(ram, rdPtr, count)) = Ring(ram, Wrap(rdPtr + 1), count - 1)
      BY <1>2, <3>1, RingTail
    <3> QED BY <1>1, <2>2, <3>2 DEF Contents
  <2> QED BY <2>1, <2>2
<1>8. Contents' = IF in THEN Append(kept, x) ELSE kept
  <2>1. CASE ~in
    BY <1>1, <1>6, <1>7, <2>1
  <2>2. CASE in
    <3> DEFINE n == IF out THEN count - 1 ELSE count
    <3>1. n \in 0 .. Depth - 1 /\ count' = n + 1
      BY <1>1, <1>2, <2>2, DepthAssumption DEF Accept, Valid
    <3>2. rdPtr' \in Slots /\ Wrap(rdPtr' + n) = wrPtr
      <4>1. CASE ~out
        BY <1>1, <1>2, <4>1
      <4>2. CASE out
        <5>1. count \in 1 .. Depth /\ n = count - 1
          BY <1>2, <4>2, DepthAssumption DEF Valid
        <5>2. rdPtr' = IF rdPtr + 1 < Depth THEN rdPtr + 1 ELSE rdPtr + 1 - Depth
          BY <1>1, <1>2, <4>2, WrapSum, DepthAssumption DEF Slots
        <5>3. rdPtr' \in Slots
          BY <1>2, <5>2, DepthAssumption DEF Slots
        <5>4. Wrap(rdPtr' + n) = IF rdPtr' + n < Depth THEN rdPtr' + n
                                 ELSE rdPtr' + n - Depth
          BY <3>1, <5>3, WrapSum, DepthAssumption DEF Slots
        <5>5. wrPtr = IF rdPtr + count < Depth THEN rdPtr + count
                      ELSE rdPtr + count - Depth
          BY <1>2, WrapSum, DepthAssumption DEF Slots
        <5> QED BY <1>2, <5>1, <5>2, <5>3, <5>4, <5>5, DepthAssumption DEF Slots
      <4> QED BY <4>1, <4>2
    <3>3. kept = Ring(ram, rdPtr', n)
      BY <1>7
    <3> HIDE DEF n, kept
    <3>4. Append(kept, x) = Ring([ram EXCEPT ![Wrap(rdPtr' + n)] = x], rdPtr', n + 1)
      BY <1>2, <3>1, <3>2, <3>3, RingAppend
    <3> QED BY <1>1, <1>6, <2>2, <3>1, <3>2, <3>4
  <2> QED BY <2>1, <2>2
<1> QED BY <1>4, <1>5, <1>8 DEF Queue!Clock

\* After the reset the ring is empty.
LEMMA EmptyStart == FifoInit => Queue!Init
<1> SUFFICES ASSUME FifoInit PROVE Contents = <<>>
  BY DEF Queue!Init
<1>1. /\ ram \in [Slots -> Data]
      /\ rdPtr \in Slots
      /\ count = 0
      /\ 0 \in 0 .. Depth
  BY DepthAssumption DEF FifoInit, Slots
<1>2. Contents \in Seq(Data) /\ Len(Contents) = 0
  BY <1>1, RingIsSeq DEF Contents
<1> QED BY <1>2, EmptySeq

\* The ring of slots implements the bounded queue, for every depth and data:
\* no item is lost, duplicated, reordered or overwritten.
THEOREM RingImplementsQueue == FifoSpec => ImplementsQueue
<1>1. FifoInit => Queue!Init
  BY EmptyStart
<1>2. FifoInv /\ [FifoNext]_fifovars => [Queue!Next]_Contents
  <2> SUFFICES ASSUME FifoInv, [FifoNext]_fifovars PROVE [Queue!Next]_Contents
    OBVIOUS
  <2>1. CASE UNCHANGED fifovars
    BY <2>1 DEF fifovars, Contents, Ring, Wrap
  <2>2. ASSUME NEW push \in BOOLEAN, NEW pop \in BOOLEAN, NEW x \in Data,
               FifoClock(push, x, pop)
        PROVE  Queue!Next
    BY <2>2, ClockImplements DEF Queue!Next
  <2> QED BY <2>1, <2>2 DEF FifoNext
<1> QED BY <1>1, <1>2, RingInvariant, PTL DEF FifoSpec, ImplementsQueue, Queue!Spec

-----------------------------------------------------------------------------
(* The bridge.                                                             *)

\* The ids of a queue of requests.
IdsOf(s) == [i \in 1 .. Len(s) |-> s[i].id]

-----------------------------------------------------------------------------
(* Sequences of ids.                                                       *)

\* A queue of requests has as many ids, in its order.
LEMMA IdsOfSeq ==
    ASSUME NEW s \in Seq(Request)
    PROVE  /\ IdsOf(s) \in Seq(Ids)
           /\ Len(IdsOf(s)) = Len(s)
           /\ \A i \in 1 .. Len(s) : IdsOf(s)[i] = s[i].id
<1>1. Len(s) \in Nat /\ \A i \in 1 .. Len(s) : s[i] \in Request
  BY LenProperties, ElementOfSeq
<1>2. IdsOf(s) \in [1 .. Len(s) -> Ids]
  BY <1>1 DEF IdsOf, Request
<1>3. IdsOf(s) \in Seq(Ids) /\ Len(IdsOf(s)) = Len(s)
  BY <1>1, <1>2
<1> QED BY <1>3 DEF IdsOf

\* Taking the ids commutes with the arrival of a request.
LEMMA IdsOfCame ==
    ASSUME NEW s \in Seq(Request), NEW x \in Request, NEW come \in BOOLEAN
    PROVE  IdsOf(Came(s, x, come)) = Came(IdsOf(s), x.id, come)
<1>1. CASE come
  <2> DEFINE t == Came(s, x, come)
             u == Came(IdsOf(s), x.id, come)
             n == Len(s)
  <2>1. IdsOf(s) \in Seq(Ids) /\ Len(IdsOf(s)) = n /\ x.id \in Ids
    BY IdsOfSeq DEF Request
  <2>2. /\ t \in Seq(Request) /\ Len(t) = n + 1
        /\ \A i \in 1 .. n : t[i] = s[i]
        /\ t[n + 1] = x
    BY <1>1, AppendProperties DEF Came
  <2>3. /\ u \in Seq(Ids) /\ Len(u) = n + 1
        /\ \A i \in 1 .. n : u[i] = IdsOf(s)[i]
        /\ u[n + 1] = x.id
    <3> DEFINE is == IdsOf(s)
    <3>1. is \in Seq(Ids) /\ x.id \in Ids /\ Len(is) = n
      BY <2>1
    <3> HIDE DEF is
    <3>2. /\ Append(is, x.id) \in Seq(Ids)
          /\ Len(Append(is, x.id)) = Len(is) + 1
          /\ \A i \in 1 .. Len(is) : Append(is, x.id)[i] = is[i]
          /\ Append(is, x.id)[Len(is) + 1] = x.id
      BY <3>1, AppendProperties
    <3>3. u = Append(is, x.id)
      BY <1>1 DEF Came, is
    <3> QED BY <3>1, <3>2, <3>3, Zenon DEF is
  <2>4. /\ IdsOf(t) \in Seq(Ids) /\ Len(IdsOf(t)) = n + 1
        /\ \A i \in 1 .. n + 1 : IdsOf(t)[i] = t[i].id
    BY <2>2, IdsOfSeq
  <2>5. n \in Nat /\ \A i \in 1 .. n : IdsOf(s)[i] = s[i].id
    BY LenProperties, IdsOfSeq
  <2> HIDE DEF t, u, n
  <2>6. ASSUME NEW i \in 1 .. n + 1 PROVE IdsOf(t)[i] = u[i]
    <3>1. CASE i = n + 1
      BY <2>2, <2>3, <2>4, <3>1
    <3>2. CASE i \in 1 .. n
      BY <2>2, <2>3, <2>4, <2>5, <3>2
    <3> QED BY <2>5, <3>1, <3>2
  <2>7. IdsOf(t) = u
    BY <2>3, <2>4, <2>6, SeqEqual
  <2> QED BY <2>7 DEF t, u
<1>2. CASE ~come
  BY <1>2 DEF Came
<1> QED BY <1>1, <1>2

\* ... and with the departure of one.
LEMMA IdsOfLeft ==
    ASSUME NEW s \in Seq(Request), s # <<>>
    PROVE  /\ Head(s) \in Request
           /\ IdsOf(s) = <<Head(s).id>> \o IdsOf(Tail(s))
<1> DEFINE n == Len(s)
           h == <<Head(s).id>>
           t == Tail(s)
           u == h \o IdsOf(t)
<1>1. n \in Nat \ {0} /\ Head(s) \in Request /\ Head(s) = s[1] /\ Head(s).id \in Ids
  <2>1. n \in Nat \ {0}
    BY LenProperties, EmptySeq
  <2>2. Head(s) \in Request /\ Head(s) = s[1]
    BY HeadTailProperties
  <2>3. \A r \in Request : r.id \in Ids
    BY DEF Request
  <2> QED BY <2>1, <2>2, <2>3, Zenon
<1>2. t \in Seq(Request) /\ Len(t) = n - 1 /\ \A i \in 1 .. n - 1 : t[i] = s[i + 1]
  BY HeadTailProperties
<1>3. h \in Seq(Ids) /\ Len(h) = 1 /\ h[1] = s[1].id
  BY <1>1
<1>4. /\ IdsOf(t) \in Seq(Ids) /\ Len(IdsOf(t)) = n - 1
      /\ \A i \in 1 .. n - 1 : IdsOf(t)[i] = t[i].id
  BY <1>2, IdsOfSeq
<1>5. /\ IdsOf(s) \in Seq(Ids) /\ Len(IdsOf(s)) = n
      /\ \A i \in 1 .. n : IdsOf(s)[i] = s[i].id
  BY IdsOfSeq
<1> HIDE DEF n, h, t
<1>6. /\ u \in Seq(Ids) /\ Len(u) = 1 + (n - 1)
      /\ \A i \in 1 .. 1 + (n - 1) : u[i] = IF i <= 1 THEN h[i] ELSE IdsOf(t)[i - 1]
  <2> DEFINE v == IdsOf(t)
  <2>1. v \in Seq(Ids) /\ Len(v) = n - 1
    BY <1>4
  <2> HIDE DEF v
  <2>2. /\ h \o v \in Seq(Ids)
        /\ Len(h \o v) = Len(h) + Len(v)
        /\ \A i \in 1 .. Len(h) + Len(v) :
              (h \o v)[i] = IF i <= Len(h) THEN h[i] ELSE v[i - Len(h)]
    BY <1>3, <2>1, ConcatProperties, Zenon
  <2>3. Len(h) = 1
    BY <1>3
  <2>4. /\ h \o v \in Seq(Ids)
        /\ Len(h \o v) = 1 + (n - 1)
        /\ \A i \in 1 .. 1 + (n - 1) :
              (h \o v)[i] = IF i <= 1 THEN h[i] ELSE v[i - 1]
    BY <2>1, <2>2, <2>3, Zenon
  <2> QED BY <2>4 DEF v
<1> HIDE DEF u
<1>7. ASSUME NEW i \in 1 .. n PROVE IdsOf(s)[i] = u[i]
  <2>1. CASE i = 1
    BY <1>1, <1>3, <1>5, <1>6, <2>1
  <2>2. CASE i # 1
    <3>1. i - 1 \in 1 .. n - 1 /\ (i - 1) + 1 = i /\ ~(i <= 1) /\ i \in 1 .. 1 + (n - 1)
      BY <1>1, <2>2
    <3>2. u[i] = IdsOf(t)[i - 1]
      BY <1>6, <3>1
    <3> QED BY <1>2, <1>4, <1>5, <3>1, <3>2
  <2> QED BY <2>1, <2>2
<1>8. Len(IdsOf(s)) = Len(u)
  BY <1>1, <1>5, <1>6
<1>9. IdsOf(s) = u
  BY <1>5, <1>6, <1>7, <1>8, SeqEqual
<1> QED BY <1>1, <1>9 DEF u, h, t

\* A request in front of a queue.
LEMMA FrontItem ==
    ASSUME NEW i \in Ids, NEW s \in Seq(Ids)
    PROVE  /\ <<i>> \o s \in Seq(Ids) /\ <<i>> \o s # <<>>
           /\ Len(<<i>> \o s) = 1 + Len(s)
           /\ Head(<<i>> \o s) = i /\ Tail(<<i>> \o s) = s
           /\ \A x \in Ids, come \in BOOLEAN :
                 Came(<<i>> \o s, x, come) = <<i>> \o Came(s, x, come)
<1> DEFINE f == <<i>>
<1>1. f \in Seq(Ids) /\ Len(f) = 1 /\ f[1] = i /\ f # <<>>
  OBVIOUS
<1>2. Head(<<i>> \o s) = i /\ Tail(<<i>> \o s) = s
  <2>1. Append(<<>>, i) = <<i>>
    OBVIOUS
  <2> QED OBVIOUS
<1> HIDE DEF f
<1>3. f \o s \in Seq(Ids) /\ Len(f \o s) = Len(f) + Len(s)
  BY <1>1, ConcatProperties
<1>4. f \o s # <<>>
  BY <1>1, ConcatEqualIffEmpty
<1>5. ASSUME NEW x \in Ids PROVE Append(f \o s, x) = f \o Append(s, x)
  <2>1. <<x>> \in Seq(Ids)
    OBVIOUS
  <2>2. Append(f \o s, x) = (f \o s) \o <<x>> /\ Append(s, x) = s \o <<x>>
    BY <1>3, AppendIsConcat
  <2>3. (f \o s) \o <<x>> = f \o (s \o <<x>>)
    BY <1>1, <2>1, ConcatAssociative
  <2> QED BY <2>2, <2>3, Zenon
<1>6. ASSUME NEW x \in Ids, NEW come \in BOOLEAN
      PROVE  Came(f \o s, x, come) = f \o Came(s, x, come)
  <2>1. CASE come
    BY <1>5, <2>1 DEF Came
  <2>2. CASE ~come
    BY <2>2 DEF Came
  <2> QED BY <2>1, <2>2
<1> QED BY <1>1, <1>2, <1>3, <1>4, <1>6 DEF f

-----------------------------------------------------------------------------
(* The inductive invariant.  Beyond the checked ones it says, of every     *)
(* state, what the slave owes: nothing while no request is pending, and    *)
(* otherwise one answer, to a write whose halves belong together or to a   *)
(* read; and the tag of that answer heads the tag queue.                   *)

Answer(i) == [addr |-> i, data |-> i]

OwesNone(p, tags, b, r, s) == ~p /\ b = <<>> /\ r = <<>> /\ tags = IdsOf(s)
OwesOne(p, tags, b, r, s, i) ==
    /\ p
    /\ tags = <<i>> \o IdsOf(s)
    /\ \/ b = <<Answer(i)>> /\ r = <<>>
       \/ b = <<>> /\ r = <<i>>
Owes(p, tags, b, r, s) ==
    \/ OwesNone(p, tags, b, r, s)
    \/ \E i \in Ids : OwesOne(p, tags, b, r, s, i)

IInv ==
    /\ req \in Seq(Request) /\ Len(req) <= FifoDepth
    /\ resp \in Seq(Ids) /\ Len(resp) <= FifoDepth
    /\ pending \in BOOLEAN /\ awInhibit \in BOOLEAN /\ wInhibit \in BOOLEAN
    /\ pins \in Pins
    /\ Driven(pins, slvAw, slvW, owedB, owedR)
    /\ HalfWrite
    /\ Owes(pending, resp, owedB, owedR, req)

-----------------------------------------------------------------------------
(* One clock cycle.                                                        *)

accepted == mem_request /\ mem_accept

\* The inputs and the wires they make are typed.
LEMMA PinTypes ==
    ASSUME IInv
    PROVE  /\ pins.mem \in Request \cup {NoRequest}
           /\ pins.awready \in BOOLEAN /\ pins.wready \in BOOLEAN
           /\ pins.arready \in BOOLEAN
           /\ pins.bvalid \in BOOLEAN /\ pins.rvalid \in BOOLEAN
           /\ mem_ack \in BOOLEAN /\ req_pop \in BOOLEAN /\ accepted \in BOOLEAN
           /\ accepted => pins.mem \in Request /\ Len(req) # FifoDepth /\ Len(resp) # FifoDepth
BY DEF IInv, Pins, mem_ack, req_pop, accepted, read_complete, write_complete, arvalid,
       req_is_read, req_is_write, mem_request, mem_accept, Req!Accept, Resp!Accept

\* A request enters the bus only if there is one, and when the last was
\* answered or is answered in this cycle.
LEMMA Pops ==
    ASSUME IInv
    PROVE  /\ req_pop => req # <<>> /\ (~pending \/ mem_ack)
           /\ ~(write_complete /\ read_complete)
           /\ req_pop <=> write_complete \/ read_complete
           /\ write_complete => Head(req).op = "write"
           /\ read_complete => Head(req).op = "read"
<1>1. "read" # "write"
  OBVIOUS
<1> QED BY <1>1 DEF req_pop, write_complete, read_complete, arvalid, req_is_read, req_is_write,
           request_in_progress, Req!Valid

\* After the acknowledge of this cycle: nothing is owed, or one answer is and
\* no request enters the bus.
LEMMA AfterAck ==
    ASSUME IInv
    PROVE  /\ mem_ack => resp # <<>>
           /\ Owes(pending /\ ~mem_ack, Left(resp, mem_ack),
                   Drop(owedB, pins.bvalid), Drop(owedR, pins.rvalid), req)
           /\ req_pop => OwesNone(pending /\ ~mem_ack, Left(resp, mem_ack),
                                  Drop(owedB, pins.bvalid), Drop(owedR, pins.rvalid), req)
           /\ mem_ack => pending /\ ~(pins.bvalid /\ pins.rvalid)
<1>1. /\ pins.bvalid => owedB # <<>>
      /\ pins.rvalid => owedR # <<>>
  BY DEF IInv, Driven
<1>2. req \in Seq(Request) /\ IdsOf(req) \in Seq(Ids)
  BY IdsOfSeq DEF IInv
<1>3. mem_ack <=> pins.bvalid \/ pins.rvalid
  BY DEF mem_ack
<1>4. CASE OwesNone(pending, resp, owedB, owedR, req)
  <2>1. ~pins.bvalid /\ ~pins.rvalid /\ ~mem_ack
    BY <1>1, <1>3, <1>4 DEF OwesNone
  <2> QED BY <1>4, <2>1 DEF OwesNone, Owes, Left, Drop
<1>5. ASSUME NEW i \in Ids, OwesOne(pending, resp, owedB, owedR, req, i)
      PROVE  /\ mem_ack => resp # <<>>
             /\ Owes(pending /\ ~mem_ack, Left(resp, mem_ack),
                     Drop(owedB, pins.bvalid), Drop(owedR, pins.rvalid), req)
             /\ req_pop => OwesNone(pending /\ ~mem_ack, Left(resp, mem_ack),
                                    Drop(owedB, pins.bvalid), Drop(owedR, pins.rvalid), req)
             /\ mem_ack => pending /\ ~(pins.bvalid /\ pins.rvalid)
  <2>1. resp # <<>> /\ Tail(resp) = IdsOf(req) /\ pending
    BY <1>2, <1>5, FrontItem DEF OwesOne
  <2>2. CASE ~mem_ack
    <3>1. ~pins.bvalid /\ ~pins.rvalid
      BY <1>3, <2>2
    <3>2. OwesOne(pending /\ ~mem_ack, Left(resp, mem_ack),
                  Drop(owedB, pins.bvalid), Drop(owedR, pins.rvalid), req, i)
      BY <1>5, <2>1, <2>2, <3>1 DEF OwesOne, Left, Drop
    <3>3. ~req_pop
      BY <2>1, <2>2, Pops
    <3> QED BY <2>2, <3>2, <3>3 DEF Owes
  <2>3. CASE mem_ack
    <3>1. Drop(owedB, pins.bvalid) = <<>> /\ Drop(owedR, pins.rvalid) = <<>>
          /\ ~(pins.bvalid /\ pins.rvalid)
      <4>1. CASE owedB = <<Answer(i)>> /\ owedR = <<>>
        <5>1. pins.bvalid /\ ~pins.rvalid
          BY <1>1, <1>3, <2>3, <4>1
        <5>2. Tail(<<Answer(i)>>) = <<>>
          OBVIOUS
        <5> QED BY <4>1, <5>1, <5>2 DEF Drop
      <4>2. CASE owedB = <<>> /\ owedR = <<i>>
        <5>1. pins.rvalid /\ ~pins.bvalid
          BY <1>1, <1>3, <2>3, <4>2
        <5>2. Tail(<<i>>) = <<>>
          OBVIOUS
        <5> QED BY <4>2, <5>1, <5>2 DEF Drop
      <4> QED BY <1>5, <4>1, <4>2 DEF OwesOne
    <3>2. OwesNone(pending /\ ~mem_ack, Left(resp, mem_ack),
                   Drop(owedB, pins.bvalid), Drop(owedR, pins.rvalid), req)
      BY <2>1, <2>3, <3>1 DEF OwesNone, Left
    <3> QED BY <2>1, <3>1, <3>2 DEF Owes
  <2> QED BY <2>2, <2>3
<1> QED BY <1>4, <1>5 DEF IInv, Owes

\* The two queues take the request that is accepted, and no other.
LEMMA Queues ==
    ASSUME IInv, Bridge
    PROVE  /\ req' = Came(Left(req, req_pop), pins.mem, accepted)
           /\ resp' = Came(Left(resp, mem_ack), pins.mem.id, accepted)
<1>1. /\ req_pop => Req!Valid
      /\ mem_ack => Resp!Valid
  BY Pops, AfterAck DEF Req!Valid, Resp!Valid
<1>2. /\ req_push /\ Req!Accept <=> accepted
      /\ res_push /\ Resp!Accept <=> accepted
  BY DEF req_push, res_push, accepted, mem_accept
<1>3. /\ Req!Clock(req_push, pins.mem, req_pop)
      /\ Resp!Clock(res_push, pins.mem.id, mem_ack)
  BY DEF Bridge
<1>4. req' = Came(Left(req, req_pop), pins.mem, accepted)
  BY <1>1, <1>2, <1>3 DEF Req!Clock, Came, Left
<1>5. resp' = Came(Left(resp, mem_ack), pins.mem.id, accepted)
  BY <1>1, <1>2, <1>3 DEF Resp!Clock, Came, Left
<1> QED BY <1>4, <1>5

\* What the edge makes of a write: it is over when its second half is taken,
\* and until then the slave holds exactly the half no longer offered.
LEMMA WriteHalves ==
    ASSUME IInv, Bridge, Slave
    PROVE  /\ awInhibit' \in BOOLEAN /\ wInhibit' \in BOOLEAN
           /\ write_complete =>
                 /\ ~awInhibit' /\ ~wInhibit' /\ slvAw' = <<>> /\ slvW' = <<>>
                 /\ owedB' = Append(Drop(owedB, pins.bvalid), Answer(Head(req).id))
           /\ ~write_complete =>
                 /\ awInhibit' \/ wInhibit' => req_is_write
                 /\ ~(awInhibit' /\ wInhibit')
                 /\ slvAw' = IF awInhibit' THEN <<Head(req).id>> ELSE <<>>
                 /\ slvW' = IF wInhibit' THEN <<Head(req).id>> ELSE <<>>
                 /\ owedB' = Drop(owedB, pins.bvalid)
<1> DEFINE h == Head(req).id
           aw == IF awvalid /\ pins.awready THEN Append(slvAw, h) ELSE slvAw
           w  == IF wvalid /\ pins.wready THEN Append(slvW, h) ELSE slvW
           both == aw # <<>> /\ w # <<>>
<1>1. /\ awInhibit' = IF awvalid /\ pins.awready /\ wvalid /\ ~pins.wready THEN TRUE
                      ELSE IF wvalid /\ pins.wready THEN FALSE ELSE awInhibit
      /\ wInhibit' = IF wvalid /\ pins.wready /\ awvalid /\ ~pins.awready THEN TRUE
                     ELSE IF awvalid /\ pins.awready THEN FALSE ELSE wInhibit
  BY DEF Bridge, AwInhibit, WInhibit
<1>2. /\ slvAw' = Drop(aw, both)
      /\ slvW' = Drop(w, both)
      /\ owedB' = IF both THEN Append(Drop(owedB, pins.bvalid), [addr |-> Head(aw), data |-> Head(w)])
                  ELSE Drop(owedB, pins.bvalid)
  BY DEF Slave
<1>3. /\ awInhibit \/ wInhibit => req_is_write
      /\ ~(awInhibit /\ wInhibit)
      /\ slvAw = IF awInhibit THEN <<h>> ELSE <<>>
      /\ slvW = IF wInhibit THEN <<h>> ELSE <<>>
  BY DEF IInv, HalfWrite, req_is_write, request_in_progress, Req!Valid
<1>4. awInhibit \in BOOLEAN /\ wInhibit \in BOOLEAN /\ pins.awready \in BOOLEAN /\ pins.wready \in BOOLEAN
  BY PinTypes DEF IInv
<1>5. Append(<<>>, h) = <<h>> /\ <<h>> # <<>> /\ Head(<<h>>) = h /\ Tail(<<h>>) = <<>>
  OBVIOUS
<1>6. /\ awvalid <=> req_is_write /\ ~awInhibit
      /\ wvalid <=> req_is_write /\ ~wInhibit
      /\ write_complete <=> /\ awInhibit \/ pins.awready
                            /\ wInhibit \/ pins.wready
                            /\ req_is_write
  BY DEF awvalid, wvalid, write_complete
<1>7. /\ aw = IF awInhibit \/ (req_is_write /\ pins.awready) THEN <<h>> ELSE <<>>
      /\ w = IF wInhibit \/ (req_is_write /\ pins.wready) THEN <<h>> ELSE <<>>
  <2> HIDE DEF h
  <2> QED BY <1>3, <1>4, <1>5, <1>6
<1> HIDE DEF aw, w, h
<1>8. both <=> write_complete
  BY <1>3, <1>5, <1>6, <1>7
<1>9. CASE write_complete
  <2>1. aw = <<h>> /\ w = <<h>> /\ both
    BY <1>5, <1>6, <1>7, <1>8, <1>9
  <2>2. slvAw' = <<>> /\ slvW' = <<>>
    BY <1>2, <1>5, <2>1 DEF Drop
  <2>3. owedB' = Append(Drop(owedB, pins.bvalid), Answer(h))
    BY <1>2, <1>5, <2>1 DEF Answer
  <2>4. /\ ~awInhibit' /\ ~wInhibit'
        /\ awInhibit' \in BOOLEAN /\ wInhibit' \in BOOLEAN
    BY <1>1, <1>3, <1>4, <1>6, <1>9
  <2> QED BY <1>9, <2>2, <2>3, <2>4 DEF h
<1>10. CASE ~write_complete
  <2>1. ~both /\ slvAw' = aw /\ slvW' = w /\ owedB' = Drop(owedB, pins.bvalid)
    BY <1>2, <1>8, <1>10 DEF Drop
  <2>2. /\ awInhibit' \/ wInhibit' => req_is_write
        /\ ~(awInhibit' /\ wInhibit')
        /\ awInhibit' \in BOOLEAN /\ wInhibit' \in BOOLEAN
    BY <1>1, <1>3, <1>4, <1>6, <1>10
  <2>3. /\ awInhibit' <=> awInhibit \/ (req_is_write /\ pins.awready)
        /\ wInhibit' <=> wInhibit \/ (req_is_write /\ pins.wready)
    BY <1>1, <1>3, <1>4, <1>6, <1>10
  <2>4. /\ slvAw' = IF awInhibit' THEN <<h>> ELSE <<>>
        /\ slvW' = IF wInhibit' THEN <<h>> ELSE <<>>
    BY <1>7, <2>1, <2>3
  <2> QED BY <1>10, <2>1, <2>2, <2>4 DEF h
<1> QED BY <1>9, <1>10

\* What the edge makes of the answers owed: a request that enters the bus is
\* owed its own.
LEMMA NewlyOwed ==
    ASSUME IInv, Bridge, Slave
    PROVE  Owes(pending', Left(resp, mem_ack), owedB', owedR', Left(req, req_pop))
<1>1. pending' = IF write_complete \/ read_complete THEN TRUE
                 ELSE IF mem_ack THEN FALSE ELSE pending
  BY DEF Bridge, Pending
<1>2. owedR' = IF read_complete THEN Append(Drop(owedR, pins.rvalid), Head(req).id)
               ELSE Drop(owedR, pins.rvalid)
  BY DEF Slave, read_complete
<1>3. CASE ~req_pop
  <2>1. ~write_complete /\ ~read_complete
    BY <1>3, Pops
  <2>2. owedB' = Drop(owedB, pins.bvalid) /\ owedR' = Drop(owedR, pins.rvalid)
    BY <1>2, <2>1, WriteHalves
  <2>3. pending' = (pending /\ ~mem_ack)
    BY <1>1, <2>1 DEF IInv
  <2> QED BY <1>3, <2>2, <2>3, AfterAck DEF Left
<1>4. CASE req_pop
  <2> DEFINE h == Head(req).id
  <2>1. req \in Seq(Request) /\ req # <<>>
    BY <1>4, Pops DEF IInv
  <2>2. IdsOf(req) = <<h>> \o IdsOf(Tail(req)) /\ h \in Ids
    BY <2>1, IdsOfLeft DEF Request
  <2>3. OwesNone(pending /\ ~mem_ack, Left(resp, mem_ack),
                 Drop(owedB, pins.bvalid), Drop(owedR, pins.rvalid), req)
    BY <1>4, AfterAck
  <2>4. Left(resp, mem_ack) = <<h>> \o IdsOf(Left(req, req_pop))
    BY <1>4, <2>2, <2>3 DEF OwesNone, Left
  <2>5. Drop(owedB, pins.bvalid) = <<>> /\ Drop(owedR, pins.rvalid) = <<>>
    BY <2>3 DEF OwesNone
  <2>6. Append(<<>>, h) = <<h>> /\ Append(<<>>, Answer(h)) = <<Answer(h)>>
    OBVIOUS
  <2>7. pending'
    BY <1>1, <1>4, Pops
  <2> HIDE DEF h
  <2>8. CASE write_complete
    <3>1. owedB' = <<Answer(h)>>
      BY <2>5, <2>6, <2>8, WriteHalves DEF h
    <3>2. owedR' = <<>>
      BY <1>2, <2>5, <2>8, Pops
    <3> QED BY <2>2, <2>4, <2>7, <3>1, <3>2 DEF Owes, OwesOne
  <2>9. CASE read_complete
    <3>1. owedR' = <<h>>
      BY <1>2, <2>5, <2>6, <2>9 DEF h
    <3>2. owedB' = <<>>
      BY <2>5, <2>9, Pops, WriteHalves
    <3> QED BY <2>2, <2>4, <2>7, <3>1, <3>2 DEF Owes, OwesOne
  <2> QED BY <1>4, <2>8, <2>9, Pops
<1> QED BY <1>3, <1>4

\* An arrival leaves the oldest request where it is.
LEMMA OldestStays ==
    ASSUME NEW s \in Seq(Request), s # <<>>, NEW x, NEW come \in BOOLEAN, come => x \in Request
    PROVE  Came(s, x, come) # <<>> /\ Head(Came(s, x, come)) = Head(s)
<1>1. CASE come
  BY <1>1, HeadTailAppend, AppendProperties DEF Came
<1>2. CASE ~come
  BY <1>2 DEF Came
<1> QED BY <1>1, <1>2

\* The lengths stay within the queues.
LEMMA LengthBound ==
    ASSUME NEW R, NEW s \in Seq(R), Len(s) <= FifoDepth, NEW gone \in BOOLEAN, gone => s # <<>>,
           NEW x, NEW come \in BOOLEAN, come => x \in R /\ Len(s) # FifoDepth
    PROVE  /\ Left(s, gone) \in Seq(R)
           /\ Came(Left(s, gone), x, come) \in Seq(R)
           /\ Len(Came(Left(s, gone), x, come)) <= FifoDepth
<1> DEFINE l == Left(s, gone)
           n == Len(s)
           nl == Len(l)
           nc == Len(Came(l, x, come))
<1>1. l \in Seq(R) /\ (nl = n \/ nl = n - 1)
  <2>1. CASE gone
    BY <2>1, HeadTailProperties DEF Left
  <2>2. CASE ~gone
    BY <2>2 DEF Left
  <2> QED BY <2>1, <2>2
<1>2. n \in Nat
  BY LenProperties
<1> HIDE DEF l
<1>3. Came(l, x, come) \in Seq(R) /\ (come => nc = nl + 1) /\ (~come => nc = nl)
  <2>1. CASE come
    BY <1>1, <2>1, AppendProperties DEF Came
  <2>2. CASE ~come
    BY <1>1, <2>2 DEF Came
  <2> QED BY <2>1, <2>2
<1>4. n <= 2 /\ (come => n # 2)
  BY DEF FifoDepth
<1> HIDE DEF n, nl, nc
<1>5. nc <= 2
  <2>1. CASE come
    BY <1>1, <1>2, <1>3, <1>4, <2>1
  <2>2. CASE ~come
    BY <1>1, <1>2, <1>3, <1>4, <2>2
  <2> QED BY <2>1, <2>2
<1> QED BY <1>1, <1>3, <1>5 DEF l, nc, FifoDepth

\* ... and the arrival of a request with its tag keeps the queues in step.
LEMMA OwesCame ==
    ASSUME NEW p, NEW tags \in Seq(Ids), NEW b, NEW r, NEW s \in Seq(Request), Owes(p, tags, b, r, s),
           NEW x, NEW come \in BOOLEAN, come => x \in Request
    PROVE  Owes(p, Came(tags, x.id, come), b, r, Came(s, x, come))
<1>1. CASE ~come
  BY <1>1 DEF Came
<1>2. CASE come
  <2>1. x \in Request /\ x.id \in Ids
    BY <1>2 DEF Request
  <2>2. IdsOf(Came(s, x, come)) = Came(IdsOf(s), x.id, come)
    BY <2>1, IdsOfCame
  <2>3. IdsOf(s) \in Seq(Ids)
    BY IdsOfSeq
  <2>4. CASE OwesNone(p, tags, b, r, s)
    BY <2>2, <2>4 DEF OwesNone, Owes
  <2>5. ASSUME NEW i \in Ids, OwesOne(p, tags, b, r, s, i)
        PROVE  OwesOne(p, Came(tags, x.id, come), b, r, Came(s, x, come), i)
    <3>1. Came(<<i>> \o IdsOf(s), x.id, come) = <<i>> \o Came(IdsOf(s), x.id, come)
      BY <2>1, <2>3, FrontItem, ZenonT(30)
    <3> QED BY <2>2, <2>5, <3>1 DEF OwesOne
  <2> QED BY <2>4, <2>5 DEF Owes
<1> QED BY <1>1, <1>2

\* A half-taken write stays the oldest request.
LEMMA HalfWriteStays ==
    ASSUME IInv, Bridge, Slave PROVE HalfWrite'
<1>1. req' = Came(Left(req, req_pop), pins.mem, accepted)
  BY Queues
<1>2. CASE write_complete
  BY <1>2, WriteHalves DEF HalfWrite
<1>3. CASE ~write_complete
  <2>1. CASE ~awInhibit' /\ ~wInhibit'
    BY <1>3, <2>1, WriteHalves DEF HalfWrite
  <2>2. CASE awInhibit' \/ wInhibit'
    <3>1. req_is_write
      BY <1>3, <2>2, WriteHalves
    <3>2. req # <<>> /\ Head(req).op = "write" /\ ~request_in_progress
      BY <3>1 DEF req_is_write, Req!Valid
    <3>3. ~read_complete /\ ~req_pop
      BY <1>3, <3>2, Pops
    <3>4. req' # <<>> /\ Head(req') = Head(req)
      <4>1. req' = Came(req, pins.mem, accepted)
        BY <1>1, <3>3 DEF Left
      <4> QED BY <3>2, <4>1, OldestStays, PinTypes DEF IInv
    <3>5. ~pending'
      BY <1>3, <3>2, <3>3 DEF Bridge, Pending, request_in_progress
    <3>6. Head(req').id = Head(req).id /\ Head(req').op = "write"
      BY <3>2, <3>4
    <3> QED BY <1>3, <3>4, <3>5, <3>6, WriteHalves DEF HalfWrite
  <2> QED BY <2>1, <2>2
<1> QED BY <1>2, <1>3

\* The strengthened invariant holds in every reachable state.
THEOREM BridgeInvariant ==
    Spec => []IInv
<1>1. Init => IInv
  <2> SUFFICES ASSUME Init PROVE IInv
    OBVIOUS
  <2>1. IdsOf(<<>>) = <<>>
    <3>1. 1 .. Len(<<>>) = {}
      OBVIOUS
    <3> QED BY <3>1, IdsOfSeq, EmptySeq
  <2>2. OwesNone(pending, resp, owedB, owedR, req)
    BY <2>1 DEF Init, OwesNone
  <2>3. HalfWrite
    BY DEF Init, HalfWrite
  <2>4. /\ req \in Seq(Request) /\ Len(req) <= FifoDepth
        /\ resp \in Seq(Ids) /\ Len(resp) <= FifoDepth
    <3>1. req = <<>> /\ resp = <<>> /\ Len(<<>>) = 0 /\ Len(<<>>) <= FifoDepth
      BY EmptySeq DEF Init, FifoDepth
    <3> QED BY <3>1, EmptySeq
  <2>5. /\ pending \in BOOLEAN /\ awInhibit \in BOOLEAN /\ wInhibit \in BOOLEAN
        /\ pins \in Pins /\ Driven(pins, slvAw, slvW, owedB, owedR)
    BY DEF Init
  <2> QED BY <2>2, <2>3, <2>4, <2>5 DEF IInv, Owes
<1>2. IInv /\ [Next]_vars => IInv'
  <2> SUFFICES ASSUME IInv, [Next]_vars PROVE IInv'
    OBVIOUS
  <2>1. CASE UNCHANGED vars
    BY <2>1 DEF vars, regs, slave, IInv, HalfWrite
  <2>2. CASE Clock
    <3>1. /\ Bridge /\ Slave /\ pins' \in Pins
          /\ Driven(pins', slvAw', slvW', owedB', owedR')
      BY <2>2 DEF Clock
    <3>2. HalfWrite' /\ awInhibit' \in BOOLEAN /\ wInhibit' \in BOOLEAN
      BY <3>1, HalfWriteStays, WriteHalves
    <3>3. pending' \in BOOLEAN
      BY <3>1 DEF Bridge, Pending, IInv
    <3>4. /\ req' = Came(Left(req, req_pop), pins.mem, accepted)
          /\ resp' = Came(Left(resp, mem_ack), pins.mem.id, accepted)
      BY <3>1, Queues
    <3>5. /\ mem_ack \in BOOLEAN /\ req_pop \in BOOLEAN /\ accepted \in BOOLEAN
          /\ accepted => pins.mem \in Request /\ Len(req) # FifoDepth /\ Len(resp) # FifoDepth
          /\ req_pop => req # <<>>
          /\ mem_ack => resp # <<>>
          /\ accepted => pins.mem.id \in Ids
      BY PinTypes, Pops, AfterAck DEF Request
    <3>6. /\ Left(req, req_pop) \in Seq(Request)
          /\ req' \in Seq(Request) /\ Len(req') <= FifoDepth
      BY <3>4, <3>5, LengthBound DEF IInv
    <3>7. /\ Left(resp, mem_ack) \in Seq(Ids)
          /\ resp' \in Seq(Ids) /\ Len(resp') <= FifoDepth
      BY <3>4, <3>5, LengthBound DEF IInv
    <3>8. Owes(pending', resp', owedB', owedR', req')
      <4>1. Owes(pending', Left(resp, mem_ack), owedB', owedR', Left(req, req_pop))
        BY <3>1, NewlyOwed
      <4> QED BY <3>4, <3>5, <3>6, <3>7, <4>1, OwesCame
    <3> QED BY <3>1, <3>2, <3>3, <3>6, <3>7, <3>8 DEF IInv
  <2> QED BY <2>1, <2>2 DEF Next
<1> QED BY <1>1, <1>2, PTL DEF Spec

-----------------------------------------------------------------------------
(* The checked properties.                                                 *)

\* What is owed, read off the invariant.
LEMMA OwedShape ==
    ASSUME IInv
    PROVE  \/ /\ ~pending /\ owedB = <<>> /\ owedR = <<>>
              /\ Owed = <<>> /\ Len(Owed) = 0
              /\ resp = IdsOf(req)
           \/ \E i \in Ids :
                /\ pending /\ Owed = <<i>> /\ Len(Owed) = 1
                /\ resp = <<i>> \o IdsOf(req)
                /\ \/ owedB = <<Answer(i)>> /\ owedR = <<>>
                   \/ owedB = <<>> /\ owedR = <<i>>
<1>1. 1 .. Len(<<>>) = {} /\ 1 .. 1 = {1} /\ Len(<<>>) = 0
  OBVIOUS
<1>2. owedB = <<>> => [j \in 1 .. Len(owedB) |-> owedB[j].addr] = <<>>
  BY <1>1
<1>3. CASE OwesNone(pending, resp, owedB, owedR, req)
  <2>1. owedB = <<>> /\ owedR = <<>> /\ <<>> \o <<>> = <<>>
    BY <1>3, EmptySeq, ConcatEmptySeq DEF OwesNone
  <2>2. Owed = <<>>
    BY <1>2, <2>1 DEF Owed
  <2> QED BY <1>1, <1>3, <2>1, <2>2 DEF OwesNone
<1>4. ASSUME NEW i \in Ids, OwesOne(pending, resp, owedB, owedR, req, i)
      PROVE  Owed = <<i>> /\ Len(Owed) = 1
  <2>1. <<i>> \in Seq(Ids) /\ Len(<<i>>) = 1
    OBVIOUS
  <2>2. <<i>> \o <<>> = <<i>> /\ <<>> \o <<i>> = <<i>>
    BY <2>1, ConcatEmptySeq
  <2>3. CASE owedB = <<Answer(i)>> /\ owedR = <<>>
    <3>1. Len(owedB) = 1 /\ owedB[1].addr = i
      BY <2>3 DEF Answer
    <3>2. [j \in 1 .. Len(owedB) |-> owedB[j].addr] = <<i>>
      BY <1>1, <3>1
    <3> QED BY <2>1, <2>2, <2>3, <3>2 DEF Owed
  <2>4. CASE owedB = <<>> /\ owedR = <<i>>
    BY <1>2, <2>1, <2>2, <2>4 DEF Owed
  <2> QED BY <1>4, <2>3, <2>4 DEF OwesOne
<1> QED BY <1>3, <1>4 DEF IInv, Owes, OwesOne

\* TypeOK, with the capacity of the two queues.
THEOREM BridgeTypes ==
    Spec => []TypeOK
<1>1. ASSUME IInv PROVE TypeOK
  <2>1. slvAw \in Seq(Ids) /\ slvW \in Seq(Ids)
    <3>1. req # <<>> => Head(req).id \in Ids
      <4>1. req \in Seq(Request)
        BY <1>1 DEF IInv
      <4>2. req # <<>> => Head(req) \in Request
        BY <4>1, HeadTailProperties
      <4> QED BY <4>2 DEF Request
    <3>2. \A i \in Ids : <<i>> \in Seq(Ids)
      OBVIOUS
    <3>3. <<>> \in Seq(Ids)
      BY EmptySeq
    <3> QED BY <1>1, <3>1, <3>2, <3>3 DEF IInv, HalfWrite
  <2>2. owedB \in Seq([addr : Ids, data : Ids]) /\ owedR \in Seq(Ids)
    <3>1. /\ \A i \in Ids : <<i>> \in Seq(Ids) /\ <<Answer(i)>> \in Seq([addr : Ids, data : Ids])
          /\ <<>> \in Seq(Ids) /\ <<>> \in Seq([addr : Ids, data : Ids])
      BY EmptySeq DEF Answer
    <3> QED BY <1>1, <3>1, OwedShape
  <2> QED BY <1>1, <2>1, <2>2 DEF IInv, TypeOK
<1> QED BY <1>1, BridgeInvariant, PTL

\* QueuesInStep: the tag queue matches the request
\* queue, and the bus holds one request at most, whichever half of it came
\* first.
THEOREM BridgeInStep ==
    Spec => []QueuesInStep
<1>1. ASSUME IInv PROVE QueuesInStep
  <2>1. HalfWrite
    BY <1>1 DEF IInv
  <2>2. IdsOf(req) \in Seq(Ids) /\ <<>> \o IdsOf(req) = IdsOf(req)
    BY <1>1, IdsOfSeq, ConcatEmptySeq DEF IInv
  <2>3. TagsInStep
    BY <1>1, <2>2, OwedShape DEF TagsInStep, IdsOf
  <2>4. Len(Owed) = IF pending THEN 1 ELSE 0
    BY <1>1, OwedShape
  <2>5. Len(slvAw) + Len(slvW) + Len(Owed) <= 1
    <3>1. Len(<<>>) = 0 /\ Len(<<Head(req).id>>) = 1
      OBVIOUS
    <3>2. /\ Len(slvAw) = IF awInhibit THEN 1 ELSE 0
          /\ Len(slvW) = IF wInhibit THEN 1 ELSE 0
          /\ ~(awInhibit /\ wInhibit)
          /\ awInhibit \/ wInhibit => ~pending
      BY <2>1, <3>1 DEF HalfWrite
    <3> QED BY <2>4, <3>2
  <2> QED BY <2>1, <2>3, <2>4, <2>5 DEF OneOutstanding, QueuesInStep
<1> QED BY <1>1, BridgeInvariant, PTL

\* WritesPaired: the slave never joins the halves of two writes.
THEOREM HalvesBelongTogether ==
    Spec => []WritesPaired
<1>1. ASSUME IInv PROVE WritesPaired
  <2>1. \A i : Answer(i).addr = Answer(i).data /\ <<Answer(i)>>[1] = Answer(i) /\ Len(<<Answer(i)>>) = 1
    BY DEF Answer
  <2>2. 1 .. Len(<<>>) = {} /\ 1 .. 1 = {1}
    OBVIOUS
  <2> QED BY <1>1, <2>1, <2>2, OwedShape DEF WritesPaired
<1> QED BY <1>1, BridgeInvariant, PTL

\* AckMatches: an acknowledge carries the tag of the request it answers.
THEOREM RightTag ==
    Spec => []AckMatches
<1>1. ASSUME IInv, mem_ack PROVE /\ Resp!Valid
                                /\ ~(pins.bvalid /\ pins.rvalid)
                                /\ mem_resp_tag = IF pins.bvalid THEN owedB[1].addr ELSE owedR[1]
  <2>1. resp # <<>> /\ ~(pins.bvalid /\ pins.rvalid) /\ pending
    BY <1>1, AfterAck
  <2>2. PICK i \in Ids : /\ resp = <<i>> \o IdsOf(req)
                         /\ \/ owedB = <<Answer(i)>> /\ owedR = <<>>
                            \/ owedB = <<>> /\ owedR = <<i>>
    BY <1>1, <2>1, OwedShape
  <2>3. Head(resp) = i
    BY <1>1, <2>2, IdsOfSeq, FrontItem DEF IInv
  <2>4. <<Answer(i)>>[1].addr = i /\ <<i>>[1] = i
    BY DEF Answer
  <2>5. /\ pins.bvalid => owedB # <<>>
        /\ pins.rvalid => owedR # <<>>
        /\ pins.bvalid \/ pins.rvalid
    BY <1>1 DEF IInv, Driven, mem_ack
  <2> QED BY <2>1, <2>2, <2>3, <2>4, <2>5 DEF Resp!Valid, mem_resp_tag
<1>2. IInv => AckMatches
  BY <1>1 DEF AckMatches
<1> QED BY <1>2, BridgeInvariant, PTL

\* A request that is not taken whole stays the oldest, and no answer is waited for.
LEMMA OfferedAgain ==
    ASSUME IInv, Bridge, Req!Valid, ~request_in_progress, ~req_pop
    PROVE  Req!Valid' /\ Head(req') = Head(req) /\ ~request_in_progress'
<1>1. req' = Came(req, pins.mem, accepted)
  BY Queues DEF Left
<1>2. req # <<>> /\ req \in Seq(Request)
  BY DEF Req!Valid, IInv
<1>3. req' # <<>> /\ Head(req') = Head(req)
  BY <1>1, <1>2, OldestStays, PinTypes
<1>4. ~pending'
  BY Pops DEF Bridge, Pending, request_in_progress
<1> QED BY <1>3, <1>4 DEF Req!Valid, request_in_progress

\* HandshakesStable: whatever the CPU sends and whenever the slave answers or takes the other
\* half of a write, what is offered and not taken is offered again, unchanged.
THEOREM OffersStand == Spec => HandshakesStable
<1>1. ASSUME IInv, Clock, awvalid, ~pins.awready
      PROVE  awvalid' /\ Head(req') = Head(req)
  <2>1. req_is_write /\ ~awInhibit /\ ~write_complete /\ ~read_complete
    BY <1>1 DEF awvalid, write_complete, read_complete, arvalid, req_is_write, req_is_read
  <2>2. ~req_pop /\ Req!Valid /\ ~request_in_progress /\ Head(req).op = "write" /\ Bridge
    BY <1>1, <2>1 DEF req_pop, req_is_write, Clock
  <2>3. Req!Valid' /\ Head(req') = Head(req) /\ ~request_in_progress'
    BY <1>1, <2>2, OfferedAgain
  <2>4. ~awInhibit'
    BY <1>1, <2>1, <2>2 DEF Bridge, AwInhibit
  <2> QED BY <2>2, <2>3, <2>4 DEF awvalid, req_is_write
<1>2. ASSUME IInv, Clock, wvalid, ~pins.wready
      PROVE  wvalid' /\ Head(req') = Head(req)
  <2>1. req_is_write /\ ~wInhibit /\ ~write_complete /\ ~read_complete
    BY <1>2 DEF wvalid, write_complete, read_complete, arvalid, req_is_write, req_is_read
  <2>2. ~req_pop /\ Req!Valid /\ ~request_in_progress /\ Head(req).op = "write" /\ Bridge
    BY <1>2, <2>1 DEF req_pop, req_is_write, Clock
  <2>3. Req!Valid' /\ Head(req') = Head(req) /\ ~request_in_progress'
    BY <1>2, <2>2, OfferedAgain
  <2>4. ~wInhibit'
    BY <1>2, <2>1, <2>2 DEF Bridge, WInhibit
  <2> QED BY <2>2, <2>3, <2>4 DEF wvalid, req_is_write
<1>3. ASSUME IInv, Clock, arvalid, ~pins.arready
      PROVE  arvalid' /\ Head(req') = Head(req)
  <2>1. req_is_read /\ ~write_complete /\ ~read_complete
    BY <1>3 DEF arvalid, write_complete, read_complete, req_is_write, req_is_read
  <2>2. ~req_pop /\ Req!Valid /\ ~request_in_progress /\ Head(req).op = "read" /\ Bridge
    BY <1>3, <2>1 DEF req_pop, req_is_read, Clock
  <2>3. Req!Valid' /\ Head(req') = Head(req) /\ ~request_in_progress'
    BY <1>3, <2>2, OfferedAgain
  <2> QED BY <2>2, <2>3 DEF arvalid, req_is_read
<1>4. IInv /\ [Next]_vars =>
        [/\ awvalid /\ ~pins.awready => awvalid' /\ Head(req') = Head(req)
         /\ wvalid /\ ~pins.wready => wvalid' /\ Head(req') = Head(req)
         /\ arvalid /\ ~pins.arready => arvalid' /\ Head(req') = Head(req)]_vars
  BY <1>1, <1>2, <1>3 DEF Next
<1> QED BY <1>4, BridgeInvariant, PTL DEF Spec, HandshakesStable

-----------------------------------------------------------------------------
(* Refinement                                                              *)

PerformedOf(b, r) ==
    [i \in 1 .. Len(b) |-> [op |-> "write", id |-> b[i].addr]]
    \o [i \in 1 .. Len(r) |-> [op |-> "read", id |-> r[i]]]

\* What is performed, for each kind of answer owed.
LEMMA PerformedShapes ==
    /\ PerformedOf(<<>>, <<>>) = <<>>
    /\ \A i : PerformedOf(<<Answer(i)>>, <<>>) = <<[op |-> "write", id |-> i]>>
    /\ \A i : PerformedOf(<<>>, <<i>>) = <<[op |-> "read", id |-> i]>>
<1>1. 1 .. Len(<<>>) = {} /\ 1 .. 1 = {1} /\ Len(<<>>) = 0
  OBVIOUS
<1>2. \A x : <<x>> \o <<>> = <<x>> /\ <<>> \o <<x>> = <<x>>
  <2>1. \A x : <<x>> \in Seq({x})
    OBVIOUS
  <2> QED BY <2>1, ConcatEmptySeq
<1>3. <<>> \o <<>> = <<>>
  BY EmptySeq, ConcatEmptySeq
<1> DEFINE e1 == [i \in 1 .. Len(<<>>) |-> [op |-> "write", id |-> <<>>[i].addr]]
           e2 == [i \in 1 .. Len(<<>>) |-> [op |-> "read", id |-> <<>>[i]]]
<1>4. e1 = <<>> /\ e2 = <<>>
  BY <1>1
<1>5. PerformedOf(<<>>, <<>>) = <<>>
  BY <1>3, <1>4 DEF PerformedOf
<1>6. ASSUME NEW i PROVE PerformedOf(<<Answer(i)>>, <<>>) = <<[op |-> "write", id |-> i]>>
  <2>1. Len(<<Answer(i)>>) = 1 /\ <<Answer(i)>>[1].addr = i
    BY DEF Answer
  <2>2. [j \in 1 .. Len(<<Answer(i)>>) |-> [op |-> "write", id |-> <<Answer(i)>>[j].addr]]
          = <<[op |-> "write", id |-> i]>>
    BY <1>1, <2>1
  <2> QED BY <1>2, <1>4, <2>2 DEF PerformedOf
<1>7. ASSUME NEW i PROVE PerformedOf(<<>>, <<i>>) = <<[op |-> "read", id |-> i]>>
  <2>1. Len(<<i>>) = 1 /\ <<i>>[1] = i
    OBVIOUS
  <2>2. [j \in 1 .. Len(<<i>>) |-> [op |-> "read", id |-> <<i>>[j]]] = <<[op |-> "read", id |-> i]>>
    BY <1>1, <2>1
  <2> QED BY <1>2, <1>4, <2>2 DEF PerformedOf
<1> QED BY <1>5, <1>6, <1>7

\* A step of the bridge and its slave is a step of a memory port, which
\* accepts what the CPU is told was accepted and performs a request when it
\* enters the bus.
LEMMA StepImplements ==
    ASSUME IInv, Clock, IInv' PROVE Port!Next
<1> DEFINE reqs == IF accepted THEN <<pins.mem>> ELSE <<>>
           queued == req \o reqs
           h == Head(req)
<1>1. /\ mem_ack \in BOOLEAN /\ req_pop \in BOOLEAN /\ accepted \in BOOLEAN
      /\ accepted => pins.mem \in Request
      /\ req \in Seq(Request)
      /\ req_pop => req # <<>>
  BY PinTypes, Pops DEF IInv
<1>2. queued = Came(req, pins.mem, accepted)
  <2>1. CASE accepted
    BY <1>1, <2>1, AppendIsConcat DEF Came
  <2>2. CASE ~accepted
    BY <1>1, <2>2, ConcatEmptySeq DEF Came
  <2> QED BY <2>1, <2>2
<1>3. req_pop => queued # <<>> /\ Head(queued) = h
  BY <1>1, <1>2, OldestStays
<1>4. req' = IF req_pop THEN Tail(queued) ELSE queued
  <2>1. req' = Came(Left(req, req_pop), pins.mem, accepted)
    BY Queues DEF Clock
  <2>2. CASE req_pop
    <3>1. accepted => Tail(Append(req, pins.mem)) = Append(Tail(req), pins.mem)
      BY <1>1, <2>2, HeadTailAppend
    <3> QED BY <1>2, <2>1, <2>2, <3>1 DEF Came, Left
  <2>3. CASE ~req_pop
    BY <1>2, <2>1, <2>3 DEF Left
  <2> QED BY <2>2, <2>3
<1>5. /\ mem_ack => Performed # <<>>
      /\ Performed' = Left(Performed, mem_ack) \o (IF req_pop THEN <<h>> ELSE <<>>)
  <2>1. /\ Performed = PerformedOf(owedB, owedR)
        /\ Performed' = PerformedOf(owedB', owedR')
    BY DEF Performed, PerformedOf
  <2>2. /\ ~pending => Performed = <<>>
        /\ pending => \E x : Performed = <<x>>
    BY <2>1, OwedShape, PerformedShapes
  <2>3. mem_ack => pending
    BY AfterAck
  <2>4. \A x : <<x>> # <<>> /\ Tail(<<x>>) = <<>> /\ <<x>> \o <<>> = <<x>> /\ <<>> \o <<x>> = <<x>>
    <3>1. \A x : <<x>> \in Seq({x})
      OBVIOUS
    <3>2. \A x : <<x>> # <<>> /\ Tail(<<x>>) = <<>>
      OBVIOUS
    <3> QED BY <3>1, <3>2, ConcatEmptySeq
  <2>5. mem_ack => Performed # <<>> /\ Left(Performed, mem_ack) = <<>>
    BY <2>2, <2>3, <2>4 DEF Left
  <2>6. ~mem_ack => Left(Performed, mem_ack) = Performed
    BY DEF Left
  <2>7. <<>> \o <<>> = <<>>
    BY EmptySeq, ConcatEmptySeq
  <2>8. CASE ~req_pop
    <3>1. owedB' = Drop(owedB, pins.bvalid) /\ owedR' = Drop(owedR, pins.rvalid)
      BY <2>8, Pops, WriteHalves DEF Clock, Slave, read_complete
    <3>2. CASE mem_ack
      <4>1. OwesNone(pending /\ ~mem_ack, Left(resp, mem_ack),
                     Drop(owedB, pins.bvalid), Drop(owedR, pins.rvalid), req)
        BY <3>2, AfterAck DEF Owes, OwesOne
      <4>2. Performed' = <<>>
        BY <2>1, <3>1, <4>1, PerformedShapes DEF OwesNone
      <4> QED BY <2>5, <2>7, <2>8, <3>2, <4>2
    <3>3. CASE ~mem_ack
      <4>1. owedB' = owedB /\ owedR' = owedR
        BY <3>1, <3>3 DEF Drop, mem_ack
      <4>2. Performed' = Performed /\ Performed \o <<>> = Performed
        BY <2>1, <2>2, <2>4, <2>7, <4>1
      <4> QED BY <2>6, <2>8, <3>3, <4>2
    <3> QED BY <3>2, <3>3
  <2>9. CASE req_pop
    <3>1. OwesNone(pending /\ ~mem_ack, Left(resp, mem_ack),
                   Drop(owedB, pins.bvalid), Drop(owedR, pins.rvalid), req)
      BY <2>9, AfterAck
    <3>2. Left(Performed, mem_ack) = <<>>
      BY <2>2, <2>5, <2>6, <3>1 DEF OwesNone
    <3>3. h \in [op : {"read", "write"}, id : Ids]
      BY <1>1, <2>9, HeadTailProperties DEF Request
    <3>4. Append(<<>>, h.id) = <<h.id>> /\ Append(<<>>, Answer(h.id)) = <<Answer(h.id)>>
      OBVIOUS
    <3>5. CASE write_complete
      <4>1. owedB' = <<Answer(h.id)>>
        BY <3>1, <3>4, <3>5, WriteHalves DEF Clock, OwesNone
      <4>2. owedR' = <<>>
        BY <3>1, <3>5, Pops DEF Clock, Slave, read_complete, OwesNone
      <4>3. h = [op |-> "write", id |-> h.id]
        BY <3>3, <3>5, Pops
      <4>4. Performed' = <<h>>
        BY <2>1, <4>1, <4>2, <4>3, PerformedShapes
      <4> QED BY <2>4, <2>5, <2>9, <3>2, <4>4
    <3>6. CASE read_complete
      <4>1. owedR' = <<h.id>>
        BY <3>1, <3>4, <3>6 DEF Clock, Slave, read_complete, OwesNone
      <4>2. owedB' = <<>>
        BY <3>1, <3>6, Pops, WriteHalves DEF Clock, OwesNone
      <4>3. h = [op |-> "read", id |-> h.id]
        BY <3>3, <3>6, Pops
      <4>4. Performed' = <<h>>
        BY <2>1, <4>1, <4>2, <4>3, PerformedShapes
      <4> QED BY <2>4, <2>5, <2>9, <3>2, <4>4
    <3> QED BY <2>9, <3>5, <3>6, Pops
  <2> QED BY <2>5, <2>8, <2>9
<1>6. Port!Cycle(reqs, req_pop, mem_ack)
  <2> HIDE DEF h
  <2>1. Performed' = (IF mem_ack THEN Tail(Performed) ELSE Performed)
                      \o (IF req_pop THEN <<Head(queued)>> ELSE <<>>)
    BY <1>3, <1>5 DEF Left
  <2> QED BY <1>3, <1>4, <1>5, <2>1 DEF Port!Cycle
<1>7. reqs = <<>> \/ \E r \in Request : reqs = <<r>>
  BY <1>1
<1> HIDE DEF reqs
<1> QED BY <1>1, <1>6, <1>7 DEF Port!Next

\* ImplementsMemPort: for every set of requests, the bridge and its slave
\* perform each accepted request once and in order, and answer it.
THEOREM BridgeIsPort ==
    Spec => ImplementsMemPort
<1>1. Init => Port!Init
  BY PerformedShapes DEF Init, Port!Init, Performed, PerformedOf
<1>2. IInv /\ IInv' /\ [Next]_vars => [Port!Next]_<<req, Performed>>
  <2> SUFFICES ASSUME IInv, IInv', [Next]_vars PROVE [Port!Next]_<<req, Performed>>
    OBVIOUS
  <2>1. CASE UNCHANGED vars
    BY <2>1 DEF vars, regs, slave, Performed
  <2>2. CASE Clock
    BY <2>2, StepImplements
  <2> QED BY <2>1, <2>2 DEF Next
<1> QED BY <1>1, <1>2, BridgeInvariant, PTL DEF Spec, ImplementsMemPort, Port!Spec

-----------------------------------------------------------------------------
(* The bridge with the ring.                                               *)

\* The ring takes nothing from the bridge: with it, the bridge does what DportAxi lets it do,
\* and what is proved of that holds (dport_axi.v 146-163).
THEOREM RingIsAside == RingsSpec => Spec
<1>1. RingsInit => Init
  BY DEF RingsInit
<1>2. [RingsNext]_ringvars => [Next]_vars
  BY DEF RingsNext, Next, ringvars
<1> QED BY <1>1, <1>2, PTL DEF RingsSpec, Spec

\* The inputs of the bridge keep their types.
TypedPins == pins \in Pins

\* One edge: the ring does what the queue of DportAxi does, with no request offered as well,
\* when there is no tag to push.
LEMMA SameEdge ==
    ASSUME FifoInv, Contents = resp, TypedPins, Clock, RespClock
    PROVE  FifoInv' /\ Contents' = resp'
<1> DEFINE push == res_push
           pop  == mem_ack
<1>1. push \in BOOLEAN /\ pop \in BOOLEAN
  BY DEF res_push, mem_ack, TypedPins, Pins
<1>2. Resp!Clock(push, pins.mem.id, pop)
  BY DEF Clock, Bridge
<1>3. Data # {}
  <2>1. ram \in [Slots -> Data] /\ 0 \in Slots
    BY DepthAssumption DEF FifoInv, FifoTypeOK, Slots
  <2> QED BY <2>1
<1>4. PICK x \in Data : /\ push => x = pins.mem.id
                        /\ FifoClock(push, x, pop) /\ Resp!Clock(push, x, pop)
  <2>1. CASE push
    <3>1. pins.mem \in Request
      BY <2>1 DEF res_push, mem_request, TypedPins, Pins
    <3>2. pins.mem.id \in Data
      BY <3>1, RingAssumption DEF Request
    <3> QED BY <1>2, <3>2 DEF RespClock
  <2>2. CASE ~push
    <3>1. PICK d : d \in Data
      BY <1>3
    <3>2. FifoClock(push, d, pop)
      BY <2>2 DEF RespClock, FifoClock, PushSlot, PopSlot, Count
    <3>3. Resp!Clock(push, d, pop)
      BY <1>2, <2>2 DEF Resp!Clock
    <3> QED BY <2>2, <3>1, <3>2, <3>3
  <2> QED BY <2>1, <2>2
<1> HIDE DEF push, pop
<1>5. FifoNext
  BY <1>1, <1>4 DEF FifoNext
<1>6. FifoInv'
  BY <1>5, RingStep
<1>7. Queue!Clock(push, x, pop)
  BY <1>1, <1>4, ClockImplements
<1>8. Contents' = resp'
  BY <1>4, <1>7, RingAssumption
     DEF Queue!Clock, Queue!Accept, Queue!Valid,
         Resp!Clock, Resp!Accept, Resp!Valid
<1> QED BY <1>6, <1>8

\* The ring of slots and wrapping pointers, put where the bridge has its queue of tags, holds
\* at every moment what that queue holds (dport_axi.v 146-163, 279-312).
THEOREM RingStaysInPlace == RingsSpec => []RingInPlace
<1>1. RingsInit => RingInPlace /\ TypedPins
  <2> SUFFICES ASSUME RingsInit PROVE RingInPlace /\ TypedPins
    OBVIOUS
  <2>1. FifoInv
    BY RingStart DEF RingsInit
  <2>2. Contents = <<>>
    BY EmptyStart DEF RingsInit, Queue!Init
  <2> QED BY <2>1, <2>2 DEF RingsInit, Init, RingInPlace, TypedPins
<1>2. RingInPlace /\ TypedPins /\ [RingsNext]_ringvars => RingInPlace' /\ TypedPins'
  <2> SUFFICES ASSUME RingInPlace, TypedPins, [RingsNext]_ringvars
               PROVE  RingInPlace' /\ TypedPins'
    OBVIOUS
  <2>1. CASE UNCHANGED ringvars
    <3>1. UNCHANGED fifovars /\ resp' = resp /\ pins' = pins
      BY <2>1 DEF ringvars, vars, regs
    <3>2. FifoInv'
      BY <3>1 DEF RingInPlace, FifoInv, FifoTypeOK, PointersAgree, fifovars, Wrap
    <3>3. Contents' = Contents
      BY <3>1 DEF fifovars, Contents, Ring, Wrap
    <3> QED BY <3>1, <3>2, <3>3 DEF RingInPlace, TypedPins, Pins
  <2>2. CASE RingsNext
    <3>1. FifoInv' /\ Contents' = resp'
      BY <2>2, SameEdge DEF RingsNext, RingInPlace
    <3>2. TypedPins'
      BY <2>2 DEF RingsNext, Clock, TypedPins, Pins
    <3> QED BY <3>1, <3>2 DEF RingInPlace
  <2> QED BY <2>1, <2>2 DEF RingsNext
<1> QED BY <1>1, <1>2, PTL DEF RingsSpec
=============================================================================
