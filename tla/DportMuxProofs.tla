--------------------------- MODULE DportMuxProofs ---------------------------
(***************************************************************************)
(* The multiplexer's counter and routing, for every number of requests a   *)
(* side may hold that the 5-bit counter can count, as long as no cache     *)
(* operation is sent to the peripherals.                                   *)
(***************************************************************************)
EXTENDS DportMux, QueueLemmas

\* The assumption of every theorem here: the peripherals, which never answer
\* a cache operation, are not sent one.
NoExtCacheOps == CacheOpTargets \subseteq {"tcm"}

\* The queues of a side, and the room it has.
SideType(todo, done) ==
    /\ todo \in Seq(Request) /\ done \in Seq(Request)
    /\ Outstanding(todo, done) \in 0 .. SideDepth

\* What holds of every reachable state.
IInv ==
    /\ tcm_access_q \in BOOLEAN
    /\ pins \in Pins
    /\ SideType(tcmTodo, tcmDone)
    /\ SideType(extTodo, extDone)
    /\ Driven(pins, tcmTodo, tcmDone, extTodo, extDone)
    /\ PendingCounts

\* The request each side takes in this cycle.
TcmTakes == IF tcm_request /\ pins.tcmAccept THEN <<pins.mem>> ELSE <<>>
ExtTakes == IF ext_request /\ pins.extAccept /\ pins.mem.op # "cache"
            THEN <<pins.mem>> ELSE <<>>

\* A side takes the accepted request exactly if it is the one addressed.
LEMMA Takes ==
    ASSUME NoExtCacheOps, IInv
    PROVE  /\ accepted => pins.mem \in Request
           /\ TcmTakes = IF accepted /\ tcm_access THEN <<pins.mem>> ELSE <<>>
           /\ ExtTakes = IF accepted /\ ~tcm_access THEN <<pins.mem>> ELSE <<>>
<1>1. request => pins.mem \in Request
  BY DEF IInv, Pins, request, NoRequest
<1>2. request /\ ~tcm_access => pins.mem.op # "cache"
  BY <1>1, CacheOpAssumption DEF NoExtCacheOps, Request, tcm_access
<1> QED
  BY <1>1, <1>2 DEF TcmTakes, ExtTakes, tcm_request, ext_request, accepted, mem_accept

\* How many requests a side owes after a cycle in which it took some (a
\* sequence of at most one) and may have acknowledged one.
SideMoves(todo, done, takes, ack, todo2, done2) ==
    /\ todo2 \in Seq(Request) /\ done2 \in Seq(Request)
    /\ ack => Outstanding(todo2, done2) = Outstanding(todo, done) + Len(takes) - 1
    /\ ~ack => Outstanding(todo2, done2) = Outstanding(todo, done) + Len(takes)

\* A cycle of a memory port moves the outstanding requests of its side.
LEMMA SideCycle ==
    ASSUME NEW todo \in Seq(Request), NEW done \in Seq(Request),
           NEW reqs \in Seq(Request), NEW perform \in BOOLEAN, NEW ack \in BOOLEAN,
           Possible(todo, done, reqs, perform, ack)
    PROVE  SideMoves(todo, done, reqs, ack, TodoNext(todo, reqs, perform),
                     DoneNext(todo, done, reqs, perform, ack))
BY CycleLengths DEF SideMoves, Outstanding

\* Both sides, in every clock cycle.
LEMMA SideStep ==
    ASSUME NoExtCacheOps, IInv, Clock
    PROVE  /\ SideMoves(tcmTodo, tcmDone, TcmTakes, pins.tcmAck, tcmTodo', tcmDone')
           /\ SideMoves(extTodo, extDone, ExtTakes, pins.extAck, extTodo', extDone')
<1>1. PICK perform \in BOOLEAN : Tcm!Cycle(TcmTakes, perform, pins.tcmAck)
  BY DEF Clock, TcmSide, TcmTakes
<1>2. PICK perform2 \in BOOLEAN : Ext!Cycle(ExtTakes, perform2, pins.extAck)
  BY DEF Clock, ExtSide, ExtTakes
<1>3. pins.tcmAck \in BOOLEAN /\ pins.extAck \in BOOLEAN
  BY DEF IInv, Pins
<1>4. TcmTakes \in Seq(Request) /\ ExtTakes \in Seq(Request)
  <2>1. ASSUME accepted PROVE <<pins.mem>> \in Seq(Request)
    BY <2>1, Takes
  <2> QED BY <2>1, Takes, EmptySeq
<1>5. /\ tcmTodo \in Seq(Request) /\ tcmDone \in Seq(Request)
      /\ extTodo \in Seq(Request) /\ extDone \in Seq(Request)
  BY DEF IInv, SideType
<1>6. SideMoves(tcmTodo, tcmDone, TcmTakes, pins.tcmAck, tcmTodo', tcmDone')
  <2>1. /\ Possible(tcmTodo, tcmDone, TcmTakes, perform, pins.tcmAck)
        /\ tcmTodo' = TodoNext(tcmTodo, TcmTakes, perform)
        /\ tcmDone' = DoneNext(tcmTodo, tcmDone, TcmTakes, perform, pins.tcmAck)
    BY <1>1 DEF Tcm!Cycle, Possible, TodoNext, DoneNext, Given, Left
  <2>2. SideMoves(tcmTodo, tcmDone, TcmTakes, pins.tcmAck, TodoNext(tcmTodo, TcmTakes, perform),
                  DoneNext(tcmTodo, tcmDone, TcmTakes, perform, pins.tcmAck))
    BY <1>3, <1>4, <1>5, <2>1, SideCycle
  <2> QED BY <2>1, <2>2
<1>7. SideMoves(extTodo, extDone, ExtTakes, pins.extAck, extTodo', extDone')
  <2>1. /\ Possible(extTodo, extDone, ExtTakes, perform2, pins.extAck)
        /\ extTodo' = TodoNext(extTodo, ExtTakes, perform2)
        /\ extDone' = DoneNext(extTodo, extDone, ExtTakes, perform2, pins.extAck)
    BY <1>2 DEF Ext!Cycle, Possible, TodoNext, DoneNext, Given, Left
  <2>2. SideMoves(extTodo, extDone, ExtTakes, pins.extAck, TodoNext(extTodo, ExtTakes, perform2),
                  DoneNext(extTodo, extDone, ExtTakes, perform2, pins.extAck))
    BY <1>3, <1>4, <1>5, <2>1, SideCycle
  <2> QED BY <2>1, <2>2
<1> QED BY <1>6, <1>7

\* An acknowledge comes from the side selected last, and while one is owed no
\* request for the other side is accepted.
LEMMA Routing ==
    ASSUME IInv
    PROVE  /\ pins.tcmAck => tcm_access_q /\ Outstanding(tcmTodo, tcmDone) > 0
           /\ pins.extAck => ~tcm_access_q /\ Outstanding(extTodo, extDone) > 0
           /\ mem_ack <=> pins.tcmAck \/ pins.extAck
           /\ accepted => pending_q = 0 \/ tcm_access_q = tcm_access
           /\ accepted /\ tcm_access => Outstanding(tcmTodo, tcmDone) < SideDepth
           /\ accepted /\ ~tcm_access => Outstanding(extTodo, extDone) < SideDepth
<1>1. ASSUME NEW todo \in Seq(Request), NEW done \in Seq(Request), done # <<>>
      PROVE  Outstanding(todo, done) > 0
  <2>1. Len(todo) \in Nat /\ Len(done) \in Nat \ {0}
    BY <1>1, EmptySeq, LenProperties
  <2> DEFINE t == Len(todo) d == Len(done)
  <2>2. t \in Nat /\ d \in Nat \ {0}
    BY <2>1
  <2>3. t + d > 0
    <3> HIDE DEF t, d
    <3> QED BY <2>2
  <2> QED BY <2>3 DEF Outstanding
<1>2. /\ pins.tcmAck => Outstanding(tcmTodo, tcmDone) > 0
      /\ pins.extAck => Outstanding(extTodo, extDone) > 0
  BY <1>1 DEF IInv, SideType, Driven
<1>3. /\ pins.tcmAccept => Outstanding(tcmTodo, tcmDone) < SideDepth
      /\ pins.extAccept => Outstanding(extTodo, extDone) < SideDepth
  BY DEF IInv, Driven, Outstanding
<1>4. /\ tcm_access_q => Outstanding(extTodo, extDone) = 0
      /\ ~tcm_access_q => Outstanding(tcmTodo, tcmDone) = 0
  BY DEF IInv, PendingCounts
<1>5. tcm_access_q \in BOOLEAN /\ pins.tcmAck \in BOOLEAN /\ pins.extAck \in BOOLEAN
  BY DEF IInv, Pins
<1>6. /\ pins.tcmAck => tcm_access_q
      /\ pins.extAck => ~tcm_access_q
  BY <1>2, <1>4, <1>5
<1> QED BY <1>2, <1>3, <1>5, <1>6 DEF mem_ack, accepted, mem_accept, hold, tcm_access

\* The counter counts, and no answer can come from the side not selected.
THEOREM MuxInvariant ==
    ASSUME NoExtCacheOps PROVE Spec => []IInv
<1>1. Init => IInv
  <2> SUFFICES ASSUME Init PROVE IInv
    OBVIOUS
  <2>1. /\ <<>> \in Seq(Request) /\ Len(<<>>) = 0
        /\ tcmTodo = <<>> /\ tcmDone = <<>> /\ extTodo = <<>> /\ extDone = <<>>
    BY EmptySeq DEF Init, Tcm!Init, Ext!Init
  <2>2. Outstanding(tcmTodo, tcmDone) = 0 /\ Outstanding(extTodo, extDone) = 0
    BY <2>1 DEF Outstanding
  <2>3. SideType(tcmTodo, tcmDone) /\ SideType(extTodo, extDone)
    BY <2>1, <2>2, DepthAssumption DEF SideType, PendingRange
  <2>4. pending_q = Outstanding(tcmTodo, tcmDone) + Outstanding(extTodo, extDone)
    BY <2>2 DEF Init
  <2>5. tcm_access_q \in BOOLEAN
    BY DEF Init
  <2> QED BY <2>2, <2>3, <2>4, <2>5 DEF Init, IInv, PendingCounts
<1>2. IInv /\ [Next]_vars => IInv'
  <2> SUFFICES ASSUME IInv, [Next]_vars PROVE IInv'
    OBVIOUS
  <2>1. CASE UNCHANGED vars
    BY <2>1 DEF vars, IInv, PendingCounts, SideType, Driven, Outstanding
  <2>2. CASE Clock
    <3> DEFINE t  == Outstanding(tcmTodo, tcmDone)
               e  == Outstanding(extTodo, extDone)
               t2 == Outstanding(tcmTodo', tcmDone')
               e2 == Outstanding(extTodo', extDone')
    <3>1. /\ SideMoves(tcmTodo, tcmDone, TcmTakes, pins.tcmAck, tcmTodo', tcmDone')
          /\ SideMoves(extTodo, extDone, ExtTakes, pins.extAck, extTodo', extDone')
      BY <2>2, SideStep
    <3>2. /\ accepted /\ tcm_access => Len(TcmTakes) = 1 /\ Len(ExtTakes) = 0
          /\ accepted /\ ~tcm_access => Len(TcmTakes) = 0 /\ Len(ExtTakes) = 1
          /\ ~accepted => Len(TcmTakes) = 0 /\ Len(ExtTakes) = 0
      BY Takes, EmptySeq
    <3>3. /\ t \in 0 .. SideDepth /\ e \in 0 .. SideDepth
          /\ pending_q = t + e
          /\ tcm_access_q => e = 0
          /\ ~tcm_access_q => t = 0
      BY DEF IInv, SideType, PendingCounts
    <3>4. /\ pins.tcmAck => tcm_access_q /\ t > 0
          /\ pins.extAck => ~tcm_access_q /\ e > 0
          /\ mem_ack <=> pins.tcmAck \/ pins.extAck
          /\ accepted => pending_q = 0 \/ tcm_access_q = tcm_access
          /\ accepted /\ tcm_access => t < SideDepth
          /\ accepted /\ ~tcm_access => e < SideDepth
      BY Routing
    <3>5. /\ pins.tcmAck => t2 = t + Len(TcmTakes) - 1
          /\ ~pins.tcmAck => t2 = t + Len(TcmTakes)
          /\ pins.extAck => e2 = e + Len(ExtTakes) - 1
          /\ ~pins.extAck => e2 = e + Len(ExtTakes)
      BY <3>1 DEF SideMoves
    <3>6. /\ accepted /\ tcm_access =>
               /\ pins.tcmAck => t2 = t
               /\ ~pins.tcmAck => t2 = t + 1
               /\ pins.extAck => e2 = e - 1
               /\ ~pins.extAck => e2 = e
          /\ accepted /\ ~tcm_access =>
               /\ pins.tcmAck => t2 = t - 1
               /\ ~pins.tcmAck => t2 = t
               /\ pins.extAck => e2 = e
               /\ ~pins.extAck => e2 = e + 1
          /\ ~accepted =>
               /\ pins.tcmAck => t2 = t - 1
               /\ ~pins.tcmAck => t2 = t
               /\ pins.extAck => e2 = e - 1
               /\ ~pins.extAck => e2 = e
      <4> HIDE DEF t, e, t2, e2
      <4>1. t \in Int /\ e \in Int
        BY <3>3, DepthAssumption DEF PendingRange
      <4>2. CASE accepted /\ tcm_access
        <5>1. Len(TcmTakes) = 1 /\ Len(ExtTakes) = 0
          BY <3>2, <4>2
        <5> QED BY <3>5, <4>1, <4>2, <5>1
      <4>3. CASE accepted /\ ~tcm_access
        <5>1. Len(TcmTakes) = 0 /\ Len(ExtTakes) = 1
          BY <3>2, <4>3
        <5> QED BY <3>5, <4>1, <4>3, <5>1
      <4>4. CASE ~accepted
        <5>1. Len(TcmTakes) = 0 /\ Len(ExtTakes) = 0
          BY <3>2, <4>4
        <5> QED BY <3>5, <4>1, <4>4, <5>1
      <4> QED BY <4>2, <4>3, <4>4
    <3>7. /\ pending_q' = IF accepted /\ ~mem_ack THEN (pending_q + 1) % PendingRange
                          ELSE IF ~accepted /\ mem_ack
                               THEN (pending_q + PendingRange - 1) % PendingRange
                          ELSE pending_q
          /\ tcm_access_q' = IF accepted THEN tcm_access ELSE tcm_access_q
          /\ pins' \in Pins
          /\ Driven(pins', tcmTodo', tcmDone', extTodo', extDone')
      BY <2>2 DEF Clock, Mux, Pending, Access
    <3>8. tcm_access \in BOOLEAN /\ tcm_access_q \in BOOLEAN
      BY DEF tcm_access, IInv
    <3>9. /\ t2 \in 0 .. SideDepth /\ e2 \in 0 .. SideDepth
          /\ pending_q' = t2 + e2
          /\ tcm_access_q' => e2 = 0
          /\ ~tcm_access_q' => t2 = 0
      <4> HIDE DEF t, e, t2, e2
      <4>1. CASE accepted /\ tcm_access
        <5>1. e = 0 /\ ~pins.extAck /\ tcm_access_q'
          <6>1. tcm_access_q'
            BY <3>7, <3>8, <4>1
          <6>2. t \in Int /\ e \in Int /\ t >= 0 /\ e >= 0
            BY <3>3, DepthAssumption DEF PendingRange
          <6>3. e = 0
            <7>1. CASE pending_q = 0
              BY <3>3, <6>2, <7>1
            <7>2. CASE tcm_access_q = tcm_access
              BY <3>3, <4>1, <7>2
            <7> QED BY <3>4, <4>1, <7>1, <7>2
          <6>4. ~pins.extAck
            BY <3>4, <6>2, <6>3
          <6> QED BY <6>1, <6>3, <6>4
        <5>2. e2 = 0 /\ pending_q = t /\ t < SideDepth /\ t \in 0 .. SideDepth
          BY <3>3, <3>4, <3>6, <4>1, <5>1, DepthAssumption DEF PendingRange
        <5>3. CASE pins.tcmAck
          BY <3>4, <3>6, <3>7, <4>1, <5>1, <5>2, <5>3, DepthAssumption DEF PendingRange
        <5>4. CASE ~pins.tcmAck
          <6>1. t2 = t + 1 /\ pending_q' = (pending_q + 1) % PendingRange
            BY <3>4, <3>6, <3>7, <4>1, <5>1, <5>4
          <6> QED BY <5>1, <5>2, <6>1, DepthAssumption DEF PendingRange
        <5> QED BY <5>3, <5>4
      <4>2. CASE accepted /\ ~tcm_access
        BY <3>3, <3>4, <3>6, <3>7, <3>8, <4>2, DepthAssumption DEF PendingRange
      <4>3. CASE ~accepted
        BY <3>3, <3>4, <3>6, <3>7, <3>8, <4>3, DepthAssumption DEF PendingRange
      <4> QED BY <4>1, <4>2, <4>3
    <3>10. SideType(tcmTodo', tcmDone') /\ SideType(extTodo', extDone')
      BY <3>1, <3>9 DEF SideType, SideMoves
    <3>11. tcm_access_q' \in BOOLEAN
      BY <3>7, <3>8
    <3> QED BY <3>7, <3>9, <3>10, <3>11 DEF IInv, PendingCounts, SideType, Outstanding
  <2> QED BY <2>1, <2>2 DEF Next
<1> QED BY <1>1, <1>2, PTL DEF Spec

\* PendingCounts: the register is the number of requests owed.
THEOREM CounterCounts ==
    ASSUME NoExtCacheOps PROVE Spec => []PendingCounts
<1>1. IInv => PendingCounts
  BY DEF IInv
<1> QED BY <1>1, MuxInvariant, PTL

\* AcksPassed: no answer is lost at the output multiplexer.
THEOREM NoAnswerLost ==
    ASSUME NoExtCacheOps PROVE Spec => []AcksPassed
<1>1. IInv => AcksPassed
  BY Routing DEF AcksPassed, mem_resp_tag
<1> QED BY <1>1, MuxInvariant, PTL

-----------------------------------------------------------------------------
(* Refinement                                                              *)

\* A side that owes nothing has empty queues.
LEMMA OwesNothing ==
    ASSUME NEW todo \in Seq(Request), NEW done \in Seq(Request),
           Outstanding(todo, done) = 0
    PROVE  todo = <<>> /\ done = <<>>
<1>1. Len(todo) \in Nat /\ Len(done) \in Nat /\ Len(todo) + Len(done) = 0
  BY LenProperties DEF Outstanding
<1> DEFINE t == Len(todo) d == Len(done)
<1>2. t = 0 /\ d = 0
  <2>1. t \in Nat /\ d \in Nat /\ t + d = 0
    BY <1>1
  <2> HIDE DEF t, d
  <2> QED BY <2>1
<1> QED BY <1>2, EmptySeq

\* A side that owes nothing and takes nothing stays empty.
LEMMA IdleSide ==
    ASSUME NEW perform \in BOOLEAN, NEW ack \in BOOLEAN,
           Possible(<<>>, <<>>, <<>>, perform, ack)
    PROVE  /\ ~perform /\ ~ack
           /\ TodoNext(<<>>, <<>>, perform) = <<>>
           /\ DoneNext(<<>>, <<>>, <<>>, perform, ack) = <<>>
<1>1. <<>> \o <<>> = <<>>
  BY EmptySeq, ConcatEmptySeq
<1> QED BY <1>1 DEF Possible, TodoNext, DoneNext, Given, Left

\* A step of the multiplexer and its sides is a step of one memory port.
LEMMA StepImplements ==
    ASSUME NoExtCacheOps, IInv, Clock PROVE Port!Next
<1>1. PICK perform \in BOOLEAN : Tcm!Cycle(TcmTakes, perform, pins.tcmAck)
  BY DEF Clock, TcmSide, TcmTakes
<1>2. PICK perform2 \in BOOLEAN : Ext!Cycle(ExtTakes, perform2, pins.extAck)
  BY DEF Clock, ExtSide, ExtTakes
<1>3. /\ Possible(tcmTodo, tcmDone, TcmTakes, perform, pins.tcmAck)
      /\ tcmTodo' = TodoNext(tcmTodo, TcmTakes, perform)
      /\ tcmDone' = DoneNext(tcmTodo, tcmDone, TcmTakes, perform, pins.tcmAck)
  BY <1>1 DEF Tcm!Cycle, Possible, TodoNext, DoneNext, Given, Left
<1>4. /\ Possible(extTodo, extDone, ExtTakes, perform2, pins.extAck)
      /\ extTodo' = TodoNext(extTodo, ExtTakes, perform2)
      /\ extDone' = DoneNext(extTodo, extDone, ExtTakes, perform2, pins.extAck)
  BY <1>2 DEF Ext!Cycle, Possible, TodoNext, DoneNext, Given, Left
<1>5. /\ pins.tcmAck \in BOOLEAN /\ pins.extAck \in BOOLEAN
      /\ tcmTodo \in Seq(Request) /\ tcmDone \in Seq(Request)
      /\ extTodo \in Seq(Request) /\ extDone \in Seq(Request)
      /\ tcmTodo' \in Seq(Request) /\ tcmDone' \in Seq(Request)
      /\ extTodo' \in Seq(Request) /\ extDone' \in Seq(Request)
  BY SideStep DEF IInv, Pins, SideType, SideMoves
<1>6. /\ TcmTakes = <<>> \/ \E r \in Request : TcmTakes = <<r>>
      /\ ExtTakes = <<>> \/ \E r \in Request : ExtTakes = <<r>>
  BY Takes
<1>7. \/ extTodo = <<>> /\ extDone = <<>> /\ ExtTakes = <<>>
      \/ tcmTodo = <<>> /\ tcmDone = <<>> /\ TcmTakes = <<>>
  <2>1. /\ Outstanding(tcmTodo, tcmDone) = 0 => tcmTodo = <<>> /\ tcmDone = <<>>
        /\ Outstanding(extTodo, extDone) = 0 => extTodo = <<>> /\ extDone = <<>>
    BY <1>5, OwesNothing
  <2> DEFINE t == Outstanding(tcmTodo, tcmDone) e == Outstanding(extTodo, extDone)
  <2>2. /\ t \in Nat /\ e \in Nat /\ pending_q = t + e
        /\ tcm_access_q => e = 0
        /\ ~tcm_access_q => t = 0
        /\ accepted => pending_q = 0 \/ tcm_access_q = tcm_access
    BY Routing, DepthAssumption DEF IInv, SideType, PendingCounts, PendingRange
  <2> HIDE DEF t, e
  <2>3. pending_q = 0 => t = 0 /\ e = 0
    BY <2>2
  <2>4. tcm_access \in BOOLEAN /\ tcm_access_q \in BOOLEAN
    BY DEF tcm_access, IInv
  <2>5. accepted /\ tcm_access => e = 0
    BY <2>2, <2>3, <2>4, Zenon
  <2>6. accepted /\ ~tcm_access => t = 0
    BY <2>2, <2>3, <2>4, Zenon
  <2> QED BY <2>1, <2>2, <2>5, <2>6, Takes DEF t, e
<1>8. CASE extTodo = <<>> /\ extDone = <<>> /\ ExtTakes = <<>>
  <2>1. ~perform2 /\ ~pins.extAck /\ extTodo' = <<>> /\ extDone' = <<>>
    BY <1>4, <1>5, <1>8, IdleSide
  <2>2. /\ tcmTodo \o extTodo = tcmTodo /\ tcmDone \o extDone = tcmDone
        /\ tcmTodo' \o extTodo' = tcmTodo' /\ tcmDone' \o extDone' = tcmDone'
    BY <1>5, <1>8, <2>1, ConcatEmptySeq
  <2>3. Port!Cycle(TcmTakes, perform, pins.tcmAck)
    BY <1>1, <2>2 DEF Port!Cycle, Tcm!Cycle
  <2> QED BY <1>5, <1>6, <2>3 DEF Port!Next
<1>9. CASE tcmTodo = <<>> /\ tcmDone = <<>> /\ TcmTakes = <<>>
  <2>1. ~perform /\ ~pins.tcmAck /\ tcmTodo' = <<>> /\ tcmDone' = <<>>
    BY <1>3, <1>5, <1>9, IdleSide
  <2>2. /\ tcmTodo \o extTodo = extTodo /\ tcmDone \o extDone = extDone
        /\ tcmTodo' \o extTodo' = extTodo' /\ tcmDone' \o extDone' = extDone'
    BY <1>5, <1>9, <2>1, ConcatEmptySeq
  <2>3. Port!Cycle(ExtTakes, perform2, pins.extAck)
    BY <1>2, <2>2 DEF Port!Cycle, Ext!Cycle
  <2> QED BY <1>5, <1>6, <2>3 DEF Port!Next
<1> QED BY <1>7, <1>8, <1>9

\* ImplementsMemPort: memory and peripherals behind the multiplexer are one
\* port, with one order of effects and answers.
THEOREM MuxIsOnePort ==
    ASSUME NoExtCacheOps PROVE Spec => ImplementsMemPort
<1>1. Init => Port!Init
  BY EmptySeq, ConcatEmptySeq DEF Init, Tcm!Init, Ext!Init, Port!Init
<1>2. IInv /\ [Next]_vars => [Port!Next]_<<tcmTodo \o extTodo, tcmDone \o extDone>>
  <2> SUFFICES ASSUME IInv, [Next]_vars
               PROVE  [Port!Next]_<<tcmTodo \o extTodo, tcmDone \o extDone>>
    OBVIOUS
  <2>1. CASE UNCHANGED vars
    BY <2>1 DEF vars
  <2>2. CASE Clock
    BY <2>2, StepImplements
  <2> QED BY <2>1, <2>2 DEF Next
<1> QED BY <1>1, <1>2, MuxInvariant, PTL DEF Spec, ImplementsMemPort, Port!Spec
=============================================================================
