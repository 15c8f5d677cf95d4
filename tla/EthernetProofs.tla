-------------------------- MODULE EthernetProofs ---------------------------
(***************************************************************************)
(* The Ethernet port, seen from both sides.  The network driver            *)
(* (EthDriver): no path of it loses a buffer of lwIP's pool, and it keeps  *)
(* step with the frames in the receive FIFO, for every size of the pool,   *)
(* its buffers and the FIFO, every traffic and every CPU reset; and what   *)
(* it sends are the frames lwIP passed.                                    *)
(* The registers it works on (EthRegs): they keep their strobes and        *)
(* answers apart, and are the device the driver relies on, for every set   *)
(* of bytes and every depth of the MAC's FIFOs.                            *)
(***************************************************************************)
EXTENDS EthDriver, EthRegs, QueueLemmas

-----------------------------------------------------------------------------
(* The driver's buffers.                                                   *)


\* A frame needs a number of buffers.
LEMMA NeedIsNat == ASSUME SizesAssumption, NEW n \in Nat PROVE Need(n) \in Nat
<1> DEFINE m == n + BufSize - 1
<1>1. BufSize \in Nat /\ BufSize > 0 BY DEF SizesAssumption
<1>2. m \in Nat BY <1>1
<1>3. m \div BufSize \in Nat BY <1>1, <1>2
<1> QED BY <1>3 DEF Need

\* The counts are numbers, and so is what the next allocation asks for.
Numbers == /\ free \in Nat /\ held \in Nat /\ count \in Nat
           /\ PoolSize \in Nat /\ Base \in Nat

Pool == Numbers /\ PoolKept

\* At power-on every buffer is free.
LEMMA InitPool == ASSUME SizesAssumption, Init PROVE Pool
<1>1. Numbers BY DEF SizesAssumption, Init, Numbers
<1>2. PoolKept BY <1>1 DEF Init, PoolKept, Numbers
<1> QED BY <1>1, <1>2 DEF Pool

\* A step that leaves the counts alone, and neither takes the frame in hand nor
\* gives one up.
LEMMA Elsewhere ==
    ASSUME Pool, UNCHANGED <<free, held>>, count' \in Nat,
           pc \notin {"fill", "input"}, pc' \notin {"fill", "input"}
    PROVE  Pool'
BY DEF Pool, Numbers, PoolKept

\* A step within the reading of a frame.
LEMMA Within ==
    ASSUME Pool, UNCHANGED <<free, held, count>>,
           pc \in {"fill", "input"}, pc' \in {"fill", "input"}
    PROVE  Pool'
BY DEF Pool, Numbers, PoolKept, Need

\* A step that leaves no frame in hand.
LEMMA Settled ==
    ASSUME Pool, free' \in Nat, held' \in Nat, count' = count,
           free' + held' = PoolSize, pc' \notin {"fill", "input"}
    PROVE  Pool'
<1>1. Numbers' BY DEF Pool, Numbers
<1>2. PoolKept' BY DEF PoolKept
<1> QED BY <1>1, <1>2 DEF Pool

\* Every step of the receive side keeps the count of buffers.
LEMMA StepPool == ASSUME SizesAssumption, Pool, [Next]_vars PROVE Pool'
<1> USE DEF Pool, Numbers
<1>1. CASE Arrive
  <2>1. UNCHANGED <<free, held, count, pc>> BY <1>1 DEF Arrive
  <2> QED BY <2>1 DEF PoolKept, Need
<1>2. CASE CpuReset BY <1>2 DEF CpuReset, PoolKept
<1>3. CASE Boot BY <1>3, Elsewhere DEF Boot
<1>4. CASE ClearByte BY <1>4, Elsewhere DEF ClearByte
<1>5. CASE ClearDone BY <1>5, Elsewhere DEF ClearDone
<1>6. CASE PollNothing BY <1>6, Elsewhere DEF PollNothing
<1>7. CASE PollHigh BY <1>7, Elsewhere DEF PollHigh, Bytes
<1>8. CASE PollLow
  <2>1. PICK b \in Bytes : count' = count * Base + b BY <1>8 DEF PollLow
  <2>2. count * Base \in Nat OBVIOUS
  <2>3. count' \in Nat BY <2>1, <2>2 DEF Bytes
  <2>4. /\ UNCHANGED <<free, held>> /\ pc = "low"
        /\ pc' \in {"clear", "alloc"}
    BY <1>8 DEF PollLow
  <2> QED BY <2>3, <2>4, Elsewhere
<1>9. CASE Alloc
  <2>1. Need(count) \in Nat BY NeedIsNat
  <2>2. UNCHANGED <<held, count>> /\ pc = "alloc" BY <1>9 DEF Alloc
  <2>3. CASE pc' = "drop"
    BY <1>9, <2>2, <2>3, Elsewhere DEF Alloc
  <2>4. CASE pc' = "fill" /\ free' = free - Need(count) /\ Need(count) <= free
    <3>1. Need(count)' = Need(count) BY <2>2 DEF Need
    <3>2. free + held = PoolSize BY <2>2 DEF PoolKept
    <3>3. free' + held' + Need(count)' = PoolSize /\ free' \in Nat
      BY <2>1, <2>2, <2>4, <3>1, <3>2
    <3> QED BY <2>2, <2>4, <3>3 DEF PoolKept
  <2> QED BY <1>9, <2>3, <2>4 DEF Alloc
<1>10. CASE Fill BY <1>10, Within DEF Fill
<1>11. CASE Drop BY <1>11, Elsewhere DEF Drop
<1>12. CASE Input
  <2>1. Need(count) \in Nat BY NeedIsNat
  <2>2. free + held + Need(count) = PoolSize BY <1>12 DEF Input, PoolKept
  <2>3. count' = count /\ pc' = "timeouts" BY <1>12 DEF Input
  <2>4. free' \in Nat /\ held' \in Nat BY <1>12, <2>1 DEF Input
  <2>5. free' + held' = free + held + Need(count) BY <1>12, <2>1 DEF Input
  <2>6. free' + held' = PoolSize BY <2>2, <2>5
  <2> QED BY <2>3, <2>4, <2>6, Settled
<1>13. CASE Timeouts
  <2>1. PICK n \in 0 .. held : held' = held - n /\ free' = free + n
    BY <1>13 DEF Timeouts
  <2>2. count' = count /\ pc = "timeouts" /\ pc' = "poll" BY <1>13 DEF Timeouts
  <2>3. free' \in Nat /\ held' \in Nat /\ free' + held' = free + held BY <2>1
  <2> QED BY <2>2, <2>3 DEF PoolKept
<1>14. CASE UNCHANGED vars BY <1>14 DEF vars, PoolKept, Need
<1> QED BY <1>1, <1>2, <1>3, <1>4, <1>5, <1>6, <1>7, <1>8, <1>9, <1>10, <1>11, <1>12,
           <1>13, <1>14 DEF Next, Firmware

-----------------------------------------------------------------------------
\* Sending does not disturb reading: whatever lwIP sends, and whenever the CPU is
\* reset, the receive side behaves as NetInput says (pano_netif_output 279-308
\* and pano_netif_poll 310-366 share nothing but the CPU).
THEOREM SendingApart == DriverSpec => Spec
<1>1. DriverInit => Init BY DEF DriverInit
<1>2. ASSUME [DriverNext]_allvars PROVE [Next]_vars
  <2>1. CASE Reads BY <2>1 DEF Reads, Next
  <2>2. CASE Sends BY <2>2 DEF Sends
  <2>3. CASE Writes BY <2>3 DEF Writes
  <2>4. CASE Restart BY <2>4 DEF Restart, Next
  <2>5. CASE Wire BY <2>5 DEF Wire, Next
  <2>6. CASE UNCHANGED allvars BY <2>6 DEF allvars
  <2> QED BY <1>2, <2>1, <2>2, <2>3, <2>4, <2>5, <2>6 DEF DriverNext
<1> QED BY <1>1, <1>2, PTL DEF DriverSpec, Spec

\* Every buffer is free, lwIP's, or that of the frame being read
\* (pano_netif_poll 329-361), in every state of the driver, over any number of
\* CPU resets.
THEOREM BuffersKept == ASSUME SizesAssumption PROVE DriverSpec => []PoolKept
<1>1. Init => Pool BY InitPool
<1>2. Pool /\ [Next]_vars => Pool' BY StepPool
<1>3. Pool => PoolKept BY DEF Pool
<1>4. Spec => []PoolKept BY <1>1, <1>2, <1>3, PTL DEF Spec
<1> QED BY <1>4, SendingApart, PTL

-----------------------------------------------------------------------------
(* The driver keeps step with the frames in the FIFO.                      *)

\* Where the driver is with the frame f it reads when the bytes r of it are left in
\* the FIFO.
Stands(f, r) ==
    /\ pc = "low"   => count = Len(f) \div Base /\ r = <<Len(f) % Base>> \o f
    /\ pc # "low"   => count = Len(f)
    /\ pc = "alloc" => r = f
    /\ pc = "fill"  => data \o r = f /\ Len(data) < count
    /\ pc = "input" => data = f /\ r = <<>>
    /\ pc = "drop"  => i + Len(r) = count

MidFrame == pc \in {"low", "alloc", "fill", "drop", "input"}

\* The rest of the frame being read, and the frames behind it.
AtFrame(r) == rx = r \o Encoded(Tail(due)) /\ Stands(Head(due), r)

StepTypes == /\ rx \in Seq(Nat) /\ due \in Seq(Frames) /\ data \in Seq(Nat)
             /\ count \in Nat /\ i \in Nat /\ lost \in BOOLEAN /\ caller \in {"main", "poll"}

\* What is in the FIFO is known in every state in which step is kept; a length that
\* is no length of a frame shows that it was lost.
KeepsStep ==
    /\ StepTypes
    /\ lost => due = <<>>
    /\ pc = "clear" /\ caller = "poll" => lost
    /\ pc \in {"poll", "timeouts"} /\ ~lost => rx = Encoded(due)
    /\ MidFrame /\ ~lost => due # <<>> /\ \E r \in Seq(Nat) : AtFrame(r)

\* A frame, and what the MAC writes for it, are bytes, and lengths are those of frames.
LEMMA EncodeBytes ==
    ASSUME NEW f \in Frames
    PROVE  /\ f \in Seq(Nat) /\ Len(f) \in Nat /\ f # <<>> /\ ~BadCount(Len(f))
           /\ Len(f) \div Base \in Nat /\ Len(f) % Base \in Nat
           /\ (Len(f) \div Base) * Base + (Len(f) % Base) = Len(f)
           /\ Encode(f) \in Seq(Nat)
           /\ Encode(f) = <<Len(f) \div Base>> \o (<<Len(f) % Base>> \o f)
<1>1. Base \in Nat \ {0} /\ MaxFrame \in Nat
  BY SizesAssumption
<1>2. f \in Seq(Bytes) /\ Len(f) \in 1 .. MaxFrame
  BY FramesAssumption
<1>3. f \in Seq(Nat)
  <2>1. Bytes \subseteq Nat
    BY DEF Bytes
  <2> QED BY <1>2, <2>1, SeqMonotonic
<1>4. Len(f) \in Nat /\ f # <<>> /\ ~BadCount(Len(f))
  BY <1>1, <1>2, EmptySeq DEF BadCount
<1>5. Encode(f) = Coded(Base, f)
  BY DEF Encode, Coded
<1> QED BY <1>1, <1>3, <1>4, <1>5, CodedProperties

\* Frames are sequences of numbers.
LEMMA FramesSeq == Seq(Frames) \subseteq Seq(Seq(Nat)) /\ Base \in Nat \ {0}
<1>1. Frames \subseteq Seq(Nat)
  BY EncodeBytes
<1> QED BY <1>1, SeqMonotonic, SizesAssumption

\* What the MAC writes for several frames.
LEMMA EncodedProperties ==
    /\ Encoded(<<>>) = <<>>
    /\ \A fs \in Seq(Frames) : Encoded(fs) \in Seq(Nat)
    /\ \A fs \in Seq(Frames), f \in Frames :
          Encoded(Append(fs, f)) = Encoded(fs) \o Encode(f)
    /\ \A fs \in Seq(Frames) :
          fs # <<>> => Encoded(fs) = Encode(Head(fs)) \o Encoded(Tail(fs))
<1>1. \A fs : Encoded(fs) = AllCoded(Base, fs)
  BY DEF Encoded, Encode, AllCoded, Codes, Coded
<1>2. \A f : Encode(f) = Coded(Base, f)
  BY DEF Encode, Coded
<1>3. \A f \in Frames : f \in Seq(Nat)
  BY EncodeBytes
<1>4. \A fs \in Seq(Seq(Nat)), f \in Seq(Nat) :
         AllCoded(Base, Append(fs, f)) = AllCoded(Base, fs) \o Coded(Base, f)
  BY FramesSeq, AllCodedAppend
<1>5. \A fs \in Seq(Seq(Nat)) :
         fs # <<>> => AllCoded(Base, fs) = Coded(Base, Head(fs)) \o AllCoded(Base, Tail(fs))
  BY FramesSeq, AllCodedHead
<1>6. \A fs \in Seq(Seq(Nat)) : AllCoded(Base, fs) \in Seq(Nat)
  BY FramesSeq, AllCodedBytes
<1>7. AllCoded(Base, <<>>) = <<>>
  BY AllCodedNone
<1> QED BY <1>1, <1>2, <1>3, <1>4, <1>5, <1>6, <1>7, FramesSeq

\* A read takes the first byte of what is left of a frame, if something is.
LEMMA ByteRead ==
    ASSUME NEW r \in Seq(Nat), NEW t \in Seq(Nat), rx = r \o t, r # <<>>, NEW b, ReadRx(b)
    PROVE  /\ b = Head(r) /\ b \in Nat
           /\ rx' = Tail(r) \o t /\ Tail(r) \in Seq(Nat) /\ Len(Tail(r)) = Len(r) - 1
           /\ r = <<b>> \o Tail(r)
<1>1. rx # <<>> /\ Head(rx) = Head(r) /\ Tail(rx) = Tail(r) \o t
  BY FirstOfConcat
<1>2. b = Head(r) /\ rx' = Tail(r) \o t
  BY <1>1, Zenon DEF ReadRx
<1>3. /\ Head(r) \in Nat /\ Tail(r) \in Seq(Nat) /\ Len(Tail(r)) = Len(r) - 1
      /\ r = <<Head(r)>> \o Tail(r)
  BY FirstOfConcat
<1> QED BY <1>2, <1>3

\* A read takes the byte at the head of the FIFO.
LEMMA ByteAhead ==
    ASSUME NEW x \in Nat, NEW t \in Seq(Nat), rx = <<x>> \o t, NEW b, ReadRx(b)
    PROVE  b = x /\ rx' = t
<1>1. <<x>> \in Seq(Nat) /\ <<x>> # <<>> /\ Head(<<x>>) = x /\ Tail(<<x>>) = <<>>
  OBVIOUS
<1>2. b = Head(<<x>>) /\ rx' = Tail(<<x>>) \o t
  <2> DEFINE r == <<x>>
  <2>1. r \in Seq(Nat) /\ r # <<>> /\ rx = r \o t
    BY <1>1
  <2> HIDE DEF r
  <2>2. b = Head(r) /\ rx' = Tail(r) \o t
    BY <2>1, ByteRead
  <2> QED BY <2>2 DEF r
<1>3. rx' = <<>> \o t
  BY <1>1, <1>2
<1> QED BY <1>1, <1>2, <1>3, ConcatEmptySeq

\* What is left after a read are bytes.
LEMMA BytesLeft ==
    ASSUME rx \in Seq(Nat), NEW b, ReadRx(b) PROVE rx' \in Seq(Nat)
<1>1. CASE rx # <<>>
  <2>1. rx' = Tail(rx)
    BY <1>1 DEF ReadRx
  <2> QED BY <1>1, <2>1, HeadTailProperties
<1>2. CASE rx = <<>>
  BY <1>2 DEF ReadRx
<1> QED BY <1>1, <1>2

\* The bytes are numbers.
LEMMA BytesNat == Bytes \subseteq Nat
BY SizesAssumption DEF Bytes

\* A frame arrives.
LEMMA ArriveStep == ASSUME KeepsStep, Arrive PROVE KeepsStep'
<1>1. PICK f \in Frames : /\ rx' = rx \o Encode(f)
                          /\ due' = IF lost THEN <<>> ELSE Append(due, f)
                          /\ UNCHANGED <<pc, caller, i, count, data, lost>>
  BY DEF Arrive
<1>2. StepTypes
  BY DEF KeepsStep
<1>3. Encode(f) \in Seq(Nat)
  BY EncodeBytes
<1>4. rx' \in Seq(Nat)
  BY <1>1, <1>2, <1>3, ConcatProperties DEF StepTypes
<1>5. due' \in Seq(Frames)
  <2>1. CASE lost
    BY <1>1, <2>1
  <2>2. CASE ~lost
    BY <1>1, <1>2, <2>2, AppendProperties DEF StepTypes
  <2> QED BY <2>1, <2>2
<1>6. StepTypes'
  BY <1>1, <1>2, <1>4, <1>5 DEF StepTypes
<1>7. CASE lost
  BY <1>1, <1>6, <1>7 DEF KeepsStep, MidFrame
<1>8. CASE ~lost
  <2>1. due \in Seq(Frames) /\ due' = Append(due, f)
    BY <1>1, <1>2, <1>8 DEF StepTypes
  <2>2. CASE pc \in {"poll", "timeouts"}
    <3>1. rx' = Encoded(due')
      BY <1>1, <1>8, <2>1, <2>2, EncodedProperties DEF KeepsStep
    <3> QED BY <1>1, <1>6, <1>8, <2>2, <3>1 DEF KeepsStep, MidFrame
  <2>3. CASE MidFrame
    <3>1. PICK r \in Seq(Nat) : due # <<>> /\ AtFrame(r)
      BY <1>8, <2>3 DEF KeepsStep
    <3>2. /\ due' # <<>> /\ Head(due') = Head(due) /\ Tail(due') = Append(Tail(due), f)
          /\ Tail(due) \in Seq(Frames)
      BY <2>1, <3>1, HeadTailAppend, AppendProperties, HeadTailProperties, EmptySeq
    <3>3. Encoded(Tail(due')) = Encoded(Tail(due)) \o Encode(f)
      BY <3>2, EncodedProperties
    <3>4. rx' = (r \o Encoded(Tail(due))) \o Encode(f)
      BY <1>1, <3>1 DEF AtFrame
    <3>5. (r \o Encoded(Tail(due))) \o Encode(f) = r \o (Encoded(Tail(due)) \o Encode(f))
      <4>1. Encoded(Tail(due)) \in Seq(Nat)
        BY <3>2, EncodedProperties
      <4> QED BY <1>3, <4>1, BytesAssociate, Zenon
    <3>6. rx' = r \o Encoded(Tail(due'))
      BY <3>3, <3>4, <3>5, Zenon
    <3>7. Stands(Head(due), r)'
      BY <1>1, <3>1, <3>2 DEF AtFrame, Stands
    <3>8. AtFrame(r)'
      BY <3>6, <3>7 DEF AtFrame
    <3> QED BY <1>1, <1>6, <1>8, <2>3, <3>2, <3>8 DEF KeepsStep, MidFrame
  <2>4. CASE pc \notin {"poll", "timeouts"} /\ ~MidFrame
    BY <1>1, <1>6, <1>8, <2>4 DEF KeepsStep, MidFrame
  <2> QED BY <2>2, <2>3, <2>4
<1> QED BY <1>7, <1>8

\* The program starts afresh: nothing is known, and nothing has to be.
LEMMA ResetStep == ASSUME KeepsStep, CpuReset PROVE KeepsStep'
<1>1. /\ pc' = "boot" /\ i' = 0 /\ count' = 0 /\ data' = <<>>
      /\ UNCHANGED <<rx, due, lost>>
        /\ caller' = "main"
  BY DEF CpuReset, history
<1>2. StepTypes'
  <2>1. <<>> \in Seq(Nat) /\ 0 \in Nat
    OBVIOUS
  <2> QED BY <1>1, <2>1, Zenon DEF KeepsStep, StepTypes
<1> QED BY <1>1, <1>2 DEF KeepsStep, MidFrame

\* ClearRxFifo: afterwards the FIFO is empty, or step is lost.
LEMMA ClearStep ==
    ASSUME KeepsStep, Boot \/ ClearByte \/ ClearDone PROVE KeepsStep'
<1>1. StepTypes
  BY DEF KeepsStep
<1>2. CASE Boot
  BY <1>1, <1>2 DEF Boot, history, KeepsStep, StepTypes, MidFrame
<1>3. CASE ClearByte
  <2>1. rx' \in Seq(Nat)
    BY <1>1, <1>3, HeadTailProperties DEF ClearByte, StepTypes
  <2>2. /\ pc = "clear" /\ UNCHANGED <<pc, caller, count, data, due, lost>> /\ i' = i + 1
    BY <1>3 DEF ClearByte, history
  <2>3. StepTypes'
    BY <1>1, <2>1, <2>2 DEF StepTypes
  <2> QED BY <2>2, <2>3 DEF KeepsStep, MidFrame
<1>4. CASE ClearDone
  <2>1. /\ pc = "clear" /\ pc' = (IF caller = "main" THEN "poll" ELSE "alloc") /\ due' = <<>>
        /\ lost' = (rx # <<>> \/ (caller = "poll" /\ lost))
        /\ UNCHANGED <<rx, caller, i, count, data>>
    BY <1>4, Zenon DEF ClearDone
  <2>2. lost' \in BOOLEAN
    BY <2>1, Zenon
  <2>3. StepTypes'
    <3>1. <<>> \in Seq(Frames)
      OBVIOUS
    <3> QED BY <1>1, <2>1, <2>2, <3>1, Zenon DEF StepTypes
  <2>4. CASE lost'
    BY <2>1, <2>3, <2>4 DEF KeepsStep
  <2>5. CASE ~lost'
    <3>1. rx' = <<>> /\ (caller = "poll" => ~lost)
      BY <2>1, <2>5, Zenon
    <3>2. caller = "poll" => lost
      BY <2>1, Zenon DEF KeepsStep
    <3>3. caller # "poll"
      BY <3>1, <3>2
    <3>4. rx' = Encoded(due')
      BY <2>1, <3>1, EncodedProperties
    <3>5. pc' = "poll"
      BY <1>1, <2>1, <3>3 DEF StepTypes
    <3> QED BY <2>3, <2>5, <3>4, <3>5 DEF KeepsStep, MidFrame
  <2> QED BY <2>4, <2>5
<1> QED BY <1>2, <1>3, <1>4

\* Before a frame: nothing there, or the first byte of a length.
LEMMA PollStep ==
    ASSUME KeepsStep, PollNothing \/ PollHigh \/ Timeouts PROVE KeepsStep'
<1>1. StepTypes
  BY DEF KeepsStep
<1>2. CASE PollNothing
  <2>1. /\ rx' = <<>> /\ pc' = "timeouts" /\ due' = <<>> /\ lost' = FALSE
        /\ UNCHANGED <<rx, caller, i, count, data>>
    BY <1>2 DEF PollNothing
  <2>2. StepTypes'
    <3>1. <<>> \in Seq(Frames) /\ FALSE \in BOOLEAN
      OBVIOUS
    <3> QED BY <1>1, <2>1, <3>1, Zenon DEF StepTypes
  <2> QED BY <2>1, <2>2, EncodedProperties DEF KeepsStep, MidFrame
<1>3. CASE Timeouts
  BY <1>1, <1>3 DEF Timeouts, history, KeepsStep, StepTypes, MidFrame
<1>4. CASE PollHigh
  <2>1. PICK b \in Bytes : /\ ReadRx(b) /\ count' = b /\ pc = "poll" /\ pc' = "low" /\ rx # <<>>
                           /\ UNCHANGED <<caller, i, data, due, lost>>
    BY <1>4 DEF PollHigh, history
  <2>2. rx' \in Seq(Nat) /\ b \in Nat
    BY <1>1, <2>1, BytesLeft, BytesNat DEF StepTypes
  <2>3. StepTypes'
    BY <1>1, <2>1, <2>2 DEF StepTypes
  <2>4. CASE lost
    BY <2>1, <2>3, <2>4 DEF KeepsStep
  <2>5. CASE ~lost
    <3>1. rx = Encoded(due) /\ due \in Seq(Frames)
      BY <1>1, <2>1, <2>5 DEF KeepsStep, StepTypes
    <3>2. due # <<>>
      BY <2>1, <3>1, EncodedProperties
    <3>3. Head(due) \in Frames /\ Tail(due) \in Seq(Frames)
      BY <3>1, <3>2, HeadTailProperties
    <3>4. PICK f \in Frames, t \in Seq(Nat) : f = Head(due) /\ t = Encoded(Tail(due))
      BY <3>3, EncodedProperties
    <3>5. rx = Encode(f) \o t
      BY <3>1, <3>2, <3>4, EncodedProperties
    <3>6. PICK high, low \in Nat : high = Len(f) \div Base /\ low = Len(f) % Base
      BY EncodeBytes
    <3>7. f \in Seq(Nat) /\ Encode(f) = <<high>> \o (<<low>> \o f)
      BY <3>6, EncodeBytes
    <3>8. <<high>> \in Seq(Nat) /\ <<low>> \in Seq(Nat)
      OBVIOUS
    <3>9. PICK r \in Seq(Nat) : r = <<low>> \o f
      BY <3>7, <3>8, ConcatProperties
    <3>10. rx = (<<high>> \o r) \o t
      BY <3>5, <3>7, <3>9
    <3>11. rx = <<high>> \o (r \o t) /\ r \o t \in Seq(Nat)
      BY <3>8, <3>10, BytesAssociate, ConcatProperties
    <3>12. b = high /\ rx' = r \o t
      BY <2>1, <3>11, ByteAhead
    <3>13. AtFrame(r)'
      BY <2>1, <3>4, <3>6, <3>9, <3>12 DEF AtFrame, Stands
    <3> QED BY <2>1, <2>3, <2>5, <3>2, <3>13 DEF KeepsStep, MidFrame
  <2> QED BY <2>4, <2>5
<1> QED BY <1>2, <1>3, <1>4

\* The length is that of the frame, and one the driver accepts.
LEMMA LowStep == ASSUME KeepsStep, PollLow PROVE KeepsStep'
<1>1. StepTypes
  BY DEF KeepsStep
<1>2. PICK b \in Bytes : /\ pc = "low" /\ ReadRx(b) /\ count' = count * Base + b
                         /\ IF BadCount(count * Base + b)
                            THEN pc' = "clear" /\ caller' = "poll" /\ i' = 0
                            ELSE pc' = "alloc" /\ UNCHANGED <<caller, i>>
                         /\ UNCHANGED <<data, due, lost>>
  BY DEF PollLow, history
<1>3. rx' \in Seq(Nat) /\ b \in Nat
  BY <1>1, <1>2, BytesLeft, BytesNat DEF StepTypes
<1>4. count * Base + b \in Nat
  <2>1. \A x, y, z \in Nat : x * y + z \in Nat
    OBVIOUS
  <2>2. count \in Nat /\ Base \in Nat
    BY <1>1, SizesAssumption DEF StepTypes
  <2> QED BY <1>3, <2>1, <2>2, Zenon
<1>5. StepTypes'
  <2>1. CASE BadCount(count * Base + b)
    BY <1>1, <1>2, <1>3, <1>4, <2>1 DEF StepTypes
  <2>2. CASE ~BadCount(count * Base + b)
    BY <1>1, <1>2, <1>3, <1>4, <2>2 DEF StepTypes
  <2> QED BY <2>1, <2>2
<1>6. CASE lost
  BY <1>2, <1>5, <1>6 DEF KeepsStep
<1>7. CASE ~lost
  <2>1. PICK r \in Seq(Nat) : due # <<>> /\ AtFrame(r)
    BY <1>2, <1>7 DEF KeepsStep, MidFrame
  <2>2. Head(due) \in Frames /\ Tail(due) \in Seq(Frames)
    BY <1>1, <2>1, HeadTailProperties DEF StepTypes
  <2>3. PICK f \in Frames, t \in Seq(Nat) : f = Head(due) /\ t = Encoded(Tail(due))
    BY <2>2, EncodedProperties
  <2>4. PICK low \in Nat : low = Len(f) % Base
    BY EncodeBytes
  <2>5. rx = r \o t /\ count = Len(f) \div Base /\ r = <<low>> \o f
    BY <1>2, <2>1, <2>3, <2>4 DEF AtFrame, Stands
  <2>6. /\ f \in Seq(Nat) /\ ~BadCount(Len(f))
        /\ count * Base + low = Len(f)
    BY <2>4, <2>5, EncodeBytes
  <2>7. <<low>> \in Seq(Nat)
    OBVIOUS
  <2>8. rx = <<low>> \o (f \o t) /\ f \o t \in Seq(Nat)
    BY <2>5, <2>6, <2>7, BytesAssociate, ConcatProperties
  <2>9. b = low /\ rx' = f \o t
    BY <1>2, <2>8, ByteAhead
  <2>10. count' = Len(f) /\ pc' = "alloc"
    BY <1>2, <2>6, <2>9, Zenon
  <2>11. AtFrame(f)'
    BY <1>2, <2>3, <2>9, <2>10 DEF AtFrame, Stands
  <2> QED BY <1>2, <1>5, <1>7, <2>1, <2>6, <2>10, <2>11 DEF KeepsStep, MidFrame
<1> QED BY <1>6, <1>7

\* A buffer is there for the frame, or none is.
LEMMA AllocStep == ASSUME KeepsStep, Alloc PROVE KeepsStep'
<1>1. /\ pc = "alloc" /\ i' = 0 /\ data' = <<>> /\ pc' \in {"fill", "drop"}
      /\ UNCHANGED <<rx, caller, count, due, lost>>
  BY DEF Alloc, history
<1>2. StepTypes
  BY DEF KeepsStep
<1>3. StepTypes'
  <2>1. <<>> \in Seq(Nat) /\ 0 \in Nat
    OBVIOUS
  <2> QED BY <1>1, <1>2, <2>1, Zenon DEF StepTypes
<1>4. CASE lost
  BY <1>1, <1>3, <1>4 DEF KeepsStep
<1>5. CASE ~lost
  <2>1. PICK r \in Seq(Nat) : due # <<>> /\ AtFrame(r)
    BY <1>1, <1>5 DEF KeepsStep, MidFrame
  <2>2. r = Head(due) /\ count = Len(r) /\ rx = r \o Encoded(Tail(due))
    BY <1>1, <2>1 DEF AtFrame, Stands
  <2>3. Head(due) \in Frames
    BY <1>2, <2>1, HeadTailProperties DEF StepTypes
  <2>4. r # <<>> /\ Len(r) \in Nat /\ Len(r) # 0
    BY <2>2, <2>3, EncodeBytes, EmptySeq
  <2>5. <<>> \o r = r /\ Len(<<>>) = 0
    BY ConcatEmptySeq
  <2>6. Stands(Head(due), r)'
    <3>1. pc' = "fill" => (data \o r = Head(due))' /\ (Len(data) < count)'
      BY <1>1, <2>2, <2>4, <2>5
    <3>2. pc' = "drop" => (i + Len(r) = count)'
      BY <1>1, <2>2, <2>4
    <3>3. (count = Len(Head(due)))'
      BY <1>1, <2>2
    <3> QED BY <1>1, <3>1, <3>2, <3>3 DEF Stands
  <2>7. AtFrame(r)'
    BY <1>1, <2>2, <2>6 DEF AtFrame
  <2> QED BY <1>1, <1>3, <1>5, <2>1, <2>7 DEF KeepsStep, MidFrame
<1> QED BY <1>4, <1>5

\* The driver reads the next byte of the frame, and after the last one has it all.
LEMMA FillStep == ASSUME KeepsStep, Fill PROVE KeepsStep'
<1>1. PICK b \in Bytes : /\ pc = "fill" /\ ReadRx(b) /\ data' = Append(data, b)
                         /\ pc' = (IF Len(data') < count THEN "fill" ELSE "input")
                         /\ UNCHANGED <<caller, i, count, due, lost>>
  BY DEF Fill, history
<1>2. StepTypes
  BY DEF KeepsStep
<1>3. rx' \in Seq(Nat) /\ b \in Nat
  BY <1>1, <1>2, BytesLeft, BytesNat DEF StepTypes
<1>4. data \in Seq(Nat) /\ data' \in Seq(Nat) /\ Len(data') = Len(data) + 1 /\ Len(data) \in Nat
  BY <1>1, <1>2, <1>3, AppendProperties, LenProperties DEF StepTypes
<1>5. StepTypes'
  BY <1>1, <1>2, <1>3, <1>4 DEF StepTypes
<1>6. pc' \in {"fill", "input"}
  BY <1>1
<1>7. CASE lost
  BY <1>1, <1>5, <1>6, <1>7 DEF KeepsStep
<1>8. CASE ~lost
  <2>1. PICK r \in Seq(Nat) : due # <<>> /\ AtFrame(r)
    BY <1>1, <1>8 DEF KeepsStep, MidFrame
  <2>2. /\ rx = r \o Encoded(Tail(due)) /\ data \o r = Head(due) /\ Len(data) < count
        /\ count = Len(Head(due))
    BY <1>1, <2>1 DEF AtFrame, Stands
  <2>3. Len(r) \in Nat /\ count = Len(data) + Len(r)
    BY <1>4, <2>2, ConcatProperties, LenProperties
  <2>4. r # <<>>
    BY <1>4, <2>2, <2>3, EmptySeq
  <2>5. PICK t \in Seq(Nat) : t = Encoded(Tail(due))
    <3>1. Tail(due) \in Seq(Frames)
      BY <1>2, <2>1, HeadTailProperties DEF StepTypes
    <3> QED BY <3>1, EncodedProperties
  <2>6. /\ rx' = Tail(r) \o t /\ Tail(r) \in Seq(Nat) /\ Len(Tail(r)) = Len(r) - 1
        /\ r = <<b>> \o Tail(r)
    BY <1>1, <2>2, <2>4, <2>5, ByteRead
  <2>7. data' \o Tail(r) = Head(due)
    <3>1. <<b>> \in Seq(Nat)
      BY <1>3
    <3>2. data' = data \o <<b>>
      BY <1>1, <1>3, <1>4, AppendIsConcat
    <3>3. (data \o <<b>>) \o Tail(r) = data \o (<<b>> \o Tail(r))
      BY <1>4, <2>6, <3>1, BytesAssociate, ZenonT(30)
    <3> QED BY <2>2, <2>6, <3>2, <3>3, Zenon
  <2>8. pc' = "input" => data' = Head(due) /\ Tail(r) = <<>>
    <3>1. SUFFICES ASSUME pc' = "input" PROVE data' = Head(due) /\ Tail(r) = <<>>
      OBVIOUS
    <3>2. ~(Len(data') < count)
      BY <1>1, <3>1
    <3>3. Len(Tail(r)) = 0
      BY <1>4, <2>3, <2>4, <2>6, <3>2, LenProperties
    <3>4. Tail(r) = <<>>
      BY <2>6, <3>3, EmptySeq
    <3>5. data' \o <<>> = data'
      BY <1>4, ConcatEmptySeq
    <3> QED BY <2>7, <3>4, <3>5, Zenon
  <2>9. Stands(Head(due), Tail(r))'
    <3>1. pc' = "fill" => Len(data') < count'
      BY <1>1
    <3> QED BY <1>1, <1>6, <2>2, <2>7, <2>8, <3>1 DEF Stands
  <2>10. AtFrame(Tail(r))'
    BY <1>1, <2>5, <2>6, <2>9 DEF AtFrame
  <2> QED BY <1>1, <1>5, <1>6, <1>8, <2>1, <2>6, <2>10 DEF KeepsStep, MidFrame
<1> QED BY <1>7, <1>8

\* The next frame is the oldest when this one is done with.
LEMMA TakenStep ==
    ASSUME KeepsStep, MidFrame, pc' = "timeouts", Taken, UNCHANGED <<rx, caller, i, count>>,
           data' \in Seq(Nat),
           \A r \in Seq(Nat) : ~lost /\ due # <<>> /\ AtFrame(r) => r = <<>>
    PROVE  KeepsStep'
<1>1. StepTypes
  BY DEF KeepsStep
<1>2. due' = (IF due = <<>> THEN <<>> ELSE Tail(due)) /\ lost' = lost
  BY DEF Taken
<1>3. due' \in Seq(Frames)
  <2>1. CASE due = <<>>
    BY <1>2, <2>1
  <2>2. CASE due # <<>>
    BY <1>1, <1>2, <2>2, HeadTailProperties DEF StepTypes
  <2> QED BY <2>1, <2>2
<1>4. StepTypes'
  BY <1>1, <1>2, <1>3 DEF StepTypes
<1>5. lost' => due' = <<>>
  BY <1>2, Zenon DEF KeepsStep
<1>6. CASE lost
  BY <1>2, <1>4, <1>5, <1>6 DEF KeepsStep, MidFrame
<1>7. CASE ~lost
  <2>1. PICK r \in Seq(Nat) : due # <<>> /\ AtFrame(r)
    BY <1>7 DEF KeepsStep
  <2>2. rx = <<>> \o Encoded(Tail(due))
    BY <1>7, <2>1 DEF AtFrame
  <2>3. due' = Tail(due)
    BY <1>2, <2>1
  <2>4. Encoded(Tail(due)) \in Seq(Nat)
    BY <1>3, <2>3, EncodedProperties
  <2>5. rx' = Encoded(due')
    BY <2>2, <2>3, <2>4, ConcatEmptySeq
  <2> QED BY <1>2, <1>4, <1>5, <1>7, <2>5 DEF KeepsStep, MidFrame
<1> QED BY <1>6, <1>7

\* A frame for which there is no buffer is read all the same.
LEMMA DropStep == ASSUME KeepsStep, Drop PROVE KeepsStep'
<1>1. /\ pc = "drop" /\ UNCHANGED <<caller, count, data>>
      /\ \/ /\ i < count /\ i' = i + 1 /\ \E b \in Bytes : ReadRx(b)
            /\ UNCHANGED <<pc, due, lost>>
         \/ /\ i = count /\ pc' = "timeouts" /\ Taken /\ UNCHANGED <<rx, i>>
  BY DEF Drop, history
<1>2. StepTypes
  BY DEF KeepsStep
<1>3. ASSUME NEW r \in Seq(Nat), AtFrame(r)
      PROVE  rx = r \o Encoded(Tail(due)) /\ i + Len(r) = count /\ count = Len(Head(due))
  BY <1>1, <1>3 DEF AtFrame, Stands
<1>4. CASE i = count /\ pc' = "timeouts" /\ Taken /\ UNCHANGED <<rx, i>>
  <2>1. ASSUME NEW r \in Seq(Nat), AtFrame(r) PROVE r = <<>>
    <3>1. Len(r) = 0
      BY <1>2, <1>3, <1>4, <2>1, LenProperties DEF StepTypes
    <3> QED BY <3>1, EmptySeq
  <2> QED BY <1>1, <1>2, <1>4, <2>1, TakenStep DEF MidFrame, StepTypes
<1>5. CASE i < count /\ i' = i + 1 /\ UNCHANGED <<pc, due, lost>> /\ \E b \in Bytes : ReadRx(b)
  <2>1. PICK b \in Bytes : ReadRx(b)
    BY <1>5
  <2>2. rx' \in Seq(Nat)
    BY <1>2, <2>1, BytesLeft DEF StepTypes
  <2>3. StepTypes'
    BY <1>1, <1>2, <1>5, <2>2 DEF StepTypes
  <2>4. CASE lost
    BY <1>1, <1>5, <2>3, <2>4 DEF KeepsStep
  <2>5. CASE ~lost
    <3>1. PICK r \in Seq(Nat) : due # <<>> /\ AtFrame(r)
      BY <1>1, <2>5 DEF KeepsStep, MidFrame
    <3>2. PICK t \in Seq(Nat) : t = Encoded(Tail(due))
      <4>1. Tail(due) \in Seq(Frames)
        BY <1>2, <3>1, HeadTailProperties DEF StepTypes
      <4> QED BY <4>1, EncodedProperties
    <3>3. rx = r \o t /\ i + Len(r) = count /\ Len(r) \in Nat
      BY <1>3, <3>1, <3>2, LenProperties
    <3>4. r # <<>>
      BY <1>2, <1>5, <3>3, EmptySeq DEF StepTypes
    <3>5. rx' = Tail(r) \o t /\ Tail(r) \in Seq(Nat) /\ Len(Tail(r)) = Len(r) - 1
      BY <2>1, <3>3, <3>4, ByteRead
    <3>6. (i + 1) + (Len(r) - 1) = count
      BY <1>2, <3>3 DEF StepTypes
    <3>7. AtFrame(Tail(r))'
      BY <1>1, <1>3, <1>5, <3>1, <3>2, <3>5, <3>6 DEF AtFrame, Stands
    <3> QED BY <1>1, <1>5, <2>3, <2>5, <3>1, <3>5, <3>7 DEF KeepsStep, MidFrame
  <2> QED BY <2>4, <2>5
<1> QED BY <1>1, <1>4, <1>5

\* lwIP is given the frame.
LEMMA InputStep == ASSUME KeepsStep, Input PROVE KeepsStep'
<1>1. /\ pc = "input" /\ pc' = "timeouts" /\ Taken /\ data' = <<>>
      /\ UNCHANGED <<rx, caller, i, count>>
  BY DEF Input
<1>2. \A r \in Seq(Nat) : AtFrame(r) => r = <<>>
  BY <1>1 DEF AtFrame, Stands
<1>3. data' \in Seq(Nat)
  BY <1>1
<1> QED BY <1>1, <1>2, <1>3, TakenStep DEF MidFrame

\* Whenever the driver looks for a frame, the FIFO holds whole frames, those
\* that arrived and were not taken; and lwIP is given the oldest of them, whole
\* (pano_netif_poll 319-361, ClearRxFifo 178-193): for all frames, every depth of
\* the FIFO, whatever lwIP sends meanwhile, over any number of CPU resets, in
\* every state in which ClearRxFifo has not given up.
THEOREM FramesReachLwip == DriverSpec => []FramesWhole
<1>1. Init => KeepsStep
  <2>1. ASSUME Init PROVE StepTypes
    <3>1. <<>> \in Seq(Nat) /\ <<>> \in Seq(Frames) /\ 0 \in Nat
      OBVIOUS
    <3> QED BY <2>1, <3>1 DEF Init, StepTypes
  <2> QED BY <2>1 DEF Init, KeepsStep, MidFrame
<1>2. KeepsStep /\ [Next]_vars => KeepsStep'
  <2>1. CASE UNCHANGED vars
    <3>1. UNCHANGED <<rx, pc, caller, i, count, data, due, lost>>
      BY <2>1 DEF vars, history
    <3>2. \A r : AtFrame(r) => AtFrame(r)'
      BY <3>1 DEF AtFrame, Stands
    <3> QED BY <3>1, <3>2 DEF KeepsStep, StepTypes, MidFrame
  <2>2. CASE Next
    BY <2>2, ArriveStep, ResetStep, ClearStep, PollStep, LowStep, AllocStep, FillStep, DropStep,
       InputStep, Zenon DEF Next, Firmware
  <2> QED BY <2>1, <2>2
<1>3. KeepsStep => FramesWhole
  <2>1. ASSUME KeepsStep PROVE InStep
    BY <2>1 DEF KeepsStep, InStep
  <2>2. ASSUME KeepsStep PROVE GivenWhole
    BY <2>2 DEF KeepsStep, MidFrame, AtFrame, Stands, GivenWhole
  <2> QED BY <2>1, <2>2 DEF FramesWhole
<1>4. Spec => []FramesWhole
  BY <1>1, <1>2, <1>3, PTL DEF Spec
<1> QED BY <1>4, SendingApart, PTL

-----------------------------------------------------------------------------
(* The frames the driver sends.                                            *)

\* The byte stream of frame d stands for chain c.
StandsFor(d, c) == Len(d) = Len(Out!Frame(c)) /\ (Len(c) = 1 => d = c[1])
Match(ds, cs) == Len(ds) = Len(cs) /\ \A k \in 1 .. Len(cs) : StandsFor(ds[k], cs[k])

\* All bytes of the frames passed are written.
AllWritten == out_pc = "idle" \/ (out_pc = "data" /\ out_i = total)

\* What is written of the frame of chain c, its length in two bytes first.
Begun(c, part) ==
    /\ total = Len(Out!Frame(c)) /\ (Len(c) = 1 => first = c[1])
    /\ out_pc = "high" => part = <<>>
    /\ out_pc = "low" => part = <<total \div Base>>
    /\ out_pc = "data" => \E d \in Seq(Nat) :
          /\ part = <<total \div Base, total % Base>> \o d /\ Len(d) = out_i
          /\ Len(c) = 1 => \A k \in 1 .. out_i : d[k] = c[1][k]

\* The transmit FIFO holds the frames ds, and part of the one being written.
Holds(ds, part) ==
    /\ tx = AllCoded(Base, ds) \o part
    /\ AllWritten => part = <<>> /\ Match(ds, asked)
    /\ ~AllWritten => \E cs \in Seq(Chains), c \in Chains :
                         asked = Append(cs, c) /\ Match(ds, cs) /\ Begun(c, part)

OutTypes == /\ tx \in Seq(Nat) /\ asked \in Seq(Chains) /\ cut \in BOOLEAN
            /\ out_pc \in {"idle", "high", "low", "data"}
            /\ first \in Seq(Nat) /\ chain \in Seq(Seq(Nat))
            /\ total \in Nat /\ out_i \in Nat /\ left \in Nat /\ out_i <= total

\* The pbufs ahead hold what is still to be written, or more; no more than all.
Ahead == Len(FlattenSeq(Tail(chain)))
EnoughAhead ==
    out_pc # "idle" => /\ chain # <<>> /\ total \in 1 .. Base * Base - 1 /\ left < Wrap
                       /\ Len(FlattenSeq(chain)) <= total
                       /\ out_i + left + Ahead >= total
                       /\ out_pc # "data" => out_i = 0

OutInv == /\ OutTypes /\ EnoughAhead
          /\ ~cut => \E ds \in Seq(Seq(Nat)), part \in Seq(Nat) : Holds(ds, part)

\* What may be passed.
LEMMA ChainBytes ==
    ASSUME NEW c \in Chains
    PROVE  /\ c \in Seq(Seq(Nat)) /\ c # <<>> /\ Out!Frame(c) = FlattenSeq(c)
           /\ Out!Frame(c) \in Seq(Nat) /\ Len(Out!Frame(c)) \in 1 .. Base * Base - 1
           /\ Head(c) \in Seq(Nat) /\ Tail(c) \in Seq(Seq(Nat))
           /\ Len(FlattenSeq(c)) = Len(Head(c)) + Len(FlattenSeq(Tail(c)))
           /\ Len(c) = 1 => Head(c) = c[1] /\ Out!Frame(c) = c[1]
<1>1. c # <<>> /\ c \in Seq(Seq(Bytes)) /\ Len(Out!Frame(c)) \in 1 .. Base * Base - 1
  BY ChainsAssumption
<1>2. c \in Seq(Seq(Nat))
  <2>1. Seq(Bytes) \subseteq Seq(Nat)
    BY BytesNat, SeqMonotonic
  <2> QED BY <1>1, <2>1, SeqMonotonic
<1>3. Out!Frame(c) = FlattenSeq(c)
  BY Zenon DEF Out!Frame, Out!FlattenSeq, FlattenSeq
<1> QED BY <1>1, <1>2, <1>3, FlattenType, FlattenLength, FlattenSingle

LEMMA OutSizes ==
    /\ Base \in Nat \ {0} /\ Wrap \in Nat \ {0} /\ TxDepth \in Nat /\ Base * Base \in Nat
    /\ Base * Base <= Wrap /\ Beyond \subseteq Nat
<1>1. Base \in Nat \ {0}
  BY SizesAssumption
<1>2. Beyond \subseteq Nat
  BY OutputAssumption, BytesNat
<1> QED BY <1>1, <1>2, OutputAssumption

\* One frame more.
LEMMA MatchMore ==
    ASSUME NEW ds \in Seq(Seq(Nat)), NEW cs \in Seq(Chains), NEW d \in Seq(Nat), NEW c \in Chains,
           Match(ds, cs), StandsFor(d, c)
    PROVE  Match(Append(ds, d), Append(cs, c))
<1> DEFINE es == Append(ds, d)
           fs == Append(cs, c)
           n == Len(cs)
<1>1. n \in Nat /\ Len(ds) = n /\ \A k \in 1 .. n : StandsFor(ds[k], cs[k])
  BY LenProperties DEF Match
<1>2. /\ Len(es) = n + 1 /\ Len(fs) = n + 1 /\ es[n + 1] = d /\ fs[n + 1] = c
      /\ \A k \in 1 .. n : es[k] = ds[k] /\ fs[k] = cs[k]
  BY <1>1, AppendProperties
<1> HIDE DEF es, fs, n
<1>3. ASSUME NEW k \in 1 .. n + 1 PROVE StandsFor(es[k], fs[k])
  <2>1. CASE k = n + 1
    BY <1>2, <2>1
  <2>2. CASE k # n + 1
    <3>1. k \in 1 .. n
      BY <1>1, <2>2
    <3> QED BY <1>1, <1>2, <3>1
  <2> QED BY <2>1, <2>2
<1> QED BY <1>2, <1>3 DEF Match, es, fs

\* One frame less.
LEMMA MatchLess ==
    ASSUME NEW ds \in Seq(Seq(Nat)), NEW cs \in Seq(Chains), Match(ds, cs), ds # <<>>
    PROVE  /\ cs # <<>> /\ StandsFor(Head(ds), Head(cs)) /\ Match(Tail(ds), Tail(cs))
           /\ Head(ds) \in Seq(Nat) /\ Tail(ds) \in Seq(Seq(Nat))
           /\ Head(cs) \in Chains /\ Tail(cs) \in Seq(Chains)
<1> DEFINE n == Len(cs)
<1>1. n \in Nat /\ Len(ds) = n /\ \A k \in 1 .. n : StandsFor(ds[k], cs[k])
  BY LenProperties DEF Match
<1>2. n # 0
  BY <1>1, EmptySeq
<1>3. cs # <<>>
  BY <1>2, EmptySeq
<1>4. /\ Head(ds) = ds[1] /\ Head(cs) = cs[1]
  OBVIOUS
<1>5. /\ Head(ds) \in Seq(Nat) /\ Tail(ds) \in Seq(Seq(Nat)) /\ Len(Tail(ds)) = n - 1
      /\ \A k \in 1 .. n - 1 : Tail(ds)[k] = ds[k + 1]
  BY <1>1, HeadTailProperties
<1>6. /\ Head(cs) \in Chains /\ Tail(cs) \in Seq(Chains) /\ Len(Tail(cs)) = n - 1
      /\ \A k \in 1 .. n - 1 : Tail(cs)[k] = cs[k + 1]
  BY <1>3, HeadTailProperties
<1> HIDE DEF n
<1>7. ASSUME NEW k \in 1 .. n - 1 PROVE StandsFor(Tail(ds)[k], Tail(cs)[k])
  <2>1. k + 1 \in 1 .. n
    BY <1>1
  <2> QED BY <1>1, <1>5, <1>6, <2>1
<1>8. 1 \in 1 .. n
  BY <1>1, <1>2
<1> QED BY <1>1, <1>3, <1>4, <1>5, <1>6, <1>7, <1>8 DEF Match

\* ThisBufLen--
LEMMA WrapDown ==
    ASSUME NEW n \in Nat, n # 0, n < Wrap
    PROVE  (n + Wrap - 1) % Wrap = n - 1
<1>1. Wrap \in Nat /\ Wrap > 0
  BY OutSizes
<1> QED BY <1>1

\* Other steps.
LEMMA OutElsewhere == ASSUME OutInv, UNCHANGED outvars PROVE OutInv'
<1>1. UNCHANGED <<tx, out_pc, chain, first, total, out_i, left, asked, cut>>
  BY DEF outvars
<1>2. OutTypes' /\ EnoughAhead'
  BY <1>1 DEF OutInv, OutTypes, EnoughAhead, Ahead
<1>3. AllWritten' <=> AllWritten
  BY <1>1 DEF AllWritten
<1>4. \A c, part : Begun(c, part) => Begun(c, part)'
  BY <1>1, Zenon DEF Begun
<1>5. ASSUME NEW ds, NEW part, Holds(ds, part) PROVE Holds(ds, part)'
  <2>1. CASE AllWritten
    BY <1>1, <1>3, <1>5, <2>1 DEF Holds
  <2>2. CASE ~AllWritten
    BY <1>1, <1>3, <1>4, <1>5, <2>2 DEF Holds
  <2> QED BY <2>1, <2>2
<1> QED BY <1>1, <1>2, <1>5 DEF OutInv

\* A byte that is written and not lost comes behind those before.
LEMMA ByteWritten ==
    ASSUME OutTypes, NEW b \in Nat, Out!WriteTx(b)
    PROVE  /\ tx' \in Seq(Nat) /\ cut' \in BOOLEAN /\ (cut => cut')
           /\ \A u, v \in Seq(Nat) : ~cut' /\ tx = u \o v => tx' = u \o (v \o <<b>>)
<1>1. /\ tx \in Seq(Nat) /\ cut \in BOOLEAN /\ <<b>> \in Seq(Nat)
  BY DEF OutTypes
<1>2. CASE Len(tx) < TxDepth
  <2>1. tx' = Append(tx, b) /\ cut' = cut
    BY <1>2 DEF Out!WriteTx
  <2>2. tx' \in Seq(Nat)
    BY <1>1, <2>1, AppendProperties
  <2>3. ASSUME NEW u \in Seq(Nat), NEW v \in Seq(Nat), tx = u \o v
        PROVE  tx' = u \o (v \o <<b>>)
    <3>1. tx' = (u \o v) \o <<b>>
      BY <1>1, <2>1, <2>3, AppendIsConcat
    <3>2. (u \o v) \o <<b>> = u \o (v \o <<b>>)
      BY <1>1, BytesAssociate, Zenon
    <3> QED BY <3>1, <3>2, Zenon
  <2> QED BY <1>1, <2>1, <2>2, <2>3, Zenon
<1>3. CASE ~(Len(tx) < TxDepth)
  <2>1. cut' = TRUE /\ tx' = tx
    BY <1>3 DEF Out!WriteTx
  <2> QED BY <1>1, <2>1
<1> QED BY <1>2, <1>3

\* A frame is passed.
LEMMA PassStep == ASSUME OutInv, Out!Output PROVE OutInv'
<1>1. PICK c \in Chains :
        /\ out_pc = "idle" /\ ~cut /\ asked' = Append(asked, c)
        /\ chain' = c /\ first' = Head(c) /\ total' = Len(Out!Frame(c))
        /\ left' = Len(Head(c)) /\ out_i' = 0 /\ out_pc' = "high"
        /\ UNCHANGED <<tx, cut>>
  BY DEF Out!Output
<1>2. OutTypes
  BY DEF OutInv
<1>3. /\ c \in Seq(Seq(Nat)) /\ c # <<>> /\ Out!Frame(c) = FlattenSeq(c)
      /\ Len(Out!Frame(c)) \in 1 .. Base * Base - 1 /\ Base * Base \in Nat
      /\ Head(c) \in Seq(Nat) /\ Tail(c) \in Seq(Seq(Nat))
      /\ Len(FlattenSeq(c)) = Len(Head(c)) + Len(FlattenSeq(Tail(c)))
      /\ Len(Head(c)) \in Nat /\ Len(FlattenSeq(Tail(c))) \in Nat
      /\ Len(c) = 1 => Head(c) = c[1]
  BY ChainBytes, OutSizes, FlattenLength, LenProperties
<1>4. OutTypes'
  <2>1. asked' \in Seq(Chains)
    BY <1>1, <1>2, AppendProperties DEF OutTypes
  <2>2. total' \in Nat /\ out_i' \in Nat /\ left' \in Nat /\ out_i' <= total'
    BY <1>1, <1>3
  <2> QED BY <1>1, <1>2, <1>3, <2>1, <2>2 DEF OutTypes
<1>5. EnoughAhead'
  <2> DEFINE n == Len(FlattenSeq(c))
             h == Len(Head(c))
             t == Len(FlattenSeq(Tail(c)))
  <2>1. /\ n = h + t /\ h \in Nat /\ t \in Nat /\ n \in 1 .. Base * Base - 1
        /\ Base * Base \in Nat /\ Base * Base <= Wrap /\ Wrap \in Nat
    BY <1>3, OutSizes
  <2>2. total' = n /\ left' = h /\ Ahead' = t /\ Len(FlattenSeq(chain')) = n
    BY <1>1, <1>3 DEF Ahead
  <2> HIDE DEF n, h, t
  <2>3. h < Wrap /\ n <= n /\ 0 + h + t >= n
    BY <2>1
  <2> QED BY <1>1, <1>3, <2>1, <2>2, <2>3 DEF EnoughAhead
<1>6. PICK ds \in Seq(Seq(Nat)), part \in Seq(Nat) : Holds(ds, part)
  BY <1>1 DEF OutInv
<1>7. part = <<>> /\ Match(ds, asked) /\ tx = AllCoded(Base, ds) \o part
  BY <1>1, <1>6 DEF Holds, AllWritten
<1>8. Holds(ds, part)'
  <2>1. ~AllWritten'
    BY <1>1 DEF AllWritten
  <2>2. Begun(c, part)'
    BY <1>1, <1>3, <1>7 DEF Begun
  <2>3. asked \in Seq(Chains)
    BY <1>2 DEF OutTypes
  <2>4. tx' = AllCoded(Base, ds) \o part
    BY <1>1, <1>7
  <2> QED BY <1>1, <1>7, <2>1, <2>2, <2>3, <2>4 DEF Holds
<1> QED BY <1>4, <1>5, <1>8 DEF OutInv

\* The bytes of the length.
LEMMA LengthBytes ==
    ASSUME OutTypes
    PROVE  /\ total \div Base \in Nat /\ total % Base \in Nat
           /\ (total \div Base) * Base + (total % Base) = total
<1>1. total \in Nat /\ Base \in Nat \ {0}
  BY OutSizes DEF OutTypes
<1>2. total \div Base \in Nat /\ total % Base \in Nat
  BY <1>1
<1>3. Base * (total \div Base) + (total % Base) = total
  BY <1>1, Z3
<1>4. \A x \in Nat : Base * x = x * Base
  BY <1>1
<1> QED BY <1>2, <1>3, <1>4, Zenon

\* The length is written.
LEMMA HighStep == ASSUME OutInv, Out!WriteHigh PROVE OutInv'
<1>1. /\ out_pc = "high" /\ out_pc' = "low" /\ Out!WriteTx(total \div Base)
      /\ UNCHANGED <<chain, first, total, out_i, left, asked>>
  BY DEF Out!WriteHigh, Out!call
<1>2. OutTypes /\ EnoughAhead
  BY DEF OutInv
<1>3. PICK b \in Nat : b = total \div Base
  BY <1>2, LengthBytes
<1>4. /\ tx' \in Seq(Nat) /\ cut' \in BOOLEAN /\ (cut => cut')
      /\ \A u, v \in Seq(Nat) : ~cut' /\ tx = u \o v => tx' = u \o (v \o <<b>>)
  BY <1>1, <1>2, <1>3, ByteWritten
<1>5. OutTypes'
  BY <1>1, <1>2, <1>4 DEF OutTypes
<1>6. EnoughAhead'
  BY <1>1, <1>2 DEF EnoughAhead, Ahead
<1>7. ASSUME ~cut' PROVE \E ds \in Seq(Seq(Nat)), part \in Seq(Nat) : Holds(ds, part)'
  <2>1. PICK ds \in Seq(Seq(Nat)), part \in Seq(Nat) : Holds(ds, part)
    BY <1>4, <1>7 DEF OutInv
  <2>2. ~AllWritten /\ ~AllWritten'
    BY <1>1 DEF AllWritten
  <2>3. PICK cs \in Seq(Chains), c \in Chains :
           asked = Append(cs, c) /\ Match(ds, cs) /\ Begun(c, part)
    BY <2>1, <2>2 DEF Holds
  <2>4. AllCoded(Base, ds) \in Seq(Nat)
    BY OutSizes, AllCodedBytes
  <2>5. part = <<>> /\ tx = AllCoded(Base, ds) \o part
    BY <1>1, <2>1, <2>3 DEF Holds, Begun
  <2>6. part \o <<b>> = <<total \div Base>> /\ <<b>> \in Seq(Nat)
    <3>1. <<b>> \in Seq(Nat)
      OBVIOUS
    <3> QED BY <1>3, <2>5, <3>1, ConcatEmptySeq
  <2>7. tx' = AllCoded(Base, ds) \o (part \o <<b>>)
    BY <1>4, <1>7, <2>4, <2>5
  <2>8. Begun(c, part \o <<b>>)'
    BY <1>1, <2>3, <2>6 DEF Begun
  <2>9. Holds(ds, part \o <<b>>)'
    BY <1>1, <2>2, <2>3, <2>7, <2>8 DEF Holds
  <2> QED BY <2>6, <2>9, ConcatProperties
<1> QED BY <1>5, <1>6, <1>7 DEF OutInv

LEMMA LowByteStep == ASSUME OutInv, Out!WriteLow PROVE OutInv'
<1>1. /\ out_pc = "low" /\ out_pc' = "data" /\ Out!WriteTx(total % Base)
      /\ UNCHANGED <<chain, first, total, out_i, left, asked>>
  BY DEF Out!WriteLow, Out!call
<1>2. OutTypes /\ EnoughAhead
  BY DEF OutInv
<1>3. /\ total \div Base \in Nat
      /\ total % Base \in Nat
  BY <1>2, LengthBytes
<1>4. PICK a \in Nat, b \in Nat : a = total \div Base /\ b = total % Base
  BY <1>3
<1>5. /\ tx' \in Seq(Nat) /\ cut' \in BOOLEAN /\ (cut => cut')
      /\ \A u, v \in Seq(Nat) : ~cut' /\ tx = u \o v => tx' = u \o (v \o <<b>>)
  BY <1>1, <1>2, <1>4, ByteWritten
<1>6. OutTypes'
  BY <1>1, <1>2, <1>5 DEF OutTypes
<1>7. EnoughAhead' /\ out_i = 0 /\ total # 0
  BY <1>1, <1>2, OutSizes DEF EnoughAhead, Ahead
<1>8. ASSUME ~cut' PROVE \E ds \in Seq(Seq(Nat)), part \in Seq(Nat) : Holds(ds, part)'
  <2>1. PICK ds \in Seq(Seq(Nat)), part \in Seq(Nat) : Holds(ds, part)
    BY <1>5, <1>8 DEF OutInv
  <2>2. ~AllWritten /\ ~AllWritten'
    BY <1>1, <1>7 DEF AllWritten
  <2>3. PICK cs \in Seq(Chains), c \in Chains :
           asked = Append(cs, c) /\ Match(ds, cs) /\ Begun(c, part)
    BY <2>1, <2>2 DEF Holds
  <2>4. AllCoded(Base, ds) \in Seq(Nat)
    BY OutSizes, AllCodedBytes
  <2>5. part = <<a>> /\ tx = AllCoded(Base, ds) \o part
    BY <1>1, <1>4, <2>1, <2>3 DEF Holds, Begun
  <2>6. part \o <<b>> = <<a, b>> \o <<>> /\ <<a, b>> \o <<>> \in Seq(Nat)
    <3>1. <<a>> \in Seq(Nat) /\ <<b>> \in Seq(Nat) /\ <<a, b>> = Append(<<a>>, b)
          /\ <<a, b>> \in Seq(Nat)
      OBVIOUS
    <3>2. <<a>> \o <<b>> = <<a, b>>
      BY <3>1, AppendIsConcat
    <3>3. <<a, b>> \o <<>> = <<a, b>>
      BY <3>1, ConcatEmptySeq
    <3> QED BY <2>5, <3>1, <3>2, <3>3, Zenon
  <2>7. tx' = AllCoded(Base, ds) \o (part \o <<b>>)
    BY <1>5, <1>8, <2>4, <2>5
  <2> DEFINE now == part \o <<b>>
  <2>8. Begun(c, now)'
    <3> HIDE DEF now
    <3>1. now = <<total \div Base, total % Base>> \o <<>>
      BY <1>4, <2>6, Zenon DEF now
    <3>2. <<>> \in Seq(Nat) /\ Len(<<>>) = 0 /\ \A k \in 1 .. 0 : <<>>[k] = c[1][k]
      OBVIOUS
    <3>3. \E d \in Seq(Nat) : /\ now = <<total \div Base, total % Base>> \o d /\ Len(d) = 0
                              /\ \A k \in 1 .. 0 : d[k] = c[1][k]
      BY <3>1, <3>2
    <3>4. total' = Len(Out!Frame(c)) /\ (Len(c) = 1 => first' = c[1])
      BY <1>1, <2>3 DEF Begun
    <3> QED BY <1>1, <1>7, <3>3, <3>4, Zenon DEF Begun
  <2> HIDE DEF now
  <2>9. Holds(ds, now)'
    BY <1>1, <2>2, <2>3, <2>7, <2>8 DEF Holds, now
  <2>10. now \in Seq(Nat)
    BY <2>6 DEF now
  <2> QED BY <2>9, <2>10
<1> QED BY <1>6, <1>7, <1>8 DEF OutInv

\* pbufs already used up take nothing from those ahead.
LEMMA AheadStep ==
    ASSUME OutInv, Out!WriteData
    PROVE  EnoughAhead' /\ chain' \in Seq(Seq(Nat)) /\ left' \in Nat
<1> DEFINE here == IF left = 0 THEN Tail(chain) ELSE chain
           len == IF left = 0 THEN Len(Head(here)) ELSE left
<1>1. /\ out_pc = "data" /\ out_i < total /\ here # <<>>
      /\ chain' = here /\ left' = (len + Wrap - 1) % Wrap /\ out_i' = out_i + 1
      /\ UNCHANGED <<out_pc, total>>
  BY DEF Out!WriteData
<1>2. /\ OutTypes /\ chain # <<>> /\ total \in 1 .. Base * Base - 1 /\ left < Wrap
      /\ Len(FlattenSeq(chain)) <= total /\ out_i + left + Ahead >= total
      /\ chain \in Seq(Seq(Nat)) /\ left \in Nat /\ out_i \in Nat /\ total \in Nat
  BY <1>1 DEF OutInv, OutTypes, EnoughAhead
<1>3. /\ Tail(chain) \in Seq(Seq(Nat)) /\ Len(FlattenSeq(Tail(chain))) \in Nat
      /\ Len(FlattenSeq(chain)) = Len(Head(chain)) + Len(FlattenSeq(Tail(chain)))
      /\ Len(Head(chain)) \in Nat
  BY <1>2, FlattenLength, LenProperties
<1>4. /\ Base * Base \in Nat /\ Base * Base <= Wrap /\ Wrap \in Nat /\ Wrap > 0
  BY OutSizes
<1>5. CASE left = 0
  <2>1. here = Tail(chain) /\ len = Len(Head(here))
    BY <1>5
  <2> HIDE DEF here, len
  <2>2. /\ here \in Seq(Seq(Nat)) /\ here # <<>>
    BY <1>1, <1>3, <2>1
  <2>3. /\ Len(FlattenSeq(here)) = len + Len(FlattenSeq(Tail(here)))
        /\ len \in Nat /\ Len(FlattenSeq(Tail(here))) \in Nat
    BY <2>1, <2>2, FlattenLength, LenProperties
  <2> DEFINE t == Len(FlattenSeq(Tail(here)))
             h == Len(FlattenSeq(here))
  <2>4. /\ h = len + t /\ len \in Nat /\ t \in Nat /\ out_i + 0 + h >= total /\ h <= total
    <3>1. Ahead = h
      BY <2>1, Zenon DEF Ahead
    <3>2. h \in Nat /\ h <= Len(FlattenSeq(chain)) /\ h = len + t /\ len \in Nat /\ t \in Nat
      <4>1. h = Len(FlattenSeq(Tail(chain)))
        BY <2>1, Zenon
      <4> QED BY <1>3, <2>3, <4>1
    <3> HIDE DEF h, t
    <3>3. h <= total
      BY <1>2, <1>3, <3>2
    <3> QED BY <1>2, <1>5, <3>1, <3>2, <3>3
  <2> HIDE DEF t, h
  <2>5. /\ left' \in Nat /\ left' < Wrap /\ out_i + 1 + left' + t >= total
    <3>1. CASE len = 0
      <4>1. left' = Wrap - 1
        BY <1>1, <1>4, <3>1
      <4> QED BY <1>2, <1>4, <2>4, <4>1
    <3>2. CASE len # 0
      <4>1. len < Wrap /\ len - 1 \in Nat
        BY <1>2, <1>4, <2>4, <3>2
      <4>2. left' = len - 1
        BY <1>1, <1>4, <2>3, <4>1, WrapDown
      <4> QED BY <1>2, <1>4, <2>4, <4>1, <4>2
    <3> QED BY <3>1, <3>2
  <2>6. Ahead' = t /\ Len(FlattenSeq(chain')) = h
    BY <1>1 DEF Ahead, t, h
  <2> QED BY <1>1, <1>2, <2>2, <2>4, <2>5, <2>6 DEF EnoughAhead
<1>6. CASE left # 0
  <2>1. here = chain /\ len = left
    BY <1>6
  <2> HIDE DEF here, len
  <2>2. left - 1 \in Nat /\ left' = left - 1
    BY <1>1, <1>2, <1>4, <1>6, <2>1, WrapDown
  <2>3. chain' = chain /\ Ahead' = Ahead /\ Ahead \in Nat
    BY <1>1, <1>3, <2>1 DEF Ahead
  <2>4. out_i + 1 + (left - 1) + Ahead >= total /\ left - 1 < Wrap
    BY <1>2, <1>4, <2>3
  <2> QED BY <1>1, <1>2, <2>2, <2>3, <2>4 DEF EnoughAhead
<1> QED BY <1>5, <1>6

\* The byte written is one of the frame, if the frame is in one pbuf.
LEMMA ByteAtCp ==
    ASSUME OutTypes, NEW c \in Chains, Len(c) = 1 => first = c[1],
           total = Len(Out!Frame(c)), out_i < total, NEW b \in Out!AtCp
    PROVE  b \in Nat /\ (Len(c) = 1 => b = c[1][out_i + 1] /\ Len(c[1]) = total)
<1>1. out_i \in Nat /\ total \in Nat /\ first \in Seq(Nat) /\ Len(first) \in Nat
  BY LenProperties DEF OutTypes
<1>2. CASE out_i < Len(first)
  <2>1. b = first[out_i + 1]
    BY <1>2 DEF Out!AtCp
  <2>2. b \in Nat
    BY <1>1, <1>2, <2>1, ElementOfSeq
  <2> QED BY <2>1, <2>2, ChainBytes
<1>3. CASE ~(out_i < Len(first))
  <2>1. b \in Nat
    BY <1>3, OutSizes DEF Out!AtCp
  <2>2. Len(c) # 1
    <3>1. SUFFICES ASSUME Len(c) = 1 PROVE FALSE
      OBVIOUS
    <3>2. Len(first) = total
      BY <3>1, ChainBytes
    <3> QED BY <1>3, <3>2
  <2> QED BY <2>1, <2>2
<1> QED BY <1>2, <1>3

\* A byte of the frame is written.
LEMMA DataStep == ASSUME OutInv, Out!WriteData PROVE OutInv'
<1>1. /\ out_pc = "data" /\ out_pc' = "data" /\ out_i < total /\ out_i' = out_i + 1
      /\ \E b \in Out!AtCp : Out!WriteTx(b)
      /\ UNCHANGED <<first, total, asked>>
  BY DEF Out!WriteData
<1>2. OutTypes /\ out_i \in Nat /\ total \in Nat
  BY DEF OutInv, OutTypes
<1>3. PICK b \in Out!AtCp : Out!WriteTx(b)
  BY <1>1
<1>4. EnoughAhead' /\ chain' \in Seq(Seq(Nat)) /\ left' \in Nat
  BY AheadStep
<1>5. b \in Nat
  <2>1. CASE out_i < Len(first)
    <3>1. b = first[out_i + 1] /\ first \in Seq(Nat) /\ Len(first) \in Nat
      BY <1>2, <2>1, LenProperties DEF Out!AtCp, OutTypes
    <3> QED BY <1>2, <2>1, <3>1, ElementOfSeq
  <2>2. CASE ~(out_i < Len(first))
    BY <2>2, OutSizes DEF Out!AtCp
  <2> QED BY <2>1, <2>2
<1>6. /\ tx' \in Seq(Nat) /\ cut' \in BOOLEAN /\ (cut => cut')
      /\ \A u, v \in Seq(Nat) : ~cut' /\ tx = u \o v => tx' = u \o (v \o <<b>>)
  BY <1>2, <1>3, <1>5, ByteWritten
<1>7. OutTypes'
  <2>1. out_i' \in Nat /\ out_i' <= total
    BY <1>1, <1>2
  <2> QED BY <1>1, <1>2, <1>4, <1>6, <2>1 DEF OutTypes
<1>8. ASSUME ~cut' PROVE \E ds \in Seq(Seq(Nat)), part \in Seq(Nat) : Holds(ds, part)'
  <2>1. PICK ds \in Seq(Seq(Nat)), part \in Seq(Nat) : Holds(ds, part)
    BY <1>6, <1>8 DEF OutInv
  <2>2. ~AllWritten
    BY <1>1, <1>2 DEF AllWritten
  <2>3. PICK cs \in Seq(Chains), c \in Chains :
           asked = Append(cs, c) /\ Match(ds, cs) /\ Begun(c, part)
    BY <2>1, <2>2 DEF Holds
  <2>4. PICK old \in Seq(Nat) : old = AllCoded(Base, ds)
    BY OutSizes, AllCodedBytes
  <2>5. PICK d \in Seq(Nat) : /\ part = <<total \div Base, total % Base>> \o d /\ Len(d) = out_i
                              /\ Len(c) = 1 => \A k \in 1 .. out_i : d[k] = c[1][k]
    BY <1>1, <2>3 DEF Begun
  <2>6. PICK p \in Seq(Nat) : p = <<total \div Base, total % Base>>
    <3>1. PICK x \in Nat, y \in Nat : x = total \div Base /\ y = total % Base
      BY <1>2, LengthBytes
    <3>2. <<x, y>> \in Seq(Nat)
      OBVIOUS
    <3> QED BY <3>1, <3>2
  <2>7. /\ total = Len(Out!Frame(c)) /\ (Len(c) = 1 => first = c[1])
    BY <2>3 DEF Begun
  <2>8. Len(c) = 1 => b = c[1][out_i + 1] /\ Len(c[1]) = total
    BY <1>1, <1>2, <2>7, ByteAtCp
  <2> DEFINE e == Append(d, b)
  <2>9. /\ e \in Seq(Nat) /\ Len(e) = out_i + 1 /\ e = d \o <<b>> /\ <<b>> \in Seq(Nat)
        /\ \A k \in 1 .. out_i : e[k] = d[k]
        /\ e[out_i + 1] = b
    <3>1. /\ e \in Seq(Nat) /\ Len(e) = Len(d) + 1 /\ e[Len(d) + 1] = b
          /\ \A k \in 1 .. Len(d) : e[k] = d[k]
      BY <1>5, AppendProperties
    <3>2. e = d \o <<b>>
      BY <1>5, AppendIsConcat
    <3>3. <<b>> \in Seq(Nat)
      BY <1>5
    <3> HIDE DEF e
    <3> QED BY <2>5, <3>1, <3>2, <3>3
  <2> HIDE DEF e
  <2>10. Len(c) = 1 => \A k \in 1 .. out_i + 1 : e[k] = c[1][k]
    <3>1. SUFFICES ASSUME Len(c) = 1, NEW k \in 1 .. out_i + 1 PROVE e[k] = c[1][k]
      BY Zenon
    <3>2. CASE k = out_i + 1
      BY <2>8, <2>9, <3>1, <3>2
    <3>3. CASE k # out_i + 1
      <4>1. k \in 1 .. out_i
        BY <1>2, <3>3
      <4> QED BY <2>5, <2>9, <3>1, <4>1
    <3> QED BY <3>2, <3>3
  <2>11. tx' = old \o (p \o e)
    <3>1. tx = old \o part /\ part = p \o d
      BY <2>1, <2>4, <2>5, <2>6 DEF Holds
    <3>2. tx' = old \o (part \o <<b>>)
      BY <1>6, <1>8, <3>1
    <3>3. (p \o d) \o <<b>> = p \o (d \o <<b>>)
      BY <2>9, BytesAssociate, ZenonT(30)
    <3> QED BY <2>9, <3>1, <3>2, <3>3, Zenon
  <2>12. p \o e \in Seq(Nat)
    BY <2>9, ConcatProperties
  <2>13. CASE out_i + 1 = total
    <3>1. AllWritten'
      BY <1>1, <2>13 DEF AllWritten
    <3>2. Coded(Base, e) = p \o e
      BY <2>6, <2>9, <2>13 DEF Coded
    <3>3. AllCoded(Base, Append(ds, e)) = old \o (p \o e)
      BY <2>4, <2>9, <3>2, AllCodedAppend, OutSizes
    <3>4. Append(ds, e) \in Seq(Seq(Nat))
      BY <2>9, AppendProperties
    <3>5. tx' = AllCoded(Base, Append(ds, e)) \o <<>>
      <4>1. tx' \in Seq(Nat)
        BY <1>6
      <4> QED BY <2>11, <3>3, <4>1, ConcatEmptySeq
    <3>6. StandsFor(e, c)
      <4>1. Len(e) = Len(Out!Frame(c))
        BY <2>7, <2>9, <2>13
      <4>2. ASSUME Len(c) = 1 PROVE e = c[1]
        <5>1. c[1] \in Seq(Nat) /\ Len(c[1]) = Len(e)
          BY <2>7, <2>8, <4>1, <4>2, ChainBytes
        <5> QED BY <2>9, <2>10, <4>2, <5>1, SeqEqual
      <4> QED BY <4>1, <4>2 DEF StandsFor
    <3>7. Match(Append(ds, e), asked)
      BY <2>3, <2>9, <3>6, MatchMore
    <3>8. Holds(Append(ds, e), <<>>)'
      BY <1>1, <3>1, <3>5, <3>7 DEF Holds
    <3>9. <<>> \in Seq(Nat)
      OBVIOUS
    <3> QED BY <3>4, <3>8, <3>9
  <2>14. CASE out_i + 1 # total
    <3>1. ~AllWritten'
      BY <1>1, <2>14 DEF AllWritten
    <3>2. Begun(c, p \o e)'
      BY <1>1, <2>6, <2>7, <2>9, <2>10 DEF Begun
    <3>3. Holds(ds, p \o e)'
      BY <1>1, <2>3, <2>4, <2>11, <3>1, <3>2 DEF Holds
    <3> QED BY <2>12, <3>3
  <2> QED BY <2>13, <2>14
<1> QED BY <1>4, <1>7, <1>8 DEF OutInv

\* What is sent ends when all is written.
LEMMA ReturnStep == ASSUME OutInv, Out!Return PROVE OutInv'
<1>1. /\ out_pc = "data" /\ out_pc' = "idle" /\ (out_i = total \/ (left = 0 /\ Len(chain) = 1))
      /\ chain' = <<>> /\ first' = <<>> /\ total' = 0 /\ out_i' = 0 /\ left' = 0
      /\ UNCHANGED <<tx, asked, cut>>
  BY DEF Out!Return
<1>2. /\ OutTypes /\ EnoughAhead /\ out_i \in Nat /\ total \in Nat /\ out_i <= total
      /\ chain \in Seq(Seq(Nat))
  BY DEF OutInv, OutTypes
<1>3. out_i = total
  <2>1. SUFFICES ASSUME left = 0, Len(chain) = 1 PROVE out_i = total
    BY <1>1
  <2>2. chain # <<>> /\ out_i + 0 + Ahead >= total
    BY <1>1, <1>2, <2>1 DEF EnoughAhead
  <2>3. Ahead = 0
    <3>1. Tail(chain) \in Seq(Seq(Nat)) /\ Len(Tail(chain)) = 0
      BY <1>2, <2>1, <2>2, HeadTailProperties
    <3>2. Tail(chain) = <<>>
      BY <3>1, EmptySeq
    <3>3. FlattenSeq(<<>>) = <<>> /\ Len(<<>>) = 0
      BY DEF FlattenSeq
    <3> QED BY <3>2, <3>3 DEF Ahead
  <2> QED BY <1>2, <2>2, <2>3
<1>4. OutTypes' /\ EnoughAhead'
  <2>1. <<>> \in Seq(Nat) /\ <<>> \in Seq(Seq(Nat)) /\ 0 \in Nat /\ 0 <= 0
    OBVIOUS
  <2> QED BY <1>1, <1>2, <2>1 DEF OutTypes, EnoughAhead
<1>5. AllWritten /\ AllWritten'
  BY <1>1, <1>3 DEF AllWritten
<1>6. \A ds, part : Holds(ds, part) => Holds(ds, part)'
  BY <1>1, <1>5 DEF Holds
<1> QED BY <1>1, <1>4, <1>6 DEF OutInv

\* A reset cuts off what is being sent.
LEMMA StopStep == ASSUME OutInv, Out!CpuReset PROVE OutInv'
<1>1. /\ cut' = (cut \/ out_pc # "idle") /\ out_pc' = "idle"
      /\ chain' = <<>> /\ first' = <<>> /\ total' = 0 /\ out_i' = 0 /\ left' = 0
      /\ UNCHANGED <<tx, asked>>
  BY DEF Out!CpuReset
<1>2. OutTypes
  BY DEF OutInv
<1>3. OutTypes' /\ EnoughAhead'
  <2>1. <<>> \in Seq(Nat) /\ <<>> \in Seq(Seq(Nat)) /\ 0 \in Nat /\ 0 <= 0
    OBVIOUS
  <2>2. cut' \in BOOLEAN
    BY <1>1, Zenon
  <2> QED BY <1>1, <1>2, <2>1, <2>2 DEF OutTypes, EnoughAhead
<1>4. ASSUME ~cut' PROVE \E ds \in Seq(Seq(Nat)), part \in Seq(Nat) : Holds(ds, part)'
  <2>1. ~cut /\ out_pc = "idle"
    BY <1>1, <1>4
  <2>2. PICK ds \in Seq(Seq(Nat)), part \in Seq(Nat) : Holds(ds, part)
    BY <2>1 DEF OutInv
  <2>3. AllWritten /\ AllWritten'
    BY <1>1, <2>1 DEF AllWritten
  <2>4. Holds(ds, part)'
    BY <1>1, <2>2, <2>3 DEF Holds
  <2> QED BY <2>4
<1> QED BY <1>3, <1>4 DEF OutInv

\* The MAC takes the oldest frame, and takes it whole.
Takes(f) == /\ asked # <<>> /\ StandsFor(f, Head(asked)) /\ f \in Seq(Nat)
            /\ Out!Took = f

LEMMA MacStep ==
    ASSUME OutInv, Out!MacSends, ~cut
    PROVE  /\ \E ds \in Seq(Seq(Nat)), part \in Seq(Nat) : Holds(ds, part)'
           /\ asked' \in Seq(Chains) /\ tx' \in Seq(Nat)
           /\ \E f : Takes(f)
<1> DEFINE size == tx[1] * Base + tx[2]
<1>1. /\ Len(tx) >= 2 + size /\ tx' = SubSeq(tx, 3 + size, Len(tx)) /\ Len(tx) >= 2
      /\ asked' = (IF asked = <<>> THEN <<>> ELSE Tail(asked))
      /\ UNCHANGED <<out_pc, chain, first, total, out_i, left, cut>>
  BY DEF Out!MacSends, Out!call
<1>2. OutTypes
  BY DEF OutInv
<1>3. PICK ds \in Seq(Seq(Nat)), part \in Seq(Nat) : Holds(ds, part)
  BY DEF OutInv
<1>4. tx = AllCoded(Base, ds) \o part
  BY <1>3 DEF Holds
<1>5. ds # <<>>
  <2>1. SUFFICES ASSUME ds = <<>> PROVE FALSE
    OBVIOUS
  <2>2. tx = part
    BY <1>4, <2>1, AllCodedNone, ConcatEmptySeq
  <2>3. ~AllWritten
    <3>1. part # <<>>
      BY <1>1, <2>2
    <3> QED BY <1>3, <3>1 DEF Holds
  <2>4. PICK c \in Chains : Begun(c, part)
    BY <1>3, <2>3 DEF Holds
  <2>5. out_pc = "data"
    <3>1. part # <<>> /\ part # <<total \div Base>>
      BY <1>1, <2>2
    <3> QED BY <1>2, <2>3, <2>4, <3>1 DEF Begun, OutTypes, AllWritten
  <2>6. PICK d \in Seq(Nat) : part = <<total \div Base, total % Base>> \o d /\ Len(d) = out_i
    BY <2>4, <2>5 DEF Begun
  <2>7. PICK x \in Nat, y \in Nat :
           x = total \div Base /\ y = total % Base /\ x * Base + y = total
    BY <1>2, LengthBytes
  <2>8. Len(tx) = 2 + out_i /\ tx[1] = x /\ tx[2] = y
    <3>1. PICK p \in Seq(Nat) : p = <<x, y>>
      <4>1. <<x, y>> \in Seq(Nat)
        OBVIOUS
      <4> QED BY <4>1
    <3>2. Len(p) = 2 /\ p[1] = x /\ p[2] = y
      BY <3>1
    <3>3. tx = p \o d
      BY <2>2, <2>6, <2>7, <3>1
    <3>4. /\ Len(tx) = Len(p) + Len(d)
          /\ \A k \in 1 .. Len(p) + Len(d) : tx[k] = IF k <= Len(p) THEN p[k] ELSE d[k - Len(p)]
      BY <3>3, ConcatProperties
    <3>5. 1 \in 1 .. 2 + out_i /\ 2 \in 1 .. 2 + out_i
      BY <1>2 DEF OutTypes
    <3> QED BY <2>6, <3>2, <3>4, <3>5
  <2>9. size = total
    BY <2>7, <2>8
  <2>10. out_i \in Nat /\ total \in Nat /\ out_i < total
    BY <1>2, <2>3, <2>5 DEF OutTypes, AllWritten
  <2> HIDE DEF size
  <2> QED BY <1>1, <2>8, <2>9, <2>10
<1>6. PICK f \in Seq(Nat), rest \in Seq(Seq(Nat)) : f = Head(ds) /\ rest = Tail(ds)
  BY <1>5, HeadTailProperties
<1>7. PICK b \in Seq(Nat) : b = AllCoded(Base, rest) \o part
  <2>1. AllCoded(Base, rest) \in Seq(Nat)
    BY OutSizes, AllCodedBytes
  <2> QED BY <2>1, ConcatProperties
<1>8. tx = Coded(Base, f) \o b
  <2>1. AllCoded(Base, ds) = Coded(Base, f) \o AllCoded(Base, rest)
    BY <1>5, <1>6, OutSizes, AllCodedHead
  <2>2. Coded(Base, f) \in Seq(Nat) /\ AllCoded(Base, rest) \in Seq(Nat)
    BY OutSizes, AllCodedBytes, CodedProperties
  <2>3. (Coded(Base, f) \o AllCoded(Base, rest)) \o part
          = Coded(Base, f) \o (AllCoded(Base, rest) \o part)
    BY <2>2, BytesAssociate, ZenonT(30)
  <2> QED BY <1>4, <1>7, <2>1, <2>3, Zenon
<1>9. /\ tx[1] * Base + tx[2] = Len(f) /\ Len(tx) = 2 + Len(f) + Len(b)
      /\ SubSeq(tx, 3, 2 + Len(f)) = f
      /\ SubSeq(tx, 3 + Len(f), Len(tx)) = b
  <2>1. Base \in Nat \ {0}
    BY OutSizes
  <2>2. FirstFrame(tx, Base, f, b)
    BY <1>8, <2>1, OldestCoded
  <2> QED BY <2>2 DEF FirstFrame
<1>10. tx' = b
  BY <1>1, <1>9
<1>11. Out!Took = f
  <2>1. Len(tx) - Len(tx') = 2 + Len(f)
    BY <1>9, <1>10, LenProperties
  <2> QED BY <1>9, <2>1 DEF Out!Took
<1>12. AllWritten' <=> AllWritten
  BY <1>1 DEF AllWritten
<1>13. CASE AllWritten
  <2>1. part = <<>> /\ Match(ds, asked) /\ asked \in Seq(Chains)
    BY <1>2, <1>3, <1>13 DEF Holds, OutTypes
  <2>2. /\ asked # <<>> /\ StandsFor(f, Head(asked)) /\ Match(rest, Tail(asked))
        /\ Tail(asked) \in Seq(Chains)
    BY <1>5, <1>6, <2>1, MatchLess
  <2>3. Holds(rest, part)'
    BY <1>1, <1>7, <1>10, <1>12, <1>13, <2>1, <2>2 DEF Holds
  <2> QED BY <1>1, <1>10, <1>11, <2>2, <2>3 DEF Takes
<1>14. CASE ~AllWritten
  <2>1. PICK cs \in Seq(Chains), c \in Chains :
           asked = Append(cs, c) /\ Match(ds, cs) /\ Begun(c, part)
    BY <1>3, <1>14 DEF Holds
  <2>2. /\ cs # <<>> /\ StandsFor(f, Head(cs)) /\ Match(rest, Tail(cs))
        /\ Tail(cs) \in Seq(Chains)
    BY <1>5, <1>6, <2>1, MatchLess
  <2>3. /\ Head(asked) = Head(cs) /\ Tail(asked) = Append(Tail(cs), c) /\ asked # <<>>
        /\ Tail(asked) \in Seq(Chains)
    BY <2>1, <2>2, HeadTailAppend, AppendProperties, EmptySeq
  <2>4. Begun(c, part)'
    BY <1>1, <2>1, Zenon DEF Begun
  <2>5. Holds(rest, part)'
    BY <1>1, <1>7, <1>10, <1>12, <1>14, <2>2, <2>3, <2>4 DEF Holds
  <2> QED BY <1>1, <1>10, <1>11, <2>2, <2>3, <2>5 DEF Takes
<1> QED BY <1>13, <1>14

\* Also after a frame was cut off the FIFO holds bytes.
LEMMA MacTypes == ASSUME OutInv, Out!MacSends PROVE OutInv'
<1> DEFINE size == tx[1] * Base + tx[2]
<1>1. /\ tx' = SubSeq(tx, 3 + size, Len(tx)) /\ Len(tx) >= 2
      /\ asked' = (IF asked = <<>> THEN <<>> ELSE Tail(asked))
      /\ UNCHANGED <<out_pc, chain, first, total, out_i, left, cut>>
  BY DEF Out!MacSends, Out!call
<1>2. OutTypes /\ EnoughAhead
  BY DEF OutInv
<1>3. tx' \in Seq(Nat)
  <2>1. tx \in Seq(Nat) /\ Len(tx) \in Nat /\ Len(tx) >= 2
    BY <1>1, <1>2, LenProperties DEF OutTypes
  <2>2. tx[1] \in Nat /\ tx[2] \in Nat
    <3>1. 1 \in 1 .. Len(tx) /\ 2 \in 1 .. Len(tx)
      BY <2>1
    <3> QED BY <2>1, <3>1, ElementOfSeq
  <2>3. PICK m \in Nat : m = 3 + size /\ m >= 3
    <3>1. size \in Nat
      BY <2>2, OutSizes
    <3> HIDE DEF size
    <3> QED BY <3>1
  <2>4. \A k \in m .. Len(tx) : tx[k] \in Nat
    BY <2>1, <2>3, ElementOfSeq
  <2>5. SubSeq(tx, m, Len(tx)) \in Seq(Nat)
    <3> DEFINE n == Len(tx)
    <3>1. m \in Int /\ n \in Int /\ \A k \in m .. n : tx[k] \in Nat
      BY <2>1, <2>3, <2>4
    <3> HIDE DEF n
    <3>2. SubSeq(tx, m, n) \in Seq(Nat)
      BY <3>1, SubSeqProperties
    <3> QED BY <3>2 DEF n
  <2> QED BY <1>1, <2>3, <2>5, Zenon
<1>4. asked' \in Seq(Chains)
  <2>1. CASE asked = <<>>
    BY <1>1, <2>1
  <2>2. CASE asked # <<>>
    BY <1>1, <1>2, <2>2, HeadTailProperties DEF OutTypes
  <2> QED BY <2>1, <2>2
<1>5. OutTypes' /\ EnoughAhead'
  BY <1>1, <1>2, <1>3, <1>4 DEF OutTypes, EnoughAhead, Ahead
<1>6. ~cut' => \E ds \in Seq(Seq(Nat)), part \in Seq(Nat) : Holds(ds, part)'
  BY <1>1, MacStep
<1> QED BY <1>5, <1>6 DEF OutInv

\* The frames the MAC takes are the frames lwIP passed, oldest first and of the right
\* lengths, and those passed in one pbuf are sent byte for byte (pano_netif_output
\* 279-308): for all chains, whatever is behind the first pbuf, every depth of the FIFO
\* and at whatever time the MAC takes them, until a frame is cut off.
THEOREM FramesReachMac == DriverSpec => FramesIntact
<1>1. DriverInit => OutInv
  <2>1. SUFFICES ASSUME DriverInit PROVE OutInv
    OBVIOUS
  <2>2. /\ tx = <<>> /\ out_pc = "idle" /\ chain = <<>> /\ first = <<>> /\ total = 0
        /\ out_i = 0 /\ left = 0 /\ asked = <<>> /\ cut = FALSE
    BY <2>1 DEF DriverInit, Out!Init
  <2>3. /\ <<>> \in Seq(Nat) /\ <<>> \in Seq(Seq(Nat)) /\ <<>> \in Seq(Chains) /\ 0 \in Nat
        /\ 0 <= 0 /\ <<>> \o <<>> = <<>> /\ Len(<<>>) = 0
    OBVIOUS
  <2>4. OutTypes /\ EnoughAhead
    BY <2>2, <2>3 DEF OutTypes, EnoughAhead
  <2>5. Match(<<>>, <<>>)
    BY <2>3 DEF Match
  <2>6. Holds(<<>>, <<>>)
    BY <2>2, <2>3, <2>5, AllCodedNone DEF Holds, AllWritten
  <2> QED BY <2>3, <2>4, <2>6 DEF OutInv
<1>2. OutInv /\ [DriverNext]_allvars => OutInv'
  <2>1. CASE UNCHANGED outvars
    BY <2>1, OutElsewhere
  <2>2. CASE Reads
    BY <2>1, <2>2 DEF Reads
  <2>3. CASE Sends
    BY <2>3, PassStep DEF Sends
  <2>4. CASE Writes
    BY <2>4, HighStep, LowByteStep, DataStep, ReturnStep DEF Writes, Out!Running
  <2>5. CASE Restart
    BY <2>5, StopStep DEF Restart
  <2>6. CASE Wire
    BY <2>1, <2>6, MacTypes DEF Wire
  <2>7. CASE UNCHANGED allvars
    BY <2>1, <2>7 DEF allvars
  <2> QED BY <2>2, <2>3, <2>4, <2>5, <2>6, <2>7 DEF DriverNext
<1>3. ASSUME OutInv, [DriverNext]_allvars, Len(tx') < Len(tx), ~cut PROVE \E f : Takes(f)
  <2>1. tx \in Seq(Nat) /\ Len(tx) \in Nat /\ tx' # tx
    BY <1>3, LenProperties DEF OutInv, OutTypes
  <2>2. \A b : ~Out!WriteTx(b)
    <3>1. SUFFICES ASSUME NEW b, Out!WriteTx(b) PROVE FALSE
      OBVIOUS
    <3>2. tx' = Append(tx, b)
      BY <2>1, <3>1 DEF Out!WriteTx
    <3>3. Len(tx') = Len(tx) + 1
      BY <2>1, <3>2
    <3> QED BY <1>3, <2>1, <3>3
  <2>3. Out!MacSends
    <3>1. ~UNCHANGED outvars
      BY <2>1 DEF outvars
    <3>2. ~Out!Running
      BY <2>1, <2>2 DEF Out!Running, Out!WriteHigh, Out!WriteLow, Out!WriteData, Out!Return
    <3>3. ~Out!Output /\ ~Out!CpuReset
      BY <2>1 DEF Out!Output, Out!CpuReset
    <3> QED BY <1>3, <3>1, <3>2, <3>3
         DEF allvars, DriverNext, Reads, Sends, Writes, Restart, Wire
  <2> QED BY <1>3, <2>3, MacStep
<1>4. OutInv /\ [DriverNext]_allvars
        => [Len(tx') < Len(tx) /\ ~cut =>
              asked # <<>> /\ Len(Out!Took) = Len(Out!Frame(Head(asked)))]_Out!vars
  BY <1>3 DEF Takes, StandsFor
<1>5. OutInv /\ [DriverNext]_allvars
        => [Len(tx') < Len(tx) /\ ~cut /\ asked # <<>> /\ Len(Head(asked)) = 1 =>
              Out!Took = Head(asked)[1]]_Out!vars
  BY <1>3 DEF Takes, StandsFor
<1> QED BY <1>1, <1>2, <1>4, <1>5, PTL
    DEF DriverSpec, FramesIntact, Out!FramesIntact, Out!LengthsKept, Out!SingleIntact

-----------------------------------------------------------------------------
(* The registers.                                                          *)

\* A sequence of one item or none.
LEMMA OneOrNone ==
    ASSUME NEW S, NEW s \in {<<>>} \cup {<<x>> : x \in S}
    PROVE  /\ s \in Seq(S)
           /\ s = <<>> => Len(s) = 0
           /\ s # <<>> => Len(s) = 1
<1>1. CASE s = <<>>
  BY <1>1, EmptySeq
<1>2. CASE \E x \in S : s = <<x>>
  BY <1>2
<1> QED BY <1>1, <1>2

\* The byte pushed, if one is.
LEMMA TxOne ==
    ASSUME NEW x \in Octets, NEW b \in BOOLEAN
    PROVE  /\ (IF b THEN <<x>> ELSE <<>>) \in Seq(Octets)
           /\ Len(IF b THEN <<x>> ELSE <<>>) = IF b THEN 1 ELSE 0
<1>1. CASE b
  BY <1>1
<1>2. CASE ~b
  BY <1>2, EmptySeq
<1> QED BY <1>1, <1>2

\* What a read returns is a value of a register.
LEMMA DataTyped ==
    ASSUME RegsTypeOK, NEW p \in Inputs
    PROVE  rx_data(p) \in Octets /\ data_r(p) \in Values
<1>1. rx_fifo \in Seq(Octets) /\ p.noise \in Octets
  BY DEF RegsTypeOK, Inputs
<1>2. rx_data(p) \in Octets
  <2>1. rx_fifo # <<>> => Head(rx_fifo) \in Octets
    BY <1>1, HeadTailProperties
  <2> QED BY <1>1, <2>1 DEF rx_data, rx_empty
<1>3. CASE ar = "ETH_RX"
  BY <1>2, <1>3 DEF data_r, Values
<1>4. CASE ar = "ETH_STATUS"
  <2>1. rx_empty \in BOOLEAN /\ tx_full \in BOOLEAN
    BY Zenon DEF rx_empty, tx_full
  <2> QED BY <1>2, <1>4, <2>1 DEF data_r, Values
<1>5. CASE ar # "ETH_RX" /\ ar # "ETH_STATUS"
  BY <1>2, <1>5 DEF data_r, Values, Zero
<1> QED BY <1>3, <1>4, <1>5

\* The MAC's FIFOs: what they hold stays within their depth.
LEMMA FifoStep ==
    ASSUME RegsTypeOK, NEW p \in Inputs, MacAllows(p), RxFifo(p), TxFifo(p)
    PROVE  /\ rx_fifo' \in Seq(Octets) /\ Len(rx_fifo') <= RxSize
           /\ tx_fifo' \in Seq(Octets) /\ Len(tx_fifo') <= TxSize
           /\ Unread \in Seq(Octets) /\ rx_fifo' = Unread \o p.arriving
           /\ p.arriving \in Seq(Octets)
<1>1. /\ rx_fifo \in Seq(Octets) /\ Len(rx_fifo) <= RxSize
      /\ tx_fifo \in Seq(Octets) /\ Len(tx_fifo) <= TxSize
      /\ tx_wr_en \in BOOLEAN /\ wr_data_q \in Octets /\ p.sending \in BOOLEAN
      /\ RxSize \in Nat /\ TxSize \in Nat
      /\ Len(rx_fifo) \in Nat /\ Len(tx_fifo) \in Nat
  BY DepthAssumption, LenProperties DEF RegsTypeOK, Inputs
<1>2. p.arriving \in {<<>>} \cup {<<b>> : b \in Octets}
  BY DEF Inputs
<1>3. /\ p.arriving \in Seq(Octets)
      /\ p.arriving = <<>> => Len(p.arriving) = 0
      /\ p.arriving # <<>> => Len(p.arriving) = 1
  BY <1>2, OneOrNone
<1>4. Unread \in Seq(Octets) /\ Len(Unread) <= Len(rx_fifo) /\ Len(Unread) \in Nat
  <2>1. CASE rx_rd_en /\ ~rx_empty
    BY <1>1, <2>1, HeadTailProperties, LenProperties DEF Unread, rx_empty
  <2>2. CASE ~(rx_rd_en /\ ~rx_empty)
    BY <1>1, <2>2 DEF Unread
  <2> QED BY <2>1, <2>2
<1>5. rx_fifo' = Unread \o p.arriving
  BY DEF RxFifo, Unread
<1>6. rx_fifo' \in Seq(Octets) /\ Len(rx_fifo') = Len(Unread) + Len(p.arriving)
  BY <1>3, <1>4, <1>5, ConcatProperties
<1>7. Len(rx_fifo') <= RxSize
  <2>1. p.arriving # <<>> => Len(rx_fifo) < RxSize
    BY DEF MacAllows
  <2> DEFINE n == Len(rx_fifo) u == Len(Unread) m == Len(p.arriving) r == Len(rx_fifo')
  <2>2. /\ n \in Nat /\ u \in Nat /\ RxSize \in Nat /\ n <= RxSize /\ u <= n /\ r = u + m
        /\ m = 0 \/ (m = 1 /\ n < RxSize)
    BY <1>1, <1>3, <1>4, <1>6, <2>1
  <2> HIDE DEF n, u, m, r
  <2>3. r <= RxSize
    BY <2>2
  <2> QED BY <2>3 DEF r
<1> DEFINE rest == Left(tx_fifo, p.sending)
           push == tx_wr_en /\ ~tx_full
           come == IF push THEN <<wr_data_q>> ELSE <<>>
<1>8. p.sending => tx_fifo # <<>>
  BY DEF MacAllows
<1>9. rest \in Seq(Octets) /\ Len(rest) <= Len(tx_fifo) /\ Len(rest) \in Nat
  BY <1>1, <1>8, LeftProperties, LenProperties
<1>10. push \in BOOLEAN /\ (push => Len(tx_fifo) # TxSize)
  BY <1>1, Zenon DEF tx_full
<1>11. tx_fifo' = rest \o come
  BY DEF TxFifo, Left
<1> HIDE DEF rest, push
<1>12. come \in Seq(Octets) /\ Len(come) = IF push THEN 1 ELSE 0
  BY <1>1, <1>10, TxOne
<1> HIDE DEF come
<1>13. tx_fifo' \in Seq(Octets) /\ Len(tx_fifo') = Len(rest) + Len(come)
  BY <1>9, <1>11, <1>12, ConcatProperties
<1>14. Len(tx_fifo') <= TxSize
  BY <1>1, <1>9, <1>10, <1>12, <1>13
<1> QED BY <1>3, <1>4, <1>5, <1>6, <1>7, <1>13, <1>14

\* Every cycle keeps the strobes apart.
LEMMA StrobeStep == ASSUME StrobeInv, [RegsNext]_regsvars PROVE StrobeInv'
<1>1. CASE UNCHANGED regsvars
  BY <1>1 DEF StrobeInv, RegsTypeOK, PopOnce, regsvars, regs, bus,
              read_en, arvalid, arready
<1>2. ASSUME NEW p \in Inputs, Clock(p) PROVE StrobeInv'
  <2>1. /\ RegsTypeOK /\ PopOnce /\ rvalid_q \in BOOLEAN /\ bvalid_q \in BOOLEAN
        /\ rd_data_q \in Values /\ wr_data_q \in Octets /\ wdata \in Octets
        /\ ar \in Regs \cup {NoReg} /\ aw \in Regs \cup {NoReg}
    BY DEF StrobeInv, RegsTypeOK
  <2>2. /\ MacAllows(p) /\ Rvalid /\ RdData(p) /\ Bvalid(p) /\ TxWrite
        /\ RxRead /\ RxFifo(p) /\ TxFifo(p) /\ Offers
    BY <1>2 DEF Clock
  <2>3. rvalid_q' \in BOOLEAN /\ bvalid_q' \in BOOLEAN
    BY <2>2, Zenon DEF Rvalid, Bvalid
  <2>4. tx_wr_en' \in BOOLEAN
    BY <2>2, Zenon DEF TxWrite
  <2>5. rx_rd_en' \in BOOLEAN
    BY <2>2, Zenon DEF RxRead
  <2>6. rd_data_q' \in Values
    BY <2>1, <2>2, DataTyped DEF RdData
  <2>7. wr_data_q' \in Octets
    BY <2>1, <2>2 DEF TxWrite
  <2>8. ar' \in Regs \cup {NoReg}
    BY <2>1, <2>2 DEF Offers
  <2>9. aw' \in Regs \cup {NoReg} /\ wdata' \in Octets
    <3>1. CASE awvalid /\ ~awready
      BY <2>1, <2>2, <3>1 DEF Offers
    <3>2. CASE ~(awvalid /\ ~awready)
      BY <2>1, <2>2, <3>2 DEF Offers
    <3> QED BY <3>1, <3>2
  <2>10. /\ rx_fifo' \in Seq(Octets) /\ Len(rx_fifo') <= RxSize
         /\ tx_fifo' \in Seq(Octets) /\ Len(tx_fifo') <= TxSize
    BY <2>1, <2>2, FifoStep
  <2>11. RegsTypeOK'
    BY <2>3, <2>4, <2>5, <2>6, <2>7, <2>8, <2>9, <2>10 DEF RegsTypeOK
  <2>12. PopOnce'
    <3>1. rx_rd_en' => rvalid_q'
      BY <2>2, Zenon DEF RxRead, Rvalid
    <3> QED BY <3>1, Zenon DEF PopOnce, read_en, arready
  <2> QED BY <2>11, <2>12 DEF StrobeInv
<1> QED BY <1>1, <1>2 DEF RegsNext

\* At reset no strobe is set.
LEMMA StrobeInit == RegsInit => StrobeInv
<1> SUFFICES ASSUME RegsInit PROVE StrobeInv
  OBVIOUS
<1>1. <<>> \in Seq(Octets) /\ Len(<<>>) = 0 /\ Zero \in Values
  BY EmptySeq DEF Values, Zero
<1>2. 0 <= RxSize /\ 0 <= TxSize
  BY DepthAssumption
<1>3. RegsTypeOK
  BY <1>1, <1>2, Zenon DEF RegsInit, RegsTypeOK
<1> QED BY <1>3 DEF RegsInit, StrobeInv, PopOnce

\* A strobe that removes a received byte lasts one cycle, in which nothing else
\* is read, and the registers and FIFOs keep their types and bounds
\* (eth_axi4lite.v 107-309).
THEOREM StrobesApart == RegsSpec => []StrobeInv
BY StrobeInit, StrobeStep, PTL DEF RegsSpec

-----------------------------------------------------------------------------
(* The device the firmware sees.                                           *)

\* One item or none, as the device has it.
LEMMA MaybeOf ==
    ASSUME NEW S, NEW x \in S, NEW b \in BOOLEAN
    PROVE  /\ (IF b THEN <<x>> ELSE <<>>) \in Device!Maybe(S)
           /\ (IF b THEN <<x>> ELSE <<>>) # <<>> => b
<1>1. CASE b
  BY <1>1 DEF Device!Maybe
<1>2. CASE ~b
  BY <1>2 DEF Device!Maybe
<1> QED BY <1>1, <1>2

\* What is read is a cycle of the device's read side.
LEMMA ReadStep ==
    ASSUME StrobeInv, NEW p \in Inputs, Clock(p)
    PROVE  \/ Device!NoRead(p.arriving) \/ Device!ReadRx(p.arriving)
           \/ Device!ReadStatus(p.arriving) \/ Device!ReadOther(p.arriving)
<1>1. /\ RegsTypeOK /\ PopOnce /\ rvalid_q \in BOOLEAN /\ rx_rd_en \in BOOLEAN
      /\ rx_fifo \in Seq(Octets) /\ tx_fifo \in Seq(Octets) /\ ar \in Regs \cup {NoReg}
      /\ Len(tx_fifo) <= TxSize /\ Len(tx_fifo) \in Nat /\ TxSize \in Nat
      /\ wr_data_q \in Octets /\ tx_wr_en \in BOOLEAN
  BY DepthAssumption, LenProperties DEF StrobeInv, RegsTypeOK
<1>2. /\ MacAllows(p) /\ Rvalid /\ RdData(p) /\ RxRead
      /\ RxFifo(p) /\ TxFifo(p)
  BY DEF Clock
<1>3. rx_fifo' = Unread \o p.arriving
  BY <1>1, <1>2, FifoStep
<1>4. Unread' = IF rx_rd_en' /\ rx_fifo' # <<>> THEN Tail(rx_fifo') ELSE rx_fifo'
  BY DEF Unread, rx_empty
<1>5. Answer' = IF rvalid_q' THEN <<rd_data_q'>> ELSE <<>>
  BY DEF Answer
<1>6. CASE ~read_en
  <2>1. ~rx_rd_en' /\ rvalid_q' = (rvalid_q /\ ~rready)
    BY <1>2, <1>6, Zenon DEF RxRead, Rvalid
  <2>2. Unread' = Unread \o p.arriving
    BY <1>3, <1>4, <2>1
  <2>3. Answer' \in {Answer, <<>>}
    <3>1. CASE rvalid_q /\ ~rready
      <4>1. rd_data_q' = rd_data_q
        BY <1>1, <1>2, <3>1, Zenon DEF RdData
      <4>2. rvalid_q' /\ Answer' = <<rd_data_q>> /\ Answer = <<rd_data_q>>
        BY <1>5, <2>1, <3>1, <4>1, Zenon DEF Answer
      <4> QED BY <4>2
    <3>2. CASE ~(rvalid_q /\ ~rready)
      <4>1. Answer' = <<>>
        BY <1>5, <2>1, <3>2, Zenon
      <4> QED BY <4>1
    <3> QED BY <3>1, <3>2
  <2> QED BY <2>2, <2>3 DEF Device!NoRead
<1>7. CASE read_en
  <2>1. /\ ~rvalid_q /\ ~rx_rd_en /\ arvalid /\ rvalid_q' = TRUE
        /\ rd_data_q' = data_r(p) /\ rx_rd_en' = (rx_rd_en \/ ar = "ETH_RX")
    BY <1>1, <1>2, <1>7, Zenon
       DEF PopOnce, read_en, arready, Rvalid, RdData, RxRead
  <2>2. Answer = <<>> /\ Answer' = <<data_r(p)>> /\ Unread = rx_fifo
    BY <1>5, <2>1, Zenon DEF Answer, Unread
  <2>3. CASE ar = "ETH_RX"
    <3> DEFINE b == rx_data(p)
    <3>1. b \in Octets
      BY <1>1, DataTyped
    <3>2. Unread # <<>> => b = Head(Unread)
      BY <2>2, Zenon DEF rx_data, rx_empty
    <3>3. Answer' = <<[reg |-> "ETH_RX", byte |-> b]>>
      BY <2>2, <2>3, Zenon DEF data_r
    <3>4. Unread' = IF Unread \o p.arriving = <<>> THEN <<>>
                        ELSE Tail(Unread \o p.arriving)
      <4>1. rx_rd_en'
        BY <2>1, <2>3
      <4>2. CASE rx_fifo' = <<>>
        BY <1>3, <1>4, <4>2, Zenon
      <4>3. CASE rx_fifo' # <<>>
        BY <1>3, <1>4, <4>1, <4>3, Zenon
      <4> QED BY <4>2, <4>3
    <3> HIDE DEF b
    <3> QED BY <2>2, <3>1, <3>2, <3>3, <3>4, Zenon DEF Device!ReadRx
  <2>4. CASE ar # "ETH_RX"
    <3>1. Unread' = Unread \o p.arriving
      BY <1>3, <1>4, <2>1, <2>4, Zenon
    <3>2. CASE ar = "ETH_STATUS"
      <4>1. data_r(p)
              = [reg |-> "ETH_STATUS", empty |-> Unread = <<>>, full |-> tx_full]
        BY <2>2, <3>2, Zenon DEF data_r, rx_empty
      <4>2. tx_full \in BOOLEAN
        BY Zenon DEF tx_full
      <4>3. /\ tx_full => Len(Unsent) >= TxSize
            /\ ~tx_full => Len(Unsent) <= TxSize
        <5>1. CASE tx_wr_en
          <6>1. Len(Unsent) = Len(tx_fifo) + 1
            BY <1>1, <5>1, AppendProperties DEF Unsent
          <6> QED BY <1>1, <6>1 DEF tx_full
        <5>2. CASE ~tx_wr_en
          BY <1>1, <5>2 DEF Unsent, tx_full
        <5> QED BY <5>1, <5>2
      <4>4. Answer'
              = <<[reg |-> "ETH_STATUS", empty |-> Unread = <<>>, full |-> tx_full]>>
        BY <2>2, <4>1, Zenon
      <4> QED BY <2>2, <3>1, <4>2, <4>3, <4>4, Zenon DEF Device!ReadStatus
    <3>3. CASE ar # "ETH_STATUS"
      <4>1. Answer' = <<[reg |-> "none"]>>
        BY <2>2, <2>4, <3>3, Zenon DEF data_r, Zero, NoReg
      <4> QED BY <2>2, <3>1, <4>1 DEF Device!ReadOther
    <3> QED BY <3>2, <3>3
  <2> QED BY <2>3, <2>4
<1> QED BY <1>6, <1>7

\* What the device's write side keeps is what the MAC's FIFO has room for.
LEMMA KeptOf ==
    ASSUME RegsTypeOK
    PROVE  LET push == tx_wr_en /\ ~tx_full
               kept == IF Len(Unsent) > TxSize THEN SubSeq(Unsent, 1, TxSize)
                       ELSE Unsent
           IN  kept = tx_fifo \o (IF push THEN <<wr_data_q>> ELSE <<>>)
<1> DEFINE n == Len(tx_fifo)
<1>1. /\ tx_fifo \in Seq(Octets) /\ wr_data_q \in Octets /\ tx_wr_en \in BOOLEAN
      /\ n <= TxSize /\ n \in Nat /\ TxSize \in Nat /\ TxSize > 0
  BY DepthAssumption, LenProperties DEF RegsTypeOK
<1>2. CASE ~tx_wr_en
  <2>1. Unsent = tx_fifo /\ ~(Len(Unsent) > TxSize)
    BY <1>1, <1>2 DEF Unsent
  <2>2. tx_fifo \o <<>> = tx_fifo
    BY <1>1, ConcatEmptySeq
  <2> QED BY <1>2, <2>1, <2>2, Zenon
<1>3. CASE tx_wr_en
  <2>1. Unsent = Append(tx_fifo, wr_data_q)
    BY <1>3 DEF Unsent
  <2>2. /\ Unsent \in Seq(Octets) /\ Len(Unsent) = n + 1
        /\ \A k \in 1 .. n : Unsent[k] = tx_fifo[k]
    BY <1>1, <2>1, AppendProperties
  <2>3. CASE tx_full
    <3>1. Len(Unsent) > TxSize /\ TxSize = n
      BY <1>1, <2>2, <2>3 DEF tx_full
    <3> DEFINE t == SubSeq(Unsent, 1, n)
    <3>2. \A k \in 1 .. n : Unsent[k] \in Octets
      BY <1>1, <2>2, ElementOfSeq
    <3>3. t \in Seq(Octets) /\ Len(t) = n /\ \A k \in 1 .. n : t[k] = Unsent[k]
      BY <1>1, <3>1, <3>2, SubSeqProperties
    <3> HIDE DEF t
    <3>4. t = tx_fifo
      BY <1>1, <2>2, <3>3, SeqEqual
    <3>5. tx_fifo \o <<>> = tx_fifo
      BY <1>1, ConcatEmptySeq
    <3> QED BY <2>3, <3>1, <3>4, <3>5, Zenon DEF t
  <2>4. CASE ~tx_full
    <3>1. ~(Len(Unsent) > TxSize)
      BY <1>1, <2>2, <2>4 DEF tx_full
    <3>2. Unsent = tx_fifo \o <<wr_data_q>>
      BY <1>1, <2>1, AppendIsConcat
    <3> QED BY <1>3, <2>4, <3>1, <3>2, Zenon
  <2> QED BY <2>3, <2>4
<1> QED BY <1>2, <1>3

\* What is written is a cycle of the device's write side.
LEMMA WriteStep ==
    ASSUME StrobeInv, NEW p \in Inputs, Clock(p)
    PROVE  \E written \in Device!Maybe(Octets), sending \in BOOLEAN :
               Device!WriteSide(written, sending)
<1> DEFINE push == tx_wr_en /\ ~tx_full
           come == IF push THEN <<wr_data_q>> ELSE <<>>
           kept == IF Len(Unsent) > TxSize THEN SubSeq(Unsent, 1, TxSize)
                   ELSE Unsent
           written == IF tx_wr_en' THEN <<wr_data_q'>> ELSE <<>>
           sending == p.sending
<1>1. /\ RegsTypeOK /\ tx_fifo \in Seq(Octets) /\ wr_data_q \in Octets /\ wdata \in Octets
      /\ bvalid_q \in BOOLEAN /\ sending \in BOOLEAN
  BY DEF StrobeInv, RegsTypeOK, Inputs
<1>2. MacAllows(p) /\ Bvalid(p) /\ TxWrite /\ RxFifo(p) /\ TxFifo(p)
  BY DEF Clock
<1>3. /\ tx_wr_en' \in BOOLEAN /\ wr_data_q' \in Octets /\ tx_fifo' \in Seq(Octets)
      /\ bvalid_q' \in BOOLEAN
  <2>1. StrobeInv'
    BY StrobeStep DEF RegsNext
  <2> QED BY <2>1 DEF StrobeInv, RegsTypeOK
<1>4. written \in Device!Maybe(Octets) /\ (written # <<>> => tx_wr_en')
  BY <1>3, MaybeOf
<1>5. tx_wr_en' => ~bvalid_q /\ bvalid_q'
  BY <1>2, Zenon DEF TxWrite, Bvalid, write_en, awready
<1>6. kept = tx_fifo \o come
  BY <1>1, KeptOf
<1>7. push \in BOOLEAN
  BY Zenon
<1>8. come \in Seq(Octets)
  BY <1>1, <1>7, TxOne
<1> HIDE DEF come, push
<1>9. sending => tx_fifo # <<>>
  BY <1>2 DEF MacAllows
<1>10. /\ Left(kept, sending) = Left(tx_fifo, sending) \o come
       /\ sending => kept # <<>>
  <2> DEFINE st == tx_fifo \o come
  <2>1. /\ Left(st, sending) = Left(tx_fifo, sending) \o come
        /\ sending => st # <<>>
    BY <1>1, <1>8, <1>9, LeftOfConcat
  <2> QED BY <1>6, <2>1, Zenon
<1>11. tx_fifo' = Left(kept, sending)
  BY <1>2, <1>10 DEF TxFifo, Left, come, push
<1>12. Unsent' = tx_fifo' \o written
  <2>1. CASE tx_wr_en'
    BY <1>3, <2>1, AppendIsConcat DEF Unsent
  <2>2. CASE ~tx_wr_en'
    BY <1>3, <2>2, ConcatEmptySeq DEF Unsent
  <2> QED BY <2>1, <2>2
<1> HIDE DEF written, sending
<1>13. Unsent' = (IF sending THEN Tail(kept) ELSE kept) \o written
  BY <1>11, <1>12, Zenon DEF Left
<1>14. Device!WriteSide(written, sending)
  BY <1>3, <1>4, <1>5, <1>10, <1>13, Zenon DEF Device!WriteSide, kept
<1> QED BY <1>1, <1>4, <1>14

\* Reads and writes by the firmware act on two byte streams, each byte once and
\* in order, and an answer stands until it is taken (eth_axi4lite.v 107-309).
THEOREM RegistersAreDevice == RegsSpec => ImplementsEthDevice
<1>1. ASSUME StrobeInv, [RegsNext]_regsvars
      PROVE  [Device!Next]_<<Unread, Unsent, Answer, bvalid_q>>
  <2>1. CASE UNCHANGED regsvars
    <3>1. Unread' = Unread
      BY <2>1 DEF regsvars, regs, bus, Unread, rx_empty
    <3>2. Unsent' = Unsent
      BY <2>1 DEF regsvars, regs, bus, Unsent
    <3>3. Answer' = Answer /\ bvalid_q' = bvalid_q
      BY <2>1 DEF regsvars, regs, bus, Answer
    <3> QED BY <3>1, <3>2, <3>3
  <2>2. ASSUME NEW p \in Inputs, Clock(p)
        PROVE  Device!Next
    <3>1. p.arriving \in Device!Maybe(Octets)
      BY DEF Inputs, Device!Maybe
    <3> QED BY <1>1, <2>2, <3>1, ReadStep, WriteStep, Zenon DEF Device!Next
  <2> QED BY <1>1, <2>1, <2>2 DEF RegsNext
<1>2. RegsInit => Device!Init
  BY DEF RegsInit, Device!Init, Unread, Unsent, Answer
<1> QED BY <1>1, <1>2, StrobeInit, StrobeStep, PTL
    DEF RegsSpec, ImplementsEthDevice, Device!Spec
=============================================================================
