------------------------------ MODULE NetInput ------------------------------
(***************************************************************************)
(* How the firmware of lwip_test receives Ethernet frames: ClearRxFifo and *)
(* pano_netif_poll of fw/lwip_test/main.c, as the main loop calls them.    *)
(*                                                                         *)
(* The receive stream is what EthDevice promises, a stream of bytes; the   *)
(* MAC puts a whole frame into it at a time, its length in two bytes       *)
(* first.  Nothing marks where a frame begins: the firmware has to keep    *)
(* step by itself, also when the CPU is reset (by the debug bridge, to     *)
(* load a program) in the middle of a frame, which resets nothing of the   *)
(* Ethernet core.                                                          *)
(*                                                                         *)
(* A step is one access to a register and the computation up to the next.  *)
(* The two reads of "(ETH_RX() << 8) + ETH_RX()" are made left to right,   *)
(* the order the build gives them; C leaves it open.  Numbers are small:   *)
(* a byte is a digit below Base.  lwIP is external: it allocates from a    *)
(* pool of PoolSize buffers of BufSize bytes, takes a frame or refuses it, *)
(* and frees a frame when it likes.  What a frame longer than a buffer     *)
(* overwrites behind it (main.c 331-344) is not modelled.                  *)
(***************************************************************************)
EXTENDS Naturals, Sequences, FiniteSets, SequencesExt

CONSTANTS Base,         \* values of a byte (256)
          MaxFrame,     \* MAX_ETH_FRAME_LEN (1518)
          BufSize,      \* PBUF_POOL_BUFSIZE (592)
          PoolSize,     \* PBUF_POOL_SIZE (16)
          ClearReads,   \* reads ClearRxFifo makes at most (2048)
          Frames,       \* what may arrive
          RxDepth,      \* bytes the receive FIFO holds
          EmptyRead,    \* what a read of ETH_RX may return when nothing is there
          MaxResets     \* bound of the model

Bytes == 0 .. Base - 1

ASSUME SizesAssumption == /\ {Base, MaxFrame, BufSize, PoolSize, ClearReads, RxDepth} \subseteq Nat \ {0}
                          /\ MaxResets \in Nat
                          /\ EmptyRead \subseteq Bytes /\ EmptyRead # {}
ASSUME FramesAssumption == \A f \in Frames : f \in Seq(Bytes) /\ Len(f) \in 1 .. MaxFrame

VARIABLES rx,       \* the receive FIFO
          pc,       \* the access the firmware makes next
          caller,   \* where ClearRxFifo returns to
          i,        \* loop counter
          count,    \* Count: its high byte first
          data,     \* bytes written from p->payload on
          free,     \* pool buffers free
          held,     \* pool buffers lwIP holds
          due,      \* history: frames in the FIFO, the one being read included
          lost,     \* history: ClearRxFifo gave up, and no poll found the FIFO empty since;
                    \* frames are not told apart then (due is empty)
          resets

history == <<due, lost>>
vars == <<rx, pc, caller, i, count, data, free, held, history, resets>>

\* pbufs a frame of n bytes takes.
Need(n) == IF n = 0 THEN 1 ELSE (n + BufSize - 1) \div BufSize

\* What the MAC writes for a frame, and for several.
Encode(f) == <<Len(f) \div Base, Len(f) % Base>> \o f
Encoded(fs) == FlattenSeq([k \in 1 .. Len(fs) |-> Encode(fs[k])])

Init == /\ rx = <<>> /\ due = <<>> /\ lost = FALSE
        /\ pc = "boot" /\ caller = "main"
        /\ i = 0 /\ count = 0 /\ data = <<>>
        /\ free = PoolSize /\ held = 0
        /\ resets = 0

-----------------------------------------------------------------------------
(* The wire, and the debug bridge.                                         *)

\* A frame for which there is no room is not received at all.
Arrive == \E f \in Frames :
    /\ Len(rx \o Encode(f)) <= RxDepth
    /\ rx' = rx \o Encode(f)
    /\ due' = IF lost THEN <<>> ELSE Append(due, f)
    /\ UNCHANGED <<pc, caller, i, count, data, free, held, lost, resets>>

\* The program starts afresh; the FIFO is not told.
CpuReset ==
    /\ resets < MaxResets /\ resets' = resets + 1
    /\ pc' = "boot" /\ caller' = "main"
    /\ i' = 0 /\ count' = 0 /\ data' = <<>>
    /\ free' = PoolSize /\ held' = 0
    /\ UNCHANGED <<rx, history>>

-----------------------------------------------------------------------------
(* The firmware.                                                           *)

\* A read of ETH_RX that returns b.
ReadRx(b) == \/ rx # <<>> /\ b = Head(rx) /\ rx' = Tail(rx)
             \/ rx = <<>> /\ b \in EmptyRead /\ rx' = rx

\* A defect: the bytes of the interrupted frame are left for the next poll.
MutBootNoClear == /\ pc = "boot"
                  /\ pc' = "poll" /\ caller' = "main" /\ i' = 0
                  /\ UNCHANGED <<rx, count, data, free, held, history, resets>>
\* lwip_init, init_default_netif, TcpInit; then main calls ClearRxFifo.
Boot == /\ pc = "boot"
        /\ pc' = "clear" /\ caller' = "main" /\ i' = 0
        /\ UNCHANGED <<rx, count, data, free, held, history, resets>>

\* One turn of ClearRxFifo's loop: the status says there is a byte, it is read.
\* Only the firmware takes bytes out, so nothing comes between the two.
ClearByte == /\ pc = "clear" /\ i < ClearReads /\ rx # <<>>
             /\ rx' = Tail(rx) /\ i' = i + 1
             /\ UNCHANGED <<pc, caller, count, data, free, held, history, resets>>

\* Empty, or ClearReads reads made; also the test on entry.
ClearDone == /\ pc = "clear" /\ (i = ClearReads \/ rx = <<>>)
             /\ pc' = IF caller = "main" THEN "poll" ELSE "alloc"
             /\ lost' = (rx # <<>> \/ (caller = "poll" /\ lost)) /\ due' = <<>>
             /\ UNCHANGED <<rx, caller, i, count, data, free, held, resets>>

PollNothing == /\ pc = "poll" /\ rx = <<>>
               /\ pc' = "timeouts" /\ due' = <<>> /\ lost' = FALSE
               /\ UNCHANGED <<rx, caller, i, count, data, free, held, resets>>

\* The first byte of Count; the status test before it said there is one.
PollHigh == /\ pc = "poll" /\ rx # <<>>
            /\ \E b \in Bytes : ReadRx(b) /\ count' = b
            /\ pc' = "low"
            /\ UNCHANGED <<caller, i, data, free, held, history, resets>>

BadCount(n) == n = 0 \/ n > MaxFrame

\* An invalid length clears the FIFO and then goes on with it all the same.
PollLow == \E b \in Bytes :
    LET n == count * Base + b
    IN  /\ pc = "low" /\ ReadRx(b) /\ count' = n
        /\ IF BadCount(n) THEN pc' = "clear" /\ caller' = "poll" /\ i' = 0
                          ELSE pc' = "alloc" /\ UNCHANGED <<caller, i>>
        /\ UNCHANGED <<data, free, held, history, resets>>

MutAllocWaits == /\ pc = "alloc" /\ i' = 0 /\ data' = <<>>
                 /\ IF Need(count) <= free THEN free' = free - Need(count) /\ pc' = "fill"
                                           ELSE UNCHANGED <<free, pc>>
                 /\ UNCHANGED <<rx, caller, count, held, history, resets>>
\* pbuf_alloc(PBUF_RAW, len, PBUF_POOL)
Alloc == /\ pc = "alloc" /\ i' = 0 /\ data' = <<>>
         /\ \/ /\ Need(count) <= free
               /\ free' = free - Need(count) /\ pc' = "fill"
            \/ /\ Need(count) > free
               /\ pc' = "drop" /\ UNCHANGED free
         /\ UNCHANGED <<rx, caller, count, held, history, resets>>

\* Bytes go one after the other from the first pbuf's payload on; the first
\* one is read even if Count is 0.
Fill == /\ pc = "fill"
        /\ \E b \in Bytes : ReadRx(b) /\ data' = Append(data, b)
        /\ pc' = IF Len(data') < count THEN "fill" ELSE "input"
        /\ UNCHANGED <<caller, i, count, free, held, history, resets>>

\* The oldest frame is done with.
Taken == due' = (IF due = <<>> THEN <<>> ELSE Tail(due)) /\ UNCHANGED lost

\* No pbuf: Count bytes are read and dropped.
Drop == /\ pc = "drop"
        /\ \/ /\ i < count /\ i' = i + 1
              /\ \E b \in Bytes : ReadRx(b)
              /\ UNCHANGED <<pc, history>>
           \/ /\ i = count
              /\ pc' = "timeouts" /\ Taken
              /\ UNCHANGED <<rx, i>>
        /\ UNCHANGED <<caller, count, data, free, held, resets>>

MutInputLeaks == /\ pc = "input" /\ pc' = "timeouts" /\ Taken /\ data' = <<>>
                 /\ \/ held' = held + Need(count) /\ UNCHANGED free
                    \/ UNCHANGED <<held, free>>
                 /\ UNCHANGED <<rx, caller, i, count, resets>>
\* gNetif.input: lwIP takes the frame over, or refuses it and it is freed.
Input == /\ pc = "input" /\ pc' = "timeouts" /\ Taken /\ data' = <<>>
         /\ \/ held' = held + Need(count) /\ UNCHANGED free
            \/ free' = free + Need(count) /\ UNCHANGED held
         /\ UNCHANGED <<rx, caller, i, count, resets>>

\* sys_check_timeouts, and the rest of the main loop: lwIP may free frames.
Timeouts == /\ pc = "timeouts" /\ pc' = "poll"
            /\ \E n \in 0 .. held : held' = held - n /\ free' = free + n
            /\ UNCHANGED <<rx, caller, i, count, data, history, resets>>

Firmware == \/ Boot \/ ClearByte \/ ClearDone \/ PollNothing \/ PollHigh \/ PollLow
            \/ Alloc \/ Fill \/ Drop \/ Input \/ Timeouts

Next == Arrive \/ CpuReset \/ Firmware

Spec == Init /\ [][Next]_vars

-----------------------------------------------------------------------------
(* Properties.                                                             *)

TypeOK == /\ rx \in Seq(Bytes) /\ Len(rx) <= RxDepth
          /\ pc \in {"boot", "clear", "poll", "low", "alloc", "fill", "drop", "input", "timeouts"}
          /\ caller \in {"main", "poll"}
          /\ i \in 0 .. ClearReads \cup 0 .. Base * Base /\ count \in 0 .. Base * Base - 1
          /\ data \in Seq(Bytes) /\ free \in 0 .. PoolSize /\ held \in 0 .. PoolSize
          /\ due \in Seq(Frames) /\ lost \in BOOLEAN

\* Whenever the firmware looks for a frame, what it finds in the FIFO are whole
\* frames, those that arrived and were not taken yet: it never starts to read in
\* the middle of one, though the CPU may be reset between any two reads and
\* frames arrive while ClearRxFifo empties the FIFO.  If ClearRxFifo gives up after
\* ClearReads reads, this holds again from the first poll on that finds the FIFO
\* empty (main.c 91, 178-193, 319-361).
InStep == pc = "poll" /\ ~lost => rx = Encoded(due)

\* lwIP is given the frame that came first of those not yet taken, whole; byte for
\* byte, if it fits the first pbuf of the chain, on from which all bytes are written
\* (main.c 329-349).
GivenWhole == pc = "input" /\ ~lost =>
    /\ due # <<>> /\ count = Len(Head(due))
    /\ count <= BufSize => data = Head(due)

\* Both: no frame is lost, split or joined on its way to lwIP while it keeps in step.
FramesWhole == InStep /\ GivenWhole

\* Every buffer of the pool is free, lwIP's, or that of the frame being read: no
\* path through pano_netif_poll loses one (main.c 329, 349-352).
PoolKept == free + held + (IF pc \in {"fill", "input"} THEN Need(count) ELSE 0) = PoolSize
=============================================================================
