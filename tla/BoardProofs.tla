---------------------------- MODULE BoardProofs -----------------------------
(***************************************************************************)
(* The reset control (CpuReset), for every memory, reset count and gap     *)
(* between commands; what holds of the programs (Board) whatever the host  *)
(* does with the processor: for every set of programs, frames, peers and   *)
(* telnet texts, and for any program in the bit file; and the simulation   *)
(* (TestBench), for every set of images, command lines and RTL outputs.    *)
(***************************************************************************)
EXTENDS Board, TestBench, QueueLemmas

-----------------------------------------------------------------------------
(* The reset.                                                              *)

\* The state between two commands is where the invariant works: one clock edge
\* after a command the registers have caught up with it, and the host is never
\* faster than that.
Registers == /\ rst_q \in BOOLEAN /\ bridge_rst_enable \in BOOLEAN /\ rst_cpu_r \in BOOLEAN
             /\ enable_w \in BOOLEAN /\ restarts \in BOOLEAN

Paced == idle \in 0 .. Gap

PowerUp == /\ rst_q => ~bridge_rst_enable /\ ~enable_w /\ ~restarts /\ loading = {} /\ idle = 0
           /\ restarts => bridge_rst_enable
           /\ loading # {} => ~enable_w

CaughtUp == /\ ~rst_q /\ idle > 0 /\ ~bridge_rst_enable => ~rst_cpu_r
            /\ idle > 0 /\ bridge_rst_enable /\ ~enable_w => rst_cpu_r
            /\ restarts /\ enable_w => rst_cpu_r \/ boot = ram
            /\ restarts /\ enable_w /\ idle > 0 => ~rst_cpu_r

IInv == Registers /\ Paced /\ PowerUp /\ CaughtUp

\* It holds at power-on.
LEMMA InitIInv == Init => IInv
<1> SUFFICES ASSUME Init PROVE IInv OBVIOUS
<1> USE GapAssumption DEF Init
<1>1. Registers BY Zenon DEF Registers
<1>2. Paced BY DEF Paced
<1>3. PowerUp BY DEF PowerUp
<1>4. CaughtUp
  <2>1. ~(idle > 0) OBVIOUS
  <2> QED BY <2>1 DEF CaughtUp
<1> QED BY <1>1, <1>2, <1>3, <1>4 DEF IInv

\* A clock edge keeps it.
LEMMA ClockIInv == ASSUME IInv, Clock PROVE IInv'
<1> USE GapAssumption DEF IInv, Clock, ResetGen, ArmBridge, CpuHeld, host
<1>1. Registers'
  <2>1. rst_q' \in BOOLEAN BY Zenon DEF Registers
  <2>2. bridge_rst_enable' \in BOOLEAN /\ rst_cpu_r' \in BOOLEAN BY Zenon DEF Registers
  <2>3. enable_w' \in BOOLEAN /\ restarts' \in BOOLEAN BY Zenon DEF Registers
  <2> QED BY <2>1, <2>2, <2>3, Zenon DEF Registers
<1>2. Paced' BY DEF Paced
<1>3. PowerUp' BY DEF Registers, PowerUp
<1>4. CaughtUp' BY DEF Registers, PowerUp, CaughtUp
<1> QED BY <1>1, <1>2, <1>3, <1>4 DEF IInv

(* A command leaves the chip alone and comes when the registers have caught *)
(* up with the one before.                                                  *)
LEMMA HostIInv == ASSUME IInv, Host PROVE IInv'
<1>1. Command
  BY Zenon DEF Host, Stop, Start, StartLoad, WriteWord
<1>2. idle > 0 /\ ~(idle' > 0) /\ Paced'
  BY <1>1, GapAssumption DEF Command, Paced
<1>3. CASE Stop
  <2>1. Registers' BY <1>3, Zenon DEF IInv, Stop, Command, chip, Registers
  <2>2. PowerUp' /\ CaughtUp'
    BY <1>2, <1>3 DEF IInv, Stop, Command, chip, Registers, PowerUp, CaughtUp
  <2> QED BY <1>2, <2>1, <2>2 DEF IInv
<1>4. CASE Start
  <2>1. Registers' BY <1>4, Zenon DEF IInv, Start, Command, chip, Registers
  <2>2. PowerUp' /\ CaughtUp'
    BY <1>2, <1>4 DEF IInv, Start, Command, chip, Registers, PowerUp, CaughtUp
  <2> QED BY <1>2, <2>1, <2>2 DEF IInv
<1>5. ASSUME NEW v \in Versions, StartLoad(v) PROVE IInv'
  <2>1. Registers' BY <1>5, Zenon DEF IInv, StartLoad, Command, chip, Registers
  <2>2. PowerUp' /\ CaughtUp'
    BY <1>2, <1>5 DEF IInv, StartLoad, Command, chip, Registers, PowerUp, CaughtUp
  <2> QED BY <1>2, <2>1, <2>2 DEF IInv
<1>6. ASSUME NEW w \in Words, WriteWord(w) PROVE IInv'
  <2>1. Registers' BY <1>6, Zenon DEF IInv, WriteWord, Command, chip, Registers
  <2>2. PowerUp' /\ CaughtUp'
    BY <1>2, <1>6 DEF IInv, WriteWord, Command, chip, Registers, PowerUp, CaughtUp
  <2> QED BY <1>2, <2>1, <2>2 DEF IInv
<1> QED BY <1>3, <1>4, <1>5, <1>6 DEF Host

\* So does every step.
LEMMA StepIInv == IInv /\ [Next]_vars => IInv'
<1> SUFFICES ASSUME IInv, [Next]_vars PROVE IInv' OBVIOUS
<1>1. CASE Clock BY <1>1, ClockIInv
<1>2. CASE Host BY <1>2, HostIInv
<1>3. CASE UNCHANGED vars
  BY <1>3 DEF IInv, Registers, Paced, PowerUp, CaughtUp, vars, chip, host
<1> QED BY <1>1, <1>2, <1>3 DEF Next

(* The registers have caught up with the host's last command one clock edge *)
(* after it, in every reachable state.                                      *)
THEOREM ResetInvariant == Spec => []IInv
<1>1. Init => IInv BY InitIInv
<1>2. IInv /\ [Next]_vars => IInv' BY StepIInv
<1> QED BY <1>1, <1>2, PTL DEF Spec

(* From the second start on, every start runs the CPU afresh over the      *)
(* memory the host left.                                                   *)
THEOREM LaterStarts == Spec => []LaterStartsRun
<1>1. IInv => LaterStartsRun
  BY GapAssumption DEF IInv, Registers, CaughtUp, LaterStartsRun, Settled
<1> QED BY <1>1, ResetInvariant, PTL

(* The processor comes up running by itself.                               *)
THEOREM UpByItself == Spec => []ComesUpRunning
<1>1. IInv => ComesUpRunning
  BY GapAssumption DEF IInv, Registers, CaughtUp, ComesUpRunning, Settled
<1> QED BY <1>1, ResetInvariant, PTL

(* Memory is never overwritten under a running CPU once the host has       *)
(* stopped an armed bridge.                                                *)
THEOREM NoWriteUnder == Spec => NoWriteUnderCpu
<1>1. IInv /\ [Next]_vars => [ram' # ram /\ restarts => rst_cpu_r]_vars
  <2> SUFFICES ASSUME IInv, [Next]_vars, ram' # ram, restarts PROVE rst_cpu_r
    OBVIOUS
  <2>1. PICK w \in Words : WriteWord(w)
    BY DEF Next, Host, Clock, Stop, Start, StartLoad, vars, host
  <2>2. idle > 0
    BY <2>1, GapAssumption DEF WriteWord, Command
  <2>3. loading # {}
    BY <2>1 DEF WriteWord
  <2> QED BY <2>2, <2>3 DEF IInv, Registers, PowerUp, CaughtUp
<1> QED BY <1>1, ResetInvariant, PTL DEF Spec, NoWriteUnderCpu

\* Whatever the programs, the button, the link and the peers do, the reset circuit and the
\* host behave as in CpuReset: what is proved there of stops, loads and starts holds of
\* the board (fpga_top.v 400-421).
THEOREM ProgramsApart == BoardSpec => Spec
<1>1. BoardInit => Init
  BY DEF BoardInit
<1>2. [Board]_<<vars, fw>> => [Next]_vars
  BY DEF Board, Cycle, HostStep, Next, Host
<1> QED BY <1>1, <1>2, PTL DEF BoardSpec, Spec

-----------------------------------------------------------------------------
(* The button.                                                             *)

\* A press that has set something off has been looked at, and one older than the program
\* has not set off anything: the next look finds no change.
Spent == ButtonLast \in {0, Bl!NoLook}
PressInv == /\ acted \in {0, 1} /\ stale \in BOOLEAN
            /\ acted = 1 => button = 0 /\ Spent /\ ~stale
            /\ stale => button = 0 /\ Spent

\* A look, by whichever program.
LEMMA LookOnce ==
    ASSUME PressInv, Bl!Look PROVE PressInv'
BY DEF PressInv, Spent, Bl!Look, Bl!JustPressed, Bl!NoLook

\* A program starts without having looked.
LEMMA BeginOnce ==
    ASSUME PressInv, Bl!Begin PROVE PressInv'
BY DEF PressInv, Spent, Bl!Begin, Bl!NoLook

\* Nothing done yet.
LEMMA NothingYet ==
    ASSUME NEW a, NEW s, a = 0, s = FALSE
    PROVE  a \in {0, 1} /\ a # 1 /\ s \in BOOLEAN /\ ~s
<1>1. a \in {0, 1} /\ a # 1
  OBVIOUS
<1>2. s \in BOOLEAN /\ ~s
  BY Zenon
<1> QED BY <1>1, <1>2

\* A step that leaves the button alone.
LEMMA IdleOnce ==
    ASSUME PressInv, UNCHANGED buttonvars PROVE PressInv'
BY DEF PressInv, Spent, buttonvars, Bl!NoLook

\* The three programs look at the button in the same way.
LEMMA SameButton ==
    /\ Et!Look <=> Bl!Look
    /\ Et!Begin <=> Bl!Begin
BY DEF Et!Look, Bl!Look, Et!JustPressed, Bl!JustPressed, Et!NoLook, Bl!NoLook,
       Et!Begin, Bl!Begin

\* Every step of the board keeps it, whichever program runs.
LEMMA PressStep ==
    ASSUME PressInv, [Board]_<<vars, fw>> PROVE PressInv'
<1>1. CASE UNCHANGED <<vars, fw>>
  BY <1>1, IdleOnce DEF fw
<1>2. CASE Cycle
  <2>1. CASE rst_cpu_r'
    <3>1. acted' = 0 /\ stale' = FALSE
      BY <1>2, <2>1 DEF Cycle, Forget
    <3> QED BY <3>1, NothingYet DEF PressInv
  <2>2. CASE ~rst_cpu_r'
    BY <1>2, <2>2, IdleOnce DEF Cycle, buttonvars
  <2> QED BY <2>1, <2>2
<1>3. CASE HostStep
  <2>1. CASE Loaded
    BY <2>1 DEF Loaded, PressInv, Spent, Bl!NoLook
  <2>2. CASE UNCHANGED fw
    BY <2>2, IdleOnce DEF fw
  <2> QED BY <1>3, <2>1, <2>2 DEF HostStep
<1>4. CASE RunBlinky
  <2>1. CASE Bl!Boot
    BY <2>1, BeginOnce DEF Bl!Boot
  <2>2. CASE Bl!Lit \/ Bl!Dark
    BY <2>2, LookOnce DEF Bl!Lit, Bl!Dark, Bl!Turn
  <2> QED BY <1>4, <2>1, <2>2 DEF RunBlinky, Bl!Blink
<1>5. CASE RunEthTest
  <2>1. CASE Et!Boot
    BY <2>1, BeginOnce, SameButton DEF Et!Boot
  <2>2. CASE Et!LookAtButton
    BY <2>2, LookOnce, SameButton DEF Et!LookAtButton
  <2>3. CASE Et!ClearByte \/ Et!ClearDone \/ Et!Status \/ Et!NoFrame \/ Et!High \/ Et!Low
             \/ Et!Read \/ Et!Report \/ Et!Send \/ Et!Pause
    <3>1. UNCHANGED buttonvars
      BY <2>3 DEF Et!ClearByte, Et!ClearDone, Et!Status, Et!NoFrame, Et!High, Et!Low, Et!Read,
                  Et!Report, Et!Send, Et!Pause, Et!buttonvars, buttonvars
    <3> QED BY <3>1, IdleOnce
  <2> QED BY <1>5, <2>1, <2>2, <2>3 DEF RunEthTest, Et!Test
<1>6. CASE RunLoop \/ RunPoll
  BY <1>6, IdleOnce DEF RunLoop, RunPoll, lwiprest
<1>7. CASE PushButton
  <2>1. CASE Bl!Release
    BY <2>1, NothingYet DEF Bl!Release, PressInv
  <2>2. CASE Bl!Press
    <3>1. button # 0 /\ acted' = 0 /\ stale' = stale
      BY <2>2 DEF Bl!Press, Bl!Up
    <3>2. stale = FALSE
      BY <3>1 DEF PressInv
    <3> QED BY <3>1, <3>2, NothingYet DEF PressInv
  <2> QED BY <1>7, <2>1, <2>2 DEF PushButton
<1>8. CASE Plug
  BY <1>8, IdleOnce DEF Plug
<1>9. CASE Wire
  <2>1. UNCHANGED buttonvars
    BY <1>9 DEF Wire, Et!Wire, Et!Arrive, Et!MacSends, Et!buttonvars, buttonvars
  <2> QED BY <2>1, IdleOnce
<1> QED BY <1>1, <1>2, <1>3, <1>4, <1>5, <1>6, <1>7, <1>8, <1>9 DEF Board

\* A press sets off one thing at most in a run of a program, and none if it is older than the
\* program in the memory, wherever the processor is stopped and started in between
\* (blinky/main.c 73-89, eth_test/main.c 157-173).
THEOREM OncePerPress == BoardSpec => []PressActsOnce
<1>1. BoardInit => PressInv
  <2>1. BoardInit => acted = 0 /\ stale = FALSE
    BY DEF BoardInit, Bl!ButtonInit
  <2> QED BY <2>1, NothingYet DEF PressInv
<1>2. PressInv => PressActsOnce
  BY DEF PressInv, PressActsOnce, Et!PressActsOnce
<1> QED BY <1>1, <1>2, PressStep, PTL DEF BoardSpec

-----------------------------------------------------------------------------
(* The telnet windows.                                                     *)

\* Of a connection that lwIP does not have, nothing is missing.
Accounted == /\ window \in [Conns -> Nat] /\ dropped \in [Conns -> Nat]
             /\ \A c \in Conns : window[c] + dropped[c] = Wnd
             /\ open \subseteq Conns

\* A segment received, chained or not.
LEMMA RecvAccounts ==
    ASSUME Accounted, NEW c \in Conns, Lw!TcpRecv(c) PROVE Accounted'
<1>1. PICK buf \in Bufs, rest \in Rest :
        /\ Len(buf) + rest <= window[c]
        /\ window' = [window EXCEPT ![c] = @ - (Len(buf) + rest) + Lw!GivenBack(buf)]
        /\ dropped' = [dropped EXCEPT ![c] = @ + rest]
        /\ open' = open
  BY DEF Lw!TcpRecv
<1>2. /\ Len(buf) \in Nat /\ rest \in Nat
      /\ window[c] \in Nat /\ dropped[c] \in Nat /\ window[c] + dropped[c] = Wnd
  <2>1. buf \in Seq({"char", "cr", "iac"})
    BY WindowAssumption
  <2> QED BY <2>1, LenProperties, WindowAssumption DEF Accounted
<1>3. window' = [window EXCEPT ![c] = window[c] - rest]
  <2>1. window[c] - (Len(buf) + rest) + Lw!GivenBack(buf) = window[c] - rest
    BY <1>2 DEF Lw!GivenBack
  <2>2. window' = [window EXCEPT ![c] = window[c] - (Len(buf) + rest) + Lw!GivenBack(buf)]
    BY <1>1
  <2> QED BY <2>1, <2>2
<1>4. window[c] - rest \in Nat /\ dropped[c] + rest \in Nat
  BY <1>1, <1>2
<1>5. (window[c] - rest) + (dropped[c] + rest) = Wnd
  BY <1>2, WindowAssumption
<1> QED BY <1>1, <1>3, <1>4, <1>5 DEF Accounted

\* Every callback of lwIP.
LEMMA CallbackAccounts ==
    ASSUME Accounted, Lw!Callback PROVE Accounted'
<1>1. ASSUME NEW c \in Conns, Lw!TcpAccept(c) \/ Lw!TcpError(c) PROVE Accounted'
  <2>1. /\ window' = [window EXCEPT ![c] = Wnd]
        /\ dropped' = [dropped EXCEPT ![c] = 0]
        /\ open' = open \cup {c} \/ open' = open \ {c}
    BY <1>1 DEF Lw!TcpAccept, Lw!TcpError
  <2>2. Wnd + 0 = Wnd /\ Wnd \in Nat /\ 0 \in Nat
    BY WindowAssumption
  <2> QED BY <2>1, <2>2 DEF Accounted
<1>2. ASSUME NEW c \in Conns, Lw!TcpPoll(c) PROVE Accounted'
  BY <1>2 DEF Lw!TcpPoll, Lw!Welcome, Lw!Echo, Accounted
<1>3. CASE Lw!AcceptFails \/ Lw!Scribble
  BY <1>3 DEF Lw!AcceptFails, Lw!Scribble, Accounted
<1> QED BY <1>1, <1>2, <1>3, RecvAccounts DEF Lw!Callback

\* A step that leaves the connections alone.
LEMMA AccountedStays ==
    ASSUME Accounted, UNCHANGED <<open, window, dropped>> PROVE Accounted'
BY DEF Accounted

\* Every step of the board keeps it.
LEMMA WindowStep ==
    ASSUME Accounted, [Board]_<<vars, fw>> PROVE Accounted'
<1>1. CASE UNCHANGED <<vars, fw>>
  BY <1>1, AccountedStays DEF fw, progvars
<1>2. CASE Cycle
  <2>1. CASE rst_cpu_r'
    BY <1>2, <2>1, WindowAssumption DEF Cycle, Forget, Lw!Fresh, Accounted
  <2>2. CASE ~rst_cpu_r'
    BY <1>2, <2>2, AccountedStays DEF Cycle, progvars
  <2> QED BY <2>1, <2>2
<1>3. CASE HostStep
  BY <1>3, AccountedStays DEF HostStep, Loaded, fw, progvars
<1>4. CASE RunBlinky
  BY <1>4, AccountedStays DEF RunBlinky, blinkyrest
<1>5. CASE RunEthTest \/ Wire
  BY <1>5, AccountedStays DEF RunEthTest, Wire, ethrest
<1>6. CASE RunLoop
  <2>1. UNCHANGED Lw!telnetvars
    BY <1>6 DEF RunLoop, Lw!Loop, Lw!Boot, Lw!Status, Lw!Sleep
  <2> QED BY <2>1, AccountedStays DEF Lw!telnetvars
<1>7. CASE RunPoll
  BY <1>7, CallbackAccounts DEF RunPoll, Lw!Poll
<1>8. CASE PushButton \/ Plug
  BY <1>8, AccountedStays DEF PushButton, Plug, progvars
<1> QED BY <1>1, <1>2, <1>3, <1>4, <1>5, <1>6, <1>7, <1>8 DEF Board

\* A peer never may send more than lwIP has room for: the window is short of what it was by
\* the bytes of later pbufs exactly, for every window and every way segments arrive chained
\* (lwip_test/main.c 407-447).
THEOREM WindowsAccount == BoardSpec => []WindowAccounts
<1>1. BoardInit => Accounted
  BY WindowAssumption DEF BoardInit, ProgramInit, Lw!TelnetInit, Lw!Fresh, Accounted
<1>2. Accounted => WindowAccounts
  BY DEF Accounted, WindowAccounts, Lw!WindowAccounts
<1> QED BY <1>1, <1>2, WindowStep, PTL DEF BoardSpec

-----------------------------------------------------------------------------
(* Frames in eth_test.                                                     *)

\* Where eth_test is with the frame f it reads when the bytes r of it are left in
\* the FIFO.
Stands(f, r) ==
    /\ pc = "low"  => Count = Len(f) \div Base /\ r = <<Len(f) % Base>> \o f
    /\ pc = "read" => Count = Len(f) /\ i = Len(gRxBuf) /\ gRxBuf \o r = f

\* The rest of the frame being read, and the frames behind it.
AtFrame(r) == rx = r \o Et!Encoded(Tail(due)) /\ Stands(Head(due), r)

Between == pc \in {"status", "frames", "button", "send", "pause"}

EtTypes == /\ rx \in Seq(Nat) /\ tx \in Seq(Nat) /\ due \in Seq(Frames) /\ Len(tx) <= TxDepth
           /\ Count \in Nat /\ i \in Nat /\ lost \in BOOLEAN /\ full \in BOOLEAN

\* What is in the receive FIFO is known in every state in which step is kept.
Receives == /\ lost => due = <<>>
            /\ Between /\ ~lost => rx = Et!Encoded(due)
            /\ pc \in {"low", "read"} /\ ~lost =>
                  due # <<>> /\ (pc = "read" => gRxBuf \in Seq(Nat)) /\ \E r \in Seq(Nat) : AtFrame(r)

\* n test frames, and the first bytes of one more.
Stream == Et!Encode(TestFrame)
Sent(n) == [k \in 1 .. n |-> TestFrame]
Begun == IF pc = "send" THEN i ELSE 0
Sends == /\ pc = "send" => i < Len(Stream)
         /\ ~full => \E n \in Nat : tx = Et!Encoded(Sent(n)) \o SubSeq(Stream, 1, Begun)

EtInv == EtTypes /\ Receives /\ Sends

\* The variables are those of eth_test while it is the program that was started, and
\* its initial ones while the processor is in reset.
FramesInv == /\ rst_cpu_r \in BOOLEAN
             /\ rst_cpu_r \/ boot = Image(EthTest) => EtInv

\* Frames are sequences of bytes, and of what is written for them one can say the same.
LEMMA EtEncode ==
    /\ Base \in Nat \ {0} /\ TxDepth \in Nat /\ TestFrame \in Seq(Nat)
    /\ \A f \in Frames : f \in Seq(Nat)
    /\ \A f : Et!Encode(f) = Coded(Base, f)
    /\ \A fs : Et!Encoded(fs) = AllCoded(Base, fs)
    /\ Seq(Frames) \subseteq Seq(Seq(Nat))
<1>1. \A f : Et!Encode(f) = Coded(Base, f)
  BY DEF Et!Encode, Coded
<1>2. \A fs : Et!Encoded(fs) = AllCoded(Base, fs)
  <2>1. \A s : Et!FlattenSeq(s) = FlattenSeq(s)
    BY DEF Et!FlattenSeq, FlattenSeq
  <2> QED BY <2>1 DEF Et!Encoded, Et!Encode, AllCoded, Codes, Coded
<1>3. Frames \subseteq Seq(Nat)
  BY StreamAssumption
<1> QED BY <1>1, <1>2, <1>3, SeqMonotonic, StreamAssumption

\* What the MAC writes for a frame, and for several.
LEMMA EtEncoded ==
    /\ Et!Encoded(<<>>) = <<>>
    /\ \A fs \in Seq(Frames) : Et!Encoded(fs) \in Seq(Nat)
    /\ \A f \in Frames : Et!Encode(f) \in Seq(Nat)
    /\ \A fs \in Seq(Frames), f \in Frames :
          Et!Encoded(Append(fs, f)) = Et!Encoded(fs) \o Et!Encode(f)
    /\ \A fs \in Seq(Frames) :
          fs # <<>> => Et!Encoded(fs) = Et!Encode(Head(fs)) \o Et!Encoded(Tail(fs))
<1>1. \A fs \in Seq(Seq(Nat)), f \in Seq(Nat) :
         AllCoded(Base, Append(fs, f)) = AllCoded(Base, fs) \o Coded(Base, f)
  BY EtEncode, AllCodedAppend
<1>2. \A fs \in Seq(Seq(Nat)) :
         fs # <<>> => AllCoded(Base, fs) = Coded(Base, Head(fs)) \o AllCoded(Base, Tail(fs))
  BY EtEncode, AllCodedHead
<1>3. \A fs \in Seq(Seq(Nat)) : AllCoded(Base, fs) \in Seq(Nat)
  BY EtEncode, AllCodedBytes
<1>4. AllCoded(Base, <<>>) = <<>>
  BY AllCodedNone
<1>5. \A f \in Seq(Nat) : Coded(Base, f) \in Seq(Nat)
  BY EtEncode, CodedProperties
<1> QED BY <1>1, <1>2, <1>3, <1>4, <1>5, EtEncode

\* A read takes the first byte of what is left, if something is.
LEMMA EtByte ==
    ASSUME NEW r \in Seq(Nat), NEW t \in Seq(Nat), rx = r \o t, r # <<>>, NEW b, Et!ReadRx(b)
    PROVE  /\ b = Head(r) /\ b \in Nat
           /\ rx' = Tail(r) \o t /\ Tail(r) \in Seq(Nat) /\ Len(Tail(r)) = Len(r) - 1
           /\ r = <<b>> \o Tail(r)
<1>1. rx # <<>> /\ Head(rx) = Head(r) /\ Tail(rx) = Tail(r) \o t
  BY FirstOfConcat
<1>2. b = Head(r) /\ rx' = Tail(r) \o t
  BY <1>1, Zenon DEF Et!ReadRx
<1>3. /\ Head(r) \in Nat /\ Tail(r) \in Seq(Nat) /\ Len(Tail(r)) = Len(r) - 1
      /\ r = <<Head(r)>> \o Tail(r)
  BY FirstOfConcat
<1> QED BY <1>2, <1>3

\* A read takes the byte at the head of the FIFO.
LEMMA EtByteAhead ==
    ASSUME NEW x \in Nat, NEW t \in Seq(Nat), rx = <<x>> \o t, NEW b, Et!ReadRx(b)
    PROVE  b = x /\ rx' = t
<1>1. <<x>> \in Seq(Nat) /\ <<x>> # <<>> /\ Head(<<x>>) = x /\ Tail(<<x>>) = <<>>
  OBVIOUS
<1>2. rx # <<>> /\ Head(rx) = Head(<<x>>) /\ Tail(rx) = Tail(<<x>>) \o t
  <2> DEFINE r == <<x>>
  <2>1. r \in Seq(Nat) /\ r # <<>> /\ rx = r \o t
    BY <1>1
  <2> HIDE DEF r
  <2>2. rx # <<>> /\ Head(rx) = Head(r) /\ Tail(rx) = Tail(r) \o t
    BY <2>1, FirstOfConcat
  <2> QED BY <2>2 DEF r
<1>3. Tail(rx) = t
  BY <1>1, <1>2, ConcatEmptySeq
<1> QED BY <1>1, <1>2, <1>3 DEF Et!ReadRx

\* What is left after a read are bytes.
LEMMA EtBytesLeft ==
    ASSUME rx \in Seq(Nat), NEW b \in Et!Bytes, Et!ReadRx(b) PROVE rx' \in Seq(Nat) /\ b \in Nat
<1>1. CASE rx # <<>>
  <2>1. rx' = Tail(rx)
    BY <1>1 DEF Et!ReadRx
  <2> QED BY <1>1, <2>1, HeadTailProperties, StreamAssumption DEF Et!Bytes
<1>2. CASE rx = <<>>
  BY <1>2, StreamAssumption DEF Et!ReadRx, Et!Bytes
<1> QED BY <1>1, <1>2

\* Steps away from the frames.
LEMMA ReceivesStays ==
    ASSUME Receives, UNCHANGED <<rx, due, lost>>, Between, Between' PROVE Receives'
BY DEF Receives, Between

\* Steps away from the button.
LEMMA SendsStays ==
    ASSUME Sends, UNCHANGED <<tx, full>>, pc # "send", pc' # "send" PROVE Sends'
<1>1. Begun = 0 /\ Begun' = 0
  BY DEF Begun
<1> QED BY <1>1 DEF Sends

\* A frame arrives.
LEMMA EtArrive == ASSUME EtInv, Et!Arrive PROVE EtInv'
<1>1. PICK f \in Frames : /\ rx' = rx \o Et!Encode(f)
                          /\ due' = IF lost THEN <<>> ELSE Append(due, f)
                          /\ UNCHANGED <<pc, i, Count, gRxBuf, lost, tx, full>>
  BY DEF Et!Arrive, Et!loopvars
<1>2. EtTypes /\ Receives /\ Sends
  BY DEF EtInv
<1>3. Et!Encode(f) \in Seq(Nat)
  BY EtEncoded
<1>4. rx' \in Seq(Nat)
  BY <1>1, <1>2, <1>3, ConcatProperties DEF EtTypes
<1>5. due' \in Seq(Frames)
  <2>1. CASE lost
    BY <1>1, <2>1
  <2>2. CASE ~lost
    BY <1>1, <1>2, <2>2, AppendProperties DEF EtTypes
  <2> QED BY <2>1, <2>2
<1>6. EtTypes'
  BY <1>1, <1>2, <1>4, <1>5 DEF EtTypes
<1>7. Sends'
  BY <1>1, <1>2 DEF Sends, Begun
<1>8. Receives'
  <2>1. CASE lost
    BY <1>1, <2>1 DEF Receives
  <2>2. CASE ~lost
    <3>1. due \in Seq(Frames) /\ due' = Append(due, f)
      BY <1>1, <1>2, <2>2 DEF EtTypes
    <3>2. CASE Between
      <4>1. rx' = Et!Encoded(due')
        BY <1>1, <1>2, <2>2, <3>1, <3>2, EtEncoded DEF Receives
      <4> QED BY <1>1, <2>2, <3>2, <4>1 DEF Receives, Between
    <3>3. CASE pc \in {"low", "read"}
      <4>1. PICK r \in Seq(Nat) : due # <<>> /\ AtFrame(r)
        BY <1>2, <2>2, <3>3 DEF Receives
      <4>2. /\ due' # <<>> /\ Head(due') = Head(due) /\ Tail(due') = Append(Tail(due), f)
            /\ Tail(due) \in Seq(Frames)
        BY <3>1, <4>1, HeadTailAppend, AppendProperties, HeadTailProperties, EmptySeq
      <4>3. Et!Encoded(Tail(due')) = Et!Encoded(Tail(due)) \o Et!Encode(f)
        BY <4>2, EtEncoded
      <4>4. rx' = (r \o Et!Encoded(Tail(due))) \o Et!Encode(f)
        BY <1>1, <4>1 DEF AtFrame
      <4>5. Et!Encoded(Tail(due)) \in Seq(Nat)
        BY <4>2, EtEncoded
      <4>6. rx' = r \o Et!Encoded(Tail(due'))
        <5>1. (r \o Et!Encoded(Tail(due))) \o Et!Encode(f)
                = r \o (Et!Encoded(Tail(due)) \o Et!Encode(f))
          BY <1>3, <4>5, BytesAssociate, Zenon
        <5> QED BY <4>3, <4>4, <5>1, Zenon
      <4>7. Stands(Head(due), r)'
        BY <1>1, <4>1, <4>2 DEF AtFrame, Stands
      <4>8. AtFrame(r)'
        BY <4>6, <4>7 DEF AtFrame
      <4>9. pc = "read" => gRxBuf \in Seq(Nat)
        BY <1>2, <2>2, <3>3 DEF Receives
      <4> QED BY <1>1, <2>2, <3>3, <4>2, <4>8, <4>9 DEF Receives, Between
    <3>4. CASE ~Between /\ pc \notin {"low", "read"}
      BY <1>1, <2>2, <3>4 DEF Receives, Between
    <3> QED BY <3>2, <3>3, <3>4
  <2> QED BY <2>1, <2>2
<1> QED BY <1>6, <1>7, <1>8 DEF EtInv

\* Half a frame left by another program: eth_test starts by throwing away what is there,
\* and afterwards the FIFO is empty or step is lost.
LEMMA EtClear ==
    ASSUME EtInv, Et!Boot \/ Et!ClearByte \/ Et!ClearDone PROVE EtInv'
<1>1. EtTypes /\ Receives /\ Sends
  BY DEF EtInv
<1>2. CASE Et!Boot
  <2>1. /\ pc = "boot" /\ pc' = "clear" /\ i' = 0 /\ rx' \in Leftovers
        /\ UNCHANGED <<Count, gRxBuf, tx, due, lost, full>>
    BY <1>2 DEF Et!Boot
  <2>2. rx' \in Seq(Nat)
    BY <2>1, StreamAssumption
  <2>3. EtTypes'
    BY <1>1, <2>1, <2>2 DEF EtTypes
  <2>4. Receives'
    BY <1>1, <2>1 DEF Receives, Between
  <2> QED BY <1>1, <2>1, <2>3, <2>4, SendsStays DEF EtInv
<1>3. CASE Et!ClearByte
  <2>1. /\ pc = "clear" /\ i' = i + 1 /\ rx # <<>> /\ rx' = Tail(rx)
        /\ UNCHANGED <<pc, Count, gRxBuf, tx, due, lost, full>>
    BY <1>3 DEF Et!ClearByte
  <2>2. rx' \in Seq(Nat)
    BY <1>1, <2>1, HeadTailProperties DEF EtTypes
  <2>3. EtTypes'
    BY <1>1, <2>1, <2>2 DEF EtTypes
  <2>4. Receives'
    BY <1>1, <2>1 DEF Receives, Between
  <2> QED BY <1>1, <2>1, <2>3, <2>4, SendsStays DEF EtInv
<1>4. CASE Et!ClearDone
  <2>1. /\ pc = "clear" /\ pc' \in {"status", "frames"} /\ i' = 0 /\ due' = <<>>
        /\ lost' = (rx # <<>>) /\ UNCHANGED <<Count, gRxBuf, rx, tx, full>>
    BY <1>4 DEF Et!ClearDone
  <2>2. lost' \in BOOLEAN /\ (~lost' => rx' = <<>>)
    BY <2>1, Zenon
  <2>3. EtTypes'
    <3>1. <<>> \in Seq(Frames) /\ 0 \in Nat
      OBVIOUS
    <3> QED BY <1>1, <2>1, <2>2, <3>1, Zenon DEF EtTypes
  <2>4. Receives'
    <3>1. ~lost' => rx' = Et!Encoded(due')
      BY <2>1, <2>2, EtEncoded
    <3> QED BY <2>1, <3>1 DEF Receives, Between
  <2>5. pc' # "send"
    BY <2>1
  <2> QED BY <1>1, <2>1, <2>3, <2>4, <2>5, SendsStays DEF EtInv
<1> QED BY <1>2, <1>3, <1>4

\* Nothing in the FIFO.
LEMMA EtNoFrame == ASSUME EtInv, Et!NoFrame PROVE EtInv'
<1>1. /\ pc = "frames" /\ pc' = "button" /\ rx = <<>> /\ due' = <<>> /\ lost' = FALSE
      /\ UNCHANGED <<i, Count, gRxBuf, rx, tx, full>>
  BY DEF Et!NoFrame
<1>2. EtTypes /\ Receives /\ Sends
  BY DEF EtInv
<1>3. EtTypes'
  <2>1. <<>> \in Seq(Frames) /\ FALSE \in BOOLEAN
    OBVIOUS
  <2> QED BY <1>1, <1>2, <2>1, Zenon DEF EtTypes
<1>4. Receives'
  BY <1>1, EtEncoded DEF Receives, Between
<1> QED BY <1>1, <1>2, <1>3, <1>4, SendsStays DEF EtInv

\* The first byte of a length.
LEMMA EtHigh == ASSUME EtInv, Et!High PROVE EtInv'
<1>1. PICK b \in Et!Bytes : /\ pc = "frames" /\ rx # <<>> /\ pc' = "low"
                            /\ Et!ReadRx(b) /\ Count' = b
                            /\ UNCHANGED <<i, gRxBuf, tx, due, lost, full>>
  BY DEF Et!High
<1>2. EtTypes /\ Receives /\ Sends
  BY DEF EtInv
<1>3. rx' \in Seq(Nat) /\ b \in Nat
  BY <1>1, <1>2, EtBytesLeft DEF EtTypes
<1>4. EtTypes'
  BY <1>1, <1>2, <1>3 DEF EtTypes
<1>5. Receives'
  <2>1. CASE lost
    BY <1>1, <1>2, <2>1 DEF Receives, Between
  <2>2. CASE ~lost
    <3>1. rx = Et!Encoded(due) /\ due \in Seq(Frames)
      BY <1>1, <1>2, <2>2 DEF Receives, Between, EtTypes
    <3>2. due # <<>>
      BY <1>1, <3>1, EtEncoded
    <3>3. Head(due) \in Frames /\ Tail(due) \in Seq(Frames)
      BY <3>1, <3>2, HeadTailProperties
    <3>4. PICK f \in Frames, t \in Seq(Nat) : f = Head(due) /\ t = Et!Encoded(Tail(due))
      BY <3>3, EtEncoded
    <3>5. rx = Et!Encode(f) \o t
      BY <3>1, <3>2, <3>4, EtEncoded
    <3>6. PICK high, low \in Nat : high = Len(f) \div Base /\ low = Len(f) % Base
      BY EtEncode, CodedProperties
    <3>7. f \in Seq(Nat) /\ Et!Encode(f) = <<high>> \o (<<low>> \o f)
      BY <3>6, EtEncode, CodedProperties
    <3>8. <<high>> \in Seq(Nat) /\ <<low>> \in Seq(Nat)
      OBVIOUS
    <3>9. PICK r \in Seq(Nat) : r = <<low>> \o f
      BY <3>7, <3>8, ConcatProperties
    <3>10. rx = (<<high>> \o r) \o t
      BY <3>5, <3>7, <3>9
    <3>11. rx = <<high>> \o (r \o t) /\ r \o t \in Seq(Nat)
      BY <3>8, <3>10, BytesAssociate, ConcatProperties
    <3>12. b = high /\ rx' = r \o t
      BY <1>1, <3>11, EtByteAhead
    <3>13. AtFrame(r)'
      BY <1>1, <3>4, <3>6, <3>9, <3>12 DEF AtFrame, Stands
    <3> QED BY <1>1, <2>2, <3>2, <3>13 DEF Receives, Between
  <2> QED BY <2>1, <2>2
<1> QED BY <1>1, <1>2, <1>4, <1>5, SendsStays DEF EtInv

\* The length: that of the frame, if step is kept; one that is refused makes it clear
\* the FIFO.
LEMMA EtLow == ASSUME EtInv, Et!Low PROVE EtInv'
<1>1. PICK b \in Et!Bytes : /\ pc = "low" /\ Et!ReadRx(b) /\ Count' = Count * Base + b
                            /\ gRxBuf' = <<>> /\ i' = 0 /\ pc' \in {"read", "clear"}
                            /\ UNCHANGED <<tx, due, lost, full>>
  BY DEF Et!Low
<1>2. EtTypes /\ Receives /\ Sends
  BY DEF EtInv
<1>3. rx' \in Seq(Nat) /\ b \in Nat
  BY <1>1, <1>2, EtBytesLeft DEF EtTypes
<1>4. Count * Base + b \in Nat
  <2>1. \A x, y, z \in Nat : x * y + z \in Nat
    OBVIOUS
  <2>2. Count \in Nat /\ Base \in Nat
    BY <1>2, StreamAssumption DEF EtTypes
  <2> QED BY <1>3, <2>1, <2>2, Zenon
<1>5. EtTypes'
  BY <1>1, <1>2, <1>3, <1>4 DEF EtTypes
<1>6. Receives'
  <2>1. CASE lost
    BY <1>1, <1>2, <2>1 DEF Receives, Between
  <2>2. CASE ~lost
    <3>1. PICK r \in Seq(Nat) : due # <<>> /\ AtFrame(r)
      BY <1>1, <1>2, <2>2 DEF Receives
    <3>2. Head(due) \in Frames /\ Tail(due) \in Seq(Frames)
      BY <1>2, <3>1, HeadTailProperties DEF EtTypes
    <3>3. PICK f \in Frames, t \in Seq(Nat) : f = Head(due) /\ t = Et!Encoded(Tail(due))
      BY <3>2, EtEncoded
    <3>4. PICK low \in Nat : low = Len(f) % Base
      BY EtEncode, CodedProperties
    <3>5. rx = r \o t /\ Count = Len(f) \div Base /\ r = <<low>> \o f
      BY <1>1, <3>1, <3>3, <3>4 DEF AtFrame, Stands
    <3>6. f \in Seq(Nat) /\ Count * Base + low = Len(f)
      BY <3>4, <3>5, EtEncode, CodedProperties
    <3>7. <<low>> \in Seq(Nat)
      OBVIOUS
    <3>8. rx = <<low>> \o (f \o t) /\ f \o t \in Seq(Nat)
      BY <3>5, <3>6, <3>7, BytesAssociate, ConcatProperties
    <3>9. b = low /\ rx' = f \o t
      BY <1>1, <3>8, EtByteAhead
    <3>10. Count' = Len(f)
      BY <1>1, <3>6, <3>9, Zenon
    <3>11. <<>> \o f = f /\ Len(<<>>) = 0 /\ <<>> \in Seq(Nat)
      BY <3>6, ConcatEmptySeq
    <3>12. Stands(Head(due), f)'
      BY <1>1, <3>3, <3>10, <3>11 DEF Stands
    <3>13. AtFrame(f)'
      BY <1>1, <3>3, <3>9, <3>12 DEF AtFrame
    <3> QED BY <1>1, <2>2, <3>1, <3>6, <3>11, <3>13 DEF Receives, Between
  <2> QED BY <2>1, <2>2
<1>7. pc' # "send"
  BY <1>1
<1> QED BY <1>1, <1>2, <1>5, <1>6, <1>7, SendsStays DEF EtInv

\* The next byte of the frame.
LEMMA EtRead == ASSUME EtInv, Et!Read PROVE EtInv'
<1>1. PICK b \in Et!Bytes : /\ pc = "read" /\ i < Count /\ i' = i + 1
                            /\ Et!ReadRx(b) /\ gRxBuf' = Append(gRxBuf, b)
                            /\ UNCHANGED <<pc, Count, tx, due, lost, full>>
  BY DEF Et!Read
<1>2. EtTypes /\ Receives /\ Sends
  BY DEF EtInv
<1>3. rx' \in Seq(Nat) /\ b \in Nat
  BY <1>1, <1>2, EtBytesLeft DEF EtTypes
<1>4. EtTypes'
  BY <1>1, <1>2, <1>3 DEF EtTypes
<1>5. Receives'
  <2>1. CASE lost
    BY <1>1, <1>2, <2>1 DEF Receives, Between
  <2>2. CASE ~lost
    <3>1. PICK r \in Seq(Nat) : due # <<>> /\ AtFrame(r)
      BY <1>1, <1>2, <2>2 DEF Receives
    <3>2. gRxBuf \in Seq(Nat)
      BY <1>1, <1>2, <2>2 DEF Receives
    <3>3. PICK t \in Seq(Nat) : t = Et!Encoded(Tail(due))
      <4>1. Tail(due) \in Seq(Frames)
        BY <1>2, <3>1, HeadTailProperties DEF EtTypes
      <4> QED BY <4>1, EtEncoded
    <3>4. /\ rx = r \o t /\ gRxBuf \o r = Head(due)
          /\ Count = Len(Head(due)) /\ i = Len(gRxBuf)
      BY <1>1, <3>1, <3>3 DEF AtFrame, Stands
    <3>5. Len(r) \in Nat /\ Len(gRxBuf) \in Nat /\ Count = Len(gRxBuf) + Len(r)
      BY <3>2, <3>4, ConcatProperties, LenProperties
    <3>6. r # <<>>
      BY <1>1, <3>4, <3>5, EmptySeq
    <3>7. /\ rx' = Tail(r) \o t /\ Tail(r) \in Seq(Nat) /\ r = <<b>> \o Tail(r)
      BY <1>1, <3>4, <3>6, EtByte
    <3>8. /\ gRxBuf' \in Seq(Nat) /\ Len(gRxBuf') = i'
          /\ gRxBuf' = gRxBuf \o <<b>>
      BY <1>1, <1>3, <3>2, <3>4, AppendProperties, AppendIsConcat
    <3>9. gRxBuf' \o Tail(r) = Head(due)
      <4>1. <<b>> \in Seq(Nat)
        BY <1>3
      <4>2. (gRxBuf \o <<b>>) \o Tail(r) = gRxBuf \o (<<b>> \o Tail(r))
        BY <3>2, <3>7, <4>1, BytesAssociate, Zenon
      <4> QED BY <3>4, <3>7, <3>8, <4>2, Zenon
    <3>10. Stands(Head(due), Tail(r))'
      BY <1>1, <3>4, <3>8, <3>9 DEF Stands
    <3>11. AtFrame(Tail(r))'
      BY <1>1, <3>3, <3>7, <3>10 DEF AtFrame
    <3> QED BY <1>1, <2>2, <3>1, <3>7, <3>8, <3>11 DEF Receives, Between
  <2> QED BY <2>1, <2>2
<1> QED BY <1>1, <1>2, <1>4, <1>5, SendsStays DEF EtInv

\* All of the frame is there when as many bytes are as its length says.
LEMMA EtWhole ==
    ASSUME EtInv, pc = "read", i = Count, ~lost
    PROVE  due # <<>> /\ gRxBuf = Head(due) /\ rx = Et!Encoded(Tail(due))
<1>1. PICK r \in Seq(Nat) : due # <<>> /\ AtFrame(r)
  BY DEF EtInv, Receives
<1>2. gRxBuf \in Seq(Nat) /\ due \in Seq(Frames)
  BY DEF EtInv, Receives, EtTypes
<1>3. /\ rx = r \o Et!Encoded(Tail(due)) /\ gRxBuf \o r = Head(due)
      /\ i = Len(Head(due)) /\ i = Len(gRxBuf)
  BY <1>1 DEF AtFrame, Stands
<1>4. Len(r) \in Nat /\ Len(gRxBuf) \in Nat /\ i = Len(gRxBuf) + Len(r)
  BY <1>2, <1>3, ConcatProperties, LenProperties
<1>5. r = <<>>
  BY <1>3, <1>4, EmptySeq
<1>6. Et!Encoded(Tail(due)) \in Seq(Nat)
  BY <1>1, <1>2, EtEncoded, HeadTailProperties
<1> QED BY <1>1, <1>2, <1>3, <1>5, <1>6, ConcatEmptySeq

\* The frame is printed, and the next one is the oldest.
LEMMA EtReport == ASSUME EtInv, Et!Report PROVE EtInv'
<1>1. /\ pc = "read" /\ i = Count /\ pc' = "frames" /\ i' = 0 /\ gRxBuf' = <<>> /\ Count' = 0
      /\ due' = (IF due = <<>> THEN <<>> ELSE Tail(due))
      /\ UNCHANGED <<rx, tx, lost, full>>
  BY DEF Et!Report
<1>2. EtTypes /\ Receives /\ Sends
  BY DEF EtInv
<1>3. due' \in Seq(Frames)
  <2>1. CASE due = <<>>
    BY <1>1, <2>1
  <2>2. CASE due # <<>>
    BY <1>1, <1>2, <2>2, HeadTailProperties DEF EtTypes
  <2> QED BY <2>1, <2>2
<1>4. EtTypes'
  BY <1>1, <1>2, <1>3 DEF EtTypes
<1>5. Receives'
  <2>1. CASE lost
    BY <1>1, <1>2, <2>1 DEF Receives
  <2>2. CASE ~lost
    <3>1. rx' = Et!Encoded(due')
      BY <1>1, <2>2, EtWhole
    <3> QED BY <1>1, <2>2, <3>1 DEF Receives, Between
  <2> QED BY <2>1, <2>2
<1> QED BY <1>1, <1>2, <1>4, <1>5, SendsStays DEF EtInv

\* One test frame more.
LEMMA SentMore ==
    ASSUME NEW n \in Nat
    PROVE  /\ Sent(n) \in Seq(Seq(Nat)) /\ Sent(n + 1) \in Seq(Seq(Nat))
           /\ Sent(n + 1) = Append(Sent(n), TestFrame)
           /\ Sent(n + 1) # <<>> /\ Head(Sent(n + 1)) = TestFrame /\ Tail(Sent(n + 1)) = Sent(n)
<1>1. \A m \in Nat : Sent(m) \in Seq(Seq(Nat)) /\ Len(Sent(m)) = m
  BY StreamAssumption, IsASeq DEF Sent
<1>2. n + 1 \in Nat /\ TestFrame \in Seq(Nat)
  BY StreamAssumption
<1> DEFINE more == Append(Sent(n), TestFrame)
           all == Sent(n + 1)
<1>3. /\ more \in Seq(Seq(Nat)) /\ Len(more) = n + 1 /\ more[n + 1] = TestFrame
      /\ \A k \in 1 .. n : more[k] = Sent(n)[k]
  <2>1. PICK s \in Seq(Seq(Nat)) : s = Sent(n) /\ Len(s) = n
    BY <1>1
  <2>2. Append(s, TestFrame) \in Seq(Seq(Nat))
    BY <1>2, AppendProperties
  <2>3. /\ Len(Append(s, TestFrame)) = n + 1 /\ Append(s, TestFrame)[n + 1] = TestFrame
        /\ \A k \in 1 .. n : Append(s, TestFrame)[k] = s[k]
    BY <1>2, <2>1, AppendProperties
  <2> QED BY <2>1, <2>2, <2>3
<1>4. all \in Seq(Seq(Nat)) /\ Len(all) = n + 1
  BY <1>1, <1>2
<1>5. \A k \in 1 .. n + 1 : all[k] = TestFrame
  BY DEF Sent
<1>6. \A k \in 1 .. n : Sent(n)[k] = TestFrame
  BY DEF Sent
<1> HIDE DEF more, all
<1>7. ASSUME NEW k \in 1 .. n + 1 PROVE all[k] = more[k]
  <2>1. CASE k = n + 1
    BY <1>3, <1>5, <2>1
  <2>2. CASE k # n + 1
    <3>1. k \in 1 .. n
      BY <2>2
    <3> QED BY <1>3, <1>5, <1>6, <3>1
  <2> QED BY <2>1, <2>2
<1>8. all = more
  BY <1>3, <1>4, <1>7, SeqEqual
<1>9. all # <<>>
  BY <1>4, EmptySeq
<1>10. Head(all) = TestFrame
  BY <1>4, <1>5, <1>9
<1>11. /\ Tail(all) \in Seq(Seq(Nat)) /\ Len(Tail(all)) = n
       /\ \A k \in 1 .. n : Tail(all)[k] = all[k + 1]
  <2>1. Len(all) - 1 = n
    BY <1>4
  <2> QED BY <1>4, <1>9, <2>1, HeadTailProperties
<1>12. ASSUME NEW k \in 1 .. n PROVE Tail(all)[k] = Sent(n)[k]
  <2>1. k + 1 \in 1 .. n + 1
    OBVIOUS
  <2> QED BY <1>5, <1>6, <1>11, <2>1
<1>13. Tail(all) = Sent(n)
  BY <1>1, <1>11, <1>12, SeqEqual
<1> QED BY <1>1, <1>4, <1>8, <1>9, <1>10, <1>13 DEF more, all

\* The bytes of n test frames: at either end one frame more, and no fewer bytes than frames.
LEMMA SentBytes ==
    /\ Et!Encoded(Sent(0)) = <<>>
    /\ \A n \in Nat : /\ Et!Encoded(Sent(n)) \in Seq(Nat)
                      /\ Et!Encoded(Sent(n + 1)) = Et!Encoded(Sent(n)) \o Stream
                      /\ Et!Encoded(Sent(n + 1)) = Stream \o Et!Encoded(Sent(n))
                      /\ n <= Len(Et!Encoded(Sent(n)))
    /\ Stream \in Seq(Nat) /\ Len(Stream) \in Nat \ {0, 1}
<1>1. Et!Encoded(Sent(0)) = <<>>
  <2>1. Sent(0) \in Seq(Nat) /\ Len(Sent(0)) = 0
    BY IsASeq DEF Sent
  <2>2. Sent(0) = <<>>
    BY <2>1, EmptySeq
  <2> QED BY <2>2, EtEncoded
<1>2. /\ Stream = Coded(Base, TestFrame) /\ Stream \in Seq(Nat)
      /\ Stream = <<Len(TestFrame) \div Base>> \o (<<Len(TestFrame) % Base>> \o TestFrame)
      /\ Len(TestFrame) \div Base \in Nat /\ Len(TestFrame) % Base \in Nat
      /\ Len(TestFrame) \in Nat
  BY EtEncode, CodedProperties DEF Stream
<1>3. Len(Stream) = 2 + Len(TestFrame)
  <2> DEFINE u == <<Len(TestFrame) \div Base>>
             v == <<Len(TestFrame) % Base>>
  <2>1. u \in Seq(Nat) /\ v \in Seq(Nat) /\ Len(u) = 1 /\ Len(v) = 1
    BY <1>2
  <2> HIDE DEF u, v
  <2>2. v \o TestFrame \in Seq(Nat) /\ Len(v \o TestFrame) = 1 + Len(TestFrame)
    <3>1. TestFrame \in Seq(Nat)
      BY EtEncode
    <3>2. v \o TestFrame \in Seq(Nat) /\ Len(v \o TestFrame) = Len(v) + Len(TestFrame)
      BY <2>1, <3>1, ConcatProperties
    <3> QED BY <2>1, <3>2
  <2>3. Len(u \o (v \o TestFrame)) = 1 + (1 + Len(TestFrame))
    BY <2>1, <2>2, ConcatProperties
  <2> QED BY <1>2, <2>3 DEF u, v
<1>4. ASSUME NEW n \in Nat
      PROVE  /\ Et!Encoded(Sent(n)) \in Seq(Nat)
             /\ Et!Encoded(Sent(n + 1)) = Et!Encoded(Sent(n)) \o Stream
             /\ Et!Encoded(Sent(n + 1)) = Stream \o Et!Encoded(Sent(n))
  <2>1. \A fs : Et!Encoded(fs) = AllCoded(Base, fs)
    BY EtEncode
  <2>2. AllCoded(Base, Sent(n)) \in Seq(Nat)
    BY SentMore, EtEncode, AllCodedBytes
  <2>3. AllCoded(Base, Sent(n + 1)) = AllCoded(Base, Sent(n)) \o Coded(Base, TestFrame)
    BY SentMore, EtEncode, AllCodedAppend
  <2>4. AllCoded(Base, Sent(n + 1)) = Coded(Base, TestFrame) \o AllCoded(Base, Sent(n))
    BY SentMore, EtEncode, AllCodedHead
  <2> QED BY <1>2, <2>1, <2>2, <2>3, <2>4, Zenon
<1> DEFINE N == {n \in Nat : n <= Len(Et!Encoded(Sent(n)))}
<1>5. 0 \in N
  BY <1>1, EmptySeq
<1>6. ASSUME NEW n \in Nat, n \in N PROVE n + 1 \in N
  <2>1. Len(Et!Encoded(Sent(n + 1))) = Len(Et!Encoded(Sent(n))) + Len(Stream)
    BY <1>2, <1>4, ConcatProperties
  <2>2. Len(Et!Encoded(Sent(n))) \in Nat
    BY <1>4, LenProperties
  <2> QED BY <1>2, <1>3, <1>6, <2>1, <2>2
<1> HIDE DEF N
<1>7. Nat \subseteq N
  BY <1>5, <1>6, SetInduction
<1>8. Len(Stream) \in Nat \ {0, 1}
  BY <1>2, <1>3
<1> QED BY <1>1, <1>2, <1>4, <1>7, <1>8 DEF N

\* Between two sends there are whole frames in the FIFO.
LEMMA WholeSent ==
    ASSUME EtInv, pc # "send", ~full
    PROVE  \E n \in Nat : tx = Et!Encoded(Sent(n)) /\ n <= Len(tx)
<1>1. PICK n \in Nat : tx = Et!Encoded(Sent(n)) \o SubSeq(Stream, 1, 0)
  BY DEF EtInv, Sends, Begun
<1>2. SubSeq(Stream, 1, 0) = <<>>
  BY SentBytes, SubSeqEmpty
<1>3. Et!Encoded(Sent(n)) \in Seq(Nat) /\ n <= Len(Et!Encoded(Sent(n)))
  BY SentBytes
<1>4. tx = Et!Encoded(Sent(n))
  BY <1>1, <1>2, <1>3, ConcatEmptySeq
<1> QED BY <1>3, <1>4

\* A byte is written, into a full FIFO or not.
LEMMA EtSend == ASSUME EtInv, Et!Send PROVE EtInv'
<1>1. /\ pc = "send"
      /\ IF Len(tx) < TxDepth THEN tx' = Append(tx, Stream[i + 1]) /\ UNCHANGED full
                              ELSE full' = TRUE /\ UNCHANGED tx
      /\ IF i + 1 < Len(Stream) THEN i' = i + 1 /\ UNCHANGED pc ELSE i' = 0 /\ pc' = "pause"
      /\ UNCHANGED <<Count, gRxBuf, rx, due, lost>>
  BY DEF Et!Send, Stream
<1>2. EtTypes /\ Receives /\ Sends
  BY DEF EtInv
<1>3. /\ i \in Nat /\ i + 1 \in 1 .. Len(Stream) /\ Stream \in Seq(Nat) /\ Len(Stream) \in Nat
      /\ i + 1 \in Nat
  BY <1>1, <1>2, SentBytes DEF Sends, EtTypes
<1>4. Stream[i + 1] \in Nat
  BY <1>3, ElementOfSeq
<1>5. i' \in Nat
  BY <1>1, <1>3
<1>6. tx' \in Seq(Nat) /\ Len(tx') <= TxDepth /\ full' \in BOOLEAN
  <2>1. CASE Len(tx) < TxDepth
    <3>1. tx' = Append(tx, Stream[i + 1]) /\ full' = full
      BY <1>1, <2>1
    <3>2. /\ tx \in Seq(Nat) /\ Len(tx) \in Nat /\ TxDepth \in Nat
      BY <1>2, EtEncode, LenProperties DEF EtTypes
    <3>3. tx' \in Seq(Nat) /\ Len(tx') = Len(tx) + 1
      BY <1>4, <3>1, <3>2, AppendProperties
    <3>4. Len(tx') <= TxDepth
      BY <2>1, <3>2, <3>3
    <3> QED BY <1>2, <3>1, <3>3, <3>4 DEF EtTypes
  <2>2. CASE ~(Len(tx) < TxDepth)
    BY <1>1, <1>2, <2>2 DEF EtTypes
  <2> QED BY <2>1, <2>2
<1>7. EtTypes'
  BY <1>1, <1>2, <1>5, <1>6 DEF EtTypes
<1>8. Between /\ Between'
  BY <1>1 DEF Between
<1>9. Receives'
  BY <1>1, <1>2, <1>8, ReceivesStays
<1>10. pc' = "send" => i' < Len(Stream)
  BY <1>1
<1>11. ASSUME ~full' PROVE \E n \in Nat : tx' = Et!Encoded(Sent(n)) \o SubSeq(Stream, 1, Begun')
  <2>1. Len(tx) < TxDepth /\ tx' = Append(tx, Stream[i + 1]) /\ ~full
    BY <1>1, <1>11, Zenon
  <2>2. PICK n \in Nat : tx = Et!Encoded(Sent(n)) \o SubSeq(Stream, 1, i)
    BY <1>1, <1>2, <2>1 DEF Sends, Begun
  <2>3. PICK u \in Seq(Nat) : u = Et!Encoded(Sent(n))
    BY SentBytes
  <2>4. /\ SubSeq(Stream, 1, i) \in Seq(Nat)
        /\ SubSeq(Stream, 1, i + 1) = Append(SubSeq(Stream, 1, i), Stream[i + 1])
    <3>1. 1 \in 1 .. Len(Stream) + 1 /\ i + 1 \in 1 .. Len(Stream) /\ i + 1 >= 1
      BY <1>3
    <3>2. SubSeq(Stream, 1, i + 1) = Append(SubSeq(Stream, 1, (i + 1) - 1), Stream[i + 1])
      BY <1>3, <3>1, SubSeqRecursiveSecond
    <3>3. (i + 1) - 1 = i
      BY <1>3
    <3>4. i \in 0 .. Len(Stream)
      BY <1>3
    <3>5. SubSeq(Stream, 1, i) \in Seq(Nat)
      BY <1>3, <3>4, SubSeqProperties
    <3> QED BY <3>2, <3>3, <3>5
  <2>5. PICK v \in Seq(Nat) : v = SubSeq(Stream, 1, i)
    BY <2>4
  <2>6. tx' = u \o SubSeq(Stream, 1, i + 1)
    <3>1. <<Stream[i + 1]>> \in Seq(Nat)
      BY <1>4
    <3>2. u \o v \in Seq(Nat)
      BY ConcatProperties
    <3>3. tx' = (u \o v) \o <<Stream[i + 1]>>
      BY <1>4, <2>1, <2>2, <2>3, <2>5, <3>2, AppendIsConcat
    <3>4. SubSeq(Stream, 1, i + 1) = v \o <<Stream[i + 1]>>
      BY <1>4, <2>4, <2>5, AppendIsConcat
    <3>5. (u \o v) \o <<Stream[i + 1]>> = u \o (v \o <<Stream[i + 1]>>)
      BY <3>1, BytesAssociate, Zenon
    <3> QED BY <3>3, <3>4, <3>5, Zenon
  <2>7. CASE i + 1 < Len(Stream)
    <3>1. Begun' = i + 1
      BY <1>1, <2>7 DEF Begun
    <3> QED BY <2>3, <2>6, <3>1
  <2>8. CASE ~(i + 1 < Len(Stream))
    <3>1. Begun' = 0
      BY <1>1, <2>8 DEF Begun
    <3>2. i + 1 = Len(Stream)
      BY <1>3, <2>8
    <3>3. SubSeq(Stream, 1, Len(Stream)) = Stream
      BY <1>3, SubSeqFull
    <3>4. tx' = Et!Encoded(Sent(n + 1))
      <4>1. tx' = u \o Stream
        BY <2>6, <3>2, <3>3
      <4> QED BY <2>3, <4>1, SentBytes
    <3>5. Et!Encoded(Sent(n + 1)) \in Seq(Nat) /\ n + 1 \in Nat
      BY SentBytes
    <3>6. SubSeq(Stream, 1, 0) = <<>>
      BY <1>3, SubSeqEmpty
    <3>7. tx' = Et!Encoded(Sent(n + 1)) \o SubSeq(Stream, 1, 0)
      BY <3>4, <3>5, <3>6, ConcatEmptySeq
    <3> QED BY <3>1, <3>5, <3>7
  <2> QED BY <2>7, <2>8
<1>12. Sends'
  BY <1>10, <1>11 DEF Sends, Stream
<1> QED BY <1>7, <1>9, <1>12 DEF EtInv

\* The MAC sends the oldest frame, when it has all of it.
LEMMA EtMacSends == ASSUME EtInv, Et!MacSends PROVE EtInv'
<1>1. /\ Len(tx) >= Len(Stream) /\ tx' = SubSeq(tx, 1 + Len(Stream), Len(tx))
      /\ UNCHANGED <<pc, i, Count, gRxBuf, rx, due, lost, full>>
  BY DEF Et!MacSends, Et!loopvars, Stream
<1>2. EtTypes /\ Receives /\ Sends
  BY DEF EtInv
<1>3. /\ tx \in Seq(Nat) /\ Len(tx) \in Nat /\ Len(tx) <= TxDepth /\ TxDepth \in Nat
      /\ Stream \in Seq(Nat) /\ Len(Stream) \in Nat \ {0, 1}
  BY <1>2, SentBytes, EtEncode, LenProperties DEF EtTypes
<1>4. tx' \in Seq(Nat) /\ Len(tx') <= TxDepth
  <2> DEFINE m == 1 + Len(Stream)
             n == Len(tx)
  <2>1. m \in Int /\ n \in Int /\ m \in Nat /\ m >= 1
    BY <1>3
  <2>2. \A k \in m .. n : tx[k] \in Nat
    BY <1>3, <2>1, ElementOfSeq
  <2> HIDE DEF m, n
  <2>3. /\ SubSeq(tx, m, n) \in Seq(Nat)
        /\ Len(SubSeq(tx, m, n)) = IF m <= n THEN n - m + 1 ELSE 0
    BY <2>1, <2>2, SubSeqProperties
  <2>4. (IF m <= n THEN n - m + 1 ELSE 0) <= TxDepth
    BY <1>3, <2>1 DEF n
  <2> QED BY <1>1, <2>3, <2>4 DEF m, n
<1>5. EtTypes'
  BY <1>1, <1>2, <1>4 DEF EtTypes
<1>6. Receives'
  BY <1>1, <1>2 DEF Receives, Between, AtFrame, Stands
<1>7. Begun \in Nat /\ Begun < Len(Stream) /\ Begun' = Begun
  BY <1>1, <1>2, <1>3 DEF Sends, EtTypes, Begun
<1>8. ASSUME ~full PROVE \E n \in Nat : tx' = Et!Encoded(Sent(n)) \o SubSeq(Stream, 1, Begun)
  <2>1. PICK n \in Nat : tx = Et!Encoded(Sent(n)) \o SubSeq(Stream, 1, Begun)
    BY <1>2, <1>8 DEF Sends
  <2>2. PICK part \in Seq(Nat) : part = SubSeq(Stream, 1, Begun) /\ Len(part) = Begun
    <3>1. \A k \in 1 .. Begun : Stream[k] \in Nat
      BY <1>3, <1>7, ElementOfSeq
    <3> DEFINE m == 1
               k == Begun
    <3>2. m \in Int /\ k \in Int /\ \A at \in m .. k : Stream[at] \in Nat
      BY <1>7, <3>1
    <3>3. k \in Nat /\ m = 1
      BY <1>7
    <3> HIDE DEF m, k
    <3>4. /\ SubSeq(Stream, m, k) \in Seq(Nat)
          /\ Len(SubSeq(Stream, m, k)) = IF m <= k THEN k - m + 1 ELSE 0
      BY <3>2, SubSeqProperties
    <3>5. (IF m <= k THEN k - m + 1 ELSE 0) = k
      BY <3>3
    <3>6. SubSeq(Stream, 1, Begun) \in Seq(Nat) /\ Len(SubSeq(Stream, 1, Begun)) = Begun
      BY <3>4, <3>5 DEF m, k
    <3> QED BY <3>6
  <2>3. n # 0
    <3>1. SUFFICES ASSUME n = 0 PROVE FALSE
      OBVIOUS
    <3>2. tx = part
      BY <2>1, <2>2, <3>1, SentBytes, ConcatEmptySeq
    <3> QED BY <1>1, <1>3, <1>7, <2>2, <3>2
  <2>4. n - 1 \in Nat /\ (n - 1) + 1 = n
    BY <2>3
  <2>5. PICK rest \in Seq(Nat) : rest = Et!Encoded(Sent(n - 1))
    BY <2>4, SentBytes
  <2>6. Et!Encoded(Sent((n - 1) + 1)) = Stream \o rest
    BY <2>4, <2>5, SentBytes
  <2>7. tx = (Stream \o rest) \o part
    BY <2>1, <2>2, <2>4, <2>6
  <2>8. (Stream \o rest) \o part = Stream \o (rest \o part)
    BY <1>3, BytesAssociate, Zenon
  <2>9. rest \o part \in Seq(Nat)
    BY ConcatProperties
  <2>10. tx' = rest \o part
    <3>1. tx = Stream \o (rest \o part)
      BY <2>7, <2>8
    <3>2. SubSeq(Stream \o (rest \o part), 1 + Len(Stream), Len(Stream \o (rest \o part)))
            = rest \o part
      BY <1>3, <2>9, BehindFirst
    <3> QED BY <1>1, <3>1, <3>2, Zenon
  <2> QED BY <2>2, <2>4, <2>5, <2>10
<1>9. Sends'
  <2>1. ~full' => \E n \in Nat : tx' = Et!Encoded(Sent(n)) \o SubSeq(Stream, 1, Begun')
    BY <1>1, <1>7, <1>8
  <2>2. pc' = "send" => i' < Len(Stream)
    BY <1>1, <1>2 DEF Sends
  <2> QED BY <2>1, <2>2 DEF Sends, Stream
<1> QED BY <1>5, <1>6, <1>9 DEF EtInv

\* The link, the button and the pause.
LEMMA EtOther ==
    ASSUME EtInv, Et!Status \/ Et!LookAtButton \/ Et!Pause PROVE EtInv'
<1>1. EtTypes /\ Receives /\ Sends
  BY DEF EtInv
<1>2. /\ UNCHANGED <<Count, gRxBuf, rx, tx, due, lost, full>> /\ i' \in {i, 0}
      /\ pc \in {"status", "button", "pause"} /\ pc' \in {"frames", "send", "pause", "status"}
      /\ pc' = "send" => i' = 0
  BY DEF Et!Status, Et!LookAtButton, Et!Pause, Et!framevars
<1>3. EtTypes'
  BY <1>1, <1>2 DEF EtTypes
<1>4. Receives'
  BY <1>1, <1>2, ReceivesStays DEF Between
<1>5. Sends'
  <2>1. Begun = 0 /\ Begun' = 0
    BY <1>2 DEF Begun
  <2>2. 0 < Len(Stream)
    BY SentBytes
  <2>3. pc' = "send" => i' < Len(Stream)
    BY <1>2, <2>2
  <2>4. ~full' => \E n \in Nat : tx' = Et!Encoded(Sent(n)) \o SubSeq(Stream, 1, Begun')
    BY <1>1, <1>2, <2>1 DEF Sends
  <2> QED BY <2>3, <2>4 DEF Sends, Stream
<1> QED BY <1>3, <1>4, <1>5 DEF EtInv

\* A program that has just been loaded, or waits in reset, knows nothing.
Blank == /\ pc = "boot" /\ Count = 0 /\ i = 0 /\ rx = <<>> /\ tx = <<>> /\ due = <<>>
         /\ lost = FALSE /\ full = FALSE
LEMMA EtFresh == Blank => EtInv
<1>1. SUFFICES ASSUME Blank PROVE EtInv
  OBVIOUS
<1>2. EtTypes
  <2>1. /\ <<>> \in Seq(Nat) /\ <<>> \in Seq(Frames) /\ 0 \in Nat /\ FALSE \in BOOLEAN
        /\ Len(<<>>) <= TxDepth
    BY EtEncode
  <2> QED BY <1>1, <2>1, Zenon DEF Blank, EtTypes
<1>3. Receives
  BY <1>1 DEF Blank, Receives, Between
<1>4. Sends
  <2>1. Begun = 0
    BY <1>1 DEF Blank, Begun
  <2>2. Et!Encoded(Sent(0)) \o SubSeq(Stream, 1, 0) = <<>>
    BY SentBytes, SubSeqEmpty, ConcatEmptySeq
  <2>3. tx = Et!Encoded(Sent(0)) \o SubSeq(Stream, 1, Begun)
    BY <1>1, <2>1, <2>2, Zenon DEF Blank
  <2> QED BY <1>1, <2>3 DEF Blank, Sends
<1> QED BY <1>2, <1>3, <1>4 DEF EtInv

LEMMA EtAgain == Blank' => EtInv'
BY EtFresh, PTL

\* The programs are different ones.
LEMMA ProgramsDiffer ==
    /\ Image(Blinky) # Image(EthTest)
    /\ Image(EthTest) # Image(LwipTest)
    /\ Image(LwipTest) # Image(Blinky)
<1>1. PICK w \in Words : TRUE
  BY ProgramsAssumption
<1>2. \A v : Image(v)[w] = v
  BY <1>1 DEF Image
<1> QED BY <1>2, ProgramsAssumption

\* What the program's variables are is kept by a step that leaves them and the processor.
LEMMA FramesStay ==
    ASSUME FramesInv, UNCHANGED <<rst_cpu_r, boot>>,
           UNCHANGED <<pc, i, Count, gRxBuf, rx, tx, due, lost, full>>
    PROVE  FramesInv'
<1>1. EtTypes => EtTypes'
  BY DEF EtTypes
<1>2. Receives => Receives'
  BY DEF Receives, Between, AtFrame, Stands
<1>3. Sends => Sends'
  BY DEF Sends, Begun
<1> QED BY <1>1, <1>2, <1>3 DEF FramesInv, EtInv

\* Every step of the board keeps it.
LEMMA FramesStep ==
    ASSUME FramesInv, [Board]_<<vars, fw>> PROVE FramesInv'
<1>1. CASE UNCHANGED <<vars, fw>>
  BY <1>1, FramesStay DEF fw, progvars, vars, chip
<1>2. CASE Cycle
  <2>1. rst_cpu_r' \in BOOLEAN /\ boot' = IF rst_cpu_r THEN ram ELSE boot
    BY <1>2, Zenon DEF Cycle, Clock, CpuHeld
  <2>2. CASE rst_cpu_r'
    BY <1>2, <2>1, <2>2, EtAgain DEF Cycle, Forget, Blank, FramesInv
  <2>3. CASE ~rst_cpu_r'
    <3>1. UNCHANGED progvars
      BY <1>2, <2>3 DEF Cycle
    <3>2. boot' = Image(EthTest) => EtInv
      BY <2>1 DEF FramesInv
    <3>3. EtInv => EtInv'
      BY <3>1 DEF progvars, EtInv, EtTypes, Receives, Between, AtFrame, Stands, Sends, Begun
    <3> QED BY <2>1, <2>3, <3>2, <3>3 DEF FramesInv, Image
  <2> QED BY <2>2, <2>3
<1>3. CASE HostStep
  <2>1. UNCHANGED chip
    BY <1>3 DEF HostStep, Stop, Start, StartLoad, WriteWord, Command
  <2>2. UNCHANGED progvars
    BY <1>3 DEF HostStep, Loaded, fw
  <2> QED BY <2>1, <2>2, FramesStay DEF chip, progvars
<1>4. CASE (RunBlinky \/ RunLoop \/ RunPoll) /\ UNCHANGED vars
  <2>1. ~rst_cpu_r /\ (boot = Image(Blinky) \/ boot = Image(LwipTest))
    BY <1>4 DEF RunBlinky, RunLoop, RunPoll, Runs
  <2>2. UNCHANGED <<rst_cpu_r, boot>>
    BY <1>4 DEF vars, chip
  <2> QED BY <2>1, <2>2, ProgramsDiffer DEF FramesInv, Image
<1>5. CASE (RunEthTest \/ Wire) /\ UNCHANGED vars
  <2>1. /\ ~rst_cpu_r /\ boot = Image(EthTest) /\ UNCHANGED <<rst_cpu_r, boot>>
        /\ Et!Test \/ Et!Wire
    BY <1>5 DEF RunEthTest, Wire, Runs, vars, chip
  <2>2. EtInv
    BY <2>1 DEF FramesInv
  <2>3. EtInv'
    BY <2>1, <2>2, EtArrive, EtMacSends, EtClear, EtNoFrame, EtHigh, EtLow, EtRead, EtReport,
       EtSend, EtOther DEF Et!Test, Et!Wire
  <2> QED BY <2>1, <2>3 DEF FramesInv
<1>6. CASE (PushButton \/ Plug) /\ UNCHANGED vars
  BY <1>6, FramesStay DEF PushButton, Plug, progvars, vars, chip
<1> QED BY <1>1, <1>2, <1>3, <1>4, <1>5, <1>6 DEF Board

\* Whenever eth_test looks for a frame it finds whole ones, what it prints is the frame that
\* came first, and until the transmit FIFO is full once it leaves whole frames there
\* (eth_test/main.c 64, 97-130, 176-191): for all frames, lengths it refuses among them, every
\* test frame and depth of the FIFOs, half a frame left by the program before, and wherever
\* the host stops the processor and loads another program.
THEOREM TestFramesWhole == BoardSpec => []FramesWhole
<1>1. BoardInit => FramesInv
  BY EtFresh DEF BoardInit, Init, ProgramInit, Et!FramesInit, Blank, FramesInv
<1>2. FramesInv => FramesWhole
  <2>1. SUFFICES ASSUME FramesInv, Runs(EthTest) PROVE Et!FramesWhole
    BY DEF FramesWhole
  <2>2. EtInv
    BY <2>1 DEF FramesInv, Runs
  <2>3. pc = "frames" /\ ~lost => rx = Et!Encoded(due)
    BY <2>2 DEF EtInv, Receives, Between
  <2>4. pc = "read" /\ i = Count /\ ~lost => due # <<>> /\ gRxBuf = Head(due)
    BY <2>2, EtWhole
  <2>5. ASSUME pc # "send", ~full
        PROVE  \E n \in 0 .. TxDepth : tx = Et!Encoded([k \in 1 .. n |-> TestFrame])
    <3>1. PICK n \in Nat : tx = Et!Encoded(Sent(n)) /\ n <= Len(tx)
      BY <2>2, <2>5, WholeSent
    <3>2. n \in 0 .. TxDepth
      BY <2>2, <3>1, EtEncode, LenProperties DEF EtInv, EtTypes
    <3> QED BY <3>1, <3>2 DEF Sent
  <2> QED BY <2>3, <2>4, <2>5 DEF Et!FramesWhole
<1> QED BY <1>1, <1>2, FramesStep, PTL DEF BoardSpec

-----------------------------------------------------------------------------
(* The telnet buffer.                                                      *)
(* The byte a fold stores last is the one with the largest number, and     *)
(* Text starts at the first byte with what it makes of those behind: both  *)
(* are functions that exist by induction, forwards and backwards.  The     *)
(* buffer and what was typed are then compared byte by byte.               *)

\* What FoldLeft computes on the way: the buffer after the bytes of t numbered in s.
Filled(h, buf, t, s) == IF s = {} THEN buf ELSE Lw!Store(h[s \ {Max(s)}], t[Max(s)])
Fills(h, buf, t, n) == h = [s \in SUBSET (1 .. n) |-> Filled(h, buf, t, s)]

\* There is such a function.
LEMMA FillDefined ==
    ASSUME NEW buf, NEW t, NEW n \in Nat
    PROVE  \E h : Fills(h, buf, t, n)
<1> DEFINE N == {m \in Nat : \E h : Fills(h, buf, t, m)}
<1>1. 0 \in N
  <2> DEFINE h == [s \in SUBSET (1 .. 0) |-> buf]
  <2>1. \A s \in SUBSET (1 .. 0) : Filled(h, buf, t, s) = buf
    BY DEF Filled
  <2>2. h = [s \in SUBSET (1 .. 0) |-> h[s]]
    OBVIOUS
  <2>3. \A s \in SUBSET (1 .. 0) : h[s] = Filled(h, buf, t, s)
    BY <2>1
  <2> HIDE DEF h
  <2>4. Fills(h, buf, t, 0)
    BY <2>2, <2>3 DEF Fills
  <2> QED BY <2>4
<1>2. ASSUME NEW m \in Nat, m \in N PROVE m + 1 \in N
  <2>1. PICK g : Fills(g, buf, t, m)
    BY <1>2
  <2>2. \A s \in SUBSET (1 .. m) : g[s] = Filled(g, buf, t, s)
    BY <2>1 DEF Fills
  <2> DEFINE last == m + 1
             h == [s \in SUBSET (1 .. last) |->
                     IF last \in s THEN Lw!Store(g[s \ {last}], t[last]) ELSE g[s]]
  <2>3. \A s \in SUBSET (1 .. m) : h[s] = g[s]
    OBVIOUS
  <2>4. h = [s \in SUBSET (1 .. last) |-> h[s]]
    OBVIOUS
  <2>5. \A s \in SUBSET (1 .. last) : last \in s => h[s] = Lw!Store(g[s \ {last}], t[last])
    OBVIOUS
  <2> HIDE DEF h
  <2>6. ASSUME NEW s \in SUBSET (1 .. last) PROVE h[s] = Filled(h, buf, t, s)
    <3>1. CASE last \in s
      <4>1. Max(s) = last
        <5>1. s \subseteq Nat /\ \A x \in s : x <= last
          OBVIOUS
        <5> QED BY <3>1, <5>1, MaxIs, Zenon
      <4>2. s \ {last} \in SUBSET (1 .. m) /\ s # {}
        BY <3>1
      <4>3. h[s] = Lw!Store(h[s \ {last}], t[last])
        BY <2>3, <2>5, <3>1, <4>2, Zenon
      <4> QED BY <4>1, <4>2, <4>3, Zenon DEF Filled
    <3>2. CASE last \notin s
      <4>1. s \in SUBSET (1 .. m) /\ s \ {Max(s)} \in SUBSET (1 .. m)
        <5>1. \A k \in 1 .. last : k # last => k \in 1 .. m
          OBVIOUS
        <5> HIDE DEF last
        <5> QED BY <3>2, <5>1, Zenon
      <4>2. h[s] = g[s] /\ h[s \ {Max(s)}] = g[s \ {Max(s)}]
        BY <2>3, <4>1, Zenon
      <4> QED BY <2>2, <4>1, <4>2, Zenon DEF Filled
    <3> QED BY <3>1, <3>2
  <2>7. Fills(h, buf, t, last)
    BY <2>4, <2>6 DEF Fills
  <2> QED BY <2>7
<1> HIDE DEF N
<1>3. n \in N
  BY <1>1, <1>2, SetInduction
<1> QED BY <1>3 DEF N

\* The fold is the last value of it.
LEMMA FoldIs ==
    ASSUME NEW R, NEW buf, NEW t \in Seq(R)
    PROVE  \E h : Fills(h, buf, t, Len(t)) /\ Lw!FoldLeft(Lw!Store, buf, t) = h[1 .. Len(t)]
<1>1. Len(t) \in Nat /\ DOMAIN t = 1 .. Len(t)
  BY LenProperties
<1> DEFINE Is(h) == h = [s \in SUBSET (DOMAIN t) |-> Filled(h, buf, t, s)]
<1>2. \E h : Is(h)
  <2>1. PICK h : Fills(h, buf, t, Len(t))
    BY <1>1, FillDefined
  <2> QED BY <1>1, <2>1, Zenon DEF Fills
<1>3. Lw!FoldLeft(Lw!Store, buf, t) = (CHOOSE h : Is(h))[DOMAIN t]
  BY DEF Lw!FoldLeft, Lw!MapThenFoldSet, Filled, Lw!Max, Max
<1> QED BY <1>1, <1>2, <1>3 DEF Fills

\* The buffer with k bytes of t behind what it had, as far as there is room.
Smaller(m, n) == IF m < n THEN m ELSE n
FilledUp(R, out, buf, t, k) ==
    /\ out \in Seq(R)
    /\ Len(out) = Smaller(Len(buf) + k, Room - 1)
    /\ \A j \in 1 .. Len(out) : out[j] = IF j <= Len(buf) THEN buf[j] ELSE t[j - Len(buf)]

\* One byte more.
LEMMA StoreOne ==
    ASSUME NEW R, NEW out, NEW buf \in Seq(R), NEW t \in Seq(R), NEW k \in Nat,
           FilledUp(R, out, buf, t, k), k + 1 \in 1 .. Len(t)
    PROVE  FilledUp(R, Lw!Store(out, t[k + 1]), buf, t, k + 1)
<1> DEFINE new == Lw!Store(out, t[k + 1])
<1>1. /\ Len(buf) \in Nat /\ Len(out) \in Nat /\ Room \in Nat \ {0}
      /\ out \in Seq(R) /\ t[k + 1] \in R
  BY LenProperties, ElementOfSeq, WindowAssumption DEF FilledUp
<1>2. CASE Len(out) < Room - 1
  <2>1. Len(out) = Len(buf) + k
    BY <1>1, <1>2 DEF FilledUp, Smaller
  <2>2. new = Append(out, t[k + 1])
    BY <1>2 DEF Lw!Store
  <2>3. /\ new \in Seq(R) /\ Len(new) = Len(out) + 1 /\ new[Len(out) + 1] = t[k + 1]
        /\ \A j \in 1 .. Len(out) : new[j] = out[j]
    BY <1>1, <2>2, AppendProperties
  <2> HIDE DEF new
  <2>4. Len(new) = Smaller(Len(buf) + (k + 1), Room - 1)
    BY <1>1, <1>2, <2>1, <2>3 DEF Smaller
  <2>5. ASSUME NEW j \in 1 .. Len(new)
        PROVE  new[j] = IF j <= Len(buf) THEN buf[j] ELSE t[j - Len(buf)]
    <3>1. CASE j = Len(out) + 1
      <4>1. ~(j <= Len(buf)) /\ j - Len(buf) = k + 1
        BY <1>1, <2>1, <3>1
      <4> QED BY <2>3, <3>1, <4>1
    <3>2. CASE j # Len(out) + 1
      <4>1. j \in 1 .. Len(out)
        BY <1>1, <2>3, <3>2
      <4> QED BY <2>3, <4>1 DEF FilledUp
    <3> QED BY <3>1, <3>2
  <2> QED BY <2>3, <2>4, <2>5, Zenon DEF FilledUp, new
<1>3. CASE ~(Len(out) < Room - 1)
  <2>1. new = out
    BY <1>3 DEF Lw!Store
  <2>2. Smaller(Len(buf) + (k + 1), Room - 1) = Smaller(Len(buf) + k, Room - 1)
    BY <1>1, <1>3 DEF FilledUp, Smaller
  <2> QED BY <2>1, <2>2, Zenon DEF FilledUp
<1> QED BY <1>2, <1>3

\* What TcpRecv makes of the buffer.
LEMMA StoreAll ==
    ASSUME NEW R, NEW buf \in Seq(R), NEW t \in Seq(R), Len(buf) <= Room - 1
    PROVE  FilledUp(R, Lw!FoldLeft(Lw!Store, buf, t), buf, t, Len(t))
<1>1. Len(t) \in Nat /\ Len(buf) \in Nat /\ Room \in Nat \ {0}
  BY LenProperties, WindowAssumption
<1>2. PICK h : Fills(h, buf, t, Len(t)) /\ Lw!FoldLeft(Lw!Store, buf, t) = h[1 .. Len(t)]
  BY FoldIs
<1>3. \A s \in SUBSET (1 .. Len(t)) : h[s] = Filled(h, buf, t, s)
  BY <1>2 DEF Fills
<1> DEFINE N == {k \in Nat : k <= Len(t) => FilledUp(R, h[1 .. k], buf, t, k)}
<1>4. 0 \in N
  <2>1. 1 .. 0 = {} /\ {} \in SUBSET (1 .. Len(t))
    OBVIOUS
  <2>2. h[1 .. 0] = buf
    BY <1>3, <2>1, Zenon DEF Filled
  <2>3. Len(buf) = Smaller(Len(buf) + 0, Room - 1)
    BY <1>1 DEF Smaller
  <2>4. \A j \in 1 .. Len(buf) : j <= Len(buf)
    BY <1>1
  <2>5. FilledUp(R, buf, buf, t, 0)
    BY <2>3, <2>4, Zenon DEF FilledUp
  <2> QED BY <2>2, <2>5
<1>5. ASSUME NEW k \in Nat, k \in N PROVE k + 1 \in N
  <2>1. SUFFICES ASSUME k + 1 <= Len(t) PROVE FilledUp(R, h[1 .. k + 1], buf, t, k + 1)
    OBVIOUS
  <2>2. k <= Len(t) /\ k + 1 \in 1 .. Len(t)
    BY <1>1, <2>1
  <2>3. FilledUp(R, h[1 .. k], buf, t, k)
    BY <1>5, <2>2
  <2> DEFINE s == 1 .. k + 1
  <2>4. /\ s \in SUBSET (1 .. Len(t)) /\ s # {} /\ s \ {k + 1} = 1 .. k
        /\ k + 1 \in s /\ s \subseteq Nat /\ \A x \in s : x <= k + 1
    <3>1. s \subseteq 1 .. Len(t)
      BY <1>1, <2>2
    <3>2. s \ {k + 1} = 1 .. k
      OBVIOUS
    <3>3. k + 1 \in s /\ s \subseteq Nat /\ \A x \in s : x <= k + 1
      OBVIOUS
    <3> HIDE DEF s
    <3> QED BY <3>1, <3>2, <3>3
  <2> HIDE DEF s
  <2>5. Max(s) = k + 1
    BY <2>4, MaxIs, Zenon
  <2>6. h[s] = Lw!Store(h[1 .. k], t[k + 1])
    BY <1>3, <2>4, <2>5, Zenon DEF Filled
  <2>7. FilledUp(R, h[s], buf, t, k + 1)
    BY <2>2, <2>3, <2>6, StoreOne, Zenon
  <2> QED BY <2>7 DEF s
<1> HIDE DEF N
<1>6. Len(t) \in N
  BY <1>1, <1>4, <1>5, SetInduction
<1> QED BY <1>1, <1>2, <1>6 DEF N

\* What Text computes on the way: the text from the k-th byte on.
From(g, buf, k) == IF k > Len(buf) THEN <<>>
                   ELSE IF buf[k] = "iac" THEN g[k + 3] ELSE <<buf[k]>> \o g[k + 1]

\* There is such a function.
LEMMA FromDefined ==
    ASSUME NEW buf, Len(buf) \in Nat, NEW n \in Nat
    PROVE  \E g : g = [k \in (Len(buf) + 4) - n .. Len(buf) + 3 |-> From(g, buf, k)]
<1> DEFINE end == Len(buf) + 3
           Is(g, m) == g = [k \in (end + 1) - m .. end |-> From(g, buf, k)]
           N == {m \in Nat : \E g : Is(g, m)}
<1>1. 0 \in N
  <2>1. (end + 1) - 0 .. end = {}
    OBVIOUS
  <2> DEFINE g == [k \in {} |-> buf]
  <2>2. Is(g, 0)
    BY <2>1
  <2> QED BY <2>2
<1>2. ASSUME NEW m \in Nat, m \in N PROVE m + 1 \in N
  <2>1. PICK g : Is(g, m)
    BY <1>2
  <2> DEFINE first == (end + 1) - (m + 1)
             h == [k \in first .. end |-> IF k = first THEN From(g, buf, k) ELSE g[k]]
  <2>2. ASSUME NEW k \in first .. end PROVE h[k] = From(g, buf, k)
    BY <2>1
  <2>3. ASSUME NEW k \in first .. end PROVE From(h, buf, k) = From(g, buf, k)
    <3>1. CASE k > Len(buf)
      BY <3>1 DEF From
    <3>2. CASE ~(k > Len(buf))
      <4>1. k + 1 \in first .. end /\ k + 3 \in first .. end /\ k + 1 # first /\ k + 3 # first
        BY <3>2
      <4>2. h[k + 1] = g[k + 1] /\ h[k + 3] = g[k + 3]
        BY <4>1
      <4> HIDE DEF h, first
      <4> QED BY <3>2, <4>2 DEF From
    <3> QED BY <3>1, <3>2
  <2>4. h = [k \in first .. end |-> h[k]]
    OBVIOUS
  <2> HIDE DEF h
  <2>5. h = [k \in first .. end |-> From(h, buf, k)]
    BY <2>2, <2>3, <2>4
  <2> QED BY <2>5
<1> HIDE DEF N
<1>3. n \in N
  BY <1>1, <1>2, SetInduction
<1>4. end + 1 = Len(buf) + 4
  OBVIOUS
<1> QED BY <1>3, <1>4 DEF N

\* The text of some bytes is made of them.
LEMMA TextType ==
    ASSUME NEW R, NEW buf \in Seq(R) PROVE Lw!Text(buf) \in Seq(R)
<1>1. Len(buf) \in Nat /\ \A k \in 1 .. Len(buf) : buf[k] \in R
  BY LenProperties, ElementOfSeq
<1> DEFINE Is(g) == g = [k \in 1 .. Len(buf) + 3 |-> From(g, buf, k)]
<1>2. \E g : Is(g)
  <2>1. PICK n \in Nat : n = Len(buf) + 3
    BY <1>1
  <2>2. (Len(buf) + 4) - n = 1
    BY <1>1, <2>1
  <2>3. PICK g : g = [k \in (Len(buf) + 4) - n .. Len(buf) + 3 |-> From(g, buf, k)]
    BY <1>1, FromDefined
  <2> QED BY <2>2, <2>3
<1>3. Lw!Text(buf) = (CHOOSE g : Is(g))[1]
  BY DEF Lw!Text, From
<1>4. PICK g : Is(g) /\ Lw!Text(buf) = g[1]
  BY <1>2, <1>3
<1> DEFINE N == {m \in Nat : \A k \in 1 .. Len(buf) + 3 : (Len(buf) + 4) - m <= k => g[k] \in Seq(R)}
<1>5. 0 \in N
  BY <1>1
<1>6. ASSUME NEW m \in Nat, m \in N PROVE m + 1 \in N
  <2>1. SUFFICES ASSUME NEW k \in 1 .. Len(buf) + 3, (Len(buf) + 4) - (m + 1) <= k
                 PROVE  g[k] \in Seq(R)
    OBVIOUS
  <2>2. g[k] = From(g, buf, k)
    BY <1>4
  <2>3. CASE k > Len(buf)
    BY <2>2, <2>3, EmptySeq DEF From
  <2>4. CASE ~(k > Len(buf))
    <3>1. /\ k + 1 \in 1 .. Len(buf) + 3 /\ (Len(buf) + 4) - m <= k + 1
          /\ k + 3 \in 1 .. Len(buf) + 3 /\ (Len(buf) + 4) - m <= k + 3
          /\ k \in 1 .. Len(buf)
      BY <1>1, <2>1, <2>4
    <3>2. g[k + 1] \in Seq(R) /\ g[k + 3] \in Seq(R) /\ <<buf[k]>> \in Seq(R)
      BY <1>1, <1>6, <3>1
    <3>3. <<buf[k]>> \o g[k + 1] \in Seq(R)
      BY <3>2, ConcatProperties
    <3> QED BY <2>2, <2>4, <3>2, <3>3, Zenon DEF From
  <2> QED BY <2>3, <2>4
<1> HIDE DEF N, Is
<1>7. Len(buf) + 3 \in N
  BY <1>1, <1>5, <1>6, SetInduction
<1>8. 1 \in 1 .. Len(buf) + 3 /\ (Len(buf) + 4) - (Len(buf) + 3) <= 1
  BY <1>1
<1> QED BY <1>4, <1>7, <1>8 DEF N

\* What a telnet byte is, and what the buffer has.
Byte == {"char", "cr", "iac"}

Shared == /\ gRxBuf \in Seq(Byte \cup {"frame"}) /\ typed \in Seq(Byte) /\ Len(typed) <= Room
          /\ spoilt \in 0 .. Len(gRxBuf)
          /\ Lw!SharedBuffer /\ Lw!LineEndWaits

\* In reset, and while the image of lwip_test was booted.
SharedInv == /\ rst_cpu_r \in BOOLEAN
             /\ rst_cpu_r \/ boot = Image(LwipTest) => Shared

\* Nothing was typed yet, or all was handed over.
Empty == gRxBuf = <<>> /\ typed = <<>> /\ spoilt = 0 /\ gSendRxBuf = FALSE
LEMMA SharedFresh == Empty => Shared
<1>1. SUFFICES ASSUME Empty PROVE Shared
  OBVIOUS
<1>2. Len(gRxBuf) = 0 /\ Len(typed) = 0 /\ DOMAIN gRxBuf = {} /\ Room \in Nat \ {0}
  BY <1>1, WindowAssumption DEF Empty
<1>3. gRxBuf \in Seq(Byte \cup {"frame"}) /\ typed \in Seq(Byte)
  BY <1>1 DEF Empty
<1>4. Lw!LineEndWaits
  BY <1>1, <1>2 DEF Empty, Lw!LineEndWaits, Lw!Contains
<1> QED BY <1>1, <1>2, <1>3, <1>4 DEF Empty, Shared, Lw!SharedBuffer

LEMMA SharedAgain == Empty' => Shared'
BY SharedFresh, PTL

LEMMA SharedStays ==
    ASSUME Shared, UNCHANGED <<gRxBuf, typed, spoilt, gSendRxBuf>> PROVE Shared'
BY DEF Shared, Lw!SharedBuffer, Lw!LineEndWaits

\* A line comes in.
LEMMA RecvShares ==
    ASSUME Shared, NEW c \in Conns, Lw!TcpRecv(c) PROVE Shared'
<1>1. PICK buf \in Bufs :
        /\ gRxBuf' = Lw!FoldLeft(Lw!Store, gRxBuf, Lw!Text(buf))
        /\ LET all == typed \o Lw!Text(buf)
           IN  typed' = SubSeq(all, 1, IF Len(all) < Room THEN Len(all) ELSE Room)
        /\ spoilt' = spoilt
        /\ gSendRxBuf' = (gSendRxBuf \/ Lw!Contains(Lw!Text(buf), "cr"))
  BY DEF Lw!TcpRecv
<1> DEFINE t == Lw!Text(buf)
           all == typed \o t
           end == IF Len(all) < Room THEN Len(all) ELSE Room
           A == Byte \cup {"frame"}
<1>2. t \in Seq(Byte) /\ t \in Seq(A)
  <2>1. buf \in Seq(Byte)
    BY WindowAssumption DEF Byte
  <2>2. t \in Seq(Byte)
    BY <2>1, TextType
  <2> HIDE DEF t
  <2> QED BY <2>2
<1> HIDE DEF t
<1>3. /\ gRxBuf \in Seq(A) /\ typed \in Seq(Byte) /\ Room \in Nat \ {0}
      /\ Len(gRxBuf) \in Nat /\ Len(typed) \in Nat /\ Len(t) \in Nat
      /\ Len(typed) <= Room /\ spoilt \in 0 .. Len(gRxBuf) /\ DOMAIN gRxBuf = 1 .. Len(gRxBuf)
      /\ Len(gRxBuf) = IF Len(typed) < Room THEN Len(typed) ELSE Room - 1
  BY <1>2, LenProperties, WindowAssumption DEF Shared, Lw!SharedBuffer
<1>4. Len(gRxBuf) <= Room - 1
  BY <1>3
<1>5. FilledUp(A, gRxBuf', gRxBuf, t, Len(t))
  <2>1. gRxBuf' = Lw!FoldLeft(Lw!Store, gRxBuf, t)
    BY <1>1 DEF t
  <2> HIDE DEF A
  <2>2. FilledUp(A, Lw!FoldLeft(Lw!Store, gRxBuf, t), gRxBuf, t, Len(t))
    BY <1>2, <1>3, <1>4, StoreAll, Zenon
  <2> QED BY <2>1, <2>2
<1>6. /\ all \in Seq(Byte) /\ Len(all) = Len(typed) + Len(t)
      /\ \A k \in 1 .. Len(all) : all[k] = IF k <= Len(typed) THEN typed[k] ELSE t[k - Len(typed)]
  BY <1>2, <1>3, ConcatProperties
<1>7. typed' = SubSeq(all, 1, end)
  BY <1>1 DEF t
<1> HIDE DEF all
<1>8. end \in Nat /\ end <= Len(all) /\ end <= Room
  BY <1>3, <1>6
<1>9. typed' \in Seq(Byte) /\ Len(typed') = end /\ \A k \in 1 .. end : typed'[k] = all[k]
  <2> HIDE DEF end
  <2>1. \A k \in 1 .. end : all[k] \in Byte
    BY <1>6, <1>8, ElementOfSeq
  <2> QED BY <1>6, <1>7, <1>8, <2>1, SubSeqProperties
<1>10. gRxBuf' \in Seq(A) /\ DOMAIN gRxBuf' = 1 .. Len(gRxBuf') /\ Len(gRxBuf') \in Nat
  BY <1>5, LenProperties DEF FilledUp
<1>11. Len(gRxBuf') = IF Len(typed') < Room THEN Len(typed') ELSE Room - 1
  <2>1. Len(gRxBuf') = IF Len(gRxBuf) + Len(t) < Room - 1 THEN Len(gRxBuf) + Len(t) ELSE Room - 1
    BY <1>5 DEF FilledUp, Smaller
  <2> QED BY <1>3, <1>6, <1>9, <2>1
<1>12. ASSUME NEW k \in DOMAIN gRxBuf'
       PROVE  gRxBuf'[k] = IF k <= spoilt' THEN "frame" ELSE typed'[k]
  <2>1. gRxBuf'[k] = IF k <= Len(gRxBuf) THEN gRxBuf[k] ELSE t[k - Len(gRxBuf)]
    BY <1>5, <1>10, <1>12 DEF FilledUp
  <2>2. k \in 1 .. end /\ k <= Len(all)
    BY <1>3, <1>6, <1>8, <1>9, <1>10, <1>11, <1>12
  <2>3. typed'[k] = IF k <= Len(typed) THEN typed[k] ELSE t[k - Len(typed)]
    <3>1. k \in 1 .. Len(all)
      BY <1>6, <2>2
    <3> QED BY <1>6, <1>9, <2>2, <3>1, Zenon
  <2>4. CASE k <= Len(gRxBuf)
    <3>1. k \in DOMAIN gRxBuf /\ k <= Len(typed)
      BY <1>3, <2>2, <2>4
    <3>2. gRxBuf[k] = IF k <= spoilt THEN "frame" ELSE typed[k]
      BY <3>1 DEF Shared, Lw!SharedBuffer
    <3> QED BY <1>1, <2>1, <2>3, <2>4, <3>1, <3>2
  <2>5. CASE ~(k <= Len(gRxBuf))
    <3>1. Len(typed) = Len(gRxBuf) /\ ~(k <= spoilt')
      <4>1. Len(gRxBuf) < Room - 1
        BY <1>3, <1>9, <1>10, <1>11, <2>2, <2>5
      <4> QED BY <1>1, <1>3, <2>2, <2>5, <4>1
    <3> QED BY <2>1, <2>3, <2>5, <3>1
  <2> QED BY <2>4, <2>5
<1>13. spoilt' \in 0 .. Len(gRxBuf')
  <2>1. Len(gRxBuf) <= Len(gRxBuf')
    BY <1>2, <1>3, <1>5 DEF FilledUp, Smaller
  <2> QED BY <1>1, <1>3, <1>10, <2>1
<1>14. Len(typed') <= Room
  BY <1>8, <1>9
<1>15. gSendRxBuf' <=> gSendRxBuf \/ Lw!Contains(t, "cr")
  BY <1>1 DEF t
<1>16. ASSUME Lw!Contains(typed', "cr") PROVE gSendRxBuf'
  <2>1. PICK k \in 1 .. end : all[k] = "cr"
    BY <1>9, <1>16 DEF Lw!Contains
  <2>2. k \in 1 .. Len(all)
    BY <1>6, <1>8
  <2>3. CASE k <= Len(typed)
    <3>1. typed[k] = "cr" /\ k \in 1 .. Len(typed)
      BY <1>3, <1>6, <2>1, <2>2, <2>3
    <3>2. gSendRxBuf
      BY <3>1 DEF Shared, Lw!LineEndWaits, Lw!Contains
    <3> QED BY <1>15, <3>2
  <2>4. CASE ~(k <= Len(typed))
    <3>1. t[k - Len(typed)] = "cr" /\ k - Len(typed) \in 1 .. Len(t)
      BY <1>3, <1>6, <2>1, <2>2, <2>4
    <3> QED BY <1>15, <3>1 DEF Lw!Contains
  <2> QED BY <2>3, <2>4
<1>17. ASSUME NEW k \in 1 .. Len(all), all[k] = "cr"
       PROVE  Lw!Contains(typed', "cr") \/ Len(typed') = Room
  <2>1. CASE k <= end
    <3>1. k \in 1 .. Len(typed') /\ typed'[k] = "cr"
      BY <1>8, <1>9, <1>17, <2>1
    <3> QED BY <3>1 DEF Lw!Contains
  <2>2. CASE ~(k <= end)
    BY <1>3, <1>6, <1>9, <1>17, <2>2
  <2> QED BY <2>1, <2>2
<1>18. ASSUME gSendRxBuf' PROVE Lw!Contains(typed', "cr") \/ Len(typed') = Room
  <2>1. CASE Lw!Contains(typed, "cr")
    <3>1. PICK k \in 1 .. Len(typed) : typed[k] = "cr"
      BY <2>1 DEF Lw!Contains
    <3>2. k \in 1 .. Len(all) /\ all[k] = "cr"
      BY <1>3, <1>6, <3>1
    <3> QED BY <1>17, <3>2
  <2>2. CASE Lw!Contains(t, "cr")
    <3>1. PICK k \in 1 .. Len(t) : t[k] = "cr"
      BY <2>2 DEF Lw!Contains
    <3>2. /\ Len(typed) + k \in 1 .. Len(all)
          /\ ~(Len(typed) + k <= Len(typed)) /\ (Len(typed) + k) - Len(typed) = k
      BY <1>3, <1>6, <3>1
    <3>3. all[Len(typed) + k] = "cr"
      BY <1>6, <3>1, <3>2
    <3> QED BY <1>17, <3>2, <3>3
  <2>3. CASE Len(typed) = Room
    BY <1>3, <1>6, <1>9, <2>3
  <2> QED BY <1>15, <1>18, <2>1, <2>2, <2>3 DEF Shared, Lw!LineEndWaits
<1> HIDE DEF end
<1>19. Lw!LineEndWaits'
  BY <1>16, <1>18 DEF Lw!LineEndWaits
<1> QED BY <1>9, <1>10, <1>11, <1>12, <1>13, <1>14, <1>19 DEF Shared, Lw!SharedBuffer

\* ClearRxFifo writes over the first bytes.
LEMMA ScribbleShares ==
    ASSUME Shared, Lw!Scribble PROVE Shared'
<1>1. PICK n \in 1 .. Len(gRxBuf) :
        /\ gRxBuf' = [k \in DOMAIN gRxBuf |-> IF k <= n THEN "frame" ELSE gRxBuf[k]]
        /\ spoilt' = IF n > spoilt THEN n ELSE spoilt
        /\ typed' = typed /\ gSendRxBuf' = gSendRxBuf
  BY DEF Lw!Scribble
<1>2. /\ Len(gRxBuf) \in Nat /\ DOMAIN gRxBuf = 1 .. Len(gRxBuf)
      /\ \A k \in 1 .. Len(gRxBuf) : gRxBuf[k] \in Byte \cup {"frame"}
  BY LenProperties, ElementOfSeq DEF Shared
<1>3. gRxBuf' \in Seq(Byte \cup {"frame"}) /\ Len(gRxBuf') = Len(gRxBuf)
  BY <1>1, <1>2
<1>4. \A k \in DOMAIN gRxBuf' : gRxBuf'[k] = IF k <= spoilt' THEN "frame" ELSE typed'[k]
  BY <1>1, <1>2 DEF Shared, Lw!SharedBuffer
<1>5. spoilt' \in 0 .. Len(gRxBuf')
  BY <1>1, <1>2, <1>3 DEF Shared
<1>6. Lw!LineEndWaits'
  BY <1>1 DEF Shared, Lw!LineEndWaits
<1> QED BY <1>1, <1>3, <1>4, <1>5, <1>6 DEF Shared, Lw!SharedBuffer

\* Every callback of lwIP.
LEMMA CallbackShares ==
    ASSUME Shared, Lw!Callback PROVE Shared'
<1>1. ASSUME NEW c \in Conns, Lw!TcpAccept(c) \/ Lw!TcpError(c) \/ Lw!Welcome(c) PROVE Shared'
  BY <1>1, SharedStays DEF Lw!TcpAccept, Lw!TcpError, Lw!Welcome
<1>2. ASSUME NEW c \in Conns, Lw!Echo(c) PROVE Shared'
  BY <1>2, SharedAgain DEF Lw!Echo, Empty
<1>3. CASE Lw!AcceptFails
  BY <1>3, SharedStays DEF Lw!AcceptFails
<1> QED BY <1>1, <1>2, <1>3, RecvShares, ScribbleShares DEF Lw!Callback, Lw!TcpPoll

\* Every step of the board keeps it.
LEMMA SharedStep ==
    ASSUME SharedInv, [Board]_<<vars, fw>> PROVE SharedInv'
<1>1. CASE UNCHANGED <<vars, fw>>
  BY <1>1, SharedStays DEF SharedInv, Image, fw, progvars, vars, chip
<1>2. CASE Cycle
  <2>1. rst_cpu_r' \in BOOLEAN /\ boot' = IF rst_cpu_r THEN ram ELSE boot
    BY <1>2, Zenon DEF Cycle, Clock, CpuHeld
  <2>2. CASE rst_cpu_r'
    <3>1. Empty'
      BY <1>2, <2>2 DEF Cycle, Forget, Empty
    <3> QED BY <2>1, <3>1, SharedAgain DEF SharedInv
  <2>3. CASE ~rst_cpu_r'
    <3>1. UNCHANGED progvars
      BY <1>2, <2>3 DEF Cycle
    <3>2. boot' = Image(LwipTest) => Shared
      BY <2>1 DEF SharedInv
    <3>3. Shared => Shared'
      BY <3>1, SharedStays DEF progvars
    <3> QED BY <2>1, <2>3, <3>2, <3>3 DEF SharedInv, Image
  <2> QED BY <2>2, <2>3
<1>3. CASE HostStep
  <2>1. UNCHANGED chip
    BY <1>3 DEF HostStep, Stop, Start, StartLoad, WriteWord, Command
  <2>2. UNCHANGED progvars
    BY <1>3 DEF HostStep, Loaded, fw
  <2> QED BY <2>1, <2>2, SharedStays DEF SharedInv, Image, chip, progvars
<1>4. CASE (RunBlinky \/ RunEthTest \/ Wire) /\ UNCHANGED vars
  <2>1. ~rst_cpu_r /\ (boot = Image(Blinky) \/ boot = Image(EthTest))
    BY <1>4 DEF RunBlinky, RunEthTest, Wire, Runs
  <2>2. UNCHANGED <<rst_cpu_r, boot>>
    BY <1>4 DEF vars, chip
  <2> QED BY <2>1, <2>2, ProgramsDiffer DEF SharedInv, Image
<1>5. CASE (RunLoop \/ RunPoll) /\ UNCHANGED vars
  <2>1. /\ ~rst_cpu_r /\ boot = Image(LwipTest) /\ UNCHANGED <<rst_cpu_r, boot>>
        /\ Lw!Loop \/ Lw!Poll
    BY <1>5 DEF RunLoop, RunPoll, Runs, vars, chip
  <2>2. Shared
    BY <2>1 DEF SharedInv
  <2>3. CASE Lw!Loop
    <3>1. UNCHANGED Lw!telnetvars
      BY <2>3 DEF Lw!Loop, Lw!Boot, Lw!Status, Lw!Sleep
    <3> QED BY <2>1, <2>2, <3>1, SharedStays DEF Lw!telnetvars, SharedInv
  <2>4. CASE Lw!Poll
    BY <2>1, <2>2, <2>4, CallbackShares DEF Lw!Poll, SharedInv
  <2> QED BY <2>1, <2>3, <2>4
<1>6. CASE (PushButton \/ Plug) /\ UNCHANGED vars
  BY <1>6, SharedStays DEF PushButton, Plug, SharedInv, Image, progvars, vars, chip
<1> QED BY <1>1, <1>2, <1>3, <1>4, <1>5, <1>6 DEF Board

\* The buffer, the flag and what was typed agree in every run of lwip_test.
LEMMA SharedAlways == BoardSpec => []SharedInv
<1>1. BoardInit => SharedInv
  BY SharedFresh DEF BoardInit, Init, ProgramInit, Lw!TelnetInit, Empty, SharedInv
<1> QED BY <1>1, SharedStep, PTL DEF BoardSpec

\* What lwip_test will hand to tcp_write is what was typed since the last time, over all connections
\* and in the order it came, cut off one byte before the end of the buffer, but for the bytes
\* ClearRxFifo has written over (lwip_test/main.c 185-190, 413-437, 468-476): for every size
\* of the buffer, every text and telnet command, and wherever the host stops the processor and
\* loads another program.
THEOREM LinesShareBuffer == BoardSpec => []SharedBuffer
<1>1. SharedInv => SharedBuffer
  BY DEF SharedInv, Shared, SharedBuffer, Runs
<1> QED BY <1>1, SharedAlways, PTL

\* An end of line typed on any connection keeps the flag up until the text goes to tcp_write,
\* and nothing else does (lwip_test/main.c 394, 428-436, 459, 468-476): for any number of
\* connections, made and lost at any time, every size of the buffer and every text.
THEOREM LinesHandedOnce == BoardSpec => []LineEndWaits
<1>1. SharedInv => LineEndWaits
  BY DEF SharedInv, Shared, LineEndWaits, Runs
<1> QED BY <1>1, SharedAlways, PTL
-----------------------------------------------------------------------------
(* The simulation: the wave file of the RTL.                               *)

\* The pointer to the wave file is set as long as the file is open; the two are undone by
\* the call of abort() under way, first the file and then the pointer, and a call that finds
\* the pointer NULL, or is past closing, finds the file closed.
Callers == {"exit", "assert", "sigint"}
Lines == {"test", "flush", "close", "null"}
Calls == [who : Callers, at : Lines]
FileInv == /\ stage \in {"main", "elab"} => ~dumped
           /\ dumped => waves
           /\ waves /\ stage \in {"elab", "sim"} => m_verilate_vcd = "ours"
           /\ waves /\ stage = "exit" =>
                /\ m_verilate_vcd \in {"ours", "null"}
                /\ m_verilate_vcd = "null" \/ Head(calls).at = "null" => vcd = "closed"
           /\ stage = "over" /\ dumped => vcd = "closed"
           /\ stage = "exit" => calls \in Seq(Calls) /\ calls # <<>>

\* A call of abort() begins with the test of the pointer.
LEMMA CallAt ==
    ASSUME NEW who \in Callers
    PROVE  /\ Call(who).at = "test" /\ Head(<<Call(who)>>) = Call(who)
           /\ <<Call(who)>> \in Seq(Calls) /\ <<Call(who)>> # <<>>
<1>1. Call(who) \in Calls /\ Call(who).at = "test"
  BY DEF Call, Calls, Lines
<1> QED BY <1>1

\* The call under way goes on.
LEMMA CallGoes ==
    ASSUME NEW next \in Lines, calls \in Seq(Calls), calls # <<>>, At(next)
    PROVE  /\ calls' \in Seq(Calls) /\ calls' # <<>> /\ Head(calls').at = next /\ stage' = stage
<1>1. /\ Len(calls) \in Nat /\ 1 \in 1 .. Len(calls) /\ DOMAIN calls = 1 .. Len(calls)
      /\ calls[1] \in Calls
  BY EmptySeq, LenProperties, ElementOfSeq
<1> DEFINE goes == [calls[1] EXCEPT !.at = next]
<1>2. goes \in Calls /\ goes.at = next
  BY <1>1 DEF Calls
<1>3. calls' = [calls EXCEPT ![1] = goes] /\ stage' = stage
  BY DEF At
<1> HIDE DEF goes
<1>4. calls' \in Seq(Calls) /\ calls'[1] = goes /\ Len(calls') = Len(calls)
  BY <1>1, <1>2, <1>3
<1>5. calls' # <<>>
  BY <1>1, <1>4
<1> QED BY <1>2, <1>3, <1>4, <1>5

\* Every step of the bench keeps what is said of the wave file.
LEMMA FileStep == ASSUME FileInv, [BenchNext]_benchvars PROVE FileInv'
<1> USE DEF main, files
<1>1. CASE UNCHANGED benchvars
  BY <1>1 DEF FileInv, benchvars
<1>2. CASE Construct
  BY <1>2 DEF FileInv, Construct
<1>3. CASE ScStart
  BY <1>3 DEF FileInv, ScStart
<1>4. CASE ScResetGen \/ Attach \/ Load \/ Reset \/ Step \/ Relay \/ Rtl
  <2>1. UNCHANGED <<stage, calls, files, main>>
    <3>1. CASE ScResetGen \/ Attach \/ Reset \/ Step
      BY <3>1, Zenon DEF ScResetGen, Attach, Reset, Step, Goes, ProcessRuns
    <3>2. CASE Load
      BY <3>2, Zenon DEF Load, Goes, ProcessRuns
    <3>3. CASE Relay
      BY <3>3, Zenon DEF Relay, Goes, ProcessRuns
    <3>4. CASE Rtl
      BY <3>4, Zenon DEF Rtl, Goes, ProcessRuns
    <3> QED BY <1>4, <3>1, <3>2, <3>3, <3>4
  <2> QED BY <2>1 DEF FileInv
<1>5. CASE TraceRtl
  BY <1>5 DEF FileInv, TraceRtl, Goes, ProcessRuns
<1>6. CASE Update \/ Tick
  BY <1>6 DEF FileInv, Update, Tick, Quiet
<1>7. ASSUME NEW who \in Callers, stage = "sim", Leave(who) PROVE FileInv'
  <2>1. /\ stage' = "exit" /\ Head(calls').at = "test" /\ UNCHANGED <<main, files>>
        /\ calls' \in Seq(Calls) /\ calls' # <<>>
    BY <1>7, CallAt DEF Leave
  <2> QED BY <1>7, <2>1 DEF FileInv
<1>8. CASE LoadFails \/ ProcessExits \/ VlFinish
  BY <1>7, <1>8 DEF Callers, LoadFails, ProcessExits, VlFinish
<1>9. CASE Sigint
  <2>1. CASE stage = "exit" /\ calls' = <<Call("sigint")>> \o calls /\ UNCHANGED <<stage, main, files, kernel>>
    <3>1. /\ Call("sigint") \in Calls /\ Call("sigint").at = "test" /\ calls \in Seq(Calls)
      BY <2>1 DEF Call, Calls, Callers, Lines, FileInv
    <3>2. calls' \in Seq(Calls) /\ calls' # <<>> /\ Head(calls') = Call("sigint")
      BY <2>1, <3>1
    <3> QED BY <2>1, <3>1, <3>2 DEF FileInv
  <2>2. CASE stage \in {"main", "elab"} /\ stage' = "over" /\ UNCHANGED <<main, calls, files, kernel>>
    BY <2>2 DEF FileInv
  <2> QED BY <1>7, <1>9, <2>1, <2>2 DEF Callers, Sigint
<1>10. CASE Abort
  <2>1. /\ stage = "exit" /\ UNCHANGED main /\ dumped' = dumped
    BY <1>10 DEF Abort
  <2>2. Return => \/ /\ stage' = "exit" /\ Head(calls').at = "test"
                     /\ calls' \in Seq(Calls) /\ calls' # <<>>
                  \/ stage' = "over"
    <3>1. /\ Head(<<Call("exit")>>).at = "test" /\ <<Call("exit")>> \in Seq(Calls)
          /\ <<Call("exit")>> # <<>>
      <4>1. "exit" \in Callers
        BY DEF Callers
      <4> QED BY <4>1, CallAt
    <3> QED BY <2>1, <3>1, Zenon DEF Return
  <2>3. ASSUME NEW next \in Lines, At(next)
        PROVE  /\ stage' = "exit" /\ Head(calls').at = next
               /\ calls' \in Seq(Calls) /\ calls' # <<>>
    BY <2>1, <2>3, CallGoes DEF FileInv
  <2>4. CASE Head(calls).at = "test" /\ m_verilate_vcd = "null" /\ Return /\ UNCHANGED <<m_verilate_vcd, vcd>>
    BY <2>1, <2>2, <2>4 DEF FileInv
  <2>5. CASE At("flush") /\ m_verilate_vcd = "ours" /\ UNCHANGED <<m_verilate_vcd, vcd>>
    BY <2>1, <2>3, <2>5 DEF Lines, FileInv
  <2>6. CASE stage' = "crash"
    BY <2>1, <2>6 DEF FileInv
  <2>7. CASE Head(calls).at = "flush" /\ At("close") /\ UNCHANGED <<m_verilate_vcd, vcd>>
    BY <2>1, <2>3, <2>7 DEF Lines, FileInv
  <2>8. CASE At("null") /\ vcd' = "closed" /\ UNCHANGED m_verilate_vcd
    BY <2>1, <2>3, <2>8 DEF Lines, FileInv
  <2>9. CASE Head(calls).at = "null" /\ Return /\ m_verilate_vcd' = "null" /\ UNCHANGED vcd
    BY <2>1, <2>2, <2>9 DEF FileInv
  <2> QED BY <1>10, <2>4, <2>5, <2>6, <2>7, <2>8, <2>9, Zenon DEF Abort
<1> QED BY <1>1, <1>2, <1>3, <1>4, <1>5, <1>6, <1>8, <1>9, <1>10 DEF BenchNext, Kernel

\* However the process ends, and wherever SIGINT arrives, a wave file with something in it
\* is closed (main.cpp 40-77, testbench_vbase.h 48-57).
THEOREM NoWaveLost == BenchSpec => []WavesClosed
<1>1. BenchInit => FileInv
  BY DEF BenchInit, FileInv
<1>2. FileInv => WavesClosed
  BY DEF FileInv, WavesClosed
<1> QED BY <1>1, <1>2, FileStep, PTL DEF BenchSpec
-----------------------------------------------------------------------------
(* The simulation: resets, clock and outputs.                              *)
(* A thread gives the reset of the circuit, another that of the processor; *)
(* together they pass four phases, and each phase travels from the threads *)
(* to the signals, from there through the relay to the inputs of the RTL   *)
(* and into the RTL.  The invariant says how far apart the places on the   *)
(* way can be and what is ready to run when they differ.                   *)

Wires == [clk : BOOLEAN, rst : BOOLEAN, rst_cpu_in : BOOLEAN,
          m_clk_in : BOOLEAN, m_rst_in : BOOLEAN, m_rst_cpu_in : BOOLEAN,
          m_in : {[i |-> ZeroLiteSlave, t |-> ZeroMaster]},
          i_pins : SUBSET LiteMasterFields, t_pins : SUBSET SlaveFields,
          axi_i_out : SUBSET LiteMasterFields, axi_t_out : SUBSET SlaveFields]
Typed == /\ cur \in Wires /\ nxt \in Wires /\ before \in Wires /\ ready \subseteq Processes
         /\ seen_clk \in BOOLEAN

\* Before the resets, the circuit in reset, the processor in reset, both out of it; where
\* the two threads are in each, and the levels of rst and rst_cpu.
Phase == 0 .. 3
Up(p) == IF p < 3 THEN p + 1 ELSE p
GenAt(p) == IF p = 0 THEN "start" ELSE IF p = 1 THEN "assert" ELSE "done"
BenchAt(p) == IF p = 0 THEN "attach" ELSE IF p = 1 THEN "main" ELSE IF p = 2 THEN "reset" ELSE "step"
Level(rst, rst_cpu, p) == (rst <=> p = 1) /\ (rst_cpu <=> p = 2)

\* What the RTL has made of the phases up to p; how far an edge has come is open.
Seen(p) == /\ p = 0 => mem = "unreset" /\ cpu = "unreset"
           /\ p = 1 => mem = "held" /\ cpu = "unreset"
           /\ p = 2 => mem \in {"held", "ready"} /\ cpu = "held"
           /\ p = 3 => (mem = "held" /\ cpu = "held") \/ (mem = "ready" /\ cpu \in {"held", "running"})

\* The phases in place: t at the last instant, e in the RTL, d at its inputs, c written by
\* the relay, b on the signals, a written by the threads.
Order(e, d, c, b, a) == e <= d /\ d <= c /\ c <= b /\ b <= a /\ a <= e + 1
Still(t, e, d, c, b) == t = e /\ e = d /\ d = c /\ c = b

Levels(t, d, c, b) == /\ Level(before.rst, before.rst_cpu_in, t)
                      /\ Level(cur.m_rst_in, cur.m_rst_cpu_in, d)
                      /\ Level(nxt.m_rst_in, nxt.m_rst_cpu_in, c)
                      /\ Level(cur.rst, cur.rst_cpu_in, b)

\* Both threads run at an edge, each goes on by one phase; p is where they were.
Idle == "reset_gen" \notin ready /\ "bench" \notin ready
Threads(p, a) == /\ nxt.rst <=> reset_gen = "assert"
                 /\ nxt.rst_cpu_in <=> bench = "reset"
                 /\ Idle => reset_gen = GenAt(a) /\ bench = BenchAt(a)
                 /\ ~Idle => /\ reset_gen = GenAt(IF "reset_gen" \in ready THEN p ELSE Up(p))
                             /\ bench = BenchAt(IF "bench" \in ready THEN p ELSE Up(p))

\* Where two places differ the process between them is to run; threads and clock go on only
\* when everything has arrived.
Handed(t, e, d, c, b, a) ==
    /\ e # d => "rtl" \in ready
    /\ c # b => "relay" \in ready
    /\ ~Idle => Still(t, e, d, c, b)
    /\ nxt.clk # cur.clk => ready = {} /\ Still(t, e, d, c, b) /\ b = a
    /\ cur.clk # nxt.m_clk_in => "relay" \in ready /\ Still(t, e, d, c, b)
    /\ nxt.m_clk_in # cur.m_clk_in => t = d /\ d = c /\ c = b
    /\ cur.m_clk_in # seen_clk => "rtl" \in ready /\ t = d

Pipeline(t, e, d, c, b, a) ==
    Order(e, d, c, b, a) /\ Levels(t, d, c, b) /\ Seen(e) /\ Threads(e, a) /\ Handed(t, e, d, c, b, a)

\* The outputs: what the relay was not asked to hand on has arrived, and from the end of an
\* instant until the wave file is written nothing moves.
Pins == /\ "relay" \notin ready => nxt.axi_i_out = cur.i_pins /\ nxt.axi_t_out = cur.t_pins
        /\ nxt.clk # cur.clk => /\ nxt.i_pins = cur.i_pins /\ nxt.t_pins = cur.t_pins
                                /\ nxt.m_clk_in = cur.m_clk_in
        /\ nxt.clk # cur.clk \/ "trace" \in ready =>
             /\ cur.m_clk_in = before.m_clk_in /\ seen_clk = before.m_clk_in
             /\ cur.i_pins = before.axi_i_out /\ cur.t_pins = before.axi_t_out

\* What the relay writes: each signal and each pin it hands on, and nothing else.
LEMMA RelayTypes ==
    ASSUME Typed, Relay
    PROVE  /\ nxt' \in Wires
           /\ nxt'.m_clk_in = cur.clk /\ nxt'.m_rst_in = cur.rst /\ nxt'.m_rst_cpu_in = cur.rst_cpu_in
           /\ nxt'.axi_i_out = cur.i_pins /\ nxt'.axi_t_out = cur.t_pins
           /\ nxt'.clk = nxt.clk /\ nxt'.rst = nxt.rst /\ nxt'.rst_cpu_in = nxt.rst_cpu_in
           /\ nxt'.i_pins = nxt.i_pins /\ nxt'.t_pins = nxt.t_pins
<1> DEFINE iout == IF LiteMastersEqual(nxt.axi_i_out, cur.i_pins) THEN nxt.axi_i_out ELSE cur.i_pins
           tout == IF SlavesEqual(nxt.axi_t_out, cur.t_pins) THEN nxt.axi_t_out ELSE cur.t_pins
<1>1. iout = cur.i_pins /\ tout = cur.t_pins
  <2>1. \A x, y \in SUBSET LiteMasterFields : LiteMastersEqual(x, y) => x = y
    BY DEF LiteMastersEqual, Same
  <2>2. \A x, y \in SUBSET SlaveFields : SlavesEqual(x, y) => x = y
    BY DEF SlavesEqual, Same
  <2>3. /\ nxt.axi_i_out \in SUBSET LiteMasterFields /\ cur.i_pins \in SUBSET LiteMasterFields
        /\ nxt.axi_t_out \in SUBSET SlaveFields /\ cur.t_pins \in SUBSET SlaveFields
    BY DEF Typed, Wires
  <2> QED BY <2>1, <2>2, <2>3, Zenon
<1>2. nxt' = [nxt EXCEPT !.m_clk_in = cur.clk, !.m_rst_in = cur.rst, !.m_rst_cpu_in = cur.rst_cpu_in,
                         !.m_in = [i |-> ZeroLiteSlave, t |-> ZeroMaster],
                         !.axi_i_out = iout, !.axi_t_out = tout]
  BY DEF Relay, axi_i_in, axi_t_in
<1> HIDE DEF iout, tout
<1> QED BY <1>1, <1>2 DEF Typed, Wires

\* What a thread leaves alone.
Beside == /\ nxt' \in Wires
          /\ nxt'.m_clk_in = nxt.m_clk_in /\ nxt'.m_rst_in = nxt.m_rst_in
          /\ nxt'.m_rst_cpu_in = nxt.m_rst_cpu_in
          /\ nxt'.axi_i_out = nxt.axi_i_out /\ nxt'.axi_t_out = nxt.axi_t_out
          /\ nxt'.clk = nxt.clk
          /\ nxt'.i_pins = nxt.i_pins /\ nxt'.t_pins = nxt.t_pins

\* A thread writes its own reset.
LEMMA GenTypes ==
    ASSUME Typed, ScResetGen
    PROVE  Beside /\ (nxt'.rst <=> reset_gen = "start") /\ nxt'.rst_cpu_in = nxt.rst_cpu_in
<1>1. PICK v \in BOOLEAN : nxt' = [nxt EXCEPT !.rst = v] /\ (v <=> reset_gen = "start")
  BY DEF ScResetGen
<1>2. nxt \in Wires
  BY DEF Typed
<1> QED BY <1>1, <1>2 DEF Wires, Beside

\* The bench does so too.
LEMMA CpuTypes ==
    ASSUME Typed, NEW v \in BOOLEAN, nxt' = [nxt EXCEPT !.rst_cpu_in = v]
    PROVE  Beside /\ nxt'.rst_cpu_in = v /\ nxt'.rst = nxt.rst
BY DEF Typed, Wires, Beside

\* The RTL writes its pins.
LEMMA RtlTypes ==
    ASSUME Typed, Rtl
    PROVE  /\ nxt' \in Wires
           /\ nxt'.m_clk_in = nxt.m_clk_in /\ nxt'.m_rst_in = nxt.m_rst_in
           /\ nxt'.m_rst_cpu_in = nxt.m_rst_cpu_in
           /\ nxt'.axi_i_out = nxt.axi_i_out /\ nxt'.axi_t_out = nxt.axi_t_out
           /\ nxt'.clk = nxt.clk /\ nxt'.rst = nxt.rst /\ nxt'.rst_cpu_in = nxt.rst_cpu_in
<1>1. PICK d \in Drives : nxt' = [nxt EXCEPT !.i_pins = d.i, !.t_pins = d.t]
  BY DEF Rtl
<1>2. PICK x \in SUBSET LiteMasterFields, y \in SUBSET SlaveFields : x = d.i /\ y = d.t
  BY DriveAssumption
<1>3. nxt' = [nxt EXCEPT !.i_pins = x, !.t_pins = y]
  BY <1>1, <1>2
<1> QED BY <1>3 DEF Typed, Wires

\* The clock changes, the instant is recorded as it was.
LEMMA TickTypes ==
    ASSUME Typed, Tick
    PROVE  /\ nxt' \in Wires /\ before' \in Wires /\ (nxt'.clk <=> ~nxt.clk)
           /\ nxt'.m_clk_in = nxt.m_clk_in /\ nxt'.m_rst_in = nxt.m_rst_in
           /\ nxt'.m_rst_cpu_in = nxt.m_rst_cpu_in
           /\ nxt'.axi_i_out = nxt.axi_i_out /\ nxt'.axi_t_out = nxt.axi_t_out
           /\ nxt'.rst = nxt.rst /\ nxt'.rst_cpu_in = nxt.rst_cpu_in
           /\ nxt'.i_pins = nxt.i_pins /\ nxt'.t_pins = nxt.t_pins
           /\ before'.rst = cur.rst /\ before'.rst_cpu_in = cur.rst_cpu_in
           /\ before'.m_clk_in = cur.m_clk_in
           /\ before'.axi_i_out = cur.axi_i_out /\ before'.axi_t_out = cur.axi_t_out
<1>1. nxt' = [nxt EXCEPT !.clk = ~nxt.clk] /\ before' = Recorded(cur)
  BY DEF Tick
<1>2. /\ LiteMasterTraced(cur.axi_i_out) = cur.axi_i_out
      /\ SlaveTraced(cur.axi_t_out) = cur.axi_t_out
  <2>1. cur.axi_i_out \in SUBSET LiteMasterFields /\ cur.axi_t_out \in SUBSET SlaveFields
    BY DEF Typed, Wires
  <2> QED BY <2>1 DEF LiteMasterTraced, SlaveTraced
<1>3. before' = [cur EXCEPT !.axi_i_out = cur.axi_i_out, !.axi_t_out = cur.axi_t_out]
  BY <1>1, <1>2 DEF Recorded
<1>4. before' = cur
  BY <1>3 DEF Typed, Wires
<1>5. PICK v \in BOOLEAN : v <=> ~nxt.clk
  OBVIOUS
<1>6. nxt' = [nxt EXCEPT !.clk = v]
  BY <1>1, <1>5 DEF Typed, Wires
<1> QED BY <1>4, <1>5, <1>6 DEF Typed, Wires

\* The relay hands on what it sees.
LEMMA RelayStep ==
    ASSUME Typed, Relay, NEW t \in Phase, NEW e \in Phase, NEW d \in Phase, NEW c \in Phase,
           NEW b \in Phase, NEW a \in Phase, Pipeline(t, e, d, c, b, a)
    PROVE  Typed' /\ Pipeline(t, e, d, b, b, a)'
<1>1. /\ "relay" \in ready /\ ready' = ready \ {"relay"} /\ UNCHANGED <<cur, before>>
      /\ UNCHANGED <<reset_gen, bench, seen_clk, mem, cpu>>
  BY DEF Relay, ProcessRuns, rtl
<1>2. /\ nxt' \in Wires
      /\ nxt'.m_clk_in = cur.clk /\ nxt'.m_rst_in = cur.rst /\ nxt'.m_rst_cpu_in = cur.rst_cpu_in
      /\ nxt'.clk = nxt.clk /\ nxt'.rst = nxt.rst /\ nxt'.rst_cpu_in = nxt.rst_cpu_in
  BY RelayTypes
<1>3. Typed'
  BY <1>1, <1>2 DEF Typed
<1>4. Order(e, d, b, b, a)
  BY DEF Pipeline, Order, Phase
<1>5. Levels(t, d, b, b)'
  BY <1>1, <1>2 DEF Pipeline, Levels, Level
<1>6. Seen(e)'
  BY <1>1 DEF Pipeline, Seen
<1>7. Threads(e, a)'
  BY <1>1, <1>2 DEF Pipeline, Threads, Idle
<1>8. Handed(t, e, d, b, b, a)'
  <2>1. Handed(t, e, d, c, b, a) /\ Order(e, d, c, b, a)
    BY DEF Pipeline
  <2>2. nxt.clk = cur.clk
    BY <1>1, <2>1 DEF Handed
  <2>3. Idle' = Idle
    BY <1>1 DEF Idle
  <2>4. nxt'.m_clk_in # cur'.m_clk_in => t = d /\ d = b
    <3>1. CASE cur.clk # nxt.m_clk_in
      BY <2>1, <3>1 DEF Handed, Still
    <3>2. CASE cur.clk = nxt.m_clk_in
      BY <1>1, <1>2, <2>1, <3>2 DEF Handed
    <3> QED BY <3>1, <3>2
  <2>5. ~Idle => Still(t, e, d, b, b)
    BY <2>1 DEF Handed, Still
  <2>6. e # d => "rtl" \in ready'
    BY <1>1, <2>1 DEF Handed
  <2>7. cur'.m_clk_in # seen_clk' => "rtl" \in ready' /\ t = d
    BY <1>1, <2>1 DEF Handed
  <2> QED BY <1>1, <1>2, <2>2, <2>3, <2>4, <2>5, <2>6, <2>7 DEF Handed
<1> QED BY <1>3, <1>4, <1>5, <1>6, <1>7, <1>8 DEF Pipeline

\* The RTL sees the resets that have reached it.
LEMMA RtlStep ==
    ASSUME Typed, Rtl, NEW t \in Phase, NEW e \in Phase, NEW d \in Phase, NEW c \in Phase,
           NEW b \in Phase, NEW a \in Phase, Pipeline(t, e, d, c, b, a)
    PROVE  Typed' /\ Pipeline(t, d, d, c, b, a)'
<1>1. /\ "rtl" \in ready /\ ready' = ready \ {"rtl"} /\ UNCHANGED <<cur, before, reset_gen, bench>>
      /\ seen_clk' = cur.m_clk_in
      /\ mem' = IF cur.m_rst_in THEN "held" ELSE IF Edge /\ mem = "held" THEN "ready" ELSE mem
      /\ cpu' = IF cur.m_rst_cpu_in THEN "held" ELSE IF Edge /\ cpu = "held" THEN "running" ELSE cpu
  BY DEF Rtl, ProcessRuns
<1>2. /\ nxt' \in Wires
      /\ nxt'.m_clk_in = nxt.m_clk_in /\ nxt'.m_rst_in = nxt.m_rst_in
      /\ nxt'.m_rst_cpu_in = nxt.m_rst_cpu_in
      /\ nxt'.clk = nxt.clk /\ nxt'.rst = nxt.rst /\ nxt'.rst_cpu_in = nxt.rst_cpu_in
  BY RtlTypes
<1>3. Typed'
  BY <1>1, <1>2 DEF Typed, Wires
<1>4. /\ Order(d, d, c, b, a) /\ (e = d \/ d = e + 1)
  BY DEF Pipeline, Order, Phase
<1>5. Levels(t, d, c, b)'
  BY <1>1, <1>2 DEF Pipeline, Levels, Level
<1>6. Seen(d)'
  <2>1. (cur.m_rst_in <=> d = 1) /\ (cur.m_rst_cpu_in <=> d = 2) /\ Seen(e)
    BY DEF Pipeline, Levels, Level
  <2>2. CASE d = 0
    BY <1>1, <1>4, <2>1, <2>2 DEF Seen, Phase
  <2>3. CASE d = 1
    BY <1>1, <1>4, <2>1, <2>3 DEF Seen, Phase
  <2>4. CASE d = 2
    BY <1>1, <1>4, <2>1, <2>4 DEF Seen, Phase
  <2>5. CASE d = 3
    <3>1. \/ mem = "ready" /\ cpu \in {"held", "running"}
          \/ mem = "held" /\ cpu = "held"
      BY <1>4, <2>1, <2>5 DEF Seen, Phase
    <3>2. /\ mem' = IF Edge /\ mem = "held" THEN "ready" ELSE mem
          /\ cpu' = IF Edge /\ cpu = "held" THEN "running" ELSE cpu
      BY <1>1, <2>1, <2>5
    <3>3. CASE Edge
      BY <2>5, <3>1, <3>2, <3>3 DEF Seen
    <3>4. CASE ~Edge
      BY <2>5, <3>1, <3>2, <3>4 DEF Seen
    <3> QED BY <3>3, <3>4
  <2> QED BY <2>2, <2>3, <2>4, <2>5 DEF Phase
<1>7. Threads(d, a)'
  <2>1. ~Idle => e = d
    BY DEF Pipeline, Handed, Still
  <2>2. Idle' = Idle
    BY <1>1 DEF Idle
  <2> QED BY <1>1, <1>2, <2>1, <2>2 DEF Pipeline, Threads
<1>8. Handed(t, d, d, c, b, a)'
  <2>1. Handed(t, e, d, c, b, a) /\ Order(e, d, c, b, a)
    BY DEF Pipeline
  <2>2. nxt.clk = cur.clk
    BY <1>1, <2>1 DEF Handed
  <2>3. Idle' = Idle
    BY <1>1 DEF Idle
  <2>4. Still(t, e, d, c, b) => Still(t, d, d, c, b)
    BY DEF Still
  <2>5. cur'.m_clk_in = seen_clk'
    BY <1>1
  <2>6. nxt'.m_clk_in # cur'.m_clk_in => t = d /\ d = c /\ c = b
    BY <1>1, <1>2, <2>1 DEF Handed
  <2>7. cur'.clk # nxt'.m_clk_in => "relay" \in ready' /\ Still(t, d, d, c, b)
    BY <1>1, <1>2, <2>1, <2>4 DEF Handed
  <2>8. c # b => "relay" \in ready'
    BY <1>1, <2>1 DEF Handed
  <2> QED BY <1>1, <1>2, <2>1, <2>2, <2>3, <2>4, <2>5, <2>6, <2>7, <2>8 DEF Handed
<1> QED BY <1>3, <1>4, <1>5, <1>6, <1>7, <1>8 DEF Pipeline

\* The wave file of the RTL is written.
LEMMA TraceStep ==
    ASSUME Typed, TraceRtl, NEW t \in Phase, NEW e \in Phase, NEW d \in Phase, NEW c \in Phase,
           NEW b \in Phase, NEW a \in Phase, Pipeline(t, e, d, c, b, a)
    PROVE  Typed' /\ Pipeline(t, e, d, c, b, a)'
<1>1. /\ "trace" \in ready /\ ready' = ready \ {"trace"} /\ UNCHANGED <<cur, nxt, before>>
      /\ UNCHANGED <<reset_gen, bench, seen_clk, mem, cpu>>
  BY DEF TraceRtl, ProcessRuns, rtl
<1>2. Typed'
  BY <1>1 DEF Typed
<1>3. Idle' = Idle
  BY <1>1 DEF Idle
<1>4. Levels(t, d, c, b)' /\ Seen(e)' /\ Threads(e, a)'
  BY <1>1, <1>3 DEF Pipeline, Levels, Seen, Threads
<1>5. Handed(t, e, d, c, b, a)'
  <2>1. Handed(t, e, d, c, b, a)
    BY DEF Pipeline
  <2>2. \A p \in ready : p # "trace" => p \in ready'
    BY <1>1
  <2> QED BY <1>1, <1>3, <2>1, <2>2 DEF Handed
<1> QED BY <1>2, <1>4, <1>5 DEF Pipeline, Order

\* A thread runs: the one of the reset generator, or that of the bench.
GenRuns == /\ "reset_gen" \in ready /\ ready' = ready \ {"reset_gen"} /\ bench' = bench
           /\ \A p \in Phase : reset_gen = GenAt(p) => reset_gen' = GenAt(Up(p))
BenchRuns == /\ "bench" \in ready /\ ready' = ready \ {"bench"} /\ reset_gen' = reset_gen
             /\ \A p \in Phase : bench = BenchAt(p) => bench' = BenchAt(Up(p))

\* Whichever of the two runs first, the phases in place stay; the last one ends the edge.
LEMMA ThreadStep ==
    ASSUME Typed, Beside, UNCHANGED <<cur, before, seen_clk, mem, cpu>>, GenRuns \/ BenchRuns,
           nxt'.rst <=> reset_gen' = "assert", nxt'.rst_cpu_in <=> bench' = "reset",
           NEW t \in Phase, NEW e \in Phase, NEW d \in Phase, NEW c \in Phase,
           NEW b \in Phase, NEW a \in Phase, Pipeline(t, e, d, c, b, a)
    PROVE  Typed' /\ \E x \in Phase : Pipeline(t, e, d, c, b, x)'
<1>1. /\ Order(e, d, c, b, a) /\ Levels(t, d, c, b) /\ Seen(e)
      /\ Threads(e, a) /\ Handed(t, e, d, c, b, a)
  BY DEF Pipeline
<1>2. ~Idle
  BY DEF GenRuns, BenchRuns, Idle
<1>3. Still(t, e, d, c, b)
  BY <1>1, <1>2 DEF Handed
<1>4. PICK x \in Phase : x = (IF Idle' THEN Up(e) ELSE a) /\ Order(e, d, c, b, x)
  <2>1. Up(e) \in Phase /\ e <= Up(e) /\ Up(e) <= e + 1
    BY DEF Up, Phase
  <2>2. CASE Idle'
    <3>1. Order(e, d, c, b, Up(e))
      BY <1>3, <2>1 DEF Order, Still, Phase
    <3> QED BY <2>1, <2>2, <3>1
  <2>3. CASE ~Idle'
    BY <1>1, <2>3
  <2> QED BY <2>2, <2>3
<1>5. Typed'
  BY DEF Typed, Beside, GenRuns, BenchRuns
<1>6. Levels(t, d, c, b)'
  BY <1>1 DEF Beside, Levels
<1>7. Seen(e)'
  BY <1>1 DEF Seen
<1>8. Threads(e, x)'
  <2>1. /\ reset_gen = GenAt(IF "reset_gen" \in ready THEN e ELSE Up(e))
        /\ bench = BenchAt(IF "bench" \in ready THEN e ELSE Up(e))
    BY <1>1, <1>2 DEF Threads
  <2>2. CASE GenRuns
    <3>1. reset_gen' = GenAt(Up(e)) /\ bench' = bench /\ "reset_gen" \notin ready'
      BY <2>1, <2>2 DEF GenRuns
    <3>2. "bench" \in ready <=> "bench" \in ready'
      BY <2>2 DEF GenRuns
    <3>3. Idle' <=> "bench" \notin ready'
      BY <3>1 DEF Idle
    <3>4. Idle' => reset_gen' = GenAt(x) /\ bench' = BenchAt(x)
      BY <1>4, <2>1, <3>1, <3>2, <3>3
    <3>5. ~Idle' => /\ reset_gen' = GenAt(IF "reset_gen" \in ready' THEN e ELSE Up(e))
                    /\ bench' = BenchAt(IF "bench" \in ready' THEN e ELSE Up(e))
      BY <2>1, <3>1, <3>2, <3>3
    <3> QED BY <3>4, <3>5 DEF Threads
  <2>3. CASE BenchRuns
    <3>1. bench' = BenchAt(Up(e)) /\ reset_gen' = reset_gen /\ "bench" \notin ready'
      BY <2>1, <2>3 DEF BenchRuns
    <3>2. "reset_gen" \in ready <=> "reset_gen" \in ready'
      BY <2>3 DEF BenchRuns
    <3>3. Idle' <=> "reset_gen" \notin ready'
      BY <3>1 DEF Idle
    <3>4. Idle' => reset_gen' = GenAt(x) /\ bench' = BenchAt(x)
      BY <1>4, <2>1, <3>1, <3>2, <3>3
    <3>5. ~Idle' => /\ reset_gen' = GenAt(IF "reset_gen" \in ready' THEN e ELSE Up(e))
                    /\ bench' = BenchAt(IF "bench" \in ready' THEN e ELSE Up(e))
      BY <2>1, <3>1, <3>2, <3>3
    <3> QED BY <3>4, <3>5 DEF Threads
  <2> QED BY <2>2, <2>3
<1>9. Handed(t, e, d, c, b, x)'
  <2>1. nxt'.clk = cur'.clk
    BY <1>1, <1>2 DEF Handed, Beside, Idle
  <2>2. "relay" \in ready => "relay" \in ready'
    BY DEF GenRuns, BenchRuns
  <2>3. "rtl" \in ready => "rtl" \in ready'
    BY DEF GenRuns, BenchRuns
  <2> QED BY <1>1, <1>3, <2>1, <2>2, <2>3 DEF Handed, Beside
<1>10. Pipeline(t, e, d, c, b, x)'
  BY <1>4, <1>6, <1>7, <1>8, <1>9 DEF Pipeline
<1> QED BY <1>4, <1>5, <1>10

\* The steps of the threads.
LEMMA GenStep ==
    ASSUME Typed, ScResetGen, NEW t \in Phase, NEW e \in Phase, NEW d \in Phase, NEW c \in Phase,
           NEW b \in Phase, NEW a \in Phase, Pipeline(t, e, d, c, b, a)
    PROVE  Typed' /\ \E x \in Phase : Pipeline(t, e, d, c, b, x)'
<1>1. /\ "reset_gen" \in ready /\ ready' = ready \ {"reset_gen"} /\ UNCHANGED <<cur, before>>
      /\ reset_gen' = IF reset_gen = "start" THEN "assert" ELSE "done"
      /\ UNCHANGED <<bench, seen_clk, mem, cpu>>
  BY DEF ScResetGen, ProcessRuns, rtl
<1>2. Beside /\ (nxt'.rst <=> reset_gen = "start") /\ nxt'.rst_cpu_in = nxt.rst_cpu_in
  BY GenTypes
<1>3. GenRuns
  <2>1. ASSUME NEW p \in Phase, reset_gen = GenAt(p) PROVE reset_gen' = GenAt(Up(p))
    BY <1>1, <2>1 DEF GenAt, Up, Phase
  <2> QED BY <1>1, <2>1 DEF GenRuns
<1>4. nxt'.rst <=> reset_gen' = "assert"
  BY <1>1, <1>2
<1>5. nxt'.rst_cpu_in <=> bench' = "reset"
  BY <1>1, <1>2 DEF Pipeline, Threads
<1> QED BY <1>1, <1>2, <1>3, <1>4, <1>5, ThreadStep

\* Those of the bench.
LEMMA BenchStep ==
    ASSUME Typed, Attach \/ Load \/ Reset \/ Step,
           NEW t \in Phase, NEW e \in Phase, NEW d \in Phase, NEW c \in Phase,
           NEW b \in Phase, NEW a \in Phase, Pipeline(t, e, d, c, b, a)
    PROVE  Typed' /\ \E x \in Phase : Pipeline(t, e, d, c, b, x)'
<1>1. /\ "bench" \in ready /\ ready' = ready \ {"bench"} /\ UNCHANGED <<cur, before>>
      /\ UNCHANGED <<reset_gen, seen_clk, mem, cpu>>
      /\ bench \in {"attach", "main", "reset", "step"}
      /\ bench' = CASE bench = "attach" -> "main" [] bench = "main" -> "reset" [] OTHER -> "step"
  BY DEF Attach, Load, Reset, Step, ProcessRuns, rtl
<1>2. BenchRuns
  <2>1. ASSUME NEW p \in Phase, bench = BenchAt(p) PROVE bench' = BenchAt(Up(p))
    BY <1>1, <2>1 DEF BenchAt, Up, Phase
  <2> QED BY <1>1, <2>1 DEF BenchRuns
<1>3. (nxt.rst <=> reset_gen = "assert") /\ (nxt.rst_cpu_in <=> bench = "reset")
  BY DEF Pipeline, Threads
<1>4. Beside /\ nxt'.rst = nxt.rst /\ (nxt'.rst_cpu_in <=> bench' = "reset")
  <2>1. CASE Attach \/ Step
    <3>1. nxt' = nxt /\ bench # "reset" /\ bench' # "reset"
      BY <2>1 DEF Attach, Step
    <3> QED BY <1>3, <3>1 DEF Typed, Beside
  <2>2. CASE Load
    <3>1. nxt' = [nxt EXCEPT !.rst_cpu_in = TRUE] /\ bench' = "reset"
      BY <2>2 DEF Load
    <3> QED BY <3>1, CpuTypes
  <2>3. CASE Reset
    <3>1. nxt' = [nxt EXCEPT !.rst_cpu_in = FALSE] /\ bench' = "step"
      BY <2>3 DEF Reset
    <3> QED BY <3>1, CpuTypes
  <2> QED BY <2>1, <2>2, <2>3
<1>5. nxt'.rst <=> reset_gen' = "assert"
  BY <1>1, <1>3, <1>4
<1> QED BY <1>1, <1>2, <1>4, <1>5, ThreadStep

\* Two phases in succession show different levels.
LEMMA LevelsTell ==
    ASSUME NEW p \in Phase, NEW q \in Phase, p <= q, q <= p + 1,
           NEW x, NEW y, Level(x, y, p), Level(x, y, q)
    PROVE  p = q
BY DEF Level, Phase

\* The written values show.
LEMMA UpdateStep ==
    ASSUME Typed, Update, NEW t \in Phase, NEW e \in Phase, NEW d \in Phase, NEW c \in Phase,
           NEW b \in Phase, NEW a \in Phase, Pipeline(t, e, d, c, b, a)
    PROVE  Typed' /\ Pipeline(t, e, c, c, a, a)'
<1>1. /\ ready = {} /\ cur' = nxt /\ ready' = Woken(cur, nxt)
      /\ UNCHANGED <<nxt, before, reset_gen, bench, seen_clk, mem, cpu>>
  BY DEF Update, rtl
<1>2. /\ Order(e, d, c, b, a) /\ Levels(t, d, c, b) /\ Seen(e)
      /\ Threads(e, a) /\ Handed(t, e, d, c, b, a)
  BY DEF Pipeline
<1>3. /\ e = d /\ c = b /\ nxt.m_clk_in = cur.clk /\ seen_clk = cur.m_clk_in /\ Idle
      /\ reset_gen = GenAt(a) /\ bench = BenchAt(a)
  BY <1>1, <1>2 DEF Handed, Threads, Idle
<1>4. /\ nxt.clk # cur.clk => Still(t, e, c, c, a)
      /\ nxt.m_clk_in # cur.m_clk_in => t = c
  BY <1>2, <1>3 DEF Handed, Still
<1>5. /\ ready' \subseteq Processes
      /\ "reset_gen" \in ready' <=> ~cur.clk /\ nxt.clk
      /\ "bench" \in ready' <=> ~cur.clk /\ nxt.clk
      /\ "relay" \in ready' <=> RelaySensitive(cur, nxt)
      /\ "rtl" \in ready' <=> RtlSensitive(cur, nxt)
      /\ "trace" \in ready' <=> TraceSensitive(cur, nxt)
  BY <1>1 DEF Woken, Processes
<1>6. Typed'
  BY <1>1, <1>5 DEF Typed
<1>7. Order(e, c, c, a, a)
  BY <1>2 DEF Order, Phase
<1>8. Level(nxt.rst, nxt.rst_cpu_in, a)
  BY <1>2, <1>3 DEF Threads, Level, GenAt, BenchAt, Phase
<1>9. Levels(t, c, c, a)'
  BY <1>1, <1>2, <1>8 DEF Levels
<1>10. Seen(e)'
  BY <1>1, <1>2 DEF Seen
<1>11. ~Idle' => cur.clk # nxt.clk /\ "reset_gen" \in ready' /\ "bench" \in ready'
  BY <1>5 DEF Idle
<1>12. Threads(e, a)'
  <2>1. ~Idle' => a = e
    BY <1>4, <1>11 DEF Still
  <2>2. (nxt.rst <=> reset_gen = "assert") /\ (nxt.rst_cpu_in <=> bench = "reset")
    BY <1>2 DEF Threads
  <2> QED BY <1>1, <1>3, <1>11, <2>1, <2>2 DEF Threads
<1>13. e # c => "rtl" \in ready'
  <2>1. SUFFICES ASSUME ~RtlSensitive(cur, nxt) PROVE d = c
    BY <1>3, <1>5
  <2>2. cur.m_rst_in = nxt.m_rst_in /\ cur.m_rst_cpu_in = nxt.m_rst_cpu_in
    BY <2>1 DEF RtlSensitive
  <2>3. Level(cur.m_rst_in, cur.m_rst_cpu_in, d) /\ Level(cur.m_rst_in, cur.m_rst_cpu_in, c)
    BY <1>2, <2>2 DEF Levels
  <2>4. d <= c /\ c <= d + 1
    BY <1>2 DEF Order, Phase
  <2> QED BY <2>3, <2>4, LevelsTell, Zenon
<1>14. c # a => "relay" \in ready'
  <2>1. SUFFICES ASSUME ~RelaySensitive(cur, nxt) PROVE b = a
    BY <1>3, <1>5
  <2>2. cur.rst = nxt.rst /\ cur.rst_cpu_in = nxt.rst_cpu_in
    BY <2>1 DEF RelaySensitive
  <2>3. Level(cur.rst, cur.rst_cpu_in, b) /\ Level(cur.rst, cur.rst_cpu_in, a)
    BY <1>2, <1>8, <2>2 DEF Levels
  <2>4. b <= a /\ a <= b + 1
    BY <1>2 DEF Order, Phase
  <2> QED BY <2>3, <2>4, LevelsTell, Zenon
<1>15. cur'.clk # nxt'.m_clk_in => "relay" \in ready' /\ Still(t, e, c, c, a)
  <2>1. SUFFICES ASSUME nxt.clk # cur.clk PROVE "relay" \in ready' /\ Still(t, e, c, c, a)
    BY <1>1, <1>3
  <2>2. RelaySensitive(cur, nxt)
    BY <2>1 DEF RelaySensitive
  <2> QED BY <1>4, <1>5, <2>1, <2>2
<1>16. cur'.m_clk_in # seen_clk' => "rtl" \in ready' /\ t = c
  <2>1. SUFFICES ASSUME nxt.m_clk_in # cur.m_clk_in PROVE "rtl" \in ready' /\ t = c
    BY <1>1, <1>3
  <2>2. RtlSensitive(cur, nxt)
    BY <2>1 DEF RtlSensitive
  <2> QED BY <1>4, <1>5, <2>1, <2>2
<1>17. Handed(t, e, c, c, a, a)'
  <2>1. ~Idle' => Still(t, e, c, c, a)
    BY <1>4, <1>11
  <2>2. nxt'.clk = cur'.clk /\ nxt'.m_clk_in = cur'.m_clk_in
    BY <1>1
  <2> QED BY <1>13, <1>14, <1>15, <1>16, <2>1, <2>2 DEF Handed
<1> QED BY <1>6, <1>7, <1>9, <1>10, <1>12, <1>17 DEF Pipeline

\* Time goes on when everything has arrived.
LEMMA Arrived ==
    ASSUME Typed, Quiet, NEW t \in Phase, NEW e \in Phase, NEW d \in Phase, NEW c \in Phase,
           NEW b \in Phase, NEW a \in Phase, Pipeline(t, e, d, c, b, a)
    PROVE  /\ d = e /\ c = e /\ b = e /\ a = e
           /\ nxt.m_clk_in = cur.clk /\ seen_clk = cur.m_clk_in /\ Idle
<1>1. ready = {} /\ nxt = cur
  BY DEF Quiet
<1>2. /\ Order(e, d, c, b, a) /\ Levels(t, d, c, b) /\ Threads(e, a) /\ Handed(t, e, d, c, b, a)
  BY DEF Pipeline
<1>3. e = d /\ c = b /\ nxt.m_clk_in = cur.clk /\ seen_clk = cur.m_clk_in /\ Idle
  BY <1>1, <1>2 DEF Handed, Idle
<1>4. Level(nxt.rst, nxt.rst_cpu_in, a)
  BY <1>2, <1>3 DEF Threads, Level, GenAt, BenchAt, Phase
<1>5. d = c
  <2>1. Level(cur.m_rst_in, cur.m_rst_cpu_in, d) /\ Level(cur.m_rst_in, cur.m_rst_cpu_in, c)
    BY <1>1, <1>2 DEF Levels
  <2>2. d <= c /\ c <= d + 1
    BY <1>2 DEF Order, Phase
  <2> QED BY <2>1, <2>2, LevelsTell, Zenon
<1>6. b = a
  <2>1. Level(cur.rst, cur.rst_cpu_in, b) /\ Level(cur.rst, cur.rst_cpu_in, a)
    BY <1>1, <1>2, <1>4 DEF Levels
  <2>2. b <= a /\ a <= b + 1
    BY <1>2 DEF Order, Phase
  <2> QED BY <2>1, <2>2, LevelsTell, Zenon
<1> QED BY <1>3, <1>5, <1>6

\* The next instant finds them all equal.
LEMMA TickStep ==
    ASSUME Typed, Tick, NEW t \in Phase, NEW e \in Phase, NEW d \in Phase, NEW c \in Phase,
           NEW b \in Phase, NEW a \in Phase, Pipeline(t, e, d, c, b, a)
    PROVE  Typed' /\ Pipeline(e, e, e, e, e, e)'
<1>1. /\ ready = {} /\ nxt = cur /\ Quiet
      /\ UNCHANGED <<cur, ready, reset_gen, bench, seen_clk, mem, cpu>>
  BY DEF Tick, Quiet, rtl
<1>2. /\ Order(e, d, c, b, a) /\ Levels(t, d, c, b) /\ Seen(e) /\ Threads(e, a)
  BY DEF Pipeline
<1>3. /\ d = e /\ c = e /\ b = e /\ a = e
      /\ nxt.m_clk_in = cur.clk /\ seen_clk = cur.m_clk_in /\ Idle
  BY <1>1, Arrived
<1>4. /\ nxt' \in Wires /\ before' \in Wires
      /\ nxt'.m_clk_in = nxt.m_clk_in /\ nxt'.m_rst_in = nxt.m_rst_in
      /\ nxt'.m_rst_cpu_in = nxt.m_rst_cpu_in
      /\ nxt'.rst = nxt.rst /\ nxt'.rst_cpu_in = nxt.rst_cpu_in
      /\ before'.rst = cur.rst /\ before'.rst_cpu_in = cur.rst_cpu_in
  BY TickTypes
<1>5. Typed'
  BY <1>1, <1>4 DEF Typed
<1>6. Levels(e, e, e, e)'
  BY <1>1, <1>2, <1>3, <1>4 DEF Levels
<1>7. Seen(e)'
  BY <1>1, <1>2 DEF Seen
<1>8. Threads(e, e)'
  BY <1>1, <1>2, <1>3, <1>4 DEF Threads, Idle
<1>9. Handed(e, e, e, e, e, e)'
  BY <1>1, <1>3, <1>4 DEF Handed, Idle, Still
<1>10. Order(e, e, e, e, e)
  BY DEF Order, Phase
<1> QED BY <1>5, <1>6, <1>7, <1>8, <1>9, <1>10 DEF Pipeline

\* Outputs and wave file: what the relay was not asked to hand on has arrived, and nothing
\* has moved since the end of the instant when the wave file is written.
LEMMA PinsStep ==
    ASSUME Typed, Pins, NEW t \in Phase, NEW e \in Phase, NEW d \in Phase, NEW c \in Phase,
           NEW b \in Phase, NEW a \in Phase, Pipeline(t, e, d, c, b, a),
           ScResetGen \/ Attach \/ Load \/ Reset \/ Step \/ Relay \/ Rtl \/ TraceRtl \/ Update \/ Tick
    PROVE  Pins'
<1>1. ready # {} => nxt.clk = cur.clk
  BY DEF Pipeline, Handed
<1>2. CASE Relay
  <2>1. "relay" \in ready /\ ready' = ready \ {"relay"} /\ UNCHANGED <<cur, before, seen_clk>>
    BY <1>2 DEF Relay, ProcessRuns, rtl
  <2>2. nxt'.axi_i_out = cur.i_pins /\ nxt'.axi_t_out = cur.t_pins /\ nxt'.clk = nxt.clk
    BY <1>2, RelayTypes
  <2> QED BY <1>1, <2>1, <2>2 DEF Pins
<1>3. CASE Rtl
  <2>1. /\ "rtl" \in ready /\ ready' = ready \ {"rtl"} /\ UNCHANGED <<cur, before>>
        /\ seen_clk' = cur.m_clk_in
    BY <1>3 DEF Rtl, ProcessRuns
  <2>2. nxt'.axi_i_out = nxt.axi_i_out /\ nxt'.axi_t_out = nxt.axi_t_out /\ nxt'.clk = nxt.clk
    BY <1>3, RtlTypes
  <2>3. "trace" \in ready' => "trace" \in ready
    BY <2>1
  <2>4. "relay" \notin ready' => "relay" \notin ready
    BY <2>1
  <2> QED BY <1>1, <2>1, <2>2, <2>3, <2>4 DEF Pins
<1>4. CASE TraceRtl
  <2>1. "trace" \in ready /\ ready' = ready \ {"trace"} /\ UNCHANGED <<cur, nxt, before, seen_clk>>
    BY <1>4 DEF TraceRtl, ProcessRuns, rtl
  <2> QED BY <1>1, <2>1 DEF Pins
<1>5. CASE ScResetGen \/ Attach \/ Load \/ Reset \/ Step
  <2>1. /\ ready # {} /\ UNCHANGED <<cur, before, seen_clk>>
        /\ "trace" \in ready' => "trace" \in ready
        /\ "relay" \notin ready' => "relay" \notin ready
    <3>1. CASE ScResetGen
      BY <3>1 DEF ScResetGen, ProcessRuns, rtl
    <3>2. CASE Attach \/ Load \/ Reset \/ Step
      BY <3>2 DEF Attach, Load, Reset, Step, ProcessRuns, rtl
    <3> QED BY <1>5, <3>1, <3>2
  <2>2. Beside
    <3>1. CASE ScResetGen
      BY <3>1, GenTypes
    <3>2. CASE Attach \/ Step
      BY <3>2 DEF Attach, Step, Typed, Beside
    <3>3. CASE Load
      <4>1. nxt' = [nxt EXCEPT !.rst_cpu_in = TRUE]
        BY <3>3 DEF Load
      <4> QED BY <4>1, CpuTypes
    <3>4. CASE Reset
      <4>1. nxt' = [nxt EXCEPT !.rst_cpu_in = FALSE]
        BY <3>4 DEF Reset
      <4> QED BY <4>1, CpuTypes
    <3> QED BY <1>5, <3>1, <3>2, <3>3, <3>4
  <2> QED BY <1>1, <2>1, <2>2 DEF Beside, Pins
<1>6. CASE Update
  <2>1. /\ ready = {} /\ cur' = nxt /\ ready' = Woken(cur, nxt)
        /\ UNCHANGED <<nxt, before, seen_clk>>
    BY <1>6 DEF Update, rtl
  <2>2. "trace" \in ready' => cur.clk # nxt.clk
    BY <2>1 DEF Woken, TraceSensitive
  <2>3. "relay" \notin ready' => cur.i_pins = nxt.i_pins /\ cur.t_pins = nxt.t_pins
    BY <2>1 DEF Woken, RelaySensitive, Processes
  <2> QED BY <2>1, <2>2, <2>3 DEF Pins
<1>7. CASE Tick
  <2>1. ready = {} /\ nxt = cur /\ Quiet /\ UNCHANGED <<cur, ready, seen_clk>>
    BY <1>7 DEF Tick, Quiet, rtl
  <2>2. seen_clk = cur.m_clk_in
    BY <2>1, Arrived
  <2>3. /\ nxt'.m_clk_in = nxt.m_clk_in
        /\ nxt'.axi_i_out = nxt.axi_i_out /\ nxt'.axi_t_out = nxt.axi_t_out
        /\ nxt'.i_pins = nxt.i_pins /\ nxt'.t_pins = nxt.t_pins
        /\ before'.m_clk_in = cur.m_clk_in
        /\ before'.axi_i_out = cur.axi_i_out /\ before'.axi_t_out = cur.axi_t_out
    BY <1>7, TickTypes
  <2> QED BY <2>1, <2>2, <2>3 DEF Pins
<1> QED BY <1>2, <1>3, <1>4, <1>5, <1>6, <1>7

\* The simulation, from sc_start until it is left.
Simulated == /\ Typed /\ Pins
             /\ \E t, e, d, c, b, a \in Phase : Pipeline(t, e, d, c, b, a)
             /\ bench \in {"reset", "step"} => loaded = {argv[Len(argv)]}
SimInv == /\ argv \in ArgLists
          /\ stage = "sim" => Simulated
          /\ stage # "sim" => cpu = "unreset"

\* sc_start begins before the resets.
LEMMA Begins == ASSUME ScStart PROVE Simulated'
<1>1. PICK v \in BOOLEAN : SetKernel([KernelIdle EXCEPT !.ready = {"relay", "rtl", "trace"},
                                                        !.m_delay_waves = v])
  BY DEF ScStart
<1>2. /\ cur' = Signals /\ nxt' = Signals /\ before' = Signals /\ ready' = {"relay", "rtl", "trace"}
      /\ reset_gen' = "start" /\ bench' = "attach" /\ seen_clk' = FALSE
      /\ mem' = "unreset" /\ cpu' = "unreset"
  BY <1>1 DEF SetKernel, KernelIdle
<1>3. /\ Signals \in Wires
      /\ ~Signals.rst /\ ~Signals.rst_cpu_in /\ ~Signals.m_rst_in /\ ~Signals.m_rst_cpu_in
      /\ Signals.clk = FALSE /\ Signals.m_clk_in = FALSE
      /\ Signals.i_pins = Signals.axi_i_out /\ Signals.t_pins = Signals.axi_t_out
  BY DEF Signals, Wires, ZeroLiteMaster, ZeroSlave
<1>4. Typed'
  BY <1>2, <1>3 DEF Typed, Processes
<1>5. Pins'
  BY <1>2, <1>3 DEF Pins
<1>6. Pipeline(0, 0, 0, 0, 0, 0)'
  <2>1. Levels(0, 0, 0, 0)'
    BY <1>2, <1>3 DEF Levels, Level
  <2>2. Threads(0, 0)'
    BY <1>2, <1>3 DEF Threads, Idle, GenAt, BenchAt
  <2>3. Handed(0, 0, 0, 0, 0, 0)'
    BY <1>2, <1>3 DEF Handed, Idle
  <2>4. Seen(0)' /\ Order(0, 0, 0, 0, 0)
    BY <1>2 DEF Seen, Order
  <2> QED BY <2>1, <2>2, <2>3, <2>4 DEF Pipeline
<1>7. 0 \in Phase
  BY DEF Phase
<1> QED BY <1>2, <1>4, <1>5, <1>6, <1>7 DEF Simulated

\* Every step of the bench keeps it.
LEMMA SimStep == ASSUME SimInv, [BenchNext]_benchvars PROVE SimInv'
<1>1. CASE UNCHANGED benchvars
  <2>1. UNCHANGED <<stage, argv, cur, nxt, before, ready, seen_clk, reset_gen, bench, loaded, mem, cpu>>
    BY <1>1 DEF benchvars, main, kernel, rtl
  <2>2. Simulated => Simulated'
    <3>1. Typed => Typed'
      BY <2>1 DEF Typed
    <3>2. Pins => Pins'
      BY <2>1 DEF Pins
    <3>3. \A t, e, d, c, b, a \in Phase : Pipeline(t, e, d, c, b, a) => Pipeline(t, e, d, c, b, a)'
      BY <2>1 DEF Pipeline, Levels, Seen, Threads, Handed, Idle
    <3> QED BY <2>1, <3>1, <3>2, <3>3 DEF Simulated
  <2> QED BY <2>1, <2>2 DEF SimInv
<1>2. CASE ScResetGen \/ Attach \/ Load \/ Reset \/ Step \/ Relay \/ Rtl \/ TraceRtl \/ Update \/ Tick
  <2>1. stage = "sim" /\ stage' = "sim" /\ argv' = argv
    <3>1. CASE ScResetGen \/ Attach \/ Load \/ Reset \/ Step
      BY <3>1 DEF ScResetGen, Attach, Load, Reset, Step, ProcessRuns, Goes, main
    <3>2. CASE Relay \/ Rtl \/ TraceRtl
      BY <3>2 DEF Relay, Rtl, TraceRtl, ProcessRuns, Goes, main
    <3>3. CASE Update \/ Tick
      BY <3>3 DEF Update, Tick, Quiet, main
    <3> QED BY <1>2, <3>1, <3>2, <3>3
  <2>2. Simulated
    BY <2>1 DEF SimInv
  <2>3. PICK t \in Phase, e \in Phase, d \in Phase, c \in Phase, b \in Phase, a \in Phase :
          Pipeline(t, e, d, c, b, a)
    BY <2>2 DEF Simulated
  <2>4. Pins'
    BY <1>2, <2>2, <2>3, PinsStep DEF Simulated
  <2>5. Typed' /\ \E q, r, u, w, y, x \in Phase : Pipeline(q, r, u, w, y, x)'
    <3>1. Typed
      BY <2>2 DEF Simulated
    <3>2. CASE ScResetGen
      <4>1. Typed' /\ \E x \in Phase : Pipeline(t, e, d, c, b, x)'
        BY <2>3, <3>1, <3>2, GenStep
      <4> QED BY <4>1, Zenon
    <3>3. CASE Attach \/ Load \/ Reset \/ Step
      <4>1. Typed' /\ \E x \in Phase : Pipeline(t, e, d, c, b, x)'
        BY <2>3, <3>1, <3>3, BenchStep
      <4> QED BY <4>1, Zenon
    <3>4. CASE Relay
      BY <2>3, <3>1, <3>4, RelayStep
    <3>5. CASE Rtl
      BY <2>3, <3>1, <3>5, RtlStep
    <3>6. CASE TraceRtl
      BY <2>3, <3>1, <3>6, TraceStep
    <3>7. CASE Update
      BY <2>3, <3>1, <3>7, UpdateStep
    <3>8. CASE Tick
      BY <2>3, <3>1, <3>8, TickStep
    <3> QED BY <1>2, <3>2, <3>3, <3>4, <3>5, <3>6, <3>7, <3>8
  <2>6. bench' \in {"reset", "step"} => loaded' = {argv[Len(argv)]}
    <3>1. CASE Load
      <4>1. PICK image \in Named : loaded' = {image}
        BY <3>1 DEF Load
      <4>2. image = argv[Len(argv)]
        BY <4>1, ImageAssumption DEF Named, SimInv
      <4> QED BY <4>1, <4>2
    <3>2. CASE Attach
      BY <3>2 DEF Attach
    <3>3. CASE Reset \/ Step
      BY <2>2, <3>3 DEF Reset, Step, Simulated
    <3>4. CASE ScResetGen
      BY <2>2, <3>4 DEF ScResetGen, Simulated
    <3>5. CASE Relay
      BY <2>2, <3>5 DEF Relay, Simulated
    <3>6. CASE Rtl
      BY <2>2, <3>6 DEF Rtl, Simulated
    <3>7. CASE TraceRtl
      BY <2>2, <3>7 DEF TraceRtl, Simulated
    <3>8. CASE Update \/ Tick
      BY <2>2, <3>8 DEF Update, Tick, Simulated
    <3> QED BY <1>2, <3>1, <3>2, <3>3, <3>4, <3>5, <3>6, <3>7, <3>8
  <2> QED BY <2>1, <2>4, <2>5, <2>6 DEF Simulated, SimInv
<1>3. CASE ScStart
  <2>1. stage' = "sim" /\ argv' = argv
    BY <1>3 DEF ScStart, main
  <2> QED BY <1>3, <2>1, Begins DEF SimInv
<1>4. ASSUME NEW who, Leave(who) PROVE SimInv'
  BY <1>4 DEF Leave, SetKernel, KernelIdle, main, SimInv
<1>5. CASE LoadFails \/ ProcessExits \/ VlFinish
  BY <1>4, <1>5 DEF LoadFails, ProcessExits, VlFinish
<1>6. ASSUME stage # "sim", stage' # "sim", UNCHANGED <<argv, cpu>> PROVE SimInv'
  BY <1>6 DEF SimInv
<1>7. CASE Sigint
  <2>1. CASE stage \in {"main", "elab"} /\ stage' = "over" /\ UNCHANGED <<main, calls, files, kernel>>
    BY <1>6, <2>1 DEF main, kernel, rtl
  <2>2. CASE stage = "exit" /\ UNCHANGED <<stage, main, files, kernel>>
    BY <1>6, <2>2 DEF main, kernel, rtl
  <2> QED BY <1>4, <1>7, <2>1, <2>2 DEF Sigint
<1>8. CASE Construct
  BY <1>6, <1>8 DEF Construct, main, kernel, rtl
<1>9. CASE Abort
  <2>1. stage = "exit" /\ UNCHANGED <<argv, cpu>>
    BY <1>9 DEF Abort, main, kernel, rtl
  <2>2. stage' \in {stage, "over", "crash"}
    BY <1>9 DEF Abort, At, Return
  <2> QED BY <1>6, <2>1, <2>2
<1> QED BY <1>1, <1>2, <1>3, <1>5, <1>7, <1>8, <1>9 DEF BenchNext, Kernel

\* The signals, the threads and the RTL are in one of the phases of the resets, as far as each
\* has come (sc_reset_gen.h 10-15, testbench.h 48-54, riscv_tcm_top_rtl.cpp 60-147).
THEOREM SimInvariant == BenchSpec => []SimInv
<1>1. BenchInit => SimInv
  BY DEF BenchInit, SimInv
<1> QED BY <1>1, SimStep, PTL DEF BenchSpec

\* A CPU that runs out of its reset runs the image the command line names, with the rest of
\* the circuit out of reset too (sc_reset_gen.h 10-15, testbench.h 48-54, 107-133, main.cpp
\* 92-117), in whatever order the processes of a delta cycle run.
THEOREM ImageRuns == BenchSpec => []ProgramRuns
<1>1. SimInv => ProgramRuns
  <2>1. SUFFICES ASSUME SimInv, cpu = "running" PROVE mem = "ready" /\ loaded = {argv[Len(argv)]}
    BY DEF ProgramRuns
  <2>2. Simulated
    BY <2>1 DEF SimInv
  <2>3. PICK t \in Phase, e \in Phase, d \in Phase, c \in Phase, b \in Phase, a \in Phase :
          Pipeline(t, e, d, c, b, a)
    BY <2>2 DEF Simulated
  <2>4. e = 3 /\ mem = "ready"
    BY <2>1, <2>3 DEF Pipeline, Seen, Phase
  <2>5. bench = "step"
    <3>1. a = 3 /\ Threads(3, 3)
      BY <2>3, <2>4 DEF Pipeline, Order, Phase
    <3>2. Up(3) = 3 /\ BenchAt(3) = "step"
      BY DEF Up, BenchAt
    <3>3. bench = BenchAt(3)
      <4>1. CASE Idle
        BY <3>1, <4>1 DEF Threads
      <4>2. CASE ~Idle
        BY <3>1, <3>2, <4>2 DEF Threads
      <4> QED BY <4>1, <4>2
    <3> QED BY <3>2, <3>3
  <2> QED BY <2>2, <2>4, <2>5 DEF Simulated
<1> QED BY <1>1, SimInvariant, PTL

\* A process runs in the simulation only: what leaves the processes to run, with the
\* simulation going on, was there in it.
LEMMA RunsInSim ==
    ASSUME [BenchNext]_benchvars, stage' = "sim", NEW p \in {"rtl", "trace"}, p \in ready \ ready'
    PROVE  stage = "sim"
<1>1. ASSUME stage # "sim" PROVE FALSE
  <2>1. CASE UNCHANGED benchvars
    BY <1>1, <2>1 DEF benchvars
  <2>2. CASE Construct \/ Abort
    BY <2>2 DEF Construct, Abort, kernel
  <2>3. CASE ScStart
    <3>1. ready' = {"relay", "rtl", "trace"}
      BY <2>3 DEF ScStart, SetKernel, KernelIdle
    <3> QED BY <3>1
  <2>4. CASE Sigint
    BY <1>1, <2>4 DEF Sigint, Leave
  <2>5. CASE LoadFails \/ ProcessExits \/ VlFinish
    BY <1>1, <2>5 DEF LoadFails, ProcessExits, VlFinish
  <2>6. CASE ScResetGen \/ Attach \/ Load \/ Reset \/ Step \/ Relay \/ Rtl \/ TraceRtl
    BY <1>1, <2>6 DEF ScResetGen, Attach, Load, Reset, Step, Relay, Rtl, TraceRtl, ProcessRuns
  <2>7. CASE Update \/ Tick
    BY <1>1, <2>7 DEF Update, Tick, Quiet
  <2> QED BY <2>1, <2>2, <2>3, <2>4, <2>5, <2>6, <2>7 DEF BenchNext, Kernel
<1> QED BY <1>1

\* At a clock edge the RTL sees its resets as they were before the edge, in whatever order the
\* processes run (riscv_tcm_top_rtl.cpp 142-145).
THEOREM EdgesSeeBefore == BenchSpec => SamplesBefore
<1>1. ASSUME SimInv, [BenchNext]_benchvars, "rtl" \in ready \ ready', Edge, stage' = "sim"
      PROVE  cur.m_rst_in = before.rst /\ cur.m_rst_cpu_in = before.rst_cpu_in
  <2>1. Simulated
    BY <1>1, RunsInSim DEF SimInv
  <2>2. PICK t \in Phase, e \in Phase, d \in Phase, c \in Phase, b \in Phase, a \in Phase :
          Pipeline(t, e, d, c, b, a)
    BY <2>1 DEF Simulated
  <2>3. /\ cur.m_clk_in # seen_clk
        /\ cur.m_rst_in \in BOOLEAN /\ cur.m_rst_cpu_in \in BOOLEAN
        /\ before.rst \in BOOLEAN /\ before.rst_cpu_in \in BOOLEAN
    BY <1>1, <2>1 DEF Simulated, Typed, Wires, Edge
  <2>4. t = d /\ Levels(t, d, c, b)
    BY <2>2, <2>3 DEF Pipeline, Handed
  <2> QED BY <2>3, <2>4 DEF Levels, Level
<1> QED BY <1>1, SimInvariant, PTL DEF SamplesBefore, BenchSpec

\* What the RTL's own wave file gets is what the bundles showed at the end of the instant
\* before (riscv_tcm_top_rtl.cpp 95-116): between that end and the writing nothing has moved,
\* and the pins had reached the bundles by then.
THEOREM WaveFilesAgree == BenchSpec => WavesAgree
<1>1. ASSUME SimInv, [BenchNext]_benchvars, "trace" \in ready \ ready', dumped', stage' = "sim"
      PROVE  /\ seen_clk = before.m_clk_in
             /\ cur.i_pins = before.axi_i_out /\ cur.t_pins = before.axi_t_out
  <2>1. Simulated
    BY <1>1, RunsInSim DEF SimInv
  <2> QED BY <1>1, <2>1 DEF Simulated, Pins
<1> QED BY <1>1, SimInvariant, PTL DEF WavesAgree, BenchSpec
=============================================================================
