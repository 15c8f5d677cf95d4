# A verification development of panog2_usb_sniffer

The repository turns a Pano Logic G2 into a small computer: a RISC-V core with its
memory and peripherals in an FPGA, a gigabit Ethernet interface, a debug bridge
that loads programs over a serial line, and three programs, one of which runs lwIP
and a telnet server. This directory holds TLA+ models of the parts the repository
itself contains, checked with TLC; every safety property the runs check is also proved
with TLAPS.

The CPU core, the standard peripherals, the Ethernet MAC, the debug bridge and
lwIP are git submodules whose sources are not here. They are the environment of the
models: each may do whatever the code that uses it has to cope with.

## The system

```
   host ---UART--- debug bridge (external) ---AXI4---+           CpuReset
                     |  GPIO bit 0: reset            |              |
                     v                               v              v reset
                  CPU core (external) --fetch--> tcm_mem (RAM, tcm_mem_pmem)
                     | data port                     ^
                     +--> dport_mux ----tcm----------+
                             |
                             ext
                             v
                 dport_axi -> axi4_axi4lite_conv -> axi4lite_dist --> irq, timer, uart, spi, gpio (external)
                                                        |
                                                        +--> eth_axi4lite -> byte FIFOs of the MAC (external)

   lwip_test: main loop -> ClearRxFifo, pano_netif_poll -> lwIP (external) -> pano_netif_output
                        -> link status to lwIP           lwIP -> TcpAccept, TcpRecv, TcpPoll
   eth_test:  main loop -> ClearRxFifo, print frames; button -> test frame
   blinky:    main loop -> LEDs; button -> rate
```

| component | state | operations | what makes it correct |
|---|---|---|---|
| FIFOs of the bridges (`dport_axi.v` 237-318, `tcm_mem_pmem.v` 369-442) | slots, two wrapping pointers, a count | push, pop, both | it is a bounded queue |
| `dport_axi.v` | request and response queue, two inhibit flags, a pending flag | accept a request, offer address and data, take the answer, acknowledge | one request on the bus; halves of a write stay paired; answers in order under their tags |
| `dport_mux.v` | a count of what is owed, the side used last | route, hold, acknowledge | answers of a fast and a slow side never overtake or get lost |
| `tcm_mem.v`, `tcm_mem_ram.v` | RAM, acknowledge and accept registers | fetch, CPU access, bridge access | each access once, answer to the right user |
| `tcm_mem_pmem.v` | the two bursts, request and response queue, a turn bit | AXI bursts into RAM accesses | every word once at its address, answers in order with their identity, queues never overflow |
| `axi4_axi4lite_conv.v` | burst address and counters of each direction | cut bursts, join answers | addresses AXI prescribes, one answer per burst |
| `axi4lite_dist.v` | selected port and pending flag per direction, a write latch | route requests and answers | each access reaches its slave once; late data belongs to its address |
| `eth_axi4lite.v` | answer register, write and read strobes | ETH_RX, ETH_TX, ETH_STATUS | the registers are two byte streams: no byte twice, none skipped |
| `reset_gen.v`, `fpga_top.v` 400-421 | power-on counter, arming flag, CPU reset | power up, stop, start | the CPU comes up by itself; a loaded program runs from its start |
| `pano_netif_poll`, `ClearRxFifo` | pbuf pool (lwIP's), position in the stream | take a frame, drop one, clear | stays in step with frame boundaries; no buffer lost |
| `pano_netif_output` | position in a pbuf chain | send a frame | the stream holds length and bytes of each frame |
| telnet server (`TcpAccept`, `TcpRecv`, `TcpPoll`) | one buffer and two flags shared by all connections | accept, receive, poll | what goes to `tcp_write` is what was typed; a line that was ended goes there, once; receive windows are given back |
| main loop of `lwip_test` | link status seen last | poll, report the link | lwIP knows of the link what holds in the end |
| `eth_test` | position in the stream | print frames, clear, send a frame on a press | stays in step with frame boundaries |
| `blinky`, the button (`ButtonJustPressed`) | LED, phase, rate; the last look | blink, look | a press acts once |
| simulation test bench (`fpga/tb`) | SystemC signals, wave files, a thread that loads and runs a program | relay, dump, reset, leave | the RTL samples inputs of before the edge; the CPU starts over its image; no wave file is lost |

Components interact by wires (request/accept/acknowledge and valid/ready pairs, one
clock) in hardware, by volatile register reads and writes between firmware and
hardware, and by callbacks between lwIP and the firmware. What is hard: two queues
kept in step by nothing but the circuit, handshakes whose halves come in any order,
answers from a fast and a slow side, a RAM port shared by two users, a register read
with a side effect, a stream without frame marks, resets of the CPU alone, globals that
callbacks of several connections share, and, in the test bench, processes that run in
whatever order the kernel picks.
`PROJECT.json` lists every such hazard at its line and the properties about it.

## How the models are written

*Hardware.* A state is one clock cycle. Registers are variables of the same names;
wires are operators of the registers and of the inputs; every `always` block is an
operator, and `Clock` is the clock edge that performs all of them at once, so each
model has the simultaneity of the circuit. Inputs that an interface rule ties to
earlier cycles (a request held until accepted) are variables; all others are chosen
anew each cycle (`\E p \in Inputs : Clock(p)`). Asynchronous reset occurs before the
first cycle. Widths are kept where they wrap: FIFO pointers and counts, the five bits
of `pending_q`, burst counters.

*Data.* The payload of a request is an id. Where an address or a word could be
misplaced, the data of a word is named by the address it is meant for, so a misplaced
access is visible in the state.

*Firmware.* A step is one access to a device register and the computation up to the
next one; the hardware moves between any two.

*Programs on the board.* `Board` lets the host of `CpuReset` stop, load and start the three
programs at any time; a program runs if the processor was released over exactly its image.
What a reset clears, what loading restores (the initial value of `ButtonLast`) and what
neither touches (button, link, receive FIFO) is told apart.

*Test bench.* SystemC's rule is the model: all processes that are ready run once, in any
order, what they write shows when all have run, and wakes others; time goes on when nothing
changes. A bundle of AXI signals is the set of its fields that are not zero.

*Promises.* Three modules say what a component promises and nothing of how:
`BoundedQueue`, `MemPort` (an in-order memory port: accepted requests are performed
once, in order, and acknowledged in order) and `EthDevice` (two byte streams);
`SharedRam` says what the users of one RAM get. The detailed modules are shown to implement them through
refinement mappings, and the next component is modelled on top of the promise:
`DportMux` on two `MemPort`s, `EthDriver` on the streams of
`EthDevice`.

## Modules

| module | models | implements | proofs |
|---|---|---|---|
| `RingFifo` | `dport_axi_fifo`, `tcm_mem_pmem_fifo2` | `BoundedQueue` | `DportAxiRingsProofs` |
| `DportAxi` | `dport_axi.v` and any AXI4-Lite slave | `MemPort` | `DportAxiRingsProofs` |
| `DportAxiRings` | `DportAxi` with the ring beside its queue of tags, on the same wires | | `DportAxiRingsProofs` |
| `DportMux` | `dport_mux.v` between two `MemPort`s | `MemPort` | `DportMuxProofs` |
| `TcmMem` | `tcm_mem.v`, `tcm_mem_ram.v`: fetch, data port, debug bridge | `SharedRam` | `TcmProofs` |
| `TcmPmem` | `tcm_mem_pmem.v` on a RAM port | `MemPort` per word of a burst | `TcmProofs` |
| `AxiLiteConv` | `axi4_axi4lite_conv.v` | `MemPort` for reads and for writes | `AxiLiteConvProofs` |
| `AxiLiteDist` | `axi4lite_dist.v` with its slaves | `MemPort` for reads and for writes | `AxiLiteDistProofs` |
| `EthRegs` | `eth_axi4lite.v` on the MAC's FIFOs | `EthDevice` | `EthernetProofs` |
| `CpuReset` | `reset_gen.v`, `fpga_top.v` 400-421, and the host that loads programs | | `BoardProofs` |
| `NetInput` | `ClearRxFifo`, `pano_netif_poll` | | `EthernetProofs` |
| `NetOutput` | `pano_netif_output` | | `EthernetProofs` |
| `EthDriver` | both on one CPU, with lwIP calling the one from the other | its receive side is `NetInput` | `EthernetProofs` |
| `Telnet` | `TcpAccept`, `TcpRecv`, `TcpPoll`, `TcpError`, and `ClearRxFifo` writing to their buffer | | `BoardProofs` |
| `LwipTest` | the main loop of `lwip_test`, which polls and reports the link | | |
| `Button`, `Blinky`, `EthTest` | `ButtonJustPressed`; `blinky`; `eth_test` | | `BoardProofs` |
| `Board` | the three programs on the processor that the host stops, loads and starts | its reset and host are `CpuReset` | `BoardProofs` |
| `AxiBundles`, `TestBench` | `axi4.h`, `axi4_lite.h`; the simulation test bench | | `BoardProofs` |

`MC*.tla` give the constants that a cfg cannot express; `*Proofs.tla` and
`QueueLemmas.tla` hold theorems. Some names carry a prefix (`BenchSpec`, `RegsSpec`,
`MemSpec`, ...) so that one module of proofs can extend several models. `map` in `PROJECT.json` gives the lines of every
definition. Definitions called `Mut...` are defects, used to see that each property
fails when the code has them; no specification uses them.

## Runs

| run | asks | bounds |
|---|---|---|
| `dport_axi` | does the ring hold the queue of tags, are the queues in step, is the bridge a memory port, does nothing wait for ever, for every slave | the circuit's own depths (two slots each); two ids: neighbours in a queue are equal or different, more ids show nothing new |
| `dport_mux` | is the multiplexer one memory port, is nothing held for ever | two requests outstanding per side, enough for an overtaking; two ids |
| `tcm_mem` | does each user get its own answers from the shared port | two words, two values, two tags, symmetric; the circuit treats all alike |
| `tcm_pmem` | are bursts performed word by word, in order, with read and write interleaved, without overflow or starvation | bursts of one to three words, queues of three slots (the circuit has four): a burst fills them, as four words would |
| `axi_lite_conv` | are bursts of every type cut and joined as AXI asks, and do they end | a single word, INCR of two, WRAP of four that wraps, FIXED of two |
| `axi_lite_dist` | does every access reach its slave and its answer the master | two connected ports and an unconnected one |
| `eth_regs` | are the registers two byte streams | FIFOs of two bytes: empty, one, full |
| `board` | does the CPU come up, and run what was loaded; does a press act once, do the programs find whole frames, does an ended line go to `tcp_write`, once, with what was typed, is the link told, however programs are stopped, loaded and started in between | four programs of two words and all 16 counts of the power-on reset; byte values 0-2 and a buffer that refuses a length of 2, so that `eth_test` meets frames it takes and frames it refuses; leftovers of none, one and three bytes at a start, one of which makes a refused length; four reads of `ClearRxFifo`; two connections, a telnet buffer of three bytes (two are kept) and windows of four, both filled by one segment of the five kinds, one of which may be chained (two bytes are then never given back); a link that is down or up at one of two speeds; two polls a turn |
| `test_bench` | does the RTL sample inputs of before the edge, does the CPU start over its image in a circuit out of reset, do both wave files show settled values, is none lost, whatever order processes run in and however the process ends | four command lines (options with values that look like options, no image), an image that fits and one that ends at the end of the RAM, each field of each bundle driven by itself, waves on, off and delayed by three half periods, SIGINT at any step |
| `eth_driver` | does the firmware stay in step across CPU resets, are pool and frames kept, does polling go on | byte values 0-2, so that lengths use both bytes and invalid ones occur; a receive FIFO of two frames, two pbufs, `ClearRxFifo` stopping after four reads (it can give up), two resets, two frames waiting for the MAC |

Where a run checks liveness it checks safety under the same specification, whose
fairness part leaves the safe behaviours as they are; in `DportMux` it also ties the
CPU to a request not yet accepted, and the safety of the multiplexer without that is what
`DportMuxProofs` proves. `RingInPlace`, `QueuesInStep`, `FlowInv`, `BurstInv`,
`StrobeInv`, `FramesWhole` and `FramesIntact` are conjunctions of the formulas named before
them in their modules, `InOrder` of the routing and of both directions' order;
`NothingStuck`, `BurstsEnd`, `Answered` and `ImplementsPorts` likewise.

Deadlock is checked in all runs but `test_bench`, whose process ends.

### Disagreements found

Two runs end in a violation on purpose.

* `cpu_reset_first`: the first program loaded after power-up is never started. The
  reset bit is 0 at power-up, so the host clearing it changes nothing and the CPU runs
  on while its memory is overwritten; setting it only arms the flag (`fpga_top.v` 411).
  The second load works. The project's README reports the symptom and no cause: programs
  "hang if loaded immediately after loading the bit file, but they run fine if the
  blinky application is run first". It is what `CpuReset` predicts.
* `eth_driver_chain`: of a chain of pbufs only the first one's payload is sent;
  `cp` never moves on (294-303), though "this pbuf might be chained" (266-267).
  `FramesIntact` holds: the length is right, and so are the bytes of a
  frame in one pbuf.

`cpu_reset_first` and `board` share the module of the reset: what fails for the first load
holds from the second on.

Four more were met while modelling and have no run. The telnet session of the project's README
(362-373) shows a line coming back, which not every line does: a line `tcp_write` refuses is
logged and gone (`lwip_test/main.c` 468-476), and by `lwipopts.h` 145 lwIP takes no more than
1072 bytes at a time, of the up to 1517 the buffer keeps. A received frame longer than a pool
pbuf is written on behind the first pbuf and not into the chain "from the pool"
(`lwip_test/main.c` 328-344; 592 bytes by `lwipopts.h` 167 with the default TCP_MSS):
`FramesWhole` states the bytes only of frames that fit. `eth_test` says "Click the pano button to
change the LED blink rate." (`eth_test/main.c` 55), but its `Fast` never changes: a press
sends a test frame. And ERR_OK ("if the packet could be
sent", 271) is returned for a frame that did not fit the transmit FIFO (307).

## Fairness

The clock runs: `WF_vars(Next)`. Beyond that each `FairSpec` assumes only what the
neighbours of the component guarantee: a slave takes what it is offered and answers
(`DportAxi`, `AxiLiteConv`, `AxiLiteDist`), a master takes the answers it waits for
(`READY` is not withheld for ever), the sender of a burst sends its data, the CPU keeps a request until it is accepted
(`CpuHolds`; the core's port has no way to withdraw one that the source allows).
Where one of several moves is always the next (halves of a write, the sides of the
multiplexer, a direction of the converter) the assumption is only that some move is made,
not each (`SlaveTakes`, `ReadMoves`, `WriteMoves`).
In `EthDriver` the CPU keeps executing (`WF` on the writes of a frame), and lwIP returns
from each call however many frames it sends first: `SF` on `Reads`, because the reading
side is disabled while a frame is being sent. Nothing is assumed of what lwIP keeps, which
may be all buffers for ever, nor of the wire. In `Board` the loop of `lwip_test` goes on (`WF` on `RunLoop`: `timer_sleep` returns), and
lwIP's timers run out at some poll again and again (`SF` on `RunTimer`: between polls it is
disabled); nothing is assumed of the host, the button, the link or the peers. `LineHandedOver`
therefore says no more than the code keeps: a line may wait for ever behind connections
that are accepted, or fail to be, again and again, each of which takes the next poll for a
welcome. It ends at the call of `tcp_write`: whether lwIP takes the line is not assumed. In `TestBench` the processor of the simulation goes on (`WF` on `Kernel`), whose
choice among ready processes is arbitrary; the program may never end.
`TcmMem` and `EthRegs` are checked for safety only.

## Proofs

TLC checks small instances; the theorems hold for every value of the constants, under the
assumptions the modules name. `PROJECT.json` lists them, with the property each one states.

### Queues

`QueueLemmas` has what the proofs need of sequences. Most of it follows from the axioms of
`Seq`; what a fold computes (`FlattenSeq`, `Max`, `MapThenFoldSet`) needs induction, and the
induction theorems of the library take the property as an operator, which the provers cannot
instantiate. `SetInduction` says the same of a set of naturals: it is a first-order fact, and
the set of the lengths for which a law holds is the set it is applied to.

### The data port

* `DportAxiRingsProofs`, the ring: it is a bounded queue, for every depth and data. The
  invariant ties the count to the distance of the pointers modulo the depth; without it a
  full and an empty ring look alike. Clocked by the bridge's own wires it holds at every edge
  what the bridge's queue of tags holds (`RingInPlace`), and it only watches (`RingIsAside`:
  the bridge with it is the bridge without it), so the theorems of the bridge hold of the
  specification the run checks.
* `DportAxiRingsProofs`, the bridge: it keeps its queues in step, pairs the halves of writes,
  acknowledges under the right tag, keeps what it offers until it is taken (`OffersStand`) and
  is an in-order memory port, for every set of ids and every AXI4-Lite slave the model allows.
  The inductive invariant describes where the head of the request queue is: not offered, one
  half taken (and which), at the slave, or answered. `QueuesInStep` alone is not inductive,
  because a step of the slave can only be judged knowing what the slave holds.
* `DportMuxProofs`: `pending_q` counts exactly what is owed, no acknowledgement is dropped, and
  the multiplexer is one in-order port, for all ids and every depth of the sides the counter
  can count. The invariant says that everything owed is owed by the side used last.
  Assumption (`NoExtCacheOps`): no cache operation is sent to the peripherals.

### The memory

* `TcmProofs`, the RAM: fetch, data port and debug bridge see one RAM (`OneMemory`), for all
  words, data and tags. For the CPU this contains what `DportMux` asks of its memory side:
  each accepted request, cache operations too, is answered once, in order, under its tag.
* `TcmProofs`, the bridge's port: queues do not overflow, what is held stays, and each word of
  data goes where it is meant for (`BurstsFlow`); a burst is performed word by
  word, in order, with its identity (`BurstsAreAccesses`), for every set of bursts and depth.
  That each word lands where it should (`WritesLand`) looks at one word only and is not
  inductive: the next one has to be known as well. The invariant says instead what all data at
  hand is, the rest of the burst in progress followed by that of the burst offered
  (`DataInv`), and that a burst of one direction only is in progress (`Exclusive`).

### The peripheral bus

* `AxiLiteConvProofs`: a burst has the converter to itself and each word of data lands where it
  is meant for (`BurstsFitRegisters`); each direction performs the words of a burst once, in
  order, at the addresses AXI gives them (`BurstsPerformed`). The invariants (`ReadInv`,
  `WriteInv`) say that the count is that of the words still to come and that the data at hand
  is theirs, or that of the burst on offer. Assumption (`BurstAssumption`): wrapping bursts
  have 1, 2, 4, 8 or 16 words; AXI has no others, and forbids that of one, which the code
  passes on.
* `AxiLiteDistProofs`: every access reaches the port it selects and its answer the master, in
  order, and late write data goes where its address went; for every set of ports. The
  invariants say that what is remembered of a direction is where the one access under way is.

### Ethernet

* `EthernetProofs`, the registers: the strobes of the two FIFOs come for one access each
  (`StrobesApart`), and the registers are two byte streams (`RegistersAreDevice`), for every set
  of bytes and depth of the FIFOs.
* `EthernetProofs`, the driver: whatever lwIP sends, the receive side is `NetInput`
  (`SendingApart`), so what holds of it holds in the composition; and no path of
  `pano_netif_poll` loses a pool buffer (`BuffersKept`).
* `FramesReachLwip`: in any traffic, with CPU resets at any step, what lwIP gets are whole
  frames, in order, until `ClearRxFifo` gives up, and again from the first poll on that finds
  the FIFO empty. `InStep` speaks of the loop's head and says nothing in the middle of a frame;
  the invariant
  (`KeepsStep`) says for every place in the code that what is left in the FIFO is the rest of
  the frame at hand followed by whole frames.
* `FramesReachMac`: the transmit stream holds whole frames, the length right and, of a frame
  in one pbuf, the bytes, up to where the FIFO overflowed or a reset cut it, in any
  interleaving with receiving. The invariant (`OutInv`) says that what
  was written of the frame under way is its beginning, and that the pbufs ahead hold as much as
  is still to be written. Assumption (`OutputAssumption`): a u16_t holds what two bytes do.

### The board

* Reset: from the second start on, the CPU runs from reset over the memory the host left; until
  the first setting of the bit it runs; memory does not change under it once armed. The
  invariant says that the registers have caught up with the host's last command one clock edge
  after it. Whatever programs, button and peers do, reset and host are `CpuReset`
  (`ProgramsApart`, a refinement), so these theorems hold of the board.
* `OncePerPress`: `PressActsOnce` is not inductive: a press counted once must also have been
  seen by the last look, and one older than the program leaves the last look at no value or at
  pressed (`PressInv`).
* `TestFramesWhole`: `eth_test` reads whole frames and leaves whole test frames. The program's
  variables are its own only while its image is the one that was booted, and are the initial
  ones while it is in reset (`FramesInv`); without the second part a start could find anything.
* `WindowsAccount`: windows are short by what is never looked at. It has to hold of closed
  connections too, which count as fresh (`Accounted`).
* `LinesShareBuffer`: what goes to `tcp_write` is what was typed, over all connections, but for
  what the code cuts off or `ClearRxFifo` writes over; `LinesHandedOnce`: it goes there once,
  and only if a line of it was ended. As for frames, the invariant (`SharedInv`)
  tells the runs of `lwip_test` from those of other programs. `Text` and what a segment adds are
  recursive functions and folds; the proof first shows that such functions exist, forwards and
  backwards, and then compares buffer and text byte by byte.
* Assumptions: `ProgramsAssumption` (there is a memory, and the programs differ),
  `StreamAssumption` (frames are sequences of numbers), `WindowAssumption` (sizes are natural
  numbers, the buffer has a byte, texts are of the three kinds of bytes).

### The test bench

* `NoWaveLost`: a wave file with something in it is closed when the process is over. The
  invariant (`FileInv`) follows the pointer and the file through nested calls of `abort()`.
* `SimInvariant`: the two resets pass four phases (before, circuit held, processor held, both
  released), and a phase travels from the threads to the signals, through the relay to the inputs of
  the RTL and into it. The invariant (`Pipeline`) gives each of these places its phase: they
  are in order and at most one apart, where two differ the process between them is ready to
  run, and when time goes on they are equal. From it follow `EdgesSeeBefore`, `ImageRuns`
  and, with what it says of the outputs (`Pins`), `WaveFilesAgree`, in whatever order the
  processes run. None of the three is inductive: that a process will run is the kernel's
  business, and it shows only in the list of ready processes.
* Assumptions: outputs of the RTL are fields of the bundles (`DriveAssumption`); of a command
  line at most one image is loaded, and it ends the line (`ImageAssumption`), as in the command
  of the bench's `Makefile` (44).

### Only model-checked

All liveness (`NothingStuck` of the bridge, the multiplexer and the memory's port,
`BurstsEnd`, `Answered`, `PollsForever`, `LineHandedOver`, `LinkTold`, `CpuStarted`): it needs
`ENABLED` and fairness, which the prover does not handle.

## What is not modelled

* Cache operations to peripheral addresses: the bridge accepts and never answers them
  (`dport_axi.v` 56-58, 138). Whether the core issues any is not in the source.
* Bursts of 256 words (a length of 255) through `axi4_axi4lite_conv.v`, whose count of 8 bits
  then wraps (275): `BurstAssumption` leaves them out. The one master connected to it is the
  CPU's data port, which makes single accesses (`dport_axi.v` has no length at all; the wrapper
  that turns them into AXI4 is in a submodule).
* Write beats without a byte enabled, and a master that wants AWREADY before it sends
  data (`tcm_mem_pmem.v` 320, 334); the debug bridge does neither.
* A CPU reset during an access: the circuit behind the CPU is not reset and answers
  the restarted core.
* What the bytes behind the first pbuf overwrite when a frame is longer than it: in
  `eth_driver` no length, valid or not, exceeds a pbuf.
* How soon the debug bridge lets the CPU back at the RAM (`tcm_mem.v` 258): the bridge has
  priority, and its own pace is not in the source.
* What follows a transmit FIFO that overflows, or a CPU reset in the middle of a
  transmitted frame: nothing in the firmware recovers from either, and the properties of
  the transmit side are stated up to it (`cut`).
* Recovery of the receive side from a `ClearRxFifo` that gave up, under uninterrupted traffic:
  `FramesWhole` claims it only from the first poll on that finds the FIFO empty (`lost`).
* In `Board`: the LEDs `eth_test` and `lwip_test` blink (as those of `Blinky`), which have no part in any
  other state; what a stopped `eth_test` left in the transmit FIFO (each start finds it
  empty, and nothing in the programs looks); the frames of `lwip_test`, which are in
  `EthDriver`: of `ClearRxFifo` there remains that it writes over the telnet buffer. A
  start is taken to find variables without an initial value cleared by the start code, which is
  not in the repository.
* What becomes of text after the call of `tcp_write`: whether lwIP takes it, and sends it.
* In `WindowAccounts`, a window that shrinks for good by what came in later pbufs of a chain is
  what the code does (438-439): `dropped` counts those bytes, and the property is about any
  other error in what is given back.
* Connections a peer closes: `TcpRecv` only writes to the log; they stay until lwIP gives
  them up.
* In `TestBench`: the values of memory accesses, the seed, and what the program's accesses to
  peripherals wait for: nothing in the bench drives the inputs of `axi_i_in` and
  `axi_t_in`, so such an access never ends. `create_memory` refuses an image that ends at
  the last byte of the RAM (`testbench.h` 97 has `<`), which the model does as well.
* The line the two UARTs share (`top.v` 221): both ends are external, and their bits are all
  there is to it.
* Wiring modules, the board's pins and clocks, the random numbers (a library `rand`),
  lwIP's options, `spiffs_config_*.h` (used by no program), build files: see `components` in
  `PROJECT.json`.

## Plan

Done: the FIFOs, the data port (bridge and multiplexer), the memory and the bridge's
port to it, the peripheral bus, the Ethernet registers, the reset, the Ethernet input and
output, the telnet server, the three programs on one board, the test bench; a theorem for
every safety property of the passing runs.

1. `PeriphBus`, in place of the runs of the converter and the distributor: `DportAxi`,
   `AxiLiteConv`, `AxiLiteDist` and `EthRegs` composed, shown to be a `MemPort` to the
   Ethernet registers, with proofs that rest on the promises of the four.
2. The converter's assertion on AWREADY and WREADY (`axi4_axi4lite_conv.v` 287-298): which
   slaves never break it, as an invariant of that composition.
3. The side conditions of the liveness properties as invariants with proofs: in every state
   that is not at rest some move is enabled.
