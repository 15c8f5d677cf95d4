------------------------- MODULE AxiLiteDistProofs --------------------------
(***************************************************************************)
(* The distributor of the peripheral bus, for every set of connected ports *)
(* and of requests: what it remembers is where the one access under way is *)
(* in each direction (ReadInv, WriteInv), and so the master is served as   *)
(* by one slave.                                                           *)
(***************************************************************************)
EXTENDS AxiLiteDist, QueueLemmas

-----------------------------------------------------------------------------
(* The accesses at the slaves.                                             *)

\* No slave has an access: none is owed.
LEMMA OwedNone ==
    ASSUME NEW f, \A s \in Ports : f[s] = <<>>
    PROVE  Owed(f) = <<>>
BY DEF Owed

\* One slave has an access: that is it.
LEMMA OwedOne ==
    ASSUME NEW f, NEW s \in Ports, f[s] # <<>>, \A t \in Ports : f[t] # <<>> => t = s
    PROVE  Owed(f) = f[s]
<1>1. (CHOOSE t \in Ports : f[t] # <<>>) = s
  OBVIOUS
<1> QED BY <1>1, Zenon DEF Owed

\* What the slaves have after the answers of those given are taken and those
\* in made are given the access x.
At(f, s, given, made, x) ==
    (IF s \in given THEN Tail(f[s]) ELSE f[s]) \o (IF s \in made THEN <<x>> ELSE <<>>)
Moved(f, given, made, x) == [s \in Ports |-> At(f, s, given, made, x)]

\* None is given an access and none has its answer taken.
LEMMA NothingHappens ==
    ASSUME NEW R, NEW f \in [Ports -> Seq(R)], NEW x
    PROVE  Moved(f, {}, {}, x) = f
<1>1. ASSUME NEW s \in Ports PROVE At(f, s, {}, {}, x) = f[s]
  <2>1. f[s] \in Seq(R)
    OBVIOUS
  <2>2. f[s] \o <<>> = f[s]
    BY <2>1, ConcatEmptySeq
  <2> QED BY <2>2, Zenon DEF At
<1> QED BY <1>1 DEF Moved

\* A slave is given the first access.
LEMMA OneMade ==
    ASSUME NEW f, NEW x, NEW m \in Ports, \A s \in Ports : f[s] = <<>>
    PROVE  /\ Moved(f, {}, {m}, x) = [s \in Ports |-> IF s = m THEN <<x>> ELSE <<>>]
           /\ Owed(f) = <<>> /\ Owed(Moved(f, {}, {m}, x)) = <<x>>
<1> DEFINE g == Moved(f, {}, {m}, x)
           h == [s \in Ports |-> IF s = m THEN <<x>> ELSE <<>>]
<1>1. <<>> \o <<>> = <<>> /\ <<>> \o <<x>> = <<x>>
  <2>1. <<>> \in Seq({x}) /\ <<x>> \in Seq({x})
    BY EmptySeq
  <2> DEFINE one == <<x>>
  <2> HIDE DEF one
  <2>2. one \in Seq({x})
    BY <2>1 DEF one
  <2>3. <<>> \o one = one /\ <<>> \o <<>> = <<>>
    BY <2>1, <2>2, ConcatEmptySeq
  <2> QED BY <2>3 DEF one
<1>2. ASSUME NEW s \in Ports PROVE At(f, s, {}, {m}, x) = IF s = m THEN <<x>> ELSE <<>>
  <2>2. CASE s = m
    BY <1>1, <2>2, Zenon DEF At
  <2>3. CASE s # m
    BY <1>1, <2>3, Zenon DEF At
  <2> QED BY <2>2, <2>3
<1>3. g = h
  BY <1>2, Zenon DEF Moved
<1>4. Owed(f) = <<>>
  BY OwedNone
<1>5. \A s \in Ports : h[s] = IF s = m THEN <<x>> ELSE <<>>
  OBVIOUS
<1> HIDE DEF g, h
<1>6. <<x>> # <<>>
  OBVIOUS
<1>7. Owed(h) = <<x>>
  BY <1>5, <1>6, OwedOne
<1> QED BY <1>3, <1>4, <1>7 DEF g, h

\* The answer to the only access is taken.
LEMMA OneGiven ==
    ASSUME NEW f, NEW x, NEW y, NEW m \in Ports,
           f[m] = <<y>>, \A s \in Ports : f[s] # <<>> => s = m
    PROVE  /\ Moved(f, {m}, {}, x) = [s \in Ports |-> <<>>]
           /\ Owed(f) = <<y>> /\ Owed(Moved(f, {m}, {}, x)) = <<>>
<1> DEFINE g == Moved(f, {m}, {}, x)
           h == [s \in Ports |-> <<>>]
<1>1. <<>> \o <<>> = <<>> /\ Tail(<<y>>) = <<>> /\ <<y>> # <<>>
  <2>1. <<>> \in Seq({x})
    BY EmptySeq
  <2>2. <<>> \o <<>> = <<>>
    BY <2>1, ConcatEmptySeq
  <2> QED BY <2>1, <2>2
<1>2. ASSUME NEW s \in Ports PROVE At(f, s, {m}, {}, x) = <<>>
  <2>2. CASE s = m
    BY <1>1, <2>2, Zenon DEF At
  <2>3. CASE s # m
    BY <1>1, <2>3, Zenon DEF At
  <2> QED BY <2>2, <2>3
<1>3. g = h
  BY <1>2, Zenon DEF Moved
<1>4. Owed(f) = <<y>>
  BY <1>1, OwedOne
<1>5. \A s \in Ports : h[s] = <<>>
  OBVIOUS
<1> HIDE DEF g, h
<1>6. Owed(h) = <<>>
  BY <1>5, OwedNone
<1> QED BY <1>3, <1>4, <1>6 DEF g, h

-----------------------------------------------------------------------------
(* Reads.                                                                  *)

\* A read at a slave is the one the distributor waits for, and an answer
\* belongs to a read.
ReadInv ==
    /\ rowed \in [Ports -> Seq(Request)]
    /\ \A s \in Ports : rowed[s] # <<>> =>
           /\ read_pending_q /\ read_sel_q = s
           /\ \E r \in Request : r.port = s /\ rowed[s] = <<r>>
    /\ rvalid \subseteq Ports /\ \A s \in rvalid : rowed[s] # <<>>
    /\ read_sel_q \in Selectable /\ read_pending_q \in BOOLEAN /\ ar \in Request \cup {None}

\* The slaves' side of the reads in one cycle.
LEMMA ReadSlaves ==
    ASSUME NEW p \in Inputs, Clock(p)
    PROVE  /\ rowed' = Moved(rowed, IF p.rready THEN rvalid \cap {read_sel_q} ELSE {},
                             IF read_made(p) THEN {read_sel} ELSE {}, ar)
           /\ rvalid' \subseteq Ports /\ \A s \in rvalid' : rowed'[s] # <<>>
BY Zenon DEF Clock, Slaves, Slave, At, Moved

\* In a cycle a read is performed, or an answer taken, or neither.
LEMMA ReadCases ==
    ASSUME ReadInv, NEW p \in Inputs, Clock(p)
    PROVE  \/ /\ read_made(p) /\ ~read_given(p)
              /\ ar \in Request /\ \A s \in Ports : rowed'[s] = IF s = ar.port THEN <<ar>> ELSE <<>>
              /\ read_pending_q' /\ read_sel_q' = ar.port
              /\ Owed(rowed) = <<>> /\ Owed(rowed') = <<ar>>
              /\ rowed' \in [Ports -> Seq(Request)]
           \/ /\ read_given(p) /\ ~read_made(p)
              /\ Owed(rowed) # <<>> /\ Tail(Owed(rowed)) = <<>>
              /\ \A s \in Ports : rowed'[s] = <<>>
              /\ Owed(rowed') = <<>>
              /\ rowed' \in [Ports -> Seq(Request)]
           \/ /\ ~read_made(p) /\ ~read_given(p)
              /\ rowed' = rowed /\ read_pending_q' = read_pending_q
              /\ read_pending_q => read_sel_q' = read_sel_q
<1> USE DEF ReadInv
<1>1. ReadSide(p) /\ p.rready \in BOOLEAN /\ p.arready \in BOOLEAN
  BY DEF Clock, Inputs
<1>2. rowed' = Moved(rowed, IF p.rready THEN rvalid \cap {read_sel_q} ELSE {},
                        IF read_made(p) THEN {read_sel} ELSE {}, ar)
  BY ReadSlaves
<1>3. ~read_pending_q => rvalid = {} /\ \A s \in Ports : rowed[s] = <<>>
  OBVIOUS
<1>4. CASE read_made(p)
  <2>1. /\ ~read_pending_q /\ ar # None /\ ar \in Request /\ ar.port \in Ports /\ read_sel = ar.port
        /\ in_arready(p)
    BY <1>4 DEF read_made, read_out, read_ready, read_sel, in_arvalid, in_arready
  <2>2. rvalid = {} /\ ~read_given(p)
    BY <1>3, <2>1 DEF read_given, in_rvalid
  <2>3. read_pending_q' /\ read_sel_q' = ar.port
    BY <1>1, <2>1, <2>2, Zenon DEF ReadSide, in_arvalid
  <2>4. rowed' = Moved(rowed, {}, {ar.port}, ar)
    <3>1. (IF p.rready THEN rvalid \cap {read_sel_q} ELSE {}) = {}
      BY <2>2
    <3> QED BY <1>2, <1>4, <2>1, <3>1, Zenon
  <2>5. /\ rowed' \in [Ports -> Seq(Request)]
        /\ \A s \in Ports : rowed'[s] = IF s = ar.port THEN <<ar>> ELSE <<>>
        /\ Owed(rowed) = <<>> /\ Owed(rowed') = <<ar>>
    <3>1. /\ rowed' = [s \in Ports |-> IF s = ar.port THEN <<ar>> ELSE <<>>]
          /\ Owed(rowed) = <<>> /\ Owed(rowed') = <<ar>>
      BY <1>3, <2>1, <2>4, OneMade
    <3>2. <<ar>> \in Seq(Request) /\ <<>> \in Seq(Request)
      BY <2>1, EmptySeq
    <3> QED BY <3>1, <3>2
  <2> QED BY <1>4, <2>1, <2>2, <2>3, <2>5, Zenon
<1>5. CASE read_given(p)
  <2>1. read_sel_q \in rvalid /\ p.rready
    BY <1>5 DEF read_given, in_rvalid
  <2>2. read_sel_q \in Ports /\ rowed[read_sel_q] # <<>> /\ read_pending_q
    BY <2>1
  <2>3. ~read_made(p)
    BY <2>2 DEF read_made, read_out
  <2>4. rowed' = Moved(rowed, {read_sel_q}, {}, ar)
    <3>1. (IF p.rready THEN rvalid \cap {read_sel_q} ELSE {}) = {read_sel_q}
      BY <2>1
    <3> QED BY <1>2, <2>3, <3>1, Zenon
  <2>5. PICK r \in Request : rowed[read_sel_q] = <<r>>
    BY <2>2
  <2>6. \A s \in Ports : rowed[s] # <<>> => s = read_sel_q
    OBVIOUS
  <2>7. /\ rowed' \in [Ports -> Seq(Request)]
        /\ \A s \in Ports : rowed'[s] = <<>>
        /\ Owed(rowed) = <<r>> /\ Owed(rowed') = <<>>
    <3>1. /\ rowed' = [s \in Ports |-> <<>>]
          /\ Owed(rowed) = <<r>> /\ Owed(rowed') = <<>>
      BY <2>2, <2>4, <2>5, <2>6, OneGiven
    <3>2. <<>> \in Seq(Request)
      BY EmptySeq
    <3> QED BY <3>1, <3>2
  <2>8. <<r>> # <<>> /\ Tail(<<r>>) = <<>>
    OBVIOUS
  <2> QED BY <1>5, <2>3, <2>7, <2>8, Zenon
<1>6. CASE ~read_made(p) /\ ~read_given(p)
  <2>1. (IF p.rready THEN rvalid \cap {read_sel_q} ELSE {}) = {}
    BY <1>6 DEF read_given, in_rvalid
  <2>2. rowed' = Moved(rowed, {}, {}, ar)
    BY <1>2, <1>6, <2>1, Zenon
  <2>3. rowed' = rowed
    BY <2>2, NothingHappens
  <2>4. read_pending_q' = read_pending_q
    <3>1. CASE read_pending_q
      BY <1>1, <1>6, <3>1, Zenon DEF ReadSide
    <3>2. CASE ~read_pending_q
      <4>1. in_arvalid => in_arready(p) = FALSE
        BY <1>1, <1>6, <3>2, Zenon DEF read_made, read_out, in_arready, read_ready
      <4> QED BY <1>1, <1>6, <3>2, <4>1, Zenon DEF ReadSide
    <3> QED BY <3>1, <3>2
  <2>5. read_pending_q => read_sel_q' = read_sel_q
    BY <1>1, Zenon DEF ReadSide, read_sel
  <2> QED BY <1>6, <2>3, <2>4, <2>5, Zenon
<1> QED BY <1>4, <1>5, <1>6

\* What holds of the reads is kept.
LEMMA ReadInvStep ==
    ASSUME ReadInv, NEW p \in Inputs, Clock(p) PROVE ReadInv'
<1>1. rvalid' \subseteq Ports /\ \A s \in rvalid' : rowed'[s] # <<>>
  BY ReadSlaves
<1>2. read_sel_q' \in Selectable /\ read_pending_q' \in BOOLEAN /\ ar' \in Request \cup {None}
  <2>1. ReadSide(p) /\ Master(p)
    BY DEF Clock
  <2>2. ar' \in Request \cup {None}
    BY <2>1 DEF Master, ReadInv
  <2>3. ar.port \in Selectable
    BY RequestAssumption DEF ReadInv, None, Selectable
  <2>4. read_sel_q' \in Selectable
    BY <2>1, <2>3 DEF ReadSide, read_sel, ReadInv
  <2>5. read_pending_q' \in BOOLEAN
    BY <2>1, Zenon DEF ReadSide, in_arready, ReadInv
  <2> QED BY <2>2, <2>4, <2>5
<1>3. /\ rowed' \in [Ports -> Seq(Request)]
      /\ \A s \in Ports : rowed'[s] # <<>> =>
           /\ read_pending_q' /\ read_sel_q' = s
           /\ \E r \in Request : r.port = s /\ rowed'[s] = <<r>>
  BY ReadCases DEF ReadInv
<1> QED BY <1>1, <1>2, <1>3, Zenon DEF ReadInv

-----------------------------------------------------------------------------
(* Writes.                                                                 *)

\* What a slave is given for a write; and the address on offer.
WriteItem == [addr : Request, data : Request]
Offered == IF aw # None THEN <<aw>> ELSE <<>>

\* A write at a slave is the one the distributor waits for, and has the data it
\* was sent with; the data ready is that of the address kept and of the one on
\* offer.
WriteInv ==
    /\ bowed \in [Ports -> Seq(WriteItem)]
    /\ \A s \in Ports : bowed[s] # <<>> =>
           /\ write_pending_q /\ write_sel_q = s
           /\ \E r \in Request : r.port = s /\ bowed[s] = <<[addr |-> r, data |-> r]>>
    /\ bvalid \subseteq Ports /\ \A s \in bvalid : bowed[s] # <<>>
    /\ write_sel_q \in Selectable /\ write_pending_q \in BOOLEAN
    /\ awvalid_q \in BOOLEAN /\ wvalid \in BOOLEAN
    /\ aw \in Request \cup {None} /\ awaddr_q \in Request \cup {None}
    /\ awvalid_q => awaddr_q \in Request
    /\ wdata = Kept \o Offered

\* The address of one write, and of none.
LEMMA AddressesOne ==
    /\ Addresses(<<>>) = <<>>
    /\ \A r : Addresses(<<[addr |-> r, data |-> r]>>) = <<r>>
<1>1. Addresses(<<>>) = <<>>
  BY EmptySeq DEF Addresses
<1>2. ASSUME NEW r PROVE Addresses(<<[addr |-> r, data |-> r]>>) = <<r>>
  BY DEF Addresses
<1> QED BY <1>1, <1>2

\* The data at the head is that of the write whose turn it is.
LEMMA WriteData ==
    ASSUME WriteInv
    PROVE  /\ Kept \in Seq(Request) /\ Offered \in Seq(Request) /\ wdata \in Seq(Request)
           /\ in_awvalid => in_awaddr \in Request
           /\ in_awvalid /\ ~write_pending_q =>
                 /\ Head(wdata) = in_awaddr
                 /\ Tail(wdata) = IF awvalid_q THEN Offered ELSE <<>>
<1> USE DEF WriteInv
<1>1. /\ Kept \in Seq(Request) /\ Offered \in Seq(Request) /\ <<>> \in Seq(Request)
  BY EmptySeq DEF Kept, Offered
<1>2. wdata \in Seq(Request)
  BY <1>1, ConcatProperties
<1>3. in_awvalid => in_awaddr \in Request
  BY DEF in_awvalid, in_awaddr
<1>4. ASSUME in_awvalid, ~write_pending_q
      PROVE  Head(wdata) = in_awaddr /\ Tail(wdata) = IF awvalid_q THEN Offered ELSE <<>>
  <2>1. CASE awvalid_q
    <3>1. Kept = <<awaddr_q>> /\ Kept # <<>> /\ Head(Kept) = awaddr_q /\ Tail(Kept) = <<>>
      BY <1>4, <2>1 DEF Kept
    <3>2. /\ Left(Kept \o Offered, TRUE) = Left(Kept, TRUE) \o Offered
          /\ Head(Kept \o Offered) = Head(Kept)
      <4> HIDE DEF WriteInv
      <4>1. \A gone \in BOOLEAN : (gone => Kept # <<>>) =>
               /\ Left(Kept \o Offered, gone) = Left(Kept, gone) \o Offered
               /\ gone => Head(Kept \o Offered) = Head(Kept)
        BY <1>1, LeftOfConcat
      <4>2. TRUE \in BOOLEAN
        OBVIOUS
      <4> QED BY <3>1, <4>1, <4>2, Zenon
    <3>3. Tail(wdata) = Tail(Kept) \o Offered /\ Head(wdata) = Head(Kept)
      BY <3>2, Zenon DEF Left
    <3>4. <<>> \o Offered = Offered
      BY <1>1, ConcatEmptySeq
    <3> QED BY <2>1, <3>1, <3>3, <3>4, Zenon DEF in_awaddr
  <2>2. CASE ~awvalid_q
    <3>1. Kept = <<>> /\ Offered = <<aw>>
      BY <1>4, <2>2 DEF Kept, Offered, in_awvalid
    <3>2. wdata = <<aw>>
      BY <1>1, <3>1, ConcatEmptySeq
    <3> QED BY <2>2, <3>2 DEF in_awaddr
  <2> QED BY <2>1, <2>2
<1> QED BY <1>1, <1>2, <1>3, <1>4

\* The slaves' side of the writes in one cycle.
LEMMA WriteSlaves ==
    ASSUME NEW p \in Inputs, Clock(p)
    PROVE  /\ bowed' = Moved(bowed, IF p.bready THEN bvalid \cap {write_sel_q} ELSE {},
                             IF write_made(p) THEN {write_sel} ELSE {},
                             [addr |-> in_awaddr, data |-> Head(wdata)])
           /\ bvalid' \subseteq Ports /\ \A s \in bvalid' : bowed'[s] # <<>>
BY Zenon DEF Clock, Slaves, Slave, At, Moved

\* A write with the data sent for it.
Write(r) == [addr |-> r, data |-> r]

\* A write is performed.
LEMMA WriteMade ==
    ASSUME WriteInv, NEW p \in Inputs, Clock(p), write_made(p)
    PROVE  /\ ~write_given(p) /\ w_taken(p) /\ wvalid /\ in_awaddr \in Request
           /\ in_awaddr.port \in Ports /\ ~write_pending_q
           /\ bowed' = [s \in Ports |-> IF s = in_awaddr.port THEN <<Write(in_awaddr)>> ELSE <<>>]
           /\ Owed(bowed) = <<>> /\ Owed(bowed') = <<Write(in_awaddr)>>
           /\ write_pending_q' = TRUE /\ write_sel_q' = in_awaddr.port
           /\ awvalid_q' = awvalid_q /\ Kept' = <<>>
           /\ \/ aw_taken(p) /\ Kept = <<>> /\ in_awaddr = aw /\ ~awvalid_q
              \/ ~aw_taken(p) /\ Kept = <<in_awaddr>> /\ awvalid_q
           /\ Tail(wdata) = IF aw_taken(p) THEN <<>> ELSE Offered
<1>1. WriteSide(p) /\ AddressLatch(p) /\ p.bready \in BOOLEAN /\ p.awready \in BOOLEAN
  BY DEF Clock, Inputs
<1>2. /\ in_awvalid /\ wvalid /\ ~write_pending_q /\ write_ready(p) /\ w_taken(p) /\ in_wready(p)
      /\ write_sel = in_awaddr.port /\ in_awaddr.port \in Ports
  BY DEF write_made, write_out, write_ready, write_sel, w_taken, in_wready
<1>3. /\ bvalid = {} /\ \A s \in Ports : bowed[s] = <<>>
  BY <1>2 DEF WriteInv
<1>4. ~write_given(p)
  BY <1>3 DEF write_given, in_bvalid
<1>5. /\ in_awaddr \in Request /\ Head(wdata) = in_awaddr
      /\ Tail(wdata) = IF awvalid_q THEN Offered ELSE <<>>
  BY <1>2, WriteData
<1>6. bowed' = Moved(bowed, {}, {in_awaddr.port}, Write(in_awaddr))
  <2>1. (IF p.bready THEN bvalid \cap {write_sel_q} ELSE {}) = {}
    BY <1>3
  <2>2. [addr |-> in_awaddr, data |-> Head(wdata)] = Write(in_awaddr)
    BY <1>5 DEF Write
  <2> QED BY <1>2, <2>1, <2>2, WriteSlaves, Zenon
<1>7. /\ bowed' = [s \in Ports |-> IF s = in_awaddr.port THEN <<Write(in_awaddr)>> ELSE <<>>]
      /\ Owed(bowed) = <<>> /\ Owed(bowed') = <<Write(in_awaddr)>>
  BY <1>2, <1>3, <1>6, OneMade
<1>8. write_pending_q' = TRUE /\ write_sel_q' = in_awaddr.port
  BY <1>1, <1>2, <1>4, Zenon DEF WriteSide, write_out
<1>9. awvalid_q' = awvalid_q
  BY <1>1, <1>2, <1>4, Zenon DEF AddressLatch, WriteInv
<1>10. Kept' = <<>>
  BY <1>8, Zenon DEF Kept
<1>11. CASE awvalid_q
  <2>1. ~aw_taken(p) /\ Kept = <<in_awaddr>>
    BY <1>2, <1>11 DEF aw_taken, in_awready, Kept, in_awaddr
  <2> QED BY <1>2, <1>4, <1>5, <1>7, <1>8, <1>9, <1>10, <1>11, <2>1, Zenon
<1>12. CASE ~awvalid_q
  <2>1. aw_taken(p) /\ Kept = <<>> /\ in_awaddr = aw
    BY <1>2, <1>12 DEF aw_taken, in_awready, Kept, in_awaddr, in_awvalid
  <2> QED BY <1>2, <1>4, <1>5, <1>7, <1>8, <1>9, <1>10, <1>12, <2>1, Zenon
<1> QED BY <1>11, <1>12

\* The answer to a write is taken.
LEMMA WriteGiven ==
    ASSUME WriteInv, NEW p \in Inputs, Clock(p), write_given(p)
    PROVE  /\ ~write_made(p) /\ ~w_taken(p) /\ ~aw_taken(p)
           /\ bowed' = [s \in Ports |-> <<>>]
           /\ \E r \in Request : Owed(bowed) = <<Write(r)>>
           /\ Owed(bowed') = <<>>
           /\ Kept = <<>> /\ Kept' = <<>> /\ awvalid_q' = FALSE /\ write_pending_q' = FALSE
<1>1. WriteSide(p) /\ AddressLatch(p) /\ p.bready \in BOOLEAN /\ p.awready \in BOOLEAN
  BY DEF Clock, Inputs
<1>2. write_sel_q \in bvalid /\ p.bready
  BY DEF write_given, in_bvalid
<1>3. write_sel_q \in Ports /\ bowed[write_sel_q] # <<>> /\ write_pending_q
  BY <1>2 DEF WriteInv
<1>4. ~write_made(p) /\ ~w_taken(p) /\ ~aw_taken(p)
  BY <1>3 DEF write_made, write_out, w_taken, in_wready, aw_taken, in_awready
<1>5. bowed' = Moved(bowed, {write_sel_q}, {}, [addr |-> in_awaddr, data |-> Head(wdata)])
  <2>1. (IF p.bready THEN bvalid \cap {write_sel_q} ELSE {}) = {write_sel_q}
    BY <1>2
  <2> QED BY <1>4, <2>1, WriteSlaves, Zenon
<1>6. PICK r \in Request : bowed[write_sel_q] = <<Write(r)>>
  BY <1>3 DEF WriteInv, Write
<1> DEFINE x == [addr |-> in_awaddr, data |-> Head(wdata)]
           y == Write(r)
<1> HIDE DEF x, y
<1>7. \A s \in Ports : bowed[s] # <<>> => s = write_sel_q
  BY DEF WriteInv
<1>8. /\ bowed' = [s \in Ports |-> <<>>]
      /\ Owed(bowed) = <<Write(r)>> /\ Owed(bowed') = <<>>
  <2>1. bowed' = Moved(bowed, {write_sel_q}, {}, x) /\ bowed[write_sel_q] = <<y>>
    BY <1>5, <1>6, Zenon DEF x, y
  <2>2. \A u, v : bowed[write_sel_q] = <<v>> =>
           /\ Moved(bowed, {write_sel_q}, {}, u) = [s \in Ports |-> <<>>]
           /\ Owed(bowed) = <<v>> /\ Owed(Moved(bowed, {write_sel_q}, {}, u)) = <<>>
    <3> DEFINE m == write_sel_q
    <3>1. m \in Ports /\ \A s \in Ports : bowed[s] # <<>> => s = m
      BY <1>3, <1>7
    <3> HIDE DEF m
    <3>2. ASSUME NEW u, NEW v, bowed[m] = <<v>>
          PROVE  /\ Moved(bowed, {m}, {}, u) = [s \in Ports |-> <<>>]
                 /\ Owed(bowed) = <<v>> /\ Owed(Moved(bowed, {m}, {}, u)) = <<>>
      BY <3>1, <3>2, OneGiven
    <3> QED BY <3>2, Zenon DEF m
  <2> QED BY <2>1, <2>2, Zenon DEF y
<1>9. awvalid_q' = FALSE /\ write_pending_q' = FALSE
  BY <1>1, <1>4, Zenon DEF AddressLatch, WriteSide
<1>10. Kept = <<>> /\ Kept' = <<>>
  BY <1>3, <1>9, Zenon DEF Kept
<1> QED BY <1>4, <1>8, <1>9, <1>10, Zenon

\* Neither: an address may be taken, its data not yet.
LEMMA WriteWaits ==
    ASSUME WriteInv, NEW p \in Inputs, Clock(p), ~write_made(p), ~write_given(p)
    PROVE  /\ ~w_taken(p)
           /\ bowed' = bowed /\ write_pending_q' = write_pending_q
           /\ write_pending_q => write_sel_q' = write_sel_q
           /\ \/ aw_taken(p) /\ Kept = <<>> /\ Kept' = <<aw>> /\ awaddr_q' = aw /\ awvalid_q' = TRUE
              \/ ~aw_taken(p) /\ Kept' = Kept /\ awvalid_q' = awvalid_q /\ awaddr_q' = awaddr_q
<1>1. /\ WriteSide(p) /\ AddressLatch(p) /\ p.bready \in BOOLEAN /\ p.awready \in BOOLEAN
      /\ awvalid_q \in BOOLEAN /\ write_pending_q \in BOOLEAN /\ wvalid \in BOOLEAN
  BY DEF Clock, Inputs, WriteInv
<1>2. ~w_taken(p)
  BY DEF w_taken, in_wready, write_made, write_out
<1>3. bowed' = bowed
  <2>1. (IF p.bready THEN bvalid \cap {write_sel_q} ELSE {}) = {}
    BY DEF write_given, in_bvalid
  <2>2. bowed' = Moved(bowed, {}, {}, [addr |-> in_awaddr, data |-> Head(wdata)])
    BY <2>1, WriteSlaves, Zenon
  <2> QED BY <2>2, NothingHappens DEF WriteInv
<1>4. write_pending_q' = write_pending_q
  <2>1. CASE write_pending_q
    BY <1>1, <2>1, Zenon DEF WriteSide
  <2>2. CASE ~write_pending_q
    <3>1. wvalid => in_wready(p) = FALSE
      BY <1>1, <1>2, Zenon DEF w_taken, in_wready
    <3> QED BY <1>1, <2>2, <3>1, Zenon DEF WriteSide
  <2> QED BY <2>1, <2>2
<1>5. write_pending_q => write_sel_q' = write_sel_q
  BY <1>1, Zenon DEF WriteSide, write_sel
<1>6. CASE aw_taken(p)
  <2>1. ~write_pending_q /\ ~awvalid_q /\ ~wvalid
    BY <1>2, <1>6 DEF aw_taken, in_awready, w_taken, in_wready, in_awvalid
  <2>2. awvalid_q' = TRUE /\ awaddr_q' = aw
    BY <1>1, <1>6, <2>1, Zenon DEF AddressLatch
  <2>3. Kept = <<>>
    BY <2>1 DEF Kept
  <2>4. Kept' = <<aw>>
    BY <1>4, <2>1, <2>2, Zenon DEF Kept
  <2> QED BY <1>2, <1>3, <1>4, <1>5, <1>6, <2>2, <2>3, <2>4, Zenon
<1>7. CASE ~aw_taken(p)
  <2>1. awvalid_q' = awvalid_q /\ awaddr_q' = awaddr_q
    BY <1>1, <1>7, Zenon DEF AddressLatch
  <2>2. Kept' = Kept
    BY <1>4, <2>1, Zenon DEF Kept
  <2> QED BY <1>2, <1>3, <1>4, <1>5, <1>7, <2>1, <2>2, Zenon
<1> QED BY <1>6, <1>7

\* What of the data stays with the master is that of the address kept, and of
\* the one on offer if it is not taken.
Stays(p) == IF aw_taken(p) THEN <<>> ELSE Offered

\* The data left is that of the writes whose data is still to come.
LEMMA DataLeft ==
    ASSUME WriteInv, NEW p \in Inputs, Clock(p)
    PROVE  /\ (IF w_taken(p) THEN Tail(wdata) ELSE wdata) = Kept' \o Stays(p)
           /\ Kept' \in Seq(Request) /\ Stays(p) \in Seq(Request)
           /\ bowed' \in [Ports -> Seq(WriteItem)]
           /\ \A s \in Ports : bowed'[s] # <<>> =>
                 /\ write_pending_q' /\ write_sel_q' = s
                 /\ \E r \in Request : r.port = s /\ bowed'[s] = <<[addr |-> r, data |-> r]>>
<1>1. /\ Kept \in Seq(Request) /\ Offered \in Seq(Request) /\ <<>> \in Seq(Request)
      /\ wdata = Kept \o Offered
  BY WriteData, EmptySeq DEF WriteInv
<1>2. Stays(p) \in Seq(Request)
  BY <1>1, Zenon DEF Stays
<1>3. CASE write_made(p)
  <2>1. /\ w_taken(p) /\ in_awaddr \in Request /\ in_awaddr.port \in Ports
        /\ bowed' = [s \in Ports |-> IF s = in_awaddr.port THEN <<Write(in_awaddr)>> ELSE <<>>]
        /\ write_pending_q' = TRUE /\ write_sel_q' = in_awaddr.port
        /\ Kept' = <<>> /\ Tail(wdata) = IF aw_taken(p) THEN <<>> ELSE Offered
    BY <1>3, WriteMade
  <2>2. <<>> \o Stays(p) = Stays(p) /\ Tail(wdata) = Stays(p)
    BY <1>2, <2>1, ConcatEmptySeq DEF Stays
  <2>3. <<Write(in_awaddr)>> \in Seq(WriteItem) /\ <<>> \in Seq(WriteItem)
    BY <2>1, EmptySeq DEF Write, WriteItem
  <2>4. bowed' \in [Ports -> Seq(WriteItem)]
    BY <2>1, <2>3
  <2>5. ASSUME NEW s \in Ports, bowed'[s] # <<>>
        PROVE  s = in_awaddr.port /\ bowed'[s] = <<Write(in_awaddr)>>
    BY <2>1, <2>5
  <2> QED BY <1>1, <1>2, <2>1, <2>2, <2>4, <2>5, Zenon DEF Write
<1>4. CASE write_given(p)
  <2>1. ~w_taken(p) /\ ~aw_taken(p) /\ bowed' = [s \in Ports |-> <<>>] /\ Kept = <<>> /\ Kept' = <<>>
    BY <1>4, WriteGiven
  <2>2. bowed' \in [Ports -> Seq(WriteItem)] /\ \A s \in Ports : bowed'[s] = <<>>
    BY <2>1, EmptySeq
  <2> QED BY <1>1, <1>2, <2>1, <2>2, Zenon DEF Stays
<1>5. CASE ~write_made(p) /\ ~write_given(p)
  <2>1. /\ ~w_taken(p) /\ bowed' = bowed /\ write_pending_q' = write_pending_q
        /\ write_pending_q => write_sel_q' = write_sel_q
        /\ \/ aw_taken(p) /\ Kept = <<>> /\ Kept' = <<aw>>
           \/ ~aw_taken(p) /\ Kept' = Kept
    BY <1>5, WriteWaits
  <2>2. /\ bowed' \in [Ports -> Seq(WriteItem)]
        /\ \A s \in Ports : bowed'[s] # <<>> =>
              /\ write_pending_q' /\ write_sel_q' = s
              /\ \E r \in Request : r.port = s /\ bowed'[s] = <<[addr |-> r, data |-> r]>>
    BY <2>1, Zenon DEF WriteInv
  <2>3. CASE aw_taken(p) /\ Kept = <<>> /\ Kept' = <<aw>>
    <3>1. Offered = <<aw>> /\ Stays(p) = <<>>
      BY <2>3 DEF Offered, aw_taken, Stays
    <3>2. <<>> \o Offered = Offered /\ Offered \o <<>> = Offered
      BY <1>1, ConcatEmptySeq
    <3> QED BY <1>1, <1>2, <2>1, <2>2, <2>3, <3>1, <3>2, Zenon
  <2>4. CASE ~aw_taken(p) /\ Kept' = Kept
    BY <1>1, <1>2, <2>1, <2>2, <2>4, Zenon DEF Stays
  <2> QED BY <2>1, <2>3, <2>4
<1> QED BY <1>3, <1>4, <1>5

\* What holds of the writes is kept.
LEMMA WriteInvStep ==
    ASSUME WriteInv, NEW p \in Inputs, Clock(p) PROVE WriteInv'
<1>1. AddressLatch(p) /\ WriteSide(p) /\ Master(p)
  BY DEF Clock
<1>2. /\ awvalid_q \in BOOLEAN /\ write_pending_q \in BOOLEAN /\ write_sel_q \in Selectable
      /\ aw \in Request \cup {None} /\ awaddr_q \in Request \cup {None}
      /\ awvalid_q => awaddr_q \in Request
  BY DEF WriteInv
<1>3. aw_taken(p) => aw \in Request
  BY <1>2 DEF aw_taken
<1>4. /\ awaddr_q' \in Request \cup {None} /\ awvalid_q' \in BOOLEAN
      /\ awvalid_q' => awaddr_q' \in Request
  <2>1. awvalid_q' \in BOOLEAN
    BY <1>1, <1>2, Zenon DEF AddressLatch
  <2>2. awaddr_q' \in Request \cup {None}
    BY <1>1, <1>2 DEF AddressLatch
  <2>3. awvalid_q' => awaddr_q' \in Request
    BY <1>1, <1>2, <1>3, Zenon DEF AddressLatch
  <2> QED BY <2>1, <2>2, <2>3
<1>5. write_sel_q' \in Selectable
  <2>1. in_awaddr \in Request \cup {None}
    BY <1>2 DEF in_awaddr
  <2>2. in_awaddr.port \in Selectable
    BY <2>1, RequestAssumption DEF None, Selectable
  <2> QED BY <1>1, <1>2, <2>2, Zenon DEF WriteSide, write_sel
<1>6. write_pending_q' \in BOOLEAN /\ wvalid' \in BOOLEAN
  <2>1. wvalid' \in BOOLEAN
    BY <1>1, Zenon DEF Master
  <2>2. write_pending_q' \in BOOLEAN
    BY <1>1, <1>2, Zenon DEF WriteSide, in_wready
  <2> QED BY <2>1, <2>2
<1> DEFINE left == IF w_taken(p) THEN Tail(wdata) ELSE wdata
<1>7. left = Kept' \o Stays(p) /\ Kept' \in Seq(Request) /\ Stays(p) \in Seq(Request)
  BY DataLeft
<1>8. \/ /\ aw' = IF aw_taken(p) THEN None ELSE aw
         /\ wdata' = left
      \/ /\ aw = None \/ aw_taken(p)
         /\ \E r \in Request : aw' = r /\ wdata' = Append(left, r)
  BY <1>1, Zenon DEF Master
<1> HIDE DEF left
<1>9. aw' \in Request \cup {None} /\ wdata' = Kept' \o Offered'
  <2>1. CASE /\ aw' = IF aw_taken(p) THEN None ELSE aw
             /\ wdata' = left
    <3>1. aw' \in Request \cup {None}
      BY <1>2, <2>1
    <3>2. Offered' = Stays(p)
      <4>1. CASE aw_taken(p)
        BY <2>1, <4>1 DEF Offered, Stays
      <4>2. CASE ~aw_taken(p)
        BY <2>1, <4>2, Zenon DEF Offered, Stays
      <4> QED BY <4>1, <4>2
    <3> QED BY <1>7, <2>1, <3>1, <3>2, Zenon
  <2>2. ASSUME aw = None \/ aw_taken(p), NEW r \in Request, aw' = r, wdata' = Append(left, r)
        PROVE  aw' \in Request \cup {None} /\ wdata' = Kept' \o Offered'
    <3>1. Stays(p) = <<>>
      BY <2>2 DEF Stays, Offered
    <3>2. Offered' = <<r>>
      BY <2>2, RequestAssumption DEF Offered
    <3> DEFINE k == Kept'
    <3>3. k \in Seq(Request) /\ left = k \o <<>>
      BY <1>7, <3>1, Zenon
    <3> HIDE DEF k
    <3>4. left = k
      BY <3>3, ConcatEmptySeq
    <3>5. Append(k, r) = k \o <<r>>
      BY <3>3, AppendIsConcat
    <3> QED BY <2>2, <3>2, <3>4, <3>5, Zenon DEF k
  <2> QED BY <1>8, <2>1, <2>2
<1>10. /\ bowed' \in [Ports -> Seq(WriteItem)]
       /\ \A s \in Ports : bowed'[s] # <<>> =>
             /\ write_pending_q' /\ write_sel_q' = s
             /\ \E r \in Request : r.port = s /\ bowed'[s] = <<[addr |-> r, data |-> r]>>
  BY DataLeft
<1>11. bvalid' \subseteq Ports /\ \A s \in bvalid' : bowed'[s] # <<>>
  BY WriteSlaves
<1> QED BY <1>4, <1>5, <1>6, <1>9, <1>10, <1>11, Zenon DEF WriteInv

-----------------------------------------------------------------------------
(* To the master the slaves are one.                                       *)

\* The cycles of a memory port with room for one request that occur here: one
\* is accepted, accepted and performed, performed, acknowledged.
Turn(todo, done, todoNext, doneNext, reqs, perform, ack) ==
    LET queued == todo \o reqs
    IN  /\ perform => queued # <<>>
        /\ ack => done # <<>>
        /\ todoNext = IF perform THEN Tail(queued) ELSE queued
        /\ doneNext = (IF ack THEN Tail(done) ELSE done)
                   \o (IF perform THEN <<Head(queued)>> ELSE <<>>)

\* Each of them is a turn.
LEMMA Turns ==
    ASSUME NEW x
    PROVE  /\ Turn(<<>>, <<>>, <<x>>, <<>>, <<x>>, FALSE, FALSE)
           /\ Turn(<<>>, <<>>, <<>>, <<x>>, <<x>>, TRUE, FALSE)
           /\ Turn(<<x>>, <<>>, <<>>, <<x>>, <<>>, TRUE, FALSE)
           /\ Turn(<<>>, <<x>>, <<>>, <<>>, <<>>, FALSE, TRUE)
<1> DEFINE e == <<>>
           o == <<x>>
<1>1. e \in Seq({x}) /\ o \in Seq({x})
  BY EmptySeq
<1>2. o # e /\ Tail(o) = e /\ <<Head(o)>> = o
  OBVIOUS
<1> HIDE DEF e, o
<1>3. e \o e = e /\ e \o o = o /\ o \o e = o
  BY <1>1, ConcatEmptySeq DEF e
<1>4. Turn(e, e, o, e, o, FALSE, FALSE)
  BY <1>3, Zenon DEF Turn, e
<1>5. Turn(e, e, e, o, o, TRUE, FALSE)
  BY <1>2, <1>3, Zenon DEF Turn, e
<1>6. Turn(o, e, e, o, e, TRUE, FALSE)
  BY <1>2, <1>3, Zenon DEF Turn, e
<1>7. Turn(e, o, e, e, e, FALSE, TRUE)
  BY <1>2, <1>3, Zenon DEF Turn, e
<1> QED BY <1>4, <1>5, <1>6, <1>7, Zenon DEF e, o

\* What a cycle does to the reads, seen from the master.
ReadTurn ==
    \/ /\ Owed(rowed)' = Owed(rowed)
    \/ \E x \in Request : Turn(<<>>, Owed(rowed), <<>>, Owed(rowed)', <<x>>, TRUE, FALSE)
    \/ Turn(<<>>, Owed(rowed), <<>>, Owed(rowed)', <<>>, FALSE, TRUE)

\* Every cycle does one of these ...
LEMMA ReadsTurn == ASSUME ReadInv, NEW p \in Inputs, Clock(p) PROVE ReadTurn
<1>1. CASE read_made(p) /\ ar \in Request /\ Owed(rowed) = <<>> /\ Owed(rowed') = <<ar>>
  BY <1>1, Turns, Zenon DEF ReadTurn
<1>2. CASE read_given(p) /\ ~read_made(p)
  <2>1. /\ \A s \in Ports : rowed'[s] = <<>>
        /\ Owed(rowed') = <<>>
        /\ read_pending_q /\ read_sel_q \in Ports
        /\ rowed[read_sel_q] # <<>>
    BY <1>2, ReadCases DEF ReadInv, read_given, in_rvalid
  <2>2. PICK r \in Request : rowed[read_sel_q] = <<r>>
    BY <2>1 DEF ReadInv
  <2>3. \A t \in Ports : rowed[t] # <<>> => t = read_sel_q
    BY DEF ReadInv
  <2>4. Owed(rowed) = rowed[read_sel_q]
    BY <2>1, <2>3, OwedOne
  <2> QED BY <2>1, <2>2, <2>4, Turns, Zenon DEF ReadTurn
<1>3. CASE rowed' = rowed
  BY <1>3, Zenon DEF ReadTurn
<1> QED BY <1>1, <1>2, <1>3, ReadCases

\* ... and each is a cycle of a memory port.
LEMMA ReadsCycle == ASSUME ReadTurn PROVE [Reads!Next]_<<<<>>, Owed(rowed)>>
<1>1. CASE Owed(rowed)' = Owed(rowed)
  BY <1>1
<1>2. ASSUME NEW x \in Request, Turn(<<>>, Owed(rowed), <<>>, Owed(rowed)', <<x>>, TRUE, FALSE)
      PROVE  Reads!Next
  <2>1. Reads!Cycle(<<x>>, TRUE, FALSE)
    BY <1>2 DEF Turn, Reads!Cycle
  <2> QED BY <2>1 DEF Reads!Next
<1>3. CASE Turn(<<>>, Owed(rowed), <<>>, Owed(rowed)', <<>>, FALSE, TRUE)
  <2>1. Reads!Cycle(<<>>, FALSE, TRUE)
    BY <1>3 DEF Turn, Reads!Cycle
  <2> QED BY <2>1 DEF Reads!Next
<1> QED BY <1>1, <1>2, <1>3 DEF ReadTurn

\* The writes performed and not answered; and what a cycle does to the writes.
Performed == Addresses(Owed(bowed))

WriteTurn ==
    \/ Kept' = Kept /\ Performed' = Performed
    \/ \E x \in Request : \/ Turn(Kept, Performed, Kept', Performed', <<x>>, FALSE, FALSE)
                          \/ Turn(Kept, Performed, Kept', Performed', <<x>>, TRUE, FALSE)
    \/ Turn(Kept, Performed, Kept', Performed', <<>>, TRUE, FALSE)
    \/ Turn(Kept, Performed, Kept', Performed', <<>>, FALSE, TRUE)

\* Every cycle does one of these ...
LEMMA WritesTurn == ASSUME WriteInv, NEW p \in Inputs, Clock(p) PROVE WriteTurn
<1>1. CASE write_made(p)
  <2> DEFINE x == in_awaddr
  <2>1. /\ x \in Request /\ Owed(bowed) = <<>> /\ Owed(bowed') = <<Write(x)>> /\ Kept' = <<>>
        /\ Kept = <<>> \/ Kept = <<x>>
    BY <1>1, WriteMade
  <2>2. Performed = <<>> /\ Performed' = <<x>>
    BY <2>1, AddressesOne, Zenon DEF Performed, Write
  <2> HIDE DEF x
  <2> QED BY <2>1, <2>2, Turns, Zenon DEF WriteTurn
<1>2. CASE write_given(p)
  <2>1. /\ Kept = <<>> /\ Kept' = <<>> /\ Owed(bowed') = <<>>
        /\ \E r \in Request : Owed(bowed) = <<Write(r)>>
    BY <1>2, WriteGiven
  <2>2. PICK r \in Request : Owed(bowed) = <<Write(r)>>
    BY <2>1
  <2>3. Performed = <<r>> /\ Performed' = <<>>
    BY <2>1, <2>2, AddressesOne, Zenon DEF Performed, Write
  <2> QED BY <2>1, <2>3, Turns, Zenon DEF WriteTurn
<1>3. CASE ~write_made(p) /\ ~write_given(p)
  <2>1. /\ bowed' = bowed
        /\ \/ aw_taken(p) /\ Kept = <<>> /\ Kept' = <<aw>>
           \/ Kept' = Kept
    BY <1>3, WriteWaits
  <2>2. Performed' = Performed
    BY <2>1, Zenon DEF Performed
  <2>3. CASE Kept' = Kept
    BY <2>2, <2>3, Zenon DEF WriteTurn
  <2>4. CASE aw_taken(p) /\ Kept = <<>> /\ Kept' = <<aw>>
    <3>1. aw \in Request /\ ~write_pending_q
      BY <2>4 DEF aw_taken, in_awready, WriteInv
    <3>2. \A s \in Ports : bowed[s] = <<>>
      BY <3>1 DEF WriteInv
    <3>3. Performed = <<>>
      BY <3>2, OwedNone, AddressesOne, Zenon DEF Performed
    <3> QED BY <2>2, <2>4, <3>1, <3>3, Turns, Zenon DEF WriteTurn
  <2> QED BY <2>1, <2>3, <2>4
<1> QED BY <1>1, <1>2, <1>3

\* ... and each is a cycle of a memory port.
LEMMA WritesCycle == ASSUME WriteTurn PROVE [Writes!Next]_<<Kept, Performed>>
<1>1. CASE Kept' = Kept /\ Performed' = Performed
  BY <1>1
<1>2. ASSUME NEW x \in Request, NEW perform \in BOOLEAN,
             Turn(Kept, Performed, Kept', Performed', <<x>>, perform, FALSE)
      PROVE  Writes!Next
  <2>1. Writes!Cycle(<<x>>, perform, FALSE)
    BY <1>2 DEF Turn, Writes!Cycle, Performed
  <2> QED BY <2>1 DEF Writes!Next
<1>3. ASSUME NEW perform \in BOOLEAN, NEW ack \in BOOLEAN,
             Turn(Kept, Performed, Kept', Performed', <<>>, perform, ack)
      PROVE  Writes!Next
  <2>1. Writes!Cycle(<<>>, perform, ack)
    BY <1>3 DEF Turn, Writes!Cycle, Performed
  <2> QED BY <2>1 DEF Writes!Next
<1>4. TRUE \in BOOLEAN /\ FALSE \in BOOLEAN
  OBVIOUS
<1> QED BY <1>1, <1>2, <1>3, <1>4, Zenon DEF WriteTurn

-----------------------------------------------------------------------------
(* The theorem.                                                            *)

\* The two invariants say where accesses are.
LEMMA InvRoutes == ASSUME ReadInv, WriteInv PROVE RoutingInv
<1>1. ASSUME NEW s \in Ports
      PROVE  /\ Len(rowed[s]) <= 1
             /\ \A i \in 1 .. Len(rowed[s]) : rowed[s][i].port = s
             /\ rowed[s] # <<>> => read_pending_q /\ read_sel_q = s
  <2>1. CASE rowed[s] = <<>>
    BY <2>1
  <2>2. ASSUME NEW r, rowed[s] = <<r>>, r.port = s
        PROVE  Len(rowed[s]) <= 1 /\ \A i \in 1 .. Len(rowed[s]) : rowed[s][i].port = s
    BY <2>2
  <2>3. rowed[s] # <<>> => /\ read_pending_q /\ read_sel_q = s
                           /\ \E r : rowed[s] = <<r>> /\ r.port = s
    BY Zenon DEF ReadInv
  <2> QED BY <2>1, <2>2, <2>3
<1>2. ASSUME NEW s \in Ports
      PROVE  /\ Len(bowed[s]) <= 1
             /\ \A i \in 1 .. Len(bowed[s]) : /\ bowed[s][i].addr.port = s
                                              /\ bowed[s][i].addr = bowed[s][i].data
             /\ bowed[s] # <<>> => write_pending_q /\ write_sel_q = s
  <2>1. CASE bowed[s] = <<>>
    BY <2>1
  <2>2. ASSUME NEW r, bowed[s] = <<Write(r)>>, r.port = s
        PROVE  /\ Len(bowed[s]) <= 1
               /\ \A i \in 1 .. Len(bowed[s]) : /\ bowed[s][i].addr.port = s
                                                /\ bowed[s][i].addr = bowed[s][i].data
    BY <2>2 DEF Write
  <2>3. bowed[s] # <<>> => /\ write_pending_q /\ write_sel_q = s
                           /\ \E r : bowed[s] = <<Write(r)>> /\ r.port = s
    BY Zenon DEF WriteInv, Write
  <2> QED BY <2>1, <2>2, <2>3
<1>3. TypeOK
  <2>1. {read_pending_q, awvalid_q, write_pending_q, wvalid} \subseteq BOOLEAN
    BY Zenon DEF ReadInv, WriteInv
  <2>2. {ar, aw, awaddr_q} \subseteq Request \cup {None}
    BY DEF ReadInv, WriteInv
  <2> QED BY <1>1, <1>2, <2>1, <2>2 DEF TypeOK, ReadInv, WriteInv
<1> QED BY <1>1, <1>2, <1>3 DEF RoutingInv, RoutedRight, Awaited

\* At reset there is no access.
LEMMA InvInit == ASSUME Init PROVE ReadInv /\ WriteInv /\ Reads!Init /\ Writes!Init
<1>1. \A s \in Ports : rowed[s] = <<>> /\ bowed[s] = <<>>
  BY DEF Init
<1>2. Kept = <<>> /\ Offered = <<>> /\ wdata = <<>>
  BY DEF Init, Kept, Offered
<1>3. <<>> \o <<>> = <<>>
  BY EmptySeq, ConcatEmptySeq
<1>4. ReadInv
  <2>1. rowed \in [Ports -> Seq(Request)]
    BY EmptySeq DEF Init
  <2>2. rvalid = {} /\ read_sel_q = 0 /\ read_pending_q = FALSE /\ ar = None
    BY DEF Init
  <2>3. 0 \in Selectable /\ FALSE \in BOOLEAN
    BY DEF Selectable
  <2>4. rvalid \subseteq Ports /\ ar \in Request \cup {None}
    BY <2>2
  <2> QED BY <1>1, <2>1, <2>2, <2>3, <2>4, Zenon DEF ReadInv
<1>5. WriteInv
  <2>1. wdata = Kept \o Offered
    BY <1>2, <1>3, Zenon
  <2>2. bowed \in [Ports -> Seq(WriteItem)]
    BY EmptySeq DEF Init
  <2>3. /\ bvalid = {} /\ write_sel_q = 0 /\ write_pending_q = FALSE
        /\ awvalid_q = FALSE /\ wvalid = FALSE
    BY DEF Init
  <2>4. 0 \in Selectable /\ FALSE \in BOOLEAN
    BY DEF Selectable
  <2>5. bvalid \subseteq Ports /\ aw \in Request \cup {None} /\ awaddr_q \in Request \cup {None}
    BY DEF Init
  <2>6. ~awvalid_q /\ \A s \in bvalid : FALSE
    BY <2>3
  <2> QED BY <1>1, <2>1, <2>2, <2>3, <2>4, <2>5, <2>6, Zenon DEF WriteInv
<1>6. Owed(rowed) = <<>> /\ Owed(bowed) = <<>>
  BY <1>1, OwedNone
<1> QED BY <1>2, <1>4, <1>5, <1>6, AddressesOne, Zenon DEF Reads!Init, Writes!Init

\* Every access the master sends reaches the slave its address selects, writes with their own
\* data, is performed once, in the order sent, and answered once, in that order, with no answer
\* left where nobody looks (axi4lite_dist.v 176-402).
THEOREM DistributorInOrder == Spec => InOrder
<1>1. Init => ReadInv /\ WriteInv /\ Reads!Init /\ Writes!Init
  BY InvInit
<1>2. ReadInv /\ WriteInv /\ [Next]_vars => (ReadInv /\ WriteInv)'
  <2>1. CASE Next
    BY <2>1, ReadInvStep, WriteInvStep DEF Next
  <2>2. CASE UNCHANGED vars
    <3>1. ReadInv => ReadInv'
      BY <2>2, Zenon DEF ReadInv, vars, readRegs, writeRegs, master, slaves
    <3>2. WriteInv => WriteInv'
      BY <2>2, Zenon DEF WriteInv, Kept, Offered, vars, readRegs, writeRegs, master, slaves
    <3> QED BY <3>1, <3>2
  <2> QED BY <2>1, <2>2
<1>3. ReadInv /\ WriteInv /\ [Next]_vars => [Reads!Next]_<<<<>>, Owed(rowed)>>
  <2>1. ASSUME ReadInv, Next PROVE ReadTurn
    BY <2>1, ReadsTurn DEF Next
  <2>2. ASSUME UNCHANGED vars PROVE ReadTurn
    BY <2>2, Zenon DEF ReadTurn, vars, slaves
  <2> QED BY <2>1, <2>2, ReadsCycle
<1>4. ReadInv /\ WriteInv /\ [Next]_vars => [Writes!Next]_<<Kept, Addresses(Owed(bowed))>>
  <2>1. ASSUME WriteInv, Next PROVE WriteTurn
    BY <2>1, WritesTurn DEF Next
  <2>2. ASSUME UNCHANGED vars PROVE WriteTurn
    BY <2>2, Zenon DEF WriteTurn, Kept, Performed, vars, writeRegs, slaves
  <2>3. WriteTurn => [Writes!Next]_<<Kept, Addresses(Owed(bowed))>>
    BY WritesCycle, Zenon DEF Performed
  <2> QED BY <2>1, <2>2, <2>3
<1>5. ReadInv /\ WriteInv => RoutingInv
  BY InvRoutes
<1> QED BY <1>1, <1>2, <1>3, <1>4, <1>5, PTL
    DEF Spec, InOrder, ReadsInOrder, WritesInOrder, Reads!Spec, Writes!Spec
=============================================================================
