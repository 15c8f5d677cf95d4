-------------------------- MODULE AxiLiteConvProofs -------------------------
(***************************************************************************)
(* The converter to AXI4-Lite, for every set of bursts: what it remembers  *)
(* of a burst is what is still to come of it (ReadInv, WriteInv), and so   *)
(* each direction performs the words of a burst once and in order.         *)
(***************************************************************************)
EXTENDS AxiLiteConv, QueueLemmas

-----------------------------------------------------------------------------
(* The words of a burst.                                                   *)

\* A burst under way.
Fit(b) == /\ b \in [id : Nat, addr : Nat, len : 0 .. CntRange - 2, type : {"FIXED", "INCR", "WRAP"}]
          /\ b.type = "WRAP" => b.len \in {0, 1, 3, 7, 15}

\* What the master asks for can be under way.
LEMMA BurstsFit == \A b \in Bursts : Fit(b) /\ b # NoBurst
<1>1. ASSUME NEW b \in Bursts PROVE Fit(b) /\ b # NoBurst
  <2>1. Fit(b)
    BY BurstAssumption DEF Fit
  <2>2. b.type # NoBurst.type
    BY <2>1 DEF Fit, NoBurst
  <2> QED BY <2>1, <2>2
<1> QED BY <1>1

LEMMA FitFields ==
    ASSUME NEW b, Fit(b)
    PROVE  /\ b.id \in Nat /\ b.addr \in Nat /\ b.len \in 0 .. CntRange - 2
           /\ b.len \in Nat /\ b.len < CntRange - 1
           /\ b.type = "FIXED" \/ b.type = "INCR" \/ b.type = "WRAP"
BY DEF Fit, CntRange

\* In a block of k words that begins at a multiple of k: the address after a, and the one n
\* after a.
Blocks == {1, 2, 4, 8, 16}
After(k, a) == (a - (a % k)) + ((a + 1) % k)
WordIn(k, a, n) == (a - (a % k)) + ((a - (a - (a % k)) + n) % k)

\* Stepping through a block of 1, 2, 4, 8 or 16 words stays in it.
LEMMA BlockStep ==
    ASSUME NEW k \in Blocks, NEW a \in Nat, NEW n \in Nat
    PROVE  /\ After(k, a) \in Nat /\ WordIn(k, a, n) \in Nat
           /\ WordIn(k, a, 0) = a
           /\ WordIn(k, After(k, a), n) = WordIn(k, a, n + 1)
<1> USE DEF After, WordIn
<1>1. CASE k = 1
  BY <1>1
<1>2. CASE k = 2
  BY <1>2
<1>3. CASE k = 4
  BY <1>3
<1>4. CASE k = 8
  BY <1>4
<1>5. CASE k = 16
  BY <1>5
<1> QED BY <1>1, <1>2, <1>3, <1>4, <1>5 DEF Blocks

\* The next burst is the same burst, one word on.
LEMMA AdvanceFits ==
    ASSUME NEW b, Fit(b)
    PROVE  /\ Fit(Advance(b))
           /\ Advance(b).id = b.id /\ Advance(b).len = b.len /\ Advance(b).type = b.type
           /\ Advance(b).addr = IF b.type = "FIXED" THEN b.addr
                                ELSE IF b.type = "INCR" THEN b.addr + 1 ELSE After(b.len + 1, b.addr)
<1> DEFINE block == IF b.len \in {0, 1, 3, 7, 15} THEN b.len + 1 ELSE 16
           addr == IF b.type = "FIXED" THEN b.addr
                   ELSE IF b.type = "WRAP" THEN After(block, b.addr) ELSE b.addr + 1
<1>1. Advance(b) = [b EXCEPT !.addr = addr]
  BY DEF Advance, Fit, After
<1>2. block \in Blocks
  BY DEF Blocks
<1>3. b.type = "WRAP" => block = b.len + 1
  BY DEF Fit
<1>4. After(block, b.addr) \in Nat
  <2> HIDE DEF block
  <2>1. b.addr \in Nat /\ 0 \in Nat
    BY FitFields
  <2> QED BY <1>2, <2>1, BlockStep
<1>5. addr \in Nat
  BY <1>4, FitFields
<1>6. addr = IF b.type = "FIXED" THEN b.addr
             ELSE IF b.type = "INCR" THEN b.addr + 1 ELSE After(b.len + 1, b.addr)
  BY <1>3, FitFields
<1> HIDE DEF addr
<1> QED BY <1>1, <1>5, <1>6 DEF Fit

\* What it meets is the rest of the words, as AXI counts them from the first.
LEMMA NextWord ==
    ASSUME NEW b, Fit(b), NEW n \in Nat
    PROVE  /\ WordAt(b, n) \in Nat
           /\ WordAt(b, 0) = b.addr
           /\ WordAt(Advance(b), n) = WordAt(b, n + 1)
<1>1. CASE b.type = "FIXED"
  BY <1>1, FitFields DEF WordAt, Advance
<1>2. CASE b.type = "INCR"
  BY <1>2, AdvanceFits, FitFields DEF WordAt
<1>3. CASE b.type = "WRAP"
  <2>1. PICK k \in Blocks, a \in Nat : k = b.len + 1 /\ a = b.addr
    <3>1. b.len + 1 \in Blocks /\ b.addr \in Nat
      BY <1>3 DEF Fit, Blocks
    <3> QED BY <3>1
  <2>2. /\ Advance(b).addr = After(k, a) /\ Advance(b).len + 1 = k
        /\ Advance(b).type = "WRAP"
    BY <1>3, <2>1, AdvanceFits
  <2>3. /\ WordAt(b, n) = WordIn(k, a, n) /\ WordAt(b, 0) = WordIn(k, a, 0)
        /\ WordAt(b, n + 1) = WordIn(k, a, n + 1)
    BY <1>3, <2>1 DEF WordAt, WordIn
  <2>4. WordAt(Advance(b), n) = WordIn(k, After(k, a), n)
    BY <2>2 DEF WordAt, WordIn
  <2>5. /\ WordIn(k, a, n) \in Nat /\ WordIn(k, a, 0) = a
        /\ WordIn(k, After(k, a), n) = WordIn(k, a, n + 1)
    BY BlockStep, Zenon
  <2> QED BY <2>1, <2>3, <2>4, <2>5, Zenon
<1> QED BY <1>1, <1>2, <1>3, FitFields

\* The rest of a sequence given by what it has where.
LEMMA RestOf ==
    ASSUME NEW R, NEW n \in Nat \ {0}, NEW f \in [1 .. n -> R]
    PROVE  /\ f \in Seq(R) /\ f # <<>> /\ Len(f) = n /\ Head(f) = f[1]
           /\ Tail(f) = [i \in 1 .. n - 1 |-> f[i + 1]]
<1>1. f \in Seq(R) /\ Len(f) = n
  OBVIOUS
<1>2. f # <<>>
  BY <1>1, EmptySeq
<1>3. /\ Head(f) = f[1] /\ Tail(f) \in Seq(R) /\ Len(Tail(f)) = n - 1
      /\ \A i \in 1 .. n - 1 : Tail(f)[i] = f[i + 1]
  BY <1>1, <1>2, HeadTailProperties
<1>4. Tail(f) = [i \in 1 .. n - 1 |-> f[i + 1]]
  <2> DEFINE g == [i \in 1 .. n - 1 |-> f[i + 1]]
  <2>1. g \in Seq(R) /\ Len(g) = n - 1 /\ \A i \in 1 .. n - 1 : g[i] = f[i + 1]
    OBVIOUS
  <2> HIDE DEF g
  <2>2. Tail(f) = g
    BY <1>3, <2>1, SeqEqual
  <2> QED BY <2>2 DEF g
<1> QED BY <1>1, <1>2, <1>3, <1>4

\* The write data that goes with n words of a burst.
DataOf(b, n) == [i \in 1 .. n |-> [word |-> WordAt(b, i - 1), last |-> i = n]]
Datum == [word : Nat, last : BOOLEAN]
Beat  == [id : Nat, word : Nat, last : BOOLEAN]

\* n words of a burst: the first is at its address, and the others are those of the burst
\* advanced by one.
LEMMA DataRest ==
    ASSUME NEW b, Fit(b), NEW n \in Nat \ {0}
    PROVE  /\ DataOf(b, n) \in Seq(Datum) /\ DataOf(b, n) # <<>>
           /\ Head(DataOf(b, n)).word = b.addr
           /\ Head(DataOf(b, n)).last = (n = 1)
           /\ Tail(DataOf(b, n)) = IF n = 1 THEN <<>> ELSE DataOf(Advance(b), n - 1)
<1>1. \A i \in 1 .. n : [word |-> WordAt(b, i - 1), last |-> i = n] \in Datum
  <2>1. \A i \in 1 .. n : i - 1 \in Nat
    OBVIOUS
  <2>2. \A i \in 1 .. n : WordAt(b, i - 1) \in Nat
    BY <2>1, NextWord
  <2>3. \A i \in 1 .. n : (i = n) \in BOOLEAN
    OBVIOUS
  <2> QED BY <2>2, <2>3 DEF Datum
<1>2. DataOf(b, n) \in [1 .. n -> Datum]
  BY <1>1 DEF DataOf
<1>3. /\ DataOf(b, n) \in Seq(Datum) /\ DataOf(b, n) # <<>> /\ Head(DataOf(b, n)) = DataOf(b, n)[1]
      /\ Tail(DataOf(b, n)) = [i \in 1 .. n - 1 |-> DataOf(b, n)[i + 1]]
  <2> DEFINE f == DataOf(b, n)
  <2>1. f \in [1 .. n -> Datum]
    BY <1>2
  <2> HIDE DEF f
  <2>2. /\ f \in Seq(Datum) /\ f # <<>> /\ Head(f) = f[1]
        /\ Tail(f) = [i \in 1 .. n - 1 |-> f[i + 1]]
    BY <2>1, RestOf
  <2> QED BY <2>2 DEF f
<1>4. DataOf(b, n)[1] = [word |-> WordAt(b, 1 - 1), last |-> 1 = n]
  BY DEF DataOf
<1>5. WordAt(b, 1 - 1) = b.addr
  <2>1. WordAt(b, 0) = b.addr
    BY NextWord
  <2> QED BY <2>1
<1>6. CASE n = 1
  <2>1. [i \in 1 .. n - 1 |-> DataOf(b, n)[i + 1]] = <<>>
    BY <1>6
  <2> QED BY <1>3, <1>4, <1>5, <1>6, <2>1
<1>7. CASE n # 1
  <2>1. ASSUME NEW i \in 1 .. n - 1
        PROVE  DataOf(b, n)[i + 1] = [word |-> WordAt(Advance(b), i - 1), last |-> i = n - 1]
    <3>1. i + 1 \in 1 .. n /\ i - 1 \in Nat /\ (i - 1) + 1 = (i + 1) - 1 /\ (i + 1 = n) = (i = n - 1)
      OBVIOUS
    <3>2. WordAt(b, (i + 1) - 1) = WordAt(Advance(b), i - 1)
      BY <3>1, NextWord
    <3> QED BY <3>1, <3>2 DEF DataOf
  <2>2. [i \in 1 .. n - 1 |-> DataOf(b, n)[i + 1]] = DataOf(Advance(b), n - 1)
    BY <2>1, Zenon DEF DataOf
  <2> QED BY <1>3, <1>4, <1>5, <1>7, <2>2
<1> QED BY <1>6, <1>7

\* Likewise for the accesses the burst stands for.
LEMMA BeatsRest ==
    ASSUME NEW b, Fit(b), NEW n \in Nat \ {0}
    PROVE  /\ Beats(b, n) \in Seq(Beat) /\ Beats(b, n) # <<>>
           /\ Head(Beats(b, n)) = [id |-> b.id, word |-> b.addr, last |-> n = 1]
           /\ Tail(Beats(b, n)) = IF n = 1 THEN <<>> ELSE Beats(Advance(b), n - 1)
<1>1. \A i \in 1 .. n : [id |-> b.id, word |-> WordAt(b, i - 1), last |-> i = n] \in Beat
  <2>1. \A i \in 1 .. n : i - 1 \in Nat
    OBVIOUS
  <2>2. \A i \in 1 .. n : WordAt(b, i - 1) \in Nat
    BY <2>1, NextWord
  <2>3. (\A i \in 1 .. n : (i = n) \in BOOLEAN) /\ b.id \in Nat
    BY FitFields
  <2> QED BY <2>2, <2>3 DEF Beat
<1>2. Beats(b, n) \in [1 .. n -> Beat]
  BY <1>1 DEF Beats
<1>3. /\ Beats(b, n) \in Seq(Beat) /\ Beats(b, n) # <<>> /\ Head(Beats(b, n)) = Beats(b, n)[1]
      /\ Tail(Beats(b, n)) = [i \in 1 .. n - 1 |-> Beats(b, n)[i + 1]]
  <2> DEFINE f == Beats(b, n)
  <2>1. f \in [1 .. n -> Beat]
    BY <1>2
  <2> HIDE DEF f
  <2>2. /\ f \in Seq(Beat) /\ f # <<>> /\ Head(f) = f[1]
        /\ Tail(f) = [i \in 1 .. n - 1 |-> f[i + 1]]
    BY <2>1, RestOf
  <2> QED BY <2>2 DEF f
<1>4. Beats(b, n)[1] = [id |-> b.id, word |-> b.addr, last |-> n = 1]
  <2>1. WordAt(b, 1 - 1) = b.addr
    <3>1. WordAt(b, 0) = b.addr
      BY NextWord
    <3> QED BY <3>1
  <2>2. Beats(b, n)[1] = [id |-> b.id, word |-> WordAt(b, 1 - 1), last |-> 1 = n]
    BY DEF Beats
  <2>3. (1 = n) = (n = 1)
    OBVIOUS
  <2> QED BY <2>1, <2>2, <2>3
<1>5. CASE n = 1
  <2>1. [i \in 1 .. n - 1 |-> Beats(b, n)[i + 1]] = <<>>
    BY <1>5
  <2> QED BY <1>3, <1>4, <1>5, <2>1
<1>6. CASE n # 1
  <2>1. ASSUME NEW i \in 1 .. n - 1
        PROVE  Beats(b, n)[i + 1]
                 = [id |-> Advance(b).id, word |-> WordAt(Advance(b), i - 1), last |-> i = n - 1]
    <3>1. i + 1 \in 1 .. n /\ i - 1 \in Nat /\ (i - 1) + 1 = (i + 1) - 1 /\ (i + 1 = n) = (i = n - 1)
      OBVIOUS
    <3>2. WordAt(b, (i + 1) - 1) = WordAt(Advance(b), i - 1)
      BY <3>1, NextWord
    <3>3. Advance(b).id = b.id
      BY AdvanceFits
    <3> QED BY <3>1, <3>2, <3>3 DEF Beats
  <2>2. [i \in 1 .. n - 1 |-> Beats(b, n)[i + 1]] = Beats(Advance(b), n - 1)
    BY <2>1, Zenon DEF Beats
  <2> QED BY <1>3, <1>4, <1>6, <2>2
<1> QED BY <1>5, <1>6

-----------------------------------------------------------------------------
(* A burst under way.                                                      *)

\* The read direction: how many words are still to be asked for, and the one at the bus.
ReadInv ==
    /\ {armask, arvalid_q, rvalid} \subseteq BOOLEAN
    /\ ar \in Bursts \cup {NoBurst}
    /\ arburst = NoBurst \/ Fit(arburst)
    /\ arcnt_q \in 0 .. arburst.len /\ (arvalid_q <=> arcnt_q # 0)
    /\ rd = <<>> \/ \E a \in Nat : rd = <<a>>
    /\ rvalid => rd # <<>>
    /\ arvalid_q \/ rd # <<>> => armask

\* The write direction: the same, and the data at hand is that of the words still to be
\* written or of the burst that is offered.
WriteInv ==
    /\ {awmask, awvalid_q, blast_q, wvalid, bvalid} \subseteq BOOLEAN
    /\ aw \in Bursts \cup {NoBurst}
    /\ awburst = NoBurst \/ Fit(awburst)
    /\ awcnt_q \in 0 .. awburst.len + 1 /\ (awvalid_q <=> awcnt_q # 0)
    /\ awvalid_q => awburst # NoBurst /\ ~blast_q /\ ~in_awvalid
    /\ wdata = IF awvalid_q THEN DataOf(awburst, awcnt_q)
               ELSE IF in_awvalid THEN DataOf(aw, aw.len + 1) ELSE <<>>
    /\ wvalid => wdata # <<>>
    /\ wr = <<>> \/ \E a \in Nat : wr = <<[addr |-> a, data |-> a]>>
    /\ bvalid => wr # <<>>
    /\ awvalid_q \/ wr # <<>> => awmask

\* What is remembered of a burst has a length.
LEMMA Lengths ==
    \A b : b = NoBurst \/ Fit(b) => b.len \in Nat /\ b.len < CntRange - 1
BY FitFields DEF NoBurst, CntRange

\* A cycle of the read direction: a burst is let in, with its first word; the next word is
\* asked for; or none is, and an answer may be taken.
ReadLetIn(p) ==
    /\ ar_taken(p) /\ read_made(p) /\ ~arvalid_q /\ rd = <<>> /\ ~r_given(p) /\ ar \in Bursts
    /\ arburst' = Advance(ar) /\ arvalid_q' = (ar.len # 0) /\ arcnt_q' = ar.len
    /\ rd' = <<ar.addr>> /\ armask' = TRUE
ReadGoesOn(p) ==
    /\ ~ar_taken(p) /\ read_made(p) /\ arvalid_q /\ rd = <<>> /\ ~r_given(p)
    /\ arburst' = Advance(arburst) /\ arvalid_q' = (arcnt_q # 1) /\ arcnt_q' = arcnt_q - 1
    /\ rd' = <<arburst.addr>> /\ armask' = TRUE
ReadWaits(p) ==
    /\ ~ar_taken(p) /\ ~read_made(p) /\ UNCHANGED <<arburst, arvalid_q, arcnt_q>>
    /\ rd' = (IF r_given(p) THEN <<>> ELSE rd) /\ (r_given(p) => rd # <<>>)
    /\ armask' = (armask /\ ~(r_given(p) /\ rlast))

\* There is no other.
LEMMA ReadCases ==
    ASSUME ReadInv, NEW p \in Inputs, Clock(p)
    PROVE  ReadLetIn(p) \/ ReadGoesOn(p) \/ ReadWaits(p)
<1>1. /\ Masks(p) /\ Read(p) /\ Bus(p)
      /\ p.rready \in BOOLEAN /\ p.arready \in BOOLEAN
  BY DEF Clock, Inputs
<1>2. r_given(p) => rd # <<>>
  BY DEF ReadInv, r_given
<1>3. p.arready => rd = <<>>
  BY <1>1 DEF Bus
<1>4. rd' = IF read_made(p) THEN <<out_araddr>> ELSE IF r_given(p) THEN <<>> ELSE rd
  BY <1>1 DEF Bus
<1>5. read_made(p) => p.arready
  BY DEF read_made
<1>6. armask' = (ar_taken(p) \/ (armask /\ ~(r_given(p) /\ rlast)))
  BY <1>1 DEF Masks
<1>7. arvalid_q => armask
  BY DEF ReadInv
<1>8. CASE ar_taken(p)
  <2>1. /\ ~armask /\ p.arready /\ ar # NoBurst
    BY <1>8 DEF ar_taken, in_arready, in_arvalid
  <2>2. ~arvalid_q /\ rd = <<>> /\ ~r_given(p) /\ ar \in Bursts
    BY <1>2, <1>3, <1>7, <2>1 DEF ReadInv
  <2>3. read_made(p)
    BY <2>1 DEF read_made, out_arvalid, in_arvalid
  <2>4. arburst' = Advance(ar) /\ arvalid_q' = (ar.len # 0) /\ arcnt_q' = ar.len
    BY <1>1, <1>8, <2>2 DEF Read
  <2>5. rd' = <<ar.addr>>
    BY <1>4, <2>2, <2>3 DEF out_araddr
  <2>6. armask' = TRUE
    BY <1>6, <1>8, Zenon
  <2> QED BY <1>8, <2>2, <2>3, <2>4, <2>5, <2>6, Zenon DEF ReadLetIn
<1>9. CASE ~ar_taken(p) /\ read_made(p)
  <2>1. arvalid_q
    BY <1>9 DEF ar_taken, read_made, out_arvalid, in_arready
  <2>2. rd = <<>> /\ ~r_given(p)
    BY <1>2, <1>3, <1>5, <1>9
  <2>3. /\ arburst' = Advance(arburst) /\ arvalid_q' = (arcnt_q # 1)
        /\ arcnt_q' = (arcnt_q + CntRange - 1) % CntRange
    BY <1>1, <1>9, <2>1 DEF Read
  <2>4. arcnt_q' = arcnt_q - 1
    <3>1. arburst.len \in Nat /\ arburst.len < CntRange - 1
      BY Lengths DEF ReadInv
    <3>2. arcnt_q \in 1 .. CntRange - 1
      BY <2>1, <3>1 DEF ReadInv, CntRange
    <3> QED BY <2>3, <3>2 DEF CntRange
  <2>5. rd' = <<arburst.addr>>
    BY <1>4, <1>9, <2>1 DEF out_araddr
  <2>6. armask' = TRUE
    BY <1>6, <1>7, <2>1, <2>2, Zenon
  <2> QED BY <1>9, <2>1, <2>2, <2>3, <2>4, <2>5, <2>6, Zenon DEF ReadGoesOn
<1>10. CASE ~ar_taken(p) /\ ~read_made(p)
  <2>1. UNCHANGED <<arburst, arvalid_q, arcnt_q>>
    BY <1>1, <1>10 DEF Read
  <2>2. armask' = (armask /\ ~(r_given(p) /\ rlast))
    <3>1. armask \in BOOLEAN
      BY DEF ReadInv
    <3> QED BY <1>6, <1>10, Zenon
  <2>3. rd' = IF r_given(p) THEN <<>> ELSE rd
    BY <1>4, <1>10
  <2> QED BY <1>2, <1>10, <2>1, <2>2, <2>3, Zenon DEF ReadWaits
<1> QED BY <1>8, <1>9, <1>10

\* The read direction keeps its invariant.
LEMMA ReadStays == ASSUME ReadInv, NEW p \in Inputs, Clock(p) PROVE ReadInv'
<1>1. /\ Masks(p) /\ Bus(p) /\ Master(p)
  BY DEF Clock
<1>2. rvalid' \in BOOLEAN /\ (rvalid' => rd' # <<>>)
  BY <1>1 DEF Bus
<1>3. ar' \in Bursts \cup {NoBurst}
  BY <1>1 DEF Master, ReadInv
<1>4. CASE ReadLetIn(p)
  <2>1. Fit(ar) /\ ar.addr \in Nat /\ ar.len \in Nat
    BY <1>4, BurstsFit, FitFields DEF ReadLetIn
  <2>2. Fit(arburst') /\ arburst'.len = ar.len
    BY <1>4, <2>1, AdvanceFits DEF ReadLetIn
  <2>3. arvalid_q' \in BOOLEAN /\ (arvalid_q' <=> arcnt_q' # 0)
    BY <1>4, Zenon DEF ReadLetIn
  <2>4. arcnt_q' \in 0 .. arburst'.len
    BY <1>4, <2>1, <2>2 DEF ReadLetIn
  <2>5. armask' = TRUE /\ rd' = <<ar.addr>>
    BY <1>4 DEF ReadLetIn
  <2> QED BY <1>2, <1>3, <2>1, <2>2, <2>3, <2>4, <2>5 DEF ReadInv
<1>5. CASE ReadGoesOn(p)
  <2>1. arburst.len \in Nat /\ arcnt_q \in 1 .. arburst.len
    BY <1>5, Lengths DEF ReadInv, ReadGoesOn
  <2>2. Fit(arburst) /\ arburst.addr \in Nat
    BY <2>1, FitFields DEF ReadInv, NoBurst
  <2>3. Fit(arburst') /\ arburst'.len = arburst.len
    BY <1>5, <2>2, AdvanceFits DEF ReadGoesOn
  <2>4. arvalid_q' = (arcnt_q # 1) /\ arcnt_q' = arcnt_q - 1
    BY <1>5 DEF ReadGoesOn
  <2>5. arcnt_q' \in 0 .. arburst'.len /\ (arcnt_q # 1 <=> arcnt_q' # 0)
    BY <2>1, <2>3, <2>4
  <2>6. arvalid_q' \in BOOLEAN /\ (arvalid_q' <=> arcnt_q' # 0)
    BY <2>4, <2>5, Zenon
  <2>7. armask' = TRUE /\ rd' = <<arburst.addr>>
    BY <1>5 DEF ReadGoesOn
  <2> QED BY <1>2, <1>3, <2>2, <2>3, <2>5, <2>6, <2>7 DEF ReadInv
<1>6. CASE ReadWaits(p)
  <2>1. /\ arburst' = arburst /\ arvalid_q' = arvalid_q /\ arcnt_q' = arcnt_q
        /\ rd' = <<>> \/ rd' = rd
    BY <1>6 DEF ReadWaits
  <2>2. armask' \in BOOLEAN /\ (armask' <=> (armask /\ ~(r_given(p) /\ rlast)))
    BY <1>6, Zenon DEF ReadWaits
  <2>3. arvalid_q \/ rd' # <<>> => armask /\ ~(r_given(p) /\ rlast)
    BY <1>6 DEF ReadWaits, ReadInv, rlast
  <2> QED BY <1>2, <1>3, <2>1, <2>2, <2>3 DEF ReadInv
<1> QED BY <1>4, <1>5, <1>6, ReadCases

\* A cycle of the write direction: a burst is let in with its first word, or without; the
\* next word is written; or none is, and an answer may be taken.  Of the data at hand what
\* is left is given.
Answered(p) == bvalid /\ out_bready(p)
Wrote(a) == wr' = <<[addr |-> a, data |-> a]>>
Offer(left) == \/ wdata' = left /\ aw' = NoBurst
               \/ left = <<>> /\ \E b \in Bursts : aw' = b /\ wdata' = DataOf(b, b.len + 1)

WriteLetIn(p) ==
    /\ aw_taken(p) /\ write_made(p) /\ ~awvalid_q /\ wr = <<>> /\ aw \in Bursts /\ awmask' = TRUE
    /\ awburst' = Advance(aw) /\ awvalid_q' = (aw.len # 0) /\ blast_q' = (aw.len = 0)
    /\ awcnt_q' = aw.len /\ Wrote(aw.addr)
    /\ Offer(IF aw.len = 0 THEN <<>> ELSE DataOf(Advance(aw), aw.len))
WriteLetInFirst(p) ==
    /\ aw_taken(p) /\ ~write_made(p) /\ ~awvalid_q /\ wr = <<>> /\ aw \in Bursts /\ awmask' = TRUE
    /\ awburst' = aw /\ awvalid_q' = TRUE /\ blast_q' = FALSE /\ awcnt_q' = aw.len + 1
    /\ wr' = <<>> /\ wdata' = DataOf(aw, aw.len + 1) /\ aw' = NoBurst
WriteGoesOn(p) ==
    /\ ~aw_taken(p) /\ write_made(p) /\ awvalid_q /\ wr = <<>> /\ awmask' = TRUE
    /\ awburst' = Advance(awburst) /\ awvalid_q' = (awcnt_q # 1) /\ blast_q' = (awcnt_q = 1)
    /\ awcnt_q' = awcnt_q - 1 /\ Wrote(awburst.addr)
    /\ Offer(IF awcnt_q = 1 THEN <<>> ELSE DataOf(Advance(awburst), awcnt_q - 1))
WriteWaits(p) ==
    /\ ~aw_taken(p) /\ ~write_made(p) /\ UNCHANGED <<awburst, awvalid_q, awcnt_q>>
    /\ blast_q' = (blast_q /\ ~b_given(p)) /\ awmask' = (awmask /\ ~b_given(p))
    /\ wr' = IF Answered(p) THEN <<>> ELSE wr
    /\ \/ UNCHANGED <<aw, wdata>>
       \/ wdata = <<>> /\ ~in_awvalid
          /\ \E b \in Bursts : aw' = b /\ wdata' = DataOf(b, b.len + 1)

\* Data is taken where a word is written.
LEMMA DataTaken ==
    ASSUME NEW p
    PROVE  w_taken(p) <=> write_made(p)
BY DEF w_taken, in_wready, out_wready, write_made, out_awvalid

\* There is no other cycle.
LEMMA WriteCases ==
    ASSUME WriteInv, NEW p \in Inputs, Clock(p)
    PROVE  WriteLetIn(p) \/ WriteLetInFirst(p) \/ WriteGoesOn(p) \/ WriteWaits(p)
<1>1. /\ Masks(p) /\ Write(p) /\ Bus(p) /\ Master(p)
      /\ p.bready \in BOOLEAN /\ p.awready \in BOOLEAN
  BY DEF Clock, Inputs
<1>2. p.awready => wr = <<>>
  BY <1>1 DEF Bus
<1>3. wr' = IF write_made(p) THEN <<[addr |-> out_awaddr, data |-> Head(wdata).word]>>
            ELSE IF Answered(p) THEN <<>> ELSE wr
  BY <1>1 DEF Bus, Answered
<1>4. write_made(p) => p.awready
  BY DEF write_made
<1>5. awmask' = (aw_taken(p) \/ (awmask /\ ~b_given(p)))
  BY <1>1 DEF Masks
<1>6. (awvalid_q => awmask) /\ (wr = <<>> => ~b_given(p) /\ ~Answered(p))
  BY DEF WriteInv, b_given, in_bvalid, Answered
<1>7. \A b : Words(b) = DataOf(b, b.len + 1)
  BY DEF Words, DataOf
<1> DEFINE left == IF write_made(p) THEN Tail(wdata) ELSE wdata
<1>8. \/ /\ aw' = IF aw_taken(p) THEN NoBurst ELSE aw
         /\ wdata' = left
      \/ /\ left = <<>> /\ (~in_awvalid \/ aw_taken(p))
         /\ \E b \in Bursts : aw' = b /\ wdata' = DataOf(b, b.len + 1)
  BY <1>1, <1>7, DataTaken DEF Master
<1>9. CASE aw_taken(p)
  <2>1. /\ ~awmask /\ p.awready /\ aw # NoBurst
    BY <1>9 DEF aw_taken, in_awready, in_awvalid
  <2>2. ~awvalid_q /\ wr = <<>> /\ ~b_given(p) /\ ~Answered(p) /\ aw \in Bursts
    BY <1>2, <1>6, <2>1 DEF WriteInv
  <2>3. Fit(aw) /\ aw.len \in Nat /\ aw.len + 1 \in Nat \ {0} /\ aw.len < CntRange - 1
    BY <2>2, BurstsFit, FitFields
  <2>4. wdata = DataOf(aw, aw.len + 1)
    BY <2>1, <2>2 DEF WriteInv, in_awvalid
  <2>5. /\ wdata # <<>> /\ Head(wdata).word = aw.addr /\ Head(wdata).last = (aw.len = 0)
        /\ Tail(wdata) = IF aw.len = 0 THEN <<>> ELSE DataOf(Advance(aw), aw.len)
    <3>1. PICK n \in Nat \ {0} : n = aw.len + 1
      BY <2>3
    <3>2. /\ DataOf(aw, n) # <<>> /\ Head(DataOf(aw, n)).word = aw.addr
          /\ Head(DataOf(aw, n)).last = (n = 1)
          /\ Tail(DataOf(aw, n)) = IF n = 1 THEN <<>> ELSE DataOf(Advance(aw), n - 1)
      BY <2>3, DataRest
    <3>3. (n = 1) = (aw.len = 0) /\ n - 1 = aw.len
      BY <2>3, <3>1
    <3> QED BY <2>4, <3>1, <3>2, <3>3
  <2>6. awmask' = TRUE
    BY <1>5, <1>9, Zenon
  <2>7. CASE write_made(p)
    <3>1. WriteWithData
      BY <1>1, <1>9, <2>2, <2>7, DataTaken DEF Write
    <3>2. /\ awburst' = Advance(aw) /\ awcnt_q' = aw.len
          /\ awvalid_q' = ~(aw.len = 0) /\ blast_q' = (aw.len = 0)
      BY <2>5, <3>1, Zenon DEF WriteWithData
    <3>3. Wrote(aw.addr)
      BY <1>3, <2>2, <2>5, <2>7 DEF out_awaddr, Wrote
    <3>4. Offer(Tail(wdata))
      BY <1>8, <1>9, <2>7 DEF Offer
    <3> QED BY <1>9, <2>2, <2>5, <2>6, <2>7, <3>2, <3>3, <3>4, Zenon DEF WriteLetIn
  <2>8. CASE ~write_made(p)
    <3>1. WriteAddressOnly
      BY <1>1, <1>9, <2>2, <2>8, DataTaken DEF Write
    <3>2. awcnt_q' = aw.len + 1
      BY <2>3, <3>1 DEF WriteAddressOnly, CntRange
    <3>3. wr' = <<>>
      BY <1>3, <2>2, <2>8
    <3>4. wdata' = DataOf(aw, aw.len + 1) /\ aw' = NoBurst
      BY <1>8, <1>9, <2>4, <2>5, <2>8
    <3> QED BY <1>9, <2>2, <2>6, <2>8, <3>1, <3>2, <3>3, <3>4, Zenon
            DEF WriteAddressOnly, WriteLetInFirst
  <2> QED BY <2>7, <2>8
<1>10. CASE ~aw_taken(p) /\ write_made(p)
  <2>1. awvalid_q
    BY <1>4, <1>10 DEF aw_taken, write_made, out_awvalid, in_awready
  <2>2. wr = <<>> /\ ~b_given(p) /\ awmask' = TRUE
    BY <1>2, <1>4, <1>5, <1>6, <1>10, <2>1, Zenon
  <2>3. ~in_awvalid /\ ~blast_q /\ Fit(awburst) /\ wdata = DataOf(awburst, awcnt_q)
    BY <2>1 DEF WriteInv
  <2>4. awcnt_q \in Nat \ {0} /\ awcnt_q < CntRange
    <3>1. awburst.len \in Nat /\ awburst.len < CntRange - 1
      BY <2>3, FitFields
    <3> QED BY <2>1, <3>1 DEF WriteInv, CntRange
  <2>5. /\ Head(wdata).word = awburst.addr
        /\ Tail(wdata) = IF awcnt_q = 1 THEN <<>> ELSE DataOf(Advance(awburst), awcnt_q - 1)
    BY <2>3, <2>4, DataRest
  <2>6. WriteOn
    BY <1>1, <1>10, <2>1 DEF Write
  <2>7. awcnt_q' = awcnt_q - 1
    BY <2>4, <2>6 DEF WriteOn, CntRange
  <2>8. awburst' = Advance(awburst) /\ awvalid_q' = (awcnt_q # 1)
    BY <2>6 DEF WriteOn
  <2>9. blast_q' = (awcnt_q = 1)
    BY <2>3, <2>6, Zenon DEF WriteOn
  <2>10. Wrote(awburst.addr)
    BY <1>3, <1>10, <2>1, <2>5 DEF out_awaddr, Wrote
  <2>11. Offer(Tail(wdata))
    BY <1>8, <1>10, <2>3 DEF Offer, in_awvalid
  <2> QED BY <1>10, <2>1, <2>2, <2>5, <2>7, <2>8, <2>9, <2>10, <2>11, Zenon DEF WriteGoesOn
<1>11. CASE ~aw_taken(p) /\ ~write_made(p)
  <2>1. WriteAnswer(p)
    BY <1>1, <1>11 DEF Write
  <2>2. awmask' = (awmask /\ ~b_given(p))
    <3>1. awmask \in BOOLEAN
      BY DEF WriteInv
    <3> QED BY <1>5, <1>11, Zenon
  <2>3. wr' = IF Answered(p) THEN <<>> ELSE wr
    BY <1>3, <1>11
  <2>4. \/ UNCHANGED <<aw, wdata>>
        \/ wdata = <<>> /\ ~in_awvalid
           /\ \E b \in Bursts : aw' = b /\ wdata' = DataOf(b, b.len + 1)
    BY <1>8, <1>11
  <2> QED BY <1>11, <2>1, <2>2, <2>3, <2>4, Zenon DEF WriteAnswer, WriteWaits
<1> QED BY <1>9, <1>10, <1>11

\* What is offered next: the data left, which belongs to the burst under way, or, when none is
\* left, a burst with its data.
LEMMA OfferFits ==
    ASSUME NEW left, Offer(left),
           left = IF awvalid_q' THEN DataOf(awburst', awcnt_q') ELSE <<>>,
           awvalid_q' => left # <<>>, awvalid_q' \in BOOLEAN
    PROVE  /\ aw' \in Bursts \cup {NoBurst} /\ (awvalid_q' => ~in_awvalid')
           /\ wdata' = IF awvalid_q' THEN DataOf(awburst', awcnt_q')
                       ELSE IF in_awvalid' THEN DataOf(aw', aw'.len + 1) ELSE <<>>
<1>1. CASE wdata' = left /\ aw' = NoBurst
  BY <1>1 DEF in_awvalid
<1>2. CASE left = <<>> /\ \E b \in Bursts : aw' = b /\ wdata' = DataOf(b, b.len + 1)
  <2>1. ~awvalid_q' /\ aw' \in Bursts /\ wdata' = DataOf(aw', aw'.len + 1)
    BY <1>2
  <2>2. aw' # NoBurst
    BY <2>1, BurstsFit
  <2> QED BY <2>1, <2>2 DEF in_awvalid
<1> QED BY <1>1, <1>2 DEF Offer

\* The write direction keeps its invariant.
LEMMA WriteStays == ASSUME WriteInv, NEW p \in Inputs, Clock(p) PROVE WriteInv'
<1>1. wvalid' \in BOOLEAN /\ (wvalid' => wdata' # <<>>)
  BY DEF Clock, Master
<1>2. bvalid' \in BOOLEAN /\ (bvalid' => wr' # <<>>)
  BY DEF Clock, Bus
<1>3. CASE WriteLetIn(p)
  <2>1. Fit(aw) /\ aw.addr \in Nat /\ aw.len \in Nat
    BY <1>3, BurstsFit, FitFields DEF WriteLetIn
  <2>2. Fit(awburst') /\ awburst'.len = aw.len /\ awburst' # NoBurst
    <3>1. awburst' = Advance(aw)
      BY <1>3 DEF WriteLetIn
    <3>2. Fit(awburst') /\ awburst'.len = aw.len
      BY <2>1, <3>1, AdvanceFits
    <3>3. awburst'.type # NoBurst.type
      BY <3>2 DEF Fit, NoBurst
    <3> QED BY <3>2, <3>3
  <2>3. awvalid_q' \in BOOLEAN /\ blast_q' \in BOOLEAN /\ (awvalid_q' <=> awcnt_q' # 0)
        /\ (awvalid_q' => ~blast_q')
    BY <1>3, Zenon DEF WriteLetIn
  <2>4. awcnt_q' \in 0 .. awburst'.len + 1 /\ awcnt_q' = aw.len
    BY <1>3, <2>1, <2>2 DEF WriteLetIn
  <2>5. awmask' = TRUE /\ wr' = <<[addr |-> aw.addr, data |-> aw.addr]>>
    BY <1>3 DEF WriteLetIn, Wrote
  <2> DEFINE left == IF aw.len = 0 THEN <<>> ELSE DataOf(Advance(aw), aw.len)
  <2>6. left = IF awvalid_q' THEN DataOf(awburst', awcnt_q') ELSE <<>>
    BY <1>3, <2>1, <2>3, <2>4 DEF WriteLetIn
  <2>7. awvalid_q' => left # <<>>
    <3>1. awvalid_q' => awcnt_q' \in Nat \ {0}
      BY <2>1, <2>3, <2>4
    <3> HIDE DEF left
    <3> QED BY <2>2, <2>6, <3>1, DataRest
  <2>8. Offer(left)
    BY <1>3 DEF WriteLetIn
  <2>9. /\ aw' \in Bursts \cup {NoBurst} /\ (awvalid_q' => ~in_awvalid')
        /\ wdata' = IF awvalid_q' THEN DataOf(awburst', awcnt_q')
                    ELSE IF in_awvalid' THEN DataOf(aw', aw'.len + 1) ELSE <<>>
    <3> HIDE DEF left
    <3> QED BY <2>3, <2>6, <2>7, <2>8, OfferFits
  <2> QED BY <1>1, <1>2, <2>1, <2>2, <2>3, <2>4, <2>5, <2>9 DEF WriteInv
<1>4. CASE WriteLetInFirst(p)
  <2>1. Fit(aw) /\ aw # NoBurst /\ aw.len \in Nat
    BY <1>4, BurstsFit, FitFields DEF WriteLetInFirst
  <2>2. /\ awburst' = aw /\ awvalid_q' = TRUE /\ blast_q' = FALSE /\ awcnt_q' = aw.len + 1
        /\ wr' = <<>> /\ wdata' = DataOf(aw, aw.len + 1) /\ aw' = NoBurst /\ awmask' = TRUE
    BY <1>4 DEF WriteLetInFirst
  <2>3. awcnt_q' \in 0 .. awburst'.len + 1 /\ awcnt_q' # 0
    BY <2>1, <2>2
  <2> QED BY <1>1, <1>2, <2>1, <2>2, <2>3 DEF WriteInv, in_awvalid
<1>5. CASE WriteGoesOn(p)
  <2>1. awvalid_q /\ Fit(awburst) /\ awburst # NoBurst
    BY <1>5 DEF WriteInv, WriteGoesOn
  <2>2. awburst.len \in Nat /\ awburst.addr \in Nat /\ awcnt_q \in 1 .. awburst.len + 1
    BY <2>1, FitFields DEF WriteInv
  <2>3. Fit(awburst') /\ awburst'.len = awburst.len /\ awburst' # NoBurst
    <3>1. awburst' = Advance(awburst)
      BY <1>5 DEF WriteGoesOn
    <3>2. Fit(awburst') /\ awburst'.len = awburst.len
      BY <2>1, <3>1, AdvanceFits
    <3>3. awburst'.type # NoBurst.type
      BY <3>2 DEF Fit, NoBurst
    <3> QED BY <3>2, <3>3
  <2>4. awcnt_q' = awcnt_q - 1 /\ awcnt_q' \in 0 .. awburst'.len + 1 /\ (awcnt_q # 1 <=> awcnt_q' # 0)
    BY <1>5, <2>2, <2>3 DEF WriteGoesOn
  <2>5. awvalid_q' \in BOOLEAN /\ blast_q' \in BOOLEAN /\ (awvalid_q' <=> awcnt_q' # 0)
        /\ (awvalid_q' => ~blast_q')
    BY <1>5, <2>4, Zenon DEF WriteGoesOn
  <2>6. awmask' = TRUE /\ wr' = <<[addr |-> awburst.addr, data |-> awburst.addr]>>
    BY <1>5 DEF WriteGoesOn, Wrote
  <2> DEFINE left == IF awcnt_q = 1 THEN <<>> ELSE DataOf(Advance(awburst), awcnt_q - 1)
  <2>7. left = IF awvalid_q' THEN DataOf(awburst', awcnt_q') ELSE <<>>
    BY <1>5, <2>4, <2>5 DEF WriteGoesOn
  <2>8. awvalid_q' => left # <<>>
    <3>1. awvalid_q' => awcnt_q' \in Nat \ {0}
      BY <2>2, <2>4, <2>5
    <3> HIDE DEF left
    <3> QED BY <2>3, <2>7, <3>1, DataRest
  <2>9. Offer(left)
    BY <1>5 DEF WriteGoesOn
  <2>10. /\ aw' \in Bursts \cup {NoBurst} /\ (awvalid_q' => ~in_awvalid')
         /\ wdata' = IF awvalid_q' THEN DataOf(awburst', awcnt_q')
                     ELSE IF in_awvalid' THEN DataOf(aw', aw'.len + 1) ELSE <<>>
    <3> HIDE DEF left
    <3> QED BY <2>5, <2>7, <2>8, <2>9, OfferFits
  <2> QED BY <1>1, <1>2, <2>2, <2>3, <2>4, <2>5, <2>6, <2>10 DEF WriteInv
<1>6. CASE WriteWaits(p)
  <2>1. awburst' = awburst /\ awvalid_q' = awvalid_q /\ awcnt_q' = awcnt_q
    BY <1>6 DEF WriteWaits
  <2>2. /\ awmask' \in BOOLEAN /\ (awmask' <=> awmask /\ ~b_given(p))
        /\ blast_q' \in BOOLEAN /\ (blast_q' => blast_q)
    BY <1>6, Zenon DEF WriteWaits
  <2>3. wr' = IF Answered(p) THEN <<>> ELSE wr
    BY <1>6 DEF WriteWaits
  <2>4. b_given(p) => Answered(p) /\ ~awvalid_q
    BY DEF b_given, in_bvalid, Answered, out_bready, WriteInv
  <2>5. awvalid_q' \/ wr' # <<>> => awmask'
    BY <2>1, <2>2, <2>3, <2>4 DEF WriteInv
  <2>6. wr' = <<>> \/ \E a \in Nat : wr' = <<[addr |-> a, data |-> a]>>
    BY <2>3 DEF WriteInv
  <2>7. /\ aw' \in Bursts \cup {NoBurst} /\ (awvalid_q' => ~in_awvalid')
        /\ wdata' = IF awvalid_q' THEN DataOf(awburst', awcnt_q')
                    ELSE IF in_awvalid' THEN DataOf(aw', aw'.len + 1) ELSE <<>>
    <3>1. CASE UNCHANGED <<aw, wdata>>
      BY <2>1, <3>1 DEF WriteInv, in_awvalid
    <3>2. CASE wdata = <<>> /\ ~in_awvalid
               /\ \E b \in Bursts : aw' = b /\ wdata' = DataOf(b, b.len + 1)
      <4>1. ~awvalid_q'
        <5>1. SUFFICES ASSUME awvalid_q PROVE FALSE
          BY <2>1
        <5>2. Fit(awburst) /\ awcnt_q \in Nat \ {0} /\ wdata = DataOf(awburst, awcnt_q)
          BY <5>1, Lengths DEF WriteInv
        <5> QED BY <3>2, <5>2, DataRest
      <4>2. aw' \in Bursts /\ aw' # NoBurst /\ wdata' = DataOf(aw', aw'.len + 1)
        BY <3>2, BurstsFit
      <4> QED BY <4>1, <4>2 DEF in_awvalid
    <3> QED BY <1>6, <3>1, <3>2 DEF WriteWaits
  <2> QED BY <1>1, <1>2, <2>1, <2>2, <2>5, <2>6, <2>7 DEF WriteInv
<1> QED BY <1>3, <1>4, <1>5, <1>6, WriteCases

-----------------------------------------------------------------------------
(* The theorems.                                                           *)

\* Both invariants hold throughout.
LEMMA Start == ASSUME Init PROVE ReadInv /\ WriteInv
<1>1. /\ {armask, arvalid_q, rvalid} \subseteq BOOLEAN
      /\ {awmask, awvalid_q, blast_q, wvalid, bvalid} \subseteq BOOLEAN
  BY DEF Init
<1>2. arcnt_q \in 0 .. arburst.len /\ awcnt_q \in 0 .. awburst.len + 1
  <2>1. NoBurst.len = 0
    BY DEF NoBurst
  <2>2. arcnt_q = 0 /\ awcnt_q = 0 /\ arburst = NoBurst /\ awburst = NoBurst
    BY DEF Init
  <2> QED BY <2>1, <2>2
<1>3. /\ ar = NoBurst /\ aw = NoBurst /\ arburst = NoBurst /\ awburst = NoBurst
      /\ arcnt_q = 0 /\ awcnt_q = 0 /\ ~arvalid_q /\ ~awvalid_q /\ ~rvalid /\ ~bvalid /\ ~wvalid
      /\ rd = <<>> /\ wr = <<>> /\ wdata = <<>>
  BY DEF Init
<1>4. ReadInv
  BY <1>1, <1>2, <1>3 DEF ReadInv
<1>5. WriteInv
  BY <1>1, <1>2, <1>3 DEF WriteInv, in_awvalid
<1> QED BY <1>4, <1>5

LEMMA Stays == ASSUME ReadInv, WriteInv, [Next]_vars PROVE ReadInv' /\ WriteInv'
<1>1. CASE Next
  BY <1>1, ReadStays, WriteStays DEF Next
<1>2. CASE UNCHANGED vars
  <2>1. UNCHANGED <<armask, arvalid_q, arcnt_q, arburst, awmask, awvalid_q, awcnt_q, awburst,
                    blast_q, ar, aw, wdata, wvalid, rd, rvalid, wr, bvalid>>
    BY <1>2 DEF vars, readRegs, writeRegs, master, bus
  <2>2. ReadInv'
    BY <2>1 DEF ReadInv
  <2>3. WriteInv'
    BY <2>1 DEF WriteInv, in_awvalid
  <2> QED BY <2>2, <2>3
<1> QED BY <1>1, <1>2

\* What each direction remembers of a burst fits it.
LEMMA Fits == ASSUME ReadInv, WriteInv PROVE BurstInv
<1>1. arcnt_q \in 0 .. arburst.len /\ awcnt_q \in 0 .. awburst.len + 1
  BY DEF ReadInv, WriteInv
<1>2. Len(rd) <= 1 /\ Len(wr) <= 1
  <2>1. rd = <<>> \/ \E x : rd = <<x>>
    BY Zenon DEF ReadInv
  <2>2. wr = <<>> \/ \E x : wr = <<x>>
    BY Zenon DEF WriteInv
  <2>3. \A q : q = <<>> \/ (\E x : q = <<x>>) => Len(q) <= 1
    <3>1. ASSUME NEW x PROVE Len(<<x>>) <= 1
      OBVIOUS
    <3>2. Len(<<>>) <= 1
      OBVIOUS
    <3> QED BY <3>1, <3>2, Zenon
  <2> QED BY <2>1, <2>2, <2>3, Zenon
<1>3. wr # <<>> => wr[1].addr = wr[1].data
  BY DEF WriteInv
<1>4. /\ {awmask, armask, arvalid_q, awvalid_q, blast_q, wvalid, rvalid, bvalid} \subseteq BOOLEAN
      /\ ar \in Bursts \cup {NoBurst} /\ aw \in Bursts \cup {NoBurst}
  BY DEF ReadInv, WriteInv
<1>5. OneBurst
  BY DEF ReadInv, WriteInv, OneBurst
<1> QED BY <1>1, <1>2, <1>3, <1>4, <1>5 DEF BurstInv, TypeOK, WritesLand

\* For every set of bursts, whenever the master, the bus and the answers come: the registers
\* hold the one burst they were loaded for, no burst is let in before the one before it is
\* answered, and each word of write data is written to its own address
\* (axi4_axi4lite_conv.v 124-285).
THEOREM BurstsFitRegisters == Spec => []BurstInv
<1>1. Init => ReadInv /\ WriteInv
  BY Start
<1>2. ReadInv /\ WriteInv /\ [Next]_vars => (ReadInv /\ WriteInv)'
  BY Stays
<1>3. ReadInv /\ WriteInv => BurstInv
  BY Fits
<1> QED BY <1>1, <1>2, <1>3, PTL DEF Spec

\* Nothing put before or behind a sequence leaves it as it is.
LEMMA Joined ==
    ASSUME NEW q \in Seq(Beat), q # <<>>
    PROVE  <<>> \o q = q /\ q \o <<>> = q /\ <<>> \o <<Head(q)>> = <<Head(q)>>
<1>1. Head(q) \in Beat /\ <<Head(q)>> \in Seq(Beat)
  OBVIOUS
<1> QED BY <1>1, ConcatEmptySeq, Zenon

\* The accesses of the burst under way that are still to be made.
LEMMA Todo ==
    /\ ReadInv => TodoReads \in Seq(Beat)
    /\ WriteInv => TodoWrites \in Seq(Beat)
<1>1. ASSUME ReadInv, arvalid_q PROVE TodoReads \in Seq(Beat)
  <2>1. Fit(arburst) /\ arcnt_q \in Nat \ {0}
    BY <1>1, Lengths DEF ReadInv, NoBurst
  <2> QED BY <1>1, <2>1, BeatsRest DEF TodoReads
<1>2. ASSUME WriteInv, awvalid_q PROVE TodoWrites \in Seq(Beat)
  <2>1. Fit(awburst) /\ awcnt_q \in Nat \ {0}
    BY <1>2, Lengths DEF WriteInv
  <2> QED BY <1>2, <2>1, BeatsRest DEF TodoWrites
<1>3. <<>> \in Seq(Beat)
  OBVIOUS
<1> QED BY <1>1, <1>2, <1>3 DEF TodoReads, TodoWrites

\* The first of the accesses still to be made is made, and the others remain.
LEMMA OneMade ==
    ASSUME NEW b, Fit(b), NEW n \in Nat \ {0}
    PROVE  LET q == Beats(b, n)
           IN  /\ q # <<>> /\ q \o <<>> = q /\ <<>> \o q = q
               /\ Tail(q) = IF n = 1 THEN <<>> ELSE Beats(Advance(b), n - 1)
               /\ <<>> \o <<Head(q)>> = <<[id |-> b.id, word |-> b.addr, last |-> n = 1]>>
<1>1. /\ Beats(b, n) \in Seq(Beat) /\ Beats(b, n) # <<>>
      /\ Head(Beats(b, n)) = [id |-> b.id, word |-> b.addr, last |-> n = 1]
      /\ Tail(Beats(b, n)) = IF n = 1 THEN <<>> ELSE Beats(Advance(b), n - 1)
  BY BeatsRest
<1> DEFINE q == Beats(b, n)
<1>2. /\ <<>> \o q = q /\ q \o <<>> = q /\ <<>> \o <<Head(q)>> = <<Head(q)>>
  <2>1. q \in Seq(Beat) /\ q # <<>>
    BY <1>1
  <2> HIDE DEF q
  <2> QED BY <2>1, Joined
<1> QED BY <1>1, <1>2

\* A cycle of the read direction is one of a port that performs what it accepts in order.
LEMMA ReadCycle == ASSUME ReadInv, NEW p \in Inputs, Clock(p) PROVE ReadStep
<1> DEFINE reqs == IF ar_taken(p) THEN Beats(ar, ar.len + 1) ELSE <<>>
<1>1. CASE ReadLetIn(p)
  <2>1. Fit(ar) /\ ar.len \in Nat
    BY <1>1, BurstsFit, FitFields DEF ReadLetIn
  <2>2. PICK n \in Nat \ {0} : n = ar.len + 1 /\ n - 1 = ar.len /\ (n = 1) = (ar.len = 0)
    BY <2>1
  <2>3. TodoReads = <<>> /\ OwedReads = <<>> /\ reqs = Beats(ar, n)
    BY <1>1, <2>2 DEF TodoReads, OwedReads, ReadLetIn
  <2>4. TodoReads' = IF n = 1 THEN <<>> ELSE Beats(Advance(ar), n - 1)
    BY <1>1, <2>2 DEF TodoReads, ReadLetIn
  <2>5. OwedReads' = <<[id |-> ar.id, word |-> ar.addr, last |-> n = 1]>>
    <3>1. arburst'.id = ar.id
      BY <1>1, <2>1, AdvanceFits DEF ReadLetIn
    <3>2. rlast' = (n = 1)
      BY <1>1, <2>2 DEF ReadLetIn, rlast
    <3>3. rd' # <<>> /\ rd'[1] = ar.addr
      BY <1>1 DEF ReadLetIn
    <3> QED BY <3>1, <3>2, <3>3 DEF OwedReads
  <2>6. Reads!Cycle(reqs, TRUE, FALSE)
    <3> DEFINE q == Beats(ar, n)
    <3>1. /\ q # <<>> /\ <<>> \o q = q
          /\ Tail(q) = IF n = 1 THEN <<>> ELSE Beats(Advance(ar), n - 1)
          /\ <<>> \o <<Head(q)>> = <<[id |-> ar.id, word |-> ar.addr, last |-> n = 1]>>
      BY <2>1, OneMade
    <3>2. TodoReads \o reqs = q
      BY <2>3, <3>1
    <3> HIDE DEF q, reqs
    <3>3. TodoReads' = Tail(q) /\ OwedReads' = OwedReads \o <<Head(q)>>
      BY <2>3, <2>4, <2>5, <3>1
    <3> QED BY <3>1, <3>2, <3>3 DEF Reads!Cycle
  <2>7. read_made(p) = TRUE /\ r_given(p) = FALSE
    BY <1>1, Zenon DEF ReadLetIn, read_made, r_given
  <2> QED BY <2>3, <2>6, <2>7 DEF ReadStep
<1>2. CASE ReadGoesOn(p)
  <2>1. Fit(arburst) /\ arcnt_q \in Nat \ {0}
    BY <1>2, Lengths DEF ReadInv, ReadGoesOn, NoBurst
  <2>2. TodoReads = Beats(arburst, arcnt_q) /\ OwedReads = <<>> /\ reqs = <<>>
    BY <1>2 DEF TodoReads, OwedReads, ReadGoesOn
  <2>3. TodoReads' = IF arcnt_q = 1 THEN <<>> ELSE Beats(Advance(arburst), arcnt_q - 1)
    BY <1>2 DEF TodoReads, ReadGoesOn
  <2>4. OwedReads' = <<[id |-> arburst.id, word |-> arburst.addr, last |-> arcnt_q = 1]>>
    <3>1. arburst'.id = arburst.id
      BY <1>2, <2>1, AdvanceFits DEF ReadGoesOn
    <3>2. rlast' = (arcnt_q = 1)
      BY <1>2, <2>1 DEF ReadGoesOn, rlast
    <3>3. rd' # <<>> /\ rd'[1] = arburst.addr
      BY <1>2 DEF ReadGoesOn
    <3> QED BY <3>1, <3>2, <3>3 DEF OwedReads
  <2>5. Reads!Cycle(reqs, TRUE, FALSE)
    <3> DEFINE q == Beats(arburst, arcnt_q)
    <3>1. /\ q # <<>> /\ q \o <<>> = q
          /\ Tail(q) = IF arcnt_q = 1 THEN <<>> ELSE Beats(Advance(arburst), arcnt_q - 1)
          /\ <<>> \o <<Head(q)>> = <<[id |-> arburst.id, word |-> arburst.addr, last |-> arcnt_q = 1]>>
      BY <2>1, OneMade
    <3>2. TodoReads \o reqs = q
      BY <2>2, <3>1
    <3> HIDE DEF q, reqs
    <3>3. TodoReads' = Tail(q) /\ OwedReads' = OwedReads \o <<Head(q)>>
      BY <2>2, <2>3, <2>4, <3>1
    <3> QED BY <3>1, <3>2, <3>3 DEF Reads!Cycle
  <2>6. read_made(p) = TRUE /\ r_given(p) = FALSE /\ ~ar_taken(p)
    BY <1>2, Zenon DEF ReadGoesOn, read_made, r_given
  <2> QED BY <2>5, <2>6 DEF ReadStep
<1>3. CASE ReadWaits(p)
  <2>1. reqs = <<>> /\ TodoReads \o <<>> = TodoReads
    BY <1>3, Todo, ConcatEmptySeq DEF ReadWaits
  <2>2. TodoReads' = TodoReads
    BY <1>3 DEF TodoReads, ReadWaits
  <2>3. r_given(p) => OwedReads # <<>>
    BY <1>3 DEF OwedReads, ReadWaits
  <2>4. OwedReads' = (IF r_given(p) THEN Tail(OwedReads) ELSE OwedReads) \o <<>>
    <3>1. CASE r_given(p)
      <4>1. OwedReads' = <<>>
        BY <1>3, <3>1 DEF OwedReads, ReadWaits
      <4>2. Tail(OwedReads) = <<>>
        BY <2>3, <3>1 DEF OwedReads
      <4> QED BY <3>1, <4>1, <4>2
    <3>2. CASE ~r_given(p)
      <4>1. OwedReads' = OwedReads
        BY <1>3, <3>2 DEF OwedReads, ReadWaits, rlast
      <4>2. OwedReads \o <<>> = OwedReads
        BY DEF OwedReads
      <4> QED BY <3>2, <4>1, <4>2
    <3> QED BY <3>1, <3>2
  <2>5. Reads!Cycle(reqs, FALSE, r_given(p))
    BY <2>1, <2>2, <2>3, <2>4, Zenon DEF Reads!Cycle
  <2>6. read_made(p) = FALSE /\ ~ar_taken(p)
    BY <1>3, Zenon DEF ReadWaits, read_made
  <2> QED BY <2>5, <2>6 DEF ReadStep
<1> QED BY <1>1, <1>2, <1>3, ReadCases

\* And so is one of the write direction, which is answered for all words at the last.
LEMMA WriteCycle == ASSUME WriteInv, NEW p \in Inputs, Clock(p) PROVE WriteStep
<1> DEFINE reqs == IF aw_taken(p) THEN Beats(aw, aw.len + 1) ELSE <<>>
<1>1. CASE WriteLetIn(p)
  <2>1. Fit(aw) /\ aw.len \in Nat
    BY <1>1, BurstsFit, FitFields DEF WriteLetIn
  <2>2. PICK n \in Nat \ {0} : n = aw.len + 1 /\ n - 1 = aw.len /\ (n = 1) = (aw.len = 0)
    BY <2>1
  <2>3. TodoWrites = <<>> /\ OwedWrites = <<>> /\ reqs = Beats(aw, n)
    BY <1>1, <2>2 DEF TodoWrites, OwedWrites, WriteLetIn
  <2>4. TodoWrites' = IF n = 1 THEN <<>> ELSE Beats(Advance(aw), n - 1)
    BY <1>1, <2>2 DEF TodoWrites, WriteLetIn
  <2>5. OwedWrites' = <<[id |-> aw.id, word |-> aw.addr, last |-> n = 1]>>
    <3>1. awburst'.id = aw.id
      BY <1>1, <2>1, AdvanceFits DEF WriteLetIn
    <3>2. blast_q' = (n = 1)
      BY <1>1, <2>2 DEF WriteLetIn
    <3>3. wr' # <<>> /\ wr'[1].addr = aw.addr
      BY <1>1 DEF WriteLetIn, Wrote
    <3> QED BY <3>1, <3>2, <3>3 DEF OwedWrites
  <2>6. Writes!Cycle(reqs, TRUE, FALSE)
    <3> DEFINE q == Beats(aw, n)
    <3>1. /\ q # <<>> /\ <<>> \o q = q
          /\ Tail(q) = IF n = 1 THEN <<>> ELSE Beats(Advance(aw), n - 1)
          /\ <<>> \o <<Head(q)>> = <<[id |-> aw.id, word |-> aw.addr, last |-> n = 1]>>
      BY <2>1, OneMade
    <3>2. TodoWrites \o reqs = q
      BY <2>3, <3>1
    <3> HIDE DEF q, reqs
    <3>3. TodoWrites' = Tail(q) /\ OwedWrites' = OwedWrites \o <<Head(q)>>
      BY <2>3, <2>4, <2>5, <3>1
    <3> QED BY <3>1, <3>2, <3>3 DEF Writes!Cycle
  <2>7. write_made(p) = TRUE /\ Answered(p) = FALSE
    <3>1. ~bvalid
      BY <1>1 DEF WriteInv, WriteLetIn
    <3> QED BY <1>1, <3>1, Zenon DEF WriteLetIn, write_made, Answered
  <2> QED BY <2>3, <2>6, <2>7 DEF WriteStep, Answered
<1>2. CASE WriteLetInFirst(p)
  <2>1. Fit(aw) /\ aw.len + 1 \in Nat \ {0}
    BY <1>2, BurstsFit, FitFields DEF WriteLetInFirst
  <2>2. TodoWrites = <<>> /\ OwedWrites = <<>> /\ OwedWrites' = <<>> /\ reqs = TodoWrites'
    BY <1>2 DEF TodoWrites, OwedWrites, WriteLetInFirst
  <2>3. <<>> \o reqs = reqs /\ <<>> \o <<>> = <<>>
    BY <1>2, <2>1, OneMade DEF WriteLetInFirst
  <2>4. Writes!Cycle(reqs, FALSE, FALSE)
    <3> HIDE DEF reqs
    <3> QED BY <2>2, <2>3, Zenon DEF Writes!Cycle
  <2>5. write_made(p) = FALSE /\ Answered(p) = FALSE
    <3>1. ~bvalid
      BY <1>2 DEF WriteInv, WriteLetInFirst
    <3> QED BY <1>2, <3>1, Zenon DEF WriteLetInFirst, write_made, Answered
  <2> QED BY <2>2, <2>4, <2>5 DEF WriteStep, Answered
<1>3. CASE WriteGoesOn(p)
  <2>1. Fit(awburst) /\ awcnt_q \in Nat \ {0}
    BY <1>3, Lengths DEF WriteInv, WriteGoesOn
  <2>2. TodoWrites = Beats(awburst, awcnt_q) /\ OwedWrites = <<>> /\ reqs = <<>>
    BY <1>3 DEF TodoWrites, OwedWrites, WriteGoesOn
  <2>3. TodoWrites' = IF awcnt_q = 1 THEN <<>> ELSE Beats(Advance(awburst), awcnt_q - 1)
    BY <1>3 DEF TodoWrites, WriteGoesOn
  <2>4. OwedWrites' = <<[id |-> awburst.id, word |-> awburst.addr, last |-> awcnt_q = 1]>>
    <3>1. awburst'.id = awburst.id
      BY <1>3, <2>1, AdvanceFits DEF WriteGoesOn
    <3>2. blast_q' = (awcnt_q = 1)
      BY <1>3 DEF WriteGoesOn
    <3>3. wr' # <<>> /\ wr'[1].addr = awburst.addr
      BY <1>3 DEF WriteGoesOn, Wrote
    <3> QED BY <3>1, <3>2, <3>3 DEF OwedWrites
  <2>5. Writes!Cycle(reqs, TRUE, FALSE)
    <3> DEFINE q == Beats(awburst, awcnt_q)
    <3>1. /\ q # <<>> /\ q \o <<>> = q
          /\ Tail(q) = IF awcnt_q = 1 THEN <<>> ELSE Beats(Advance(awburst), awcnt_q - 1)
          /\ <<>> \o <<Head(q)>> = <<[id |-> awburst.id, word |-> awburst.addr, last |-> awcnt_q = 1]>>
      BY <2>1, OneMade
    <3>2. TodoWrites \o reqs = q
      BY <2>2, <3>1
    <3> HIDE DEF q, reqs
    <3>3. TodoWrites' = Tail(q) /\ OwedWrites' = OwedWrites \o <<Head(q)>>
      BY <2>2, <2>3, <2>4, <3>1
    <3> QED BY <3>1, <3>2, <3>3 DEF Writes!Cycle
  <2>6. write_made(p) = TRUE /\ Answered(p) = FALSE /\ ~aw_taken(p)
    <3>1. ~bvalid
      BY <1>3 DEF WriteInv, WriteGoesOn
    <3> QED BY <1>3, <3>1, Zenon DEF WriteGoesOn, write_made, Answered
  <2> QED BY <2>5, <2>6 DEF WriteStep, Answered
<1>4. CASE WriteWaits(p)
  <2>1. reqs = <<>> /\ TodoWrites \o <<>> = TodoWrites
    BY <1>4, Todo, ConcatEmptySeq DEF WriteWaits
  <2>2. TodoWrites' = TodoWrites
    BY <1>4 DEF TodoWrites, WriteWaits
  <2>3. Answered(p) => OwedWrites # <<>> /\ OwedWrites[1].last = blast_q
    BY DEF OwedWrites, Answered, WriteInv
  <2>4. OwedWrites' = (IF Answered(p) THEN Tail(OwedWrites) ELSE OwedWrites) \o <<>>
    <3>1. CASE Answered(p)
      <4>1. OwedWrites' = <<>>
        BY <1>4, <3>1 DEF OwedWrites, WriteWaits
      <4>2. Tail(OwedWrites) = <<>>
        BY <2>3, <3>1 DEF OwedWrites
      <4> QED BY <3>1, <4>1, <4>2
    <3>2. CASE ~Answered(p)
      <4>1. ~b_given(p)
        BY <3>2 DEF b_given, in_bvalid, Answered, out_bready
      <4>2. blast_q' = blast_q
        BY <1>4, <4>1 DEF WriteWaits, WriteInv
      <4>3. OwedWrites' = OwedWrites
        BY <1>4, <3>2, <4>2 DEF OwedWrites, WriteWaits
      <4>4. OwedWrites \o <<>> = OwedWrites
        BY DEF OwedWrites
      <4> QED BY <3>2, <4>3, <4>4
    <3> QED BY <3>1, <3>2
  <2>5. Writes!Cycle(reqs, FALSE, Answered(p))
    BY <2>1, <2>2, <2>3, <2>4, Zenon DEF Writes!Cycle
  <2>6. write_made(p) = FALSE /\ ~aw_taken(p)
    BY <1>4, Zenon DEF WriteWaits, write_made
  <2>7. Answered(p) => (in_bvalid <=> OwedWrites[1].last)
    BY <2>3, Zenon DEF Answered, in_bvalid
  <2> QED BY <2>5, <2>6, <2>7 DEF WriteStep, Answered
<1> QED BY <1>1, <1>2, <1>3, <1>4, WriteCases

\* For every set of bursts, and whenever anything comes: in each direction the words of the
\* bursts let in are performed once each, in the order AXI gives them, with the burst's identity,
\* and answered in that order, the last one as the last; of a write only that answer is passed
\* on (axi4_axi4lite_conv.v 124-347).
THEOREM BurstsPerformed == Spec => ImplementsPorts
<1>1. Init => ReadInv /\ WriteInv
  BY Start
<1>2. ReadInv /\ WriteInv /\ [Next]_vars => (ReadInv /\ WriteInv)'
  BY Stays
<1>3. Init => Reads!Init /\ Writes!Init
  BY DEF Init, Reads!Init, Writes!Init, TodoReads, TodoWrites, OwedReads, OwedWrites
<1>4. ReadInv /\ WriteInv /\ [Next]_vars => [ReadStep]_vars /\ [WriteStep]_vars
  BY ReadCycle, WriteCycle DEF Next
<1> QED BY <1>1, <1>2, <1>3, <1>4, PTL DEF Spec, ImplementsPorts, ImplementsReads, ImplementsWrites
=============================================================================
