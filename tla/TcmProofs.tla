----------------------------- MODULE TcmProofs ------------------------------
(***************************************************************************)
(* The tightly coupled memory.  The debug bridge's port (TcmPmem) keeps    *)
(* its queues, hold marks and counters consistent, and turns a burst into  *)
(* the accesses it stands for, for every set of bursts and every depth of  *)
(* the FIFOs.  The memory behind it (TcmMem) is one RAM for its three      *)
(* users, for every set of words, data and tags.                           *)
(***************************************************************************)
EXTENDS TcmPmem, TcmMem, QueueLemmas

Request == [read : BOOLEAN, last : BOOLEAN, id : Nat]
Access == [read : BOOLEAN, last : BOOLEAN, id : Nat, word : Nat]
Datum == [word : Nat, last : BOOLEAN]

-----------------------------------------------------------------------------
(* Queues of accesses.                                                     *)

\* Coming is concatenation with what came.
LEMMA CameIsConcat ==
    ASSUME NEW R, NEW s \in Seq(R), NEW x \in R, NEW come \in BOOLEAN
    PROVE  s \o (IF come THEN <<x>> ELSE <<>>) = Came(s, x, come)
BY AppendIsConcat, ConcatEmptySeq DEF Came

\* Requests and the words answered to them, put together.
Answered(x, w) == [read |-> x.read, last |-> x.last, id |-> x.id, word |-> w]
Zipped(r, w) == [i \in 1 .. Len(r) |-> Answered(r[i], w[i])]

\* Requests and words of the same number make as many accesses.
LEMMA ZipSeq ==
    ASSUME NEW r \in Seq(Request), NEW w \in Seq(Nat), Len(r) = Len(w)
    PROVE  /\ Zipped(r, w) \in Seq(Access)
           /\ Len(Zipped(r, w)) = Len(r)
           /\ \A i \in 1 .. Len(r) : Zipped(r, w)[i] = Answered(r[i], w[i])
<1>1. Len(r) \in Nat /\ \A i \in 1 .. Len(r) : r[i] \in Request /\ w[i] \in Nat
  BY LenProperties, ElementOfSeq
<1>2. \A i \in 1 .. Len(r) : Answered(r[i], w[i]) \in Access
  BY <1>1 DEF Answered, Request, Access
<1>3. Zipped(r, w) \in [1 .. Len(r) -> Access]
  BY <1>2 DEF Zipped
<1> QED BY <1>1, <1>3 DEF Zipped

\* What leaves both leaves the pairs.
LEMMA ZipLeft ==
    ASSUME NEW r \in Seq(Request), NEW w \in Seq(Nat), Len(r) = Len(w),
           NEW gone \in BOOLEAN, gone => r # <<>>
    PROVE  Zipped(Left(r, gone), Left(w, gone)) = Left(Zipped(r, w), gone)
<1>1. CASE ~gone
  BY <1>1 DEF Left
<1>2. CASE gone
  <2> DEFINE n == Len(r) z == Zipped(r, w) lr == Left(r, gone) lw == Left(w, gone)
             a == Zipped(lr, lw) b == Left(z, gone)
  <2>1. r # <<>> /\ n \in Nat /\ n > 0
    BY <1>2, EmptySeq, LenProperties
  <2>2. w # <<>>
    BY <2>1, EmptySeq
  <2>3. /\ lr \in Seq(Request) /\ Len(lr) = n - 1
        /\ \A i \in 1 .. n - 1 : lr[i] = r[i + 1]
    BY <1>2, <2>1, LeftProperties
  <2>4. /\ lw \in Seq(Nat) /\ Len(lw) = n - 1
        /\ \A i \in 1 .. n - 1 : lw[i] = w[i + 1]
    BY <1>2, <2>2, LeftProperties
  <2>5. z \in Seq(Access) /\ Len(z) = n /\ \A i \in 1 .. n : z[i] = Answered(r[i], w[i])
    BY ZipSeq
  <2> HIDE DEF lr, lw, z
  <2>6. /\ a \in Seq(Access) /\ Len(a) = n - 1
        /\ \A i \in 1 .. n - 1 : a[i] = Answered(lr[i], lw[i])
    BY <2>3, <2>4, ZipSeq
  <2>7. z # <<>>
    BY <2>1, <2>5, EmptySeq
  <2>8. /\ b \in Seq(Access) /\ Len(b) = n - 1
        /\ \A i \in 1 .. n - 1 : b[i] = z[i + 1]
    BY <1>2, <2>5, <2>7, LeftProperties
  <2> HIDE DEF a, b
  <2>9. ASSUME NEW i \in 1 .. n - 1 PROVE a[i] = b[i]
    <3>1. i + 1 \in 1 .. n
      BY <2>1
    <3> QED BY <2>3, <2>4, <2>5, <2>6, <2>8, <3>1
  <2>10. a = b
    BY <2>6, <2>8, <2>9, SeqEqual
  <2> QED BY <2>10 DEF a, b, lr, lw, z
<1> QED BY <1>1, <1>2

\* What comes to both comes to the pairs.
LEMMA ZipCame ==
    ASSUME NEW r \in Seq(Request), NEW w \in Seq(Nat), Len(r) = Len(w),
           NEW x \in Request, NEW v \in Nat, NEW come \in BOOLEAN
    PROVE  Zipped(Came(r, x, come), Came(w, v, come)) = Came(Zipped(r, w), Answered(x, v), come)
<1>1. CASE ~come
  BY <1>1 DEF Came
<1>2. CASE come
  <2> DEFINE n == Len(r) z == Zipped(r, w) cr == Came(r, x, come) cw == Came(w, v, come)
             y == Answered(x, v)
             a == Zipped(cr, cw) b == Came(z, y, come)
  <2>1. n \in Nat
    BY LenProperties
  <2>2. /\ cr \in Seq(Request) /\ Len(cr) = n + 1
        /\ \A i \in 1 .. n : cr[i] = r[i]
        /\ cr[n + 1] = x
    BY <1>2, AppendProperties DEF Came
  <2>3. /\ cw \in Seq(Nat) /\ Len(cw) = n + 1
        /\ \A i \in 1 .. n : cw[i] = w[i]
        /\ cw[n + 1] = v
    BY <1>2, AppendProperties DEF Came
  <2>4. z \in Seq(Access) /\ Len(z) = n /\ \A i \in 1 .. n : z[i] = Answered(r[i], w[i])
    BY ZipSeq
  <2>5. y \in Access
    BY DEF Answered, Request, Access
  <2> HIDE DEF cr, cw, z, y
  <2>6. /\ a \in Seq(Access) /\ Len(a) = n + 1
        /\ \A i \in 1 .. n + 1 : a[i] = Answered(cr[i], cw[i])
    BY <2>2, <2>3, ZipSeq
  <2>7. /\ b \in Seq(Access) /\ Len(b) = n + 1
        /\ \A i \in 1 .. n : b[i] = z[i]
        /\ b[n + 1] = y
    BY <1>2, <2>4, <2>5, AppendProperties DEF Came
  <2> HIDE DEF a, b
  <2>8. a[n + 1] = b[n + 1]
    <3>1. n + 1 \in 1 .. n + 1
      BY <2>1
    <3>2. a[n + 1] = Answered(x, v)
      BY <2>2, <2>3, <2>6, <3>1, Zenon
    <3> QED BY <2>7, <3>2, Zenon DEF y
  <2>9. ASSUME NEW i \in 1 .. n PROVE a[i] = b[i]
    BY <2>1, <2>2, <2>3, <2>4, <2>6, <2>7
  <2>10. ASSUME NEW i \in 1 .. n + 1 PROVE a[i] = b[i]
    BY <2>1, <2>8, <2>9
  <2>11. a = b
    BY <2>6, <2>7, <2>10, SeqEqual
  <2> QED BY <2>11 DEF a, b, cr, cw, z, y
<1> QED BY <1>1, <1>2

-----------------------------------------------------------------------------
(* The words of a burst, and the accesses it stands for.                   *)

WordOf(b, i) == [word |-> b.addr + i - 1, last |-> i = b.len + 1]

\* The words of a burst: one more than its length says, at ascending addresses.
LEMMA WordsSeq ==
    ASSUME NEW b, b.addr \in Nat, b.len \in Nat
    PROVE  /\ DataWords(b) \in Seq(Datum)
           /\ Len(DataWords(b)) = b.len + 1
           /\ DataWords(b) # <<>>
           /\ \A i \in 1 .. b.len + 1 : DataWords(b)[i] = WordOf(b, i)
<1> DEFINE n == b.len + 1
<1>1. n \in Nat /\ n > 0
  OBVIOUS
<1>2. \A i \in 1 .. n : WordOf(b, i) \in Datum
  <2>1. \A i \in 1 .. n : b.addr + i - 1 \in Nat
    BY <1>1
  <2>2. \A i \in 1 .. n : (i = b.len + 1) \in BOOLEAN
    OBVIOUS
  <2> QED BY <2>1, <2>2 DEF WordOf, Datum
<1>3. DataWords(b) = [i \in 1 .. n |-> WordOf(b, i)]
  BY DEF DataWords, WordOf
<1> HIDE DEF n
<1>4. DataWords(b) \in [1 .. n -> Datum]
  BY <1>2, <1>3
<1>5. DataWords(b) \in Seq(Datum) /\ Len(DataWords(b)) = n
  BY <1>1, <1>4
<1> QED BY <1>1, <1>3, <1>5, EmptySeq DEF n

\* A burst without its first word is the burst from the next address on.
LEMMA WordsTail ==
    ASSUME NEW b, b.addr \in Nat, b.len \in Nat
    PROVE  /\ Head(DataWords(b)) = [word |-> b.addr, last |-> b.len = 0]
           /\ b.len = 0 => Tail(DataWords(b)) = <<>>
           /\ \A c : c.addr = b.addr + 1 /\ b.len > 0 /\ c.len = b.len - 1
                     => Tail(DataWords(b)) = DataWords(c)
<1> DEFINE w == DataWords(b)
           t == Tail(w)
<1>1. /\ w \in Seq(Datum) /\ Len(w) = b.len + 1 /\ w # <<>>
      /\ \A i \in 1 .. b.len + 1 : w[i] = WordOf(b, i)
  BY WordsSeq
<1> HIDE DEF w
<1>2. t \in Seq(Datum) /\ Len(t) = b.len /\ \A i \in 1 .. b.len : t[i] = w[i + 1]
  <2>1. /\ t \in Seq(Datum) /\ Len(t) = Len(w) - 1
        /\ \A i \in 1 .. Len(t) : t[i] = w[i + 1]
    BY <1>1, HeadTailProperties
  <2>2. Len(w) - 1 = b.len
    BY <1>1
  <2> QED BY <2>1, <2>2, Zenon
<1>3. Head(w) = [word |-> b.addr, last |-> b.len = 0]
  <2>1. Head(w) = w[1] /\ 1 \in 1 .. b.len + 1
    BY <1>1
  <2>2. b.addr + 1 - 1 = b.addr /\ (1 = b.len + 1) = (b.len = 0)
    OBVIOUS
  <2> QED BY <1>1, <2>1, <2>2, Zenon DEF WordOf
<1> HIDE DEF t
<1>4. b.len = 0 => t = <<>>
  BY <1>2, EmptySeq
<1>5. ASSUME NEW c, c.addr = b.addr + 1, b.len > 0, c.len = b.len - 1
      PROVE  t = DataWords(c)
  <2>1. /\ DataWords(c) \in Seq(Datum) /\ Len(DataWords(c)) = b.len
        /\ \A i \in 1 .. b.len : DataWords(c)[i] = WordOf(c, i)
    <3>1. c.addr \in Nat /\ c.len \in Nat /\ c.len + 1 = b.len
      BY <1>5
    <3> QED BY <3>1, WordsSeq
  <2>2. ASSUME NEW i \in 1 .. b.len PROVE t[i] = DataWords(c)[i]
    <3>1. /\ i + 1 \in 1 .. b.len + 1
          /\ b.addr + (i + 1) - 1 = c.addr + i - 1
          /\ (i + 1 = b.len + 1) = (i = c.len + 1)
      BY <1>5
    <3>2. WordOf(b, i + 1) = WordOf(c, i)
      BY <3>1, Zenon DEF WordOf
    <3>3. t[i] = w[i + 1]
      BY <1>2
    <3>4. w[i + 1] = WordOf(b, i + 1)
      BY <1>1, <3>1
    <3>5. DataWords(c)[i] = WordOf(c, i)
      BY <2>1
    <3> QED BY <3>2, <3>3, <3>4, <3>5, Zenon
  <2> QED BY <1>2, <2>1, <2>2, SeqEqual, Zenon
<1> QED BY <1>3, <1>4, <1>5, Zenon DEF t, w

BeatOf(read, b, i) ==
    [read |-> read, last |-> i = b.len + 1, id |-> b.id, word |-> b.addr + i - 1]

\* Its accesses likewise.
LEMMA BeatsSeq ==
    ASSUME NEW read \in BOOLEAN, NEW b, b.addr \in Nat, b.len \in Nat, b.id \in Nat
    PROVE  /\ Beats(read, b) \in Seq(Access)
           /\ Len(Beats(read, b)) = b.len + 1
           /\ Beats(read, b) # <<>>
           /\ \A i \in 1 .. b.len + 1 : Beats(read, b)[i] = BeatOf(read, b, i)
<1> DEFINE n == b.len + 1
<1>1. n \in Nat /\ n > 0
  OBVIOUS
<1>2. \A i \in 1 .. n : BeatOf(read, b, i) \in Access
  <2>1. \A i \in 1 .. n : b.addr + i - 1 \in Nat
    BY <1>1
  <2>2. \A i \in 1 .. n : (i = b.len + 1) \in BOOLEAN
    OBVIOUS
  <2> QED BY <2>1, <2>2 DEF BeatOf, Access
<1>3. Beats(read, b) = [i \in 1 .. n |-> BeatOf(read, b, i)]
  BY DEF Beats, BeatOf
<1> HIDE DEF n
<1>4. Beats(read, b) \in [1 .. n -> Access]
  BY <1>2, <1>3
<1>5. Beats(read, b) \in Seq(Access) /\ Len(Beats(read, b)) = n
  BY <1>1, <1>4
<1> QED BY <1>1, <1>3, <1>5, EmptySeq DEF n

\* A burst without its first access is the burst from the next address on.
LEMMA BeatsTail ==
    ASSUME NEW read \in BOOLEAN, NEW b, b.addr \in Nat, b.len \in Nat, b.id \in Nat
    PROVE  /\ Head(Beats(read, b))
                = [read |-> read, last |-> b.len = 0, id |-> b.id, word |-> b.addr]
           /\ b.len = 0 => Tail(Beats(read, b)) = <<>>
           /\ \A c : c.addr = b.addr + 1 /\ b.len > 0 /\ c.len = b.len - 1 /\ c.id = b.id
                     => Tail(Beats(read, b)) = Beats(read, c)
<1> DEFINE w == Beats(read, b)
           t == Tail(w)
<1>1. /\ w \in Seq(Access) /\ Len(w) = b.len + 1 /\ w # <<>>
      /\ \A i \in 1 .. b.len + 1 : w[i] = BeatOf(read, b, i)
  BY BeatsSeq
<1> HIDE DEF w
<1>2. t \in Seq(Access) /\ Len(t) = b.len /\ \A i \in 1 .. b.len : t[i] = w[i + 1]
  <2>1. /\ t \in Seq(Access) /\ Len(t) = Len(w) - 1
        /\ \A i \in 1 .. Len(t) : t[i] = w[i + 1]
    BY <1>1, HeadTailProperties
  <2>2. Len(w) - 1 = b.len
    BY <1>1
  <2> QED BY <2>1, <2>2, Zenon
<1>3. Head(w) = [read |-> read, last |-> b.len = 0, id |-> b.id, word |-> b.addr]
  <2>1. Head(w) = w[1] /\ 1 \in 1 .. b.len + 1
    BY <1>1
  <2>2. b.addr + 1 - 1 = b.addr /\ (1 = b.len + 1) = (b.len = 0)
    OBVIOUS
  <2> QED BY <1>1, <2>1, <2>2, Zenon DEF BeatOf
<1> HIDE DEF t
<1>4. b.len = 0 => t = <<>>
  BY <1>2, EmptySeq
<1>5. ASSUME NEW c, c.addr = b.addr + 1, b.len > 0, c.len = b.len - 1, c.id = b.id
      PROVE  t = Beats(read, c)
  <2>1. /\ Beats(read, c) \in Seq(Access) /\ Len(Beats(read, c)) = b.len
        /\ \A i \in 1 .. b.len : Beats(read, c)[i] = BeatOf(read, c, i)
    <3>1. c.addr \in Nat /\ c.len \in Nat /\ c.len + 1 = b.len /\ c.id \in Nat
      BY <1>5
    <3> QED BY <3>1, BeatsSeq
  <2>2. ASSUME NEW i \in 1 .. b.len PROVE t[i] = Beats(read, c)[i]
    <3>1. /\ i + 1 \in 1 .. b.len + 1
          /\ b.addr + (i + 1) - 1 = c.addr + i - 1
          /\ (i + 1 = b.len + 1) = (i = c.len + 1)
      BY <1>5
    <3>2. BeatOf(read, b, i + 1) = BeatOf(read, c, i)
      BY <1>5, <3>1, Zenon DEF BeatOf
    <3>3. t[i] = w[i + 1]
      BY <1>2
    <3>4. w[i + 1] = BeatOf(read, b, i + 1)
      BY <1>1, <3>1
    <3>5. Beats(read, c)[i] = BeatOf(read, c, i)
      BY <2>1
    <3> QED BY <3>2, <3>3, <3>4, <3>5, Zenon
  <2> QED BY <1>2, <2>1, <2>2, SeqEqual, Zenon
<1> QED BY <1>3, <1>4, <1>5, Zenon DEF t, w

-----------------------------------------------------------------------------
(* The inductive invariant.                                                *)

Exclusive == ~(req_rd /\ req_wr)

\* The write data ready is the rest of the burst in progress and that of the
\* burst asked for.
Rest == IF req_wr THEN DataWords([addr |-> req_addr, len |-> req_len]) ELSE <<>>
Offered == IF awvalid THEN DataWords(aw) ELSE <<>>
DataInv == wdata = Rest \o Offered

IInv == TypeOK /\ Exclusive /\ AnswersFit /\ HoldKept /\ DataInv

\* What the fields of a burst on offer are.
LEMMA BurstFields ==
    ASSUME NEW b \in Bursts \cup {NoBurst}
    PROVE  /\ b.id \in Nat /\ b.addr \in Nat /\ b.len \in Nat
           /\ b # NoBurst => b.len \in 0 .. LenRange - 1
BY BurstAssumption DEF NoBurst, LenRange

\* One word less to go, while there is one.
LEMMA DecLenIs ==
    ASSUME NEW n \in 0 .. LenRange - 1
    PROVE  /\ DecLen(n) \in 0 .. LenRange - 1
           /\ n > 0 => DecLen(n) = n - 1
<1>1. CASE n = 0
  BY <1>1 DEF DecLen, LenRange
<1>2. CASE n > 0
  BY <1>2 DEF DecLen, LenRange
<1> QED BY <1>1, <1>2

\* The flags are Boolean.
LEMMA IInvBooleans ==
    ASSUME TypeOK
    PROVE  /\ req_rd \in BOOLEAN /\ req_wr \in BOOLEAN /\ hold_rd \in BOOLEAN
           /\ hold_wr \in BOOLEAN /\ req_prio \in BOOLEAN /\ wvalid \in BOOLEAN
BY DEF TypeOK

\* Only one side is served in a cycle.
LEMMA OneSide == ASSUME IInv PROVE ~(read_active /\ write_active)
<1> SUFFICES ASSUME read_active, write_active PROVE FALSE
  OBVIOUS
<1>1. ~req_rd /\ ~req_wr /\ arvalid /\ awvalid /\ read_prio /\ write_prio
  BY DEF read_active, write_active
<1>2. hold_rd /\ hold_wr
  BY <1>1 DEF read_prio, write_prio
<1>3. ram_wr /\ ~ram_wr
  BY <1>2 DEF IInv, HoldKept
<1> QED BY <1>3

\* What the wires of a cycle tell of the burst in progress.
LEMMA Wires ==
    ASSUME IInv, NEW p \in Inputs
    PROVE  /\ aw_taken(p) =>
                 /\ awvalid /\ ~req_rd /\ ~req_wr /\ ~ar_taken(p) /\ p.accept
                 /\ performed(p) = w_taken(p) /\ ram_addr = aw.addr /\ ~ram_rd
           /\ ar_taken(p) =>
                 /\ arvalid /\ ~req_rd /\ ~req_wr /\ ~aw_taken(p) /\ p.accept
                 /\ performed(p) /\ ~w_taken(p) /\ ram_addr = ar.addr /\ ram_rd
           /\ ~aw_taken(p) /\ ~ar_taken(p) =>
                 /\ performed(p) => (req_rd \/ req_wr) /\ ram_addr = req_addr /\ ram_rd = req_rd
                 /\ w_taken(p) <=> performed(p) /\ req_wr
           /\ w_taken(p) => performed(p)
           /\ performed(p) => ReqFifo!Accept /\ p.accept
<1> USE DEF aw_taken, ar_taken, w_taken, performed, awready, arready, wready, ram_wr, ram_rd
<1>1. ~(read_active /\ write_active)
  BY OneSide
<1>2. /\ req_rd \in BOOLEAN /\ req_wr \in BOOLEAN /\ wvalid \in BOOLEAN
      /\ p.accept \in BOOLEAN /\ Exclusive
  BY DEF IInv, TypeOK, Inputs
<1>3. ASSUME aw_taken(p)
      PROVE  /\ awvalid /\ ~req_rd /\ ~req_wr /\ ~ar_taken(p) /\ p.accept
             /\ performed(p) = w_taken(p) /\ ram_addr = aw.addr /\ ~ram_rd
  <2>1. awvalid /\ ~req_rd /\ ~req_wr /\ ~ar_taken(p) /\ p.accept /\ ~ram_rd /\ write_active
    BY <1>1, <1>3, <1>2 DEF write_active
  <2>2. performed(p) = w_taken(p)
    BY <1>2, <2>1, Zenon
  <2>3. ram_addr = aw.addr
    BY <2>1 DEF ram_addr
  <2> QED BY <2>1, <2>2, <2>3
<1>4. ASSUME ar_taken(p)
      PROVE  /\ arvalid /\ ~req_rd /\ ~req_wr /\ ~aw_taken(p) /\ p.accept
             /\ performed(p) /\ ~w_taken(p) /\ ram_addr = ar.addr /\ ram_rd
  <2>1. /\ arvalid /\ ~req_rd /\ ~req_wr /\ ~aw_taken(p) /\ p.accept /\ ram_rd
        /\ ~write_active /\ performed(p) /\ ~w_taken(p)
    BY <1>1, <1>4, <1>2 DEF read_active
  <2>2. ram_addr = ar.addr
    BY <2>1 DEF ram_addr
  <2> QED BY <2>1, <2>2
<1>5. ASSUME ~aw_taken(p), ~ar_taken(p)
      PROVE  /\ performed(p) => (req_rd \/ req_wr) /\ ram_addr = req_addr /\ ram_rd = req_rd
             /\ w_taken(p) <=> performed(p) /\ req_wr
  <2>1. performed(p) => req_rd \/ req_wr
    BY <1>2, <1>5 DEF read_active, write_active
  <2>2. performed(p) => ram_addr = req_addr
    BY <2>1 DEF ram_addr
  <2>3. w_taken(p) => req_wr
    BY <1>2, <1>5 DEF write_active
  <2>4. performed(p) /\ req_wr => w_taken(p)
    BY <1>2 DEF read_active
  <2>5. ASSUME performed(p) PROVE ram_rd = req_rd
    <3>1. CASE req_rd
      BY <1>2, <2>5, <3>1 DEF write_active
    <3>2. CASE ~req_rd
      BY <1>2, <2>1, <2>5, <3>2 DEF read_active
    <3> QED BY <3>1, <3>2
  <2> QED BY <2>1, <2>2, <2>3, <2>4, <2>5
<1>6. w_taken(p) => performed(p)
  BY <1>2
<1>7. performed(p) => ReqFifo!Accept /\ p.accept
  BY <1>2 DEF read_active, write_active
<1> QED BY <1>3, <1>4, <1>5, <1>6, <1>7

-----------------------------------------------------------------------------
(* A cycle and the burst in progress.                                      *)

\* The registers of the burst keep their types, and the burst its direction.
LEMMA BurstStep ==
    ASSUME IInv, NEW p \in Inputs, Burst(p)
    PROVE  /\ req_rd' \in BOOLEAN /\ req_wr' \in BOOLEAN
           /\ req_len' \in 0 .. LenRange - 1 /\ req_addr' \in Nat /\ req_id' \in Nat
           /\ Exclusive'
<1>1. /\ req_rd \in BOOLEAN /\ req_wr \in BOOLEAN /\ Exclusive
      /\ req_len \in 0 .. LenRange - 1 /\ req_addr \in Nat /\ req_id \in Nat
      /\ aw \in Bursts \cup {NoBurst} /\ ar \in Bursts \cup {NoBurst}
  BY DEF IInv, TypeOK
<1>2. CASE aw_taken(p)
  <2>1. /\ awvalid /\ ~req_rd /\ ~req_wr
    BY <1>2, Wires
  <2>2. aw.id \in Nat /\ aw.addr \in Nat /\ aw.len \in 0 .. LenRange - 1
    BY <1>1, <2>1, BurstFields DEF awvalid
  <2>3. StartWrite(p)
    BY <1>2 DEF Burst
  <2>4. ~req_rd' /\ req_rd' \in BOOLEAN
    BY <2>1, <2>3, <1>1, Zenon DEF StartWrite
  <2>5. req_wr' \in BOOLEAN
    <3>1. CASE w_taken(p)
      <4>1. wdata # <<>> /\ wdata \in Seq(Datum)
        <5>1. wdata = <<>> \o DataWords(aw)
          BY <2>1, Zenon DEF IInv, DataInv, Rest, Offered
        <5>2. DataWords(aw) \in Seq(Datum) /\ DataWords(aw) # <<>>
          BY <2>2, WordsSeq
        <5> QED BY <5>1, <5>2, ConcatEmptySeq
      <4>2. Head(wdata) \in Datum
        BY <4>1, HeadTailProperties
      <4> QED BY <2>3, <3>1, <4>2, Zenon DEF StartWrite, Datum
    <3>2. CASE ~w_taken(p)
      BY <2>3, <3>2 DEF StartWrite
    <3> QED BY <3>1, <3>2
  <2>6. req_len' \in 0 .. LenRange - 1
    BY <2>2, <2>3, DecLenIs DEF StartWrite
  <2>7. req_addr' \in Nat /\ req_id' \in Nat
    BY <2>2, <2>3 DEF StartWrite
  <2> QED BY <2>4, <2>5, <2>6, <2>7 DEF Exclusive
<1>3. CASE ar_taken(p)
  <2>1. arvalid /\ ~req_rd /\ ~req_wr /\ ~aw_taken(p)
    BY <1>3, Wires
  <2>2. ar.id \in Nat /\ ar.addr \in Nat /\ ar.len \in 0 .. LenRange - 1
    BY <1>1, <2>1, BurstFields DEF arvalid
  <2>3. StartRead(p)
    BY <1>3, <2>1 DEF Burst
  <2>4. req_rd' \in BOOLEAN
    BY <2>3 DEF StartRead
  <2>5. ~req_wr' /\ req_wr' \in BOOLEAN
    BY <2>1, <2>3, <1>1, Zenon DEF StartRead
  <2>6. req_len' \in 0 .. LenRange - 1
    BY <2>2, <2>3, DecLenIs DEF StartRead
  <2>7. req_addr' \in Nat /\ req_id' \in Nat
    BY <2>2, <2>3 DEF StartRead
  <2> QED BY <2>4, <2>5, <2>6, <2>7 DEF Exclusive
<1>4. CASE ~aw_taken(p) /\ ~ar_taken(p)
  <2>1. Continue(p)
    BY <1>4 DEF Burst
  <2>2. CASE ~performed(p)
    BY <1>1, <2>1, <2>2 DEF Continue, burst, Exclusive
  <2>3. CASE performed(p) /\ req_len = 0
    BY <1>1, <2>1, <2>3 DEF Continue, Exclusive
  <2>4. CASE performed(p) /\ req_len # 0
    BY <1>1, <2>1, <2>4, DecLenIs DEF Continue, Exclusive
  <2> QED BY <2>2, <2>3, <2>4
<1> QED BY <1>2, <1>3, <1>4

\* What is left of the write burst in progress after a cycle.
LEMMA RestStep ==
    ASSUME IInv, NEW p \in Inputs, Burst(p)
    PROVE  /\ Rest \in Seq(Datum) /\ Offered \in Seq(Datum)
           /\ w_taken(p) /\ ~aw_taken(p) => Rest # <<>>
           /\ aw_taken(p) => Rest = <<>> /\ Offered # <<>> /\ Rest' = Left(Offered, w_taken(p))
           /\ ~aw_taken(p) => Rest' = Left(Rest, w_taken(p))
<1>1. /\ req_rd \in BOOLEAN /\ req_wr \in BOOLEAN /\ Exclusive
      /\ req_len \in 0 .. LenRange - 1 /\ req_addr \in Nat /\ req_len \in Nat
      /\ aw \in Bursts \cup {NoBurst}
  BY DEF IInv, TypeOK, LenRange
<1> DEFINE now == [addr |-> req_addr, len |-> req_len]
           next == [addr |-> req_addr', len |-> req_len']
<1>2. /\ now.addr = req_addr /\ now.len = req_len
      /\ next.addr = req_addr' /\ next.len = req_len'
  OBVIOUS
<1>3. /\ Rest = IF req_wr THEN DataWords(now) ELSE <<>>
      /\ Rest' = IF req_wr' THEN DataWords(next) ELSE <<>>
      /\ Offered = IF awvalid THEN DataWords(aw) ELSE <<>>
  BY DEF Rest, Offered
<1> HIDE DEF now, next
<1>4. aw.addr \in Nat /\ aw.len \in Nat /\ (awvalid => aw.len \in 0 .. LenRange - 1)
  BY <1>1, BurstFields DEF awvalid
<1>5. /\ DataWords(now) \in Seq(Datum) /\ DataWords(now) # <<>>
      /\ DataWords(aw) \in Seq(Datum) /\ DataWords(aw) # <<>>
  BY <1>1, <1>2, <1>4, WordsSeq
<1>6. <<>> \in Seq(Datum)
  BY EmptySeq
<1>7. Rest \in Seq(Datum) /\ Offered \in Seq(Datum)
  BY <1>3, <1>5, <1>6
<1>8. w_taken(p) /\ ~aw_taken(p) => Rest # <<>>
  <2>1. w_taken(p) /\ ~aw_taken(p) => req_wr
    BY Wires
  <2> QED BY <1>3, <1>5, <2>1
<1>9. ASSUME aw_taken(p)
      PROVE  Rest = <<>> /\ Offered # <<>> /\ Rest' = Left(Offered, w_taken(p))
  <2>1. awvalid /\ ~req_wr /\ StartWrite(p)
    BY <1>9, Wires DEF Burst
  <2>2. Rest = <<>> /\ Offered = DataWords(aw)
    BY <1>3, <2>1
  <2>3. CASE ~w_taken(p)
    <3>1. req_wr' /\ next = [addr |-> aw.addr, len |-> aw.len]
      BY <2>1, <2>3 DEF StartWrite, next
    <3>2. DataWords([addr |-> aw.addr, len |-> aw.len]) = DataWords(aw)
      BY Zenon DEF DataWords
    <3> QED BY <1>3, <1>5, <2>2, <2>3, <3>1, <3>2, Zenon DEF Left
  <2>4. CASE w_taken(p)
    <3>1. wdata = DataWords(aw)
      BY <1>5, <2>2, ConcatEmptySeq DEF IInv, DataInv
    <3>2. Head(wdata).last = (aw.len = 0)
      BY <1>4, <3>1, WordsTail
    <3>3. req_wr' = (aw.len # 0) /\ req_addr' = aw.addr + 1 /\ req_len' = DecLen(aw.len)
      BY <2>1, <2>4, <3>2, Zenon DEF StartWrite
    <3>4. Rest' = Tail(DataWords(aw))
      <4>1. CASE aw.len = 0
        BY <1>3, <1>4, <3>3, <4>1, WordsTail, Zenon
      <4>2. CASE aw.len # 0
        <5>1. next.addr = aw.addr + 1 /\ aw.len > 0 /\ next.len = aw.len - 1
          BY <1>2, <1>4, <2>1, <3>3, <4>2, DecLenIs
        <5>2. Tail(DataWords(aw)) = DataWords(next)
          BY <1>4, <5>1, WordsTail
        <5> QED BY <1>3, <3>3, <4>2, <5>2, Zenon
      <4> QED BY <4>1, <4>2
    <3> QED BY <1>5, <2>2, <2>4, <3>4, Zenon DEF Left
  <2> QED BY <2>3, <2>4
<1>10. ASSUME ~aw_taken(p) PROVE Rest' = Left(Rest, w_taken(p))
  <2>1. CASE ar_taken(p)
    <3>1. ~req_wr /\ ~w_taken(p) /\ StartRead(p)
      BY <1>10, <2>1, Wires DEF Burst
    <3>2. ~req_wr'
      BY <3>1, Zenon DEF StartRead
    <3> QED BY <1>3, <3>1, <3>2 DEF Left
  <2>2. CASE ~ar_taken(p)
    <3>1. Continue(p) /\ (w_taken(p) <=> performed(p) /\ req_wr)
      BY <1>10, <2>2, Wires DEF Burst
    <3>2. CASE ~performed(p)
      BY <3>1, <3>2 DEF Continue, burst, Rest, Left
    <3>3. CASE performed(p) /\ ~req_wr
      <4>1. ~w_taken(p)
        BY <3>1, <3>3
      <4>2. ~req_wr'
        <5>1. CASE req_len = 0
          BY <3>1, <3>3, <5>1, Zenon DEF Continue
        <5>2. CASE req_len # 0
          BY <3>1, <3>3, <5>2, Zenon DEF Continue
        <5> QED BY <5>1, <5>2
      <4> QED BY <1>3, <3>3, <4>1, <4>2 DEF Left
    <3>4. CASE performed(p) /\ req_wr /\ req_len = 0
      <4>1. w_taken(p) /\ ~req_wr'
        BY <3>1, <3>4, Zenon DEF Continue
      <4>2. Tail(DataWords(now)) = <<>>
        BY <1>1, <1>2, <3>4, WordsTail
      <4> QED BY <1>3, <3>4, <4>1, <4>2, Zenon DEF Left
    <3>5. CASE performed(p) /\ req_wr /\ req_len # 0
      <4>1. w_taken(p) /\ req_wr' /\ req_addr' = req_addr + 1 /\ req_len' = DecLen(req_len)
        BY <3>1, <3>5, Zenon DEF Continue
      <4>2. next.addr = now.addr + 1 /\ now.len > 0 /\ next.len = now.len - 1
        BY <1>1, <1>2, <3>5, <4>1, DecLenIs
      <4>3. Tail(DataWords(now)) = DataWords(next)
        BY <1>1, <1>2, <4>2, WordsTail
      <4> QED BY <1>3, <3>5, <4>1, <4>3, Zenon DEF Left
    <3> QED BY <3>2, <3>3, <3>4, <3>5
  <2> QED BY <2>1, <2>2
<1> QED BY <1>7, <1>8, <1>9, <1>10

\* The write data stays that of the bursts it was made for.
LEMMA DataStep ==
    ASSUME IInv, NEW p \in Inputs, Burst(p), Master(p)
    PROVE  /\ DataInv' /\ wdata' \in Seq(Datum)
           /\ aw' \in Bursts \cup {NoBurst} /\ ar' \in Bursts \cup {NoBurst}
           /\ wvalid' \in BOOLEAN
<1> DEFINE w == w_taken(p)
           a == aw_taken(p)
           left == Left(wdata, w)
           stays == IF a THEN <<>> ELSE Offered
<1>1. /\ Rest \in Seq(Datum) /\ Offered \in Seq(Datum)
      /\ w /\ ~a => Rest # <<>>
      /\ a => Rest = <<>> /\ Offered # <<>> /\ Rest' = Left(Offered, w)
      /\ ~a => Rest' = Left(Rest, w)
  BY RestStep
<1>2. /\ wdata = Rest \o Offered /\ w \in BOOLEAN /\ a \in BOOLEAN
      /\ aw \in Bursts \cup {NoBurst} /\ ar \in Bursts \cup {NoBurst}
      /\ a => awvalid
  BY Wires DEF IInv, TypeOK, DataInv, Inputs, w_taken, aw_taken
<1>3. stays \in Seq(Datum) /\ <<>> \in Seq(Datum)
  BY <1>1, EmptySeq
<1>4. Rest' \in Seq(Datum) /\ left = Rest' \o stays /\ left \in Seq(Datum)
  <2> HIDE DEF w
  <2>1. CASE a
    <3>1. wdata = Offered
      BY <1>1, <1>2, <2>1, ConcatEmptySeq
    <3>2. left = Rest' /\ left \in Seq(Datum)
      BY <1>1, <1>2, <2>1, <3>1, LeftProperties
    <3> HIDE DEF left
    <3>3. left \o <<>> = left /\ stays = <<>>
      BY <2>1, <3>2, ConcatEmptySeq
    <3> QED BY <3>2, <3>3, Zenon
  <2>2. CASE ~a
    <3>1. left = Left(Rest, w) \o Offered
      BY <1>1, <1>2, <2>2, LeftOfConcat, ZenonT(30)
    <3>2. Left(Rest, w) \in Seq(Datum)
      BY <1>1, <1>2, <2>2, LeftProperties
    <3> DEFINE lr == Left(Rest, w)
    <3> HIDE DEF lr
    <3>3. lr \o Offered \in Seq(Datum)
      BY <1>1, <3>2, ConcatProperties DEF lr
    <3> QED BY <1>1, <2>2, <3>1, <3>2, <3>3, Zenon DEF lr
  <2> QED BY <2>1, <2>2
<1>5. left = IF w_taken(p) THEN Tail(wdata) ELSE wdata
  BY DEF Left
<1>6. wvalid' \in BOOLEAN
  BY Zenon DEF Master
<1>7. ar' \in Bursts \cup {NoBurst}
  BY <1>2 DEF Master
<1>8. CASE (IF a THEN aw' = NoBurst ELSE aw' = aw) /\ wdata' = left
  <2>1. aw' \in Bursts \cup {NoBurst}
    BY <1>2, <1>8
  <2>2. Offered' = stays
    <3>1. CASE a
      BY <1>8, <3>1 DEF Offered, awvalid
    <3>2. CASE ~a
      BY <1>8, <3>2, Zenon DEF Offered, awvalid
    <3> QED BY <3>1, <3>2
  <2> HIDE DEF left, stays
  <2> QED BY <1>4, <1>6, <1>7, <1>8, <2>1, <2>2, Zenon DEF DataInv
<1>9. ASSUME ~awvalid \/ a, NEW b \in Bursts, aw' = b, wdata' = left \o DataWords(b)
      PROVE  DataInv' /\ wdata' \in Seq(Datum) /\ aw' \in Bursts \cup {NoBurst}
  <2>1. Offered' = DataWords(b) /\ DataWords(b) \in Seq(Datum) /\ b # NoBurst
    <3>1. b.addr \in Nat /\ b.len \in Nat /\ b # NoBurst
      BY BurstAssumption DEF NoBurst, LenRange
    <3> QED BY <1>9, <3>1, WordsSeq DEF Offered, awvalid
  <2>2. stays = <<>>
    BY <1>9 DEF Offered
  <2> HIDE DEF stays, left
  <2>3. left = Rest'
    BY <1>4, <2>2, ConcatEmptySeq
  <2>4. left \o DataWords(b) \in Seq(Datum)
    BY <1>4, <2>1, ConcatProperties
  <2> QED BY <1>9, <2>1, <2>3, <2>4, Zenon DEF DataInv
<1>10. \/ (IF a THEN aw' = NoBurst ELSE aw' = aw) /\ wdata' = left
       \/ (~awvalid \/ a) /\ \E b \in Bursts : aw' = b /\ wdata' = left \o DataWords(b)
  BY <1>5, Zenon DEF Master
<1> HIDE DEF a, w, left, stays
<1> QED BY <1>6, <1>7, <1>8, <1>9, <1>10

\* An access the RAM did not accept is made again.
LEMMA HoldStep ==
    ASSUME IInv, NEW p \in Inputs, Bridge(p), Ram(p), Master(p)
    PROVE  HoldKept' /\ req_prio' \in BOOLEAN /\ hold_rd' \in BOOLEAN /\ hold_wr' \in BOOLEAN
<1> USE DEF Bridge
<1>1. /\ req_rd \in BOOLEAN /\ req_wr \in BOOLEAN /\ wvalid \in BOOLEAN
      /\ hold_rd \in BOOLEAN /\ hold_wr \in BOOLEAN /\ req_prio \in BOOLEAN
      /\ p.accept \in BOOLEAN /\ Exclusive /\ HoldKept
      /\ reqs \in Seq(Request) /\ Len(reqs) <= FifoDepth
  BY DEF IInv, TypeOK, Inputs, Request
<1>2. req_prio' \in BOOLEAN
  BY <1>1, Zenon DEF Prio
<1>3. hold_rd' \in BOOLEAN /\ hold_wr' \in BOOLEAN
  BY <1>1, Zenon DEF Hold, ram_rd, ram_wr, read_active, write_active
<1>4. CASE p.accept
  BY <1>2, <1>3, <1>4, Zenon DEF Hold, HoldKept
<1>5. CASE ~p.accept
  <2>1. ~aw_taken(p) /\ ~ar_taken(p) /\ ~w_taken(p) /\ ~performed(p)
    BY <1>5 DEF aw_taken, ar_taken, w_taken, performed, awready, arready, wready
  <2>2. req_rd' = req_rd /\ req_wr' = req_wr
    BY <2>1, Zenon DEF Burst, Continue, burst
  <2>3. req_prio' = req_prio
    BY <2>1, Zenon DEF Prio
  <2>4. (arvalid => arvalid') /\ (awvalid => awvalid') /\ (wvalid => wvalid')
    BY <2>1 DEF Master, arvalid, awvalid
  <2>5. ReqFifo!Accept => ReqFifo!Accept'
    <3>1. reqs' = IF resp_accept(p) /\ reqs # <<>> THEN Tail(reqs) ELSE reqs
      BY <2>1, Zenon DEF Fifos, ReqFifo!Clock, ReqFifo!Valid
    <3>2. Len(reqs') <= Len(reqs) /\ Len(reqs') \in Nat /\ Len(reqs) \in Nat
      BY <1>1, <3>1, HeadTailProperties, LenProperties
    <3> QED BY <1>1, <3>2, FifoAssumption DEF ReqFifo!Accept
  <2>6. /\ hold_rd' <=> hold_rd \/ ram_rd
        /\ hold_wr' <=> hold_wr \/ ram_wr
    BY <1>5, Zenon DEF Hold
  <2>7. /\ hold_rd => ram_rd /\ ~ram_wr
        /\ hold_wr => ram_wr /\ ~ram_rd
    BY <1>1 DEF HoldKept
  <2>8. ~(ram_rd /\ ram_wr)
    BY OneSide DEF ram_rd, ram_wr
  <2>9. ASSUME hold_rd' PROVE ram_rd' /\ ~ram_wr'
    <3>1. ram_rd /\ ~ram_wr /\ ~hold_wr'
      BY <2>6, <2>7, <2>8, <2>9
    <3>2. (arvalid \/ req_rd) /\ ~req_wr /\ ReqFifo!Accept
      BY <3>1 DEF ram_rd, read_active
    <3>3. (arvalid' \/ req_rd') /\ ~req_wr' /\ ReqFifo!Accept'
      BY <2>2, <2>4, <2>5, <3>2
    <3>4. read_prio' /\ ~write_prio'
      BY <2>9, <3>1, Zenon DEF read_prio, write_prio
    <3>5. ram_rd'
      BY <3>3, <3>4, Zenon DEF ram_rd, read_active
    <3>6. ~write_active'
      BY <3>3, <3>4, Zenon DEF write_active
    <3> QED BY <3>5, <3>6, Zenon DEF ram_wr
  <2>10. ASSUME hold_wr' PROVE ram_wr' /\ ~ram_rd'
    <3>1. ram_wr /\ ~ram_rd /\ ~hold_rd'
      BY <2>6, <2>7, <2>8, <2>10
    <3>2. (awvalid \/ req_wr) /\ ~req_rd /\ ReqFifo!Accept /\ wvalid
      BY <3>1 DEF ram_wr, write_active
    <3>3. (awvalid' \/ req_wr') /\ ~req_rd' /\ ReqFifo!Accept' /\ wvalid'
      BY <2>2, <2>4, <2>5, <3>2
    <3>4. write_prio' /\ ~read_prio'
      BY <2>10, <3>1, Zenon DEF read_prio, write_prio
    <3>5. ram_wr'
      BY <3>3, <3>4, Zenon DEF ram_wr, write_active
    <3>6. ~read_active'
      BY <3>3, <3>4, Zenon DEF read_active
    <3> QED BY <3>5, <3>6, Zenon DEF ram_rd
  <2> QED BY <1>2, <1>3, <2>9, <2>10, Zenon DEF HoldKept
<1> QED BY <1>2, <1>3, <1>4, <1>5

-----------------------------------------------------------------------------
(* A cycle and the queues.                                                 *)

\* What is noted of an access, and its address.
LEMMA AccessMade ==
    ASSUME IInv, NEW p \in Inputs
    PROVE  req_in(p) \in Request /\ ram_addr \in Nat
<1>1. /\ req_addr \in Nat /\ req_id \in Nat /\ req_wr \in BOOLEAN /\ req_rd \in BOOLEAN
      /\ aw \in Bursts \cup {NoBurst} /\ ar \in Bursts \cup {NoBurst}
  BY DEF IInv, TypeOK
<1>2. /\ aw.id \in Nat /\ aw.addr \in Nat /\ ar.id \in Nat /\ ar.addr \in Nat
  BY <1>1, BurstFields
<1>3. ram_rd \in BOOLEAN
  BY Zenon DEF ram_rd, read_active
<1>4. ram_addr \in Nat
  BY <1>1, <1>2 DEF ram_addr
<1>5. CASE ar_taken(p)
  BY <1>2, <1>4, <1>5 DEF req_in, Request
<1>6. CASE ~ar_taken(p) /\ aw_taken(p)
  BY <1>2, <1>4, <1>6 DEF req_in, Request
<1>7. CASE ~ar_taken(p) /\ ~aw_taken(p)
  BY <1>1, <1>3, <1>4, <1>7 DEF req_in, Request
<1> QED BY <1>5, <1>6, <1>7

\* The FIFOs take what they are given: neither is ever full when it is.
LEMMA QueuesStep ==
    ASSUME IInv, NEW p \in Inputs, Bridge(p), Ram(p)
    PROVE  /\ reqs' = Came(Left(reqs, resp_accept(p)), req_in(p), performed(p))
           /\ resps' = Came(Left(resps, resp_accept(p)), ram_ack[1], ram_ack # <<>>)
           /\ ram_ack' = IF performed(p) THEN <<ram_addr>> ELSE <<>>
           /\ resp_accept(p) => reqs # <<>> /\ resps # <<>>
           /\ resp_accept(p) \in BOOLEAN /\ performed(p) \in BOOLEAN
<1> DEFINE ack == resp_accept(p)
<1>1. ack => reqs # <<>> /\ resps # <<>>
  BY DEF resp_accept, rvalid, bvalid, resp_valid, RespFifo!Valid, ReqFifo!Valid
<1>2. performed(p) => ReqFifo!Accept
  BY Wires
<1>3. ram_ack # <<>> => RespFifo!Accept
  BY DEF IInv, AnswersFit
<1>4. performed(p) \in BOOLEAN
  BY Zenon DEF performed
<1>5. ack \in BOOLEAN
  BY Zenon DEF resp_accept
<1>6. ReqFifo!Clock(performed(p), req_in(p), ack) /\ RespFifo!Clock(ram_ack # <<>>, ram_ack[1], ack)
  BY DEF Bridge, Fifos
<1> HIDE DEF ack
<1>7. reqs' = Came(Left(reqs, ack), req_in(p), performed(p))
  BY <1>1, <1>2, <1>6, Zenon DEF ReqFifo!Clock, ReqFifo!Valid, Came, Left
<1>8. resps' = Came(Left(resps, ack), ram_ack[1], ram_ack # <<>>)
  BY <1>1, <1>3, <1>6, Zenon DEF RespFifo!Clock, RespFifo!Valid, Came, Left
<1>9. ram_ack' = IF performed(p) THEN <<ram_addr>> ELSE <<>>
  BY DEF Ram
<1> QED BY <1>1, <1>4, <1>5, <1>7, <1>8, <1>9 DEF ack

One(b) == IF b THEN 1 ELSE 0

\* How long a queue is when some have left and some have come.
LEMMA Lengths ==
    ASSUME NEW R, NEW s \in Seq(R), NEW x, NEW gone \in BOOLEAN, NEW come \in BOOLEAN,
           gone => s # <<>>, come => x \in R
    PROVE  /\ Came(Left(s, gone), x, come) \in Seq(R)
           /\ Len(Came(Left(s, gone), x, come)) = Len(s) - One(gone) + One(come)
<1> DEFINE l == Left(s, gone)
<1>1. l \in Seq(R) /\ Len(l) = Len(s) - One(gone) /\ Len(s) \in Nat /\ Len(l) \in Nat
  BY LeftProperties, LenProperties DEF One
<1> HIDE DEF l
<1>2. CASE come
  BY <1>1, <1>2, AppendProperties DEF Came, l, One
<1>3. CASE ~come
  BY <1>1, <1>3 DEF Came, l, One
<1> QED BY <1>2, <1>3

\* The FIFOs stay in step, and the answer to come has its place.
LEMMA FitStep ==
    ASSUME IInv, NEW p \in Inputs, Bridge(p), Ram(p)
    PROVE  /\ AnswersFit'
           /\ reqs' \in Seq(Request) /\ Len(reqs') <= FifoDepth
           /\ resps' \in Seq(Nat) /\ Len(resps') <= FifoDepth
           /\ ram_ack' \in Seq(Nat) /\ Len(ram_ack') <= 1
<1> DEFINE ack == resp_accept(p)
           answered == ram_ack # <<>>
           made == performed(p)
<1>1. /\ reqs \in Seq(Request) /\ Len(reqs) <= FifoDepth
      /\ resps \in Seq(Nat) /\ Len(resps) <= FifoDepth
      /\ ram_ack \in Seq(Nat) /\ Len(ram_ack) <= 1
      /\ Len(reqs) = Len(resps) + Len(ram_ack)
      /\ ram_ack # <<>> => Len(resps) # FifoDepth
  BY DEF IInv, TypeOK, AnswersFit, Request, RespFifo!Accept
<1>2. /\ reqs' = Came(Left(reqs, ack), req_in(p), made)
      /\ resps' = Came(Left(resps, ack), ram_ack[1], answered)
      /\ ram_ack' = IF made THEN <<ram_addr>> ELSE <<>>
      /\ ack => reqs # <<>> /\ resps # <<>>
      /\ ack \in BOOLEAN /\ made \in BOOLEAN /\ answered \in BOOLEAN
  BY QueuesStep
<1>3. req_in(p) \in Request /\ ram_addr \in Nat
  BY AccessMade
<1>4. Len(reqs) \in Nat /\ Len(resps) \in Nat /\ Len(ram_ack) \in Nat
  BY <1>1, LenProperties
<1>5. /\ ram_ack # <<>> => ram_ack[1] \in Nat /\ Len(ram_ack) = 1
      /\ ram_ack = <<>> => Len(ram_ack) = 0
  <2>1. ram_ack = <<>> <=> Len(ram_ack) = 0
    BY <1>1, EmptySeq
  <2> DEFINE n == Len(ram_ack)
  <2>4. n \in Nat /\ n <= 1
    BY <1>1, <1>4
  <2>5. n # 0 => n = 1
    <3> HIDE DEF n
    <3> QED BY <2>4
  <2>2. ram_ack # <<>> => Len(ram_ack) = 1
    BY <2>1, <2>5, Zenon
  <2>3. ram_ack # <<>> => ram_ack[1] \in Nat
    BY <1>1, <2>2, ElementOfSeq
  <2> QED BY <2>1, <2>2, <2>3
<1>6. made => Len(reqs) # FifoDepth
  BY Wires DEF ReqFifo!Accept
<1> DEFINE first == ram_ack[1]
<1>16. answered => first \in Nat
  BY <1>5
<1>17. resps' = Came(Left(resps, ack), first, answered)
  BY <1>2
<1>10. One(answered) = Len(ram_ack)
  BY <1>5 DEF One
<1>9. /\ ram_ack' \in Seq(Nat)
      /\ Len(ram_ack') = One(made)
      /\ ram_ack' # <<>> => made
  BY <1>2, <1>3, EmptySeq DEF One
<1>18. One(ack) \in {0, 1} /\ One(made) \in {0, 1} /\ One(answered) \in {0, 1}
  BY DEF One
<1> HIDE DEF ack, made, answered, first
<1>7. /\ reqs' \in Seq(Request)
      /\ Len(reqs') = Len(reqs) - One(ack) + One(made)
  <2>1. /\ reqs \in Seq(Request) /\ ack \in BOOLEAN /\ made \in BOOLEAN
        /\ ack => reqs # <<>>
        /\ made => req_in(p) \in Request
    BY <1>1, <1>2, <1>3
  <2> DEFINE x == req_in(p)
             t == Came(Left(reqs, ack), x, made)
  <2> HIDE DEF x
  <2>2. t \in Seq(Request) /\ Len(t) = Len(reqs) - One(ack) + One(made)
    BY <2>1, Lengths, ZenonT(30) DEF x
  <2>3. reqs' = t
    BY <1>2 DEF x
  <2> QED BY <2>2, <2>3
<1>8. /\ resps' \in Seq(Nat)
      /\ Len(resps') = Len(resps) - One(ack) + One(answered)
  <2>1. /\ resps \in Seq(Nat) /\ ack \in BOOLEAN /\ answered \in BOOLEAN
        /\ ack => resps # <<>>
        /\ answered => first \in Nat
    BY <1>1, <1>2, <1>16
  <2> DEFINE t == Came(Left(resps, ack), first, answered)
  <2>2. t \in Seq(Nat) /\ Len(t) = Len(resps) - One(ack) + One(answered)
    <3> DEFINE N == Nat
    <3>1. resps \in Seq(N) /\ (answered => first \in N)
      BY <2>1
    <3> HIDE DEF N
    <3>2. ASSUME NEW s \in Seq(N), NEW x, NEW a \in BOOLEAN, NEW c \in BOOLEAN,
                 a => s # <<>>, c => x \in N
          PROVE  /\ Came(Left(s, a), x, c) \in Seq(N)
                 /\ Len(Came(Left(s, a), x, c)) = Len(s) - One(a) + One(c)
      BY <3>2, Lengths, ZenonT(30)
    <3>3. t \in Seq(N) /\ Len(t) = Len(resps) - One(ack) + One(answered)
      BY <2>1, <3>1, <3>2
    <3> QED BY <3>3 DEF N
  <2> QED BY <1>17, <2>2
<1>11. ack => Len(reqs) > 0 /\ Len(resps) > 0
  BY <1>1, <1>2, <1>4, EmptySeq
<1>12. FifoDepth \in Nat /\ FifoDepth > 0
  BY FifoAssumption
<1>13. Len(reqs') = Len(resps') + Len(ram_ack')
  BY <1>1, <1>4, <1>7, <1>8, <1>9, <1>10, <1>18
<1>14. Len(reqs') <= FifoDepth
  BY <1>1, <1>4, <1>6, <1>7, <1>12, <1>18 DEF One
<1>15. Len(resps') <= FifoDepth /\ (ram_ack' # <<>> => Len(resps') # FifoDepth) /\ Len(ram_ack') <= 1
  <2>1. Len(resps') \in Nat /\ Len(ram_ack') \in Nat
    BY <1>8, <1>9, LenProperties
  <2>2. ram_ack' # <<>> => Len(ram_ack') = 1
    BY <1>9 DEF One
  <2> QED BY <1>9, <1>12, <1>13, <1>14, <2>1, <2>2
<1> QED BY <1>7, <1>8, <1>9, <1>13, <1>14, <1>15 DEF AnswersFit, RespFifo!Accept

\* What the run checks follows from the inductive invariant.
LEMMA FlowFromIInv == ASSUME IInv PROVE FlowInv
<1>1. ASSUME ram_wr
      PROVE  /\ ram_addr = Head(wdata).word
             /\ Head(wdata).last <=> (IF req_wr THEN req_len ELSE aw.len) = 0
  <2>1. /\ req_addr \in Nat /\ req_len \in 0 .. LenRange - 1 /\ req_len \in Nat
        /\ aw \in Bursts \cup {NoBurst}
    BY DEF IInv, TypeOK, LenRange
  <2>2. aw.addr \in Nat /\ aw.len \in Nat
    BY <2>1, BurstFields
  <2> DEFINE now == [addr |-> req_addr, len |-> req_len]
  <2>3. CASE req_wr
    <3>1. now.addr = req_addr /\ now.len = req_len
      OBVIOUS
    <3> HIDE DEF now
    <3>2. Rest = DataWords(now)
      BY <2>3 DEF Rest, now
    <3>3. /\ DataWords(now) \in Seq(Datum) /\ DataWords(now) # <<>>
          /\ Head(DataWords(now)) = [word |-> req_addr, last |-> req_len = 0]
      BY <2>1, <3>1, WordsSeq, WordsTail
    <3>4. Offered \in Seq(Datum)
      BY <2>2, WordsSeq, EmptySeq DEF Offered
    <3>5. Head(wdata) = Head(DataWords(now))
      BY <3>2, <3>3, <3>4, LeftOfConcat DEF IInv, DataInv
    <3>6. ram_addr = req_addr
      BY <2>3 DEF ram_addr
    <3>7. Head(wdata) = [word |-> req_addr, last |-> req_len = 0]
      BY <3>3, <3>5
    <3>8. Head(wdata).word = req_addr /\ Head(wdata).last = (req_len = 0)
      BY <3>7
    <3> QED BY <2>3, <3>6, <3>8, Zenon
  <2>4. CASE ~req_wr
    <3>1. awvalid /\ write_active /\ ~req_rd
      BY <1>1, <2>4 DEF ram_wr, write_active
    <3>2. DataWords(aw) \in Seq(Datum) /\ Head(DataWords(aw)) = [word |-> aw.addr, last |-> aw.len = 0]
      BY <2>2, WordsSeq, WordsTail
    <3>3. wdata = <<>> \o DataWords(aw)
      BY <2>4, <3>1, Zenon DEF IInv, DataInv, Rest, Offered
    <3>4. wdata = DataWords(aw)
      BY <3>2, <3>3, ConcatEmptySeq
    <3>5. ram_addr = aw.addr
      BY <2>4, <3>1 DEF ram_addr
    <3>6. Head(wdata) = [word |-> aw.addr, last |-> aw.len = 0]
      BY <3>2, <3>4
    <3>7. Head(wdata).word = aw.addr /\ Head(wdata).last = (aw.len = 0)
      BY <3>6
    <3> QED BY <2>4, <3>5, <3>7, Zenon
  <2> QED BY <2>3, <2>4
<1> QED BY <1>1, Zenon DEF FlowInv, IInv, WritesLand

\* Every step keeps the invariant.
LEMMA InvariantStep == ASSUME IInv, [Next]_vars PROVE IInv'
<1>1. CASE UNCHANGED vars
  <2> USE <1>1 DEF vars, burst, arbiter, fifos, master
  <2>1. TypeOK' /\ Exclusive'
    BY DEF IInv, TypeOK, Exclusive
  <2>2. AnswersFit'
    BY DEF IInv, AnswersFit, RespFifo!Accept
  <2>3. HoldKept'
    BY DEF IInv, HoldKept, ram_rd, ram_wr, read_active, write_active, read_prio, write_prio,
           arvalid, awvalid, ReqFifo!Accept
  <2>4. DataInv'
    BY DEF IInv, DataInv, Rest, Offered, awvalid
  <2> QED BY <2>1, <2>2, <2>3, <2>4 DEF IInv
<1>2. ASSUME NEW p \in Inputs, Clock(p) PROVE IInv'
  <2>1. Bridge(p) /\ Burst(p) /\ Ram(p) /\ Master(p)
    BY <1>2 DEF Clock, Bridge
  <2>2. /\ req_rd' \in BOOLEAN /\ req_wr' \in BOOLEAN
        /\ req_len' \in 0 .. LenRange - 1 /\ req_addr' \in Nat /\ req_id' \in Nat
        /\ Exclusive'
    BY <2>1, BurstStep
  <2>3. /\ DataInv' /\ wdata' \in Seq(Datum)
        /\ aw' \in Bursts \cup {NoBurst} /\ ar' \in Bursts \cup {NoBurst}
        /\ wvalid' \in BOOLEAN
    BY <2>1, DataStep
  <2>4. HoldKept' /\ req_prio' \in BOOLEAN /\ hold_rd' \in BOOLEAN /\ hold_wr' \in BOOLEAN
    BY <2>1, HoldStep
  <2>5. /\ AnswersFit'
        /\ reqs' \in Seq(Request) /\ Len(reqs') <= FifoDepth
        /\ resps' \in Seq(Nat) /\ Len(resps') <= FifoDepth
        /\ ram_ack' \in Seq(Nat) /\ Len(ram_ack') <= 1
    BY <2>1, FitStep
  <2>6. TypeOK'
    BY <2>2, <2>3, <2>4, <2>5, Zenon DEF TypeOK, Request, Datum
  <2> QED BY <2>2, <2>3, <2>4, <2>5, <2>6, Zenon DEF IInv
<1> QED BY <1>1, <1>2 DEF Next

\* It holds at reset.
LEMMA InitialInvariant == Init => IInv
<1> SUFFICES ASSUME Init PROVE IInv
  OBVIOUS
<1>1. TypeOK
  <2>1. <<>> \in Seq(Request) /\ <<>> \in Seq(Nat) /\ <<>> \in Seq(Datum) /\ Len(<<>>) = 0
    BY EmptySeq
  <2>2. 0 <= FifoDepth /\ 0 <= 1 /\ 0 \in Nat /\ 0 \in 0 .. LenRange - 1
    BY FifoAssumption DEF LenRange
  <2> QED BY <2>1, <2>2, Zenon DEF Init, TypeOK, Request, Datum
<1>2. Exclusive /\ HoldKept
  BY DEF Init, Exclusive, HoldKept
<1>3. AnswersFit
  BY EmptySeq DEF Init, AnswersFit
<1>4. DataInv
  BY EmptySeq, ConcatEmptySeq DEF Init, DataInv, Rest, Offered, awvalid
<1> QED BY <1>1, <1>2, <1>3, <1>4 DEF IInv

\* The queues, the hold marks and the counters of the debug bridge's port are
\* always consistent with what is in flight: the answer of the RAM finds room,
\* an access is kept up until it is accepted, and each word of write data goes
\* to the address it is meant for (tcm_mem_pmem.v 218-322).
THEOREM BurstsFlow == Spec => []FlowInv
<1>1. IInv /\ [Next]_vars => IInv'
  BY InvariantStep
<1>2. IInv => FlowInv
  BY FlowFromIInv
<1> QED BY InitialInvariant, <1>1, <1>2, PTL DEF Spec

-----------------------------------------------------------------------------
(* A burst is the accesses it stands for.                                  *)

Taken(p) == IF aw_taken(p) THEN Beats(FALSE, aw)
            ELSE IF ar_taken(p) THEN Beats(TRUE, ar) ELSE <<>>

\* A burst that starts, and what is left of it with its first access made or not.
Starts(b) == b.addr \in Nat /\ b.len \in 0 .. LenRange - 1 /\ b.id \in Nat
Follows(b, made, c) == /\ c.id = b.id
                       /\ ~made => c.addr = b.addr /\ c.len = b.len
                       /\ made => c.addr = b.addr + 1 /\ c.len = DecLen(b.len)

\* The burst that starts, taken with its first access or without.
LEMMA FirstBeat ==
    ASSUME NEW read \in BOOLEAN, NEW b, NEW made \in BOOLEAN, NEW c, Starts(b), Follows(b, made, c)
    PROVE  /\ Beats(read, b) \in Seq(Access) /\ Beats(read, b) # <<>>
           /\ Head(Beats(read, b)) = [read |-> read, last |-> b.len = 0, id |-> b.id, word |-> b.addr]
           /\ Left(Beats(read, b), made) = IF made /\ b.len = 0 THEN <<>> ELSE Beats(read, c)
<1> USE DEF Starts, Follows
<1>1. b.len \in Nat
  BY DEF LenRange
<1>2. /\ Beats(read, b) \in Seq(Access) /\ Beats(read, b) # <<>>
      /\ Head(Beats(read, b)) = [read |-> read, last |-> b.len = 0, id |-> b.id, word |-> b.addr]
  BY <1>1, BeatsSeq, BeatsTail
<1>3. CASE ~made
  <2>1. Beats(read, b) = Beats(read, c)
    BY <1>3, Zenon DEF Beats
  <2> QED BY <1>2, <1>3, <2>1, Zenon DEF Left
<1>4. CASE made /\ b.len = 0
  BY <1>1, <1>2, <1>4, BeatsTail, Zenon DEF Left
<1>5. CASE made /\ b.len # 0
  <2>1. c.addr = b.addr + 1 /\ b.len > 0 /\ c.len = b.len - 1 /\ c.id = b.id
    BY <1>1, <1>5, DecLenIs
  <2>2. Tail(Beats(read, b)) = Beats(read, c)
    BY <1>1, <2>1, BeatsTail
  <2> QED BY <1>2, <1>5, <2>2, Zenon DEF Left
<1> QED BY <1>3, <1>4, <1>5

\* The accesses still to be made grow by those of a burst taken, and shrink by
\* the one made.
LEMMA TodoStep ==
    ASSUME IInv, NEW p \in Inputs, Burst(p)
    PROVE  /\ Todo \in Seq(Access) /\ Taken(p) \in Seq(Access)
           /\ Taken(p) # <<>> => Todo = <<>>
           /\ performed(p) => /\ Todo \o Taken(p) # <<>>
                              /\ Head(Todo \o Taken(p)) = Answered(req_in(p), ram_addr)
           /\ Todo' = Left(Todo \o Taken(p), performed(p))
<1> DEFINE now == [id |-> req_id, addr |-> req_addr, len |-> req_len]
           next == [id |-> req_id', addr |-> req_addr', len |-> req_len']
<1>1. /\ req_rd \in BOOLEAN /\ req_wr \in BOOLEAN /\ Exclusive
      /\ req_len \in 0 .. LenRange - 1 /\ req_addr \in Nat /\ req_id \in Nat
      /\ aw \in Bursts \cup {NoBurst} /\ ar \in Bursts \cup {NoBurst}
  BY DEF IInv, TypeOK
<1>2. /\ now.addr = req_addr /\ now.len = req_len /\ now.id = req_id
      /\ next.addr = req_addr' /\ next.len = req_len' /\ next.id = req_id'
  OBVIOUS
<1>3. /\ Todo = IF req_rd \/ req_wr THEN Beats(req_rd, now) ELSE <<>>
      /\ Todo' = IF req_rd' \/ req_wr' THEN Beats(req_rd', next) ELSE <<>>
  BY DEF Todo, Beats
<1> HIDE DEF now, next
<1>4. performed(p) \in BOOLEAN
  BY Zenon DEF performed
<1>5. CASE aw_taken(p)
  <2>1. /\ awvalid /\ ~req_rd /\ ~req_wr /\ ~ar_taken(p) /\ performed(p) = w_taken(p)
        /\ ram_addr = aw.addr /\ ~ram_rd
    BY <1>5, Wires
  <2>2. aw.id \in Nat /\ aw.addr \in Nat /\ aw.len \in 0 .. LenRange - 1 /\ aw.len \in Nat
    BY <1>1, <2>1, BurstFields DEF awvalid
  <2>3. StartWrite(p) /\ Taken(p) = Beats(FALSE, aw) /\ Todo = <<>>
    BY <1>3, <1>5, <2>1 DEF Burst, Taken
  <2>4. ~req_rd' /\ req_rd' = FALSE
    BY <1>1, <2>1, <2>3, Zenon DEF StartWrite
  <2>5. performed(p) => Head(wdata).last = (aw.len = 0)
    <3>1. wdata = <<>> \o DataWords(aw)
      BY <2>1, Zenon DEF IInv, DataInv, Rest, Offered
    <3>2. DataWords(aw) \in Seq(Datum) /\ Head(DataWords(aw)) = [word |-> aw.addr, last |-> aw.len = 0]
      BY <2>2, WordsSeq, WordsTail
    <3> QED BY <3>1, <3>2, ConcatEmptySeq
  <2>6. /\ next.id = aw.id
        /\ ~performed(p) => next.addr = aw.addr /\ next.len = aw.len /\ req_wr'
        /\ performed(p) => next.addr = aw.addr + 1 /\ next.len = DecLen(aw.len)
                           /\ req_wr' = (aw.len # 0)
    BY <1>2, <2>1, <2>3, <2>5, Zenon DEF StartWrite
  <2>7. /\ Taken(p) \in Seq(Access) /\ Taken(p) # <<>>
        /\ Head(Taken(p)) = [read |-> FALSE, last |-> aw.len = 0, id |-> aw.id, word |-> aw.addr]
        /\ Left(Taken(p), performed(p))
             = IF performed(p) /\ aw.len = 0 THEN <<>> ELSE Beats(FALSE, next)
    <3>1. ~performed(p) => next.addr = aw.addr /\ next.len = aw.len
      BY <2>6
    <3>2. performed(p) => next.addr = aw.addr + 1 /\ next.len = DecLen(aw.len)
      BY <2>6
    <3>3. Starts(aw) /\ Follows(aw, performed(p), next)
      BY <2>2, <2>6, <3>1, <3>2 DEF Starts, Follows
    <3>4. PICK read \in BOOLEAN : read = FALSE
      OBVIOUS
    <3>5. PICK made \in BOOLEAN : made = performed(p)
      BY <1>4
    <3>6. Follows(aw, made, next)
      BY <3>3, <3>5, Zenon
    <3>7. /\ Beats(read, aw) \in Seq(Access) /\ Beats(read, aw) # <<>>
          /\ Head(Beats(read, aw))
               = [read |-> read, last |-> aw.len = 0, id |-> aw.id, word |-> aw.addr]
          /\ Left(Beats(read, aw), made) = IF made /\ aw.len = 0 THEN <<>> ELSE Beats(read, next)
      BY <3>3, <3>6, FirstBeat
    <3> QED BY <2>3, <3>4, <3>5, <3>7
  <2>8. Todo' = Left(Taken(p), performed(p))
    BY <1>3, <1>4, <2>4, <2>6, <2>7, Zenon
  <2>9. Todo \o Taken(p) = Taken(p) /\ Todo \in Seq(Access)
    BY <2>3, <2>7, ConcatEmptySeq, EmptySeq
  <2>10. Head(Taken(p)) = Answered(req_in(p), ram_addr)
    BY <1>5, <2>1, <2>7 DEF Answered, req_in
  <2> QED BY <2>3, <2>7, <2>8, <2>9, <2>10, Zenon
<1>6. CASE ar_taken(p)
  <2>1. /\ arvalid /\ ~req_rd /\ ~req_wr /\ ~aw_taken(p) /\ performed(p)
        /\ ram_addr = ar.addr /\ ram_rd
    BY <1>6, Wires
  <2>2. ar.id \in Nat /\ ar.addr \in Nat /\ ar.len \in 0 .. LenRange - 1 /\ ar.len \in Nat
    BY <1>1, <2>1, BurstFields DEF arvalid
  <2>3. StartRead(p) /\ Taken(p) = Beats(TRUE, ar) /\ Todo = <<>>
    BY <1>3, <1>6, <2>1 DEF Burst, Taken
  <2>4. ~req_wr' /\ req_rd' = (ar.len # 0)
    BY <1>1, <2>1, <2>3, Zenon DEF StartRead
  <2>5. next.id = ar.id /\ next.addr = ar.addr + 1 /\ next.len = DecLen(ar.len)
    BY <1>2, <2>3, Zenon DEF StartRead
  <2>6. /\ Taken(p) \in Seq(Access) /\ Taken(p) # <<>>
        /\ Head(Taken(p)) = [read |-> TRUE, last |-> ar.len = 0, id |-> ar.id, word |-> ar.addr]
        /\ Left(Taken(p), performed(p))
             = IF performed(p) /\ ar.len = 0 THEN <<>> ELSE Beats(TRUE, next)
    <3>1. Starts(ar) /\ Follows(ar, performed(p), next)
      BY <2>1, <2>2, <2>5 DEF Starts, Follows
    <3>2. TRUE \in BOOLEAN
      OBVIOUS
    <3>5. /\ Beats(TRUE, ar) \in Seq(Access) /\ Beats(TRUE, ar) # <<>>
          /\ Head(Beats(TRUE, ar))
               = [read |-> TRUE, last |-> ar.len = 0, id |-> ar.id, word |-> ar.addr]
          /\ Left(Beats(TRUE, ar), performed(p))
               = IF performed(p) /\ ar.len = 0 THEN <<>> ELSE Beats(TRUE, next)
      BY <1>4, <3>1, <3>2, FirstBeat, ZenonT(30)
    <3> QED BY <2>3, <3>5, Zenon
  <2>7. Todo' = Left(Taken(p), performed(p))
    <3>1. CASE ar.len = 0
      BY <1>3, <2>1, <2>4, <2>6, <3>1, Zenon
    <3>2. CASE ar.len # 0
      <4>1. req_rd' = TRUE
        BY <2>4, <3>2
      <4> QED BY <1>3, <2>6, <3>2, <4>1, Zenon
    <3> QED BY <3>1, <3>2
  <2>8. Todo \o Taken(p) = Taken(p) /\ Todo \in Seq(Access)
    BY <2>3, <2>6, ConcatEmptySeq, EmptySeq
  <2>9. Head(Taken(p)) = Answered(req_in(p), ram_addr)
    BY <1>6, <2>1, <2>6 DEF Answered, req_in
  <2> QED BY <2>3, <2>6, <2>7, <2>8, <2>9, Zenon
<1>7. CASE ~aw_taken(p) /\ ~ar_taken(p)
  <2>1. Continue(p) /\ Taken(p) = <<>>
    BY <1>7 DEF Burst, Taken
  <2>2. performed(p) => (req_rd \/ req_wr) /\ ram_addr = req_addr /\ ram_rd = req_rd
    BY <1>7, Wires
  <2>3. /\ Beats(req_rd, now) \in Seq(Access) /\ Beats(req_rd, now) # <<>>
        /\ Head(Beats(req_rd, now))
              = [read |-> req_rd, last |-> req_len = 0, id |-> req_id, word |-> req_addr]
    BY <1>1, <1>2, BeatsSeq, BeatsTail DEF LenRange
  <2>4. Todo \in Seq(Access) /\ Taken(p) \in Seq(Access) /\ Todo \o Taken(p) = Todo
    BY <1>3, <2>1, <2>3, EmptySeq, ConcatEmptySeq
  <2>5. ASSUME performed(p)
        PROVE  /\ Todo # <<>>
               /\ Head(Todo) = Answered(req_in(p), ram_addr)
    <3>1. Todo = Beats(req_rd, now)
      BY <1>3, <2>2, <2>5
    <3> QED BY <1>7, <2>2, <2>3, <2>5, <3>1 DEF Answered, req_in
  <2>6. Todo' = Left(Todo, performed(p))
    <3>1. CASE ~performed(p)
      <4>1. UNCHANGED burst
        BY <2>1, <3>1 DEF Continue
      <4>2. Todo' = Todo
        BY <4>1 DEF burst, Todo
      <4> QED BY <3>1, <4>2 DEF Left
    <3>2. CASE performed(p) /\ req_len = 0
      <4>1. ~req_rd' /\ ~req_wr'
        BY <2>1, <3>2, Zenon DEF Continue
      <4>2. Tail(Beats(req_rd, now)) = <<>>
        BY <1>1, <1>2, <3>2, BeatsTail DEF LenRange
      <4> QED BY <1>3, <2>2, <3>2, <4>1, <4>2, Zenon DEF Left
    <3>3. CASE performed(p) /\ req_len # 0
      <4>1. /\ req_rd' = req_rd /\ req_wr' = req_wr /\ req_id' = req_id
            /\ req_addr' = req_addr + 1 /\ req_len' = DecLen(req_len)
        BY <2>1, <3>3, Zenon DEF Continue
      <4>2. /\ next.addr = now.addr + 1 /\ now.len > 0 /\ next.len = now.len - 1
            /\ next.id = now.id
        BY <1>1, <1>2, <3>3, <4>1, DecLenIs
      <4>3. Tail(Beats(req_rd, now)) = Beats(req_rd, next)
        BY <1>1, <1>2, <4>2, BeatsTail DEF LenRange
      <4> QED BY <1>3, <2>2, <3>3, <4>1, <4>3, Zenon DEF Left
    <3> QED BY <3>1, <3>2, <3>3
  <2> QED BY <2>1, <2>4, <2>5, <2>6, Zenon
<1> QED BY <1>5, <1>6, <1>7

\* The words the RAM gives, in order, for the accesses made.
LEMMA WordsAnswered ==
    ASSUME IInv, NEW p \in Inputs, Bridge(p), Ram(p)
    PROVE  LET words == resps \o ram_ack
           IN  /\ words \in Seq(Nat) /\ Len(words) = Len(reqs)
               /\ resps' \o ram_ack' = Came(Left(words, resp_accept(p)), ram_addr, performed(p))
<1> DEFINE ack == resp_accept(p)
           made == performed(p)
           left == Left(resps, ack)
           words == resps \o ram_ack
           rest == Left(words, ack)
<1>1. /\ resps \in Seq(Nat) /\ ram_ack \in Seq(Nat) /\ Len(ram_ack) <= 1
      /\ Len(reqs) = Len(resps) + Len(ram_ack)
  BY DEF IInv, TypeOK, AnswersFit
<1>2. /\ resps' = Came(left, ram_ack[1], ram_ack # <<>>)
      /\ ram_ack' = IF made THEN <<ram_addr>> ELSE <<>>
      /\ ack => resps # <<>>
      /\ ack \in BOOLEAN /\ made \in BOOLEAN
  BY QueuesStep
<1>3. ram_addr \in Nat
  BY AccessMade
<1>4. words \in Seq(Nat) /\ Len(words) = Len(reqs)
  BY <1>1, ConcatProperties
<1> HIDE DEF ack, made
<1>5. left \in Seq(Nat)
  BY <1>1, <1>2, LeftProperties
<1>6. rest = left \o ram_ack
  BY <1>1, <1>2, LeftOfConcat
<1> HIDE DEF left
<1>7. left \o ram_ack \in Seq(Nat)
  BY <1>1, <1>5, ConcatProperties
<1>8. resps' = left \o ram_ack
  <2>1. CASE ram_ack = <<>>
    BY <1>2, <1>5, <2>1, ConcatEmptySeq DEF Came
  <2>2. CASE ram_ack # <<>>
    <3>1. Len(ram_ack) = 1
      <4> DEFINE n == Len(ram_ack)
      <4>1. n \in Nat /\ n <= 1 /\ n # 0
        BY <1>1, <2>2, EmptySeq, LenProperties
      <4> HIDE DEF n
      <4>2. n = 1
        BY <4>1
      <4> QED BY <4>2 DEF n
    <3>2. ram_ack[1] \in Nat /\ ram_ack = <<ram_ack[1]>>
      <4> DEFINE v == ram_ack[1]
                 one == <<v>>
      <4>1. v \in Nat
        <5>1. \A i \in 1 .. Len(ram_ack) : ram_ack[i] \in Nat
          BY <1>1, ElementOfSeq
        <5>2. 1 \in 1 .. Len(ram_ack)
          BY <3>1
        <5> QED BY <5>1, <5>2, Zenon
      <4> HIDE DEF v
      <4>2. one \in Seq(Nat) /\ Len(one) = 1 /\ one[1] = v
        BY <4>1
      <4> HIDE DEF one
      <4>3. \A i \in 1 .. Len(ram_ack) : ram_ack[i] = one[i]
        BY <3>1, <4>2 DEF v
      <4>4. ram_ack = one
        BY <1>1, <3>1, <4>2, <4>3, SeqEqual
      <4> QED BY <4>1, <4>4 DEF v, one
    <3>3. Append(left, ram_ack[1]) = left \o <<ram_ack[1]>>
      BY <1>5, <3>2, AppendIsConcat
    <3> QED BY <1>2, <2>2, <3>2, <3>3, Zenon DEF Came
  <2> QED BY <2>1, <2>2
<1> HIDE DEF rest
<1>9. resps' \o ram_ack' = rest \o (IF made THEN <<ram_addr>> ELSE <<>>)
  BY <1>2, <1>6, <1>8, Zenon
<1>10. rest \in Seq(Nat)
  BY <1>6, <1>7
<1>11. resps' \o ram_ack' = Came(rest, ram_addr, made)
  BY <1>2, <1>3, <1>9, <1>10, CameIsConcat
<1> QED BY <1>4, <1>11, Zenon DEF rest, ack, made

\* The accesses whose answer is due shrink by the one answered, and grow by the
\* one made.
LEMMA OwedStep ==
    ASSUME IInv, NEW p \in Inputs, Bridge(p), Ram(p)
    PROVE  /\ Owed \in Seq(Access)
           /\ resp_accept(p) => Owed # <<>>
           /\ Answered(req_in(p), ram_addr) \in Access
           /\ Owed' = Came(Left(Owed, resp_accept(p)), Answered(req_in(p), ram_addr), performed(p))
<1> DEFINE ack == resp_accept(p)
           made == performed(p)
           x == req_in(p)
           words == resps \o ram_ack
           lr == Left(reqs, ack)
           lw == Left(words, ack)
<1>1. /\ reqs \in Seq(Request) /\ words \in Seq(Nat) /\ Len(words) = Len(reqs)
      /\ (resps \o ram_ack)' = Came(lw, ram_addr, made)
  BY WordsAnswered DEF IInv, TypeOK, Request
<1>2. /\ reqs' = Came(lr, x, made)
      /\ ack => reqs # <<>>
      /\ ack \in BOOLEAN /\ made \in BOOLEAN
  BY QueuesStep
<1>3. x \in Request /\ ram_addr \in Nat
  BY AccessMade
<1>4. Owed = Zipped(reqs, words) /\ Owed' = Zipped(reqs', (resps \o ram_ack)')
  BY DEF Owed, Zipped, Answered
<1>5. ack => words # <<>>
  BY <1>1, <1>2, EmptySeq
<1> HIDE DEF ack, made, x, words
<1>6. Zipped(lr, lw) = Left(Owed, ack)
  BY <1>1, <1>2, <1>4, ZipLeft
<1>7. lr \in Seq(Request) /\ lw \in Seq(Nat) /\ Len(lr) = Len(lw)
  <2>1. CASE ack
    <3>1. lr \in Seq(Request) /\ Len(lr) = Len(reqs) - 1
      BY <1>1, <1>2, <2>1, LeftProperties
    <3>2. lw \in Seq(Nat) /\ Len(lw) = Len(words) - 1
      BY <1>1, <1>2, <1>5, <2>1, LeftProperties
    <3> QED BY <1>1, <3>1, <3>2
  <2>2. CASE ~ack
    BY <1>1, <2>2 DEF Left
  <2> QED BY <2>1, <2>2
<1> HIDE DEF lr, lw
<1>8. Zipped(Came(lr, x, made), Came(lw, ram_addr, made)) = Came(Zipped(lr, lw), Answered(x, ram_addr), made)
  BY <1>2, <1>3, <1>7, ZipCame
<1>9. Owed' = Came(Left(Owed, ack), Answered(x, ram_addr), made)
  BY <1>1, <1>2, <1>4, <1>6, <1>8, Zenon
<1>10. Owed \in Seq(Access) /\ Len(Owed) = Len(reqs)
  BY <1>1, <1>4, ZipSeq
<1>11. ack => Owed # <<>>
  BY <1>1, <1>2, <1>10, EmptySeq
<1>12. Answered(x, ram_addr) \in Access
  BY <1>3 DEF Answered, Request, Access
<1> QED BY <1>9, <1>10, <1>11, <1>12, Zenon DEF ack, made, x

\* A cycle of the circuit is a cycle of a memory port.
LEMMA BurstStepIsPort ==
    ASSUME IInv, NEW p \in Inputs, Clock(p)
    PROVE  PortStep
<1> DEFINE queued == Todo \o Taken(p)
           ack == resp_accept(p)
           made == performed(p)
           x == Answered(req_in(p), ram_addr)
<1>1. Bridge(p) /\ Burst(p) /\ Ram(p)
  BY DEF Clock, Bridge
<1>2. /\ Taken(p) # <<>> => Todo = <<>>
      /\ made => queued # <<>> /\ Head(queued) = x
      /\ Todo' = Left(queued, made)
  BY <1>1, TodoStep
<1>3. /\ Owed \in Seq(Access) /\ x \in Access
      /\ ack => Owed # <<>>
      /\ Owed' = Came(Left(Owed, ack), x, made)
  BY <1>1, OwedStep
<1>4. ack \in BOOLEAN /\ made \in BOOLEAN
  BY <1>1, QueuesStep
<1> HIDE DEF queued, ack, made, x
<1>5. Left(Owed, ack) \in Seq(Access)
  BY <1>3, <1>4, LeftProperties
<1> DEFINE left == Left(Owed, ack)
<1> HIDE DEF left
<1>6. left \o (IF made THEN <<x>> ELSE <<>>) = Came(left, x, made)
  BY <1>3, <1>4, <1>5, CameIsConcat DEF left
<1>7. CASE made
  <2>1. Owed' = left \o <<Head(queued)>>
    BY <1>2, <1>3, <1>6, <1>7, Zenon DEF left
  <2>2. /\ made => queued # <<>>
        /\ ack => Owed # <<>>
        /\ Todo' = IF made THEN Tail(queued) ELSE queued
        /\ Owed' = (IF ack THEN Tail(Owed) ELSE Owed) \o (IF made THEN <<Head(queued)>> ELSE <<>>)
    BY <1>2, <1>3, <1>7, <2>1, Zenon DEF left, Left
  <2>3. Port!Cycle(Taken(p), made, ack)
    BY <2>2, Zenon DEF Port!Cycle, queued
  <2> QED BY <1>2, <2>3, Zenon DEF PortStep, Taken, made, ack
<1>8. CASE ~made
  <2>1. Owed' = left \o <<>>
    BY <1>3, <1>6, <1>8, Zenon DEF left
  <2>2. /\ made => queued # <<>>
        /\ ack => Owed # <<>>
        /\ Todo' = IF made THEN Tail(queued) ELSE queued
        /\ Owed' = (IF ack THEN Tail(Owed) ELSE Owed) \o (IF made THEN <<Head(queued)>> ELSE <<>>)
    BY <1>2, <1>3, <1>8, <2>1, Zenon DEF left, Left
  <2>3. Port!Cycle(Taken(p), made, ack)
    BY <2>2, Zenon DEF Port!Cycle, queued
  <2> QED BY <1>2, <2>3, Zenon DEF PortStep, Taken, made, ack
<1> QED BY <1>7, <1>8

\* A burst is the accesses it stands for: each word once and in order, with its
\* identity, each answered once and in order with the word asked for, and no
\* burst taken before the one in progress is through (tcm_mem_pmem.v 134-322).
THEOREM BurstsAreAccesses == Spec => ImplementsBursts
<1>1. IInv /\ [Next]_vars => IInv'
  BY InvariantStep
<1>2. IInv /\ [Next]_vars => [PortStep]_vars
  BY BurstStepIsPort DEF Next
<1>3. Init => Port!Init
  <2> SUFFICES ASSUME Init PROVE Todo = <<>> /\ Owed = <<>>
    BY DEF Port!Init
  <2>1. Todo = <<>>
    BY DEF Init, Todo
  <2>2. reqs = <<>> /\ Len(reqs) = 0
    BY EmptySeq DEF Init
  <2>3. Owed = <<>>
    BY <2>2 DEF Owed
  <2> QED BY <2>1, <2>3
<1> QED BY InitialInvariant, <1>1, <1>2, <1>3, PTL DEF Spec, ImplementsBursts

-----------------------------------------------------------------------------
(* The memory.                                                             *)

\* What the fields of an access are.
LEMMA AccessFields ==
    ASSUME NEW ops, NEW ids, NEW a \in Accesses(ops, ids)
    PROVE  /\ a.op \in ops /\ a.word \in Words /\ a.id \in ids
           /\ a.op = "write" => a.data \in Data
BY DEF Accesses

\* What the CPU and the debug bridge ask for is an access.
LEMMA Typed ==
    ASSUME MemTypeOK
    PROVE  /\ cpu_request => pins.cpu \in CpuAccess
           /\ ext_request => pins.ext \in ExtAccess
           /\ cpu_request => pins.cpu.word \in Words /\ pins.cpu.id \in Ids
           /\ ext_request => pins.ext.word \in Words /\ pins.ext.id = "ext"
           /\ pins.pc \in Words /\ pins.fetch \in BOOLEAN
<1>1. /\ pins.cpu \in CpuAccess \cup {NoAccess}
      /\ pins.ext \in ExtAccess \cup {NoAccess}
      /\ pins.pc \in Words /\ pins.fetch \in BOOLEAN
  BY DEF MemTypeOK, Pins
<1>2. cpu_request => pins.cpu \in CpuAccess
  BY <1>1 DEF cpu_request
<1>3. ext_request => pins.ext \in ExtAccess
  BY <1>1 DEF ext_request
<1> QED BY <1>1, <1>2, <1>3, AccessFields DEF CpuAccess, ExtAccess

\* The shared port makes a request, of whoever has it, or none.
LEMMA MuxedTyped ==
    ASSUME MemTypeOK
    PROVE  \/ muxed = NoAccess /\ muxed.op # "write"
           \/ muxed # NoAccess /\ muxed.word \in Words
              /\ (muxed.op = "write" => muxed.data \in Data)
<1>1. /\ pins.cpu \in CpuAccess \cup {NoAccess}
      /\ pins.ext \in ExtAccess \cup {NoAccess}
  BY DEF MemTypeOK, Pins
<1>2. muxed \in Accesses({"read", "write", "cache"}, Ids)
                    \cup Accesses({"read", "write"}, {"ext"}) \cup {NoAccess}
  BY <1>1 DEF muxed, CpuAccess, ExtAccess
<1>3. NoAccess.op # "write"
  BY DEF NoAccess
<1> QED BY <1>2, <1>3, AccessFields

\* Types are kept.
LEMMA TypeStep == ASSUME MemTypeOK, [MemNext]_memvars PROVE MemTypeOK'
<1>1. CASE UNCHANGED memvars
  BY <1>1 DEF memvars, regs, MemTypeOK
<1>2. CASE MemClock
  <2> USE <1>2 DEF MemClock, Edge
  <2>1. ram' \in [Words -> Data]
    BY MuxedTyped DEF RamPort1, MemTypeOK
  <2>2. read0' \in Data
    BY DEF RamPort0, MemTypeOK, Pins
  <2>3. read1' \in Data
    BY MuxedTyped DEF RamPort1, MemTypeOK
  <2>4. mem_d_tag_q' \in Ids
    BY Typed DEF CpuAck, MemTypeOK
  <2>5. mem_i_valid_q' \in BOOLEAN
    BY Typed DEF IFetch
  <2>6. mem_d_accept_q' \in BOOLEAN
    BY Zenon DEF Arbiter
  <2>7. mem_d_ack_q' \in BOOLEAN
    BY Zenon DEF CpuAck
  <2>8. ext_ack_q' \in BOOLEAN
    BY Zenon DEF ExtAck
  <2> QED BY <2>1, <2>2, <2>3, <2>4, <2>5, <2>6, <2>7, <2>8 DEF MemTypeOK
<1> QED BY <1>1, <1>2 DEF MemNext

\* The answers and the tags the circuit keeps, and what its users ask for, keep their types,
\* and every word of the memory holds data (tcm_mem.v 183-259, tcm_mem_ram.v 58-86).
THEOREM MemoryTypes == MemSpec => []MemTypeOK
<1>1. MemInit => MemTypeOK
  BY DEF MemInit, MemTypeOK
<1> QED BY <1>1, TypeStep, PTL DEF MemSpec

-----------------------------------------------------------------------------
(* One memory.                                                             *)

\* An answer that is taken leaves nothing behind: there is one at most.
LEMMA NothingLeft ==
    ASSUME NEW due \in BOOLEAN, NEW x
    PROVE  (IF due THEN Tail(Answer(due, x)) ELSE Answer(due, x)) = <<>>
BY DEF Answer

\* What a user is owed for the access it made, if it made one.
Due(made) == [i \in 1 .. Len(made) |-> [id |-> made[i].id, value |-> ram[made[i].word]]]

\* For one access it is one answer, for none it is none.
LEMMA DueOne ==
    /\ Due(<<>>) = <<>>
    /\ \A a : Due(<<a>>) = <<[id |-> a.id, value |-> ram[a.word]]>>
BY DEF Due

\* The accesses there are.
Acc == CpuAccess \cup ExtAccess \cup FetchAccess

\* What is made in a cycle is what users may make.
LEMMA MadeAllowed == ASSUME MemTypeOK PROVE Made \in Shared!Made
<1>1. Made["cpu"] = <<>> \/ Made["ext"] = <<>>
  BY DEF Made, ext_accept, mem_d_accept
<1>2. pins.fetch => [op |-> "read", word |-> pins.pc, id |-> "fetch"] \in FetchAccess
  BY Typed DEF FetchAccess, Accesses
<1>3. Made \in [Shared!Users -> {<<>>} \cup {<<a>> : a \in Acc}]
  BY <1>2, Typed DEF Made, Acc, Shared!Users
<1> QED BY <1>1, <1>3 DEF Shared!Made, Acc

\* The memory changes by the write made, if one was made.
LEMMA MemoryStep ==
    ASSUME MemTypeOK, Edge
    PROVE  ram' = IF Made["cpu"] # <<>> /\ Made["cpu"][1].op = "write"
                  THEN [ram EXCEPT ![Made["cpu"][1].word] = Made["cpu"][1].data]
                  ELSE IF Made["ext"] # <<>> /\ Made["ext"][1].op = "write"
                  THEN [ram EXCEPT ![Made["ext"][1].word] = Made["ext"][1].data]
                  ELSE ram
<1>1. NoAccess.op # "write"
  BY DEF NoAccess
<1>2. CASE mem_d_accept_q
  <2>1. muxed = pins.cpu /\ Made["ext"] = <<>>
    BY <1>2 DEF muxed, ext_accept, Made
  <2>2. Made["cpu"] = IF cpu_request THEN <<pins.cpu>> ELSE <<>>
    BY <1>2 DEF Made, mem_d_accept
  <2>3. ram' = IF muxed.op = "write" THEN [ram EXCEPT ![muxed.word] = muxed.data] ELSE ram
    BY DEF Edge, RamPort1
  <2>4. CASE cpu_request
    <3>1. Made["cpu"] # <<>> /\ Made["cpu"][1] = pins.cpu
      BY <2>2, <2>4
    <3> QED BY <2>1, <2>3, <3>1
  <2>5. CASE ~cpu_request
    <3>1. ram' = ram
      BY <1>1, <2>1, <2>3, <2>5 DEF cpu_request
    <3> QED BY <2>1, <2>2, <2>5, <3>1
  <2> QED BY <2>4, <2>5
<1>3. CASE ~mem_d_accept_q
  <2>1. muxed = pins.ext /\ Made["cpu"] = <<>>
    BY <1>3 DEF muxed, ext_accept, Made, mem_d_accept
  <2>2. Made["ext"] = IF ext_request THEN <<pins.ext>> ELSE <<>>
    BY <1>3 DEF Made, ext_accept
  <2>3. ram' = IF muxed.op = "write" THEN [ram EXCEPT ![muxed.word] = muxed.data] ELSE ram
    BY DEF Edge, RamPort1
  <2>4. CASE ext_request
    <3>1. Made["ext"] # <<>> /\ Made["ext"][1] = pins.ext
      BY <2>2, <2>4
    <3> QED BY <2>1, <2>3, <3>1
  <2>5. CASE ~ext_request
    <3>1. ram' = ram
      BY <1>1, <2>1, <2>3, <2>5 DEF ext_request
    <3> QED BY <2>1, <2>2, <2>5, <3>1
  <2> QED BY <2>4, <2>5
<1> QED BY <1>2, <1>3

\* Each user gets the answer to what it made, with the word it asked for.
LEMMA AnswersStep ==
    ASSUME MemTypeOK, Edge
    PROVE  /\ Answer(mem_d_ack_q, [id |-> mem_d_tag_q, value |-> read1])' = Due(Made["cpu"])
           /\ Answer(ext_ack_q, [id |-> "ext", value |-> read1])' = Due(Made["ext"])
           /\ Answer(mem_i_valid_q, [id |-> "fetch", value |-> read0])' = Due(Made["fetch"])
<1>1. Answer(mem_d_ack_q, [id |-> mem_d_tag_q, value |-> read1])' = Due(Made["cpu"])
  <2>1. CASE cpu_request /\ mem_d_accept
    <3>1. Made["cpu"] = <<pins.cpu>>
      BY <2>1 DEF Made
    <3>2. mem_d_ack_q' /\ mem_d_tag_q' = pins.cpu.id
      BY <2>1 DEF Edge, CpuAck
    <3>3. read1' = ram[pins.cpu.word]
      BY <2>1 DEF Edge, RamPort1, muxed, ext_accept, mem_d_accept, cpu_request
    <3> QED BY <3>1, <3>2, <3>3, DueOne DEF Answer
  <2>2. CASE ~(cpu_request /\ mem_d_accept)
    BY <2>2, DueOne DEF Edge, CpuAck, Answer, Made
  <2> QED BY <2>1, <2>2
<1>2. Answer(ext_ack_q, [id |-> "ext", value |-> read1])' = Due(Made["ext"])
  <2>1. CASE ext_request /\ ext_accept
    <3>1. Made["ext"] = <<pins.ext>> /\ pins.ext.id = "ext"
      BY <2>1, Typed DEF Made
    <3>2. ext_ack_q'
      BY <2>1 DEF Edge, ExtAck
    <3>3. read1' = ram[pins.ext.word]
      BY <2>1 DEF Edge, RamPort1, muxed, ext_accept, ext_request
    <3> QED BY <3>1, <3>2, <3>3, DueOne DEF Answer
  <2>2. CASE ~(ext_request /\ ext_accept)
    BY <2>2, DueOne DEF Edge, ExtAck, Answer, Made
  <2> QED BY <2>1, <2>2
<1>3. Answer(mem_i_valid_q, [id |-> "fetch", value |-> read0])' = Due(Made["fetch"])
  <2>1. Made["fetch"] = IF pins.fetch THEN <<[op |-> "read", word |-> pins.pc, id |-> "fetch"]>> ELSE <<>>
    BY DEF Made
  <2>2. mem_i_valid_q' = pins.fetch /\ read0' = ram[pins.pc]
    BY DEF Edge, IFetch, RamPort0
  <2> QED BY <2>1, <2>2, DueOne DEF Answer
<1> QED BY <1>1, <1>2, <1>3

\* An empty queue in front changes nothing.
LEMMA PrependNothing ==
    /\ <<>> \o <<>> = <<>>
    /\ \A x : <<>> \o <<x>> = <<x>>
OBVIOUS

\* An edge of the circuit is a cycle of the one memory.
LEMMA SharedCycle == ASSUME MemTypeOK, Edge PROVE SharedStep
<1> DEFINE owed == [cpu |-> Answer(mem_d_ack_q, [id |-> mem_d_tag_q, value |-> read1]),
                    ext |-> Answer(ext_ack_q, [id |-> "ext", value |-> read1]),
                    fetch |-> Answer(mem_i_valid_q, [id |-> "fetch", value |-> read0])]
           after(u) == (IF u \in Acked THEN Tail(owed[u]) ELSE owed[u]) \o Due(Made[u])
<1>1. \A u \in Acked : owed[u] # <<>>
  BY DEF Acked, Answer, Shared!Users
<1>2. \A u \in Shared!Users : (IF u \in Acked THEN Tail(owed[u]) ELSE owed[u]) = <<>>
  BY NothingLeft DEF Acked, Shared!Users, MemTypeOK
<1>3. ASSUME NEW u \in Shared!Users PROVE after(u) = Due(Made[u])
  <2>1. Made[u] = <<>> \/ \E a : Made[u] = <<a>>
    BY DEF Made, Shared!Users
  <2>2. <<>> \o Due(Made[u]) = Due(Made[u])
    BY <2>1, DueOne, PrependNothing
  <2> QED BY <1>2, <2>2
<1>4. owed' = [u \in Shared!Users |-> after(u)]
  <2>1. owed' = [cpu |-> Due(Made["cpu"]), ext |-> Due(Made["ext"]), fetch |-> Due(Made["fetch"])]
    BY AnswersStep
  <2>2. [u \in Shared!Users |-> after(u)] = [u \in Shared!Users |-> Due(Made[u])]
    BY <1>3
  <2>3. owed' = [u \in Shared!Users |-> Due(Made[u])]
    BY <2>1 DEF Shared!Users
  <2> QED BY <2>2, <2>3
<1>5. Shared!Cycle(Made, Acked)
  BY <1>1, <1>4, MemoryStep DEF Shared!Cycle, Due
<1> QED BY <1>5, MadeAllowed DEF SharedStep

\* One memory for the fetch, the data port and the debug bridge, whatever the number of words
\* and values: each access that was accepted happens once, and its user, no other, is
\* answered with the word as it was then (tcm_mem.v 183-259, tcm_mem_ram.v).
THEOREM OneMemory == MemSpec => ImplementsSharedRam
<1>1. MemInit => MemTypeOK
  BY DEF MemInit, MemTypeOK
<1>2. MemInit => Shared!Init
  BY DEF MemInit, Shared!Init, Shared!Users, Answer
<1>3. MemTypeOK /\ [MemNext]_memvars => MemTypeOK' /\ [SharedStep]_memvars
  BY TypeStep, SharedCycle DEF MemNext, MemClock
<1> QED BY <1>1, <1>2, <1>3, PTL DEF MemSpec, ImplementsSharedRam
=============================================================================
