------------------------------ MODULE SharedRam -----------------------------
(***************************************************************************)
(* What the tightly coupled memory promises its three users: the CPU's     *)
(* data port, the debug bridge (ext) and the instruction fetch.  There is  *)
(* one memory; accesses to it happen one after the other; each is answered *)
(* once, to the user that made it, in the order made, with the word as it  *)
(* was when the access happened.  (A write is answered with the word it    *)
(* overwrote.)  TcmMem is shown to implement this module.                  *)
(***************************************************************************)
EXTENDS Naturals, Sequences

CONSTANTS Words,   \* addresses
          Data,    \* contents of a word
          Access   \* [op, word, data, id], op = "write" to store data
VARIABLES mem,
          owed     \* owed[u]: the answers due to user u, oldest first

Users == {"cpu", "ext", "fetch"}

\* A cycle: made[u] is the access of user u that happens in it, if there is
\* one, acked the users that are answered.
Cycle(made, acked) ==
    /\ \A u \in acked : owed[u] # <<>>
    /\ mem' = IF made["cpu"] # <<>> /\ made["cpu"][1].op = "write"
              THEN [mem EXCEPT ![made["cpu"][1].word] = made["cpu"][1].data]
              ELSE IF made["ext"] # <<>> /\ made["ext"][1].op = "write"
              THEN [mem EXCEPT ![made["ext"][1].word] = made["ext"][1].data]
              ELSE mem
    /\ owed' = [u \in Users |->
                  (IF u \in acked THEN Tail(owed[u]) ELSE owed[u])
                  \o [i \in 1 .. Len(made[u]) |->
                        [id |-> made[u][i].id, value |-> mem[made[u][i].word]]]]

\* The CPU's data port and the bridge share one side of the memory.
Made == {m \in [Users -> {<<>>} \cup {<<a>> : a \in Access}] :
            m["cpu"] = <<>> \/ m["ext"] = <<>>}

Init == mem \in [Words -> Data] /\ owed = [u \in Users |-> <<>>]
Next == \E made \in Made, acked \in SUBSET Users : Cycle(made, acked)
Spec == Init /\ [][Next]_<<mem, owed>>
=============================================================================
