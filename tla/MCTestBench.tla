---------------------------- MODULE MCTestBench -----------------------------
(* TestBench with an image that fits and one that ends at the end of the RAM, *)
(* named behind options, one of which has the value "-f", or no image at all; *)
(* the RTL raises one output at a time, each of them.                         *)
EXTENDS TestBench
CommandLines == {<<"test.x", "-f", "basic.elf">>,
                 <<"test.x", "--seed", "-f", "--trace", "0", "-f", "basic.elf">>,
                 <<"test.x", "--vcd_name", "w", "-f", "large.elf">>,
                 <<"test.x", "--seed", "2">>}
Memory == [image \in {"basic.elf", "large.elf"} |->
             IF image = "basic.elf" THEN {[base |-> 0, size |-> 3], [base |-> 4, size |-> 3]}
                                    ELSE {[base |-> 0, size |-> 4], [base |-> 4, size |-> 4]}]
OneAtATime == {[i |-> {}, t |-> {}]} \cup {[i |-> {f}, t |-> {}] : f \in LiteMasterFields}
              \cup {[i |-> {}, t |-> {f}] : f \in SlaveFields}
=============================================================================
