--------------------------- MODULE MCH4Reassembly ---------------------------
(***************************************************************************)
(* What the controller sends in the runs: every sequence of three packets  *)
(* out of a few, whose payload bytes look like packet types.               *)
(***************************************************************************)
EXTENDS H4Reassembly, SequencesExt

Good == { <<4, 14, 0>>,                    \* event without parameters
          <<4, 15, 1, 4>>,                 \* with one
          <<4, 16, 3, 2, 4, 5>>,           \* with three
          <<2, 1, 0, 0, 0>>,               \* ACL data without payload
          <<2, 1, 1, 2, 0, 4, 2>> }        \* with two bytes
Bad  == { <<9>>,                           \* no H4 packet type
          <<2, 1, 2, 4, 0, 4, 2, 1, 0>>,   \* ACL data one byte too long
          <<2, 1, 3, 4, 1, 4>> }           \* ACL data that announces 260 bytes

WireOf(packets) ==
    [bytes  |-> FlattenSeq(packets),
     starts |-> {FoldFunctionOnSet(+, 0, [i \in 1..3 |-> Len(packets[i])], 1..k) : k \in 0..2},
     valid  |-> \A i \in 1..3 : packets[i] \in Good]

Packet3 == Good \cup Bad
AllWires == {WireOf(<<p, q, r>>) : p \in Packet3, q \in Packet3, r \in Packet3}
=============================================================================
