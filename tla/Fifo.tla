-------------------------------- MODULE Fifo --------------------------------
(***************************************************************************)
(* What a queue promises its users, whatever its implementation: the       *)
(* values that come out are the values that went in, each once, in the     *)
(* order they went in.  Only the two histories are visible; who waits, and *)
(* where a value is kept in between, is not.                               *)
(***************************************************************************)
EXTENDS Naturals, Sequences

CONSTANT Values         \* what may be put in

VARIABLES in,           \* every value put in so far, in order
          out           \* every value taken out so far, in order

fifoVars == <<in, out>>

Init == in = <<>> /\ out = <<>>

Put == \E v \in Values : in' = Append(in, v) /\ UNCHANGED out

Get == /\ Len(out) < Len(in)
       /\ out' = Append(out, in[Len(out) + 1])
       /\ UNCHANGED in

Next == Put \/ Get

Spec == Init /\ [][Next]_fifoVars
=============================================================================
