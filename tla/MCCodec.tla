------------------------------ MODULE MCCodec ------------------------------
(* Shapes for Codec: every combination of list length, string length and   *)
(* optional presence up to one past the reader's bounds, one shape that is *)
(* delivered truncated too, one with a capability above a byte, and one in *)
(* which every list and every optional is chosen for itself.               *)
EXTENDS Codec

Shape(list, opt, str, cap) == [list |-> list, opt |-> opt, str |-> str, cap |-> cap]

MCShapes ==
  {Shape({n}, {o}, {l}, 12): n \in 0 .. kMaxList + 1, o \in {0, 1}, l \in 0 .. kMaxString + 1}
  \union {Shape({0}, {0}, {0}, 256), Shape({0, 1}, {0, 1}, {0}, 12)}

\* A read takes all of a number, of a length or of a string, so that every cut
\* inside one is alike.
MCCuts(b, s) ==
  IF s = Shape({1}, {1}, {1}, 12)
    THEN UNION {{c.at, c.at + 1, c.at + c.lead}: c \in Range(b)} ELSE {}
=============================================================================
