--------------------------- MODULE SpiTransaction ---------------------------
(***************************************************************************)
(* What readfromspi and writetospi promise the DW1000 driver: a call puts  *)
(* its bytes on the wire in order, in one transaction of the device, and   *)
(* returns the bytes the device answered them with.  A transfer that is    *)
(* aborted is a prefix of that.                                            *)
(*                                                                         *)
(* Bytes are named by their place: byte i of the transmit buffer is i, and *)
(* the device answers the i-th byte of a transaction with i.               *)
(***************************************************************************)
EXTENDS Naturals, Sequences

CONSTANTS
  Requests,   \* the calls: pairs of a transmit and a receive length
  MaxLength,  \* no length is larger
  Orc,        \* over-run character: sent when the transmit buffer has ended
  NoCall

VARIABLES call, aborted, wire, answer

vars == <<call, aborted, wire, answer>>

Larger(m, n) == IF m >= n THEN m ELSE n
\* Even a call of length zero clocks a byte.
Bytes(r) == Larger(1, Larger(r[1], r[2]))
Wire(r, n) == [i \in 1 .. n |-> IF i <= r[1] THEN i ELSE Orc]
Answer(r, n) == [i \in 1 .. MaxLength |-> IF i <= n /\ i <= r[2] THEN i ELSE 0]
NoAnswer == [i \in 1 .. MaxLength |-> 0]

Init == call = NoCall /\ aborted = FALSE /\ wire = <<>> /\ answer = NoAnswer

Begin ==
  /\ call = NoCall
  /\ call' \in Requests
  /\ aborted' = FALSE /\ wire' = <<>> /\ answer' = NoAnswer

Abort == call # NoCall /\ aborted' = TRUE /\ UNCHANGED <<call, wire, answer>>

Complete ==
  /\ call # NoCall
  /\ \E n \in 1 .. Bytes(call) :
       /\ ~aborted => n = Bytes(call)
       /\ wire' = Wire(call, n) /\ answer' = Answer(call, n)
  /\ call' = NoCall /\ aborted' = FALSE

Next == Begin \/ Abort \/ Complete

Spec == Init /\ [][Next]_vars
=============================================================================
