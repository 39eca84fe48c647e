--------------------------- MODULE RangingRefines ---------------------------
(* The initiator of Ranging implements RangeService. *)
EXTENDS Ranging

\* From the poll on, and until a distance is computed or cannot be any more.
Measuring ==
  step \in {"poll", "good", "length", "read", "check", "compute"}

Service == INSTANCE RangeService WITH
  exchanges <- tx_count,
  open <- Measuring,
  range <- [node |-> distance.node, ex |-> distance.peer]

\* Seen through its counters and its distance, the initiator does nothing but
\* begin exchanges one after the other and measure, at most once each, the
\* node it polled last.
ImplementsService == Service!Spec
=============================================================================
