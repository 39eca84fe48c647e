----------------------------- MODULE SpiRefines -----------------------------
(* Transfers implement SpiTransaction: what happens inside a call is hidden. *)
EXTENDS SpiTransfer

Returned == main = "idle"

Transaction == INSTANCE SpiTransaction WITH
  call    <- IF Returned THEN NoCall ELSE call,
  aborted <- main \notin {"idle", "xfer"} /\ abort,
  wire    <- IF Returned THEN wire ELSE <<>>,
  answer  <- IF Returned THEN rx_buffer ELSE Cleared

\* A call puts its bytes on the wire, in order and in one transaction, and
\* returns the device's answer to each (readfromspi, writetospi).
ImplementsTransaction == Transaction!Spec
=============================================================================
