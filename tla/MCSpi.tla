------------------------------- MODULE MCSpi -------------------------------
(* Small instances of SpiTransfer, next to the accesses that ask for the     *)
(* transfers.                                                               *)
EXTENDS SpiRefines, RegisterAccess

\* Every pair of lengths the type can hold.
AllLengths == (0 .. 5) \X (0 .. 5)
=============================================================================
