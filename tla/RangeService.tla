---------------------------- MODULE RangeService ----------------------------
(***************************************************************************)
(* What the ranging initiator promises to the rest of the firmware:        *)
(* exchanges are made one after the other, the nodes take turns, and an    *)
(* exchange yields at most one distance, of the node it polled, before the *)
(* next one is begun.  Next to other initiators it may yield, in place of  *)
(* its own, a distance with the timestamps of another's exchange.          *)
(***************************************************************************)
EXTENDS Integers

CONSTANTS NumNodes, OtherInitiators

VARIABLES
  exchanges,  \* exchanges begun
  open,       \* the last one has not yielded a distance and still may
  range       \* the last distance: its node, and the exchange it is of

vars == <<exchanges, open, range>>

Elsewhere == 0
NodeOfExchange(k) == ((k - 1) % NumNodes) + 1

Init ==
  /\ exchanges = 0
  /\ open = FALSE
  /\ range = [node |-> 0, ex |-> Elsewhere]

Begin ==
  /\ ~open
  /\ exchanges' = exchanges + 1
  /\ open' = TRUE
  /\ UNCHANGED range

Measure ==
  /\ open
  /\ open' = FALSE
  /\ \E k \in {exchanges} \cup (IF OtherInitiators THEN {Elsewhere} ELSE {}) :
       range' = [node |-> NodeOfExchange(exchanges), ex |-> k]
  /\ UNCHANGED exchanges

GiveUp ==
  /\ open
  /\ open' = FALSE
  /\ UNCHANGED <<exchanges, range>>

Next == Begin \/ Measure \/ GiveUp

Spec == Init /\ [][Next]_vars
=============================================================================
