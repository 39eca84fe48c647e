----------------------------- MODULE AppProofs -----------------------------
(***************************************************************************)
(* For any queue, any run of exchanges and any number of keys and losses   *)
(* of power: a device is never stranded, a request that got a slot is      *)
(* carried out once, and a reset forgets the network.                      *)
(***************************************************************************)
EXTENDS App, TLAPS

\* The counters that TypeOK leaves open; a request takes a key.
Counters ==
  /\ keys \in 0 .. MaxKeys /\ losses \in 0 .. MaxPowerLoss
  /\ accepted <= keys
  /\ phase = "func4" => queue > 0

\* Between mesh_init, which reads the flag, and start, which uses it, the reset
\* key may fall: then a reset is on its way.
FlagIsRight ==
  phase = "start" /\ ~provisioned => ~m_device_provisioned \/ reset_pending

\* From node_reset on the network is forgotten, or being forgotten, and nobody
\* writes it again before the reset.
BeingForgotten ==
  reset_pending =>
    /\ phase # "init"
    /\ pending["mesh"] = "blank" \/ (pending["mesh"] = None /\ flash["mesh"] = "blank")

IInv ==
  /\ TypeOK /\ Counters
  /\ FlagIsRight /\ NeverStranded
  /\ BeingForgotten
  /\ EachRequestRunsOnce

---------------------------------------------------------------------------
\* One more request is RunLength more exchanges.
LEMMA OneMore ==
  ASSUME NEW R \in Nat, NEW n \in Int
  PROVE  R * (n + 1) = R * n + R
  BY SMT

LEMMA InitIInv == Init => IInv
<1> SUFFICES ASSUME Init PROVE IInv
  OBVIOUS
<1>1. flash \in [Files -> Contents] /\ pending \in [Files -> Contents \cup {None}]
  <2>1. flash \in [Files -> Contents]
    BY DEF Init, Files, Contents
  <2> QED
    BY <2>1 DEF Init
<1>2. TypeOK
  <2>1. {m_device_provisioned, provisioned, provisioning, reset_pending, event} \subseteq BOOLEAN
    BY Zenon DEF Init, Booted
  <2>2. /\ phase \in {"init", "start", "execute", "func4", "wait"}
        /\ queue \in 0 .. SCHED_QUEUE_SIZE /\ left \in 0 .. RunLength
        /\ accepted \in 0 .. MaxKeys /\ exchanges \in Nat
    BY SizesAssumption DEF Init, Booted
  <2> QED
    BY <1>1, <2>1, <2>2, Zenon DEF TypeOK
<1>3. Counters
  BY SizesAssumption DEF Init, Booted, Counters
<1>4. FlagIsRight /\ NeverStranded /\ BeingForgotten
  BY DEF Init, Booted, FlagIsRight, NeverStranded, BeingForgotten, InLoop
<1>5. EachRequestRunsOnce
  <2>1. RunLength * 0 = 0
    BY SizesAssumption
  <2> QED
    BY <2>1 DEF Init, Booted, EachRequestRunsOnce
<1> QED
  BY <1>2, <1>3, <1>4, <1>5 DEF IInv

---------------------------------------------------------------------------
(* One step *)

\* A reset and a loss of power leave the memory as at boot.
LEMMA RebootInv ==
  ASSUME IInv, Reboot, losses' \in 0 .. MaxPowerLoss, keys' = keys,
         flash' \in [Files -> Contents], pending' \in [Files -> Contents \cup {None}]
  PROVE  IInv'
<1>1. TypeOK'
  <2>1. {m_device_provisioned, provisioned, provisioning, reset_pending, event}' \subseteq BOOLEAN
    BY Zenon DEF Reboot
  <2>2. /\ phase' \in {"init", "start", "execute", "func4", "wait"}
        /\ queue' \in 0 .. SCHED_QUEUE_SIZE /\ left' \in 0 .. RunLength
        /\ accepted' \in 0 .. MaxKeys /\ exchanges' \in Nat
    BY SizesAssumption DEF Reboot
  <2> QED
    BY <2>1, <2>2, Zenon DEF TypeOK
<1>2. Counters'
  BY SizesAssumption DEF IInv, Reboot, Counters
<1>3. FlagIsRight' /\ NeverStranded' /\ BeingForgotten'
  BY DEF Reboot, FlagIsRight, NeverStranded, BeingForgotten, InLoop
<1>4. EachRequestRunsOnce'
  <2>1. RunLength * 0 = 0
    BY SizesAssumption
  <2> QED
    BY <2>1 DEF Reboot, EachRequestRunsOnce
<1> QED
  BY <1>1, <1>2, <1>3, <1>4 DEF IInv

LEMMA ResetInv == IInv /\ (DeviceReset \/ PowerLoss) => IInv'
<1>1. CASE IInv /\ DeviceReset
  <2>1. /\ losses' \in 0 .. MaxPowerLoss /\ keys' = keys
        /\ flash' \in [Files -> Contents] /\ pending' \in [Files -> Contents \cup {None}]
    BY <1>1 DEF IInv, TypeOK, Counters, DeviceReset
  <2> QED
    BY <1>1, <2>1, RebootInv DEF DeviceReset
<1>2. CASE IInv /\ PowerLoss
  <2>1. losses' \in 0 .. MaxPowerLoss /\ keys' = keys
    BY <1>2, SizesAssumption DEF IInv, Counters, PowerLoss
  <2>2. flash' \in [Files -> Contents] /\ pending' \in [Files -> Contents \cup {None}]
    BY <1>2 DEF PowerLoss
  <2> QED
    BY <1>2, <2>1, <2>2, RebootInv DEF PowerLoss
<1> QED
  BY <1>1, <1>2

\* main() makes its steps, whatever the keys do between them.
LEMMA MainInv == IInv /\ main => IInv'
<1> SUFFICES ASSUME IInv, main PROVE IInv'
  OBVIOUS
<1> USE SizesAssumption
<1>1. TypeOK /\ Counters /\ FlagIsRight /\ NeverStranded /\ BeingForgotten /\ EachRequestRunsOnce
  BY DEF IInv
<1>2. CASE mesh_init
  <2>1. pending' \in [Files -> Contents \cup {None}]
    BY <1>1, <1>2 DEF mesh_init, TypeOK, Files, Contents
  <2>2. TypeOK' /\ Counters'
    BY <1>1, <1>2, <2>1 DEF mesh_init, TypeOK, Counters
  <2>3. FlagIsRight' /\ NeverStranded' /\ BeingForgotten'
    BY <1>1, <1>2 DEF mesh_init, FlagIsRight, NeverStranded, BeingForgotten, InLoop
  <2>4. EachRequestRunsOnce'
    BY <1>1, <1>2 DEF mesh_init, EachRequestRunsOnce
  <2> QED
    BY <2>2, <2>3, <2>4 DEF IInv
<1>3. CASE start
  <2>1. TypeOK' /\ Counters'
    BY <1>1, <1>3 DEF start, TypeOK, Counters
  <2>2. FlagIsRight' /\ NeverStranded' /\ BeingForgotten'
    BY <1>1, <1>3 DEF start, FlagIsRight, NeverStranded, BeingForgotten, InLoop, TypeOK
  <2>3. EachRequestRunsOnce'
    BY <1>1, <1>3 DEF start, EachRequestRunsOnce
  <2> QED
    BY <2>1, <2>2, <2>3 DEF IInv
<1>4. CASE TakeEvent
  <2>1. TypeOK' /\ Counters'
    BY <1>1, <1>4 DEF TakeEvent, TypeOK, Counters
  <2>2. FlagIsRight' /\ NeverStranded' /\ BeingForgotten'
    BY <1>1, <1>4 DEF TakeEvent, FlagIsRight, NeverStranded, BeingForgotten, InLoop
  <2>3. EachRequestRunsOnce'
    BY <1>1, <1>4 DEF TakeEvent, EachRequestRunsOnce, TypeOK
  <2> QED
    BY <2>1, <2>2, <2>3 DEF IInv
<1>5. CASE func4
  <2>1. TypeOK' /\ Counters'
    BY <1>1, <1>5 DEF func4, TypeOK, Counters
  <2>2. FlagIsRight' /\ NeverStranded' /\ BeingForgotten'
    BY <1>1, <1>5 DEF func4, FlagIsRight, NeverStranded, BeingForgotten, InLoop
  <2>3. EachRequestRunsOnce'
    <3>1. RunLength * (accepted - queue) \in Int
      BY <1>1 DEF TypeOK
    <3>2. exchanges' = RunLength * (accepted - queue) + (RunLength - left')
      BY <1>1, <1>5, <3>1 DEF func4, EachRequestRunsOnce, TypeOK
    <3> QED
      BY <1>5, <3>2 DEF func4, EachRequestRunsOnce
  <2> QED
    BY <2>1, <2>2, <2>3 DEF IInv
<1>6. CASE FreeSlot
  <2>1. TypeOK' /\ Counters'
    BY <1>1, <1>6 DEF FreeSlot, TypeOK, Counters
  <2>2. FlagIsRight' /\ NeverStranded' /\ BeingForgotten'
    BY <1>1, <1>6 DEF FreeSlot, FlagIsRight, NeverStranded, BeingForgotten, InLoop
  <2>3. EachRequestRunsOnce'
    <3>1. accepted - queue \in Int /\ accepted' - queue' = (accepted - queue) + 1
      BY <1>1, <1>6 DEF FreeSlot, TypeOK
    <3>2. RunLength * (accepted' - queue') = RunLength * (accepted - queue) + RunLength
      BY <3>1, OneMore
    <3>3. exchanges' = RunLength * (accepted - queue) + RunLength
      BY <1>1, <1>6 DEF FreeSlot, EachRequestRunsOnce, TypeOK
    <3>4. phase' # "func4" /\ exchanges' \in Int
      BY <2>1, <1>6 DEF FreeSlot, TypeOK
    <3> QED
      BY <3>2, <3>3, <3>4 DEF EachRequestRunsOnce
  <2> QED
    BY <2>1, <2>2, <2>3 DEF IInv
<1>7. CASE QueueEmpty \/ sd_app_evt_wait
  <2>1. TypeOK' /\ Counters'
    BY <1>1, <1>7 DEF QueueEmpty, sd_app_evt_wait, TypeOK, Counters
  <2>2. FlagIsRight' /\ NeverStranded' /\ BeingForgotten'
    BY <1>1, <1>7
    DEF QueueEmpty, sd_app_evt_wait, FlagIsRight, NeverStranded, BeingForgotten, InLoop
  <2>3. EachRequestRunsOnce'
    BY <1>1, <1>7 DEF QueueEmpty, sd_app_evt_wait, EachRequestRunsOnce
  <2> QED
    BY <2>1, <2>2, <2>3 DEF IInv
<1> QED
  BY <1>2, <1>3, <1>4, <1>5, <1>6, <1>7 DEF main

\* A key may fall anywhere from start on; only a request that gets a slot and a
\* reset change anything.
LEMMA KeyInv == IInv /\ button_event_handler => IInv'
<1> SUFFICES ASSUME IInv, button_event_handler PROVE IInv'
  OBVIOUS
<1> USE SizesAssumption
<1>1. TypeOK /\ Counters /\ FlagIsRight /\ NeverStranded /\ BeingForgotten /\ EachRequestRunsOnce
  BY DEF IInv
<1>2. CASE OtherKey \/ RangingKeyDropped \/ ResetKeyNoEffect
  <2>0. /\ Press
        /\ UNCHANGED <<phase, m_device_provisioned, provisioned, provisioning, reset_pending,
                       queue, left, accepted, exchanges, flash, pending, losses>>
    BY <1>2, Zenon DEF OtherKey, RangingKeyDropped, ResetKeyNoEffect
  <2>1. TypeOK' /\ Counters'
    <3>1. {m_device_provisioned, provisioned, provisioning, reset_pending, event}' \subseteq BOOLEAN
      BY <1>1, <2>0, Zenon DEF Press, TypeOK
    <3>2. /\ phase' \in {"init", "start", "execute", "func4", "wait"}
          /\ queue' \in 0 .. SCHED_QUEUE_SIZE /\ left' \in 0 .. RunLength
          /\ accepted' \in 0 .. MaxKeys /\ exchanges' \in Nat
          /\ flash' \in [Files -> Contents] /\ pending' \in [Files -> Contents \cup {None}]
      BY <1>1, <2>0 DEF TypeOK
    <3>3. Counters'
      BY <1>1, <2>0 DEF Press, TypeOK, Counters
    <3> QED
      BY <3>1, <3>2, <3>3, Zenon DEF TypeOK
  <2>2. FlagIsRight' /\ NeverStranded' /\ BeingForgotten'
    BY <1>1, <1>2
    DEF OtherKey, RangingKeyDropped, ResetKeyNoEffect, FlagIsRight, NeverStranded,
        BeingForgotten, InLoop
  <2>3. EachRequestRunsOnce'
    BY <1>1, <1>2 DEF OtherKey, RangingKeyDropped, ResetKeyNoEffect, EachRequestRunsOnce
  <2> QED
    BY <2>1, <2>2, <2>3 DEF IInv
<1>3. CASE RangingKey
  <2>1. TypeOK' /\ Counters'
    BY <1>1, <1>3 DEF RangingKey, Press, TypeOK, Counters
  <2>2. FlagIsRight' /\ NeverStranded' /\ BeingForgotten'
    BY <1>1, <1>3 DEF RangingKey, FlagIsRight, NeverStranded, BeingForgotten, InLoop
  <2>3. EachRequestRunsOnce'
    <3>1. accepted' - queue' = accepted - queue
      BY <1>1, <1>3 DEF RangingKey, TypeOK
    <3> QED
      BY <1>1, <1>3, <3>1 DEF RangingKey, EachRequestRunsOnce
  <2> QED
    BY <2>1, <2>2, <2>3 DEF IInv
<1>4. CASE ResetKey
  <2>1. pending' \in [Files -> Contents \cup {None}] /\ pending'["mesh"] = "blank"
    BY <1>4 DEF ResetKey, node_reset, Files, Contents
  <2>2. TypeOK' /\ Counters'
    <3>0. /\ Press
          /\ provisioned' = FALSE /\ reset_pending' = TRUE
          /\ UNCHANGED <<phase, m_device_provisioned, provisioning,
                         queue, left, accepted, exchanges, flash, losses>>
      BY <1>4, Zenon DEF ResetKey, node_reset
    <3>1. {m_device_provisioned, provisioned, provisioning, reset_pending, event}' \subseteq BOOLEAN
      BY <1>1, <3>0, Zenon DEF Press, TypeOK
    <3>2. /\ phase' \in {"init", "start", "execute", "func4", "wait"}
          /\ queue' \in 0 .. SCHED_QUEUE_SIZE /\ left' \in 0 .. RunLength
          /\ accepted' \in 0 .. MaxKeys /\ exchanges' \in Nat
          /\ flash' \in [Files -> Contents] /\ pending' \in [Files -> Contents \cup {None}]
      BY <1>1, <2>1, <3>0 DEF TypeOK
    <3>3. Counters'
      BY <1>1, <3>0 DEF Press, TypeOK, Counters
    <3> QED
      BY <3>1, <3>2, <3>3, Zenon DEF TypeOK
  <2>3. FlagIsRight' /\ NeverStranded' /\ BeingForgotten'
    BY <1>1, <1>4, <2>1
    DEF ResetKey, node_reset, Press, KeysEnabled, FlagIsRight, NeverStranded, BeingForgotten,
        InLoop
  <2>4. EachRequestRunsOnce'
    BY <1>1, <1>4 DEF ResetKey, EachRequestRunsOnce
  <2> QED
    BY <2>2, <2>3, <2>4 DEF IInv
<1> QED
  BY <1>2, <1>3, <1>4 DEF button_event_handler

\* The mesh stack reports a reset or the end of a provisioning.
LEMMA MeshInv == IInv /\ (config_server_evt_cb \/ provisioning_complete_cb) => IInv'
<1> SUFFICES ASSUME IInv, config_server_evt_cb \/ provisioning_complete_cb PROVE IInv'
  OBVIOUS
<1> USE SizesAssumption
<1>1. TypeOK /\ Counters /\ FlagIsRight /\ NeverStranded /\ BeingForgotten /\ EachRequestRunsOnce
  BY DEF IInv
<1>2. CASE config_server_evt_cb
  <2>1. pending' \in [Files -> Contents \cup {None}] /\ pending'["mesh"] = "blank"
    BY <1>2 DEF config_server_evt_cb, node_reset, Files, Contents
  <2>2. TypeOK' /\ Counters'
    BY <1>1, <1>2, <2>1 DEF config_server_evt_cb, node_reset, TypeOK, Counters
  <2>3. FlagIsRight' /\ NeverStranded' /\ BeingForgotten'
    BY <1>1, <1>2, <2>1
    DEF config_server_evt_cb, node_reset, FlagIsRight, NeverStranded, BeingForgotten, InLoop
  <2>4. EachRequestRunsOnce'
    BY <1>1, <1>2 DEF config_server_evt_cb, EachRequestRunsOnce
  <2> QED
    BY <2>2, <2>3, <2>4 DEF IInv
<1>3. CASE provisioning_complete_cb
  <2>1. pending' \in [Files -> Contents \cup {None}]
    BY <1>1, <1>3 DEF provisioning_complete_cb, TypeOK, Files, Contents
  <2>2. TypeOK' /\ Counters'
    BY <1>1, <1>3, <2>1 DEF provisioning_complete_cb, TypeOK, Counters
  <2>3. FlagIsRight' /\ NeverStranded' /\ BeingForgotten'
    BY <1>1, <1>3
    DEF provisioning_complete_cb, FlagIsRight, NeverStranded, BeingForgotten, InLoop
  <2>4. EachRequestRunsOnce'
    BY <1>1, <1>3 DEF provisioning_complete_cb, EachRequestRunsOnce
  <2> QED
    BY <2>2, <2>3, <2>4 DEF IInv
<1> QED
  BY <1>2, <1>3

LEMMA FlashInv == IInv /\ FlashDone => IInv'
<1> SUFFICES ASSUME IInv, FlashDone PROVE IInv'
  OBVIOUS
<1>1. TypeOK /\ Counters /\ FlagIsRight /\ NeverStranded /\ BeingForgotten /\ EachRequestRunsOnce
  BY DEF IInv
<1>2. PICK f \in Files : /\ pending[f] # None
                         /\ flash' = [flash EXCEPT ![f] = pending[f]]
                         /\ pending' = [pending EXCEPT ![f] = None]
  BY DEF FlashDone
<1>3. UNCHANGED <<ram, keys, losses>>
  BY DEF FlashDone
<1>4. flash' \in [Files -> Contents] /\ pending' \in [Files -> Contents \cup {None}]
  BY <1>1, <1>2 DEF TypeOK
<1>5. TypeOK' /\ Counters'
  BY <1>1, <1>3, <1>4 DEF ram, TypeOK, Counters
<1>6. FlagIsRight' /\ NeverStranded' /\ EachRequestRunsOnce'
  BY <1>1, <1>3 DEF ram, FlagIsRight, NeverStranded, EachRequestRunsOnce, InLoop
<1>7. BeingForgotten'
  <2>1. CASE f = "mesh"
    BY <1>1, <1>2, <1>3, <2>1 DEF ram, BeingForgotten, TypeOK
  <2>2. CASE f # "mesh"
    BY <1>1, <1>2, <1>3, <2>2 DEF ram, BeingForgotten, TypeOK
  <2> QED
    BY <2>1, <2>2
<1> QED
  BY <1>5, <1>6, <1>7 DEF IInv

LEMMA NextIInv == IInv /\ [Next]_vars => IInv'
<1> SUFFICES ASSUME IInv, [Next]_vars PROVE IInv'
  OBVIOUS
<1>1. CASE UNCHANGED vars
  <2>1. TypeOK' /\ Counters' /\ FlagIsRight' /\ NeverStranded' /\ BeingForgotten'
    BY <1>1
    DEF IInv, vars, ram, TypeOK, Counters, FlagIsRight, NeverStranded, BeingForgotten, InLoop
  <2>2. EachRequestRunsOnce'
    BY <1>1 DEF IInv, vars, ram, EachRequestRunsOnce
  <2> QED
    BY <2>1, <2>2 DEF IInv
<1>2. CASE Idle
  BY <1>1, <1>2 DEF Idle
<1> QED
  BY <1>1, <1>2, MainInv, KeyInv, MeshInv, FlashInv, ResetInv DEF Next

LEMMA Invariance == Spec => []IInv
  BY InitIInv, NextIInv, PTL DEF Spec

---------------------------------------------------------------------------
(* The theorems *)

\* Every variable keeps its type, the scheduler's queue its size.
THEOREM TypeCorrect == Spec => []TypeOK
<1>1. IInv => TypeOK
  BY DEF IInv
<1> QED
  BY <1>1, Invariance, PTL

\* A device without a network is open for provisioning or about to reset, however
\* keys, mesh events, flash completions and losses of power fall.
THEOREM Reachable == Spec => []NeverStranded
<1>1. IInv => NeverStranded
  BY DEF IInv
<1> QED
  BY <1>1, Invariance, PTL

\* A request that got a slot is carried out once.
THEOREM RunsOnce == Spec => []EachRequestRunsOnce
<1>1. IInv => EachRequestRunsOnce
  BY DEF IInv
<1> QED
  BY <1>1, Invariance, PTL

\* When the device resets the flash has forgotten the network.
THEOREM Forgotten == Spec => ResetForgets
<1>1. IInv /\ DeviceReset => flash["mesh"] = "blank"
  BY DEF IInv, BeingForgotten, DeviceReset, Files, None
<1>2. IInv /\ [Next]_vars => [DeviceReset => flash["mesh"] = "blank"]_vars
  BY <1>1
<1> QED
  BY <1>2, Invariance, PTL DEF Spec, ResetForgets
=============================================================================
