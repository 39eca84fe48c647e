-------------------------------- MODULE App --------------------------------
(***************************************************************************)
(* src/main.c: boot, the main loop with the SDK's event scheduler, the     *)
(* console keys that preempt it, and the node reset, next to the flash the *)
(* mesh stack keeps its configuration in.                                  *)
(*                                                                         *)
(* Keys are handled in the context of the RTT poll timer: a key may fall   *)
(* between any two steps of main().  func4 runs only from the main loop;   *)
(* its exchanges are those of RangeService.  The handler of a key runs to  *)
(* completion, but the flash operations it queues complete later, and the  *)
(* power may go before they do.                                            *)
(***************************************************************************)
EXTENDS Integers

CONSTANTS
  SCHED_QUEUE_SIZE,  \* slots of the scheduler's queue (ten in the code)
  RunLength,         \* exchanges of one func4 (three in the code)
  MaxKeys,           \* bound of the model: keys pressed
  MaxPowerLoss       \* bound of the model: losses of power

ASSUME SizesAssumption ==
  /\ SCHED_QUEUE_SIZE \in Nat \ {0} /\ RunLength \in Nat \ {0}
  /\ MaxKeys \in Nat /\ MaxPowerLoss \in Nat

VARIABLES
  phase,          \* where main() is
  m_device_provisioned,  \* read once, at boot
  provisioned,    \* mesh_stack_is_device_provisioned()
  provisioning,   \* mesh_provisionee_prov_start has been called
  reset_pending,  \* mesh_stack_device_reset has returned: flash is busy
  queue,          \* func4 events in the scheduler, the running one included
  left,           \* exchanges the running func4 still has to make
  event,          \* the event sd_app_evt_wait waits for
  accepted,       \* func4 requests that got a slot since boot
  exchanges,      \* exchanges begun since boot
  flash,          \* what is stored of the mesh and the model configuration
  pending,        \* flash operations not yet complete
  keys, losses    \* counters of the bounds

ram == <<phase, m_device_provisioned, provisioned, provisioning, reset_pending,
         queue, left, event, accepted, exchanges>>
vars == <<ram, flash, pending, keys, losses>>

Files == {"mesh", "model"}
Contents == {"blank", "prov", "corrupt"}
None == "none"

InLoop == phase \in {"execute", "func4", "wait"}
\* rtt_input_enable is the first thing start() does.
KeysEnabled == phase = "start" \/ InLoop

---------------------------------------------------------------------------
(* Boot *)

Booted ==
  /\ phase = "init"
  /\ m_device_provisioned = FALSE /\ provisioned = FALSE
  /\ provisioning = FALSE /\ reset_pending = FALSE
  /\ queue = 0 /\ left = 0 /\ event = FALSE
  /\ accepted = 0 /\ exchanges = 0

Init ==
  /\ Booted
  /\ flash \in [mesh : {"blank", "prov"}, model : {"blank"}]
  /\ pending = [f \in Files |-> None]
  /\ keys = 0 /\ losses = 0

Reboot ==
  /\ phase' = "init"
  /\ m_device_provisioned' = FALSE /\ provisioned' = FALSE
  /\ provisioning' = FALSE /\ reset_pending' = FALSE
  /\ queue' = 0 /\ left' = 0 /\ event' = FALSE
  /\ accepted' = 0 /\ exchanges' = 0

\* mesh_stack_init loads the mesh configuration and clears one it cannot
\* read; model_config_file_config_apply is called only when it succeeded.
mesh_init ==
  LET stackFails == flash.mesh = "corrupt"
      applyFails == ~stackFails /\ flash.model = "corrupt"
  IN
  /\ phase = "init"
  /\ phase' = "start"
  /\ provisioned' = (flash.mesh = "prov")
  /\ m_device_provisioned' = provisioned'
  /\ pending' = [mesh  |-> IF stackFails THEN "blank" ELSE pending.mesh,
                 model |-> IF stackFails \/ applyFails THEN "blank" ELSE pending.model]
  /\ UNCHANGED <<provisioning, reset_pending, queue, left, event, accepted,
                 exchanges, flash, keys, losses>>

start ==
  /\ phase = "start"
  /\ phase' = "execute"
  /\ provisioning' = ~m_device_provisioned
  /\ UNCHANGED <<m_device_provisioned, provisioned, reset_pending,
                 queue, left, event, accepted, exchanges,
                 flash, pending, keys, losses>>

---------------------------------------------------------------------------
(* The main loop *)

\* app_sched_execute takes the oldest event; its slot is freed when the
\* handler returns.
TakeEvent ==
  /\ phase = "execute" /\ queue > 0
  /\ phase' = "func4" /\ left' = RunLength
  /\ UNCHANGED <<m_device_provisioned, provisioned, provisioning, reset_pending,
                 queue, event, accepted, exchanges,
                 flash, pending, keys, losses>>

func4 ==
  /\ phase = "func4" /\ left > 0
  /\ left' = left - 1 /\ exchanges' = exchanges + 1
  /\ UNCHANGED <<phase, m_device_provisioned, provisioned, provisioning,
                 reset_pending, queue, event, accepted,
                 flash, pending, keys, losses>>

\* Mutant: the handler is called once more, its event still in the queue.
FreeNoSlot ==
  /\ phase = "func4" /\ left = 0
  /\ phase' = "execute"
  /\ UNCHANGED <<m_device_provisioned, provisioned, provisioning, reset_pending,
                 queue, left, event, accepted, exchanges,
                 flash, pending, keys, losses>>

FreeSlot ==
  /\ phase = "func4" /\ left = 0
  /\ phase' = "execute" /\ queue' = queue - 1
  /\ UNCHANGED <<m_device_provisioned, provisioned, provisioning, reset_pending,
                 left, event, accepted, exchanges,
                 flash, pending, keys, losses>>

QueueEmpty ==
  /\ phase = "execute" /\ queue = 0
  /\ phase' = "wait"
  /\ UNCHANGED <<m_device_provisioned, provisioned, provisioning, reset_pending,
                 queue, left, event, accepted, exchanges,
                 flash, pending, keys, losses>>

\* The event is latched: one that came before the call ends the wait at once.
sd_app_evt_wait ==
  /\ phase = "wait" /\ event
  /\ phase' = "execute" /\ event' = FALSE
  /\ UNCHANGED <<m_device_provisioned, provisioned, provisioning, reset_pending,
                 queue, left, accepted, exchanges,
                 flash, pending, keys, losses>>

---------------------------------------------------------------------------
(* Keys *)

Press == KeysEnabled /\ keys < MaxKeys /\ keys' = keys + 1 /\ event' = TRUE

\* Keys 1 and 2 publish to the mesh, any other prints the usage.
OtherKey ==
  /\ Press
  /\ UNCHANGED <<phase, m_device_provisioned, provisioned, provisioning,
                 reset_pending, queue, left, accepted,
                 exchanges, flash, pending, losses>>

\* Mutant: the event is put without waking the main loop.
RangingKeyNoWakeup ==
  /\ KeysEnabled /\ keys < MaxKeys /\ keys' = keys + 1
  /\ queue < SCHED_QUEUE_SIZE
  /\ queue' = queue + 1 /\ accepted' = accepted + 1
  /\ UNCHANGED <<phase, m_device_provisioned, provisioned, provisioning,
                 reset_pending, left, event, exchanges,
                 flash, pending, losses>>

\* Mutant: the queue is taken to have no limit.
RangingKeyOverfull ==
  /\ Press
  /\ queue' = queue + 1 /\ accepted' = accepted + 1
  /\ UNCHANGED <<phase, m_device_provisioned, provisioned, provisioning,
                 reset_pending, left, exchanges,
                 flash, pending, losses>>

\* app_sched_event_put: its answer is ignored, a full queue drops the request.
RangingKey ==
  /\ Press
  /\ queue < SCHED_QUEUE_SIZE
  /\ queue' = queue + 1 /\ accepted' = accepted + 1
  /\ UNCHANGED <<phase, m_device_provisioned, provisioned, provisioning,
                 reset_pending, left, exchanges,
                 flash, pending, losses>>

RangingKeyDropped ==
  /\ Press
  /\ queue = SCHED_QUEUE_SIZE
  /\ UNCHANGED <<phase, m_device_provisioned, provisioned, provisioning,
                 reset_pending, queue, left, accepted,
                 exchanges, flash, pending, losses>>

\* Mutant: only the model configuration is cleared.
node_reset_keeps_mesh ==
  /\ pending' = [pending EXCEPT !["model"] = "blank"]
  /\ provisioned' = FALSE /\ reset_pending' = TRUE

\* The mesh stack forgets its configuration at once and its flash later; the
\* reset waits for the flash.  The config server has done the first part
\* itself when it reports CONFIG_SERVER_EVT_NODE_RESET.
node_reset ==
  /\ pending' = [f \in Files |-> "blank"]
  /\ provisioned' = FALSE /\ reset_pending' = TRUE

\* Mutant: the key clears the configuration and does not ask for the reset.
ClearKeyOnly ==
  /\ Press
  /\ provisioned
  /\ pending' = [f \in Files |-> "blank"] /\ provisioned' = FALSE
  /\ UNCHANGED <<phase, m_device_provisioned, provisioning, reset_pending,
                 queue, left, accepted, exchanges,
                 flash, losses>>

ResetKey ==
  /\ Press
  /\ provisioned
  /\ node_reset
  /\ UNCHANGED <<phase, m_device_provisioned, provisioning,
                 queue, left, accepted, exchanges,
                 flash, losses>>

ResetKeyNoEffect ==
  /\ Press
  /\ ~provisioned
  /\ UNCHANGED <<phase, m_device_provisioned, provisioned, provisioning,
                 reset_pending, queue, left, accepted,
                 exchanges, flash, pending, losses>>

---------------------------------------------------------------------------
(* The mesh stack, its flash and the power *)

config_server_evt_cb ==
  /\ InLoop /\ provisioned
  /\ node_reset
  /\ event' = TRUE
  /\ UNCHANGED <<phase, m_device_provisioned, provisioning,
                 queue, left, accepted, exchanges,
                 flash, keys, losses>>

provisioning_complete_cb ==
  /\ InLoop /\ provisioning /\ ~provisioned /\ ~reset_pending
  /\ provisioned' = TRUE /\ provisioning' = FALSE
  /\ pending' = [pending EXCEPT !["mesh"] = "prov"]
  /\ event' = TRUE
  /\ UNCHANGED <<phase, m_device_provisioned, reset_pending,
                 queue, left, accepted, exchanges,
                 flash, keys, losses>>

FlashDone ==
  /\ \E f \in Files :
       /\ pending[f] # None
       /\ flash' = [flash EXCEPT ![f] = pending[f]]
       /\ pending' = [pending EXCEPT ![f] = None]
  /\ UNCHANGED <<ram, keys, losses>>

DeviceReset ==
  /\ reset_pending
  /\ \A f \in Files : pending[f] = None
  /\ Reboot
  /\ UNCHANGED <<flash, pending, keys, losses>>

\* An interrupted operation leaves the old, the new or unreadable data.
PowerLoss ==
  /\ losses < MaxPowerLoss /\ losses' = losses + 1
  /\ Reboot
  /\ flash' \in [Files -> Contents]
  /\ \A f \in Files :
       flash'[f] \in IF pending[f] = None THEN {flash[f]}
                     ELSE {flash[f], pending[f], "corrupt"}
  /\ pending' = [f \in Files |-> None]
  /\ UNCHANGED keys

Idle == phase = "wait" /\ ~event /\ UNCHANGED vars

---------------------------------------------------------------------------
main ==
  \/ mesh_init \/ start
  \/ TakeEvent \/ func4 \/ FreeSlot \/ QueueEmpty \/ sd_app_evt_wait

button_event_handler ==
  \/ OtherKey \/ RangingKey \/ RangingKeyDropped
  \/ ResetKey \/ ResetKeyNoEffect

Next ==
  \/ main
  \/ button_event_handler
  \/ config_server_evt_cb \/ provisioning_complete_cb
  \/ FlashDone \/ DeviceReset \/ PowerLoss
  \/ Idle

\* main() runs when no handler does, and the flash controller and the reset
\* it holds up make progress; keys, the mesh and the power promise nothing.
Fairness == WF_vars(main) /\ WF_vars(FlashDone) /\ WF_vars(DeviceReset)

Spec == Init /\ [][Next]_vars
FairSpec == Spec /\ Fairness

---------------------------------------------------------------------------
(* Properties *)

\* The types, and the scheduler's queue never above its SCHED_QUEUE_SIZE.
TypeOK ==
  /\ phase \in {"init", "start", "execute", "func4", "wait"}
  /\ {m_device_provisioned, provisioned, provisioning, reset_pending,
      event} \subseteq BOOLEAN
  /\ queue \in 0 .. SCHED_QUEUE_SIZE /\ left \in 0 .. RunLength
  /\ accepted \in 0 .. MaxKeys /\ exchanges \in Nat
  /\ flash \in [Files -> Contents]
  /\ pending \in [Files -> Contents \cup {None}]

\* Whatever the order of keys, mesh events, flash completions and losses of
\* power, a device that has no place in a network is waiting for one: it is
\* open for provisioning or about to reset.  (Key 4 and start().)
NeverStranded ==
  InLoop /\ ~provisioned => provisioning \/ reset_pending

\* A controlled reset of the node is never carried out before the flash has
\* forgotten the network: the device comes back unprovisioned.
ResetForgets == [][DeviceReset => flash["mesh"] = "blank"]_vars

\* A request that got a slot is carried out once: RunLength exchanges for
\* every event taken from the queue, whenever the keys were pressed.
EachRequestRunsOnce ==
  exchanges = RunLength * (accepted - queue)
                + IF phase = "func4" THEN RunLength - left ELSE 0

\* A request that got a slot is carried out in the end: no key falls in the
\* gap between the empty queue and the wait and is slept over.
RequestsAreServed == (queue > 0) ~> (queue = 0)

\* After a reset the device is open for provisioning, unless the power goes
\* first: the reset is not lost when the flash is busy.
ResetOpensProvisioning ==
  \A n \in 0 .. MaxPowerLoss :
    reset_pending /\ losses = n ~> provisioning \/ losses > n
=============================================================================
