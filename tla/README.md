# Breadcrumb: a verification development

Breadcrumb is firmware for an nRF52832 with a Decawave DW1000 UWB transceiver.
A device is a node of a Bluetooth mesh: it finds its neighbours by ping, sends
text messages, and measures its distance to three fixed responders over UWB.
These modules model the firmware's own logic (`src/src`) and the DW1000 driver it
carries (`src/deca_driver`), check it with TLC on small instances, and prove the
properties that matter most with TLAPS for every value of the constants.
Paths below are those of the repository under `src/`.

    tlc -config Ranging.cfg RangingRefines      # one of the runs
    tlapm RangingProofs.tla                     # one of the proof modules

## 1. The system

| part | state it keeps | operations | talks to |
|---|---|---|---|
| ranging initiator, `src/uwb_bread.c` | node in turn, a sequence number per node, `rx_buffer`, last distance, counters | `breadcrumb_dwm_init`, `ss_init_run`, `print_distance` | the DW1000, by register reads and writes over SPI |
| application, `src/main.c` | provisioned flag, scheduler queue, flash contents of the mesh stack | boot, main loop, keys 1 to 4, node reset | mesh stack (callbacks), scheduler, initiator (`func4`) |
| neighbour discovery, `src/model_handler.c`, `src/chat_cli.c` | none of its own: everything is in the payloads | `pingNeighbors`, `handle_ping`, `handle_ping_reply` | the other nodes, over the mesh |
| text messages, same files | `chat.buf`, the terminal's down channel | `readBuf`, `cmd_message2`, `handle_message` | the host's terminal, the other nodes |
| event service and transceiver control, `deca_device.c` | copy of the status, `wait4resp`, double-buffer flag | `dwt_isr`, `dwt_starttx`, `dwt_rxenable`, `dwt_forcetrxoff`, `dwt_lowpowerlistenisr`, ... | application callbacks, the chip |
| initialisation, options, clocks, sleep, `deca_device.c` | copy of `SYS_CFG`, `longFrames`, `dblbuffon`, `sleep_mode` | `dwt_initialise`, `dwt_configure`, `dwt_set...`, `dwt_entersleep`, ... | the chip and its always-on block |
| options without a copy, `deca_device.c` | the chip's `PMSC_CTRL0`, `PMSC_CTRL1`, `RF_CONF`, `GPIO_MODE`, which several options share | `dwt_setleds`, `dwt_setlnapamode`, `dwt_setsniffmode`, `dwt_setlowpowerlistening`, the two test modes, `dwt_rxreset`, ... | the chip |
| calibration, `deca_device.c` | those registers, and the variables of the search | `dwt_calcbandwidthtempadj`, `dwt_calcpgcount`, `dwt_calcpowertempadj` | the chip, whose pulse generator it measures |
| tuning and range bias, `deca_params_init.c`, `deca_range_tables.c` | none: constant tables | the register values of `dwt_configure`, `dwt_getrangebias` | the chip; the application |
| OTP programming, `deca_device.c` | the chip's mode registers, a retry counter | `dwt_otpwriteandverify` | the one-time programmable memory |
| register access, `deca_device.c`, `port_platform.c` | none | `dwt_writetodevice`, `dwt_readfromdevice` and the accessors | SPI |
| SPI transfer, `port_platform.c`, `nrf_drv_spi.c` | the control block of a transfer, `spi_xfer_done` | the two rates, `readfromspi`, `writetospi`, `nrf_drv_spi_transfer`, the interrupt handler | the SPI peripheral, by registers and interrupt |

Contexts. `main()` runs at thread level and takes `func4` from the scheduler; all
SPI accesses come from there. Keys, mesh callbacks and timers run in the
lowest-priority interrupt and preempt `main()` between any two of its steps; the
SPI interrupt preempts it too. The DW1000 and the SPI peripheral work beside all
of them. `dwt_isr` is not attached to an interrupt: `decamutexon` and
`decamutexoff` do nothing, and one context calls the driver.

What is hard here, and what must hold:

* **A chip that goes on working between two register accesses.** A response may
  arrive between the read of the status and the read of the buffer, or late, in
  another node's turn. Yet a distance must be of one exchange and one node
  (`RangeIsCoherent`), a frame the service reports must be whole and reported once
  (`FrameIsWhole`, `ReportedOnce`), and the busy-wait, which has no timeout of its
  own, must end (`PollLoopEnds`).
* **Interrupts that meet flags.** `spi_xfer_done`, READY and the two-byte FIFOs
  (`InStep`, `TransferEnds`); a key between the last look at the queue and the
  wait (`RequestsAreServed`).
* **Two copies of one thing.** `SYS_CFG` and the driver's copy of it, over sleep,
  reset and initialisation again (`SettingsLast`, `IsrAgrees`).
* **One register for many options.** A calibration takes the clocks, the sequencing
  and the transmitter's blocks over for up to a second, in registers that hold other
  calls' options, and the processor may be reset in the middle (`OptionsLast`).
* **A search that decides each bit for good after one measurement**
  (`BestIsClosest`).
* **A chip that listens in its sleep** and goes back to sleep as soon as its
  interrupt is cleared, before the frame is read (`AwakeInService`).
* **Power that goes while the flash is busy** (`NeverStranded`, `ResetForgets`,
  `ResetOpensProvisioning`).
* **A mesh that loses, delays and reorders, under addresses that change**
  (`NeighbourIsReal`, `NeverItself`, `NeighboursAreFound`).
* **Bits that cannot be unset**, programmed by pulses that only sometimes work
  (`AnswerIsTrue`, `OnlyTheWordAskedFor`).

`PROJECT.json` lists every component, including those that are left out, and
under "hazards" every such place at its line.

## 2. The modules

### Ranging, RangeService, RangingRefines

`Ranging` is `ss_init_run` next to the chip. An action is one access to the chip
with the computation around it; `step` says which is next:

| step | action | `uwb_bread.c` |
|---|---|---|
| boot | `breadcrumb_dwm_init`, `DwmInitFails` | initialisation, which spins for ever if the chip does not answer |
| idle | `func4` | `main.c`: three calls of `ss_init_run` |
| begin | `StartExchange` | next node, its address and number put in the poll, transmission started |
| poll | `PollStatus` | the busy-wait sees a receive event; `frame_incr` spends the number |
| good, length, read, check | `ClearGoodEvent`, `ReadLength`, `ReadFrame`, `AcceptResponse`, `RejectResponse` | the reception path |
| compute, print | `ComputeDistance`, `print_distance` | timestamps and distance |
| bad, reset | `ClearBadEvents`, `dwt_rxreset` | the error path |
| sleep | `Sleep` | `nrf_delay_ms(RNG_DELAY_MS)` |

A frame is the node its header names, the exchange whose timestamps it carries, and its
length next to a response's (`FrameLengths`); a timestamp is the exchange it was taken
in; a distance is the four timestamps and the node it was computed for. The read copies
as many bytes as the frame has (`Copied`): a long frame nothing, a short one not the
timestamps. The chip sends, hears the response, a foreign frame, an error or nothing, and
may raise an error bit next to a good frame's (`StickyErrors`), which then ends the *next*
exchange too early. All initiators have the same addresses, so it may also hear a
responder's answer to another one (`OtherInitiators`), and nothing in that answer says so:
its timestamps are of the exchange `Elsewhere`. The properties speak of what an answer to
one of our polls leads to (`Ours`).

`RangeService` is what the rest of the firmware relies on: exchanges in turn, and each
yields, before the next is begun, at most one distance, of the node polled. Next to other
initiators that distance may have another exchange's timestamps in place of its own.
`RangingRefines` maps `Ranging` to it by `exchanges <- tx_count`, `open <- Measuring`, and
the node and exchange of `distance`.

### App

`main()` as a phase (init, start, execute, func4, wait), keys as actions that may
fall between any two of its steps, and a flash with operations that complete later.
`node_reset` clears the mesh configuration in RAM at once and in flash later, and
`DeviceReset` waits for the flash as `mesh_stack_device_reset` does. `PowerLoss`
leaves the old data, the new, or unreadable data of any operation under way.
`sd_app_evt_wait` is latched. `func4` makes `RunLength` exchanges, as
`RangeService` has them. The mesh stack, the SoftDevice and the scheduler are not in the
repository; they are modelled from how `main.c` uses them and marked external.

### MeshPing

Every node runs `pingNeighbors`, `handle_ping` and `handle_ping_reply`. Messages are
records with the payload the code sends; the field `ping` is the model's own, to
tell exchanges apart, and no guard reads it. The mesh keeps every message, gives
each to a node once (replay protection) or never, in any order, and loops back a
node's own publications. Nodes leave (`NodeReset`) and come back (`Provision`) under
an address not used before.

### SpiTransfer, SpiTransaction, SpiRefines, MCSpi

`SpiTransfer` starts with the instance uninitialised: `port_set_dw1000_slowrate` initialises it,
`port_set_dw1000_fastrate` ends it and initialises it again, after any number of transfers.
A transfer is one call of `readfromspi` or `writetospi`, through
`nrf_drv_spi_xfer`, the first two bytes, the interrupt handler's `transfer_byte` and
the busy-wait, next to a peripheral that shifts at any moment. `main` makes no step
while `irq` is TRUE. Bytes are named by their place, so that the contents of both
buffers can be compared with what was asked for. `SpiTransaction` is the promise:
the bytes go out in order in one transaction, and the answers come back in their
places. A transfer that is aborted is a prefix of that. `SpiRefines` hides everything
inside a call.

### RegisterAccess

What is between a driver call and an SPI transfer, as operators: the header
(`Header`, 1 to 3 bytes), the single buffer in which the port sends header and body,
the byte order of 16- and 32-bit accessors, the sign of the carrier integrator,
the bound of `dwt_writetxdata`, the fields of the frame control, and the timestamps:
the low word of a time (`Lo32`), a word out of a response (`resp_msg_get_ts`) and
the difference `uwb_bread.c` takes of two (`RoundTrip`), over times that are counted
without end. The chip's reading of a header and of the frame control (`IsWrite`,
`Record`, `Index`, `FileAfter`, `IsAnswer`, `FrameLength`, `DataRate`, ...) is external.
`OnTheWire` is what is left of a length in the `uint8_t` of `nrf_drv_spi_transfer`, and
`WireLength` the length of the transfer that `SpiTransfer` then makes; what a read does not
get is zeros (`Skipped`).

### TextMessage

Key 2, `readBuf`, the publication and `handle_message`, with the host typing between
any two steps. `chat.buf` with the padding behind it is one array; a message is the
bytes up to its first NUL. `copied` is what `handle_message` puts into its buffer.

### Transceiver

`dwt_isr` step by step (the read of the status, the clearing of the frame's events,
length, frame control, the AAT check, the callback, the buffer toggle, then
transmissions, timeouts and errors), the calls the application makes between two
services and from within a callback, and a chip that transmits, receives into one
or two buffers, and acknowledges by itself. The two faults of the chip that the
driver's comments describe are in the model: AAT set for a frame that asked for no
acknowledgement, and WAIT4RESP applied once more after an acknowledgement, which
turns the receiver on (`radio = "ghost"`). `owed`, `unreported` and `awaiting` are
history: what happened and has not been reported.

Low-power listening is there with its own service. `Listen` turns it on and puts the chip to
sleep; the chip wakes, listens and dozes by itself (`lowPower`), and `dwt_lowpowerlistenisr`
turns listening off (`Deactivate`) before it clears the frame's events, because the chip
sleeps again as soon as they are cleared.

### DeviceConfig

A call that touches clocks or the always-on block is a sequence of accesses
(`todo`), so that a reset of the processor, which leaves the chip as it is, can fall
between any two; the calls that write `SYS_CFG` are one step each. `asked` is history:
what the application asked for. `dwt_readtempvbat` has both its modes: the slow one
forces the crystal, the fast one reads the SAR on the PLL and forces nothing.

### ChipOptions, Calibration, MCCalibration

`ChipOptions` has the calls that share registers and of which the driver keeps no copy. A
register is the set of its bits and fields that are on; a call that writes a byte or a half
of it whole is `WritePart`, so that what a neighbour loses is in the model. `asked` is what
the application may count on: a call that takes an option away as a side effect
(`dwt_rxreset` sniff mode, the test modes low-power listening) takes it out of `asked`, and
section 6 names those side effects.

`Calibration` adds `dwt_calcpgcount` and `dwt_calcbandwidthtempadj`. Both save three
registers, each in a variable of its own width (`Saved`), force clocks and blocks (`TakeOver`),
measure (`Sample`, `TryBit`), and write the registers back (`Return`). The processor may be
reset at any step and the chip keeps what it has; the next `dwt_initialise` has to clear
it. `pgcount` is the count of every PG_DELAY at the present temperature; what the chip
answers is a reading (`Readings`), up to `Noise` from it, in the search as in the average.

### RangeBias, RadioConfig, TxPower

Operators only. `RangeBias` is the loop of `dwt_getrangebias` over the eight groups of
tables, in the integers the code counts in; `TablesAssumption` says what the comment there
asks of the tables, and TLC evaluates it over all of them. `RadioConfig` is every register
`dwt_configure` and `_dwt_configlde` write that depends on the configuration, as one record,
with the tables of `deca_params_init.c`, and the chip's reading of `CHAN_CTRL` and `TX_FCTRL`.
`TxPower` is the loop of `_dwt_computetxpowersetting`, which moves the gain by 5 until it is
between 4 and 20, and the change asked for at a temperature.

### Otp

`dwt_otpwriteandverify` with the mode registers, the programming pulse and the read
back. A bit is blank, weak or solid; a pulse may set any of the bits it should, to
either degree; the read margin decides what a weak bit reads as; the supply
may fall at any time.

### Proof modules

`RangingProofs`, `AppProofs`, `MeshPingProofs`, `SpiProofs`, `TextMessageProofs`,
`TransceiverProofs`, `DeviceProofs` for `DeviceConfig` and `Otp`, and `DriverProofs` for
`Calibration` and the modules without state: see section 5.

## 3. The runs

| run | instance | distinct states | what it shows |
|---|---|---|---|
| `ranging` | 3 nodes, numbers modulo 2, 9 polls, sticky errors, other initiators | 1.15 million | three runs of `func4` under every order of frames, errors and timeouts: the schedule, the coherence of distances, refinement of `RangeService`, the end of the busy-wait |
| `ranging_print` | 2 runs | | violated: see section 6 |
| `ranging_long` | 2 runs, long frames | | violated: see section 6 |
| `app` | queue of 2, runs of 3 exchanges, 5 keys, 2 losses of power | 30 746 | a device is never stranded; requests that got a slot are carried out once, and in the end; a reset forgets the network and opens provisioning |
| `mesh_ping` | 3 nodes, 4 addresses, 2 pings, symmetry | 231 983 | what is logged as a neighbour is one, no node finds itself, and all are found when all is delivered |
| `spi` | all pairs of lengths to 5, width 6, aborts | 9 338 | the three parties stay in step, the bytes are right, every call returns |
| `text` | channel 4, buffer 3, 9 characters of two kinds | 98 208 | texts go out whole; what the receiver copies is bounded by the longest text |
| `text_stale` | same | | violated: see section 6 |
| `transceiver` | 5 starts, 4 frames, 1 and 2 buffers, with and without acknowledgement, listening or not | 58 920 | events and frames reported once and whole, the receiver reset after failures, the chip's faults caught without harm, a listener awake for its frame, everyone answered |
| `device_config` | 6 calls, 1 reset of the processor | 1.20 million | the driver's copies agree with the chip, clocks given back, microcode there, no sleep unasked |
| `calibration` | 3 bits, 2 samples, 2 options, 2 calibrations, 1 change of temperature | 3 163 196 | what a calibration or a reset leaves behind is what was asked for; the search finds a count as near as any but for twice the noise |
| `otp` | 2 words of 2 bits | 539 000 | the answer is true, nothing else is programmed, the registers are left as they were, the call returns |

Why the bounds are enough:

* `ranging`: a late or sticky event reaches from one exchange into the next and no
  further. Runs of `func4` start while fewer than MaxTx = 7 polls were made, hence three
  whole runs, nine polls, three of every node: every sequence number, modulo 2, wraps.
* `app`: the queue is full with two requests, five keys fill it, overflow it and
  press the reset as well; the second loss of power may fall in the recovery from
  the first.
* `mesh_ping`: three nodes are a source, a node that is meant and a bystander;
  the fourth address lets one of them leave and come back; two pings may overlap.
* `spi`: lengths to 5 go through the first byte, the second, the FIFO full, and a
  refill; both orders of the two lengths occur. Width 6 lets every length fit.
* `text`: the channel holds one character more than the buffer, as in the build kept
  in `build/` (127 to 100, by the linker map), so that a text fills the buffer and a
  character is left for the keys; nine characters are two keys and two full texts.
* `transceiver`: three frames fill both buffers and toggle once more, five starts
  let a callback start something during the service of an earlier start, and a chip that
  listened receive, sleep and listen again.
* `device_config`: six calls are initialise, configure, an option, the sleep
  settings, sleep, and one call after wake-up; one reset of the processor anywhere.
* `calibration`: three bits make seven delays; the counts fall by four at any two places,
  or by eight at one, and a reading is off by at most one: readings tie where counts do not,
  a near delay reads as out of reach (`MaxDelta` 3 for 300) and one out of reach as near, and
  `BestIsClosest` is violated with any of its three allowances for noise made one less. Two options set before, between
  or after two calibrations share each register in every pair.
* `otp`: addresses are taken modulo the memory's two words, so a call may name the
  same word by two addresses; a bit of the value and a bit that is not in it suffice
  for every property.

Deadlock is checked for `ranging`, `app`, `spi` and `otp`, which never stop.
It is not for `mesh_ping`, `text`, `transceiver`,
`calibration` and `device_config`: there, once the bound on what the users do is reached, nothing
is left to be done.

The type invariants are proved (section 5), for all values of the constants; the runs `app`,
`transceiver` and `device_config` check theirs, too.

Every run checks the `SPECIFICATION` its cfg names; no cfg has a state constraint,
all bounds are guards. Each property of a passing run has a mutant in
`PROJECT.json`: a change of one definition, as a plausible slip in the code would
make it, that violates the property. They stand before the definition they change,
marked "Mutant".

## 4. Fairness

* `ranging`: `WF(ss_init_run)`: the main loop runs whenever no interrupt does.
  `WF(TxDone)`, `WF(RxTimeout)`: a transmission ends, and the chip's frame wait
  timer, which `breadcrumb_dwm_init` programs, ends a reception. Nobody promises a
  frame: `PollLoopEnds` holds when no responder ever answers.
* `app`: `WF(main)`; `WF(FlashDone)` and `WF(DeviceReset)`: the flash controller and
  the reset it holds up make progress. Keys, the mesh and the power promise nothing,
  and `ResetOpensProvisioning` is up to the next loss of power.
* `spi`: `WF(Shift)`: the peripheral shifts what it is given; `WF(irq_handler_spi)`:
  the interrupt is taken; `WF(caller /\ main # "idle")`: `main` goes on, but is not
  obliged to call.
* `transceiver`: `WF(Service)`: `dwt_isr` is called while the interrupt line is up (the
  loop the driver's documentation asks for); the chip ends a transmission, an
  acknowledgement, and a reception by its timeout.
* `otp`: the call goes on, and every pulse ends; the code has no limit on the wait
  for it.
* `mesh_ping`, `text`, `device_config`, `calibration`: safety only. (The calibration's own
  loops are counted and end by construction.)

All fairness is weak and each is on a set of steps that, once possible, stays so
until one is taken.

## 5. The proofs

Every theorem is for all values of the constants under the assumptions named in
the modules, and TLC evaluates those assumptions in each run.

**RangingProofs** (any number of nodes from two, any width of the numbers,
no bound on the runs). The invariant the runs check is not inductive: that a distance is
coherent depends on how old the frame in the chip and the copy in `rx_buffer` can
be.
`IInv == TypeOK /\ RotationInv /\ ChipInv /\ BufferInv /\ RangeIsCoherent`.
`RotationInv` expresses the target, the counters and the poll by division of
`tx_count` (`NodeOf`, `Laps`); `ChipInv` says that a frame seen with the good event
raised is of this exchange or the one before; `BufferInv` carries that to
`rx_buffer`. The step that matters is `FreshFromTarget`: neighbouring exchanges poll
different nodes (`NeighboursDiffer`, whence at least two nodes), so a frame that comes from
the node in turn cannot be of the exchange before. Proved: `TypeCorrect`,
`Schedule` and `EqualService`, and, where every frame has the length of a response
(`FrameLengths = {"whole"}`; section 6 says what happens otherwise), `Coherence`,
`AcceptedIsReceived` and `Refinement`, with other initiators or without. What they say of a
distance is under the condition that the answer was to one of our polls (`Ours`);
`SoleInitiator` says of the case without other initiators that *every* distance is coherent.

**AppProofs** (any queue, any run of exchanges, any number of keys and losses of power).
`IInv == TypeOK /\ Counters /\ FlagIsRight /\ NeverStranded /\ BeingForgotten /\ EachRequestRunsOnce`.
`NeverStranded` is about the main loop only and is not inductive: the flag is read
in `mesh_init` and used in `start`, and the reset key may fall in between. `FlagIsRight` says
that then a reset is on its way. `BeingForgotten` follows a reset through the flash:
from `node_reset` on, the network's file is blank or an operation that blanks it is
under way, and a provisioning cannot complete. Proved: `TypeCorrect`, `Reachable`,
`RunsOnce`, `Forgotten`.

**MeshPingProofs** (any nodes, addresses and number of pings). `Inv` adds to what is checked
that an address names one node for ever (`Owned`, `PingIsOwned`), that every reply
goes back to the source of a ping its sender was meant by (`Answered`), and that where a
node answered itself, the address it answered to is gone (`OwnReplyIsLost`). Proved:
`TypeCorrect`, `LoggedNeighbour`, `NoSelfDiscovery`. `Discovery`, that a ping finds everybody
it is meant for, is a claim about the end of an exchange, yet needs no count of
deliveries: `NothingMissed` says that whatever a node has taken since it joined it has
answered or logged, and a network with nothing in flight is one in which every node has
taken everything.

**SpiProofs** (any lengths, any width of the counters, any number of transfers at either rate).
`IInv == TypeOK /\ Signalled /\ InProgress /\ Finished /\ Lengths /\ Contents /\ Fresh`:
READY is up exactly when a byte waits (`Signalled`), how far the wire and the counters
are (`InProgress`, `Finished`), what an abort may have cut (`Lengths`), and what
stands in the buffers (`Contents`). Proved: `TypeCorrect`, `StaysInStep`, and, when
the lengths fit the counters (`Fits`), `Refinement`: the calls implement
`SpiTransaction`.

**TextMessageProofs** (any sizes of channel and buffer, any number of texts).
`IInv == TypeOK /\ NothingBehind /\ TextIsInBuf /\ Short /\ TextIsWhole /\ CopyIsBounded`;
`NothingBehind` says that the buffer beyond the longest text that can be read is never
written. Proved: `TypeCorrect`, `NothingIsCut`, `CopyBounded`, and `CopyStaysInside`:
the copy fits the receiver's buffer if the channel holds two characters less than it
(it does not in the build: see section 6).

**TransceiverProofs** (any number of starts and of frames, all configurations). The chip acts
between any two steps of `dwt_isr`, so the six invariants the run checks are far from
inductive: the service decides on a status it read earlier.
`IInv == TypeOK /\ EventsAreOwed /\ Pointers /\ Buffers /\ FrameInService /\ Radio /\
Acknowledged /\ SinceRead /\ LowPower`.
`EventsAreOwed` is the account of `ReportedOnce`: an event is owed as long as the chip shows it or
the service still has it to report (`Pending`, by the place in the service), and nothing
else is. `Pointers` and `Buffers` say which buffer holds which of the frames that wait; in
`cbRxOk` the host's pointer is one behind, which is why the callback must not align it. `Radio`
says what may be on next to what waits and what the chip shows: the receiver is on only with no
failure shown, hence reset (`CleanReceiver`); the ghost only with `TXFRS` and `AAT` shown.
`Acknowledged` says why `AAT` is up. `SinceRead` relates the copy of the status to the chip: what
may have changed between the read and the decision. Its part `Failed` came out of an
attempt without it: `dwt_forcetrxoff` clears everything, so a transmission that
ended after the read would be lost unless nothing can be on by then. `LowPower` says that
the chip sleeps only before its frame. Proved: `TypeCorrect`, `FrameWhole`,
`ReportedExactlyOnce`, `ReceiverIsReset`, `GhostCaught`, `Awake`.

**DeviceProofs**, of `DeviceConfig` (any number of calls, sleeps and resets).
`IInv == TypeOK /\ Agreed /\ SleepIsSafe /\ CallsAreOrdered /\ InClocked /\ InUnforced /\ InInitialise`.
The copies and the chip agree between calls (`Agreed`), and what the always-on block would give
back at wake-up is enough (`SleepIsSafe`); neither is inductive by itself, for a call may
be anywhere in its accesses, the chip may sleep and wake, and the processor may be reset in
any of these. So the proof follows the calls: `IsRestOf` says that the accesses still to
be made are the end of the call's program, `Done` how many have been made, and
`InClocked`, `InUnforced` and `InInitialise` which clocks are forced and what has been achieved
after each number of them. Proved: `TypeCorrect`, `SettingsKept`, `IsrAgreement`,
`ClockControl`, `LdeMicrocode`, `Sleeps`.

Of `Otp` (any number of words, any set of bits):
`OtpIInv == OtpTypeOK /\ Phases /\ AnswerIsTrue`; `Phases` ties the mode registers, the pulse
and the shared data registers to the place in the call. Proved: `OtpTypeCorrect`,
`AnswerCorrect`, `ReadsAreSafe`, `OnlyTheWord`.

**DriverProofs**. Of `Calibration` (any number of bits, any count that falls as the delay rises,
any noise, any number of calls and resets). `Closest`: the search tries one delay for each bit and yet
returns one as near as any, but for the noise of two readings; without noise the nearest of
all. Its invariant `SearchInv` holds a window over the delays: the one at its lower end read
above the target and the one at its upper end did not, and the best read no farther than
either (`LoInv`, `HiInv`, in terms of the true counts). What lies outside the window is no
nearer, because the counts are monotone.
`OptionsKept`: `OptionsInv` says that the pins are always as asked for, whatever is
reset; that between two calls the registers are; and that during a calibration the
saved parts together with the parts it does not touch are (`TakenAsAsked`). Before an
initialisation nothing is said of the registers, which it clears. The proof has one case
for each option.
Of `RegisterAccess`, for every record, index and length of the types: what the
chip reads from a header is what the driver put into it (`HeaderIsUnderstood`), a
write changes its bytes and no other (`WriteIsToTheRegister`), a read returns the
register's (`ReadIsOfTheRegister`; both where header and
body are less than 256 bytes, `FitsTransfer`), a frame that is accepted fits the buffer with its
CRC (`FrameFitsTxBuffer`), the fields of its frame control do not run into each other
(`FrameControlIsUnderstood`), numbers survive their bytes (`NumbersSurvive`,
`ResponseTimestamps`), and the carrier integrator has its sign
(`CarrierIntegratorIsSigned`). `RoundTripIsMeasured`: a round trip shorter than
half a word of the clock (2^31 ticks, 33 ms) is measured as long as it is, however
often the clock and its low word wrap in it. The bound matters: the firmware lets the
receiver wait for 65 ms, so it is the responder's firmware, which is not here, that
must answer within 33.
Of `RangeBias`: the loop stops inside its table, at the number of entries below the
distance (`BiasCountsEntries`), and a longer distance is never corrected by less (`BiasGrows`).
Of `RadioConfig`, for every configuration the assertions allow: no table is read
outside it (`LookupsInTables`), the fields of two registers have room
(`FieldsAreUnderstood`), and nothing depends on the configuration before but the two
registers of `Left` (`ConfigureForgets`). Of `TxPower`, for every byte and change:
the new gain is among the best, and the power is the one asked for as long as the gain
needed is at most 20 (`PowerAsAsked`).

Every invariant, action property and refinement that a passing run checks is stated by a theorem
for all values of the constants, under the conditions just named. Only model-checked is what needs fairness, which is out of the
prover's reach: `PollLoopEnds`, `RequestsAreServed`, `ResetOpensProvisioning`, `TransferEnds`,
`EveryoneIsAnswered` and `Returns`.

## 6. What the code does that its comments do not say

Three disagreements are shown by runs that TLC finds violated:

* `ranging_print`: `print_distance(target_node)` (`uwb_bread.c:281`) stands outside the
  test of the response. After a distance to node 1, a foreign frame in the turn of node 2
  makes it print that distance next to node 2.
* `ranging_long`: a frame longer than `RX_BUF_LEN` is not read, and what an earlier
  exchange left in `rx_buffer` is compared, accepted and counted in its place.
* `text_stale`: `readBuf` puts no NUL behind what it read; the tail of an
  earlier, longer text is sent behind a shorter one.

Read in the code and not checked by a run of their own:

* All initiators have the addresses of `uwb_bread.c:98`, and the sequence number is cleared
  before the comparison (`uwb_bread.c:247`): a responder's answer to another initiator is
  accepted, and a distance computed from its timestamps and ours. The `ranging` run has such
  answers; nothing is promised of such a distance but the node next to it.
* `uwb_bread.c:240` copies as many bytes as the frame has. Behind a short frame an
  earlier one's timestamps are still in `rx_buffer`, and behind a very short one its header:
  with `"short"` in `FrameLengths`, `RangeIsCoherent` is violated.
* Keys and text share one channel: a text typed late is read as keys, and `4` resets the
  node (`main.c:239`).
* The lengths of a transfer narrow to 8 bits (`nrf_drv_spi.c:351`). A request of 256 bytes or
  more returns as done after its length modulo 256, while `dwt_writetxdata` documents a
  maximum of 1023, and a read returns zeros for the rest. `SpiTransfer` and `RegisterAccess`
  have it so; `Fits` and `FitsTransfer` are the conditions of their theorems.
* A gain above 20 is corrected by lowering it and raising the attenuation as well: the power
  falls by 5 dB a round where it should stay (`deca_device.c:3446`). An attenuation above 7 runs into
  the byte above it. `PowerAsAsked` has both conditions.
* `dwt_rxreset` writes the upper byte of `PMSC_CTRL0` whole, and sniff mode's `PLL2_SEQ_EN`
  goes with it; the test modes take the sleep after transmission and low-power listening. No
  comment says so.
* `dwt_calcbandwidthtempadj` never tries 0x80, and leaves `PG_DELAY` at the last delay
  tried, not at the best. "Count was lower, BW was lower so increase PG DELAY" stands at
  the branch that is taken when the count was higher.
* At 110 kbps `dwt_configure` leaves `DRX_TUNE4H`, and without a user SFD `USR_SFD`, as it was.
* `handle_message` (`chat_cli.c:57`) copies one byte more than the message into 100
  bytes. The longest text of `CopyIsBounded` is 100 characters, so a text of 99 or 100
  does not fit; the TODO at that line ("figure out a max message length") is open.
* `main.c:324` logs "Device starts as unprovisioned" also when only the model
  configuration could not be read; the device is then still provisioned. `App` has it
  so.
* `deca_device.c:76` says `wait4resp` "was set with last TX start command"; a start
  that expects no response leaves it as it was. `Transceiver` has it so.
* `dwt_softreset` by itself leaves the driver's copy of `SYS_CFG`, and
  `dwt_initialise` leaves `longFrames`. In `DeviceConfig` the first is called by
  `dwt_initialise` only, and `IsrAgrees` speaks of a configured device.
* `deca_device.c:1335` says the mode registers are zero when `_dwt_otpread` is used;
  `dwt_otpwriteandverify` reads in modes 1 and 4. `_dwt_otpsetmrregs` mode 5 writes
  MRA 0, other than the table at 1375.
* `dwt_setlocaldataptr` (line 102) refuses the indices that are valid and takes those
  that are not.
* `dwt_otpwriteandverify` (line 1650) leaves the system clock at the crystal, and the wait for
  the end of a pulse (line 1582) has no limit.
* `access_model_publish_ttl_set` takes a handle and a TTL and is called with one argument
  (`model_handler.c:435`), so the TTL is whatever the register holds.
* The sequence number of a response is ignored (`uwb_bread.c:246`): it could tell an old
  response from this one's, which `RangeIsCoherent` owes to the turns of the nodes.
* `decamutexon` and `decamutexoff` do nothing (`port_platform.c:235`): with `dwt_isr` in an
  interrupt, the read-modify-writes of the driver would be open to it.

## 7. Assumptions and limits

* `Ranging`: the run and the theorems that are not about the schedule take every frame to be
  as long as a response. A responder answers a poll with one response of its own address,
  and never so late that the next poll is on the air (`RNG_DELAY_MS` is 500 ms); answers to
  other initiators come at any moment. Section 6 has what these assumptions leave out.
* `Transceiver`: a frame the chip acknowledges comes when the transmission before it
  has been confirmed, as the driver's comment at the AAT check assumes; the
  receiver that is on by itself hears one frame before it is turned off; callbacks
  start nothing while the chip acknowledges, and `cbRxOk` starts no transmission while
  the last is not confirmed (the API's events tell them); the application stops the
  transceiver with at most one frame not reported; automatic acknowledgement with a
  single buffer is not considered, because the receiver it turns on overwrites the
  frame in service. The interrupt mask is left out (one context).
* `DeviceConfig`: the application asks for its configuration at wake-up (DWT_CONFIG);
  the sleep-counter calls come before `dwt_configuresleep`, as their comments ask; a
  transmission that ends in sleep ends between two calls. Channel tuning is in `RadioConfig`, other
  writes that the driver keeps no copy of are in `ChipOptions`, which has no sleep.
  `dwt_otpwriteandverify` is not among its calls: it leaves the clock forced to the crystal
  (section 6), and `ClocksAreRight` does not hold after it.
* `DeviceConfig` and `Calibration` let the chip keep its state when the processor is reset:
  that is all the driver may count on. `Otp` resets the two together, which holds in this
  application because `breadcrumb_dwm_init` begins with `reset_DW1000()` (`uwb_bread.c:51`); without it
  a reset in the middle of `dwt_otpwriteandverify` would leave a stressed read mode behind.
* `Calibration`: the count falls as PG_DELAY rises, as the search supposes, and the temperature
  stays while a call runs. A reading is off by at most `Noise`, whatever that is; no reading is
  assumed exact, and `BestIsClosest` grants twice that much. An option is a single step: its read and its write are not torn by
  another context or by a reset.
* `Transceiver`, listening: the application touches nothing from `Listen` to the callback,
  and errors while listening raise no event.
* `Otp`: every pulse ends; the low read margin reads solid bits only.
* `MeshPing`: addresses are not given out twice, and replay protection works.
* `App`: an interrupted flash operation leaves old, new or unreadable data of that
  file only.
* The `SpiTransfer` modelled is the path that is compiled: SPI1 without EasyDMA,
  interrupt-driven. The blocking mode and the SPIM branches are configured out.

Not modelled: the floating-point distance formula (only the timestamps it combines), the
conversions of `dwt_getrangebias` to and from metres, logging, LEDs of the board and
identification; options of the chip that are one write to a register of their own (filter
addresses, antenna delays, GPIO direction and value, preamble timeout, receive delay,
snooze time); diagnostics, event counters, the crystal trim and the conversions of temperature
and voltage, which only copy registers; the writes of `dwt_configure` that are the same for
every configuration; set-up of pins; the
handlers of the chat sample that are empty or unused (presence, private messages,
replies); `nrf_drv_common.c`, which is configured out; the mesh stack itself, which is not in
the repository.

By lines, most of the repository's own C cannot be modelled because it is not behaviour.
`include/sdk_config.h` alone is half of it, 12 854 lines of configuration macros, of which the
handful that matter (queue size, SPI1 without EasyDMA, priorities) are in the modules they
affect. Another 3 700 lines are the headers `deca_device_api.h`, `deca_regs.h` and `nrf_drv_spi.h`: prototypes,
comments and register addresses. `deca_range_tables.c` is mostly tables, and
`nrf_drv_spi.c` half branches for a peripheral this build does not use. What
is left, the functions of `src/src` and of the driver, is modelled but for the list above.

## 8. Plan

1. What liveness rests on, as far as it can be proved: the measure that every step of the
   fair actions lowers, and that while it is not zero one of them is possible, with its
   guard written out, for `SpiTransfer`, `Transceiver` and `Otp`.
2. `Ranging` over `Transceiver`: the initiator's accesses as the driver's calls, and
   the chip of the one as an abstraction of the chip of the other.
3. `ChipOptions` over sleep and wake-up, with the always-on block of `DeviceConfig`.
4. The presence cache of the chat client, if the firmware comes to use it.
