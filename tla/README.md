# A verification of the W6100/RP2350 firmware

The repository holds firmware for RP2350 boards with a W6100 Ethernet chip: a kitchen light
with a radar sensor (`kitchen_pwm`), LED strips for stairs and for a tree (`stairs_ws2815`,
`tree_ws2815`), a CO2 meter (`scd30_meter`) and a tool that writes a configuration
(`layout_seeder`), over shared code in `common/` and vendored libraries. This directory holds
TLA+ models of it, the TLC configurations that check them on small instances, and TLAPS proofs
of what holds for every instance. `PROJECT.json` maps every definition to the lines it stands
for. Paths below are relative to the source tree.

Contents: 1 the system, 2 the models, 3 the runs, 4 the proofs, 5 what was found,
6 what is left out, 7 the plan.

## 1. The system

One core, no operating system. `main()` initialises, then calls its services in turn for ever
(`kitchen_pwm/main.c:116`): `tcp_cli_service`, `efu_server_poll`, `ddp_loop`,
`dbg_server_poll`, `pwm_api_poll`, `rd03d_api_poll`, `rd03d_drv_poll`. The stairs and the tree
call the first three and `run_periodically_ws2815_tasks`. Nothing preempts a service but
interrupts: the W6100's INTn line, DMA completion, alarms and a 1 ms timer. So the difficult
behaviour lies between a service and an interrupt, between a service and the outside (TCP
peers, the flash, a sensor, the power supply), and across many polls.

| Component | State | Operations | Interacts with |
|---|---|---|---|
| EFU update server, `common/efu/efu_update.c` | `efu_srv` (state, header, counters, CRC), two flash slots, boot choice | `efu_server_init`, `efu_server_poll` | TCP client (`efu_upload.py`), flash, boot ROM, `partition.c` |
| DDP receiver, `common/network/network.c` | slot ring, pending flag, W6100 interrupt and edge | `udp_ddp_init`, GPIO handler, `ddp_loop`, `process_udp_ring` | UDP senders, INTn interrupt, LED drivers |
| CLI, `network.c`, `telnet.c` | socket state, `last_rx_time`, line buffer | `tcp_cli_service`, commands | TCP client, flash configuration, PWM, patterns |
| Flash configuration, `common/flash/flash_cfg.c` | three copies: sector, current `gen_cfg[0]`, edited `gen_cfg[1]` | `config_init`, `_save`, `_default`, `_recovery` | CLI, network start-up, power loss |
| Debug server, `common/network/dbg_api.c` | one registered client, time of its last message | poll, send | UDP client, radar |
| PWM light, `kitchen_pwm/pwm_api.c`, `pwm_drv.c` | target, current, last colour written | `led`, `freq`, poll | CLI, PWM slices |
| Radar driver, `kitchen_pwm/rd03d_drv.c` | UART FIFO, byte ring, last frame | poll, parser, `rd03d_drv_get_ready` | UART, tracking |
| Radar tracking, `kitchen_pwm/rd03d_api.c` | three tracks, presence | `rd03d_api_poll` | driver, CLI |
| Stairs LEDs, `ws2815_control_dma_parallel.c` | frame buffer, bit planes, semaphore, alarm, schedule | pattern and output tasks, DMA handler | 1 ms timer, CLI, DMA, LEDs |
| Tree LEDs, `ws2815_control_dma.c` | frame buffer, latch deadline | pattern and output tasks | timer, DMA, LEDs |
| VL53L8CX, SCD30 meter, layout seeder | - | blocking reads, one write | sensors, flash |

What makes each correct, and what is hard about it:

* **EFU.** Power may fail at any time, the client may leave, damage or split the stream, and the
  flash programs whole pages only. Some slot must always boot; the board must change over only to
  a whole image; a commit must be preceded by a matching CRC of what is in flash; each reply must
  mean what the client takes it to mean; the port must come back after every broken session,
  as far as a code without timeouts can bring it back; and nothing of one session may leak into
  the next, although no single place clears everything.
* **DDP receiver.** A level-driven interrupt line with an edge-triggered input, a handler that
  fills slots which the main loop scans at that moment, a flag that is lowered before the scan.
  Datagrams must be shown whole, in order and not be stranded, and the line must never stay low
  with nobody to look.
* **Flash configuration.** Three copies and two ways to make the MAC unique, over firmware whose
  defaults change and a save that is an erase and then a program. What a save stored is what
  later starts must run; the MAC must stay the board's own.
* **Radar.** A ring of 63 usable bytes, little more than two frames, drained one frame a poll;
  no checksum; headers may occur in payloads. Only whole frames may come out, and the stream must
  be found again. Tracking is a matter of many frames: presence must rest on a track seen
  lately, must go when the room empties and must come when somebody stays.
* **Stairs LEDs.** The planes the DMA reads are rewritten before anyone waits for the DMA; the
  schedule catches up when it was late. Transfers must not run into each other, and a frame must
  be shown whole.
* **Tree LEDs.** One buffer, drawn into and sent from, with nothing between the two but the
  schedule; a latch deadline that counts from the end of the DMA while the PIO is still shifting;
  darkness that is drawn once and then waits for a counter. Frames must be shown whole, and the
  LEDs must go dark when told to.
* **CLI.** One client at a time; the service reads the socket's status, then counts the bytes,
  then acts, while the client moves. A client may be sent away only for silence, must be answered
  as long as it waits its turn, and must not keep the port for ever.
* **PWM light.** Three copies of the colour: asked for, current, written last. What the slices
  drive must be what `pwm status` reports.
* **Debug server.** One registered client, a timeout looked at only when a frame is sent, and a
  stream of headers in the chip that must not be lost. Frames must go to the host that wrote last,
  and to nobody once it is silent.

## 2. The models

| Module | Models | Abstract specification |
|---|---|---|
| `EfuServer` (`MC_EfuServer`, `EfuServer_proofs`) | server, slots, boot ROM, client | `OtaUpdate` |
| `UdpRing` (`MC_UdpRing`, `UdpRing_proofs`) | W6100 socket, handler, ring, main loop | `FrameFeed` |
| `FlashConfig` (checked in `MC_Telnet`; `FlashConfig_proofs`) | sector, two RAM copies, commands, power loss | `ConfigStore` |
| `TcpCli` | command line socket, its service, client and clock | - |
| `PwmLight` | three copies of the level, the slice, `freq` | - |
| `Telnet` (`MC_Telnet`, `Telnet_proofs`) | the kitchen board from its telnet port: `TcpCli`, `FlashConfig` and `PwmLight` composed | its three parts, and `ConfigStore` |
| `Rd03dRing` (`MC_Rd03dRing`, `Rd03dRing_proofs`) | UART FIFO, ring, parser, take-over of a frame | - |
| `Rd03dTracks` (`MC_Rd03dTracks`, `RadarFeed_proofs`) | tracks, matching, presence | - |
| `DbgClient` | debug port, its stream, the registered client | - |
| `RadarFeed` (`MC_RadarFeed`, `RadarFeed_proofs`) | what a radar frame does: `Rd03dTracks` and `DbgClient` composed | - |
| `StairsFrame` (`MC_StairsFrame`, `StairsFrame_proofs`) | schedule, transform, semaphore, DMA, alarm, LEDs | - |
| `TreeStrip` (`MC_TreeStrip`, `TreeStrip_proofs`) | schedule, drawing, DMA, PIO, latch deadline, LEDs | - |

A component's module holds its constants with named assumptions, its actions, and its
properties; `MC_` modules give the instances, `_proofs` modules the theorems. Definitions whose
name has a suffix (`Other_Self`, `MayStart_Always`) and whose comment begins with "Slip" are
plausible mistakes in that place of the code. No action uses them; substituting one for its
original makes TLC violate the property that `PROJECT.json` ("mutants") names with it, which
shows that the property depends on the code.

**EfuServer.** Data is counted in units. A unit carries where it came from (`<<"img", i, k>>`:
the k-th of image i), so that the content of a slot says which image it holds. The CRC of a
sequence is the sequence: collisions are outside the model. `pc` is where the main loop is in
`efu_server_poll`: `poll` at the `switch` over the socket status (`PollReboot`,
`PollCloseWait`, `PollEstablished`, `Open`), `handle` with a chunk in `buf` (one action for each
branch of the state machine: `HeaderPartial` .. `CrcGood`), `erase` inside the erase. Erasing is
several steps, because it takes seconds and power may fail in it; a program of at most a buffer
is one. `Program` does what the flash does: whole pages, the tail of the last page filled with
what follows in RAM, a wrap inside the page at an unaligned offset. `Bootable` is the boot ROM's
view of an unhashed image: first and last block there. `disconnect()` is a place of its own:
`Disconnect` sends the FIN, and the loop stays at `pc = "disconnect"` until the socket is closed
(`Disconnected`). `FIN_WAIT_1` and `FIN_WAIT_2`, one status to the code, tell whether the peer has
acknowledged the FIN; from then on the chip no longer times out. The client (`Connect`, `Segment`,
...) sends what `efu_upload.py` sends, waiting for `HD` and `OK` unless `eager`; one unit of its
stream may be damaged, and a client that `leaves` may close, be lost, or fall silent.

**UdpRing.** `Arrive` sets RECV and lets the INTn line fall if it was high; only a fall latches
`edge`. The handler is three steps (read, clear, leave), and runs to its end before the main loop
goes on, hence the guard `isr = "off" /\ ~edge` of each main loop step: on this one core an
interrupt that is pending is served before the next instruction of the loop. A datagram is its
number; a copy is recorded as the pair of the datagrams its header and its payload came from, so
that a slot overwritten in the middle of a copy shows.

**FlashConfig.** The sector holds a configuration, `Blank`, or `Torn`. `gen_cfg` are the two
copies in RAM. `ConfigInit` is all of `config_init` with its three paths; `EraseSector` and
`ProgramSector` are the two halves of `config_save`. `Remains` gives what a power failure in
either leaves.

**TcpCli.** What a line says is up to `Telnet`; here a line is counted (`rx`). A pass of the
service is three steps, as in the code: status (`Greet`, `CloseWait`, ...), bytes
(`ReceiveLine`, `NothingSent`), and the eviction decided on them (`Evict`); client, network and
clock move in between. `recv()` takes what the buffer holds and only its first line is a command,
so two lines sent together count as one. `disconnect()` is a place (`pc = "disconnect"`) in which
the main loop stays until the peer has closed as well or `Sn_IR_TIMEOUT` says that the FIN was
never acknowledged; a peer that acknowledges it and does not close leaves it there.
`client` says whether a client waits for the prompt before each line; `silent` is the time since
it connected or sent, which the board does not know and `last_rx_time` (`idle`) stands for.

**PwmLight.** `led` sets target and current at once, `pwm_api_poll` writes the slice when the
target is not what was written last, `freq` initialises every channel to dark unless the divider
is out of reach. `Gamma` is `linear_to_pwm`. `blanked` remembers that `freq` has darkened the
slice since it was written.

**Telnet.** EXTENDS `FlashConfig` and takes `TcpCli` and `PwmLight` as instances over its
variables. `handle_command` is one action for each kind of command (`Edit`, `Save`, `Led`,
`FreqCommand`, `Other`, `NoReply`, `ExitCommand`), each with its reply; `Save` spans three steps,
through which power may fail. `HasAddress` couples the parts back: the socket opens only if the
board came up with an address that is not 0.0.0.0.

**Rd03dRing.** Each byte carries its frame, its position and what it looks like to the parser
(`h1`, `h2`, `t` or data). Scaled by keeping the relations: a frame is 2 header, 3 payload and 1
tail units (4, 24, 2 in the code); the ring of 16 keeps 15 = 2 x 6 + 3, as the ring of 64 keeps
63 = 2 x 30 + 3; the FIFO of 7 is a little over a frame, as 32 is over 30. `Parse` is one call of
`try_parse_frames` with its loop; the loop is written as what it comes to: the first good
candidate, or as much noise dropped as the loop drops.

**Rd03dTracks.** One action per frame that is ready (`Frame`) and one for a poll without one
(`Quiet`). Positions are numbers on a line, the distance is their difference; ages saturate above
`stale`. `Scene` gives what the sensor may report, in its three slots.

**DbgClient.** `recvfrom()` of the W6100 reads a header, then data. A datagram that is longer than
`dbg_buf_frame` leaves its rest in the chip, which the next call takes for a header: `synced`
becomes FALSE, and from then on whatever is read registers some address (`PollRest`).

**RadarFeed.** `rd03d_api_poll` with both its effects: `FeedFrame` sends the copy (with the look
at the timeout) and updates the tracks; `FeedQuiet` is a period without a frame.

**StairsFrame.** `main` is where the loop is, down to the pixel under transformation, between
whose clearing and setting the DMA may read it. `Tick` is the millisecond counter; the two tasks
keep their distance to it (`due_patt`, `due_loop`). `Fragment` is a pixel read by the DMA,
`DmaComplete` the handler, `Latch` the LEDs (280 us without data), `DelayComplete` the alarm
(400 us). `behind` remembers whether the loop was ever more than `Slack` late.

**TreeStrip.** As `StairsFrame`, with one buffer: `DrawPixel` writes what `ReadWord` sends.
`DmaComplete` is the end of the DMA; `Latch` (the PIO drained, then `Low` microseconds without
data) and `DeadlineReached` both count from it, and their order follows from the constants
`Deadline`, `Drain` and `Low`. A word that comes after the strip is full runs through it. `counter`
halves the pattern rate, `zero_counter` spaces out the drawing of darkness.

## 3. The runs

Every run is `tlc -config <run>.cfg <module>`; together they take six or seven minutes.

| Run | Checks | Result |
|---|---|---|
| `EfuServer_faults` | 4 invariants, 2 action properties, refinement of `OtaUpdate` | holds, 317,729 states |
| `EfuServer_live` | `ListensAgain`, `HonestUpdateLands` | holds, 39,445 states |
| `EfuServer_unaligned` | `CcMeansStored` | violated (finding 1) |
| `EfuServer_damaged` | `RunsWholeImage` | violated (finding 2) |
| `UdpRing_backlog` | 3 invariants, `Delivered`, refinement of `FrameFeed` | holds, 6,458 states |
| `UdpRing_early` | `NeverDeaf` | violated (finding 3) |
| `Telnet_sessions` | 4 invariants, `EvictsOnlyIdle`, `PortIsFreed`, refinement of `ConfigStore` | holds, 142,985 states |
| `Rd03dRing_overrun` | 2 invariants, 3 temporal properties | holds, 105,666 states |
| `RadarFeed_pauses` | 3 invariants, `FeedsLastWriter`, 3 liveness properties | holds, 148,341 states |
| `Rd03dTracks_one` | `StayingIsNoticed` | violated (finding 4) |
| `StairsFrame_late` | 3 invariants, `GoesDark` | holds, 1,114,321 states |
| `TreeStrip_frames` | `TypeOK`, `EachFrameShown`, `DrivenGoDark` | holds, 786,982 states |

What they show, and why the bounds suffice:

* **EfuServer_faults.** Four images: one of a page and a half, one that fills the slot exactly,
  one too large, an empty one; a slot of two pages; a buffer of one page. Damage may hit nothing,
  the stamp, the first unit of the image, a unit in its middle, or the place where short images
  have their CRC and the one that fills the slot its last unit. Two sessions let anything left
  over by one meet the next, two power failures hit an update and its repetition. Clients may
  connect during initialisation (`EarlyConnect`) and the target lookup may fail. Chunks come in
  whole pages (`PageFramed`), because of finding 1. Refinement of `OtaUpdate` says that all this
  amounts to rewriting the other slot with anything and changing over to it when it holds a whole
  image; a slot that only looks bootable to the boot ROM (`Suspect`) takes a power failure to be
  run. `RunsOneImage` says what may be run then: one image that was sent to its end, damaged
  between its ends at worst. That it is whole even then is finding 2.
* **EfuServer_live.** The same server under fairness, no power failures (a board whose power
  fails for ever makes no progress) and no early client (it is never served, see below).
  `ListensAgain` has one exemption, `HeldByPeer`: a peer that falls silent while the server waits
  for its data, or acknowledges the FIN and never closes, holds the port for good, since
  `efu_server_poll` has no timeout and the socket no keepalive.
* **UdpRing_backlog.** A ring of four, up to three datagrams waiting, one arriving during a scan,
  nine in all, one empty and one no longer than a header. Nine datagrams go round the ring more
  than twice. These bounds are the edge: with `Backlog = 4` or `ScanArrivals = 2` TLC finds
  `InOrder` and `LosslessFeed` violated, because a full ring's oldest slot is scanned last
  and overwritten first. `LosslessFeed` and `Delivered` count on a datagram not arriving
  before the last interrupt is served (`hurried`); `InOrder` does not.
* **Telnet_sessions.** One field, three addresses with 0.0.0.0 among them, one default network
  (the proofs take any number of each); two light levels, a frequency on each side of the
  divider's range. The timeout is two ticks, so that a timer left over from an earlier session may
  be new, half through or over when the next client connects; the buffer holds one line and two
  may wait, so that lines are lost. Sessions, saves and power failures are not counted: the state
  space is finite without. `EvictsOnlyIdle` compares what the board remembers with what the client
  did; `PatientIsHeard` is what the lines lost to `recv()` leave true; `PortIsFreed` goes through
  `disconnect()`, the one place where the whole board waits for a peer, and exempts only the peer
  that acknowledges the FIN and never closes (`HeldByPeer`) and the address 0.0.0.0.
* **Rd03dRing_overrun.** Three frames, one taken by the ring while one overruns it and one after;
  losses in the UART FIFO until the second. Two payloads, one with half a header and a tail, one
  with a header. With a payload that is a tail followed by half a header and a loss in the wrong
  place, a frame is put together from two that looks like one, and `LastFrameShown` fails: the
  protocol has no checksum, so this is a limit of the sensor rather than of the parser.
* **RadarFeed_pauses.** People that come, go and swap slots, pauses of up to three periods. The
  tuning is small and keeps `conf_inc >= conf_off`, under which one frame makes a track valid.
  The default tuning (divided by five) does not, which is finding 4. Two hosts write to the debug
  port, with datagrams that fit its buffer and longer ones, two of them in the chip at most; the
  timeout is one period, so a host is served, on the brink, or forgotten.
* **StairsFrame_late.** Two pixels (one may be old and the other new), two frames besides dark,
  patterns every 7 units and output every unit of 2 ms (10 and 1 in the code: 20 and 2 ms); a
  transfer with its delay is over within 2 units (1.8 + 0.4 ms in the code, whatever the phase of
  the tick). The loop may be up to two pattern periods late. `ShowsOneFrame` is proved for a loop
  that is in time by `InTime` (see 4), here at most one unit late; TLC finds it to hold with two
  units as well and to fail with three, so the proof's margin is a unit wider than it need be.
  Seven units leave less room than ten, but what the margin pays for is seen. TLC looks for
  deadlocks too, so the wait for the semaphore always ends.
* **TreeStrip_frames.** Two pixels, two frames besides dark, all orders of `set` and `max`,
  patterns every two units and output every unit; the three times in microseconds are the
  code's: `Deadline` 350, `Drain` nine words of 24 bits at 1 MHz, 216, `Low` 280. So the deadline
  is reached before the LEDs have latched, and `EachFrameShown` holds only because the schedule
  leaves more time than the deadline. The loop may be up to three units late for output and
  half a period for a pattern, and then catch up;
  `behind` exempts `EachFrameShown` from it, `DrivenGoDark` holds all the same.

`CHECK_DEADLOCK FALSE` is set for EfuServer and UdpRing only: sessions, power failures and
datagrams are bounded, and a poll that finds nothing to do is not a step, so their behaviours end
when the bounds are used up.

The violation runs open one thing each that the passing runs keep closed: `EfuServer_unaligned`
lets segments end anywhere and clients pipeline, `UdpRing_early` lets a datagram arrive during
set-up, `Rd03dTracks_one` takes the default tuning; `EfuServer_damaged` opens nothing, but asks for
more than `EfuServer_faults` does.

**Fairness.** The main loop polls for ever, so each of its groups of steps is weakly fair
(`WF`): in EfuServer those of the poll, of the chunk and of the CRC, in UdpRing set-up, handler
and loop. The interrupt handler and the DMA are hardware driven, and fair likewise. Strong
fairness is assumed once: of `Open`, since a client that slips into the short gap in which
`listen()` fails must come at that very moment, time after time. On the client's side: a client
that stays does what `efu_upload.py` does, it sends what it may and closes when the server has
closed; of one that `leaves` nothing is assumed. Besides, the chip does not wait for ever for the
acknowledgement of a FIN: it is acknowledged, or `Sn_IR_TIMEOUT` comes (`FIN_WAIT_1`, `LAST_ACK`).
For the peer's own FIN (`FIN_WAIT_2`) it does wait for ever, and so does the code.
In Rd03dRing the sensor goes on sending until its frames are used up; in Rd03dTracks frames and
quiet polls go on for ever; in StairsFrame and TreeStrip timer, main loop and DMA go on for ever.
`TelnetFair` has the main loop and the clock weakly fair, `Listen` strongly (as `Open` above: a
`listen()` fails only if a client comes at that very moment), and the acknowledgement of a FIN or
`Sn_IR_TIMEOUT`, as in EfuServer. Of the CLI's clients nothing else is assumed: they may go on, fall
silent, vanish or never close; what that costs is the exemption `HeldByPeer` of `PortIsFreed`.
`FeedFair` has the poll of the debug port and the frames weakly fair, and the passing of a period
strongly; `[]<>(rx = <<>>)` says that hosts do not for ever write faster than the loop reads,
without which no period ends.

## 4. The proofs

TLAPS (`tlapm <module>_proofs.tla`) proves these for every value of the constants that satisfies
the named assumptions of the module. Each follows from an invariant `IInv` that is inductive,
which the properties themselves are not; TLC checked each `IInv` first.

| Theorem | States |
|---|---|
| `TypeCorrect`, `AlwaysBootable`, `RunningSlotSafe`, `RefusalIsFinal`, `ChunksHandled`, `ChecksumFresh` (EFU) | `TypeOK`, `NeverBricked`, `RunningSlotUntouched`, `ErMeansNoReboot`, `ChunkHasHandler`, `FreshChecksum` |
| `AcceptedMeansStored`, `SwitchesByCommit`, `AlwaysOneImage`, `ImplementsOtaUpdate` | `CcMeansStored`, `SwitchOnlyByCommit`, `RunsOneImage`, `FailSafeUpdate` |
| `ConfigTypeCorrect`, `MacStaysUnique`, `ConfigurationKept` | `TypeOK`, `UniqueMac`, `KeepsConfiguration` |
| `TracksAreFresh`, `PresenceIsBacked`, `TracksTypeCorrect` | `NoStaleTrack`, `PresenceHasTrack`, `TypeOK` (Rd03dTracks) |
| `NoTargetTwice` | the matching of targets to tracks exists and gives no target away twice |
| `RingTypeCorrect`, `WholeFramePublished`, `FramesPublishedInOrder`, `StartedFramesKept` | `TypeOK`, `PublishedIsOneFrame`, `InOrder`, `ParserKeepsFrames` (Rd03dRing) |
| `StreamInOrder` | the invariant `InStream` of the byte stream from the sensor to the parser |
| `PartsImplemented` | every behaviour of `Telnet` is one of `FlashConfig`, of `TcpCli` and of `PwmLight` |
| `BoardMacStaysUnique`, `SessionsKeepConfiguration`, `TelnetTypeCorrect`, `OnlyIdleEvicted`, `PatientHeard`, `LightShowsCurrent` | `UniqueMac`, `KeepsConfiguration`, `TelnetTypeOK`, `EvictsOnlyIdle`, `PatientIsHeard`, `LightIsCurrent` (Telnet) |
| `FeedKeepsTracking` | every behaviour of `RadarFeed` is one of `Rd03dTracks` and of `DbgClient` |
| `FramesGoToLastWriter`, `FeedTracksAreFresh`, `FeedPresenceIsBacked`, `FeedTypeCorrect` | `FeedsLastWriter`, `NoStaleTrack`, `PresenceHasTrack`, `FeedTypeOK` (RadarFeed) |
| `UdpTypeCorrect`, `ReceiverHears` | `TypeOK`, `NeverDeaf` (UdpRing) |
| `FramesInOrder`, `ImplementsFrameFeed` | `InOrder`, `LosslessFeed` (UdpRing) |
| `StairsTypeCorrect`, `TransfersKeptApart`, `WholeFrames` | `TypeOK`, `OneTransferLatched`, `ShowsOneFrame` |
| `StripTypeCorrect`, `EveryFrameShown` | `TypeOK`, `EachFrameShown` (TreeStrip) |

Some theorems have a hypothesis besides; each is a formula over constants, named in the proof
module, and each is satisfied by the run of that component:

| Hypothesis | Theorems | What it says, and who keeps it |
|---|---|---|
| `WholePages` (EFU) | `AcceptedMeansStored`, `SwitchesByCommit`, `AlwaysOneImage`, `ImplementsOtaUpdate` | The client waits for its answers and segments are multiples of a page; `EFU_BUF_SIZE` is one too (2048, `efu_update.c:22`). `efu_upload.py` keeps it, TCP need not: without it finding 1. |
| `KeepsUp` (UdpRing) | `FramesInOrder`, `ImplementsFrameFeed` | Fewer datagrams wait than the ring has slots, and no more than one comes during a scan. The sender's pace; nothing in the code enforces it, and beyond it frames are lost. |
| `Unmistaken` (Rd03dRing) | `WholeFramePublished`, `StartedFramesKept` | No payload shows a header with a tail in the next payload where the parser would look for it. The protocol has neither checksum nor escapes, so only the sensor can keep it. TLC finds both properties violated with the payloads `<<"d","h1","h2">>` and `<<"t","d","d">>`; `InOrder` holds all the same and needs no hypothesis. |
| `InTime` (StairsFrame) | `WholeFrames` | `2 period_loop + 2 Slack + Span < period_patt`. In the code, in ms, 4 + 2 Slack + 3 < 20: the loop may be up to 6 ms late. |
| `InTime` (TreeStrip) | `EveryFrameShown` | `period_loop + 2 Slack + Span < 2 period_patt`, as every second call draws. In the code 2 + 2 Slack + 15 < 40 (591 LEDs): the loop may be up to 11 ms late. |
| readable flash | `ConfigurationKept`, `SessionsKeepConfiguration` | A failed read loads the default. |
| no early datagram | `ReceiverHears` | No datagram during set-up: without it finding 3. |

* **EfuServer_proofs.** Any images, sizes, page, buffer, damage, segmentation, lookup failures,
  pipelining clients and number of power failures (`SizesAssumption`, `ChoicesAssumption`).
  `IInv` adds to the types: `Targeted` (in every state that writes, `write_addr` is the other
  slot), `Stage` (which control state goes with which state of the server and socket), `LastWord`
  (what was answered last, against the state) and `RunningBoots` (the running slot boots).
  `NeverBricked` alone is not inductive: erasing a slot could take away the last good one unless
  it is known that the slot erased is not the one that runs. That the connect branch leaves a
  clean CRC rests on `Stage`: every way back to LISTEN leads through `efu_server_init`.

  What the slot holds is a second invariant, `Content`, one part per stage of a transfer: the
  chunk at hand, the CRC computed and the units programmed are each the part of the client's
  stream that `total_written` has counted (`WriteStage`), then the trailer is (`CrcStage`), and an
  accepted image is in the slot the board will switch to (`Kept`). Three lemmas carry
  it: programming erased flash from a page boundary stores the data and leaves what is below alone
  (`ProgramContent`), sums of whole pages are whole pages (`PageSum`), so every chunk but the last
  ends at a boundary, and a client that waits has sent no more than its answers allow
  (`MaySendRange`), so no trailer is in a chunk of the image. Damage may be anywhere in
  the stream. `BootableIsUpload` follows the slots through power losses: what a stream leaves has
  its last unit only when all of it was stored (`StoresUpload`), so a slot that looks bootable was
  filled to its end. `WholeTillPowerLoss` is what the CRC adds: the board itself changes over only
  to an accepted, hence whole image (`CommitIsWhole`). `AlwaysOneImage` is the two together. The
  refinement of `OtaUpdate` maps every program and erase to a rewrite of the other slot, the
  reboot to a change over and a power loss to the boot ROM's choice. One assumption is
  needed only here, `UnsentAssumption`: what stands for erased or mangled flash is never sent.
* **FlashConfig_proofs.** Any fields, addresses, defaults. `IInv` adds `StoredMac` (a sector with
  a good CRC holds the own MAC: without it a load could bring a common one back) and `OffIsZero`.
  `ConfigurationKept` is the refinement of `ConfigStore`, step by step, under the additional
  assumption that flash can be read; with failing reads it is false, since a failed read loads
  the default.
* **RadarFeed_proofs, the tracks.** Any scene and tuning. `IInv`: every track is sound (valid only
  when it was seen no longer than `stale` before) and presence comes with a held track. The choice
  of track and target is left arbitrary by that argument. The types do need it: `Matching` is a
  CHOOSE, and `NoTargetTwice` shows that there is something to choose (the tracks one after the
  other, each the nearest free target, `LeastSlot`) and that each target is taken once.
* **Telnet_proofs.** Any timeout, buffer, configuration, levels and frequencies
  (`TelnetAssumption`). First `PartsImplemented`: a step of the board is a step of each part or
  leaves it alone, so `UniqueMac` and `KeepsConfiguration` carry over from FlashConfig_proofs. The
  types of the parts come from their own steps; that the sector is written only inside the command
  that saves is `SavesInCommand`. For `OnlyIdleEvicted` the invariant is `TimeoutInv`: between the
  status and the count the CON interrupt has been served (`Greeted`), and with nothing waiting the
  board's timer is not older than the client's silence (`TimerIsYoung`). `EvictsOnlyIdle` is about
  the step that decides, `TimerIsYoung` about the state it decides in. `LightShowsCurrent` needs
  `WrittenIsDriven` (what was written last is driven, unless blanked) and `CaughtUp` (after a poll
  what was written last is the target).
* **RadarFeed_proofs, the frame.** Any hosts, timeout and queue. `FeedKeepsTracking` carries the
  theorems about tracks over. `WriterInv` relates what the server remembers to what hosts did:
  with everything read the client is the last writer and `seen` the time since (`UpToDate`),
  otherwise the last datagram in the chip is the last writer's (`StillToRead`); it says nothing
  once the stream is lost. Only a frame ends a gap, which rests on the `IInv` of the tracks.
* **UdpRing_proofs.** Any ring, datagrams and backlog. `UdpTypeCorrect` needs `Bounded` (a slot is
  looked at only while the scan has one left); `ReceiverHears` assumes that no datagram comes
  during set-up, without which finding 3 refutes it, and needs that nothing is pending before.
  `Order` is about datagrams: those in the ring ascend from its oldest slot to `udp_ring_idx`
  (`RingInOrder`), those in the chip follow (`ChipInOrder`), a slot keeps its datagram from the
  header to the copy (`SlotKept`), and a scan either has been alone, with its place the distance
  to the oldest, or was overtaken by the one arrival it can afford (`ScanPlace`).
* **Rd03dRing_proofs.** Any length of payloads, ring, FIFO and number of frames. `InStream` takes
  ring, FIFO and the byte to come as one sequence: for any two bytes of it the later one is in a
  later frame or at least as far behind (`Later`), exactly as far while the FIFO loses nothing
  (`Exact`), bytes of one frame show one payload, and nothing of the frame published is still to
  come (`Consumes`). That two neighbours are in order would not be enough: the parser compares a
  header with the tail a frame's length behind it. Overwriting the oldest byte, dropping bytes
  before a header and taking a frame out all remove from the front, which keeps `InStream`; what
  header and tail enclose is then one frame (`GoodIsFrame`).
* **StairsFrame_proofs.** Any number of pixels, frames, schedule and lateness. `IInv` adds
  `OneTransfer`: the semaphore is free, or the DMA has sent as many pixels as it passed, or it is
  done and the alarm is due. `OneTransferLatched` says nothing about the semaphore and so could
  not be kept by `Acquire` alone. `WholeFrames` adds `Schedule`, which bounds the time since
  the last frame was drawn by the age of its transfer, so that in time no transform meets one.
* **TreeStrip_proofs.** Any number of LEDs, patterns and lateness. `IInv` adds to the types
  `DrawsInside` and `HandedOver` (a transfer has passed on as much as it read). The invariant of
  `EveryFrameShown` is `Whole`: `SinceDrawn`, the time since the last call that may have drawn, is
  at most the lateness of the output while a frame is drawn or waits (`Drawing`, `Pending`), and
  at most that and the age of the transfer while one is sent (`Sending`); what is on the wire is
  what the buffer holds (`OnWire`). A call that draws comes two periods after the last, too late
  for either.

Only model-checked is what TLAPS cannot reach: everything under fairness (`ListensAgain`,
`HonestUpdateLands`, `Delivered`, `LastFrameShown`, `PortIsFreed`, `LeavingIsNoticed`,
`StayingIsNoticed`, `SilentIsForgotten`, `GoesDark`, `DrivenGoDark`); ENABLED and induction over
data are beyond it too. Every invariant and every action property of the passing runs is a
theorem, and so are the refinements of `OtaUpdate`, `FrameFeed` and `ConfigStore`.

## 5. What was found

The numbered ones are counterexamples of runs.

1. `EfuServer_unaligned`: chunks are programmed where they fall. TCP need not deliver whole
   pages; `flash_range_program` at an offset inside a page wraps, while the CRC is computed over
   RAM. The server answers CC over a slot that does not hold the image (`efu_update.c:250`;
   `flash_cfg.c:216` knows of the alignment, `efu_upload.py:18` relies on the chunk size).
2. `EfuServer_damaged`: an image is programmed before its CRC is known, and one that is refused
   stays in its slot. If its first and last blocks are intact it looks bootable, and after a power
   failure the boot ROM may start it, before the comparison or after ER (`efu_update.c:293`,
   against `README.md:29` "fail-safe OTA updates" and `:113` "checks CRC32, and switches the boot
   selection"). Erasing the first block of a refused image would close the second case, and
   programming that block last, after the comparison, both.
3. `UdpRing_early`: a datagram between the clearing of interrupts and the enabling of the edge
   leaves INTn low for good; no datagram is received until a restart (`network.c:652`).
4. `Rd03dTracks_one`: under the default tuning one person alone is spread over three tracks of
   which none becomes valid, and is never reported (`rd03d_api.c:149`).

Seen while modelling, without a run of their own:

*EFU, DDP, configuration and radar*

* The EFU socket has neither a timeout nor keepalive (`efu_update.c:117` to 132): a peer that
  vanishes without a word holds it for good, until a restart. With the exemption `HeldByPeer` taken
  out of `ListensAgain` TLC finds that behaviour.
* `disconnect()` loops until the socket is closed or the chip reports a timeout
  (`socket.c:495` to 502): a peer of the CLI or of EFU that acknowledges the FIN and never closes
  stops the whole board. `HeldByPeer` names it, in `Telnet` and in `EfuServer`; without the exemption
  TLC finds it against `PortIsFreed` as well.
* `config default` copies the current configuration over the default one it has just built, and
  telnet answers "Factory default configuration restored" (`flash_cfg.c:120`, `telnet.c:649`).
* A client that connects while `main` initialises loses its CON interrupt to the clearing of all
  interrupts (`network.c:391`) and is never served; `EarlyConnect` models it, and
  `ChunkHasHandler` makes the one exception for it.
* A datagram between the handler's read and its clearing of RECV stays in the chip until the next
  one comes (`network.c:526`, `:545`, against the comments at `:430` and `:478`).
* A client that writes header, image and CRC back to back, as `efu_upload.py:5` to 10 lay out the
  stream, gets no answer when the CRC shares a chunk with the end of the image
  (`efu_update.c:256`): with `Eager = {TRUE}` and fair polling, TLC finds a behaviour in which such
  an undamaged upload never gets CC. `efu_upload.py` itself waits for OK.
* `config clean` goes back to the current configuration; the help (`kitchen_pwm/telnet.c:71`)
  says "(use default)".
* The age of a track is judged when a frame comes: an unplugged radar leaves presence as it was
  (`rd03d_api.c:270`, `:191`).
* A target left over after matching may take the track just matched to another in the same frame
  (`rd03d_api.c:210`, comment at `:198`).

*CLI, light and debug port*

* `config ip 0.0.0.0` is taken like any address. After the next start `socket()` refuses to open
  TCP (`socket.c:207`) and nobody can reach the board to change it; `Unreachable` names the case.
* `recv()` may return several lines, of which the first is obeyed (`network.c:323`), and lines that
  came before a client's FIN are dropped when the status is already CLOSE_WAIT (`:349`): a script
  piped into the port loses commands. `PatientIsHeard` is about clients that wait for the prompt.
* `vl53 spi` and `vl53 raw` have empty branches without `VL53_SPI`: neither reply nor prompt follows
  (`kitchen_pwm/telnet.c:539`).
* `led` reads `%u` through a `uint16_t *` (`kitchen_pwm/telnet.c:329`): bytes beside the variable are
  overwritten, and 65636 is taken for 100.
* `send()` waits for room in the chip's TX buffer (`socket.c:553`): a client that sends many
  commands and reads no reply holds up the main loop until its connection dies.
* A debug datagram of 1000 bytes or more leaves its rest in the chip, and `recvfrom()` never finds
  a header again (`dbg_api.c:86`): frames go to addresses made of payload. `synced` models it.
* `README.md:119` names a `status` command, which no telnet has.
* `freq` re-initialises the PWM channels to dark; the poll compares with the last colour written
  and does not write it again (`pwm_api.c:256`, `:224`), while `pwm status` reports the old level.
* Frequencies from 50 to 572 Hz pass the check of `freq`, `pwm_drv_init` refuses their divider, and
  the reply says that the light was reconfigured (`kitchen_pwm/telnet.c:424`).

*LED strips*

* When the stairs' loop was kept for two pattern periods it draws two frames in a row, and the
  second overwrites planes that are being sent: `ShowsOneFrame` without `~behind` fails. The
  semaphore is taken after the planes are rewritten, though its comment (`:59`) says "posted when
  it is safe to output a new set of values". Waiting first would mend it.
* `ws2815_show` is called from nowhere (`network.c:797` is commented out): DDP frames reach
  `ddp_buf_frame` and no LED.
* The tree's latch deadline leaves 134 us of LOW, not the 280 us of its comment, between the end of
  the PIO's output and the earliest next transfer (`ws2815_control_dma.c:183`); the schedule hides it.
* The tree's `max n` lowers the number of LEDs drawn, not of those sent: LEDs beyond n keep what they
  showed, and `set 0` does not reach them (`ws2815_control_dma.c:529`). `DrivenGoDark` is about the
  first n.
* `zero_counter` is 500 draws, which is 20 s (the comment says 2 s), and is not reset when a pattern
  is chosen: after `set 0`, `set 3`, `set 0` the LEDs stay lit until it has run out (`:419`).
* The bit rates 1,000,000 and 800,000 are cast to `uint16_t` (`tree_ws2815/ws2815.pio:48`).

## 6. What is left out

* EFU server and command line have models of their own: that `disconnect()` of one holds up the
  other, and everything else, is so by construction of the loop, and no property.
* Parsing of command lines, replies, and the commands that only show something: one command
  without effect (`Other`) or without answer (`NoReply`). `send()` takes its time, but ends.
* What is left of a line that `recv()` cut is counted as another line, not modelled as text.
* CRC collisions; what the partition table code prints; permissions and storage space in
  `rom_flash_op` beyond success and failure.
* The decoding of radar payloads, speed and distance; colours and pattern arithmetic; offsets
  inside DDP payloads.
* The PWM fades, brightness and DDP mapping, which nothing calls; `kitchen_pwm/flash_cfg.c`, an
  old copy that no target builds.
* VL53L8CX (a thin layer over a vendor driver), SCD30 meter and layout seeder: sequential code
  with blocking reads, without states that a model would explore.
* `libraries/` (ioLibrary, mbedtls and others) and `back/`: third-party code and old versions; the
  W6100 and the flash are modelled from how the code uses them and marked external in the map.

## 7. The plan

The modules of the first plan are written: EFU, UDP ring, flash, radar, stairs, then the command
line with light and configuration, the debug port with the radar, and the tree. What is left of
the code that has states worth exploring:

1. UdpRing with a full ring, once a specification says what may be lost.
2. EFU and CLI in one loop, with `disconnect()` of either holding up both, to bound by what timeouts
   an upload survives a CLI session that ends.
3. The stairs' and the tree's `telnet.c` over `TcpCli`; they differ from the kitchen's in commands
   that `StairsFrame` and `TreeStrip` take as set at any time.

Proofs to come: with a specification of item 1, that a full ring loses whole frames only;
the exact bound of `ShowsOneFrame`, which TLC finds a unit above `InTime`; and, for liveness,
the safety half of each argument (that a step of the fair action is progress), which needs no
fairness.
