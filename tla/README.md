# slopgb in TLA+

slopgb is a Game Boy / Game Boy Color / Super Game Boy emulator in Rust: a
cycle-accurate core (`crates/slopgb-core`), a desktop frontend
(`crates/slopgb`) with a debugger, a Link cable over TCP and a control server,
and a family of plugins for the SNES side of the Super Game Boy.  This
directory models the parts of it whose correctness is a matter of *order*:
clocks that race with register writes, two emulators that exchange bytes over
queues and sockets, copies of state that must agree.

## Inventory

| part | state it keeps | operations | what is hard |
|---|---|---|---|
| Timer (`timer.rs`) | DIV counter, TIMA, TMA, TAC, the reload countdown, the reload latch | tick (4 T-cycles), FF04–FF07 writes, the STOP presample | edges produced by writes, the 4-cycle overflow window, the order tick-then-access |
| Serial port (`serial.rs`) | SB, SC, bit counter, clock flip-flop, last DIV sample, the link's two queues and its stall | tick, DIV write, SB/SC writes, attach/detach, push, take, slave transfer | writes in mid-transfer, a byte arriving at any moment, the stall |
| Link (`link.rs`, `app_pacing.rs`) | socket, attached, the bytes the port cannot take yet | pump, pump_blocking, apply_packet, drain_pending, disconnect | two peers, each with a UI thread, a reader and a writer; reconnects; a machine replaced under it |
| Socket threads (`net_worker.rs`, `link.rs`) | stop, finished, connected flags, channels | spawn, run, drop-and-join | three threads ending in any order |
| CPU (`cpu/`) | registers, IME, the EI delay, HALT/STOP | step, dispatch, halt exit | an interrupt arriving between any two M-cycles |
| Bus (`interconnect/`) | IF/IE, memory, late-commit masks | tick-then-access, dispatch acknowledge | what one access of an M-cycle sees |
| OAM DMA, VRAM DMA, speed switch | source, position, pending request, block counters | start, step, cancel, halt gate | DMA against HALT, STOP and speed switches |
| Joypad and SGB packets (`joypad.rs`) | selection lines, the bit receiver | write, press, receive | a bit protocol driven by arbitrary writes |
| Cartridge (`cartridge*`) | bank registers, RAM enable, RTC, MBC6 flash | writes, ticks | a command state machine, a latch against a running clock |
| APU (`apu/`) | frame sequencer, per-channel length, envelope, sweep | tick, trigger, register writes | extra clocks produced by writes |
| PPU (`ppu/`) | mode, LY, STAT line, pixel pipeline | dot steps, register writes | the STAT line's glitches; timing tables fitted to hardware |
| SGB, SNES chips, plugins | port latches, instances | port handshakes, calls into wasm | two clocks, failing plugins |
| Frontend (`session.rs`, `mcp.rs`, `audio.rs`, `reverse.rs`, windows) | the machine, snapshots, queues to threads | load, reset, quick save/load, rewind, serve | copies of the machine that carry or lose state |

How they interact: the CPU calls the bus; every bus call first ticks the
machine one M-cycle (timer, OAM DMA, PPU, APU, serial, joypad, the cartridge's
clock, in that order, interrupts folded into IF) and then performs the access; a
pending VRAM DMA block is served after the tick of a read, with ticks of its own
that also clock the OAM DMA.  The frontend runs the core in slices on the UI
thread and, while linked, pumps the link between slices.  Socket threads touch nothing but their channels and three flags.

What makes each part correct is listed as hazards in PROJECT.json, one entry
per line of code where it can go wrong, each with the properties that would
notice.

## Modules

`Timer` — the state record `t` is `struct Timer`; `TickSubstep` is one T-cycle
of `Timer::tick`, the access actions are one bus access each, after four of
them.  `WriteDIV`, `WriteTIMA`, `WriteTMA`, `WriteTAC` are the arms of
`Timer::write`; `Stop` is the DIV reset of `stop_impl`, presample included;
`OtherAccess` is every bus access that does not touch the timer.  The widths of
the counters, the tap table and the boot values of DIV are constants.

`TimaSpec` — TIMA without a divider: it counts, overflows to 0, reloads TMA and
interrupts; what a write does depends only on the mode.  `Timer` implements it
with the divider, the taps and the reload countdown hidden.

`Serial` — the record `s` is `struct Serial`, `div` the timer's counter; `Tick`
is `Serial::tick`, `WriteDIV` is `Serial::div_write` as the FF04 write calls it,
`Stop` is the DIV reset that does not call it.  The five link hooks happen
between instructions.  `run` is a history: the falling edges of the clock bit
since the SC write, what the forced edge shifted, whether the byte that will
arrive is still the cable's alone, and whether a STOP fell into the transfer
(`run.stop`): the property that counts edges speaks of transfers without one.
`came` is one too: the bytes the peer's side handed over in this step.  With it
`ReceivedByte` says of every way a master transfer ends — the last shift, the push
that releases a held master, the cable unplugged under one — what byte it ends
with, and that no byte of the peer is dropped or taken twice in between.

`LinkCable` — both ends.  Per peer: `core` (what the link can see of the serial
port), `link` (`struct Link`), `stream` (the socket and its worker), `inq`
(`in_rx`), `wire` (what the other end has sent), `pc` (where the UI thread is in
the frame loop).  `WriteSC` and `MasterDone` are the game; `SliceOver` and
`OtherInstruction` end a slice as `run_slice` does; `PumpHead`, `PumpPoll`,
`DrainPending` and `PumpBlocking` are the pump; `Deliver`, `PeerClosed` and
`StreamFails` are the socket threads and the network; `ResetMachine`,
`LoadState`, `QuickSave`, `QuickLoad` replace the machine (`replaced` counts
them).  The constant `Faults` names what else than the normal course may happen,
so that a run can ask one question: `abort` (the game rewrites SC during its own
transfer), `close` (a user disconnects), `fail` (the connection breaks),
`reset`, `load`, `quick`.  A byte is the number of the transfer that shifted it
out, which is what the properties tell apart.  A stop under the debugger
(breakpoints armed), where the core may run past a stall before it is pumped,
is not modelled.

`LinkExchange` — the promise: a completed master transfer is held until the
peer took its byte, or a byte of the peer's own master took its place, or the
cable was unplugged; bytes are taken in order, once, without a gap.

`Sm83` — the control of the CPU.  A step is one M-cycle: the bus ticks the
machine (`Interconnect::tick_machine`), then the CPU does the access of that
cycle.  `at` is the place in `Cpu::step`: the boundary, the four cycles of
`dispatch_interrupt` and the handler's fetch (`vector`), the execution of an
instruction (`exec` and, for the ones that take cycles of their own, the places
named after them), the phases of a speed switch.

* `cpu` is the control part of `struct Cpu`.  PC is data; its rewinds (the halt
  bug, HALT and STOP stepping back) are left out with it.
* `bus` is IF (`intf`), IE, the two masks of commits in the second half of this
  cycle (`late`: hidden from the halt sampler, `hidden`: hidden from the CPU's
  too), two windows in which a request is not heard, the dot a store borrowed from
  the next cycle, and the core clock gate.
* The windows: after an acknowledge, of its source (`sqMask`, `sqTicks`, `sqDots`;
  `speed.rs:99-151`), and after a store to FF0F that clears STAT's bit, of STAT
  (`sqStore` dots; `bus.rs:119-141`, `ppu/stat_irq/reclock.rs:310-377`).  The store
  arms its window while the LCD's dots and the CPU's cycles are aligned: at single
  speed when it also borrows a dot, on either family, and at double speed without
  borrowing.  The PPU then spends the edge it races with, a mode-0 rise in the next
  two dots at double speed or an LYC rise in the next one at single speed
  (`consumed`), and marks nothing.  `w.raced` is the choice of a rise of that kind.
* The rest of the machine is the choice of `w` in each M-cycle (`Rises`): which
  sources raise IF, at which PPU dot, which of them late.  The samplers of HALT
  may also see the PPU's projected mode-0 flip (`WakePeeks`, `EntryPeeks`),
  which is no request.
* Instructions are their effect on this state: `Ei`, `Di`, `Reti…`, `Halt`,
  `Stop…`, `Lock` (an illegal opcode), the stores to FF0F and FFFF, and `Other`.
  The program is any sequence of them, and the stack may point anywhere, so a
  push of the dispatch may land on IE, IF or a device's register.
* `Other` takes any number of M-cycles where the code's instructions take up to
  five more: more behaviours than the code has, none of which a property forbids.
* A speed switch: leaving double speed the clock changes before the read of the
  skipped byte (`SwitchDown`), entering it after the cycle under the gate
  (`StopGated`), as in `stop_impl`.
* `h` is a history the CPU never reads.  `clears` and `cleared` say whether the
  access of this M-cycle, and of the one before, stored to IF with STAT's bit clear.
* Left out: VRAM DMA blocks (`VramDma` has them, with its own sketch of the
  CPU), the calls of the Link between two M-cycles (which add requests at points
  where `w` may add them too), and the program's data.

`VramDma` — the HDMA/GDMA engine of `hdma.rs` with the parts of the CPU that
make it wait.  A step is one M-cycle with its access, or a decision between two.
`v` is the engine (mode, FF55's length, the destination counter, the pending
request and what HALT remembered), `svc` the service that has the bus, `cpu` the
place in an instruction, the gate and the speed, `st` the locals of `stop_impl`.
`ppu` is the position in a line of `LineDots` dots, the dot of its mode-0 flip
(a choice per line, as sprites and scroll would make it) and the shift that
speed switches and LCDC writes leave; it is what `hdma_trigger_level`,
`hdma_period` and `m0_stat_flip_reached` compare.  `h` counts the blocks the
program is owed and those paid in this HBlank.

`OamDma` — the controller of `oam_dma.rs` clock by clock: FF46 writes, the setup
delay, a restart over a running transfer, the byte staged for the next cycle,
the hold the PPU sees, the gate with its catch-up clock at the wake, and the
M-cycles that VRAM DMA steals.  A byte of OAM is named by its source page, so a
byte from the wrong transfer shows.  `seen` has the clocks since the last FF46
write and whether the PPU drew from an OAM in change.

`Apu` — the frame sequencer and what it clocks in a pulse channel.  `div` is
the divider in M-cycles, `f` the sequencer (the step, the skip after a power-on
with a high tap, the edge that waits because in double speed the unit trails by
a clock), `c` the channel (length counter, envelope, DAC), `h` the falls of the
tap since power-on and the envelope's counts since the volume moved.  The tap's
width, the number of steps and the widths of the counters are constants.

`Mbc6Flash`, `Rtc`, `Cartridge` — the two mappers with a life of their own.  The
first two are `struct Mbc6Flash` and `struct Rtc` as records with their methods
as operators; `Cartridge` is the machine: any write, any time step, a save and
reload between sessions.  `h` is what the chip was told, cycle by cycle, from
which the data sheet's commands are recognised independently of the code's
sequence counter and prefix.

`Joypad` — `joypad.rs`: the key matrix and its interrupt, the SGB packet
receiver and the multiplexer, driven by arbitrary P1 writes, keys and fed pads.
`h` has the bits on the wire since the last reset pulse and the packets accepted
since the transfer start.

`LinkSocket` — the threads under `LinkCable`'s `stream`: the UI thread, which
pumps, connects and drops, the socket thread and the writer thread of each
socket.  A step ends at every access to something shared: `stop`, `connected`,
`finished`, a channel, the TCP stream; so `pump`, which loads `connected` three
times, may see three different worlds.  The panic of `thread::spawn` for the
writer is a step of its own.

How they compose.  `LinkCable` holds two cores and two links; `Cartridge` holds
one of its two machines.  `Serial` carries the divider it is clocked by; `OamDma`
takes the gate and the stolen cycles that `VramDma` and `Sm83` produce as inputs
in any order, so what holds of it holds under either.

`TimerProofs`, `PortProofs`, `LinkCableProofs`, `LinkSocketProofs`,
`DmaProofs`, `ApuProofs`, `Sm83Proofs`, `CartridgeProofs` — the theorems, one
module per component but for two: `PortProofs` has those of `Serial` and of
`Joypad`, `DmaProofs` those of `OamDma` and of `VramDma`, so that the second
specification of each pair is called `JoypadSpec` and `OamSpec`.  `MCTimer`,
`MCLinkCable`, `MCApu`, `MCCartridge`, `MCJoypad` — constants for TLC that a .cfg cannot write; the other modules are
run as they are.  A definition named `Mut...` is a plausible bug: the same
operation with a guard, a reset or a bound missing.  PROJECT.json names, for each
property, the one that breaks it.

## Runs

| run | what it checks | bounds |
|---|---|---|
| timer | an interrupt is committed late, STOP clocks TIMA once, refinement of `TimaSpec`, an enabled timer interrupts again and again | 7-bit divider, half periods 64, 8, 16, 32, 2-bit TIMA |
| serial | every clock edge counts once, a transfer ends exactly with its interrupt, the byte received is the peer's or the open cable's | 2-bit bytes, 4-bit divider, both clock bits, queue of 1 |
| link | a stalled master is owed its completion, neither side runs more than two ahead, refinement of `LinkExchange`, stalls that can end do end | 2 peers, 3 transfers each, 1 session, disconnects and failures |
| link_faults | the peer's bytes stay out of the port's own queue through reset, load, quick save and quick load | 1 transfer each, 2 replacements |
| link_reset | finds the state of the first divergence below | 1 transfer each, 1 reset |
| link_socket | no thread outlives its socket, pump reaps only the dead, drops end, the dead are reaped | 2 sockets, inbound queue of 1, 2 packets waiting out |
| vram_dma | FF55 agrees with the engine, its length is what is owed, one block per HBlank but for two named gaps, a sleep defers | lengths 0–1, 2 destination blocks, 40-dot lines, 2 flip positions |
| oam_dma | schedule, content, and an OAM that never changes under the PPU | 5 bytes, 2 pages |
| apu | the sequencer follows the tap, nothing plays on an empty length, a length clock is the edge of one gate, the envelope keeps its pace | tap of 2, 4 steps, lengths and volumes 0–2 |
| cartridge | nothing erased or programmed that no command asked for, the clock counts like one long counter | 8 bytes in 2 sectors, 2-byte pages; 2 s, 1 min, 1 h |
| joypad | a packet is framed, a command is its packets, the interrupt is a falling line | 3-bit packets, commands of up to 2, queue of 1, one line |
| sm83 | masked interrupts stay masked, the gate follows the sleep, HALT ends promptly, only the source just acknowledged, or STAT just cleared by a store, is squashed, dispatches cancelled only for a reason, no request lost | 2 sources, both families and speeds, `MaxLate` 1 |

### Why the bounds are enough

The timer's divider and TIMA are small enough that an overflow, its window and
the next overflow all happen within one divider period, on every tap, and the
taps keep the order of the code's.  In the serial port two bits are enough for a
forced edge followed by another shift, and for a completion that no forced edge
can reach; `EdgeCap` stops the history's count after one transfer.  The link's
properties relate at most two consecutive transfers of a side; the inbound queue
holds 3 packets, where one overflow (of a DISCONNECT) does happen, and the
overflow of bytes is out of reach of two live ends, which `AtMostTwoAhead` says.
Two sockets are the one being dropped and the one that replaces it; the system
stops when both are used up, so the run does not check deadlock.

A VRAM DMA length of one gives transfers of one and two blocks; two destination
blocks make a transfer end by the wrap of the destination too; two flip dots
make a line's mode 0 begin before or after what an access meant to see; lines of
40 dots hold an instruction, a service and a wake, at both speeds.  Five OAM
bytes are more than the delay, the staged byte and the trailing hold together;
an OAM DMA under a gate that never opens may stop, so that run does not check
deadlock either.  Four steps of the sequencer keep its parity and the skipped
and uncounted first steps; a two-cycle tap has a high and a low half in either
speed.  Two sectors of two pages give an erase something to spare, and the three
addresses written are the two unlock addresses and one in the other sector.  A
clock of 2 s, 1 min, 1 h and a two-value day counter carries through every
register, and widths above the limits allow the out-of-range values the code
lets a program write.  Packets of three bits and commands of two packets have a
first, a middle and a last of each.  `Sm83` runs with STAT and the timer: in the
windows and the masks the serial port behaves as the timer without
late commits and VBlank as STAT without hiding, and the joypad's acknowledge
only clears its bit; two sources are enough for a request that is squashed while
the other is pending, and for a choice between two.  With `MaxLate` 1 one cycle
in a row may commit late, so HALT may sleep through a request once and not
twice.  The theorems below hold for every value of these constants.

### Fairness

`Timer!FairSpec` assumes only that the run loop keeps executing M-cycles.
`LinkCable!FairSpec` assumes that each peer's UI thread keeps running slices and
pumps and that its socket threads keep running.  `LinkSocket!Spec` assumes that
the UI pumps every frame and that both threads of a socket are scheduled, which
their read, write, connect and receive timeouts justify: none of them blocks
for ever.  Nothing is assumed of the games, the users, the peers or the network,
and a paused emulator is outside all three.  The other runs ask for safety only.

## What the code does differently from what it says

Checked by a run:

* Reset, a model switch and a new ROM (`session.rs:527`) leave the link attached
  to a machine that was never told, although `link.rs:404-405` says of the flag
  that the core was told (`AttachedCoreIsOn`, run link_reset).

Met while modelling, and kept out of the properties by the exemptions their
comments name:

* `link.rs:628`: a reply to an aborted transfer completes the next stalled one;
  624-627 says it is dropped.  `ExchangeRefinement` is for games that do not
  abort.
* `lib/debug.rs:106`: Load State keeps a stall and replaces the transfer it
  belonged to (`serial.rs:74-77`).
* `session.rs:452`: Quick Load brings back `link_connected` after a disconnect
  (`serial.rs:59-60`: only `link_connect` ever sets it).
* `link.rs:335-343`: when the system has no thread left for the writer, the
  spawn panics with `connected` already set; `finished` and `connected` then
  both stay true and pump never reaps the socket, against `link.rs:198-200` and
  `net_worker.rs:27-29`.  `DeadIsReaped` exempts it.
* `speed.rs:221`: STOP resets DIV without `serial.div_write`, so an edge of the
  serial clock is lost or seen late (204-206, `serial.rs:12-13`).
  `EveryEdgeCounts` leaves such transfers out.
* `execute.rs:138`: an EI that opens a handler takes effect at once when the
  dispatch cut the delay of an earlier EI (136).  `ei_delay` is sampled before
  the dispatch that clears `ime_pending`, and used after it.
* `bus.rs:227`: a STAT commit in the second half of the low push's cycle hides a
  STAT request that was already pending, and the dispatch for it goes to address
  0 (`cpu/mod.rs:93`, `execute.rs:200-201`).  `CancelledOnlyFor` names it.
* `hdma.rs:148`: a HALT woken by the mode-0 flip starts a block two dots before
  the level rises, whose edge flags a second block in the same HBlank
  (`tick.rs:183-184`, `interconnect.rs:148-149`).  `OneBlockPerHBlank` counts
  this with its other gap (the LCD switched off under an armed transfer flags one
  more block, though `memory.rs:454-460` says no further block copies).
* `hdma.rs:21-24`: the request of a STOP's fetch is said to be still pending; the
  code serves requests after every fetch, so it is not.
* `oam_dma.rs:30-38`: a STOP that wakes before a gated cycle passed lets the
  catch-up clock end the trailing hold, with no dots in between.  `NeverTorn`
  exempts it.
* `engine.rs:503`: speed switches only ever add to `lcd_shift_dots`; once it is
  a line's worth and more, the subtraction of `law_pos` (which wraps by one line)
  passes zero.  The model stays below that (`MaxShift`).  Well before, once the
  shift exceeds the dot of the trigger, `hdma_period_law` (`access.rs:185`) puts the
  first dots of an HBlank on the line before: a switch in them does not see the
  window, and its wake pays a second time (TLC finds it with `MaxShift` = 28 and
  `Flips` = {8} in the constants of the run).  The theorem `PaidOnce` therefore
  assumes `ShiftsStaySmall`.
* `apu/mod.rs:483-487`: in the skipped state `next_step_clocks_length` tells the
  phase of the step after; `LengthClockIsAGateEdge` exempts that step.
* `joypad.rs:529`: "only ever store 1/2/4" players, where a glitched request
  stores 3.  The model allows it.

## Proofs

Each theorem holds for every value of the constants its module's assumptions
allow.  The shape is the same throughout: an inductive invariant with one lemma
per group of actions, and the properties as its corollaries.

| module | proved of the specification | what the induction needs beside the property |
|---|---|---|
| TimerProofs | types, `TimerInterruptIsLate`, `StopClocksOnce`, the overflow window, the reload cycle, and the refinement `TimaRefinement` | at substep k the divider is k modulo 4, so a tap, whose period is a multiple of 8, moves in the same substep as the reload's last countdown; a pending reload means TIMA is 0 and the detector low |
| PortProofs, of Serial | types, `EveryEdgeCounts`, `HeldAtCompletion`, `InterruptMeansDone`, `ReceivedByte` | a held master has a full byte, so none of the next shifted, and no byte waiting, so that the byte pushed is the one it takes; at every access the port's sample of the divider is the divider, and in a transfer without STOP between them too; `Ones`: as long as neither the program nor the peer touches SB, the bits shifted in are ones |
| PortProofs, of Joypad | types, `PacketIsFramed`, `CommandIsItsPackets`, `InterruptIsAFall` | the account of what was received (`ReceiverInv`), see below |
| LinkCableProofs | `TypeOK`, `CoreQueueStaysEmpty`, `StalledMasterIsOwed`, `AtMostTwoAhead`, and the refinement `ExchangeRefinement` | quick-save copies have empty queues too; a dialling worker means a session is left; the conservation law `Flow`, see below |
| LinkSocketProofs | types, `NoThreadOutlivesItsSocket`, `ReapsOnlyTheDead` | the places of the three threads against the flags: what pump loaded as true stays true until the UI itself drops the socket |
| DmaProofs, of VramDma | `ActiveMeansArmed`, `LengthIsWhatIsOwed`, `SleepDefers`, `OneBlockPerHBlank` | a general request lives from its store to the next fetch; the gate keeps every request out but in the pause; for the last `Paid`, see below |
| DmaProofs, of OamDma | types, `OnSchedule`, `CopiedIsInOam`, `NeverTorn` | the byte in flight is the one before the position; a sleep has landed it; while OAM has just changed or is about to, the next dots are disconnected |
| ApuProofs | types, `SequencerFollowsTap`, `PlayingHasLength`, `LengthClockIsAGateEdge`, `EnvelopeKeepsPace` | a falling edge waits only while the divider is 0; the count of the history and the step agree modulo the wrap; `Paced`: what the envelope's countdown has left and the steps since its start add up to its period |
| Sm83Proofs | types and every property of the run sm83 | see the next table |
| CartridgeProofs | types, `ClockKeepsTime`, `NothingErasedUnasked`, `ProgramsWhatWasLoaded` | types need that a chip outside a page load has no page in hand, and one inside it no unlock; the clock needs an induction over the seconds, and the chip what it was told (`OrdersOK`), see below |

The refinement of the timer is argued per step: an M-cycle's substep either
leaves TIMA alone, or clocks it once with no overflow pending, or counts the
reload down; each is a step of `TimaSpec` or a stutter, and a register write
is the write of the same name there.

`PortProofs` takes from `PowerAssumption` that powers of two are positive
integers, that 2^0 is 1 and that each is twice the one before, facts of
arithmetic the backends do not know; TLC evaluates them.

What the SGB port has received is an account between its buffer and the history:
with a packet open the buffer is the packets accepted since the start followed by
the pulses since the last reset, and the stop bit is due exactly when those pulses
are a packet; with none open the buffer holds the accepted packets or nothing; and
the packets of a command not yet delivered are fewer than its first one announces.
A write does one of six things to this account (`Ignored`, `DataBit`, `StopBit`,
`Corrupt`, `NextPacket`, `NewCommand`; `WritePulse` shows that there are no others),
each with a lemma; the other methods do what `Ignored` does.  `PacketIsFramed` and
`CommandIsItsPackets` are read off the account at the stop bit, for packets of any
number of bits and commands of any number of packets: the real 128 and 7, where the
run has 3 and 2.  No assumption is added.

The two action properties of `ApuProofs` are argued on what a run of the clock
may do, however many M-cycles and resets it is made of: `Still` when it plays no
step of the sequencer, `Once` when it plays one; no action plays two.

The link's three properties follow from a conservation law, `Flow`: the bytes
shipped and not taken (in a port's queue, on the wire, buffered by the peer) and
the replies not received, of both directions together, are as many as the
masters held, and no more once a stream has failed.  It goes with the order of
the packets in flight (a reply finds nothing of the exchange in front of it) and
with the size of the flight, which keeps every queue below its cap.  Every step
of `Next` is a new connection or one of nine kinds (`StepKind`, `Kind`: a master
stalls, its byte is posted, a packet is buffered, answered, fed, ...), each
defined by what it does to the packets, and each kind has one lemma for the law
and one for the order.  For the refinement the bytes are numbered (`Orders`):
those buffered and on their way follow the last one taken, and a reply answers
the last one shipped.  These theorems assume `Steady` (no aborted transfer and no
machine replaced under the link: the divergence that `link_reset` finds is what a
replacement does) and `Roomy` (`InCap` >= 3, `PendingCap` >= 2; both are 1024 in
the code); the refinement assumes one session besides, as
`LinkExchange` speaks of one.

`OneBlockPerHBlank` follows the scan: a line whose HBlank is over owes nothing,
the trigger's edge is only met by an HBlank that has not paid, and `Unaware`, an
engine asleep that knows of no block, has not paid either.  A sleep that begins
in the last dots of a line is the exception the history counts (`blind`), and a
STOP that switches there is past the wrap or the HBlank when the pause begins.
The theorem assumes that no line is shifted beyond its trigger
(`ShiftsStaySmall`); without that it is false, see above.

`ClockKeepsTime` compares one call of `tick_cycles` with two, and both with one
long count, so the theorem is about a loop, not about a step of `Next`.  In `Rtc`
the loop is a recursive function of the number of seconds (`seconds_from`);
`CountExists` and `CountUnique` show that there is exactly one, with values that
are registers, and `CountingOn` that the count after m seconds goes on as the
count of the registers then.  The cycles left over make the two cuts agree
(`Sliced`: a quotient and a rest are unique).  In range, the counters are the
digits of a number (`Digits`, `TimeBelow`); a second adds one to it in the last
digit and carries (`SecondUp`), the day's nine bits included (`DayUp`); and n
seconds add n modulo the period, with the carry set once it is passed
(`SecondsUp`, `CyclesUp`).  The inductions are made with sets: a set of numbers
that has 0 and every successor has all of them (`AllNumbers`, from the
well-foundedness of <).  `RtcAssumption` puts each limit strictly below its width,
as 60, 60, 24 are below 64, 64, 32.

The flash chip's two action properties compare what a step does to the array with
the history of the writes it accepted, so the induction ties that history to the
chip (`OrdersOK`).  `Told`: outside a page load the commands heard are exactly what
prefix and place in the unlock remember: no prefix, and the first cycles of an
unlock; or the three cycles that set the prefix, and the first cycles of the second
one.  `Loaded`: in a page load the command is the one of the mode, the loads counted
are those heard, the page is that of the first, and each place of the buffer has the
last byte loaded for it (`LastIs`), or ones.  Without the first part an erase could
follow a prefix that was never told, without the second the buffer could hold
anything.  The commands of the data sheet are sequences of cycles;
a cycle either goes on with the command in hand (`ToldFurther`), ends it
(`DispatchDoes`), or breaks it off, and then chip and history both have nothing in
hand (`Resting`).  Each write is one of the two machines' (`CommandStep`,
`LoadStep`); `ChipStep` puts them together with time, power cycles and the write
enable.  No assumption is added, and nothing depends on the size of the array, of a
sector or of a page.

In `Sm83Proofs` the lemmas `Tick` and `Age` say what one M-cycle does, field by
field; `StillSteps`, `RunningSteps` and `RunningElsewhere` sort the actions by
whether the machine runs in them, so that an invariant is argued once per class
and then for the actions that touch it.

| theorem | property | what had to be added to make it inductive |
|---|---|---|
| `TypeCorrect` | `TypeOK` | nothing; a late commit is only chosen below the bound |
| `SleepSafe` | `OneWayToSleep` | `EiInStep`: an EI pending inside a step was pending at its start, so the end of the step commits it before the CPU sleeps |
| `DiSafe` | `DiHolds` | nothing |
| `GateSafe` | `GateFollowsSleep` | `GateInv`: only a sleeping CPU at a boundary has an idle cycle behind it |
| `HaltPrompt` | `HaltEndsPromptly` | `SleptInv`: HALT has overslept no longer than late commits have come in a row, and only a CPU in HALT oversleeps |
| `WindowSafe` | `OnlyTheClearedIsSquashed` | `WindowInv`: the clock sources' window is open only at the handler's fetch; the PPU's has at most 3 dots left after one M-cycle and 1 after two, and is over before the next acknowledge; a store's is open only right after the store, an M-cycle having no fewer dots than it |
| `CancelSafe` | `CancelledOnlyFor` | `DispatchInv`: until the high push an enabled request is pending, after it one the latched IE enables, unless a push hit IE or IF or no request began the dispatch |
| `RequestsKept` | `RequestsSurvive` | nothing; every action but the two pushes and the store to FF0F only adds to IF |

`OneWayToSleep` (the states of sleep, the halt bug and an uncommitted EI exclude
each other) is proved and not listed by a run: the theorem covers what the run
would.

Model-checked only: liveness, which the provers used here do not reach
(`RunningTimerInterrupts`, `NoStandoff`, `DropEnds`, `DeadIsReaped`).  Every safety
property of a run that is expected to pass is a theorem.

## Not modelled

* CPU instruction semantics, the memory map, the addresses and bytes DMA copies:
  pure data paths.
* The PPU: its dot tables are fitted to measurements of hardware, so a model
  would repeat the table; its trigger level, flips and requests are steps of the
  environment in `VramDma` and `Sm83`.  Short lines after the LCD is switched on
  and the early view of registers the picture reads (`bus.rs:72-81`) are left out
  with it.  Whether a mode-0 flip can be projected while the STAT line is blocked
  (`speed.rs:31`) would need its line; `CancelledOnlyFor` allows for it.
* Of the APU the sweep, the waveform units, wave RAM, mixing and resampling: a
  sample stream without the order problems of the sequencer.
* Of the cartridges the bank and window registers and the banked reads, which
  choose an address and keep no protocol.
* Of the link the packet framing, port parsing and status label, and a stop under
  the debugger, where the core may run past a stall before it is pumped.
* Save RAM and save states are serialisation; what a load does to a live link is
  `LoadState` in `LinkCable`, what a reload does to flash and clock is in
  `Cartridge`.
* The MCP server: a queue of jobs with a bounded wait for each reply.  Its worker
  and its drop are `ReapedWorker`'s, modelled in `LinkSocket`; what a job does
  after its caller gave up depends on the job (`mcp/server.rs:412`).
* The rewind ring (`reverse.rs:49`): whether a replay diverges is a question
  about whole machine states.  Frame pacing and the audio ring follow the wall
  clock.
* The SGB side of the core, the SNES chips and coprocessors, SF2 and MSU-1:
  instruction sets, sound and picture, run in lockstep on one thread; a failing
  plugin's state is decided in the wasm runtime.
* Cycle clock and boot tables, construction, debugger and disassembler, session
  files, settings, cheats, recorders, the user interface, slopscript and slopfp:
  tables, file I/O, inspection, drawing, and pure functions.
