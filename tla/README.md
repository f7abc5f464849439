# Verification of the Nokia SONiC platform code

TLA+ models, TLC runs and TLAPS proofs about the code of this repository: the
platform packages of Nokia's SONiC switches (Python platform API, kernel
drivers, services). Paths below are relative to the repository.

## 1. Inventory

The repository holds twelve near-identical packages (`ixr7220*`, `ixr7250*`), the
chassis package (`chassis/`), the CPU-controller drivers (`mackinac/`) and shared
scripts (`common/`).

| Part | State it keeps | Operations | Talks to | What makes it hard | What makes it correct |
|---|---|---|---|---|---|
| I2C bus driver of the H6-128 (`ixr7220h6-128/modules/i2c-ocores.c`, `h6_i2c_oc.c`) | global SPI mux register, its cache `last_id`, `pcie_mux_lock`; per port message cursor and state | transfer, probe, remove, suspend, resume, module exit | I2C core, driver core, 130 OpenCores masters | 130 masters behind one window; mutex and cache over many exits; sleep resets the mux; polling with timeouts | a transfer reaches its own master only and is atomic on its wire; it ends; cache right when trusted |
| Optics events and reset (`*/sonic_platform/sfp_event.py`, `sfp.py`, CPLD drivers) | mailbox per port and reset pins in the CPLD driver; reported list of the monitor | scan, reset, report | xcvrd, `sfputil`, CPLD driver | handshake between two processes by polling, give-up, restart, unlocked read-modify-write | removal and insertion are reported around a reset; a reset that succeeded is undone by nothing but a neighbour's reset that began before it ended |
| CPLD drivers, 38 of them (`ixr7220*/modules`), with the FPGA registers of the H4-64D and H6 and the H6's embedded controllers | the chip's registers; a flag, reset mailboxes | sysfs attributes, probe | I2C, PCI, every user of sysfs | a lock per register access only; failed accesses used as data; attributes there before probe has written | a setting holds until it is overwritten; other bits stay; ports end out of reset; two readings of one pin agree |
| Optics EEPROM and events of the H4-64D (`ixr7220h4-64d/modules/sys_fpga.c`, `sfp_event.py`) | page register of each module, size of its file, cached presence | file reads and writes, unbind and bind, scan | xcvrd, FPGA | page register shared by all files' users; size fixed at bind from an old presence; failures in the middle | a file shows the page its offset stands for; a module with pages is reported |
| I2C master and multiplexer of the CPU controller (`mackinac/modules/cpuctl_i2c.c`) | ModSel pins, channel, cached selection, throttle | select, transfer, deselect, probe, remove | I2C core, FPGA, optics | all modules of a bus answer at one address; fragments, retries after a NACK that may be false; throttle | the module of the channel only; every byte once and in order; the gap kept |
| Thermal policy of the H6-128 (`sonic_platform/thermal_*.py`, `fan.py`, `h6_fan_cpld.c`) | fan sets, running level | collect, decide, set speeds | thermalctld, fan CPLD | values read at different moments; hysteresis; action on change only | fans run at the speed of the level; level rises and falls as the thresholds say |
| Fan drawers of the 7250 IXR-X (`ixr7250x*/modules/max31790_wd.c`, `fan_drawer.py`, `fan.py`) | I2C device and driver, configuration cache, controller and its watchdog | presence, fan start, fan watchdog | hwmon, several processes | processes that bind and delete the driver under each other; drawers that are swapped; failed accesses; paths kept beyond the driver they led to | driver bound and watchdog armed in the end; the fan is driven again |
| Watchdog of the chassis cards (`common/utils/nokia-watchdog.sh`, `chassis/modules/nokia_gpio_wdt.c`) | kernel timer, failure counter | kick loop, health check, start, ping, stop | kernel, platform processes | checks, reboots and sleeps share one timeout; the script dies | no reset of a healthy card; an unhealthy or unwatched one goes down |
| Watchdog API of the 7220 (`watchdog.py`) | cached timeout | arm, disarm | kernel | state cached per process | - |
| Other drivers: clocks, FPGA registers, I2C and GPIO of the H4-32D and H5, SPI and its muxes, PSU, EEPROM, RTC | registers | sysfs attributes, start-up programming | I2C, SPI | - | conversions |
| Platform API classes, chassis package over gRPC, start-up scripts, packaging, tests | none, or outside the repository | readers, calls to the NDK | sysfs, NDK | - | - |

`PROJECT.json` lists every component with what is and what is not modelled, and
every hazard at its line.

## 2. Modules

| Module | What it is |
|---|---|
| `OcoresI2c` | the H6-128 bus driver, its mux and the masters |
| `I2cAtomicTransfer`, `OcoresI2cRefinement` | what the driver promises a client, and the mapping from the driver to the promise |
| `SfpReset` | event monitor, `Sfp.reset` and the CPLD mailbox of the H4-32D |
| `SfpRecord` | `SfpReset` with a history of which modules were recorded anew since their reset |
| `CpldAttributes` | what the attributes of a CPLD driver have in common, and the constructors of their tables |
| `CpldD4`, `CpldH3`, `CpldH432d`, `CpldH464d`, `CpldH532d`, `CpldH564d`, `CpldH564o`, `CpldH6128`, `CpldH664` | every attribute and probe write of the drivers of a platform |
| `CpldPlatforms` | the registers and bits by which each platform's `Sfp` and event monitor know a port |
| `CpldDriver` | the handlers of a CPLD driver at work: two users, probe, failed accesses |
| `FpgaEeprom` | the optics EEPROM files of the H4-64D |
| `FpgaEvents` | `FpgaEeprom` composed with the monitor that binds the driver anew |
| `CpuctlI2c` | the I2C master and multiplexer of the CPU controller |
| `ThermalPolicy` | fan and temperature collects, level and policy actions of the H6-128 |
| `FanDrawer` | a fan drawer, its driver and the processes that look after it |
| `NokiaWatchdog` | the kick loop and the hardware watchdog |
| `OcoresI2cProofs`, `SfpResetProofs`, `CpldDriverProofs`, `FpgaEventsProofs`, `CpuctlI2cProofs`, `ThermalPolicyProofs`, `FanDrawerProofs`, `NokiaWatchdogProofs` | the theorems (section 4) |
| `MCOcoresI2c`, `MCSfpReset`, `MCCpld`, `MCCpuctlI2c`, `MCThermalPolicy` | instances for TLC |

### OcoresI2c

Masters of different port CPLDs have the same register offset; the SPI mux
register decides which CPLD answers. `Sel(a)` is the master a register access of
device `a` really reaches, `Own(a)` the one it means. Every access in the model goes
to `Sel(a)`, so an access with the mux elsewhere hits somebody else's master, as on
the board.

A transfer is the sequence `XferBegin, XferLock, XferSelectMux, XferReadControl,
XferWriteControl, XferStart`, then the polling loop (`PollWait` or `PollTimeout`,
then one of `IsrNone`, `Process*`), then `XferReturn`. Each action is one critical
register access, so that probes, removals and the masters interleave between them.
The driver core runs `Probe*`, `Init*`, `Remove*`, `Suspend`, `Resume*` on one device at
a time; `Freeze`, `PowerCycle`, `Thaw` are the system's sleep around them.

`hw` and `HwComplete` are the OpenCores masters, an external part: a command may be
acknowledged, refused, lose arbitration or never complete. `wire` records what
went over a bus. Choices in the model of the master: a command replaces one in
progress, a command byte clears the interrupt flag even if the master is disabled,
and TIP does not cover a STOP. A timeout may strike whenever the awaited bit is
still set.

`I2cAtomicTransfer` gives a request a script: its places are the START of each message, each byte
and the STOP, `Rank` counts the places before one, `EventAt` is what happens there. The wire of the
adapter that owns it follows the script event by event until the end or an error, and `Reads` are the bytes that
the events so far carry back. `OcoresI2cRefinement` maps the driver to it. It supposes
that a NOSTART message has at least one byte (`ContinuationsAssumption`), since the code sends
its first byte without a look at the length (lines 421-440).

Left out: interrupt mode (probe installs the polled transfer, line 983, so
`ocores_xfer` and `ocores_process_timeout` are unreachable), device tree, clock
framework, BROKEN_IRQ, the -EINVAL exits of line 592 and of unsupported clocks, the
byte-width variants of the register accessors. DATA and CMD are written in one step, and the
status read and `ocores_process` are one step: nothing else accesses that master
meanwhile except the unlocked `ocores_init` and `remove`, whose effect on CONTROL is
the same before or after. The prescaler has no effect on the properties. Requests have
no zero-length message with NOSTART and no NOSTART read; no client in the
repository builds one. At the return the state and the message cursor, dead from then on,
are cleared, and what a byte met is forgotten with the interrupt flag (it is read under that
flag only), to keep the state space small.

### SfpReset

`Sfp.reset` writes 1 into the port's mailbox, asserts the reset pin and polls the
mailbox for 2; `SfpEvent` treats a port with 1 or 2 as empty, answers 1 with 2, and
3, which reset writes after releasing the pin, with 0. So a reset shows up as a
removal and an insertion and the module is set up anew. One action per sysfs access:
`ReadPresence` per register, then `ReadEmpty`, `ReadMailbox`, `AnswerMailbox` or
`ReadSfp` per port, `ScanEnd` for the comparison and the report; `Ask`, `PinRead`,
`Assert`, `Answered`/`NotAnswered`/`GiveUp`, `PinRead`, `Release`, `Finish` for reset.
A pin write is two accesses of a register of eight pins, each under the driver's
lock but not both (`PinRead`, `PinWrite`).

`plugged` changes at any time. `Restart` is xcvrd dying, with the list lost. `Overlap`
says which ports may be in `reset()` together; two resets of one port are always
kept apart, and whether ports of one register may overlap is what the runs and
theorems distinguish. `SfpRecord` adds the history `anew`: the port was recorded as inserted with its
module out of reset and has not been reset since, so what it stands for is that xcvrd has set the module up.
`RecordedAnew` is what the handshake is for; `ReleasedOnlyWhenEmpty` is how it gets there. The list that a
restarted monitor builds counts as a record. Left out: the low-power pin (another register written the same
way), bus errors, the lengths of the sleeps.

`h4_32d_swpld3.c` serves ports 17-32 as `h4_32d_swpld2.c` serves 1-16. D4, H3 and
H4-64D have the same protocol in their own files.

### ThermalPolicy

A round of thermalctld: `AddPresent`, `AskAgain`, `AddAbsent`, `KeepFan` per fan are
`FanInfo.collect` with its up to two reads of the presence; `ReadTemps`, `ReadStatus` per fan
and `Decide` are `ThermalInfo.collect`; `SetAllFanSpeed` and `ThermalRecover` are the actions of
the policies, one step per policy. `StatusFails` is the exception that ends a round when the
fan's CPLD does not answer. Between any two steps `FanChanges` pulls, inserts, stalls or mutes a
fan. `TempLevel` is the pair of loops over sensors and levels, `Allowed` and
`LevelIsLeastAllowed` the definition they are checked against.

Outside the repository: the order of the collects and the walk through the policies
(thermalctld), and the policy file, which is the constant `Policies`. The instance uses full
speed while a fan is missing and speed by temperature when all are there. `temps` holds what was
read; a sensor that cannot be read reads 0. A duty cycle register keeps its value while its
fan is out; the driver's cache of 1.5 seconds only delays a change of a fan. Left out: PSU and
chassis information, LEDs, logging, `switch.shutdown` (its condition is there and never holds).

### CpldAttributes, Cpld*platform*, CpldPlatforms, CpldDriver

All CPLD drivers have one show and one store handler per register and differ in tables. So a
driver is a table: an attribute is a record of the registers it accesses, the bits it shows,
the bits it replaces, the largest value it accepts, and the kind of its store handler
(`CpldAttributes`). `Cpld<platform>` gives these tables, with the writes of each probe function;
they are read from the #define lines, the handlers and the SENSOR_DEVICE_ATTR declarations.
The FPGA drivers of the H4-64D and the H6 (`sys_fpga.c`) and the H6's embedded controllers (`embd_ctrl.c`) are
tables of the same form: a register has up to 32 bits, `Bit` stands for it as a whole and `Byte` for
0xff; an FPGA's registers are mapped (`mmio`), so no access to them fails, and a probe may write a byte without a read (`SetByte`).
`CpldPlatforms` is what the Python side makes of them: the driver and the attribute of every
port, and the bit of a `modprs_reg` or `module_present_all` word that the event monitor takes for it.

`CpldDriver` runs the handlers. `Accept` and `Refuse` are the parsing and range check, `ReadBack`
the register read, `WriteBack` the write of one register: the driver's lock covers each of the two
accesses, never both. `ProbeRead`, `ProbeWrite`, `ProbeEnd` are the probe function after
`sysfs_create_group`, so users may come first. A failed read yields the errno cut down to a byte,
a failed write changes nothing, and no handler notices either. A flag is 0 until its file is written;
only a probe that sets it (`Noted`, `osfp_efuse` of `sys_cpld.c` 280-284) changes that. `Plug` changes the pins behind
two readings of the presence. `held[u]` is the setting that u's attribute must still show, and
is given up only for what the property names; `stale`, `garbled`, `clean`, `base` and `spoilt`
are ghosts that say when.

`brknum` and `sync_clk_sel` are left out of the instances: their store replaces other bits than
their show prints. Left out of the module: the text of shows, the 2 s reset pulse of probe, LEDs
beyond their bits, and of the H4-64D's FPGA the LED group of port 65 and 66 and the SFP cages' attributes, which work
on a cached register.

### FpgaEeprom, FpgaEvents

A file is a row of slices of 128 bytes; `Layout` says which half and page of the module a slice
is. `CheckPresence` is the test before `update_lock` is taken, from a cache that may be half a
second old; `Select`, `Transfer`, `Leave` are the page selection, the transfer of a slice and the
restoring of page 0, each of which may fail. `Probe` finds out the size of the file. The monitor
of `FpgaEvents` (`MonStart`, `MonScan`, `MonPort`, `MonUnbind`, `MonBind`, `MonJudge`, `MonEnd`) binds the
driver anew when it sees a module behind a small file, and reports the module only if the file
has grown. Its own presence comes from `module_present_all` (`ReadAll`): under `update_lock`, and from the same
copy of the registers as the test of a file access, so it may be half a second old too. `MonRestart` is its daemon
killed at any point. `byte_cnt` is read before it is assigned (lines 2990, 3024); it decides only where in the caller's
buffer the bytes go, which is not modelled.
The register attributes of the driver are a table of `CpldH464d`. Transfer lengths within a slice do not matter
to which page is served.

### CpuctlI2c

`low` are the ModSel pins, which keep the last selection; `current_modsel` is the driver's cache of
it. `Select` and `Deselect` are the mux callbacks, between which the I2C core holds the parent's
lock, so calls do not overlap. A message is a series of fragments (`WriteFragment`,
`ReadFragment`, or `WriteRead` for both in one transfer); each may be refused, refused falsely
after it was taken, or time out. `Audience` is who hears a fragment, computed from pins and bus
as on the board. Time enters as `since`, the time since a channel's last call. Left out:
bus speed, statistics, messages. Messages carry their offsets for data, so that a skipped or
repeated byte shows.

### FanDrawer

The controller is four facts: it runs, its watchdog, and the two bits of the fan's
configuration that decide whether it drives the fan. `AskDrawer` to `Delete` are
`get_presence` of the drawer, which binds the driver, arms the watchdog and deletes a device
that does not arm; a device whose probe is under way is not listed yet, so `delete_device` then fails.
`AskFan`, `AskStatus` and the steps from `Glob` to `StoreCache` are `get_presence`, `get_status` and `fan_init` of the
fan, with the restart of a fan that stands still. A process reaches the driver through the paths that
`fan_init` has stored (`path`, fan.py 81-85), which it keeps until it finds the drawer absent (117-118), while each binding of the
driver may get another directory (`hwmon`): `Reachable` is whether they still fit. `Pull` takes the drawer out or puts
it back, with the driver bound. The register `fan_config` is written only if it differs from the cache. The outcomes of a
failed transfer are those of lines 246-360 and 446-475; a failed read in `fan_wd_store` writes back the errno, whose bits stop
the controller (`ETIMEDOUT`) or reset it (`EIO`, `ENXIO`), or the write fails as well. Left out: duty cycles, target speeds, fault
bits; one fan stands for all.

### NokiaWatchdog

`Loop`, `Check`, `Kick`, `Sleep`, `Again` are the script; `left` are the ticks it stays in a
sleep, a check or a call of `reboot` that does nothing. `Tick` is time, with the timer of the hardware.
`Killed` ends the script; the driver's stop leaves the timer running. `disable_watchdog_hm`
is fixed for a run. A kick reaches the timer: `nokia_gpio_wdt_ping` does not look at the result of its
ACPI call, so a call that fails is a fault the code cannot see, and none is modelled; that the health check returns
within `MaxCheck` ticks is likewise an assumption on the commands it runs, for the script sets them no limit.
Left out: logs and files, the shutdown notifier of the driver. The copies
of the script for the 7250 IXR cards have a simpler loop.

## 3. Runs

| Run | What it asks | Bounds |
|---|---|---|
| `steady` | transfers are atomic on their wire (refinement), return, and leave the loop only when over | two ports with one offset on two CPLDs; a register read of two bytes (write, restart, read) and two writes joined by NOSTART; every outcome of the masters |
| `lifecycle` | mux, cache and lock under probes, removals, reloads and sleeps; bus released | the same two ports, one-byte reads |
| `device_ops` | finding: a removal disables, and a probe initialises, another port's master | two ports, probes and removals |
| `sfp_reset` | release only while regarded empty; a module on record and out of reset was recorded since; reports and the SFP transmitter follow the hardware | one QSFP and one SFP port, one caller, three restarts, three polls |
| `sfp_shared` | finding: a reset returns True while a neighbour has put the module back into reset | two ports with their pins in one register, two callers, two polls |
| `cpld` | a setting holds; other bits stay; probe leaves ports released; both presence readings agree | every settable attribute of all 38 drivers alone, one of each register set with a neighbour; two users with one call each, one failed access, registers all zeros, 0xff or (mapped ones) all 32 ones; presence of every port of every platform |
| `fpga_events` | a file is served from its page; page 0 at rest; modules with pages are reported | a QSFP and an SFP port, pages 0 and 1, one user with two calls, one failure, one change of modules, one kill |
| `cpuctl_i2c` | right module, exact delivery, throttle gap, every call ends | two modules on one bus and a device on bus 0; messages of 0, 1, 5 and 8 bytes; one fault, one reload |
| `thermal_policy` | a fan there since the last change of level turns fast enough | two fans in all states, two sensors with three temperatures each, one restart |
| `thermal_levels` | the level is the least allowed; hot and cool sensors get their level in the end | one fan in all states, one sensor in all its intervals and one in four, one restart |
| `fan_drawer` | driver bound and watchdog armed in the end; fan driven again | the daemon and one command with one call, one failure, a pull and a return, two hwmon numbers |
| `nokia_watchdog` | no reset before the allowed failures; lasting failure and a dead script end the card | timeout of 10 ticks, 3 rounds of sleep, checks of up to 2 ticks, 3 failures |

Why the bounds are enough.
- `steady`, `lifecycle`: a device interacts with the others only through the mux, the lock and
  `last_id`, and these distinguish "mine" from "another's"; two devices with the same offset are the
  worst case, because the wrong master then answers instead of nobody. Two bytes and two messages
  reach every branch of `ocores_process`.
- `sfp_*`: ports meet in a register or in the scan only, so two ports have all the interactions: `sfp_shared` has the
  register in common, `sfp_reset` the scan; resets of ports in different registers that overlap are in the theorems of
  `SfpResetProofs`. Two polls are the fewest with a poll that neither answers nor gives up.
- `cpld`: attributes meet in a register only. The tables are exhausted; the number of users, calls
  and failures is what the theorems of `CpldDriverProofs` lift.
- `fpga_events`: one user and the monitor contend for a port; two calls suffice for one to find what
  another left. `FpgaEventsProofs` lifts the numbers. One of each kind of port has both layouts.
- `cpuctl_i2c`: 5 and 8 bytes need a second fragment, with and without a rest; two modules on one bus
  are told apart by pins, the third device by the bus.
- `thermal_*`: fans meet in the level, the noted sets and the policy conditions only; the
  temperatures of `thermal_levels` hit every interval that the six thresholds of a sensor cut. `MCThermalPolicy`
  also evaluates the consistency of the tables for all twenty sensors.
- `fan_drawer`: one command next to the daemon gives every pair of steps of two processes; of hwmon numbers only
  equality matters, and two give both cases.
- `nokia_watchdog`: the timeout leaves one tick beyond the dearest round of the script, so that
  any extra tick shows; `NokiaWatchdogProofs` covers all other values.

Definitions whose comment says that they are a mutant are not used by the specifications: each is a
plausible bug in the definition next to it, and `PROJECT.json` names the property that notices it.

Deadlock is checked except in `cpld`, `fpga_events` and `nokia_watchdog`: there users may
have used up their calls and a card that was reset stays so.

### Fairness

`OcoresI2c`: a context that can take its next step takes it (kernel threads run:
weak fairness of `Xfer(a)` and `Dev`), and a waiter of `pcie_mux_lock` gets it if it is
free again and again (the kernel mutex hands over to its waiters: strong fairness
of `XferLock` and `DevLock`). Nothing is assumed of the masters, which may hang:
termination rests on the timeouts alone. Nothing is assumed of clients.

`SfpReset`: the monitor keeps polling and is started again by its supervisor, and a
`reset()` under way runs on. Modules are not assumed to stay, nor callers to come.
Restarts are bounded by `MaxRestarts`, which the properties need: a monitor that
dies in every scan reports nothing.

`FpgaEvents`: calls and the monitor run on (weak fairness), the mutex is handed over and an
unbind gets in between calls (strong fairness of `Enter(u)`, of the monitor's readings `MonStart` and `MonScan`, which take the same mutex, and of `MonBind`: the kernel closes
the file to new calls first), and time passes (`Age`). Kills are bounded.

`CpuctlI2c`: the caller's thread runs on; every poll of the controller is bounded in time.

`ThermalPolicy`: thermalctld keeps going round and is restarted when it dies; restarts are
bounded. Nothing is assumed of fans and temperatures beyond what a property says: `HotRaisesLevel`
supposes that fans answer from some point on.

`FanDrawer`: the daemon asks for the drawer, for its fan and for the fan's status again and again (strong fairness, since
one of them may be under way when another could start), calls run on, the one-second copy of a speed
ages. Nothing is assumed of commands and of drawers.

`NokiaWatchdog`: the script runs and time passes. No more is assumed of the processes, of
`reboot` or of the script being alive.

## 4. Proofs

All theorems hold for every value of the constants under the assumptions named in
the modules. TLC evaluates the assumptions on the instances.

`OcoresI2cProofs` assumes that no two devices share select value and offset (the
tables of lines 45-205), that requests are non-empty sequences of messages, and that
the special values are distinct.
- `TypeCorrect`: `TypeOK`.
- `MuxCorrect`: `MuxInv`, the inductive invariant. That the mux is right during a
  transfer is not inductive alone: it takes who owns the lock, what `last_id` means
  when nobody does, and where a sleep or a probe has got to, for a resume forgets
  `last_id` before any transfer can run while a failed first probe leaves it unset.
- `OwnPort`: `XferAddressesOwnPort`, and `LastIdCorrect`: `LastIdTrusted`, from it.
- `TransferCorrect`: `TransferInv`, inductive next to `MuxInv`. The message cursor, the state of the transfer, the
  command in the master and the wire agree: the wire holds the script up to the place of the
  cursor, and the command for that place is pending, has gone through or was
  refused; after an error only a STOP may follow, or the byte that was in progress. A probe, a removal or a resume
  may disable a master under a transfer, which is why a pending command may be gone. TLC checked it as
  an invariant of `lifecycle` and `steady` first.
- `LoopExit`: `LoopExitReleasesBus`, from it.
- `LoopCorrect`: `LoopLeftWhenOver` under the hypothesis that no device is probed, removed or put
  to sleep (`DevOps = {}`, as in the run `steady`). `SteadyInv`: masters stay enabled, so each command
  is in progress or has raised its flag, and a pass that finds neither comes after the STOP.
- `LoopRunsOut`: `LoopBounded` and `LoopRunsDown`, from `TransferInv`. A transfer has as many passes of the polling
  loop left as its script has events to command, with those its master holds for it (a command in progress, an interrupt not
  served): never more than its script is long, and one. Each pass takes of that, and no step of the masters, of other ports or
  of the driver core adds to it. TLC checked both on `lifecycle` and `steady` first.
- `Refinement`: `TransfersAreAtomic`, that is, `Spec` implements `I2cAtomicTransfer!Spec` under the mapping, at any
  time, with probes, removals and sleeps. The initial states map to the
  initial state; `XferBegin` maps to `Ask`, `XferLock` to `Acquire`, the end of the master's command to
  `Transmit`, `Break` or `StopEarly`, `Process*` to `Store` where a byte arrives, `IsrNone` and `PollTimeout` to `Finish`,
  `XferReturn` to `Return`, and all other steps to a stutter.

`SfpResetProofs` assumes sizes only for types and for `ResetSettles`, and for the rest `DistinctRegs`: resets
that overlap have their pins in different registers. The code does not see to that: eight pins share a register, and
`sfp_shared` shows what happens then.
- `SfpTypeCorrect`: `TypeOK`.
- `HandshakeCorrect`: `HandshakeInv`, inductive. A mailbox at 2 belongs to a port
  the monitor regards as empty, in its list or in the scan that will replace it; a
  caller past the answer keeps its 2; the monitor holding a pending answer has not
  yet written it; a pin write in progress holds what the register holds.
- `ReleaseHandshake`: `ReleasedOnlyWhenEmpty`, from it.
- `ResetSettles`: `SettledStays`, without `DistinctRegs`. It says how far the overwriting of `sfp_shared` reaches: once a reset
  has returned True with the module released, and no neighbour in the register is about to write back what it read before,
  the module stays out of reset until its own next reset, whatever resets of neighbours begin, overlap and end.
- `RecordCorrect`: `RecordedAnew`, from `HandshakeInv` next to it. A release comes only while the port is regarded
  as empty, and what is regarded as empty is recorded anew or stays so (`StaysEmpty`): the list says so at once or
  the scan under way will.
- `TxCorrect`: `TxFollowsReport`, without `DistinctRegs`: only the end of a scan changes the list and the transmitters, and
  it changes both.

`CpldDriverProofs` assumes of the tables what `SceneAssumption` says (a store replaces the bits
that tell its value, values fit, an attribute reads one register at most, a probe that keeps
bits reads before its first write); it holds for any number of users, calls and failures.
- `DriverInvariant`: `CpldInv`, inductive. A byte that was read is the register's content as long
  as nobody wrote it since; if only store handlers did, it is still right in the bits that no
  store replaces, because they write these back as they found them. That is why overlapping
  read-modify-writes lose settings and nothing else. To it belongs how many registers of a
  store are written, and that a probe's kept bits survive its later writes.
- `SettingHoldsAlways`: `SettingHolds`, and `BystandersAlways`: `Bystanders`, from it. `SettingHolds` excepts a setting whose
  store overlapped another read-modify-write of the register: that such a setting may be lost is what the drivers do, and these two say that it
  is lost in no other way.
- `DriverTypes`: `TypeOK`, with `CountsInv` on the counters, the flag and the settings. That a store's value fits
  into its bits, and a flag is 0 or 1, comes from the range checks of the handlers.
- `PortsReleasedAlways`: `PortsReleased`, under the hypothesis that every scene `Releases` its
  ports: a pin that no attribute in use owns is set right by some probe write, and by every later one that covers it.
  This is a fact of the tables, which TLC evaluated true for every scene of
  `MCCpld`; the theorem says that it suffices, whatever users do. `RestInv`: once probe
  is past such a write, the pin is right unless an access to its register failed.

`FpgaEventsProofs` assumes distinct port sets; any ports, pages,
users and failures.
- `PageInvariant`: `PageInv`, inductive. That the register is 0 at rest is not inductive: during
  a call it may hold a page, and then the call must *owe* its return (`Owes`): a read remembers
  the page in `pg`, a write in the place it has come to. Since `pg` is noted after the
  transfer only, a failed transfer breaks this, and such a port is excepted (`stuck`).
- `PageZeroAtRestAlways`: `PageZeroAtRest`, `PageServedAlways`: `PageServed`, `TypesAlways`: `TypeOKEvents`.

`CpuctlI2cProofs` assumes that two channels differ in bus or in ModSel pin and that bus 0 has
no pins (the channel map of cpuctl_mod.c).
- `MuxInvariant`: `MuxInv`, inductive. The cache, if set, names exactly the pin that is low, also
  after a reload, which forgets the cache but not the pins; during a call the bus and the pin are those of
  the channel. The gap is kept by waiting for a channel that is still selected, and by the longer
  pause when the pins change for all others.
- `MuxTypes`: `TypeOK`, `TargetRightAlways`: `TargetRight`, `GapKeptAlways`: `GapKept`.
- `DeliveredAlways`: `Delivered`. The strengthening adds `MovedSoFar` and `Untouched` (TLC checked both on `cpuctl_i2c`):
  between two fragments the module of the channel has seen exactly the bytes up to `pos`, its
  own offset agrees with the read that follows, and no other device heard anything; before
  the first fragment is acknowledged it may have been taken and repeated, so nothing is
  claimed of it, and a false NACK in the middle ends the claim (`echoed`).
- `CallsAreBounded`: `CallsSpend` (TLC checked it on `cpuctl_i2c`): a call has a budget, the attempts that the bytes and
  messages still to move are good for, less the back-off it has come to. Every step spends some and the budget stays
  a natural number, whatever is refused and however the messages are cut.

`ThermalPolicyProofs` assumes the sizes, types of tables and policies, and that down thresholds
rise with the level.
- `ThermalTypeCorrect`: `TypeOK`.
- `LevelLeast`: `LevelIsLeastAllowed`, from lemmas on what each of the loops computes.
- `HeldCorrect`: `HeldInv`, inductive, and `HeldNotTooSlow`: `NotTooSlow`, from it, when the policies
  cover every round (`PoliciesCover`). That held fans are fast enough is not inductive
  alone: between a change of level and the first matching policy it is false (`Pending`), and that
  some policy matches before the round ends rests on the two conditions on absent fans.

`FanDrawerProofs` is about any number of processes and calls.
- `DrawerInvariant`: `DrawerInv`, inductive: a device is in its probe exactly while the one process that
  registered it waits for it, a process about to write the cache has the driver bound, the driver has a hwmon
  directory exactly while it is bound, and a restart of the fan under way has writes left.
- `DrawerTypes`: `TypeOK`, from it.
- `RestartTakesAlways`: `RestartTakes`, under the hypothesis that the daemon is the only process (`Clis = {}`): a restart
  in a call during which the drawer was in and no transfer failed leaves a fan that is driven. What happened during the call is kept by a history variable (`whole`,
  `Observe`) that is added to the steps of `FanDrawer` and restricts none. `RestartInv`: the driver skips what its cache already has, but to set
  monitor mode and to clear it again takes a write at least, and a write brings both bits of the controller in line; and the paths that a restart uses lead to the bound
  driver, because `fan_init` has just found them or the speed was just read through them. The hypothesis is
  needed: a second process may remove the device between two settings, and the
  restart goes on without a word. TLC checked `RestartInv` first, with 3 moves of the drawer and 2 failed transfers.

`NokiaWatchdogProofs` assumes that a round of the script at its dearest, with a `reboot` that does
nothing in each step of the sleep, fits into the timeout.
- `WatchInvariant`: `WatchInv`, inductive: a budget that says for each place of the script how
  much of the timer is left at least, given what may be spent before the next kick.
- `WatchTypes`: `TypeOK`, and `ResetOnlyIfFailingAlways`: `ResetOnlyIfFailing`, from it.
- `DoomedRunsDown`: `InTime` and `RunsDown` (TLC checked both on `nokia_watchdog`). When the processes fail for good the script still
  owes the kicks without a check and those for failures it allows, each worth a timeout: a card is up for
  `SkippedChecks + MinFailures + 1` timeouts at most, and for what the timer holds when the script is gone. Ticks take
  of this, nothing adds to it, and between two sleeps the script goes through a few places only (`Place`).

Model-checked only: liveness (`XferTerminates`, `ReinsertedAfterReset`, `RemovalReported`,
`HotRaisesLevel`, `CoolLowersLevel`, `PagedReported`, `CallEnds`, `ArmedInTheEnd`, `FanDriven`,
`LastingFailureEnds`, `DeadScriptEnds`), which is outside what the proof system does, and `PresenceAgrees`,
which asks of the tables of each platform whether two attributes name the same pin: with no
constant left to generalise over, evaluating the tables is the proof. All other properties of
passing runs are theorems. `RestartTakesAlways` is the safety part of `FanDriven`. `LoopRunsOut`, `CallsAreBounded` and `DoomedRunsDown` are what the liveness of `XferTerminates`, `CallEnds`,
`LastingFailureEnds` and `DeadScriptEnds` rests on: a measure that no step raises and that certain steps lower. That these
steps are taken is fairness, and stays with TLC.

## 5. Findings

1. `device_ops`: `remove` writes CONTROL with neither lock nor selection of its CPLD
   (i2c-ocores.c 1026-1030), as does `suspend` (1044-1048); its own master stays
   enabled. `ocores_init` runs after `pcie_mux_lock` is released (913, 994), so a
   probe initialises whichever master the mux selects then, and so does a resume
   (1062, 1077). TLC finds the removal first; with `DevOps = {"probe"}` it finds
   the probe.
2. `sfp_shared`: a reset pin is changed by reading the register of eight pins and writing it back
   (h4_32d_swpld2.c 316-320), each under `update_lock` and not both. A neighbour's reset that reads the register
   before the release and writes it after puts the module back into reset, and `Sfp.reset` still returns True, which its docstring gives as "successful"
   (sfp.py 180). That nothing else undoes a reset is the theorem `ResetSettles`.

Further formulas are in the modules, each with what a doc, a comment or the purpose of the
code says, and TLC refutes them; they have no run. To see one, put it into the named
configuration with the constants given: as PROPERTY where the formula is temporal
(`PresenceReported`, `MuteCountsAsDown`, `FlatReported`), as INVARIANT otherwise; `FpgaEeprom` alone has no `MaxKills`.

| Formula | Configuration | What TLC shows |
|---|---|---|
| `PresenceReported` (`SfpReset`) | `sfp_reset` | a reset that times out leaves its request in the mailbox (sfp.py 202-204); the late answer hides the module for good (sfp_event.py 91-92) |
| `FullSpeedWhenOneDown` | `thermal_policy` | speeds are written on a change of level only (thermal_infos.py 127), so a fan inserted while the level stays at 3 is not set to full speed |
| `MuteCountsAsDown` | `thermal_policy` with `NumFans = 1` | a fan that cannot be read raises an exception out of `ThermalInfo.collect` (fan.py 142, h6_fan_cpld.c 391) and the level stays as it was |
| `FlatReported` | `fpga_events` | a module without pages has a small file for good, is bound anew in every round and never reported (sfp_event.py 125) |
| `PageRestored` | module `FpgaEeprom`, `SPECIFICATION Spec` | a transfer that fails leaves its page in the register (sys_fpga.c 3010), against the comment of lines 3085-3092 |

Seen while modelling:
- the flag for critical temperatures is reset by every collect and never set in the H6-128 package
  (thermal_infos.py 90), other than in the IXR7250X ones, so `switch.shutdown` is never carried out
  (`OverHighCritical`);
- `brknum` clears three of the four bits it sets; `sync_clk_sel` shows its whole register;
- `fan_wd_store` may stop the fan controller by writing back an errno (max31790_wd.c 459); `fan_wd`
  then reads as armed and nobody starts the controller again (`FanDriven` supposes it runs);
- a fan drawer that is in is reported absent while another process binds its device or has found it unarmed (fan_drawer.py 86-92);
- a daemon that keeps paths of a hwmon directory that is gone reads errors through them while the drawer stays in, so it never
  restarts the fan (fan.py 81-85, 117-118, 182-199); TLC refutes `FanDriven` without the case that says so, with a device that a command
  deletes and binds again under another number;
- after probe the fuse registers of the H6-128's port CPLDs are 0xff and `port_efuse` shows Disabled: nothing sets
  `data->port_efuse` (port_cpld2.c 482-502), whereas `sys_cpld.c` 282 does so for its own;
- after a restart of xcvrd in the middle of a reset the monitor's first scan may find 3 in the mailbox and put the module on
  its list without an event (sfp_event.py 43, 75-78), so `RecordedAnew` speaks of the list and not of events;
- the H6-128 monitor tests presence at start the other way round than later (sfp_event.py 46-51);
- a store to `module_tx_disable_65` or `_66` changes one bit of a register copy that only reads refresh
  (sys_fpga.c 2450), so the second of two stores in a row takes back the first;
- `port_g5_led_en` stores `(usr_val & 0x3) >> 8` (sys_fpga.c 2067), which is always 0;
- `ec_ver` of the H6-64 assigns both bytes to the major version (embd_ctrl.c 117-118), so it shows the month of the date;
- a false NACK in the middle of a write makes a module see bytes twice (cpuctl_i2c.c 227, `echoed`), and
  a read of no bytes returns an uninitialised value (367-379);
- a hung device whose `reboot` does nothing does not stop the kicks of a healthy card.

## 6. Not modelled

- `mackinac/ccdriver` (the CPU controller's driver and its clock parts, most of its lines being tables and register
  programming in sequence): nothing runs beside it, and what the chips do is not in the repository.
- The FPGA drivers of the H4-32D and H5 (`fpga_attr.c`, `fpga_reg.c`, `fpga_gpio.c`, `fpga_i2c.c`), SPI and the H6's `sys_mux.c`:
  register access; the FPGA's sequencer does whole transfers under one mutex. Of the H4-64D's FPGA the cached SFP attributes.
- PSU, EEPROM and RTC drivers, the API classes: conversions of what is read; the RTC driver is
  the kernel's.
- `chassis/`: a client of the NDK process, which holds the state and is not in the repository.
- Scripts, packaging, tests: sequential uses of external tools.
- Lost request: a new `reset()` between the monitor's read of 3 and its 0 (sfp_event.py 78) times out and
  says so; two resets of one port, which share a mailbox, are kept apart in the model.

Next: the FPGA drivers of the H4-32D and H5, whose read-modify-write is inside one lock, as tables of a second kind
next to `CpldDriver`, and their I2C sequencer; an abstract handshake simulated by `SfpReset`; the arming of the 7220 watchdog by
several processes.
