------------------------------ MODULE FanDrawer ------------------------------
(***************************************************************************)
(* A fan drawer of the 7250 IXR-X: the MAX31790 fan controller inside it,  *)
(* its Linux driver (ixr7250x4/modules/max31790_wd.c) and the processes    *)
(* that look after it (ixr7250x4/sonic_platform/fan_drawer.py, fan.py; the *)
(* x1b and x3b have the same files).  A drawer can be pulled and put back  *)
(* while the driver stays bound, with its cache of the fan configuration;  *)
(* the controller is then as after power-on.  The daemon restores it, and  *)
(* keeps the watchdog of the controller armed, which lets the fans run at  *)
(* full speed when nobody talks to it.                                     *)
(***************************************************************************)
EXTENDS Integers, Sequences

CONSTANTS
    Daemon, Clis,               \* processes that use the platform API
    Hwmons,                     \* numbers that the kernel gives hwmon directories
    MaxCalls, MaxFaults, MaxPulls   \* bounds: calls of Clis, failed transfers, moves of the drawer

Users  == {Daemon} \cup Clis
Nobody == "nobody"
Armed  == 3          \* fan_wd as the platform wants it
WdOfError == 1       \* (val & 0x6) >> 1 of the errors of this bus
NoDir  == "no directory"

ASSUME DrawerAssumption ==
    /\ Daemon \notin Clis /\ Nobody \notin Users /\ Hwmons # {} /\ NoDir \notin Hwmons
    /\ MaxCalls \in Nat /\ MaxFaults \in Nat /\ MaxPulls \in Nat

VARIABLES
    inside, chip,    \* the drawer is in; its controller
    dev, prober,     \* the I2C device, and who probes it
    hwmon,           \* the hwmon directory of the bound driver
    cache,           \* data->fan_config
    tach, fresh,     \* the fan turned when last read, and that is valid for HZ
    pc, val,         \* per process: next step, configuration being written
    prog,            \* per process: configuration writes to come
    inited, path,    \* per process: fan_inited, and the directory that fan_init found
    status,          \* per process: it is in get_status
    calls, faults, pulls

chipVars == <<inside, chip, pulls>>
devVars  == <<dev, prober, hwmon>>
fanVars  == <<inited, path>>
procVars == <<pc, status, val, prog, fanVars, calls>>
vars == <<chipVars, devVars, cache, tach, fresh, procVars, faults>>

PowerOn == [run |-> TRUE, wd |-> 0, mon |-> FALSE, en |-> FALSE]
Config  == [mon |-> chip.mon, en |-> chip.en]
NoConfig == [mon |-> FALSE, en |-> FALSE]
Turning == chip.run /\ chip.en /\ ~ chip.mon

Init ==
    /\ inside \in BOOLEAN /\ chip = PowerOn
    /\ dev = "none" /\ prober = Nobody /\ hwmon = NoDir
    /\ cache = NoConfig
    /\ tach = FALSE /\ fresh = FALSE
    /\ pc = [u \in Users |-> "idle"] /\ val = [u \in Users |-> NoConfig]
    /\ prog = [u \in Users |-> <<>>] /\ inited = [u \in Users |-> FALSE]
    /\ path = [u \in Users |-> NoDir] /\ status = [u \in Users |-> FALSE]
    /\ calls = [u \in Clis |-> MaxCalls] /\ faults = MaxFaults /\ pulls = MaxPulls

\* --- transfers -----------------------------------------------------------------

Works  == inside /\ UNCHANGED faults
Breaks == IF inside THEN faults > 0 /\ faults' = faults - 1 ELSE UNCHANGED faults

Go(u, to) == pc' = [pc EXCEPT ![u] = to] /\ UNCHANGED status
Done(u) == pc' = [pc EXCEPT ![u] = "idle"] /\ status' = [status EXCEPT ![u] = FALSE]

\* --- NokiaFanDrawer.get_presence ---------------------------------------------------

Begin(u, to) ==
    /\ pc[u] = "idle"
    /\ IF u \in Clis THEN calls[u] > 0 /\ calls' = [calls EXCEPT ![u] = @ - 1] ELSE UNCHANGED calls
    /\ pc' = [pc EXCEPT ![u] = to]

AskDrawer(u) ==
    /\ Begin(u, IF inside THEN "device" ELSE "idle")
    /\ UNCHANGED <<chipVars, devVars, cache, tach, fresh, status, val, prog, fanVars, faults>>

\* new_device, if there is no directory: it is there before the probe ends.
NewDevice(u) ==
    /\ pc[u] = "device"
    /\ IF dev = "none" THEN dev' = "probing" /\ prober' = u /\ Go(u, "probe")
       ELSE Go(u, "file") /\ UNCHANGED <<dev, prober>>
    /\ UNCHANGED <<chipVars, hwmon, cache, tach, fresh, val, prog, fanVars, calls,
                   faults>>

\* max31790_probe reads the configuration; then fan_init disarms the watchdog, and
\* if that fails nobody hears of it.  Its hwmon directory gets a number that is free.
Probe(u) ==
    /\ pc[u] = "probe"
    /\ \/ Works  /\ dev' = "bound" /\ cache' = Config /\ chip' = [chip EXCEPT !.wd = 0]
       \/ Breaks /\ inside /\ dev' = "bound" /\ cache' = Config /\ UNCHANGED chip
       \/ Breaks /\ dev' = "failed" /\ UNCHANGED <<cache, chip>>
    /\ IF dev' = "bound" THEN hwmon' \in Hwmons ELSE UNCHANGED hwmon
    /\ prober' = Nobody /\ tach' = FALSE /\ fresh' = FALSE
    /\ Go(u, "file")
    /\ UNCHANGED <<inside, pulls, val, prog, fanVars, calls>>

\* A mutant: a device without its driver is kept.
FileKept(u) ==
    /\ pc[u] = "file"
    /\ IF dev = "bound" THEN Go(u, "check") ELSE Done(u)
    /\ UNCHANGED <<chipVars, devVars, cache, tach, fresh, val, prog, fanVars, calls, faults>>
File(u) ==
    /\ pc[u] = "file"
    /\ Go(u, IF dev = "bound" THEN "check" ELSE "delete")
    /\ UNCHANGED <<chipVars, devVars, cache, tach, fresh, val, prog, fanVars, calls,
                   faults>>

\* fan_wd_show reports a failed read as a number.
Reads(v) ==
    \/ dev = "bound" /\ Works  /\ v = chip.wd
    \/ dev = "bound" /\ Breaks /\ v = WdOfError
    \/ dev # "bound" /\ v = WdOfError /\ UNCHANGED faults
Check(u, at, otherwise) ==
    /\ pc[u] = at
    /\ \E v \in 0..3 :
          /\ Reads(v)
          /\ IF v = Armed THEN Done(u) ELSE Go(u, otherwise)
    /\ UNCHANGED <<chipVars, devVars, cache, tach, fresh, val, prog, fanVars, calls>>

\* fan_wd_store takes the negative errno of a failed read for the register's value
\* and writes it back: ETIMEDOUT has the bit that stops the controller, EIO and ENXIO
\* have the one that resets it as well.
Store(u) ==
    /\ pc[u] = "store"
    /\ \/ dev = "bound" /\ Works /\ chip' = [chip EXCEPT !.wd = Armed]
       \/ dev = "bound" /\ Breaks /\ UNCHANGED chip
       \/ dev = "bound" /\ Breaks /\ inside /\ chip' = [chip EXCEPT !.wd = Armed, !.run = FALSE]
       \/ dev = "bound" /\ Breaks /\ inside /\ chip' = PowerOn
       \/ dev # "bound" /\ UNCHANGED <<chip, faults>>
    /\ Go(u, "again")
    /\ UNCHANGED <<inside, pulls, devVars, cache, tach, fresh, val, prog, fanVars, calls>>

\* delete_device does not find a device whose probe is under way; it waits for
\* accesses of the driver's files.
Delete(u) ==
    /\ pc[u] = "delete"
    /\ IF prober = Nobody
       THEN /\ \A v \in Users : pc[v] # "cache"
            /\ dev' = "none" /\ hwmon' = NoDir /\ cache' = NoConfig
            /\ tach' = FALSE /\ fresh' = FALSE
       ELSE UNCHANGED <<dev, hwmon, cache, tach, fresh>>
    /\ Done(u)
    /\ UNCHANGED <<chipVars, prober, val, prog, fanVars, calls, faults>>

\* --- Fan.get_presence, get_status, fan_init ------------------------------------------

\* A process keeps the paths that fan_init has stored until it finds the drawer
\* absent.  They lead to the driver only if it is bound under the same number.
\* (fan_init stores new ones before it uses them, so the others are forgotten here.)
Reachable(u) == hwmon # NoDir /\ path[u] = hwmon

AskFan(u) ==
    /\ Begin(u, IF inside /\ ~ inited[u] THEN "glob" ELSE "idle")
    /\ inited' = [inited EXCEPT ![u] = @ /\ inside]
    /\ path' = IF inside THEN path ELSE [path EXCEPT ![u] = NoDir]
    /\ UNCHANGED <<chipVars, devVars, cache, tach, fresh, status, val, prog, faults>>

AskStatus(u) ==
    /\ Begin(u, IF inited[u] THEN "speed" ELSE "glob")
    /\ status' = [status EXCEPT ![u] = TRUE]
    /\ UNCHANGED <<chipVars, devVars, cache, tach, fresh, val, prog, inited, path, faults>>

\* fan_init looks for the hwmon directory of the driver; without one it ends with an
\* exception.
Glob(u) ==
    /\ pc[u] = "glob"
    /\ IF dev = "bound" THEN Go(u, "speed") /\ path' = [path EXCEPT ![u] = hwmon]
       ELSE Done(u) /\ UNCHANGED path
    /\ UNCHANGED <<chipVars, devVars, cache, tach, fresh, val, prog, inited, calls,
                   faults>>

\* The speed, read from the controller unless the driver's copy is young.
ReadsSpeed(u, v) ==
    \/ ~ Reachable(u) /\ v = "ERR" /\ UNCHANGED <<tach, fresh, faults>>
    \/ /\ Reachable(u)
       /\ \/ fresh /\ UNCHANGED <<tach, fresh, faults>>
          \/ ~ fresh /\ Works /\ tach' = Turning /\ fresh' = TRUE
       /\ v = IF tach' THEN "turns" ELSE "still"
    \/ Reachable(u) /\ ~ fresh /\ Breaks /\ v = "ERR" /\ UNCHANGED <<tach, fresh>>

RestartShort == <<"enable">>   \* a mutant: the cache already says so
\* What fan_init and get_status write to a fan that does not turn.  The driver
\* writes a configuration only if it differs from its cache.
Restart == <<"pwm0", "pwm1", "enable">>
Value(setting) ==
    CASE setting = "pwm0" -> [cache EXCEPT !.mon = TRUE]
      [] setting = "pwm1" -> [cache EXCEPT !.mon = FALSE]
      [] setting = "enable" -> [cache EXCEPT !.en = TRUE]

\* fan_init takes a fan that turns as it is, get_status reports it; an error ends
\* get_status, while fan_init goes on and restarts the fan.
Speed(u) ==
    /\ pc[u] = "speed"
    /\ \E v \in {"turns", "still", "ERR"} :
          /\ ReadsSpeed(u, v)
          /\ \/ /\ v = "turns"
                /\ inited' = [inited EXCEPT ![u] = TRUE]
                /\ IF status[u] /\ ~ inited[u] THEN Go(u, "speed")
                   ELSE Done(u)
                /\ UNCHANGED prog
             \/ v = "ERR" /\ inited[u] /\ Done(u) /\ UNCHANGED <<inited, prog>>
             \/ /\ v = "still" \/ (v = "ERR" /\ ~ inited[u])
                /\ Go(u, "config") /\ prog' = [prog EXCEPT ![u] = Restart]
                /\ UNCHANGED inited
    /\ UNCHANGED <<chipVars, devVars, cache, val, path, calls>>

\* get_status reads the speed again, after its own restart or that of fan_init.
Restarted(u) ==
    /\ inited' = [inited EXCEPT ![u] = TRUE]
    /\ IF status[u] THEN Go(u, IF inited[u] THEN "last" ELSE "speed")
       ELSE Done(u)

\* A mutant: one setting too many.
NextSettingLate(u) ==
    /\ prog' = [prog EXCEPT ![u] = Tail(@)]
    /\ IF Len(prog[u]) = 0 THEN Restarted(u)
       ELSE Go(u, "config") /\ UNCHANGED inited
NextSetting(u) ==
    /\ prog' = [prog EXCEPT ![u] = Tail(@)]
    /\ IF Len(prog[u]) = 1 THEN Restarted(u)
       ELSE Go(u, "config") /\ UNCHANGED inited

\* fan_init gives up if its first write fails; all other failures are ignored.
Failed(u) ==
    IF ~ inited[u] /\ Head(prog[u]) = "pwm0"
    THEN Done(u) /\ prog' = [prog EXCEPT ![u] = <<>>] /\ UNCHANGED inited
    ELSE NextSetting(u)

Last(u) ==
    /\ pc[u] = "last"
    /\ \E v \in {"turns", "still", "ERR"} : ReadsSpeed(u, v)
    /\ Done(u)
    /\ UNCHANGED <<chipVars, devVars, cache, val, prog, inited, path, calls>>

\* The driver has no lock of its own: the cache is read, the controller written, the
\* cache written.
Configure(u) ==
    LET new == Value(Head(prog[u])) IN
    /\ pc[u] = "config"
    /\ \/ ~ Reachable(u) /\ Failed(u) /\ UNCHANGED <<chip, val, faults>>
       \/ Reachable(u) /\ new = cache /\ NextSetting(u) /\ UNCHANGED <<chip, val, faults>>
       \/ Reachable(u) /\ new # cache /\ Breaks /\ Failed(u) /\ UNCHANGED <<chip, val>>
       \/ /\ Reachable(u) /\ new # cache /\ Works
          /\ chip' = [chip EXCEPT !.mon = new.mon, !.en = new.en]
          /\ val' = [val EXCEPT ![u] = new]
          /\ Go(u, "cache") /\ UNCHANGED <<prog, inited>>
    /\ UNCHANGED <<inside, pulls, devVars, cache, tach, fresh, path, calls>>

StoreCache(u) ==
    /\ pc[u] = "cache"
    /\ cache' = val[u] /\ val' = [val EXCEPT ![u] = NoConfig]
    /\ NextSetting(u)
    /\ UNCHANGED <<chipVars, devVars, tach, fresh, path, calls, faults>>

\* --- the world ---------------------------------------------------------------------

Pull ==
    /\ pulls > 0 /\ pulls' = pulls - 1
    /\ inside' = ~ inside /\ chip' = PowerOn
    /\ UNCHANGED <<devVars, cache, tach, fresh, procVars, faults>>

Age ==
    /\ fresh /\ fresh' = FALSE /\ tach' = FALSE
    /\ UNCHANGED <<chipVars, devVars, cache, procVars, faults>>

Work(u) ==
    \/ NewDevice(u) \/ Probe(u) \/ File(u) \/ Check(u, "check", "store") \/ Store(u)
    \/ Check(u, "again", "delete") \/ Delete(u) \/ Glob(u) \/ Speed(u) \/ Configure(u)
    \/ StoreCache(u) \/ Last(u)
Ask(u) == AskDrawer(u) \/ AskFan(u) \/ AskStatus(u)
Next == (\E u \in Users : Ask(u) \/ Work(u)) \/ Pull \/ Age

\* The daemon asks for the drawer, the fan and its status again and again; calls go
\* on; time passes.
Spec ==
    /\ Init /\ [][Next]_vars
    /\ SF_vars(AskDrawer(Daemon)) /\ SF_vars(AskFan(Daemon)) /\ SF_vars(AskStatus(Daemon))
    /\ \A u \in Users : WF_vars(Work(u))
    /\ WF_vars(Age)

\* --- properties ----------------------------------------------------------------------

TypeOK ==
    /\ inside \in BOOLEAN
    /\ chip \in [run : BOOLEAN, wd : 0..3, mon : BOOLEAN, en : BOOLEAN]
    /\ dev \in {"none", "probing", "bound", "failed"}
    /\ dev = "probing" <=> prober # Nobody
    /\ prober # Nobody => pc[prober] = "probe"
    /\ cache \in [mon : BOOLEAN, en : BOOLEAN]
    /\ \A u \in Users : pc[u] = "cache" => dev = "bound"
    /\ \A u \in Users : pc[u] \in {"config", "cache"} <=> prog[u] # <<>>
    /\ hwmon \in Hwmons \cup {NoDir} /\ path \in [Users -> Hwmons \cup {NoDir}]
    /\ hwmon # NoDir <=> dev = "bound"

\* A drawer that stays in its slot has its driver and an armed watchdog in the end,
\* although the driver disarms it when it is bound, and after failed transfers,
\* pulled drawers and calls of other processes that bind or remove the device.
ArmedInTheEnd == <>[]inside => <>[](dev = "bound" /\ chip.wd = Armed)

\* Its fan is driven again in the end, although the driver believes a configuration
\* that a drawer just put in does not have.  A controller that a failed read has
\* stopped is not started again by anybody; and a daemon that has paths of a hwmon
\* directory that is gone reads errors through them as long as the drawer stays in
\* (fan.py 81-85, 117-118, 182-199).
FanDriven ==
    <>[](inside /\ chip.run)
        => <>[]Turning \/ <>[](inited[Daemon] /\ ~ Reachable(Daemon))
=============================================================================
