---------------------------- MODULE FanDrawerProofs ----------------------------
(***************************************************************************)
(* For any number of processes that use the platform API at once: the I2C  *)
(* device of a fan drawer has one probe at a time, its driver stays while  *)
(* an access of one of its files is under way, and a process is inside the *)
(* restart of a fan exactly while it has settings to write.                *)
(***************************************************************************)
EXTENDS FanDrawer, TLAPS

Configs  == [mon : BOOLEAN, en : BOOLEAN]
Steps    == {"idle", "device", "probe", "file", "check", "store", "again", "delete", "glob",
             "speed", "config", "cache", "last"}
Paths    == Hwmons \cup {NoDir}
Settings == {"pwm0", "pwm1", "enable"}
\* What may be left of a restart.
Rests == {<<>>, <<"enable">>, <<"pwm1", "enable">>, Restart}

DataInv ==
    /\ inside \in BOOLEAN
    /\ chip \in [run : BOOLEAN, wd : 0..3, mon : BOOLEAN, en : BOOLEAN]
    /\ cache \in Configs
    /\ val \in [Users -> Configs]
    /\ path \in [Users -> Paths]
    /\ inited \in [Users -> BOOLEAN] /\ status \in [Users -> BOOLEAN]

\* Only the process that registered the device waits for its probe.
StepInv ==
    /\ pc \in [Users -> Steps] /\ prog \in [Users -> Rests]
    /\ dev \in {"none", "probing", "bound", "failed"}
    /\ dev = "probing" <=> prober # Nobody
    /\ prober \in Users \cup {Nobody}
    /\ hwmon \in Paths /\ (hwmon # NoDir <=> dev = "bound")
    /\ \A u \in Users : pc[u] = "probe" <=> prober = u
    /\ \A u \in Users : pc[u] = "cache" => dev = "bound"
    /\ \A u \in Users : pc[u] \in {"config", "cache"} <=> prog[u] # <<>>

DrawerInv == DataInv /\ StepInv

-----------------------------------------------------------------------------
\* A restart gets shorter.
LEMMA RestsShrink ==
    ASSUME NEW p \in Rests, p # <<>>
    PROVE  /\ Head(p) \in Settings /\ Tail(p) \in Rests
           /\ Len(p) = 1 <=> Tail(p) = <<>>
<1>1. CASE p = <<"enable">>
  BY <1>1 DEF Rests, Settings
<1>2. CASE p = <<"pwm1", "enable">>
  <2>1. Head(p) = "pwm1" /\ Len(p) = 2 /\ Tail(p) = <<"enable">>
    BY <1>2
  <2> QED BY <2>1 DEF Rests, Settings
<1>3. CASE p = <<"pwm0", "pwm1", "enable">>
  <2>1. Head(p) = "pwm0" /\ Len(p) = 3 /\ Tail(p) = <<"pwm1", "enable">>
    BY <1>3
  <2> QED BY <2>1 DEF Rests, Settings
<1> QED BY <1>1, <1>2, <1>3 DEF Rests, Restart

LEMMA ConfigTyped == ASSUME DataInv PROVE Config \in Configs
<1>1. chip.mon \in BOOLEAN /\ chip.en \in BOOLEAN
  BY Zenon DEF DataInv
<1> QED BY <1>1, Zenon DEF Config, Configs

LEMMA ValueTyped ==
    ASSUME DataInv, NEW setting \in Settings PROVE Value(setting) \in Configs
BY DEF DataInv, Value, Settings, Configs

\* A process goes to a step outside of restarts and probes.
LEMMA Moves ==
    ASSUME StepInv, NEW u \in Users, NEW to \in Steps \ {"probe", "config", "cache"},
           pc' = [pc EXCEPT ![u] = to], prog' = [prog EXCEPT ![u] = <<>>],
           \/ pc[u] # "probe" /\ UNCHANGED devVars
           \/ /\ prober' = Nobody /\ dev' \in {"none", "bound", "failed"}
              /\ hwmon' \in Paths /\ (hwmon' # NoDir <=> dev' = "bound")
              /\ prober \in {u, Nobody} /\ \A v \in Users \ {u} : pc[v] # "cache"
    PROVE  StepInv'
<1>1. /\ pc' \in [Users -> Steps] /\ pc'[u] = to
      /\ \A v \in Users \ {u} : pc'[v] = pc[v] /\ prog'[v] = prog[v]
      /\ prog' \in [Users -> Rests] /\ prog'[u] = <<>>
  BY DEF StepInv, Rests
<1>2. Nobody \notin Users
  BY DrawerAssumption
<1>3. CASE pc[u] # "probe" /\ UNCHANGED devVars
  BY <1>1, <1>2, <1>3 DEF StepInv, devVars
<1>4. CASE /\ prober' = Nobody /\ dev' \in {"none", "bound", "failed"}
           /\ hwmon' \in Paths /\ (hwmon' # NoDir <=> dev' = "bound")
           /\ prober \in {u, Nobody} /\ \A v \in Users \ {u} : pc[v] # "cache"
  BY <1>1, <1>2, <1>4 DEF StepInv
<1> QED BY <1>3, <1>4

\* Outside of a restart there is nothing left of one.
LEMMA NoRest ==
    ASSUME StepInv, NEW u \in Users, pc[u] \notin {"config", "cache"}
    PROVE  prog[u] = <<>> /\ prog = [prog EXCEPT ![u] = <<>>]
BY DEF StepInv

\* A step of get_presence, which leaves restarts alone.
LEMMA Looks ==
    ASSUME StepInv, NEW u \in Users, pc[u] \notin {"config", "cache", "probe"},
           NEW to \in Steps \ {"probe", "config", "cache"}, pc' = [pc EXCEPT ![u] = to],
           UNCHANGED <<devVars, prog>>
    PROVE  StepInv'
<1>1. prog' = [prog EXCEPT ![u] = <<>>]
  BY NoRest
<1> QED BY <1>1, Moves

LEMMA DrawerStarts == ASSUME Init PROVE DrawerInv
<1>1. PowerOn \in [run : BOOLEAN, wd : 0..3, mon : BOOLEAN, en : BOOLEAN]
  BY DEF PowerOn
<1>2. NoConfig \in Configs
  BY DEF NoConfig, Configs
<1>3. DataInv
  BY <1>1, <1>2 DEF Init, DataInv, Paths
<1>4. StepInv
  BY DrawerAssumption DEF Init, StepInv, Steps, Rests, Paths
<1> QED BY <1>3, <1>4 DEF DrawerInv

-----------------------------------------------------------------------------
LEMMA NoConfigTyped == NoConfig \in Configs
BY DEF NoConfig, Configs

LEMMA DataKeeps == ASSUME DrawerInv, [Next]_vars PROVE DataInv'
<1> DEFINE Data == <<inside, chip, cache, val, path, inited, status>>
<1>1. DataInv /\ StepInv
  BY DEF DrawerInv
<1>2. CASE UNCHANGED Data
  BY <1>1, <1>2 DEF DataInv
\* Whatever the step is, a process may come to the end of its call.
<1>3. ASSUME NEW u \in Users, NEW to, Go(u, to) \/ Done(u)
      PROVE  status' \in [Users -> BOOLEAN]
  BY <1>1, <1>3 DEF Go, Done, DataInv
<1>4. ASSUME NEW u \in Users, AskDrawer(u) \/ AskFan(u) \/ AskStatus(u) PROVE DataInv'
  <2>1. /\ UNCHANGED <<inside, chip, cache, val>>
        /\ UNCHANGED path \/ path' = [path EXCEPT ![u] = NoDir]
        /\ UNCHANGED inited \/ inited' = [inited EXCEPT ![u] = @ /\ inside]
        /\ UNCHANGED status \/ status' = [status EXCEPT ![u] = TRUE]
    BY <1>4 DEF AskDrawer, AskFan, AskStatus, chipVars, fanVars
  <2> QED BY <1>1, <2>1 DEF DataInv, Paths
<1>5. ASSUME NEW u \in Users, Probe(u) PROVE DataInv'
  <2>1. /\ chip' = [chip EXCEPT !.wd = 0] \/ chip' = chip
        /\ cache' = Config \/ cache' = cache
        /\ UNCHANGED <<inside, val, path, inited>> /\ Go(u, "file")
    BY <1>5 DEF Probe, fanVars
  <2>2. chip' \in [run : BOOLEAN, wd : 0..3, mon : BOOLEAN, en : BOOLEAN]
    BY <1>1, <2>1 DEF DataInv
  <2>3. cache' \in Configs
    BY <1>1, <2>1, ConfigTyped, Zenon DEF DataInv
  <2> QED BY <1>1, <1>3, <2>1, <2>2, <2>3 DEF DataInv
<1>6. ASSUME NEW u \in Users, Store(u) PROVE DataInv'
  <2>1. /\ \/ chip' = [chip EXCEPT !.wd = 3] \/ chip' = chip \/ chip' = PowerOn
           \/ chip' = [chip EXCEPT !.wd = 3, !.run = FALSE]
        /\ UNCHANGED <<inside, cache, val, path, inited>> /\ Go(u, "again")
    BY <1>6 DEF Store, Armed, fanVars
  <2>2. chip' \in [run : BOOLEAN, wd : 0..3, mon : BOOLEAN, en : BOOLEAN]
    <3>1. CASE chip' = [chip EXCEPT !.wd = 3] \/ chip' = chip
      BY <1>1, <3>1 DEF DataInv
    <3>2. CASE chip' = [chip EXCEPT !.wd = 3, !.run = FALSE]
      <4>1. chip' = [run |-> FALSE, wd |-> 3, mon |-> chip.mon, en |-> chip.en]
        BY <1>1, <3>2 DEF DataInv
      <4>2. chip.mon \in BOOLEAN /\ chip.en \in BOOLEAN
        BY <1>1, Zenon DEF DataInv
      <4> QED BY <4>1, <4>2
    <3>3. CASE chip' = PowerOn
      BY <3>3 DEF PowerOn
    <3> QED BY <2>1, <3>1, <3>2, <3>3
  <2> QED BY <1>1, <1>3, <2>1, <2>2 DEF DataInv
<1>7. ASSUME NEW u \in Users, Delete(u) PROVE DataInv'
  <2>1. /\ cache' = NoConfig \/ cache' = cache
        /\ UNCHANGED <<inside, chip, val, path, inited>> /\ Done(u)
    BY <1>7 DEF Delete, chipVars, fanVars
  <2>2. cache' \in Configs
    BY <1>1, <2>1, NoConfigTyped DEF DataInv
  <2> QED BY <1>1, <1>3, <2>1, <2>2 DEF DataInv
<1>8. ASSUME NEW u \in Users, Glob(u) PROVE DataInv'
  <2>1. /\ UNCHANGED path \/ path' = [path EXCEPT ![u] = hwmon]
        /\ UNCHANGED <<inside, chip, cache, val, inited>> /\ (Go(u, "speed") \/ Done(u))
    BY <1>8 DEF Glob, chipVars
  <2>2. path' \in [Users -> Paths]
    BY <1>1, <2>1 DEF DataInv, StepInv
  <2> QED BY <1>1, <1>3, <2>1, <2>2 DEF DataInv
<1>9. ASSUME NEW u \in Users, Speed(u) PROVE DataInv'
  <2>1. /\ UNCHANGED inited \/ inited' = [inited EXCEPT ![u] = TRUE]
        /\ UNCHANGED <<inside, chip, cache, val, path>>
        /\ Go(u, "speed") \/ Done(u) \/ Go(u, "config")
    BY <1>9 DEF Speed, chipVars
  <2> QED BY <1>1, <1>3, <2>1 DEF DataInv
\* The next setting, or the end of the restart.
<1>10. ASSUME NEW u \in Users, NextSetting(u) \/ Failed(u)
       PROVE  inited' \in [Users -> BOOLEAN] /\ status' \in [Users -> BOOLEAN]
  <2>1. /\ UNCHANGED inited \/ inited' = [inited EXCEPT ![u] = TRUE]
        /\ Done(u) \/ \E to \in Steps : Go(u, to)
    BY <1>10 DEF NextSetting, Failed, Restarted, Steps
  <2> QED BY <1>1, <1>3, <2>1 DEF DataInv
<1>11. ASSUME NEW u \in Users, Configure(u) PROVE DataInv'
  <2> DEFINE new == Value(Head(prog[u]))
  <2>1. prog[u] \in Rests /\ prog[u] # <<>>
    BY <1>1, <1>11 DEF Configure, StepInv
  <2>2. new \in Configs
    BY <1>1, <2>1, RestsShrink, ValueTyped
  <2> HIDE DEF new
  <2>3. /\ \/ UNCHANGED <<chip, val>>
           \/ /\ chip' = [chip EXCEPT !.mon = new.mon, !.en = new.en]
              /\ val' = [val EXCEPT ![u] = new]
        /\ UNCHANGED <<inside, cache, path>>
        /\ NextSetting(u) \/ Failed(u) \/ (Go(u, "cache") /\ UNCHANGED inited)
    BY <1>11 DEF Configure, new
  <2>4. inited' \in [Users -> BOOLEAN] /\ status' \in [Users -> BOOLEAN]
    BY <1>1, <1>3, <1>10, <2>3 DEF DataInv
  <2>5. /\ chip' \in [run : BOOLEAN, wd : 0..3, mon : BOOLEAN, en : BOOLEAN]
        /\ val' \in [Users -> Configs]
    BY <1>1, <2>2, <2>3 DEF DataInv, Configs
  <2> QED BY <1>1, <2>3, <2>4, <2>5 DEF DataInv
<1>12. ASSUME NEW u \in Users, StoreCache(u) PROVE DataInv'
  <2>1. /\ cache' = val[u] /\ val' = [val EXCEPT ![u] = NoConfig] /\ NextSetting(u)
        /\ UNCHANGED <<inside, chip, path>>
    BY <1>12 DEF StoreCache, chipVars
  <2>2. cache' \in Configs /\ val' \in [Users -> Configs]
    BY <1>1, <2>1, NoConfigTyped DEF DataInv
  <2> QED BY <1>1, <1>10, <2>1, <2>2 DEF DataInv
<1>13. CASE Pull
  <2>1. inside' = (~ inside) /\ chip' = PowerOn /\ UNCHANGED <<cache, val, path, inited, status>>
    BY <1>13 DEF Pull, procVars, fanVars
  <2>2. inside' \in BOOLEAN
    BY <2>1, Zenon
  <2>3. PowerOn \in [run : BOOLEAN, wd : 0..3, mon : BOOLEAN, en : BOOLEAN]
    BY DEF PowerOn
  <2> QED BY <1>1, <2>1, <2>2, <2>3 DEF DataInv
<1>14. ASSUME NEW u \in Users,
              \/ NewDevice(u) \/ File(u) \/ Check(u, "check", "store")
              \/ Check(u, "again", "delete") \/ Last(u)
       PROVE  DataInv'
  <2>1. /\ UNCHANGED <<inside, chip, cache, val, path, inited>>
        /\ Done(u) \/ \E to \in Steps : Go(u, to)
    BY <1>14 DEF NewDevice, File, Check, Last, chipVars, fanVars, Steps
  <2> QED BY <1>1, <1>3, <2>1 DEF DataInv
<1>15. CASE Age \/ UNCHANGED vars
  BY <1>2, <1>15 DEF Age, vars, chipVars, procVars, fanVars
<1> QED BY <1>4, <1>5, <1>6, <1>7, <1>8, <1>9, <1>11, <1>12, <1>13, <1>14, <1>15
        DEF Next, Ask, Work

\* The next setting of a restart, or its end.
LEMMA SettingKeeps ==
    ASSUME StepInv, NEW u \in Users, pc[u] \in {"config", "cache"}, UNCHANGED devVars,
           NextSetting(u) \/ Failed(u)
    PROVE  StepInv'
<1>1. /\ prog[u] \in Rests /\ prog[u] # <<>> /\ prog \in [Users -> Rests]
      /\ pc \in [Users -> Steps]
  BY DEF StepInv
<1>2. Tail(prog[u]) \in Rests /\ (Len(prog[u]) = 1 <=> Tail(prog[u]) = <<>>)
  BY <1>1, RestsShrink
<1>3. CASE NextSetting(u) /\ Len(prog[u]) # 1
  <2>1. pc' = [pc EXCEPT ![u] = "config"] /\ prog' = [prog EXCEPT ![u] = Tail(prog[u])]
    BY <1>3 DEF NextSetting, Go
  <2>2. /\ pc' \in [Users -> Steps] /\ pc'[u] = "config" /\ prog' \in [Users -> Rests]
        /\ prog'[u] # <<>>
        /\ \A v \in Users \ {u} : pc'[v] = pc[v] /\ prog'[v] = prog[v]
    BY <1>1, <1>2, <1>3, <2>1 DEF Steps
  <2> QED BY <2>2 DEF StepInv, devVars
<1>4. ASSUME NEW to \in {"idle", "last", "speed"}, pc' = [pc EXCEPT ![u] = to],
             prog' = [prog EXCEPT ![u] = <<>>]
      PROVE  StepInv'
  BY <1>4, Moves DEF Steps
<1>5. CASE NextSetting(u) /\ Len(prog[u]) = 1
  BY <1>2, <1>4, <1>5 DEF NextSetting, Restarted, Go, Done
<1>6. CASE Failed(u) /\ ~ NextSetting(u)
  BY <1>4, <1>6 DEF Failed, Done
<1> QED BY <1>3, <1>4, <1>5, <1>6

LEMMA StepKeeps == ASSUME DrawerInv, [Next]_vars PROVE StepInv'
<1>1. StepInv
  BY DEF DrawerInv
<1>2. ASSUME NEW u \in Users, Ask(u) PROVE StepInv'
  <2>1. PICK to \in {"device", "speed", "glob", "idle"} : Begin(u, to)
    BY <1>2 DEF Ask, AskDrawer, AskFan, AskStatus
  <2>2. pc[u] = "idle" /\ pc' = [pc EXCEPT ![u] = to]
    BY <2>1 DEF Begin
  <2>3. UNCHANGED <<devVars, prog>>
    BY <1>2 DEF Ask, AskDrawer, AskFan, AskStatus
  <2> QED BY <1>1, <2>2, <2>3, Looks DEF Steps
<1>3. ASSUME NEW u \in Users, NewDevice(u) PROVE StepInv'
  <2>1. pc[u] = "device" /\ UNCHANGED <<hwmon, prog>>
    BY <1>3 DEF NewDevice
  <2>2. CASE dev = "none"
    <3>1. dev' = "probing" /\ prober' = u /\ pc' = [pc EXCEPT ![u] = "probe"]
      BY <1>3, <2>2 DEF NewDevice, Go
    <3>2. /\ pc' \in [Users -> Steps] /\ pc'[u] = "probe"
          /\ \A v \in Users \ {u} : pc'[v] = pc[v]
      BY <1>1, <3>1 DEF StepInv, Steps
    <3> QED BY <1>1, <2>1, <2>2, <3>1, <3>2, DrawerAssumption DEF StepInv
  <2>3. CASE dev # "none"
    BY <1>1, <1>3, <2>1, <2>3, Looks DEF NewDevice, Steps, Go, devVars
  <2> QED BY <2>2, <2>3
<1>4. ASSUME NEW u \in Users, Probe(u) PROVE StepInv'
  <2>1. /\ pc[u] = "probe" /\ prober' = Nobody /\ dev' \in {"bound", "failed"}
        /\ pc' = [pc EXCEPT ![u] = "file"] /\ UNCHANGED prog
        /\ IF dev' = "bound" THEN hwmon' \in Hwmons ELSE UNCHANGED hwmon
    BY <1>4 DEF Probe, Go
  <2>2. /\ prober = u /\ hwmon = NoDir /\ \A v \in Users : pc[v] # "cache"
        /\ hwmon' \in Paths /\ (hwmon' # NoDir <=> dev' = "bound")
    BY <1>1, <2>1, DrawerAssumption DEF StepInv, Paths
  <2>3. prog' = [prog EXCEPT ![u] = <<>>]
    BY <1>1, <2>1, NoRest
  <2> QED BY <1>1, <2>1, <2>2, <2>3, Moves DEF Steps
<1>5. ASSUME NEW u \in Users, File(u) PROVE StepInv'
  <2>1. PICK to \in {"check", "delete"} : pc' = [pc EXCEPT ![u] = to]
    BY <1>5 DEF File, Go
  <2>2. pc[u] = "file" /\ UNCHANGED <<devVars, prog>>
    BY <1>5 DEF File
  <2> QED BY <1>1, <2>1, <2>2, Looks DEF Steps
<1>6. ASSUME NEW u \in Users, Check(u, "check", "store") \/ Check(u, "again", "delete")
      PROVE  StepInv'
  <2>1. PICK to \in {"idle", "store", "delete"} : pc' = [pc EXCEPT ![u] = to]
    BY <1>6 DEF Check, Go, Done
  <2>2. pc[u] \in {"check", "again"} /\ UNCHANGED <<devVars, prog>>
    BY <1>6 DEF Check
  <2> QED BY <1>1, <2>1, <2>2, Looks DEF Steps
<1>7. ASSUME NEW u \in Users, Store(u) PROVE StepInv'
  <2>1. pc[u] = "store" /\ pc' = [pc EXCEPT ![u] = "again"] /\ UNCHANGED <<devVars, prog>>
    BY <1>7 DEF Store, Go
  <2> QED BY <1>1, <2>1, Looks DEF Steps
<1>8. ASSUME NEW u \in Users, Delete(u) PROVE StepInv'
  <2>1. pc[u] = "delete" /\ pc' = [pc EXCEPT ![u] = "idle"] /\ UNCHANGED <<prober, prog>>
    BY <1>8 DEF Delete, Done
  <2>2. CASE prober = Nobody
    <3>1. dev' = "none" /\ hwmon' = NoDir /\ \A v \in Users : pc[v] # "cache"
      BY <1>8, <2>2 DEF Delete
    <3>2. prog' = [prog EXCEPT ![u] = <<>>]
      BY <1>1, <2>1, NoRest
    <3> QED BY <1>1, <2>1, <2>2, <3>1, <3>2, Moves DEF Steps, Paths
  <2>3. CASE prober # Nobody
    <3>1. UNCHANGED devVars
      BY <1>8, <2>3 DEF Delete, devVars
    <3> QED BY <1>1, <2>1, <3>1, Looks DEF Steps
  <2> QED BY <2>2, <2>3
<1>9. ASSUME NEW u \in Users, Speed(u) PROVE StepInv'
  <2>1. pc[u] = "speed" /\ UNCHANGED devVars
    BY <1>9 DEF Speed
  <2>2. \/ \E to \in {"idle", "speed"} : pc' = [pc EXCEPT ![u] = to] /\ UNCHANGED prog
        \/ pc' = [pc EXCEPT ![u] = "config"] /\ prog' = [prog EXCEPT ![u] = Restart]
    BY <1>9 DEF Speed, Go, Done
  <2>3. ASSUME NEW to \in {"idle", "speed"}, pc' = [pc EXCEPT ![u] = to], UNCHANGED prog
        PROVE  StepInv'
    BY <1>1, <2>1, <2>3, Looks DEF Steps
  <2>4. CASE pc' = [pc EXCEPT ![u] = "config"] /\ prog' = [prog EXCEPT ![u] = Restart]
    <3>1. /\ pc' \in [Users -> Steps] /\ pc'[u] = "config" /\ prog' \in [Users -> Rests]
          /\ prog'[u] = Restart /\ Restart # <<>>
          /\ \A v \in Users \ {u} : pc'[v] = pc[v] /\ prog'[v] = prog[v]
      BY <1>1, <2>4 DEF StepInv, Steps, Rests, Restart
    <3> QED BY <1>1, <2>1, <3>1 DEF StepInv, devVars
  <2> QED BY <2>2, <2>3, <2>4
<1>10. ASSUME NEW u \in Users, Configure(u) PROVE StepInv'
  <2>1. pc[u] = "config" /\ UNCHANGED devVars
    BY <1>10 DEF Configure
  <2>2. \/ NextSetting(u) \/ Failed(u)
        \/ dev = "bound" /\ Go(u, "cache") /\ UNCHANGED prog
    BY <1>1, <1>10 DEF Configure, Reachable, StepInv
  <2>3. CASE dev = "bound" /\ Go(u, "cache") /\ UNCHANGED prog
    <3>1. /\ pc' \in [Users -> Steps] /\ pc'[u] = "cache"
          /\ \A v \in Users \ {u} : pc'[v] = pc[v]
      BY <1>1, <2>3 DEF StepInv, Steps, Go
    <3> QED BY <1>1, <2>1, <2>3, <3>1 DEF StepInv, devVars
  <2> QED BY <1>1, <2>1, <2>2, <2>3, SettingKeeps
<1>11. ASSUME NEW u \in Users, StoreCache(u) PROVE StepInv'
  BY <1>1, <1>11, SettingKeeps DEF StoreCache
<1>12. ASSUME NEW u \in Users, Glob(u) \/ Last(u) PROVE StepInv'
  <2>1. PICK to \in {"speed", "idle"} : pc' = [pc EXCEPT ![u] = to]
    BY <1>12 DEF Glob, Last, Go, Done
  <2>2. pc[u] \in {"glob", "last"} /\ UNCHANGED <<devVars, prog>>
    BY <1>12 DEF Glob, Last
  <2> QED BY <1>1, <2>1, <2>2, Looks DEF Steps
<1>13. CASE Pull \/ Age \/ UNCHANGED vars
  BY <1>1, <1>13 DEF Pull, Age, vars, devVars, procVars, StepInv
<1> QED BY <1>2, <1>3, <1>4, <1>5, <1>6, <1>7, <1>8, <1>9, <1>10, <1>11, <1>12, <1>13
        DEF Next, Work

\* The inductive invariant of max31790_wd.c's driver and fan_drawer.py's processes.
THEOREM DrawerInvariant == Spec => []DrawerInv
<1>1. DrawerInv /\ [Next]_vars => DrawerInv'
  BY DataKeeps, StepKeeps DEF DrawerInv
<1> QED BY <1>1, DrawerStarts, PTL DEF Spec

\* new_device and delete_device never overlap a probe or a write of fan_config
\* under way, and a restart of a fan ends with nothing left to write, however many
\* processes look after the drawer.
THEOREM DrawerTypes == Spec => []TypeOK
<1>1. DrawerInv => TypeOK
  BY DEF DrawerInv, DataInv, StepInv, TypeOK, Configs, Paths
<1> QED BY <1>1, DrawerInvariant, PTL

-----------------------------------------------------------------------------
(* A restart takes: although the driver skips a configuration that its     *)
(* cache already has, and the cache survives a change of the drawer, a     *)
(* restart with all transfers fine leaves a fan that is driven, as long as *)
(* the daemon is the only process.  What was fine is told by a history     *)
(* variable that follows the steps of FanDrawer and does not restrict them.*)

VARIABLE whole    \* since the daemon's call began, the drawer was in and no transfer failed

Observe == whole' = (inside' /\ (pc[Daemon] = "idle" \/ (whole /\ UNCHANGED faults)))
HSpec   == Init /\ whole = FALSE /\ [][Next /\ Observe]_<<vars, whole>>

RestartTakes ==
    [][prog[Daemon] # <<>> /\ prog'[Daemon] = <<>> /\ whole' => chip'.en /\ ~ chip'.mon]_<<vars,
                                                                                         whole>>

Agrees(c) == c.mon = chip.mon /\ c.en = chip.en

\* Setting monitor mode and clearing it again makes the driver write once at least,
\* and a write brings both bits in line with the cache.
Brought(c, rest) ==
    /\ rest = <<"pwm1", "enable">> => c.mon
    /\ rest = <<"enable">> => Agrees(c) /\ ~ c.mon
    /\ rest = <<>> => Agrees(c) /\ ~ c.mon /\ c.en

\* A call of the daemon that restarts the fan has the paths of the bound driver: it
\* has just found them, or it has just read the speed through them.
RestartInv ==
    /\ pc[Daemon] \in {"config", "cache"} => Reachable(Daemon)
    /\ pc[Daemon] = "speed" /\ ~ inited[Daemon] => Reachable(Daemon)
    /\ whole \in BOOLEAN /\ (whole => inside)
    /\ whole =>
          /\ pc[Daemon] = "config" => Brought(cache, prog[Daemon])
          /\ pc[Daemon] = "cache" => Agrees(val[Daemon]) /\ Brought(val[Daemon], Tail(prog[Daemon]))

\* What the history says after a step.
LEMMA WholeTells ==
    ASSUME RestartInv, inside \in BOOLEAN, Observe
    PROVE  /\ whole' \in BOOLEAN /\ (whole' => inside')
           /\ whole' /\ pc[Daemon] # "idle" => whole /\ UNCHANGED faults
BY DEF Observe, RestartInv

\* So many transfers may fail still.
LEMMA FaultsLeft == ASSUME faults \in Nat, [Next]_vars PROVE faults' \in Nat
<1>1. ASSUME Works \/ Breaks \/ UNCHANGED faults PROVE faults' \in Nat
  BY <1>1 DEF Works, Breaks
<1>2. ASSUME NEW u \in Users, Ask(u) \/ Work(u) PROVE faults' \in Nat
  BY <1>1, <1>2 DEF Ask, AskDrawer, AskFan, AskStatus, Work, NewDevice, Probe, File, Check, Reads,
     Store, Delete, Glob, Speed, ReadsSpeed, Configure, StoreCache, Last
<1> QED BY <1>1, <1>2 DEF Next, Pull, Age, vars

\* The next setting of a restart: what is left, or the driven fan at its end.
LEMMA SettingTakes ==
    ASSUME DrawerInv, RestartInv, Daemon \in Users, pc[Daemon] \in {"config", "cache"},
           NextSetting(Daemon), UNCHANGED <<hwmon, path>>, whole' \in BOOLEAN, whole' => inside',
           whole' => Brought(cache, prog[Daemon])'
    PROVE  /\ RestartInv'
           /\ prog'[Daemon] = <<>> /\ whole' => chip'.en /\ ~ chip'.mon
<1>1. Reachable(Daemon)'
  BY DEF RestartInv, Reachable
<1>2. pc'[Daemon] # "cache"
  BY DEF DrawerInv, StepInv, NextSetting, Restarted, Go, Done
<1>3. prog'[Daemon] = <<>> /\ whole' => chip'.en /\ ~ chip'.mon
  BY DEF Brought, Agrees
<1> QED BY <1>1, <1>2, <1>3 DEF RestartInv

LEMMA ConfigureTakes ==
    ASSUME DrawerInv, RestartInv, faults \in Nat, Daemon \in Users, Configure(Daemon), Observe
    PROVE  /\ RestartInv'
           /\ prog'[Daemon] = <<>> /\ whole' => chip'.en /\ ~ chip'.mon
<1> DEFINE rest == prog[Daemon]
           new  == Value(Head(rest))
<1>1. /\ DataInv /\ StepInv /\ pc[Daemon] = "config" /\ Reachable(Daemon)
      /\ UNCHANGED <<inside, hwmon, cache, path>>
  BY DEF DrawerInv, Configure, RestartInv, devVars
<1>2. /\ rest \in Rests /\ rest # <<>> /\ new \in Configs /\ cache \in Configs
  <2>1. rest \in Rests /\ rest # <<>>
    BY <1>1 DEF StepInv
  <2> QED BY <1>1, <2>1, RestsShrink, ValueTyped DEF DataInv
<1>3. /\ whole' \in BOOLEAN /\ (whole' => inside')
      /\ whole' => whole /\ UNCHANGED faults
      /\ whole => Brought(cache, rest)
  BY <1>1, WholeTells DEF RestartInv, DataInv
\* What the configuration of the next setting has to do with the cache.
<1>4. /\ rest = Restart => new.mon /\ Tail(rest) = <<"pwm1", "enable">>
      /\ rest = <<"pwm1", "enable">> => ~ new.mon /\ Tail(rest) = <<"enable">>
      /\ rest = <<"enable">> => new.mon = cache.mon /\ new.en /\ Tail(rest) = <<>>
  <2>1. CASE rest = Restart
    BY <1>2, <2>1 DEF Restart, Value, Configs
  <2>2. CASE rest = <<"pwm1", "enable">>
    BY <1>2, <2>2 DEF Restart, Value, Configs
  <2>3. CASE rest = <<"enable">>
    BY <1>2, <2>3 DEF Restart, Value, Configs
  <2> QED BY <1>2, <2>1, <2>2, <2>3 DEF Rests, Restart
<1>5. \/ rest = Restart \/ rest = <<"pwm1", "enable">> \/ rest = <<"enable">>
  BY <1>2 DEF Rests
<1> HIDE DEF rest, new
<1>6. CASE new = cache /\ NextSetting(Daemon) /\ UNCHANGED chip
  <2>1. prog'[Daemon] = Tail(rest)
    BY <1>1, <1>6 DEF NextSetting, StepInv, rest
  <2>2. ASSUME whole' PROVE Brought(cache, prog[Daemon])'
    <3>1. Brought(cache, rest)
      BY <1>3, <2>2
    <3>2. Brought(cache, Tail(rest))
      <4>1. CASE rest = Restart
        BY <1>4, <1>6, <4>1 DEF Brought
      <4>2. CASE rest = <<"pwm1", "enable">>
        <5>1. cache.mon
          BY <3>1, <4>2 DEF Brought
        <5> QED BY <1>4, <1>6, <4>2, <5>1
      <4>3. CASE rest = <<"enable">>
        BY <1>4, <1>6, <3>1, <4>3 DEF Brought, Agrees
      <4> QED BY <1>5, <4>1, <4>2, <4>3
    <3> QED BY <1>1, <1>6, <2>1, <3>2 DEF Brought, Agrees
  <2> QED BY <1>1, <1>3, <1>6, <2>2, SettingTakes
<1>7. CASE Breaks /\ Failed(Daemon) /\ UNCHANGED chip
  <2>1. ~ whole'
    <3>1. inside => faults' # faults
      BY <1>7 DEF Breaks
    <3>2. whole => inside
      BY DEF RestartInv
    <3> QED BY <1>3, <3>1, <3>2, Zenon
  <2>2. CASE NextSetting(Daemon)
    BY <1>1, <1>3, <2>1, <2>2, SettingTakes
  <2>3. CASE Done(Daemon)
    <3>1. pc'[Daemon] = "idle"
      BY <1>1, <2>3 DEF Done, StepInv
    <3> QED BY <1>3, <2>1, <3>1 DEF RestartInv
  <2> QED BY <1>7, <2>2, <2>3 DEF Failed
<1>8. CASE /\ Go(Daemon, "cache") /\ UNCHANGED prog
           /\ chip' = [chip EXCEPT !.mon = new.mon, !.en = new.en]
           /\ val' = [val EXCEPT ![Daemon] = new]
  <2>1. /\ pc'[Daemon] = "cache" /\ val'[Daemon] = new /\ prog'[Daemon] # <<>>
        /\ chip'.mon = new.mon /\ chip'.en = new.en
    BY <1>1, <1>2, <1>8 DEF Go, StepInv, DataInv, rest
  <2>2. Agrees(val[Daemon])'
    BY <2>1 DEF Agrees
  <2>3. Tail(prog[Daemon])' = Tail(rest)
    BY <1>8 DEF rest
  <2>4. /\ Tail(rest) = <<"pwm1", "enable">> => new.mon
        /\ Tail(rest) = <<"enable">> => ~ new.mon
        /\ whole' /\ Tail(rest) = <<>> => ~ new.mon /\ new.en
    <3>1. whole' /\ rest = <<"enable">> => ~ cache.mon
      BY <1>3 DEF Brought
    <3> QED BY <1>4, <1>5, <3>1
  <2>5. whole' => Brought(val[Daemon], Tail(prog[Daemon]))'
    BY <2>1, <2>2, <2>3, <2>4 DEF Brought
  <2>6. Reachable(Daemon)'
    BY <1>1 DEF Reachable
  <2> QED BY <1>3, <2>1, <2>2, <2>5, <2>6 DEF RestartInv
<1>9. \/ new = cache /\ NextSetting(Daemon) /\ UNCHANGED chip
      \/ Breaks /\ Failed(Daemon) /\ UNCHANGED chip
      \/ /\ Go(Daemon, "cache") /\ UNCHANGED prog
         /\ chip' = [chip EXCEPT !.mon = new.mon, !.en = new.en]
         /\ val' = [val EXCEPT ![Daemon] = new]
  BY <1>1 DEF Configure, new, rest
<1> QED BY <1>6, <1>7, <1>8, <1>9

LEMMA SpeedTakes ==
    ASSUME DrawerInv, RestartInv, Daemon \in Users, Speed(Daemon), Observe
    PROVE  RestartInv'
<1>1. /\ pc[Daemon] = "speed" /\ UNCHANGED <<hwmon, path>> /\ StepInv /\ DataInv
      /\ whole' \in BOOLEAN /\ (whole' => inside')
  BY WholeTells DEF DrawerInv, Speed, DataInv, devVars
<1>2. CASE Done(Daemon)
  <2>1. pc'[Daemon] = "idle"
    BY <1>1, <1>2 DEF Done, StepInv
  <2> QED BY <1>1, <2>1 DEF RestartInv
<1>3. CASE Go(Daemon, "speed") /\ inited' = [inited EXCEPT ![Daemon] = TRUE]
  <2>1. pc'[Daemon] = "speed" /\ inited'[Daemon]
    BY <1>1, <1>3 DEF Go, StepInv, DataInv
  <2> QED BY <1>1, <2>1 DEF RestartInv
<1>4. CASE Go(Daemon, "config") /\ prog' = [prog EXCEPT ![Daemon] = Restart] /\ Reachable(Daemon)
  <2>1. pc'[Daemon] = "config" /\ prog'[Daemon] = Restart /\ Reachable(Daemon)'
    BY <1>1, <1>4 DEF Go, StepInv, Reachable
  <2>2. Brought(cache, prog[Daemon])'
    BY <2>1 DEF Brought, Restart
  <2> QED BY <1>1, <2>1, <2>2 DEF RestartInv
<1>5. \/ Done(Daemon)
      \/ Go(Daemon, "speed") /\ inited' = [inited EXCEPT ![Daemon] = TRUE]
      \/ Go(Daemon, "config") /\ prog' = [prog EXCEPT ![Daemon] = Restart] /\ Reachable(Daemon)
  BY DEF Speed, ReadsSpeed, RestartInv
<1> QED BY <1>2, <1>3, <1>4, <1>5

LEMMA StoreCacheTakes ==
    ASSUME DrawerInv, RestartInv, Daemon \in Users, StoreCache(Daemon), Observe
    PROVE  /\ RestartInv'
           /\ prog'[Daemon] = <<>> /\ whole' => chip'.en /\ ~ chip'.mon
<1>1. /\ StepInv /\ pc[Daemon] = "cache" /\ NextSetting(Daemon) /\ cache' = val[Daemon]
      /\ UNCHANGED <<chip, hwmon, path>>
      /\ whole' \in BOOLEAN /\ (whole' => inside') /\ (whole' => whole)
  BY WholeTells DEF DrawerInv, DataInv, StoreCache, chipVars, devVars
<1>2. prog'[Daemon] = Tail(prog[Daemon])
  BY <1>1 DEF NextSetting, StepInv
<1>3. whole => Brought(val[Daemon], Tail(prog[Daemon]))
  BY <1>1 DEF RestartInv
<1>4. whole' => Brought(cache, prog[Daemon])'
  BY <1>1, <1>2, <1>3 DEF Brought, Agrees
<1> QED BY <1>1, <1>4, SettingTakes

LEMMA RestartKeeps ==
    ASSUME Clis = {}, DrawerInv, RestartInv, faults \in Nat, Next, Observe
    PROVE  /\ RestartInv'
           /\ prog[Daemon] # <<>> /\ prog'[Daemon] = <<>> /\ whole' => chip'.en /\ ~ chip'.mon
<1>1. Users = {Daemon} /\ StepInv /\ DataInv
  BY DEF Users, DrawerInv
<1>2. whole' \in BOOLEAN /\ (whole' => inside')
  BY <1>1, WholeTells DEF DataInv
<1> DEFINE Goal == /\ RestartInv'
                   /\ prog[Daemon] # <<>> /\ prog'[Daemon] = <<>> /\ whole'
                         => chip'.en /\ ~ chip'.mon
\* Most steps are outside of a restart, before and after.
<1>3. ASSUME NEW to \in Steps \ {"config", "cache", "speed"}, pc' = [pc EXCEPT ![Daemon] = to],
             pc[Daemon] \notin {"config", "cache"}
      PROVE  Goal
  <2>1. pc'[Daemon] = to /\ prog[Daemon] = <<>>
    BY <1>1, <1>3 DEF StepInv
  <2> QED BY <1>2, <1>3, <2>1 DEF RestartInv
<1>4. CASE Ask(Daemon)
  <2>1. CASE AskDrawer(Daemon) \/ AskFan(Daemon)
    <3>1. PICK to \in {"device", "glob", "idle"} : Begin(Daemon, to)
      BY <2>1 DEF AskDrawer, AskFan
    <3> QED BY <1>3, <3>1 DEF Begin, Steps
  <2>2. CASE AskStatus(Daemon)
    <3>1. \/ Begin(Daemon, "glob")
          \/ Begin(Daemon, "speed") /\ inited[Daemon] /\ UNCHANGED <<inited, prog>>
      BY <2>2 DEF AskStatus
    <3>2. CASE Begin(Daemon, "glob")
      BY <1>3, <3>2 DEF Begin, Steps
    <3>3. CASE Begin(Daemon, "speed") /\ inited[Daemon] /\ UNCHANGED <<inited, prog>>
      <4>1. pc'[Daemon] = "speed" /\ inited'[Daemon] /\ prog[Daemon] = <<>>
        BY <1>1, <3>3 DEF Begin, StepInv
      <4> QED BY <1>2, <4>1 DEF RestartInv
    <3> QED BY <3>1, <3>2, <3>3
  <2> QED BY <1>4, <2>1, <2>2 DEF Ask
<1>5. CASE \/ NewDevice(Daemon) \/ Probe(Daemon) \/ File(Daemon) \/ Store(Daemon)
           \/ Check(Daemon, "check", "store") \/ Check(Daemon, "again", "delete")
           \/ Delete(Daemon) \/ Last(Daemon)
  <2>1. pc[Daemon] \notin {"config", "cache"}
    BY <1>5 DEF NewDevice, Probe, File, Store, Check, Delete, Last
  <2>2. PICK to \in {"idle", "probe", "file", "check", "delete", "store", "again"} :
            pc' = [pc EXCEPT ![Daemon] = to]
    BY <1>5 DEF NewDevice, Probe, File, Store, Check, Delete, Last, Go, Done
  <2> QED BY <1>3, <2>1, <2>2 DEF Steps
<1>6. CASE Glob(Daemon)
  <2>1. CASE dev = "bound"
    <3>1. pc'[Daemon] = "speed" /\ path'[Daemon] = hwmon /\ hwmon' = hwmon /\ prog[Daemon] = <<>>
      BY <1>1, <1>6, <2>1 DEF Glob, Go, StepInv, DataInv, devVars
    <3>2. Reachable(Daemon)'
      BY <1>1, <2>1, <3>1 DEF Reachable, StepInv
    <3> QED BY <1>2, <3>1, <3>2 DEF RestartInv
  <2>2. CASE dev # "bound"
    BY <1>3, <1>6, <2>2 DEF Glob, Done, Steps
  <2> QED BY <2>1, <2>2
<1>7. CASE Speed(Daemon)
  <2>1. prog[Daemon] = <<>>
    BY <1>1, <1>7 DEF Speed, StepInv
  <2> QED BY <1>1, <1>7, <2>1, SpeedTakes
<1>8. CASE Pull
  <2>1. UNCHANGED <<pc, inited, path, prog, hwmon>>
    BY <1>8 DEF Pull, procVars, fanVars, devVars
  <2>2. whole' => pc[Daemon] = "idle"
    BY <1>1, <1>2, <1>8 DEF Pull, Observe, RestartInv, DataInv
  <2>3. prog[Daemon] # <<>> => pc[Daemon] # "idle"
    BY <1>1 DEF StepInv
  <2> QED BY <1>2, <2>1, <2>2, <2>3 DEF RestartInv, Reachable
<1>9. CASE Age
  <2>1. UNCHANGED <<chip, pc, inited, path, prog, val, cache, hwmon>>
    BY <1>9 DEF Age, procVars, fanVars, devVars, chipVars
  <2>2. whole' /\ pc[Daemon] # "idle" => whole
    BY <1>1, WholeTells DEF DataInv
  <2> QED BY <1>2, <2>1, <2>2 DEF RestartInv, Reachable, Brought, Agrees
<1> QED BY <1>1, <1>4, <1>5, <1>6, <1>7, <1>8, <1>9, ConfigureTakes, StoreCacheTakes
        DEF Next, Work

\* The safety core of FanDriven: with nobody else to remove the device or to write
\* between the settings of a restart, a restart whose transfers went through leaves
\* the fan driven, whatever drawer the cache of max31790_write_fan is from and
\* whatever hwmon directories the driver had before.
THEOREM RestartTakesAlways == ASSUME Clis = {} PROVE HSpec => RestartTakes
<1> DEFINE Takes == prog[Daemon] # <<>> /\ prog'[Daemon] = <<>> /\ whole'
                       => chip'.en /\ ~ chip'.mon
           Inv   == DrawerInv /\ RestartInv /\ faults \in Nat
<1>1. Init /\ whole = FALSE => Inv
  BY DrawerStarts, DrawerAssumption DEF Init, RestartInv, Users
<1>2. Inv /\ [Next /\ Observe]_<<vars, whole>> => Inv' /\ [Takes]_<<vars, whole>>
  <2> SUFFICES ASSUME Inv, [Next /\ Observe]_<<vars, whole>>
               PROVE  Inv' /\ [Takes]_<<vars, whole>>
    OBVIOUS
  <2>1. DrawerInv' /\ faults' \in Nat
    BY DataKeeps, StepKeeps, FaultsLeft DEF DrawerInv, vars
  <2>2. CASE Next /\ Observe
    BY <2>1, <2>2, RestartKeeps
  <2>3. CASE UNCHANGED <<vars, whole>>
    BY <2>1, <2>3 DEF vars, chipVars, devVars, procVars, fanVars, RestartInv, Reachable, Brought,
       Agrees
  <2> QED BY <2>2, <2>3
<1> QED BY <1>1, <1>2, PTL DEF HSpec, RestartTakes
=============================================================================
