---------------------------- MODULE ThermalPolicy ----------------------------
(***************************************************************************)
(* Fan control of the IXR7220-H6-128.  Every ten seconds thermalctld lets  *)
(* FanInfo.collect note which fans are there, ThermalInfo.collect decide a *)
(* level 0..3 from the temperatures and the fans' rotation, and then goes  *)
(* through the policies, whose actions set the speed of the fans noted.    *)
(* Fans are pulled, inserted, stall and stop answering at any moment.      *)
(*                                                                         *)
(* Sources: ixr7220h6-128/sonic_platform/thermal_infos.py,                 *)
(* thermal_actions.py, thermal_conditions.py, fan.py and                   *)
(* ixr7220h6-128/modules/h6_fan_cpld.c.  The order of the collects and the *)
(* walk through the policies are thermalctld's, from outside.              *)
(***************************************************************************)
EXTENDS Integers, Sequences, FiniteSetsExt

CONSTANTS
    NumFans,      \* fans 1..NumFans, in the order of get_all_fans
    FanStates,    \* what the environment lets a fan be
    Sensors,
    TempsOf,      \* the temperatures a sensor may read
    Up, Down,     \* _level_up_threshold and _level_down_threshold
    Speed,        \* per level: default, threshold1, threshold2, hightemp
    AllSpeed,     \* "speed" of fan.all.set_speed
    Policies,     \* the policy file: records of a condition and an action
    MaxRestarts   \* bound on the restarts of thermalctld

NumLevels == 3                 \* _num_fan_levels
Levels    == 0..NumLevels
Unset     == -1                \* _old_threshold_level of a new ThermalInfo
Fans      == 1..NumFans
BootSpeed == 60                \* h6_128_platform_init.sh

ASSUME FansAssumption ==
    /\ NumFans \in Nat \ {0} /\ MaxRestarts \in Nat
    /\ FanStates \subseteq {"out", "turning", "stalled", "mute"} /\ FanStates # {}

ASSUME TablesAssumption ==
    /\ Sensors # {}
    /\ TempsOf \in [Sensors -> SUBSET Int] /\ \A s \in Sensors : TempsOf[s] # {}
    /\ Up \in [0..(NumLevels - 1) -> [Sensors -> Int]]
    /\ Down \in [0..(NumLevels - 1) -> [Sensors -> Int]]

ASSUME DownAssumption ==
    \A s \in Sensors, k, l \in 0..(NumLevels - 1) : k <= l => Down[k][s] <= Down[l][s]

ASSUME PolicyAssumption ==
    /\ Speed \in [Levels -> 0..100] /\ AllSpeed \in 0..100
    /\ Policies \in Seq([cond : {"fan.any.absence", "fan.all.absence", "fan.all.presence",
                                 "thermal.over.high_critical_threshold"},
                         act  : {"set_speed", "recover", "switch.shutdown"}])
    /\ \A i \in 1..Len(Policies) : Policies[i].act = "switch.shutdown"
            <=> Policies[i].cond = "thermal.over.high_critical_threshold"

VARIABLES
    fan,      \* "out", "turning", "stalled", or "mute": its CPLD does not answer
    pwm,      \* the duty cycle registers of the fan CPLDs
    pc,       \* next step of thermalctld
    cur,      \* the fan, then the policy, it has got to
    seen,     \* _presence_fans and _absence_fans; "new" in neither
    temps,    \* _temps
    down,     \* get_status of some fan was False in the last collect
    old,      \* _old_threshold_level
    flag,     \* the level whose _set_fan_..._speed is True, or Unset
    held,     \* history: fans noted present at the last change of level and since
    restarts

infoVars == <<seen, temps, down, old, flag, held>>
vars     == <<fan, pwm, pc, cur, infoVars, restarts>>

-----------------------------------------------------------------------------
(* The fans.                                                               *)

\* A tray is pulled or inserted, a rotor stalls, the CPLD stops answering.
\* A duty cycle register stays as it is while its fan is out.
FanChanges(f) ==
    /\ \E s \in FanStates \ {fan[f]} : fan' = [fan EXCEPT ![f] = s]
    /\ UNCHANGED <<pwm, pc, cur, infoVars, restarts>>

\* An attribute of a CPLD that does not answer reads as the empty text.
Presence(f) == fan[f] \notin {"out", "mute"}

\* set_duty_cycle: 16 steps for 0..100.
Duty(speed) == (speed * 100) \div 666

Present == {f \in Fans : seen[f] = "present"}

\* set_all_fan_speed.  The driver drops the error of a failed write.
SetSpeed(speed) ==
    [f \in Fans |-> IF f \in Present /\ fan[f] # "mute" THEN Duty(speed) ELSE pwm[f]]

-----------------------------------------------------------------------------
(* FanInfo.collect.  It asks a fan for its presence up to twice, and the   *)
(* fan may change in between.                                              *)

Begin ==
    /\ pc = "idle"
    /\ pc' = "fan" /\ cur' = 1
    /\ UNCHANGED <<fan, pwm, infoVars, restarts>>

ToNextFan(from, to) ==
    IF cur = NumFans THEN pc' = to /\ cur' = 1 ELSE pc' = from /\ cur' = cur + 1

AddPresent ==
    /\ pc = "fan" /\ Presence(cur) /\ seen[cur] # "present"
    /\ seen' = [seen EXCEPT ![cur] = "present"]
    /\ ToNextFan("fan", "temps")
    /\ UNCHANGED <<fan, pwm, temps, down, old, flag, held, restarts>>

AskAgain ==
    /\ pc = "fan" /\ (Presence(cur) => seen[cur] = "present")
    /\ pc' = "again"
    /\ UNCHANGED <<fan, pwm, cur, infoVars, restarts>>

AddAbsent ==
    /\ pc = "again" /\ ~Presence(cur) /\ seen[cur] # "absent"
    /\ seen' = [seen EXCEPT ![cur] = "absent"]
    /\ held' = held \ {cur}
    /\ ToNextFan("fan", "temps")
    /\ UNCHANGED <<fan, pwm, temps, down, old, flag, restarts>>

KeepFan ==
    /\ pc = "again" /\ (Presence(cur) \/ seen[cur] = "absent")
    /\ ToNextFan("fan", "temps")
    /\ UNCHANGED <<fan, pwm, infoVars, restarts>>

-----------------------------------------------------------------------------
(* ThermalInfo.collect.                                                    *)

\* Mutant: the last level is left out.
MaxLevelShort(t) ==
    Max({0} \cup {l + 1 : l \in {k \in 0..(NumLevels - 2) : \E s \in Sensors : t[s] > Up[k][s]}})

\* Mutant: a level is counted twice.
MaxLevelHigh(t) ==
    Max({0} \cup {l + 2 : l \in {k \in 0..(NumLevels - 1) : \E s \in Sensors : t[s] > Up[k][s]}})

\* The highest level that some sensor calls for.
MaxLevel(t) ==
    Max({0} \cup {l + 1 : l \in {k \in 0..(NumLevels - 1) : \E s \in Sensors : t[s] > Up[k][s]}})

\* Mutant: the loop over the levels starts with the second.
MinLevelFromOne(t, s) ==
    Min({NumLevels} \cup {l \in 1..(NumLevels - 1) : t[s] < Down[l][s]})

\* The lowest level a sensor allows.
MinLevel(t, s) ==
    Min({NumLevels} \cup {l \in 0..(NumLevels - 1) : t[s] < Down[l][s]})

\* Mutant: the sensor that would allow the lowest level decides.
MaxOfMinLevelMin(t) == Min({MinLevel(t, s) : s \in Sensors})

MaxOfMinLevel(t) == Max({MinLevel(t, s) : s \in Sensors})

\* The running level is kept until all sensors allow a lower one.
TempLevel(t) == Max({Min({MaxOfMinLevel(t), old}), MaxLevel(t)})

ReadTemps ==
    /\ pc = "temps"
    /\ \E t \in [Sensors -> UNION {TempsOf[s] : s \in Sensors}] :
         /\ \A s \in Sensors : t[s] \in TempsOf[s]
         /\ temps' = t
    /\ flag' = Unset /\ down' = FALSE
    /\ pc' = "status"
    /\ UNCHANGED <<fan, pwm, cur, seen, old, held, restarts>>

ReadStatus ==
    /\ pc = "status" /\ fan[cur] # "mute"
    /\ down' = (down \/ fan[cur] # "turning")
    /\ ToNextFan("status", "decide")
    /\ UNCHANGED <<fan, pwm, seen, temps, old, flag, held, restarts>>

\* int('') in get_status ends the collect and with it the round.
StatusFails ==
    /\ pc = "status" /\ fan[cur] = "mute"
    /\ pc' = "idle" /\ cur' = 1 /\ down' = FALSE
    /\ UNCHANGED <<fan, pwm, seen, temps, old, flag, held, restarts>>

Level == IF down THEN NumLevels ELSE TempLevel(temps)

\* Mutant: _old_threshold_level is assigned before the comparison.
FlagLost == Unset

Flag == IF Level # old THEN Level ELSE Unset

Decide ==
    /\ pc = "decide"
    /\ old' = Level /\ flag' = Flag
    /\ held' = IF Level # old THEN Present ELSE held
    /\ pc' = "policy"
    /\ UNCHANGED <<fan, pwm, cur, seen, temps, down, restarts>>

-----------------------------------------------------------------------------
(* The policies.                                                           *)

Absent == {f \in Fans : seen[f] = "absent"}

\* is_over_high_critical_threshold: collect sets the flag to False and nothing
\* sets it otherwise, so that switch.shutdown is never carried out.
OverHighCritical == FALSE

Matches(cond) == CASE cond = "fan.any.absence"  -> Absent # {}
                   [] cond = "fan.all.absence"  -> Present = {}
                   [] cond = "fan.all.presence" -> Absent = {}
                   [] OTHER                     -> OverHighCritical

AtPolicy(matched) ==
    /\ pc = "policy" /\ cur <= Len(Policies)
    /\ Matches(Policies[cur].cond) = matched
    /\ cur' = cur + 1
    /\ UNCHANGED <<fan, pc, seen, temps, down, old, flag, restarts>>

SkipPolicy == AtPolicy(FALSE) /\ UNCHANGED <<pwm, held>>

\* Fans whose write is lost no longer count as held.
Write(speed) ==
    /\ pwm' = SetSpeed(speed)
    /\ held' = {f \in held : fan[f] # "mute"}

SetAllFanSpeed == AtPolicy(TRUE) /\ Policies[cur].act = "set_speed" /\ Write(AllSpeed)

ThermalRecover ==
    /\ AtPolicy(TRUE) /\ Policies[cur].act = "recover"
    /\ IF flag # Unset THEN Write(Speed[flag]) ELSE UNCHANGED <<pwm, held>>

End ==
    /\ pc = "policy" /\ cur = Len(Policies) + 1
    /\ pc' = "idle" /\ cur' = 1
    /\ UNCHANGED <<fan, pwm, infoVars, restarts>>

-----------------------------------------------------------------------------
Thermalctld ==
    \/ Begin \/ AddPresent \/ AskAgain \/ AddAbsent \/ KeepFan
    \/ ReadTemps \/ ReadStatus \/ StatusFails \/ Decide
    \/ SkipPolicy \/ SetAllFanSpeed \/ ThermalRecover \/ End

\* A new process: new FanInfo and ThermalInfo; the registers keep their values.
Restart ==
    /\ restarts < MaxRestarts /\ restarts' = restarts + 1
    /\ pc' = "idle" /\ cur' = 1
    /\ seen' = [f \in Fans |-> "new"]
    /\ old' = Unset /\ flag' = Unset /\ down' = FALSE /\ held' = {}
    /\ UNCHANGED <<fan, pwm, temps>>

Init ==
    /\ fan \in [Fans -> FanStates]
    /\ pwm = [f \in Fans |-> Duty(BootSpeed)]
    /\ pc = "idle" /\ cur = 1
    /\ seen = [f \in Fans |-> "new"]
    /\ temps = [s \in Sensors |-> CHOOSE t \in TempsOf[s] : TRUE]
    /\ down = FALSE /\ old = Unset /\ flag = Unset /\ held = {} /\ restarts = 0

Next == Thermalctld \/ Restart \/ \E f \in Fans : FanChanges(f)

\* thermalctld keeps going round and is started again when it dies.
Fairness == WF_vars(Thermalctld)

Spec == Init /\ [][Next]_vars /\ Fairness

-----------------------------------------------------------------------------
TypeOK ==
    /\ fan \in [Fans -> FanStates]
    /\ pwm \in [Fans -> 0..15]
    /\ pc \in {"idle", "fan", "again", "temps", "status", "decide", "policy"}
    /\ cur \in 1..(IF pc = "policy" THEN Len(Policies) + 1 ELSE NumFans)
    /\ pc \in {"idle", "temps", "decide"} => cur = 1
    /\ seen \in [Fans -> {"new", "present", "absent"}]
    /\ temps \in [Sensors -> Int]
    /\ down \in BOOLEAN
    /\ old \in Levels \cup {Unset} /\ flag \in Levels \cup {Unset}
    /\ held \subseteq Fans
    /\ restarts \in 0..MaxRestarts

\* Level l is allowed: no sensor calls for more, and to fall to it every
\* sensor has to be below its down threshold.
Allowed(l) ==
    /\ \A s \in Sensors, k \in 0..(NumLevels - 1) : k >= l => temps[s] <= Up[k][s]
    /\ old <= l \/ \A s \in Sensors : l < NumLevels /\ temps[s] < Down[l][s]

\* The two loops over sensors and levels and the clipping to the running
\* level (thermal_infos.py 101-124) find the least level allowed, or the top
\* one when some fan is not turning.
LevelIsLeastAllowed ==
    [][pc = "decide" /\ pc' = "policy" =>
         IF down THEN old' = NumLevels
                 ELSE /\ old' \in Levels /\ Allowed(old')
                      /\ \A l \in Levels : Allowed(l) => old' <= l]_vars

\* Between rounds a fan noted present at the last change of level, and
\* since, does not turn slower than the level asks, whatever became of the
\* other fans (thermal_infos.py 127-137, thermal_actions.py 51-57, 143-150).
NotTooSlow ==
    pc = "idle" /\ old # Unset => \A f \in held : pwm[f] >= Duty(Speed[old])

\* Why it holds, when the policy file covers every round: a change of the
\* level is pending until the first policy that matches has written the speed,
\* and only fans noted present are written.
PoliciesCover ==
    /\ \A l \in Levels : Speed[l] <= AllSpeed
    /\ \E i \in 1..Len(Policies) : Policies[i].cond = "fan.any.absence"
    /\ \E i \in 1..Len(Policies) : Policies[i].cond = "fan.all.presence"

Pending ==
    /\ pc = "policy" /\ flag # Unset
    /\ \A i \in 1..(cur - 1) : ~Matches(Policies[i].cond)

HeldInv ==
    /\ \A f \in held : seen[f] = "present"
    /\ pc = "policy" => old \in Levels /\ flag \in {Unset, old}
    /\ old # Unset /\ ~Pending => \A f \in held : pwm[f] >= Duty(Speed[old])

Answering == \A f \in Fans : fan[f] # "mute"

\* A sensor that stays above its last up threshold brings the level to the
\* top (thermal_infos.py 104-137), if the fans go on answering.
HotRaisesLevel ==
    <>[](\E s \in Sensors : temps[s] > Up[NumLevels - 1][s]) /\ <>[]Answering
        => <>[](old = NumLevels)

\* Cool sensors and turning fans bring the level back to 0.
CoolLowersLevel ==
    <>[](\A s \in Sensors : temps[s] < Down[0][s])
        /\ <>[](\A f \in Fans : fan[f] = "turning")
      => <>[](old = 0)

\* "set fan to max speed if one fan is down" (thermal_infos.py 121): after a
\* round that found a fan down, every fan noted present and answering is at
\* full speed.  A fan inserted while the level stays at 3 is not.
FullSpeedWhenOneDown ==
    pc = "idle" /\ down
        => \A f \in Present : fan[f] = "mute" \/ pwm[f] >= Duty(Speed[NumLevels])

\* "True if Fan is operating properly, False if not" (fan.py 136): a fan that
\* does not answer counts as down, which asks for the top level.
MuteCountsAsDown ==
    \A f \in Fans : fan[f] = "mute" ~> (fan[f] # "mute" \/ old = NumLevels)

=============================================================================
