------------------------- MODULE ThermalPolicyProofs -------------------------
(***************************************************************************)
(* Proofs about ThermalPolicy for every number of fans, every set of       *)
(* sensors and every table and policy file.                                *)
(***************************************************************************)
EXTENDS ThermalPolicy, TLAPS

\* Max and Min of small sets of levels.
LEMMA MaxLevels ==
    ASSUME NEW S \in SUBSET (0..3), S # {}
    PROVE  Max(S) \in S /\ \A x \in S : x <= Max(S)
  <1>1. \E m \in S : \A x \in S : m >= x
    <2>1. CASE 3 \in S  BY <2>1
    <2>2. CASE 3 \notin S /\ 2 \in S  BY <2>2
    <2>3. CASE 3 \notin S /\ 2 \notin S /\ 1 \in S  BY <2>3
    <2>4. CASE 3 \notin S /\ 2 \notin S /\ 1 \notin S
      <3>1. \A x \in S : x = 0  BY <2>4
      <3>2. 0 \in S  BY <3>1
      <3> QED  BY <3>1, <3>2
    <2> QED  BY <2>1, <2>2, <2>3, <2>4
  <1>2. Max(S) \in S /\ \A x \in S : Max(S) >= x
    BY <1>1, Zenon DEF Max
  <1> QED  BY <1>2

LEMMA MinLevels ==
    ASSUME NEW S \in SUBSET (-1..3), S # {}
    PROVE  Min(S) \in S /\ \A x \in S : Min(S) <= x
  <1>1. \E m \in S : \A x \in S : m =< x
    <2>1. CASE -1 \in S  BY <2>1
    <2>2. CASE -1 \notin S /\ 0 \in S  BY <2>2
    <2>3. CASE -1 \notin S /\ 0 \notin S /\ 1 \in S  BY <2>3
    <2>4. CASE -1 \notin S /\ 0 \notin S /\ 1 \notin S /\ 2 \in S  BY <2>4
    <2>5. CASE -1 \notin S /\ 0 \notin S /\ 1 \notin S /\ 2 \notin S
      <3>1. \A x \in S : x = 3  BY <2>5
      <3>2. 3 \in S  BY <3>1
      <3> QED  BY <3>1, <3>2
    <2> QED  BY <2>1, <2>2, <2>3, <2>4, <2>5
  <1>2. Min(S) \in S /\ \A x \in S : Min(S) =< x
    BY <1>1, Zenon DEF Min
  <1> QED  BY <1>2

\* MaxLevel is the highest level that some sensor calls for.
LEMMA MaxLevelFact ==
    ASSUME NEW t
    PROVE  /\ MaxLevel(t) \in 0..3
           /\ \A k \in 0..2, s \in Sensors : t[s] > Up[k][s] => k + 1 <= MaxLevel(t)
           /\ MaxLevel(t) = 0 \/ \E s \in Sensors : t[s] > Up[MaxLevel(t) - 1][s]
  <1> DEFINE K == {k \in 0..2 : \E s \in Sensors : t[s] > Up[k][s]}
             S == {0} \cup {l + 1 : l \in K}
  <1>1. S \in SUBSET (0..3) /\ S # {}
    OBVIOUS
  <1>2. MaxLevel(t) = Max(S)
    BY DEF MaxLevel, NumLevels
  <1>3. MaxLevel(t) \in S /\ \A x \in S : x <= MaxLevel(t)
    BY <1>1, <1>2, MaxLevels, Zenon
  <1> QED  BY <1>1, <1>3

\* MinLevel is the lowest level whose down threshold the sensor is below.
LEMMA MinLevelFact ==
    ASSUME NEW t, NEW s
    PROVE  /\ MinLevel(t, s) \in 0..3
           /\ \A l \in 0..2 : t[s] < Down[l][s] => MinLevel(t, s) <= l
           /\ MinLevel(t, s) = 3 \/ t[s] < Down[MinLevel(t, s)][s]
  <1> DEFINE S == {3} \cup {l \in 0..2 : t[s] < Down[l][s]}
  <1>1. S \in SUBSET (-1..3) /\ S # {} /\ S \in SUBSET (0..3)
    OBVIOUS
  <1>2. MinLevel(t, s) = Min(S)
    BY DEF MinLevel, NumLevels
  <1>3. MinLevel(t, s) \in S /\ \A x \in S : MinLevel(t, s) <= x
    BY <1>1, <1>2, MinLevels, Zenon
  <1> QED  BY <1>1, <1>3

LEMMA MaxOfMinFact ==
    ASSUME NEW t
    PROVE  /\ MaxOfMinLevel(t) \in 0..3
           /\ \A s \in Sensors : MinLevel(t, s) <= MaxOfMinLevel(t)
           /\ \E s \in Sensors : MinLevel(t, s) = MaxOfMinLevel(t)
  <1> DEFINE S == {MinLevel(t, s) : s \in Sensors}
  <1>1. S \in SUBSET (0..3) /\ S # {}
    BY MinLevelFact, TablesAssumption
  <1>2. Max(S) \in S /\ \A x \in S : x <= Max(S)
    BY <1>1, MaxLevels, Zenon
  <1> QED  BY <1>1, <1>2 DEF MaxOfMinLevel

\* What the clipping to the running level comes to.
LEMMA TempLevelFact ==
    ASSUME old \in -1..3, NEW t
    PROVE  LET m == IF MaxOfMinLevel(t) <= old THEN MaxOfMinLevel(t) ELSE old
           IN  /\ TempLevel(t) = IF MaxLevel(t) >= m THEN MaxLevel(t) ELSE m
               /\ TempLevel(t) \in 0..3
  <1> DEFINE m == Min({MaxOfMinLevel(t), old})
             x == Max({m, MaxLevel(t)})
  <1>1. m = IF MaxOfMinLevel(t) <= old THEN MaxOfMinLevel(t) ELSE old
    <2>1. m \in {MaxOfMinLevel(t), old} /\ \A y \in {MaxOfMinLevel(t), old} : m <= y
      BY MaxOfMinFact, MinLevels
    <2> QED  BY <2>1, MaxOfMinFact
  <1>2. x = IF MaxLevel(t) >= m THEN MaxLevel(t) ELSE m
    <2>1. \E y \in {m, MaxLevel(t)} : \A z \in {m, MaxLevel(t)} : y >= z
      BY <1>1, MaxOfMinFact, MaxLevelFact
    <2>2. x \in {m, MaxLevel(t)} /\ \A z \in {m, MaxLevel(t)} : x >= z
      BY <2>1, Zenon DEF Max
    <2> QED  BY <2>2, <1>1, MaxOfMinFact, MaxLevelFact
  <1>3. TempLevel(t) = x
    BY DEF TempLevel
  <1> QED  BY <1>1, <1>2, <1>3, MaxOfMinFact, MaxLevelFact

-----------------------------------------------------------------------------
\* The duty cycle is monotone and fits its register.
LEMMA DutyFact ==
    /\ \A a \in 0..100 : Duty(a) \in 0..15
    /\ \A a, b \in 0..100 : a <= b => Duty(a) <= Duty(b)
  BY DEF Duty

LEMMA SetSpeedType ==
    ASSUME TypeOK, NEW v \in 0..100
    PROVE  SetSpeed(v) \in [Fans -> 0..15]
  BY DutyFact DEF SetSpeed, TypeOK

LEMMA PolicyType ==
    ASSUME TypeOK, pc = "policy", cur <= Len(Policies)
    PROVE  /\ Len(Policies) \in Nat
           /\ cur \in 1..Len(Policies) /\ cur + 1 \in 1..(Len(Policies) + 1)
           /\ flag # Unset => Speed[flag] \in 0..100
  <1>1. Len(Policies) \in Nat
    BY PolicyAssumption
  <1>2. cur \in 1..(Len(Policies) + 1)
    BY DEF TypeOK
  <1>3. flag # Unset => Speed[flag] \in 0..100
    BY PolicyAssumption DEF TypeOK
  <1> QED  BY <1>1, <1>2, <1>3

LEMMA LevelType ==
    ASSUME TypeOK
    PROVE  Level \in Levels
  <1>1. old \in -1..3
    BY DEF TypeOK, Levels, NumLevels, Unset
  <1>2. TempLevel(temps) \in 0..3
    BY <1>1, TempLevelFact
  <1> QED  BY <1>2 DEF Level, Levels, NumLevels

LEMMA NextFanType ==
    ASSUME TypeOK, NEW from, NEW to, pc # "policy", ToNextFan(from, to)
    PROVE  /\ cur' \in 1..NumFans /\ pc' \in {from, to}
           /\ from # to /\ pc' = to => cur' = 1
  BY FansAssumption DEF ToNextFan, TypeOK

\* The starting state is well typed.
LEMMA InitTypeOK == Init => TypeOK
  <1> SUFFICES ASSUME Init PROVE TypeOK
    OBVIOUS
  <1>1. pwm \in [Fans -> 0..15]
    BY DutyFact DEF Init, BootSpeed
  <1>2. temps \in [Sensors -> Int]
    BY TablesAssumption DEF Init
  <1>3. cur \in 1..NumFans /\ restarts \in 0..MaxRestarts
    BY FansAssumption DEF Init
  <1> QED  BY <1>1, <1>2, <1>3 DEF Init, TypeOK, Unset

\* Every step keeps the types.
LEMMA NextTypeOK == TypeOK /\ [Next]_vars => TypeOK'
  <1> SUFFICES ASSUME TypeOK, [Next]_vars PROVE TypeOK'
    OBVIOUS
  <1> USE DEF infoVars
  <1>1. CASE Begin
    BY <1>1, FansAssumption DEF Begin, TypeOK
  <1>2. CASE AddPresent
    <2>1. cur' \in 1..NumFans /\ pc' \in {"fan", "temps"} /\ (pc' = "temps" => cur' = 1)
      BY <1>2, NextFanType DEF AddPresent
    <2> QED  BY <1>2, <2>1 DEF AddPresent, TypeOK
  <1>3. CASE AskAgain
    BY <1>3 DEF AskAgain, TypeOK
  <1>4. CASE AddAbsent
    <2>1. cur' \in 1..NumFans /\ pc' \in {"fan", "temps"} /\ (pc' = "temps" => cur' = 1)
      BY <1>4, NextFanType DEF AddAbsent
    <2> QED  BY <1>4, <2>1 DEF AddAbsent, TypeOK
  <1>5. CASE KeepFan
    <2>1. cur' \in 1..NumFans /\ pc' \in {"fan", "temps"} /\ (pc' = "temps" => cur' = 1)
      BY <1>5, NextFanType DEF KeepFan
    <2> QED  BY <1>5, <2>1 DEF KeepFan, TypeOK
  <1>6. CASE ReadTemps
    <2>1. temps' \in [Sensors -> Int]
      BY <1>6, TablesAssumption DEF ReadTemps
    <2> QED  BY <1>6, <2>1 DEF ReadTemps, TypeOK
  <1>7. CASE ReadStatus
    <2>1. cur' \in 1..NumFans /\ pc' \in {"status", "decide"} /\ (pc' = "decide" => cur' = 1)
      BY <1>7, NextFanType DEF ReadStatus
    <2> QED  BY <1>7, <2>1 DEF ReadStatus, TypeOK
  <1>8. CASE StatusFails
    <2>1. cur' = 1 /\ cur' \in 1..NumFans
      BY <1>8, FansAssumption DEF StatusFails
    <2>2. down' \in BOOLEAN
      BY <1>8, Zenon DEF StatusFails
    <2> QED  BY <1>8, <2>1, <2>2 DEF StatusFails, TypeOK
  <1>9. CASE Decide
    <2>1. old' \in Levels /\ flag' \in Levels \cup {Unset}
      BY <1>9, LevelType DEF Decide, Flag
    <2>2. held' \subseteq Fans
      BY <1>9 DEF Decide, Present, TypeOK
    <2>3. cur' \in 1..(Len(Policies) + 1)
      BY <1>9, FansAssumption, PolicyAssumption DEF Decide, TypeOK
    <2> QED  BY <1>9, <2>1, <2>2, <2>3 DEF Decide, TypeOK
  <1>10. CASE SkipPolicy
    <2>1. cur' \in 1..(Len(Policies) + 1)
      BY <1>10, PolicyType DEF SkipPolicy, AtPolicy
    <2> QED  BY <1>10, <2>1 DEF SkipPolicy, AtPolicy, TypeOK
  <1>11. CASE SetAllFanSpeed
    <2>1. cur' \in 1..(Len(Policies) + 1)
      BY <1>11, PolicyType DEF SetAllFanSpeed, AtPolicy
    <2>2. pwm' \in [Fans -> 0..15] /\ held' \subseteq Fans
      BY <1>11, SetSpeedType, PolicyAssumption DEF SetAllFanSpeed, Write, TypeOK
    <2> QED  BY <1>11, <2>1, <2>2 DEF SetAllFanSpeed, AtPolicy, TypeOK
  <1>12. CASE ThermalRecover
    <2>1. cur' \in 1..(Len(Policies) + 1)
      BY <1>12, PolicyType DEF ThermalRecover, AtPolicy
    <2>2. pwm' \in [Fans -> 0..15] /\ held' \subseteq Fans
      <3>1. CASE flag = Unset
        BY <1>12, <3>1 DEF ThermalRecover, TypeOK
      <3>2. CASE flag # Unset
        BY <1>12, <3>2, SetSpeedType, PolicyType DEF ThermalRecover, AtPolicy, Write, TypeOK
      <3> QED  BY <3>1, <3>2
    <2> QED  BY <1>12, <2>1, <2>2 DEF ThermalRecover, AtPolicy, TypeOK
  <1>13. CASE End
    BY <1>13, FansAssumption DEF End, TypeOK
  <1>14. CASE Restart
    <2>1. restarts' \in 0..MaxRestarts
      BY <1>14, FansAssumption DEF Restart, TypeOK
    <2>2. cur' \in 1..NumFans /\ pc' = "idle" /\ cur' = 1
      BY <1>14, FansAssumption DEF Restart
    <2>3. seen' \in [Fans -> {"new", "present", "absent"}] /\ held' \subseteq Fans
      BY <1>14 DEF Restart
    <2>4. down' \in BOOLEAN
      BY <1>14, Zenon DEF Restart
    <2> QED  BY <1>14, <2>1, <2>2, <2>3, <2>4 DEF Restart, TypeOK
  <1>15. ASSUME NEW f \in Fans, FanChanges(f) PROVE TypeOK'
    BY <1>15 DEF FanChanges, TypeOK
  <1>16. CASE UNCHANGED vars
    BY <1>16 DEF vars, TypeOK
  <1> QED
    BY <1>1, <1>2, <1>3, <1>4, <1>5, <1>6, <1>7, <1>8, <1>9, <1>10, <1>11, <1>12, <1>13,
       <1>14, <1>15, <1>16 DEF Next, Thermalctld

\* Types: registers, levels and policy positions stay in range
\* (thermal_infos.py 71-137, h6_fan_cpld.c 304-316).
THEOREM ThermalTypeCorrect == Spec => []TypeOK
  BY InitTypeOK, NextTypeOK, PTL DEF Spec

-----------------------------------------------------------------------------
\* The level that the loops compute is the least one allowed.
LEMMA TempLevelIsLeast ==
    ASSUME TypeOK, NEW l \in Levels
    PROVE  /\ Allowed(TempLevel(temps))
           /\ Allowed(l) => TempLevel(temps) <= l
  <1> DEFINE t == temps
             X == MaxLevel(t)
             M == MaxOfMinLevel(t)
             L == TempLevel(t)
             m == IF M <= old THEN M ELSE old
  <1> USE DEF NumLevels, Levels, Unset
  <1>1. /\ old \in -1..3 /\ t \in [Sensors -> Int]
        /\ \A s \in Sensors, k \in 0..2 : Up[k][s] \in Int /\ Down[k][s] \in Int
    BY TablesAssumption DEF TypeOK
  <1>2. X \in 0..3 /\ M \in 0..3 /\ L \in 0..3 /\ L = IF X >= m THEN X ELSE m
    BY <1>1, MaxLevelFact, MaxOfMinFact, TempLevelFact
  <1>3. \A s \in Sensors, k \in 0..2 : k >= L => t[s] <= Up[k][s]
    BY <1>1, <1>2, MaxLevelFact
  <1>4. ASSUME old > L PROVE L < 3 /\ \A s \in Sensors : t[s] < Down[L][s]
    <2>1. M <= L /\ L < 3
      BY <1>1, <1>2, <1>4
    <2>2. ASSUME NEW s \in Sensors PROVE t[s] < Down[L][s]
      <3> DEFINE n == MinLevel(t, s)
      <3>1. n \in 0..2 /\ n <= L /\ t[s] < Down[n][s]
        BY <1>2, <2>1, MaxOfMinFact, MinLevelFact
      <3>2. Down[n][s] <= Down[L][s]
        BY <1>2, <2>1, <3>1, DownAssumption
      <3> HIDE DEF n, t, L
      <3> QED  BY <1>1, <1>2, <2>1, <3>1, <3>2
    <2> QED  BY <2>1, <2>2
  <1>5. Allowed(L)
    BY <1>1, <1>2, <1>3, <1>4 DEF Allowed
  <1>6. ASSUME Allowed(l) PROVE L <= l
    <2>1. X <= l
      <3>1. CASE X = 0  BY <3>1
      <3>2. CASE X # 0
        <4>1. PICK s \in Sensors : t[s] > Up[X - 1][s]
          BY <3>2, MaxLevelFact
        <4>2. ~(X - 1 >= l)
          BY <1>1, <1>2, <1>6, <3>2, <4>1 DEF Allowed
        <4> QED  BY <1>2, <4>2
      <3> QED  BY <3>1, <3>2
    <2>2. m <= l
      <3>1. CASE old <= l  BY <1>1, <1>2, <3>1
      <3>2. CASE ~(old <= l)
        <4>1. PICK s \in Sensors : MinLevel(t, s) = M
          BY MaxOfMinFact
        <4>2. l < 3 /\ t[s] < Down[l][s]
          BY <1>6, <3>2 DEF Allowed
        <4>3. MinLevel(t, s) <= l
          BY <4>2, MinLevelFact
        <4> QED  BY <1>1, <1>2, <3>2, <4>1, <4>3
      <3> QED  BY <3>1, <3>2
    <2> QED  BY <1>1, <1>2, <2>1, <2>2
  <1> QED  BY <1>5, <1>6

\* Only Decide goes from the collect to the policies.
LEMMA OnlyDecide ==
    [Next]_vars /\ pc = "decide" /\ pc' = "policy" => Decide
  BY DEF Next, Thermalctld, vars, Begin, AddPresent, AskAgain, AddAbsent, KeepFan, ReadTemps,
         ReadStatus, StatusFails, SkipPolicy, SetAllFanSpeed, ThermalRecover, AtPolicy, End,
         Restart, FanChanges

\* The level set is the least one that the temperatures and the hysteresis
\* allow, whatever the tables and the number of sensors, or the top one when
\* a fan is down (thermal_infos.py 101-137).
THEOREM LevelLeast == Spec => LevelIsLeastAllowed
  <1> DEFINE Step ==
        pc = "decide" /\ pc' = "policy" =>
         IF down THEN old' = NumLevels
                 ELSE /\ old' \in Levels /\ Allowed(old')
                      /\ \A l \in Levels : Allowed(l) => old' <= l
  <1>1. TypeOK /\ [Next]_vars => Step
    <2> SUFFICES ASSUME TypeOK, [Next]_vars, pc = "decide", pc' = "policy"
                 PROVE  IF down THEN old' = NumLevels
                        ELSE /\ old' \in Levels /\ Allowed(old')
                             /\ \A l \in Levels : Allowed(l) => old' <= l
      OBVIOUS
    <2>1. old' = Level /\ Level \in Levels
      BY OnlyDecide, LevelType DEF Decide
    <2>2. CASE down
      BY <2>1, <2>2 DEF Level
    <2>3. CASE ~down
      <3>1. old' = TempLevel(temps)
        BY <2>1, <2>3 DEF Level
      <3>2. 0 \in Levels
        BY DEF Levels, NumLevels
      <3> QED  BY <2>1, <2>3, <3>1, <3>2, TempLevelIsLeast, Zenon
    <2> QED  BY <2>2, <2>3
  <1>2. Spec => []TypeOK
    BY ThermalTypeCorrect
  <1> QED  BY <1>1, <1>2, PTL DEF Spec, LevelIsLeastAllowed

-----------------------------------------------------------------------------
\* A write leaves every held fan that answers at the speed written.
LEMMA WriteHeld ==
    ASSUME TypeOK, HeldInv, NEW v \in 0..100, Write(v)
    PROVE  /\ held' \subseteq held
           /\ \A f \in held' : pwm'[f] = Duty(v)
  BY DEF Write, SetSpeed, Present, HeldInv, TypeOK

\* When the policies cover every round, one of them matches.
LEMMA SomeMatches ==
    ASSUME PoliciesCover
    PROVE  \E i \in 1..Len(Policies) : Matches(Policies[i].cond)
  <1>1. CASE Absent # {}
    BY <1>1 DEF PoliciesCover, Matches
  <1>2. CASE Absent = {}
    BY <1>2 DEF PoliciesCover, Matches
  <1> QED  BY <1>1, <1>2

LEMMA InitHeldInv == Init => HeldInv
  BY DEF Init, HeldInv

\* Every step keeps the fans noted present and held at the level's speed.
LEMMA NextHeldInv ==
    ASSUME PoliciesCover, TypeOK, TypeOK', HeldInv, [Next]_vars
    PROVE  HeldInv'
  <1> DEFINE Held == \A f \in held : pwm[f] >= Duty(Speed[old])
  <1>a. ASSUME UNCHANGED <<pwm, seen, old, flag, held>>, pc # "policy", pc' # "policy"
        PROVE  HeldInv'
    BY <1>a DEF HeldInv, Pending
  <1> USE DEF infoVars
  <1>1. CASE Begin \/ AskAgain \/ KeepFan \/ StatusFails \/ ReadStatus
    <2>1. UNCHANGED <<pwm, seen, old, flag, held>> /\ pc # "policy" /\ pc' # "policy"
      BY <1>1 DEF Begin, AskAgain, KeepFan, StatusFails, ReadStatus, ToNextFan
    <2> QED  BY <2>1, <1>a
  <1>2. CASE AddPresent
    <2>1. \A f \in held' : seen'[f] = "present"
      BY <1>2 DEF AddPresent, HeldInv, TypeOK
    <2>2. pc # "policy" /\ pc' # "policy" /\ UNCHANGED <<pwm, old, held>>
      BY <1>2 DEF AddPresent, ToNextFan
    <2> QED  BY <2>1, <2>2 DEF HeldInv, Pending
  <1>3. CASE AddAbsent
    <2>1. \A f \in held' : seen'[f] = "present"
      BY <1>3 DEF AddAbsent, HeldInv, TypeOK
    <2>2. pc # "policy" /\ pc' # "policy" /\ UNCHANGED <<pwm, old>> /\ held' \subseteq held
      BY <1>3 DEF AddAbsent, ToNextFan
    <2> QED  BY <2>1, <2>2 DEF HeldInv, Pending
  <1>4. CASE ReadTemps
    BY <1>4 DEF ReadTemps, HeldInv, Pending
  <1>5. CASE Decide
    <2>1. pc' = "policy" /\ cur' = 1 /\ pc = "decide" /\ old' = Level /\ flag' = Flag
      BY <1>5 DEF Decide, TypeOK
    <2>2. CASE Level # old
      <3>1. Pending'
        <4>1. flag' # Unset
          BY <2>1, <2>2, LevelType DEF Flag, Levels, NumLevels, Unset
        <4>2. \A i \in 1..(cur' - 1) : FALSE
          BY <2>1
        <4> QED  BY <2>1, <4>1, <4>2 DEF Pending
      <3>2. \A f \in held' : seen'[f] = "present"
        BY <1>5, <2>2 DEF Decide, Present
      <3> QED  BY <2>1, <2>2, <3>1, <3>2, LevelType DEF HeldInv, Flag
    <2>3. CASE Level = old
      BY <1>5, <2>1, <2>3, LevelType DEF Decide, HeldInv, Pending, Flag
    <2> QED  BY <2>2, <2>3
  <1>6. CASE SkipPolicy
    <2>1. /\ UNCHANGED <<pwm, held, pc, seen, old, flag>> /\ pc = "policy"
          /\ ~Matches(Policies[cur].cond) /\ cur' = cur + 1 /\ cur \in 1..Len(Policies)
      BY <1>6, PolicyType DEF SkipPolicy, AtPolicy
    <2>2. ~Pending' => ~Pending
      <3>1. \A c : Matches(c)' = Matches(c)
        BY <2>1 DEF Matches, Absent, Present
      <3> QED  BY <2>1, <3>1 DEF Pending
    <2> QED  BY <2>1, <2>2 DEF HeldInv
  <1>7. CASE SetAllFanSpeed
    <2>1. /\ UNCHANGED <<pc, seen, old, flag>> /\ pc = "policy" /\ old \in Levels
      BY <1>7 DEF SetAllFanSpeed, AtPolicy, HeldInv
    <2>2. held' \subseteq held /\ \A f \in held' : pwm'[f] = Duty(AllSpeed)
      BY <1>7, WriteHeld, PolicyAssumption DEF SetAllFanSpeed
    <2>3. Speed[old] \in 0..100 /\ AllSpeed \in 0..100 /\ Speed[old] <= AllSpeed
      BY <2>1, PolicyAssumption DEF PoliciesCover
    <2>4. Duty(Speed[old]) <= Duty(AllSpeed)
      BY <2>3, DutyFact
    <2> QED  BY <2>1, <2>2, <2>4 DEF HeldInv
  <1>8. CASE ThermalRecover
    <2>1. /\ UNCHANGED <<pc, seen, old, flag>> /\ pc = "policy" /\ old \in Levels
          /\ flag \in {Unset, old}
      BY <1>8 DEF ThermalRecover, AtPolicy, HeldInv
    <2>2. CASE flag = Unset
      BY <1>8, <2>1, <2>2 DEF ThermalRecover, HeldInv, Pending
    <2>3. CASE flag # Unset
      <3>1. Speed[old] \in 0..100 /\ Write(Speed[old])
        BY <1>8, <2>1, <2>3, PolicyAssumption DEF ThermalRecover
      <3>2. held' \subseteq held /\ \A f \in held' : pwm'[f] = Duty(Speed[old])
        BY <3>1, WriteHeld
      <3>3. Duty(Speed[old]) \in Int
        BY <3>1, DutyFact
      <3> QED  BY <2>1, <3>2, <3>3 DEF HeldInv
    <2> QED  BY <2>2, <2>3
  <1>9. CASE End
    <2>1. /\ UNCHANGED <<pwm, seen, old, flag, held>> /\ pc = "policy" /\ pc' = "idle"
          /\ cur = Len(Policies) + 1
      BY <1>9 DEF End
    <2>2. ~Pending
      BY <2>1, SomeMatches, PolicyAssumption DEF Pending
    <2> QED  BY <2>1, <2>2 DEF HeldInv
  <1>10. CASE Restart
    BY <1>10 DEF Restart, HeldInv
  <1>11. CASE (\E f \in Fans : FanChanges(f)) \/ UNCHANGED vars
    <2>1. UNCHANGED <<pwm, seen, old, flag, held, pc, cur>>
      BY <1>11 DEF FanChanges, vars
    <2>2. Pending' = Pending
      BY <2>1 DEF Pending, Matches, Absent, Present
    <2> QED  BY <2>1, <2>2 DEF HeldInv
  <1> QED
    BY <1>1, <1>2, <1>3, <1>4, <1>5, <1>6, <1>7, <1>8, <1>9, <1>10, <1>11
    DEF Next, Thermalctld

\* With a policy file that covers every round, a fan noted present is held at
\* the level's speed or above from the round that changes the level on
\* (thermal_infos.py 127-137, thermal_actions.py 51-57).
THEOREM HeldCorrect == ASSUME PoliciesCover PROVE Spec => []HeldInv
  <1>1. TypeOK /\ TypeOK' /\ HeldInv /\ [Next]_vars => HeldInv'
    BY NextHeldInv
  <1>2. Spec => []TypeOK
    BY ThermalTypeCorrect
  <1> QED  BY <1>1, <1>2, InitHeldInv, PTL DEF Spec

\* No fan held since the last change of level turns slower than it asks
\* (thermal_infos.py 127-137, thermal_actions.py 51-57, 143-150).
THEOREM HeldNotTooSlow == ASSUME PoliciesCover PROVE Spec => []NotTooSlow
  <1>1. HeldInv => NotTooSlow
    BY DEF HeldInv, NotTooSlow, Pending
  <1> QED  BY <1>1, HeldCorrect, PTL

=============================================================================
