--------------------------- MODULE MCThermalPolicy ---------------------------
EXTENDS ThermalPolicy

\* The tables of thermal_infos.py 75-81.
UpTable ==
    [l \in 0..2 |->
       << <<44, 54, 51, 52, 45, 53, 50, 44, 43, 45, 44, 43, 43, 47, 47, 83, 56, 58, 47, 73>>,
          <<50, 60, 57, 58, 51, 59, 56, 51, 50, 52, 51, 50, 50, 53, 53, 88, 61, 68, 51, 86>>,
          <<55, 65, 62, 63, 56, 64, 61, 56, 55, 57, 56, 55, 55, 57, 57, 93, 66, 73, 55, 91>>
       >>[l + 1]]
DownTable ==
    [l \in 0..2 |->
       << <<31, 44, 41, 42, 35, 43, 40, 34, 33, 35, 34, 32, 32, 35, 35, 70, 42, 50, 33, 70>>,
          <<39, 52, 49, 50, 43, 51, 48, 42, 41, 43, 42, 41, 41, 45, 45, 78, 48, 60, 40, 75>>,
          <<48, 58, 55, 56, 49, 57, 54, 49, 48, 50, 49, 48, 48, 51, 51, 83, 54, 69, 47, 80>>
       >>[l + 1]]

\* Every sensor of the tables: the thresholds rise with the level, and each
\* level leaves room between falling and rising.
ASSUME TablesConsistent ==
    \A s \in 1..20, l \in 0..2 :
        /\ DownTable[l][s] < UpTable[l][s]
        /\ l > 0 => UpTable[l - 1][s] < UpTable[l][s] /\ DownTable[l - 1][s] < DownTable[l][s]

\* Two of the sensors: the carrier board (1) and the processor (16), with
\* temperatures in every interval the thresholds of the first cut, at and next
\* to the thresholds, and in four of the second; or in three of both.
TwoSensors == {1, 16}
TwoUp      == [l \in 0..2 |-> [s \in TwoSensors |-> UpTable[l][s]]]
TwoDown    == [l \in 0..2 |-> [s \in TwoSensors |-> DownTable[l][s]]]
AllTemps   == [s \in TwoSensors |-> IF s = 1 THEN {30, 31, 44, 47, 50, 55, 56}
                                             ELSE {69, 75, 84, 94}]
FewTemps   == [s \in TwoSensors |-> IF s = 1 THEN {30, 45, 56} ELSE {69, 84, 94}]

Speeds     == <<60, 80, 100>>
TheSpeed   == [l \in 0..3 |-> IF l = 0 THEN 47 ELSE Speeds[l]]

\* Shut down when too hot, full speed while a fan is missing, else by
\* temperature.
ThePolicies == << [cond |-> "thermal.over.high_critical_threshold",
                   act  |-> "switch.shutdown"],
                  [cond |-> "fan.any.absence",  act |-> "set_speed"],
                  [cond |-> "fan.all.presence", act |-> "recover"] >>

=============================================================================
