------------------------------- MODULE CpldH3 -------------------------------
(***************************************************************************)
(* The CPLDs of the IXR7220-H3 as the drivers under ixr7220h3/modules      *)
(* present them: one record per driver, with the table of its sysfs        *)
(* attributes and the writes of its probe function, in order.  The         *)
(* registers and their fields come from the #define lines, the kind of     *)
(* an attribute from its show and store handlers, the pins of a port       *)
(* from the index of its SENSOR_DEVICE_ATTR.  CpldAttributes says what     *)
(* the constructors mean, CpldDriver how the handlers run.                 *)
(***************************************************************************)
EXTENDS CpldAttributes

-----------------------------------------------------------------------------
\* nokia_7220_h3_cpupld.c

CpupldReg == [SYS_CPLD_TEST |-> 1, WATCHDOG |-> 6, PWR_STATUS |-> 10,
    CPU_CPLD_UPGRADE |-> 11]

CpupldCodeVer == Kept
CpupldBoardRevision == Kept
CpupldBoardType == Kept
CpupldScratch == Store(CpupldReg.SYS_CPLD_TEST)
CpupldWatchdog(i) ==
    IF i \in {4} THEN Field(CpupldReg.WATCHDOG, i, 3, 7)
    ELSE Pin(CpupldReg.WATCHDOG, i)
CpupldSysRstCause == Kept
CpupldCpuPwrStatus(i) == PinView(CpupldReg.PWR_STATUS, i)
CpupldCpuCpldUpgrade(i) == Pin(CpupldReg.CPU_CPLD_UPGRADE, i)

CpupldDeclared ==
       Board([code_ver |-> CpupldCodeVer, board_revision |-> CpupldBoardRevision,
             board_type |-> CpupldBoardType, scratch |-> CpupldScratch,
             wd_punch |-> CpupldWatchdog(0), wd_enable |-> CpupldWatchdog(3),
             wd_timer |-> CpupldWatchdog(4), cpu_sys_rst |-> CpupldSysRstCause,
             cpu_pwr_1v35 |-> CpupldCpuPwrStatus(0),
             cpu_pwr_1v8 |-> CpupldCpuPwrStatus(1),
             cpu_pwr_3v3 |-> CpupldCpuPwrStatus(2),
             cpu_pwr_1v0 |-> CpupldCpuPwrStatus(3),
             cpu_pwr_1v1 |-> CpupldCpuPwrStatus(4),
             cpu_pwr_core |-> CpupldCpuPwrStatus(5),
             cpu_pwr_vddr |-> CpupldCpuPwrStatus(6),
             cpu_pwr_1v5 |-> CpupldCpuPwrStatus(7),
             cpu_cpld_upgrade |-> CpupldCpuCpldUpgrade(0)])
CpupldProbe == <<>>
Cpupld == [attrs |-> CpupldDeclared,
    probe |-> CpupldProbe]

-----------------------------------------------------------------------------
\* nokia_7220_h3_swpld1.c

Swpld1Reg == [TEST |-> 15, PSU1 |-> 17, PSU2 |-> 18, PWR1 |-> 33, PWR2 |-> 34,
    MAC_ROV |-> 37, PSU_FAN_INT |-> 38, SWPLD_INT |-> 39, MB_CPU_INT |-> 40,
    SMB_ALERT |-> 41, VR_ALERT |-> 42, PCIE_ALERT |-> 43, FP_LED1 |-> 65,
    FP_LED2 |-> 66, FAN_LED1 |-> 70, FAN_LED2 |-> 71, MISC_SEL |-> 81]

Swpld1SwbdId == Kept
Swpld1SwbdVersion == Kept
Swpld1CpldType == Kept
Swpld1CpldVersion == Kept
Swpld1Scratch == Store(Swpld1Reg.TEST)
Swpld1Psu1Reg(i) == PinView(Swpld1Reg.PSU1, i)
Swpld1Psu2Reg(i) == Pin(Swpld1Reg.PSU2, i)
Swpld1Pwr1Reg(i) == PinView(Swpld1Reg.PWR1, i)
Swpld1Pwr2Reg(i) == PinView(Swpld1Reg.PWR2, i)
Swpld1MacRovReg(i) == PinView(Swpld1Reg.MAC_ROV, i)
Swpld1PsuFanIntReg(i) == PinView(Swpld1Reg.PSU_FAN_INT, i)
Swpld1SwpldIntReg(i) == PinView(Swpld1Reg.SWPLD_INT, i)
Swpld1MbCpuIntReg(i) == PinView(Swpld1Reg.MB_CPU_INT, i)
Swpld1SmbAlertReg(i) == PinView(Swpld1Reg.SMB_ALERT, i)
Swpld1VrAlertReg(i) == PinView(Swpld1Reg.VR_ALERT, i)
Swpld1PcieAlertReg(i) == PinView(Swpld1Reg.PCIE_ALERT, i)
Swpld1FpLed1Reg(i) == Field(Swpld1Reg.FP_LED1, i, 2, 3)
Swpld1FpLed2Reg(i) ==
    IF i = 0 THEN Field(Swpld1Reg.FP_LED2, i, 2, 3)
    ELSE Field(Swpld1Reg.FP_LED2, i, 3, 7)
Swpld1FanLed1Reg(i) == Field(Swpld1Reg.FAN_LED1, i, 2, 2)
Swpld1FanLed2Reg(i) == Field(Swpld1Reg.FAN_LED2, i, 2, 2)
Swpld1MiscSelReg(i) == Pin(Swpld1Reg.MISC_SEL, i)

Swpld1FanLedPlace == 1 :> 6 @@ 2 :> 4 @@ 3 :> 2 @@ 4 :> 0
Swpld1Declared ==
       Board([swbd_id |-> Swpld1SwbdId, swbd_version |-> Swpld1SwbdVersion,
             cpld_type |-> Swpld1CpldType, code_ver |-> Swpld1CpldVersion,
             scratch |-> Swpld1Scratch, psu2_alert |-> Swpld1Psu1Reg(1),
             psu2_ok |-> Swpld1Psu1Reg(2), psu2_pres |-> Swpld1Psu1Reg(3),
             psu1_alert |-> Swpld1Psu1Reg(4), psu1_ok |-> Swpld1Psu1Reg(5),
             psu1_pres |-> Swpld1Psu1Reg(6), psu2_eeprom_wp |-> Swpld1Psu2Reg(2),
             psu2_pson |-> Swpld1Psu2Reg(3), psu1_eeprom_wp |-> Swpld1Psu2Reg(6),
             psu1_pson |-> Swpld1Psu2Reg(7), vcc_mac_1v2 |-> Swpld1Pwr1Reg(0),
             vcc_bmc_1v15 |-> Swpld1Pwr1Reg(1), vcc_bmc_1v2 |-> Swpld1Pwr1Reg(2),
             vcc_mac_1v8 |-> Swpld1Pwr1Reg(3), vcc_2V5 |-> Swpld1Pwr1Reg(4),
             vcc_3v3_ct |-> Swpld1Pwr1Reg(5), vcc_3v3 |-> Swpld1Pwr1Reg(6),
             vcc_5v |-> Swpld1Pwr1Reg(7), vcc_mac_pll_0v8 |-> Swpld1Pwr2Reg(4),
             vcc_mac_0v8 |-> Swpld1Pwr2Reg(5), vcc_mac_avs_0v91 |-> Swpld1Pwr2Reg(6),
             bcm_avs0 |-> Swpld1MacRovReg(0), bcm_avs1 |-> Swpld1MacRovReg(1),
             bcm_avs2 |-> Swpld1MacRovReg(2), bcm_avs3 |-> Swpld1MacRovReg(3),
             bcm_avs4 |-> Swpld1MacRovReg(4), bcm_avs5 |-> Swpld1MacRovReg(5),
             bcm_avs6 |-> Swpld1MacRovReg(6), bcm_avs7 |-> Swpld1MacRovReg(7),
             fan_alert_n |-> Swpld1PsuFanIntReg(0), psu_int_n |-> Swpld1PsuFanIntReg(1),
             swpld2_int_n |-> Swpld1SwpldIntReg(0),
             swpld3_int_n |-> Swpld1SwpldIntReg(1),
             cpld_misc_int_n |-> Swpld1MbCpuIntReg(0),
             cpld_op_mod_int_n |-> Swpld1MbCpuIntReg(1),
             cpld_psu_fan_int_n |-> Swpld1MbCpuIntReg(2),
             synce_int_n |-> Swpld1SmbAlertReg(3),
             i210_smb_alrt_n |-> Swpld1SmbAlertReg(4),
             vr_3v3_alrt_n |-> Swpld1SmbAlertReg(5),
             vcore_alrt_n |-> Swpld1SmbAlertReg(6),
             vr_0v8_alrt_n |-> Swpld1SmbAlertReg(7),
             cpu_thrml_int_n |-> Swpld1VrAlertReg(0),
             vr_3v3_hot_n |-> Swpld1VrAlertReg(1), vcore_hot_n |-> Swpld1VrAlertReg(2),
             vr_0v8_hot_n |-> Swpld1VrAlertReg(3),
             vr_3v3_fault_n |-> Swpld1VrAlertReg(5),
             vcore_fault_n |-> Swpld1VrAlertReg(6),
             vr_0v8_fault_n |-> Swpld1VrAlertReg(7),
             mac_pcie_alrt_n |-> Swpld1PcieAlertReg(2),
             synce_prs_n |-> Swpld1PcieAlertReg(3),
             mac_pcie_wake_n |-> Swpld1PcieAlertReg(4),
             i210_pcie_wake_n |-> Swpld1PcieAlertReg(5),
             led_psu2 |-> Swpld1FpLed1Reg(0), led_psu1 |-> Swpld1FpLed1Reg(2),
             led_fan |-> Swpld1FpLed2Reg(0), led_sys |-> Swpld1FpLed2Reg(2)])
    @@ Each("fan_led", Swpld1FanLedPlace, Swpld1FanLed1Reg)
    @@ Each("fan_led", 5 :> 6 @@ 6 :> 4, Swpld1FanLed2Reg)
    @@ Board([console_sel |-> Swpld1MiscSelReg(1)])
Swpld1Probe == <<>>
Swpld1 == [attrs |-> Swpld1Declared,
    probe |-> Swpld1Probe]

-----------------------------------------------------------------------------
\* nokia_7220_h3_swpld2.c

Swpld2Reg == [TEST |-> 15, QSFP_RSTN |-> <<17, 18>>, QSFP_INITMOD |-> <<33, 34>>,
    QSFP_MODSEL |-> <<49, 50>>, QSFP_MODPRS |-> <<81, 82>>, QSFP_INTN |-> <<97, 98>>]

Swpld2CodeVer == Kept
Swpld2CpldType == Kept
Swpld2Scratch == Store(Swpld2Reg.TEST)
Swpld2QsfpRstn(n) == PinAt(Swpld2Reg.QSFP_RSTN, n)
Swpld2QsfpLpmod(n) == PinAt(Swpld2Reg.QSFP_INITMOD, n)
Swpld2QsfpModseln(n) == PinAt(Swpld2Reg.QSFP_MODSEL, n)
Swpld2QsfpPrs(n) == PinViewAt(Swpld2Reg.QSFP_MODPRS, n)
Swpld2ModprsReg(n) == View(Swpld2Reg.QSFP_MODPRS[n], Bit)
Swpld2QsfpIntn(n) == PinViewAt(Swpld2Reg.QSFP_INTN, n)
Swpld2QsfpReset(n) == Memory

Swpld2RstnPlace == [p \in 1..8 |-> 8 - p] @@ [p \in 9..16 |-> 24 - p]
Swpld2Declared ==
       Board([code_ver |-> Swpld2CodeVer, cpld_type |-> Swpld2CpldType,
             scratch |-> Swpld2Scratch])
    @@ Each("rstn", Swpld2RstnPlace, Swpld2QsfpRstn)
    @@ Each("lpmod", Swpld2RstnPlace, Swpld2QsfpLpmod)
    @@ Each("modseln", Swpld2RstnPlace, Swpld2QsfpModseln)
    @@ Each("prs", Swpld2RstnPlace, Swpld2QsfpPrs)
    @@ Each("modprs_reg", [p \in 1..2 |-> p], Swpld2ModprsReg)
    @@ Each("intn", Swpld2RstnPlace, Swpld2QsfpIntn)
    @@ Each("reset", [p \in 1..16 |-> p - 1], Swpld2QsfpReset)
Swpld2Probe == Set(Swpld2Reg.QSFP_MODSEL, None) \o Set(Swpld2Reg.QSFP_INITMOD, Byte) \o
    Set(Swpld2Reg.QSFP_RSTN, None) \o Set(Swpld2Reg.QSFP_RSTN, Byte)
Swpld2 == [attrs |-> Swpld2Declared,
    probe |-> Swpld2Probe]

-----------------------------------------------------------------------------
\* nokia_7220_h3_swpld3.c

Swpld3Reg == [TEST |-> 15, QSFP_RSTN |-> <<17, 18>>, QSFP_INITMOD |-> <<33, 34>>,
    QSFP_MODSEL |-> <<49, 50>>, QSFP_MODPRS |-> <<81, 82>>, QSFP_INTN |-> <<97, 98>>,
    SFP1 |-> 113, SFP2 |-> 114]

Swpld3CodeVer == Kept
Swpld3CpldType == Kept
Swpld3Scratch == Store(Swpld3Reg.TEST)
Swpld3QsfpRstn(n) == PinAt(Swpld3Reg.QSFP_RSTN, n)
Swpld3QsfpLpmod(n) == PinAt(Swpld3Reg.QSFP_INITMOD, n)
Swpld3QsfpModseln(n) == PinAt(Swpld3Reg.QSFP_MODSEL, n)
Swpld3QsfpPrs(n) == PinViewAt(Swpld3Reg.QSFP_MODPRS, n)
Swpld3ModprsReg(n) == View(Swpld3Reg.QSFP_MODPRS[n], Bit)
Swpld3QsfpIntn(n) == PinViewAt(Swpld3Reg.QSFP_INTN, n)
Swpld3SfpReg1(i) == PinView(Swpld3Reg.SFP1, i)
Swpld3SfpReg2(i) == Pin(Swpld3Reg.SFP2, i)
Swpld3QsfpReset(n) == Memory

Swpld3RstnPlace == [p \in 17..24 |-> 24 - p] @@ [p \in 25..32 |-> 40 - p]
Swpld3Declared ==
       Board([code_ver |-> Swpld3CodeVer, cpld_type |-> Swpld3CpldType,
             scratch |-> Swpld3Scratch])
    @@ Each("rstn", Swpld3RstnPlace, Swpld3QsfpRstn)
    @@ Each("lpmod", Swpld3RstnPlace, Swpld3QsfpLpmod)
    @@ Each("modseln", Swpld3RstnPlace, Swpld3QsfpModseln)
    @@ Each("prs", Swpld3RstnPlace, Swpld3QsfpPrs)
    @@ Each("modprs_reg", [p \in 1..2 |-> p], Swpld3ModprsReg)
    @@ Each("intn", Swpld3RstnPlace, Swpld3QsfpIntn)
    @@ Board([sfp0_prs |-> Swpld3SfpReg1(6), sfp0_rxlos |-> Swpld3SfpReg1(5),
             sfp0_txfault |-> Swpld3SfpReg1(4)])
    @@ Each("sfp_prs", 1 :> 2, Swpld3SfpReg1)
    @@ Each("sfp_rxlos", 1 :> 1, Swpld3SfpReg1)
    @@ Each("sfp_txfault", 1 :> 0, Swpld3SfpReg1)
    @@ Board([sfp0_txdis |-> Swpld3SfpReg2(7)])
    @@ Each("sfp_txdis", 1 :> 3, Swpld3SfpReg2)
    @@ Each("reset", [p \in 17..32 |-> p - 17], Swpld3QsfpReset)
Swpld3Probe == Set(Swpld3Reg.QSFP_MODSEL, None) \o Set(Swpld3Reg.QSFP_INITMOD, Byte) \o
    Set(Swpld3Reg.QSFP_RSTN, None) \o Set(Swpld3Reg.QSFP_RSTN, Byte) \o
    SetRow(Swpld3Reg.SFP2, 1, None)
Swpld3 == [attrs |-> Swpld3Declared,
    probe |-> Swpld3Probe]

=============================================================================
