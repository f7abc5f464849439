------------------------------- MODULE CpldD4 -------------------------------
(***************************************************************************)
(* The CPLDs of the IXR7220-D4 as the drivers under ixr7220d4/modules      *)
(* present them: one record per driver, with the table of its sysfs        *)
(* attributes and the writes of its probe function, in order.  The         *)
(* registers and their fields come from the #define lines, the kind of     *)
(* an attribute from its show and store handlers, the pins of a port       *)
(* from the index of its SENSOR_DEVICE_ATTR.  CpldAttributes says what     *)
(* the constructors mean, CpldDriver how the handlers run.                 *)
(***************************************************************************)
EXTENDS CpldAttributes

-----------------------------------------------------------------------------
\* d4_cpld1.c

Cpld1Reg == [BOARD_INFO |-> 0, CPLD1_VER |-> 1, POWER_STATUS1 |-> 2,
    POWER_STATUS2 |-> 3, SYSTEM_RST1 |-> 4, SYSTEM_RST2 |-> 5, SYSTEM_RST3 |-> 6,
    SYSTEM_RST4 |-> 7, SYSTEM_RST5 |-> 8, SYSTEM_RST6 |-> 9,
    MOD_PRSNT |-> <<31, 32, 33, 34, 35>>, MISC2 |-> 39, SYSTEM_LED1 |-> 89,
    SYSTEM_LED2 |-> 96, SYSTEM_RST |-> <<4, 5, 6, 7, 8>>]

Cpld1PcbVer == View(Cpld1Reg.BOARD_INFO, 0..1)
Cpld1CpldVer == View(Cpld1Reg.CPLD1_VER, Bit)
Cpld1PowerModule1(i) == PinView(Cpld1Reg.POWER_STATUS1, i)
Cpld1PowerModule2(i) == Pin(Cpld1Reg.POWER_STATUS2, i)
Cpld1SystemRst1(i) == Pin(Cpld1Reg.SYSTEM_RST1, i)
Cpld1SystemRst2(i) == Pin(Cpld1Reg.SYSTEM_RST2, i)
Cpld1SystemRst3(i) == Pin(Cpld1Reg.SYSTEM_RST3, i)
Cpld1SystemRst4(i) == Pin(Cpld1Reg.SYSTEM_RST4, i)
Cpld1SystemRst5(i) == Pin(Cpld1Reg.SYSTEM_RST5, i)
Cpld1SystemRst6(i) == Pin(Cpld1Reg.SYSTEM_RST6, i)
Cpld1ModulePrsnt(n) == PinViewAt(Cpld1Reg.MOD_PRSNT, n)
Cpld1Misc2(i) == Pin(Cpld1Reg.MISC2, i)
Cpld1SystemLed1(i) == Field(Cpld1Reg.SYSTEM_LED1, i, 2, 3)
Cpld1SystemLed2(i) == Field(Cpld1Reg.SYSTEM_LED2, i, 4, 15)
Cpld1QsfpReset(n) == Memory
Cpld1BulkQsfpReset == Bulk(Cpld1Reg.SYSTEM_RST, 4, 0..3)

Cpld1ModPrsntPlace == [p \in 1..28 |-> p + 7] @@ [p \in 29..36 |-> p - 29]
Cpld1Declared ==
       Board([pcb_ver |-> Cpld1PcbVer, cpld_ver |-> Cpld1CpldVer,
             psu1_present |-> Cpld1PowerModule1(0),
             psu2_present |-> Cpld1PowerModule1(1),
             psu1_pwr_ok |-> Cpld1PowerModule1(2), psu2_pwr_ok |-> Cpld1PowerModule1(3),
             psu1_input_ok |-> Cpld1PowerModule1(4),
             psu2_input_ok |-> Cpld1PowerModule1(5),
             psu1_power_ok |-> Cpld1PowerModule2(0),
             psu2_power_ok |-> Cpld1PowerModule2(1)])
    @@ Each("rstn", [p \in 1..8 |-> p - 1], Cpld1SystemRst1)
    @@ Each("rstn", [p \in 9..16 |-> p - 9], Cpld1SystemRst2)
    @@ Each("rstn", [p \in 17..24 |-> p - 17], Cpld1SystemRst3)
    @@ Each("rstn", [p \in 25..28 |-> p - 25], Cpld1SystemRst4)
    @@ Each("rstn", [p \in 29..36 |-> p - 29], Cpld1SystemRst5)
    @@ Board([i2c_sw1_rstn |-> Cpld1SystemRst6(0), i2c_sw2_rstn |-> Cpld1SystemRst6(1),
             i2c_sw3_rstn |-> Cpld1SystemRst6(2), i2c_sw4_rstn |-> Cpld1SystemRst6(3),
             i2c_sw5_rstn |-> Cpld1SystemRst6(4), i2c_sw6_rstn |-> Cpld1SystemRst6(5),
             i2c_sw7_rstn |-> Cpld1SystemRst6(6)])
    @@ Each("mod_prsnt", Cpld1ModPrsntPlace, Cpld1ModulePrsnt)
    @@ Board([i2c_mux1_sel |-> Cpld1Misc2(0), i2c_mux2_sel |-> Cpld1Misc2(1),
             jtag_bus_sel |-> Cpld1Misc2(2), jtag_sw_sel |-> Cpld1Misc2(3),
             jtag_sw_oe |-> Cpld1Misc2(4), eeprom_wp |-> Cpld1Misc2(5),
             bcm_spi_wp |-> Cpld1Misc2(6), psu1_led |-> Cpld1SystemLed1(0),
             psu2_led |-> Cpld1SystemLed1(2), fan_led |-> Cpld1SystemLed1(4),
             sys_led |-> Cpld1SystemLed2(4)])
    @@ Each("reset", [p \in 1..36 |-> p - 1], Cpld1QsfpReset)
    @@ Board([bulk_qsfp_reset |-> Cpld1BulkQsfpReset])
Cpld1Probe == <<>>
Cpld1 == [attrs |-> Cpld1Declared,
    probe |-> Cpld1Probe]

-----------------------------------------------------------------------------
\* d4_cpld2.c

Cpld2Reg == [CPLD2_VER |-> 1, LOOP |-> <<64, 65, 66>>, PRES |-> <<67, 68, 69>>,
    PORT_STATUS |-> <<70, 71, 72>>]

Cpld2CpldVer == View(Cpld2Reg.CPLD2_VER, Bit)
Cpld2ModuleLo(n) == PinAt(Cpld2Reg.LOOP, n)
Cpld2ModulePresent(n) == PinAt(Cpld2Reg.PRES, n)
Cpld2PortStatus(n) == PinAt(Cpld2Reg.PORT_STATUS, n)

Cpld2LoPlace == [p \in 19..20 |-> p - 3] @@ [p \in 21..28 |-> p - 13] @@
    [p \in 29..36 |-> p - 29]
Cpld2Declared ==
       Board([cpld_ver |-> Cpld2CpldVer])
    @@ Each("lo", Cpld2LoPlace, Cpld2ModuleLo)
    @@ Each("prs", Cpld2LoPlace, Cpld2ModulePresent)
    @@ Each("port", Cpld2LoPlace, Cpld2PortStatus)
Cpld2Probe == <<>>
Cpld2 == [attrs |-> Cpld2Declared,
    probe |-> Cpld2Probe]

-----------------------------------------------------------------------------
\* d4_cpld3.c

Cpld3Reg == [CPLD3_VER |-> 1, LOOP |-> <<64, 65, 66>>, PRES |-> <<67, 68, 69>>,
    PORT_STATUS |-> <<70, 71, 72>>, LP_MODE |-> <<96, 97, 98, 99, 100>>]

Cpld3CpldVer == View(Cpld3Reg.CPLD3_VER, Bit)
Cpld3ModuleLo(n) == PinAt(Cpld3Reg.LOOP, n)
Cpld3ModulePresent(n) == PinAt(Cpld3Reg.PRES, n)
Cpld3PortStatus(n) == PinAt(Cpld3Reg.PORT_STATUS, n)
Cpld3LpMode(n) == PinAt(Cpld3Reg.LP_MODE, n)
Cpld3BulkQsfp28Lpmod == Bulk(SubSeq(Cpld3Reg.LP_MODE, 1, 4), 4, 0..3)
Cpld3BulkQsfpddLpmod == Fill(<<Cpld3Reg.LP_MODE[5]>>)

Cpld3LoPlace == [p \in 1..2 |-> p + 15] @@ [p \in 3..10 |-> p + 5] @@
    [p \in 11..18 |-> p - 11]
Cpld3LpmodPlace == [p \in 1..28 |-> p - 1] @@ [p \in 29..36 |-> p + 3]
Cpld3Declared ==
       Board([cpld_ver |-> Cpld3CpldVer])
    @@ Each("lo", Cpld3LoPlace, Cpld3ModuleLo)
    @@ Each("prs", Cpld3LoPlace, Cpld3ModulePresent)
    @@ Each("port", Cpld3LoPlace, Cpld3PortStatus)
    @@ Each("lpmod", Cpld3LpmodPlace, Cpld3LpMode)
    @@ Board([bulk_qsfp28_lpmod |-> Cpld3BulkQsfp28Lpmod,
             bulk_qsfpdd_lpmod |-> Cpld3BulkQsfpddLpmod])
Cpld3Probe == <<>>
Cpld3 == [attrs |-> Cpld3Declared,
    probe |-> Cpld3Probe]

-----------------------------------------------------------------------------
\* d4_cpupld.c

CpupldReg == [BOARD_INFO |-> 0, CPLD_VER |-> 1, WATCHDOG1 |-> 2, WATCHDOG2 |-> 3,
    SYSTEM_RST |-> 4, PWR_RAIL1 |-> 5, PWR_RAIL2 |-> 6, MISC |-> 7, CPU_STATUS |-> 8]

CpupldPcbVer == View(CpupldReg.BOARD_INFO, 0..3)
CpupldBoardPowerCat(i) == PinView(CpupldReg.BOARD_INFO, i)
CpupldCpldVer == View(CpupldReg.CPLD_VER, Bit)
CpupldWatchdog1View(i) == PinView(CpupldReg.WATCHDOG1, i)
CpupldWatchdog1(i) == Pin(CpupldReg.WATCHDOG1, i)
CpupldWatchdog2(i) == Pin(CpupldReg.WATCHDOG2, i)
CpupldSystemRst(i) == Pin(CpupldReg.SYSTEM_RST, i)
CpupldPwrRail1(i) == PinView(CpupldReg.PWR_RAIL1, i)
CpupldPwrRail2(i) == PinView(CpupldReg.PWR_RAIL2, i)
CpupldMisc(i) == Pin(CpupldReg.MISC, i)
CpupldLsbPostCode == View(CpupldReg.CPU_STATUS, 0..3)
CpupldMsbPostCode == View(CpupldReg.CPU_STATUS, 4..7)
CpupldLastRst == Kept

CpupldDeclared ==
       Board([pcb_ver |-> CpupldPcbVer, board_power_cat |-> CpupldBoardPowerCat(0),
             cpld_ver |-> CpupldCpldVer, wd1_lt_spi_cs_sel |-> CpupldWatchdog1View(3),
             wd1_spi_cs_sel |-> CpupldWatchdog1View(4),
             wd1_rst_log_clr |-> CpupldWatchdog1(6), wd1_os_done |-> CpupldWatchdog1(7),
             wd2_test_mode |-> CpupldWatchdog2(0), wd2_wdt |-> CpupldWatchdog2(1),
             wd2_boot_dev_sel |-> CpupldWatchdog2(2),
             wd2_upd_boot_dev_sel |-> CpupldWatchdog2(3),
             wd2_enable |-> CpupldWatchdog2(4), soft_rst |-> CpupldSystemRst(0),
             cpu_jtag_rst |-> CpupldSystemRst(1), cold_rst |-> CpupldSystemRst(3),
             i210_rst_l_mask |-> CpupldSystemRst(5),
             pwr_rail1_p3v3_pg |-> CpupldPwrRail1(0),
             pwr_rail1_p1v5_pg |-> CpupldPwrRail1(1),
             pwr_rail1_p1v05_pg |-> CpupldPwrRail1(2),
             pwr_rail1_p0v6_vtt_pg |-> CpupldPwrRail1(3),
             pwr_rail1_ddr4_vpp_pg |-> CpupldPwrRail1(4),
             pwr_rail1_slp_s3_n |-> CpupldPwrRail1(5),
             pwr_rail1_xdp_syspwok |-> CpupldPwrRail1(6),
             pwr_rail1_procpwrgd_pch |-> CpupldPwrRail1(7),
             pwr_rail2_p1v2 |-> CpupldPwrRail2(0),
             pwr_rail2_pvccscfusesus |-> CpupldPwrRail2(1),
             pwr_rail2_pvcckrhv |-> CpupldPwrRail2(2),
             pwr_rail2_p1v8 |-> CpupldPwrRail2(3), pwr_rail2_p5v |-> CpupldPwrRail2(4),
             jtag_sel |-> CpupldMisc(3), lsb_post_code |-> CpupldLsbPostCode,
             msb_post_code |-> CpupldMsbPostCode, reset_cause |-> CpupldLastRst])
CpupldProbe == Pulse(CpupldReg.WATCHDOG1, 6)
Cpupld == [attrs |-> CpupldDeclared,
    probe |-> CpupldProbe]

-----------------------------------------------------------------------------
\* fan_cpld.c

FanReg == [FAN_BOARD_INFO |-> 0, FAN_CPLD_VER |-> 1, FAN_CPLD_RESET |-> 4,
    FAN_PRESENCE |-> 15, FAN_DIR |-> 16, FAN_PWM |-> 17,
    FAN1_SPEED |-> <<23, 22, 21, 20, 19, 18>>,
    FAN1_R_SPEED |-> <<39, 38, 37, 36, 35, 34>>, LED2_DISPLAY |-> 29,
    LED1_DISPLAY |-> 28]

FanBoardType == View(FanReg.FAN_BOARD_INFO, 2..4)
FanFanCpldVer == View(FanReg.FAN_CPLD_VER, Bit)
FanFanCpldReset(i) == PinView(FanReg.FAN_CPLD_RESET, i)
FanFanPresent(i) == Inverted(PinView(FanReg.FAN_PRESENCE, i))
FanFanDirection(i) == PinView(FanReg.FAN_DIR, i)
FanFanPwm(i) == Field(FanReg.FAN_PWM, i, 4, 15)
FanFanSpeed(i) ==
    View(IF i % 2 = 0 THEN FanReg.FAN1_SPEED[i \div 2 + 1]
    ELSE FanReg.FAN1_R_SPEED[i \div 2 + 1], Bit)
FanFanLed2Status(i) == Named(Field(FanReg.LED2_DISPLAY, i, 2, 3))
FanFanLed1Status(i) == Named(Field(FanReg.LED1_DISPLAY, i, 2, 3))

FanFanLedPlace == 3 :> 0 @@ 4 :> 2 @@ 5 :> 4 @@ 6 :> 6
FanDeclared ==
       Board([board_type |-> FanBoardType, fan_version |-> FanFanCpldVer,
             fan_reset |-> FanFanCpldReset(7)])
    @@ Each("fan_present", [p \in 1..6 |-> 6 - p], FanFanPresent)
    @@ Each("fan_direction", [p \in 1..6 |-> 6 - p], FanFanDirection)
    @@ Board([fans_pwm |-> FanFanPwm(0)])
    @@ Each("fan_speed", [p \in 1..12 |-> p - 1], FanFanSpeed)
    @@ Each("fan_led", 1 :> 0 @@ 2 :> 2, FanFanLed2Status)
    @@ Each("fan_led", FanFanLedPlace, FanFanLed1Status)
FanProbe == <<>>
Fan == [attrs |-> FanDeclared,
    probe |-> FanProbe]

=============================================================================
