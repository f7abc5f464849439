----------------------------- MODULE CpldH432d ------------------------------
(***************************************************************************)
(* The CPLDs of the IXR7220-H4-32D as the drivers under                    *)
(* ixr7220h4-32d/modules present them: one record per driver, with the     *)
(* table of its sysfs attributes and the writes of its probe function,     *)
(* in order.  The registers and their fields come from the #define         *)
(* lines, the kind of an attribute from its show and store handlers, the   *)
(* pins of a port from the index of its SENSOR_DEVICE_ATTR.                *)
(* CpldAttributes says what the constructors mean, CpldDriver how the      *)
(* handlers run.                                                           *)
(***************************************************************************)
EXTENDS CpldAttributes

-----------------------------------------------------------------------------
\* h4_32d_cpupld.c

CpupldReg == [CODE_REV |-> 0, BOARD_INFO |-> 2, SCRATCH |-> 1, BIOS_CTRL |-> 3,
    EEPROM_CTRL |-> 4, MARGIN_CTRL |-> 5, WATCHDOG |-> 6, PWR_CTRL0 |-> 9,
    PWR_CTRL1 |-> 12, PWR_STATUS0 |-> 10, PWR_STATUS1 |-> 13, BOARD0 |-> 16,
    BOARD1 |-> 17, CPU_INT0 |-> 21, CPU_INT1 |-> 22, CPU_INT2 |-> 23, RST0 |-> 32,
    RST1 |-> 33, RST2 |-> 34, HITLESS |-> 57, CODE_DAY |-> 240, CODE_MONTH |-> 241,
    CODE_YEAR |-> 242, RST_CAUSE |-> 8]

CpupldCodeVer == View(CpupldReg.CODE_REV, Bit)
CpupldBoardType == View(CpupldReg.BOARD_INFO, 0..3)
CpupldBoardVer == View(CpupldReg.BOARD_INFO, 4..7)
CpupldScratch == Store(CpupldReg.SCRATCH)
CpupldBiosCtrl(i) == Pin(CpupldReg.BIOS_CTRL, i)
CpupldEepromCtrl(i) == Pin(CpupldReg.EEPROM_CTRL, i)
CpupldMarginCtrl(i) == Field(CpupldReg.MARGIN_CTRL, i, 2, 1)
CpupldWatchdog(i) ==
    IF i \in {4} THEN Field(CpupldReg.WATCHDOG, i, 3, 7)
    ELSE Pin(CpupldReg.WATCHDOG, i)
CpupldRstCause == Kept
CpupldPwrCtrl0(i) == Pin(CpupldReg.PWR_CTRL0, i)
CpupldPwrCtrl1(i) == Pin(CpupldReg.PWR_CTRL1, i)
CpupldPwrStatus0(i) == PinView(CpupldReg.PWR_STATUS0, i)
CpupldPwrStatus1(i) == PinView(CpupldReg.PWR_STATUS1, i)
CpupldBoardReg0View(i) == PinView(CpupldReg.BOARD0, i)
CpupldBoardReg1(i) == PinView(CpupldReg.BOARD1, i)
CpupldBoardReg0(i) ==
    IF i \in {4} THEN Field(CpupldReg.BOARD0, i, 3, 7)
    ELSE Pin(CpupldReg.BOARD0, i)
CpupldCpuInt0View(i) == PinView(CpupldReg.CPU_INT0, i)
CpupldCpuInt1View(i) == PinView(CpupldReg.CPU_INT1, i)
CpupldCpuInt2View(i) == PinView(CpupldReg.CPU_INT2, i)
CpupldCpuInt0(i) == Pin(CpupldReg.CPU_INT0, i)
CpupldCpuInt1(i) == Pin(CpupldReg.CPU_INT1, i)
CpupldCpuInt2(i) == Pin(CpupldReg.CPU_INT2, i)
CpupldRst0(i) == Pin(CpupldReg.RST0, i)
CpupldRst1(i) == Pin(CpupldReg.RST1, i)
CpupldRst2(i) == Pin(CpupldReg.RST2, i)
CpupldHitless(i) == PinView(CpupldReg.HITLESS, i)
CpupldCodeDay == View(CpupldReg.CODE_DAY, Bit)
CpupldCodeMonth == View(CpupldReg.CODE_MONTH, Bit)
CpupldCodeYear == View(CpupldReg.CODE_YEAR, Bit)

CpupldDeclared ==
       Board([code_ver |-> CpupldCodeVer, board_type |-> CpupldBoardType,
             board_ver |-> CpupldBoardVer, scratch |-> CpupldScratch,
             globe_rst |-> CpupldBiosCtrl(1), rst_bios_bak |-> CpupldBiosCtrl(4),
             bios_sel |-> CpupldBiosCtrl(5), bios_wp |-> CpupldEepromCtrl(2),
             margin_ctrl |-> CpupldMarginCtrl(0), wd_punch |-> CpupldWatchdog(0),
             wd_enable |-> CpupldWatchdog(3), wd_timer |-> CpupldWatchdog(4),
             reset_cause |-> CpupldRstCause, pwr_1v24_en |-> CpupldPwrCtrl0(0),
             pwr_1v8_en |-> CpupldPwrCtrl0(1), pwr_3v3_en |-> CpupldPwrCtrl0(2),
             pwr_1v15_cpld_en |-> CpupldPwrCtrl0(3),
             pwr_1v15_ram_en |-> CpupldPwrCtrl0(4), pwr_1v05_en |-> CpupldPwrCtrl0(5),
             pwr_1v05_vnn_en |-> CpupldPwrCtrl0(6),
             pwr_1v2_vddq_en |-> CpupldPwrCtrl0(7),
             pwr_status_1v24 |-> CpupldPwrStatus0(0),
             pwr_status_1v8 |-> CpupldPwrStatus0(1),
             pwr_status_3v3 |-> CpupldPwrStatus0(2),
             pwr_status_1v15 |-> CpupldPwrStatus0(3),
             pwr_status_1v15_ram |-> CpupldPwrStatus0(4),
             pwr_status_1v05 |-> CpupldPwrStatus0(5),
             pwr_status_1v05_vnn |-> CpupldPwrStatus0(6),
             pwr_status_1v2_vddq |-> CpupldPwrStatus0(7),
             pwr_2v5_vpp_en |-> CpupldPwrCtrl1(0), pwr_0v6_vtt_en |-> CpupldPwrCtrl1(1),
             pwr_status_2v5_vpp |-> CpupldPwrStatus1(0),
             pwr_status_0v6_vtt |-> CpupldPwrStatus1(1),
             pwr_status_mb_pwr |-> CpupldPwrStatus1(6),
             pwr_status_hw_en_pwr |-> CpupldPwrStatus1(7),
             brd_boot_success |-> CpupldBoardReg0View(0),
             brd_bios_wd_en |-> CpupldBoardReg0(3),
             brd_boot_timer |-> CpupldBoardReg0(4),
             brd_boot_bios_rec |-> CpupldBoardReg0View(7),
             brd_rmt_access |-> CpupldBoardReg1(3), brd_usb_oc |-> CpupldBoardReg1(4),
             brd_thermal_in |-> CpupldBoardReg1(5),
             brd_thermal_out |-> CpupldBoardReg1(6),
             brd_tpm_pirq |-> CpupldBoardReg1(7),
             int_thermtrip |-> CpupldCpuInt0View(1),
             int_hot_cpld |-> CpupldCpuInt0View(2),
             int_thermtrip_msk |-> CpupldCpuInt0(5),
             int_hot_cpld_msk |-> CpupldCpuInt0(6), int_tmp75 |-> CpupldCpuInt1View(0),
             int_mcerr |-> CpupldCpuInt1View(1), int_ierr |-> CpupldCpuInt1View(2),
             int_fatal_err |-> CpupldCpuInt1View(3), int_tmp75_msk |-> CpupldCpuInt1(4),
             int_mcerr_msk |-> CpupldCpuInt1(5), int_ierr_msk |-> CpupldCpuInt1(6),
             int_fatal_err_msk |-> CpupldCpuInt1(7), int_mb |-> CpupldCpuInt2View(0),
             int_op_mod |-> CpupldCpuInt2View(1), int_psu_fan |-> CpupldCpuInt2View(2),
             int_psu_pwr |-> CpupldCpuInt2View(3), int_mb_msk |-> CpupldCpuInt2(4),
             int_op_mod_msk |-> CpupldCpuInt2(5), int_psu_fan_msk |-> CpupldCpuInt2(6),
             int_psu_pwr_msk |-> CpupldCpuInt2(7), rst_pld_soft |-> CpupldRst0(0),
             rst_pwr_down |-> CpupldRst0(1), rst_cpu_btn |-> CpupldRst0(2),
             rst_rstic |-> CpupldRst0(3), rst_cpu_rtc |-> CpupldRst1(1),
             rst_cpu_rtest |-> CpupldRst1(2), rst_async |-> CpupldRst1(3),
             rst_mr |-> CpupldRst1(4), rst_tpm |-> CpupldRst2(0),
             hitless_en |-> CpupldHitless(0), code_day |-> CpupldCodeDay,
             code_month |-> CpupldCodeMonth, code_year |-> CpupldCodeYear])
CpupldProbe == SetRow(CpupldReg.RST_CAUSE, 1, None)
Cpupld == [attrs |-> CpupldDeclared,
    probe |-> CpupldProbe]

-----------------------------------------------------------------------------
\* h4_32d_swpld2.c

Swpld2Reg == [CODE_REV |-> 1, SYNC |-> 4, LED_TEST |-> 8, SCRATCH |-> 15, RST |-> 16,
    QSFP_RST |-> <<17, 18>>, QSFP_INITMOD |-> <<33, 34>>, QSFP_MODSEL |-> <<49, 50>>,
    HITLESS |-> 57, QSFP_MODPRS |-> <<81, 82>>, QSFP_INT |-> <<97, 98>>,
    CODE_DAY |-> 240, CODE_MONTH |-> 241, CODE_YEAR |-> 242, QSFP_LED1 |-> 144]

Swpld2CodeVer == View(Swpld2Reg.CODE_REV, Bit)
Swpld2Sync(i) == [Pin(Swpld2Reg.SYNC, i) EXCEPT !.shown = <<Bit>>]
Swpld2SyncView(i) == View(Swpld2Reg.SYNC, Bit)
Swpld2LedTest(i) == Pin(Swpld2Reg.LED_TEST, i)
Swpld2Scratch == Store(Swpld2Reg.SCRATCH)
Swpld2Rst(i) == Pin(Swpld2Reg.RST, i)
Swpld2QsfpRst(n) == PinAt(Swpld2Reg.QSFP_RST, n)
Swpld2QsfpInitmod(n) == PinAt(Swpld2Reg.QSFP_INITMOD, n)
Swpld2QsfpModsel(n) == PinAt(Swpld2Reg.QSFP_MODSEL, n)
Swpld2Hitless(i) == PinView(Swpld2Reg.HITLESS, i)
Swpld2QsfpModprs(n) == PinViewAt(Swpld2Reg.QSFP_MODPRS, n)
Swpld2ModprsReg(n) == View(Swpld2Reg.QSFP_MODPRS[n], Bit)
Swpld2QsfpInt(n) == PinViewAt(Swpld2Reg.QSFP_INT, n)
Swpld2CodeDay == View(Swpld2Reg.CODE_DAY, Bit)
Swpld2CodeMonth == View(Swpld2Reg.CODE_MONTH, Bit)
Swpld2CodeYear == View(Swpld2Reg.CODE_YEAR, Bit)
Swpld2QsfpReset(n) == Memory
Swpld2QsfpLed(n) == Store(Swpld2Reg.QSFP_LED1 + n)

Swpld2RstnPlace == [p \in 1..8 |-> 8 - p] @@ [p \in 9..16 |-> 24 - p]
Swpld2Declared ==
       Board([code_ver |-> Swpld2CodeVer, sync_clk_sel0 |-> Swpld2Sync(0),
             sync_clk_sel1 |-> Swpld2Sync(1), sync_cpld |-> Swpld2SyncView(6),
             sync_presence |-> Swpld2SyncView(7), led_test_amb |-> Swpld2LedTest(0),
             led_test_grn |-> Swpld2LedTest(1), led_test_blink |-> Swpld2LedTest(3),
             led_test_src_sel |-> Swpld2LedTest(7), scratch |-> Swpld2Scratch,
             rst_pld_soft |-> Swpld2Rst(0)])
    @@ Each("rstn", Swpld2RstnPlace, Swpld2QsfpRst)
    @@ Each("lpmod", Swpld2RstnPlace, Swpld2QsfpInitmod)
    @@ Each("modsel", Swpld2RstnPlace, Swpld2QsfpModsel)
    @@ Board([hitless_en |-> Swpld2Hitless(0)])
    @@ Each("prs", Swpld2RstnPlace, Swpld2QsfpModprs)
    @@ Each("modprs_reg", [p \in 1..2 |-> p], Swpld2ModprsReg)
    @@ Each("int", Swpld2RstnPlace, Swpld2QsfpInt)
    @@ Board([code_day |-> Swpld2CodeDay, code_month |-> Swpld2CodeMonth,
             code_year |-> Swpld2CodeYear])
    @@ Each("reset", [p \in 1..16 |-> p - 1], Swpld2QsfpReset)
    @@ Each("led", [p \in 1..16 |-> p - 1], Swpld2QsfpLed)
Swpld2Probe == Set(Swpld2Reg.QSFP_RST, None) \o Set(Swpld2Reg.QSFP_INITMOD, Byte) \o
    Set(Swpld2Reg.QSFP_MODSEL, None) \o Set(Swpld2Reg.QSFP_RST, Byte)
Swpld2 == [attrs |-> Swpld2Declared,
    probe |-> Swpld2Probe]

-----------------------------------------------------------------------------
\* h4_32d_swpld3.c

Swpld3Reg == [CODE_REV |-> 1, LED_TEST |-> 8, SCRATCH |-> 15, RST |-> 16,
    QSFP_RST |-> <<17, 18>>, QSFP_INITMOD |-> <<33, 34>>, QSFP_MODSEL |-> <<49, 50>>,
    HITLESS |-> 57, QSFP_MODPRS |-> <<81, 82>>, QSFP_INT |-> <<97, 98>>, SFP0 |-> 113,
    SFP1 |-> 114, CODE_DAY |-> 240, CODE_MONTH |-> 241, CODE_YEAR |-> 242,
    QSFP_LED1 |-> 144]

Swpld3CodeVer == View(Swpld3Reg.CODE_REV, Bit)
Swpld3LedTest(i) == Pin(Swpld3Reg.LED_TEST, i)
Swpld3Scratch == Store(Swpld3Reg.SCRATCH)
Swpld3Rst(i) == Pin(Swpld3Reg.RST, i)
Swpld3QsfpRst(n) == PinAt(Swpld3Reg.QSFP_RST, n)
Swpld3QsfpInitmod(n) == PinAt(Swpld3Reg.QSFP_INITMOD, n)
Swpld3QsfpModsel(n) == PinAt(Swpld3Reg.QSFP_MODSEL, n)
Swpld3Hitless(i) == PinView(Swpld3Reg.HITLESS, i)
Swpld3QsfpModprs(n) == PinViewAt(Swpld3Reg.QSFP_MODPRS, n)
Swpld3ModprsReg(n) == View(Swpld3Reg.QSFP_MODPRS[n], Bit)
Swpld3QsfpInt(n) == PinViewAt(Swpld3Reg.QSFP_INT, n)
Swpld3SfpReg0(i) == PinView(Swpld3Reg.SFP0, i)
Swpld3SfpReg1(i) ==
    IF i \in {4} THEN Field(Swpld3Reg.SFP1, i, 2, 3)
    ELSE Pin(Swpld3Reg.SFP1, i)
Swpld3CodeDay == View(Swpld3Reg.CODE_DAY, Bit)
Swpld3CodeMonth == View(Swpld3Reg.CODE_MONTH, Bit)
Swpld3CodeYear == View(Swpld3Reg.CODE_YEAR, Bit)
Swpld3QsfpReset(n) == Memory
Swpld3QsfpLed(n) == Store(Swpld3Reg.QSFP_LED1 + n)

Swpld3RstnPlace == [p \in 17..24 |-> 24 - p] @@ [p \in 25..32 |-> 40 - p]
Swpld3Declared ==
       Board([code_ver |-> Swpld3CodeVer, led_test_amb |-> Swpld3LedTest(0),
             led_test_grn |-> Swpld3LedTest(1), led_test_blink |-> Swpld3LedTest(3),
             led_test_src_sel |-> Swpld3LedTest(7), scratch |-> Swpld3Scratch,
             rst_pld_soft |-> Swpld3Rst(0)])
    @@ Each("rstn", Swpld3RstnPlace, Swpld3QsfpRst)
    @@ Each("lpmod", Swpld3RstnPlace, Swpld3QsfpInitmod)
    @@ Each("modsel", Swpld3RstnPlace, Swpld3QsfpModsel)
    @@ Board([hitless_en |-> Swpld3Hitless(0)])
    @@ Each("prs", Swpld3RstnPlace, Swpld3QsfpModprs)
    @@ Each("modprs_reg", [p \in 1..2 |-> p], Swpld3ModprsReg)
    @@ Each("int", Swpld3RstnPlace, Swpld3QsfpInt)
    @@ Board([sfp0_tx_fault |-> Swpld3SfpReg0(4), sfp0_rx_los |-> Swpld3SfpReg0(5),
             sfp0_prs |-> Swpld3SfpReg0(6), sfp0_tx_en |-> Swpld3SfpReg1(7),
             sfp0_led |-> Swpld3SfpReg1(4), code_day |-> Swpld3CodeDay,
             code_month |-> Swpld3CodeMonth, code_year |-> Swpld3CodeYear])
    @@ Each("reset", [p \in 17..32 |-> p - 17], Swpld3QsfpReset)
    @@ Each("led", [p \in 17..32 |-> p - 17], Swpld3QsfpLed)
Swpld3Probe == Set(Swpld3Reg.QSFP_RST, None) \o Set(Swpld3Reg.QSFP_INITMOD, Byte) \o
    Set(Swpld3Reg.QSFP_MODSEL, None) \o Set(Swpld3Reg.QSFP_RST, Byte) \o
    SetRow(Swpld3Reg.SFP1, 1, {7})
Swpld3 == [attrs |-> Swpld3Declared,
    probe |-> Swpld3Probe]

=============================================================================
