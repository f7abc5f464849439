----------------------------- MODULE CpldH532d ------------------------------
(***************************************************************************)
(* The CPLDs of the IXR7220-H5-32D as the drivers under                    *)
(* ixr7220h5-32d/modules present them: one record per driver, with the     *)
(* table of its sysfs attributes and the writes of its probe function,     *)
(* in order.  The registers and their fields come from the #define         *)
(* lines, the kind of an attribute from its show and store handlers, the   *)
(* pins of a port from the index of its SENSOR_DEVICE_ATTR.                *)
(* CpldAttributes says what the constructors mean, CpldDriver how the      *)
(* handlers run.                                                           *)
(***************************************************************************)
EXTENDS CpldAttributes

-----------------------------------------------------------------------------
\* cpupld.c

CpupldReg == [SCRATCH |-> 0, CODE_REV |-> 1, BOARD_INFO |-> 2, WATCHDOG |-> 7,
    HITLESS |-> 64, CODE_DAY |-> 240, CODE_MONTH |-> 241, CODE_YEAR |-> 242,
    RST_CAUSE |-> 40]

CpupldScratch == Store(CpupldReg.SCRATCH)
CpupldCodeVer == View(CpupldReg.CODE_REV, Bit)
CpupldBoardVer == View(CpupldReg.BOARD_INFO, 0..2)
CpupldWatchdog(i) ==
    IF i \in {4} THEN Field(CpupldReg.WATCHDOG, i, 3, 7)
    ELSE Pin(CpupldReg.WATCHDOG, i)
CpupldRstCause == Kept
CpupldHitless(i) == PinView(CpupldReg.HITLESS, i)
CpupldCodeDay == View(CpupldReg.CODE_DAY, Bit)
CpupldCodeMonth == View(CpupldReg.CODE_MONTH, Bit)
CpupldCodeYear == View(CpupldReg.CODE_YEAR, Bit)

CpupldDeclared ==
       Board([scratch |-> CpupldScratch, code_ver |-> CpupldCodeVer,
             board_ver |-> CpupldBoardVer, wd_punch |-> CpupldWatchdog(0),
             wd_enable |-> CpupldWatchdog(3), wd_timer |-> CpupldWatchdog(4),
             reset_cause |-> CpupldRstCause, hitless_en |-> CpupldHitless(0),
             code_day |-> CpupldCodeDay, code_month |-> CpupldCodeMonth,
             code_year |-> CpupldCodeYear])
CpupldProbe == SetRow(CpupldReg.RST_CAUSE, 1, None)
Cpupld == [attrs |-> CpupldDeclared,
    probe |-> CpupldProbe]

-----------------------------------------------------------------------------
\* swpld2.c

Swpld2Reg == [SCRATCH |-> 0, CODE_REV |-> 1, BOARD_REV |-> 2, LED_TEST |-> 8,
    RST_PLD |-> 16, QSFP_RST |-> <<48, 49>>, QSFP_LPMODE |-> <<52, 53>>,
    QSFP_MODSEL |-> <<56, 57>>, QSFP_MODPRS |-> <<60, 61, 62, 63>>, SFP_STAT |-> 69,
    SFP_CTRL |-> 68, CODE_DAY |-> 240, CODE_MONTH |-> 241, CODE_YEAR |-> 242,
    QSFP_LED1 |-> 144, QSFP_BRKNUM1 |-> 208]

Swpld2Scratch == Store(Swpld2Reg.SCRATCH)
Swpld2CodeVer == View(Swpld2Reg.CODE_REV, Bit)
Swpld2BoardVer == View(Swpld2Reg.BOARD_REV, 0..2)
Swpld2LedTest(i) == Pin(Swpld2Reg.LED_TEST, i)
Swpld2Rst(i) == Pin(Swpld2Reg.RST_PLD, i)
Swpld2QsfpRst(n) == PinAt(Swpld2Reg.QSFP_RST, n)
Swpld2QsfpLpmode(n) == PinAt(Swpld2Reg.QSFP_LPMODE, n)
Swpld2QsfpModsel(n) == PinAt(Swpld2Reg.QSFP_MODSEL, n)
Swpld2QsfpPrs(n) == PinViewAt(Swpld2Reg.QSFP_MODPRS, n)
Swpld2ModprsReg(n) == View(Swpld2Reg.QSFP_MODPRS[n], Bit)
Swpld2SfpStatReg(i) == PinView(Swpld2Reg.SFP_STAT, i)
Swpld2SfpCtrlReg(i) ==
    IF i \in {2, 6} THEN Field(Swpld2Reg.SFP_CTRL, i, 2, 3)
    ELSE Pin(Swpld2Reg.SFP_CTRL, i)
Swpld2CodeDay == View(Swpld2Reg.CODE_DAY, Bit)
Swpld2CodeMonth == View(Swpld2Reg.CODE_MONTH, Bit)
Swpld2CodeYear == View(Swpld2Reg.CODE_YEAR, Bit)
Swpld2QsfpLed(n) == StoreWord(Swpld2Reg.QSFP_LED1 + 2 * n)
Swpld2QsfpBrknum(n) == [Field(Swpld2Reg.QSFP_BRKNUM1 + n \div 2, 4 * (n % 2), 4, 15)
            EXCEPT !.clears = <<4 * (n % 2) .. 4 * (n % 2) + 2>>]

Swpld2TxFaultPlace == 33 :> 2 @@ 34 :> 6
Swpld2PrsPlace == 33 :> 0 @@ 34 :> 4
Swpld2Declared ==
       Board([scratch |-> Swpld2Scratch, code_ver |-> Swpld2CodeVer,
             board_ver |-> Swpld2BoardVer, led_test_amb |-> Swpld2LedTest(0),
             led_test_grn |-> Swpld2LedTest(1), led_test_blink |-> Swpld2LedTest(3),
             led_test_src_sel |-> Swpld2LedTest(7), rst_pld_soft |-> Swpld2Rst(0)])
    @@ Each("rst", [p \in 1..16 |-> p - 1], Swpld2QsfpRst)
    @@ Each("lpmod", [p \in 1..16 |-> p - 1], Swpld2QsfpLpmode)
    @@ Each("modsel", [p \in 1..16 |-> p - 1], Swpld2QsfpModsel)
    @@ Each("prs", [p \in 1..16 |-> p - 1], Swpld2QsfpPrs)
    @@ Each("modprs_reg", [p \in 1..4 |-> p], Swpld2ModprsReg)
    @@ Each("tx_fault", Swpld2TxFaultPlace, Swpld2SfpStatReg)
    @@ Each("rx_los", 33 :> 1 @@ 34 :> 5, Swpld2SfpStatReg)
    @@ Each("prs", Swpld2PrsPlace, Swpld2SfpStatReg)
    @@ Each("tx_en", Swpld2PrsPlace, Swpld2SfpCtrlReg)
    @@ Each("led", Swpld2TxFaultPlace, Swpld2SfpCtrlReg)
    @@ Board([code_day |-> Swpld2CodeDay, code_month |-> Swpld2CodeMonth,
             code_year |-> Swpld2CodeYear])
    @@ Each("led", [p \in 1..16 |-> p - 1], Swpld2QsfpLed)
    @@ Each("brknum", [p \in 1..16 |-> p - 1], Swpld2QsfpBrknum)
Swpld2Probe == Set(Swpld2Reg.QSFP_MODSEL, Byte) \o Set(Swpld2Reg.QSFP_LPMODE, Byte) \o
    Set(Swpld2Reg.QSFP_RST, Byte) \o Set(Swpld2Reg.QSFP_RST, None) \o
    SetRow(Swpld2Reg.SFP_CTRL, 1, None)
Swpld2 == [attrs |-> Swpld2Declared,
    probe |-> Swpld2Probe]

-----------------------------------------------------------------------------
\* swpld3.c

Swpld3Reg == [SCRATCH |-> 0, CODE_REV |-> 1, BOARD_REV |-> 2, LED_TEST |-> 8,
    RST_PLD |-> 16, QSFP_RST |-> <<48, 49>>, QSFP_LPMODE |-> <<52, 53>>,
    QSFP_MODSEL |-> <<56, 57>>, QSFP_MODPRS |-> <<60, 61, 62, 63>>, CODE_DAY |-> 240,
    CODE_MONTH |-> 241, CODE_YEAR |-> 242, QSFP_LED1 |-> 144, QSFP_BRKNUM1 |-> 208]

Swpld3Scratch == Store(Swpld3Reg.SCRATCH)
Swpld3CodeVer == View(Swpld3Reg.CODE_REV, Bit)
Swpld3BoardVer == View(Swpld3Reg.BOARD_REV, 0..2)
Swpld3LedTest(i) == Pin(Swpld3Reg.LED_TEST, i)
Swpld3Rst(i) == Pin(Swpld3Reg.RST_PLD, i)
Swpld3QsfpRst(n) == PinAt(Swpld3Reg.QSFP_RST, n)
Swpld3QsfpLpmode(n) == PinAt(Swpld3Reg.QSFP_LPMODE, n)
Swpld3QsfpModsel(n) == PinAt(Swpld3Reg.QSFP_MODSEL, n)
Swpld3QsfpPrs(n) == PinViewAt(Swpld3Reg.QSFP_MODPRS, n)
Swpld3ModprsReg(n) == View(Swpld3Reg.QSFP_MODPRS[n], Bit)
Swpld3CodeDay == View(Swpld3Reg.CODE_DAY, Bit)
Swpld3CodeMonth == View(Swpld3Reg.CODE_MONTH, Bit)
Swpld3CodeYear == View(Swpld3Reg.CODE_YEAR, Bit)
Swpld3QsfpLed(n) == StoreWord(Swpld3Reg.QSFP_LED1 + 2 * n)
Swpld3QsfpBrknum(n) == [Field(Swpld3Reg.QSFP_BRKNUM1 + n \div 2, 4 * (n % 2), 4, 15)
            EXCEPT !.clears = <<4 * (n % 2) .. 4 * (n % 2) + 2>>]

Swpld3Declared ==
       Board([scratch |-> Swpld3Scratch, code_ver |-> Swpld3CodeVer,
             board_ver |-> Swpld3BoardVer, led_test_amb |-> Swpld3LedTest(0),
             led_test_grn |-> Swpld3LedTest(1), led_test_blink |-> Swpld3LedTest(3),
             led_test_src_sel |-> Swpld3LedTest(7), rst_pld_soft |-> Swpld3Rst(0)])
    @@ Each("rst", [p \in 17..32 |-> p - 17], Swpld3QsfpRst)
    @@ Each("lpmod", [p \in 17..32 |-> p - 17], Swpld3QsfpLpmode)
    @@ Each("modsel", [p \in 17..32 |-> p - 17], Swpld3QsfpModsel)
    @@ Each("prs", [p \in 17..32 |-> p - 17], Swpld3QsfpPrs)
    @@ Each("modprs_reg", [p \in 1..4 |-> p], Swpld3ModprsReg)
    @@ Board([code_day |-> Swpld3CodeDay, code_month |-> Swpld3CodeMonth,
             code_year |-> Swpld3CodeYear])
    @@ Each("led", [p \in 17..32 |-> p - 17], Swpld3QsfpLed)
    @@ Each("brknum", [p \in 17..32 |-> p - 17], Swpld3QsfpBrknum)
Swpld3Probe == Set(Swpld3Reg.QSFP_MODSEL, Byte) \o Set(Swpld3Reg.QSFP_LPMODE, Byte) \o
    Set(Swpld3Reg.QSFP_RST, Byte) \o Set(Swpld3Reg.QSFP_RST, None)
Swpld3 == [attrs |-> Swpld3Declared,
    probe |-> Swpld3Probe]

=============================================================================
