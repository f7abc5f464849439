----------------------------- MODULE CpldH464d ------------------------------
(***************************************************************************)
(* The CPLDs of the IXR7220-H4-64D as the drivers under                    *)
(* ixr7220h4-64d/modules present them: one record per driver, with the     *)
(* table of its sysfs attributes and the writes of its probe function,     *)
(* in order.  The registers and their fields come from the #define         *)
(* lines, the kind of an attribute from its show and store handlers, the   *)
(* pins of a port from the index of its SENSOR_DEVICE_ATTR.                *)
(* CpldAttributes says what the constructors mean, CpldDriver how the      *)
(* handlers run.                                                           *)
(***************************************************************************)
EXTENDS CpldAttributes

-----------------------------------------------------------------------------
\* fan_cpld.c

FanReg == [MAJOR_REV |-> 1, MINOR_REV |-> 0, PCB_VERSION |-> 2, SCRATCH |-> 4,
    LED_STATUS |-> 9, FAN_PRESENCE |-> 16, FAN_ENABLE |-> 26,
    FAN1_PWM |-> <<48, 49, 50, 51>>, FAN1_SPEED |-> <<64, 80, 65, 81, 66, 82, 67, 83>>]

FanCodeVer == Words(<<FanReg.MAJOR_REV, FanReg.MINOR_REV>>)
FanBoardVer == View(FanReg.PCB_VERSION, 0..3)
FanScratch == Store(FanReg.SCRATCH)
FanFanLedStatus(i) == Named(Field(FanReg.LED_STATUS, i, 2, 2))
FanFanPresent(i) == Inverted(PinView(FanReg.FAN_PRESENCE, i))
FanFanPowerStatus(i) == Inverted(Pin(FanReg.FAN_ENABLE, i))
FanFanPwm(i) == Store(FanReg.FAN1_PWM[i \div 2 + 1])
FanFanSpeed(i) == View(FanReg.FAN1_SPEED[i + 1], Bit)

FanFanLedPlace == 1 :> 0 @@ 2 :> 2 @@ 3 :> 4 @@ 4 :> 6
FanDeclared ==
       Board([code_ver |-> FanCodeVer, board_ver |-> FanBoardVer, scratch |-> FanScratch])
    @@ Each("fan_led", FanFanLedPlace, FanFanLedStatus)
    @@ Each("fan_present", [p \in 1..4 |-> p - 1], FanFanPresent)
    @@ Each("fan_power", [p \in 1..4 |-> p - 1], FanFanPowerStatus)
    @@ Each("pwm", [p \in 1..8 |-> p - 1], FanFanPwm)
    @@ Each("fan_speed", [p \in 1..8 |-> p - 1], FanFanSpeed)
FanProbe == <<>>
Fan == [attrs |-> FanDeclared,
    probe |-> FanProbe]

-----------------------------------------------------------------------------
\* pdbl_cpld.c

PdblReg == [MAJOR_REV |-> 1, MINOR_REV |-> 0]

PdblCodeVer == Words(<<PdblReg.MAJOR_REV, PdblReg.MINOR_REV>>)

PdblDeclared ==
       Board([code_ver |-> PdblCodeVer])
PdblProbe == <<>>
Pdbl == [attrs |-> PdblDeclared,
    probe |-> PdblProbe]

-----------------------------------------------------------------------------
\* pdbr_cpld.c

PdbrReg == [MAJOR_REV |-> 1, MINOR_REV |-> 0]

PdbrCodeVer == Words(<<PdbrReg.MAJOR_REV, PdbrReg.MINOR_REV>>)

PdbrDeclared ==
       Board([code_ver |-> PdbrCodeVer])
PdbrProbe == <<>>
Pdbr == [attrs |-> PdbrDeclared,
    probe |-> PdbrProbe]

-----------------------------------------------------------------------------
\* scm_cpld.c

ScmReg == [MAJOR_REV |-> 1, MINOR_REV |-> 0, HW_REV |-> 2, SCRATCH |-> 4,
    RST_CAUSE_CTRL |-> 47]

ScmCodeVer == Words(<<ScmReg.MAJOR_REV, ScmReg.MINOR_REV>>)
ScmBoardId == View(ScmReg.HW_REV, 0..3)
ScmPcbVer == View(ScmReg.HW_REV, 4..7)
ScmScratch == Store(ScmReg.SCRATCH)
ScmRstCause == Kept

ScmDeclared ==
       Board([code_ver |-> ScmCodeVer, board_id |-> ScmBoardId, pcb_ver |-> ScmPcbVer,
             scratch |-> ScmScratch, reset_cause |-> ScmRstCause])
ScmProbe == SetRow(ScmReg.RST_CAUSE_CTRL, 1, {0})
Scm == [attrs |-> ScmDeclared,
    probe |-> ScmProbe]

-----------------------------------------------------------------------------
\* smb_cpld.c

SmbReg == [MAJOR_REV |-> 1, MINOR_REV |-> 0, HW_REV |-> 2, SCRATCH |-> 4,
    PRS_SIG |-> 20, SYS_STAT |-> 25, PSU_GOOD |-> 144]

SmbCodeVer == Words(<<SmbReg.MAJOR_REV, SmbReg.MINOR_REV>>)
SmbBoardId == View(SmbReg.HW_REV, 0..3)
SmbPcbVer == View(SmbReg.HW_REV, 4..7)
SmbScratch == Store(SmbReg.SCRATCH)
SmbPresent(i) == PinView(SmbReg.PRS_SIG, i)
SmbSysStat(i) == PinView(SmbReg.SYS_STAT, i)
SmbPsuGood(i) == PinView(SmbReg.PSU_GOOD, i)

SmbDeclared ==
       Board([code_ver |-> SmbCodeVer, board_id |-> SmbBoardId, pcb_ver |-> SmbPcbVer,
             scratch |-> SmbScratch, psu1_present |-> SmbPresent(0),
             psu2_present |-> SmbPresent(1), psu1_state |-> SmbSysStat(2),
             psu2_state |-> SmbSysStat(0), psu1_pwr_ok |-> SmbPsuGood(1),
             psu2_pwr_ok |-> SmbPsuGood(0)])
SmbProbe == <<>>
Smb == [attrs |-> SmbDeclared,
    probe |-> SmbProbe]

-----------------------------------------------------------------------------
\* sys_fpga.c.  Registers of the upper board's FPGA, and of the lower one's from
\* LDB on.  Left out: the attributes of the SFP cages that work on cached values
\* (FpgaEeprom), and group 5 of the LEDs, whose store shifts the value out.

FpgaReg == [UDB |-> 0, LDB |-> 65536, CPLD1 |-> 1024, CPLD2 |-> 1280,
    QSFP_PRESENT |-> 5376, QSFP_LPMODE |-> 5456, QSFP_RESET |-> 5472,
    SFP_GPIO1_EN |-> 4096, SFP_GPIO1_IN |-> 4104, FP_LED_SYS2 |-> 1296,
    LED_EN |-> 176, LED_LB |-> 180, LED_PRES |-> 184, SFP_PORT_LED |-> 1212]

\* Ports in order: 32 to a board, 16 of them to each of its CPLDs.
FpgaBoard(n) == IF n < 32 THEN FpgaReg.UDB ELSE FpgaReg.LDB
FpgaCpld(n) == FpgaBoard(n) + (IF (n \div 16) % 2 = 0 THEN FpgaReg.CPLD1 ELSE FpgaReg.CPLD2)
FpgaSfpLed(n, first) == Pin(FpgaReg.LDB + FpgaReg.SFP_PORT_LED, first + n - 64)

FpgaPresentAll == Attr("view",
    <<FpgaReg.UDB + FpgaReg.QSFP_PRESENT, FpgaReg.LDB + FpgaReg.QSFP_PRESENT,
      FpgaReg.LDB + FpgaReg.SFP_GPIO1_IN>>,
    <<Bit, Bit, {2, 10}>>, <<None, None, None>>, 0, -1)
FpgaPresent(n) == PinView(FpgaBoard(n) + FpgaReg.QSFP_PRESENT, n % 32)
FpgaLpmode(n)  == Pin(FpgaBoard(n) + FpgaReg.QSFP_LPMODE, n % 32)
FpgaReset(n)   == Pin(FpgaBoard(n) + FpgaReg.QSFP_RESET, n % 32)
FpgaQsfpReset(n) == Memory
FpgaFpLed == Field(FpgaReg.UDB + FpgaReg.FP_LED_SYS2, 8, 4, 15)
FpgaCpldVersion(i) == View(FpgaCpld(16 * i), 0..15)
FpgaLedEn(n) ==
    IF n < 64 THEN Pin(FpgaCpld(n) + FpgaReg.LED_EN, n % 16) ELSE FpgaSfpLed(n, 8)
FpgaLedLb(n) ==
    IF n < 64 THEN Pin(FpgaCpld(n) + FpgaReg.LED_LB, n % 16) ELSE FpgaSfpLed(n, 10)
FpgaLedPres(n) ==
    IF n < 64 THEN Pin(FpgaCpld(n) + FpgaReg.LED_PRES, n % 16) ELSE FpgaSfpLed(n, 12)
FpgaGroupLedEn(g)   == Field(FpgaCpld(16 * g) + FpgaReg.LED_EN, 0, 16, 65535)
FpgaGroupLedPres(g) == Field(FpgaCpld(16 * g) + FpgaReg.LED_PRES, 0, 16, 65535)

FpgaModulePlace == [p \in 1..64 |-> p - 1]
FpgaLedPlace    == [p \in 1..66 |-> p - 1]
FpgaGroupPlace  == [g \in 1..4 |-> g - 1]
FpgaDeclared1 ==
       Board([module_present_all |-> FpgaPresentAll])
    @@ Each("module_present", FpgaModulePlace, FpgaPresent)
    @@ Each("module_reset", FpgaModulePlace, FpgaReset)
    @@ Each("module_lp_mode", FpgaModulePlace, FpgaLpmode)
FpgaDeclared2 == Each("qsfp_reset", FpgaModulePlace, FpgaQsfpReset)
FpgaDeclared3 ==
       Each("led_en", FpgaLedPlace, FpgaLedEn)
    @@ Each("group_led_en", FpgaGroupPlace, FpgaGroupLedEn)
FpgaDeclared4 == Each("led_lb", FpgaLedPlace, FpgaLedLb)
FpgaDeclared5 ==
       Each("led_pres", FpgaLedPlace, FpgaLedPres)
    @@ Each("group_led_pres", FpgaGroupPlace, FpgaGroupLedPres)
    @@ Board([led_sys |-> FpgaFpLed, udb_cpld1_ver |-> FpgaCpldVersion(0),
             udb_cpld2_ver |-> FpgaCpldVersion(1), ldb_cpld1_ver |-> FpgaCpldVersion(2),
             ldb_cpld2_ver |-> FpgaCpldVersion(3)])

FpgaSetRow(reg, byte) == SetByte(reg, 0, byte) \o SetByte(reg, 1, byte)
FpgaSetAll(offset, byte) ==
    FpgaSetRow(FpgaCpld(32) + offset, byte) \o FpgaSetRow(FpgaCpld(48) + offset, byte) \o
    FpgaSetRow(FpgaCpld(0) + offset, byte) \o FpgaSetRow(FpgaCpld(16) + offset, byte)
FpgaProbe ==
    Set(<<FpgaReg.LDB + FpgaReg.SFP_GPIO1_EN>>, {0, 1, 2, 8, 9, 10}) \o
    FpgaSetAll(FpgaReg.LED_EN, Byte) \o FpgaSetAll(FpgaReg.LED_PRES, None) \o
    SetByte(FpgaReg.LDB + FpgaReg.SFP_PORT_LED, 1, {0, 1})
Fpga == [attrs |-> FpgaDeclared1 @@ FpgaDeclared2 @@ FpgaDeclared3 @@ FpgaDeclared4
                   @@ FpgaDeclared5,
    probe |-> FpgaProbe, mmio |-> TRUE]

=============================================================================
