------------------------------ MODULE CpldH664 ------------------------------
(***************************************************************************)
(* The CPLDs of the IXR7220-H6-64 as the drivers under                     *)
(* ixr7220h6-64/modules present them: one record per driver, with the      *)
(* table of its sysfs attributes and the writes of its probe function,     *)
(* in order.  The registers and their fields come from the #define         *)
(* lines, the kind of an attribute from its show and store handlers, the   *)
(* pins of a port from the index of its SENSOR_DEVICE_ATTR.                *)
(* CpldAttributes says what the constructors mean, CpldDriver how the      *)
(* handlers run.                                                           *)
(***************************************************************************)
EXTENDS CpldAttributes

-----------------------------------------------------------------------------
\* port_cpld0.c

Port0Reg == [VER_MAJOR |-> 0, VER_MINOR |-> 1, SCRATCH |-> 4, SFP_CTRL |-> 3,
    SFP_MISC |-> 5, SFP_TXFAULT |-> 6, SFP_TXDIS |-> 7, SFP_RXLOSS |-> 8,
    SFP_MODPRS |-> 9, SFP_EN_LP |-> 16, OSFP_LPMODE0 |-> 112, OSFP_RST0 |-> 120,
    OSFP_MODPRS0 |-> 136, OSFP_PWGOOD0 |-> 144, OSFP_ENABLE0 |-> 148,
    OSFP_LOOPBK0 |-> 152]

Port0Ver == Words(<<Port0Reg.VER_MAJOR, Port0Reg.VER_MINOR>>)
Port0Scratch == Store(Port0Reg.SCRATCH)
Port0SfpCtl(i) == Pin(Port0Reg.SFP_CTRL, i)
Port0SfpMisc(i) == Pin(Port0Reg.SFP_MISC, i)
Port0SfpTxFault(i) == PinView(Port0Reg.SFP_TXFAULT, i)
Port0SfpTxEn(i) == Pin(Port0Reg.SFP_TXDIS, i)
Port0SfpRxLos(i) == PinView(Port0Reg.SFP_RXLOSS, i)
Port0SfpPrs(i) == PinView(Port0Reg.SFP_MODPRS, i)
Port0SfpEnLp(i) == Pin(Port0Reg.SFP_EN_LP, i)
Port0OsfpLpmode(n) == PinRow(Port0Reg.OSFP_LPMODE0, n)
Port0OsfpRst(n) == PinRow(Port0Reg.OSFP_RST0, n)
Port0OsfpPrs(n) == PinViewRow(Port0Reg.OSFP_MODPRS0, n)
Port0ModprsReg(n) == View(Port0Reg.OSFP_MODPRS0 + n, Bit)
Port0OsfpPwgood(n) == PinViewRow(Port0Reg.OSFP_PWGOOD0, n)
Port0OsfpEn(n) == PinRow(Port0Reg.OSFP_ENABLE0, n)
Port0OsfpLoopb(n) == PinRow(Port0Reg.OSFP_LOOPBK0, n)

Port0LpmodPlace == [p \in 1..16 |-> p - 1] @@ [p \in 33..48 |-> p - 17]
Port0Declared1 ==
       Board([version |-> Port0Ver, scratch |-> Port0Scratch])
    @@ Each("rx_rate", 65 :> 0 @@ 66 :> 2, Port0SfpCtl)
    @@ Each("tx_rate", 65 :> 1 @@ 66 :> 3, Port0SfpCtl)
    @@ Each("efuse_en", [p \in 65..66 |-> p - 65], Port0SfpMisc)
    @@ Each("efuse_flag", [p \in 65..66 |-> p - 63], Port0SfpMisc)
    @@ Each("tx_fault", [p \in 65..66 |-> p - 65], Port0SfpTxFault)
    @@ Each("tx_en", [p \in 65..66 |-> p - 65], Port0SfpTxEn)
    @@ Each("rx_los", [p \in 65..66 |-> p - 65], Port0SfpRxLos)
    @@ Each("prs", [p \in 65..66 |-> p - 65], Port0SfpPrs)
    @@ Each("en", [p \in 65..66 |-> p - 65], Port0SfpEnLp)
    @@ Each("loopb", [p \in 65..66 |-> p - 63], Port0SfpEnLp)
    @@ Each("lpmod", Port0LpmodPlace, Port0OsfpLpmode)
    @@ Each("rst", Port0LpmodPlace, Port0OsfpRst)
    @@ Each("prs", Port0LpmodPlace, Port0OsfpPrs)
    @@ Each("modprs_reg", [p \in 1..4 |-> p - 1], Port0ModprsReg)
Port0Declared2 ==
       Each("pwgood", Port0LpmodPlace, Port0OsfpPwgood)
    @@ Each("en", Port0LpmodPlace, Port0OsfpEn)
    @@ Each("loopb", Port0LpmodPlace, Port0OsfpLoopb)
Port0Probe == SetRow(Port0Reg.OSFP_LPMODE0, 4, None) \o
    SetRow(Port0Reg.OSFP_RST0, 4, None) \o SetRow(Port0Reg.OSFP_RST0, 4, Byte) \o
    SetRow(Port0Reg.SFP_MISC, 1, {2, 3}) \o SetRow(Port0Reg.SFP_TXDIS, 1, {0, 1}) \o
    SetRow(Port0Reg.SFP_EN_LP, 1, None)
Port0 == [attrs |-> Port0Declared1 @@ Port0Declared2,
    probe |-> Port0Probe]

-----------------------------------------------------------------------------
\* port_cpld1.c

Port1Reg == [VER_MAJOR |-> 0, VER_MINOR |-> 1, SCRATCH |-> 4, OSFP_LPMODE0 |-> 112,
    OSFP_RST0 |-> 120, OSFP_MODPRS0 |-> 136, OSFP_PWGOOD0 |-> 144, OSFP_ENABLE0 |-> 148,
    OSFP_LOOPBK0 |-> 152]

Port1Ver == Words(<<Port1Reg.VER_MAJOR, Port1Reg.VER_MINOR>>)
Port1Scratch == Store(Port1Reg.SCRATCH)
Port1OsfpLpmode(n) == PinRow(Port1Reg.OSFP_LPMODE0, n)
Port1OsfpRst(n) == PinRow(Port1Reg.OSFP_RST0, n)
Port1OsfpPrs(n) == PinViewRow(Port1Reg.OSFP_MODPRS0, n)
Port1ModprsReg(n) == View(Port1Reg.OSFP_MODPRS0 + n, Bit)
Port1OsfpPwgood(n) == PinViewRow(Port1Reg.OSFP_PWGOOD0, n)
Port1OsfpEn(n) == PinRow(Port1Reg.OSFP_ENABLE0, n)
Port1OsfpLoopb(n) == PinRow(Port1Reg.OSFP_LOOPBK0, n)

Port1LpmodPlace == [p \in 17..32 |-> p - 17] @@ [p \in 49..64 |-> p - 33]
Port1Declared1 ==
       Board([version |-> Port1Ver, scratch |-> Port1Scratch])
    @@ Each("lpmod", Port1LpmodPlace, Port1OsfpLpmode)
    @@ Each("rst", Port1LpmodPlace, Port1OsfpRst)
    @@ Each("prs", Port1LpmodPlace, Port1OsfpPrs)
    @@ Each("modprs_reg", [p \in 1..4 |-> p - 1], Port1ModprsReg)
    @@ Each("pwgood", Port1LpmodPlace, Port1OsfpPwgood)
Port1Declared2 ==
       Each("en", Port1LpmodPlace, Port1OsfpEn)
    @@ Each("loopb", Port1LpmodPlace, Port1OsfpLoopb)
Port1Probe == SetRow(Port1Reg.OSFP_LPMODE0, 4, None) \o
    SetRow(Port1Reg.OSFP_RST0, 4, None) \o SetRow(Port1Reg.OSFP_RST0, 4, Byte)
Port1 == [attrs |-> Port1Declared1 @@ Port1Declared2,
    probe |-> Port1Probe]

-----------------------------------------------------------------------------
\* sys_cpld.c

SysReg == [VER_MAJOR |-> 0, VER_MINOR |-> 1, SCRATCH |-> 4, PSU_GOOD |-> 11,
    PSU_PRES |-> 12, SYS_LED0 |-> 128, SYS_LED1 |-> 129, RST_GROUP1 |-> 17,
    OSFP_EFUSE0 |-> 112]

SysVer == Words(<<SysReg.VER_MAJOR, SysReg.VER_MINOR>>)
SysScratch == Store(SysReg.SCRATCH)
SysPsuOk(i) == PinView(SysReg.PSU_GOOD, i)
SysPsuPres(i) == PinView(SysReg.PSU_PRES, i)
SysLed0(i) == Field(SysReg.SYS_LED0, i, 4, 15)
SysLed1(i) ==
    IF i = 0 THEN Field(SysReg.SYS_LED1, i, 4, 15)
    ELSE Field(SysReg.SYS_LED1, i, 2, 3)
SysLed0View == View(SysReg.SYS_LED0, 4..5)
SysRst1(i) == Pin(SysReg.RST_GROUP1, i)
SysOsfpEfuse == Noted(Flag([k \in 1..8 |-> SysReg.OSFP_EFUSE0 + k - 1]))

SysDeclared ==
       Board([version |-> SysVer, scratch |-> SysScratch, psu1_ok |-> SysPsuOk(0),
             psu2_ok |-> SysPsuOk(1), psu3_ok |-> SysPsuOk(2), psu4_ok |-> SysPsuOk(3),
             psu1_pres |-> SysPsuPres(4), psu2_pres |-> SysPsuPres(5),
             psu3_pres |-> SysPsuPres(6), psu4_pres |-> SysPsuPres(7),
             led_sys |-> SysLed0(0), led_psu |-> SysLed0View, led_loc |-> SysLed1(0),
             led_fan |-> SysLed1(4), mac_pcie_rst |-> SysRst1(3),
             osfp_efuse |-> SysOsfpEfuse])
SysProbe == SetRow(SysReg.OSFP_EFUSE0, 8, Byte)
Sys == [attrs |-> SysDeclared,
    probe |-> SysProbe]

-----------------------------------------------------------------------------
\* sys_fpga.c

FpgaReg == [VER_MAJOR |-> 1, VER_MINOR |-> 2, SCRATCH |-> 4, HITLESS |-> 10,
    RESET_REASON |-> 59]

FpgaVer == Words(<<FpgaReg.VER_MAJOR, FpgaReg.VER_MINOR>>)
FpgaScratch == Store(FpgaReg.SCRATCH)
FpgaResetCause == Kept
FpgaHitless == Store(FpgaReg.HITLESS)

FpgaDeclared ==
       Board([version |-> FpgaVer, scratch |-> FpgaScratch,
             reset_cause |-> FpgaResetCause, hitless |-> FpgaHitless])
FpgaProbe == SetRow(FpgaReg.RESET_REASON, 1, Byte)
Fpga == [attrs |-> FpgaDeclared,
    probe |-> FpgaProbe]

-----------------------------------------------------------------------------
\* embd_ctrl.c: ec_ver reads the registers of the year and the month, in this
\* order, and shows the second as the major version.

EcReg == [CPU_TEMP |-> 16, MEM0_TEMP |-> 18, MEM1_TEMP |-> 19, DATE_YEAR |-> 251,
    DATE_MONTH |-> 252, DATE_DAY |-> 253]

EcCpuTemperature == View(EcReg.CPU_TEMP, Bit)
EcMem0Temperature == View(EcReg.MEM0_TEMP, Bit)
EcMem1Temperature == View(EcReg.MEM1_TEMP, Bit)
EcDate == Words(<<EcReg.DATE_YEAR, EcReg.DATE_MONTH, EcReg.DATE_DAY>>)
EcVer == [Words(<<EcReg.DATE_YEAR, EcReg.DATE_MONTH>>) EXCEPT !.shown[1] = None]

EcDeclared ==
       Board([cpu_temperature |-> EcCpuTemperature, mem0_temperature |-> EcMem0Temperature,
             mem1_temperature |-> EcMem1Temperature, ec_date |-> EcDate, ec_ver |-> EcVer])
EcProbe == <<>>
Ec == [attrs |-> EcDeclared,
    probe |-> EcProbe]

=============================================================================
