----------------------------- MODULE CpldH6128 ------------------------------
(***************************************************************************)
(* The CPLDs of the IXR7220-H6-128 as the drivers under                    *)
(* ixr7220h6-128/modules present them: one record per driver, with the     *)
(* table of its sysfs attributes and the writes of its probe function,     *)
(* in order.  The registers and their fields come from the #define         *)
(* lines, the kind of an attribute from its show and store handlers, the   *)
(* pins of a port from the index of its SENSOR_DEVICE_ATTR.                *)
(* CpldAttributes says what the constructors mean, CpldDriver how the      *)
(* handlers run.                                                           *)
(***************************************************************************)
EXTENDS CpldAttributes

-----------------------------------------------------------------------------
\* port_cpld0.c

Port0Reg == [VER_MAJOR |-> 0, VER_MINOR |-> 1, SCRATCH |-> 4, PORT_LPMODE0 |-> 112,
    PORT_RST0 |-> 120, PORT_MODPRS0 |-> 136]

Port0Ver == Words(<<Port0Reg.VER_MAJOR, Port0Reg.VER_MINOR>>)
Port0Scratch == Store(Port0Reg.SCRATCH)
Port0PortLpmode(n) == PinRow(Port0Reg.PORT_LPMODE0, n)
Port0PortRst(n) == PinRow(Port0Reg.PORT_RST0, n)
Port0PortPrs(n) == PinViewRow(Port0Reg.PORT_MODPRS0, n)
Port0ModprsReg(n) == View(Port0Reg.PORT_MODPRS0 + n, Bit)
Port0PortEn(n) == Kept

Port0Declared ==
       Board([version |-> Port0Ver, scratch |-> Port0Scratch])
    @@ Each("lpmod", [p \in 1..32 |-> p - 1], Port0PortLpmode)
    @@ Each("rst", [p \in 1..32 |-> p - 1], Port0PortRst)
    @@ Each("prs", [p \in 1..32 |-> p - 1], Port0PortPrs)
    @@ Each("modprs_reg", [p \in 1..4 |-> p - 1], Port0ModprsReg)
    @@ Each("en", [p \in 1..32 |-> p - 1], Port0PortEn)
Port0Probe == SetRow(Port0Reg.PORT_LPMODE0, 4, None) \o
    SetRow(Port0Reg.PORT_RST0, 4, None) \o SetRow(Port0Reg.PORT_RST0, 4, Byte)
Port0 == [attrs |-> Port0Declared,
    probe |-> Port0Probe]

-----------------------------------------------------------------------------
\* port_cpld1.c

Port1Reg == [VER_MAJOR |-> 0, VER_MINOR |-> 1, SCRATCH |-> 4, SFP_TXFAULT |-> 16,
    SFP_TXDIS |-> 24, SFP_RXLOSS |-> 32, SFP_MODPRS |-> 40, PORT_LPMODE0 |-> 112,
    PORT_RST0 |-> 120, PORT_MODPRS0 |-> 136]

Port1Ver == Words(<<Port1Reg.VER_MAJOR, Port1Reg.VER_MINOR>>)
Port1Scratch == Store(Port1Reg.SCRATCH)
Port1SfpTxFault(i) == PinView(Port1Reg.SFP_TXFAULT, i)
Port1SfpTxEn(i) == Pin(Port1Reg.SFP_TXDIS, i)
Port1SfpRxLos(i) == PinView(Port1Reg.SFP_RXLOSS, i)
Port1SfpPrs(i) == PinView(Port1Reg.SFP_MODPRS, i)
Port1PortLpmode(n) == PinRow(Port1Reg.PORT_LPMODE0, n)
Port1PortRst(n) == PinRow(Port1Reg.PORT_RST0, n)
Port1PortPrs(n) == PinViewRow(Port1Reg.PORT_MODPRS0, n)
Port1ModprsReg(n) == View(Port1Reg.PORT_MODPRS0 + n, Bit)
Port1PortEn(n) == Kept

Port1Declared ==
       Board([version |-> Port1Ver, scratch |-> Port1Scratch])
    @@ Each("tx_fault", [p \in 33..34 |-> p - 33], Port1SfpTxFault)
    @@ Each("tx_en", [p \in 33..34 |-> p - 33], Port1SfpTxEn)
    @@ Each("rx_los", [p \in 33..34 |-> p - 33], Port1SfpRxLos)
    @@ Each("prs", [p \in 33..34 |-> p - 33], Port1SfpPrs)
    @@ Each("lpmod", [p \in 1..32 |-> p - 1], Port1PortLpmode)
    @@ Each("rst", [p \in 1..32 |-> p - 1], Port1PortRst)
    @@ Each("prs", [p \in 1..32 |-> p - 1], Port1PortPrs)
    @@ Each("modprs_reg", [p \in 1..4 |-> p - 1], Port1ModprsReg)
    @@ Each("en", [p \in 1..32 |-> p - 1], Port1PortEn)
Port1Probe == SetRow(Port1Reg.PORT_LPMODE0, 4, None) \o
    SetRow(Port1Reg.PORT_RST0, 4, None) \o SetRow(Port1Reg.PORT_RST0, 4, Byte)
Port1 == [attrs |-> Port1Declared,
    probe |-> Port1Probe]

-----------------------------------------------------------------------------
\* port_cpld2.c

Port2Reg == [VER_MAJOR |-> 0, VER_MINOR |-> 1, SCRATCH |-> 4, PORT_LPMODE0 |-> 112,
    PORT_RST0 |-> 120, PORT_MODPRS0 |-> 136, PORT_EFUSE0 |-> 114]

Port2Ver == Words(<<Port2Reg.VER_MAJOR, Port2Reg.VER_MINOR>>)
Port2Scratch == Store(Port2Reg.SCRATCH)
Port2PortLpmode(n) == PinRow(Port2Reg.PORT_LPMODE0, n)
Port2PortRst(n) == PinRow(Port2Reg.PORT_RST0, n)
Port2PortPrs(n) == PinViewRow(Port2Reg.PORT_MODPRS0, n)
Port2ModprsReg(n) == View(Port2Reg.PORT_MODPRS0 + n, Bit)
Port2PortEn(n) == Kept
Port2PortEfuse == Flag([k \in 1..2 |-> Port2Reg.PORT_EFUSE0 + k - 1])

Port2Declared ==
       Board([version |-> Port2Ver, scratch |-> Port2Scratch])
    @@ Each("lpmod", [p \in 1..16 |-> p - 1], Port2PortLpmode)
    @@ Each("rst", [p \in 1..16 |-> p - 1], Port2PortRst)
    @@ Each("prs", [p \in 1..16 |-> p - 1], Port2PortPrs)
    @@ Each("modprs_reg", [p \in 1..2 |-> p - 1], Port2ModprsReg)
    @@ Each("en", [p \in 1..16 |-> p - 1], Port2PortEn)
    @@ Board([port_efuse |-> Port2PortEfuse])
Port2Probe == SetRow(Port2Reg.PORT_EFUSE0, 2, Byte) \o
    SetRow(Port2Reg.PORT_LPMODE0, 2, None) \o SetRow(Port2Reg.PORT_RST0, 2, None) \o
    SetRow(Port2Reg.PORT_RST0, 2, Byte)
Port2 == [attrs |-> Port2Declared,
    probe |-> Port2Probe]

-----------------------------------------------------------------------------
\* sys_cpld.c

SysReg == [VER_MAJOR |-> 0, VER_MINOR |-> 1, SCRATCH |-> 4, SYS_LED3 |-> 9,
    SYS_LED2 |-> 8, OSFP_EFUSE0 |-> 16]

SysVer == Words(<<SysReg.VER_MAJOR, SysReg.VER_MINOR>>)
SysScratch == Store(SysReg.SCRATCH)
SysLed3 == View(SysReg.SYS_LED3, 0..3)
SysLed2(i) == Field(SysReg.SYS_LED2, i, 2, 3)
SysOsfpEfuse == Noted(Flag([k \in 1..8 |-> SysReg.OSFP_EFUSE0 + k - 1]))

SysDeclared ==
       Board([version |-> SysVer, scratch |-> SysScratch, led_psu |-> SysLed3,
             led_fan |-> SysLed2(4), osfp_efuse |-> SysOsfpEfuse])
SysProbe == SetRow(SysReg.OSFP_EFUSE0, 8, Byte)
Sys == [attrs |-> SysDeclared,
    probe |-> SysProbe]

-----------------------------------------------------------------------------
\* sys_fpga.c

FpgaReg == [HW_BOARD_VER |-> 0, VER_MAJOR |-> 1, VER_MINOR |-> 2, PSU_PRESENT |-> 7,
    SSD_PRESENT |-> 8, PSU_POWERGOOD |-> 81]

FpgaHwBoardVer == View(FpgaReg.HW_BOARD_VER, Bit)
FpgaVer == Words(<<FpgaReg.VER_MAJOR, FpgaReg.VER_MINOR>>)
FpgaPsuPresent(i) == PinView(FpgaReg.PSU_PRESENT, i)
FpgaPsuOk(i) == PinView(FpgaReg.PSU_POWERGOOD, i)
FpgaSsdPresent(i) == PinView(FpgaReg.SSD_PRESENT, i)

FpgaDeclared ==
       Board([hw_board_version |-> FpgaHwBoardVer, version |-> FpgaVer])
    @@ Each("psu_ok", [p \in 1..4 |-> p - 1], FpgaPsuOk)
    @@ Each("psu_pres", [p \in 1..4 |-> 4 - p], FpgaPsuPresent)
    @@ Each("ssd_pres", [p \in 1..2 |-> 2 - p], FpgaSsdPresent)
FpgaProbe == <<>>
Fpga == [attrs |-> FpgaDeclared,
    probe |-> FpgaProbe]

-----------------------------------------------------------------------------
\* embd_ctrl.c

EcReg == [CPU_TEMP |-> 16, MEM0_TEMP |-> 18, MEM1_TEMP |-> 19]

EcCpuTemperature == View(EcReg.CPU_TEMP, Bit)
EcMem0Temperature == View(EcReg.MEM0_TEMP, Bit)
EcMem1Temperature == View(EcReg.MEM1_TEMP, Bit)

EcDeclared ==
       Board([cpu_temperature |-> EcCpuTemperature, mem0_temperature |-> EcMem0Temperature,
             mem1_temperature |-> EcMem1Temperature])
EcProbe == <<>>
Ec == [attrs |-> EcDeclared,
    probe |-> EcProbe]

=============================================================================
