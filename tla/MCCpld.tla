-------------------------------- MODULE MCCpld --------------------------------
(***************************************************************************)
(* Scenes for CpldDriver: every settable attribute of every driver alone,  *)
(* one attribute of every register against a neighbour in that register,   *)
(* and the two readings of the presence of every port.                     *)
(***************************************************************************)
EXTENDS CpldPlatforms, CpldDriver

MCUsers     == {"a", "b"}
MCBlank     == {None, Byte, Bit}
MCErrors    == {BitsOf(256 - 6)}     \* -ENXIO, cut to a byte
MCCalls     == 1
MCMaxFaults == 1

Cplds ==
    [d4_cpld1 |-> D4!Cpld1, d4_cpld2 |-> D4!Cpld2, d4_cpld3 |-> D4!Cpld3,
     d4_cpupld |-> D4!Cpupld, d4_fan |-> D4!Fan,
     h3_cpupld |-> H3!Cpupld, h3_swpld1 |-> H3!Swpld1,
     h3_swpld2 |-> H3!Swpld2, h3_swpld3 |-> H3!Swpld3,
     h4_32d_cpupld |-> H432d!Cpupld,
     h4_32d_swpld2 |-> H432d!Swpld2, h4_32d_swpld3 |-> H432d!Swpld3,
     h4_64d_fan |-> H464d!Fan, h4_64d_pdbl |-> H464d!Pdbl, h4_64d_pdbr |-> H464d!Pdbr,
     h4_64d_scm |-> H464d!Scm, h4_64d_smb |-> H464d!Smb,
     h4_64d_fpga |-> H464d!Fpga,
     h5_32d_cpupld |-> H532d!Cpupld,
     h5_32d_swpld2 |-> H532d!Swpld2, h5_32d_swpld3 |-> H532d!Swpld3,
     h5_64d_cpupld |-> H564d!Cpupld,
     h5_64d_swpld2 |-> H564d!Swpld2, h5_64d_swpld3 |-> H564d!Swpld3,
     h5_64o_cpupld |-> H564o!Cpupld,
     h5_64o_swpld2 |-> H564o!Swpld2, h5_64o_swpld3 |-> H564o!Swpld3,
     h6_128_port0 |-> H6128!Port0, h6_128_port1 |-> H6128!Port1,
     h6_128_port2 |-> H6128!Port2, h6_128_sys |-> H6128!Sys,
     h6_128_fpga |-> H6128!Fpga, h6_128_ec |-> H6128!Ec,
     h6_64_port0 |-> H664!Port0, h6_64_port1 |-> H664!Port1, h6_64_sys |-> H664!Sys,
     h6_64_fpga |-> H664!Fpga, h6_64_ec |-> H664!Ec]

\* Attributes whose store and show disagree about their bits, so that a setting
\* need not be what they show: "brknum" clears three of the four bits it sets,
\* and "sync_clk_sel" shows the whole register.
Inexact == {"brknum", "sync_clk_sel0", "sync_clk_sel1"}

Storable(d) == {k \in DOMAIN d.attrs :
                  Settable(d.attrs[k]) /\ d.attrs[k].how # "memory" /\ k[1] \notin Inexact}
Neighbours(d, k) == {n \in Storable(d) \ {k} :
                       RegsOf(d.attrs[n]) \cap RegsOf(d.attrs[k]) # {}}
Rival(d, k) == IF Neighbours(d, k) = {} THEN k ELSE CHOOSE n \in Neighbours(d, k) : TRUE

\* The pins of a platform's ports with their values after reset(), in driver d.
PinCells(d) ==
    UNION {UNION {{LET attr == d.attrs[<<c, sfp.prs[2]>>]
                   IN  [reg |-> attr.regs[1], bit |-> attr.lo, on |-> sfp.pins[c]]
                     : c \in DOMAIN sfp.pins}
                  : sfp \in {sfp \in {SfpOf(pl, p) : p \in Modules(pl)} :
                               sfp.cpld.attrs = d.attrs}}
           : pl \in Platforms}

\* Registers in memory: the driver's table says so.
Mapped(d) == "mmio" \in DOMAIN d

Scene(d, pins, k, n, values) ==
    LET regs == RegsOf(d.attrs[k]) \cup RegsOf(d.attrs[n])
    IN  [attrs  |-> [a |-> d.attrs[k], b |-> d.attrs[n]],
         values |-> values,
         probe  |-> SelectSeq(d.probe, LAMBDA w : w.reg \in regs),
         rest   |-> {c \in pins : c.reg \in regs},
         agree  |-> {},
         mmio   |-> Mapped(d)]

Edges(a) == {0, a.max, a.max + 1}
Alone(d, pins) ==
    {Scene(d, pins, k, k, [a |-> Edges(d.attrs[k]), b |-> {}]) : k \in Storable(d)}

\* One attribute for every set of registers, against another one there.
Leaders(d) == {CHOOSE k \in Storable(d) : RegsOf(d.attrs[k]) = regs
                 : regs \in {RegsOf(d.attrs[k]) : k \in Storable(d)}}
Contended(d, pins) ==
    {Scene(d, pins, k[1], k[2],
           [a |-> {0, d.attrs[k[1]].max}, b |-> {d.attrs[k[2]].max}])
       : k \in {<<k, Rival(d, k)>> : k \in Leaders(d)}}

\* get_presence() of a port against the monitor's word.
Agreeing(one, all, k, bit, mmio) ==
    [attrs  |-> [a |-> one, b |-> all],
     values |-> [a |-> {}, b |-> {}],
     probe  |-> <<>>, rest |-> {},
     agree  |-> {<<<<one.regs[1], CHOOSE b \in one.shown[1] : TRUE>>,
                   <<all.regs[k], bit>>>>},
     mmio   |-> mmio]
Presence ==
    UNION {{Agreeing(r[1].cpld.attrs[r[1].prs],
                     r[2].word.cpld.attrs[r[2].word.key], r[2].word.k, r[2].bit,
                     Mapped(r[1].cpld))
              : r \in {<<SfpOf(pl, p), WordOf(pl, p)>> : p \in Modules(pl)}} : pl \in Platforms}

MCScenes ==
    UNION {UNION {Alone(d, pins) \cup Contended(d, pins) : pins \in {PinCells(d)}}
             : d \in {Cplds[name] : name \in DOMAIN Cplds}} \cup Presence
=============================================================================
