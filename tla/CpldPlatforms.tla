----------------------------- MODULE CpldPlatforms -----------------------------
(***************************************************************************)
(* How the Python side of each platform uses the CPLD drivers: the driver  *)
(* and the attributes that an Sfp object picks for its port, the state in  *)
(* which its reset() leaves the pins, and the bit of a word of presences    *)
(* that the event monitor takes for the port.                              *)
(*                                                                         *)
(* Sources: ixr7220*/sonic_platform/sfp.py and sfp_event.py.  Ports of the *)
(* D4 have no word of their own, and its drivers set no pin when loaded.   *)
(* The presence of the SFP cages of the H4-64D is a cached one (module     *)
(* FpgaEeprom).                                                            *)
(***************************************************************************)
EXTENDS CpldAttributes

D4    == INSTANCE CpldD4
H3    == INSTANCE CpldH3
H432d == INSTANCE CpldH432d
H464d == INSTANCE CpldH464d
H532d == INSTANCE CpldH532d
H564d == INSTANCE CpldH564d
H564o == INSTANCE CpldH564o
H6128 == INSTANCE CpldH6128
H664  == INSTANCE CpldH664

\* A port: its driver, the attribute that tells its presence, and for each class
\* of pins the value that reset() ends with.
Port(cpld, prs, pins) == [cpld |-> cpld, prs |-> prs, pins |-> pins]
NoPins == [c \in {} |-> TRUE]

\* A word that the monitor reads: the attribute, and which of its registers.
\* Bit q of words read one after the other; the text of a word has its highest
\* bit first.
Modprs(cpld, n) == [cpld |-> cpld, key |-> <<"modprs_reg", n>>, k |-> 1]
HighFirstReversed(words, q) == [word |-> words[q \div 8 + 1], bit |-> q % 8]
HighFirst(words, q) == [word |-> words[q \div 8 + 1], bit |-> 7 - (q % 8)]
LowFirst(words, q)  == [word |-> words[q \div 8 + 1], bit |-> q % 8]

\* --- IXR7220-H3 ---------------------------------------------------------------

H3Sfp(p) ==
    LET cpld == IF p <= 16 THEN H3!Swpld2 ELSE H3!Swpld3 IN
    CASE p <= 32 -> Port(cpld, <<"prs", p>>, [rstn |-> TRUE, lpmod |-> TRUE])
      [] p = 33  -> Port(cpld, <<"sfp0_prs", 0>>, NoPins)
      [] p = 34  -> Port(cpld, <<"sfp_prs", 1>>, NoPins)
H3Word(p) == HighFirst(<<Modprs(H3!Swpld2, 1), Modprs(H3!Swpld2, 2),
                         Modprs(H3!Swpld3, 1), Modprs(H3!Swpld3, 2)>>, p - 1)

\* --- IXR7220-H4-32D -----------------------------------------------------------

H432dSfp(p) ==
    LET cpld == IF p <= 16 THEN H432d!Swpld2 ELSE H432d!Swpld3 IN
    CASE p <= 32 -> Port(cpld, <<"prs", p>>, [rstn |-> TRUE, lpmod |-> TRUE])
      [] p = 33  -> Port(cpld, <<"sfp0_prs", 0>>, NoPins)
H432dWord(p) == HighFirst(<<Modprs(H432d!Swpld2, 1), Modprs(H432d!Swpld2, 2),
                            Modprs(H432d!Swpld3, 1), Modprs(H432d!Swpld3, 2)>>, p - 1)

\* --- IXR7220-H4-64D: the ports are behind the FPGA, whose driver sets no pin ------

H464dSfp(p) == Port(H464d!Fpga, <<"module_present", p>>, NoPins)
H464dWord(p) ==
    [word |-> [cpld |-> H464d!Fpga, key |-> <<"module_present_all", 0>>,
               k |-> (p - 1) \div 32 + 1],
     bit |-> (p - 1) % 32]

\* --- IXR7220-H5-32D, H5-64D and H5-64O: reset pins are active high ---------------

H532dSfp(p) ==
    Port(IF p \in 17..32 THEN H532d!Swpld3 ELSE H532d!Swpld2, <<"prs", p>>,
         IF p <= 32 THEN [rst |-> FALSE, lpmod |-> TRUE] ELSE NoPins)
H532dWord(p) == LowFirst(<<Modprs(H532d!Swpld2, 1), Modprs(H532d!Swpld2, 2),
                           Modprs(H532d!Swpld3, 1), Modprs(H532d!Swpld3, 2)>>, p - 1)

\* The order in which the monitors of the 64-port systems read two drivers.
Words64(a, b) == <<Modprs(a, 1), Modprs(a, 2), Modprs(b, 1), Modprs(b, 2),
                   Modprs(a, 3), Modprs(a, 4), Modprs(b, 3), Modprs(b, 4)>>
Second(p) == p \in 17..32 \/ p \in 49..64

H564dSfp(p) ==
    Port(IF Second(p) THEN H564d!Swpld3 ELSE H564d!Swpld2, <<"prs", p>>,
         IF p <= 64 THEN [rst |-> FALSE, lpmod |-> TRUE] ELSE NoPins)
H564dWord(p) == LowFirst(Words64(H564d!Swpld2, H564d!Swpld3), p - 1)

H564oSfp(p) ==
    Port(IF Second(p) THEN H564o!Swpld3 ELSE H564o!Swpld2, <<"prs", p>>,
         IF p <= 64 THEN [rst |-> FALSE, lpmod |-> FALSE] ELSE NoPins)
H564oWord(p) == LowFirst(Words64(H564o!Swpld2, H564o!Swpld3), p - 1)

\* --- IXR7220-H6-64 --------------------------------------------------------------

H664Sfp(p) ==
    Port(IF Second(p) THEN H664!Port1 ELSE H664!Port0, <<"prs", p>>,
         IF p <= 64 THEN [rst |-> TRUE, lpmod |-> FALSE] ELSE NoPins)
H664Word(p) == LowFirst(Words64(H664!Port0, H664!Port1), p - 1)

\* --- IXR7220-H6-128: six chips, and ports that alternate in pairs ----------------

At(address, cpld) == [attrs |-> cpld.attrs, probe |-> cpld.probe, at |-> address]
PORTPLD_ADDR ==
    <<At("152-0076", H6128!Port2), At("153-0076", H6128!Port2),
      At("148-0074", H6128!Port0), At("149-0075", H6128!Port1),
      At("150-0073", H6128!Port2), At("151-0073", H6128!Port2)>>
ADDR_IDX(p) ==
    CASE p <= 32  -> (p - 1) \div 16
      [] p <= 64  -> 2 + (p - 33) \div 16
      [] p <= 96  -> 2 + (p - 65) \div 16
      [] p <= 128 -> 4 + (p - 97) \div 16
      [] OTHER    -> 3
PORT_IDX(p) ==
    LET q == (p - 1) % 16 IN
    CASE p \in 33..64 -> 4 * (q \div 2) + (q % 2) + 1
      [] p \in 65..96 -> 4 * (q \div 2) + (q % 2) + 3
      [] p > 128      -> p - 96
      [] OTHER        -> q + 1
H6128Sfp(p) ==
    Port(PORTPLD_ADDR[ADDR_IDX(p) + 1], <<"prs", PORT_IDX(p)>>,
         IF p <= 128 THEN [rst |-> TRUE, lpmod |-> FALSE] ELSE NoPins)

\* Ports 33 to 96 are the bits of eight words in the order of _reorder: first
\* those that _BOOL_TABLE_A takes from every word, then those of _BOOL_TABLE_B.
BOOL_TABLE_A == <<0, 1, 4, 5>>
BOOL_TABLE_B == <<2, 3, 6, 7>>
Reordered(words, q) ==
    [word |-> words[(q % 32) \div 4 + 1],
     bit  |-> (IF q < 32 THEN BOOL_TABLE_A ELSE BOOL_TABLE_B)[(q % 4) + 1]]
H6128Word(p) ==
    LET Read(chips, regs) == [i \in 1..8 |->
            Modprs(PORTPLD_ADDR[chips[(i - 1) \div regs + 1]], ((i - 1) % regs) + 1)]
    IN  CASE p <= 32       -> LowFirst(Read(<<1, 2, 5, 6>>, 2), p - 1)
          [] p \in 33..96  -> Reordered(Read(<<3, 4>>, 4), p - 33)
          [] p \in 97..128 -> LowFirst(Read(<<1, 2, 5, 6>>, 2), p - 65)

\* --- every path that these files build is an attribute of the driver --------------

Platforms == {"h3", "h4_32d", "h4_64d", "h5_32d", "h5_64d", "h5_64o", "h6_64", "h6_128"}
SfpOf(pl, p) ==
    CASE pl = "h3"     -> H3Sfp(p)     [] pl = "h4_32d" -> H432dSfp(p)
      [] pl = "h4_64d" -> H464dSfp(p)  [] pl = "h5_32d" -> H532dSfp(p)
      [] pl = "h5_64d" -> H564dSfp(p)  [] pl = "h5_64o" -> H564oSfp(p)
      [] pl = "h6_64"  -> H664Sfp(p)   [] pl = "h6_128" -> H6128Sfp(p)
WordOf(pl, p) ==
    CASE pl = "h3"     -> H3Word(p)     [] pl = "h4_32d" -> H432dWord(p)
      [] pl = "h4_64d" -> H464dWord(p)  [] pl = "h5_32d" -> H532dWord(p)
      [] pl = "h5_64d" -> H564dWord(p)  [] pl = "h5_64o" -> H564oWord(p)
      [] pl = "h6_64"  -> H664Word(p)   [] pl = "h6_128" -> H6128Word(p)
Modules(pl) == 1..(CASE pl \in {"h3", "h4_32d", "h5_32d"} -> 32
                     [] pl = "h6_128" -> 128
                     [] OTHER -> 64)
Cages(pl) == CASE pl = "h3" -> 33..34 [] pl = "h4_32d" -> {33} [] pl = "h4_64d" -> {}
               [] pl = "h5_32d" -> 33..34 [] pl = "h6_128" -> 129..130
               [] OTHER -> 65..66
Ports(pl) == Modules(pl) \cup Cages(pl)

ASSUME PathsAssumption == \A pl \in Platforms :
    /\ \A p \in Ports(pl) :
          LET sfp == SfpOf(pl, p) IN
          /\ sfp.prs \in DOMAIN sfp.cpld.attrs
          /\ \A c \in DOMAIN sfp.pins : <<c, sfp.prs[2]>> \in DOMAIN sfp.cpld.attrs
    /\ \A p \in Modules(pl) :
          LET w == WordOf(pl, p) IN
          /\ w.word.cpld = SfpOf(pl, p).cpld
          /\ w.word.key \in DOMAIN w.word.cpld.attrs
=============================================================================
