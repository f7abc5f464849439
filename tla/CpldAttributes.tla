---------------------------- MODULE CpldAttributes ----------------------------
(***************************************************************************)
(* What the sysfs attributes of a CPLD driver have in common.  Every       *)
(* driver under ixr7220*/modules declares one show and one store handler   *)
(* per register and binds them, with an index, to attribute names.  The    *)
(* modules Cpld<platform> give each driver as a table from attribute keys  *)
(* to the records built here; CpldDriver runs the handlers they describe.  *)
(*                                                                         *)
(* A register is its number, its content the set of the bits that are 1:   *)
(* of eight in a CPLD, of 32 in the FPGA.  Bit stands for a register as a  *)
(* whole, Byte for the value 0xff.                                         *)
(* An attribute is a record:                                               *)
(*   how     what the store handler does: "rmw" reads the register, clears *)
(*           its own bits, writes the sum back; "store" writes without     *)
(*           reading; "fill" sets all its bits to the value written, and   *)
(*           so does "flag", whose show prints a flag of the driver's      *)
(*           data; "memory" keeps the value in that data; "view" has no    *)
(*           store handler, or is declared without write permission        *)
(*   regs    the registers it accesses, in the order it writes them        *)
(*   shown   for each of them, the bits that show returns                  *)
(*   clears  for each of them, the bits that a store replaces              *)
(*   lo      the position that bit 0 of the value goes to                  *)
(*   max     the largest value the store handler accepts                   *)
(*   invert  whether a bit is the negation of the value stored and shown   *)
(*   named   whether values are words, and any other word is accepted and  *)
(*           dropped instead of being refused                              *)
(*   noted   whether probe sets the flag when its writes are done          *)
(***************************************************************************)
EXTENDS Integers, Sequences, TLC

Bit  == 0..31
Byte == 0..7
None == {}

\* The bits of a user's number; two bytes are the most that a handler parses.
BitsOf(v) == {j \in 0..15 : (v \div 2^j) % 2 = 1}

Attr(how, regs, shown, clears, lo, max) ==
    [how |-> how, regs |-> regs, shown |-> shown, clears |-> clears,
     lo |-> lo, max |-> max, invert |-> FALSE, named |-> FALSE, noted |-> FALSE]

Same(regs, bits) == [k \in DOMAIN regs |-> bits]

\* Read-only attributes: some bits of a register, one bit, whole registers,
\* and a value that probe keeps (or computes) and no register holds.
View(r, bits)  == Attr("view", <<r>>, <<bits>>, <<None>>, 0, -1)
PinView(r, i)  == View(r, {i})
Words(regs)    == Attr("view", regs, Same(regs, Bit), Same(regs, None), 0, -1)
Kept           == Attr("view", <<>>, <<>>, <<>>, 0, -1)

\* Read, replace the bits from lo on, write back: the usual store handler.
Field(r, lo, width, max) ==
    LET own == lo .. lo + width - 1
    IN  Attr("rmw", <<r>>, <<own>>, <<own>>, lo, max)
Pin(r, i) == Field(r, i, 1, 1)

\* Bytes written as they are: the low byte of a 16-bit value goes first.
Store(r)     == Attr("store", <<r>>, <<Bit>>, <<Bit>>, 0, 255)
StoreWord(r) == Attr("store", <<r, r + 1>>, <<Bit, Bit>>, <<Bit, Bit>>, 0, 65535)

\* Several registers set to all ones or all zeros; of register k only the bits
\* own, in the second case; with a flag that is all that show looks at.
Fill(regs) == Attr("fill", regs, Same(regs, Bit), Same(regs, Bit), 0, 1)
Bulk(regs, k, own) == [Fill(regs) EXCEPT !.clears[k] = own]
Flag(regs) == [Fill(regs) EXCEPT !.how = "flag", !.shown = Same(regs, None)]

Inverted(attr) == [attr EXCEPT !.invert = TRUE]
Named(attr)    == [attr EXCEPT !.named = TRUE]
Noted(attr)    == [attr EXCEPT !.noted = TRUE]

\* A value of the driver's own data: no register is accessed.
Memory == Attr("memory", <<>>, <<>>, <<>>, 0, 255)

\* Position n of a row of pins that continues over consecutive registers, given
\* by the registers or by the number of the first one.
PinAt(regs, n)     == Pin(regs[n \div 8 + 1], n % 8)
PinViewAt(regs, n) == PinView(regs[n \div 8 + 1], n % 8)
PinRow(first, n)     == Pin(first + n \div 8, n % 8)
PinViewRow(first, n) == PinView(first + n \div 8, n % 8)

\* Tables.  A key is the class of an attribute and the number in its name; the
\* attributes of the board have number 0.  place maps port numbers to the
\* positions that the declarations bind them to.
Board(attrs) == [a \in (DOMAIN attrs) \X {0} |-> attrs[a[1]]]
Each(class, place, H(_)) == [a \in {class} \X (DOMAIN place) |-> H(place[a[2]])]

\* The writes of probe, in order: the register, the bits set, and the bits that
\* keep the value they had when probe read the register.
SetButLast(regs, byte) ==
    [k \in 1..Len(regs) - 1 |-> [reg |-> regs[k], byte |-> byte, keeps |-> None]]
Set(regs, byte) ==
    [k \in DOMAIN regs |-> [reg |-> regs[k], byte |-> byte, keeps |-> None]]
SetRow(first, n, byte) == Set([k \in 1..n |-> first + k - 1], byte)
Pulse(reg, i) ==
    <<[reg |-> reg, byte |-> {i},  keeps |-> Bit \ {i}],
      [reg |-> reg, byte |-> None, keeps |-> Bit \ {i}]>>
\* iowrite8: the other bytes of the register stay as they are.
SetByte(reg, n, byte) ==
    LET At(bits) == {8 * n + b : b \in bits}
    IN  <<[reg |-> reg, byte |-> At(byte), keeps |-> Bit \ At(Byte)]>>
=============================================================================
