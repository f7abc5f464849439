------------------------------ MODULE CpldDriver ------------------------------
(***************************************************************************)
(* A CPLD driver while its attributes are used: the store handlers of two  *)
(* writers, the probe function and the hardware's own inputs, over the     *)
(* registers they share.  The driver's lock covers one register access,    *)
(* not the read, the change and the write back of a store handler, and the *)
(* attributes exist before probe has written its first register.           *)
(*                                                                         *)
(* All CPLD drivers under ixr7220*/modules have this code, and so have the *)
(* embedded controllers and, with 32-bit registers in memory, the FPGA;    *)
(* the lines named for the definitions are those of                        *)
(* ixr7220h4-32d/modules/h4_32d_swpld2.c, from which the others differ in  *)
(* their tables (modules Cpld<platform>).                                  *)
(* A scene picks a driver, one attribute for each writer and the numbers   *)
(* each may write; only the registers of these attributes are kept.        *)
(***************************************************************************)
EXTENDS CpldAttributes, FiniteSets

CONSTANTS
    Scenes,     \* records, see SceneAssumption
    Users,      \* the processes that write attributes
    Blank,      \* what registers hold when the driver is loaded
    Errors,     \* the bytes that a negative error code is cut down to
    Calls,      \* bound on the writes of each user
    MaxFaults   \* bound on the register accesses that fail

Probe   == "probe"
Writers == Users \cup {Probe}
Nothing == -1

\* --- what the handlers of an attribute do ---------------------------------

RegsOf(a) == {a.regs[k] : k \in DOMAIN a.regs}
Attrs(s)  == {s.attrs[u] : u \in Users}
Regs(s)   == UNION {RegsOf(a) : a \in Attrs(s)}

\* The positions of the registers that a store handler reads before it writes:
\* its own one, or the one of several that it may change only in part.
ReadAt(a) == IF a.how = "rmw" THEN {1}
             ELSE {k \in DOMAIN a.regs : a.clears[k] # Bit}
Reads(a)  == ReadAt(a) # {}

\* The bits that value v sets in register k.
Stored(a, v, k) ==
    CASE a.how = "rmw"   -> {b + a.lo : b \in BitsOf(IF a.invert THEN 1 - v ELSE v)}
      [] a.how = "store" -> {b \in Byte : b + 8 * (k - 1) \in BitsOf(v)}
      [] OTHER           -> IF v = 1 THEN a.clears[k] \cap Byte ELSE None

\* The bits that tell the value of an attribute: those that show prints, and
\* where it prints whole registers or a flag, those that a store sets.
Telling(a, k) == IF a.how \in {"fill", "flag"} THEN a.clears[k] ELSE a.shown[k]
TellingIn(a, r) == UNION {Telling(a, k) : k \in {k \in DOMAIN a.regs : a.regs[k] = r}}

\* The bits of register r that a store to some attribute replaces.
OwnedIn(s, r) ==
    UNION {UNION {a.clears[k] : k \in {k \in DOMAIN a.regs : a.regs[k] = r}}
             : a \in Attrs(s)}

\* The handlers are only as good as their tables: registers are named once, a
\* store replaces exactly the bits that tell its value and the values fit in them;
\* a flag is 0 or 1.
Settable(a) == a.how # "view"
ExactAttr(a, values) ==
    /\ a.regs \in Seq(Nat) /\ a.regs # <<>> /\ a.max \in Int
    /\ a.shown \in [DOMAIN a.regs -> SUBSET Bit]
    /\ a.clears \in [DOMAIN a.regs -> SUBSET Bit]
    /\ \A j, k \in DOMAIN a.regs : a.regs[j] = a.regs[k] => j = k
    /\ Settable(a) => \A j, k \in ReadAt(a) : j = k
    /\ a.how = "rmw" => Len(a.regs) = 1
    /\ a.named => a.how = "rmw"
    /\ a.how = "flag" => a.max = 1
    /\ Settable(a) => \A k \in DOMAIN a.regs :
          /\ Telling(a, k) = a.clears[k]
          /\ \A v \in values : v <= a.max => Stored(a, v, k) \subseteq a.clears[k]

\* The probe function of a CPLD that keeps bits reads one register, before its
\* first write.
SetsNoKept(writes) == \A i \in DOMAIN writes : writes[i].byte \cap writes[i].keeps = None
OneReadFirst(writes) == \A i \in DOMAIN writes :
    writes[i].keeps # None =>
          \A j \in 1..i : /\ writes[j].reg = writes[i].reg
                          /\ writes[j].keeps = writes[i].keeps

ASSUME SceneAssumption == \A s \in Scenes :
    /\ s.attrs \in [Users -> Attrs(s)]
    /\ s.values \in [Users -> SUBSET Nat]
    /\ \A u \in Users : /\ ExactAttr(s.attrs[u], s.values[u])
                        /\ ~ Settable(s.attrs[u]) => s.values[u] = {}
    /\ s.probe \in Seq([reg : Regs(s), byte : SUBSET Bit, keeps : SUBSET Bit])
    /\ SetsNoKept(s.probe)
    /\ s.mmio \in BOOLEAN /\ (~ s.mmio => OneReadFirst(s.probe))
    /\ s.rest \subseteq [reg : Regs(s), bit : Bit, on : BOOLEAN]
    /\ s.agree \subseteq (Regs(s) \X Bit) \X (Regs(s) \X Bit)
    /\ s.agree # {} => s.probe = <<>> /\ \A u \in Users : s.values[u] = {}

ASSUME BoundsAssumption ==
    /\ Probe \notin Users /\ Blank \subseteq SUBSET Bit /\ Errors \subseteq SUBSET Bit
    /\ Calls \in Nat /\ MaxFaults \in Nat

VARIABLES
    scene,      \* the driver and the attributes in use
    chip,       \* the content of each register
    flag,       \* the driver's record of a "flag" attribute
    probed,     \* writes that probe has done
    pc, val,    \* per writer: what its handler does next; the user's value
    at,         \* per user: the position of the register to write next
    got,        \* per writer: what it read
    calls, faults,
    stale,      \* per writer: who wrote the register since it was read
    garbled,    \* per writer: whether the read failed
    clean,      \* per user: whether nobody interfered with its store so far
    held,       \* per user: the setting that its attribute must still show
    base,       \* what the bits that no user owns must be
    spoilt      \* registers of which base says nothing

hw     == <<scene, chip, flag, probed>>
ghosts == <<stale, garbled, clean, held, base, spoilt>>
vars   == <<hw, pc, val, at, got, calls, faults, ghosts>>

Mine(u) == scene.attrs[u]
Flagged(u) == Mine(u).how = "flag"
Probing == probed < Len(scene.probe)
Pending == scene.probe[probed + 1]
\* The FPGA is mapped into memory: a single byte can be written without a read.
ProbeReads == ~ scene.mmio /\ Probing /\ Pending.keeps # None

ReadPos(u) == CHOOSE k \in ReadAt(Mine(u)) : TRUE
ReadReg(w) == IF w = Probe THEN Pending.reg ELSE Mine(w).regs[ReadPos(w)]
HasRead(w) ==
    /\ pc[w] = "write"
    /\ IF w = Probe THEN ProbeReads ELSE Reads(Mine(w))
Misread(w) == HasRead(w) /\ (garbled[w] \/ stale[w] # {})

Init ==
    /\ scene \in Scenes
    /\ \E b \in Blank : /\ scene.mmio \/ b \subseteq Byte
                       /\ chip = [r \in Regs(scene) |-> b]
    /\ base = chip /\ spoilt = {}
    /\ flag = 0 /\ probed = 0
    /\ pc = [w \in Writers |-> IF w # Probe THEN "idle"
                               ELSE IF ProbeReads THEN "read" ELSE "write"]
    /\ val = [u \in Users |-> 0] /\ at = [u \in Users |-> 1]
    /\ got = [w \in Writers |-> None]
    /\ calls = [u \in Users |-> Calls] /\ faults = IF scene.mmio THEN 0 ELSE MaxFaults
    /\ stale = [w \in Writers |-> {}] /\ garbled = [w \in Writers |-> FALSE]
    /\ clean = [u \in Users |-> FALSE] /\ held = [u \in Users |-> Nothing]

\* --- register accesses -----------------------------------------------------

\* cpld_i2c_read: an error code is printed, returned, and cut to a byte by the
\* caller.
CanFail == faults > 0
ReadReturns(w, r, byte, failed) ==
    /\ \/ ~ failed /\ byte = chip[r] /\ faults' = faults
       \/ failed /\ CanFail /\ byte \in Errors /\ faults' = faults - 1
    /\ got' = [got EXCEPT ![w] = byte]
    /\ stale' = [stale EXCEPT ![w] = {}]
    /\ garbled' = [garbled EXCEPT ![w] = failed]

\* cpld_i2c_write: writer w means to change bits own of register r.  A failed
\* write is printed and otherwise ignored.
Hit(w, u, r, own, bad) ==
    /\ u # w /\ r \in RegsOf(Mine(u))
    /\ bad \/ own \cap TellingIn(Mine(u), r) # {}
Written(w, r, byte, failed) ==
    IF failed
    THEN CanFail /\ faults' = faults - 1 /\ UNCHANGED <<chip, stale>>
    ELSE /\ chip' = [chip EXCEPT ![r] = byte]
         /\ stale' = [x \in Writers |->
                         IF x # w /\ HasRead(x) /\ ReadReg(x) = r
                         THEN stale[x] \cup {IF w = Probe THEN "probe" ELSE "user"}
                         ELSE stale[x]]
         /\ UNCHANGED faults

\* --- the store handlers ----------------------------------------------------

\* kstrtou8 and the check against the mask; words are looked up later.
Refuse(u) ==
    /\ pc[u] = "idle" /\ calls[u] > 0 /\ ~ Mine(u).named
    /\ \E v \in scene.values[u] : v > Mine(u).max
    /\ calls' = [calls EXCEPT ![u] = @ - 1]
    /\ UNCHANGED <<hw, pc, val, at, got, faults, ghosts>>

Accept(u) ==
    /\ pc[u] = "idle" /\ calls[u] > 0
    /\ \E v \in scene.values[u] :
          /\ v <= Mine(u).max \/ Mine(u).named
          /\ val' = [val EXCEPT ![u] = v]
    /\ calls' = [calls EXCEPT ![u] = @ - 1]
    /\ at' = [at EXCEPT ![u] = 1]
    /\ pc' = [pc EXCEPT ![u] = IF Reads(Mine(u)) THEN "read" ELSE "write"]
    /\ UNCHANGED <<hw, got, faults, ghosts>>

\* reg_val = cpld_i2c_read(data, ...); a word that is not known ends the call.
ReadBack(u) ==
    /\ pc[u] = "read"
    /\ \E failed \in BOOLEAN, byte \in Errors \cup {chip[ReadReg(u)]} :
          ReadReturns(u, ReadReg(u), byte, failed)
    /\ pc' = [pc EXCEPT ![u] = IF val[u] > Mine(u).max THEN "idle" ELSE "write"]
    /\ UNCHANGED <<hw, val, at, calls, clean, held, base, spoilt>>

\* cpld_i2c_write(data, ..., reg_val | usr_val), once for every register.
KeptBitsUnmasked(u) == got[u]
KeptBitsNone(u) == None
KeptBits(u) ==
    IF at[u] \in ReadAt(Mine(u)) THEN got[u] \ Mine(u).clears[at[u]] ELSE None
NewByte(u) == KeptBits(u) \cup Stored(Mine(u), val[u], at[u])

LastWriteLate(u) == at[u] > Len(Mine(u).regs)
LastWrite(u) == at[u] = Len(Mine(u).regs)

WriteBack(u) ==
    LET a == Mine(u)
        k == at[u]
        r == a.regs[k]
        used == k \in ReadAt(a)
    IN
    /\ pc[u] = "write"
    /\ \E failed \in BOOLEAN :
          /\ Written(u, r, NewByte(u), failed)
          /\ LET bad   == ~ failed /\ used /\ Misread(u)
                 hit   == {x \in Users :
                             \/ ~ failed /\ Hit(u, x, r, a.clears[k], bad)
                             \/ x # u /\ LastWrite(u) /\ Flagged(u) /\ Flagged(x)}
                 whole == ~ failed /\ (k = 1 \/ clean[u])
             IN
             /\ clean' = [x \in Users |-> IF x = u THEN whole ELSE clean[x] /\ x \notin hit]
             /\ held' = [x \in Users |->
                            IF x = u THEN IF LastWrite(u) /\ whole THEN val[u] ELSE Nothing
                            ELSE IF x \in hit THEN Nothing ELSE held[x]]
             /\ spoilt' = IF bad /\ (garbled[u] \/ "probe" \in stale[u])
                          THEN spoilt \cup {r} ELSE spoilt
    /\ IF LastWrite(u)
       THEN /\ pc' = [pc EXCEPT ![u] = "idle"]
            /\ flag' = IF Flagged(u) THEN val[u] ELSE flag
            /\ UNCHANGED at
       ELSE at' = [at EXCEPT ![u] = @ + 1] /\ UNCHANGED <<pc, flag>>
    /\ UNCHANGED <<scene, probed, val, got, calls, garbled, base>>

\* --- probe, after sysfs_create_group ---------------------------------------

ProbeRead ==
    /\ pc[Probe] = "read"
    /\ \E failed \in BOOLEAN, byte \in Errors \cup {chip[ReadReg(Probe)]} :
          ReadReturns(Probe, ReadReg(Probe), byte, failed)
    /\ pc' = [pc EXCEPT ![Probe] = "write"]
    /\ UNCHANGED <<hw, val, at, calls, clean, held, base, spoilt>>

ProbeWrite ==
    LET r   == Pending.reg
        own == Bit \ Pending.keeps
        old == IF scene.mmio THEN chip[r] ELSE got[Probe]
    IN
    /\ pc[Probe] = "write" /\ Probing
    /\ \E failed \in BOOLEAN :
          /\ Written(Probe, r, Pending.byte \cup (old \cap Pending.keeps), failed)
          /\ LET bad == ~ failed /\ Misread(Probe)
                 hit == {x \in Users : ~ failed /\ Hit(Probe, x, r, own, bad)}
             IN
             /\ clean' = [x \in Users |-> clean[x] /\ x \notin hit]
             /\ held' = [x \in Users |-> IF x \in hit THEN Nothing ELSE held[x]]
             /\ base' = IF failed THEN base
                        ELSE [base EXCEPT ![r] = (@ \ own) \cup Pending.byte]
             /\ spoilt' = IF failed \/ (bad /\ garbled[Probe]) THEN spoilt \cup {r}
                          ELSE IF own = Bit THEN spoilt \ {r} ELSE spoilt
    /\ probed' = probed + 1
    /\ UNCHANGED <<scene, flag, pc, val, at, got, calls, garbled>>

\* What some probes note when their writes are done: osfp_efuse = 1.  The flag
\* of port_cpld2.c stays 0, while its fuse registers are all ones.
ProbeEnd ==
    LET notes == \E x \in Users : Mine(x).noted
        noted == {x \in Users : notes /\ Flagged(x)}
    IN
    /\ pc[Probe] = "write" /\ ~ Probing
    /\ pc' = [pc EXCEPT ![Probe] = "done"]
    /\ flag' = IF notes THEN 1 ELSE flag
    /\ clean' = [x \in Users |-> clean[x] /\ x \notin noted]
    /\ held' = [x \in Users |-> IF x \in noted THEN Nothing ELSE held[x]]
    /\ UNCHANGED <<scene, chip, probed, val, at, got, calls, faults,
                   stale, garbled, base, spoilt>>

\* A module is plugged or pulled: the pins behind the two readings change.
Plug ==
    /\ \E p \in scene.agree : \E cell \in {p[1], p[2]} :
          LET Flip(f) == [f EXCEPT ![cell[1]] = IF cell[2] \in @ THEN @ \ {cell[2]}
                                                ELSE @ \cup {cell[2]}]
          IN  chip' = Flip(chip) /\ base' = Flip(base)
    /\ UNCHANGED <<scene, flag, probed, pc, val, at, got, calls, faults,
                   stale, garbled, clean, held, spoilt>>

UserStep == \E u \in Users : Refuse(u) \/ Accept(u) \/ ReadBack(u) \/ WriteBack(u)
Next == UserStep \/ ProbeRead \/ ProbeWrite \/ ProbeEnd \/ Plug

Spec == Init /\ [][Next]_vars

\* --- properties -------------------------------------------------------------

TypeOK ==
    /\ chip \in [Regs(scene) -> SUBSET Bit] /\ base \in [Regs(scene) -> SUBSET Bit]
    /\ spoilt \subseteq Regs(scene)
    /\ flag \in 0..1 /\ probed \in 0..Len(scene.probe)
    /\ pc \in [Writers -> {"idle", "read", "write", "done"}]
    /\ val \in [Users -> Nat] /\ held \in [Users -> Nat \cup {Nothing}]
    /\ at \in [Users -> Nat \ {0}] /\ \A u \in Users : at[u] <= Len(Mine(u).regs)
    /\ got \in [Writers -> SUBSET Bit]
    /\ calls \in [Users -> 0..Calls] /\ faults \in 0..MaxFaults
    /\ stale \in [Writers -> SUBSET {"user", "probe"}]
    /\ garbled \in [Writers -> BOOLEAN] /\ clean \in [Users -> BOOLEAN]

\* A setting that was written completely is what the attribute shows, until
\* another write to the same bits, probe, or a read-modify-write of the register
\* that used an old or a failed read: nothing else in the driver, no other
\* attribute and no refused value, takes it back.
Shows(a, v) ==
    /\ \A k \in DOMAIN a.regs : chip[a.regs[k]] \cap Telling(a, k) = Stored(a, v, k)
    /\ a.how = "flag" => flag = v
SettingHolds == \A u \in Users : held[u] # Nothing => Shows(Mine(u), held[u])

\* Bits that no user means to change stay what probe or the hardware made them,
\* even when two read-modify-writes of the register overlap: only a failed read,
\* or a read from before probe's write, brings other bits in.
Bystanders == \A r \in Regs(scene) \ spoilt :
    chip[r] \ OwnedIn(scene, r) = base[r] \ OwnedIn(scene, r)

\* Once probe is through, the pins of the ports are as Sfp.reset() leaves them:
\* out of reset, in the power mode that the platform starts modules in.
PortsReleased == ~ Probing => \A c \in scene.rest :
    (c.reg \notin spoilt /\ c.bit \notin OwnedIn(scene, c.reg))
        => (c.bit \in chip[c.reg]) = c.on

\* The bit that the event monitor takes from a modprs_reg word for a port is the
\* one that get_presence() of the port reads.
PresenceAgrees == \A p \in scene.agree :
    (p[1][2] \in chip[p[1][1]]) = (p[2][2] \in chip[p[2][1]])
=============================================================================
