--------------------------- MODULE CpldDriverProofs ---------------------------
(***************************************************************************)
(* For every table of attributes that SceneAssumption allows, any number   *)
(* of writers and any number of failed accesses: what the attributes of a  *)
(* CPLD driver show is what was last written, and the bits that nobody     *)
(* writes stay.  The proof looks at what a store handler has read: while   *)
(* nobody else wrote the register it is the register's content, and while  *)
(* only store handlers did, it is right in the bits that they leave alone. *)
(***************************************************************************)
EXTENDS CpldDriver, TLAPS

\* What is known of the attributes in use.
Exact(u) == ExactAttr(Mine(u), scene.values[u])

\* Where the handlers are.
PlaceInv ==
    /\ scene \in Scenes
    /\ \A u \in Users :
          /\ pc[u] \in {"idle", "read", "write"}
          /\ pc[u] # "idle" => Settable(Mine(u)) /\ scene.agree = {}
          /\ pc[u] = "read" => Reads(Mine(u)) /\ at[u] = 1
          /\ pc[u] = "write" => val[u] <= Mine(u).max
          /\ at[u] \in DOMAIN Mine(u).regs
          /\ val[u] \in Nat /\ (pc[u] # "idle" => val[u] \in scene.values[u])
          /\ held[u] # Nothing => Settable(Mine(u)) /\ scene.agree = {}
    /\ pc[Probe] = "read" => Probing /\ Pending.keeps # None
    /\ probed \in 0..Len(scene.probe)

BytesInv ==
    /\ chip \in [Regs(scene) -> SUBSET Bit] /\ base \in [Regs(scene) -> SUBSET Bit]
    /\ got \in [Writers -> SUBSET Bit] /\ garbled \in [Writers -> BOOLEAN]
    /\ stale \in [Writers -> SUBSET {"user", "probe"}]
    /\ pc \in [Writers -> {"idle", "read", "write", "done"}]
    /\ DOMAIN at = Users /\ DOMAIN val = Users
    /\ DOMAIN held = Users /\ DOMAIN clean = Users

\* A read value that a user's handler has still to use.
Using(u) == pc[u] = "write" /\ Reads(Mine(u)) /\ at[u] <= ReadPos(u) /\ ~ garbled[u]
UserReadInv == \A u \in Users : Using(u) =>
    /\ stale[u] = {} => got[u] = chip[ReadReg(u)]
    /\ "probe" \notin stale[u] /\ ReadReg(u) \notin spoilt =>
          got[u] \ OwnedIn(scene, ReadReg(u)) = chip[ReadReg(u)] \ OwnedIn(scene, ReadReg(u))

ProbeReadInv == HasRead(Probe) /\ ~ garbled[Probe] =>
    LET r == Pending.reg  K == Pending.keeps IN
    /\ stale[Probe] = {} => got[Probe] \cap K = chip[r] \cap K
    /\ r \notin spoilt => (got[Probe] \cap K) \ OwnedIn(scene, r) = (chip[r] \cap K) \ OwnedIn(scene, r)

\* Register k of u's attribute shows v.
Told(u, k, v) == chip[Mine(u).regs[k]] \cap Telling(Mine(u), k) = Stored(Mine(u), v, k)

\* What a store handler has written so far, and what an attribute must show.
CleanInv == \A u \in Users :
    pc[u] = "write" /\ clean[u] => \A k \in 1..at[u] - 1 : Told(u, k, val[u])
HeldInv == \A u \in Users : held[u] # Nothing =>
    /\ \A k \in DOMAIN Mine(u).regs : Told(u, k, held[u])
    /\ Flagged(u) => flag = held[u]

CpldInv == /\ PlaceInv /\ BytesInv /\ UserReadInv /\ ProbeReadInv
           /\ CleanInv /\ HeldInv /\ Bystanders

-----------------------------------------------------------------------------
\* The tables, unfolded.
LEMMA Tables ==
    ASSUME scene \in Scenes
    PROVE  /\ \A u \in Users : /\ Exact(u) /\ scene.values[u] \subseteq Nat
                               /\ ~ Settable(Mine(u)) => scene.values[u] = {}
                               /\ Mine(u) \in Attrs(scene)
           /\ Probe \notin Users /\ None \in SUBSET Bit
           /\ \A b \in Errors : b \subseteq Bit
           /\ scene.probe \in Seq([reg : Regs(scene), byte : SUBSET Bit, keeps : SUBSET Bit])
           /\ SetsNoKept(scene.probe)
           /\ scene.mmio \in BOOLEAN /\ (~ scene.mmio => OneReadFirst(scene.probe))
           /\ scene.agree # {} => scene.probe = <<>> /\ \A u \in Users : scene.values[u] = {}
           /\ scene.agree \subseteq (Regs(scene) \X Bit) \X (Regs(scene) \X Bit)
BY SceneAssumption, BoundsAssumption DEF Exact, Mine, Attrs, None

LEMMA Shape ==
    ASSUME NEW u \in Users, Exact(u)
    PROVE  LET a == Mine(u) IN
           /\ a.regs \in Seq(Nat) /\ a.regs # <<>> /\ DOMAIN a.regs = 1..Len(a.regs)
           /\ Len(a.regs) \in Nat \ {0}
           /\ \A k \in DOMAIN a.regs : a.clears[k] \in SUBSET Bit
           /\ \A j, k \in DOMAIN a.regs : a.regs[j] = a.regs[k] => j = k
           /\ Settable(a) => \A j, k \in ReadAt(a) : j = k
           /\ Settable(a) => \A k \in DOMAIN a.regs :
                 /\ Telling(a, k) = a.clears[k]
                 /\ \A v \in scene.values[u] : v <= a.max => Stored(a, v, k) \subseteq a.clears[k]
<1> DEFINE a == Mine(u)
<1> HIDE DEF a
<1>1. ExactAttr(a, scene.values[u])
  BY DEF Exact, a
<1>2. a.regs \in Seq(Nat) /\ a.regs # <<>>
  BY <1>1 DEF ExactAttr
<1>3. DOMAIN a.regs = 1..Len(a.regs) /\ Len(a.regs) \in Nat \ {0}
  BY <1>2
<1> QED BY <1>1, <1>2, <1>3 DEF ExactAttr, a

\* Where a handler reads, and what it does not read it owns whole.
LEMMA ReadPlace ==
    ASSUME NEW u \in Users, Exact(u), Settable(Mine(u))
    PROVE  LET a == Mine(u) IN
           /\ ReadAt(a) \subseteq DOMAIN a.regs
           /\ \A k \in DOMAIN a.regs \ ReadAt(a) : a.clears[k] = Bit
           /\ Reads(a) => /\ ReadPos(u) \in ReadAt(a)
                          /\ \A k \in ReadAt(a) : k = ReadPos(u)
                          /\ ReadPos(u) \in DOMAIN a.regs
<1> DEFINE a == Mine(u)
<1>1. a.how = "rmw" => Len(a.regs) = 1
  BY DEF Exact, ExactAttr
<1>2. ReadAt(a) \subseteq DOMAIN a.regs
  BY <1>1, Shape DEF ReadAt
<1>3. \A k \in DOMAIN a.regs \ ReadAt(a) : a.clears[k] = Bit
  BY <1>1, Shape DEF ReadAt
<1>4. Reads(a) => ReadPos(u) \in ReadAt(a)
  BY DEF Reads, ReadPos
<1> QED BY <1>2, <1>3, <1>4, Shape

\* A register of an attribute in use, and the bits that stores to it replace.
LEMMA Registers ==
    ASSUME NEW u \in Users, Mine(u) \in Attrs(scene), NEW k \in DOMAIN Mine(u).regs
    PROVE  /\ Mine(u).regs[k] \in RegsOf(Mine(u)) /\ Mine(u).regs[k] \in Regs(scene)
           /\ Mine(u).clears[k] \subseteq OwnedIn(scene, Mine(u).regs[k])
           /\ Telling(Mine(u), k) \subseteq TellingIn(Mine(u), Mine(u).regs[k])
<1>1. Mine(u).regs[k] \in RegsOf(Mine(u)) /\ Mine(u).regs[k] \in Regs(scene)
  BY DEF RegsOf, Regs
<1>2. Mine(u).clears[k] \subseteq OwnedIn(scene, Mine(u).regs[k])
  BY DEF OwnedIn
<1>3. Telling(Mine(u), k) \subseteq TellingIn(Mine(u), Mine(u).regs[k])
  BY DEF TellingIn
<1> QED BY <1>1, <1>2, <1>3

\* What probe writes next.
LEMMA PendingType ==
    ASSUME scene.probe \in Seq([reg : Regs(scene), byte : SUBSET Bit, keeps : SUBSET Bit]),
           probed + 1 \in 1..Len(scene.probe)
    PROVE  Pending \in [reg : Regs(scene), byte : SUBSET Bit, keeps : SUBSET Bit]
<1> DEFINE T == [reg : Regs(scene), byte : SUBSET Bit, keeps : SUBSET Bit]
           p == scene.probe
<1> HIDE DEF T, p
<1>1. p \in Seq(T)
  BY DEF T, p
<1>2. p[probed + 1] \in T
  <2>1. probed + 1 \in 1..Len(p)
    BY DEF p
  <2> QED BY <1>1, <2>1
<1> QED BY <1>2 DEF Pending, T, p

LEMMA DriverStarts == ASSUME Init PROVE CpldInv
<1> USE DEF Init
<1>1. scene \in Scenes
  OBVIOUS
<1>2. Probe \notin Users /\ \A u \in Users : 1 \in DOMAIN Mine(u).regs
  BY <1>1, Tables, Shape
<1>3. PlaceInv
  <2>1. Len(scene.probe) \in Nat
    BY <1>1, Tables
  <2>2. pc[Probe] = "read" => Probing /\ Pending.keeps # None
    BY DEF ProbeReads, Writers
  <2> QED BY <1>1, <1>2, <2>1, <2>2 DEF PlaceInv, Writers
<1>4. BytesInv
  <2>1. chip \in [Regs(scene) -> SUBSET Bit]
    BY BoundsAssumption
  <2> QED BY <1>2, <2>1, BoundsAssumption DEF BytesInv, None, Writers
<1>5. UserReadInv /\ CleanInv /\ HeldInv /\ Bystanders
  BY <1>2 DEF UserReadInv, Using, CleanInv, HeldInv, Bystanders, Writers
<1>6. ProbeReadInv
  BY <1>2 DEF ProbeReadInv, HasRead, ProbeReads, Writers
<1> QED BY <1>3, <1>4, <1>5, <1>6 DEF CpldInv

-----------------------------------------------------------------------------
\* What a store handler is about to write: its own bits from the user, the bits
\* of others as it read them.
LEMMA NewByteRight ==
    ASSUME CpldInv, NEW u \in Users, pc[u] = "write"
    PROVE  LET a == Mine(u)  k == at[u]  r == a.regs[k] IN
           /\ k \in DOMAIN a.regs /\ Settable(a) /\ Exact(u) /\ NewByte(u) \subseteq Bit
           /\ NewByte(u) \cap a.clears[k] = Stored(a, val[u], k)
           /\ k \notin ReadAt(a) => a.clears[k] = Bit
           /\ k \in ReadAt(a) => /\ NewByte(u) \ a.clears[k] = got[u] \ a.clears[k]
                                 /\ Reads(a) /\ k = ReadPos(u)
<1> DEFINE a == Mine(u)
           k == at[u]
<1> USE DEF CpldInv
<1>1. /\ scene \in Scenes /\ Settable(a) /\ k \in DOMAIN a.regs
      /\ val[u] \in scene.values[u] /\ val[u] <= a.max
  BY DEF PlaceInv
<1>2. Exact(u)
  BY <1>1, Tables
<1>3. Stored(a, val[u], k) \subseteq a.clears[k] /\ a.clears[k] \subseteq Bit
  BY <1>1, <1>2, Shape
<1>4. got[u] \subseteq Bit
  BY DEF BytesInv, Writers
<1>5. /\ k \notin ReadAt(a) => a.clears[k] = Bit
      /\ k \in ReadAt(a) => Reads(a) /\ k = ReadPos(u)
  BY <1>1, <1>2, ReadPlace DEF Reads
<1>6. KeptBits(u) = IF k \in ReadAt(a) THEN got[u] \ a.clears[k] ELSE {}
  BY DEF KeptBits, None
<1> HIDE DEF a, k
<1>7. NewByte(u) = KeptBits(u) \cup Stored(a, val[u], k)
  BY DEF NewByte, a, k
<1>8. /\ NewByte(u) \subseteq Bit /\ NewByte(u) \cap a.clears[k] = Stored(a, val[u], k)
      /\ k \in ReadAt(a) => NewByte(u) \ a.clears[k] = got[u] \ a.clears[k]
  BY <1>3, <1>4, <1>6, <1>7
<1> QED BY <1>1, <1>2, <1>5, <1>8 DEF a, k

\* Unless its read was spoilt the write leaves other bits as they are.
LEMMA NewByteKeeps ==
    ASSUME CpldInv, NEW u \in Users, pc[u] = "write"
    PROVE  LET a == Mine(u)  k == at[u]  r == a.regs[k]
               misused == k \in ReadAt(a) /\ Misread(u) IN
           /\ \A T \in SUBSET Bit : ~ misused /\ T \cap a.clears[k] = {}
                 => NewByte(u) \cap T = chip[r] \cap T
           /\ r \notin spoilt /\ ~ (misused /\ (garbled[u] \/ "probe" \in stale[u]))
                 => NewByte(u) \ OwnedIn(scene, r) = chip[r] \ OwnedIn(scene, r)
<1> DEFINE a == Mine(u)
           k == at[u]
           r == a.regs[k]
           O == OwnedIn(scene, r)
<1> USE DEF CpldInv
<1>1. /\ k \in DOMAIN a.regs /\ Settable(a) /\ Exact(u) /\ NewByte(u) \subseteq Bit
      /\ k \notin ReadAt(a) => a.clears[k] = Bit
      /\ k \in ReadAt(a) => NewByte(u) \ a.clears[k] = got[u] \ a.clears[k]
      /\ k \in ReadAt(a) => Reads(a) /\ k = ReadPos(u)
  BY NewByteRight
<1>2. Mine(u) \in Attrs(scene) /\ Probe \notin Users
  BY Tables DEF PlaceInv
<1>3. r \in Regs(scene) /\ a.clears[k] \subseteq O
  BY <1>1, <1>2, Registers
<1>4. chip[r] \subseteq Bit
  BY <1>3 DEF BytesInv
<1>5. k \in ReadAt(a) => HasRead(u) /\ ReadReg(u) = r /\ at[u] <= ReadPos(u)
  <2>1. k \in Int
    BY <1>1, Shape
  <2> QED BY <1>1, <1>2, <2>1 DEF HasRead, ReadReg
<1>6. k \in ReadAt(a) /\ ~ Misread(u) => ~ garbled[u] /\ got[u] = chip[r]
  BY <1>1, <1>5 DEF Misread, UserReadInv, Using
<1>7. k \in ReadAt(a) /\ ~ garbled[u] /\ "probe" \notin stale[u] /\ r \notin spoilt
         => got[u] \ O = chip[r] \ O
  BY <1>1, <1>5 DEF UserReadInv, Using
<1>8. Misread(u) /\ ~ (garbled[u] \/ "probe" \in stale[u]) => ~ garbled[u] /\ "probe" \notin stale[u]
  OBVIOUS
<1> HIDE DEF a, k, r, O
<1>9. ASSUME NEW T \in SUBSET Bit, ~ (k \in ReadAt(a) /\ Misread(u)), T \cap a.clears[k] = {}
      PROVE  NewByte(u) \cap T = chip[r] \cap T
  <2>1. CASE k \in ReadAt(a)
    BY <1>1, <1>6, <1>9, <2>1
  <2>2. CASE k \notin ReadAt(a)
    BY <1>1, <1>9, <2>2
  <2> QED BY <2>1, <2>2
<1>10. ASSUME r \notin spoilt,
              ~ (k \in ReadAt(a) /\ Misread(u) /\ (garbled[u] \/ "probe" \in stale[u]))
       PROVE  NewByte(u) \ O = chip[r] \ O
  <2>1. CASE k \in ReadAt(a)
    <3>1. ~ garbled[u] /\ "probe" \notin stale[u]
      BY <1>5, <1>10, <2>1 DEF Misread
    <3> QED BY <1>1, <1>3, <1>7, <1>10, <2>1, <3>1
  <2>2. CASE k \notin ReadAt(a)
    BY <1>1, <1>3, <1>4, <2>2
  <2> QED BY <2>1, <2>2
<1> QED BY <1>9, <1>10 DEF a, k, r, O

\* A user's write: only its register changes, in it only what the user means to
\* change or what the users in hit are told of, and who had read it learns.
LEMMA UserWrites ==
    ASSUME CpldInv, NEW u \in Users, pc[u] = "write", NEW failed \in BOOLEAN,
           Written(u, Mine(u).regs[at[u]], NewByte(u), failed)
    PROVE  LET a == Mine(u)  k == at[u]  r == a.regs[k]
               bad == ~ failed /\ k \in ReadAt(a) /\ Misread(u) IN
           /\ chip' \in [Regs(scene) -> SUBSET Bit] /\ stale' \in [Writers -> SUBSET {"user", "probe"}]
           /\ r \in Regs(scene)
           /\ \A q \in Regs(scene) : q # r => chip'[q] = chip[q]
           /\ ~ failed => chip'[r] \cap a.clears[k] = Stored(a, val[u], k)
           /\ \A x \in Users : x # u /\ Settable(Mine(x)) /\ ~ (~ failed /\ Hit(u, x, r, a.clears[k], bad))
                 => \A j \in DOMAIN Mine(x).regs :
                       chip'[Mine(x).regs[j]] \cap Telling(Mine(x), j)
                          = chip[Mine(x).regs[j]] \cap Telling(Mine(x), j)
           /\ r \notin spoilt /\ ~ (bad /\ (garbled[u] \/ "probe" \in stale[u]))
                 => chip'[r] \ OwnedIn(scene, r) = chip[r] \ OwnedIn(scene, r)
           /\ \A x \in Writers \ {u} : /\ stale[x] \subseteq stale'[x]
                                       /\ HasRead(x) /\ ReadReg(x) = r /\ chip'[r] # chip[r]
                                             => stale'[x] # {}
           /\ \A x \in Writers \ {u} : "probe" \in stale'[x] => "probe" \in stale[x]
           /\ stale'[u] = stale[u]
<1> DEFINE a == Mine(u)
           k == at[u]
           r == a.regs[k]
           bad == ~ failed /\ k \in ReadAt(a) /\ Misread(u)
           O == OwnedIn(scene, r)
<1> USE DEF CpldInv
<1>1. /\ k \in DOMAIN a.regs /\ NewByte(u) \subseteq Bit
      /\ NewByte(u) \cap a.clears[k] = Stored(a, val[u], k)
  BY NewByteRight
<1>2. /\ \A x \in Users : Mine(x) \in Attrs(scene) /\ Exact(x)
      /\ Probe \notin Users
  BY Tables DEF PlaceInv
<1>3. r \in Regs(scene)
  BY <1>1, <1>2, Registers
<1>4. u # Probe /\ u \in Writers
  BY <1>2 DEF Writers
<1>5. /\ failed => chip' = chip /\ stale' = stale
      /\ ~ failed => /\ chip' = [chip EXCEPT ![r] = NewByte(u)]
                    /\ stale' = [x \in Writers |->
                                    IF x # u /\ HasRead(x) /\ ReadReg(x) = r
                                    THEN stale[x] \cup {"user"} ELSE stale[x]]
  BY <1>4 DEF Written
<1>6. /\ \A T \in SUBSET Bit : ~ (k \in ReadAt(a) /\ Misread(u)) /\ T \cap a.clears[k] = {}
                 => NewByte(u) \cap T = chip[r] \cap T
      /\ r \notin spoilt /\ ~ (k \in ReadAt(a) /\ Misread(u) /\ (garbled[u] \/ "probe" \in stale[u]))
                 => NewByte(u) \ O = chip[r] \ O
  BY NewByteKeeps
<1>7. /\ chip \in [Regs(scene) -> SUBSET Bit] /\ stale \in [Writers -> SUBSET {"user", "probe"}]
  BY DEF BytesInv
<1>8. /\ \A x \in Users : \A j \in DOMAIN Mine(x).regs :
            /\ Mine(x).regs[j] \in Regs(scene) /\ Mine(x).regs[j] \in RegsOf(Mine(x))
            /\ Telling(Mine(x), j) \subseteq TellingIn(Mine(x), Mine(x).regs[j])
      /\ \A x \in Users : Settable(Mine(x)) => \A j \in DOMAIN Mine(x).regs : Telling(Mine(x), j) \in SUBSET Bit
  <2>1. ASSUME NEW x \in Users, Settable(Mine(x)), NEW j \in DOMAIN Mine(x).regs
        PROVE  Telling(Mine(x), j) \in SUBSET Bit
    <3>1. Mine(x).clears[j] \in SUBSET Bit /\ Telling(Mine(x), j) = Mine(x).clears[j]
      BY <1>2, <2>1, Shape
    <3> QED BY <3>1
  <2>2. ASSUME NEW x \in Users, NEW j \in DOMAIN Mine(x).regs
        PROVE  /\ Mine(x).regs[j] \in Regs(scene) /\ Mine(x).regs[j] \in RegsOf(Mine(x))
               /\ Telling(Mine(x), j) \subseteq TellingIn(Mine(x), Mine(x).regs[j])
    BY <1>2, Registers
  <2> QED BY <2>1, <2>2
<1> HIDE DEF a, k, r, O
<1>9. /\ chip' \in [Regs(scene) -> SUBSET Bit]
      /\ ~ failed => chip'[r] = NewByte(u)
      /\ \A q \in Regs(scene) : q # r => chip'[q] = chip[q]
      /\ failed => chip'[r] = chip[r]
  <2>1. CASE failed
    BY <1>5, <1>7, <2>1
  <2>2. CASE ~ failed
    BY <1>1, <1>3, <1>5, <1>7, <2>2
  <2> QED BY <2>1, <2>2
<1>10. /\ stale' \in [Writers -> SUBSET {"user", "probe"}] /\ stale'[u] = stale[u]
       /\ \A x \in Writers \ {u} : "probe" \in stale'[x] => "probe" \in stale[x]
       /\ \A x \in Writers \ {u} : stale[x] \subseteq stale'[x]
       /\ \A x \in Writers \ {u} :
             HasRead(x) /\ ReadReg(x) = r /\ ~ failed => stale'[x] # {}
  <2>1. CASE failed
    BY <1>5, <1>7, <2>1
  <2>2. CASE ~ failed
    BY <1>4, <1>5, <1>7, <2>2
  <2> QED BY <2>1, <2>2
<1>11. ASSUME NEW x \in Users, x # u, Settable(Mine(x)),
              ~ (~ failed /\ Hit(u, x, r, a.clears[k], bad)),
              NEW j \in DOMAIN Mine(x).regs
       PROVE  chip'[Mine(x).regs[j]] \cap Telling(Mine(x), j)
                 = chip[Mine(x).regs[j]] \cap Telling(Mine(x), j)
  <2>1. CASE failed
    BY <1>5, <2>1
  <2>2. CASE Mine(x).regs[j] # r
    BY <1>8, <1>9, <1>11, <2>2
  <2>3. CASE ~ failed /\ Mine(x).regs[j] = r
    <3>1. ~ bad /\ a.clears[k] \cap TellingIn(Mine(x), r) = {}
      BY <1>8, <1>11, <2>3 DEF Hit, None
    <3>2. Telling(Mine(x), j) \cap a.clears[k] = {} /\ Telling(Mine(x), j) \in SUBSET Bit
      BY <1>8, <1>11, <2>3, <3>1
    <3> QED BY <1>6, <1>9, <2>3, <3>1, <3>2
  <2> QED BY <2>1, <2>2, <2>3
<1>12. r \notin spoilt /\ ~ (bad /\ (garbled[u] \/ "probe" \in stale[u])) => chip'[r] \ O = chip[r] \ O
  BY <1>6, <1>9
<1>13. ~ failed => chip'[r] \cap a.clears[k] = Stored(a, val[u], k)
  BY <1>1, <1>9
<1> HIDE DEF bad
<1>14. \A x \in Writers \ {u} : HasRead(x) /\ ReadReg(x) = r /\ chip'[r] # chip[r] => stale'[x] # {}
  BY <1>9, <1>10
<1>15. \A x \in Users : x # u /\ Settable(Mine(x)) /\ ~ (~ failed /\ Hit(u, x, r, a.clears[k], bad))
         => \A j \in DOMAIN Mine(x).regs :
               chip'[Mine(x).regs[j]] \cap Telling(Mine(x), j)
                  = chip[Mine(x).regs[j]] \cap Telling(Mine(x), j)
  BY <1>11
<1>16. \A x \in Writers \ {u} :
         /\ stale[x] \subseteq stale'[x]
         /\ HasRead(x) /\ ReadReg(x) = r /\ chip'[r] # chip[r] => stale'[x] # {}
  BY <1>10, <1>14
<1>17. chip' \in [Regs(scene) -> SUBSET Bit]
  BY <1>9
<1>18. \A q \in Regs(scene) : q # r => chip'[q] = chip[q]
  BY <1>9
<1> QED BY ONLY <1>3, <1>17, <1>18, <1>10, <1>15, <1>16, <1>12, <1>13, Zenon DEF a, k, r, O, bad

LEMMA WriteBackKeeps == ASSUME CpldInv, NEW u \in Users, WriteBack(u) PROVE CpldInv'
<1> DEFINE a == Mine(u)
           k == at[u]
           r == a.regs[k]
           bad(failed) == ~ failed /\ k \in ReadAt(a) /\ Misread(u)
           hit(failed) == {x \in Users :
                             \/ ~ failed /\ Hit(u, x, r, a.clears[k], bad(failed))
                             \/ x # u /\ LastWrite(u) /\ Flagged(u) /\ Flagged(x)}
           whole(failed) == ~ failed /\ (k = 1 \/ clean[u])
<1>1. pc[u] = "write"
  BY DEF WriteBack
<1>2. PICK failed \in BOOLEAN :
        /\ Written(u, r, NewByte(u), failed)
        /\ clean' = [x \in Users |-> IF x = u THEN whole(failed) ELSE clean[x] /\ x \notin hit(failed)]
        /\ held' = [x \in Users |->
                       IF x = u THEN IF LastWrite(u) /\ whole(failed) THEN val[u] ELSE Nothing
                       ELSE IF x \in hit(failed) THEN Nothing ELSE held[x]]
        /\ spoilt' = IF bad(failed) /\ (garbled[u] \/ "probe" \in stale[u])
                     THEN spoilt \cup {r} ELSE spoilt
  BY DEF WriteBack
<1>3. /\ IF LastWrite(u)
         THEN /\ pc' = [pc EXCEPT ![u] = "idle"]
              /\ flag' = IF Flagged(u) THEN val[u] ELSE flag
              /\ at' = at
         ELSE at' = [at EXCEPT ![u] = @ + 1] /\ pc' = pc /\ flag' = flag
      /\ scene' = scene /\ probed' = probed /\ val' = val /\ got' = got
      /\ garbled' = garbled /\ base' = base
  BY DEF WriteBack
<1>4. /\ chip' \in [Regs(scene) -> SUBSET Bit] /\ stale' \in [Writers -> SUBSET {"user", "probe"}]
      /\ r \in Regs(scene)
      /\ \A q \in Regs(scene) : q # r => chip'[q] = chip[q]
      /\ ~ failed => chip'[r] \cap a.clears[k] = Stored(a, val[u], k)
      /\ \A x \in Users : x # u /\ Settable(Mine(x)) /\ ~ (~ failed /\ Hit(u, x, r, a.clears[k], bad(failed)))
            => \A j \in DOMAIN Mine(x).regs :
                  chip'[Mine(x).regs[j]] \cap Telling(Mine(x), j)
                     = chip[Mine(x).regs[j]] \cap Telling(Mine(x), j)
      /\ r \notin spoilt /\ ~ (bad(failed) /\ (garbled[u] \/ "probe" \in stale[u]))
            => chip'[r] \ OwnedIn(scene, r) = chip[r] \ OwnedIn(scene, r)
      /\ stale'[u] = stale[u]
  BY <1>1, <1>2, UserWrites
<1>a. \A x \in Writers \ {u} : stale[x] \subseteq stale'[x]
  BY <1>1, <1>2, UserWrites
<1>b. \A x \in Writers \ {u} : HasRead(x) => (ReadReg(x) = r /\ chip'[r] # chip[r] => stale'[x] # {})
  BY <1>1, <1>2, UserWrites
<1>5. /\ k \in DOMAIN a.regs /\ Settable(a) /\ Exact(u) /\ k \in Int
      /\ DOMAIN a.regs = 1..Len(a.regs) /\ Len(a.regs) \in Nat
      /\ \A i, j \in DOMAIN a.regs : a.regs[i] = a.regs[j] => i = j
      /\ \A j \in DOMAIN a.regs : Telling(a, j) = a.clears[j] /\ a.regs[j] \in Regs(scene)
  <2>1. k \in DOMAIN a.regs /\ Settable(a) /\ Exact(u)
    BY <1>1, NewByteRight
  <2>2. Mine(u) \in Attrs(scene)
    BY Tables DEF CpldInv, PlaceInv
  <2> QED BY <2>1, <2>2, Shape, Registers
<1>6. /\ PlaceInv /\ BytesInv /\ UserReadInv /\ ProbeReadInv /\ CleanInv /\ HeldInv /\ Bystanders
      /\ \A x \in Users : Mine(x) \in Attrs(scene) /\ Exact(x)
      /\ Probe \notin Users
      /\ scene.probe \in Seq([reg : Regs(scene), byte : SUBSET Bit, keeps : SUBSET Bit])
  BY Tables DEF CpldInv, PlaceInv
<1>7. /\ \A x \in Users : Mine(x)' = Mine(x)
      /\ \A x \in Writers \ {u} : pc'[x] = pc[x]
      /\ \A x \in Users \ {u} : at'[x] = at[x]
      /\ IF LastWrite(u) THEN pc'[u] = "idle" /\ at'[u] = k
                         ELSE pc'[u] = "write" /\ at'[u] = k + 1
      /\ spoilt \subseteq spoilt'
  BY <1>1, <1>2, <1>3, <1>6 DEF Mine, BytesInv, Writers
<1> HIDE DEF a, k, r, bad, hit, whole
<1>8. PlaceInv'
  <2>1. scene' \in Scenes /\ probed' \in 0..Len(scene'.probe)
    BY <1>3, <1>6 DEF PlaceInv
  <2>2. pc'[Probe] = "read" => Probing' /\ Pending'.keeps # None
    BY <1>3, <1>6, <1>7 DEF PlaceInv, Probing, Pending, Writers
  <2>3. ASSUME NEW x \in Users PROVE at'[x] \in DOMAIN Mine(x)'.regs
    BY <1>5, <1>6, <1>7 DEF PlaceInv, LastWrite, a, k
  <2>4. ASSUME NEW x \in Users, held'[x] # Nothing
        PROVE  Settable(Mine(x)') /\ scene'.agree = {}
    BY <1>1, <1>2, <1>3, <1>5, <1>6, <1>7, <2>4 DEF PlaceInv, a
  <2>5. ASSUME NEW x \in Users
        PROVE  /\ pc'[x] \in {"idle", "read", "write"}
               /\ pc'[x] # "idle" => Settable(Mine(x)') /\ scene'.agree = {} /\ val'[x] \in scene'.values[x]
               /\ pc'[x] = "read" => Reads(Mine(x)') /\ at'[x] = 1
               /\ pc'[x] = "write" => val'[x] <= Mine(x)'.max
               /\ val'[x] \in Nat
    <3>1. CASE x = u
      BY <1>1, <1>3, <1>5, <1>6, <1>7, <3>1 DEF PlaceInv, a
    <3>2. CASE x # u
      BY <1>3, <1>6, <1>7, <3>2 DEF PlaceInv, Writers
    <3> QED BY <3>1, <3>2
  <2> QED BY <2>1, <2>2, <2>3, <2>4, <2>5 DEF PlaceInv, Settable, Reads, ReadAt
<1>9. BytesInv'
  BY <1>2, <1>3, <1>4, <1>6, <1>7 DEF BytesInv, Writers
<1>10. UserReadInv'
  <2> SUFFICES ASSUME NEW x \in Users, Using(x)'
               PROVE  /\ stale'[x] = {} => got'[x] = chip'[ReadReg(x)]
                      /\ "probe" \notin stale'[x] /\ ReadReg(x) \notin spoilt' =>
                            got'[x] \ OwnedIn(scene, ReadReg(x)) = chip'[ReadReg(x)] \ OwnedIn(scene, ReadReg(x))
    <3>1. \A x \in Users : ReadReg(x)' = ReadReg(x)
      <4>1. \A x \in Users : ReadPos(x)' = ReadPos(x)
        BY <1>3 DEF ReadPos, Mine
      <4> QED BY <1>6, <1>7, <4>1 DEF ReadReg
    <3> QED BY <1>3, <3>1 DEF UserReadInv
  <2>1. /\ pc'[x] = "write" /\ Reads(Mine(x)) /\ at'[x] <= ReadPos(x) /\ ~ garbled[x]
    BY <1>3 DEF Using, ReadPos, Mine
  <2>2. x \in Writers /\ ReadReg(x) = Mine(x).regs[ReadPos(x)]
    BY <1>6 DEF ReadReg, Writers
  <2>3. Settable(Mine(x))
    BY <1>5, <1>6, <1>7, <2>1, <2>2 DEF PlaceInv, a
  <2>4. ReadPos(x) \in DOMAIN Mine(x).regs
    BY <1>6, <2>1, <2>3, ReadPlace
  <2>5. ReadReg(x) \in Regs(scene)
    BY <1>6, <2>2, <2>4, Registers
  <2>6. CASE x = u
    <3>1. at'[u] = k + 1 /\ k < ReadPos(u)
      <4>1. ReadPos(u) \in Int
        BY <1>5, <2>4, <2>6 DEF a
      <4> QED BY <1>5, <1>7, <2>1, <2>6, <4>1
    <3>2. Using(u)
      BY <1>1, <1>5, <2>1, <2>4, <2>6, <3>1 DEF Using, k, a
    <3>3. ReadReg(u) # r
      BY <1>5, <2>2, <2>4, <2>6, <3>1 DEF r, a
    <3> QED BY <1>3, <1>4, <1>6, <1>7, <2>5, <2>6, <3>2, <3>3 DEF UserReadInv
  <2>7. CASE x # u
    <3>1. Using(x) /\ HasRead(x)
      BY <1>6, <1>7, <2>1, <2>2, <2>7 DEF Using, HasRead
    <3>2. stale[x] \subseteq stale'[x] /\ (ReadReg(x) = r /\ chip'[r] # chip[r] => stale'[x] # {})
      BY <1>a, <1>b, <2>2, <2>7, <3>1, Zenon
    <3>3. stale'[x] = {} => got'[x] = chip'[ReadReg(x)]
      BY <1>3, <1>4, <1>6, <2>5, <3>1, <3>2 DEF UserReadInv
    <3>4. ReadReg(x) \notin spoilt' =>
            chip'[ReadReg(x)] \ OwnedIn(scene, ReadReg(x)) = chip[ReadReg(x)] \ OwnedIn(scene, ReadReg(x))
      BY <1>2, <1>4, <2>5
    <3> QED BY <1>3, <1>6, <1>7, <3>1, <3>2, <3>3, <3>4 DEF UserReadInv
  <2> QED BY <2>6, <2>7
<1>11. ProbeReadInv'
  <2> DEFINE q == Pending.reg
  <2> SUFFICES ASSUME HasRead(Probe), ~ garbled[Probe]
               PROVE  /\ stale'[Probe] = {} => got[Probe] \cap Pending.keeps = chip'[q] \cap Pending.keeps
                      /\ q \notin spoilt' => (got[Probe] \cap Pending.keeps) \ OwnedIn(scene, q)
                                             = (chip'[q] \cap Pending.keeps) \ OwnedIn(scene, q)
    BY <1>3, <1>6, <1>7 DEF ProbeReadInv, HasRead, ProbeReads, Pending, Probing, Writers
  <2>1. q \in Regs(scene) /\ ReadReg(Probe) = q /\ Probe \in Writers \ {u}
    <3>1. probed \in 0..Len(scene.probe) /\ probed < Len(scene.probe)
      BY <1>6 DEF HasRead, ProbeReads, Probing, PlaceInv
    <3>2. probed + 1 \in 1..Len(scene.probe)
      BY <1>6, <3>1
    <3>3. Pending \in [reg : Regs(scene), byte : SUBSET Bit, keeps : SUBSET Bit]
      BY <1>6, <3>2, PendingType
    <3> QED BY <1>6, <3>3 DEF ReadReg, Writers
  <2>2. /\ stale[Probe] = {} => got[Probe] \cap Pending.keeps = chip[q] \cap Pending.keeps
        /\ q \notin spoilt => (got[Probe] \cap Pending.keeps) \ OwnedIn(scene, q)
                               = (chip[q] \cap Pending.keeps) \ OwnedIn(scene, q)
    BY <1>6 DEF ProbeReadInv
  <2>3. stale[Probe] \subseteq stale'[Probe] /\ (q = r /\ chip'[r] # chip[r] => stale'[Probe] # {})
    BY <1>a, <1>b, <2>1
  <2>4. q \notin spoilt' => chip'[q] \ OwnedIn(scene, q) = chip[q] \ OwnedIn(scene, q)
    BY <1>2, <1>4, <2>1
  <2> HIDE DEF q
  <2>5. stale'[Probe] = {} => chip'[q] = chip[q]
    BY <1>4, <2>1, <2>3
  <2> QED BY <1>7, <2>2, <2>3, <2>4, <2>5
<1>12. ASSUME NEW x \in Users, x # u, Settable(Mine(x)), x \notin hit(failed), NEW v, NEW j \in DOMAIN Mine(x).regs,
              Told(x, j, v)
       PROVE  Told(x, j, v)'
  <2>1. ~ (~ failed /\ Hit(u, x, r, a.clears[k], bad(failed)))
    BY <1>12 DEF hit
  <2> QED BY <1>4, <1>7, <1>12, <2>1 DEF Told
<1>13. ASSUME whole(failed), NEW j \in 1..k PROVE Told(u, j, val[u])'
  <2>0. Mine(u)' = a /\ j \in DOMAIN a.regs
    BY <1>5, <1>7 DEF a
  <2>1. CASE j = k
    <3>1. chip'[a.regs[k]] \cap Telling(a, k) = Stored(a, val[u], k)
      BY <1>4, <1>5, <1>13 DEF whole, r
    <3> QED BY <1>3, <2>0, <2>1, <3>1 DEF Told
  <2>2. CASE j # k
    <3>1. Told(u, j, val[u])
      BY <1>1, <1>5, <1>6, <1>13, <2>2 DEF CleanInv, whole, k
    <3>2. a.regs[j] # r /\ a.regs[j] \in Regs(scene)
      BY <1>5, <2>0, <2>2 DEF r
    <3>3. chip'[a.regs[j]] = chip[a.regs[j]]
      BY <1>4, <3>2
    <3> QED BY <1>3, <2>0, <3>1, <3>3 DEF Told, a
  <2> QED BY <2>1, <2>2
<1>14. CleanInv'
  <2> SUFFICES ASSUME NEW x \in Users, pc'[x] = "write", clean'[x], NEW j \in 1..at'[x] - 1
               PROVE  Told(x, j, val[x])'
    BY DEF CleanInv
  <2>1. CASE x = u
    BY <1>2, <1>3, <1>5, <1>7, <1>13, <2>1 DEF Told
  <2>2. CASE x # u
    <3>1. pc[x] = "write" /\ clean[x] /\ x \notin hit(failed) /\ j \in 1..at[x] - 1
      BY <1>2, <1>7, <2>2 DEF Writers
    <3>2. Told(x, j, val[x]) /\ Settable(Mine(x)) /\ j \in DOMAIN Mine(x).regs
      BY <1>6, <3>1, Shape DEF CleanInv, PlaceInv
    <3>3. \A v : Told(x, j, v) => Told(x, j, v)'
      BY <1>12, <2>2, <3>1, <3>2
    <3> QED BY <1>3, <3>2, <3>3 DEF Told
  <2> QED BY <2>1, <2>2
<1>15. HeldInv'
  <2> SUFFICES ASSUME NEW x \in Users, held'[x] # Nothing
               PROVE  /\ \A j \in DOMAIN Mine(x).regs : Told(x, j, held[x])'
                      /\ Flagged(x) => flag' = held'[x]
    BY <1>7 DEF HeldInv, Flagged
  <2>1. CASE x = u
    <3>1. LastWrite(u) /\ whole(failed) /\ held'[u] = val[u]
      BY <1>2, <2>1
    <3>2. DOMAIN a.regs = 1..k
      BY <1>5, <3>1 DEF LastWrite, k, a
    <3> QED BY <1>3, <1>13, <2>1, <3>1, <3>2 DEF Told, a
  <2>2. CASE x # u
    <3>1. held'[x] = held[x] /\ x \notin hit(failed)
      BY <1>2, <2>2
    <3>2. Settable(Mine(x)) /\ \A j \in DOMAIN Mine(x).regs : Told(x, j, held[x])
      BY <1>6, <3>1 DEF HeldInv, PlaceInv
    <3>3. \A v : \A j \in DOMAIN Mine(x).regs : Told(x, j, v) => Told(x, j, v)'
      BY <1>12, <2>2, <3>1, <3>2
    <3>4. \A j \in DOMAIN Mine(x).regs : Told(x, j, held[x])'
      BY <3>1, <3>2, <3>3 DEF Told
    <3>5. Flagged(x) => flag' = flag
      BY <1>3, <2>2, <3>1 DEF hit
    <3> QED BY <1>6, <3>1, <3>4, <3>5 DEF HeldInv
  <2> QED BY <2>1, <2>2
<1>16. Bystanders'
  <2> SUFFICES ASSUME NEW q \in Regs(scene), q \notin spoilt'
               PROVE  chip'[q] \ OwnedIn(scene, q) = base[q] \ OwnedIn(scene, q)
    BY <1>3 DEF Bystanders
  <2>1. chip'[q] \ OwnedIn(scene, q) = chip[q] \ OwnedIn(scene, q)
    BY <1>2, <1>4
  <2> QED BY <1>6, <1>7, <2>1 DEF Bystanders
<1> QED BY <1>8, <1>9, <1>10, <1>11, <1>14, <1>15, <1>16 DEF CpldInv

\* The tables of a driver do not change.
LEMMA TablesStay == ASSUME CpldInv, scene' = scene
    PROVE  /\ \A x \in Users : /\ Mine(x)' = Mine(x) /\ ReadPos(x)' = ReadPos(x)
                               /\ ReadReg(x)' = ReadReg(x) /\ Flagged(x)' = Flagged(x)
           /\ PlaceInv /\ BytesInv /\ UserReadInv /\ ProbeReadInv /\ CleanInv /\ HeldInv
           /\ Bystanders /\ Probe \notin Users
           /\ \A x \in Users : Mine(x) \in Attrs(scene) /\ Exact(x)
<1>1. Probe \notin Users /\ PlaceInv /\ BytesInv /\ UserReadInv /\ ProbeReadInv /\ CleanInv
      /\ HeldInv /\ Bystanders /\ \A x \in Users : Mine(x) \in Attrs(scene) /\ Exact(x)
  BY Tables DEF CpldInv, PlaceInv
<1>2. \A x \in Users : Mine(x)' = Mine(x)
  BY DEF Mine
<1>3. \A x \in Users : ReadPos(x)' = ReadPos(x)
  BY DEF ReadPos, Mine
<1>4. \A x \in Users : ReadReg(x)' = ReadReg(x)
  BY <1>1, <1>2, <1>3 DEF ReadReg
<1>5. \A x \in Users : Flagged(x)' = Flagged(x)
  BY DEF Flagged, Mine
<1> QED BY <1>1, <1>2, <1>3, <1>4, <1>5

\* A step that leaves the registers alone.
LEMMA HardwareSame ==
    ASSUME CpldInv, UNCHANGED <<scene, chip, base, spoilt, probed>>, PlaceInv', BytesInv',
           \A x \in Users :
              /\ held'[x] # Nothing => held'[x] = held[x] /\ (Flagged(x) => flag' = flag)
              /\ pc'[x] = "write" /\ clean'[x] =>
                    at'[x] = 1 \/ (at'[x] = at[x] /\ val'[x] = val[x] /\ pc[x] = "write" /\ clean[x]),
           UserReadInv', ProbeReadInv'
    PROVE  CpldInv'
<1> USE TablesStay
<1>1. \A x \in Users : \A j, v : Told(x, j, v)' = Told(x, j, v)
  BY DEF Told
<1>2. CleanInv'
  <2> SUFFICES ASSUME NEW x \in Users, pc'[x] = "write", clean'[x], NEW j \in 1..at'[x] - 1
               PROVE  Told(x, j, val[x])'
    BY DEF CleanInv
  <2>1. at'[x] = at[x] /\ val'[x] = val[x] /\ pc[x] = "write" /\ clean[x]
    OBVIOUS
  <2>2. Told(x, j, val[x])
    BY <2>1 DEF CleanInv
  <2> QED BY <1>1, <2>1, <2>2 DEF Told
<1>3. HeldInv'
  <2> SUFFICES ASSUME NEW x \in Users, held'[x] # Nothing
               PROVE  /\ \A j \in DOMAIN Mine(x).regs : Told(x, j, held[x])'
                      /\ Flagged(x) => flag' = held'[x]
    BY DEF HeldInv
  <2>1. held'[x] = held[x]
    OBVIOUS
  <2>2. \A j \in DOMAIN Mine(x).regs : Told(x, j, held[x])
    BY <2>1 DEF HeldInv
  <2>3. \A j \in DOMAIN Mine(x).regs : Told(x, j, held[x])'
    BY <1>1, <2>1, <2>2 DEF Told
  <2> QED BY <2>1, <2>3 DEF HeldInv
<1>4. Bystanders'
  BY DEF Bystanders
<1> QED BY <1>2, <1>3, <1>4 DEF CpldInv

LEMMA AcceptKeeps == ASSUME CpldInv, NEW u \in Users, Accept(u) PROVE CpldInv'
<1>1. PICK v \in scene.values[u] : /\ v <= Mine(u).max \/ Mine(u).named
                                   /\ val' = [val EXCEPT ![u] = v]
  BY DEF Accept
<1>2. /\ pc[u] = "idle" /\ at' = [at EXCEPT ![u] = 1]
      /\ pc' = [pc EXCEPT ![u] = IF Reads(Mine(u)) THEN "read" ELSE "write"]
      /\ UNCHANGED <<hw, got, faults, ghosts>>
  BY DEF Accept
<1>3. /\ scene' = scene /\ chip' = chip /\ flag' = flag /\ probed' = probed /\ got' = got
      /\ stale' = stale /\ garbled' = garbled /\ clean' = clean /\ held' = held
      /\ base' = base /\ spoilt' = spoilt
  BY <1>2 DEF hw, ghosts
<1> USE TablesStay
<1>4. /\ v \in Nat /\ Settable(Mine(u)) /\ scene.agree = {}
      /\ Mine(u).named => Reads(Mine(u))
      /\ 1 \in DOMAIN Mine(u).regs
  <2>1. v \in Nat /\ Settable(Mine(u)) /\ scene.agree = {}
    <3>1. scene \in Scenes /\ scene.values[u] # {}
      BY <1>1, <1>3 DEF PlaceInv
    <3> QED BY <3>1, Tables
  <2>2. Mine(u).named => Reads(Mine(u))
    BY <1>3 DEF Exact, ExactAttr, Reads, ReadAt
  <2>3. 1 \in DOMAIN Mine(u).regs
    BY <1>3, Shape
  <2> QED BY <2>1, <2>2, <2>3
<1>5. /\ \A x \in Users \ {u} : pc'[x] = pc[x] /\ at'[x] = at[x] /\ val'[x] = val[x]
      /\ at'[u] = 1 /\ val'[u] = v /\ pc'[Probe] = pc[Probe]
      /\ pc'[u] = IF Reads(Mine(u)) THEN "read" ELSE "write"
  BY <1>1, <1>2, <1>3 DEF BytesInv, Writers
<1>6. PlaceInv'
  <2>1. ASSUME NEW x \in Users
        PROVE  /\ pc'[x] \in {"idle", "read", "write"}
               /\ pc'[x] # "idle" => Settable(Mine(x)') /\ scene'.agree = {}
               /\ pc'[x] = "read" => Reads(Mine(x)') /\ at'[x] = 1
               /\ pc'[x] = "write" => val'[x] <= Mine(x)'.max
               /\ at'[x] \in DOMAIN Mine(x)'.regs
               /\ val'[x] \in Nat /\ (pc'[x] # "idle" => val'[x] \in scene'.values[x])
               /\ held'[x] # Nothing => Settable(Mine(x)') /\ scene'.agree = {}
    <3>1. CASE x = u
      BY <1>1, <1>3, <1>4, <1>5, <3>1 DEF PlaceInv
    <3>2. CASE x # u
      BY <1>3, <1>5, <3>2 DEF PlaceInv
    <3> QED BY <3>1, <3>2
  <2>2. /\ scene' \in Scenes /\ probed' \in 0..Len(scene'.probe)
        /\ pc'[Probe] = "read" => Probing' /\ Pending'.keeps # None
    BY <1>3, <1>5 DEF PlaceInv, Probing, Pending
  <2> QED BY <1>3, <2>1, <2>2 DEF PlaceInv, Settable, Reads, ReadAt
<1>7. BytesInv'
  BY <1>1, <1>2, <1>3 DEF BytesInv, Writers
<1>8. UserReadInv'
  <2>1. \A x \in Users : Using(x)' => x # u /\ Using(x)
    BY <1>3, <1>5 DEF Using
  <2> QED BY <1>3, <2>1 DEF UserReadInv
<1>9. ProbeReadInv'
  BY <1>3, <1>5 DEF ProbeReadInv, HasRead, ProbeReads, Pending, Probing
<1> QED BY <1>3, <1>5, <1>6, <1>7, <1>8, <1>9, HardwareSame

LEMMA RefuseKeeps == ASSUME CpldInv, NEW u \in Users, Refuse(u) PROVE CpldInv'
<1>1. UNCHANGED <<scene, chip, flag, probed, pc, val, at, got, stale, garbled, clean, held, base, spoilt>>
  BY DEF Refuse, hw, ghosts
<1> USE TablesStay
<1>2. PlaceInv' /\ BytesInv'
  BY <1>1 DEF PlaceInv, BytesInv, Probing, Pending
<1>3. UserReadInv'
  BY <1>1 DEF UserReadInv, Using
<1>4. ProbeReadInv'
  BY <1>1 DEF ProbeReadInv, HasRead, ProbeReads, Pending, Probing
<1> QED BY <1>1, <1>2, <1>3, <1>4, HardwareSame

LEMMA ReadBackKeeps == ASSUME CpldInv, NEW u \in Users, ReadBack(u) PROVE CpldInv'
<1>1. PICK failed \in BOOLEAN, byte \in Errors \cup {chip[ReadReg(u)]} :
           /\ ~ failed => byte = chip[ReadReg(u)]
           /\ failed => byte \in Errors
           /\ got' = [got EXCEPT ![u] = byte]
           /\ stale' = [stale EXCEPT ![u] = {}]
           /\ garbled' = [garbled EXCEPT ![u] = failed]
  BY DEF ReadBack, ReadReturns
<1>2. /\ pc[u] = "read" /\ pc' = [pc EXCEPT ![u] = IF val[u] > Mine(u).max THEN "idle" ELSE "write"]
      /\ UNCHANGED <<scene, chip, flag, probed, val, at, clean, held, base, spoilt>>
  BY DEF ReadBack, hw
<1> USE TablesStay
<1>3. /\ Settable(Mine(u)) /\ Reads(Mine(u)) /\ at[u] = 1 /\ Mine(u).max \in Int /\ val[u] \in Nat
  BY <1>2 DEF PlaceInv, Exact, ExactAttr
<1>4. ReadReg(u) \in Regs(scene)
  <2>1. ReadPos(u) \in DOMAIN Mine(u).regs
    BY <1>2, <1>3, ReadPlace
  <2> QED BY <1>2, <2>1, Registers DEF ReadReg
<1>5. byte \subseteq Bit
  BY <1>1, <1>2, <1>4, BoundsAssumption DEF BytesInv
<1>6. /\ \A x \in Writers \ {u} : pc'[x] = pc[x] /\ got'[x] = got[x] /\ stale'[x] = stale[x]
                                  /\ garbled'[x] = garbled[x]
      /\ got'[u] = byte /\ garbled'[u] = failed
      /\ pc'[u] = IF val[u] > Mine(u).max THEN "idle" ELSE "write"
  BY <1>1, <1>2 DEF BytesInv, Writers
<1>7. PlaceInv'
  <2>1. ASSUME NEW x \in Users
        PROVE  /\ pc'[x] \in {"idle", "read", "write"}
               /\ pc'[x] # "idle" => Settable(Mine(x)') /\ scene'.agree = {} /\ val'[x] \in scene'.values[x]
               /\ pc'[x] = "read" => Reads(Mine(x)') /\ at'[x] = 1
               /\ pc'[x] = "write" => val'[x] <= Mine(x)'.max
    <3>1. CASE x = u
      BY <1>2, <1>3, <1>6, <3>1 DEF PlaceInv
    <3>2. CASE x # u
      BY <1>2, <1>6, <3>2 DEF PlaceInv, Writers
    <3> QED BY <3>1, <3>2
  <2>2. pc'[Probe] = pc[Probe]
    BY <1>2, <1>6 DEF Writers
  <2>3. pc'[Probe] = "read" => Probing' /\ Pending'.keeps # None
    BY <1>2, <2>2 DEF PlaceInv, Probing, Pending
  <2> QED BY <1>2, <2>1, <2>3 DEF PlaceInv, Settable, Reads, ReadAt
<1>8. BytesInv'
  BY <1>1, <1>2, <1>5 DEF BytesInv
<1>9. UserReadInv'
  <2> SUFFICES ASSUME NEW x \in Users, Using(x)'
               PROVE  /\ stale'[x] = {} => got'[x] = chip[ReadReg(x)]
                      /\ "probe" \notin stale'[x] /\ ReadReg(x) \notin spoilt =>
                            got'[x] \ OwnedIn(scene, ReadReg(x)) = chip[ReadReg(x)] \ OwnedIn(scene, ReadReg(x))
    BY <1>2 DEF UserReadInv
  <2>1. CASE x = u
    BY <1>1, <1>6, <2>1 DEF Using
  <2>2. CASE x # u
    <3>1. Using(x) /\ got'[x] = got[x] /\ stale'[x] = stale[x]
      BY <1>2, <1>6, <2>2 DEF Using, Writers
    <3> QED BY <1>2, <3>1 DEF UserReadInv
  <2> QED BY <2>1, <2>2
<1>10. ProbeReadInv'
  <2>1. Probe \in Writers \ {u}
    BY <1>2 DEF Writers
  <2> QED BY <1>2, <1>6, <2>1 DEF ProbeReadInv, HasRead, ProbeReads, Pending, Probing
<1> QED BY <1>2, <1>3, <1>6, <1>7, <1>8, <1>9, <1>10, HardwareSame DEF Writers

LEMMA ProbeReadKeeps == ASSUME CpldInv, ProbeRead PROVE CpldInv'
<1>1. PICK failed \in BOOLEAN, byte \in Errors \cup {chip[ReadReg(Probe)]} :
           /\ ~ failed => byte = chip[ReadReg(Probe)]
           /\ failed => byte \in Errors
           /\ got' = [got EXCEPT ![Probe] = byte]
           /\ stale' = [stale EXCEPT ![Probe] = {}]
           /\ garbled' = [garbled EXCEPT ![Probe] = failed]
  BY DEF ProbeRead, ReadReturns
<1>2. /\ pc[Probe] = "read" /\ pc' = [pc EXCEPT ![Probe] = "write"]
      /\ UNCHANGED <<scene, chip, flag, probed, val, at, clean, held, base, spoilt>>
  BY DEF ProbeRead, hw
<1> USE TablesStay
<1>3. /\ Probing /\ Pending \in [reg : Regs(scene), byte : SUBSET Bit, keeps : SUBSET Bit]
      /\ ReadReg(Probe) = Pending.reg
  <2>1. Probing /\ probed + 1 \in 1..Len(scene.probe)
    BY <1>2 DEF PlaceInv, Probing
  <2>2. scene.probe \in Seq([reg : Regs(scene), byte : SUBSET Bit, keeps : SUBSET Bit])
    BY <1>2, Tables DEF PlaceInv
  <2> QED BY <2>1, <2>2, PendingType DEF ReadReg
<1>4. byte \subseteq Bit
  BY <1>1, <1>2, <1>3, BoundsAssumption DEF BytesInv
<1>5. /\ \A x \in Users : pc'[x] = pc[x] /\ got'[x] = got[x] /\ stale'[x] = stale[x]
                          /\ garbled'[x] = garbled[x]
      /\ got'[Probe] = byte /\ garbled'[Probe] = failed /\ pc'[Probe] = "write"
  BY <1>1, <1>2 DEF BytesInv, Writers
<1>6. PlaceInv'
  BY <1>2, <1>5 DEF PlaceInv, Settable, Reads, ReadAt
<1>7. BytesInv'
  BY <1>1, <1>2, <1>4 DEF BytesInv
<1>8. UserReadInv'
  <2>1. \A x \in Users : Using(x)' => Using(x)
    BY <1>2, <1>5 DEF Using
  <2> QED BY <1>2, <1>5, <2>1 DEF UserReadInv
<1>9. ProbeReadInv'
  BY <1>1, <1>2, <1>3, <1>5 DEF ProbeReadInv, HasRead, ProbeReads, Pending, Probing
<1> QED BY <1>2, <1>5, <1>6, <1>7, <1>8, <1>9, HardwareSame

LEMMA ProbeEndKeeps == ASSUME CpldInv, ProbeEnd PROVE CpldInv'
<1> DEFINE notes == \E x \in Users : Mine(x).noted
<1>1. /\ pc' = [pc EXCEPT ![Probe] = "done"]
      /\ UNCHANGED <<scene, chip, probed, val, at, got, stale, garbled, base, spoilt>>
      /\ flag' = IF notes THEN 1 ELSE flag
      /\ clean' = [x \in Users |-> clean[x] /\ ~ (notes /\ Flagged(x))]
      /\ held' = [x \in Users |-> IF notes /\ Flagged(x) THEN Nothing ELSE held[x]]
  BY DEF ProbeEnd
<1> USE TablesStay
<1>2. (\A x \in Users : pc'[x] = pc[x]) /\ pc'[Probe] = "done"
  BY <1>1 DEF BytesInv, Writers
<1>3. /\ \A x \in Users : held'[x] # Nothing => held'[x] = held[x] /\ (Flagged(x) => flag' = flag)
      /\ \A x \in Users : clean'[x] => clean[x]
  BY <1>1
<1>4. PlaceInv'
  BY <1>1, <1>2, <1>3 DEF PlaceInv, Settable, Reads, ReadAt
<1>5. BytesInv'
  BY <1>1 DEF BytesInv, Writers
<1>6. UserReadInv'
  BY <1>1, <1>2 DEF UserReadInv, Using
<1>7. ProbeReadInv'
  BY <1>2 DEF ProbeReadInv, HasRead
<1> QED BY <1>1, <1>2, <1>3, <1>4, <1>5, <1>6, <1>7, HardwareSame

\* Pins of a module only change where no attribute is written and probe does
\* not write.
LEMMA PlugKeeps == ASSUME CpldInv, Plug PROVE CpldInv'
<1> DEFINE Flip(f, r, b) == [f EXCEPT ![r] = IF b \in @ THEN @ \ {b} ELSE @ \cup {b}]
<1>1. UNCHANGED <<scene, flag, probed, pc, val, at, got, calls, faults,
                  stale, garbled, clean, held, spoilt>>
  BY DEF Plug
<1> USE TablesStay
<1>2. PICK p \in scene.agree : \E cell \in {p[1], p[2]} :
        chip' = Flip(chip, cell[1], cell[2]) /\ base' = Flip(base, cell[1], cell[2])
  BY DEF Plug
<1>c. PICK cell \in {p[1], p[2]} :
        chip' = Flip(chip, cell[1], cell[2]) /\ base' = Flip(base, cell[1], cell[2])
  BY <1>2
<1>3. /\ scene.agree # {} /\ cell[1] \in Regs(scene) /\ cell[2] \in Bit
      /\ scene.probe = <<>>
  BY <1>1, <1>2, <1>c, Tables DEF PlaceInv
<1>4. \A x \in Users : pc[x] = "idle" /\ held[x] = Nothing
  BY <1>1, <1>3 DEF PlaceInv
<1>5. ~ HasRead(Probe)
  BY <1>1, <1>3 DEF HasRead, ProbeReads, Probing, PlaceInv
<1>6. PlaceInv'
  BY <1>1 DEF PlaceInv, Settable, Reads, ReadAt, Probing, Pending
<1>7. BytesInv'
  BY <1>1, <1>c, <1>3 DEF BytesInv
<1>8. UserReadInv' /\ CleanInv' /\ HeldInv'
  BY <1>1, <1>4 DEF UserReadInv, Using, CleanInv, HeldInv
<1>9. ProbeReadInv'
  BY <1>1, <1>5 DEF ProbeReadInv, HasRead, ProbeReads, Probing, Pending
<1>10. Bystanders'
  <2> SUFFICES ASSUME NEW q \in Regs(scene), q \notin spoilt
               PROVE  chip'[q] \ OwnedIn(scene, q) = base'[q] \ OwnedIn(scene, q)
    BY <1>1 DEF Bystanders
  <2>1. chip[q] \ OwnedIn(scene, q) = base[q] \ OwnedIn(scene, q)
    BY <1>1 DEF Bystanders
  <2>2. chip \in [Regs(scene) -> SUBSET Bit] /\ base \in [Regs(scene) -> SUBSET Bit]
    BY <1>1 DEF BytesInv
  <2>3. CASE q # cell[1]
    BY <1>c, <2>1, <2>2, <2>3
  <2>4. CASE q = cell[1]
    <3> DEFINE O == OwnedIn(scene, q)
               b == cell[2]
    <3>1. /\ chip'[q] = IF b \in chip[q] THEN chip[q] \ {b} ELSE chip[q] \cup {b}
          /\ base'[q] = IF b \in base[q] THEN base[q] \ {b} ELSE base[q] \cup {b}
      BY <1>c, <2>2, <2>4
    <3> HIDE DEF O, b
    <3>2. chip[q] \ O = base[q] \ O
      BY <2>1 DEF O
    <3>3. chip'[q] \ O = base'[q] \ O
      BY <3>1, <3>2
    <3> QED BY <3>3 DEF O
  <2> QED BY <2>3, <2>4
<1> QED BY <1>6, <1>7, <1>8, <1>9, <1>10 DEF CpldInv

\* What probe writes is its own byte and, of a register that it read, the bits
\* that it keeps.
LEMMA ProbeWriteKeeps == ASSUME CpldInv, ProbeWrite PROVE CpldInv'
<1> DEFINE r == Pending.reg
           K == Pending.keeps
           B == Pending.byte
           own == Bit \ K
           bad(failed) == ~ failed /\ Misread(Probe)
           hit(failed) == {x \in Users : ~ failed /\ Hit(Probe, x, r, own, bad(failed))}
           old == IF scene.mmio THEN chip[r] ELSE got[Probe]
           new == B \cup (old \cap K)
<1>1. PICK failed \in BOOLEAN :
        /\ Written(Probe, r, new, failed)
        /\ clean' = [x \in Users |-> clean[x] /\ x \notin hit(failed)]
        /\ held' = [x \in Users |-> IF x \in hit(failed) THEN Nothing ELSE held[x]]
        /\ base' = IF failed THEN base ELSE [base EXCEPT ![r] = (@ \ own) \cup B]
        /\ spoilt' = IF failed \/ (bad(failed) /\ garbled[Probe]) THEN spoilt \cup {r}
                     ELSE IF own = Bit THEN spoilt \ {r} ELSE spoilt
  BY DEF ProbeWrite
<1>2. /\ pc[Probe] = "write" /\ Probing /\ probed' = probed + 1
      /\ UNCHANGED <<scene, flag, pc, val, at, got, calls, garbled>>
  BY DEF ProbeWrite
<1> USE TablesStay
<1>3. /\ r \in Regs(scene) /\ K \subseteq Bit /\ B \subseteq Bit /\ B \cap K = {}
      /\ ReadReg(Probe) = r /\ probed + 1 \in 1..Len(scene.probe)
      /\ (probed' \in 1..Len(scene.probe)) /\ (~ scene.mmio => OneReadFirst(scene.probe))
  <2>1. probed + 1 \in 1..Len(scene.probe)
    BY <1>2 DEF PlaceInv, Probing
  <2>2. /\ scene.probe \in Seq([reg : Regs(scene), byte : SUBSET Bit, keeps : SUBSET Bit])
        /\ SetsNoKept(scene.probe) /\ (~ scene.mmio => OneReadFirst(scene.probe))
    BY <1>2, Tables DEF PlaceInv
  <2>3. Pending \in [reg : Regs(scene), byte : SUBSET Bit, keeps : SUBSET Bit]
    BY <2>1, <2>2, PendingType
  <2>4. B \cap K = {}
    BY <2>1, <2>2 DEF SetsNoKept, Pending, None
  <2> QED BY <1>2, <2>1, <2>2, <2>3, <2>4 DEF ReadReg
<1>4. /\ chip \in [Regs(scene) -> SUBSET Bit] /\ base \in [Regs(scene) -> SUBSET Bit]
      /\ got[Probe] \subseteq Bit /\ stale \in [Writers -> SUBSET {"user", "probe"}]
      /\ Probe \in Writers /\ old \subseteq Bit /\ new \subseteq Bit
  BY <1>2, <1>3 DEF BytesInv, Writers
<1>5. /\ failed => chip' = chip /\ stale' = stale
      /\ ~ failed => /\ chip' = [chip EXCEPT ![r] = new]
                    /\ stale' = [x \in Writers |->
                                    IF x # Probe /\ HasRead(x) /\ ReadReg(x) = r
                                    THEN stale[x] \cup {"probe"} ELSE stale[x]]
  BY <1>1 DEF Written
<1>6. /\ chip' \in [Regs(scene) -> SUBSET Bit] /\ stale' \in [Writers -> SUBSET {"user", "probe"}]
      /\ base' \in [Regs(scene) -> SUBSET Bit] /\ stale'[Probe] = stale[Probe]
      /\ \A q \in Regs(scene) : q # r => chip'[q] = chip[q] /\ base'[q] = base[q]
  <2>1. CASE failed
    BY <1>1, <1>4, <1>5, <2>1
  <2>2. CASE ~ failed
    BY <1>1, <1>3, <1>4, <1>5, <2>2
  <2> QED BY <2>1, <2>2
<1>7. K # {} => scene.mmio \/ HasRead(Probe)
  BY <1>2 DEF HasRead, ProbeReads, None
<1>8. /\ K # {} /\ ~ Misread(Probe) => old \cap K = chip[r] \cap K
      /\ K # {} /\ ~ (Misread(Probe) /\ garbled[Probe]) /\ r \notin spoilt
            => (old \cap K) \ OwnedIn(scene, r) = (chip[r] \cap K) \ OwnedIn(scene, r)
  <2>1. CASE scene.mmio
    BY <2>1
  <2>2. CASE ~ scene.mmio
    <3>1. old = got[Probe]
      BY <2>2
    <3>2. /\ K # {} /\ ~ Misread(Probe) => got[Probe] \cap K = chip[r] \cap K
          /\ K # {} /\ ~ (Misread(Probe) /\ garbled[Probe]) /\ r \notin spoilt
                => (got[Probe] \cap K) \ OwnedIn(scene, r) = (chip[r] \cap K) \ OwnedIn(scene, r)
      BY <1>2, <1>7, <2>2 DEF ProbeReadInv, Misread
    <3> QED BY <3>1, <3>2
  <2> QED BY <2>1, <2>2
<1>9. PlaceInv'
  <2>1. \A x \in Users : held'[x] # Nothing => held[x] # Nothing
    BY <1>1
  <2> QED BY <1>2, <1>3, <2>1 DEF PlaceInv, Settable, Reads, ReadAt, Probing, Pending
<1>10. BytesInv'
  BY <1>1, <1>2, <1>6 DEF BytesInv
<1>11. UserReadInv'
  <2> SUFFICES ASSUME NEW x \in Users, Using(x)
               PROVE  /\ stale'[x] = {} => got[x] = chip'[ReadReg(x)]
                      /\ "probe" \notin stale'[x] /\ ReadReg(x) \notin spoilt' =>
                            got[x] \ OwnedIn(scene, ReadReg(x)) = chip'[ReadReg(x)] \ OwnedIn(scene, ReadReg(x))
    BY <1>2 DEF UserReadInv, Using
  <2>1. x \in Writers /\ x # Probe /\ HasRead(x)
    BY <1>2 DEF Writers, Using, HasRead
  <2>2. ReadReg(x) \in Regs(scene)
    <3>1. ReadPos(x) \in DOMAIN Mine(x).regs
      BY <1>2, ReadPlace DEF Using, PlaceInv
    <3> QED BY <1>2, <2>1, <3>1, Registers DEF ReadReg
  <2>3. CASE failed \/ ReadReg(x) # r
    <3>1. stale'[x] = stale[x]
      BY <1>4, <1>5, <2>1, <2>3
    <3>2. chip'[ReadReg(x)] = chip[ReadReg(x)]
      BY <1>5, <1>6, <2>2, <2>3
    <3>3. ReadReg(x) \notin spoilt' => ReadReg(x) \notin spoilt
      BY <1>1, <2>3
    <3> QED BY <1>2, <3>1, <3>2, <3>3 DEF UserReadInv
  <2>4. CASE ~ failed /\ ReadReg(x) = r
    BY <1>5, <2>1, <2>4
  <2> QED BY <2>3, <2>4
<1>12. ProbeReadInv'
  <2> DEFINE r2 == Pending'.reg
             K2 == Pending'.keeps
  <2> SUFFICES ASSUME HasRead(Probe)', ~ garbled[Probe]
               PROVE  /\ stale[Probe] = {} => got[Probe] \cap K2 = chip'[r2] \cap K2
                      /\ r2 \notin spoilt' => (got[Probe] \cap K2) \ OwnedIn(scene, r2)
                                            = (chip'[r2] \cap K2) \ OwnedIn(scene, r2)
    BY <1>2, <1>6 DEF ProbeReadInv
  <2>1. Probing' /\ K2 # {} /\ ~ scene.mmio
    BY <1>2 DEF HasRead, ProbeReads, None
  <2>2. probed + 2 \in 1..Len(scene.probe) /\ Pending' = scene.probe[probed + 2]
    <3>0. probed \in Int /\ Len(scene.probe) \in Int /\ probed >= 0
      BY <1>2, Tables DEF PlaceInv
    <3>1. probed + 2 \in 1..Len(scene.probe)
      BY <1>2, <2>1, <3>0 DEF Probing
    <3>2. probed' + 1 = probed + 2
      BY <1>2, <3>0
    <3> QED BY <1>2, <3>1, <3>2 DEF Pending
  <2>3. r2 = r /\ K2 = K
    <3> DEFINE p == scene.probe
    <3>1. p[probed + 2].keeps # None
      BY <2>1, <2>2 DEF None
    <3>2. probed + 2 \in DOMAIN p /\ probed + 1 \in 1..(probed + 2)
      <4>1. DOMAIN p = 1..Len(p)
        BY <1>2, Tables DEF PlaceInv
      <4>2. probed \in Int /\ probed >= 0
        BY <1>2 DEF PlaceInv
      <4> QED BY <2>2, <4>1, <4>2
    <3>3. p[probed + 1].reg = p[probed + 2].reg /\ p[probed + 1].keeps = p[probed + 2].keeps
      BY <1>3, <2>1, <3>1, <3>2 DEF OneReadFirst
    <3> QED BY <2>2, <3>3 DEF Pending
  <2> HIDE DEF r2, K2
  <2>4. CASE failed
    <3>1. r \in spoilt'
      BY <1>1, <2>4
    <3> QED BY <1>2, <1>5, <1>7, <2>1, <2>3, <2>4, <3>1 DEF ProbeReadInv
  <2>5. CASE ~ failed
    <3>1. chip'[r] = new
      BY <1>3, <1>4, <1>5, <2>5
    <3>2. chip'[r] \cap K = got[Probe] \cap K
      BY <1>3, <2>1, <3>1
    <3> QED BY <2>3, <3>2
  <2> QED BY <2>4, <2>5
<1>13. ASSUME NEW x \in Users, x \notin hit(failed), Settable(Mine(x)), NEW j \in DOMAIN Mine(x).regs
       PROVE  \A v : Told(x, j, v) => Told(x, j, v)'
  <2> DEFINE q == Mine(x).regs[j]
             T == Telling(Mine(x), j)
  <2>1. q \in RegsOf(Mine(x)) /\ q \in Regs(scene) /\ T \subseteq TellingIn(Mine(x), q) /\ T \subseteq Bit
    BY <1>2, <1>13, Registers, Shape
  <2> SUFFICES chip'[q] \cap T = chip[q] \cap T
    BY <1>2 DEF Told
  <2> HIDE DEF q, T
  <2>3. CASE failed \/ q # r
    BY <1>5, <1>6, <2>1, <2>3
  <2>4. CASE ~ failed /\ q = r
    <3>1. ~ Hit(Probe, x, r, own, bad(failed))
      BY <1>13, <2>4
    <3>2. ~ bad(failed) /\ own \cap TellingIn(Mine(x), r) = {}
      BY <1>2, <2>1, <2>4, <3>1 DEF Hit, None
    <3>3. T \subseteq K
      BY <2>1, <2>4, <3>2
    <3>4. chip'[r] = new
      BY <1>3, <1>4, <1>5, <2>4
    <3>5. chip'[r] \cap T = (old \cap K) \cap T
      BY <1>3, <3>3, <3>4
    <3>6. K # {} => old \cap K = chip[r] \cap K
      BY <1>8, <2>4, <3>2
    <3> QED BY <2>4, <3>3, <3>5, <3>6
  <2> QED BY <2>3, <2>4
<1>14. CleanInv'
  <2> SUFFICES ASSUME NEW x \in Users, pc'[x] = "write", clean'[x], NEW j \in 1..at'[x] - 1
               PROVE  Told(x, j, val[x])'
    BY DEF CleanInv
  <2>1. pc[x] = "write" /\ clean[x] /\ x \notin hit(failed) /\ j \in 1..at[x] - 1
    BY <1>1, <1>2
  <2>2. Told(x, j, val[x]) /\ Settable(Mine(x)) /\ j \in DOMAIN Mine(x).regs
    BY <1>2, <2>1, Shape DEF CleanInv, PlaceInv
  <2>3. \A v : Told(x, j, v) => Told(x, j, v)'
    BY <1>13, <2>1, <2>2
  <2> QED BY <1>2, <2>2, <2>3 DEF Told
<1>15. HeldInv'
  <2> SUFFICES ASSUME NEW x \in Users, held'[x] # Nothing
               PROVE  /\ \A j \in DOMAIN Mine(x).regs : Told(x, j, held[x])'
                      /\ Flagged(x) => flag' = held'[x]
    BY <1>2 DEF HeldInv
  <2>1. held'[x] = held[x] /\ x \notin hit(failed)
    BY <1>1
  <2>2. Settable(Mine(x)) /\ \A j \in DOMAIN Mine(x).regs : Told(x, j, held[x])
    BY <1>2, <2>1 DEF HeldInv, PlaceInv
  <2>3. \A v : \A j \in DOMAIN Mine(x).regs : Told(x, j, v) => Told(x, j, v)'
    BY <1>13, <2>1, <2>2
  <2>4. \A j \in DOMAIN Mine(x).regs : Told(x, j, held[x])'
    BY <2>1, <2>2, <2>3 DEF Told
  <2> QED BY <1>2, <2>1, <2>4 DEF HeldInv
<1>16. Bystanders'
  <2> SUFFICES ASSUME NEW q \in Regs(scene), q \notin spoilt'
               PROVE  chip'[q] \ OwnedIn(scene, q) = base'[q] \ OwnedIn(scene, q)
    BY <1>2 DEF Bystanders
  <2>1. CASE q # r
    <3>1. q \notin spoilt
      BY <1>1, <2>1
    <3> QED BY <1>2, <1>6, <2>1, <3>1 DEF Bystanders
  <2>2. CASE q = r
    <3>1. ~ failed /\ ~ (Misread(Probe) /\ garbled[Probe])
      BY <1>1, <2>2
    <3>2. chip'[r] = new /\ base'[r] = (base[r] \ own) \cup B
      BY <1>1, <1>3, <1>4, <1>5, <3>1
    <3>3. CASE K = {}
      BY <1>3, <1>4, <2>2, <3>2, <3>3
    <3>4. CASE K # {}
      <4>1. own # Bit
        BY <1>3, <3>4
      <4>2. r \notin spoilt
        BY <1>1, <2>2, <3>1, <4>1
      <4>3. (old \cap K) \ OwnedIn(scene, r) = (chip[r] \cap K) \ OwnedIn(scene, r)
        BY <1>8, <3>1, <3>4, <4>2
      <4>4. chip[r] \ OwnedIn(scene, r) = base[r] \ OwnedIn(scene, r)
        BY <1>2, <1>3, <4>2 DEF Bystanders
      <4>5. chip[r] \subseteq Bit /\ base[r] \subseteq Bit
        BY <1>3, <1>4
      <4> QED BY <1>3, <2>2, <3>2, <4>3, <4>4, <4>5
    <3> QED BY <3>3, <3>4
  <2> QED BY <2>1, <2>2
<1> QED BY <1>9, <1>10, <1>11, <1>12, <1>14, <1>15, <1>16 DEF CpldInv

-----------------------------------------------------------------------------
LEMMA DriverStep == ASSUME CpldInv, [Next]_vars PROVE CpldInv'
<1>1. CASE UserStep
  BY <1>1, AcceptKeeps, RefuseKeeps, ReadBackKeeps, WriteBackKeeps DEF UserStep
<1>2. CASE UNCHANGED vars
  <2>1. UNCHANGED <<scene, chip, flag, probed, pc, val, at, got, stale, garbled, clean, held, base, spoilt>>
    BY <1>2 DEF vars, hw, ghosts
  <2>2. PlaceInv' /\ BytesInv'
    BY <2>1, TablesStay DEF PlaceInv, BytesInv, Probing, Pending
  <2>3. UserReadInv' /\ ProbeReadInv'
    BY <2>1, TablesStay DEF UserReadInv, Using, ProbeReadInv, HasRead, ProbeReads, Pending, Probing
  <2> QED BY <2>1, <2>2, <2>3, HardwareSame
<1> QED BY <1>1, <1>2, ProbeReadKeeps, ProbeWriteKeeps, ProbeEndKeeps, PlugKeeps DEF Next

\* Whatever the tables, the interleaving and the failures: what a handler has
\* read is the register's content unless somebody wrote it since, and what is
\* written is what the attributes show.
THEOREM DriverInvariant == Spec => []CpldInv
<1>1. Init => CpldInv
  BY DriverStarts
<1>2. CpldInv /\ [Next]_vars => CpldInv'
  BY DriverStep
<1> QED BY <1>1, <1>2, PTL DEF Spec

\* An attribute shows the last value that was written to it completely, until
\* probe, a store to its own bits, or a read-modify-write with an old or failed
\* read of its register comes between.
THEOREM SettingHoldsAlways == Spec => []SettingHolds
<1>1. CpldInv => SettingHolds
  BY DEF CpldInv, HeldInv, SettingHolds, Shows, Told, Flagged
<1> QED BY <1>1, DriverInvariant, PTL

\* The bits that no user's store replaces stay as probe or the board set them,
\* although store handlers write whole registers without a lock over the read.
THEOREM BystandersAlways == Spec => []Bystanders
<1>1. CpldInv => Bystanders
  BY DEF CpldInv
<1> QED BY <1>1, DriverInvariant, PTL
-----------------------------------------------------------------------------
(***************************************************************************)
(* The types of what the proof above did not need: counters, the flag, and *)
(* the records of settings.                                                *)
(***************************************************************************)
CountsInv ==
    /\ spoilt \subseteq Regs(scene) /\ flag \in 0..1
    /\ calls \in [Users -> 0..Calls] /\ faults \in 0..MaxFaults
    /\ held \in [Users -> Nat \cup {Nothing}] /\ val \in [Users -> Nat]
    /\ at \in [Users -> Nat \ {0}] /\ clean \in [Users -> BOOLEAN]

TypeInv == CpldInv /\ CountsInv

LEMMA FlagIsBinary ==
    ASSUME CpldInv, NEW u \in Users, Flagged(u), pc[u] = "write"
    PROVE  val[u] \in 0..1
<1>1. Exact(u) /\ val[u] \in Nat /\ val[u] <= Mine(u).max
  BY Tables DEF CpldInv, PlaceInv
<1>2. Mine(u).max = 1
  BY <1>1 DEF Exact, ExactAttr, Flagged
<1> QED BY <1>1, <1>2

LEMMA CountsStart == ASSUME Init PROVE TypeInv
<1>1. CpldInv
  BY DriverStarts
<1>2. CountsInv
  <2>1. faults \in 0..MaxFaults
    BY BoundsAssumption DEF Init
  <2> QED BY <2>1, BoundsAssumption DEF Init, CountsInv, Nothing
<1> QED BY <1>1, <1>2 DEF TypeInv

\* One access that may fail.
LEMMA FaultsCounted ==
    ASSUME faults \in 0..MaxFaults,
           \/ faults' = faults
           \/ CanFail /\ faults' = faults - 1
    PROVE  faults' \in 0..MaxFaults
BY BoundsAssumption DEF CanFail

LEMMA AcceptCounts ==
    ASSUME TypeInv, NEW u \in Users, Accept(u) \/ Refuse(u) \/ ReadBack(u)
    PROVE  CountsInv'
<1> USE DEF TypeInv, CountsInv
<1>1. scene.values[u] \subseteq Nat /\ scene \in Scenes
  BY Tables DEF CpldInv, PlaceInv
<1>2. CASE Accept(u)
  <2>1. PICK v \in scene.values[u] : val' = [val EXCEPT ![u] = v]
    BY <1>2 DEF Accept
  <2>2. /\ calls[u] > 0 /\ calls' = [calls EXCEPT ![u] = calls[u] - 1]
        /\ at' = [at EXCEPT ![u] = 1]
        /\ UNCHANGED <<scene, spoilt, flag, faults, held, clean>>
    BY <1>2 DEF Accept, hw, ghosts
  <2>3. calls' \in [Users -> 0..Calls]
    <3>1. calls[u] - 1 \in 0..Calls
      BY <2>2, BoundsAssumption
    <3> QED BY <2>2, <3>1
  <2>4. val' \in [Users -> Nat] /\ at' \in [Users -> Nat \ {0}]
    BY <1>1, <2>1, <2>2
  <2> QED BY <2>2, <2>3, <2>4
<1>3. CASE Refuse(u)
  <2>1. /\ calls[u] > 0 /\ calls' = [calls EXCEPT ![u] = calls[u] - 1]
        /\ UNCHANGED <<scene, spoilt, flag, faults, held, clean, val, at>>
    BY <1>3 DEF Refuse, hw, ghosts
  <2>2. calls[u] - 1 \in 0..Calls
    BY <2>1, BoundsAssumption
  <2>3. calls' \in [Users -> 0..Calls]
    BY <2>1, <2>2
  <2> QED BY <2>1, <2>3
<1>4. CASE ReadBack(u)
  <2>1. /\ UNCHANGED <<scene, spoilt, flag, held, clean, val, at, calls>>
        /\ faults' = faults \/ (CanFail /\ faults' = faults - 1)
    BY <1>4 DEF ReadBack, ReadReturns, hw
  <2>2. faults' \in 0..MaxFaults
    BY <2>1, FaultsCounted
  <2> QED BY <2>1, <2>2
<1> QED BY <1>2, <1>3, <1>4

LEMMA WriteBackCounts ==
    ASSUME TypeInv, NEW u \in Users, WriteBack(u)
    PROVE  CountsInv'
<1> DEFINE a == Mine(u)
           k == at[u]
           r == a.regs[k]
           bad(f) == ~ f /\ k \in ReadAt(a) /\ Misread(u)
           hit(f) == {x \in Users :
                        \/ ~ f /\ Hit(u, x, r, a.clears[k], bad(f))
                        \/ x # u /\ LastWrite(u) /\ Flagged(u) /\ Flagged(x)}
           whole(f) == ~ f /\ (k = 1 \/ clean[u])
<1>1. pc[u] = "write" /\ CpldInv /\ CountsInv
  BY DEF WriteBack, TypeInv
<1>2. /\ k \in DOMAIN a.regs /\ Mine(u) \in Attrs(scene)
      /\ val[u] \in Nat
  BY <1>1, Tables DEF CpldInv, PlaceInv
<1>3. r \in Regs(scene)
  BY <1>2, Registers
<1>4. PICK f \in BOOLEAN :
         /\ Written(u, r, NewByte(u), f)
         /\ clean' = [x \in Users |-> IF x = u THEN whole(f) ELSE clean[x] /\ x \notin hit(f)]
         /\ held' = [x \in Users |->
                        IF x = u THEN IF LastWrite(u) /\ whole(f) THEN val[u] ELSE Nothing
                        ELSE IF x \in hit(f) THEN Nothing ELSE held[x]]
         /\ spoilt' = IF bad(f) /\ (garbled[u] \/ "probe" \in stale[u])
                      THEN spoilt \cup {r} ELSE spoilt
  BY DEF WriteBack
<1> HIDE DEF bad, hit
<1>5. /\ flag' = flag \/ (Flagged(u) /\ flag' = val[u])
      /\ at' = at \/ at' = [at EXCEPT ![u] = at[u] + 1]
      /\ UNCHANGED <<scene, val, calls>>
  BY DEF WriteBack
<1>6. faults' = faults \/ (CanFail /\ faults' = faults - 1)
  BY <1>4 DEF Written
<1>7. faults' \in 0..MaxFaults
  BY <1>1, <1>6, FaultsCounted DEF CountsInv
<1>8. flag' \in 0..1
  BY <1>1, <1>5, FlagIsBinary DEF CountsInv
<1>9. at' \in [Users -> Nat \ {0}]
  BY <1>1, <1>5 DEF CountsInv
<1>10. whole(f) \in BOOLEAN
  BY Zenon
<1> HIDE DEF whole
<1>11. clean' \in [Users -> BOOLEAN]
  <2>1. ASSUME NEW x \in Users
        PROVE  (IF x = u THEN whole(f) ELSE clean[x] /\ x \notin hit(f)) \in BOOLEAN
    BY <1>10, Zenon
  <2> QED BY <1>4, <2>1, Zenon
<1>12. held' \in [Users -> Nat \cup {Nothing}]
  <2>1. ASSUME NEW x \in Users
        PROVE  (IF x = u THEN IF LastWrite(u) /\ whole(f) THEN val[u] ELSE Nothing
                ELSE IF x \in hit(f) THEN Nothing ELSE held[x]) \in Nat \cup {Nothing}
    <3>1. held[x] \in Nat \cup {Nothing}
      BY <1>1 DEF CountsInv
    <3> QED BY <1>2, <3>1, Zenon
  <2> QED BY <1>4, <2>1, Zenon
<1>13. spoilt' \subseteq Regs(scene)
  BY <1>1, <1>3, <1>4 DEF CountsInv
<1> QED BY <1>1, <1>5, <1>7, <1>8, <1>9, <1>11, <1>12, <1>13 DEF CountsInv

LEMMA ProbeCounts ==
    ASSUME TypeInv, ProbeRead \/ ProbeEnd \/ Plug
    PROVE  CountsInv'
<1>1. CountsInv
  BY DEF TypeInv
<1>2. CASE ProbeRead
  <2>1. /\ UNCHANGED <<scene, spoilt, flag, held, clean, val, at, calls>>
        /\ faults' = faults \/ (CanFail /\ faults' = faults - 1)
    BY <1>2 DEF ProbeRead, ReadReturns, hw
  <2>2. faults' \in 0..MaxFaults
    BY <1>1, <2>1, FaultsCounted DEF CountsInv
  <2> QED BY <1>1, <2>1, <2>2 DEF CountsInv
<1>3. CASE ProbeEnd
  <2>1. PICK noted :
          /\ clean' = [x \in Users |-> clean[x] /\ x \notin noted]
          /\ held' = [x \in Users |-> IF x \in noted THEN Nothing ELSE held[x]]
          /\ flag' = flag \/ flag' = 1
    BY <1>3 DEF ProbeEnd
  <2>2. UNCHANGED <<scene, val, at, calls, faults, spoilt>>
    BY <1>3 DEF ProbeEnd
  <2>3. clean' \in [Users -> BOOLEAN]
    BY <2>1, Zenon
  <2>4. held' \in [Users -> Nat \cup {Nothing}] /\ flag' \in 0..1
    BY <1>1, <2>1 DEF CountsInv
  <2> QED BY <1>1, <2>2, <2>3, <2>4 DEF CountsInv
<1>4. CASE Plug
  <2>1. UNCHANGED <<scene, flag, val, at, calls, faults, clean, held, spoilt>>
    BY <1>4 DEF Plug
  <2> QED BY <1>1, <2>1 DEF CountsInv
<1> QED BY <1>2, <1>3, <1>4

\* The register that probe writes next.
LEMMA PendingPlace ==
    ASSUME CpldInv, Probing
    PROVE  /\ probed + 1 \in 1..Len(scene.probe) /\ Len(scene.probe) \in Nat /\ probed \in Nat
           /\ Pending.reg \in Regs(scene) /\ Pending.keeps \subseteq Bit
           /\ Pending.byte \subseteq Bit /\ Pending.byte \cap Pending.keeps = {}
<1>1. /\ scene.probe \in Seq([reg : Regs(scene), byte : SUBSET Bit, keeps : SUBSET Bit])
      /\ SetsNoKept(scene.probe) /\ probed \in 0..Len(scene.probe)
  BY Tables DEF CpldInv, PlaceInv
<1>2. probed + 1 \in 1..Len(scene.probe) /\ Len(scene.probe) \in Nat /\ probed \in Nat
  BY <1>1 DEF Probing
<1>3. Pending \in [reg : Regs(scene), byte : SUBSET Bit, keeps : SUBSET Bit]
  BY <1>1, <1>2, PendingType
<1>4. Pending.byte \cap Pending.keeps = {}
  BY <1>1, <1>2 DEF SetsNoKept, Pending, None
<1> QED BY <1>2, <1>3, <1>4

LEMMA ProbeWriteCounts ==
    ASSUME TypeInv, ProbeWrite PROVE CountsInv'
<1>1. CpldInv /\ CountsInv /\ Probing
  BY DEF TypeInv, ProbeWrite
<1>2. PICK failed, hit, byte :
         /\ Written(Probe, Pending.reg, byte, failed)
         /\ clean' = [x \in Users |-> clean[x] /\ x \notin hit]
         /\ held' = [x \in Users |-> IF x \in hit THEN Nothing ELSE held[x]]
         /\ spoilt' \in {spoilt, spoilt \cup {Pending.reg}, spoilt \ {Pending.reg}}
  BY DEF ProbeWrite
<1>3. UNCHANGED <<scene, flag, val, at, calls>>
  BY DEF ProbeWrite
<1>4. faults' \in 0..MaxFaults
  BY <1>1, <1>2, FaultsCounted DEF Written, CountsInv
<1>5. clean' \in [Users -> BOOLEAN]
  BY <1>2, Zenon
<1>6. held' \in [Users -> Nat \cup {Nothing}]
  BY <1>1, <1>2 DEF CountsInv
<1>7. spoilt' \subseteq Regs(scene)
  BY <1>1, <1>2, PendingPlace DEF CountsInv
<1> QED BY <1>1, <1>3, <1>4, <1>5, <1>6, <1>7 DEF CountsInv

\* The types of the driver's state, of the handlers' places and of the values.
THEOREM DriverTypes == Spec => []TypeOK
<1>1. Init => TypeInv
  BY CountsStart
<1>2. TypeInv /\ [Next]_vars => TypeInv'
  <2> SUFFICES ASSUME TypeInv, [Next]_vars PROVE TypeInv'
    OBVIOUS
  <2>1. CpldInv'
    BY DriverStep DEF TypeInv
  <2>2. CASE UNCHANGED vars
    <3>1. UNCHANGED <<scene, spoilt, flag, calls, faults, held, val, at, clean>>
      BY <2>2 DEF vars, hw, ghosts
    <3>2. CountsInv'
      BY <3>1 DEF CountsInv, TypeInv
    <3> QED BY <2>1, <3>2 DEF TypeInv
  <2>3. CASE UserStep
    BY <2>1, <2>3, AcceptCounts, WriteBackCounts DEF UserStep, TypeInv
  <2>4. CASE ProbeRead \/ ProbeEnd \/ Plug
    BY <2>1, <2>4, ProbeCounts DEF TypeInv
  <2>5. CASE ProbeWrite
    BY <2>1, <2>5, ProbeWriteCounts DEF TypeInv
  <2> QED BY <2>2, <2>3, <2>4, <2>5 DEF Next
<1>3. TypeInv => TypeOK
  <2> SUFFICES ASSUME TypeInv PROVE TypeOK
    OBVIOUS
  <2>1. PlaceInv /\ BytesInv /\ CountsInv
    BY DEF TypeInv, CpldInv
  <2>2. \A u \in Users : at[u] <= Len(Mine(u).regs)
    BY <2>1, Tables, Shape DEF PlaceInv
  <2> QED BY <2>1, <2>2 DEF PlaceInv, BytesInv, CountsInv, TypeOK
<1> QED BY <1>1, <1>2, <1>3, PTL DEF Spec

-----------------------------------------------------------------------------
(***************************************************************************)
(* The pins of the ports.  Write i of a probe function settles a pin when  *)
(* it and every later write to the pin leave it as Sfp.reset() does.       *)
(***************************************************************************)
Covers(s, i, c)  == s.probe[i].reg = c.reg /\ c.bit \notin s.probe[i].keeps
Right(c, byte)   == (c.bit \in byte) = c.on
Settles(s, i, c) ==
    /\ Covers(s, i, c)
    /\ \A j \in DOMAIN s.probe : j >= i /\ Covers(s, j, c) => Right(c, s.probe[j].byte)

\* A table whose probe writes settle the pins that no attribute in use owns.
Releases(s) == \A c \in s.rest :
    c.bit \notin OwnedIn(s, c.reg) => \E i \in DOMAIN s.probe : Settles(s, i, c)

RestInv == \A c \in scene.rest : \A i \in 1..probed :
    Settles(scene, i, c) /\ c.reg \notin spoilt => Right(c, base[c.reg])

LEMMA RightMoves ==
    ASSUME NEW c, NEW X, NEW Y, c.bit \in X <=> c.bit \in Y, Right(c, X)
    PROVE  Right(c, Y)
<1>1. (c.bit \in X) = (c.bit \in Y)
  OBVIOUS
<1> QED BY <1>1 DEF Right

LEMMA RestStarts == ASSUME Init PROVE RestInv
BY DEF Init, RestInv

\* Only probe, the hardware and failures change what is known of a pin.
LEMMA RestUntouched ==
    ASSUME RestInv, UNCHANGED <<scene, probed, base>>, spoilt \subseteq spoilt'
    PROVE  RestInv'
BY DEF RestInv, Settles, Covers, Right

LEMMA RestPlug == ASSUME CpldInv, Plug PROVE RestInv'
<1>1. scene.agree # {} /\ UNCHANGED <<scene, probed>>
  BY DEF Plug
<1>2. scene.probe = <<>> /\ probed \in 0..Len(scene.probe)
  BY <1>1, Tables DEF CpldInv, PlaceInv
<1>3. probed = 0
  BY <1>2
<1> QED BY <1>1, <1>3 DEF RestInv

LEMMA RestWritten == ASSUME CpldInv, RestInv, ProbeWrite PROVE RestInv'
<1> DEFINE r == Pending.reg
           own == Bit \ Pending.keeps
<1>1. Probing /\ probed' = probed + 1 /\ scene' = scene
  BY DEF ProbeWrite
<1>2. /\ probed + 1 \in 1..Len(scene.probe) /\ Len(scene.probe) \in Nat /\ probed \in Nat
      /\ r \in Regs(scene) /\ Pending.keeps \subseteq Bit
      /\ Pending.byte \subseteq Bit /\ Pending.byte \cap Pending.keeps = {}
  BY <1>1, PendingPlace
<1>3. PICK failed \in BOOLEAN, bad \in BOOLEAN :
         /\ base' = IF failed THEN base ELSE [base EXCEPT ![r] = (base[r] \ own) \cup Pending.byte]
         /\ spoilt' = IF failed \/ bad THEN spoilt \cup {r}
                      ELSE IF own = Bit THEN spoilt \ {r} ELSE spoilt
  <2>1. PICK failed \in BOOLEAN :
         /\ base' = IF failed THEN base ELSE [base EXCEPT ![r] = (base[r] \ own) \cup Pending.byte]
         /\ spoilt' = IF failed \/ ((~ failed /\ Misread(Probe)) /\ garbled[Probe])
                      THEN spoilt \cup {r}
                      ELSE IF own = Bit THEN spoilt \ {r} ELSE spoilt
    BY DEF ProbeWrite
  <2>2. ((~ failed /\ Misread(Probe)) /\ garbled[Probe]) \in BOOLEAN
    BY Zenon
  <2> QED BY <2>1, <2>2, Zenon
<1>4. base \in [Regs(scene) -> SUBSET Bit]
  BY DEF CpldInv, BytesInv
<1>5. SUFFICES ASSUME NEW c \in scene.rest, NEW i \in 1..probed + 1, Settles(scene, i, c),
                      c.reg \notin spoilt'
               PROVE  Right(c, base'[c.reg])
  BY <1>1 DEF RestInv, Settles, Covers, Right
<1>6. scene.rest \subseteq [reg : Regs(scene), bit : Bit, on : BOOLEAN]
  BY SceneAssumption DEF CpldInv, PlaceInv
<1>7. c.reg \in Regs(scene) /\ c.bit \in Bit
  BY <1>6
<1>8. Pending = scene.probe[probed + 1] /\ DOMAIN scene.probe = 1..Len(scene.probe)
  BY Tables DEF Pending, CpldInv, PlaceInv
<1> HIDE DEF r, own
<1>9. CASE c.reg # r
  <2>1. c.reg \notin spoilt /\ base'[c.reg] = base[c.reg]
    BY <1>2, <1>3, <1>4, <1>5, <1>7, <1>9
  <2>2. i # probed + 1
    BY <1>5, <1>8, <1>9 DEF Settles, Covers, r
  <2>3. i \in 1..probed
    BY <1>2, <2>2
  <2> QED BY <1>5, <2>1, <2>3 DEF RestInv
<1>10. CASE c.reg = r
  <2>1. ~ failed /\ ~ bad
    BY <1>3, <1>5, <1>10
  <2>2. base'[c.reg] = (base[c.reg] \ own) \cup Pending.byte
    BY <1>2, <1>3, <1>4, <1>10, <2>1
  <2>3. CASE c.bit \in own
    <3>1. Covers(scene, probed + 1, c)
      BY <1>8, <1>10, <2>3 DEF Covers, own, r
    <3>2. Right(c, Pending.byte)
      <4>1. probed + 1 \in DOMAIN scene.probe /\ probed + 1 >= i
        BY <1>2, <1>8
      <4> QED BY <1>5, <1>8, <3>1, <4>1 DEF Settles
    <3>3. c.bit \in Pending.byte <=> c.bit \in base'[c.reg]
      BY <2>2, <2>3
    <3> QED BY <3>2, <3>3, RightMoves, Zenon
  <2>4. CASE c.bit \notin own
    <3>1. c.bit \in Pending.keeps /\ own # Bit
      BY <1>7, <2>4 DEF own
    <3>2. c.bit \notin Pending.byte /\ i # probed + 1
      BY <1>2, <1>5, <1>8, <3>1 DEF Settles, Covers
    <3>3. i \in 1..probed /\ c.reg \notin spoilt
      BY <1>2, <1>3, <1>5, <2>1, <3>1, <3>2
    <3>4. Right(c, base[c.reg])
      BY <1>5, <3>3 DEF RestInv
    <3>5. c.bit \in base[c.reg] <=> c.bit \in base'[c.reg]
      BY <2>2, <2>4, <3>2
    <3> QED BY <3>4, <3>5, RightMoves, Zenon
  <2> QED BY <2>3, <2>4
<1> QED BY <1>9, <1>10

LEMMA RestKeeps == ASSUME CpldInv, RestInv, [Next]_vars PROVE RestInv'
<1>1. CASE UNCHANGED vars
  <2>1. UNCHANGED <<scene, probed, base, spoilt>>
    BY <1>1 DEF vars, hw, ghosts
  <2> QED BY <2>1, RestUntouched
<1>2. ASSUME NEW u \in Users, Refuse(u) \/ Accept(u) \/ ReadBack(u)
      PROVE  RestInv'
  <2>1. UNCHANGED <<scene, probed, base, spoilt>>
    BY <1>2 DEF Refuse, Accept, ReadBack, hw, ghosts
  <2> QED BY <2>1, RestUntouched
<1>3. ASSUME NEW u \in Users, WriteBack(u) PROVE RestInv'
  <2>1. UNCHANGED <<scene, probed, base>>
    BY <1>3 DEF WriteBack
  <2>2. \E bad, r : spoilt' = IF bad THEN spoilt \cup {r} ELSE spoilt
    BY <1>3, Zenon DEF WriteBack
  <2>3. spoilt \subseteq spoilt'
    BY <2>2
  <2> QED BY <2>1, <2>3, RestUntouched
<1>4. CASE ProbeRead \/ ProbeEnd
  <2>1. UNCHANGED <<scene, probed, base, spoilt>>
    BY <1>4 DEF ProbeRead, ProbeEnd, hw
  <2> QED BY <2>1, RestUntouched
<1> QED BY <1>1, <1>2, <1>3, <1>4, RestPlug, RestWritten DEF Next, UserStep

\* Where the tables of a probe function settle the pins of the ports, they are
\* settled when it is through, unless an access to their register failed: no
\* store handler that runs at the same time, and no write of an old byte, puts a
\* port back into reset.
THEOREM PortsReleasedAlways ==
    ASSUME \A s \in Scenes : Releases(s)
    PROVE  Spec => []PortsReleased
<1>1. Init => CpldInv /\ RestInv
  BY DriverStarts, RestStarts
<1>2. CpldInv /\ RestInv /\ [Next]_vars => (CpldInv /\ RestInv)'
  BY DriverStep, RestKeeps
<1>3. CpldInv /\ RestInv => PortsReleased
  <2> SUFFICES ASSUME CpldInv, RestInv, ~ Probing, NEW c \in scene.rest,
                      c.reg \notin spoilt, c.bit \notin OwnedIn(scene, c.reg)
               PROVE  (c.bit \in chip[c.reg]) = c.on
    BY Zenon DEF PortsReleased
  <2>1. scene \in Scenes /\ probed \in 0..Len(scene.probe) /\ Bystanders
    BY DEF CpldInv, PlaceInv
  <2>2. Len(scene.probe) \in Nat /\ DOMAIN scene.probe = 1..Len(scene.probe)
    BY <2>1, Tables
  <2>3. probed = Len(scene.probe)
    BY <2>1, <2>2 DEF Probing
  <2>4. PICK i \in DOMAIN scene.probe : Settles(scene, i, c)
    BY <2>1 DEF Releases
  <2>5. Right(c, base[c.reg])
    BY <2>2, <2>3, <2>4 DEF RestInv
  <2>6. c.reg \in Regs(scene)
    <3>1. scene.rest \subseteq [reg : Regs(scene), bit : Bit, on : BOOLEAN]
      BY <2>1, SceneAssumption
    <3> QED BY <3>1
  <2>7. chip[c.reg] \ OwnedIn(scene, c.reg) = base[c.reg] \ OwnedIn(scene, c.reg)
    BY <2>1, <2>6 DEF Bystanders
  <2>8. c.bit \in base[c.reg] <=> c.bit \in chip[c.reg]
    BY <2>7
  <2>9. Right(c, chip[c.reg])
    BY <2>5, <2>8, RightMoves, Zenon
  <2> QED BY <2>9, Zenon DEF Right
<1> QED BY <1>1, <1>2, <1>3, PTL DEF Spec
=============================================================================
