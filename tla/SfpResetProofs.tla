---------------------------- MODULE SfpResetProofs ----------------------------
(***************************************************************************)
(* For every number of ports, registers and callers: type correctness, what*)
(* can undo a successful reset when resets share a register, the           *)
(* transmitters of the SFP ports, and the promises of the handshake        *)
(* provided that no two resets that overlap have their pins in one         *)
(* register.                                                               *)
(***************************************************************************)
EXTENDS SfpRecord, TLAPS

-----------------------------------------------------------------------------
TypeHw ==
    /\ plugged \in [Ports -> BOOLEAN]
    /\ resetList \in [Qsfp -> 0..3]
    /\ rstn \in [Qsfp -> BOOLEAN]
    /\ txEn \in [Sfp -> {0, 1}]

TypeMonitor ==
    /\ mon \in {"down", "presence", "mailbox", "ack", "rest"}
    /\ known \in BOOLEAN
    /\ modprs \in [Ports -> BOOLEAN]
    /\ status \in [Ports -> BOOLEAN]
    /\ cur \in Nat
    /\ mon = "presence" => cur \in 1..NumRegs
    /\ mon = "mailbox" => cur \in 1..(NumPorts + 1)
    /\ mon = "ack" => cur \in Qsfp
    /\ box \in {0, 1, 3} /\ (mon = "ack" <=> box # 0)
    /\ restarts \in 0..MaxRestarts

TypeCallers ==
    /\ cpc \in [Callers -> CallerPcs]
    /\ port \in [Callers -> Qsfp \cup {0}]
    /\ \A c \in Callers : cpc[c] = "idle" <=> port[c] = 0
    /\ tries \in [Callers -> Nat]
    /\ regval \in [Callers -> [Qsfp -> BOOLEAN]]
    /\ ok \in [Qsfp -> BOOLEAN]

LEMMA TypeParts ==
    /\ TypeOK <=> TypeHw /\ TypeMonitor /\ TypeCallers
    /\ TypeOK' <=> TypeHw' /\ TypeMonitor' /\ TypeCallers'
  BY DEF TypeOK, TypeHw, TypeMonitor, TypeCallers

LEMMA PortsType ==
    /\ Qsfp \subseteq Ports /\ Sfp \subseteq Ports
    /\ 0 \notin Qsfp /\ Ports \subseteq Nat
    /\ \A p \in Qsfp : p \in 1..NumPorts /\ p + 1 \in 1..(NumPorts + 1)
    /\ \A p \in Sfp : p \notin Qsfp /\ p + 1 \in 1..(NumPorts + 1)
  BY SizesAssumption DEF Ports, Qsfp, Sfp

LEMMA InitType == Init => TypeOK
  <1>1. Init => TypeHw
    BY DEF Init, TypeHw
  <1>2. Init => TypeMonitor
    <2>1. Init => modprs \in [Ports -> BOOLEAN] /\ status \in [Ports -> BOOLEAN]
      BY DEF Init
    <2>2. Init => restarts \in 0..MaxRestarts
      BY SizesAssumption DEF Init
    <2>3. Init => known \in BOOLEAN
      BY Zenon DEF Init
    <2>4. Init => mon = "down" /\ cur = 1 /\ box = 0
      BY DEF Init
    <2>5. QED
      BY <2>1, <2>2, <2>3, <2>4 DEF TypeMonitor
  <1>3. Init => TypeCallers
    BY PortsType DEF Init, TypeCallers, CallerPcs, NoRegval
  <1>4. QED
    BY <1>1, <1>2, <1>3, TypeParts

LEMMA MonitorType == TypeOK /\ (Monitor \/ Restart) => TypeOK'
  <1> SUFFICES ASSUME TypeHw, TypeMonitor, TypeCallers, Monitor \/ Restart
               PROVE  TypeHw' /\ TypeMonitor' /\ TypeCallers'
    BY TypeParts
  <1>1. CASE ScanBegin
    BY <1>1, SizesAssumption
    DEF ScanBegin, hwVars, callerVars, TypeHw, TypeMonitor, TypeCallers
  <1>2. CASE ReadPresence
    BY <1>2, SizesAssumption, PortsType
    DEF ReadPresence, hwVars, callerVars, TypeHw, TypeMonitor, TypeCallers
  <1>3. CASE ReadEmpty
    BY <1>3, PortsType
    DEF ReadEmpty, hwVars, callerVars, TypeHw, TypeMonitor, TypeCallers
  <1>4. CASE ReadMailbox
    BY <1>4, PortsType
    DEF ReadMailbox, hwVars, callerVars, TypeHw, TypeMonitor, TypeCallers
  <1>5. CASE AnswerMailbox
    BY <1>5, PortsType
    DEF AnswerMailbox, Answer, hwVars, callerVars, TypeHw, TypeMonitor, TypeCallers
  <1>6. CASE ReadSfp
    BY <1>6, PortsType
    DEF ReadSfp, hwVars, callerVars, TypeHw, TypeMonitor, TypeCallers
  <1>7. CASE ScanEnd
    <2>1. txEn' \in [Sfp -> {0, 1}]
      BY <1>7 DEF ScanEnd, TxOnChange, TxAtInit, TypeHw
    <2>2. modprs' \in [Ports -> BOOLEAN]
      BY <1>7 DEF ScanEnd, Report, TypeMonitor
    <2>3. QED
      BY <1>7, <2>1, <2>2
      DEF ScanEnd, hwVars, callerVars, TypeHw, TypeMonitor, TypeCallers
  <1>8. CASE Restart
    <2>1. known' \in BOOLEAN
      BY <1>8, Zenon DEF Restart
    <2>2. modprs' \in [Ports -> BOOLEAN] /\ status' \in [Ports -> BOOLEAN]
      BY <1>8 DEF Restart
    <2>3. restarts' \in 0..MaxRestarts
      BY <1>8, SizesAssumption DEF Restart, TypeMonitor
    <2>4. mon' = "down" /\ cur' = 1 /\ box' = 0
      BY <1>8 DEF Restart
    <2>5. TypeMonitor'
      BY <2>1, <2>2, <2>3, <2>4 DEF TypeMonitor
    <2>6. QED
      BY <1>8, <2>5 DEF Restart, hwVars, callerVars, TypeHw, TypeCallers
  <1>9. QED
    BY <1>1, <1>2, <1>3, <1>4, <1>5, <1>6, <1>7, <1>8 DEF Monitor, Scan

\* What a write of a reset pin leaves in the registers.
LEMMA PinWriteType ==
    ASSUME TypeOK, NEW c \in Callers, NEW v \in BOOLEAN
    PROVE  /\ PinWrite(c, v) \in [Qsfp -> BOOLEAN]
           /\ NoRegval \in [Qsfp -> BOOLEAN]
  BY DEF PinWrite, NoRegval, TypeOK

LEMMA CallerType ==
    ASSUME TypeOK, NEW c \in Callers, Reset(c) \/ \E p \in Qsfp : ResetBegin(c, p)
    PROVE  TypeOK'
  <1> SUFFICES TypeHw' /\ TypeMonitor' /\ TypeCallers'
    BY TypeParts
  <1>0. TypeHw /\ TypeMonitor /\ TypeCallers
    BY TypeParts
  <1>1. TypeMonitor'
    BY <1>0 DEF Reset, ResetBegin, Ask, PinRead, Assert, Answered, NotAnswered,
                GiveUp, Release, Finish, monVars, TypeMonitor
  <1>2. TypeHw' /\ TypeCallers'
    <2>1. ASSUME NEW p \in Qsfp, ResetBegin(c, p) PROVE TypeHw' /\ TypeCallers'
      BY <1>0, <2>1, PortsType
      DEF ResetBegin, Go, hwVars, monVars, TypeHw, TypeCallers, CallerPcs
    <2>2. CASE Ask(c)
      BY <1>0, <2>2, PortsType
      DEF Ask, Go, hwVars, monVars, TypeHw, TypeCallers, CallerPcs
    <2>3. CASE PinRead(c)
      BY <1>0, <2>3
      DEF PinRead, Go, hwVars, monVars, TypeHw, TypeCallers, CallerPcs
    <2>4. CASE Assert(c)
      BY <1>0, <2>4, PinWriteType
      DEF Assert, Go, monVars, TypeHw, TypeCallers, CallerPcs
    <2>5. CASE Answered(c)
      BY <1>0, <2>5
      DEF Answered, Go, hwVars, monVars, TypeHw, TypeCallers, CallerPcs
    <2>6. CASE NotAnswered(c)
      BY <1>0, <2>6
      DEF NotAnswered, hwVars, monVars, TypeHw, TypeCallers
    <2>7. CASE GiveUp(c)
      BY <1>0, <2>7, PortsType
      DEF GiveUp, Go, hwVars, monVars, TypeHw, TypeCallers, CallerPcs
    <2>8. CASE Release(c)
      BY <1>0, <2>8, PinWriteType
      DEF Release, Go, monVars, TypeHw, TypeCallers, CallerPcs
    <2>9. CASE Finish(c)
      BY <1>0, <2>9, PortsType
      DEF Finish, Done, Go, hwVars, monVars, TypeHw, TypeCallers, CallerPcs
    <2>10. QED
      BY <2>1, <2>2, <2>3, <2>4, <2>5, <2>6, <2>7, <2>8, <2>9 DEF Reset
  <1>3. QED
    BY <1>1, <1>2

LEMMA NextType == TypeOK /\ [Next]_vars => TypeOK'
  <1> SUFFICES ASSUME TypeOK, [Next]_vars PROVE TypeOK'
    OBVIOUS
  <1>1. ASSUME NEW p \in Ports, Plug(p) PROVE TypeOK'
    BY <1>1 DEF Plug, monVars, callerVars, TypeOK
  <1>2. CASE UNCHANGED vars
    BY <1>2 DEF vars, hwVars, monVars, callerVars, TypeOK
  <1>3. QED
    BY <1>1, <1>2, MonitorType, CallerType DEF Next

\* The type invariant TypeOK: the scan never leaves the registers and ports,
\* the mailbox holds only the values the protocol knows, and a port is under
\* reset exactly while a caller is inside Sfp.reset.
THEOREM SfpTypeCorrect == Spec => []TypeOK
  <1>1. QED
    BY InitType, NextType, PTL DEF Spec

-----------------------------------------------------------------------------
(* Resets whose pins share a register, and read and write it under each    *)
(* other.                                                                  *)

\* A neighbour's write puts the pin of a settled port back as it is.
LEMMA WriteSettled ==
    ASSUME TypeOK, NEW c \in Callers, NEW v \in BOOLEAN, NEW p \in Qsfp, Settled(p),
           cpc[c] \in {"assertWrite", "releaseWrite"}
    PROVE  PinWrite(c, v)[p]
  <1>1. port[c] # p
    BY DEF Settled
  <1>2. Reg[port[c]] = Reg[p] => regval[c][p]
    BY DEF Settled
  <1>3. QED
    BY <1>1, <1>2 DEF PinWrite, Settled

LEMMA CallerSettled ==
    ASSUME TypeOK, NEW c \in Callers, NEW p \in Qsfp, Settled(p),
           Reset(c) \/ \E q \in Qsfp : ResetBegin(c, q)
    PROVE  Settled(p)' \/ ~ok'[p]
  <1>0. port[c] # p /\ ok[p] /\ rstn[p]
    BY DEF Settled
  <1> USE DEF Go, hwVars
  <1>1. ASSUME NEW q \in Qsfp, ResetBegin(c, q) PROVE Settled(p)' \/ ~ok'[p]
    <2>1. CASE q = p
      BY <1>1, <2>1 DEF ResetBegin, TypeOK
    <2>2. CASE q # p
      BY <1>1, <2>2 DEF ResetBegin, TypeOK, Settled
    <2>3. QED
      BY <2>1, <2>2
  <1>2. CASE Ask(c) \/ Answered(c) \/ NotAnswered(c)
    <2>1. UNCHANGED <<rstn, ok, port, regval>>
      BY <1>2 DEF Ask, Answered, NotAnswered
    <2>2. \A d \in Callers : cpc'[d] = cpc[d] \/ cpc'[d] \in {"assertRead", "wait", "releaseRead"}
      BY <1>2 DEF Ask, Answered, NotAnswered, TypeOK
    <2>3. QED
      BY <2>1, <2>2 DEF Settled
  <1>3. CASE PinRead(c)
    <2>1. UNCHANGED <<rstn, ok, port>>
      BY <1>3 DEF PinRead
    <2>2. \A d \in Callers : d # c => cpc'[d] = cpc[d] /\ regval'[d] = regval[d]
      BY <1>3 DEF PinRead, TypeOK
    <2>3. regval'[c] = rstn
      BY <1>3 DEF PinRead, TypeOK
    <2>4. QED
      BY <1>0, <2>1, <2>2, <2>3 DEF Settled
  <1>4. CASE Assert(c) \/ Release(c)
    <2>1. rstn'[p]
      BY <1>4, WriteSettled DEF Assert, Release
    <2>2. UNCHANGED <<port, ok>> /\ cpc'[c] \in {"wait", "done"}
      BY <1>4 DEF Assert, Release, TypeOK
    <2>3. ASSUME NEW d \in Callers, d # c
          PROVE  cpc'[d] = cpc[d] /\ regval'[d] = regval[d]
      BY <1>4, <2>3 DEF Assert, Release, TypeOK
    <2>4. QED
      BY <2>1, <2>2, <2>3 DEF Settled
  <1>5. CASE GiveUp(c)
    BY <1>5, PortsType DEF GiveUp, TypeOK, Settled
  <1>6. CASE Finish(c)
    BY <1>0, <1>6, PortsType DEF Finish, TypeOK, Settled
  <1>7. QED
    BY <1>1, <1>2, <1>3, <1>4, <1>5, <1>6 DEF Reset

LEMMA StaysStep ==
    ASSUME TypeOK, [Next]_vars, NEW p \in Qsfp, Settled(p)
    PROVE  Settled(p)' \/ ~ok'[p]
  <1>1. CASE UNCHANGED <<rstn, callerVars>>
    BY <1>1 DEF callerVars, Settled
  <1>2. CASE \E c \in Callers : Reset(c) \/ \E q \in Qsfp : ResetBegin(c, q)
    BY <1>2, CallerSettled
  <1>3. QED
    BY <1>1, <1>2 DEF Next, vars, hwVars, Plug, Monitor, Scan, ScanBegin, ReadPresence,
       ReadEmpty, ReadMailbox, AnswerMailbox, ReadSfp, ScanEnd, Restart

\* SettledStays: after a successful reset, and with no older write of a
\* neighbour's pin under way, only a reset of the port itself holds its module
\* in reset again; for every layout of the pins in registers and whichever
\* resets overlap.
THEOREM ResetSettles == Spec => SettledStays
  <1> DEFINE Stays == \A p \in Qsfp : Settled(p) => Settled(p)' \/ ~ok'[p]
  <1>1. TypeOK /\ [Next]_vars => [Stays]_vars
    BY StaysStep
  <1>2. QED
    BY <1>1, SfpTypeCorrect, PTL DEF Spec, SettledStays

-----------------------------------------------------------------------------
(* The parts of HandshakeInv: what the monitor guarantees of the mailbox,  *)
(* that resets under way have ports of their own, and what each caller may *)
(* rely on.                                                                *)

MailboxPart ==
    /\ \A p \in Qsfp : resetList[p] = 2 => RegardedEmpty(p)
    /\ mon = "ack" => (status[cur] <=> box = 3) /\ resetList[cur] # 2

PortsPart ==
    \A c, d \in Callers : c # d /\ cpc[c] # "idle" /\ cpc[d] # "idle"
      => <<port[c], port[d]>> \in Overlap \/ <<port[d], port[c]>> \in Overlap

CallersPart ==
    \A c \in Callers :
      /\ cpc[c] \in {"releaseRead", "releaseWrite"} => resetList[port[c]] = 2
      /\ cpc[c] \in {"assertWrite", "releaseWrite"}
           => \A q \in Qsfp : Reg[q] = Reg[port[c]] => regval[c][q] = rstn[q]
      /\ cpc[c] = "done" => rstn[port[c]]

LEMMA HandshakeParts ==
    /\ HandshakeInv <=> MailboxPart /\ PortsPart /\ CallersPart
    /\ HandshakeInv' <=> MailboxPart' /\ PortsPart' /\ CallersPart'
  BY DEF HandshakeInv, MailboxPart, PortsPart, CallersPart

LEMMA InitHandshake == Init => HandshakeInv
  BY DEF Init, HandshakeInv, RegardedEmpty, Scanned

\* A step of the monitor: it writes 2 only for a port it has just found
\* empty in this scan, and never while a caller still needs the 2.
LEMMA MonitorMailbox == TypeOK /\ MailboxPart /\ (Monitor \/ Restart) => MailboxPart'
  <1> SUFFICES ASSUME TypeOK, MailboxPart, Monitor \/ Restart PROVE MailboxPart'
    OBVIOUS
  <1> USE DEF MailboxPart, RegardedEmpty, Scanned, hwVars, callerVars
  <1>1. CASE ScanBegin
    BY <1>1 DEF ScanBegin
  <1>2. CASE ReadPresence
    BY <1>2, PortsType DEF ReadPresence, TypeOK
  <1>3. CASE ReadEmpty
    <2>1. \A p \in Qsfp : p < cur' <=> p < cur \/ p = cur
      BY <1>3, PortsType DEF ReadEmpty, TypeOK
    <2>2. mon = "mailbox" /\ ~status[cur]
          /\ UNCHANGED <<resetList, mon, modprs, status>>
      BY <1>3 DEF ReadEmpty
    <2>3. QED
      BY <2>1, <2>2
  <1>4. CASE ReadMailbox
    <2>1. mon = "mailbox" /\ UNCHANGED <<resetList, modprs>> /\ cur \in Qsfp
      BY <1>4 DEF ReadMailbox
    <2>2. \A p \in Qsfp : Scanned(p)' <=> Scanned(p) \/ p = cur
      BY <1>4, PortsType DEF ReadMailbox, TypeOK
    <2>3. status'[cur] <=> resetList[cur] \notin {1, 2}
      BY <1>4, PortsType DEF ReadMailbox, TypeOK
    <2>4. \A p \in Qsfp : p # cur => status'[p] = status[p]
      BY <1>4, PortsType DEF ReadMailbox, TypeOK
    <2>5. \A p \in Qsfp : resetList'[p] = 2 => RegardedEmpty(p)'
      BY <2>1, <2>2, <2>3, <2>4 DEF TypeOK
    <2>6. mon' = "ack" => (status'[cur'] <=> box' = 3) /\ resetList'[cur'] # 2
      <3>1. mon' = "ack" => cur' = cur /\ box' = resetList[cur]
                             /\ resetList[cur] \in {1, 3}
        BY <1>4 DEF ReadMailbox
      <3>2. QED
        BY <2>1, <2>3, <3>1
    <2>7. QED
      BY <2>5, <2>6
  <1>5. CASE AnswerMailbox
    BY <1>5, PortsType DEF AnswerMailbox, Answer, TypeOK
  <1>6. CASE ReadSfp
    BY <1>6, PortsType DEF ReadSfp, TypeOK
  <1>7. CASE ScanEnd
    BY <1>7, PortsType DEF ScanEnd, Report, TypeOK
  <1>8. CASE Restart
    BY <1>8, PortsType DEF Restart
  <1>9. QED
    BY <1>1, <1>2, <1>3, <1>4, <1>5, <1>6, <1>7, <1>8 DEF Monitor, Scan

LEMMA MonitorHandshake == TypeOK /\ HandshakeInv /\ (Monitor \/ Restart) => HandshakeInv'
  <1> SUFFICES ASSUME TypeOK, HandshakeInv, Monitor \/ Restart PROVE HandshakeInv'
    OBVIOUS
  <1>0. MailboxPart /\ PortsPart /\ CallersPart
    BY HandshakeParts
  <1>1. UNCHANGED <<rstn, callerVars>>
    BY DEF Monitor, Scan, ScanBegin, ReadPresence, ReadEmpty, ReadMailbox,
           AnswerMailbox, ReadSfp, ScanEnd, Restart, hwVars
  <1>2. \A p \in Qsfp : resetList[p] = 2 => resetList'[p] = 2
    <2>1. CASE AnswerMailbox
      BY <1>0, <2>1 DEF AnswerMailbox, MailboxPart, TypeOK
    <2>2. CASE ~AnswerMailbox
      BY <2>2 DEF Monitor, Scan, ScanBegin, ReadPresence, ReadEmpty, ReadMailbox,
                  ReadSfp, ScanEnd, Restart
    <2>3. QED
      BY <2>1, <2>2
  <1>3. CallersPart'
    BY <1>0, <1>1, <1>2 DEF CallersPart, callerVars, TypeOK
  <1>4. PortsPart'
    BY <1>0, <1>1 DEF PortsPart, callerVars
  <1>5. QED
    BY <1>0, <1>3, <1>4, MonitorMailbox, HandshakeParts

-----------------------------------------------------------------------------
\* Callers inside reset() at the same time have pins in different registers.
LEMMA RegistersApart ==
    ASSUME TypeOK, PortsPart, DistinctRegs, NEW c \in Callers, NEW d \in Callers,
           c # d, cpc[c] # "idle", cpc[d] # "idle"
    PROVE  Reg[port[c]] # Reg[port[d]] /\ port[c] # port[d]
  BY DEF PortsPart, DistinctRegs

LEMMA CallerPorts ==
    ASSUME TypeOK, PortsPart, NEW c \in Callers,
           Reset(c) \/ \E p \in Qsfp : ResetBegin(c, p)
    PROVE  PortsPart'
  <1>1. ASSUME NEW p \in Qsfp, ResetBegin(c, p) PROVE PortsPart'
    BY <1>1 DEF ResetBegin, Go, PortsPart, TypeOK
  <1>2. CASE GiveUp(c) \/ Finish(c)
    BY <1>2 DEF GiveUp, Finish, Go, PortsPart, TypeOK
  <1>3. CASE Ask(c) \/ PinRead(c) \/ Assert(c) \/ Answered(c) \/ NotAnswered(c)
             \/ Release(c)
    BY <1>3 DEF Ask, PinRead, Assert, Answered, NotAnswered, Release, Go, PortsPart, TypeOK
  <1>4. QED
    BY <1>1, <1>2, <1>3 DEF Reset

\* A caller never writes 2.
LEMMA CallerMailbox ==
    ASSUME TypeOK, MailboxPart, NEW c \in Callers,
           Reset(c) \/ \E p \in Qsfp : ResetBegin(c, p)
    PROVE  MailboxPart'
  <1>1. UNCHANGED monVars
    BY DEF Reset, ResetBegin, Ask, PinRead, Assert, Answered, NotAnswered, GiveUp,
           Release, Finish
  <1>2. \A p \in Qsfp : resetList'[p] = 2 => resetList[p] = 2
    <2>1. CASE Ask(c)
      BY <2>1 DEF Ask, TypeOK
    <2>2. CASE Finish(c)
      BY <2>2 DEF Finish, Done, TypeOK
    <2>3. CASE ~Ask(c) /\ ~Finish(c)
      BY <2>3 DEF Reset, ResetBegin, PinRead, Assert, Answered, NotAnswered, GiveUp,
                  Release
    <2>4. QED
      BY <2>1, <2>2, <2>3
  <1>3. QED
    BY <1>1, <1>2 DEF MailboxPart, RegardedEmpty, Scanned, monVars, TypeOK

\* A pin write changes the caller's own pin and no other.
LEMMA PinWriteOwn ==
    ASSUME TypeOK, CallersPart, NEW c \in Callers, NEW v \in BOOLEAN,
           cpc[c] \in {"assertWrite", "releaseWrite"}
    PROVE  PinWrite(c, v) = [rstn EXCEPT ![port[c]] = v]
  <1>1. port[c] \in Qsfp
    BY DEF TypeOK
  <1>2. \A q \in Qsfp : PinWrite(c, v)[q] = IF q = port[c] THEN v ELSE rstn[q]
    BY <1>1 DEF PinWrite, CallersPart
  <1>3. PinWrite(c, v) = [q \in Qsfp |-> IF q = port[c] THEN v ELSE rstn[q]]
    BY <1>2 DEF PinWrite
  <1>4. QED
    BY <1>1, <1>3 DEF TypeOK

LEMMA CallerCallers ==
    ASSUME TypeOK, PortsPart, CallersPart, DistinctRegs,
           NEW c \in Callers, Reset(c) \/ \E p \in Qsfp : ResetBegin(c, p)
    PROVE  CallersPart'
  <1> USE DEF CallersPart, Go, hwVars
  <1>0. \A d \in Callers \ {c} : cpc[c] # "idle" /\ cpc[d] # "idle"
          => port[c] # port[d] /\ Reg[port[c]] # Reg[port[d]]
    BY RegistersApart
  <1>1. ASSUME NEW p \in Qsfp, ResetBegin(c, p) PROVE CallersPart'
    BY <1>1, PortsType DEF ResetBegin, TypeOK
  <1>2. CASE Ask(c)
    BY <1>0, <1>2, PortsType DEF Ask, TypeOK
  <1>3. CASE PinRead(c)
    BY <1>3, PortsType DEF PinRead, TypeOK
  <1>4. CASE Assert(c)
    <2>1. rstn' = [rstn EXCEPT ![port[c]] = FALSE]
      BY <1>4, PinWriteOwn DEF Assert
    <2>2. port[c] \in Qsfp /\ cpc[c] # "idle"
      BY <1>4 DEF Assert, TypeOK
    <2>3. UNCHANGED <<resetList, port, ok>>
      BY <1>4 DEF Assert
    <2>4. ASSUME NEW d \in Callers, d # c
          PROVE  cpc'[d] = cpc[d] /\ regval'[d] = regval[d]
      BY <1>4, <2>4 DEF Assert, TypeOK
    <2>5. ASSUME NEW d \in Callers, d # c, cpc[d] # "idle", NEW q \in Qsfp,
                 Reg[q] = Reg[port[d]]
          PROVE  rstn'[q] = rstn[q]
      BY <1>0, <2>1, <2>2, <2>5 DEF TypeOK
    <2>6. \A d \in Callers \ {c} : cpc[d] # "idle" => rstn'[port[d]] = rstn[port[d]]
      BY <2>5 DEF TypeOK
    <2>7. cpc'[c] = "wait"
      BY <1>4 DEF Assert, TypeOK
    <2>8. rstn'[port[c]] = FALSE
      BY <2>1, <2>2 DEF TypeOK
    <2>9. QED
      BY <2>2, <2>3, <2>4, <2>5, <2>6, <2>7, <2>8
  <1>5. CASE Answered(c)
    BY <1>5, PortsType DEF Answered, TypeOK
  <1>6. CASE NotAnswered(c)
    BY <1>6, PortsType DEF NotAnswered, TypeOK
  <1>7. CASE GiveUp(c)
    BY <1>7, PortsType DEF GiveUp, TypeOK
  <1>8. CASE Release(c)
    <2>1. rstn' = [rstn EXCEPT ![port[c]] = TRUE]
      BY <1>8, PinWriteOwn DEF Release
    <2>2. port[c] \in Qsfp /\ cpc[c] # "idle"
      BY <1>8 DEF Release, TypeOK
    <2>3. UNCHANGED <<resetList, port, ok>>
      BY <1>8 DEF Release
    <2>4. ASSUME NEW d \in Callers, d # c
          PROVE  cpc'[d] = cpc[d] /\ regval'[d] = regval[d]
      BY <1>8, <2>4 DEF Release, TypeOK
    <2>5. ASSUME NEW d \in Callers, d # c, cpc[d] # "idle", NEW q \in Qsfp,
                 Reg[q] = Reg[port[d]]
          PROVE  rstn'[q] = rstn[q]
      BY <1>0, <2>1, <2>2, <2>5 DEF TypeOK
    <2>6. \A d \in Callers \ {c} : cpc[d] # "idle" => rstn'[port[d]] = rstn[port[d]]
      BY <2>5 DEF TypeOK
    <2>7. cpc'[c] = "done"
      BY <1>8 DEF Release, TypeOK
    <2>8. rstn'[port[c]] = TRUE
      BY <2>1, <2>2 DEF TypeOK
    <2>9. QED
      BY <2>2, <2>3, <2>4, <2>5, <2>6, <2>7, <2>8
  <1>9. CASE Finish(c)
    BY <1>0, <1>9, PortsType DEF Finish, Done, TypeOK
  <1>10. QED
    BY <1>1, <1>2, <1>3, <1>4, <1>5, <1>6, <1>7, <1>8, <1>9 DEF Reset

LEMMA NextHandshake ==
    DistinctRegs /\ TypeOK /\ HandshakeInv /\ [Next]_vars => HandshakeInv'
  <1> SUFFICES ASSUME DistinctRegs, TypeOK, HandshakeInv, [Next]_vars
               PROVE  HandshakeInv'
    OBVIOUS
  <1>1. ASSUME UNCHANGED <<resetList, rstn, monVars, callerVars>> PROVE HandshakeInv'
    BY <1>1 DEF HandshakeInv, RegardedEmpty, Scanned, monVars,
                callerVars
  <1>2. CASE \E p \in Ports : Plug(p)
    BY <1>1, <1>2 DEF Plug
  <1>3. CASE UNCHANGED vars
    BY <1>1, <1>3 DEF vars, hwVars
  <1>4. CASE \E c \in Callers : Reset(c) \/ \E p \in Qsfp : ResetBegin(c, p)
    BY <1>4, CallerPorts, CallerMailbox, CallerCallers, HandshakeParts
  <1>5. QED
    BY <1>2, <1>3, <1>4, MonitorHandshake DEF Next

\* The inductive invariant of the handshake.
THEOREM HandshakeCorrect ==
    ASSUME DistinctRegs PROVE Spec => []HandshakeInv
  <1>1. TypeOK /\ HandshakeInv /\ [Next]_vars => HandshakeInv'
    BY NextHandshake
  <1>2. QED
    BY <1>1, InitHandshake, SfpTypeCorrect, PTL DEF Spec

\* The pin of a port goes up in Release alone.
ReleasesQuietly == \A p \in Qsfp : ~rstn[p] /\ rstn'[p] => RegardedEmpty(p) /\ UNCHANGED monVars

LEMMA ReleaseStep ==
    ASSUME TypeOK, HandshakeInv, [Next]_vars PROVE ReleasesQuietly
  <1>0. MailboxPart /\ CallersPart
    BY HandshakeParts
  <1>1. ASSUME NEW c \in Callers, Assert(c) PROVE ReleasesQuietly
    BY <1>0, <1>1, PinWriteOwn DEF Assert, Go, TypeOK, ReleasesQuietly
  <1>2. ASSUME NEW c \in Callers, Release(c) PROVE ReleasesQuietly
    <2>1. rstn' = [rstn EXCEPT ![port[c]] = TRUE] /\ resetList[port[c]] = 2
      BY <1>0, <1>2, PinWriteOwn DEF Release, Go, CallersPart
    <2>2. UNCHANGED monVars
      BY <1>2 DEF Release
    <2>3. QED
      BY <1>0, <2>1, <2>2 DEF MailboxPart, TypeOK, ReleasesQuietly
  <1>3. ASSUME ~\E c \in Callers : Assert(c) \/ Release(c) PROVE ReleasesQuietly
    <2>1. rstn' = rstn
      BY <1>3 DEF Next, vars, hwVars, Plug, Monitor, Scan, ScanBegin, ReadPresence,
                  ReadEmpty, ReadMailbox, AnswerMailbox, ReadSfp, ScanEnd, Restart,
                  Reset, ResetBegin, Ask, PinRead, Answered, NotAnswered, GiveUp,
                  Finish
    <2>2. QED
      BY <2>1 DEF ReleasesQuietly
  <1>4. QED
    BY <1>1, <1>2, <1>3

\* ReleasedOnlyWhenEmpty: Sfp.reset takes a module out of reset only while
\* the event monitor regards its port as empty, when overlapping resets use
\* different registers.
THEOREM ReleaseHandshake ==
    ASSUME DistinctRegs PROVE Spec => ReleasedOnlyWhenEmpty
  <1> DEFINE Quiet == \A p \in Qsfp : ~rstn[p] /\ rstn'[p] => RegardedEmpty(p)
  <1>1. TypeOK /\ HandshakeInv /\ [Next]_vars => [Quiet]_vars
    BY ReleaseStep DEF ReleasesQuietly
  <1>2. QED
    BY <1>1, SfpTypeCorrect, HandshakeCorrect, PTL DEF Spec, ReleasedOnlyWhenEmpty

-----------------------------------------------------------------------------
(* The record of the monitor: a port the scan has found empty stays so     *)
(* until the scan ends, and then it is off the record.                     *)

LEMMA StaysEmpty ==
    ASSUME TypeOK, [Next]_vars, NEW p \in Qsfp, RegardedEmpty(p), modprs[p], modprs'[p]
    PROVE  RegardedEmpty(p)'
  <1>1. Scanned(p) /\ ~status[p]
    BY DEF RegardedEmpty
  <1> USE <1>1 DEF Scanned, RegardedEmpty
  <1>2. CASE ScanBegin
    BY <1>2 DEF ScanBegin
  <1>3. CASE ReadPresence
    BY <1>3 DEF ReadPresence
  <1>4. CASE ReadEmpty
    BY <1>4, PortsType DEF ReadEmpty, TypeOK
  <1>5. CASE ReadMailbox
    BY <1>5, PortsType DEF ReadMailbox, TypeOK
  <1>6. CASE AnswerMailbox
    BY <1>6, PortsType DEF AnswerMailbox, TypeOK
  <1>7. CASE ReadSfp
    BY <1>7, PortsType DEF ReadSfp, TypeOK
  <1>8. CASE ScanEnd
    BY <1>8, PortsType DEF ScanEnd, Report
  <1>9. CASE Restart
    BY <1>9, PortsType DEF Restart
  <1>10. CASE UNCHANGED monVars
    BY <1>10 DEF monVars
  <1>11. ASSUME NEW c \in Callers, Reset(c) \/ \E q \in Qsfp : ResetBegin(c, q)
         PROVE  UNCHANGED monVars
    BY <1>11 DEF Reset, ResetBegin, Ask, PinRead, Assert, Answered, NotAnswered, GiveUp,
                 Release, Finish
  <1>12. CASE UNCHANGED vars \/ \E q \in Ports : Plug(q)
    BY <1>10, <1>12 DEF vars, Plug
  <1>13. QED
    BY <1>2, <1>3, <1>4, <1>5, <1>6, <1>7, <1>8, <1>9, <1>10, <1>11, <1>12
       DEF Next, Monitor, Scan

LEMMA NextRecord ==
    ASSUME TypeOK, TypeOK', HandshakeInv, RecordedAnew, [RecordNext]_RecordVars
    PROVE  RecordedAnew'
  <1> SUFFICES ASSUME NEW p \in Qsfp, modprs'[p], rstn'[p]
               PROVE  anew'[p] \/ RegardedEmpty(p)'
    BY DEF RecordedAnew
  <1>1. [Next]_vars
    BY DEF RecordNext, RecordVars
  <1>2. CASE UNCHANGED RecordVars
    BY <1>2 DEF RecordVars, vars, hwVars, monVars, RecordedAnew, RegardedEmpty, Scanned
  <1>3. CASE RecordNext
    <2>1. anew'[p] = (rstn'[p] /\ (anew[p] \/ Inserted(p)))
      BY <1>3 DEF RecordNext
    <2>2. CASE ~rstn[p]
      <3>1. RegardedEmpty(p) /\ UNCHANGED monVars
        BY <1>1, <2>2, ReleaseStep DEF ReleasesQuietly
      <3>2. QED
        BY <3>1 DEF monVars, RegardedEmpty, Scanned
    <2>3. CASE ~modprs[p]
      BY <2>1, <2>3 DEF Inserted
    <2>4. CASE rstn[p] /\ modprs[p]
      <3>1. anew[p] \/ RegardedEmpty(p)
        BY <2>4 DEF RecordedAnew
      <3>2. CASE anew[p]
        BY <2>1, <3>2
      <3>3. CASE RegardedEmpty(p)
        BY <1>1, <2>4, <3>3, StaysEmpty
      <3>4. QED
        BY <3>1, <3>2, <3>3
    <2>5. QED
      BY <2>2, <2>3, <2>4
  <1>4. QED
    BY <1>2, <1>3

LEMMA RecordRefines == SpecRecord => Spec
  <1>1. [RecordNext]_RecordVars => [Next]_vars
    BY DEF RecordNext, RecordVars
  <1>2. RecordInit => Init
    BY DEF RecordInit
  <1>3. QED
    BY <1>1, <1>2, PTL DEF SpecRecord, Spec

\* RecordedAnew: a module that is on record as inserted and works was
\* recorded after its last reset, so xcvrd has set it up since, when
\* overlapping resets use different registers.
THEOREM RecordCorrect ==
    ASSUME DistinctRegs PROVE SpecRecord => []RecordedAnew
  <1>1. RecordInit => RecordedAnew
    BY PortsType DEF RecordInit, Init, RecordedAnew
  <1>2. TypeOK /\ TypeOK' /\ HandshakeInv /\ RecordedAnew /\ [RecordNext]_RecordVars
          => RecordedAnew'
    BY NextRecord
  <1>3. QED
    BY <1>1, <1>2, RecordRefines, SfpTypeCorrect, HandshakeCorrect, PTL DEF SpecRecord

-----------------------------------------------------------------------------
(* The transmitters of the SFP ports: only the end of a scan touches them  *)
(* and the report, both together, and a restart empties the report alone.  *)

LEMMA NextTx == TypeOK /\ TxFollowsReport /\ [Next]_vars => TxFollowsReport'
  <1> SUFFICES ASSUME TypeOK, TxFollowsReport, [Next]_vars PROVE TxFollowsReport'
    OBVIOUS
  <1>1. CASE ScanEnd
    <2> SUFFICES ASSUME NEW p \in Sfp, modprs'[p] PROVE txEn'[p] = 0
      BY DEF TxFollowsReport
    <2>1. status[p]
      BY <1>1, PortsType DEF ScanEnd, Report
    <2>2. txEn'[p] = IF known THEN TxOnChange(p) ELSE TxAtInit(p)
      BY <1>1 DEF ScanEnd
    <2>3. TxAtInit(p) = 0
      BY <2>1 DEF TxAtInit
    <2>4. TxOnChange(p) = 0
      <3>1. CASE status[p] = modprs[p]
        BY <2>1, <3>1 DEF TxOnChange, TxFollowsReport
      <3>2. CASE status[p] # modprs[p]
        BY <2>1, <3>2 DEF TxOnChange
      <3>3. QED
        BY <3>1, <3>2
    <2>5. QED
      BY <2>2, <2>3, <2>4
  <1>2. CASE Restart
    BY <1>2, PortsType DEF Restart, TxFollowsReport
  <1>3. CASE ~ScanEnd /\ ~Restart
    <2>1. UNCHANGED <<modprs, txEn>>
      BY <1>3 DEF Next, vars, hwVars, monVars, callerVars, Plug, Monitor, Scan, ScanBegin,
                  ReadPresence, ReadEmpty, ReadMailbox, AnswerMailbox, ReadSfp, Reset,
                  ResetBegin, Ask, PinRead, Assert, Answered, NotAnswered, GiveUp,
                  Release, Finish
    <2>2. QED
      BY <2>1 DEF TxFollowsReport
  <1>4. QED
    BY <1>1, <1>2, <1>3

\* TxFollowsReport: the transmitter of an SFP port reported as occupied is
\* enabled, also after the monitor has forgotten everything and found the
\* pins as its predecessor left them.
THEOREM TxCorrect == Spec => []TxFollowsReport
  <1>1. Init => TxFollowsReport
    BY PortsType DEF Init, TxFollowsReport
  <1>2. QED
    BY <1>1, NextTx, SfpTypeCorrect, PTL DEF Spec

=============================================================================
