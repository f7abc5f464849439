--------------------------- MODULE OcoresI2cProofs ---------------------------
(***************************************************************************)
(* The bus driver, for every set of devices, every select and offset table *)
(* and every request: type correctness; the mutual exclusion of the SPI    *)
(* mux; how far a transfer, its master and its wire agree; and that the    *)
(* driver implements I2cAtomicTransfer.                                    *)
(***************************************************************************)
EXTENDS OcoresI2cRefinement, FiniteSetTheorems, TLAPS

-----------------------------------------------------------------------------
(* The I2C master: what the operations on it preserve.                     *)

Master == [en : BOOLEAN, op : Ops, busy : BOOLEAN, irq : BOOLEAN, res : Results]

LEMMA OpType == \A k \in OpKinds, m, p \in Nat : Op(k, m, p) \in Ops
  BY DEF Op, Ops

LEMMA MasterType ==
    ASSUME NEW h \in Master
    PROVE  /\ \A o \in Ops : Command(h, o) \in Master
           /\ Iack(h) \in Master
           /\ \A e \in BOOLEAN : SetEn(h, e) \in Master
  <1>1. NoOp \in Ops
    BY OpType DEF NoOp, OpKinds
  <1>2. Iack(h) \in Master
    BY DEF Master, Iack, Results
  <1>3. \A o \in Ops : Command(h, o) \in Master
    BY <1>2 DEF Master, Command
  <1>4. \A e \in BOOLEAN : SetEn(h, e) \in Master
    BY <1>1 DEF Master, SetEn
  <1>5. QED
    BY <1>2, <1>3, <1>4

LEMMA PowerOffType == PowerOff \in Master /\ [PowerOff EXCEPT !.en = TRUE] \in Master
  <1>1. NoOp \in Ops
    BY OpType DEF NoOp, OpKinds
  <1>2. QED
    BY <1>1 DEF PowerOff, Master, Results

LEMMA CtrlsType ==
    /\ \A a \in Adapters : Own(a) \in Ctrls
    /\ \A a \in Adapters : muxReg \in Muxes => Sel(a) \in Ctrls
  BY DEF Own, Sel, Ctrls, Muxes, Offsets

-----------------------------------------------------------------------------
TypeDev ==
    /\ bound \subseteq Adapters
    /\ dev \in [op : {"none", "probe", "remove", "resume"},
                a : Adapters \cup {NoId},
                pc : {"idle", "lock", "locked", "unlock", "init", "iack",
                      "enable", "end", "disable", "del"}]
    /\ (dev.op = "none" <=> dev.a = NoId) /\ (dev.op = "none" <=> dev.pc = "idle")
    /\ pm \in {"on", "suspending", "resuming"}
    /\ todo \subseteq Adapters
    /\ mapped \in BOOLEAN

TypeMux ==
    /\ lock \in Adapters \cup {DevThread, Free}
    /\ muxReg \in Muxes
    /\ lastId \in Adapters \cup {NoId}

TypeXfer ==
    /\ xpc \in [Adapters -> XferPcs]
    /\ req \in [Adapters -> Requests \cup {<<>>}]
    /\ mi \in [Adapters -> Nat]
    /\ pos \in [Adapters -> Nat]
    /\ st \in [Adapters -> {"START", "WRITE", "READ", "DONE", "ERROR"}]
    /\ ctl \in [Adapters -> BOOLEAN]
    /\ buf \in [Adapters -> SUBSET (Nat \X Nat \X Nat)]

TypeHw ==
    /\ hw \in [Ctrls -> Master]
    /\ wire \in [Ctrls -> Seq(Ops)]

LEMMA TypeParts ==
    /\ TypeOK <=> TypeDev /\ TypeMux /\ TypeXfer /\ TypeHw
    /\ TypeOK' <=> TypeDev' /\ TypeMux' /\ TypeXfer' /\ TypeHw'
  BY DEF TypeOK, TypeDev, TypeMux, TypeXfer, TypeHw, Master

LEMMA InitType == Init => TypeOK
  <1>0. Init => dev = Idle /\ pm = "on" /\ todo = {} /\ mapped \in BOOLEAN
                /\ bound \subseteq Adapters
    BY DEF Init
  <1>1. Init => TypeDev
    BY <1>0, AdaptersAssumption DEF TypeDev, Idle
  <1>1a. Init => TypeMux
    BY DEF Init, TypeMux, Muxes
  <1>2. Init => TypeXfer
    BY DEF Init, TypeXfer, XferPcs
  <1>3. Init => TypeHw
    <2>1. Init => \E h \in Master : hw = [c \in Ctrls |-> h]
      BY PowerOffType, Zenon DEF Init
    <2>2. <<>> \in Seq(Ops)
      OBVIOUS
    <2>3. QED
      BY <2>1, <2>2 DEF Init, TypeHw
  <1>4. QED
    BY <1>1, <1>1a, <1>2, <1>3, TypeParts

LEMMA XferType ==
    ASSUME TypeOK, NEW a \in Adapters, XferBegin(a) \/ XferLock(a) \/ Xfer(a)
    PROVE  TypeOK'
  <1> USE TypeParts
  <1>0. Sel(a) \in Ctrls /\ Own(a) \in Ctrls /\ hw[Sel(a)] \in Master
    BY CtrlsType DEF TypeMux, TypeHw
  <1>1. CASE XferBegin(a)
    BY <1>1 DEF XferBegin, Go, TypeDev, TypeMux, TypeXfer, TypeHw, XferPcs,
                devVars, muxVars
  <1>2. CASE XferLock(a)
    BY <1>2 DEF XferLock, Go, TypeDev, TypeMux, TypeXfer, TypeHw, XferPcs, devVars
  <1>3. CASE XferSelectMux(a)
    BY <1>3 DEF XferSelectMux, Go, TypeDev, TypeMux, TypeXfer, TypeHw, XferPcs,
                devVars, Muxes
  <1>4. CASE XferReadControl(a)
    <2>1. hw[Sel(a)].en \in BOOLEAN
      BY <1>0 DEF Master
    <2>2. QED
      BY <1>4, <2>1 DEF XferReadControl, Go, TypeDev, TypeMux, TypeXfer, TypeHw,
                XferPcs, devVars, muxVars
  <1>5. CASE XferWriteControl(a)
    <2>1. SetEn(hw[Sel(a)], ctl[a]) \in Master
      BY <1>0, MasterType DEF TypeXfer
    <2>2. TypeHw'
      BY <1>0, <1>5, <2>1 DEF XferWriteControl, TypeHw
    <2>3. QED
      BY <1>5, <2>2 DEF XferWriteControl, Go, TypeDev, TypeMux, TypeXfer, XferPcs,
                devVars, muxVars
  <1>6. CASE XferStart(a)
    <2>1. Command(hw[Sel(a)], Op("start", 1, 0)) \in Master
      BY <1>0, MasterType, OpType DEF OpKinds
    <2>2. TypeHw'
      BY <1>0, <1>6, <2>1 DEF XferStart, TypeHw
    <2>3. QED
      BY <1>6, <2>2 DEF XferStart, Go, TypeDev, TypeMux, TypeXfer, XferPcs,
                devVars, muxVars
  <1>7. CASE PollWait(a) \/ PollTimeout(a) \/ IsrNone(a)
    BY <1>7 DEF PollWait, PollTimeout, IsrNone, Go, TypeDev, TypeMux, TypeXfer,
                TypeHw, XferPcs, devVars, muxVars
  <1>8. CASE XferReturn(a)
    <2>1. TypeHw'
      BY <1>0, <1>8 DEF XferReturn, TypeHw
    <2>2. QED
      BY <1>8, <2>1 DEF XferReturn, Go, TypeDev, TypeMux, TypeXfer, XferPcs, devVars
  <1>9. CASE ProcessOver(a)
    <2>1. TypeHw'
      BY <1>0, <1>9, MasterType DEF ProcessOver, TypeHw
    <2>2. QED
      BY <1>9, <2>1 DEF ProcessOver, Go, TypeDev, TypeMux, TypeXfer, XferPcs,
                devVars, muxVars
  <1>10. ASSUME NEW o \in Ops, Send(a, o)
         PROVE  TypeDev' /\ TypeMux' /\ TypeHw'
                /\ UNCHANGED <<req, ctl>>
    <2>1. Command(hw[Sel(a)], o) \in Master
      BY <1>0, MasterType
    <2>2. TypeHw'
      BY <1>0, <1>10, <2>1 DEF Send, TypeHw
    <2>3. QED
      BY <1>10, <2>2 DEF Send, TypeDev, TypeMux, devVars, muxVars
  <1>11. CASE ProcessError(a)
    <2>1. Op("stop", 0, 0) \in Ops
      BY OpType DEF OpKinds
    <2>2. QED
      BY <1>10, <1>11, <2>1 DEF ProcessError, Go, TypeXfer, XferPcs
  <1>12. ASSUME ByteDone(a)
         PROVE  /\ xpc' \in [Adapters -> XferPcs]
                /\ buf' \in [Adapters -> SUBSET (Nat \X Nat \X Nat)]
                /\ NewPos(a) \in Nat
    <2>1. Len(wire[Sel(a)]) \in Nat
      BY <1>0 DEF TypeHw
    <2>2. mi[a] \in Nat /\ pos[a] \in Nat
      BY DEF TypeXfer
    <2>3. buf' \in [Adapters -> SUBSET (Nat \X Nat \X Nat)]
      BY <1>12, <2>1, <2>2 DEF ByteDone, TypeXfer
    <2>4. QED
      BY <1>12, <2>2, <2>3 DEF ByteDone, Go, NewPos, TypeXfer, XferPcs
  <1>13. ASSUME NEW m \in Nat, NEW p \in Nat, ByteDone(a), NextByte(a, m, p)
         PROVE  TypeOK'
    <2> DEFINE o == IF req[a][m].rd
                      THEN Op(IF p + 1 = req[a][m].len THEN "readnack" ELSE "read", 0, 0)
                      ELSE Op("write", m, p)
    <2>1. o \in Ops
      BY OpType DEF OpKinds
    <2>2. Send(a, o)
      BY <1>13 DEF NextByte
    <2>3. mi' \in [Adapters -> Nat] /\ pos' \in [Adapters -> Nat]
          /\ st' \in [Adapters -> {"START", "WRITE", "READ", "DONE", "ERROR"}]
      BY <1>13 DEF NextByte, TypeXfer
    <2> HIDE DEF o
    <2>4. QED
      BY <1>10, <1>12, <1>13, <2>1, <2>2, <2>3 DEF TypeXfer
  <1>14. CASE ProcessByte(a)
    BY <1>12, <1>13, <1>14 DEF ProcessByte, TypeXfer
  <1>15. CASE ProcessNoStart(a)
    BY <1>12, <1>13, <1>15 DEF ProcessNoStart, TypeXfer
  <1>16. CASE ProcessNextMsg(a)
    <2>1. Op("start", mi[a] + 1, 0) \in Ops
      BY OpType DEF OpKinds, TypeXfer
    <2>2. QED
      BY <1>10, <1>12, <1>16, <2>1 DEF ProcessNextMsg, TypeXfer
  <1>17. CASE ProcessDone(a)
    <2>1. Op("stop", 0, 0) \in Ops
      BY OpType DEF OpKinds
    <2>2. QED
      BY <1>10, <1>12, <1>17, <2>1 DEF ProcessDone, TypeXfer
  <1>18. QED
    BY <1>1, <1>2, <1>3, <1>4, <1>5, <1>6, <1>7, <1>8, <1>9, <1>11,
       <1>14, <1>15, <1>16, <1>17 DEF Xfer

LEMMA DevType ==
    ASSUME TypeOK, Dev \/ Power \/ ModuleReload \/ \E a \in Adapters : DevStart(a)
    PROVE  TypeOK'
  <1> USE TypeParts
  <1>1. CASE \E a \in Adapters : ProbeBegin(a) \/ RemoveBegin(a) \/ ResumeBegin(a)
    <2>1. PICK a \in Adapters : ProbeBegin(a) \/ RemoveBegin(a) \/ ResumeBegin(a)
      BY <1>1
    <2>2. a # NoId
      BY AdaptersAssumption
    <2>3. QED
      BY <2>1, <2>2 DEF ProbeBegin, RemoveBegin, ResumeBegin, DevBegin, Idle,
         TypeDev, TypeMux, TypeXfer, TypeHw, muxVars, xferVars
  <1>2. CASE \E a \in Adapters : Suspend(a)
    <2>1. PICK a \in Adapters : Suspend(a)
      BY <1>2
    <2>2. SetEn(hw[Sel(a)], FALSE) \in Master
      BY CtrlsType, MasterType DEF TypeMux, TypeHw
    <2>3. TypeHw'
      BY <2>1, <2>2 DEF Suspend, TypeHw
    <2>4. QED
      BY <2>1, <2>3 DEF Suspend, TypeDev, TypeMux, TypeXfer, muxVars, xferVars
  <1>3. CASE DevLock \/ ResumeForget \/ DevUnlock
    BY <1>3 DEF DevLock, ResumeForget, DevUnlock, DevGo,
                TypeDev, TypeMux, TypeXfer, TypeHw, xferVars
  <1>3a. CASE ProbeSelectMux
    <2>1. dev.a \in Adapters
      BY <1>3a DEF ProbeSelectMux, DevGo, TypeDev
    <2>2. QED
      BY <1>3a, <2>1 DEF ProbeSelectMux, DevGo, TypeDev, TypeMux, TypeXfer, TypeHw,
                         xferVars, Muxes
  <1>3b. CASE ProbeMapFails
    BY <1>3b DEF ProbeMapFails, Idle, TypeDev, TypeMux, TypeXfer, TypeHw, xferVars
  <1>4. CASE InitDisable \/ InitIack \/ InitEnable \/ RemoveDisable
    <2>1. dev.pc # "idle" /\ dev.a \in Adapters
      BY <1>4 DEF InitDisable, InitIack, InitEnable, RemoveDisable, DevGo, TypeDev
    <2>2. Sel(dev.a) \in Ctrls /\ hw[Sel(dev.a)] \in Master
      BY <2>1, CtrlsType DEF TypeMux, TypeHw
    <2>3. TypeHw'
      BY <1>4, <2>2, MasterType
         DEF InitDisable, InitIack, InitEnable, RemoveDisable, TypeHw
    <2>4. QED
      BY <1>4, <2>3 DEF InitDisable, InitIack, InitEnable, RemoveDisable, DevGo,
         TypeDev, TypeMux, TypeXfer, muxVars, xferVars
  <1>5. CASE ProbeNoWindow \/ ProbeEnd \/ ResumeEnd \/ RemoveDelAdapter
    BY <1>5, AdaptersAssumption
       DEF ProbeNoWindow, ProbeEnd, ResumeEnd, RemoveDelAdapter, Idle,
           TypeDev, TypeMux, TypeXfer, TypeHw, muxVars, xferVars
  <1>6. CASE Freeze \/ Thaw
    BY <1>6 DEF Freeze, Thaw, TypeDev, TypeMux, TypeXfer, TypeHw, muxVars, xferVars
  <1>6a. CASE ModuleReload
    BY <1>6a DEF ModuleReload, TypeDev, TypeMux, TypeXfer, TypeHw, xferVars
  <1>7. CASE PowerCycle
    <2>1. TypeHw'
      BY <1>7, PowerOffType DEF PowerCycle, TypeHw
    <2>2. QED
      BY <1>7, <2>1 DEF PowerCycle, TypeDev, TypeMux, TypeXfer, xferVars
  <1>8. QED
    BY <1>1, <1>2, <1>3, <1>3a, <1>3b, <1>4, <1>5, <1>6, <1>6a, <1>7 DEF Dev, Power, DevStart

LEMMA HwType ==
    ASSUME TypeOK, NEW c \in Ctrls, HwComplete(c)
    PROVE  TypeOK'
  <1> USE TypeParts
  <1>1. hw[c] \in Master /\ hw[c].op \in Ops /\ Op("fail", 0, 0) \in Ops
    BY OpType DEF TypeHw, Master, OpKinds
  <1>2. PICK r \in Results, e \in Ops :
          /\ hw' = [hw EXCEPT ![c] = [@ EXCEPT !.op = NoOp, !.irq = TRUE,
                          !.busy = hw[c].op.kind # "stop", !.res = r]]
          /\ wire' = [wire EXCEPT ![c] = Append(@, e)]
    BY <1>1 DEF HwComplete, Results
  <1>3. NoOp \in Ops
    BY OpType DEF NoOp, OpKinds
  <1>4. hw' \in [Ctrls -> Master]
    <2>1. [hw[c] EXCEPT !.op = NoOp, !.irq = TRUE,
                        !.busy = hw[c].op.kind # "stop", !.res = r] \in Master
      BY <1>1, <1>3 DEF Master
    <2>2. QED
      BY <1>2, <2>1 DEF TypeHw
  <1>5. wire' \in [Ctrls -> Seq(Ops)]
    BY <1>2 DEF TypeHw
  <1>6. QED
    BY <1>4, <1>5 DEF HwComplete, TypeDev, TypeMux, TypeXfer, TypeHw,
                      devVars, muxVars, xferVars

\* Every variable keeps its type, whatever the devices and the requests.
THEOREM TypeCorrect == Spec => []TypeOK
  <1>1. TypeOK /\ [Next]_vars => TypeOK'
    <2> SUFFICES ASSUME TypeOK, [Next]_vars PROVE TypeOK'
      OBVIOUS
    <2>1. CASE UNCHANGED vars
      BY <2>1 DEF vars, devVars, muxVars, xferVars, TypeOK
    <2>2. QED
      BY <2>1, XferType, DevType, HwType DEF Next
  <1>2. QED
    BY <1>1, InitType, PTL DEF Spec

-----------------------------------------------------------------------------
(* The mux.  A transfer step other than taking or releasing the lock keeps *)
(* the lock, and only the selecting step touches the mux.                  *)

LEMMA InnerSteps ==
    ASSUME NEW a \in Adapters, TypeOK, Xfer(a),
           ~XferSelectMux(a), ~XferReturn(a)
    PROVE  /\ UNCHANGED <<devVars, muxVars>>
           /\ \E q \in Selected : xpc' = [xpc EXCEPT ![a] = q]
           /\ xpc[a] \in Selected
  BY DEF Xfer, XferReadControl, XferWriteControl, XferStart, PollWait, PollTimeout,
         IsrNone, ProcessOver, ProcessError, ProcessByte, ProcessNextMsg,
         ProcessNoStart, ProcessDone, ByteDone, NextByte, Send, Go, Selected

LEMMA MuxInit == Init => MuxInv
  BY AdaptersAssumption
     DEF Init, MuxInv, LockOwner, Initialising, Critical, Selected, Idle

LEMMA MuxXfer ==
    ASSUME TypeOK, MuxInv, NEW a \in Adapters, XferBegin(a) \/ XferLock(a) \/ Xfer(a)
    PROVE  MuxInv'
  <1> USE DEF MuxInv, LockOwner, Initialising, Idle
  <1>0. xpc \in [Adapters -> XferPcs]
    BY DEF TypeOK
  <1>1. CASE XferBegin(a)
    BY <1>0, <1>1, AdaptersAssumption
       DEF XferBegin, Go, Critical, Selected, devVars, muxVars
  <1>2. CASE XferLock(a)
    BY <1>0, <1>2, AdaptersAssumption DEF XferLock, Go, Critical, Selected, devVars
  <1>3. CASE XferSelectMux(a)
    <2>1. lock = a /\ pm = "on" /\ a \in bound
      BY <1>3 DEF XferSelectMux, Go, Critical
    <2>2. muxReg' = Mux[a] /\ lastId' = a
      BY <1>0, <1>3, <2>1, AdaptersAssumption DEF XferSelectMux
    <2>3. QED
      BY <1>0, <1>3, <2>1, <2>2, AdaptersAssumption
         DEF XferSelectMux, Go, Critical, Selected, devVars
  <1>4. CASE XferReturn(a)
    BY <1>0, <1>4, AdaptersAssumption DEF XferReturn, Go, Critical, Selected, devVars
  <1>5. CASE Xfer(a) /\ ~XferSelectMux(a) /\ ~XferReturn(a)
    <2>1. PICK q \in Selected : xpc' = [xpc EXCEPT ![a] = q]
      BY <1>5, InnerSteps
    <2>2. UNCHANGED <<devVars, muxVars>> /\ xpc[a] \in Selected
      BY <1>5, InnerSteps
    <2>3. QED
      BY <1>0, <2>1, <2>2 DEF Critical, Selected, devVars, muxVars
  <1>6. QED
    BY <1>1, <1>2, <1>3, <1>4, <1>5

LEMMA MuxDev ==
    ASSUME TypeOK, MuxInv, Dev \/ Power \/ ModuleReload \/ \E a \in Adapters : DevStart(a)
    PROVE  MuxInv'
  <1> USE DEF MuxInv, LockOwner, Initialising, Idle
  <1>0. /\ lock \in Adapters \cup {DevThread, Free}
        /\ lastId \in Adapters \cup {NoId}
        /\ dev.op = "none" <=> dev.pc = "idle"
        /\ dev \in [op : {"none", "probe", "remove", "resume"},
                    a : Adapters \cup {NoId},
                    pc : {"idle", "lock", "locked", "unlock", "init", "iack",
                          "enable", "end", "disable", "del"}]
    BY DEF TypeOK
  <1>1. CASE \E a \in Adapters : ProbeBegin(a) \/ RemoveBegin(a) \/ ResumeBegin(a)
    BY <1>0, <1>1 DEF ProbeBegin, RemoveBegin, ResumeBegin, DevBegin, muxVars, xferVars
  <1>2. CASE \E a \in Adapters : Suspend(a)
    BY <1>0, <1>2 DEF Suspend, muxVars, xferVars
  <1>3. CASE DevLock
    BY <1>0, <1>3, AdaptersAssumption DEF DevLock, DevGo, xferVars
  <1>4. CASE ProbeSelectMux
    BY <1>0, <1>4, AdaptersAssumption
       DEF ProbeSelectMux, DevGo, xferVars, Critical, Selected
  <1>5. CASE ProbeMapFails
    BY <1>0, <1>5, AdaptersAssumption DEF ProbeMapFails, xferVars
  <1>6. CASE ResumeForget
    BY <1>0, <1>6, AdaptersAssumption
       DEF ResumeForget, DevGo, xferVars, Critical, Selected
  <1>7. CASE DevUnlock
    BY <1>0, <1>7, AdaptersAssumption DEF DevUnlock, DevGo, xferVars
  <1>8. CASE InitDisable \/ InitIack \/ InitEnable \/ RemoveDisable
    <2>1. /\ dev' = [dev EXCEPT !.pc = dev'.pc] /\ dev.pc \notin {"locked", "unlock"}
          /\ dev'.pc \in {"iack", "enable", "end", "del"}
          /\ dev'.pc = "del" => dev.op = "remove"
          /\ dev'.pc # "del" => Initialising
      BY <1>0, <1>8 DEF InitDisable, InitIack, InitEnable, RemoveDisable, DevGo
    <2>2. UNCHANGED <<bound, pm, todo, muxVars, xferVars>>
      BY <1>8 DEF InitDisable, InitIack, InitEnable, RemoveDisable
    <2>3. QED
      BY <1>0, <2>1, <2>2 DEF muxVars, xferVars
  <1>9. CASE ProbeNoWindow \/ ProbeEnd \/ ResumeEnd \/ RemoveDelAdapter
    BY <1>0, <1>9 DEF ProbeNoWindow, ProbeEnd, ResumeEnd, RemoveDelAdapter,
                       muxVars, xferVars
  <1>10. CASE Power
    <2>1. CASE Freeze
      BY <1>0, <2>1 DEF Freeze, muxVars, xferVars
    <2>2. CASE PowerCycle
      <3>1. /\ pm = "suspending" /\ pm' = "resuming" /\ dev = Idle
            /\ todo' = bound /\ UNCHANGED <<bound, dev, lock, lastId, xpc>>
        BY <2>2 DEF PowerCycle, xferVars
      <3>2. \A a \in Adapters : xpc[a] = "idle"
        BY <3>1
      <3>3. \A a \in Adapters : xpc'[a] \notin Selected
        BY <3>1, <3>2 DEF Selected
      <3>4. QED
        BY <3>1, <3>2, <3>3
    <2>3. CASE Thaw
      BY <1>0, <2>3 DEF Thaw, muxVars, xferVars
    <2>4. QED
      BY <1>10, <2>1, <2>2, <2>3 DEF Power
  <1>11. CASE ModuleReload
    BY <1>0, <1>11 DEF ModuleReload, xferVars, Critical, Selected
  <1>12. QED
    BY <1>1, <1>2, <1>3, <1>4, <1>5, <1>6, <1>7, <1>8, <1>9, <1>10, <1>11
       DEF Dev, DevStart

LEMMA MuxStep == TypeOK /\ MuxInv /\ [Next]_vars => MuxInv'
  <1> SUFFICES ASSUME TypeOK, MuxInv, [Next]_vars PROVE MuxInv'
    OBVIOUS
  <1>1. CASE UNCHANGED vars
    BY <1>1 DEF vars, devVars, muxVars, xferVars, MuxInv, LockOwner, Initialising
  <1>2. CASE \E c \in Ctrls : HwComplete(c)
    BY <1>2 DEF HwComplete, devVars, muxVars, xferVars, MuxInv, LockOwner, Initialising
  <1>3. QED
    BY <1>1, <1>2, MuxXfer, MuxDev DEF Next

\* The lock, the mux and last_id agree in every state: the strengthening the
\* two theorems below rest on.
THEOREM MuxCorrect == Spec => []MuxInv
  BY MuxInit, MuxStep, TypeCorrect, PTL DEF Spec

\* From the selection of its port until it unlocks, every register access of
\* a transfer reaches the master of its own port.
THEOREM OwnPort == Spec => []XferAddressesOwnPort
  <1>1. MuxInv => XferAddressesOwnPort
    BY DEF MuxInv, XferAddressesOwnPort, Sel, Own
  <1>2. QED
    BY <1>1, MuxCorrect, PTL

\* When the next transfer may rely on last_id, it is right.
THEOREM LastIdCorrect == Spec => []LastIdTrusted
  <1>1. MuxInv => LastIdTrusted
    BY DEF MuxInv, LastIdTrusted
  <1>2. QED
    BY <1>1, MuxCorrect, PTL

-----------------------------------------------------------------------------
(* The script of a request: its places are finite and in order, each but   *)
(* the first is preceded by one, and the event of a place is at its rank.  *)

LEMMA MessageType ==
    ASSUME NEW r \in Seq(Message), NEW m \in 1..Len(r)
    PROVE  /\ r[m] \in Message /\ r[m].len \in Nat /\ r[m].rd \in BOOLEAN
           /\ Atomic!First(r, m) \in {0, 1}
  <1>1. r[m] \in Message
    OBVIOUS
  <1>2. Atomic!First(r, m) \in {0, 1}
    BY DEF Atomic!First
  <1>3. QED
    BY <1>1, <1>2 DEF Message

\* The instance has a Cardinality of its own.
LEMMA CardSame == \A S : Atomic!Cardinality(S) = Cardinality(S)
  BY DEF Atomic!Cardinality, Cardinality

\* The places of a script, spelled out.
LEMMA PlaceIs ==
    ASSUME NEW r \in Seq(Message)
    PROVE  /\ Atomic!End(r) \in Atomic!Places(r)
           /\ \A m \in 1..Len(r) : \A p \in Nat :
                 <<m, p>> \in Atomic!Places(r) <=>
                    Atomic!First(r, m) <= p /\ p <= r[m].len
           /\ \A e \in Atomic!Places(r) :
                 \/ e = Atomic!End(r)
                 \/ \E m \in 1..Len(r) : \E p \in Nat : e = <<m, p>>
  <1>1. \A m \in 1..Len(r) : r[m].len \in Nat /\ Atomic!First(r, m) \in {0, 1}
    BY MessageType
  <1>2. \A e : e \in Atomic!Places(r) <=>
           \/ e = Atomic!End(r)
           \/ \E m \in 1..Len(r) : e \in {m} \X (Atomic!First(r, m)..r[m].len)
    BY DEF Atomic!Places
  <1>3. \A m, n, p : <<n, p>> \in {m} \X (Atomic!First(r, m)..r[m].len) <=>
                     n = m /\ p \in Atomic!First(r, m)..r[m].len
    OBVIOUS
  <1>4. Len(r) \in Nat
    OBVIOUS
  <1>5. ASSUME NEW m \in 1..Len(r), NEW p \in Nat
        PROVE  <<m, p>> \in Atomic!Places(r) <=>
                  Atomic!First(r, m) <= p /\ p <= r[m].len
    <2>1. <<m, p>> # Atomic!End(r)
      BY <1>4 DEF Atomic!End
    <2>2. <<m, p>> \in Atomic!Places(r) <=> p \in Atomic!First(r, m)..r[m].len
      BY <1>2, <1>3, <2>1
    <2>3. QED
      BY <1>1, <2>2
  <1>6. ASSUME NEW e \in Atomic!Places(r), e # Atomic!End(r)
        PROVE  \E m \in 1..Len(r) : \E p \in Nat : e = <<m, p>>
    <2>1. PICK m \in 1..Len(r) : e \in {m} \X (Atomic!First(r, m)..r[m].len)
      BY <1>2, <1>6
    <2>2. PICK p \in Atomic!First(r, m)..r[m].len : e = <<m, p>>
      BY <2>1
    <2>3. p \in Nat
      BY <1>1, <2>2
    <2>4. QED
      BY <2>2, <2>3
  <1>7. QED
    BY <1>2, <1>5, <1>6

LEMMA PlacesFinite ==
    ASSUME NEW r \in Seq(Message)
    PROVE  IsFiniteSet(Atomic!Places(r))
  <1> DEFINE Bytes(m) == {m} \X (Atomic!First(r, m)..r[m].len)
             family   == {Bytes(m) : m \in 1..Len(r)}
             f        == [m \in 1..Len(r) |-> Bytes(m)]
  <1>1. \A m \in 1..Len(r) : IsFiniteSet(Bytes(m))
    <2> TAKE m \in 1..Len(r)
    <2>1. Atomic!First(r, m) \in Int /\ r[m].len \in Int
      BY MessageType
    <2>2. IsFiniteSet(Atomic!First(r, m)..r[m].len)
      BY <2>1, FS_Interval
    <2>3. IsFiniteSet({m})
      BY FS_Singleton
    <2>4. QED
      BY <2>2, <2>3, FS_Product
  <1>2. IsFiniteSet(family)
    <2>1. f \in Surjection(1..Len(r), family)
      BY DEF Surjection
    <2>2. IsFiniteSet(1..Len(r))
      BY FS_Interval
    <2>3. QED
      BY <2>1, <2>2, FS_Surjection
  <1>3. IsFiniteSet(UNION family)
    BY <1>1, <1>2, FS_UNION
  <1>4. IsFiniteSet((UNION family) \cup {Atomic!End(r)})
    BY <1>3, FS_AddElement
  <1>5. Atomic!Places(r) = (UNION family) \cup {Atomic!End(r)}
    BY DEF Atomic!Places
  <1>6. QED
    BY <1>4, <1>5

\* The order of the places is total and strict.
LEMMA PlaceOrder ==
    ASSUME NEW r \in Seq(Message)
    PROVE  \A e, f, g \in Atomic!Places(r) :
             /\ ~Atomic!Before(e, e)
             /\ Atomic!Before(e, f) => ~Atomic!Before(f, e)
             /\ Atomic!Before(e, f) /\ Atomic!Before(f, g) => Atomic!Before(e, g)
             /\ e # f => Atomic!Before(e, f) \/ Atomic!Before(f, e)
  <1>1. \A e \in Atomic!Places(r) : \E m, p \in Nat : e = <<m, p>>
    <2>1. Len(r) + 1 \in Nat /\ 1..Len(r) \subseteq Nat
      OBVIOUS
    <2>2. Atomic!End(r) = <<Len(r) + 1, 0>>
      BY DEF Atomic!End
    <2>3. QED
      BY <2>1, <2>2, PlaceIs
  <1>2. QED
    BY <1>1 DEF Atomic!Before

LEMMA RankType ==
    ASSUME NEW r \in Seq(Message), NEW e
    PROVE  /\ IsFiniteSet({f \in Atomic!Places(r) : Atomic!Before(f, e)})
           /\ Atomic!Rank(r, e) \in Nat
  <1>1. IsFiniteSet({f \in Atomic!Places(r) : Atomic!Before(f, e)})
    BY PlacesFinite, FS_Subset
  <1>2. QED
    BY <1>1, FS_CardinalityType, CardSame DEF Atomic!Rank

\* The place that follows e has the next rank.
LEMMA RankNext ==
    ASSUME NEW r \in Seq(Message), NEW e \in Atomic!Places(r), NEW f,
           \A g \in Atomic!Places(r) :
              Atomic!Before(g, f) <=> Atomic!Before(g, e) \/ g = e
    PROVE  Atomic!Rank(r, f) = Atomic!Rank(r, e) + 1
  <1> DEFINE Prior(x) == {g \in Atomic!Places(r) : Atomic!Before(g, x)}
  <1>1. Prior(f) = Prior(e) \cup {e}
    OBVIOUS
  <1>2. IsFiniteSet(Prior(e)) /\ e \notin Prior(e)
    BY RankType, PlaceOrder
  <1>3. Cardinality(Prior(e) \cup {e}) = Cardinality(Prior(e)) + 1
    BY <1>2, FS_AddElement
  <1>4. QED
    BY <1>1, <1>3, CardSame DEF Atomic!Rank

LEMMA RankMono ==
    ASSUME NEW r \in Seq(Message), NEW e \in Atomic!Places(r),
           NEW f \in Atomic!Places(r)
    PROVE  /\ Atomic!Before(e, f) => Atomic!Rank(r, e) < Atomic!Rank(r, f)
           /\ Atomic!Rank(r, e) = Atomic!Rank(r, f) => e = f
           /\ Atomic!Rank(r, e) < Cardinality(Atomic!Places(r))
  <1> DEFINE Prior(x) == {g \in Atomic!Places(r) : Atomic!Before(g, x)}
  <1>1. ASSUME NEW x \in Atomic!Places(r), NEW S \in SUBSET Atomic!Places(r),
               Prior(x) \subseteq S, x \in S
        PROVE  Atomic!Rank(r, x) < Cardinality(S)
    <2>1. IsFiniteSet(S) /\ IsFiniteSet(Prior(x)) /\ x \notin Prior(x)
      BY PlacesFinite, FS_Subset, RankType, PlaceOrder
    <2>2. Cardinality(Prior(x) \cup {x}) = Cardinality(Prior(x)) + 1
      BY <2>1, FS_AddElement
    <2>3. Cardinality(Prior(x) \cup {x}) <= Cardinality(S)
      <3>1. Prior(x) \cup {x} \in SUBSET S
        BY <1>1
      <3>2. QED
        BY <2>1, <3>1, FS_Subset
    <2>4. Cardinality(S) \in Nat /\ Cardinality(Prior(x)) \in Nat
          /\ Cardinality(Prior(x) \cup {x}) \in Nat
      BY <2>1, <2>2, FS_CardinalityType
    <2> HIDE DEF Prior
    <2>5. Atomic!Rank(r, x) = Cardinality(Prior(x))
      BY CardSame DEF Atomic!Rank, Prior
    <2>6. QED
      BY <2>2, <2>3, <2>4, <2>5
  <1>2. \A x, y \in Atomic!Places(r) :
           Atomic!Before(x, y) => Atomic!Rank(r, x) < Atomic!Rank(r, y)
    <2> SUFFICES ASSUME NEW x \in Atomic!Places(r), NEW y \in Atomic!Places(r),
                        Atomic!Before(x, y)
                 PROVE  Atomic!Rank(r, x) < Atomic!Rank(r, y)
      OBVIOUS
    <2>1. Prior(x) \subseteq Prior(y) /\ x \in Prior(y)
      BY PlaceOrder
    <2>2. Atomic!Rank(r, x) < Cardinality(Prior(y))
      BY <1>1, <2>1
    <2>3. QED
      BY <2>2, CardSame DEF Atomic!Rank
  <1>3. Atomic!Rank(r, e) < Cardinality(Atomic!Places(r))
    BY <1>1
  <1>4. Atomic!Rank(r, e) \in Nat /\ Atomic!Rank(r, f) \in Nat
    BY RankType
  <1>5. QED
    BY <1>2, <1>3, <1>4, PlaceOrder

\* The script holds the event of each place at its rank.
LEMMA ScriptAt ==
    ASSUME NEW r \in Seq(Message)
    PROVE  /\ Len(Atomic!Script(r)) = Cardinality(Atomic!Places(r))
           /\ Cardinality(Atomic!Places(r)) \in Nat
           /\ \A e \in Atomic!Places(r) :
                 /\ Atomic!Script(r)[Atomic!Rank(r, e) + 1] = Atomic!EventAt(r, e)
                 /\ Atomic!Rank(r, e) + 1 \in 1..Len(Atomic!Script(r))
  <1> DEFINE n == Cardinality(Atomic!Places(r))
             at == [k \in 1..n |-> Atomic!EventAt(r, Atomic!PlaceOf(r, k))]
  <1>1. n \in Nat
    BY PlacesFinite, FS_CardinalityType
  <1>2. Atomic!Script(r) = at
    BY CardSame DEF Atomic!Script
  <1>3. Len(at) = n
    <2> HIDE DEF n
    <2>1. QED
      BY <1>1
  <1>4. ASSUME NEW e \in Atomic!Places(r)
        PROVE  /\ Atomic!PlaceOf(r, Atomic!Rank(r, e) + 1) = e
               /\ Atomic!Rank(r, e) + 1 \in 1..n
    <2>1. Atomic!Rank(r, e) \in Nat /\ Atomic!Rank(r, e) < n
      BY RankType, RankMono
    <2>2. \A f \in Atomic!Places(r) : Atomic!Rank(r, f) \in Nat
      BY RankType
    <2>3. \A f \in Atomic!Places(r) :
             Atomic!Rank(r, f) = (Atomic!Rank(r, e) + 1) - 1 <=> f = e
      BY <2>1, <2>2, RankMono
    <2>4. Atomic!PlaceOf(r, Atomic!Rank(r, e) + 1) = e
      BY <2>3 DEF Atomic!PlaceOf
    <2>5. QED
      BY <1>1, <2>1, <2>4
  <1> HIDE DEF n
  <1>5. QED
    BY <1>1, <1>2, <1>3, <1>4 DEF n

\* What follows the START or a byte of message m, what follows its last, and
\* the place after the last message.
LEMMA PlaceNext ==
    ASSUME NEW r \in Seq(Message), NEW m \in 1..Len(r), NEW p \in Nat,
           <<m, p>> \in Atomic!Places(r)
    PROVE  /\ p # r[m].len =>
                /\ <<m, p + 1>> \in Atomic!Places(r)
                /\ Atomic!Rank(r, <<m, p + 1>>) = Atomic!Rank(r, <<m, p>>) + 1
           /\ p = r[m].len /\ m # Len(r) /\ Atomic!First(r, m + 1) <= r[m + 1].len =>
                /\ <<m + 1, Atomic!First(r, m + 1)>> \in Atomic!Places(r)
                /\ Atomic!Rank(r, <<m + 1, Atomic!First(r, m + 1)>>)
                      = Atomic!Rank(r, <<m, p>>) + 1
           /\ p = r[m].len /\ m = Len(r) =>
                Atomic!Rank(r, Atomic!End(r)) = Atomic!Rank(r, <<m, p>>) + 1
  <1> DEFINE After(f) == \A g \in Atomic!Places(r) :
                 Atomic!Before(g, f) <=> Atomic!Before(g, <<m, p>>) \/ g = <<m, p>>
  <1>1. \A f : After(f) => Atomic!Rank(r, f) = Atomic!Rank(r, <<m, p>>) + 1
    BY RankNext
  <1>2. /\ \A n \in 1..Len(r) : r[n].len \in Nat /\ Atomic!First(r, n) \in {0, 1}
        /\ Len(r) \in Nat /\ m \in Nat /\ Atomic!End(r) = <<Len(r) + 1, 0>>
    BY MessageType DEF Atomic!End
  <1>3. /\ Atomic!First(r, m) <= p /\ p <= r[m].len
        /\ \A n \in 1..Len(r) : \A q \in Nat :
              <<n, q>> \in Atomic!Places(r) <=>
                 Atomic!First(r, n) <= q /\ q <= r[n].len
        /\ \A g \in Atomic!Places(r) :
              \/ g = <<Len(r) + 1, 0>>
              \/ \E n \in 1..Len(r) : \E q \in Nat : g = <<n, q>>
    BY PlaceIs, <1>2
  <1>4. CASE p # r[m].len
    <2>0. /\ p + 1 \in Nat /\ r[m].len \in Nat /\ Atomic!First(r, m) \in {0, 1}
          /\ Atomic!First(r, m) <= p /\ p <= r[m].len
      BY <1>2, <1>3
    <2>1. <<m, p + 1>> \in Atomic!Places(r)
      BY <1>4, <2>0, PlaceIs
    <2>2. After(<<m, p + 1>>)
      BY <1>2, <1>3 DEF Atomic!Before
    <2>3. QED
      BY <1>1, <1>4, <2>1, <2>2
  <1>5. CASE p = r[m].len /\ m # Len(r) /\ Atomic!First(r, m + 1) <= r[m + 1].len
    <2> DEFINE f == <<m + 1, Atomic!First(r, m + 1)>>
    <2>1. m + 1 \in 1..Len(r) /\ Atomic!First(r, m + 1) \in Nat
      BY <1>2, <1>5
    <2>2. f \in Atomic!Places(r)
      BY <1>2, <1>3, <1>5, <2>1
    <2>3. After(f)
      <3> SUFFICES ASSUME NEW g \in Atomic!Places(r)
                   PROVE  Atomic!Before(g, f) <=>
                             Atomic!Before(g, <<m, p>>) \/ g = <<m, p>>
        OBVIOUS
      <3>1. CASE g = <<Len(r) + 1, 0>>
        BY <1>2, <1>5, <2>1, <3>1 DEF Atomic!Before
      <3>2. CASE \E n \in 1..Len(r) : \E q \in Nat : g = <<n, q>>
        <4>1. PICK n \in 1..Len(r) : \E q \in Nat : g = <<n, q>>
          BY <3>2
        <4>2. PICK q \in Nat : g = <<n, q>>
          BY <4>1
        <4>3. Atomic!First(r, n) <= q /\ q <= r[n].len
          BY <1>3, <4>2
        <4>4. QED
          BY <1>2, <1>5, <2>1, <4>2, <4>3 DEF Atomic!Before
      <3>3. QED
        BY <1>3, <3>1, <3>2
    <2>4. QED
      BY <1>1, <1>5, <2>2, <2>3
  <1>6. CASE p = r[m].len /\ m = Len(r)
    <2>1. After(Atomic!End(r))
      BY <1>2, <1>3, <1>6 DEF Atomic!Before
    <2>2. QED
      BY <1>1, <1>6, <2>1
  <1>7. QED
    BY <1>4, <1>5, <1>6

\* The script starts with the START of the first message and ends with STOP.
LEMMA PlaceEnds ==
    ASSUME NEW r \in Seq(Message), r # <<>>
    PROVE  /\ <<1, 0>> \in Atomic!Places(r) /\ Atomic!Rank(r, <<1, 0>>) = 0
           /\ Atomic!Rank(r, Atomic!End(r)) + 1 = Len(Atomic!Script(r))
           /\ Atomic!Rank(r, Atomic!End(r)) > 0
  <1>1. /\ \A n \in 1..Len(r) : r[n].len \in Nat /\ Atomic!First(r, n) \in {0, 1}
        /\ Len(r) \in Nat /\ 1 \in 1..Len(r) /\ Atomic!First(r, 1) = 0
        /\ Atomic!End(r) = <<Len(r) + 1, 0>>
    BY MessageType DEF Atomic!End, Atomic!First
  <1>2. /\ \A g \in Atomic!Places(r) :
              \/ g = <<Len(r) + 1, 0>>
              \/ \E n \in 1..Len(r) : \E q \in Nat : g = <<n, q>>
        /\ Atomic!End(r) \in Atomic!Places(r)
    BY PlaceIs, <1>1
  <1>3. <<1, 0>> \in Atomic!Places(r)
    BY PlaceIs, <1>1
  <1>4. Atomic!Rank(r, <<1, 0>>) = 0
    <2>1. \A g \in Atomic!Places(r) : ~Atomic!Before(g, <<1, 0>>)
      BY <1>1, <1>2 DEF Atomic!Before
    <2>2. {g \in Atomic!Places(r) : Atomic!Before(g, <<1, 0>>)} = {}
      BY <2>1
    <2>3. QED
      BY <2>2, FS_EmptySet, CardSame DEF Atomic!Rank
  <1>5. Atomic!Rank(r, Atomic!End(r)) + 1 = Cardinality(Atomic!Places(r))
    <2> DEFINE prior == {g \in Atomic!Places(r) : Atomic!Before(g, Atomic!End(r))}
    <2>1. \A g \in Atomic!Places(r) : Atomic!Before(g, Atomic!End(r)) \/ g = Atomic!End(r)
      BY <1>1, <1>2 DEF Atomic!Before
    <2>2. Atomic!Places(r) = prior \cup {Atomic!End(r)}
      BY <1>2, <2>1
    <2>3. IsFiniteSet(prior) /\ Atomic!End(r) \notin prior
      BY <1>2, RankType, PlaceOrder
    <2>4. Cardinality(prior \cup {Atomic!End(r)}) = Cardinality(prior) + 1
      BY <2>3, FS_AddElement
    <2>5. QED
      BY <2>2, <2>4, CardSame DEF Atomic!Rank
  <1>6. Atomic!Rank(r, Atomic!End(r)) > 0
    <2>1. Atomic!Before(<<1, 0>>, Atomic!End(r))
      BY <1>1 DEF Atomic!Before
    <2>2. Atomic!Rank(r, <<1, 0>>) < Atomic!Rank(r, Atomic!End(r))
      BY <1>2, <1>3, <2>1, RankMono
    <2>3. QED
      BY <1>4, <2>2
  <1>7. QED
    BY <1>3, <1>4, <1>5, <1>6, ScriptAt

\* The bytes read up to and including the event of place e.
LEMMA ReadsNext ==
    ASSUME NEW r \in Seq(Message), NEW e \in Atomic!Places(r)
    PROVE  Atomic!Reads(r, Atomic!Rank(r, e) + 1) =
              Atomic!Reads(r, Atomic!Rank(r, e)) \cup
              (IF Atomic!IsRead(r, e)
                 THEN {<<e[1], e[2] - 1, Atomic!Rank(r, e) + 1>>} ELSE {})
  <1> DEFINE k == Atomic!Rank(r, e)
             Byte(f) == <<f[1], f[2] - 1, Atomic!Rank(r, f) + 1>>
             Upto(n) == {f \in Atomic!Places(r) :
                            Atomic!IsRead(r, f) /\ Atomic!Rank(r, f) < n}
  <1>1. \A f \in Atomic!Places(r) :
           Atomic!Rank(r, f) < k + 1 <=> Atomic!Rank(r, f) < k \/ f = e
    <2>1. k \in Nat /\ \A f \in Atomic!Places(r) : Atomic!Rank(r, f) \in Nat
      BY RankType
    <2>2. \A f \in Atomic!Places(r) : Atomic!Rank(r, f) = k => f = e
      BY RankMono
    <2> HIDE DEF k
    <2>3. QED
      BY <2>1, <2>2 DEF k
  <1>2. Upto(k + 1) = Upto(k) \cup (IF Atomic!IsRead(r, e) THEN {e} ELSE {})
    BY <1>1
  <1>3. \A n : Atomic!Reads(r, n) = {Byte(f) : f \in Upto(n)}
    BY DEF Atomic!Reads
  <1>4. \A S, T : {Byte(f) : f \in S \cup T} = {Byte(f) : f \in S} \cup {Byte(f) : f \in T}
    OBVIOUS
  <1>5. Byte(e) = <<e[1], e[2] - 1, k + 1>>
    OBVIOUS
  <1>6. {Byte(f) : f \in (IF Atomic!IsRead(r, e) THEN {e} ELSE {})}
           = IF Atomic!IsRead(r, e) THEN {Byte(e)} ELSE {}
    OBVIOUS
  <1> HIDE DEF k, Byte, Upto
  <1>7. QED
    BY <1>2, <1>3, <1>4, <1>5, <1>6 DEF k

LEMMA ReadsNone == ASSUME NEW r \in Seq(Message) PROVE Atomic!Reads(r, 0) = {}
  <1>1. \A f \in Atomic!Places(r) : ~(Atomic!Rank(r, f) < 0)
    <2>1. \A f : Atomic!Rank(r, f) \in Nat
      BY RankType
    <2>2. QED
      BY <2>1
  <1>2. QED
    BY <1>1 DEF Atomic!Reads

\* The events of the places.
LEMMA EventIs ==
    ASSUME NEW r \in Seq(Message)
    PROVE  /\ Atomic!EventAt(r, Atomic!End(r)) = Op("stop", 0, 0)
           /\ ~Atomic!IsRead(r, Atomic!End(r))
           /\ \A m \in 1..Len(r) : \A p \in Nat :
                /\ <<m, p>> # Atomic!End(r)
                /\ Atomic!IsRead(r, <<m, p>>) <=> p > 0 /\ r[m].rd
                /\ p = 0 => Atomic!EventAt(r, <<m, p>>) = Op("start", m, 0)
                /\ p > 0 /\ ~r[m].rd =>
                      Atomic!EventAt(r, <<m, p>>) = Op("write", m, p - 1)
                /\ p > 0 /\ r[m].rd =>
                      Atomic!EventAt(r, <<m, p>>) =
                         Op(IF p = r[m].len THEN "readnack" ELSE "read", 0, 0)
  <1>1. \A m \in 1..Len(r) : \A p \in Nat : <<m, p>> # Atomic!End(r)
    BY DEF Atomic!End
  <1>2. ~Atomic!IsRead(r, Atomic!End(r))
    BY DEF Atomic!IsRead
  <1>3. \A m \in 1..Len(r) : \A p \in Nat :
           Atomic!IsRead(r, <<m, p>>) <=> p > 0 /\ r[m].rd
    BY <1>1, Zenon DEF Atomic!IsRead
  <1>4. \A k, m, p : Atomic!Op(k, m, p) = Op(k, m, p)
    BY DEF Atomic!Op, Op
  <1>5. Atomic!EventAt(r, Atomic!End(r)) = Op("stop", 0, 0)
    BY <1>4 DEF Atomic!EventAt, Atomic!Stop
  <1>6. QED
    BY <1>1, <1>2, <1>3, <1>4, <1>5 DEF Atomic!EventAt

\* No event of a place before the last is a STOP, and none is a failure.
LEMMA EventKinds ==
    ASSUME NEW r \in Seq(Message), NEW e \in Atomic!Places(r)
    PROVE  /\ Atomic!EventAt(r, e) \in Ops /\ Atomic!EventAt(r, e) # NoOp
           /\ Atomic!EventAt(r, e) # Op("fail", 0, 0)
           /\ e # Atomic!End(r) =>
                Atomic!EventAt(r, e).kind \in {"start", "write", "read", "readnack"}
           /\ e = Atomic!End(r) => Atomic!EventAt(r, e).kind = "stop"
  <1>1. CASE e = Atomic!End(r)
    BY <1>1, EventIs DEF Op, Ops, OpKinds, NoOp
  <1>2. CASE e # Atomic!End(r)
    <2>1. PICK m \in 1..Len(r), p \in Nat : e = <<m, p>>
      BY <1>2, PlaceIs
    <2>2. r[m].rd \in BOOLEAN
      BY MessageType
    <2>3. p > 0 => p - 1 \in Nat
      OBVIOUS
    <2>4. \E k \in {"start", "write", "read", "readnack"} : \E n, q \in Nat :
             Atomic!EventAt(r, e) = Op(k, n, q)
      <3>1. CASE p = 0
        BY <2>1, <3>1, EventIs
      <3>2. CASE p > 0 /\ r[m].rd
        <4>1. Atomic!EventAt(r, e) =
                 Op(IF p = r[m].len THEN "readnack" ELSE "read", 0, 0)
          BY <2>1, <3>2, EventIs
        <4>2. QED
          BY <4>1
      <3>3. CASE p > 0 /\ ~r[m].rd
        <4>1. Atomic!EventAt(r, e) = Op("write", m, p - 1)
          BY <2>1, <3>3, EventIs
        <4>2. QED
          BY <2>3, <3>3, <4>1
      <3>4. QED
        BY <3>1, <3>2, <3>3
    <2>5. QED
      BY <1>2, <2>4 DEF Op, Ops, OpKinds, NoOp
  <1>3. QED
    BY <1>1, <1>2

-----------------------------------------------------------------------------
(* TransferInv.  A step of the transfer in hand changes the state of its   *)
(* adapter and of its own master only.                                     *)

\* What the operations on a master do to its fields.
LEMMA MasterFields ==
    ASSUME NEW h \in Master, ~h.en => h.op = NoOp
    PROVE  /\ \A o \in Ops :
                /\ Command(h, o).op = (IF h.en THEN o ELSE NoOp)
                /\ Command(h, o).en = h.en /\ Command(h, o).busy = h.busy
                /\ ~Command(h, o).irq
           /\ /\ Iack(h).op = h.op /\ Iack(h).en = h.en
              /\ Iack(h).busy = h.busy /\ ~Iack(h).irq
           /\ \A e \in BOOLEAN :
                /\ SetEn(h, e).op = (IF e THEN h.op ELSE NoOp)
                /\ SetEn(h, e).en = e /\ SetEn(h, e).busy = h.busy
                /\ SetEn(h, e).irq = h.irq /\ SetEn(h, e).res = h.res
  <1>1. /\ Iack(h).op = h.op /\ Iack(h).en = h.en /\ Iack(h).busy = h.busy
        /\ ~Iack(h).irq /\ Iack(h) \in Master
    BY MasterType DEF Master, Iack
  <1>2. ASSUME NEW o \in Ops
        PROVE  /\ Command(h, o).op = (IF h.en THEN o ELSE NoOp)
               /\ Command(h, o).en = h.en /\ Command(h, o).busy = h.busy
               /\ ~Command(h, o).irq
    BY <1>1 DEF Master, Command
  <1>3. ASSUME NEW e \in BOOLEAN
        PROVE  /\ SetEn(h, e).op = (IF e THEN h.op ELSE NoOp)
               /\ SetEn(h, e).en = e /\ SetEn(h, e).busy = h.busy
               /\ SetEn(h, e).irq = h.irq /\ SetEn(h, e).res = h.res
    BY DEF Master, SetEn
  <1>4. QED
    BY <1>1, <1>2, <1>3

LEMMA FollowsAppend ==
    ASSUME NEW w \in Seq(Ops), NEW x \in Ops, NEW r, NEW n \in Nat, Follows(w, r, n),
           Len(Atomic!Script(r)) \in Nat
    PROVE  /\ Follows(Append(w, x), r, n)
           /\ Len(w) = n /\ n + 1 <= Len(Atomic!Script(r)) /\ Atomic!Script(r)[n + 1] = x
                => Follows(Append(w, x), r, n + 1)
  <1>1. /\ Len(w) \in Nat /\ Len(Append(w, x)) = Len(w) + 1
        /\ \A i \in 1..Len(w) : Append(w, x)[i] = w[i]
        /\ Append(w, x)[Len(w) + 1] = x
    OBVIOUS
  <1>2. QED
    BY <1>1 DEF Follows

\* Only the owner of the lock moves, and it is alone between lock and unlock.
LEMMA XferAlone ==
    ASSUME TypeOK, MuxInv, NEW a \in Adapters, Xfer(a)
    PROVE  /\ lock = a /\ xpc[a] \in Critical
           /\ \A b \in Adapters : b # a =>
                /\ ~Running(b) /\ ~Running(b)' /\ Own(b) # Own(a)
                /\ xpc'[b] = xpc[b] /\ req'[b] = req[b]
  <1>1. xpc[a] \in Critical /\ \E q \in XferPcs : xpc' = [xpc EXCEPT ![a] = q]
    BY DEF Xfer, XferSelectMux, XferReadControl, XferWriteControl, XferStart, PollWait,
         PollTimeout, IsrNone, ProcessOver, ProcessError, ProcessByte, ProcessNextMsg,
         ProcessNoStart, ProcessDone, XferReturn, ByteDone, NextByte, Send, Go,
         Critical, Selected, XferPcs
  <1>2. lock = a
    BY <1>1 DEF MuxInv, LockOwner
  <1>3. \A b \in Adapters : req'[b] = req[b] \/ b = a
    BY DEF Xfer, XferSelectMux, XferReadControl, XferWriteControl, XferStart, PollWait,
         PollTimeout, IsrNone, ProcessOver, ProcessError, ProcessByte, ProcessNextMsg,
         ProcessNoStart, ProcessDone, XferReturn, ByteDone, NextByte, Send, TypeOK
  <1>4. ASSUME NEW b \in Adapters, b # a
        PROVE  xpc'[b] = xpc[b] /\ xpc[b] \notin Critical
    BY <1>1, <1>2, <1>4 DEF MuxInv, LockOwner, TypeOK
  <1>5. QED
    BY <1>1, <1>2, <1>3, <1>4, AdaptersAssumption DEF Running, Critical, Selected

\* A transfer on the wire has a request and drives the master of its port.
LEMMA RunningFacts ==
    ASSUME TypeOK, MuxInv, TransferInv, NEW a \in Adapters, Running(a)
    PROVE  /\ Sel(a) = Own(a) /\ Own(a) \in Ctrls
           /\ req[a] \in Requests /\ req[a] \in Seq(Message) /\ req[a] # <<>>
           /\ hw[Own(a)] \in Master /\ (~hw[Own(a)].en => hw[Own(a)].op = NoOp)
           /\ wire[Own(a)] \in Seq(Ops)
           /\ st[a] \in {"START", "WRITE", "READ", "DONE", "ERROR"}
           /\ pos[a] \in Nat /\ mi[a] \in Nat
           /\ WireInv(a)
  <1>1. Sel(a) = Own(a)
    BY DEF MuxInv, Running, Selected, Sel, Own
  <1>2. Own(a) \in Ctrls
    BY CtrlsType
  <1>3. req[a] \in Requests
    <2>1. req[a] \in Requests \cup {<<>>} /\ xpc[a] # "idle"
      BY DEF TypeOK, Running
    <2>2. req[a] # <<>>
      BY <2>1 DEF TransferInv
    <2>3. QED
      BY <2>1, <2>2
  <1>4. req[a] \in Seq(Message) /\ req[a] # <<>>
    BY <1>3, RequestsAssumption
  <1>5. hw[Own(a)] \in Master /\ wire[Own(a)] \in Seq(Ops)
    BY <1>2 DEF TypeOK, Master
  <1>6. QED
    BY <1>1, <1>2, <1>3, <1>4, <1>5 DEF TransferInv, TypeOK

\* A step of the owner's transfer keeps the invariant when the owner does.
LEMMA OwnerKeeps ==
    ASSUME TypeOK, MuxInv, TransferInv, NEW a \in Adapters, Xfer(a),
           Running(a)' => WireInv(a)',
           \A c \in Ctrls : ~hw'[c].en => hw'[c].op = NoOp,
           xpc'[a] = "idle" <=> req'[a] = <<>>
    PROVE  TransferInv'
  <1>1. \A b \in Adapters : xpc'[b] = "idle" <=> req'[b] = <<>>
    BY XferAlone DEF TransferInv
  <1>2. \A b \in Adapters : Running(b)' => WireInv(b)'
    BY XferAlone
  <1>3. QED
    BY <1>1, <1>2 DEF TransferInv

-----------------------------------------------------------------------------
(* A byte went through.                                                    *)

LEMMA ByteThrough ==
    ASSUME TypeOK, MuxInv, TransferInv, NEW a \in Adapters, ByteDone(a)
    PROVE  /\ Running(a) /\ st[a] \in {"START", "WRITE", "READ"}
           /\ mi[a] \in 1..Len(req[a]) /\ NewPos(a) \in Nat
           /\ Place(a) = <<mi[a], NewPos(a)>> /\ Place(a) \in Atomic!Places(req[a])
           /\ Through(hw[Own(a)], wire[Own(a)], req[a], Place(a))
           /\ buf'[a] = Atomic!Reads(req[a], Atomic!Rank(req[a], Place(a)) + 1)
  <1> DEFINE h == hw[Own(a)]
             w == wire[Own(a)]
             r == req[a]
             e == Place(a)
  <1>1. Running(a) /\ xpc[a] = "isr"
    BY DEF ByteDone, Go, Running
  <1>2. /\ Sel(a) = Own(a) /\ r \in Seq(Message) /\ h \in Master /\ w \in Seq(Ops)
        /\ pos[a] \in Nat /\ mi[a] \in Nat /\ WireInv(a)
    BY <1>1, RunningFacts
  <1>3. /\ h.irq /\ st[a] \in {"START", "WRITE", "READ"}
        /\ h.res = "ack" \/ (h.res = "nack" /\ st[a] = "READ")
    <2>1. st[a] \in {"START", "WRITE", "READ"}
      BY DEF ByteDone, TypeOK
    <2>2. h.irq /\ h.res # "arblost" /\ (h.res = "nack" => st[a] = "READ")
      BY <1>2 DEF ByteDone
    <2>3. h.res \in {"ack", "nack", "arblost"}
      BY <1>2 DEF Master, Results
    <2>4. QED
      BY <2>1, <2>2, <2>3
  <1>4. CursorInv(a) /\ (\/ Pending(h, w, r, e)
                         \/ Through(h, w, r, e)
                         \/ Refused(h, w, r, e, {NoOp}))
    BY <1>2, <1>3 DEF WireInv
  <1>5. e = <<mi[a], NewPos(a)>> /\ e \in Atomic!Places(r) /\ NewPos(a) \in Nat
    BY <1>2, <1>3, <1>4 DEF CursorInv, Place, NewPos
  <1>6. mi[a] \in 1..Len(r)
    BY <1>3, <1>4 DEF CursorInv
  <1>7. Through(h, w, r, e)
    <2>1. ~Pending(h, w, r, e)
      BY <1>3 DEF Pending
    <2>2. ASSUME Refused(h, w, r, e, {NoOp}) PROVE FALSE
      <3>1. h.res = "nack" /\ st[a] = "READ"
        BY <1>3, <2>2 DEF Refused
      <3>2. e = <<mi[a], pos[a] + 1>> /\ r[mi[a]].rd
        BY <1>4, <1>5, <3>1 DEF CursorInv, NewPos
      <3>3. Atomic!EventAt(r, e).kind \in {"read", "readnack"}
        <4>1. pos[a] + 1 \in Nat /\ pos[a] + 1 > 0
          BY <1>2
        <4>2. Atomic!EventAt(r, e) =
                 Op(IF pos[a] + 1 = r[mi[a]].len THEN "readnack" ELSE "read", 0, 0)
          BY <1>2, <1>6, <3>2, <4>1, EventIs
        <4>3. QED
          BY <4>2 DEF Op
      <3>4. QED
        BY <2>2, <3>3 DEF Refused
    <2>3. QED
      BY <1>4, <2>1, <2>2
  <1>8. buf'[a] = Atomic!Reads(r, Atomic!Rank(r, e) + 1)
    <2>1. buf[a] = Atomic!Reads(r, Atomic!Rank(r, e))
      BY <1>4 DEF CursorInv
    <2>2. Atomic!Reads(r, Atomic!Rank(r, e) + 1) =
            buf[a] \cup (IF Atomic!IsRead(r, e)
                           THEN {<<e[1], e[2] - 1, Atomic!Rank(r, e) + 1>>} ELSE {})
      BY <1>2, <1>5, <2>1, ReadsNext
    <2>3. Len(w) = Atomic!Rank(r, e) + 1
      BY <1>7 DEF Through
    <2>4. Atomic!IsRead(r, e) <=> NewPos(a) > 0 /\ r[mi[a]].rd
      BY <1>2, <1>5, <1>6, EventIs
    <2>5. CASE st[a] = "READ"
      <3>1. buf' = [buf EXCEPT ![a] = @ \cup {<<mi[a], pos[a], Len(w)>>}]
        BY <1>2, <2>5 DEF ByteDone
      <3>2. buf'[a] = buf[a] \cup {<<mi[a], pos[a], Len(w)>>}
        BY <3>1 DEF TypeOK
      <3>3. Atomic!IsRead(r, e) /\ e[1] = mi[a] /\ e[2] - 1 = pos[a]
        BY <1>2, <1>4, <1>5, <2>4, <2>5 DEF CursorInv, NewPos
      <3>4. QED
        BY <2>2, <2>3, <3>2, <3>3
    <2>6. CASE st[a] # "READ"
      <3>1. buf' = buf
        BY <2>6 DEF ByteDone
      <3>2. ~Atomic!IsRead(r, e)
        BY <1>2, <1>3, <1>4, <2>4, <2>6 DEF CursorInv, NewPos
      <3>3. QED
        BY <2>2, <3>1, <3>2
    <2>7. QED
      BY <2>5, <2>6
  <1>9. QED
    BY <1>1, <1>3, <1>5, <1>6, <1>7, <1>8

\* A command for the place f that follows starts it.
MovesTo(a, f) ==
    /\ f \in Atomic!Places(req[a])
    /\ Atomic!Rank(req[a], f) = Atomic!Rank(req[a], Place(a)) + 1
    /\ Send(a, Atomic!EventAt(req[a], f)) /\ Place(a)' = f
    /\ st'[a] # "ERROR"
    /\ st'[a] # "DONE" => mi'[a] \in 1..Len(req[a])
    /\ st'[a] = "START" => pos'[a] = 0
    /\ st'[a] = "READ" => req[a][mi'[a]].rd
    /\ st'[a] = "WRITE" => ~req[a][mi'[a]].rd /\ pos'[a] > 0

LEMMA Advance ==
    ASSUME TypeOK, MuxInv, TransferInv, NEW a \in Adapters, Xfer(a), ByteDone(a),
           NEW f, MovesTo(a, f)
    PROVE  TransferInv'
  <1> DEFINE h == hw[Own(a)]
             w == wire[Own(a)]
             r == req[a]
             e == Place(a)
             o == Atomic!EventAt(r, f)
  <1>1. /\ Running(a) /\ Through(h, w, r, e)
        /\ buf'[a] = Atomic!Reads(r, Atomic!Rank(r, f))
    BY ByteThrough DEF MovesTo
  <1>2. /\ Sel(a) = Own(a) /\ Own(a) \in Ctrls /\ r \in Seq(Message) /\ h \in Master
        /\ (~h.en => h.op = NoOp) /\ WireInv(a)
    BY <1>1, RunningFacts
  <1>3. o \in Ops
    BY <1>2, EventKinds DEF MovesTo
  <1>4. /\ hw' = [hw EXCEPT ![Own(a)] = Command(@, o)]
        /\ req' = req /\ wire' = wire
        /\ xpc'[a] = "poll"
    BY <1>2 DEF MovesTo, Send, ByteDone, Go, TypeOK
  <1>5. hw'[Own(a)] = Command(h, o)
    BY <1>2, <1>4 DEF TypeOK
  <1>6. /\ hw'[Own(a)].op \in {NoOp, o} /\ ~hw'[Own(a)].irq
        /\ hw'[Own(a)].busy = h.busy
    BY <1>2, <1>3, <1>5, MasterFields
  <1>7. Pending(hw'[Own(a)], w, r, f)
    BY <1>1, <1>6 DEF Pending, Through, MovesTo
  <1>8. CursorInv(a)'
    BY <1>1, <1>4 DEF CursorInv, MovesTo
  <1>9. w # <<>> /\ w[Len(w)] # Atomic!Stop => h.busy
    BY <1>2 DEF WireInv
  <1>10. WireInv(a)'
    BY <1>4, <1>6, <1>7, <1>8, <1>9 DEF WireInv, Released, Over, MovesTo
  <1>11. \A c \in Ctrls : ~hw'[c].en => hw'[c].op = NoOp
    BY <1>2, <1>3, <1>4, <1>5, MasterFields DEF TransferInv, TypeOK
  <1>12. xpc'[a] = "idle" <=> req'[a] = <<>>
    BY <1>1, <1>4, RunningFacts
  <1>13. QED
    BY <1>10, <1>11, <1>12, OwnerKeeps

\* The next byte of a message is an event of the script.
LEMMA ByteEvent ==
    ASSUME NEW r \in Seq(Message), NEW m \in 1..Len(r), NEW p \in Nat
    PROVE  Atomic!EventAt(r, <<m, p + 1>>) =
              IF r[m].rd THEN Op(IF p + 1 = r[m].len THEN "readnack" ELSE "read", 0, 0)
                         ELSE Op("write", m, p)
  <1>1. p + 1 \in Nat /\ p + 1 > 0 /\ (p + 1) - 1 = p /\ r[m].rd \in BOOLEAN
    BY MessageType
  <1>2. CASE r[m].rd
    BY <1>1, <1>2, EventIs
  <1>3. CASE ~r[m].rd
    BY <1>1, <1>3, EventIs
  <1>4. QED
    BY <1>2, <1>3

LEMMA NextByteMoves ==
    ASSUME TypeOK, MuxInv, TransferInv, NEW a \in Adapters, Xfer(a), ByteDone(a),
           NEW m \in 1..Len(req[a]), NEW p \in Nat, NextByte(a, m, p),
           <<m, p + 1>> \in Atomic!Places(req[a]),
           Atomic!Rank(req[a], <<m, p + 1>>) = Atomic!Rank(req[a], Place(a)) + 1
    PROVE  MovesTo(a, <<m, p + 1>>)
  <1> DEFINE r == req[a]
  <1>1. r \in Seq(Message)
    BY ByteThrough, RunningFacts
  <1>2. /\ mi'[a] = m
        /\ st'[a] = IF r[m].rd THEN "READ" ELSE "WRITE"
        /\ pos'[a] = IF r[m].rd THEN p ELSE p + 1
        /\ req' = req
    BY DEF NextByte, Send, TypeOK
  <1>3. Place(a)' = <<m, p + 1>>
    BY <1>2 DEF Place, NewPos
  <1>4. Send(a, Atomic!EventAt(r, <<m, p + 1>>))
    BY <1>1, ByteEvent DEF NextByte
  <1>5. p + 1 > 0
    OBVIOUS
  <1>6. QED
    BY <1>2, <1>3, <1>4, <1>5 DEF MovesTo

LEMMA ProcessMoves ==
    ASSUME TypeOK, MuxInv, TransferInv, NEW a \in Adapters, Xfer(a),
           ProcessByte(a) \/ ProcessNextMsg(a) \/ ProcessNoStart(a) \/ ProcessDone(a)
    PROVE  ByteDone(a) /\ \E f : MovesTo(a, f)
  <1> DEFINE r == req[a]
             m == mi[a]
             p == NewPos(a)
  <1>1. ByteDone(a)
    BY DEF ProcessByte, ProcessNextMsg, ProcessNoStart, ProcessDone
  <1>2. /\ m \in 1..Len(r) /\ p \in Nat /\ Place(a) = <<m, p>>
        /\ Place(a) \in Atomic!Places(r) /\ Running(a)
    BY <1>1, ByteThrough
  <1>3. r \in Seq(Message) /\ r \in Requests /\ r # <<>>
    BY <1>2, RunningFacts
  <1>4. Len(r) \in Nat /\ (m # Len(r) => m + 1 \in 1..Len(r) /\ m + 1 \in 2..Len(r))
    BY <1>2, <1>3
  <1>5. CASE ProcessByte(a)
    <2>1. p # r[m].len /\ NextByte(a, m, p)
      BY <1>5 DEF ProcessByte, EndOfMsg
    <2>2. QED
      BY <1>1, <1>2, <1>3, <2>1, PlaceNext, NextByteMoves
  <1>6. CASE ProcessNextMsg(a)
    <2>1. p = r[m].len /\ m # Len(r) /\ ~r[m + 1].nostart
      BY <1>6 DEF ProcessNextMsg, EndOfMsg, LastMsg
    <2>2. Atomic!First(r, m + 1) = 0
      BY <2>1 DEF Atomic!First
    <2>3. /\ <<m + 1, 0>> \in Atomic!Places(r)
          /\ Atomic!Rank(r, <<m + 1, 0>>) = Atomic!Rank(r, Place(a)) + 1
      <3>1. r[m + 1].len \in Nat
        BY <1>3, <1>4, <2>1, MessageType
      <3>2. 0 <= r[m + 1].len
        BY <3>1
      <3>3. QED
        BY <1>2, <1>3, <2>1, <2>2, <3>2, PlaceNext
    <2>4. Send(a, Atomic!EventAt(r, <<m + 1, 0>>))
      BY <1>3, <1>4, <1>6, <2>1, EventIs DEF ProcessNextMsg
    <2>5. mi'[a] = m + 1 /\ pos'[a] = 0 /\ st'[a] = "START" /\ req' = req
      BY <1>6 DEF ProcessNextMsg, Send, TypeOK
    <2>6. Place(a)' = <<m + 1, 0>>
      BY <2>5 DEF Place, NewPos
    <2>7. QED
      BY <1>1, <1>4, <2>1, <2>3, <2>4, <2>5, <2>6 DEF MovesTo
  <1>7. CASE ProcessNoStart(a)
    <2>1. p = r[m].len /\ m # Len(r) /\ r[m + 1].nostart /\ NextByte(a, m + 1, 0)
      BY <1>7 DEF ProcessNoStart, EndOfMsg, LastMsg
    <2>2. Atomic!First(r, m + 1) = 1
      BY <1>2, <2>1 DEF Atomic!First
    <2>3. r[m + 1].len > 0 /\ r[m + 1].len \in Nat
      BY <1>3, <1>4, <2>1, ContinuationsAssumption, MessageType
    <2>4. /\ <<m + 1, 0 + 1>> \in Atomic!Places(r)
          /\ Atomic!Rank(r, <<m + 1, 0 + 1>>) = Atomic!Rank(r, Place(a)) + 1
      <3>1. 1 <= r[m + 1].len /\ 0 + 1 = 1
        BY <2>3
      <3>2. Atomic!First(r, m + 1) <= r[m + 1].len
        BY <2>2, <3>1
      <3>3. /\ <<m + 1, Atomic!First(r, m + 1)>> \in Atomic!Places(r)
            /\ Atomic!Rank(r, <<m + 1, Atomic!First(r, m + 1)>>)
                  = Atomic!Rank(r, <<m, p>>) + 1
        BY <1>2, <1>3, <2>1, <3>2, PlaceNext
      <3>4. QED
        BY <1>2, <2>2, <3>1, <3>3
    <2>5. QED
      BY <1>1, <1>4, <2>1, <2>4, NextByteMoves
  <1>8. CASE ProcessDone(a)
    <2>1. p = r[m].len /\ m = Len(r)
      BY <1>8 DEF ProcessDone, EndOfMsg, LastMsg
    <2>2. /\ Atomic!End(r) \in Atomic!Places(r)
          /\ Atomic!Rank(r, Atomic!End(r)) = Atomic!Rank(r, Place(a)) + 1
      <3>1. Atomic!End(r) \in Atomic!Places(r)
        BY <1>3, PlaceIs
      <3>2. Atomic!Rank(r, Atomic!End(r)) = Atomic!Rank(r, <<m, p>>) + 1
        BY <1>2, <1>3, <2>1, PlaceNext
      <3>3. QED
        BY <1>2, <3>1, <3>2
    <2>3. Send(a, Atomic!EventAt(r, Atomic!End(r)))
      BY <1>3, <1>8, EventIs DEF ProcessDone
    <2>4. st'[a] = "DONE" /\ req' = req
      BY <1>8 DEF ProcessDone, Send, TypeOK
    <2>5. Place(a)' = Atomic!End(r)
      BY <2>4 DEF Place
    <2>6. QED
      BY <1>1, <2>2, <2>3, <2>4, <2>5 DEF MovesTo
  <1>9. QED
    BY <1>5, <1>6, <1>7, <1>8

LEMMA ProcessKeeps ==
    ASSUME TypeOK, MuxInv, TransferInv, NEW a \in Adapters, Xfer(a),
           ProcessByte(a) \/ ProcessNextMsg(a) \/ ProcessNoStart(a) \/ ProcessDone(a)
    PROVE  TransferInv'
  BY ProcessMoves, Advance

-----------------------------------------------------------------------------
(* The other steps of the transfer.                                        *)

LEMMA StartKeeps ==
    ASSUME TypeOK, MuxInv, TransferInv, NEW a \in Adapters, Xfer(a), XferStart(a)
    PROVE  TransferInv'
  <1> DEFINE r == req[a]
             o == Op("start", 1, 0)
  <1>1. xpc[a] = "start" /\ xpc'[a] = "poll" /\ req' = req
    BY DEF XferStart, Go, TypeOK
  <1>2. r \in Seq(Message) /\ r # <<>>
    <2>1. r # <<>> /\ r \in Requests \cup {<<>>}
      BY <1>1 DEF TransferInv, TypeOK
    <2>2. QED
      BY <2>1, RequestsAssumption
  <1>3. Sel(a) = Own(a) /\ Own(a) \in Ctrls /\ hw[Own(a)] \in Master
        /\ (~hw[Own(a)].en => hw[Own(a)].op = NoOp) /\ o \in Ops
    <2>1. Sel(a) = Own(a)
      BY <1>1 DEF MuxInv, Selected, Sel, Own
    <2>2. QED
      BY <2>1, CtrlsType, OpType DEF TypeOK, Master, TransferInv, OpKinds
  <1>4. hw'[Own(a)] = Command(hw[Own(a)], o)
        /\ \A c \in Ctrls : c # Own(a) => hw'[c] = hw[c]
    BY <1>3 DEF XferStart, TypeOK
  <1>5. mi'[a] = 1 /\ pos'[a] = 0 /\ st'[a] = "START" /\ buf'[a] = {}
    BY DEF XferStart, TypeOK
  <1>6. wire'[Own(a)] = <<>>
    BY <1>3 DEF XferStart, TypeOK
  <1>7. Place(a)' = <<1, 0>> /\ <<1, 0>> \in Atomic!Places(r)
        /\ Atomic!Rank(r, <<1, 0>>) = 0 /\ Atomic!EventAt(r, <<1, 0>>) = o
    <2>1. 1 \in 1..Len(r)
      BY <1>2
    <2>2. QED
      BY <1>2, <1>5, <2>1, PlaceEnds, EventIs DEF Place, NewPos
  <1>8. CursorInv(a)'
    <2>1. 1 \in 1..Len(r)
      BY <1>2
    <2>2. buf'[a] = Atomic!Reads(r, Atomic!Rank(r, <<1, 0>>))
      BY <1>2, <1>5, <1>7, ReadsNone
    <2>3. QED
      BY <1>1, <1>5, <1>7, <2>1, <2>2 DEF CursorInv
  <1>9. Pending(hw'[Own(a)], <<>>, r, <<1, 0>>)
    <2>1. Follows(<<>>, r, 0)
      <3>1. Len(Atomic!Script(r)) \in Nat
        BY <1>2, ScriptAt
      <3>2. QED
        BY <3>1 DEF Follows
    <2>2. QED
      BY <1>3, <1>4, <1>7, <2>1, MasterFields DEF Pending
  <1>10. WireInv(a)'
    BY <1>1, <1>5, <1>6, <1>7, <1>8, <1>9 DEF WireInv, Released, Over
  <1>11. \A c \in Ctrls : ~hw'[c].en => hw'[c].op = NoOp
    BY <1>3, <1>4, MasterFields DEF TransferInv
  <1>12. QED
    BY <1>1, <1>2, <1>10, <1>11, OwnerKeeps

\* A step that leaves the message cursor and the wire alone, and at most
\* stops the command or clears the flag of a master.
LEMMA QuietKeeps ==
    ASSUME TypeOK, MuxInv, TransferInv, NEW a \in Adapters, Running(a),
           UNCHANGED <<req, mi, pos, buf, wire, st>>,
           hw'[Own(a)].op \in {hw[Own(a)].op, NoOp},
           hw'[Own(a)].irq => hw[Own(a)].irq /\ hw'[Own(a)].res = hw[Own(a)].res,
           hw'[Own(a)].busy = hw[Own(a)].busy,
           xpc[a] = "return" => xpc'[a] = "return",
           Released(a)' => ~hw[Own(a)].busy
    PROVE  WireInv(a)'
  <1> DEFINE h  == hw[Own(a)]
             h2 == hw'[Own(a)]
             w  == wire[Own(a)]
             r  == req[a]
  <1>1. WireInv(a)
    BY RunningFacts
  <1>2. \A e : /\ Pending(h, w, r, e) => Pending(h2, w, r, e)
               /\ Through(h, w, r, e) => Through(h2, w, r, e)
    BY DEF Pending, Through
  <1>3. \A e, ops : NoOp \in ops /\ Refused(h, w, r, e, ops) => Refused(h2, w, r, e, ops)
    BY DEF Refused
  <1>4. Abandoned(h, w) => Abandoned(h2, w)
    BY DEF Abandoned
  <1>5. CursorInv(a) => CursorInv(a)'
    BY DEF CursorInv, Place, NewPos
  <1>6. Place(a)' = Place(a) /\ Over(a)' = Over(a)
    BY DEF Place, NewPos, Over
  <1>7. QED
    BY <1>1, <1>2, <1>3, <1>4, <1>5, <1>6 DEF WireInv

LEMMA PollKeeps ==
    ASSUME TypeOK, MuxInv, TransferInv, NEW a \in Adapters, Xfer(a),
           PollWait(a) \/ IsrNone(a) \/ ProcessOver(a)
    PROVE  TransferInv'
  <1>1. /\ Running(a) /\ xpc[a] # "return" /\ UNCHANGED <<req, mi, pos, buf, wire, st>>
        /\ xpc'[a] # "idle" /\ (xpc'[a] = "isr" => PollClear(a))
        /\ hw' = hw \/ hw' = [hw EXCEPT ![Sel(a)] = Iack(@)]
    BY DEF PollWait, IsrNone, ProcessOver, Go, Running, TypeOK, muxVars
  <1>2. /\ Sel(a) = Own(a) /\ Own(a) \in Ctrls /\ hw[Own(a)] \in Master
        /\ (~hw[Own(a)].en => hw[Own(a)].op = NoOp)
    BY <1>1, RunningFacts
  <1>3. \A c \in Ctrls : hw'[c] = hw[c] \/ (c = Own(a) /\ hw'[c] = Iack(hw[c]))
    BY <1>1, <1>2 DEF TypeOK
  <1>4. /\ hw'[Own(a)].op = hw[Own(a)].op /\ hw'[Own(a)].busy = hw[Own(a)].busy
        /\ hw'[Own(a)].irq => hw[Own(a)].irq /\ hw'[Own(a)].res = hw[Own(a)].res
        /\ hw'[Own(a)].en = hw[Own(a)].en
    BY <1>2, <1>3, MasterFields
  <1>5. Released(a)' => ~hw[Own(a)].busy
    <2>1. CASE PollWait(a)
      BY <1>1, <1>2, <2>1 DEF PollWait, Go, TypeOK, PollClear, Released, Over
    <2>2. CASE IsrNone(a)
      <3>1. xpc[a] = "isr" /\ WireInv(a)
        BY <1>1, <2>2, RunningFacts DEF IsrNone, Go
      <3>2. Released(a)' => Released(a)
        BY <1>1, <2>2, <3>1 DEF Released, Over, IsrNone, Go, TypeOK
      <3>3. QED
        BY <3>1, <3>2 DEF WireInv
    <2>3. CASE ProcessOver(a)
      BY <2>3 DEF ProcessOver, Go, TypeOK, Released
    <2>4. QED
      BY <2>1, <2>2, <2>3
  <1>6. WireInv(a)'
    BY <1>1, <1>4, <1>5, QuietKeeps
  <1>7. \A c \in Ctrls : ~hw'[c].en => hw'[c].op = NoOp
    BY <1>3, <1>4 DEF TransferInv
  <1>8. QED
    BY <1>1, <1>6, <1>7, RunningFacts, OwnerKeeps

\* A timeout gives the transfer up with the command still in progress.
LEMMA TimeoutKeeps ==
    ASSUME TypeOK, MuxInv, TransferInv, NEW a \in Adapters, Xfer(a), PollTimeout(a)
    PROVE  TransferInv'
  <1> DEFINE h == hw[Own(a)]
             w == wire[Own(a)]
             r == req[a]
  <1>1. /\ Running(a) /\ xpc[a] = "poll" /\ xpc'[a] = "return" /\ st'[a] = "ERROR"
        /\ UNCHANGED <<req, hw, wire>>
    BY DEF PollTimeout, Go, Running, TypeOK, muxVars
  <1>2. WireInv(a)
    BY <1>1, RunningFacts
  <1>3. \A e : Refused(h, w, r, e, {NoOp}) => Refused(h, w, r, e, {NoOp, Atomic!Stop})
    BY DEF Refused
  <1>4. st[a] # "ERROR" => Place(a) \in Atomic!Places(r)
    BY <1>2 DEF WireInv, CursorInv
  <1>5. WireInv(a)'
    BY <1>1, <1>2, <1>3, <1>4 DEF WireInv, Released, Over
  <1>6. \A c \in Ctrls : ~hw'[c].en => hw'[c].op = NoOp
    BY <1>1 DEF TransferInv
  <1>7. QED
    BY <1>1, <1>5, <1>6, RunningFacts, OwnerKeeps

LEMMA StopIs == Atomic!Stop = Op("stop", 0, 0) /\ Atomic!Fail = Op("fail", 0, 0)
                /\ Atomic!Stop \in Ops /\ Atomic!Fail \in Ops /\ Atomic!Stop # Atomic!Fail
  <1>1. Atomic!Stop = Op("stop", 0, 0) /\ Atomic!Fail = Op("fail", 0, 0)
    BY DEF Atomic!Stop, Atomic!Fail, Atomic!Op, Op
  <1>2. QED
    BY <1>1, OpType DEF OpKinds, Op

\* An error is found in the status only after the wire met one.
LEMMA ErrorKeeps ==
    ASSUME TypeOK, MuxInv, TransferInv, NEW a \in Adapters, Xfer(a), ProcessError(a)
    PROVE  TransferInv'
  <1> DEFINE h == hw[Own(a)]
             w == wire[Own(a)]
             r == req[a]
             e == Place(a)
             o == Op("stop", 0, 0)
  <1>1. /\ Running(a) /\ xpc'[a] = "poll" /\ st'[a] = "ERROR"
        /\ st[a] \notin {"DONE", "ERROR"} /\ UNCHANGED <<req, wire>>
    BY DEF ProcessError, Send, Go, Running, TypeOK
  <1>2. /\ WireInv(a) /\ Sel(a) = Own(a) /\ Own(a) \in Ctrls /\ h \in Master
        /\ (~h.en => h.op = NoOp)
    BY <1>1, RunningFacts
  <1>3. /\ h.irq /\ h.res # "ack"
        /\ hw' = [hw EXCEPT ![Own(a)] = Command(@, o)]
    BY <1>2 DEF ProcessError, Send
  <1>4. Refused(h, w, r, e, {NoOp}) /\ e \in Atomic!Places(r)
    <2>1. ~Pending(h, w, r, e) /\ ~Through(h, w, r, e)
      BY <1>3 DEF Pending, Through
    <2>2. QED
      BY <1>1, <1>2, <2>1 DEF WireInv, CursorInv
  <1>5. hw'[Own(a)] = Command(h, o) /\ o \in Ops /\ o = Atomic!Stop
        /\ \A c \in Ctrls : c # Own(a) => hw'[c] = hw[c]
    BY <1>2, <1>3, StopIs DEF TypeOK
  <1>6. /\ hw'[Own(a)].op \in {NoOp, Atomic!Stop} /\ ~hw'[Own(a)].irq
        /\ hw'[Own(a)].busy = h.busy
        /\ (~hw'[Own(a)].en => hw'[Own(a)].op = NoOp)
    BY <1>2, <1>5, MasterFields
  <1>7. Refused(hw'[Own(a)], w, r, e, {NoOp, Atomic!Stop})
    BY <1>4, <1>6 DEF Refused
  <1>8. WireInv(a)'
    BY <1>1, <1>2, <1>4, <1>6, <1>7 DEF WireInv, Released, Over
  <1>9. \A c \in Ctrls : ~hw'[c].en => hw'[c].op = NoOp
    BY <1>5, <1>6 DEF TransferInv
  <1>10. QED
    BY <1>1, <1>8, <1>9, RunningFacts, OwnerKeeps

LEMMA OtherXferKeeps ==
    ASSUME TypeOK, MuxInv, TransferInv, NEW a \in Adapters, Xfer(a),
           \/ XferSelectMux(a) \/ XferReadControl(a) \/ XferWriteControl(a)
           \/ XferReturn(a)
    PROVE  TransferInv'
  <1>1. ~Running(a)' /\ xpc[a] # "idle"
    BY DEF XferSelectMux, XferReadControl, XferWriteControl, XferReturn, Go, Running,
           TypeOK
  <1>2. xpc'[a] = "idle" <=> req'[a] = <<>>
    <2>1. CASE XferReturn(a)
      BY <2>1 DEF XferReturn, Go, TypeOK
    <2>2. CASE XferSelectMux(a) \/ XferReadControl(a) \/ XferWriteControl(a)
      <3>1. xpc'[a] # "idle" /\ req' = req
        BY <2>2 DEF XferSelectMux, XferReadControl, XferWriteControl, Go, TypeOK
      <3>2. QED
        BY <1>1, <3>1 DEF TransferInv
    <2>3. QED
      BY <2>1, <2>2
  <1>3. \A c \in Ctrls : ~hw'[c].en => hw'[c].op = NoOp
    <2>1. CASE XferWriteControl(a)
      <3>1. Sel(a) \in Ctrls /\ hw[Sel(a)] \in Master /\ ctl[a] \in BOOLEAN
            /\ (~hw[Sel(a)].en => hw[Sel(a)].op = NoOp)
        BY CtrlsType DEF TypeOK, Master, TransferInv
      <3>2. hw' = [hw EXCEPT ![Sel(a)] = SetEn(@, ctl[a])]
        BY <2>1 DEF XferWriteControl
      <3>3. hw'[Sel(a)] = SetEn(hw[Sel(a)], ctl[a])
            /\ \A c \in Ctrls : c # Sel(a) => hw'[c] = hw[c]
        BY <3>1, <3>2 DEF TypeOK
      <3>4. QED
        BY <3>1, <3>3, MasterFields DEF TransferInv
    <2>2. CASE XferSelectMux(a) \/ XferReadControl(a) \/ XferReturn(a)
      BY <2>2 DEF XferSelectMux, XferReadControl, XferReturn, TransferInv
    <2>3. QED
      BY <2>1, <2>2
  <1>4. QED
    BY <1>1, <1>2, <1>3, OwnerKeeps

LEMMA BeginKeeps ==
    ASSUME TypeOK, MuxInv, TransferInv, NEW a \in Adapters, XferBegin(a) \/ XferLock(a)
    PROVE  TransferInv'
  <1>1. /\ UNCHANGED <<mi, pos, st, buf, hw, wire>>
        /\ \A b \in Adapters : b # a => xpc'[b] = xpc[b] /\ req'[b] = req[b]
        /\ xpc'[a] \in {"lock", "mux"} /\ req'[a] # <<>>
    <2>1. CASE XferBegin(a)
      <3>1. PICK q \in Requests : req' = [req EXCEPT ![a] = q]
        BY <2>1 DEF XferBegin
      <3>2. q # <<>>
        BY RequestsAssumption
      <3>3. QED
        BY <2>1, <3>1, <3>2 DEF XferBegin, Go, TypeOK
    <2>2. CASE XferLock(a)
      <3>1. xpc[a] = "lock" /\ req' = req /\ xpc' = [xpc EXCEPT ![a] = "mux"]
        BY <2>2 DEF XferLock, Go
      <3>2. req[a] # <<>>
        BY <3>1 DEF TransferInv
      <3>3. QED
        BY <2>2, <3>1, <3>2 DEF XferLock, TypeOK
    <2>3. QED
      BY <2>1, <2>2
  <1>2. \A b \in Adapters : Running(b)' => Running(b) /\ b # a
    BY <1>1 DEF Running
  <1>3. \A b \in Adapters : Running(b)' => WireInv(b)'
    <2> SUFFICES ASSUME NEW b \in Adapters, Running(b)' PROVE WireInv(b)'
      OBVIOUS
    <2>1. Running(b) /\ b # a /\ xpc'[b] = xpc[b] /\ req'[b] = req[b]
      BY <1>1, <1>2
    <2>2. WireInv(b)
      BY <2>1 DEF TransferInv
    <2>3. Place(b)' = Place(b) /\ (Released(b)' <=> Released(b))
      BY <1>1, <2>1 DEF Place, NewPos, Released, Over
    <2>4. CursorInv(b)' <=> CursorInv(b)
      BY <1>1, <2>1, <2>3 DEF CursorInv
    <2>5. QED
      BY <1>1, <2>1, <2>2, <2>3, <2>4 DEF WireInv
  <1>4. QED
    BY <1>1, <1>3 DEF TransferInv

-----------------------------------------------------------------------------
(* The steps of the masters and of the driver-core context.                *)

\* The master finishes the command for place e.
LEMMA CompleteEvent ==
    ASSUME NEW r \in Seq(Message), NEW e \in Atomic!Places(r), NEW w \in Seq(Ops),
           NEW h, NEW g, NEW x \in Ops,
           Pending(h, w, r, e), h.op # NoOp,
           g.op = NoOp, g.busy = (h.op.kind # "stop"),
           \/ x = h.op /\ g.res = "ack"
           \/ x = Atomic!Fail /\ g.res # "ack" /\ h.op.kind \in {"start", "write"}
    PROVE  /\ h.op = Atomic!EventAt(r, e)
           /\ x = h.op => Through(g, Append(w, x), r, e)
           /\ x # h.op => Refused(g, Append(w, x), r, e, {NoOp})
           /\ Append(w, x) # <<>>
           /\ Append(w, x)[Len(Append(w, x))] # Atomic!Stop => g.busy
           /\ e = Atomic!End(r) => ~g.busy
  <1> DEFINE n == Atomic!Rank(r, e)
  <1>1. h.op = Atomic!EventAt(r, e) /\ Len(w) = n /\ Follows(w, r, n) /\ n \in Nat
    BY RankType DEF Pending
  <1>2. /\ Len(Atomic!Script(r)) \in Nat /\ n + 1 <= Len(Atomic!Script(r))
        /\ Atomic!Script(r)[n + 1] = h.op
    <2>1. n + 1 \in 1..Len(Atomic!Script(r)) /\ Len(Atomic!Script(r)) \in Nat
      BY ScriptAt
    <2>2. Atomic!Script(r)[n + 1] = h.op
      BY <1>1, ScriptAt
    <2> HIDE DEF n
    <2>3. QED
      BY <2>1, <2>2
  <1>3. /\ Len(Append(w, x)) = Len(w) + 1 /\ Append(w, x)[Len(w) + 1] = x
        /\ Append(w, x) # <<>>
    <2>1. Len(Append(w, x)) = Len(w) + 1 /\ Append(w, x)[Len(w) + 1] = x
          /\ Len(w) \in Nat
      OBVIOUS
    <2>2. Len(<<>>) = 0
      OBVIOUS
    <2>3. QED
      BY <2>1, <2>2
  <1>4. Follows(Append(w, x), r, n) /\ (x = h.op => Follows(Append(w, x), r, n + 1))
    BY <1>1, <1>2, FollowsAppend
  <1>5. x = h.op => Through(g, Append(w, x), r, e)
    <2>1. CASE x = h.op /\ g.res = "ack"
      BY <1>1, <1>3, <1>4, <2>1 DEF Through
    <2>2. CASE x = Atomic!Fail
      BY <1>1, <2>2, EventKinds, StopIs
    <2>3. QED
      BY <2>1, <2>2
  <1>6. x # h.op => Refused(g, Append(w, x), r, e, {NoOp})
    BY <1>1, <1>3, <1>4 DEF Refused
  <1>7. e = Atomic!End(r) <=> h.op.kind = "stop"
    BY <1>1, EventKinds
  <1>8. e = Atomic!End(r) => ~g.busy
    BY <1>7
  <1>9. x # Atomic!Stop => g.busy
    <2>1. CASE e # Atomic!End(r)
      BY <1>7, <2>1
    <2>2. CASE e = Atomic!End(r)
      <3>1. h.op = Atomic!Stop
        BY <1>1, <2>2, EventIs, StopIs
      <3>2. h.op.kind = "stop"
        BY <1>7, <2>2
      <3>3. QED
        BY <3>1, <3>2
    <2>3. QED
      BY <2>1, <2>2
  <1>10. QED
    BY <1>1, <1>3, <1>5, <1>6, <1>8, <1>9

LEMMA HwKeeps ==
    ASSUME TypeOK, MuxInv, TransferInv, NEW c \in Ctrls, HwComplete(c)
    PROVE  TransferInv'
  <1> DEFINE o == hw[c].op
  <1>1. UNCHANGED <<xpc, req, mi, pos, st, buf>>
    BY DEF HwComplete, xferVars
  <1>2. /\ hw[c] \in Master /\ o \in Ops /\ o # NoOp /\ wire[c] \in Seq(Ops)
    BY DEF HwComplete, TypeOK, Master
  <1>3. PICK s, x :
          /\ hw' = [hw EXCEPT ![c] = [@ EXCEPT !.op = NoOp, !.irq = TRUE,
                                          !.busy = o.kind # "stop", !.res = s]]
          /\ wire' = [wire EXCEPT ![c] = Append(@, x)]
          /\ \/ x = o /\ s = "ack"
             \/ x = Op("fail", 0, 0) /\ s # "ack" /\ o.kind \in {"start", "write"}
    BY DEF HwComplete
  <1>4. x \in Ops
    BY <1>2, <1>3, OpType DEF OpKinds
  <1>5. /\ hw'[c].op = NoOp /\ hw'[c].irq /\ hw'[c].busy = (o.kind # "stop")
        /\ hw'[c].res = s /\ hw'[c].en = hw[c].en
        /\ wire'[c] = Append(wire[c], x)
    BY <1>2, <1>3 DEF TypeOK, Master
  <1>6. \A d \in Ctrls : d # c => hw'[d] = hw[d] /\ wire'[d] = wire[d]
    BY <1>3 DEF TypeOK
  <1>7. \A d \in Ctrls : ~hw'[d].en => hw'[d].op = NoOp
    BY <1>5, <1>6 DEF TransferInv
  <1>8. \A a \in Adapters : xpc'[a] = "idle" <=> req'[a] = <<>>
    BY <1>1 DEF TransferInv
  <1>9. ASSUME NEW a \in Adapters, Running(a)'
        PROVE  WireInv(a)'
    <2> DEFINE h == hw[Own(a)]
               w == wire[Own(a)]
               r == req[a]
    <2>1. Running(a)
      BY <1>1, <1>9 DEF Running
    <2>2. WireInv(a) /\ r \in Seq(Message) /\ Own(a) \in Ctrls /\ w \in Seq(Ops)
      BY <2>1, RunningFacts
    <2>3. /\ Place(a)' = Place(a) /\ (Released(a)' <=> Released(a))
          /\ Released(a) => Over(a)
      BY <1>1 DEF Place, NewPos, Released, Over
    <2>4. CursorInv(a)' <=> CursorInv(a)
      BY <1>1, <2>3 DEF CursorInv
    <2>5. CASE Own(a) # c
      BY <1>1, <1>6, <2>2, <2>3, <2>4, <2>5 DEF WireInv
    <2>6. CASE Own(a) = c
      <3> DEFINE g  == hw'[c]
                 w2 == Append(w, x)
      <3>1. \A e \in Atomic!Places(r) : Pending(h, w, r, e) =>
               /\ h.op = Atomic!EventAt(r, e)
               /\ x = h.op => Through(g, w2, r, e)
               /\ x # h.op => Refused(g, w2, r, e, {NoOp})
               /\ w2 # <<>>
               /\ w2[Len(w2)] # Atomic!Stop => g.busy
               /\ e = Atomic!End(r) => ~g.busy
        <4>1. \/ x = h.op /\ g.res = "ack"
              \/ x = Atomic!Fail /\ g.res # "ack" /\ h.op.kind \in {"start", "write"}
          BY <1>3, <1>5, <2>6, StopIs
        <4>2. h.op # NoOp /\ g.op = NoOp /\ g.busy = (h.op.kind # "stop")
          BY <1>2, <1>5, <2>6
        <4> HIDE DEF g, w2, h, w, r
        <4>3. TAKE e \in Atomic!Places(r)
        <4>4. HAVE Pending(h, w, r, e)
        <4>5. QED
          BY <1>4, <2>2, <4>1, <4>2, <4>4, CompleteEvent DEF w2
      <3>2. h.op # NoOp /\ wire'[Own(a)] = w2 /\ hw'[Own(a)] = g
        BY <1>2, <1>5, <2>6
      <3>3. CASE st[a] # "ERROR"
        <4>1. CursorInv(a) /\ Pending(h, w, r, Place(a))
          BY <2>2, <3>2, <3>3 DEF WireInv, Through, Refused
        <4>2. Place(a) \in Atomic!Places(r)
          BY <4>1 DEF CursorInv
        <4>3. Over(a) => Place(a) = Atomic!End(r)
          BY <3>3 DEF Over, Place
        <4>4. QED
          BY <1>1, <2>3, <2>4, <3>1, <3>2, <3>3, <4>1, <4>2, <4>3 DEF WireInv
      <3>4. CASE st[a] = "ERROR"
        <4>1. PICK e \in Atomic!Places(r) :
                 \/ Refused(h, w, r, e, {NoOp, Atomic!Stop})
                 \/ xpc[a] = "return" /\ Pending(h, w, r, e)
          BY <2>2, <3>2, <3>4 DEF WireInv, Abandoned, Through
        <4>2. CASE Refused(h, w, r, e, {NoOp, Atomic!Stop})
          <5>1. h.op = Atomic!Stop
            BY <3>2, <4>2 DEF Refused
          <5>2. o.kind = "stop" /\ x = Atomic!Stop
            BY <1>3, <2>6, <5>1, StopIs DEF Op
          <5>3. w2 # <<>> /\ w2[Len(w2)] = Atomic!Stop
            BY <1>4, <2>2, <5>2
          <5>4. Abandoned(g, w2) /\ ~g.busy
            BY <1>5, <5>2, <5>3 DEF Abandoned
          <5>5. QED
            BY <1>1, <2>3, <3>2, <3>4, <5>3, <5>4 DEF WireInv
        <4>3. CASE xpc[a] = "return" /\ Pending(h, w, r, e)
          <5>1. Refused(g, w2, r, e, {NoOp}) => Refused(g, w2, r, e, {NoOp, Atomic!Stop})
            BY DEF Refused
          <5>2. ~Released(a)
            BY <3>4, <4>3 DEF Released, Over
          <5>3. QED
            BY <1>1, <2>3, <3>1, <3>2, <3>4, <4>3, <5>1, <5>2 DEF WireInv
        <4>4. QED
          BY <4>1, <4>2, <4>3
      <3>5. QED
        BY <3>3, <3>4
    <2>7. QED
      BY <2>5, <2>6
  <1>10. QED
    BY <1>7, <1>8, <1>9 DEF TransferInv

\* The driver-core context and the sleep do not move a transfer; they stop
\* the command of a master, clear its flag or reset it while none runs.
LEMMA DevMasters ==
    ASSUME TypeOK, MuxInv, Dev \/ Power \/ ModuleReload \/ \E a \in Adapters : DevStart(a)
    PROVE  /\ UNCHANGED xferVars /\ wire' = wire
           /\ \/ pm # "on" /\ hw' = [c \in Ctrls |-> PowerOff]
              \/ \A c \in Ctrls : \/ hw'[c] = hw[c] \/ hw'[c] = Iack(hw[c])
                                  \/ \E e \in BOOLEAN : hw'[c] = SetEn(hw[c], e)
  <1>1. UNCHANGED xferVars /\ wire' = wire
    BY DEF Dev, Power, ModuleReload, DevStart, DevLock, ProbeSelectMux, ProbeMapFails,
         ResumeForget, DevUnlock, ProbeNoWindow, InitDisable, InitIack, InitEnable,
         ProbeEnd, ResumeEnd, RemoveDisable, RemoveDelAdapter, Freeze, PowerCycle, Thaw,
         ProbeBegin, RemoveBegin, Suspend, ResumeBegin
  <1>2. CASE InitDisable \/ InitIack \/ InitEnable \/ RemoveDisable
    <2>1. \/ hw' = [hw EXCEPT ![Sel(dev.a)] = Iack(@)]
          \/ \E e \in BOOLEAN : hw' = [hw EXCEPT ![Sel(dev.a)] = SetEn(@, e)]
      BY <1>2 DEF InitDisable, InitIack, InitEnable, RemoveDisable
    <2>2. QED
      BY <1>1, <2>1 DEF TypeOK
  <1>3. CASE \E a \in Adapters : Suspend(a)
    <2>1. PICK a \in Adapters : hw' = [hw EXCEPT ![Sel(a)] = SetEn(@, FALSE)]
      BY <1>3 DEF Suspend
    <2>2. QED
      BY <1>1, <2>1 DEF TypeOK
  <1>4. CASE PowerCycle
    BY <1>1, <1>4 DEF PowerCycle
  <1>5. CASE ~(InitDisable \/ InitIack \/ InitEnable \/ RemoveDisable) /\ ~PowerCycle
             /\ ~(\E a \in Adapters : Suspend(a))
    <2>1. hw' = hw
      BY <1>5 DEF Dev, Power, ModuleReload, DevStart, DevLock, ProbeSelectMux,
         ProbeMapFails, ResumeForget, DevUnlock, ProbeNoWindow, ProbeEnd, ResumeEnd,
         RemoveDelAdapter, Freeze, Thaw, ProbeBegin, RemoveBegin, ResumeBegin
    <2>2. QED
      BY <1>1, <2>1
  <1>6. QED
    BY <1>2, <1>3, <1>4, <1>5

LEMMA DevKeeps ==
    ASSUME TypeOK, MuxInv, TransferInv,
           Dev \/ Power \/ ModuleReload \/ \E a \in Adapters : DevStart(a)
    PROVE  TransferInv'
  <1>1. UNCHANGED <<xpc, req, mi, pos, st, buf, wire>>
    BY DevMasters DEF xferVars
  <1>2. \A a \in Adapters : xpc'[a] = "idle" <=> req'[a] = <<>>
    BY <1>1 DEF TransferInv
  <1>3. CASE pm # "on" /\ hw' = [c \in Ctrls |-> PowerOff]
    <2>1. \A c \in Ctrls : ~hw'[c].en => hw'[c].op = NoOp
      BY <1>3 DEF PowerOff
    <2>2. \A a \in Adapters : ~Running(a)'
      BY <1>1, <1>3 DEF MuxInv, Running
    <2>3. QED
      BY <1>2, <2>1, <2>2 DEF TransferInv
  <1>4. CASE \A c \in Ctrls : \/ hw'[c] = hw[c] \/ hw'[c] = Iack(hw[c])
                              \/ \E e \in BOOLEAN : hw'[c] = SetEn(hw[c], e)
    <2>1. ASSUME NEW c \in Ctrls
          PROVE  /\ hw'[c].op \in {hw[c].op, NoOp} /\ hw'[c].busy = hw[c].busy
                 /\ hw'[c].irq => hw[c].irq /\ hw'[c].res = hw[c].res
                 /\ ~hw'[c].en => hw'[c].op = NoOp
      <3>1. hw[c] \in Master /\ (~hw[c].en => hw[c].op = NoOp)
        BY DEF TypeOK, Master, TransferInv
      <3>2. CASE hw'[c] = hw[c] \/ hw'[c] = Iack(hw[c])
        BY <3>1, <3>2, MasterFields
      <3>3. CASE \E e \in BOOLEAN : hw'[c] = SetEn(hw[c], e)
        BY <3>1, <3>3, MasterFields
      <3>4. QED
        BY <1>4, <3>2, <3>3
    <2>2. ASSUME NEW a \in Adapters, Running(a)'
          PROVE  WireInv(a)'
      <3>1. Running(a)
        BY <1>1, <2>2 DEF Running
      <3>2. Own(a) \in Ctrls /\ WireInv(a)
        BY <3>1, RunningFacts
      <3>3. Released(a)' => ~hw[Own(a)].busy
        BY <1>1, <3>2 DEF WireInv, Released, Over
      <3>4. QED
        BY <1>1, <2>1, <3>1, <3>2, <3>3, QuietKeeps
    <2>3. QED
      BY <1>2, <2>1, <2>2 DEF TransferInv
  <1>5. QED
    BY <1>3, <1>4, DevMasters

LEMMA TransferInit == Init => TransferInv
  <1>1. SUFFICES ASSUME Init PROVE TransferInv
    OBVIOUS
  <1>2. \A a \in Adapters : xpc[a] = "idle" /\ req[a] = <<>>
    BY <1>1 DEF Init
  <1>3. \A c \in Ctrls : hw[c].op = NoOp
    BY <1>1 DEF Init, PowerOff
  <1>4. QED
    BY <1>2, <1>3 DEF TransferInv, Running

LEMMA TransferStep == TypeOK /\ MuxInv /\ TransferInv /\ [Next]_vars => TransferInv'
  <1> SUFFICES ASSUME TypeOK, MuxInv, TransferInv, [Next]_vars PROVE TransferInv'
    OBVIOUS
  <1>1. CASE UNCHANGED vars
    <2>1. UNCHANGED <<xpc, req, mi, pos, st, buf, wire, hw>>
      BY <1>1 DEF vars, xferVars
    <2>2. QED
      BY <2>1 DEF TransferInv, Running, WireInv, CursorInv, Place, NewPos, Released,
                Over
  <1>2. ASSUME NEW a \in Adapters, Xfer(a) PROVE TransferInv'
    BY <1>2, StartKeeps, PollKeeps, TimeoutKeeps, ErrorKeeps, ProcessKeeps,
       OtherXferKeeps DEF Xfer
  <1>3. QED
    BY <1>1, <1>2, BeginKeeps, HwKeeps, DevKeeps DEF Next

\* How far a transfer is, its master and its wire agree in every state.
THEOREM TransferCorrect == Spec => []TransferInv
  BY TransferInit, TransferStep, TypeCorrect, MuxCorrect, PTL DEF Spec

-----------------------------------------------------------------------------
(* What follows of the polling loop.                                       *)

\* When the loop ends normally with the transfer over, the bus is released,
\* whatever probes, removals and sleeps run meanwhile.
THEOREM LoopExit == Spec => LoopExitReleasesBus
  <1> DEFINE Exit(a) == xpc[a] = "isr" /\ xpc'[a] = "return" /\ st[a] \in {"DONE", "ERROR"}
                          => ~hw[Own(a)].busy
  <1>1. TransferInv => \A a \in Adapters : Exit(a)
    BY DEF TransferInv, WireInv, Running, Released, Over
  <1>2. TransferInv /\ [Next]_vars => [\A a \in Adapters : Exit(a)]_vars
    BY <1>1
  <1>3. QED
    BY <1>2, TransferCorrect, PTL DEF Spec, LoopExitReleasesBus

-----------------------------------------------------------------------------
(* The polling loop runs out of work: each pass of it uses up an event of   *)
(* the script or an interrupt, whatever the masters, the other ports,       *)
(* probes, removals and sleeps do between its steps.                        *)

\* The events of the script the transfer has still to command, and what its
\* master holds for it: a command in progress, an interrupt not served.
EventsLeft(a) == IF st[a] = "ERROR" THEN 0
                 ELSE Len(Atomic!Script(req[a])) - Atomic!Rank(req[a], Place(a))
Held(h)       == (IF h.irq THEN 1 ELSE 0) + (IF h.op # NoOp THEN 1 ELSE 0)
PassesLeft(a) == EventsLeft(a) + Held(hw[Own(a)])

LoopBounded ==
    \A a \in Adapters : Running(a) => PassesLeft(a) \in 0..Len(Atomic!Script(req[a])) + 1

PassSpends(a) ==
    /\ PassesLeft(a)' <= PassesLeft(a)
    /\ xpc[a] = "isr" /\ xpc'[a] = "poll" => PassesLeft(a)' < PassesLeft(a)
LoopRunsDown ==
    [][\A a \in Adapters : Running(a) /\ Running(a)' => PassSpends(a)]_vars

LEMMA HeldIs == \A h : /\ Held(h) \in 0..2
                       /\ ~h.irq \/ h.op = NoOp => Held(h) <= 1
                       /\ h.irq => Held(h) >= 1
                       /\ h.irq /\ h.op = NoOp => Held(h) = 1
  BY DEF Held

\* What is left of the script is a number, not 0 before an error is found; an
\* interrupt is met with no command in progress then.
LEMMA EventsLeftType ==
    ASSUME TypeOK, MuxInv, TransferInv, NEW a \in Adapters, Running(a)
    PROVE  /\ Len(Atomic!Script(req[a])) \in Nat /\ Len(Atomic!Script(req[a])) > 1
           /\ EventsLeft(a) \in 0..Len(Atomic!Script(req[a]))
           /\ st[a] # "ERROR" => /\ EventsLeft(a) > 0
                                 /\ ~hw[Own(a)].irq \/ hw[Own(a)].op = NoOp
           /\ st[a] = "ERROR" => EventsLeft(a) = 0
  <1> DEFINE r == req[a]
             n == Len(Atomic!Script(r))
  <1>1. r \in Seq(Message) /\ r # <<>> /\ WireInv(a)
    BY RunningFacts
  <1>2. n \in Nat /\ n > 1
    <2>1. n \in Nat
      BY <1>1, ScriptAt
    <2>2. /\ Atomic!Rank(r, Atomic!End(r)) + 1 = n /\ Atomic!Rank(r, Atomic!End(r)) > 0
          /\ Atomic!Rank(r, Atomic!End(r)) \in Nat
      BY <1>1, PlaceEnds, RankType
    <2>3. QED
      BY <2>1, <2>2
  <1>3. ASSUME st[a] # "ERROR"
        PROVE  /\ EventsLeft(a) \in 1..n
               /\ ~hw[Own(a)].irq \/ hw[Own(a)].op = NoOp
    <2>1. Place(a) \in Atomic!Places(r)
      BY <1>1, <1>3 DEF WireInv, CursorInv
    <2>2. Atomic!Rank(r, Place(a)) \in Nat /\ Atomic!Rank(r, Place(a)) + 1 \in 1..n
      BY <1>1, <2>1, RankType, ScriptAt
    <2>3. EventsLeft(a) = n - Atomic!Rank(r, Place(a))
      BY <1>3 DEF EventsLeft
    <2>4. EventsLeft(a) \in 1..n
      BY <1>2, <2>2, <2>3
    <2>5. ~hw[Own(a)].irq \/ hw[Own(a)].op = NoOp
      BY <1>1, <1>3 DEF WireInv, Pending, Through, Refused
    <2>6. QED
      BY <2>4, <2>5
  <1>4. st[a] = "ERROR" => EventsLeft(a) = 0
    BY DEF EventsLeft
  <1>5. QED
    BY <1>2, <1>3, <1>4

LEMMA LoopIsBounded == TypeOK /\ MuxInv /\ TransferInv => LoopBounded
  <1> SUFFICES ASSUME TypeOK, MuxInv, TransferInv, NEW a \in Adapters, Running(a)
               PROVE  PassesLeft(a) \in 0..Len(Atomic!Script(req[a])) + 1
    BY DEF LoopBounded
  <1>1. /\ Held(hw[Own(a)]) \in 0..2
        /\ ~hw[Own(a)].irq \/ hw[Own(a)].op = NoOp => Held(hw[Own(a)]) <= 1
    BY HeldIs
  <1> HIDE DEF Held
  <1>2. QED
    BY <1>1, EventsLeftType DEF PassesLeft

\* A step that leaves the cursor alone and gives the master nothing new.
LEMMA QuietSpends ==
    ASSUME TypeOK, MuxInv, TransferInv, NEW a \in Adapters, Running(a),
           req'[a] = req[a], mi'[a] = mi[a], pos'[a] = pos[a],
           st'[a] \in {st[a], "ERROR"},
           \/ hw'[Own(a)] = hw[Own(a)]
           \/ /\ hw'[Own(a)].op \in {hw[Own(a)].op, NoOp}
              /\ hw'[Own(a)].irq => hw[Own(a)].irq,
           xpc[a] = "isr" /\ xpc'[a] = "poll" => hw[Own(a)].irq /\ ~hw'[Own(a)].irq
    PROVE  PassSpends(a)
  <1> DEFINE h  == hw[Own(a)]
             h2 == hw'[Own(a)]
  <1>1. EventsLeft(a) \in Nat /\ EventsLeft(a)' \in {EventsLeft(a), 0}
    <2>1. EventsLeft(a) \in Nat
      BY EventsLeftType
    <2>2. CASE st'[a] = st[a]
      <3>1. Place(a)' = Place(a)
        BY <2>2 DEF Place, NewPos
      <3>2. EventsLeft(a)' = EventsLeft(a)
        BY <2>2, <3>1 DEF EventsLeft
      <3>3. QED
        BY <2>1, <3>2
    <2>3. CASE st'[a] = "ERROR"
      BY <2>1, <2>3 DEF EventsLeft
    <2>4. QED
      BY <2>1, <2>2, <2>3
  <1>2. /\ Held(h) \in Nat /\ Held(h2) \in Nat /\ Held(h2) <= Held(h)
        /\ h.irq /\ ~h2.irq => Held(h2) < Held(h)
    BY DEF Held
  <1>3. PassesLeft(a) = EventsLeft(a) + Held(h)
        /\ PassesLeft(a)' = EventsLeft(a)' + Held(h2)
    BY DEF PassesLeft, Held, Own
  <1> HIDE DEF h, h2
  <1>4. QED
    BY <1>1, <1>2, <1>3 DEF PassSpends, h, h2

\* A pass that sends the next command of the script, or the STOP after an
\* error, has used up the interrupt and at least one event.
LEMMA CommandSpends ==
    ASSUME TypeOK, MuxInv, TransferInv, NEW a \in Adapters, Running(a),
           st[a] # "ERROR", hw[Own(a)].irq, ~hw'[Own(a)].irq,
           EventsLeft(a)' \in Nat, EventsLeft(a)' < EventsLeft(a)
    PROVE  PassSpends(a)
  <1> DEFINE h  == hw[Own(a)]
             h2 == hw'[Own(a)]
  <1>1. EventsLeft(a) \in Nat /\ h.op = NoOp
    BY EventsLeftType
  <1>2. Held(h) = 1 /\ Held(h2) \in 0..1
    BY <1>1 DEF Held
  <1>3. PassesLeft(a) = EventsLeft(a) + Held(h)
        /\ PassesLeft(a)' = EventsLeft(a)' + Held(h2)
    BY DEF PassesLeft, Held, Own
  <1> HIDE DEF h, h2
  <1>4. QED
    BY <1>1, <1>2, <1>3 DEF PassSpends, h, h2

LEMMA ProcessSpends ==
    ASSUME TypeOK, MuxInv, TransferInv, NEW a \in Adapters, Xfer(a), Running(a),
           \/ ProcessByte(a) \/ ProcessNextMsg(a) \/ ProcessNoStart(a) \/ ProcessDone(a)
           \/ ProcessError(a)
    PROVE  PassSpends(a)
  <1> DEFINE h == hw[Own(a)]
             r == req[a]
  <1>1. /\ Sel(a) = Own(a) /\ Own(a) \in Ctrls /\ h \in Master
        /\ (~h.en => h.op = NoOp) /\ r \in Seq(Message)
    BY RunningFacts
  <1>2. EventsLeft(a) \in 0..Len(Atomic!Script(r)) /\ Len(Atomic!Script(r)) \in Nat
        /\ (st[a] # "ERROR" => EventsLeft(a) > 0)
    BY EventsLeftType
  <1>3. ASSUME NEW o \in Ops, Send(a, o)
        PROVE  ~hw'[Own(a)].irq
    <2>1. hw' = [hw EXCEPT ![Own(a)] = Command(@, o)]
      BY <1>1, <1>3 DEF Send
    <2>2. hw'[Own(a)] = Command(h, o)
      BY <1>1, <2>1 DEF TypeOK
    <2>3. QED
      BY <1>1, <2>2, MasterFields
  <1>4. CASE ProcessError(a)
    <2>1. h.irq /\ st[a] # "ERROR" /\ st'[a] = "ERROR" /\ Send(a, Op("stop", 0, 0))
      BY <1>1, <1>4 DEF ProcessError, TypeOK
    <2>2. EventsLeft(a)' = 0
      BY <2>1 DEF EventsLeft
    <2>3. ~hw'[Own(a)].irq
      BY <1>3, <2>1, StopIs
    <2>4. QED
      BY <1>2, <2>1, <2>2, <2>3, CommandSpends
  <1>5. CASE ProcessByte(a) \/ ProcessNextMsg(a) \/ ProcessNoStart(a) \/ ProcessDone(a)
    <2>1. ByteDone(a) /\ \E f : MovesTo(a, f)
      BY <1>5, ProcessMoves
    <2>2. PICK f : MovesTo(a, f)
      BY <2>1
    <2>3. /\ f \in Atomic!Places(r) /\ st'[a] # "ERROR" /\ req' = req
          /\ Atomic!Rank(r, f) = Atomic!Rank(r, Place(a)) + 1
          /\ Place(a)' = f /\ Send(a, Atomic!EventAt(r, f))
      BY <2>2 DEF MovesTo, Send
    <2>4. h.irq /\ st[a] # "ERROR"
      BY <1>1, <2>1 DEF ByteDone
    <2>5. EventsLeft(a) = Len(Atomic!Script(r)) - Atomic!Rank(r, Place(a))
          /\ EventsLeft(a)' = Len(Atomic!Script(r)) - Atomic!Rank(r, f)
      BY <2>3, <2>4 DEF EventsLeft
    <2>6. /\ Atomic!Rank(r, f) \in Nat /\ Atomic!Rank(r, f) + 1 \in 1..Len(Atomic!Script(r))
          /\ Atomic!Rank(r, Place(a)) \in Nat
      BY <1>1, <2>3, RankType, ScriptAt
    <2>7. EventsLeft(a)' \in Nat /\ EventsLeft(a)' < EventsLeft(a)
      BY <1>2, <2>3, <2>5, <2>6
    <2>8. ~hw'[Own(a)].irq
      BY <1>1, <1>3, <2>3, EventKinds
    <2>9. QED
      BY <2>4, <2>7, <2>8, CommandSpends
  <1>6. QED
    BY <1>4, <1>5

LEMMA XferSpends ==
    ASSUME TypeOK, MuxInv, TransferInv, NEW a \in Adapters, Xfer(a),
           Running(a), Running(a)'
    PROVE  PassSpends(a)
  <1>1. /\ Sel(a) = Own(a) /\ Own(a) \in Ctrls /\ hw[Own(a)] \in Master
        /\ (~hw[Own(a)].en => hw[Own(a)].op = NoOp)
    BY RunningFacts
  <1>2. CASE PollWait(a) \/ PollTimeout(a) \/ IsrNone(a)
    <2>1. /\ hw' = hw /\ UNCHANGED <<req, mi, pos>> /\ st'[a] \in {st[a], "ERROR"}
          /\ xpc'[a] # "poll"
      BY <1>2 DEF PollWait, PollTimeout, IsrNone, Go, TypeOK
    <2>2. QED
      BY <2>1, QuietSpends
  <1>3. CASE ProcessOver(a)
    <2>1. /\ hw' = [hw EXCEPT ![Own(a)] = Iack(@)] /\ UNCHANGED <<req, mi, pos, st>>
          /\ hw[Own(a)].irq
      BY <1>1, <1>3 DEF ProcessOver
    <2>2. hw'[Own(a)] = Iack(hw[Own(a)])
      BY <1>1, <2>1 DEF TypeOK
    <2>3. hw'[Own(a)].op = hw[Own(a)].op /\ ~hw'[Own(a)].irq
      BY <1>1, <2>2, MasterFields
    <2>4. QED
      BY <2>1, <2>3, QuietSpends
  <1>4. CASE \/ ProcessByte(a) \/ ProcessNextMsg(a) \/ ProcessNoStart(a)
             \/ ProcessDone(a) \/ ProcessError(a)
    BY <1>4, ProcessSpends
  <1>5. CASE \/ XferSelectMux(a) \/ XferReadControl(a) \/ XferWriteControl(a)
             \/ XferStart(a) \/ XferReturn(a)
    <2>1. ~Running(a) \/ ~Running(a)'
      BY <1>5 DEF XferSelectMux, XferReadControl, XferWriteControl, XferStart,
         XferReturn, Go, Running, TypeOK
    <2>2. QED
      BY <2>1
  <1>6. QED
    BY <1>2, <1>3, <1>4, <1>5 DEF Xfer

\* The master of a running transfer finishes its command: the command becomes
\* the interrupt.
LEMMA HwSpends ==
    ASSUME TypeOK, MuxInv, TransferInv, NEW c \in Ctrls, HwComplete(c),
           NEW a \in Adapters, Running(a)
    PROVE  PassSpends(a)
  <1>1. UNCHANGED <<xpc, req, mi, pos, st>>
    BY DEF HwComplete, xferVars
  <1>2. Own(a) \in Ctrls
    BY RunningFacts
  <1>3. \A d \in Ctrls : d # c => hw'[d] = hw[d]
    BY DEF HwComplete, TypeOK
  <1>4. hw[c].op # NoOp /\ hw'[c].op = NoOp /\ hw'[c].irq
    <2>1. PICK busy, res :
             hw' = [hw EXCEPT ![c] = [@ EXCEPT !.op = NoOp, !.irq = TRUE,
                                         !.busy = busy, !.res = res]]
      BY DEF HwComplete
    <2>2. hw[c] \in Master /\ hw[c].op # NoOp
      BY DEF HwComplete, TypeOK, Master
    <2>3. QED
      BY <2>1, <2>2 DEF TypeOK, Master
  <1>5. xpc[a] = "isr" => xpc'[a] # "poll"
    BY <1>1
  <1>6. CASE Own(a) # c
    BY <1>1, <1>2, <1>3, <1>5, <1>6, QuietSpends
  <1>7. CASE Own(a) = c
    <2>1. EventsLeft(a)' = EventsLeft(a) /\ EventsLeft(a) \in Nat
      BY <1>1, EventsLeftType DEF EventsLeft, Place, NewPos
    <2>2. Held(hw[Own(a)]) \in 1..2 /\ Held(hw'[Own(a)]) = 1
      BY <1>4, <1>7 DEF Held
    <2>3. PassesLeft(a) = EventsLeft(a) + Held(hw[Own(a)])
          /\ PassesLeft(a)' = EventsLeft(a)' + Held(hw'[Own(a)])
      BY DEF PassesLeft, Held, Own
    <2>4. QED
      BY <1>5, <2>1, <2>2, <2>3 DEF PassSpends
  <1>8. QED
    BY <1>6, <1>7

\* A probe, a removal or a resume of another device that reaches the master
\* can only take from it; a sleep runs with no transfer.
LEMMA DevSpends ==
    ASSUME TypeOK, MuxInv, TransferInv,
           Dev \/ Power \/ ModuleReload \/ \E b \in Adapters : DevStart(b),
           NEW a \in Adapters, Running(a)
    PROVE  PassSpends(a)
  <1>1. UNCHANGED <<xpc, req, mi, pos, st>>
    BY DevMasters DEF xferVars
  <1>2. /\ Own(a) \in Ctrls /\ hw[Own(a)] \in Master
        /\ (~hw[Own(a)].en => hw[Own(a)].op = NoOp)
    BY RunningFacts
  <1>3. pm = "on"
    BY DEF MuxInv, Running
  <1>4. \/ hw'[Own(a)] = hw[Own(a)] \/ hw'[Own(a)] = Iack(hw[Own(a)])
        \/ \E e \in BOOLEAN : hw'[Own(a)] = SetEn(hw[Own(a)], e)
    BY <1>2, <1>3, DevMasters
  <1>5. /\ hw'[Own(a)].op \in {hw[Own(a)].op, NoOp}
        /\ hw'[Own(a)].irq => hw[Own(a)].irq
    BY <1>2, <1>4, MasterFields
  <1>6. xpc[a] = "isr" => xpc'[a] # "poll"
    BY <1>1
  <1>7. QED
    BY <1>1, <1>5, <1>6, QuietSpends

LEMMA StepSpends ==
    TypeOK /\ MuxInv /\ TransferInv /\ [Next]_vars =>
       [\A a \in Adapters : Running(a) /\ Running(a)' => PassSpends(a)]_vars
  <1> SUFFICES ASSUME TypeOK, MuxInv, TransferInv, Next, NEW a \in Adapters,
                      Running(a), Running(a)'
               PROVE  PassSpends(a)
    OBVIOUS
  <1>1. ASSUME NEW b \in Adapters, Xfer(b) PROVE PassSpends(a)
    <2>1. b = a
      BY <1>1, XferAlone
    <2>2. QED
      BY <1>1, <2>1, XferSpends
  <1>2. ASSUME NEW b \in Adapters, XferBegin(b) \/ XferLock(b) PROVE PassSpends(a)
    <2>1. xpc[b] \in {"idle", "lock"}
      BY <1>2 DEF XferBegin, XferLock, Go
    <2>2. b # a
      BY <2>1 DEF Running
    <2>3. UNCHANGED <<mi, pos, st, hw>> /\ xpc'[a] = xpc[a] /\ req'[a] = req[a]
      BY <1>2, <2>2 DEF XferBegin, XferLock, Go, TypeOK
    <2>4. QED
      BY <2>3, QuietSpends
  <1>3. QED
    BY <1>1, <1>2, HwSpends, DevSpends DEF Next

\* A transfer that has the lock makes at most one pass of the polling loop
\* for each event of its script and one for the interrupt it may find, and no
\* step of anybody gives it another (lines 559-580): the safety core of
\* XferTerminates.
THEOREM LoopRunsOut == Spec => []LoopBounded /\ LoopRunsDown
  BY LoopIsBounded, StepSpends, TypeCorrect, MuxCorrect, TransferCorrect, PTL
     DEF Spec, LoopRunsDown

-----------------------------------------------------------------------------
(* With no probe, removal or sleep the loop is left with the transfer over. *)

LEMMA SteadyInit == ASSUME DevOps = {} PROVE Init => SteadyInv
  <1>1. SUFFICES ASSUME Init PROVE SteadyInv
    OBVIOUS
  <1>2. dev = Idle /\ pm = "on" /\ \A a \in Adapters : xpc[a] = "idle"
    BY <1>1 DEF Init
  <1>3. \A c \in Ctrls : hw[c].en
    BY <1>1 DEF Init, PowerOff
  <1>4. QED
    BY <1>2, <1>3 DEF SteadyInv, Running

\* A byte that is over the wire leaves the master without a command.
LEMMA ByteLeavesNoOp ==
    ASSUME TypeOK, MuxInv, TransferInv, NEW a \in Adapters, Running(a), ~Over(a),
           ~Tip(Own(a))
    PROVE  hw[Own(a)].op = NoOp
  <1> DEFINE h == hw[Own(a)]
             w == wire[Own(a)]
             r == req[a]
  <1>1. r \in Seq(Message) /\ WireInv(a) /\ pos[a] \in Nat /\ mi[a] \in Nat
    BY RunningFacts
  <1>2. CursorInv(a) /\ (\/ Pending(h, w, r, Place(a)) \/ Through(h, w, r, Place(a))
                         \/ Refused(h, w, r, Place(a), {NoOp}))
    BY <1>1 DEF WireInv, Over
  <1>3. Place(a) \in Atomic!Places(r) /\ Place(a) # Atomic!End(r)
    <2>1. Place(a) = <<mi[a], NewPos(a)>> /\ mi[a] \in 1..Len(r) /\ NewPos(a) \in Nat
      BY <1>1, <1>2 DEF CursorInv, Place, Over, NewPos
    <2>2. QED
      BY <1>1, <1>2, <2>1, EventIs DEF CursorInv
  <1>4. Atomic!EventAt(r, Place(a)).kind \in {"start", "write", "read", "readnack"}
    BY <1>1, <1>3, EventKinds
  <1>5. QED
    BY <1>2, <1>4 DEF Pending, Through, Refused, Tip

LEMMA SteadyXfer ==
    ASSUME TypeOK, MuxInv, TransferInv, SteadyInv, NEW a \in Adapters, Xfer(a)
    PROVE  SteadyInv'
  <1> DEFINE h == hw[Own(a)]
             Busy(b) == Running(b) /\ ~Over(b) =>
                          /\ hw[Own(b)].op # NoOp \/ hw[Own(b)].irq
                          /\ xpc[b] # "return"
                          /\ xpc[b] = "isr" => hw[Own(b)].op = NoOp
  <1>1. dev' = Idle /\ pm' = "on"
    BY DEF SteadyInv, Xfer, XferSelectMux, XferReadControl, XferWriteControl, XferStart,
           PollWait, PollTimeout, IsrNone, ProcessOver, ProcessError, ProcessByte,
           ProcessNextMsg, ProcessNoStart, ProcessDone, XferReturn, ByteDone, NextByte,
           Send, devVars
  <1>2. /\ xpc[a] \in Critical /\ Own(a) \in Ctrls
        /\ \A b \in Adapters : b # a =>
             ~Running(b)' /\ xpc'[b] = xpc[b] /\ xpc[b] # "ien"
    <2>1. \A b \in Adapters : b # a => xpc[b] # "ien"
      BY XferAlone DEF MuxInv, LockOwner, Critical, Selected
    <2>2. QED
      BY <2>1, XferAlone, CtrlsType
  <1>3. xpc[a] \in Selected => Sel(a) = Own(a)
    BY DEF MuxInv, Sel, Own
  <1>4. h \in Master /\ h.en
    BY <1>2 DEF TypeOK, Master, SteadyInv
  <1>5. SUFFICES /\ \A c \in Ctrls : hw'[c].en
                 /\ xpc'[a] = "ien" => ctl'[a]
                 /\ Busy(a)'
    BY <1>1, <1>2 DEF SteadyInv
  <1>6. ASSUME hw' = hw, xpc'[a] # "ien", ~Running(a)' \/ Over(a)'
        PROVE  /\ \A c \in Ctrls : hw'[c].en
               /\ xpc'[a] = "ien" => ctl'[a]
               /\ Busy(a)'
    BY <1>6 DEF SteadyInv
  <1>7. CASE XferSelectMux(a) \/ PollTimeout(a) \/ XferReturn(a)
    <2>1. hw' = hw /\ xpc'[a] # "ien" /\ (~Running(a)' \/ Over(a)')
      BY <1>7 DEF XferSelectMux, PollTimeout, XferReturn, Go, Running, Over, TypeOK
    <2>2. QED
      BY <1>6, <2>1
  <1>8. CASE XferReadControl(a)
    <2>1. Sel(a) = Own(a)
      <3>1. Sel(a) \in Ctrls
        BY CtrlsType DEF TypeOK
      <3>2. xpc[a] \in Selected
        BY <1>8 DEF XferReadControl, Go, Selected
      <3>3. QED
        BY <1>3, <3>2
    <2>2. hw' = hw /\ xpc'[a] = "ien" /\ ctl'[a] = h.en
      BY <1>8, <2>1 DEF XferReadControl, Go, TypeOK
    <2>3. ctl'[a]
      BY <1>4, <2>2, Zenon
    <2>4. QED
      BY <2>2, <2>3 DEF SteadyInv, Running
  <1>9. CASE XferWriteControl(a)
    <2>1. Sel(a) = Own(a) /\ xpc[a] = "ien" /\ xpc'[a] = "start"
      BY <1>3, <1>9 DEF XferWriteControl, Go, Selected, TypeOK
    <2>2. ctl[a]
      BY <2>1 DEF SteadyInv
    <2>3. hw' = [hw EXCEPT ![Own(a)] = SetEn(@, ctl[a])]
      BY <1>9, <2>1 DEF XferWriteControl
    <2>4. hw'[Own(a)] = SetEn(h, ctl[a]) /\ \A c \in Ctrls : c # Own(a) => hw'[c] = hw[c]
      BY <1>2, <2>3 DEF TypeOK
    <2>5. hw'[Own(a)].en
      <3>1. SetEn(h, ctl[a]).en = ctl[a]
        BY <1>4 DEF SetEn, Master
      <3>2. QED
        BY <2>2, <2>4, <3>1, Zenon
    <2>6. \A c \in Ctrls : hw'[c].en
      BY <2>4, <2>5 DEF SteadyInv
    <2>7. QED
      BY <2>1, <2>6 DEF Running
  <1>10. CASE PollWait(a) \/ IsrNone(a)
    <2>1. hw' = hw /\ st' = st /\ Running(a) /\ Sel(a) = Own(a) /\ xpc'[a] # "ien"
      BY <1>3, <1>10 DEF PollWait, IsrNone, Go, Running, Selected, TypeOK
    <2>2. ASSUME ~Over(a)
          PROVE  h.op = NoOp /\ h.irq /\ PollWait(a)
      <3>1. h.op # NoOp \/ h.irq
        BY <2>1, <2>2 DEF SteadyInv
      <3>2. CASE PollWait(a)
        <4>1. ~Tip(Own(a))
          BY <2>1, <2>2, <3>2 DEF PollWait, PollClear, Over
        <4>2. QED
          BY <2>1, <2>2, <3>1, <3>2, <4>1, ByteLeavesNoOp
      <3>3. CASE IsrNone(a)
        <4>1. xpc[a] = "isr" /\ ~h.irq
          BY <2>1, <3>3 DEF IsrNone, Go
        <4>2. QED
          BY <2>1, <2>2, <3>1, <4>1 DEF SteadyInv
      <3>4. QED
        BY <1>10, <3>2, <3>3
    <2>3. PollWait(a) => xpc'[a] = "isr"
      BY DEF PollWait, Go, TypeOK
    <2>4. QED
      BY <2>1, <2>2, <2>3 DEF SteadyInv, Over
  <1>11. ASSUME NEW g \in Master, g.en, hw' = [hw EXCEPT ![Own(a)] = g],
                xpc'[a] = "poll", Over(a)' \/ g.op # NoOp
         PROVE  /\ \A c \in Ctrls : hw'[c].en
                /\ xpc'[a] = "ien" => ctl'[a]
                /\ Busy(a)'
    <2>1. hw'[Own(a)] = g /\ \A c \in Ctrls : c # Own(a) => hw'[c] = hw[c]
      BY <1>2, <1>11 DEF TypeOK
    <2>2. QED
      BY <1>11, <2>1 DEF SteadyInv
  <1>12. CASE ProcessOver(a)
    <2>1. Sel(a) = Own(a) /\ xpc'[a] = "poll" /\ Over(a)'
      BY <1>3, <1>12 DEF ProcessOver, Go, Selected, TypeOK, Over
    <2>2. hw' = [hw EXCEPT ![Own(a)] = Iack(h)]
      BY <2>1, <1>12 DEF ProcessOver
    <2>3. Iack(h) \in Master /\ Iack(h).en
      BY <1>4, MasterType, MasterFields DEF Iack, Master
    <2>4. QED
      BY <1>11, <2>1, <2>2, <2>3
  <1>13. ASSUME NEW o \in Ops, Sel(a) = Own(a), Over(a)' \/ o # NoOp, xpc'[a] = "poll",
                hw' = [hw EXCEPT ![Sel(a)] = Command(@, o)]
         PROVE  /\ \A c \in Ctrls : hw'[c].en
                /\ xpc'[a] = "ien" => ctl'[a]
                /\ Busy(a)'
    <2>1. /\ Command(h, o) \in Master /\ Command(h, o).en
          /\ Command(h, o).op = o
      BY <1>4, MasterType, MasterFields
    <2>2. hw' = [hw EXCEPT ![Own(a)] = Command(h, o)]
      BY <1>13
    <2>3. QED
      BY <1>11, <1>13, <2>1, <2>2
  <1>14. CASE XferStart(a)
    <2>1. Sel(a) = Own(a) /\ xpc'[a] = "poll"
      BY <1>3, <1>14 DEF XferStart, Go, Selected, TypeOK
    <2>2. Op("start", 1, 0) \in Ops /\ Op("start", 1, 0) # NoOp
      BY OpType DEF OpKinds, NoOp, Op
    <2>3. QED
      BY <1>13, <1>14, <2>1, <2>2 DEF XferStart
  <1>15. CASE ProcessError(a)
    <2>1. Sel(a) = Own(a) /\ xpc'[a] = "poll" /\ Over(a)'
      BY <1>3, <1>15 DEF ProcessError, Go, Selected, TypeOK, Over
    <2>2. Op("stop", 0, 0) \in Ops
      BY OpType DEF OpKinds
    <2>3. QED
      BY <1>13, <1>15, <2>1, <2>2 DEF ProcessError, Send
  <1>16. CASE ProcessByte(a) \/ ProcessNextMsg(a) \/ ProcessNoStart(a) \/ ProcessDone(a)
    <2>1. ByteDone(a)
      BY <1>16 DEF ProcessByte, ProcessNextMsg, ProcessNoStart, ProcessDone
    <2>2. Sel(a) = Own(a) /\ xpc'[a] = "poll"
      BY <1>3, <2>1 DEF ByteDone, Go, Selected, TypeOK
    <2>3. NewPos(a) \in Nat /\ mi[a] \in Nat
      BY DEF TypeOK, NewPos
    <2>4. ASSUME NEW m \in Nat, NEW p \in Nat, NextByte(a, m, p)
          PROVE  \E o \in Ops : o # NoOp /\ Send(a, o)
      <3> DEFINE o == IF req[a][m].rd
                      THEN Op(IF p + 1 = req[a][m].len THEN "readnack" ELSE "read", 0, 0)
                      ELSE Op("write", m, p)
      <3>1. o \in Ops
        BY OpType DEF OpKinds
      <3>2. o # NoOp
        BY DEF Op, NoOp
      <3>3. Send(a, o)
        BY <2>4 DEF NextByte
      <3> HIDE DEF o
      <3>4. QED
        BY <3>1, <3>2, <3>3
    <2>5. \E o \in Ops : o # NoOp /\ Send(a, o)
      <3>1. CASE ProcessByte(a)
        BY <2>3, <2>4, <3>1 DEF ProcessByte
      <3>2. CASE ProcessNextMsg(a)
        <4>1. Op("start", mi[a] + 1, 0) \in Ops /\ Op("start", mi[a] + 1, 0) # NoOp
          BY <2>3, OpType DEF OpKinds, Op, NoOp
        <4>2. QED
          BY <3>2, <4>1 DEF ProcessNextMsg
      <3>3. CASE ProcessNoStart(a)
        BY <2>3, <2>4, <3>3 DEF ProcessNoStart
      <3>4. CASE ProcessDone(a)
        <4>1. Op("stop", 0, 0) \in Ops /\ Op("stop", 0, 0) # NoOp
          BY OpType DEF OpKinds, Op, NoOp
        <4>2. QED
          BY <3>4, <4>1 DEF ProcessDone
      <3>5. QED
        BY <1>16, <3>1, <3>2, <3>3, <3>4
    <2>6. QED
      BY <1>13, <2>2, <2>5 DEF Send
  <1>17. QED
    BY <1>7, <1>8, <1>9, <1>10, <1>12, <1>14, <1>15, <1>16 DEF Xfer

LEMMA SteadyStep ==
    ASSUME DevOps = {}
    PROVE  TypeOK /\ MuxInv /\ TransferInv /\ SteadyInv /\ [Next]_vars => SteadyInv'
  <1> SUFFICES ASSUME TypeOK, MuxInv, TransferInv, SteadyInv, [Next]_vars PROVE SteadyInv'
    OBVIOUS
  <1>1. CASE UNCHANGED vars
    BY <1>1 DEF vars, devVars, xferVars, SteadyInv, Running, Over
  <1>2. ~Dev /\ ~Power /\ ~ModuleReload /\ \A a \in Adapters : ~DevStart(a)
    <2>1. dev.pc = "idle" /\ pm = "on"
      BY DEF SteadyInv, Idle
    <2>2. ~Dev
      BY <2>1 DEF Dev, DevLock, ProbeSelectMux, ProbeMapFails, ResumeForget, DevUnlock,
         ProbeNoWindow, InitDisable, InitIack, InitEnable, ProbeEnd, ResumeEnd,
         RemoveDisable, RemoveDelAdapter, DevGo
    <2>3. ~Power /\ ~ModuleReload
      BY <2>1 DEF Power, Freeze, PowerCycle, Thaw, ModuleReload
    <2>4. \A a \in Adapters : ~DevStart(a)
      BY <2>1 DEF DevStart, ProbeBegin, RemoveBegin, Suspend, ResumeBegin
    <2>5. QED
      BY <2>2, <2>3, <2>4
  <1>3. ASSUME NEW a \in Adapters, XferBegin(a) \/ XferLock(a) PROVE SteadyInv'
    <2>1. /\ UNCHANGED <<dev, pm, hw, st, ctl>> /\ xpc'[a] \in {"lock", "mux"}
          /\ \A b \in Adapters : b # a => xpc'[b] = xpc[b]
      BY <1>3 DEF XferBegin, XferLock, Go, TypeOK, devVars
    <2>2. QED
      BY <2>1 DEF SteadyInv, Running, Over
  <1>4. ASSUME NEW c \in Ctrls, HwComplete(c) PROVE SteadyInv'
    <2>1. UNCHANGED <<dev, pm, xpc, st, ctl>>
      BY <1>4 DEF HwComplete, devVars, xferVars
    <2>2. PICK s : hw' = [hw EXCEPT ![c] = [@ EXCEPT !.op = NoOp, !.irq = TRUE,
                                          !.busy = hw[c].op.kind # "stop", !.res = s]]
      BY <1>4 DEF HwComplete
    <2>3. hw[c] \in Master
      BY DEF TypeOK, Master
    <2>4. /\ hw'[c].op = NoOp /\ hw'[c].irq /\ hw'[c].en = hw[c].en
          /\ \A d \in Ctrls : d # c => hw'[d] = hw[d]
      BY <2>2, <2>3 DEF TypeOK, Master
    <2>5. \A d \in Ctrls : hw'[d].en
      BY <2>4 DEF SteadyInv
    <2>6. \A a \in Adapters : Own(a) \in Ctrls
      BY CtrlsType
    <2>7. \A d \in Ctrls : hw'[d] = hw[d] \/ (hw'[d].op = NoOp /\ hw'[d].irq)
      BY <2>4
    <2>8. QED
      BY <2>1, <2>5, <2>6, <2>7 DEF SteadyInv, Running, Over
  <1>5. QED
    BY <1>1, <1>2, <1>3, <1>4, SteadyXfer DEF Next

\* While no device is probed, removed or put to sleep, IRQ_NONE comes only
\* after the STOP: the polling loop is left with the transfer over.
THEOREM LoopCorrect ==
    ASSUME DevOps = {}
    PROVE  Spec => []LoopLeftWhenOver
  <1>1. Init => SteadyInv
    BY SteadyInit
  <1>2. TypeOK /\ MuxInv /\ TransferInv /\ SteadyInv /\ [Next]_vars => SteadyInv'
    BY SteadyStep
  <1>3. SteadyInv => LoopLeftWhenOver
    BY DEF SteadyInv, LoopLeftWhenOver, Running, Over
  <1>4. QED
    BY <1>1, <1>2, <1>3, TypeCorrect, MuxCorrect, TransferCorrect, PTL DEF Spec

-----------------------------------------------------------------------------
(* The driver implements I2cAtomicTransfer.                                *)

\* Only the owner of the lock is between lock and unlock.
LEMMA OwnerIs ==
    /\ TypeOK /\ MuxInv =>
         /\ Owner \in Adapters \cup {Free}
         /\ \A a \in Adapters : xpc[a] \in Critical <=> Owner = a
    /\ TypeOK' /\ MuxInv' =>
         /\ Owner' \in Adapters \cup {Free}
         /\ \A a \in Adapters : xpc'[a] \in Critical <=> Owner' = a
  BY AdaptersAssumption DEF Owner, TypeOK, MuxInv, LockOwner

LEMMA RequestIs ==
    /\ TypeOK /\ TransferInv => Request = req
    /\ TypeOK' /\ TransferInv' => Request' = req'
  BY DEF Request, TypeOK, TransferInv

LEMMA NobodyView ==
    /\ Owner = Free => Sent = <<>> /\ Stored = {} /\ Result = "none"
    /\ Owner' = Free => Sent' = <<>> /\ Stored' = {} /\ Result' = "none"
  BY DEF Sent, Stored, Result, Started

LEMMA OwnerView ==
    ASSUME NEW a \in Adapters
    PROVE  /\ Owner = a =>
                /\ Sent = IF Running(a) THEN wire[Own(a)] ELSE <<>>
                /\ Stored = IF Running(a) THEN buf[a] ELSE {}
                /\ Result = IF xpc[a] # "return" THEN "none"
                            ELSE IF st[a] = "DONE" THEN "ok" ELSE "error"
           /\ Owner' = a =>
                /\ Sent' = IF Running(a)' THEN wire'[Own(a)] ELSE <<>>
                /\ Stored' = IF Running(a)' THEN buf'[a] ELSE {}
                /\ Result' = IF xpc'[a] # "return" THEN "none"
                             ELSE IF st'[a] = "DONE" THEN "ok" ELSE "error"
  <1>1. a # Free
    BY AdaptersAssumption
  <1>2. QED
    BY <1>1 DEF Sent, Stored, Result, Started

LEMMA AtomicInit == Init => Atomic!Init
  <1>1. SUFFICES ASSUME Init PROVE Atomic!Init
    OBVIOUS
  <1>2. Owner = Free
    BY <1>1, AdaptersAssumption DEF Init, Owner
  <1>3. Request = [a \in Adapters |-> <<>>]
    BY <1>1 DEF Init, Request
  <1>4. QED
    BY <1>2, <1>3, NobodyView DEF Atomic!Init

\* A client's request and the lock.
LEMMA AtomicBegin ==
    ASSUME TypeOK, MuxInv, TransferInv, TypeOK', MuxInv', TransferInv',
           NEW a \in Adapters, XferBegin(a) \/ XferLock(a)
    PROVE  Atomic!Next
  <1>1. CASE XferBegin(a)
    <2>1. PICK q \in Requests : req' = [req EXCEPT ![a] = q]
      BY <1>1 DEF XferBegin
    <2>2. xpc[a] = "idle" /\ UNCHANGED <<lock, st, buf, wire>>
          /\ \A b \in Adapters : b # a => xpc'[b] = xpc[b]
      BY <1>1 DEF XferBegin, Go, muxVars, TypeOK
    <2>3. Owner' = Owner /\ Owner # a
      BY <2>2, OwnerIs DEF Owner, Critical, Selected
    <2>4. UNCHANGED <<Sent, Stored, Result>>
      <3>1. CASE Owner = Free
        BY <2>3, <3>1, NobodyView
      <3>2. CASE Owner # Free
        <4>1. PICK b \in Adapters : Owner = b
          BY <3>2, OwnerIs
        <4>2. xpc'[b] = xpc[b]
          BY <2>2, <2>3, <4>1
        <4>3. /\ Sent = IF Running(b) THEN wire[Own(b)] ELSE <<>>
              /\ Stored = IF Running(b) THEN buf[b] ELSE {}
              /\ Result = IF xpc[b] # "return" THEN "none"
                          ELSE IF st[b] = "DONE" THEN "ok" ELSE "error"
          BY <4>1, OwnerView
        <4>4. /\ Sent' = IF Running(b)' THEN wire'[Own(b)] ELSE <<>>
              /\ Stored' = IF Running(b)' THEN buf'[b] ELSE {}
              /\ Result' = IF xpc'[b] # "return" THEN "none"
                           ELSE IF st'[b] = "DONE" THEN "ok" ELSE "error"
          BY <2>3, <4>1, OwnerView
        <4>5. QED
          BY <2>2, <4>2, <4>3, <4>4 DEF Running
      <3>3. QED
        BY <3>1, <3>2
    <2>5. req[a] = <<>>
      BY <2>2 DEF TransferInv
    <2>6. Atomic!Ask(a)
      BY <2>1, <2>3, <2>4, <2>5, RequestIs DEF Atomic!Ask
    <2>7. QED
      BY <2>6 DEF Atomic!Next
  <1>2. CASE XferLock(a)
    <2>1. xpc[a] = "lock" /\ xpc'[a] = "mux" /\ lock = Free /\ lock' = a /\ req' = req
      BY <1>2 DEF XferLock, Go, TypeOK
    <2>2. Owner = Free /\ Owner' = a
      BY <2>1, AdaptersAssumption DEF Owner
    <2>3. UNCHANGED <<Sent, Stored, Result>>
      BY <2>1, <2>2, NobodyView, OwnerView DEF Running
    <2>4. req[a] # <<>>
      BY <2>1 DEF TransferInv
    <2>5. Atomic!Acquire(a)
      BY <2>1, <2>2, <2>3, <2>4, RequestIs DEF Atomic!Acquire
    <2>6. QED
      BY <2>5 DEF Atomic!Next
  <1>3. QED
    BY <1>1, <1>2

\* The bytes of a transfer that is complete: nothing of the script is left,
\* once the bus has been released after it.
LEMMA ReleasedIsComplete ==
    ASSUME TypeOK, MuxInv, TransferInv, NEW a \in Adapters, Running(a), Released(a),
           st[a] = "DONE"
    PROVE  /\ wire[Own(a)] = Atomic!Script(req[a])
           /\ buf[a] = Atomic!Reads(req[a], Len(wire[Own(a)]))
           /\ hw[Own(a)].op = NoOp
  <1> DEFINE h == hw[Own(a)]
             w == wire[Own(a)]
             r == req[a]
             e == Atomic!End(r)
             n == Atomic!Rank(r, e)
  <1>1. /\ r \in Requests /\ r \in Seq(Message) /\ r # <<>> /\ w \in Seq(Ops)
        /\ WireInv(a)
    BY RunningFacts
  <1>2. Place(a) = e /\ ~h.busy /\ (w = <<>> \/ w[Len(w)] = Atomic!Stop)
    BY <1>1 DEF WireInv, Place
  <1>3. CursorInv(a) /\ (\/ Pending(h, w, r, e)
                         \/ Through(h, w, r, e)
                         \/ Refused(h, w, r, e, {NoOp}))
    BY <1>1, <1>2 DEF WireInv
  <1>4. n + 1 = Len(Atomic!Script(r)) /\ n > 0 /\ n \in Nat /\ e \in Atomic!Places(r)
    BY <1>1, PlaceEnds, RankType, PlaceIs
  <1>5. ~Refused(h, w, r, e, {NoOp})
    <2>1. Atomic!EventAt(r, e).kind = "stop"
      BY <1>1, <1>4, EventKinds
    <2>2. QED
      BY <2>1 DEF Refused
  <1>6. ~Pending(h, w, r, e)
    <2> SUFFICES ASSUME Pending(h, w, r, e) PROVE FALSE
      OBVIOUS
    <2>1. PICK f \in Atomic!Places(r) : f # e /\ Atomic!Rank(r, f) + 1 = n
      <3> DEFINE m == Len(r)
                 f == <<m, r[m].len>>
      <3>1. m \in 1..Len(r) /\ r[m].len \in Nat /\ Atomic!First(r, m) \in {0, 1}
        <4>1. m \in 1..Len(r)
          BY <1>1
        <4>2. QED
          BY <1>1, <4>1, MessageType
      <3>2. Atomic!First(r, m) <= r[m].len
        <4>1. CASE m > 1 /\ r[m].nostart
          <5>1. m \in 2..Len(r)
            BY <3>1, <4>1
          <5>2. r[m].len > 0
            BY <1>1, <4>1, <5>1, ContinuationsAssumption
          <5>3. QED
            BY <3>1, <5>2
        <4>2. CASE ~(m > 1 /\ r[m].nostart)
          BY <3>1, <4>2 DEF Atomic!First
        <4>3. QED
          BY <4>1, <4>2
      <3>3. f \in Atomic!Places(r)
        BY <1>1, <3>1, <3>2, PlaceIs
      <3>4. n = Atomic!Rank(r, f) + 1
        BY <1>1, <3>1, <3>3, PlaceNext
      <3>5. f # e
        BY <1>1, <3>1, EventIs
      <3> HIDE DEF f, n, e
      <3>6. QED
        BY <3>3, <3>4, <3>5
    <2>2. Atomic!Script(r)[n] = Atomic!EventAt(r, f)
      BY <1>1, <2>1, ScriptAt
    <2>3. Len(w) = n /\ w[n] = Atomic!Script(r)[n] /\ w # <<>>
      <3> HIDE DEF n
      <3>1. Len(w) = n /\ Follows(w, r, n)
        BY DEF Pending, n
      <3>2. n \in 1..n
        BY <1>4
      <3>3. QED
        BY <1>4, <3>1, <3>2 DEF Follows
    <2>4. Atomic!EventAt(r, f) # Atomic!Stop
      <3>1. Atomic!EventAt(r, f).kind # "stop"
        BY <1>1, <2>1, EventKinds
      <3>2. QED
        BY <3>1, StopIs DEF Op
    <2>5. QED
      BY <1>2, <2>2, <2>3, <2>4
  <1>7. Through(h, w, r, e)
    BY <1>3, <1>5, <1>6
  <1>8. Len(w) = n + 1 /\ \A i \in 1..(n + 1) : w[i] = Atomic!Script(r)[i]
    BY <1>7 DEF Through, Follows
  <1>9. w = Atomic!Script(r)
    <2>1. Atomic!Script(r) = [k \in 1..Cardinality(Atomic!Places(r)) |->
                                  Atomic!Script(r)[k]]
      BY CardSame DEF Atomic!Script
    <2>2. w = [k \in 1..Len(w) |-> w[k]]
      BY <1>1
    <2>3. Len(w) = Cardinality(Atomic!Places(r))
      BY <1>1, <1>4, <1>8, ScriptAt
    <2>4. \A k \in 1..Len(w) : w[k] = Atomic!Script(r)[k]
      BY <1>8
    <2> HIDE DEF w, r, n
    <2>5. [k \in 1..Len(w) |-> w[k]] = [k \in 1..Len(w) |-> Atomic!Script(r)[k]]
      BY <2>4
    <2>6. QED
      BY <2>1, <2>2, <2>3, <2>5
  <1>10. buf[a] = Atomic!Reads(r, n + 1)
    <2>1. buf[a] = Atomic!Reads(r, n)
      BY <1>2, <1>3 DEF CursorInv
    <2>2. Atomic!Reads(r, n + 1) = Atomic!Reads(r, n)
      <3>1. ~Atomic!IsRead(r, e)
        BY <1>1, EventIs
      <3>2. Atomic!Reads(r, n + 1) = Atomic!Reads(r, n) \cup
              (IF Atomic!IsRead(r, e) THEN {<<e[1], e[2] - 1, n + 1>>} ELSE {})
        BY <1>1, <1>4, ReadsNext
      <3> HIDE DEF n, e, r
      <3>3. QED
        BY <3>1, <3>2
    <2>3. QED
      BY <2>1, <2>2
  <1>11. QED
    BY <1>7, <1>8, <1>9, <1>10 DEF Through

\* The steps of the transfer of the owner.
LEMMA AtomicXfer ==
    ASSUME TypeOK, MuxInv, TransferInv, TypeOK', MuxInv', TransferInv',
           NEW a \in Adapters, Xfer(a)
    PROVE  Atomic!Next \/ UNCHANGED Atomic!vars
  <1> DEFINE w == wire[Own(a)]
             r == req[a]
  <1>1. Owner = a /\ lock = a /\ Request = req /\ Request' = req' /\ a # Free
    BY XferAlone, OwnerIs, RequestIs, AdaptersAssumption
  <1>2. /\ Sent = IF Running(a) THEN w ELSE <<>>
        /\ Stored = IF Running(a) THEN buf[a] ELSE {}
        /\ Result = IF xpc[a] # "return" THEN "none"
                    ELSE IF st[a] = "DONE" THEN "ok" ELSE "error"
    BY <1>1, OwnerView
  <1>3. xpc'[a] \in Critical =>
          /\ Owner' = a
          /\ Sent' = IF Running(a)' THEN wire'[Own(a)] ELSE <<>>
          /\ Stored' = IF Running(a)' THEN buf'[a] ELSE {}
          /\ Result' = IF xpc'[a] # "return" THEN "none"
                       ELSE IF st'[a] = "DONE" THEN "ok" ELSE "error"
    BY OwnerIs, OwnerView
  <1>4. CASE XferSelectMux(a) \/ XferReadControl(a) \/ XferWriteControl(a)
    <2>1. /\ ~Running(a) /\ ~Running(a)' /\ xpc'[a] \in Critical /\ req' = req
      BY <1>4 DEF XferSelectMux, XferReadControl, XferWriteControl, Go, Running, TypeOK,
                  Critical, Selected
    <2>2. UNCHANGED <<Owner, Request, Sent, Stored, Result>>
      BY <1>1, <1>2, <1>3, <2>1 DEF Running
    <2>3. QED
      BY <2>2 DEF Atomic!vars
  <1>5. CASE XferStart(a)
    <2>1. /\ ~Running(a) /\ xpc'[a] = "poll" /\ req' = req
          /\ xpc'[a] \in Critical /\ Running(a)'
      BY <1>5 DEF XferStart, Go, Running, TypeOK, Critical, Selected
    <2>2. buf'[a] = {} /\ wire'[Own(a)] = <<>>
      BY <1>5, CtrlsType DEF XferStart, TypeOK
    <2>3. UNCHANGED <<Owner, Request, Sent, Stored, Result>>
      BY <1>1, <1>2, <1>3, <2>1, <2>2 DEF Running
    <2>4. QED
      BY <2>3 DEF Atomic!vars
  <1>6. CASE PollWait(a) \/ ProcessOver(a) \/ ProcessError(a)
    <2>1. /\ Running(a) /\ Running(a)' /\ xpc[a] # "return" /\ xpc'[a] # "return"
          /\ xpc'[a] \in Critical /\ UNCHANGED <<req, buf, wire>>
      BY <1>6 DEF PollWait, ProcessOver, ProcessError, Send, Go, Running, TypeOK,
                  Critical, Selected
    <2>2. UNCHANGED <<Owner, Request, Sent, Stored, Result>>
      BY <1>1, <1>2, <1>3, <2>1
    <2>3. QED
      BY <2>2 DEF Atomic!vars
  <1>7. CASE PollTimeout(a) \/ IsrNone(a)
    <2>1. /\ Running(a) /\ Running(a)' /\ xpc[a] # "return" /\ xpc'[a] = "return"
          /\ xpc'[a] \in Critical /\ UNCHANGED <<req, buf, wire>>
      BY <1>7 DEF PollTimeout, IsrNone, Go, Running, TypeOK, Critical, Selected
    <2>2. UNCHANGED <<Owner, Request, Sent, Stored>> /\ Result = "none"
          /\ Result' = IF st'[a] = "DONE" THEN "ok" ELSE "error"
      BY <1>1, <1>2, <1>3, <2>1
    <2>3. st'[a] = "DONE" => Atomic!Complete(r)
      <3>1. SUFFICES ASSUME st'[a] = "DONE" PROVE Atomic!Complete(r)
        OBVIOUS
      <3>2. IsrNone(a) /\ st[a] = "DONE"
        BY <1>7, <3>1 DEF PollTimeout, IsrNone, TypeOK
      <3>3. Released(a)
        BY <3>2 DEF IsrNone, Go, Released, Over
      <3>4. QED
        BY <1>2, <2>1, <3>2, <3>3, ReleasedIsComplete DEF Atomic!Complete
    <2>4. Atomic!Finish
      BY <1>1, <2>2, <2>3 DEF Atomic!Finish
    <2>5. QED
      BY <2>4 DEF Atomic!Next
  <1>8. CASE XferReturn(a)
    <2>1. /\ xpc[a] = "return" /\ lock' = Free /\ req' = [req EXCEPT ![a] = <<>>]
      BY <1>8 DEF XferReturn, Go
    <2>2. Owner' = Free /\ Result # "none"
      BY <1>2, <2>1, AdaptersAssumption DEF Owner
    <2>3. Sent' = <<>> /\ Stored' = {} /\ Result' = "none"
      BY <2>2, NobodyView
    <2>4. Atomic!Return
      BY <1>1, <2>1, <2>2, <2>3 DEF Atomic!Return
    <2>5. QED
      BY <2>4 DEF Atomic!Next
  <1>9. CASE ProcessByte(a) \/ ProcessNextMsg(a) \/ ProcessNoStart(a) \/ ProcessDone(a)
    <2> DEFINE e == Place(a)
               n == Atomic!Rank(r, e)
               byte == <<e[1], e[2] - 1, n + 1>>
    <2>1. ByteDone(a)
      BY <1>9 DEF ProcessByte, ProcessNextMsg, ProcessNoStart, ProcessDone
    <2>2. req' = req /\ wire' = wire
      BY <1>9 DEF ProcessByte, ProcessNextMsg, ProcessNoStart, ProcessDone, NextByte, Send
    <2>3. /\ Running(a) /\ Running(a)' /\ xpc[a] # "return" /\ xpc'[a] # "return"
          /\ xpc'[a] \in Critical
      BY <2>1 DEF ByteDone, Go, Running, TypeOK, Critical, Selected
    <2>4. UNCHANGED <<Owner, Request, Sent, Result>>
          /\ Stored = buf[a] /\ Stored' = buf'[a] /\ Sent = w
      BY <1>1, <1>2, <1>3, <2>2, <2>3
    <2>5. /\ Through(hw[Own(a)], w, r, e) /\ buf'[a] = Atomic!Reads(r, n + 1)
          /\ e \in Atomic!Places(r) /\ st[a] \in {"START", "WRITE", "READ"}
      BY <2>1, ByteThrough
    <2>6. r \in Seq(Message) /\ WireInv(a)
      BY <2>3, RunningFacts
    <2>7. buf[a] = Atomic!Reads(r, n)
      BY <2>5, <2>6 DEF WireInv, CursorInv
    <2>8. Atomic!Reads(r, n + 1) =
            Atomic!Reads(r, n) \cup (IF Atomic!IsRead(r, e) THEN {byte} ELSE {})
      BY <2>5, <2>6, ReadsNext
    <2>9. Len(w) = n + 1
      BY <2>5 DEF Through
    <2> HIDE DEF e, n, byte, w, r
    <2>10. CASE Atomic!IsRead(r, e)
      <3>1. Stored' = Stored \cup {byte} /\ byte \in Atomic!Reads(r, Len(Sent))
        BY <2>4, <2>5, <2>7, <2>8, <2>9, <2>10
      <3>2. Atomic!Store
        BY <1>1, <2>4, <3>1 DEF Atomic!Store, r
      <3>3. QED
        BY <3>2 DEF Atomic!Next
    <2>11. CASE ~Atomic!IsRead(r, e)
      <3>1. Stored' = Stored
        BY <2>4, <2>5, <2>7, <2>8, <2>11
      <3>2. QED
        BY <2>4, <3>1 DEF Atomic!vars
    <2>12. QED
      BY <2>10, <2>11
  <1>10. QED
    BY <1>4, <1>5, <1>6, <1>7, <1>8, <1>9 DEF Xfer

\* A master finishes its command: on the owner's port an event of the script,
\* a failure or the STOP after one, elsewhere nothing a client sees.
LEMMA AtomicHw ==
    ASSUME TypeOK, MuxInv, TransferInv, TypeOK', MuxInv', TransferInv',
           NEW c \in Ctrls, HwComplete(c)
    PROVE  Atomic!Next \/ UNCHANGED Atomic!vars
  <1>1. UNCHANGED <<lock, xpc, req, st, buf>>
    BY DEF HwComplete, muxVars, xferVars
  <1>2. Owner' = Owner /\ Request' = Request /\ Request = req
    BY <1>1, RequestIs DEF Owner
  <1>3. PICK x : /\ wire' = [wire EXCEPT ![c] = Append(@, x)]
                 /\ \/ x = hw[c].op
                    \/ x = Op("fail", 0, 0) /\ hw[c].op.kind \in {"start", "write"}
    BY DEF HwComplete
  <1>4. wire'[c] = Append(wire[c], x) /\ \A d \in Ctrls : d # c => wire'[d] = wire[d]
    BY <1>3 DEF TypeOK
  <1>5. CASE Owner = Free
    BY <1>2, <1>5, NobodyView DEF Atomic!vars
  <1>6. ASSUME NEW a \in Adapters, Owner = a
        PROVE  Atomic!Next \/ UNCHANGED Atomic!vars
    <2> DEFINE h == hw[c]
               w == wire[c]
               r == req[a]
    <2>1. /\ Sent = IF Running(a) THEN wire[Own(a)] ELSE <<>>
          /\ Stored = IF Running(a) THEN buf[a] ELSE {}
          /\ Result = IF xpc[a] # "return" THEN "none"
                      ELSE IF st[a] = "DONE" THEN "ok" ELSE "error"
      BY <1>6, OwnerView
    <2>2. /\ Sent' = IF Running(a) THEN wire'[Own(a)] ELSE <<>>
          /\ Stored' = IF Running(a) THEN buf[a] ELSE {}
          /\ Result' = IF xpc[a] # "return" THEN "none"
                       ELSE IF st[a] = "DONE" THEN "ok" ELSE "error"
      <3>1. Running(a)' <=> Running(a)
        BY <1>1 DEF Running
      <3>2. QED
        BY <1>1, <1>2, <1>6, <3>1, OwnerView
    <2>3. UNCHANGED <<Owner, Request, Stored, Result>>
      BY <1>2, <2>1, <2>2
    <2>4. CASE ~Running(a) \/ Own(a) # c
      <3>1. Sent' = Sent
        BY <1>4, <2>1, <2>2, <2>4, CtrlsType
      <3>2. QED
        BY <2>3, <3>1 DEF Atomic!vars
    <2>5. CASE Running(a) /\ Own(a) = c
      <3>1. Sent = w /\ Sent' = Append(w, x)
        BY <1>4, <2>1, <2>2, <2>5
      <3>2. /\ r \in Seq(Message) /\ w \in Seq(Ops) /\ WireInv(a)
            /\ h.op # NoOp
        BY <2>5, RunningFacts DEF HwComplete
      <3>3. Owner # Free /\ Owner = a
        BY <1>6, AdaptersAssumption
      <3>4. ASSUME NEW e \in Atomic!Places(r), Pending(h, w, r, e), Result # "ok"
            PROVE  Atomic!Next
        <4>1. /\ h.op = Atomic!EventAt(r, e) /\ Len(w) = Atomic!Rank(r, e)
              /\ Follows(w, r, Len(w))
          BY <3>2, <3>4 DEF Pending
        <4>2. /\ Atomic!Script(r)[Len(w) + 1] = h.op
              /\ Len(w) + 1 \in 1..Len(Atomic!Script(r))
          BY <3>2, <4>1, ScriptAt
        <4>3. Atomic!OnScript(r)
          <5>1. Len(w) \in Nat /\ Len(Atomic!Script(r)) \in Nat
            BY <3>2, ScriptAt
          <5>2. Len(w) < Len(Atomic!Script(r))
            BY <4>2, <5>1
          <5>3. QED
            BY <3>1, <4>1, <5>2 DEF Atomic!OnScript, Follows
        <4>4. CASE x = h.op
          <5>1. Atomic!Transmit
            BY <1>2, <2>3, <3>1, <3>3, <3>4, <4>2, <4>3, <4>4 DEF Atomic!Transmit
          <5>2. QED
            BY <5>1 DEF Atomic!Next
        <4>5. CASE x = Op("fail", 0, 0)
          <5>1. Atomic!Break
            BY <1>2, <2>3, <3>1, <3>3, <3>4, <4>3, <4>5, StopIs DEF Atomic!Break
          <5>2. QED
            BY <5>1 DEF Atomic!Next
        <4>6. QED
          BY <1>3, <4>4, <4>5
      <3>5. ASSUME NEW e, Refused(h, w, r, e, {NoOp, Atomic!Stop})
            PROVE  Atomic!Next
        <4>1. h.op = Atomic!Stop /\ w[Len(w)] = Atomic!Fail
          BY <3>2, <3>5 DEF Refused
        <4>2. w # <<>>
          <5>1. Len(w) = Atomic!Rank(r, e) + 1 /\ Atomic!Rank(r, e) \in Nat
            BY <3>2, <3>5, RankType DEF Refused
          <5>2. QED
            BY <5>1
        <4>3. x = Atomic!Stop
          BY <1>3, <4>1, StopIs DEF Op
        <4>4. Atomic!StopEarly
          BY <1>2, <2>3, <3>1, <3>3, <4>1, <4>2, <4>3 DEF Atomic!StopEarly
        <4>5. QED
          BY <4>4 DEF Atomic!Next
      <3>6. CASE st[a] # "ERROR"
        <4>1. CursorInv(a) /\ Pending(h, w, r, Place(a))
          BY <2>5, <3>2, <3>6 DEF WireInv, Through, Refused
        <4>2. Place(a) \in Atomic!Places(r)
          BY <4>1 DEF CursorInv
        <4>3. Result # "ok"
          <5>1. SUFFICES ASSUME Result = "ok" PROVE FALSE
            OBVIOUS
          <5>2. st[a] = "DONE" /\ xpc[a] = "return"
            BY <2>1, <5>1
          <5>3. Released(a)
            BY <5>2 DEF Released
          <5>4. QED
            BY <2>5, <3>2, <5>2, <5>3, ReleasedIsComplete
        <4>4. QED
          BY <3>4, <4>1, <4>2, <4>3
      <3>7. CASE st[a] = "ERROR"
        <4>1. Result # "ok"
          BY <2>1, <3>7
        <4>2. PICK e \in Atomic!Places(r) :
                 \/ Refused(h, w, r, e, {NoOp, Atomic!Stop})
                 \/ Pending(h, w, r, e)
          BY <2>5, <3>2, <3>7 DEF WireInv, Abandoned, Through
        <4>3. QED
          BY <3>4, <3>5, <4>1, <4>2
      <3>8. QED
        BY <3>6, <3>7
    <2>6. QED
      BY <2>4, <2>5
  <1>7. QED
    BY <1>5, <1>6, OwnerIs

\* The driver-core context and the sleep are invisible to the clients.
LEMMA AtomicDev ==
    ASSUME TypeOK, MuxInv, TransferInv, TypeOK', MuxInv', TransferInv',
           Dev \/ Power \/ ModuleReload \/ \E a \in Adapters : DevStart(a)
    PROVE  UNCHANGED Atomic!vars
  <1>1. UNCHANGED <<xpc, req, st, buf, wire>>
    BY DevMasters DEF xferVars
  <1>2. Owner' = Owner
    <2>1. CASE DevLock \/ ProbeMapFails \/ DevUnlock
      <3>1. lock = Free \/ lock = DevThread
        BY <2>1 DEF DevLock, ProbeMapFails, DevUnlock, DevGo, MuxInv, LockOwner
      <3>2. lock' = Free \/ lock' = DevThread
        BY <2>1 DEF DevLock, ProbeMapFails, DevUnlock
      <3>3. QED
        BY <3>1, <3>2, AdaptersAssumption DEF Owner
    <2>2. CASE ~(DevLock \/ ProbeMapFails \/ DevUnlock)
      <3>1. lock' = lock
        BY <2>2 DEF Dev, Power, ModuleReload, DevStart, ProbeSelectMux,
         ResumeForget, ProbeNoWindow, InitDisable, InitIack, InitEnable,
         ProbeEnd, ResumeEnd, RemoveDisable, RemoveDelAdapter, Freeze, PowerCycle, Thaw,
         ProbeBegin, RemoveBegin, Suspend, ResumeBegin, muxVars
      <3>2. QED
        BY <3>1 DEF Owner
    <2>3. QED
      BY <2>1, <2>2
  <1>3. UNCHANGED <<Request, Sent, Stored, Result>>
    BY <1>1, <1>2 DEF Request, Sent, Stored, Result, Started, Running
  <1>4. QED
    BY <1>2, <1>3 DEF Atomic!vars

LEMMA AtomicStep ==
    TypeOK /\ MuxInv /\ TransferInv /\ TypeOK' /\ MuxInv' /\ TransferInv' /\ [Next]_vars
      => [Atomic!Next]_Atomic!vars
  <1> SUFFICES ASSUME TypeOK, MuxInv, TransferInv, TypeOK', MuxInv', TransferInv',
                      [Next]_vars
               PROVE  Atomic!Next \/ UNCHANGED Atomic!vars
    OBVIOUS
  <1>1. CASE UNCHANGED vars
    BY <1>1 DEF vars, muxVars, xferVars, Atomic!vars, Owner, Request, Sent, Stored,
                Result, Started, Running
  <1>2. QED
    BY <1>1, AtomicBegin, AtomicXfer, AtomicHw, AtomicDev DEF Next

\* The driver implements the abstract bus transfer.
THEOREM Refinement == Spec => TransfersAreAtomic
  <1>1. Init => Atomic!Init
    BY AtomicInit
  <1>2. TypeOK /\ MuxInv /\ TransferInv /\ TypeOK' /\ MuxInv' /\ TransferInv' /\ [Next]_vars
          => [Atomic!Next]_Atomic!vars
    BY AtomicStep
  <1>3. QED
    BY <1>1, <1>2, TypeCorrect, MuxCorrect, TransferCorrect, PTL
       DEF Spec, TransfersAreAtomic, Atomic!Spec

=============================================================================
