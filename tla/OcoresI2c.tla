------------------------------ MODULE OcoresI2c ------------------------------
(***************************************************************************)
(* The I2C bus driver of the IXR7220-H6-128 line card,                     *)
(* ixr7220h6-128/modules/i2c-ocores.c.  130 OpenCores I2C masters sit      *)
(* behind one PCIe window: masters of different port CPLDs share the same  *)
(* register offset and a SPI mux register selects the CPLD that answers.   *)
(* The mux register, the cache of the last selection (last_id) and         *)
(* pcie_mux_lock are globals of the driver.                                *)
(*                                                                         *)
(* Processes: one transfer context per adapter (the I2C core serialises    *)
(* the transfers of one adapter), and one driver-core context that runs    *)
(* probe, remove, suspend and resume one device at a time.  The I2C        *)
(* masters themselves are the external part (hw, HwComplete).              *)
(***************************************************************************)
EXTENDS Naturals, Sequences, FiniteSets

CONSTANTS
    Adapters,   \* platform devices: cached_pdev_id
    Mux,        \* arr_spi_mux: the CPLD select value of each device
    Offset,     \* arr_pcie_offset: the register offset of each device
    Requests,   \* message vectors a client may pass to i2c_transfer
    DevOps,     \* driver-core operations that occur: "probe" "remove" "sleep"
    DevThread,  \* the driver-core context, as a lock owner
    Free,       \* nobody owns pcie_mux_lock
    NoId        \* last_id = -1

Muxes   == {Mux[a] : a \in Adapters}
Offsets == {Offset[a] : a \in Adapters}
Ctrls   == Muxes \X Offsets
Own(a)  == <<Mux[a], Offset[a]>>
Message == [rd : BOOLEAN, len : Nat, nostart : BOOLEAN]

\* Two devices never share both the select value and the offset (the tables
\* at lines 45-205), and the special values are not devices.
ASSUME AdaptersAssumption ==
    /\ Adapters # {}
    /\ \A a, b \in Adapters : a # b => Own(a) # Own(b)
    /\ DevThread \notin Adapters /\ Free \notin Adapters /\ NoId \notin Adapters
    /\ DevThread # Free

ASSUME RequestsAssumption ==
    /\ Requests \subseteq Seq(Message)
    /\ \A r \in Requests : r # <<>>

ASSUME DevOpsAssumption == DevOps \subseteq {"probe", "remove", "sleep"}

VARIABLES
    lock,     \* owner of pcie_mux_lock
    muxReg,   \* the SPI mux register: the CPLD behind the window
    lastId,   \* last_id, what the driver believes muxReg selects
    mapped,   \* spi_mux_virt_base # NULL
    bound,    \* devices whose adapter is registered with the I2C core
    dev,      \* the driver-core context: operation, its device, its next step
    pm,       \* "on", "suspending", "resuming"
    todo,     \* devices the current suspend or resume pass has still to visit
    xpc,      \* next step of each adapter's transfer
    req,      \* i2c->msg vector of the transfer
    mi,       \* index of the current message in req (i2c->msg, i2c->nmsgs)
    pos,      \* i2c->pos
    st,       \* i2c->state
    ctl,      \* the EN bit ocores_xfer_core read from CONTROL
    buf,      \* bytes stored in msg->buf: <<message, position, wire index>>
    hw,       \* the I2C masters
    wire      \* history: what the current transfer put on its bus

devVars  == <<bound, dev, pm, todo, mapped>>
muxVars  == <<lock, muxReg, lastId>>
xferVars == <<xpc, req, mi, pos, st, ctl, buf>>
vars     == <<devVars, muxVars, xferVars, hw, wire>>

-----------------------------------------------------------------------------
(* The I2C master, an external part: CONTROL.EN, the command in progress   *)
(* (TIP, or a STOP being sent), BUSY, the interrupt flag IF, and what the   *)
(* last byte met.  A disabled master drops its command and ignores new      *)
(* ones; the IACK bit, set in every command byte, always clears IF.  What   *)
(* a byte met is read while IF is set only, and forgotten with it.         *)

Op(k, m, p) == [kind |-> k, m |-> m, p |-> p]
NoOp        == Op("none", 0, 0)
OpKinds     == {"none", "start", "write", "read", "readnack", "stop", "fail"}
Ops         == [kind : OpKinds, m : Nat, p : Nat]
Results     == {"ack", "nack", "arblost"}

\* The master the window of device a answers for, whatever a's own CPLD is.
Sel(a)  == <<muxReg, Offset[a]>>
Tip(c)  == hw[c].op.kind \in {"start", "write", "read", "readnack"}

Iack(h)       == [h EXCEPT !.irq = FALSE, !.res = "ack"]
Command(h, o) == [Iack(h) EXCEPT !.op = IF h.en THEN o ELSE @]
SetEn(h, e)   == [h EXCEPT !.en = e, !.op = IF e THEN @ ELSE NoOp]

\* A master finishes its command: START and data bytes are acknowledged,
\* not acknowledged, or lose arbitration; STOP releases the bus.
HwComplete(c) ==
    /\ hw[c].op # NoOp
    /\ LET o == hw[c].op
           Done(r, e) ==
             /\ hw' = [hw EXCEPT ![c] = [@ EXCEPT !.op = NoOp, !.irq = TRUE,
                             !.busy = o.kind # "stop", !.res = r]]
             /\ wire' = [wire EXCEPT ![c] = Append(@, e)]
       IN  \/ Done("ack", o)
           \/ /\ o.kind \in {"start", "write"}
              /\ \E r \in {"nack", "arblost"} : Done(r, Op("fail", 0, 0))
    /\ UNCHANGED <<devVars, muxVars, xferVars>>

-----------------------------------------------------------------------------
(* ocores_xfer_core, under pcie_mux_lock.                                  *)

Go(a, from, to) == xpc[a] = from /\ xpc' = [xpc EXCEPT ![a] = to]

\* __i2c_transfer on a registered adapter, until i2c_del_adapter returns.
XferBegin(a) ==
    /\ pm = "on" /\ a \in bound
    /\ Go(a, "idle", "lock")
    /\ \E r \in Requests : req' = [req EXCEPT ![a] = r]
    /\ UNCHANGED <<devVars, muxVars, mi, pos, st, ctl, buf, hw, wire>>

XferLock(a) ==
    /\ lock = Free
    /\ lock' = a
    /\ Go(a, "lock", "mux")
    /\ UNCHANGED <<devVars, muxReg, lastId, req, mi, pos, st, ctl, buf, hw, wire>>

XferSelectMux(a) ==
    /\ Go(a, "mux", "control")
    /\ IF lastId # a
         THEN muxReg' = Mux[a] /\ lastId' = a
         ELSE UNCHANGED <<muxReg, lastId>>
    /\ UNCHANGED <<devVars, lock, req, mi, pos, st, ctl, buf, hw, wire>>

XferReadControl(a) ==
    /\ Go(a, "control", "ien")
    /\ ctl' = [ctl EXCEPT ![a] = hw[Sel(a)].en]
    /\ UNCHANGED <<devVars, muxVars, req, mi, pos, st, buf, hw, wire>>

XferWriteControl(a) ==
    /\ Go(a, "ien", "start")
    /\ hw' = [hw EXCEPT ![Sel(a)] = SetEn(@, ctl[a])]
    /\ UNCHANGED <<devVars, muxVars, req, mi, pos, st, ctl, buf, wire>>

XferStart(a) ==
    /\ Go(a, "start", "poll")
    /\ mi' = [mi EXCEPT ![a] = 1]
    /\ pos' = [pos EXCEPT ![a] = 0]
    /\ st' = [st EXCEPT ![a] = "START"]
    /\ hw' = [hw EXCEPT ![Sel(a)] = Command(@, Op("start", 1, 0))]
    /\ buf' = [buf EXCEPT ![a] = {}]                  \* histories restart
    /\ wire' = [wire EXCEPT ![Own(a)] = <<>>]
    /\ UNCHANGED <<devVars, muxVars, req, ctl>>

\* Mutants: BUSY polled during the transfer; TIP polled after it as well.
PollClearBusyOnly(a) == ~hw[Sel(a)].busy
PollClearTipOnly(a)  == ~Tip(Sel(a))

\* ocores_poll_wait: wait for the end of the STOP once the transfer is over,
\* for the end of the byte while it is going on.
PollClear(a) == IF st[a] \in {"DONE", "ERROR"} THEN ~hw[Sel(a)].busy
                                               ELSE ~Tip(Sel(a))

PollWait(a) ==
    /\ PollClear(a)
    /\ Go(a, "poll", "isr")
    /\ UNCHANGED <<devVars, muxVars, req, mi, pos, st, ctl, buf, hw, wire>>

\* Mutants: the timeout also releases the lock; the wait is simply repeated.
PollTimeoutUnlocks(a) ==
    /\ ~PollClear(a)
    /\ Go(a, "poll", "return")
    /\ st' = [st EXCEPT ![a] = "ERROR"] /\ lock' = Free
    /\ UNCHANGED <<devVars, muxReg, lastId, req, mi, pos, ctl, buf, hw, wire>>
PollTimeoutRetries(a) ==
    /\ ~PollClear(a)
    /\ Go(a, "poll", "poll")
    /\ UNCHANGED <<devVars, muxVars, req, mi, pos, st, ctl, buf, hw, wire>>

\* param_timeout ms have passed and the bit is still set.
PollTimeout(a) ==
    /\ ~PollClear(a)
    /\ Go(a, "poll", "return")
    /\ st' = [st EXCEPT ![a] = "ERROR"]
    /\ UNCHANGED <<devVars, muxVars, req, mi, pos, ctl, buf, hw, wire>>

\* st is the result; it, the message cursor and the local are dead from here
\* on and the model clears them, with the histories.
XferReturn(a) ==
    /\ Go(a, "return", "idle")
    /\ lock' = Free
    /\ st' = [st EXCEPT ![a] = "DONE"]
    /\ req' = [req EXCEPT ![a] = <<>>]
    /\ mi' = [mi EXCEPT ![a] = 0] /\ pos' = [pos EXCEPT ![a] = 0]
    /\ ctl' = [ctl EXCEPT ![a] = FALSE]
    /\ buf' = [buf EXCEPT ![a] = {}]
    /\ wire' = [wire EXCEPT ![Own(a)] = <<>>]
    /\ UNCHANGED <<devVars, muxReg, lastId, hw>>

-----------------------------------------------------------------------------
(* ocores_isr and ocores_process: one pass of the polling loop.            *)

IsrNone(a) ==
    /\ ~hw[Sel(a)].irq
    /\ Go(a, "isr", "return")
    /\ UNCHANGED <<devVars, muxVars, req, mi, pos, st, ctl, buf, hw, wire>>

\* The commands ocores_process ends with.
Send(a, o) == /\ hw' = [hw EXCEPT ![Sel(a)] = Command(@, o)]
              /\ UNCHANGED <<devVars, muxVars, req, ctl, wire>>

ProcessOver(a) ==
    /\ hw[Sel(a)].irq /\ st[a] \in {"DONE", "ERROR"}
    /\ Go(a, "isr", "poll")
    /\ hw' = [hw EXCEPT ![Sel(a)] = Iack(@)]
    /\ UNCHANGED <<devVars, muxVars, req, mi, pos, st, ctl, buf, wire>>

ProcessError(a) ==
    /\ hw[Sel(a)].irq /\ st[a] \notin {"DONE", "ERROR"}
    /\ \/ hw[Sel(a)].res = "arblost"
       \/ hw[Sel(a)].res = "nack" /\ st[a] \in {"START", "WRITE"}
    /\ Go(a, "isr", "poll")
    /\ st' = [st EXCEPT ![a] = "ERROR"]
    /\ Send(a, Op("stop", 0, 0))
    /\ UNCHANGED <<mi, pos, buf>>

\* Mutant: the read position runs backwards.
NewPosBackwards(a) == IF st[a] = "READ" THEN pos[a] - 1 ELSE pos[a]

\* The byte went through: i2c->pos after a byte read, and the message's end.
NewPos(a)   == IF st[a] = "READ" THEN pos[a] + 1 ELSE pos[a]
EndOfMsg(a) == NewPos(a) = req[a][mi[a]].len
LastMsg(a)  == mi[a] = Len(req[a])

ByteDone(a) ==
    /\ hw[Sel(a)].irq /\ st[a] \notin {"DONE", "ERROR"}
    /\ hw[Sel(a)].res # "arblost"
    /\ hw[Sel(a)].res = "nack" => st[a] = "READ"
    /\ Go(a, "isr", "poll")
    /\ buf' = IF st[a] = "READ"
                THEN [buf EXCEPT ![a] =
                        @ \cup {<<mi[a], pos[a], Len(wire[Sel(a)])>>}]
                ELSE buf

\* Mutant: the NACK of a read is put on the byte after the last.
NextByteNackLate(a, m, p) ==
    LET msg == req[a][m]
    IN  /\ mi' = [mi EXCEPT ![a] = m]
        /\ st' = [st EXCEPT ![a] = IF msg.rd THEN "READ" ELSE "WRITE"]
        /\ pos' = [pos EXCEPT ![a] = IF msg.rd THEN p ELSE p + 1]
        /\ Send(a, IF msg.rd
                     THEN Op(IF p = msg.len THEN "readnack" ELSE "read", 0, 0)
                     ELSE Op("write", m, p))

\* The next byte of message m, from position p: a read, or a write of buf[p].
NextByte(a, m, p) ==
    LET msg == req[a][m]
    IN  /\ mi' = [mi EXCEPT ![a] = m]
        /\ st' = [st EXCEPT ![a] = IF msg.rd THEN "READ" ELSE "WRITE"]
        /\ pos' = [pos EXCEPT ![a] = IF msg.rd THEN p ELSE p + 1]
        /\ Send(a, IF msg.rd
                     THEN Op(IF p + 1 = msg.len THEN "readnack" ELSE "read", 0, 0)
                     ELSE Op("write", m, p))

ProcessByte(a) ==
    /\ ByteDone(a) /\ ~EndOfMsg(a)
    /\ NextByte(a, mi[a], NewPos(a))

ProcessNextMsg(a) ==
    /\ ByteDone(a) /\ EndOfMsg(a) /\ ~LastMsg(a)
    /\ ~req[a][mi[a] + 1].nostart
    /\ mi' = [mi EXCEPT ![a] = mi[a] + 1]
    /\ pos' = [pos EXCEPT ![a] = 0]
    /\ st' = [st EXCEPT ![a] = "START"]
    /\ Send(a, Op("start", mi[a] + 1, 0))

ProcessNoStart(a) ==
    /\ ByteDone(a) /\ EndOfMsg(a) /\ ~LastMsg(a)
    /\ req[a][mi[a] + 1].nostart
    /\ NextByte(a, mi[a] + 1, 0)

ProcessDone(a) ==
    /\ ByteDone(a) /\ EndOfMsg(a) /\ LastMsg(a)
    /\ pos' = [pos EXCEPT ![a] = 0]
    /\ st' = [st EXCEPT ![a] = "DONE"]
    /\ Send(a, Op("stop", 0, 0))
    /\ UNCHANGED mi

Xfer(a) ==
    \/ XferSelectMux(a) \/ XferReadControl(a) \/ XferWriteControl(a)
    \/ XferStart(a) \/ PollWait(a) \/ PollTimeout(a)
    \/ IsrNone(a) \/ ProcessOver(a) \/ ProcessError(a) \/ ProcessByte(a)
    \/ ProcessNextMsg(a) \/ ProcessNoStart(a) \/ ProcessDone(a)
    \/ XferReturn(a)

-----------------------------------------------------------------------------
(* The driver-core context: one operation on one device at a time          *)
(* (platform_device_register and _unregister in a loop, the device list of *)
(* a suspend or a resume).                                                 *)

Idle == [op |-> "none", a |-> NoId, pc |-> "idle"]
DevGo(op, from, to) ==
    /\ dev.op = op /\ dev.pc = from
    /\ dev' = [dev EXCEPT !.pc = to]
DevBegin(op, a, to) ==
    /\ dev = Idle
    /\ dev' = [op |-> op, a |-> a, pc |-> to]

ProbeBegin(a) ==
    /\ "probe" \in DevOps /\ pm = "on" /\ a \notin bound
    /\ DevBegin("probe", a, "lock")
    /\ UNCHANGED <<bound, pm, todo, mapped, muxVars, xferVars, hw, wire>>

\* Mutant: probe and resume touch the mux without pcie_mux_lock.
DevLockMissing ==
    /\ DevGo(dev.op, "lock", "locked")
    /\ UNCHANGED <<bound, pm, todo, mapped, muxVars, xferVars, hw, wire>>

DevLock ==
    /\ lock = Free
    /\ lock' = DevThread
    /\ DevGo(dev.op, "lock", "locked")
    /\ UNCHANGED <<bound, pm, todo, mapped, muxReg, lastId, xferVars, hw, wire>>

\* The first probe maps the SPI mux register; every probe selects its CPLD.
ProbeSelectMux ==
    /\ DevGo("probe", "locked", "unlock")
    /\ mapped' = TRUE
    /\ muxReg' = Mux[dev.a] /\ lastId' = dev.a
    /\ UNCHANGED <<bound, pm, todo, lock, xferVars, hw, wire>>

\* ioremap of the SPI mux register fails: probe returns -ENOMEM.
ProbeMapFails ==
    /\ ~mapped
    /\ dev.op = "probe" /\ dev.pc = "locked"
    /\ dev' = Idle /\ lock' = Free
    /\ UNCHANGED <<bound, pm, todo, mapped, muxReg, lastId, xferVars, hw, wire>>

\* Mutant: resume trusts the selection made before the sleep.
ResumeKeepsLastId ==
    /\ DevGo("resume", "locked", "unlock")
    /\ UNCHANGED <<bound, pm, todo, mapped, muxVars, xferVars, hw, wire>>

ResumeForget ==
    /\ DevGo("resume", "locked", "unlock")
    /\ lastId' = NoId
    /\ UNCHANGED <<bound, pm, todo, mapped, lock, muxReg, xferVars, hw, wire>>

DevUnlock ==
    /\ lock' = Free
    /\ DevGo(dev.op, "unlock", "init")
    /\ UNCHANGED <<bound, pm, todo, mapped, muxReg, lastId, xferVars, hw, wire>>

\* The registers of the device could not be mapped: probe gives up here.
ProbeNoWindow ==
    /\ dev.op = "probe" /\ dev.pc = "init"
    /\ dev' = Idle
    /\ UNCHANGED <<bound, pm, todo, mapped, muxVars, xferVars, hw, wire>>

\* ocores_init, outside the lock: disable, prescaler and IACK, enable.
InitDisable ==
    /\ DevGo(dev.op, "init", "iack")
    /\ hw' = [hw EXCEPT ![Sel(dev.a)] = SetEn(@, FALSE)]
    /\ UNCHANGED <<bound, pm, todo, mapped, muxVars, xferVars, wire>>

InitIack ==
    /\ DevGo(dev.op, "iack", "enable")
    /\ hw' = [hw EXCEPT ![Sel(dev.a)] = Iack(@)]
    /\ UNCHANGED <<bound, pm, todo, mapped, muxVars, xferVars, wire>>

InitEnable ==
    /\ DevGo(dev.op, "enable", "end")
    /\ hw' = [hw EXCEPT ![Sel(dev.a)] = SetEn(@, TRUE)]
    /\ UNCHANGED <<bound, pm, todo, mapped, muxVars, xferVars, wire>>

\* i2c_add_adapter, which may fail; a resume is over.
ProbeEnd ==
    /\ dev.op = "probe" /\ dev.pc = "end"
    /\ dev' = Idle
    /\ bound' \in {bound, bound \cup {dev.a}}
    /\ UNCHANGED <<pm, todo, mapped, muxVars, xferVars, hw, wire>>

ResumeEnd ==
    /\ dev.op = "resume" /\ dev.pc = "end"
    /\ dev' = Idle
    /\ todo' = todo \ {dev.a}
    /\ UNCHANGED <<bound, pm, mapped, muxVars, xferVars, hw, wire>>

\* ocores_i2c_remove: CONTROL is written first, outside the lock, and the
\* adapter unregistered after; i2c_del_adapter waits for its last transfer.
RemoveBegin(a) ==
    /\ "remove" \in DevOps /\ pm = "on" /\ a \in bound
    /\ DevBegin("remove", a, "disable")
    /\ UNCHANGED <<bound, pm, todo, mapped, muxVars, xferVars, hw, wire>>

RemoveDisable ==
    /\ DevGo("remove", "disable", "del")
    /\ hw' = [hw EXCEPT ![Sel(dev.a)] = SetEn(@, FALSE)]
    /\ UNCHANGED <<bound, pm, todo, mapped, muxVars, xferVars, wire>>

RemoveDelAdapter ==
    /\ dev.op = "remove" /\ dev.pc = "del"
    /\ xpc[dev.a] = "idle"
    /\ dev' = Idle
    /\ bound' = bound \ {dev.a}
    /\ UNCHANGED <<pm, todo, mapped, muxVars, xferVars, hw, wire>>

\* ocores_i2c_exit, then the module is loaded again: the statics restart.
ModuleReload ==
    /\ {"probe", "remove"} \subseteq DevOps
    /\ pm = "on" /\ dev = Idle /\ bound = {} /\ mapped
    /\ mapped' = FALSE /\ lastId' = NoId
    /\ UNCHANGED <<bound, dev, pm, todo, lock, muxReg, xferVars, hw, wire>>

-----------------------------------------------------------------------------
(* System sleep.  Tasks are frozen first, so no transfer is running; the   *)
(* masters lose their state and the mux register takes any value.          *)

Freeze ==
    /\ "sleep" \in DevOps /\ pm = "on" /\ dev = Idle
    /\ \A a \in Adapters : xpc[a] = "idle"
    /\ pm' = "suspending" /\ todo' = bound
    /\ UNCHANGED <<bound, dev, mapped, muxVars, xferVars, hw, wire>>

Suspend(a) ==
    /\ pm = "suspending" /\ a \in todo
    /\ hw' = [hw EXCEPT ![Sel(a)] = SetEn(@, FALSE)]
    /\ todo' = todo \ {a}
    /\ UNCHANGED <<bound, dev, pm, mapped, muxVars, xferVars, wire>>

PowerOff == [en |-> FALSE, op |-> NoOp, busy |-> FALSE, irq |-> FALSE, res |-> "ack"]

PowerCycle ==
    /\ pm = "suspending" /\ todo = {}
    /\ pm' = "resuming" /\ todo' = bound
    /\ muxReg' \in Muxes
    /\ hw' = [c \in Ctrls |-> PowerOff]
    /\ UNCHANGED <<bound, dev, mapped, lock, lastId, xferVars, wire>>

ResumeBegin(a) ==
    /\ pm = "resuming" /\ a \in todo
    /\ DevBegin("resume", a, "lock")
    /\ UNCHANGED <<bound, pm, todo, mapped, muxVars, xferVars, hw, wire>>

Thaw ==
    /\ pm = "resuming" /\ todo = {}
    /\ pm' = "on"
    /\ UNCHANGED <<bound, dev, todo, mapped, muxVars, xferVars, hw, wire>>

Dev == \/ DevLock \/ ProbeSelectMux \/ ProbeMapFails \/ ResumeForget
       \/ DevUnlock \/ ProbeNoWindow \/ InitDisable \/ InitIack \/ InitEnable
       \/ ProbeEnd \/ ResumeEnd \/ RemoveDisable \/ RemoveDelAdapter
Power == Freeze \/ PowerCycle \/ Thaw
DevStart(a) == ProbeBegin(a) \/ RemoveBegin(a) \/ Suspend(a) \/ ResumeBegin(a)

-----------------------------------------------------------------------------
\* Module load: nothing probed.  With no probe in DevOps the model starts
\* after the platform devices have been registered, before any client.
Init ==
    /\ lock = Free
    /\ xpc = [a \in Adapters |-> "idle"]
    /\ req = [a \in Adapters |-> <<>>]
    /\ mi = [a \in Adapters |-> 0]
    /\ pos = [a \in Adapters |-> 0]
    /\ st = [a \in Adapters |-> "DONE"]
    /\ ctl = [a \in Adapters |-> FALSE]
    /\ buf = [a \in Adapters |-> {}]
    /\ wire = [c \in Ctrls |-> <<>>]
    /\ dev = Idle /\ pm = "on" /\ todo = {}
    /\ IF "probe" \in DevOps
         THEN /\ bound = {} /\ mapped = FALSE /\ lastId = NoId
              /\ muxReg \in Muxes
              /\ hw = [c \in Ctrls |-> PowerOff]
         ELSE /\ bound = Adapters /\ mapped = TRUE
              /\ lastId \in Adapters /\ muxReg = Mux[lastId]
              /\ hw = [c \in Ctrls |-> [PowerOff EXCEPT !.en = TRUE]]

Next ==
    \/ \E a \in Adapters : XferBegin(a) \/ XferLock(a) \/ Xfer(a) \/ DevStart(a)
    \/ \E c \in Ctrls : HwComplete(c)
    \/ Dev \/ Power \/ ModuleReload

\* A context that can take its next step takes it; the mutex hands over to
\* its waiters in turn.  Nothing is assumed of clients or of the masters.
Fairness ==
    /\ \A a \in Adapters : WF_vars(Xfer(a)) /\ SF_vars(XferLock(a))
    /\ WF_vars(Dev) /\ SF_vars(DevLock)

Spec == Init /\ [][Next]_vars /\ Fairness

-----------------------------------------------------------------------------
XferPcs  == {"idle", "lock", "mux", "control", "ien", "start", "poll", "isr", "return"}
Selected == {"control", "ien", "start", "poll", "isr", "return"}
Critical == Selected \cup {"mux"}

TypeOK ==
    /\ lock \in Adapters \cup {DevThread, Free}
    /\ muxReg \in Muxes
    /\ lastId \in Adapters \cup {NoId}
    /\ mapped \in BOOLEAN
    /\ bound \subseteq Adapters
    /\ dev \in [op : {"none", "probe", "remove", "resume"},
                a : Adapters \cup {NoId},
                pc : {"idle", "lock", "locked", "unlock", "init", "iack",
                      "enable", "end", "disable", "del"}]
    /\ (dev.op = "none" <=> dev.a = NoId) /\ (dev.op = "none" <=> dev.pc = "idle")
    /\ pm \in {"on", "suspending", "resuming"}
    /\ todo \subseteq Adapters
    /\ xpc \in [Adapters -> XferPcs]
    /\ req \in [Adapters -> Requests \cup {<<>>}]
    /\ mi \in [Adapters -> Nat]
    /\ pos \in [Adapters -> Nat]
    /\ st \in [Adapters -> {"START", "WRITE", "READ", "DONE", "ERROR"}]
    /\ ctl \in [Adapters -> BOOLEAN]
    /\ buf \in [Adapters -> SUBSET (Nat \X Nat \X Nat)]
    /\ hw \in [Ctrls -> [en : BOOLEAN, op : Ops, busy : BOOLEAN,
                         irq : BOOLEAN, res : Results]]
    /\ wire \in [Ctrls -> Seq(Ops)]

\* pcie_mux_lock: its owner, and only its owner, is between lock and unlock.
LockOwner ==
    /\ \A a \in Adapters : xpc[a] \in Critical <=> lock = a
    /\ dev.pc \in {"locked", "unlock"} <=> lock = DevThread

\* A transfer that has selected its port keeps it until it unlocks: every
\* register access of ocores_xfer_core, the polling loop and ocores_process
\* reaches the master of its own port, whatever probes, removals, resumes
\* and other ports' transfers run meanwhile (lines 596-635).
XferAddressesOwnPort ==
    \A a \in Adapters : xpc[a] \in Selected => Sel(a) = Own(a)

\* The cache of the mux is right whenever the next transfer may trust it:
\* while tasks run, the lock is free and a device is bound, last_id is
\* either forgotten or what the register selects (lines 598, 909, 1061).
LastIdTrusted ==
    pm = "on" /\ lock = Free /\ bound # {} /\ lastId # NoId
        => muxReg = Mux[lastId]

\* Why these hold: the inductive strengthening.  The mux changes only under
\* the lock, together with last_id; a sleep runs alone, and its first resume
\* forgets last_id before any transfer can run (lines 596-604, 883-913,
\* 1060-1062).
Initialising == dev.pc \in {"unlock", "init", "iack", "enable", "end"}
MuxInv ==
    /\ LockOwner
    /\ \A a \in Adapters : xpc[a] \in Selected => muxReg = Mux[a] /\ lastId = a
    /\ \A a \in Adapters : xpc[a] # "idle" => a \in bound
    /\ pm = "on" /\ (bound # {} \/ (dev.op = "probe" /\ Initialising)) /\ lastId # NoId
         => muxReg = Mux[lastId]
    /\ pm # "on" => \A a \in Adapters : xpc[a] = "idle"
    /\ pm = "suspending" => dev = Idle
    /\ pm = "resuming" => dev.op \in {"none", "resume"}
    /\ dev.op = "resume" => pm = "resuming" /\ dev.a \in todo
    /\ pm = "resuming" /\ (bound \ todo # {} \/ (dev.op = "resume" /\ Initialising))
         => lastId = NoId

\* The polling loop is left with the transfer over: IRQ_NONE comes only
\* after the STOP (lines 571-573).
LoopLeftWhenOver ==
    \A a \in Adapters : xpc[a] = "return" => st[a] \in {"DONE", "ERROR"}

\* "Init the device" (line 676) and "disable i2c logic" (line 1028): when
\* probe ends the master of its device is enabled, and once remove has written
\* CONTROL it is disabled.  Neither holds: probe selects the CPLD under the
\* lock but calls ocores_init after unlocking, and remove does not select it.
DevOpsReachOwnMaster ==
    /\ dev.op = "probe" /\ dev.pc = "end" => hw[Own(dev.a)].en
    /\ dev.op = "remove" /\ dev.pc = "del" => ~hw[Own(dev.a)].en

\* When the loop ends normally with the transfer over, the bus is released.
LoopExitReleasesBus ==
    [][\A a \in Adapters :
         xpc[a] = "isr" /\ xpc'[a] = "return" /\ st[a] \in {"DONE", "ERROR"}
            => ~hw[Own(a)].busy]_vars

\* Every transfer a client starts returns to it: the wait for the lock, the
\* polling loop and its timeouts end (lines 559-580, 596).
XferTerminates == \A a \in Adapters : xpc[a] = "lock" ~> xpc[a] = "idle"

=============================================================================
