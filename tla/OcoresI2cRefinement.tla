------------------------- MODULE OcoresI2cRefinement -------------------------
(***************************************************************************)
(* The bus driver implements I2cAtomicTransfer: the owner of the lock is   *)
(* the adapter on the wire, and the wire is the one of its own port.       *)
(***************************************************************************)
EXTENDS OcoresI2c

\* A continuation continues: the code sends its first byte without a look at
\* its length (lines 421-440).
ASSUME ContinuationsAssumption ==
    \A r \in Requests : \A m \in 2..Len(r) : r[m].nostart => r[m].len > 0

Running(a) == xpc[a] \in {"poll", "isr", "return"}
Owner      == IF lock \in Adapters THEN lock ELSE Free
Started    == Owner # Free /\ Running(Owner)

\* What a client and the wire of its port see of the driver.
Request == [a \in Adapters |-> IF xpc[a] = "idle" THEN <<>> ELSE req[a]]
Sent    == IF Started THEN wire[Own(Owner)] ELSE <<>>
Stored  == IF Started THEN buf[Owner] ELSE {}
Result  == IF Owner = Free \/ xpc[Owner] # "return" THEN "none"
           ELSE IF st[Owner] = "DONE" THEN "ok" ELSE "error"

Atomic == INSTANCE I2cAtomicTransfer WITH
    None <- Free, owner <- Owner, request <- Request, sent <- Sent,
    read <- Stored, result <- Result

\* A transfer is atomic on the wire of its own port: the events of its
\* messages in order, nothing of another port's transfer between them, each
\* byte read stored at its place, and "num" returned only when all of it,
\* STOP included, happened (lines 368-447, 559-638).
TransfersAreAtomic == Atomic!Spec

-----------------------------------------------------------------------------
(* Why it does: the state of the driver and of the master agree on how far *)
(* the transfer is.                                                        *)

Over(a) == st[a] \in {"DONE", "ERROR"}

\* The wait for the end of the STOP has succeeded.
Released(a) == \/ xpc[a] = "isr" /\ Over(a)
               \/ xpc[a] = "return" /\ st[a] = "DONE"

\* The place of the script the last command of the transfer is for.
Place(a) == IF st[a] = "DONE" THEN Atomic!End(req[a]) ELSE <<mi[a], NewPos(a)>>

\* The message cursor between two bytes (lines 371-447).
CursorInv(a) ==
    /\ Place(a) \in Atomic!Places(req[a])
    /\ st[a] # "DONE" => mi[a] \in 1..Len(req[a])
    /\ st[a] = "START" => pos[a] = 0
    /\ st[a] = "READ" => req[a][mi[a]].rd
    /\ st[a] = "WRITE" => ~req[a][mi[a]].rd /\ pos[a] > 0
    /\ buf[a] = Atomic!Reads(req[a], Atomic!Rank(req[a], Place(a)))

\* The wire w follows the script of r for n events.
Follows(w, r, n) == /\ n \in 0..Len(w) /\ n <= Len(Atomic!Script(r))
                    /\ \A i \in 1..n : w[i] = Atomic!Script(r)[i]

\* The master h and the wire w, the command for place e of request r sent:
\* in progress, or dropped; through; not acknowledged; stopped after that.
Pending(h, w, r, e) ==
    /\ Len(w) = Atomic!Rank(r, e) /\ Follows(w, r, Atomic!Rank(r, e))
    /\ h.op \in {NoOp, Atomic!EventAt(r, e)} /\ ~h.irq
Through(h, w, r, e) ==
    /\ Len(w) = Atomic!Rank(r, e) + 1 /\ Follows(w, r, Atomic!Rank(r, e) + 1)
    /\ h.op = NoOp /\ (h.irq => h.res = "ack")
Refused(h, w, r, e, ops) ==
    /\ Len(w) = Atomic!Rank(r, e) + 1 /\ Follows(w, r, Atomic!Rank(r, e))
    /\ w[Len(w)] = Atomic!Fail
    /\ Atomic!EventAt(r, e).kind \in {"start", "write"}
    /\ h.op \in ops /\ (h.irq => h.res # "ack")
Abandoned(h, w) ==
    /\ w # <<>> /\ w[Len(w)] = Atomic!Stop
    /\ h.op = NoOp

WireInv(a) ==
    LET h == hw[Own(a)]
        w == wire[Own(a)]
        r == req[a]
    IN  /\ st[a] # "ERROR" =>
             /\ CursorInv(a)
             /\ \/ Pending(h, w, r, Place(a))
                \/ Through(h, w, r, Place(a))
                \/ Refused(h, w, r, Place(a), {NoOp})
        /\ st[a] = "ERROR" =>
             \/ Abandoned(h, w)
             \/ \E e \in Atomic!Places(r) :
                  \/ Refused(h, w, r, e, {NoOp, Atomic!Stop})
                  \/ xpc[a] = "return" /\ (Pending(h, w, r, e) \/ Through(h, w, r, e))
        /\ w # <<>> /\ w[Len(w)] # Atomic!Stop => h.busy
        /\ Released(a) => ~h.busy

TransferInv ==
    /\ \A c \in Ctrls : ~hw[c].en => hw[c].op = NoOp
    /\ \A a \in Adapters : xpc[a] = "idle" <=> req[a] = <<>>
    /\ \A a \in Adapters : Running(a) => WireInv(a)

\* No probe, no removal and no sleep: every master stays enabled and answers
\* each command, so a pass of the loop that finds no interrupt comes after
\* the STOP.
SteadyInv ==
    /\ dev = Idle /\ pm = "on"
    /\ \A c \in Ctrls : hw[c].en
    /\ \A a \in Adapters : xpc[a] = "ien" => ctl[a]
    /\ \A a \in Adapters : Running(a) /\ ~Over(a) =>
          /\ hw[Own(a)].op # NoOp \/ hw[Own(a)].irq
          /\ xpc[a] # "return"
          /\ xpc[a] = "isr" => hw[Own(a)].op = NoOp

=============================================================================
