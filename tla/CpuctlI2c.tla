------------------------------ MODULE CpuctlI2c ------------------------------
(***************************************************************************)
(* The I2C master of the CPU controller FPGA and the logical multiplexer   *)
(* on top of it (mackinac/modules/cpuctl_i2c.c).  A channel of the         *)
(* multiplexer is a bus of the controller and, for a port with a QSFP, the *)
(* module on that bus that its ModSel pin selects.  All modules of a bus   *)
(* have the same address, so who hears a transfer depends on two registers *)
(* that hold the last selection only.  The I2C core keeps the lock of the  *)
(* parent adapter from select_chan to deselect_mux: calls do not overlap.  *)
(*                                                                         *)
(* The controller moves at most four bytes at a time, so a message is a    *)
(* series of fragments.  For optics a fragment that was not acknowledged   *)
(* is tried again, because the controller at times says so falsely.        *)
(***************************************************************************)
EXTENDS Integers, Sequences

CONSTANTS
    Chans,              \* channels of the multiplexer
    Bus, Modsel,        \* pchanmap: phys_chan and modsel, NoModsel for none
    Lens,               \* lengths of messages
    THROTTLE_MIN, THROTTLE_MAX, MaxBackoff,   \* max_backoff in steps of 5 us
    MaxFaults, MaxReloads                     \* bounds

NoModsel == -1
Root == "root"   \* a call to the parent adapter
Nobody == "nobody"

ASSUME CpuctlAssumption ==
    /\ Root \notin Chans /\ Nobody \notin Chans
    /\ Bus \in [Chans -> Nat] /\ Modsel \in [Chans -> Nat \cup {NoModsel}]
    /\ \A c, d \in Chans :
          c # d => \/ Bus[c] # Bus[d]
                   \/ Modsel[c] # NoModsel /\ Modsel[d] # NoModsel /\ Modsel[c] # Modsel[d]
    /\ \A c \in Chans : Bus[c] = 0 => Modsel[c] = NoModsel
    /\ THROTTLE_MIN \in Nat /\ THROTTLE_MAX \in Nat
    /\ 0 < THROTTLE_MIN /\ THROTTLE_MIN <= THROTTLE_MAX
    /\ Lens \subseteq Nat /\ MaxBackoff \in Nat /\ MaxFaults \in Nat /\ MaxReloads \in Nat

VARIABLES
    low,                \* MODSEL_N registers: the pins that are low
    phys_chan, modsel_active, current_modsel, throttle_min,   \* CTLDEV
    since,              \* time since chan_stats[].last_xfer, up to Long
    there,              \* the modules that are in their ports
    chan, msgs,         \* the call in progress, if any: its channel and messages
    msg, pos, delay,    \* message and byte it has come to; delay_before_check
    rc,                 \* "run", or how the call ends
    stream,             \* what each device took since it last saw a START
    offset,             \* where each device reads next, from what was written
    got,                \* what was read, as offsets
    heard, echoed,      \* ghosts: devices that took part; a fragment went out twice
    faults, reloads

selVars  == <<low, phys_chan, modsel_active, current_modsel>>
callVars == <<chan, msgs, msg, pos, delay, rc, got, heard, echoed>>
vars == <<selVars, throttle_min, since, there, callVars, stream, offset, faults, reloads>>

Selectable == {c \in Chans : Modsel[c] # NoModsel}
Pins == {Modsel[c] : c \in Selectable}
Long == THROTTLE_MAX
Calling == chan # Nobody
NoByte == <<>>

Least(a, b) == IF a <= b THEN a ELSE b
Later(n) == [c \in Chans |-> Least(since[c] + n, Long)]

\* Who is on the bus and listens.
Audience == {c \in there : Bus[c] = phys_chan /\ (Modsel[c] # NoModsel => Modsel[c] \in low)}
Addressed(c) == IF c = Root THEN {d \in there : Bus[d] = 0 /\ Modsel[d] = NoModsel}
                ELSE {c} \cap there

\* --- messages ------------------------------------------------------------------

Message(op, n, sccb) == [op |-> op, len |-> n, sccb |-> sccb]
\* A write or a read, or an offset written and then read from.
Requests ==
    {<<Message(op, n, FALSE)>> : op \in {"write", "read"}, n \in Lens}
        \cup {<<Message("write", k, sccb), Message("read", n, FALSE)>> :
                  k \in 1..2, n \in Lens \ {0}, sccb \in BOOLEAN}

\* The data register has four bytes; a START takes one for the address.
Room(first) == IF first THEN 3 ELSE 4
WriteLenWide(left, first) == Least(left, 4)   \* a mutant: the address forgotten
\* ctl_i2c_write: how many bytes a fragment counts.
WriteLen(left, first) == Least(left, Room(first))
ReadLen(left) == Least(left, 4)

Bytes(from, n) == [i \in 1..n |-> from + i]

\* --- select, deselect, probe ----------------------------------------------------

Init ==
    /\ low \in SUBSET Pins
    /\ phys_chan = 0 /\ modsel_active = FALSE /\ current_modsel = NoModsel
    /\ throttle_min = [c \in Chans |-> 0] /\ since = [c \in Chans |-> Long]
    /\ there \in SUBSET Chans /\ Chans \ Selectable \subseteq there
    /\ chan = Nobody /\ msgs = <<>> /\ msg = 1 /\ pos = 0 /\ delay = 0 /\ rc = "run"
    /\ stream = [c \in Chans |-> NoByte] /\ offset = [c \in Chans |-> 0] /\ got = NoByte
    /\ heard = {} /\ echoed = FALSE
    /\ faults = MaxFaults /\ reloads = MaxReloads

Start(c) ==
    /\ ~ Calling
    /\ chan' = c
    /\ msgs' \in Requests
    /\ UNCHANGED <<msg, pos, delay, rc, got, heard, echoed, there, stream, offset, faults,
                   reloads>>

SelectionAdded(c) == low \cup {Modsel[c]}   \* a mutant: they do not
\* The pins of all others go high first.
Selection(c) == {Modsel[c]}

WaitShort(c, least) == IF since[c] < THROTTLE_MIN THEN THROTTLE_MIN - since[c] ELSE 0   \* a mutant
\* The same module again, too early: the rest of its throttle time is waited for.
Wait(c, least) == IF since[c] < least THEN least - since[c] ELSE 0

Select(c) ==
    /\ Start(c)
    /\ phys_chan' = Bus[c]
    /\ IF Modsel[c] = NoModsel
       THEN UNCHANGED <<low, modsel_active, current_modsel, throttle_min, since>>
       ELSE /\ modsel_active' = TRUE
            /\ throttle_min' = [throttle_min EXCEPT ![c] = IF @ = 0 THEN THROTTLE_MIN ELSE @]
            /\ current_modsel' = Modsel[c]
            /\ IF Modsel[c] # current_modsel
               THEN low' = Selection(c) /\ since' = Later(Long)
               ELSE /\ UNCHANGED low
                    /\ since' = Later(Wait(c, throttle_min'[c]))

Direct == Start(Root) /\ UNCHANGED <<selVars, throttle_min, since>>

Deselect ==
    /\ Calling /\ rc # "run"
    /\ IF chan = Root THEN UNCHANGED <<phys_chan, modsel_active, since>>
       ELSE /\ phys_chan' = 0 /\ modsel_active' = FALSE
            /\ since' = [since EXCEPT ![chan] = 0]
    /\ chan' = Nobody /\ msgs' = <<>> /\ msg' = 1 /\ pos' = 0 /\ delay' = 0 /\ rc' = "run"
    /\ got' = NoByte /\ heard' = {} /\ echoed' = FALSE
    /\ stream' = [c \in Chans |-> NoByte] /\ offset' = [c \in Chans |-> 0]
    /\ UNCHANGED <<low, current_modsel, throttle_min, there, faults, reloads>>

\* The driver is removed and bound again; the registers keep their value.
Reload ==
    /\ ~ Calling /\ reloads > 0 /\ reloads' = reloads - 1
    /\ phys_chan' = 0 /\ modsel_active' = FALSE /\ current_modsel' = NoModsel
    /\ throttle_min' = [c \in Chans |-> 0] /\ since' = [c \in Chans |-> Long]
    /\ UNCHANGED <<low, there, callVars, stream, offset, faults>>

\* Modules come and go between calls; within one that is a fault.
Plug(c) ==
    /\ ~ Calling
    /\ there' = IF c \in there THEN there \ {c} ELSE there \cup {c}
    /\ UNCHANGED <<selVars, throttle_min, since, callVars, stream, offset, faults, reloads>>

Tick ==
    /\ ~ Calling /\ since' = Later(1)
    /\ UNCHANGED <<selVars, throttle_min, there, callVars, stream, offset, faults, reloads>>

\* --- one fragment ----------------------------------------------------------------

\* Who takes part: everybody listening, and after a START from the beginning.
TakenBy(D, first, bytes) ==
    /\ stream' = [c \in Chans |-> IF c \notin D THEN stream[c]
                               ELSE IF first THEN bytes ELSE stream[c] \o bytes]
    /\ offset' = [c \in Chans |-> IF c \in D /\ first THEN 0 ELSE offset[c]]

\* How it ends.  Without anybody there it is not acknowledged; a fault is a false
\* NACK, a timeout or a sequence error, and the bytes may have arrived.
Fine  == Audience # {} /\ UNCHANGED faults
Fault == Audience # {} /\ faults > 0 /\ faults' = faults - 1
Alone == Audience = {} /\ UNCHANGED faults

Current == msgs[msg]
Left    == Current.len - pos
Combined == Len(msgs) = 2 /\ msgs[1].sccb /\ msgs[1].len <= 2 /\ msgs[2].len <= 4

\* The next message, or the end with success.
Advance(n) ==
    IF pos + n < Current.len THEN pos' = pos + n /\ UNCHANGED <<msg, rc>>
    ELSE IF msg < Len(msgs) THEN msg' = msg + 1 /\ pos' = 0 /\ UNCHANGED rc
    ELSE rc' = "ok" /\ pos' = pos + n /\ UNCHANGED msg
Fail == rc' = "error" /\ UNCHANGED <<msg, pos>>

Retries == modsel_active /\ delay <= MaxBackoff
NextDelaySame == delay   \* a mutant: it never grows
NextDelay == delay + 1

\* A mutant: without the upper bound.
RaisedPast(c) == IF throttle_min[c] >= THROTTLE_MIN THEN throttle_min[c] + 1 ELSE throttle_min[c]
Raised(c) == IF throttle_min[c] \in THROTTLE_MIN..THROTTLE_MAX - 1 THEN throttle_min[c] + 1
             ELSE throttle_min[c]

\* NACK of a write: again with a longer delay, or final.
Nack(taken) ==
    /\ IF Retries
       THEN /\ delay' = NextDelay
            /\ throttle_min' = [throttle_min EXCEPT ![chan] = Raised(chan)]
            /\ echoed' = (echoed \/ (taken /\ pos > 0))
            /\ UNCHANGED <<msg, pos, rc>>
       ELSE Fail /\ delay' = 0 /\ UNCHANGED <<throttle_min, echoed>>

WriteFragment ==
    LET first == pos = 0
        n == WriteLen(Left, first)
        bytes == Bytes(pos, Least(n, Room(first)))
        Arrive == TakenBy(Audience, first, bytes) /\ heard' = heard \cup Audience
        Lost   == UNCHANGED <<stream, offset, heard>>
    IN
    /\ Calling /\ rc = "run" /\ ~ Combined /\ Current.op = "write"
    /\ \/ Fine /\ Arrive /\ Advance(n) /\ delay' = 0 /\ UNCHANGED <<throttle_min, echoed>>
       \/ Fault /\ Arrive /\ Nack(TRUE)
       \/ Fault /\ Lost /\ Nack(FALSE)
       \/ Alone /\ Lost /\ Nack(FALSE)
       \/ Fault /\ (Arrive \/ Lost) /\ Fail /\ delay' = 0 /\ UNCHANGED <<throttle_min, echoed>>
    /\ UNCHANGED <<selVars, since, there, chan, msgs, got, reloads>>

\* A fragment of a read is a transfer of its own; the device goes on from where it
\* is.  A read of no bytes sends nothing, and rc has no value then.
ReadFrom(D, n) ==
    /\ \E d \in D : got' = got \o Bytes(offset[d], n)
    /\ offset' = [c \in Chans |-> IF c \in D THEN offset[c] + n ELSE offset[c]]
    /\ heard' = heard \cup D

ReadFragment ==
    LET n == ReadLen(Left) IN
    /\ Calling /\ rc = "run" /\ ~ Combined /\ Current.op = "read"
    /\ \/ n > 0 /\ Fine /\ ReadFrom(Audience, n) /\ Advance(n)
       \/ n > 0 /\ (Fault \/ Alone) /\ Fail /\ UNCHANGED <<got, offset, heard>>
       \/ n = 0 /\ (Advance(0) \/ Fail) /\ UNCHANGED <<got, offset, heard, faults>>
    /\ UNCHANGED <<selVars, throttle_min, since, there, chan, msgs, delay, echoed, stream, reloads>>

\* ctl_i2c_write_read: with I2C_CLIENT_SCCB a short write and read are one transfer.
WriteRead ==
    LET n == msgs[2].len IN
    /\ Calling /\ rc = "run" /\ Combined
    /\ \/ /\ Fine
          /\ stream' = [c \in Chans |-> IF c \in Audience THEN Bytes(0, msgs[1].len) ELSE stream[c]]
          /\ offset' = [c \in Chans |-> IF c \in Audience THEN n ELSE offset[c]]
          /\ got' = Bytes(0, n) /\ heard' = heard \cup Audience
          /\ rc' = "ok" /\ UNCHANGED <<msg, pos>>
       \/ (Fault \/ Alone) /\ Fail /\ UNCHANGED <<stream, offset, got, heard>>
    /\ UNCHANGED <<selVars, throttle_min, since, there, chan, msgs, delay, echoed, reloads>>

Xfer == WriteFragment \/ ReadFragment \/ WriteRead
Next ==
    \/ \E c \in Chans : Select(c)
    \/ Direct \/ Xfer \/ Deselect \/ Reload \/ Tick
    \/ \E c \in Selectable : Plug(c)

\* The caller's thread runs on: every poll of the controller is bounded in time.
Spec == Init /\ [][Next]_vars /\ WF_vars(Xfer \/ Deselect)

\* --- properties ---------------------------------------------------------------------

TypeOK ==
    /\ low \subseteq Pins /\ phys_chan \in Nat /\ modsel_active \in BOOLEAN
    /\ current_modsel \in Pins \cup {NoModsel}
    /\ throttle_min \in [Chans -> {0} \cup THROTTLE_MIN..THROTTLE_MAX]
    /\ since \in [Chans -> 0..Long] /\ there \subseteq Chans
    /\ chan \in Chans \cup {Root, Nobody}
    /\ Calling => msgs \in Requests /\ msg \in 1..Len(msgs) /\ pos \in 0..msgs[msg].len
    /\ delay \in 0..MaxBackoff + 1 /\ rc \in {"run", "ok", "error"}
    /\ heard \subseteq Chans /\ echoed \in BOOLEAN
    /\ faults \in 0..MaxFaults /\ reloads \in 0..MaxReloads

\* No device but the one of the channel takes part in a call, whatever calls went
\* before, although all modules of a bus have the same address, the pins keep the
\* last selection and the driver writes them only when its cache differs.
TargetRight == Calling => heard \subseteq Addressed(chan)

\* A call that succeeds has moved every byte of its messages once and in order,
\* across fragments and retries, unless a fragment in the middle of a write was
\* refused falsely: the device has then seen its bytes twice.  A read of no bytes
\* succeeds without a device.
WrittenLen == IF msgs[1].op = "write" THEN msgs[1].len ELSE 0
ReadTotal  == IF msgs[Len(msgs)].op = "read" THEN msgs[Len(msgs)].len ELSE 0
Delivered ==
    Calling /\ rc = "ok" /\ ~ echoed =>
        /\ heard = Addressed(chan)
           \/ (msgs[1].op = "read" /\ msgs[1].len = 0)
        /\ \A d \in heard : stream[d] = Bytes(0, WrittenLen)
        /\ got = Bytes(0, ReadTotal)

\* Before the first fragment of a call to an optic at least its throttle time has
\* passed since the end of the last call, wherever the selection was in between.
GapKept ==
    chan \in Selectable /\ rc = "run" /\ msg = 1 /\ pos = 0 /\ delay = 0
        => since[chan] >= throttle_min[chan]

\* Every call comes to an end: retries are finite even if the module is gone.
CallEnds == Calling ~> ~ Calling
=============================================================================
