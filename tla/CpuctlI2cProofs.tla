---------------------------- MODULE CpuctlI2cProofs ----------------------------
(***************************************************************************)
(* For every map of channels in which two of them differ in their bus or   *)
(* in their ModSel pin: the only device that takes part in a call is the   *)
(* one of its channel, an optic gets its throttle time before it, and a    *)
(* call that succeeds has moved its bytes once and in order.               *)
(***************************************************************************)
EXTENDS CpuctlI2c, SequenceTheorems, TLAPS

\* The registers select the module that the driver's cache names, and during a
\* call the device of its channel.
SelectionInv ==
    /\ current_modsel # NoModsel => low = {current_modsel}
    /\ ~ Calling \/ chan = Root => phys_chan = 0
    /\ Calling /\ chan # Root => phys_chan = Bus[chan]
    /\ Calling /\ chan \in Selectable => current_modsel = Modsel[chan]
    /\ heard \subseteq IF Calling THEN Addressed(chan) ELSE {}

AtRest == ~ Calling => msg = 1 /\ pos = 0 /\ delay = 0 /\ rc = "run"

MuxInv == TypeOK /\ AtRest /\ SelectionInv /\ (Calling => GapKept)

-----------------------------------------------------------------------------
LEMMA RequestShape ==
    ASSUME NEW m \in Requests
    PROVE  /\ Len(m) \in 1..2
           /\ \A i \in 1..Len(m) : m[i].len \in Nat /\ m[i].op \in {"read", "write"}
<1>1. \/ \E op \in {"write", "read"}, n \in Lens : m = <<Message(op, n, FALSE)>>
      \/ \E k \in 1..2, n \in Lens \ {0}, sccb \in BOOLEAN :
            m = <<Message("write", k, sccb), Message("read", n, FALSE)>>
  BY DEF Requests, Message
<1>2. CASE \E op \in {"write", "read"}, n \in Lens : m = <<Message(op, n, FALSE)>>
  BY <1>2, CpuctlAssumption DEF Message
<1>3. CASE \E k \in 1..2, n \in Lens \ {0}, sccb \in BOOLEAN :
              m = <<Message("write", k, sccb), Message("read", n, FALSE)>>
  BY <1>3, CpuctlAssumption DEF Message
<1> QED BY <1>1, <1>2, <1>3

\* Nobody else is on the selected bus and has its pin low.
LEMMA AudienceRight ==
    ASSUME TypeOK, SelectionInv, Calling
    PROVE  Audience \subseteq Addressed(chan)
<1> USE CpuctlAssumption DEF SelectionInv, TypeOK
<1>1. CASE chan = Root
  BY <1>1 DEF Audience, Addressed
<1>2. CASE chan \in Chans
  <2> SUFFICES ASSUME NEW c \in Audience, c # chan PROVE FALSE
    BY <1>2 DEF Audience, Addressed
  <2>1. c \in Chans /\ Bus[c] = Bus[chan] /\ (Modsel[c] # NoModsel => Modsel[c] \in low)
    BY <1>2 DEF Audience
  <2>2. Modsel[c] # NoModsel /\ Modsel[chan] # NoModsel /\ Modsel[c] # Modsel[chan]
    BY <1>2, <2>1
  <2>3. low = {Modsel[chan]}
    BY <1>2, <2>2 DEF Selectable
  <2> QED BY <2>1, <2>2, <2>3
<1> QED BY <1>1, <1>2 DEF Calling

LEMMA MuxStarts == ASSUME Init PROVE MuxInv
<1> USE CpuctlAssumption DEF Init
<1>1. TypeOK
  <2>1. /\ low \subseteq Pins /\ phys_chan \in Nat /\ modsel_active \in BOOLEAN
        /\ current_modsel \in Pins \cup {NoModsel} /\ there \subseteq Chans
        /\ chan \in Chans \cup {Root, Nobody} /\ ~ Calling
    BY DEF Calling
  <2>2. Long \in Nat /\ MaxBackoff + 1 \in Nat
    BY DEF Long
  <2>3. /\ throttle_min \in [Chans -> {0} \cup THROTTLE_MIN..THROTTLE_MAX]
        /\ since \in [Chans -> 0..Long]
    BY <2>2
  <2>4. /\ delay \in 0..MaxBackoff + 1 /\ rc \in {"run", "ok", "error"}
        /\ faults \in 0..MaxFaults /\ reloads \in 0..MaxReloads
    BY <2>2
  <2>5. heard \subseteq Chans /\ echoed \in BOOLEAN
    BY Zenon
  <2> QED BY <2>1, <2>3, <2>4, <2>5 DEF TypeOK
<1>2. AtRest /\ SelectionInv
  BY DEF AtRest, SelectionInv, Calling, Selectable
<1> QED BY <1>1, <1>2 DEF MuxInv, Calling

\* Time goes by.
LEMMA LaterTyped ==
    ASSUME TypeOK, NEW n \in Nat
    PROVE  /\ Later(n) \in [Chans -> 0..Long]
           /\ \A c \in Chans : Later(n)[c] = Least(since[c] + n, Long)
<1>1. Long \in Nat
  BY CpuctlAssumption DEF Long
<1>2. ASSUME NEW c \in Chans PROVE Least(since[c] + n, Long) \in 0..Long
  <2>1. since[c] \in 0..Long
    BY DEF TypeOK
  <2> QED BY <1>1, <2>1 DEF Least
<1> QED BY <1>2 DEF Later

LEMMA SelectKeeps == ASSUME MuxInv, NEW c \in Chans, Select(c) PROVE MuxInv'
<1> USE CpuctlAssumption DEF MuxInv
<1>1. /\ ~ Calling /\ Calling' /\ chan' = c /\ msgs' \in Requests
      /\ UNCHANGED <<msg, pos, delay, rc, got, heard, echoed, there, stream, offset, faults,
                     reloads>>
      /\ phys_chan' = Bus[c]
      /\ msg = 1 /\ pos = 0 /\ delay = 0 /\ rc = "run" /\ heard = {}
  BY DEF Select, Start, AtRest, SelectionInv, Calling
<1>2. msg' \in 1..Len(msgs') /\ pos' \in 0..msgs'[msg'].len
  BY <1>1, RequestShape
<1>3. CASE Modsel[c] = NoModsel
  <2>1. UNCHANGED <<low, modsel_active, current_modsel, throttle_min, since>>
    BY <1>3 DEF Select
  <2>2. TypeOK'
    BY <1>1, <1>2, <2>1 DEF TypeOK, Pins, Selectable
  <2>3. SelectionInv' /\ AtRest' /\ GapKept'
    BY <1>1, <1>3, <2>1 DEF SelectionInv, AtRest, GapKept, Selectable
  <2> QED BY <2>2, <2>3
<1>4. CASE Modsel[c] # NoModsel
  <2>1. /\ modsel_active' = TRUE /\ current_modsel' = Modsel[c]
        /\ throttle_min' = [throttle_min EXCEPT ![c] = IF @ = 0 THEN THROTTLE_MIN ELSE @]
        /\ IF Modsel[c] # current_modsel
           THEN low' = {Modsel[c]} /\ since' = Later(Long)
           ELSE /\ UNCHANGED low
                /\ since' = Later(Wait(c, throttle_min'[c]))
    BY <1>4 DEF Select, Selection
  <2>2. throttle_min' \in [Chans -> {0} \cup THROTTLE_MIN..THROTTLE_MAX]
    BY <2>1 DEF TypeOK
  <2>3. low' = {Modsel[c]}
    BY <1>4, <2>1 DEF SelectionInv
  <2>4. Wait(c, throttle_min'[c]) \in Nat /\ Long \in Nat
    <3>1. throttle_min'[c] \in Nat
      BY <2>2
    <3>2. Long \in Nat /\ since[c] \in 0..Long
      BY DEF Long, TypeOK
    <3>3. since[c] \in Nat
      BY <3>2
    <3> QED BY <3>1, <3>2, <3>3 DEF Wait
  <2>5. since' \in [Chans -> 0..Long] /\ since'[c] >= throttle_min'[c]
    <3>1. throttle_min'[c] \in 0..Long
      BY <2>2 DEF Long
    <3>2. since[c] \in 0..Long
      BY DEF TypeOK
    <3>3. CASE Modsel[c] # current_modsel
      <4>1. Least(since[c] + Long, Long) = Long
        BY <2>4, <3>2 DEF Least
      <4> QED BY <2>1, <2>4, <3>1, <3>3, <4>1, LaterTyped
    <3>4. CASE Modsel[c] = current_modsel
      <4>1. Least(since[c] + Wait(c, throttle_min'[c]), Long) >= throttle_min'[c]
        BY <2>4, <3>1, <3>2 DEF Least, Wait
      <4> QED BY <2>1, <2>4, <3>4, <4>1, LaterTyped
    <3> QED BY <3>3, <3>4
  <2>6. TypeOK'
    BY <1>1, <1>2, <1>4, <2>1, <2>2, <2>3, <2>5 DEF TypeOK, Pins, Selectable
  <2>7. SelectionInv' /\ AtRest' /\ GapKept'
    BY <1>1, <2>1, <2>3, <2>5 DEF SelectionInv, AtRest, GapKept
  <2> QED BY <2>6, <2>7
<1> QED BY <1>3, <1>4

LEMMA DirectKeeps == ASSUME MuxInv, Direct PROVE MuxInv'
<1> USE CpuctlAssumption DEF MuxInv
<1>1. /\ ~ Calling /\ Calling' /\ chan' = Root /\ msgs' \in Requests
      /\ UNCHANGED <<msg, pos, delay, rc, got, heard, echoed, there, stream, offset, faults,
                     reloads, low, phys_chan, modsel_active, current_modsel, throttle_min, since>>
      /\ msg = 1 /\ pos = 0 /\ delay = 0 /\ rc = "run" /\ heard = {} /\ phys_chan = 0
  BY DEF Direct, Start, AtRest, SelectionInv, Calling, selVars, Nobody, Root
<1>2. msg' \in 1..Len(msgs') /\ pos' \in 0..msgs'[msg'].len
  BY <1>1, RequestShape
<1>3. TypeOK'
  BY <1>1, <1>2 DEF TypeOK, Pins, Selectable
<1>4. SelectionInv' /\ AtRest' /\ GapKept'
  BY <1>1 DEF SelectionInv, AtRest, GapKept, Selectable
<1> QED BY <1>3, <1>4

\* Between calls: time, modules and drivers come and go.
LEMMA BetweenKeeps ==
    ASSUME MuxInv, Deselect \/ Reload \/ Tick \/ \E c \in Selectable : Plug(c)
    PROVE  MuxInv'
<1> USE CpuctlAssumption DEF MuxInv
<1>1. CASE Deselect
  <2>1. /\ ~ Calling' /\ chan' = Nobody /\ msg' = 1 /\ pos' = 0 /\ delay' = 0 /\ rc' = "run"
        /\ heard' = {} /\ echoed' = FALSE /\ phys_chan' = 0
        /\ UNCHANGED <<low, current_modsel, throttle_min, there, faults, reloads>>
    BY <1>1 DEF Deselect, Calling, SelectionInv
  <2>2. modsel_active' \in BOOLEAN /\ since' \in [Chans -> 0..Long]
    <3>1. Long \in Nat
      BY DEF Long
    <3>2. modsel_active' \in BOOLEAN
      BY <1>1, Zenon DEF Deselect, TypeOK
    <3>3. since' = since \/ since' = [since EXCEPT ![chan] = 0]
      BY <1>1 DEF Deselect
    <3>4. since \in [Chans -> 0..Long]
      BY DEF TypeOK
    <3>5. since' \in [Chans -> 0..Long]
      BY <3>1, <3>3, <3>4
    <3> QED BY <3>2, <3>5
  <2>3. echoed' \in BOOLEAN /\ modsel_active' \in BOOLEAN
    BY <2>1, <2>2, Zenon DEF TypeOK
  <2>4. TypeOK'
    <3>1. /\ low' \subseteq Pins /\ current_modsel' \in Pins \cup {NoModsel} /\ phys_chan' \in Nat
          /\ throttle_min' \in [Chans -> {0} \cup THROTTLE_MIN..THROTTLE_MAX]
          /\ there' \subseteq Chans /\ chan' \in Chans \cup {Root, Nobody} /\ heard' \subseteq Chans
      BY <2>1 DEF TypeOK
    <3>2. /\ delay' \in 0..MaxBackoff + 1 /\ rc' \in {"run", "ok", "error"}
          /\ faults' \in 0..MaxFaults /\ reloads' \in 0..MaxReloads
      BY <2>1 DEF TypeOK
    <3> QED BY <2>1, <2>2, <2>3, <3>1, <3>2, Zenon DEF TypeOK, Pins, Selectable, Long
  <2>5. SelectionInv' /\ AtRest'
    BY <2>1 DEF SelectionInv, AtRest
  <2> QED BY <2>1, <2>4, <2>5
<1>2. CASE Reload
  <2>1. /\ ~ Calling /\ ~ Calling' /\ phys_chan' = 0 /\ modsel_active' = FALSE
        /\ current_modsel' = NoModsel /\ throttle_min' = [c \in Chans |-> 0]
        /\ since' = [c \in Chans |-> Long] /\ reloads > 0 /\ reloads' = reloads - 1
        /\ UNCHANGED <<low, there, chan, msgs, msg, pos, delay, rc, heard, echoed, faults>>
    BY <1>2 DEF Reload, callVars, Calling
  <2>2. since' \in [Chans -> 0..Long]
    BY <2>1 DEF Long
  <2>3. echoed' \in BOOLEAN /\ modsel_active' \in BOOLEAN
    BY <2>1, <2>2, Zenon DEF TypeOK
  <2>4. TypeOK'
    <3>1. /\ low' \subseteq Pins /\ current_modsel' \in Pins \cup {NoModsel} /\ phys_chan' \in Nat
          /\ throttle_min' \in [Chans -> {0} \cup THROTTLE_MIN..THROTTLE_MAX]
          /\ there' \subseteq Chans /\ chan' \in Chans \cup {Root, Nobody} /\ heard' \subseteq Chans
      BY <2>1 DEF TypeOK
    <3>2. /\ delay' \in 0..MaxBackoff + 1 /\ rc' \in {"run", "ok", "error"}
          /\ faults' \in 0..MaxFaults /\ reloads' \in 0..MaxReloads
      BY <2>1 DEF TypeOK
    <3> QED BY <2>1, <2>2, <2>3, <3>1, <3>2, Zenon DEF TypeOK, Pins, Selectable, Long
  <2>5. SelectionInv' /\ AtRest'
    BY <2>1 DEF SelectionInv, AtRest
  <2> QED BY <2>1, <2>4, <2>5
<1>3. CASE Tick
  <2>1. /\ ~ Calling /\ ~ Calling' /\ since' = Later(1)
        /\ UNCHANGED <<low, phys_chan, modsel_active, current_modsel, throttle_min, there, chan,
                       msgs, msg, pos, delay, rc, heard, echoed, faults, reloads>>
    BY <1>3 DEF Tick, selVars, callVars, Calling
  <2>2. TypeOK'
    BY <2>1, LaterTyped DEF TypeOK, Pins, Selectable, Long
  <2>3. SelectionInv' /\ AtRest'
    BY <2>1 DEF SelectionInv, AtRest
  <2> QED BY <2>1, <2>2, <2>3
<1>4. ASSUME NEW c \in Selectable, Plug(c) PROVE MuxInv'
  <2>1. /\ ~ Calling /\ ~ Calling' /\ there' \subseteq Chans
        /\ UNCHANGED <<low, phys_chan, modsel_active, current_modsel, throttle_min, since, chan,
                       msgs, msg, pos, delay, rc, heard, echoed, faults, reloads>>
    BY <1>4 DEF Plug, selVars, callVars, Calling, TypeOK, Selectable
  <2>2. TypeOK'
    BY <2>1 DEF TypeOK, Pins, Selectable, Long
  <2>3. SelectionInv' /\ AtRest'
    BY <2>1 DEF SelectionInv, AtRest
  <2> QED BY <2>1, <2>2, <2>3
<1> QED BY <1>1, <1>2, <1>3, <1>4

-----------------------------------------------------------------------------
\* After a fragment the call is further on, or over.
LEMMA AdvanceTyped ==
    ASSUME TypeOK, Calling, rc = "run", NEW n \in Nat, n <= Left, Left > 0 => n > 0, Advance(n)
    PROVE  /\ msg' \in 1..Len(msgs) /\ pos' \in 0..msgs[msg'].len
           /\ rc' \in {"run", "ok"}
           /\ rc' = "run" => msg' # 1 \/ pos' # 0
<1>1. /\ msgs \in Requests /\ msg \in 1..Len(msgs) /\ Len(msgs) \in 1..2
      /\ pos \in 0..Current.len /\ \A i \in 1..Len(msgs) : msgs[i].len \in Nat
  BY RequestShape DEF TypeOK, Current
<1>2. CASE pos + n < Current.len
  BY <1>1, <1>2 DEF Advance, Left, Current
<1>3. CASE ~ (pos + n < Current.len)
  BY <1>1, <1>3 DEF Advance, Left, Current
<1> QED BY <1>2, <1>3

\* What a fragment may change, and what it must leave.
LEMMA FragmentKeeps ==
    ASSUME MuxInv, Calling,
           UNCHANGED <<low, phys_chan, modsel_active, current_modsel, since, there, chan, msgs,
                       reloads>>,
           throttle_min' \in [Chans -> {0} \cup THROTTLE_MIN..THROTTLE_MAX],
           msg' \in 1..Len(msgs), pos' \in 0..msgs[msg'].len,
           delay' \in 0..MaxBackoff + 1, rc' \in {"run", "ok", "error"},
           heard' \subseteq heard \cup Audience, echoed' \in BOOLEAN,
           faults' \in 0..MaxFaults,
           rc' = "run" => msg' # 1 \/ pos' # 0 \/ delay' # 0
    PROVE  MuxInv'
<1> USE CpuctlAssumption DEF MuxInv
<1>1. Calling' /\ Audience \subseteq Addressed(chan) /\ Addressed(chan)' = Addressed(chan)
  BY AudienceRight DEF Calling, Addressed
<1>2. heard' \subseteq Chans
  BY DEF TypeOK, Audience
<1>3. TypeOK'
  BY <1>1, <1>2 DEF TypeOK, Pins, Selectable, Long
<1>4. SelectionInv' /\ AtRest' /\ GapKept'
  BY <1>1 DEF SelectionInv, AtRest, GapKept, Selectable
<1> QED BY <1>3, <1>4

\* What every fragment leaves alone.
LEMMA FragmentFrame ==
    ASSUME MuxInv, Xfer
    PROVE  /\ Calling /\ rc = "run" /\ msg \in 1..Len(msgs) /\ pos \in 0..msgs[msg].len
           /\ Len(msgs) \in 1..2 /\ msgs[msg].len \in Nat /\ msgs[msg].op \in {"read", "write"}
           /\ UNCHANGED <<low, phys_chan, modsel_active, current_modsel, since, there, chan, msgs,
                          reloads>>
BY RequestShape DEF MuxInv, TypeOK, Xfer, WriteFragment, ReadFragment, WriteRead, selVars

\* A fault or none: the count of faults stays in its bounds.
LEMMA FaultsTyped ==
    ASSUME TypeOK, Fine \/ Fault \/ Alone PROVE faults' \in 0..MaxFaults
BY CpuctlAssumption DEF TypeOK, Fine, Fault, Alone

LEMMA NackTyped ==
    ASSUME TypeOK, Calling, rc = "run", NEW taken \in BOOLEAN, Nack(taken)
    PROVE  /\ throttle_min' \in [Chans -> {0} \cup THROTTLE_MIN..THROTTLE_MAX]
           /\ delay' \in 0..MaxBackoff + 1 /\ echoed' \in BOOLEAN
           /\ msg' = msg /\ pos' = pos
           /\ rc' = "error" \/ (rc' = "run" /\ delay' # 0)
<1> USE CpuctlAssumption
<1>1. CASE Retries
  <2>1. /\ delay' = delay + 1 /\ throttle_min' = [throttle_min EXCEPT ![chan] = Raised(chan)]
        /\ echoed' = (echoed \/ (taken /\ pos > 0)) /\ UNCHANGED <<msg, pos, rc>>
    BY <1>1 DEF Nack, NextDelay
  <2>2. echoed' \in BOOLEAN
    BY <2>1, Zenon DEF TypeOK
  <2>3. delay' \in 0..MaxBackoff + 1 /\ delay' # 0
    BY <1>1, <2>1 DEF Retries, TypeOK
  <2>4. throttle_min' \in [Chans -> {0} \cup THROTTLE_MIN..THROTTLE_MAX]
    <3>1. throttle_min \in [Chans -> {0} \cup THROTTLE_MIN..THROTTLE_MAX]
      BY DEF TypeOK
    <3>2. chan \in Chans => Raised(chan) \in {0} \cup THROTTLE_MIN..THROTTLE_MAX
      BY <3>1 DEF Raised
    <3> QED BY <2>1, <3>1, <3>2
  <2> QED BY <2>1, <2>2, <2>3, <2>4
<1>2. CASE ~ Retries
  <2>1. delay' = 0 /\ rc' = "error" /\ UNCHANGED <<throttle_min, echoed, msg, pos>>
    BY <1>2 DEF Nack, Fail
  <2>2. echoed' \in BOOLEAN
    BY <2>1, Zenon DEF TypeOK
  <2> QED BY <2>1, <2>2 DEF TypeOK
<1> QED BY <1>1, <1>2

LEMMA WriteKeeps == ASSUME MuxInv, WriteFragment PROVE MuxInv'
<1> USE CpuctlAssumption DEF MuxInv
<1> DEFINE n == WriteLen(Left, pos = 0)
<1>1. Xfer /\ TypeOK
  BY DEF Xfer
<1>2. /\ Calling /\ rc = "run" /\ msg \in 1..Len(msgs) /\ pos \in 0..msgs[msg].len
      /\ msgs[msg].len \in Nat
      /\ UNCHANGED <<low, phys_chan, modsel_active, current_modsel, since, there, chan, msgs,
                     reloads>>
  BY <1>1, FragmentFrame
<1>3. n \in Nat /\ n <= Left /\ (Left > 0 => n > 0)
  BY <1>2 DEF WriteLen, Room, Least, Left, Current
<1>4. faults' \in 0..MaxFaults /\ heard' \subseteq heard \cup Audience
  BY <1>1, FaultsTyped DEF WriteFragment
<1>5. CASE Advance(n) /\ delay' = 0 /\ UNCHANGED <<throttle_min, echoed>>
  <2> HIDE DEF n
  <2>1. /\ msg' \in 1..Len(msgs) /\ pos' \in 0..msgs[msg'].len
        /\ rc' \in {"run", "ok"} /\ (rc' = "run" => msg' # 1 \/ pos' # 0)
    BY <1>1, <1>2, <1>3, <1>5, AdvanceTyped
  <2>2. echoed' \in BOOLEAN
    BY <1>5, Zenon DEF TypeOK
  <2>3. throttle_min' \in [Chans -> {0} \cup THROTTLE_MIN..THROTTLE_MAX] /\ delay' \in 0..MaxBackoff + 1
    BY <1>5 DEF TypeOK
  <2>4. /\ rc' \in {"run", "ok", "error"}
        /\ rc' = "run" => msg' # 1 \/ pos' # 0 \/ delay' # 0
    BY <2>1
  <2> QED BY <1>2, <1>4, <2>1, <2>2, <2>3, <2>4, FragmentKeeps
<1>6. ASSUME NEW taken \in BOOLEAN, Nack(taken) PROVE MuxInv'
  <2>1. /\ throttle_min' \in [Chans -> {0} \cup THROTTLE_MIN..THROTTLE_MAX]
        /\ delay' \in 0..MaxBackoff + 1 /\ echoed' \in BOOLEAN /\ msg' = msg /\ pos' = pos
        /\ rc' = "error" \/ (rc' = "run" /\ delay' # 0)
    BY <1>1, <1>2, <1>6, NackTyped
  <2> QED BY <1>2, <1>4, <2>1, FragmentKeeps
<1>7. CASE Fail /\ delay' = 0 /\ UNCHANGED <<throttle_min, echoed>>
  <2>1. echoed' \in BOOLEAN
    BY <1>7, Zenon DEF TypeOK
  <2>2. /\ rc' = "error" /\ UNCHANGED <<msg, pos>> /\ delay' \in 0..MaxBackoff + 1
        /\ throttle_min' \in [Chans -> {0} \cup THROTTLE_MIN..THROTTLE_MAX]
    BY <1>7 DEF Fail, TypeOK
  <2> QED BY <1>2, <1>4, <2>1, <2>2, FragmentKeeps
<1> QED BY <1>5, <1>6, <1>7 DEF WriteFragment

LEMMA ReadsKeep == ASSUME MuxInv, ReadFragment \/ WriteRead PROVE MuxInv'
<1> USE CpuctlAssumption DEF MuxInv
<1>1. Xfer /\ TypeOK
  BY DEF Xfer
<1>2. /\ Calling /\ rc = "run" /\ msg \in 1..Len(msgs) /\ pos \in 0..msgs[msg].len
      /\ msgs[msg].len \in Nat
      /\ UNCHANGED <<low, phys_chan, modsel_active, current_modsel, since, there, chan, msgs,
                     reloads>>
  BY <1>1, FragmentFrame
<1>3. faults' \in 0..MaxFaults /\ heard' \subseteq heard \cup Audience
      /\ UNCHANGED <<throttle_min, delay, echoed>>
  <2>1. faults' \in 0..MaxFaults
    BY <1>1, FaultsTyped DEF ReadFragment, WriteRead, TypeOK
  <2> QED BY <2>1 DEF ReadFragment, WriteRead, ReadFrom
<1>4. /\ throttle_min' \in [Chans -> {0} \cup THROTTLE_MIN..THROTTLE_MAX]
      /\ delay' \in 0..MaxBackoff + 1 /\ echoed' \in BOOLEAN
  BY <1>3 DEF TypeOK
<1>5. ASSUME NEW n \in Nat, n <= Left, Left > 0 => n > 0, Advance(n) PROVE MuxInv'
  <2>1. /\ msg' \in 1..Len(msgs) /\ pos' \in 0..msgs[msg'].len
        /\ rc' \in {"run", "ok"} /\ (rc' = "run" => msg' # 1 \/ pos' # 0)
    BY <1>1, <1>2, <1>5, AdvanceTyped
  <2>2. /\ rc' \in {"run", "ok", "error"}
        /\ rc' = "run" => msg' # 1 \/ pos' # 0 \/ delay' # 0
    BY <2>1
  <2> QED BY <1>2, <1>3, <1>4, <2>1, <2>2, FragmentKeeps
<1>6. CASE rc' \in {"ok", "error"} /\ UNCHANGED <<msg, pos>>
  BY <1>2, <1>3, <1>4, <1>6, FragmentKeeps
<1>7. CASE WriteRead
  BY <1>6, <1>7 DEF WriteRead, Fail
<1>8. CASE ReadFragment
  <2>1. ReadLen(Left) \in Nat /\ ReadLen(Left) <= Left /\ (Left > 0 => ReadLen(Left) > 0)
    BY <1>2 DEF ReadLen, Least, Left, Current
  <2>2. Advance(ReadLen(Left)) \/ Fail
    BY <1>8 DEF ReadFragment
  <2> QED BY <1>5, <1>6, <2>1, <2>2 DEF Fail
<1> QED BY <1>7, <1>8

LEMMA MuxKeeps == ASSUME MuxInv, [Next]_vars PROVE MuxInv'
<1>1. CASE UNCHANGED vars
  <2> USE <1>1 DEF vars, selVars, callVars, MuxInv
  <2>1. TypeOK'
    BY DEF TypeOK, Calling, Pins, Selectable, Long
  <2>2. SelectionInv' /\ AtRest' /\ (Calling => GapKept)'
    BY DEF SelectionInv, AtRest, GapKept, Calling, Selectable, Addressed
  <2> QED BY <2>1, <2>2
<1> QED BY <1>1, SelectKeeps, DirectKeeps, BetweenKeeps, WriteKeeps, ReadsKeep DEF Next, Xfer

-----------------------------------------------------------------------------
\* The inductive invariant of cpuctl_i2c.c's multiplexer and controller.
THEOREM MuxInvariant == Spec => []MuxInv
<1>1. Init => MuxInv
  BY MuxStarts
<1>2. MuxInv /\ [Next]_vars => MuxInv'
  BY MuxKeeps
<1> QED BY <1>1, <1>2, PTL DEF Spec

\* The types of the driver's state: a call stays inside its messages, a throttle
\* time between THROTTLE_MIN and THROTTLE_MAX.
THEOREM MuxTypes == Spec => []TypeOK
<1>1. MuxInv => TypeOK
  BY DEF MuxInv
<1> QED BY <1>1, MuxInvariant, PTL

\* Through ctl_select_chan only the device of the channel takes part in a call:
\* the ModSel register is right whenever it is not written because
\* current_modsel says so, after removals of the driver and failed calls too.
THEOREM TargetRightAlways == Spec => []TargetRight
<1>1. MuxInv => TargetRight
  BY DEF MuxInv, SelectionInv, TargetRight
<1> QED BY <1>1, MuxInvariant, PTL

\* An optic is left alone for its throttle time before a call to it starts, also
\* while that time is raised by retries.
THEOREM GapKeptAlways == Spec => []GapKept
<1>1. MuxInv => GapKept
  BY CpuctlAssumption DEF MuxInv, GapKept, Calling, Selectable
<1> QED BY <1>1, MuxInvariant, PTL

-----------------------------------------------------------------------------
(***************************************************************************)
(* What a call has moved.  A fragment that was refused but arrived leaves  *)
(* the device ahead of the driver; at the beginning of a message that does *)
(* no harm, since the START of the next attempt makes the device forget    *)
(* it, and nothing is claimed of it before.  In the middle it is an echo.  *)
(***************************************************************************)
Reading == Current.op = "read"
Begun   == pos > 0 \/ msg = 2

MovedSoFar ==
    Calling /\ rc = "run" /\ ~ echoed =>
        /\ got = Bytes(0, IF Reading THEN pos ELSE 0)
        /\ Begun => heard = Audience
        /\ Begun \/ Reading =>
              \A d \in Audience :
                  /\ stream[d] = Bytes(0, IF Reading THEN WrittenLen ELSE pos)
                  /\ offset[d] = IF Reading THEN pos ELSE 0

\* A call finds the devices at the beginning.
Untouched ==
    ~ Calling => /\ stream = [c \in Chans |-> NoByte] /\ offset = [c \in Chans |-> 0]
                 /\ got = NoByte /\ heard = {}

MoveInv == MuxInv /\ MovedSoFar /\ Untouched /\ Delivered

LEMMA BytesJoin ==
    /\ Bytes(0, 0) = NoByte
    /\ \A a, n \in Nat : Bytes(0, a) \o Bytes(a, n) = Bytes(0, a + n)
<1>1. Bytes(0, 0) = NoByte
  BY DEF Bytes, NoByte
<1>2. ASSUME NEW a \in Nat, NEW n \in Nat
      PROVE  Bytes(0, a) \o Bytes(a, n) = Bytes(0, a + n)
  <2>1. Bytes(0, a) \in Seq(Nat) /\ Bytes(a, n) \in Seq(Nat)
    BY DEF Bytes
  <2>2. Len(Bytes(0, a)) = a /\ Len(Bytes(a, n)) = n
    BY DEF Bytes
  <2>3. /\ Bytes(0, a) \o Bytes(a, n) \in Seq(Nat) /\ Bytes(0, a + n) \in Seq(Nat)
        /\ Len(Bytes(0, a) \o Bytes(a, n)) = a + n /\ Len(Bytes(0, a + n)) = a + n
    BY <2>1, <2>2 DEF Bytes
  <2>4. ASSUME NEW i \in 1..a + n
        PROVE  (Bytes(0, a) \o Bytes(a, n))[i] = Bytes(0, a + n)[i]
    <3>1. (Bytes(0, a) \o Bytes(a, n))[i]
             = IF i <= a THEN Bytes(0, a)[i] ELSE Bytes(a, n)[i - a]
      BY <2>1, <2>2
    <3>2. (IF i <= a THEN Bytes(0, a)[i] ELSE Bytes(a, n)[i - a]) = i
      BY DEF Bytes
    <3>3. Bytes(0, a + n)[i] = i
      BY DEF Bytes
    <3> QED BY <3>1, <3>2, <3>3
  <2> QED BY <2>3, <2>4, SeqEqual, Zenon
<1> QED BY <1>1, <1>2

\* A read comes last; before it at least one byte was written.
LEMMA RequestOrder ==
    ASSUME NEW m \in Requests
    PROVE  \/ Len(m) = 1
           \/ /\ Len(m) = 2 /\ m[1].op = "write" /\ m[1].len > 0
              /\ m[2].op = "read" /\ m[2].len > 0
<1>1. \/ \E op \in {"write", "read"}, n \in Lens : m = <<Message(op, n, FALSE)>>
      \/ \E k \in 1..2, n \in Lens \ {0}, sccb \in BOOLEAN :
            m = <<Message("write", k, sccb), Message("read", n, FALSE)>>
  BY DEF Requests, Message
<1>2. CASE \E op \in {"write", "read"}, n \in Lens : m = <<Message(op, n, FALSE)>>
  BY <1>2, CpuctlAssumption DEF Message
<1>3. CASE \E k \in 1..2, n \in Lens \ {0}, sccb \in BOOLEAN :
              m = <<Message("write", k, sccb), Message("read", n, FALSE)>>
  BY <1>3, CpuctlAssumption DEF Message
<1> QED BY <1>1, <1>2, <1>3

\* The device of the channel listens, if it is there, and nobody else does.
LEMMA AudienceExact ==
    ASSUME TypeOK, SelectionInv, Calling
    PROVE  Audience = Addressed(chan)
<1> USE CpuctlAssumption DEF SelectionInv, TypeOK
<1>1. Audience \subseteq Addressed(chan)
  BY AudienceRight
<1>2. CASE chan = Root
  BY <1>1, <1>2 DEF Audience, Addressed
<1>3. CASE chan \in Chans
  <2>1. phys_chan = Bus[chan] /\ (Modsel[chan] # NoModsel => low = {Modsel[chan]})
    BY <1>3 DEF Selectable
  <2>2. chan \in there => chan \in Audience
    BY <2>1 DEF Audience
  <2> QED BY <1>1, <1>3, <2>2 DEF Addressed
<1> QED BY <1>2, <1>3 DEF Calling

LEMMA MoveStarts == ASSUME Init PROVE MoveInv
<1>1. MuxInv
  BY MuxStarts
<1> QED BY <1>1 DEF Init, MoveInv, MovedSoFar, Untouched, Delivered, Calling

\* A call begins with nothing moved, and ends forgetting what was.
LEMMA MoveBetween ==
    ASSUME MoveInv,
           \/ \E c \in Chans : Select(c)
           \/ Direct \/ Deselect \/ Reload \/ Tick
           \/ \E c \in Selectable : Plug(c)
    PROVE  MovedSoFar' /\ Untouched' /\ Delivered'
<1> USE CpuctlAssumption DEF MoveInv
<1>1. ASSUME NEW c \in Chans \cup {Root}, Start(c)
      PROVE  MovedSoFar' /\ Untouched' /\ Delivered'
  <2>1. /\ ~ Calling /\ Calling' /\ msgs' \in Requests /\ msg' = 1 /\ pos' = 0 /\ rc' = "run"
        /\ stream' = [d \in Chans |-> NoByte] /\ offset' = [d \in Chans |-> 0] /\ got' = NoByte
    BY <1>1 DEF Start, MuxInv, AtRest, Untouched, Calling, Root, Nobody
  <2>2. Audience' \subseteq Chans
    BY <1>1 DEF Audience, Start, MuxInv, TypeOK
  <2>3. Reading' => WrittenLen' = 0
    BY <2>1 DEF Reading, Current, WrittenLen
  <2> QED BY <2>1, <2>2, <2>3, BytesJoin DEF MovedSoFar, Untouched, Delivered, Begun
<1>2. CASE Deselect
  BY <1>2 DEF Deselect, MovedSoFar, Untouched, Delivered, Calling
<1>3. CASE Reload \/ Tick \/ \E c \in Selectable : Plug(c)
  <2>1. ~ Calling /\ ~ Calling' /\ UNCHANGED <<stream, offset, got, heard>>
    BY <1>3 DEF Reload, Tick, Plug, callVars, Calling
  <2> QED BY <2>1 DEF MovedSoFar, Untouched, Delivered
<1> QED BY <1>1, <1>2, <1>3 DEF Select, Direct

\* What holds before every fragment.
LEMMA MoveFrame ==
    ASSUME MoveInv, Xfer
    PROVE  /\ Calling /\ Calling' /\ rc = "run" /\ chan' = chan /\ msgs' = msgs
           /\ msg \in 1..Len(msgs) /\ pos \in 0..Current.len /\ Current.len \in Nat
           /\ \/ Len(msgs) = 1
              \/ /\ Len(msgs) = 2 /\ msgs[1].op = "write" /\ msgs[1].len > 0
                 /\ msgs[2].op = "read" /\ msgs[2].len > 0
           /\ Current.op \in {"read", "write"}
           /\ Audience = Addressed(chan) /\ Audience' = Audience
           /\ Addressed(chan)' = Addressed(chan)
           /\ heard \subseteq Audience /\ Audience \subseteq Chans
           /\ WrittenLen' = WrittenLen /\ ReadTotal' = ReadTotal
<1>1. MuxInv /\ TypeOK /\ SelectionInv
  BY DEF MoveInv, MuxInv
<1>2. /\ Calling /\ rc = "run" /\ msg \in 1..Len(msgs) /\ pos \in 0..msgs[msg].len
      /\ msgs[msg].len \in Nat /\ msgs[msg].op \in {"read", "write"}
      /\ UNCHANGED <<low, phys_chan, there, chan, msgs>>
  BY <1>1, FragmentFrame
<1>3. msgs \in Requests
  BY <1>1, <1>2 DEF TypeOK
<1>4. Audience = Addressed(chan)
  BY <1>1, <1>2, AudienceExact
<1>5. heard \subseteq Addressed(chan) /\ Audience \subseteq Chans
  BY <1>1, <1>2 DEF SelectionInv, TypeOK, Audience
<1>6. /\ Audience' = Audience /\ Addressed(chan)' = Addressed(chan) /\ Calling'
      /\ WrittenLen' = WrittenLen /\ ReadTotal' = ReadTotal
  BY <1>2 DEF Audience, Addressed, Calling, WrittenLen, ReadTotal
<1> QED BY <1>2, <1>3, <1>4, <1>5, <1>6, RequestOrder DEF Current

\* Nothing is claimed of a call that has failed, or in which an echo was heard.
LEMMA MoveLost ==
    ASSUME MoveInv, Xfer, rc' = "error" \/ echoed'
    PROVE  MovedSoFar' /\ Untouched' /\ Delivered'
BY MoveFrame DEF MovedSoFar, Untouched, Delivered

\* A fragment that leaves everything as it was, except the delay.
LEMMA MoveStays ==
    ASSUME MoveInv, Xfer, UNCHANGED <<stream, offset, got, heard, echoed, msg, pos, rc>>
    PROVE  MovedSoFar' /\ Untouched' /\ Delivered'
BY MoveFrame DEF MoveInv, MovedSoFar, Untouched, Delivered, Reading, Begun, Current

LEMMA MoveWrite ==
    ASSUME MoveInv, WriteFragment PROVE MovedSoFar' /\ Untouched' /\ Delivered'
<1> DEFINE n     == WriteLen(Left, pos = 0)
           bytes == Bytes(pos, Least(n, Room(pos = 0)))
<1>1. Xfer
  BY DEF Xfer
<1>2. /\ Calling /\ Calling' /\ rc = "run" /\ msg = 1 /\ pos \in Nat /\ pos <= msgs[1].len
      /\ msgs[1].len \in Nat /\ msgs[1].op = "write" /\ Current = msgs[1] /\ ~ Reading
      /\ msgs' = msgs /\ UNCHANGED got
      /\ Left = msgs[1].len - pos
  BY <1>1, MoveFrame DEF WriteFragment, Current, Reading, Left
<1>3. /\ n \in Nat /\ pos + n <= msgs[1].len /\ bytes = Bytes(pos, n)
      /\ n = 0 => pos = msgs[1].len
  BY <1>2 DEF WriteLen, Room, Least
<1>4. CASE echoed'
  BY <1>1, <1>4, MoveLost
<1>5. CASE Fail
  BY <1>1, <1>5, MoveLost DEF Fail
<1>6. ASSUME Nack(TRUE), ~ Fail, ~ echoed'
      PROVE  MovedSoFar' /\ Untouched' /\ Delivered'
  <2>1. pos = 0 /\ ~ echoed /\ UNCHANGED <<msg, pos, rc>>
    <3>1. echoed' = (echoed \/ (TRUE /\ pos > 0)) /\ UNCHANGED <<msg, pos, rc>>
      BY <1>6, Zenon DEF Nack
    <3>2. ~ echoed /\ ~ (pos > 0)
      BY <1>6, <3>1, Zenon
    <3> QED BY <1>2, <3>1, <3>2
  <2>2. got' = Bytes(0, 0)
    BY <1>2, <1>6, <2>1 DEF MoveInv, MovedSoFar
  <2>3. ~ Begun' /\ ~ Reading' /\ rc' = "run"
    BY <1>2, <2>1 DEF Begun, Reading, Current
  <2> QED BY <1>2, <2>2, <2>3 DEF MovedSoFar, Untouched, Delivered
<1>7. ASSUME Nack(FALSE), UNCHANGED <<stream, offset, heard>>, ~ Fail, ~ echoed'
      PROVE  MovedSoFar' /\ Untouched' /\ Delivered'
  <2>1. UNCHANGED <<msg, pos, rc>> /\ ~ echoed
    BY <1>7 DEF Nack
  <2>2. rc' = "run" /\ ~ (rc' = "ok") /\ Reading' = Reading /\ Begun' = Begun
    BY <1>2, <2>1 DEF Reading, Begun, Current
  <2>3. MovedSoFar
    BY DEF MoveInv
  <2> QED BY <1>1, <1>2, <1>7, <2>1, <2>2, <2>3, MoveFrame DEF MovedSoFar, Untouched, Delivered
<1>8. ASSUME TakenBy(Audience, pos = 0, bytes), heard' = heard \cup Audience, Advance(n),
             UNCHANGED echoed, ~ echoed'
      PROVE  MovedSoFar' /\ Untouched' /\ Delivered'
  <2>1. /\ ~ echoed /\ got' = Bytes(0, 0) /\ heard' = Audience /\ Audience' = Audience
        /\ Audience = Addressed(chan) /\ Addressed(chan)' = Addressed(chan) /\ chan' = chan
        /\ WrittenLen = msgs[1].len /\ WrittenLen' = WrittenLen
        /\ ReadTotal' = ReadTotal /\ Audience \subseteq Chans
    BY <1>1, <1>2, <1>8, MoveFrame DEF MoveInv, MovedSoFar, WrittenLen
  <2>2. ASSUME NEW d \in Audience
        PROVE  stream'[d] = Bytes(0, pos + n) /\ offset'[d] = 0
    <3>1. d \in Chans
      BY <2>1
    <3>2. CASE pos = 0
      BY <1>3, <1>8, <3>1, <3>2 DEF TakenBy
    <3>3. CASE pos # 0
      <4>1. stream[d] = Bytes(0, pos) /\ offset[d] = 0
        BY <1>2, <2>1, <3>3 DEF MoveInv, MovedSoFar, Begun
      <4>2. stream'[d] = Bytes(0, pos) \o Bytes(pos, n) /\ offset'[d] = 0
        BY <1>3, <1>8, <3>1, <3>3, <4>1 DEF TakenBy
      <4> QED BY <1>2, <1>3, <4>2, BytesJoin
    <3> QED BY <3>2, <3>3
  <2> HIDE DEF n, bytes
  <2>3. CASE pos + n < msgs[1].len
    <3>1. pos' = pos + n /\ msg' = 1 /\ rc' = "run"
      BY <1>2, <1>8, <2>3 DEF Advance
    <3>2. ~ Reading'
      BY <1>2, <3>1 DEF Reading, Current
    <3> QED BY <1>2, <2>1, <2>2, <3>1, <3>2 DEF MovedSoFar, Untouched, Delivered
  <2>4. CASE ~ (pos + n < msgs[1].len) /\ msg < Len(msgs)
    <3>1. pos + n = WrittenLen
      BY <1>2, <1>3, <2>1, <2>4
    <3>2. pos' = 0 /\ msg' = 2 /\ rc' = "run"
      BY <1>2, <1>8, <2>4 DEF Advance
    <3>3. Reading'
      BY <1>1, <1>2, <2>4, <3>2, MoveFrame DEF Reading, Current
    <3> QED BY <1>2, <2>1, <2>2, <3>1, <3>2, <3>3 DEF MovedSoFar, Untouched, Delivered
  <2>5. CASE ~ (pos + n < msgs[1].len) /\ ~ (msg < Len(msgs))
    <3>1. pos + n = WrittenLen
      BY <1>2, <1>3, <2>1, <2>5
    <3>2. rc' = "ok"
      BY <1>2, <1>8, <2>5 DEF Advance
    <3>3. ReadTotal = 0
      BY <1>1, <1>2, <2>5, MoveFrame DEF ReadTotal
    <3>4. Delivered'
      BY <1>2, <2>1, <2>2, <3>1, <3>3 DEF Delivered
    <3> QED BY <1>2, <3>2, <3>4 DEF MovedSoFar, Untouched
  <2> QED BY <2>3, <2>4, <2>5
<1> QED BY <1>4, <1>5, <1>6, <1>7, <1>8 DEF WriteFragment

LEMMA MoveRead ==
    ASSUME MoveInv, ReadFragment PROVE MovedSoFar' /\ Untouched' /\ Delivered'
<1> DEFINE n == ReadLen(Left)
<1>1. Xfer
  BY DEF Xfer
<1>2. /\ Calling /\ Calling' /\ rc = "run" /\ msg \in 1..Len(msgs) /\ pos \in Nat
      /\ pos <= Current.len /\ Current.len \in Nat /\ Current.op = "read" /\ Reading
      /\ msg = Len(msgs) /\ msgs' = msgs /\ UNCHANGED <<stream, echoed>>
      /\ Left = Current.len - pos
      /\ msg = 1 \/ (msg = 2 /\ Current.len > 0)
  <2>1. /\ Calling /\ Calling' /\ rc = "run" /\ msg \in 1..Len(msgs) /\ pos \in 0..Current.len
        /\ Current.len \in Nat /\ msgs' = msgs
        /\ \/ Len(msgs) = 1
           \/ /\ Len(msgs) = 2 /\ msgs[1].op = "write" /\ msgs[1].len > 0
              /\ msgs[2].op = "read" /\ msgs[2].len > 0
    BY <1>1, MoveFrame
  <2>2. Current.op = "read" /\ UNCHANGED <<stream, echoed>>
    BY DEF ReadFragment
  <2>3. msg = Len(msgs) /\ (msg = 1 \/ (msg = 2 /\ Current.len > 0))
    <3>1. CASE Len(msgs) = 1
      BY <2>1, <3>1
    <3>2. CASE Len(msgs) = 2 /\ msgs[1].op = "write" /\ msgs[2].len > 0
      <4>1. msg # 1
        BY <2>2, <3>2 DEF Current
      <4>2. msg = 2
        BY <2>1, <3>2, <4>1
      <4> QED BY <3>2, <4>2 DEF Current
    <3> QED BY <2>1, <3>1, <3>2
  <2> QED BY <2>1, <2>2, <2>3 DEF Reading, Left
<1>3. n \in Nat /\ pos + n <= Current.len /\ (n = 0 => pos = Current.len)
  BY <1>2 DEF ReadLen, Least
<1>4. ReadTotal = Current.len /\ (msg = 1 => WrittenLen = 0)
  BY <1>2 DEF ReadTotal, Current, WrittenLen
<1>5. CASE Fail
  BY <1>1, <1>5, MoveLost DEF Fail
<1>6. CASE echoed
  <2>1. echoed'
    BY <1>2, <1>6
  <2> QED BY <1>1, <2>1, MoveLost
<1>7. ASSUME ~ echoed, Advance(n),
             \/ n > 0 /\ ReadFrom(Audience, n) /\ Audience # {}
             \/ n = 0 /\ UNCHANGED <<got, offset, heard>>
      PROVE  MovedSoFar' /\ Untouched' /\ Delivered'
  <2>1. /\ got = Bytes(0, pos)
        /\ \A d \in Audience : stream[d] = Bytes(0, WrittenLen) /\ offset[d] = pos
        /\ Begun => heard = Audience
    BY <1>2, <1>7 DEF MoveInv, MovedSoFar
  <2>2. /\ Audience' = Audience /\ heard \subseteq Audience /\ Audience \subseteq Chans
        /\ Audience = Addressed(chan) /\ Addressed(chan)' = Addressed(chan) /\ chan' = chan
        /\ WrittenLen' = WrittenLen /\ ReadTotal' = ReadTotal
    BY <1>1, MoveFrame
  <2> HIDE DEF n
  <2>3. got' = Bytes(0, pos + n)
    <3>1. CASE n = 0
      BY <1>2, <1>7, <2>1, <3>1
    <3>2. CASE n > 0
      <4>1. got' = Bytes(0, pos) \o Bytes(pos, n)
        BY <1>7, <2>1, <3>2 DEF ReadFrom
      <4> QED BY <1>2, <1>3, <4>1, BytesJoin
    <3> QED BY <1>3, <3>1, <3>2
  <2>4. \A d \in Audience : offset'[d] = pos + n
    <3>1. CASE n = 0
      BY <1>2, <1>7, <2>1, <3>1
    <3>2. CASE n > 0
      <4>1. offset' = [c \in Chans |-> IF c \in Audience THEN offset[c] + n ELSE offset[c]]
        BY <1>7, <3>2 DEF ReadFrom
      <4> QED BY <2>1, <2>2, <4>1
    <3> QED BY <1>3, <3>1, <3>2
  <2>5. heard' \subseteq Audience /\ (n > 0 \/ Begun => heard' = Audience)
    <3>1. CASE n = 0
      BY <1>7, <2>1, <2>2, <3>1
    <3>2. CASE n > 0
      BY <1>7, <2>2, <3>2 DEF ReadFrom
    <3> QED BY <1>3, <3>1, <3>2
  <2>6. CASE pos + n < Current.len
    <3>1. pos' = pos + n /\ msg' = msg /\ rc' = "run" /\ n > 0
      BY <1>2, <1>3, <1>7, <2>6 DEF Advance
    <3>2. Reading'
      BY <1>2, <3>1 DEF Reading, Current
    <3> QED BY <1>2, <2>1, <2>2, <2>3, <2>4, <2>5, <3>1, <3>2
         DEF MovedSoFar, Untouched, Delivered
  <2>7. CASE ~ (pos + n < Current.len)
    <3>1. pos + n = ReadTotal
      BY <1>2, <1>3, <1>4, <2>7
    <3>2. rc' = "ok"
      BY <1>2, <1>7, <2>7 DEF Advance
    <3>3. heard' = Addressed(chan) \/ (msgs[1].op = "read" /\ msgs[1].len = 0)
      <4>1. n > 0 \/ Begun \/ Current.len = 0
        BY <1>2, <1>3, <2>7 DEF Begun
      <4>2. Current.len = 0 => msg = 1
        BY <1>2
      <4>3. CASE Current.len = 0
        BY <1>2, <4>2, <4>3 DEF Current
      <4>4. CASE n > 0 \/ Begun
        BY <2>2, <2>5, <4>4
      <4> QED BY <4>1, <4>3, <4>4
    <3>4. \A d \in heard' : stream'[d] = Bytes(0, WrittenLen)
      BY <1>2, <2>1, <2>5
    <3>5. Delivered'
      BY <1>2, <2>2, <2>3, <3>1, <3>3, <3>4 DEF Delivered
    <3> QED BY <1>2, <3>2, <3>5 DEF MovedSoFar, Untouched
  <2> QED BY <2>6, <2>7
<1> QED BY <1>5, <1>6, <1>7 DEF ReadFragment, Fine

LEMMA MoveBoth ==
    ASSUME MoveInv, WriteRead PROVE MovedSoFar' /\ Untouched' /\ Delivered'
<1>1. Xfer
  BY DEF Xfer
<1>2. CASE Fail
  BY <1>1, <1>2, MoveLost DEF Fail
<1>3. CASE ~ Fail
  <2>1. /\ stream' = [c \in Chans |-> IF c \in Audience THEN Bytes(0, msgs[1].len) ELSE stream[c]]
        /\ got' = Bytes(0, msgs[2].len) /\ heard' = heard \cup Audience /\ rc' = "ok"
        /\ Len(msgs) = 2
    BY <1>3 DEF WriteRead, Combined
  <2>2. /\ heard' = Audience /\ Calling' /\ Audience = Addressed(chan) /\ chan' = chan
        /\ Addressed(chan)' = Addressed(chan) /\ Audience \subseteq Chans /\ msgs' = msgs
        /\ WrittenLen = msgs[1].len /\ ReadTotal = msgs[2].len
        /\ WrittenLen' = WrittenLen /\ ReadTotal' = ReadTotal
    BY <1>1, <2>1, MoveFrame DEF WrittenLen, ReadTotal
  <2>3. \A d \in heard' : stream'[d] = Bytes(0, WrittenLen)
    BY <2>1, <2>2
  <2>4. Delivered'
    BY <2>1, <2>2, <2>3 DEF Delivered
  <2> QED BY <2>1, <2>2, <2>4 DEF MovedSoFar, Untouched
<1> QED BY <1>2, <1>3

LEMMA MoveKeeps == ASSUME MoveInv, [Next]_vars PROVE MoveInv'
<1>1. MuxInv'
  BY MuxKeeps DEF MoveInv
<1>2. CASE UNCHANGED vars
  BY <1>1, <1>2 DEF vars, selVars, callVars, MoveInv, MovedSoFar, Untouched, Delivered, Calling,
     Reading, Begun, Current, Audience, Addressed, WrittenLen, ReadTotal
<1>3. CASE Next
  <2>1. MovedSoFar' /\ Untouched' /\ Delivered'
    BY <1>3, MoveBetween, MoveWrite, MoveRead, MoveBoth DEF Next, Xfer
  <2> QED BY <1>1, <2>1 DEF MoveInv
<1> QED BY <1>2, <1>3

\* A call of ctl_i2c_xfer that returns success has moved every byte once and in
\* order to the device of its channel, in fragments of three and four bytes and
\* through any number of retries, unless a fragment in the middle of a write was
\* refused falsely.
THEOREM DeliveredAlways == Spec => []Delivered
<1>1. Init => MoveInv
  BY MoveStarts
<1>2. MoveInv /\ [Next]_vars => MoveInv'
  BY MoveKeeps
<1>3. MoveInv => Delivered
  BY DEF MoveInv
<1> QED BY <1>1, <1>2, <1>3, PTL DEF Spec
-----------------------------------------------------------------------------
(***************************************************************************)
(* How long a call can take.  Each byte that is left, and each message, is *)
(* good for one first attempt and the retries of the longest backoff.      *)
(***************************************************************************)
Attempts  == MaxBackoff + 2
MovesLeft == IF msg < Len(msgs) THEN Left + msgs[msg + 1].len + 2 ELSE Left + 1
Budget    == IF Calling /\ rc = "run" THEN MovesLeft * Attempts - delay ELSE 0

\* Every step of ctl_i2c_xfer uses up some of the budget of its call, which is
\* never negative: no sequence of NACKs, of fragments or of messages without bytes
\* keeps a call going.
CallsSpend == [][Calling /\ Calling' => Budget' \in Nat /\ Budget' < Budget]_vars

\* A move pays for all its attempts, whatever the delay was.
LEMMA MovePays ==
    ASSUME NEW a \in Nat, NEW m \in Nat, NEW n \in Nat, n < m,
           NEW d \in 0..a + 1, NEW e \in 0..a + 1
    PROVE  /\ n * (a + 2) \in Nat /\ m * (a + 2) \in Nat
           /\ n * (a + 2) - e < m * (a + 2) - d
           /\ m * (a + 2) - d \in Nat
<1>1. n * (a + 2) \in Nat /\ (m - 1) * (a + 2) \in Nat /\ m * (a + 2) \in Nat
  OBVIOUS
<1>2. m * (a + 2) = (m - 1) * (a + 2) + (a + 2)
  OBVIOUS
<1>3. m - 1 - n \in Nat
  OBVIOUS
<1>4. (m - 1 - n) * (a + 2) \in Nat
  BY <1>3
<1>5. (m - 1) * (a + 2) = n * (a + 2) + (m - 1 - n) * (a + 2)
  OBVIOUS
<1>6. (m - 1) * (a + 2) >= n * (a + 2)
  BY <1>1, <1>4, <1>5
<1> QED BY <1>1, <1>2, <1>6

LEMMA MovesTyped ==
    ASSUME TypeOK, Calling
    PROVE  /\ msg \in 1..Len(msgs) /\ Len(msgs) \in 1..2 /\ pos \in 0..Current.len
           /\ \A i \in 1..Len(msgs) : msgs[i].len \in Nat
           /\ MovesLeft \in Nat /\ MovesLeft > 0
<1>1. /\ msgs \in Requests /\ msg \in 1..Len(msgs) /\ Len(msgs) \in 1..2
      /\ pos \in 0..Current.len /\ \A i \in 1..Len(msgs) : msgs[i].len \in Nat
  BY RequestShape DEF TypeOK, Current
<1>2. Left \in Nat
  BY <1>1 DEF Left, Current
<1>3. msg < Len(msgs) => msgs[msg + 1].len \in Nat
  <2>1. msg < Len(msgs) => msg + 1 \in 1..Len(msgs)
    BY <1>1
  <2> QED BY <1>1, <2>1
<1> QED BY <1>1, <1>2, <1>3 DEF MovesLeft

\* A fragment that went through leaves fewer moves, or ends the call.
LEMMA AdvanceMoves ==
    ASSUME TypeOK, Calling, rc = "run", UNCHANGED msgs,
           NEW n \in Nat, n <= Left, Left > 0 => n > 0, Advance(n)
    PROVE  rc' = "ok" \/ (rc' = "run" /\ MovesLeft' \in Nat \ {0} /\ MovesLeft' < MovesLeft)
<1>1. /\ msg \in 1..Len(msgs) /\ Len(msgs) \in 1..2 /\ pos \in 0..Current.len
      /\ \A i \in 1..Len(msgs) : msgs[i].len \in Nat
      /\ MovesLeft \in Nat /\ MovesLeft > 0
  BY MovesTyped
<1>2. Left = Current.len - pos /\ Left \in Nat /\ Current.len \in Nat
  BY <1>1 DEF Left, Current
<1>3. CASE pos + n < Current.len
  <2>1. pos' = pos + n /\ msg' = msg /\ rc' = "run" /\ n > 0
    BY <1>1, <1>2, <1>3 DEF Advance
  <2>2. Left' = Left - n /\ Left' \in Nat
    BY <1>1, <1>2, <1>3, <2>1 DEF Left, Current
  <2>3. MovesLeft' = MovesLeft - n
    <3>1. CASE msg < Len(msgs)
      <4>1. msgs[msg + 1].len \in Nat
        BY <1>1, <3>1
      <4>2. /\ MovesLeft = Left + msgs[msg + 1].len + 2
            /\ MovesLeft' = Left' + msgs[msg + 1].len + 2
        BY <2>1, <3>1 DEF MovesLeft
      <4> QED BY <1>2, <2>2, <4>1, <4>2
    <3>2. CASE ~ (msg < Len(msgs))
      <4>1. MovesLeft = Left + 1 /\ MovesLeft' = Left' + 1
        BY <2>1, <3>2 DEF MovesLeft
      <4> QED BY <1>2, <2>2, <4>1
    <3> QED BY <3>1, <3>2
  <2>4. MovesLeft' > 0
    <3>1. msg < Len(msgs) => msgs[msg + 1].len \in Nat
      BY <1>1
    <3> QED BY <1>1, <2>1, <2>2, <3>1 DEF MovesLeft
  <2> QED BY <1>1, <2>1, <2>3, <2>4
<1>4. CASE ~ (pos + n < Current.len) /\ msg < Len(msgs)
  <2>1. pos' = 0 /\ msg' = msg + 1 /\ rc' = "run" /\ ~ (msg' < Len(msgs))
    BY <1>1, <1>4 DEF Advance
  <2>2. msgs[msg + 1].len \in Nat
    BY <1>1, <1>4
  <2>3. MovesLeft' = msgs[msg + 1].len + 1
    BY <2>1, <2>2 DEF MovesLeft, Left, Current
  <2>4. MovesLeft = Left + msgs[msg + 1].len + 2
    BY <1>4 DEF MovesLeft
  <2> DEFINE next == msgs[msg + 1].len
  <2>5. next \in Nat /\ MovesLeft' = next + 1 /\ MovesLeft = Left + next + 2
    BY <2>2, <2>3, <2>4
  <2> HIDE DEF next
  <2>6. MovesLeft' \in Nat \ {0} /\ MovesLeft' < MovesLeft
    BY <1>2, <2>5
  <2> QED BY <2>1, <2>6
<1>5. CASE ~ (pos + n < Current.len) /\ ~ (msg < Len(msgs))
  BY <1>5 DEF Advance
<1> QED BY <1>3, <1>4, <1>5

LEMMA RunningBudget ==
    ASSUME TypeOK, Calling, rc = "run"
    PROVE  /\ MovesLeft \in Nat /\ MovesLeft > 0 /\ delay \in 0..MaxBackoff + 1
           /\ Budget = MovesLeft * Attempts - delay /\ Budget \in Nat /\ Budget > 0
<1>1. MovesLeft \in Nat /\ MovesLeft > 0
  BY MovesTyped
<1>2. delay \in 0..MaxBackoff + 1 /\ MaxBackoff \in Nat
  BY CpuctlAssumption DEF TypeOK
<1>3. /\ MovesLeft * Attempts - delay \in Nat
      /\ 0 * Attempts - 0 < MovesLeft * Attempts - delay
  <2>1. 0 \in Nat /\ 0 < MovesLeft /\ 0 \in 0..MaxBackoff + 1
    BY <1>1, <1>2
  <2> QED BY <1>1, <1>2, <2>1, MovePays DEF Attempts
<1>4. Attempts \in Nat
  BY <1>2 DEF Attempts
<1>5. 0 * Attempts - 0 = 0
  BY <1>4
<1> QED BY <1>1, <1>2, <1>3, <1>5 DEF Budget

LEMMA FragmentSpends ==
    ASSUME MuxInv, Xfer, Calling' PROVE Budget' \in Nat /\ Budget' < Budget
<1> USE CpuctlAssumption
<1>1. /\ TypeOK /\ TypeOK' /\ Calling /\ rc = "run" /\ UNCHANGED msgs
      /\ msg \in 1..Len(msgs) /\ pos \in 0..msgs[msg].len /\ msgs[msg].len \in Nat
  BY FragmentFrame, WriteKeeps, ReadsKeep DEF MuxInv, Xfer
<1>2. /\ MovesLeft \in Nat /\ MovesLeft > 0 /\ delay \in 0..MaxBackoff + 1
      /\ Budget = MovesLeft * Attempts - delay /\ Budget \in Nat /\ Budget > 0
  BY <1>1, RunningBudget
<1>3. CASE rc' # "run"
  BY <1>2, <1>3 DEF Budget
<1>4. ASSUME NEW n \in Nat, n <= Left, Left > 0 => n > 0, Advance(n)
      PROVE  Budget' \in Nat /\ Budget' < Budget
  <2>1. rc' = "ok" \/ (rc' = "run" /\ MovesLeft' \in Nat \ {0} /\ MovesLeft' < MovesLeft)
    BY <1>1, <1>4, AdvanceMoves
  <2>2. CASE rc' = "run"
    <3>1. /\ Budget' = MovesLeft' * Attempts' - delay' /\ Budget' \in Nat
          /\ delay' \in 0..MaxBackoff + 1 /\ Attempts' = Attempts
      <4>1. (TypeOK /\ Calling /\ rc = "run" => 
               /\ MovesLeft \in Nat /\ MovesLeft > 0 /\ delay \in 0..MaxBackoff + 1
               /\ Budget = MovesLeft * Attempts - delay /\ Budget \in Nat /\ Budget > 0)'
        BY RunningBudget, PTL
      <4> QED BY <1>1, <2>2, <4>1 DEF Attempts
    <3>2. MovesLeft' * (MaxBackoff + 2) - delay' < MovesLeft * (MaxBackoff + 2) - delay
      BY <1>2, <2>1, <2>2, <3>1, MovePays
    <3> QED BY <1>2, <3>1, <3>2 DEF Attempts
  <2> QED BY <1>3, <2>1, <2>2
<1>5. CASE UNCHANGED <<msg, pos, rc>> /\ delay' = delay + 1
  <2>1. Budget' = MovesLeft * Attempts - (delay + 1)
    BY <1>1, <1>5 DEF Budget, MovesLeft, Left, Current, Attempts, Calling
  <2>2. MovesLeft * Attempts \in Int
    BY <1>2 DEF Attempts
  <2> HIDE DEF Attempts
  <2> QED BY <1>2, <2>1, <2>2
<1>6. CASE WriteFragment
  <2> DEFINE n == WriteLen(Left, pos = 0)
  <2>1. n \in Nat /\ n <= Left /\ (Left > 0 => n > 0)
    BY <1>1 DEF WriteLen, Room, Least, Left, Current
  <2>2. Advance(n) \/ Nack(TRUE) \/ Nack(FALSE) \/ Fail
    BY <1>6 DEF WriteFragment
  <2>3. Advance(n) \/ rc' = "error" \/ (UNCHANGED <<msg, pos, rc>> /\ delay' = delay + 1)
    BY <2>2 DEF Nack, Fail, NextDelay
  <2> HIDE DEF n
  <2> QED BY <1>3, <1>4, <1>5, <2>1, <2>3
<1>7. CASE ReadFragment
  <2>1. ReadLen(Left) \in Nat /\ ReadLen(Left) <= Left /\ (Left > 0 => ReadLen(Left) > 0)
    BY <1>1 DEF ReadLen, Least, Left, Current
  <2>2. Advance(ReadLen(Left)) \/ rc' = "error"
    BY <1>7 DEF ReadFragment, Fail
  <2> QED BY <1>3, <1>4, <2>1, <2>2
<1>8. CASE WriteRead
  BY <1>3, <1>8 DEF WriteRead, Fail
<1> QED BY <1>6, <1>7, <1>8 DEF Xfer

\* The safety core of CallEnds: a call of ctl_i2c_xfer takes at most one step for
\* each attempt its messages are good for, and one to deselect.
THEOREM CallsAreBounded == Spec => CallsSpend
<1>1. MuxInv /\ [Next]_vars => [Calling /\ Calling' => Budget' \in Nat /\ Budget' < Budget]_vars
  <2> SUFFICES ASSUME MuxInv, Next, Calling, Calling'
               PROVE  Budget' \in Nat /\ Budget' < Budget
    OBVIOUS
  <2>1. CASE Xfer
    BY <2>1, FragmentSpends
  <2>2. CASE ~ Xfer
    BY <2>2 DEF Next, Select, Direct, Start, Deselect, Reload, Tick, Plug, Calling
  <2> QED BY <2>1, <2>2
<1> QED BY <1>1, MuxInvariant, PTL DEF Spec, CallsSpend
=============================================================================
