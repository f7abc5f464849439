------------------------------- MODULE SfpReset -------------------------------
(***************************************************************************)
(* Optics presence and reset on the IXR7220-H4-32D.  Two user-space        *)
(* processes meet in a mailbox of the CPLD driver: Sfp.reset (a command)   *)
(* asks for a reset, the event monitor SfpEvent (in xcvrd) answers once it *)
(* regards the port as empty, so that the module is reported removed and   *)
(* inserted again around its reset.                                        *)
(*                                                                         *)
(*   resetList[p]   0  no reset                                            *)
(*                  1  reset asked           (Sfp.reset)                   *)
(*                  2  port regarded empty   (SfpEvent)                    *)
(*                  3  module out of reset   (Sfp.reset)                   *)
(*                                                                         *)
(* Sources: ixr7220h4-32d/sonic_platform/sfp.py and sfp_event.py,          *)
(* ixr7220h4-32d/modules/h4_32d_swpld2.c (ports 1-16; h4_32d_swpld3.c does *)
(* the same for ports 17-32).                                              *)
(***************************************************************************)
EXTENDS Naturals

CONSTANTS
    QsfpNum,      \* QSFP_PORT_NUM: ports 1..QsfpNum can be reset
    NumPorts,     \* PORT_END; the ports above QsfpNum are SFPs
    NumRegs,      \* presence registers, and as many reset registers
    Reg,          \* the register that holds the bit of a QSFP port
    Callers,      \* processes that call Sfp.reset
    Overlap,      \* pairs of ports that may be in reset() at the same time
    Tries,        \* reads of the mailbox before reset() gives up (9)
    MaxRestarts   \* bound on the restarts of the monitor's process

Ports == 1..NumPorts
Qsfp  == 1..QsfpNum
Sfp   == Ports \ Qsfp

ASSUME SizesAssumption ==
    /\ QsfpNum \in Nat \ {0} /\ NumPorts \in Nat /\ QsfpNum <= NumPorts
    /\ NumRegs \in Nat \ {0} /\ Tries \in Nat \ {0} /\ MaxRestarts \in Nat
    /\ Reg \in [Qsfp -> 1..NumRegs]
    /\ Overlap \subseteq Qsfp \X Qsfp

VARIABLES
    plugged,    \* is there a module in the cage
    resetList,  \* reset_list of the CPLD driver, the mailbox
    rstn,       \* the reset pins: TRUE is '1', out of reset
    txEn,       \* the tx_en pin of the SFP ports: 0 while a module is in
    mon,        \* next step of the event monitor
    known,      \* SfpEvent.initialize has run
    modprs,     \* modprs_list, what has been reported of each port
    status,     \* port_status of the scan in progress
    cur,        \* the register, then the port, the scan has got to
    box,        \* reset_status read for port cur and not yet answered
    restarts,
    cpc,        \* next step of each caller of reset()
    port,       \* the port it resets, 0 when it is idle
    tries,      \* t, the unanswered reads of the mailbox
    regval,     \* reg_val of its pin write in progress, as port -> pin
    ok          \* history: the last reset() of the port returned True

hwVars     == <<plugged, rstn>>
monVars    == <<txEn, mon, known, modprs, status, cur, box, restarts>>
callerVars == <<cpc, port, tries, regval, ok>>
vars       == <<hwVars, resetList, monVars, callerVars>>

-----------------------------------------------------------------------------
(* Modules come and go.                                                    *)

Plug(p) ==
    /\ plugged' = [plugged EXCEPT ![p] = ~@]
    /\ UNCHANGED <<rstn, resetList, monVars, callerVars>>

-----------------------------------------------------------------------------
(* The event monitor: initialize and check_sfp_status, around the scan     *)
(* _get_transceiver_status.  All presence registers are read first, then   *)
(* the mailbox of each port found present.                                 *)

\* A poll of check_sfp_status, or the start of xcvrd and initialize.
ScanBegin ==
    /\ mon \in {"down", "rest"}
    /\ mon' = "presence" /\ cur' = 1
    /\ UNCHANGED <<hwVars, resetList, txEn, known, modprs, status, box, restarts,
                   callerVars>>

ReadPresence ==
    /\ mon = "presence"
    /\ status' = [p \in Ports |-> IF p \in Qsfp /\ Reg[p] = cur THEN plugged[p]
                                                               ELSE status[p]]
    /\ IF cur = NumRegs THEN mon' = "mailbox" /\ cur' = 1
                        ELSE mon' = mon /\ cur' = cur + 1
    /\ UNCHANGED <<hwVars, resetList, txEn, known, modprs, box, restarts, callerVars>>

ReadEmpty ==
    /\ mon = "mailbox" /\ cur \in Qsfp /\ ~status[cur]
    /\ cur' = cur + 1
    /\ UNCHANGED <<hwVars, resetList, txEn, mon, known, modprs, status, box, restarts,
                   callerVars>>

\* Mutant: a port still in reset counts as present.
ReadMailboxForgets ==
    /\ mon = "mailbox" /\ cur \in Qsfp /\ status[cur]
    /\ status' = [status EXCEPT ![cur] = resetList[cur] # 1]
    /\ IF resetList[cur] \in {1, 3}
         THEN box' = resetList[cur] /\ mon' = "ack" /\ cur' = cur
         ELSE UNCHANGED <<box, mon>> /\ cur' = cur + 1
    /\ UNCHANGED <<hwVars, resetList, txEn, known, modprs, restarts, callerVars>>

\* A port in reset counts as empty; 1 and 3 are answered.
ReadMailbox ==
    /\ mon = "mailbox" /\ cur \in Qsfp /\ status[cur]
    /\ status' = [status EXCEPT ![cur] = resetList[cur] \notin {1, 2}]
    /\ IF resetList[cur] \in {1, 3}
         THEN box' = resetList[cur] /\ mon' = "ack" /\ cur' = cur
         ELSE UNCHANGED <<box, mon>> /\ cur' = cur + 1
    /\ UNCHANGED <<hwVars, resetList, txEn, known, modprs, restarts, callerVars>>

\* Mutant: the answer is always the next number.
AnswerNext == box + 1

Answer == IF box = 1 THEN 2 ELSE 0

AnswerMailbox ==
    /\ mon = "ack"
    /\ resetList' = [resetList EXCEPT ![cur] = Answer]
    /\ mon' = "mailbox" /\ cur' = cur + 1 /\ box' = 0
    /\ UNCHANGED <<hwVars, txEn, known, modprs, status, restarts, callerVars>>

ReadSfp ==
    /\ mon = "mailbox" /\ cur \in Sfp
    /\ status' = [status EXCEPT ![cur] = plugged[cur]]
    /\ cur' = cur + 1
    /\ UNCHANGED <<hwVars, resetList, txEn, mon, known, modprs, box, restarts,
                   callerVars>>

\* Mutant: the polarity of the presence bit is forgotten at start.
TxAtInitInverted(p) == IF ~status[p] THEN 0 ELSE txEn[p]

\* initialize enables a transmitter whose module is there; check_sfp_status
\* follows every change.
TxAtInit(p)   == IF status[p] THEN 0 ELSE txEn[p]
TxOnChange(p) == CASE status[p] = modprs[p] -> txEn[p]
                   [] status[p]             -> 0
                   [] OTHER                 -> 1

\* Mutant: only insertions are remembered.
ReportInserted(p) == status[p] \/ modprs[p]

\* What modprs_list holds once the differences have been returned.
Report(p) == status[p]

ScanEnd ==
    /\ mon = "mailbox" /\ cur = NumPorts + 1
    /\ mon' = "rest" /\ cur' = 1 /\ known' = TRUE
    /\ modprs' = [p \in Ports |-> Report(p)]
    /\ txEn' = [p \in Sfp |-> IF known THEN TxOnChange(p) ELSE TxAtInit(p)]
    /\ status' = [p \in Ports |-> FALSE]                       \* a local, dead
    /\ UNCHANGED <<hwVars, resetList, box, restarts, callerVars>>

\* xcvrd dies and is started again: SfpEvent starts from nothing.
Restart ==
    /\ restarts < MaxRestarts /\ mon # "down"
    /\ restarts' = restarts + 1
    /\ mon' = "down" /\ known' = FALSE /\ cur' = 1 /\ box' = 0
    /\ modprs' = [p \in Ports |-> FALSE]
    /\ status' = [p \in Ports |-> FALSE]
    /\ UNCHANGED <<hwVars, resetList, txEn, callerVars>>

Scan == ReadPresence \/ ReadEmpty \/ ReadMailbox \/ AnswerMailbox \/ ReadSfp
Monitor == ScanBegin \/ Scan \/ ScanEnd

-----------------------------------------------------------------------------
(* Sfp.reset.                                                              *)

Go(c, from, to) == cpc[c] = from /\ cpc' = [cpc EXCEPT ![c] = to]

\* get_presence has seen a module.
ResetBegin(c, p) ==
    /\ plugged[p]
    /\ \A d \in Callers \ {c} : cpc[d] # "idle" => <<port[d], p>> \in Overlap
    /\ Go(c, "idle", "ask")
    /\ port' = [port EXCEPT ![c] = p]
    /\ ok' = [ok EXCEPT ![p] = FALSE]
    /\ UNCHANGED <<hwVars, resetList, monVars, tries, regval>>

Ask(c) ==
    /\ Go(c, "ask", "assertRead")
    /\ resetList' = [resetList EXCEPT ![port[c]] = 1]
    /\ UNCHANGED <<hwVars, monVars, port, tries, regval, ok>>

\* set_qsfp_rst reads the register of eight pins and writes it back with one
\* of them changed; each access takes update_lock, the pair does not.
PinRead(c) ==
    /\ \/ Go(c, "assertRead", "assertWrite")
       \/ Go(c, "releaseRead", "releaseWrite")
    /\ regval' = [regval EXCEPT ![c] = rstn]
    /\ UNCHANGED <<hwVars, resetList, monVars, port, tries, ok>>

PinWrite(c, v) ==
    [q \in Qsfp |-> CASE q = port[c]           -> v
                      [] Reg[q] # Reg[port[c]] -> rstn[q]
                      [] OTHER                 -> regval[c][q]]

NoRegval == [q \in Qsfp |-> TRUE]

Assert(c) ==
    /\ Go(c, "assertWrite", "wait")
    /\ rstn' = PinWrite(c, FALSE)
    /\ regval' = [regval EXCEPT ![c] = NoRegval]
    /\ UNCHANGED <<plugged, resetList, monVars, port, tries, ok>>

Answered(c) ==
    /\ Go(c, "wait", "releaseRead")
    /\ resetList[port[c]] = 2
    /\ tries' = [tries EXCEPT ![c] = 0]
    /\ UNCHANGED <<hwVars, resetList, monVars, port, regval, ok>>

NotAnswered(c) ==
    /\ cpc[c] = "wait" /\ resetList[port[c]] # 2
    /\ tries[c] + 1 < Tries
    /\ tries' = [tries EXCEPT ![c] = @ + 1]
    /\ UNCHANGED <<hwVars, resetList, monVars, cpc, port, regval, ok>>

\* "Reset port timeout, reset failed": returns with the pin still asserted.
GiveUp(c) ==
    /\ Go(c, "wait", "idle")
    /\ resetList[port[c]] # 2
    /\ tries[c] + 1 = Tries
    /\ port' = [port EXCEPT ![c] = 0]
    /\ tries' = [tries EXCEPT ![c] = 0]
    /\ UNCHANGED <<hwVars, resetList, monVars, regval, ok>>

Release(c) ==
    /\ Go(c, "releaseWrite", "done")
    /\ rstn' = PinWrite(c, TRUE)
    /\ regval' = [regval EXCEPT ![c] = NoRegval]
    /\ UNCHANGED <<plugged, resetList, monVars, port, tries, ok>>

\* Mutant: the mailbox is left as it is.
DoneForgotten(c) == UNCHANGED resetList

Done(c) == resetList' = [resetList EXCEPT ![port[c]] = 3]

Finish(c) ==
    /\ Go(c, "done", "idle")
    /\ Done(c)
    /\ port' = [port EXCEPT ![c] = 0]
    /\ ok' = [ok EXCEPT ![port[c]] = TRUE]
    /\ UNCHANGED <<hwVars, monVars, tries, regval>>

Reset(c) == \/ Ask(c) \/ PinRead(c) \/ Assert(c) \/ Answered(c)
            \/ NotAnswered(c) \/ GiveUp(c) \/ Release(c) \/ Finish(c)

-----------------------------------------------------------------------------
\* The CPLD driver has reset every module and cleared the mailbox; nothing
\* runs yet.
Init ==
    /\ plugged \in [Ports -> BOOLEAN]
    /\ resetList = [p \in Qsfp |-> 0]
    /\ rstn = [p \in Qsfp |-> TRUE]
    /\ txEn \in [Sfp -> {0, 1}]
    /\ mon = "down" /\ known = FALSE /\ cur = 1 /\ box = 0 /\ restarts = 0
    /\ modprs = [p \in Ports |-> FALSE]
    /\ status = [p \in Ports |-> FALSE]
    /\ cpc = [c \in Callers |-> "idle"]
    /\ port = [c \in Callers |-> 0]
    /\ tries = [c \in Callers |-> 0]
    /\ regval = [c \in Callers |-> NoRegval]
    /\ ok = [p \in Qsfp |-> FALSE]

Next ==
    \/ \E p \in Ports : Plug(p)
    \/ Monitor \/ Restart
    \/ \E c \in Callers : Reset(c) \/ \E p \in Qsfp : ResetBegin(c, p)

\* xcvrd keeps polling and is started again when it dies; reset() runs on.
Fairness == WF_vars(Monitor) /\ \A c \in Callers : WF_vars(Reset(c))

Spec == Init /\ [][Next]_vars /\ Fairness

-----------------------------------------------------------------------------
CallerPcs == {"idle", "ask", "assertRead", "assertWrite", "wait", "releaseRead",
              "releaseWrite", "done"}

TypeOK ==
    /\ plugged \in [Ports -> BOOLEAN]
    /\ resetList \in [Qsfp -> 0..3]
    /\ rstn \in [Qsfp -> BOOLEAN]
    /\ txEn \in [Sfp -> {0, 1}]
    /\ mon \in {"down", "presence", "mailbox", "ack", "rest"}
    /\ known \in BOOLEAN
    /\ modprs \in [Ports -> BOOLEAN]
    /\ status \in [Ports -> BOOLEAN]
    /\ cur \in Nat
    /\ mon = "presence" => cur \in 1..NumRegs
    /\ mon = "mailbox" => cur \in 1..(NumPorts + 1)
    /\ mon = "ack" => cur \in Qsfp
    /\ box \in {0, 1, 3} /\ (mon = "ack" <=> box # 0)
    /\ restarts \in 0..MaxRestarts
    /\ cpc \in [Callers -> CallerPcs]
    /\ port \in [Callers -> Qsfp \cup {0}]
    /\ \A c \in Callers : cpc[c] = "idle" <=> port[c] = 0
    /\ tries \in [Callers -> Nat]
    /\ regval \in [Callers -> [Qsfp -> BOOLEAN]]
    /\ ok \in [Qsfp -> BOOLEAN]

\* The scan in progress has got past port p.
Scanned(p) == (mon = "mailbox" /\ p < cur) \/ (mon = "ack" /\ p <= cur)

\* The monitor regards port p as empty, in its list or in the scan that is
\* about to replace it.
RegardedEmpty(p) == IF Scanned(p) THEN ~status[p] ELSE ~modprs[p]

\* A module leaves reset only while the monitor regards its port as empty,
\* so that its return is reported as an insertion and it is set up again
\* (sfp.py 197-198, sfp_event.py 68-78).
ReleasedOnlyWhenEmpty ==
    [][\A p \in Qsfp : ~rstn[p] /\ rstn'[p] => RegardedEmpty(p)]_vars

\* "A boolean, True if successful, False if not" (sfp.py 180): when reset()
\* returns True the module is out of reset.  It need not be, when a neighbour
\* whose pin is in the same register has read it before the release and
\* writes it back after (h4_32d_swpld2.c 316-320).
TrueMeansReleased == [][\A p \in Qsfp : ~ok[p] /\ ok'[p] => rstn'[p]]_vars

\* Port p has been reset successfully, is out of reset, and every neighbour
\* about to write the register has read it so.
Settled(p) ==
    /\ ok[p] /\ rstn[p]
    /\ \A c \in Callers :
         /\ port[c] # p
         /\ cpc[c] \in {"assertWrite", "releaseWrite"} /\ Reg[port[c]] = Reg[p]
              => regval[c][p]

\* Nothing else can undo a reset: once no write of a neighbour is under way
\* that began before the release, the module stays out of reset, whatever is
\* reset in its register, until its own next reset (sfp.py 191-212,
\* h4_32d_swpld2.c 316-320).
SettledStays == [][\A p \in Qsfp : Settled(p) => Settled(p)' \/ ~ok'[p]]_vars

\* Why ReleasedOnlyWhenEmpty holds, and TrueMeansReleased would, when no two
\* resets under way have their pins in one register: a mailbox that says 2
\* belongs to a port regarded as empty, the resetting caller alone can change
\* it from there, and a pin write puts back what the register still holds
\* (sfp.py 191-212, sfp_event.py 62-78, h4_32d_swpld2.c 316-320).
DistinctRegs == \A pr \in Overlap : Reg[pr[1]] # Reg[pr[2]]

HandshakeInv ==
    /\ \A p \in Qsfp : resetList[p] = 2 => RegardedEmpty(p)
    /\ mon = "ack" => (status[cur] <=> box = 3) /\ resetList[cur] # 2
    /\ \A c, d \in Callers : c # d /\ cpc[c] # "idle" /\ cpc[d] # "idle"
         => <<port[c], port[d]>> \in Overlap \/ <<port[d], port[c]>> \in Overlap
    /\ \A c \in Callers :
         /\ cpc[c] \in {"releaseRead", "releaseWrite"} => resetList[port[c]] = 2
         /\ cpc[c] \in {"assertWrite", "releaseWrite"}
              => \A q \in Qsfp : Reg[q] = Reg[port[c]] => regval[c][q] = rstn[q]
         /\ cpc[c] = "done" => rstn[port[c]]

\* A module that was reset successfully and stays in is reported inserted
\* again (sfp_event.py 75-78, 110-127).
ReinsertedAfterReset ==
    \A p \in Qsfp : ok[p] ~> (modprs[p] \/ ~plugged[p] \/ ~ok[p])

\* An empty cage does not stay reported as occupied, whatever the mailbox
\* holds and whichever reset runs (sfp_event.py 51-62, 110-127).
RemovalReported == \A p \in Ports : ~plugged[p] ~> (plugged[p] \/ ~modprs[p])

\* Transmitters of the SFP ports follow what has been reported, also over a
\* restart of the monitor (sfp_event.py 45-46, 119-123).
TxFollowsReport == \A p \in Sfp : modprs[p] => txEn[p] = 0

\* "this will return correct status of all SFP ports" (sfp_event.py 91-92):
\* a module that stays in while nobody resets it is reported inserted.  It
\* is not after a reset() that gave up: the late answer parks the mailbox.
PresenceReported ==
    \A p \in Qsfp :
        (plugged[p] /\ \A c \in Callers : port[c] # p)
            ~> (modprs[p] \/ ~plugged[p] \/ \E c \in Callers : port[c] = p)

=============================================================================
