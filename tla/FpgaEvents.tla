------------------------------ MODULE FpgaEvents ------------------------------
(***************************************************************************)
(* The EEPROM files of FpgaEeprom together with the process that watches   *)
(* for modules (ixr7220h4-64d/sonic_platform/sfp_event.py).  A file made   *)
(* while the port was empty has the size of a module without pages, so the *)
(* monitor binds the driver anew when it sees a module behind such a file; *)
(* if the file stays small it reports the module as absent and comes back  *)
(* to it in its next round.  Requests for a reset, which the same process  *)
(* serves, are the subject of SfpReset.                                    *)
(***************************************************************************)
EXTENDS FpgaEeprom

CONSTANT MaxKills   \* bound on restarts of the monitor's daemon

ASSUME KillsAssumption == MaxKills \in Nat

VARIABLES
    list,        \* modprs_list: what was reported last
    scan,        \* port_status: presence read in this round, then corrected
    mpc, todo,   \* the monitor's next step, and the ports it has not looked at
    kills

monVars == <<list, scan, mpc, todo, kills>>
allVars == <<vars, monVars>>

Next1(S) == CHOOSE p \in S : \A q \in S : p <= q

NoScan == [p \in Ports |-> FALSE]   \* between rounds, and before the first

InitEvents ==
    /\ Init
    /\ list = NoScan /\ scan = NoScan
    /\ mpc = "start" /\ todo = {} /\ kills = MaxKills

MonGo(to) == mpc' = to

\* A read of module_present_all (port_status_read): under update_lock, from the
\* driver's copy while that is young.
ReadAll ==
    /\ lock = Free
    /\ ReadStatus
    /\ UNCHANGED <<hwVars, fileVars, userVars, lock, stuck, faults, kills>>

MonStart ==
    /\ mpc = "start"
    /\ ReadAll
    /\ list' = Status
    /\ MonGo("poll")
    /\ UNCHANGED <<scan, todo>>

\* A round looks at the ports whose presence differs from the list.
MonScan ==
    /\ mpc = "poll"
    /\ ReadAll
    /\ IF Status = list THEN UNCHANGED <<scan, todo, mpc>>
       ELSE /\ scan' = Status
            /\ todo' = {p \in Ports : Status[p] # list[p]}
            /\ MonGo("port")
    /\ UNCHANGED list

\* Without its file, getsize raises and the daemon is started again.
Restarted == list' = NoScan /\ scan' = NoScan /\ MonGo("start") /\ todo' = {}
\* A mutant: the size is only judged.
NextForLazy(p) == "judge"
\* With a small file the driver is bound anew.
NextFor(p) == IF size[p] = Small THEN "unbind" ELSE "judge"
MonPort ==
    LET p == Next1(todo) IN
    /\ mpc = "port" /\ todo # {}
    /\ \/ /\ ~ scan[p]
          /\ todo' = todo \ {p}
          /\ UNCHANGED <<list, scan, mpc>>
       \/ /\ scan[p] /\ ~ bound[p]
          /\ Restarted
       \/ /\ scan[p] /\ bound[p]
          /\ MonGo(NextFor(p))
          /\ UNCHANGED <<list, scan, todo>>
    /\ UNCHANGED <<vars, kills>>

\* The file is closed to new calls at once; unbind then waits for those inside.
MonUnbind ==
    /\ mpc = "unbind"
    /\ bound' = [bound EXCEPT ![Next1(todo)] = FALSE]
    /\ MonGo("bind")
    /\ UNCHANGED <<hwVars, size, pageable, a2, userVars, cached, fresh, lock, stuck, faults,
                   list, scan, todo, kills>>

MonBind ==
    LET p == Next1(todo) IN
    /\ mpc = "bind"
    /\ \A u \in Users : pc[u] = "idle" \/ Port(u) # p
    /\ Probe(p)
    /\ MonGo("judge")
    /\ UNCHANGED <<list, scan, todo, kills>>

MonJudge ==
    LET p == Next1(todo) IN
    /\ mpc = "judge"
    /\ scan' = [scan EXCEPT ![p] = size[p] # Small]
    /\ todo' = todo \ {p}
    /\ MonGo("port")
    /\ UNCHANGED <<vars, list, kills>>

MonEnd ==
    /\ mpc = "port" /\ todo = {}
    /\ list' = scan
    /\ MonGo("poll")
    /\ scan' = NoScan
    /\ UNCHANGED <<vars, todo, kills>>

\* The daemon is killed at any point.
MonRestart ==
    /\ kills > 0 /\ kills' = kills - 1
    /\ Restarted
    /\ UNCHANGED vars

Monitor == MonStart \/ MonScan \/ MonPort \/ MonUnbind \/ MonBind \/ MonJudge \/ MonEnd
NextEvents == Monitor \/ MonRestart \/ (Next /\ UNCHANGED monVars)

\* Threads run and the mutex is handed over; time passes.
Work(u) == Select(u) \/ Transfer(u) \/ Leave(u)
Enter(u) == CheckPresence(u) \/ Lock(u)
FairUser(u) == /\ WF_allVars(Work(u) /\ UNCHANGED monVars)
               /\ SF_allVars(Enter(u) /\ UNCHANGED monVars)
SpecEvents ==
    /\ InitEvents /\ [][NextEvents]_allVars
    /\ \A u \in Users : FairUser(u)
    /\ WF_allVars(MonPort \/ MonUnbind \/ MonJudge \/ MonEnd)
    /\ SF_allVars(MonStart \/ MonScan \/ MonBind)
    /\ WF_allVars(Age /\ UNCHANGED monVars)

\* --- properties --------------------------------------------------------------------

TypeOKEvents ==
    /\ TypeOK
    /\ list \in [Ports -> BOOLEAN] /\ scan \in [Ports -> BOOLEAN]
    /\ mpc \in {"start", "poll", "port", "unbind", "bind", "judge"} /\ todo \subseteq Ports
    /\ mpc \in {"unbind", "bind", "judge"} => todo # {}

\* A module with pages that stays in its port is in the end reported, although
\* the monitor's own picture and the file may be made from presence that is half
\* a second old, reading the module's identification may fail, and the monitor may
\* be killed at any point.
PagedReported ==
    \A p \in Ports : <>[](mod[p] = "paged") => <>[]list[p]

\* The docstring of check_sfp_status: "this will return correct status of all
\* SFP ports".  A module without pages has a file of 256 bytes for good.
FlatReported ==
    \A p \in Ports : <>[](mod[p] = "flat") => <>[]list[p]
=============================================================================
