------------------------------ MODULE SfpRecord ------------------------------
(***************************************************************************)
(* What the handshake of SfpReset is for, with one history variable: xcvrd *)
(* sets a module up when the monitor records it as inserted, and a reset   *)
(* undoes that.                                                            *)
(***************************************************************************)
EXTENDS SfpReset

VARIABLE anew   \* history: the port was recorded as occupied with its
                \* module out of reset, and the module has not been reset since

RecordVars == <<vars, anew>>

RecordInit == Init /\ anew = [p \in Qsfp |-> FALSE]

Inserted(p) == modprs'[p] /\ ~modprs[p]
RecordNext ==
    /\ Next
    /\ anew' = [p \in Qsfp |-> rstn'[p] /\ (anew[p] \/ Inserted(p))]

SpecRecord == RecordInit /\ [][RecordNext]_RecordVars /\ Fairness

\* A module on record as inserted and out of reset was recorded after it left
\* reset, or the scan under way has already found its port empty: no reset,
\* given up, repeated or caught by a restart of xcvrd, leaves a module that
\* works but was never set up again (sfp_event.py 62-78, 110-127, sfp.py
\* 191-212).
RecordedAnew == \A p \in Qsfp :
    modprs[p] /\ rstn[p] => anew[p] \/ RegardedEmpty(p)

=============================================================================
