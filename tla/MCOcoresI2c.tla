----------------------------- MODULE MCOcoresI2c -----------------------------
EXTENDS OcoresI2cRefinement, TLC

CONSTANTS p1, p33, p2

\* Ports 1 and 33 share register offset 0x2100 on different CPLDs; ports 1
\* and 2 share their CPLD.
MCMux    == (p1 :> 4) @@ (p33 :> 0) @@ (p2 :> 4)
MCOffset == (p1 :> 0) @@ (p33 :> 0) @@ (p2 :> 32)

Msg(rd, len, nostart) == [rd |-> rd, len |-> len, nostart |-> nostart]
\* The EEPROM access of the optics drivers, and a write with a NOSTART
\* continuation.
ReadReg  == <<Msg(FALSE, 1, FALSE), Msg(TRUE, 2, FALSE)>>
WriteTwo == <<Msg(FALSE, 1, FALSE), Msg(FALSE, 1, TRUE)>>
MCRequests == {ReadReg, WriteTwo}
OneRequest == {<<Msg(TRUE, 1, FALSE)>>}

=============================================================================
