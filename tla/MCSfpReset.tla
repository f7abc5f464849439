----------------------------- MODULE MCSfpReset -----------------------------
EXTENDS SfpRecord

CONSTANTS c1, c2

\* Two QSFP ports with their pins in one register, reset at the same time;
\* one QSFP port next to an SFP port.
OneReg     == <<1, 1>>
AnyOther   == {<<1, 2>>, <<2, 1>>}
PortOne    == <<1>>
NoOverlap  == {}

=============================================================================
