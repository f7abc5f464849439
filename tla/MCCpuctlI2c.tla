------------------------------ MODULE MCCpuctlI2c ------------------------------
(***************************************************************************)
(* A plain channel on bus 0, and two modules that share a bus.             *)
(***************************************************************************)
EXTENDS CpuctlI2c

MCChans  == {"plain", "qsfp0", "qsfp1"}
MCBus    == [c \in MCChans |-> CASE c = "plain" -> 0 [] c \in {"qsfp0", "qsfp1"} -> 9]
MCModsel == [c \in MCChans |-> CASE c = "plain" -> -1 [] c = "qsfp0" -> 0 [] c = "qsfp1" -> 1]
=============================================================================
