-------------------------- MODULE I2cAtomicTransfer --------------------------
(***************************************************************************)
(* What the bus driver promises its clients: a transfer has the wire of    *)
(* its port to itself from its first START on, puts on it exactly the      *)
(* bytes of its messages in order, and reports success only when all of    *)
(* them, and the final STOP, went through.                                 *)
(***************************************************************************)
EXTENDS Naturals, Sequences, FiniteSets

CONSTANTS Adapters, Requests, None

VARIABLES
    owner,    \* the adapter whose transfer is on the wire
    request,  \* request of each adapter, <<>> between transfers
    sent,     \* what the owner's transfer has put on the wire
    read,     \* bytes it has given back: <<message, position, wire index>>
    result    \* "none", and at the end "ok" or "error"

vars == <<owner, request, sent, read, result>>

Op(k, m, p) == [kind |-> k, m |-> m, p |-> p]
Stop        == Op("stop", 0, 0)
Fail        == Op("fail", 0, 0)

-----------------------------------------------------------------------------
(* The script of a request: what a transfer without error puts on the      *)
(* wire.  Its places are <<m, 0>>, the START of message m (a NOSTART        *)
(* continuation has none), <<m, p>>, the p-th byte of m, and the STOP.     *)

First(r, m)  == IF m > 1 /\ r[m].nostart THEN 1 ELSE 0
End(r)       == <<Len(r) + 1, 0>>
Places(r)    == {End(r)} \cup UNION {{m} \X (First(r, m)..r[m].len) : m \in 1..Len(r)}
Before(e, f) == e[1] < f[1] \/ (e[1] = f[1] /\ e[2] < f[2])
Rank(r, e)   == Cardinality({f \in Places(r) : Before(f, e)})

IsRead(r, e) == e # End(r) /\ e[2] > 0 /\ r[e[1]].rd
EventAt(r, e) ==
    IF e = End(r) THEN Stop
    ELSE IF e[2] = 0 THEN Op("start", e[1], 0)
    ELSE IF ~IsRead(r, e) THEN Op("write", e[1], e[2] - 1)
    ELSE Op(IF e[2] = r[e[1]].len THEN "readnack" ELSE "read", 0, 0)

PlaceOf(r, n) == CHOOSE e \in Places(r) : Rank(r, e) = n - 1
Script(r)     == [n \in 1..Cardinality(Places(r)) |-> EventAt(r, PlaceOf(r, n))]

\* The bytes the first n events carry back, each with its wire index.
Reads(r, n) == {<<e[1], e[2] - 1, Rank(r, e) + 1>> :
                    e \in {f \in Places(r) : IsRead(r, f) /\ Rank(r, f) < n}}

-----------------------------------------------------------------------------
Init == /\ owner = None
        /\ request = [a \in Adapters |-> <<>>]
        /\ sent = <<>> /\ read = {} /\ result = "none"

Ask(a) == /\ request[a] = <<>>
          /\ \E r \in Requests : request' = [request EXCEPT ![a] = r]
          /\ UNCHANGED <<owner, sent, read, result>>

Acquire(a) == /\ owner = None /\ request[a] # <<>>
              /\ owner' = a
              /\ UNCHANGED <<request, sent, read, result>>

\* What is on the wire is the script so far, and something is left of it.
OnScript(r) == /\ Len(sent) < Len(Script(r))
               /\ \A n \in 1..Len(sent) : sent[n] = Script(r)[n]

\* The next event of the script goes through; after an error is settled the
\* byte in progress may still.
Transmit == /\ owner # None /\ result # "ok"
            /\ OnScript(request[owner])
            /\ sent' = Append(sent, Script(request[owner])[Len(sent) + 1])
            /\ UNCHANGED <<owner, request, read, result>>

\* It does not: no acknowledge, arbitration lost; then at most a STOP.
Break == /\ owner # None /\ result # "ok"
         /\ OnScript(request[owner])
         /\ sent' = Append(sent, Fail)
         /\ UNCHANGED <<owner, request, read, result>>

StopEarly == /\ owner # None
             /\ sent # <<>> /\ sent[Len(sent)] = Fail
             /\ sent' = Append(sent, Stop)
             /\ UNCHANGED <<owner, request, read, result>>

\* A byte read off the wire is stored at its place.
Store == /\ owner # None
         /\ \E b \in Reads(request[owner], Len(sent)) : read' = read \cup {b}
         /\ UNCHANGED <<owner, request, sent, result>>

\* Success is reported of a transfer that is complete, and only of one.
Complete(r) == sent = Script(r) /\ read = Reads(r, Len(sent))
Finish == /\ owner # None /\ result = "none"
          /\ \/ result' = "error"
             \/ result' = "ok" /\ Complete(request[owner])
          /\ UNCHANGED <<owner, request, sent, read>>

Return == /\ owner # None /\ result # "none"
          /\ owner' = None /\ result' = "none" /\ sent' = <<>> /\ read' = {}
          /\ request' = [request EXCEPT ![owner] = <<>>]

Next == \/ \E a \in Adapters : Ask(a) \/ Acquire(a)
        \/ Transmit \/ Break \/ StopEarly \/ Store \/ Finish \/ Return

Spec == Init /\ [][Next]_vars

=============================================================================
