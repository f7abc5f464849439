--------------------------- MODULE FpgaEventsProofs ---------------------------
(***************************************************************************)
(* For any number of ports, pages and processes, and for any number of     *)
(* failures: the EEPROM files of the IXR7220-H4-64D show the page that     *)
(* their offset stands for, and leave the page register at 0.  The proof   *)
(* follows the page register: while the lock is free it is 0; while a call *)
(* holds the lock, a register that is not 0 is one that this call will     *)
(* find reason to restore.                                                 *)
(***************************************************************************)
EXTENDS FpgaEvents, TLAPS

Jobs == [op : {"read", "write"}, port : Ports, slice : Nat, last : Nat]
Inside == {"select", "transfer", "leave"}   \* where a call holds the lock

TypeInv ==
    /\ mod \in [Ports -> {Empty, "flat", "plain", "ddm", "paged"}]
    /\ \A p \in Ports : mod[p] \in Kinds(p) \cup {Empty}
    /\ page \in [Ports -> Nat]
    /\ cached \in [Ports -> BOOLEAN] /\ fresh \in BOOLEAN
    /\ bound \in [Ports -> BOOLEAN] /\ size \in [Ports -> 2..4 + LastPage]
    /\ pageable \in [Ports -> BOOLEAN] /\ a2 \in [Ports -> BOOLEAN]
    /\ stuck \in [Ports -> BOOLEAN]
    /\ lock \in Users \cup {Free}
    /\ pc \in [Users -> {"idle", "check", "lock"} \cup Inside]
    /\ job \in [Users -> Jobs \cup {Idle}]
    /\ pg \in [Users -> Nat]
    /\ served = [v \in Users |-> served[v]]
    /\ replaced \in [Users -> BOOLEAN]

LockInv == \A u \in Users : pc[u] \in Inside <=> lock = u

\* A call stays inside its file, and a write has one slice.
JobInv == \A u \in Users :
    /\ job[u].slice \in 0..job[u].last
    /\ pc[u] # "idle" => job[u] \in Jobs /\ job[u].last < size[Port(u)]
    /\ job[u].op = "write" => job[u].slice = job[u].last

\* Files with pages belong to modules that had pages when they were made.
SizeInv == \A p \in Ports :
    /\ p \in Qsfps /\ size[p] > Small => pageable[p]
    /\ p \in Sfps /\ size[p] > 4 => pageable[p]

Noted(u) ==
    /\ job[u].op = "read" /\ pg[u] > 0 => pc[u] # "idle" /\ pageable[Port(u)]
    /\ job[u].op = "write" /\ pg[u] > 0 => pc[u] = "leave"
NotedInv == \A u \in Users : Noted(u)

OnlyPaged == \A p \in Ports : page[p] # 0 => mod[p] = "paged"

\* Why the holder of the lock will restore the register of its port.
Owes(u) ==
    \/ job[u].op = "read" /\ pg[u] > 0
    \/ job[u].op = "read" /\ pc[u] = "transfer" /\ Layout(Port(u), job[u].slice).page > 0
    \/ /\ job[u].op = "write" /\ Port(u) \in Qsfps
       /\ \/ pc[u] = "transfer" /\ job[u].slice > 1
          \/ pc[u] = "leave" /\ pg[u] > 0
RestInv == \A p \in Ports :
    page[p] = 0 \/ stuck[p] \/ \E u \in Users : lock = u /\ Port(u) = p /\ Owes(u)

\* A page is selected where the file needs it; below its first page a QSFP has
\* not been touched; a page just selected is there.
AtPage(u) ==
    /\ pc[u] = "select" => Selects(job[u].op, Port(u), job[u].slice)
    /\ pc[u] = "transfer" /\ Port(u) \in Qsfps /\ job[u].slice <= 1
          => page[Port(u)] = 0 \/ stuck[Port(u)]
    /\ LET t == Target(job[u].op, Port(u), job[u].slice) IN
       pc[u] = "transfer" /\ Selects(job[u].op, Port(u), job[u].slice)
          => \/ replaced[u] \/ stuck[Port(u)] \/ ~ Listens(Port(u), t.dev)
             \/ page[Port(u)] = t.page
SelectedInv == \A u \in Users : AtPage(u)

Served(u) == served[u] # NoCell =>
    /\ pc[u] \in Inside
    /\ \/ served[u].got = served[u].asked
       \/ replaced[u] \/ stuck[Port(u)]
       \/ Lacks(Port(u), served[u].asked) \/ WritesBehindA0(u)
ServedInv == \A u \in Users : Served(u)

PageInv == /\ TypeInv /\ LockInv /\ JobInv /\ SizeInv /\ NotedInv /\ OnlyPaged
           /\ RestInv /\ SelectedInv /\ ServedInv

-----------------------------------------------------------------------------
LEMMA LayoutPages ==
    ASSUME NEW p \in Ports, NEW s \in Nat
    PROVE  /\ Layout(p, s).page \in Nat
           /\ p \in Qsfps => Layout(p, s).dev = "A0"
           /\ p \in Qsfps /\ Layout(p, s).page > 0 => s > 1
           /\ p \in Qsfps /\ s > 1 => Layout(p, s) = Cell("A0", "upper", s - 1)
           /\ p \in Sfps /\ Layout(p, s).page > 0 => s > 3
           /\ p \in Sfps /\ s > 2 => Layout(p, s) = Cell("A2", "upper", s - 3)
           /\ s = 0 => Layout(p, s) = Cell("A0", "lower", 0)
           /\ s = 1 => Layout(p, s) = Cell("A0", "upper", 0)
           /\ p \in Sfps /\ s = 2 => Layout(p, s) = Cell("A2", "lower", 0)
BY FpgaAssumption DEF Layout, Cell, Ports

\* What probe finds out, and the size that goes with it.
LEMMA ProbedFits ==
    ASSUME NEW p \in Ports, NEW there \in BOOLEAN, NEW ok \in BOOLEAN,
           NEW pages \in BOOLEAN, NEW two \in BOOLEAN
    PROVE  LET new == Probed(p, there, ok, pages, two) IN
           /\ new.size \in 2..4 + LastPage
           /\ new.pageable \in BOOLEAN /\ new.a2 \in BOOLEAN
           /\ p \in Qsfps /\ new.size > Small => new.pageable
           /\ p \in Sfps /\ new.size > 4 => new.pageable
<1> DEFINE seen == there /\ ok
           newPages == IF seen THEN Pageable(mod[p]) ELSE pages
           newTwo == IF seen /\ p \in Sfps THEN HasA2(mod[p]) ELSE two
           new == Probed(p, there, ok, pages, two)
<1>1. new.pageable = newPages /\ new.a2 = newTwo
  BY DEF Probed
<1>2. newPages \in BOOLEAN /\ newTwo \in BOOLEAN
  <2>1. Pageable(mod[p]) \in BOOLEAN /\ HasA2(mod[p]) \in BOOLEAN
    BY DEF Pageable, HasA2
  <2>2. newPages \in BOOLEAN
    BY <2>1, Zenon
  <2>3. newTwo \in BOOLEAN
    BY <2>1, Zenon
  <2> QED BY <2>2, <2>3
<1>3. new.size = CASE ~ there -> Small
                   [] there /\ p \in Qsfps -> QsfpSize(ok /\ newPages)
                   [] there /\ p \in Sfps  -> SfpSize(newTwo, newPages)
  BY DEF Probed
<1> SUFFICES /\ new.size \in 2..4 + LastPage
             /\ new.pageable \in BOOLEAN /\ new.a2 \in BOOLEAN
             /\ p \in Qsfps /\ new.size > Small => new.pageable
             /\ p \in Sfps /\ new.size > 4 => new.pageable
  OBVIOUS
<1> HIDE DEF new, newPages, newTwo
<1>4. CASE ~ there
  BY <1>1, <1>2, <1>3, <1>4, FpgaAssumption DEF Small
<1>5. CASE there /\ p \in Qsfps
  BY <1>1, <1>2, <1>3, <1>5, FpgaAssumption DEF Small, QsfpSize
<1>6. CASE there /\ p \in Sfps
  BY <1>1, <1>2, <1>3, <1>6, FpgaAssumption DEF Small, SfpSize
<1> QED BY <1>4, <1>5, <1>6 DEF Ports

LEMMA Starts == ASSUME InitEvents PROVE PageInv
<1> USE FpgaAssumption DEF InitEvents, Init
<1>1. TypeInv
  <2>1. /\ mod \in [Ports -> {Empty, "flat", "plain", "ddm", "paged"}]
        /\ \A p \in Ports : mod[p] \in Kinds(p) \cup {Empty}
        /\ page \in [Ports -> Nat] /\ stuck \in [Ports -> BOOLEAN]
        /\ bound \in [Ports -> BOOLEAN] /\ fresh \in BOOLEAN
    OBVIOUS
  <2>2. cached \in [Ports -> BOOLEAN]
    BY DEF Present
  <2>3. \A p \in Ports : LET new == Probed(p, Present[p], TRUE, FALSE, FALSE) IN
           new.size \in 2..4 + LastPage /\ new.pageable \in BOOLEAN /\ new.a2 \in BOOLEAN
    BY ProbedFits DEF Present
  <2>4. /\ size \in [Ports -> 2..4 + LastPage]
        /\ pageable \in [Ports -> BOOLEAN] /\ a2 \in [Ports -> BOOLEAN]
    BY <2>3
  <2>5. /\ lock \in Users \cup {Free}
        /\ pc \in [Users -> {"idle", "check", "lock"} \cup Inside]
        /\ job \in [Users -> Jobs \cup {Idle}] /\ pg \in [Users -> Nat]
        /\ served = [v \in Users |-> served[v]] /\ replaced \in [Users -> BOOLEAN]
    OBVIOUS
  <2> QED BY <2>1, <2>2, <2>4, <2>5 DEF TypeInv
<1>2. LockInv /\ SelectedInv /\ ServedInv /\ RestInv /\ OnlyPaged
  BY DEF LockInv, SelectedInv, AtPage, ServedInv, Served, RestInv, OnlyPaged, Inside, NoCell
<1>3. JobInv /\ NotedInv
  BY DEF JobInv, NotedInv, Noted, Idle
<1>4. SizeInv
  BY ProbedFits DEF SizeInv, Present, Ports
<1> QED BY <1>1, <1>2, <1>3, <1>4 DEF PageInv

LEMMA CallKeeps ==
    ASSUME PageInv, NEW u \in Users, Call(u)
    PROVE  PageInv'
<1> USE FpgaAssumption DEF PageInv
<1>1. PICK op \in {"read", "write"}, p \in Ports, s \in Nat, l \in Nat :
         /\ bound[p] /\ s <= l /\ l < size[p] /\ (op = "write" => s = l)
         /\ job' = [job EXCEPT ![u] = [op |-> op, port |-> p, slice |-> s, last |-> l]]
  <2>1. PICK op \in {"read", "write"}, p \in {p \in Ports : bound[p]} :
          \E s \in 0..size[p] - 1, l \in 0..size[p] - 1 :
             /\ s <= l /\ (op = "write" => s = l)
             /\ job' = [job EXCEPT ![u] = [op |-> op, port |-> p, slice |-> s, last |-> l]]
    BY DEF Call
  <2>2. PICK s \in 0..size[p] - 1, l \in 0..size[p] - 1 :
             /\ s <= l /\ (op = "write" => s = l)
             /\ job' = [job EXCEPT ![u] = [op |-> op, port |-> p, slice |-> s, last |-> l]]
    BY <2>1
  <2>3. p \in Ports /\ bound[p] /\ size[p] \in Nat
    BY <2>1 DEF TypeInv
  <2>4. s \in Nat /\ l \in Nat /\ l < size[p]
    BY <2>2, <2>3
  <2> QED BY <2>1, <2>2, <2>3, <2>4
<1> DEFINE j == [op |-> op, port |-> p, slice |-> s, last |-> l]
<1>2. /\ pc[u] = "idle" /\ pc' = [pc EXCEPT ![u] = "check"]
      /\ UNCHANGED <<mod, page, size, pageable, a2, bound, cached, fresh, lock, stuck, pg,
                     served, replaced>>
  BY DEF Call, Go, hwVars, fileVars
<1>3. job'[u] = j /\ j \in Jobs /\ pc'[u] = "check"
  BY <1>1, <1>2 DEF TypeInv, Jobs
<1>4. \A v \in Users \ {u} : job'[v] = job[v] /\ pc'[v] = pc[v]
  BY <1>1, <1>2 DEF TypeInv
<1>5. lock # u /\ pg[u] = 0 /\ served[u] = NoCell
  <2>1. lock # u
    BY <1>2 DEF LockInv, Inside
  <2>2. served[u] = NoCell
    BY <1>2 DEF ServedInv, Served, Inside
  <2>3. pg[u] = 0
    BY <1>2 DEF NotedInv, Noted, TypeInv, Jobs, Idle
  <2> QED BY <2>1, <2>2, <2>3
<1>6. TypeInv'
  BY <1>1, <1>2, <1>3 DEF TypeInv
<1>7. LockInv'
  BY <1>2, <1>3, <1>4, <1>5 DEF LockInv, Inside
<1>8. JobInv'
  BY <1>1, <1>2, <1>3, <1>4 DEF JobInv, Port
<1>9. SizeInv' /\ OnlyPaged'
  BY <1>2 DEF SizeInv, OnlyPaged
<1>10. NotedInv'
  BY <1>2, <1>3, <1>4, <1>5 DEF NotedInv, Noted, Port
<1>11. RestInv'
  <2> SUFFICES ASSUME NEW q \in Ports, page'[q] # 0, ~ stuck'[q]
               PROVE  \E v \in Users : lock' = v /\ Port(v)' = q /\ Owes(v)'
    BY DEF RestInv
  <2>1. PICK v \in Users : lock = v /\ Port(v) = q /\ Owes(v)
    BY <1>2 DEF RestInv
  <2>2. v # u
    BY <1>5, <2>1
  <2> QED BY <1>2, <1>4, <2>1, <2>2 DEF Port, Owes
<1>12. SelectedInv'
  BY <1>2, <1>3, <1>4 DEF SelectedInv, AtPage, Port, Listens
<1>13. ServedInv'
  BY <1>2, <1>3, <1>4, <1>5 DEF ServedInv, Served, Port, Inside, Lacks, WritesBehindA0
<1> QED BY <1>6, <1>7, <1>8, <1>9, <1>10, <1>11, <1>12, <1>13

\* What returning from a call does to the caller's locals.
LEMMA Returned ==
    ASSUME TypeInv, NEW u \in Users, Return(u)
    PROVE  /\ pc' \in [Users -> {"idle", "check", "lock"} \cup Inside]
           /\ job' \in [Users -> Jobs \cup {Idle}] /\ pg' \in [Users -> Nat]
           /\ served' = [v \in Users |-> served'[v]] /\ replaced' \in [Users -> BOOLEAN]
           /\ pc'[u] = "idle" /\ job'[u] = Idle /\ pg'[u] = 0 /\ served'[u] = NoCell
           /\ \A v \in Users \ {u} : /\ pc'[v] = pc[v] /\ job'[v] = job[v] /\ pg'[v] = pg[v]
                                    /\ served'[v] = served[v] /\ replaced'[v] = replaced[v]
BY DEF TypeInv, Return, Go

\* A call that ends without having the lock.
LEMMA TurnedAwayKeeps ==
    ASSUME PageInv, NEW u \in Users, pc[u] = "check", Return(u),
           UNCHANGED <<mod, page, size, pageable, a2, bound, lock, stuck>>,
           cached' \in [Ports -> BOOLEAN], fresh' \in BOOLEAN
    PROVE  PageInv'
<1> USE DEF PageInv
<1>1. /\ pc' \in [Users -> {"idle", "check", "lock"} \cup Inside]
      /\ job' \in [Users -> Jobs \cup {Idle}] /\ pg' \in [Users -> Nat]
      /\ served' = [v \in Users |-> served'[v]] /\ replaced' \in [Users -> BOOLEAN]
      /\ pc'[u] = "idle" /\ job'[u] = Idle /\ pg'[u] = 0 /\ served'[u] = NoCell
  BY Returned
<1>2. \A v \in Users \ {u} : /\ pc'[v] = pc[v] /\ job'[v] = job[v] /\ pg'[v] = pg[v]
                            /\ served'[v] = served[v] /\ replaced'[v] = replaced[v]
  BY Returned
<1>3. lock # u
  BY DEF LockInv, Inside
<1>4. TypeInv'
  BY <1>1 DEF TypeInv
<1>5. LockInv' /\ SizeInv' /\ OnlyPaged'
  BY <1>1, <1>2, <1>3 DEF LockInv, SizeInv, OnlyPaged, Inside
<1>6. JobInv' /\ NotedInv'
  BY <1>1, <1>2 DEF JobInv, NotedInv, Noted, Port, Idle
<1>7. RestInv'
  <2> SUFFICES ASSUME NEW q \in Ports, page'[q] # 0, ~ stuck'[q]
               PROVE  \E v \in Users : lock' = v /\ Port(v)' = q /\ Owes(v)'
    BY DEF RestInv
  <2>1. PICK v \in Users : lock = v /\ Port(v) = q /\ Owes(v)
    BY DEF RestInv
  <2> QED BY <1>2, <1>3, <2>1 DEF Port, Owes
<1>8. SelectedInv'
  BY <1>1, <1>2 DEF SelectedInv, AtPage, Port, Listens
<1>9. ServedInv'
  BY <1>1, <1>2 DEF ServedInv, Served, Port, Inside, Lacks, WritesBehindA0
<1> QED BY <1>4, <1>5, <1>6, <1>7, <1>8, <1>9

LEMMA CheckPresenceKeeps ==
    ASSUME PageInv, NEW u \in Users, CheckPresence(u)
    PROVE  PageInv'
<1>1. cached' \in [Ports -> BOOLEAN] /\ fresh' \in BOOLEAN
  BY DEF CheckPresence, ReadStatus, Status, Present, PageInv, TypeInv
<1>2. UNCHANGED <<mod, page, size, pageable, a2, bound, lock, stuck>> /\ pc[u] = "check"
  BY DEF CheckPresence, hwVars, fileVars
<1>3. CASE Return(u)
  BY <1>1, <1>2, <1>3, TurnedAwayKeeps
<1>4. CASE Go(u, "lock") /\ UNCHANGED <<job, pg, served, replaced>>
  <2> USE DEF PageInv
  <2>1. /\ pc'[u] = "lock" /\ \A v \in Users \ {u} : pc'[v] = pc[v]
        /\ pc' \in [Users -> {"idle", "check", "lock"} \cup Inside]
    BY <1>4 DEF Go, TypeInv
  <2>2. TypeInv' /\ LockInv' /\ SizeInv' /\ OnlyPaged'
    BY <1>1, <1>2, <1>4, <2>1 DEF TypeInv, LockInv, SizeInv, OnlyPaged, Inside
  <2>3. JobInv' /\ NotedInv'
    BY <1>2, <1>4, <2>1 DEF JobInv, NotedInv, Noted, Port
  <2>4. RestInv'
    BY <1>2, <1>4, <2>1 DEF RestInv, Port, Owes
  <2>5. SelectedInv'
    BY <1>2, <1>4, <2>1 DEF SelectedInv, AtPage, Port, Listens
  <2>6. ServedInv'
    BY <1>2, <1>4, <2>1 DEF ServedInv, Served, Port, Inside, Lacks, WritesBehindA0
  <2> QED BY <2>2, <2>3, <2>4, <2>5, <2>6
<1> QED BY <1>3, <1>4 DEF CheckPresence

LEMMA LockKeeps ==
    ASSUME PageInv, NEW u \in Users, Lock(u)
    PROVE  PageInv'
<1> USE FpgaAssumption DEF PageInv
<1>1. /\ pc[u] = "lock" /\ lock = Free /\ lock' = u
      /\ UNCHANGED <<mod, page, size, pageable, a2, bound, cached, fresh, stuck, job, pg,
                     served, replaced>>
      /\ pc' = [pc EXCEPT ![u] = Step(job[u].op, Port(u), job[u].slice)]
  BY DEF Lock, Go, hwVars, fileVars
<1>2. /\ pc'[u] = Step(job[u].op, Port(u), job[u].slice)
      /\ pc'[u] \in {"select", "transfer"}
      /\ \A v \in Users \ {u} : pc'[v] = pc[v]
  BY <1>1 DEF TypeInv, Step
<1>3. TypeInv'
  BY <1>1, <1>2 DEF TypeInv, Inside
<1>4. \A v \in Users : pc[v] \notin Inside
  BY <1>1 DEF LockInv
<1>5. LockInv' /\ SizeInv' /\ OnlyPaged'
  BY <1>1, <1>2, <1>4 DEF LockInv, SizeInv, OnlyPaged, Inside
<1>6. JobInv' /\ NotedInv'
  BY <1>1, <1>2 DEF JobInv, NotedInv, Noted, Port
<1>7. \A p \in Ports : page[p] = 0 \/ stuck[p]
  BY <1>1 DEF RestInv
<1>8. RestInv'
  BY <1>1, <1>7 DEF RestInv
<1>9. SelectedInv'
  <2> SUFFICES ASSUME NEW v \in Users
               PROVE  AtPage(v)'
    BY DEF SelectedInv
  <2>1. CASE v # u
    BY <1>2, <1>4, <2>1 DEF AtPage, Inside
  <2>2. CASE v = u
    <3>1. Port(u) \in Ports
      BY <1>1 DEF JobInv, Jobs, Port
    <3> QED BY <1>1, <1>2, <1>7, <2>2, <3>1 DEF AtPage, Step, Port
  <2> QED BY <2>1, <2>2
<1>10. ServedInv'
  BY <1>1, <1>2 DEF ServedInv, Served, Port, Inside, Lacks, WritesBehindA0
<1> QED BY <1>3, <1>5, <1>6, <1>8, <1>9, <1>10

-----------------------------------------------------------------------------
\* The holder of the lock sees the other users outside the file.
LEMMA HolderAlone ==
    ASSUME LockInv, NEW u \in Users, pc[u] \in Inside
    PROVE  lock = u /\ u # Free /\ \A v \in Users \ {u} : pc[v] \notin Inside
BY FpgaAssumption DEF LockInv

\* A port other than the holder's is at rest.
LEMMA OthersAtRest ==
    ASSUME RestInv, NEW u \in Users, lock = u, NEW q \in Ports, q # Port(u)
    PROVE  page[q] = 0 \/ stuck[q]
BY DEF RestInv

\* The holder of the lock returns: what remains to be shown is that its port is
\* at rest.
LEMMA LeavingKeeps ==
    ASSUME PageInv, NEW u \in Users, pc[u] \in Inside, Return(u), lock' = Free,
           UNCHANGED <<mod, size, pageable, a2, bound, cached, fresh>>,
           page' \in [Ports -> Nat], stuck' \in [Ports -> BOOLEAN],
           \A q \in Ports \ {Port(u)} : page'[q] = page[q] /\ stuck'[q] = stuck[q],
           \A q \in Ports : page'[q] # 0 => mod[q] = "paged",
           page'[Port(u)] = 0 \/ stuck'[Port(u)]
    PROVE  PageInv'
<1> USE DEF PageInv
<1>1. /\ pc' \in [Users -> {"idle", "check", "lock"} \cup Inside]
      /\ job' \in [Users -> Jobs \cup {Idle}] /\ pg' \in [Users -> Nat]
      /\ served' = [v \in Users |-> served'[v]] /\ replaced' \in [Users -> BOOLEAN]
      /\ pc'[u] = "idle" /\ job'[u] = Idle /\ pg'[u] = 0 /\ served'[u] = NoCell
  BY Returned
<1>2. \A v \in Users \ {u} : /\ pc'[v] = pc[v] /\ job'[v] = job[v] /\ pg'[v] = pg[v]
                            /\ served'[v] = served[v] /\ replaced'[v] = replaced[v]
  BY Returned
<1>3. lock = u /\ u # Free /\ \A v \in Users \ {u} : pc[v] \notin Inside
  BY HolderAlone
<1>4. \A v \in Users : pc'[v] \notin Inside
  BY <1>1, <1>2, <1>3 DEF Inside
<1>5. TypeInv'
  BY <1>1 DEF TypeInv
<1>6. LockInv' /\ SizeInv' /\ OnlyPaged'
  BY <1>4, FpgaAssumption DEF LockInv, SizeInv, OnlyPaged
<1>7. JobInv' /\ NotedInv'
  BY <1>1, <1>2 DEF JobInv, NotedInv, Noted, Port, Idle
<1>8. RestInv'
  BY <1>3, OthersAtRest DEF RestInv
<1>9. SelectedInv'
  BY <1>4 DEF SelectedInv, AtPage, Inside
<1>10. ServedInv'
  <2>1. \A v \in Users \ {u} : served[v] = NoCell
    BY <1>3 DEF ServedInv, Served
  <2> QED BY <1>1, <1>2, <2>1 DEF ServedInv, Served
<1> QED BY <1>5, <1>6, <1>7, <1>8, <1>9, <1>10

\* The holder of the lock goes on: what remains to be shown is about itself.
LEMMA StayingKeeps ==
    ASSUME PageInv, NEW u \in Users, pc[u] \in Inside,
           pc'[u] \in Inside, pc' = [pc EXCEPT ![u] = pc'[u]],
           UNCHANGED <<mod, size, pageable, a2, bound, cached, fresh, lock, replaced>>,
           page' \in [Ports -> Nat], stuck' \in [Ports -> BOOLEAN],
           \A q \in Ports \ {Port(u)} : page'[q] = page[q] /\ stuck'[q] = stuck[q],
           \A q \in Ports : page'[q] # 0 => mod[q] = "paged",
           job'[u].slice \in 0..job[u].last,
           job[u].op = "write" => job'[u].slice = job[u].last,
           job' = [job EXCEPT ![u].slice = job'[u].slice],
           pg'[u] \in Nat, pg' = [pg EXCEPT ![u] = pg'[u]],
           served' = [served EXCEPT ![u] = served'[u]],
           page'[Port(u)] = 0 \/ stuck'[Port(u)] \/ Owes(u)',
           Noted(u)', AtPage(u)', Served(u)'
    PROVE  PageInv'
<1> DEFINE s == job'[u].slice
<1> USE DEF PageInv
<1> HIDE DEF s
<1>1. lock = u /\ u # Free /\ \A v \in Users \ {u} : pc[v] \notin Inside
  BY HolderAlone
<1>2. job[u] \in Jobs
  BY DEF JobInv, Inside
<1>3. /\ job' = [job EXCEPT ![u] = [job[u] EXCEPT !.slice = s]]
      /\ [job[u] EXCEPT !.slice = s] \in Jobs
  BY <1>2 DEF Jobs, s
<1>4. \A v \in Users \ {u} : /\ pc'[v] = pc[v] /\ job'[v] = job[v] /\ pg'[v] = pg[v]
                            /\ served'[v] = served[v] /\ replaced'[v] = replaced[v]
  BY DEF TypeInv
<1>5. job'[u] = [job[u] EXCEPT !.slice = s] /\ Port(u)' = Port(u)
  BY <1>2, <1>3 DEF TypeInv, Port, Jobs
<1>6. TypeInv'
  BY <1>3 DEF TypeInv
<1>7. LockInv' /\ SizeInv' /\ OnlyPaged'
  BY <1>1, <1>4, <1>5 DEF LockInv, SizeInv, OnlyPaged
<1>8. JobInv'
  <2>1. job'[u].op = job[u].op /\ job'[u].last = job[u].last /\ job'[u].slice = s
    BY <1>2, <1>5 DEF Jobs
  <2> QED BY <1>2, <1>3, <1>4, <1>5, <2>1 DEF JobInv, Port, Inside, s
<1>9. NotedInv'
  BY <1>4 DEF NotedInv, Noted, Port
<1>10. RestInv'
  BY <1>1, <1>5, OthersAtRest DEF RestInv
<1>11. SelectedInv'
  BY <1>1, <1>4 DEF SelectedInv, AtPage, Inside
<1>12. ServedInv'
  <2>1. \A v \in Users \ {u} : served[v] = NoCell
    BY <1>1 DEF ServedInv, Served
  <2> QED BY <1>4, <2>1 DEF ServedInv, Served
<1> QED BY <1>6, <1>7, <1>8, <1>9, <1>10, <1>11, <1>12

LEMMA NoSlice == ASSUME TypeInv, JobInv, NEW u \in Users
                 PROVE  job = [job EXCEPT ![u].slice = job[u].slice]
<1>1. job[u] = [job[u] EXCEPT !.slice = @]
  BY DEF TypeInv, Jobs, Idle
<1> QED BY <1>1 DEF TypeInv

\* A failed transfer: the register of the port may be anything.
LEMMA ErrorKeeps ==
    ASSUME PageInv, NEW u \in Users, pc[u] \in Inside, AfterError(u),
           UNCHANGED <<mod, size, pageable, a2, bound, cached, fresh>>,
           page' \in [Ports -> Nat],
           \A q \in Ports \ {Port(u)} : page'[q] = page[q],
           \A q \in Ports : page'[q] # 0 => mod[q] = "paged",
           stuck' = [stuck EXCEPT ![Port(u)] = TRUE]
    PROVE  PageInv'
<1> USE DEF PageInv
<1>1. job[u] \in Jobs /\ Port(u) \in Ports
  BY DEF JobInv, Inside, Jobs, Port
<1>2. /\ stuck' \in [Ports -> BOOLEAN] /\ stuck'[Port(u)]
      /\ \A q \in Ports \ {Port(u)} : stuck'[q] = stuck[q]
  BY <1>1 DEF TypeInv
<1>3. CASE job[u].op = "write"
  BY <1>1, <1>2, <1>3, LeavingKeeps DEF AfterError
<1>4. CASE job[u].op = "read"
  <2>1. pc' = [pc EXCEPT ![u] = "leave"] /\ UNCHANGED <<lock, job, pg, served, replaced>>
    BY <1>4 DEF AfterError, Go
  <2>2. pc'[u] = "leave" /\ pc'[u] \in Inside /\ pc' = [pc EXCEPT ![u] = pc'[u]]
    BY <2>1 DEF TypeInv, Inside
  <2>3. /\ job' = [job EXCEPT ![u].slice = job'[u].slice]
        /\ job'[u].slice \in 0..job[u].last
    BY <2>1, NoSlice DEF JobInv
  <2>4. /\ pg'[u] \in Nat /\ pg' = [pg EXCEPT ![u] = pg'[u]]
        /\ served' = [served EXCEPT ![u] = served'[u]]
    BY <2>1 DEF TypeInv
  <2>5. Noted(u)' /\ AtPage(u)'
    BY <1>4, <2>1, <2>2 DEF NotedInv, Noted, AtPage, Inside, Port
  <2>6. Served(u)' 
    BY <1>2, <2>1, <2>2 DEF Served, Inside, Port
  <2> QED BY <1>2, <1>4, <2>1, <2>2, <2>3, <2>4, <2>5, <2>6, StayingKeeps
<1> QED BY <1>1, <1>3, <1>4 DEF Jobs

\* Setting the page register, or failing to.
LEMMA PageIsSet ==
    ASSUME TypeInv, OnlyPaged, NEW p \in Ports, NEW dev, NEW n \in Nat, NEW ok \in BOOLEAN,
           SetPage(p, dev, n, ok)
    PROVE  /\ page' \in [Ports -> Nat]
           /\ \A q \in Ports \ {p} : page'[q] = page[q]
           /\ \A q \in Ports : page'[q] # 0 => mod[q] = "paged"
           /\ ok /\ Listens(p, dev) => page'[p] = n
           /\ ~ Listens(p, dev) => page'[p] = page[p]
<1>1. PageSet(p, dev, n) \/ (~ ok /\ page' = page)
  BY DEF SetPage
<1>2. PageSet(p, dev, n) => page' = page \/ (Listens(p, dev) /\ page' = [page EXCEPT ![p] = n])
  BY DEF PageSet
<1>3. PageSet(p, dev, n) /\ Listens(p, dev) => page' = [page EXCEPT ![p] = n]
  BY DEF PageSet
<1>4. Listens(p, dev) => mod[p] = "paged"
  BY DEF Listens
<1> QED BY <1>1, <1>2, <1>3, <1>4 DEF TypeInv, OnlyPaged

LEMMA SelectKeeps ==
    ASSUME PageInv, NEW u \in Users, Select(u)
    PROVE  PageInv'
<1> DEFINE p == Port(u)
           t == Target(job[u].op, p, job[u].slice)
<1> USE FpgaAssumption DEF PageInv
<1>1. pc[u] = "select" /\ UNCHANGED <<mod, size, pageable, a2, bound, cached, fresh>>
  BY DEF Select, fileVars
<1>2. PICK ok \in BOOLEAN :
         /\ SetPage(p, t.dev, t.page, ok)
         /\ IF ok THEN Go(u, "transfer") /\ UNCHANGED <<lock, job, pg, served, replaced>>
            ELSE AfterError(u)
         /\ stuck' = [stuck EXCEPT ![p] = @ \/ ~ ok]
  BY DEF Select
<1>3. job[u] \in Jobs /\ p \in Ports /\ job[u].slice \in Nat /\ job[u].op \in {"read", "write"}
  BY <1>1 DEF JobInv, Jobs, Port
<1>4. Selects(job[u].op, p, job[u].slice) /\ job[u].slice > 1
  BY <1>1 DEF SelectedInv, AtPage, Selects
<1>5. t.page \in Nat
  <2>1. Layout(p, job[u].slice).page \in Nat
    BY <1>3, LayoutPages
  <2> QED BY <1>3, <1>4, <2>1 DEF Target, Cell
<1> HIDE DEF p
<1>6. /\ page' \in [Ports -> Nat]
      /\ \A q \in Ports \ {p} : page'[q] = page[q]
      /\ \A q \in Ports : page'[q] # 0 => mod[q] = "paged"
      /\ ok /\ Listens(p, t.dev) => page'[p] = t.page
      /\ ~ Listens(p, t.dev) => page'[p] = page[p]
  <2> HIDE DEF t
  <2> QED BY <1>2, <1>3, <1>5, PageIsSet
<1>7. CASE ~ ok
  <2>1. stuck' = [stuck EXCEPT ![p] = TRUE]
    BY <1>2, <1>7
  <2> QED BY <1>1, <1>2, <1>6, <1>7, <2>1, ErrorKeeps DEF p, Inside
<1>8. CASE ok
  <2>1. pc' = [pc EXCEPT ![u] = "transfer"] /\ UNCHANGED <<lock, job, pg, served, replaced>>
    BY <1>2, <1>8 DEF Go
  <2>2. pc'[u] = "transfer" /\ pc'[u] \in Inside /\ pc' = [pc EXCEPT ![u] = pc'[u]]
    BY <2>1 DEF TypeInv, Inside
  <2>3. stuck' = stuck
    BY <1>2, <1>8 DEF TypeInv
  <2>4. /\ job' = [job EXCEPT ![u].slice = job'[u].slice]
        /\ job'[u].slice \in 0..job[u].last
        /\ job[u].op = "write" => job'[u].slice = job[u].last
    BY <2>1, NoSlice DEF JobInv
  <2>5. /\ pg'[u] \in Nat /\ pg' = [pg EXCEPT ![u] = pg'[u]]
        /\ served' = [served EXCEPT ![u] = served'[u]]
    BY <2>1 DEF TypeInv
  <2>6. Noted(u)'
    BY <1>1, <2>1, <2>2 DEF NotedInv, Noted, Port
  <2>7. AtPage(u)'
    <3>1. p' = p /\ t' = t
      BY <2>1 DEF p, Port, Target, Layout
    <3>2. Listens(p, t.dev)' <=> Listens(p, t.dev)
      BY <1>1, <3>1 DEF Listens, PagingDev
    <3>3. ~ (job'[u].slice <= 1)
      BY <1>3, <1>4, <2>1
    <3> QED BY <1>6, <1>8, <2>2, <3>1, <3>2, <3>3, <2>1 DEF AtPage, p
  <2>8. Served(u)'
    BY <1>1, <2>1, <2>2, <2>3 DEF ServedInv, Served, Port, Lacks, WritesBehindA0
  <2>9. page'[p] = 0 \/ stuck'[p] \/ Owes(u)'
    <3> SUFFICES ASSUME page'[p] # 0, ~ stuck[p] PROVE Owes(u)'
      BY <2>3
    <3>1. p' = p /\ Layout(p, job[u].slice)' = Layout(p, job[u].slice)
      BY <2>1 DEF p, Port, Layout
    <3>2. CASE ~ Listens(p, t.dev)
      <4>1. page[p] # 0
        BY <1>6, <3>2
      <4>2. lock = u
        BY <1>1, HolderAlone DEF Inside
      <4>3. Owes(u)
        BY <1>3, <4>1, <4>2 DEF RestInv, p
      <4> QED BY <1>1, <2>1, <4>3 DEF Owes
    <3>3. CASE Listens(p, t.dev) /\ job[u].op = "read"
      <4>1. t.page > 0 /\ t.page = Layout(p, job[u].slice).page
        BY <1>5, <1>6, <1>8, <3>3 DEF Target
      <4> QED BY <2>1, <2>2, <3>1, <3>3, <4>1 DEF Owes, p
    <3>4. CASE Listens(p, t.dev) /\ job[u].op = "write"
      <4>1. t.dev = "A0"
        BY <1>4, <3>4 DEF Target, Cell
      <4>2. p \in Qsfps
        BY <3>4, <4>1 DEF Listens, PagingDev
      <4> QED BY <1>4, <2>1, <2>2, <3>1, <3>4, <4>2 DEF Owes, p
    <3> QED BY <1>3, <3>2, <3>3, <3>4
  <2> QED BY <1>1, <1>6, <2>1, <2>2, <2>3, <2>4, <2>5, <2>6, <2>7, <2>8, <2>9, StayingKeeps
          DEF p, Inside, TypeInv
<1> QED BY <1>7, <1>8

LEMMA LeaveKeeps ==
    ASSUME PageInv, NEW u \in Users, Leave(u)
    PROVE  PageInv'
<1> DEFINE p == Port(u)
           dev == IF job[u].op = "write" THEN "A0" ELSE PagingDev(p)
<1> USE FpgaAssumption DEF PageInv
<1>1. /\ pc[u] = "leave" /\ pc[u] \in Inside /\ Return(u) /\ lock' = Free
      /\ UNCHANGED <<mod, size, pageable, a2, bound, cached, fresh>>
  BY DEF Leave, fileVars, Inside
<1>2. job[u] \in Jobs /\ p \in Ports
  BY <1>1 DEF JobInv, Jobs, Port
<1>3. lock = u
  BY <1>1, HolderAlone
<1>4. page[p] = 0 \/ stuck[p] \/ Owes(u)
  BY <1>2, <1>3 DEF RestInv
<1>5. CASE Restores(u)
  <2>1. PICK ok \in BOOLEAN :
           /\ SetPage(p, dev, 0, ok)
           /\ stuck' = [stuck EXCEPT ![p] =
                           IF ok /\ dev = PagingDev(p) THEN FALSE ELSE @ \/ ~ ok]
    BY <1>5 DEF Leave
  <2>2. /\ stuck' \in [Ports -> BOOLEAN]
        /\ \A q \in Ports \ {p} : stuck'[q] = stuck[q]
        /\ stuck'[p] = IF ok /\ dev = PagingDev(p) THEN FALSE ELSE stuck[p] \/ ~ ok
    <3> HIDE DEF p, dev
    <3>1. stuck \in [Ports -> BOOLEAN] /\ (stuck[p] \/ ~ ok) \in BOOLEAN
      BY DEF TypeInv
    <3>2. (IF ok /\ dev = PagingDev(p) THEN FALSE ELSE stuck[p] \/ ~ ok) \in BOOLEAN
      BY <3>1
    <3> QED BY <1>2, <2>1, <3>1, <3>2, Zenon
  <2>3. /\ page' \in [Ports -> Nat]
        /\ \A q \in Ports \ {p} : page'[q] = page[q]
        /\ \A q \in Ports : page'[q] # 0 => mod[q] = "paged"
        /\ ok /\ Listens(p, dev) => page'[p] = 0
        /\ ~ Listens(p, dev) => page'[p] = page[p]
    <3> HIDE DEF p, dev
    <3> QED BY <1>2, <2>1, PageIsSet
  <2>4. page'[p] = 0 \/ stuck'[p]
    <3>1. CASE ~ ok
      BY <2>2, <3>1
    <3>2. CASE ok /\ dev = PagingDev(p) /\ ~ Listens(p, dev)
      <4>1. mod[p] # "paged"
        BY <3>2 DEF Listens
      <4> QED BY <1>2, <2>3, <3>2, <4>1 DEF OnlyPaged
    <3>3. CASE ok /\ Listens(p, dev)
      BY <2>3, <3>3
    <3>4. CASE ok /\ dev # PagingDev(p)
      <4>1. job[u].op = "write" /\ p \notin Qsfps
        BY <3>4 DEF PagingDev
      <4>2. page[p] = 0 \/ stuck[p]
        BY <1>4, <4>1 DEF Owes
      <4>3. page'[p] = page[p]
        BY <2>3, <3>4 DEF Listens
      <4> QED BY <2>2, <3>4, <4>2, <4>3
    <3> QED BY <3>1, <3>2, <3>3, <3>4
  <2> QED BY <1>1, <2>2, <2>3, <2>4, LeavingKeeps
<1>6. CASE ~ Restores(u)
  <2>1. page' = page /\ stuck' = stuck
    BY <1>6 DEF Leave
  <2>2. ~ Owes(u)
    BY <1>1, <1>2, <1>6 DEF Restores, Owes, NotedInv, Noted, TypeInv, Jobs
  <2> QED BY <1>1, <1>4, <2>1, <2>2, LeavingKeeps DEF TypeInv, OnlyPaged
<1> QED BY <1>5, <1>6

LEMMA PlugKeeps ==
    ASSUME PageInv, NEW p \in Ports, Plug(p)
    PROVE  PageInv'
<1> USE FpgaAssumption DEF PageInv
<1>1. /\ UNCHANGED <<size, pageable, a2, bound, cached, fresh, lock, pc, job, pg, served>>
      /\ page' = [page EXCEPT ![p] = 0] /\ stuck' = [stuck EXCEPT ![p] = FALSE]
      /\ replaced' = [u \in Users |-> replaced[u] \/ (pc[u] # "idle" /\ Port(u) = p)]
  BY DEF Plug, fileVars
<1>2. PICK m \in Kinds(p) \cup {Empty} : mod' = [mod EXCEPT ![p] = m]
  BY DEF Plug
<1>3. \A u \in Users : /\ Port(u)' = Port(u) /\ (replaced[u] => replaced'[u])
                      /\ pc[u] # "idle" /\ Port(u) = p => replaced'[u]
  BY <1>1 DEF Port
<1>4. \A q \in Ports \ {p} : page'[q] = page[q] /\ stuck'[q] = stuck[q] /\ mod'[q] = mod[q]
  BY <1>1, <1>2 DEF TypeInv
<1>5. page'[p] = 0
  BY <1>1 DEF TypeInv
<1>6. TypeInv'
  <2>1. /\ mod' \in [Ports -> {Empty, "flat", "plain", "ddm", "paged"}]
        /\ \A q \in Ports : mod'[q] \in Kinds(q) \cup {Empty}
    BY <1>2 DEF TypeInv, Kinds
  <2>2. \A q \in Ports : Kinds(q)' = Kinds(q)
    BY DEF Kinds
  <2>3. replaced' \in [Users -> BOOLEAN]
    BY <1>1, Zenon DEF TypeInv
  <2> QED BY <1>1, <2>1, <2>2, <2>3 DEF TypeInv
<1>7. LockInv' /\ SizeInv' /\ JobInv' /\ NotedInv'
  BY <1>1 DEF LockInv, SizeInv, JobInv, NotedInv, Noted, Port
<1>8. OnlyPaged'
  BY <1>4, <1>5 DEF OnlyPaged
<1>9. RestInv'
  <2> SUFFICES ASSUME NEW q \in Ports, page'[q] # 0, ~ stuck'[q]
               PROVE  \E v \in Users : lock' = v /\ Port(v)' = q /\ Owes(v)'
    BY DEF RestInv
  <2>1. q # p
    BY <1>5
  <2>2. PICK v \in Users : lock = v /\ Port(v) = q /\ Owes(v)
    BY <1>4, <2>1 DEF RestInv
  <2> QED BY <1>1, <2>2 DEF Owes, Port
<1>10. SelectedInv'
  <2> SUFFICES ASSUME NEW u \in Users, pc[u] \in Inside PROVE AtPage(u)'
    BY <1>1 DEF SelectedInv, AtPage, Inside
  <2>1. Port(u) \in Ports
    BY DEF JobInv, Jobs, Port, Inside
  <2>2. CASE Port(u) = p
    BY <1>1, <1>3, <1>5, <2>2 DEF SelectedInv, AtPage, Inside, Port
  <2>3. CASE Port(u) # p
    <3>1. /\ page'[Port(u)] = page[Port(u)] /\ stuck'[Port(u)] = stuck[Port(u)]
          /\ mod'[Port(u)] = mod[Port(u)]
      BY <1>4, <2>1, <2>3
    <3>2. AtPage(u)
      BY DEF SelectedInv
    <3> QED BY <1>1, <1>3, <3>1, <3>2 DEF AtPage, Listens, Port
  <2> QED BY <2>2, <2>3
<1>11. ServedInv'
  <2> SUFFICES ASSUME NEW u \in Users, served[u] # NoCell PROVE Served(u)'
    BY <1>1 DEF ServedInv, Served
  <2>1. pc[u] \in Inside /\ pc'[u] \in Inside /\ pc[u] # "idle"
    BY <1>1 DEF ServedInv, Served, Inside
  <2>2. Port(u) \in Ports
    BY <2>1 DEF JobInv, Jobs, Port, Inside
  <2>3. CASE Port(u) = p
    BY <1>1, <1>3, <2>1, <2>3 DEF Served, Port
  <2>4. CASE Port(u) # p
    BY <1>1, <1>3, <1>4, <2>1, <2>2, <2>4 DEF ServedInv, Served, Lacks, WritesBehindA0, Port
  <2> QED BY <2>3, <2>4
<1> QED BY <1>6, <1>7, <1>8, <1>9, <1>10, <1>11

\* A transfer whose page was seen to accesses what was asked for.
LEMMA RightCell ==
    ASSUME PageInv, NEW u \in Users, pc[u] = "transfer"
    PROVE  LET p == Port(u)
               asked == Layout(p, job[u].slice)
               got == Accessed(p, Target(job[u].op, p, job[u].slice))
           IN  got = asked \/ replaced[u] \/ stuck[p] \/ Lacks(p, asked) \/ WritesBehindA0(u)
<1> DEFINE p == Port(u)
           s == job[u].slice
           op == job[u].op
           asked == Layout(p, s)
           t == Target(op, p, s)
<1> USE FpgaAssumption DEF PageInv
<1>1. p \in Ports /\ s \in Nat /\ op \in {"read", "write"}
  BY DEF JobInv, Jobs, Port, Inside
<1>2. AtPage(u)
  BY DEF SelectedInv
<1> HIDE DEF p, s, op
<1> SUFFICES ASSUME ~ replaced[u], ~ stuck[p], ~ Lacks(p, asked), ~ WritesBehindA0(u)
             PROVE  Accessed(p, t) = asked
  BY DEF p, s, op
<1>3. t = asked
  <2>1. CASE op = "write" /\ s > 1
    <3>1. p \in Qsfps
      BY <1>1, <2>1 DEF WritesBehindA0, Ports, p, s, op
    <3> QED BY <1>1, <2>1, <3>1, LayoutPages DEF Target
  <2>2. CASE ~ (op = "write" /\ s > 1)
    BY <2>2 DEF Target
  <2> QED BY <2>1, <2>2
<1>4. CASE s = 0 \/ (p \in Sfps /\ s = 2)
  BY <1>1, <1>3, <1>4, LayoutPages DEF Accessed, Cell
<1>5. CASE s = 1
  <2>1. asked = Cell("A0", "upper", 0)
    BY <1>1, <1>5, LayoutPages
  <2>2. CASE p \in Qsfps
    <3>1. page[p] = 0
      BY <1>2, <1>5, <2>2 DEF AtPage, p, s
    <3> QED BY <1>3, <2>1, <3>1 DEF Accessed, Cell
  <2>3. CASE p \notin Qsfps
    <3>1. ~ Listens(p, "A0")
      BY <2>3 DEF Listens, PagingDev
    <3> QED BY <1>3, <2>1, <3>1 DEF Accessed, Cell
  <2> QED BY <2>2, <2>3
<1>6. CASE s > 1 /\ ~ (p \in Sfps /\ s = 2)
  <2>1. PICK n \in Nat : asked = Cell(PagingDev(p), "upper", n)
    <3>1. CASE p \in Qsfps
      <4>1. asked = Cell(PagingDev(p), "upper", s - 1) /\ s - 1 \in Nat
        BY <1>1, <1>6, <3>1, LayoutPages DEF PagingDev
      <4> QED BY <4>1
    <3>2. CASE p \in Sfps
      BY <1>1, <1>6, <3>2, LayoutPages DEF PagingDev
    <3> QED BY <1>1, <3>1, <3>2 DEF Ports
  <2>2. CASE Listens(p, PagingDev(p))
    <3>1. Selects(op, p, s)
      BY <1>6 DEF Selects
    <3>2. page[p] = n
      BY <1>2, <1>3, <2>1, <2>2, <3>1 DEF AtPage, Cell, p, s, op
    <3> QED BY <1>3, <2>1, <2>2, <3>2 DEF Accessed, Cell
  <2>3. CASE ~ Listens(p, PagingDev(p))
    <3>1. mod[p] # "paged"
      BY <2>3 DEF Listens
    <3>2. n = 0
      BY <2>1, <3>1 DEF Lacks, Cell
    <3> QED BY <1>3, <2>1, <2>3, <3>2 DEF Accessed, Cell
  <2> QED BY <2>2, <2>3
<1> QED BY <1>1, <1>4, <1>5, <1>6

\* A page that a read is to show belongs to a module that had pages when its
\* file was made.
LEMMA ReadOfPages ==
    ASSUME PageInv, NEW u \in Users, pc[u] \in Inside,
           Layout(Port(u), job[u].slice).page > 0
    PROVE  pageable[Port(u)]
<1> USE FpgaAssumption DEF PageInv
<1>1. /\ Port(u) \in Ports /\ job[u].slice \in Nat /\ size[Port(u)] \in Nat
      /\ job[u].slice < size[Port(u)]
  BY DEF JobInv, Jobs, Port, Inside, TypeInv
<1>2. CASE Port(u) \in Qsfps
  BY <1>1, <1>2, LayoutPages DEF SizeInv, Small
<1>3. CASE Port(u) \in Sfps
  BY <1>1, <1>3, LayoutPages DEF SizeInv
<1> QED BY <1>1, <1>2, <1>3 DEF Ports

LEMMA TransferKeeps ==
    ASSUME PageInv, NEW u \in Users, Transfer(u)
    PROVE  PageInv'
<1> DEFINE p == Port(u)
           s == job[u].slice
           op == job[u].op
           t == Target(op, p, s)
           more == s < job[u].last
<1> USE FpgaAssumption DEF PageInv
<1>1. /\ pc[u] = "transfer" /\ pc[u] \in Inside
      /\ UNCHANGED <<mod, page, size, pageable, a2, bound, cached, fresh>>
  BY DEF Transfer, hwVars, fileVars, Inside
<1>2. /\ job[u] \in Jobs /\ p \in Ports /\ s \in Nat /\ op \in {"read", "write"}
      /\ job[u].last \in Nat /\ s <= job[u].last
  BY <1>1 DEF JobInv, Jobs, Port
<1>3. page' \in [Ports -> Nat] /\ \A q \in Ports : page'[q] # 0 => mod[q] = "paged"
  BY <1>1 DEF TypeInv, OnlyPaged
<1>4. lock = u
  BY <1>1, HolderAlone
<1>5. CASE AfterError(u) /\ stuck' = [stuck EXCEPT ![p] = TRUE]
  BY <1>1, <1>3, <1>5, ErrorKeeps
<1>6. ASSUME served' = [served EXCEPT ![u] = [asked |-> Layout(p, s), got |-> Accessed(p, t)]],
             pg' = [pg EXCEPT ![u] = IF op = "read" THEN Kept(u) ELSE t.page],
             IF more THEN /\ job' = [job EXCEPT ![u].slice = @ + 1]
                          /\ Go(u, Step("read", p, s + 1))
             ELSE Go(u, "leave") /\ UNCHANGED job,
             UNCHANGED <<lock, stuck, replaced>>
      PROVE  PageInv'
  <2>1. /\ pc' = [pc EXCEPT ![u] = pc'[u]]
        /\ pc'[u] = IF more THEN Step("read", p, s + 1) ELSE "leave"
        /\ pc'[u] \in Inside
    BY <1>6 DEF Go, TypeInv, Inside, Step
  <2>2. /\ job' = [job EXCEPT ![u].slice = IF more THEN s + 1 ELSE s]
        /\ job'[u].slice = (IF more THEN s + 1 ELSE s)
        /\ job'[u].op = op /\ job'[u].port = p
    <3>1. CASE more
      BY <1>2, <1>6, <3>1 DEF TypeInv, Jobs, Port
    <3>2. CASE ~ more
      BY <1>2, <1>6, <3>2, NoSlice DEF Port
    <3> QED BY <3>1, <3>2
  <2>3. /\ job' = [job EXCEPT ![u].slice = job'[u].slice]
        /\ job'[u].slice \in 0..job[u].last
        /\ op = "write" => ~ more
        /\ op = "write" => job'[u].slice = job[u].last
    <3>1. op = "write" => s = job[u].last
      BY DEF JobInv
    <3>2. op = "write" => ~ more
      BY <1>2, <3>1
    <3>3. job' = [job EXCEPT ![u].slice = job'[u].slice]
      <4> HIDE DEF more, s
      <4> QED BY <2>2, Zenon
    <3>4. job'[u].slice \in 0..job[u].last
      BY <1>2, <2>2
    <3>5. op = "write" => job'[u].slice = job[u].last
      BY <2>2, <3>1, <3>2
    <3> QED BY <3>2, <3>3, <3>4, <3>5
  <2>4. /\ Layout(p, s).page \in Nat /\ t.page \in Nat
        /\ op = "write" /\ p \in Qsfps /\ s > 1 => t.page > 0
    BY <1>2, LayoutPages DEF Target, Cell
  <2>5. /\ pg'[u] = (IF op = "read" THEN Kept(u) ELSE t.page)
        /\ pg'[u] \in Nat /\ pg' = [pg EXCEPT ![u] = pg'[u]]
    <3>1. Kept(u) \in Nat
      BY <2>4 DEF Kept, TypeInv
    <3> HIDE DEF t, op
    <3> QED BY <1>6, <2>4, <3>1 DEF TypeInv
  <2>6. /\ served'[u].asked = Layout(p, s) /\ served'[u].got = Accessed(p, t)
        /\ served' = [served EXCEPT ![u] = served'[u]]
    BY <1>6 DEF TypeInv
  <2>7. Noted(u)'
    <3>1. op = "write" => pc'[u] = "leave"
      BY <2>1, <2>3
    <3>2. op = "read" /\ pg'[u] > 0 => pageable[p]
      BY <1>1, <2>5, ReadOfPages DEF Kept, NotedInv, Noted
    <3> QED BY <1>1, <2>1, <2>2, <3>1, <3>2 DEF Noted, Port, Inside
  <2>8. AtPage(u)'
    <3>1. CASE ~ more
      BY <2>1, <3>1 DEF AtPage
    <3>2. CASE more
      <4>1. op = "read" /\ job'[u].slice = s + 1
        BY <1>2, <2>2, <2>3, <3>2
      <4>2. pc'[u] = Step("read", p, s + 1)
        BY <2>1, <3>2
      <4>3. s <= 0 /\ p \in Qsfps => page[p] = 0 \/ stuck[p]
        BY <1>1, <1>2 DEF SelectedInv, AtPage
      <4>4. s + 1 <= 1 => s <= 0
        BY <1>2
      <4> HIDE DEF p, s
      <4> QED BY <1>1, <1>6, <2>2, <4>1, <4>2, <4>3, <4>4 DEF AtPage, Step, Selects, Port
    <3> QED BY <3>1, <3>2
  <2>9. Served(u)'
    <3>1. \/ Accessed(p, t) = Layout(p, s) \/ replaced[u] \/ stuck[p]
          \/ Lacks(p, Layout(p, s)) \/ (WritesBehindA0(u) /\ ~ more)
      BY <1>1, <2>3, RightCell DEF WritesBehindA0
    <3> QED BY <1>1, <1>6, <2>1, <2>2, <2>6, <3>1 DEF Served, Lacks, WritesBehindA0, Port
  <2>10. page'[p] = 0 \/ stuck'[p] \/ Owes(u)'
    <3> SUFFICES ASSUME page[p] # 0, ~ stuck[p] PROVE Owes(u)'
      BY <1>1, <1>6
    <3>1. Owes(u)
      BY <1>2, <1>4 DEF RestInv
    <3>2. CASE op = "read"
      BY <1>1, <2>2, <2>4, <2>5, <3>1, <3>2 DEF Owes, Kept, TypeInv
    <3>3. CASE op = "write"
      BY <1>1, <2>1, <2>2, <2>3, <2>4, <2>5, <3>1, <3>3 DEF Owes, Port
    <3> QED BY <1>2, <3>2, <3>3
  <2> QED BY <1>1, <1>3, <1>6, <2>1, <2>3, <2>5, <2>6, <2>7, <2>8, <2>9, <2>10, StayingKeeps
          DEF TypeInv
<1> QED BY <1>5, <1>6 DEF Transfer

-----------------------------------------------------------------------------
\* What a step changes that PageInv does not speak of.
LEMMA Unseen ==
    ASSUME PageInv,
           UNCHANGED <<mod, page, size, pageable, a2, lock, stuck, userVars>>,
           bound' \in [Ports -> BOOLEAN], cached' \in [Ports -> BOOLEAN], fresh' \in BOOLEAN
    PROVE  PageInv'
<1> USE DEF PageInv, userVars
<1>1. TypeInv' /\ LockInv' /\ SizeInv' /\ OnlyPaged'
  BY DEF TypeInv, LockInv, SizeInv, OnlyPaged
<1>2. JobInv' /\ NotedInv'
  BY DEF JobInv, NotedInv, Noted, Port
<1>3. RestInv'
  BY DEF RestInv, Owes, Layout, Port
<1>4. SelectedInv'
  BY DEF SelectedInv, AtPage, Listens, Port
<1>5. ServedInv'
  BY DEF ServedInv, Served, Lacks, WritesBehindA0, Port
<1> QED BY <1>1, <1>2, <1>3, <1>4, <1>5

LEMMA ProbeKeeps ==
    ASSUME PageInv, NEW p, Probe(p), \A u \in Users : pc[u] = "idle" \/ Port(u) # p
    PROVE  PageInv'
<1> USE FpgaAssumption DEF PageInv
<1>1. /\ UNCHANGED <<mod, page, lock, stuck, pc, job, pg, served, replaced>>
      /\ bound' = [bound EXCEPT ![p] = TRUE] /\ lock = Free
      /\ cached' = Status /\ fresh' = TRUE
  BY DEF Probe, hwVars, userVars, ReadStatus
<1>2. Status \in [Ports -> BOOLEAN]
  BY DEF Status, Present, TypeInv
<1>3. PICK ok \in BOOLEAN :
         LET new == Probed(p, Status[p], ok, pageable[p], a2[p]) IN
         /\ size' = [size EXCEPT ![p] = new.size]
         /\ pageable' = [pageable EXCEPT ![p] = new.pageable]
         /\ a2' = [a2 EXCEPT ![p] = new.a2]
  BY DEF Probe
<1> DEFINE new == Probed(p, Status[p], ok, pageable[p], a2[p])
<1>4. p \in Ports => /\ new.size \in 2..4 + LastPage
                     /\ new.pageable \in BOOLEAN /\ new.a2 \in BOOLEAN
                     /\ p \in Qsfps /\ new.size > Small => new.pageable
                     /\ p \in Sfps /\ new.size > 4 => new.pageable
  <2>1. p \in Ports => Status[p] \in BOOLEAN /\ pageable[p] \in BOOLEAN /\ a2[p] \in BOOLEAN
    BY <1>2 DEF TypeInv
  <2> QED BY <2>1, ProbedFits
<1> HIDE DEF new
<1>5. /\ size' = [size EXCEPT ![p] = new.size]
      /\ pageable' = [pageable EXCEPT ![p] = new.pageable]
      /\ a2' = [a2 EXCEPT ![p] = new.a2]
  BY <1>3 DEF new
<1>6. \A q \in Ports \ {p} : size'[q] = size[q] /\ pageable'[q] = pageable[q]
  BY <1>5 DEF TypeInv
<1>7. TypeInv'
  <2>1. /\ size' \in [Ports -> 2..4 + LastPage] /\ bound' \in [Ports -> BOOLEAN]
        /\ pageable' \in [Ports -> BOOLEAN] /\ a2' \in [Ports -> BOOLEAN]
    BY <1>1, <1>4, <1>5 DEF TypeInv
  <2> QED BY <1>1, <1>2, <2>1 DEF TypeInv
<1>8. LockInv' /\ OnlyPaged'
  BY <1>1 DEF LockInv, OnlyPaged
<1>9. SizeInv'
  <2> SUFFICES ASSUME NEW q \in Ports
               PROVE  /\ q \in Qsfps /\ size'[q] > Small => pageable'[q]
                      /\ q \in Sfps /\ size'[q] > 4 => pageable'[q]
    BY DEF SizeInv, Small
  <2>1. CASE q = p
    BY <1>4, <1>5, <2>1 DEF TypeInv
  <2>2. CASE q # p
    BY <1>6, <2>2 DEF SizeInv
  <2> QED BY <2>1, <2>2
<1>10. \A u \in Users : pc[u] # "idle" => Port(u) \in Ports \ {p}
  BY DEF JobInv, Jobs, Port
<1>11. JobInv'
  BY <1>1, <1>6, <1>10 DEF JobInv, Port
<1>12. NotedInv'
  BY <1>1, <1>6, <1>10 DEF NotedInv, Noted, Port
<1>13. RestInv'
  BY <1>1 DEF RestInv, Owes, Port
<1>14. SelectedInv'
  BY <1>1 DEF SelectedInv, AtPage, Listens, Port
<1>15. ServedInv'
  BY <1>1 DEF ServedInv, Served, Lacks, WritesBehindA0, Port
<1> QED BY <1>7, <1>8, <1>9, <1>11, <1>12, <1>13, <1>14, <1>15

LEMMA StepKeeps ==
    ASSUME PageInv, [NextEvents]_allVars
    PROVE  PageInv'
<1> USE DEF PageInv
<1>1. ASSUME NEW u \in Users, UserStep(u) PROVE PageInv'
  BY <1>1, CallKeeps, CheckPresenceKeeps, LockKeeps, SelectKeeps, TransferKeeps, LeaveKeeps
     DEF UserStep
<1>2. ASSUME NEW p \in Ports, Plug(p) PROVE PageInv'
  BY <1>2, PlugKeeps
<1>3. CASE UNCHANGED vars
  BY <1>3, Unseen DEF vars, hwVars, fileVars, TypeInv
<1>4. CASE Age
  BY <1>4, Unseen DEF Age, hwVars, fileVars, TypeInv
<1>5. CASE MonUnbind
  <2>1. bound' \in [Ports -> BOOLEAN]
    BY <1>5 DEF MonUnbind, TypeInv
  <2> QED BY <1>5, <2>1, Unseen DEF MonUnbind, hwVars, TypeInv
<1>6. CASE MonBind
  BY <1>6, ProbeKeeps DEF MonBind
<1>7. CASE MonPort \/ MonJudge \/ MonEnd \/ MonRestart
  BY <1>3, <1>7 DEF MonPort, MonJudge, MonEnd, MonRestart
<1>8. CASE UNCHANGED allVars
  BY <1>3, <1>8 DEF allVars
<1>9. CASE Next
  BY <1>1, <1>2, <1>4, <1>9 DEF Next
<1>10. CASE MonStart \/ MonScan
  <2>1. ReadAll
    BY <1>10 DEF MonStart, MonScan
  <2>2. cached' \in [Ports -> BOOLEAN] /\ fresh' \in BOOLEAN
    BY <2>1 DEF ReadAll, ReadStatus, Status, Present, TypeInv
  <2> QED BY <2>1, <2>2, Unseen DEF ReadAll, hwVars, fileVars, TypeInv
<1> QED BY <1>3, <1>5, <1>6, <1>7, <1>8, <1>9, <1>10 DEF NextEvents, Monitor

-----------------------------------------------------------------------------
\* The inductive invariant of sys_fpga.c's EEPROM files under its readers,
\* writers and the module monitor.
THEOREM PageInvariant == SpecEvents => []PageInv
<1>1. InitEvents => PageInv
  BY Starts
<1>2. PageInv /\ [NextEvents]_allVars => PageInv'
  BY StepKeeps
<1> QED BY <1>1, <1>2, PTL DEF SpecEvents

\* While nobody holds update_lock, every module's page register is 0, unless a
\* transfer to that module failed: sfp_bin_read and sfp_bin_write restore the
\* page on every path on which all transfers worked, whatever modules are
\* changed and files made anew meanwhile.
THEOREM PageZeroAtRestAlways == SpecEvents => []PageZeroAtRest
<1>1. PageInv => PageZeroAtRest
  BY FpgaAssumption DEF PageInv, RestInv, PageZeroAtRest
<1> QED BY <1>1, PageInvariant, PTL

\* A transfer that worked accessed the cell its slice of the file stands for,
\* with the exceptions PageServed names.
THEOREM PageServedAlways == SpecEvents => []PageServed
<1>1. PageInv => PageServed
  BY DEF PageInv, ServedInv, Served, PageServed
<1> QED BY <1>1, PageInvariant, PTL

\* The monitor's variables; it has a port before it in the middle of a round.
MonitorInv ==
    /\ list \in [Ports -> BOOLEAN] /\ scan \in [Ports -> BOOLEAN]
    /\ mpc \in {"start", "poll", "port", "unbind", "bind", "judge"} /\ todo \subseteq Ports
    /\ mpc \in {"unbind", "bind", "judge"} => todo # {}

LEMMA MonitorKeeps ==
    ASSUME PageInv, MonitorInv, [NextEvents]_allVars
    PROVE  MonitorInv'
<1>0. Status \in [Ports -> BOOLEAN] /\ NoScan \in [Ports -> BOOLEAN]
  BY DEF PageInv, TypeInv, Status, Present, NoScan
<1>1. CASE MonStart \/ MonScan
  BY <1>0, <1>1 DEF MonStart, MonScan, ReadAll, MonGo, MonitorInv
<1>2. CASE MonPort
  BY <1>0, <1>2 DEF MonPort, MonGo, Restarted, NextFor, MonitorInv
<1>3. CASE MonUnbind \/ MonBind
  BY <1>3 DEF MonUnbind, MonBind, MonGo, MonitorInv
<1>4. CASE MonJudge
  <2>1. scan' \in [Ports -> BOOLEAN]
    BY <1>4 DEF MonJudge, MonitorInv
  <2> QED BY <1>4, <2>1 DEF MonJudge, MonGo, MonitorInv
<1>5. CASE MonEnd
  BY <1>0, <1>5 DEF MonEnd, MonGo, MonitorInv
<1>6. CASE MonRestart
  BY <1>0, <1>6 DEF MonRestart, Restarted, MonGo, MonitorInv
<1>7. CASE UNCHANGED monVars
  BY <1>7 DEF monVars, MonitorInv
<1> QED BY <1>1, <1>2, <1>3, <1>4, <1>5, <1>6, <1>7 DEF NextEvents, Monitor, allVars

\* The types of the driver's and the monitor's state: an owner of update_lock
\* is inside its critical section, and a call stays inside its file.
THEOREM TypesAlways == SpecEvents => []TypeOKEvents
<1>1. InitEvents => MonitorInv
  BY DEF InitEvents, NoScan, MonitorInv
<1>2. PageInv /\ MonitorInv /\ [NextEvents]_allVars => MonitorInv'
  BY MonitorKeeps
<1>3. SpecEvents => []MonitorInv
  BY <1>1, <1>2, PageInvariant, PTL DEF SpecEvents
<1>4. PageInv /\ MonitorInv => TypeOKEvents
  BY DEF PageInv, TypeInv, LockInv, JobInv, Inside, MonitorInv, TypeOK, TypeOKEvents
<1> QED BY <1>3, <1>4, PageInvariant, PTL
=============================================================================
