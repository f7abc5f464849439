------------------------------ MODULE FpgaEeprom ------------------------------
(***************************************************************************)
(* The optics EEPROM files of the IXR7220-H4-64D: ports whose modules are  *)
(* read through I2C engines of the FPGAs (ixr7220h4-64d/modules/           *)
(* sys_fpga.c).  A file is cut into slices of 128 bytes: the lower half of *)
(* the module's memory, then its upper half once per page.  The page is a  *)
(* register of the module that all its readers share; update_lock is held  *)
(* for a whole read or write, but not from its check of the presence on.   *)
(*                                                                         *)
(* An SFP answers at two addresses: A0, and A2 if it has diagnostics; its  *)
(* file shows A2 behind A0.  How large the file is, and whether pages are  *)
(* used, is found out once, when the driver is bound to the port.          *)
(***************************************************************************)
EXTENDS Integers, FiniteSets

CONSTANTS
    Qsfps, Sfps,   \* the ports, by number
    LastPage,      \* the highest page a module has
    Users,         \* processes that read or write EEPROM files
    MaxCalls, MaxFaults, MaxPlugs   \* bounds on calls, failed transfers, changes of modules

Ports == Qsfps \cup Sfps
Free  == "free"
Empty == "none"
Kinds(p) == IF p \in Qsfps THEN {"flat", "paged"} ELSE {"plain", "ddm", "paged"}

ASSUME FpgaAssumption ==
    /\ Qsfps \subseteq Nat /\ Sfps \subseteq Nat /\ Qsfps \cap Sfps = {}
    /\ LastPage \in Nat \ {0}
    /\ Free \notin Users
    /\ MaxCalls \in Nat /\ MaxFaults \in Nat /\ MaxPlugs \in Nat

VARIABLES
    mod, page,          \* the module in each port and its page register
    cached, fresh,      \* presence as last read, and whether that is less than HZ/2 ago
    bound, size,        \* per port: the file exists, and its number of slices
    pageable, a2,       \* what the driver found out about the module
    lock,               \* owner of update_lock
    pc, job, pg,        \* per user: next step, its call, the local variable page
    served,             \* per user: the cell asked for and accessed last
    replaced, stuck,    \* ghosts: the module changed during the call; a failed
                        \* call may have left the page register
    calls, faults, plugs

hwVars   == <<mod, page, plugs>>
fileVars == <<bound, size, pageable, a2>>
userVars == <<pc, job, pg, served, replaced, calls>>
vars     == <<hwVars, fileVars, userVars, cached, fresh, lock, stuck, faults>>

\* --- the memory of a module --------------------------------------------------

Cell(dev, half, n) == [dev |-> dev, half |-> half, page |-> n]
NoCell == Cell("A0", "none", 0)

\* What the driver finds when it reads the identification of a module, and the
\* slices of a file that is made from it.
Pageable(m) == m = "paged"
HasA2(m)    == m \in {"ddm", "paged"}
Small == 2
QsfpSize(pages) == IF pages THEN 2 + LastPage ELSE Small
SfpSize(two, pages) == IF ~ two THEN Small ELSE IF pages THEN 4 + LastPage ELSE 4

\* The file's layout: what slice s of port p shows.
Layout(p, s) ==
    CASE s = 0 -> Cell("A0", "lower", 0)
      [] s = 1 -> Cell("A0", "upper", 0)
      [] p \in Qsfps /\ s > 1 -> Cell("A0", "upper", s - 1)
      [] p \in Sfps /\ s = 2 -> Cell("A2", "lower", 0)
      [] p \in Sfps /\ s > 2 -> Cell("A2", "upper", s - 3)

\* What the code accesses for it.  A write knows of A0 only.
Target(op, p, s) ==
    IF op = "write" /\ s > 1 THEN Cell("A0", "upper", s - 1) ELSE Layout(p, s)
SelectsLate(op, p, s) == s > 2 /\ ~ (op = "read" /\ p \in Sfps)   \* a mutant: off by one
Selects(op, p, s) == s > 1 /\ ~ (op = "read" /\ p \in Sfps /\ s = 2)

\* The page register: at A0 of a QSFP, at A2 of an SFP, if there are pages.
PagingDev(p) == IF p \in Qsfps THEN "A0" ELSE "A2"
Listens(p, dev) == mod[p] = "paged" /\ dev = PagingDev(p)
Answers(p, dev) == mod[p] # Empty /\ (dev = "A2" => HasA2(mod[p]))
Accessed(p, t) ==
    Cell(t.dev, t.half, IF t.half = "upper" /\ Listens(p, t.dev) THEN page[p] ELSE 0)

\* --- a transfer of the FPGA: done, or an error or no answer for 500 polls -----

Works(p, dev) == Answers(p, dev) /\ UNCHANGED faults
Fails(p, dev) == IF Answers(p, dev) THEN faults > 0 /\ faults' = faults - 1
                 ELSE UNCHANGED faults
PageSet(p, dev, n) ==
    page' = IF Listens(p, dev) THEN [page EXCEPT ![p] = n] ELSE page
SetPage(p, dev, n, ok) ==
    IF ok THEN Works(p, dev) /\ PageSet(p, dev, n)
    ELSE Fails(p, dev) /\ (PageSet(p, dev, n) \/ UNCHANGED page)

\* --- presence and probe ---------------------------------------------------------

\* fpga_read_port_status_value
Present == [p \in Ports |-> mod[p] # Empty]
Status  == IF fresh THEN cached ELSE Present
ReadStatus == cached' = Status /\ fresh' = TRUE

\* sfp_sysfs_eeprom_init: with the module absent or unreadable the earlier
\* findings stay, and of an SFP they are used.
Probed(p, there, ok, pages, two) ==
    LET seen == there /\ ok
        newPages == IF seen THEN Pageable(mod[p]) ELSE pages
        newTwo   == IF seen /\ p \in Sfps THEN HasA2(mod[p]) ELSE two
    IN  [pageable |-> newPages, a2 |-> newTwo,
         size |-> CASE ~ there -> Small
                    [] there /\ p \in Qsfps -> QsfpSize(ok /\ newPages)
                    [] there /\ p \in Sfps  -> SfpSize(newTwo, newPages)]
Probe(p) ==
    /\ lock = Free /\ ~ bound[p]
    /\ ReadStatus
    /\ \E ok \in BOOLEAN :
          LET new == Probed(p, Status[p], ok, pageable[p], a2[p]) IN
          /\ IF Status[p] THEN IF ok THEN Works(p, "A0") ELSE Fails(p, "A0")
             ELSE ok /\ UNCHANGED faults
          /\ size' = [size EXCEPT ![p] = new.size]
          /\ pageable' = [pageable EXCEPT ![p] = new.pageable]
          /\ a2' = [a2 EXCEPT ![p] = new.a2]
    /\ bound' = [bound EXCEPT ![p] = TRUE]
    /\ UNCHANGED <<hwVars, userVars, lock, stuck>>

Idle == [op |-> "read", port |-> CHOOSE p \in Ports : TRUE, slice |-> 0, last |-> 0]
Init ==
    /\ mod \in [Ports -> {Empty, "flat", "plain", "ddm", "paged"}]
    /\ \A p \in Ports : mod[p] \in Kinds(p) \cup {Empty}
    /\ page = [p \in Ports |-> 0]
    /\ cached = Present /\ fresh = TRUE
    /\ bound = [p \in Ports |-> TRUE]
    /\ LET found == [p \in Ports |-> Probed(p, Present[p], TRUE, FALSE, FALSE)] IN
       /\ size = [p \in Ports |-> found[p].size]
       /\ pageable = [p \in Ports |-> found[p].pageable]
       /\ a2 = [p \in Ports |-> found[p].a2]
    /\ lock = Free
    /\ pc = [u \in Users |-> "idle"] /\ job = [u \in Users |-> Idle]
    /\ pg = [u \in Users |-> 0] /\ served = [u \in Users |-> NoCell]
    /\ replaced = [u \in Users |-> FALSE] /\ stuck = [p \in Ports |-> FALSE]
    /\ calls = MaxCalls /\ faults = MaxFaults /\ plugs = MaxPlugs

\* --- sfp_bin_read, sfp_bin_write ------------------------------------------------

Port(u)  == job[u].port
Step(op, p, s) == IF Selects(op, p, s) THEN "select" ELSE "transfer"
Go(u, to) == pc' = [pc EXCEPT ![u] = to]

\* A call returns: its locals are gone.
Return(u) ==
    /\ Go(u, "idle")
    /\ job' = [job EXCEPT ![u] = Idle] /\ pg' = [pg EXCEPT ![u] = 0]
    /\ served' = [served EXCEPT ![u] = NoCell]
    /\ replaced' = [replaced EXCEPT ![u] = FALSE]

\* The kernel keeps calls inside the file; a write has one byte.
Call(u) ==
    /\ pc[u] = "idle" /\ calls > 0
    /\ \E op \in {"read", "write"}, p \in {p \in Ports : bound[p]} :
       \E s \in 0..size[p] - 1, l \in 0..size[p] - 1 :
          /\ s <= l /\ (op = "write" => s = l)
          /\ job' = [job EXCEPT ![u] = [op |-> op, port |-> p, slice |-> s, last |-> l]]
    /\ Go(u, "check")
    /\ calls' = calls - 1
    /\ UNCHANGED <<hwVars, fileVars, cached, fresh, lock, stuck, faults, pg, served, replaced>>

\* The first critical section: presence only.
CheckPresence(u) ==
    /\ pc[u] = "check" /\ lock = Free
    /\ ReadStatus
    /\ IF Status[Port(u)] THEN Go(u, "lock") /\ UNCHANGED <<job, pg, served, replaced>>
       ELSE Return(u)
    /\ UNCHANGED <<hwVars, fileVars, lock, stuck, faults, calls>>

Lock(u) ==
    /\ pc[u] = "lock" /\ lock = Free
    /\ lock' = u
    /\ Go(u, Step(job[u].op, Port(u), job[u].slice))
    /\ UNCHANGED <<hwVars, fileVars, cached, fresh, stuck, faults, job, pg, served, replaced,
                   calls>>

\* A mutant: the error path of a write keeps the mutex.
AfterErrorLocked(u) ==
    IF job[u].op = "read" THEN Go(u, "leave") /\ UNCHANGED <<lock, job, pg, served, replaced>>
    ELSE Return(u) /\ UNCHANGED lock
\* A read that fails leaves its loop, a write returns.
AfterError(u) ==
    IF job[u].op = "read" THEN Go(u, "leave") /\ UNCHANGED <<lock, job, pg, served, replaced>>
    ELSE Return(u) /\ lock' = Free

Select(u) ==
    LET t == Target(job[u].op, Port(u), job[u].slice) IN
    /\ pc[u] = "select"
    /\ \E ok \in BOOLEAN :
          /\ SetPage(Port(u), t.dev, t.page, ok)
          /\ IF ok THEN Go(u, "transfer") /\ UNCHANGED <<lock, job, pg, served, replaced>>
             ELSE AfterError(u)
          /\ stuck' = [stuck EXCEPT ![Port(u)] = @ \/ ~ ok]
    /\ UNCHANGED <<mod, plugs, fileVars, cached, fresh, calls>>

\* A read notes the page it selected, to restore the register at its end.
Kept(u) ==
    IF job[u].op = "read" /\ Layout(Port(u), job[u].slice).page > 0
    THEN Layout(Port(u), job[u].slice).page ELSE pg[u]

Transfer(u) ==
    LET p == Port(u)
        t == Target(job[u].op, p, job[u].slice)
        more == job[u].slice < job[u].last
    IN
    /\ pc[u] = "transfer"
    /\ \/ /\ Works(p, t.dev)
          /\ served' = [served EXCEPT ![u] = [asked |-> Layout(p, job[u].slice),
                                              got |-> Accessed(p, t)]]
          /\ pg' = [pg EXCEPT ![u] = IF job[u].op = "read" THEN Kept(u) ELSE t.page]
          /\ IF more THEN job' = [job EXCEPT ![u].slice = @ + 1]
                          /\ Go(u, Step("read", p, job[u].slice + 1))
             ELSE Go(u, "leave") /\ UNCHANGED job
          /\ UNCHANGED <<lock, stuck, replaced>>
       \/ /\ Fails(p, t.dev)
          /\ AfterError(u)
          /\ stuck' = [stuck EXCEPT ![p] = TRUE]
    /\ UNCHANGED <<hwVars, fileVars, cached, fresh, calls>>

\* Back to page 0: a read at the address with the pages, a write at A0.
RestoresLate(u) == pg[u] > 1 /\ (job[u].op = "read" => pageable[Port(u)])   \* a mutant
Restores(u) == pg[u] > 0 /\ (job[u].op = "read" => pageable[Port(u)])
Leave(u) ==
    LET dev == IF job[u].op = "write" THEN "A0" ELSE PagingDev(Port(u)) IN
    /\ pc[u] = "leave"
    /\ IF Restores(u)
       THEN \E ok \in BOOLEAN :
               /\ SetPage(Port(u), dev, 0, ok)
               /\ stuck' = [stuck EXCEPT ![Port(u)] =
                               IF ok /\ dev = PagingDev(Port(u)) THEN FALSE ELSE @ \/ ~ ok]
       ELSE UNCHANGED <<page, faults, stuck>>
    /\ lock' = Free
    /\ Return(u)
    /\ UNCHANGED <<mod, plugs, fileVars, cached, fresh, calls>>

\* --- the world --------------------------------------------------------------------

\* A module is pulled, or another one put in: its page register starts at 0.
Plug(p) ==
    /\ plugs > 0 /\ plugs' = plugs - 1
    /\ \E m \in (IF mod[p] = Empty THEN Kinds(p) ELSE {Empty}) : mod' = [mod EXCEPT ![p] = m]
    /\ page' = [page EXCEPT ![p] = 0]
    /\ stuck' = [stuck EXCEPT ![p] = FALSE]
    /\ replaced' = [u \in Users |-> replaced[u] \/ (pc[u] # "idle" /\ Port(u) = p)]
    /\ UNCHANGED <<fileVars, cached, fresh, lock, faults, pc, job, pg, served, calls>>

Age ==
    /\ fresh /\ fresh' = FALSE
    /\ UNCHANGED <<hwVars, fileVars, userVars, cached, lock, stuck, faults>>

UserStep(u) == Call(u) \/ CheckPresence(u) \/ Lock(u) \/ Select(u) \/ Transfer(u) \/ Leave(u)
Next == (\E u \in Users : UserStep(u)) \/ (\E p \in Ports : Plug(p)) \/ Age

Spec == Init /\ [][Next]_vars

\* --- properties -------------------------------------------------------------------

TypeOK ==
    /\ \A p \in Ports : mod[p] \in Kinds(p) \cup {Empty} /\ page[p] \in Nat
    /\ cached \in [Ports -> BOOLEAN] /\ fresh \in BOOLEAN
    /\ bound \in [Ports -> BOOLEAN] /\ size \in [Ports -> 2..4 + LastPage]
    /\ pageable \in [Ports -> BOOLEAN] /\ a2 \in [Ports -> BOOLEAN]
    /\ lock \in Users \cup {Free}
    /\ \A u \in Users : pc[u] \in {"select", "transfer", "leave"} <=> lock = u
    /\ \A u \in Users : job[u].slice \in 0..job[u].last /\ pg[u] \in Nat

\* A call whose transfers all worked has accessed the cell of the module that
\* its slice of the file stands for, whatever other readers and writers did to
\* the page register before, unless an earlier failure left the register (the
\* upper half of a QSFP is accessed without selecting page 0), the module was
\* changed, lacks that page, or the call writes behind the A0 part of an SFP.
Lacks(p, cell) == cell.page > 0 /\ mod[p] # "paged"
WritesBehindA0(u) == job[u].op = "write" /\ Port(u) \in Sfps /\ job[u].slice > 1
PageServed ==
    \A u \in Users : served[u] # NoCell =>
        \/ served[u].got = served[u].asked
        \/ replaced[u] \/ stuck[Port(u)]
        \/ Lacks(Port(u), served[u].asked) \/ WritesBehindA0(u)

\* No call in progress: the page register is back at 0, unless a transfer failed.
PageZeroAtRest == \A p \in Ports : lock = Free => page[p] = 0 \/ stuck[p]

\* The comment of sfp_bin_read: the register is restored whenever it was changed,
\* since "otherwise, accesses to page 0 would actually go to whatever the last
\* page was".  There is no exception for a call that fails.
PageRestored == \A p \in Ports : lock = Free => page[p] = 0
=============================================================================
