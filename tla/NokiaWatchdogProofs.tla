-------------------------- MODULE NokiaWatchdogProofs --------------------------
(***************************************************************************)
(* For every timeout that leaves room for one round of the script: the     *)
(* card is reset only when the platform processes have failed as often in  *)
(* a row as the script allows, or when the script is gone.  The proof is a *)
(* budget: at every place of the script, what is left of the timer covers  *)
(* what the script may still spend before its next kick.                   *)
(***************************************************************************)
EXTENDS NokiaWatchdog, TLAPS

\* What wait_for_sleep_time may have spent with n rounds to go.
Spent(n) == (SleepTime - n) * RebootTime

\* Left of the timer behind the wait, and behind the check that follows it.
Budget ==
    /\ pc = "loop"  => left = 0 /\ timer >= Timeout - Spent(0)
    /\ pc = "check" => timer - left >= Timeout - Spent(0) - MaxCheck
    /\ pc = "sleep" => timer - left >= Timeout - Spent(iter)

Failing == bad >= MinFailures \/ pc = "dead"
WatchInv ==
    /\ TypeOK
    /\ app_count = bad
    /\ pc = "kick" => left = 0
    /\ off = "reset" => Failing
    /\ off = "no" => Failing \/ pc = "kick" \/ Budget

LEMMA Spending ==
    /\ Spent(SleepTime) = 0
    /\ \A n \in 0..SleepTime : Spent(n) \in Nat /\ Spent(n) <= Spent(0)
    /\ \A n \in 1..SleepTime : Spent(n - 1) = Spent(n) + RebootTime
    /\ Spent(0) + MaxCheck < Timeout
<1> USE WatchdogAssumption
<1>1. \A a, b \in Nat : a * b \in Nat /\ (a + 1) * b = a * b + b
  OBVIOUS
<1>2. \A a, b, c \in Nat : a <= b => a * c <= b * c
  OBVIOUS
<1>3. \A n \in 1..SleepTime : Spent(n - 1) = Spent(n) + RebootTime
  <2> TAKE n \in 1..SleepTime
  <2>1. SleepTime - n \in Nat /\ SleepTime - (n - 1) = (SleepTime - n) + 1
    OBVIOUS
  <2> QED BY <1>1, <2>1 DEF Spent
<1>4. \A n \in 0..SleepTime : Spent(n) \in Nat /\ Spent(n) <= Spent(0)
  <2> TAKE n \in 0..SleepTime
  <2>1. SleepTime - n \in Nat /\ SleepTime - n <= SleepTime - 0 /\ SleepTime - 0 \in Nat
    OBVIOUS
  <2> QED BY <1>1, <1>2, <2>1 DEF Spent
<1> QED BY <1>3, <1>4 DEF Spent

LEMMA WatchStarts == ASSUME Init PROVE WatchInv
<1> USE WatchdogAssumption DEF Init
<1>1. TypeOK
  <2>1. Timeout > 0
    BY Spending
  <2>2. healthy \in BOOLEAN /\ hung \in BOOLEAN /\ monitored \in BOOLEAN
    BY Zenon
  <2>3. left \in 0..MaxCheck + RebootTime /\ n_kicks \in 0..SkippedChecks
    OBVIOUS
  <2>4. app_count \in 0..MinFailures /\ iter \in 0..SleepTime /\ bad \in 0..MinFailures
    OBVIOUS
  <2>5. timer \in 0..Timeout /\ (off = "reset" <=> timer = 0)
    BY <2>1
  <2> QED BY <2>2, <2>3, <2>4, <2>5 DEF TypeOK
<1>2. Budget
  BY Spending DEF Budget
<1> QED BY <1>1, <1>2 DEF WatchInv, Failing

LEMMA ScriptKeeps == ASSUME WatchInv, Script PROVE WatchInv'
<1> USE WatchdogAssumption DEF WatchInv, TypeOK, Failing, Running
<1>0. \A n \in Int : n \in 0..MinFailures => Capped(n + 1) \in 0..MinFailures
  BY DEF Capped
<1>1. CASE Loop
  BY <1>1, Spending DEF Loop, Skips, Budget, worldVars
<1>2. CASE Check
  <2>1. app_count' = bad' /\ bad' \in 0..MinFailures
    BY <1>0, <1>2 DEF Check, Counts
  <2> QED BY <1>2, <2>1 DEF Check, GivenUp, worldVars
<1>3. CASE Kick
  BY <1>3, Spending DEF Kick, Budget, worldVars
<1>4. CASE Sleep
  <2>1. left = 0 /\ left' \in 0..RebootTime /\ iter \in 1..SleepTime /\ iter' = iter - 1
    BY <1>4 DEF Sleep, worldVars
  <2>2. Budget => Budget'
    BY <1>4, <2>1, Spending DEF Sleep, Budget
  <2> QED BY <1>4, <2>1, <2>2 DEF Sleep, worldVars
<1>5. CASE Again
  BY <1>5, Spending DEF Again, Budget, worldVars
<1> QED BY <1>1, <1>2, <1>3, <1>4, <1>5 DEF Script

LEMMA TickKeeps == ASSUME WatchInv, Tick PROVE WatchInv'
<1> USE WatchdogAssumption DEF WatchInv, TypeOK, Failing
<1>1. /\ timer \in 1..Timeout /\ timer' = timer - 1
      /\ left' = (IF left > 0 THEN left - 1 ELSE 0)
      /\ off = "no" /\ off' = (IF timer = 1 THEN "reset" ELSE "no")
      /\ UNCHANGED <<healthy, hung, monitored, pc, app_count, n_kicks, iter, bad>>
  BY DEF Tick, Closed, worldVars
<1>2. CASE Failing
  <2>1. TypeOK'
    BY <1>1
  <2> QED BY <1>1, <1>2, <2>1
<1>3. CASE ~ Failing
  <2>1. left > 0 /\ pc # "kick" /\ Budget
    BY <1>3 DEF Tick
  <2>2. timer - left > 0
    <3>1. CASE pc = "check"
      BY <2>1, <3>1, Spending DEF Budget
    <3>2. CASE pc = "sleep"
      BY <2>1, <3>2, Spending DEF Budget
    <3> QED BY <1>3, <2>1, <3>1, <3>2 DEF Budget
  <2>3. timer # 1
    BY <1>1, <2>1, <2>2
  <2>4. Budget'
    BY <1>1, <2>1 DEF Budget
  <2> QED BY <1>1, <2>1, <2>3, <2>4
<1> QED BY <1>2, <1>3

LEMMA WatchKeeps == ASSUME WatchInv, [Next]_vars PROVE WatchInv'
<1> USE WatchdogAssumption DEF WatchInv, TypeOK, Failing
<1>1. CASE Change
  BY <1>1 DEF Change, Budget, scriptVars
<1>2. CASE Killed
  BY <1>2 DEF Killed, worldVars
<1>3. CASE UNCHANGED vars
  BY <1>3 DEF vars, worldVars, scriptVars, Budget
<1> QED BY <1>1, <1>2, <1>3, ScriptKeeps, TickKeeps DEF Next

-----------------------------------------------------------------------------
\* The script and the hardware: the inductive invariant, its type part, and what
\* it is for.
THEOREM WatchInvariant == Spec => []WatchInv
<1>1. Init => WatchInv
  BY WatchStarts
<1>2. WatchInv /\ [Next]_vars => WatchInv'
  BY WatchKeeps
<1> QED BY <1>1, <1>2, PTL DEF Spec

\* The types of nokia-watchdog.sh's variables; the timer is at 0 exactly when the
\* hardware has reset the card.
THEOREM WatchTypes == Spec => []TypeOK
<1>1. WatchInv => TypeOK
  BY DEF WatchInv
<1> QED BY <1>1, WatchInvariant, PTL

\* A card whose script runs and whose processes have not failed as often as they
\* may is never reset by the watchdog, however the sleeps, checks and reboots
\* that do nothing add up.
THEOREM ResetOnlyIfFailingAlways == Spec => []ResetOnlyIfFailing
<1>1. WatchInv => ResetOnlyIfFailing
  BY DEF WatchInv, Failing, ResetOnlyIfFailing
<1> QED BY <1>1, WatchInvariant, PTL
-----------------------------------------------------------------------------
(***************************************************************************)
(* How long a card goes on that should go down: its script is gone, or its *)
(* processes stay unhealthy.                                               *)
(***************************************************************************)
Doomed == pc = "dead" \/ (~ healthy /\ monitored)

\* Kicks that may still come: those without a check, one for each failure that is
\* allowed, and the one that is due.
Allowed   == IF app_count < MinFailures THEN MinFailures - 1 - app_count ELSE 0
KicksLeft == n_kicks + Allowed + (IF pc = "kick" THEN 1 ELSE 0)
Remaining == IF pc = "dead" THEN timer ELSE KicksLeft * Timeout + timer

\* Steps of the script before time passes again.
Place == IF off # "no" \/ left > 0 THEN 0
         ELSE CASE pc = "loop" -> 4
                [] pc = "check" -> 3
                [] pc = "kick" -> 2
                [] pc = "sleep" -> IF iter = 0 THEN 5 ELSE 1
                [] pc = "dead" -> 0

\* What is left to a doomed card is bounded, each tick takes of it, nothing adds to
\* it, and the script comes to its next sleep in a few steps: neither unchecked
\* kicks, failures that are allowed nor a hung device keep the card up.
InTime   == Remaining \in 0..(SkippedChecks + MinFailures + 1) * Timeout
RunsDown ==
    [][Doomed /\ Doomed' =>
          /\ Remaining' < Remaining \/ (Remaining' = Remaining /\ Place' <= Place)
          /\ Tick => Remaining' < Remaining
          /\ Script => Remaining' < Remaining \/ Place' < Place]_vars

LEMMA Kicks ==
    ASSUME TypeOK
    PROVE  /\ Allowed \in 0..MinFailures - 1 /\ KicksLeft \in 0..SkippedChecks + MinFailures
           /\ pc = "kick" => KicksLeft >= 1
BY WatchdogAssumption DEF TypeOK, Allowed, KicksLeft

LEMMA KicksCount == TypeOK => KicksLeft \in Nat
BY Kicks, WatchdogAssumption

\* The product with the timeout, as far as the steps need it.
LEMMA Times ==
    /\ \A n \in Nat : n * Timeout \in Nat
    /\ \A n \in Nat : (n + 1) * Timeout = n * Timeout + Timeout
    /\ \A m, n \in Nat : m <= n => m * Timeout <= n * Timeout
<1>1. Timeout \in Nat
  BY WatchdogAssumption
<1>2. \A n \in Nat : n * Timeout \in Nat
  BY <1>1
<1>3. \A n \in Nat : (n + 1) * Timeout = n * Timeout + Timeout
  BY <1>1
<1>4. ASSUME NEW m \in Nat, NEW n \in Nat, m <= n PROVE m * Timeout <= n * Timeout
  BY <1>1, <1>4
<1> QED BY <1>2, <1>3, <1>4

LEMMA RemainingBounded == ASSUME TypeOK PROVE InTime
<1>1. /\ KicksLeft \in 0..SkippedChecks + MinFailures /\ timer \in 0..Timeout
      /\ SkippedChecks + MinFailures \in Nat /\ Timeout \in Nat
  BY Kicks, WatchdogAssumption DEF TypeOK
<1> DEFINE most == SkippedChecks + MinFailures
<1>2. /\ KicksLeft * Timeout \in Nat /\ most * Timeout \in Nat
      /\ KicksLeft * Timeout <= most * Timeout
      /\ (most + 1) * Timeout = most * Timeout + Timeout
  BY <1>1, Times
<1> HIDE DEF most
<1>3. Remaining \in 0..(most + 1) * Timeout
  BY <1>1, <1>2 DEF Remaining
<1> QED BY <1>3 DEF InTime, most

\* A step with fewer or the same kicks to come, by the timer; and a kick.
LEMMA SameKicks ==
    ASSUME TypeOK, TypeOK', pc # "dead", pc' # "dead", KicksLeft' = KicksLeft, UNCHANGED timer
    PROVE  Remaining' = Remaining
BY DEF Remaining

LEMMA FewerKicks ==
    ASSUME TypeOK, TypeOK', pc # "dead", pc' # "dead", KicksLeft' = KicksLeft - 1,
           timer' <= Timeout, timer > 0
    PROVE  Remaining' < Remaining
<1>1. /\ KicksLeft \in Nat /\ KicksLeft' \in Nat /\ KicksLeft = KicksLeft' + 1
      /\ timer \in Nat /\ timer' \in Nat /\ Timeout \in Nat
  <2>1. (TypeOK => KicksLeft \in Nat)'
    BY KicksCount, PTL
  <2>2. KicksLeft' \in Nat /\ KicksLeft \in Nat
    BY <2>1, KicksCount
  <2> QED BY <2>2, WatchdogAssumption DEF TypeOK
<1>2. KicksLeft * Timeout = KicksLeft' * Timeout + Timeout /\ KicksLeft' * Timeout \in Nat
  BY <1>1, Times
<1>3. PICK rest \in Nat : rest = KicksLeft' * Timeout
  BY <1>2
<1>4. Remaining = rest + Timeout + timer /\ Remaining' = rest + timer'
  BY <1>2, <1>3 DEF Remaining
<1>5. ASSUME NEW r \in Nat, NEW s \in Nat, NEW t \in Nat, NEW u \in Nat, s <= u, t > 0
      PROVE  r + s < r + u + t
  BY <1>5
<1>6. rest + timer' < rest + Timeout + timer
  BY <1>1, <1>5
<1> QED BY <1>4, <1>6

LEMMA ScriptRunsDown ==
    ASSUME WatchInv, WatchInv', Script, Doomed
    PROVE  Remaining' < Remaining \/ (Remaining' = Remaining /\ Place' < Place)
<1> USE WatchdogAssumption DEF Running
<1>1. TypeOK /\ TypeOK' /\ off = "no" /\ pc # "dead" /\ ~ healthy /\ monitored /\ left = 0
  BY DEF WatchInv, Script, Doomed, Loop, Check, Kick, Sleep, Again
<1>2. CASE Loop
  <2>1. /\ UNCHANGED <<app_count, timer>> /\ pc = "loop"
        /\ \/ n_kicks' = n_kicks - 1 /\ pc' = "kick"
           \/ n_kicks' = n_kicks /\ pc' = "check"
    BY <1>1, <1>2 DEF Loop, Skips
  <2>a. Allowed' = Allowed /\ Allowed \in Nat /\ n_kicks \in Nat
    BY <1>1, <2>1, Kicks DEF Allowed, TypeOK
  <2>b. KicksLeft' = KicksLeft
    BY <2>1, <2>a DEF KicksLeft
  <2>2. Place' < Place
    BY <1>1, <1>2 DEF Loop, Place, TypeOK
  <2> QED BY <1>1, <2>1, <2>b, <2>2, SameKicks
<1>3. CASE Check
  <2>1. UNCHANGED timer /\ pc' # "dead" /\ Place' < Place
    BY <1>1, <1>3 DEF Check, GivenUp, Place, TypeOK
  <2>2. app_count' = Capped(app_count + 1) /\ UNCHANGED n_kicks
        /\ pc' = IF app_count' >= MinFailures THEN "sleep" ELSE "kick"
    BY <1>1, <1>3 DEF Check, Counts, GivenUp
  <2>3. KicksLeft' = KicksLeft
    BY <1>1, <1>3, <2>2 DEF Check, Capped, KicksLeft, Allowed, TypeOK
  <2> QED BY <1>1, <2>1, <2>3, SameKicks
<1>4. CASE Kick
  <2>1. KicksLeft' = KicksLeft - 1 /\ timer' = Timeout /\ pc' # "dead" /\ timer > 0
    BY <1>1, <1>4 DEF Kick, KicksLeft, Allowed, TypeOK
  <2> QED BY <1>1, <2>1, FewerKicks
<1>5. CASE Sleep \/ Again
  <2>1. KicksLeft' = KicksLeft /\ UNCHANGED timer /\ pc' # "dead"
    BY <1>1, <1>5 DEF Sleep, Again, KicksLeft, Allowed, worldVars
  <2>2. Place' < Place
    BY <1>1, <1>5 DEF Sleep, Again, Place, TypeOK
  <2> QED BY <1>1, <2>1, <2>2, SameKicks
<1> QED BY <1>2, <1>3, <1>4, <1>5 DEF Script

LEMMA TickRunsDown == ASSUME WatchInv, WatchInv', Tick PROVE Remaining' < Remaining
<1>1. /\ timer \in Nat /\ timer' = timer - 1 /\ pc' = pc /\ KicksLeft' = KicksLeft
      /\ KicksLeft \in Nat
  BY Kicks, WatchdogAssumption DEF WatchInv, TypeOK, Tick, Closed, KicksLeft, Allowed
<1>2. KicksLeft * Timeout \in Nat
  BY <1>1, Times
<1> QED BY <1>1, <1>2 DEF Remaining

LEMMA WorldRunsDown ==
    ASSUME WatchInv, WatchInv', Change \/ Killed
    PROVE  Remaining' < Remaining \/ (Remaining' = Remaining /\ Place' <= Place)
<1>1. CASE Change
  <2>1. UNCHANGED <<pc, left, app_count, n_kicks, iter, timer, off>>
    BY <1>1 DEF Change, scriptVars
  <2>2. Remaining' = Remaining /\ Place' = Place
    BY <2>1 DEF Remaining, KicksLeft, Allowed, Place
  <2>3. Place \in 0..5
    BY DEF Place, WatchInv, TypeOK
  <2> QED BY <2>2, <2>3
<1>2. CASE Killed
  <2>1. KicksLeft \in Nat /\ timer \in Nat
    BY Kicks, WatchdogAssumption DEF WatchInv, TypeOK
  <2>2. KicksLeft * Timeout \in Nat
    BY <2>1, Times
  <2>3. Place' = 0 /\ Place \in 0..5
    BY <1>2 DEF Killed, Place, WatchInv, TypeOK
  <2> QED BY <1>2, <2>1, <2>2, <2>3 DEF Killed, Remaining
<1> QED BY <1>1, <1>2

\* The safety core of LastingFailureEnds and DeadScriptEnds: from the moment the
\* processes fail for good the card has (SkippedChecks + MinFailures + 1) timeouts,
\* and one timeout from the moment its script is gone.
THEOREM DoomedRunsDown == Spec => []InTime /\ RunsDown
<1>1. WatchInv => InTime
  BY RemainingBounded DEF WatchInv
<1>2. WatchInv /\ WatchInv' /\ [Next]_vars =>
        [Doomed /\ Doomed' =>
          /\ Remaining' < Remaining \/ (Remaining' = Remaining /\ Place' <= Place)
          /\ Tick => Remaining' < Remaining
          /\ Script => Remaining' < Remaining \/ Place' < Place]_vars
  <2> SUFFICES ASSUME WatchInv, WatchInv', Next, Doomed, Doomed'
               PROVE  /\ Remaining' < Remaining \/ (Remaining' = Remaining /\ Place' <= Place)
                      /\ Tick => Remaining' < Remaining
                      /\ Script => Remaining' < Remaining \/ Place' < Place
    OBVIOUS
  <2>1. Place \in 0..5 /\ Place' \in 0..5
    BY DEF Place, WatchInv, TypeOK
  <2>2. Tick => Remaining' < Remaining
    BY TickRunsDown
  <2>3. Script => Remaining' < Remaining \/ (Remaining' = Remaining /\ Place' < Place)
    BY ScriptRunsDown
  <2>4. Change \/ Killed => Remaining' < Remaining \/ (Remaining' = Remaining /\ Place' <= Place)
    BY WorldRunsDown
  <2> QED BY <2>1, <2>2, <2>3, <2>4 DEF Next
<1> QED BY <1>1, <1>2, WatchInvariant, PTL DEF Spec, RunsDown
=============================================================================
