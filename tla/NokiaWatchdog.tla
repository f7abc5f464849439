---------------------------- MODULE NokiaWatchdog ----------------------------
(***************************************************************************)
(* The hardware watchdog of the chassis cards: the script that watches the *)
(* health of the platform processes and kicks the watchdog                 *)
(* (common/utils/nokia-watchdog.sh), and the driver, which can start the   *)
(* timer and kick it but not stop it (chassis/modules/nokia_gpio_wdt.c).   *)
(* Time goes in ticks; what the script does between its sleeps and checks  *)
(* takes none.                                                             *)
(***************************************************************************)
EXTENDS Integers

CONSTANTS
    Timeout,          \* of the hardware, from the last kick
    SleepTime,        \* watchdog_sleep_time, the rounds of wait_for_sleep_time
    MaxCheck,         \* a health check takes at most this long
    RebootTime,       \* a call of reboot that does nothing takes at most this long
    MinFailures,      \* min_app_count_failures
    SkippedChecks     \* n_kicks at the start

ASSUME WatchdogAssumption ==
    /\ Timeout \in Nat /\ SleepTime \in Nat /\ MaxCheck \in Nat /\ RebootTime \in Nat
    /\ MinFailures \in Nat /\ SkippedChecks \in Nat
    /\ 0 < SleepTime /\ 0 < RebootTime /\ 0 < MinFailures
    /\ SleepTime * RebootTime + MaxCheck < Timeout

VARIABLES
    healthy, hung,       \* the platform processes; /tmp/fsde_dev_hung_sig exists
    monitored,           \* the option disable_watchdog_hm is not set
    pc, left,            \* the script's place, and the ticks it stays there
    app_count, n_kicks, iter,
    timer,               \* ticks until the hardware resets the card
    bad,                 \* ghost: failed checks since the last that did not fail
    off                  \* "no", "reset" by the hardware, "reboot" by the script

worldVars  == <<healthy, hung, monitored>>
scriptVars == <<pc, left, app_count, n_kicks, iter>>
vars == <<worldVars, scriptVars, timer, bad, off>>

\* Opening /dev/watchdog starts the timer, and the first kick follows at once.
Init ==
    /\ healthy \in BOOLEAN /\ hung = FALSE /\ monitored \in BOOLEAN
    /\ pc = "loop" /\ left = 0
    /\ app_count = 0 /\ n_kicks = SkippedChecks /\ iter = 0
    /\ timer = Timeout /\ bad = 0 /\ off = "no"

Running == off = "no" /\ pc # "dead" /\ left = 0

\* --- the script ------------------------------------------------------------------

Capped(n) == IF n <= MinFailures THEN n ELSE MinFailures
CountsAll(ok) == app_count' = Capped(app_count + 1)   \* a mutant: never set back
Counts(ok) == app_count' = IF ok THEN 0 ELSE Capped(app_count + 1)

Skips == n_kicks > 0
Loop ==
    /\ Running /\ pc = "loop"
    /\ IF Skips THEN n_kicks' = n_kicks - 1 /\ pc' = "kick" /\ UNCHANGED left
       ELSE /\ UNCHANGED n_kicks
            /\ IF monitored THEN pc' = "check" /\ left' \in 0..MaxCheck
               ELSE pc' = "kick" /\ UNCHANGED left
    /\ UNCHANGED <<worldVars, app_count, iter, timer, bad, off>>

GivenUpKicking == "kick"   \* a mutant: without the continue
\* Too many failures: no kick in this round.
GivenUp == "sleep"
\* The script returns what the health is now; without the script all is well.
Check ==
    /\ Running /\ pc = "check"
    /\ Counts(healthy)
    /\ bad' = IF healthy THEN 0 ELSE Capped(bad + 1)
    /\ pc' = IF app_count' >= MinFailures THEN GivenUp ELSE "kick"
    /\ iter' = SleepTime
    /\ UNCHANGED <<worldVars, left, n_kicks, timer, off>>

Kick ==
    /\ Running /\ pc = "kick"
    /\ timer' = Timeout
    /\ pc' = "sleep" /\ iter' = SleepTime
    /\ UNCHANGED <<worldVars, left, app_count, n_kicks, bad, off>>

\* wait_for_sleep_time: in each round it sleeps a tick, or calls reboot, which may
\* do nothing.
Sleep ==
    /\ Running /\ pc = "sleep" /\ iter > 0
    /\ iter' = iter - 1
    /\ \/ hung /\ off' = "reboot" /\ UNCHANGED left
       \/ hung /\ left' \in 1..RebootTime /\ UNCHANGED off
       \/ ~ hung /\ left' = 1 /\ UNCHANGED off
    /\ UNCHANGED <<worldVars, pc, app_count, n_kicks, timer, bad>>

Again ==
    /\ Running /\ pc = "sleep" /\ iter = 0
    /\ pc' = "loop"
    /\ UNCHANGED <<worldVars, left, app_count, n_kicks, iter, timer, bad, off>>

\* --- the world ---------------------------------------------------------------------

ClosedKicked == Timeout   \* a mutant: the kernel kicks on
\* nokia_gpio_wdt_stop leaves the timer running, and the kernel does not kick.
Closed == timer
Tick ==
    /\ off = "no" /\ (left > 0 \/ pc = "dead")
    /\ left' = IF left > 0 THEN left - 1 ELSE 0
    /\ timer' = (IF pc = "dead" THEN Closed ELSE timer) - 1
    /\ off' = IF timer = 1 THEN "reset" ELSE "no"
    /\ UNCHANGED <<worldVars, pc, app_count, n_kicks, iter, bad>>

Change ==
    /\ off = "no"
    /\ healthy' \in BOOLEAN /\ hung' \in BOOLEAN
    /\ <<healthy', hung'>> # <<healthy, hung>>
    /\ UNCHANGED <<monitored, scriptVars, timer, bad, off>>

\* Nobody starts the script again, and closing its descriptor stops nothing.
Killed ==
    /\ off = "no" /\ pc # "dead"
    /\ pc' = "dead" /\ left' = 0
    /\ UNCHANGED <<worldVars, app_count, n_kicks, iter, timer, bad, off>>

Script == Loop \/ Check \/ Kick \/ Sleep \/ Again
Next == Script \/ Tick \/ Change \/ Killed
Spec == Init /\ [][Next]_vars /\ WF_vars(Script) /\ WF_vars(Tick)

\* --- properties ------------------------------------------------------------------------

TypeOK ==
    /\ healthy \in BOOLEAN /\ hung \in BOOLEAN /\ monitored \in BOOLEAN
    /\ pc \in {"loop", "check", "kick", "sleep", "dead"}
    /\ left \in 0..MaxCheck + RebootTime
    /\ app_count \in 0..MinFailures /\ n_kicks \in 0..SkippedChecks
    /\ iter \in 0..SleepTime /\ timer \in 0..Timeout /\ bad \in 0..MinFailures
    /\ off \in {"no", "reset", "reboot"}
    /\ off = "reset" <=> timer = 0

\* The hardware resets the card only after as many failed checks in a row as the
\* script allows for restarts of processes, or when the script is gone.
ResetOnlyIfFailing == off = "reset" => bad >= MinFailures \/ pc = "dead"

\* If the processes stay unhealthy the card goes down, however they came and went
\* before, whether or not the reboots for a hung device work.
LastingFailureEnds == <>[](~ healthy /\ monitored) => <>(off # "no")

\* A card whose script is gone does not run on unwatched.
DeadScriptEnds == pc = "dead" ~> off = "reset"
=============================================================================
