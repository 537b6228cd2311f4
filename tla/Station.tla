--------------------------------- MODULE Station ---------------------------------
(***************************************************************************)
(* The device with credentials: `start` from the LED's first signal,       *)
(* `sta_mode` and the accept loop of `tcp_server` (src/src/net.rs), with    *)
(* the LED task and the mutex they share.  What happens while a client is   *)
(* served is the subject of TcpSession; here a client stays any time.       *)
(*                                                                         *)
(* Time passes in ticks of TICK ms, and only when neither task can run.     *)
(* Code between two awaits is one action, as tasks are not preempted.       *)
(* gpio_set and set_power_management are taken to be shorter than a tick.   *)
(***************************************************************************)
EXTENDS Led

CONSTANT TICK   \* in ms; every duration used is a multiple of 50 ms

ASSUME StationAssumption ==
    /\ TICK \in Nat \ {0} /\ \E n \in 1..50 : n * TICK = 50
    /\ NONE \notin LedState \cup {"led", "station"}

VARIABLES
    pc,         \* where the main task is
    timer,      \* ms before its Timer fires
    pm,         \* the radio's power management
    reconnect_attempt,
    total_offline_secs,
    last,       \* the state signalled last (history)
    age,        \* ms since then, or since the join after it ended, up to LATENCY + TICK (history)
    slept       \* seconds of backoff since the last client (history)

stationVars == <<pc, timer, pm, reconnect_attempt, total_offline_secs, last, age, slept>>
vars == <<ledVars, stationVars>>

MAX_RECONNECT_SECS == 600
U8_MAX == 255
U16_MAX == 65535

\* The longest pattern that a new signal ever cuts short, in ms: Reconnecting.
LATENCY == 500

Least(a, b) == IF a < b THEN a ELSE b

backoff_duration(attempt) ==
    CASE attempt = 0 -> 5
      [] attempt = 1 -> 10
      [] attempt = 2 -> 20
      [] attempt = 3 -> 40
      [] OTHER -> 60

StationInit ==
    /\ LedInit
    /\ pc = "boot" /\ timer = 0 /\ pm = "default"
    /\ reconnect_attempt = 0 /\ total_offline_secs = 0
    /\ last = NONE /\ age = 0 /\ slept = 0

--------------------------------------------------------------------------------
(* Shared steps *)

\* LED_SIGNAL.signal(s) replaces a signal that was not taken.
SignalLed(s) ==
    /\ led_signal' = s
    /\ last' = s /\ age' = 0

ledTask == <<led_pc, playing, step, sleep, light>>

\* CONTROL_MUTEX.lock() before a call of the radio: taken at once if it is free.
Call(p) ==
    /\ pc' = p
    /\ holder' = IF holder = NONE THEN "station" ELSE holder

InCall == pc \in {"joining", "pm_none", "pm_save"}

\* A slip for the checks of the properties: the mutex is tried once, not awaited.
StationTryLock == FALSE

StationLock ==
    /\ InCall /\ holder = NONE
    /\ holder' = "station"
    /\ UNCHANGED <<led_signal, ledTask, stationVars>>

\* The head of the accept loop.
Listen ==
    /\ SignalLed("Connected")
    /\ pc' = "accept"

--------------------------------------------------------------------------------
(* start and sta_mode *)

\* start signals Booting; nothing is awaited before sta_mode signals Connecting
\* and takes the mutex.
Boot ==
    /\ pc = "boot"
    /\ SignalLed("Connecting")
    /\ Call("joining")
    /\ UNCHANGED <<ledTask, timer, pm, reconnect_attempt, total_offline_secs, slept>>

\* join (external) returns after any time.
JoinOk ==
    /\ pc = "joining" /\ holder = "station"
    /\ holder' = NONE /\ pc' = "dhcp" /\ age' = 0
    /\ UNCHANGED <<led_signal, ledTask, timer, pm, reconnect_attempt, total_offline_secs, last, slept>>

\* A slip for the checks of the properties: the guard outlives the failed join.
JoinFailHolding ==
    /\ pc = "joining" /\ holder = "station"
    /\ pc' = "join_retry" /\ age' = 0
    /\ timer' = 3000
    /\ UNCHANGED <<ledVars, pm, reconnect_attempt, total_offline_secs, last, slept>>

JoinFail ==
    /\ pc = "joining" /\ holder = "station"
    /\ holder' = NONE /\ pc' = "join_retry" /\ age' = 0
    /\ timer' = 3000
    /\ UNCHANGED <<led_signal, ledTask, pm, reconnect_attempt, total_offline_secs, last, slept>>

RetryJoin ==
    /\ pc = "join_retry" /\ timer = 0
    /\ SignalLed("Connecting")
    /\ Call("joining")
    /\ UNCHANGED <<ledTask, timer, pm, reconnect_attempt, total_offline_secs, slept>>

\* wait_config_up (external).
DhcpUp ==
    /\ pc = "dhcp"
    /\ Call("pm_save")
    /\ UNCHANGED <<led_signal, ledTask, timer, pm, reconnect_attempt, total_offline_secs,
                   last, age, slept>>

--------------------------------------------------------------------------------
(* tcp_server *)

\* After the join, and after each client.
PowerSave ==
    /\ pc = "pm_save" /\ holder = "station"
    /\ holder' = NONE /\ pm' = "power_save"
    /\ Listen
    /\ UNCHANGED <<ledTask, timer, reconnect_attempt, total_offline_secs, slept>>

AcceptOk ==
    /\ pc = "accept"
    /\ Call("pm_none")
    /\ UNCHANGED <<led_signal, ledTask, timer, pm, reconnect_attempt, total_offline_secs,
                   last, age, slept>>

\* A slip for the checks of the properties: the budget is per boot.
ServeKeepingTotal ==
    /\ pc = "pm_none" /\ holder = "station"
    /\ holder' = NONE /\ pm' = "none"
    /\ reconnect_attempt' = 0 /\ slept' = 0
    /\ pc' = "serve"
    /\ UNCHANGED <<led_signal, ledTask, timer, total_offline_secs, last, age>>

Serve ==
    /\ pc = "pm_none" /\ holder = "station"
    /\ holder' = NONE /\ pm' = "none"
    /\ reconnect_attempt' = 0 /\ total_offline_secs' = 0 /\ slept' = 0
    /\ pc' = "serve"
    /\ UNCHANGED <<led_signal, ledTask, timer, last, age>>

\* A slip for the checks of the properties: power saving is left off.
ClientGoneAwake ==
    /\ pc = "serve"
    /\ Listen
    /\ UNCHANGED <<holder, ledTask, timer, pm, reconnect_attempt, total_offline_secs, slept>>

\* handle_client returns.
ClientGone ==
    /\ pc = "serve"
    /\ Call("pm_save")
    /\ UNCHANGED <<led_signal, ledTask, timer, pm, reconnect_attempt, total_offline_secs,
                   last, age, slept>>

\* handle_client after a response with pending_reboot set.
RebootRequested ==
    /\ pc = "serve"
    /\ SignalLed("Rebooting")
    /\ timer' = 650 /\ pc' = "rebooting"
    /\ UNCHANGED <<holder, ledTask, pm, reconnect_attempt, total_offline_secs, slept>>

ResetToUsbBoot ==
    /\ pc = "rebooting" /\ timer = 0
    /\ pc' = "off"
    /\ UNCHANGED <<ledVars, timer, pm, reconnect_attempt, total_offline_secs, last, age, slept>>

\* accept fails (external).
AcceptError ==
    LET secs == backoff_duration(reconnect_attempt)
        total == Least(total_offline_secs + secs, U16_MAX)
    IN  /\ pc = "accept"
        /\ total_offline_secs' = total
        /\ \/ /\ total >= MAX_RECONNECT_SECS
              /\ SignalLed("Error")
              /\ timer' = 30000 /\ pc' = "sos"
           \/ /\ total < MAX_RECONNECT_SECS
              /\ SignalLed("Reconnecting")
              /\ timer' = 1000 * secs /\ pc' = "backoff"
        /\ UNCHANGED <<holder, ledTask, pm, reconnect_attempt, slept>>

BackoffOver ==
    /\ pc = "backoff" /\ timer = 0
    /\ reconnect_attempt' = Least(reconnect_attempt + 1, U8_MAX)
    /\ slept' = slept + backoff_duration(reconnect_attempt)
    /\ Listen
    /\ UNCHANGED <<holder, ledTask, timer, pm, total_offline_secs>>

\* The SOS loop, which nothing ends.
SosAgain ==
    /\ pc = "sos" /\ timer = 0
    /\ SignalLed("Error")
    /\ timer' = 30000
    /\ UNCHANGED <<holder, ledTask, pc, pm, reconnect_attempt, total_offline_secs, slept>>

--------------------------------------------------------------------------------
(* Time *)

TimerDue == pc \in {"join_retry", "backoff", "sos", "rebooting"} /\ timer = 0

StationReady ==
    \/ pc = "boot"
    \/ InCall /\ holder = NONE
    \/ pc \in {"pm_none", "pm_save"} /\ holder = "station"
    \/ TimerDue

Tick ==
    /\ pc # "off" /\ ~LedReady /\ ~StationReady
    /\ sleep' = IF sleep > 0 THEN sleep - TICK ELSE 0
    /\ timer' = IF timer > 0 THEN timer - TICK ELSE 0
    /\ age' = Least(age + TICK, LATENCY + TICK)
    /\ UNCHANGED <<led_signal, holder, led_pc, playing, step, light,
                   pc, pm, reconnect_attempt, total_offline_secs, last, slept>>

LedTask == pc # "off" /\ LedStep /\ UNCHANGED stationVars

\* What the executor and its timers bring about; the rest is up to the network.
StationStep ==
    \/ Boot \/ StationLock \/ RetryJoin \/ PowerSave \/ Serve
    \/ ResetToUsbBoot \/ BackoffOver \/ SosAgain

Network ==
    JoinOk \/ JoinFail \/ DhcpUp \/ AcceptOk \/ AcceptError \/ ClientGone \/ RebootRequested

StationNext == LedTask \/ StationStep \/ Network \/ Tick

\* Every task that can run is polled, and time goes on.
StationSpec ==
    /\ StationInit /\ [][StationNext]_vars
    /\ WF_vars(LedTask) /\ WF_vars(StationStep) /\ WF_vars(Tick)

--------------------------------------------------------------------------------
(* Properties *)

\* Types, and the mutex: its holder is the task that is inside a radio call.
StationTypeOK ==
    /\ led_signal \in LedState \cup {NONE} /\ playing \in LedState \cup {NONE}
    /\ led_pc \in {"wait", "lock", "set", "sleep"} /\ light \in BOOLEAN
    /\ {sleep, timer, age, slept} \subseteq Nat
    /\ holder = "led" <=> led_pc = "set"
    /\ holder = "station" => InCall
    /\ reconnect_attempt \in 0..U8_MAX /\ total_offline_secs \in 0..U16_MAX
    /\ pm \in {"default", "none", "power_save"}

\* The signal keeps only the latest state and led_task looks at it only between
\* patterns, and still the LED plays what was signalled last within one cycle of
\* the pattern it was playing, unless a join keeps the mutex from it.
LedFollows ==
    (age > LATENCY /\ pc # "joining") =>
        playing = last /\ (last = "Connected" => light)

\* A client is served with the radio awake, and no path through disconnects and
\* failed accepts leaves the radio awake without a client.
PowerFollowsClient ==
    /\ pc = "serve" => pm = "none"
    /\ pc \in {"accept", "backoff", "sos"} => pm = "power_save"

\* The seconds that n failures in a row are due.
Scheduled(n) == IF n < 4 THEN <<0, 5, 15, 35>>[n + 1] ELSE 75 + 60 * (n - 4)

\* total_offline_secs and reconnect_attempt, reset together and advanced at
\* different points of the loop, describe the same outage: the failures since the
\* last client, however many clients and outages came before.
OutageAccounting ==
    /\ pc = "accept" => total_offline_secs = slept /\ slept = Scheduled(reconnect_attempt)
    /\ pc = "backoff" => total_offline_secs = Scheduled(reconnect_attempt + 1)
    /\ pc = "sos" => Scheduled(reconnect_attempt + 1) >= MAX_RECONNECT_SECS

\* An accepted client is served, however the LED task competes for the mutex.
ClientServed == pc = "pm_none" ~> pc = "serve"

--------------------------------------------------------------------------------
(* What documents say and the code does not do *)

\* LED_STATUS.md on Error: "10 minutes of failed reconnections".  The budget
\* counts a backoff before it is slept.
SosAfterTenMinutes == pc = "sos" => slept >= MAX_RECONNECT_SECS
================================================================================
