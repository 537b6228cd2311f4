----------------------------------- MODULE Led -----------------------------------
(***************************************************************************)
(* The LED task: LedState and its patterns (src/src/led.rs), LED_SIGNAL,   *)
(* and `led_task` and `set_led` (src/src/net.rs), which drive the LED       *)
(* through the radio chip and so share CONTROL_MUTEX with the tasks that    *)
(* join, scan and manage power.                                             *)
(*                                                                         *)
(* A module that composes the LED task with its writers moves `sleep`      *)
(* forward in time and takes and releases `holder` for them.                *)
(***************************************************************************)
EXTENDS Integers, Sequences

CONSTANTS NONE

VARIABLES
    led_signal, \* LED_SIGNAL: the latest state signalled and not yet taken
    holder,     \* who holds CONTROL_MUTEX: NONE, "led" or "station"
    led_pc,     \* "wait" (LED_SIGNAL), "lock", "set" (gpio_set) or "sleep"
    playing,    \* the state whose pattern led_task is playing
    step,       \* the pattern's step, from 1
    sleep,      \* ms before the step ends
    light       \* the LED is on

ledVars == <<led_signal, holder, led_pc, playing, step, sleep, light>>

--------------------------------------------------------------------------------
(* Patterns: sequences of <<on, ms>> *)

Flashes(n, on, off) ==
    [i \in 1..2 * n |-> IF i % 2 = 1 THEN <<TRUE, on>> ELSE <<FALSE, off>>]
Off(ms) == <<<<FALSE, ms>>>>

\* Three signs of the Morse code and the gap after them.
Letter(on, gap) == Flashes(2, on, 100) \o Flashes(1, on, gap)
SOS_TIMING == Letter(100, 300) \o Letter(300, 300) \o Letter(100, 2000)

Solid == [kind |-> "solid", steps |-> <<>>]
Repeat(steps) == [kind |-> "repeat", steps |-> steps]
OneShot(steps) == [kind |-> "one_shot", steps |-> steps]

pattern ==
    [Booting        |-> Repeat(Flashes(3, 100, 100) \o Off(1000)),
     Provisioning   |-> Repeat(Flashes(1, 1000, 1000)),
     Scanning       |-> Repeat(Flashes(2, 100, 100) \o Off(700)),
     Connecting     |-> Repeat(Flashes(1, 100, 100)),
     Connected      |-> Solid,
     Reconnecting   |-> Repeat(Flashes(1, 250, 250)),
     Error          |-> Repeat(SOS_TIMING),
     Saving         |-> OneShot(Flashes(5, 100, 100)),
     Rebooting      |-> OneShot(Flashes(10, 50, 50)),
     MqttConnecting |-> Repeat(Flashes(3, 80, 80) \o Off(500)),
     MqttConnected  |-> Solid]

LedState == DOMAIN pattern
Steps == pattern[playing].steps

LedInit ==
    /\ led_signal = NONE /\ holder = NONE
    /\ led_pc = "wait" /\ playing = NONE
    /\ step = 1 /\ sleep = 0 /\ light = FALSE

--------------------------------------------------------------------------------
(* led_task *)

\* LED_SIGNAL.wait(): take the latest state; older ones are gone.
LedReceive ==
    /\ led_pc = "wait" /\ led_signal # NONE
    /\ playing' = led_signal /\ led_signal' = NONE
    /\ step' = 1 /\ led_pc' = "lock"
    /\ UNCHANGED <<holder, sleep, light>>

LedLock ==
    /\ led_pc = "lock" /\ holder = NONE
    /\ holder' = "led" /\ led_pc' = "set"
    /\ UNCHANGED <<led_signal, playing, step, sleep, light>>

\* gpio_set has returned and the guard is dropped.  After the steps of a one-shot
\* pattern the LED is off; a solid state has no steps.
LedSet ==
    /\ led_pc = "set"
    /\ holder' = NONE
    /\ \/ /\ step \in DOMAIN Steps
          /\ light' = Steps[step][1] /\ sleep' = Steps[step][2]
          /\ led_pc' = "sleep"
       \/ /\ step \notin DOMAIN Steps
          /\ light' = (pattern[playing].kind = "solid")
          /\ led_pc' = "wait" /\ UNCHANGED sleep
    /\ UNCHANGED <<led_signal, playing, step>>

\* A slip for the checks of the properties: a repeated pattern is left only when
\* it is told to stop.
LedWakeDeaf ==
    /\ led_pc = "sleep" /\ sleep = 0
    /\ \/ /\ step < Len(Steps) \/ pattern[playing].kind = "one_shot"
          /\ step' = step + 1 /\ led_pc' = "lock"
       \/ /\ step = Len(Steps) /\ pattern[playing].kind = "repeat"
          /\ step' = 1 /\ led_pc' = "lock"
    /\ UNCHANGED <<led_signal, holder, playing, sleep, light>>

\* The step's timer: go on with the pattern, end a one-shot, and at the end of a
\* repeated one look for a new signal.
LedWake ==
    /\ led_pc = "sleep" /\ sleep = 0
    /\ \/ /\ step < Len(Steps) \/ pattern[playing].kind = "one_shot"
          /\ step' = step + 1 /\ led_pc' = "lock"
       \/ /\ step = Len(Steps) /\ pattern[playing].kind = "repeat"
          /\ IF led_signal # NONE
             THEN led_pc' = "wait" /\ UNCHANGED step
             ELSE led_pc' = "lock" /\ step' = 1
    /\ UNCHANGED <<led_signal, holder, playing, sleep, light>>

LedStep == LedReceive \/ LedLock \/ LedSet \/ LedWake

\* The task can go on at once.
LedReady ==
    \/ led_pc = "wait" /\ led_signal # NONE
    \/ led_pc = "lock" /\ holder = NONE
    \/ led_pc = "set"
    \/ led_pc = "sleep" /\ sleep = 0
================================================================================
