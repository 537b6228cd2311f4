------------------------------- MODULE Provisioning -------------------------------
(***************************************************************************)
(* The device without credentials: `start` up to the choice of a mode,     *)
(* `ap_mode` with its captive portal, the test of submitted credentials    *)
(* and their record in flash (src/src/net.rs and src/src/provisioning/),    *)
(* with the LED task and the mutex they share.  A device that has          *)
(* credentials goes on as module Station says.                              *)
(*                                                                         *)
(* Power may fail at any moment.  A byte of the flash that was being        *)
(* erased or programmed then is as it was before or as it would have been.  *)
(* Time passes in ticks of TICK ms, as in Station; the pause of 50 ms       *)
(* between two requests is shorter than a tick.  No credentials were given  *)
(* at compile time.  A request that is answered without a change of state   *)
(* (redirects, /status, 400 and 404) is no action.                          *)
(***************************************************************************)
EXTENDS Led

CONSTANTS
    TICK,       \* in ms; every duration used is a multiple of 100 ms
    Forms,      \* the bodies of POST /connect
    EMPTY,      \* the empty text
    MISSING,    \* a field the body does not have
    LONG,       \* a text longer than the buffer of its field
    GARBAGE     \* what bytes that were not programmed read as

ASSUME ProvisioningAssumption ==
    /\ TICK \in Nat \ {0} /\ \E n \in 1..100 : n * TICK = 100
    /\ NONE \notin LedState \cup {"led", "station"}
    /\ \A form \in Forms : DOMAIN form = {"ssid", "password", "host", "port"}

VARIABLES
    pc,         \* where the main task is
    timer,      \* ms before its Timer fires
    ap,         \* the access point: "down", "named" (pico-setup-XXXX) or "placeholder" (pico-setup)
    candidate,  \* the credentials under test, or NONE
    flash,      \* the record last begun in flash, and its parts that are whole
    tested      \* the networks joined so far (history)

deviceVars == <<pc, timer, ap, candidate, flash, tested>>
vars == <<ledVars, deviceVars>>

--------------------------------------------------------------------------------
(* Credentials and their record *)

\* The header holds the magic number and the lengths of ssid and password, host
\* its own length.
Parts == {"header", "ssid", "password", "host", "port"}

Erased == [creds |-> NONE, whole |-> {}]
Record(creds, whole) == [creds |-> creds, whole |-> whole]

\* An empty text has no byte to lose, except the host, whose length is in its part.
Intact(fl, part) ==
    part \in fl.whole \/ (part \in {"ssid", "password"} /\ fl.creds[part] = EMPTY)

PartRead(fl, part) == IF Intact(fl, part) THEN fl.creds[part] ELSE GARBAGE

Loaded(fl) == [part \in {"ssid", "password", "host", "port"} |-> PartRead(fl, part)]

\* A slip for the checks of the properties: the password is taken as bytes.
LoadUnchecked(fl) ==
    IF /\ fl.creds # NONE /\ "header" \in fl.whole
       /\ \A part \in {"ssid", "host"} : Intact(fl, part)
    THEN Loaded(fl) ELSE NONE

\* load_credentials_flash.  Unprogrammed bytes are 0xFF: no magic number, no
\* length within its limit and no UTF-8; but any two bytes are a port.
Load(fl) ==
    IF /\ fl.creds # NONE /\ "header" \in fl.whole
       /\ \A part \in {"ssid", "password", "host"} : Intact(fl, part)
    THEN Loaded(fl) ELSE NONE

\* What a device joins.
Network(creds) == IF creds = NONE THEN NONE ELSE <<creds.ssid, creds.password>>

\* push_str into a bounded string: all of the text or nothing.
push_str(text) == IF text \in {LONG, MISSING} THEN EMPTY ELSE text

\* parse_connect_form and the copies made of its texts.
Submitted(form) ==
    [ssid |-> push_str(form.ssid), password |-> push_str(form.password),
     host |-> push_str(form.host), port |-> form.port]

ASSUME FormAssumption == \A form \in Forms : Submitted(form) # NONE

ProvisioningInit ==
    /\ LedInit
    /\ pc = "boot" /\ timer = 0 /\ ap = "down"
    /\ candidate = NONE /\ flash = Erased /\ tested = {}

--------------------------------------------------------------------------------
(* Shared steps *)

SignalLed(s) == led_signal' = s

ledTask == <<led_pc, playing, step, sleep, light>>

\* CONTROL_MUTEX.lock() before a call of the radio: taken at once if it is free.
\* The guards of two calls in a row are dropped and taken without a pause.
Call(p) ==
    /\ pc' = p
    /\ holder' = IF holder = NONE THEN "station" ELSE holder

InCall == pc \in {"mac", "start_ap", "scanning", "close_ap", "joining", "restart_ap"}

\* RAM is lost and the radio is off.
Restarted ==
    /\ led_signal' = NONE /\ holder' = NONE /\ led_pc' = "wait" /\ playing' = NONE
    /\ step' = 1 /\ sleep' = 0 /\ light' = FALSE
    /\ pc' = "boot" /\ timer' = 0 /\ ap' = "down" /\ candidate' = NONE
    /\ UNCHANGED tested

DeviceLock ==
    /\ InCall /\ holder = NONE
    /\ holder' = "station"
    /\ UNCHANGED <<led_signal, ledTask, deviceVars>>

--------------------------------------------------------------------------------
(* start *)

\* The button was held for all of check_factory_reset: Saving replaces Booting
\* and the flash is erased before anything is awaited.
FactoryReset ==
    /\ pc = "boot"
    /\ SignalLed("Saving")
    /\ pc' = "erase"
    /\ UNCHANGED <<holder, ledTask, timer, ap, candidate, flash, tested>>

\* erase_credentials_flash, whose failure is ignored, and the watchdog.
FactoryErase ==
    /\ pc = "erase"
    /\ flash' \in {flash, Erased}
    /\ Restarted

BootStation ==
    /\ pc = "boot" /\ Load(flash) # NONE
    /\ SignalLed("Connecting")
    /\ pc' = "station"
    /\ UNCHANGED <<holder, ledTask, timer, ap, candidate, flash, tested>>

BootPortal ==
    /\ pc = "boot" /\ Load(flash) = NONE
    /\ SignalLed("Booting")
    /\ Call("mac")
    /\ UNCHANGED <<ledTask, timer, ap, candidate, flash, tested>>

--------------------------------------------------------------------------------
(* ap_mode *)

MacRead ==
    /\ pc = "mac" /\ holder = "station"
    /\ pc' = "start_ap"
    /\ UNCHANGED <<ledVars, timer, ap, candidate, flash, tested>>

ApStarted ==
    /\ pc = "start_ap" /\ holder = "station"
    /\ holder' = NONE /\ ap' = "named"
    /\ SignalLed("Provisioning")
    /\ timer' = 200 /\ pc' = "stack_up"
    /\ UNCHANGED <<ledTask, candidate, flash, tested>>

StackUp ==
    /\ pc = "stack_up" /\ timer = 0
    /\ pc' = "portal"
    /\ UNCHANGED <<ledVars, timer, ap, candidate, flash, tested>>

\* GET / : serve_scan_form.
GetForm ==
    /\ pc = "portal"
    /\ SignalLed("Scanning")
    /\ Call("scanning")
    /\ UNCHANGED <<ledTask, timer, ap, candidate, flash, tested>>

\* A slip for the checks of the properties: the guard outlives the scan.
ScanDoneHolding ==
    /\ pc = "scanning" /\ holder = "station"
    /\ SignalLed("Provisioning")
    /\ pc' = "portal"
    /\ UNCHANGED <<holder, ledTask, timer, ap, candidate, flash, tested>>

\* The scan (external) takes any time.
ScanDone ==
    /\ pc = "scanning" /\ holder = "station"
    /\ holder' = NONE
    /\ SignalLed("Provisioning")
    /\ pc' = "portal"
    /\ UNCHANGED <<ledTask, timer, ap, candidate, flash, tested>>

--------------------------------------------------------------------------------
(* POST /connect and handle_provision *)

PostForm(form) ==
    /\ pc = "portal"
    /\ MISSING \notin {form.ssid, form.password}
    /\ candidate' = Submitted(form)
    /\ SignalLed("Connecting")
    /\ Call("close_ap")
    /\ UNCHANGED <<ledTask, timer, ap, flash, tested>>

ApClosed ==
    /\ pc = "close_ap" /\ holder = "station"
    /\ ap' = "down" /\ pc' = "joining"
    /\ timer' = 15000
    /\ UNCHANGED <<ledVars, candidate, flash, tested>>

\* The network takes the candidate; the flash is written before anything is awaited.
JoinOk ==
    /\ pc = "joining" /\ holder = "station"
    /\ holder' = NONE /\ pc' = "save"
    /\ timer' = 0
    /\ tested' = tested \cup {Network(candidate)}
    /\ UNCHANGED <<led_signal, ledTask, ap, candidate, flash>>

\* A slip for the checks of the properties: back to the portal at once.
JoinFailOnly ==
    /\ pc = "joining" /\ holder = "station"
    /\ holder' = NONE /\ pc' = "portal" /\ timer' = 0
    /\ candidate' = NONE
    /\ SignalLed("Provisioning")
    /\ UNCHANGED <<ledTask, ap, flash, tested>>

\* join fails.
JoinFail ==
    /\ pc = "joining" /\ holder = "station"
    /\ pc' = "restart_ap" /\ timer' = 0
    /\ UNCHANGED <<ledVars, ap, candidate, flash, tested>>

\* A slip for the checks of the properties: the join is awaited without a limit.
JoinEndless == FALSE

\* with_timeout gives up after 15 s.
JoinTimeout ==
    /\ pc = "joining" /\ holder = "station" /\ timer = 0
    /\ pc' = "restart_ap"
    /\ UNCHANGED <<ledVars, timer, ap, candidate, flash, tested>>

\* A slip for the checks of the properties: two seconds before the reset.
SaveOkShort ==
    /\ pc = "save"
    /\ flash' = Record(candidate, Parts)
    /\ SignalLed("Saving")
    /\ timer' = 2000 /\ pc' = "saved"
    /\ UNCHANGED <<holder, ledTask, ap, candidate, tested>>

\* save_credentials_flash: erase and write.
SaveOk ==
    /\ pc = "save"
    /\ flash' = Record(candidate, Parts)
    /\ SignalLed("Saving")
    /\ timer' = 3000 /\ pc' = "saved"
    /\ UNCHANGED <<holder, ledTask, ap, candidate, tested>>

\* The erase fails, or the write after it.
SaveFail ==
    /\ pc = "save"
    /\ flash' \in {flash, Erased}
    /\ Call("restart_ap")
    /\ UNCHANGED <<led_signal, ledTask, timer, ap, candidate, tested>>

\* leave and start_ap_open with the placeholder name.
ApRestarted ==
    /\ pc = "restart_ap" /\ holder = "station"
    /\ holder' = NONE /\ ap' = "placeholder"
    /\ SignalLed("Provisioning")
    /\ pc' = "portal" /\ candidate' = NONE
    /\ UNCHANGED <<ledTask, timer, flash, tested>>

WatchdogReset ==
    /\ pc = "saved" /\ timer = 0
    /\ Restarted
    /\ UNCHANGED flash

--------------------------------------------------------------------------------
(* Power, time and the executor *)

\* An erase in progress has kept some parts of the record, a write has done some.
TornBy(p) ==
    {Record(flash.creds, whole) : whole \in SUBSET flash.whole}
        \cup (IF p = "save" THEN {Record(candidate, whole) : whole \in SUBSET Parts} ELSE {})

PowerCut ==
    /\ pc # "boot"
    /\ IF pc \in {"save", "erase"} THEN flash' \in TornBy(pc) ELSE UNCHANGED flash
    /\ Restarted

\* The flash is erased and written without an await.
LedTask == pc \notin {"save", "erase", "station"} /\ LedStep /\ UNCHANGED deviceVars

DeviceReady ==
    \/ pc \in {"boot", "erase", "save", "station"}
    \/ InCall /\ holder = NONE
    \/ pc \in {"mac", "start_ap", "close_ap", "restart_ap"} /\ holder = "station"
    \/ pc \in {"stack_up", "joining", "saved"} /\ timer = 0

Tick ==
    /\ ~LedReady /\ ~DeviceReady
    /\ sleep' = IF sleep > 0 THEN sleep - TICK ELSE 0
    /\ timer' = IF timer > 0 THEN timer - TICK ELSE 0
    /\ UNCHANGED <<led_signal, holder, led_pc, playing, step, light,
                   pc, ap, candidate, flash, tested>>

\* What the executor, its timers and short calls of the radio bring about.
DeviceStep ==
    \/ FactoryReset \/ FactoryErase \/ BootStation \/ BootPortal \/ DeviceLock
    \/ MacRead \/ ApStarted \/ StackUp \/ ApClosed \/ JoinTimeout
    \/ SaveOk \/ SaveFail \/ ApRestarted \/ WatchdogReset

\* The rest is up to the user and the network.
Environment ==
    \/ GetForm \/ ScanDone \/ JoinOk \/ JoinFail \/ PowerCut
    \/ \E form \in Forms : PostForm(form)

ProvisioningNext == LedTask \/ DeviceStep \/ Environment \/ Tick

\* Every task that can run is polled, and time goes on.
ProvisioningSpec ==
    /\ ProvisioningInit /\ [][ProvisioningNext]_vars
    /\ WF_vars(LedTask) /\ WF_vars(DeviceStep) /\ WF_vars(Tick)

--------------------------------------------------------------------------------
(* Properties *)

\* Types, and the mutex: its holder is the task that is inside a radio call.
ProvisioningTypeOK ==
    /\ led_signal \in LedState \cup {NONE} /\ playing \in LedState \cup {NONE}
    /\ led_pc \in {"wait", "lock", "set", "sleep"} /\ light \in BOOLEAN
    /\ {sleep, timer} \subseteq Nat
    /\ holder = "led" <=> led_pc = "set"
    /\ holder = "station" => InCall
    /\ candidate = NONE <=> pc \in {"boot", "erase", "station", "mac", "start_ap",
                                    "stack_up", "portal", "scanning"}
    /\ flash.whole \subseteq Parts

Store == INSTANCE CredentialStore WITH stored <- Network(Load(flash)), joined <- tested

\* Whatever the user submits and whenever the power fails, inside the erase or the
\* write included, the next boot joins a network that was joined before or opens
\* the portal, and a stored network is only ever forgotten, never replaced.
RefinesCredentialStore == Store!Spec

\* A portal that waits for requests is on the air, after every way a test can end.
PortalReachable == pc \in {"portal", "scanning"} => ap # "down"

\* The three seconds before the reset are enough for the LED task, which finishes
\* the pattern it was playing first, to begin all five flashes of Saving.
SavingShown ==
    (pc = "saved" /\ timer = 0) => playing = "Saving" /\ step >= Len(Steps) - 1

\* Every test of credentials ends, with the portal or a reboot.
TestEnds == pc = "close_ap" ~> pc \in {"portal", "boot"}
================================================================================
