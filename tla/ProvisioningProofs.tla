---------------------------- MODULE ProvisioningProofs ----------------------------
(***************************************************************************)
(* Provisioning implements CredentialStore, for all forms, texts and ticks. *)
(* The refinement needs an invariant of three parts: the record in flash,   *)
(* however torn, is of a network that was joined; credentials are written   *)
(* only after they joined; and while the portal's code runs the flash holds *)
(* nothing that loads, so that a save never replaces a network.  That the   *)
(* portal is on the air follows from a small invariant of its own.          *)
(* ShownInv counts the milliseconds of the LED's patterns against the three *)
(* seconds that a save leaves before the reset.                             *)
(*                                                                         *)
(* Last the requests, for TestedAsSent.  The loops over bytes are unfolded  *)
(* one byte at a time, and what the browser encodes is followed through     *)
(* the decoder, the cut at "&" and the fields, for any text and for any     *)
(* beginning of a body: what a client broke off is the fields before the    *)
(* cut and the beginning of one.  Behind a rest of headers the name "ssid"  *)
(* is never the first byte of a pair, so such a form has no ssid.           *)
(***************************************************************************)
EXTENDS PortalRequest, SequenceLemmas


\* Where the portal's code is running.
InPortal ==
    pc \in {"mac", "start_ap", "stack_up", "portal", "scanning", "close_ap",
            "joining", "save", "restart_ap"}

\* Whatever is in flash, or about to be, was joined; a portal has nothing to replace.
StoreInv ==
    /\ flash.creds # NONE => Network(flash.creds) \in tested
    /\ pc = "save" => Network(candidate) \in tested
    /\ InPortal => Load(flash) = NONE

\* The refinement mapping's variable, as in Provisioning.
stored == Network(Load(flash))

\* A record that loads is of the network it was written for: a part that the
\* power cut short is either noticed or not part of the network.
LEMMA LoadedNetwork ==
    ASSUME NEW fl
    PROVE  \/ Network(Load(fl)) = NONE
           \/ fl.creds # NONE /\ Network(Load(fl)) = Network(fl.creds)
<1>1. CASE Load(fl) = NONE
  BY <1>1 DEF Network
<1>2. CASE Load(fl) # NONE
  <2>1. /\ fl.creds # NONE
        /\ Intact(fl, "ssid") /\ Intact(fl, "password")
        /\ Load(fl) = Loaded(fl)
    BY <1>2 DEF Load
  <2>2. Loaded(fl).ssid = fl.creds["ssid"] /\ Loaded(fl).password = fl.creds["password"]
    BY <2>1 DEF Loaded, PartRead
  <2> QED BY <1>2, <2>1, <2>2 DEF Network
<1> QED BY <1>1, <1>2

\* load() finds no magic number in an erased page.
LEMMA ErasedDoesNotLoad == Load(Erased) = NONE
BY DEF Load, Erased

\* What a power cut leaves of a record, or of the record that was to replace it.
LEMMA TornRecord ==
    ASSUME NEW p, NEW fl \in TornBy(p)
    PROVE  fl.creds = flash.creds \/ (p = "save" /\ fl.creds = candidate)
BY DEF TornBy, Record

--------------------------------------------------------------------------------
(* The invariant *)

\* Steps that leave the record and the history of joins alone.
LEMMA QuietStep ==
    ASSUME StoreInv, UNCHANGED <<flash, tested>>, pc' # "save" \/ UNCHANGED <<pc, candidate>>,
           InPortal' => InPortal \/ Load(flash) = NONE
    PROVE  StoreInv'
BY DEF StoreInv, InPortal

\* The steps of flash and of the test that precedes it.
LEMMA JoinOkStep ==
    ASSUME StoreInv, JoinOk
    PROVE  StoreInv'
BY DEF StoreInv, InPortal, JoinOk

\* A save writes the form that was tested.
LEMMA SaveOkStep ==
    ASSUME StoreInv, SaveOk
    PROVE  StoreInv'
BY DEF StoreInv, InPortal, SaveOk, Record

\* A save that fails leaves the record that was there, which does not load, or none.
LEMMA SaveFailStep ==
    ASSUME StoreInv, SaveFail
    PROVE  StoreInv'
<1>1. flash' \in {flash, Erased} /\ UNCHANGED <<tested, candidate>> /\ pc' = "restart_ap" /\ InPortal
  BY DEF SaveFail, Call, InPortal
<1>2. Load(flash') = NONE
  BY <1>1, ErasedDoesNotLoad DEF StoreInv
<1> QED BY <1>1, <1>2 DEF StoreInv, Erased

\* A factory reset erases the record or fails to.
LEMMA FactoryEraseStep ==
    ASSUME StoreInv, FactoryErase
    PROVE  StoreInv'
<1>1. flash' \in {flash, Erased} /\ pc' = "boot" /\ UNCHANGED tested
  BY DEF FactoryErase, Restarted
<1> QED BY <1>1 DEF StoreInv, InPortal, Erased

\* A power cut tears the record that is being written or erased.
LEMMA PowerCutStep ==
    ASSUME StoreInv, PowerCut
    PROVE  StoreInv'
<1>1. pc' = "boot" /\ UNCHANGED tested
  BY DEF PowerCut, Restarted
<1>2. \/ flash'.creds = flash.creds
      \/ pc = "save" /\ flash'.creds = candidate
  BY TornRecord DEF PowerCut
<1> QED BY <1>1, <1>2 DEF StoreInv, InPortal

\* The record, the candidate and the phase agree after every step.
LEMMA StoreInvariance == ProvisioningSpec => []StoreInv
<1>1. ProvisioningInit => StoreInv
  BY DEF ProvisioningInit, StoreInv, InPortal, Erased
<1>2. StoreInv /\ [ProvisioningNext]_vars => StoreInv'
  <2> SUFFICES ASSUME StoreInv, [ProvisioningNext]_vars PROVE StoreInv'
    OBVIOUS
  <2>1. CASE LedTask
    BY <2>1, QuietStep DEF LedTask, deviceVars, InPortal
  <2>2. CASE DeviceStep
    <3>1. CASE FactoryReset
      BY <3>1, QuietStep DEF FactoryReset, InPortal
    <3>2. CASE FactoryErase
      BY <3>2, FactoryEraseStep
    <3>3. CASE BootStation
      BY <3>3, QuietStep DEF BootStation, InPortal
    <3>4. CASE BootPortal
      BY <3>4, QuietStep DEF BootPortal, Call
    <3>5. CASE DeviceLock
      BY <3>5, QuietStep DEF DeviceLock, deviceVars, InPortal
    <3>6. CASE MacRead
      BY <3>6, QuietStep DEF MacRead, InPortal
    <3>7. CASE ApStarted
      BY <3>7, QuietStep DEF ApStarted, InPortal
    <3>8. CASE StackUp
      BY <3>8, QuietStep DEF StackUp, InPortal
    <3>9. CASE ApClosed
      BY <3>9, QuietStep DEF ApClosed, InPortal
    <3>10. CASE JoinTimeout
      BY <3>10, QuietStep DEF JoinTimeout, InPortal
    <3>11. CASE SaveOk
      BY <3>11, SaveOkStep
    <3>12. CASE SaveFail
      BY <3>12, SaveFailStep
    <3>13. CASE ApRestarted
      BY <3>13, QuietStep DEF ApRestarted, InPortal
    <3>14. CASE WatchdogReset
      BY <3>14, QuietStep DEF WatchdogReset, Restarted, InPortal
    <3> QED BY <2>2, <3>1, <3>2, <3>3, <3>4, <3>5, <3>6, <3>7, <3>8, <3>9, <3>10, <3>11,
               <3>12, <3>13, <3>14 DEF DeviceStep
  <2>3. CASE Environment
    <3>1. CASE GetForm
      BY <3>1, QuietStep DEF GetForm, Call, InPortal
    <3>2. CASE ScanDone
      BY <3>2, QuietStep DEF ScanDone, InPortal
    <3>3. CASE JoinOk
      BY <3>3, JoinOkStep
    <3>4. CASE JoinFail
      BY <3>4, QuietStep DEF JoinFail, InPortal
    <3>5. CASE PowerCut
      BY <3>5, PowerCutStep
    <3>6. ASSUME NEW form \in Forms, PostForm(form)
          PROVE  StoreInv'
      BY <3>6, QuietStep DEF PostForm, Call, InPortal
    <3> QED BY <2>3, <3>1, <3>2, <3>3, <3>4, <3>5, <3>6 DEF Environment
  <2>4. CASE Tick
    BY <2>4, QuietStep DEF Tick, InPortal
  <2>5. CASE UNCHANGED vars
    BY <2>5, QuietStep DEF vars, deviceVars, InPortal
  <2> QED BY <2>1, <2>2, <2>3, <2>4, <2>5 DEF ProvisioningNext
<1> QED BY <1>1, <1>2, PTL DEF ProvisioningSpec

--------------------------------------------------------------------------------
(* The refinement *)

\* A change of the record that keeps its network, loses it, or brings one that
\* was joined to a flash that had none, is a step of the store.
LEMMA RecordStep ==
    ASSUME StoreInv, UNCHANGED tested,
           \/ flash'.creds = flash.creds
           \/ flash'.creds = NONE
           \/ InPortal /\ Network(flash'.creds) \in tested
    PROVE  [Store!Next]_<<stored, tested>>
<1>1. CASE stored' = NONE
  BY <1>1 DEF Store!Next, Store!Forget, stored
<1>2. CASE stored' # NONE
  <2>1. flash'.creds # NONE /\ stored' = Network(flash'.creds)
    BY <1>2, LoadedNetwork DEF stored
  <2>2. CASE stored = NONE
    <3>1. stored' \in tested
      BY <2>1 DEF StoreInv
    <3> QED BY <2>2, <3>1 DEF Store!Next, Store!Remember, stored
  <2>3. CASE stored # NONE
    <3>1. flash.creds # NONE /\ stored = Network(flash.creds)
      BY <2>3, LoadedNetwork DEF stored
    <3>2. ~InPortal
      BY <2>3 DEF StoreInv, stored, Network
    <3> QED BY <2>1, <3>1, <3>2
  <2> QED BY <2>2, <2>3
<1> QED BY <1>1, <1>2

\* A step that leaves the record alone changes what was joined or nothing.
LEMMA SameRecordStep ==
    ASSUME UNCHANGED flash, UNCHANGED tested \/ JoinOk
    PROVE  [Store!Next]_<<stored, tested>>
<1>1. UNCHANGED stored
  BY DEF stored
<1>2. CASE JoinOk
  <2>1. Network(candidate) \in tested' /\ tested' = tested \cup {Network(candidate)}
    BY <1>2 DEF JoinOk
  <2> QED BY <1>1, <2>1 DEF Store!Next, Store!Join, stored
<1> QED BY <1>1, <1>2

\* RefinesCredentialStore (handle_provision, save_credentials_flash,
\* load_credentials_flash and the factory reset): whatever is submitted, and
\* whenever the power fails, the device remembers only networks that it joined and
\* never replaces one.
THEOREM ProvisioningImplementsStore == ProvisioningSpec => RefinesCredentialStore
<1>1. ProvisioningInit => Store!Init
  BY ErasedDoesNotLoad DEF ProvisioningInit, Store!Init, Network
<1>2. StoreInv /\ [ProvisioningNext]_vars => [Store!Next]_<<stored, tested>>
  <2> SUFFICES ASSUME StoreInv, [ProvisioningNext]_vars
               PROVE  [Store!Next]_<<stored, tested>>
    OBVIOUS
  <2>1. CASE FactoryErase
    BY <2>1, RecordStep DEF FactoryErase, Restarted, Erased
  <2>2. CASE SaveOk
    <3>1. InPortal /\ UNCHANGED tested /\ flash'.creds = candidate /\ pc = "save"
      BY <2>2 DEF SaveOk, InPortal, Record
    <3> QED BY <3>1, RecordStep DEF StoreInv
  <2>3. CASE SaveFail
    BY <2>3, RecordStep DEF SaveFail, Erased
  <2>4. CASE PowerCut
    <3>1. UNCHANGED tested
      BY <2>4 DEF PowerCut, Restarted
    <3>2. \/ flash'.creds = flash.creds
          \/ pc = "save" /\ flash'.creds = candidate
      BY <2>4, TornRecord DEF PowerCut
    <3>3. pc = "save" => InPortal /\ Network(candidate) \in tested
      BY DEF StoreInv, InPortal
    <3> QED BY <3>1, <3>2, <3>3, RecordStep
  <2>5. CASE ~FactoryErase /\ ~SaveOk /\ ~SaveFail /\ ~PowerCut
    <3>1. UNCHANGED flash /\ (UNCHANGED tested \/ JoinOk)
      BY <2>5
      DEF ProvisioningNext, LedTask, DeviceStep, Environment, Tick, vars, deviceVars,
          FactoryReset, BootStation, BootPortal, DeviceLock, MacRead, ApStarted, StackUp,
          ApClosed, JoinTimeout, ApRestarted, WatchdogReset, Restarted,
          GetForm, ScanDone, JoinOk, JoinFail, PostForm
    <3> QED BY <3>1, SameRecordStep
  <2> QED BY <2>1, <2>2, <2>3, <2>4, <2>5
<1> QED
  BY <1>1, <1>2, StoreInvariance, PTL
  DEF ProvisioningSpec, RefinesCredentialStore, Store!Spec, stored

--------------------------------------------------------------------------------
(* The portal is on the air *)

\* PortalReachable is not inductive: the portal opens 200 ms after its access point.
OnAir == pc \in {"stack_up", "portal", "scanning"}
AirInv == OnAir => ap # "down"

\* Steps that leave the access point alone and do not enter the portal's phases.
LEMMA AirKept ==
    ASSUME AirInv, UNCHANGED ap, OnAir' => OnAir
    PROVE  AirInv'
BY DEF AirInv

\* Steps that leave the portal's phases, whatever they do to the access point.
LEMMA AirLeft ==
    ASSUME pc' \notin {"stack_up", "portal", "scanning"}
    PROVE  AirInv'
BY DEF AirInv, OnAir

\* PortalReachable (ap_mode and handle_provision): for all forms, and however a
\* test of credentials or a save ends, a portal that waits for requests is on the air.
THEOREM PortalAlwaysReachable == ProvisioningSpec => []PortalReachable
<1>1. ProvisioningInit => AirInv
  BY DEF ProvisioningInit, AirInv, OnAir
<1>2. AirInv /\ [ProvisioningNext]_vars => AirInv'
  <2> SUFFICES ASSUME AirInv, [ProvisioningNext]_vars PROVE AirInv'
    OBVIOUS
  <2>1. CASE LedTask \/ Tick \/ DeviceLock \/ UNCHANGED vars
    BY <2>1, AirKept DEF LedTask, Tick, DeviceLock, vars, deviceVars, OnAir
  <2>2. CASE FactoryReset \/ FactoryErase \/ BootStation \/ BootPortal \/ MacRead
    BY <2>2, AirLeft DEF FactoryReset, FactoryErase, BootStation, BootPortal, MacRead,
                         Call, Restarted
  <2>3. CASE ApClosed \/ JoinOk \/ JoinFail \/ JoinTimeout \/ SaveOk \/ SaveFail
    BY <2>3, AirLeft DEF ApClosed, JoinOk, JoinFail, JoinTimeout, SaveOk, SaveFail, Call
  <2>4. CASE WatchdogReset \/ PowerCut
    BY <2>4, AirLeft DEF WatchdogReset, PowerCut, Restarted
  <2>5. CASE \E form \in Forms : PostForm(form)
    BY <2>5, AirLeft DEF PostForm, Call
  <2>6. CASE StackUp \/ GetForm \/ ScanDone
    BY <2>6, AirKept DEF StackUp, GetForm, ScanDone, Call, OnAir
  <2>7. CASE ApStarted \/ ApRestarted
    BY <2>7 DEF ApStarted, ApRestarted, AirInv
  <2> QED
    BY <2>1, <2>2, <2>3, <2>4, <2>5, <2>6, <2>7
    DEF ProvisioningNext, DeviceStep, Environment
<1>3. AirInv => PortalReachable
  BY DEF AirInv, OnAir, PortalReachable
<1> QED BY <1>1, <1>2, <1>3, PTL DEF ProvisioningSpec
--------------------------------------------------------------------------------
(* The LED task *)

\* The states that start and ap_mode show, and the durations of their patterns.
PortalState == {"Booting", "Provisioning", "Scanning", "Connecting", "Saving"}
PortalTimes == {100, 700, 1000}

Flash(T) == BOOLEAN \X T

\* Every step of the patterns of S lasts one of T.
Timed(S, T) == \A s \in S : pattern[s].steps \in Seq(Flash(T))

\* The LED task's variables, when the others signal states of S.
LedTyped(S) ==
    /\ led_signal \in S \cup {NONE} /\ playing \in S \cup {NONE}
    /\ led_pc \in {"wait", "lock", "set", "sleep"} /\ light \in BOOLEAN
    /\ led_pc # "wait" => playing # NONE
    /\ holder \in {NONE, "led", "station"}
    /\ (holder = "led") <=> (led_pc = "set")

--------------------------------------------------------------------------------
(* The patterns *)

\* A run of flashes is a sequence of steps.
LEMMA FlashesTyped ==
    ASSUME NEW T, NEW n \in Nat, NEW on \in T, NEW off \in T
    PROVE  Flashes(n, on, off) \in Seq(Flash(T))
<1> DEFINE f == [i \in 1..2 * n |-> IF i % 2 = 1 THEN <<TRUE, on>> ELSE <<FALSE, off>>]
<1>1. \A i \in 1..2 * n : f[i] \in Flash(T)
  BY DEF Flash
<1>2. f \in [1..2 * n -> Flash(T)]
  BY <1>1
<1>3. 2 * n \in Nat
  OBVIOUS
<1>4. f \in Seq(Flash(T))
  <2> HIDE DEF f
  <2> QED BY <1>2, <1>3, IsASeq
<1> QED BY <1>4 DEF Flashes

\* The runs of the patterns.
LEMMA RunsTyped ==
    ASSUME NEW T, NEW on \in T, NEW off \in T
    PROVE  /\ Flashes(1, on, off) \in Seq(Flash(T)) /\ Flashes(2, on, off) \in Seq(Flash(T))
           /\ Flashes(3, on, off) \in Seq(Flash(T)) /\ Flashes(5, on, off) \in Seq(Flash(T))
           /\ Flashes(10, on, off) \in Seq(Flash(T))
<1>1. \A n \in Nat : Flashes(n, on, off) \in Seq(Flash(T))
  BY FlashesTyped
<1>2. \A n \in {1, 2, 3, 5, 10} : n \in Nat
  OBVIOUS
<1> QED BY <1>1, <1>2

\* So is a gap, and so is a run and the gap after it.
LEMMA OffTyped ==
    ASSUME NEW T, NEW ms \in T, NEW run \in Seq(Flash(T))
    PROVE  run \o Off(ms) \in Seq(Flash(T))
<1>1. \A x \in Flash(T) : <<x>> \in Seq(Flash(T))
  OBVIOUS
<1>2. <<FALSE, ms>> \in Flash(T)
  BY DEF Flash
<1>3. Off(ms) \in Seq(Flash(T))
  BY <1>1, <1>2, Zenon DEF Off
<1> QED BY <1>3, ConcatProperties

\* The patterns of start and ap_mode.
LEMMA PortalTimed == Timed(PortalState, PortalTimes)
<1> DEFINE T == PortalTimes
<1>1. 100 \in T /\ 700 \in T /\ 1000 \in T
  BY DEF PortalTimes
<1> HIDE DEF T
<1>2. /\ Flashes(1, 100, 100) \in Seq(Flash(T)) /\ Flashes(1, 1000, 1000) \in Seq(Flash(T))
      /\ Flashes(2, 100, 100) \in Seq(Flash(T)) /\ Flashes(3, 100, 100) \in Seq(Flash(T))
      /\ Flashes(5, 100, 100) \in Seq(Flash(T))
  BY <1>1, RunsTyped
<1> DEFINE boot == Flashes(3, 100, 100) \o Off(1000)
<1> DEFINE scan == Flashes(2, 100, 100) \o Off(700)
<1>3. boot \in Seq(Flash(T)) /\ scan \in Seq(Flash(T))
  BY <1>1, <1>2, OffTyped
<1>4. /\ pattern["Booting"].steps = boot
      /\ pattern["Provisioning"].steps = Flashes(1, 1000, 1000)
      /\ pattern["Scanning"].steps = scan
      /\ pattern["Connecting"].steps = Flashes(1, 100, 100)
      /\ pattern["Saving"].steps = Flashes(5, 100, 100)
  BY DEF pattern, Repeat, OneShot
<1> HIDE DEF boot, scan
<1>5. pattern["Booting"].steps \in Seq(Flash(T)) /\ pattern["Scanning"].steps \in Seq(Flash(T))
  <2>1. pattern["Booting"].steps = boot /\ pattern["Scanning"].steps = scan
    BY <1>4
  <2> QED BY <2>1, <1>3, Zenon
<1>6. \A s \in PortalState : pattern[s].steps \in Seq(Flash(T))
  BY <1>2, <1>4, <1>5 DEF PortalState
<1> QED BY <1>6 DEF Timed, T

--------------------------------------------------------------------------------
(* The task *)

\* A step of led_task keeps its types, takes and releases the mutex for itself only,
\* and sleeps for a duration of the pattern.
LEMMA LedStepTyped ==
    ASSUME NEW S, NEW T, Timed(S, T), NONE \notin S, NONE \notin {"led", "station"},
           LedTyped(S), LedStep
    PROVE  /\ LedTyped(S)'
           /\ sleep' \in T \cup {sleep}
           /\ (holder' = "station") <=> (holder = "station")
<1>1. CASE LedReceive
  BY <1>1 DEF LedReceive, LedTyped
<1>2. CASE LedLock
  BY <1>2 DEF LedLock, LedTyped
<1>3. CASE LedSet
  <2>1. /\ led_pc = "set" /\ holder = "led" /\ holder' = NONE /\ playing \in S
        /\ UNCHANGED <<led_signal, playing>>
    BY <1>3 DEF LedSet, LedTyped
  <2>2. CASE step \in DOMAIN Steps
    <3>1. Steps \in Seq(Flash(T))
      BY <2>1 DEF Steps, Timed
    <3>2. Steps[step] \in Flash(T)
      BY <2>2, <3>1
    <3>3. light' = Steps[step][1] /\ sleep' = Steps[step][2] /\ led_pc' = "sleep"
      BY <1>3, <2>2 DEF LedSet
    <3> QED BY <2>1, <3>2, <3>3 DEF LedTyped, Flash
  <2>3. CASE step \notin DOMAIN Steps
    <3>1. light' \in BOOLEAN /\ led_pc' = "wait" /\ sleep' = sleep
      BY <1>3, <2>3 DEF LedSet
    <3> QED BY <2>1, <3>1 DEF LedTyped
  <2> QED BY <2>2, <2>3
<1>4. CASE LedWake
  <2>1. /\ led_pc = "sleep" /\ led_pc' \in {"lock", "wait"}
        /\ UNCHANGED <<led_signal, holder, playing, sleep, light>>
    BY <1>4 DEF LedWake
  <2> QED BY <2>1 DEF LedTyped
<1> QED BY <1>1, <1>2, <1>3, <1>4 DEF LedStep

--------------------------------------------------------------------------------
(* Time in ticks *)

\* A whole number of ticks of t ms.
Whole(d, t) == d \in Nat /\ \E k \in Nat : d = k * t

\* A tick less is a whole number of ticks again.
LEMMA WholeTick ==
    ASSUME NEW t \in Nat \ {0}, NEW d, Whole(d, t)
    PROVE  Whole(IF d > 0 THEN d - t ELSE 0, t)
<1>1. PICK k \in Nat : d = k * t
  BY DEF Whole
<1>2. CASE d > 0
  <2>1. k # 0
    BY <1>1, <1>2
  <2>2. k - 1 \in Nat
    BY <2>1
  <2>3. d - t = (k - 1) * t
    BY <1>1
  <2>4. (k - 1) * t \in Nat
    BY <2>2
  <2> QED BY <1>2, <2>2, <2>3, <2>4 DEF Whole
<1>3. CASE ~(d > 0)
  BY <1>3 DEF Whole
<1> QED BY <1>2, <1>3

\* The multiples of a multiple.
LEMMA WholeMultiple ==
    ASSUME NEW t \in Nat \ {0}, NEW n \in Nat, NEW m \in Nat
    PROVE  Whole(m * (n * t), t)
<1>1. m * n \in Nat /\ m * (n * t) = (m * n) * t /\ m * (n * t) \in Nat
  OBVIOUS
<1> QED BY <1>1 DEF Whole

--------------------------------------------------------------------------------
(* Types and the mutex *)

\* The places of the main task where no form is held.
Untested == {"boot", "erase", "station", "mac", "start_ap", "stack_up", "portal", "scanning"}

\* Types, with the mutex's holder and the form in hand by the main task's place.
DeviceInv ==
    /\ LedTyped(PortalState)
    /\ holder = "station" => InCall
    /\ Whole(sleep, TICK) /\ Whole(timer, TICK)
    /\ (candidate = NONE) <=> (pc \in Untested)
    /\ flash.whole \subseteq Parts

\* Assumptions on TICK and NONE in the form the proofs use.
LEMMA Assumptions ==
    /\ TICK \in Nat \ {0}
    /\ NONE \notin {"led", "station"} /\ NONE \notin PortalState
    /\ PortalState \subseteq LedState
<1>1. NONE \notin LedState /\ PortalState \subseteq LedState
  BY ProvisioningAssumption DEF PortalState, LedState, pattern
<1> QED BY <1>1, ProvisioningAssumption

\* The durations are whole numbers of ticks.
LEMMA Durations ==
    /\ \A t \in PortalTimes : Whole(t, TICK)
    /\ Whole(0 * 100, TICK) /\ Whole(2 * 100, TICK)
    /\ Whole(30 * 100, TICK) /\ Whole(150 * 100, TICK)
<1>1. PICK n \in 1..100 : n * TICK = 100
  BY ProvisioningAssumption
<1>2. n \in Nat /\ TICK \in Nat \ {0}
  BY <1>1, Assumptions
<1>3. \A m \in Nat : Whole(m * 100, TICK)
  <2> SUFFICES ASSUME NEW m \in Nat PROVE Whole(m * 100, TICK)
    OBVIOUS
  <2> QED BY <1>1, <1>2, WholeMultiple
<1>4. Whole(1 * 100, TICK) /\ Whole(7 * 100, TICK) /\ Whole(10 * 100, TICK)
  BY <1>3
<1>5. \A t \in PortalTimes : t \in {1 * 100, 7 * 100, 10 * 100}
  BY DEF PortalTimes
<1> QED BY <1>3, <1>4, <1>5

\* What the main task does to the LED's variables: it signals, and it takes and
\* releases the mutex for itself.
MainTask ==
    /\ led_signal' \in PortalState \cup {led_signal}
    /\ UNCHANGED <<led_pc, playing, step, sleep, light>>
    /\ holder' \in {holder, IF holder = NONE THEN "station" ELSE holder,
                    IF holder = "station" THEN NONE ELSE holder}

\* That keeps the LED's types.
LEMMA MainTaskTyped ==
    ASSUME DeviceInv, MainTask
    PROVE  LedTyped(PortalState)' /\ Whole(sleep, TICK)'
  BY Assumptions DEF DeviceInv, MainTask, LedTyped, Whole

\* The main task's next phase, with the timer it starts, if any.
LEMMA PhaseKept ==
    ASSUME DeviceInv, MainTask, flash'.whole \subseteq Parts,
           holder' = "station" => InCall',
           timer' = timer \/ timer' \in {0 * 100, 2 * 100, 30 * 100, 150 * 100},
           (candidate' = NONE) <=> (pc' \in Untested)
    PROVE  DeviceInv'
<1>1. LedTyped(PortalState)' /\ Whole(sleep, TICK)'
  BY MainTaskTyped
<1>2. Whole(timer', TICK)
  BY Durations DEF DeviceInv
<1>3. Whole(timer, TICK)'
  BY <1>2 DEF Whole
<1> QED BY <1>1, <1>3 DEF DeviceInv

\* A restart, with a record in flash that has no parts of its own.
LEMMA RestartKept ==
    ASSUME Restarted, flash'.whole \subseteq Parts
    PROVE  DeviceInv'
<1>1. LedTyped(PortalState)'
  BY Assumptions DEF Restarted, LedTyped
<1>2. sleep' = 0 /\ timer' = 0 /\ candidate' = NONE /\ pc' = "boot" /\ holder' = NONE
  BY DEF Restarted
<1>3. Whole(sleep, TICK)' /\ Whole(timer, TICK)'
  BY <1>2, Assumptions DEF Whole
<1> QED BY <1>1, <1>2, <1>3, Assumptions DEF DeviceInv, Untested

\* Every record written, begun or torn has parts of the record.
LEMMA RecordParts ==
    ASSUME DeviceInv, NEW p
    PROVE  /\ Erased.whole \subseteq Parts /\ Record(candidate, Parts).whole \subseteq Parts
           /\ \A fl \in TornBy(p) : fl.whole \subseteq Parts
  BY DEF DeviceInv, Erased, Record, TornBy

\* Every step keeps DeviceInv.
LEMMA DeviceKept ==
    ASSUME DeviceInv, [ProvisioningNext]_vars
    PROVE  DeviceInv'
<1> USE Assumptions
<1>1. flash.whole \subseteq Parts /\ ((candidate = NONE) <=> (pc \in Untested))
  BY DEF DeviceInv
<1>2. CASE FactoryReset \/ BootStation \/ BootPortal
  <2>1. /\ MainTask /\ UNCHANGED <<timer, candidate, flash>>
        /\ pc \in Untested /\ pc' \in Untested
    BY <1>2 DEF FactoryReset, BootStation, BootPortal, SignalLed, Call, MainTask, PortalState,
                ledTask, Untested
  <2>2. holder' = "station" => InCall'
    BY <1>2 DEF FactoryReset, BootStation, BootPortal, Call, DeviceInv, InCall
  <2> QED BY <1>1, <2>1, <2>2, PhaseKept
<1>3. CASE GetForm
  <2>1. /\ MainTask /\ UNCHANGED <<timer, candidate, flash>> /\ InCall'
        /\ pc \in Untested /\ pc' \in Untested
    BY <1>3 DEF GetForm, SignalLed, Call, MainTask, PortalState, ledTask, Untested, InCall
  <2> QED BY <1>1, <2>1, PhaseKept
<1>4. CASE DeviceLock
  <2>1. MainTask /\ UNCHANGED <<timer, candidate, flash, pc>> /\ InCall /\ InCall'
    BY <1>4 DEF DeviceLock, MainTask, ledTask, deviceVars, InCall
  <2> QED BY <1>1, <2>1, PhaseKept
<1>5. CASE MacRead \/ StackUp
  <2>1. /\ MainTask /\ UNCHANGED <<holder, timer, candidate, flash>>
        /\ pc \in Untested /\ pc' \in Untested
    BY <1>5 DEF MacRead, StackUp, MainTask, ledVars, Untested
  <2>2. holder' = "station" => InCall'
    BY <1>5 DEF MacRead, StackUp, ledVars, DeviceInv, InCall
  <2> QED BY <1>1, <2>1, <2>2, PhaseKept
<1>6. CASE ApStarted \/ ScanDone
  <2>1. /\ MainTask /\ UNCHANGED <<candidate, flash>> /\ holder' = NONE
        /\ timer' = timer \/ timer' = 2 * 100
        /\ pc \in Untested /\ pc' \in Untested
    BY <1>6 DEF ApStarted, ScanDone, SignalLed, MainTask, PortalState, ledTask, Untested
  <2> QED BY <1>1, <2>1, PhaseKept
<1>7. ASSUME NEW form \in Forms, PostForm(form) PROVE DeviceInv'
  <2>1. /\ MainTask /\ UNCHANGED <<timer, flash>> /\ InCall'
        /\ candidate' = Submitted(form) /\ pc' \notin Untested
    BY <1>7 DEF PostForm, SignalLed, Call, MainTask, PortalState, ledTask, Untested, InCall
  <2>2. candidate' # NONE
    BY <2>1, FormAssumption
  <2> QED BY <1>1, <2>1, <2>2, PhaseKept
<1>8. CASE ApClosed \/ JoinFail \/ JoinTimeout
  <2>1. /\ MainTask /\ UNCHANGED <<candidate, flash>> /\ InCall'
        /\ timer' = timer \/ timer' = 0 * 100 \/ timer' = 150 * 100
        /\ pc \notin Untested /\ pc' \notin Untested
    BY <1>8 DEF ApClosed, JoinFail, JoinTimeout, MainTask, ledVars, Untested, InCall
  <2> QED BY <1>1, <2>1, PhaseKept
<1>9. CASE JoinOk
  <2>1. /\ MainTask /\ UNCHANGED <<candidate, flash>> /\ holder' = NONE
        /\ timer' = 0 * 100
        /\ pc \notin Untested /\ pc' \notin Untested
    BY <1>9 DEF JoinOk, MainTask, ledTask, Untested
  <2> QED BY <1>1, <2>1, PhaseKept
<1>10. CASE SaveOk
  <2>1. /\ MainTask /\ UNCHANGED <<candidate, holder>> /\ flash' = Record(candidate, Parts)
        /\ timer' = 30 * 100
        /\ pc \notin Untested /\ pc' \notin Untested /\ ~InCall
    BY <1>10 DEF SaveOk, SignalLed, MainTask, PortalState, ledTask, Untested, InCall
  <2>2. holder' # "station"
    BY <2>1 DEF DeviceInv
  <2> QED BY <1>1, <2>1, <2>2, PhaseKept, RecordParts
<1>11. CASE SaveFail
  <2>1. /\ MainTask /\ UNCHANGED <<candidate, timer>> /\ flash' \in {flash, Erased}
        /\ pc \notin Untested /\ pc' \notin Untested /\ InCall'
    BY <1>11 DEF SaveFail, Call, MainTask, ledTask, Untested, InCall
  <2>2. flash'.whole \subseteq Parts
    BY <1>1, <2>1, RecordParts
  <2> QED BY <1>1, <2>1, <2>2, PhaseKept
<1>12. CASE ApRestarted
  <2>1. /\ MainTask /\ UNCHANGED <<timer, flash>> /\ candidate' = NONE /\ holder' = NONE
        /\ pc' \in Untested
    BY <1>12 DEF ApRestarted, SignalLed, MainTask, PortalState, ledTask, Untested
  <2> QED BY <1>1, <2>1, PhaseKept
<1>13. CASE FactoryErase \/ WatchdogReset
  <2>1. Restarted /\ flash' \in {flash, Erased}
    BY <1>13 DEF FactoryErase, WatchdogReset
  <2>2. flash'.whole \subseteq Parts
    BY <1>1, <2>1, RecordParts
  <2> QED BY <2>1, <2>2, RestartKept
<1>14. CASE PowerCut
  <2>1. Restarted /\ (flash' = flash \/ \E p : flash' \in TornBy(p))
    BY <1>14 DEF PowerCut
  <2>2. flash'.whole \subseteq Parts
    BY <1>1, <2>1, RecordParts
  <2> QED BY <2>1, <2>2, RestartKept
<1>15. CASE LedTask
  <2>1. LedStep /\ UNCHANGED <<pc, timer, candidate, flash>>
    BY <1>15 DEF LedTask, deviceVars
  <2>2. /\ LedTyped(PortalState)' /\ sleep' \in PortalTimes \cup {sleep}
        /\ (holder' = "station") <=> (holder = "station")
    BY <2>1, LedStepTyped, PortalTimed DEF DeviceInv
  <2>3. Whole(sleep', TICK)
    BY <2>2, Durations DEF DeviceInv
  <2> QED BY <2>1, <2>2, <2>3 DEF DeviceInv, InCall, Whole
<1>16. CASE Tick
  <2>1. /\ sleep' = IF sleep > 0 THEN sleep - TICK ELSE 0
        /\ timer' = IF timer > 0 THEN timer - TICK ELSE 0
        /\ UNCHANGED <<led_signal, holder, led_pc, playing, step, light, pc, candidate, flash>>
    BY <1>16 DEF Tick
  <2>2. Whole(sleep, TICK)' /\ Whole(timer, TICK)'
    BY <2>1, WholeTick DEF DeviceInv, Whole
  <2>3. LedTyped(PortalState)'
    BY <2>1 DEF DeviceInv, LedTyped
  <2> QED BY <2>1, <2>2, <2>3 DEF DeviceInv, InCall
<1>17. CASE UNCHANGED vars
  BY <1>17 DEF vars, ledVars, deviceVars, DeviceInv, InCall, LedTyped, Whole
<1> QED BY <1>2, <1>3, <1>4, <1>5, <1>6, <1>7, <1>8, <1>9, <1>10, <1>11, <1>12, <1>13, <1>14,
           <1>15, <1>16, <1>17, Zenon DEF ProvisioningNext, DeviceStep, Environment

\* DeviceInv is an invariant.
LEMMA DeviceInvariance == ProvisioningSpec => []DeviceInv
<1>1. ProvisioningInit => DeviceInv
  <2> SUFFICES ASSUME ProvisioningInit PROVE DeviceInv
    OBVIOUS
  <2>1. LedTyped(PortalState) /\ holder = NONE /\ sleep = 0 /\ timer = 0
    BY Assumptions DEF ProvisioningInit, LedInit, LedTyped
  <2>2. Whole(sleep, TICK) /\ Whole(timer, TICK)
    BY <2>1, Assumptions DEF Whole
  <2> QED BY <2>1, <2>2, Assumptions DEF ProvisioningInit, DeviceInv, Untested, Erased
<1> QED BY <1>1, DeviceKept, PTL DEF ProvisioningSpec

\* Types and the mutex (CONTROL_MUTEX of led_task and ap_mode), power cuts included: the
\* two tasks are never both inside a radio call, and no guard outlives its call.
THEOREM ProvisioningTypeCorrect == ProvisioningSpec => []ProvisioningTypeOK
<1>1. DeviceInv => ProvisioningTypeOK
  BY Assumptions DEF DeviceInv, LedTyped, ProvisioningTypeOK, Untested, Whole
<1> QED BY <1>1, DeviceInvariance, PTL

--------------------------------------------------------------------------------
(* The save is shown *)

\* The states whose patterns repeat.
Repeated == {"Booting", "Provisioning", "Scanning", "Connecting"}

\* How far a pattern is counted: a repeated one to its end, after which led_task looks
\* for a signal, and Saving to the step before its fifth flash.
Count == [Booting |-> 7, Provisioning |-> 2, Scanning |-> 5, Connecting |-> 2, Saving |-> 8]

\* In ms: step i of state s, and the counted steps after it.
Lasts(s, i) == pattern[s].steps[i][2]
After(s, i) ==
    CASE s = "Booting"      -> IF i = 7 THEN 0 ELSE (6 - i) * 100 + 1000
      [] s = "Provisioning" -> IF i = 2 THEN 0 ELSE 1000
      [] s = "Scanning"     -> IF i = 5 THEN 0 ELSE (4 - i) * 100 + 700
      [] s = "Connecting"   -> IF i = 2 THEN 0 ELSE 100
      [] s = "Saving"       -> (8 - i) * 100

\* What is left of the count, in ms.
Left ==
    IF led_pc = "wait" THEN 0
    ELSE (IF led_pc = "sleep" THEN sleep ELSE Lasts(playing, step)) + After(playing, step)

\* A repeated pattern is at one of its steps, and sleeps no longer than the step lasts.
RepeatInv ==
    playing \in Repeated =>
        step \in 1..Count[playing] /\ (led_pc = "sleep" => sleep <= Lasts(playing, step))

\* Saving is played once, after the save, and the timer leaves it two steps more than
\* the count.
OneShotInv ==
    playing = "Saving" =>
        /\ pc = "saved" /\ led_signal = NONE /\ step \in Nat \ {0}
        /\ led_pc = "wait" => step > 10
        /\ step <= 8 => timer >= Left + 200

\* After a save the LED is given Saving next, with time for all of it.
SaveInv ==
    /\ led_signal = "Saving" => pc \in {"erase", "saved"}
    /\ pc = "saved" /\ playing # "Saving" => led_signal = "Saving" /\ timer >= Left + 1000

\* What is inductive behind SavingShown.
ShownInv == RepeatInv /\ OneShotInv /\ SaveInv

\* The steps of a run of flashes of one duration.
LEMMA RunSteps ==
    ASSUME NEW n \in Nat, NEW k \in Nat, k = 2 * n, NEW ms \in Nat
    PROVE  /\ Flashes(n, ms, ms) \in Seq(Flash(Nat))
           /\ Len(Flashes(n, ms, ms)) = k
           /\ \A i \in 1..k : Flashes(n, ms, ms)[i][2] = ms
<1> DEFINE f == Flashes(n, ms, ms)
<1> DEFINE T == Nat
<1>1. f \in Seq(Flash(T))
  <2>1. ms \in T
    OBVIOUS
  <2> HIDE DEF T
  <2> QED BY <2>1, FlashesTyped
<1>2. DOMAIN f = 1..k
  BY DEF Flashes
<1>3. \A i \in 1..k : f[i][2] = ms
  BY DEF Flashes
<1>4. Len(f) = k
  <2> HIDE DEF f, T
  <2>1. Len(f) \in Nat /\ DOMAIN f = 1..Len(f)
    BY <1>1
  <2> QED BY <1>2, <2>1
<1> QED BY <1>1, <1>3, <1>4

\* The runs of the patterns.
LEMMA Runs ==
    ASSUME NEW ms \in Nat
    PROVE  /\ Flashes(2, ms, ms) \in Seq(Flash(Nat)) /\ Flashes(3, ms, ms) \in Seq(Flash(Nat))
           /\ Len(Flashes(1, ms, ms)) = 2 /\ Len(Flashes(2, ms, ms)) = 4
           /\ Len(Flashes(3, ms, ms)) = 6 /\ Len(Flashes(5, ms, ms)) = 10
           /\ \A i \in 1..2 : Flashes(1, ms, ms)[i][2] = ms
           /\ \A i \in 1..4 : Flashes(2, ms, ms)[i][2] = ms
           /\ \A i \in 1..6 : Flashes(3, ms, ms)[i][2] = ms
           /\ \A i \in 1..10 : Flashes(5, ms, ms)[i][2] = ms
<1> DEFINE P(n, k) == /\ Flashes(n, ms, ms) \in Seq(Flash(Nat)) /\ Len(Flashes(n, ms, ms)) = k
                      /\ \A i \in 1..k : Flashes(n, ms, ms)[i][2] = ms
<1>1. \A n, k \in Nat : k = 2 * n => P(n, k)
  BY RunSteps
<1> HIDE DEF P
<1>2. P(1, 2) /\ P(2, 4) /\ P(3, 6) /\ P(5, 10)
  BY <1>1
<1> QED BY <1>2 DEF P

\* k steps of 100 ms each, and such steps with a gap after them.
Even(f, k) ==
    f \in Seq(Flash(Nat)) /\ Len(f) = k /\ \A i \in 1..k : f[i][2] = 100
Gapped(f, k, gap) ==
    Len(f) = k + 1 /\ f[k + 1][2] = gap /\ \A i \in 1..k : f[i][2] = 100

\* Off after a run of flashes.
LEMMA GapSteps ==
    ASSUME NEW f, NEW k \in Nat, Even(f, k), NEW gap \in Nat
    PROVE  Gapped(f \o Off(gap), k, gap)
<1> DEFINE g == Off(gap)
<1> DEFINE S == Flash(Nat)
<1>1. Len(g) = 1 /\ g[1][2] = gap
  BY DEF Off
<1>2. g \in Seq(S)
  <2>1. \A x \in S : <<x>> \in Seq(S)
    OBVIOUS
  <2>2. <<FALSE, gap>> \in S
    BY DEF Flash
  <2> QED BY <2>1, <2>2, Zenon DEF Off
<1> HIDE DEF g, S
<1>3. f \in Seq(S) /\ Len(f) = k /\ \A i \in 1..k : f[i][2] = 100
  BY DEF S, Even
<1>4. Len(f \o g) = Len(f) + Len(g)
  BY <1>2, <1>3, ConcatProperties
<1>5. \A i \in 1..Len(f) + Len(g) : (f \o g)[i] = IF i <= Len(f) THEN f[i] ELSE g[i - Len(f)]
  BY <1>2, <1>3, ConcatProperties
<1>6. Len(f) \in Nat
  BY <1>3
<1>7. \A i \in 1..Len(f) : (f \o g)[i] = f[i]
  BY <1>1, <1>5, <1>6
<1>8. (f \o g)[k + 1] = g[1]
  <2> DEFINE m == k + 1
  <2>1. m \in 1..Len(f) + Len(g) /\ ~(m <= Len(f)) /\ m - Len(f) = 1
    BY <1>1, <1>3
  <2> HIDE DEF m
  <2>2. (f \o g)[m] = g[1]
    BY <1>5, <2>1, Zenon
  <2> QED BY <2>2 DEF m
<1>9. Len(f \o g) = k + 1 /\ (f \o g)[k + 1][2] = gap /\ \A i \in 1..k : (f \o g)[i][2] = 100
  BY <1>1, <1>3, <1>4, <1>7, <1>8
<1> QED BY <1>9 DEF g, Gapped

\* The patterns' steps and kinds.
LEMMA PortalPatterns ==
    /\ \A s \in Repeated : pattern[s].kind = "repeat" /\ Len(pattern[s].steps) = Count[s]
    /\ pattern["Saving"].kind = "one_shot" /\ Len(pattern["Saving"].steps) = 10
    /\ \A i \in 1..7 : Lasts("Booting", i) = IF i = 7 THEN 1000 ELSE 100
    /\ \A i \in 1..2 : Lasts("Provisioning", i) = 1000
    /\ \A i \in 1..5 : Lasts("Scanning", i) = IF i = 5 THEN 700 ELSE 100
    /\ \A i \in 1..2 : Lasts("Connecting", i) = 100
    /\ \A i \in 1..10 : Lasts("Saving", i) = 100
<1>1. /\ pattern["Booting"] = [kind |-> "repeat", steps |-> Flashes(3, 100, 100) \o Off(1000)]
      /\ pattern["Provisioning"] = [kind |-> "repeat", steps |-> Flashes(1, 1000, 1000)]
      /\ pattern["Scanning"] = [kind |-> "repeat", steps |-> Flashes(2, 100, 100) \o Off(700)]
      /\ pattern["Connecting"] = [kind |-> "repeat", steps |-> Flashes(1, 100, 100)]
      /\ pattern["Saving"] = [kind |-> "one_shot", steps |-> Flashes(5, 100, 100)]
  BY DEF pattern, Repeat, OneShot
<1> DEFINE boot == Flashes(3, 100, 100) \o Off(1000)
<1> DEFINE scan == Flashes(2, 100, 100) \o Off(700)
<1>3. /\ Len(boot) = 7 /\ boot[7][2] = 1000 /\ \A i \in 1..6 : boot[i][2] = 100
  <2>1. Even(Flashes(3, 100, 100), 6)
    BY Runs DEF Even
  <2>2. Gapped(boot, 6, 1000)
    BY <2>1, GapSteps
  <2> HIDE DEF boot
  <2> QED BY <2>2 DEF Gapped
<1>4. /\ Len(scan) = 5 /\ scan[5][2] = 700 /\ \A i \in 1..4 : scan[i][2] = 100
  <2>1. Even(Flashes(2, 100, 100), 4)
    BY Runs DEF Even
  <2>2. Gapped(scan, 4, 700)
    BY <2>1, GapSteps
  <2> HIDE DEF scan
  <2> QED BY <2>2 DEF Gapped
<1> DEFINE prov == Flashes(1, 1000, 1000)
<1> DEFINE conn == Flashes(1, 100, 100)
<1> DEFINE save == Flashes(5, 100, 100)
<1>5. Len(prov) = 2 /\ \A i \in 1..2 : prov[i][2] = 1000
  BY Runs
<1>6. Len(conn) = 2 /\ \A i \in 1..2 : conn[i][2] = 100
  BY Runs
<1>7. Len(save) = 10 /\ \A i \in 1..10 : save[i][2] = 100
  BY Runs
<1>8. /\ pattern["Booting"].steps = boot /\ pattern["Scanning"].steps = scan
      /\ pattern["Provisioning"].steps = prov /\ pattern["Connecting"].steps = conn
      /\ pattern["Saving"].steps = save
      /\ \A s \in Repeated : pattern[s].kind = "repeat"
      /\ pattern["Saving"].kind = "one_shot"
  BY <1>1 DEF Repeated
<1> HIDE DEF boot, scan, prov, conn, save
<1>9. \A s \in Repeated : Len(pattern[s].steps) = Count[s]
  <2>1. /\ Len(pattern["Booting"].steps) = 7 /\ Len(pattern["Scanning"].steps) = 5
        /\ Len(pattern["Provisioning"].steps) = 2 /\ Len(pattern["Connecting"].steps) = 2
    BY <1>3, <1>4, <1>5, <1>6, <1>8
  <2>2. Count["Booting"] = 7 /\ Count["Scanning"] = 5 /\ Count["Provisioning"] = 2 /\ Count["Connecting"] = 2
    BY DEF Count
  <2> QED BY <2>1, <2>2, Zenon DEF Repeated
<1>10. \A i \in 1..7 : boot[i][2] = IF i = 7 THEN 1000 ELSE 100
  BY <1>3
<1>11. \A i \in 1..5 : scan[i][2] = IF i = 5 THEN 700 ELSE 100
  BY <1>4
<1>12. /\ \A i \in 1..7 : Lasts("Booting", i) = IF i = 7 THEN 1000 ELSE 100
       /\ \A i \in 1..5 : Lasts("Scanning", i) = IF i = 5 THEN 700 ELSE 100
  BY <1>8, <1>10, <1>11 DEF Lasts
<1>13. /\ \A i \in 1..2 : Lasts("Provisioning", i) = 1000
       /\ \A i \in 1..2 : Lasts("Connecting", i) = 100
       /\ \A i \in 1..10 : Lasts("Saving", i) = 100
  BY <1>5, <1>6, <1>7, <1>8 DEF Lasts
<1> QED BY <1>7, <1>8, <1>9, <1>12, <1>13

\* The count goes down step by step, from at most two seconds; of Saving 800 ms are
\* counted.
LEMMA Counted ==
    ASSUME NEW s \in Repeated \cup {"Saving"}, NEW i \in 1..Count[s]
    PROVE  /\ Lasts(s, i) \in Nat /\ After(s, i) \in Nat
           /\ Lasts(s, i) + After(s, i) <= 2000
           /\ i < Count[s] => After(s, i) = Lasts(s, i + 1) + After(s, i + 1)
           /\ i = Count[s] => After(s, i) = 0
           /\ s = "Saving" /\ i = 1 => Lasts(s, i) + After(s, i) = 800
<1> USE PortalPatterns
<1>1. CASE s = "Booting"
  <2>1. i \in 1..7 /\ Count[s] = 7
    BY <1>1 DEF Count
  <2>2. /\ Lasts(s, i) = IF i = 7 THEN 1000 ELSE 100
        /\ After(s, i) = IF i = 7 THEN 0 ELSE (6 - i) * 100 + 1000
        /\ i < 7 => After(s, i + 1) = IF i + 1 = 7 THEN 0 ELSE (6 - (i + 1)) * 100 + 1000
        /\ i < 7 => Lasts(s, i + 1) = IF i + 1 = 7 THEN 1000 ELSE 100
    BY <1>1, <2>1 DEF After
  <2> QED BY <1>1, <2>1, <2>2
<1>2. CASE s = "Provisioning"
  <2>1. i \in 1..2 /\ Count[s] = 2
    BY <1>2 DEF Count
  <2>2. /\ Lasts(s, i) = 1000 /\ After(s, i) = IF i = 2 THEN 0 ELSE 1000
        /\ i < 2 => Lasts(s, i + 1) = 1000 /\ After(s, i + 1) = 0
    BY <1>2, <2>1 DEF After
  <2> QED BY <1>2, <2>1, <2>2
<1>3. CASE s = "Scanning"
  <2>1. i \in 1..5 /\ Count[s] = 5
    BY <1>3 DEF Count
  <2>2. /\ Lasts(s, i) = IF i = 5 THEN 700 ELSE 100
        /\ After(s, i) = IF i = 5 THEN 0 ELSE (4 - i) * 100 + 700
        /\ i < 5 => After(s, i + 1) = IF i + 1 = 5 THEN 0 ELSE (4 - (i + 1)) * 100 + 700
        /\ i < 5 => Lasts(s, i + 1) = IF i + 1 = 5 THEN 700 ELSE 100
    BY <1>3, <2>1 DEF After
  <2> QED BY <1>3, <2>1, <2>2
<1>4. CASE s = "Connecting"
  <2>1. i \in 1..2 /\ Count[s] = 2
    BY <1>4 DEF Count
  <2>2. /\ Lasts(s, i) = 100 /\ After(s, i) = IF i = 2 THEN 0 ELSE 100
        /\ i < 2 => Lasts(s, i + 1) = 100 /\ After(s, i + 1) = 0
    BY <1>4, <2>1 DEF After
  <2> QED BY <1>4, <2>1, <2>2
<1>5. CASE s = "Saving"
  <2>1. i \in 1..8 /\ Count[s] = 8
    BY <1>5 DEF Count
  <2>2. /\ Lasts(s, i) = 100 /\ After(s, i) = (8 - i) * 100
        /\ Lasts(s, i + 1) = 100 /\ After(s, i + 1) = (8 - (i + 1)) * 100
    BY <1>5, <2>1 DEF After
  <2> QED BY <1>5, <2>1, <2>2
<1> QED BY <1>1, <1>2, <1>3, <1>4, <1>5 DEF Repeated

\* What an unfinished pattern has left.
LEMMA LeftBounded ==
    ASSUME DeviceInv, RepeatInv, playing \in Repeated \cup {NONE}
    PROVE  Left \in Nat /\ Left <= 2000
<1>1. CASE led_pc = "wait"
  BY <1>1 DEF Left
<1>2. CASE led_pc # "wait"
  <2>1. playing \in Repeated /\ step \in 1..Count[playing] /\ sleep \in Nat
    BY <1>2 DEF RepeatInv, DeviceInv, LedTyped, Whole
  <2>2. /\ Lasts(playing, step) \in Nat /\ After(playing, step) \in Nat
        /\ Lasts(playing, step) + After(playing, step) <= 2000
    BY <2>1, Counted
  <2>3. led_pc = "sleep" => sleep <= Lasts(playing, step)
    BY <2>1 DEF RepeatInv
  <2>4. Left = (IF led_pc = "sleep" THEN sleep ELSE Lasts(playing, step)) + After(playing, step)
    BY <1>2 DEF Left
  <2> QED BY <2>1, <2>2, <2>3, <2>4
<1> QED BY <1>1, <1>2

\* A restart forgets what was played.
LEMMA RestartShown ==
    ASSUME Restarted
    PROVE  ShownInv'
<1>1. led_signal' = NONE /\ playing' = NONE /\ pc' = "boot"
  BY DEF Restarted
<1> QED BY <1>1, Assumptions DEF ShownInv, RepeatInv, OneShotInv, SaveInv, Repeated, PortalState

\* A step of the main task that neither follows a factory reset nor saves.
LEMMA MainShown ==
    ASSUME DeviceInv, ShownInv, UNCHANGED <<led_pc, playing, step, sleep, light>>,
           pc \notin {"erase", "saved"}, pc' # "saved",
           led_signal' # "Saving" \/ UNCHANGED led_signal \/ pc' = "erase"
    PROVE  ShownInv'
<1>1. playing # "Saving" /\ led_signal # "Saving"
  BY DEF ShownInv, OneShotInv, SaveInv
<1>2. RepeatInv'
  BY DEF ShownInv, RepeatInv
<1> QED BY <1>1, <1>2 DEF ShownInv, OneShotInv, SaveInv

\* The save leaves three seconds for what is left of a pattern and for Saving.
LEMMA SaveShown ==
    ASSUME DeviceInv, ShownInv, SaveOk
    PROVE  ShownInv'
<1>1. /\ pc = "save" /\ pc' = "saved" /\ led_signal' = "Saving" /\ timer' = 3000
      /\ UNCHANGED <<led_pc, playing, step, sleep, light>>
  BY DEF SaveOk, SignalLed, ledTask
<1>2. playing # "Saving" /\ playing \in PortalState \cup {NONE}
  BY <1>1 DEF ShownInv, OneShotInv, DeviceInv, LedTyped
<1>3. playing \in Repeated \cup {NONE}
  BY <1>2 DEF PortalState, Repeated
<1>4. Left \in Nat /\ Left <= 2000
  BY <1>3, LeftBounded DEF ShownInv
<1>5. Left' = Left
  BY <1>1 DEF Left
<1>6. RepeatInv'
  BY <1>1 DEF ShownInv, RepeatInv
<1> QED BY <1>1, <1>2, <1>4, <1>5, <1>6 DEF ShownInv, OneShotInv, SaveInv

\* A tick takes as much from the timer as from the pattern.
LEMMA TickShown ==
    ASSUME DeviceInv, ShownInv, Tick
    PROVE  ShownInv'
<1>1. /\ UNCHANGED <<led_signal, holder, led_pc, playing, step, pc>>
      /\ sleep' = IF sleep > 0 THEN sleep - TICK ELSE 0
      /\ timer' = IF timer > 0 THEN timer - TICK ELSE 0
      /\ ~LedReady /\ ~DeviceReady
  BY DEF Tick
<1>2. sleep \in Nat /\ timer \in Nat /\ TICK \in Nat \ {0} /\ Whole(sleep, TICK)
  BY Assumptions DEF DeviceInv, Whole
<1>3. sleep > 0 => sleep >= TICK
  <2>1. PICK k \in Nat : sleep = k * TICK
    BY <1>2 DEF Whole
  <2>2. sleep > 0 => k >= 1
    BY <1>2, <2>1
  <2>3. k >= 1 => k * TICK >= TICK
    BY <1>2, <2>1
  <2> QED BY <2>1, <2>2, <2>3
<1>4. sleep' <= sleep /\ sleep' \in Nat
  BY <1>1, <1>2, <1>3
<1>5. RepeatInv'
  <2>1. ASSUME playing \in Repeated, led_pc = "sleep" PROVE sleep' <= Lasts(playing, step)
    <3>1. sleep <= Lasts(playing, step) /\ Lasts(playing, step) \in Nat
      BY <2>1, Counted DEF ShownInv, RepeatInv
    <3> QED BY <1>2, <1>4, <3>1
  <2> QED BY <1>1, <2>1 DEF ShownInv, RepeatInv
<1>6. led_signal = "Saving" => pc \in {"erase", "saved"}
  BY DEF ShownInv, SaveInv
<1>7. CASE pc # "saved"
  BY <1>1, <1>5, <1>6, <1>7 DEF ShownInv, OneShotInv, SaveInv
<1>8. CASE pc = "saved"
  <2>1. holder # "station" /\ timer > 0
    BY <1>1, <1>2, <1>8 DEF DeviceReady, DeviceInv, InCall
  <2>2. led_pc \in {"wait", "sleep"}
    BY <1>1, <2>1 DEF LedReady, DeviceInv, LedTyped
  <2>3. led_pc = "sleep" => sleep > 0
    BY <1>1, <1>2 DEF LedReady
  <2>4. led_pc = "wait" => led_signal = NONE
    BY <1>1 DEF LedReady
  <2>5. timer' = timer - TICK
    BY <1>1, <2>1
  <2>6. ASSUME led_pc = "sleep", playing \in Repeated \cup {"Saving"}, step \in 1..Count[playing]
        PROVE  \A c \in Nat : timer >= Left + c => timer' >= Left' + c
    <3> SUFFICES ASSUME NEW c \in Nat, timer >= Left + c PROVE timer' >= Left' + c
      OBVIOUS
    <3>1. Left = sleep + After(playing, step) /\ After(playing, step) \in Nat
      BY <2>6, Counted DEF Left
    <3>2. Left' = sleep' + After(playing, step)
      BY <1>1, <2>6 DEF Left
    <3>3. sleep' = sleep - TICK
      BY <1>1, <2>3, <2>6
    <3>4. PICK x \in Int, y \in Int, u \in Int, w \in Int, t \in Int, r \in Int :
              x = sleep /\ y = sleep' /\ u = timer /\ w = timer' /\ t = TICK
                /\ r = After(playing, step)
      BY <1>2, <1>4, <2>5, <3>1
    <3>5. y = x - t /\ w = u - t
      BY <2>5, <3>3, <3>4, Zenon
    <3>6. u >= (x + r) + c
      BY <3>1, <3>4, Zenon
    <3>7. w >= (y + r) + c
      BY <3>5, <3>6
    <3> QED BY <3>2, <3>4, <3>7, Zenon
  <2>7. CASE playing = "Saving"
    <3>1. /\ led_signal = NONE /\ step \in Nat \ {0} /\ (led_pc = "wait" => step > 10)
          /\ step <= 8 => timer >= Left + 200
      BY <2>7 DEF ShownInv, OneShotInv
    <3>2. step <= 8 => led_pc = "sleep" /\ step \in 1..Count[playing]
      BY <2>2, <2>7, <3>1 DEF Count
    <3>3. step <= 8 => timer' >= Left' + 200
      BY <2>6, <2>7, <3>1, <3>2
    <3> QED BY <1>1, <1>5, <1>6, <1>8, <2>7, <3>1, <3>3 DEF ShownInv, OneShotInv, SaveInv
  <2>8. CASE playing # "Saving"
    <3>1. led_signal = "Saving" /\ timer >= Left + 1000
      BY <1>8, <2>8 DEF ShownInv, SaveInv
    <3>2. led_pc = "sleep"
      BY <2>2, <2>4, <3>1, Assumptions DEF PortalState
    <3>3. playing \in PortalState
      BY <3>2 DEF DeviceInv, LedTyped
    <3>4. playing \in Repeated
      BY <2>8, <3>3 DEF PortalState, Repeated
    <3>5. step \in 1..Count[playing]
      BY <3>4 DEF ShownInv, RepeatInv
    <3>6. timer' >= Left' + 1000
      BY <2>6, <3>1, <3>2, <3>4, <3>5
    <3> QED BY <1>1, <1>5, <1>8, <2>8, <3>1, <3>6 DEF ShownInv, OneShotInv, SaveInv
  <2> QED BY <2>7, <2>8
<1> QED BY <1>7, <1>8

\* led_task begins Saving in time, once, and goes on to its end.
LEMMA LedTaskShown ==
    ASSUME DeviceInv, ShownInv, LedTask
    PROVE  ShownInv'
<1>0. /\ UNCHANGED <<pc, timer>> /\ LedStep /\ pc # "erase"
      /\ timer \in Nat /\ sleep \in Nat
      /\ led_pc # "wait" => playing \in PortalState
      /\ playing \in PortalState \cup {NONE} /\ led_signal \in PortalState \cup {NONE}
  BY DEF LedTask, deviceVars, DeviceInv, LedTyped, Whole
<1>1. CASE LedReceive
  <2>1. /\ led_pc = "wait" /\ led_signal # NONE /\ playing' = led_signal /\ led_signal' = NONE
        /\ step' = 1 /\ led_pc' = "lock"
    BY <1>1 DEF LedReceive
  <2>2. led_signal \in PortalState /\ playing # "Saving"
    BY <1>0, <2>1 DEF ShownInv, OneShotInv
  <2>3. Left = 0
    BY <2>1 DEF Left
  <2>4. RepeatInv'
    BY <2>1 DEF RepeatInv, Repeated, Count
  <2>5. CASE led_signal = "Saving"
    <3>1. pc = "saved" /\ timer >= 1000
      BY <1>0, <2>2, <2>3, <2>5 DEF ShownInv, SaveInv
    <3>2. Left' = Lasts("Saving", 1) + After("Saving", 1)
      BY <2>1, <2>5 DEF Left
    <3>3. Left' = 800
      <4>1. 1 \in 1..Count["Saving"]
        BY DEF Count
      <4> QED BY <3>2, <4>1, Counted
    <3>4. timer' >= Left' + 200
      BY <1>0, <3>1, <3>3
    <3>5. led_signal' # "Saving"
      BY <2>1, Assumptions DEF PortalState
    <3> QED BY <1>0, <2>1, <2>4, <2>5, <3>1, <3>4, <3>5 DEF ShownInv, OneShotInv, SaveInv
  <2>6. CASE led_signal # "Saving"
    <3>1. pc # "saved"
      BY <2>2, <2>6 DEF ShownInv, SaveInv
    <3>2. led_signal' # "Saving"
      BY <2>1, Assumptions DEF PortalState
    <3> QED BY <1>0, <2>1, <2>4, <2>6, <3>1, <3>2 DEF ShownInv, OneShotInv, SaveInv
  <2> QED BY <2>5, <2>6
<1>2. CASE LedLock
  <2>1. led_pc = "lock" /\ led_pc' = "set" /\ UNCHANGED <<led_signal, playing, step, sleep>>
    BY <1>2 DEF LedLock
  <2>2. Left' = Left
    BY <2>1 DEF Left
  <2> QED BY <1>0, <2>1, <2>2 DEF ShownInv, RepeatInv, OneShotInv, SaveInv
<1>3. CASE LedSet
  <2>1. led_pc = "set" /\ UNCHANGED <<led_signal, playing, step>> /\ playing \in PortalState
    BY <1>0, <1>3 DEF LedSet
  <2>2. Steps \in Seq(Flash(PortalTimes))
    BY <2>1, PortalTimed DEF Steps, Timed
  <2>3. DOMAIN Steps = 1..Len(Steps)
    BY <2>2
  <2>4. ASSUME step \in 1..Len(Steps)
        PROVE  /\ led_pc' = "sleep" /\ sleep' = Lasts(playing, step)
               /\ Left' = Left
    <3>1. led_pc' = "sleep" /\ sleep' = Steps[step][2]
      BY <1>3, <2>3, <2>4 DEF LedSet
    <3>2. Steps[step][2] = Lasts(playing, step)
      BY DEF Steps, Lasts
    <3> QED BY <2>1, <3>1, <3>2 DEF Left
  <2>5. CASE playing # "Saving"
    <3>1. playing \in Repeated
      BY <2>1, <2>5 DEF PortalState, Repeated
    <3>2. step \in 1..Count[playing] /\ Len(Steps) = Count[playing]
      BY <3>1, PortalPatterns DEF ShownInv, RepeatInv, Steps
    <3>3. led_pc' = "sleep" /\ sleep' = Lasts(playing, step) /\ Left' = Left
      BY <2>4, <3>2
    <3>4. Lasts(playing, step) \in Nat
      BY <3>1, <3>2, Counted
    <3>5. RepeatInv'
      BY <2>1, <3>1, <3>2, <3>3, <3>4 DEF RepeatInv
    <3> QED BY <1>0, <2>1, <2>5, <3>3, <3>5 DEF ShownInv, OneShotInv, SaveInv
  <2>6. CASE playing = "Saving"
    <3>1. /\ step \in Nat \ {0} /\ pc = "saved" /\ led_signal = NONE
          /\ step <= 8 => timer >= Left + 200
      BY <2>6 DEF ShownInv, OneShotInv
    <3>2. Len(Steps) = 10
      BY <2>6, PortalPatterns DEF Steps
    <3>3. led_signal # "Saving" /\ playing \notin Repeated
      BY <2>6, <3>1, Assumptions DEF PortalState, Repeated
    <3>4. CASE step <= 10
      <4>1. led_pc' = "sleep" /\ Left' = Left
        BY <2>4, <3>1, <3>2, <3>4
      <4> QED BY <1>0, <2>1, <2>6, <3>1, <3>3, <4>1 DEF ShownInv, RepeatInv, OneShotInv, SaveInv
    <3>5. CASE step > 10
      <4>1. ~(step <= 8)
        BY <3>1, <3>5
      <4> QED BY <1>0, <2>1, <2>6, <3>1, <3>3, <3>5, <4>1 DEF ShownInv, RepeatInv, OneShotInv, SaveInv
    <3> QED BY <3>1, <3>4, <3>5
  <2> QED BY <2>5, <2>6
<1>4. CASE LedWake
  <2>1. /\ led_pc = "sleep" /\ sleep = 0 /\ UNCHANGED <<led_signal, playing, sleep>>
        /\ playing \in PortalState
    BY <1>0, <1>4 DEF LedWake
  <2>2. Left = 0 + After(playing, step)
    BY <2>1 DEF Left
  <2>3. CASE playing # "Saving"
    <3>1. playing \in Repeated
      BY <2>1, <2>3 DEF PortalState, Repeated
    <3>2. /\ step \in 1..Count[playing] /\ Len(Steps) = Count[playing]
          /\ pattern[playing].kind = "repeat" /\ Count[playing] \in Nat \ {0}
      <4>1. /\ step \in 1..Count[playing] /\ Len(Steps) = Count[playing]
            /\ pattern[playing].kind = "repeat"
        BY <3>1, PortalPatterns DEF ShownInv, RepeatInv, Steps
      <4>2. Count[playing] \in Nat \ {0}
        BY <3>1 DEF Count, Repeated
      <4> QED BY <4>1, <4>2
    <3>3. pc = "saved" => led_signal = "Saving" /\ timer >= Left + 1000
      BY <2>3 DEF ShownInv, SaveInv
    <3>4. CASE step < Count[playing]
      <4>1. step' = step + 1 /\ led_pc' = "lock"
        BY <1>4, <3>2, <3>4 DEF LedWake
      <4>2. Left = Lasts(playing, step + 1) + After(playing, step + 1)
        <5>1. /\ After(playing, step) = Lasts(playing, step + 1) + After(playing, step + 1)
              /\ After(playing, step) \in Nat
          BY <3>1, <3>2, <3>4, Counted
        <5> QED BY <2>2, <5>1
      <4>3. Left' = Left
        BY <2>1, <4>1, <4>2 DEF Left
      <4>4. RepeatInv'
        BY <2>1, <3>1, <3>2, <3>4, <4>1 DEF RepeatInv
      <4> QED BY <1>0, <2>1, <2>3, <4>3, <4>4 DEF ShownInv, OneShotInv, SaveInv
    <3>5. CASE step = Count[playing]
      <4>1. IF led_signal # NONE THEN led_pc' = "wait" /\ step' = step
                                 ELSE led_pc' = "lock" /\ step' = 1
        BY <1>4, <3>2, <3>5 DEF LedWake
      <4>2. RepeatInv'
        BY <2>1, <3>1, <3>2, <4>1 DEF RepeatInv
      <4>3. ASSUME pc = "saved" PROVE timer >= Left' + 1000
        <5>1. led_signal # NONE
          BY <3>3, <4>3, Assumptions DEF PortalState
        <5>2. Left' = 0
          BY <4>1, <5>1 DEF Left
        <5>3. After(playing, step) = 0
          BY <3>1, <3>2, <3>5, Counted
        <5> QED BY <1>0, <2>2, <3>3, <4>3, <5>2, <5>3
      <4> QED BY <1>0, <2>1, <2>3, <3>3, <4>2, <4>3 DEF ShownInv, OneShotInv, SaveInv
    <3> QED BY <3>2, <3>4, <3>5
  <2>4. CASE playing = "Saving"
    <3>1. /\ step \in Nat \ {0} /\ pc = "saved" /\ led_signal = NONE
          /\ step <= 8 => timer >= Left + 200
      BY <2>4 DEF ShownInv, OneShotInv
    <3>2. pattern[playing].kind = "one_shot"
      BY <2>4, PortalPatterns
    <3>3. step' = step + 1 /\ led_pc' = "lock"
      BY <1>4, <3>2 DEF LedWake
    <3>4. led_signal # "Saving" /\ playing \notin Repeated
      BY <2>4, <3>1, Assumptions DEF PortalState, Repeated
    <3>5. ASSUME step' <= 8 PROVE timer >= Left' + 200
      <4>1. step \in 1..Count[playing] /\ step < Count[playing] /\ step <= 8
        BY <2>4, <3>1, <3>3, <3>5 DEF Count
      <4>2. /\ After(playing, step) = Lasts(playing, step + 1) + After(playing, step + 1)
            /\ After(playing, step) \in Nat
        BY <2>4, <4>1, Counted
      <4>3. Left' = Left
        BY <2>1, <2>2, <3>3, <4>2 DEF Left
      <4> QED BY <3>1, <4>1, <4>3
    <3> QED BY <1>0, <2>1, <2>4, <3>1, <3>3, <3>4, <3>5 DEF ShownInv, RepeatInv, OneShotInv, SaveInv
  <2> QED BY <2>3, <2>4
<1> QED BY <1>0, <1>1, <1>2, <1>3, <1>4 DEF LedStep

\* Every step keeps ShownInv.
LEMMA ShownKept ==
    ASSUME DeviceInv, ShownInv, [ProvisioningNext]_vars
    PROVE  ShownInv'
<1>1. CASE FactoryReset \/ BootStation \/ BootPortal \/ GetForm
  <2>1. /\ UNCHANGED <<led_pc, playing, step, sleep, light>>
        /\ pc \in {"boot", "portal"} /\ pc' \in {"erase", "station", "mac", "scanning"}
        /\ led_signal' = "Saving" => pc' = "erase"
    BY <1>1 DEF FactoryReset, BootStation, BootPortal, GetForm, SignalLed, Call, ledTask
  <2> QED BY <2>1, MainShown
<1>2. ASSUME NEW form \in Forms, PostForm(form) PROVE ShownInv'
  <2>1. /\ UNCHANGED <<led_pc, playing, step, sleep, light>>
        /\ pc = "portal" /\ pc' = "close_ap" /\ led_signal' = "Connecting"
    BY <1>2 DEF PostForm, SignalLed, Call, ledTask
  <2> QED BY <2>1, MainShown
<1>3. CASE ApStarted \/ ScanDone \/ ApRestarted
  <2>1. /\ UNCHANGED <<led_pc, playing, step, sleep, light>>
        /\ pc \in {"start_ap", "scanning", "restart_ap"} /\ pc' \in {"stack_up", "portal"}
        /\ led_signal' = "Provisioning"
    BY <1>3 DEF ApStarted, ScanDone, ApRestarted, SignalLed, ledTask
  <2> QED BY <2>1, MainShown
<1>4. CASE MacRead \/ StackUp \/ ApClosed \/ JoinOk \/ JoinFail \/ JoinTimeout \/ SaveFail
  <2>1. /\ UNCHANGED <<led_signal, led_pc, playing, step, sleep, light>>
        /\ pc \in {"mac", "stack_up", "close_ap", "joining", "save"}
        /\ pc' \in {"start_ap", "portal", "joining", "save", "restart_ap"}
    BY <1>4 DEF MacRead, StackUp, ApClosed, JoinOk, JoinFail, JoinTimeout, SaveFail, Call, ledTask,
                ledVars
  <2> QED BY <2>1, MainShown
<1>5. CASE DeviceLock
  <2>1. /\ UNCHANGED <<led_signal, led_pc, playing, step, sleep, light, pc>>
        /\ pc \notin {"erase", "saved"}
    BY <1>5 DEF DeviceLock, InCall, ledTask, deviceVars
  <2> QED BY <2>1, MainShown
<1>6. CASE FactoryErase \/ WatchdogReset \/ PowerCut
  BY <1>6, RestartShown DEF FactoryErase, WatchdogReset, PowerCut
<1>7. CASE UNCHANGED vars
  <2>1. UNCHANGED <<led_signal, led_pc, playing, step, sleep, pc, timer>>
    BY <1>7 DEF vars, ledVars, deviceVars
  <2>2. Left' = Left
    BY <2>1 DEF Left
  <2> QED BY <2>1, <2>2 DEF ShownInv, RepeatInv, OneShotInv, SaveInv
<1> QED BY <1>1, <1>2, <1>3, <1>4, <1>5, <1>6, <1>7, SaveShown, LedTaskShown, TickShown, Zenon
        DEF ProvisioningNext, DeviceStep, Environment

\* SavingShown (handle_provision and led_task): whichever pattern is playing when a save
\* ends, and for every tick, the LED has begun the fifth flash of Saving when the
\* watchdog resets the device.
THEOREM SavingAlwaysShown == ProvisioningSpec => []SavingShown
<1>1. ProvisioningInit => ShownInv
  BY Assumptions
  DEF ProvisioningInit, LedInit, ShownInv, RepeatInv, OneShotInv, SaveInv, Repeated, PortalState
<1>2. DeviceInv /\ ShownInv => SavingShown
  <2> SUFFICES ASSUME DeviceInv, ShownInv, pc = "saved", timer = 0
               PROVE  playing = "Saving" /\ step >= Len(Steps) - 1
    BY DEF SavingShown
  <2>1. playing \in PortalState \cup {NONE} /\ sleep \in Nat
    BY DEF DeviceInv, LedTyped, Whole
  <2>2. playing = "Saving"
    <3> SUFFICES ASSUME playing # "Saving" PROVE FALSE
      OBVIOUS
    <3>1. playing \in Repeated \cup {NONE}
      BY <2>1 DEF PortalState, Repeated
    <3>2. Left \in Nat
      BY <3>1, LeftBounded DEF ShownInv
    <3> QED BY <3>2 DEF ShownInv, SaveInv
  <2>3. step \in Nat \ {0} /\ (led_pc = "wait" => step > 10) /\ (step <= 8 => 0 >= Left + 200)
    BY <2>2 DEF ShownInv, OneShotInv
  <2>4. ~(step <= 8)
    <3> SUFFICES ASSUME step <= 8 PROVE FALSE
      OBVIOUS
    <3>1. step \in 1..Count["Saving"] /\ led_pc # "wait"
      BY <2>3 DEF Count
    <3>2. Lasts("Saving", step) \in Nat /\ After("Saving", step) \in Nat
      BY <3>1, Counted
    <3>3. Left \in Nat
      BY <2>1, <2>2, <3>1, <3>2 DEF Left
    <3> QED BY <2>3, <3>3
  <2>5. Len(Steps) = 10
    BY <2>2, PortalPatterns DEF Steps
  <2> QED BY <2>2, <2>3, <2>4, <2>5
<1>3. DeviceInv /\ ShownInv /\ [ProvisioningNext]_vars => ShownInv'
  BY ShownKept
<1> QED BY <1>1, <1>2, <1>3, DeviceInvariance, PTL DEF ProvisioningSpec

--------------------------------------------------------------------------------
(* The loops of the portal, byte by byte *)

\* The decoder's loop, the pieces of a text and the forms read so far.
Loops == [ok : BOOLEAN, text : Seq(Bytes \cup {NOT_UTF8}), escape : {e \in Seq(Bytes) : Len(e) <= 2}]
Pieces == Seq(Seq(Bytes)) \ {<<>>}
Texts == Seq(Bytes) \cup {MISSING}
Forming == [ssid : Texts, password : Texts, host : Texts,
            port : {PortNumber[text] : text \in DOMAIN PortNumber} \cup {DEFAULT_PORT}]

NoForm == [ssid |-> MISSING, password |-> MISSING, host |-> <<>>, port |-> DEFAULT_PORT]

\* What the alphabet has.
LEMMA Alphabet ==
    /\ \A b \in {"header", " ", "=", "&", "+", "%"} \cup FieldNames : b \in Bytes
    /\ \A b \in Bytes : <<b>> \in Seq(Bytes)
    /\ Chars \subseteq Bytes /\ NOT_UTF8 \notin Chars /\ NOT_UTF8 \notin FieldNames
    /\ "header" \notin Chars /\ \A f \in FieldNames : f \notin Chars
    /\ {" ", "=", "&"} \subseteq Chars
<1>1. \A b \in {"header", " ", "=", "&", "+", "%"} \cup FieldNames : b \in Bytes
  BY PortalAssumption
<1>2. NOT_UTF8 \notin FieldNames /\ {" ", "=", "&"} \subseteq Chars
  BY PortalAssumption
<1>3. \A b \in Bytes : <<b>> \in Seq(Bytes)
  OBVIOUS
<1> QED BY <1>1, <1>2, <1>3 DEF Chars

\* Each step of a loop keeps its type.
LEMMA DecodeByteTyped ==
    ASSUME NEW loop \in Loops, NEW byte \in Bytes
    PROVE  DecodeByte(loop, byte) \in Loops
<1> DEFINE digits == Append(Tail(loop.escape), byte)
           All == Bytes \cup {NOT_UTF8}
<1>1. loop.text \in Seq(All) /\ loop.escape \in Seq(Bytes) /\ Len(loop.escape) \in {0, 1, 2}
      /\ loop.ok \in BOOLEAN
  <2>1. loop.escape \in {e \in Seq(Bytes) : Len(e) <= 2} /\ loop.text \in Seq(All) /\ loop.ok \in BOOLEAN
    BY DEF Loops
  <2>2. \A e \in Seq(Bytes) : Len(e) <= 2 => Len(e) \in {0, 1, 2}
    <3>1. \A n \in Nat : n <= 2 => n \in {0, 1, 2}
      OBVIOUS
    <3>2. \A e \in Seq(Bytes) : Len(e) \in Nat
      OBVIOUS
    <3> QED BY <3>1, <3>2, Zenon
  <2> QED BY <2>1, <2>2
<1>2. loop.escape = <<>> <=> Len(loop.escape) = 0
  BY <1>1
<1>3. \A t \in Seq(All), b \in All : Append(t, b) \in Seq(All)
  OBVIOUS
<1>4. CASE ~loop.ok
  BY <1>4 DEF DecodeByte
<1>5. CASE loop.ok /\ loop.escape = <<>>
  <2>1. CASE byte = "%"
    <3>1. DecodeByte(loop, byte) = [loop EXCEPT !.escape = <<"%">>]
      BY <1>5, <2>1 DEF DecodeByte
    <3>2. <<"%">> \in {e \in Seq(Bytes) : Len(e) <= 2}
      BY <2>1
    <3> QED BY <3>1, <3>2 DEF Loops
  <2>2. CASE byte # "%"
    <3> DEFINE b == IF byte = "+" THEN " " ELSE byte
    <3>1. DecodeByte(loop, byte) = [loop EXCEPT !.text = Append(loop.text, b)]
      BY <1>5, <2>2 DEF DecodeByte
    <3>2. b \in All
      BY PortalAssumption
    <3> HIDE DEF b, All
    <3>3. Append(loop.text, b) \in Seq(All)
      BY <1>1, <1>3, <3>2
    <3> QED BY <3>1, <3>3 DEF Loops, All
  <2> QED BY <2>1, <2>2
<1>6. CASE loop.ok /\ Len(loop.escape) = 1
  <2>1. DecodeByte(loop, byte) = [loop EXCEPT !.escape = Append(loop.escape, byte)]
    BY <1>2, <1>6 DEF DecodeByte
  <2>2. Append(loop.escape, byte) \in {e \in Seq(Bytes) : Len(e) <= 2}
    <3>1. \A e \in Seq(Bytes) : Append(e, byte) \in Seq(Bytes) /\ Len(Append(e, byte)) = Len(e) + 1
      OBVIOUS
    <3>2. Append(loop.escape, byte) \in Seq(Bytes)
          /\ Len(Append(loop.escape, byte)) = Len(loop.escape) + 1
      BY <1>1, <3>1, Zenon
    <3> QED BY <1>6, <3>2
  <2> QED BY <2>1, <2>2 DEF Loops
<1>7. CASE loop.ok /\ Len(loop.escape) = 2
  <2>1. DecodeByte(loop, byte) =
          IF digits \in DOMAIN Unhex
          THEN [loop EXCEPT !.text = Append(loop.text, Unhex[digits]), !.escape = <<>>]
          ELSE [loop EXCEPT !.ok = FALSE]
    BY <1>2, <1>7 DEF DecodeByte
  <2>2. CASE digits \in DOMAIN Unhex
    <3>1. Unhex[digits] \in All
      BY <2>2, PortalAssumption DEF Chars
    <3> HIDE DEF All, digits
    <3>2. Append(loop.text, Unhex[digits]) \in Seq(All)
      BY <1>1, <1>3, <3>1
    <3>3. <<>> \in {e \in Seq(Bytes) : Len(e) <= 2}
      OBVIOUS
    <3> QED BY <2>1, <2>2, <3>2, <3>3 DEF Loops, All
  <2>3. CASE digits \notin DOMAIN Unhex
    <3> HIDE DEF digits
    <3> QED BY <2>1, <2>3 DEF Loops
  <2> QED BY <2>2, <2>3
<1> QED BY <1>1, <1>2, <1>4, <1>5, <1>6, <1>7

\* A byte leaves the pieces a list of at least one.
LEMMA SplitByteTyped ==
    ASSUME NEW pieces \in Pieces, NEW byte \in Bytes
    PROVE  SplitByte(pieces, byte) \in Pieces
<1>1. pieces \in Seq(Seq(Bytes)) /\ pieces # <<>>
  BY DEF Pieces
<1>2. Front(pieces) \in Seq(Seq(Bytes)) /\ Last(pieces) \in Seq(Bytes)
  BY <1>1, FrontLast
<1>3. <<>> \in Seq(Bytes) /\ Append(Last(pieces), byte) \in Seq(Bytes)
  BY <1>2
<1>4. \A p \in Seq(Seq(Bytes)), x \in Seq(Bytes) : Append(p, x) \in Pieces
  BY AppendFrontLast DEF Pieces
<1> QED BY <1>1, <1>2, <1>3, <1>4 DEF SplitByte

\* A pair is cut at a sign of its own.
LEMMA CutTyped ==
    ASSUME NEW pair \in Seq(Bytes)
    PROVE  /\ Signs(pair) # {} => Min(Signs(pair)) \in Signs(pair) /\ \A i \in Signs(pair) : Min(Signs(pair)) <= i
           /\ KeyValue(pair).key \in Seq(Bytes) /\ KeyValue(pair).value \in Seq(Bytes)
<1>1. Signs(pair) \subseteq 1..Len(pair) /\ Len(pair) \in Nat
  BY DEF Signs
<1>2. CASE Signs(pair) = {}
  <2>1. KeyValue(pair) = [key |-> pair, value |-> <<>>]
    BY <1>2 DEF KeyValue
  <2> QED BY <1>2, <2>1
<1>3. CASE Signs(pair) # {}
  <2>1. PICK i \in Signs(pair) : \A j \in Signs(pair) : ~(j < i)
    <3>1. Signs(pair) \in SUBSET Nat
      BY <1>1
    <3> QED BY <1>3, <3>1, LeastNumber
  <2>2. \E x \in Signs(pair) : \A y \in Signs(pair) : x <= y
    BY <1>1, <2>1
  <2>3. Min(Signs(pair)) \in Signs(pair) /\ \A j \in Signs(pair) : Min(Signs(pair)) <= j
    BY <2>2 DEF Min
  <2> DEFINE m == Min(Signs(pair))
  <2>4. m \in 1..Len(pair)
    BY <1>1, <2>3
  <2>5. KeyValue(pair) = CutAt(pair, m)
    BY <1>3 DEF KeyValue
  <2> HIDE DEF m
  <2>6. SubSeq(pair, 1, m - 1) \in Seq(Bytes) /\ SubSeq(pair, m + 1, Len(pair)) \in Seq(Bytes)
    BY <1>1, <2>4
  <2> QED BY <2>3, <2>5, <2>6 DEF CutAt
<1> QED BY <1>2, <1>3

\* A pair fills in at most one field, and a port only with a number.
LEMMA ParsePairTyped ==
    ASSUME NEW form \in Forming, NEW pair \in Seq(Bytes)
    PROVE  ParsePair(form, pair) \in Forming
<1> DEFINE kv == KeyValue(pair)
<1>1. kv.value \in Texts
  BY CutTyped DEF Texts
<1> HIDE DEF kv
<1>2. ParsePair(form, pair) \in
        {[form EXCEPT !.ssid = kv.value], [form EXCEPT !.password = kv.value], [form EXCEPT !.host = kv.value], form}
          \cup {[form EXCEPT !.port = PortNumber[text]] : text \in DOMAIN PortNumber}
  BY DEF ParsePair, kv
<1> QED BY <1>1, <1>2 DEF Forming

\* decode_url_encoded, byte by byte.
LEMMA DecodedSteps ==
    /\ Decoded[<<>>] = [ok |-> TRUE, text |-> <<>>, escape |-> <<>>]
    /\ \A s \in Seq(Bytes) : Decoded[s] \in Loops
    /\ \A s \in Seq(Bytes), x \in Bytes : Decoded[Append(s, x)] = DecodeByte(Decoded[s], x)
<1> DEFINE start == [ok |-> TRUE, text |-> <<>>, escape |-> <<>>]
           Op == [x \in Loops \X Bytes |-> DecodeByte(x[1], x[2])]
           Body(f) == [s \in Seq(Bytes) |-> IF s = <<>> THEN start ELSE DecodeByte(f[Front(s)], Last(s))]
<1>0. start \in Loops
  BY DEF Loops
<1>1. Op \in [Loops \X Bytes -> Loops]
  <2> SUFFICES ASSUME NEW x \in Loops \X Bytes PROVE DecodeByte(x[1], x[2]) \in Loops
    OBVIOUS
  <2> QED BY DecodeByteTyped
<1>2. PICK f : Solves(f, Bytes, Loops, start, Op)
  <2> HIDE DEF Op, start
  <2>1. Recursion(Bytes, Loops, start, Op)
    BY <1>0, <1>1 DEF Recursion
  <2> QED BY <2>1, SeqRecursion, Zenon
<1>3. f = Body(f)
  <2>1. ASSUME NEW s \in Seq(Bytes), s # <<>>
        PROVE  Op[<<f[Front(s)], Last(s)>>] = DecodeByte(f[Front(s)], Last(s))
    <3>1. f[Front(s)] \in Loops /\ Last(s) \in Bytes
      BY <1>2, <2>1, FrontLast DEF Solves
    <3> QED BY <3>1
  <2> HIDE DEF Op, start
  <2>2. \A s \in Seq(Bytes) : f[s] = IF s = <<>> THEN start ELSE DecodeByte(f[Front(s)], Last(s))
    BY <1>2, <2>1 DEF Solves
  <2>3. f \in [Seq(Bytes) -> Loops]
    BY <1>2 DEF Solves
  <2> QED BY <2>2, <2>3
<1>4. Decoded = Body(Decoded)
  <2>1. \E g : g = Body(g)
    BY <1>3
  <2> QED BY <2>1 DEF Decoded
<1>5. Decoded[<<>>] = start
  BY <1>4
<1>6. ASSUME NEW s \in Seq(Bytes), NEW x \in Bytes
      PROVE  Decoded[Append(s, x)] = DecodeByte(Decoded[s], x)
  <2> HIDE DEF Body, start
  <2>1. /\ Append(s, x) \in Seq(Bytes) /\ Append(s, x) # <<>>
        /\ Front(Append(s, x)) = s /\ Last(Append(s, x)) = x
    BY AppendFrontLast, Zenon
  <2>2. Body(Decoded)[Append(s, x)] = DecodeByte(Decoded[s], x)
    BY <2>1, Zenon DEF Body
  <2> QED BY <1>4, <2>2
<1>7. \A s \in Seq(Bytes) : Decoded[s] \in Loops
  <2> HIDE DEF Body, start
  <2>1. \A s \in Seq(Bytes), x \in Bytes : Decoded[s] \in Loops => Decoded[Append(s, x)] \in Loops
    BY <1>6, DecodeByteTyped
  <2> QED BY <1>0, <1>5, <2>1, SeqRecursionTyped, Zenon
<1> QED BY <1>5, <1>6, <1>7

\* split('&'), byte by byte.
LEMMA SplitSteps ==
    /\ split[<<>>] = <<<<>>>>
    /\ \A s \in Seq(Bytes) : split[s] \in Pieces
    /\ \A s \in Seq(Bytes), x \in Bytes : split[Append(s, x)] = SplitByte(split[s], x)
<1> DEFINE start == <<<<>>>>
           Op == [x \in Pieces \X Bytes |-> SplitByte(x[1], x[2])]
           Body(f) == [s \in Seq(Bytes) |-> IF s = <<>> THEN start ELSE SplitByte(f[Front(s)], Last(s))]
<1>0. start \in Pieces
  BY DEF Pieces
<1>1. Op \in [Pieces \X Bytes -> Pieces]
  <2> SUFFICES ASSUME NEW x \in Pieces \X Bytes PROVE SplitByte(x[1], x[2]) \in Pieces
    OBVIOUS
  <2> QED BY SplitByteTyped
<1>2. PICK f : Solves(f, Bytes, Pieces, start, Op)
  <2> HIDE DEF Op, start
  <2>1. Recursion(Bytes, Pieces, start, Op)
    BY <1>0, <1>1 DEF Recursion
  <2> QED BY <2>1, SeqRecursion, Zenon
<1>3. f = Body(f)
  <2>1. ASSUME NEW s \in Seq(Bytes), s # <<>>
        PROVE  Op[<<f[Front(s)], Last(s)>>] = SplitByte(f[Front(s)], Last(s))
    <3>1. f[Front(s)] \in Pieces /\ Last(s) \in Bytes
      BY <1>2, <2>1, FrontLast DEF Solves
    <3> QED BY <3>1
  <2> HIDE DEF Op, start
  <2>2. \A s \in Seq(Bytes) : f[s] = IF s = <<>> THEN start ELSE SplitByte(f[Front(s)], Last(s))
    BY <1>2, <2>1 DEF Solves
  <2>3. f \in [Seq(Bytes) -> Pieces]
    BY <1>2 DEF Solves
  <2> QED BY <2>2, <2>3
<1>4. split = Body(split)
  <2>1. \E g : g = Body(g)
    BY <1>3
  <2> QED BY <2>1 DEF split
<1>5. split[<<>>] = start
  BY <1>4
<1>6. ASSUME NEW s \in Seq(Bytes), NEW x \in Bytes
      PROVE  split[Append(s, x)] = SplitByte(split[s], x)
  <2> HIDE DEF Body, start
  <2>1. /\ Append(s, x) \in Seq(Bytes) /\ Append(s, x) # <<>>
        /\ Front(Append(s, x)) = s /\ Last(Append(s, x)) = x
    BY AppendFrontLast, Zenon
  <2>2. Body(split)[Append(s, x)] = SplitByte(split[s], x)
    BY <2>1, Zenon DEF Body
  <2> QED BY <1>4, <2>2
<1>7. \A s \in Seq(Bytes) : split[s] \in Pieces
  <2> HIDE DEF Body, start
  <2>1. \A s \in Seq(Bytes), x \in Bytes : split[s] \in Pieces => split[Append(s, x)] \in Pieces
    BY <1>6, SplitByteTyped
  <2> QED BY <1>0, <1>5, <2>1, SeqRecursionTyped, Zenon
<1> QED BY <1>5, <1>6, <1>7

\* parse_connect_form, pair by pair.
LEMMA ParsedSteps ==
    /\ Parsed[<<>>] = NoForm
    /\ \A s \in Seq(Seq(Bytes)) : Parsed[s] \in Forming
    /\ \A s \in Seq(Seq(Bytes)), x \in Seq(Bytes) : Parsed[Append(s, x)] = ParsePair(Parsed[s], x)
<1> DEFINE start == NoForm
           Op == [x \in Forming \X Seq(Bytes) |-> ParsePair(x[1], x[2])]
           Body(f) == [s \in Seq(Seq(Bytes)) |-> IF s = <<>> THEN start ELSE ParsePair(f[Front(s)], Last(s))]
<1>0. start \in Forming
  BY DEF Forming, NoForm, Texts
<1>1. Op \in [Forming \X Seq(Bytes) -> Forming]
  <2> SUFFICES ASSUME NEW x \in Forming \X Seq(Bytes) PROVE ParsePair(x[1], x[2]) \in Forming
    OBVIOUS
  <2> QED BY ParsePairTyped
<1>2. PICK f : Solves(f, Seq(Bytes), Forming, start, Op)
  <2> HIDE DEF Op, start
  <2>1. Recursion(Seq(Bytes), Forming, start, Op)
    BY <1>0, <1>1 DEF Recursion
  <2> QED BY <2>1, SeqRecursion, Zenon
<1>3. f = Body(f)
  <2>1. ASSUME NEW s \in Seq(Seq(Bytes)), s # <<>>
        PROVE  Op[<<f[Front(s)], Last(s)>>] = ParsePair(f[Front(s)], Last(s))
    <3>1. f[Front(s)] \in Forming /\ Last(s) \in Seq(Bytes)
      BY <1>2, <2>1, FrontLast DEF Solves
    <3> QED BY <3>1
  <2> HIDE DEF Op, start
  <2>2. \A s \in Seq(Seq(Bytes)) : f[s] = IF s = <<>> THEN start ELSE ParsePair(f[Front(s)], Last(s))
    BY <1>2, <2>1 DEF Solves
  <2>3. f \in [Seq(Seq(Bytes)) -> Forming]
    BY <1>2 DEF Solves
  <2> QED BY <2>2, <2>3
<1>4. Parsed = Body(Parsed)
  <2>1. \E g : g = Body(g)
    BY <1>3
  <2> QED BY <2>1 DEF Parsed, NoForm
<1>5. Parsed[<<>>] = start
  BY <1>4
<1>6. ASSUME NEW s \in Seq(Seq(Bytes)), NEW x \in Seq(Bytes)
      PROVE  Parsed[Append(s, x)] = ParsePair(Parsed[s], x)
  <2> HIDE DEF Body, start
  <2>1. /\ Append(s, x) \in Seq(Seq(Bytes)) /\ Append(s, x) # <<>>
        /\ Front(Append(s, x)) = s /\ Last(Append(s, x)) = x
    BY AppendFrontLast, Zenon
  <2>2. Body(Parsed)[Append(s, x)] = ParsePair(Parsed[s], x)
    BY <2>1, Zenon DEF Body
  <2> QED BY <1>4, <2>2
<1>7. \A s \in Seq(Seq(Bytes)) : Parsed[s] \in Forming
  <2> HIDE DEF Body, start
  <2>1. \A s \in Seq(Seq(Bytes)), x \in Seq(Bytes) : Parsed[s] \in Forming => Parsed[Append(s, x)] \in Forming
    BY <1>6, ParsePairTyped
  <2> QED BY <1>0, <1>5, <2>1, SeqRecursionTyped, Zenon
<1> QED BY <1>5, <1>6, <1>7

\* An escape is "%" and two digits.
LEMMA EscapeShape ==
    ASSUME NEW char \in DOMAIN Escaped
    PROVE  /\ Escaped[char] \in Seq(Chars) /\ Escaped[char] = <<Escaped[char][1], Escaped[char][2]>>
           /\ Escaped[char][1] \in Chars /\ Escaped[char][2] \in Chars
           /\ Escaped[char] \in DOMAIN Unhex /\ Unhex[Escaped[char]] = char
<1>1. Escaped[char] \in DOMAIN Unhex /\ Unhex[Escaped[char]] = char
  BY PortalAssumption
<1>2. Escaped[char] \in Seq(Chars) /\ Len(Escaped[char]) = 2
  BY <1>1, PortalAssumption
<1> QED BY <1>1, <1>2

\* A character is sent as bytes.
LEMMA EncodeCharTyped ==
    ASSUME NEW char \in Bytes
    PROVE  EncodeChar(char) \in Seq(Bytes)
<1>1. CASE char \in DOMAIN Escaped
  <2>1. Escaped[char] \in Seq(Bytes)
    BY <1>1, EscapeShape DEF Chars
  <2>2. <<"%">> \in Seq(Bytes) /\ <<"+">> \in Seq(Bytes)
    BY Alphabet
  <2>3. <<"%">> \o Escaped[char] \in Seq(Bytes)
    BY <2>1, <2>2, ConcatProperties
  <2> QED BY <1>1, <2>2, <2>3, Zenon DEF EncodeChar
<1>2. CASE char \notin DOMAIN Escaped
  <2>2. <<"+">> \in Seq(Bytes) /\ <<char>> \in Seq(Bytes)
    BY Alphabet
  <2> QED BY <1>2, <2>2 DEF EncodeChar
<1> QED BY <1>1, <1>2

\* The browser, character by character.
LEMMA EncodeTextSteps ==
    /\ EncodeText[<<>>] = <<>>
    /\ \A s \in Seq(Bytes) : EncodeText[s] \in Seq(Bytes)
    /\ \A s \in Seq(Bytes), x \in Bytes : EncodeText[Append(s, x)] = EncodeText[s] \o EncodeChar(x)
<1> DEFINE start == <<>>
           Op == [x \in Seq(Bytes) \X Bytes |-> x[1] \o EncodeChar(x[2])]
           Body(f) == [s \in Seq(Bytes) |-> IF s = <<>> THEN start ELSE f[Front(s)] \o EncodeChar(Last(s))]
<1>0. start \in Seq(Bytes)
  OBVIOUS
<1>1. Op \in [Seq(Bytes) \X Bytes -> Seq(Bytes)]
  <2> SUFFICES ASSUME NEW x \in Seq(Bytes) \X Bytes PROVE x[1] \o EncodeChar(x[2]) \in Seq(Bytes)
    OBVIOUS
  <2> QED BY EncodeCharTyped, ConcatProperties
<1>2. PICK f : Solves(f, Bytes, Seq(Bytes), start, Op)
  <2> HIDE DEF Op, start
  <2>1. Recursion(Bytes, Seq(Bytes), start, Op)
    BY <1>0, <1>1 DEF Recursion
  <2> QED BY <2>1, SeqRecursion, Zenon
<1>3. f = Body(f)
  <2>1. ASSUME NEW s \in Seq(Bytes), s # <<>>
        PROVE  Op[<<f[Front(s)], Last(s)>>] = f[Front(s)] \o EncodeChar(Last(s))
    <3>1. f[Front(s)] \in Seq(Bytes) /\ Last(s) \in Bytes
      BY <1>2, <2>1, FrontLast DEF Solves
    <3> QED BY <3>1
  <2> HIDE DEF Op, start
  <2>2. \A s \in Seq(Bytes) : f[s] = IF s = <<>> THEN start ELSE f[Front(s)] \o EncodeChar(Last(s))
    BY <1>2, <2>1 DEF Solves
  <2>3. f \in [Seq(Bytes) -> Seq(Bytes)]
    BY <1>2 DEF Solves
  <2> QED BY <2>2, <2>3
<1>4. EncodeText = Body(EncodeText)
  <2>1. \E g : g = Body(g)
    BY <1>3
  <2> QED BY <2>1 DEF EncodeText
<1>5. EncodeText[<<>>] = start
  BY <1>4
<1>6. ASSUME NEW s \in Seq(Bytes), NEW x \in Bytes
      PROVE  EncodeText[Append(s, x)] = EncodeText[s] \o EncodeChar(x)
  <2> HIDE DEF Body, start
  <2>1. /\ Append(s, x) \in Seq(Bytes) /\ Append(s, x) # <<>>
        /\ Front(Append(s, x)) = s /\ Last(Append(s, x)) = x
    BY AppendFrontLast, Zenon
  <2>2. Body(EncodeText)[Append(s, x)] = EncodeText[s] \o EncodeChar(x)
    BY <2>1, Zenon DEF Body
  <2> QED BY <1>4, <2>2
<1>7. \A s \in Seq(Bytes) : EncodeText[s] \in Seq(Bytes)
  <2> HIDE DEF Body, start
  <2>1. \A s \in Seq(Bytes), x \in Bytes : EncodeText[s] \in Seq(Bytes) => EncodeText[Append(s, x)] \in Seq(Bytes)
    BY <1>6, EncodeCharTyped, ConcatProperties
  <2> QED BY <1>0, <1>5, <2>1, SeqRecursionTyped, Zenon
<1> QED BY <1>5, <1>6, <1>7

--------------------------------------------------------------------------------
(* The browser's body, decoded *)

\* What concatenation does to the last element.
LEMMA Appending ==
    ASSUME NEW S, NEW s \in Seq(S), NEW t \in Seq(S), NEW x \in S
    PROVE  /\ s \o t \in Seq(S) /\ s \o <<>> = s /\ <<>> \o t = t
           /\ s \o <<x>> = Append(s, x)
           /\ s \o Append(t, x) = Append(s \o t, x)
<1>1. s \o t \in Seq(S) /\ s \o <<>> = s /\ <<>> \o t = t
  BY ConcatProperties, ConcatEmptySeq
<1>2. /\ <<x>> \in Seq(S) /\ s \o <<x>> = Append(s, x)
      /\ Append(t, x) = t \o <<x>> /\ Append(s \o t, x) = (s \o t) \o <<x>>
  BY <1>1, AppendIsConcat
<1>3. (s \o t) \o <<x>> = s \o (t \o <<x>>)
  BY <1>2, ConcatAssociative
<1> QED BY <1>1, <1>2, <1>3

\* Tuples of bytes are sequences.
LEMMA Tuples ==
    ASSUME NEW x \in Bytes, NEW y \in Bytes, NEW z \in Bytes
    PROVE  /\ <<x>> # <<>> /\ <<x, y>> # <<>> /\ Len(<<x>>) = 1 /\ Len(<<x, y>>) = 2
           /\ Append(<<x>>, y) = <<x, y>> /\ Append(<<x, y>>, z) = <<x, y, z>>
           /\ Append(Tail(<<x, y>>), z) = <<y, z>>
           /\ <<x>> \o <<y, z>> = <<x, y, z>>
           /\ <<x>> \in Seq(Bytes) /\ <<x, y>> \in Seq(Bytes) /\ <<x, y, z>> \in Seq(Bytes)
<1> DEFINE s == <<x>>
           t == <<x, y>>
           a == Append(s, y)
           b == Append(t, z)
           r == <<y>>
           c == Append(r, z)
<1>1. /\ s \in Seq(Bytes) /\ Len(s) = 1 /\ s[1] = x /\ s # <<>>
      /\ t \in Seq(Bytes) /\ Len(t) = 2 /\ t[1] = x /\ t[2] = y /\ t # <<>>
      /\ r \in Seq(Bytes) /\ Len(r) = 1 /\ r[1] = y /\ Tail(t) = r
      /\ <<x, y, z>> \in Seq(Bytes)
  OBVIOUS
<1> HIDE DEF s, t, r
<1>2. /\ a \in Seq(Bytes) /\ Len(a) = 2 /\ a[1] = x /\ a[2] = y
      /\ b \in Seq(Bytes) /\ Len(b) = 3 /\ b[1] = x /\ b[2] = y /\ b[3] = z
      /\ c \in Seq(Bytes) /\ Len(c) = 2 /\ c[1] = y /\ c[2] = z
  BY <1>1, AppendProperties
<1>3. s \o c = Append(s \o r, z) /\ s \o r = a
  BY <1>1, Appending DEF r
<1> HIDE DEF a, b, c
<1>4. a = <<x, y>> /\ b = <<x, y, z>> /\ c = <<y, z>>
  BY <1>2
<1>5. s \o <<y, z>> = <<x, y, z>>
  <2>1. s \o <<y, z>> = Append(t, z)
    BY <1>3, <1>4 DEF t
  <2> QED BY <1>4, <2>1 DEF b
<1> QED BY <1>1, <1>4, <1>5, Zenon DEF a, b, c, s, t, r

\* The decoder has read s, and made t of it.
Clean(s, t) == Decoded[s] = [ok |-> TRUE, text |-> t, escape |-> <<>>]

\* A byte that stands for itself.
LEMMA PlainDecoded ==
    ASSUME NEW s \in Seq(Bytes), NEW t \in Seq(Bytes), NEW x \in Bytes, x \notin {"%", "+"}, Clean(s, t)
    PROVE  Clean(Append(s, x), Append(t, x))
<1> DEFINE loop == [ok |-> TRUE, text |-> t, escape |-> <<>>]
<1>1. Decoded[Append(s, x)] = DecodeByte(loop, x)
  BY DecodedSteps DEF Clean
<1>2. loop.ok /\ loop.escape = <<>> /\ x # "%" /\ x # "+"
  OBVIOUS
<1>3. DecodeByte(loop, x) = [loop EXCEPT !.text = Append(loop.text, x)]
  <2> HIDE DEF loop
  <2> QED BY <1>2 DEF DecodeByte
<1> QED BY <1>1, <1>3 DEF Clean

\* A space.
LEMMA SpaceDecoded ==
    ASSUME NEW s \in Seq(Bytes), NEW t \in Seq(Bytes), Clean(s, t)
    PROVE  Clean(Append(s, "+"), Append(t, " "))
<1> DEFINE loop == [ok |-> TRUE, text |-> t, escape |-> <<>>]
<1>1. Decoded[Append(s, "+")] = DecodeByte(loop, "+")
  BY Alphabet, DecodedSteps DEF Clean
<1>2. loop.ok /\ loop.escape = <<>>
  OBVIOUS
<1>3. DecodeByte(loop, "+") = [loop EXCEPT !.text = Append(loop.text, " ")]
  <2> HIDE DEF loop
  <2> QED BY <1>2 DEF DecodeByte
<1> QED BY <1>1, <1>3 DEF Clean

\* An escape, and the character it is for.
LEMMA EscapeDecoded ==
    ASSUME NEW s \in Seq(Bytes), NEW t \in Seq(Bytes), NEW c \in DOMAIN Escaped, Clean(s, t)
    PROVE  /\ Clean(s \o (<<"%">> \o Escaped[c]), Append(t, c))
           /\ Decoded[Append(s, "%")].escape # <<>>
           /\ Decoded[Append(Append(s, "%"), Escaped[c][1])].escape # <<>>
<1> DEFINE d == Escaped[c][1]
           e == Escaped[c][2]
           l0 == [ok |-> TRUE, text |-> t, escape |-> <<>>]
           l1 == [ok |-> TRUE, text |-> t, escape |-> <<"%">>]
           l2 == [ok |-> TRUE, text |-> t, escape |-> <<"%", d>>]
           l3 == [ok |-> TRUE, text |-> Append(t, c), escape |-> <<>>]
<1>1. /\ Escaped[c] = <<d, e>> /\ Escaped[c] \in DOMAIN Unhex /\ Unhex[Escaped[c]] = c
      /\ d \in Bytes /\ e \in Bytes /\ "%" \in Bytes
  BY EscapeShape, Alphabet
<1> HIDE DEF d, e
<1>2. s \o (<<"%">> \o Escaped[c]) = Append(Append(Append(s, "%"), d), e)
  <2>1. <<"%">> \o <<d, e>> = <<"%", d, e>>
    BY <1>1, Tuples
  <2>2. <<"%">> \in Seq(Bytes) /\ <<"%", d>> \in Seq(Bytes) /\ <<"%", d, e>> \in Seq(Bytes)
    BY <1>1, Tuples
  <2>3. <<"%", d>> = Append(<<"%">>, d) /\ <<"%", d, e>> = Append(<<"%", d>>, e)
    BY <1>1, Tuples
  <2>4. s \o <<"%">> = Append(s, "%")
    BY <1>1, <2>2, Appending
  <2>5. s \o Append(<<"%">>, d) = Append(s \o <<"%">>, d)
    BY <1>1, <2>2, Appending
  <2>6. s \o Append(<<"%", d>>, e) = Append(s \o <<"%", d>>, e)
    BY <1>1, <2>2, Appending
  <2> QED BY <1>1, <2>1, <2>3, <2>4, <2>5, <2>6, Zenon
<1>3. /\ Append(s, "%") \in Seq(Bytes) /\ Append(Append(s, "%"), d) \in Seq(Bytes)
  BY <1>1
<1>4. Decoded[Append(s, "%")] = l1
  <2>1. Decoded[Append(s, "%")] = DecodeByte(l0, "%")
    BY <1>1, DecodedSteps DEF Clean
  <2>2. l0.ok /\ l0.escape = <<>>
    OBVIOUS
  <2>3. DecodeByte(l0, "%") = [l0 EXCEPT !.escape = <<"%">>]
    <3> HIDE DEF l0
    <3> QED BY <2>2 DEF DecodeByte
  <2> QED BY <2>1, <2>3
<1>5. Decoded[Append(Append(s, "%"), d)] = l2
  <2>1. Decoded[Append(Append(s, "%"), d)] = DecodeByte(l1, d)
    BY <1>1, <1>3, <1>4, DecodedSteps
  <2>2. l1.ok /\ l1.escape # <<>> /\ Len(l1.escape) = 1 /\ Append(l1.escape, d) = <<"%", d>>
    BY <1>1, Tuples
  <2>3. DecodeByte(l1, d) = [l1 EXCEPT !.escape = Append(l1.escape, d)]
    <3> HIDE DEF l1
    <3> QED BY <2>2 DEF DecodeByte
  <2> QED BY <2>1, <2>2, <2>3
<1>6. Decoded[Append(Append(Append(s, "%"), d), e)] = l3
  <2>1. Decoded[Append(Append(Append(s, "%"), d), e)] = DecodeByte(l2, e)
    BY <1>1, <1>3, <1>5, DecodedSteps
  <2>2. l2.ok /\ l2.escape # <<>> /\ Len(l2.escape) = 2 /\ Append(Tail(l2.escape), e) = <<d, e>>
    BY <1>1, Tuples
  <2>3. DecodeByte(l2, e) = [l2 EXCEPT !.text = Append(l2.text, Unhex[<<d, e>>]), !.escape = <<>>]
    <3>1. <<d, e>> \in DOMAIN Unhex
      BY <1>1
    <3>2. l2.ok /\ l2.escape # <<>> /\ ~(Len(l2.escape) = 1) /\ Len(l2.escape) = 2
      BY <2>2
    <3> HIDE DEF l2
    <3> QED BY <2>2, <3>1, <3>2 DEF DecodeByte
  <2>4. Unhex[<<d, e>>] = c
    BY <1>1
  <2> QED BY <2>1, <2>3, <2>4
<1>7. l1.escape # <<>> /\ l2.escape # <<>>
  BY <1>1, Tuples
<1>8. Clean(s \o (<<"%">> \o Escaped[c]), Append(t, c))
  BY <1>2, <1>6 DEF Clean
<1> QED BY <1>4, <1>5, <1>7, <1>8 DEF d

\* Whatever the browser made of a character.
LEMMA CharDecoded ==
    ASSUME NEW s \in Seq(Bytes), NEW t \in Seq(Bytes), NEW c \in Chars, Clean(s, t)
    PROVE  Clean(s \o EncodeChar(c), Append(t, c))
<1>1. CASE c = " "
  <2>1. EncodeChar(c) = <<"+">> /\ "+" \in Bytes
    BY <1>1, Alphabet DEF EncodeChar
  <2>2. s \o <<"+">> = Append(s, "+")
    BY <2>1, Appending
  <2> QED BY <1>1, <2>1, <2>2, SpaceDecoded
<1>2. CASE c # " " /\ c \in DOMAIN Escaped
  BY <1>2, EscapeDecoded DEF EncodeChar
<1>3. CASE c # " " /\ c \notin DOMAIN Escaped
  <2>1. c \notin {"%", "+"}
    BY <1>3, PortalAssumption
  <2>2. c \in Bytes
    BY Alphabet
  <2>3. s \o <<c>> = Append(s, c)
    BY <2>2, Appending
  <2>4. EncodeChar(c) = <<c>>
    BY <1>3 DEF EncodeChar
  <2> QED BY <2>1, <2>2, <2>3, <2>4, PlainDecoded
<1> QED BY <1>1, <1>2, <1>3

\* The bytes of a body that are no "ssid".
NoName == Bytes \ {"ssid"}

\* A character is sent without the name of a field in it.
LEMMA EncodedNoName ==
    ASSUME NEW c \in Chars
    PROVE  EncodeChar(c) \in Seq(NoName)
<1>1. Chars \subseteq NoName /\ "%" \in NoName /\ "+" \in NoName
  <2>1. "ssid" \in FieldNames
    BY DEF FieldNames
  <2>2. "%" \in Bytes /\ "+" \in Bytes
    BY Alphabet
  <2> QED BY <2>1, <2>2, Alphabet DEF NoName
<1>2. CASE c \in DOMAIN Escaped
  <2>1. Escaped[c] \in Seq(NoName)
    BY <1>1, <1>2, EscapeShape
  <2>2. <<"%">> \in Seq(NoName) /\ <<"+">> \in Seq(NoName)
    BY <1>1
  <2>3. <<"%">> \o Escaped[c] \in Seq(NoName)
    BY <2>1, <2>2, ConcatProperties
  <2> QED BY <1>2, <2>2, <2>3, Zenon DEF EncodeChar
<1>3. CASE c \notin DOMAIN Escaped
  <2>1. <<c>> \in Seq(NoName) /\ <<"+">> \in Seq(NoName)
    BY <1>1
  <2> QED BY <1>3, <2>1 DEF EncodeChar
<1> QED BY <1>2, <1>3

\* A text is decoded as it was typed, whatever precedes it.
LEMMA TextDecoded ==
    ASSUME NEW text \in Seq(Chars)
    PROVE  /\ text \in Seq(Bytes) /\ EncodeText[text] \in Seq(NoName) /\ EncodeText[text] \in Seq(Bytes)
           /\ \A s, t \in Seq(Bytes) : Clean(s, t) => Clean(s \o EncodeText[text], t \o text)
<1> DEFINE T == {u \in Seq(Chars) :
                   /\ EncodeText[u] \in Seq(NoName)
                   /\ \A s, t \in Seq(Bytes) : Clean(s, t) => Clean(s \o EncodeText[u], t \o u)}
<1>0. /\ \A u \in Seq(Chars) : u \in Seq(Bytes) /\ EncodeText[u] \in Seq(Bytes)
      /\ Chars \subseteq Bytes
  <2>1. Chars \subseteq Bytes
    BY Alphabet
  <2>2. \A u \in Seq(Chars) : u \in Seq(Bytes)
    BY <2>1
  <2> QED BY <2>1, <2>2, EncodeTextSteps
<1>1. <<>> \in T
  <2>1. EncodeText[<<>>] = <<>>
    BY EncodeTextSteps
  <2>2. \A s \in Seq(Bytes) : s \o <<>> = s
    BY ConcatEmptySeq
  <2>3. <<>> \in Seq(NoName) /\ <<>> \in Seq(Chars)
    OBVIOUS
  <2> QED BY <2>1, <2>2, <2>3
<1>2. ASSUME NEW u \in Seq(Chars), NEW c \in Chars, u \in T PROVE Append(u, c) \in T
  <2> DEFINE E == EncodeText[u]
  <2>1. EncodeText[Append(u, c)] = E \o EncodeChar(c) /\ Append(u, c) \in Seq(Chars)
    BY <1>0, EncodeTextSteps
  <2>2. EncodeChar(c) \in Seq(NoName) /\ EncodeChar(c) \in Seq(Bytes)
    BY <1>0, EncodedNoName, EncodeCharTyped
  <2>3. E \in Seq(NoName) /\ E \in Seq(Bytes)
    BY <1>0, <1>2
  <2>4. E \o EncodeChar(c) \in Seq(NoName)
    BY <2>2, <2>3, ConcatProperties
  <2>5. ASSUME NEW s \in Seq(Bytes), NEW t \in Seq(Bytes), Clean(s, t)
        PROVE  Clean(s \o EncodeText[Append(u, c)], t \o Append(u, c))
    <3>1. Clean(s \o E, t \o u)
      BY <1>2, <2>5
    <3> HIDE DEF E
    <3>2. s \o E \in Seq(Bytes) /\ t \o u \in Seq(Bytes)
      BY <1>0, <2>3, ConcatProperties
    <3>3. Clean((s \o E) \o EncodeChar(c), Append(t \o u, c))
      BY <3>1, <3>2, CharDecoded
    <3>4. (s \o E) \o EncodeChar(c) = s \o (E \o EncodeChar(c))
      BY <2>2, <2>3, ConcatAssociative
    <3>5. t \o Append(u, c) = Append(t \o u, c)
      BY <1>0, Appending
    <3> QED BY <2>1, <3>3, <3>4, <3>5
  <2> HIDE DEF E
  <2> QED BY <2>1, <2>4, <2>5
<1>3. Seq(Chars) \subseteq T
  <2> HIDE DEF T
  <2> QED BY <1>1, <1>2, SeqInduction
<1> QED BY <1>0, <1>3

\* What is put before a field that is not the first.
Lead(before) == IF before = <<>> THEN <<>> ELSE Append(before, "&")

\* A field's name, its sign and its text.
Pair(field, text) == <<field, "=">> \o text

\* A body one field longer, in any alphabet that has the bytes.
LEMMA JoinShape ==
    ASSUME NEW S, NEW field \in S, "=" \in S, "&" \in S, NEW before \in Seq(S), NEW text \in Seq(S),
           text # MISSING
    PROVE  /\ Lead(before) \in Seq(S) /\ <<field, "=">> \in Seq(S) /\ Pair(field, text) \in Seq(S)
           /\ JoinField(before, field, text) = (Lead(before) \o <<field, "=">>) \o text
           /\ Lead(before) \o <<field, "=">> = Append(Append(Lead(before), field), "=")
           /\ JoinField(before, field, text) \in Seq(S) /\ JoinField(before, field, text) # <<>>
<1>1. Lead(before) \in Seq(S)
  BY DEF Lead
<1>2. <<field, "=">> \in Seq(S) /\ <<field>> \in Seq(S) /\ Len(<<field, "=">>) = 2
      /\ <<field, "=">> = <<field>> \o <<"=">>
  <2>1. <<field, "=">> \in Seq(S) /\ <<field>> \in Seq(S) /\ Len(<<field, "=">>) = 2 /\ <<"=">> \in Seq(S)
    OBVIOUS
  <2>2. Len(<<field>>) = 1 /\ <<field>>[1] = field /\ Len(<<"=">>) = 1 /\ <<"=">>[1] = "="
    OBVIOUS
  <2>3. /\ <<field>> \o <<"=">> \in Seq(S) /\ Len(<<field>> \o <<"=">>) = 2
        /\ (<<field>> \o <<"=">>)[1] = field /\ (<<field>> \o <<"=">>)[2] = "="
    BY <2>1, <2>2, ConcatProperties
  <2> DEFINE a == <<field>> \o <<"=">>
  <2> HIDE DEF a
  <2>4. a \in Seq(S) /\ Len(a) = 2 /\ a[1] = field /\ a[2] = "="
    BY <2>3 DEF a
  <2>5. a = <<field, "=">>
    BY <2>4
  <2> QED BY <2>1, <2>5 DEF a
<1> DEFINE w == <<field, "=">>
           l == Lead(before)
<1>3. JoinField(before, field, text) = (l \o w) \o text
  BY DEF JoinField, Lead
<1> HIDE DEF w, l
<1>4. w \in Seq(S) /\ l \in Seq(S) /\ Len(w) = 2
  BY <1>1, <1>2 DEF w, l
<1>5. w \o text \in Seq(S) /\ l \o w \in Seq(S) /\ (l \o w) \o text \in Seq(S)
      /\ (l \o w) \o text = l \o (w \o text) /\ Len((l \o w) \o text) = Len(l) + 2 + Len(text)
  <2>1. w \o text \in Seq(S)
    BY <1>4, ConcatProperties
  <2>2. l \o w \in Seq(S) /\ Len(l \o w) = Len(l) + 2
    <3>1. l \o w \in Seq(S) /\ Len(l \o w) = Len(l) + Len(w)
      BY <1>4, ConcatProperties, Zenon
    <3> QED BY <1>4, <3>1
  <2>3. (l \o w) \o text \in Seq(S) /\ Len((l \o w) \o text) = Len(l \o w) + Len(text)
    BY <2>2, ConcatProperties
  <2>4. (l \o w) \o text = l \o (w \o text)
    <3>1. l \in Seq(S) /\ w \in Seq(S) /\ text \in Seq(S)
      BY <1>4
    <3> HIDE <1>4
    <3> QED BY <3>1, ConcatAssociative
  <2> QED BY <2>1, <2>2, <2>3, <2>4
<1>6. (l \o w) \o text # <<>>
  BY <1>4, <1>5
<1>7. l \o w = Append(Append(l, field), "=")
  <2>1. l \o (<<field>> \o <<"=">>) = (l \o <<field>>) \o <<"=">>
    BY <1>2, <1>4, ConcatAssociative
  <2>2. l \o <<field>> = Append(l, field) /\ Append(l, field) \in Seq(S)
    BY <1>4, AppendIsConcat
  <2>3. Append(l, field) \o <<"=">> = Append(Append(l, field), "=")
    BY <2>2, AppendIsConcat
  <2> QED BY <1>2, <2>1, <2>2, <2>3 DEF w
<1> QED BY <1>2, <1>3, <1>4, <1>5, <1>6, <1>7 DEF w, l, Pair

\* A field after those before it is a text of bytes.
LEMMA JoinFieldTyped ==
    ASSUME NEW before \in Seq(Bytes), NEW field \in FieldNames, NEW text \in Texts
    PROVE  JoinField(before, field, text) \in Seq(Bytes)
<1>1. CASE text = MISSING
  BY <1>1 DEF JoinField
<1>2. CASE text # MISSING
  <2>1. text \in Seq(Bytes) /\ field \in Bytes /\ "=" \in Bytes /\ "&" \in Bytes
    BY <1>2, Alphabet DEF Texts
  <2> QED BY <1>2, <2>1, JoinShape
<1> QED BY <1>1, <1>2

\* The body, field by field.
LEMMA JoinedSteps ==
    ASSUME NEW texts, \A field \in FieldNames : texts[field] \in Texts
    PROVE  /\ Joined(texts)[<<>>] = <<>>
           /\ \A s \in Seq(FieldNames) : Joined(texts)[s] \in Seq(Bytes)
           /\ \A s \in Seq(FieldNames), x \in FieldNames : Joined(texts)[Append(s, x)] = JoinField(Joined(texts)[s], x, texts[x])
<1> DEFINE start == <<>>
           Op == [x \in Seq(Bytes) \X FieldNames |-> JoinField(x[1], x[2], texts[x[2]])]
           Body(f) == [s \in Seq(FieldNames) |-> IF s = <<>> THEN start ELSE JoinField(f[Front(s)], Last(s), texts[Last(s)])]
<1>0. start \in Seq(Bytes)
  OBVIOUS
<1>1. Op \in [Seq(Bytes) \X FieldNames -> Seq(Bytes)]
  <2> SUFFICES ASSUME NEW x \in Seq(Bytes) \X FieldNames PROVE JoinField(x[1], x[2], texts[x[2]]) \in Seq(Bytes)
    OBVIOUS
  <2> QED BY JoinFieldTyped
<1>2. PICK f : Solves(f, FieldNames, Seq(Bytes), start, Op)
  <2> HIDE DEF Op, start
  <2>1. Recursion(FieldNames, Seq(Bytes), start, Op)
    BY <1>0, <1>1 DEF Recursion
  <2> QED BY <2>1, SeqRecursion, Zenon
<1>3. f = Body(f)
  <2>1. ASSUME NEW s \in Seq(FieldNames), s # <<>>
        PROVE  Op[<<f[Front(s)], Last(s)>>] = JoinField(f[Front(s)], Last(s), texts[Last(s)])
    <3>1. f[Front(s)] \in Seq(Bytes) /\ Last(s) \in FieldNames
      BY <1>2, <2>1, FrontLast DEF Solves
    <3> QED BY <3>1
  <2> HIDE DEF Op, start
  <2>2. \A s \in Seq(FieldNames) : f[s] = IF s = <<>> THEN start ELSE JoinField(f[Front(s)], Last(s), texts[Last(s)])
    BY <1>2, <2>1 DEF Solves
  <2>3. f \in [Seq(FieldNames) -> Seq(Bytes)]
    BY <1>2 DEF Solves
  <2> QED BY <2>2, <2>3
<1>4. Joined(texts) = Body(Joined(texts))
  <2>1. \E g : g = Body(g)
    BY <1>3
  <2> QED BY <2>1 DEF Joined
<1>5. Joined(texts)[<<>>] = start
  BY <1>4
<1>6. ASSUME NEW s \in Seq(FieldNames), NEW x \in FieldNames
      PROVE  Joined(texts)[Append(s, x)] = JoinField(Joined(texts)[s], x, texts[x])
  <2> HIDE DEF Body, start
  <2>1. /\ Append(s, x) \in Seq(FieldNames) /\ Append(s, x) # <<>>
        /\ Front(Append(s, x)) = s /\ Last(Append(s, x)) = x
    BY AppendFrontLast, Zenon
  <2>2. Body(Joined(texts))[Append(s, x)] = JoinField(Joined(texts)[s], x, texts[x])
    BY <2>1, Zenon DEF Body
  <2> QED BY <1>4, <2>2
<1>7. \A s \in Seq(FieldNames) : Joined(texts)[s] \in Seq(Bytes)
  <2> HIDE DEF Body, start
  <2>1. \A s \in Seq(FieldNames), x \in FieldNames : Joined(texts)[s] \in Seq(Bytes) => Joined(texts)[Append(s, x)] \in Seq(Bytes)
    BY <1>6, JoinFieldTyped
  <2> QED BY <1>0, <1>5, <2>1, SeqRecursionTyped, Zenon
<1> QED BY <1>5, <1>6, <1>7

\* What is typed, and what the browser makes of each text.
LEMMA TypedTexts ==
    ASSUME NEW typed \in Typed, NEW field \in FieldNames
    PROVE  typed[field] \in Seq(Chars) \cup {MISSING} /\ typed[field] \in Texts
<1>1. typed[field] \in Seq(Chars) \cup {MISSING}
  BY PortalAssumption
<1>2. Chars \subseteq Bytes
  BY Alphabet
<1>3. \A u \in Seq(Chars) : u \in Seq(Bytes)
  BY <1>2
<1> QED BY <1>1, <1>3 DEF Texts

EncodedTexts(typed) ==
    [field \in FieldNames |-> IF typed[field] = MISSING THEN MISSING ELSE EncodeText[typed[field]]]

\* The texts of a form as they are sent: those that were typed, encoded.
LEMMA EncodedTyped ==
    ASSUME NEW typed \in Typed, NEW field \in FieldNames
    PROVE  /\ EncodedTexts(typed)[field] \in Texts
           /\ EncodedTexts(typed)[field] =
                 IF typed[field] = MISSING THEN MISSING ELSE EncodeText[typed[field]]
           /\ typed[field] # MISSING => EncodedTexts(typed)[field] \in Seq(NoName) /\ EncodedTexts(typed)[field] # MISSING
<1>1. EncodedTexts(typed)[field] = IF typed[field] = MISSING THEN MISSING ELSE EncodeText[typed[field]]
  BY DEF EncodedTexts
<1>2. typed[field] \in Seq(Chars) \cup {MISSING}
  BY TypedTexts
<1>3. typed[field] # MISSING => EncodeText[typed[field]] \in Seq(NoName) /\ EncodeText[typed[field]] \in Seq(Bytes)
  BY <1>2, TextDecoded
<1>4. MISSING \notin Seq(Bytes)
  BY PortalAssumption
<1> QED BY <1>1, <1>3, <1>4 DEF Texts

\* So are the "&", the name and the sign of a field.
LEMMA NameDecoded ==
    ASSUME NEW s \in Seq(Bytes), NEW t \in Seq(Bytes), Clean(s, t), s = <<>> <=> t = <<>>, NEW field \in FieldNames
    PROVE  /\ Clean(Lead(s), Lead(t)) /\ Lead(s) \in Seq(Bytes) /\ Lead(t) \in Seq(Bytes)
           /\ Clean(Append(Lead(s), field), Append(Lead(t), field))
           /\ Append(Lead(s), field) \in Seq(Bytes) /\ Append(Lead(t), field) \in Seq(Bytes)
           /\ Clean(Append(Append(Lead(s), field), "="), Append(Append(Lead(t), field), "="))
           /\ Append(Append(Lead(s), field), "=") \in Seq(Bytes)
           /\ Append(Append(Lead(t), field), "=") \in Seq(Bytes)
<1>1. field \in Bytes /\ "=" \in Bytes /\ "&" \in Bytes
  BY Alphabet
<1>2. field \notin {"%", "+"} /\ "=" \notin {"%", "+"} /\ "&" \notin {"%", "+"}
  BY DEF FieldNames
<1>3. Clean(Lead(s), Lead(t)) /\ Lead(s) \in Seq(Bytes) /\ Lead(t) \in Seq(Bytes)
  <2>1. CASE s = <<>>
    BY <2>1 DEF Lead
  <2>2. CASE s # <<>>
    BY <1>1, <1>2, <2>2, PlainDecoded DEF Lead
  <2> QED BY <2>1, <2>2
<1>4. Clean(Append(Lead(s), field), Append(Lead(t), field))
      /\ Append(Lead(s), field) \in Seq(Bytes) /\ Append(Lead(t), field) \in Seq(Bytes)
  BY <1>1, <1>2, <1>3, PlainDecoded
<1>5. Clean(Append(Append(Lead(s), field), "="), Append(Append(Lead(t), field), "="))
      /\ Append(Append(Lead(s), field), "=") \in Seq(Bytes)
      /\ Append(Append(Lead(t), field), "=") \in Seq(Bytes)
  <2> DEFINE a == Append(Lead(s), field)
             b == Append(Lead(t), field)
  <2>1. a \in Seq(Bytes) /\ b \in Seq(Bytes) /\ Clean(a, b)
    BY <1>4
  <2> HIDE DEF a, b
  <2>2. Clean(Append(a, "="), Append(b, "="))
    BY <1>1, <2>1, PlainDecoded
  <2>3. Append(a, "=") \in Seq(Bytes) /\ Append(b, "=") \in Seq(Bytes)
    BY <1>1, <2>1
  <2> QED BY <2>2, <2>3 DEF a, b
<1> QED BY <1>3, <1>4, <1>5

\* A body one field longer is decoded as its texts joined.
LEMMA JoinDecoded ==
    ASSUME NEW s \in Seq(Bytes), NEW t \in Seq(Bytes), Clean(s, t), s = <<>> <=> t = <<>>,
           NEW field \in FieldNames, NEW text \in Seq(Chars)
    PROVE  /\ Clean(JoinField(s, field, EncodeText[text]), JoinField(t, field, text))
           /\ JoinField(s, field, EncodeText[text]) # <<>> /\ JoinField(t, field, text) # <<>>
<1> DEFINE e == EncodeText[text]
<1>1. e \in Seq(Bytes) /\ text \in Seq(Bytes)
  BY TextDecoded
<1>2. e # MISSING /\ text # MISSING
  BY <1>1, PortalAssumption
<1>3. field \in Bytes /\ "=" \in Bytes /\ "&" \in Bytes
  BY Alphabet
<1>6. Clean(Append(Append(Lead(s), field), "="), Append(Append(Lead(t), field), "="))
      /\ Lead(s) \in Seq(Bytes) /\ Lead(t) \in Seq(Bytes)
  BY NameDecoded
<1> HIDE DEF e
<1>7. /\ JoinField(s, field, e) = (Lead(s) \o <<field, "=">>) \o e
      /\ Lead(s) \o <<field, "=">> = Append(Append(Lead(s), field), "=")
      /\ JoinField(s, field, e) # <<>>
      /\ JoinField(t, field, text) = (Lead(t) \o <<field, "=">>) \o text
      /\ Lead(t) \o <<field, "=">> = Append(Append(Lead(t), field), "=")
      /\ JoinField(t, field, text) # <<>>
  <2>1. ASSUME NEW u \in Seq(Bytes), NEW v \in Seq(Bytes), v # MISSING
        PROVE  /\ JoinField(u, field, v) = (Lead(u) \o <<field, "=">>) \o v
               /\ Lead(u) \o <<field, "=">> = Append(Append(Lead(u), field), "=")
               /\ JoinField(u, field, v) # <<>>
    <3>1. JoinField(u, field, v) = (Lead(u) \o <<field, "=">>) \o v
      BY <1>3, <2>1, JoinShape
    <3>2. Lead(u) \o <<field, "=">> = Append(Append(Lead(u), field), "=")
      BY <1>3, <2>1, JoinShape
    <3>3. JoinField(u, field, v) # <<>>
      <4> DEFINE a == Append(Append(Lead(u), field), "=")
      <4>1. Lead(u) \in Seq(Bytes)
        BY <1>3 DEF Lead
      <4>2. a \in Seq(Bytes) /\ a # <<>>
        <5>1. Append(Lead(u), field) \in Seq(Bytes)
          BY <1>3, <4>1
        <5> QED BY <1>3, <5>1, AppendFrontLast
      <4> HIDE DEF a
      <4>3. a \o v # <<>>
        BY <4>2, ConcatEqualIffEmpty
      <4> QED BY <3>1, <3>2, <4>3 DEF a
    <3> QED BY <3>1, <3>2, <3>3
  <2> QED BY <1>1, <1>2, <2>1
<1>8. /\ Append(Append(Lead(s), field), "=") \in Seq(Bytes)
      /\ Append(Append(Lead(t), field), "=") \in Seq(Bytes)
  BY NameDecoded
<1>9. Clean(Append(Append(Lead(s), field), "=") \o e, Append(Append(Lead(t), field), "=") \o text)
  BY <1>6, <1>8, TextDecoded DEF e
<1> QED BY <1>7, <1>9 DEF e

\* The whole body is decoded as its texts joined, without a byte that is no text.
LEMMA BodyDecoded ==
    ASSUME NEW typed \in Typed, NEW order \in Seq(FieldNames)
    PROVE  /\ Encode(typed, order) \in Seq(Bytes)
           /\ Joined(typed)[order] \in Seq(Bytes) /\ NOT_UTF8 \notin ToSet(Joined(typed)[order])
           /\ Clean(Encode(typed, order), Joined(typed)[order])
           /\ Encode(typed, order) = <<>> <=> Joined(typed)[order] = <<>>
<1> DEFINE J == Joined(EncodedTexts(typed))
           K == Joined(typed)
           Plain == Bytes \ {NOT_UTF8}
           T == {o \in Seq(FieldNames) : /\ Clean(J[o], K[o]) /\ (J[o] = <<>> <=> K[o] = <<>>)
                                         /\ K[o] \in Seq(Plain)}
<1>1. /\ J[<<>>] = <<>>
      /\ \A o \in Seq(FieldNames) : J[o] \in Seq(Bytes)
      /\ \A o \in Seq(FieldNames), f \in FieldNames : J[Append(o, f)] = JoinField(J[o], f, EncodedTexts(typed)[f])
  <2>1. \A f \in FieldNames : EncodedTexts(typed)[f] \in Texts
    BY EncodedTyped
  <2> QED BY <2>1, JoinedSteps
<1>2. /\ K[<<>>] = <<>>
      /\ \A o \in Seq(FieldNames) : K[o] \in Seq(Bytes)
      /\ \A o \in Seq(FieldNames), f \in FieldNames : K[Append(o, f)] = JoinField(K[o], f, typed[f])
  <2>1. \A f \in FieldNames : typed[f] \in Texts
    BY TypedTexts
  <2> QED BY <2>1, JoinedSteps
<1>3. <<>> \in T
  <2>1. Clean(<<>>, <<>>)
    BY DecodedSteps DEF Clean
  <2>2. <<>> \in Seq(Plain) /\ <<>> \in Seq(FieldNames)
    OBVIOUS
  <2> HIDE DEF J, K, Plain
  <2> QED BY <1>1, <1>2, <2>1, <2>2
<1>4. ASSUME NEW o \in Seq(FieldNames), NEW f \in FieldNames, o \in T PROVE Append(o, f) \in T
  <2> HIDE DEF J, K
  <2>1. CASE typed[f] = MISSING
    <3>1. EncodedTexts(typed)[f] = MISSING
      BY <2>1, EncodedTyped
    <3>2. J[Append(o, f)] = J[o] /\ K[Append(o, f)] = K[o]
      BY <1>1, <1>2, <2>1, <3>1 DEF JoinField
    <3> QED BY <1>4, <3>2
  <2>2. CASE typed[f] # MISSING
    <3>1. typed[f] \in Seq(Chars) /\ EncodedTexts(typed)[f] = EncodeText[typed[f]]
      BY <2>2, TypedTexts, EncodedTyped
    <3>2. /\ Clean(J[Append(o, f)], K[Append(o, f)])
          /\ J[Append(o, f)] # <<>> /\ K[Append(o, f)] # <<>>
      <4>1. J[o] \in Seq(Bytes) /\ K[o] \in Seq(Bytes) /\ Clean(J[o], K[o]) /\ (J[o] = <<>> <=> K[o] = <<>>)
        BY <1>1, <1>2, <1>4
      <4> QED BY <1>1, <1>2, <3>1, <4>1, JoinDecoded
    <3>3. K[Append(o, f)] \in Seq(Plain)
      <4>1. f \in Plain /\ "=" \in Plain /\ "&" \in Plain /\ Chars \subseteq Plain
        BY Alphabet
      <4>2. typed[f] \in Seq(Plain) /\ K[o] \in Seq(Plain)
        BY <1>4, <3>1, <4>1
      <4> HIDE DEF Plain
      <4>3. JoinField(K[o], f, typed[f]) \in Seq(Plain)
        BY <2>2, <4>1, <4>2, JoinShape
      <4> QED BY <1>2, <4>3
    <3> QED BY <3>2, <3>3
  <2> QED BY <2>1, <2>2
<1>5. Seq(FieldNames) \subseteq T
  <2> HIDE DEF T
  <2> QED BY <1>3, <1>4, SeqInduction
<1>6. Encode(typed, order) = J[order]
  BY DEF Encode, EncodedTexts
<1>7. NOT_UTF8 \notin ToSet(K[order])
  <2>1. K[order] \in Seq(Plain)
    BY <1>5
  <2>2. \A s \in Seq(Plain) : NOT_UTF8 \notin ToSet(s)
    BY DEF ToSet
  <2> QED BY <2>1, <2>2
<1> HIDE DEF J, K
<1>8. Clean(J[order], K[order]) /\ J[order] \in Seq(Bytes) /\ K[order] \in Seq(Bytes)
      /\ (J[order] = <<>> <=> K[order] = <<>>)
  BY <1>1, <1>2, <1>5
<1> QED BY <1>6, <1>7, <1>8 DEF K

--------------------------------------------------------------------------------
(* The form in a body *)

\* What handle_http_request makes of the bytes that it read.
Made(read) ==
    IF decode_url_encoded(read) = NONE THEN NONE ELSE parse_connect_form(decode_url_encoded(read))

\* Headers within their buffer leave the body, of which the beginning is read, and all
\* that body_buf holds if it was sent.
LEMMA BodyRead ==
    ASSUME NEW body \in Seq(Bytes), NEW size \in Nat, size <= HDR_SIZE, NEW sent \in 0..Len(body)
    PROVE  \E m \in 0..Len(body) :
              /\ sent = Len(body) /\ Len(body) <= BODY_SIZE => m = Len(body)
              /\ FormOf(Post(size, Len(body), body, sent)) = Made(SubSeq(body, 1, m))
<1> DEFINE post == Post(size, Len(body), body, sent)
           B == SubSeq(body, 1, sent)
           cl == IF Len(body) > BODY_SIZE THEN BODY_SIZE ELSE Len(body)
           m == IF sent < cl THEN sent ELSE cl
<1>1. HDR_SIZE \in Nat /\ BODY_SIZE \in Nat /\ Len(body) \in Nat /\ sent \in Nat /\ sent <= Len(body)
  <2>1. HDR_SIZE \in Nat /\ BODY_SIZE \in Nat
    BY PortalAssumption
  <2>2. Len(body) \in Nat
    OBVIOUS
  <2> QED BY <2>1, <2>2
<1>2. B \in Seq(Bytes) /\ Len(B) = sent /\ \A i \in 1..sent : B[i] = body[i]
  BY Prefix
<1>3. Unread(post) = B
  <2>1. Unread(post) = [i \in 1..0 |-> "header"] \o B
    BY <1>1 DEF Unread, Post
  <2>2. [i \in 1..0 |-> "header"] = <<>>
    OBVIOUS
  <2> HIDE DEF B
  <2>3. <<>> \o B = B
    BY <1>2, ConcatEmptySeq
  <2> QED BY <2>1, <2>2, <2>3
<1>4. ContentLength(post) = cl
  BY DEF ContentLength, Post
<1>5. cl \in 0..Len(body) /\ m \in 0..Len(body) /\ m \in 0..sent
  BY <1>1
<1>6. sent = Len(body) /\ Len(body) <= BODY_SIZE => m = Len(body)
  BY <1>1
<1> HIDE DEF B, post, m, cl
<1>7. SubSeq(B, 1, m) = SubSeq(body, 1, m)
  <2>1. /\ SubSeq(B, 1, m) \in Seq(Bytes) /\ Len(SubSeq(B, 1, m)) = m
        /\ \A i \in 1..m : SubSeq(B, 1, m)[i] = B[i]
    BY <1>2, <1>5, Prefix
  <2>2. /\ SubSeq(body, 1, m) \in Seq(Bytes) /\ Len(SubSeq(body, 1, m)) = m
        /\ \A i \in 1..m : SubSeq(body, 1, m)[i] = body[i]
    BY <1>5, Prefix
  <2>3. \A i \in 1..m : B[i] = body[i]
    BY <1>1, <1>2, <1>5
  <2> QED BY <2>1, <2>2, <2>3, SeqEqual
<1>8. FormOf(post) = Made(SubSeq(B, 1, IF Len(B) < cl THEN Len(B) ELSE cl))
  BY <1>3, <1>4 DEF FormOf, Made
<1>9. FormOf(post) = Made(SubSeq(body, 1, m))
  BY <1>2, <1>7, <1>8 DEF m
<1> QED BY <1>5, <1>6, <1>9 DEF post

\* handle_http_request reads the whole of a body that its headers announce, and
\* decodes it.
LEMMA WholeRead ==
    ASSUME NEW typed \in Typed, NEW order \in Seq(FieldNames), NEW size \in Nat, size <= HDR_SIZE,
           Len(Encode(typed, order)) <= BODY_SIZE
    PROVE  FormOf(WholePost(typed, order, size)) =
              IF Len(Joined(typed)[order]) <= DECODED_SIZE
              THEN HeldForm(Parsed[split[Joined(typed)[order]]]) ELSE NONE
<1> DEFINE body == Encode(typed, order)
           text == Joined(typed)[order]
<1>1. /\ body \in Seq(Bytes) /\ text \in Seq(Bytes)
      /\ NOT_UTF8 \notin ToSet(text) /\ Clean(body, text)
  BY BodyDecoded
<1>2. text # NONE
  BY <1>1, PortalAssumption
<1>3. WholePost(typed, order, size) = Post(size, Len(body), body, Len(body))
  BY DEF WholePost
<1>4. Len(body) <= BODY_SIZE
  OBVIOUS
<1> HIDE DEF body, text
<1>5. Len(body) \in 0..Len(body)
  BY <1>1
<1>6. PICK m \in 0..Len(body) :
        /\ Len(body) = Len(body) /\ Len(body) <= BODY_SIZE => m = Len(body)
        /\ FormOf(Post(size, Len(body), body, Len(body))) = Made(SubSeq(body, 1, m))
  BY <1>1, <1>5, BodyRead
<1>7. SubSeq(body, 1, m) = body
  BY <1>1, <1>4, <1>6, SubSeqFull
<1>8. decode_url_encoded(body) = IF Len(text) <= DECODED_SIZE THEN text ELSE NONE
  BY <1>1 DEF decode_url_encoded, Clean
<1>9. FormOf(WholePost(typed, order, size)) = Made(body)
  BY <1>3, <1>6, <1>7
<1> QED BY <1>2, <1>8, <1>9 DEF Made, parse_connect_form, text

\* A text without "&" goes to the last piece.
LEMMA TextSplit ==
    ASSUME NEW s \in Seq(Bytes), NEW text \in Seq(Bytes \ {"&"})
    PROVE  split[s \o text] = Append(Front(split[s]), Last(split[s]) \o text)
<1> DEFINE F == Front(split[s])
           L == Last(split[s])
           T == {u \in Seq(Bytes \ {"&"}) : split[s \o u] = Append(F, L \o u)}
<1>1. split[s] \in Seq(Seq(Bytes)) /\ split[s] # <<>>
  BY SplitSteps DEF Pieces
<1>2. F \in Seq(Seq(Bytes)) /\ L \in Seq(Bytes) /\ split[s] = Append(F, L)
  BY <1>1, FrontLast
<1> HIDE DEF F, L
<1>3. <<>> \in T
  <2>1. s \o <<>> = s /\ L \o <<>> = L
    BY <1>2, ConcatEmptySeq
  <2> QED BY <1>2, <2>1
<1>4. ASSUME NEW u \in Seq(Bytes \ {"&"}), NEW x \in Bytes \ {"&"}, u \in T PROVE Append(u, x) \in T
  <2>1. u \in Seq(Bytes) /\ x \in Bytes /\ x # "&"
    OBVIOUS
  <2>2. s \o Append(u, x) = Append(s \o u, x) /\ L \o Append(u, x) = Append(L \o u, x) /\ s \o u \in Seq(Bytes)
        /\ L \o u \in Seq(Bytes)
    <3>1. \A v \in Seq(Bytes) : v \o Append(u, x) = Append(v \o u, x) /\ v \o u \in Seq(Bytes)
      BY <2>1, Appending
    <3> QED BY <1>2, <3>1
  <2>3. split[Append(s \o u, x)] = SplitByte(Append(F, L \o u), x)
    BY <1>4, <2>1, <2>2, SplitSteps
  <2>4. Front(Append(F, L \o u)) = F /\ Last(Append(F, L \o u)) = L \o u
    <3>1. \A f \in Seq(Seq(Bytes)), l \in Seq(Bytes) : Front(Append(f, l)) = f /\ Last(Append(f, l)) = l
      BY AppendFrontLast
    <3> QED BY <1>2, <2>2, <3>1, Zenon
  <2>5. split[s \o Append(u, x)] = Append(F, L \o Append(u, x))
    BY <2>1, <2>2, <2>3, <2>4 DEF SplitByte
  <2>6. Append(u, x) \in Seq(Bytes \ {"&"})
    OBVIOUS
  <2> QED BY <2>5, <2>6
<1>5. Seq(Bytes \ {"&"}) \subseteq T
  <2> HIDE DEF T
  <2> QED BY <1>3, <1>4, SeqInduction
<1> QED BY <1>5 DEF F, L

\* A pair without a key changes nothing.
LEMMA NoKey ==
    ASSUME NEW form \in Forming
    PROVE  ParsePair(form, <<>>) = form
<1>1. KeyValue(<<>>) = [key |-> <<>>, value |-> <<>>]
  BY DEF KeyValue, Signs
<1>2. \A name : <<>> # <<name>>
  OBVIOUS
<1> QED BY <1>1, <1>2 DEF ParsePair

\* A body one pair longer makes a form with that pair; an empty body's only pair is empty.
LEMMA PieceParsed ==
    ASSUME NEW before \in Seq(Bytes), NEW piece \in Seq(Bytes \ {"&"})
    PROVE  /\ Parsed[split[before]] \in Forming
           /\ Parsed[split[Lead(before) \o piece]] = ParsePair(Parsed[split[before]], piece)
<1>1. "&" \in Bytes /\ piece \in Seq(Bytes)
  <2>1. piece \in Seq(Bytes)
    OBVIOUS
  <2> QED BY <2>1, Alphabet
<1>2. split[before] \in Seq(Seq(Bytes)) /\ Parsed[split[before]] \in Forming
  BY SplitSteps, ParsedSteps DEF Pieces
<1>3. Lead(before) \in Seq(Bytes)
  BY <1>1 DEF Lead
<1>4. split[Lead(before) \o piece] = Append(Front(split[Lead(before)]), Last(split[Lead(before)]) \o piece)
  BY <1>3, TextSplit
<1>5. <<>> \o piece = piece /\ <<>> \in Seq(Bytes) /\ <<>> \in Seq(Seq(Bytes))
  BY <1>1, ConcatEmptySeq
<1>6. CASE before = <<>>
  <2>1. split[<<>>] = Append(<<>>, <<>>)
    BY SplitSteps
  <2>2. Front(Append(<<>>, <<>>)) = <<>> /\ Last(Append(<<>>, <<>>)) = <<>>
    BY <1>5, AppendFrontLast
  <2>3. split[Lead(before) \o piece] = Append(<<>>, piece)
    BY <1>4, <1>5, <1>6, <2>1, <2>2 DEF Lead
  <2>4. Parsed[Append(<<>>, piece)] = ParsePair(NoForm, piece) /\ Parsed[Append(<<>>, <<>>)] = ParsePair(NoForm, <<>>)
    BY <1>1, <1>5, ParsedSteps
  <2>5. NoForm \in Forming
    BY DEF Forming, NoForm, Texts
  <2> QED BY <1>2, <1>6, <2>1, <2>3, <2>4, <2>5, NoKey
<1>7. CASE before # <<>>
  <2>1. split[Lead(before)] = Append(split[before], <<>>)
    <3>1. split[Append(before, "&")] = SplitByte(split[before], "&")
      BY <1>1, SplitSteps
    <3> QED BY <1>7, <3>1 DEF Lead, SplitByte
  <2>2. Front(Append(split[before], <<>>)) = split[before] /\ Last(Append(split[before], <<>>)) = <<>>
    BY <1>2, <1>5, AppendFrontLast
  <2>3. split[Lead(before) \o piece] = Append(split[before], piece)
    BY <1>4, <1>5, <2>1, <2>2
  <2> QED BY <1>1, <1>2, <2>3, ParsedSteps
<1> QED BY <1>6, <1>7

\* splitn(2, '=') takes the pair apart that the browser put together.
LEMMA PairCut ==
    ASSUME NEW field \in FieldNames, NEW text \in Seq(Bytes)
    PROVE  KeyValue(Pair(field, text)) = [key |-> <<field>>, value |-> text]
<1> DEFINE pair == Pair(field, text)
           w == <<field, "=">>
<1>1. field \in Bytes /\ "=" \in Bytes /\ field # "="
  BY Alphabet DEF FieldNames
<1>2. w \in Seq(Bytes) /\ Len(w) = 2 /\ w[1] = field /\ w[2] = "="
  BY <1>1
<1> HIDE DEF w
<1>3. /\ pair \in Seq(Bytes) /\ Len(pair) = 2 + Len(text)
      /\ \A i \in 1..2 + Len(text) : pair[i] = IF i <= 2 THEN w[i] ELSE text[i - 2]
  BY <1>2, ConcatProperties DEF Pair, w
<1>4. Len(text) \in Nat
  OBVIOUS
<1> HIDE DEF pair
<1>5. pair[1] = field /\ pair[2] = "=" /\ \A i \in 1..Len(text) : pair[i + 2] = text[i]
  BY <1>2, <1>3, <1>4
<1>6. 2 \in Signs(pair) /\ 1 \notin Signs(pair) /\ Signs(pair) \subseteq 1..Len(pair)
  BY <1>1, <1>3, <1>4, <1>5 DEF Signs
<1>7. Min(Signs(pair)) = 2
  <2>1. Min(Signs(pair)) \in Signs(pair) /\ Min(Signs(pair)) <= 2
    BY <1>3, <1>6, CutTyped
  <2> QED BY <1>3, <1>4, <1>6, <2>1
<1>8. SubSeq(pair, 1, 1) = <<field>>
  <2>1. SubSeq(pair, 1, 1) \in Seq(Bytes) /\ Len(SubSeq(pair, 1, 1)) = 1 /\ SubSeq(pair, 1, 1)[1] = pair[1]
    <3>1. 1 \in 0..Len(pair)
      BY <1>3, <1>4
    <3> QED BY <1>3, <3>1, Prefix
  <2> DEFINE cut == SubSeq(pair, 1, 1)
  <2> HIDE DEF cut
  <2>2. cut \in Seq(Bytes) /\ Len(cut) = 1 /\ cut[1] = field
    BY <1>5, <2>1 DEF cut
  <2>3. cut = <<field>>
    BY <2>2
  <2> QED BY <2>3 DEF cut
<1>9. SubSeq(pair, 3, Len(pair)) = text
  <2> DEFINE rest == SubSeq(pair, 3, Len(pair))
  <2>1. \A i \in 3..Len(pair) : pair[i] \in Bytes
    BY <1>3
  <2>2. 3 \in Int /\ Len(pair) \in Int
    BY <1>3, <1>4
  <2>3. /\ rest \in Seq(Bytes) /\ Len(rest) = IF 3 <= Len(pair) THEN Len(pair) - 3 + 1 ELSE 0
        /\ \A i \in 1..Len(pair) - 3 + 1 : rest[i] = pair[3 + i - 1]
    <3>1. 3..Len(pair) \subseteq 1..Len(pair)
      BY <1>3, <1>4
    <3>2. \A m, n \in Int : (\A i \in m..n : pair[i] \in Bytes) =>
            /\ SubSeq(pair, m, n) \in Seq(Bytes) /\ Len(SubSeq(pair, m, n)) = IF m <= n THEN n - m + 1 ELSE 0
            /\ \A i \in 1..n - m + 1 : SubSeq(pair, m, n)[i] = pair[m + i - 1]
      BY SubSeqProperties
    <3> QED BY <2>1, <2>2, <3>2
  <2> HIDE DEF rest
  <2>4. Len(rest) = Len(text)
    BY <1>3, <1>4, <2>3
  <2>5. \A i \in 1..Len(rest) : rest[i] = text[i]
    BY <1>3, <1>4, <1>5, <2>3, <2>4
  <2>6. rest = text
    BY <2>3, <2>4, <2>5, SeqEqual
  <2> QED BY <2>6 DEF rest
<1>10. KeyValue(pair) = CutAt(pair, 2)
  BY <1>6, <1>7 DEF KeyValue
<1>11. CutAt(pair, 2) = [key |-> SubSeq(pair, 1, 1), value |-> SubSeq(pair, 3, Len(pair))]
  BY DEF CutAt
<1> QED BY <1>8, <1>9, <1>10, <1>11, Zenon DEF pair

\* A name without its sign has the empty text.
LEMMA NameCut ==
    ASSUME NEW field \in FieldNames
    PROVE  KeyValue(<<field>>) = [key |-> <<field>>, value |-> <<>>]
<1>1. field # "="
  BY DEF FieldNames
<1>2. Signs(<<field>>) = {}
  BY <1>1 DEF Signs
<1> QED BY <1>2 DEF KeyValue

--------------------------------------------------------------------------------
(* The form that was typed *)

\* A form with a text of one more field.
Filled(form, field, text) ==
    [ssid |-> IF field = "ssid" /\ text # MISSING THEN text ELSE form.ssid,
     password |-> IF field = "password" /\ text # MISSING THEN text ELSE form.password,
     host |-> IF field = "mqtt_host" /\ text # MISSING THEN text ELSE form.host,
     port |-> IF field = "mqtt_port" /\ text \in DOMAIN PortNumber THEN PortNumber[text] ELSE form.port]

\* A pair of a field and its text fills in that field with that text.
LEMMA ParsedPair ==
    ASSUME NEW form \in Forming, NEW field \in FieldNames, NEW text \in Seq(Bytes), NEW pair,
           KeyValue(pair) = [key |-> <<field>>, value |-> text]
    PROVE  ParsePair(form, pair) = Filled(form, field, text)
<1> DEFINE kv == KeyValue(pair)
<1>1. kv.key = <<field>> /\ kv.value = text
  OBVIOUS
<1>2. text # MISSING
  BY PortalAssumption
<1>3. form = [ssid |-> form.ssid, password |-> form.password, host |-> form.host, port |-> form.port]
  BY DEF Forming
<1>4. \A name : <<field>> = <<name>> <=> field = name
  OBVIOUS
<1> HIDE DEF kv
<1>5. ParsePair(form, pair) =
        CASE field = "ssid" -> [form EXCEPT !.ssid = text]
          [] field = "password" -> [form EXCEPT !.password = text]
          [] field = "mqtt_host" -> [form EXCEPT !.host = text]
          [] field = "mqtt_port" /\ text \in DOMAIN PortNumber -> [form EXCEPT !.port = PortNumber[text]]
          [] OTHER -> form
  BY <1>1, <1>4 DEF ParsePair, kv
<1>6. CASE field = "ssid"
  BY <1>2, <1>3, <1>5, <1>6 DEF Filled
<1>7. CASE field = "password"
  BY <1>2, <1>3, <1>5, <1>7 DEF Filled
<1>8. CASE field = "mqtt_host"
  BY <1>2, <1>3, <1>5, <1>8 DEF Filled
<1>9. CASE field = "mqtt_port" /\ text \in DOMAIN PortNumber
  BY <1>2, <1>3, <1>5, <1>9 DEF Filled
<1>10. CASE field = "mqtt_port" /\ text \notin DOMAIN PortNumber
  BY <1>2, <1>3, <1>5, <1>10 DEF Filled
<1>11. CASE field = "ssid_manual"
  BY <1>2, <1>3, <1>5, <1>11 DEF Filled
<1> QED BY <1>6, <1>7, <1>8, <1>9, <1>10, <1>11 DEF FieldNames

\* What one more field, its name alone, or its "&" alone does to the form.
LEMMA FieldParsed ==
    ASSUME NEW before \in Seq(Bytes), NEW field \in FieldNames, NEW text \in Seq(Bytes \ {"&"})
    PROVE  LET form == Parsed[split[before]]
           IN  /\ form \in Forming
               /\ Parsed[split[JoinField(before, field, text)]] = Filled(form, field, text)
               /\ Parsed[split[Append(Lead(before), field)]] = Filled(form, field, <<>>)
               /\ Parsed[split[Lead(before)]] = form
<1> DEFINE Plain == Bytes \ {"&"}
           pair == Pair(field, text)
           form == Parsed[split[before]]
<1>1. /\ field \in Bytes /\ "=" \in Bytes /\ "&" \in Bytes /\ field \in Plain /\ "=" \in Plain
      /\ text \in Seq(Bytes) /\ text \in Seq(Plain)
  <2>1. field # "&"
    BY DEF FieldNames
  <2>2. field \in Bytes /\ "=" \in Bytes /\ "&" \in Bytes
    BY Alphabet
  <2>3. text \in Seq(Bytes)
    OBVIOUS
  <2> QED BY <2>1, <2>2, <2>3
<1>2. text # MISSING
  BY <1>1, PortalAssumption
<1>3. Lead(before) \in Seq(Bytes)
  BY <1>1 DEF Lead
<1>4. JoinField(before, field, text) = Lead(before) \o pair
  <2>1. JoinField(before, field, text) = (Lead(before) \o <<field, "=">>) \o text
    BY <1>1, <1>2, JoinShape
  <2>2. <<field, "=">> \in Seq(Bytes)
    BY <1>1
  <2>3. (Lead(before) \o <<field, "=">>) \o text = Lead(before) \o (<<field, "=">> \o text)
    BY <1>1, <1>3, <2>2, ConcatAssociative
  <2> QED BY <2>1, <2>3 DEF Pair
<1>5. pair \in Seq(Plain) /\ <<field>> \in Seq(Plain) /\ <<>> \in Seq(Plain)
  <2>1. <<field, "=">> \in Seq(Plain) /\ <<field>> \in Seq(Plain) /\ <<>> \in Seq(Plain)
    BY <1>1
  <2> HIDE DEF Plain
  <2>2. pair \in Seq(Plain)
    BY <1>1, <2>1, ConcatProperties DEF Pair
  <2> QED BY <2>1, <2>2
<1>6. Lead(before) \o <<field>> = Append(Lead(before), field) /\ Lead(before) \o <<>> = Lead(before)
  <2>1. Lead(before) \o <<field>> = Append(Lead(before), field)
    BY <1>1, <1>3, AppendIsConcat
  <2>2. Lead(before) \o <<>> = Lead(before)
    BY <1>3, ConcatEmptySeq
  <2> QED BY <2>1, <2>2
<1>7. form \in Forming /\ <<>> \in Seq(Bytes)
  <2>1. <<>> \in Seq(Bytes) /\ <<>> \in Seq(Bytes \ {"&"})
    OBVIOUS
  <2> QED BY <2>1, PieceParsed
<1>8. \A piece \in Seq(Plain) : Parsed[split[Lead(before) \o piece]] = ParsePair(form, piece)
  BY PieceParsed
<1> HIDE DEF Plain, form
<1>9. ParsePair(form, pair) = Filled(form, field, text)
  <2> HIDE DEF pair
  <2>1. KeyValue(pair) = [key |-> <<field>>, value |-> text]
    BY <1>1, PairCut DEF pair
  <2> QED BY <1>1, <1>7, <2>1, ParsedPair
<1>10. ParsePair(form, <<field>>) = Filled(form, field, <<>>)
  <2>1. KeyValue(<<field>>) = [key |-> <<field>>, value |-> <<>>]
    BY NameCut
  <2> QED BY <1>7, <2>1, ParsedPair
<1>11. ParsePair(form, <<>>) = form
  BY <1>7, NoKey
<1> HIDE DEF pair
<1>12. Parsed[split[JoinField(before, field, text)]] = Filled(form, field, text)
  BY <1>4, <1>5, <1>8, <1>9
<1>13. Parsed[split[Append(Lead(before), field)]] = Filled(form, field, <<>>)
  BY <1>5, <1>6, <1>8, <1>10
<1>14. Parsed[split[Lead(before)]] = form
  BY <1>5, <1>6, <1>8, <1>11
<1> QED BY <1>7, <1>12, <1>13, <1>14 DEF form

\* A text without "&" and its beginnings are bytes without one.
LEMMA NoAmpersand ==
    ASSUME NEW text \in Seq(Chars), "&" \notin ToSet(text), NEW n \in 0..Len(text)
    PROVE  SubSeq(text, 1, n) \in Seq(Bytes \ {"&"}) /\ SubSeq(text, 1, n) \in Seq(Chars)
<1> DEFINE u == SubSeq(text, 1, n)
<1>1. u \in Seq(Chars) /\ Len(u) = n /\ \A i \in 1..n : u[i] = text[i]
  BY Prefix
<1>2. n \in Nat /\ \A i \in 1..n : i \in 1..Len(text)
  OBVIOUS
<1>3. \A i \in 1..Len(text) : text[i] \in Bytes \ {"&"}
  <2>1. DOMAIN text = 1..Len(text) /\ \A i \in 1..Len(text) : text[i] \in Chars
    OBVIOUS
  <2> QED BY <2>1, Alphabet DEF ToSet
<1> HIDE DEF u
<1>4. u \in [1..n -> Bytes \ {"&"}]
  <2>1. DOMAIN u = 1..n /\ u = [i \in 1..n |-> u[i]]
    BY <1>1, LenProperties
  <2> QED BY <1>1, <1>2, <1>3, <2>1
<1>5. u \in Seq(Bytes \ {"&"})
  BY <1>2, <1>4, IsASeq
<1> QED BY <1>1, <1>5 DEF u

\* The form read from the fields of an order.
FormIn(typed, order) == Parsed[split[Joined(typed)[order]]]

\* Every field adds its text, whatever preceded it.
LEMMA FormSteps ==
    ASSUME NEW typed \in Typed, NEW order \in Seq(FieldNames), NEW field \in FieldNames,
           \A f \in FieldNames : typed[f] # MISSING => "&" \notin ToSet(typed[f])
    PROVE  /\ FormIn(typed, <<>>) = NoForm /\ FormIn(typed, order) \in Forming
           /\ FormIn(typed, Append(order, field)) = Filled(FormIn(typed, order), field, typed[field])
<1> DEFINE before == Joined(typed)[order]
           text == typed[field]
<1>1. /\ Joined(typed)[<<>>] = <<>> /\ before \in Seq(Bytes)
      /\ Joined(typed)[Append(order, field)] = JoinField(before, field, text)
  <2>1. \A f \in FieldNames : typed[f] \in Texts
    BY TypedTexts
  <2> QED BY <2>1, JoinedSteps
<1>2. FormIn(typed, <<>>) = NoForm
  <2>1. split[<<>>] = Append(<<>>, <<>>)
    BY SplitSteps
  <2>2. <<>> \in Seq(Bytes) /\ <<>> \in Seq(Seq(Bytes))
    OBVIOUS
  <2>3. Parsed[Append(<<>>, <<>>)] = ParsePair(NoForm, <<>>)
    BY <2>2, ParsedSteps
  <2>4. NoForm \in Forming
    BY DEF Forming, NoForm, Texts
  <2> QED BY <1>1, <2>1, <2>3, <2>4, NoKey DEF FormIn
<1>3. FormIn(typed, order) \in Forming
  BY <1>1, SplitSteps, ParsedSteps DEF FormIn, Pieces
<1> HIDE DEF before, text
<1>4. CASE text = MISSING
  <2>1. FormIn(typed, Append(order, field)) = FormIn(typed, order)
    BY <1>1, <1>4 DEF JoinField, FormIn, before
  <2>2. MISSING \notin DOMAIN PortNumber
    BY PortalAssumption
  <2>3. Filled(FormIn(typed, order), field, MISSING) = FormIn(typed, order)
    BY <1>3, <2>2 DEF Filled, Forming
  <2> QED BY <1>2, <1>3, <1>4, <2>1, <2>3 DEF text
<1>5. CASE text # MISSING
  <2>1. text \in Seq(Chars) /\ "&" \notin ToSet(text)
    BY <1>5, TypedTexts DEF text
  <2>2. text \in Seq(Bytes \ {"&"})
    <3>1. Len(text) \in 0..Len(text) /\ SubSeq(text, 1, Len(text)) = text
      BY <2>1, SubSeqFull
    <3> QED BY <2>1, <3>1, NoAmpersand
  <2>3. Parsed[split[JoinField(before, field, text)]] = Filled(FormIn(typed, order), field, text)
    BY <1>1, <2>2, FieldParsed DEF FormIn, before
  <2>4. FormIn(typed, Append(order, field)) = Parsed[split[JoinField(before, field, text)]]
    BY <1>1 DEF FormIn
  <2> QED BY <1>2, <1>3, <2>3, <2>4 DEF text
<1> QED BY <1>4, <1>5

\* The form read from the first n fields of an order.
FirstIn(typed, order, n) == FormIn(typed, SubSeq(order, 1, n))

\* Five fields, one after another.
LEMMA FiveFields ==
    ASSUME NEW typed \in Typed, NEW order \in Seq(FieldNames), Len(order) = 5,
           \A f \in FieldNames : typed[f] # MISSING => "&" \notin ToSet(typed[f])
    PROVE  /\ FirstIn(typed, order, 0) = NoForm /\ FirstIn(typed, order, 5) = FormIn(typed, order)
           /\ \A n \in 0..4 :
                /\ FirstIn(typed, order, n) \in Forming
                /\ FirstIn(typed, order, n + 1) =
                      Filled(FirstIn(typed, order, n), order[n + 1], typed[order[n + 1]])
<1>1. ASSUME NEW n \in 0..4
      PROVE  /\ FirstIn(typed, order, n) \in Forming
             /\ FirstIn(typed, order, n + 1) =
                   Filled(FirstIn(typed, order, n), order[n + 1], typed[order[n + 1]])
  <2>1. n \in 0..Len(order) /\ n + 1 \in 1..Len(order) /\ order[n + 1] \in FieldNames
    <3>1. n \in 0..Len(order) /\ n + 1 \in 1..Len(order)
      OBVIOUS
    <3>2. order \in [1..Len(order) -> FieldNames]
      BY LenProperties
    <3> QED BY <3>1, <3>2, Zenon
  <2>2. SubSeq(order, 1, n) \in Seq(FieldNames) /\ SubSeq(order, 1, n + 1) = Append(SubSeq(order, 1, n), order[n + 1])
    BY <2>1, PrefixGrows
  <2> QED BY <2>1, <2>2, FormSteps DEF FirstIn
<1>2. FirstIn(typed, order, 0) = NoForm
  <2>1. SubSeq(order, 1, 0) = <<>>
    BY SubSeqEmpty
  <2>2. "ssid" \in FieldNames
    BY DEF FieldNames
  <2> QED BY <2>1, <2>2, FormSteps DEF FirstIn
<1>3. FirstIn(typed, order, 5) = FormIn(typed, order)
  BY SubSeqFull DEF FirstIn
<1> QED BY <1>1, <1>2, <1>3

\* The browser's order and its reverse.
LEMMA OrderFields ==
    ASSUME NEW order \in Orders
    PROVE  /\ order \in Seq(FieldNames) /\ Len(order) = 5
           /\ \/ /\ order[1] = "ssid" /\ order[2] = "ssid_manual" /\ order[3] = "password"
                 /\ order[4] = "mqtt_host" /\ order[5] = "mqtt_port"
              \/ /\ order[1] = "mqtt_port" /\ order[2] = "mqtt_host" /\ order[3] = "password"
                 /\ order[4] = "ssid_manual" /\ order[5] = "ssid"
<1>1. /\ BrowserFields \in Seq(FieldNames) /\ Len(BrowserFields) = 5
      /\ BrowserFields[1] = "ssid" /\ BrowserFields[2] = "ssid_manual" /\ BrowserFields[3] = "password"
      /\ BrowserFields[4] = "mqtt_host" /\ BrowserFields[5] = "mqtt_port"
  BY DEF BrowserFields, FieldNames
<1> DEFINE r == Reverse(BrowserFields)
<1>2. /\ r \in Seq(FieldNames) /\ Len(r) = 5
      /\ r[1] = "mqtt_port" /\ r[2] = "mqtt_host" /\ r[3] = "password" /\ r[4] = "ssid_manual" /\ r[5] = "ssid"
  <2>1. r = [i \in 1..Len(BrowserFields) |-> BrowserFields[(Len(BrowserFields) - i) + 1]]
    BY DEF Reverse
  <2>2. r = [i \in 1..5 |-> BrowserFields[(5 - i) + 1]]
    BY <1>1, <2>1
  <2>3. \A i \in 1..5 : BrowserFields[(5 - i) + 1] \in FieldNames
    BY <1>1
  <2>4. r \in [1..5 -> FieldNames]
    BY <2>2, <2>3
  <2>5. /\ r[1] = "mqtt_port" /\ r[2] = "mqtt_host" /\ r[3] = "password" /\ r[4] = "ssid_manual" /\ r[5] = "ssid"
    BY <1>1, <2>2
  <2> HIDE DEF r
  <2>6. r \in Seq(FieldNames) /\ Len(r) = 5
    <3>1. ASSUME NEW n \in Nat, NEW f \in [1..n -> FieldNames] PROVE f \in Seq(FieldNames) /\ Len(f) = n
      BY IsASeq, LenProperties
    <3>2. 5 \in Nat
      OBVIOUS
    <3> QED BY <2>4, <3>1, <3>2
  <2> QED BY <2>5, <2>6
<1> QED BY <1>1, <1>2 DEF Orders

\* A form that fits is understood as it was typed.
LEMMA TypedUnderstood ==
    ASSUME NEW typed \in Typed, NEW order \in Orders, NEW size \in Nat, size <= HDR_SIZE,
           Len(Encode(typed, order)) <= BODY_SIZE, ~Ampersand(typed)
    PROVE  FormOf(WholePost(typed, order, size)) =
              IF Len(Joined(typed)[order]) <= DECODED_SIZE THEN Form(typed) ELSE NONE
<1>1. order \in Seq(FieldNames) /\ Len(order) = 5
  BY OrderFields
<1>2. FormOf(WholePost(typed, order, size)) =
        IF Len(Joined(typed)[order]) <= DECODED_SIZE THEN HeldForm(FormIn(typed, order)) ELSE NONE
  BY <1>1, WholeRead DEF FormIn
<1>3. PICK f1, f2, f3, f4 :
              /\ f1 = Filled(NoForm, order[1], typed[order[1]])
              /\ f2 = Filled(f1, order[2], typed[order[2]])
              /\ f3 = Filled(f2, order[3], typed[order[3]])
              /\ f4 = Filled(f3, order[4], typed[order[4]])
              /\ FormIn(typed, order) = Filled(f4, order[5], typed[order[5]])
  <2> DEFINE F(n) == FirstIn(typed, order, n)
  <2>1. F(0) = NoForm /\ F(5) = FormIn(typed, order)
        /\ \A n \in 0..4 : F(n + 1) = Filled(F(n), order[n + 1], typed[order[n + 1]])
    BY <1>1, FiveFields DEF Ampersand
  <2> HIDE DEF F
  <2>2. /\ F(1) = Filled(F(0), order[1], typed[order[1]]) /\ F(2) = Filled(F(1), order[2], typed[order[2]])
        /\ F(3) = Filled(F(2), order[3], typed[order[3]]) /\ F(4) = Filled(F(3), order[4], typed[order[4]])
        /\ F(5) = Filled(F(4), order[5], typed[order[5]])
    <3>1. 0 + 1 = 1 /\ 1 + 1 = 2 /\ 2 + 1 = 3 /\ 3 + 1 = 4 /\ 4 + 1 = 5
      OBVIOUS
    <3>2. {0, 1, 2, 3, 4} \subseteq 0..4
      OBVIOUS
    <3> QED BY <2>1, <3>1, <3>2
  <2> QED BY <2>1, <2>2
<1> DEFINE host == typed["mqtt_host"]
           port == typed["mqtt_port"]
<1>4. FormIn(typed, order) =
        [ssid |-> typed["ssid"], password |-> typed["password"],
         host |-> IF host = MISSING THEN <<>> ELSE host,
         port |-> IF port \in DOMAIN PortNumber THEN PortNumber[port] ELSE DEFAULT_PORT]
  <2>1. CASE order[1] = "ssid"
    <3>1. /\ order[2] = "ssid_manual" /\ order[3] = "password"
          /\ order[4] = "mqtt_host" /\ order[5] = "mqtt_port"
      BY <2>1, OrderFields
    <3> QED BY <1>3, <2>1, <3>1 DEF Filled, NoForm
  <2>2. CASE order[1] = "mqtt_port"
    <3>1. /\ order[2] = "mqtt_host" /\ order[3] = "password"
          /\ order[4] = "ssid_manual" /\ order[5] = "ssid"
      BY <2>2, OrderFields
    <3> QED BY <1>3, <2>2, <3>1 DEF Filled, NoForm
  <2> QED BY <2>1, <2>2, OrderFields
<1> QED BY <1>2, <1>4 DEF Form

--------------------------------------------------------------------------------
(* What is left of headers *)

\* The elements of a sequence that is one longer.
LEMMA AppendAt ==
    ASSUME NEW S, NEW s \in Seq(S), NEW x \in S
    PROVE  /\ Len(Append(s, x)) = Len(s) + 1 /\ Append(s, x)[Len(s) + 1] = x /\ Len(s) \in Nat
           /\ Last(Append(s, x)) = x
           /\ \A i \in 1..Len(s) : Append(s, x)[i] = s[i]
<1>1. /\ Len(Append(s, x)) = Len(s) + 1 /\ Append(s, x)[Len(s) + 1] = x /\ Len(s) \in Nat
      /\ \A i \in 1..Len(s) : Append(s, x)[i] = s[i]
  BY AppendProperties
<1> QED BY <1>1 DEF Last

\* "ssid" stands only where "header" precedes it.
Behind(s) == \A p \in 1..Len(s) : s[p] = "ssid" => p > 1 /\ s[p - 1] = "header"

\* The same, byte by byte.
LEMMA BehindGrows ==
    ASSUME NEW S, NEW s \in Seq(S), NEW x \in S
    PROVE  Behind(Append(s, x)) <=> Behind(s) /\ (x = "ssid" => s # <<>> /\ Last(s) = "header")
<1> DEFINE u == Append(s, x)
           n == Len(s)
<1>1. /\ n \in Nat /\ Len(u) = n + 1 /\ u[n + 1] = x /\ \A p \in 1..n : u[p] = s[p]
  BY AppendProperties
<1>2. s # <<>> <=> n > 0
  OBVIOUS
<1>3. Last(s) = s[n]
  BY DEF Last
<1> HIDE DEF u, n
<1>4. ASSUME Behind(u) PROVE Behind(s) /\ (x = "ssid" => s # <<>> /\ Last(s) = "header")
  <2>1. \A p \in 1..n + 1 : u[p] = "ssid" => p > 1 /\ u[p - 1] = "header"
    BY <1>1, <1>4 DEF Behind
  <2>2. \A p \in 1..n : s[p] = "ssid" => p > 1 /\ s[p - 1] = "header"
    <3> SUFFICES ASSUME NEW p \in 1..n, s[p] = "ssid" PROVE p > 1 /\ s[p - 1] = "header"
      OBVIOUS
    <3>1. p \in 1..n + 1 /\ u[p] = "ssid"
      BY <1>1
    <3>2. p > 1 /\ u[p - 1] = "header"
      BY <2>1, <3>1
    <3>3. p - 1 \in 1..n
      BY <1>1, <3>2
    <3> QED BY <1>1, <3>2, <3>3
  <2>3. x = "ssid" => n > 0 /\ s[n] = "header"
    <3> HAVE x = "ssid"
    <3>1. n + 1 \in 1..n + 1 /\ (n + 1) - 1 = n
      BY <1>1
    <3>2. n + 1 > 1 /\ u[n] = "header"
      BY <1>1, <2>1, <3>1
    <3>3. n \in 1..n
      BY <1>1, <3>2
    <3> QED BY <1>1, <3>2, <3>3
  <2> QED BY <1>2, <1>3, <2>2, <2>3 DEF Behind, n
<1>5. ASSUME Behind(s), x = "ssid" => s # <<>> /\ Last(s) = "header" PROVE Behind(u)
  <2> SUFFICES ASSUME NEW p \in 1..n + 1, u[p] = "ssid" PROVE p > 1 /\ u[p - 1] = "header"
    BY <1>1 DEF Behind
  <2>1. CASE p \in 1..n
    <3>1. p > 1 /\ s[p - 1] = "header"
      BY <1>1, <1>5, <2>1 DEF Behind, n
    <3>2. p - 1 \in 1..n
      BY <1>1, <2>1, <3>1
    <3> QED BY <1>1, <3>1, <3>2
  <2>2. CASE p = n + 1
    <3>1. n > 0 /\ s[n] = "header"
      BY <1>1, <1>2, <1>3, <1>5, <2>2
    <3>2. n \in 1..n /\ p - 1 = n
      BY <1>1, <2>2, <3>1
    <3> QED BY <1>1, <3>1, <3>2
  <2> QED BY <1>1, <2>1, <2>2
<1> QED BY <1>4, <1>5 DEF u

\* What the decoder makes of such bytes: "ssid" stands behind "header" again.
Behaved(s) ==
    LET loop == Decoded[s]
    IN  loop.ok => /\ Behind(loop.text)
                   /\ (s # <<>> /\ Last(s) = "header" /\ loop.escape = <<>>) =>
                         loop.text # <<>> /\ Last(loop.text) = "header"

\* The decoder leaves every "ssid" behind its "header".
LEMMA TailDecoded ==
    ASSUME NEW s \in Seq(Bytes), Behind(s)
    PROVE  Behaved(s)
<1> DEFINE All == Bytes \cup {NOT_UTF8}
           T == {u \in Seq(Bytes) : Behind(u) => Behaved(u)}
<1>1. <<>> \in T
  <2>1. Decoded[<<>>].text = <<>>
    BY DecodedSteps
  <2>2. Behind(<<>>) /\ <<>> \in Seq(Bytes)
    BY DEF Behind
  <2> QED BY <2>1, <2>2 DEF Behaved
<1>2. ASSUME NEW u \in Seq(Bytes), NEW x \in Bytes, u \in T PROVE Append(u, x) \in T
  <2> SUFFICES ASSUME Behind(Append(u, x)) PROVE Behaved(Append(u, x))
    OBVIOUS
  <2> DEFINE loop == Decoded[u]
             next == Decoded[Append(u, x)]
             digits == Append(Tail(loop.escape), x)
  <2>1. Behaved(u) /\ (x = "ssid" => u # <<>> /\ Last(u) = "header")
    BY <1>2, BehindGrows
  <2>2. next = DecodeByte(loop, x) /\ loop \in Loops
    BY DecodedSteps
  <2>3. Append(u, x) \in Seq(Bytes) /\ Append(u, x) # <<>> /\ Last(Append(u, x)) = x
    BY AppendFrontLast
  <2>4. /\ loop.text \in Seq(All) /\ loop.escape \in Seq(Bytes)
        /\ loop.escape # <<>> => Len(loop.escape) \in {1, 2}
    <3>1. /\ loop.text \in Seq(All) /\ loop.escape \in Seq(Bytes) /\ Len(loop.escape) <= 2
      BY <2>2 DEF Loops
    <3>2. \A n \in Nat : n <= 2 /\ n # 0 => n \in {1, 2}
      OBVIOUS
    <3>3. Len(loop.escape) \in Nat /\ (Len(loop.escape) = 0 => loop.escape = <<>>)
      BY <3>1
    <3> QED BY <3>1, <3>2, <3>3
  <2>5. \A t \in Seq(All), b \in All : b # "ssid" => (Behind(Append(t, b)) <=> Behind(t))
    BY BehindGrows
  <2> HIDE DEF loop, next, digits, All
  <2>6. CASE ~loop.ok
    <3>1. ~next.ok
      BY <2>2, <2>6 DEF DecodeByte
    <3> QED BY <3>1 DEF Behaved, next
  <2>7. CASE loop.ok /\ loop.escape = <<>> /\ x = "%"
    <3>1. next = [loop EXCEPT !.escape = <<"%">>]
      BY <2>2, <2>7 DEF DecodeByte
    <3>2. next.text = loop.text
      BY <2>2, <3>1 DEF Loops
    <3>3. Behind(loop.text)
      BY <2>1, <2>7 DEF Behaved, loop
    <3> QED BY <2>3, <2>7, <3>2, <3>3 DEF Behaved, next
  <2>8. CASE loop.ok /\ loop.escape = <<>> /\ x # "%"
    <3> DEFINE b == IF x = "+" THEN " " ELSE x
    <3>1. next = [loop EXCEPT !.text = Append(loop.text, b)]
      <4>1. DecodeByte(loop, x) = [loop EXCEPT !.text = Append(loop.text, IF x = "+" THEN " " ELSE x)]
        BY <2>8 DEF DecodeByte
      <4> QED BY <2>2, <4>1
    <3>2. next.text = Append(loop.text, b)
      BY <2>2, <3>1 DEF Loops
    <3>3. b \in All
      BY Alphabet DEF All
    <3>4. b = "ssid" => x = "ssid"
      OBVIOUS
    <3>5. b = "header" <=> x = "header"
      OBVIOUS
    <3> HIDE DEF b
    <3>6. Behind(loop.text) /\ ((u # <<>> /\ Last(u) = "header") => loop.text # <<>> /\ Last(loop.text) = "header")
      BY <2>1, <2>8 DEF Behaved, loop
    <3>7. Behind(Append(loop.text, b))
      <4>1. b = "ssid" => loop.text # <<>> /\ Last(loop.text) = "header"
        BY <2>1, <3>4, <3>6
      <4> QED BY <2>4, <3>3, <3>6, <4>1, BehindGrows
    <3>8. Append(loop.text, b) # <<>> /\ Last(Append(loop.text, b)) = b
      BY <2>4, <3>3, AppendFrontLast
    <3> QED BY <2>3, <3>2, <3>5, <3>7, <3>8 DEF Behaved, next
  <2>9. CASE loop.ok /\ Len(loop.escape) = 1 /\ loop.escape # <<>>
    <3>1. next = [loop EXCEPT !.escape = Append(loop.escape, x)]
      BY <2>2, <2>9 DEF DecodeByte
    <3>2. next.text = loop.text /\ next.escape = Append(loop.escape, x)
      BY <2>2, <3>1 DEF Loops
    <3>3. next.escape # <<>>
      BY <2>4, <3>2, AppendFrontLast
    <3>4. Behind(loop.text)
      BY <2>1, <2>9 DEF Behaved, loop
    <3> QED BY <3>2, <3>3, <3>4 DEF Behaved, next
  <2>10. CASE loop.ok /\ Len(loop.escape) = 2 /\ loop.escape # <<>>
    <3>1. next = IF digits \in DOMAIN Unhex
                 THEN [loop EXCEPT !.text = Append(loop.text, Unhex[digits]), !.escape = <<>>]
                 ELSE [loop EXCEPT !.ok = FALSE]
      BY <2>2, <2>10 DEF DecodeByte, digits
    <3>2. CASE digits \notin DOMAIN Unhex
      <4>1. ~next.ok
        BY <2>2, <3>1, <3>2 DEF Loops
      <4> QED BY <4>1 DEF Behaved, next
    <3>3. CASE digits \in DOMAIN Unhex
      <4>1. next.text = Append(loop.text, Unhex[digits])
        BY <2>2, <3>1, <3>3 DEF Loops
      <4>2. Unhex[digits] \in All /\ Unhex[digits] # "ssid"
        <5>1. Unhex[digits] \in Chars \cup {NOT_UTF8} /\ "ssid" \in FieldNames
          BY <3>3, PortalAssumption DEF FieldNames
        <5> QED BY <5>1, Alphabet DEF All
      <4>3. x # "header"
        <5>1. digits \in Seq(Chars) /\ Len(digits) = 2
          BY <3>3, PortalAssumption
        <5>2. Last(digits) = x
          <6>1. Tail(loop.escape) \in Seq(Bytes)
            BY <2>4, <2>10
          <6> QED BY <6>1, AppendFrontLast DEF digits
        <5>3. Last(digits) \in Chars
          <6>1. digits[2] \in Chars
            <7>1. digits \in [1..Len(digits) -> Chars]
              BY <5>1, LenProperties, Zenon
            <7>2. 2 \in 1..Len(digits)
              BY <5>1
            <7> QED BY <7>1, <7>2
          <6>2. Last(digits) = digits[Len(digits)]
            BY DEF Last
          <6> QED BY <5>1, <6>1, <6>2
        <5> QED BY <5>2, <5>3, Alphabet
      <4>4. Behind(loop.text)
        BY <2>1, <2>10 DEF Behaved, loop
      <4>5. Behind(next.text)
        BY <2>4, <2>5, <4>1, <4>2, <4>4
      <4> QED BY <2>3, <4>3, <4>5 DEF Behaved, next
    <3> QED BY <3>2, <3>3
  <2> QED BY <2>4, <2>6, <2>7, <2>8, <2>9, <2>10
<1>3. Seq(Bytes) \subseteq T
  <2> HIDE DEF T
  <2> QED BY <1>1, <1>2, SeqInduction
<1> QED BY <1>3

\* No piece of such a text begins with "ssid".
LEMMA TailSplit ==
    ASSUME NEW s \in Seq(Bytes), Behind(s)
    PROVE  \A i \in 1..Len(split[s]) : split[s][i] # <<>> => split[s][i][1] # "ssid"
<1> DEFINE Unnamed(u) == \A i \in 1..Len(split[u]) : split[u][i] # <<>> => split[u][i][1] # "ssid"
           Started(u) == u # <<>> /\ Last(u) = "header" => Last(split[u]) # <<>>
           T == {u \in Seq(Bytes) : Behind(u) => Unnamed(u) /\ Started(u)}
<1>1. <<>> \in T
  <2>1. split[<<>>] = <<<<>>>>
    BY SplitSteps
  <2>2. Len(<<<<>>>>) = 1 /\ <<<<>>>>[1] = <<>> /\ <<>> \in Seq(Bytes)
    OBVIOUS
  <2> QED BY <2>1, <2>2
<1>2. ASSUME NEW u \in Seq(Bytes), NEW x \in Bytes, u \in T PROVE Append(u, x) \in T
  <2> SUFFICES ASSUME Behind(Append(u, x)) PROVE Unnamed(Append(u, x)) /\ Started(Append(u, x))
    OBVIOUS
  <2> DEFINE P == split[u]
             Q == split[Append(u, x)]
             F == Front(P)
             L == Last(P)
  <2>1. Unnamed(u) /\ Started(u) /\ (x = "ssid" => u # <<>> /\ Last(u) = "header")
    BY <1>2, BehindGrows
  <2>2. Q = SplitByte(P, x) /\ P \in Seq(Seq(Bytes)) /\ P # <<>>
    BY SplitSteps DEF Pieces
  <2>3. Append(u, x) # <<>> /\ Last(Append(u, x)) = x
    BY AppendFrontLast
  <2>4. /\ F \in Seq(Seq(Bytes)) /\ L \in Seq(Bytes) /\ P = Append(F, L) /\ Len(F) = Len(P) - 1
        /\ Len(P) \in Nat \ {0}
    BY <2>2, FrontLast
  <2>5. /\ \A i \in 1..Len(F) : F[i] = P[i]
        /\ P[Len(P)] = L /\ Len(F) \in Nat
    <3>1. \A f \in Seq(Seq(Bytes)), l \in Seq(Bytes) :
             /\ Len(Append(f, l)) = Len(f) + 1 /\ Append(f, l)[Len(f) + 1] = l /\ Len(f) \in Nat
             /\ \A i \in 1..Len(f) : Append(f, l)[i] = f[i]
      BY AppendAt
    <3> HIDE DEF P, F, L
    <3> QED BY <2>4, <3>1
  <2>6. \A i \in 1..Len(P) : P[i] # <<>> => P[i][1] # "ssid"
    BY <2>1
  <2> HIDE DEF P, Q, F, L
  <2>7. CASE x = "&"
    <3>1. Q = Append(P, <<>>)
      BY <2>2, <2>7 DEF SplitByte
    <3>2. <<>> \in Seq(Bytes)
      OBVIOUS
    <3>3. Len(Q) = Len(P) + 1 /\ Q[Len(P) + 1] = <<>> /\ \A i \in 1..Len(P) : Q[i] = P[i]
      BY <2>2, <3>1, <3>2, AppendProperties
    <3>4. \A i \in 1..Len(Q) : i \in 1..Len(P) \/ i = Len(P) + 1
      BY <2>4, <3>3
    <3>5. \A i \in 1..Len(Q) : Q[i] # <<>> => Q[i][1] # "ssid"
      BY <2>6, <3>3, <3>4
    <3>6. x # "header"
      BY <2>7
    <3> QED BY <2>3, <3>5, <3>6 DEF Q
  <2>8. CASE x # "&"
    <3>1. Q = Append(F, Append(L, x))
      BY <2>2, <2>8 DEF SplitByte, F, L
    <3>2. Append(L, x) \in Seq(Bytes) /\ Append(L, x) # <<>>
          /\ Append(L, x)[1] = IF L = <<>> THEN x ELSE L[1]
      <4>1. Append(L, x) \in Seq(Bytes) /\ Append(L, x) # <<>>
        BY <2>4, AppendFrontLast
      <4>2. CASE L = <<>>
        BY <4>1, <4>2
      <4>3. CASE L # <<>>
        BY <2>4, <4>1, <4>3, AppendProperties
      <4> QED BY <4>1, <4>2, <4>3
    <3>3. /\ Len(Q) = Len(F) + 1 /\ Q[Len(F) + 1] = Append(L, x) /\ \A i \in 1..Len(F) : Q[i] = F[i]
          /\ Last(Q) = Append(L, x)
      <4>1. \A f \in Seq(Seq(Bytes)), l \in Seq(Bytes) :
               /\ Len(Append(f, l)) = Len(f) + 1 /\ Append(f, l)[Len(f) + 1] = l
               /\ Last(Append(f, l)) = l /\ \A i \in 1..Len(f) : Append(f, l)[i] = f[i]
        BY AppendAt
      <4> QED BY <2>4, <3>1, <3>2, <4>1
    <3>4. \A i \in 1..Len(Q) : i \in 1..Len(F) \/ i = Len(F) + 1
      BY <2>5, <3>3
    <3>5. L # <<>> => L[1] # "ssid"
      BY <2>4, <2>5, <2>6
    <3>6. L = <<>> => x # "ssid"
      BY <2>1 DEF L, P
    <3>7. \A i \in 1..Len(F) : i \in 1..Len(P)
      BY <2>4, <2>5
    <3>8. \A i \in 1..Len(Q) : Q[i] # <<>> => Q[i][1] # "ssid"
      <4> TAKE i \in 1..Len(Q)
      <4>1. CASE i \in 1..Len(F)
        BY <2>5, <2>6, <3>3, <3>7, <4>1
      <4>2. CASE i = Len(F) + 1
        BY <3>2, <3>3, <3>5, <3>6, <4>2
      <4> QED BY <3>4, <4>1, <4>2
    <3> QED BY <3>2, <3>3, <3>8 DEF Q
  <2> QED BY <2>7, <2>8
<1>3. Seq(Bytes) \subseteq T
  <2> HIDE DEF T
  <2> QED BY <1>1, <1>2, SeqInduction
<1> QED BY <1>3

--------------------------------------------------------------------------------
(* Headers past their buffer *)

\* The browser's body has its "ssid" at its beginning, or none.
First(s) == \A p \in 1..Len(s) : s[p] = "ssid" => p = 1

\* The name "ssid" stays the first byte or none behind one more byte.
LEMMA FirstAppend ==
    ASSUME NEW s \in Seq(Bytes), NEW x \in Bytes, First(s), x = "ssid" => s = <<>>
    PROVE  First(Append(s, x))
<1>1. /\ Len(Append(s, x)) = Len(s) + 1 /\ Append(s, x)[Len(s) + 1] = x /\ Len(s) \in Nat
      /\ \A i \in 1..Len(s) : Append(s, x)[i] = s[i]
  BY AppendAt
<1>2. s = <<>> => Len(s) = 0
  OBVIOUS
<1> QED BY <1>1, <1>2 DEF First

\* The same behind bytes that are no name.
LEMMA FirstConcat ==
    ASSUME NEW s \in Seq(Bytes), NEW e \in Seq(NoName), First(s)
    PROVE  First(s \o e)
<1>1. e \in Seq(Bytes)
  BY DEF NoName
<1>2. /\ Len(s \o e) = Len(s) + Len(e)
      /\ \A i \in 1..Len(s) + Len(e) : (s \o e)[i] = IF i <= Len(s) THEN s[i] ELSE e[i - Len(s)]
  BY <1>1, ConcatProperties
<1>3. Len(s) \in Nat /\ Len(e) \in Nat /\ e \in [1..Len(e) -> NoName]
  BY LenProperties
<1>4. \A i \in 1..Len(e) : e[i] # "ssid"
  BY <1>3 DEF NoName
<1> SUFFICES ASSUME NEW p \in 1..Len(s) + Len(e), (s \o e)[p] = "ssid" PROVE p = 1
  BY <1>2 DEF First
<1>5. CASE p <= Len(s)
  BY <1>2, <1>3, <1>5 DEF First
<1>6. CASE ~(p <= Len(s))
  <2>1. p - Len(s) \in 1..Len(e)
    BY <1>3, <1>6
  <2> QED BY <1>2, <1>4, <1>6, <2>1
<1> QED BY <1>5, <1>6

\* The same behind one more field.
LEMMA FirstJoin ==
    ASSUME NEW s \in Seq(Bytes), NEW field \in FieldNames, NEW e \in Seq(NoName), First(s),
           field = "ssid" => s = <<>>
    PROVE  First(JoinField(s, field, e))
<1>1. field \in Bytes /\ "=" \in Bytes /\ "&" \in Bytes
  BY Alphabet
<1>2. e \in Seq(Bytes)
  BY DEF NoName
<1>3. e # MISSING
  BY <1>2, PortalAssumption
<1>4. First(Lead(s)) /\ Lead(s) \in Seq(Bytes) /\ (field = "ssid" => Lead(s) = <<>>)
  BY <1>1, FirstAppend DEF Lead
<1>5. First(Append(Lead(s), field)) /\ Append(Lead(s), field) \in Seq(Bytes)
  BY <1>1, <1>4, FirstAppend
<1>6. First(Append(Append(Lead(s), field), "=")) /\ Append(Append(Lead(s), field), "=") \in Seq(Bytes)
  <2>1. "=" # "ssid"
    OBVIOUS
  <2>2. First(Append(Append(Lead(s), field), "="))
    BY <1>1, <1>5, <2>1, FirstAppend
  <2>3. Append(Append(Lead(s), field), "=") \in Seq(Bytes)
    BY <1>1, <1>5
  <2> QED BY <2>2, <2>3
<1>7. First(Append(Append(Lead(s), field), "=") \o e)
  BY <1>6, FirstConcat
<1>8. JoinField(s, field, e) = (Lead(s) \o <<field, "=">>) \o e
  BY <1>1, <1>2, <1>3, JoinShape
<1>9. Lead(s) \o <<field, "=">> = Append(Append(Lead(s), field), "=")
  BY <1>1, <1>2, <1>3, JoinShape
<1> QED BY <1>7, <1>8, <1>9

\* In the order of the form "ssid" is the first byte of a body or none of it.
LEMMA BodyFirst ==
    ASSUME NEW typed \in Typed
    PROVE  Encode(typed, BrowserFields) \in Seq(Bytes) /\ First(Encode(typed, BrowserFields))
<1> DEFINE J == Joined(EncodedTexts(typed))
           o == BrowserFields
           N == {n \in Nat : n <= 5 => First(J[SubSeq(o, 1, n)]) /\ J[SubSeq(o, 1, n)] \in Seq(Bytes)}
<1>1. o \in Seq(FieldNames) /\ Len(o) = 5 /\ \A i \in 2..5 : o[i] # "ssid"
  BY DEF BrowserFields, FieldNames
<1>2. /\ J[<<>>] = <<>>
      /\ \A s \in Seq(FieldNames) : J[s] \in Seq(Bytes)
      /\ \A s \in Seq(FieldNames), f \in FieldNames : J[Append(s, f)] = JoinField(J[s], f, EncodedTexts(typed)[f])
  <2>1. \A f \in FieldNames : EncodedTexts(typed)[f] \in Texts
    BY EncodedTyped
  <2> QED BY <2>1, JoinedSteps
<1> HIDE DEF J, o
<1>3. SubSeq(o, 1, 0) = <<>>
  BY SubSeqEmpty
<1>4. 0 \in N
  <2>1. First(<<>>) /\ <<>> \in Seq(Bytes)
    BY DEF First
  <2> QED BY <1>2, <1>3, <2>1
<1>5. ASSUME NEW n \in Nat, n \in N PROVE n + 1 \in N
  <2> SUFFICES ASSUME n + 1 <= 5
               PROVE  First(J[SubSeq(o, 1, n + 1)]) /\ J[SubSeq(o, 1, n + 1)] \in Seq(Bytes)
    OBVIOUS
  <2> DEFINE f == o[n + 1]
             s == J[SubSeq(o, 1, n)]
             e == EncodedTexts(typed)[f]
  <2>1. n \in 0..Len(o) /\ n + 1 \in 1..Len(o)
    BY <1>1
  <2>2. SubSeq(o, 1, n) \in Seq(FieldNames) /\ SubSeq(o, 1, n + 1) = Append(SubSeq(o, 1, n), f)
    BY <1>1, <2>1, PrefixGrows
  <2>3. f \in FieldNames
    <3>1. o \in [1..Len(o) -> FieldNames]
      BY <1>1, LenProperties
    <3> QED BY <2>1, <3>1
  <2>4. J[SubSeq(o, 1, n + 1)] = JoinField(s, f, e)
    BY <1>2, <2>2, <2>3
  <2>5. First(s) /\ s \in Seq(Bytes)
    BY <1>5
  <2>6. f = "ssid" => s = <<>>
    <3> HAVE f = "ssid"
    <3>1. n + 1 \notin 2..5
      BY <1>1
    <3>2. n = 0
      BY <3>1
    <3> QED BY <1>2, <1>3, <3>2
  <2>7. JoinField(s, f, e) \in Seq(Bytes)
    BY <2>3, <2>5, EncodedTyped, JoinFieldTyped
  <2>8. First(JoinField(s, f, e))
    <3>1. CASE typed[f] = MISSING
      <4>1. e = MISSING
        BY <2>3, <3>1, EncodedTyped
      <4> HIDE DEF e, s, f
      <4> QED BY <2>5, <4>1 DEF JoinField
    <3>2. CASE typed[f] # MISSING
      <4>1. e \in Seq(NoName)
        BY <2>3, <3>2, EncodedTyped
      <4> HIDE DEF e, s, f
      <4> QED BY <2>3, <2>5, <2>6, <4>1, FirstJoin
    <3> QED BY <3>1, <3>2
  <2> QED BY <2>4, <2>7, <2>8
<1>6. 5 \in N
  <2>1. Nat \subseteq N
    <3> HIDE DEF N
    <3> QED BY <1>4, <1>5, Induction
  <2> QED BY <2>1
<1>7. SubSeq(o, 1, 5) = o
  BY <1>1, SubSeqFull
<1>8. J[o] \in Seq(Bytes) /\ First(J[o])
  <2>1. 5 <= 5
    OBVIOUS
  <2>2. First(J[SubSeq(o, 1, 5)]) /\ J[SubSeq(o, 1, 5)] \in Seq(Bytes)
    BY <1>6, <2>1
  <2> QED BY <1>7, <2>2, Zenon
<1> QED BY <1>8 DEF J, o, Encode, EncodedTexts

\* So is what a socket holds after headers past their buffer, and what of it is read.
LEMMA TailBehind ==
    ASSUME NEW typed \in Typed, NEW left \in Nat \ {0}, NEW length \in Nat,
           NEW sent \in 0..Len(Encode(typed, BrowserFields)), NEW n \in Nat
    PROVE  LET unread == Unread(Post(HDR_SIZE + left, length, Encode(typed, BrowserFields), sent))
               read == SubSeq(unread, 1, IF Len(unread) < n THEN Len(unread) ELSE n)
           IN  read \in Seq(Bytes) /\ Behind(read)
<1> DEFINE body == Encode(typed, BrowserFields)
           unread == Unread(Post(HDR_SIZE + left, length, body, sent))
           H == [i \in 1..left |-> "header"]
           B == SubSeq(body, 1, sent)
           m == IF Len(unread) < n THEN Len(unread) ELSE n
           read == SubSeq(unread, 1, m)
<1>1. body \in Seq(Bytes) /\ First(body)
  BY BodyFirst
<1>2. unread = H \o B
  <2>1. HDR_SIZE \in Nat
    BY PortalAssumption
  <2>2. HDR_SIZE + left > HDR_SIZE /\ (HDR_SIZE + left) - HDR_SIZE = left
    BY <2>1
  <2> QED BY <2>2 DEF Unread, Post
<1>3. H \in Seq(Bytes) /\ Len(H) = left /\ \A i \in 1..left : H[i] = "header"
  <2>1. "header" \in Bytes
    BY Alphabet
  <2>2. H \in [1..left -> Bytes] /\ left \in Nat
    BY <2>1
  <2>3. \A i \in 1..left : H[i] = "header"
    OBVIOUS
  <2> HIDE DEF H
  <2> QED BY <2>2, <2>3, IsASeq, LenProperties
<1>4. B \in Seq(Bytes) /\ Len(B) = sent /\ \A i \in 1..sent : B[i] = body[i]
  BY <1>1, Prefix
<1> HIDE DEF body, H, B
<1>5. /\ H \o B \in Seq(Bytes) /\ Len(H \o B) = left + sent /\ sent \in Nat /\ sent <= Len(body) /\ Len(body) \in Nat
      /\ \A i \in 1..left + sent : (H \o B)[i] = IF i <= left THEN H[i] ELSE B[i - left]
  <2>1. Len(body) \in Nat /\ sent \in 0..Len(body)
    BY <1>1 DEF body
  <2>2. /\ H \o B \in Seq(Bytes) /\ Len(H \o B) = Len(H) + Len(B)
        /\ \A i \in 1..Len(H) + Len(B) : (H \o B)[i] = IF i <= Len(H) THEN H[i] ELSE B[i - Len(H)]
    BY <1>3, <1>4, ConcatProperties
  <2> QED BY <1>3, <1>4, <2>1, <2>2
<1>6. ASSUME NEW p \in 1..left + sent, (H \o B)[p] = "ssid" PROVE p > 1 /\ (H \o B)[p - 1] = "header"
  <2>1. ~(p <= left)
    BY <1>3, <1>5, <1>6
  <2>2. p - left \in 1..sent /\ p - left \in 1..Len(body)
    BY <1>5, <2>1
  <2>3. body[p - left] = "ssid"
    BY <1>4, <1>5, <1>6, <2>1, <2>2
  <2>4. p - left = 1
    BY <1>1, <2>2, <2>3 DEF First
  <2>5. p - 1 = left /\ left \in 1..left + sent /\ left \in 1..left
    BY <1>5, <2>4
  <2> QED BY <1>3, <1>5, <2>4, <2>5
<1> HIDE DEF unread
<1>7. unread \in Seq(Bytes) /\ Len(unread) \in Nat /\ m \in 0..Len(unread)
  BY <1>2, <1>5
<1> HIDE DEF m
<1>8. read \in Seq(Bytes) /\ Len(read) = m /\ \A i \in 1..m : read[i] = unread[i]
  BY <1>7, Prefix
<1> HIDE DEF read
<1>9. ASSUME NEW p \in 1..Len(read), read[p] = "ssid" PROVE p > 1 /\ read[p - 1] = "header"
  <2>1. p \in 1..left + sent /\ unread[p] = "ssid"
    BY <1>2, <1>5, <1>7, <1>8, <1>9
  <2>2. p > 1 /\ unread[p - 1] = "header"
    BY <1>2, <1>6, <2>1
  <2>3. p - 1 \in 1..m
    BY <1>7, <1>8, <2>2
  <2> QED BY <1>8, <2>2, <2>3
<1>10. Behind(read)
  BY <1>9 DEF Behind
<1> QED BY <1>8, <1>10 DEF read, m, unread, body

\* A pair of the key "ssid" begins with it.
LEMMA SsidKey ==
    ASSUME NEW pair \in Seq(Bytes), KeyValue(pair).key = <<"ssid">>
    PROVE  pair # <<>> /\ pair[1] = "ssid"
<1>1. CASE Signs(pair) = {}
  <2>1. pair = <<"ssid">>
    BY <1>1 DEF KeyValue
  <2> QED BY <2>1
<1>2. CASE Signs(pair) # {}
  <2> DEFINE i == Min(Signs(pair))
  <2>1. i \in Signs(pair)
    BY <1>2, CutTyped
  <2>2. i \in 1..Len(pair) /\ Len(pair) \in Nat
    BY <2>1 DEF Signs
  <2>3. KeyValue(pair).key = SubSeq(pair, 1, i - 1)
    BY <1>2 DEF KeyValue, CutAt
  <2> HIDE DEF i
  <2>4. i - 1 \in 0..Len(pair)
    BY <2>2
  <2>5. Len(SubSeq(pair, 1, i - 1)) = i - 1 /\ \A j \in 1..i - 1 : SubSeq(pair, 1, i - 1)[j] = pair[j]
    BY <2>4, Prefix
  <2>6. Len(<<"ssid">>) = 1 /\ <<"ssid">>[1] = "ssid"
    OBVIOUS
  <2>7. i - 1 = 1 /\ pair[1] = "ssid"
    <3>1. SubSeq(pair, 1, i - 1) = <<"ssid">>
      BY <2>3, Zenon
    <3>2. Len(SubSeq(pair, 1, i - 1)) = 1 /\ SubSeq(pair, 1, i - 1)[1] = "ssid"
      BY <2>6, <3>1, Zenon
    <3> QED BY <2>2, <2>5, <3>2
  <2> QED BY <2>2, <2>7
<1> QED BY <1>1, <1>2

\* Pieces none of which begins with "ssid" fill in no ssid.
LEMMA NoSsid ==
    ASSUME NEW pieces \in Seq(Seq(Bytes)),
           \A i \in 1..Len(pieces) : pieces[i] # <<>> => pieces[i][1] # "ssid"
    PROVE  Parsed[pieces].ssid = MISSING
<1> DEFINE Unnamed(u) == \A i \in 1..Len(u) : u[i] # <<>> => u[i][1] # "ssid"
           T == {u \in Seq(Seq(Bytes)) : Unnamed(u) => Parsed[u].ssid = MISSING}
<1>1. <<>> \in T
  <2>1. Parsed[<<>>].ssid = MISSING
    BY ParsedSteps DEF NoForm
  <2>2. <<>> \in Seq(Seq(Bytes))
    OBVIOUS
  <2> QED BY <2>1, <2>2
<1>2. ASSUME NEW u \in Seq(Seq(Bytes)), NEW x \in Seq(Bytes), u \in T PROVE Append(u, x) \in T
  <2>0. Append(u, x) \in Seq(Seq(Bytes))
    OBVIOUS
  <2> SUFFICES ASSUME Unnamed(Append(u, x)) PROVE Parsed[Append(u, x)].ssid = MISSING
    BY <2>0
  <2>1. /\ Len(Append(u, x)) = Len(u) + 1 /\ Append(u, x)[Len(u) + 1] = x /\ Len(u) \in Nat
        /\ \A i \in 1..Len(u) : Append(u, x)[i] = u[i]
    BY AppendAt
  <2>2. Unnamed(u) /\ (x # <<>> => x[1] # "ssid")
    <3>1. Len(u) + 1 \in 1..Len(Append(u, x)) /\ \A i \in 1..Len(u) : i \in 1..Len(Append(u, x))
      BY <2>1
    <3> QED BY <2>1, <3>1
  <2>3. Parsed[u].ssid = MISSING /\ Parsed[u] \in Forming
    BY <1>2, <2>2, ParsedSteps
  <2>4. Parsed[Append(u, x)] = ParsePair(Parsed[u], x)
    BY ParsedSteps
  <2>5. KeyValue(x).key # <<"ssid">>
    BY <2>2, SsidKey
  <2>6. ParsePair(Parsed[u], x).ssid = Parsed[u].ssid
    <3> DEFINE form == Parsed[u]
               kv == KeyValue(x)
    <3>1. form \in Forming /\ kv.key # <<"ssid">>
      BY <2>3, <2>5
    <3> HIDE DEF form, kv
    <3>2. ParsePair(form, x) \in
            {[form EXCEPT !.password = kv.value], [form EXCEPT !.host = kv.value], form}
              \cup {[form EXCEPT !.port = PortNumber[text]] : text \in DOMAIN PortNumber}
      BY <3>1 DEF ParsePair, kv
    <3> QED BY <3>1, <3>2 DEF Forming, form
  <2> QED BY <2>3, <2>4, <2>6
<1>3. Seq(Seq(Bytes)) \subseteq T
  <2> HIDE DEF T
  <2> QED BY <1>1, <1>2, SeqInduction
<1> QED BY <1>3

\* A request whose headers went past their buffer is answered 400.
LEMMA TailRefused ==
    ASSUME NEW typed \in Typed, NEW size \in Nat, HDR_SIZE < size, NEW length \in Nat,
           NEW sent \in 0..Len(Encode(typed, BrowserFields))
    PROVE  ~Accepted(FormOf(Post(size, length, Encode(typed, BrowserFields), sent)))
<1> DEFINE left == size - HDR_SIZE
           body == Encode(typed, BrowserFields)
           post == Post(HDR_SIZE + left, length, body, sent)
           form == FormOf(post)
           n == ContentLength(post)
           unread == Unread(post)
           read == SubSeq(unread, 1, IF Len(unread) < n THEN Len(unread) ELSE n)
<1>2. HDR_SIZE \in Nat /\ BODY_SIZE \in Nat
  BY PortalAssumption
<1>3. left \in Nat \ {0} /\ HDR_SIZE + left = size
  BY <1>2
<1> HIDE DEF left
<1> SUFFICES ~Accepted(form)
  BY <1>3
<1>4. n \in Nat
  BY <1>2 DEF ContentLength, Post
<1>5. read \in Seq(Bytes) /\ Behind(read)
  <2> HIDE DEF n
  <2> QED BY <1>3, <1>4, TailBehind
<1>6. form = IF decode_url_encoded(read) = NONE THEN NONE ELSE parse_connect_form(decode_url_encoded(read))
  BY DEF FormOf
<1> HIDE DEF read, form
<1>7. CASE decode_url_encoded(read) = NONE
  BY <1>6, <1>7 DEF Accepted
<1>8. CASE decode_url_encoded(read) # NONE
  <2> DEFINE loop == Decoded[read]
             t == loop.text
  <2>1. loop.ok /\ NOT_UTF8 \notin ToSet(t) /\ decode_url_encoded(read) = t
    BY <1>8 DEF decode_url_encoded
  <2>2. Behind(t)
    BY <1>5, <2>1, TailDecoded DEF Behaved
  <2>3. t \in Seq(Bytes)
    <3>1. t \in Seq(Bytes \cup {NOT_UTF8})
      BY <1>5, DecodedSteps DEF Loops
    <3> HIDE DEF t
    <3>2. Len(t) \in Nat /\ t \in [1..Len(t) -> Bytes \cup {NOT_UTF8}] /\ DOMAIN t = 1..Len(t)
      BY <3>1, LenProperties
    <3>3. \A i \in 1..Len(t) : t[i] \in Bytes
      BY <2>1, <3>2 DEF ToSet
    <3>4. t \in [1..Len(t) -> Bytes]
      BY <3>2, <3>3
    <3> QED BY <3>2, <3>4, IsASeq
  <2> HIDE DEF t, loop
  <2>4. split[t] \in Seq(Seq(Bytes)) /\ \A i \in 1..Len(split[t]) : split[t][i] # <<>> => split[t][i][1] # "ssid"
    BY <2>2, <2>3, TailSplit, SplitSteps DEF Pieces
  <2>5. Parsed[split[t]].ssid = MISSING
    BY <2>4, NoSsid
  <2>6. form = HeldForm(Parsed[split[t]])
    BY <1>6, <1>8, <2>1 DEF parse_connect_form
  <2>7. form.ssid = MISSING
    BY <2>5, <2>6 DEF HeldForm, Held
  <2> QED BY <2>7 DEF Accepted
<1> QED BY <1>7, <1>8

--------------------------------------------------------------------------------
(* What a body that was broken off makes *)

\* What a sequence begins with.
Heads(s) == {SubSeq(s, 1, n) : n \in 0..Len(s)}

\* A beginning of a longer sequence is one of the shorter, or all of it.
LEMMA HeadsAppend ==
    ASSUME NEW S, NEW s \in Seq(S), NEW x \in S
    PROVE  /\ Heads(Append(s, x)) = Heads(s) \cup {Append(s, x)}
           /\ s \in Heads(s) /\ Heads(s) \subseteq Seq(S) /\ <<>> \in Heads(s) /\ Heads(<<>>) = {<<>>}
<1> DEFINE t == Append(s, x)
<1>1. /\ t \in Seq(S) /\ Len(t) = Len(s) + 1 /\ Len(s) \in Nat
      /\ \A i \in 1..Len(s) : t[i] = s[i]
  BY AppendProperties
<1> HIDE DEF t
<1>2. ASSUME NEW n \in 0..Len(s) PROVE SubSeq(t, 1, n) = SubSeq(s, 1, n) /\ n \in 0..Len(t)
  <2>0. n \in 0..Len(t) /\ \A i \in 1..n : i \in 1..Len(s)
    BY <1>1
  <2>1. /\ SubSeq(t, 1, n) \in Seq(S) /\ Len(SubSeq(t, 1, n)) = n
        /\ \A i \in 1..n : SubSeq(t, 1, n)[i] = t[i]
    BY <1>1, <2>0, Prefix
  <2>2. /\ SubSeq(s, 1, n) \in Seq(S) /\ Len(SubSeq(s, 1, n)) = n
        /\ \A i \in 1..n : SubSeq(s, 1, n)[i] = s[i]
    BY Prefix
  <2>3. SubSeq(t, 1, n) = SubSeq(s, 1, n)
    BY <1>1, <2>0, <2>1, <2>2, SeqEqual
  <2> QED BY <2>0, <2>3
<1>3. SubSeq(t, 1, Len(t)) = t /\ Len(t) \in 0..Len(t)
  BY <1>1, SubSeqFull
<1>4. \A n \in 0..Len(t) : n \in 0..Len(s) \/ n = Len(t)
  BY <1>1
<1>5. Heads(t) = Heads(s) \cup {t}
  BY <1>2, <1>3, <1>4 DEF Heads
<1>6. SubSeq(s, 1, Len(s)) = s /\ Len(s) \in 0..Len(s) /\ SubSeq(s, 1, 0) = <<>> /\ 0 \in 0..Len(s)
  BY <1>1, SubSeqFull, SubSeqEmpty
<1>7. Heads(s) \subseteq Seq(S)
  BY Prefix DEF Heads
<1>8. Heads(<<>>) = {<<>>}
  <2>1. SubSeq(<<>>, 1, 0) = <<>>
    BY SubSeqEmpty
  <2>2. Len(<<>>) = 0 /\ \A n : n \in 0..0 <=> n = 0
    OBVIOUS
  <2> QED BY <2>1, <2>2, Zenon DEF Heads
<1> QED BY <1>5, <1>6, <1>7, <1>8 DEF Heads, t

LEMMA HeadsTyped ==
    ASSUME NEW S, NEW s \in Seq(S)
    PROVE  s \in Heads(s) /\ Heads(s) \subseteq Seq(S) /\ <<>> \in Heads(s)
<1>1. Len(s) \in 0..Len(s) /\ 0 \in 0..Len(s)
  OBVIOUS
<1>2. SubSeq(s, 1, Len(s)) = s /\ SubSeq(s, 1, 0) = <<>>
  BY SubSeqFull, SubSeqEmpty
<1>3. Heads(s) \subseteq Seq(S)
  BY Prefix DEF Heads
<1> QED BY <1>1, <1>2, <1>3 DEF Heads

\* A beginning of two sequences ends in the first, or goes on in the second.
LEMMA HeadsConcat ==
    ASSUME NEW S, NEW s \in Seq(S), NEW t \in Seq(S), NEW h \in Heads(s \o t)
    PROVE  h \in Heads(s) \/ \E g \in Heads(t) : h = s \o g
<1> DEFINE T == {u \in Seq(S) : \A k \in Heads(s \o u) : k \in Heads(s) \/ \E g \in Heads(u) : k = s \o g}
<1>1. <<>> \in T
  <2>1. s \o <<>> = s /\ <<>> \in Seq(S)
    BY ConcatEmptySeq
  <2> QED BY <2>1
<1>2. ASSUME NEW u \in Seq(S), NEW x \in S, u \in T PROVE Append(u, x) \in T
  <2>1. s \o Append(u, x) = Append(s \o u, x) /\ s \o u \in Seq(S) /\ Append(u, x) \in Seq(S)
    BY Appending
  <2>2. Heads(Append(s \o u, x)) = Heads(s \o u) \cup {Append(s \o u, x)}
    BY <2>1, HeadsAppend
  <2>3. Heads(Append(u, x)) = Heads(u) \cup {Append(u, x)}
    BY HeadsAppend
  <2> QED BY <1>2, <2>1, <2>2, <2>3
<1>3. Seq(S) \subseteq T
  <2> HIDE DEF T
  <2> QED BY <1>1, <1>2, SeqInduction
<1> QED BY <1>3

LEMMA BytesHeads ==
    ASSUME NEW a \in Seq(Bytes), NEW b \in Seq(Bytes)
    PROVE  /\ \A d \in Seq(Bytes) : (a \o b) \o d = a \o (b \o d)
           /\ \A h \in Heads(a \o b) : h \in Heads(a) \/ \E g \in Heads(b) : h = a \o g
<1>1. ASSUME NEW d \in Seq(Bytes) PROVE (a \o b) \o d = a \o (b \o d)
  BY ConcatAssociative
<1>2. ASSUME NEW h \in Heads(a \o b) PROVE h \in Heads(a) \/ \E g \in Heads(b) : h = a \o g
  BY HeadsConcat
<1> QED BY <1>1, <1>2

\* A character of which only a part is sent leaves an escape open.
LEMMA CharHead ==
    ASSUME NEW s \in Seq(Bytes), NEW t \in Seq(Bytes), NEW c \in Chars, Clean(s, t), NEW g \in Heads(EncodeChar(c))
    PROVE  g = <<>> \/ g = EncodeChar(c) \/ Decoded[s \o g].escape # <<>>
<1>0. \A v \in Seq(Bytes), x \in Bytes : Heads(Append(v, x)) = Heads(v) \cup {Append(v, x)} /\ Heads(<<>>) = {<<>>}
  BY HeadsAppend
<1>1. ASSUME NEW x \in Bytes PROVE Heads(<<x>>) = {<<>>, <<x>>}
  <2>1. <<x>> = Append(<<>>, x) /\ <<>> \in Seq(Bytes)
    OBVIOUS
  <2>2. Heads(Append(<<>>, x)) = Heads(<<>>) \cup {Append(<<>>, x)} /\ Heads(<<>>) = {<<>>}
    BY <1>0, <2>1, Zenon
  <2> QED BY <2>1, <2>2
<1>2. CASE c = " " \/ c \notin DOMAIN Escaped
  <2>1. PICK x \in Bytes : EncodeChar(c) = <<x>>
    BY <1>2, Alphabet DEF EncodeChar
  <2>2. Heads(EncodeChar(c)) = {<<>>, <<x>>}
    BY <1>1, <2>1
  <2> QED BY <2>1, <2>2
<1>3. CASE c # " " /\ c \in DOMAIN Escaped
  <2> DEFINE d == Escaped[c][1]
             e == Escaped[c][2]
  <2>1. Escaped[c] = <<d, e>> /\ d \in Bytes /\ e \in Bytes /\ "%" \in Bytes
    BY <1>3, EscapeShape, Alphabet
  <2>2. /\ Decoded[Append(s, "%")].escape # <<>>
        /\ Decoded[Append(Append(s, "%"), d)].escape # <<>>
    BY <1>3, EscapeDecoded
  <2>3. EncodeChar(c) = <<"%">> \o <<d, e>>
    BY <1>3, <2>1 DEF EncodeChar
  <2> HIDE DEF d, e
  <2>4. /\ <<"%">> \o <<d, e>> = <<"%", d, e>> /\ <<"%", d>> = Append(<<"%">>, d)
        /\ <<"%", d, e>> = Append(<<"%", d>>, e) /\ <<"%">> \in Seq(Bytes) /\ <<"%", d>> \in Seq(Bytes)
    BY <2>1, Tuples
  <2>5. Heads(EncodeChar(c)) = {<<>>, <<"%">>, <<"%", d>>, EncodeChar(c)}
    <3>1. Heads(<<"%">>) = {<<>>, <<"%">>}
      BY <1>1, <2>1
    <3>2. Heads(Append(<<"%">>, d)) = Heads(<<"%">>) \cup {Append(<<"%">>, d)}
      BY <1>0, <2>1, <2>4, Zenon
    <3>3. Heads(Append(<<"%", d>>, e)) = Heads(<<"%", d>>) \cup {Append(<<"%", d>>, e)}
      BY <1>0, <2>1, <2>4, Zenon
    <3>4. Heads(<<"%", d>>) = {<<>>, <<"%">>, <<"%", d>>}
      BY <2>4, <3>1, <3>2
    <3> QED BY <2>3, <2>4, <3>3, <3>4
  <2>6. s \o <<"%">> = Append(s, "%") /\ s \o <<"%", d>> = Append(Append(s, "%"), d)
    <3>1. s \o <<"%">> = Append(s, "%") /\ s \o Append(<<"%">>, d) = Append(s \o <<"%">>, d)
      BY <2>1, <2>4, Appending
    <3> QED BY <2>4, <3>1
  <2> QED BY <2>2, <2>5, <2>6
<1> QED BY <1>2, <1>3

\* A text broken off is decoded as a beginning of it, unless it stops within an escape.
LEMMA TextHead ==
    ASSUME NEW text \in Seq(Chars), NEW s \in Seq(Bytes), NEW t \in Seq(Bytes), Clean(s, t),
           NEW g \in Heads(EncodeText[text])
    PROVE  Decoded[s \o g].escape # <<>> \/ \E u \in Heads(text) : Clean(s \o g, t \o u)
<1> DEFINE T == {v \in Seq(Chars) : \A k \in Heads(EncodeText[v]) :
                    Decoded[s \o k].escape # <<>> \/ \E u \in Heads(v) : Clean(s \o k, t \o u)}
<1>0. Chars \subseteq Bytes
  BY Alphabet
<1>1. <<>> \in T
  <2>1. EncodeText[<<>>] = <<>> /\ Heads(<<>>) = {<<>>} /\ <<>> \in Seq(Chars)
    <3>1. "%" \in Bytes
      BY Alphabet
    <3>2. <<>> \in Seq(Bytes) /\ <<>> \in Seq(Chars)
      OBVIOUS
    <3> QED BY <3>1, <3>2, EncodeTextSteps, HeadsAppend
  <2>2. s \o <<>> = s /\ t \o <<>> = t
    BY ConcatEmptySeq
  <2> QED BY <2>1, <2>2
<1>2. ASSUME NEW v \in Seq(Chars), NEW c \in Chars, v \in T PROVE Append(v, c) \in T
  <2> DEFINE E == EncodeText[v]
  <2>1. EncodeText[Append(v, c)] = E \o EncodeChar(c) /\ Append(v, c) \in Seq(Chars) /\ v \in Seq(Bytes)
        /\ c \in Bytes
    BY <1>0, EncodeTextSteps
  <2>2. EncodeChar(c) \in Seq(Bytes) /\ E \in Seq(Bytes)
    BY <2>1, EncodeCharTyped, EncodeTextSteps
  <2>3. Clean(s \o E, t \o v) /\ s \o E \in Seq(Bytes) /\ t \o v \in Seq(Bytes)
    <3>1. Clean(s \o E, t \o v)
      BY TextDecoded
    <3> HIDE DEF E
    <3> QED BY <2>1, <2>2, <3>1, ConcatProperties
  <2>4. Heads(Append(v, c)) = Heads(v) \cup {Append(v, c)} /\ v \in Heads(v)
    BY HeadsAppend
  <2>5. ASSUME NEW k \in Heads(EncodeText[Append(v, c)])
        PROVE  Decoded[s \o k].escape # <<>> \/ \E u \in Heads(Append(v, c)) : Clean(s \o k, t \o u)
    <3>1. CASE k \in Heads(E)
      BY <1>2, <2>4, <3>1
    <3>2. ASSUME NEW h \in Heads(EncodeChar(c)), k = E \o h
          PROVE  Decoded[s \o k].escape # <<>> \/ \E u \in Heads(Append(v, c)) : Clean(s \o k, t \o u)
      <4> HIDE DEF E, T
      <4>1. h \in Seq(Bytes)
        BY <2>2, HeadsTyped
      <4>2. s \o k = (s \o E) \o h
        <5>1. s \in Seq(Bytes) /\ E \in Seq(Bytes)
          BY <2>2
        <5> QED BY <3>2, <4>1, <5>1, BytesHeads, Zenon
      <4>3. h = <<>> \/ h = EncodeChar(c) \/ Decoded[(s \o E) \o h].escape # <<>>
        BY <2>3, CharHead
      <4>4. CASE h = <<>>
        <5>1. (s \o E) \o <<>> = s \o E
          BY <2>3, ConcatEmptySeq
        <5> QED BY <2>3, <2>4, <4>2, <4>4, <5>1
      <4>5. CASE h = EncodeChar(c)
        <5>1. Clean((s \o E) \o EncodeChar(c), Append(t \o v, c))
          BY <2>3, CharDecoded
        <5>2. Append(t \o v, c) = t \o Append(v, c)
          <6>1. \A a, b \in Seq(Bytes), x \in Bytes : a \o Append(b, x) = Append(a \o b, x)
            BY Appending
          <6> QED BY <2>1, <6>1, Zenon
        <5> QED BY <2>4, <4>2, <4>5, <5>1, <5>2
      <4> QED BY <4>2, <4>3, <4>4, <4>5
    <3>3. k \in Heads(E) \/ \E h \in Heads(EncodeChar(c)) : k = E \o h
      <4> HIDE DEF E, T
      <4>2. k \in Heads(E \o EncodeChar(c))
        BY <2>1, <2>5, Zenon
      <4> QED BY <2>2, <4>2, BytesHeads, Zenon
    <3> QED BY <3>1, <3>2, <3>3
  <2> QED BY <2>1, <2>5
<1>3. Seq(Chars) \subseteq T
  <2> HIDE DEF T
  <2> QED BY <1>1, <1>2, SeqInduction
<1> QED BY <1>3

\* A field after others is its text after its sign.
LEMMA JoinAppend ==
    ASSUME NEW before \in Seq(Bytes), NEW field \in FieldNames, NEW text \in Seq(Bytes)
    PROVE  JoinField(before, field, text) = Append(Append(Lead(before), field), "=") \o text
<1>1. field \in Bytes /\ "=" \in Bytes /\ "&" \in Bytes /\ text # MISSING
  BY Alphabet, PortalAssumption
<1>2. JoinField(before, field, text) = (Lead(before) \o <<field, "=">>) \o text
  BY <1>1, JoinShape
<1>3. Lead(before) \o <<field, "=">> = Append(Append(Lead(before), field), "=")
  BY <1>1, JoinShape
<1> QED BY <1>2, <1>3

\* A field broken off before its name, before its sign or within its text.
LEMMA FieldHead ==
    ASSUME NEW s \in Seq(Bytes), NEW t \in Seq(Bytes), Clean(s, t), s = <<>> <=> t = <<>>,
           NEW field \in FieldNames, NEW text \in Seq(Chars), NEW g \in Heads(JoinField(s, field, EncodeText[text]))
    PROVE  \/ g \in Heads(s) \/ Decoded[g].escape # <<>>
           \/ Clean(g, Lead(t)) \/ Clean(g, Append(Lead(t), field))
           \/ \E u \in Heads(text) : Clean(g, JoinField(t, field, u))
<1> DEFINE e == EncodeText[text]
           A == Append(Lead(s), field)
           B == Append(A, "=")
           C == Append(Append(Lead(t), field), "=")
<1>1. /\ Clean(Lead(s), Lead(t)) /\ Clean(A, Append(Lead(t), field)) /\ Clean(B, C)
      /\ Lead(s) \in Seq(Bytes) /\ Lead(t) \in Seq(Bytes) /\ A \in Seq(Bytes) /\ B \in Seq(Bytes) /\ C \in Seq(Bytes)
  BY NameDecoded
<1>2. e \in Seq(Bytes) /\ e # MISSING /\ field \in Bytes /\ "=" \in Bytes /\ "&" \in Bytes
  <2>1. e \in Seq(Bytes)
    BY TextDecoded
  <2> QED BY <2>1, Alphabet, PortalAssumption
<1>3. JoinField(s, field, e) = B \o e
  <2> HIDE DEF e
  <2> QED BY <1>2, JoinAppend, Zenon
<1>4. ASSUME NEW u \in Heads(text) PROVE JoinField(t, field, u) = C \o u
  <2>1. u \in Seq(Chars)
    BY HeadsTyped
  <2>2. u \in Seq(Bytes)
    BY <2>1, TextDecoded
  <2> QED BY <2>2, JoinAppend, Zenon
<1> HIDE DEF B, C
<1>5. g \in Heads(B) \/ \E h \in Heads(e) : g = B \o h
  <2> HIDE DEF e
  <2>1. g \in Heads(B \o e)
    BY <1>3 DEF e
  <2>2. B \in Seq(Bytes)
    BY <1>1
  <2>3. e \in Seq(Bytes)
    BY <1>2
  <2> QED BY <2>1, <2>2, <2>3, BytesHeads, Zenon
<1>6. ASSUME NEW h \in Heads(e), g = B \o h
      PROVE  Decoded[g].escape # <<>> \/ \E u \in Heads(text) : Clean(g, JoinField(t, field, u))
  <2>1. Decoded[B \o h].escape # <<>> \/ \E u \in Heads(text) : Clean(B \o h, C \o u)
    BY <1>1, TextHead
  <2> QED BY <1>4, <1>6, <2>1
<1>7. CASE g \in Heads(B)
  <2>1. Heads(B) = Heads(A) \cup {B} /\ Heads(A) = Heads(Lead(s)) \cup {A}
    <3> HIDE DEF A
    <3>1. Heads(B) = Heads(A) \cup {B}
      BY <1>1, <1>2, HeadsAppend DEF B
    <3>2. Heads(A) = Heads(Lead(s)) \cup {A}
      BY <1>1, <1>2, HeadsAppend DEF A
    <3> QED BY <3>1, <3>2
  <2>2. g = B => \E u \in Heads(text) : Clean(g, JoinField(t, field, u))
    <3>1. <<>> \in Heads(text)
      BY HeadsTyped
    <3>2. C \o <<>> = C
      BY <1>1, ConcatEmptySeq
    <3> QED BY <1>1, <1>4, <3>1, <3>2
  <2>3. g = A => Clean(g, Append(Lead(t), field))
    BY <1>1
  <2>4. g \in Heads(Lead(s)) => g \in Heads(s) \/ Clean(g, Lead(t))
    <3>1. Lead(s) = s \/ Lead(s) = Append(s, "&")
      BY DEF Lead
    <3>2. Heads(Append(s, "&")) = Heads(s) \cup {Append(s, "&")}
      BY <1>2, HeadsAppend
    <3> QED BY <1>1, <3>1, <3>2
  <2> QED BY <1>7, <2>1, <2>2, <2>3, <2>4
<1> QED BY <1>5, <1>6, <1>7

\* The form of the first fields, or of those before one that is broken off.
Came(typed, k, form) ==
    \/ \E j \in 0..k : form = FirstIn(typed, BrowserFields, j)
    \/ \E j \in 1..k : /\ typed[BrowserFields[j]] # MISSING
                       /\ \E u \in Heads(typed[BrowserFields[j]]) :
                             form = Filled(FirstIn(typed, BrowserFields, j - 1), BrowserFields[j], u)

\* A body broken off makes such a form, unless an escape is halved.
LEMMA BodyHead ==
    ASSUME NEW typed \in Typed, ~Ampersand(typed), NEW g \in Heads(Encode(typed, BrowserFields))
    PROVE  Decoded[g].escape # <<>> \/ \E v \in Seq(Bytes) : Clean(g, v) /\ Came(typed, 5, Parsed[split[v]])
<1> DEFINE J == Joined(EncodedTexts(typed))
           K == Joined(typed)
           o == BrowserFields
           Good(k, h) == Decoded[h].escape # <<>> \/ \E v \in Seq(Bytes) : Clean(h, v) /\ Came(typed, k, Parsed[split[v]])
           N == {k \in Nat : k <= 5 => \A h \in Heads(J[SubSeq(o, 1, k)]) : Good(k, h)}
<1>1. o \in Seq(FieldNames) /\ Len(o) = 5
  BY DEF BrowserFields, FieldNames
<1>2. /\ J[<<>>] = <<>>
      /\ \A x \in Seq(FieldNames), f \in FieldNames : J[Append(x, f)] = JoinField(J[x], f, EncodedTexts(typed)[f])
  <2>1. \A f \in FieldNames : EncodedTexts(typed)[f] \in Texts
    BY EncodedTyped
  <2> QED BY <2>1, JoinedSteps
<1>3. K[<<>>] = <<>>
  <2>1. \A f \in FieldNames : typed[f] \in Texts
    BY TypedTexts
  <2> QED BY <2>1, JoinedSteps
<1>4. ASSUME NEW x \in Seq(FieldNames)
      PROVE  /\ J[x] = Encode(typed, x) /\ J[x] \in Seq(Bytes) /\ K[x] \in Seq(Bytes) /\ Clean(J[x], K[x])
             /\ (J[x] = <<>> <=> K[x] = <<>>)
  <2>1. J[x] = Encode(typed, x)
    BY DEF Encode, EncodedTexts
  <2> HIDE DEF J
  <2> QED BY <2>1, BodyDecoded
<1>5. SubSeq(o, 1, 0) = <<>> /\ SubSeq(o, 1, 5) = o
  BY <1>1, SubSeqEmpty, SubSeqFull
<1> HIDE DEF J, K
<1>6. 0 \in N
  <2>1. Heads(J[SubSeq(o, 1, 0)]) = {<<>>}
    <3>1. "%" \in Bytes
      BY Alphabet
    <3>2. <<>> \in Seq(Bytes)
      OBVIOUS
    <3> QED BY <1>2, <3>2, <1>5, <3>1, HeadsAppend
  <2>2. Clean(<<>>, <<>>) /\ <<>> \in Seq(Bytes)
    <3>1. <<>> \in Seq(Bytes)
      OBVIOUS
    <3> QED BY <3>1, DecodedSteps DEF Clean
  <2>3. Parsed[split[<<>>]] = FirstIn(typed, BrowserFields, 0)
    BY <1>3, <1>5 DEF FirstIn, FormIn, K
  <2>4. Came(typed, 0, Parsed[split[<<>>]])
    BY <2>3 DEF Came
  <2> QED BY <2>1, <2>2, <2>4
<1>7. ASSUME NEW k \in Nat, k \in N PROVE k + 1 \in N
  <2> SUFFICES ASSUME k + 1 <= 5, NEW h \in Heads(J[SubSeq(o, 1, k + 1)])
               PROVE  Good(k + 1, h)
    OBVIOUS
  <2> DEFINE f == o[k + 1]
             x == SubSeq(o, 1, k)
             s == J[x]
             t == K[x]
             F == FirstIn(typed, BrowserFields, k)
  <2>1. k \in 0..Len(o) /\ k + 1 \in 1..Len(o) /\ k \in 0..4 /\ k <= 5
    BY <1>1
  <2>2. x \in Seq(FieldNames) /\ SubSeq(o, 1, k + 1) = Append(x, f)
    BY <1>1, <2>1, PrefixGrows
  <2>3. f \in FieldNames
    <3>1. o \in [1..Len(o) -> FieldNames]
      BY <1>1, LenProperties
    <3> QED BY <2>1, <3>1
  <2>4. \A i \in Heads(s) : Good(k, i)
    BY <1>7, <2>1
  <2>5. \A form : Came(typed, k, form) => Came(typed, k + 1, form)
    <3>1. \A j \in 0..k : j \in 0..k + 1
      OBVIOUS
    <3>2. \A j \in 1..k : j \in 1..k + 1
      OBVIOUS
    <3> QED BY <3>1, <3>2 DEF Came
  <2>6. \A i \in Heads(s) : Good(k + 1, i)
    BY <2>4, <2>5
  <2>7. s \in Seq(Bytes) /\ t \in Seq(Bytes) /\ Clean(s, t) /\ (s = <<>> <=> t = <<>>)
    BY <1>4, <2>2
  <2>8. J[SubSeq(o, 1, k + 1)] = JoinField(s, f, EncodedTexts(typed)[f])
    BY <1>2, <2>2, <2>3
  <2>9. F = Parsed[split[t]]
    BY DEF FirstIn, FormIn, K
  <2>10. EncodedTexts(typed)[f] = IF typed[f] = MISSING THEN MISSING ELSE EncodeText[typed[f]]
    BY <2>3, EncodedTyped
  <2> HIDE DEF N, s, t, x, F, Good
  <2>11. CASE typed[f] = MISSING
    <3>1. J[SubSeq(o, 1, k + 1)] = s
      BY <2>8, <2>10, <2>11 DEF JoinField
    <3> QED BY <2>6, <3>1
  <2>12. CASE typed[f] # MISSING
    <3> DEFINE text == typed[f]
    <3>1. text \in Seq(Chars) /\ "&" \notin ToSet(text)
      BY <2>3, <2>12, TypedTexts DEF Ampersand
    <3>2. h \in Heads(JoinField(s, f, EncodeText[text]))
      BY <2>8, <2>10, <2>12
    <3> HIDE DEF f, text
    <3>3. \/ h \in Heads(s) \/ Decoded[h].escape # <<>>
          \/ Clean(h, Lead(t)) \/ Clean(h, Append(Lead(t), f))
          \/ \E u \in Heads(text) : Clean(h, JoinField(t, f, u))
      BY <2>3, <2>7, <3>1, <3>2, FieldHead
    <3>4. ASSUME NEW u \in Heads(text) PROVE u \in Seq(Bytes \ {"&"}) /\ u \in Seq(Bytes)
      <4>1. u \in Seq(Bytes \ {"&"})
        BY <3>1, NoAmpersand DEF Heads
      <4> QED BY <4>1
    <3>5. <<>> \in Heads(text)
      BY <3>1, HeadsTyped
    <3>6. ASSUME NEW u \in Heads(text)
          PROVE  /\ Parsed[split[JoinField(t, f, u)]] = Filled(F, f, u)
                 /\ Parsed[split[Append(Lead(t), f)]] = Filled(F, f, <<>>)
                 /\ Parsed[split[Lead(t)]] = F
      BY <2>3, <2>7, <2>9, <3>4, FieldParsed
    <3>7. \A u \in Heads(text) : Came(typed, k + 1, Filled(F, f, u))
      <4>1. k + 1 \in 1..k + 1 /\ (k + 1) - 1 = k
        OBVIOUS
      <4> QED BY <2>12, <4>1 DEF Came, F, f, text
    <3>8. Came(typed, k + 1, F)
      <4>1. k \in 0..k + 1
        OBVIOUS
      <4> QED BY <4>1 DEF Came, F
    <3>9. /\ Lead(t) \in Seq(Bytes) /\ Append(Lead(t), f) \in Seq(Bytes)
          /\ \A u \in Heads(text) : JoinField(t, f, u) \in Seq(Bytes)
      <4>1. Lead(t) \in Seq(Bytes) /\ Append(Lead(t), f) \in Seq(Bytes)
        BY <2>3, <2>7, NameDecoded
      <4>2. \A u \in Heads(text) : JoinField(t, f, u) \in Seq(Bytes)
        BY <2>3, <2>7, <3>4, JoinFieldTyped DEF Texts
      <4> QED BY <4>1, <4>2
    <3>10. CASE Clean(h, Lead(t))
      BY <3>5, <3>6, <3>8, <3>9, <3>10 DEF Good
    <3>11. CASE Clean(h, Append(Lead(t), f))
      BY <3>5, <3>6, <3>7, <3>9, <3>11 DEF Good
    <3>12. ASSUME NEW u \in Heads(text), Clean(h, JoinField(t, f, u)) PROVE Good(k + 1, h)
      BY <3>6, <3>7, <3>9, <3>12 DEF Good
    <3> QED BY <2>6, <3>3, <3>10, <3>11, <3>12 DEF Good
  <2> QED BY <2>11, <2>12
<1>8. 5 \in N
  <2>1. Nat \subseteq N
    <3> HIDE DEF N
    <3> QED BY <1>6, <1>7, Induction
  <2> QED BY <2>1
<1>9. \A h \in Heads(J[o]) : Good(5, h)
  <2> HIDE DEF Good
  <2>1. 5 <= 5
    OBVIOUS
  <2> QED BY <1>5, <1>8, <2>1
<1> QED BY <1>1, <1>4, <1>9

\* A form of the first fields and the beginning of one is the form of a shortened one.
LEMMA CameShortened ==
    ASSUME NEW typed \in Typed, ~Ampersand(typed), NEW form, Came(typed, 5, form), form.ssid # MISSING
    PROVE  \E texts \in Shortenings(typed) : HeldForm(form) = Form(texts)
<1> DEFINE o == BrowserFields
           F(j) == FirstIn(typed, o, j)
           Size(j) == IF typed[o[j]] = MISSING THEN 0 ELSE Len(typed[o[j]])
           S(j, n) == Shortened(typed, j, n)
           W(j, n) == IF typed[o[j]] = MISSING THEN MISSING ELSE SubSeq(typed[o[j]], 1, n)
<1>1. /\ o \in Seq(FieldNames) /\ Len(o) = 5
      /\ o[1] = "ssid" /\ o[2] = "ssid_manual" /\ o[3] = "password" /\ o[4] = "mqtt_host" /\ o[5] = "mqtt_port"
  BY DEF BrowserFields, FieldNames
<1>2. F(0) = NoForm /\ \A j \in 0..4 : F(j + 1) = Filled(F(j), o[j + 1], typed[o[j + 1]])
  BY <1>1, FiveFields DEF Ampersand
<1>3. /\ F(1) = Filled(F(0), "ssid", typed["ssid"]) /\ F(2) = Filled(F(1), "ssid_manual", typed["ssid_manual"])
      /\ F(3) = Filled(F(2), "password", typed["password"])
      /\ F(4) = Filled(F(3), "mqtt_host", typed["mqtt_host"])
      /\ F(5) = Filled(F(4), "mqtt_port", typed["mqtt_port"])
  <2> HIDE DEF F, o
  <2>1. 0 + 1 = 1 /\ 1 + 1 = 2 /\ 2 + 1 = 3 /\ 3 + 1 = 4 /\ 4 + 1 = 5 /\ {0, 1, 2, 3, 4} \subseteq 0..4
    OBVIOUS
  <2> QED BY <1>1, <1>2, <2>1
<1>4. \E j \in 1..5 : \E n \in 0..Size(j) : form = Filled(F(j - 1), o[j], W(j, n))
  <2>1. ASSUME NEW j \in 1..5
        PROVE  \E n \in 0..Size(j) : W(j, n) = typed[o[j]]
    <3>1. typed[o[j]] \in Seq(Chars) \cup {MISSING}
      <4>1. o[j] \in FieldNames
        BY DEF BrowserFields, FieldNames
      <4> QED BY <4>1, TypedTexts
    <3>2. CASE typed[o[j]] = MISSING
      BY <3>2
    <3>3. CASE typed[o[j]] # MISSING
      <4>1. SubSeq(typed[o[j]], 1, Len(typed[o[j]])) = typed[o[j]] /\ Len(typed[o[j]]) \in 0..Len(typed[o[j]])
        BY <3>1, <3>3, SubSeqFull
      <4> QED BY <3>3, <4>1
    <3> QED BY <3>2, <3>3
  <2>2. ASSUME NEW j \in 0..5, form = F(j)
        PROVE  \E i \in 1..5 : \E n \in 0..Size(i) : form = Filled(F(i - 1), o[i], W(i, n))
    <3>1. j # 0
      BY <1>2, <2>2 DEF NoForm
    <3>2. j \in 1..5 /\ j - 1 \in 0..4 /\ (j - 1) + 1 = j
      BY <3>1
    <3>3. F(j) = Filled(F(j - 1), o[j], typed[o[j]])
      <4> HIDE DEF F, o
      <4> QED BY <1>2, <3>2
    <3>4. PICK n \in 0..Size(j) : W(j, n) = typed[o[j]]
      BY <2>1, <3>2
    <3> HIDE DEF F, o, W, Size
    <3> QED BY <2>2, <3>2, <3>3, <3>4
  <2>3. ASSUME NEW j \in 1..5, typed[o[j]] # MISSING, NEW u \in Heads(typed[o[j]]), form = Filled(F(j - 1), o[j], u)
        PROVE  \E n \in 0..Size(j) : form = Filled(F(j - 1), o[j], W(j, n))
    <3>1. PICK n \in 0..Len(typed[o[j]]) : u = SubSeq(typed[o[j]], 1, n)
      BY DEF Heads
    <3>2. n \in 0..Size(j) /\ W(j, n) = u
      BY <2>3, <3>1
    <3> HIDE DEF F, o, W, Size
    <3> QED BY <2>3, <3>2
  <2>4. \/ \E j \in 0..5 : form = F(j)
        \/ \E j \in 1..5 : /\ typed[o[j]] # MISSING
                           /\ \E u \in Heads(typed[o[j]]) : form = Filled(F(j - 1), o[j], u)
    BY DEF Came
  <2> HIDE DEF F, o, W, Size
  <2> QED BY <2>2, <2>3, <2>4
<1>5. PICK j \in 1..5 : \E n \in 0..Size(j) : form = Filled(F(j - 1), o[j], W(j, n))
  BY <1>4
<1>6. PICK n \in 0..Size(j) : form = Filled(F(j - 1), o[j], W(j, n))
  BY <1>5
<1> DEFINE texts == S(j, n)
           w == W(j, n)
<1>7. texts \in Shortenings(typed)
  BY DEF Shortenings
<1>8. \A p \in 1..5 : texts[o[p]] = IF p < j THEN typed[o[p]] ELSE IF p = j THEN w ELSE MISSING
  <2> SUFFICES ASSUME NEW p \in 1..5
               PROVE  texts[o[p]] = IF p < j THEN typed[o[p]] ELSE IF p = j THEN w ELSE MISSING
    OBVIOUS
  <2>1. o[p] \in FieldNames
    BY <1>1 DEF FieldNames
  <2>2. \A q \in 1..5 : o[q] = o[p] <=> q = p
    BY <1>1
  <2>3. (\E q \in 1..(j - 1) : o[q] = o[p]) <=> p < j
    <3>1. \A q \in 1..(j - 1) : q \in 1..5 /\ q < j
      OBVIOUS
    <3>2. p < j => p \in 1..(j - 1)
      OBVIOUS
    <3> QED BY <2>2, <3>1, <3>2
  <2>4. texts[o[p]] =
          IF \E q \in 1..(j - 1) : o[q] = o[p] THEN typed[o[p]]
          ELSE IF o[p] = o[j] /\ typed[o[p]] # MISSING THEN SubSeq(typed[o[p]], 1, n) ELSE MISSING
    BY <2>1 DEF Shortened
  <2>5. o[p] = o[j] <=> p = j
    BY <2>2
  <2> HIDE DEF texts, o
  <2> QED BY <2>3, <2>4, <2>5
<1>9. /\ texts["ssid"] = IF j = 1 THEN w ELSE typed["ssid"]
      /\ texts["password"] = IF 3 < j THEN typed["password"] ELSE IF j = 3 THEN w ELSE MISSING
      /\ texts["mqtt_host"] = IF 4 < j THEN typed["mqtt_host"] ELSE IF j = 4 THEN w ELSE MISSING
      /\ texts["mqtt_port"] = IF j = 5 THEN w ELSE MISSING
  <2> HIDE DEF texts, w, o
  <2>1. {1, 3, 4, 5} \subseteq 1..5
    OBVIOUS
  <2>2. /\ texts[o[1]] = IF 1 < j THEN typed[o[1]] ELSE IF 1 = j THEN w ELSE MISSING
        /\ texts[o[3]] = IF 3 < j THEN typed[o[3]] ELSE IF 3 = j THEN w ELSE MISSING
        /\ texts[o[4]] = IF 4 < j THEN typed[o[4]] ELSE IF 4 = j THEN w ELSE MISSING
        /\ texts[o[5]] = IF 5 < j THEN typed[o[5]] ELSE IF 5 = j THEN w ELSE MISSING
    BY <1>8, <2>1
  <2> QED BY <1>1, <2>2
<1>10. MISSING \notin DOMAIN PortNumber
  BY PortalAssumption
<1>11. form = Filled(F(j - 1), o[j], w)
  BY <1>6
<1> DEFINE host == texts["mqtt_host"]
           port == texts["mqtt_port"]
           made == [ssid |-> texts["ssid"], password |-> texts["password"],
                    host |-> IF host = MISSING THEN <<>> ELSE host,
                    port |-> IF port \in DOMAIN PortNumber THEN PortNumber[port] ELSE DEFAULT_PORT]
<1> HIDE DEF F, o, W, Size, S, texts, w
<1>12. CASE j = 1
  <2>1. form = Filled(NoForm, "ssid", w)
    BY <1>1, <1>2, <1>11, <1>12
  <2> QED BY <1>7, <1>9, <1>10, <1>12, <2>1 DEF Filled, NoForm, Form
<1>13. CASE j = 2
  <2>1. form = Filled(F(1), "ssid_manual", w)
    BY <1>1, <1>11, <1>13
  <2> QED BY <1>2, <1>3, <1>7, <1>9, <1>10, <1>13, <2>1 DEF Filled, NoForm, Form
<1>14. CASE j = 3
  <2>1. form = Filled(F(2), "password", w)
    BY <1>1, <1>11, <1>14
  <2> QED BY <1>2, <1>3, <1>7, <1>9, <1>10, <1>14, <2>1 DEF Filled, NoForm, Form
<1>15. CASE j = 4
  <2>1. form = Filled(F(3), "mqtt_host", w)
    BY <1>1, <1>11, <1>15
  <2> QED BY <1>2, <1>3, <1>7, <1>9, <1>10, <1>15, <2>1 DEF Filled, NoForm, Form
<1>16. CASE j = 5
  <2>1. form = Filled(F(4), "mqtt_port", w)
    BY <1>1, <1>11, <1>16
  <2> QED BY <1>2, <1>3, <1>7, <1>9, <1>10, <1>16, <2>1 DEF Filled, NoForm, Form
<1>17. j \in {1, 2, 3, 4, 5}
  OBVIOUS
<1> QED BY <1>12, <1>13, <1>14, <1>15, <1>16, <1>17

\* A request that is not refused is taken for one of its readings.
LEMMA RequestRead ==
    ASSUME NEW r \in Requests, ~Ampersand(r.typed), Accepted(FormOf(PostOf(r)))
    PROVE  r.size <= HDR_SIZE /\ \E texts \in Readings(r) : FormOf(PostOf(r)) = Form(texts)
<1> DEFINE typed == r.typed
           body == Encode(typed, BrowserFields)
<1>1. /\ typed \in Typed /\ r.size \in Nat /\ r.sent \in 0..Len(body) /\ r.length \in 0..Len(body)
      /\ (r.size <= HDR_SIZE => r.length = Len(body))
  BY RequestsAssumption
<1>2. body \in Seq(Bytes) /\ Len(body) \in Nat /\ HDR_SIZE \in Nat
  <2>1. body \in Seq(Bytes)
    BY <1>1, BodyFirst
  <2> HIDE DEF body
  <2>2. Len(body) \in Nat
    BY <2>1
  <2>3. HDR_SIZE \in Nat
    BY PortalAssumption
  <2> QED BY <2>1, <2>2, <2>3
<1>3. r.size <= HDR_SIZE
  <2> SUFFICES ASSUME HDR_SIZE < r.size PROVE FALSE
    BY <1>1, <1>2
  <2>1. r.length \in Nat
    BY <1>1
  <2>2. ~Accepted(FormOf(Post(r.size, r.length, body, r.sent)))
    BY <1>1, <2>1, TailRefused
  <2> QED BY <2>2 DEF PostOf
<1>4. PostOf(r) = Post(r.size, Len(body), body, r.sent)
  BY <1>1, <1>3 DEF PostOf
<1>5. CASE SentWhole(r)
  <2>1. r.sent = Len(body) /\ Len(body) <= BODY_SIZE
    BY <1>5 DEF SentWhole
  <2>2. PostOf(r) = WholePost(typed, BrowserFields, r.size)
    BY <1>4, <2>1 DEF WholePost
  <2>3. FormOf(PostOf(r)) \in {Form(typed), NONE}
    BY <1>1, <1>3, <2>1, <2>2, TypedUnderstood DEF Orders
  <2>4. FormOf(PostOf(r)) = Form(typed)
    BY <2>3 DEF Accepted
  <2> QED BY <1>3, <1>5, <2>4 DEF Readings
<1>6. CASE ~SentWhole(r)
  <2>1. PICK m \in 0..Len(body) : FormOf(PostOf(r)) = Made(SubSeq(body, 1, m))
    <3>1. body \in Seq(Bytes) /\ r.size \in Nat /\ r.size <= HDR_SIZE /\ r.sent \in 0..Len(body)
      BY <1>1, <1>2, <1>3
    <3> HIDE DEF body
    <3>2. \E n \in 0..Len(body) : FormOf(Post(r.size, Len(body), body, r.sent)) = Made(SubSeq(body, 1, n))
      BY <3>1, BodyRead
    <3> QED BY <1>4, <3>2
  <2> DEFINE read == SubSeq(body, 1, m)
  <2>2. read \in Heads(body)
    BY DEF Heads
  <2>3. Decoded[read].escape # <<>> \/ \E v \in Seq(Bytes) : Clean(read, v) /\ Came(typed, 5, Parsed[split[v]])
    BY <1>1, <2>2, BodyHead
  <2> HIDE DEF read
  <2>4. decode_url_encoded(read) # NONE /\ FormOf(PostOf(r)) = parse_connect_form(decode_url_encoded(read))
    BY <2>1 DEF Accepted, Made, read
  <2>5. Decoded[read].escape = <<>>
    BY <2>4 DEF decode_url_encoded
  <2>6. PICK v \in Seq(Bytes) : Clean(read, v) /\ Came(typed, 5, Parsed[split[v]])
    BY <2>3, <2>5
  <2>7. decode_url_encoded(read) = v
    BY <2>4, <2>6 DEF decode_url_encoded, Clean
  <2>8. FormOf(PostOf(r)) = HeldForm(Parsed[split[v]])
    BY <2>4, <2>7 DEF parse_connect_form
  <2>9. Parsed[split[v]].ssid # MISSING
    BY <2>8 DEF Accepted, HeldForm, Held
  <2>10. PICK texts \in Shortenings(typed) : HeldForm(Parsed[split[v]]) = Form(texts)
    BY <1>1, <2>6, <2>9, CameShortened
  <2> QED BY <1>3, <1>6, <2>8, <2>10 DEF Readings
<1> QED BY <1>5, <1>6

--------------------------------------------------------------------------------
(* The property *)

\* The credentials under test are what a request can be taken to hold.
CandidateSent == candidate # NONE => candidate \in Testable

\* TestedAsSent (handle_http_request, decode_url_encoded and parse_connect_form): for
\* every alphabet, every form a user fills in, all sizes of the buffers and a client
\* that stops anywhere, a body that fits is understood as it was typed, one that is
\* cut as its fields before the cut and the beginning of the next, and what is left of
\* headers is refused; nothing else is tested.
THEOREM TestedAlwaysAsSent == ProvisioningSpec => []TestedAsSent
<1>1. Understood
  <2> SUFFICES ASSUME NEW typed \in Typed, NEW order \in Orders, Fits(typed, order)
               PROVE  FormOf(WholePost(typed, order, HDR_SIZE)) = Form(typed)
    BY DEF Understood
  <2>1. HDR_SIZE \in Nat
    BY PortalAssumption
  <2>2. HDR_SIZE <= HDR_SIZE
    BY <2>1
  <2> QED BY <2>1, <2>2, TypedUnderstood DEF Fits
<1>2. SentUnderstood
  BY RequestRead DEF SentUnderstood
<1>3. ProvisioningInit => CandidateSent
  BY DEF ProvisioningInit, CandidateSent
<1>4. CandidateSent /\ [ProvisioningNext]_vars => CandidateSent'
  <2> SUFFICES ASSUME CandidateSent, [ProvisioningNext]_vars PROVE CandidateSent'
    OBVIOUS
  <2>0. Testable' = Testable
    OBVIOUS
  <2>1. ASSUME candidate' \in {NONE, candidate} PROVE CandidateSent'
    BY <2>0, <2>1 DEF CandidateSent
  <2>2. CASE LedTask \/ Tick \/ DeviceLock \/ UNCHANGED vars
    BY <2>1, <2>2 DEF LedTask, Tick, DeviceLock, vars, deviceVars
  <2>3. CASE FactoryReset \/ FactoryErase \/ BootStation \/ BootPortal \/ MacRead
    BY <2>1, <2>3 DEF FactoryReset, FactoryErase, BootStation, BootPortal, MacRead, Restarted
  <2>4. CASE ApStarted \/ StackUp \/ ApClosed \/ JoinTimeout \/ JoinOk \/ JoinFail
    BY <2>1, <2>4 DEF ApStarted, StackUp, ApClosed, JoinTimeout, JoinOk, JoinFail
  <2>5. CASE SaveOk \/ SaveFail \/ ApRestarted \/ WatchdogReset
    BY <2>1, <2>5 DEF SaveOk, SaveFail, ApRestarted, WatchdogReset, Restarted
  <2>6. CASE GetForm \/ ScanDone \/ PowerCut
    BY <2>1, <2>6 DEF GetForm, ScanDone, PowerCut, Restarted
  <2>7. ASSUME NEW form \in Forms, PostForm(form) PROVE CandidateSent'
    <3>1. candidate' = Submitted(form) /\ MISSING \notin {form.ssid, form.password}
      BY <2>7 DEF PostForm
    <3>2. form # NONE
      BY PostsAssumption
    <3>3. PICK r \in Requests : form = FormOf(PostOf(r))
      BY PostsAssumption
    <3>4. Accepted(FormOf(PostOf(r)))
      BY <3>1, <3>2, <3>3 DEF Accepted
    <3>5. CASE Ampersand(r.typed)
      <4>1. candidate' = Submitted(FormOf(PostOf(r)))
        BY <3>1, <3>3
      <4>2. Submitted(FormOf(PostOf(r))) \in Testable
        BY <3>4, <3>5 DEF Testable
      <4> QED BY <2>0, <4>1, <4>2 DEF CandidateSent
    <3>6. CASE ~Ampersand(r.typed)
      <4>1. PICK texts \in Readings(r) : FormOf(PostOf(r)) = Form(texts)
        BY <3>4, <3>6, RequestRead
      <4>2. candidate' \in {Submitted(Form(x)) : x \in Readings(r)}
        BY <3>1, <3>3, <4>1
      <4> QED BY <2>0, <3>6, <4>2 DEF CandidateSent, Testable
    <3> QED BY <3>5, <3>6
  <2> QED
    BY <2>2, <2>3, <2>4, <2>5, <2>6, <2>7 DEF ProvisioningNext, DeviceStep, Environment
<1>5. CandidateSent => TestedAsSent
  BY <1>1, <1>2 DEF TestedAsSent, CandidateSent
<1> QED BY <1>3, <1>4, <1>5, PTL DEF ProvisioningSpec
================================================================================
