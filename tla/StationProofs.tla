------------------------------ MODULE StationProofs ------------------------------
(***************************************************************************)
(* Proofs about Station, for every tick that divides its durations.         *)
(* StationInv is the inductive invariant: TaskInv, the two tasks and the     *)
(* mutex between them, and OutageInv, the budget of an outage.  FollowInv    *)
(* adds how far the LED may be behind the latest signal.                     *)
(***************************************************************************)
EXTENDS Station, SequenceTheorems, TLAPS

\* The states that sta_mode and tcp_server show, and the durations of their patterns.
StationState == {"Connecting", "Connected", "Reconnecting", "Error", "Rebooting"}
StationTimes == {50, 100, 250, 300, 2000}

Flash(T) == BOOLEAN \X T

\* Every step of the patterns of S lasts one of T.
Timed(S, T) == \A s \in S : pattern[s].steps \in Seq(Flash(T))

\* The LED task's variables, when the others signal states of S.
LedTyped(S) ==
    /\ led_signal \in S \cup {NONE} /\ playing \in S \cup {NONE}
    /\ led_pc \in {"wait", "lock", "set", "sleep"} /\ light \in BOOLEAN
    /\ led_pc # "wait" => playing # NONE
    /\ holder \in {NONE, "led", "station"}
    /\ (holder = "led") <=> (led_pc = "set")

--------------------------------------------------------------------------------
(* The patterns *)

\* A run of flashes is a sequence of steps.
LEMMA FlashesTyped ==
    ASSUME NEW T, NEW n \in Nat, NEW on \in T, NEW off \in T
    PROVE  Flashes(n, on, off) \in Seq(Flash(T))
<1> DEFINE f == [i \in 1..2 * n |-> IF i % 2 = 1 THEN <<TRUE, on>> ELSE <<FALSE, off>>]
<1>1. \A i \in 1..2 * n : f[i] \in Flash(T)
  BY DEF Flash
<1>2. f \in [1..2 * n -> Flash(T)]
  BY <1>1
<1>3. 2 * n \in Nat
  OBVIOUS
<1>4. f \in Seq(Flash(T))
  <2> HIDE DEF f
  <2> QED BY <1>2, <1>3, IsASeq
<1> QED BY <1>4 DEF Flashes

\* The runs of the patterns.
LEMMA RunsTyped ==
    ASSUME NEW T, NEW on \in T, NEW off \in T
    PROVE  /\ Flashes(1, on, off) \in Seq(Flash(T)) /\ Flashes(2, on, off) \in Seq(Flash(T))
           /\ Flashes(3, on, off) \in Seq(Flash(T)) /\ Flashes(5, on, off) \in Seq(Flash(T))
           /\ Flashes(10, on, off) \in Seq(Flash(T))
<1>1. \A n \in Nat : Flashes(n, on, off) \in Seq(Flash(T))
  BY FlashesTyped
<1>2. \A n \in {1, 2, 3, 5, 10} : n \in Nat
  OBVIOUS
<1> QED BY <1>1, <1>2

\* So is a gap, and so is a run and the gap after it.
LEMMA OffTyped ==
    ASSUME NEW T, NEW ms \in T, NEW run \in Seq(Flash(T))
    PROVE  run \o Off(ms) \in Seq(Flash(T))
<1>1. \A x \in Flash(T) : <<x>> \in Seq(Flash(T))
  OBVIOUS
<1>2. <<FALSE, ms>> \in Flash(T)
  BY DEF Flash
<1>3. Off(ms) \in Seq(Flash(T))
  BY <1>1, <1>2, Zenon DEF Off
<1> QED BY <1>3, ConcatProperties

\* The patterns of sta_mode and tcp_server.
LEMMA StationTimed == Timed(StationState, StationTimes)
<1> DEFINE T == StationTimes
<1>1. 50 \in T /\ 100 \in T /\ 250 \in T /\ 300 \in T /\ 2000 \in T
  BY DEF StationTimes
<1> HIDE DEF T
<1>2. /\ Flashes(1, 100, 100) \in Seq(Flash(T)) /\ Flashes(1, 250, 250) \in Seq(Flash(T))
      /\ Flashes(10, 50, 50) \in Seq(Flash(T))
  BY <1>1, RunsTyped
<1>3. \A on, gap \in T : Letter(on, gap) \in Seq(Flash(T))
  <2> SUFFICES ASSUME NEW on \in T, NEW gap \in T PROVE Letter(on, gap) \in Seq(Flash(T))
    OBVIOUS
  <2>1. Flashes(2, on, 100) \in Seq(Flash(T)) /\ Flashes(1, on, gap) \in Seq(Flash(T))
    BY <1>1, RunsTyped
  <2> QED BY <2>1, ConcatProperties DEF Letter
<1>4. SOS_TIMING \in Seq(Flash(T))
  <2>1. Letter(100, 300) \in Seq(Flash(T)) /\ Letter(300, 300) \in Seq(Flash(T))
        /\ Letter(100, 2000) \in Seq(Flash(T))
    BY <1>1, <1>3
  <2>2. Letter(100, 300) \o Letter(300, 300) \in Seq(Flash(T))
    BY <2>1, ConcatProperties
  <2> QED BY <2>1, <2>2, ConcatProperties DEF SOS_TIMING
<1>5. /\ pattern["Connecting"].steps = Flashes(1, 100, 100)
      /\ pattern["Connected"].steps = <<>>
      /\ pattern["Reconnecting"].steps = Flashes(1, 250, 250)
      /\ pattern["Error"].steps = SOS_TIMING
      /\ pattern["Rebooting"].steps = Flashes(10, 50, 50)
  BY DEF pattern, Repeat, OneShot, Solid
<1>6. <<>> \in Seq(Flash(T))
  OBVIOUS
<1>7. pattern["Connected"].steps \in Seq(Flash(T)) /\ pattern["Error"].steps \in Seq(Flash(T))
  BY <1>4, <1>5, <1>6
<1>8. /\ pattern["Connecting"].steps \in Seq(Flash(T)) /\ pattern["Rebooting"].steps \in Seq(Flash(T))
      /\ pattern["Reconnecting"].steps \in Seq(Flash(T))
  BY <1>2, <1>5
<1>9. \A s \in StationState : pattern[s].steps \in Seq(Flash(T))
  BY <1>7, <1>8 DEF StationState
<1> QED BY <1>9 DEF Timed, T

--------------------------------------------------------------------------------
(* The task *)

\* A step of led_task keeps its types, takes and releases the mutex for itself only,
\* and sleeps for a duration of the pattern.
LEMMA LedStepTyped ==
    ASSUME NEW S, NEW T, Timed(S, T), NONE \notin S, NONE \notin {"led", "station"},
           LedTyped(S), LedStep
    PROVE  /\ LedTyped(S)'
           /\ sleep' \in T \cup {sleep}
           /\ (holder' = "station") <=> (holder = "station")
<1>1. CASE LedReceive
  BY <1>1 DEF LedReceive, LedTyped
<1>2. CASE LedLock
  BY <1>2 DEF LedLock, LedTyped
<1>3. CASE LedSet
  <2>1. /\ led_pc = "set" /\ holder = "led" /\ holder' = NONE /\ playing \in S
        /\ UNCHANGED <<led_signal, playing>>
    BY <1>3 DEF LedSet, LedTyped
  <2>2. CASE step \in DOMAIN Steps
    <3>1. Steps \in Seq(Flash(T))
      BY <2>1 DEF Steps, Timed
    <3>2. Steps[step] \in Flash(T)
      BY <2>2, <3>1
    <3>3. light' = Steps[step][1] /\ sleep' = Steps[step][2] /\ led_pc' = "sleep"
      BY <1>3, <2>2 DEF LedSet
    <3> QED BY <2>1, <3>2, <3>3 DEF LedTyped, Flash
  <2>3. CASE step \notin DOMAIN Steps
    <3>1. light' \in BOOLEAN /\ led_pc' = "wait" /\ sleep' = sleep
      BY <1>3, <2>3 DEF LedSet
    <3> QED BY <2>1, <3>1 DEF LedTyped
  <2> QED BY <2>2, <2>3
<1>4. CASE LedWake
  <2>1. /\ led_pc = "sleep" /\ led_pc' \in {"lock", "wait"}
        /\ UNCHANGED <<led_signal, holder, playing, sleep, light>>
    BY <1>4 DEF LedWake
  <2> QED BY <2>1 DEF LedTyped
<1> QED BY <1>1, <1>2, <1>3, <1>4 DEF LedStep

--------------------------------------------------------------------------------
(* Time in ticks *)

\* A whole number of ticks of t ms.
Whole(d, t) == d \in Nat /\ \E k \in Nat : d = k * t

\* A tick less is a whole number of ticks again.
LEMMA WholeTick ==
    ASSUME NEW t \in Nat \ {0}, NEW d, Whole(d, t)
    PROVE  Whole(IF d > 0 THEN d - t ELSE 0, t)
<1>1. PICK k \in Nat : d = k * t
  BY DEF Whole
<1>2. CASE d > 0
  <2>1. k # 0
    BY <1>1, <1>2
  <2>2. k - 1 \in Nat
    BY <2>1
  <2>3. d - t = (k - 1) * t
    BY <1>1
  <2>4. (k - 1) * t \in Nat
    BY <2>2
  <2> QED BY <1>2, <2>2, <2>3, <2>4 DEF Whole
<1>3. CASE ~(d > 0)
  BY <1>3 DEF Whole
<1> QED BY <1>2, <1>3

\* The multiples of a multiple.
LEMMA WholeMultiple ==
    ASSUME NEW t \in Nat \ {0}, NEW n \in Nat, NEW m \in Nat
    PROVE  Whole(m * (n * t), t)
<1>1. m * n \in Nat /\ m * (n * t) = (m * n) * t /\ m * (n * t) \in Nat
  OBVIOUS
<1> QED BY <1>1 DEF Whole

--------------------------------------------------------------------------------
(* The station's task and its outages *)

\* The station's task: who holds the LED's mutex, whole ticks, and the power mode of each
\* phase.
TaskInv ==
    /\ LedTyped(StationState)
    /\ holder = "station" => InCall
    /\ Whole(sleep, TICK) /\ Whole(timer, TICK)
    /\ age \in Nat
    /\ pm \in {"default", "none", "power_save"}
    /\ pc = "serve" => pm = "none"
    /\ pc \in {"accept", "backoff", "sos"} => pm = "power_save"

\* An outage is n failures old: their backoffs were slept, and counted, and the
\* next one is counted before it is slept.  No counter reaches its limit.
Outage(n) ==
    /\ n \in 0..12
    /\ reconnect_attempt = n /\ slept = Scheduled(n)
    /\ total_offline_secs =
          IF pc \in {"backoff", "sos"} THEN Scheduled(n + 1) ELSE Scheduled(n)
    /\ pc = "sos" => total_offline_secs >= 600
    /\ pc # "sos" => total_offline_secs < 600

OutageInv == \E n \in 0..12 : Outage(n)

\* Assumptions on TICK and NONE in the form the proofs use.
LEMMA Assumptions ==
    /\ TICK \in Nat \ {0}
    /\ NONE \notin {"led", "station"} /\ NONE \notin StationState
    /\ StationState \subseteq LedState
<1>1. NONE \notin LedState /\ StationState \subseteq LedState
  BY StationAssumption DEF StationState, LedState, pattern
<1> QED BY <1>1, StationAssumption

\* The durations are whole numbers of ticks.
LEMMA Durations ==
    /\ \A t \in StationTimes : Whole(t, TICK)
    /\ \A m \in Nat : Whole(m * 50, TICK)
<1>1. PICK n \in 1..50 : n * TICK = 50
  BY StationAssumption
<1>2. n \in Nat /\ TICK \in Nat \ {0}
  BY <1>1, Assumptions
<1>3. \A m \in Nat : Whole(m * 50, TICK)
  <2> SUFFICES ASSUME NEW m \in Nat PROVE Whole(m * 50, TICK)
    OBVIOUS
  <2> QED BY <1>1, <1>2, WholeMultiple
<1>4. ASSUME NEW t \in StationTimes PROVE \E m \in Nat : t = m * 50
  <2>1. t \in {1 * 50, 2 * 50, 5 * 50, 6 * 50, 40 * 50}
    BY DEF StationTimes
  <2> QED BY <2>1
<1> QED BY <1>3, <1>4

\* A signal, as far as TaskInv goes.
LEMMA SignalTyped ==
    ASSUME TaskInv, NEW s \in StationState, led_signal' = s, UNCHANGED <<ledTask, sleep>>,
           holder' = holder \/ (holder = NONE /\ holder' = "station")
             \/ (holder = "station" /\ holder' = NONE)
    PROVE  LedTyped(StationState)' /\ Whole(sleep, TICK)'
<1>1. UNCHANGED <<led_pc, playing, step, sleep, light>>
  BY DEF ledTask
<1> QED BY <1>1, Assumptions DEF TaskInv, LedTyped, Whole

\* A step without a signal.
LEMMA QuietTyped ==
    ASSUME TaskInv, UNCHANGED <<led_signal, ledTask>>,
           holder' = holder \/ (holder = NONE /\ holder' = "station")
             \/ (holder = "station" /\ holder' = NONE)
    PROVE  LedTyped(StationState)' /\ Whole(sleep, TICK)'
<1>1. UNCHANGED <<led_pc, playing, step, sleep, light>>
  BY DEF ledTask
<1> QED BY <1>1, Assumptions DEF TaskInv, LedTyped, Whole

\* Every step keeps TaskInv.
LEMMA TaskKept ==
    ASSUME TaskInv, [StationNext]_vars
    PROVE  TaskInv'
<1> USE Assumptions
<1>1. /\ \A p : Call(p) => pc' = p /\ (holder' = holder \/ (holder = NONE /\ holder' = "station"))
      /\ \A s : SignalLed(s) => led_signal' = s /\ age' = 0
  BY DEF Call, SignalLed
<1>2. CASE Boot \/ RetryJoin
  <2>1. /\ led_signal' = "Connecting" /\ pc' = "joining" /\ age' = 0
        /\ holder' = holder \/ (holder = NONE /\ holder' = "station")
        /\ UNCHANGED <<ledTask, timer, pm>>
    BY <1>1, <1>2 DEF Boot, RetryJoin
  <2>2. LedTyped(StationState)' /\ Whole(sleep, TICK)'
    BY <2>1, SignalTyped DEF StationState, ledTask
  <2> QED BY <2>1, <2>2 DEF TaskInv, InCall, Whole
<1>3. CASE DhcpUp \/ AcceptOk \/ ClientGone
  <2>1. /\ pc' \in {"pm_save", "pm_none"}
        /\ holder' = holder \/ (holder = NONE /\ holder' = "station")
        /\ UNCHANGED <<led_signal, ledTask, timer, pm, age>>
    BY <1>1, <1>3 DEF DhcpUp, AcceptOk, ClientGone
  <2>2. LedTyped(StationState)' /\ Whole(sleep, TICK)'
    BY <2>1, QuietTyped
  <2> QED BY <2>1, <2>2 DEF TaskInv, InCall, Whole
<1>4. CASE StationLock
  <2>1. /\ holder = NONE /\ holder' = "station" /\ InCall
        /\ UNCHANGED <<led_signal, ledTask, pc, timer, pm, age>>
    BY <1>4 DEF StationLock, stationVars
  <2>2. LedTyped(StationState)' /\ Whole(sleep, TICK)'
    BY <2>1, QuietTyped
  <2> QED BY <2>1, <2>2 DEF TaskInv, InCall, Whole
<1>5. CASE JoinOk \/ JoinFail
  <2>1. /\ holder = "station" /\ holder' = NONE /\ pc' \in {"dhcp", "join_retry"} /\ age' = 0
        /\ timer' = timer \/ timer' = 60 * 50
        /\ UNCHANGED <<led_signal, ledTask, pm>>
    BY <1>5 DEF JoinOk, JoinFail
  <2>2. LedTyped(StationState)' /\ Whole(sleep, TICK)'
    BY <2>1, QuietTyped
  <2>3. Whole(timer, TICK)'
    BY <2>1, Durations DEF TaskInv, Whole
  <2> QED BY <2>1, <2>2, <2>3 DEF TaskInv
<1>6. CASE PowerSave
  <2>1. /\ holder = "station" /\ holder' = NONE /\ pc' = "accept" /\ age' = 0
        /\ led_signal' = "Connected" /\ pm' = "power_save"
        /\ UNCHANGED <<ledTask, timer>>
    BY <1>1, <1>6 DEF PowerSave, Listen
  <2>2. LedTyped(StationState)' /\ Whole(sleep, TICK)'
    BY <2>1, SignalTyped DEF StationState, ledTask
  <2> QED BY <2>1, <2>2 DEF TaskInv, Whole
<1>7. CASE Serve
  <2>1. /\ holder = "station" /\ holder' = NONE /\ pc' = "serve" /\ pm' = "none"
        /\ UNCHANGED <<led_signal, ledTask, timer, age>>
    BY <1>7 DEF Serve
  <2>2. LedTyped(StationState)' /\ Whole(sleep, TICK)'
    BY <2>1, QuietTyped
  <2> QED BY <2>1, <2>2 DEF TaskInv, Whole
<1>8. CASE RebootRequested \/ SosAgain \/ BackoffOver
  <2>0. holder # "station"
    <3>1. pc \in {"serve", "sos", "backoff"}
      BY <1>8 DEF RebootRequested, SosAgain, BackoffOver
    <3> QED BY <3>1 DEF TaskInv, InCall
  <2>1. /\ led_signal' \in StationState /\ age' = 0
        /\ pc' \in {"rebooting", "sos", "accept"}
        /\ pc' \in {"sos", "accept"} => pc \in {"sos", "backoff"}
        /\ timer' = 13 * 50 \/ timer' = 600 * 50 \/ timer' = timer
        /\ UNCHANGED <<holder, ledTask, pm>>
    <3>1. CASE RebootRequested
      BY <1>1, <3>1 DEF RebootRequested, StationState
    <3>2. CASE SosAgain
      BY <1>1, <3>2 DEF SosAgain, StationState
    <3>3. CASE BackoffOver
      BY <1>1, <3>3 DEF BackoffOver, Listen, StationState
    <3> QED BY <1>8, <3>1, <3>2, <3>3
  <2>2. LedTyped(StationState)' /\ Whole(sleep, TICK)'
    BY <2>1, SignalTyped DEF ledTask
  <2>3. Whole(timer, TICK)'
    <3>1. Whole(13 * 50, TICK) /\ Whole(600 * 50, TICK)
      BY Durations
    <3>2. Whole(timer, TICK)
      BY DEF TaskInv
    <3>3. Whole(timer', TICK)
      BY <2>1, <3>1, <3>2
    <3> QED BY <3>3 DEF Whole
  <2> QED BY <2>0, <2>1, <2>2, <2>3 DEF TaskInv
<1>9. CASE AcceptError
  <2>1. /\ led_signal' \in StationState /\ age' = 0 /\ pc = "accept" /\ pc' \in {"sos", "backoff"}
        /\ \/ timer' = 600 * 50
           \/ timer' = 1000 * backoff_duration(reconnect_attempt)
        /\ UNCHANGED <<holder, ledTask, pm>>
    BY <1>1, <1>9 DEF AcceptError, StationState
  <2>2. LedTyped(StationState)' /\ Whole(sleep, TICK)'
    BY <2>1, SignalTyped DEF ledTask
  <2>3. timer' \in {100 * 50, 200 * 50, 400 * 50, 800 * 50, 1200 * 50, 600 * 50}
    BY <2>1 DEF backoff_duration
  <2>4. Whole(timer, TICK)'
    <3>1. /\ Whole(100 * 50, TICK) /\ Whole(200 * 50, TICK) /\ Whole(400 * 50, TICK)
          /\ Whole(800 * 50, TICK) /\ Whole(1200 * 50, TICK) /\ Whole(600 * 50, TICK)
      BY Durations
    <3> QED BY <2>3, <3>1 DEF Whole
  <2> QED BY <2>1, <2>2, <2>4 DEF TaskInv, InCall
<1>10. CASE ResetToUsbBoot
  <2>1. pc' = "off" /\ pc = "rebooting" /\ UNCHANGED <<ledVars, timer, pm, age>>
    BY <1>10 DEF ResetToUsbBoot
  <2> QED BY <2>1 DEF TaskInv, InCall, LedTyped, ledVars, Whole
<1>11. CASE LedTask
  <2>1. LedStep /\ UNCHANGED <<pc, timer, pm, age>>
    BY <1>11 DEF LedTask, stationVars
  <2>2. LedTyped(StationState)' /\ sleep' \in StationTimes \cup {sleep} /\ (holder' = "station" <=> holder = "station")
    BY <2>1, LedStepTyped, StationTimed DEF TaskInv
  <2>3. Whole(sleep, TICK)'
    BY <2>2, Durations DEF TaskInv, Whole
  <2> QED BY <2>1, <2>2, <2>3 DEF TaskInv, InCall, Whole
<1>12. CASE Tick
  <2>1. /\ sleep' = IF sleep > 0 THEN sleep - TICK ELSE 0
        /\ timer' = IF timer > 0 THEN timer - TICK ELSE 0
        /\ age' = Least(age + TICK, LATENCY + TICK)
        /\ UNCHANGED <<led_signal, holder, led_pc, playing, step, light, pc, pm>>
    BY <1>12 DEF Tick
  <2>2. Whole(sleep, TICK)' /\ Whole(timer, TICK)'
    BY <2>1, WholeTick DEF TaskInv, Whole
  <2>3. age' \in Nat
    BY <2>1 DEF TaskInv, Least, LATENCY
  <2>4. LedTyped(StationState)'
    BY <2>1 DEF TaskInv, LedTyped
  <2> QED BY <2>1, <2>2, <2>3, <2>4 DEF TaskInv, InCall
<1>13. CASE UNCHANGED vars
  BY <1>13 DEF vars, ledVars, stationVars, TaskInv, InCall, LedTyped, Whole
<1> QED BY <1>2, <1>3, <1>4, <1>5, <1>6, <1>7, <1>8, <1>9, <1>10, <1>11, <1>12, <1>13, Zenon
        DEF StationNext, StationStep, Network

--------------------------------------------------------------------------------
(* The budget of an outage *)

\* Steps that leave the counters alone, and the outage where it was.
LEMMA QuietOutage ==
    ASSUME OutageInv, UNCHANGED <<reconnect_attempt, total_offline_secs, slept>>,
           pc' = pc \/ (pc \notin {"backoff", "sos"} /\ pc' \notin {"backoff", "sos"})
    PROVE  OutageInv'
<1>1. PICK n \in 0..12 : Outage(n)
  BY DEF OutageInv
<1>2. Outage(n)'
  BY <1>1 DEF Outage
<1> QED BY <1>2 DEF OutageInv

\* One more failure: its backoff belongs to the schedule.
LEMMA AcceptErrorOutage ==
    ASSUME OutageInv, AcceptError
    PROVE  OutageInv'
<1>1. PICK n \in 0..12 : Outage(n)
  BY DEF OutageInv
<1>2. /\ pc = "accept" /\ UNCHANGED <<reconnect_attempt, slept>>
      /\ total_offline_secs' = Least(total_offline_secs + backoff_duration(n), U16_MAX)
      /\ \/ pc' = "sos" /\ total_offline_secs' >= 600
         \/ pc' = "backoff" /\ total_offline_secs' < 600
  BY <1>1 DEF AcceptError, Outage, MAX_RECONNECT_SECS
<1>3. total_offline_secs = Scheduled(n)
  BY <1>1, <1>2 DEF Outage
<1>4. Scheduled(n) + backoff_duration(n) = Scheduled(n + 1)
      /\ Scheduled(n + 1) \in Nat /\ Scheduled(n + 1) <= 700
  <2>1. CASE n \in {0, 1, 2, 3}
    BY <2>1 DEF Scheduled, backoff_duration
  <2>2. CASE n >= 4
    BY <2>2 DEF Scheduled, backoff_duration
  <2> QED BY <2>1, <2>2
<1>5. total_offline_secs' = Scheduled(n + 1)
  BY <1>2, <1>3, <1>4 DEF Least, U16_MAX
<1>6. reconnect_attempt' = n /\ slept' = Scheduled(n)
  BY <1>1, <1>2 DEF Outage
<1> HIDE DEF Scheduled
<1> QED BY <1>2, <1>5, <1>6 DEF OutageInv, Outage

\* An interval from zero holds the naturals up to its bound.
LEMMA InInterval ==
    ASSUME NEW b \in Nat, NEW x \in Nat, x <= b
    PROVE  x \in 0..b
OBVIOUS

\* A backoff slept.
LEMMA BackoffOverOutage ==
    ASSUME OutageInv, BackoffOver
    PROVE  OutageInv'
<1>1. PICK n \in 0..12 : Outage(n)
  BY DEF OutageInv
<1>2. /\ pc = "backoff" /\ pc' = "accept" /\ UNCHANGED total_offline_secs
      /\ reconnect_attempt' = Least(n + 1, U8_MAX) /\ slept' = Scheduled(n) + backoff_duration(n)
  BY <1>1 DEF BackoffOver, Listen, Outage
<1>3. total_offline_secs = Scheduled(n + 1) /\ total_offline_secs < 600
  BY <1>1, <1>2 DEF Outage
<1>4. Scheduled(n) + backoff_duration(n) = Scheduled(n + 1) /\ n + 1 \in 0..12
  <2>1. CASE n \in {0, 1, 2, 3}
    BY <2>1 DEF Scheduled, backoff_duration
  <2>2. CASE n >= 4
    BY <1>3, <2>2 DEF Scheduled, backoff_duration
  <2> QED BY <2>1, <2>2
<1>5. reconnect_attempt' = n + 1
  BY <1>2, <1>4 DEF Least, U8_MAX
<1>6. Outage(n + 1)'
  BY <1>2, <1>3, <1>4, <1>5 DEF Outage
<1> QED BY <1>4, <1>6 DEF OutageInv

\* Every step keeps OutageInv.
LEMMA OutageKept ==
    ASSUME OutageInv, [StationNext]_vars
    PROVE  OutageInv'
<1>1. /\ \A p : Call(p) => pc' = p
      /\ \A s : Listen => pc' = "accept"
  BY DEF Call, Listen
<1>2. CASE AcceptError \/ BackoffOver
  BY <1>2, AcceptErrorOutage, BackoffOverOutage
<1>3. CASE Serve
  <2>1. Outage(0)'
    BY <1>3 DEF Serve, Outage, Scheduled
  <2> QED BY <2>1 DEF OutageInv
<1>4. CASE Boot \/ RetryJoin \/ DhcpUp \/ AcceptOk \/ ClientGone
  BY <1>1, <1>4, QuietOutage DEF Boot, RetryJoin, DhcpUp, AcceptOk, ClientGone
<1>5. CASE JoinOk \/ JoinFail \/ RebootRequested \/ ResetToUsbBoot \/ PowerSave
  BY <1>1, <1>5, QuietOutage DEF JoinOk, JoinFail, RebootRequested, ResetToUsbBoot, PowerSave
<1>6. CASE StationLock \/ LedTask \/ SosAgain \/ Tick \/ UNCHANGED vars
  BY <1>6, QuietOutage DEF StationLock, LedTask, SosAgain, Tick, vars, stationVars
<1> QED BY <1>2, <1>3, <1>4, <1>5, <1>6, Zenon DEF StationNext, StationStep, Network

--------------------------------------------------------------------------------
(* Theorems *)

StationInv == TaskInv /\ OutageInv

\* StationInv is an invariant.
LEMMA StationInvariance == StationSpec => []StationInv
<1>1. StationInit => StationInv
  <2> SUFFICES ASSUME StationInit PROVE StationInv
    OBVIOUS
  <2>1. LedTyped(StationState) /\ holder = NONE /\ sleep = 0
    BY Assumptions DEF StationInit, LedInit, LedTyped
  <2>2. Whole(0, TICK)
    BY Durations, Assumptions DEF Whole
  <2>3. TaskInv
    BY <2>1, <2>2, Assumptions DEF StationInit, TaskInv
  <2>4. Outage(0)
    BY DEF StationInit, Outage, Scheduled
  <2> QED BY <2>3, <2>4 DEF StationInv, OutageInv
<1>2. StationInv /\ [StationNext]_vars => StationInv'
  BY TaskKept, OutageKept DEF StationInv
<1> QED BY <1>1, <1>2, PTL DEF StationSpec

\* Types and the mutex: led_task and sta_mode are never both inside a radio call, and a
\* guard never outlives its call.
THEOREM StationTypeCorrect == StationSpec => []StationTypeOK
<1>1. StationInv => StationTypeOK
  <2> SUFFICES ASSUME StationInv PROVE StationTypeOK
    OBVIOUS
  <2>1. PICK n \in 0..12 : Outage(n)
    BY DEF StationInv, OutageInv
  <2>2. /\ Scheduled(n) \in Nat /\ Scheduled(n) <= 700
        /\ Scheduled(n + 1) \in Nat /\ Scheduled(n + 1) <= 700
    <3>1. CASE n \in {0, 1, 2, 3}
      BY <3>1 DEF Scheduled
    <3>2. CASE n >= 4
      BY <3>2 DEF Scheduled
    <3> QED BY <3>1, <3>2
  <2>3. reconnect_attempt \in 0..U8_MAX /\ total_offline_secs \in 0..U16_MAX /\ slept \in Nat
    <3>1. reconnect_attempt = n /\ slept = Scheduled(n)
      BY <2>1 DEF Outage
    <3>2. total_offline_secs = Scheduled(n) \/ total_offline_secs = Scheduled(n + 1)
      BY <2>1 DEF Outage
    <3>3. total_offline_secs \in Nat /\ total_offline_secs <= 700 /\ slept \in Nat
      BY <2>2, <3>1, <3>2
    <3>4. reconnect_attempt \in Nat /\ U8_MAX \in Nat /\ reconnect_attempt <= U8_MAX
      BY <3>1 DEF U8_MAX
    <3>5. U16_MAX \in Nat /\ total_offline_secs <= U16_MAX
      BY <3>3 DEF U16_MAX
    <3>6. reconnect_attempt \in 0..U8_MAX
      BY <3>4, InInterval
    <3>7. total_offline_secs \in 0..U16_MAX
      BY <3>3, <3>5, InInterval
    <3> QED BY <3>3, <3>6, <3>7
  <2>4. StationState \subseteq LedState
    BY Assumptions
  <2> QED BY <2>3, <2>4 DEF StationInv, TaskInv, StationTypeOK, LedTyped, Whole
<1> QED BY <1>1, StationInvariance, PTL

\* The radio's power follows the client, through every path of the accept loop.
THEOREM PowerAlwaysFollows == StationSpec => []PowerFollowsClient
<1>1. StationInv => PowerFollowsClient
  BY DEF StationInv, TaskInv, PowerFollowsClient
<1> QED BY <1>1, StationInvariance, PTL

\* The two counters of an outage agree, and neither ever saturates.
THEOREM OutageAccounted == StationSpec => []OutageAccounting
<1>1. StationInv => OutageAccounting
  <2> SUFFICES ASSUME StationInv PROVE OutageAccounting
    OBVIOUS
  <2>1. PICK n \in 0..12 : Outage(n)
    BY DEF StationInv, OutageInv
  <2> QED BY <2>1 DEF Outage, OutageAccounting, MAX_RECONNECT_SECS
<1> QED BY <1>1, StationInvariance, PTL

--------------------------------------------------------------------------------
(* The LED follows *)

\* In ms: how long a flash of the pattern lasts, the flashes after this one, and what
\* is left of the pattern before led_task looks for a signal again.
Flashed == IF playing = "Reconnecting" THEN 250 ELSE 100
After == IF step = 1 THEN Flashed ELSE 0
Left ==
    IF playing \notin {"Connecting", "Reconnecting"} \/ led_pc = "wait" THEN 0
    ELSE (IF led_pc = "sleep" THEN sleep ELSE Flashed) + After

\* The two patterns of two flashes, and the solid one: it does not sleep, and when its
\* only call is over the LED is on.
PatternInv ==
    /\ playing \in {"Connecting", "Reconnecting"} =>
          step \in {1, 2} /\ (led_pc = "sleep" => sleep <= Flashed)
    /\ playing = "Connected" => led_pc # "sleep" /\ (light \/ led_pc \in {"lock", "set"})

\* A signal that waits is the latest one, and nothing follows Error and Rebooting.
SignalInv ==
    /\ led_signal \in {NONE, last}
    /\ last = NONE => playing = NONE
    /\ pc = "joining" => last = "Connecting"
    /\ last = "Error" => pc = "sos"
    /\ last = "Rebooting" => pc \in {"rebooting", "off"}

\* While another state than the latest is played, the latest waits, and what is left of
\* the pattern fits into LATENCY, unless a join has stopped the LED.
LateInv ==
    /\ playing # last =>
          /\ led_signal = last
          /\ playing \in {NONE, "Connecting", "Connected", "Reconnecting"}
          /\ pc # "joining" => age + Left <= LATENCY
    /\ playing = "Connected" /\ last = "Connected" /\ ~light => age <= LATENCY

\* What the LED plays, which signal that is, and how late it may be.
FollowInv == PatternInv /\ SignalInv /\ LateInv

\* The three patterns.
LEMMA ThreePatterns ==
    /\ pattern["Connecting"].kind = "repeat" /\ pattern["Reconnecting"].kind = "repeat"
    /\ pattern["Connected"].kind = "solid"
    /\ Len(pattern["Connecting"].steps) = 2 /\ Len(pattern["Reconnecting"].steps) = 2
    /\ DOMAIN pattern["Connecting"].steps = {1, 2} /\ DOMAIN pattern["Reconnecting"].steps = {1, 2}
    /\ DOMAIN pattern["Connected"].steps = {}
    /\ \A i \in {1, 2} : /\ pattern["Connecting"].steps[i][2] = 100
                         /\ pattern["Reconnecting"].steps[i][2] = 250
<1>1. /\ pattern["Connecting"] = [kind |-> "repeat", steps |-> Flashes(1, 100, 100)]
      /\ pattern["Connected"] = [kind |-> "solid", steps |-> <<>>]
      /\ pattern["Reconnecting"] = [kind |-> "repeat", steps |-> Flashes(1, 250, 250)]
  BY DEF pattern, Repeat, Solid
<1>2. ASSUME NEW ms
      PROVE  /\ DOMAIN Flashes(1, ms, ms) = {1, 2}
             /\ \A i \in {1, 2} : Flashes(1, ms, ms)[i][2] = ms
  <2>1. 1..2 * 1 = {1, 2}
    OBVIOUS
  <2> QED BY <2>1 DEF Flashes
<1>3. Len(Flashes(1, 100, 100)) = 2 /\ Len(Flashes(1, 250, 250)) = 2
  <2>1. ASSUME NEW ms \in {100, 250} PROVE Len(Flashes(1, ms, ms)) = 2
    <3> DEFINE T == {100, 250}
    <3>1. Flashes(1, ms, ms) \in Seq(Flash(T))
      <4>1. ms \in T
        OBVIOUS
      <4> HIDE DEF T
      <4> QED BY <4>1, RunsTyped
    <3>2. DOMAIN Flashes(1, ms, ms) = 1..2
      BY <1>2
    <3> HIDE DEF T
    <3>3. Len(Flashes(1, ms, ms)) \in Nat /\ DOMAIN Flashes(1, ms, ms) = 1..Len(Flashes(1, ms, ms))
      BY <3>1
    <3> QED BY <3>2, <3>3
  <2> QED BY <2>1
<1>4. DOMAIN <<>> = {}
  OBVIOUS
<1> QED BY <1>1, <1>2, <1>3, <1>4

\* No pattern that a new signal can find keeps it waiting for longer than LATENCY.
LEMMA LeftBounded ==
    ASSUME TaskInv, PatternInv
    PROVE  Left \in Nat /\ Left <= LATENCY
<1>1. sleep \in Nat
  BY DEF TaskInv, Whole
<1> QED BY <1>1 DEF PatternInv, Left, After, Flashed, LATENCY

\* led_task never falls behind.
LEMMA LedTaskFollows ==
    ASSUME TaskInv, FollowInv, LedTask
    PROVE  FollowInv'
<1> USE Assumptions
<1>0. /\ UNCHANGED <<pc, last, age>> /\ LedStep
      /\ age \in Nat /\ sleep \in Nat
      /\ led_pc # "wait" => playing \in StationState
      /\ playing \in StationState \cup {NONE} /\ light \in BOOLEAN
  BY DEF LedTask, stationVars, TaskInv, LedTyped, Whole
<1>1. CASE LedReceive
  <2>1. /\ led_pc = "wait" /\ led_signal = last /\ last # NONE
        /\ playing' = last /\ led_signal' = NONE /\ step' = 1 /\ led_pc' = "lock"
        /\ light' = light
    BY <1>1 DEF LedReceive, FollowInv, SignalInv
  <2>2. PatternInv' /\ SignalInv'
    BY <1>0, <2>1 DEF FollowInv, SignalInv, PatternInv
  <2>3. LateInv'
    <3>1. CASE last = "Connected" /\ ~light
      <4>1. pc # "joining" /\ playing # "Connected"
        BY <2>1, <3>1 DEF FollowInv, SignalInv, PatternInv
      <4>2. age + Left <= LATENCY /\ Left = 0
        BY <2>1, <3>1, <4>1 DEF FollowInv, LateInv, Left
      <4>3. age <= LATENCY
        BY <1>0, <4>2
      <4> QED BY <1>0, <2>1, <4>3 DEF LateInv, LATENCY
    <3>2. CASE ~(last = "Connected" /\ ~light)
      BY <1>0, <2>1, <3>2 DEF LateInv
    <3> QED BY <3>1, <3>2
  <2> QED BY <2>2, <2>3 DEF FollowInv
<1>2. CASE LedLock
  <2>1. /\ led_pc = "lock" /\ led_pc' = "set"
        /\ UNCHANGED <<led_signal, playing, step, sleep, light>>
    BY <1>2 DEF LedLock
  <2>2. Left' = Left
    BY <2>1 DEF Left, After, Flashed
  <2> QED BY <1>0, <2>1, <2>2 DEF FollowInv, PatternInv, SignalInv, LateInv, Flashed, LATENCY
<1>3. CASE LedSet
  <2>1. led_pc = "set" /\ UNCHANGED <<led_signal, playing, step>>
    BY <1>3 DEF LedSet
  <2>2. SignalInv'
    BY <1>0, <2>1 DEF FollowInv, SignalInv, StationState
  <2>3. CASE playing \in {"Connecting", "Reconnecting"}
    <3>1. step \in {1, 2} /\ step \in DOMAIN Steps /\ Steps[step][2] = Flashed
      BY <2>3, ThreePatterns DEF FollowInv, PatternInv, Steps, Flashed
    <3>2. sleep' = Flashed /\ led_pc' = "sleep"
      BY <1>3, <3>1 DEF LedSet
    <3>3. Flashed' = Flashed /\ Left' = Left /\ Flashed \in Nat
      BY <2>1, <2>3, <3>2 DEF Left, After, Flashed
    <3>4. PatternInv'
      BY <2>1, <2>3, <3>1, <3>2, <3>3 DEF PatternInv
    <3>5. LateInv'
      BY <1>0, <2>1, <2>3, <3>3 DEF FollowInv, LateInv, LATENCY
    <3> QED BY <2>2, <3>4, <3>5 DEF FollowInv
  <2>4. CASE playing = "Connected"
    <3>1. step \notin DOMAIN Steps /\ pattern[playing].kind = "solid"
      BY <2>4, ThreePatterns DEF Steps
    <3>2. light' = TRUE /\ led_pc' = "wait"
      BY <1>3, <3>1 DEF LedSet
    <3>3. Left' = 0 /\ Left = 0
      BY <2>1, <2>4 DEF Left
    <3>4. PatternInv'
      BY <2>1, <2>4, <3>2 DEF PatternInv
    <3>5. LateInv'
      BY <1>0, <2>1, <2>4, <3>2, <3>3 DEF FollowInv, LateInv, LATENCY
    <3> QED BY <2>2, <3>4, <3>5 DEF FollowInv
  <2>5. CASE playing \in {"Error", "Rebooting"}
    <3>1. playing = last
      BY <2>5 DEF FollowInv, LateInv, StationState
    <3> QED BY <1>0, <2>1, <2>2, <2>5, <3>1 DEF FollowInv, PatternInv, LateInv
  <2> QED BY <1>0, <2>1, <2>3, <2>4, <2>5 DEF StationState
<1>4. CASE LedWake
  <2>1. /\ led_pc = "sleep" /\ sleep = 0
        /\ UNCHANGED <<led_signal, holder, playing, sleep, light>>
    BY <1>4 DEF LedWake
  <2>2. SignalInv'
    BY <1>0, <2>1 DEF FollowInv, SignalInv, StationState
  <2>3. CASE playing \in {"Connecting", "Reconnecting"}
    <3>1. step \in {1, 2} /\ Len(Steps) = 2 /\ pattern[playing].kind = "repeat"
      BY <2>3, ThreePatterns DEF FollowInv, PatternInv, Steps
    <3>2. Flashed' = Flashed /\ Flashed \in Nat
      BY <2>1 DEF Flashed
    <3>3. CASE step = 1
      <4>1. step' = 2 /\ led_pc' = "lock"
        BY <1>4, <3>1, <3>3 DEF LedWake
      <4>2. Left' = Left
        BY <2>1, <2>3, <3>2, <3>3, <4>1 DEF Left, After
      <4>3. PatternInv'
        BY <2>1, <2>3, <4>1 DEF PatternInv
      <4>4. LateInv'
        BY <1>0, <2>1, <2>3, <4>2 DEF FollowInv, LateInv, LATENCY
      <4> QED BY <2>2, <4>3, <4>4 DEF FollowInv
    <3>4. CASE step = 2
      <4>1. IF led_signal # NONE THEN led_pc' = "wait" /\ step' = step ELSE led_pc' = "lock" /\ step' = 1
        BY <1>4, <3>1, <3>4 DEF LedWake
      <4>2. PatternInv'
        BY <2>1, <2>3, <3>4, <4>1 DEF PatternInv
      <4>3. LateInv'
        <5>1. CASE playing = last
          BY <1>0, <2>1, <2>3, <5>1 DEF LateInv
        <5>2. CASE playing # last
          <6>1. led_signal = last /\ pc # "joining" => age + Left <= LATENCY
            BY <5>2 DEF FollowInv, LateInv
          <6>2. led_signal = last
            BY <5>2 DEF FollowInv, LateInv
          <6>3. Left = 0
            BY <2>1, <2>3, <3>4 DEF Left, After
          <6>4. last # NONE
            BY <5>2 DEF FollowInv, SignalInv
          <6>5. Left' = 0
            BY <4>1, <6>2, <6>4 DEF Left
          <6> QED BY <1>0, <2>1, <2>3, <5>2, <6>1, <6>2, <6>3, <6>5 DEF FollowInv, LateInv, LATENCY
        <5> QED BY <5>1, <5>2
      <4> QED BY <2>2, <4>2, <4>3 DEF FollowInv
    <3> QED BY <3>1, <3>3, <3>4
  <2>4. CASE playing = "Connected"
    BY <2>1, <2>4 DEF FollowInv, PatternInv
  <2>5. CASE playing \in {"Error", "Rebooting"}
    <3>1. playing = last
      BY <2>5 DEF FollowInv, LateInv, StationState
    <3> QED BY <1>0, <2>1, <2>2, <2>5, <3>1 DEF FollowInv, PatternInv, LateInv
  <2> QED BY <1>0, <2>1, <2>3, <2>4, <2>5 DEF StationState
<1> QED BY <1>0, <1>1, <1>2, <1>3, <1>4 DEF LedStep

\* A new signal finds at most a whole pattern left.
LEMMA SignalFollows ==
    ASSUME TaskInv, FollowInv, NEW s \in StationState, SignalLed(s),
           UNCHANGED <<ledTask, sleep>>,
           pc' = "joining" => s = "Connecting",
           s = "Error" => pc' = "sos",
           s = "Rebooting" => pc' \in {"rebooting", "off"},
           last \in {"Error", "Rebooting"} => s = last
    PROVE  FollowInv'
<1> USE Assumptions
<1>1. /\ led_signal' = s /\ last' = s /\ age' = 0
      /\ UNCHANGED <<led_pc, playing, step, sleep, light>>
  BY DEF SignalLed, ledTask
<1>2. Left' = Left /\ Left \in Nat /\ Left <= LATENCY
  BY <1>1, LeftBounded DEF FollowInv, Left, After, Flashed
<1>3. PatternInv'
  BY <1>1 DEF FollowInv, PatternInv, Flashed
<1>4. SignalInv'
  BY <1>1 DEF FollowInv, SignalInv, StationState
<1>5. playing \in {"Error", "Rebooting"} => playing = last
  BY DEF FollowInv, LateInv, StationState
<1>6. playing \in StationState \cup {NONE}
  BY DEF TaskInv, LedTyped
<1>7. playing # s => playing \in {NONE, "Connecting", "Connected", "Reconnecting"}
  BY <1>5, <1>6 DEF StationState
<1>8. LateInv'
  BY <1>1, <1>2, <1>7 DEF LateInv, LATENCY
<1> QED BY <1>3, <1>4, <1>8 DEF FollowInv

\* A step without a signal; a join that begins has signalled, and one that ends starts
\* the count again.
LEMMA QuietFollows ==
    ASSUME TaskInv, FollowInv, UNCHANGED <<led_signal, ledTask, last>>,
           age' = age \/ age' = 0,
           pc = "joining" => age' = 0 \/ pc' = "joining",
           pc' = "joining" => pc = "joining",
           pc = "sos" => pc' = "sos",
           pc \in {"rebooting", "off"} => pc' \in {"rebooting", "off"}
    PROVE  FollowInv'
<1>1. UNCHANGED <<led_signal, led_pc, playing, step, sleep, light, last>>
  BY DEF ledTask
<1>2. Left' = Left /\ Left \in Nat /\ Left <= LATENCY
  BY <1>1, LeftBounded DEF FollowInv, Left, After, Flashed
<1>3. PatternInv'
  BY <1>1 DEF FollowInv, PatternInv, Flashed
<1>4. SignalInv'
  BY <1>1 DEF FollowInv, SignalInv
<1>5. ASSUME playing # last, pc' # "joining" PROVE age' + Left <= LATENCY
  <2>1. CASE age' = 0
    BY <1>2, <2>1 DEF LATENCY
  <2>2. CASE age' # 0
    BY <1>5, <2>2 DEF FollowInv, LateInv
  <2> QED BY <2>1, <2>2
<1>6. LateInv'
  BY <1>1, <1>2, <1>5 DEF FollowInv, LateInv, LATENCY
<1> QED BY <1>3, <1>4, <1>6 DEF FollowInv

\* Time passes only in a flash, or while a join holds the mutex.
LEMMA TickFollows ==
    ASSUME TaskInv, FollowInv, Tick
    PROVE  FollowInv'
<1>1. /\ UNCHANGED <<led_signal, holder, led_pc, playing, step, light, pc, last>>
      /\ sleep' = IF sleep > 0 THEN sleep - TICK ELSE 0
      /\ age' = Least(age + TICK, LATENCY + TICK)
      /\ ~LedReady /\ ~StationReady
  BY DEF Tick
<1>2. age \in Nat /\ sleep \in Nat /\ TICK \in Nat \ {0} /\ Whole(sleep, TICK)
  BY Assumptions DEF TaskInv, Whole
<1>3. sleep > 0 => sleep >= TICK
  <2>1. PICK k \in Nat : sleep = k * TICK
    BY <1>2 DEF Whole
  <2>2. sleep > 0 => k >= 1
    BY <1>2, <2>1
  <2>3. k >= 1 => k * TICK >= TICK
    BY <1>2, <2>1
  <2> QED BY <2>1, <2>2, <2>3
<1>4. sleep' \in Nat /\ sleep' <= sleep
  BY <1>1, <1>2, <1>3
<1>5. PatternInv'
  BY <1>1, <1>2, <1>4 DEF FollowInv, PatternInv, Flashed
<1>6. SignalInv'
  BY <1>1 DEF FollowInv, SignalInv
<1>7. led_pc \in {"lock", "set"} => pc = "joining"
  BY <1>1, Assumptions DEF LedReady, StationReady, InCall, TaskInv, LedTyped
<1>8. ASSUME playing # last, pc # "joining"
      PROVE  age' + Left' <= LATENCY
  <2>1. led_signal = last /\ last # NONE /\ age + Left <= LATENCY
    BY <1>8, Assumptions DEF FollowInv, LateInv, SignalInv
  <2>2. led_pc = "sleep" /\ sleep > 0
    BY <1>1, <1>2, <1>7, <1>8, <2>1 DEF LedReady, TaskInv, LedTyped
  <2>3. playing \in {"Connecting", "Reconnecting"}
    BY <1>8, <2>2, Assumptions DEF FollowInv, LateInv, PatternInv, TaskInv, LedTyped
  <2>4. After' = After /\ After \in Nat
    BY <1>1 DEF After, Flashed
  <2>5. Left = sleep + After /\ Left' = sleep' + After /\ sleep' = sleep - TICK
    BY <1>1, <2>2, <2>3, <2>4 DEF Left
  <2>6. age' <= age + TICK /\ age' \in Nat
    BY <1>1, <1>2 DEF Least, LATENCY
  <2>7. age + (sleep + After) <= 500
    BY <2>1, <2>5, Zenon DEF LATENCY
  <2>8. age' + (sleep' + After) <= LATENCY
    <3>1. PICK x \in Int, y \in Int, z \in Int, w \in Int, t \in Int, r \in Int :
              x = age /\ y = age' /\ z = sleep /\ w = sleep' /\ t = TICK /\ r = After
      BY <1>2, <1>4, <2>4, <2>6
    <3>2. y <= x + t /\ w = z - t
      BY <2>5, <2>6, <3>1, Zenon
    <3>3. x + (z + r) <= 500
      BY <2>7, <3>1, Zenon
    <3>4. y + (w + r) <= 500
      BY <3>2, <3>3
    <3> QED BY <3>1, <3>4, Zenon DEF LATENCY
  <2> QED BY <2>5, <2>8, Zenon
<1>9. ~(playing = "Connected" /\ last = "Connected" /\ ~light)
  BY <1>7 DEF FollowInv, PatternInv, SignalInv
<1>10. LateInv'
  BY <1>1, <1>8, <1>9 DEF FollowInv, LateInv
<1> QED BY <1>5, <1>6, <1>10 DEF FollowInv

\* Every step keeps FollowInv.
LEMMA FollowKept ==
    ASSUME TaskInv, FollowInv, [StationNext]_vars
    PROVE  FollowInv'
<1>1. /\ last = "Error" => pc = "sos"
      /\ last = "Rebooting" => pc \in {"rebooting", "off"}
  BY DEF FollowInv, SignalInv
<1>2. /\ \A p : Call(p) => pc' = p
      /\ Listen => SignalLed("Connected") /\ pc' = "accept"
  BY DEF Call, Listen
<1>3. CASE Boot \/ RetryJoin \/ PowerSave \/ BackoffOver
  <2>1. PICK s \in {"Connecting", "Connected"} :
            /\ SignalLed(s) /\ UNCHANGED <<ledTask, sleep>>
            /\ pc \in {"boot", "join_retry", "pm_save", "backoff"}
            /\ pc' = "joining" => s = "Connecting"
    BY <1>2, <1>3 DEF Boot, RetryJoin, PowerSave, BackoffOver, ledTask
  <2>2. last \notin {"Error", "Rebooting"}
    BY <1>1, <2>1
  <2>3. s \in StationState
    BY DEF StationState
  <2> QED BY <2>1, <2>2, <2>3, SignalFollows
<1>4. CASE AcceptError \/ SosAgain
  <2>1. PICK s \in {"Error", "Reconnecting"} :
            /\ SignalLed(s) /\ UNCHANGED <<ledTask, sleep>>
            /\ pc \in {"accept", "sos"} /\ (pc = "sos" => s = "Error")
            /\ pc' \in {"sos", "backoff"} /\ (s = "Error" => pc' = "sos")
    BY <1>4 DEF AcceptError, SosAgain, ledTask
  <2>2. last # "Rebooting"
    BY <1>1, <2>1
  <2>3. last = "Error" => s = last
    BY <1>1, <2>1
  <2>4. s \in StationState /\ pc' # "joining" /\ s # "Rebooting"
    BY <2>1 DEF StationState
  <2> QED BY <2>1, <2>2, <2>3, <2>4, SignalFollows
<1>5. CASE RebootRequested
  <2>1. /\ SignalLed("Rebooting") /\ UNCHANGED <<ledTask, sleep>>
        /\ pc = "serve" /\ pc' = "rebooting"
    BY <1>5 DEF RebootRequested, ledTask
  <2>2. last \notin {"Error", "Rebooting"} /\ "Rebooting" \in StationState
    BY <1>1, <2>1 DEF StationState
  <2> QED BY <2>1, <2>2, SignalFollows
<1>6. CASE JoinOk \/ JoinFail
  <2>1. /\ UNCHANGED <<led_signal, ledTask, last>> /\ age' = 0
        /\ pc = "joining" /\ pc' \in {"dhcp", "join_retry"}
    BY <1>6 DEF JoinOk, JoinFail
  <2> QED BY <2>1, QuietFollows
<1>7. CASE DhcpUp \/ AcceptOk \/ ClientGone \/ Serve
  <2>1. /\ UNCHANGED <<led_signal, ledTask, last, age>>
        /\ pc \in {"dhcp", "accept", "serve", "pm_none"}
        /\ pc' \in {"pm_save", "pm_none", "serve"}
    BY <1>2, <1>7 DEF DhcpUp, AcceptOk, ClientGone, Serve
  <2> QED BY <2>1, QuietFollows
<1>8. CASE ResetToUsbBoot \/ StationLock \/ UNCHANGED vars
  <2>1. /\ UNCHANGED <<led_signal, ledTask, last, age>>
        /\ pc' = pc \/ (pc = "rebooting" /\ pc' = "off")
    BY <1>8 DEF ResetToUsbBoot, StationLock, vars, ledVars, ledTask, stationVars
  <2> QED BY <2>1, QuietFollows
<1> QED BY <1>3, <1>4, <1>5, <1>6, <1>7, <1>8, LedTaskFollows, TickFollows, Zenon
        DEF StationNext, StationStep, Network

\* FollowInv is an invariant, on top of StationInv.
LEMMA FollowInvariance == StationSpec => []FollowInv
<1>1. StationInit => FollowInv
  BY Assumptions DEF StationInit, LedInit, FollowInv, PatternInv, SignalInv, LateInv, StationState
<1>2. StationInv /\ FollowInv /\ [StationNext]_vars => FollowInv'
  BY FollowKept DEF StationInv
<1> QED BY <1>1, <1>2, StationInvariance, PTL DEF StationSpec

\* Although a signal is looked at only between patterns and replaces the one before it,
\* the LED shows the latest state within one pattern, except while a join runs.
THEOREM LedAlwaysFollows == StationSpec => []LedFollows
<1>1. StationInv /\ FollowInv => LedFollows
  <2> SUFFICES ASSUME TaskInv, FollowInv, age > LATENCY, pc # "joining"
               PROVE  playing = last /\ (last = "Connected" => light)
    BY DEF StationInv, LedFollows
  <2>1. Left \in Nat /\ age \in Nat
    BY LeftBounded DEF FollowInv, TaskInv
  <2>2. playing = last
    BY <2>1 DEF FollowInv, LateInv, LATENCY
  <2>3. last = "Connected" => light
    BY <2>1, <2>2 DEF FollowInv, LateInv, LATENCY
  <2> QED BY <2>2, <2>3
<1> QED BY <1>1, StationInvariance, FollowInvariance, PTL
================================================================================
