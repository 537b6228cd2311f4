------------------------------ MODULE RouterProofs ------------------------------
(***************************************************************************)
(* Proofs about Router, for every set of commands, every limit on          *)
(* subscriptions and every payload size.                                    *)
(*                                                                         *)
(* GoodState is the inductive invariant of a DeviceState.  Each handler is *)
(* shown to keep it and to leave the state alone when it answers with an   *)
(* error; dispatch and respond inherit both.                               *)
(***************************************************************************)
EXTENDS Router, SequenceLemmas

--------------------------------------------------------------------------------
(* What every handler keeps *)

USE RouterAssumption

ValidConfiguration(st) ==
    \A i \in 0..1 : ValidUart(st.uart[i]) /\ ValidSpi(st.spi[i]) /\ ValidI2c(st.i2c[i])

GoodState(st) ==
    /\ st \in DeviceState
    /\ IsFiniteSet(st.subscriptions)
    /\ WellFormed(st.subscriptions)
    /\ ValidConfiguration(st)

\* What every handler r(cmd, st) does.
Sound(st, r) ==
    /\ GoodState(r.dev)
    /\ r.reply \in ResponseType
    /\ ~r.reply.ok => r.dev = st

--------------------------------------------------------------------------------
\* A failing handler returns the state it was given.
LEMMA FailSound ==
    ASSUME NEW cmd \in Commands, NEW st, GoodState(st), NEW err \in ErrorCode
    PROVE  Sound(st, Fail(cmd, st, err))
  BY DEF Sound, Fail, Response, ResponseType, Opt, Command

\* A succeeding handler is sound when the state it makes is good.
LEMMA DoneSound ==
    ASSUME NEW cmd \in Commands, NEW st, NEW old, GoodState(st), NEW data \in Opt({"config", "version"})
    PROVE  Sound(old, Done(cmd, st, data))
  BY DEF Sound, Done, Response, ResponseType, Opt, Command

\* The checks of a handler yield an error code or NONE.
LEMMA OrElse ==
    ASSUME NEW a \in Opt(ErrorCode), NEW b \in Opt(ErrorCode)
    PROVE  /\ (a ?? b) \in Opt(ErrorCode)
           /\ (a ?? b) = NONE <=> a = NONE /\ b = NONE
  BY DEF ??, Opt

\* The same for the chains of checks the configure handlers run.
LEMMA OrElse3 ==
    ASSUME NEW a \in Opt(ErrorCode), NEW b \in Opt(ErrorCode), NEW c \in Opt(ErrorCode)
    PROVE  /\ (a ?? b ?? c) \in Opt(ErrorCode)
           /\ (a ?? b ?? c) = NONE <=> a = NONE /\ b = NONE /\ c = NONE
  BY DEF ??, Opt

\* A chain of four checks.
LEMMA OrElse4 ==
    ASSUME NEW a \in Opt(ErrorCode), NEW b \in Opt(ErrorCode), NEW c \in Opt(ErrorCode),
           NEW d \in Opt(ErrorCode)
    PROVE  /\ (a ?? b ?? c ?? d) \in Opt(ErrorCode)
           /\ (a ?? b ?? c ?? d) = NONE <=> a = NONE /\ b = NONE /\ c = NONE /\ d = NONE
  BY DEF ??, Opt

\* A chain of five checks, as uart configure runs.
LEMMA OrElse5 ==
    ASSUME NEW a \in Opt(ErrorCode), NEW b \in Opt(ErrorCode), NEW c \in Opt(ErrorCode),
           NEW d \in Opt(ErrorCode), NEW e \in Opt(ErrorCode)
    PROVE  /\ (a ?? b ?? c ?? d ?? e) \in Opt(ErrorCode)
           /\ (a ?? b ?? c ?? d ?? e) = NONE
                <=> a = NONE /\ b = NONE /\ c = NONE /\ d = NONE /\ e = NONE
  BY DEF ??, Opt

\* Each elementary check yields an error code or NONE.
LEMMA CheckTypes ==
    /\ \A f : Require(f) \in Opt(ErrorCode)
    /\ \A b : InRange(b) \in Opt(ErrorCode)
    /\ \A f, S : Optional(f, S) \in Opt(ErrorCode)
    /\ \A f, n : validate_index(f, n) \in Opt(ErrorCode)
    /\ \A f : RequirePositive(f) \in Opt(ErrorCode)
    /\ \A b : check_configured(b) \in Opt(ErrorCode)
    /\ \A f : decode_bytes(f) \in Opt(ErrorCode)
<1>1. /\ \A f : Require(f) \in Opt(ErrorCode)
      /\ \A b : InRange(b) \in Opt(ErrorCode)
      /\ \A b : check_configured(b) \in Opt(ErrorCode)
  BY DEF Require, InRange, check_configured, Opt, ErrorCode
<1>2. \A f, S : Optional(f, S) \in Opt(ErrorCode)
  BY <1>1 DEF Optional
<1>3. \A f, n : validate_index(f, n) \in Opt(ErrorCode)
  BY <1>1, OrElse DEF validate_index
<1>4. \A f : RequirePositive(f) \in Opt(ErrorCode)
  BY <1>1, OrElse DEF RequirePositive
<1>5. \A f : decode_bytes(f) \in Opt(ErrorCode)
  <2> TAKE f
  <2>1. base64_decode(f) \in Opt(ErrorCode)
    BY DEF base64_decode, Opt, ErrorCode
  <2> QED BY <2>1 DEF decode_bytes, Opt, ErrorCode
<1> QED BY <1>1, <1>2, <1>3, <1>4, <1>5

\* What a check that yields NONE has established.
LEMMA CheckMeaning ==
    ASSUME NEW f
    PROVE  /\ Require(f) = NONE <=> f # NONE
           /\ \A b \in BOOLEAN : InRange(b) = NONE <=> b
           /\ \A S : Optional(f, S) = NONE <=> f \in Opt(S)
  BY DEF Require, InRange, Optional, ErrorCode

\* A checked index lies in the two-element arrays it is used on, and a checked
\* rate is positive.
LEMMA IndexMeaning ==
    ASSUME NEW f \in Opt(U8), validate_index(f, 1) = NONE
    PROVE  f \in 0..1
<1>1. Require(f) = NONE /\ InRange(f <= 1) = NONE
  BY CheckTypes, OrElse DEF validate_index
<1>2. f \in U8
  BY <1>1, CheckMeaning DEF Opt
<1>3. f <= 1
  BY <1>1, <1>2 DEF InRange, U8, ErrorCode
<1>4. \A n \in 0..U8_MAX : n <= 1 => n \in 0..1
  BY DEF U8_MAX
<1> QED BY <1>2, <1>3, <1>4, Zenon DEF U8

\* What require-positive has established about a rate.
LEMMA PositiveMeaning ==
    ASSUME NEW f \in Opt(Nat), RequirePositive(f) = NONE
    PROVE  f \in Nat /\ f > 0
<1>1. Require(f) = NONE /\ InRange(f > 0) = NONE
  BY CheckTypes, OrElse DEF RequirePositive
<1>2. f \in Nat
  BY <1>1, CheckMeaning DEF Opt
<1> QED BY <1>1, <1>2 DEF InRange, ErrorCode

\* A uart/configure that passes its checks stores a valid configuration.
LEMMA UartConfigureSound ==
    ASSUME NEW cmd \in Commands, NEW st, GoodState(st)
    PROVE  Sound(st, uart_handle_configure(cmd, st))
<1> DEFINE err == UartConfigureError(cmd)
<1> DEFINE cfg == [baud |-> cmd.baud, data_bits |-> UnwrapOr(cmd.data_bits, 8),
                   parity |-> UnwrapOr(cmd.parity, "none"),
                   stop_bits |-> UnwrapOr(cmd.stop_bits, 1), configured |-> TRUE]
<1> DEFINE new == [st EXCEPT !.uart[cmd.uart] = cfg]
<1>0. cmd \in Command
  OBVIOUS
<1>1. err \in Opt(ErrorCode)
  BY CheckTypes, OrElse5 DEF UartConfigureError
<1>2. CASE err # NONE
  BY <1>1, <1>2, FailSound DEF uart_handle_configure, Opt
<1>3. CASE err = NONE
  <2>1. /\ cmd.uart \in 0..1
        /\ cmd.baud \in Nat /\ cmd.baud > 0
        /\ cmd.data_bits \in Opt({7, 8})
        /\ cmd.parity \in Opt(Parity)
        /\ cmd.stop_bits \in Opt({1, 2})
    <3>1. /\ validate_index(cmd.uart, 1) = NONE
          /\ RequirePositive(cmd.baud) = NONE
          /\ Optional(cmd.data_bits, {7, 8}) = NONE
          /\ Optional(cmd.parity, Parity) = NONE
          /\ Optional(cmd.stop_bits, {1, 2}) = NONE
      BY <1>3, CheckTypes, OrElse5 DEF UartConfigureError
    <3>2. cmd.uart \in 0..1
      BY <1>0, <3>1, IndexMeaning DEF Command
    <3>3. cmd.baud \in Nat /\ cmd.baud > 0
      BY <1>0, <3>1, PositiveMeaning DEF Command
    <3> QED BY <3>1, <3>2, <3>3, CheckMeaning
  <2>2. cfg \in UartConfig /\ ValidUart(cfg)
    <3>1. /\ UnwrapOr(cmd.data_bits, 8) \in {7, 8}
          /\ UnwrapOr(cmd.parity, "none") \in Parity
          /\ UnwrapOr(cmd.stop_bits, 1) \in {1, 2}
      BY <2>1 DEF UnwrapOr, Opt, Parity
    <3>2. {7, 8} \subseteq U8 /\ {1, 2} \subseteq U8
      BY DEF U8, U8_MAX
    <3> QED BY <2>1, <3>1, <3>2 DEF UartConfig, ValidUart
  <2>3. GoodState(new)
    <3>1. /\ new \in DeviceState
          /\ new.subscriptions = st.subscriptions
          /\ new.spi = st.spi /\ new.i2c = st.i2c
          /\ new.uart = [st.uart EXCEPT ![cmd.uart] = cfg]
      BY <2>1, <2>2 DEF GoodState, DeviceState
    <3>2. \A i \in 0..1 : ValidUart(new.uart[i])
      BY <2>1, <2>2, <3>1 DEF GoodState, DeviceState, ValidConfiguration
    <3> QED BY <3>1, <3>2 DEF GoodState, ValidConfiguration
  <2> QED BY <1>3, <2>3, DoneSound DEF uart_handle_configure, Opt
<1> QED BY <1>2, <1>3

\* The same for spi/configure and i2c/configure.
LEMMA SpiConfigureSound ==
    ASSUME NEW cmd \in Commands, NEW st, GoodState(st)
    PROVE  Sound(st, spi_handle_configure(cmd, st))
<1> DEFINE err == SpiConfigureError(cmd)
<1> DEFINE cfg == [freq_hz |-> cmd.freq_hz, cpol |-> UnwrapOr(cmd.cpol, 0),
                   cpha |-> UnwrapOr(cmd.cpha, 0), configured |-> TRUE]
<1> DEFINE new == [st EXCEPT !.spi[cmd.spi] = cfg]
<1>0. cmd \in Command
  OBVIOUS
<1>1. /\ err \in Opt(ErrorCode)
      /\ err = NONE <=> /\ validate_index(cmd.spi, 1) = NONE
                        /\ RequirePositive(cmd.freq_hz) = NONE
                        /\ Optional(cmd.cpol, {0, 1}) = NONE
                        /\ Optional(cmd.cpha, {0, 1}) = NONE
  BY CheckTypes, OrElse4 DEF SpiConfigureError
<1>2. CASE err # NONE
  BY <1>1, <1>2, FailSound DEF spi_handle_configure, Opt
<1>3. CASE err = NONE
  <2>1. cmd.spi \in 0..1
    BY <1>0, <1>1, <1>3, IndexMeaning DEF Command
  <2>2. cmd.freq_hz \in Nat /\ cmd.freq_hz > 0
    BY <1>0, <1>1, <1>3, PositiveMeaning DEF Command
  <2>3. UnwrapOr(cmd.cpol, 0) \in {0, 1} /\ UnwrapOr(cmd.cpha, 0) \in {0, 1}
    BY <1>1, <1>3, CheckMeaning DEF UnwrapOr, Opt
  <2>4. {0, 1} \subseteq U8
    BY DEF U8, U8_MAX
  <2>5. cfg \in SpiConfig /\ ValidSpi(cfg)
    BY <2>2, <2>3, <2>4 DEF SpiConfig, ValidSpi
  <2>6. /\ new \in DeviceState
        /\ new.subscriptions = st.subscriptions
        /\ new.uart = st.uart /\ new.i2c = st.i2c
        /\ new.spi = [st.spi EXCEPT ![cmd.spi] = cfg]
    BY <2>1, <2>5 DEF GoodState, DeviceState
  <2>7. \A i \in 0..1 : ValidSpi(new.spi[i])
    BY <2>1, <2>5, <2>6 DEF GoodState, DeviceState, ValidConfiguration
  <2>8. GoodState(new)
    BY <2>6, <2>7 DEF GoodState, ValidConfiguration
  <2> QED BY <1>3, <2>8, DoneSound DEF spi_handle_configure, Opt
<1> QED BY <1>2, <1>3

\* i2c configure stores only a frequency of the two it accepts.
LEMMA I2cConfigureSound ==
    ASSUME NEW cmd \in Commands, NEW st, GoodState(st)
    PROVE  Sound(st, i2c_handle_configure(cmd, st))
<1> DEFINE err == I2cConfigureError(cmd)
<1> DEFINE cfg == [freq_hz |-> cmd.freq_hz, configured |-> TRUE]
<1> DEFINE new == [st EXCEPT !.i2c[cmd.i2c] = cfg]
<1>0. cmd \in Command
  OBVIOUS
<1>1. /\ err \in Opt(ErrorCode)
      /\ err = NONE <=> /\ validate_index(cmd.i2c, 1) = NONE
                        /\ Require(cmd.freq_hz) = NONE
                        /\ InRange(cmd.freq_hz \in {100000, 400000}) = NONE
  BY CheckTypes, OrElse3 DEF I2cConfigureError
<1>2. CASE err # NONE
  BY <1>1, <1>2, FailSound DEF i2c_handle_configure, Opt
<1>3. CASE err = NONE
  <2>1. cmd.i2c \in 0..1
    BY <1>0, <1>1, <1>3, IndexMeaning DEF Command
  <2>2. cmd.freq_hz \in {100000, 400000}
    <3>1. InRange(cmd.freq_hz \in {100000, 400000}) = NONE
      BY <1>1, <1>3
    <3> QED BY <3>1 DEF InRange, ErrorCode
  <2>3. cfg \in I2cConfig /\ ValidI2c(cfg)
    BY <2>2 DEF I2cConfig, ValidI2c
  <2>4. /\ new \in DeviceState
        /\ new.subscriptions = st.subscriptions
        /\ new.uart = st.uart /\ new.spi = st.spi
        /\ new.i2c = [st.i2c EXCEPT ![cmd.i2c] = cfg]
    BY <2>1, <2>3 DEF GoodState, DeviceState
  <2>5. \A i \in 0..1 : ValidI2c(new.i2c[i])
    BY <2>1, <2>3, <2>4 DEF GoodState, DeviceState, ValidConfiguration
  <2>6. GoodState(new)
    BY <2>4, <2>5 DEF GoodState, ValidConfiguration
  <2> QED BY <1>3, <2>6, DoneSound DEF i2c_handle_configure, Opt
<1> QED BY <1>2, <1>3

--------------------------------------------------------------------------------
\* subscribe adds one entry, to a table with room and without its target.
LEMMA SubscribeSound ==
    ASSUME NEW cmd \in Commands, NEW st, GoodState(st), NEW target \in SubscriptionTarget
    PROVE  Sound(st, handle_subscribe(cmd, target, st))
<1> DEFINE sub == [id |-> SubId(cmd.id), target |-> target]
<1> DEFINE new == [st EXCEPT !.subscriptions = @ \cup {sub}]
<1>1. CASE \E s \in st.subscriptions : same_target(s.target, target)
  <2>1. "already_subscribed" \in ErrorCode
    BY DEF ErrorCode
  <2> QED BY <1>1, <2>1, FailSound DEF handle_subscribe
<1>2. CASE /\ ~\E s \in st.subscriptions : same_target(s.target, target)
           /\ Cardinality(st.subscriptions) >= MAX_SUBSCRIPTIONS
  <2>1. "subscription_limit" \in ErrorCode
    BY DEF ErrorCode
  <2> QED BY <1>2, <2>1, FailSound DEF handle_subscribe
<1>3. CASE /\ ~\E s \in st.subscriptions : same_target(s.target, target)
           /\ ~(Cardinality(st.subscriptions) >= MAX_SUBSCRIPTIONS)
  <2>1. sub \in Subscription
    BY DEF Subscription, SubId, Command
  <2>2. /\ IsFiniteSet(st.subscriptions)
        /\ Cardinality(st.subscriptions) \in Nat
        /\ Cardinality(st.subscriptions) < MAX_SUBSCRIPTIONS
    BY <1>3, FS_CardinalityType DEF GoodState
  <2>3. /\ new \in DeviceState
        /\ new.subscriptions = st.subscriptions \cup {sub}
        /\ new.uart = st.uart /\ new.spi = st.spi /\ new.i2c = st.i2c
    BY <2>1 DEF GoodState, DeviceState
  <2>4. /\ IsFiniteSet(new.subscriptions)
        /\ Cardinality(new.subscriptions) <= MAX_SUBSCRIPTIONS
    <3>1. /\ IsFiniteSet(st.subscriptions \cup {sub})
          /\ \/ Cardinality(st.subscriptions \cup {sub}) = Cardinality(st.subscriptions)
             \/ Cardinality(st.subscriptions \cup {sub}) = Cardinality(st.subscriptions) + 1
      BY <2>2, FS_AddElement
    <3> HIDE DEF sub
    <3> QED BY <2>2, <2>3, <3>1
  <2>5. \A s, t \in new.subscriptions : same_target(s.target, t.target) => s = t
    BY <1>3, <2>3 DEF GoodState, WellFormed, same_target
  <2>6. GoodState(new)
    BY <2>3, <2>4, <2>5 DEF GoodState, WellFormed, ValidConfiguration
  <2> QED BY <1>3, <2>6, DoneSound DEF handle_subscribe, Opt
<1> QED BY <1>1, <1>2, <1>3

\* unsubscribe keeps a part of the table.
LEMMA RetainSound ==
    ASSUME NEW cmd \in Commands, NEW st, GoodState(st), NEW kept \in SUBSET st.subscriptions
    PROVE  Sound(st, Retain(cmd, st, kept))
<1> DEFINE new == [st EXCEPT !.subscriptions = kept]
<1>1. CASE kept = st.subscriptions
  <2>1. "not_subscribed" \in ErrorCode
    BY DEF ErrorCode
  <2> QED BY <1>1, <2>1, FailSound DEF Retain
<1>2. CASE kept # st.subscriptions
  <2>1. /\ new \in DeviceState
        /\ new.subscriptions = kept
        /\ new.uart = st.uart /\ new.spi = st.spi /\ new.i2c = st.i2c
    BY DEF GoodState, DeviceState
  <2>2. IsFiniteSet(kept) /\ Cardinality(kept) <= Cardinality(st.subscriptions)
    BY FS_Subset DEF GoodState
  <2>3. Cardinality(kept) \in Nat /\ Cardinality(st.subscriptions) \in Nat
    BY <2>2, FS_CardinalityType DEF GoodState
  <2>4. WellFormed(kept)
    BY <2>2, <2>3 DEF GoodState, WellFormed
  <2>5. GoodState(new)
    BY <2>1, <2>2, <2>4 DEF GoodState, ValidConfiguration
  <2> QED BY <1>2, <2>5, DoneSound DEF Retain, Opt
<1> QED BY <1>1, <1>2

--------------------------------------------------------------------------------
\* The subscription routes hand well-typed targets to the helpers.
LEMMA GpioSubscribeSound ==
    ASSUME NEW cmd \in Commands, NEW st, GoodState(st)
    PROVE  Sound(st, gpio_subscribe(cmd, st))
<1>0. cmd \in Command
  OBVIOUS
<1>1. CASE cmd.pin = NONE \/ cmd.trigger \notin Opt(Triggers)
  <2>1. "missing_field" \in ErrorCode
    BY DEF ErrorCode
  <2> QED BY <1>1, <2>1, FailSound DEF gpio_subscribe
<1>2. CASE ~(cmd.pin = NONE \/ cmd.trigger \notin Opt(Triggers)) /\ cmd.trigger # NONE
  <2> DEFINE target == [kind |-> "edge", key |-> cmd.pin, arg |-> cmd.trigger]
  <2>1. target \in SubscriptionTarget
    BY <1>0, <1>2 DEF SubscriptionTarget, Command, Opt
  <2>2. Sound(st, handle_subscribe(cmd, target, st))
    BY <2>1, SubscribeSound
  <2> QED BY <1>2, <2>2 DEF gpio_subscribe
<1>3. CASE ~(cmd.pin = NONE \/ cmd.trigger \notin Opt(Triggers)) /\ cmd.trigger = NONE
  <2> DEFINE target == [kind |-> "level", key |-> cmd.pin,
                        arg |-> UnwrapOr(cmd.interval_ms, 100)]
  <2>1. target \in SubscriptionTarget
    BY <1>0, <1>3 DEF SubscriptionTarget, Command, Opt, UnwrapOr
  <2>2. Sound(st, handle_subscribe(cmd, target, st))
    BY <2>1, SubscribeSound
  <2> QED BY <1>3, <2>2 DEF gpio_subscribe
<1> QED BY <1>1, <1>2, <1>3

\* adc subscribe builds a well-typed target.
LEMMA AdcSubscribeSound ==
    ASSUME NEW cmd \in Commands, NEW st, GoodState(st)
    PROVE  Sound(st, adc_subscribe(cmd, st))
<1>0. cmd \in Command
  OBVIOUS
<1>1. CASE cmd.adc_channel = NONE
  <2>1. "missing_field" \in ErrorCode
    BY DEF ErrorCode
  <2> QED BY <1>1, <2>1, FailSound DEF adc_subscribe
<1>2. CASE cmd.adc_channel # NONE
  <2> DEFINE target == [kind |-> "adc", key |-> cmd.adc_channel,
                        arg |-> UnwrapOr(cmd.interval_ms, 100)]
  <2>1. target \in SubscriptionTarget
    BY <1>0, <1>2 DEF SubscriptionTarget, Command, Opt, UnwrapOr
  <2>2. Sound(st, handle_subscribe(cmd, target, st))
    BY <2>1, SubscribeSound
  <2> QED BY <1>2, <2>2 DEF adc_subscribe
<1> QED BY <1>1, <1>2

\* Both unsubscribe handlers keep a subset of the subscriptions.
LEMMA UnsubscribeSound ==
    ASSUME NEW cmd \in Commands, NEW st, GoodState(st)
    PROVE  Sound(st, gpio_unsubscribe(cmd, st)) /\ Sound(st, adc_unsubscribe(cmd, st))
<1>1. "missing_field" \in ErrorCode
  BY DEF ErrorCode
<1>2. Sound(st, handle_unsubscribe_gpio(cmd, st)) /\ Sound(st, handle_unsubscribe_adc(cmd, st))
  BY RetainSound DEF handle_unsubscribe_gpio, handle_unsubscribe_adc
<1> QED BY <1>1, <1>2, FailSound DEF gpio_unsubscribe, adc_unsubscribe

\* Routes without an effect answer with one of the codes.
LEMMA StatelessSound ==
    ASSUME NEW cmd \in Commands, NEW st, GoodState(st)
    PROVE  Sound(st, Stateless(cmd, st))
<1>1. validate_pin(cmd) \in Opt(ErrorCode)
  <2>1. (IF is_pin_available(cmd.pin) THEN NONE ELSE "invalid_pin") \in Opt(ErrorCode)
    BY DEF Opt, ErrorCode
  <2> QED BY <2>1, CheckTypes, OrElse DEF validate_pin
<1>2. handle_set_mode(cmd) \in Opt(ErrorCode)
  BY <1>1, CheckTypes, OrElse4 DEF handle_set_mode
<1>3. /\ validate_channel(cmd) \in Opt(ErrorCode)
      /\ handle_set_duty(cmd) \in Opt(ErrorCode)
      /\ handle_set_freq(cmd) \in Opt(ErrorCode)
  BY CheckTypes, OrElse DEF validate_channel, handle_set_duty, handle_set_freq
<1>4. uart_handle_write(cmd, st) \in Opt(ErrorCode)
  BY CheckTypes, OrElse3 DEF uart_handle_write
<1>5. spi_handle_write(cmd, st) \in Opt(ErrorCode)
  BY CheckTypes, OrElse3 DEF spi_handle_write
<1>6. i2c_handle_write(cmd, st) \in Opt(ErrorCode)
  BY CheckTypes, OrElse4 DEF i2c_handle_write
<1>7. usb_handle_write(cmd) \in Opt(ErrorCode)
  BY CheckTypes, OrElse DEF usb_handle_write
<1>8. "not_configured" \in Opt(ErrorCode) /\ "unknown_interface" \in Opt(ErrorCode)
  BY DEF Opt, ErrorCode
<1>9. (validate_read(cmd) ?? "not_configured") \in Opt(ErrorCode)
  BY <1>8, CheckTypes, OrElse DEF validate_read
<1>10. StatelessError(cmd, st) \in Opt(ErrorCode)
  BY <1>2, <1>3, <1>4, <1>5, <1>6, <1>7, <1>8, <1>9 DEF StatelessError
<1>11. CASE StatelessError(cmd, st) = NONE
  BY <1>11, DoneSound DEF Stateless, Opt
<1>12. CASE StatelessError(cmd, st) # NONE
  BY <1>10, <1>12, FailSound DEF Stateless, Opt
<1> QED BY <1>11, <1>12

\* reboot_to_bootloader changes its flag and nothing else.
LEMMA RebootSound ==
    ASSUME NEW cmd \in Commands, NEW st, GoodState(st)
    PROVE  Sound(st, Done(cmd, [st EXCEPT !.pending_reboot = TRUE], NONE))
<1> DEFINE new == [st EXCEPT !.pending_reboot = TRUE]
<1>1. GoodState(new)
  BY DEF GoodState, DeviceState, ValidConfiguration
<1> QED BY <1>1, DoneSound DEF Opt

\* So dispatch is sound, and respond, which adds the version and route checks.
LEMMA DispatchSound ==
    ASSUME NEW cmd \in Commands, NEW st, GoodState(st)
    PROVE  Sound(st, dispatch(cmd, st))
<1>1. Sound(st, Done(cmd, st, "config")) /\ Sound(st, Done(cmd, st, "version"))
  BY DoneSound DEF Opt
<1> QED
  BY <1>1, UartConfigureSound, SpiConfigureSound, I2cConfigureSound, GpioSubscribeSound,
     AdcSubscribeSound, UnsubscribeSound, StatelessSound, RebootSound DEF dispatch

\* The whole answer to a command is sound: version, route, handler.
LEMMA RespondSound ==
    ASSUME NEW cmd \in Commands, NEW st, GoodState(st)
    PROVE  Sound(st, respond(cmd, st))
<1>1. /\ check_version(cmd) \in Opt(ErrorCode)
      /\ validate_route(cmd) \in Opt(ErrorCode)
  BY DEF check_version, validate_route, Opt, ErrorCode
<1>2. CASE check_version(cmd) # NONE
  BY <1>1, <1>2 DEF respond, Sound, Response, ResponseType, Opt
<1>3. CASE check_version(cmd) = NONE /\ validate_route(cmd) # NONE
  BY <1>1, <1>3, FailSound DEF respond, Opt
<1>4. CASE check_version(cmd) = NONE /\ validate_route(cmd) = NONE
  BY <1>4, DispatchSound DEF respond
<1> QED BY <1>2, <1>3, <1>4

--------------------------------------------------------------------------------
(* The router, one session after another *)

RouterInv == GoodState(dev) /\ RouterTypeOK

\* A fresh DeviceState is good.
LEMMA DefaultGood == GoodState(DefaultState)
<1>1. {7, 8} \subseteq U8 /\ {0, 1} \subseteq U8
  BY DEF U8, U8_MAX
<1>2. /\ DefaultState.uart \in [0..1 -> UartConfig]
      /\ DefaultState.spi \in [0..1 -> SpiConfig]
      /\ DefaultState.i2c \in [0..1 -> I2cConfig]
  BY <1>1 DEF DefaultState, UartConfig, SpiConfig, I2cConfig, Parity
<1>3. DefaultState \in DeviceState
  BY <1>2 DEF DefaultState, DeviceState
<1>4. DefaultState.subscriptions = {}
  BY DEF DefaultState
<1>5. IsFiniteSet({}) /\ Cardinality({}) = 0
  BY FS_EmptySet
<1>6. WellFormed({})
  BY <1>5 DEF WellFormed
<1>7. ValidConfiguration(DefaultState)
  BY DEF DefaultState, ValidConfiguration, ValidUart, ValidSpi, ValidI2c
<1> QED BY <1>3, <1>4, <1>5, <1>6, <1>7 DEF GoodState

\* The reply before the first command is a response.
LEMMA NoReplyTyped == NoReply \in ResponseType
  BY DEF NoReply, Response, ResponseType, Opt

\* Every command the router handles keeps RouterInv.
LEMMA HandleStep ==
    ASSUME RouterInv, NEW cmd \in Commands, Handle(cmd)
    PROVE  RouterInv' /\ (~reply'.ok => dev' = dev)
<1>1. Sound(dev, respond(cmd, dev))
  BY RespondSound DEF RouterInv
<1>2. /\ dev' = respond(cmd, dev).dev
      /\ reply' = respond(cmd, dev).reply
      /\ request' = cmd
      /\ halted' = (respond(cmd, dev).reply.error = "panic")
  BY DEF Handle
<1>3. GoodState(dev') /\ reply' \in ResponseType /\ (~reply'.ok => dev' = dev)
  BY <1>1, <1>2 DEF Sound
<1>4. halted' \in BOOLEAN /\ request' \in Opt(Commands)
  BY <1>2 DEF Opt
<1>5. GoodState(dev)'
  BY <1>3 DEF GoodState, ValidConfiguration
<1>6. RouterTypeOK'
  BY <1>3, <1>4 DEF RouterTypeOK, GoodState
<1> QED BY <1>3, <1>5, <1>6 DEF RouterInv

\* A new session starts from a good state.
LEMMA NewSessionStep ==
    ASSUME RouterInv, NewSession
    PROVE  RouterInv' /\ reply'.ok
<1>1. dev' = DefaultState /\ reply' = NoReply /\ request' = NONE /\ halted' = halted
  BY DEF NewSession
<1>2. GoodState(dev)'
  BY <1>1, DefaultGood DEF GoodState, ValidConfiguration
<1>3. RouterTypeOK'
  BY <1>1, <1>2, NoReplyTyped DEF RouterTypeOK, GoodState, RouterInv, Opt
<1> QED BY <1>1, <1>2, <1>3 DEF RouterInv, NoReply, Response

\* Steps of other parts leave it alone.
LEMMA RouterUnchanged ==
    ASSUME RouterInv, UNCHANGED routerVars
    PROVE  RouterInv'
  BY DEF routerVars, RouterInv, RouterTypeOK, GoodState, ValidConfiguration

\* The inductive invariant of the router.
THEOREM RouterInvariance == RouterSpec => []RouterInv
<1>1. RouterInit => RouterInv
  BY DefaultGood, NoReplyTyped DEF RouterInit, RouterInv, RouterTypeOK, GoodState, Opt
<1>2. RouterInv /\ [RouterNext]_routerVars => RouterInv'
  <2> SUFFICES ASSUME RouterInv, [RouterNext]_routerVars PROVE RouterInv'
    OBVIOUS
  <2>1. ASSUME NEW cmd \in Commands, Handle(cmd) PROVE RouterInv'
    BY <2>1, HandleStep
  <2>2. CASE NewSession
    BY <2>2, NewSessionStep
  <2>3. CASE UNCHANGED routerVars
    BY <2>3 DEF routerVars, RouterInv, RouterTypeOK, GoodState, ValidConfiguration
  <2> QED BY <2>1, <2>2, <2>3 DEF RouterNext
<1> QED BY <1>1, <1>2, PTL DEF RouterSpec

\* Types, for every set of commands.
THEOREM RouterTypeCorrect == RouterSpec => []RouterTypeOK
<1>1. RouterInv => RouterTypeOK
  BY DEF RouterInv
<1> QED BY <1>1, RouterInvariance, PTL

\* The subscription table never exceeds its capacity and never holds two
\* entries for one target, for every limit and every sequence of commands.
THEOREM SubscriptionsAlwaysWellFormed == RouterSpec => []SubscriptionsWellFormed
<1>1. RouterInv => SubscriptionsWellFormed
  BY DEF RouterInv, GoodState, SubscriptionsWellFormed
<1> QED BY <1>1, RouterInvariance, PTL

\* A configured flag always stands for validated parameters.
THEOREM ConfiguredAlwaysValid == RouterSpec => []ConfiguredIsValid
<1>1. RouterInv => ConfiguredIsValid
  BY DEF RouterInv, GoodState, ValidConfiguration, ConfiguredIsValid
<1> QED BY <1>1, RouterInvariance, PTL

\* No step of the router changes what it answers with an error.
LEMMA RouterRejects ==
    ASSUME RouterInv, RouterNext
    PROVE  ~reply'.ok => dev' = dev
  BY HandleStep, NewSessionStep DEF RouterNext

\* Handlers are atomic: a command answered with an error, or by a panic, has
\* changed nothing.
THEOREM RejectedNeverChanges == RouterSpec => RejectedChangesNothing
<1>1. RouterInv /\ [RouterNext]_routerVars => [~reply'.ok => dev' = dev]_routerVars
  BY RouterRejects
<1> QED BY <1>1, RouterInvariance, PTL DEF RouterSpec, RejectedChangesNothing

--------------------------------------------------------------------------------
(* What an acknowledged unsubscribe leaves *)

\* The table has room for a subscription to this target, which it does not hold.
Free(st, target) ==
    /\ Cardinality(st.subscriptions) < MAX_SUBSCRIPTIONS
    /\ ~\E s \in st.subscriptions : same_target(s.target, target)

\* Room and no such target: subscribe succeeds.
LEMMA FreeAccepts ==
    ASSUME NEW cmd \in Commands, NEW st, GoodState(st), NEW target, Free(st, target)
    PROVE  handle_subscribe(cmd, target, st).reply.ok
<1>1. Cardinality(st.subscriptions) \in Nat
  BY FS_CardinalityType DEF GoodState
<1>2. ~(Cardinality(st.subscriptions) >= MAX_SUBSCRIPTIONS)
  BY <1>1 DEF Free
<1> QED BY <1>2 DEF Free, handle_subscribe, Done, Response

\* An accepted Retain has dropped something, so there is room.
LEMMA RetainMakesRoom ==
    ASSUME NEW cmd \in Commands, NEW st, GoodState(st), NEW kept \in SUBSET st.subscriptions,
           Retain(cmd, st, kept).reply.ok
    PROVE  /\ Retain(cmd, st, kept).dev.subscriptions = kept
           /\ Cardinality(kept) < MAX_SUBSCRIPTIONS
<1>1. "not_subscribed" \in ErrorCode
  BY DEF ErrorCode
<1>2. kept # st.subscriptions
  BY <1>1 DEF Retain, Fail, Response
<1>3. /\ Cardinality(kept) <= Cardinality(st.subscriptions)
      /\ Cardinality(kept) = Cardinality(st.subscriptions) => kept = st.subscriptions
      /\ IsFiniteSet(kept)
  BY FS_Subset DEF GoodState
<1>4. Cardinality(kept) \in Nat /\ Cardinality(st.subscriptions) \in Nat
  BY <1>3, FS_CardinalityType DEF GoodState
<1>5. Cardinality(st.subscriptions) <= MAX_SUBSCRIPTIONS
  BY DEF GoodState, WellFormed
<1>6. Cardinality(kept) < MAX_SUBSCRIPTIONS
  BY <1>2, <1>3, <1>4, <1>5
<1>7. [st EXCEPT !.subscriptions = kept].subscriptions = kept
  BY DEF GoodState, DeviceState
<1> QED BY <1>2, <1>6, <1>7 DEF Retain, Done

\* Only gpio and adc have an unsubscribe action, and an accepted command took its
\* handler.
LEMMA UnsubscribeRoutes ==
    ASSUME NEW cmd \in Commands, NEW st, GoodState(st), cmd.action = "unsubscribe",
           respond(cmd, st).reply.ok
    PROVE  /\ cmd.version = 1 /\ cmd.version # NONE /\ cmd.interface # NONE
           /\ \/ cmd.interface = "gpio" /\ respond(cmd, st) = gpio_unsubscribe(cmd, st)
              \/ cmd.interface = "adc" /\ respond(cmd, st) = adc_unsubscribe(cmd, st)
<1>1. /\ "missing_version" \in ErrorCode /\ "unsupported_version" \in ErrorCode
      /\ "unknown_interface" \in ErrorCode /\ "unknown_action" \in ErrorCode
  BY DEF ErrorCode
<1>2. check_version(cmd) = NONE
  BY <1>1 DEF respond, Response
<1>3. validate_route(cmd) = NONE /\ respond(cmd, st) = dispatch(cmd, st)
  BY <1>2 DEF respond, Fail, Response
<1>4. cmd.version = 1 /\ cmd.version # NONE
  BY <1>1, <1>2 DEF check_version
<1>5. /\ cmd.interface # NONE
      /\ cmd.interface \in DOMAIN VALID_ROUTES
      /\ "unsubscribe" \in VALID_ROUTES[cmd.interface]
  BY <1>1, <1>3 DEF validate_route
<1>6. cmd.interface \in {"gpio", "adc"}
  BY <1>5 DEF VALID_ROUTES
<1>7. /\ cmd.interface = "gpio" => dispatch(cmd, st) = gpio_unsubscribe(cmd, st)
      /\ cmd.interface = "adc" => dispatch(cmd, st) = adc_unsubscribe(cmd, st)
  BY DEF dispatch
<1> QED BY <1>3, <1>4, <1>5, <1>6, <1>7

\* A subscribe command for gpio or adc takes its handler.
LEMMA SubscribeRoutes ==
    ASSUME NEW cmd \in Commands, NEW st, cmd.version = 1, cmd.version # NONE, cmd.action = "subscribe",
           cmd.interface # NONE, cmd.interface \in {"gpio", "adc"}
    PROVE  /\ cmd.interface = "gpio" => respond(cmd, st) = gpio_subscribe(cmd, st)
           /\ cmd.interface = "adc" => respond(cmd, st) = adc_subscribe(cmd, st)
<1>1. "subscribe" \in Actions
  BY DEF Actions
<1>2. /\ cmd.interface \in DOMAIN VALID_ROUTES
      /\ "subscribe" \in VALID_ROUTES[cmd.interface]
  BY DEF VALID_ROUTES
<1>3. check_version(cmd) = NONE /\ validate_route(cmd) = NONE
  BY <1>1, <1>2 DEF check_version, validate_route
<1>4. respond(cmd, st) = dispatch(cmd, st)
  BY <1>3 DEF respond
<1>5. /\ cmd.interface = "gpio" => dispatch(cmd, st) = gpio_subscribe(cmd, st)
      /\ cmd.interface = "adc" => dispatch(cmd, st) = adc_subscribe(cmd, st)
  BY DEF dispatch
<1> QED BY <1>4, <1>5

\* After an accepted unsubscribe of a pin the next subscription to it is accepted.
LEMMA PinFreed ==
    ASSUME NEW cmd \in Commands, NEW st, GoodState(st), gpio_unsubscribe(cmd, st).reply.ok,
           NEW c \in Commands, c.pin = cmd.pin, c.trigger \in Opt(Triggers)
    PROVE  gpio_subscribe(c, gpio_unsubscribe(cmd, st).dev).reply.ok
<1> DEFINE kept == {s \in st.subscriptions :
                       ~(s.target.kind \in {"level", "edge"} /\ s.target.key = cmd.pin)}
           new == gpio_unsubscribe(cmd, st).dev
<1>1. "missing_field" \in ErrorCode
  BY DEF ErrorCode
<1>2. cmd.pin # NONE /\ gpio_unsubscribe(cmd, st) = Retain(cmd, st, kept)
  <2>1. cmd.pin # NONE
    BY <1>1 DEF gpio_unsubscribe, Fail, Response
  <2>2. gpio_unsubscribe(cmd, st) = handle_unsubscribe_gpio(cmd, st)
    BY <2>1 DEF gpio_unsubscribe
  <2> QED BY <2>1, <2>2 DEF handle_unsubscribe_gpio
<1>3. new.subscriptions = kept /\ Cardinality(kept) < MAX_SUBSCRIPTIONS
  <2>1. kept \in SUBSET st.subscriptions
    OBVIOUS
  <2> HIDE DEF kept
  <2> QED BY <1>2, <2>1, RetainMakesRoom
<1>4. GoodState(new)
  BY UnsubscribeSound DEF Sound
<1>5. ASSUME NEW target, target.key = cmd.pin, target.kind \in {"level", "edge"}
      PROVE  Free(new, target)
  BY <1>3, <1>5 DEF Free, same_target
<1> HIDE DEF new, kept
<1>6. ASSUME NEW target, target.key = cmd.pin, target.kind \in {"level", "edge"}
      PROVE  handle_subscribe(c, target, new).reply.ok
  BY <1>4, <1>5, <1>6, FreeAccepts
<1>7. gpio_subscribe(c, new).reply.ok
  <2>1. CASE c.trigger # NONE
    <3> DEFINE target == [kind |-> "edge", key |-> c.pin, arg |-> c.trigger]
    <3>1. handle_subscribe(c, target, new).reply.ok
      BY <1>6
    <3> QED BY <1>2, <2>1, <3>1 DEF gpio_subscribe
  <2>2. CASE c.trigger = NONE
    <3> DEFINE target == [kind |-> "level", key |-> c.pin, arg |-> UnwrapOr(c.interval_ms, 100)]
    <3>1. handle_subscribe(c, target, new).reply.ok
      BY <1>6
    <3> QED BY <1>2, <2>2, <3>1 DEF gpio_subscribe
  <2> QED BY <2>1, <2>2
<1> QED BY <1>7 DEF new

\* The same of an ADC channel.
LEMMA ChannelFreed ==
    ASSUME NEW cmd \in Commands, NEW st, GoodState(st), adc_unsubscribe(cmd, st).reply.ok,
           NEW c \in Commands, c.adc_channel = cmd.adc_channel
    PROVE  adc_subscribe(c, adc_unsubscribe(cmd, st).dev).reply.ok
<1> DEFINE kept == {s \in st.subscriptions :
                       ~(s.target.kind = "adc" /\ s.target.key = cmd.adc_channel)}
           new == adc_unsubscribe(cmd, st).dev
           target == [kind |-> "adc", key |-> c.adc_channel, arg |-> UnwrapOr(c.interval_ms, 100)]
<1>1. "missing_field" \in ErrorCode
  BY DEF ErrorCode
<1>2. cmd.adc_channel # NONE /\ adc_unsubscribe(cmd, st) = Retain(cmd, st, kept)
  <2>1. cmd.adc_channel # NONE
    BY <1>1 DEF adc_unsubscribe, Fail, Response
  <2>2. adc_unsubscribe(cmd, st) = handle_unsubscribe_adc(cmd, st)
    BY <2>1 DEF adc_unsubscribe
  <2> QED BY <2>1, <2>2 DEF handle_unsubscribe_adc
<1>3. new.subscriptions = kept /\ Cardinality(kept) < MAX_SUBSCRIPTIONS
  <2>1. kept \in SUBSET st.subscriptions
    OBVIOUS
  <2> HIDE DEF kept
  <2> QED BY <1>2, <2>1, RetainMakesRoom
<1>4. GoodState(new)
  BY UnsubscribeSound DEF Sound
<1>5. Free(new, target)
  BY <1>3 DEF Free, same_target
<1>6. handle_subscribe(c, target, new).reply.ok
  <2> HIDE DEF new, target
  <2> QED BY <1>4, <1>5, FreeAccepts
<1> QED BY <1>2, <1>6 DEF adc_subscribe

\* The answer to an unsubscribe frees what it names.
LEMMA HandleFrees ==
    ASSUME RouterInv, NEW cmd \in Commands, Handle(cmd), reply'.ok, cmd.action = "unsubscribe",
           NEW c \in Commands, Resubscribes(c, cmd)
    PROVE  respond(c, dev').reply.ok
<1>1. GoodState(dev) /\ dev' = respond(cmd, dev).dev /\ respond(cmd, dev).reply.ok
  BY DEF RouterInv, Handle
<1>2. /\ cmd.version = 1 /\ cmd.version # NONE /\ cmd.interface # NONE
      /\ \/ cmd.interface = "gpio" /\ respond(cmd, dev) = gpio_unsubscribe(cmd, dev)
         \/ cmd.interface = "adc" /\ respond(cmd, dev) = adc_unsubscribe(cmd, dev)
  BY <1>1, UnsubscribeRoutes
<1>3. /\ c.version = 1 /\ c.interface = cmd.interface /\ c.action = "subscribe"
      /\ c.pin = cmd.pin /\ c.adc_channel = cmd.adc_channel /\ c.trigger \in Opt(Triggers)
  BY DEF Resubscribes
<1>4. CASE cmd.interface = "gpio"
  <2>1. gpio_subscribe(c, dev').reply.ok
    BY <1>1, <1>2, <1>3, <1>4, PinFreed
  <2>2. respond(c, dev') = gpio_subscribe(c, dev')
    BY <1>2, <1>3, <1>4, SubscribeRoutes
  <2> QED BY <2>1, <2>2
<1>5. CASE cmd.interface = "adc"
  <2>1. adc_subscribe(c, dev').reply.ok
    BY <1>1, <1>2, <1>3, <1>5, ChannelFreed
  <2>2. respond(c, dev') = adc_subscribe(c, dev')
    BY <1>2, <1>3, <1>5, SubscribeRoutes
  <2> QED BY <2>1, <2>2
<1> QED BY <1>2, <1>4, <1>5

\* The step that UnsubscribeFreesTarget is about.
Freed ==
    (reply'.ok /\ request' # NONE /\ request'.action = "unsubscribe")
      => \A c \in Commands : Resubscribes(c, request') => respond(c, dev').reply.ok

\* No step of the router breaks it.
LEMMA RouterFrees ==
    ASSUME RouterInv, RouterNext
    PROVE  Freed
<1>1. CASE \E cmd \in Commands : Handle(cmd)
  <2>1. PICK cmd \in Commands : Handle(cmd)
    BY <1>1
  <2>2. request' = cmd
    BY <2>1 DEF Handle
  <2> QED BY <2>1, <2>2, HandleFrees DEF Freed
<1>2. CASE NewSession
  BY <1>2 DEF NewSession, Freed
<1> QED BY <1>1, <1>2 DEF RouterNext

\* An acknowledged unsubscribe really frees its target: at the subscription limit
\* too, whatever subscriptions the session made before, the next subscription to
\* that pin or channel is accepted.
THEOREM UnsubscribedIsFree == RouterSpec => UnsubscribeFreesTarget
<1>1. RouterInv /\ [RouterNext]_routerVars => [Freed]_routerVars
  BY RouterFrees
<1>2. [][Freed]_routerVars => UnsubscribeFreesTarget
  BY DEF Freed, UnsubscribeFreesTarget
<1> QED BY <1>1, <1>2, RouterInvariance, PTL DEF RouterSpec
================================================================================
