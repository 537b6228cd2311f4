--------------------------------- MODULE Router ---------------------------------
(***************************************************************************)
(* The command router: `DeviceState`, `validate_route` and `dispatch` of   *)
(* src/src/router.rs with the interface handlers they call, as             *)
(* handle_client (src/src/net.rs) applies them to one parsed command after *)
(* another.                                                                *)
(*                                                                         *)
(* A handler is an operator on the device state that returns the new state *)
(* and the response.  Handlers that need hardware answer not_configured in *)
(* this code base, and so they do here.  Strings that are only copied (the *)
(* SSID, the version) are reduced to the kind of response data they make.  *)
(***************************************************************************)
EXTENDS Integers, FiniteSets

CONSTANTS
    NONE,               \* an absent option
    Ids,                \* the ids of commands
    EMPTY_ID,           \* the empty string, the id of answers to unparsed commands
    Commands,           \* the commands clients send
    LongIds,            \* ids longer than the 32 bytes a Subscription can hold
    MAX_SUBSCRIPTIONS,
    MAX_PAYLOAD_LEN     \* size of decode_bytes' buffer

VARIABLES
    dev,        \* DeviceState of the current session
    request,    \* the command being answered (history)
    reply,      \* its Response
    halted      \* a panic stopped the device (panic-probe halts)

routerVars == <<dev, request, reply, halted>>

--------------------------------------------------------------------------------
(* Data *)

U8_MAX == 255
U8 == 0..U8_MAX
Opt(S) == S \cup {NONE}

\* The ERROR_* codes the router answers with, and the panic that answers nothing.
ErrorCode ==
    {"missing_version", "unsupported_version", "missing_field", "unknown_interface",
     "unknown_action", "invalid_pin", "value_out_of_range", "not_configured",
     "invalid_encoding", "subscription_limit", "already_subscribed", "not_subscribed",
     "panic"}

\* What a command can ask of an interface.
Actions ==
    {"read", "write", "transfer", "write_read", "configure", "set_mode", "subscribe",
     "unsubscribe", "set_duty", "set_freq", "enable", "disable", "get", "get_version",
     "reboot_to_bootloader", "run"}

\* A base64 text: its characters without the stripped padding, the number of
\* padding characters, and the place of its first character outside the
\* alphabet (0 if it has none).
Base64 == {b \in [chars : Nat, pad : 0..2, bad : Nat] : b.bad <= b.chars}

Triggers == {"edge_rising", "edge_falling", "edge_both"}
AdcChannel == 0..3

\* The fields of Command that dispatch reads.
Command ==
    [version : Opt(U8), id : Ids, interface : Opt(STRING), action : Opt(STRING),
     pin : Opt(U8), mode : Opt(STRING), pull : Opt(STRING),
     uart : Opt(U8), bytes : Opt(Base64), baud : Opt(Nat), data_bits : Opt(U8),
     parity : Opt(STRING), stop_bits : Opt(U8),
     spi : Opt(U8), freq_hz : Opt(Nat), cpol : Opt(U8), cpha : Opt(U8),
     i2c : Opt(U8), addr : Opt(U8), channel : Opt(U8), duty_u16 : Opt(Nat),
     adc_channel : Opt(AdcChannel), interval_ms : Opt(Nat), trigger : Opt(STRING)]

\* A command that sets no field but its version.
Blank ==
    [version |-> 1, id |-> EMPTY_ID, interface |-> NONE, action |-> NONE,
     pin |-> NONE, mode |-> NONE, pull |-> NONE,
     uart |-> NONE, bytes |-> NONE, baud |-> NONE, data_bits |-> NONE,
     parity |-> NONE, stop_bits |-> NONE,
     spi |-> NONE, freq_hz |-> NONE, cpol |-> NONE, cpha |-> NONE,
     i2c |-> NONE, addr |-> NONE, channel |-> NONE, duty_u16 |-> NONE,
     adc_channel |-> NONE, interval_ms |-> NONE, trigger |-> NONE]

ASSUME RouterAssumption ==
    /\ Commands \subseteq Command
    /\ EMPTY_ID \in Ids
    /\ LongIds \subseteq Ids
    /\ MAX_SUBSCRIPTIONS \in Nat
    /\ MAX_PAYLOAD_LEN \in Nat
    /\ NONE \notin ErrorCode
    /\ NONE \notin Actions

Parity == {"none", "odd", "even"}
UartConfig == [baud : Nat, data_bits : U8, parity : Parity, stop_bits : U8, configured : BOOLEAN]
SpiConfig == [freq_hz : Nat, cpol : U8, cpha : U8, configured : BOOLEAN]
I2cConfig == [freq_hz : Nat, configured : BOOLEAN]

\* A target is an ADC channel polled, a pin polled or a pin watched for edges;
\* arg is the polling interval or the edge.
SubscriptionTarget ==
    [kind : {"adc"}, key : AdcChannel, arg : Nat]
    \cup [kind : {"level"}, key : U8, arg : Nat]
    \cup [kind : {"edge"}, key : U8, arg : Triggers]
Subscription == [id : Ids, target : SubscriptionTarget]

DeviceState ==
    [uart : [0..1 -> UartConfig], spi : [0..1 -> SpiConfig], i2c : [0..1 -> I2cConfig],
     pending_reboot : BOOLEAN, subscriptions : SUBSET Subscription]

\* DeviceState::default.  usb_configured is left out: nothing ever sets it.
\* subscriptions is a set: nothing depends on the vector's order, and no two
\* entries of it are equal (SubscriptionsWellFormed).
DefaultState ==
    [uart |-> [i \in 0..1 |-> [baud |-> 115200, data_bits |-> 8, parity |-> "none",
                               stop_bits |-> 1, configured |-> FALSE]],
     spi  |-> [i \in 0..1 |-> [freq_hz |-> 1000000, cpol |-> 0, cpha |-> 0,
                               configured |-> FALSE]],
     i2c  |-> [i \in 0..1 |-> [freq_hz |-> 100000, configured |-> FALSE]],
     pending_reboot |-> FALSE,
     subscriptions  |-> {}]
usb_configured == FALSE

--------------------------------------------------------------------------------
(* Responses and the checks handlers share *)

ResponseType ==
    [id : Ids, ok : BOOLEAN, error : Opt(ErrorCode), data : Opt({"config", "version"})]

Response(id, error, data) ==
    [id |-> id, ok |-> error = NONE, error |-> error, data |-> data]

\* The result of a handler: the state it leaves and its response.
Fail(cmd, st, error) == [dev |-> st, reply |-> Response(cmd.id, error, NONE)]
Done(cmd, st, data) == [dev |-> st, reply |-> Response(cmd.id, NONE, data)]

\* The first error wins, as with the `?` operator and try_r!.
a ?? b == IF a # NONE THEN a ELSE b

Require(field) == IF field = NONE THEN "missing_field" ELSE NONE

\* A slip for the checks of the properties: a code that is no ERROR_* constant.
OutOfRange(ok) == IF ok THEN NONE ELSE "out_of_range"

InRange(ok) == IF ok THEN NONE ELSE "value_out_of_range"

validate_index(field, max) == Require(field) ?? InRange(field <= max)
RequirePositive(field) == Require(field) ?? InRange(field > 0)
Optional(field, allowed) == InRange(field \in Opt(allowed))

UnwrapOr(field, default) == IF field = NONE THEN default ELSE field
check_configured(configured) == IF configured THEN NONE ELSE "not_configured"

\* base64::decode into a buffer of MAX_PAYLOAD_LEN bytes.  The characters are
\* taken in groups of four; each group is validated, then stored.  A store past
\* the end of the buffer panics.
DecodeGroups(b) == 1..(b.chars + 3) \div 4
GroupEnd(b, g) == IF 4 * g <= b.chars THEN 3 * g ELSE 3 * (g - 1) + (b.chars % 4) - 1
GroupFits(b, g) == GroupEnd(b, g) <= MAX_PAYLOAD_LEN
GroupInvalid(b, g) ==
    \/ b.bad # 0 /\ (b.bad + 3) \div 4 = g
    \/ 4 * g > b.chars /\ b.chars % 4 = 1

base64_decode(b) ==
    IF \E g \in DecodeGroups(b) :
          GroupInvalid(b, g) /\ \A h \in 1..g - 1 : GroupFits(b, h)
    THEN "invalid_encoding"
    ELSE IF \A g \in DecodeGroups(b) : GroupFits(b, g) THEN NONE ELSE "panic"

decode_bytes(field) ==
    IF field = NONE THEN "missing_field"
    ELSE IF field.chars + field.pad = 0 THEN "missing_field"
    ELSE base64_decode(field)

--------------------------------------------------------------------------------
(* GPIO, PWM and ADC handlers *)

is_pin_available(pin) == pin <= 29 /\ pin \notin 23..29

validate_pin(cmd) ==
    Require(cmd.pin) ?? (IF is_pin_available(cmd.pin) THEN NONE ELSE "invalid_pin")

handle_set_mode(cmd) ==
    validate_pin(cmd)
      ?? Require(cmd.mode) ?? InRange(cmd.mode \in {"input", "output"})
      ?? Optional(cmd.pull, {"up", "down", "none"})

validate_channel(cmd) == validate_index(cmd.channel, 15)
handle_set_duty(cmd) == validate_channel(cmd) ?? Require(cmd.duty_u16)
handle_set_freq(cmd) == validate_channel(cmd) ?? RequirePositive(cmd.freq_hz)

validate_read(cmd) == Require(cmd.adc_channel)

--------------------------------------------------------------------------------
(* UART, SPI and I2C: configure stores a validated configuration, write needs it *)

\* A slip for the checks of the properties: the stop bits go unchecked.
UartUnchecked(cmd) ==
    validate_index(cmd.uart, 1) ?? RequirePositive(cmd.baud)
      ?? Optional(cmd.data_bits, {7, 8}) ?? Optional(cmd.parity, Parity)

UartConfigureError(cmd) ==
    validate_index(cmd.uart, 1)
      ?? RequirePositive(cmd.baud)
      ?? Optional(cmd.data_bits, {7, 8})
      ?? Optional(cmd.parity, Parity)
      ?? Optional(cmd.stop_bits, {1, 2})

uart_handle_configure(cmd, st) ==
    LET err == UartConfigureError(cmd)
        cfg == [baud |-> cmd.baud, data_bits |-> UnwrapOr(cmd.data_bits, 8),
                parity |-> UnwrapOr(cmd.parity, "none"),
                stop_bits |-> UnwrapOr(cmd.stop_bits, 1), configured |-> TRUE]
    IN  IF err # NONE THEN Fail(cmd, st, err)
        ELSE Done(cmd, [st EXCEPT !.uart[cmd.uart] = cfg], NONE)

SpiConfigureError(cmd) ==
    validate_index(cmd.spi, 1)
      ?? RequirePositive(cmd.freq_hz)
      ?? Optional(cmd.cpol, {0, 1})
      ?? Optional(cmd.cpha, {0, 1})

\* A slip for the checks of the properties: the flag is set before the error is
\* looked at.
SpiStoreFirst(cmd, st) ==
    LET err == SpiConfigureError(cmd)
        cfg == [st.spi[0] EXCEPT !.configured = TRUE]
    IN  IF err # NONE THEN Fail(cmd, [st EXCEPT !.spi[0] = cfg], err)
        ELSE Done(cmd, [st EXCEPT !.spi[0] = cfg], NONE)

spi_handle_configure(cmd, st) ==
    LET err == SpiConfigureError(cmd)
        cfg == [freq_hz |-> cmd.freq_hz, cpol |-> UnwrapOr(cmd.cpol, 0),
                cpha |-> UnwrapOr(cmd.cpha, 0), configured |-> TRUE]
    IN  IF err # NONE THEN Fail(cmd, st, err)
        ELSE Done(cmd, [st EXCEPT !.spi[cmd.spi] = cfg], NONE)

I2cConfigureError(cmd) ==
    validate_index(cmd.i2c, 1)
      ?? Require(cmd.freq_hz)
      ?? InRange(cmd.freq_hz \in {100000, 400000})

i2c_handle_configure(cmd, st) ==
    LET err == I2cConfigureError(cmd)
        cfg == [freq_hz |-> cmd.freq_hz, configured |-> TRUE]
    IN  IF err # NONE THEN Fail(cmd, st, err)
        ELSE Done(cmd, [st EXCEPT !.i2c[cmd.i2c] = cfg], NONE)

\* peripheral_write! with the handle_write of each interface.
uart_handle_write(cmd, st) ==
    validate_index(cmd.uart, 1)
      ?? check_configured(st.uart[cmd.uart].configured) ?? decode_bytes(cmd.bytes)
spi_handle_write(cmd, st) ==
    validate_index(cmd.spi, 1)
      ?? check_configured(st.spi[cmd.spi].configured) ?? decode_bytes(cmd.bytes)
i2c_handle_write(cmd, st) ==
    validate_index(cmd.i2c, 1)
      ?? check_configured(st.i2c[cmd.i2c].configured)
      ?? Require(cmd.addr) ?? decode_bytes(cmd.bytes)
usb_handle_write(cmd) == check_configured(usb_configured) ?? decode_bytes(cmd.bytes)

--------------------------------------------------------------------------------
(* Subscriptions *)

same_target(a, b) == a.kind = b.kind /\ a.key = b.key

\* The id is copied into a String<32>; when it does not fit, push_str copies
\* nothing and its error is dropped.
SubId(id) == IF id \in LongIds THEN EMPTY_ID ELSE id

\* A slip for the checks of the properties: a limit off by one.
SubscribeOneMore(cmd, target, st) ==
    IF \E s \in st.subscriptions : same_target(s.target, target)
    THEN Fail(cmd, st, "already_subscribed")
    ELSE IF Cardinality(st.subscriptions) > MAX_SUBSCRIPTIONS
    THEN Fail(cmd, st, "subscription_limit")
    ELSE Done(cmd, [st EXCEPT !.subscriptions =
                       @ \cup {[id |-> SubId(cmd.id), target |-> target]}], NONE)

handle_subscribe(cmd, target, st) ==
    IF \E s \in st.subscriptions : same_target(s.target, target)
    THEN Fail(cmd, st, "already_subscribed")
    ELSE IF Cardinality(st.subscriptions) >= MAX_SUBSCRIPTIONS
    THEN Fail(cmd, st, "subscription_limit")
    ELSE Done(cmd, [st EXCEPT !.subscriptions =
                       @ \cup {[id |-> SubId(cmd.id), target |-> target]}], NONE)

\* retain, then compare the lengths.
Retain(cmd, st, kept) ==
    IF kept = st.subscriptions THEN Fail(cmd, st, "not_subscribed")
    ELSE Done(cmd, [st EXCEPT !.subscriptions = kept], NONE)

handle_unsubscribe_adc(cmd, st) ==
    Retain(cmd, st, {s \in st.subscriptions :
                        ~(s.target.kind = "adc" /\ s.target.key = cmd.adc_channel)})

\* A slip for the checks of the properties: edge subscriptions are forgotten.
UnsubscribeLevelOnly(cmd, st) ==
    Retain(cmd, st, {s \in st.subscriptions :
                        ~(s.target.kind = "level" /\ s.target.key = cmd.pin)})

handle_unsubscribe_gpio(cmd, st) ==
    Retain(cmd, st, {s \in st.subscriptions :
                        ~(s.target.kind \in {"level", "edge"} /\ s.target.key = cmd.pin)})

gpio_subscribe(cmd, st) ==
    IF cmd.pin = NONE \/ cmd.trigger \notin Opt(Triggers)
    THEN Fail(cmd, st, "missing_field")
    ELSE handle_subscribe(
            cmd,
            IF cmd.trigger # NONE
            THEN [kind |-> "edge", key |-> cmd.pin, arg |-> cmd.trigger]
            ELSE [kind |-> "level", key |-> cmd.pin, arg |-> UnwrapOr(cmd.interval_ms, 100)],
            st)

gpio_unsubscribe(cmd, st) ==
    IF cmd.pin = NONE THEN Fail(cmd, st, "missing_field")
    ELSE handle_unsubscribe_gpio(cmd, st)

adc_subscribe(cmd, st) ==
    IF cmd.adc_channel = NONE THEN Fail(cmd, st, "missing_field")
    ELSE handle_subscribe(
            cmd,
            [kind |-> "adc", key |-> cmd.adc_channel, arg |-> UnwrapOr(cmd.interval_ms, 100)],
            st)

adc_unsubscribe(cmd, st) ==
    IF cmd.adc_channel = NONE THEN Fail(cmd, st, "missing_field")
    ELSE handle_unsubscribe_adc(cmd, st)

--------------------------------------------------------------------------------
(* Routing *)

VALID_ROUTES ==
    [gpio   |-> {"read", "write", "set_mode", "subscribe", "unsubscribe"},
     uart   |-> {"read", "write", "configure"},
     spi    |-> {"transfer", "write", "configure"},
     i2c    |-> {"read", "write", "write_read", "configure"},
     pwm    |-> {"set_duty", "set_freq", "enable", "disable"},
     adc    |-> {"read", "subscribe", "unsubscribe"},
     usb    |-> {"read", "write"},
     config |-> {"get"},
     system |-> {"get_version", "reboot_to_bootloader"},
     batch  |-> {"run"}]

validate_route(cmd) ==
    IF cmd.interface = NONE THEN "unknown_interface"
    ELSE IF cmd.action = NONE THEN "unknown_action"
    ELSE IF cmd.interface \notin DOMAIN VALID_ROUTES THEN "unknown_interface"
    ELSE IF cmd.action \notin VALID_ROUTES[cmd.interface] THEN "unknown_action"
    ELSE NONE

\* Routes that change no state and carry no data: their error, NONE if there is
\* none.  The ones answered not_configured need hardware this code lacks; a
\* batch is refused here because only dispatch_batch runs it.
StatelessError(cmd, st) ==
    CASE cmd.interface = "gpio" /\ cmd.action = "set_mode" -> handle_set_mode(cmd)
      [] cmd.interface = "adc" -> validate_read(cmd) ?? "not_configured"
      [] cmd.interface = "uart" /\ cmd.action = "write" -> uart_handle_write(cmd, st)
      [] cmd.interface = "spi" /\ cmd.action = "write" -> spi_handle_write(cmd, st)
      [] cmd.interface = "i2c" /\ cmd.action = "write" -> i2c_handle_write(cmd, st)
      [] cmd.interface = "usb" /\ cmd.action = "write" -> usb_handle_write(cmd)
      [] cmd.interface = "pwm" /\ cmd.action = "set_duty" -> handle_set_duty(cmd)
      [] cmd.interface = "pwm" /\ cmd.action = "set_freq" -> handle_set_freq(cmd)
      [] cmd.interface = "pwm" /\ cmd.action \in {"enable", "disable"} -> validate_channel(cmd)
      [] cmd.interface = "batch" -> "unknown_interface"
      [] OTHER -> "not_configured"

Stateless(cmd, st) ==
    LET err == StatelessError(cmd, st)
    IN  IF err # NONE THEN Fail(cmd, st, err) ELSE Done(cmd, st, NONE)

dispatch(cmd, st) ==
    CASE cmd.action = "configure" /\ cmd.interface = "uart" -> uart_handle_configure(cmd, st)
      [] cmd.action = "configure" /\ cmd.interface = "spi" -> spi_handle_configure(cmd, st)
      [] cmd.action = "configure" /\ cmd.interface = "i2c" -> i2c_handle_configure(cmd, st)
      [] cmd.action = "subscribe" /\ cmd.interface = "gpio" -> gpio_subscribe(cmd, st)
      [] cmd.action = "subscribe" /\ cmd.interface = "adc" -> adc_subscribe(cmd, st)
      [] cmd.action = "unsubscribe" /\ cmd.interface = "gpio" -> gpio_unsubscribe(cmd, st)
      [] cmd.action = "unsubscribe" /\ cmd.interface = "adc" -> adc_unsubscribe(cmd, st)
      [] cmd.interface = "config" -> Done(cmd, st, "config")
      [] cmd.action = "get_version" -> Done(cmd, st, "version")
      [] cmd.action = "reboot_to_bootloader" ->
            Done(cmd, [st EXCEPT !.pending_reboot = TRUE], NONE)
      [] OTHER -> Stateless(cmd, st)

check_version(cmd) ==
    IF cmd.version = NONE THEN "missing_version"
    ELSE IF cmd.version # 1 THEN "unsupported_version" ELSE NONE

\* handle_client's answer to a command that is valid JSON.  A version error is
\* found by parse_command, before the id is known to the caller.
respond(cmd, st) ==
    IF check_version(cmd) # NONE
    THEN [dev |-> st, reply |-> Response(EMPTY_ID, check_version(cmd), NONE)]
    ELSE IF validate_route(cmd) # NONE THEN Fail(cmd, st, validate_route(cmd))
    ELSE dispatch(cmd, st)

--------------------------------------------------------------------------------
(* One session after another *)

NoReply == Response(EMPTY_ID, NONE, NONE)

RouterInit ==
    /\ dev = DefaultState
    /\ request = NONE
    /\ reply = NoReply
    /\ halted = FALSE

\* handle_client starts every session with a default DeviceState.
NewSession ==
    /\ ~halted
    /\ dev' = DefaultState
    /\ request' = NONE
    /\ reply' = NoReply
    /\ UNCHANGED halted

\* A panicking handler answers nothing and stops the device for good; the caller
\* handles no further command of a session that asked for the bootloader.
Handle(cmd) ==
    LET r == respond(cmd, dev)
    IN  /\ ~halted
        /\ ~dev.pending_reboot
        /\ dev' = r.dev
        /\ request' = cmd
        /\ reply' = r.reply
        /\ halted' = (r.reply.error = "panic")

RouterNext == (\E cmd \in Commands : Handle(cmd)) \/ NewSession

RouterSpec == RouterInit /\ [][RouterNext]_routerVars

--------------------------------------------------------------------------------
(* Properties *)

\* The state, the response and the request have the types of the code's
\* structures; every configured index lies inside its array.
RouterTypeOK ==
    /\ dev \in DeviceState
    /\ request \in Opt(Commands)
    /\ reply \in ResponseType
    /\ halted \in BOOLEAN

WellFormed(subs) ==
    /\ Cardinality(subs) <= MAX_SUBSCRIPTIONS
    /\ \A s, t \in subs : same_target(s.target, t.target) => s = t

\* After any sequence of subscribe and unsubscribe commands there are at most
\* MAX_SUBSCRIPTIONS entries, so the push whose result handle_subscribe ignores
\* never fails, and no two of them are for the same target.
SubscriptionsWellFormed == WellFormed(dev.subscriptions)

ValidUart(cfg) ==
    cfg.configured =>
        cfg.baud > 0 /\ cfg.data_bits \in {7, 8} /\ cfg.stop_bits \in {1, 2}
ValidSpi(cfg) ==
    cfg.configured => cfg.freq_hz > 0 /\ cfg.cpol \in {0, 1} /\ cfg.cpha \in {0, 1}
ValidI2c(cfg) == cfg.configured => cfg.freq_hz \in {100000, 400000}

\* A peripheral is marked configured only with parameters its hardware supports:
\* no sequence of accepted, rejected and repeated configure commands leaves an
\* unchecked field behind a configured flag.
ConfiguredIsValid ==
    \A i \in 0..1 : ValidUart(dev.uart[i]) /\ ValidSpi(dev.spi[i]) /\ ValidI2c(dev.i2c[i])

\* A command that is answered with an error, whatever its kind and wherever its
\* handler gave up, leaves the session's state as it was.
RejectedChangesNothing == [][~reply'.ok => dev' = dev]_routerVars

\* Subscribe commands for what the unsubscribe command u names.
Resubscribes(c, u) ==
    /\ c.version = 1 /\ c.interface = u.interface /\ c.action = "subscribe"
    /\ c.pin = u.pin /\ c.adc_channel = u.adc_channel
    /\ c.trigger \in Opt(Triggers)

\* An acknowledged unsubscribe frees its target completely: any subscription to
\* that pin, polled or edge-triggered, or to that channel would be accepted at
\* once, at the subscription limit too.
UnsubscribeFreesTarget ==
    [][(reply'.ok /\ request' # NONE /\ request'.action = "unsubscribe")
         => \A c \in Commands : Resubscribes(c, request') => respond(c, dev').reply.ok]_routerVars

--------------------------------------------------------------------------------
(* What documents and comments say and the code does not do *)

\* interfaces/mod.rs: "n <= MAX_PAYLOAD_LEN by construction, so extend_from_slice
\* cannot fail".  base64::decode stores past the buffer before n is known.
NeverPanics == ~halted
================================================================================
