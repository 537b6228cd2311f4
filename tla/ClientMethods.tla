------------------------------ MODULE ClientMethods ------------------------------
(***************************************************************************)
(* The typed methods of PicoConduit (src/client/src/lib.rs): the commands  *)
(* each one sends and the data it reads from the response.  A method is the *)
(* set of its calls.  The library checks no argument, so a call's are any   *)
(* values of the parameters' types, taken from sets that are constants;     *)
(* which of them the device has is another matter (Legal).  Fields that     *)
(* dispatch does not read (value, len, read_len) are left out.              *)
(***************************************************************************)
EXTENDS Router

CONSTANTS
    next_id,    \* the id of a command: a decimal number of up to 20 digits
    Pins,       \* arguments that are a pin,
    Buses,      \* the index of a peripheral,
    Channels,   \* a channel of the PWM or of the converter,
    Settings,   \* another u8,
    Numbers,    \* a u16 or a u32,
    Words       \* and a text

ASSUME MethodAssumption ==
    /\ next_id \in Ids \ (LongIds \cup {EMPTY_ID})
    /\ Pins \cup Buses \cup Channels \cup Settings \subseteq U8
    /\ Numbers \subseteq Nat
    /\ Words \subseteq STRING
    /\ NONE \notin Nat /\ NONE \notin DOMAIN VALID_ROUTES \cup Words

\* The command of a route, with these fields and no other but version and id.
CommandOf(interface, action, fields) ==
    [[f \in DOMAIN Blank |-> IF f \in DOMAIN fields THEN fields[f] ELSE Blank[f]]
        EXCEPT !.id = next_id, !.interface = interface, !.action = action]
NoFields == [f \in {} |-> NONE]

\* A call: its command, the kind of data it reads from the response, and whether
\* it carries bytes.
Method(interface, action, fields, reads, binary) ==
    [command |-> CommandOf(interface, action, fields),
     reads |-> reads, binary |-> binary]

Plain(interface, action, fields) == Method(interface, action, fields, NONE, FALSE)
Reading(interface, action, fields, data) == Method(interface, action, fields, data, FALSE)
Binary(interface, action, fields, data) == Method(interface, action, fields, data, TRUE)

gpio_write == {Plain("gpio", "write", [pin |-> p]) : p \in Pins}
gpio_read == {Reading("gpio", "read", [pin |-> p], "value") : p \in Pins}
gpio_set_mode ==
    {Plain("gpio", "set_mode", [pin |-> p, mode |-> m, pull |-> l]) :
        p \in Pins, m \in Words, l \in Words}

\* A slip for the checks of the properties: the field of the PWM methods.
AdcReadChannel == {Reading("adc", "read", [channel |-> c], "sample") : c \in Channels}

adc_read == {Reading("adc", "read", [adc_channel |-> c], "sample") : c \in Channels}
adc_temp == {Reading("adc", "read", [adc_channel |-> 3], "celsius")}

uart_configure ==
    {Plain("uart", "configure", [uart |-> u, baud |-> b, data_bits |-> d, parity |-> p,
                                 stop_bits |-> s]) :
        u \in Buses, b \in Numbers, d \in Settings, p \in Words, s \in Settings}
uart_write == {Binary("uart", "write", [uart |-> u], NONE) : u \in Buses}
uart_read == {Reading("uart", "read", [uart |-> u], "bytes") : u \in Buses}

spi_configure ==
    {Plain("spi", "configure", [spi |-> s, freq_hz |-> f, cpol |-> l, cpha |-> h]) :
        s \in Buses, f \in Numbers, l \in Settings, h \in Settings}
spi_write == {Binary("spi", "write", [spi |-> s], NONE) : s \in Buses}
spi_transfer == {Binary("spi", "transfer", [spi |-> s], "bytes") : s \in Buses}

i2c_configure ==
    {Plain("i2c", "configure", [i2c |-> i, freq_hz |-> f]) : i \in Buses, f \in Numbers}
i2c_write ==
    {Binary("i2c", "write", [i2c |-> i, addr |-> a], NONE) : i \in Buses, a \in Settings}
i2c_read ==
    {Reading("i2c", "read", [i2c |-> i, addr |-> a], "bytes") : i \in Buses, a \in Settings}
i2c_write_read ==
    {Binary("i2c", "write_read", [i2c |-> i, addr |-> a], "bytes") :
        i \in Buses, a \in Settings}

pwm_set_duty ==
    {Plain("pwm", "set_duty", [channel |-> c, duty_u16 |-> d]) : c \in Channels, d \in Numbers}
pwm_set_freq ==
    {Plain("pwm", "set_freq", [channel |-> c, freq_hz |-> f]) : c \in Channels, f \in Numbers}
pwm_enable == {Plain("pwm", "enable", [channel |-> c]) : c \in Channels}
pwm_disable == {Plain("pwm", "disable", [channel |-> c]) : c \in Channels}

usb_write == {Binary("usb", "write", NoFields, NONE)}
usb_read == {Reading("usb", "read", NoFields, "bytes")}
config_get == {Reading("config", "get", NoFields, "config")}

Methods ==
    gpio_write \cup gpio_read \cup gpio_set_mode \cup adc_read \cup adc_temp
      \cup uart_configure \cup uart_write \cup uart_read
      \cup spi_configure \cup spi_write \cup spi_transfer
      \cup i2c_configure \cup i2c_write \cup i2c_read \cup i2c_write_read
      \cup pwm_set_duty \cup pwm_set_freq \cup pwm_enable \cup pwm_disable
      \cup usb_write \cup usb_read \cup config_get

\* A line that is no Command: bytes_to_json makes an array of numbers where Command
\* has a base64 text, and AdcChannel has no variant but four.
Unparsed(m) == m.binary \/ m.command.adc_channel \notin Opt(AdcChannel)

Answer(m, st) ==
    IF Unparsed(m) THEN Response(EMPTY_ID, "malformed_json", NONE)
    ELSE respond(m.command, st).reply

\* What a call returns: send_raw's Error::Firmware, the method's
\* Error::BadResponse, or Ok.
Outcome(m, st) ==
    LET r == Answer(m, st)
    IN  IF ~r.ok THEN r.error
        ELSE IF m.reads \notin {NONE, r.data} THEN "bad_response"
        ELSE "ok"

--------------------------------------------------------------------------------
(* Properties *)

\* What the device has of each field.
FieldRange ==
    [pin |-> 0..22, mode |-> {"input", "output"}, pull |-> {"up", "down", "none"},
     uart |-> 0..1, baud |-> Nat \ {0}, data_bits |-> {7, 8}, parity |-> Parity,
     stop_bits |-> {1, 2}, spi |-> 0..1, freq_hz |-> Nat \ {0}, cpol |-> 0..1, cpha |-> 0..1,
     i2c |-> 0..1, channel |-> 0..15, adc_channel |-> AdcChannel]
Legal(c) ==
    /\ \A f \in DOMAIN FieldRange : c[f] \in Opt(FieldRange[f])
    /\ c.interface = "i2c" => c.freq_hz \in Opt({100000, 400000})

\* A call that is done and configures a peripheral leaves its arguments there.
Kept(c, st) ==
    c.action = "configure" =>
        CASE c.interface = "uart" ->
               st.uart[c.uart] = [baud |-> c.baud, data_bits |-> c.data_bits, parity |-> c.parity,
                                  stop_bits |-> c.stop_bits, configured |-> TRUE]
          [] c.interface = "spi" ->
               st.spi[c.spi] = [freq_hz |-> c.freq_hz, cpol |-> c.cpol, cpha |-> c.cpha,
                                configured |-> TRUE]
          [] c.interface = "i2c" -> st.i2c[c.i2c] = [freq_hz |-> c.freq_hz, configured |-> TRUE]

\* What may stop a call with an argument that the device does not have.
Refusals == {"value_out_of_range", "invalid_pin", "not_configured", "malformed_json"}

\* The two halves of the repository agree: whatever the session did before, a method
\* that carries no bytes is a command the firmware knows, with every field that its
\* handler reads.  If the device has its arguments, only missing hardware may stop it,
\* and the data it reads is the data it gets; if not, it is refused for them (or for
\* the hardware, which dispatch looks for first), never done with others.
CallsUnderstood ==
    \A m \in Methods : ~m.binary =>
        /\ Outcome(m, dev) \in IF Legal(m.command) THEN {"ok", "not_configured"} ELSE Refusals
        /\ Outcome(m, dev) = "ok" => Kept(m.command, respond(m.command, dev).dev)

==================================================================================
