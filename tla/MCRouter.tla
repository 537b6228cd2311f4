-------------------------------- MODULE MCRouter --------------------------------
(* TLC instances of Router.  Cmd builds a command from the fields it sets.     *)
EXTENDS Router, TLC

Cmd(interface, action, fields) ==
    fields @@ [Blank EXCEPT !.id = "c", !.interface = interface, !.action = action]

B64(chars, pad, bad) == [chars |-> chars, pad |-> pad, bad |-> bad]

Payloads ==
    {NONE, B64(0, 0, 0), B64(0, 1, 0), B64(5, 0, 0), B64(6, 2, 0), B64(8, 0, 6),
     B64(683, 1, 0), B64(684, 0, 0), B64(684, 0, 684), B64(688, 0, 688)}

UartCommands ==
    {Cmd("uart", "configure", f) :
        f \in {[uart |-> 0] @@ [baud |-> 9600], [uart |-> 2] @@ [baud |-> 9600],
               [uart |-> 0] @@ [baud |-> 0], [uart |-> 1] @@ [baud |-> 1, stop_bits |-> 3],
               [uart |-> 1, baud |-> 1, data_bits |-> 7, parity |-> "even", stop_bits |-> 2],
               [uart |-> 1, baud |-> 1, parity |-> "mark"], [baud |-> 1]}}
    \cup {Cmd("uart", "write", [uart |-> 0, bytes |-> b]) : b \in Payloads}
    \cup {Cmd("uart", "write", [uart |-> 2, bytes |-> B64(4, 0, 0)])}
    \cup {Cmd("uart", "read", [uart |-> 0])}

SpiCommands ==
    {Cmd("spi", "configure", f) :
        f \in {[spi |-> 0, freq_hz |-> 1], [spi |-> 0, freq_hz |-> 0],
               [spi |-> 0, freq_hz |-> 1, cpol |-> 1, cpha |-> 2], [spi |-> 0]}}
    \cup {Cmd("spi", "write", [spi |-> 0, bytes |-> b]) : b \in {NONE, B64(4, 0, 0)}}
    \cup {Cmd("spi", "transfer", [spi |-> 0])}

I2cCommands ==
    {Cmd("i2c", "configure", [i2c |-> i, freq_hz |-> f]) : i \in {1, NONE}, f \in {400000, 1, NONE}}
    \cup {Cmd("i2c", "write", [i2c |-> 1, addr |-> a, bytes |-> B64(4, 0, 0)]) : a \in {NONE, 80}}
    \cup {Cmd("i2c", "write_read", [i2c |-> 1])}

\* Subscriptions to two pins, one of them in both modes and with an id too long to be
\* stored, and to a channel.
SubscriptionCommands ==
    {Cmd("gpio", "subscribe", f) :
        f \in {[pin |-> 2], [pin |-> 2, id |-> "long"], [pin |-> 2, trigger |-> "edge_both"],
               [pin |-> 29], [pin |-> 2, trigger |-> "edge"], [interval_ms |-> 5]}}
    \cup {Cmd("adc", "subscribe", f) : f \in {[adc_channel |-> 0, interval_ms |-> 5], <<>>}}
    \cup {Cmd("gpio", "unsubscribe", [pin |-> p]) : p \in {2, 29, NONE}}
    \cup {Cmd("adc", "unsubscribe", [adc_channel |-> c]) : c \in {0, 3, NONE}}

StatelessCommands ==
    {Cmd("gpio", "set_mode", f) :
        f \in {[pin |-> 2, mode |-> "input"], [pin |-> 29, mode |-> "input"], [pin |-> 2],
               [pin |-> 2, mode |-> "open"], [pin |-> 2, mode |-> "output", pull |-> "side"]}}
    \cup {Cmd("pwm", a, [channel |-> c, duty_u16 |-> 1, freq_hz |-> f]) :
            a \in {"set_duty", "set_freq", "enable"}, c \in {15, 16}, f \in {0, 1}}
    \cup {Cmd("adc", "read", [adc_channel |-> 3]), Cmd("usb", "write", [bytes |-> B64(4, 0, 0)]),
          Cmd("gpio", "read", [pin |-> 2]), Cmd("config", "get", [pin |-> NONE]),
          Cmd("batch", "run", [pin |-> NONE]), Cmd("uart", "get", [pin |-> NONE]),
          Cmd("can", "read", [pin |-> NONE]), Cmd(NONE, "read", [pin |-> NONE]),
          Cmd("gpio", NONE, [pin |-> NONE]), Cmd("config", "get", [version |-> NONE]),
          Cmd("config", "get", [version |-> 2])}

SystemCommands ==
    {Cmd("system", a, [pin |-> NONE]) : a \in {"get_version", "reboot_to_bootloader"}}

HandlerCommands ==
    UartCommands \cup SpiCommands \cup I2cCommands \cup StatelessCommands
      \cup SystemCommands \cup SubscriptionCommands
================================================================================
