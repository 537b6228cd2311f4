------------------------------- MODULE MCTcpSession -------------------------------
(* TLC instance of TcpSession: three bytes and the newline, lines of up to two  *)
(* data bytes, and six lines that are JSON: subscribe, unsubscribe, reboot,     *)
(* configure a UART, write more to it than its buffer holds, and a command      *)
(* whose id is too long to be answered.                                         *)
EXTENDS TcpSessionProperties

CONSTANTS sub, conf, boot, nl

Bytes == {sub, conf, boot, nl}

Cmd(id, interface, action, fields) ==
    fields @@ [Blank EXCEPT !.id = id, !.interface = interface, !.action = action]

MCJson ==
    <<sub>> :> Cmd("sub", "gpio", "subscribe", [pin |-> 2])
      @@ <<conf>> :> Cmd("uart", "uart", "configure", [uart |-> 0, baud |-> 9600])
      @@ <<boot>> :> Cmd("boot", "system", "reboot_to_bootloader", <<>>)
      @@ <<sub, conf>> :> Cmd("unsub", "gpio", "unsubscribe", [pin |-> 2])
      @@ <<conf, sub>> :> Cmd("long", "gpio", "write", [pin |-> 2])
      @@ <<boot, conf>> :> Cmd("uart", "uart", "write",
                               [uart |-> 0, bytes |-> [chars |-> 684, pad |-> 0, bad |-> 0]])

MCCommands == {MCJson[f] : f \in DOMAIN MCJson}
================================================================================
