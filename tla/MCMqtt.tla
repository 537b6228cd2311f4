--------------------------------- MODULE MCMqtt ---------------------------------
(* TLC instance of MqttClient: a command that configures, one that fails before   *)
(* that and panics after it, a reboot, and one whose response does not fit.       *)
EXTENDS MqttClient, TLC

Cmd(id, interface, action, fields) ==
    fields @@ [Blank EXCEPT !.id = id, !.interface = interface, !.action = action]

MCCommands ==
    {Cmd("conf", "uart", "configure", [uart |-> 0, baud |-> 9600]),
     Cmd("burst", "uart", "write",
         [uart |-> 0, bytes |-> [chars |-> 684, pad |-> 0, bad |-> 0]]),
     Cmd("boot", "system", "reboot_to_bootloader", <<>>),
     Cmd("long", "adc", "subscribe", [adc_channel |-> 0])}
=================================================================================
