------------------------------- MODULE MCWsSession -------------------------------
(* TLC instance of WsSession: frames in each length form, masked and not, of every *)
(* kind the server tells apart; commands that configure, that fail before this and *)
(* panic after it, that reboot, and that have a response which does not fit.       *)
EXTENDS WsSessionProperties, TLC

Cmd(id, interface, action, fields) ==
    fields @@ [Blank EXCEPT !.id = id, !.interface = interface, !.action = action]

MCJson ==
    [conf |-> Cmd("c", "uart", "configure", [uart |-> 0, baud |-> 9600]),
     burst |-> Cmd("c", "uart", "write",
                   [uart |-> 0, bytes |-> [chars |-> 684, pad |-> 0, bad |-> 0]]),
     boot |-> Cmd("c", "system", "reboot_to_bootloader", <<>>),
     long |-> Cmd("long", "gpio", "write", [pin |-> 2])]

MCCommands == {MCJson[p] : p \in DOMAIN MCJson}

F(opcode, masked, len, payload) ==
    [opcode |-> opcode, fin |-> 128, masked |-> masked, len |-> len, payload |-> payload]

MCFrames ==
    {F(OPCODE_TEXT, FALSE, 125, "conf"), F(OPCODE_TEXT, FALSE, 760, "burst"),
     [F(OPCODE_TEXT, TRUE, 60, "boot") EXCEPT !.fin = 0], F(OPCODE_TEXT, TRUE, 1024, "long"),
     F(OPCODE_TEXT, FALSE, 0, NONE), F(OPCODE_PING, TRUE, 4, "echo"),
     F(OPCODE_PING, TRUE, 126, "echo"), F(OPCODE_PONG, TRUE, 0, NONE),
     F(OPCODE_CLOSE, TRUE, 2, "code"), F(OPCODE_TEXT, TRUE, 1025, NONE),
     F(OPCODE_PING, FALSE, 65536, NONE)}
================================================================================
