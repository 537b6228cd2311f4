-------------------------------- MODULE WsSession --------------------------------
(***************************************************************************)
(* The WebSocket server: ws_server's accept loop, ws_handshake, WsTransport *)
(* and handle_client (src/src/net.rs) over the router, for one client after  *)
(* another.                                                                  *)
(*                                                                         *)
(* The connection is external, as in TcpSession.  What read_exact waits for *)
(* in one call is one piece of the stream: a request, the two bytes of a    *)
(* header, an extended length, a mask or a payload.  The client's frames are  *)
(* those that read_frame cuts its stream into: a frame that is refused for    *)
(* its length ends with its length, and what its client meant as the frame's  *)
(* mask and payload are frames of their own, which it may send like any       *)
(* others.  A client stops anywhere, and its upgrade request fits the 512     *)
(* bytes that ws_handshake reads.                                            *)
(***************************************************************************)
EXTENDS Router, WsFrames

CONSTANTS
    Json,               \* the commands that payloads parse to, a function
    Frames,             \* the frames that clients send
    UnserializableIds,  \* ids whose responses exceed MAX_MSG_LEN
    RESPONSE_LEN,       \* length of every response
    RX_SIZE, TX_SIZE,   \* the socket's buffers, in pieces
    FRAME_BOUND         \* frames a client sends per connection (bound of the model)

Opcodes == 0..15
Frame == [opcode : Opcodes, fin : {0, 128}, masked : BOOLEAN, len : Nat, payload : Opt(STRING)]

\* What is written to a client, and a header that read_frame has read.
Malformed == Response(EMPTY_ID, "malformed_json", NONE)
Written ==
    [kind : {"101", "header", "text", "pong"}, bytes : Seq(Nat),
     reply : Opt(ResponseType \cup {Malformed}), data : Opt(STRING)]
Header == [at : {"length", "mask", "payload"}, opcode : Opcodes, masked : BOOLEAN, len : Nat]

ASSUME WsAssumption ==
    /\ \A f \in Frames : f \in Frame /\ (f.len = 0 => f.payload = NONE)
    /\ \A p \in DOMAIN Json : Json[p] \in Commands
    /\ UnserializableIds \subseteq Ids \ {EMPTY_ID}    \* an error without an id fits a frame
    /\ NONE \notin Written \cup Header
    /\ RESPONSE_LEN \in 1..MAX_MSG_LEN
    /\ {RX_SIZE, TX_SIZE, FRAME_BOUND} \subseteq Nat \ {0}

VARIABLES
    pc,         \* "accept", "handshake", "read", what is being written, "reboot" or "off"
    client,     \* "none", "open", "finished", "reset" or "vanished"
    upgrade,   \* the upgrade request: "unsent", "valid" or "invalid"
    rx, tx,     \* the socket's buffers
    unsent,     \* pieces of the client's last frame that are not in rx yet
    head,       \* the header that read_frame has read, NONE at a frame's start
    out,        \* what is being written
    frames,     \* the frames that this connection's client began to send (history)
    received    \* what it received (history)

sessionVars == <<pc, client, upgrade, rx, tx, unsent, head, out, frames, received>>
vars == <<routerVars, sessionVars>>

\* A piece of the client's stream: header bytes, or a payload.
Bytes(b) == [bytes |-> b, data |-> NONE]
Payload(p) == [bytes |-> <<>>, data |-> p]

\* What the server writes.
Upgraded == [kind |-> "101", bytes |-> <<>>, reply |-> NONE, data |-> NONE]
TextHeader ==
    [Upgraded EXCEPT !.kind = "header", !.bytes = encode_text_frame_header(RESPONSE_LEN)]
Text(r) == [Upgraded EXCEPT !.kind = "text", !.reply = r]
Pong(p) == [Upgraded EXCEPT !.kind = "pong", !.data = p]

Refused(f) == f.len > MAX_MSG_LEN

\* A client's frame as RFC 6455 lays it out, a refused one up to its length.
Pieces(f) ==
    LET len == IF f.len <= 125 THEN f.len ELSE IF f.len <= 65535 THEN 126 ELSE 127
    IN  <<Bytes(<<f.fin + f.opcode, (IF f.masked THEN 128 ELSE 0) + len>>)>>
          \o (IF len = 126 THEN <<Bytes(<<f.len \div 256, f.len % 256>>)>> ELSE <<>>)
          \o (IF f.masked /\ ~Refused(f) THEN <<Bytes(<<>>)>> ELSE <<>>)
          \o (IF f.len > 0 /\ ~Refused(f) THEN <<Payload(f.payload)>> ELSE <<>>)

WsInit ==
    /\ RouterInit
    /\ pc = "accept" /\ client = "none" /\ upgrade = "unsent"
    /\ rx = <<>> /\ tx = <<>> /\ unsent = <<>> /\ head = NONE /\ out = NONE
    /\ frames = <<>> /\ received = <<>>

--------------------------------------------------------------------------------
(* The client and the network (external) *)

RequestUpgrade ==
    /\ client = "open" /\ upgrade = "unsent" /\ pc # "off"
    /\ upgrade' \in {"valid", "invalid"}
    /\ UNCHANGED <<routerVars, pc, client, rx, tx, unsent, head, out, frames, received>>

StartFrame(f) ==
    /\ client = "open" /\ upgrade # "unsent" /\ pc # "off"
    /\ unsent = <<>> /\ Len(frames) < FRAME_BOUND
    /\ unsent' = Pieces(f)
    /\ frames' = Append(frames, f)
    /\ UNCHANGED <<routerVars, pc, client, upgrade, rx, tx, head, out, received>>

SendPiece ==
    /\ client = "open" /\ unsent # <<>>
    /\ Len(rx) < RX_SIZE
    /\ rx' = Append(rx, Head(unsent)) /\ unsent' = Tail(unsent)
    /\ UNCHANGED <<routerVars, pc, client, upgrade, tx, head, out, frames, received>>

\* It shuts its sending side, closes or dies with a RST, or disappears.
ClientLeave ==
    /\ \/ client = "open" /\ client' = "finished" /\ UNCHANGED tx
       \/ client \in {"open", "finished"} /\ client' = "reset" /\ tx' = <<>>
       \/ client \in {"open", "finished"} /\ client' = "vanished" /\ UNCHANGED tx
    /\ UNCHANGED <<routerVars, pc, upgrade, rx, unsent, head, out, frames, received>>

Deliver ==
    /\ client \in {"open", "finished"} /\ tx # <<>>
    /\ received' = Append(received, Head(tx)) /\ tx' = Tail(tx)
    /\ UNCHANGED <<routerVars, pc, client, upgrade, rx, unsent, head, out, frames>>

--------------------------------------------------------------------------------
(* The accept loop and the handshake *)

\* A slip for the checks of the properties: the DeviceState outlives its client.
AcceptKeepingState ==
    /\ pc = "accept" /\ ~halted
    /\ pc' = "handshake" /\ client' = "open" /\ upgrade' = "unsent"
    /\ frames' = <<>> /\ received' = <<>>
    /\ UNCHANGED <<routerVars, rx, tx, unsent, head, out>>

\* accept.  handle_client's DeviceState, made after the handshake, is not used
\* before.
Accept ==
    /\ pc = "accept"
    /\ pc' = "handshake" /\ client' = "open" /\ upgrade' = "unsent"
    /\ frames' = <<>> /\ received' = <<>>
    /\ NewSession
    /\ UNCHANGED <<rx, tx, unsent, head, out>>

\* socket.abort() and the end of the connection.
Abort ==
    /\ pc' = "accept" /\ client' = "none"
    /\ rx' = <<>> /\ tx' = <<>> /\ unsent' = <<>> /\ head' = NONE /\ out' = NONE
    /\ UNCHANGED <<upgrade, frames, received>>

\* The request has come, and nothing but it is read.  A request that is no upgrade
\* gets no answer.
Handshake ==
    /\ pc = "handshake" /\ upgrade # "unsent"
    /\ \/ /\ upgrade = "valid"
          /\ pc' = "write_101" /\ out' = Upgraded
          /\ UNCHANGED <<client, upgrade, rx, tx, unsent, head, frames, received>>
       \/ upgrade = "invalid" /\ Abort
    /\ UNCHANGED routerVars

--------------------------------------------------------------------------------
(* read_frame *)

Writing(state, what) == pc' = state /\ out' = what

\* handle_client once it has served a frame.
NextPc(st) == IF st.pending_reboot THEN "reboot" ELSE "read"

\* parse_command, validate_route and dispatch, as for TCP.
Serve(p) ==
    IF p \notin DOMAIN Json
    THEN /\ Writing("write_header", Text(Malformed))
         /\ UNCHANGED routerVars
    ELSE /\ Handle(Json[p])
         /\ \/ halted' /\ pc' = "off" /\ UNCHANGED out
            \/ /\ ~halted' /\ reply'.id \in UnserializableIds
               /\ pc' = NextPc(dev') /\ UNCHANGED out
            \/ /\ ~halted' /\ reply'.id \notin UnserializableIds
               /\ Writing("write_header", Text(reply'))

\* A whole frame.  FIN is not looked at; PONG, CONTINUATION, binary and unknown
\* frames and a PING with more than 125 bytes are skipped.
FrameDone(opcode, len, p) ==
    /\ head' = NONE
    /\ \/ opcode = OPCODE_TEXT /\ Serve(p)
       \/ opcode = OPCODE_CLOSE /\ Writing("write_close", NONE) /\ UNCHANGED routerVars
       \/ /\ opcode = OPCODE_PING /\ len <= 125
          /\ Writing("write_pong", Pong(p)) /\ UNCHANGED routerVars
       \/ /\ opcode \notin {OPCODE_TEXT, OPCODE_CLOSE}
          /\ opcode = OPCODE_PING => len > 125
          /\ UNCHANGED <<routerVars, pc, out>>

Awaiting(h, at) == head' = [h EXCEPT !.at = at] /\ UNCHANGED <<routerVars, pc, out>>

Consumed == rx' = Tail(rx) /\ UNCHANGED <<client, upgrade, tx, unsent, frames, received>>

\* A frame that is too large has its socket aborted before handle_client writes the
\* error.  That write fails, nobody looks at its result, and handle_client goes on to
\* the next header: the socket that is aborted can still be read until its buffer is
\* empty.
Refuse ==
    /\ client' = "reset" /\ tx' = <<>>
    /\ rx' = Tail(rx) /\ head' = NONE
    /\ UNCHANGED <<routerVars, pc, upgrade, unsent, out, frames, received>>

\* The length is known.
LengthKnown(h, len) ==
    LET known == [h EXCEPT !.len = len]
    IN  \/ len > MAX_MSG_LEN /\ Refuse
        \/ /\ len <= MAX_MSG_LEN
           /\ Consumed
           /\ \/ h.masked /\ Awaiting(known, "mask")
              \/ ~h.masked /\ len > 0 /\ Awaiting(known, "payload")
              \/ ~h.masked /\ len = 0 /\ FrameDone(h.opcode, 0, NONE)

ReadHeader(raw) ==
    LET h == [at |-> "length", opcode |-> opcode_of(raw), masked |-> is_masked(raw), len |-> 0]
    IN  \/ len7(raw) <= 125 /\ LengthKnown(h, len7(raw))
        \/ len7(raw) = 126 /\ Awaiting(h, "length") /\ Consumed
        \/ len7(raw) = 127 /\ Refuse

ReadMask ==
    /\ IF head.len > 0 THEN Awaiting(head, "payload") ELSE FrameDone(head.opcode, 0, NONE)
    /\ Consumed

ReadPayload ==
    /\ FrameDone(head.opcode, head.len, Head(rx).data)
    /\ Consumed

\* One read_exact of read_frame.
ReadPiece ==
    /\ pc = "read" /\ rx # <<>>
    /\ \/ head = NONE /\ ReadHeader(Head(rx).bytes)
       \/ head # NONE /\ head.at = "length" /\ LengthKnown(head, len16(Head(rx).bytes))
       \/ head # NONE /\ head.at = "mask" /\ ReadMask
       \/ head # NONE /\ head.at = "payload" /\ ReadPayload

\* A read that returns 0 or an error.
EndOfStream ==
    /\ \/ pc = "read" /\ rx = <<>>
       \/ pc = "handshake" /\ upgrade = "unsent"
    /\ client \in {"finished", "reset"}
    /\ Abort
    /\ UNCHANGED routerVars

\* A slip for the checks of the properties: only the first piece of a frame is
\* read with a timeout.
TimeoutAtHeader ==
    /\ pc = "read" /\ rx = <<>> /\ head = NONE
    /\ client \in {"open", "vanished"}
    /\ Abort
    /\ UNCHANGED routerVars

\* 30 s without a byte.  The handshake has no timeout.
IdleTimeout ==
    /\ pc = "read" /\ rx = <<>>
    /\ client \in {"open", "vanished"}
    /\ Abort
    /\ UNCHANGED routerVars

--------------------------------------------------------------------------------
(* Writing *)

HasRoom == client # "reset" /\ Len(tx) < TX_SIZE

Wrote(what, state, next) ==
    /\ tx' = Append(tx, what)
    /\ pc' = state /\ out' = next
    /\ UNCHANGED <<routerVars, client, upgrade, rx, unsent, head, frames, received>>

\* A slip for the checks of the properties: a pong waits for nothing, and is lost
\* when there is no room.
PongOrNothing ==
    /\ pc = "write_pong" /\ client # "reset"
    /\ tx' = IF Len(tx) < TX_SIZE THEN Append(tx, out) ELSE tx
    /\ pc' = "read" /\ out' = NONE
    /\ UNCHANGED <<routerVars, client, upgrade, rx, unsent, head, frames, received>>

WritePong == pc = "write_pong" /\ HasRoom /\ Wrote(out, "read", NONE)

\* A slip for the checks of the properties: a write that does not wait for room.
WriteWithoutRoom ==
    \/ pc = "write_101" /\ HasRoom /\ Wrote(out, "read", NONE)
    \/ pc = "write_header" /\ HasRoom /\ Wrote(TextHeader, "write_text", out)
    \/ pc = "write_text" /\ client # "reset" /\ Wrote(out, NextPc(dev), NONE)

\* write_all of the handshake's response, and write_frame's two: each waits for
\* room, with no timeout.
Write ==
    \/ pc = "write_101" /\ HasRoom /\ Wrote(out, "read", NONE)
    \/ pc = "write_header" /\ HasRoom /\ Wrote(TextHeader, "write_text", out)
    \/ pc = "write_text" /\ HasRoom /\ Wrote(out, NextPc(dev), NONE)

\* The answer to a close frame is handed to a socket that is aborted before it can
\* send it.
WriteClose ==
    /\ pc = "write_close" /\ HasRoom
    /\ Abort
    /\ UNCHANGED routerVars

\* A failed pong is ignored; every other failed write ends the connection.
WriteError ==
    /\ client = "reset"
    /\ \/ /\ pc = "write_pong"
          /\ pc' = "read" /\ out' = NONE
          /\ UNCHANGED <<client, upgrade, rx, tx, unsent, head, frames, received>>
       \/ pc \in {"write_101", "write_header", "write_text", "write_close"} /\ Abort
    /\ UNCHANGED routerVars

Reboot ==
    /\ pc = "reboot"
    /\ pc' = "off" /\ client' = "none" /\ rx' = <<>> /\ tx' = <<>> /\ unsent' = <<>>
    /\ UNCHANGED <<routerVars, upgrade, head, out, frames, received>>

ServerStep ==
    Handshake \/ ReadPiece \/ EndOfStream \/ IdleTimeout \/ WritePong \/ Write \/ WriteClose
      \/ WriteError \/ Reboot

ClientStep == RequestUpgrade \/ (\E f \in Frames : StartFrame(f)) \/ SendPiece \/ ClientLeave

WsNext == Accept \/ ServerStep \/ ClientStep \/ Deliver

\* The server's task runs whenever it can; of clients nothing is assumed but that
\* connected ones read.
WsSpec ==
    /\ WsInit /\ [][WsNext]_vars
    /\ WF_vars(ServerStep)
    /\ WF_vars(Deliver)
==================================================================================
