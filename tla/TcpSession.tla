-------------------------------- MODULE TcpSession --------------------------------
(***************************************************************************)
(* One device and the clients that connect to it, one at a time:           *)
(* tcp_server's accept loop, handle_client and TcpTransport (src/src/net.rs) *)
(* over the reader of FrameReader and the router of Router.                 *)
(*                                                                         *)
(* The TCP connection is external: two ordered byte queues of bounded size *)
(* (the socket's receive and transmit buffers, with the network's and the  *)
(* client's buffers folded in), which the client fills, drains, half-      *)
(* closes, resets or leaves behind without a word.                          *)
(***************************************************************************)
EXTENDS FrameReader, Router

CONSTANTS
    Json,           \* the commands that frames parse to, a function
    UnserializableIds,  \* ids whose responses exceed MAX_MSG_LEN
    RX_SIZE,        \* receive buffer, in bytes
    TX_SIZE,        \* transmit buffer, in responses
    STREAM_BOUND    \* bytes a client sends per connection (bound of the model)

\* What a client may receive: the router's responses, and those of handle_client to
\* what it could not read.
Replies ==
    [id : Ids, ok : BOOLEAN, error : Opt(ErrorCode \cup {"malformed_json", "msg_too_large"}),
     data : Opt({"config", "version"})]

ASSUME SessionAssumption ==
    /\ \A f \in DOMAIN Json : f \in Seq(Data) /\ Json[f] \in Commands
    /\ NONE \notin Replies
    /\ UnserializableIds \subseteq Ids \ {EMPTY_ID}    \* an error without an id fits a frame
    /\ {RX_SIZE, TX_SIZE} \subseteq Nat \ {0}
    /\ STREAM_BOUND \in Nat

VARIABLES
    pc,         \* "accept", "read", "write", "reboot" (the 650 ms) or "off"
    client,     \* "none", "open", "finished", "reset" or "vanished"
    rx, tx,     \* the socket's buffers: bytes to read, responses to send
    out,        \* the response that write_frame is writing
    stream,     \* every byte this connection's client sent (history)
    received    \* every response it received (history)

sessionVars == <<pc, client, rx, tx, out, stream, received>>
vars == <<readerVars, routerVars, sessionVars>>

SessionInit ==
    /\ Init
    /\ RouterInit
    /\ pc = "accept" /\ client = "none"
    /\ rx = <<>> /\ tx = <<>> /\ out = NONE
    /\ stream = <<>> /\ received = <<>>

--------------------------------------------------------------------------------
(* The client and the network (external) *)

ClientSend(b) ==
    /\ client = "open" /\ pc # "off"
    /\ Len(rx) < RX_SIZE
    /\ Len(stream) < STREAM_BOUND
    /\ rx' = Append(rx, b)
    /\ stream' = Append(stream, b)
    /\ UNCHANGED <<readerVars, routerVars, pc, client, tx, out, received>>

\* The client shuts its sending side and goes on reading.
ClientFinish ==
    /\ client = "open"
    /\ client' = "finished"
    /\ UNCHANGED <<readerVars, routerVars, pc, rx, tx, out, stream, received>>

\* The client closes with unread data or its process dies: the peer gets a RST.
ClientReset ==
    /\ client \in {"open", "finished"}
    /\ client' = "reset"
    /\ tx' = <<>>
    /\ UNCHANGED <<readerVars, routerVars, pc, rx, out, stream, received>>

\* The client loses power or its link: nothing more comes, not even a FIN.
ClientVanish ==
    /\ client \in {"open", "finished"}
    /\ client' = "vanished"
    /\ UNCHANGED <<readerVars, routerVars, pc, rx, tx, out, stream, received>>

Deliver ==
    /\ client \in {"open", "finished"}
    /\ tx # <<>>
    /\ received' = Append(received, Head(tx))
    /\ tx' = Tail(tx)
    /\ UNCHANGED <<readerVars, routerVars, pc, client, rx, out, stream>>

--------------------------------------------------------------------------------
(* The server *)

\* A slip for the checks of the properties: the DeviceState outlives its client.
AcceptKeepingState ==
    /\ pc = "accept"
    /\ pc' = "read" /\ client' = "open"
    /\ stream' = <<>> /\ received' = <<>>
    /\ NewReader
    /\ UNCHANGED <<routerVars, rx, tx, out>>

\* accept, then a new TcpTransport and a new DeviceState in handle_client.
Accept ==
    /\ pc = "accept"
    /\ pc' = "read" /\ client' = "open"
    /\ stream' = <<>> /\ received' = <<>>
    /\ NewReader
    /\ NewSession
    /\ UNCHANGED <<rx, tx, out>>

\* socket.abort(): what is not delivered yet never will be.
Abort ==
    /\ pc' = "accept" /\ client' = "none"
    /\ rx' = <<>> /\ tx' = <<>> /\ out' = NONE
    /\ UNCHANGED <<stream, received>>

ParseError(code) == Response(EMPTY_ID, code, NONE)

\* handle_client once it has served a frame: reboot if asked to, or read on.
NextPc(st) == IF st.pending_reboot THEN "reboot" ELSE "read"

\* parse_command, validate_route and dispatch.  A response that does not fit the
\* buffer is not sent at all.
Serve(frame) ==
    IF frame \notin DOMAIN Json
    THEN /\ out' = ParseError("malformed_json")
         /\ pc' = "write"
         /\ UNCHANGED routerVars
    ELSE /\ Handle(Json[frame])
         /\ \/ /\ halted'
               /\ pc' = "off" /\ UNCHANGED out
            \/ /\ ~halted'
               /\ reply'.id \in UnserializableIds
               /\ pc' = NextPc(dev') /\ UNCHANGED out
            \/ /\ ~halted'
               /\ reply'.id \notin UnserializableIds
               /\ out' = reply' /\ pc' = "write"

\* A slip for the checks of the properties: an oversize line is skipped.
ReportNothing ==
    /\ pc' = "read"
    /\ UNCHANGED <<routerVars, out>>

\* The Protocol error branch of handle_client.
ReportTooLarge ==
    /\ out' = ParseError("msg_too_large")
    /\ pc' = "write"
    /\ UNCHANGED routerVars

\* read_frame takes one byte; a finished frame is served before anything else
\* is awaited.
ReadByte ==
    /\ pc = "read"
    /\ rx # <<>>
    /\ rx' = Tail(rx)
    /\ Push(Head(rx))
    /\ \/ /\ result' = Pending
          /\ UNCHANGED <<routerVars, pc, out>>
       \/ /\ result' = TooLarge
          /\ ReportTooLarge
       \/ /\ result'.kind = "frame"
          /\ Serve(result'.bytes)
    /\ UNCHANGED <<client, tx, stream, received>>

\* read returns 0 or an error: the peer has closed and everything is consumed.
EndOfStream ==
    /\ pc = "read" /\ rx = <<>>
    /\ client \in {"finished", "reset"}
    /\ Abort
    /\ UNCHANGED <<readerVars, routerVars>>

\* A slip for the checks of the properties: the idle timer is started only after
\* the first byte of a line.
TimeoutInsideFrame ==
    /\ pc = "read" /\ rx = <<>> /\ line # <<>>
    /\ client \in {"open", "vanished"}
    /\ Abort
    /\ UNCHANGED <<readerVars, routerVars>>

\* 30 s without a byte.
IdleTimeout ==
    /\ pc = "read" /\ rx = <<>>
    /\ client \in {"open", "vanished"}
    /\ Abort
    /\ UNCHANGED <<readerVars, routerVars>>

\* A slip for the checks of the properties: a write that does not wait for room.
WriteWithoutRoom ==
    /\ pc = "write"
    /\ client # "reset"
    /\ tx' = Append(tx, out)
    /\ out' = NONE
    /\ pc' = NextPc(dev)
    /\ UNCHANGED <<readerVars, routerVars, client, rx, stream, received>>

\* write_all returns once the response is in the transmit buffer.  It waits, with
\* no timeout, as long as the buffer is full.
WriteFrame ==
    /\ pc = "write"
    /\ client # "reset"
    /\ Len(tx) < TX_SIZE
    /\ tx' = Append(tx, out)
    /\ out' = NONE
    /\ pc' = NextPc(dev)
    /\ UNCHANGED <<readerVars, routerVars, client, rx, stream, received>>

\* write_all fails on a reset connection.  handle_client returns, except that it
\* ignores the failure when it reports a message that is too large.
WriteError ==
    /\ pc = "write"
    /\ client = "reset"
    /\ IF out = ParseError("msg_too_large")
       THEN /\ pc' = "read" /\ out' = NONE
            /\ UNCHANGED <<client, rx, tx, stream, received>>
       ELSE Abort
    /\ UNCHANGED <<readerVars, routerVars>>

\* reset_to_usb_boot, 650 ms after the response was handed to the socket.
Reboot ==
    /\ pc = "reboot"
    /\ pc' = "off" /\ client' = "none"
    /\ rx' = <<>> /\ tx' = <<>>
    /\ UNCHANGED <<readerVars, routerVars, out, stream, received>>

ServerStep ==
    ReadByte \/ EndOfStream \/ IdleTimeout \/ WriteFrame \/ WriteError \/ Reboot

ClientStep ==
    (\E b \in Byte : ClientSend(b)) \/ ClientFinish \/ ClientReset \/ ClientVanish

SessionNext == Accept \/ ServerStep \/ ClientStep \/ Deliver

\* The server's task runs whenever it can, as the executor polls it and its
\* timers fire; nothing is assumed of clients but that connected ones read.
SessionSpec ==
    /\ SessionInit /\ [][SessionNext]_vars
    /\ WF_vars(ServerStep)
    /\ WF_vars(Deliver)
================================================================================
