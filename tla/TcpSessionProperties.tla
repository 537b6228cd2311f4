--------------------------- MODULE TcpSessionProperties ---------------------------
(***************************************************************************)
(* What a client of the TCP server may rely on (PROTOCOL.md), stated over  *)
(* TcpSession.  The reference is a server without buffers, connections or  *)
(* a reader: a recursive function over its bytes.                            *)
(***************************************************************************)
EXTENDS TcpSession, SequencesExt

\* Every structure stays within its type and every buffer within its size.
SessionTypeOK ==
    /\ TypeOK
    /\ RouterTypeOK
    /\ pc \in {"accept", "read", "write", "reboot", "off"}
    /\ client \in {"none", "open", "finished", "reset", "vanished"}
    /\ Len(rx) <= RX_SIZE /\ Len(tx) <= TX_SIZE
    /\ out # NONE <=> pc = "write"

--------------------------------------------------------------------------------
(* The sequential reference *)

\* A response that fits a frame; one that does not is not sent.
Serializable(answer) == answer.id \notin UnserializableIds

Answer(acc, r, st) ==
    [line |-> <<>>, dev |-> st,
     answers |-> Append(acc.answers, r),
     sent |-> IF Serializable(r) THEN Append(acc.sent, r) ELSE acc.sent]

\* What the protocol says of one more byte.
Reference1(acc, b) ==
    IF b # NL THEN [acc EXCEPT !.line = Append(@, b)]
    ELSE IF Len(acc.line) > MAX_MSG_LEN - 1
    THEN Answer(acc, ParseError("msg_too_large"), acc.dev)
    ELSE IF acc.line \notin DOMAIN Json
    THEN Answer(acc, ParseError("malformed_json"), acc.dev)
    ELSE LET r == respond(Json[acc.line], acc.dev) IN Answer(acc, r.reply, r.dev)

NoBytes == [line |-> <<>>, dev |-> DefaultState, answers |-> <<>>, sent |-> <<>>]

Reference[bytes \in Seq(Byte)] ==
    IF bytes = <<>> THEN NoBytes ELSE Reference1(Reference[Front(bytes)], Last(bytes))

Connected == pc \in {"read", "write", "reboot"}
Consumed == SubSeq(stream, 1, Len(stream) - Len(rx))
Answers == received \o tx \o (IF pc = "write" THEN <<out>> ELSE <<>>)

\* PROTOCOL.md, "Pipelining": one response per line, in the order of the lines,
\* however bytes, reads and writes interleave, each computed from the effects of
\* the lines before it in this connection and of no other connection.  A
\* connection that has been reset has lost the responses it did not deliver, and
\* a response that does not fit its buffer is the only one that is left out.
SequentialAnswers ==
    Connected =>
        /\ dev = Reference[Consumed].dev
        /\ client # "reset" => Answers = Reference[Consumed].sent

\* The responses that the lines of this connection are due.
LinesSent == Len(Reference[stream].sent)

\* Every line of a client that stays connected and reads is answered, and before
\* the idle timeout can end the connection: pipelining more lines than the buffers
\* hold neither loses a response nor blocks.
LinesAnswered ==
    \A n \in 1..RX_SIZE + TX_SIZE :
        /\ (client = "open" /\ LinesSent >= n)
              ~> (\/ Len(Answers) >= n
                  \/ client \in {"finished", "reset", "vanished"}
                  \/ dev.pending_reboot \/ halted)
        /\ (client = "open" /\ Len(Answers) >= n)
              ~> (Len(received) >= n \/ client # "open" \/ dev.pending_reboot)

WriteBlocked == pc = "write" /\ Len(tx) = TX_SIZE

\* A client that disappears without a FIN loses the single connection to the idle
\* timeout, wherever in a line it stopped; the one exception is a server that was
\* caught writing to a full buffer.
VanishedReleasedUnlessBlocked ==
    client = "vanished" ~> (pc \in {"accept", "off"} \/ WriteBlocked)

--------------------------------------------------------------------------------
(* What documents and comments say and the code does not do *)

\* PROTOCOL.md: "The server processes commands sequentially from the TCP stream
\* and emits responses in the same order as commands were received".  At the
\* client's FIN read_frame aborts the socket, with responses still in it.
FinishedClientAnswered ==
    [][(client = "finished" /\ client' = "none" /\ pc' = "accept") => tx = <<>>]_vars

\* PROTOCOL.md: "the server closes an idle connection after 30 seconds of
\* inactivity".  write_all has no timeout: when its buffer is full and the client
\* is gone, the server never accepts again.
VanishedClientReleased == client = "vanished" ~> pc \in {"accept", "off"}
================================================================================
