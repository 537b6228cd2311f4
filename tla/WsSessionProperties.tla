--------------------------- MODULE WsSessionProperties ---------------------------
(***************************************************************************)
(* What a WebSocket client may rely on, stated over WsSession.  The         *)
(* reference is a recursive function of the frames that the server has taken. *)
(***************************************************************************)
EXTENDS WsSession, SequencesExt

Writes == {"write_101", "write_header", "write_text", "write_pong", "write_close"}
Upgrades == {"read", "write_101", "write_header", "write_text", "write_pong", "write_close", "reboot"}

\* Every structure stays within its type and every buffer within its size; only
\* the reader is ever inside a frame.
WsTypeOK ==
    /\ RouterTypeOK
    /\ pc \in {"accept", "handshake", "off"} \cup Upgrades
    /\ client \in {"none", "open", "finished", "reset", "vanished"}
    /\ Len(rx) <= RX_SIZE /\ Len(tx) <= TX_SIZE
    /\ out # NONE <=> pc \in Writes \ {"write_close"}
    /\ head # NONE => /\ pc = "read"
                      /\ head.opcode \in Opcodes /\ head.len \in 0..MAX_MSG_LEN

--------------------------------------------------------------------------------
(* The reference *)

\* What one frame makes the server write, and the state it leaves.
Output1(acc, f) ==
    IF Refused(f) THEN acc
    ELSE IF f.opcode = OPCODE_PING /\ f.len <= 125
    THEN [acc EXCEPT !.out = Append(@, Pong(f.payload))]
    ELSE IF f.opcode # OPCODE_TEXT THEN acc
    ELSE LET r == IF f.payload \in DOMAIN Json THEN respond(Json[f.payload], acc.dev)
                  ELSE [dev |-> acc.dev, reply |-> Malformed]
         IN  [dev |-> r.dev,
              out |-> acc.out \o (IF r.reply.id \in UnserializableIds THEN <<>>
                                  ELSE <<TextHeader, Text(r.reply)>>)]

NoFrames == [dev |-> DefaultState, out |-> <<Upgraded>>]

Reference[fs \in Seq(Frames)] ==
    IF fs = <<>> THEN NoFrames ELSE Output1(Reference[Front(fs)], Last(fs))

\* The pieces of frames.
Stream[fs \in Seq(Frames)] ==
    IF fs = <<>> THEN <<>> ELSE Stream[Front(fs)] \o Pieces(Last(fs))

\* The frames of which read_frame has read the last piece.
PiecesRead == Len(Stream[frames]) - Len(unsent) - Len(rx)
Finished(n) == Len(Stream[SubSeq(frames, 1, n)]) <= PiecesRead
Taken == SubSeq(frames, 1, Cardinality({n \in 1..Len(frames) : Finished(n)}))

Pending ==
    CASE pc = "write_header" -> <<TextHeader, out>>
      [] pc \in {"write_101", "write_text", "write_pong"} -> <<out>>
      [] OTHER -> <<>>

Answers == received \o tx \o Pending

--------------------------------------------------------------------------------
(* Properties *)

\* However pieces of frames, timeouts, reads and writes interleave, the server
\* answers the frames it has taken one after the other: a pong for each ping that
\* is small enough, between whole responses and never inside one, and for each text
\* frame the response to its command in the state that this connection's earlier
\* frames left.  Frames are what read_frame cuts the stream into, behind a refused one
\* too: commands in what is left of that one are executed in this order, and the
\* client learns nothing of them.
FramesInOrder ==
    pc \in Upgrades =>
        /\ dev = Reference[Taken].dev
        /\ client # "reset" => Answers = Reference[Taken].out

\* What a client receives it can parse with the repository's own parser: every
\* header announces an unmasked text frame of the length that follows it, in the
\* short form and in the extended one.
HeadersParse ==
    \A i \in DOMAIN received : received[i].kind = "header" =>
        /\ parse_frame_header(received[i].bytes) =
              [opcode |-> OPCODE_TEXT, masked |-> FALSE, payload_len |-> RESPONSE_LEN,
               header_len |-> Len(received[i].bytes)]
        /\ i < Len(received) => received[i + 1].kind = "text"

\* Frames that end what the client hears, and the frames whole in the stream before one.
Ends(f) == f.opcode = OPCODE_CLOSE \/ Refused(f)
Whole ==
    LET sent == IF unsent = <<>> THEN frames ELSE Front(frames)
    IN  SubSeq(sent, 1, SelectInSeq(sent \o <<[opcode |-> OPCODE_CLOSE]>>, Ends) - 1)

\* Every frame of a client that stays and reads is answered before any timeout can
\* end the connection, pings behind commands included.
FramesAnswered ==
    \A n \in 1..2 * FRAME_BOUND + 1 :
        /\ (client = "open" /\ upgrade = "valid" /\ Len(Reference[Whole].out) >= n)
              ~> (\/ Len(Answers) >= n
                  \/ client \in {"finished", "reset", "vanished"}
                  \/ dev.pending_reboot \/ halted)
        /\ (client = "open" /\ Len(Answers) >= n)
              ~> (Len(received) >= n \/ client # "open" \/ dev.pending_reboot)

\* A client that disappears loses the single connection to the idle timeout,
\* wherever in a frame it stopped.  Two states have no timeout: the handshake, and
\* a write to a full buffer.
VanishedReleasedAfterUpgrade ==
    client = "vanished"
        ~> (\/ pc \in {"accept", "off"}
            \/ pc = "handshake"
            \/ pc \in Writes /\ Len(tx) = TX_SIZE)
================================================================================
