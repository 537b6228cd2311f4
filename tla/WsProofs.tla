-------------------------------- MODULE WsProofs --------------------------------
(***************************************************************************)
(* Proofs about WsFrames and WsSession, for every limit on messages, every  *)
(* buffer size and every set of commands and frames.                        *)
(*                                                                         *)
(* HeaderInv tells where a header may stand without its payload.  FrameInv   *)
(* tells the server's place in the stream: behind k whole frames and j pieces *)
(* of the next, head being what those pieces say.  The pieces that are left   *)
(* are in the socket and with the client, and what is answered is the         *)
(* reference for the first k.                                                 *)
(***************************************************************************)
EXTENDS WsSessionProperties, RouterProofs

--------------------------------------------------------------------------------
(* Headers *)

\* What encode_text_frame_header writes, parse_frame_header reads back, for every
\* length up to the limit and in both forms.
THEOREM HeaderRoundTrip ==
    ASSUME NEW n \in 0..MAX_MSG_LEN
    PROVE  parse_frame_header(encode_text_frame_header(n)) =
              [opcode |-> OPCODE_TEXT, masked |-> FALSE, payload_len |-> n,
               header_len |-> Len(encode_text_frame_header(n))]
<1>0. MAX_MSG_LEN \in Nat /\ n \in Nat /\ n <= MAX_MSG_LEN /\ n <= 65535
  BY FrameAssumption
<1>1. CASE n <= 125
  <2> DEFINE raw == <<129, n>>
  <2>1. encode_text_frame_header(n) = raw
    BY <1>0, <1>1 DEF encode_text_frame_header
  <2>2. raw[1] = 129 /\ raw[2] = n /\ Len(raw) = 2
    OBVIOUS
  <2>3. opcode_of(raw) = 1 /\ ~is_masked(raw) /\ len7(raw) = n
    BY <2>2, <1>0, <1>1 DEF opcode_of, is_masked, len7
  <2>4. is_masked(raw) = FALSE
    BY <2>3 DEF is_masked
  <2>5. parse_frame_header(raw) =
           [opcode |-> opcode_of(raw), masked |-> is_masked(raw), payload_len |-> len7(raw),
            header_len |-> 2]
    <3> HIDE DEF raw
    <3> QED BY <2>2, <2>3, <1>0, <1>1 DEF parse_frame_header
  <2>6. opcode_of(raw) = OPCODE_TEXT /\ len7(raw) = n /\ Len(raw) = 2
    BY <2>2, <2>3 DEF OPCODE_TEXT
  <2> HIDE DEF raw
  <2> QED BY <2>1, <2>4, <2>5, <2>6, Zenon
<1>2. CASE n > 125
  <2> DEFINE raw == <<129, 126, n \div 256, n % 256>>
  <2>1. encode_text_frame_header(n) = raw
    BY <1>0, <1>2 DEF encode_text_frame_header
  <2>2. raw[1] = 129 /\ raw[2] = 126 /\ Len(raw) = 4 /\ raw[3] = n \div 256 /\ raw[4] = n % 256
    OBVIOUS
  <2>3. opcode_of(raw) = 1 /\ ~is_masked(raw) /\ len7(raw) = 126
    BY <2>2 DEF opcode_of, is_masked, len7
  <2>4. is_masked(raw) = FALSE
    BY <2>3 DEF is_masked
  <2>5. SubSeq(raw, 3, 4)[1] = raw[3] /\ SubSeq(raw, 3, 4)[2] = raw[4]
    OBVIOUS
  <2>6. len16(SubSeq(raw, 3, 4)) = n
    BY <1>0, <2>5, <2>2 DEF len16
  <2>7. parse_frame_header(raw) =
           [opcode |-> opcode_of(raw), masked |-> is_masked(raw),
            payload_len |-> len16(SubSeq(raw, 3, 4)), header_len |-> 4]
    <3> HIDE DEF raw
    <3> QED BY <2>2, <2>3 DEF parse_frame_header
  <2>8. opcode_of(raw) = OPCODE_TEXT /\ len16(SubSeq(raw, 3, 4)) = n /\ Len(raw) = 4
    BY <2>2, <2>3, <2>6 DEF OPCODE_TEXT
  <2> HIDE DEF raw
  <2> QED BY <2>1, <2>4, <2>7, <2>8, Zenon
<1> QED BY <1>0, <1>1, <1>2
--------------------------------------------------------------------------------
(* Headers and their payloads *)

IsSeq(s) == \E S : s \in Seq(S)

\* What write_frame is about to write, by the place where it stands.
OutFits ==
    /\ pc = "write_101" => out.kind = "101"
    /\ pc = "write_pong" => out.kind = "pong"
    /\ pc \in {"write_header", "write_text"} => out.kind = "text"

\* Every header in s is write_frame's, and a text follows it unless it is the last.
Paired(s) ==
    \A i \in 1..Len(s) : s[i].kind = "header" =>
        /\ s[i].bytes = encode_text_frame_header(RESPONSE_LEN)
        /\ i < Len(s) => s[i + 1].kind = "text"

EndsInHeader(s) == Len(s) > 0 /\ s[Len(s)].kind = "header"

\* A header that has no text yet is what write_frame wrote last, unless the client
\* reads nothing any more.
HeaderInv ==
    /\ IsSeq(tx) /\ IsSeq(received)
    /\ Paired(tx) /\ Paired(received)
    /\ EndsInHeader(received) /\ Len(tx) > 0 => tx[1].kind = "text"
    /\ client \in {"open", "finished", "vanished"} =>
          /\ EndsInHeader(tx) => pc = "write_text"
          /\ EndsInHeader(received) /\ Len(tx) = 0 => pc = "write_text"
    /\ pc = "accept" => Len(tx) = 0
    /\ OutFits

\* The empty buffer satisfies what is said of a sequence.
LEMMA EmptyPaired == IsSeq(<<>>) /\ Paired(<<>>) /\ ~EndsInHeader(<<>>) /\ Len(<<>>) = 0
<1>1. <<>> \in Seq({}) /\ Len(<<>>) = 0
  OBVIOUS
<1> QED BY <1>1 DEF IsSeq, Paired, EndsInHeader

\* A write behind a sequence that does not end in a header, or of a text.
LEMMA AppendPaired ==
    ASSUME NEW s, NEW x, IsSeq(s), Paired(s),
           EndsInHeader(s) => x.kind = "text",
           x.kind = "header" => x.bytes = encode_text_frame_header(RESPONSE_LEN)
    PROVE  /\ IsSeq(Append(s, x)) /\ Paired(Append(s, x))
           /\ EndsInHeader(Append(s, x)) <=> x.kind = "header"
           /\ Len(Append(s, x)) > 0
           /\ Append(s, x)[1] = IF Len(s) > 0 THEN s[1] ELSE x
<1>1. PICK S : s \in Seq(S)
  BY DEF IsSeq
<1> DEFINE t == Append(s, x)
           T == S \cup {x}
<1>2. s \in Seq(T) /\ x \in T
  BY <1>1
<1>3. /\ t \in Seq(T) /\ Len(s) \in Nat /\ Len(t) = Len(s) + 1
      /\ \A i \in 1..Len(s) : t[i] = s[i]
      /\ t[Len(s) + 1] = x
  BY <1>2
<1> HIDE DEF t
<1>4. EndsInHeader(t) <=> x.kind = "header"
  BY <1>3 DEF EndsInHeader
<1>5. ASSUME NEW i \in 1..Len(t), t[i].kind = "header"
      PROVE  /\ t[i].bytes = encode_text_frame_header(RESPONSE_LEN)
             /\ i < Len(t) => t[i + 1].kind = "text"
  <2>1. CASE i = Len(s) + 1
    BY <2>1, <1>3, <1>5
  <2>2. CASE i = Len(s) /\ i > 0
    BY <2>2, <1>3, <1>5 DEF Paired, EndsInHeader
  <2>3. CASE i < Len(s)
    BY <2>3, <1>3, <1>5 DEF Paired
  <2> QED BY <2>1, <2>2, <2>3, <1>3
<1>6. Paired(t)
  BY <1>5 DEF Paired
<1> QED BY <1>3, <1>4, <1>6 DEF t, IsSeq

\* What is left when the client has taken the first of a sequence.
LEMMA TailPaired ==
    ASSUME NEW s, IsSeq(s), Paired(s), s # <<>>
    PROVE  /\ IsSeq(Tail(s)) /\ Paired(Tail(s))
           /\ EndsInHeader(Tail(s)) => EndsInHeader(s)
           /\ Len(s) > 0 /\ Head(s) = s[1]
           /\ Len(Tail(s)) > 0 => Len(s) > 1 /\ Tail(s)[1] = s[2]
           /\ Len(Tail(s)) = 0 => Len(s) = 1
<1>1. PICK S : s \in Seq(S)
  BY DEF IsSeq
<1> DEFINE t == Tail(s)
<1>2. /\ t \in Seq(S) /\ Len(s) \in Nat /\ Len(s) > 0 /\ Len(t) = Len(s) - 1
      /\ \A i \in 1..Len(t) : t[i] = s[i + 1]
      /\ Head(s) = s[1]
  BY <1>1
<1> HIDE DEF t
<1>3. Paired(t)
  BY <1>2 DEF Paired
<1>4. EndsInHeader(t) => EndsInHeader(s)
  BY <1>2 DEF EndsInHeader
<1> QED BY <1>2, <1>3, <1>4 DEF t, IsSeq

\* A step that writes and delivers nothing.
LEMMA WsQuietStep ==
    ASSUME HeaderInv, UNCHANGED <<tx, received>>, OutFits',
           client' = client \/ client' \notin {"open", "finished", "vanished"}
             \/ client \in {"open", "finished", "vanished"},
           pc = "write_text" => pc' = "write_text",
           pc' = "accept" => pc = "accept"
    PROVE  HeaderInv'
  BY DEF HeaderInv, Paired, EndsInHeader, IsSeq

\* The end of a connection empties the buffer and leaves no client.
LEMMA AbortStep ==
    ASSUME HeaderInv, Abort
    PROVE  HeaderInv'
<1>1. tx' = <<>> /\ received' = received /\ client' = "none" /\ pc' = "accept"
  BY DEF Abort
<1>2. IsSeq(tx)' /\ Paired(tx)' /\ Len(tx') = 0
  BY <1>1, EmptyPaired DEF Paired, IsSeq
<1>3. IsSeq(received)' /\ Paired(received)'
  BY <1>1 DEF HeaderInv, Paired, IsSeq
<1>4. OutFits'
  BY <1>1 DEF OutFits
<1> QED BY <1>1, <1>2, <1>3, <1>4 DEF HeaderInv

\* A write of the 101 response, a header, a text or a pong.
LEMMA WroteStep ==
    ASSUME HeaderInv, NEW what, NEW state, NEW next, Wrote(what, state, next),
           client # "reset", pc \in {"write_101", "write_header", "write_text", "write_pong"},
           pc = "write_text" => what.kind = "text",
           what.kind = "header" => /\ state = "write_text"
                                   /\ what.bytes = encode_text_frame_header(RESPONSE_LEN),
           client \in {"open", "finished", "vanished"},
           state # "accept", OutFits'
    PROVE  HeaderInv'
<1>1. /\ tx' = Append(tx, what) /\ received' = received /\ pc' = state /\ client' = client
  BY DEF Wrote
<1>2. EndsInHeader(tx) => what.kind = "text"
  BY DEF HeaderInv
<1>3. /\ IsSeq(tx') /\ Paired(tx')
      /\ EndsInHeader(tx') <=> what.kind = "header"
      /\ Len(tx') > 0
      /\ tx'[1] = IF Len(tx) > 0 THEN tx[1] ELSE what
  BY <1>1, <1>2, AppendPaired DEF HeaderInv
<1>4. IsSeq(tx)' /\ Paired(tx)' /\ (EndsInHeader(tx)' <=> what.kind = "header")
  <2>1. IsSeq(tx)'
    BY <1>3, Zenon DEF IsSeq
  <2>2. Paired(tx)'
    BY <1>3, Zenon DEF Paired
  <2>3. EndsInHeader(tx)' <=> what.kind = "header"
    BY <1>3, Zenon DEF EndsInHeader
  <2> QED BY <2>1, <2>2, <2>3
<1>5. IsSeq(received)' /\ Paired(received)' /\ (EndsInHeader(received)' <=> EndsInHeader(received))
  BY <1>1 DEF HeaderInv, IsSeq, Paired, EndsInHeader
<1>6. Len(tx) \in Nat
  BY DEF HeaderInv, IsSeq
<1>7. EndsInHeader(received) => tx'[1].kind = "text"
  BY <1>3, <1>6 DEF HeaderInv
<1> QED BY <1>1, <1>3, <1>4, <1>5, <1>7 DEF HeaderInv

\* What a whole frame makes handle_client write.
LEMMA FrameDoneStep ==
    ASSUME HeaderInv, pc = "read", NEW opcode, NEW len, NEW p, FrameDone(opcode, len, p),
           UNCHANGED <<client, tx, received>>
    PROVE  HeaderInv'
<1>1. OutFits'
  <2>1. CASE Serve(p)
    BY <2>1, Zenon DEF Serve, OutFits, Writing, Text, Upgraded, NextPc
  <2>2. CASE Writing("write_close", NONE)
    BY <2>2 DEF OutFits, Writing
  <2>3. CASE Writing("write_pong", Pong(p))
    BY <2>3 DEF OutFits, Writing, Pong, Upgraded
  <2>4. CASE UNCHANGED <<pc, out>>
    BY <2>4 DEF OutFits
  <2> QED BY <2>1, <2>2, <2>3, <2>4 DEF FrameDone
<1>2. pc' # "accept"
  BY DEF FrameDone, Serve, Writing, NextPc
<1> QED BY <1>1, <1>2, WsQuietStep

\* The end of what a client can send and receive.
LEMMA RefuseStep ==
    ASSUME HeaderInv, pc = "read", Refuse
    PROVE  HeaderInv'
<1>1. client' = "reset" /\ tx' = <<>> /\ UNCHANGED <<pc, out, received>>
  BY DEF Refuse
<1>2. IsSeq(tx)' /\ Paired(tx)' /\ Len(tx') = 0
  BY <1>1, EmptyPaired DEF Paired, IsSeq
<1>3. IsSeq(received)' /\ Paired(received)' /\ OutFits'
  BY <1>1 DEF HeaderInv, Paired, IsSeq, OutFits
<1> QED BY <1>1, <1>2, <1>3 DEF HeaderInv

\* Reading one piece of a frame.
LEMMA ReadPieceStep ==
    ASSUME HeaderInv, ReadPiece
    PROVE  HeaderInv'
<1>1. pc = "read"
  BY DEF ReadPiece
<1>2. ASSUME NEW h, NEW at, Awaiting(h, at), UNCHANGED <<client, tx, received>>
      PROVE  HeaderInv'
  <2>1. OutFits'
    BY <1>2 DEF Awaiting, HeaderInv, OutFits
  <2> QED BY <1>1, <1>2, <2>1, WsQuietStep DEF Awaiting
<1>3. ASSUME NEW h, NEW len, LengthKnown(h, len)
      PROVE  HeaderInv'
  <2>1. CASE Refuse
    BY <1>1, <2>1, RefuseStep
  <2>2. CASE ~Refuse
    <3>1. UNCHANGED <<client, tx, received>>
      BY <1>3, <2>2 DEF LengthKnown, Consumed
    <3>2. \/ \E g, at : Awaiting(g, at)
          \/ FrameDone(h.opcode, 0, NONE)
      BY <1>3, <2>2, Zenon DEF LengthKnown
    <3> QED BY <3>1, <3>2, <1>1, <1>2, FrameDoneStep
  <2> QED BY <2>1, <2>2
<1>4. ASSUME NEW raw, ReadHeader(raw)
      PROVE  HeaderInv'
  <2> DEFINE h == [at |-> "length", opcode |-> opcode_of(raw), masked |-> is_masked(raw), len |-> 0]
  <2>1. CASE LengthKnown(h, len7(raw))
    BY <2>1, <1>3
  <2>2. CASE Refuse
    BY <1>1, <2>2, RefuseStep
  <2>3. CASE Awaiting(h, "length") /\ Consumed
    BY <2>3, <1>2 DEF Consumed
  <2> HIDE DEF h
  <2>4. ReadHeader(raw) => \/ LengthKnown(h, len7(raw)) \/ Refuse
                           \/ Awaiting(h, "length") /\ Consumed
    BY Zenon DEF ReadHeader, h
  <2> QED BY <1>4, <2>1, <2>2, <2>3, <2>4
<1>5. CASE ReadMask
  <2>1. UNCHANGED <<client, tx, received>>
    BY <1>5 DEF ReadMask, Consumed
  <2>2. Awaiting(head, "payload") \/ FrameDone(head.opcode, 0, NONE)
    BY <1>5, Zenon DEF ReadMask
  <2> QED BY <2>1, <2>2, <1>1, <1>2, FrameDoneStep
<1>6. CASE ReadPayload
  BY <1>6, <1>1, FrameDoneStep DEF ReadPayload, Consumed
<1> QED BY <1>3, <1>4, <1>5, <1>6, Zenon DEF ReadPiece

\* The client is there whenever the server serves it.
ClientInv ==
    /\ client \in {"none", "open", "finished", "reset", "vanished"}
    /\ client = "none" => pc \in {"accept", "off"}

WsInv == HeaderInv /\ ClientInv

\* Steps of the client and the network.
LEMMA ClientStepKeeps ==
    ASSUME HeaderInv, ClientStep
    PROVE  HeaderInv'
<1>1. CASE client' = "reset" /\ tx' = <<>> /\ UNCHANGED <<pc, out, received>>
  <2>1. IsSeq(tx)' /\ Paired(tx)' /\ Len(tx') = 0
    BY <1>1, EmptyPaired DEF Paired, IsSeq
  <2>2. IsSeq(received)' /\ Paired(received)' /\ OutFits'
    BY <1>1 DEF HeaderInv, Paired, IsSeq, OutFits
  <2> QED BY <1>1, <2>1, <2>2 DEF HeaderInv
<1>2. CASE /\ UNCHANGED <<pc, out, tx, received>>
           /\ client' = client \/ client \in {"open", "finished"}
  <2>1. OutFits'
    BY <1>2 DEF HeaderInv, OutFits
  <2> QED BY <1>2, <2>1, WsQuietStep
<1>3. \/ client' = "reset" /\ tx' = <<>> /\ UNCHANGED <<pc, out, received>>
      \/ /\ UNCHANGED <<pc, out, tx, received>>
         /\ client' = client \/ client \in {"open", "finished"}
  BY DEF ClientStep, RequestUpgrade, StartFrame, SendPiece, ClientLeave
<1> QED BY <1>1, <1>2, <1>3

\* The client reads what was written first.
LEMMA DeliverStep ==
    ASSUME HeaderInv, Deliver
    PROVE  HeaderInv'
<1>1. /\ tx # <<>> /\ received' = Append(received, Head(tx)) /\ tx' = Tail(tx)
      /\ UNCHANGED <<pc, client, out>>
      /\ client \in {"open", "finished", "vanished"}
  BY DEF Deliver
<1>2. /\ IsSeq(tx') /\ Paired(tx')
      /\ EndsInHeader(tx') => EndsInHeader(tx)
      /\ Len(tx) > 0 /\ Head(tx) = tx[1]
      /\ Len(tx') > 0 => Len(tx) > 1 /\ tx'[1] = tx[2]
      /\ Len(tx') = 0 => Len(tx) = 1
  BY <1>1, TailPaired DEF HeaderInv
<1>3. Len(tx) \in Nat
  BY DEF HeaderInv, IsSeq
<1>4. /\ EndsInHeader(received) => Head(tx).kind = "text"
      /\ Head(tx).kind = "header" => Head(tx).bytes = encode_text_frame_header(RESPONSE_LEN)
      /\ Head(tx).kind = "header" /\ Len(tx) > 1 => tx[2].kind = "text"
  BY <1>2, <1>3 DEF HeaderInv, Paired
<1>5. /\ IsSeq(received') /\ Paired(received')
      /\ EndsInHeader(received') <=> Head(tx).kind = "header"
  BY <1>1, <1>4, AppendPaired DEF HeaderInv
<1>6. Head(tx).kind = "header" /\ Len(tx) = 1 => EndsInHeader(tx)
  BY <1>2 DEF EndsInHeader
<1>7. OutFits' /\ (pc' = "accept" => Len(tx') = 0)
  BY <1>1, <1>2, <1>3 DEF HeaderInv, OutFits
<1>8. /\ EndsInHeader(received') /\ Len(tx') > 0 => tx'[1].kind = "text"
      /\ EndsInHeader(tx') => pc' = "write_text"
      /\ EndsInHeader(received') /\ Len(tx') = 0 => pc' = "write_text"
  BY <1>1, <1>2, <1>4, <1>5, <1>6 DEF HeaderInv
<1>9. IsSeq(received)' /\ Paired(received)' /\ IsSeq(tx)' /\ Paired(tx)'
  BY <1>2, <1>5, Zenon DEF IsSeq, Paired
<1>10. EndsInHeader(received)' = EndsInHeader(received') /\ EndsInHeader(tx)' = EndsInHeader(tx')
  BY Zenon DEF EndsInHeader
<1> QED BY <1>1, <1>7, <1>8, <1>9, <1>10 DEF HeaderInv

\* A new client finds the buffers empty.
LEMMA AcceptStep ==
    ASSUME WsInv, Accept
    PROVE  HeaderInv'
<1>1. /\ pc = "accept" /\ pc' = "handshake" /\ received' = <<>> /\ tx' = tx /\ out' = out
  BY DEF Accept
<1>2. IsSeq(received)' /\ Paired(received)' /\ ~(EndsInHeader(received)')
  BY <1>1, EmptyPaired DEF IsSeq, Paired, EndsInHeader
<1>3. IsSeq(tx)' /\ Paired(tx)' /\ Len(tx') = 0
  BY <1>1 DEF WsInv, HeaderInv, IsSeq, Paired
<1>4. ~(EndsInHeader(tx)') /\ OutFits'
  BY <1>1, <1>3 DEF EndsInHeader, OutFits
<1> QED BY <1>1, <1>2, <1>3, <1>4 DEF HeaderInv

\* Steps of the server.
LEMMA ServerStepKeeps ==
    ASSUME WsInv, ServerStep
    PROVE  HeaderInv'
<1> USE DEF WsInv
<1>1. CASE Abort
  BY <1>1, AbortStep
<1>2. CASE Handshake /\ ~Abort
  <2>1. OutFits' /\ pc' = "write_101" /\ pc = "handshake" /\ UNCHANGED <<tx, received, client>>
    BY <1>2 DEF Handshake, OutFits, Upgraded
  <2> QED BY <2>1, WsQuietStep
<1>3. CASE ReadPiece
  BY <1>3, ReadPieceStep
<1>4. ASSUME NEW what, NEW state, NEW next, HasRoom, Wrote(what, state, next),
             pc \in {"write_101", "write_header", "write_text", "write_pong"},
             pc = "write_text" => what.kind = "text",
             what.kind = "header" => /\ state = "write_text"
                                     /\ what.bytes = encode_text_frame_header(RESPONSE_LEN),
             state # "accept", OutFits'
      PROVE  HeaderInv'
  <2>1. client \in {"open", "finished", "vanished"} /\ client # "reset"
    BY <1>4 DEF HasRoom, ClientInv
  <2> QED BY <1>4, <2>1, WroteStep
<1>5. NextPc(dev) \in {"read", "reboot"}
  BY DEF NextPc
<1>6. CASE WritePong
  <2>1. out.kind = "pong" /\ OutFits'
    BY <1>6 DEF WritePong, Wrote, HeaderInv, OutFits
  <2> QED BY <1>6, <1>4, <2>1 DEF WritePong
<1>7. CASE Write
  <2>1. CASE pc = "write_101" /\ HasRoom /\ Wrote(out, "read", NONE)
    <3>1. out.kind = "101" /\ OutFits'
      BY <2>1 DEF Wrote, HeaderInv, OutFits
    <3> QED BY <2>1, <1>4, <3>1
  <2>2. CASE pc = "write_header" /\ HasRoom /\ Wrote(TextHeader, "write_text", out)
    <3>1. TextHeader.kind = "header" /\ TextHeader.bytes = encode_text_frame_header(RESPONSE_LEN)
      BY DEF TextHeader, Upgraded
    <3>2. OutFits'
      BY <2>2 DEF Wrote, HeaderInv, OutFits
    <3> QED BY <2>2, <1>4, <3>1, <3>2
  <2>3. CASE pc = "write_text" /\ HasRoom /\ Wrote(out, NextPc(dev), NONE)
    <3>1. out.kind = "text" /\ OutFits'
      BY <2>3, <1>5 DEF Wrote, HeaderInv, OutFits
    <3> QED BY <2>3, <1>4, <1>5, <3>1
  <2> QED BY <1>7, <2>1, <2>2, <2>3 DEF Write
<1>8. CASE WriteError /\ ~Abort
  <2>1. /\ pc = "write_pong" /\ pc' = "read" /\ UNCHANGED <<client, tx, received>>
        /\ OutFits'
    BY <1>8 DEF WriteError, OutFits
  <2> QED BY <2>1, WsQuietStep
<1>9. CASE Reboot
  <2>1. /\ pc' = "off" /\ client' = "none" /\ tx' = <<>> /\ received' = received
    BY <1>9 DEF Reboot
  <2>2. IsSeq(tx)' /\ Paired(tx)' /\ Len(tx') = 0
    BY <2>1, EmptyPaired DEF Paired, IsSeq
  <2>3. IsSeq(received)' /\ Paired(received)' /\ OutFits'
    BY <2>1 DEF HeaderInv, Paired, IsSeq, OutFits
  <2> QED BY <2>1, <2>2, <2>3 DEF HeaderInv
<1>10. EndOfStream \/ IdleTimeout \/ WriteClose => Abort
  BY DEF EndOfStream, IdleTimeout, WriteClose
<1> QED BY <1>1, <1>2, <1>3, <1>6, <1>7, <1>8, <1>9, <1>10 DEF ServerStep

\* The client's part of the invariant.
LEMMA ClientInvKept ==
    ASSUME ClientInv, WsNext
    PROVE  ClientInv'
<1>1. CASE Accept
  BY <1>1 DEF Accept, ClientInv
<1>2. CASE ClientStep \/ Deliver
  BY <1>2 DEF ClientStep, RequestUpgrade, StartFrame, SendPiece, ClientLeave, Deliver, ClientInv
<1>3. CASE ServerStep
  <2>1. CASE Abort
    BY <2>1 DEF Abort, ClientInv
  <2>2. CASE Reboot
    BY <2>2 DEF Reboot, ClientInv
  <2>3. CASE ReadPiece
    <3>1. pc = "read" /\ client' \in {client, "reset"}
      BY <2>3 DEF ReadPiece, ReadHeader, LengthKnown, ReadMask, ReadPayload, Consumed, Refuse
    <3> QED BY <3>1 DEF ClientInv
  <2>4. CASE (Handshake \/ WriteError) /\ ~Abort
    BY <2>4 DEF Handshake, WriteError, ClientInv
  <2>5. CASE WritePong \/ Write
    BY <2>5 DEF WritePong, Write, Wrote, ClientInv
  <2>6. CASE EndOfStream \/ IdleTimeout \/ WriteClose
    BY <2>6, <2>1 DEF EndOfStream, IdleTimeout, WriteClose
  <2> QED BY <1>3, <2>1, <2>2, <2>3, <2>4, <2>5, <2>6 DEF ServerStep
<1> QED BY <1>1, <1>2, <1>3 DEF WsNext

\* HeaderInv and ClientInv together are inductive.
LEMMA WsInvariance == WsSpec => []WsInv
<1>1. WsInit => WsInv
  BY EmptyPaired DEF WsInit, WsInv, HeaderInv, ClientInv, OutFits
<1>2. WsInv /\ [WsNext]_vars => WsInv'
  <2> SUFFICES ASSUME WsInv, [WsNext]_vars PROVE WsInv'
    OBVIOUS
  <2>1. CASE WsNext
    <3>1. HeaderInv'
      BY <2>1, AcceptStep, ServerStepKeeps, ClientStepKeeps, DeliverStep DEF WsNext, WsInv
    <3> QED BY <2>1, <3>1, ClientInvKept DEF WsInv
  <2>2. CASE UNCHANGED vars
    <3>1. UNCHANGED <<tx, received, pc, client, out>>
      BY <2>2 DEF vars, sessionVars
    <3>2. OutFits' /\ ClientInv'
      BY <3>1 DEF WsInv, HeaderInv, OutFits, ClientInv
    <3> QED BY <3>1, <3>2, WsQuietStep DEF WsInv
  <2> QED BY <2>1, <2>2
<1> QED BY <1>1, <1>2, PTL DEF WsSpec

\* What the server sends can be parsed with the repository's own parser, for every
\* limit, every length of a response and every buffer size: each header that a client
\* receives announces the text behind it, and no pong lands between the two.
THEOREM HeadersAlwaysParse == WsSpec => []HeadersParse
<1>1. WsInv => HeadersParse
  <2> SUFFICES ASSUME WsInv, NEW i \in DOMAIN received, received[i].kind = "header"
               PROVE  /\ parse_frame_header(received[i].bytes) =
                            [opcode |-> OPCODE_TEXT, masked |-> FALSE,
                             payload_len |-> RESPONSE_LEN,
                             header_len |-> Len(received[i].bytes)]
                      /\ i < Len(received) => received[i + 1].kind = "text"
    BY DEF HeadersParse
  <2>1. i \in 1..Len(received)
    BY DEF WsInv, HeaderInv, IsSeq
  <2>2. /\ received[i].bytes = encode_text_frame_header(RESPONSE_LEN)
        /\ i < Len(received) => received[i + 1].kind = "text"
    BY <2>1 DEF WsInv, HeaderInv, Paired
  <2>3. RESPONSE_LEN \in 0..MAX_MSG_LEN
    <3>1. MAX_MSG_LEN \in Nat
      BY FrameAssumption
    <3> QED BY <3>1, WsAssumption
  <2> QED BY <2>2, <2>3, HeaderRoundTrip
<1> QED BY <1>1, WsInvariance, PTL

USE RouterAssumption

--------------------------------------------------------------------------------
(* The pieces of frames *)

\* A piece of the stream.
Piece == [bytes : Seq(Nat), data : Opt(STRING)]

\* Whether read_frame reads an extended length, a mask and a payload of a frame.
Ext(f) == IF 125 < f.len /\ f.len <= 65535 THEN 1 ELSE 0
Mask(f) == IF f.masked /\ ~Refused(f) THEN 1 ELSE 0
Load(f) == IF f.len > 0 /\ ~Refused(f) THEN 1 ELSE 0

Len7(f) == IF f.len <= 125 THEN f.len ELSE IF f.len <= 65535 THEN 126 ELSE 127
FirstPiece(f) == Bytes(<<f.fin + f.opcode, (IF f.masked THEN 128 ELSE 0) + Len7(f)>>)

\* The fields of a frame.
LEMMA FrameFields ==
    ASSUME NEW f \in Frames
    PROVE  /\ f.opcode \in 0..15 /\ f.fin \in {0, 128} /\ f.masked \in BOOLEAN /\ f.len \in Nat
           /\ f.payload \in Opt(STRING) /\ (f.len = 0 => f.payload = NONE)
           /\ Ext(f) \in {0, 1} /\ Mask(f) \in {0, 1} /\ Load(f) \in {0, 1}
<1>1. f \in Frame /\ (f.len = 0 => f.payload = NONE)
  BY WsAssumption
<1> QED BY <1>1 DEF Frame, Opcodes, Ext, Mask, Load

\* One piece.
LEMMA PieceTypes ==
    ASSUME NEW f \in Frames
    PROVE  /\ FirstPiece(f) \in Piece /\ Bytes(<<>>) \in Piece /\ Payload(f.payload) \in Piece
           /\ Bytes(<<f.len \div 256, f.len % 256>>) \in Piece
<1>1. \A b \in Seq(Nat) : Bytes(b) \in Piece
  BY DEF Bytes, Piece, Opt
<1>2. <<>> \in Seq(Nat)
  OBVIOUS
<1>3. Payload(f.payload) \in Piece
  BY <1>2, FrameFields DEF Payload, Piece
<1>4. <<f.len \div 256, f.len % 256>> \in Seq(Nat)
  <2>1. f.len \in Nat
    BY FrameFields
  <2>2. f.len \div 256 \in Nat /\ f.len % 256 \in Nat
    BY <2>1
  <2> QED BY <2>2
<1>5. <<f.fin + f.opcode, (IF f.masked THEN 128 ELSE 0) + Len7(f)>> \in Seq(Nat)
  <2>1. f.fin + f.opcode \in Nat /\ (IF f.masked THEN 128 ELSE 0) + Len7(f) \in Nat
    BY FrameFields DEF Len7
  <2> QED BY <2>1
<1> QED BY <1>1, <1>2, <1>3, <1>4, <1>5 DEF FirstPiece

\* Two sequences in a row.
LEMMA TwoParts ==
    ASSUME NEW S, NEW s \in Seq(S), NEW t \in Seq(S)
    PROVE  /\ s \o t \in Seq(S) /\ Len(s \o t) = Len(s) + Len(t)
           /\ \A i \in 1..Len(s) : (s \o t)[i] = s[i]
           /\ \A i \in 1..Len(t) : (s \o t)[Len(s) + i] = t[i]
  OBVIOUS

\* What the pieces of a frame are, in their order.
LEMMA PiecesOfFrame ==
    ASSUME NEW f \in Frames
    PROVE  /\ Pieces(f) \in Seq(Piece)
           /\ Len(Pieces(f)) = 1 + Ext(f) + Mask(f) + Load(f)
           /\ Pieces(f)[1] = FirstPiece(f)
           /\ Ext(f) = 1 => Pieces(f)[2] = Bytes(<<f.len \div 256, f.len % 256>>)
           /\ Load(f) = 1 => Pieces(f)[2 + Ext(f) + Mask(f)] = Payload(f.payload)
<1> DEFINE a == FirstPiece(f)
           b == Bytes(<<f.len \div 256, f.len % 256>>)
           c == Bytes(<<>>)
           d == Payload(f.payload)
           ext == IF Ext(f) = 1 THEN <<b>> ELSE <<>>
           mask == IF f.masked /\ ~Refused(f) THEN <<c>> ELSE <<>>
           load == IF f.len > 0 /\ ~Refused(f) THEN <<d>> ELSE <<>>
<1>1. a \in Piece /\ b \in Piece /\ c \in Piece /\ d \in Piece
  BY PieceTypes
<1>2. Len7(f) = 126 <=> Ext(f) = 1
  BY FrameFields DEF Len7, Ext
<1>3. Pieces(f) = <<a>> \o ext \o mask \o load
  BY <1>2 DEF Pieces, FirstPiece, Len7
<1>4. /\ Ext(f) = 1 \/ Ext(f) = 0
      /\ Mask(f) = IF f.masked /\ ~Refused(f) THEN 1 ELSE 0
      /\ Load(f) = IF f.len > 0 /\ ~Refused(f) THEN 1 ELSE 0
  BY DEF Ext, Mask, Load
<1> HIDE DEF a, b, c, d
<1>5. /\ ext \in Seq(Piece) /\ Len(ext) = Ext(f) /\ (Ext(f) = 1 => ext[1] = b)
      /\ mask \in Seq(Piece) /\ Len(mask) = Mask(f)
      /\ load \in Seq(Piece) /\ Len(load) = Load(f) /\ (Load(f) = 1 => load[1] = d)
      /\ <<a>> \in Seq(Piece) /\ Len(<<a>>) = 1 /\ <<a>>[1] = a
  BY <1>1, <1>4
<1> HIDE DEF ext, mask, load
<1> DEFINE u == <<a>> \o ext
           v == u \o mask
           w == v \o load
<1>6. /\ u \in Seq(Piece) /\ Len(u) = 1 + Len(ext)
      /\ u[1] = a
      /\ \A i \in 1..Len(ext) : u[1 + i] = ext[i]
  <2>1. Len(<<a>>) = 1 /\ <<a>>[1] = a
    OBVIOUS
  <2> QED BY <1>5, <2>1, TwoParts
<1> HIDE DEF u
<1>7. /\ v \in Seq(Piece) /\ Len(v) = Len(u) + Len(mask)
      /\ \A i \in 1..Len(u) : v[i] = u[i]
  <2>1. u \in Seq(Piece) /\ mask \in Seq(Piece)
    BY <1>5, <1>6
  <2> QED BY <2>1, TwoParts
<1> HIDE DEF v
<1>8. /\ w \in Seq(Piece) /\ Len(w) = Len(v) + Len(load)
      /\ \A i \in 1..Len(v) : w[i] = v[i]
      /\ \A i \in 1..Len(load) : w[Len(v) + i] = load[i]
  <2>1. v \in Seq(Piece) /\ load \in Seq(Piece)
    BY <1>5, <1>7
  <2> QED BY <2>1, TwoParts
<1> HIDE DEF w
<1>9. w = Pieces(f)
  BY <1>3 DEF u, v, w
<1>10. Ext(f) \in {0, 1} /\ Mask(f) \in {0, 1} /\ Load(f) \in {0, 1}
  BY FrameFields
<1>11. Len(u) = 1 + Ext(f) /\ Len(v) = 1 + Ext(f) + Mask(f) /\ Len(w) = 1 + Ext(f) + Mask(f) + Load(f)
  BY <1>5, <1>6, <1>7, <1>8
<1>12. w[1] = a
  BY <1>6, <1>7, <1>8, <1>10, <1>11
<1>13. Ext(f) = 1 => w[2] = b
  <2> SUFFICES ASSUME Ext(f) = 1 PROVE w[2] = b
    OBVIOUS
  <2>1. 1 \in 1..Len(ext) /\ 2 \in 1..Len(u) /\ 2 \in 1..Len(v)
    BY <1>5, <1>10, <1>11
  <2>2. u[1 + 1] = ext[1]
    BY <1>6, <2>1, Zenon
  <2>3. w[2] = u[2]
    BY <1>7, <1>8, <2>1
  <2> QED BY <1>5, <2>2, <2>3
<1>14. Load(f) = 1 => w[2 + Ext(f) + Mask(f)] = d
  <2> SUFFICES ASSUME Load(f) = 1 PROVE w[2 + Ext(f) + Mask(f)] = d
    OBVIOUS
  <2>1. 1 \in 1..Len(load) /\ Len(v) + 1 = 2 + Ext(f) + Mask(f)
    BY <1>5, <1>10, <1>11
  <2>2. w[Len(v) + 1] = load[1]
    BY <1>8, <2>1
  <2> QED BY <1>5, <2>1, <2>2
<1> QED BY <1>8, <1>9, <1>11, <1>12, <1>13, <1>14 DEF a, b, d

\* What read_frame makes of the first piece and of an extended length.
LEMMA HeaderBytes ==
    ASSUME NEW f \in Frames
    PROVE  LET raw == FirstPiece(f).bytes
           IN  /\ opcode_of(raw) = f.opcode /\ is_masked(raw) = f.masked /\ len7(raw) = Len7(f)
               /\ Ext(f) = 1 => len16(Bytes(<<f.len \div 256, f.len % 256>>).bytes) = f.len
<1>1. /\ f.opcode \in 0..15 /\ f.fin \in {0, 128} /\ f.masked \in BOOLEAN /\ f.len \in Nat
      /\ Len7(f) \in 0..127
  BY FrameFields DEF Len7
<1> DEFINE x == f.fin + f.opcode
           y == (IF f.masked THEN 128 ELSE 0) + Len7(f)
<1>2. FirstPiece(f).bytes = <<x, y>>
  BY DEF FirstPiece, Bytes
<1>3. x % 16 = f.opcode
  BY <1>1
<1>4. (y >= 128) = f.masked /\ y % 128 = Len7(f)
  <2>1. CASE f.masked
    <3>1. y = 128 + Len7(f) /\ y \in Int
      BY <2>1, <1>1
    <3>2. y % 128 = Len7(f)
      BY <3>1, <1>1
    <3>3. y >= 128
      BY <3>1, <1>1
    <3>4. (y >= 128) = TRUE /\ f.masked = TRUE
      BY <3>3, <2>1, <1>1
    <3> QED BY <3>2, <3>4
  <2>2. CASE ~f.masked
    <3>1. y = Len7(f) /\ ~(y >= 128) /\ y % 128 = Len7(f)
      BY <2>2, <1>1
    <3>2. (y >= 128) = FALSE /\ f.masked = FALSE
      BY <3>1, <2>2, <1>1
    <3> QED BY <3>1, <3>2
  <2> QED BY <2>1, <2>2
<1>5. (f.len \div 256) * 256 + (f.len % 256) = f.len
  BY <1>1
<1>6. <<x, y>>[1] = x /\ <<x, y>>[2] = y
  OBVIOUS
<1> HIDE DEF x, y
<1> QED BY <1>2, <1>3, <1>4, <1>5, <1>6 DEF opcode_of, is_masked, len7, len16, Bytes

--------------------------------------------------------------------------------
(* Streams and references *)

\* What one more frame adds to the stream.
LEMMA StreamSteps ==
    /\ Stream[<<>>] = <<>>
    /\ \A fs \in Seq(Frames) : Stream[fs] \in Seq(Piece)
    /\ \A fs \in Seq(Frames), f \in Frames : Stream[Append(fs, f)] = Stream[fs] \o Pieces(f)
<1> DEFINE Step(x) == x[1] \o Pieces(x[2])
           Op == [x \in Seq(Piece) \X Frames |-> Step(x)]
           Body(g) == [s \in Seq(Frames) |-> IF s = <<>> THEN <<>> ELSE g[Front(s)] \o Pieces(Last(s))]
<1>1. Op \in [Seq(Piece) \X Frames -> Seq(Piece)]
  <2> SUFFICES ASSUME NEW x \in Seq(Piece) \X Frames PROVE Step(x) \in Seq(Piece)
    OBVIOUS
  <2>1. x[1] \in Seq(Piece) /\ Pieces(x[2]) \in Seq(Piece)
    BY PiecesOfFrame
  <2> QED BY <2>1, TwoParts
<1>2. PICK g : Solves(g, Frames, Seq(Piece), <<>>, Op)
  <2> HIDE DEF Op
  <2>1. Recursion(Frames, Seq(Piece), <<>>, Op)
    <3>1. <<>> \in Seq(Piece)
      OBVIOUS
    <3> QED BY <1>1, <3>1 DEF Recursion
  <2> QED BY <2>1, SeqRecursion, Zenon
<1>3. g = Body(g)
  <2>1. ASSUME NEW s \in Seq(Frames), s # <<>>
        PROVE  Op[<<g[Front(s)], Last(s)>>] = g[Front(s)] \o Pieces(Last(s))
    <3>1. g[Front(s)] \in Seq(Piece) /\ Last(s) \in Frames
      BY <1>2, <2>1, FrontLast DEF Solves
    <3> QED BY <3>1
  <2> HIDE DEF Op
  <2>2. \A s \in Seq(Frames) :
           g[s] = IF s = <<>> THEN <<>> ELSE g[Front(s)] \o Pieces(Last(s))
    BY <1>2, <2>1, Zenon DEF Solves
  <2>3. g \in [Seq(Frames) -> Seq(Piece)]
    BY <1>2 DEF Solves
  <2> QED BY <2>2, <2>3
<1>4. Stream = Body(Stream)
  <2>1. \E h : h = Body(h)
    BY <1>3
  <2> QED BY <2>1, Zenon DEF Stream
<1>5. Stream[<<>>] = <<>>
  BY <1>4
<1>6. ASSUME NEW fs \in Seq(Frames), NEW f \in Frames
      PROVE  Stream[Append(fs, f)] = Stream[fs] \o Pieces(f)
  <2> HIDE DEF Body
  <2>1. /\ Append(fs, f) \in Seq(Frames) /\ Append(fs, f) # <<>>
        /\ Front(Append(fs, f)) = fs /\ Last(Append(fs, f)) = f
    BY AppendFrontLast, Zenon
  <2>2. Body(Stream)[Append(fs, f)] = Stream[fs] \o Pieces(f)
    BY <2>1, Zenon DEF Body
  <2> QED BY <1>4, <2>2
<1>7. \A fs \in Seq(Frames) : Stream[fs] \in Seq(Piece)
  <2> HIDE DEF Body
  <2>1. ASSUME NEW fs \in Seq(Frames), NEW f \in Frames, Stream[fs] \in Seq(Piece)
        PROVE  Stream[Append(fs, f)] \in Seq(Piece)
    <3>1. Stream[fs] \o Pieces(f) \in Seq(Piece)
      BY <2>1, PiecesOfFrame, TwoParts, Zenon
    <3> QED BY <1>6, <3>1
  <2>2. Stream[<<>>] \in Seq(Piece)
    BY <1>5
  <2> QED BY <2>1, <2>2, SeqRecursionTyped, Zenon
<1> QED BY <1>5, <1>6, <1>7

\* The responses and the state that frames lead to.
RefType == [dev : {st \in DeviceState : GoodState(st)}, out : Seq(Written)]

\* What the server writes is of the type of what is written.
LEMMA WrittenTypes ==
    /\ Upgraded \in Written /\ TextHeader \in Written
    /\ \A r \in ResponseType \cup {Malformed} : Text(r) \in Written
    /\ \A f \in Frames : Pong(f.payload) \in Written
    /\ Pong(NONE) \in Written
<1>1. <<>> \in Seq(Nat)
  OBVIOUS
<1>2. Upgraded \in Written
  BY <1>1 DEF Upgraded, Written, Opt
<1>3. encode_text_frame_header(RESPONSE_LEN) \in Seq(Nat)
  <2>1. MAX_MSG_LEN \in Nat
    BY FrameAssumption
  <2>2. RESPONSE_LEN \in Nat /\ ~(RESPONSE_LEN > MAX_MSG_LEN)
    BY <2>1, WsAssumption
  <2>3. RESPONSE_LEN \div 256 \in Nat /\ RESPONSE_LEN % 256 \in Nat
    BY <2>2
  <2> QED BY <2>2, <2>3 DEF encode_text_frame_header
<1>4. TextHeader \in Written
  BY <1>2, <1>3 DEF TextHeader, Written
<1>5. ASSUME NEW r \in ResponseType \cup {Malformed} PROVE Text(r) \in Written
  BY <1>2 DEF Text, Written, Opt
<1>6. ASSUME NEW d \in Opt(STRING) PROVE Pong(d) \in Written
  BY <1>2 DEF Pong, Written
<1>7. \A f \in Frames : f.payload \in Opt(STRING)
  BY FrameFields
<1> QED BY <1>2, <1>4, <1>5, <1>6, <1>7 DEF Opt

\* A frame served.
LEMMA Output1Typed ==
    ASSUME NEW acc \in RefType, NEW f \in Frames
    PROVE  Output1(acc, f) \in RefType
<1>1. acc.out \in Seq(Written) /\ acc.dev \in DeviceState /\ GoodState(acc.dev)
  BY DEF RefType
<1>5. CASE Refused(f)
  BY <1>5 DEF Output1
<1>2. CASE ~Refused(f) /\ f.opcode = OPCODE_PING /\ f.len <= 125
  <2>1. Pong(f.payload) \in Written
    BY WrittenTypes
  <2>2. Append(acc.out, Pong(f.payload)) \in Seq(Written)
    BY <1>1, <2>1
  <2>3. Output1(acc, f) = [acc EXCEPT !.out = Append(acc.out, Pong(f.payload))]
    BY <1>2 DEF Output1
  <2> QED BY <2>2, <2>3 DEF RefType
<1>3. CASE ~Refused(f) /\ ~(f.opcode = OPCODE_PING /\ f.len <= 125) /\ f.opcode # OPCODE_TEXT
  BY <1>3 DEF Output1
<1>4. CASE ~Refused(f) /\ ~(f.opcode = OPCODE_PING /\ f.len <= 125) /\ f.opcode = OPCODE_TEXT
  <2> DEFINE r == IF f.payload \in DOMAIN Json THEN respond(Json[f.payload], acc.dev)
                  ELSE [dev |-> acc.dev, reply |-> Malformed]
             more == IF r.reply.id \in UnserializableIds THEN <<>> ELSE <<TextHeader, Text(r.reply)>>
  <2>1. Output1(acc, f) = [dev |-> r.dev, out |-> acc.out \o more]
    BY <1>4 DEF Output1
  <2>2. r.dev \in DeviceState /\ GoodState(r.dev) /\ r.reply \in ResponseType \cup {Malformed}
    <3>1. CASE f.payload \in DOMAIN Json
      <4>1. Json[f.payload] \in Commands
        BY <3>1, WsAssumption
      <4>2. Sound(acc.dev, respond(Json[f.payload], acc.dev))
        BY <1>1, <4>1, RespondSound
      <4> QED BY <3>1, <4>2 DEF Sound, GoodState
    <3>2. CASE f.payload \notin DOMAIN Json
      BY <3>2, <1>1
    <3> QED BY <3>1, <3>2
  <2> HIDE DEF r
  <2>3. more \in Seq(Written)
    <3>1. TextHeader \in Written /\ Text(r.reply) \in Written
      BY <2>2, WrittenTypes
    <3> QED BY <3>1
  <2> HIDE DEF more
  <2>4. acc.out \o more \in Seq(Written)
    BY <1>1, <2>3
  <2> QED BY <2>1, <2>2, <2>4 DEF RefType
<1> QED BY <1>2, <1>3, <1>4, <1>5, Zenon

\* Before the first frame.
LEMMA NoFramesTyped == NoFrames \in RefType
<1>1. <<Upgraded>> \in Seq(Written)
  BY WrittenTypes
<1>2. DefaultState \in DeviceState /\ GoodState(DefaultState)
  BY DefaultGood DEF GoodState
<1> QED BY <1>1, <1>2 DEF NoFrames, RefType

\* What one more frame makes of the reference.
LEMMA ReferenceSteps ==
    /\ Reference[<<>>] = NoFrames
    /\ \A fs \in Seq(Frames) : Reference[fs] \in RefType
    /\ \A fs \in Seq(Frames), f \in Frames : Reference[Append(fs, f)] = Output1(Reference[fs], f)
<1> DEFINE Op == [x \in RefType \X Frames |-> Output1(x[1], x[2])]
           Body(g) == [s \in Seq(Frames) |-> IF s = <<>> THEN NoFrames
                                             ELSE Output1(g[Front(s)], Last(s))]
<1>1. Op \in [RefType \X Frames -> RefType]
  <2> SUFFICES ASSUME NEW x \in RefType \X Frames PROVE Output1(x[1], x[2]) \in RefType
    OBVIOUS
  <2> QED BY Output1Typed
<1>2. PICK g : Solves(g, Frames, RefType, NoFrames, Op)
  <2> HIDE DEF Op
  <2>1. Recursion(Frames, RefType, NoFrames, Op)
    BY <1>1, NoFramesTyped DEF Recursion
  <2> QED BY <2>1, SeqRecursion, Zenon
<1>3. g = Body(g)
  <2>1. ASSUME NEW s \in Seq(Frames), s # <<>>
        PROVE  Op[<<g[Front(s)], Last(s)>>] = Output1(g[Front(s)], Last(s))
    <3>1. g[Front(s)] \in RefType /\ Last(s) \in Frames
      BY <1>2, <2>1, FrontLast DEF Solves
    <3> QED BY <3>1
  <2> HIDE DEF Op
  <2>2. \A s \in Seq(Frames) :
           g[s] = IF s = <<>> THEN NoFrames ELSE Output1(g[Front(s)], Last(s))
    BY <1>2, <2>1 DEF Solves
  <2>3. g \in [Seq(Frames) -> RefType]
    BY <1>2 DEF Solves
  <2> QED BY <2>2, <2>3
<1>4. Reference = Body(Reference)
  <2>1. \E h : h = Body(h)
    BY <1>3
  <2> QED BY <2>1 DEF Reference
<1>5. Reference[<<>>] = NoFrames
  BY <1>4
<1>6. ASSUME NEW fs \in Seq(Frames), NEW f \in Frames
      PROVE  Reference[Append(fs, f)] = Output1(Reference[fs], f)
  <2> HIDE DEF Body
  <2>1. /\ Append(fs, f) \in Seq(Frames) /\ Append(fs, f) # <<>>
        /\ Front(Append(fs, f)) = fs /\ Last(Append(fs, f)) = f
    BY AppendFrontLast, Zenon
  <2>2. Body(Reference)[Append(fs, f)] = Output1(Reference[fs], f)
    BY <2>1, Zenon DEF Body
  <2> QED BY <1>4, <2>2
<1>7. \A fs \in Seq(Frames) : Reference[fs] \in RefType
  <2> HIDE DEF Body
  <2>1. \A fs \in Seq(Frames), f \in Frames :
          Reference[fs] \in RefType => Reference[Append(fs, f)] \in RefType
    BY <1>6, Output1Typed
  <2> QED BY <1>5, <2>1, NoFramesTyped, SeqRecursionTyped, Zenon
<1> QED BY <1>5, <1>6, <1>7

--------------------------------------------------------------------------------
(* Places in the stream *)

\* The frames of a prefix are what the stream begins with.
LEMMA StreamBegins ==
    ASSUME NEW fs \in Seq(Frames), NEW n \in 0..Len(fs)
    PROVE  /\ SubSeq(fs, 1, n) \in Seq(Frames)
           /\ Begins(Stream[SubSeq(fs, 1, n)], Stream[fs])
<1> DEFINE T == {s \in Seq(Frames) : \A m \in 0..Len(s) : Begins(Stream[SubSeq(s, 1, m)], Stream[s])}
<1>1. \A s \in Seq(Frames) : Begins(Stream[s], Stream[s])
  <2> SUFFICES ASSUME NEW s \in Seq(Frames) PROVE Begins(Stream[s], Stream[s])
    OBVIOUS
  <2>1. Len(Stream[s]) \in Nat
    BY StreamSteps
  <2> QED BY <2>1 DEF Begins
<1>2. <<>> \in T
  <2> SUFFICES ASSUME NEW m \in 0..0 PROVE Begins(Stream[SubSeq(<<>>, 1, m)], Stream[<<>>])
    OBVIOUS
  <2>1. SubSeq(<<>>, 1, m) = <<>> /\ <<>> \in Seq(Frames)
    OBVIOUS
  <2> QED BY <1>1, <2>1
<1>3. ASSUME NEW s \in Seq(Frames), NEW f \in Frames, s \in T
      PROVE  Append(s, f) \in T
  <2> DEFINE t == Append(s, f)
  <2>1. t \in Seq(Frames) /\ Len(t) = Len(s) + 1 /\ Len(s) \in Nat
    OBVIOUS
  <2>2. Begins(Stream[s], Stream[t])
    <3>1. Stream[t] = Stream[s] \o Pieces(f) /\ Stream[s] \in Seq(Piece) /\ Pieces(f) \in Seq(Piece)
      BY StreamSteps, PiecesOfFrame
    <3>2. ASSUME NEW a \in Seq(Piece), NEW b \in Seq(Piece) PROVE Begins(a, a \o b)
      BY DEF Begins
    <3> QED BY <3>1, <3>2
  <2>3. ASSUME NEW m \in 0..Len(t)
        PROVE  Begins(Stream[SubSeq(t, 1, m)], Stream[t])
    <3>1. CASE m = Len(t)
      <4>1. SubSeq(t, 1, m) = t
        BY <2>1, <3>1, SubSeqFull
      <4> QED BY <1>1, <2>1, <4>1
    <3>2. CASE m # Len(t)
      <4>1. m \in 0..Len(s)
        BY <2>1, <3>2
      <4>2. SubSeq(t, 1, m) = SubSeq(s, 1, m) /\ SubSeq(s, 1, m) \in Seq(Frames)
        BY <2>1, <4>1
      <4>3. Begins(Stream[SubSeq(s, 1, m)], Stream[s])
        BY <1>3, <4>1
      <4>4. Stream[SubSeq(s, 1, m)] \in Seq(Piece) /\ Stream[s] \in Seq(Piece) /\ Stream[t] \in Seq(Piece)
        BY <2>1, <4>2, StreamSteps
      <4> HIDE DEF t
      <4>5. Begins(Stream[SubSeq(s, 1, m)], Stream[t])
        BY <2>2, <4>3, <4>4, BeginsTransitive, Zenon
      <4> QED BY <4>2, <4>5
    <3> QED BY <3>1, <3>2
  <2> QED BY <2>1, <2>3
<1>4. Seq(Frames) \subseteq T
  <2> HIDE DEF T
  <2> QED BY <1>2, <1>3, SeqInduction
<1>5. SubSeq(fs, 1, n) \in Seq(Frames)
  BY Prefix
<1>6. fs \in T
  BY <1>4
<1> QED BY <1>5, <1>6

\* Where the pieces of a frame lie.
LEMMA PieceOfStream ==
    ASSUME NEW fs \in Seq(Frames), NEW k \in 0..Len(fs), k < Len(fs)
    PROVE  LET b == Len(Stream[SubSeq(fs, 1, k)])
               f == fs[k + 1]
           IN  /\ f \in Frames /\ b \in Nat
               /\ Len(Stream[SubSeq(fs, 1, k + 1)]) = b + Len(Pieces(f))
               /\ b + Len(Pieces(f)) <= Len(Stream[fs])
               /\ \A i \in 1..Len(Pieces(f)) : Stream[fs][b + i] = Pieces(f)[i]
               /\ Reference[SubSeq(fs, 1, k + 1)] = Output1(Reference[SubSeq(fs, 1, k)], f)
<1> DEFINE first == SubSeq(fs, 1, k)
           next == SubSeq(fs, 1, k + 1)
           f == fs[k + 1]
<1>1. f \in Frames /\ k + 1 \in 0..Len(fs) /\ k + 1 \in 1..Len(fs)
  OBVIOUS
<1>2. first \in Seq(Frames) /\ next = Append(first, f)
  BY <1>1, PrefixGrows
<1>3. Begins(Stream[next], Stream[fs]) /\ next \in Seq(Frames)
  BY <1>1, StreamBegins
<1> HIDE DEF first, next, f
<1>4. /\ Stream[next] = Stream[first] \o Pieces(f)
      /\ Reference[next] = Output1(Reference[first], f)
  BY <1>1, <1>2, StreamSteps, ReferenceSteps
<1>5. Stream[first] \in Seq(Piece) /\ Pieces(f) \in Seq(Piece)
  BY <1>1, <1>2, StreamSteps, PiecesOfFrame
<1>6. /\ Len(Stream[first]) \in Nat /\ Len(Pieces(f)) \in Nat
      /\ Len(Stream[next]) = Len(Stream[first]) + Len(Pieces(f))
      /\ \A i \in 1..Len(Pieces(f)) : Stream[next][Len(Stream[first]) + i] = Pieces(f)[i]
  BY <1>4, <1>5, TwoParts
<1>7. Len(Stream[fs]) \in Nat
  BY StreamSteps
<1>8. Len(Stream[first]) + Len(Pieces(f)) <= Len(Stream[fs])
  BY <1>3, <1>6 DEF Begins
<1>9. ASSUME NEW i \in 1..Len(Pieces(f))
      PROVE  Stream[fs][Len(Stream[first]) + i] = Pieces(f)[i]
  <2>1. Len(Stream[first]) + i \in 1..Len(Stream[next])
    BY <1>6
  <2>2. Stream[next][Len(Stream[first]) + i] = Stream[fs][Len(Stream[first]) + i]
    BY <1>3, <2>1 DEF Begins
  <2> QED BY <1>6, <2>2
<1> QED BY <1>1, <1>4, <1>6, <1>8, <1>9 DEF first, next, f

\* More frames have no fewer pieces.
LEMMA StreamGrows ==
    ASSUME NEW fs \in Seq(Frames), NEW m \in 0..Len(fs), NEW n \in 0..m
    PROVE  /\ Len(Stream[SubSeq(fs, 1, n)]) \in Nat /\ Len(Stream[SubSeq(fs, 1, m)]) \in Nat
           /\ Len(Stream[SubSeq(fs, 1, n)]) <= Len(Stream[SubSeq(fs, 1, m)])
<1>1. SubSeq(fs, 1, m) \in Seq(Frames) /\ Len(SubSeq(fs, 1, m)) = m
  BY Prefix
<1>2. n \in 0..Len(SubSeq(fs, 1, m)) /\ n \in 0..Len(fs)
  BY <1>1
<1>3. SubSeq(SubSeq(fs, 1, m), 1, n) = SubSeq(fs, 1, n) /\ SubSeq(fs, 1, n) \in Seq(Frames)
  BY <1>1, <1>2
<1>4. Begins(Stream[SubSeq(fs, 1, n)], Stream[SubSeq(fs, 1, m)])
  BY <1>1, <1>2, <1>3, StreamBegins
<1>5. Stream[SubSeq(fs, 1, n)] \in Seq(Piece) /\ Stream[SubSeq(fs, 1, m)] \in Seq(Piece)
  BY <1>1, <1>3, StreamSteps
<1> QED BY <1>4, <1>5 DEF Begins

\* The frames whose last piece lies before a place inside frame k + 1.
LEMMA FramesBefore ==
    ASSUME NEW fs \in Seq(Frames), NEW k \in 0..Len(fs), NEW j \in Nat,
           k < Len(fs) => j < Len(Pieces(fs[k + 1]))
    PROVE  Cardinality({n \in 1..Len(fs) :
                Len(Stream[SubSeq(fs, 1, n)]) <= Len(Stream[SubSeq(fs, 1, k)]) + j}) = k
<1> DEFINE L(n) == Len(Stream[SubSeq(fs, 1, n)])
           Before == {n \in 1..Len(fs) : L(n) <= L(k) + j}
<1>1. ASSUME NEW n \in 1..k PROVE n \in Before
  <2>1. n \in 0..k /\ n \in 1..Len(fs)
    OBVIOUS
  <2>2. L(n) \in Nat /\ L(k) \in Nat /\ L(n) <= L(k)
    BY <2>1, StreamGrows
  <2> HIDE DEF L
  <2> QED BY <2>1, <2>2
<1>2. ASSUME NEW n \in Before PROVE n \in 1..k
  <2> SUFFICES ASSUME n > k PROVE FALSE
    OBVIOUS
  <2>1. k < Len(fs) /\ k + 1 \in 0..n /\ n \in 0..Len(fs)
    OBVIOUS
  <2>2. L(k + 1) \in Nat /\ L(n) \in Nat /\ L(k + 1) <= L(n)
    BY <2>1, StreamGrows
  <2>3. L(k) \in Nat /\ L(k + 1) = L(k) + Len(Pieces(fs[k + 1])) /\ fs[k + 1] \in Frames
    BY <2>1, PieceOfStream
  <2>4. Len(Pieces(fs[k + 1])) \in Nat
    BY <2>3, PiecesOfFrame
  <2>5. L(n) <= L(k) + j
    OBVIOUS
  <2> HIDE DEF L, Before
  <2> QED BY <2>1, <2>2, <2>3, <2>4, <2>5
<1>3. Before = 1..k
  <2> HIDE DEF Before
  <2>1. Before \subseteq 1..k /\ 1..k \subseteq Before
    BY <1>1, <1>2
  <2> QED BY <2>1
<1>4. Cardinality(1..k) = k
  <2>1. 1 \in Int /\ k \in Int
    OBVIOUS
  <2>2. Cardinality(1..k) = IF 1 > k THEN 0 ELSE k - 1 + 1
    BY <2>1, FS_Interval
  <2> QED BY <2>2
<1> QED BY <1>3, <1>4

\* b is what is left of s behind the first p.
Left(s, b, p) == p \in Nat /\ Len(s) = p + Len(b) /\ \A i \in 1..Len(b) : b[i] = s[p + i]

\* The first of what is left is taken.
LEMMA LeftTail ==
    ASSUME NEW S, NEW s \in Seq(S), NEW a \in Seq(S), NEW b \in Seq(S), NEW p, Left(s, a \o b, p), a # <<>>
    PROVE  /\ Left(s, Tail(a) \o b, p + 1) /\ Tail(a) \in Seq(S)
           /\ Head(a) = s[p + 1] /\ p < Len(s)
<1>1. /\ Tail(a) \in Seq(S) /\ Len(Tail(a)) = Len(a) - 1 /\ Len(a) \in Nat \ {0} /\ Len(b) \in Nat
      /\ \A i \in 1..Len(Tail(a)) : Tail(a)[i] = a[i + 1]
      /\ Head(a) = a[1]
  OBVIOUS
<1>2. /\ Len(a \o b) = Len(a) + Len(b)
      /\ \A i \in 1..Len(a) : (a \o b)[i] = a[i]
      /\ \A i \in 1..Len(b) : (a \o b)[Len(a) + i] = b[i]
  BY TwoParts
<1>3. /\ Len(Tail(a) \o b) = Len(Tail(a)) + Len(b)
      /\ \A i \in 1..Len(Tail(a)) : (Tail(a) \o b)[i] = Tail(a)[i]
      /\ \A i \in 1..Len(b) : (Tail(a) \o b)[Len(Tail(a)) + i] = b[i]
  BY <1>1, TwoParts
<1>4. /\ p \in Nat /\ Len(s) = p + Len(a \o b)
      /\ \A i \in 1..Len(a \o b) : (a \o b)[i] = s[p + i]
  BY DEF Left
<1>5. ASSUME NEW i \in 1..Len(Tail(a) \o b) PROVE (Tail(a) \o b)[i] = s[(p + 1) + i]
  <2>1. i + 1 \in 1..Len(a \o b) /\ p + (i + 1) = (p + 1) + i
    BY <1>1, <1>2, <1>3, <1>4
  <2>2. (a \o b)[i + 1] = s[(p + 1) + i]
    BY <1>4, <2>1
  <2>3. (Tail(a) \o b)[i] = (a \o b)[i + 1]
    <3>1. CASE i <= Len(Tail(a))
      <4>1. i \in 1..Len(Tail(a)) /\ i + 1 \in 1..Len(a)
        BY <1>1, <3>1
      <4> QED BY <1>1, <1>2, <1>3, <4>1
    <3>2. CASE i > Len(Tail(a))
      <4>1. /\ i - Len(Tail(a)) \in 1..Len(b)
            /\ Len(Tail(a)) + (i - Len(Tail(a))) = i
            /\ Len(a) + (i - Len(Tail(a))) = i + 1
        BY <1>1, <1>3, <3>2
      <4>2. (Tail(a) \o b)[i] = b[i - Len(Tail(a))]
        BY <1>3, <4>1
      <4>3. (a \o b)[i + 1] = b[i - Len(Tail(a))]
        BY <1>2, <4>1
      <4> QED BY <4>2, <4>3
    <3> QED BY <1>1, <3>1, <3>2
  <2> QED BY <2>2, <2>3
<1>6. Len(s) = (p + 1) + Len(Tail(a) \o b) /\ p + 1 \in Nat /\ p < Len(s)
  BY <1>1, <1>2, <1>3, <1>4
<1>7. Head(a) = s[p + 1]
  <2>1. 1 \in 1..Len(a \o b) /\ 1 \in 1..Len(a)
    BY <1>1, <1>2
  <2> QED BY <1>1, <1>2, <1>4, <2>1
<1> QED BY <1>1, <1>5, <1>6, <1>7 DEF Left

\* A piece moves from one part to the other.
LEMMA LeftMove ==
    ASSUME NEW S, NEW a \in Seq(S), NEW b \in Seq(S), b # <<>>
    PROVE  /\ Append(a, Head(b)) \in Seq(S) /\ Tail(b) \in Seq(S)
           /\ Append(a, Head(b)) \o Tail(b) = a \o b
  OBVIOUS

\* More is put behind both.
LEMMA LeftMore ==
    ASSUME NEW S, NEW s \in Seq(S), NEW b \in Seq(S), NEW q \in Seq(S), NEW p, Left(s, b, p)
    PROVE  Left(s \o q, b \o q, p)
<1>1. p \in Nat /\ Len(s) = p + Len(b) /\ \A i \in 1..Len(b) : b[i] = s[p + i]
  BY DEF Left
<1>2. /\ Len(s \o q) = Len(s) + Len(q) /\ Len(b \o q) = Len(b) + Len(q)
      /\ \A i \in 1..Len(s) : (s \o q)[i] = s[i]
      /\ \A i \in 1..Len(q) : (s \o q)[Len(s) + i] = q[i]
      /\ \A i \in 1..Len(b) : (b \o q)[i] = b[i]
      /\ \A i \in 1..Len(q) : (b \o q)[Len(b) + i] = q[i]
  BY TwoParts
<1>3. Len(s) \in Nat /\ Len(b) \in Nat /\ Len(q) \in Nat
  OBVIOUS
<1>4. ASSUME NEW i \in 1..Len(b \o q) PROVE (b \o q)[i] = (s \o q)[p + i]
  <2>1. CASE i <= Len(b)
    <3>1. i \in 1..Len(b) /\ p + i \in 1..Len(s)
      BY <1>1, <1>3, <2>1
    <3> QED BY <1>1, <1>2, <3>1
  <2>2. CASE i > Len(b)
    <3>1. i - Len(b) \in 1..Len(q) /\ Len(b) + (i - Len(b)) = i /\ Len(s) + (i - Len(b)) = p + i
      BY <1>1, <1>2, <1>3, <2>2
    <3>2. (b \o q)[i] = q[i - Len(b)]
      BY <1>2, <3>1
    <3>3. (s \o q)[p + i] = q[i - Len(b)]
      BY <1>2, <3>1
    <3> QED BY <3>2, <3>3
  <2>3. i <= Len(b) \/ i > Len(b)
    BY <1>3
  <2> QED BY <2>1, <2>2, <2>3, Zenon
<1> QED BY <1>1, <1>2, <1>3, <1>4 DEF Left

--------------------------------------------------------------------------------
(* The server's place in the stream *)

\* h is what read_frame has of frame f once it has read j of its pieces.
At(h, f, j) ==
    \/ j = 0 /\ h = NONE
    \/ /\ h # NONE /\ h.opcode = f.opcode /\ h.masked = f.masked
       /\ \/ h.at = "length" /\ Ext(f) = 1 /\ j = 1 /\ h.len = 0
          \/ h.at = "mask" /\ h.len = f.len /\ f.masked /\ j = 1 + Ext(f)
          \/ h.at = "payload" /\ h.len = f.len /\ f.len > 0 /\ j = 1 + Ext(f) + Mask(f)

\* The first k frames of the client, and where they end in what it sent.
First(k) == SubSeq(frames, 1, k)
Base(k) == Len(Stream[First(k)])

\* The server stands behind j pieces of the frame that follows the first k.
Position(k, j) ==
    /\ k \in 0..Len(frames) /\ j \in Nat
    /\ Left(Stream[frames], rx \o unsent, Base(k) + j)
    /\ k < Len(frames) => j < Len(Pieces(frames[k + 1])) /\ At(head, frames[k + 1], j)
    /\ k = Len(frames) => j = 0 /\ head = NONE

\* It has answered the first k, and their commands made its state.
Effect(k) ==
    /\ dev = Reference[First(k)].dev
    /\ client # "reset" => Answers = Reference[First(k)].out

\* Types; only the reader is inside a frame, and something is at hand exactly while
\* it is written.
FrameTypes ==
    /\ RouterInv
    /\ pc \in {"accept", "handshake", "off"} \cup Upgrades
    /\ rx \in Seq(Piece) /\ unsent \in Seq(Piece) /\ Len(rx) <= RX_SIZE
    /\ tx \in Seq(Written) /\ received \in Seq(Written) /\ Len(tx) <= TX_SIZE
    /\ frames \in Seq(Frames)
    /\ head \in Opt(Header)
    /\ head # NONE => pc = "read" /\ head.len <= MAX_MSG_LEN
    /\ out \in Opt(Written)
    /\ out # NONE <=> pc \in Writes \ {"write_close"}

\* The server is somewhere in the client's frames, and has answered what is before it.
Served == \E k, j : Position(k, j) /\ Effect(k)

\* An upgraded connection is served; before, nothing was read and nothing done.
FrameInv ==
    /\ FrameTypes /\ ClientInv
    /\ pc \in Upgrades => Served
    /\ pc = "handshake" => Position(0, 0) /\ tx = <<>> /\ received = <<>> /\ dev = DefaultState
    /\ pc = "accept" => client = "none" /\ rx = <<>> /\ tx = <<>> /\ unsent = <<>> /\ head = NONE

\* What moves pieces only from the client to the socket.
LEMMA PositionKept ==
    ASSUME NEW k, NEW j, Position(k, j), frames' = frames, head' = head,
           rx' \o unsent' = rx \o unsent
    PROVE  Position(k, j)'
  BY DEF Position, Base, First, Left

\* What changes neither the state nor what is answered.
LEMMA EffectKept ==
    ASSUME NEW k, Effect(k), frames' = frames, dev' = dev,
           client' = "reset" \/ (client # "reset" /\ Answers' = Answers)
    PROVE  Effect(k)'
  BY DEF Effect, First

\* Both.
LEMMA ServedKept ==
    ASSUME Served, frames' = frames, head' = head, rx' \o unsent' = rx \o unsent, dev' = dev,
           client' = "reset" \/ (client # "reset" /\ Answers' = Answers)
    PROVE  Served'
<1>1. PICK k, j : Position(k, j) /\ Effect(k)
  BY DEF Served
<1>2. Position(k, j)' /\ Effect(k)'
  BY <1>1, PositionKept, EffectKept
<1> QED BY <1>2, Zenon DEF Served

\* What is answered depends on four variables.
LEMMA AnswersKept ==
    ASSUME UNCHANGED <<pc, out, tx, received>>
    PROVE  Answers' = Answers
  BY DEF Answers, Pending

\* The next piece, taken from the socket.
LEMMA NextPiece ==
    ASSUME FrameTypes, NEW k, NEW j, Position(k, j), rx # <<>>,
           rx' = Tail(rx), UNCHANGED <<unsent, frames>>
    PROVE  /\ k \in 0..Len(frames) /\ k < Len(frames) /\ frames[k + 1] \in Frames /\ j \in Nat
           /\ j < Len(Pieces(frames[k + 1])) /\ At(head, frames[k + 1], j)
           /\ Head(rx) = Pieces(frames[k + 1])[j + 1]
           /\ rx' \in Seq(Piece) /\ Len(rx') <= RX_SIZE
           /\ Left(Stream[frames], rx \o unsent, Base(k) + j + 1)'
<1>1. /\ rx \in Seq(Piece) /\ unsent \in Seq(Piece) /\ frames \in Seq(Frames)
      /\ k \in 0..Len(frames) /\ j \in Nat /\ Len(rx) <= RX_SIZE
  BY DEF FrameTypes, Position
<1>2. Stream[frames] \in Seq(Piece)
  BY <1>1, StreamSteps
<1>3. Left(Stream[frames], rx \o unsent, Base(k) + j)
  BY DEF Position
<1>4. /\ Left(Stream[frames], Tail(rx) \o unsent, Base(k) + j + 1) /\ Tail(rx) \in Seq(Piece)
      /\ Head(rx) = Stream[frames][Base(k) + j + 1] /\ Base(k) + j < Len(Stream[frames])
  <2> DEFINE p == Base(k) + j
  <2>1. Left(Stream[frames], rx \o unsent, p)
    BY <1>3
  <2> HIDE DEF p
  <2>2. /\ Left(Stream[frames], Tail(rx) \o unsent, p + 1) /\ Tail(rx) \in Seq(Piece)
        /\ Head(rx) = Stream[frames][p + 1] /\ p < Len(Stream[frames])
    BY <1>1, <1>2, <2>1, LeftTail
  <2> QED BY <2>2 DEF p
<1>5. k < Len(frames)
  <2> SUFFICES ASSUME k = Len(frames) PROVE FALSE
    BY <1>1
  <2>1. j = 0
    BY DEF Position
  <2>2. First(k) = frames
    BY <1>1, SubSeqFull DEF First
  <2>3. Len(Stream[frames]) \in Nat /\ Base(k) = Len(Stream[frames])
    BY <1>2, <2>2 DEF Base
  <2> QED BY <1>4, <2>1, <2>3
<1>6. j < Len(Pieces(frames[k + 1])) /\ At(head, frames[k + 1], j)
  BY <1>5 DEF Position
<1>7. /\ frames[k + 1] \in Frames /\ Base(k) \in Nat
      /\ \A i \in 1..Len(Pieces(frames[k + 1])) :
            Stream[frames][Base(k) + i] = Pieces(frames[k + 1])[i]
  BY <1>1, <1>5, PieceOfStream DEF Base, First
<1>8. Head(rx) = Pieces(frames[k + 1])[j + 1]
  <2>1. Len(Pieces(frames[k + 1])) \in Nat
    BY <1>7, PiecesOfFrame
  <2>2. j + 1 \in 1..Len(Pieces(frames[k + 1])) /\ Base(k) + (j + 1) = Base(k) + j + 1
    BY <1>1, <1>6, <1>7, <2>1
  <2> QED BY <1>4, <1>7, <2>2
<1>9. Len(Tail(rx)) <= RX_SIZE
  <2>1. RX_SIZE \in Nat
    BY WsAssumption
  <2>2. Len(Tail(rx)) = Len(rx) - 1 /\ Len(rx) \in Nat
    BY <1>1
  <2> QED BY <1>1, <2>1, <2>2
<1>10. Left(Stream[frames], rx \o unsent, Base(k) + j + 1)'
  BY <1>4, Zenon DEF Left, Base, First
<1> QED BY <1>1, <1>4, <1>5, <1>6, <1>7, <1>8, <1>9, <1>10

\* The place behind one more piece of the frame, or behind its last.
LEMMA Onward ==
    ASSUME NEW k \in 0..Len(frames), k < Len(frames), NEW j \in Nat, frames \in Seq(Frames),
           frames' = frames, Left(Stream[frames], rx \o unsent, Base(k) + j + 1)'
    PROVE  /\ j + 1 < Len(Pieces(frames[k + 1])) /\ At(head, frames[k + 1], j + 1)'
                => Position(k, j + 1)'
           /\ j + 1 = Len(Pieces(frames[k + 1])) /\ head' = NONE => Position(k + 1, 0)'
<1>1. Base(k + 1) = Base(k) + Len(Pieces(frames[k + 1])) /\ frames[k + 1] \in Frames /\ Base(k) \in Nat
  BY PieceOfStream DEF Base, First
<1>2. /\ Base(k)' = Base(k) /\ Base(k + 1)' = Base(k + 1)
      /\ Base(k) + j + 1 = Base(k) + (j + 1)
  <2>1. Base(k)' = Base(k) /\ Base(k + 1)' = Base(k + 1)
    BY Zenon DEF Base, First
  <2>2. Base(k) + j + 1 = Base(k) + (j + 1)
    BY <1>1
  <2> QED BY <2>1, <2>2
<1>3. ASSUME j + 1 < Len(Pieces(frames[k + 1])), At(head, frames[k + 1], j + 1)'
      PROVE  Position(k, j + 1)'
  <2>1. Left(Stream[frames], rx \o unsent, Base(k) + (j + 1))'
    BY <1>2
  <2>2. j + 1 \in Nat /\ k # Len(frames)
    OBVIOUS
  <2> QED BY <1>3, <2>1, <2>2 DEF Position
<1>4. ASSUME j + 1 = Len(Pieces(frames[k + 1])), head' = NONE
      PROVE  Position(k + 1, 0)'
  <2>1. (Base(k) + j + 1)' = Base(k + 1)' + 0
    BY <1>1, <1>2, <1>4
  <2>2. Left(Stream[frames], rx \o unsent, Base(k + 1) + 0)'
    BY <2>1, Zenon
  <2>3. k + 1 \in 0..Len(frames)
    OBVIOUS
  <2>4. k + 1 < Len(frames) => 0 < Len(Pieces(frames[k + 1 + 1])) /\ At(NONE, frames[k + 1 + 1], 0)
    <3> SUFFICES ASSUME k + 1 < Len(frames) PROVE 0 < Len(Pieces(frames[k + 1 + 1]))
      BY DEF At
    <3>1. frames[k + 1 + 1] \in Frames
      OBVIOUS
    <3>2. /\ Len(Pieces(frames[k + 1 + 1])) = 1 + Ext(frames[k + 1 + 1]) + Mask(frames[k + 1 + 1])
                                                + Load(frames[k + 1 + 1])
          /\ Ext(frames[k + 1 + 1]) \in {0, 1} /\ Mask(frames[k + 1 + 1]) \in {0, 1}
          /\ Load(frames[k + 1 + 1]) \in {0, 1}
      BY <3>1, PiecesOfFrame, FrameFields
    <3> QED BY <3>2
  <2> QED BY <1>4, <2>2, <2>3, <2>4 DEF Position
<1> QED BY <1>3, <1>4

--------------------------------------------------------------------------------
(* A frame served *)

\* What is at hand behind what was written is what the frame adds to the reference.
LEMMA Answered ==
    ASSUME FrameTypes, pc = "read", NEW k \in 0..Len(frames), k < Len(frames), Effect(k),
           UNCHANGED <<client, tx, received, frames>>,
           NEW more \in Seq(Written), Pending' = more,
           Output1(Reference[First(k)], frames[k + 1]).dev = dev',
           Output1(Reference[First(k)], frames[k + 1]).out = Reference[First(k)].out \o more
    PROVE  Effect(k + 1)'
<1>1. Reference[First(k + 1)] = Output1(Reference[First(k)], frames[k + 1])
  BY PieceOfStream DEF First, FrameTypes
<1>2. First(k + 1)' = First(k + 1)
  BY Zenon DEF First
<1>3. ASSUME client' # "reset" PROVE Answers' = Reference[First(k)].out \o more
  <2>1. received \in Seq(Written) /\ tx \in Seq(Written)
    BY DEF FrameTypes
  <2>2. Pending = <<>>
    BY DEF Pending
  <2>3. received \o tx \o <<>> = Reference[First(k)].out
    BY <1>3, <2>2 DEF Effect, Answers
  <2>4. received \o tx \o <<>> = received \o tx
    BY <2>1
  <2>5. Answers' = received \o tx \o more
    BY DEF Answers
  <2> QED BY <2>3, <2>4, <2>5
<1>4. dev' = Reference[First(k + 1)'].dev
  BY <1>1, <1>2
<1>5. client' # "reset" => Answers' = Reference[First(k + 1)'].out
  BY <1>1, <1>2, <1>3
<1> QED BY <1>4, <1>5 DEF Effect

\* handle_client's part of a frame, or read_frame's.
LEMMA FrameServed ==
    ASSUME FrameTypes, pc = "read", NEW k \in 0..Len(frames), k < Len(frames), Effect(k),
           NEW f, f = frames[k + 1], ~Refused(f), FrameDone(f.opcode, f.len, f.payload),
           UNCHANGED <<client, tx, received, frames>>
    PROVE  /\ RouterInv' /\ head' = NONE
           /\ pc' \in Upgrades \cup {"off"}
           /\ out' \in Opt(Written)
           /\ out' # NONE <=> pc' \in Writes \ {"write_close"}
           /\ pc' \in Upgrades => Effect(k + 1)'
<1> DEFINE acc == Reference[First(k)]
<1>1. f \in Frames /\ f.payload \in Opt(STRING)
  <2>1. f \in Frames
    BY DEF FrameTypes
  <2> QED BY <2>1, FrameFields
<1>2. acc \in RefType /\ acc.dev = dev
  <2>1. First(k) \in Seq(Frames)
    BY Prefix DEF First, FrameTypes
  <2> QED BY <2>1, ReferenceSteps DEF Effect
<1>3. acc.out \in Seq(Written)
  BY <1>2 DEF RefType
<1>4. out = NONE /\ head' = NONE /\ RouterInv
  BY DEF FrameTypes, FrameDone, Writes
<1>5. NONE \notin Written
  BY WsAssumption
<1>6. <<>> \in Seq(Written) /\ acc.out \o <<>> = acc.out
  BY <1>3
<1> HIDE DEF acc
<1>7. ASSUME NEW r \in ResponseType \cup {Malformed}, r.id \notin UnserializableIds, RouterInv',
             Writing("write_header", Text(r)),
             Output1(acc, f) = [dev |-> dev', out |-> acc.out \o
                 (IF r.id \in UnserializableIds THEN <<>> ELSE <<TextHeader, Text(r)>>)]
      PROVE  /\ pc' \in Upgrades /\ out' \in Opt(Written) /\ out' # NONE /\ pc' = "write_header"
             /\ Effect(k + 1)'
  <2>1. Text(r) \in Written /\ TextHeader \in Written
    BY WrittenTypes
  <2>2. Pending' = <<TextHeader, Text(r)>> /\ pc' = "write_header" /\ out' = Text(r)
    BY <1>7 DEF Writing, Pending
  <2>3. <<TextHeader, Text(r)>> \in Seq(Written)
    BY <2>1
  <2>4. Output1(acc, f) = [dev |-> dev', out |-> acc.out \o <<TextHeader, Text(r)>>]
    BY <1>7
  <2>5. Output1(acc, f).dev = dev' /\ Output1(acc, f).out = acc.out \o <<TextHeader, Text(r)>>
    BY <2>4
  <2>6. Effect(k + 1)'
    BY <2>2, <2>3, <2>5, Answered, Zenon DEF acc
  <2>7. out' # NONE /\ out' \in Opt(Written)
    BY <2>1, <2>2, <1>5, Zenon DEF Opt
  <2> QED BY <2>2, <2>6, <2>7 DEF Upgrades
<1>8. ASSUME RouterInv', out' = NONE, pc' \in {"read", "reboot", "write_close"},
             Output1(acc, f).dev = dev', Output1(acc, f).out = acc.out
      PROVE  /\ pc' \in Upgrades /\ out' \in Opt(Written)
             /\ out' # NONE <=> pc' \in Writes \ {"write_close"}
             /\ Effect(k + 1)'
  <2>1. Pending' = <<>>
    BY <1>8 DEF Pending
  <2>2. Effect(k + 1)'
    BY <2>1, <1>6, <1>8, Answered, Zenon DEF acc
  <2> QED BY <1>8, <2>2 DEF Upgrades, Opt, Writes
<1>9. CASE f.opcode = OPCODE_TEXT /\ Serve(f.payload)
  <2> DEFINE r == IF f.payload \in DOMAIN Json THEN respond(Json[f.payload], acc.dev)
                  ELSE [dev |-> acc.dev, reply |-> Malformed]
             more == IF r.reply.id \in UnserializableIds THEN <<>> ELSE <<TextHeader, Text(r.reply)>>
  <2>1. Output1(acc, f) = [dev |-> r.dev, out |-> acc.out \o more]
    BY <1>9 DEF Output1, OPCODE_TEXT, OPCODE_PING
  <2>2. CASE f.payload \notin DOMAIN Json
    <3>1. Writing("write_header", Text(Malformed)) /\ UNCHANGED routerVars
      BY <1>9, <2>2 DEF Serve
    <3>2. r.dev = dev /\ r.reply = Malformed
      BY <1>2, <2>2
    <3>3. RouterInv' /\ dev' = dev
      BY <1>4, <3>1, RouterUnchanged DEF routerVars
    <3>4. Malformed.id \notin UnserializableIds
      BY WsAssumption DEF Malformed, Response
    <3> HIDE DEF r
    <3>5. Output1(acc, f) = [dev |-> dev', out |-> acc.out \o
                 (IF Malformed.id \in UnserializableIds THEN <<>> ELSE <<TextHeader, Text(Malformed)>>)]
      BY <2>1, <3>2, <3>3
    <3>6. Malformed \in ResponseType \cup {Malformed}
      OBVIOUS
    <3>7. pc' = "write_header" /\ out' \in Opt(Written) /\ out' # NONE /\ Effect(k + 1)'
      BY <1>7, <3>1, <3>3, <3>4, <3>5, <3>6, Zenon
    <3> QED BY <1>4, <3>3, <3>7 DEF Upgrades, Writes
  <2>3. CASE f.payload \in DOMAIN Json
    <3> DEFINE cmd == Json[f.payload]
    <3>1. cmd \in Commands /\ Handle(cmd)
      BY <1>9, <2>3, WsAssumption DEF Serve
    <3>2. RouterInv' /\ dev' = r.dev /\ reply' = r.reply
      BY <1>2, <1>4, <2>3, <3>1, HandleStep DEF Handle
    <3>3. reply' \in ResponseType
      BY <3>2 DEF RouterInv, RouterTypeOK
    <3>4. \/ halted' /\ pc' = "off" /\ UNCHANGED out
          \/ reply'.id \in UnserializableIds /\ pc' = NextPc(dev') /\ UNCHANGED out
          \/ reply'.id \notin UnserializableIds /\ Writing("write_header", Text(reply'))
      BY <1>9, <2>3, Zenon DEF Serve
    <3> HIDE DEF r
    <3>5. CASE pc' = "off" /\ UNCHANGED out
      BY <1>4, <3>2, <3>5 DEF Upgrades, Opt, Writes
    <3>6. CASE reply'.id \in UnserializableIds /\ pc' = NextPc(dev') /\ UNCHANGED out
      <4>1. more = <<>>
        BY <3>2, <3>6
      <4> HIDE DEF more
      <4>2. Output1(acc, f).dev = dev' /\ Output1(acc, f).out = acc.out \o more
        BY <2>1, <3>2
      <4>4. Output1(acc, f).out = acc.out
        BY <1>6, <4>1, <4>2, Zenon
      <4>3. pc' \in {"read", "reboot", "write_close"} /\ out' = NONE
        BY <1>4, <3>6 DEF NextPc
      <4> QED BY <1>4, <1>8, <3>2, <4>2, <4>3, <4>4, Zenon
    <3>7. CASE reply'.id \notin UnserializableIds /\ Writing("write_header", Text(reply'))
      <4>1. Output1(acc, f) = [dev |-> dev', out |-> acc.out \o
                 (IF reply'.id \in UnserializableIds THEN <<>> ELSE <<TextHeader, Text(reply')>>)]
        BY <2>1, <3>2
      <4>2. reply' \in ResponseType \cup {Malformed}
        BY <3>3
      <4>3. pc' = "write_header" /\ out' \in Opt(Written) /\ out' # NONE /\ Effect(k + 1)'
        BY <1>7, <3>2, <3>7, <4>1, <4>2, Zenon
      <4> QED BY <1>4, <3>2, <4>3 DEF Upgrades, Writes
    <3> QED BY <3>4, <3>5, <3>6, <3>7
  <2> QED BY <2>2, <2>3
<1>10. CASE f.opcode = OPCODE_CLOSE /\ Writing("write_close", NONE) /\ UNCHANGED routerVars
  <2>1. Output1(acc, f) = acc
    BY <1>10 DEF Output1, OPCODE_CLOSE, OPCODE_PING, OPCODE_TEXT
  <2>2. RouterInv' /\ dev' = dev
    BY <1>4, <1>10, RouterUnchanged DEF routerVars
  <2>3. pc' = "write_close" /\ out' = NONE
    BY <1>10 DEF Writing
  <2> QED BY <1>2, <1>4, <1>8, <2>1, <2>2, <2>3
<1>11. CASE f.opcode = OPCODE_PING /\ f.len <= 125 /\ Writing("write_pong", Pong(f.payload))
            /\ UNCHANGED routerVars
  <2>1. Output1(acc, f) = [acc EXCEPT !.out = Append(acc.out, Pong(f.payload))]
    BY <1>11 DEF Output1
  <2>2. Pong(f.payload) \in Written
    BY <1>1, WrittenTypes
  <2>3. <<Pong(f.payload)>> \in Seq(Written)
        /\ Append(acc.out, Pong(f.payload)) = acc.out \o <<Pong(f.payload)>>
    BY <1>3, <2>2
  <2>4. RouterInv' /\ dev' = dev
    BY <1>4, <1>11, RouterUnchanged DEF routerVars
  <2>5. Output1(acc, f).dev = dev' /\ Output1(acc, f).out = acc.out \o <<Pong(f.payload)>>
    BY <1>2, <2>1, <2>3, <2>4 DEF RefType
  <2>6. pc' = "write_pong" /\ out' = Pong(f.payload) /\ Pending' = <<Pong(f.payload)>>
    BY <1>11 DEF Writing, Pending
  <2>7. Effect(k + 1)'
    BY <2>3, <2>5, <2>6, <1>1, Answered, Zenon DEF acc
  <2>8. out' # NONE /\ out' \in Opt(Written)
    BY <1>5, <2>2, <2>6, Zenon DEF Opt
  <2> QED BY <1>4, <2>4, <2>6, <2>7, <2>8 DEF Upgrades, Writes
<1>12. CASE /\ f.opcode \notin {OPCODE_TEXT, OPCODE_CLOSE}
            /\ f.opcode = OPCODE_PING => f.len > 125
            /\ UNCHANGED <<routerVars, pc, out>>
  <2>1. f.len \in Nat
    BY <1>1, FrameFields
  <2>2. ~(f.opcode = OPCODE_PING /\ f.len <= 125) /\ f.opcode # OPCODE_TEXT
    BY <1>12, <2>1
  <2>4. Output1(acc, f) = acc
    BY <2>2, Zenon DEF Output1
  <2>3. RouterInv' /\ dev' = dev
    BY <1>4, <1>12, RouterUnchanged DEF routerVars
  <2> QED BY <1>2, <1>4, <1>8, <1>12, <2>3, <2>4
<1> QED BY <1>9, <1>10, <1>11, <1>12, Zenon DEF FrameDone

--------------------------------------------------------------------------------
(* Reading *)

\* The end of a connection.
LEMMA AbortFrame ==
    ASSUME FrameInv, Abort, UNCHANGED routerVars
    PROVE  FrameInv'
<1>1. /\ pc' = "accept" /\ client' = "none" /\ rx' = <<>> /\ tx' = <<>> /\ unsent' = <<>>
      /\ head' = NONE /\ out' = NONE /\ UNCHANGED <<frames, received>>
  BY DEF Abort
<1>2. RouterInv'
  BY RouterUnchanged DEF FrameInv, FrameTypes
<1>3. RX_SIZE \in Nat /\ TX_SIZE \in Nat
  BY WsAssumption
<1>4. <<>> \in Seq(Piece) /\ <<>> \in Seq(Written) /\ Len(<<>>) = 0
  OBVIOUS
<1>5. FrameTypes'
  BY <1>1, <1>2, <1>3, <1>4 DEF FrameInv, FrameTypes, Opt, Writes
<1>6. ClientInv'
  BY <1>1 DEF ClientInv
<1> QED BY <1>1, <1>5, <1>6 DEF FrameInv, Upgrades

\* A piece that does not complete its frame.
LEMMA AwaitFrame ==
    ASSUME FrameInv, pc = "read", rx # <<>>, NEW k, NEW j, Position(k, j), Effect(k),
           rx' = Tail(rx), UNCHANGED <<client, tx, unsent, frames, received, routerVars, pc, out>>,
           head' \in Header, head'.len <= MAX_MSG_LEN,
           At(head', frames[k + 1], j + 1), j + 1 < Len(Pieces(frames[k + 1]))
    PROVE  FrameInv'
<1>1. /\ k \in 0..Len(frames) /\ k < Len(frames) /\ j \in Nat
      /\ rx' \in Seq(Piece) /\ Len(rx') <= RX_SIZE
      /\ Left(Stream[frames], rx \o unsent, Base(k) + j + 1)'
  BY NextPiece DEF FrameInv
<1>2. At(head, frames[k + 1], j + 1)'
  BY Zenon
<1>3. Position(k, j + 1)'
  BY <1>1, <1>2, Onward DEF FrameInv, FrameTypes
<1>4. dev' = dev /\ RouterInv'
  BY RouterUnchanged DEF FrameInv, FrameTypes, routerVars
<1>5. Effect(k)'
  BY <1>4, EffectKept, AnswersKept
<1>6. Served'
  BY <1>3, <1>5, Zenon DEF Served
<1>7. FrameTypes'
  BY <1>1, <1>4 DEF FrameInv, FrameTypes, Opt
<1>8. ClientInv'
  BY DEF FrameInv, ClientInv
<1> QED BY <1>6, <1>7, <1>8 DEF FrameInv

\* A piece that does.
LEMMA LastPiece ==
    ASSUME FrameInv, pc = "read", rx # <<>>, NEW k, NEW j, Position(k, j), Effect(k),
           rx' = Tail(rx), UNCHANGED <<client, tx, unsent, frames, received>>,
           NEW f, f = frames[k + 1], ~Refused(f), FrameDone(f.opcode, f.len, f.payload),
           j + 1 = Len(Pieces(f))
    PROVE  FrameInv'
<1>1. /\ k \in 0..Len(frames) /\ k < Len(frames) /\ j \in Nat
      /\ rx' \in Seq(Piece) /\ Len(rx') <= RX_SIZE
      /\ Left(Stream[frames], rx \o unsent, Base(k) + j + 1)'
  BY NextPiece DEF FrameInv
<1>2. /\ RouterInv' /\ head' = NONE
      /\ pc' \in Upgrades \cup {"off"}
      /\ out' \in Opt(Written)
      /\ out' # NONE <=> pc' \in Writes \ {"write_close"}
      /\ pc' \in Upgrades => Effect(k + 1)'
  BY <1>1, FrameServed DEF FrameInv
<1>3. Position(k + 1, 0)'
  BY <1>1, <1>2, Onward DEF FrameInv, FrameTypes
<1>4. pc' \in Upgrades => Served'
  BY <1>2, <1>3, Zenon DEF Served
<1>5. FrameTypes'
  BY <1>1, <1>2 DEF FrameInv, FrameTypes, Opt
<1>6. ClientInv'
  BY DEF FrameInv, ClientInv
<1>7. pc' # "handshake" /\ pc' # "accept"
  BY <1>2 DEF Upgrades
<1> QED BY <1>4, <1>5, <1>6, <1>7 DEF FrameInv

\* A piece that refuses its frame.
LEMMA RefusedPiece ==
    ASSUME FrameInv, pc = "read", rx # <<>>, NEW k, NEW j, Position(k, j), Effect(k), Refuse,
           NEW f, f = frames[k + 1], Refused(f), j + 1 = Len(Pieces(f))
    PROVE  FrameInv'
<1>1. /\ client' = "reset" /\ tx' = <<>> /\ rx' = Tail(rx) /\ head' = NONE
      /\ UNCHANGED <<routerVars, pc, unsent, out, frames, received>>
  BY DEF Refuse
<1>2. /\ k \in 0..Len(frames) /\ k < Len(frames) /\ j \in Nat
      /\ rx' \in Seq(Piece) /\ Len(rx') <= RX_SIZE
      /\ Left(Stream[frames], rx \o unsent, Base(k) + j + 1)'
  BY <1>1, NextPiece DEF FrameInv
<1>3. Position(k + 1, 0)'
  BY <1>1, <1>2, Onward DEF FrameInv, FrameTypes
<1>4. RouterInv' /\ dev' = dev
  BY <1>1, RouterUnchanged DEF FrameInv, FrameTypes, routerVars
<1>5. Effect(k + 1)'
  <2>1. Reference[First(k + 1)] = Output1(Reference[First(k)], f)
    BY <1>2, PieceOfStream DEF First, FrameInv, FrameTypes
  <2>2. Output1(Reference[First(k)], f) = Reference[First(k)]
    BY DEF Output1
  <2>3. First(k + 1)' = First(k + 1)
    BY <1>1, Zenon DEF First
  <2> QED BY <1>1, <1>4, <2>1, <2>2, <2>3 DEF Effect
<1>6. Served'
  BY <1>3, <1>5, Zenon DEF Served
<1>7. FrameTypes'
  <2>1. <<>> \in Seq(Written) /\ Len(<<>>) = 0 /\ TX_SIZE \in Nat
    BY WsAssumption
  <2> QED BY <1>1, <1>2, <1>4, <2>1 DEF FrameInv, FrameTypes, Opt
<1>8. ClientInv'
  BY <1>1 DEF FrameInv, ClientInv
<1> QED BY <1>1, <1>6, <1>7, <1>8 DEF FrameInv, Upgrades

\* A piece of the stream.
LEMMA ReadFrame ==
    ASSUME FrameInv, ReadPiece
    PROVE  FrameInv'
<1>1. pc = "read" /\ rx # <<>>
  BY DEF ReadPiece
<1>2. PICK k, j : Position(k, j) /\ Effect(k)
  BY <1>1 DEF FrameInv, Served, Upgrades
<1> DEFINE g == frames[k + 1]
<1>3. ASSUME Refuse, Refused(g), j + 1 = Len(Pieces(g))
      PROVE  FrameInv'
  BY <1>1, <1>2, <1>3, RefusedPiece
<1>4. Consumed \/ Refuse
  BY DEF ReadPiece, ReadHeader, LengthKnown, ReadMask, ReadPayload
<1> QED
  <2>1. Position(k, j) /\ Effect(k)
    BY <1>2
  <2>2. rx' = Tail(rx) /\ UNCHANGED <<unsent, frames, received>>
    BY <1>4 DEF Consumed, Refuse
  <2> DEFINE f == frames[k + 1]
  <2>3. /\ k \in 0..Len(frames) /\ k < Len(frames) /\ f \in Frames /\ j \in Nat
        /\ j < Len(Pieces(f)) /\ At(head, f, j) /\ Head(rx) = Pieces(f)[j + 1]
    BY <1>1, <2>1, <2>2, NextPiece DEF FrameInv
  <2>4. /\ Len(Pieces(f)) = 1 + Ext(f) + Mask(f) + Load(f)
        /\ Pieces(f)[1] = FirstPiece(f)
        /\ Ext(f) = 1 => Pieces(f)[2] = Bytes(<<f.len \div 256, f.len % 256>>)
        /\ Load(f) = 1 => Pieces(f)[2 + Ext(f) + Mask(f)] = Payload(f.payload)
    BY <2>3, PiecesOfFrame
  <2>5. /\ f.opcode \in 0..15 /\ f.masked \in BOOLEAN /\ f.len \in Nat
        /\ f.len = 0 => f.payload = NONE
        /\ Ext(f) \in {0, 1} /\ Mask(f) \in {0, 1} /\ Load(f) \in {0, 1}
    BY <2>3, FrameFields
  <2>7. MAX_MSG_LEN \in Nat /\ MAX_MSG_LEN <= 65535 /\ 125 <= MAX_MSG_LEN
    BY FrameAssumption
  <2>6. /\ f.len <= MAX_MSG_LEN => /\ Mask(f) = 1 <=> f.masked
                                   /\ Load(f) = 1 <=> f.len > 0
        /\ f.len > MAX_MSG_LEN => Refused(f) /\ Mask(f) = 0 /\ Load(f) = 0
    BY <2>5, <2>7 DEF Mask, Load, Refused
  <2>8. \A h \in Header : h # NONE
    BY WsAssumption
  <2> HIDE DEF f
  <2>9. ASSUME NEW h \in Header, Awaiting(h, "mask") \/ Awaiting(h, "payload") \/ Awaiting(h, "length"),
               h.opcode = f.opcode, h.masked = f.masked, h.len <= MAX_MSG_LEN,
               Consumed,
               head'.at = "length" => Ext(f) = 1 /\ j = 0 /\ h.len = 0,
               head'.at = "mask" => f.masked /\ h.len = f.len /\ j = Ext(f),
               head'.at = "payload" => f.len > 0 /\ h.len = f.len /\ j = Ext(f) + Mask(f)
        PROVE  FrameInv'
    <3>1. /\ head' \in Header /\ head'.opcode = f.opcode /\ head'.masked = f.masked
          /\ head'.len = h.len /\ head'.at \in {"length", "mask", "payload"}
          /\ UNCHANGED <<routerVars, pc, out>>
      BY <2>9 DEF Awaiting, Header
    <3>2. head' # NONE
      BY <3>1, <2>8
    <3>3. At(head', f, j + 1)
      <4>1. CASE head'.at = "length"
        BY <4>1, <3>1, <3>2, <2>9 DEF At
      <4>2. CASE head'.at = "mask"
        <5>1. j + 1 = 1 + Ext(f)
          BY <4>2, <2>9, <2>5
        <5> QED BY <4>2, <5>1, <3>1, <3>2, <2>9 DEF At
      <4>3. CASE head'.at = "payload"
        <5>1. j + 1 = 1 + Ext(f) + Mask(f)
          BY <4>3, <2>9, <2>5
        <5> QED BY <4>3, <5>1, <3>1, <3>2, <2>9 DEF At
      <4> QED BY <3>1, <4>1, <4>2, <4>3
    <3>4. j + 1 < Len(Pieces(f))
      <4>1. CASE head'.at = "length"
        BY <4>1, <2>4, <2>5, <2>9
      <4>2. CASE head'.at = "mask"
        BY <4>2, <2>4, <2>5, <2>6, <2>9
      <4>3. CASE head'.at = "payload"
        BY <4>3, <2>4, <2>5, <2>6, <2>9
      <4> QED BY <3>1, <4>1, <4>2, <4>3
    <3> QED BY <1>1, <2>1, <2>9, <3>1, <3>3, <3>4, AwaitFrame DEF f, Consumed
  <2>10. ASSUME Consumed, FrameDone(f.opcode, f.len, f.payload), j + 1 = Len(Pieces(f)),
                f.len <= MAX_MSG_LEN
         PROVE  FrameInv'
    <3>1. ~Refused(f)
      BY <2>5, <2>7, <2>10 DEF Refused
    <3> QED BY <1>1, <2>1, <2>10, <3>1, LastPiece DEF f, Consumed
  <2>11. ASSUME NEW h \in Header, h.opcode = f.opcode, h.masked = f.masked, j = Ext(f),
                LengthKnown(h, f.len)
         PROVE  FrameInv'
    <3> DEFINE known == [h EXCEPT !.len = f.len]
    <3>1. /\ known \in Header /\ known.opcode = f.opcode /\ known.masked = f.masked
          /\ known.len = f.len
      BY <2>5, <2>11 DEF Header
    <3> HIDE DEF known
    <3>2. CASE f.len > MAX_MSG_LEN /\ Refuse
      <4>1. j + 1 = Len(Pieces(f))
        BY <2>4, <2>5, <2>6, <2>11, <3>2
      <4> QED BY <1>3, <2>6, <3>2, <4>1 DEF f
    <3>3. CASE ~(f.len > MAX_MSG_LEN /\ Refuse)
      <4>1. /\ f.len <= MAX_MSG_LEN /\ Consumed
            /\ \/ f.masked /\ Awaiting(known, "mask")
               \/ ~f.masked /\ f.len > 0 /\ Awaiting(known, "payload")
               \/ ~f.masked /\ f.len = 0 /\ FrameDone(f.opcode, 0, NONE)
        BY <2>5, <2>7, <2>11, <3>3 DEF LengthKnown, known
      <4>2. CASE f.masked /\ Awaiting(known, "mask")
        <5>1. head'.at = "mask"
          BY <3>1, <4>2 DEF Awaiting, Header
        <5> QED BY <2>9, <2>11, <3>1, <4>1, <4>2, <5>1
      <4>3. CASE ~f.masked /\ f.len > 0 /\ Awaiting(known, "payload")
        <5>1. head'.at = "payload"
          BY <3>1, <4>3 DEF Awaiting, Header
        <5>2. j = Ext(f) + Mask(f)
          BY <2>5, <2>6, <2>11, <4>1, <4>3
        <5> QED BY <2>9, <3>1, <4>1, <4>3, <5>1, <5>2
      <4>4. CASE ~f.masked /\ f.len = 0 /\ FrameDone(f.opcode, 0, NONE)
        <5>1. FrameDone(f.opcode, f.len, f.payload)
          BY <2>5, <4>4
        <5>2. j + 1 = Len(Pieces(f))
          BY <2>4, <2>5, <2>6, <2>11, <4>1, <4>4
        <5> QED BY <2>10, <3>1, <4>1, <5>1, <5>2
      <4> QED BY <4>1, <4>2, <4>3, <4>4
    <3> QED BY <3>2, <3>3
  <2>12. CASE head = NONE /\ ReadHeader(Head(rx).bytes)
    <3>1. j = 0
      BY <2>3, <2>12 DEF At
    <3> DEFINE raw == Head(rx).bytes
               h == [at |-> "length", opcode |-> opcode_of(raw), masked |-> is_masked(raw), len |-> 0]
    <3>2. /\ opcode_of(raw) = f.opcode /\ is_masked(raw) = f.masked /\ len7(raw) = Len7(f)
      <4>1. Head(rx) = FirstPiece(f)
        BY <2>3, <2>4, <3>1
      <4> QED BY <4>1, <2>3, HeaderBytes
    <3>3. h \in Header /\ h.opcode = f.opcode /\ h.masked = f.masked /\ h.len = 0
      BY <2>5, <3>2 DEF Header, Opcodes
    <3>4. \/ len7(raw) <= 125 /\ LengthKnown(h, len7(raw))
          \/ len7(raw) = 126 /\ Awaiting(h, "length") /\ Consumed
          \/ len7(raw) = 127 /\ Refuse
      BY <2>12, Zenon DEF ReadHeader
    <3> HIDE DEF h, raw
    <3>5. CASE len7(raw) <= 125 /\ LengthKnown(h, len7(raw))
      <4>1. len7(raw) = f.len /\ Ext(f) = 0
        BY <2>5, <3>2, <3>5 DEF Len7, Ext
      <4> QED BY <2>11, <3>1, <3>3, <3>5, <4>1
    <3>6. CASE len7(raw) = 126 /\ Awaiting(h, "length") /\ Consumed
      <4>1. Ext(f) = 1
        BY <2>5, <3>2, <3>6 DEF Len7, Ext
      <4>2. head'.at = "length"
        BY <3>3, <3>6 DEF Awaiting, Header
      <4>3. h.len <= MAX_MSG_LEN
        BY <2>7, <3>3
      <4> QED BY <2>9, <3>1, <3>3, <3>6, <4>1, <4>2, <4>3
    <3>7. CASE len7(raw) = 127 /\ Refuse
      <4>1. f.len > 65535 /\ Ext(f) = 0
        BY <2>5, <3>2, <3>7 DEF Len7, Ext
      <4>2. Refused(f) /\ j + 1 = Len(Pieces(f))
        BY <2>4, <2>5, <2>6, <2>7, <3>1, <4>1
      <4> QED BY <1>3, <3>7, <4>2 DEF f
    <3> QED BY <3>4, <3>5, <3>6, <3>7
  <2>13. CASE head # NONE
    <3>1. /\ head \in Header /\ head.len <= MAX_MSG_LEN
          /\ head.opcode = f.opcode /\ head.masked = f.masked
      BY <2>3, <2>13 DEF FrameInv, FrameTypes, Opt, At
    <3>2. CASE head.at = "length" /\ LengthKnown(head, len16(Head(rx).bytes))
      <4>1. Ext(f) = 1 /\ j = 1
        BY <2>3, <2>13, <3>2 DEF At
      <4>2. Head(rx) = Bytes(<<f.len \div 256, f.len % 256>>)
        BY <2>3, <2>4, <4>1
      <4>3. len16(Head(rx).bytes) = f.len
        BY <2>3, <4>1, <4>2, HeaderBytes
      <4> QED BY <2>11, <3>1, <3>2, <4>1, <4>3
    <3>3. CASE head.at = "mask" /\ ReadMask
      <4>1. head.len = f.len /\ f.masked /\ j = 1 + Ext(f) /\ Consumed
        BY <2>3, <2>13, <3>3 DEF At, ReadMask
      <4>2. CASE f.len > 0
        <5>1. Awaiting(head, "payload")
          BY <3>3, <4>1, <4>2 DEF ReadMask
        <5>2. head'.at = "payload"
          BY <3>1, <5>1 DEF Awaiting, Header
        <5>3. j = Ext(f) + Mask(f)
          BY <2>5, <2>6, <3>1, <4>1
        <5> QED BY <2>9, <3>1, <4>1, <4>2, <5>1, <5>2, <5>3
      <4>3. CASE f.len = 0
        <5>1. FrameDone(f.opcode, f.len, f.payload)
          BY <2>5, <3>1, <3>3, <4>1, <4>3 DEF ReadMask
        <5>2. j + 1 = Len(Pieces(f))
          BY <2>4, <2>5, <2>6, <3>1, <4>1, <4>3
        <5> QED BY <2>10, <3>1, <4>1, <5>1, <5>2
      <4> QED BY <2>5, <4>2, <4>3
    <3>4. CASE head.at = "payload" /\ ReadPayload
      <4>1. head.len = f.len /\ f.len > 0 /\ j = 1 + Ext(f) + Mask(f) /\ Consumed
        BY <2>3, <2>13, <3>4 DEF At, ReadPayload
      <4>2. Load(f) = 1 /\ j + 1 = 2 + Ext(f) + Mask(f) /\ j + 1 = Len(Pieces(f))
        BY <2>4, <2>5, <2>6, <3>1, <4>1
      <4>3. Head(rx).data = f.payload
        BY <2>3, <2>4, <4>2 DEF Payload
      <4>4. FrameDone(f.opcode, f.len, f.payload)
        BY <3>1, <3>4, <4>1, <4>3 DEF ReadPayload
      <4> QED BY <2>10, <3>1, <4>1, <4>2, <4>4
    <3> QED BY <2>13, <3>2, <3>3, <3>4, Zenon DEF ReadPiece
  <2> QED BY <2>12, <2>13, Zenon DEF ReadPiece

--------------------------------------------------------------------------------
(* The other steps *)

\* The client's steps other than a new frame.
LEMMA ClientFrame ==
    ASSUME FrameInv, RequestUpgrade \/ SendPiece \/ ClientLeave
    PROVE  FrameInv'
<1>1. /\ UNCHANGED <<routerVars, pc, head, out, frames, received>>
      /\ client' # "none" /\ client' \in {"none", "open", "finished", "reset", "vanished"}
      /\ client # "none"
      /\ \/ tx' = tx /\ client # "reset"
         \/ tx' = <<>> /\ client' = "reset"
  BY DEF RequestUpgrade, SendPiece, ClientLeave
<1>2. /\ rx' \in Seq(Piece) /\ unsent' \in Seq(Piece) /\ Len(rx') <= RX_SIZE
      /\ rx' \o unsent' = rx \o unsent
      /\ rx = <<>> /\ unsent = <<>> => rx' = <<>> /\ unsent' = <<>>
  <2>1. rx \in Seq(Piece) /\ unsent \in Seq(Piece) /\ Len(rx) <= RX_SIZE
    BY DEF FrameInv, FrameTypes
  <2>2. CASE SendPiece
    <3>1. /\ unsent # <<>> /\ Len(rx) < RX_SIZE
          /\ rx' = Append(rx, Head(unsent)) /\ unsent' = Tail(unsent)
      BY <2>2 DEF SendPiece
    <3>2. /\ Append(rx, Head(unsent)) \in Seq(Piece) /\ Tail(unsent) \in Seq(Piece)
          /\ Append(rx, Head(unsent)) \o Tail(unsent) = rx \o unsent
      BY <2>1, <3>1, LeftMove
    <3>3. Len(Append(rx, Head(unsent))) <= RX_SIZE
      <4>1. RX_SIZE \in Nat /\ Len(rx) \in Nat /\ Len(Append(rx, Head(unsent))) = Len(rx) + 1
        BY <2>1, WsAssumption
      <4> QED BY <3>1, <4>1
    <3> QED BY <3>1, <3>2, <3>3
  <2>3. CASE UNCHANGED <<rx, unsent>>
    BY <2>1, <2>3
  <2> QED BY <2>2, <2>3 DEF RequestUpgrade, ClientLeave
<1>3. RouterInv' /\ dev' = dev
  BY <1>1, RouterUnchanged DEF FrameInv, FrameTypes, routerVars
<1>4. tx' \in Seq(Written) /\ Len(tx') <= TX_SIZE /\ (tx = <<>> => tx' = <<>>)
  <2>1. TX_SIZE \in Nat /\ <<>> \in Seq(Written) /\ Len(<<>>) = 0
    BY WsAssumption
  <2>2. tx \in Seq(Written) /\ Len(tx) <= TX_SIZE
    BY DEF FrameInv, FrameTypes
  <2>3. CASE tx' = tx
    BY <2>2, <2>3, Zenon
  <2>4. CASE tx' = <<>>
    <3>1. 0 <= TX_SIZE
      BY <2>1
    <3> QED BY <2>1, <2>4, <3>1, Zenon
  <2> QED BY <1>1, <2>3, <2>4
<1>5. FrameTypes'
  BY <1>1, <1>2, <1>3, <1>4 DEF FrameInv, FrameTypes
<1>6. ClientInv'
  BY <1>1 DEF FrameInv, ClientInv
<1>7. client' = "reset" \/ (client # "reset" /\ Answers' = Answers)
  BY <1>1, AnswersKept
<1>8. pc' \in Upgrades => Served'
  BY <1>1, <1>2, <1>3, <1>7, ServedKept DEF FrameInv
<1>9. Position(0, 0) => Position(0, 0)'
  BY <1>1, <1>2, PositionKept
<1> QED BY <1>1, <1>2, <1>3, <1>4, <1>5, <1>6, <1>8, <1>9 DEF FrameInv

\* Another frame is added to the stream's end.
LEMMA PositionMore ==
    ASSUME FrameTypes, NEW k, NEW j, Position(k, j), NEW f \in Frames,
           unsent = <<>>, unsent' = Pieces(f), frames' = Append(frames, f), UNCHANGED <<rx, head>>
    PROVE  Position(k, j)' /\ First(k)' = First(k)
<1>1. /\ frames \in Seq(Frames) /\ rx \in Seq(Piece) /\ k \in 0..Len(frames) /\ j \in Nat
      /\ Left(Stream[frames], rx \o unsent, Base(k) + j)
      /\ Pieces(f) \in Seq(Piece)
  BY PiecesOfFrame DEF FrameTypes, Position
<1>2. First(k)' = First(k)
  BY <1>1 DEF First
<1>3. Base(k)' = Base(k)
  BY <1>2 DEF Base
<1>4. Stream[frames'] = Stream[frames] \o Pieces(f) /\ Stream[frames] \in Seq(Piece)
  BY <1>1, StreamSteps
<1>5. rx \o <<>> = rx
  BY <1>1
<1>6. Left(Stream[frames] \o Pieces(f), rx \o Pieces(f), Base(k) + j)
  <2>1. Left(Stream[frames], rx, Base(k) + j)
    BY <1>1, <1>5
  <2> QED BY <1>1, <1>4, <2>1, LeftMore, Zenon
<1>7. Left(Stream[frames], rx \o unsent, Base(k) + j)'
  BY <1>3, <1>4, <1>6, Zenon
<1>8. Len(frames') = Len(frames) + 1 /\ Len(frames) \in Nat /\ \A i \in 1..Len(frames) : frames'[i] = frames[i]
  BY <1>1
<1>9. j < Len(Pieces(frames'[k + 1])) /\ At(head', frames'[k + 1], j)
  <2>1. CASE k < Len(frames)
    <3>1. frames'[k + 1] = frames[k + 1]
      BY <1>1, <1>8, <2>1
    <3> QED BY <2>1, <3>1 DEF Position
  <2>2. CASE k = Len(frames)
    <3>1. j = 0 /\ head = NONE
      BY <2>2 DEF Position
    <3>2. frames'[k + 1] = f
      BY <1>1, <2>2
    <3>3. 0 < Len(Pieces(f))
      <4>1. /\ Len(Pieces(f)) = 1 + Ext(f) + Mask(f) + Load(f)
            /\ Ext(f) \in {0, 1} /\ Mask(f) \in {0, 1} /\ Load(f) \in {0, 1}
        BY PiecesOfFrame, FrameFields
      <4> QED BY <4>1
    <3> QED BY <3>1, <3>2, <3>3 DEF At
  <2> QED BY <1>1, <1>8, <2>1, <2>2
<1>10. k \in 0..Len(frames') /\ k < Len(frames')
  BY <1>1, <1>8
<1> QED BY <1>1, <1>2, <1>7, <1>9, <1>10 DEF Position

\* A client begins another frame.
LEMMA StartedFrame ==
    ASSUME FrameInv, NEW f \in Frames, StartFrame(f)
    PROVE  FrameInv'
<1>1. /\ UNCHANGED <<routerVars, pc, client, rx, tx, head, out, received>>
      /\ client = "open" /\ unsent = <<>> /\ unsent' = Pieces(f) /\ frames' = Append(frames, f)
  BY DEF StartFrame
<1>2. RouterInv' /\ dev' = dev
  BY <1>1, RouterUnchanged DEF FrameInv, FrameTypes, routerVars
<1>3. unsent' \in Seq(Piece) /\ frames' \in Seq(Frames)
  <2>1. frames \in Seq(Frames)
    BY DEF FrameInv, FrameTypes
  <2>2. Append(frames, f) \in Seq(Frames)
    BY <2>1
  <2>3. Pieces(f) \in Seq(Piece)
    BY PiecesOfFrame
  <2> QED BY <1>1, <2>2, <2>3, Zenon
<1>4. FrameTypes' /\ ClientInv'
  BY <1>1, <1>2, <1>3 DEF FrameInv, FrameTypes, ClientInv
<1>5. pc # "accept"
  BY <1>1 DEF FrameInv
<1>6. ASSUME NEW k, NEW j, Position(k, j), Effect(k) PROVE Position(k, j)' /\ Effect(k)'
  <2>1. Position(k, j)' /\ First(k)' = First(k)
    BY <1>1, <1>6, PositionMore DEF FrameInv
  <2> QED BY <1>1, <1>2, <1>6, <2>1, AnswersKept DEF Effect
<1>7. Served => Served'
  BY <1>6, Zenon DEF Served
<1>8. Position(0, 0) => Position(0, 0)'
  BY <1>1, PositionMore DEF FrameInv
<1> QED BY <1>1, <1>2, <1>4, <1>5, <1>7, <1>8 DEF FrameInv

\* What the client receives was answered before.
LEMMA DeliverFrame ==
    ASSUME FrameInv, Deliver
    PROVE  FrameInv'
<1>1. /\ UNCHANGED <<routerVars, pc, client, rx, unsent, head, out, frames>>
      /\ tx # <<>> /\ received' = Append(received, Head(tx)) /\ tx' = Tail(tx)
      /\ client # "reset"
  BY DEF Deliver
<1>2. tx \in Seq(Written) /\ received \in Seq(Written) /\ Len(tx) <= TX_SIZE
  BY DEF FrameInv, FrameTypes
<1>3. /\ received' \in Seq(Written) /\ tx' \in Seq(Written)
      /\ received' \o tx' = received \o tx
  BY <1>1, <1>2, LeftMove, Zenon
<1>4. Len(tx') <= TX_SIZE
  <2>1. TX_SIZE \in Nat /\ Len(tx) \in Nat /\ Len(Tail(tx)) = Len(tx) - 1
    BY <1>1, <1>2, WsAssumption
  <2> QED BY <1>1, <1>2, <2>1
<1>5. RouterInv' /\ dev' = dev
  BY <1>1, RouterUnchanged DEF FrameInv, FrameTypes, routerVars
<1>6. FrameTypes' /\ ClientInv'
  BY <1>1, <1>3, <1>4, <1>5 DEF FrameInv, FrameTypes, ClientInv
<1>7. Pending' = Pending
  BY <1>1 DEF Pending
<1>8. Answers' = Answers
  BY <1>3, <1>7, Zenon DEF Answers
<1>9. Served => Served'
  BY <1>1, <1>5, <1>8, ServedKept
<1> QED BY <1>1, <1>6, <1>9 DEF FrameInv

\* A new client.
LEMMA AcceptFrame ==
    ASSUME FrameInv, Accept
    PROVE  FrameInv'
<1>1. /\ pc = "accept" /\ pc' = "handshake" /\ client' = "open" /\ frames' = <<>> /\ received' = <<>>
      /\ NewSession /\ UNCHANGED <<rx, tx, unsent, head, out>>
  BY DEF Accept
<1>2. rx = <<>> /\ tx = <<>> /\ unsent = <<>> /\ head = NONE
  BY <1>1 DEF FrameInv
<1>3. RouterInv' /\ dev' = DefaultState
  BY <1>1, NewSessionStep DEF FrameInv, FrameTypes, NewSession
<1>4. <<>> \in Seq(Frames) /\ <<>> \in Seq(Written)
  OBVIOUS
<1>5. FrameTypes' /\ ClientInv'
  BY <1>1, <1>2, <1>3, <1>4 DEF FrameInv, FrameTypes, ClientInv, Writes
<1>6. Position(0, 0)'
  <2>1. SubSeq(<<>>, 1, 0) = <<>> /\ Stream[<<>>] = <<>> /\ Len(<<>>) = 0 /\ <<>> \o <<>> = <<>>
    BY StreamSteps
  <2>2. Base(0)' = 0
    BY <1>1, <2>1 DEF Base, First
  <2>3. Left(<<>>, <<>>, 0 + 0)
    BY <2>1 DEF Left
  <2>4. Left(Stream[frames], rx \o unsent, Base(0) + 0)'
    BY <1>1, <1>2, <2>1, <2>2, <2>3, Zenon
  <2>5. 0 \in 0..Len(frames') /\ ~(0 < Len(frames')) /\ 0 \in Nat
    BY <1>1
  <2> QED BY <1>1, <1>2, <2>4, <2>5 DEF Position
<1> QED BY <1>1, <1>2, <1>3, <1>5, <1>6 DEF FrameInv, Upgrades

\* The upgrade: the 101 response is what the reference begins with.
LEMMA HandshakeFrame ==
    ASSUME FrameInv, Handshake
    PROVE  FrameInv'
<1>1. CASE Abort
  BY <1>1, AbortFrame DEF Handshake
<1>2. CASE ~Abort
  <2>1. /\ pc = "handshake" /\ pc' = "write_101" /\ out' = Upgraded
        /\ UNCHANGED <<routerVars, client, rx, tx, unsent, head, frames, received>>
    BY <1>2 DEF Handshake
  <2>2. RouterInv' /\ dev' = dev
    BY <2>1, RouterUnchanged DEF FrameInv, FrameTypes, routerVars
  <2>3. Position(0, 0) /\ tx = <<>> /\ received = <<>> /\ dev = DefaultState
    BY <2>1 DEF FrameInv
  <2>4. Position(0, 0)'
    BY <2>1, <2>3, PositionKept
  <2>5. First(0)' = <<>>
    BY <2>1 DEF FrameInv, FrameTypes, First
  <2>6. Reference[<<>>].dev = DefaultState /\ Reference[<<>>].out = <<Upgraded>>
    BY ReferenceSteps DEF NoFrames
  <2>7. Answers' = <<Upgraded>>
    <3>1. Pending' = <<Upgraded>>
      BY <2>1 DEF Pending
    <3>2. <<>> \o <<>> \o <<Upgraded>> = <<Upgraded>>
      OBVIOUS
    <3> QED BY <2>1, <2>3, <3>1, <3>2 DEF Answers
  <2>8. Effect(0)'
    BY <2>2, <2>3, <2>5, <2>6, <2>7 DEF Effect
  <2>9. Served'
    BY <2>4, <2>8, Zenon DEF Served
  <2>10. out' # NONE /\ out' \in Opt(Written)
    BY <2>1, WrittenTypes, WsAssumption, Zenon DEF Opt
  <2>11. FrameTypes' /\ ClientInv'
    <3>1. head = NONE
      BY <2>1 DEF FrameInv, FrameTypes
    <3> QED BY <2>1, <2>2, <2>10, <3>1 DEF FrameInv, FrameTypes, ClientInv, Upgrades, Writes
  <2> QED BY <2>1, <2>9, <2>11 DEF FrameInv
<1> QED BY <1>1, <1>2

\* What is written was at hand.
LEMMA WriteFrame ==
    ASSUME FrameInv, Write \/ WritePong
    PROVE  FrameInv'
<1>1. PICK what, state, next :
         /\ Wrote(what, state, next) /\ client # "reset" /\ Len(tx) < TX_SIZE
         /\ \/ /\ pc \in {"write_101", "write_text", "write_pong"}
               /\ what = out /\ state \in {"read", "reboot"} /\ next = NONE
            \/ /\ pc = "write_header" /\ what = TextHeader
               /\ state = "write_text" /\ next = out
  BY DEF Write, WritePong, HasRoom, NextPc
<1>2. /\ tx' = Append(tx, what) /\ pc' = state /\ out' = next
      /\ UNCHANGED <<routerVars, client, rx, unsent, head, frames, received>>
  BY <1>1 DEF Wrote
<1>3. RouterInv' /\ dev' = dev
  BY <1>2, RouterUnchanged DEF FrameInv, FrameTypes, routerVars
<1>4. /\ out \in Written /\ tx \in Seq(Written) /\ received \in Seq(Written) /\ head = NONE
      /\ Len(tx) <= TX_SIZE /\ out # NONE
  BY <1>1 DEF FrameInv, FrameTypes, Opt, Writes
<1>5. what \in Written
  BY <1>1, <1>4, WrittenTypes
<1>6. tx' \in Seq(Written) /\ Len(tx') <= TX_SIZE
  <2>1. TX_SIZE \in Nat
    BY WsAssumption
  <2>2. Append(tx, what) \in Seq(Written) /\ Len(Append(tx, what)) = Len(tx) + 1 /\ Len(tx) \in Nat
    BY <1>4, <1>5
  <2> QED BY <1>1, <1>2, <2>1, <2>2
<1>7. FrameTypes' /\ ClientInv'
  BY <1>1, <1>2, <1>3, <1>4, <1>6 DEF FrameInv, FrameTypes, ClientInv, Upgrades, Writes, Opt
<1>8. Answers' = Answers
  <2>1. ASSUME NEW a \in Seq(Written), NEW b \in Seq(Written), NEW x \in Written, NEW y \in Written
        PROVE  /\ a \o Append(b, x) \o <<>> = a \o b \o <<x>>
               /\ a \o Append(b, x) \o <<y>> = a \o b \o <<x, y>>
    <3>1. /\ a \o b \in Seq(Written) /\ Append(b, x) \in Seq(Written)
          /\ a \o Append(b, x) = Append(a \o b, x)
      OBVIOUS
    <3>2. ASSUME NEW c \in Seq(Written)
          PROVE  Append(c, x) \o <<>> = c \o <<x>> /\ Append(c, x) \o <<y>> = c \o <<x, y>>
      <4>1. Append(c, x) = c \o <<x>> /\ Append(c, x) \in Seq(Written)
        OBVIOUS
      <4>2. Append(c, x) \o <<>> = Append(c, x)
        BY <4>1, ConcatEmptySeq
      <4>3. Append(c, x) \o <<y>> = Append(Append(c, x), y)
        BY <4>1
      <4>4. c \o <<x, y>> = Append(Append(c, x), y)
        OBVIOUS
      <4> QED BY <4>1, <4>2, <4>3, <4>4, Zenon
    <3> QED BY <3>1, <3>2, Zenon
  <2>2. CASE pc = "write_header"
    <3>1. Pending = <<TextHeader, out>> /\ Pending' = <<out>> /\ tx' = Append(tx, TextHeader)
      BY <1>1, <1>2, <2>2 DEF Pending
    <3>2. TextHeader \in Written
      BY WrittenTypes
    <3>3. received \o Append(tx, TextHeader) \o <<out>> = received \o tx \o <<TextHeader, out>>
      BY <1>4, <2>1, <3>2, Zenon
    <3> QED BY <1>2, <3>1, <3>3, Zenon DEF Answers
  <2>3. CASE pc \in {"write_101", "write_text", "write_pong"}
    <3>1. Pending = <<out>> /\ Pending' = <<>> /\ tx' = Append(tx, out)
      BY <1>1, <1>2, <2>3 DEF Pending
    <3>2. received \o Append(tx, out) \o <<>> = received \o tx \o <<out>>
      BY <1>4, <2>1, Zenon
    <3> QED BY <1>2, <3>1, <3>2, Zenon DEF Answers
  <2> QED BY <1>1, <2>2, <2>3
<1>9. Served'
  <2>1. Served
    BY <1>1 DEF FrameInv, Upgrades
  <2> QED BY <1>1, <1>2, <1>3, <1>8, <2>1, ServedKept
<1> QED BY <1>1, <1>2, <1>7, <1>9 DEF FrameInv

\* A write that fails.
LEMMA WriteErrorFrame ==
    ASSUME FrameInv, WriteError
    PROVE  FrameInv'
<1>1. CASE Abort
  BY <1>1, AbortFrame DEF WriteError
<1>2. CASE ~Abort
  <2>1. /\ client = "reset" /\ pc = "write_pong" /\ pc' = "read" /\ out' = NONE
        /\ UNCHANGED <<routerVars, client, rx, tx, unsent, head, frames, received>>
    BY <1>2 DEF WriteError
  <2>2. RouterInv' /\ dev' = dev
    BY <2>1, RouterUnchanged DEF FrameInv, FrameTypes, routerVars
  <2>3. FrameTypes' /\ ClientInv'
    BY <2>1, <2>2 DEF FrameInv, FrameTypes, ClientInv, Upgrades, Writes, Opt
  <2>4. Served'
    BY <2>1, <2>2, ServedKept DEF FrameInv, Upgrades
  <2> QED BY <2>1, <2>3, <2>4 DEF FrameInv
<1> QED BY <1>1, <1>2

\* The reboot.
LEMMA RebootFrame ==
    ASSUME FrameInv, Reboot
    PROVE  FrameInv'
<1>1. /\ pc = "reboot" /\ pc' = "off" /\ client' = "none" /\ rx' = <<>> /\ tx' = <<>> /\ unsent' = <<>>
      /\ UNCHANGED <<routerVars, head, out, frames, received>>
  BY DEF Reboot
<1>2. RouterInv'
  BY <1>1, RouterUnchanged DEF FrameInv, FrameTypes
<1>3. head = NONE /\ out = NONE
  BY <1>1 DEF FrameInv, FrameTypes, Writes
<1>4. /\ <<>> \in Seq(Piece) /\ <<>> \in Seq(Written) /\ Len(<<>>) = 0
      /\ RX_SIZE \in Nat /\ TX_SIZE \in Nat
  BY WsAssumption
<1>5. FrameTypes' /\ ClientInv'
  BY <1>1, <1>2, <1>3, <1>4 DEF FrameInv, FrameTypes, ClientInv, Writes
<1> QED BY <1>1, <1>5 DEF FrameInv, Upgrades

\* FrameInv holds at the start, and every step keeps it.
LEMMA FrameInvariance == WsSpec => []FrameInv
<1>1. WsInit => FrameInv
  <2> SUFFICES ASSUME WsInit PROVE FrameInv
    OBVIOUS
  <2>1. RouterInv
    BY DefaultGood, NoReplyTyped DEF WsInit, RouterInit, RouterInv, RouterTypeOK, GoodState, Opt
  <2>2. /\ <<>> \in Seq(Piece) /\ <<>> \in Seq(Written) /\ <<>> \in Seq(Frames) /\ Len(<<>>) = 0
        /\ RX_SIZE \in Nat /\ TX_SIZE \in Nat
    BY WsAssumption
  <2> QED BY <2>1, <2>2 DEF WsInit, FrameInv, FrameTypes, ClientInv, Upgrades, Writes, Opt
<1>2. FrameInv /\ [WsNext]_vars => FrameInv'
  <2> SUFFICES ASSUME FrameInv, [WsNext]_vars PROVE FrameInv'
    OBVIOUS
  <2>1. CASE Accept
    BY <2>1, AcceptFrame
  <2>2. CASE ServerStep
    <3>1. CASE EndOfStream \/ IdleTimeout \/ WriteClose
      BY <3>1, AbortFrame DEF EndOfStream, IdleTimeout, WriteClose
    <3> QED BY <2>2, <3>1, HandshakeFrame, ReadFrame, WriteFrame, WriteErrorFrame, RebootFrame
            DEF ServerStep
  <2>3. CASE ClientStep
    BY <2>3, ClientFrame, StartedFrame DEF ClientStep
  <2>4. CASE Deliver
    BY <2>4, DeliverFrame
  <2>5. CASE UNCHANGED vars
    <3>1. UNCHANGED <<routerVars, pc, client, rx, tx, unsent, head, out, frames, received>>
      BY <2>5 DEF vars, sessionVars
    <3>2. RouterInv' /\ dev' = dev
      BY <3>1, RouterUnchanged DEF FrameInv, FrameTypes, routerVars
    <3>3. Served => Served'
      BY <3>1, <3>2, ServedKept, AnswersKept
    <3>4. Position(0, 0) => Position(0, 0)'
      BY <3>1, PositionKept
    <3> QED BY <3>1, <3>2, <3>3, <3>4 DEF FrameInv, FrameTypes, ClientInv
  <2> QED BY <2>1, <2>2, <2>3, <2>4, <2>5 DEF WsNext
<1> QED BY <1>1, <1>2, PTL DEF WsSpec

\* Types and sizes; only the reader is ever inside a frame, and what it has read of
\* a header fits, for every set of frames and every limit.
THEOREM WsTypeCorrect == WsSpec => []WsTypeOK
<1>1. FrameInv => WsTypeOK
  <2> SUFFICES ASSUME FrameInv PROVE WsTypeOK
    OBVIOUS
  <2>1. head # NONE => head.opcode \in Opcodes /\ head.len \in 0..MAX_MSG_LEN
    <3>1. MAX_MSG_LEN \in Nat
      BY FrameAssumption
    <3>2. head # NONE => head.opcode \in Opcodes /\ head.len \in Nat /\ head.len <= MAX_MSG_LEN
      BY DEF FrameInv, FrameTypes, Opt, Header
    <3> QED BY <3>1, <3>2
  <2> QED BY <2>1 DEF FrameInv, FrameTypes, WsTypeOK, ClientInv, RouterInv
<1> QED BY <1>1, FrameInvariance, PTL

\* What the server has answered and the state it is in are the reference's for the
\* frames it has taken, for every set of frames, buffers of every size, and however
\* pieces, reads, writes and timeouts interleave.  The frames that are cut from what
\* an aborted socket still holds behind a refused one are among them: they change the
\* state as any others do.
THEOREM FramesServedInOrder == WsSpec => []FramesInOrder
<1>1. FrameInv => FramesInOrder
  <2> SUFFICES ASSUME FrameInv, pc \in Upgrades
               PROVE  /\ dev = Reference[Taken].dev
                      /\ client # "reset" => Answers = Reference[Taken].out
    BY DEF FramesInOrder
  <2>1. PICK k, j : Position(k, j) /\ Effect(k)
    BY DEF FrameInv, Served
  <2>2. /\ k \in 0..Len(frames) /\ j \in Nat /\ frames \in Seq(Frames)
        /\ rx \in Seq(Piece) /\ unsent \in Seq(Piece)
        /\ k < Len(frames) => j < Len(Pieces(frames[k + 1]))
        /\ Left(Stream[frames], rx \o unsent, Base(k) + j)
    BY <2>1 DEF FrameInv, FrameTypes, Position
  <2>3. PiecesRead = Base(k) + j
    <3>1. Len(rx \o unsent) = Len(rx) + Len(unsent) /\ Len(rx) \in Nat /\ Len(unsent) \in Nat
      BY <2>2
    <3>2. Len(Stream[frames]) = (Base(k) + j) + Len(rx \o unsent) /\ Base(k) + j \in Nat
      BY <2>2 DEF Left
    <3> QED BY <3>1, <3>2 DEF PiecesRead
  <2>4. {n \in 1..Len(frames) : Finished(n)} =
        {n \in 1..Len(frames) : Len(Stream[SubSeq(frames, 1, n)]) <= Len(Stream[SubSeq(frames, 1, k)]) + j}
    BY <2>3 DEF Finished, Base, First
  <2>5. Cardinality({n \in 1..Len(frames) : Finished(n)}) = k
    <3>1. Cardinality({n \in 1..Len(frames) :
               Len(Stream[SubSeq(frames, 1, n)]) <= Len(Stream[SubSeq(frames, 1, k)]) + j}) = k
      <4>1. /\ k \in 0..Len(frames) /\ j \in Nat /\ frames \in Seq(Frames)
            /\ k < Len(frames) => j < Len(Pieces(frames[k + 1]))
        BY <2>2
      <4> QED BY <4>1, FramesBefore
    <3> QED BY <2>4, <3>1, Zenon
  <2>6. Taken = First(k)
    BY <2>5 DEF Taken, First
  <2> QED BY <2>1, <2>6 DEF Effect
<1> QED BY <1>1, FrameInvariance, PTL
================================================================================
