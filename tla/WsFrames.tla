--------------------------------- MODULE WsFrames ---------------------------------
(***************************************************************************)
(* WebSocket frame headers: src/src/ws.rs, and the way                     *)
(* WsTransport::read_frame (src/src/net.rs) reads one piece by piece.       *)
(* Masking keys are left out: a payload stands for its unmasked bytes.      *)
(***************************************************************************)
EXTENDS Integers, Sequences

CONSTANTS
    NO_HEADER,      \* no header could be made or parsed
    MAX_MSG_LEN

ASSUME FrameAssumption ==
    /\ MAX_MSG_LEN \in Nat /\ 125 <= MAX_MSG_LEN /\ MAX_MSG_LEN <= 65535
    /\ NO_HEADER \notin [opcode : Int, masked : BOOLEAN, payload_len : Int, header_len : Int]
    /\ NO_HEADER \notin Seq(Int)

OPCODE_TEXT == 1
OPCODE_CLOSE == 8
OPCODE_PING == 9
OPCODE_PONG == 10

\* A slip for the checks of the properties: 126 fits the short form's seven bits.
EncodeShort(n) ==
    IF n > MAX_MSG_LEN THEN NO_HEADER
    ELSE IF n <= 126 THEN <<129, n>>
    ELSE <<129, 126, n \div 256, n % 256>>

\* FIN, opcode 1 and the length.
encode_text_frame_header(n) ==
    IF n > MAX_MSG_LEN THEN NO_HEADER
    ELSE IF n <= 125 THEN <<129, n>>
    ELSE <<129, 126, n \div 256, n % 256>>

opcode_of(raw) == raw[1] % 16
is_masked(raw) == raw[2] >= 128
len7(raw) == raw[2] % 128
len16(ext) == ext[1] * 256 + ext[2]

parse_frame_header(raw) ==
    LET ext_len == IF len7(raw) = 126 THEN 2 ELSE 0
        header_len == 2 + ext_len + (IF is_masked(raw) THEN 4 ELSE 0)
    IN  IF Len(raw) < 2 THEN NO_HEADER
        ELSE IF len7(raw) = 127 \/ Len(raw) < 2 + ext_len \/ Len(raw) < header_len THEN NO_HEADER
        ELSE [opcode |-> opcode_of(raw), masked |-> is_masked(raw),
              payload_len |-> IF ext_len = 0 THEN len7(raw) ELSE len16(SubSeq(raw, 3, 4)),
              header_len |-> header_len]
================================================================================
