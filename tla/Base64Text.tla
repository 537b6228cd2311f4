------------------------------- MODULE Base64Text -------------------------------
(***************************************************************************)
(* base64.rs character by character: the tables, encode, and decode into a *)
(* buffer of a given size.  Router knows of a text only the shape that      *)
(* decides between ok, an error and a panic; here the shape is checked      *)
(* against the text.                                                        *)
(***************************************************************************)
EXTENDS Router, SequencesExt

PAD == 61
INVALID == 255

\* ASCII: A-Z, a-z, 0-9, + and /.
ENCODE_TABLE ==
    [v \in 0..63 |->
        CASE v < 26 -> 65 + v
          [] v \in 26..51 -> 97 + v - 26
          [] v \in 52..61 -> 48 + v - 52
          [] v = 62 -> 43
          [] v = 63 -> 47]

DECODE_TABLE ==
    [c \in 0..255 |->
        CASE c \in 65..90 -> c - 65
          [] c \in 97..122 -> c - 97 + 26
          [] c \in 48..57 -> c - 48 + 52
          [] c = 43 -> 62
          [] c = 47 -> 63
          [] OTHER -> INVALID]

Groups(seq, n) ==
    [g \in 1..(Len(seq) + n - 1) \div n |->
        SubSeq(seq, n * (g - 1) + 1, IF n * g <= Len(seq) THEN n * g ELSE Len(seq))]

--------------------------------------------------------------------------------
(* encode *)

\* triple >> 18, >> 12, >> 6 and as it is.
SixBitsFrom == <<262144, 4096, 64, 1>>

\* One, two or three bytes, as four characters.
EncodeGroup(bytes) ==
    LET byte(i) == IF i <= Len(bytes) THEN bytes[i] ELSE 0
        triple == 65536 * byte(1) + 256 * byte(2) + byte(3)
    IN  [i \in 1..4 |->
            IF i <= Len(bytes) + 1 THEN ENCODE_TABLE[(triple \div SixBitsFrom[i]) % 64] ELSE PAD]

base64_encode(input) ==
    LET groups == Groups(input, 3)
    IN  [k \in 1..4 * Len(groups) |-> EncodeGroup(groups[(k + 3) \div 4])[((k - 1) % 4) + 1]]

--------------------------------------------------------------------------------
(* decode *)

StripPadding(text) ==
    LET n == Len(text)
    IN  IF n >= 2 /\ text[n] = PAD /\ text[n - 1] = PAD THEN SubSeq(text, 1, n - 2)
        ELSE IF n >= 1 /\ text[n] = PAD THEN SubSeq(text, 1, n - 1)
        ELSE text

\* Up to four characters make one byte less; u8 shifts drop what leaves the byte.
DecodeGroup(group) ==
    LET v == [i \in DOMAIN group |-> DECODE_TABLE[group[i]]]
    IN  [i \in 1..Len(group) - 1 |->
            ((v[i] * <<4, 16, 64>>[i]) % 256) + (v[i + 1] \div <<16, 4, 1>>[i])]

\* A slip for the checks of the properties: a single character left over is ignored.
BadCharacter(group) == \E i \in DOMAIN group : DECODE_TABLE[group[i]] = INVALID

Malformed(group) == Len(group) = 1 \/ \E i \in DOMAIN group : DECODE_TABLE[group[i]] = INVALID

\* Group after group is validated and then stored; the first that cannot be ends it.
\* The buffer is indexed unchecked: a byte past its size panics.
base64_decode_text(text, size) ==
    LET groups == Groups(StripPadding(text), 4)
        past(g) == 3 * (g - 1) + Len(groups[g]) - 1 > size
        refused == {g \in DOMAIN groups : Malformed(groups[g]) \/ past(g)}
        bytes == Len(StripPadding(text)) - Len(groups)
    IN  IF refused = {}
        THEN [error |-> NONE,
              out |-> [k \in 1..bytes |-> DecodeGroup(groups[(k + 2) \div 3])[((k - 1) % 3) + 1]]]
        ELSE [error |-> IF Malformed(groups[Min(refused)]) THEN "invalid_encoding" ELSE "panic",
              out |-> <<>>]

--------------------------------------------------------------------------------
(* Properties *)

\* A text of the shape that Router knows of it: letters, one character that is
\* none, and padding.
TextOf(shape) ==
    [i \in 1..shape.chars |-> IF i = shape.bad THEN 33 ELSE 65 + (i % 26)]
        \o [i \in 1..shape.pad |-> PAD]

\* Up to four bytes at the ends of what bits can be, every single byte, and as many
\* bytes as a message may carry.
Samples ==
    (UNION {[1..n -> {0, 3, 63, 64, 192, 255}] : n \in 0..4})
        \cup [1..1 -> 0..255]
        \cup {[i \in 1..MAX_PAYLOAD_LEN |-> (7 * i) % 256]}

RoundTrips ==
    \A bytes \in Samples : Len(bytes) <= MAX_PAYLOAD_LEN =>
        LET text == base64_encode(bytes)
            unpadded == SubSeq(text, 1, (4 * Len(bytes) + 2) \div 3)
        IN  /\ Len(text) <= (MAX_PAYLOAD_LEN \div 3 + 1) * 4
            /\ \A form \in {text, unpadded} :
                  base64_decode_text(form, Len(bytes)) = [error |-> NONE, out |-> bytes]

\* A write whose bytes are given.
WritesBytes(cmd) == cmd # NONE /\ cmd.action = "write" /\ cmd.bytes # NONE

\* Bytes come back from their text, with its padding and without ("Accepts input
\* with or without padding"), and the text of the longest payload fits MAX_B64_LEN.
\* A write is answered ok only if its text decodes, and a bad text or a panic is
\* that of its text, whatever the peripherals' states and the sizes around 512 bytes.
PayloadsSurvive ==
    /\ RoundTrips
    /\ WritesBytes(request) =>
          LET decoded == base64_decode_text(TextOf(request.bytes), MAX_PAYLOAD_LEN)
          IN  /\ reply.ok => decoded.error = NONE
              /\ reply.error \in {"invalid_encoding", "panic"} => decoded.error = reply.error
================================================================================
