------------------------------ MODULE FrameReader ------------------------------
(***************************************************************************)
(* The newline framing of the TCP transport: `FrameReader`                 *)
(* (src/src/protocol.rs) as `TcpTransport::read_frame` (src/src/net.rs)     *)
(* drives it, one byte per step.                                           *)
(*                                                                         *)
(* buf, pos and overflowed are the reader's fields.  result is what the    *)
(* last call of push returned to read_frame.  line is a history variable:  *)
(* every byte received since the last newline of this connection, the ones *)
(* the reader dropped included; nothing in the code depends on it.         *)
(***************************************************************************)
EXTENDS Integers, Sequences

CONSTANTS
    Byte,           \* the bytes of the wire
    NL,             \* the newline byte
    ZERO,           \* the byte a new buffer is filled with
    MAX_MSG_LEN     \* longest message, its newline included

ASSUME ReaderAssumption ==
    /\ NL \in Byte
    /\ ZERO \in Byte
    /\ MAX_MSG_LEN \in Nat \ {0}

VARIABLES buf, pos, overflowed, result, line

readerVars == <<buf, pos, overflowed, result, line>>

Data == Byte \ {NL}

\* The bytes of a frame: the buffer up to its first n bytes.
Taken(b, n) == [i \in 1..n |-> b[i - 1]]

\* What push returns: Ok(None), Err(ERROR_MSG_TOO_LARGE), Ok(Some(frame)).
Pending == [kind |-> "pending"]
TooLarge == [kind |-> "msg_too_large"]
Frame(bytes) == [kind |-> "frame", bytes |-> bytes]

--------------------------------------------------------------------------------
\* FrameReader::new, called by TcpTransport::new for every connection.
NewReader ==
    /\ buf' = [i \in 0..MAX_MSG_LEN - 1 |-> ZERO]
    /\ pos' = 0
    /\ overflowed' = FALSE
    /\ result' = Pending
    /\ line' = <<>>

\* Slips in push for the checks of the properties: the overflow flag survives
\* the newline that reports it; a newline delivers whatever the buffer holds; and
\* the limit forgets that MAX_MSG_LEN counts the newline.
StickyOverflow ==
    /\ pos' = 0
    /\ result' = IF overflowed THEN TooLarge ELSE Frame(Taken(buf, pos))
    /\ line' = <<>>
    /\ UNCHANGED <<buf, overflowed>>

TruncatedFrame ==
    /\ pos' = 0
    /\ overflowed' = FALSE
    /\ result' = Frame(Taken(buf, pos))
    /\ line' = <<>>
    /\ UNCHANGED buf

StorePastEnd(b) ==
    /\ pos <= MAX_MSG_LEN - 1
    /\ buf' = [buf EXCEPT ![pos] = b]
    /\ pos' = pos + 1
    /\ result' = Pending
    /\ line' = Append(line, b)
    /\ UNCHANGED overflowed

\* push of a newline.  read_frame resets the reader again after an Err.
PushNewline ==
    /\ pos' = 0
    /\ overflowed' = FALSE
    /\ result' = IF overflowed THEN TooLarge ELSE Frame(Taken(buf, pos))
    /\ line' = <<>>
    /\ UNCHANGED buf

\* The reader is full: the byte is dropped and the frame is lost.
PushOverflow(b) ==
    /\ pos >= MAX_MSG_LEN - 1
    /\ overflowed' = TRUE
    /\ result' = Pending
    /\ line' = Append(line, b)
    /\ UNCHANGED <<buf, pos>>

PushStore(b) ==
    /\ pos < MAX_MSG_LEN - 1
    /\ buf' = [buf EXCEPT ![pos] = b]
    /\ pos' = pos + 1
    /\ result' = Pending
    /\ line' = Append(line, b)
    /\ UNCHANGED overflowed

\* One turn of read_frame's loop after the socket delivered byte b.
Push(b) ==
    \/ b = NL /\ PushNewline
    \/ b # NL /\ (PushOverflow(b) \/ PushStore(b))

Init ==
    /\ buf = [i \in 0..MAX_MSG_LEN - 1 |-> ZERO]
    /\ pos = 0
    /\ overflowed = FALSE
    /\ result = Pending
    /\ line = <<>>

\* A connection may end anywhere, in the middle of a line too; the next one
\* gets a new reader.
Next == (\E b \in Byte : Push(b)) \/ NewReader

Spec == Init /\ [][Next]_readerVars

--------------------------------------------------------------------------------
(* Properties *)

\* Every index push uses lies inside buf, whatever the client sends: pos never
\* reaches the buffer's end (protocol.rs indexes buf[self.pos] unchecked).
TypeOK ==
    /\ buf \in [0..MAX_MSG_LEN - 1 -> Byte]
    /\ pos \in 0..MAX_MSG_LEN - 1
    /\ overflowed \in BOOLEAN
    /\ line \in Seq(Data)
    /\ \/ result \in {Pending, TooLarge}
       \/ result.kind = "frame" /\ result.bytes \in Seq(Data)

\* The reader's fields are exactly the current line, cut at the buffer's size:
\* no byte of an earlier line, message or connection survives in the part of buf
\* that the next frame is taken from, and overflowed is set when and only when
\* a byte of this line was dropped.
ReaderTracksLine ==
    /\ overflowed <=> Len(line) > MAX_MSG_LEN - 1
    /\ pos = IF overflowed THEN MAX_MSG_LEN - 1 ELSE Len(line)
    /\ \A i \in 0..pos - 1 : buf[i] = line[i + 1]

\* The promise of the framing, stated without a buffer (module LineFraming).
Lines == INSTANCE LineFraming WITH LIMIT <- MAX_MSG_LEN - 1

\* The reader implements LineFraming: each newline yields the whole line since
\* the previous newline, or one msg_too_large when it exceeds the limit; never
\* a truncated frame, and never two outcomes for one line.
RefinesLineFraming == Lines!Spec
================================================================================
