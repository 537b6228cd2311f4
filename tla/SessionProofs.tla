------------------------------ MODULE SessionProofs ------------------------------
(***************************************************************************)
(* Proofs about FrameReader, over it TcpSession and over that Client-     *)
(* for every alphabet, every set of commands and every size of a buffer.     *)
(* SessionInv composes the invariants of the reader and of the router, and a *)
(* session is followed along a reference that reads its bytes one after the  *)
(* other; LibraryInv follows the one newline that a call has under way, and  *)
(* PairInv the commands of the calls.                                        *)
(***************************************************************************)
EXTENDS ClientLibrary, RouterProofs

--------------------------------------------------------------------------------
(* The reader *)

\* What push keeps: neither conjunct is inductive alone, as pos stays inside buf
\* only while overflowed tells the truth about the line.
ReaderInv == TypeOK /\ ReaderTracksLine

\* A reader that has not overflowed holds exactly the current line, so the
\* frame a newline takes out of the buffer is that line.
LEMMA TakenIsLine ==
    ASSUME ReaderInv, ~overflowed
    PROVE  Taken(buf, pos) = line
<1>1. line \in Seq(Data) /\ pos = Len(line)
  BY DEF ReaderInv, TypeOK, ReaderTracksLine
<1>2. \A i \in 1..pos : buf[i - 1] = line[i]
  <2> TAKE i \in 1..pos
  <2>1. i - 1 \in 0..pos - 1 /\ (i - 1) + 1 = i
    BY <1>1
  <2> QED BY <2>1 DEF ReaderInv, ReaderTracksLine
<1>3. line = [i \in 1..Len(line) |-> line[i]]
  BY <1>1
<1> QED BY <1>1, <1>2, <1>3 DEF Taken

\* Before the limit the buffer takes every byte of the line.
LEMMA StoreStep ==
    ASSUME ReaderInv, NEW b \in Data, PushStore(b)
    PROVE  ReaderInv'
<1> USE ReaderAssumption
<1>1. /\ ~overflowed
      /\ pos = Len(line)
      /\ line \in Seq(Data)
      /\ Len(line') = Len(line) + 1
      /\ line' \in Seq(Data)
  BY DEF ReaderInv, TypeOK, ReaderTracksLine, PushStore
<1>2. TypeOK'
  BY <1>1 DEF ReaderInv, TypeOK, PushStore, Data
<1>3. ~overflowed' /\ pos' = Len(line') /\ Len(line') <= MAX_MSG_LEN - 1
  BY <1>1 DEF PushStore, ReaderInv, TypeOK
<1>4. \A i \in 0..pos' - 1 : buf'[i] = line'[i + 1]
  <2> TAKE i \in 0..pos' - 1
  <2>1. CASE i = pos
    BY <1>1, <2>1 DEF PushStore, ReaderInv, TypeOK
  <2>2. CASE i \in 0..pos - 1
    <3>1. buf'[i] = buf[i]
      BY <2>2 DEF PushStore, ReaderInv, TypeOK
    <3>2. line'[i + 1] = line[i + 1]
      BY <1>1, <2>2 DEF PushStore
    <3> QED BY <2>2, <3>1, <3>2 DEF ReaderInv, ReaderTracksLine
  <2> QED BY <1>1, <2>1, <2>2 DEF PushStore, ReaderInv, TypeOK
<1> QED
  BY <1>2, <1>3, <1>4 DEF ReaderInv, ReaderTracksLine, TypeOK

\* Past the limit the line grows and the buffer does not.
LEMMA OverflowStep ==
    ASSUME ReaderInv, NEW b \in Data, PushOverflow(b)
    PROVE  ReaderInv'
<1> USE ReaderAssumption
<1>1. /\ pos = MAX_MSG_LEN - 1
      /\ Len(line) >= MAX_MSG_LEN - 1
      /\ line \in Seq(Data)
      /\ Len(line') = Len(line) + 1
      /\ line' \in Seq(Data)
      /\ pos' = pos /\ buf' = buf /\ overflowed' = TRUE
  BY DEF ReaderInv, TypeOK, ReaderTracksLine, PushOverflow
<1>2. TypeOK'
  BY <1>1 DEF ReaderInv, TypeOK, PushOverflow
<1>3. \A i \in 0..pos' - 1 : buf'[i] = line'[i + 1]
  <2> TAKE i \in 0..pos' - 1
  <2>1. i + 1 \in 1..Len(line) /\ i \in 0..pos - 1
    BY <1>1
  <2>2. line'[i + 1] = line[i + 1]
    BY <1>1, <2>1 DEF PushOverflow
  <2> QED BY <1>1, <2>1, <2>2 DEF ReaderInv, ReaderTracksLine
<1> QED
  BY <1>1, <1>2, <1>3 DEF ReaderInv, ReaderTracksLine

\* An empty line is tracked by pos = 0, whatever the buffer holds.
LEMMA EmptyLine == <<>> \in Seq(Data) /\ Len(<<>>) = 0 /\ ~(Len(<<>>) > MAX_MSG_LEN - 1)
  BY ReaderAssumption

\* A zeroed buffer with pos = 0 is well typed for every MAX_MSG_LEN > 0.
LEMMA FreshReader ==
    /\ [i \in 0..MAX_MSG_LEN - 1 |-> ZERO] \in [0..MAX_MSG_LEN - 1 -> Byte]
    /\ 0 \in 0..MAX_MSG_LEN - 1
    /\ FALSE \in BOOLEAN
  BY ReaderAssumption

\* A newline starts an empty line with an empty reader.
LEMMA NewlineStep ==
    ASSUME ReaderInv, PushNewline
    PROVE  ReaderInv'
<1> USE ReaderAssumption
<1>1. line' = <<>> /\ pos' = 0 /\ overflowed' = FALSE /\ buf' = buf
  BY DEF PushNewline
<1>2. \/ result' \in {Pending, TooLarge}
      \/ result'.kind = "frame" /\ result'.bytes \in Seq(Data)
  <2>1. CASE overflowed
    BY <2>1 DEF PushNewline
  <2>2. CASE ~overflowed
    <3>1. result' = Frame(line)
      BY <2>2, TakenIsLine DEF PushNewline
    <3> QED BY <3>1 DEF Frame, ReaderInv, TypeOK
  <2> QED BY <2>1, <2>2
<1>3. TypeOK'
  BY <1>1, <1>2, EmptyLine DEF ReaderInv, TypeOK
<1>4. ReaderTracksLine'
  BY <1>1, EmptyLine DEF ReaderTracksLine
<1> QED BY <1>3, <1>4 DEF ReaderInv

\* So does a new connection, with a buffer of zeros.
LEMMA NewReaderStep == NewReader => ReaderInv'
<1> SUFFICES ASSUME NewReader PROVE ReaderInv'
  OBVIOUS
<1>1. TypeOK'
  BY EmptyLine, FreshReader, Zenon DEF NewReader, TypeOK
<1>2. ReaderTracksLine'
  BY EmptyLine DEF NewReader, ReaderTracksLine
<1> QED BY <1>1, <1>2 DEF ReaderInv

\* The inductive invariant of the reader.
THEOREM ReaderInvariance == Spec => []ReaderInv
<1>1. Init => ReaderInv
  <2> SUFFICES ASSUME Init PROVE ReaderInv
    OBVIOUS
  <2>1. TypeOK
    BY EmptyLine, FreshReader, Zenon DEF Init, TypeOK
  <2>2. ReaderTracksLine
    BY EmptyLine DEF Init, ReaderTracksLine
  <2> QED BY <2>1, <2>2 DEF ReaderInv
<1>2. ReaderInv /\ [Next]_readerVars => ReaderInv'
  <2> SUFFICES ASSUME ReaderInv, [Next]_readerVars PROVE ReaderInv'
    OBVIOUS
  <2>1. ASSUME NEW b \in Byte, Push(b) PROVE ReaderInv'
    BY <2>1, StoreStep, OverflowStep, NewlineStep DEF Push, Data
  <2>2. CASE NewReader
    BY <2>2, NewReaderStep
  <2>3. CASE UNCHANGED readerVars
    BY <2>3 DEF readerVars, ReaderInv, TypeOK, ReaderTracksLine
  <2> QED BY <2>1, <2>2, <2>3 DEF Next
<1> QED BY <1>1, <1>2, PTL DEF Spec

\* For every MAX_MSG_LEN and every stream, push never indexes outside buf.
THEOREM ReaderTypeCorrect == Spec => []TypeOK
<1>1. ReaderInv => TypeOK
  BY DEF ReaderInv
<1> QED BY <1>1, ReaderInvariance, PTL

\* For every MAX_MSG_LEN and every stream, buf, pos and overflowed are those of
\* the current line alone.
THEOREM ReaderTracksEveryLine == Spec => []ReaderTracksLine
<1>1. ReaderInv => ReaderTracksLine
  BY DEF ReaderInv
<1> QED BY <1>1, ReaderInvariance, PTL

\* The reader implements the bufferless framing of LineFraming: a frame that
\* handle_client sees is always one whole line, and a line over the limit
\* yields exactly one msg_too_large.
THEOREM ReaderImplementsFraming == Spec => RefinesLineFraming
<1>1. Init => Lines!Start
  BY DEF Init, Lines!Start, Pending
<1>2. ReaderInv /\ [Next]_readerVars => [Lines!Step]_(Lines!lineVars)
  <2> SUFFICES ASSUME ReaderInv, [Next]_readerVars
               PROVE  [Lines!Step]_(Lines!lineVars)
    OBVIOUS
  <2>1. ASSUME NEW b \in Byte, b = NL, PushNewline PROVE Lines!EndLine
    <3>1. CASE overflowed
      <4>1. Len(line) > MAX_MSG_LEN - 1
        BY <3>1 DEF ReaderInv, ReaderTracksLine
      <4>2. ~(Len(line) <= MAX_MSG_LEN - 1)
        BY <4>1, ReaderAssumption DEF ReaderInv, TypeOK
      <4> QED BY <2>1, <3>1, <4>2
              DEF PushNewline, Lines!EndLine, Lines!Outcome, TooLarge
    <3>2. CASE ~overflowed
      <4>1. Len(line) <= MAX_MSG_LEN - 1
        BY <3>2, ReaderAssumption DEF ReaderInv, ReaderTracksLine, TypeOK
      <4>2. result' = Frame(line)
        BY <2>1, <3>2, TakenIsLine DEF PushNewline
      <4> QED BY <2>1, <4>1, <4>2
              DEF PushNewline, Lines!EndLine, Lines!Outcome, Frame
    <3> QED BY <3>1, <3>2
  <2>2. ASSUME NEW b \in Byte, b # NL, PushStore(b) \/ PushOverflow(b)
        PROVE  Lines!Extend(b) /\ b \in Byte \ {NL}
    BY <2>2 DEF PushStore, PushOverflow, Lines!Extend, Pending
  <2>3. CASE NewReader
    BY <2>3 DEF NewReader, Lines!Step, Lines!Reconnect, Pending
  <2>4. CASE UNCHANGED readerVars
    BY <2>4 DEF readerVars, Lines!lineVars
  <2> QED BY <2>1, <2>2, <2>3, <2>4 DEF Next, Push, Lines!Step
<1> QED
  BY <1>1, <1>2, ReaderInvariance, PTL DEF Spec, RefinesLineFraming, Lines!Spec

--------------------------------------------------------------------------------
(* The connection *)

\* The connection: its buffers, and the response that is being written.
SocketInv ==
    /\ pc \in {"accept", "read", "write", "reboot", "off"}
    /\ client \in {"none", "open", "finished", "reset", "vanished"}
    /\ rx \in Seq(Byte) /\ Len(rx) <= RX_SIZE
    /\ tx \in Seq(Replies) /\ Len(tx) <= TX_SIZE
    /\ received \in Seq(Replies)
    /\ out \in Opt(Replies)
    /\ (out # NONE) <=> (pc = "write")
    /\ pc = "accept" => rx = <<>> /\ tx = <<>> /\ client = "none"

\* The parts together.
SessionInv == ReaderInv /\ RouterInv /\ SocketInv

\* The facts about constants that the proofs use.
LEMMA SessionConstants ==
    /\ RX_SIZE \in Nat /\ TX_SIZE \in Nat /\ RX_SIZE > 0 /\ TX_SIZE > 0
    /\ NONE \notin Replies /\ NL \in Byte
    /\ \A f \in DOMAIN Json : Json[f] \in Commands
  BY SessionAssumption, ReaderAssumption

\* Both kinds of responses are replies.
LEMMA ReplyTypes ==
    /\ ResponseType \subseteq Replies
    /\ ParseError("malformed_json") \in Replies /\ ParseError("msg_too_large") \in Replies
<1>1. ResponseType \subseteq Replies
  BY DEF ResponseType, Replies, Opt
<1>2. EMPTY_ID \in Ids
  BY RouterAssumption
<1>3. \A code \in {"malformed_json", "msg_too_large"} : ParseError(code) \in Replies
  BY <1>2 DEF ParseError, Response, Replies, Opt
<1> QED BY <1>1, <1>3

--------------------------------------------------------------------------------
(* The reader and the router *)

\* A byte pushed.
LEMMA PushKept ==
    ASSUME ReaderInv, NEW b \in Byte, Push(b)
    PROVE  ReaderInv'
  BY StoreStep, OverflowStep, NewlineStep DEF Push, Data

\* Steps that leave the reader alone.
LEMMA ReaderUnchanged ==
    ASSUME ReaderInv, UNCHANGED readerVars
    PROVE  ReaderInv'
  BY DEF readerVars, ReaderInv, TypeOK, ReaderTracksLine

--------------------------------------------------------------------------------
(* The connection *)

\* socket.abort().
LEMMA AbortKept ==
    ASSUME SocketInv, Abort
    PROVE  SocketInv'
  BY SessionConstants DEF SocketInv, Abort, Opt

\* What the peer and the network do to the buffers.
LEMMA PeerKept ==
    ASSUME SocketInv, Deliver \/ ClientStep
    PROVE  SocketInv' /\ UNCHANGED <<readerVars, routerVars>>
<1>1. CASE Deliver
  <2>1. /\ tx # <<>> /\ tx' = Tail(tx) /\ received' = Append(received, Head(tx)) /\ client # "none"
        /\ UNCHANGED <<readerVars, routerVars, pc, client, rx, out>>
    BY <1>1 DEF Deliver
  <2>2. tx \in Seq(Replies) /\ Len(tx) <= TX_SIZE /\ received \in Seq(Replies) /\ pc # "accept"
    BY <2>1 DEF SocketInv
  <2>3. tx' \in Seq(Replies) /\ Len(tx') <= TX_SIZE /\ Head(tx) \in Replies
    BY <2>1, <2>2, SessionConstants
  <2>4. received' \in Seq(Replies)
    BY <2>1, <2>2, <2>3
  <2> QED BY <2>1, <2>2, <2>3, <2>4 DEF SocketInv
<1>2. ASSUME NEW b \in Byte, ClientSend(b) PROVE SocketInv' /\ UNCHANGED <<readerVars, routerVars>>
  <2>1. /\ Len(rx) < RX_SIZE /\ rx' = Append(rx, b) /\ client = "open"
        /\ UNCHANGED <<readerVars, routerVars, pc, client, tx, out, received>>
    BY <1>2 DEF ClientSend
  <2>2. rx \in Seq(Byte) /\ pc # "accept"
    BY <2>1 DEF SocketInv
  <2>3. rx' \in Seq(Byte) /\ Len(rx') <= RX_SIZE
    BY <2>1, <2>2, SessionConstants
  <2> QED BY <2>1, <2>2, <2>3 DEF SocketInv
<1>3. CASE ClientFinish \/ ClientReset \/ ClientVanish
  <2>1. /\ client # "none" /\ client' \in {"finished", "reset", "vanished"}
        /\ tx' = tx \/ tx' = <<>>
        /\ UNCHANGED <<readerVars, routerVars, pc, rx, out, received>>
    BY <1>3 DEF ClientFinish, ClientReset, ClientVanish
  <2>2. tx' \in Seq(Replies) /\ Len(tx') <= TX_SIZE
    <3>1. tx \in Seq(Replies) /\ Len(tx) <= TX_SIZE
      BY DEF SocketInv
    <3>2. CASE tx' = <<>>
      BY <3>2, SessionConstants
    <3> QED BY <2>1, <3>1, <3>2
  <2> QED BY <2>1, <2>2 DEF SocketInv
<1> QED BY <1>1, <1>2, <1>3 DEF ClientStep

\* parse_command, dispatch and what becomes of the response.
LEMMA ServeKept ==
    ASSUME RouterInv, NEW frame, Serve(frame), out = NONE
    PROVE  /\ RouterInv'
           /\ pc' \in {"read", "write", "reboot", "off"}
           /\ out' \in Opt(Replies) /\ ((out' # NONE) <=> (pc' = "write"))
<1> USE SessionConstants, ReplyTypes
<1>1. CASE frame \notin DOMAIN Json
  <2>1. out' = ParseError("malformed_json") /\ pc' = "write" /\ UNCHANGED routerVars
    BY <1>1 DEF Serve
  <2> QED BY <2>1, RouterUnchanged DEF Opt
<1>2. CASE frame \in DOMAIN Json
  <2>1. Handle(Json[frame]) /\ Json[frame] \in Commands
    BY <1>2 DEF Serve
  <2>2. RouterInv'
    BY <2>1, HandleStep
  <2>3. reply' \in Replies
    BY <2>2 DEF RouterInv, RouterTypeOK
  <2>4. \/ pc' = "off" /\ UNCHANGED out
        \/ pc' = NextPc(dev') /\ UNCHANGED out
        \/ out' = reply' /\ pc' = "write"
    BY <1>2 DEF Serve
  <2>5. NextPc(dev') \in {"read", "reboot"}
    BY DEF NextPc
  <2> QED BY <2>2, <2>3, <2>4, <2>5 DEF Opt
<1> QED BY <1>1, <1>2

\* read_frame's byte, and what a whole frame brings about.
LEMMA ReadByteKept ==
    ASSUME SessionInv, ReadByte
    PROVE  SessionInv'
<1> USE SessionConstants, ReplyTypes
<1>1. /\ pc = "read" /\ rx # <<>> /\ rx' = Tail(rx) /\ Push(Head(rx))
      /\ UNCHANGED <<client, tx, received>>
  BY DEF ReadByte
<1>2. rx \in Seq(Byte) /\ Len(rx) <= RX_SIZE /\ out = NONE
  BY <1>1 DEF SessionInv, SocketInv
<1>3. Head(rx) \in Byte /\ rx' \in Seq(Byte) /\ Len(rx') <= RX_SIZE
  BY <1>1, <1>2
<1>4. ReaderInv'
  BY <1>1, <1>3, PushKept DEF SessionInv
<1>5. /\ RouterInv'
      /\ pc' \in {"read", "write", "reboot", "off"}
      /\ out' \in Opt(Replies) /\ ((out' # NONE) <=> (pc' = "write"))
  <2>1. CASE UNCHANGED <<routerVars, pc, out>>
    BY <1>1, <1>2, <2>1, RouterUnchanged DEF SessionInv, Opt
  <2>2. CASE ReportTooLarge
    BY <2>2, RouterUnchanged DEF ReportTooLarge, SessionInv, Opt
  <2>3. CASE Serve(result'.bytes)
    BY <1>2, <2>3, ServeKept DEF SessionInv
  <2> QED BY <2>1, <2>2, <2>3 DEF ReadByte
<1> QED BY <1>1, <1>3, <1>4, <1>5 DEF SessionInv, SocketInv

\* The server's other steps.
LEMMA ServerKept ==
    ASSUME SessionInv, EndOfStream \/ IdleTimeout \/ WriteFrame \/ WriteError \/ Reboot
    PROVE  SessionInv'
<1> USE SessionConstants
<1>1. UNCHANGED <<readerVars, routerVars>>
  BY DEF EndOfStream, IdleTimeout, WriteFrame, WriteError, Reboot
<1>2. ReaderInv' /\ RouterInv'
  BY <1>1, ReaderUnchanged, RouterUnchanged DEF SessionInv
<1>3. SocketInv'
  <2>1. CASE Abort
    BY <2>1, AbortKept DEF SessionInv
  <2>2. CASE WriteFrame
    <3>1. /\ pc = "write" /\ Len(tx) < TX_SIZE /\ tx' = Append(tx, out) /\ out' = NONE
          /\ pc' \in {"read", "reboot"}
          /\ UNCHANGED <<client, rx, received>>
      BY <2>2 DEF WriteFrame, NextPc
    <3>2. tx \in Seq(Replies) /\ out \in Replies
      BY <3>1 DEF SessionInv, SocketInv, Opt
    <3>3. tx' \in Seq(Replies) /\ Len(tx') <= TX_SIZE
      BY <3>1, <3>2
    <3> QED BY <3>1, <3>3 DEF SessionInv, SocketInv, Opt
  <2>3. CASE WriteError /\ ~Abort
    <3>1. pc' = "read" /\ out' = NONE /\ UNCHANGED <<client, rx, tx, received>>
      BY <2>3 DEF WriteError
    <3> QED BY <3>1 DEF SessionInv, SocketInv, Opt
  <2>4. CASE Reboot
    <3>1. /\ pc = "reboot" /\ pc' = "off" /\ client' = "none" /\ rx' = <<>> /\ tx' = <<>>
          /\ UNCHANGED <<out, received>>
      BY <2>4 DEF Reboot
    <3> QED BY <3>1 DEF SessionInv, SocketInv
  <2> QED BY <2>1, <2>2, <2>3, <2>4 DEF EndOfStream, IdleTimeout
<1> QED BY <1>2, <1>3 DEF SessionInv

\* accept, a new reader and a new DeviceState.
LEMMA AcceptKept ==
    ASSUME SessionInv, Accept
    PROVE  SessionInv'
<1>1. ReaderInv' /\ RouterInv'
  BY NewReaderStep, NewSessionStep DEF Accept, SessionInv
<1>2. /\ pc = "accept" /\ pc' = "read" /\ client' = "open" /\ received' = <<>>
      /\ UNCHANGED <<rx, tx, out>>
  BY DEF Accept
<1>3. received' \in Seq(Replies)
  BY <1>2
<1> QED BY <1>1, <1>2, <1>3 DEF SessionInv, SocketInv

\* Every step keeps SessionInv.
LEMMA SessionKept ==
    ASSUME SessionInv, [SessionNext]_vars
    PROVE  SessionInv'
<1>1. CASE Accept
  BY <1>1, AcceptKept
<1>2. CASE ServerStep
  BY <1>2, ReadByteKept, ServerKept DEF ServerStep
<1>3. CASE Deliver \/ ClientStep
  BY <1>3, PeerKept, ReaderUnchanged, RouterUnchanged DEF SessionInv
<1>4. CASE UNCHANGED vars
  <2>1. UNCHANGED <<readerVars, routerVars, pc, client, rx, tx, out, received>>
    BY <1>4 DEF vars, sessionVars
  <2> QED BY <2>1, ReaderUnchanged, RouterUnchanged DEF SessionInv, SocketInv
<1> QED BY <1>1, <1>2, <1>3, <1>4 DEF SessionNext

\* Nothing is connected, buffered or read at the start.
LEMMA SessionBegins == SessionInit => SessionInv
<1> SUFFICES ASSUME SessionInit PROVE SessionInv
  OBVIOUS
<1>1. TypeOK
  BY EmptyLine, FreshReader, Zenon DEF SessionInit, Init, TypeOK
<1>2. ReaderTracksLine
  BY EmptyLine DEF SessionInit, Init, ReaderTracksLine
<1>3. RouterInv
  BY DefaultGood, NoReplyTyped DEF SessionInit, RouterInit, RouterInv, RouterTypeOK, GoodState, Opt
<1>4. SocketInv
  BY SessionConstants DEF SessionInit, SocketInv, Opt
<1> QED BY <1>1, <1>2, <1>3, <1>4 DEF SessionInv, ReaderInv

\* Types and buffers, for every client: whatever it sends, and whenever it goes, every
\* index of the reader is inside its buffer and every buffer within its size.
THEOREM SessionTypeCorrect == SessionSpec => []SessionTypeOK
<1>1. SessionInv => SessionTypeOK
  BY DEF SessionInv, ReaderInv, RouterInv, SocketInv, SessionTypeOK
<1> QED BY <1>1, SessionBegins, SessionKept, PTL DEF SessionSpec
--------------------------------------------------------------------------------
(* The sequential reference *)

\* The states of a device and of the reference.
GoodStates == {st \in DeviceState : GoodState(st)}

RefType == [line : Seq(Data), dev : GoodStates, answers : Seq(Replies), sent : Seq(Replies)]

\* A line answered.
LEMMA AnswerTyped ==
    ASSUME NEW acc \in RefType, NEW r \in Replies, NEW st \in GoodStates
    PROVE  Answer(acc, r, st) \in RefType
<1>1. <<>> \in Seq(Data) /\ Append(acc.answers, r) \in Seq(Replies) /\ Append(acc.sent, r) \in Seq(Replies)
  BY DEF RefType
<1>2. (IF Serializable(r) THEN Append(acc.sent, r) ELSE acc.sent) \in Seq(Replies)
  BY <1>1 DEF RefType
<1> QED BY <1>1, <1>2 DEF Answer, RefType

\* A byte extends the line; a newline answers it.
LEMMA Reference1Cases ==
    ASSUME NEW acc \in RefType, NEW b \in Byte
    PROVE  /\ b # NL => Reference1(acc, b) = [acc EXCEPT !.line = Append(acc.line, b)] /\ b \in Data
           /\ b = NL => \E r \in Replies, st \in GoodStates : Reference1(acc, b) = Answer(acc, r, st)
<1>1. b # NL => Reference1(acc, b) = [acc EXCEPT !.line = Append(acc.line, b)] /\ b \in Data
  BY DEF Reference1, Data
<1>2. ASSUME b = NL PROVE \E r \in Replies, st \in GoodStates : Reference1(acc, b) = Answer(acc, r, st)
  <2>1. acc.dev \in GoodStates
    BY DEF RefType
  <2>2. CASE Len(acc.line) > MAX_MSG_LEN - 1
    <3>1. Reference1(acc, b) = Answer(acc, ParseError("msg_too_large"), acc.dev)
      BY <1>2, <2>2 DEF Reference1
    <3> QED BY <2>1, <3>1, ReplyTypes
  <2>3. CASE ~(Len(acc.line) > MAX_MSG_LEN - 1) /\ acc.line \notin DOMAIN Json
    <3>1. Reference1(acc, b) = Answer(acc, ParseError("malformed_json"), acc.dev)
      BY <1>2, <2>3 DEF Reference1
    <3> QED BY <2>1, <3>1, ReplyTypes
  <2>4. CASE ~(Len(acc.line) > MAX_MSG_LEN - 1) /\ acc.line \in DOMAIN Json
    <3> DEFINE r == respond(Json[acc.line], acc.dev)
    <3>1. Sound(acc.dev, r)
      BY <2>1, <2>4, SessionConstants, RespondSound DEF GoodStates
    <3>2. r.reply \in Replies /\ r.dev \in GoodStates
      BY <3>1, ReplyTypes DEF Sound, GoodStates, GoodState
    <3>3. Reference1(acc, b) = Answer(acc, r.reply, r.dev)
      BY <1>2, <2>4 DEF Reference1
    <3> QED BY <3>2, <3>3
  <2> QED BY <2>2, <2>3, <2>4
<1> QED BY <1>1, <1>2

\* So the reference keeps its type.
LEMMA Reference1Typed ==
    ASSUME NEW acc \in RefType, NEW b \in Byte
    PROVE  Reference1(acc, b) \in RefType
<1>1. CASE b # NL
  <2>1. Reference1(acc, b) = [acc EXCEPT !.line = Append(acc.line, b)] /\ b \in Data
    BY <1>1, Reference1Cases
  <2>2. Append(acc.line, b) \in Seq(Data)
    BY <2>1 DEF RefType
  <2> QED BY <2>1, <2>2 DEF RefType
<1>2. CASE b = NL
  BY <1>2, Reference1Cases, AnswerTyped
<1> QED BY <1>1, <1>2

\* Before the first byte.
LEMMA NoBytesTyped == NoBytes \in RefType
<1>1. DefaultState \in GoodStates
  BY DefaultGood DEF GoodStates, GoodState
<1>2. <<>> \in Seq(Data) /\ <<>> \in Seq(Replies)
  OBVIOUS
<1> QED BY <1>1, <1>2 DEF NoBytes, RefType

\* The reference is what its steps make of it.
LEMMA ReferenceSteps ==
    /\ Reference[<<>>] = NoBytes
    /\ \A bytes \in Seq(Byte) : Reference[bytes] \in RefType
    /\ \A bytes \in Seq(Byte), b \in Byte : Reference[Append(bytes, b)] = Reference1(Reference[bytes], b)
<1> DEFINE Op == [p \in RefType \X Byte |-> Reference1(p[1], p[2])]
           Body(f) == [s \in Seq(Byte) |-> IF s = <<>> THEN NoBytes ELSE Reference1(f[Front(s)], Last(s))]
<1>1. Op \in [RefType \X Byte -> RefType]
  <2> SUFFICES ASSUME NEW p \in RefType \X Byte PROVE Reference1(p[1], p[2]) \in RefType
    OBVIOUS
  <2> QED BY Reference1Typed
<1>2. PICK f : Solves(f, Byte, RefType, NoBytes, Op)
  <2> HIDE DEF Op
  <2>1. Recursion(Byte, RefType, NoBytes, Op)
    BY <1>1, NoBytesTyped DEF Recursion
  <2> QED BY <2>1, SeqRecursion, Zenon
<1>3. f = Body(f)
  <2>1. ASSUME NEW s \in Seq(Byte), s # <<>>
        PROVE  Op[<<f[Front(s)], Last(s)>>] = Reference1(f[Front(s)], Last(s))
    <3>1. f[Front(s)] \in RefType /\ Last(s) \in Byte
      BY <1>2, <2>1, FrontLast DEF Solves
    <3> QED BY <3>1
  <2> HIDE DEF Op
  <2>2. \A s \in Seq(Byte) : f[s] = IF s = <<>> THEN NoBytes ELSE Reference1(f[Front(s)], Last(s))
    BY <1>2, <2>1 DEF Solves
  <2>3. f \in [Seq(Byte) -> RefType]
    BY <1>2 DEF Solves
  <2> QED BY <2>2, <2>3
<1>4. Reference = Body(Reference)
  <2>1. \E g : g = Body(g)
    BY <1>3
  <2> QED BY <2>1 DEF Reference
<1>5. Reference[<<>>] = NoBytes
  BY <1>4
<1>6. ASSUME NEW bytes \in Seq(Byte), NEW b \in Byte
      PROVE  Reference[Append(bytes, b)] = Reference1(Reference[bytes], b)
  <2> HIDE DEF Body
  <2>1. /\ Append(bytes, b) \in Seq(Byte) /\ Append(bytes, b) # <<>>
        /\ Front(Append(bytes, b)) = bytes /\ Last(Append(bytes, b)) = b
    BY AppendFrontLast, Zenon
  <2>2. Body(Reference)[Append(bytes, b)] = Reference1(Reference[bytes], b)
    BY <2>1, Zenon DEF Body
  <2> QED BY <1>4, <2>2
<1>7. \A bytes \in Seq(Byte) : Reference[bytes] \in RefType
  <2> HIDE DEF Body
  <2>1. \A bytes \in Seq(Byte), b \in Byte :
          Reference[bytes] \in RefType => Reference[Append(bytes, b)] \in RefType
    BY <1>6, Reference1Typed
  <2> QED BY <1>5, <2>1, NoBytesTyped, SeqRecursionTyped, Zenon
<1> QED BY <1>5, <1>6, <1>7

\* What is answered, and what is left out: nothing else is lost, and nothing returns.
LEMMA AnswersGrow ==
    ASSUME NEW acc \in RefType, NEW b \in Byte
    PROVE  LET nxt == Reference1(acc, b)
           IN  /\ Begins(acc.sent, nxt.sent)
               /\ Len(nxt.answers) = Len(acc.answers) + (IF b = NL THEN 1 ELSE 0)
               /\ nxt.line = (IF b = NL THEN <<>> ELSE Append(acc.line, b))
               /\ \/ nxt.sent = acc.sent /\ (b = NL \/ nxt.answers = acc.answers)
                  \/ \E r \in Replies : nxt.sent = Append(acc.sent, r) /\ nxt.answers = Append(acc.answers, r)
<1>1. acc.sent \in Seq(Replies) /\ acc.answers \in Seq(Replies) /\ Len(acc.answers) \in Nat
  BY DEF RefType
<1>2. CASE b # NL
  <2>1. Reference1(acc, b) = [acc EXCEPT !.line = Append(acc.line, b)]
    BY <1>2, Reference1Cases
  <2> QED BY <1>1, <1>2, <2>1 DEF RefType, Begins
<1>3. CASE b = NL
  <2>1. PICK r \in Replies, st \in GoodStates : Reference1(acc, b) = Answer(acc, r, st)
    BY <1>3, Reference1Cases
  <2>2. Len(Append(acc.answers, r)) = Len(acc.answers) + 1 /\ Begins(acc.sent, Append(acc.sent, r)) /\ Begins(acc.sent, acc.sent)
    BY <1>1 DEF Begins
  <2>3. /\ Answer(acc, r, st).line = <<>> /\ Answer(acc, r, st).answers = Append(acc.answers, r)
        /\ Answer(acc, r, st).sent = (IF Serializable(r) THEN Append(acc.sent, r) ELSE acc.sent)
    BY DEF Answer
  <2> QED BY <1>3, <2>1, <2>2, <2>3
<1> QED BY <1>2, <1>3

\* As long as every answer was sent, what was sent are the answers.
LEMMA SentAreAnswers ==
    ASSUME NEW bytes \in Seq(Byte)
    PROVE  LET acc == Reference[bytes]
           IN  /\ Len(acc.sent) <= Len(acc.answers)
               /\ Len(acc.sent) = Len(acc.answers) => acc.sent = acc.answers
<1> DEFINE T == {s \in Seq(Byte) : /\ Len(Reference[s].sent) <= Len(Reference[s].answers)
                                   /\ Len(Reference[s].sent) = Len(Reference[s].answers)
                                        => Reference[s].sent = Reference[s].answers}
<1>1. <<>> \in T
  BY ReferenceSteps DEF NoBytes
<1>2. ASSUME NEW s \in Seq(Byte), NEW x \in Byte, s \in T PROVE Append(s, x) \in T
  <2> DEFINE acc == Reference[s]
             nxt == Reference[Append(s, x)]
  <2>1. acc \in RefType /\ nxt = Reference1(acc, x)
    BY ReferenceSteps
  <2>2. acc.sent \in Seq(Replies) /\ acc.answers \in Seq(Replies)
    <3> HIDE DEF acc
    <3> QED BY <2>1 DEF RefType
  <2>3. /\ Len(nxt.answers) = Len(acc.answers) + (IF x = NL THEN 1 ELSE 0)
        /\ \/ nxt.sent = acc.sent /\ (x = NL \/ nxt.answers = acc.answers)
           \/ \E r \in Replies : nxt.sent = Append(acc.sent, r) /\ nxt.answers = Append(acc.answers, r)
    <3> HIDE DEF acc, nxt
    <3> QED BY <2>1, AnswersGrow
  <2>4. /\ Len(acc.sent) <= Len(acc.answers)
        /\ Len(acc.sent) = Len(acc.answers) => acc.sent = acc.answers
    BY <1>2
  <2>5. Append(s, x) \in Seq(Byte)
    OBVIOUS
  <2> HIDE DEF acc, nxt
  <2>6. /\ Len(nxt.sent) <= Len(nxt.answers)
        /\ Len(nxt.sent) = Len(nxt.answers) => nxt.sent = nxt.answers
    <3>1. CASE nxt.sent = acc.sent /\ x = NL
      BY <2>2, <2>3, <2>4, <3>1
    <3>2. CASE nxt.sent = acc.sent /\ nxt.answers = acc.answers
      BY <2>4, <3>2
    <3>3. ASSUME NEW r \in Replies, nxt.sent = Append(acc.sent, r) /\ nxt.answers = Append(acc.answers, r)
          PROVE  /\ Len(nxt.sent) <= Len(nxt.answers)
                 /\ Len(nxt.sent) = Len(nxt.answers) => nxt.sent = nxt.answers
      BY <2>2, <2>4, <3>3
    <3> QED BY <2>3, <3>1, <3>2, <3>3
  <2> QED BY <2>5, <2>6 DEF nxt
<1>3. Seq(Byte) \subseteq T
  <2> HIDE DEF T
  <2> QED BY <1>1, <1>2, SeqInduction
<1> QED BY <1>3

\* More bytes take nothing back.
LEMMA SentGrows ==
    ASSUME NEW s \in Seq(Byte), NEW t \in Seq(Byte)
    PROVE  Begins(Reference[s].sent, Reference[s \o t].sent)
<1> DEFINE T == {u \in Seq(Byte) : Begins(Reference[s].sent, Reference[s \o u].sent)}
<1>1. <<>> \in T
  BY ReferenceSteps DEF RefType, Begins
<1>2. ASSUME NEW u \in Seq(Byte), NEW x \in Byte, u \in T PROVE Append(u, x) \in T
  <2>1. s \o Append(u, x) = Append(s \o u, x) /\ s \o u \in Seq(Byte) /\ Append(u, x) \in Seq(Byte)
    OBVIOUS
  <2>2. Reference[s \o u] \in RefType /\ Reference[s] \in RefType
        /\ Reference[s \o Append(u, x)] = Reference1(Reference[s \o u], x)
    BY <2>1, ReferenceSteps
  <2>3. Begins(Reference[s \o u].sent, Reference[s \o Append(u, x)].sent)
    BY <2>2, AnswersGrow
  <2>4. Begins(Reference[s].sent, Reference[s \o u].sent)
    BY <1>2
  <2>5. Begins(Reference[s].sent, Reference[s \o Append(u, x)].sent)
    <3>1. Reference[s].sent \in Seq(Replies) /\ Reference[s \o u].sent \in Seq(Replies)
      BY <2>2 DEF RefType
    <3>2. Reference[s \o Append(u, x)].sent \in Seq(Replies)
      BY <2>2, Reference1Typed DEF RefType
    <3> QED BY <2>3, <2>4, <3>1, <3>2, BeginsTransitive
  <2> QED BY <2>1, <2>5
<1>3. Seq(Byte) \subseteq T
  <2> HIDE DEF T
  <2> QED BY <1>1, <1>2, SeqInduction
<1> QED BY <1>3

\* The server against it: what it has taken of the stream, the line it is in, the state
\* and the answers, wherever they are on their way.
FollowsReference ==
    Connected =>
        /\ stream \in Seq(Byte) /\ Len(rx) <= Len(stream)
        /\ \A i \in 1..Len(rx) : rx[i] = stream[Len(stream) - Len(rx) + i]
        /\ line = Reference[Consumed].line
        /\ dev = Reference[Consumed].dev
        /\ client # "reset" => Answers = Reference[Consumed].sent

\* read_frame's byte is the next of the stream.
LEMMA ByteTaken ==
    ASSUME SessionInv, FollowsReference, ReadByte
    PROVE  /\ Head(rx) \in Byte /\ Consumed \in Seq(Byte)
           /\ Consumed' = Append(Consumed, Head(rx))
           /\ stream' \in Seq(Byte) /\ Len(rx') <= Len(stream')
           /\ \A i \in 1..Len(rx') : rx'[i] = stream'[Len(stream') - Len(rx') + i]
<1>1. /\ pc = "read" /\ rx # <<>> /\ rx' = Tail(rx) /\ stream' = stream
      /\ rx \in Seq(Byte)
  BY DEF ReadByte, SessionInv, SocketInv
<1>2. /\ stream \in Seq(Byte) /\ Len(rx) <= Len(stream)
      /\ \A i \in 1..Len(rx) : rx[i] = stream[Len(stream) - Len(rx) + i]
  BY <1>1 DEF FollowsReference, Connected
<1>3. /\ Len(rx) \in 1..Len(stream) /\ Len(rx') = Len(rx) - 1 /\ Len(stream) \in Nat
      /\ \A i \in 1..Len(rx') : rx'[i] = rx[i + 1]
      /\ Head(rx) = rx[1] /\ Head(rx) \in Byte
  BY <1>1, <1>2
<1>4. /\ Len(stream) - Len(rx) \in 0..Len(stream) /\ (Len(stream) - Len(rx)) + 1 \in 1..Len(stream)
      /\ Len(stream) - Len(rx') = (Len(stream) - Len(rx)) + 1
      /\ Head(rx) = stream[(Len(stream) - Len(rx)) + 1]
  BY <1>2, <1>3
<1>5. Consumed \in Seq(Byte) /\ Consumed' = Append(Consumed, Head(rx))
  BY <1>1, <1>2, <1>4, PrefixGrows DEF Consumed
<1>6. \A i \in 1..Len(rx') : rx'[i] = stream'[Len(stream') - Len(rx') + i]
  BY <1>1, <1>2, <1>3
<1> QED BY <1>1, <1>2, <1>3, <1>5, <1>6

\* What handle_client reports has no id and always fits.
LEMMA ParseErrorSent == \A code : Serializable(ParseError(code))
  BY SessionAssumption DEF Serializable, ParseError, Response

\* What becomes of a line, against the reference.
LEMMA LineServed ==
    ASSUME SessionInv, FollowsReference, ReadByte, Connected'
    PROVE  FollowsReference'
<1> DEFINE acc == Reference[Consumed]
           b == Head(rx)
           next == Reference1(acc, b)
<1>1. /\ pc = "read" /\ Push(b) /\ UNCHANGED <<client, tx, stream, received>>
  BY DEF ReadByte
<1>2. /\ b \in Byte /\ Consumed \in Seq(Byte) /\ Reference[Consumed'] = next
      /\ stream' \in Seq(Byte) /\ Len(rx') <= Len(stream')
      /\ \A i \in 1..Len(rx') : rx'[i] = stream'[Len(stream') - Len(rx') + i]
  BY ByteTaken, ReferenceSteps
<1>3. /\ acc \in RefType /\ acc.line = line /\ acc.dev = dev
      /\ client # "reset" => received \o tx = acc.sent
  <2>1. acc \in RefType
    BY <1>2, ReferenceSteps
  <2>2. Connected /\ Answers = received \o tx \o <<>>
    BY <1>1 DEF Connected, Answers
  <2>3. received \o tx \o <<>> = received \o tx
    BY DEF SessionInv, SocketInv
  <2> QED BY <2>1, <2>2, <2>3 DEF FollowsReference
<1> HIDE DEF acc, b
<1>4. tx \in Seq(Replies) /\ received \in Seq(Replies)
  BY DEF SessionInv, SocketInv
<1>5. line' = next.line /\ dev' = next.dev /\ (client' # "reset" => Answers' = next.sent)
  <2>1. CASE b # NL
    <3>1. result' = Pending /\ line' = Append(line, b)
      BY <1>1, <2>1 DEF Push, PushOverflow, PushStore
    <3>2. UNCHANGED <<routerVars, pc, out>>
      BY <3>1 DEF ReadByte, Pending, TooLarge
    <3>3. next.line = Append(line, b) /\ next.dev = dev /\ next.sent = acc.sent
      BY <1>3, <2>1 DEF Reference1, RefType
    <3>4. Answers' = received \o tx
      BY <1>1, <1>4, <3>2 DEF Answers, SessionInv, SocketInv
    <3> QED BY <1>1, <1>3, <3>1, <3>2, <3>3, <3>4 DEF routerVars
  <2>2. CASE b = NL
    <3>1. line' = <<>> /\ result' = IF overflowed THEN TooLarge ELSE Frame(Taken(buf, pos))
      BY <1>1, <2>2 DEF Push, PushNewline
    <3>2. ASSUME NEW r, next = Answer(acc, r, dev'),
                 Serializable(r) => out' = r /\ pc' = "write",
                 ~Serializable(r) => pc' # "write"
          PROVE  line' = next.line /\ dev' = next.dev /\ (client' # "reset" => Answers' = next.sent)
      <4>1. next.line = <<>> /\ next.dev = dev'
        BY <3>2 DEF Answer
      <4>2. CASE Serializable(r)
        <5>1. next.sent = Append(acc.sent, r) /\ Answers' = received \o tx \o <<r>>
          BY <1>1, <3>2, <4>2 DEF Answer, Answers
        <5> QED BY <1>1, <1>3, <3>1, <4>1, <5>1
      <4>3. CASE ~Serializable(r)
        <5>1. next.sent = acc.sent /\ Answers' = received \o tx
          BY <1>1, <3>2, <4>3 DEF Answer, Answers
        <5> QED BY <1>1, <1>3, <3>1, <4>1, <5>1
      <4> QED BY <4>2, <4>3
    <3>3. CASE overflowed
      <4>1. Len(acc.line) > MAX_MSG_LEN - 1
        BY <1>3, <3>3 DEF SessionInv, ReaderInv, ReaderTracksLine
      <4>2. ReportTooLarge
        BY <3>1, <3>3 DEF ReadByte, Pending, TooLarge
      <4>3. out' = ParseError("msg_too_large") /\ pc' = "write" /\ dev' = dev
        BY <4>2 DEF ReportTooLarge, routerVars
      <4>4. next = Answer(acc, ParseError("msg_too_large"), dev')
        BY <1>3, <2>2, <4>1, <4>3 DEF Reference1
      <4> QED BY <3>2, <4>3, <4>4, ParseErrorSent
    <3>4. CASE ~overflowed
      <4>1. ~(Len(acc.line) > MAX_MSG_LEN - 1)
        BY <1>3, <3>4 DEF SessionInv, ReaderInv, ReaderTracksLine
      <4>2. result' = Frame(acc.line)
        BY <1>3, <3>1, <3>4, TakenIsLine DEF SessionInv
      <4>3. Serve(acc.line)
        BY <4>2 DEF ReadByte, Pending, TooLarge, Frame
      <4>4. CASE acc.line \notin DOMAIN Json
        <5>1. out' = ParseError("malformed_json") /\ pc' = "write" /\ dev' = dev
          BY <4>3, <4>4 DEF Serve, routerVars
        <5>2. next = Answer(acc, ParseError("malformed_json"), dev')
          BY <1>3, <2>2, <4>1, <4>4, <5>1 DEF Reference1
        <5> QED BY <3>2, <5>1, <5>2, ParseErrorSent
      <4>5. CASE acc.line \in DOMAIN Json
        <5>1. Handle(Json[acc.line])
          BY <4>3, <4>5 DEF Serve
        <5>2. dev' = respond(Json[acc.line], dev).dev /\ reply' = respond(Json[acc.line], dev).reply
          BY <5>1 DEF Handle
        <5>3. next = Answer(acc, reply', dev')
          BY <1>3, <2>2, <4>1, <4>5, <5>2 DEF Reference1
        <5>4. /\ Serializable(reply') => out' = reply' /\ pc' = "write"
              /\ ~Serializable(reply') => pc' # "write"
          <6>1. pc' # "off"
            BY DEF Connected
          <6> QED BY <4>3, <4>5, <6>1 DEF Serve, Serializable, NextPc
        <5> QED BY <3>2, <5>3, <5>4
      <4> QED BY <4>4, <4>5
    <3> QED BY <3>3, <3>4
  <2> QED BY <2>1, <2>2
<1> QED BY <1>2, <1>5 DEF FollowsReference

\* The server's other steps take no byte.
LEMMA ServerFollows ==
    ASSUME SessionInv, FollowsReference, EndOfStream \/ IdleTimeout \/ WriteFrame \/ WriteError \/ Reboot
    PROVE  FollowsReference'
<1> SUFFICES ASSUME Connected' PROVE FollowsReference'
  BY DEF FollowsReference
<1>1. ~Abort /\ ~Reboot
  BY DEF Connected, Abort, Reboot
<1>2. /\ pc = "write" /\ UNCHANGED <<readerVars, routerVars, client, rx, stream, received>>
  BY <1>1 DEF EndOfStream, IdleTimeout, WriteFrame, WriteError
<1>3. UNCHANGED <<line, dev, Consumed>> /\ Connected
  BY <1>2 DEF readerVars, routerVars, Connected, Consumed
<1>4. client # "reset" => Answers' = Answers
  <2> SUFFICES ASSUME client # "reset" PROVE Answers' = Answers
    OBVIOUS
  <2>1. tx' = Append(tx, out) /\ pc' # "write"
    BY <1>1 DEF EndOfStream, IdleTimeout, WriteFrame, WriteError, NextPc
  <2>2. tx \in Seq(Replies) /\ received \in Seq(Replies) /\ out \in Replies
    BY <1>2 DEF SessionInv, SocketInv, Opt
  <2>3. received \o Append(tx, out) \o <<>> = received \o tx \o <<out>>
    BY <2>2
  <2> QED BY <1>2, <2>1, <2>3 DEF Answers
<1> QED BY <1>2, <1>3, <1>4 DEF FollowsReference

\* Bytes and responses on their way change nothing of what was taken and answered.
LEMMA PeerFollows ==
    ASSUME SessionInv, FollowsReference, Deliver \/ ClientStep
    PROVE  FollowsReference'
<1> SUFFICES ASSUME Connected' PROVE FollowsReference'
  BY DEF FollowsReference
<1>1. /\ UNCHANGED <<readerVars, routerVars, pc, out>>
      /\ tx \in Seq(Replies) /\ received \in Seq(Replies) /\ rx \in Seq(Byte)
  BY DEF Deliver, ClientStep, ClientSend, ClientFinish, ClientReset, ClientVanish, SessionInv, SocketInv
<1>2. UNCHANGED <<line, dev>> /\ Connected
  BY <1>1 DEF readerVars, routerVars, Connected
<1>3. CASE Deliver
  <2>1. /\ tx # <<>> /\ received' = Append(received, Head(tx)) /\ tx' = Tail(tx)
        /\ UNCHANGED <<client, rx, stream>>
    BY <1>3 DEF Deliver
  <2>2. received' \o tx' = received \o tx
    BY <1>1, <2>1
  <2>3. Answers' = Answers /\ Consumed' = Consumed
    BY <1>1, <2>1, <2>2 DEF Answers, Consumed
  <2> QED BY <1>2, <2>1, <2>3 DEF FollowsReference
<1>4. ASSUME NEW b \in Byte, ClientSend(b) PROVE FollowsReference'
  <2>1. rx' = Append(rx, b) /\ stream' = Append(stream, b) /\ UNCHANGED <<client, tx, received>>
    BY <1>4 DEF ClientSend
  <2>2. /\ stream \in Seq(Byte) /\ Len(rx) <= Len(stream)
        /\ \A i \in 1..Len(rx) : rx[i] = stream[Len(stream) - Len(rx) + i]
    BY <1>2 DEF FollowsReference
  <2>3. /\ stream' \in Seq(Byte) /\ Len(stream') = Len(stream) + 1 /\ Len(rx') = Len(rx) + 1
        /\ Len(rx') <= Len(stream')
        /\ Len(stream') - Len(rx') = Len(stream) - Len(rx)
        /\ Len(stream) - Len(rx) \in 0..Len(stream) /\ Len(stream) \in Nat
    BY <1>1, <2>1, <2>2
  <2>4. ASSUME NEW i \in 1..Len(rx') PROVE rx'[i] = stream'[Len(stream') - Len(rx') + i]
    <3>1. CASE i = Len(rx) + 1
      <4>1. rx'[i] = b
        BY <1>1, <2>1, <3>1
      <4>2. Len(stream') - Len(rx') + i = Len(stream) + 1
        BY <1>1, <2>2, <2>3, <3>1
      <4> QED BY <2>1, <2>2, <4>1, <4>2
    <3>2. CASE i \in 1..Len(rx)
      <4>1. rx'[i] = rx[i] /\ rx[i] = stream[Len(stream) - Len(rx) + i]
        BY <1>1, <2>1, <2>2, <3>2
      <4>2. Len(stream) - Len(rx) + i \in 1..Len(stream)
        BY <1>1, <2>2, <2>3, <3>2
      <4>3. stream'[Len(stream) - Len(rx) + i] = stream[Len(stream) - Len(rx) + i]
        BY <2>1, <2>2, <4>2
      <4> QED BY <2>3, <4>1, <4>3
    <3> QED BY <1>1, <2>3, <3>1, <3>2
  <2>5. SubSeq(stream', 1, Len(stream) - Len(rx)) = SubSeq(stream, 1, Len(stream) - Len(rx))
    BY <2>1, <2>2, <2>3
  <2>6. Consumed' = Consumed /\ Answers' = Answers
    BY <1>1, <2>1, <2>3, <2>5 DEF Consumed, Answers
  <2> QED BY <1>2, <2>1, <2>3, <2>4, <2>6 DEF FollowsReference
<1>5. CASE ClientFinish \/ ClientReset \/ ClientVanish
  <2>1. /\ UNCHANGED <<rx, stream, received>>
        /\ client' # "reset" => client # "reset" /\ tx' = tx
    BY <1>5 DEF ClientFinish, ClientReset, ClientVanish
  <2>2. Consumed' = Consumed /\ (client' # "reset" => Answers' = Answers)
    BY <1>1, <2>1 DEF Consumed, Answers
  <2> QED BY <1>2, <2>1, <2>2 DEF FollowsReference
<1> QED BY <1>3, <1>4, <1>5 DEF ClientStep

\* A connection begins with nothing sent and a fresh DeviceState.
LEMMA AcceptFollows ==
    ASSUME SessionInv, Accept
    PROVE  FollowsReference'
<1>1. /\ line' = <<>> /\ dev' = DefaultState /\ rx' = <<>> /\ tx' = <<>> /\ pc' = "read"
      /\ stream' = <<>> /\ received' = <<>>
  BY DEF Accept, NewReader, NewSession, SessionInv, SocketInv
<1>2. Consumed' = <<>> /\ Answers' = <<>>
  BY <1>1 DEF Consumed, Answers
<1>3. Reference[<<>>] = NoBytes
  BY ReferenceSteps
<1>4. stream' \in Seq(Byte) /\ Len(stream') = 0 /\ Len(rx') = 0
  BY <1>1
<1> QED BY <1>1, <1>2, <1>3, <1>4 DEF FollowsReference, NoBytes

\* Every step of the session keeps FollowsReference.
LEMMA Follows ==
    ASSUME SessionInv, FollowsReference, [SessionNext]_vars
    PROVE  FollowsReference'
<1>1. CASE Accept
  BY <1>1, AcceptFollows
<1>2. CASE ServerStep
  <2>1. CASE ReadByte /\ Connected'
    BY <2>1, LineServed
  <2>2. CASE ~Connected'
    BY <2>2 DEF FollowsReference
  <2> QED BY <1>2, <2>1, <2>2, ServerFollows DEF ServerStep
<1>3. CASE Deliver \/ ClientStep
  BY <1>3, PeerFollows
<1>4. CASE UNCHANGED vars
  <2>1. UNCHANGED <<line, dev, pc, client, rx, tx, out, stream, received>>
    BY <1>4 DEF vars, sessionVars, readerVars, routerVars
  <2> QED BY <2>1 DEF FollowsReference, Connected, Answers, Consumed
<1> QED BY <1>1, <1>2, <1>3, <1>4 DEF SessionNext

\* PROTOCOL.md, "Pipelining": however a client's bytes are cut into segments and however
\* far ahead it writes, it reads the responses of its lines in order, and each is the one
\* that a device would give which handles one line at a time.
THEOREM PipelinedInOrder == SessionSpec => []SequentialAnswers
<1>1. SessionInit => SessionInv /\ FollowsReference
  BY SessionBegins DEF SessionInit, FollowsReference, Connected
<1>2. SessionInv /\ FollowsReference /\ [SessionNext]_vars => (SessionInv /\ FollowsReference)'
  BY SessionKept, Follows
<1>3. FollowsReference => SequentialAnswers
  BY DEF FollowsReference, SequentialAnswers
<1> QED BY <1>1, <1>2, <1>3, PTL DEF SessionSpec
--------------------------------------------------------------------------------
(* The client library: one newline under way *)

\* The call has written all of its line.
Waiting == call # NONE /\ call.sent > Len(call.line)

\* Responses that were made and not read.
Made == Len(received) + Len(tx) + (IF pc = "write" THEN 1 ELSE 0)

\* The call under way and its history; a library that believes in its connection
\* is connected.
CallTypes ==
    /\ lib \in {"none", "live", "broken"}
    /\ results \in Seq([line : Seq(Data), outcome : Opt(Replies)])
    /\ call \in Opt([line : Calls, sent : Nat])
    /\ lib = "none" => call = NONE /\ results = <<>>
    /\ lib = "live" => client = "open"

\* A newline in rx is the last byte of a call's line, all earlier calls of which
\* have been answered or never will be.
OneNewline ==
    \A i \in 1..Len(rx) : rx[i] = NL => i = Len(rx) /\ Waiting /\ Made <= LinesRead

\* All answers but the one waited for were read.
AtMostOne == Made <= LinesRead + (IF Waiting THEN 1 ELSE 0)

\* What is inductive: for as long as the library's connection lives.
LibraryInv ==
    /\ SessionInv
    /\ CallTypes
    /\ lib = "live" => OneNewline /\ AtMostOne

\* A line of a call has no newline, and a call under way is no NONE.
LEMMA CallConstants ==
    /\ \A f \in Calls : f \in Seq(Data)
    /\ NONE \notin [line : Calls, sent : Nat]
    /\ NL \notin Data
  BY LibraryAssumption DEF Data

\* One more line read.
LEMMA LinesReadGrows ==
    ASSUME CallTypes, NEW r \in [line : Seq(Data), outcome : Opt(Replies)],
           results' = Append(results, r), r.outcome # FAILED
    PROVE  LinesRead \in Nat /\ LinesRead' = LinesRead + 1
<1> DEFINE S == {n \in 1..Len(results) : results[n].outcome # FAILED}
<1>1. /\ Len(results) \in Nat /\ Len(results') = Len(results) + 1
      /\ results'[Len(results) + 1] = r
      /\ \A n \in 1..Len(results) : results'[n] = results[n]
  BY DEF CallTypes
<1>2. IsFiniteSet(S) /\ Len(results) + 1 \notin S
  <2>1. IsFiniteSet(1..Len(results)) /\ S \subseteq 1..Len(results)
    BY <1>1, FS_Interval
  <2> QED BY <1>1, <2>1, FS_Subset
<1>3. {n \in 1..Len(results') : results'[n].outcome # FAILED} = S \cup {Len(results) + 1}
  BY <1>1
<1>4. Cardinality(S \cup {Len(results) + 1}) = Cardinality(S) + 1
  BY <1>2, FS_AddElement
<1>5. Cardinality(S) \in Nat
  BY <1>2, FS_CardinalityType
<1> QED BY <1>3, <1>4, <1>5 DEF LinesRead

\* The count is a number.
LEMMA LinesReadType == ASSUME CallTypes PROVE LinesRead \in Nat
<1>1. Len(results) \in Nat
  BY DEF CallTypes
<1>2. IsFiniteSet(1..Len(results))
  BY <1>1, FS_Interval
<1>3. IsFiniteSet({n \in 1..Len(results) : results[n].outcome # FAILED})
  BY <1>2, FS_Subset
<1> QED BY <1>3, FS_CardinalityType DEF LinesRead

\* Sizes are numbers.
LEMMA SizeTypes ==
    ASSUME SessionInv
    PROVE  /\ Len(rx) \in Nat /\ Len(tx) \in Nat /\ Len(received) \in Nat /\ Made \in Nat
           /\ rx \in Seq(Byte) /\ tx \in Seq(Replies) /\ received \in Seq(Replies)
<1>1. rx \in Seq(Byte) /\ tx \in Seq(Replies) /\ received \in Seq(Replies)
  BY DEF SessionInv, SocketInv
<1>2. Len(rx) \in Nat /\ Len(tx) \in Nat /\ Len(received) \in Nat
  BY <1>1
<1> QED BY <1>1, <1>2 DEF Made

\* The device: a newline consumed is the only step that makes a response.
LEMMA ByteConsumed ==
    ASSUME LibraryInv, lib = "live", ReadByte, UNCHANGED <<call, results>>
    PROVE  OneNewline' /\ AtMostOne'
<1> USE SessionConstants
<1>1. /\ pc = "read" /\ rx # <<>> /\ rx' = Tail(rx) /\ Push(Head(rx))
      /\ UNCHANGED <<tx, received>>
  BY DEF ReadByte
<1>2. /\ Len(rx) \in Nat \ {0} /\ Len(rx') = Len(rx) - 1 /\ Head(rx) = rx[1]
      /\ \A i \in 1..Len(rx') : rx'[i] = rx[i + 1]
  BY <1>1, SizeTypes DEF LibraryInv
<1>3. LinesRead' = LinesRead /\ Waiting' = Waiting
  BY DEF LinesRead, Waiting
<1>4. LinesRead \in Nat /\ Made \in Nat /\ Len(tx) \in Nat /\ Len(received) \in Nat
  BY LinesReadType, SizeTypes DEF LibraryInv
<1>5. Made = Len(received) + Len(tx)
  BY <1>1, <1>4 DEF Made
<1>6. \A i \in 1..Len(rx) : rx[i] = NL => i = Len(rx) /\ Waiting /\ Made <= LinesRead
  BY DEF LibraryInv, OneNewline
<1>7. CASE Head(rx) = NL
  <2>1. Len(rx) = 1 /\ Waiting /\ Made <= LinesRead
    BY <1>2, <1>6, <1>7
  <2>2. Made' <= Made + 1
    BY <1>1, <1>4, <1>5 DEF Made
  <2>3. Made' \in Nat
    BY <1>1, <1>4 DEF Made
  <2> QED BY <1>2, <1>3, <1>4, <2>1, <2>2, <2>3 DEF OneNewline, AtMostOne
<1>8. CASE Head(rx) # NL
  <2>1. result' = Pending
    BY <1>1, <1>8 DEF Push, PushStore, PushOverflow
  <2>2. pc' = pc
    BY <2>1 DEF ReadByte, Pending, TooLarge
  <2>3. Made' = Made
    BY <1>1, <2>2 DEF Made
  <2>4. \A i \in 1..Len(rx') : rx'[i] = NL => i = Len(rx') /\ Waiting /\ Made <= LinesRead
    BY <1>2, <1>6
  <2> QED BY <1>3, <2>3, <2>4 DEF LibraryInv, OneNewline, AtMostOne
<1> QED BY <1>7, <1>8

\* The device's other steps end the connection or leave the number of responses alone.
LEMMA DeviceKept ==
    ASSUME LibraryInv, Device
    PROVE  lib' = "live" => OneNewline' /\ AtMostOne'
<1> SUFFICES ASSUME lib' = "live" PROVE OneNewline' /\ AtMostOne'
  OBVIOUS
<1>1. lib = "live" /\ client' # "none" /\ ServerStep /\ UNCHANGED <<call, results>>
  BY DEF Device
<1>2. client = "open"
  BY <1>1 DEF LibraryInv, CallTypes
<1>3. CASE ReadByte
  BY <1>1, <1>3, ByteConsumed
<1>4. CASE WriteFrame
  <2>1. /\ pc = "write" /\ pc' \in {"read", "reboot"} /\ tx' = Append(tx, out)
        /\ UNCHANGED <<rx, received>>
    BY <1>4 DEF WriteFrame, NextPc
  <2>2. Len(tx') = Len(tx) + 1 /\ Len(tx) \in Nat /\ Len(received) \in Nat
    BY <2>1, SizeTypes DEF LibraryInv
  <2>3. Made' = Made
    BY <2>1, <2>2 DEF Made
  <2> QED BY <1>1, <2>1, <2>3 DEF LibraryInv, OneNewline, AtMostOne, Waiting, LinesRead
<1>5. CASE EndOfStream \/ IdleTimeout \/ WriteError \/ Reboot
  BY <1>1, <1>2, <1>5 DEF EndOfStream, IdleTimeout, WriteError, Reboot, Abort
<1> QED BY <1>1, <1>3, <1>4, <1>5 DEF ServerStep

\* A response delivered is still one that was made.
LEMMA DeliverKept ==
    ASSUME LibraryInv, Deliver, UNCHANGED libraryVars
    PROVE  lib' = "live" => OneNewline' /\ AtMostOne'
<1>1. /\ tx # <<>> /\ tx' = Tail(tx) /\ received' = Append(received, Head(tx))
      /\ UNCHANGED <<pc, rx, lib, call, results>>
  BY DEF Deliver, libraryVars
<1>2. tx \in Seq(Replies) /\ received \in Seq(Replies)
  BY SizeTypes DEF LibraryInv
<1>3. Len(tx') = Len(tx) - 1 /\ Len(received') = Len(received) + 1
      /\ Len(tx) \in Nat /\ Len(received) \in Nat
  BY <1>1, <1>2
<1>4. Made' = Made
  BY <1>1, <1>3 DEF Made
<1> QED BY <1>1, <1>4 DEF LibraryInv, OneNewline, AtMostOne, Waiting, LinesRead

\* A byte of the line sent: its newline is the last.
LEMMA SendKept ==
    ASSUME LibraryInv, SendByte
    PROVE  CallTypes' /\ OneNewline' /\ AtMostOne'
<1> USE SessionConstants
<1> DEFINE b == Append(call.line, NL)[call.sent + 1]
<1>1. /\ lib = "live" /\ call # NONE /\ call.sent <= Len(call.line) /\ ClientSend(b)
      /\ call' = [call EXCEPT !.sent = @ + 1] /\ UNCHANGED <<lib, results>>
  BY DEF SendByte
<1>2. call \in [line : Calls, sent : Nat]
  BY <1>1 DEF LibraryInv, CallTypes, Opt
<1>3. /\ call' \in [line : Calls, sent : Nat] /\ call' # NONE
      /\ call'.line = call.line /\ call'.sent = call.sent + 1
  BY <1>1, <1>2, CallConstants
<1>4. call.line \in Seq(Data) /\ call.sent \in Nat /\ Len(call.line) \in Nat
  BY <1>2, CallConstants
<1>5. ~Waiting /\ (Waiting' <=> call.sent = Len(call.line))
  BY <1>1, <1>3, <1>4 DEF Waiting
<1>6. b = NL => call.sent = Len(call.line)
  <2>1. CASE call.sent < Len(call.line)
    <3>1. b = call.line[call.sent + 1] /\ call.sent + 1 \in 1..Len(call.line)
      BY <1>4, <2>1
    <3>2. b \in Data
      BY <1>4, <3>1
    <3> QED BY <3>2, CallConstants
  <2> QED BY <1>1, <1>4, <2>1
<1> HIDE DEF b
<1>7. rx' = Append(rx, b) /\ client = "open" /\ UNCHANGED <<pc, client, tx, received>>
  BY <1>1 DEF ClientSend
<1>8. rx \in Seq(Byte) /\ Len(rx) \in Nat /\ LinesRead \in Nat /\ Made \in Nat
  BY SizeTypes, LinesReadType DEF LibraryInv
<1>9. Made' = Made /\ LinesRead' = LinesRead
  BY <1>1, <1>7 DEF Made, LinesRead
<1>10. Made <= LinesRead /\ \A i \in 1..Len(rx) : rx[i] # NL
  BY <1>1, <1>5, <1>8 DEF LibraryInv, AtMostOne, OneNewline
<1>11. AtMostOne'
  BY <1>8, <1>9, <1>10 DEF AtMostOne
<1>12. OneNewline'
  <2>1. /\ Len(rx') = Len(rx) + 1 /\ rx'[Len(rx) + 1] = b
        /\ \A i \in 1..Len(rx) : rx'[i] = rx[i]
    BY <1>7, <1>8
  <2> SUFFICES ASSUME NEW i \in 1..Len(rx'), rx'[i] = NL
               PROVE  i = Len(rx') /\ Waiting' /\ Made' <= LinesRead'
    BY DEF OneNewline
  <2>2. i = Len(rx) + 1
    BY <1>8, <1>10, <2>1
  <2> QED BY <1>5, <1>6, <1>9, <1>10, <2>1, <2>2
<1>13. CallTypes'
  BY <1>1, <1>3, <1>7 DEF LibraryInv, CallTypes, Opt
<1> QED BY <1>11, <1>12, <1>13

\* A response read: until another line is written, no newline is under way.
LEMMA ReadLineKept ==
    ASSUME LibraryInv, ReadLine
    PROVE  CallTypes' /\ (lib' = "live" => OneNewline' /\ AtMostOne')
<1> USE SessionConstants
<1> DEFINE r == [line |-> call.line, outcome |-> received[LinesRead + 1]]
<1>1. /\ lib # "none" /\ call # NONE /\ Waiting /\ Unread
      /\ results' = Append(results, r) /\ call' = NONE
      /\ UNCHANGED <<vars, lib>>
  BY DEF ReadLine, Return, Waiting
<1>2. UNCHANGED <<pc, client, rx, tx, received>>
  BY <1>1 DEF vars, sessionVars
<1>3. call \in [line : Calls, sent : Nat] /\ LinesRead \in Nat /\ Made \in Nat
      /\ received \in Seq(Replies) /\ Len(received) \in Nat /\ Len(tx) \in Nat
  BY <1>1, LinesReadType, SizeTypes DEF LibraryInv, CallTypes, Opt
<1>4. LinesRead + 1 \in 1..Len(received)
  BY <1>1, <1>3 DEF Unread
<1>5. r.outcome \in Replies /\ r.outcome # FAILED
  BY <1>3, <1>4 DEF FAILED
<1>6. r \in [line : Seq(Data), outcome : Opt(Replies)]
  BY <1>3, <1>5, CallConstants DEF Opt
<1> HIDE DEF r
<1>7. LinesRead' = LinesRead + 1
  BY <1>1, <1>5, <1>6, LinesReadGrows DEF LibraryInv
<1>8. CallTypes'
  <2>1. results' \in Seq([line : Seq(Data), outcome : Opt(Replies)])
    BY <1>1, <1>6 DEF LibraryInv, CallTypes
  <2> QED BY <1>1, <1>2, <2>1 DEF LibraryInv, CallTypes, Opt
<1>9. Made' = Made /\ ~Waiting'
  BY <1>1, <1>2 DEF Made, Waiting
<1>10. ASSUME lib' = "live" PROVE OneNewline' /\ AtMostOne'
  <2>1. OneNewline /\ Made <= LinesRead + 1
    BY <1>1, <1>10 DEF LibraryInv, AtMostOne
  <2>2. Made > LinesRead
    BY <1>3, <1>4 DEF Made
  <2>3. \A i \in 1..Len(rx) : rx[i] # NL
    BY <1>3, <2>1, <2>2 DEF OneNewline
  <2> QED BY <1>2, <1>3, <1>7, <1>9, <2>1, <2>3 DEF OneNewline, AtMostOne
<1> QED BY <1>8, <1>10

\* A call begun: nothing of its line is under way.
LEMMA CallKept ==
    ASSUME LibraryInv, NEW f \in Calls, Call(f)
    PROVE  CallTypes' /\ (lib' = "live" => OneNewline' /\ AtMostOne')
<1>1. /\ lib # "none" /\ call = NONE /\ call' = [line |-> f, sent |-> 0]
      /\ UNCHANGED <<vars, lib, results>>
  BY DEF Call
<1>2. UNCHANGED <<pc, client, rx, tx, received>>
  BY <1>1 DEF vars, sessionVars
<1>3. f \in Seq(Data) /\ Len(f) \in Nat
  BY CallConstants
<1>4. ~Waiting /\ ~Waiting'
  BY <1>1, <1>3 DEF Waiting
<1>5. Made' = Made /\ LinesRead' = LinesRead
  BY <1>1, <1>2 DEF Made, LinesRead
<1>6. CallTypes'
  BY <1>1, <1>2 DEF LibraryInv, CallTypes, Opt
<1> QED BY <1>1, <1>2, <1>4, <1>5, <1>6 DEF LibraryInv, OneNewline, AtMostOne

\* A call failed: its connection is broken, and only "live" ones are counted.
LEMMA FailKept ==
    ASSUME LibraryInv, FailCall
    PROVE  CallTypes' /\ lib' # "live"
<1> DEFINE r == [line |-> call.line, outcome |-> FAILED]
<1>1. /\ lib = "broken" /\ call # NONE /\ results' = Append(results, r) /\ call' = NONE
      /\ UNCHANGED <<vars, lib>>
  BY DEF FailCall, Return
<1>2. call.line \in Seq(Data)
  BY <1>1, CallConstants DEF LibraryInv, CallTypes, Opt
<1>3. r \in [line : Seq(Data), outcome : Opt(Replies)]
  BY <1>2 DEF Opt, FAILED
<1> HIDE DEF r
<1>4. results' \in Seq([line : Seq(Data), outcome : Opt(Replies)])
  BY <1>1, <1>3 DEF LibraryInv, CallTypes
<1> QED BY <1>1, <1>4 DEF LibraryInv, CallTypes, Opt

\* A new connection, with empty buffers.
LEMMA ConnectKept ==
    ASSUME LibraryInv, Connect
    PROVE  CallTypes' /\ OneNewline' /\ AtMostOne'
<1>1. /\ lib = "none" /\ lib' = "live" /\ pc = "accept" /\ pc' = "read" /\ client' = "open"
      /\ received' = <<>> /\ UNCHANGED <<rx, tx, call, results>>
  BY DEF Connect, Accept
<1>2. rx = <<>> /\ tx = <<>> /\ call = NONE
  BY <1>1 DEF LibraryInv, SessionInv, SocketInv, CallTypes
<1>3. OneNewline'
  BY <1>1, <1>2 DEF OneNewline
<1>4. CallTypes'
  BY <1>1 DEF LibraryInv, CallTypes
<1>5. LinesRead' = LinesRead /\ LinesRead \in Nat
  BY <1>1, LinesReadType DEF LibraryInv, LinesRead
<1>6. Made' = 0
  BY <1>1, <1>2 DEF Made
<1>7. ~Waiting'
  BY <1>1, <1>2 DEF Waiting
<1>8. AtMostOne'
  BY <1>5, <1>6, <1>7 DEF AtMostOne
<1> QED BY <1>3, <1>4, <1>8

\* A library dropped forgets its call and its results.
LEMMA ForgetKept ==
    ASSUME Forget
    PROVE  CallTypes' /\ lib' # "live"
<1>1. <<>> \in Seq([line : Seq(Data), outcome : Opt(Replies)])
  OBVIOUS
<1> QED BY <1>1 DEF Forget, CallTypes, Opt

\* What leaves the library's variables alone, or breaks its connection.
LEMMA TypesKept ==
    ASSUME LibraryInv, call' = call, results' = results,
           lib' = lib \/ (lib' = "broken" /\ lib # "none"),
           lib' = "live" => client' = "open"
    PROVE  CallTypes'
  BY DEF LibraryInv, CallTypes, Opt

\* Every step of the library's system is one of the session, or leaves it alone.
LEMMA LibraryKept ==
    ASSUME LibraryInv, [LibraryNext]_allVars
    PROVE  LibraryInv'
<1> DEFINE Counted == lib' = "live" => OneNewline' /\ AtMostOne'
<1> SUFFICES SessionInv' /\ CallTypes' /\ Counted
  BY DEF LibraryInv
<1>0. SessionInv
  BY DEF LibraryInv
<1>1. CASE Connect
  <2>1. SessionNext
    BY <1>1 DEF Connect, SessionNext
  <2> QED BY <1>0, <1>1, <2>1, SessionKept, ConnectKept
<1>2. ASSUME NEW f \in Calls, Call(f) PROVE SessionInv' /\ CallTypes' /\ Counted
  <2>1. UNCHANGED vars
    BY <1>2 DEF Call
  <2> QED BY <1>0, <1>2, <2>1, SessionKept, CallKept
<1>3. CASE SendByte
  <2>1. SessionNext
    <3> DEFINE b == Append(call.line, NL)[call.sent + 1]
    <3>1. ClientSend(b)
      BY <1>3 DEF SendByte
    <3>2. b \in Byte
      <4>1. call # NONE /\ call.sent <= Len(call.line)
        BY <1>3 DEF SendByte
      <4>2. call.line \in Seq(Data) /\ call.sent \in Nat
        BY <4>1, CallConstants DEF LibraryInv, CallTypes, Opt
      <4>3. Append(call.line, NL) \in Seq(Byte)
        BY <4>2, SessionConstants DEF Data
      <4>4. call.sent + 1 \in 1..Len(Append(call.line, NL))
        BY <4>1, <4>2
      <4> QED BY <4>3, <4>4
    <3> HIDE DEF b
    <3> QED BY <3>1, <3>2 DEF SessionNext, ClientStep
  <2> QED BY <1>0, <1>3, <2>1, SessionKept, SendKept
<1>4. CASE ReadLine
  <2>1. UNCHANGED vars
    BY <1>4 DEF ReadLine
  <2> QED BY <1>0, <1>4, <2>1, SessionKept, ReadLineKept
<1>5. CASE FailCall
  <2>1. UNCHANGED vars
    BY <1>5 DEF FailCall
  <2> QED BY <1>0, <1>5, <2>1, SessionKept, FailKept
<1>6. CASE Drop
  <2>1. Forget /\ [SessionNext]_vars
    BY <1>6 DEF Drop, SessionNext, ClientStep
  <2> QED BY <1>0, <2>1, SessionKept, ForgetKept
<1>7. CASE Device
  <2>1. /\ ServerStep /\ UNCHANGED <<call, results>>
        /\ lib' = IF lib = "live" /\ client' = "none" THEN "broken" ELSE lib
    BY <1>7 DEF Device
  <2>2. SessionInv'
    BY <1>0, <2>1, SessionKept DEF SessionNext
  <2>3. lib = "live" => client = "open"
    BY DEF LibraryInv, CallTypes
  <2>4. client' \in {client, "none"}
    BY <2>1 DEF ServerStep, ReadByte, EndOfStream, IdleTimeout, WriteFrame, WriteError, Reboot, Abort
  <2>5. /\ call' = call /\ results' = results
        /\ lib' = lib \/ (lib' = "broken" /\ lib # "none")
        /\ lib' = "live" => client' = "open"
    BY <2>1, <2>3, <2>4
  <2>6. CallTypes'
    BY <2>5, TypesKept
  <2> QED BY <1>7, <2>2, <2>6, DeviceKept
<1>8. CASE Other
  <2>1. lib = "none" /\ (Accept \/ ClientStep) /\ UNCHANGED <<lib, call, results>>
    BY <1>8 DEF Other, libraryVars
  <2>2. SessionInv'
    BY <1>0, <2>1, SessionKept DEF SessionNext
  <2>3. call' = call /\ results' = results /\ lib' = lib /\ lib' # "live"
    BY <2>1
  <2>4. CallTypes'
    BY <2>3, TypesKept
  <2> QED BY <2>2, <2>3, <2>4
<1>9. CASE Deliver /\ UNCHANGED libraryVars
  <2>1. UNCHANGED <<client, lib, call, results>>
    BY <1>9 DEF Deliver, libraryVars
  <2>2. SessionInv'
    BY <1>0, <1>9, SessionKept DEF SessionNext
  <2>3. lib = "live" => client = "open"
    BY DEF LibraryInv, CallTypes
  <2>4. /\ call' = call /\ results' = results /\ lib' = lib
        /\ lib' = "live" => client' = "open"
    BY <2>1, <2>3
  <2>5. CallTypes'
    BY <2>4, TypesKept
  <2> QED BY <1>9, <2>2, <2>5, DeliverKept
<1>10. CASE UNCHANGED allVars
  <2>1. UNCHANGED <<vars, pc, client, rx, tx, received, lib, call, results>>
    BY <1>10 DEF allVars, vars, sessionVars, libraryVars
  <2>2. SessionInv'
    BY <1>0, <2>1, SessionKept
  <2> QED BY <2>1, <2>2
          DEF LibraryInv, CallTypes, OneNewline, AtMostOne, Made, Waiting, LinesRead
<1> QED BY <1>1, <1>2, <1>3, <1>4, <1>5, <1>6, <1>7, <1>8, <1>9, <1>10
        DEF LibraryNext, LibraryStep

\* There is no library at the start.
LEMMA LibraryBegins == LibraryInit => LibraryInv
<1> SUFFICES ASSUME LibraryInit PROVE LibraryInv
  OBVIOUS
<1>1. lib = "none" /\ call = NONE /\ results = <<>> /\ SessionInit
  BY DEF LibraryInit
<1>2. results \in Seq([line : Seq(Data), outcome : Opt(Replies)])
  BY <1>1
<1> QED BY <1>1, <1>2, SessionBegins DEF LibraryInv, CallTypes, Opt

\* The library never has two responses under way, whatever lines it writes and whatever
\* the device, the network and the clients before it do, so its death in a call cannot
\* leave the device blocked in a write.
THEOREM OneResponseOutstanding == LibrarySpec => []OneOutstanding
<1>1. LibraryInv => OneOutstanding
  <2> SUFFICES ASSUME LibraryInv, lib = "live" PROVE OneOutstanding
    BY DEF OneOutstanding
  <2>1. Made <= LinesRead + (IF Waiting THEN 1 ELSE 0) /\ Made \in Nat /\ LinesRead \in Nat
    BY SizeTypes, LinesReadType DEF LibraryInv, AtMostOne
  <2>2. Waiting => call # NONE
    BY DEF Waiting
  <2>3. Made <= LinesRead + (IF call = NONE THEN 0 ELSE 1)
    BY <2>1, <2>2
  <2> QED BY <2>3 DEF OneOutstanding, Made
<1> QED BY <1>1, LibraryBegins, LibraryKept, PTL DEF LibrarySpec

--------------------------------------------------------------------------------
(* The client library: each response to its call *)

\* The bytes of calls are what their recursion makes of them.
LEMMA WireSteps ==
    /\ Wire[<<>>] = <<>>
    /\ \A lines \in Seq(Seq(Byte)) : Wire[lines] \in Seq(Byte)
    /\ \A lines \in Seq(Seq(Byte)), l \in Seq(Byte) : Wire[Append(lines, l)] = Wire[lines] \o Append(l, NL)
<1> DEFINE S == Seq(Byte)
           Op == [p \in S \X S |-> p[1] \o Append(p[2], NL)]
           Body(f) == [s \in Seq(S) |-> IF s = <<>> THEN <<>> ELSE f[Front(s)] \o Append(Last(s), NL)]
<1>1. NL \in Byte /\ <<>> \in S
  BY SessionConstants
<1>2. Op \in [S \X S -> S]
  <2> SUFFICES ASSUME NEW p \in S \X S PROVE p[1] \o Append(p[2], NL) \in S
    OBVIOUS
  <2> QED BY <1>1
<1>3. PICK f : Solves(f, S, S, <<>>, Op)
  <2> HIDE DEF Op, S
  <2>1. Recursion(S, S, <<>>, Op)
    BY <1>1, <1>2 DEF Recursion
  <2> QED BY <2>1, SeqRecursion, Zenon
<1>4. f = Body(f)
  <2>1. f \in [Seq(S) -> S] /\ \A s \in Seq(S) : f[s] = IF s = <<>> THEN <<>> ELSE Op[<<f[Front(s)], Last(s)>>]
    BY <1>3 DEF Solves
  <2>2. ASSUME NEW s \in Seq(S), s # <<>>
        PROVE  Op[<<f[Front(s)], Last(s)>>] = f[Front(s)] \o Append(Last(s), NL)
    <3>1. f[Front(s)] \in S /\ Last(s) \in S
      <4> HIDE DEF S, Op
      <4> QED BY <2>1, <2>2, FrontLast
    <3> QED BY <3>1
  <2> HIDE DEF Op, S
  <2>3. \A s \in Seq(S) : f[s] = IF s = <<>> THEN <<>> ELSE f[Front(s)] \o Append(Last(s), NL)
    BY <2>1, <2>2, Zenon
  <2> QED BY <2>1, <2>3
<1>5. Wire = Body(Wire)
  <2>1. \E g : g = Body(g)
    BY <1>4
  <2> QED BY <2>1, Zenon DEF Wire
<1>6. Wire[<<>>] = <<>>
  <2> HIDE DEF S
  <2> QED BY <1>5
<1>7. ASSUME NEW lines \in Seq(S), NEW l \in S
      PROVE  Wire[Append(lines, l)] = Wire[lines] \o Append(l, NL)
  <2> HIDE DEF Body, S
  <2>1. /\ Append(lines, l) \in Seq(S) /\ Append(lines, l) # <<>>
        /\ Front(Append(lines, l)) = lines /\ Last(Append(lines, l)) = l
    BY AppendFrontLast, Zenon
  <2>2. Body(Wire)[Append(lines, l)] = Wire[lines] \o Append(l, NL)
    BY <2>1, Zenon DEF Body
  <2> QED BY <1>5, <2>2
<1>8. \A lines \in Seq(S) : Wire[lines] \in S
  <2>1. \A lines \in Seq(S), l \in S : Wire[lines] \in S => Wire[Append(lines, l)] \in S
    <3> TAKE lines \in Seq(S), l \in S
    <3> HAVE Wire[lines] \in S
    <3>1. Wire[lines] \o Append(l, NL) \in S
      BY <1>1
    <3> QED BY <1>7, <3>1
  <2> HIDE DEF Body, S
  <2> QED BY <1>1, <1>6, <2>1, SeqRecursionTyped
<1> QED BY <1>6, <1>7, <1>8

\* Bytes other than newlines are answered by nothing.
LEMMA LineUnanswered ==
    ASSUME NEW s \in Seq(Byte), NEW l \in Seq(Data)
    PROVE  Len(Reference[s \o l].answers) = Len(Reference[s].answers)
<1> DEFINE T == {u \in Seq(Data) : Len(Reference[s \o u].answers) = Len(Reference[s].answers)}
<1>1. <<>> \in T
  OBVIOUS
<1>2. ASSUME NEW u \in Seq(Data), NEW x \in Data, u \in T PROVE Append(u, x) \in T
  <2>1. /\ u \in Seq(Byte) /\ x \in Byte /\ x # NL
    BY DEF Data
  <2>2. s \o Append(u, x) = Append(s \o u, x) /\ s \o u \in Seq(Byte) /\ Append(u, x) \in Seq(Data)
    BY <2>1
  <2>3. Reference[s \o u] \in RefType /\ Reference[s \o Append(u, x)] = Reference1(Reference[s \o u], x)
    BY <2>1, <2>2, ReferenceSteps
  <2>4. Len(Reference[s \o Append(u, x)].answers) = Len(Reference[s \o u].answers) + 0
    <3> DEFINE acc == Reference[s \o u]
    <3> HIDE DEF acc
    <3>1. acc \in RefType /\ Reference[s \o Append(u, x)] = Reference1(acc, x)
      BY <2>3 DEF acc
    <3>2. Len(Reference1(acc, x).answers) = Len(acc.answers) + 0
      BY <2>1, <3>1, AnswersGrow
    <3> QED BY <3>1, <3>2 DEF acc
  <2>5. Len(Reference[s \o u].answers) \in Nat
    <3>1. Reference[s \o u].answers \in Seq(Replies)
      BY <2>3 DEF RefType
    <3> QED BY <3>1
  <2>6. Len(Reference[s \o u].answers) = Len(Reference[s].answers)
    BY <1>2
  <2>7. Len(Reference[s \o Append(u, x)].answers) = Len(Reference[s].answers)
    BY <2>4, <2>5, <2>6
  <2> QED BY <2>2, <2>7
<1>3. Seq(Data) \subseteq T
  <2> HIDE DEF T
  <2> QED BY <1>1, <1>2, SeqInduction
<1> QED BY <1>3

\* Each call's line has one answer.
LEMMA WireAnswers ==
    ASSUME NEW lines \in Seq(Seq(Data))
    PROVE  Len(Reference[Wire[lines]].answers) = Len(lines)
<1> DEFINE T == {ls \in Seq(Seq(Data)) : Len(Reference[Wire[ls]].answers) = Len(ls)}
<1>1. <<>> \in T
  BY WireSteps, ReferenceSteps DEF NoBytes
<1>2. ASSUME NEW ls \in Seq(Seq(Data)), NEW l \in Seq(Data), ls \in T PROVE Append(ls, l) \in T
  <2>1. ls \in Seq(Seq(Byte)) /\ l \in Seq(Byte) /\ NL \in Byte
    BY SessionConstants DEF Data
  <2>2. Wire[ls] \in Seq(Byte) /\ Wire[Append(ls, l)] = Wire[ls] \o Append(l, NL)
    BY <2>1, WireSteps
  <2>3. Wire[ls] \o Append(l, NL) = Append(Wire[ls] \o l, NL) /\ Wire[ls] \o l \in Seq(Byte)
    <3>1. \A w \in Seq(Byte) : w \o Append(l, NL) = Append(w \o l, NL) /\ w \o l \in Seq(Byte)
      BY <2>1
    <3> QED BY <2>2, <3>1
  <2>4. /\ Reference[Wire[ls] \o l] \in RefType
        /\ Reference[Wire[Append(ls, l)]] = Reference1(Reference[Wire[ls] \o l], NL)
    BY <2>1, <2>2, <2>3, ReferenceSteps
  <2>5. Len(Reference[Wire[Append(ls, l)]].answers) = Len(Reference[Wire[ls] \o l].answers) + 1
    BY <2>1, <2>4, AnswersGrow
  <2>6. Len(Reference[Wire[ls] \o l].answers) = Len(Reference[Wire[ls]].answers)
    BY <2>2, LineUnanswered
  <2>7. Len(Append(ls, l)) = Len(ls) + 1 /\ Append(ls, l) \in Seq(Seq(Data))
    OBVIOUS
  <2> QED BY <1>2, <2>5, <2>6, <2>7
<1>3. Seq(Seq(Data)) \subseteq T
  <2> HIDE DEF T
  <2> QED BY <1>1, <1>2, SeqInduction
<1> QED BY <1>3

\* The bytes of the call under way that were sent.
Begun == IF call = NONE THEN <<>> ELSE SubSeq(Append(call.line, NL), 1, call.sent)

\* Behind CallsPaired: the stream of a live library is the lines of its finished calls
\* and the part of the next that was written, and what it has read begins what the
\* reference sends for that stream.
PairInv ==
    /\ call # NONE => call.sent <= Len(call.line) + 1
    /\ lib = "broken" => client = "none"
    /\ lib # "none" => stream \in Seq(Byte) /\ Begins(Answers, Reference[stream].sent)
    /\ lib = "live" \/ Waiting =>
          /\ \A n \in 1..Len(results) : results[n].outcome # FAILED
          /\ stream = CallLines(Len(results)) \o Begun
    /\ CallsPaired

\* When no call failed, a line was read for each.
LEMMA AllRead ==
    ASSUME CallTypes, \A n \in 1..Len(results) : results[n].outcome # FAILED
    PROVE  LinesRead = Len(results)
<1>1. Len(results) \in Nat
  BY DEF CallTypes
<1>2. {n \in 1..Len(results) : results[n].outcome # FAILED} = 1..Len(results)
  OBVIOUS
<1>3. Cardinality(1..Len(results)) = Len(results)
  <2>1. Cardinality(1..Len(results)) = IF 1 > Len(results) THEN 0 ELSE Len(results) - 1 + 1
    BY <1>1, FS_Interval
  <2> QED BY <1>1, <2>1
<1> QED BY <1>2, <1>3 DEF LinesRead

\* The answers made are replies.
LEMMA AnswersTyped ==
    ASSUME SessionInv
    PROVE  Answers \in Seq(Replies)
<1>1. received \in Seq(Replies) /\ tx \in Seq(Replies) /\ (pc = "write" => out \in Replies)
  BY DEF SessionInv, SocketInv, Opt
<1> QED BY <1>1 DEF Answers

\* The bytes of calls are bytes.
LEMMA LinesTyped ==
    ASSUME CallTypes, NEW n \in 0..Len(results)
    PROVE  /\ [i \in 1..n |-> results[i].line] \in Seq(Seq(Data))
           /\ Len([i \in 1..n |-> results[i].line]) = n
           /\ CallLines(n) \in Seq(Byte)
<1>1. results \in Seq([line : Seq(Data), outcome : Opt(Replies)]) /\ n \in Nat
  BY DEF CallTypes
<1>2. \A i \in 1..n : results[i].line \in Seq(Data)
  <2> TAKE i \in 1..n
  <2>1. i \in 1..Len(results) /\ Len(results) \in Nat
    BY <1>1
  <2>2. results[i] \in [line : Seq(Data), outcome : Opt(Replies)]
    <3> DEFINE R == [line : Seq(Data), outcome : Opt(Replies)]
    <3> HIDE DEF R
    <3>1. results \in Seq(R)
      BY <1>1 DEF R
    <3>2. results[i] \in R
      BY <2>1, <3>1, ElementOfSeq
    <3> QED BY <3>2 DEF R
  <2> QED BY <2>2
<1>3. [i \in 1..n |-> results[i].line] \in Seq(Seq(Data)) /\ Len([i \in 1..n |-> results[i].line]) = n
  BY <1>1, <1>2
<1>4. [i \in 1..n |-> results[i].line] \in Seq(Seq(Byte))
  BY <1>1, <1>2 DEF Data
<1> QED BY <1>3, <1>4, WireSteps DEF CallLines

\* The server sends no bytes and reads no responses.
LEMMA HistoryKept == ServerStep => UNCHANGED <<stream, received>>
  BY DEF ServerStep, ReadByte, EndOfStream, IdleTimeout, WriteFrame, WriteError, Reboot, Abort

\* What the server and the network do to the answers: none is made that the reference
\* does not make, and what an abort leaves are the first of them.
LEMMA AnswersKept ==
    ASSUME SessionInv, SessionInv', FollowsReference', ServerStep \/ Deliver, client # "reset",
           stream \in Seq(Byte), Begins(Answers, Reference[stream].sent)
    PROVE  stream' = stream /\ Begins(Answers', Reference[stream].sent)
<1>1. /\ stream' = stream /\ client' # "reset"
      /\ received \in Seq(Replies) /\ tx \in Seq(Replies) /\ (pc = "write" => out \in Replies)
  BY DEF ServerStep, Deliver, ReadByte, EndOfStream, IdleTimeout, WriteFrame, WriteError, Reboot, Abort,
         SessionInv, SocketInv, Opt
<1>2. Answers \in Seq(Replies) /\ Reference[stream].sent \in Seq(Replies)
  <2>1. Reference[stream] \in RefType
    BY ReferenceSteps
  <2>2. CASE pc = "write"
    BY <1>1, <2>1, <2>2 DEF Answers, RefType
  <2>3. CASE pc # "write"
    BY <1>1, <2>1, <2>3 DEF Answers, RefType
  <2> QED BY <2>2, <2>3
<1>3. CASE Connected'
  <2>1. /\ Answers' = Reference[Consumed'].sent /\ Len(rx') <= Len(stream)
        /\ Consumed' = SubSeq(stream, 1, Len(stream) - Len(rx'))
    BY <1>1, <1>3 DEF FollowsReference, Consumed
  <2>2. rx' \in Seq(Byte)
    BY DEF SessionInv, SocketInv
  <2> DEFINE n == Len(stream) - Len(rx')
  <2>3. n \in 0..Len(stream)
    BY <2>1, <2>2
  <2> HIDE DEF n
  <2>4. /\ SubSeq(stream, 1, n) \in Seq(Byte) /\ SubSeq(stream, n + 1, Len(stream)) \in Seq(Byte)
        /\ stream = SubSeq(stream, 1, n) \o SubSeq(stream, n + 1, Len(stream))
    BY <2>3, Cut
  <2>5. Begins(Reference[SubSeq(stream, 1, n)].sent, Reference[stream].sent)
    BY <2>4, SentGrows
  <2> QED BY <1>1, <2>1, <2>5 DEF n
<1>4. CASE Deliver
  <2>1. /\ tx # <<>> /\ received' = Append(received, Head(tx)) /\ tx' = Tail(tx)
        /\ UNCHANGED <<pc, out>>
    BY <1>4 DEF Deliver
  <2>2. received' \o tx' = received \o tx
    BY <1>1, <2>1
  <2> QED BY <1>1, <2>1, <2>2 DEF Answers
<1>5. CASE ServerStep /\ ~Connected'
  <2>1. received' = received /\ (tx' = <<>> \/ (tx' = tx /\ pc = "read")) /\ pc' # "write"
    <3>1. pc' # "write" /\ pc' \notin {"read", "reboot"}
      BY <1>5 DEF Connected
    <3>2. CASE ReadByte
      BY <3>1, <3>2 DEF ReadByte
    <3>3. CASE WriteFrame
      BY <3>1, <3>3 DEF WriteFrame, NextPc
    <3>4. CASE EndOfStream \/ IdleTimeout \/ WriteError \/ Reboot
      <4>1. CASE Abort
        BY <1>5, <3>1, <4>1, HistoryKept DEF Abort
      <4>2. CASE Reboot
        BY <1>5, <3>1, <4>2, HistoryKept DEF Reboot
      <4>3. CASE WriteError /\ ~Abort
        BY <3>1, <4>3 DEF WriteError
      <4> QED BY <3>4, <4>1, <4>2, <4>3 DEF EndOfStream, IdleTimeout
    <3> QED BY <1>5, <3>2, <3>3, <3>4 DEF ServerStep
  <2>2. Answers' = received' \o tx'
    BY <1>1, <2>1 DEF Answers
  <2>3. Answers' \in Seq(Replies) /\ Begins(Answers', Answers)
    <3>1. CASE tx' = <<>>
      BY <1>1, <2>1, <2>2, <3>1 DEF Answers, Begins
    <3>2. CASE tx' = tx /\ pc = "read"
      <4>1. Answers' = Answers
        BY <1>1, <2>1, <2>2, <3>2 DEF Answers
      <4> QED BY <1>2, <4>1 DEF Begins
    <3> QED BY <2>1, <3>1, <3>2
  <2> QED BY <1>1, <1>2, <2>3, BeginsTransitive
<1> QED BY <1>3, <1>4, <1>5

\* The results of earlier calls do not change.
LEMMA PairsUnchanged ==
    ASSUME CallsPaired, UNCHANGED results
    PROVE  CallsPaired'
  BY DEF CallsPaired, CallLines

\* The byte that SendByte sends is one of the line's, or its newline.
LEMMA ByteSent ==
    ASSUME CallTypes, call # NONE, call.sent <= Len(call.line)
    PROVE  /\ Append(call.line, NL) \in Seq(Byte) /\ call.sent \in Nat
           /\ Len(Append(call.line, NL)) = Len(call.line) + 1 /\ Len(call.line) \in Nat
           /\ Append(call.line, NL)[call.sent + 1] \in Byte
<1>1. call.line \in Seq(Data) /\ call.sent \in Nat
  BY CallConstants DEF CallTypes, Opt
<1>2. Append(call.line, NL) \in Seq(Byte) /\ Len(Append(call.line, NL)) = Len(call.line) + 1
  BY <1>1, SessionConstants DEF Data
<1>3. call.sent + 1 \in 1..Len(Append(call.line, NL))
  BY <1>1, <1>2
<1> QED BY <1>1, <1>2, <1>3

\* The library is one of the clients that TcpSession allows.
LEMMA LibrarySteps ==
    ASSUME LibraryInv, [LibraryNext]_allVars
    PROVE  [SessionNext]_vars
<1>1. CASE SendByte
  <2>1. PICK b \in Byte : ClientSend(b)
    BY <1>1, ByteSent DEF SendByte, LibraryInv
  <2> QED BY <2>1 DEF SessionNext, ClientStep
<1>2. CASE Connect
  BY <1>2 DEF Connect, SessionNext
<1>3. CASE (\E f \in Calls : Call(f)) \/ ReadLine \/ FailCall
  BY <1>3 DEF Call, ReadLine, FailCall
<1>4. CASE Drop
  BY <1>4 DEF Drop, SessionNext, ClientStep
<1>5. CASE Device \/ Other \/ Deliver
  BY <1>5 DEF Device, Other, SessionNext
<1>6. CASE UNCHANGED allVars
  BY <1>6 DEF allVars
<1> QED BY <1>1, <1>2, <1>3, <1>4, <1>5, <1>6 DEF LibraryNext, LibraryStep

\* A byte of the call's line.
LEMMA SendPairs ==
    ASSUME LibraryInv, PairInv, SendByte
    PROVE  PairInv'
<1> DEFINE whole == Append(call.line, NL)
           b == whole[call.sent + 1]
<1>1. /\ lib = "live" /\ call # NONE /\ call.sent <= Len(call.line) /\ ClientSend(b)
      /\ call' = [call EXCEPT !.sent = @ + 1] /\ UNCHANGED <<lib, results>>
  BY DEF SendByte
<1>2. /\ whole \in Seq(Byte) /\ call.sent \in Nat /\ b \in Byte
      /\ Len(whole) = Len(call.line) + 1 /\ Len(call.line) \in Nat
  BY <1>1, ByteSent DEF LibraryInv
<1>3. /\ call' # NONE /\ call'.line = call.line /\ call'.sent = call.sent + 1
  <2>1. call \in [line : Calls, sent : Nat]
    BY <1>1 DEF LibraryInv, CallTypes, Opt
  <2>2. call' \in [line : Calls, sent : Nat] /\ call'.line = call.line /\ call'.sent = call.sent + 1
    BY <1>1, <2>1
  <2> QED BY <2>2, CallConstants
<1>4. stream' = Append(stream, b) /\ UNCHANGED <<pc, tx, out, received>>
  BY <1>1 DEF ClientSend
<1>5. stream \in Seq(Byte) /\ Begins(Answers, Reference[stream].sent)
  BY <1>1 DEF PairInv
<1>6. Begun' = Append(Begun, b) /\ Begun \in Seq(Byte)
  <2>1. Begun = SubSeq(whole, 1, call.sent) /\ Begun' = SubSeq(whole, 1, call.sent + 1)
    BY <1>1, <1>3 DEF Begun
  <2>2. call.sent \in 0..Len(whole) /\ call.sent + 1 \in 1..Len(whole)
    BY <1>1, <1>2
  <2> HIDE DEF whole
  <2> QED BY <1>2, <2>1, <2>2, PrefixGrows DEF b
<1> HIDE DEF b
<1>7. stream' = CallLines(Len(results)) \o Begun'
  <2>1. stream = CallLines(Len(results)) \o Begun
    BY <1>1 DEF PairInv
  <2>2. CallLines(Len(results)) \in Seq(Byte)
    <3>1. Len(results) \in 0..Len(results)
      BY DEF LibraryInv, CallTypes
    <3> QED BY <3>1, LinesTyped DEF LibraryInv
  <2>3. Append(CallLines(Len(results)) \o Begun, b) = CallLines(Len(results)) \o Append(Begun, b)
    <3>1. b \in Byte
      BY <1>2
    <3>2. Begun \in Seq(Byte)
      BY <1>6
    <3> QED BY <2>2, <3>1, <3>2
  <2> QED BY <1>4, <1>6, <2>1, <2>2, <2>3
<1>8. stream' \in Seq(Byte) /\ Begins(Answers', Reference[stream'].sent)
  <2>1. stream' \in Seq(Byte) /\ Answers' = Answers
    BY <1>2, <1>4, <1>5 DEF Answers
  <2>2. /\ Reference[stream] \in RefType /\ Reference[stream'] \in RefType
        /\ Reference[stream'] = Reference1(Reference[stream], b)
    BY <1>2, <1>4, <1>5, <2>1, ReferenceSteps
  <2>3. Begins(Reference[stream].sent, Reference[stream'].sent)
    BY <1>2, <2>2, AnswersGrow
  <2>4. Reference[stream].sent \in Seq(Replies) /\ Reference[stream'].sent \in Seq(Replies)
    BY <2>2 DEF RefType
  <2>5. Answers \in Seq(Replies)
    BY AnswersTyped DEF LibraryInv
  <2> QED BY <1>5, <2>1, <2>3, <2>4, <2>5, BeginsTransitive
<1>9. CallsPaired'
  BY <1>1, PairsUnchanged DEF PairInv
<1>10. call'.sent <= Len(call'.line) + 1
  BY <1>1, <1>2, <1>3
<1>11. CallLines(Len(results))' = CallLines(Len(results))
  BY <1>1 DEF CallLines
<1> QED BY <1>1, <1>7, <1>8, <1>9, <1>10, <1>11 DEF PairInv

\* The response read is the reference's to the line that was written.
LEMMA ReadPairs ==
    ASSUME LibraryInv, PairInv, ReadLine
    PROVE  PairInv'
<1> DEFINE n == Len(results)
           r == [line |-> call.line, outcome |-> received[LinesRead + 1]]
           lines == [i \in 1..n |-> results[i].line]
           more == [i \in 1..n + 1 |-> results'[i].line]
           acc == Reference[stream]
<1>1. /\ lib # "none" /\ call # NONE /\ call.sent > Len(call.line) /\ Len(received) > LinesRead
      /\ results' = Append(results, r) /\ call' = NONE /\ UNCHANGED <<vars, lib>>
  BY DEF ReadLine, Return, Unread
<1>2. UNCHANGED <<pc, client, rx, tx, out, stream, received, lib>>
  BY <1>1 DEF vars, sessionVars
<1>3. /\ n \in Nat /\ results \in Seq([line : Seq(Data), outcome : Opt(Replies)])
      /\ call.line \in Seq(Data) /\ call.sent \in Nat /\ call.sent <= Len(call.line) + 1
      /\ received \in Seq(Replies) /\ Waiting
  BY <1>1, CallConstants DEF LibraryInv, PairInv, CallTypes, Opt, SessionInv, SocketInv, Waiting
<1>4. /\ \A m \in 1..n : results[m].outcome # FAILED
      /\ stream = CallLines(n) \o Begun
      /\ stream \in Seq(Byte) /\ Begins(Answers, acc.sent)
  BY <1>1, <1>3 DEF PairInv
<1>5. LinesRead = n
  BY <1>4, AllRead DEF LibraryInv
<1>6. Begun = Append(call.line, NL)
  <2>1. call.sent = Len(call.line) + 1 /\ Len(call.line) \in Nat
    BY <1>1, <1>3
  <2>2. Append(call.line, NL) \in Seq(Byte) /\ Len(Append(call.line, NL)) = Len(call.line) + 1
    BY <1>3, SessionConstants DEF Data
  <2>3. SubSeq(Append(call.line, NL), 1, Len(Append(call.line, NL))) = Append(call.line, NL)
    BY <2>2, SubSeqFull
  <2> QED BY <1>1, <2>1, <2>2, <2>3 DEF Begun
<1>7. /\ lines \in Seq(Seq(Data)) /\ Len(lines) = n /\ CallLines(n) = Wire[lines]
  <2>1. n \in 0..n
    BY <1>3
  <2> QED BY <2>1, LinesTyped DEF LibraryInv, CallLines
<1>8. /\ n + 1 \in 1..Len(received) /\ received[n + 1] \in Replies
      /\ results'[n + 1] = [line |-> call.line, outcome |-> received[n + 1]]
      /\ Len(results') = n + 1 /\ \A i \in 1..n : results'[i] = results[i]
  BY <1>1, <1>3, <1>5
<1>9. more = Append(lines, call.line)
  <2>1. Len(Append(lines, call.line)) = n + 1
    BY <1>3, <1>7
  <2>2. \A i \in 1..n + 1 : Append(lines, call.line)[i] = results'[i].line
    BY <1>3, <1>7, <1>8
  <2>3. Append(lines, call.line) = [i \in 1..Len(Append(lines, call.line)) |-> Append(lines, call.line)[i]]
    BY <1>3, <1>7
  <2> HIDE DEF lines
  <2> QED BY <2>1, <2>2, <2>3
<1>10. stream = Wire[more] /\ more \in Seq(Seq(Data)) /\ Len(more) = n + 1
  <2> HIDE DEF lines, more
  <2>1. lines \in Seq(Seq(Byte)) /\ call.line \in Seq(Byte)
    BY <1>3, <1>7 DEF Data
  <2>2. Wire[more] = Wire[lines] \o Append(call.line, NL)
    BY <1>9, <2>1, WireSteps
  <2>3. more \in Seq(Seq(Data)) /\ Len(more) = n + 1
    BY <1>3, <1>7, <1>9
  <2> QED BY <1>4, <1>6, <1>7, <2>2, <2>3
<1>11. received[n + 1] = acc.answers[n + 1]
  <2> HIDE DEF lines, more
  <2>1. Len(acc.answers) = n + 1
    BY <1>10, WireAnswers
  <2>2. acc \in RefType /\ Len(acc.sent) <= Len(acc.answers)
        /\ (Len(acc.sent) = Len(acc.answers) => acc.sent = acc.answers)
    BY <1>4, ReferenceSteps, SentAreAnswers
  <2> HIDE DEF acc
  <2>3. /\ tx \in Seq(Replies) /\ (pc = "write" => out \in Replies)
    BY DEF LibraryInv, SessionInv, SocketInv, Opt
  <2>4. Len(Answers) >= Len(received) /\ Answers[n + 1] = received[n + 1] /\ Len(Answers) \in Nat
    <3>1. CASE pc = "write"
      BY <1>3, <1>8, <2>3, <3>1 DEF Answers
    <3>2. CASE pc # "write"
      BY <1>3, <1>8, <2>3, <3>2 DEF Answers
    <3> QED BY <3>1, <3>2
  <2>5. acc.sent \in Seq(Replies)
    BY <2>2 DEF RefType
  <2>6. /\ Len(acc.sent) = n + 1 /\ Answers[n + 1] = acc.sent[n + 1]
    BY <1>3, <1>4, <1>8, <2>1, <2>2, <2>4, <2>5 DEF Begins
  <2> QED BY <2>1, <2>2, <2>4, <2>6
<1>12. CallsPaired'
  <2> SUFFICES ASSUME NEW m \in 1..n + 1, results'[m].outcome # FAILED
               PROVE  results'[m].outcome = Reference[CallLines(m)'].answers[m]
    BY <1>8 DEF CallsPaired
  <2>1. CASE m = n + 1
    <3>1. CallLines(m)' = Wire[more]
      BY <2>1 DEF CallLines
    <3>2. results'[m].outcome = received[n + 1]
      BY <1>8, <2>1
    <3>3. Reference[CallLines(m)'] = acc
      BY <1>10, <3>1
    <3> HIDE DEF acc
    <3> QED BY <1>11, <2>1, <3>2, <3>3
  <2>2. CASE m \in 1..n
    <3>1. [i \in 1..m |-> results'[i].line] = [i \in 1..m |-> results[i].line]
      <4>1. \A i \in 1..m : i \in 1..n
        BY <1>3, <2>2
      <4>2. \A i \in 1..m : results'[i].line = results[i].line
        BY <1>8, <4>1
      <4> QED BY <4>2
    <3>2. CallLines(m)' = CallLines(m)
      BY <3>1 DEF CallLines
    <3>3. results[m].outcome # FAILED /\ results'[m] = results[m]
      BY <1>4, <1>8, <2>2
    <3>4. results[m].outcome = Reference[CallLines(m)].answers[m]
      BY <2>2, <3>3 DEF PairInv, CallsPaired
    <3> QED BY <3>2, <3>3, <3>4
  <2> QED BY <1>3, <2>1, <2>2
<1>13. /\ \A m \in 1..Len(results') : results'[m].outcome # FAILED
       /\ stream' = CallLines(Len(results))' \o Begun'
  <2>1. \A m \in 1..n + 1 : results'[m].outcome # FAILED
    <3>1. received[n + 1] # FAILED
      BY <1>8, SessionConstants DEF FAILED
    <3>2. results'[n + 1].outcome # FAILED
      BY <1>8, <3>1
    <3>3. \A m \in 1..n : results'[m].outcome # FAILED
      BY <1>4, <1>8
    <3>4. \A m \in 1..n + 1 : m = n + 1 \/ m \in 1..n
      BY <1>3
    <3> QED BY <3>2, <3>3, <3>4, Zenon
  <2>2. CallLines(Len(results))' = Wire[more]
    BY <1>8 DEF CallLines
  <2>3. stream \o <<>> = stream
    BY <1>4
  <2>4. Begun' = <<>>
    BY <1>1 DEF Begun
  <2> QED BY <1>2, <1>8, <1>10, <2>1, <2>2, <2>3, <2>4
<1>14. Answers' = Answers
  BY <1>2 DEF Answers
<1>15. stream' \in Seq(Byte) /\ Begins(Answers', Reference[stream'].sent)
  BY <1>2, <1>4, <1>14
<1> QED BY <1>1, <1>2, <1>12, <1>13, <1>15 DEF PairInv

\* What the library leaves alone while its connection ends or answers arrive.
LEMMA DevicePairs ==
    ASSUME LibraryInv, PairInv, SessionInv', FollowsReference', Device \/ (Deliver /\ UNCHANGED libraryVars)
    PROVE  PairInv'
<1>1. /\ ServerStep \/ Deliver
      /\ UNCHANGED <<call, results>>
      /\ lib' = lib \/ (lib = "live" /\ lib' = "broken" /\ client' = "none")
  BY DEF Device, libraryVars
<1>2. lib \in {"none", "live", "broken"} /\ (lib = "live" => client = "open")
      /\ (lib = "none" => call = NONE)
  BY DEF LibraryInv, CallTypes
<1>3. lib = "broken" => client = "none"
  BY DEF PairInv
<1>4. lib' = "broken" => client' = "none"
  <2>1. client = "none" => client' = "none"
    <3>1. CASE ServerStep
      <4>1. client' \in {client, "none"}
        BY <3>1 DEF ServerStep, ReadByte, EndOfStream, IdleTimeout, WriteFrame, WriteError, Reboot, Abort
      <4> QED BY <4>1
    <3>2. CASE Deliver
      BY <3>2 DEF Deliver
    <3> QED BY <1>1, <3>1, <3>2
  <2> QED BY <1>1, <1>3, <2>1
<1>5. ASSUME lib # "none"
      PROVE  stream' = stream /\ stream \in Seq(Byte) /\ Begins(Answers', Reference[stream].sent)
  <2>1. client # "reset"
    BY <1>2, <1>3, <1>5
  <2>2. stream \in Seq(Byte) /\ Begins(Answers, Reference[stream].sent)
    BY <1>5 DEF PairInv
  <2>3. SessionInv
    BY DEF LibraryInv
  <2> QED BY <1>1, <2>1, <2>2, <2>3, AnswersKept
<1>6. CallsPaired'
  BY <1>1, PairsUnchanged DEF PairInv
<1>7. ASSUME lib' = "live" \/ Waiting'
      PROVE  /\ \A n \in 1..Len(results') : results'[n].outcome # FAILED
             /\ stream' = (CallLines(Len(results)) \o Begun)'
  <2>1. lib = "live" \/ Waiting
    BY <1>1, <1>7 DEF Waiting
  <2>2. lib # "none"
    BY <1>2, <2>1 DEF Waiting
  <2>3. (CallLines(Len(results)) \o Begun)' = CallLines(Len(results)) \o Begun
    BY <1>1 DEF CallLines, Begun
  <2> QED BY <1>1, <1>5, <2>1, <2>2, <2>3 DEF PairInv
<1>8. call' # NONE => call'.sent <= Len(call'.line) + 1
  BY <1>1 DEF PairInv
<1>9. lib' # "none" => stream' \in Seq(Byte) /\ Begins(Answers', Reference[stream'].sent)
  BY <1>1, <1>5
<1> QED BY <1>4, <1>6, <1>7, <1>8, <1>9 DEF PairInv

\* A call begun.
LEMMA CallPairs ==
    ASSUME LibraryInv, PairInv, NEW f \in Calls, Call(f)
    PROVE  PairInv'
<1>1. /\ lib # "none" /\ call = NONE /\ call' = [line |-> f, sent |-> 0]
      /\ UNCHANGED <<pc, client, rx, tx, out, stream, received, lib, results>>
  BY DEF Call, vars, sessionVars
<1>2. f \in Seq(Data) /\ Len(f) \in Nat /\ call' # NONE
  BY <1>1, CallConstants
<1>3. call'.sent = 0 /\ call'.line = f
  BY <1>1
<1>4. ~Waiting' /\ call'.sent <= Len(call'.line) + 1
  BY <1>2, <1>3 DEF Waiting
<1>5. Begun' = <<>> /\ Begun = <<>>
  <2>1. SubSeq(Append(f, NL), 1, 0) = <<>>
    OBVIOUS
  <2> QED BY <1>1, <1>2, <1>3, <2>1 DEF Begun
<1>6. Answers' = Answers
  BY <1>1 DEF Answers
<1>7. CallsPaired' /\ CallLines(Len(results))' = CallLines(Len(results))
  BY <1>1, PairsUnchanged DEF PairInv, CallLines
<1> QED BY <1>1, <1>4, <1>5, <1>6, <1>7 DEF PairInv

\* A call that failed has no response.
LEMMA FailPairs ==
    ASSUME LibraryInv, PairInv, FailCall
    PROVE  PairInv'
<1> DEFINE n == Len(results)
<1>1. /\ lib = "broken" /\ call # NONE /\ call' = NONE
      /\ results' = Append(results, [line |-> call.line, outcome |-> FAILED])
      /\ UNCHANGED <<pc, client, rx, tx, out, stream, received, lib>>
  BY DEF FailCall, Return, vars, sessionVars
<1>2. results \in Seq([line : Seq(Data), outcome : Opt(Replies)]) /\ n \in Nat
  BY DEF LibraryInv, CallTypes
<1>3. Len(results') = n + 1 /\ results'[n + 1].outcome = FAILED /\ \A i \in 1..n : results'[i] = results[i]
  BY <1>1, <1>2
<1>4. CallsPaired'
  <2> SUFFICES ASSUME NEW m \in 1..n + 1, results'[m].outcome # FAILED
               PROVE  results'[m].outcome = Reference[CallLines(m)'].answers[m]
    BY <1>3 DEF CallsPaired
  <2>1. m \in 1..n
    <3>1. m = n + 1 \/ m \in 1..n
      BY <1>2
    <3> QED BY <1>3, <3>1
  <2>2. [i \in 1..m |-> results'[i].line] = [i \in 1..m |-> results[i].line]
    <3>1. \A i \in 1..m : i \in 1..n
      BY <1>2, <2>1
    <3>2. \A i \in 1..m : results'[i].line = results[i].line
      BY <1>3, <3>1
    <3> QED BY <3>2
  <2>3. CallLines(m)' = CallLines(m) /\ results'[m] = results[m]
    BY <1>3, <2>1, <2>2 DEF CallLines
  <2>4. results[m].outcome = Reference[CallLines(m)].answers[m]
    BY <2>1, <2>3 DEF PairInv, CallsPaired
  <2> QED BY <2>3, <2>4
<1>5. Answers' = Answers /\ ~Waiting'
  BY <1>1 DEF Answers, Waiting
<1> QED BY <1>1, <1>4, <1>5 DEF PairInv

\* No connection of the library.
LEMMA NoPairs ==
    ASSUME lib' = "none", call' = NONE, results' = <<>>
    PROVE  PairInv'
<1>1. Len(results') = 0 /\ ~Waiting'
  BY DEF Waiting
<1> QED BY <1>1 DEF PairInv, CallsPaired

\* A new one.
LEMMA ConnectPairs ==
    ASSUME LibraryInv, Connect
    PROVE  PairInv'
<1>1. /\ lib' = "live" /\ pc' = "read" /\ stream' = <<>> /\ received' = <<>> /\ tx' = <<>>
      /\ call' = NONE /\ results' = <<>>
  BY DEF Connect, Accept, LibraryInv, CallTypes, SessionInv, SocketInv
<1>2. Answers' = <<>> /\ Begun' = <<>>
  BY <1>1 DEF Answers, Begun
<1>3. Reference[<<>>].sent = <<>> /\ Wire[<<>>] = <<>>
  BY ReferenceSteps, WireSteps DEF NoBytes
<1>4. Len(results') = 0 /\ stream' \in Seq(Byte) /\ Begins(Answers', Reference[stream'].sent)
  BY <1>1, <1>2, <1>3 DEF Begins
<1>5. CallLines(Len(results))' = <<>>
  <2>1. [i \in 1..0 |-> results'[i].line] = <<>>
    OBVIOUS
  <2> QED BY <1>3, <1>4, <2>1 DEF CallLines
<1>6. CallsPaired'
  BY <1>4 DEF CallsPaired
<1> QED BY <1>1, <1>2, <1>4, <1>5, <1>6 DEF PairInv

\* Every step of the library's system.
LEMMA PairsKept ==
    ASSUME LibraryInv, PairInv, SessionInv', FollowsReference', [LibraryNext]_allVars
    PROVE  PairInv'
<1>1. lib = "none" => call = NONE /\ results = <<>>
  BY DEF LibraryInv, CallTypes
<1>2. CASE Other
  BY <1>1, <1>2, NoPairs DEF Other, libraryVars
<1>3. CASE Drop
  BY <1>3, NoPairs DEF Drop, Forget
<1>4. CASE UNCHANGED allVars
  <2>1. UNCHANGED <<pc, client, rx, tx, out, stream, received, lib, call, results>>
    BY <1>4 DEF allVars, vars, sessionVars, libraryVars
  <2>2. /\ Answers' = Answers /\ Waiting' = Waiting /\ Begun' = Begun
        /\ CallsPaired' = CallsPaired /\ CallLines(Len(results))' = CallLines(Len(results))
    BY <2>1 DEF Answers, Waiting, Begun, CallsPaired, CallLines
  <2> QED BY <2>1, <2>2 DEF PairInv
<1>5. CASE LibraryStep
  BY <1>5, SendPairs, ReadPairs, FailPairs DEF LibraryStep
<1> QED BY <1>2, <1>3, <1>4, <1>5, ConnectPairs, CallPairs, DevicePairs DEF LibraryNext

\* Each response that a call returns is the one to its own line, for every sequence of
\* calls, and whatever the device, the network and the clients before it do.
THEOREM ResponsesToTheirCalls == LibrarySpec => []CallsPaired
<1> DEFINE Inv == LibraryInv /\ FollowsReference /\ PairInv
<1>1. LibraryInit => Inv
  <2> SUFFICES ASSUME LibraryInit PROVE Inv
    OBVIOUS
  <2>1. /\ pc = "accept" /\ lib = "none" /\ call = NONE /\ results = <<>>
    BY DEF LibraryInit, SessionInit
  <2>2. Len(results) = 0 /\ ~Waiting /\ ~Connected
    BY <2>1 DEF Waiting, Connected
  <2> QED BY <2>1, <2>2, LibraryBegins DEF FollowsReference, PairInv, CallsPaired
<1>2. Inv /\ [LibraryNext]_allVars => Inv'
  <2> SUFFICES ASSUME Inv, [LibraryNext]_allVars PROVE Inv'
    OBVIOUS
  <2>1. [SessionNext]_vars /\ SessionInv
    BY LibrarySteps DEF LibraryInv
  <2>2. FollowsReference' /\ SessionInv'
    BY <2>1, Follows, SessionKept
  <2> QED BY <2>2, LibraryKept, PairsKept
<1>3. Inv => CallsPaired
  BY DEF PairInv
<1> QED BY <1>1, <1>2, <1>3, PTL DEF LibrarySpec

\* The library is a client like any other: what holds of every client, holds with it.
THEOREM LibraryIsClient == LibrarySpec => SessionInit /\ [][SessionNext]_vars
<1>1. LibraryInit => SessionInit
  BY DEF LibraryInit
<1>2. LibraryInv /\ [LibraryNext]_allVars => [SessionNext]_vars
  BY LibrarySteps
<1> QED BY <1>1, <1>2, LibraryBegins, LibraryKept, PTL DEF LibrarySpec
================================================================================
