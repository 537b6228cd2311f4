------------------------------ MODULE ClientLibrary ------------------------------
(***************************************************************************)
(* The client library (src/client/src/lib.rs) as a client of TcpSession:   *)
(* a PicoConduit writes the line of one command, blocks until it has read  *)
(* one line, and takes that line for the command's response, whatever its  *)
(* id says.  Other programs take turns with it for the only connection.     *)
(*                                                                         *)
(* The server's end may be gone before the library's end is dropped.  Such *)
(* a broken end touches nothing that others see, so the next client is let *)
(* in only after it was dropped.                                            *)
(***************************************************************************)
EXTENDS TcpSessionProperties

CONSTANTS
    Calls,          \* the lines that the library's methods write, without newline
    CALL_BOUND,     \* calls on one connection (bound of the model)
    OTHER_BOUND     \* bytes another client sends on one (bound of the model)

ASSUME LibraryAssumption ==
    /\ \A f \in Calls : f \in Seq(Data)
    /\ NONE \notin [line : Calls, sent : Nat]
    /\ CALL_BOUND \in Nat /\ OTHER_BOUND \in Nat

VARIABLES
    lib,        \* the library's connection: "none", "live" or "broken"
    call,       \* the line being sent and how much of it was, or NONE
    results     \* the calls that returned on this connection (history)

libraryVars == <<lib, call, results>>
allVars == <<vars, libraryVars>>

\* The outcome of a call that got no response: Error::Io, or Error::Json of the
\* empty line that read_line leaves at the end of the stream.
FAILED == NONE

LibraryInit ==
    /\ SessionInit
    /\ lib = "none" /\ call = NONE /\ results = <<>>

--------------------------------------------------------------------------------
(* PicoConduit *)

\* PicoConduit::connect.
Connect ==
    /\ lib = "none"
    /\ Accept
    /\ lib' = "live"
    /\ UNCHANGED <<call, results>>

\* A slip for the checks of the properties: send_raw leaves the answer for later.
CallAhead(f) ==
    /\ lib # "none"
    /\ IF call = NONE THEN TRUE ELSE call.sent > Len(call.line)
    /\ Len(results) < CALL_BOUND
    /\ call' = [line |-> f, sent |-> 0]
    /\ UNCHANGED <<vars, lib, results>>

\* A typed method or send_raw.  &mut self: one call at a time.
Call(f) ==
    /\ lib # "none" /\ call = NONE
    /\ Len(results) < CALL_BOUND
    /\ call' = [line |-> f, sent |-> 0]
    /\ UNCHANGED <<vars, lib, results>>

\* write_all, byte by byte into whatever room the socket has.
SendByte ==
    /\ lib = "live" /\ call # NONE
    /\ call.sent <= Len(call.line)
    /\ ClientSend(Append(call.line, NL)[call.sent + 1])
    /\ call' = [call EXCEPT !.sent = @ + 1]
    /\ UNCHANGED <<lib, results>>

LinesRead == Cardinality({n \in 1..Len(results) : results[n].outcome # FAILED})
Unread == Len(received) > LinesRead

Return(outcome) ==
    /\ results' = Append(results, [line |-> call.line, outcome |-> outcome])
    /\ call' = NONE

\* A slip for the checks of the properties: read_line gives up after a while.
GiveUp ==
    /\ lib # "none" /\ call # NONE
    /\ call.sent > Len(call.line)
    /\ Return(IF Unread THEN received[LinesRead + 1] ELSE FAILED)
    /\ UNCHANGED <<vars, lib>>

\* read_line: the next line that this connection received.
ReadLine ==
    /\ lib # "none" /\ call # NONE
    /\ call.sent > Len(call.line)
    /\ Unread
    /\ Return(received[LinesRead + 1])
    /\ UNCHANGED <<vars, lib>>

\* A slip for the checks of the properties: a line that was written is waited for
\* even when the connection has ended.
FailBeforeSent ==
    /\ lib = "broken" /\ call # NONE
    /\ call.sent <= Len(call.line)
    /\ Return(FAILED)
    /\ UNCHANGED <<vars, lib>>

\* write_all or read_line on a connection that the server has closed.
FailCall ==
    /\ lib = "broken" /\ call # NONE
    /\ call.sent <= Len(call.line) \/ ~Unread
    /\ Return(FAILED)
    /\ UNCHANGED <<vars, lib>>

Forget == lib' = "none" /\ call' = NONE /\ results' = <<>>

\* The PicoConduit is dropped between two calls, or its program or host dies.
Drop ==
    \/ lib = "live" /\ call = NONE /\ ClientFinish /\ Forget
    \/ lib = "live" /\ (ClientReset \/ ClientVanish) /\ Forget
    \/ lib = "broken" /\ call = NONE /\ Forget /\ UNCHANGED vars

--------------------------------------------------------------------------------
(* The device and other clients *)

Device ==
    /\ ServerStep
    /\ lib' = IF lib = "live" /\ client' = "none" THEN "broken" ELSE lib
    /\ UNCHANGED <<call, results>>

Other ==
    /\ lib = "none"
    /\ Accept \/ ClientStep
    /\ Len(stream') <= OTHER_BOUND
    /\ UNCHANGED libraryVars

LibraryStep == SendByte \/ ReadLine \/ FailCall

LibraryNext ==
    \/ Connect \/ (\E f \in Calls : Call(f)) \/ LibraryStep \/ Drop
    \/ Device \/ Other
    \/ Deliver /\ UNCHANGED libraryVars

\* As in SessionSpec, and a thread that is inside a call goes on when it can.
LibrarySpec ==
    /\ LibraryInit /\ [][LibraryNext]_allVars
    /\ WF_allVars(Device)
    /\ WF_allVars(Deliver /\ UNCHANGED libraryVars)
    /\ WF_allVars(LibraryStep)

--------------------------------------------------------------------------------
(* Properties *)

\* The bytes of calls with these lines.
Wire[lines \in Seq(Seq(Byte))] ==
    IF lines = <<>> THEN <<>> ELSE Wire[Front(lines)] \o Append(Last(lines), NL)

\* The bytes of the first n calls.
CallLines(n) == Wire[[i \in 1..n |-> results[i].line]]

\* Each call that returns a response returns the one to its own command, computed
\* from the commands of the earlier calls of this connection.  send_raw does not
\* compare ids, so this rests on the order of responses alone: across lines that
\* are not JSON, a response that is never sent, an idle timeout, a reboot and
\* clients that had the connection before.
CallsPaired ==
    \A n \in 1..Len(results) :
        results[n].outcome # FAILED => results[n].outcome = Reference[CallLines(n)].answers[n]

\* The library never has two responses under way: a device that serves it never
\* waits for room to write, so a program or host that dies during a call, wherever
\* it is, cannot leave the device blocked in a write as pipelining clients can.
OneOutstanding ==
    lib = "live" =>
        Len(received) + Len(tx) + (IF pc = "write" THEN 1 ELSE 0)
            <= LinesRead + (IF call = NONE THEN 0 ELSE 1)

\* Every call returns, or the device is off: the idle timeout ends the wait for a
\* response that the device does not send, and only a device that stopped without
\* a word leaves read_line, which has no timeout, waiting for good.
CallReturns == call # NONE ~> (call = NONE \/ pc = "off")
================================================================================
