------------------------------ MODULE LineFraming ------------------------------
(***************************************************************************)
(* What newline framing promises (PROTOCOL.md, "Framing"; MAX_MSG_LEN in   *)
(* src/src/protocol.rs): the stream is cut at its newlines; a line of at   *)
(* most LIMIT bytes is delivered whole and a longer one is reported once   *)
(* as too large.  There is no buffer here: the line is simply remembered.  *)
(***************************************************************************)
EXTENDS Integers, Sequences

CONSTANTS Byte, NL, LIMIT

VARIABLES line, result

lineVars == <<line, result>>

Outcome(l) ==
    IF Len(l) <= LIMIT THEN [kind |-> "frame", bytes |-> l]
                       ELSE [kind |-> "msg_too_large"]

Start == line = <<>> /\ result = [kind |-> "pending"]

Extend(b) ==
    /\ line' = Append(line, b)
    /\ result' = [kind |-> "pending"]

EndLine ==
    /\ line' = <<>>
    /\ result' = Outcome(line)

Reconnect ==
    /\ line' = <<>>
    /\ result' = [kind |-> "pending"]

Step == (\E b \in Byte \ {NL} : Extend(b)) \/ EndLine \/ Reconnect

Spec == Start /\ [][Step]_lineVars
================================================================================
