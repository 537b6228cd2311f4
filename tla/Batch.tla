---------------------------------- MODULE Batch ----------------------------------
(***************************************************************************)
(* dispatch_batch of src/src/router.rs: several commands in one request.   *)
(* handle_client does not call it (dispatch answers batch/run with          *)
(* unknown_interface), so its caller is external: one that runs batches     *)
(* between single commands, the way handle_client runs commands.            *)
(***************************************************************************)
EXTENDS Router, SequencesExt

CONSTANTS
    Batches,        \* the `commands` of batch requests, NONE if absent
    MAX_BATCH_SIZE

ASSUME BatchAssumption ==
    /\ MAX_BATCH_SIZE \in Nat \ {0}
    /\ NONE # 1 /\ NONE \notin Seq(Commands)
    /\ NONE \notin {"batch_empty", "batch_too_large", "malformed_json"}
    /\ \A b \in Batches : b = NONE \/ b \in Seq(Commands)

\* BatchResponse with the state it leaves; the outer id is left out.
BatchRejected(error, st) == [error |-> error, responses |-> <<>>, dev |-> st]

Panicked(responses) == \E r \in ToSet(responses) : r.error = "panic"

\* A slip for the checks of the properties: the first error ends the batch.
RunUntilError(acc, cmd) ==
    LET r == IF validate_route(cmd) # NONE THEN Fail(cmd, acc.dev, validate_route(cmd))
             ELSE dispatch(cmd, acc.dev)
    IN  IF \E a \in ToSet(acc.responses) : ~a.ok THEN acc
        ELSE [acc EXCEPT !.dev = r.dev, !.responses = Append(@, r.reply)]

\* A slip for the checks of the properties: an inner command that has no route
\* gets no response.
RunRouted(acc, cmd) ==
    IF validate_route(cmd) # NONE THEN acc
    ELSE LET r == dispatch(cmd, acc.dev)
         IN  [acc EXCEPT !.dev = r.dev, !.responses = Append(@, r.reply)]

\* One inner command.  Its version is not looked at, and a reboot that an earlier
\* one asked for does not stop it; a panic stops everything.
RunInner(acc, cmd) ==
    LET r == IF validate_route(cmd) # NONE THEN Fail(cmd, acc.dev, validate_route(cmd))
             ELSE dispatch(cmd, acc.dev)
    IN  IF Panicked(acc.responses) THEN acc
        ELSE [acc EXCEPT !.dev = r.dev, !.responses = Append(@, r.reply)]

\* The loop over the inner commands, for every list of them.
RunAll(st) ==
    LET Run[s \in Seq(Commands)] ==
          IF s = <<>> THEN [error |-> NONE, responses |-> <<>>, dev |-> st]
          ELSE RunInner(Run[Front(s)], Last(s))
    IN  Run

dispatch_batch(commands, st) ==
    IF commands \in {NONE, <<>>} THEN BatchRejected("batch_empty", st)
    ELSE IF Len(commands) > MAX_BATCH_SIZE THEN BatchRejected("batch_too_large", st)
    ELSE RunAll(st)[commands]

\* parse_command keeps at most MAX_BATCH_SIZE + 1 inner commands: a longer list is
\* no Command at all.
handle_batch(commands, st) ==
    IF commands # NONE /\ Len(commands) > MAX_BATCH_SIZE + 1
    THEN BatchRejected("malformed_json", st)
    ELSE dispatch_batch(commands, st)

RunBatch(commands) ==
    LET r == handle_batch(commands, dev)
    IN  /\ ~halted /\ ~dev.pending_reboot
        /\ dev' = r.dev
        /\ request' = NONE /\ reply' = NoReply
        /\ halted' = Panicked(r.responses)

BatchSpec == RouterInit /\ [][RouterNext \/ \E b \in Batches : RunBatch(b)]_routerVars

--------------------------------------------------------------------------------
(* Properties *)

\* The same commands sent one by one, each with the version it needs, until one of
\* them reboots or halts the device.
SendOne(acc, cmd) ==
    LET r == respond([cmd EXCEPT !.version = 1], acc.dev)
    IN  IF acc.dev.pending_reboot \/ Panicked(acc.responses) THEN acc
        ELSE [dev |-> r.dev, responses |-> Append(acc.responses, r.reply)]

OneByOne(st) ==
    LET Sent[s \in Seq(Commands)] ==
          IF s = <<>> THEN [dev |-> st, responses |-> <<>>]
          ELSE SendOne(Sent[Front(s)], Last(s))
    IN  Sent

Accepted(commands, st) == handle_batch(commands, st).error = NONE

\* A batch that is run answers each of its commands, in order, as if they had been
\* sent one by one in this state of the session, and leaves the same state; only
\* commands behind a reboot are run where a session would have ended.
BatchIsSequence ==
    \A b \in Batches : Accepted(b, dev) =>
        LET batch == handle_batch(b, dev)
            single == OneByOne(dev)[b]
        IN  /\ IsPrefix(single.responses, batch.responses)
            /\ Panicked(batch.responses) \/ Len(batch.responses) = Len(b)
            /\ single.dev.pending_reboot \/ batch.dev = single.dev

\* The last command of s is answered with an error.
LastFails(s, st) ==
    LET responses == RunAll(st)[s].responses
    IN  Len(s) \in DOMAIN responses /\ ~responses[Len(s)].ok

\* A list without the commands that fail in it.
Succeeding(st) ==
    LET Kept[s \in Seq(Commands)] ==
          IF s = <<>> THEN <<>>
          ELSE IF LastFails(s, st) THEN Kept[Front(s)]
          ELSE Append(Kept[Front(s)], Last(s))
    IN  Kept

\* The responses that are no errors.
Successes[rs \in Seq(ResponseType)] ==
    IF rs = <<>> THEN <<>>
    ELSE IF Last(rs).ok THEN Append(Successes[Front(rs)], Last(rs))
    ELSE Successes[Front(rs)]

\* PROTOCOL.md: "an error in one command does not abort subsequent commands".  The
\* other commands of a batch have the same responses and the same effect without
\* those that fail.
FailedCommandsDropOut ==
    \A b \in Batches : Accepted(b, dev) =>
        LET batch == handle_batch(b, dev)
            alone == handle_batch(Succeeding(dev)[b], dev)
        IN  \/ Panicked(batch.responses)
            \/ alone.dev = batch.dev /\ alone.responses = Successes[batch.responses]

==================================================================================
