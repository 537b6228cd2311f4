------------------------------ MODULE HandlersProofs ------------------------------
(***************************************************************************)
(* Proofs about Batch, for every set of batches and every limit on their     *)
(* length, and about ClientMethods.  A batch and the same commands sent one  *)
(* by one are followed side by side, one command after another; so are a     *)
(* batch and its commands that succeed.  A method is taken through the       *)
(* checks of its handler, for every state of the device.  The bytes of a     *)
(* payload are followed through base64, group by group.                      *)
(***************************************************************************)
EXTENDS Batch, ClientMethods, Base64Text, RouterProofs

GoodStates == {st \in DeviceState : GoodState(st)}

\* What is made of the commands run so far.
RunType == [error : {NONE}, responses : Seq(ResponseType), dev : GoodStates]
SentType == [dev : GoodStates, responses : Seq(ResponseType)]

\* One command, whatever its version.
Inner(cmd, st) ==
    IF validate_route(cmd) # NONE THEN Fail(cmd, st, validate_route(cmd)) ELSE dispatch(cmd, st)

--------------------------------------------------------------------------------
(* One command *)

\* An inner command is answered as soundly as any.
LEMMA InnerSound ==
    ASSUME NEW cmd \in Commands, NEW st \in GoodStates
    PROVE  /\ Inner(cmd, st).dev \in GoodStates
           /\ Inner(cmd, st).reply \in ResponseType
           /\ ~Inner(cmd, st).reply.ok => Inner(cmd, st).dev = st
<1>1. validate_route(cmd) \in Opt(ErrorCode) /\ GoodState(st)
  BY DEF validate_route, Opt, ErrorCode, GoodStates
<1>2. CASE validate_route(cmd) # NONE
  BY <1>1, <1>2, FailSound DEF Inner, Sound, Opt, GoodStates, GoodState
<1>3. CASE validate_route(cmd) = NONE
  BY <1>1, <1>3, DispatchSound DEF Inner, Sound, GoodStates, GoodState
<1> QED BY <1>2, <1>3

\* A step of the batch.
LEMMA RunInnerStep ==
    ASSUME NEW acc \in RunType, NEW cmd \in Commands
    PROVE  /\ RunInner(acc, cmd) \in RunType
           /\ Panicked(acc.responses) => RunInner(acc, cmd) = acc
           /\ ~Panicked(acc.responses) =>
                /\ RunInner(acc, cmd).dev = Inner(cmd, acc.dev).dev
                /\ RunInner(acc, cmd).responses = Append(acc.responses, Inner(cmd, acc.dev).reply)
<1> DEFINE r == Inner(cmd, acc.dev)
<1>1. RunInner(acc, cmd) = IF Panicked(acc.responses) THEN acc
                           ELSE [acc EXCEPT !.dev = r.dev, !.responses = Append(@, r.reply)]
  BY DEF RunInner, Inner
<1>2. r.dev \in GoodStates /\ r.reply \in ResponseType
  BY InnerSound DEF RunType
<1> HIDE DEF r
<1>3. Append(acc.responses, r.reply) \in Seq(ResponseType)
  BY <1>2 DEF RunType
<1> QED BY <1>1, <1>2, <1>3 DEF RunType, r

\* Before the first command.
LEMMA StartTyped ==
    ASSUME NEW st \in GoodStates
    PROVE  /\ [error |-> NONE, responses |-> <<>>, dev |-> st] \in RunType
           /\ [dev |-> st, responses |-> <<>>] \in SentType
<1>1. <<>> \in Seq(ResponseType)
  OBVIOUS
<1> QED BY <1>1 DEF RunType, SentType

\* A batch is what its steps make of it.
LEMMA RunAllSteps ==
    ASSUME NEW st \in GoodStates
    PROVE  /\ RunAll(st)[<<>>] = [error |-> NONE, responses |-> <<>>, dev |-> st]
           /\ \A s \in Seq(Commands) : RunAll(st)[s] \in RunType
           /\ \A s \in Seq(Commands), cmd \in Commands :
                 RunAll(st)[Append(s, cmd)] = RunInner(RunAll(st)[s], cmd)
<1> DEFINE start == [error |-> NONE, responses |-> <<>>, dev |-> st]
           Op == [x \in RunType \X Commands |-> RunInner(x[1], x[2])]
           Body(f) == [s \in Seq(Commands) |-> IF s = <<>> THEN start
                                               ELSE RunInner(f[Front(s)], Last(s))]
<1>0. start \in RunType
  BY StartTyped
<1>1. Op \in [RunType \X Commands -> RunType]
  <2> SUFFICES ASSUME NEW x \in RunType \X Commands PROVE RunInner(x[1], x[2]) \in RunType
    OBVIOUS
  <2> QED BY RunInnerStep
<1>2. PICK f : Solves(f, Commands, RunType, start, Op)
  <2> HIDE DEF Op, start
  <2>1. Recursion(Commands, RunType, start, Op)
    BY <1>0, <1>1 DEF Recursion
  <2> QED BY <2>1, SeqRecursion, Zenon
<1>3. f = Body(f)
  <2>1. ASSUME NEW s \in Seq(Commands), s # <<>>
        PROVE  Op[<<f[Front(s)], Last(s)>>] = RunInner(f[Front(s)], Last(s))
    <3>1. f[Front(s)] \in RunType /\ Last(s) \in Commands
      BY <1>2, <2>1, FrontLast DEF Solves
    <3> QED BY <3>1
  <2> HIDE DEF Op, start
  <2>2. \A s \in Seq(Commands) :
           f[s] = IF s = <<>> THEN start ELSE RunInner(f[Front(s)], Last(s))
    BY <1>2, <2>1 DEF Solves
  <2>3. f \in [Seq(Commands) -> RunType]
    BY <1>2 DEF Solves
  <2> QED BY <2>2, <2>3
<1>4. RunAll(st) = Body(RunAll(st))
  <2>1. \E g : g = Body(g)
    BY <1>3
  <2> QED BY <2>1 DEF RunAll
<1>5. RunAll(st)[<<>>] = start
  BY <1>4
<1>6. ASSUME NEW s \in Seq(Commands), NEW cmd \in Commands
      PROVE  RunAll(st)[Append(s, cmd)] = RunInner(RunAll(st)[s], cmd)
  <2> HIDE DEF Body, start
  <2>1. /\ Append(s, cmd) \in Seq(Commands) /\ Append(s, cmd) # <<>>
        /\ Front(Append(s, cmd)) = s /\ Last(Append(s, cmd)) = cmd
    BY AppendFrontLast, Zenon
  <2>2. Body(RunAll(st))[Append(s, cmd)] = RunInner(RunAll(st)[s], cmd)
    BY <2>1, Zenon DEF Body
  <2> QED BY <1>4, <2>2
<1>7. \A s \in Seq(Commands) : RunAll(st)[s] \in RunType
  <2> HIDE DEF Body, start
  <2>1. \A s \in Seq(Commands), cmd \in Commands :
          RunAll(st)[s] \in RunType => RunAll(st)[Append(s, cmd)] \in RunType
    BY <1>6, RunInnerStep
  <2> QED BY <1>0, <1>5, <2>1, SeqRecursionTyped, Zenon
<1> QED BY <1>5, <1>6, <1>7

--------------------------------------------------------------------------------
(* The version of an inner command *)

\* Two commands that differ in their versions at most.
Alike(c, d) ==
    /\ c.id = d.id /\ c.interface = d.interface /\ c.action = d.action
    /\ c.pin = d.pin /\ c.mode = d.mode /\ c.pull = d.pull
    /\ c.uart = d.uart /\ c.bytes = d.bytes /\ c.baud = d.baud /\ c.data_bits = d.data_bits
    /\ c.parity = d.parity /\ c.stop_bits = d.stop_bits
    /\ c.spi = d.spi /\ c.freq_hz = d.freq_hz /\ c.cpol = d.cpol /\ c.cpha = d.cpha
    /\ c.i2c = d.i2c /\ c.addr = d.addr /\ c.channel = d.channel /\ c.duty_u16 = d.duty_u16
    /\ c.adc_channel = d.adc_channel /\ c.interval_ms = d.interval_ms /\ c.trigger = d.trigger

\* Every handler treats such commands alike.
LEMMA DispatchAlike ==
    ASSUME NEW c, NEW d, NEW st, Alike(c, d)
    PROVE  dispatch(c, st) = dispatch(d, st) /\ validate_route(c) = validate_route(d)
<1> USE DEF Alike
<1>1. validate_route(c) = validate_route(d)
  BY DEF validate_route
<1>2. \A error : Fail(c, st, error) = Fail(d, st, error)
  BY DEF Fail
<1>3. \A new, data : Done(c, new, data) = Done(d, new, data)
  BY DEF Done
<1>4. uart_handle_configure(c, st) = uart_handle_configure(d, st)
  BY <1>2, <1>3 DEF uart_handle_configure, UartConfigureError
<1>5. spi_handle_configure(c, st) = spi_handle_configure(d, st)
  BY <1>2, <1>3 DEF spi_handle_configure, SpiConfigureError
<1>6. i2c_handle_configure(c, st) = i2c_handle_configure(d, st)
  BY <1>2, <1>3 DEF i2c_handle_configure, I2cConfigureError
<1>7. \A target : handle_subscribe(c, target, st) = handle_subscribe(d, target, st)
  BY <1>2, <1>3 DEF handle_subscribe
<1>8. gpio_subscribe(c, st) = gpio_subscribe(d, st)
  BY <1>2, <1>7 DEF gpio_subscribe
<1>9. adc_subscribe(c, st) = adc_subscribe(d, st)
  BY <1>2, <1>7 DEF adc_subscribe
<1>10. \A kept : Retain(c, st, kept) = Retain(d, st, kept)
  BY <1>2, <1>3 DEF Retain
<1>11. gpio_unsubscribe(c, st) = gpio_unsubscribe(d, st)
  BY <1>2, <1>10 DEF gpio_unsubscribe, handle_unsubscribe_gpio
<1>12. adc_unsubscribe(c, st) = adc_unsubscribe(d, st)
  BY <1>2, <1>10 DEF adc_unsubscribe, handle_unsubscribe_adc
<1>13. StatelessError(c, st) = StatelessError(d, st)
  BY DEF StatelessError, handle_set_mode, validate_pin, validate_read, uart_handle_write,
         spi_handle_write, i2c_handle_write, usb_handle_write, handle_set_duty,
         handle_set_freq, validate_channel
<1>14. Stateless(c, st) = Stateless(d, st)
  BY <1>2, <1>3, <1>13 DEF Stateless
<1>15. dispatch(c, st) = dispatch(d, st)
  BY <1>3, <1>4, <1>5, <1>6, <1>8, <1>9, <1>11, <1>12, <1>14 DEF dispatch
<1> QED BY <1>1, <1>15

\* So a batch takes a command as it would be taken alone, with the version it needs.
LEMMA VersionBlind ==
    ASSUME NEW cmd \in Commands, NEW st
    PROVE  respond([cmd EXCEPT !.version = 1], st) = Inner(cmd, st)
<1> DEFINE c == [cmd EXCEPT !.version = 1]
<1>1. c.version = 1 /\ Alike(c, cmd)
  BY DEF Command, Alike
<1>2. check_version(c) = NONE
  BY <1>1, BatchAssumption DEF check_version
<1>3. Fail(c, st, validate_route(c)) = Fail(cmd, st, validate_route(c))
  BY <1>1 DEF Fail, Alike
<1>4. dispatch(c, st) = dispatch(cmd, st) /\ validate_route(c) = validate_route(cmd)
  BY <1>1, DispatchAlike
<1> SUFFICES respond(c, st) = Inner(cmd, st)
  OBVIOUS
<1> HIDE DEF c
<1> QED BY <1>2, <1>3, <1>4 DEF respond, Inner

--------------------------------------------------------------------------------
(* One by one *)

\* A step of the commands sent one by one.
LEMMA SendOneStep ==
    ASSUME NEW acc \in SentType, NEW cmd \in Commands
    PROVE  /\ SendOne(acc, cmd) \in SentType
           /\ acc.dev.pending_reboot \/ Panicked(acc.responses) => SendOne(acc, cmd) = acc
           /\ ~acc.dev.pending_reboot /\ ~Panicked(acc.responses) =>
                /\ SendOne(acc, cmd).dev = Inner(cmd, acc.dev).dev
                /\ SendOne(acc, cmd).responses = Append(acc.responses, Inner(cmd, acc.dev).reply)
<1> DEFINE r == Inner(cmd, acc.dev)
<1>1. SendOne(acc, cmd) = IF acc.dev.pending_reboot \/ Panicked(acc.responses) THEN acc
                          ELSE [dev |-> r.dev, responses |-> Append(acc.responses, r.reply)]
  BY VersionBlind DEF SendOne
<1>2. r.dev \in GoodStates /\ r.reply \in ResponseType
  BY InnerSound DEF SentType
<1> HIDE DEF r
<1>3. Append(acc.responses, r.reply) \in Seq(ResponseType)
  BY <1>2 DEF SentType
<1> QED BY <1>1, <1>2, <1>3 DEF SentType, r

\* OneByOne is what its steps make of it.
LEMMA OneByOneSteps ==
    ASSUME NEW st \in GoodStates
    PROVE  /\ OneByOne(st)[<<>>] = [dev |-> st, responses |-> <<>>]
           /\ \A s \in Seq(Commands) : OneByOne(st)[s] \in SentType
           /\ \A s \in Seq(Commands), cmd \in Commands :
                 OneByOne(st)[Append(s, cmd)] = SendOne(OneByOne(st)[s], cmd)
<1> DEFINE start == [dev |-> st, responses |-> <<>>]
           Op == [x \in SentType \X Commands |-> SendOne(x[1], x[2])]
           Body(f) == [s \in Seq(Commands) |-> IF s = <<>> THEN start
                                               ELSE SendOne(f[Front(s)], Last(s))]
<1>0. start \in SentType
  BY StartTyped
<1>1. Op \in [SentType \X Commands -> SentType]
  <2> SUFFICES ASSUME NEW x \in SentType \X Commands PROVE SendOne(x[1], x[2]) \in SentType
    OBVIOUS
  <2> QED BY SendOneStep
<1>2. PICK f : Solves(f, Commands, SentType, start, Op)
  <2> HIDE DEF Op, start
  <2>1. Recursion(Commands, SentType, start, Op)
    BY <1>0, <1>1 DEF Recursion
  <2> QED BY <2>1, SeqRecursion, Zenon
<1>3. f = Body(f)
  <2>1. ASSUME NEW s \in Seq(Commands), s # <<>>
        PROVE  Op[<<f[Front(s)], Last(s)>>] = SendOne(f[Front(s)], Last(s))
    <3>1. f[Front(s)] \in SentType /\ Last(s) \in Commands
      BY <1>2, <2>1, FrontLast DEF Solves
    <3> QED BY <3>1
  <2> HIDE DEF Op, start
  <2>2. \A s \in Seq(Commands) :
           f[s] = IF s = <<>> THEN start ELSE SendOne(f[Front(s)], Last(s))
    BY <1>2, <2>1 DEF Solves
  <2>3. f \in [Seq(Commands) -> SentType]
    BY <1>2 DEF Solves
  <2> QED BY <2>2, <2>3
<1>4. OneByOne(st) = Body(OneByOne(st))
  <2>1. \E g : g = Body(g)
    BY <1>3
  <2> QED BY <2>1 DEF OneByOne
<1>5. OneByOne(st)[<<>>] = start
  BY <1>4
<1>6. ASSUME NEW s \in Seq(Commands), NEW cmd \in Commands
      PROVE  OneByOne(st)[Append(s, cmd)] = SendOne(OneByOne(st)[s], cmd)
  <2> HIDE DEF Body, start
  <2>1. /\ Append(s, cmd) \in Seq(Commands) /\ Append(s, cmd) # <<>>
        /\ Front(Append(s, cmd)) = s /\ Last(Append(s, cmd)) = cmd
    BY AppendFrontLast, Zenon
  <2>2. Body(OneByOne(st))[Append(s, cmd)] = SendOne(OneByOne(st)[s], cmd)
    BY <2>1, Zenon DEF Body
  <2> QED BY <1>4, <2>2
<1>7. \A s \in Seq(Commands) : OneByOne(st)[s] \in SentType
  <2> HIDE DEF Body, start
  <2>1. \A s \in Seq(Commands), cmd \in Commands :
          OneByOne(st)[s] \in SentType => OneByOne(st)[Append(s, cmd)] \in SentType
    BY <1>6, SendOneStep
  <2> QED BY <1>0, <1>5, <2>1, SeqRecursionTyped, Zenon
<1> QED BY <1>5, <1>6, <1>7

\* What is begun is begun by what is longer.
LEMMA BeginsLonger ==
    ASSUME NEW S, NEW s \in Seq(S), NEW t \in Seq(S), NEW x \in S, Begins(s, t)
    PROVE  Begins(s, Append(t, x)) /\ Begins(s, s)
<1>1. Len(s) \in Nat /\ Len(t) \in Nat /\ Len(s) <= Len(t)
  BY DEF Begins
<1>2. \A i \in 1..Len(s) : i \in 1..Len(t)
  BY <1>1
<1> QED BY <1>1, <1>2 DEF Begins

\* Both after the same commands, x those of a batch, y one by one.
SideBySide(x, y) ==
    /\ ~y.dev.pending_reboot => y.dev = x.dev /\ y.responses = x.responses
    /\ Begins(y.responses, x.responses)

\* One command further.
LEMMA SideBySideStep ==
    ASSUME NEW x \in RunType, NEW y \in SentType, NEW cmd \in Commands, SideBySide(x, y)
    PROVE  SideBySide(RunInner(x, cmd), SendOne(y, cmd))
<1> DEFINE r == Inner(cmd, x.dev)
<1>0. /\ x.responses \in Seq(ResponseType) /\ y.responses \in Seq(ResponseType)
      /\ x.dev \in GoodStates
  BY DEF RunType, SentType
<1>1. r.reply \in ResponseType
  BY <1>0, InnerSound
<1>2. CASE y.dev.pending_reboot
  <2>1. SendOne(y, cmd) = y
    BY <1>2, SendOneStep
  <2>2. Begins(y.responses, Append(x.responses, r.reply))
    BY <1>0, <1>1, BeginsLonger DEF SideBySide
  <2> QED BY <1>2, <2>1, <2>2, RunInnerStep DEF SideBySide
<1>3. CASE ~y.dev.pending_reboot
  <2>1. y.dev = x.dev /\ y.responses = x.responses
    BY <1>3 DEF SideBySide
  <2>2. CASE Panicked(x.responses)
    BY <2>1, <2>2, RunInnerStep, SendOneStep DEF SideBySide
  <2>3. CASE ~Panicked(x.responses)
    <3>1. /\ RunInner(x, cmd).dev = SendOne(y, cmd).dev
          /\ RunInner(x, cmd).responses = SendOne(y, cmd).responses
      <4>1. /\ RunInner(x, cmd).dev = r.dev
            /\ RunInner(x, cmd).responses = Append(x.responses, r.reply)
        BY <2>3, RunInnerStep
      <4>2. ~Panicked(y.responses) /\ Inner(cmd, y.dev) = r
        BY <2>1, <2>3
      <4>3. /\ SendOne(y, cmd).dev = Inner(cmd, y.dev).dev
            /\ SendOne(y, cmd).responses = Append(y.responses, Inner(cmd, y.dev).reply)
        BY <1>3, <4>2, SendOneStep
      <4> HIDE DEF r
      <4> QED BY <2>1, <4>1, <4>2, <4>3
    <3>2. SendOne(y, cmd).responses \in Seq(ResponseType)
      BY SendOneStep DEF SentType
    <3>3. Begins(SendOne(y, cmd).responses, SendOne(y, cmd).responses)
      BY <3>2 DEF Begins
    <3> QED BY <3>1, <3>3 DEF SideBySide
  <2> QED BY <2>2, <2>3
<1> QED BY <1>2, <1>3

\* After the same commands, whatever they are.
LEMMA Sequenced ==
    ASSUME NEW st \in GoodStates
    PROVE  \A s \in Seq(Commands) :
             /\ SideBySide(RunAll(st)[s], OneByOne(st)[s])
             /\ Panicked(RunAll(st)[s].responses) \/ Len(RunAll(st)[s].responses) = Len(s)
<1> DEFINE Answered(s) ==
             Panicked(RunAll(st)[s].responses) \/ Len(RunAll(st)[s].responses) = Len(s)
           T == {s \in Seq(Commands) : SideBySide(RunAll(st)[s], OneByOne(st)[s]) /\ Answered(s)}
<1>1. <<>> \in T
  <2>1. RunAll(st)[<<>>].responses = <<>> /\ RunAll(st)[<<>>].dev = st
    <3>1. RunAll(st)[<<>>] = [error |-> NONE, responses |-> <<>>, dev |-> st]
      BY RunAllSteps
    <3> QED BY <3>1
  <2>2. OneByOne(st)[<<>>].responses = <<>> /\ OneByOne(st)[<<>>].dev = st
    <3>1. OneByOne(st)[<<>>] = [dev |-> st, responses |-> <<>>]
      BY OneByOneSteps
    <3> QED BY <3>1
  <2>3. Len(<<>>) = 0
    OBVIOUS
  <2> QED BY <2>1, <2>2, <2>3 DEF SideBySide, Begins
<1>2. ASSUME NEW s \in Seq(Commands), NEW cmd \in Commands, s \in T
      PROVE  Append(s, cmd) \in T
  <2> DEFINE x == RunAll(st)[s]
             y == OneByOne(st)[s]
  <2>1. x \in RunType /\ y \in SentType
    BY RunAllSteps, OneByOneSteps
  <2>2. /\ RunAll(st)[Append(s, cmd)] = RunInner(x, cmd)
        /\ OneByOne(st)[Append(s, cmd)] = SendOne(y, cmd)
    <3>1. RunAll(st)[Append(s, cmd)] = RunInner(x, cmd)
      BY RunAllSteps, Zenon
    <3>2. OneByOne(st)[Append(s, cmd)] = SendOne(y, cmd)
      BY OneByOneSteps, Zenon
    <3> QED BY <3>1, <3>2
  <2>3. SideBySide(x, y) /\ Answered(s)
    BY <1>2
  <2> HIDE DEF x, y
  <2>4. SideBySide(RunInner(x, cmd), SendOne(y, cmd))
    BY <2>1, <2>3, SideBySideStep
  <2>5. Panicked(RunInner(x, cmd).responses) \/ Len(RunInner(x, cmd).responses) = Len(s) + 1
    <3>1. CASE Panicked(x.responses)
      BY <2>1, <3>1, RunInnerStep
    <3>2. CASE ~Panicked(x.responses)
      <4>1. Len(x.responses) = Len(s)
        BY <2>3, <3>2 DEF x
      <4>2. x.responses \in Seq(ResponseType) /\ Inner(cmd, x.dev).reply \in ResponseType
        BY <2>1, InnerSound DEF RunType
      <4>3. Len(Append(x.responses, Inner(cmd, x.dev).reply)) = Len(s) + 1
        BY <4>1, <4>2
      <4> QED BY <2>1, <3>2, <4>3, RunInnerStep
    <3> QED BY <3>1, <3>2
  <2>6. Append(s, cmd) \in Seq(Commands) /\ Len(Append(s, cmd)) = Len(s) + 1
    OBVIOUS
  <2> QED BY <2>2, <2>4, <2>5, <2>6
<1>3. Seq(Commands) \subseteq T
  <2> HIDE DEF T
  <2> QED BY <1>1, <1>2, SeqInduction
<1> QED BY <1>3

--------------------------------------------------------------------------------
(* Batches between single commands *)

\* What is run is the whole list.
LEMMA AcceptedRuns ==
    ASSUME NEW st \in GoodStates, NEW b \in Batches, Accepted(b, st)
    PROVE  /\ b \in Seq(Commands) /\ Len(b) <= MAX_BATCH_SIZE
           /\ handle_batch(b, st) = RunAll(st)[b]
<1>1. NONE \notin {"batch_empty", "batch_too_large", "malformed_json"}
  BY BatchAssumption
<1>2. handle_batch(b, st) = dispatch_batch(b, st) /\ b \notin {NONE, <<>>}
  BY <1>1 DEF Accepted, handle_batch, dispatch_batch, BatchRejected
<1>3. Len(b) <= MAX_BATCH_SIZE /\ dispatch_batch(b, st) = RunAll(st)[b]
  BY <1>1, <1>2, BatchAssumption DEF Accepted, dispatch_batch, BatchRejected
<1> QED BY <1>2, <1>3, BatchAssumption

\* A batch keeps the router's invariant.
LEMMA RunBatchStep ==
    ASSUME RouterInv, NEW b \in Batches, RunBatch(b)
    PROVE  RouterInv'
<1>1. dev \in GoodStates
  BY DEF RouterInv, GoodStates, GoodState
<1>2. \A error : BatchRejected(error, dev).dev \in GoodStates
  BY <1>1 DEF BatchRejected
<1>3. b # NONE => RunAll(dev)[b].dev \in GoodStates
  <2> SUFFICES ASSUME b # NONE PROVE RunAll(dev)[b].dev \in GoodStates
    OBVIOUS
  <2>1. b \in Seq(Commands)
    BY BatchAssumption
  <2> QED BY <1>1, <2>1, RunAllSteps DEF RunType
<1>4. handle_batch(b, dev).dev \in GoodStates
  BY <1>2, <1>3 DEF handle_batch, dispatch_batch
<1>5. /\ dev' = handle_batch(b, dev).dev
      /\ request' = NONE /\ reply' = NoReply
      /\ halted' = Panicked(handle_batch(b, dev).responses)
  BY DEF RunBatch
<1>6. halted' \in BOOLEAN
  BY <1>5 DEF Panicked
<1> QED BY <1>4, <1>5, <1>6, NoReplyTyped DEF RouterInv, RouterTypeOK, GoodStates, Opt

\* RouterInv is inductive with batches, too.
LEMMA BatchInvariance == BatchSpec => []RouterInv
<1>1. RouterInit => RouterInv
  BY DefaultGood, NoReplyTyped DEF RouterInit, RouterInv, RouterTypeOK, Opt, GoodState
<1>2. RouterInv /\ [RouterNext \/ \E b \in Batches : RunBatch(b)]_routerVars => RouterInv'
  BY HandleStep, NewSessionStep, RouterUnchanged, RunBatchStep DEF RouterNext
<1> QED BY <1>1, <1>2, PTL DEF BatchSpec

\* What holds of the router between commands holds of it between batches: for every
\* set of batches, a handler is as atomic and an unsubscribe as final as without them.
THEOREM BatchesKeepRouter ==
    BatchSpec => /\ [](RouterTypeOK /\ SubscriptionsWellFormed /\ ConfiguredIsValid)
                 /\ RejectedChangesNothing /\ UnsubscribeFreesTarget
<1>1. RouterInv => RouterTypeOK /\ SubscriptionsWellFormed /\ ConfiguredIsValid
  BY DEF RouterInv, GoodState, ValidConfiguration, WellFormed, SubscriptionsWellFormed,
         ConfiguredIsValid
<1>2. RouterInv /\ [RouterNext \/ \E b \in Batches : RunBatch(b)]_routerVars
        => [(~reply'.ok => dev' = dev) /\ Freed]_routerVars
  <2>1. ASSUME NEW b \in Batches, RunBatch(b) PROVE reply'.ok /\ Freed
    <3>1. reply' = NoReply /\ request' = NONE
      BY <2>1 DEF RunBatch
    <3> QED BY <3>1 DEF NoReply, Response, Freed
  <2> QED BY <2>1, RouterRejects, RouterFrees
<1>3. [][(~reply'.ok => dev' = dev) /\ Freed]_routerVars
        => [][~reply'.ok => dev' = dev]_routerVars /\ [][Freed]_routerVars
  BY PTL
<1>4. [][Freed]_routerVars => UnsubscribeFreesTarget
  BY DEF Freed, UnsubscribeFreesTarget
<1> QED BY <1>1, <1>2, <1>3, <1>4, BatchInvariance, PTL DEF BatchSpec, RejectedChangesNothing

\* A batch is its commands one after the other: dispatch_batch's loop (router.rs) adds
\* nothing to dispatch, and leaves out nothing but the version.
THEOREM BatchesAreSequences == BatchSpec => []BatchIsSequence
<1>1. ASSUME RouterInv PROVE BatchIsSequence
  <2> SUFFICES ASSUME NEW b \in Batches, Accepted(b, dev)
               PROVE  LET batch == handle_batch(b, dev)
                          single == OneByOne(dev)[b]
                      IN  /\ IsPrefix(single.responses, batch.responses)
                          /\ Panicked(batch.responses) \/ Len(batch.responses) = Len(b)
                          /\ single.dev.pending_reboot \/ batch.dev = single.dev
    BY DEF BatchIsSequence
  <2>1. dev \in GoodStates
    BY <1>1 DEF RouterInv, GoodStates, GoodState
  <2>2. b \in Seq(Commands) /\ handle_batch(b, dev) = RunAll(dev)[b]
    BY <2>1, AcceptedRuns
  <2> DEFINE x == RunAll(dev)[b]
             y == OneByOne(dev)[b]
  <2>3. x.responses \in Seq(ResponseType) /\ y.responses \in Seq(ResponseType)
    BY <2>1, <2>2, RunAllSteps, OneByOneSteps DEF RunType, SentType
  <2>4. SideBySide(x, y) /\ (Panicked(x.responses) \/ Len(x.responses) = Len(b))
    BY <2>1, <2>2, Sequenced
  <2> HIDE DEF x, y
  <2>5. IsPrefix(y.responses, x.responses)
    BY <2>3, <2>4 DEF SideBySide, Begins, IsPrefix
  <2> QED BY <2>2, <2>4, <2>5 DEF SideBySide, x, y
<1> QED BY <1>1, BatchInvariance, PTL

--------------------------------------------------------------------------------
(* Without the commands that fail *)

\* What succeeds is kept from step to step: Succeeding is what its steps make of it.
LEMMA SucceedingSteps ==
    ASSUME NEW st
    PROVE  /\ Succeeding(st)[<<>>] = <<>>
           /\ \A s \in Seq(Commands) : Succeeding(st)[s] \in Seq(Commands)
           /\ \A s \in Seq(Commands), cmd \in Commands :
                 Succeeding(st)[Append(s, cmd)] =
                    IF LastFails(Append(s, cmd), st) THEN Succeeding(st)[s]
                    ELSE Append(Succeeding(st)[s], cmd)
<1> DEFINE Lists == Seq(Commands) \X Seq(Commands)
           Sift(l, cmd) == <<Append(l[1], cmd), IF LastFails(Append(l[1], cmd), st) THEN l[2]
                                                ELSE Append(l[2], cmd)>>
           start == <<<<>>, <<>>>>
           Op == [x \in Lists \X Commands |-> Sift(x[1], x[2])]
           Step(f, s) == IF LastFails(s, st) THEN f[Front(s)] ELSE Append(f[Front(s)], Last(s))
           Body(f) == [s \in Seq(Commands) |-> IF s = <<>> THEN <<>> ELSE Step(f, s)]
<1>0. start \in Lists
  <2>1. <<>> \in Seq(Commands)
    OBVIOUS
  <2> QED BY <2>1
<1>1. Op \in [Lists \X Commands -> Lists]
  <2>1. ASSUME NEW l \in Lists, NEW cmd \in Commands PROVE Sift(l, cmd) \in Lists
    <3>1. /\ l[1] \in Seq(Commands) /\ l[2] \in Seq(Commands)
          /\ Append(l[1], cmd) \in Seq(Commands) /\ Append(l[2], cmd) \in Seq(Commands)
      OBVIOUS
    <3> QED BY <3>1
  <2> HIDE DEF Lists, Sift
  <2>2. \A x \in Lists \X Commands : Sift(x[1], x[2]) \in Lists
    BY <2>1
  <2> QED BY <2>2
<1>2. PICK f : Solves(f, Commands, Lists, start, Op)
  <2> HIDE DEF Op, Lists, start
  <2>1. Recursion(Commands, Lists, start, Op)
    BY <1>0, <1>1 DEF Recursion
  <2> QED BY <2>1, SeqRecursion, Zenon
<1>3. /\ f[<<>>] = start
      /\ \A s \in Seq(Commands) : f[s] \in Lists
      /\ \A s \in Seq(Commands), cmd \in Commands : f[Append(s, cmd)] = Sift(f[s], cmd)
  <2> HIDE DEF start, Lists, Sift
  <2>1. f \in [Seq(Commands) -> Lists]
    BY <1>2 DEF Solves
  <2>2. <<>> \in Seq(Commands)
    OBVIOUS
  <2>3. f[<<>>] = start
    BY <1>2, <2>2 DEF Solves
  <2>4. ASSUME NEW s \in Seq(Commands), NEW cmd \in Commands
        PROVE  f[Append(s, cmd)] = Sift(f[s], cmd)
    <3>1. /\ Append(s, cmd) \in Seq(Commands) /\ Append(s, cmd) # <<>>
          /\ Front(Append(s, cmd)) = s /\ Last(Append(s, cmd)) = cmd
      BY AppendFrontLast, Zenon
    <3>2. f[Append(s, cmd)] = Op[<<f[s], cmd>>]
      <4> HIDE DEF Op
      <4> QED BY <1>2, <3>1 DEF Solves
    <3>3. <<f[s], cmd>> \in Lists \X Commands
      BY <2>1
    <3> QED BY <3>2, <3>3
  <2> QED BY <2>1, <2>3, <2>4
<1>4. \A s \in Seq(Commands) : f[s][1] = s
  <2> DEFINE T == {s \in Seq(Commands) : f[s][1] = s}
  <2>1. <<>> \in T
    BY <1>3
  <2>2. \A s \in Seq(Commands), cmd \in Commands : s \in T => Append(s, cmd) \in T
    <3> HIDE DEF Lists
    <3> QED BY <1>3
  <2>3. Seq(Commands) \subseteq T
    <3> HIDE DEF T
    <3> QED BY <2>1, <2>2, SeqInduction
  <2> QED BY <2>3
<1> DEFINE g == [s \in Seq(Commands) |-> f[s][2]]
<1>5. g = Body(g)
  <2>1. ASSUME NEW s \in Seq(Commands), s # <<>> PROVE f[s][2] = Step(g, s)
    <3>1. Front(s) \in Seq(Commands) /\ Last(s) \in Commands /\ s = Append(Front(s), Last(s))
      BY <2>1, FrontLast, Zenon
    <3>2. f[s] = Sift(f[Front(s)], Last(s))
      <4> HIDE DEF Sift
      <4>1. f[Append(Front(s), Last(s))] = Sift(f[Front(s)], Last(s))
        BY <1>3, <3>1
      <4> QED BY <3>1, <4>1
    <3>3. Append(f[Front(s)][1], Last(s)) = s
      BY <1>4, <3>1
    <3>4. g[Front(s)] = f[Front(s)][2]
      BY <3>1
    <3> QED BY <3>2, <3>3, <3>4
  <2>2. f[<<>>][2] = <<>>
    BY <1>3
  <2> HIDE DEF Step
  <2> QED BY <2>1, <2>2
<1>6. Succeeding(st) = Body(Succeeding(st))
  <2>1. \E h : h = Body(h)
    BY <1>5
  <2> QED BY <2>1, Zenon DEF Succeeding
<1>7. Succeeding(st)[<<>>] = <<>>
  BY <1>6
<1>8. ASSUME NEW s \in Seq(Commands), NEW cmd \in Commands
      PROVE  Succeeding(st)[Append(s, cmd)] =
                IF LastFails(Append(s, cmd), st) THEN Succeeding(st)[s]
                ELSE Append(Succeeding(st)[s], cmd)
  <2> HIDE DEF Body
  <2>1. /\ Append(s, cmd) \in Seq(Commands) /\ Append(s, cmd) # <<>>
        /\ Front(Append(s, cmd)) = s /\ Last(Append(s, cmd)) = cmd
    BY AppendFrontLast, Zenon
  <2>2. Body(Succeeding(st))[Append(s, cmd)] = Step(Succeeding(st), Append(s, cmd))
    <3> HIDE DEF Step
    <3> QED BY <2>1, Zenon DEF Body
  <2> QED BY <1>6, <2>1, <2>2
<1>9. \A s \in Seq(Commands) : Succeeding(st)[s] \in Seq(Commands)
  <2> HIDE DEF Body
  <2>1. ASSUME NEW s \in Seq(Commands), NEW cmd \in Commands,
               Succeeding(st)[s] \in Seq(Commands)
        PROVE  Succeeding(st)[Append(s, cmd)] \in Seq(Commands)
    <3>1. Append(Succeeding(st)[s], cmd) \in Seq(Commands)
      BY <2>1
    <3> QED BY <1>8, <2>1, <3>1
  <2>2. <<>> \in Seq(Commands)
    OBVIOUS
  <2> QED BY <1>7, <2>1, <2>2, SeqRecursionTyped, Zenon
<1> QED BY <1>7, <1>8, <1>9

\* What is not an error is kept from response to response.
LEMMA SuccessesSteps ==
    /\ Successes[<<>>] = <<>>
    /\ \A rs \in Seq(ResponseType) : Successes[rs] \in Seq(ResponseType)
    /\ \A rs \in Seq(ResponseType), r \in ResponseType :
          Successes[Append(rs, r)] = IF r.ok THEN Append(Successes[rs], r) ELSE Successes[rs]
<1> DEFINE A == Seq(ResponseType)
           Step(acc, r) == IF r.ok THEN Append(acc, r) ELSE acc
           Op == [x \in A \X ResponseType |-> Step(x[1], x[2])]
           Body(f) == [s \in A |-> IF s = <<>> THEN <<>> ELSE Step(f[Front(s)], Last(s))]
<1>0. <<>> \in A
  OBVIOUS
<1>1. Op \in [A \X ResponseType -> A]
  <2>1. ASSUME NEW acc \in A, NEW r \in ResponseType PROVE Step(acc, r) \in A
    OBVIOUS
  <2> HIDE DEF Step, A
  <2>2. \A x \in A \X ResponseType : Step(x[1], x[2]) \in A
    BY <2>1
  <2> QED BY <2>2
<1>2. PICK f : Solves(f, ResponseType, A, <<>>, Op)
  <2> HIDE DEF Op, A
  <2>1. Recursion(ResponseType, A, <<>>, Op)
    BY <1>0, <1>1 DEF Recursion
  <2> QED BY <2>1, SeqRecursion, Zenon
<1>3. f = Body(f)
  <2>1. ASSUME NEW s \in A, s # <<>>
        PROVE  Op[<<f[Front(s)], Last(s)>>] = Step(f[Front(s)], Last(s))
    <3>1. f[Front(s)] \in A /\ Last(s) \in ResponseType
      BY <1>2, <2>1, FrontLast DEF Solves
    <3> HIDE DEF Step, A
    <3> QED BY <3>1
  <2> HIDE DEF Op, Step
  <2>2. \A s \in A : f[s] = IF s = <<>> THEN <<>> ELSE Step(f[Front(s)], Last(s))
    BY <1>2, <2>1, Zenon DEF Solves
  <2>3. f \in [A -> A]
    BY <1>2 DEF Solves
  <2> QED BY <2>2, <2>3
<1>4. Successes = Body(Successes)
  <2>1. \E g : g = Body(g)
    BY <1>3
  <2> QED BY <2>1, Zenon DEF Successes
<1>5. Successes[<<>>] = <<>>
  BY <1>4
<1>6. ASSUME NEW rs \in A, NEW r \in ResponseType
      PROVE  Successes[Append(rs, r)] = Step(Successes[rs], r)
  <2> HIDE DEF Body, Step
  <2>1. /\ Append(rs, r) \in A /\ Append(rs, r) # <<>>
        /\ Front(Append(rs, r)) = rs /\ Last(Append(rs, r)) = r
    BY AppendFrontLast, Zenon
  <2>2. Body(Successes)[Append(rs, r)] = Step(Successes[rs], r)
    BY <2>1, Zenon DEF Body
  <2> QED BY <1>4, <2>2
<1>7. \A rs \in A : Successes[rs] \in A
  <2> HIDE DEF Body
  <2>1. ASSUME NEW rs \in A, NEW r \in ResponseType, Successes[rs] \in A
        PROVE  Successes[Append(rs, r)] \in A
    <3>1. Append(Successes[rs], r) \in A
      BY <2>1
    <3> QED BY <1>6, <2>1, <3>1
  <2> HIDE DEF Step
  <2> QED BY <1>0, <1>5, <2>1, SeqRecursionTyped, Zenon
<1> QED BY <1>5, <1>6, <1>7

\* A response more.
LEMMA PanickedAppend ==
    ASSUME NEW rs \in Seq(ResponseType), NEW r \in ResponseType
    PROVE  Panicked(Append(rs, r)) <=> Panicked(rs) \/ r.error = "panic"
<1>1. ASSUME NEW u \in Seq(ResponseType)
      PROVE  Panicked(u) <=> \E i \in 1..Len(u) : u[i].error = "panic"
  BY DEF Panicked, ToSet
<1> DEFINE u == Append(rs, r)
<1>2. u \in Seq(ResponseType) /\ Len(u) = Len(rs) + 1 /\ Len(rs) \in Nat
  OBVIOUS
<1>3. u[Len(rs) + 1] = r /\ \A i \in 1..Len(rs) : u[i] = rs[i]
  OBVIOUS
<1> HIDE DEF u
<1>4. Panicked(u) <=> Panicked(rs) \/ r.error = "panic"
  <2>1. 1..Len(u) = 1..Len(rs) \cup {Len(rs) + 1}
    BY <1>2
  <2> QED BY <1>1, <1>2, <1>3, <2>1
<1> QED BY <1>4 DEF u

\* The commands so far and those of them that succeed: the same state, and the
\* responses that are no errors.
Sifted(s, st) ==
    LET all == RunAll(st)[s]
        alone == RunAll(st)[Succeeding(st)[s]]
    IN  /\ Len(Succeeding(st)[s]) <= Len(s)
        /\ ~Panicked(alone.responses)
        /\ alone.dev = all.dev
        /\ alone.responses = Successes[all.responses]

\* One command further.
LEMMA SiftedStep ==
    ASSUME NEW st \in GoodStates, NEW s \in Seq(Commands), NEW cmd \in Commands,
           Sifted(s, st), ~Panicked(RunAll(st)[Append(s, cmd)].responses),
           ~Panicked(RunAll(st)[s].responses)
    PROVE  Sifted(Append(s, cmd), st)
<1> DEFINE u == Append(s, cmd)
           k == Succeeding(st)[s]
           x == RunAll(st)[s]
           y == RunAll(st)[k]
           r == Inner(cmd, x.dev)
<1>1. /\ u \in Seq(Commands) /\ Len(u) = Len(s) + 1 /\ Len(s) \in Nat
      /\ k \in Seq(Commands) /\ Append(k, cmd) \in Seq(Commands)
      /\ Len(Append(k, cmd)) = Len(k) + 1 /\ Len(k) \in Nat
  <2>1. k \in Seq(Commands)
    BY SucceedingSteps
  <2> HIDE DEF k
  <2> QED BY <2>1
<1>2. x \in RunType /\ y \in RunType /\ x.dev \in GoodStates
  <2> HIDE DEF k
  <2> QED BY <1>1, RunAllSteps DEF RunType
<1>3. Len(k) <= Len(s) /\ ~Panicked(y.responses) /\ y.dev = x.dev
      /\ y.responses = Successes[x.responses]
  BY DEF Sifted
<1>4. Len(x.responses) = Len(s)
  BY Sequenced
<1>5. RunAll(st)[u] = RunInner(x, cmd) /\ RunAll(st)[Append(k, cmd)] = RunInner(y, cmd)
  <2> HIDE DEF k
  <2>1. ASSUME NEW a \in Seq(Commands)
        PROVE  RunAll(st)[Append(a, cmd)] = RunInner(RunAll(st)[a], cmd)
    BY RunAllSteps, Zenon
  <2>2. RunAll(st)[u] = RunInner(x, cmd)
    BY <2>1
  <2>3. RunAll(st)[Append(k, cmd)] = RunInner(y, cmd)
    BY <2>1, <1>1, Zenon
  <2> QED BY <2>2, <2>3
<1>6. Succeeding(st)[u] = IF LastFails(u, st) THEN k ELSE Append(k, cmd)
  BY SucceedingSteps
<1> HIDE DEF u, k, x, y
<1>7. r.reply \in ResponseType /\ (~r.reply.ok => r.dev = x.dev)
  BY <1>2, InnerSound
<1>8. RunInner(x, cmd).dev = r.dev /\ RunInner(x, cmd).responses = Append(x.responses, r.reply)
  BY <1>2, RunInnerStep DEF x
<1>9. RunInner(y, cmd).dev = r.dev /\ RunInner(y, cmd).responses = Append(y.responses, r.reply)
  BY <1>2, <1>3, RunInnerStep
<1> HIDE DEF r
<1>10. x.responses \in Seq(ResponseType) /\ y.responses \in Seq(ResponseType)
  BY <1>2 DEF RunType
<1>11. r.reply.error # "panic"
  BY <1>5, <1>7, <1>8, <1>10, PanickedAppend DEF u
<1>12. LastFails(u, st) <=> ~r.reply.ok
  <2>1. /\ Len(u) \in DOMAIN Append(x.responses, r.reply)
        /\ Append(x.responses, r.reply)[Len(u)] = r.reply
    BY <1>1, <1>4, <1>7, <1>10
  <2> QED BY <1>5, <1>8, <2>1 DEF LastFails
<1>13. Successes[Append(x.responses, r.reply)] =
         IF r.reply.ok THEN Append(y.responses, r.reply) ELSE y.responses
  BY <1>3, <1>7, <1>10, SuccessesSteps
<1>14. CASE r.reply.ok
  <2>1. Succeeding(st)[u] = Append(k, cmd)
    BY <1>6, <1>12, <1>14
  <2>2. ~Panicked(Append(y.responses, r.reply))
    BY <1>3, <1>7, <1>10, <1>11, PanickedAppend
  <2>3. Len(Append(k, cmd)) <= Len(u)
    BY <1>1, <1>3
  <2> QED BY <1>5, <1>8, <1>9, <1>13, <1>14, <2>1, <2>2, <2>3 DEF Sifted, u
<1>15. CASE ~r.reply.ok
  <2>1. Succeeding(st)[u] = k
    BY <1>6, <1>12, <1>15
  <2>2. Len(k) <= Len(u)
    BY <1>1, <1>3
  <2>3. RunAll(st)[k] = y
    BY DEF y
  <2> QED BY <1>3, <1>5, <1>7, <1>8, <1>13, <1>15, <2>1, <2>2, <2>3 DEF Sifted, u
<1> QED BY <1>14, <1>15

\* A list and what succeeds in it, whatever it is.
LEMMA AllSifted ==
    ASSUME NEW st \in GoodStates
    PROVE  \A s \in Seq(Commands) : Panicked(RunAll(st)[s].responses) \/ Sifted(s, st)
<1> DEFINE T == {s \in Seq(Commands) : Panicked(RunAll(st)[s].responses) \/ Sifted(s, st)}
<1>1. <<>> \in T
  <2>1. RunAll(st)[<<>>] = [error |-> NONE, responses |-> <<>>, dev |-> st]
    BY RunAllSteps
  <2>2. RunAll(st)[<<>>].responses = <<>>
    BY <2>1
  <2>3. ~Panicked(<<>>) /\ Len(<<>>) <= Len(<<>>)
    BY DEF Panicked, ToSet
  <2>4. <<>> \in Seq(Commands)
    OBVIOUS
  <2>5. Sifted(<<>>, st)
    BY <2>2, <2>3, SucceedingSteps, SuccessesSteps DEF Sifted
  <2> QED BY <2>4, <2>5
<1>2. ASSUME NEW s \in Seq(Commands), NEW cmd \in Commands, s \in T
      PROVE  Append(s, cmd) \in T
  <2>1. Append(s, cmd) \in Seq(Commands) /\ RunAll(st)[s] \in RunType
    <3>1. Append(s, cmd) \in Seq(Commands)
      OBVIOUS
    <3> QED BY <3>1, RunAllSteps
  <2>2. RunAll(st)[Append(s, cmd)] = RunInner(RunAll(st)[s], cmd)
    BY RunAllSteps
  <2>3. CASE Panicked(RunAll(st)[s].responses)
    BY <2>1, <2>2, <2>3, RunInnerStep
  <2>4. CASE ~Panicked(RunAll(st)[s].responses)
    BY <1>2, <2>1, <2>4, SiftedStep
  <2> QED BY <2>3, <2>4
<1>3. Seq(Commands) \subseteq T
  <2> HIDE DEF T
  <2> QED BY <1>1, <1>2, SeqInduction
<1> QED BY <1>3

\* PROTOCOL.md: an error in one command does not abort subsequent commands, because
\* every handler that fails leaves the state alone and the loop goes on.
THEOREM FailuresDropOut == BatchSpec => []FailedCommandsDropOut
<1>1. ASSUME RouterInv PROVE FailedCommandsDropOut
  <2> SUFFICES ASSUME NEW b \in Batches, Accepted(b, dev),
                      ~Panicked(handle_batch(b, dev).responses)
               PROVE  LET batch == handle_batch(b, dev)
                          alone == handle_batch(Succeeding(dev)[b], dev)
                      IN  /\ alone.dev = batch.dev
                          /\ alone.responses = Successes[batch.responses]
    BY DEF FailedCommandsDropOut
  <2>1. dev \in GoodStates
    BY <1>1 DEF RouterInv, GoodStates, GoodState
  <2>2. /\ b \in Seq(Commands) /\ Len(b) <= MAX_BATCH_SIZE
        /\ handle_batch(b, dev) = RunAll(dev)[b]
    BY <2>1, AcceptedRuns
  <2>3. Sifted(b, dev)
    BY <2>1, <2>2, AllSifted
  <2> DEFINE k == Succeeding(dev)[b]
  <2>4. k \in Seq(Commands) /\ Len(k) <= MAX_BATCH_SIZE /\ k # NONE
    <3>1. k \in Seq(Commands) /\ Len(k) <= Len(b)
      BY <2>2, <2>3, SucceedingSteps DEF Sifted
    <3>2. Len(k) \in Nat /\ Len(b) \in Nat
      BY <2>2, <3>1
    <3> QED BY <2>2, <3>1, <3>2, BatchAssumption
  <2>5. RunAll(dev)[k].dev = RunAll(dev)[b].dev /\ RunAll(dev)[k].responses = Successes[RunAll(dev)[b].responses]
    BY <2>3 DEF Sifted
  <2> HIDE DEF k
  <2>6. handle_batch(k, dev) = dispatch_batch(k, dev)
    <3>1. ~(Len(k) > MAX_BATCH_SIZE + 1)
      BY <2>4, BatchAssumption
    <3> QED BY <3>1 DEF handle_batch
  <2>7. CASE k # <<>>
    <3>1. ~(Len(k) > MAX_BATCH_SIZE)
      BY <2>4, BatchAssumption
    <3>2. dispatch_batch(k, dev) = RunAll(dev)[k]
      BY <2>4, <2>7, <3>1 DEF dispatch_batch
    <3> QED BY <2>2, <2>5, <2>6, <3>2 DEF k
  <2>8. CASE k = <<>>
    <3>1. dispatch_batch(k, dev).dev = dev /\ dispatch_batch(k, dev).responses = <<>>
      BY <2>8 DEF dispatch_batch, BatchRejected
    <3>2. RunAll(dev)[<<>>] = [error |-> NONE, responses |-> <<>>, dev |-> dev]
      BY <2>1, RunAllSteps
    <3>3. RunAll(dev)[k].dev = dev /\ RunAll(dev)[k].responses = <<>>
      BY <2>8, <3>2
    <3> QED BY <2>2, <2>5, <2>6, <3>1, <3>3 DEF k
  <2> QED BY <2>7, <2>8
<1> QED BY <1>1, BatchInvariance, PTL

--------------------------------------------------------------------------------
(* The calls of the client library *)

\* The fields that the handlers of the methods read.
MethodFields ==
    {"version", "pin", "mode", "pull", "uart", "baud", "data_bits", "parity", "stop_bits", "spi",
     "freq_hz", "cpol", "cpha", "i2c", "addr", "channel", "duty_u16", "adc_channel"}

\* What a method's command has in a field.
Field(fields, f) == IF f \in DOMAIN fields THEN fields[f] ELSE Blank[f]
\* The fields of a method's command.
LEMMA CommandFields ==
    ASSUME NEW i, NEW a, NEW fields
    PROVE  LET c == CommandOf(i, a, fields)
           IN  /\ c.id = next_id /\ c.interface = i /\ c.action = a
               /\ \A f \in MethodFields : c[f] = Field(fields, f)
<1> DEFINE w == [f \in DOMAIN Blank |-> Field(fields, f)]
           c == [w EXCEPT !.id = next_id, !.interface = i, !.action = a]
<1>1. CommandOf(i, a, fields) = c
  BY DEF CommandOf, Field
<1>2. {"id", "interface", "action"} \cup MethodFields \subseteq DOMAIN Blank
  BY DEF Blank, MethodFields
<1> HIDE DEF Field
<1>3. c.id = next_id /\ c.interface = i /\ c.action = a
  BY <1>2
<1>4. \A f \in MethodFields : f \notin {"id", "interface", "action"}
  BY DEF MethodFields
<1>5. \A f \in MethodFields : c[f] = Field(fields, f)
  BY <1>2, <1>4
<1> QED BY <1>1, <1>3, <1>5

\* A blank command has a version and nothing else.
LEMMA BlankFields ==
    Blank.version = 1 /\ \A f \in MethodFields \ {"version"} : Blank[f] = NONE
  BY DEF Blank, MethodFields

\* A call that carries no bytes.
Call(c, reads) == [command |-> c, reads |-> reads, binary |-> FALSE]

Understood(m, st) ==
    /\ Outcome(m, st) \in IF Legal(m.command) THEN {"ok", "not_configured"} ELSE Refusals
    /\ Outcome(m, st) = "ok" => Kept(m.command, respond(m.command, st).dev)

\* The firmware takes the route of c, and its channel has a place in Command.
Routed(c) == c.version = 1 /\ validate_route(c) = NONE /\ c.adc_channel \in Opt(AdcChannel)

\* What a routed call returns.
LEMMA RoutedAnswer ==
    ASSUME NEW c, Routed(c), NEW st, NEW reads
    PROVE  respond(c, st) = dispatch(c, st) /\ Answer(Call(c, reads), st) = dispatch(c, st).reply
<1>1. check_version(c) = NONE
  BY MethodAssumption DEF Routed, check_version
<1>2. respond(c, st) = dispatch(c, st)
  BY <1>1 DEF Routed, respond
<1>3. ~Unparsed(Call(c, reads)) /\ Call(c, reads).command = c
  BY DEF Unparsed, Call, Routed
<1> QED BY <1>2, <1>3 DEF Answer

\* A call that is done, gets the data it reads and leaves its arguments where they
\* belong is understood.
LEMMA DoneUnderstood ==
    ASSUME NEW c, Routed(c), NEW st, NEW new, NEW data, dispatch(c, st) = Done(c, new, data),
           Legal(c), Kept(c, new), NEW reads \in {NONE, data}
    PROVE  Understood(Call(c, reads), st)
<1> DEFINE m == Call(c, reads)
<1>1. m.command = c /\ m.reads = reads
  BY DEF Call
<1>2. Answer(m, st) = Response(c.id, NONE, data) /\ respond(c, st).dev = new
  BY RoutedAnswer DEF Done
<1>3. Response(c.id, NONE, data).ok /\ Response(c.id, NONE, data).data = data
  BY DEF Response
<1> HIDE DEF m
<1>4. Outcome(m, st) = "ok"
  BY <1>1, <1>2, <1>3 DEF Outcome
<1> QED BY <1>1, <1>2, <1>4 DEF Understood, m

\* So is one that is refused for a legal reason.
LEMMA RefusedUnderstood ==
    ASSUME NEW c, Routed(c), NEW st,
           NEW e \in {"value_out_of_range", "invalid_pin", "not_configured"},
           dispatch(c, st) = Fail(c, st, e), Legal(c) => e = "not_configured", NEW reads
    PROVE  Understood(Call(c, reads), st)
<1> DEFINE m == Call(c, reads)
<1>1. m.command = c
  BY DEF Call
<1>2. Answer(m, st) = Response(c.id, e, NONE)
  BY RoutedAnswer DEF Fail
<1>3. e # NONE
  BY RouterAssumption DEF ErrorCode
<1>4. ~Response(c.id, e, NONE).ok /\ Response(c.id, e, NONE).error = e
  BY <1>3 DEF Response
<1> HIDE DEF m
<1>5. Outcome(m, st) = e
  BY <1>2, <1>4 DEF Outcome
<1>6. e \in IF Legal(c) THEN {"ok", "not_configured"} ELSE Refusals
  BY DEF Refusals
<1> QED BY <1>1, <1>5, <1>6 DEF Understood, m

\* So is one whose channel the firmware has no number for.
LEMMA MalformedUnderstood ==
    ASSUME NEW c, c.adc_channel \notin Opt(AdcChannel), NEW st, NEW reads
    PROVE  Understood(Call(c, reads), st)
<1> DEFINE m == Call(c, reads)
<1>1. m.command = c /\ Unparsed(m)
  BY DEF Call, Unparsed
<1> HIDE DEF m
<1>2. Answer(m, st) = Response(EMPTY_ID, "malformed_json", NONE)
  BY <1>1 DEF Answer
<1>3. "malformed_json" # NONE
  BY BatchAssumption
<1>4. ~Response(EMPTY_ID, "malformed_json", NONE).ok
      /\ Response(EMPTY_ID, "malformed_json", NONE).error = "malformed_json"
  BY <1>3 DEF Response
<1>5. Outcome(m, st) = "malformed_json"
  BY <1>2, <1>4 DEF Outcome
<1>6. ~Legal(c)
  <2>1. "adc_channel" \in DOMAIN FieldRange /\ FieldRange["adc_channel"] = AdcChannel
    BY DEF FieldRange
  <2> QED BY <2>1 DEF Legal
<1> QED BY <1>1, <1>5, <1>6 DEF Understood, Refusals, m

\* The routes that methods without bytes take.
Routes ==
    {<<"gpio", "write">>, <<"gpio", "read">>, <<"gpio", "set_mode">>, <<"adc", "read">>,
     <<"uart", "configure">>, <<"uart", "read">>, <<"spi", "configure">>, <<"i2c", "configure">>,
     <<"i2c", "read">>, <<"pwm", "set_duty">>, <<"pwm", "set_freq">>, <<"pwm", "enable">>, <<"pwm", "disable">>,
     <<"usb", "read">>, <<"config", "get">>}

\* The command of a method: with its fields and without others, known by its route and
\* legal if these fields are.
LEMMA CommandRouted ==
    ASSUME NEW i, NEW a, <<i, a>> \in Routes, NEW fields,
           DOMAIN fields \subseteq MethodFields \ {"version"},
           "adc_channel" \in DOMAIN fields => fields["adc_channel"] \in AdcChannel
    PROVE  LET c == CommandOf(i, a, fields)
           IN  /\ Routed(c) /\ c.interface = i /\ c.action = a
               /\ \A f \in MethodFields \ {"version"} :
                     c[f] = IF f \in DOMAIN fields THEN fields[f] ELSE NONE
<1> DEFINE c == CommandOf(i, a, fields)
<1>1. c.interface = i /\ c.action = a /\ \A f \in MethodFields : c[f] = Field(fields, f)
  BY CommandFields
<1> HIDE DEF c
<1>2. \A f \in MethodFields \ {"version"} : c[f] = IF f \in DOMAIN fields THEN fields[f] ELSE NONE
  BY <1>1, BlankFields DEF Field
<1>3. c.version = 1
  <2>1. "version" \in MethodFields
    BY DEF MethodFields
  <2> QED BY <1>1, <2>1, BlankFields DEF Field
<1>4. i # NONE /\ a # NONE
  <2>1. i \in DOMAIN VALID_ROUTES /\ a \in Actions
    BY DEF Routes, VALID_ROUTES, Actions
  <2> QED BY <2>1, MethodAssumption, RouterAssumption
<1>5. i \in DOMAIN VALID_ROUTES /\ a \in VALID_ROUTES[i]
  BY DEF Routes, VALID_ROUTES
<1>6. validate_route(c) = NONE
  BY <1>1, <1>4, <1>5 DEF validate_route
<1>7. c.adc_channel \in Opt(AdcChannel)
  <2>1. "adc_channel" \in MethodFields \ {"version"}
    BY DEF MethodFields
  <2> QED BY <1>2, <2>1 DEF Opt
<1> QED BY <1>1, <1>2, <1>3, <1>6, <1>7 DEF Routed, c

\* Fields that are absent are legal.
LEMMA LegalFields ==
    ASSUME NEW c, NEW F, \A f \in MethodFields \ {"version"} : f \notin F => c[f] = NONE
    PROVE  Legal(c) <=> /\ \A f \in F \cap DOMAIN FieldRange : c[f] \in Opt(FieldRange[f])
                        /\ c.interface = "i2c" => c.freq_hz \in Opt({100000, 400000})
<1>1. DOMAIN FieldRange \subseteq MethodFields \ {"version"}
  BY DEF FieldRange, MethodFields
<1> QED BY <1>1 DEF Legal, Opt

\* The routes that need hardware are answered not_configured.
LEMMA HardwareUnderstood ==
    ASSUME NEW c, Routed(c), NEW st, NEW reads,
           \/ c.interface = "gpio" /\ c.action \in {"write", "read"}
           \/ c.interface \in {"uart", "i2c", "usb"} /\ c.action = "read"
           \/ c.interface = "adc" /\ c.action = "read" /\ c.adc_channel # NONE
    PROVE  Understood(Call(c, reads), st)
<1>1. "not_configured" # NONE
  BY RouterAssumption DEF ErrorCode
<1>2. dispatch(c, st) = Stateless(c, st)
  BY DEF dispatch
<1>3. StatelessError(c, st) = "not_configured"
  BY DEF StatelessError, validate_read, Require, ??
<1>4. dispatch(c, st) = Fail(c, st, "not_configured")
  BY <1>1, <1>2, <1>3 DEF Stateless
<1> QED BY <1>4, RefusedUnderstood

\* A method without an effect and without data is done when its checks pass, and
\* refused when one of them fails.
LEMMA StatelessUnderstood ==
    ASSUME NEW c, Routed(c), NEW st, dispatch(c, st) = Stateless(c, st), c.action # "configure",
           StatelessError(c, st) \in {NONE, "value_out_of_range", "invalid_pin"},
           Legal(c) <=> StatelessError(c, st) = NONE
    PROVE  Understood(Call(c, NONE), st)
<1>1. CASE StatelessError(c, st) = NONE
  <2>1. dispatch(c, st) = Done(c, st, NONE)
    BY <1>1 DEF Stateless
  <2>2. Kept(c, st)
    BY DEF Kept
  <2> QED BY <1>1, <2>1, <2>2, DoneUnderstood
<1>2. CASE StatelessError(c, st) # NONE
  <2>1. dispatch(c, st) = Fail(c, st, StatelessError(c, st))
    BY <1>2 DEF Stateless
  <2> QED BY <1>2, <2>1, RefusedUnderstood
<1> QED BY <1>1, <1>2

\* No argument is absent.
LEMMA ArgumentsPresent ==
    NONE \notin Pins \cup Buses \cup Channels \cup Settings \cup Numbers \cup Words
<1>1. U8 \subseteq Nat
  BY DEF U8, U8_MAX
<1>2. Pins \cup Buses \cup Channels \cup Settings \cup Numbers \subseteq Nat
  BY <1>1, MethodAssumption
<1> QED BY <1>2, MethodAssumption

\* The methods on pins.
LEMMA GpioMethods ==
    ASSUME NEW m \in gpio_write \cup gpio_read \cup gpio_set_mode, NEW st
    PROVE  Understood(m, st)
<1>1. ASSUME NEW p \in Pins PROVE Understood(Plain("gpio", "write", [pin |-> p]), st)
  <2> DEFINE c == CommandOf("gpio", "write", [pin |-> p])
  <2>1. Routed(c) /\ c.interface = "gpio" /\ c.action = "write"
    BY CommandRouted DEF Routes, MethodFields
  <2>2. Plain("gpio", "write", [pin |-> p]) = Call(c, NONE)
    BY DEF Plain, Method, Call
  <2> HIDE DEF c
  <2> QED BY <2>1, <2>2, HardwareUnderstood
<1>2. ASSUME NEW p \in Pins PROVE Understood(Reading("gpio", "read", [pin |-> p], "value"), st)
  <2> DEFINE c == CommandOf("gpio", "read", [pin |-> p])
  <2>1. Routed(c) /\ c.interface = "gpio" /\ c.action = "read"
    BY CommandRouted DEF Routes, MethodFields
  <2>2. Reading("gpio", "read", [pin |-> p], "value") = Call(c, "value")
    BY DEF Reading, Method, Call
  <2> HIDE DEF c
  <2> QED BY <2>1, <2>2, HardwareUnderstood
<1>3. ASSUME NEW p \in Pins, NEW o \in Words, NEW l \in Words
      PROVE  Understood(Plain("gpio", "set_mode", [pin |-> p, mode |-> o, pull |-> l]), st)
  <2> DEFINE f == [pin |-> p, mode |-> o, pull |-> l]
             c == CommandOf("gpio", "set_mode", f)
  <2>1. DOMAIN f = {"pin", "mode", "pull"} /\ f.pin = p /\ f.mode = o /\ f.pull = l
    OBVIOUS
  <2>2. Plain("gpio", "set_mode", f) = Call(c, NONE)
    BY DEF Plain, Method, Call
  <2> HIDE DEF f
  <2>3. /\ Routed(c) /\ c.interface = "gpio" /\ c.action = "set_mode"
        /\ \A x \in MethodFields \ {"version"} : c[x] = IF x \in DOMAIN f THEN f[x] ELSE NONE
    BY <2>1, CommandRouted DEF Routes, MethodFields
  <2> HIDE DEF c
  <2>4. c.pin = p /\ c.mode = o /\ c.pull = l
    BY <2>1, <2>3 DEF MethodFields
  <2>5. p # NONE /\ o # NONE /\ l # NONE /\ p \in Nat
    BY ArgumentsPresent, MethodAssumption DEF U8, U8_MAX
  <2>6. Legal(c) <=> p \in 0..22 /\ o \in {"input", "output"} /\ l \in {"up", "down", "none"}
    <3>1. Legal(c) <=> \A x \in {"pin", "mode", "pull"} \cap DOMAIN FieldRange : c[x] \in Opt(FieldRange[x])
      BY <2>1, <2>3, LegalFields
    <3>2. /\ {"pin", "mode", "pull"} \subseteq DOMAIN FieldRange
          /\ FieldRange["pin"] = 0..22 /\ FieldRange["mode"] = {"input", "output"}
          /\ FieldRange["pull"] = {"up", "down", "none"}
      BY DEF FieldRange
    <3> QED BY <3>1, <3>2, <2>4, <2>5 DEF Opt
  <2>7. validate_pin(c) = IF p \in 0..22 THEN NONE ELSE "invalid_pin"
    BY <2>4, <2>5 DEF validate_pin, is_pin_available, Require, ??
  <2>8. handle_set_mode(c) \in {NONE, "value_out_of_range", "invalid_pin"} /\ (Legal(c) <=> handle_set_mode(c) = NONE)
    <3>1. "value_out_of_range" # NONE /\ "invalid_pin" # NONE
      BY RouterAssumption DEF ErrorCode
    <3> QED BY <2>4, <2>5, <2>6, <2>7, <3>1 DEF handle_set_mode, Require, InRange, Optional, Opt, ??
  <2>9. dispatch(c, st) = Stateless(c, st) /\ StatelessError(c, st) = handle_set_mode(c)
    BY <2>3 DEF dispatch, StatelessError
  <2> QED BY <2>2, <2>3, <2>8, <2>9, StatelessUnderstood DEF f
<1> HIDE DEF Understood
<1>4. CASE m \in gpio_write
  BY <1>1, <1>4 DEF gpio_write
<1>5. CASE m \in gpio_read
  BY <1>2, <1>5 DEF gpio_read
<1>6. CASE m \in gpio_set_mode
  <2>1. PICK p \in Pins, o \in Words, l \in Words :
          m = Plain("gpio", "set_mode", [pin |-> p, mode |-> o, pull |-> l])
    BY <1>6 DEF gpio_set_mode
  <2> QED BY <1>3, <2>1
<1> QED BY <1>4, <1>5, <1>6

\* The methods on the converter, temperature included.
LEMMA AdcMethods ==
    ASSUME NEW m \in adc_read \cup adc_temp, NEW st
    PROVE  Understood(m, st)
<1>1. ASSUME NEW ch \in Nat, NEW data
      PROVE  Understood(Reading("adc", "read", [adc_channel |-> ch], data), st)
  <2> DEFINE f == [adc_channel |-> ch]
             c == CommandOf("adc", "read", f)
  <2>1. DOMAIN f = {"adc_channel"} /\ f.adc_channel = ch
    OBVIOUS
  <2>2. Reading("adc", "read", f, data) = Call(c, data)
    BY DEF Reading, Method, Call
  <2> HIDE DEF f
  <2>3. ch # NONE
    BY MethodAssumption
  <2>4. CASE ch \in AdcChannel
    <3>1. /\ Routed(c) /\ c.interface = "adc" /\ c.action = "read"
          /\ \A x \in MethodFields \ {"version"} : c[x] = IF x \in DOMAIN f THEN f[x] ELSE NONE
      BY <2>1, <2>4, CommandRouted DEF Routes, MethodFields
    <3> HIDE DEF c
    <3>2. c.adc_channel # NONE
      BY <2>1, <2>3, <3>1 DEF MethodFields
    <3> QED BY <2>2, <3>1, <3>2, HardwareUnderstood DEF f
  <2>5. CASE ch \notin AdcChannel
    <3>1. c.adc_channel = ch
      BY <2>1, CommandFields DEF MethodFields, Field
    <3> QED BY <2>2, <2>3, <2>5, <3>1, MalformedUnderstood DEF Opt, f
  <2> QED BY <2>4, <2>5
<1> HIDE DEF Understood
<1>2. CASE m \in adc_read
  <2>1. PICK ch \in Channels : m = Reading("adc", "read", [adc_channel |-> ch], "sample")
    BY <1>2 DEF adc_read
  <2> QED BY <1>1, <2>1, MethodAssumption DEF U8, U8_MAX
<1>3. CASE m \in adc_temp
  BY <1>1, <1>3 DEF adc_temp
<1> QED BY <1>2, <1>3

\* The configuration of a UART: done with its arguments, or refused for one of them.
LEMMA UartMethods ==
    ASSUME NEW m \in uart_configure, NEW st \in DeviceState
    PROVE  Understood(m, st)
<1>1. PICK u \in Buses, b \in Numbers, d \in Settings, p \in Words, s \in Settings :
        m = Plain("uart", "configure", [uart |-> u, baud |-> b, data_bits |-> d,
                                        parity |-> p, stop_bits |-> s])
  BY DEF uart_configure
<1> DEFINE F == {"uart", "baud", "data_bits", "parity", "stop_bits"}
           f == [uart |-> u, baud |-> b, data_bits |-> d, parity |-> p, stop_bits |-> s]
           c == CommandOf("uart", "configure", f)
<1>2. /\ DOMAIN f = F
      /\ f.uart = u /\ f.baud = b /\ f.data_bits = d /\ f.parity = p /\ f.stop_bits = s
  OBVIOUS
<1>3. m = Call(c, NONE)
  BY <1>1 DEF Plain, Method, Call
<1> HIDE DEF f
<1>4. /\ Routed(c) /\ c.interface = "uart" /\ c.action = "configure"
      /\ \A x \in MethodFields \ {"version"} : c[x] = IF x \in DOMAIN f THEN f[x] ELSE NONE
  BY <1>2, CommandRouted DEF Routes, MethodFields
<1> HIDE DEF c
<1>5. c.uart = u /\ c.baud = b /\ c.data_bits = d /\ c.parity = p /\ c.stop_bits = s
  BY <1>2, <1>4 DEF MethodFields
<1>6. /\ u # NONE /\ b # NONE /\ d # NONE /\ p # NONE /\ s # NONE
      /\ u \in Nat /\ b \in Nat /\ d \in Nat /\ s \in Nat /\ NONE # "value_out_of_range"
  BY ArgumentsPresent, MethodAssumption, RouterAssumption DEF U8, U8_MAX, ErrorCode
<1>7. Legal(c) <=> u \in 0..1 /\ b > 0 /\ d \in {7, 8} /\ p \in Parity /\ s \in {1, 2}
  <2>1. Legal(c) <=> \A x \in F \cap DOMAIN FieldRange : c[x] \in Opt(FieldRange[x])
    BY <1>2, <1>4, LegalFields
  <2>2. /\ F \subseteq DOMAIN FieldRange
        /\ FieldRange["uart"] = 0..1 /\ FieldRange["baud"] = Nat \ {0}
        /\ FieldRange["data_bits"] = {7, 8} /\ FieldRange["parity"] = Parity
        /\ FieldRange["stop_bits"] = {1, 2}
    BY DEF FieldRange
  <2>3. \A x \in F : c[x] \in Opt(FieldRange[x]) <=> c[x] \in FieldRange[x]
    BY <1>5, <1>6 DEF Opt
  <2>4. Legal(c) <=> /\ c["uart"] \in 0..1 /\ c["baud"] \in Nat \ {0} /\ c["data_bits"] \in {7, 8}
                     /\ c["parity"] \in Parity /\ c["stop_bits"] \in {1, 2}
    BY <2>1, <2>2, <2>3
  <2> QED BY <1>5, <1>6, <2>4
<1>8. /\ validate_index(c.uart, 1) = InRange(u \in 0..1)
      /\ RequirePositive(c.baud) = InRange(b > 0)
      /\ Optional(c.data_bits, {7, 8}) = InRange(d \in {7, 8})
      /\ Optional(c.parity, Parity) = InRange(p \in Parity)
      /\ Optional(c.stop_bits, {1, 2}) = InRange(s \in {1, 2})
  BY <1>5, <1>6 DEF validate_index, RequirePositive, Optional, Require, InRange, Opt, ??
<1>9. UartConfigureError(c) = InRange(Legal(c))
  BY <1>6, <1>7, <1>8 DEF UartConfigureError, InRange, ??
<1>10. dispatch(c, st) = uart_handle_configure(c, st)
  BY <1>4 DEF dispatch
<1>11. CASE Legal(c)
  <2> DEFINE cfg == [baud |-> b, data_bits |-> d, parity |-> p, stop_bits |-> s, configured |-> TRUE]
             new == [st EXCEPT !.uart[u] = cfg]
  <2>1. uart_handle_configure(c, st) = Done(c, new, NONE)
    BY <1>5, <1>6, <1>9, <1>11 DEF uart_handle_configure, UnwrapOr, InRange
  <2>2. new.uart[u] = cfg
    BY <1>7, <1>11 DEF DeviceState
  <2> HIDE DEF new
  <2>3. Kept(c, new)
    BY <1>4, <1>5, <2>2 DEF Kept
  <2> QED BY <1>3, <1>4, <1>10, <1>11, <2>1, <2>3, DoneUnderstood
<1>12. CASE ~Legal(c)
  <2>1. dispatch(c, st) = Fail(c, st, "value_out_of_range")
    BY <1>6, <1>9, <1>10, <1>12 DEF uart_handle_configure, InRange
  <2> QED BY <1>3, <1>4, <1>12, <2>1, RefusedUnderstood
<1> QED BY <1>11, <1>12

\* So is that of an SPI bus.
LEMMA SpiMethods ==
    ASSUME NEW m \in spi_configure, NEW st \in DeviceState
    PROVE  Understood(m, st)
<1>1. PICK u \in Buses, q \in Numbers, l \in Settings, h \in Settings :
        m = Plain("spi", "configure", [spi |-> u, freq_hz |-> q, cpol |-> l, cpha |-> h])
  BY DEF spi_configure
<1> DEFINE F == {"spi", "freq_hz", "cpol", "cpha"}
           f == [spi |-> u, freq_hz |-> q, cpol |-> l, cpha |-> h]
           c == CommandOf("spi", "configure", f)
<1>2. DOMAIN f = F /\ f.spi = u /\ f.freq_hz = q /\ f.cpol = l /\ f.cpha = h
  OBVIOUS
<1>3. m = Call(c, NONE)
  BY <1>1 DEF Plain, Method, Call
<1> HIDE DEF f
<1>4. /\ Routed(c) /\ c.interface = "spi" /\ c.action = "configure"
      /\ \A x \in MethodFields \ {"version"} : c[x] = IF x \in DOMAIN f THEN f[x] ELSE NONE
  BY <1>2, CommandRouted DEF Routes, MethodFields
<1> HIDE DEF c
<1>5. c.spi = u /\ c.freq_hz = q /\ c.cpol = l /\ c.cpha = h
  BY <1>2, <1>4 DEF MethodFields
<1>6. /\ u # NONE /\ q # NONE /\ l # NONE /\ h # NONE
      /\ u \in Nat /\ q \in Nat /\ l \in Nat /\ h \in Nat /\ NONE # "value_out_of_range"
  BY ArgumentsPresent, MethodAssumption, RouterAssumption DEF U8, U8_MAX, ErrorCode
<1>7. Legal(c) <=> u \in 0..1 /\ q > 0 /\ l \in 0..1 /\ h \in 0..1
  <2>1. Legal(c) <=> \A x \in F \cap DOMAIN FieldRange : c[x] \in Opt(FieldRange[x])
    BY <1>2, <1>4, LegalFields
  <2>2. /\ F \subseteq DOMAIN FieldRange
        /\ FieldRange["spi"] = 0..1 /\ FieldRange["freq_hz"] = Nat \ {0}
        /\ FieldRange["cpol"] = 0..1 /\ FieldRange["cpha"] = 0..1
    BY DEF FieldRange
  <2>3. \A x \in F : c[x] \in Opt(FieldRange[x]) <=> c[x] \in FieldRange[x]
    BY <1>5, <1>6 DEF Opt
  <2>4. Legal(c) <=> /\ c["spi"] \in 0..1 /\ c["freq_hz"] \in Nat \ {0}
                     /\ c["cpol"] \in 0..1 /\ c["cpha"] \in 0..1
    BY <2>1, <2>2, <2>3
  <2> QED BY <1>5, <1>6, <2>4
<1>8. /\ validate_index(c.spi, 1) = InRange(u \in 0..1)
      /\ RequirePositive(c.freq_hz) = InRange(q > 0)
      /\ Optional(c.cpol, {0, 1}) = InRange(l \in 0..1)
      /\ Optional(c.cpha, {0, 1}) = InRange(h \in 0..1)
  BY <1>5, <1>6 DEF validate_index, RequirePositive, Optional, Require, InRange, Opt, ??
<1>9. SpiConfigureError(c) = InRange(Legal(c))
  BY <1>6, <1>7, <1>8 DEF SpiConfigureError, InRange, ??
<1>10. dispatch(c, st) = spi_handle_configure(c, st)
  BY <1>4 DEF dispatch
<1>11. CASE Legal(c)
  <2> DEFINE cfg == [freq_hz |-> q, cpol |-> l, cpha |-> h, configured |-> TRUE]
             new == [st EXCEPT !.spi[u] = cfg]
  <2>1. spi_handle_configure(c, st) = Done(c, new, NONE)
    BY <1>5, <1>6, <1>9, <1>11 DEF spi_handle_configure, UnwrapOr, InRange
  <2>2. new.spi[u] = cfg
    BY <1>7, <1>11 DEF DeviceState
  <2> HIDE DEF new
  <2>3. Kept(c, new)
    BY <1>4, <1>5, <2>2 DEF Kept
  <2> QED BY <1>3, <1>4, <1>10, <1>11, <2>1, <2>3, DoneUnderstood
<1>12. CASE ~Legal(c)
  <2>1. dispatch(c, st) = Fail(c, st, "value_out_of_range")
    BY <1>6, <1>9, <1>10, <1>12 DEF spi_handle_configure, InRange
  <2> QED BY <1>3, <1>4, <1>12, <2>1, RefusedUnderstood
<1> QED BY <1>11, <1>12

\* And that of an I2C bus.
LEMMA I2cMethods ==
    ASSUME NEW m \in i2c_configure, NEW st \in DeviceState
    PROVE  Understood(m, st)
<1>1. PICK u \in Buses, q \in Numbers :
        m = Plain("i2c", "configure", [i2c |-> u, freq_hz |-> q])
  BY DEF i2c_configure
<1> DEFINE F == {"i2c", "freq_hz"}
           f == [i2c |-> u, freq_hz |-> q]
           c == CommandOf("i2c", "configure", f)
<1>2. DOMAIN f = F /\ f.i2c = u /\ f.freq_hz = q
  OBVIOUS
<1>3. m = Call(c, NONE)
  BY <1>1 DEF Plain, Method, Call
<1> HIDE DEF f
<1>4. /\ Routed(c) /\ c.interface = "i2c" /\ c.action = "configure"
      /\ \A x \in MethodFields \ {"version"} : c[x] = IF x \in DOMAIN f THEN f[x] ELSE NONE
  BY <1>2, CommandRouted DEF Routes, MethodFields
<1> HIDE DEF c
<1>5. c.i2c = u /\ c.freq_hz = q
  BY <1>2, <1>4 DEF MethodFields
<1>6. u # NONE /\ q # NONE /\ u \in Nat /\ q \in Nat /\ NONE # "value_out_of_range"
  BY ArgumentsPresent, MethodAssumption, RouterAssumption DEF U8, U8_MAX, ErrorCode
<1>7. Legal(c) <=> u \in 0..1 /\ q \in {100000, 400000}
  <2>1. Legal(c) <=> /\ \A x \in F \cap DOMAIN FieldRange : c[x] \in Opt(FieldRange[x])
                     /\ c.freq_hz \in Opt({100000, 400000})
    BY <1>2, <1>4, LegalFields
  <2>2. /\ F \subseteq DOMAIN FieldRange
        /\ FieldRange["i2c"] = 0..1 /\ FieldRange["freq_hz"] = Nat \ {0}
    BY DEF FieldRange
  <2>3. \A x \in F : c[x] \in Opt(FieldRange[x]) <=> c[x] \in FieldRange[x]
    BY <1>5, <1>6 DEF Opt
  <2>4. Legal(c) <=> /\ c["i2c"] \in 0..1 /\ c["freq_hz"] \in Nat \ {0}
                     /\ c.freq_hz \in Opt({100000, 400000})
    BY <2>1, <2>2, <2>3
  <2> QED BY <1>5, <1>6, <2>4 DEF Opt
<1>8. /\ validate_index(c.i2c, 1) = InRange(u \in 0..1) /\ Require(c.freq_hz) = NONE
      /\ InRange(c.freq_hz \in {100000, 400000}) = InRange(q \in {100000, 400000})
  BY <1>5, <1>6 DEF validate_index, Require, InRange, ??
<1>9. I2cConfigureError(c) = InRange(Legal(c))
  BY <1>6, <1>7, <1>8 DEF I2cConfigureError, InRange, ??
<1>10. dispatch(c, st) = i2c_handle_configure(c, st)
  BY <1>4 DEF dispatch
<1>11. CASE Legal(c)
  <2> DEFINE cfg == [freq_hz |-> q, configured |-> TRUE]
             new == [st EXCEPT !.i2c[u] = cfg]
  <2>1. i2c_handle_configure(c, st) = Done(c, new, NONE)
    BY <1>5, <1>6, <1>9, <1>11 DEF i2c_handle_configure, InRange
  <2>2. new.i2c[u] = cfg
    BY <1>7, <1>11 DEF DeviceState
  <2> HIDE DEF new
  <2>3. Kept(c, new)
    BY <1>4, <1>5, <2>2 DEF Kept
  <2> QED BY <1>3, <1>4, <1>10, <1>11, <2>1, <2>3, DoneUnderstood
<1>12. CASE ~Legal(c)
  <2>1. dispatch(c, st) = Fail(c, st, "value_out_of_range")
    BY <1>6, <1>9, <1>10, <1>12 DEF i2c_handle_configure, InRange
  <2> QED BY <1>3, <1>4, <1>12, <2>1, RefusedUnderstood
<1> QED BY <1>11, <1>12

\* A channel is refused if the device does not have it.
LEMMA ChannelChecked ==
    ASSUME NEW c, c.channel \in Channels
    PROVE  /\ validate_channel(c) = InRange(c.channel \in 0..15)
           /\ c.channel \in Opt(FieldRange["channel"]) <=> c.channel \in 0..15
<1>1. c.channel \in Nat /\ c.channel # NONE
  BY ArgumentsPresent, MethodAssumption DEF U8, U8_MAX
<1>2. FieldRange["channel"] = 0..15
  BY DEF FieldRange
<1> QED BY <1>1, <1>2 DEF validate_channel, validate_index, Require, InRange, Opt, ??

\* The methods on PWM channels: which fields they send, and what their checks say.
LEMMA PwmUnderstood ==
    ASSUME NEW f, NEW a, NEW st, DOMAIN f \subseteq {"channel", "duty_u16", "freq_hz"},
           "channel" \in DOMAIN f, f["channel"] \in Channels,
           \A x \in DOMAIN f \ {"channel"} : f[x] \in Numbers,
           \/ a = "set_duty" /\ DOMAIN f = {"channel", "duty_u16"}
           \/ a = "set_freq" /\ DOMAIN f = {"channel", "freq_hz"}
           \/ a \in {"enable", "disable"} /\ DOMAIN f = {"channel"}
    PROVE  Understood(Plain("pwm", a, f), st)
<1> DEFINE c == CommandOf("pwm", a, f)
<1>1. Plain("pwm", a, f) = Call(c, NONE)
  BY DEF Plain, Method, Call
<1>2. /\ Routed(c) /\ c.interface = "pwm" /\ c.action = a
      /\ \A x \in MethodFields \ {"version"} : c[x] = IF x \in DOMAIN f THEN f[x] ELSE NONE
  BY CommandRouted DEF Routes, MethodFields
<1> HIDE DEF c
<1>3. \A x \in DOMAIN f : c[x] = f[x]
  BY <1>2 DEF MethodFields
<1>4. /\ validate_channel(c) = InRange(c.channel \in 0..15)
      /\ c["channel"] \in Opt(FieldRange["channel"]) <=> c.channel \in 0..15
  BY <1>3, ChannelChecked
<1>5. Legal(c) <=> \A x \in DOMAIN f \cap DOMAIN FieldRange : c[x] \in Opt(FieldRange[x])
  BY <1>2, LegalFields
<1>6. /\ "channel" \in DOMAIN FieldRange /\ "duty_u16" \notin DOMAIN FieldRange
      /\ "freq_hz" \in DOMAIN FieldRange /\ FieldRange["freq_hz"] = Nat \ {0}
  BY DEF FieldRange
<1>7. "value_out_of_range" # NONE
  BY RouterAssumption DEF ErrorCode
<1>8. dispatch(c, st) = Stateless(c, st)
  BY <1>2 DEF dispatch
<1>9. StatelessError(c, st) \in {NONE, "value_out_of_range"} /\ (Legal(c) <=> StatelessError(c, st) = NONE)
  <2>1. CASE a = "set_duty"
    <3>1. StatelessError(c, st) = handle_set_duty(c)
      BY <1>2, <2>1 DEF StatelessError
    <3>2. Require(c.duty_u16) = NONE
      BY <1>3, <2>1, ArgumentsPresent DEF Require
    <3>3. Legal(c) <=> c.channel \in 0..15
      BY <1>4, <1>5, <1>6, <2>1
    <3> QED BY <1>4, <1>7, <3>1, <3>2, <3>3 DEF handle_set_duty, InRange, ??
  <2>2. CASE a = "set_freq"
    <3>1. StatelessError(c, st) = handle_set_freq(c)
      BY <1>2, <2>2 DEF StatelessError
    <3>2. c.freq_hz \in Nat /\ c.freq_hz # NONE
      BY <1>3, <2>2, ArgumentsPresent, MethodAssumption
    <3>3. RequirePositive(c.freq_hz) = InRange(c.freq_hz > 0)
      BY <3>2 DEF RequirePositive, Require, InRange, ??
    <3>4. c["freq_hz"] \in Opt(FieldRange["freq_hz"]) <=> c.freq_hz > 0
      BY <1>6, <3>2 DEF Opt
    <3>5. Legal(c) <=> c.channel \in 0..15 /\ c.freq_hz > 0
      BY <1>4, <1>5, <1>6, <2>2, <3>4
    <3> QED BY <1>4, <1>7, <3>1, <3>3, <3>5 DEF handle_set_freq, InRange, ??
  <2>3. CASE a \in {"enable", "disable"}
    <3>1. StatelessError(c, st) = validate_channel(c)
      BY <1>2, <2>3 DEF StatelessError
    <3>2. Legal(c) <=> c.channel \in 0..15
      BY <1>4, <1>5, <1>6, <2>3
    <3> QED BY <1>4, <1>7, <3>1, <3>2 DEF InRange
  <2> QED BY <2>1, <2>2, <2>3
<1>10. c.action # "configure"
  BY <1>2
<1> QED BY <1>1, <1>2, <1>8, <1>9, <1>10, StatelessUnderstood

\* So all of them are understood.
LEMMA PwmMethods ==
    ASSUME NEW m \in pwm_set_duty \cup pwm_set_freq \cup pwm_enable \cup pwm_disable, NEW st
    PROVE  Understood(m, st)
<1> HIDE DEF Understood
<1>1. CASE m \in pwm_set_duty
  <2>1. PICK ch \in Channels, q \in Numbers : m = Plain("pwm", "set_duty", [channel |-> ch, duty_u16 |-> q])
    <3> DEFINE P(ch, q) == Plain("pwm", "set_duty", [channel |-> ch, duty_u16 |-> q])
    <3>1. pwm_set_duty = {P(ch, q) : ch \in Channels, q \in Numbers}
      BY DEF pwm_set_duty
    <3> HIDE DEF P
    <3>2. \E ch \in Channels, q \in Numbers : m = P(ch, q)
      BY <1>1, <3>1
    <3> QED BY <3>2 DEF P
  <2> DEFINE f == [channel |-> ch, duty_u16 |-> q]
  <2>2. DOMAIN f = {"channel", "duty_u16"} /\ f["channel"] = ch /\ f["duty_u16"] = q
    OBVIOUS
  <2> HIDE DEF f
  <2> QED BY <2>1, <2>2, PwmUnderstood DEF f
<1>2. CASE m \in pwm_set_freq
  <2>1. PICK ch \in Channels, q \in Numbers : m = Plain("pwm", "set_freq", [channel |-> ch, freq_hz |-> q])
    BY <1>2 DEF pwm_set_freq
  <2> DEFINE f == [channel |-> ch, freq_hz |-> q]
  <2>2. DOMAIN f = {"channel", "freq_hz"} /\ f["channel"] = ch /\ f["freq_hz"] = q
    OBVIOUS
  <2> HIDE DEF f
  <2> QED BY <2>1, <2>2, PwmUnderstood DEF f
<1>3. CASE m \in pwm_enable \cup pwm_disable
  <2>1. PICK ch \in Channels, a \in {"enable", "disable"} : m = Plain("pwm", a, [channel |-> ch])
    BY <1>3 DEF pwm_enable, pwm_disable
  <2> DEFINE f == [channel |-> ch]
  <2>2. DOMAIN f = {"channel"} /\ f["channel"] = ch
    OBVIOUS
  <2> HIDE DEF f
  <2> QED BY <2>1, <2>2, PwmUnderstood DEF f
<1> QED BY <1>1, <1>2, <1>3

\* The reads that have no fields or one.
LEMMA ReadMethods ==
    ASSUME NEW m \in uart_read \cup i2c_read \cup usb_read \cup config_get, NEW st
    PROVE  Understood(m, st)
<1>1. DOMAIN NoFields = {}
  BY DEF NoFields
<1>2. CASE m \in uart_read
  <2>1. PICK u \in Buses : m = Reading("uart", "read", [uart |-> u], "bytes")
    BY <1>2 DEF uart_read
  <2> DEFINE c == CommandOf("uart", "read", [uart |-> u])
  <2>2. Routed(c) /\ c.interface = "uart" /\ c.action = "read"
    BY CommandRouted DEF Routes, MethodFields
  <2>3. m = Call(c, "bytes")
    BY <2>1 DEF Reading, Method, Call
  <2> HIDE DEF c
  <2> QED BY <2>2, <2>3, HardwareUnderstood
<1>3. CASE m \in usb_read
  <2> DEFINE c == CommandOf("usb", "read", NoFields)
  <2>1. Routed(c) /\ c.interface = "usb" /\ c.action = "read"
    BY <1>1, CommandRouted DEF Routes
  <2>2. m = Call(c, "bytes")
    BY <1>3 DEF usb_read, Reading, Method, Call
  <2> HIDE DEF c
  <2> QED BY <2>1, <2>2, HardwareUnderstood
<1>4. CASE m \in config_get
  <2> DEFINE c == CommandOf("config", "get", NoFields)
  <2>1. /\ Routed(c) /\ c.interface = "config" /\ c.action = "get"
        /\ \A x \in MethodFields \ {"version"} : c[x] = NONE
    BY <1>1, CommandRouted DEF Routes
  <2>2. m = Call(c, "config")
    BY <1>4 DEF config_get, Reading, Method, Call
  <2> HIDE DEF c
  <2>3. dispatch(c, st) = Done(c, st, "config")
    BY <2>1 DEF dispatch
  <2>4. Legal(c)
    <3>1. DOMAIN FieldRange \subseteq MethodFields \ {"version"} /\ c.interface # "i2c"
      BY <2>1 DEF FieldRange, MethodFields
    <3> QED BY <2>1, <3>1 DEF Legal, Opt
  <2>5. Kept(c, st)
    BY <2>1 DEF Kept
  <2> QED BY <2>1, <2>2, <2>3, <2>4, <2>5, DoneUnderstood
<1>5. CASE m \in i2c_read
  <2>1. PICK i \in Buses, b \in Settings : m = Reading("i2c", "read", [i2c |-> i, addr |-> b], "bytes")
    BY <1>5 DEF i2c_read
  <2> DEFINE c == CommandOf("i2c", "read", [i2c |-> i, addr |-> b])
  <2>2. Routed(c) /\ c.interface = "i2c" /\ c.action = "read"
    BY CommandRouted DEF Routes, MethodFields
  <2>3. m = Call(c, "bytes")
    BY <2>1 DEF Reading, Method, Call
  <2> HIDE DEF c
  <2> QED BY <2>2, <2>3, HardwareUnderstood
<1> QED BY <1>2, <1>3, <1>4, <1>5

\* The others carry bytes.
LEMMA BinaryMethods ==
    ASSUME NEW m \in uart_write \cup spi_write \cup spi_transfer \cup i2c_write
                       \cup i2c_write_read \cup usb_write
    PROVE  m.binary
<1>1. \A i, a, fields, data : Binary(i, a, fields, data).binary
  BY DEF Binary, Method
<1> HIDE DEF Binary
<1>2. CASE m \in uart_write \cup spi_write \cup spi_transfer \cup usb_write
  BY <1>1, <1>2 DEF uart_write, spi_write, spi_transfer, usb_write
<1>3. CASE m \in i2c_write
  <2>1. PICK i \in Buses, b \in Settings : m = Binary("i2c", "write", [i2c |-> i, addr |-> b], NONE)
    BY <1>3 DEF i2c_write
  <2> QED BY <1>1, <2>1
<1>4. CASE m \in i2c_write_read
  <2>1. PICK i \in Buses, b \in Settings :
          m = Binary("i2c", "write_read", [i2c |-> i, addr |-> b], "bytes")
    BY <1>4 DEF i2c_write_read
  <2> QED BY <1>1, <2>1
<1> QED BY <1>2, <1>3, <1>4

\* Whatever the session did before, and for every argument of the parameters' types, a
\* method that carries no bytes is a command that dispatch knows: done with exactly its
\* arguments if the device has them (or stopped by missing hardware), refused for them
\* if not, and given the data it reads.
THEOREM MethodsUnderstood == BatchSpec => []CallsUnderstood
<1>1. ASSUME dev \in DeviceState, NEW m \in Methods, ~m.binary PROVE Understood(m, dev)
  BY <1>1, GpioMethods, AdcMethods, UartMethods, SpiMethods, I2cMethods, PwmMethods,
     ReadMethods, BinaryMethods DEF Methods
<1>2. RouterInv => CallsUnderstood
  BY <1>1 DEF CallsUnderstood, Understood, RouterInv, RouterTypeOK
<1> QED BY <1>2, BatchInvariance, PTL

--------------------------------------------------------------------------------
(* Base64, byte for byte *)

\* A byte, without an interval that the provers would spell out.
Byte == {x \in Nat : x <= 255}

\* Groups of three or of four: how many there are, and what is in each of them.
GroupsAre(seq, n, S) ==
    /\ Len(seq) \in Nat /\ (Len(seq) + n - 1) \div n \in Nat
    /\ Groups(seq, n) \in Seq(Seq(S)) /\ Len(Groups(seq, n)) = (Len(seq) + n - 1) \div n
    /\ \A g \in 1..Len(Groups(seq, n)) :
          /\ Groups(seq, n)[g] \in Seq(S)
          /\ Len(Groups(seq, n)[g]) = IF n * g <= Len(seq) THEN n ELSE Len(seq) - n * (g - 1)
          /\ 1 <= Len(Groups(seq, n)[g]) /\ Len(Groups(seq, n)[g]) <= n
          /\ \A i \in 1..Len(Groups(seq, n)[g]) :
                /\ n * (g - 1) + i \in 1..Len(seq)
                /\ Groups(seq, n)[g][i] = seq[n * (g - 1) + i]

\* Groups cuts a sequence into pieces of n, the last one shorter.
LEMMA GroupsMeaning ==
    ASSUME NEW S, NEW seq \in Seq(S), NEW n \in {3, 4}
    PROVE  GroupsAre(seq, n, S)
<1> DEFINE G == (Len(seq) + n - 1) \div n
           from(g) == n * (g - 1) + 1
           to(g) == IF n * g <= Len(seq) THEN n * g ELSE Len(seq)
<1>1. Len(seq) \in Nat /\ G \in Nat
  OBVIOUS
<1>2. \A g \in 1..G : from(g) \in 1..Len(seq) /\ to(g) \in from(g)..Len(seq) /\ to(g) - from(g) + 1 \in 1..n
  <2>1. CASE n = 3
    BY <1>1, <2>1
  <2>2. CASE n = 4
    BY <1>1, <2>2
  <2> QED BY <2>1, <2>2
<1>3. \A g \in 1..G :
         /\ SubSeq(seq, from(g), to(g)) \in Seq(S)
         /\ Len(SubSeq(seq, from(g), to(g))) = to(g) - from(g) + 1
         /\ \A i \in 1..to(g) - from(g) + 1 :
               from(g) + i - 1 \in 1..Len(seq) /\ SubSeq(seq, from(g), to(g))[i] = seq[from(g) + i - 1]
  <2> TAKE g \in 1..G
  <2> DEFINE a == from(g)
             b == to(g)
  <2>1. a \in 1..Len(seq) /\ b \in a..Len(seq)
    BY <1>2
  <2> HIDE DEF a, b
  <2>2. /\ SubSeq(seq, a, b) \in Seq(S) /\ Len(SubSeq(seq, a, b)) = b - a + 1
        /\ \A i \in 1..b - a + 1 : a + i - 1 \in 1..Len(seq) /\ SubSeq(seq, a, b)[i] = seq[a + i - 1]
    BY <2>1
  <2> QED BY <2>2 DEF a, b
<1>4. Groups(seq, n) = [g \in 1..G |-> SubSeq(seq, from(g), to(g))]
  BY DEF Groups
<1> DEFINE Gs == Groups(seq, n)
<1>5. Gs \in Seq(Seq(S)) /\ Len(Gs) = G /\ \A g \in 1..G : Gs[g] = SubSeq(seq, from(g), to(g))
  <2> DEFINE F(g) == SubSeq(seq, from(g), to(g))
  <2>1. G \in Nat /\ \A g \in 1..G : F(g) \in Seq(S)
    BY <1>1, <1>3
  <2> HIDE DEF from, to, G, F
  <2>2. [g \in 1..G |-> F(g)] \in Seq(Seq(S)) /\ Len([g \in 1..G |-> F(g)]) = G
    BY <2>1
  <2> QED BY <1>4, <2>2 DEF F
<1> HIDE DEF Gs
<1>6. ASSUME NEW g \in 1..G
      PROVE  /\ Gs[g] \in Seq(S)
             /\ Len(Gs[g]) = IF n * g <= Len(seq) THEN n ELSE Len(seq) - n * (g - 1)
             /\ 1 <= Len(Gs[g]) /\ Len(Gs[g]) <= n
             /\ \A i \in 1..Len(Gs[g]) :
                   n * (g - 1) + i \in 1..Len(seq) /\ Gs[g][i] = seq[n * (g - 1) + i]
  <2>1. Gs[g] \in Seq(S) /\ Len(Gs[g]) = to(g) - from(g) + 1
    BY <1>3, <1>5
  <2>2. Len(Gs[g]) \in Nat /\ 1 <= Len(Gs[g]) /\ Len(Gs[g]) <= n
    BY <1>2, <2>1
  <2>3. Len(Gs[g]) = IF n * g <= Len(seq) THEN n ELSE Len(seq) - n * (g - 1)
    <3>1. ASSUME NEW m \in {3, 4}, NEW k \in Nat, NEW l \in Nat
          PROVE  (IF m * k <= l THEN m * k ELSE l) - (m * (k - 1) + 1) + 1
                   = IF m * k <= l THEN m ELSE l - m * (k - 1)
      <4>1. CASE m = 3
        BY <4>1
      <4>2. CASE m = 4
        BY <4>2
      <4> QED BY <4>1, <4>2
    <3>2. g \in Nat
      BY <1>1
    <3>3. to(g) - from(g) + 1 = IF n * g <= Len(seq) THEN n ELSE Len(seq) - n * (g - 1)
      BY <1>1, <3>1, <3>2, Zenon
    <3> HIDE DEF from, to
    <3> QED BY <2>1, <3>3, Zenon
  <2>4. ASSUME NEW i \in 1..Len(Gs[g])
        PROVE  n * (g - 1) + i \in 1..Len(seq) /\ Gs[g][i] = seq[n * (g - 1) + i]
    <3>1. from(g) + i - 1 \in 1..Len(seq) /\ Gs[g][i] = seq[from(g) + i - 1]
      <4> HIDE DEF from, to, G
      <4> QED BY <1>3, <1>5, <2>1
    <3>2. from(g) + i - 1 = n * (g - 1) + i
      <4>1. CASE n = 3
        BY <1>1, <2>2, <4>1
      <4>2. CASE n = 4
        BY <1>1, <2>2, <4>2
      <4> QED BY <4>1, <4>2
    <3> QED BY <3>1, <3>2
  <2> QED BY <2>1, <2>2, <2>3, <2>4
<1> QED BY <1>1, <1>5, <1>6 DEF GroupsAre, Gs

\* The two tables are each other's inverse, and no value is encoded as the padding.
LEMMA TablesInverse ==
    ASSUME NEW v \in Nat, v <= 63
    PROVE  /\ ENCODE_TABLE[v] \in Byte /\ ENCODE_TABLE[v] # PAD
           /\ DECODE_TABLE[ENCODE_TABLE[v]] = v
<1>1. \A c \in Nat : c <= 255 => c \in 0..255
  OBVIOUS
<1>2. \A c \in Nat : c <= 255 =>
        DECODE_TABLE[c] = CASE c \in 65..90 -> c - 65
                            [] c \in 97..122 -> c - 97 + 26
                            [] c \in 48..57 -> c - 48 + 52
                            [] c = 43 -> 62
                            [] c = 47 -> 63
                            [] OTHER -> INVALID
  BY <1>1, Zenon DEF DECODE_TABLE
<1>3. ENCODE_TABLE[v] \in Nat /\ ENCODE_TABLE[v] <= 122 /\ ENCODE_TABLE[v] # PAD
  BY DEF ENCODE_TABLE, PAD
<1>4. DECODE_TABLE[ENCODE_TABLE[v]] = v
  BY <1>2, <1>3 DEF ENCODE_TABLE
<1> QED BY <1>3, <1>4 DEF Byte

\* Three bytes as four values of six bits, and back.
LEMMA SixBits ==
    ASSUME NEW b1 \in Byte, NEW b2 \in Byte, NEW b3 \in Byte,
           NEW t, t = 65536 * b1 + 256 * b2 + b3
    PROVE  /\ (t \div 262144) % 64 = b1 \div 4
           /\ (t \div 4096) % 64 = 16 * (b1 % 4) + b2 \div 16
           /\ (t \div 64) % 64 = 4 * (b2 % 16) + b3 \div 64
           /\ (t \div 1) % 64 = b3 % 64
BY DEF Byte

\* Four groups of six bits give their three bytes back.
LEMMA EightBits ==
    ASSUME NEW b1 \in Byte, NEW b2 \in Byte, NEW b3 \in Byte,
           NEW v1, NEW v2, NEW v3, NEW v4,
           v1 = b1 \div 4, v2 = 16 * (b1 % 4) + b2 \div 16,
           v3 = 4 * (b2 % 16) + b3 \div 64, v4 = b3 % 64
    PROVE  /\ v1 \in Nat /\ v1 <= 63 /\ v2 \in Nat /\ v2 <= 63
           /\ v3 \in Nat /\ v3 <= 63 /\ v4 \in Nat /\ v4 <= 63
           /\ ((v1 * 4) % 256) + (v2 \div 16) = b1
           /\ ((v2 * 16) % 256) + (v3 \div 4) = b2
           /\ ((v3 * 64) % 256) + (v4 \div 1) = b3
BY DEF Byte

\* What stands in for the bytes that a last group lacks.
ByteOf(b, i) == IF i <= Len(b) THEN b[i] ELSE 0

Triple(b) == 65536 * ByteOf(b, 1) + 256 * ByteOf(b, 2) + ByteOf(b, 3)

\* The six bits of character i.
Bits(b, i) == (Triple(b) \div SixBitsFrom[i]) % 64

\* Byte i of a group from two of its values.
Joined(v, w, i) == ((v * <<4, 16, 64>>[i]) % 256) + (w \div <<16, 4, 1>>[i])

\* A group of bytes: its values of six bits make up its bytes again.
LEMMA GroupBits ==
    ASSUME NEW b \in Seq(Byte), 1 <= Len(b), Len(b) <= 3
    PROVE  /\ \A i \in 1..4 : Bits(b, i) \in Nat /\ Bits(b, i) <= 63
           /\ \A i \in 1..Len(b) : Joined(Bits(b, i), Bits(b, i + 1), i) = b[i]
<1> DEFINE t == Triple(b)
<1>0. Len(b) \in Nat /\ Len(b) <= 3
  OBVIOUS
<1>1. ByteOf(b, 1) \in Byte /\ ByteOf(b, 2) \in Byte /\ ByteOf(b, 3) \in Byte
  BY DEF ByteOf, Byte
<1>2. \A i \in 1..Len(b) : ByteOf(b, i) = b[i]
  BY DEF ByteOf
<1>3. /\ Bits(b, 1) = (t \div 262144) % 64 /\ Bits(b, 2) = (t \div 4096) % 64
      /\ Bits(b, 3) = (t \div 64) % 64 /\ Bits(b, 4) = (t \div 1) % 64
  <2>1. SixBitsFrom[1] = 262144 /\ SixBitsFrom[2] = 4096 /\ SixBitsFrom[3] = 64 /\ SixBitsFrom[4] = 1
    BY SMT DEF SixBitsFrom
  <2> QED BY <2>1, SMT DEF Bits
<1>4. /\ Bits(b, 1) = ByteOf(b, 1) \div 4
      /\ Bits(b, 2) = 16 * (ByteOf(b, 1) % 4) + ByteOf(b, 2) \div 16
      /\ Bits(b, 3) = 4 * (ByteOf(b, 2) % 16) + ByteOf(b, 3) \div 64
      /\ Bits(b, 4) = ByteOf(b, 3) % 64
  <2>1. t = 65536 * ByteOf(b, 1) + 256 * ByteOf(b, 2) + ByteOf(b, 3)
    BY SMT DEF Triple
  <2> HIDE DEF t
  <2> QED BY <1>1, <1>3, <2>1, SixBits, SMT
<1> HIDE DEF t
<1>5. /\ Bits(b, 1) \in Nat /\ Bits(b, 1) <= 63 /\ Bits(b, 2) \in Nat /\ Bits(b, 2) <= 63
      /\ Bits(b, 3) \in Nat /\ Bits(b, 3) <= 63 /\ Bits(b, 4) \in Nat /\ Bits(b, 4) <= 63
      /\ ((Bits(b, 1) * 4) % 256) + (Bits(b, 2) \div 16) = ByteOf(b, 1)
      /\ ((Bits(b, 2) * 16) % 256) + (Bits(b, 3) \div 4) = ByteOf(b, 2)
      /\ ((Bits(b, 3) * 64) % 256) + (Bits(b, 4) \div 1) = ByteOf(b, 3)
  BY <1>1, <1>4, EightBits
<1>6. \A i \in 1..4 : Bits(b, i) \in Nat /\ Bits(b, i) <= 63
  <2>1. \A i \in 1..4 : i = 1 \/ i = 2 \/ i = 3 \/ i = 4
    OBVIOUS
  <2> QED BY <1>5, <2>1
<1>7. /\ Joined(Bits(b, 1), Bits(b, 2), 1) = ByteOf(b, 1)
      /\ Joined(Bits(b, 2), Bits(b, 3), 2) = ByteOf(b, 2)
      /\ Joined(Bits(b, 3), Bits(b, 4), 3) = ByteOf(b, 3)
  BY <1>5, SMT DEF Joined
<1>8. ASSUME NEW i \in 1..Len(b) PROVE Joined(Bits(b, i), Bits(b, i + 1), i) = b[i]
  <2>2. i = 1 \/ i = 2 \/ i = 3
    BY <1>0
  <2>3. 1 + 1 = 2 /\ 2 + 1 = 3 /\ 3 + 1 = 4
    OBVIOUS
  <2>4. Joined(Bits(b, i), Bits(b, i + 1), i) = ByteOf(b, i)
    BY <1>7, <2>2, <2>3, SMT
  <2> QED BY <1>2, <2>4
<1> QED BY <1>6, <1>8

\* A group is encoded as four characters, padding behind the first of them, and comes
\* back from those that are no padding.
LEMMA GroupCoded ==
    ASSUME NEW b \in Seq(Byte), 1 <= Len(b), Len(b) <= 3
    PROVE  /\ EncodeGroup(b) \in [1..4 -> Byte]
           /\ \A i \in 1..4 : (EncodeGroup(b)[i] = PAD) <=> (i > Len(b) + 1)
           /\ \A d \in Seq(Byte) :
                 (Len(d) = Len(b) + 1 /\ \A i \in 1..Len(d) : d[i] = EncodeGroup(b)[i])
                    => ~Malformed(d) /\ DecodeGroup(d) = b
<1> DEFINE e == EncodeGroup(b)
<1>1. e = [i \in 1..4 |-> IF i <= Len(b) + 1 THEN ENCODE_TABLE[Bits(b, i)] ELSE PAD]
  BY SMT DEF EncodeGroup, Bits, Triple, ByteOf
<1>2. \A i \in 1..4 : /\ ENCODE_TABLE[Bits(b, i)] \in Byte /\ ENCODE_TABLE[Bits(b, i)] # PAD
                      /\ DECODE_TABLE[ENCODE_TABLE[Bits(b, i)]] = Bits(b, i)
  BY GroupBits, TablesInverse
<1>3. PAD \in Byte /\ Len(b) \in Nat
  BY DEF PAD, Byte
<1> HIDE DEF e
<1>4. e \in [1..4 -> Byte] /\ \A i \in 1..4 : (e[i] = PAD) <=> (i > Len(b) + 1)
  BY <1>1, <1>2, <1>3
<1>5. ASSUME NEW d \in Seq(Byte), Len(d) = Len(b) + 1, \A i \in 1..Len(d) : d[i] = e[i]
      PROVE  ~Malformed(d) /\ DecodeGroup(d) = b
  <2>1. ASSUME NEW i \in 1..Len(b) + 1
        PROVE  i \in 1..4 /\ DECODE_TABLE[d[i]] = Bits(b, i)
    <3>1. i \in 1..4 /\ i \in 1..Len(d) /\ i <= Len(b) + 1
      BY <1>3, <1>5
    <3>2. d[i] = ENCODE_TABLE[Bits(b, i)]
      BY <1>1, <1>5, <3>1
    <3> QED BY <1>2, <3>1, <3>2
  <2>2. \A i \in 1..Len(b) + 1 : Bits(b, i) \in Nat /\ Bits(b, i) <= 63
    BY <2>1, GroupBits
  <2>3. DOMAIN d = 1..Len(b) + 1 /\ Len(d) # 1 /\ Len(d) - 1 = Len(b)
    BY <1>3, <1>5
  <2>4. ~Malformed(d)
    BY <2>1, <2>2, <2>3 DEF Malformed, INVALID
  <2> DEFINE v == [i \in DOMAIN d |-> DECODE_TABLE[d[i]]]
  <2>5. DecodeGroup(d) = [i \in 1..Len(d) - 1 |-> Joined(v[i], v[i + 1], i)]
    BY DEF DecodeGroup, Joined
  <2>6. \A i \in 1..Len(b) + 1 : v[i] = Bits(b, i)
    BY <2>1, <2>3
  <2>7. \A i \in 1..Len(b) : i \in 1..Len(b) + 1 /\ i + 1 \in 1..Len(b) + 1
    BY <1>3
  <2> HIDE DEF v
  <2>8. \A i \in 1..Len(b) : Joined(v[i], v[i + 1], i) = b[i]
    BY <2>6, <2>7, GroupBits
  <2>9. DecodeGroup(d) = [i \in 1..Len(b) |-> b[i]]
    BY <2>3, <2>5, <2>8, Zenon
  <2>10. b = [i \in 1..Len(b) |-> b[i]]
    OBVIOUS
  <2> QED BY <2>4, <2>9, <2>10
<1> QED BY <1>4, <1>5 DEF e

\* Three bytes to four characters, the last group's padding counted or not.
TextGroups(n) == (n + 2) \div 3
TextChars(n) == (4 * n + 2) \div 3

\* The group of four that place k of a text lies in, its place there, and how many of
\* n bytes are in group g of three.
GroupOf(k) == (k + 3) \div 4
PlaceOf(k) == ((k - 1) % 4) + 1
BytesIn(n, g) == IF 3 * g <= n THEN 3 ELSE n - 3 * (g - 1)

\* Place k of a text lies in a group, and is padding behind the bytes of that group.
LEMMA TextPlaces ==
    ASSUME NEW n \in Nat, NEW k \in Nat, 1 <= k, k <= 4 * TextGroups(n)
    PROVE  /\ GroupOf(k) \in Nat /\ 1 <= GroupOf(k) /\ GroupOf(k) <= TextGroups(n)
           /\ PlaceOf(k) \in 1..4 /\ k = 4 * (GroupOf(k) - 1) + PlaceOf(k)
           /\ (PlaceOf(k) > BytesIn(n, GroupOf(k)) + 1) <=> (k > TextChars(n))
BY DEF TextGroups, TextChars, GroupOf, PlaceOf, BytesIn

\* A group of characters that are no padding is one longer than its bytes.
LEMMA TextBytesIn ==
    ASSUME NEW n \in Nat, NEW g \in Nat, 1 <= g, g <= TextGroups(n),
           NEW b, b = IF 4 * g <= TextChars(n) THEN 4 ELSE TextChars(n) - 4 * (g - 1)
    PROVE  b = BytesIn(n, g) + 1 /\ 3 * (g - 1) + b - 1 <= n
<1>1. TextChars(n) = n + TextGroups(n) /\ TextGroups(n) \in Nat
  BY DEF TextChars, TextGroups
<1>2. CASE 3 * g <= n
  <2>1. 4 * g <= TextChars(n)
    BY <1>1, <1>2
  <2> QED BY <1>2, <2>1 DEF BytesIn
<1>3. CASE ~(3 * g <= n)
  <2>1. TextGroups(n) = g
    BY <1>3 DEF TextGroups
  <2>2. ~(4 * g <= TextChars(n))
    BY <1>1, <1>3, <2>1
  <2> QED BY <1>1, <1>3, <2>1, <2>2 DEF BytesIn
<1> QED BY <1>2, <1>3

\* The lengths of a text, with its padding and without.
LEMMA TextSizes ==
    ASSUME NEW n \in Nat
    PROVE  /\ TextGroups(n) \in Nat /\ TextChars(n) \in Nat
           /\ TextChars(n) <= 4 * TextGroups(n) /\ 4 * TextGroups(n) <= TextChars(n) + 2
           /\ (TextChars(n) + 3) \div 4 = TextGroups(n) /\ TextChars(n) - TextGroups(n) = n
           /\ \A m \in Nat : n <= m => 4 * TextGroups(n) <= (m \div 3 + 1) * 4
BY DEF TextGroups, TextChars

\* The text of some bytes: its length, its characters and its padding.
LEMMA TextOfBytes ==
    ASSUME NEW bytes \in Seq(Byte)
    PROVE  /\ base64_encode(bytes) \in Seq(Byte)
           /\ Len(base64_encode(bytes)) = 4 * TextGroups(Len(bytes))
           /\ \A k \in 1..4 * TextGroups(Len(bytes)) :
                 /\ base64_encode(bytes)[k] = EncodeGroup(Groups(bytes, 3)[(k + 3) \div 4])[((k - 1) % 4) + 1]
                 /\ (base64_encode(bytes)[k] = PAD) <=> (k > TextChars(Len(bytes)))
<1> DEFINE n == Len(bytes)
           gs == Groups(bytes, 3)
           F(k) == EncodeGroup(gs[(k + 3) \div 4])[((k - 1) % 4) + 1]
<1>1. GroupsAre(bytes, 3, Byte)
  BY GroupsMeaning
<1>2. n \in Nat /\ Len(gs) = TextGroups(n) /\ TextGroups(n) \in Nat
  BY <1>1 DEF GroupsAre, TextGroups
<1>3. base64_encode(bytes) = [k \in 1..4 * TextGroups(n) |-> F(k)]
  <2>1. base64_encode(bytes) = [k \in 1..4 * Len(gs) |-> F(k)]
    BY DEF base64_encode
  <2> QED BY <1>2, <2>1
<1>4. ASSUME NEW k \in 1..4 * TextGroups(n)
      PROVE  F(k) \in Byte /\ ((F(k) = PAD) <=> (k > TextChars(n)))
  <2> DEFINE g == GroupOf(k)
             i == PlaceOf(k)
             len == BytesIn(n, g)
  <2>1. k \in Nat /\ 1 <= k /\ k <= 4 * TextGroups(n)
    BY <1>2
  <2>2. /\ g \in Nat /\ 1 <= g /\ g <= TextGroups(n) /\ i \in 1..4 /\ k = 4 * (g - 1) + i
        /\ (i > len + 1) <=> (k > TextChars(n))
    <3> HIDE DEF n
    <3> QED BY <1>2, <2>1, TextPlaces
  <2> HIDE DEF g, i, n, gs
  <2>3. g \in 1..Len(gs)
    BY <1>2, <2>2
  <2>4. gs[g] \in Seq(Byte) /\ Len(gs[g]) = len /\ 1 <= Len(gs[g]) /\ Len(gs[g]) <= 3
    BY <1>1, <2>3 DEF GroupsAre, BytesIn, gs, n
  <2>5. /\ EncodeGroup(gs[g]) \in [1..4 -> Byte]
        /\ (EncodeGroup(gs[g])[i] = PAD) <=> (i > Len(gs[g]) + 1)
    BY <2>2, <2>4, GroupCoded
  <2>6. F(k) = EncodeGroup(gs[g])[i]
    BY DEF g, i, GroupOf, PlaceOf
  <2> HIDE DEF F, len
  <2> QED BY <2>2, <2>4, <2>5, <2>6
<1>5. 4 * TextGroups(n) \in Nat
  BY <1>2
<1> DEFINE T == base64_encode(bytes)
           m == 4 * TextGroups(n)
<1>6. T = [k \in 1..m |-> F(k)] /\ m \in Nat /\ \A k \in 1..m : F(k) \in Byte
  BY <1>3, <1>4, <1>5
<1> HIDE DEF F, T, m
<1>7. T \in Seq(Byte) /\ Len(T) = m /\ \A k \in 1..m : T[k] = F(k)
  BY <1>6
<1>8. \A k \in 1..m : (T[k] = PAD) <=> (k > TextChars(n))
  BY <1>4, <1>7 DEF m
<1> QED BY <1>7, <1>8 DEF F, T, m

\* Up to two characters of padding behind the others are stripped.
LEMMA PaddingStripped ==
    ASSUME NEW t \in Seq(Byte), NEW n \in Nat, n <= Len(t), Len(t) <= n + 2,
           \A k \in 1..Len(t) : (t[k] = PAD) <=> (k > n)
    PROVE  StripPadding(t) = SubSeq(t, 1, n)
<1>1. Len(t) \in Nat
  OBVIOUS
<1>2. CASE Len(t) = n
  <2>1. n >= 1 => t[n] # PAD
    BY <1>2
  <2>2. SubSeq(t, 1, n) = t
    BY <1>2
  <2> QED BY <1>1, <1>2, <2>1, <2>2 DEF StripPadding
<1>3. CASE Len(t) = n + 1
  <2>1. t[n + 1] = PAD /\ (n + 1 >= 2 => t[(n + 1) - 1] # PAD)
    BY <1>3
  <2>2. (n + 1) - 1 = n
    OBVIOUS
  <2> QED BY <1>1, <1>3, <2>1, <2>2 DEF StripPadding
<1>4. CASE Len(t) = n + 2
  <2>1. t[n + 2] = PAD /\ t[(n + 2) - 1] = PAD
    BY <1>4
  <2>2. (n + 2) - 2 = n
    OBVIOUS
  <2> QED BY <1>1, <1>4, <2>1, <2>2 DEF StripPadding
<1> QED BY <1>1, <1>2, <1>3, <1>4

\* The groups of four characters of a text are the codes of the groups of three bytes.
LEMMA TextDecodes ==
    ASSUME NEW bytes \in Seq(Byte), NEW t \in Seq(Byte),
           StripPadding(t) = SubSeq(base64_encode(bytes), 1, TextChars(Len(bytes)))
    PROVE  base64_decode_text(t, Len(bytes)) = [error |-> NONE, out |-> bytes]
<1> DEFINE n == Len(bytes)
           gs == Groups(bytes, 3)
           T == base64_encode(bytes)
           d == StripPadding(t)
           ds == Groups(d, 4)
<1>1. GroupsAre(bytes, 3, Byte)
  BY GroupsMeaning
<1>2. n \in Nat /\ Len(gs) = TextGroups(n)
  BY <1>1 DEF GroupsAre, TextGroups
<1>3. /\ TextGroups(n) \in Nat /\ TextChars(n) \in Nat /\ TextChars(n) <= 4 * TextGroups(n)
      /\ (TextChars(n) + 3) \div 4 = TextGroups(n) /\ TextChars(n) - TextGroups(n) = n
  BY <1>2, TextSizes
<1>4. /\ T \in Seq(Byte) /\ Len(T) = 4 * TextGroups(n)
      /\ \A k \in 1..4 * TextGroups(n) : T[k] = EncodeGroup(gs[(k + 3) \div 4])[((k - 1) % 4) + 1]
  BY TextOfBytes
<1>5. d \in Seq(Byte) /\ Len(d) = TextChars(n) /\ \A k \in 1..TextChars(n) : d[k] = T[k]
  <2>1. d = SubSeq(T, 1, TextChars(n)) /\ TextChars(n) \in 0..Len(T)
    BY <1>3, <1>4
  <2> HIDE DEF d, T, n
  <2> QED BY <1>4, <2>1, Prefix
<1>6. GroupsAre(d, 4, Byte)
  <2> HIDE DEF d
  <2> QED BY <1>5, GroupsMeaning
<1>7. Len(ds) = TextGroups(n)
  <2>1. Len(ds) = (Len(d) + 4 - 1) \div 4
    BY <1>6 DEF GroupsAre
  <2> HIDE DEF d, ds, n
  <2> QED BY <1>3, <1>5, <2>1
<1> HIDE DEF n, gs, T, d, ds
<1>8. ASSUME NEW g \in 1..TextGroups(n)
      PROVE  /\ gs[g] \in Seq(Byte) /\ ds[g] \in Seq(Byte)
             /\ Len(ds[g]) = Len(gs[g]) + 1 /\ 3 * (g - 1) + Len(ds[g]) - 1 <= n
             /\ ~Malformed(ds[g]) /\ DecodeGroup(ds[g]) = gs[g]
  <2>1. /\ gs[g] \in Seq(Byte)
        /\ Len(gs[g]) = IF 3 * g <= n THEN 3 ELSE n - 3 * (g - 1)
        /\ Len(gs[g]) \in Nat /\ 1 <= Len(gs[g]) /\ Len(gs[g]) <= 3
    BY <1>1, <1>2 DEF GroupsAre, n, gs
  <2>2. /\ ds[g] \in Seq(Byte)
        /\ Len(ds[g]) = IF 4 * g <= TextChars(n) THEN 4 ELSE TextChars(n) - 4 * (g - 1)
        /\ \A i \in 1..Len(ds[g]) :
              4 * (g - 1) + i \in 1..TextChars(n) /\ ds[g][i] = d[4 * (g - 1) + i]
    BY <1>5, <1>6, <1>7 DEF GroupsAre, ds
  <2>3. Len(ds[g]) = Len(gs[g]) + 1 /\ 3 * (g - 1) + Len(ds[g]) - 1 <= n
    <3>1. g \in Nat /\ 1 <= g /\ g <= TextGroups(n)
      BY <1>2, <1>3
    <3>2. Len(ds[g]) = BytesIn(n, g) + 1 /\ 3 * (g - 1) + Len(ds[g]) - 1 <= n
      BY <1>2, <2>2, <3>1, TextBytesIn
    <3> QED BY <2>1, <3>2 DEF BytesIn
  <2>4. ASSUME NEW i \in 1..Len(ds[g])
        PROVE  ds[g][i] = EncodeGroup(gs[g])[i]
    <3> DEFINE k == 4 * (g - 1) + i
    <3>0. g \in Nat /\ Len(ds[g]) \in Nat /\ Len(ds[g]) <= 4
      <4>1. g \in Nat
        BY <1>3
      <4>2. Len(gs[g]) + 1 \in Nat /\ Len(gs[g]) + 1 <= 4
        BY <2>1
      <4> QED BY <2>3, <4>1, <4>2
    <3>1. g \in Nat /\ i \in Nat /\ 1 <= i /\ i <= 4 /\ k \in 1..TextChars(n)
      <4>1. k \in 1..TextChars(n)
        BY <2>2
      <4> DEFINE l == Len(ds[g])
      <4>2. l \in Nat /\ l <= 4 /\ i \in 1..l
        BY <3>0
      <4> HIDE DEF k, l
      <4> QED BY <3>0, <4>1, <4>2
    <3>2. (k + 3) \div 4 = g /\ ((k - 1) % 4) + 1 = i
      BY <3>1
    <3>3. k \in 1..4 * TextGroups(n)
      BY <1>3, <3>1
    <3>4. ds[g][i] = d[k]
      BY <2>2
    <3> HIDE DEF k
    <3> QED BY <1>4, <1>5, <3>1, <3>2, <3>3, <3>4
  <2>5. ~Malformed(ds[g]) /\ DecodeGroup(ds[g]) = gs[g]
    BY <2>1, <2>2, <2>3, <2>4, GroupCoded
  <2> QED BY <2>1, <2>2, <2>3, <2>5
<1>9. base64_decode_text(t, n) = [error |-> NONE,
          out |-> [k \in 1..Len(d) - Len(ds) |-> DecodeGroup(ds[(k + 2) \div 3])[((k - 1) % 3) + 1]]]
  <2> DEFINE past(g) == 3 * (g - 1) + Len(ds[g]) - 1 > n
             refused == {g \in DOMAIN ds : Malformed(ds[g]) \/ past(g)}
             out == [k \in 1..Len(d) - Len(ds) |-> DecodeGroup(ds[(k + 2) \div 3])[((k - 1) % 3) + 1]]
  <2>1. base64_decode_text(t, n) =
           IF refused = {} THEN [error |-> NONE, out |-> out]
           ELSE [error |-> IF Malformed(ds[Min(refused)]) THEN "invalid_encoding" ELSE "panic",
                 out |-> <<>>]
    BY DEF base64_decode_text, d, ds
  <2>2. DOMAIN ds = 1..TextGroups(n)
    BY <1>6, <1>7 DEF GroupsAre, ds
  <2>3. \A g \in DOMAIN ds : ~Malformed(ds[g]) /\ ~past(g)
    <3> TAKE g \in DOMAIN ds
    <3>1. g \in Nat
      BY <1>3, <2>2
    <3>2. g \in 1..TextGroups(n)
      BY <2>2
    <3>3. ds[g] \in Seq(Byte) /\ ~Malformed(ds[g]) /\ 3 * (g - 1) + Len(ds[g]) - 1 <= n
      BY <1>8, <3>2
    <3>4. Len(ds[g]) \in Nat
      BY <3>3
    <3> QED BY <1>2, <3>1, <3>3, <3>4
  <2>4. refused = {}
    BY <2>3
  <2> HIDE DEF refused, out
  <2>5. base64_decode_text(t, n) = [error |-> NONE, out |-> out]
    BY <2>1, <2>4
  <2> QED BY <2>5 DEF out
<1>10. Len(d) - Len(ds) = n
  BY <1>3, <1>5, <1>7
<1>11. ASSUME NEW k \in 1..n
       PROVE  DecodeGroup(ds[(k + 2) \div 3])[((k - 1) % 3) + 1] = bytes[k]
  <2> DEFINE g == (k + 2) \div 3
             i == ((k - 1) % 3) + 1
  <2>1. g \in Nat /\ 1 <= g /\ g <= TextGroups(n) /\ i \in 1..3 /\ k = 3 * (g - 1) + i
    BY <1>2 DEF TextGroups
  <2>2. i <= IF 3 * g <= n THEN 3 ELSE n - 3 * (g - 1)
    BY <1>2, <2>1
  <2> HIDE DEF g, i
  <2>3. g \in 1..TextGroups(n)
    BY <1>3, <2>1
  <2>4. /\ Len(gs[g]) = IF 3 * g <= n THEN 3 ELSE n - 3 * (g - 1)
        /\ Len(gs[g]) \in Nat
        /\ \A j \in 1..Len(gs[g]) : gs[g][j] = bytes[3 * (g - 1) + j]
    <3>1. gs[g] \in Seq(Byte)
      BY <1>8, <2>3
    <3> QED BY <1>1, <1>2, <2>3, <3>1 DEF GroupsAre, n, gs
  <2>5. i \in 1..Len(gs[g])
    BY <2>1, <2>2, <2>4
  <2>6. gs[g][i] = bytes[k]
    BY <2>1, <2>4, <2>5
  <2>7. DecodeGroup(ds[g])[i] = bytes[k]
    BY <1>8, <2>3, <2>6
  <2> QED BY <2>7 DEF g, i
<1>12. [k \in 1..Len(d) - Len(ds) |-> DecodeGroup(ds[(k + 2) \div 3])[((k - 1) % 3) + 1]] = bytes
  <2> DEFINE F(k) == DecodeGroup(ds[(k + 2) \div 3])[((k - 1) % 3) + 1]
  <2>1. \A k \in 1..n : F(k) = bytes[k]
    BY <1>11
  <2> HIDE DEF F
  <2>2. [k \in 1..n |-> F(k)] = [k \in 1..n |-> bytes[k]]
    BY <2>1
  <2>3. bytes = [k \in 1..n |-> bytes[k]]
    BY DEF n
  <2>4. [k \in 1..n |-> F(k)] = bytes
    BY <2>2, <2>3
  <2> QED BY <1>10, <2>4 DEF F
<1> QED BY <1>9, <1>12 DEF n

\* The text without its padding is what StripPadding leaves of either form.
LEMMA TextStripped ==
    ASSUME NEW bytes \in Seq(Byte)
    PROVE  LET text == base64_encode(bytes)
               unpadded == SubSeq(text, 1, TextChars(Len(bytes)))
           IN  /\ text \in Seq(Byte) /\ StripPadding(text) = unpadded
               /\ unpadded \in Seq(Byte) /\ StripPadding(unpadded) = unpadded
<1> DEFINE n == TextChars(Len(bytes))
           T == base64_encode(bytes)
           U == SubSeq(T, 1, n)
<1>1. /\ T \in Seq(Byte) /\ Len(T) = 4 * TextGroups(Len(bytes))
      /\ \A k \in 1..Len(T) : (T[k] = PAD) <=> (k > n)
  BY TextOfBytes
<1>2. n \in Nat /\ n <= Len(T) /\ Len(T) <= n + 2
  <2>1. Len(bytes) \in Nat
    OBVIOUS
  <2> QED BY <1>1, <2>1, TextSizes
<1> HIDE DEF n, T
<1>3. U \in Seq(Byte) /\ Len(U) = n /\ \A k \in 1..n : U[k] = T[k]
  <2>1. n \in 0..Len(T)
    BY <1>1, <1>2
  <2> QED BY <1>1, <2>1, Prefix
<1>4. StripPadding(T) = U
  BY <1>1, <1>2, PaddingStripped
<1> HIDE DEF U
<1>5. \A k \in 1..Len(U) : (U[k] = PAD) <=> (k > n)
  <2> TAKE k \in 1..Len(U)
  <2>1. k \in 1..n /\ k \in 1..Len(T) /\ U[k] = T[k]
    BY <1>1, <1>2, <1>3
  <2> QED BY <1>1, <2>1
<1>6. StripPadding(U) = SubSeq(U, 1, n)
  BY <1>2, <1>3, <1>5, PaddingStripped
<1>7. SubSeq(U, 1, n) = U
  BY <1>2, <1>3
<1> QED BY <1>1, <1>3, <1>4, <1>6, <1>7 DEF n, T, U

\* Bytes come back from their text, with its padding and without, whatever the bytes
\* and however many, and a payload of at most MAX_PAYLOAD_LEN fits MAX_B64_LEN
\* characters (base64.rs, encode and decode).
THEOREM BytesComeBack ==
    ASSUME NEW bytes \in Seq(Byte)
    PROVE  LET text == base64_encode(bytes)
               unpadded == SubSeq(text, 1, (4 * Len(bytes) + 2) \div 3)
           IN  /\ Len(bytes) <= MAX_PAYLOAD_LEN => Len(text) <= (MAX_PAYLOAD_LEN \div 3 + 1) * 4
               /\ \A form \in {text, unpadded} :
                     base64_decode_text(form, Len(bytes)) = [error |-> NONE, out |-> bytes]
<1> DEFINE T == base64_encode(bytes)
           U == SubSeq(T, 1, TextChars(Len(bytes)))
<1>1. /\ T \in Seq(Byte) /\ StripPadding(T) = U /\ U \in Seq(Byte) /\ StripPadding(U) = U
  BY TextStripped
<1>2. base64_decode_text(T, Len(bytes)) = [error |-> NONE, out |-> bytes]
  BY <1>1, TextDecodes
<1>3. base64_decode_text(U, Len(bytes)) = [error |-> NONE, out |-> bytes]
  BY <1>1, TextDecodes
<1>4. Len(bytes) <= MAX_PAYLOAD_LEN => Len(T) <= (MAX_PAYLOAD_LEN \div 3 + 1) * 4
  <2>1. Len(bytes) \in Nat /\ Len(T) = 4 * TextGroups(Len(bytes)) /\ MAX_PAYLOAD_LEN \in Nat
    BY TextOfBytes, RouterAssumption
  <2> HIDE DEF T
  <2> QED BY <2>1, TextSizes
<1>5. U = SubSeq(T, 1, (4 * Len(bytes) + 2) \div 3)
  BY DEF TextChars
<1> QED BY <1>2, <1>3, <1>4, <1>5

\* A function on 1..n is a sequence.
LEMMA FunctionIsSeq ==
    ASSUME NEW S, NEW n \in Nat, NEW f \in [1..n -> S]
    PROVE  f \in Seq(S)
  OBVIOUS

\* The samples of the run are texts of bytes.
LEMMA SamplesAreBytes == Samples \subseteq Seq(Byte)
<1> SUFFICES ASSUME NEW bytes \in Samples PROVE bytes \in Seq(Byte)
  OBVIOUS
<1>1. CASE \E n \in 0..4 : bytes \in [1..n -> {0, 3, 63, 64, 192, 255}]
  <2>1. \A x \in {0, 3, 63, 64, 192, 255} : x \in Byte
    BY DEF Byte
  <2> DEFINE Some == {0, 3, 63, 64, 192, 255}
  <2> HIDE DEF Some
  <2>2. PICK n \in Nat : bytes \in [1..n -> Some]
    BY <1>1 DEF Some
  <2>3. bytes \in [1..n -> Byte]
    BY <2>1, <2>2 DEF Some
  <2> QED BY <2>3, FunctionIsSeq
<1>2. CASE bytes \in [1..1 -> 0..255]
  <2>1. \A x \in 0..255 : x \in Byte
    BY DEF Byte
  <2> DEFINE one == 1
  <2>2. bytes \in [1..one -> Byte] /\ one \in Nat
    BY <1>2, <2>1
  <2> HIDE DEF one
  <2> QED BY <2>2, FunctionIsSeq
<1>3. CASE bytes = [i \in 1..MAX_PAYLOAD_LEN |-> (7 * i) % 256]
  <2>1. \A i \in 1..MAX_PAYLOAD_LEN : (7 * i) % 256 \in Byte
    BY RouterAssumption DEF Byte
  <2>2. bytes \in [1..MAX_PAYLOAD_LEN -> Byte] /\ MAX_PAYLOAD_LEN \in Nat
    BY <1>3, <2>1, RouterAssumption
  <2>3. PICK n \in Nat : bytes \in [1..n -> Byte]
    BY <2>2, Zenon
  <2> QED BY <2>3, FunctionIsSeq
<1> QED BY <1>1, <1>2, <1>3 DEF Samples

\* The samples of the run come back, as every text of bytes does.
LEMMA RoundTripsAlways == RoundTrips
BY BytesComeBack, SamplesAreBytes DEF RoundTrips

\* What a shape says of a text: how many characters there are in front of the padding,
\* and the first of them that is none of base64's.
IsShape(s, t) ==
    LET d == StripPadding(t)
    IN  /\ s.chars = Len(d) /\ s.bad \in 0..Len(d)
        /\ s.bad # 0 => DECODE_TABLE[d[s.bad]] = INVALID
        /\ \A i \in 1..Len(d) : (s.bad = 0 \/ i < s.bad) => DECODE_TABLE[d[i]] # INVALID

\* The sizes of group g of n characters.
LEMMA GroupSizes ==
    ASSUME NEW n \in Nat, NEW g \in Nat, 1 <= g, g <= (n + 3) \div 4,
           NEW len, len = IF 4 * g <= n THEN 4 ELSE n - 4 * (g - 1)
    PROVE  /\ (len = 1) <=> (4 * g > n /\ n % 4 = 1)
           /\ 3 * (g - 1) + len - 1 = IF 4 * g <= n THEN 3 * g ELSE 3 * (g - 1) + (n % 4) - 1
<1>1. CASE 4 * g <= n
  BY <1>1
<1>2. CASE ~(4 * g <= n)
  <2>1. n - 4 * (g - 1) = n % 4
    BY <1>2
  <2> QED BY <1>2, <2>1
<1> QED BY <1>1, <1>2

\* Group by group the shape knows as much as the text, up to the first bad character.
LEMMA ShapeGroups ==
    ASSUME NEW t \in Seq(Byte), NEW s \in Base64, IsShape(s, t), StripPadding(t) \in Seq(Byte)
    PROVE  LET ds == Groups(StripPadding(t), 4)
               first == (s.bad + 3) \div 4
           IN  /\ DOMAIN ds = DecodeGroups(s)
               /\ \A g \in DecodeGroups(s) :
                     /\ g \in Nat
                     /\ (3 * (g - 1) + Len(ds[g]) - 1 > MAX_PAYLOAD_LEN) <=> ~GroupFits(s, g)
                     /\ GroupInvalid(s, g) => Malformed(ds[g])
                     /\ (s.bad = 0 \/ g <= first) => (Malformed(ds[g]) => GroupInvalid(s, g))
               /\ s.bad # 0 => first \in DecodeGroups(s) /\ GroupInvalid(s, first)
<1> DEFINE d == StripPadding(t)
           ds == Groups(d, 4)
           n == Len(d)
           first == (s.bad + 3) \div 4
<1>1. d \in Seq(Byte) /\ n \in Nat /\ s.chars = n /\ s.bad \in Nat /\ s.bad <= n
  BY DEF IsShape, Base64
<1>2. GroupsAre(d, 4, Byte)
  <2> HIDE DEF d
  <2> QED BY <1>1, GroupsMeaning
<1>3. s.bad # 0 => DECODE_TABLE[d[s.bad]] = INVALID
  BY DEF IsShape
<1>4. \A i \in 1..n : (s.bad = 0 \/ i < s.bad) => DECODE_TABLE[d[i]] # INVALID
  BY DEF IsShape
<1> HIDE DEF d, n
<1>5. DOMAIN ds = DecodeGroups(s) /\ DecodeGroups(s) = 1..(n + 3) \div 4
  BY <1>1, <1>2 DEF GroupsAre, DecodeGroups, n
<1> HIDE DEF ds
<1>6. ASSUME NEW g \in DecodeGroups(s)
      PROVE  /\ g \in Nat /\ 1 <= g /\ g <= (n + 3) \div 4
             /\ ds[g] \in Seq(Byte) /\ DOMAIN ds[g] = 1..Len(ds[g])
             /\ Len(ds[g]) = IF 4 * g <= n THEN 4 ELSE n - 4 * (g - 1)
             /\ \A i \in 1..Len(ds[g]) : i <= 4 /\ 4 * (g - 1) + i \in 1..n
                                         /\ ds[g][i] = d[4 * (g - 1) + i]
  <2>1. g \in Nat /\ 1 <= g /\ g <= (n + 3) \div 4
    BY <1>1, <1>5
  <2>2. /\ ds[g] \in Seq(Byte) /\ Len(ds[g]) <= 4
        /\ Len(ds[g]) = IF 4 * g <= n THEN 4 ELSE n - 4 * (g - 1)
        /\ \A i \in 1..Len(ds[g]) : 4 * (g - 1) + i \in 1..n
                                    /\ ds[g][i] = d[4 * (g - 1) + i]
    <3>1. g \in 1..Len(ds)
      BY <1>1, <1>2, <1>5 DEF GroupsAre, ds, n
    <3> QED BY <1>2, <3>1 DEF GroupsAre, ds, n
  <2>3. \A i \in 1..Len(ds[g]) : i <= 4
    BY <2>2
  <2> QED BY <2>1, <2>2, <2>3
<1>7. ASSUME NEW g \in DecodeGroups(s)
      PROVE  (3 * (g - 1) + Len(ds[g]) - 1 > MAX_PAYLOAD_LEN) <=> ~GroupFits(s, g)
  <2>1. 3 * (g - 1) + Len(ds[g]) - 1 = GroupEnd(s, g)
    BY <1>1, <1>6, GroupSizes DEF GroupEnd
  <2>2. GroupEnd(s, g) \in Int
    BY <1>1, <1>6 DEF GroupEnd
  <2> QED BY <2>1, <2>2, RouterAssumption DEF GroupFits
<1>8. ASSUME NEW g \in DecodeGroups(s)
      PROVE  (Len(ds[g]) = 1) <=> (4 * g > s.chars /\ s.chars % 4 = 1)
  <2>1. /\ n \in Nat /\ g \in Nat /\ 1 <= g /\ g <= (n + 3) \div 4 /\ s.chars = n
        /\ Len(ds[g]) = IF 4 * g <= n THEN 4 ELSE n - 4 * (g - 1)
    BY <1>1, <1>6
  <2>2. (Len(ds[g]) = 1) <=> (4 * g > n /\ n % 4 = 1)
    BY <2>1, GroupSizes
  <2> QED BY <2>1, <2>2
<1>9. ASSUME NEW g \in DecodeGroups(s), s.bad # 0, first = g
      PROVE  \E i \in DOMAIN ds[g] : DECODE_TABLE[ds[g][i]] = INVALID
  <2> DEFINE i == s.bad - 4 * (g - 1)
  <2>1. i \in Nat /\ 1 <= i /\ i <= 4 /\ 4 * (g - 1) + i = s.bad
    <3>1. \A x, h \in Nat : x # 0 /\ (x + 3) \div 4 = h =>
             x - 4 * (h - 1) \in Nat /\ 1 <= x - 4 * (h - 1) /\ x - 4 * (h - 1) <= 4
      OBVIOUS
    <3>2. s.bad \in Nat /\ g \in Nat
      BY <1>1, <1>6
    <3> QED BY <1>9, <3>1, <3>2
  <2>2. i \in 1..Len(ds[g])
    <3>1. /\ n \in Nat /\ g \in Nat /\ s.bad <= n
          /\ Len(ds[g]) = IF 4 * g <= n THEN 4 ELSE n - 4 * (g - 1)
      BY <1>1, <1>6
    <3> HIDE DEF i
    <3> QED BY <2>1, <3>1
  <2> HIDE DEF i
  <2>3. ds[g][i] = d[s.bad]
    BY <1>6, <2>1, <2>2
  <2> QED BY <1>3, <1>6, <1>9, <2>2, <2>3
<1>10. ASSUME NEW g \in DecodeGroups(s), s.bad = 0 \/ g < first
       PROVE  \A i \in DOMAIN ds[g] : DECODE_TABLE[ds[g][i]] # INVALID
  <2> TAKE i \in DOMAIN ds[g]
  <2>1. i \in 1..Len(ds[g])
    BY <1>6
  <2>2. i <= 4 /\ 4 * (g - 1) + i \in 1..n /\ ds[g][i] = d[4 * (g - 1) + i]
    BY <1>6, <2>1
  <2>3. s.bad = 0 \/ 4 * (g - 1) + i < s.bad
    <3>1. g \in Nat /\ i \in Int
      BY <1>6, <2>1
    <3> QED BY <1>1, <1>10, <2>2, <3>1
  <2> QED BY <1>4, <2>2, <2>3
<1>11. ASSUME NEW g \in DecodeGroups(s)
       PROVE  /\ GroupInvalid(s, g) => Malformed(ds[g])
              /\ (s.bad = 0 \/ g <= first) => (Malformed(ds[g]) => GroupInvalid(s, g))
  <2>1. first \in Nat /\ g \in Nat
    BY <1>1, <1>6
  <2>2. (s.bad = 0 \/ g <= first) => (s.bad = 0 \/ g < first \/ (s.bad # 0 /\ first = g))
    BY <2>1
  <2> HIDE DEF first
  <2>3. GroupInvalid(s, g) <=>
           (s.bad # 0 /\ first = g) \/ (4 * g > s.chars /\ s.chars % 4 = 1)
    BY DEF GroupInvalid, first
  <2> QED BY <1>8, <1>9, <1>10, <2>2, <2>3 DEF Malformed
<1>12. s.bad # 0 => first \in DecodeGroups(s) /\ GroupInvalid(s, first)
  <2> SUFFICES ASSUME s.bad # 0 PROVE first \in DecodeGroups(s) /\ GroupInvalid(s, first)
    OBVIOUS
  <2>1. first \in 1..(n + 3) \div 4
    BY <1>1
  <2> QED BY <1>5, <2>1 DEF GroupInvalid
<1>13. \A g \in DecodeGroups(s) : g \in Nat
  BY <1>6
<1> QED BY <1>5, <1>7, <1>11, <1>12, <1>13 DEF ds, d

\* What is left of a text of bytes without its padding is one.
LEMMA StrippedTyped ==
    ASSUME NEW t \in Seq(Byte)
    PROVE  StripPadding(t) \in Seq(Byte)
<1>1. CASE Len(t) >= 2 /\ t[Len(t)] = PAD /\ t[Len(t) - 1] = PAD
  <2>1. SubSeq(t, 1, Len(t) - 2) \in Seq(Byte)
    BY <1>1
  <2> QED BY <1>1, <2>1 DEF StripPadding
<1>2. CASE ~(Len(t) >= 2 /\ t[Len(t)] = PAD /\ t[Len(t) - 1] = PAD)
  <2>1. Len(t) >= 1 => SubSeq(t, 1, Len(t) - 1) \in Seq(Byte)
    OBVIOUS
  <2> QED BY <1>2, <2>1 DEF StripPadding
<1> QED BY <1>1, <1>2

\* The shape is all that decides between success, an error and a panic (base64.rs,
\* decode): whatever the text, Router's decoding of its shape ends like that of the
\* text itself.
THEOREM ShapeDecides ==
    ASSUME NEW t \in Seq(Byte), NEW s \in Base64, IsShape(s, t)
    PROVE  base64_decode_text(t, MAX_PAYLOAD_LEN).error = base64_decode(s)
<1> DEFINE ds == Groups(StripPadding(t), 4)
           past(g) == 3 * (g - 1) + Len(ds[g]) - 1 > MAX_PAYLOAD_LEN
           refused == {g \in DOMAIN ds : Malformed(ds[g]) \/ past(g)}
           first == (s.bad + 3) \div 4
           G == DecodeGroups(s)
<1>1. base64_decode_text(t, MAX_PAYLOAD_LEN).error =
         IF refused = {} THEN NONE
         ELSE IF Malformed(ds[Min(refused)]) THEN "invalid_encoding" ELSE "panic"
  BY DEF base64_decode_text
<1>2. /\ DOMAIN ds = G
      /\ \A g \in G : /\ g \in Nat /\ (past(g) <=> ~GroupFits(s, g))
                      /\ GroupInvalid(s, g) => Malformed(ds[g])
                      /\ (s.bad = 0 \/ g <= first) => (Malformed(ds[g]) => GroupInvalid(s, g))
      /\ s.bad # 0 => first \in G /\ GroupInvalid(s, first)
  BY ShapeGroups, StrippedTyped
<1>3. first \in Nat /\ s.chars \in Nat /\ G = 1..(s.chars + 3) \div 4
  BY DEF Base64, DecodeGroups
<1>4. base64_decode(s) =
         IF \E g \in G : GroupInvalid(s, g) /\ \A h \in 1..g - 1 : GroupFits(s, h)
         THEN "invalid_encoding"
         ELSE IF \A g \in G : GroupFits(s, g) THEN NONE ELSE "panic"
  BY DEF base64_decode
<1> HIDE DEF ds, past, first, G
<1>5. CASE refused = {}
  <2>1. \A g \in G : ~Malformed(ds[g]) /\ ~past(g)
    BY <1>2, <1>5
  <2>2. \A g \in G : ~GroupInvalid(s, g) /\ GroupFits(s, g)
    BY <1>2, <2>1
  <2> QED BY <1>1, <1>4, <1>5, <2>2
<1>6. CASE refused # {}
  <2> DEFINE m == Min(refused)
  <2>1. m \in refused /\ \A g \in refused : m <= g
    <3>1. refused \in SUBSET Nat
      <4>1. refused \subseteq G
        BY <1>2
      <4> QED BY <1>2, <4>1
    <3> HIDE DEF refused
    <3>2. PICK x \in refused : \A y \in refused : ~(y < x)
      BY <1>6, <3>1, LeastNumber
    <3>3. \A y \in refused : x <= y
      BY <3>1, <3>2
    <3> QED BY <3>2, <3>3 DEF Min
  <2> HIDE DEF m
  <2>2. m \in G /\ m \in Nat /\ (Malformed(ds[m]) \/ past(m))
    BY <1>2, <2>1
  <2>3. \A g \in G : g < m => ~Malformed(ds[g]) /\ ~past(g)
    <3> SUFFICES ASSUME NEW g \in G, g < m, g \in refused PROVE FALSE
      BY <1>2
    <3> HIDE DEF refused
    <3> QED BY <1>2, <2>1, <2>2
  <2>4. s.bad = 0 \/ m <= first
    <3>1. s.bad # 0 => first \in refused
      BY <1>2
    <3> QED BY <2>1, <3>1
  <2>5. \A h \in 1..m - 1 : h \in G /\ h < m
    BY <1>3, <2>2
  <2>6. \A h \in G : h < m => GroupFits(s, h) /\ ~GroupInvalid(s, h)
    BY <1>2, <2>3
  <2>7. \A h \in 1..m - 1 : GroupFits(s, h)
    BY <2>5, <2>6
  <2>8. CASE Malformed(ds[m])
    <3>1. GroupInvalid(s, m)
      BY <1>2, <2>2, <2>4, <2>8
    <3>2. base64_decode(s) = "invalid_encoding"
      BY <1>4, <2>2, <2>7, <3>1
    <3> QED BY <1>1, <1>6, <2>8, <3>2 DEF m
  <2>9. CASE ~Malformed(ds[m])
    <3>1. ~GroupInvalid(s, m) /\ ~GroupFits(s, m)
      BY <1>2, <2>2, <2>9
    <3>2. ~\E g \in G : GroupInvalid(s, g) /\ \A h \in 1..g - 1 : GroupFits(s, h)
      <4> SUFFICES ASSUME NEW g \in G, GroupInvalid(s, g), \A h \in 1..g - 1 : GroupFits(s, h)
                   PROVE  FALSE
        OBVIOUS
      <4>1. g \in Nat /\ ~(g < m) /\ g # m
        <5>1. g \in Nat
          BY <1>2
        <5>2. ~(g < m)
          BY <2>6
        <5>3. g # m
          BY <3>1
        <5> QED BY <5>1, <5>2, <5>3
      <4>2. m \in 1..g - 1
        <5>1. 1 <= m
          BY <1>3, <2>2
        <5> QED BY <2>2, <4>1, <5>1
      <4> QED BY <3>1, <4>2
    <3>3. base64_decode(s) = "panic"
      BY <1>4, <2>2, <3>1, <3>2
    <3> QED BY <1>1, <1>6, <2>9, <3>3 DEF m
  <2> QED BY <2>8, <2>9
<1> QED BY <1>5, <1>6

\* The text that stands for a shape has it.
LEMMA TextHasShape ==
    ASSUME NEW s \in Base64
    PROVE  /\ TextOf(s) \in Seq(Byte) /\ StripPadding(TextOf(s)) \in Seq(Byte)
           /\ IsShape(s, TextOf(s))
<1> DEFINE n == s.chars
           L == [i \in 1..s.chars |-> IF i = s.bad THEN 33 ELSE 65 + (i % 26)]
           P == [i \in 1..s.pad |-> PAD]
           t == TextOf(s)
<1>1. n \in Nat /\ s.pad \in Nat /\ s.pad <= 2 /\ s.bad \in Nat /\ s.bad <= n
  BY DEF Base64
<1>2. /\ \A i \in 1..n : L[i] \in Byte /\ L[i] # PAD
      /\ \A i \in 1..n : (L[i] = 33) <=> (i = s.bad)
      /\ \A i \in 1..n : L[i] # 33 => L[i] \in Nat /\ 65 <= L[i] /\ L[i] <= 90
  BY <1>1 DEF PAD, Byte
<1>3. L \in Seq(Byte) /\ Len(L) = n /\ P \in Seq(Byte) /\ Len(P) = s.pad
      /\ \A i \in 1..s.pad : P[i] = PAD
  <2>1. L \in [1..n -> Byte] /\ P \in [1..s.pad -> Byte] /\ \A i \in 1..s.pad : P[i] = PAD
    BY <1>2 DEF PAD, Byte
  <2> HIDE DEF L, P, n
  <2>2. L \in Seq(Byte) /\ P \in Seq(Byte)
    BY <1>1, <2>1, FunctionIsSeq, Zenon
  <2>3. Len(L) = n /\ Len(P) = s.pad
    BY <1>1, <2>1, <2>2
  <2> QED BY <2>1, <2>2, <2>3
<1>4. t = L \o P
  BY DEF TextOf
<1> HIDE DEF n, L, P, t
<1>5. /\ t \in Seq(Byte) /\ Len(t) = n + s.pad
      /\ \A i \in 1..n : t[i] = L[i]
      /\ \A k \in 1..Len(t) : k > n => t[k] = PAD
  BY <1>1, <1>3, <1>4
<1>6. \A k \in 1..Len(t) : (t[k] = PAD) <=> (k > n)
  BY <1>1, <1>2, <1>5
<1>7. StripPadding(t) = SubSeq(t, 1, n)
  BY <1>1, <1>5, <1>6, PaddingStripped
<1>8. /\ StripPadding(t) \in Seq(Byte) /\ Len(StripPadding(t)) = n
      /\ \A i \in 1..n : StripPadding(t)[i] = L[i]
  <2>1. n \in 0..Len(t)
    BY <1>1, <1>5
  <2> QED BY <1>5, <1>7, <2>1, Prefix
<1>9. DECODE_TABLE[33] = INVALID
  <2>1. 33 \in 0..255
    OBVIOUS
  <2> QED BY <2>1 DEF DECODE_TABLE
<1>10. \A c \in Nat : 65 <= c /\ c <= 90 => DECODE_TABLE[c] # INVALID
  <2>1. \A c \in Nat : 65 <= c /\ c <= 90 => c \in 0..255 /\ c \in 65..90
    OBVIOUS
  <2>2. \A c \in Nat : 65 <= c /\ c <= 90 => DECODE_TABLE[c] = c - 65
    BY <2>1 DEF DECODE_TABLE
  <2> QED BY <2>2 DEF INVALID
<1>11. s.chars = n
  BY DEF n
<1>12. s.bad # 0 => s.bad \in 1..n /\ DECODE_TABLE[StripPadding(t)[s.bad]] = INVALID
  BY <1>1, <1>2, <1>8, <1>9
<1>13. \A i \in 1..n : (s.bad = 0 \/ i < s.bad) => DECODE_TABLE[StripPadding(t)[i]] # INVALID
  BY <1>1, <1>2, <1>8, <1>10
<1>14. IsShape(s, t)
  BY <1>1, <1>8, <1>11, <1>12, <1>13 DEF IsShape
<1> QED BY <1>5, <1>8, <1>14 DEF t

--------------------------------------------------------------------------------
(* Writes *)

\* An error of a write is what its text decodes to, if it is none of the handler's own.
Decoded(cmd, error) ==
    /\ error = NONE => decode_bytes(cmd.bytes) = NONE
    /\ error \in {"invalid_encoding", "panic"} => decode_bytes(cmd.bytes) = error

\* Errors that have nothing to do with the text.
OwnErrors == ErrorCode \ {"invalid_encoding", "panic"}

\* The checks in front of the text keep to errors of their own.
LEMMA OwnChecks ==
    /\ \A f : Require(f) \in Opt(OwnErrors)
    /\ \A b : InRange(b) \in Opt(OwnErrors)
    /\ \A f, n : validate_index(f, n) \in Opt(OwnErrors)
    /\ \A b : check_configured(b) \in Opt(OwnErrors)
<1>1. /\ \A f : Require(f) \in Opt(OwnErrors)
      /\ \A b : InRange(b) \in Opt(OwnErrors)
      /\ \A b : check_configured(b) \in Opt(OwnErrors)
  BY DEF Require, InRange, check_configured, Opt, OwnErrors, ErrorCode
<1>2. \A f, n : validate_index(f, n) \in Opt(OwnErrors)
  BY <1>1 DEF validate_index, ??
<1> QED BY <1>1, <1>2

\* A check in front of others leaves the errors of the text what they are.
LEMMA OwnFirst ==
    ASSUME NEW cmd, NEW a \in Opt(OwnErrors), NEW b, Decoded(cmd, b)
    PROVE  Decoded(cmd, a ?? b)
  BY RouterAssumption DEF Decoded, ??, Opt, OwnErrors

\* What each handler of a write answers of its bytes is what the decoder says.
LEMMA WritesDecode ==
    ASSUME NEW cmd, NEW st
    PROVE  /\ Decoded(cmd, uart_handle_write(cmd, st))
           /\ Decoded(cmd, spi_handle_write(cmd, st))
           /\ Decoded(cmd, i2c_handle_write(cmd, st))
           /\ Decoded(cmd, usb_handle_write(cmd))
<1>1. Decoded(cmd, decode_bytes(cmd.bytes))
  BY DEF Decoded
<1>2. Decoded(cmd, uart_handle_write(cmd, st))
  BY <1>1, OwnChecks, OwnFirst DEF uart_handle_write, ??
<1>3. Decoded(cmd, spi_handle_write(cmd, st))
  BY <1>1, OwnChecks, OwnFirst DEF spi_handle_write, ??
<1>4. Decoded(cmd, i2c_handle_write(cmd, st))
  BY <1>1, OwnChecks, OwnFirst DEF i2c_handle_write, ??
<1>5. Decoded(cmd, usb_handle_write(cmd))
  BY <1>1, OwnChecks, OwnFirst DEF usb_handle_write
<1> QED BY <1>2, <1>3, <1>4, <1>5

\* The response to a write, whatever the state.
LEMMA RespondDecodes ==
    ASSUME NEW cmd \in Commands, NEW st, WritesBytes(cmd)
    PROVE  LET r == respond(cmd, st).reply
           IN  /\ r.ok => decode_bytes(cmd.bytes) = NONE
               /\ r.error \in {"invalid_encoding", "panic"} => decode_bytes(cmd.bytes) = r.error
<1> DEFINE r == respond(cmd, st).reply
           e == StatelessError(cmd, st)
<1>1. CASE check_version(cmd) # NONE
  <2>1. check_version(cmd) \in {"missing_version", "unsupported_version"}
    BY <1>1 DEF check_version
  <2> QED BY <1>1, <2>1 DEF respond, Response
<1>2. CASE check_version(cmd) = NONE /\ validate_route(cmd) # NONE
  <2>1. validate_route(cmd) \in {"unknown_interface", "unknown_action"}
    BY <1>2 DEF validate_route
  <2> QED BY <1>2, <2>1 DEF respond, Fail, Response
<1>3. CASE check_version(cmd) = NONE /\ validate_route(cmd) = NONE
  <2>0. /\ cmd.action = "write" /\ cmd.interface \in DOMAIN VALID_ROUTES
        /\ "write" \in VALID_ROUTES[cmd.interface]
    <3>1. "unknown_interface" # NONE /\ "unknown_action" # NONE
      BY RouterAssumption DEF ErrorCode
    <3> QED BY <1>3, <3>1 DEF WritesBytes, validate_route
  <2>3. cmd.interface \in {"gpio", "uart", "spi", "i2c", "usb"}
    BY <2>0 DEF VALID_ROUTES
  <2>1. cmd.action = "write" /\ cmd.interface # "config"
    BY <2>0, <2>3
  <2>2. dispatch(cmd, st) = Stateless(cmd, st)
    BY <2>1 DEF dispatch
  <2>4. Decoded(cmd, e)
    <3>1. Decoded(cmd, "not_configured")
      BY RouterAssumption DEF Decoded, ErrorCode
    <3> QED BY <2>1, <2>3, <3>1, WritesDecode DEF StatelessError
  <2> HIDE DEF e
  <2>5. respond(cmd, st) = IF e # NONE THEN Fail(cmd, st, e) ELSE Done(cmd, st, NONE)
    BY <1>3, <2>2 DEF respond, Stateless, e
  <2>6. r.ok = (e = NONE) /\ r.error = e
    BY <2>5 DEF Fail, Done, Response
  <2> QED BY <2>4, <2>6 DEF Decoded
<1> QED BY <1>1, <1>2, <1>3

\* A text that is there is answered for what it decodes to.
LEMMA BytesDecode ==
    ASSUME NEW field, field # NONE
    PROVE  /\ decode_bytes(field) = NONE => base64_decode(field) = NONE
           /\ decode_bytes(field) \in {"invalid_encoding", "panic"}
                 => base64_decode(field) = decode_bytes(field)
  BY RouterAssumption DEF decode_bytes, ErrorCode

\* The last response is that of the last request.
Answered == request # NONE => \E st : reply = respond(request, st).reply

\* An answer to a write follows its text.
LEMMA AnsweredSurvives ==
    ASSUME RouterInv, Answered
    PROVE  PayloadsSurvive
<1> DEFINE decoded == base64_decode_text(TextOf(request.bytes), MAX_PAYLOAD_LEN)
<1>1. ASSUME WritesBytes(request)
      PROVE  /\ reply.ok => decoded.error = NONE
             /\ reply.error \in {"invalid_encoding", "panic"} => decoded.error = reply.error
  <2>1. request \in Commands /\ request.bytes \in Base64 /\ request.bytes # NONE
    BY <1>1, RouterAssumption DEF RouterInv, RouterTypeOK, WritesBytes, Opt, Command
  <2>2. PICK st : reply = respond(request, st).reply
    BY <1>1 DEF Answered, WritesBytes
  <2>3. decoded.error = base64_decode(request.bytes)
    BY <2>1, TextHasShape, ShapeDecides
  <2> HIDE DEF decoded
  <2> QED BY <1>1, <2>1, <2>2, <2>3, RespondDecodes, BytesDecode
<1> QED BY <1>1, RoundTripsAlways DEF PayloadsSurvive

\* A write is answered for what its text decodes to, byte for byte: for every command,
\* every text of at most two padding characters and every size of decode_bytes' buffer
\* (base64.rs and the handle_write of uart, spi, i2c and usb), after any session and
\* among any batches; and bytes come back from their text.
THEOREM PayloadsAlwaysSurvive == BatchSpec => []PayloadsSurvive
<1>1. RouterInit => Answered
  BY DEF RouterInit, Answered
<1>2. ASSUME Answered, [RouterNext \/ \E b \in Batches : RunBatch(b)]_routerVars
      PROVE  Answered'
  <2>1. ASSUME NEW cmd \in Commands, Handle(cmd) PROVE Answered'
    BY <2>1 DEF Handle, Answered
  <2>2. CASE NewSession
    BY <2>2 DEF NewSession, Answered
  <2>3. ASSUME NEW b \in Batches, RunBatch(b) PROVE Answered'
    BY <2>3 DEF RunBatch, Answered
  <2>4. CASE UNCHANGED routerVars
    BY <1>2, <2>4 DEF routerVars, Answered
  <2> QED BY <1>2, <2>1, <2>2, <2>3, <2>4 DEF RouterNext
<1> QED BY <1>1, <1>2, BatchInvariance, AnsweredSurvives, PTL DEF BatchSpec
================================================================================
