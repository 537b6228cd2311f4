# pico-conduit in TLA+

Specifications of the pico-conduit firmware (`src/`), model-checked with TLC and proved with TLAPS.
Every definition translates the Rust source; `PROJECT.json` maps each one to the lines it stands for.

    tlc -workers 2 -config MCStation.cfg Station.tla             # a run
    tlapm RouterProofs.tla                                       # the proofs of a module

## 1. Inventory of the system

The firmware runs on one core under the embassy executor. Tasks are cooperative: code between two
awaits is never interrupted by another task. The main task runs `net::start` and never leaves it;
`led_task`, the radio's task and the network stack's task run beside it.

| Component | State it keeps | Operations | Interacts through |
|---|---|---|---|
| Framing (`FrameReader`, protocol.rs) | `buf`, `pos`, `overflowed`, for a connection | `new`, `push`, `reset` | called by `read_frame` for every byte |
| Router (router.rs) and handlers (interfaces/*.rs, base64.rs) | `DeviceState`: configurations, flags, `subscriptions`, `pending_reboot`, for a connection | `validate_route`, `dispatch`, a handler for each route | called by `handle_client`; `pending_reboot` is read back by it |
| TCP session (net.rs) | socket buffers, idle timeout | `read_frame`, `write_frame`, `handle_client` | bytes and FIN/RST of the client; calls framing and router |
| Station mode (net.rs) | `reconnect_attempt`, `total_offline_secs`, the radio's power mode | join loop, accept loop, backoff, SOS | `LED_SIGNAL`, `CONTROL_MUTEX` |
| LED task (led.rs, net.rs) | state being played, step, light | `led_task`, `set_led` | takes `LED_SIGNAL`, locks `CONTROL_MUTEX` |
| Provisioning (net.rs, provisioning/) | the credential record in flash, the access point, the form being tested | boot, factory reset, portal requests, test, save | flash, `LED_SIGNAL`, `CONTROL_MUTEX`, watchdog |
| Batch (router.rs, protocol.rs) | none | `dispatch_batch` | calls the router for each inner command; called by tests only |
| WebSocket transport (ws.rs, net.rs) | socket buffers, the header being read | handshake, frames, ping and close | alternative to TCP, a build feature; calls the router through `handle_client` |
| MQTT transport (mqtt.rs, net.rs) | connection, `reconnect_attempt`, a `DeviceState` for each session | connect, subscribe, message loop, backoff | alternative to TCP, a build feature; calls the router; `LED_SIGNAL` |
| Client library (client/) | reader and writer of one connection | `connect`, `send_raw`, 23 typed methods | a client of the TCP session |
| DHCP server, start-up, macros | none of interest | | |

What is hard in it, and what makes each part correct:

- *Framing*: an unchecked index, a limit that counts the newline, state that outlives an error. A frame
  is one whole line, a line over the limit gives one error and nothing else.
- *Router*: long legal sequences of configure, write, subscribe and unsubscribe. A configured
  peripheral is valid, a rejected command changes nothing, the subscription list stays within its
  limit and free of duplicates, and unsubscribing frees the pin whatever mix of entries it had.
- *Session*: bytes, reads, writes, FIN, RST, silence and timeouts interleave over two bounded buffers.
  Answers are those of a sequential server, for this connection alone, and nobody waits forever.
- *Station, LED*: three users of one mutex, a signal that keeps only its latest value, counters that are
  reset together and advanced apart. The LED shows the latest state soon, the radio sleeps exactly
  when no client is served, the outage budget counts one outage.
- *Batch*: several commands in one request, some of which fail, reboot or panic. It is its commands one
  after the other, and a command that fails might as well not be there.
- *WebSocket*: headers in three forms, cut anywhere; control frames between and behind commands; a text frame
  is two writes; behind a frame that is refused for its length reading goes on in an aborted socket. Frames are
  answered one after the other and never inside one another.
- *MQTT*: outages of any length, retained commands, sessions that break off with commands in their
  buffers. Each session starts afresh and runs what it was sent, once and in order; the delays of an outage follow
  the schedule; a broker that is back is served again.
- *Client library*: it pairs responses with commands by their order alone, waits without a timeout and checks no
  argument. Each call returns the response to its own command, and returns; an argument that the device does not
  have is refused and never replaced.
- *Provisioning*: a test that takes the portal down, timeouts, power cuts inside the flash operations.
  Only a network that was joined is remembered; the portal always comes back.

`PROJECT.json` lists these hazards by line, with the properties that catch each, or why none does yet.

## 2. Modules

| Module | Models | Notes |
|---|---|---|
| `LineFraming` | what framing promises, with no buffer | abstract |
| `FrameReader` | `FrameReader` byte by byte | refines `LineFraming` |
| `Router` | `DeviceState`, routing, every handler `dispatch` reaches | handlers are operators from a state to a state and a response |
| `TcpSession` | the server and its successive clients | EXTENDS `FrameReader` and `Router`: `ReadByte` pushes a byte and serves the frame in one step, as the code does between two awaits |
| `TcpSessionProperties` | its properties, against a recursive function over the bytes sent | |
| `ClientLibrary` | `connect` and `send_raw` among other clients | EXTENDS `TcpSessionProperties`: the library's bytes are those of a client there, its end of a broken connection may outlive the server's |
| `ClientMethods` | the command of each typed method and the data it reads | EXTENDS `Router`, whose `respond` answers them; arguments are any of their types, as the library checks none |
| `Batch` | `dispatch_batch`, by recursion over the list of commands | EXTENDS `Router`; batches are run between single commands |
| `WsFrames` | frame headers, written and parsed | |
| `WsSession` | `ws_handshake`, `WsTransport`, `handle_client` and their clients | EXTENDS `WsFrames` and `Router`; a piece of the stream is what one `read_exact` waits for |
| `WsSessionProperties` | its properties, against a recursive function over the frames taken | |
| `MqttClient` | `mqtt_client`, with a broker, its clients and the network | EXTENDS `Router` |
| `Led` | LED patterns, `led_task`, `set_led` | composed by `Station` and `Provisioning` |
| `Station` | `start` with credentials, `sta_mode`, `tcp_server` | in time; a client stays any time |
| `Base64Text` | encode, decode and their tables | EXTENDS `Router`, whose view of a text is checked against it |
| `CredentialStore` | what provisioning promises of the stored network | abstract |
| `Provisioning` | `start` without credentials, factory reset, `ap_mode`, portal, flash | refines `CredentialStore`; in time, with power cuts |
| `PortalRequest` | POST /connect from the socket to the form's fields | EXTENDS `Provisioning`; the run's `Forms` are what it makes of requests |
| `SequenceLemmas` | induction, and recursion over sequences | used by the next five and by `ProvisioningProofs` |
| `RouterProofs` | theorems about `Router` | used by the next four |
| `SessionProofs` | theorems about `FrameReader`, `TcpSession`, `ClientLibrary` | |
| `HandlersProofs` | theorems about `Batch`, `ClientMethods`, `Base64Text` | |
| `WsProofs`, `MqttProofs` | theorems about the module of that name | |
| `StationProofs` | theorems about `Station` and the LED task in time | |
| `ProvisioningProofs` | theorems about `Provisioning` and `PortalRequest` | |
| `MC*` | instances for TLC | |

How states and actions correspond to the code:

- Variables carry the source's names where there is one (`buf`, `pos`, `overflowed`, `dev`,
  `reconnect_attempt`, `total_offline_secs`, `led_signal`). `pc` is the await at which the task stands.
  Variables marked *history* (`line`, `stream`, `received`, `request`, `last`, `age`, `slept`,
  `tested`) are read by properties only.
- An action is the code between two awaits. `holder` is `CONTROL_MUTEX`; a guard that is dropped and
  retaken with no await in between stays with its task, because no other task can be polled.
- `Router` reduces a base64 text to its number of characters, its padding and the place of its first bad
  character, which is all that decides between ok, `invalid_encoding` and a panic. `Base64Text` has the texts themselves, as ASCII
  codes, and checks that the two agree. Ids are short
  or longer than the 32 bytes a subscription stores. The SSID and version are kinds of response data.
- `TcpSession` takes the network and the client's own buffers as part of the two queues. Queue sizes count
  bytes one way and whole responses the other.
- `WsSession` leaves out the bytes of keys and payloads: a header is its bytes, a payload the command it parses to. A
  request is an upgrade or is not. A client's frames are those that `read_frame` cuts its stream into. A refused
  frame ends with its length (`Refuse`): the socket is aborted, the error is not sent, and
  `handle_client` reads on what the socket still holds (net.rs:1151-1157). What its client meant as key and payload
  are frames of their own there, with any commands.
- In `ClientMethods` a method is the set of its calls, with arguments from sets that are constants. `Legal` says which
  of them the device has.
- `MqttClient` begins behind `sta_mode`'s last signal, Connecting (net.rs:500), which stays for good if no broker is
  configured. The read of the MAC address before the loop (net.rs:934) takes `CONTROL_MUTEX` for one command and is left
  out. `backoffs` counts the delays begun since the last session, not the attempts.
- In `MqttClient` the socket's two ends are one `link`, and `inbox` is what the device has not polled. A broker sends
  the retained command with or without waiting for its own SUBACK, and may send later commands before
  the device has seen SUBACK. It queues nothing for a device that is away, as `clean_start` and QoS 0 demand.
- Where a command panics (`halted`), the device stops, as panic-probe does.
- Time in `Station` and `Provisioning` passes in ticks that divide every duration used, and only when no
  task can run. Radio calls other than join and scan are taken to be shorter than a tick; join, scan,
  DHCP and accept take any time.
- In `Provisioning` a power cut inside the erase keeps any part of the old record, and inside the write
  also any part of the new one. A torn byte is as it was or as it would have been, and an unprogrammed
  byte is 0xFF: not a magic number, not a legal length, not UTF-8, but a fine half of a port.
- In `PortalRequest` a byte is a character, the "%" of an escape or one of its two digits, and a field's name
  counts as one byte. Of the headers only two things matter: where they end, and what number the buffer holds of
  Content-Length, all of it if they fit. The client stops anywhere in the body. `Form` is what the code makes of the texts
  a user typed: a text over its string counts as empty there (net.rs:1597-1603), and `ssid_manual` is not looked at.
- Definitions commented "a slip for the checks of the properties" are plausible mistakes that no action
  uses. `PROJECT.json` pairs each with the definition it would replace and the property it would break.

## 3. Runs

| Run | Question | Bounds |
|---|---|---|
| `tcp_session` | Does the reader deliver exactly the lines of `LineFraming`; is every interleaving equal to the sequential server; is each line answered and each vanished client dropped; does each call of the library return its own response? | line limit 3, so lines end below, at and past it; receive buffer of 2 bytes, transmit buffer of one response, the tightest; three calls for each connection of the library (9 bytes), five bytes for each connection of another client, any number of connections |
| `handlers` | Are configured peripherals valid, rejected commands without trace, subscriptions well formed; are batches sequences; does the firmware understand the library; do payloads survive base64? | commands with valid, missing, boundary and illegal fields for every route; payloads on both sides of 512 bytes; two subscriptions, fewer than there are targets; ten batches below, at and above a limit of 3, which fail, reboot or panic inside; every method with arguments inside and outside what the device has; texts of up to four bytes at the ends of what bits can be, every single byte, and 512 bytes |
| `station` | LED, power mode, outage budget, progress | none but TICK = 50: all real durations, backoffs until the SOS |
| `provisioning` | Refinement, portal, save pattern, progress; what of a form is tested? | TICK = 100; two networks and a form that is refused; any number of power cuts; 77 filled-in forms over buffers of 24 (body), 20 (decoded) and 4 bytes (headers), some past them; bodies that stop at each byte, headers that end at their buffer or up to 2 bytes past it with all or none of the length; two networks posted whole and broken off in a password and in an escape |
| `mqtt` | Does each session start afresh and run what it was offered; do the delays of an outage follow the schedule; is a broker that is back served again? | counter that saturates at 4, past the end of the schedule, in place of 255; two commands for each session and one retained; any number of sessions and outages |
| `websocket` | Are frames answered in order, also behind a refused one, headers legible, every frame answered, vanished clients dropped? | limits of the code (125, 1024, 65535) and a frame on both sides of each; receive buffer of 4 pieces, so that a whole command fits behind a refused header, transmit buffer of 1; two frames for each connection, any number of connections; all responses have 126 bytes, so only the extended header is written, and the short one rests on `HeaderRoundTrip` and `HeadersAlwaysParse` (section 4) |

The small limits keep what matters: every buffer can be empty, full and overfull, lines end before, at
and after the limit, and each list can be asked for more than it holds. The reader and the router do not depend
on a limit's value otherwise, which their proofs confirm. Six runs show disagreements between code and
documents, each a counterexample to one property:

| Run | Document or code | What the code does |
|---|---|---|
| `decode_panics` | interfaces/mod.rs:97, decoding "cannot fail" past its limit | 684 base64 characters index past the 512-byte buffer and panic |
| `half_close` | PROTOCOL.md:24,46, all pipelined responses arrive | at the client's FIN `read_frame` aborts the socket with responses in it |
| `wedged` | PROTOCOL.md:19, idle connections close after 30 s | a write to a full buffer has no timeout: a vanished client keeps the server |
| `sos_early` | LED_STATUS.md:15, SOS after ten minutes | the budget counts a backoff before it is slept: SOS after 555 s |
| `mqtt_reboot` | PROTOCOL.md:241, ok, ten flashes, bootloader, over every transport | over MQTT ok, and a new connection to the broker |
| `mqtt_unpaused` | PROTOCOL.md:412, reconnects after 5, 10, 20, 40, 60 s | an attempt that fails while SUBACK is awaited is followed by the next at once and not counted |

Other divergences and surprises met while modelling, with no run of their own:

- *Batches* are never reached: `handle_client` calls `dispatch` only, so batch/run is `unknown_interface`
  (net.rs:1163, PROTOCOL.md:184). A list of more than 17 commands is `malformed_json` where `batch_too_large`
  would be expected, and a batch whose responses exceed the buffer would be answered `msg_too_large` after
  it was carried out (protocol.rs:630).
- *TCP*: a response that does not fit its buffer, because the echoed id is too long, is not sent at all (net.rs:1171),
  where PROTOCOL.md:30 says that an invalid command returns an error.
- *Ranges*: PROTOCOL.md:116 offers `data_bits` 5-9 and the firmware has 7 and 8 (uart.rs:61-65); PROTOCOL.md:108 reserves
  GPIO29 and the firmware 23 to 29; PROTOCOL.md:147-150 has PWM channels 0-7 and the firmware 0-15; I2C has two
  frequencies. `FieldRange` in `ClientMethods` is the firmware's.
- *Client library*: `bytes` arguments are sent as JSON arrays where the firmware reads base64 text
  (lib.rs:449, PROTOCOL.md:15), so those methods are answered `malformed_json`.
- *GPIO*: a pin can hold a polled and an edge-triggered subscription at once (protocol.rs:567,
  PROTOCOL.md:268), `gpio/subscribe` takes reserved pins (router.rs:155, PROTOCOL.md:108), and an id just
  over 32 bytes becomes the empty id of its subscription (router.rs:340).
- *LED*: the reboot comes 650 ms after a 1000 ms pattern begins (net.rs:1180); Booting is replaced by
  Connecting before the LED task runs (net.rs:451); the factory reset erases and resets without an await, so
  its five flashes are never seen (net.rs:459, OBJECTIVE.md:70).
- *MQTT*: `keep_alive` is announced and nothing sends PINGREQ (net.rs:974); a retained command that overtakes
  SUBACK restarts the connection at once, again and again (net.rs:1053); a session that is lost is
  also followed by a new one without a pause; without a broker's address the LED shows Connecting for good, joined or
  not (net.rs:500).
- *WebSocket*: the close reply is lost to the abort behind it (net.rs:730); unmasked frames are accepted
  and FIN is ignored; the handshake has no timeout (net.rs:1425), and one that fails gets no answer; the
  error for an oversize frame is never sent (net.rs:702), and what the aborted socket holds of that frame is read as
  frames, whose commands are carried out (net.rs:1156; `FramesInOrder` includes it); an upgrade request past 512 bytes leaves its tail
  to be read as a frame header (net.rs:771).
- *Portal*: a body is decoded before it is cut at "&", so an escaped "&" in a password ends it
  (portal.rs:109); a body past 256 bytes, or cut by the end of its connection, is parsed as if it were
  whole, so that a network is tested with the beginning of its password (net.rs:1583); a text longer than its string
  counts as empty, so that one with an over-long password is tested as open (net.rs:1601); the buffer for decoded text has 128 bytes where the doc asks for as many as the body's 256 (portal.rs:136);
  the form's `ssid_manual` field, which the page calls an override, is ignored (net.rs:1700); the access point is open where README.md:30 gives
  it a password; `read_http_headers` has no timeout (net.rs:1421).

### Fairness

- `TcpSession`: weak fairness of the server's steps, which the executor polls and whose idle timer fires, and
  of delivery, as long as the client is connected (TCP retransmits). None of the client's sending, closing or
  vanishing, and none of accept.
- `ClientLibrary` adds that a thread inside a call goes on (`LibraryStep`); whether there is another
  call, and when the program dies, is left open.
- `WsSession`: as `TcpSession`, weak fairness of the server's steps and of delivery.
- `MqttClient`: weak fairness of the client's steps: the task is polled, its timers fire, and a broker that is up and
  reachable answers. None of the broker's restarts, of the network or of other publishers.
- `Station`, `Provisioning`: weak fairness of the LED task, of the main task's own steps and of time. The
  executor polls each task that is woken, and neither task loops without an await. None of the network, the
  user or the power supply: joins and scans may never return, and `TestEnds` rests on `with_timeout` alone.

Deadlock is not checked where the system may stop: after a panic (`handlers`), after the reboot
(`station`), for both (`tcp_session`, `websocket`, `mqtt`), and in the runs that look for one violation.

## 4. Theorems

Proved by TLAPS for all values of the constants, under the named assumptions of each module. Those say
of which type a constant is and that `NONE` and its like are no command, number, name or response, as Rust's
`Option` guarantees; and of the code: the limits are positive where it divides or indexes by them, an
error without an id fits every buffer, and a frame without bytes carries no payload.

- **Framing** (`ReaderAssumption`: the newline is a byte, the limit is positive). `TypeOK` alone is not
  inductive: `pos` stays inside `buf` only as long as `overflowed` tells the truth about the line, so
  `ReaderInv` joins it with `ReaderTracksLine`. From it follow type correctness, `ReaderTracksLine`, and
  `ReaderImplementsFraming`: a frame taken from the buffer is the current line (`TakenIsLine`), and overflow is
  flagged exactly for lines over the limit.
- **Router** (`RouterAssumption`). `GoodState` says of a `DeviceState` that it is typed, its subscriptions are
  finite, within the limit and pairwise distinct, and its configurations valid. Each handler is `Sound`: from
  a good state it makes a good state, and answering with an error it returns the state it was given.
  `dispatch` and `respond` inherit this by cases on the route. From it follow the type invariant,
  `SubscriptionsWellFormed`, `ConfiguredIsValid`, and the action property `RejectedChangesNothing`.
  `UnsubscribeFreesTarget`, another one, counts: an unsubscribe that is acknowledged has dropped an
  entry, so there is room (`RetainMakesRoom`), and every entry of its target (`PinFreed`, `ChannelFreed`).
- **TcpSession** (`SessionAssumption`). `SessionInv` composes the reader's and the router's invariants with the bounds
  of the two socket buffers: a byte pushed keeps the reader's, a frame served keeps the router's, and a response is
  written into room only. `SessionTypeOK` follows for every buffer size and client. `SequentialAnswers`,
  from `FollowsReference`: the bytes in the socket are the end of the stream, the line that is half read and the state are those of the
  reference after the bytes before it, and so are the responses, received, in the socket or waiting.
- **ClientLibrary** (`LibraryAssumption`). `OneOutstanding`, from `LibraryInv`: at most one newline of the library is
  under way, and while it waits the responses made are at most one more than the lines it has read.
  `CallsPaired`, from `PairInv`: the stream of a live library is the lines of its finished calls and the part of the next that was
  written, and the responses made begin what the reference sends for that stream. `LibraryIsClient`: with the library in it a session is a session, so the
  properties of `TcpSession` hold with it.
- **Base64Text** (`RouterAssumption`). `BytesComeBack`: whatever bytes are encoded decode to themselves from
  their text, with its padding and without, in a buffer of exactly their number. The groups of a text are matched
  with those of its bytes (`GroupsMeaning`, `TextOfBytes`), and a group is arithmetic on three bytes (`EightBits`). `ShapeDecides`:
  whatever the characters, the decoder ends as Router's `base64_decode` says of length and first bad character. Its
  first group that is refused, for a character or for room, is the first in both (`ShapeGroups`). `PayloadsSurvive`
  follows with `Answered`: the last response is that of the last request in some state.
- **Batch** (`BatchAssumption`). `BatchesKeepRouter`: what holds of `Router` holds with batches between single commands.
  `BatchIsSequence`: `SideBySide` relates a batch and the commands one by one, command after command, equal until
  a reboot and one the beginning of the other from there; that the version is the only field in which they may
  differ, and that no handler reads it, is `DispatchAlike`. `FailedCommandsDropOut` by
  `Sifted`: a command that fails leaves state and successes as they are, which is what `Sound` says.
- **ClientMethods** (`MethodAssumption`: arguments are of their parameters' types, and no more). `CallsUnderstood`, for
  every state of the device: with arguments that the device has a method passes the checks of its handler, and what
  it reads is the kind of data in the response; with others it is refused; and a configure that is done
  has stored the arguments it was given. Interface by interface (`UartMethods` and its like) from what `Legal` says of the fields
  (`LegalFields`). It needs no invariant because none of these handlers' checks reads the state, but the one for
  missing hardware.
- **WsSession** (`FrameAssumption`, `WsAssumption`). `HeaderRoundTrip`: a header parses to the length it was written
  for. `HeadersParse`, from `HeaderInv`: a header lacks its payload only while the server stands
  between the two writes, where no read and so no pong can happen. `WsTypeOK` and `FramesInOrder`, from `FrameInv`:
  there are a frame and a piece of it at which the server stands, the header it has parsed so far is that of
  the pieces before (`Position`), and responses and state are those of the frames before (`Effect`). Behind a refused frame (`RefusedPiece`) the state still is; what
  is written no longer reaches the client.
- **MqttClient** (`MqttAssumption`). `BackoffSchedule`, from `BackoffInv`: counter and number of delays agree up to saturation. It is a
  statement about delays: attempts that have none are what `mqtt_unpaused` shows.
  `ExecutedAsOffered`, from `OfferInv`: as long as the link is up, the inbox continues what was executed
  to what was offered; outside a session it is empty. `MqttTypeOK` and `StateFollowsSession`, from
  `ClientInv`: in a session, state and responses are those of its commands, the response that waits to be published
  included.
- **Station** (`StationAssumption`: a tick that divides 50 ms). `TaskInv` relates the LED task's and the main task's
  place to `holder` and to the power mode; `StationTypeOK` and `PowerFollowsClient` follow. `OutageInv` says that an
  outage is n failures old and that no counter saturates before the SOS; `OutageAccounting` follows.
  `LedFollows`, from `FollowInv`: while the LED plays another state than the latest, that one waits in `LED_SIGNAL`,
  and its age and what is left of the pattern together are at most 500 ms (`LateInv`). That the LED
  task never stands still in between rests on time, which passes only when no task can run.
- **Provisioning** (`ProvisioningAssumption`: a tick that divides 100 ms). `DeviceInv` gives the types with the mutex's
  holder. `StoreInv` has three parts: the record in flash, however torn, was written for a joined
  network; credentials are written only after they joined; while the portal's code runs nothing in flash
  loads. The last is what makes a save a first save and never a replacement. `LoadedNetwork` shows that what loads is of
  the network that was written: a torn text is noticed and a torn port is not part of the network. With them
  each step is a step of `CredentialStore` or leaves it alone. `PortalReachable` follows from the stronger `AirInv`,
  which also covers the 200 ms between the access point and the portal. `SavingShown`, from `ShownInv`: what is
  left of the patterns until the last flash of Saving begins is less than what is left of the 3000 ms
  before the reset, whichever pattern was playing at the save.
- **PortalRequest** (`PortalAssumption`, `RequestsAssumption`, `PostsAssumption`). `TestedAsSent`, for every alphabet, every set of
  filled-in forms, clients that stop anywhere, and all sizes of the buffers. The assumptions say that "&", "=" and the space are
  characters, that "+" and "%" are escaped and that an escape is undone by its digits; that the characters of a text are no
  field's name, since a name counts as one byte, and not the byte that stands for what is left of headers; and that forms come in
  requests. Texts with an "&" are left open by the property itself, because the code cuts them (section 3). `Understood` follows
  a whole body through three loops: what is decoded is the typed text (`TextDecoded`, `BodyDecoded`), what is split is one pair for each
  field (`PieceParsed`), and each pair is cut at its first "=" (`PairCut`), in either order of the fields. For a body that is
  broken off, `BodyHead` goes through its beginnings: each is refused within an escape, or decodes to the fields before the cut and the
  beginning of one (`TextHead`, `FieldHead`), whose form is that of a shortened text (`CameShortened`). Behind a rest of headers (`TailRefused`) the
  argument is another: in the body the browser sends, "ssid" is the first byte or absent (`BodyFirst`), so it is never
  the first byte of a pair (`TailBehind`, `TailSplit`), and a form without it has no ssid (`NoSsid`).

Several of these properties compare a run with a reference that is recursive over what was sent: `SequentialAnswers`,
`FramesInOrder`, `StateFollowsSession`, `BatchIsSequence`, `FailedCommandsDropOut`; and `TestedAsSent` has loops over bytes. Two things make
that provable with first-order provers. Induction is used with a set in the place of the predicate: a set of numbers that
is not empty has a least one (`LeastNumber`), so a set that has 0 and each successor has all numbers
(`Induction`), and one that has the empty sequence and each extension has all sequences (`SeqInduction`). And
a recursive function over `Seq` is known to be what its definition says only once some function
is: `SeqRecursion` (in `SequenceLemmas`) proves that there is one for every start and step. The references are written as such functions
and not as folds for that reason.

Every safety invariant and every action property that a run checks is proved. Model-checked only, because it needs fairness and
ENABLED, is liveness: `LinesAnswered`, `VanishedReleasedUnlessBlocked`, `CallReturns`, `FramesAnswered`,
`VanishedReleasedAfterUpgrade`, `ServesAgain`, `ClientServed` and `TestEnds`.

## 5. Not modelled

- JSON text (`serde-json-core`): a frame parses to a command or does not, a response fits or does not.
- Handlers that take a peripheral (`handle_read`, `handle_transfer`, writes to pins): unit tests call them,
  `dispatch` answers `not_configured` for those routes, and so does `Router`.
- `codec.rs` and `serialize_batch_response`: only tests reach them.
- Header extraction and the SHA-1 of the WebSocket handshake, and upgrade requests past 512 bytes; `ws_server`'s accept
  errors, which are those of `tcp_server` in `Station`. MQTT topic and client names.
- Portal requests that change no state. The portal's requests are atomic in time, so a client that connects and stays
  silent is not in the model.
- Credentials given at compile time; the DHCP server; hardware start-up; macros; the stubs of `storage.rs`.
- The radio, the network stack and the executor, external and taken as described in section 2.

## 6. Plan

Written: framing, router, session, station with LED, provisioning, in this order, since every command of every
user passes through the first three; then batch, client library, WebSocket, MQTT, base64 and the portal's form. Left:

1. The portal's connection in time: a client that stalls inside its headers or its body, requests that change
   nothing, and the next client behind it.
2. `ws_handshake` byte by byte, so that a request past its buffer can be followed into the first frame.
3. `codec.rs` and `serialize_batch_response`, once code of the firmware calls them.
4. Proofs of what 1 and 2 add. Of what is modelled only liveness is left to TLC.
