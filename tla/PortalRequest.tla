------------------------------- MODULE PortalRequest -------------------------------
(***************************************************************************)
(* POST /connect from the socket to the form: read_http_headers,           *)
(* handle_http_request, decode_url_encoded and parse_connect_form           *)
(* (src/src/net.rs and src/src/provisioning/portal.rs).                      *)
(*                                                                         *)
(* A byte is a character, the "%" of an escape or one of its two digits; a  *)
(* field's name counts as one byte, and so does what is left of headers.    *)
(* Loops over bytes and over pairs are recursions that take the last one    *)
(* off.                                                                     *)
(***************************************************************************)
EXTENDS Provisioning, SequencesExt, FiniteSetsExt

CONSTANTS
    Bytes,
    Unhex,          \* what two hexadecimal digits stand for, a function
    NOT_UTF8,       \* a byte that is no text
    PortNumber,     \* the texts that are a u16, a function
    HDR_SIZE, BODY_SIZE, DECODED_SIZE,      \* hdr_buf, body_buf and dec_buf
    FIELD_SIZE,     \* the strings that hold ssid, password and host, a function
    Escaped,        \* the digits of characters that need an escape, a function
    Typed,          \* what users fill in, as functions of the fields' names
    Requests        \* the posts of a browser: what is typed, size, length and sent as in Post

DEFAULT_PORT == 1883

--------------------------------------------------------------------------------
(* decode_url_encoded *)

\* The loop has its decoded text and what it has read of an escape, "%" included.
\* An escape that is none ends it.
DecodeByte(loop, byte) ==
    LET digits == Append(Tail(loop.escape), byte)
    IN  CASE ~loop.ok -> loop
          [] loop.ok /\ loop.escape = <<>> /\ byte = "%" -> [loop EXCEPT !.escape = <<"%">>]
          [] loop.ok /\ loop.escape = <<>> /\ byte # "%" ->
                [loop EXCEPT !.text = Append(@, IF byte = "+" THEN " " ELSE byte)]
          [] loop.ok /\ Len(loop.escape) = 1 -> [loop EXCEPT !.escape = Append(@, byte)]
          [] loop.ok /\ Len(loop.escape) = 2 ->
                IF digits \in DOMAIN Unhex
                THEN [loop EXCEPT !.text = Append(@, Unhex[digits]), !.escape = <<>>]
                ELSE [loop EXCEPT !.ok = FALSE]

Decoded[input \in Seq(Bytes)] ==
    IF input = <<>> THEN [ok |-> TRUE, text |-> <<>>, escape |-> <<>>]
    ELSE DecodeByte(Decoded[Front(input)], Last(input))

\* NONE stands for every ParseError.
decode_url_encoded(input) ==
    LET loop == Decoded[input]
    IN  IF /\ loop.ok /\ loop.escape = <<>>
           /\ Len(loop.text) <= DECODED_SIZE /\ NOT_UTF8 \notin ToSet(loop.text)
        THEN loop.text ELSE NONE

--------------------------------------------------------------------------------
(* parse_connect_form *)

SplitByte(pieces, byte) ==
    IF byte = "&" THEN Append(pieces, <<>>)
    ELSE Append(Front(pieces), Append(Last(pieces), byte))

split[text \in Seq(Bytes)] ==
    IF text = <<>> THEN <<<<>>>> ELSE SplitByte(split[Front(text)], Last(text))

Signs(pair) == {i \in DOMAIN pair : pair[i] = "="}

CutAt(pair, i) == [key |-> SubSeq(pair, 1, i - 1), value |-> SubSeq(pair, i + 1, Len(pair))]

\* A slip for the checks of the properties: a pair is cut at its last "=".
KeyAndRest(pair) ==
    IF Signs(pair) = {} THEN [key |-> pair, value |-> <<>>] ELSE CutAt(pair, Max(Signs(pair)))

\* splitn(2, '=').
KeyValue(pair) ==
    IF Signs(pair) = {} THEN [key |-> pair, value |-> <<>>] ELSE CutAt(pair, Min(Signs(pair)))

\* The last pair of a key counts; of the ports only those that are numbers.
ParsePair(form, pair) ==
    LET kv == KeyValue(pair)
    IN  CASE kv.key = <<"ssid">> -> [form EXCEPT !.ssid = kv.value]
          [] kv.key = <<"password">> -> [form EXCEPT !.password = kv.value]
          [] kv.key = <<"mqtt_host">> -> [form EXCEPT !.host = kv.value]
          [] kv.key = <<"mqtt_port">> /\ kv.value \in DOMAIN PortNumber ->
                [form EXCEPT !.port = PortNumber[kv.value]]
          [] OTHER -> form

Parsed[pairs \in Seq(Seq(Bytes))] ==
    IF pairs = <<>>
    THEN [ssid |-> MISSING, password |-> MISSING, host |-> <<>>, port |-> DEFAULT_PORT]
    ELSE ParsePair(Parsed[Front(pairs)], Last(pairs))

\* push_str into the string that holds a field, as Submitted sees it.
Held(field, text) ==
    IF text = MISSING THEN MISSING
    ELSE IF text = <<>> THEN EMPTY
    ELSE IF Len(text) > FIELD_SIZE[field] THEN LONG ELSE text

HeldForm(form) ==
    [ssid |-> Held("ssid", form.ssid), password |-> Held("password", form.password),
     host |-> Held("host", form.host), port |-> form.port]

parse_connect_form(decoded) == HeldForm(Parsed[split[decoded]])

--------------------------------------------------------------------------------
(* handle_http_request *)

\* A POST /connect: the bytes of its headers, the Content-Length that their buffer
\* holds, its body, and how much of the body the client sent before it closed.
Post(size, length, body, sent) == [size |-> size, length |-> length, body |-> body, sent |-> sent]

\* What the socket holds once read_http_headers has read its fill.
Unread(post) ==
    [i \in 1..(IF post.size > HDR_SIZE THEN post.size - HDR_SIZE ELSE 0) |-> "header"]
        \o SubSeq(post.body, 1, post.sent)

ContentLength(post) == IF post.length > BODY_SIZE THEN BODY_SIZE ELSE post.length

\* The form of a request, or NONE if decoding fails: both that and a form without
\* ssid or password are answered 400.
FormOf(post) ==
    LET body == Unread(post)
        read == SubSeq(body, 1, IF Len(body) < ContentLength(post) THEN Len(body) ELSE ContentLength(post))
    IN  IF decode_url_encoded(read) = NONE THEN NONE
        ELSE parse_connect_form(decode_url_encoded(read))

--------------------------------------------------------------------------------
(* The browser (external) and the property *)

BrowserFields == <<"ssid", "ssid_manual", "password", "mqtt_host", "mqtt_port">>
FieldNames == {"ssid", "ssid_manual", "password", "mqtt_host", "mqtt_port"}

EncodeChar(char) ==
    IF char = " " THEN <<"+">>
    ELSE IF char \in DOMAIN Escaped THEN <<"%">> \o Escaped[char]
    ELSE <<char>>

EncodeText[text \in Seq(Bytes)] ==
    IF text = <<>> THEN <<>> ELSE EncodeText[Front(text)] \o EncodeChar(Last(text))

\* The fields in an order, those that have a text, joined by "&".
JoinField(before, field, text) ==
    IF text = MISSING THEN before
    ELSE (IF before = <<>> THEN <<>> ELSE Append(before, "&")) \o <<field, "=">> \o text

Joined(texts) ==
    LET joined[order \in Seq(FieldNames)] ==
            IF order = <<>> THEN <<>>
            ELSE JoinField(joined[Front(order)], Last(order), texts[Last(order)])
    IN  joined

Encode(typed, order) ==
    Joined([field \in FieldNames |-> IF typed[field] = MISSING THEN MISSING
                                     ELSE EncodeText[typed[field]]])[order]

\* What the texts of a body make.  A host that is left out is none, and so is a port
\* that is no number; ssid_manual is not looked at, though the page calls it an override.
Form(texts) ==
    LET host == texts["mqtt_host"]
        port == texts["mqtt_port"]
    IN  HeldForm([ssid |-> texts["ssid"], password |-> texts["password"],
                  host |-> IF host = MISSING THEN <<>> ELSE host,
                  port |-> IF port \in DOMAIN PortNumber THEN PortNumber[port] ELSE DEFAULT_PORT])

\* The body is decoded before it is split, so a text with an "&" is cut there.
Ampersand(texts) ==
    \E field \in FieldNames : texts[field] # MISSING /\ "&" \in ToSet(texts[field])

Fits(typed, order) ==
    /\ Len(Encode(typed, order)) <= BODY_SIZE
    /\ Len(Joined(typed)[order]) <= DECODED_SIZE
    /\ ~Ampersand(typed)

WholePost(typed, order, size) ==
    LET body == Encode(typed, order) IN Post(size, Len(body), body, Len(body))

Orders == {BrowserFields, Reverse(BrowserFields)}

\* Every form that fits is understood in any order of its fields, whatever characters
\* its texts need escapes for and whichever it leaves out.
Understood ==
    \A typed \in Typed, order \in Orders :
        Fits(typed, order) => FormOf(WholePost(typed, order, HDR_SIZE)) = Form(typed)

--------------------------------------------------------------------------------
(* Requests, whole or not *)

PostOf(r) == Post(r.size, r.length, Encode(r.typed, BrowserFields), r.sent)

\* The fields before the i-th as they were typed, of the i-th its first n characters.
Shortened(typed, i, n) ==
    [field \in FieldNames |->
        IF \E p \in 1..(i - 1) : BrowserFields[p] = field THEN typed[field]
        ELSE IF field = BrowserFields[i] /\ typed[field] # MISSING THEN SubSeq(typed[field], 1, n)
        ELSE MISSING]

Shortenings(typed) ==
    {typed} \cup
    UNION {{Shortened(typed, i, n) :
              n \in 0..(IF typed[BrowserFields[i]] = MISSING THEN 0 ELSE Len(typed[BrowserFields[i]]))} :
              i \in 1..5}

\* The body is sent to its end, and body_buf holds it.
SentWhole(r) ==
    LET length == Len(Encode(r.typed, BrowserFields))
    IN  r.sent = length /\ length <= BODY_SIZE

\* The texts that a request can be taken to have.
Readings(r) == IF SentWhole(r) THEN {r.typed} ELSE Shortenings(r.typed)

Accepted(form) == form # NONE /\ MISSING \notin {form.ssid, form.password}

\* A request without "&" in its texts is refused, or none of its headers are left in
\* the socket and it is taken for what was typed: all of it, if the whole body came.
SentUnderstood ==
    \A r \in Requests :
        Accepted(FormOf(PostOf(r))) /\ ~Ampersand(r.typed)
            => r.size <= HDR_SIZE /\ FormOf(PostOf(r)) \in {Form(texts) : texts \in Readings(r)}

\* The characters of texts are bytes, escapes are undone by their digits, and the ones
\* with a meaning in a body are escaped.
Chars == Bytes \ (FieldNames \cup {"header", NOT_UTF8})

ASSUME PortalAssumption ==
    /\ FieldNames \cup {"header", " ", "=", "&", "+", "%"} \subseteq Bytes
    /\ NOT_UTF8 \notin FieldNames
    /\ {NONE, MISSING} \cap Seq(Bytes) = {}
    /\ {" ", "=", "&"} \subseteq Chars
    /\ \A digits \in DOMAIN Unhex : /\ digits \in Seq(Chars) /\ Len(digits) = 2
                                    /\ Unhex[digits] \in Chars \cup {NOT_UTF8}
    /\ {"+", "%"} \subseteq DOMAIN Escaped
    /\ \A char \in DOMAIN Escaped : Escaped[char] \in DOMAIN Unhex /\ Unhex[Escaped[char]] = char
    /\ DOMAIN PortNumber \subseteq Seq(Bytes)
    /\ {HDR_SIZE, BODY_SIZE, DECODED_SIZE} \subseteq Nat
    /\ \A typed \in Typed : /\ DOMAIN typed = FieldNames
                            /\ \A field \in FieldNames : typed[field] \in Seq(Chars) \cup {MISSING}

\* A user filled in the form.  The client stops anywhere in the body, and of the length
\* that headers past their buffer announce the buffer has all, some digits or none.
ASSUME RequestsAssumption ==
    \A r \in Requests :
        LET length == Len(Encode(r.typed, BrowserFields))
        IN  /\ r.typed \in Typed /\ r.size \in Nat /\ r.sent \in 0..length
            /\ r.length \in 0..length /\ (r.size <= HDR_SIZE => r.length = length)

\* A form that is posted came in a request.
ASSUME PostsAssumption ==
    NONE \notin Forms /\ Forms \subseteq {FormOf(PostOf(r)) : r \in Requests}

\* The credentials that a request can have tested; a text with an "&" is cut in ways
\* that are left open.
Testable ==
    LET cut == {r \in Requests : Ampersand(r.typed) /\ Accepted(FormOf(PostOf(r)))}
    IN  {Submitted(FormOf(PostOf(r))) : r \in cut}
          \cup UNION {{Submitted(Form(texts)) : texts \in Readings(r)} : r \in {r \in Requests : ~Ampersand(r.typed)}}

\* A network is tested for what came of a form: all that was typed if its body came
\* whole, else the fields before the cut and the beginning of the one it is in (so a
\* shortened password is tested); a text over its string counts as empty.  No pair
\* is cut at another "=" than its first, no escape is halved, and headers past their
\* buffer, whose rest the body then begins with, never have a network tested.
TestedAsSent ==
    /\ Understood /\ SentUnderstood
    /\ candidate # NONE => candidate \in Testable
================================================================================
