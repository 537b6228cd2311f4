------------------------------ MODULE MCProvisioning ------------------------------
(* Two networks, one of them open and typed with a broker's name that does not fit, *)
(* and a form without a password.  Requests stop anywhere, and their headers end at   *)
(* their buffer's end or past it; bodies and texts go over the buffers too.           *)
EXTENDS PortalRequest, TLC

MCBytes ==
    FieldNames \cup {"header", NOT_UTF8, " ", "=", "&", "+", "%"}
      \cup {"1884", "2", "3", "5", "6", "a", "b", "c", "d", "e", "f", "g", "h", "l", "n", "o", "x"}
MCUnhex == <<"3", "d">> :> "=" @@ <<"2", "5">> :> "%" @@ <<"2", "6">> :> "&" @@ <<"2", "b">> :> "+"
             @@ <<"f", "f">> :> NOT_UTF8
MCEscaped == "=" :> <<"3", "d">> @@ "%" :> <<"2", "5">> @@ "&" :> <<"2", "6">> @@ "+" :> <<"2", "b">>
MCPortNumber == <<"1884">> :> 1884
MCFieldSize == [ssid |-> 3, password |-> 3, host |-> 2]

Fill(ssid, password, host, port) ==
    "ssid" :> ssid @@ "ssid_manual" :> <<>> @@ "password" :> password
        @@ "mqtt_host" :> host @@ "mqtt_port" :> port

Home == Fill(<<"h", " ", "e">>, <<"a", "=", "%">>, MISSING, MISSING)
Cafe == Fill(<<"c">>, <<>>, <<"l", "o", "n", "g">>, <<"1884">>)
Silent == Fill(<<"c">>, MISSING, <<"l", "a", "n">>, <<>>)
Cellar == Fill(<<"c", "e">>, <<"%", "=", "a", "b", "c">>, <<"+", "&">>, <<"1884">>)
Hidden == [Home EXCEPT !["ssid"] = <<>>, !["ssid_manual"] = <<"h", "=">>]

MCTyped ==
    {Home, Cafe, Silent, Cellar, Hidden}
      \cup {Fill(s, p, h, n) :
              s \in {<<>>, <<"=">>, <<"a", "b", "c", "d">>}, p \in {<<>>, <<"%", "=">>, <<"&">>, MISSING},
              h \in {<<>>, <<"+", " ">>}, n \in {<<>>, <<"x">>, <<"1884">>}}

\* Headers that end within their buffer, and past it with all or none of the length.
Request(typed, size, length, sent) == [typed |-> typed, size |-> size, length |-> length, sent |-> sent]
MCRequests ==
    UNION {LET length == Len(Encode(t, BrowserFields))
           IN  {Request(t, HDR_SIZE, length, sent) : sent \in 0..length}
                 \cup {Request(t, HDR_SIZE + left, n, sent) : left \in 1..2, n \in {0, length}, sent \in 0..length} :
             t \in {u \in MCTyped : u["mqtt_port"] # <<"x">> /\ u["mqtt_host"] # <<>>}}

\* Home broken off within its password and within an escape, Cafe whole, and what comes
\* of no password.
MCForms ==
    {FormOf(WholePost(t, BrowserFields, HDR_SIZE)) : t \in {Cafe, Silent}}
      \cup {FormOf(PostOf(Request(Home, HDR_SIZE, Len(Encode(Home, BrowserFields)), n))) : n \in {12, 13}}
MCSubmittedForms == MCForms \ {NONE}
================================================================================
