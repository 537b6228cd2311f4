------------------------------- MODULE MCHandlers -------------------------------
(* TLC instance of the router with batches and with the client library's calls. *)
EXTENDS MCRouter, Batch, ClientMethods, Base64Text

Sub == Cmd("gpio", "subscribe", [pin |-> 2])
SubEdge == Cmd("gpio", "subscribe", [pin |-> 2, trigger |-> "edge_both", version |-> NONE])
SubAdc == Cmd("adc", "subscribe", [adc_channel |-> 0, interval_ms |-> 5])
Unsub == Cmd("gpio", "unsubscribe", [pin |-> 2])
Conf == Cmd("spi", "configure", [spi |-> 0, freq_hz |-> 1])
Nested == Cmd("batch", "run", <<>>)
NoRoute == Cmd("can", "read", <<>>)
Boot == Cmd("system", "reboot_to_bootloader", <<>>)
Burst == Cmd("uart", "write", [uart |-> 0, bytes |-> B64(684, 0, 0)])

\* Around the limits of the list and of the subscriptions, with commands that fail,
\* reboot or panic among the others.
MCBatches ==
    {NONE, <<>>, <<Sub, SubEdge, SubAdc>>, <<Unsub, NoRoute, Sub>>, <<Conf, Nested, Conf>>,
     <<Unsub, Unsub>>, <<Boot, Unsub, Boot>>, <<Burst, Sub>>,
     <<Sub, Conf, Conf, Conf>>, <<Sub, Conf, Conf, Conf, Conf>>}

MCCommands == HandlerCommands \cup UNION {ToSet(b) : b \in MCBatches \ {NONE}}
=================================================================================
