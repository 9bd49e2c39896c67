------------------------- MODULE MCClientLifecycle -------------------------
(* Instances of ClientLifecycle for TLC: the host's call scripts and the  *)
(* handshake lines the plugin may print.                                   *)
EXTENDS ClientLifecycle

\* A well-formed line "1|1|tcp|127.0.0.1:1234|grpc" (5 fields).
LineGood == [parts |-> 5, app |-> 1, net |-> "tcp", cert |-> "none"]
\* Six fields, the sixth a short legacy filler that is not a certificate.
LineFiller == [parts |-> 6, app |-> 1, net |-> "unix", cert |-> "filler"]
\* Six fields, the sixth a long base64 field that is a valid certificate.
LineCert == [parts |-> 6, app |-> 1, net |-> "tcp", cert |-> "valid"]
\* Six fields, the sixth long but not a parsable certificate.
LineBadCert == [parts |-> 6, app |-> 1, net |-> "tcp", cert |-> "invalid"]
\* A network kind the host does not resolve.
LineBadNet == [parts |-> 5, app |-> 1, net |-> "udp", cert |-> "none"]
\* A plugin speaking application protocol 2.
LineV2 == [parts |-> 5, app |-> 2, net |-> "tcp", cert |-> "none"]
\* Text that is not a handshake ("listening...").
LineShort == [parts |-> 1, app |-> 0, net |-> "", cert |-> "none"]

\* Two goroutines: one dispenses the RPC client and kills, one kills concurrently.
ScriptConcurrentKill == [h \in {"h1", "h2"} |->
                           IF h = "h1" THEN <<"Client", "Kill">> ELSE <<"Kill">>]
\* One goroutine that starts, retries through Client() after a failure, then kills.
ScriptRetry == [h \in {"h1"} |-> <<"Start", "Client", "Kill">>]
\* One goroutine that starts and kills.
ScriptStartKill == [h \in {"h1"} |-> <<"Start", "Kill">>]
\* One goroutine only starts.
ScriptStart == [h \in {"h1"} |-> <<"Start">>]
\* A goroutine retries Start and then kills, while another kills.
ScriptRetryVsKill == [h \in {"h1", "h2"} |->
                        IF h = "h1" THEN <<"Start", "Start", "Kill">> ELSE <<"Kill">>]
\* One goroutine retries Start after a failure and keeps the client running.
ScriptRetryNoKill == [h \in {"h1"} |-> <<"Start", "Start">>]

LinesWellFormed == {LineGood, LineFiller, LineCert, LineBadCert, LineBadNet}
\* A good handshake and one the host rejects (unknown network).
LinesRetry == {LineGood, LineBadNet}
\* The plugin offers application protocol 2.
LinesOfferV2 == {LineV2}
=============================================================================
