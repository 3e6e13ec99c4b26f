------------------------------- MODULE MCProxy -------------------------------
(* Instances of Proxy for TLC: arrivals and targets of plain requests.     *)
EXTENDS Proxy

OneEach == <<"http", "socks5">>
OneHTTP == <<"http">>
PlainTarget == {<<"a">>}
QueryTargets == {<<"a">>, <<"a", "?", "a">>, <<"a", "%20", "a">>}
=============================================================================
