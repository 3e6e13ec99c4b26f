----------------------------- MODULE RateHistory -----------------------------
(***************************************************************************)
(* ConnLimiter with the log of the token bucket's grants, for what the     *)
(* bucket promises over time.  HNext takes exactly the steps of Next.      *)
(***************************************************************************)
EXTENDS ConnLimiter, Sequences, SequencesExt

VARIABLE grants     \* per IP, the times at which its bucket said yes

hvars == <<vars, grants>>

HInit == Init /\ grants = [ip \in IPs |-> <<>>]

Passes(c) == pc[c] = "bucket" /\ pc'[c] = "held"
Refuses(c) == pc[c] = "bucket" /\ pc'[c] = "undoConn"

HNext ==
    /\ Next
    /\ grants' = [ip \in IPs |->
            IF \E c \in Conns : Passes(c) /\ peer[c] = ip
            THEN Append(grants[ip], now) ELSE grants[ip]]

HSpec == HInit /\ [][HNext]_hvars

-----------------------------------------------------------------------------
(* The bucket bounds the rate over every window, not only per second: the  *)
(* grants to an IP between two of them never exceed MaxRPS plus what       *)
(* MaxRPS earns in that time, under any interleaving of handlers.          *)
RateWindow ==
    \A ip \in IPs : LET g == grants[ip] IN
        \A i, j \in DOMAIN g : i <= j =>
            (j - i + 1) * TicksPerSec
                <= MaxRPS * TicksPerSec + MaxRPS * (g[j] - g[i])

(* A paced peer is never throttled: the bucket refuses an IP only within   *)
(* 1/MaxRPS second of its last grant, no matter how many refusals came in  *)
(* between or how fractions of a token were dropped.                       *)
PacedPeerPasses ==
    [][\A c \in Conns : Refuses(c) =>
        LET g == grants[peer[c]] IN
        g # <<>> /\ (now - Last(g)) * MaxRPS < TicksPerSec]_hvars
=============================================================================
