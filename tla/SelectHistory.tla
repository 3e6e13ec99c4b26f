---------------------------- MODULE SelectHistory ----------------------------
(***************************************************************************)
(* Pool with two history variables, for what Select promises its caller    *)
(* about the whole of a call rather than about one instant:                *)
(*   avail[c]  the backends that have been acquirable at every moment      *)
(*             since c's current Select began (frozen once it has a lease) *)
(*   entry[c]  the backend named by the fresh sticky entry c found         *)
(* They only record: HNext takes exactly the steps of Next.                *)
(***************************************************************************)
EXTENDS Pool

VARIABLES avail, entry

hvars == <<vars, avail, entry>>

(* The backends that a TryAcquire started now would get. *)
Acquirable(b, load) ==
    {i \in Backends : Selectable(b[i]) /\ load[i] < MaxInflight}

HInit ==
    /\ Init
    /\ avail = [c \in Clients |-> {}]
    /\ entry = [c \in Clients |-> None]

HNext ==
    /\ Next
    /\ avail' = [c \in Clients |->
            CASE pc'[c] = "select" -> Acquirable(be', inflight')
              [] pc'[c] \in (Selecting \ {"select"}) \cup {"nohealthy"} ->
                    avail[c] \cap Acquirable(be', inflight')
              [] pc'[c] \in Holding -> avail[c]
              [] OTHER -> {}]
    /\ entry' = [c \in Clients |->
            LET e == sticky[KeyOf[c]] IN
            IF pc[c] = "select" /\ pc'[c] # "select"
            THEN IF strategy = "sticky" /\ e.age = "fresh"
                 THEN e.id ELSE None
            ELSE IF pc'[c] \in Selecting \cup Holding THEN entry[c]
            ELSE None]

HSpec == HInit /\ [][HNext]_hvars

-----------------------------------------------------------------------------
(* ErrNoHealthyBackend is never spurious: Select gives up only if no       *)
(* backend stayed selectable with a free slot throughout the call, however *)
(* the snapshots of Healthy(), the races on inflight and the concurrent    *)
(* health changes interleaved.                                             *)
NoSpuriousFailure ==
    \A c \in Clients : pc[c] = "nohealthy" => avail[c] = {}

(* Affinity: a handler that found a fresh sticky entry leaves its backend  *)
(* only if that backend stopped being acquirable during the call.          *)
StickyHonoured ==
    \A c \in Clients :
        pc[c] \in Holding /\ entry[c] \in avail[c] => loc[c].be = entry[c]
=============================================================================
