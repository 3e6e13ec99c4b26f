----------------------------- MODULE ConnLimiter -----------------------------
(***************************************************************************)
(* ConnLimiter of internal/pool/pool.go: the global and per-IP connection  *)
(* counters with their add-then-check-then-undo protocol, the sync.Map of  *)
(* per-IP state that is created on demand, and the per-IP token bucket.    *)
(*                                                                         *)
(* Every atomic operation of Acquire and Release is an action of its own;  *)
(* the token bucket runs under st.mu and is one.  An ipState is named by   *)
(* the handler that allocated it, so that two handlers racing to create    *)
(* the state of one IP have two objects to disagree about.  The clock      *)
(* counts ticks of 1/TicksPerSec second since the Unix epoch.              *)
(***************************************************************************)
EXTENDS Integers, FiniteSets

CONSTANTS
    Conns,        \* connection handlers
    IPs,          \* peer addresses (peerKey)
    NoIP,         \* the empty peer key: counted globally only
    NoState,      \* no ipState; also "no lease" in the refinement
    MaxGlobal, MaxPerIP, MaxRPS,   \* limits; one that is <= 0 is off
    TicksPerSec,  \* resolution of the clock
    Epoch,        \* the time at which the model starts
    MaxTime       \* bound: the model's clock stops here

ASSUME LimiterAssumption ==
    /\ IsFiniteSet(Conns)
    /\ NoIP \notin IPs
    /\ NoState \notin Conns \cup IPs \cup {NoIP}
    /\ MaxGlobal \in Int /\ MaxPerIP \in Int /\ MaxRPS \in Int
    /\ TicksPerSec \in Nat \ {0}
    /\ Epoch \in Nat /\ MaxTime \in Nat /\ Epoch <= MaxTime
    /\ Epoch >= TicksPerSec

VARIABLES
    global,   \* ConnLimiter.global
    perIP,    \* ConnLimiter.perIP: the ipState of every known IP
    conns, tokens, lastAt,   \* the fields of every ipState
    pc, peer, ref,           \* a handler's position, peer key and ipState
    now

vars == <<global, perIP, conns, tokens, lastAt, pc, peer, ref, now>>
bucketVars == <<tokens, lastAt>>

PC == {"idle", "undoGlobal", "lookup", "create", "count", "undoConn",
       "bucket", "held", "relConn"}

Init ==
    /\ global = 0
    /\ perIP = [ip \in IPs |-> NoState]
    /\ conns = [ip \in IPs |-> [c \in Conns |-> 0]]
    /\ tokens = [ip \in IPs |-> [c \in Conns |-> 0]]
    /\ lastAt = [ip \in IPs |-> [c \in Conns |-> 0]]
    /\ pc = [c \in Conns |-> "idle"]
    /\ peer = [c \in Conns |-> NoIP]
    /\ ref = [c \in Conns |-> NoState]
    /\ now = Epoch

-----------------------------------------------------------------------------
(* Acquire.                                                                *)

Over(limit, n) == limit > 0 /\ n > limit

(* Mutant of Arrive: refuses one connection too late.                      *)
Arrive_OffByOne(c, ip) ==
    /\ pc[c] = "idle"
    /\ global' = global + 1
    /\ pc' = [pc EXCEPT ![c] = IF Over(MaxGlobal, global) THEN "undoGlobal"
                               ELSE IF ip = NoIP THEN "held" ELSE "lookup"]
    /\ peer' = [peer EXCEPT ![c] = ip]
    /\ UNCHANGED <<perIP, conns, bucketVars, ref, now>>

(* global.Add(1) and the decision it allows; a peer without a key has its  *)
(* lease at once.                                                          *)
Arrive(c, ip) ==
    /\ pc[c] = "idle"
    /\ global' = global + 1
    /\ pc' = [pc EXCEPT ![c] = IF Over(MaxGlobal, global + 1) THEN "undoGlobal"
                               ELSE IF ip = NoIP THEN "held" ELSE "lookup"]
    /\ peer' = [peer EXCEPT ![c] = ip]
    /\ UNCHANGED <<perIP, conns, bucketVars, ref, now>>

(* global.Add(-1) of every refusal; the caller gets its error. *)
UndoGlobal(c) ==
    /\ pc[c] = "undoGlobal"
    /\ global' = global - 1
    /\ pc' = [pc EXCEPT ![c] = "idle"]
    /\ peer' = [peer EXCEPT ![c] = NoIP]
    /\ ref' = [ref EXCEPT ![c] = NoState]
    /\ UNCHANGED <<perIP, conns, bucketVars, now>>

(* perIP.Load *)
Lookup(c) ==
    /\ pc[c] = "lookup"
    /\ ref' = [ref EXCEPT ![c] = perIP[peer[c]]]
    /\ pc' = [pc EXCEPT ![c] = IF perIP[peer[c]] = NoState
                               THEN "create" ELSE "count"]
    /\ UNCHANGED <<global, perIP, conns, bucketVars, peer, now>>

(* Mutant of Create: Store instead of LoadOrStore.                         *)
Create_Store(c) ==
    /\ pc[c] = "create"
    /\ perIP' = [perIP EXCEPT ![peer[c]] = c]
    /\ ref' = [ref EXCEPT ![c] = c]
    /\ pc' = [pc EXCEPT ![c] = "count"]
    /\ UNCHANGED <<global, conns, bucketVars, peer, now>>

(* perIP.LoadOrStore with a fresh ipState: the first one stays. *)
Create(c) ==
    /\ pc[c] = "create"
    /\ perIP' = [perIP EXCEPT ![peer[c]] = IF @ = NoState THEN c ELSE @]
    /\ ref' = [ref EXCEPT ![c] = perIP'[peer[c]]]
    /\ pc' = [pc EXCEPT ![c] = "count"]
    /\ UNCHANGED <<global, conns, bucketVars, peer, now>>

AddConns(ip, s, n) == conns' = [conns EXCEPT ![ip][s] = @ + n]

Count(c) ==
    /\ pc[c] = "count"
    /\ AddConns(peer[c], ref[c], 1)
    /\ pc' = [pc EXCEPT ![c] =
                IF Over(MaxPerIP, conns[peer[c]][ref[c]] + 1) THEN "undoConn"
                ELSE IF MaxRPS > 0 THEN "bucket" ELSE "held"]
    /\ UNCHANGED <<global, perIP, bucketVars, peer, ref, now>>

(* Mutant of UndoConn: gives the global slot back too, which UndoGlobal    *)
(* does again.                                                             *)
UndoConn_Twice(c) ==
    /\ pc[c] = "undoConn"
    /\ AddConns(peer[c], ref[c], -1)
    /\ global' = global - 1
    /\ pc' = [pc EXCEPT ![c] = "undoGlobal"]
    /\ UNCHANGED <<perIP, bucketVars, peer, ref, now>>

UndoConn(c) ==
    /\ pc[c] = "undoConn"
    /\ AddConns(peer[c], ref[c], -1)
    /\ pc' = [pc EXCEPT ![c] = "undoGlobal"]
    /\ UNCHANGED <<global, perIP, bucketVars, peer, ref, now>>

(* The tokens in the bucket now: whole tokens for the time since the last  *)
(* grant, capped at one second's worth.                                    *)
Refilled(ip, s) ==
    LET t == tokens[ip][s] + ((now - lastAt[ip][s]) * MaxRPS) \div TicksPerSec
    IN  IF t > MaxRPS THEN MaxRPS ELSE t

(* Mutants of Bucket: a refusal also moves lastAt; a grant does not.       *)
Bucket_StampRefusal(c) ==
    /\ pc[c] = "bucket"
    /\ LET ip == peer[c] s == ref[c] t == Refilled(ip, s) IN
       /\ pc' = [pc EXCEPT ![c] = IF t < 1 THEN "undoConn" ELSE "held"]
       /\ tokens' = [tokens EXCEPT ![ip][s] = IF t < 1 THEN t ELSE t - 1]
       /\ lastAt' = [lastAt EXCEPT ![ip][s] = now]
    /\ UNCHANGED <<global, perIP, conns, peer, ref, now>>

Bucket_NoStamp(c) ==
    /\ pc[c] = "bucket"
    /\ LET ip == peer[c] s == ref[c] t == Refilled(ip, s) IN
       IF t < 1
       THEN /\ pc' = [pc EXCEPT ![c] = "undoConn"]
            /\ UNCHANGED bucketVars
       ELSE /\ pc' = [pc EXCEPT ![c] = "held"]
            /\ tokens' = [tokens EXCEPT ![ip][s] = t - 1]
            /\ UNCHANGED lastAt
    /\ UNCHANGED <<global, perIP, conns, peer, ref, now>>

(* The critical section under st.mu.  A refusal leaves the bucket as it    *)
(* was; a grant drops the fraction of a token not yet earned.              *)
Bucket(c) ==
    /\ pc[c] = "bucket"
    /\ LET ip == peer[c] s == ref[c] t == Refilled(ip, s) IN
       IF t < 1
       THEN /\ pc' = [pc EXCEPT ![c] = "undoConn"]
            /\ UNCHANGED bucketVars
       ELSE /\ pc' = [pc EXCEPT ![c] = "held"]
            /\ tokens' = [tokens EXCEPT ![ip][s] = t - 1]
            /\ lastAt' = [lastAt EXCEPT ![ip][s] = now]
    /\ UNCHANGED <<global, perIP, conns, peer, ref, now>>

-----------------------------------------------------------------------------
(* ConnLease.Release: global first, then the per-IP counter, found by a    *)
(* second lookup in the map.                                               *)

Release(c) ==
    /\ pc[c] = "held"
    /\ global' = global - 1
    /\ pc' = [pc EXCEPT ![c] = IF peer[c] = NoIP THEN "idle" ELSE "relConn"]
    /\ UNCHANGED <<perIP, conns, bucketVars, peer, ref, now>>

(* Mutant of ReleaseConn: forgets the per-IP counter.                      *)
ReleaseConn_Leak(c) ==
    /\ pc[c] = "relConn"
    /\ pc' = [pc EXCEPT ![c] = "idle"]
    /\ peer' = [peer EXCEPT ![c] = NoIP]
    /\ ref' = [ref EXCEPT ![c] = NoState]
    /\ UNCHANGED <<global, perIP, conns, bucketVars, now>>

ReleaseConn(c) ==
    /\ pc[c] = "relConn"
    /\ IF perIP[peer[c]] # NoState
       THEN AddConns(peer[c], perIP[peer[c]], -1) ELSE UNCHANGED conns
    /\ pc' = [pc EXCEPT ![c] = "idle"]
    /\ peer' = [peer EXCEPT ![c] = NoIP]
    /\ ref' = [ref EXCEPT ![c] = NoState]
    /\ UNCHANGED <<global, perIP, bucketVars, now>>

-----------------------------------------------------------------------------
Tick ==
    /\ now < MaxTime
    /\ now' = now + 1
    /\ UNCHANGED <<global, perIP, conns, bucketVars, pc, peer, ref>>

Step(c) ==
    \/ UndoGlobal(c) \/ Lookup(c) \/ Create(c) \/ Count(c) \/ UndoConn(c)
    \/ Bucket(c) \/ ReleaseConn(c)

Next ==
    \/ \E c \in Conns : \/ \E ip \in IPs \cup {NoIP} : Arrive(c, ip)
                        \/ Step(c) \/ Release(c)
    \/ Tick

Spec == Init /\ [][Next]_vars

-----------------------------------------------------------------------------
(* Properties.                                                             *)

TypeOK ==
    /\ global \in Nat
    /\ perIP \in [IPs -> Conns \cup {NoState}]
    /\ conns \in [IPs -> [Conns -> Int]]
    /\ tokens \in [IPs -> [Conns -> Int]]
    /\ lastAt \in [IPs -> [Conns -> Int]]
    /\ pc \in [Conns -> PC]
    /\ peer \in [Conns -> IPs \cup {NoIP}]
    /\ ref \in [Conns -> Conns \cup {NoState}]
    /\ now \in Nat

Counted == {c \in Conns : pc[c] \notin {"idle", "relConn"}}

CountedAt(ip) ==
    {c \in Conns : pc[c] \in {"undoConn", "bucket", "held", "relConn"}
                   /\ peer[c] = ip}

(* The global counter equals the handlers between its increment and its    *)
(* decrement: no refusal and no release is ever lost or done twice.        *)
GlobalConserved == global = Cardinality(Counted)

(* So does the counter of every known IP; two handlers that race to create *)
(* the state of an IP end up counting on the same one.                     *)
PerIPConserved ==
    \A ip \in IPs :
        IF perIP[ip] = NoState THEN CountedAt(ip) = {}
        ELSE conns[ip][perIP[ip]] = Cardinality(CountedAt(ip))

Held == {c \in Conns : pc[c] = "held"}
HeldAt(ip) == {c \in Held : peer[c] = ip}

(* The limits are hard: at no instant are more leases out than MaxGlobal,  *)
(* or than MaxPerIP to one IP, although counters overshoot transiently.    *)
LimitsRespected ==
    /\ MaxGlobal > 0 => Cardinality(Held) <= MaxGlobal
    /\ MaxPerIP > 0 => \A ip \in IPs : Cardinality(HeldAt(ip)) <= MaxPerIP

(* The inductive invariant behind these.  The handlers that have passed a  *)
(* check, and not yet undone it, never exceed the limit, because the value *)
(* each of them checked already counted all of them; a handler that counts *)
(* on an ipState counts on the one in the map, which is never replaced;    *)
(* and an ipState that lost the race to be stored was never used.          *)
Passed == Counted \ {c \in Conns : pc[c] = "undoGlobal"}
PassedAt(ip) == CountedAt(ip) \ {c \in Conns : pc[c] = "undoConn"}

RoomInv ==
    /\ MaxGlobal > 0 => Cardinality(Passed) <= MaxGlobal
    /\ MaxPerIP > 0 =>
          \A ip \in IPs : Cardinality(PassedAt(ip)) <= MaxPerIP

PeerInv ==
    \A c \in Conns :
        pc[c] \in {"lookup", "create", "count", "undoConn", "bucket", "relConn"}
            => peer[c] \in IPs

RefInv ==
    \A c \in Conns :
        /\ pc[c] \in {"count", "undoConn", "bucket"} => ref[c] = perIP[peer[c]]
        /\ pc[c] \in {"count", "undoConn", "bucket", "held", "relConn"}
           /\ peer[c] \in IPs => perIP[peer[c]] # NoState

UnusedInv ==
    \A ip \in IPs : \A s \in Conns : s # perIP[ip] => conns[ip][s] = 0

LimiterInv ==
    /\ TypeOK /\ GlobalConserved /\ PerIPConserved
    /\ RoomInv /\ PeerInv /\ RefInv /\ UnusedInv

(* The refinement: a connection is admitted while it holds a lease.        *)
LeaseOf == [c \in Conns |-> IF pc[c] = "held" THEN peer[c] ELSE NoState]

Promise == INSTANCE Admission WITH lease <- LeaseOf, NoLease <- NoState

(* ConnLimiter implements Admission: every grant, at whichever of its      *)
(* three places, happens while both limits still have room for it.         *)
ImplementsAdmission == Promise!ASpec
=============================================================================
