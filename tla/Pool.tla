-------------------------------- MODULE Pool --------------------------------
(***************************************************************************)
(* The backend pool and the dial loop that drives it: internal/pool/pool.go*)
(* (Select, pickRR, pickLeastConn, pickSticky, Lease), TryAcquire/Release  *)
(* of backend.go and DialViaSocks of internal/proxy/tunnel.go, with the    *)
(* health prober (internal/health/health.go) and the callers of the pool's *)
(* setters running beside them.                                            *)
(*                                                                         *)
(* Granularity: one action per access to shared state.  A backend's mutex  *)
(* makes IsSelectable and the Mark calls one step each; the inflight       *)
(* counter is read and compare-and-swapped without the mutex; the sticky   *)
(* map is a sync.Map.  Everything a handler decides from its own locals is *)
(* folded into the access that precedes it.                                *)
(***************************************************************************)
EXTENDS Backend, Sequences, FiniteSets

CONSTANTS
    N,               \* number of backends; p.backends is in id order
    Clients,         \* connection handlers, each dialing again and again
    Strategies,      \* the values cfg.Pool.Strategy may have
    CfgMaxInflight,  \* cfg.Pool.MaxInflightPerBE, before the clamp
    MaxAttempts,     \* attempts of DialViaSocks (3 in the code)
    KeyHalf,         \* half the range of a sticky key (2^63 in the code)
    KeyOf,           \* the sticky key of each client (StickyKey of its peer)
    RRPeriod,        \* the model keeps the round-robin counter modulo this
    EnvOps           \* which of the pool's other callers are present

Backends == 1..N
MaxInflight == IF CfgMaxInflight < 1 THEN 1 ELSE CfgMaxInflight
ProberThreshold == 3 \* the prober forces Unhealthy at Fails() >= 3
None == 0            \* no backend

ASSUME PoolAssumption ==
    /\ N \in Nat \ {0}
    /\ IsFiniteSet(Clients)
    /\ Strategies \subseteq {"round_robin", "least_conn", "sticky"}
    /\ CfgMaxInflight \in Int
    /\ MaxAttempts \in Nat \ {0}
    /\ KeyHalf \in Nat \ {0}
    /\ KeyOf \in [Clients -> 0..(2 * KeyHalf - 1)]
    /\ RRPeriod \in Nat \ {0}
    /\ \A n \in 1..N : RRPeriod % n = 0
    /\ EnvOps \subseteq {"probe", "admit", "rereg", "admin"}
    /\ "probe" \in EnvOps => FailCap >= ProberThreshold

VARIABLES
    be,        \* inner state of every backend
    inflight,  \* Backend.inflight
    rr,        \* Pool.rr
    sticky,    \* Pool.sticky: the entry of every key
    pc,        \* where each client is in DialViaSocks
    loc,       \* and its local variables
    probe,     \* where the prober's goroutine for a backend is
    strategy   \* p.cfg.Pool.Strategy, read once at start

poolVars == <<be, inflight, rr, sticky>>
vars == <<be, inflight, rr, sticky, pc, loc, probe, strategy>>

Keys == {KeyOf[c] : c \in Clients}
NoEntry == [id |-> None, age |-> "elapsed"]
stickyEntry == [id : Backends \cup {None}, age : Age]

(* pc values, in the order of a successful dial. *)
Selecting == {"select", "scan", "pick", "least", "leastcap", "try", "load",
              "cas"}
Holding == {"store", "connect", "handshake", "release", "open"}
PC == {"idle", "nohealthy", "failed", "panic"} \cup Selecting \cup Holding

(* Why the current candidates are being tried. *)
Via == {"entry", "hash", "rr", "best", "fallback"}

(* attempt: DialViaSocks; via, todo: backends still to look at; healthy: the *)
(* snapshot Healthy() returns; best, bestLoad: pickLeastConn; be, cur:       *)
(* TryAcquire (cur doubles as pickLeastConn's `load`).                       *)
Locals == [attempt : 0..(MaxAttempts - 1), via : Via, todo : Seq(Backends),
           healthy : Seq(Backends), best : Backends \cup {None},
           bestLoad : Int, be : Backends \cup {None}, cur : Int]

NoLocals == [attempt |-> 0, via |-> "entry", todo |-> <<>>, healthy |-> <<>>,
             best |-> None, bestLoad |-> -1, be |-> None, cur |-> 0]

Init ==
    /\ be = [i \in Backends |-> NewBackend]
    /\ inflight = [i \in Backends |-> 0]
    /\ rr = 0
    /\ sticky = [k \in Keys |-> NoEntry]
    /\ pc = [c \in Clients |-> "idle"]
    /\ loc = [c \in Clients |-> NoLocals]
    /\ probe = [i \in Backends |-> "idle"]
    /\ strategy \in Strategies

-----------------------------------------------------------------------------
(* Local steps of a client.                                                *)

Goto(c, p, l) ==
    /\ pc' = [pc EXCEPT ![c] = p]
    /\ loc' = [loc EXCEPT ![c] = l]

(* Calling Healthy(): walk the backends in order, for the given purpose.   *)
Healthy(l, via) ==
    [NoLocals EXCEPT !.attempt = l.attempt, !.via = via,
                     !.todo = [i \in 1..N |-> i]]

(* Calling TryAcquire on each of cands in turn. *)
Try(l, cands) ==
    [NoLocals EXCEPT !.attempt = l.attempt, !.via = l.via, !.todo = cands]

NoHealthyBackend(c) == Goto(c, "nohealthy", NoLocals)

(* Mutant of Miss: pickLeastConn without its "fallback any acquirable".    *)
Miss_NoFallback(c) ==
    LET l == loc[c] rest == Tail(l.todo) IN
    IF rest # <<>> THEN Goto(c, "try", [l EXCEPT !.todo = rest])
    ELSE CASE l.via = "entry" -> Goto(c, "scan", Healthy(l, "hash"))
           [] l.via = "hash"  -> Goto(c, "scan", Healthy(l, "best"))
           [] OTHER           -> NoHealthyBackend(c)

(* TryAcquire said no to the head of todo: the next candidate, or what the *)
(* code does once this round of candidates is exhausted.                   *)
Miss(c) ==
    LET l == loc[c] rest == Tail(l.todo) IN
    IF rest # <<>> THEN Goto(c, "try", [l EXCEPT !.todo = rest])
    ELSE CASE l.via = "entry" -> Goto(c, "scan", Healthy(l, "hash"))
           [] l.via = "hash"  -> Goto(c, "scan", Healthy(l, "best"))
           [] l.via = "best"  -> Goto(c, "scan", Healthy(l, "fallback"))
           [] OTHER           -> NoHealthyBackend(c)

-----------------------------------------------------------------------------
(* Pool.Select.                                                            *)

Request(c) ==
    /\ pc[c] = "idle"
    /\ Goto(c, "select", NoLocals)
    /\ UNCHANGED <<poolVars, probe, strategy>>

(* Mutant of Select: ignores the sticky entry and always re-hashes.        *)
Select_NoEntry(c) ==
    /\ pc[c] = "select"
    /\ Goto(c, "scan", Healthy(loc[c], CASE strategy = "round_robin" -> "rr"
                                         [] strategy = "sticky" -> "hash"
                                         [] OTHER -> "best"))
    /\ UNCHANGED <<poolVars, probe, strategy>>

(* The sticky entry is used while younger than the TTL; otherwise the      *)
(* strategy's picker takes a snapshot of the selectable backends.          *)
Select(c) ==
    /\ pc[c] = "select"
    /\ LET l == loc[c]
           e == sticky[KeyOf[c]] IN
       IF strategy = "sticky" /\ e.id # None /\ e.age = "fresh"
       THEN Goto(c, "try", [l EXCEPT !.via = "entry", !.todo = <<e.id>>])
       ELSE Goto(c, "scan",
                 Healthy(l, CASE strategy = "round_robin" -> "rr"
                              [] strategy = "sticky" -> "hash"
                              [] OTHER -> "best"))
    /\ UNCHANGED <<poolVars, probe, strategy>>

(* One IsSelectable of Healthy(). *)
Scan(c) ==
    /\ pc[c] = "scan"
    /\ LET l == loc[c] i == Head(l.todo) IN
       /\ be' = [be EXCEPT ![i] = AfterIsSelectable(@)]
       /\ Goto(c, IF Tail(l.todo) = <<>> THEN "pick" ELSE "scan",
               [l EXCEPT !.todo = Tail(@),
                         !.healthy = IF Selectable(be[i])
                                     THEN Append(@, i) ELSE @])
    /\ UNCHANGED <<inflight, rr, sticky, probe, strategy>>

(* healthy[(start+i) % len(healthy)] for i = 0, 1, ... *)
Rotate(s, start) ==
    SubSeq(s, start + 1, Len(s)) \o SubSeq(s, 1, start)

PickRR(c) ==
    /\ pc[c] = "pick" /\ loc[c].via = "rr"
    /\ LET h == loc[c].healthy IN
       IF h = <<>>
       THEN NoHealthyBackend(c) /\ UNCHANGED rr
       ELSE /\ rr' = (rr + 1) % RRPeriod
            /\ Goto(c, "try", Try(loc[c], Rotate(h, rr % Len(h))))
    /\ UNCHANGED <<be, inflight, sticky, probe, strategy>>

(* int(key): the key's bits read as a signed integer.                      *)
ToInt(k) == IF k >= KeyHalf THEN k - 2 * KeyHalf ELSE k

(* Go's % truncates towards zero: the sign is the dividend's.              *)
GoMod(a, b) == IF a >= 0 THEN a % b ELSE -((-a) % b)

(* pickSticky.  A negative index is a run-time panic; no handler recovers, *)
(* so it ends the process.                                                 *)
PickSticky(c) ==
    /\ pc[c] = "pick" /\ loc[c].via = "hash"
    /\ LET l == loc[c]
           h == l.healthy
           idx == GoMod(ToInt(KeyOf[c]), Len(h)) IN
       IF h = <<>> THEN Goto(c, "scan", Healthy(l, "best"))
       ELSE IF idx < 0 THEN Goto(c, "panic", NoLocals)
       ELSE Goto(c, "try", Try(l, <<h[idx + 1]>>))
    /\ UNCHANGED <<poolVars, probe, strategy>>

(* pickLeastConn: with candidates left, look at the next; after the last,  *)
(* try the best one, or fall back on a second snapshot when there is none. *)
NextLeast(c, l) ==
    IF l.todo # <<>> THEN Goto(c, "least", l)
    ELSE IF l.best # None THEN Goto(c, "try", Try(l, <<l.best>>))
    ELSE Goto(c, "scan", Healthy(l, "fallback"))

PickLeastConn(c) ==
    /\ pc[c] = "pick" /\ loc[c].via = "best"
    /\ NextLeast(c, [loc[c] EXCEPT !.todo = loc[c].healthy, !.healthy = <<>>])
    /\ UNCHANGED <<poolVars, probe, strategy>>

LeastLoad(c) ==
    /\ pc[c] = "least"
    /\ LET l == loc[c] load == inflight[Head(l.todo)] IN
       IF load < l.bestLoad \/ l.bestLoad < 0
       THEN Goto(c, "leastcap", [l EXCEPT !.cur = load])
       ELSE NextLeast(c, [l EXCEPT !.todo = Tail(@)])
    /\ UNCHANGED <<poolVars, probe, strategy>>

(* HasCapacity reads the counter again. *)
LeastCap(c) ==
    /\ pc[c] = "leastcap"
    /\ LET l == loc[c] i == Head(l.todo) IN
       NextLeast(c, [l EXCEPT
           !.todo = Tail(@), !.cur = 0,
           !.best = IF inflight[i] < MaxInflight THEN i ELSE @,
           !.bestLoad = IF inflight[i] < MaxInflight THEN l.cur ELSE @])
    /\ UNCHANGED <<poolVars, probe, strategy>>

PickFallback(c) ==
    /\ pc[c] = "pick" /\ loc[c].via = "fallback"
    /\ IF loc[c].healthy = <<>> THEN NoHealthyBackend(c)
       ELSE Goto(c, "try", Try(loc[c], loc[c].healthy))
    /\ UNCHANGED <<poolVars, probe, strategy>>

-----------------------------------------------------------------------------
(* Backend.TryAcquire on the head of todo.                                 *)

TryAcquire(c) ==
    /\ pc[c] = "try"
    /\ LET l == loc[c] i == Head(l.todo) IN
       /\ be' = [be EXCEPT ![i] = AfterIsSelectable(@)]
       /\ IF Selectable(be[i]) THEN Goto(c, "load", [l EXCEPT !.be = i])
          ELSE Miss(c)
    /\ UNCHANGED <<inflight, rr, sticky, probe, strategy>>

Load(c) ==
    /\ pc[c] = "load"
    /\ LET l == loc[c] IN
       IF inflight[l.be] >= MaxInflight THEN Miss(c)
       ELSE Goto(c, "cas", [l EXCEPT !.cur = inflight[l.be]])
    /\ UNCHANGED <<poolVars, probe, strategy>>

(* The lease: its holder and, until the sticky entry is stored, nothing    *)
(* else of Select's locals.                                                *)
Leased(l) == [NoLocals EXCEPT !.attempt = l.attempt, !.be = l.be]

(* Mutant of CompareAndSwap: an unconditional atomic add after the check.  *)
CompareAndSwap_Add(c) ==
    /\ pc[c] = "cas"
    /\ LET l == loc[c] IN
       /\ inflight' = [inflight EXCEPT ![l.be] = @ + 1]
       /\ Goto(c, IF strategy = "sticky" /\ l.via # "entry"
                  THEN "store" ELSE "connect", Leased(l))
    /\ UNCHANGED <<be, rr, sticky, probe, strategy>>

(* Mutant of CompareAndSwap: spins without loading the counter again.      *)
CompareAndSwap_Stale(c) ==
    /\ pc[c] = "cas"
    /\ LET l == loc[c] IN
       IF inflight[l.be] = l.cur
       THEN /\ inflight' = [inflight EXCEPT ![l.be] = l.cur + 1]
            /\ Goto(c, IF strategy = "sticky" /\ l.via # "entry"
                       THEN "store" ELSE "connect", Leased(l))
       ELSE UNCHANGED <<inflight, pc, loc>>
    /\ UNCHANGED <<be, rr, sticky, probe, strategy>>

CompareAndSwap(c) ==
    /\ pc[c] = "cas"
    /\ LET l == loc[c] IN
       IF inflight[l.be] = l.cur
       THEN /\ inflight' = [inflight EXCEPT ![l.be] = l.cur + 1]
            /\ Goto(c, IF strategy = "sticky" /\ l.via # "entry"
                       THEN "store" ELSE "connect", Leased(l))
       ELSE Goto(c, "load", [l EXCEPT !.cur = 0]) /\ UNCHANGED inflight
    /\ UNCHANGED <<be, rr, sticky, probe, strategy>>

(* A hit on the sticky entry does not refresh it; a fresh pick stores it.  *)
StoreSticky(c) ==
    /\ pc[c] = "store"
    /\ sticky' = [sticky EXCEPT ![KeyOf[c]] = [id |-> loc[c].be,
                                               age |-> "fresh"]]
    /\ Goto(c, "connect", loc[c])
    /\ UNCHANGED <<be, inflight, rr, probe, strategy>>

-----------------------------------------------------------------------------
(* DialViaSocks around Select.                                             *)

(* The TCP connect succeeds within DialTimeout ...                         *)
ConnectOK(c) ==
    /\ pc[c] = "connect"
    /\ Goto(c, "handshake", loc[c])
    /\ UNCHANGED <<poolVars, probe, strategy>>

(* ... or it fails, or the SOCKS5 handshake with the backend does.  Every  *)
(* error of connectSOCKS5 counts against the backend.                      *)
DialFail(c) ==
    /\ pc[c] \in {"connect", "handshake"}
    /\ be' = [be EXCEPT ![loc[c].be] = MarkFailure(@)]
    /\ Goto(c, "release", loc[c])
    /\ UNCHANGED <<inflight, rr, sticky, probe, strategy>>

HandshakeOK(c) ==
    /\ pc[c] = "handshake"
    /\ be' = [be EXCEPT ![loc[c].be] = MarkSuccess(@)]
    /\ Goto(c, "open", loc[c])
    /\ UNCHANGED <<inflight, rr, sticky, probe, strategy>>

(* Mutant of ReleaseRetry: one attempt too many.                           *)
ReleaseRetry_Extra(c) ==
    /\ pc[c] = "release"
    /\ inflight' = [inflight EXCEPT ![loc[c].be] = @ - 1]
    /\ IF loc[c].attempt < MaxAttempts
       THEN Goto(c, "select", [NoLocals EXCEPT !.attempt = loc[c].attempt + 1])
       ELSE Goto(c, "failed", NoLocals)
    /\ UNCHANGED <<be, rr, sticky, probe, strategy>>

(* Mutant of ReleaseRetry: the failed attempt keeps its lease.             *)
ReleaseRetry_Leak(c) ==
    /\ pc[c] = "release"
    /\ IF loc[c].attempt + 1 < MaxAttempts
       THEN Goto(c, "select", [NoLocals EXCEPT !.attempt = loc[c].attempt + 1])
       ELSE Goto(c, "failed", NoLocals)
    /\ UNCHANGED <<poolVars, probe, strategy>>

(* lease.Release() of a failed attempt, then the next attempt.             *)
ReleaseRetry(c) ==
    /\ pc[c] = "release"
    /\ inflight' = [inflight EXCEPT ![loc[c].be] = @ - 1]
    /\ IF loc[c].attempt + 1 < MaxAttempts
       THEN Goto(c, "select", [NoLocals EXCEPT !.attempt = loc[c].attempt + 1])
       ELSE Goto(c, "failed", NoLocals)
    /\ UNCHANGED <<be, rr, sticky, probe, strategy>>

(* The tunnel ends: the handler's deferred backendLease.Release().         *)
Close(c) ==
    /\ pc[c] = "open"
    /\ inflight' = [inflight EXCEPT ![loc[c].be] = @ - 1]
    /\ Goto(c, "idle", NoLocals)
    /\ UNCHANGED <<be, rr, sticky, probe, strategy>>

(* The handler reports the error to its peer and returns.                  *)
Reply(c) ==
    /\ pc[c] \in {"nohealthy", "failed"}
    /\ Goto(c, "idle", NoLocals)
    /\ UNCHANGED <<poolVars, probe, strategy>>

-----------------------------------------------------------------------------
(* The pool's other callers.                                               *)

Update(i, b) ==
    /\ be' = [be EXCEPT ![i] = b]
    /\ UNCHANGED <<inflight, rr, sticky, pc, loc, strategy>>

(* probeAll runs one goroutine per backend and waits for all, so at most   *)
(* one probe of a backend is under way.                                    *)
ProbeOK(i) ==
    /\ "probe" \in EnvOps /\ probe[i] = "idle"
    /\ Update(i, MarkProbeOK(be[i])) /\ UNCHANGED probe

ProbeFail(i) ==
    /\ "probe" \in EnvOps /\ probe[i] = "idle"
    /\ Update(i, MarkProbeFail(be[i]))
    /\ probe' = [probe EXCEPT ![i] = "check"]

ProbeCheck(i) ==
    /\ probe[i] = "check"
    /\ probe' = [probe EXCEPT ![i] = IF be[i].fails >= ProberThreshold
                                     THEN "force" ELSE "idle"]
    /\ UNCHANGED <<poolVars, pc, loc, strategy>>

(* Acts on the count read by ProbeCheck, whatever happened in between.     *)
ProbeForce(i) ==
    /\ probe[i] = "force"
    /\ Update(i, ForceState(be[i], "unhealthy"))
    /\ probe' = [probe EXCEPT ![i] = "idle"]

(* Membership, as the uniqueness engine changes it: a warming backend is   *)
(* admitted (a member may be re-tagged) or parked for good; a re-register  *)
(* resets the state and then, in a second call, takes it back to warming.  *)
Admit(i) ==
    /\ "admit" \in EnvOps /\ be[i].admit # "parked"
    /\ Update(i, SetAdmit(be[i], "in_pool")) /\ UNCHANGED probe

Park(i) ==
    /\ "rereg" \in EnvOps /\ be[i].admit = "warming"
    /\ Update(i, SetAdmit(be[i], "parked")) /\ UNCHANGED probe

SetWarming(i) ==
    /\ "rereg" \in EnvOps /\ be[i].admit # "parked"
    /\ Update(i, SetAdmit(be[i], "warming")) /\ UNCHANGED probe

(* POST /v1/reconnect, the supervisor's restart and a re-register.         *)
ResetState(i) ==
    /\ EnvOps \cap {"admin", "rereg"} # {}
    /\ Update(i, ForceState(be[i], "unknown")) /\ UNCHANGED probe

(* HealthyCount from /healthz, /readyz or /metrics: one IsSelectable each. *)
HealthRead(i) ==
    /\ "admin" \in EnvOps
    /\ Update(i, AfterIsSelectable(be[i])) /\ UNCHANGED probe

(* Time passes: a timeout elapses, or the entry of a key outlives the TTL. *)
Elapse(i) ==
    /\ CanAge(be[i])
    /\ Update(i, Aged(be[i])) /\ UNCHANGED probe

Expire(k) ==
    /\ sticky[k].age = "fresh"
    /\ sticky' = [sticky EXCEPT ![k].age = "elapsed"]
    /\ UNCHANGED <<be, inflight, rr, pc, loc, probe, strategy>>

-----------------------------------------------------------------------------
ClientSelect(c) ==
    \/ Select(c) \/ Scan(c) \/ PickRR(c) \/ PickSticky(c) \/ PickLeastConn(c)
    \/ LeastLoad(c) \/ LeastCap(c) \/ PickFallback(c) \/ TryAcquire(c)
    \/ Load(c) \/ CompareAndSwap(c)

ClientDial(c) ==
    \/ Request(c) \/ StoreSticky(c) \/ ConnectOK(c) \/ DialFail(c)
    \/ HandshakeOK(c) \/ ReleaseRetry(c) \/ Close(c) \/ Reply(c)

Probe(i) == ProbeOK(i) \/ ProbeFail(i) \/ ProbeCheck(i) \/ ProbeForce(i)

Control(i) == Admit(i) \/ Park(i) \/ SetWarming(i) \/ ResetState(i)
              \/ HealthRead(i)

Crashed == \E c \in Clients : pc[c] = "panic"

Next ==
    /\ ~Crashed
    /\ \/ \E c \in Clients : ClientSelect(c) \/ ClientDial(c)
       \/ \E i \in Backends : Probe(i) \/ Control(i) \/ Elapse(i)
       \/ \E k \in Keys : Expire(k)

Spec == Init /\ [][Next]_vars

(* The calls that restart the clock IsSelectable reads: openedAt of an     *)
(* open circuit by every further failure, lastChange of an unhealthy       *)
(* backend by a change of membership or a forced state as well.            *)
Restarts(i) ==
    \/ ProbeFail(i)
    \/ \E c \in Clients : loc[c].be = i /\ DialFail(c)
    \/ /\ be[i].state = "unhealthy"
       /\ Admit(i) \/ Park(i) \/ SetWarming(i) \/ ProbeForce(i)

(* Fairness: a runnable goroutine runs, a started TCP connect ends within  *)
(* DialTimeout, and a clock that is not restarted for ever runs out.       *)
(* Nothing else is promised: peers, probes and operators may do nothing,   *)
(* and no deadline bounds the handshake.                                   *)
Fairness ==
    /\ \A c \in Clients :
        /\ WF_vars(~Crashed /\ ClientSelect(c))
        /\ WF_vars(~Crashed /\ (StoreSticky(c) \/ ReleaseRetry(c) \/ Reply(c)))
        /\ WF_vars(~Crashed /\ pc[c] = "connect" /\ (ConnectOK(c) \/ DialFail(c)))
    /\ \A i \in Backends : \/ []<>(Crashed \/ ~CanAge(be[i]))
                            \/ []<><<Restarts(i)>>_vars

FairSpec == Spec /\ Fairness

-----------------------------------------------------------------------------
(* Properties.                                                             *)

TypeOK ==
    /\ be \in [Backends -> innerState]
    /\ inflight \in [Backends -> Int]
    /\ rr \in 0..(RRPeriod - 1)
    /\ sticky \in [Keys -> stickyEntry]
    /\ pc \in [Clients -> PC]
    /\ loc \in [Clients -> Locals]
    /\ probe \in [Backends -> {"idle", "check", "force"}]
    /\ strategy \in Strategies

Holders(i) == {c \in Clients : pc[c] \in Holding /\ loc[c].be = i}

(* Backend.inflight is exactly the number of leases out on the backend:    *)
(* no path of Select or DialViaSocks leaks a lease or releases one twice.  *)
InflightConserved == \A i \in Backends : inflight[i] = Cardinality(Holders(i))

(* MaxInflight is a hard cap on the connections through one backend,       *)
(* although TryAcquire checks the counter before it increments it.         *)
CapacityRespected ==
    \A i \in Backends : Cardinality(Holders(i)) <= MaxInflight

(* What makes these inductive: candidates are there while they are being   *)
(* looked at, a lease in the making names its backend, and the value about *)
(* to be swapped in passed TryAcquire's check.                             *)
LocalOK(p, l) ==
    /\ p \in {"scan", "least", "leastcap", "try", "load", "cas"}
          => l.todo # <<>>
    /\ p \in {"load", "cas"} \cup Holding => l.be \in Backends
    /\ p = "cas" => l.cur < MaxInflight

LocalsInv == \A c \in Clients : LocalOK(pc[c], loc[c])

(* An open circuit always has a running clock: openedAt is stamped and the *)
(* failures that opened it are still counted, whatever mix of dial errors, *)
(* probes, half-opens and ForceState calls came before.  Otherwise         *)
(* IsSelectable could never close it again.                                *)
CircuitHasClock ==
    \A i \in Backends : be[i].state = "circuit_open" =>
        be[i].openedAt # "nil" /\ be[i].fails >= MaxFails

PoolInv == /\ TypeOK /\ LocalsInv /\ InflightConserved /\ CapacityRespected
           /\ CircuitHasClock

(* The leases: the backend each handler holds a slot of.                   *)
SlotOf == [c \in Clients |-> IF pc[c] \in Holding THEN loc[c].be ELSE None]

Slots == INSTANCE Admission WITH
    Conns <- Clients, IPs <- Backends, NoIP <- -1, NoLease <- None,
    MaxGlobal <- N * MaxInflight, MaxPerIP <- MaxInflight, lease <- SlotOf

(* Seen through its leases, the pool is an admission with MaxInflight      *)
(* slots per backend: whatever the strategy, the snapshots, the races for  *)
(* the counter and the retries of DialViaSocks, each step grants one       *)
(* handler one free slot, takes back one slot or changes no lease; a       *)
(* handler never goes from one backend to another without a release.       *)
ImplementsSlots == Slots!ASpec

(* Select returns a lease or an error; it never indexes its snapshot of    *)
(* healthy backends out of range.                                          *)
NoIndexPanic == ~Crashed

(* The circuit breaker half-opens: an open circuit reaches its OpenAfter,  *)
(* although dials that were in flight when it opened fail late and restart *)
(* its clock.  Only a prober that fails for ever can keep it fresh.        *)
CircuitHalfOpens ==
    \A i \in Backends :
        \/ be[i].state = "circuit_open" ~>
               be[i].state # "circuit_open" \/ be[i].openedAt = "elapsed"
        \/ []<><<ProbeFail(i)>>_vars

(* Select always finishes unless leases keep changing hands: a handler can *)
(* lose its compare-and-swap for ever only to handlers that keep taking    *)
(* and returning leases, never by spinning on a value it does not reload.  *)
SelectLockFree ==
    \A c \in Clients : \/ []<>(pc[c] \notin Selecting)
                       \/ []<><<inflight' # inflight>>_vars
=============================================================================
