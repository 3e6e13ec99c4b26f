----------------------------- MODULE PoolProofs -----------------------------
(***************************************************************************)
(* Proofs about Pool, for any number of handlers and backends, any limits  *)
(* and any strategy.                                                       *)
(***************************************************************************)
EXTENDS Pool, FiniteSetTheorems, WellFoundedInduction, TLAPS

-----------------------------------------------------------------------------
(* The operators of Backend.                                               *)

LEMMA MaxFailsType == MaxFails \in Nat /\ MaxFails >= 1 /\ FailCap >= MaxFails
  BY BackendAssumption DEF MaxFails

(* An open circuit with a clock: what each backend.go mutation preserves.  *)
HasClock(b) == b.state = "circuit_open" =>
                   b.openedAt # "nil" /\ b.fails >= MaxFails

(* Every method of Backend keeps the record well formed and, if the        *)
(* circuit is open afterwards, its clock running.                          *)
LEMMA BackendOps ==
    ASSUME NEW b \in innerState, HasClock(b)
    PROVE  /\ AfterIsSelectable(b) \in innerState
           /\ HasClock(AfterIsSelectable(b))
           /\ MarkSuccess(b) \in innerState /\ HasClock(MarkSuccess(b))
           /\ MarkFailure(b) \in innerState /\ HasClock(MarkFailure(b))
           /\ MarkProbeFail(b) \in innerState /\ HasClock(MarkProbeFail(b))
           /\ MarkProbeOK(b) \in innerState /\ HasClock(MarkProbeOK(b))
           /\ \A s \in {"unknown", "unhealthy"} :
                ForceState(b, s) \in innerState /\ HasClock(ForceState(b, s))
           /\ \A p \in AdmitPhase :
                SetAdmit(b, p) \in innerState /\ HasClock(SetAdmit(b, p))
           /\ CanAge(b) => Aged(b) \in innerState /\ HasClock(Aged(b))
<1>t. /\ "unknown" \in State /\ "healthy" \in State /\ "degraded" \in State
      /\ "unhealthy" \in State /\ "circuit_open" \in State
      /\ "fresh" \in Age /\ "elapsed" \in Age
      /\ "fresh" \in Age \cup {"nil"} /\ "elapsed" \in Age \cup {"nil"}
      /\ "nil" \in Age \cup {"nil"}
      /\ 0 \in 0..FailCap /\ \A f \in 0..FailCap : Bump(f) \in 0..FailCap
  BY BackendAssumption DEF State, Age, Bump
<1>f. /\ b.state \in State /\ b.admit \in AdmitPhase /\ b.fails \in 0..FailCap
      /\ b.lastChange \in Age /\ b.openedAt \in Age \cup {"nil"}
  BY DEF innerState
<1>1. AfterIsSelectable(b) \in innerState /\ HasClock(AfterIsSelectable(b))
  BY <1>t DEF AfterIsSelectable, HasClock, innerState
<1>2. MarkSuccess(b) \in innerState /\ HasClock(MarkSuccess(b))
  <2>1. (IF b.state = "healthy" THEN b.lastChange ELSE "fresh") \in Age
    BY <1>t, <1>f
  <2> QED
    BY <1>t, <2>1 DEF MarkSuccess, HasClock, innerState
<1>3. MarkFailure(b) \in innerState /\ HasClock(MarkFailure(b))
  <2> DEFINE f == Bump(b.fails)
             s == IF b.state \in {"healthy", "unknown"}
                  THEN "degraded" ELSE b.state
  <2>1. f \in 0..FailCap /\ s \in State
    BY <1>t, <1>f
  <2>2. CASE f >= MaxFails
    BY <1>t, <2>1, <2>2 DEF MarkFailure, HasClock, innerState
  <2>3. CASE ~(f >= MaxFails)
    <3>1. s # "circuit_open"
      \* fails only grows, so a circuit that was open stays over MaxFails
      <4>1. f >= b.fails
        BY <1>f, BackendAssumption DEF Bump
      <4>2. b.state # "circuit_open"
        BY <1>f, <2>1, <2>3, <4>1, MaxFailsType, BackendAssumption DEF HasClock
      <4> QED
        BY <4>2
    <3>2. MarkFailure(b) = [b EXCEPT !.fails = f, !.lastChange = "fresh",
                                     !.state = s]
      BY <2>3 DEF MarkFailure
    <3> HIDE DEF f, s
    <3> QED
      BY <1>t, <2>1, <3>1, <3>2 DEF HasClock, innerState
  <2> QED
    BY <2>2, <2>3
<1>4. MarkProbeFail(b) \in innerState /\ HasClock(MarkProbeFail(b))
  <2> DEFINE r == MarkFailure(b)
  <2>1. r \in innerState /\ HasClock(r)
    BY <1>3
  <2>2. MarkProbeFail(b) = IF r.state = "degraded" /\ r.fails >= MaxFails
                           THEN [r EXCEPT !.state = "unhealthy"] ELSE r
    BY DEF MarkProbeFail
  <2> HIDE DEF r
  <2> QED
    BY <1>t, <2>1, <2>2 DEF HasClock, innerState
<1>5. MarkProbeOK(b) \in innerState /\ HasClock(MarkProbeOK(b))
  BY <1>t DEF MarkProbeOK, HasClock, innerState
<1>6. ASSUME NEW s \in {"unknown", "unhealthy"}
      PROVE  ForceState(b, s) \in innerState /\ HasClock(ForceState(b, s))
  <2>1. ForceState(b, s) = [b EXCEPT !.state = s, !.lastChange = "fresh"]
    BY DEF ForceState, innerState
  <2> QED
    <3>1. s \in State /\ s # "circuit_open"
      BY <1>t
    <3> QED
      BY <1>t, <2>1, <3>1 DEF HasClock, innerState
<1>7. ASSUME NEW p \in AdmitPhase
      PROVE  SetAdmit(b, p) \in innerState /\ HasClock(SetAdmit(b, p))
  BY <1>t DEF SetAdmit, HasClock, innerState
<1>8. CanAge(b) => Aged(b) \in innerState /\ HasClock(Aged(b))
  BY <1>t DEF CanAge, Aged, HasClock, innerState
<1> QED
  BY <1>1, <1>2, <1>3, <1>4, <1>5, <1>6, <1>7, <1>8

-----------------------------------------------------------------------------
(* A client's locals.                                                      *)

LEMMA Constants ==
    /\ N \in Nat \ {0} /\ MaxInflight \in Nat /\ MaxInflight >= 1
    /\ None \notin Backends
    /\ [i \in 1..N |-> i] \in Seq(Backends) /\ [i \in 1..N |-> i] # <<>>
<1>1. N \in Nat \ {0}
  BY PoolAssumption
<1>2. MaxInflight \in Nat /\ MaxInflight >= 1
  BY PoolAssumption DEF MaxInflight
<1>3. None \notin Backends
  BY DEF None, Backends
<1>4. [i \in 1..N |-> i] \in Seq(Backends) /\ [i \in 1..N |-> i] # <<>>
  BY <1>1 DEF Backends
<1> QED
  BY <1>1, <1>2, <1>3, <1>4

(* Candidate lists: what the picks do with a non-empty list of backends.   *)
LEMMA Candidates ==
    ASSUME NEW s \in Seq(Backends), s # <<>>
    PROVE  /\ Head(s) \in Backends
           /\ Tail(s) \in Seq(Backends)
           /\ Len(s) \in Nat \ {0}
           /\ \A i \in 1..Len(s) : s[i] \in Backends
           /\ \A k \in 0..(Len(s) - 1) :
                Rotate(s, k) \in Seq(Backends) /\ Rotate(s, k) # <<>>
<1>1. Head(s) \in Backends /\ Tail(s) \in Seq(Backends) /\ Len(s) \in Nat \ {0}
      /\ \A i \in 1..Len(s) : s[i] \in Backends
  OBVIOUS
<1>2. ASSUME NEW k \in 0..(Len(s) - 1)
      PROVE  Rotate(s, k) \in Seq(Backends) /\ Rotate(s, k) # <<>>
  <2> DEFINE u == SubSeq(s, k + 1, Len(s))
             v == SubSeq(s, 1, k)
  <2>1. u \in Seq(Backends) /\ v \in Seq(Backends)
    BY <1>1
  <2>2. Len(u) = Len(s) - k
    BY <1>1
  <2>3. Len(u \o v) = Len(u) + Len(v) /\ u \o v \in Seq(Backends)
    BY <2>1
  <2>4. Len(u \o v) # 0
    <3>1. Len(v) \in Nat
      BY <2>1
    <3>2. Len(u) >= 1 /\ Len(u) \in Nat
      BY <1>1, <2>2
    <3> HIDE DEF u, v
    <3> QED
      BY <2>3, <3>1, <3>2
  <2> QED
    BY <2>3, <2>4 DEF Rotate
<1> QED
  BY <1>1, <1>2

LEMMA LocalsTypes ==
    /\ NoLocals \in Locals
    /\ \A l \in Locals : \A v \in Via :
         Healthy(l, v) \in Locals /\ Healthy(l, v).todo # <<>>
    /\ \A l \in Locals : \A q \in Seq(Backends) :
         Try(l, q) \in Locals /\ Try(l, q).todo = q
    /\ \A l \in Locals : Leased(l) \in Locals /\ Leased(l).be = l.be
<1>1. 0 \in 0..(MaxAttempts - 1)
  BY PoolAssumption
<1>2. <<>> \in Seq(Backends) /\ "entry" \in Via /\ None \in Backends \cup {None}
      /\ -1 \in Int /\ 0 \in Int
  BY DEF Via
<1>3. NoLocals \in Locals
  BY <1>1, <1>2 DEF NoLocals, Locals
<1>4. ASSUME NEW l \in Locals, NEW v \in Via
      PROVE  Healthy(l, v) \in Locals /\ Healthy(l, v).todo # <<>>
  BY <1>3, Constants DEF Healthy, Locals
<1>5. ASSUME NEW l \in Locals, NEW q \in Seq(Backends)
      PROVE  Try(l, q) \in Locals /\ Try(l, q).todo = q
  BY <1>3 DEF Try, Locals
<1>6. ASSUME NEW l \in Locals
      PROVE  Leased(l) \in Locals /\ Leased(l).be = l.be
  BY <1>3 DEF Leased, Locals
<1> QED
  BY <1>3, <1>4, <1>5, <1>6

-----------------------------------------------------------------------------
(* Steps of the pool, by what they do to the invariant.                    *)

LEMMA Counting ==
    ASSUME NEW S \in SUBSET Clients
    PROVE  /\ Cardinality(S) \in Nat
           /\ \A c \in Clients : c \notin S =>
                Cardinality(S \cup {c}) = Cardinality(S) + 1
           /\ \A c \in S : Cardinality(S \ {c}) = Cardinality(S) - 1
<1>1. IsFiniteSet(S)
  BY FS_Subset, PoolAssumption
<1> QED
  BY <1>1, FS_CardinalityType, FS_AddElement, FS_RemoveElement

BeInv == be \in [Backends -> innerState] /\ CircuitHasClock

LEMMA BeUpdate ==
    ASSUME BeInv, NEW i \in Backends, NEW r \in innerState, HasClock(r),
           be' = [be EXCEPT ![i] = r]
    PROVE  BeInv'
  BY DEF BeInv, CircuitHasClock, HasClock

(* What the variables outside pc and loc owe after a step. *)
SharedInv ==
    /\ BeInv
    /\ rr \in 0..(RRPeriod - 1)
    /\ sticky \in [Keys -> stickyEntry]
    /\ probe \in [Backends -> {"idle", "check", "force"}]
    /\ strategy \in Strategies

LEMMA MoveTypes ==
    ASSUME PoolInv, NEW c \in Clients, NEW p \in PC, NEW l \in Locals,
           LocalOK(p, l), Goto(c, p, l)
    PROVE  /\ pc' \in [Clients -> PC] /\ loc' \in [Clients -> Locals]
           /\ LocalsInv'
           /\ pc'[c] = p /\ loc'[c] = l
           /\ \A d \in Clients \ {c} : pc'[d] = pc[d] /\ loc'[d] = loc[d]
<1>1. pc' = [pc EXCEPT ![c] = p] /\ loc' = [loc EXCEPT ![c] = l]
  BY DEF Goto
<1>2. pc \in [Clients -> PC] /\ loc \in [Clients -> Locals]
  BY DEF PoolInv, TypeOK
<1>3. pc' \in [Clients -> PC] /\ loc' \in [Clients -> Locals]
      /\ pc'[c] = p /\ loc'[c] = l
      /\ \A d \in Clients \ {c} : pc'[d] = pc[d] /\ loc'[d] = loc[d]
  BY <1>1, <1>2
<1>4. ASSUME NEW d \in Clients PROVE LocalOK(pc'[d], loc'[d])
  <2>1. CASE d = c
    BY <2>1, <1>3
  <2>2. CASE d # c
    <3>1. LocalOK(pc[d], loc[d])
      BY DEF PoolInv, LocalsInv
    <3> QED
      BY <2>2, <3>1, <1>3
  <2> QED
    BY <2>1, <2>2
<1> QED
  BY <1>3, <1>4 DEF LocalsInv

(* A step that moves one client and no lease. *)
LEMMA MoveStep ==
    ASSUME PoolInv, SharedInv', NEW c \in Clients, NEW p \in PC,
           NEW l \in Locals, LocalOK(p, l), Goto(c, p, l),
           inflight' = inflight,
           \/ pc[c] \notin Holding /\ p \notin Holding
           \/ pc[c] \in Holding /\ p \in Holding /\ l.be = loc[c].be
    PROVE  PoolInv'
<1>1. /\ pc' \in [Clients -> PC] /\ loc' \in [Clients -> Locals] /\ LocalsInv'
      /\ pc'[c] = p /\ loc'[c] = l
      /\ \A d \in Clients \ {c} : pc'[d] = pc[d] /\ loc'[d] = loc[d]
  BY MoveTypes
<1>2. \A i \in Backends : Holders(i)' = Holders(i)
  BY <1>1 DEF Holders
<1>3. TypeOK'
  BY <1>1 DEF PoolInv, TypeOK, SharedInv, BeInv
<1>4. InflightConserved' /\ CapacityRespected'
  BY <1>2 DEF PoolInv, InflightConserved, CapacityRespected
<1>5. CircuitHasClock'
  BY DEF SharedInv, BeInv
<1> QED
  BY <1>1, <1>3, <1>4, <1>5 DEF PoolInv

(* A step that gives a lease back. *)
LEMMA ReleaseStep ==
    ASSUME PoolInv, SharedInv', NEW c \in Clients, NEW p \in PC \ Holding,
           NEW l \in Locals, LocalOK(p, l), Goto(c, p, l), pc[c] \in Holding,
           inflight' = [inflight EXCEPT ![loc[c].be] = @ - 1]
    PROVE  PoolInv'
<1> PICK b \in Backends : b = loc[c].be
  BY DEF PoolInv, LocalsInv, LocalOK
<1>1. /\ pc' \in [Clients -> PC] /\ loc' \in [Clients -> Locals] /\ LocalsInv'
      /\ pc'[c] = p /\ loc'[c] = l
      /\ \A d \in Clients \ {c} : pc'[d] = pc[d] /\ loc'[d] = loc[d]
  BY MoveTypes
<1>2. /\ Holders(b)' = Holders(b) \ {c} /\ c \in Holders(b)
      /\ \A i \in Backends \ {b} : Holders(i)' = Holders(i)
  BY <1>1 DEF Holders
<1>3. Holders(b) \in SUBSET Clients
  BY DEF Holders
<1>4. Cardinality(Holders(b)') = Cardinality(Holders(b)) - 1
      /\ Cardinality(Holders(b)) \in Nat
  BY <1>2, <1>3, Counting
<1>5. inflight \in [Backends -> Int]
  BY DEF PoolInv, TypeOK
<1>6. inflight' \in [Backends -> Int]
  BY <1>5
<1>7. InflightConserved'
  BY <1>2, <1>4, <1>5 DEF PoolInv, InflightConserved
<1>8. CapacityRespected'
  <2>1. Cardinality(Holders(b)') <= MaxInflight
    BY <1>4, Constants DEF PoolInv, CapacityRespected
  <2>2. \A i \in Backends \ {b} : Cardinality(Holders(i)') <= MaxInflight
    BY <1>2 DEF PoolInv, CapacityRespected
  <2> QED
    BY <2>1, <2>2 DEF CapacityRespected
<1>9. TypeOK' /\ CircuitHasClock'
  BY <1>1, <1>6 DEF TypeOK, SharedInv, BeInv
<1> QED
  BY <1>1, <1>7, <1>8, <1>9 DEF PoolInv

(* A step that takes a lease on a backend with room for it. *)
LEMMA AcquireStep ==
    ASSUME PoolInv, SharedInv', NEW c \in Clients, NEW p \in Holding,
           NEW l \in Locals, Goto(c, p, l), pc[c] \notin Holding,
           l.be \in Backends, inflight[l.be] < MaxInflight,
           inflight' = [inflight EXCEPT ![l.be] = @ + 1]
    PROVE  PoolInv'
<1> PICK b \in Backends : b = l.be
  OBVIOUS
<1>0. p \in PC /\ LocalOK(p, l)
  BY DEF PC, Holding, LocalOK
<1>1. /\ pc' \in [Clients -> PC] /\ loc' \in [Clients -> Locals] /\ LocalsInv'
      /\ pc'[c] = p /\ loc'[c] = l
      /\ \A d \in Clients \ {c} : pc'[d] = pc[d] /\ loc'[d] = loc[d]
  BY <1>0, MoveTypes
<1>2. /\ Holders(b)' = Holders(b) \cup {c} /\ c \notin Holders(b)
      /\ \A i \in Backends \ {b} : Holders(i)' = Holders(i)
  BY <1>1 DEF Holders
<1>3. Holders(b) \in SUBSET Clients
  BY DEF Holders
<1>4. Cardinality(Holders(b)') = Cardinality(Holders(b)) + 1
      /\ Cardinality(Holders(b)) \in Nat
  BY <1>2, <1>3, Counting
<1>5. inflight \in [Backends -> Int]
  BY DEF PoolInv, TypeOK
<1>6. inflight' \in [Backends -> Int]
  BY <1>5
<1>7. InflightConserved'
  BY <1>2, <1>4, <1>5 DEF PoolInv, InflightConserved
<1>8. CapacityRespected'
  <2>1. Cardinality(Holders(b)') <= MaxInflight
    BY <1>4, Constants DEF PoolInv, InflightConserved
  <2>2. \A i \in Backends \ {b} : Cardinality(Holders(i)') <= MaxInflight
    BY <1>2 DEF PoolInv, CapacityRespected
  <2> QED
    BY <2>1, <2>2 DEF CapacityRespected
<1>9. TypeOK' /\ CircuitHasClock'
  BY <1>1, <1>6 DEF TypeOK, SharedInv, BeInv
<1> QED
  BY <1>1, <1>7, <1>8, <1>9 DEF PoolInv

(* A step of the prober, the control plane or time. *)
LEMMA OtherStep ==
    ASSUME PoolInv, SharedInv', UNCHANGED <<inflight, pc, loc>>
    PROVE  PoolInv'
<1>1. TypeOK' /\ CircuitHasClock'
  BY DEF PoolInv, TypeOK, SharedInv, BeInv
<1>2. LocalsInv' /\ InflightConserved' /\ CapacityRespected'
  BY DEF PoolInv, LocalsInv, InflightConserved, CapacityRespected, Holders
<1> QED
  BY <1>1, <1>2 DEF PoolInv

LEMMA SharedSame ==
    ASSUME PoolInv, UNCHANGED <<be, rr, sticky, probe, strategy>>
    PROVE  SharedInv'
  BY DEF PoolInv, TypeOK, SharedInv, BeInv, CircuitHasClock

LEMMA SharedBackend ==
    ASSUME PoolInv, NEW i \in Backends, NEW r \in innerState, HasClock(r),
           be' = [be EXCEPT ![i] = r], UNCHANGED <<rr, sticky, strategy>>,
           probe' \in [Backends -> {"idle", "check", "force"}]
    PROVE  SharedInv'
<1>1. BeInv'
  BY BeUpdate DEF PoolInv, TypeOK, BeInv
<1> QED
  BY <1>1 DEF PoolInv, TypeOK, SharedInv

LEMMA BackendWellFormed ==
    ASSUME PoolInv, NEW i \in Backends
    PROVE  be[i] \in innerState /\ HasClock(be[i])
  BY DEF PoolInv, TypeOK, CircuitHasClock, HasClock

-----------------------------------------------------------------------------
(* The actions of Select.  All of them only move their client; Outside is  *)
(* the kind of move they make.                                             *)

Outside(c) == \E p \in PC \ Holding : \E l \in Locals :
                  LocalOK(p, l) /\ Goto(c, p, l)

LEMMA OutsideStep ==
    ASSUME PoolInv, SharedInv', NEW c \in Clients, pc[c] \notin Holding,
           Outside(c), inflight' = inflight
    PROVE  PoolInv'
<1> PICK p \in PC \ Holding, l \in Locals : LocalOK(p, l) /\ Goto(c, p, l)
  BY DEF Outside
<1> QED
  BY MoveStep

LEMMA GotoScan ==
    ASSUME NEW c, NEW l \in Locals, NEW v \in Via,
           Goto(c, "scan", Healthy(l, v))
    PROVE  Outside(c)
<1>1. "scan" \in PC \ Holding
  BY DEF PC, Selecting, Holding
<1>2. Healthy(l, v) \in Locals /\ LocalOK("scan", Healthy(l, v))
  BY LocalsTypes DEF LocalOK, Holding
<1> QED
  BY <1>1, <1>2 DEF Outside

LEMMA GotoTry ==
    ASSUME NEW c, NEW l \in Locals, l.todo # <<>>, Goto(c, "try", l)
    PROVE  Outside(c)
<1>1. "try" \in PC \ Holding /\ LocalOK("try", l)
  BY DEF PC, Selecting, Holding, LocalOK
<1> QED
  BY <1>1 DEF Outside

(* The pcs with nothing to remember. *)
LEMMA GotoRest ==
    ASSUME NEW c, NEW p \in {"idle", "select", "nohealthy", "failed", "panic", "pick"},
           NEW l \in Locals, Goto(c, p, l)
    PROVE  Outside(c)
<1>1. p \in PC \ Holding /\ LocalOK(p, l)
  BY DEF PC, Selecting, Holding, LocalOK
<1> QED
  BY <1>1 DEF Outside

LEMMA MissMoves ==
    ASSUME PoolInv, NEW c \in Clients, loc[c].todo # <<>>, Miss(c)
    PROVE  Outside(c)
<1> DEFINE l == loc[c]
           rest == Tail(l.todo)
<1>1. l \in Locals /\ l.todo \in Seq(Backends) /\ l.via \in Via
  BY DEF PoolInv, TypeOK, Locals
<1>2. rest \in Seq(Backends)
  BY <1>1, Candidates
<1>3. CASE rest # <<>>
  <2>1. [l EXCEPT !.todo = rest] \in Locals
        /\ [l EXCEPT !.todo = rest].todo # <<>>
    BY <1>1, <1>2, <1>3 DEF Locals
  <2>2. Goto(c, "try", [l EXCEPT !.todo = rest])
    BY <1>3 DEF Miss
  <2> QED
    BY <2>1, <2>2, GotoTry
<1>4. CASE rest = <<>>
  <2>1. \/ \E v \in Via : Goto(c, "scan", Healthy(l, v))
        \/ Goto(c, "nohealthy", NoLocals)
    BY <1>4 DEF Miss, NoHealthyBackend, Via
  <2> QED
    BY <2>1, <1>1, GotoScan, GotoRest, LocalsTypes
<1> QED
  BY <1>3, <1>4

LEMMA NextLeastMoves ==
    ASSUME NEW c \in Clients, NEW l \in Locals, NextLeast(c, l)
    PROVE  Outside(c)
<1>1. CASE l.todo # <<>>
  <2>1. "least" \in PC \ Holding /\ LocalOK("least", l)
    BY <1>1 DEF PC, Selecting, Holding, LocalOK
  <2>2. Goto(c, "least", l)
    BY <1>1 DEF NextLeast
  <2> QED
    BY <2>1, <2>2 DEF Outside
<1>2. CASE l.todo = <<>> /\ l.best # None
  <2>1. <<l.best>> \in Seq(Backends) /\ <<l.best>> # <<>>
    BY <1>2 DEF Locals
  <2>2. Goto(c, "try", Try(l, <<l.best>>))
    BY <1>2 DEF NextLeast
  <2> QED
    BY <2>1, <2>2, LocalsTypes, GotoTry
<1>3. CASE l.todo = <<>> /\ l.best = None
  <2>1. Goto(c, "scan", Healthy(l, "fallback")) /\ "fallback" \in Via
    BY <1>3 DEF NextLeast, Via
  <2> QED
    BY <2>1, GotoScan
<1> QED
  BY <1>1, <1>2, <1>3

(* Every step of Select short of the compare-and-swap leaves the leases    *)
(* alone and its client outside Holding.                                   *)
LEMMA SelectOutside ==
    ASSUME PoolInv, NEW c \in Clients,
           \/ Select(c) \/ PickRR(c) \/ PickSticky(c) \/ PickLeastConn(c)
           \/ LeastLoad(c) \/ LeastCap(c) \/ PickFallback(c) \/ Load(c)
    PROVE  Outside(c) /\ pc[c] \notin Holding /\ inflight' = inflight
           /\ SharedInv'
<1> PICK l \in Locals : l = loc[c]
  BY DEF PoolInv, TypeOK
<1>l. /\ l.todo \in Seq(Backends) /\ l.healthy \in Seq(Backends)
      /\ l.via \in Via /\ l.best \in Backends \cup {None} /\ l.cur \in Int
  BY DEF Locals
<1>p. LocalOK(pc[c], l)
  BY DEF PoolInv, LocalsInv
<1>v. {"entry", "hash", "rr", "best", "fallback"} \subseteq Via
  BY DEF Via
<1>i. inflight \in [Backends -> Int]
  BY DEF PoolInv, TypeOK
<1>1. CASE Select(c)
  <2>1. pc[c] \notin Holding /\ UNCHANGED <<be, inflight, rr, sticky, probe, strategy>>
    BY <1>1 DEF Select, Holding, poolVars
  <2>2. CASE /\ strategy = "sticky" /\ sticky[KeyOf[c]].id # None
             /\ sticky[KeyOf[c]].age = "fresh"
    <3> PICK b \in Backends : b = sticky[KeyOf[c]].id
      BY <2>2 DEF PoolInv, TypeOK, Keys, stickyEntry
    <3>1. Goto(c, "try", [l EXCEPT !.via = "entry", !.todo = <<b>>])
      BY <1>1, <2>2 DEF Select
    <3>2. <<b>> \in Seq(Backends) /\ <<b>> # <<>>
      OBVIOUS
    <3>3. [l EXCEPT !.via = "entry", !.todo = <<b>>] \in Locals
          /\ [l EXCEPT !.via = "entry", !.todo = <<b>>].todo # <<>>
      BY <1>v, <3>2 DEF Locals
    <3> QED
      BY <2>1, <3>1, <3>3, GotoTry, SharedSame
  <2>3. CASE ~(/\ strategy = "sticky" /\ sticky[KeyOf[c]].id # None
               /\ sticky[KeyOf[c]].age = "fresh")
    <3>1. \E v \in Via : Goto(c, "scan", Healthy(l, v))
      BY <1>1, <2>3, <1>v DEF Select
    <3> QED
      BY <2>1, <3>1, GotoScan, SharedSame
  <2> QED
    BY <2>2, <2>3
<1>2. CASE PickRR(c)
  <2>1. pc[c] \notin Holding /\ UNCHANGED <<be, inflight, sticky, probe, strategy>>
    BY <1>2 DEF PickRR, Holding
  <2>2. rr' \in 0..(RRPeriod - 1) /\ SharedInv'
    <3>1. rr' = rr \/ rr' = (rr + 1) % RRPeriod
      BY <1>2 DEF PickRR
    <3>2. rr \in 0..(RRPeriod - 1) /\ RRPeriod \in Nat \ {0}
      BY PoolAssumption DEF PoolInv, TypeOK
    <3>3. rr' \in 0..(RRPeriod - 1)
      BY <3>1, <3>2
    <3> QED
      BY <2>1, <3>3 DEF PoolInv, TypeOK, SharedInv, BeInv, CircuitHasClock
  <2>3. CASE l.healthy = <<>>
    BY <1>2, <2>1, <2>2, <2>3, GotoRest, LocalsTypes DEF PickRR, NoHealthyBackend
  <2>4. CASE l.healthy # <<>>
    <3>1. Goto(c, "try", Try(l, Rotate(l.healthy, rr % Len(l.healthy))))
      BY <1>2, <2>4 DEF PickRR
    <3>2. rr % Len(l.healthy) \in 0..(Len(l.healthy) - 1)
      <4>1. Len(l.healthy) \in Nat \ {0} /\ rr \in Int
        BY <1>l, <2>4, Candidates DEF PoolInv, TypeOK
      <4>2. \A k \in Int : \A n \in Nat \ {0} : k % n \in 0..(n - 1)
        OBVIOUS
      <4> QED
        BY <4>1, <4>2
    <3>3. PICK q \in Seq(Backends) :
            q = Rotate(l.healthy, rr % Len(l.healthy)) /\ q # <<>>
      BY <1>l, <2>4, <3>2, Candidates
    <3>4. Try(l, q) \in Locals /\ Try(l, q).todo # <<>>
      BY <3>3, LocalsTypes
    <3> QED
      BY <2>1, <2>2, <3>1, <3>3, <3>4, GotoTry
  <2> QED
    BY <2>3, <2>4
<1>3. CASE PickSticky(c)
  <2>1. pc[c] \notin Holding /\ UNCHANGED <<be, inflight, rr, sticky, probe, strategy>>
    BY <1>3 DEF PickSticky, Holding, poolVars
  <2> DEFINE idx == GoMod(ToInt(KeyOf[c]), Len(l.healthy))
  <2>2. CASE l.healthy = <<>>
    BY <1>3, <1>v, <2>1, <2>2, GotoScan, SharedSame DEF PickSticky
  <2>3. CASE l.healthy # <<>> /\ idx < 0
    BY <1>3, <2>1, <2>3, GotoRest, LocalsTypes, SharedSame DEF PickSticky
  <2>4. CASE l.healthy # <<>> /\ ~(idx < 0)
    <3>1. Len(l.healthy) \in Nat \ {0}
          /\ \A k \in 1..Len(l.healthy) : l.healthy[k] \in Backends
      BY <1>l, <2>4, Candidates
    <3>2. ToInt(KeyOf[c]) \in Int
      BY PoolAssumption DEF ToInt
    <3>3. idx + 1 \in 1..Len(l.healthy)
      \* a quotient that is not negative is below the length
      <4>1. \A a \in Int : \A n \in Nat \ {0} :
              ~(GoMod(a, n) < 0) => GoMod(a, n) + 1 \in 1..n
        <5> SUFFICES ASSUME NEW a \in Int, NEW n \in Nat \ {0},
                            ~(GoMod(a, n) < 0)
                     PROVE  GoMod(a, n) + 1 \in 1..n
          OBVIOUS
        <5>1. CASE a >= 0
          BY <5>1 DEF GoMod
        <5>2. CASE a < 0
          <6>1. (-a) \in Nat /\ (-a) % n \in 0..(n - 1)
            BY <5>2
          <6> QED
            BY <5>2, <6>1 DEF GoMod
        <5> QED
          BY <5>1, <5>2
      <4> QED
        BY <2>4, <3>1, <3>2, <4>1
    <3>4. PICK b \in Backends : b = l.healthy[idx + 1]
      BY <3>1, <3>3
    <3>5. Goto(c, "try", Try(l, <<b>>))
      BY <1>3, <2>4, <3>4 DEF PickSticky
    <3>6. <<b>> \in Seq(Backends) /\ <<b>> # <<>>
      OBVIOUS
    <3>7. Try(l, <<b>>) \in Locals /\ Try(l, <<b>>).todo # <<>>
      BY <3>6, LocalsTypes
    <3> QED
      BY <2>1, <3>5, <3>7, GotoTry, SharedSame
  <2> QED
    BY <2>2, <2>3, <2>4
<1>4. CASE PickLeastConn(c)
  <2>1. pc[c] \notin Holding /\ UNCHANGED <<be, inflight, rr, sticky, probe, strategy>>
    BY <1>4 DEF PickLeastConn, Holding, poolVars
  <2>2. [l EXCEPT !.todo = l.healthy, !.healthy = <<>>] \in Locals
    <3>1. <<>> \in Seq(Backends)
      OBVIOUS
    <3> QED
      BY <1>l, <3>1 DEF Locals
  <2> QED
    BY <1>4, <2>1, <2>2, NextLeastMoves, SharedSame DEF PickLeastConn
<1>5. CASE LeastLoad(c)
  <2>1. pc[c] \notin Holding /\ UNCHANGED <<be, inflight, rr, sticky, probe, strategy>>
        /\ l.todo # <<>>
    BY <1>5, <1>p DEF LeastLoad, Holding, poolVars, LocalOK
  <2>2. PICK n \in Int : n = inflight[Head(l.todo)]
    BY <1>i, <1>l, <2>1, Candidates
  <2>3. CASE Goto(c, "leastcap", [l EXCEPT !.cur = n])
    <3>1. "leastcap" \in PC \ Holding
          /\ [l EXCEPT !.cur = n] \in Locals
          /\ [l EXCEPT !.cur = n].todo # <<>>
      BY <2>1 DEF PC, Selecting, Holding, Locals
    <3>2. LocalOK("leastcap", [l EXCEPT !.cur = n])
      BY <3>1 DEF LocalOK, Holding
    <3> QED
      BY <2>1, <2>3, <3>1, <3>2, SharedSame DEF Outside
  <2>4. CASE NextLeast(c, [l EXCEPT !.todo = Tail(l.todo)])
    <3>1. [l EXCEPT !.todo = Tail(l.todo)] \in Locals
      BY <1>l, <2>1, Candidates DEF Locals
    <3> QED
      BY <2>1, <2>4, <3>1, NextLeastMoves, SharedSame
  <2> QED
    BY <1>5, <2>2, <2>3, <2>4 DEF LeastLoad
<1>6. CASE LeastCap(c)
  <2>1. pc[c] \notin Holding /\ UNCHANGED <<be, inflight, rr, sticky, probe, strategy>>
        /\ l.todo # <<>>
    BY <1>6, <1>p DEF LeastCap, Holding, poolVars, LocalOK
  <2>2. Tail(l.todo) \in Seq(Backends) /\ Head(l.todo) \in Backends
    BY <1>l, <2>1, Candidates
  <2>3. \E x \in Backends \cup {None} : \E n \in Int :
          NextLeast(c, [l EXCEPT !.todo = Tail(l.todo), !.cur = 0,
                                 !.best = x, !.bestLoad = n])
    BY <1>6, <1>l, <2>2 DEF LeastCap, Locals
  <2>4. PICK x \in Backends \cup {None}, n \in Int :
          NextLeast(c, [l EXCEPT !.todo = Tail(l.todo), !.cur = 0,
                                 !.best = x, !.bestLoad = n])
    BY <2>3
  <2>5. [l EXCEPT !.todo = Tail(l.todo), !.cur = 0,
                  !.best = x, !.bestLoad = n] \in Locals
    <3>1. 0 \in Int
      OBVIOUS
    <3> QED
      BY <2>2, <3>1 DEF Locals
  <2> QED
    BY <2>1, <2>4, <2>5, NextLeastMoves, SharedSame
<1>7. CASE PickFallback(c)
  <2>1. pc[c] \notin Holding /\ UNCHANGED <<be, inflight, rr, sticky, probe, strategy>>
    BY <1>7 DEF PickFallback, Holding, poolVars
  <2>2. \/ Goto(c, "nohealthy", NoLocals)
        \/ l.healthy # <<>> /\ Goto(c, "try", Try(l, l.healthy))
    BY <1>7 DEF PickFallback, NoHealthyBackend
  <2> QED
    BY <1>l, <2>1, <2>2, LocalsTypes, GotoRest, GotoTry, SharedSame
<1>8. CASE Load(c)
  <2>1. pc[c] \notin Holding /\ UNCHANGED <<be, inflight, rr, sticky, probe, strategy>>
        /\ l.todo # <<>> /\ l.be \in Backends
    BY <1>8, <1>p DEF Load, Holding, poolVars, LocalOK
  <2>2. PICK n \in Int : n = inflight[l.be]
    BY <1>i, <2>1
  <2>3. CASE n >= MaxInflight
    BY <1>8, <2>1, <2>2, <2>3, MissMoves, SharedSame DEF Load
  <2>4. CASE n < MaxInflight
    <3>1. Goto(c, "cas", [l EXCEPT !.cur = n])
      BY <1>8, <2>2, <2>4, Constants DEF Load
    <3>2. "cas" \in PC \ Holding /\ [l EXCEPT !.cur = n] \in Locals
          /\ [l EXCEPT !.cur = n].todo # <<>>
          /\ [l EXCEPT !.cur = n].be \in Backends
          /\ [l EXCEPT !.cur = n].cur = n
      BY <2>1 DEF PC, Selecting, Holding, Locals
    <3>3. LocalOK("cas", [l EXCEPT !.cur = n])
      BY <2>4, <3>2 DEF LocalOK
    <3> QED
      BY <2>1, <3>1, <3>2, <3>3, SharedSame DEF Outside
  <2> QED
    BY <2>2, <2>3, <2>4, Constants
<1> QED
  BY <1>1, <1>2, <1>3, <1>4, <1>5, <1>6, <1>7, <1>8

-----------------------------------------------------------------------------
(* Every step preserves the invariant.                                     *)

LEMMA SelectStep ==
    ASSUME PoolInv, NEW c \in Clients, ClientSelect(c)
    PROVE  PoolInv'
<1> PICK l \in Locals : l = loc[c]
  BY DEF PoolInv, TypeOK
<1>p. LocalOK(pc[c], l)
  BY DEF PoolInv, LocalsInv
<1>l. l.todo \in Seq(Backends) /\ l.healthy \in Seq(Backends)
  BY DEF Locals
<1>1. CASE \/ Select(c) \/ PickRR(c) \/ PickSticky(c) \/ PickLeastConn(c)
           \/ LeastLoad(c) \/ LeastCap(c) \/ PickFallback(c) \/ Load(c)
  BY <1>1, SelectOutside, OutsideStep
<1>2. CASE Scan(c)
  <2>1. /\ pc[c] \notin Holding /\ l.todo # <<>>
        /\ UNCHANGED <<inflight, rr, sticky, probe, strategy>>
    BY <1>2, <1>p DEF Scan, Holding, LocalOK
  <2>2. PICK i \in Backends : i = Head(l.todo)
    BY <1>l, <2>1, Candidates
  <2>3. be[i] \in innerState /\ HasClock(be[i])
    BY BackendWellFormed
  <2>4. PICK r \in innerState : r = AfterIsSelectable(be[i]) /\ HasClock(r)
    BY <2>3, BackendOps
  <2>5. be' = [be EXCEPT ![i] = r]
    BY <1>2, <2>2, <2>4 DEF Scan
  <2>6. SharedInv'
    BY <2>1, <2>4, <2>5, SharedBackend DEF PoolInv, TypeOK
  <2>7. Tail(l.todo) \in Seq(Backends)
    BY <1>l, <2>1, Candidates
  <2>8. \E h \in Seq(Backends) :
          Goto(c, IF Tail(l.todo) = <<>> THEN "pick" ELSE "scan",
               [l EXCEPT !.todo = Tail(l.todo), !.healthy = h])
    <3>1. Append(l.healthy, i) \in Seq(Backends)
      BY <1>l
    <3>2. CASE Selectable(be[i])
      BY <1>2, <2>2, <3>1, <3>2 DEF Scan
    <3>3. CASE ~Selectable(be[i])
      BY <1>2, <1>l, <2>2, <3>3 DEF Scan
    <3> QED
      BY <3>2, <3>3
  <2>9. PICK h \in Seq(Backends) :
          Goto(c, IF Tail(l.todo) = <<>> THEN "pick" ELSE "scan",
               [l EXCEPT !.todo = Tail(l.todo), !.healthy = h])
    BY <2>8
  <2>10. PICK m \in Locals :
          m = [l EXCEPT !.todo = Tail(l.todo), !.healthy = h]
          /\ m.todo = Tail(l.todo)
    <3>1. /\ [l EXCEPT !.todo = Tail(l.todo), !.healthy = h] \in Locals
          /\ [l EXCEPT !.todo = Tail(l.todo), !.healthy = h].todo = Tail(l.todo)
      BY <2>7 DEF Locals
    <3> QED
      BY <3>1
  <2>11. CASE Tail(l.todo) = <<>>
    <3>1. Goto(c, "pick", m)
      BY <2>9, <2>10, <2>11
    <3> QED
      BY <2>1, <2>6, <3>1, GotoRest, OutsideStep
  <2>12. CASE Tail(l.todo) # <<>>
    <3>1. Goto(c, "scan", m)
      BY <2>9, <2>10, <2>12
    <3>2. "scan" \in PC \ Holding /\ LocalOK("scan", m)
      BY <2>10, <2>12 DEF PC, Selecting, Holding, LocalOK
    <3>3. Outside(c)
      BY <3>1, <3>2 DEF Outside
    <3> QED
      BY <2>1, <2>6, <3>3, OutsideStep
  <2> QED
    BY <2>11, <2>12
<1>3. CASE TryAcquire(c)
  <2>1. /\ pc[c] \notin Holding /\ l.todo # <<>>
        /\ UNCHANGED <<inflight, rr, sticky, probe, strategy>>
    BY <1>3, <1>p DEF TryAcquire, Holding, LocalOK
  <2>2. PICK i \in Backends : i = Head(l.todo)
    BY <1>l, <2>1, Candidates
  <2>3. be[i] \in innerState /\ HasClock(be[i])
    BY BackendWellFormed
  <2>4. PICK r \in innerState : r = AfterIsSelectable(be[i]) /\ HasClock(r)
    BY <2>3, BackendOps
  <2>5. be' = [be EXCEPT ![i] = r]
    BY <1>3, <2>2, <2>4 DEF TryAcquire
  <2>6. SharedInv'
    BY <2>1, <2>4, <2>5, SharedBackend DEF PoolInv, TypeOK
  <2>7. CASE Selectable(be[i])
    <3>0. /\ [l EXCEPT !.be = i] \in Locals
          /\ [l EXCEPT !.be = i].todo = l.todo
          /\ [l EXCEPT !.be = i].be = i
      BY DEF Locals
    <3>1. PICK m \in Locals :
            m = [l EXCEPT !.be = i] /\ m.todo # <<>> /\ m.be \in Backends
      BY <2>1, <3>0
    <3>2. Goto(c, "load", m)
      BY <1>3, <2>2, <2>7, <3>1 DEF TryAcquire
    <3>3. "load" \in PC \ Holding /\ LocalOK("load", m)
      BY <3>1 DEF PC, Selecting, Holding, LocalOK
    <3>4. Outside(c)
      BY <3>2, <3>3 DEF Outside
    <3> QED
      BY <2>1, <2>6, <3>4, OutsideStep
  <2>8. CASE ~Selectable(be[i])
    <3>1. Miss(c)
      BY <1>3, <2>2, <2>8 DEF TryAcquire
    <3> QED
      BY <2>1, <2>6, <3>1, MissMoves, OutsideStep
  <2> QED
    BY <2>7, <2>8
<1>4. CASE CompareAndSwap(c)
  <2>1. /\ pc[c] \notin Holding /\ l.todo # <<>> /\ l.be \in Backends
        /\ l.cur < MaxInflight /\ UNCHANGED <<be, rr, sticky, probe, strategy>>
    BY <1>4, <1>p DEF CompareAndSwap, Holding, LocalOK
  <2>2. SharedInv'
    BY <2>1, SharedSame
  <2>3. CASE inflight[l.be] = l.cur
    <3>1. PICK m \in Locals : m = Leased(l) /\ m.be = l.be
      BY LocalsTypes
    <3>2. PICK p \in Holding : Goto(c, p, m)
      <4>1. Goto(c, IF strategy = "sticky" /\ l.via # "entry"
                    THEN "store" ELSE "connect", m)
        BY <1>4, <2>3, <3>1 DEF CompareAndSwap
      <4>2. "store" \in Holding /\ "connect" \in Holding
        BY DEF Holding
      <4> QED
        BY <4>1, <4>2
    <3>3. inflight' = [inflight EXCEPT ![m.be] = @ + 1]
      BY <1>4, <2>3, <3>1 DEF CompareAndSwap
    <3> QED
      BY <2>1, <2>2, <2>3, <3>1, <3>2, <3>3, AcquireStep
  <2>4. CASE inflight[l.be] # l.cur
    <3>0. /\ [l EXCEPT !.cur = 0] \in Locals
          /\ [l EXCEPT !.cur = 0].todo = l.todo
          /\ [l EXCEPT !.cur = 0].be = l.be
      <4>1. 0 \in Int
        OBVIOUS
      <4> QED
        BY <4>1 DEF Locals
    <3>1. PICK m \in Locals :
            m = [l EXCEPT !.cur = 0] /\ m.todo # <<>> /\ m.be \in Backends
      BY <2>1, <3>0
    <3>2. Goto(c, "load", m) /\ inflight' = inflight
      BY <1>4, <2>4, <3>1 DEF CompareAndSwap
    <3>3. "load" \in PC \ Holding /\ LocalOK("load", m)
      BY <3>1 DEF PC, Selecting, Holding, LocalOK
    <3>4. Outside(c)
      BY <3>2, <3>3 DEF Outside
    <3> QED
      BY <2>1, <2>2, <3>2, <3>4, OutsideStep
  <2> QED
    BY <2>3, <2>4
<1> QED
  BY <1>1, <1>2, <1>3, <1>4 DEF ClientSelect

LEMMA DialStep ==
    ASSUME PoolInv, NEW c \in Clients, ClientDial(c)
    PROVE  PoolInv'
<1> PICK l \in Locals : l = loc[c]
  BY DEF PoolInv, TypeOK
<1>p. LocalOK(pc[c], l)
  BY DEF PoolInv, LocalsInv
<1>h. /\ {"store", "connect", "handshake", "release", "open"} \subseteq Holding
      /\ Holding \subseteq PC
      /\ {"idle", "select", "nohealthy", "failed"} \cap Holding = {}
      /\ {"idle", "select", "nohealthy", "failed"} \subseteq PC
  BY DEF Holding, PC, Selecting
<1>b. pc[c] \in Holding => l.be \in Backends
  BY <1>p DEF LocalOK
<1>1. CASE Request(c) \/ Reply(c)
  <2>1. /\ pc[c] \notin Holding /\ UNCHANGED <<be, inflight, rr, sticky, probe, strategy>>
        /\ \E p \in {"select", "idle"} : Goto(c, p, NoLocals)
    BY <1>1, <1>h DEF Request, Reply, poolVars
  <2> QED
    BY <2>1, GotoRest, LocalsTypes, SharedSame, OutsideStep
<1>2. CASE StoreSticky(c)
  <2>1. /\ pc[c] \in Holding /\ Goto(c, "connect", l)
        /\ UNCHANGED <<be, inflight, rr, probe, strategy>>
    BY <1>2, <1>h DEF StoreSticky
  <2>2. SharedInv'
    <3>1. [id |-> l.be, age |-> "fresh"] \in stickyEntry
      BY <1>b, <2>1 DEF stickyEntry, Age
    <3>2. sticky' \in [Keys -> stickyEntry]
      BY <1>2, <3>1 DEF StoreSticky, PoolInv, TypeOK
    <3> QED
      BY <2>1, <3>2 DEF PoolInv, TypeOK, SharedInv, BeInv, CircuitHasClock
  <2>3. LocalOK("connect", l) /\ "connect" \in PC /\ "connect" \in Holding
    BY <1>b, <1>h, <2>1 DEF LocalOK
  <2> QED
    BY <2>1, <2>2, <2>3, MoveStep
<1>3. CASE ConnectOK(c)
  <2>1. /\ pc[c] \in Holding /\ Goto(c, "handshake", l)
        /\ UNCHANGED <<be, inflight, rr, sticky, probe, strategy>>
    BY <1>3, <1>h DEF ConnectOK, poolVars
  <2>2. LocalOK("handshake", l) /\ "handshake" \in PC /\ "handshake" \in Holding
    BY <1>b, <1>h, <2>1 DEF LocalOK
  <2> QED
    BY <2>1, <2>2, SharedSame, MoveStep
<1>4. CASE DialFail(c) \/ HandshakeOK(c)
  <2>1. /\ pc[c] \in Holding
        /\ \E p \in {"release", "open"} : Goto(c, p, l)
        /\ UNCHANGED <<inflight, rr, sticky, probe, strategy>>
    BY <1>4, <1>h DEF DialFail, HandshakeOK
  <2>2. PICK i \in Backends : i = l.be
    BY <1>b, <2>1
  <2>3. be[i] \in innerState /\ HasClock(be[i])
    BY BackendWellFormed
  <2>4. PICK r \in innerState : be' = [be EXCEPT ![i] = r] /\ HasClock(r)
    <3>1. \/ be' = [be EXCEPT ![i] = MarkFailure(be[i])]
          \/ be' = [be EXCEPT ![i] = MarkSuccess(be[i])]
      BY <1>4, <2>2 DEF DialFail, HandshakeOK
    <3> QED
      BY <2>3, <3>1, BackendOps
  <2>5. SharedInv'
    BY <2>1, <2>4, SharedBackend DEF PoolInv, TypeOK
  <2>6. PICK p \in {"release", "open"} : Goto(c, p, l)
    BY <2>1
  <2>7. LocalOK(p, l) /\ p \in PC /\ p \in Holding
    BY <1>b, <1>h, <2>1 DEF LocalOK
  <2> QED
    BY <2>1, <2>5, <2>6, <2>7, MoveStep
<1>5. CASE ReleaseRetry(c)
  <2>1. /\ pc[c] \in Holding /\ UNCHANGED <<be, rr, sticky, probe, strategy>>
        /\ inflight' = [inflight EXCEPT ![loc[c].be] = @ - 1]
    BY <1>5, <1>h DEF ReleaseRetry
  <2>2. PICK p \in {"select", "failed"}, m \in Locals : Goto(c, p, m)
    <3>1. CASE l.attempt + 1 < MaxAttempts
      <4>1. l.attempt + 1 \in 0..(MaxAttempts - 1)
        BY <3>1, PoolAssumption DEF Locals
      <4>2. [NoLocals EXCEPT !.attempt = l.attempt + 1] \in Locals
        BY <4>1, LocalsTypes DEF Locals
      <4> QED
        BY <1>5, <3>1, <4>2 DEF ReleaseRetry
    <3>2. CASE ~(l.attempt + 1 < MaxAttempts)
      BY <1>5, <3>2, LocalsTypes DEF ReleaseRetry
    <3> QED
      BY <3>1, <3>2
  <2>3. p \in PC \ Holding /\ LocalOK(p, m)
    BY <1>h DEF LocalOK
  <2> QED
    BY <2>1, <2>2, <2>3, SharedSame, ReleaseStep
<1>6. CASE Close(c)
  <2>1. /\ pc[c] \in Holding /\ UNCHANGED <<be, rr, sticky, probe, strategy>>
        /\ inflight' = [inflight EXCEPT ![loc[c].be] = @ - 1]
        /\ Goto(c, "idle", NoLocals)
    BY <1>6, <1>h DEF Close
  <2>2. "idle" \in PC \ Holding /\ LocalOK("idle", NoLocals)
    BY <1>h DEF LocalOK
  <2> QED
    BY <2>1, <2>2, LocalsTypes, SharedSame, ReleaseStep
<1> QED
  BY <1>1, <1>2, <1>3, <1>4, <1>5, <1>6 DEF ClientDial

LEMMA EnvironmentStep ==
    ASSUME PoolInv, NEW i \in Backends, Probe(i) \/ Control(i) \/ Elapse(i)
    PROVE  PoolInv'
<1>1. be[i] \in innerState /\ HasClock(be[i])
  BY BackendWellFormed
<1>2. CASE ProbeCheck(i)
  <2>1. UNCHANGED <<be, inflight, rr, sticky, pc, loc, strategy>>
    BY <1>2 DEF ProbeCheck, poolVars
  <2>2. probe' \in [Backends -> {"idle", "check", "force"}]
    BY <1>2 DEF ProbeCheck, PoolInv, TypeOK
  <2>3. SharedInv'
    BY <2>1, <2>2 DEF PoolInv, TypeOK, SharedInv, BeInv, CircuitHasClock
  <2> QED
    BY <2>1, <2>3, OtherStep
<1>3. CASE \E r \in innerState : /\ HasClock(r) /\ Update(i, r)
                                 /\ probe' \in [Backends ->
                                                {"idle", "check", "force"}]
  <2>1. PICK r \in innerState : /\ HasClock(r) /\ Update(i, r)
                                /\ probe' \in [Backends ->
                                               {"idle", "check", "force"}]
    BY <1>3
  <2>2. be' = [be EXCEPT ![i] = r] /\ UNCHANGED <<inflight, rr, sticky, pc, loc, strategy>>
    BY <2>1 DEF Update
  <2>3. SharedInv'
    BY <2>1, <2>2, SharedBackend
  <2> QED
    BY <2>2, <2>3, OtherStep
<1>t. probe \in [Backends -> {"idle", "check", "force"}]
  BY DEF PoolInv, TypeOK
<1>4. CASE ProbeOK(i) \/ ProbeFail(i) \/ ProbeForce(i)
  <2>1. probe' \in [Backends -> {"idle", "check", "force"}]
    BY <1>4, <1>t DEF ProbeOK, ProbeFail, ProbeForce
  <2>2. \/ Update(i, MarkProbeOK(be[i])) \/ Update(i, MarkProbeFail(be[i]))
        \/ Update(i, ForceState(be[i], "unhealthy"))
    BY <1>4 DEF ProbeOK, ProbeFail, ProbeForce
  <2> QED
    BY <1>1, <1>3, <2>1, <2>2, BackendOps
<1>5. CASE Control(i) \/ Elapse(i)
  <2>1. probe' = probe
    BY <1>5 DEF Control, Admit, Park, SetWarming, ResetState, HealthRead, Elapse
  <2>2. \/ \E p \in AdmitPhase : Update(i, SetAdmit(be[i], p))
        \/ Update(i, ForceState(be[i], "unknown"))
        \/ Update(i, AfterIsSelectable(be[i]))
        \/ CanAge(be[i]) /\ Update(i, Aged(be[i]))
    BY <1>5 DEF Control, Admit, Park, SetWarming, ResetState, HealthRead,
                Elapse, AdmitPhase
  <2> QED
    BY <1>1, <1>3, <1>t, <2>1, <2>2, BackendOps
<1> QED
  BY <1>2, <1>4, <1>5 DEF Probe

LEMMA ExpireStep ==
    ASSUME PoolInv, NEW k \in Keys, Expire(k)
    PROVE  PoolInv'
<1>1. UNCHANGED <<be, inflight, rr, pc, loc, probe, strategy>>
  BY DEF Expire
<1>2. sticky' \in [Keys -> stickyEntry]
  BY DEF Expire, PoolInv, TypeOK, stickyEntry, Age
<1>3. SharedInv'
  BY <1>1, <1>2 DEF PoolInv, TypeOK, SharedInv, BeInv, CircuitHasClock
<1> QED
  BY <1>1, <1>3, OtherStep

LEMMA PoolInit == Init => PoolInv
<1> SUFFICES ASSUME Init PROVE PoolInv
  OBVIOUS
<1>1. /\ be = [i \in Backends |-> NewBackend]
      /\ inflight = [i \in Backends |-> 0] /\ rr = 0
      /\ sticky = [k \in Keys |-> NoEntry]
      /\ pc = [c \in Clients |-> "idle"] /\ loc = [c \in Clients |-> NoLocals]
      /\ probe = [i \in Backends |-> "idle"] /\ strategy \in Strategies
  BY DEF Init
<1>2. NewBackend \in innerState /\ NewBackend.state # "circuit_open"
  BY BackendAssumption DEF NewBackend, innerState, State, AdmitPhase, Age
<1>3. "idle" \in PC \ Holding /\ LocalOK("idle", NoLocals)
  BY DEF PC, Selecting, Holding, LocalOK
<1>4. NoEntry \in stickyEntry
  BY DEF NoEntry, stickyEntry, Age
<1>5. rr \in 0..(RRPeriod - 1)
  BY <1>1, PoolAssumption
<1>6. TypeOK
  BY <1>1, <1>2, <1>3, <1>4, <1>5, LocalsTypes DEF TypeOK
<1>7. LocalsInv /\ CircuitHasClock
  BY <1>1, <1>2, <1>3 DEF LocalsInv, CircuitHasClock
<1>8. \A i \in Backends : Holders(i) = {}
  BY <1>1, <1>3 DEF Holders
<1>9. InflightConserved /\ CapacityRespected
  <2>1. \A i \in Backends : Cardinality(Holders(i)) = 0
    BY <1>8, FS_EmptySet
  <2> QED
    BY <1>1, <2>1, Constants DEF InflightConserved, CapacityRespected
<1> QED
  BY <1>6, <1>7, <1>9 DEF PoolInv

LEMMA PoolNext == PoolInv /\ [Next]_vars => PoolInv'
<1> SUFFICES ASSUME PoolInv, [Next]_vars PROVE PoolInv'
  OBVIOUS
<1>1. CASE UNCHANGED vars
  BY <1>1, SharedSame, OtherStep DEF vars
<1>2. CASE Next
  BY <1>2, SelectStep, DialStep, EnvironmentStep, ExpireStep DEF Next
<1> QED
  BY <1>1, <1>2

-----------------------------------------------------------------------------
(* The theorems.                                                           *)

(* The inductive invariant of the pool: whatever handlers, prober, control *)
(* plane and clock do, and for every strategy and limit.                   *)
THEOREM PoolInvariant == Spec => []PoolInv
<1> QED
  BY PoolInit, PoolNext, PTL DEF Spec

(* The pool's state and every handler's locals keep their types, the       *)
(* attempt counter of DialViaSocks and the round-robin counter included.   *)
THEOREM PoolTypes == Spec => []TypeOK
<1>1. PoolInv => TypeOK
  BY DEF PoolInv
<1> QED
  BY <1>1, PoolInvariant, PTL

(* Backend.inflight counts exactly the leases out on the backend.          *)
THEOREM LeasesConserved == Spec => []InflightConserved
<1>1. PoolInv => InflightConserved
  BY DEF PoolInv
<1> QED
  BY <1>1, PoolInvariant, PTL

(* No backend ever carries more than MaxInflight connections, although     *)
(* TryAcquire checks the counter before it increments it.                  *)
THEOREM CapacityIsHard == Spec => []CapacityRespected
<1>1. PoolInv => CapacityRespected
  BY DEF PoolInv
<1> QED
  BY <1>1, PoolInvariant, PTL

(* A circuit that is open has its clock running.                           *)
THEOREM CircuitClock == Spec => []CircuitHasClock
<1>1. PoolInv => CircuitHasClock
  BY DEF PoolInv
<1> QED
  BY <1>1, PoolInvariant, PTL
-----------------------------------------------------------------------------
(* The pool implements Admission, one slot at a time.                      *)

(* The only client a step may move is c. *)
OthersStay(c) == \A d \in Clients \ {c} : pc'[d] = pc[d] /\ loc'[d] = loc[d]

LEMMA GotoStays ==
    ASSUME PoolInv, NEW c \in Clients, NEW p, NEW l, Goto(c, p, l)
    PROVE  OthersStay(c) /\ pc'[c] = p /\ loc'[c] = l
  BY DEF PoolInv, TypeOK, Goto, OthersStay

LEMMA OutsideStays ==
    ASSUME PoolInv, NEW c \in Clients, Outside(c)
    PROVE  OthersStay(c)
<1> PICK p \in PC \ Holding, l \in Locals : LocalOK(p, l) /\ Goto(c, p, l)
  BY DEF Outside
<1> QED
  BY GotoStays

(* What a step does to the leases: it moves no client, or one that has     *)
(* none before it or none after it, or whose lease stays on its backend.   *)
LEMMA SelectMoves ==
    ASSUME PoolInv, NEW c \in Clients, ClientSelect(c)
    PROVE  OthersStay(c) /\ pc[c] \notin Holding
<1>1. pc[c] \notin Holding
  BY DEF ClientSelect, Select, Scan, PickRR, PickSticky, PickLeastConn,
         LeastLoad, LeastCap, PickFallback, TryAcquire, Load, CompareAndSwap,
         Holding
<1>2. CASE \/ Select(c) \/ PickRR(c) \/ PickSticky(c) \/ PickLeastConn(c)
           \/ LeastLoad(c) \/ LeastCap(c) \/ PickFallback(c) \/ Load(c)
  BY <1>1, <1>2, SelectOutside, OutsideStays
<1>3. CASE Scan(c)
  <2>1. PICK p, l : Goto(c, p, l)
    BY <1>3 DEF Scan
  <2> QED
    BY <1>1, <2>1, GotoStays
<1>4. CASE TryAcquire(c)
  <2>1. Goto(c, "load", [loc[c] EXCEPT !.be = Head(loc[c].todo)]) \/ Miss(c)
    BY <1>4 DEF TryAcquire
  <2>2. ASSUME Miss(c) PROVE OthersStay(c)
    <3>1. loc[c].todo # <<>>
      BY <1>4 DEF TryAcquire, PoolInv, LocalsInv, LocalOK
    <3> QED
      BY <2>2, <3>1, MissMoves, OutsideStays
  <2>3. ASSUME NEW l, Goto(c, "load", l) PROVE OthersStay(c)
    BY <2>3, GotoStays
  <2> QED
    BY <1>1, <2>1, <2>2, <2>3
<1>5. CASE CompareAndSwap(c)
  <2>1. PICK p, l : Goto(c, p, l)
    <3>1. CASE inflight[loc[c].be] = loc[c].cur
      BY <1>5, <3>1 DEF CompareAndSwap
    <3>2. CASE inflight[loc[c].be] # loc[c].cur
      BY <1>5, <3>2 DEF CompareAndSwap
    <3> QED
      BY <3>1, <3>2
  <2> QED
    BY <1>1, <2>1, GotoStays
<1> QED
  BY <1>1, <1>2, <1>3, <1>4, <1>5 DEF ClientSelect

LEMMA DialMoves ==
    ASSUME PoolInv, NEW c \in Clients, ClientDial(c)
    PROVE  /\ OthersStay(c)
           /\ pc[c] \in Holding /\ pc'[c] \in Holding => loc'[c].be = loc[c].be
<1>1. CASE Request(c) \/ Reply(c) \/ Close(c)
  BY <1>1, GotoStays DEF Request, Reply, Close, Holding
<1>2. CASE StoreSticky(c) \/ ConnectOK(c) \/ DialFail(c) \/ HandshakeOK(c)
  BY <1>2, GotoStays DEF StoreSticky, ConnectOK, DialFail, HandshakeOK
<1>3. CASE ReleaseRetry(c)
  BY <1>3, GotoStays DEF ReleaseRetry, Holding
<1> QED
  BY <1>1, <1>2, <1>3 DEF ClientDial

LEMMA LeaseMoves ==
    ASSUME PoolInv, [Next]_vars
    PROVE  \/ UNCHANGED <<pc, loc>>
           \/ \E c \in Clients :
                /\ OthersStay(c)
                /\ pc[c] \in Holding /\ pc'[c] \in Holding
                      => loc'[c].be = loc[c].be
<1>1. ASSUME NEW i \in Backends, Probe(i) \/ Control(i) \/ Elapse(i)
      PROVE  UNCHANGED <<pc, loc>>
  BY <1>1 DEF Probe, ProbeOK, ProbeFail, ProbeCheck, ProbeForce, Control,
              Admit, Park, SetWarming, ResetState, HealthRead, Elapse, Update
<1>2. ASSUME NEW k \in Keys, Expire(k) PROVE UNCHANGED <<pc, loc>>
  BY <1>2 DEF Expire
<1>3. CASE UNCHANGED vars
  BY <1>3 DEF vars
<1> QED
  BY <1>1, <1>2, <1>3, SelectMoves, DialMoves DEF Next

(* The natural numbers are well founded. *)
LEMMA LeastNat ==
    ASSUME NEW T \in SUBSET Nat, T # {}
    PROVE  \E x \in T : \A y \in T : x <= y
<1>1. PICK x \in T : \A y \in T : <<y, x>> \notin OpToRel(<, Nat)
  BY WFMin, NatLessThanWellFounded, Zenon
<1>2. \A y \in T : ~(y < x)
  BY <1>1 DEF OpToRel
<1> QED
  BY <1>2

(* The handlers with a lease on one of the first k backends. *)
HoldersUpTo(k) == {c \in Clients : pc[c] \in Holding /\ loc[c].be \in 1..k}

(* They are at most k times MaxInflight: else look at the first k for      *)
(* which they are not, whose own holders are at most MaxInflight.          *)
LEMMA SlotsInAll ==
    PoolInv =>
        \A n \in 0..N : Cardinality(HoldersUpTo(n)) <= n * MaxInflight
<1> SUFFICES ASSUME PoolInv, NEW n \in 0..N
             PROVE  Cardinality(HoldersUpTo(n)) <= n * MaxInflight
  OBVIOUS
<1> DEFINE T == {k \in 0..N : ~(Cardinality(HoldersUpTo(k)) <= k * MaxInflight)}
<1>n. N \in Nat /\ MaxInflight \in Nat
  BY Constants, PoolAssumption
<1> SUFFICES ASSUME T # {} PROVE FALSE
  OBVIOUS
<1>1. PICK k \in T : \A y \in T : k <= y
  <2>1. T \in SUBSET Nat
    BY <1>n
  <2> QED
    BY <2>1, LeastNat
<1>2. k \in 0..N /\ k \in Nat
  BY <1>n
<1>3. CASE k = 0
  <2>1. HoldersUpTo(0) = {}
    BY DEF HoldersUpTo
  <2>2. Cardinality(HoldersUpTo(k)) = 0
    BY <1>3, <2>1, FS_EmptySet
  <2> QED
    BY <1>1, <1>3, <1>n, <2>2
<1>4. CASE k # 0
  <2>1. PICK j \in 0..N : j = k - 1 /\ j \in Nat /\ j \notin T
    BY <1>1, <1>2, <1>4, <1>n
  <2>2. Cardinality(HoldersUpTo(j)) <= j * MaxInflight
    BY <2>1
  <2>3. k \in Backends
    BY <1>2, <1>4, <1>n DEF Backends
  <2>4. Cardinality(Holders(k)) <= MaxInflight
    BY <2>3 DEF PoolInv, CapacityRespected
  <2>5. HoldersUpTo(k) = HoldersUpTo(j) \cup Holders(k)
    <3>1. ASSUME NEW x \in Nat PROVE x \in 1..k <=> x \in 1..j \/ x = k
      BY <1>2, <1>4, <2>1
    <3>2. \A c \in Clients : pc[c] \in Holding => loc[c].be \in Nat
      BY <1>n DEF PoolInv, LocalsInv, LocalOK, Backends
    <3> QED
      BY <3>1, <3>2 DEF HoldersUpTo, Holders
  <2>6. IsFiniteSet(HoldersUpTo(j)) /\ IsFiniteSet(Holders(k))
    BY FS_Subset, PoolAssumption DEF HoldersUpTo, Holders
  <2>7. /\ Cardinality(HoldersUpTo(j)) \in Nat /\ Cardinality(Holders(k)) \in Nat
        /\ Cardinality(HoldersUpTo(j) \cap Holders(k)) \in Nat
    BY <2>6, FS_CardinalityType, FS_Intersection
  <2>8. Cardinality(HoldersUpTo(k)) = Cardinality(HoldersUpTo(j))
            + Cardinality(Holders(k)) - Cardinality(HoldersUpTo(j) \cap Holders(k))
    BY <2>5, <2>6, FS_Union
  <2>9. k * MaxInflight = j * MaxInflight + MaxInflight
        /\ j * MaxInflight \in Int
    BY <1>2, <1>n, <2>1
  <2>10. Cardinality(HoldersUpTo(k)) <= k * MaxInflight
    BY <1>n, <2>2, <2>4, <2>7, <2>8, <2>9
  <2> QED
    BY <1>1, <2>10
<1> QED
  BY <1>3, <1>4

(* A handler that gets a lease gets a free slot. *)
LEMMA SlotGranted ==
    ASSUME PoolInv, PoolInv', NEW c \in Clients, OthersStay(c),
           pc[c] \notin Holding, pc'[c] \in Holding
    PROVE  Slots!ANext
<1>1. PICK b \in Backends : b = loc'[c].be
  BY DEF PoolInv, LocalsInv, LocalOK
<1>n. N \in Nat /\ MaxInflight \in Nat /\ N * MaxInflight \in Nat
  BY Constants, PoolAssumption
<1>2. SlotOf[c] = None /\ SlotOf' = [SlotOf EXCEPT ![c] = b]
  BY <1>1 DEF SlotOf, OthersStay
<1>3. /\ b # None /\ b # -1
      /\ \A d \in Clients : SlotOf[d] # -1
      /\ \A d \in Clients : pc[d] \in Holding => loc[d].be # None
  BY <1>n DEF PoolInv, LocalsInv, LocalOK, SlotOf, Backends, None
<1>4. Cardinality(Holders(b)) < MaxInflight
  <2>1. Holders(b)' = Holders(b) \cup {c} /\ c \notin Holders(b)
    BY <1>1 DEF Holders, OthersStay
  <2>2. Holders(b) \in SUBSET Clients
    BY DEF Holders
  <2>3. Cardinality(Holders(b)') = Cardinality(Holders(b)) + 1
        /\ Cardinality(Holders(b)) \in Nat
    BY <2>1, <2>2, Counting
  <2>4. Cardinality(Holders(b)') <= MaxInflight
    BY DEF PoolInv, CapacityRespected
  <2> QED
    BY <1>n, <2>3, <2>4
<1>5. Cardinality(HoldersUpTo(N)) < N * MaxInflight
  <2>1. HoldersUpTo(N)' = HoldersUpTo(N) \cup {c} /\ c \notin HoldersUpTo(N)
    BY <1>1 DEF HoldersUpTo, OthersStay, Backends
  <2>2. HoldersUpTo(N) \in SUBSET Clients
    BY DEF HoldersUpTo
  <2>3. Cardinality(HoldersUpTo(N)') = Cardinality(HoldersUpTo(N)) + 1
        /\ Cardinality(HoldersUpTo(N)) \in Nat
    BY <2>1, <2>2, Counting
  <2>4. (\A n \in 0..N : Cardinality(HoldersUpTo(n)) <= n * MaxInflight)'
    BY SlotsInAll, PTL
  <2>5. Cardinality(HoldersUpTo(N)') <= N * MaxInflight
    BY <1>n, <2>4
  <2> QED
    BY <1>n, <2>3, <2>5
<1>6. Slots!Admitted = HoldersUpTo(N) /\ Slots!AdmittedFor(b) = Holders(b)
  <2>1. Slots!Admitted = HoldersUpTo(N)
    BY <1>3 DEF Slots!Admitted, HoldersUpTo, SlotOf, PoolInv, LocalsInv,
                LocalOK, Backends
  <2>2. Slots!AdmittedFor(b) = Holders(b)
    BY <1>3 DEF Slots!AdmittedFor, Holders, SlotOf
  <2> QED
    BY <2>1, <2>2
<1>7. Slots!Grant(c, b)
  BY <1>2, <1>4, <1>5, <1>6
  DEF Slots!Grant, Slots!Cardinality, Cardinality
<1> QED
  BY <1>7 DEF Slots!ANext

LEMMA SlotStep ==
    ASSUME PoolInv, PoolInv', [Next]_vars
    PROVE  [Slots!ANext]_SlotOf
<1>1. CASE UNCHANGED <<pc, loc>>
  BY <1>1 DEF SlotOf
<1>2. ASSUME NEW c \in Clients, OthersStay(c),
             pc[c] \in Holding /\ pc'[c] \in Holding => loc'[c].be = loc[c].be
      PROVE  Slots!ANext \/ UNCHANGED SlotOf
  <2>1. CASE pc[c] \notin Holding /\ pc'[c] \in Holding
    BY <1>2, <2>1, SlotGranted
  <2>2. CASE pc[c] \in Holding /\ pc'[c] \notin Holding
    <3>1. SlotOf[c] # None
      BY <2>2, PoolAssumption DEF SlotOf, PoolInv, LocalsInv, LocalOK, Backends, None
    <3>2. SlotOf' = [SlotOf EXCEPT ![c] = None]
      BY <1>2, <2>2 DEF SlotOf, OthersStay
    <3> QED
      BY <3>1, <3>2 DEF Slots!ANext, Slots!Return
  <2>3. CASE pc[c] \in Holding <=> pc'[c] \in Holding
    BY <1>2, <2>3 DEF SlotOf, OthersStay
  <2> QED
    BY <2>1, <2>2, <2>3
<1> QED
  BY <1>1, <1>2, LeaseMoves

(* The pool implements an admission of MaxInflight slots per backend, for  *)
(* any number of backends and handlers, any strategy and any other callers.*)
THEOREM PoolRefines == Spec => ImplementsSlots
<1>1. Init => Slots!AInit
  BY DEF Init, Slots!AInit, SlotOf, Holding
<1>2. PoolInv /\ PoolInv' /\ [Next]_vars => [Slots!ANext]_SlotOf
  BY SlotStep
<1> QED
  BY <1>1, <1>2, PoolInvariant, PTL DEF Spec, ImplementsSlots, Slots!ASpec
=============================================================================
