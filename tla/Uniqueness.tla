----------------------------- MODULE Uniqueness -----------------------------
(***************************************************************************)
(* The uniqueness engine of internal/control/uniqueness.go: the goroutine  *)
(* that lets backends into the pool one by one, re-registers those whose   *)
(* egress IPv4 address is taken, and later rechecks the ones it let in.    *)
(*                                                                         *)
(* The engine is one goroutine: tick and recheckInPool never overlap, and  *)
(* nothing else changes a backend's admission.  What runs beside it is the *)
(* health of the backends (prober, dials, supervisor, admin), the network  *)
(* that answers its probes, warp-cli and the clock.                        *)
(*                                                                         *)
(* Time is abstracted to the questions the code asks of it: may backend i  *)
(* be retried (nextRetry), is the stagger gap since the last registration  *)
(* over (lastRegStart), is a recheck due (lastRecheck).  The timers run    *)
(* independently of one another here; in the code a backend deferred by    *)
(* the stagger is retried after that gap, so the model has more schedules. *)
(* Logging and statistics are left out, but for the calls of Reregister.   *)
(***************************************************************************)
EXTENDS Integers, FiniteSets

CONSTANTS
    N,               \* the number of backends; their IDs are 1..N
    IPs,             \* egress addresses a probe may return
    CfgMaxAttempts,  \* cfg.Uniqueness.MaxAttempts
    Stagger,         \* what stagger() returns: 0 when the gap is off
    CfgRecheckMax    \* cfg.Uniqueness.RecheckMax

NoTag == "no_tag"   \* the empty egressIPv4

ASSUME UniquenessAssumption ==
    /\ N \in Nat \ {0}
    /\ IPs # {}
    /\ NoTag \notin IPs
    /\ CfgMaxAttempts \in Int /\ CfgRecheckMax \in Int
    /\ Stagger \in Nat

maxAttempts == IF CfgMaxAttempts <= 0 THEN 8 ELSE CfgMaxAttempts
recheckMax == IF CfgRecheckMax < 0 THEN 0 ELSE CfgRecheckMax
HasStagger == Stagger > 0

Backends == 1..N
Healths == {"healthy", "unhealthy", "unknown"}

(* The settings that steer the engine: UniqueEffortActive, whether it has  *)
(* a controller (e.ctl # nil, managed mode), and Strict.                   *)
Configs == [effort : BOOLEAN, managed : BOOLEAN, strict : BOOLEAN]

VARIABLES
    cfg,         \* the settings, fixed at start
    state,       \* health; healthy stands for degraded too, and unhealthy
                 \* for circuit_open, which the engine does not tell apart
    admit,       \* admission phase of each backend
    egress,      \* egressIPv4 tag of each backend
    tries,       \* uniqueTries of each backend
    firstOK,     \* some backend was admitted
    fastOn,      \* the fast ticker runs
    gate,        \* nextRetry of each backend: in the past or the future
    recheckN,    \* re-registrations made by rechecks
    staggered,   \* the stagger gap since lastRegStart is not over
    recent,      \* lastRecheck is less than recheckEvery ago
    cancelled,   \* the context is done
    pc, pass,    \* where the engine is, and in which of its loops
    cur,         \* the backend that loop is at
    seen,        \* recheck: the first owner of each address, 0 for none
    colliders,   \* recheck: the later owners
    regs         \* calls of Reregister for each backend (ReregAttempts)

beVars == <<state, admit, egress, tries>>
engVars == <<firstOK, fastOn, gate, recheckN, staggered, recent, regs>>
locVars == <<pc, pass, cur, seen, colliders>>
vars == <<cfg, beVars, engVars, cancelled, locVars>>

Unseen == [ip \in IPs |-> 0]

Init ==
    /\ cfg \in Configs
    /\ state = [i \in Backends |-> "unknown"]
    /\ admit = [i \in Backends |-> "warming"]
    /\ egress = [i \in Backends |-> NoTag]
    /\ tries = [i \in Backends |-> 0]
    /\ firstOK = FALSE /\ fastOn = TRUE
    /\ gate = [i \in Backends |-> "open"]
    /\ recheckN = [i \in Backends |-> 0]
    /\ staggered = FALSE /\ recent = FALSE /\ cancelled = FALSE
    /\ pc = "wait" /\ pass = "none" /\ cur = 1
    /\ seen = Unseen /\ colliders = {}
    /\ regs = [i \in Backends |-> 0]

-----------------------------------------------------------------------------
(* Run: the two tickers.  A select with several channels ready picks any,  *)
(* so a tick may still happen after the context is done.                   *)

TickFires(p) ==
    /\ pc = "wait"
    /\ p = "fast" => fastOn
    /\ pc' = "visit" /\ pass' = p /\ cur' = 1
    /\ UNCHANGED <<cfg, beVars, engVars, cancelled, seen, colliders>>

Stop ==
    /\ pc = "wait" /\ cancelled
    /\ pc' = "stopped"
    /\ UNCHANGED <<cfg, beVars, engVars, cancelled, pass, cur, seen,
                   colliders>>

(* Mutant of Resume: `seen` is a field of the engine and outlives the pass.*)
Resume_KeepsSeen ==
    /\ pc' = "wait" /\ pass' = "none" /\ cur' = 1
    /\ UNCHANGED seen /\ colliders' = {}

(* Back in Run: the recheck's locals are gone.                             *)
Resume ==
    /\ pc' = "wait" /\ pass' = "none" /\ cur' = 1
    /\ seen' = Unseen /\ colliders' = {}

(* A loop ends after its last backend, or at the next one when cancelled.  *)
LoopEnds == pc = "visit" /\ (cancelled \/ cur = N + 1)

(* A fast tick stops the fast ticker once a backend was admitted. *)
FastEnds ==
    /\ LoopEnds /\ pass = "fast"
    /\ Resume
    /\ fastOn' = (fastOn /\ ~firstOK)
    /\ UNCHANGED <<cfg, beVars, firstOK, gate, recheckN, staggered, recent,
                   regs, cancelled>>

(* A slow one goes on to recheckInPool, which does nothing without effort  *)
(* or controller, or when the last recheck is recent.                      *)
SlowEnds ==
    /\ LoopEnds /\ pass = "slow"
    /\ IF cfg.effort /\ cfg.managed /\ ~recent
       THEN /\ recent' = TRUE
            /\ pass' = "recheck" /\ cur' = 1
            /\ UNCHANGED <<pc, seen, colliders>>
       ELSE Resume /\ UNCHANGED recent
    /\ UNCHANGED <<cfg, beVars, firstOK, fastOn, gate, recheckN, staggered,
                   regs, cancelled>>

-----------------------------------------------------------------------------
(* The loops of tick and recheckInPool over the backends, in ID order.     *)

(* Mutant of Wanted: the tick probes only healthy backends, as the recheck *)
(* does.                                                                   *)
Wanted_Healthy(i) ==
    IF pass = "recheck"
    THEN admit[i] = "in_pool" /\ state[i] = "healthy"
    ELSE admit[i] = "warming" /\ gate[i] = "open" /\ state[i] = "healthy"

(* Which backends a pass probes: a tick those outside the pool that may be *)
(* retried and are not known to be down, a recheck the healthy members.    *)
Wanted(i) ==
    IF pass = "recheck"
    THEN admit[i] = "in_pool" /\ state[i] = "healthy"
    ELSE admit[i] = "warming" /\ gate[i] = "open" /\ state[i] # "unhealthy"

NextBackend == pc' = "visit" /\ cur' = cur + 1

Visit ==
    /\ pc = "visit" /\ cur \in Backends /\ ~cancelled
    /\ IF Wanted(cur) THEN pc' = "probe" /\ UNCHANGED cur ELSE NextBackend
    /\ UNCHANGED <<cfg, beVars, engVars, cancelled, pass, seen, colliders>>

ProbeFails ==
    /\ pc = "probe" /\ NextBackend
    /\ UNCHANGED <<cfg, beVars, engVars, cancelled, pass, seen, colliders>>

(* The probe of a tick came back with an address. *)
Judging(ip) == pc = "probe" /\ pass # "recheck" /\ ip \in IPs

SetAdmit(i, phase, ip) ==
    /\ admit' = [admit EXCEPT ![i] = phase]
    /\ egress' = IF ip = NoTag THEN egress ELSE [egress EXCEPT ![i] = ip]

(* The addresses of the pool, each with its last owner.                    *)
InPoolIPv4Set ==
    LET owners(ip) == {j \in Backends : admit[j] = "in_pool" /\ egress[j] = ip}
    IN  [ip \in {q \in IPs : owners(q) # {}} |->
            CHOOSE j \in owners(ip) : \A k \in owners(ip) : k <= j]

Taken(ip) ==
    ip \in DOMAIN InPoolIPv4Set /\ InPoolIPv4Set[ip] # cur

(* The first backend is admitted whatever its address, and all are when    *)
(* the effort is off.                                                      *)
AdmitUngated(ip) ==
    /\ Judging(ip) /\ (~firstOK \/ ~cfg.effort)
    /\ SetAdmit(cur, "in_pool", ip)
    /\ firstOK' = TRUE
    /\ NextBackend
    /\ UNCHANGED <<cfg, state, tries, fastOn, gate, recheckN, staggered,
                   recent, regs, cancelled, pass, seen, colliders>>

(* delete(nextRetry) drops an entry that Wanted found in the past. *)
AdmitUnique(ip) ==
    /\ Judging(ip) /\ firstOK /\ cfg.effort /\ ~Taken(ip)
    /\ SetAdmit(cur, "in_pool", ip)
    /\ NextBackend
    /\ UNCHANGED <<cfg, state, tries, engVars, cancelled, pass, seen,
                   colliders>>

-----------------------------------------------------------------------------
(* A duplicate address costs an attempt, whatever comes of it.             *)

Duplicate(ip) ==
    /\ Judging(ip) /\ firstOK /\ cfg.effort /\ Taken(ip)
    /\ tries' = [tries EXCEPT ![cur] = @ + 1]

(* Attempts used up, or no controller to re-register with: best effort     *)
(* admits the backend all the same, strict mode parks it.                  *)
Residual(ip) ==
    /\ Duplicate(ip)
    /\ tries[cur] + 1 > maxAttempts \/ ~cfg.managed
    /\ SetAdmit(cur, IF cfg.strict THEN "parked" ELSE "in_pool", ip)
    /\ NextBackend
    /\ UNCHANGED <<cfg, state, engVars, cancelled, pass, seen, colliders>>

(* Mutant of Retry: off by one, one attempt more than the budget.          *)
Retry_OffByOne(ip) ==
    Duplicate(ip) /\ tries[cur] <= maxAttempts /\ cfg.managed

Retry(ip) ==
    Duplicate(ip) /\ tries[cur] + 1 <= maxAttempts /\ cfg.managed

(* tryReregister.  Its semaphore is never full: the engine is its only     *)
(* user and holds e.mu.                                                    *)
CloseGate(i) == gate' = [gate EXCEPT ![i] = "closed"]

Defer(ip) ==
    /\ Retry(ip) /\ staggered
    /\ CloseGate(cur)
    /\ NextBackend
    /\ UNCHANGED <<cfg, state, admit, egress, firstOK, fastOn, recheckN,
                   staggered, recent, regs, cancelled, pass, seen, colliders>>

CallReregister(i) ==
    /\ ~staggered
    /\ staggered' = HasStagger
    /\ regs' = [regs EXCEPT ![i] = @ + 1]
    /\ pc' = "rereg"

TryReregister(ip) ==
    /\ Retry(ip) /\ CallReregister(cur)
    /\ UNCHANGED <<cfg, state, admit, egress, firstOK, fastOn, gate, recheckN,
                   recent, cancelled, pass, cur, seen, colliders>>

(* What the caller does when tryReregister returns true: back off, and in  *)
(* a recheck count the registration and end the pass.                      *)
Mark ==
    /\ CloseGate(cur)
    /\ IF pass = "recheck"
       THEN Resume /\ recheckN' = [recheckN EXCEPT ![cur] = @ + 1]
       ELSE NextBackend /\ UNCHANGED <<recheckN, pass, seen, colliders>>

ReregisterFails ==
    /\ pc = "rereg" /\ Mark
    /\ UNCHANGED <<cfg, beVars, firstOK, fastOn, staggered, recent, regs,
                   cancelled>>

(* On success the pool is told in two calls: ForceState, then SetWarming,  *)
(* which keeps the old egress tag.                                         *)
ReregisterOK ==
    /\ pc = "rereg"
    /\ state' = [state EXCEPT ![cur] = "unknown"]
    /\ pc' = "warm"
    /\ UNCHANGED <<cfg, admit, egress, tries, engVars, cancelled, pass, cur,
                   seen, colliders>>

SetWarming ==
    /\ pc = "warm"
    /\ SetAdmit(cur, "warming", NoTag) /\ Mark
    /\ UNCHANGED <<cfg, state, tries, firstOK, fastOn, staggered, recent,
                   regs, cancelled>>

-----------------------------------------------------------------------------
(* recheckInPool.                                                          *)

(* A probe refreshes the tag of a member; the first owner of an address in *)
(* ID order keeps it, the others collide.                                  *)
Refresh(ip) ==
    /\ pc = "probe" /\ pass = "recheck" /\ ip \in IPs
    /\ SetAdmit(cur, "in_pool", ip)
    /\ IF seen[ip] \notin {0, cur}
       THEN colliders' = colliders \cup {cur} /\ UNCHANGED seen
       ELSE seen' = [seen EXCEPT ![ip] = cur] /\ UNCHANGED colliders
    /\ NextBackend
    /\ UNCHANGED <<cfg, state, tries, engVars, cancelled, pass>>

ProbesOver ==
    /\ LoopEnds /\ pass = "recheck"
    /\ IF cancelled THEN Resume
       ELSE pc' = "collide" /\ UNCHANGED <<pass, cur, seen, colliders>>
    /\ UNCHANGED <<cfg, beVars, engVars, cancelled>>

(* The next collider: they were appended in ID order. *)
First(c) == c \in colliders /\ \A d \in colliders : c <= d

(* Over its budget, not to be retried yet, or deferred by the stagger.     *)
SkipCollider(c) ==
    /\ pc = "collide" /\ First(c) /\ recheckMax > 0
    /\ \/ recheckN[c] >= recheckMax /\ UNCHANGED gate
       \/ recheckN[c] < recheckMax /\ gate[c] = "closed" /\ UNCHANGED gate
       \/ /\ recheckN[c] < recheckMax /\ gate[c] = "open"
          /\ staggered /\ CloseGate(c)
    /\ colliders' = colliders \ {c}
    /\ UNCHANGED <<cfg, beVars, firstOK, fastOn, recheckN, staggered, recent,
                   regs, cancelled, pc, pass, cur, seen>>

(* Mutant of ReregisterCollider: off by one in the recheck budget.         *)
ReregisterCollider_OffByOne(c) ==
    /\ pc = "collide" /\ First(c) /\ recheckMax > 0
    /\ recheckN[c] <= recheckMax /\ gate[c] = "open"
    /\ CallReregister(c)
    /\ cur' = c
    /\ UNCHANGED <<cfg, beVars, firstOK, fastOn, gate, recheckN, recent,
                   cancelled, pass, seen, colliders>>

(* One registration per recheck: the pass ends with it (Mark).             *)
ReregisterCollider(c) ==
    /\ pc = "collide" /\ First(c) /\ recheckMax > 0
    /\ recheckN[c] < recheckMax /\ gate[c] = "open"
    /\ CallReregister(c)
    /\ cur' = c
    /\ UNCHANGED <<cfg, beVars, firstOK, fastOn, gate, recheckN, recent,
                   cancelled, pass, seen, colliders>>

RecheckEnds ==
    /\ pc = "collide" /\ (colliders = {} \/ recheckMax = 0)
    /\ Resume
    /\ UNCHANGED <<cfg, beVars, engVars, cancelled>>

-----------------------------------------------------------------------------
(* The surroundings.  They matter while the context is live: a cancelled   *)
(* engine only leaves the loop it is in, and a step of theirs that reaches *)
(* it there may as well have come before the cancellation.                 *)

(* MarkProbeOK, MarkFailure, ForceState by prober, handlers, supervisor    *)
(* and admin.                                                              *)
Health(i, s) ==
    /\ ~cancelled /\ state[i] # s
    /\ state' = [state EXCEPT ![i] = s]
    /\ UNCHANGED <<cfg, admit, egress, tries, engVars, cancelled, locVars>>

(* The context is cancelled; the engine looks at it in Run and at the top  *)
(* of its loops.  (A probe it cuts short is one that fails.)               *)
Cancel ==
    /\ pc \in {"wait", "visit"}
    /\ ~cancelled /\ cancelled' = TRUE
    /\ UNCHANGED <<cfg, beVars, engVars, locVars>>

(* Backoff over.  A tick reads the clock once, at its start: what passes   *)
(* during a tick passes, for it, after it.                                 *)
GateOpens(i) ==
    /\ ~cancelled /\ gate[i] = "closed"
    /\ pass \in {"none", "recheck"}
    /\ gate' = [gate EXCEPT ![i] = "open"]
    /\ UNCHANGED <<cfg, beVars, firstOK, fastOn, recheckN, staggered, recent,
                   regs, cancelled, locVars>>

StaggerOver ==
    /\ ~cancelled /\ staggered /\ staggered' = FALSE
    /\ UNCHANGED <<cfg, beVars, firstOK, fastOn, gate, recheckN, recent, regs,
                   cancelled, locVars>>

RecheckDue ==
    /\ ~cancelled /\ recent /\ recent' = FALSE
    /\ UNCHANGED <<cfg, beVars, firstOK, fastOn, gate, recheckN, staggered,
                   regs, cancelled, locVars>>

Stopped == pc = "stopped" /\ UNCHANGED vars

-----------------------------------------------------------------------------
Engine ==
    \/ \E p \in {"fast", "slow"} : TickFires(p)
    \/ Stop \/ FastEnds \/ SlowEnds \/ Visit \/ ProbeFails
    \/ \E ip \in IPs : \/ AdmitUngated(ip) \/ AdmitUnique(ip) \/ Residual(ip)
                       \/ Defer(ip) \/ TryReregister(ip) \/ Refresh(ip)
    \/ SetWarming \/ ProbesOver \/ RecheckEnds
    \/ \E c \in Backends : SkipCollider(c) \/ ReregisterCollider(c)

Surroundings ==
    \/ \E i \in Backends, s \in Healths : Health(i, s)
    \/ \E i \in Backends : GateOpens(i)
    \/ Cancel \/ StaggerOver \/ RecheckDue

Next ==
    \/ Engine \/ ReregisterFails \/ ReregisterOK \/ Stopped
    \/ Surroundings

Spec == Init /\ [][Next]_vars

(* Fairness.  The engine's goroutine runs, its tickers fire and its probes *)
(* end at their timeout, so its locals keep moving, except in Reregister:  *)
(* warp-cli is run without a timeout and may hang.                         *)
EngineRuns == []<>(pc \in {"rereg", "stopped"}) \/ []<><<TRUE>>_locVars

(* Time passes: a backoff ends, although a tick in progress does not see   *)
(* it.                                                                     *)
BackoffEnds(i) ==
    []<>(gate[i] = "open" \/ cancelled) \/ <>[](pass \in {"fast", "slow"})

FairSpec == Spec /\ EngineRuns /\ \A i \in Backends : BackoffEnds(i)

-----------------------------------------------------------------------------
(* Properties.                                                             *)

FlagsOK ==
    /\ cfg \in Configs
    /\ firstOK \in BOOLEAN /\ fastOn \in BOOLEAN
    /\ staggered \in BOOLEAN /\ recent \in BOOLEAN /\ cancelled \in BOOLEAN

DataOK ==
    /\ state \in [Backends -> Healths]
    /\ admit \in [Backends -> {"warming", "in_pool", "parked"}]
    /\ egress \in [Backends -> IPs \cup {NoTag}]
    /\ tries \in [Backends -> Nat]
    /\ gate \in [Backends -> {"open", "closed"}]
    /\ recheckN \in [Backends -> 0..recheckMax]
    /\ pc \in {"wait", "visit", "probe", "rereg", "warm", "collide", "stopped"}
    /\ pass \in {"none", "fast", "slow", "recheck"}
    /\ cur \in 1..(N + 1)
    /\ seen \in [IPs -> 0..N]
    /\ colliders \subseteq Backends
    /\ regs \in [Backends -> Nat]

TypeOK == FlagsOK /\ DataOK

(* "Never drops the whole pool": once a backend was admitted, some backend *)
(* is in the pool at every instant, whatever rechecks take out.            *)
NeverDropsWholePool == firstOK => \E i \in Backends : admit[i] = "in_pool"

(* A recheck takes a member out only while another member, which it has    *)
(* probed in the same pass, serves with the same address.                  *)
OnlyDuplicatesLeave ==
    [][\A i \in Backends : admit[i] = "in_pool" /\ admit'[i] = "warming" =>
        \E j \in Backends \ {i} :
            admit'[j] = "in_pool" /\ egress'[j] = egress[i]]_vars

(* The budgets bound what a backend costs Cloudflare: its registrations    *)
(* are at most MaxAttempts of ticks and RecheckMax of rechecks, and each   *)
(* recheck buys at most one more duplicate verdict.                        *)
BudgetsHold ==
    \A i \in Backends :
        /\ regs[i] <= maxAttempts + recheckMax
        /\ tries[i] <= maxAttempts + 1 + recheckN[i]

(* No backend is left warming: it is admitted or parked for good, unless   *)
(* the engine stops or hangs in warp-cli, or the backend keeps going down  *)
(* or failing its probes.                                                  *)
Settles ==
    \A i \in Backends :
        \/ <>[](admit[i] # "warming")
        \/ <>cancelled \/ <>[](pc = "rereg")
        \/ []<>(state[i] = "unhealthy")
        \/ []<><<ProbeFails /\ cur = i>>_vars
=============================================================================
