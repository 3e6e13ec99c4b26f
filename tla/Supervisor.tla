----------------------------- MODULE Supervisor -----------------------------
(***************************************************************************)
(* The control loop around one instance, over restarts of the process:     *)
(* main.go loads the configuration and starts                              *)
(*   - the bootstrap and the reconnect loop (internal/control/             *)
(*     supervisor.go),                                                     *)
(*   - the health prober (internal/health/health.go),                      *)
(*   - the uniqueness engine, reduced to its calls on this instance: when  *)
(*     it re-registers and admits is module Uniqueness's,                  *)
(* beside the proxied traffic and the admin API.  They meet only in the    *)
(* backend's record and in the controller.                                 *)
(*                                                                         *)
(* Probes, reads of the pool and the two timeouts have no schedule here:   *)
(* the interval, FailTimeout and OpenAfter are settings, and a round of    *)
(* probes waits for the slowest of all backends, so a failed probe may or  *)
(* may not come before the circuit it restamps can half-open.              *)
(***************************************************************************)
EXTENDS WarpController, Backend

CONSTANTS
    Id,                 \* the instance
    ReconnectFails,     \* cfg.Control.ReconnectFails
    HardRestartFails,   \* cfg.Control.HardRestartFails
    Inputs              \* flag, environment and files a start may find

(* What Load leaves to the control loop: the controller has the instances  *)
(* below Instances, the pool the backends of BackendAddrs.                 *)
Loaded(in) ==
    LET c == Settings(in) IN
    [up |-> TRUE, managed |-> c.Mode = "managed", org |-> c.Org # "none",
     force |-> ForceReregister(in.env), key |-> LicenseKeyFor(c, Id),
     unique |-> UniqueEffortActive(c), started |-> Id < c.Instances,
     pooled |-> \E i \in DOMAIN BackendAddrs(c) : BackendAddrs(c)[i].ID = Id]

ASSUME SupervisorAssumption ==
    /\ Id \in Nat
    /\ ReconnectFails \in 0..FailCap /\ HardRestartFails \in 0..FailCap
    /\ FailCap >= 3
    /\ \A in \in Inputs : LoadOK(in) => Loaded(in) \in Configs

VARIABLES
    phase,      \* of the process
    input,      \* what Load is about to read
    be,         \* the backend in the pool
    dialing,    \* some handler dials through it
    probe       \* the prober's goroutine for it

poolVars == <<be, dialing, probe>>
vars == <<ctlVars, phase, input, poolVars>>

Nothing == [flag |-> "none", env |-> <<>>, disk |-> <<>>]

Init ==
    /\ ControllerInit
    /\ phase = "down" /\ input = Nothing
    /\ be = NewBackend /\ dialing = FALSE /\ probe = "idle"

Up == phase = "up"

-----------------------------------------------------------------------------
(* Start and crash.                                                        *)

(* The operator may have edited everything while the process was down.     *)
Start ==
    /\ phase = "down"
    /\ phase' = "loading"
    /\ input' \in Inputs
    /\ UNCHANGED <<ctlVars, poolVars>>

Boot ==
    /\ phase = "loading" /\ LoadOK(input)
    /\ phase' = "up" /\ input' = Nothing
    /\ Begin(Loaded(input))
    /\ UNCHANGED poolVars

Refuse ==
    /\ phase = "loading" /\ ~LoadOK(input)
    /\ phase' = "down" /\ input' = Nothing
    /\ UNCHANGED <<ctlVars, poolVars>>

Crash ==
    /\ Up
    /\ phase' = "down"
    /\ End
    /\ be' = NewBackend /\ dialing' = FALSE /\ probe' = "idle"
    /\ UNCHANGED input

-----------------------------------------------------------------------------
(* The reconnect loop.                                                     *)

NeedsSoft == be.state \in {"unhealthy", "circuit_open"}
             /\ be.fails >= ReconnectFails
NeedsHard == be.fails >= HardRestartFails

(* Mutant of Tick: the soft remedy is looked for first, and an open circuit *)
(* always asks for it.                                                     *)
Tick_SoftFirst ==
    /\ Up /\ cfg.pooled
    /\ NeedsSoft \/ NeedsHard
    /\ Call("sup", IF NeedsSoft THEN "reconnect" ELSE "disconnect")
    /\ UNCHANGED <<phase, input, poolVars>>

(* tick: the snapshot decides; the call itself may come much later, after  *)
(* the restarts of the backends before it, and acts on that old snapshot.  *)
Tick ==
    /\ Up /\ cfg.pooled
    /\ NeedsSoft \/ NeedsHard
    /\ Call("sup", IF NeedsHard THEN "disconnect" ELSE "reconnect")
    /\ UNCHANGED <<phase, input, poolVars>>

(* A restart that succeeded makes the state unknown and keeps the count of *)
(* failures: without a good probe or a half-open circuit in between the    *)
(* next tick restarts again.                                               *)
Restarted ==
    /\ Up /\ Resume("sup")
    /\ be' = ForceState(be, "unknown")
    /\ UNCHANGED <<phase, input, dialing, probe>>

-----------------------------------------------------------------------------
(* The uniqueness engine's calls.                                          *)

CallReregister ==
    /\ Up /\ cfg.pooled /\ cfg.unique
    /\ Call("engine", "disconnect")
    /\ UNCHANGED <<phase, input, poolVars>>

Reregistered ==
    /\ Up /\ At("engine", "ok") /\ Resume("engine")
    /\ be' = ForceState(be, "unknown")
    /\ UNCHANGED <<phase, input, dialing, probe>>

SetWarming ==
    /\ Up /\ At("engine", "warm") /\ Resume("engine")
    /\ be' = SetAdmit(be, "warming")
    /\ UNCHANGED <<phase, input, dialing, probe>>

(* Its egress probe has just answered.  A parked backend is one that stays *)
(* warming here.                                                           *)
Admit ==
    /\ Up /\ cfg.pooled /\ At("engine", "idle") /\ be.admit = "warming" /\ link
    /\ be' = SetAdmit(be, "in_pool")
    /\ UNCHANGED <<ctlVars, phase, input, dialing, probe>>

-----------------------------------------------------------------------------
(* The prober.                                                             *)

(* The outcome of a probe, and the count of failures as it was then (that  *)
(* Fails() is a call of its own is in Pool).                               *)
Probe ==
    /\ Up /\ cfg.pooled /\ probe = "idle"
    /\ be' = IF link THEN MarkProbeOK(be) ELSE MarkProbeFail(be)
    /\ probe' = IF ~link /\ be'.fails >= 3 THEN "force" ELSE "idle"
    /\ UNCHANGED <<ctlVars, phase, input, dialing>>

(* Forced on what Fails() said, even after a success. *)
ProbeForce ==
    /\ Up /\ probe = "force"
    /\ be' = ForceState(be, "unhealthy")
    /\ probe' = "idle"
    /\ UNCHANGED <<ctlVars, phase, input, dialing>>

-----------------------------------------------------------------------------
(* The traffic, the admin API and time.                                    *)

(* IsSelectable half-opens the backend it is asked about: asked by a read  *)
(* of the pool, as a health or metrics request makes it and a Select that  *)
(* takes another backend, ...                                              *)
Query ==
    /\ Up /\ cfg.pooled
    /\ be' = AfterIsSelectable(be)
    /\ UNCHANGED <<ctlVars, phase, input, dialing, probe>>

(* ... and by the Select that takes this one. *)
Select ==
    /\ Up /\ cfg.pooled /\ Selectable(be)
    /\ be' = AfterIsSelectable(be)
    /\ dialing' = TRUE
    /\ UNCHANGED <<ctlVars, phase, input, probe>>

(* A proxied dial ends, others may still be under way.  Through a good     *)
(* link it can fail as well, on account of its target, and that counts     *)
(* against the backend all the same, open as it may be by now.             *)
Dial ==
    /\ Up /\ dialing
    /\ \/ link /\ be' = MarkSuccess(be)
       \/ be' = MarkFailure(be)
    /\ dialing' \in BOOLEAN
    /\ UNCHANGED <<ctlVars, phase, input, probe>>

(* POST /v1/reconnect/{id}: the state is reset, nothing is reconnected. *)
AdminReconnect ==
    /\ Up /\ cfg.pooled
    /\ be' = ForceState(be, "unknown")
    /\ UNCHANGED <<ctlVars, phase, input, dialing, probe>>

(* FailTimeout or OpenAfter runs out. *)
Elapse ==
    /\ Up /\ CanAge(be)
    /\ be' = Aged(be)
    /\ UNCHANGED <<ctlVars, phase, input, dialing, probe>>

-----------------------------------------------------------------------------
Next ==
    \/ Start \/ Boot \/ Refuse \/ Crash
    \/ Tick \/ Restarted
    \/ CallReregister \/ Reregistered \/ SetWarming \/ Admit
    \/ Probe \/ ProbeForce
    \/ Query \/ Select \/ Dial \/ AdminReconnect \/ Elapse
    \/ /\ Up
       /\ (\E a \in Callers : ControllerStep(a)) \/ SvcDies \/ LinkChanges
       /\ UNCHANGED <<phase, input, poolVars>>

Spec == Init /\ [][Next]_vars

(* A probe would change something. *)
ProbeDue == Up /\ cfg.pooled /\ probe = "idle" /\ (link => be # MarkProbeOK(be))

(* Fairness: the tickers of the prober and of the supervisor fire and      *)
(* a prober's goroutine runs; the supervisor's calls for other instances,  *)
(* which the same goroutine makes, return.  warp-cli and everybody else    *)
(* owe nothing to this one.                                                *)
(* Each line is the weak fairness of a step with its ENABLED spelled out;  *)
(* for a step that always leaves the states it is enabled in, leaving them *)
(* says it all.                                                            *)
Fairness ==
    /\ []<>~ProbeDue \/ []<><<Probe>>_vars
    /\ []<>~(Up /\ cfg.managed /\ cfg.pooled /\ At("sup", "idle")
             /\ (NeedsSoft \/ NeedsHard))
    /\ []<>(probe # "force")

FairSpec == Spec /\ Fairness

-----------------------------------------------------------------------------
(* Properties.                                                             *)

TypeOK ==
    /\ ControllerTypeOK
    /\ phase \in {"down", "loading", "up"} /\ cfg.up = Up
    /\ IF phase = "loading" THEN input \in Inputs ELSE input = Nothing
    /\ be \in innerState
    /\ be.state = "circuit_open" => be.fails >= MaxFails
    /\ dialing \in BOOLEAN /\ probe \in {"idle", "force"}

(* Of the two variables a field may have, the stronger one. *)
Stronger == [WARP_INSTANCES |-> "MULTI_WARP_INSTANCES",
             WARP_LICENSE_KEY |-> "WARP_LICENSE_KEYS"]

(* A configuration that is accepted takes every field from the strongest   *)
(* variable with a usable value, else from the file, else from the         *)
(* defaults -- an unusable value never shadows a usable one -- and leaves  *)
(* a pool that is not empty and no key beside an organization.             *)
LoadPrecedence ==
    phase = "loading" /\ LoadOK(input) =>
    LET c == Settings(input)
        path == ConfigPath(input.flag, input.env, input.disk)
        Usable == {row \in ToSet(Rows) : Effective(input.env, row)}
        Beaten(row) == /\ row[1] \in DOMAIN Stronger
                       /\ \E r \in Usable : r[1] = Stronger[row[1]]
    IN /\ \A row \in Usable :
              Beaten(row) \/ c[row[2]] = Parsed(row[3], input.env[row[1]])
       /\ \A f \in DOMAIN Default :
              \/ \E row \in Usable : row[2] = f
              \/ c[f] = IF path # "none" /\ f \in DOMAIN input.disk[path]
                        THEN input.disk[path][f] ELSE Default[f]
       /\ BackendAddrs(c) # <<>>
       /\ Loaded(input).org => Loaded(input).key = NoKey

(* IsSelectable half-opens the circuit and forgets the failures. *)
HalfOpens == be.state = "circuit_open" /\ be'.state = "degraded"

(* A managed instance that stays down for want of a registration is not    *)
(* forgotten: `registration new` is tried again and again, unless warp-cli *)
(* hangs in a call of the supervisor, no warp-svc can be spawned any more, *)
(* the process keeps crashing, or the circuit half-opens again and again.  *)
RegistrationRetried ==
    /\ <>[](Up /\ cfg.managed /\ cfg.pooled /\ ~cfg.org /\ ~reg /\ ~link)
    /\ []<>At("sup", "idle")
    /\ []<>At("sup", "spawn") => []<>At("sup", "configure")
    /\ <>[][~HalfOpens]_vars
    => []<>At("sup", "new")

(* A backend whose link is back does not stay out: whatever the prober,    *)
(* the supervisor or the engine do with an old verdict in hand, it is      *)
(* healthy again and again.                                                *)
Recovers ==
    <>[](Up /\ cfg.pooled /\ link) => []<>(be.state = "healthy")

(* A backend whose link stays down does not stay selectable, however often *)
(* it is restarted, admitted or reset.                                     *)
Quarantined ==
    <>[](Up /\ cfg.pooled /\ ~link) => []<>~Selectable(be)
=============================================================================
