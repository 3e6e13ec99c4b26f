-------------------------- MODULE UniquenessProofs --------------------------
(***************************************************************************)
(* Theorems about the uniqueness engine, for any number of backends, any   *)
(* addresses, any budgets and any settings: it never drops the whole pool, *)
(* takes out only duplicates, and keeps to its budgets.                    *)
(***************************************************************************)
EXTENDS Uniqueness, TLAPS

Registering == pc \in {"rereg", "warm"}

(* Where the engine is determines what it works on: the loops are at a     *)
(* backend, a tick handles a warming one, a recheck re-registers one of    *)
(* its colliders, and only a recheck has owners and colliders.             *)
PlaceInv ==
    /\ pc \in {"probe", "rereg", "warm"} => cur \in Backends
    /\ pc \in {"probe", "rereg", "warm"} /\ pass # "recheck" =>
           admit[cur] = "warming"
    /\ Registering /\ pass = "recheck" => cur \in colliders
    /\ pc \in {"wait", "stopped"} => pass = "none"
    /\ pc = "collide" => pass = "recheck"
    /\ pass # "recheck" => seen = Unseen /\ colliders = {}

(* The owners a recheck has seen are members with that address, and every  *)
(* collider has one before it.                                             *)
OwnersInv ==
    /\ \A ip \in IPs : seen[ip] # 0 =>
           admit[seen[ip]] = "in_pool" /\ egress[seen[ip]] = ip
    /\ \A c \in colliders :
           /\ admit[c] = "in_pool" /\ egress[c] \in IPs
           /\ seen[egress[c]] # 0 /\ seen[egress[c]] # c
    /\ pc \in {"visit", "probe"} =>
           /\ \A ip \in IPs : seen[ip] < cur
           /\ \A c \in colliders : c < cur

(* A registration is paid for by an attempt or by the recheck budget, the  *)
(* one under way included; only a recheck's registration lets a backend    *)
(* that was admitted be judged once more.                                  *)
Attempts(i) == IF tries[i] <= maxAttempts THEN tries[i] ELSE maxAttempts

UnderWay(i) ==
    IF Registering /\ pass = "recheck" /\ cur = i THEN 1 ELSE 0

BudgetInv ==
    \A i \in Backends :
        /\ recheckN[i] + UnderWay(i) <= recheckMax
        /\ regs[i] <= Attempts(i) + recheckN[i] + UnderWay(i)
        /\ tries[i] <= maxAttempts + 1 + recheckN[i]
        /\ admit[i] = "warming" => tries[i] <= maxAttempts + recheckN[i]

EngineInv ==
    TypeOK /\ PlaceInv /\ OwnersInv /\ BudgetInv /\ NeverDropsWholePool

(* What a step that neither moves the engine nor touches admissions leaves *)
(* alone.                                                                  *)
coreVars == <<cfg, admit, egress, tries, firstOK, recheckN, regs, locVars>>

-----------------------------------------------------------------------------
(* The effective budgets are natural numbers.                              *)
LEMMA Budgets == maxAttempts \in Nat /\ maxAttempts > 0 /\ recheckMax \in Nat
  BY UniquenessAssumption DEF UniquenessAssumption, maxAttempts, recheckMax

(* The owner of a collider's address is another member with that address.  *)
LEMMA CollidersHaveOwners ==
  ASSUME EngineInv, NEW c \in colliders
  PROVE  LET owner == seen[egress[c]]
         IN  /\ owner \in Backends /\ owner # c
             /\ admit[owner] = "in_pool" /\ egress[owner] = egress[c]
<1>1. /\ egress[c] \in IPs
      /\ seen[egress[c]] # 0 /\ seen[egress[c]] # c
  BY DEF EngineInv, OwnersInv
<1>2. seen[egress[c]] \in Backends
  BY <1>1, UniquenessAssumption
     DEF EngineInv, TypeOK, DataOK, Backends, UniquenessAssumption
<1> QED  BY <1>1, <1>2 DEF EngineInv, OwnersInv

(* Leaving a pass clears what its invariants speak of.                     *)
LEMMA ResumeClears ==
  ASSUME Resume PROVE PlaceInv' /\ OwnersInv'
  BY UniquenessAssumption
     DEF Resume, PlaceInv, OwnersInv, Unseen, Registering,
         UniquenessAssumption

(* Health, timers and the context do not disturb the invariant.            *)
LEMMA CoreUnchanged ==
  ASSUME EngineInv, TypeOK', UNCHANGED coreVars PROVE EngineInv'
  BY DEF EngineInv, coreVars, locVars, PlaceInv, OwnersInv, BudgetInv,
         NeverDropsWholePool, Registering, Attempts, UnderWay

(* The invariant holds at the start.                                       *)
LEMMA InvInit == ASSUME Init PROVE EngineInv
<1>1. FlagsOK
  BY Zenon DEF Init, FlagsOK
<1>5. DataOK
  BY UniquenessAssumption, Budgets
     DEF Init, DataOK, Backends, Healths, Unseen, NoTag, UniquenessAssumption
<1>2. PlaceInv /\ OwnersInv
  BY DEF Init, PlaceInv, OwnersInv, Unseen, Registering, Backends
<1>3. BudgetInv
  BY Budgets DEF Init, BudgetInv, Attempts, UnderWay, Registering
<1>4. NeverDropsWholePool
  BY DEF Init, NeverDropsWholePool
<1> QED  BY <1>1, <1>2, <1>3, <1>4, <1>5 DEF EngineInv, TypeOK


(* Positions of the loops.                                                 *)
LEMMA Positions ==
  /\ cur \in Backends => cur \in 1..(N + 1) /\ cur + 1 \in 1..(N + 1)
  /\ cur \in Backends => cur \in Int /\ cur > 0
  /\ 1 \in 1..(N + 1)
  /\ Backends \subseteq 1..N
  /\ Unseen \in [IPs -> 0..N]
  BY UniquenessAssumption DEF Backends, Unseen, UniquenessAssumption

(* The stagger flag is set to a truth value.                               *)
LEMMA StaggerFlag == HasStagger \in BOOLEAN
  BY DEF HasStagger

-----------------------------------------------------------------------------
(* One lemma per action.                                                   *)

(* A tick starts.                                                          *)
LEMMA TickFiresStep ==
  ASSUME EngineInv, NEW p \in {"fast", "slow"}, TickFires(p) PROVE EngineInv'
<1> USE Positions, Budgets DEF EngineInv, TypeOK, TickFires, beVars, engVars
<1>1. FlagsOK'
  BY Zenon DEF FlagsOK
<1>2. DataOK'
  BY DEF DataOK, PlaceInv
<1>3. PlaceInv'
  BY DEF DataOK, PlaceInv, Registering
<1>4. OwnersInv'
  BY DEF DataOK, PlaceInv, OwnersInv, Unseen
<1>5. BudgetInv'
  BY DEF DataOK, PlaceInv, BudgetInv, Attempts, UnderWay, Registering
<1>6. NeverDropsWholePool'
  BY DEF DataOK, PlaceInv, NeverDropsWholePool
<1> QED  BY <1>1, <1>2, <1>3, <1>4, <1>5, <1>6

(* The engine stops.                                                       *)
LEMMA StopStep ==
  ASSUME EngineInv, Stop PROVE EngineInv'
<1> USE Positions, Budgets DEF EngineInv, TypeOK, Stop, beVars, engVars
<1>1. FlagsOK'
  BY Zenon DEF FlagsOK
<1>2. DataOK'
  BY DEF DataOK, PlaceInv
<1>3. PlaceInv'
  BY DEF DataOK, PlaceInv, Registering
<1>4. OwnersInv'
  BY DEF DataOK, PlaceInv, OwnersInv, Unseen
<1>5. BudgetInv'
  BY DEF DataOK, PlaceInv, BudgetInv, Attempts, UnderWay, Registering
<1>6. NeverDropsWholePool'
  BY DEF DataOK, PlaceInv, NeverDropsWholePool
<1> QED  BY <1>1, <1>2, <1>3, <1>4, <1>5, <1>6

(* A fast tick ends.                                                       *)
LEMMA FastEndsStep ==
  ASSUME EngineInv, FastEnds PROVE EngineInv'
<1> USE Positions, Budgets DEF EngineInv, TypeOK, FastEnds, beVars
<1>1. FlagsOK'
  BY Zenon DEF FlagsOK
<1>2. DataOK'
  BY DEF DataOK, Resume
<1>3. PlaceInv'
  BY ResumeClears
<1>4. OwnersInv'
  BY ResumeClears
<1>5. BudgetInv'
  BY DEF DataOK, Resume, PlaceInv, LoopEnds, BudgetInv, Attempts, UnderWay,
         Registering
<1>6. NeverDropsWholePool'
  BY DEF DataOK, PlaceInv, NeverDropsWholePool
<1> QED  BY <1>1, <1>2, <1>3, <1>4, <1>5, <1>6

(* A slow tick ends and a recheck begins, or not.                          *)
LEMMA SlowEndsStep ==
  ASSUME EngineInv, SlowEnds PROVE EngineInv'
<1> USE Positions, Budgets DEF EngineInv, TypeOK, SlowEnds, LoopEnds, beVars
<1>1. FlagsOK'
  BY Zenon DEF FlagsOK
<1>2. DataOK'
  BY DEF DataOK, Resume
<1>3. PlaceInv'
  BY ResumeClears DEF DataOK, PlaceInv, Registering
<1>4. OwnersInv'
  <2>1. CASE Resume
    BY <2>1, ResumeClears
  <2>2. CASE ~Resume
    <3>1. cur' = 1 /\ seen' = Unseen /\ colliders' = {}
      BY <2>2 DEF PlaceInv
    <3> QED  BY <3>1 DEF OwnersInv, Unseen
  <2> QED  BY <2>1, <2>2
<1>5. BudgetInv'
  BY DEF DataOK, Resume, PlaceInv, BudgetInv, Attempts, UnderWay, Registering
<1>6. NeverDropsWholePool'
  BY DEF DataOK, PlaceInv, NeverDropsWholePool
<1> QED  BY <1>1, <1>2, <1>3, <1>4, <1>5, <1>6

(* A loop looks at a backend.                                              *)
LEMMA VisitStep ==
  ASSUME EngineInv, Visit PROVE EngineInv'
<1> USE Positions, Budgets
    DEF EngineInv, TypeOK, Visit, NextBackend, beVars, engVars
<1>1. FlagsOK'
  BY Zenon DEF FlagsOK
<1>2. DataOK'
  BY DEF DataOK, PlaceInv
<1>3. PlaceInv'
  BY DEF DataOK, PlaceInv, Registering, Wanted
<1>4. OwnersInv'
  BY DEF DataOK, PlaceInv, OwnersInv, Unseen
<1>5. BudgetInv'
  BY DEF DataOK, PlaceInv, BudgetInv, Attempts, UnderWay, Registering
<1>6. NeverDropsWholePool'
  BY DEF DataOK, PlaceInv, NeverDropsWholePool
<1> QED  BY <1>1, <1>2, <1>3, <1>4, <1>5, <1>6

(* A probe fails.                                                          *)
LEMMA ProbeFailsStep ==
  ASSUME EngineInv, ProbeFails PROVE EngineInv'
<1> USE Positions, Budgets
    DEF EngineInv, TypeOK, ProbeFails, NextBackend, beVars, engVars
<1>1. FlagsOK'
  BY Zenon DEF FlagsOK
<1>2. DataOK'
  BY DEF DataOK, PlaceInv
<1>3. PlaceInv'
  BY DEF DataOK, PlaceInv, Registering
<1>4. OwnersInv'
  BY DEF DataOK, PlaceInv, OwnersInv, Unseen
<1>5. BudgetInv'
  BY DEF DataOK, PlaceInv, BudgetInv, Attempts, UnderWay, Registering
<1>6. NeverDropsWholePool'
  BY DEF DataOK, PlaceInv, NeverDropsWholePool
<1> QED  BY <1>1, <1>2, <1>3, <1>4, <1>5, <1>6

(* The first backend is admitted.                                          *)
LEMMA AdmitUngatedStep ==
  ASSUME EngineInv, NEW ip \in IPs, AdmitUngated(ip) PROVE EngineInv'
<1> USE Positions, Budgets
    DEF EngineInv, TypeOK, AdmitUngated, Judging, SetAdmit, NextBackend
<1>1. FlagsOK'
  BY Zenon DEF FlagsOK
<1>2. DataOK'
  BY DEF DataOK, PlaceInv
<1>3. PlaceInv'
  BY DEF DataOK, PlaceInv, Registering
<1>4. OwnersInv'
  BY DEF DataOK, PlaceInv, OwnersInv, Unseen
<1>5. BudgetInv'
  BY DEF DataOK, PlaceInv, BudgetInv, Attempts, UnderWay, Registering
<1>6. NeverDropsWholePool'
  BY DEF DataOK, PlaceInv, NeverDropsWholePool
<1> QED  BY <1>1, <1>2, <1>3, <1>4, <1>5, <1>6

(* A backend with an address of its own is admitted.                       *)
LEMMA AdmitUniqueStep ==
  ASSUME EngineInv, NEW ip \in IPs, AdmitUnique(ip) PROVE EngineInv'
<1> USE Positions, Budgets
    DEF EngineInv, TypeOK, AdmitUnique, engVars, Judging, SetAdmit, NextBackend
<1>1. FlagsOK'
  BY Zenon DEF FlagsOK
<1>2. DataOK'
  BY DEF DataOK, PlaceInv
<1>3. PlaceInv'
  BY DEF DataOK, PlaceInv, Registering
<1>4. OwnersInv'
  BY DEF DataOK, PlaceInv, OwnersInv, Unseen
<1>5. BudgetInv'
  BY DEF DataOK, PlaceInv, BudgetInv, Attempts, UnderWay, Registering
<1>6. NeverDropsWholePool'
  BY DEF DataOK, PlaceInv, NeverDropsWholePool
<1> QED  BY <1>1, <1>2, <1>3, <1>4, <1>5, <1>6

(* A duplicate is admitted or parked for good.                             *)
LEMMA ResidualStep ==
  ASSUME EngineInv, NEW ip \in IPs, Residual(ip) PROVE EngineInv'
<1> USE Positions, Budgets
    DEF EngineInv, TypeOK, Residual, Duplicate, engVars, Judging, SetAdmit,
        NextBackend
<1>1. FlagsOK'
  BY Zenon DEF FlagsOK
<1>2. DataOK'
  BY DEF DataOK, PlaceInv
<1>3. PlaceInv'
  BY DEF DataOK, PlaceInv, Registering
<1>4. OwnersInv'
  BY DEF DataOK, PlaceInv, OwnersInv, Unseen
<1>5. BudgetInv'
  BY DEF DataOK, PlaceInv, BudgetInv, Attempts, UnderWay, Registering
<1>6. NeverDropsWholePool'
  BY DEF DataOK, PlaceInv, NeverDropsWholePool
<1> QED  BY <1>1, <1>2, <1>3, <1>4, <1>5, <1>6

(* A re-registration is deferred.                                          *)
LEMMA DeferStep ==
  ASSUME EngineInv, NEW ip \in IPs, Defer(ip) PROVE EngineInv'
<1> USE Positions, Budgets
    DEF EngineInv, TypeOK, Defer, Retry, Duplicate, CloseGate, Judging,
        NextBackend
<1>1. FlagsOK'
  BY Zenon DEF FlagsOK
<1>2. DataOK'
  BY DEF DataOK, PlaceInv
<1>3. PlaceInv'
  BY DEF DataOK, PlaceInv, Registering
<1>4. OwnersInv'
  BY DEF DataOK, PlaceInv, OwnersInv, Unseen
<1>5. BudgetInv'
  BY DEF DataOK, PlaceInv, BudgetInv, Attempts, UnderWay, Registering
<1>6. NeverDropsWholePool'
  BY DEF DataOK, PlaceInv, NeverDropsWholePool
<1> QED  BY <1>1, <1>2, <1>3, <1>4, <1>5, <1>6

(* A re-registration starts.                                               *)
LEMMA TryReregisterStep ==
  ASSUME EngineInv, NEW ip \in IPs, TryReregister(ip) PROVE EngineInv'
<1> USE Positions, Budgets
    DEF EngineInv, TypeOK, TryReregister, Retry, Duplicate, CallReregister,
        Judging
<1>1. FlagsOK'
  BY StaggerFlag, Zenon DEF FlagsOK
<1>2. DataOK'
  BY DEF DataOK, PlaceInv
<1>3. PlaceInv'
  BY DEF DataOK, PlaceInv, Registering
<1>4. OwnersInv'
  BY DEF DataOK, PlaceInv, OwnersInv, Unseen
<1>5. BudgetInv'
  BY DEF DataOK, PlaceInv, BudgetInv, Attempts, UnderWay, Registering
<1>6. NeverDropsWholePool'
  BY DEF DataOK, PlaceInv, NeverDropsWholePool
<1> QED  BY <1>1, <1>2, <1>3, <1>4, <1>5, <1>6

(* The backend is reset.                                                   *)
LEMMA ReregisterOKStep ==
  ASSUME EngineInv, ReregisterOK PROVE EngineInv'
<1> USE Positions, Budgets DEF EngineInv, TypeOK, ReregisterOK, engVars
<1>1. FlagsOK'
  BY Zenon DEF FlagsOK
<1>2. DataOK'
  BY DEF DataOK, PlaceInv, Healths
<1>3. PlaceInv'
  BY DEF DataOK, PlaceInv, Registering
<1>4. OwnersInv'
  BY DEF DataOK, PlaceInv, OwnersInv, Unseen
<1>5. BudgetInv'
  BY DEF DataOK, PlaceInv, BudgetInv, Attempts, UnderWay, Registering
<1>6. NeverDropsWholePool'
  BY DEF DataOK, PlaceInv, NeverDropsWholePool
<1> QED  BY <1>1, <1>2, <1>3, <1>4, <1>5, <1>6

(* A registration failed.                                                  *)
LEMMA ReregisterFailsStep ==
  ASSUME EngineInv, ReregisterFails PROVE EngineInv'
<1> USE Positions, Budgets
    DEF EngineInv, TypeOK, ReregisterFails, Mark, CloseGate, beVars
<1>1. FlagsOK'
  BY Zenon DEF FlagsOK
<1>2. DataOK'
  <2>1. cur \in Backends
    BY DEF PlaceInv
  <2>2. CASE pass = "recheck"
    <3>1. recheckN[cur] + 1 \in 0..recheckMax
      BY <2>1, <2>2 DEF DataOK, BudgetInv, UnderWay, Registering
    <3> QED  BY <2>1, <2>2, <3>1 DEF DataOK, Resume
  <2>3. CASE pass # "recheck"
    BY <2>1, <2>3 DEF DataOK, NextBackend
  <2> QED  BY <2>2, <2>3
<1>3. PlaceInv'
  BY ResumeClears DEF DataOK, PlaceInv, NextBackend, Registering
<1>4. OwnersInv'
  <2>1. CASE pass = "recheck"
    BY <2>1, ResumeClears
  <2>2. CASE pass # "recheck"
    <3>1. seen' = Unseen /\ colliders' = {} /\ cur' = cur + 1
      BY <2>2 DEF PlaceInv, NextBackend
    <3>2. cur \in Int /\ cur > 0
      BY DEF PlaceInv
    <3> QED  BY <3>1, <3>2 DEF OwnersInv, Unseen
  <2> QED  BY <2>1, <2>2
<1>5. BudgetInv'
  BY DEF DataOK, PlaceInv, Resume, NextBackend, BudgetInv, Attempts,
         UnderWay, Registering
<1>6. NeverDropsWholePool'
  BY DEF DataOK, PlaceInv, OwnersInv, NeverDropsWholePool, Registering
<1> QED  BY <1>1, <1>2, <1>3, <1>4, <1>5, <1>6

(* A re-registered backend leaves the pool; the owner of its address stays.*)
LEMMA SetWarmingStep ==
  ASSUME EngineInv, SetWarming PROVE EngineInv'
<1> USE Positions, Budgets
    DEF EngineInv, TypeOK, SetWarming, Mark, CloseGate, SetAdmit
<1>1. FlagsOK'
  BY Zenon DEF FlagsOK
<1>2. DataOK'
  <2>1. cur \in Backends
    BY DEF PlaceInv
  <2>2. CASE pass = "recheck"
    <3>1. recheckN[cur] + 1 \in 0..recheckMax
      BY <2>1, <2>2 DEF DataOK, BudgetInv, UnderWay, Registering
    <3> QED  BY <2>1, <2>2, <3>1 DEF DataOK, Resume
  <2>3. CASE pass # "recheck"
    BY <2>1, <2>3 DEF DataOK, NextBackend
  <2> QED  BY <2>2, <2>3
<1>3. PlaceInv'
  BY ResumeClears DEF DataOK, PlaceInv, NextBackend, Registering
<1>4. OwnersInv'
  <2>1. CASE pass = "recheck"
    BY <2>1, ResumeClears
  <2>2. CASE pass # "recheck"
    <3>1. seen' = Unseen /\ colliders' = {} /\ cur' = cur + 1
      BY <2>2 DEF PlaceInv, NextBackend
    <3>2. cur \in Int /\ cur > 0
      BY DEF PlaceInv
    <3> QED  BY <3>1, <3>2 DEF OwnersInv, Unseen
  <2> QED  BY <2>1, <2>2
<1>5. BudgetInv'
  BY DEF DataOK, PlaceInv, Resume, NextBackend, BudgetInv, Attempts,
         UnderWay, Registering
<1>6. NeverDropsWholePool'
  <2>1. cur \in Backends
    BY DEF PlaceInv
  <2>2. CASE pass = "recheck"
    <3> DEFINE owner == seen[egress[cur]]
    <3>1. owner \in Backends /\ owner # cur /\ admit[owner] = "in_pool"
      BY <2>2, CollidersHaveOwners DEF PlaceInv, Registering
    <3> QED  BY <2>1, <3>1 DEF DataOK, NeverDropsWholePool
  <2>3. CASE pass # "recheck"
    BY <2>1, <2>3 DEF DataOK, PlaceInv, NeverDropsWholePool
  <2> QED  BY <2>2, <2>3
<1> QED  BY <1>1, <1>2, <1>3, <1>4, <1>5, <1>6

(* A recheck refreshes a tag and finds a collision.                        *)
LEMMA RefreshStep ==
  ASSUME EngineInv, NEW ip \in IPs, Refresh(ip) PROVE EngineInv'
<1> USE Positions, Budgets
    DEF EngineInv, TypeOK, Refresh, SetAdmit, NextBackend, engVars
<1>1. FlagsOK'
  BY Zenon DEF FlagsOK
<1>2. DataOK'
  <2>1. cur \in Backends /\ cur \in 0..N
    BY DEF PlaceInv, Backends
  <2>2. seen' \in [IPs -> 0..N] /\ colliders' \subseteq Backends
    BY <2>1 DEF DataOK
  <2> QED  BY <2>1, <2>2 DEF DataOK
<1>3. PlaceInv'
  BY DEF DataOK, PlaceInv, Registering
<1>4. OwnersInv'
  <2>1. /\ cur \in Backends /\ cur \in Int /\ cur > 0
        /\ ip # NoTag
        /\ egress' = [egress EXCEPT ![cur] = ip]
        /\ admit' = [admit EXCEPT ![cur] = "in_pool"]
        /\ pc' = "visit" /\ cur' = cur + 1
    BY UniquenessAssumption DEF PlaceInv, UniquenessAssumption
  <2>2. /\ \A q \in IPs : seen[q] \in Int /\ seen[q] < cur
        /\ \A c \in colliders : c \in Int /\ c < cur
    BY DEF OwnersInv, DataOK, Backends
  <2>3. \A c \in colliders' : c \in colliders \/ c = cur
    OBVIOUS
  <2>4. \A q \in IPs : seen'[q] = seen[q] \/ seen'[q] = cur
    BY DEF DataOK
  <2>5. ASSUME NEW q \in IPs, seen'[q] # 0
        PROVE  admit'[seen'[q]] = "in_pool" /\ egress'[seen'[q]] = q
    <3>1. CASE seen'[q] = cur
      <4>1. q = ip
        BY <2>2, <3>1 DEF DataOK
      <4> QED  BY <2>1, <3>1, <4>1 DEF DataOK
    <3>2. CASE seen'[q] # cur
      <4>1. seen'[q] = seen[q] /\ seen[q] \in Backends
        BY <2>4, <2>5, <3>2 DEF DataOK, Backends
      <4> QED  BY <2>1, <2>5, <3>2, <4>1 DEF OwnersInv, DataOK
    <3> QED  BY <3>1, <3>2
  <2>6. ASSUME NEW c \in colliders'
        PROVE  /\ admit'[c] = "in_pool" /\ egress'[c] \in IPs
               /\ seen'[egress'[c]] # 0 /\ seen'[egress'[c]] # c
    <3>1. CASE c = cur
      BY <2>1, <2>2, <3>1 DEF DataOK
    <3>2. CASE c # cur
      <4>1. c \in colliders /\ c \in Backends
        BY <2>3, <3>2 DEF DataOK
      <4>2. admit'[c] = admit[c] /\ egress'[c] = egress[c]
        BY <2>1, <3>2, <4>1 DEF DataOK
      <4>3. seen[egress[c]] # 0 /\ egress[c] \in IPs /\ seen[egress[c]] # c
        BY <4>1 DEF OwnersInv
      <4>4. seen'[egress[c]] = seen[egress[c]] \/ seen'[egress[c]] = cur
        BY <2>4, <4>3
      <4> QED  BY <2>1, <3>2, <4>1, <4>2, <4>3, <4>4 DEF OwnersInv
    <3> QED  BY <3>1, <3>2
  <2>7. /\ \A q \in IPs : seen'[q] < cur'
        /\ \A c \in colliders' : c < cur'
    BY <2>1, <2>2, <2>3, <2>4
  <2> QED  BY <2>5, <2>6, <2>7 DEF OwnersInv
<1>5. BudgetInv'
  BY DEF DataOK, PlaceInv, BudgetInv, Attempts, UnderWay, Registering
<1>6. NeverDropsWholePool'
  BY DEF DataOK, PlaceInv, NeverDropsWholePool
<1> QED  BY <1>1, <1>2, <1>3, <1>4, <1>5, <1>6

(* The probes of a recheck are over.                                       *)
LEMMA ProbesOverStep ==
  ASSUME EngineInv, ProbesOver PROVE EngineInv'
<1> USE Positions, Budgets
    DEF EngineInv, TypeOK, ProbesOver, LoopEnds, beVars, engVars
<1>1. FlagsOK'
  BY Zenon DEF FlagsOK
<1>2. DataOK'
  BY DEF DataOK, Resume
<1>3. PlaceInv'
  BY ResumeClears DEF DataOK, PlaceInv, Registering
<1>4. OwnersInv'
  BY ResumeClears DEF DataOK, OwnersInv
<1>5. BudgetInv'
  BY DEF DataOK, Resume, BudgetInv, Attempts, UnderWay, Registering
<1>6. NeverDropsWholePool'
  BY DEF DataOK, PlaceInv, NeverDropsWholePool
<1> QED  BY <1>1, <1>2, <1>3, <1>4, <1>5, <1>6

(* A collider is passed over.                                              *)
LEMMA SkipColliderStep ==
  ASSUME EngineInv, NEW c \in Backends, SkipCollider(c) PROVE EngineInv'
<1> USE Positions, Budgets
    DEF EngineInv, TypeOK, SkipCollider, CloseGate, First, beVars
<1>1. FlagsOK'
  BY Zenon DEF FlagsOK
<1>2. DataOK'
  BY DEF DataOK, PlaceInv
<1>3. PlaceInv'
  BY DEF DataOK, PlaceInv, Registering
<1>4. OwnersInv'
  BY DEF DataOK, PlaceInv, OwnersInv, Unseen
<1>5. BudgetInv'
  BY DEF DataOK, PlaceInv, BudgetInv, Attempts, UnderWay, Registering
<1>6. NeverDropsWholePool'
  BY DEF DataOK, PlaceInv, NeverDropsWholePool
<1> QED  BY <1>1, <1>2, <1>3, <1>4, <1>5, <1>6

(* The registration of a collider starts.                                  *)
LEMMA ReregisterColliderStep ==
  ASSUME EngineInv, NEW c \in Backends, ReregisterCollider(c) PROVE EngineInv'
<1> USE Positions, Budgets
    DEF EngineInv, TypeOK, ReregisterCollider, CallReregister, First, beVars
<1>1. FlagsOK'
  BY StaggerFlag, Zenon DEF FlagsOK
<1>2. DataOK'
  <2>1. c \in 1..(N + 1)
    BY UniquenessAssumption DEF Backends, UniquenessAssumption
  <2> QED  BY <2>1 DEF DataOK
<1>3. PlaceInv'
  BY DEF DataOK, PlaceInv, Registering
<1>4. OwnersInv'
  BY DEF DataOK, PlaceInv, OwnersInv, Unseen
<1>5. BudgetInv'
  BY DEF DataOK, PlaceInv, BudgetInv, Attempts, UnderWay, Registering
<1>6. NeverDropsWholePool'
  BY DEF DataOK, PlaceInv, NeverDropsWholePool
<1> QED  BY <1>1, <1>2, <1>3, <1>4, <1>5, <1>6

(* A recheck ends.                                                         *)
LEMMA RecheckEndsStep ==
  ASSUME EngineInv, RecheckEnds PROVE EngineInv'
<1> USE Positions, Budgets DEF EngineInv, TypeOK, RecheckEnds, beVars, engVars
<1>1. FlagsOK'
  BY Zenon DEF FlagsOK
<1>2. DataOK'
  BY DEF DataOK, Resume
<1>3. PlaceInv'
  BY ResumeClears
<1>4. OwnersInv'
  BY ResumeClears
<1>5. BudgetInv'
  BY DEF DataOK, Resume, BudgetInv, Attempts, UnderWay, Registering
<1>6. NeverDropsWholePool'
  BY DEF DataOK, PlaceInv, NeverDropsWholePool
<1> QED  BY <1>1, <1>2, <1>3, <1>4, <1>5, <1>6

(* Health, timers and the context change nothing the invariant is about.   *)
LEMMA SurroundingsStep == ASSUME EngineInv, Surroundings PROVE EngineInv'
<1> USE DEF Surroundings, Health, GateOpens, Cancel, StaggerOver, RecheckDue
<1>1. FlagsOK'
  BY Zenon DEF EngineInv, TypeOK, FlagsOK, beVars, engVars, locVars
<1>2. DataOK'
  BY DEF EngineInv, TypeOK, DataOK, beVars, engVars, locVars
<1>3. UNCHANGED coreVars
  BY DEF coreVars, beVars, engVars, locVars
<1> QED  BY <1>1, <1>2, <1>3, CoreUnchanged DEF TypeOK

(* Every step of the engine and of its surroundings keeps the invariant.   *)
LEMMA InvStep == ASSUME EngineInv, [Next]_vars PROVE EngineInv'
<1>1. CASE Engine
  BY <1>1, TickFiresStep, StopStep, FastEndsStep, SlowEndsStep, VisitStep,
     ProbeFailsStep, AdmitUngatedStep, AdmitUniqueStep, ResidualStep,
     DeferStep, TryReregisterStep, RefreshStep, SetWarmingStep,
     ProbesOverStep, RecheckEndsStep, SkipColliderStep,
     ReregisterColliderStep
     DEF Engine
<1>2. CASE UNCHANGED vars
  <2>1. TypeOK'
    BY <1>2 DEF EngineInv, TypeOK, FlagsOK, DataOK, vars, beVars, engVars,
                locVars
  <2> QED  BY <1>2, <2>1, CoreUnchanged DEF coreVars, vars, beVars, engVars
<1> QED
  BY <1>1, <1>2, ReregisterFailsStep, ReregisterOKStep, SurroundingsStep
     DEF Next, Stopped

-----------------------------------------------------------------------------
(* The inductive invariant holds in every reachable state.                 *)
THEOREM EngineInvariant == Spec => []EngineInv
<1>1. Init => EngineInv
  BY InvInit
<1>2. EngineInv /\ [Next]_vars => EngineInv'
  BY InvStep
<1> QED  BY <1>1, <1>2, PTL DEF Spec

(* Type correctness: the budget of rechecks included, recheckN is at most  *)
(* RecheckMax.                                                             *)
THEOREM EngineTypes == Spec => []TypeOK
<1>1. EngineInv => TypeOK
  BY DEF EngineInv
<1> QED  BY <1>1, EngineInvariant, PTL

(* recheckInPool never drops the whole pool.                               *)
THEOREM PoolNeverEmptied == Spec => []NeverDropsWholePool
<1>1. EngineInv => NeverDropsWholePool
  BY DEF EngineInv
<1> QED  BY <1>1, EngineInvariant, PTL

(* Re-registrations and duplicate verdicts stay within the budgets.        *)
THEOREM BudgetsAreHard == Spec => []BudgetsHold
<1>1. ASSUME EngineInv PROVE BudgetsHold
  <2>1. ASSUME NEW i \in Backends
        PROVE  /\ regs[i] <= maxAttempts + recheckMax
               /\ tries[i] <= maxAttempts + 1 + recheckN[i]
    <3>1. recheckN[i] \in Nat /\ tries[i] \in Nat /\ regs[i] \in Nat
      BY <1>1, Budgets DEF EngineInv, TypeOK, DataOK
    <3>2. Attempts(i) \in Nat /\ Attempts(i) <= maxAttempts
      BY <3>1, Budgets DEF Attempts
    <3>3. UnderWay(i) \in {0, 1}
      BY DEF UnderWay
    <3>4. /\ recheckN[i] + UnderWay(i) <= recheckMax
          /\ regs[i] <= Attempts(i) + recheckN[i] + UnderWay(i)
          /\ tries[i] <= maxAttempts + 1 + recheckN[i]
      BY <1>1 DEF EngineInv, BudgetInv
    <3> QED  BY <3>1, <3>2, <3>3, <3>4, Budgets
  <2> QED  BY <2>1 DEF BudgetsHold
<1> QED  BY <1>1, EngineInvariant, PTL

(* The only step from in_pool to warming is a recheck's SetWarming, and    *)
(* the owner of the address stays in the pool.                             *)
LEMMA LeaveStep ==
  ASSUME EngineInv, [Next]_vars, NEW i \in Backends,
         admit[i] = "in_pool", admit'[i] = "warming"
  PROVE  \E j \in Backends \ {i} :
             admit'[j] = "in_pool" /\ egress'[j] = egress[i]
<1> USE DEF EngineInv, TypeOK
<1>1. CASE SetWarming
  <2>1. /\ cur \in Backends /\ egress' = egress
        /\ admit' = [admit EXCEPT ![cur] = "warming"]
    BY <1>1 DEF SetWarming, SetAdmit, PlaceInv
  <2>2. i = cur
    BY <2>1 DEF DataOK
  <2>3. cur \in colliders
    BY <1>1, <2>2 DEF SetWarming, PlaceInv, Registering
  <2>4. PICK j \in Backends : j # i /\ admit[j] = "in_pool"
                              /\ egress[j] = egress[i]
    BY <2>2, <2>3, CollidersHaveOwners
  <2> QED  BY <2>1, <2>2, <2>4 DEF DataOK
<1>2. CASE \E ip \in IPs : \/ AdmitUngated(ip) \/ AdmitUnique(ip)
                           \/ Residual(ip) \/ Refresh(ip)
  BY <1>2 DEF AdmitUngated, AdmitUnique, Residual, Refresh, SetAdmit, DataOK
<1>3. CASE UNCHANGED admit
  BY <1>3
<1>4. SetWarming \/ UNCHANGED admit
      \/ \E ip \in IPs : \/ AdmitUngated(ip) \/ AdmitUnique(ip)
                         \/ Residual(ip) \/ Refresh(ip)
  BY DEF Next, Engine, Surroundings, TickFires, Stop, FastEnds, SlowEnds,
         Visit, ProbeFails, Defer, TryReregister, ProbesOver, RecheckEnds,
         SkipCollider, ReregisterCollider, ReregisterFails, ReregisterOK,
         Health, GateOpens, Cancel, StaggerOver, RecheckDue, Stopped,
         vars, beVars
<1> QED  BY <1>1, <1>2, <1>3, <1>4

(* A recheck takes out only duplicates of a member that stays.             *)
THEOREM DuplicatesOnly == Spec => OnlyDuplicatesLeave
<1>1. EngineInv /\ [Next]_vars =>
        [\A i \in Backends : admit[i] = "in_pool" /\ admit'[i] = "warming" =>
            \E j \in Backends \ {i} :
                admit'[j] = "in_pool" /\ egress'[j] = egress[i]]_vars
  BY LeaveStep
<1> QED  BY <1>1, EngineInvariant, PTL DEF Spec, OnlyDuplicatesLeave
=============================================================================
