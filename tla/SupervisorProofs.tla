-------------------------- MODULE SupervisorProofs --------------------------
(***************************************************************************)
(* Proofs about WarpController and Supervisor, for any inputs a start may  *)
(* find, any instance and any thresholds.  Only ConfigPrecedence looks     *)
(* into what Load makes of an input: the other proofs hold whatever        *)
(* configuration it accepts.                                               *)
(***************************************************************************)
EXTENDS Supervisor, WellFoundedInduction, TLAPS

-----------------------------------------------------------------------------
(* The controller's inductive invariant.                                   *)

(* What the key file may hold. *)
Contents == assigned \cup {NoKey, Emptied, Torn}

(* What a start may have read when it gives a registration up. *)
Reasons == (assigned \ {cfg.key}) \cup {Emptied, Torn}

WorldOK == reg \in BOOLEAN /\ svc \in BOOLEAN /\ link \in BOOLEAN

(* Whoever is on its way to give the registration up has its reason, though *)
(* the key file may have changed since it was read.                        *)
Verdicts ==
    \A a \in Callers : pc[a] \in {"rmreg", "rmkey", "delete"} =>
        a = "engine" \/ cfg.force \/ prev[a] \in Reasons

ControllerInv ==
    /\ ControllerTypeOK
    /\ cfg.managed => cfg.key \in assigned \cup {NoKey}
    /\ Verdicts

LEMMA ControllerParts ==
    ControllerInv <=>
        /\ cfg \in Configs \cup {NotLoaded} /\ WorldOK
        /\ pc \in [Callers -> Points] /\ (~cfg.managed => pc = AllIdle)
        /\ applied \in Contents /\ prev \in [Callers -> Contents]
        /\ (applied = Emptied => \E a \in Callers : pc[a] = "write")
        /\ (cfg.managed => cfg.key \in assigned \cup {NoKey})
        /\ Verdicts
  BY DEF ControllerInv, ControllerTypeOK, WorldOK, Contents, At

LEMMA ControllerPartsAfter ==
    ( /\ cfg \in Configs \cup {NotLoaded} /\ WorldOK
      /\ pc \in [Callers -> Points] /\ (~cfg.managed => pc = AllIdle)
      /\ applied \in Contents /\ prev \in [Callers -> Contents]
      /\ (applied = Emptied => \E a \in Callers : pc[a] = "write")
      /\ (cfg.managed => cfg.key \in assigned \cup {NoKey})
      /\ Verdicts )' => ControllerInv'
  BY DEF ControllerInv, ControllerTypeOK, WorldOK, Contents, At

LEMMA Idle ==
    /\ AllIdle \in [Callers -> Points]
    /\ \A a \in Callers : AllIdle[a] = "idle"
  BY DEF AllIdle, Points

(* The configuration's type, and that its key is no marker. *)
LEMMA ConfigFacts ==
    ASSUME cfg \in Configs \cup {NotLoaded}
    PROVE  /\ cfg.managed \in BOOLEAN /\ cfg.org \in BOOLEAN
           /\ cfg.force \in BOOLEAN /\ cfg.up \in BOOLEAN
           /\ cfg.key \notin {Emptied, Torn}
           /\ (~cfg.up => cfg = NotLoaded)
<1>1. CASE cfg \in Configs
  BY <1>1, ControllerAssumption
<1>2. CASE cfg = NotLoaded
  BY <1>2 DEF NotLoaded, NoKey, Emptied, Torn
<1> QED
  BY <1>1, <1>2

(* Somebody is in a call only if the instance is managed. *)
LEMMA BusyIsManaged ==
    ASSUME ControllerInv, NEW a \in Callers, pc[a] # "idle"
    PROVE  cfg.managed
  BY ControllerParts, Idle

-----------------------------------------------------------------------------
(* The controller's steps.                                                 *)

(* A caller moves to p, and what that asks of the files. *)
LEMMA Moves ==
    ASSUME ControllerInv, cfg.managed, NEW a \in Callers, NEW p \in Points,
           Goto(a, p), UNCHANGED <<cfg, assigned>>, WorldOK',
           applied' \in Contents,
           \/ prev' = prev
           \/ \E v \in Contents : prev' = [prev EXCEPT ![a] = v],
           applied' = Emptied =>
               p = "write" \/ \E b \in Callers \ {a} : pc[b] = "write",
           p \in {"rmreg", "rmkey", "delete"} =>
               a = "engine" \/ cfg.force \/ prev'[a] \in Reasons
    PROVE  ControllerInv'
<1>p. /\ cfg \in Configs \cup {NotLoaded} /\ pc \in [Callers -> Points]
      /\ prev \in [Callers -> Contents]
      /\ cfg.key \in assigned \cup {NoKey} /\ Verdicts
  BY ControllerParts
<1>1. pc' = [pc EXCEPT ![a] = p]
  BY DEF Goto
<1>2. Contents' = Contents /\ Reasons' = Reasons
  BY DEF Contents, Reasons
<1>3. pc' \in [Callers -> Points] /\ pc'[a] = p
      /\ \A b \in Callers \ {a} : pc'[b] = pc[b]
  BY <1>p, <1>1
<1>4. prev' \in [Callers -> Contents]
      /\ \A b \in Callers \ {a} : prev'[b] = prev[b]
  BY <1>p
<1>5. applied' = Emptied => \E b \in Callers : pc'[b] = "write"
  BY <1>3
<1>6. Verdicts'
  BY <1>p, <1>2, <1>3, <1>4 DEF Verdicts
<1> QED
  BY <1>p, <1>2, <1>3, <1>4, <1>5, <1>6, ControllerPartsAfter

(* A step that leaves the key file and what was read of it alone, and is   *)
(* not on the way to give a registration up.                               *)
LEMMA QuietMove ==
    ASSUME ControllerInv, cfg.managed, NEW a \in Callers, NEW p \in Points,
           Goto(a, p), UNCHANGED <<cfg, assigned, applied, prev>>, WorldOK',
           pc[a] # "write",
           p \in {"rmreg", "rmkey", "delete"} =>
               a = "engine" \/ cfg.force \/ prev[a] \in Reasons
    PROVE  ControllerInv'
<1>1. applied' = Emptied =>
          p = "write" \/ \E b \in Callers \ {a} : pc[b] = "write"
  BY ControllerParts
<1>2. applied' \in Contents
  BY ControllerParts
<1> QED
  BY <1>1, <1>2, Moves

LEMMA StepKeeps ==
    ASSUME ControllerInv, NEW a \in Callers, ControllerStep(a)
    PROVE  ControllerInv'
<1>i. /\ cfg \in Configs \cup {NotLoaded} /\ WorldOK
      /\ applied \in Contents /\ prev \in [Callers -> Contents]
      /\ Verdicts
  BY ControllerParts
<1>c. /\ cfg.managed \in BOOLEAN /\ cfg.org \in BOOLEAN
      /\ cfg.key \notin {Emptied, Torn}
  BY <1>i, ConfigFacts
<1>k. {NoKey, Emptied, Torn} \subseteq Contents
  BY DEF Contents
<1>p. {"idle", "spawn", "configure", "rmreg", "rmkey", "delete", "stat", "new",
       "license", "open", "write", "connect", "ok"} \subseteq Points
  BY DEF Points
<1>v. pc[a] \in {"rmreg", "rmkey", "delete"} =>
          a = "engine" \/ cfg.force \/ prev[a] \in Reasons
  BY <1>i DEF Verdicts
<1>m. pc[a] # "idle" /\ cfg' = cfg /\ assigned' = assigned
  BY DEF ControllerStep, Spawn, ConfigureOrg, Forced, ReadKey, RemoveReg,
         RemoveKey, Delete, Stat, NewOK, NewExhausted, License, OpenKey,
         WriteKey, Connect, Disconnect, Reconnect, At
<1>b. cfg.managed
  BY <1>m, BusyIsManaged
<1>1. CASE Spawn(a)
  <2>1. /\ pc[a] # "write" /\ UNCHANGED <<applied, prev>>
        /\ reg' = reg /\ link' = link /\ (svc' = TRUE \/ svc' = svc)
        /\ (Goto(a, "configure") \/ Goto(a, "idle"))
    BY <1>1 DEF Spawn, At, ReturnErr
  <2> QED
    BY <1>i, <1>p, <1>m, <1>b, <2>1, QuietMove DEF WorldOK
<1>2. CASE ConfigureOrg(a)
  <2>1. /\ pc[a] # "write" /\ UNCHANGED <<applied, prev>>
        /\ reg' = reg /\ svc' = svc /\ (link' = link \/ link' = svc)
        /\ (Goto(a, "ok") \/ Goto(a, "idle"))
    BY <1>2 DEF ConfigureOrg, At, ReturnOK
  <2> QED
    BY <1>i, <1>p, <1>m, <1>b, <2>1, QuietMove DEF WorldOK
<1>3. CASE Forced(a)
  <2>1. /\ pc[a] # "write" /\ UNCHANGED <<applied, prev, reg, svc, link>>
        /\ cfg.force /\ Goto(a, "rmreg")
    BY <1>3 DEF Forced, At
  <2> QED
    BY <1>i, <1>p, <1>m, <1>b, <2>1, QuietMove DEF WorldOK
<1>4. CASE ReadKey(a)
  <2>1. /\ pc[a] # "write" /\ UNCHANGED <<applied, reg, svc, link>>
    BY <1>4 DEF ReadKey, At
  <2>2. CASE KeyChanged
    <3>1. prev' = [prev EXCEPT ![a] = applied] /\ Goto(a, "rmreg")
      BY <1>4, <2>2 DEF ReadKey
    <3>2. applied \in Reasons
      BY <1>i, <2>2 DEF KeyChanged, Contents, Reasons
    <3>3. prev'[a] \in Reasons
      BY <1>i, <3>1, <3>2
    <3>4. applied' = Emptied => \E b \in Callers \ {a} : pc[b] = "write"
      BY <2>1, ControllerParts
    <3> QED
      BY <1>i, <1>p, <1>m, <1>b, <2>1, <3>1, <3>3, <3>4, Moves DEF WorldOK
  <2>3. CASE ~KeyChanged
    BY <1>4, <1>i, <1>p, <1>m, <1>b, <2>1, <2>3, QuietMove DEF ReadKey, WorldOK
  <2> QED
    BY <2>2, <2>3
<1>5. CASE RemoveReg(a)
  <2>1. /\ pc[a] = "rmreg" /\ UNCHANGED <<applied, prev, svc, link>>
        /\ reg' = FALSE /\ (Goto(a, "rmkey") \/ Goto(a, "delete"))
    BY <1>5 DEF RemoveReg, At
  <2> QED
    BY <1>i, <1>p, <1>m, <1>b, <1>v, <2>1, QuietMove DEF WorldOK
<1>6. CASE RemoveKey(a)
  <2>1. /\ pc[a] = "rmkey" /\ UNCHANGED <<prev, reg, svc, link>>
        /\ applied' = NoKey /\ (Goto(a, "new") \/ Goto(a, "delete"))
    BY <1>6 DEF RemoveKey, At
  <2>2. NoKey # Emptied
    BY DEF NoKey, Emptied
  <2> QED
    BY <1>i, <1>k, <1>p, <1>m, <1>b, <1>v, <2>1, <2>2, Moves DEF WorldOK
<1>7. CASE Delete(a)
  <2>1. /\ pc[a] = "delete" /\ UNCHANGED <<applied, svc>>
        /\ (reg' = reg \/ reg' = FALSE) /\ (link' = link \/ link' = FALSE)
        /\ prev' = [prev EXCEPT ![a] = NoKey]
        /\ ((a = "engine" /\ Goto(a, "rmreg")) \/ Goto(a, "stat"))
    BY <1>7 DEF Delete, At
  <2>2. applied' = Emptied => \E b \in Callers \ {a} : pc[b] = "write"
    BY <2>1, ControllerParts
  <2> QED
    BY <1>i, <1>k, <1>p, <1>m, <1>b, <2>1, <2>2, Moves DEF WorldOK
<1>8. CASE Stat(a) \/ License(a)
  <2>1. /\ pc[a] # "write" /\ UNCHANGED <<applied, prev, reg, svc, link>>
        /\ \E p \in {"connect", "new", "open"} : Goto(a, p)
    BY <1>8 DEF Stat, License, At
  <2> QED
    BY <1>i, <1>p, <1>m, <1>b, <2>1, QuietMove DEF WorldOK
<1>9. CASE NewOK(a) \/ NewExhausted(a)
  <2>1. /\ pc[a] # "write" /\ UNCHANGED <<applied, prev, svc, link>>
        /\ (reg' = reg \/ reg' = TRUE)
        /\ \E p \in {"connect", "license", "idle"} : Goto(a, p)
    BY <1>9 DEF NewOK, NewExhausted, At, AfterNew, ReturnErr
  <2> QED
    BY <1>i, <1>p, <1>m, <1>b, <2>1, QuietMove DEF WorldOK
<1>10. CASE OpenKey(a)
  <2>1. /\ pc[a] # "write" /\ UNCHANGED <<prev, reg, svc, link>>
        /\ \/ applied' = Emptied /\ Goto(a, "write")
           \/ applied' = applied /\ Goto(a, "connect")
    BY <1>10 DEF OpenKey, At
  <2>2. CASE applied' = applied /\ Goto(a, "connect")
    BY <1>i, <1>p, <1>m, <1>b, <2>1, <2>2, QuietMove DEF WorldOK
  <2>3. CASE applied' = Emptied /\ Goto(a, "write")
    BY <1>i, <1>k, <1>p, <1>m, <1>b, <2>1, <2>3, Moves DEF WorldOK
  <2> QED
    BY <2>1, <2>2, <2>3
<1>11. CASE WriteKey(a)
  <2>1. /\ UNCHANGED <<prev, reg, svc, link>> /\ Goto(a, "connect")
        /\ \/ applied' = cfg.key
           \/ applied' = Torn
           \/ /\ applied' = applied
              /\ applied = Emptied => \E b \in Callers \ {a} : pc[b] = "write"
    BY <1>11 DEF WriteKey, At
  <2>2. applied' \in Contents
    BY <1>i, <1>k, <1>b, <2>1, ControllerParts DEF Contents
  <2>3. applied' = Emptied => \E b \in Callers \ {a} : pc[b] = "write"
    BY <1>c, <2>1 DEF Emptied, Torn
  <2> QED
    BY <1>i, <1>p, <1>m, <1>b, <2>1, <2>2, <2>3, Moves DEF WorldOK
<1>12. CASE Connect(a)
  <2>1. /\ pc[a] # "write" /\ UNCHANGED <<applied, prev, reg, svc>>
        /\ (link' = link \/ link' = reg)
        /\ (Goto(a, "ok") \/ Goto(a, "idle"))
    BY <1>12 DEF Connect, At, ReturnOK, ReturnErr
  <2> QED
    BY <1>i, <1>p, <1>m, <1>b, <2>1, QuietMove DEF WorldOK
<1>13. CASE Disconnect(a)
  <2>1. /\ pc[a] # "write" /\ UNCHANGED <<applied, prev, reg, svc>>
        /\ (link' = link \/ link' = FALSE)
        /\ ((a = "engine" /\ Goto(a, "delete")) \/ Goto(a, "spawn"))
    BY <1>13 DEF Disconnect, At
  <2> QED
    BY <1>i, <1>p, <1>m, <1>b, <2>1, QuietMove DEF WorldOK
<1>14. CASE Reconnect(a)
  <2>1. /\ pc[a] # "write" /\ UNCHANGED <<applied, prev, reg, svc>>
        /\ (link' = link \/ link' = (svc /\ (reg \/ cfg.org)))
        /\ Goto(a, "idle")
    BY <1>14 DEF Reconnect, At, ReturnErr
  <2>2. WorldOK'
    BY <1>i, <2>1, Zenon DEF WorldOK
  <2> QED
    BY <1>p, <1>m, <1>b, <2>1, <2>2, QuietMove
<1> QED
  BY <1>1, <1>2, <1>3, <1>4, <1>5, <1>6, <1>7, <1>8, <1>9, <1>10, <1>11,
     <1>12, <1>13, <1>14 DEF ControllerStep

LEMMA CallKeeps ==
    ASSUME ControllerInv,
           \/ Call("sup", "disconnect") \/ Call("sup", "reconnect")
           \/ Call("engine", "disconnect")
           \/ \E a \in Callers : Resume(a)
    PROVE  ControllerInv'
<1>1. \E a \in Callers, p \in {"disconnect", "reconnect", "warm", "idle"} :
          /\ Goto(a, p) /\ pc[a] # "write" /\ cfg.managed
          /\ UNCHANGED <<cfg, reg, applied, prev, svc, link, assigned>>
  <2>1. ASSUME NEW a \in Callers, Resume(a)
        PROVE  \E p \in {"warm", "idle"} :
                 /\ Goto(a, p) /\ pc[a] # "write" /\ cfg.managed
                 /\ UNCHANGED <<cfg, reg, applied, prev, svc, link, assigned>>
    <3>1. cfg.managed
      BY <2>1, BusyIsManaged DEF Resume
    <3> QED
      BY <2>1, <3>1 DEF Resume
  <2>2. "sup" \in Callers /\ "engine" \in Callers
    BY DEF Callers
  <2> QED
    BY <2>1, <2>2 DEF Call, At
<1>2. {"disconnect", "reconnect", "warm", "idle"} \subseteq Points
  BY DEF Points
<1>3. WorldOK'
  BY <1>1, ControllerParts DEF WorldOK
<1> QED
  BY <1>1, <1>2, <1>3, QuietMove

LEMMA BeginKeeps ==
    ASSUME ControllerInv, NEW c \in Configs, Begin(c)
    PROVE  ControllerInv'
<1>p. /\ cfg \in Configs \cup {NotLoaded} /\ WorldOK
      /\ (~cfg.managed => pc = AllIdle)
      /\ applied \in Contents /\ prev \in [Callers -> Contents]
      /\ (applied = Emptied => \E a \in Callers : pc[a] = "write")
  BY ControllerParts
<1>1. /\ ~cfg.up /\ cfg' = c
      /\ assigned' = IF c.managed THEN assigned \cup ({c.key} \ {NoKey})
                     ELSE assigned
      /\ UNCHANGED <<reg, applied, prev, svc, link>>
  BY DEF Begin
<1> DEFINE p == IF c.managed /\ c.started THEN "spawn" ELSE "idle"
<1>2. pc' = [AllIdle EXCEPT !["boot"] = p]
  BY DEF Begin
<1>3. applied # Emptied
  <2>1. cfg = NotLoaded
    BY <1>p, <1>1, ConfigFacts
  <2>2. pc = AllIdle
    BY <1>p, <2>1 DEF NotLoaded
  <2> QED
    BY <1>p, <2>2, Idle
<1>4. "boot" \in Callers /\ {"spawn", "idle"} \subseteq Points
  BY DEF Callers, Points
<1>5. p \in {"spawn", "idle"} /\ (~c.managed => p = "idle")
  OBVIOUS
<1> HIDE DEF p
<1>6. /\ pc' \in [Callers -> Points]
      /\ \A a \in Callers : pc'[a] \in {"spawn", "idle"}
      /\ ~c.managed => pc' = AllIdle
  BY <1>2, <1>4, <1>5, Idle
<1>7. Contents \subseteq Contents'
  BY <1>1 DEF Contents
<1>8. applied' \in Contents' /\ prev' \in [Callers -> Contents']
  BY <1>p, <1>1, <1>7
<1>9. Verdicts'
  BY <1>6 DEF Verdicts
<1>10. cfg'.managed => cfg'.key \in assigned' \cup {NoKey}
  BY <1>1
<1> QED
  BY <1>p, <1>1, <1>3, <1>6, <1>8, <1>9, <1>10, ControllerPartsAfter DEF WorldOK

LEMMA EndKeeps ==
    ASSUME ControllerInv, End
    PROVE  ControllerInv'
<1>p. WorldOK /\ applied \in Contents
  BY ControllerParts
<1>1. /\ cfg' = NotLoaded /\ pc' = AllIdle /\ prev' = NothingRead
      /\ applied' = IF applied = Emptied THEN Torn ELSE applied
      /\ (svc' = svc \/ svc' = FALSE) /\ (link' = link \/ link' = FALSE)
      /\ UNCHANGED <<reg, assigned>>
  BY DEF End
<1>2. applied' \in Contents' /\ applied' # Emptied
  BY <1>p, <1>1 DEF Contents, Emptied, Torn
<1>3. prev' \in [Callers -> Contents']
  BY <1>1 DEF NothingRead, Contents
<1>4. Verdicts'
  BY <1>1, Idle DEF Verdicts
<1>5. ~cfg'.managed
  BY <1>1 DEF NotLoaded
<1> QED
  BY <1>p, <1>1, <1>2, <1>3, <1>4, <1>5, Idle, ControllerPartsAfter DEF WorldOK

(* A step that concerns neither the callers nor the files. *)
LEMMA WorldKeeps ==
    ASSUME ControllerInv, UNCHANGED <<cfg, reg, applied, prev, pc, assigned>>,
           WorldOK'
    PROVE  ControllerInv'
<1>1. Contents' = Contents
  BY DEF Contents
<1>2. Verdicts'
  BY ControllerParts DEF Verdicts, Reasons
<1> QED
  BY <1>1, <1>2, ControllerParts, ControllerPartsAfter

LEMMA ControllerFirst == ControllerInit => ControllerInv
<1> SUFFICES ASSUME ControllerInit PROVE ControllerInv
  OBVIOUS
<1>1. WorldOK /\ applied \in Contents /\ applied # Emptied
      /\ prev \in [Callers -> Contents] /\ ~cfg.managed
  BY DEF ControllerInit, WorldOK, Contents, NothingRead, NoKey, Emptied,
         NotLoaded
<1>2. Verdicts
  BY Idle DEF ControllerInit, Verdicts
<1> QED
  BY <1>1, <1>2, Idle, ControllerParts DEF ControllerInit

LEMMA ControllerInduct ==
    ControllerInv /\ [ControllerNext]_ctlVars => ControllerInv'
<1> SUFFICES ASSUME ControllerInv, [ControllerNext]_ctlVars
             PROVE  ControllerInv'
  OBVIOUS
<1>w. WorldOK
  BY ControllerParts
<1>1. CASE UNCHANGED ctlVars
  BY <1>1, <1>w, WorldKeeps DEF ctlVars, WorldOK
<1>2. CASE SvcDies \/ LinkChanges
  <2>1. /\ UNCHANGED <<cfg, reg, applied, prev, pc, assigned>>
        /\ (svc' = svc \/ svc' = FALSE) /\ (link' = ~link \/ link' = FALSE)
    BY <1>2 DEF SvcDies, LinkChanges
  <2>2. WorldOK'
    BY <1>w, <2>1, Zenon DEF WorldOK
  <2> QED
    BY <2>1, <2>2, WorldKeeps
<1> QED
  BY <1>1, <1>2, StepKeeps, CallKeeps, BeginKeeps, EndKeeps DEF ControllerNext

(* What a single step may do to reg.json. *)
LEMMA RegistrationStep ==
    ASSUME ControllerInv, ControllerNext, reg, ~reg'
    PROVE  \E a \in Callers :
             /\ pc'[a] # pc[a] /\ pc[a] \in {"rmreg", "delete"}
             /\ (a = "engine" \/ cfg.force \/ prev[a] \in Reasons)
<1>1. \E a \in Callers : ControllerStep(a)
  BY DEF ControllerNext, Begin, End, Call, Resume, SvcDies, LinkChanges
<1>2. PICK a \in Callers : ControllerStep(a)
  BY <1>1
<1>3. RemoveReg(a) \/ Delete(a)
  BY <1>2 DEF ControllerStep, Spawn, ConfigureOrg, Forced, ReadKey, RemoveKey,
              Stat, NewOK, NewExhausted, License, OpenKey, WriteKey, Connect,
              Disconnect, Reconnect
<1>4. /\ pc[a] \in {"rmreg", "delete"}
      /\ \E p \in {"rmkey", "delete", "rmreg", "stat"} :
           p # pc[a] /\ pc' = [pc EXCEPT ![a] = p]
  BY <1>3 DEF RemoveReg, Delete, At, Goto
<1>5. pc \in [Callers -> Points] /\ Verdicts
  BY ControllerParts
<1>6. pc'[a] # pc[a]
  BY <1>4, <1>5
<1> QED
  BY <1>4, <1>5, <1>6 DEF Verdicts

-----------------------------------------------------------------------------
(* The backend's record.                                                   *)

(* An open circuit has its failures: another one stamps it again.          *)
Records == {b \in innerState : b.state = "circuit_open" => b.fails >= MaxFails}

LEMMA Thresholds ==
    /\ FailCap \in Nat /\ MaxFails \in 1..FailCap
    /\ \A f \in 0..FailCap : Bump(f) \in 0..FailCap /\ Bump(f) >= f
  BY BackendAssumption DEF MaxFails, Bump

LEMMA RecordFields ==
    ASSUME NEW b \in Records
    PROVE  /\ b \in innerState
           /\ b.state \in State /\ b.admit \in AdmitPhase
           /\ b.fails \in 0..FailCap /\ b.lastChange \in Age
           /\ b.openedAt \in Age \cup {"nil"}
           /\ b.state = "circuit_open" => b.fails >= MaxFails
  BY DEF Records, innerState

LEMMA RecordTypes ==
    /\ NewBackend \in Records
    /\ \A b \in Records :
         /\ MarkProbeOK(b) \in Records /\ MarkProbeFail(b) \in Records
         /\ MarkSuccess(b) \in Records /\ MarkFailure(b) \in Records
         /\ ForceState(b, "unknown") \in Records
         /\ ForceState(b, "unhealthy") \in Records
         /\ \A ph \in AdmitPhase : SetAdmit(b, ph) \in Records
         /\ AfterIsSelectable(b) \in Records
         /\ Aged(b) \in Records
<1>t. /\ {"unknown", "healthy", "degraded", "unhealthy", "circuit_open"}
             \subseteq State
      /\ "warming" \in AdmitPhase /\ {"fresh", "elapsed"} \subseteq Age
      /\ 0 \in 0..FailCap
  BY Thresholds DEF State, Age, AdmitPhase
<1>n. NewBackend \in Records
  BY <1>t DEF NewBackend, innerState, Records
<1> SUFFICES ASSUME NEW b \in Records
             PROVE  /\ MarkProbeOK(b) \in Records
                    /\ MarkProbeFail(b) \in Records
                    /\ MarkSuccess(b) \in Records
                    /\ MarkFailure(b) \in Records
                    /\ ForceState(b, "unknown") \in Records
                    /\ ForceState(b, "unhealthy") \in Records
                    /\ \A ph \in AdmitPhase : SetAdmit(b, ph) \in Records
                    /\ AfterIsSelectable(b) \in Records
                    /\ Aged(b) \in Records
  BY <1>n
<1>f. /\ b \in innerState
      /\ b.state \in State /\ b.admit \in AdmitPhase /\ b.fails \in 0..FailCap
      /\ b.lastChange \in Age /\ b.openedAt \in Age \cup {"nil"}
      /\ b.state = "circuit_open" => b.fails >= MaxFails
  BY RecordFields
<1>1. MarkProbeOK(b) \in Records
  <2>1. MarkProbeOK(b) =
          [b EXCEPT !.state = "healthy", !.admit = b.admit, !.fails = 0,
                    !.lastChange = "fresh", !.openedAt = "nil"]
    BY <1>f DEF MarkProbeOK, innerState
  <2> QED
    BY <1>t, <1>f, <2>1 DEF Records, innerState
<1>2. MarkSuccess(b) \in Records
  <2> DEFINE t == IF b.state = "healthy" THEN b.lastChange ELSE "fresh"
  <2>1. t \in Age
    BY <1>t, <1>f
  <2>2. MarkSuccess(b) =
          [b EXCEPT !.state = "healthy", !.admit = b.admit, !.fails = 0,
                    !.lastChange = t, !.openedAt = "nil"]
    BY <1>f DEF MarkSuccess, innerState
  <2> HIDE DEF t
  <2> QED
    BY <1>t, <1>f, <2>1, <2>2 DEF Records, innerState
<1>3. MarkFailure(b) \in Records
  <2> DEFINE f == Bump(b.fails)
             s == IF b.state \in {"healthy", "unknown"}
                  THEN "degraded" ELSE b.state
  <2>1. f \in 0..FailCap /\ f >= b.fails /\ s \in State
        /\ (s = "circuit_open" => b.state = "circuit_open")
    BY <1>t, <1>f, Thresholds
  <2>2. CASE f >= MaxFails
    <3>1. MarkFailure(b) =
            [b EXCEPT !.state = "circuit_open", !.admit = b.admit, !.fails = f,
                      !.lastChange = "fresh", !.openedAt = "fresh"]
      BY <1>f, <2>2 DEF MarkFailure, innerState
    <3> HIDE DEF f
    <3> QED
      BY <1>t, <1>f, <2>1, <2>2, <3>1 DEF Records, innerState
  <2>3. CASE ~(f >= MaxFails)
    <3>1. MarkFailure(b) =
            [b EXCEPT !.state = s, !.admit = b.admit, !.fails = f,
                      !.lastChange = "fresh", !.openedAt = b.openedAt]
      BY <1>f, <2>3 DEF MarkFailure, innerState
    <3>2. s # "circuit_open"
      BY <1>f, <2>1, <2>3, Thresholds
    <3> HIDE DEF f, s
    <3> QED
      BY <1>t, <1>f, <2>1, <3>1, <3>2 DEF Records, innerState
  <2> QED
    BY <2>2, <2>3
<1>4. MarkProbeFail(b) \in Records
  <2> DEFINE r == MarkFailure(b)
  <2>1. MarkProbeFail(b) = IF r.state = "degraded" /\ r.fails >= MaxFails
                           THEN [r EXCEPT !.state = "unhealthy"] ELSE r
    BY DEF MarkProbeFail
  <2>2. r \in Records
    BY <1>3
  <2> HIDE DEF r
  <2>3. [r EXCEPT !.state = "unhealthy"] \in Records
    BY <1>t, <2>2 DEF Records, innerState
  <2> QED
    BY <2>1, <2>2, <2>3
<1>5. ASSUME NEW s \in {"unknown", "unhealthy"}
      PROVE  ForceState(b, s) \in Records
  <2>1. ForceState(b, s) =
          [b EXCEPT !.state = s, !.admit = b.admit, !.fails = b.fails,
                    !.lastChange = "fresh", !.openedAt = b.openedAt]
    BY <1>f DEF ForceState, innerState
  <2> QED
    BY <1>t, <1>f, <2>1 DEF Records, innerState
<1>6. ASSUME NEW ph \in AdmitPhase PROVE SetAdmit(b, ph) \in Records
  <2>1. SetAdmit(b, ph) =
          [b EXCEPT !.state = b.state, !.admit = ph, !.fails = b.fails,
                    !.lastChange = "fresh", !.openedAt = b.openedAt]
    BY <1>f DEF SetAdmit, innerState
  <2> QED
    BY <1>t, <1>f, <2>1 DEF Records, innerState
<1>7. AfterIsSelectable(b) \in Records
  <2>1. \/ AfterIsSelectable(b) = b
        \/ AfterIsSelectable(b) =
             [b EXCEPT !.state = "degraded", !.admit = b.admit,
                       !.fails = b.fails, !.lastChange = "fresh",
                       !.openedAt = b.openedAt]
        \/ AfterIsSelectable(b) =
             [b EXCEPT !.state = "degraded", !.admit = b.admit, !.fails = 0,
                       !.lastChange = "fresh", !.openedAt = "nil"]
    BY <1>f DEF AfterIsSelectable, innerState
  <2> QED
    BY <1>t, <1>f, <2>1 DEF Records, innerState
<1>8. Aged(b) \in Records
  <2>1. CASE b.state = "unhealthy"
    <3>1. Aged(b) = [b EXCEPT !.lastChange = "elapsed"]
      BY <2>1 DEF Aged
    <3> QED
      BY <1>t, <1>f, <3>1 DEF Records, innerState
  <2>2. CASE b.state # "unhealthy"
    <3>1. Aged(b) = [b EXCEPT !.openedAt = "elapsed"]
      BY <2>2 DEF Aged
    <3> QED
      BY <1>t, <1>f, <3>1 DEF Records, innerState
  <2> QED
    BY <2>1, <2>2
<1> QED
  BY <1>1, <1>2, <1>3, <1>4, <1>5, <1>6, <1>7, <1>8

-----------------------------------------------------------------------------
(* The process and the pool.                                               *)

PhaseOK ==
    /\ phase \in {"down", "loading", "up"} /\ cfg.up = Up
    /\ IF phase = "loading" THEN input \in Inputs ELSE input = Nothing

PoolOK == be \in Records /\ dialing \in BOOLEAN /\ probe \in {"idle", "force"}

ControlInv == ControllerInv /\ PhaseOK /\ PoolOK

LEMMA ControlIsTyped == ControlInv => TypeOK
  BY DEF ControlInv, ControllerInv, PhaseOK, PoolOK, TypeOK, Records

(* No step of the controller, once begun, starts or ends the process.      *)
LEMMA StepKeepsConfig ==
    ASSUME \/ SvcDies \/ LinkChanges
           \/ \E a \in Callers : ControllerStep(a)
    PROVE  cfg' = cfg
  BY DEF SvcDies, LinkChanges, ControllerStep, Spawn, ConfigureOrg, Forced,
         ReadKey, RemoveReg, RemoveKey, Delete, Stat, NewOK, NewExhausted,
         License, OpenKey, WriteKey, Connect, Disconnect, Reconnect

LEMMA PhaseKeeps == PhaseOK /\ [Next]_vars => PhaseOK'
<1> SUFFICES ASSUME PhaseOK, [Next]_vars PROVE PhaseOK'
  OBVIOUS
<1>1. CASE UNCHANGED <<cfg, phase, input>>
  BY <1>1 DEF PhaseOK, Up
<1>2. CASE Start
  BY <1>2 DEF Start, ctlVars, PhaseOK, Up
<1>3. CASE Boot
  <2>1. Loaded(input).up = TRUE
    BY DEF Loaded
  <2> QED
    BY <1>3, <2>1 DEF Boot, Begin, PhaseOK, Up
<1>4. CASE Refuse
  BY <1>4 DEF Refuse, ctlVars, PhaseOK, Up
<1>5. CASE Crash
  BY <1>5 DEF Crash, End, NotLoaded, PhaseOK, Up
<1>6. CASE /\ Up
           /\ (\E a \in Callers : ControllerStep(a)) \/ SvcDies \/ LinkChanges
           /\ UNCHANGED <<phase, input, poolVars>>
  BY <1>1, <1>6, StepKeepsConfig
<1> QED
  BY <1>1, <1>2, <1>3, <1>4, <1>5, <1>6
  DEF Next, vars, ctlVars, Tick, Call, Restarted, Resume, CallReregister,
      Reregistered, SetWarming, Admit, Probe, ProbeForce, Query, Select, Dial,
      AdminReconnect, Elapse

LEMMA PoolKeeps == PoolOK /\ [Next]_vars => PoolOK'
<1> SUFFICES ASSUME PoolOK, [Next]_vars PROVE PoolOK'
  OBVIOUS
<1>1. be \in Records /\ dialing \in BOOLEAN /\ probe \in {"idle", "force"}
  BY DEF PoolOK
<1>2. {"warming", "in_pool"} \subseteq AdmitPhase
  BY DEF AdmitPhase
<1>3. CASE UNCHANGED poolVars
  BY <1>1, <1>3 DEF poolVars, PoolOK
<1>4. CASE Crash
  BY <1>4, RecordTypes DEF Crash, PoolOK
<1>5. CASE Restarted \/ Reregistered \/ AdminReconnect
  BY <1>1, <1>5, RecordTypes DEF Restarted, Reregistered, AdminReconnect, PoolOK
<1>6. CASE SetWarming \/ Admit
  BY <1>1, <1>2, <1>6, RecordTypes DEF SetWarming, Admit, PoolOK
<1>7. CASE Probe \/ ProbeForce
  BY <1>1, <1>7, RecordTypes DEF Probe, ProbeForce, PoolOK
<1>8. CASE Query \/ Select \/ Elapse
  BY <1>1, <1>8, RecordTypes DEF Query, Select, Elapse, PoolOK
<1>9. CASE Dial
  BY <1>1, <1>9, RecordTypes DEF Dial, PoolOK
<1> QED
  BY <1>3, <1>4, <1>5, <1>6, <1>7, <1>8, <1>9
  DEF Next, vars, Start, Boot, Refuse, Tick, CallReregister

(* Every step of the control loop is one of the controller's, or leaves    *)
(* the controller as it is.                                                *)
LEMMA StepRefines == PhaseOK /\ [Next]_vars => [ControllerNext]_ctlVars
<1> SUFFICES ASSUME PhaseOK, [Next]_vars PROVE [ControllerNext]_ctlVars
  OBVIOUS
<1>1. CASE Boot
  <2>1. Loaded(input) \in Configs
    BY <1>1, SupervisorAssumption DEF Boot, PhaseOK
  <2> QED
    BY <1>1, <2>1 DEF Boot, ControllerNext
<1>2. CASE Tick \/ CallReregister
  BY <1>2 DEF Tick, CallReregister, ControllerNext
<1>3. CASE Restarted \/ Reregistered \/ SetWarming
  <2>1. "sup" \in Callers /\ "engine" \in Callers
    BY DEF Callers
  <2> QED
    BY <1>3, <2>1 DEF Restarted, Reregistered, SetWarming, ControllerNext
<1>4. CASE Crash
  BY <1>4 DEF Crash, ControllerNext
<1>5. CASE /\ Up
           /\ (\E a \in Callers : ControllerStep(a)) \/ SvcDies \/ LinkChanges
           /\ UNCHANGED <<phase, input, poolVars>>
  BY <1>5 DEF PhaseOK, ControllerNext
<1> QED
  BY <1>1, <1>2, <1>3, <1>4, <1>5
  DEF Next, vars, Start, Refuse, Admit, Probe, ProbeForce, Query, Select, Dial,
      AdminReconnect, Elapse

LEMMA ControlInit == Init => ControllerInit /\ PhaseOK /\ PoolOK
<1>1. NotLoaded.up = FALSE
  BY DEF NotLoaded
<1>2. Init => PhaseOK
  BY <1>1 DEF Init, ControllerInit, PhaseOK, Up
<1>3. Init => PoolOK
  BY RecordTypes DEF Init, PoolOK
<1> QED
  BY <1>2, <1>3 DEF Init

LEMMA ControlNext == ControlInv /\ [Next]_vars => ControlInv'
  BY PhaseKeeps, PoolKeeps, StepRefines, ControllerInduct DEF ControlInv

-----------------------------------------------------------------------------
(* The prober's steps, for liveness.  The fairness of the control loop is  *)
(* stated on its states, so a liveness proof is propositional temporal     *)
(* logic over what a step does.                                            *)

(* Only the prober and a crash change where the prober is.                 *)
LEMMA ProbeMoves ==
    [Next]_vars => \/ UNCHANGED probe
                   \/ Probe \/ ProbeForce
                   \/ phase' = "down"
  BY DEF Next, vars, poolVars, Start, Boot, Refuse, Crash, Tick, Restarted,
         CallReregister, Reregistered, SetWarming, Admit, Query, Select, Dial,
         AdminReconnect, Elapse

(* What the temporal arguments are about: what a good link and a bad one   *)
(* come to.                                                                *)
Reached == Up /\ cfg.pooled /\ link
Cut == Up /\ cfg.pooled /\ ~link
Calm == probe = "idle"
Good == be.state = "healthy"
Out == ~Selectable(be)

(* Failures that no half-open takes back: the circuit is not open yet.     *)
Failed(k) == be.state # "circuit_open" /\ be.fails >= k

LEMMA ProberFair ==
    FairSpec => /\ Spec /\ []<>(probe # "force")
                /\ []<>~ProbeDue \/ []<><<Probe>>_vars
  BY PTL DEF FairSpec, Fairness

LEMMA ProberAt == ControlInv => (Calm <=> probe # "force")
  BY DEF ControlInv, PoolOK, Calm

(* A good probe has nothing to force, and leaves a healthy backend; none   *)
(* is due only when the backend is healthy already.                        *)
LEMMA GoodProbe ==
    /\ ControlInv /\ [Next]_vars /\ Reached /\ Reached' /\ Calm => Calm'
    /\ ControlInv /\ Reached /\ Calm /\ ~ProbeDue => Good
    /\ ControlInv /\ Reached /\ Probe => Good'
<1>1. ASSUME [Next]_vars, Reached, Reached', Calm PROVE Calm'
  <2>1. ~(phase' = "down") /\ link /\ probe = "idle"
    BY <1>1 DEF Reached, Up, Calm
  <2> QED
    BY <1>1, <2>1, ProbeMoves DEF Probe, ProbeForce, Calm
<1>2. ASSUME ControlInv PROVE MarkProbeOK(be).state = "healthy"
  BY <1>2, RecordFields DEF ControlInv, PoolOK, MarkProbeOK, innerState
<1> QED
  BY <1>1, <1>2 DEF ProbeDue, Reached, Calm, Good, Probe

(* A failure opens the circuit anew, or it counts.                         *)
LEMMA FailureCounts ==
    ASSUME NEW b \in Records,
           NEW r \in {MarkFailure(b), MarkProbeFail(b)}
    PROVE  \/ ~Selectable(r)
           \/ /\ b.state # "circuit_open" /\ r.state # "circuit_open"
              /\ r.fails = Bump(b.fails)
<1>1. /\ b \in innerState /\ b.state \in State
      /\ (b.state = "circuit_open" => b.fails >= MaxFails)
      /\ MaxFails \in Nat /\ b.fails \in Nat
      /\ Bump(b.fails) \in Nat /\ Bump(b.fails) >= b.fails
  BY RecordFields, Thresholds
<1>2. CASE Bump(b.fails) >= MaxFails
  <2>1. MarkFailure(b).state = "circuit_open"
        /\ MarkFailure(b).openedAt = "fresh"
    BY <1>1, <1>2 DEF MarkFailure, innerState
  <2>2. r = MarkFailure(b)
    BY <2>1 DEF MarkProbeFail
  <2> QED
    BY <2>1, <2>2 DEF Selectable
<1>3. CASE ~(Bump(b.fails) >= MaxFails)
  <2>1. b.state # "circuit_open"
    BY <1>1, <1>3
  <2>2. MarkFailure(b).fails = Bump(b.fails)
        /\ MarkFailure(b).state # "circuit_open"
    BY <1>1, <1>3, <2>1 DEF MarkFailure, innerState
  <2>3. r = MarkFailure(b)
    BY <1>3, <2>2 DEF MarkProbeFail
  <2> QED
    BY <2>1, <2>2, <2>3
<1> QED
  BY <1>2, <1>3

(* What failures there are stay counted while the link is down, or the     *)
(* backend is taken out.                                                   *)
LEMMA FailuresStay ==
    ASSUME ControlInv, [Next]_vars, Cut, Cut', NEW k \in Nat, Failed(k)
    PROVE  Failed(k)' \/ Out'
<1>1. /\ be \in Records /\ be \in innerState
      /\ be.state # "circuit_open" /\ be.fails >= k /\ be.fails \in Nat
      /\ Bump(be.fails) >= be.fails /\ Bump(be.fails) \in Nat
  BY RecordFields, Thresholds DEF ControlInv, PoolOK, Failed
<1>2. ~link /\ Up /\ ~(phase' = "down")
  BY DEF Cut, Up
<1>3. CASE UNCHANGED be
  BY <1>3 DEF Failed
<1>4. CASE Restarted \/ Reregistered \/ SetWarming \/ ProbeForce
           \/ AdminReconnect
  <2>1. ASSUME NEW s \in {"unknown", "unhealthy"}
        PROVE  ForceState(be, s).fails = be.fails /\ ForceState(be, s).state = s
    BY <1>1 DEF ForceState, innerState
  <2>2. SetAdmit(be, "warming").fails = be.fails
        /\ SetAdmit(be, "warming").state = be.state
    BY <1>1 DEF SetAdmit, innerState
  <2> QED
    BY <1>1, <1>4, <2>1, <2>2 DEF Restarted, Reregistered, SetWarming,
       ProbeForce, AdminReconnect, Failed
<1>5. CASE Query \/ Select \/ Elapse
  <2>1. AfterIsSelectable(be).fails = be.fails
        /\ AfterIsSelectable(be).state # "circuit_open"
    BY <1>1 DEF AfterIsSelectable, innerState
  <2>2. Aged(be).fails = be.fails /\ Aged(be).state = be.state
    BY <1>1 DEF Aged, innerState
  <2> QED
    BY <1>1, <1>5, <2>1, <2>2 DEF Query, Select, Elapse, Failed
<1>6. CASE Probe \/ Dial
  <2>1. be' \in {MarkFailure(be), MarkProbeFail(be)}
    BY <1>2, <1>6 DEF Probe, Dial
  <2>2. Out' \/ (be'.state # "circuit_open" /\ be'.fails = Bump(be.fails))
    BY <1>1, <2>1, FailureCounts DEF Out
  <2> QED
    BY <1>1, <2>2 DEF Failed
<1> QED
  BY <1>2, <1>3, <1>4, <1>5, <1>6
  DEF Next, Start, Boot, Refuse, Crash, Tick, CallReregister, Admit, Up, vars,
      poolVars

(* Each failing probe takes the backend out or counts one more, and the    *)
(* third is forced.                                                        *)
LEMMA FailuresCount ==
    ControlInv /\ Cut /\ Probe =>
      \/ Out'
      \/ /\ Failed(1)'
         /\ Failed(1) => Failed(2)'
         /\ Failed(2) => (~Calm)'
<1> SUFFICES ASSUME ControlInv, Cut, Probe, ~Out'
             PROVE  /\ Failed(1)'
                    /\ Failed(1) => Failed(2)'
                    /\ Failed(2) => (~Calm)'
  OBVIOUS
<1>1. be \in Records /\ be.fails \in 0..FailCap
  BY RecordFields DEF ControlInv, PoolOK
<1>2. be' = MarkProbeFail(be) /\ probe' = IF be'.fails >= 3 THEN "force" ELSE "idle"
  BY DEF Probe, Cut
<1>3. be'.state # "circuit_open" /\ be'.fails = Bump(be.fails)
  BY <1>1, <1>2, FailureCounts DEF Out
<1>4. FailCap \in Nat /\ FailCap >= 3
  BY SupervisorAssumption, BackendAssumption
<1> QED
  BY <1>1, <1>2, <1>3, <1>4 DEF Failed, Bump, Calm

(* A verdict that is forced takes the backend out.                         *)
LEMMA BadProbe ==
    /\ [Next]_vars /\ Cut' /\ ~Calm /\ ControlInv => (~Calm)' \/ Out'
    /\ Cut /\ Calm => ProbeDue
<1>1. ASSUME [Next]_vars, Cut', ~Calm, ControlInv, Calm' PROVE Out'
  <2>1. probe = "force" /\ probe' = "idle" /\ ~(phase' = "down")
    BY <1>1, ProberAt DEF Cut, Up, Calm
  <2>2. ProbeForce
    BY <1>1, <2>1, ProbeMoves DEF Probe
  <2>3. be \in innerState
    BY <1>1, RecordFields DEF ControlInv, PoolOK
  <2> QED
    BY <2>2, <2>3 DEF ProbeForce, ForceState, Selectable, innerState, Out
<1> QED
  BY <1>1 DEF Cut, Calm, ProbeDue

-----------------------------------------------------------------------------
(* Load.  applyEnv is a recursion over its rows: what it computes is found *)
(* by looking at the first row after which it would not hold.              *)

(* The natural numbers are well founded. *)
LEMMA LeastNat ==
    ASSUME NEW T \in SUBSET Nat, T # {}
    PROVE  \E x \in T : \A y \in T : x <= y
<1>1. PICK x \in T : \A y \in T : <<y, x>> \notin OpToRel(<, Nat)
  BY WFMin, NatLessThanWellFounded, Zenon
<1>2. \A y \in T : ~(y < x)
  BY <1>1 DEF OpToRel
<1> QED
  BY <1>2

(* g gives what applyEnv has made of c after each of its first n rows. *)
Steps(g, c, env, n) ==
    g = [k \in 0..n |-> IF k = 0 THEN c ELSE Override(g[k - 1], env, Rows[k])]

(* Two rows that set the same field are a variable and its stronger one,   *)
(* the stronger one later.                                                 *)
LEMMA RowFacts ==
    /\ Len(Rows) = 32
    /\ \A i \in 1..32 : Rows[i][2] \in DOMAIN Default
    /\ \A i, j \in 1..32 : i < j /\ Rows[i][2] = Rows[j][2] =>
         /\ Rows[i][1] \in DOMAIN Stronger
         /\ Stronger[Rows[i][1]] = Rows[j][1]
    /\ ToSet(Rows) = {Rows[i] : i \in 1..32}
    /\ \A i \in 1..32 : Rows[i][2] = "Instances" =>
                          i \in {1, 2} /\ Rows[i][3] = "int"
<1>1. Len(Rows) = 32 /\ DOMAIN Rows = 1..32
  BY DEF Rows
<1>2. \A i \in 1..32 : Rows[i][2] \in DOMAIN Default
  BY SMTT(60) DEF Rows, Default
<1>3. \A i, j \in 1..32 : i < j /\ Rows[i][2] = Rows[j][2] =>
          (i = 1 /\ j = 2) \/ (i = 11 /\ j = 12)
  BY SMTT(60) DEF Rows
<1>4. /\ Rows[1][1] = "WARP_INSTANCES" /\ Rows[2][1] = "MULTI_WARP_INSTANCES"
      /\ Rows[11][1] = "WARP_LICENSE_KEY" /\ Rows[12][1] = "WARP_LICENSE_KEYS"
  BY DEF Rows
<1>5. \A i, j \in 1..32 : i < j /\ Rows[i][2] = Rows[j][2] =>
         /\ Rows[i][1] \in DOMAIN Stronger
         /\ Stronger[Rows[i][1]] = Rows[j][1]
  <2>1. /\ Rows[1][1] \in DOMAIN Stronger /\ Stronger[Rows[1][1]] = Rows[2][1]
        /\ Rows[11][1] \in DOMAIN Stronger /\ Stronger[Rows[11][1]] = Rows[12][1]
    BY <1>4 DEF Stronger
  <2> QED
    BY <1>3, <2>1
<1>6. \A i \in 1..32 : Rows[i][2] = "Instances" =>
                          i \in {1, 2} /\ Rows[i][3] = "int"
  BY SMTT(60) DEF Rows
<1> QED
  BY <1>1, <1>2, <1>5, <1>6 DEF ToSet

(* The recursion is well defined, so applyEnv is what its last step gives. *)
LEMMA StepsExist ==
    ASSUME NEW c, NEW env, NEW n \in Nat
    PROVE  \E g : Steps(g, c, env, n)
<1> DEFINE T == {m \in Nat : ~\E g : Steps(g, c, env, m)}
<1> SUFFICES ASSUME T # {} PROVE FALSE
  OBVIOUS
<1>1. PICK m \in T : \A y \in T : m <= y
  BY LeastNat
<1>2. CASE m = 0
  <2> DEFINE g == [k \in 0..0 |-> c]
  <2>1. Steps(g, c, env, 0)
    BY DEF Steps
  <2> QED
    BY <1>1, <1>2, <2>1
<1>3. CASE m # 0
  <2>1. m - 1 \in Nat /\ m - 1 \notin T
    BY <1>1, <1>3
  <2>2. PICK g : Steps(g, c, env, m - 1)
    BY <2>1
  <2> DEFINE F == [k \in 0..m |-> IF k = m THEN Override(g[m - 1], env, Rows[m])
                                  ELSE g[k]]
  <2>3. ASSUME NEW k \in 0..m
        PROVE  F[k] = IF k = 0 THEN c ELSE Override(F[k - 1], env, Rows[k])
    <3>1. CASE k = m
      BY <1>1, <1>3, <3>1
    <3>2. CASE k # m
      <4>1. k \in 0..(m - 1)
        BY <1>1, <3>2
      <4>2. g[k] = IF k = 0 THEN c ELSE Override(g[k - 1], env, Rows[k])
        BY <2>2, <4>1 DEF Steps
      <4>3. F[k] = g[k] /\ (k # 0 => F[k - 1] = g[k - 1])
        BY <1>1, <4>1
      <4> QED
        BY <4>2, <4>3
    <3> QED
      BY <3>1, <3>2
  <2>4. F = [k \in 0..m |-> IF k = 0 THEN c
                            ELSE Override(F[k - 1], env, Rows[k])]
    <3> DEFINE H == [k \in 0..m |-> IF k = 0 THEN c
                                    ELSE Override(F[k - 1], env, Rows[k])]
    <3>1. \A k \in 0..m : F[k] = H[k]
      BY <2>3
    <3> QED
      BY <3>1
  <2>5. Steps(F, c, env, m)
    BY <2>4 DEF Steps
  <2> QED
    BY <1>1, <2>5
<1> QED
  BY <1>2, <1>3

LEMMA EnvSteps ==
    ASSUME NEW c, NEW env
    PROVE  \E g : Steps(g, c, env, Len(Rows)) /\ applyEnv(c, env) = g[Len(Rows)]
<1> DEFINE a == CHOOSE g : Steps(g, c, env, Len(Rows))
<1>1. Steps(a, c, env, Len(Rows))
  BY StepsExist, RowFacts
<1>2. applyEnv(c, env) = a[Len(Rows)]
  BY DEF applyEnv, Steps
<1> QED
  BY <1>1, <1>2

(* The row takes effect on the field. *)
Hits(env, j, f) == Effective(env, Rows[j]) /\ Rows[j][2] = f

IsRecord(v) == v = [f \in DOMAIN v |-> v[f]]

(* What a field holds after k rows: the value of the last of them that     *)
(* took effect on it, or what it held before.                              *)
LastWins(v, c, env, k) ==
    /\ IsRecord(v) /\ DOMAIN v = DOMAIN c
    /\ \A f \in DOMAIN c : (\A j \in 1..k : ~Hits(env, j, f)) => v[f] = c[f]
    /\ \A j \in 1..k :
         ( /\ Effective(env, Rows[j])
           /\ \A i \in (j + 1)..k : ~Hits(env, i, Rows[j][2]) )
         => v[Rows[j][2]] = Parsed(Rows[j][3], env[Rows[j][1]])

LEMMA OverrideWins ==
    ASSUME NEW c, NEW v, NEW env, NEW k \in 1..32, LastWins(v, c, env, k - 1),
           DOMAIN Default \subseteq DOMAIN c
    PROVE  LastWins(Override(v, env, Rows[k]), c, env, k)
<1> DEFINE w == Override(v, env, Rows[k])
<1>1. Rows[k][2] \in DOMAIN v
  BY RowFacts DEF LastWins
<1>2. CASE Effective(env, Rows[k])
  <2>1. w = [v EXCEPT ![Rows[k][2]] = Parsed(Rows[k][3], env[Rows[k][1]])]
    BY <1>2 DEF Override
  <2>2. /\ DOMAIN w = DOMAIN v
        /\ w[Rows[k][2]] = Parsed(Rows[k][3], env[Rows[k][1]])
        /\ \A f \in DOMAIN v : f # Rows[k][2] => w[f] = v[f]
        /\ IsRecord(w)
    BY <1>1, <2>1 DEF IsRecord, LastWins
  <2> HIDE DEF w
  <2>3. ASSUME NEW f \in DOMAIN c, \A j \in 1..k : ~Hits(env, j, f)
        PROVE  w[f] = c[f]
    <3>1. f # Rows[k][2] /\ \A j \in 1..(k - 1) : ~Hits(env, j, f)
      BY <1>2, <2>3 DEF Hits
    <3> QED
      BY <2>2, <3>1 DEF LastWins
  <2>4. ASSUME NEW j \in 1..k, Effective(env, Rows[j]),
               \A i \in (j + 1)..k : ~Hits(env, i, Rows[j][2])
        PROVE  w[Rows[j][2]] = Parsed(Rows[j][3], env[Rows[j][1]])
    <3>1. CASE j = k
      BY <2>2, <3>1
    <3>2. CASE j # k
      <4>1. j \in 1..(k - 1) /\ k \in (j + 1)..k
        BY <3>2
      <4>2. Rows[k][2] # Rows[j][2]
        BY <1>2, <2>4, <4>1 DEF Hits
      <4>3. v[Rows[j][2]] = Parsed(Rows[j][3], env[Rows[j][1]])
        BY <2>4, <4>1 DEF LastWins
      <4>4. j \in 1..32
        OBVIOUS
      <4>5. Rows[j][2] \in DOMAIN v
        BY <4>4, RowFacts DEF LastWins
      <4> QED
        BY <2>2, <4>2, <4>3, <4>5
    <3> QED
      BY <3>1, <3>2
  <2>5. LastWins(w, c, env, k)
    BY <2>2, <2>3, <2>4 DEF LastWins
  <2> QED
    BY <2>5 DEF w
<1>3. CASE ~Effective(env, Rows[k])
  <2>1. w = v
    BY <1>3 DEF Override
  <2>2. ASSUME NEW f \in DOMAIN c, \A j \in 1..k : ~Hits(env, j, f)
        PROVE  v[f] = c[f]
    BY <2>2 DEF LastWins
  <2>3. ASSUME NEW j \in 1..k, Effective(env, Rows[j]),
               \A i \in (j + 1)..k : ~Hits(env, i, Rows[j][2])
        PROVE  v[Rows[j][2]] = Parsed(Rows[j][3], env[Rows[j][1]])
    <3>1. j \in 1..(k - 1)
      BY <1>3, <2>3
    <3> QED
      BY <2>3, <3>1 DEF LastWins
  <2>4. LastWins(v, c, env, k)
    BY <2>2, <2>3 DEF LastWins
  <2> QED
    BY <2>1, <2>4
<1> QED
  BY <1>2, <1>3

LEMMA EnvLastWins ==
    ASSUME NEW c, NEW env, IsRecord(c),
           DOMAIN Default \subseteq DOMAIN c
    PROVE  LastWins(applyEnv(c, env), c, env, 32)
<1>1. PICK g : Steps(g, c, env, 32) /\ applyEnv(c, env) = g[32]
  BY EnvSteps, RowFacts
<1> DEFINE OK(k) == LastWins(g[k], c, env, k)
           T == {k \in 0..32 : ~OK(k)}
<1> SUFFICES ASSUME T # {} PROVE FALSE
  BY <1>1
<1>2. PICK k \in T : \A y \in T : k <= y
  <2>1. T \in SUBSET Nat
    OBVIOUS
  <2> QED
    BY <2>1, LeastNat
<1>3. g[0] = c
  BY <1>1 DEF Steps
<1>4. OK(0)
  BY <1>3 DEF LastWins
<1>5. k \in 1..32 /\ k - 1 \in 0..32 /\ k - 1 \notin T
  BY <1>2, <1>4
<1>6. OK(k - 1)
  BY <1>5
<1>7. g[k] = Override(g[k - 1], env, Rows[k])
  <2>1. \A m \in 0..32 :
          g[m] = IF m = 0 THEN c ELSE Override(g[m - 1], env, Rows[m])
    BY <1>1 DEF Steps
  <2> QED
    BY <1>5, <2>1
<1>8. OK(k)
  <2>1. LastWins(Override(g[k - 1], env, Rows[k]), c, env, k)
    BY <1>5, <1>6, OverrideWins
  <2> QED
    BY <1>7, <2>1
<1> QED
  BY <1>2, <1>8

(* The loaded file, before the environment. *)
LEMMA FileLoaded ==
    ASSUME NEW path, NEW disk
    PROVE  LET c == loadFile(path, disk) IN
           /\ IsRecord(c) /\ DOMAIN c = DOMAIN Default
           /\ \A f \in DOMAIN Default :
                c[f] = IF path # "none" /\ f \in DOMAIN disk[path]
                       THEN disk[path][f] ELSE Default[f]
<1>1. CASE path = "none"
  <2>1. Default = [f \in DOMAIN Default |-> Default[f]]
    BY DEF Default
  <2> QED
    BY <1>1, <2>1 DEF loadFile, IsRecord
<1>2. CASE path # "none"
  BY <1>2 DEF loadFile, IsRecord
<1> QED
  BY <1>1, <1>2

-----------------------------------------------------------------------------
(* The theorems.                                                           *)

(* The controller's state keeps its types and its structure: nobody is in  *)
(* a call of a controller that is not there, an empty key file is torn or  *)
(* about to be written, and who is on its way to give the registration up  *)
(* has its reason.                                                         *)
THEOREM ControllerInvariant == ControllerSpec => []ControllerInv
<1> QED
  BY ControllerFirst, ControllerInduct, PTL DEF ControllerSpec

THEOREM ControllerTypes == ControllerSpec => []ControllerTypeOK
<1>1. ControllerInv => ControllerTypeOK
  BY DEF ControllerInv
<1> QED
  BY <1>1, ControllerInvariant, PTL

(* reg.json is given up only for a reason the acting caller has, whatever  *)
(* crashes and whoever else is in the controller.                          *)
THEOREM RegistrationsKept == ControllerSpec => RegistrationKept
<1>1. ControllerInv /\ [ControllerNext]_ctlVars =>
        [reg /\ ~reg' =>
          \E a \in Callers :
            /\ pc'[a] # pc[a] /\ pc[a] \in {"rmreg", "delete"}
            /\ \/ a = "engine"
               \/ cfg.force
               \/ prev[a] \in (assigned \ {cfg.key}) \cup {Emptied, Torn}
        ]_ctlVars
  BY RegistrationStep DEF Reasons
<1> QED
  BY <1>1, ControllerInvariant, PTL DEF ControllerSpec, RegistrationKept

(* The control loop uses the controller as ControllerSpec says: what is    *)
(* shown of the controller alone holds in the whole program.               *)
THEOREM ControllerImplemented == Spec => ControllerSpec
<1> QED
  BY ControlInit, PhaseKeeps, StepRefines, PTL DEF Spec, ControllerSpec

(* The inductive invariant of the control loop over crashes and restarts.  *)
THEOREM ControlInvariant == Spec => []ControlInv
<1>1. Init => ControlInv
  BY ControlInit, ControllerFirst DEF ControlInv
<1> QED
  BY <1>1, ControlNext, PTL DEF Spec

(* The control loop's state keeps its types and its structure: there is a  *)
(* controller exactly while the process is up, and an open circuit has the *)
(* failures that opened it.                                                *)
THEOREM ControlTypes == Spec => []TypeOK
<1> QED
  BY ControlIsTyped, ControlInvariant, PTL

(* Load takes every field from the strongest variable with a usable value, *)
(* else from the file, else from the defaults, for any environment and any *)
(* files: of the rows of applyEnv that take effect on a field the last one *)
(* counts, and that is the stronger of two.  What it accepts has a backend *)
(* and no key beside an organization.                                      *)
THEOREM ConfigPrecedence == Spec => []LoadPrecedence
<1>1. LoadPrecedence
  <2> SUFFICES ASSUME LoadOK(input) PROVE LoadPrecedence
    BY DEF LoadPrecedence
  <2> DEFINE env == input.env
             path == ConfigPath(input.flag, env, input.disk)
             d == loadFile(path, input.disk)
             c == Settings(input)
             Usable == {row \in ToSet(Rows) : Effective(env, row)}
             Beaten(row) == /\ row[1] \in DOMAIN Stronger
                            /\ \E r \in Usable : r[1] = Stronger[row[1]]
  <2>1. /\ IsRecord(d) /\ DOMAIN d = DOMAIN Default
        /\ \A f \in DOMAIN Default :
             d[f] = IF path # "none" /\ f \in DOMAIN input.disk[path]
                    THEN input.disk[path][f] ELSE Default[f]
    BY FileLoaded
  <2>2. c = applyEnv(d, env)
    BY DEF Settings
  <2>3. LastWins(c, d, env, 32)
    <3> HIDE DEF d, c, env
    <3> QED
      BY <2>1, <2>2, EnvLastWins
  <2>4. loadFileOK(path, input.disk) /\ Validate(c)
    BY DEF LoadOK
  <2>5. \A row : row \in Usable <=>
            \E i \in 1..32 : row = Rows[i] /\ Effective(env, Rows[i])
    BY RowFacts
  <2> HIDE DEF d, c, env, path
  <2>6. ASSUME NEW row \in Usable, ~Beaten(row)
        PROVE  c[row[2]] = Parsed(row[3], env[row[1]])
    <3>1. PICK j \in 1..32 : row = Rows[j] /\ Effective(env, Rows[j])
      BY <2>5
    <3>2. ASSUME NEW i \in (j + 1)..32, Hits(env, i, Rows[j][2]) PROVE FALSE
      <4>1. /\ i \in 1..32 /\ j < i
            /\ Rows[j][2] = Rows[i][2] /\ Rows[i] \in Usable
        BY <2>5, <3>2 DEF Hits
      <4>2. Rows[j][1] \in DOMAIN Stronger /\ Stronger[Rows[j][1]] = Rows[i][1]
        BY <4>1, RowFacts
      <4> QED
        BY <2>6, <3>1, <4>1, <4>2
    <3> QED
      BY <2>3, <3>1, <3>2 DEF LastWins
  <2>7. ASSUME NEW f \in DOMAIN Default, ~\E row \in Usable : row[2] = f
        PROVE  c[f] = d[f]
    <3>1. \A j \in 1..32 : ~Hits(env, j, f)
      BY <2>5, <2>7 DEF Hits
    <3> QED
      BY <2>1, <2>3, <3>1 DEF LastWins
  <2>8. c.Instances \in Int
    <3>1. "Instances" \in DOMAIN Default /\ Default.Instances \in Int
      BY DEF Default
    <3>2. d.Instances \in Int
      BY <2>1, <2>4, <3>1 DEF loadFileOK, Decodes
    <3>3. \A v \in DOMAIN Atoi : Atoi[v] \in Int
      BY DEF Atoi
    <3>4. ASSUME NEW j \in 1..32, Hits(env, j, "Instances"),
                 \A i \in (j + 1)..32 : ~Hits(env, i, "Instances")
          PROVE  c.Instances \in Int
      <4>1. /\ Rows[j][2] = "Instances" /\ Rows[j][3] = "int"
            /\ Effective(env, Rows[j])
        BY <3>4, RowFacts DEF Hits
      <4>2. c.Instances = Parsed("int", env[Rows[j][1]])
        BY <2>3, <3>4, <4>1 DEF LastWins
      <4>3. env[Rows[j][1]] \in DOMAIN Atoi
        BY <4>1 DEF Effective, Accepts
      <4>4. Parsed("int", env[Rows[j][1]]) = Atoi[env[Rows[j][1]]]
        BY DEF Parsed
      <4> QED
        BY <3>3, <4>2, <4>3, <4>4
    <3>5. CASE \A j \in 1..32 : ~Hits(env, j, "Instances")
      BY <2>1, <2>3, <3>1, <3>2, <3>5 DEF LastWins
    <3>6. \A j \in 1..32 : Hits(env, j, "Instances") => j \in {1, 2}
      BY RowFacts DEF Hits
    <3>7. CASE Hits(env, 2, "Instances")
      BY <3>4, <3>6, <3>7
    <3>8. CASE Hits(env, 1, "Instances") /\ ~Hits(env, 2, "Instances")
      BY <3>4, <3>6, <3>8
    <3> QED
      BY <3>5, <3>6, <3>7, <3>8
  <2>9. BackendAddrs(c) # <<>>
    BY <2>4, <2>8 DEF Validate, BackendAddrs
  <2>10. Loaded(input).org => Loaded(input).key = NoKey
    BY <2>4 DEF Loaded, Validate, LicenseKeyFor, c
  <2> QED
    BY <2>1, <2>6, <2>7, <2>9, <2>10 DEF LoadPrecedence, c, d, env, path
<1> QED
  BY <1>1, PTL

(* A backend whose link is back and stays is healthy again and again,      *)
(* whatever the prober, the supervisor, the engine and the traffic do with *)
(* an old verdict: the probe that follows has nothing left to force.       *)
THEOREM BackendsRecover == FairSpec => Recovers
<1>1. Recovers <=> (<>[]Reached => []<>Good)
  BY PTL DEF Recovers, Reached, Good
<1> QED
  BY <1>1, ProberFair, ProberAt, GoodProbe, ControlInvariant, PTL DEF Spec

(* A backend whose link stays down is taken out again and again, however   *)
(* often it is restarted, admitted, reset or half-opened: a failed probe   *)
(* of an open circuit stamps it anew, failures of a circuit that is not    *)
(* open are forgotten by nobody while the link is down, and the third      *)
(* failed probe in a row forces the state.                                 *)
THEOREM BackendsQuarantined == FairSpec => Quarantined
<1>1. Quarantined <=> (<>[]Cut => []<>Out)
  BY PTL DEF Quarantined, Cut, Out
<1>2. ControlInv /\ [Next]_vars /\ Cut /\ Cut' =>
        /\ Failed(1) => Failed(1)' \/ Out'
        /\ Failed(2) => Failed(2)' \/ Out'
  BY FailuresStay
<1> QED
  BY <1>1, <1>2, ProberFair, ProberAt, FailuresCount, BadProbe,
     ControlInvariant, PTL DEF Spec
=============================================================================
