------------------------------ MODULE Backend ------------------------------
(***************************************************************************)
(* One WARP backend: internal/pool/backend.go.                             *)
(*                                                                         *)
(* Every method of Backend that touches `inner` holds inner.mu, so each is *)
(* one atomic step, written here as an operator from the record before the *)
(* call to the record after it.  The modules that own a `be` variable      *)
(* build their actions from these operators.                               *)
(*                                                                         *)
(* Time is abstracted to the only question the code asks of it: has the    *)
(* timeout that applies to a timestamp elapsed?  lastChange is compared    *)
(* with FailTimeout, openedAt with OpenAfter.  fails saturates at FailCap, *)
(* which is at least every threshold it is compared with, so no comparison *)
(* can tell the difference.  Metrics, lastError, lastProbe and the egress  *)
(* address steer nothing in selection and are left out.                    *)
(***************************************************************************)
EXTENDS Integers

CONSTANTS
    CfgMaxFails,    \* cfg.Pool.MaxFails, before NewBackend clamps it
    FailCap         \* where the model stops counting `fails`

MaxFails == IF CfgMaxFails < 1 THEN 1 ELSE CfgMaxFails

ASSUME BackendAssumption ==
    /\ CfgMaxFails \in Int
    /\ FailCap \in Nat
    /\ FailCap >= MaxFails

State == {"unknown", "healthy", "degraded", "unhealthy", "circuit_open"}
AdmitPhase == {"warming", "in_pool", "parked"}
Age == {"fresh", "elapsed"}     \* less / at least the timeout ago

innerState == [state : State, admit : AdmitPhase, fails : 0..FailCap,
               lastChange : Age, openedAt : Age \cup {"nil"}]

NewBackend == [state |-> "unknown", admit |-> "warming", fails |-> 0,
               lastChange |-> "fresh", openedAt |-> "nil"]

-----------------------------------------------------------------------------
(* Queries.                                                                *)

(* Mutant of Selectable: membership is all that is asked.                  *)
Selectable_AdmitOnly(b) == b.admit = "in_pool"

(* The answer of IsSelectable: the states it lets through, and the two it  *)
(* lets through once their timeout has elapsed.                            *)
Selectable(b) ==
    /\ b.admit = "in_pool"
    /\ \/ b.state \in {"unknown", "healthy", "degraded"}
       \/ b.state = "unhealthy" /\ b.lastChange = "elapsed"
       \/ b.state = "circuit_open" /\ b.openedAt = "elapsed"

(* Mutant of AfterIsSelectable: the half-open switch of an open circuit    *)
(* forgets to change the state and only clears openedAt.                   *)
AfterIsSelectable_KeepsOpen(b) ==
    IF Selectable(b) /\ b.state = "circuit_open"
    THEN [b EXCEPT !.fails = 0, !.lastChange = "fresh", !.openedAt = "nil"]
    ELSE b

(* The side effect of IsSelectable: a backend whose timeout has elapsed is *)
(* half-opened to degraded by the very call that asks about it.  Only the  *)
(* circuit forgets its failures; an unhealthy backend keeps them.          *)
AfterIsSelectable(b) ==
    IF ~Selectable(b) THEN b
    ELSE IF b.state = "unhealthy"
         THEN [b EXCEPT !.state = "degraded", !.lastChange = "fresh"]
    ELSE IF b.state = "circuit_open"
         THEN [b EXCEPT !.state = "degraded", !.fails = 0,
                        !.lastChange = "fresh", !.openedAt = "nil"]
    ELSE b

-----------------------------------------------------------------------------
(* Mutations.                                                              *)

(* MarkSuccess leaves lastChange alone when the backend was healthy.       *)
MarkSuccess(b) ==
    [b EXCEPT !.state = "healthy", !.fails = 0, !.openedAt = "nil",
              !.lastChange = IF b.state = "healthy" THEN @ ELSE "fresh"]

Bump(fails) == IF fails < FailCap THEN fails + 1 ELSE FailCap

(* Mutant of MarkFailure: opens the circuit without stamping openedAt.     *)
MarkFailure_NoStamp(b) ==
    LET f == Bump(b.fails) IN
    [b EXCEPT !.fails = f, !.lastChange = "fresh",
              !.state = IF f >= MaxFails THEN "circuit_open"
                        ELSE IF @ \in {"healthy", "unknown"} THEN "degraded"
                        ELSE @]

(* markFailureLocked, shared by MarkFailure and MarkProbeFail.  The second *)
(* half of MarkProbeFail (degraded with fails >= MaxFails) is unreachable: *)
(* markFailureLocked has just opened the circuit in that case.             *)
MarkFailure(b) ==
    LET f == Bump(b.fails) IN
    IF f >= MaxFails
    THEN [b EXCEPT !.fails = f, !.lastChange = "fresh",
                   !.state = "circuit_open", !.openedAt = "fresh"]
    ELSE [b EXCEPT !.fails = f, !.lastChange = "fresh",
                   !.state = IF @ \in {"healthy", "unknown"}
                             THEN "degraded" ELSE @]

MarkProbeFail(b) ==
    LET r == MarkFailure(b) IN
    IF r.state = "degraded" /\ r.fails >= MaxFails
    THEN [r EXCEPT !.state = "unhealthy"] ELSE r

(* Mutant of MarkProbeOK: an open circuit waits for traffic to close it.   *)
MarkProbeOK_KeepsOpen(b) ==
    [b EXCEPT !.state = IF @ = "circuit_open" THEN @ ELSE "healthy",
              !.fails = 0, !.lastChange = "fresh"]

MarkProbeOK(b) ==
    [b EXCEPT !.state = "healthy", !.fails = 0,
              !.lastChange = "fresh", !.openedAt = "nil"]

(* ForceState keeps fails and openedAt, except for the two states below.   *)
ForceState(b, s) ==
    [b EXCEPT !.state = s, !.lastChange = "fresh",
              !.fails = IF s = "healthy" THEN 0 ELSE @,
              !.openedAt = CASE s = "circuit_open" -> "fresh"
                             [] s = "healthy" -> "nil"
                             [] OTHER -> @]

(* SetAdmit also refreshes lastChange, which restarts FailTimeout for an   *)
(* unhealthy backend.                                                      *)
SetAdmit(b, phase) == [b EXCEPT !.admit = phase, !.lastChange = "fresh"]

-----------------------------------------------------------------------------
(* Time.  lastChange is read only in state unhealthy and openedAt only in  *)
(* circuit_open, and both are rewritten on entry to those states, so their *)
(* ageing matters, and is modelled, only there.                            *)

CanAge(b) ==
    \/ b.state = "unhealthy" /\ b.lastChange = "fresh"
    \/ b.state = "circuit_open" /\ b.openedAt = "fresh"

Aged(b) ==
    IF b.state = "unhealthy" THEN [b EXCEPT !.lastChange = "elapsed"]
                             ELSE [b EXCEPT !.openedAt = "elapsed"]
=============================================================================
