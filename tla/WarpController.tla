--------------------------- MODULE WarpController ---------------------------
(***************************************************************************)
(* The WARP controller of one instance, over restarts of the process:      *)
(* internal/control/warpctl_linux.go.                                      *)
(*                                                                         *)
(* Three goroutines call it with no lock between them: the bootstrap       *)
(* (StartOne), the supervisor (Restart, Reconnect) and the uniqueness      *)
(* engine (Reregister).  Here they call whenever they are not in a call;   *)
(* when they do is Supervisor's.  Each is at one point of its call, pc; a  *)
(* spawn, a system call on a file and a warp-cli call that changes         *)
(* something is one step, and warp-cli may answer, fail or hang at every   *)
(* one.  The twelve and eight tries of `registration new` with their       *)
(* backoffs are one step that ends in success or in exhaustion.  waitReady *)
(* ends by itself and changes nothing.                                     *)
(*                                                                         *)
(* reg.json is written by warp-svc and removed by both; `link` says that   *)
(* the instance's SOCKS port answers through WARP, as warp-svc does only   *)
(* when it is connected with a registration.                               *)
(***************************************************************************)
EXTENDS Config

CONSTANT Configs        \* what a start may leave to the controller

(* An empty key file: one that a caller has opened and is about to write,  *)
(* and one whose write failed or was cut off by a crash.                   *)
Emptied == "emptied"
Torn == "torn"

ASSUME ControllerAssumption ==
    \A c \in Configs :
        /\ c \in [up : {TRUE}, managed : BOOLEAN, org : BOOLEAN,
                  force : BOOLEAN, key : {c.key}, unique : BOOLEAN,
                  started : BOOLEAN, pooled : BOOLEAN]
        /\ c.key \notin {Emptied, Torn}

VARIABLES
    cfg,        \* what the controller asks of the configuration
    reg,        \* reg.json exists
    applied,    \* what applied_license.txt holds, NoKey without the file
    prev,       \* what a caller read in it that makes it re-register
    svc,        \* a warp-svc of this instance runs
    link,       \* its port answers through WARP
    pc,         \* where each caller is
    assigned    \* history: the keys the controller was ever given

ctlVars == <<cfg, reg, applied, prev, svc, link, pc, assigned>>

Callers == {"boot", "sup", "engine"}
Points == {"idle", "disconnect", "reconnect", "spawn", "configure", "rmreg",
           "rmkey", "delete", "stat", "new", "license", "open", "write",
           "connect", "ok", "warm"}

At(a, p) == pc[a] = p
Goto(a, p) == pc' = [pc EXCEPT ![a] = p]

(* A call that succeeded; StartAll does nothing more with it. *)
ReturnOK(a) == Goto(a, IF a = "boot" THEN "idle" ELSE "ok")
ReturnErr(a) == Goto(a, "idle")

NotLoaded == [up |-> FALSE, managed |-> FALSE, org |-> FALSE, force |-> FALSE,
              key |-> NoKey, unique |-> FALSE, started |-> FALSE,
              pooled |-> FALSE]
AllIdle == [a \in Callers |-> "idle"]
NothingRead == [a \in Callers |-> NoKey]

ControllerInit ==
    /\ cfg = NotLoaded
    /\ reg = FALSE /\ applied = NoKey /\ prev = NothingRead
    /\ svc = FALSE /\ link = FALSE
    /\ pc = AllIdle
    /\ assigned = {}

-----------------------------------------------------------------------------
(* StartOne and configureProxyMode.                                        *)

Spawn(a) ==
    /\ At(a, "spawn")
    /\ \/ svc' = TRUE /\ Goto(a, "configure")
       \/ UNCHANGED svc /\ ReturnErr(a)
    /\ UNCHANGED <<cfg, reg, applied, prev, link, assigned>>

(* With an organization the registration is left to MDM. *)
ConfigureOrg(a) ==
    /\ At(a, "configure") /\ cfg.org
    /\ link' \in {link, svc}
    /\ ReturnOK(a)
    /\ UNCHANGED <<cfg, reg, applied, prev, svc, assigned>>

Forced(a) ==
    /\ At(a, "configure") /\ ~cfg.org /\ cfg.force
    /\ Goto(a, "rmreg")
    /\ UNCHANGED <<cfg, reg, applied, prev, svc, link, assigned>>

(* The key file names another key than the one assigned.  Without a key    *)
(* file nothing is known to have changed.                                  *)
KeyChanged == cfg.key # NoKey /\ applied # NoKey /\ applied # cfg.key

(* Mutant of ReadKey: a missing key file counts as a changed key.          *)
ReadKey_NoFileIsChange(a) ==
    /\ At(a, "configure") /\ ~cfg.org /\ ~cfg.force
    /\ IF cfg.key # NoKey /\ applied # cfg.key
       THEN prev' = [prev EXCEPT ![a] = applied] /\ Goto(a, "rmreg")
       ELSE UNCHANGED prev /\ Goto(a, "stat")
    /\ UNCHANGED <<cfg, reg, applied, svc, link, assigned>>

(* The verdict is about what was read; it is acted on in later steps.      *)
ReadKey(a) ==
    /\ At(a, "configure") /\ ~cfg.org /\ ~cfg.force
    /\ IF KeyChanged
       THEN prev' = [prev EXCEPT ![a] = applied] /\ Goto(a, "rmreg")
       ELSE UNCHANGED prev /\ Goto(a, "stat")
    /\ UNCHANGED <<cfg, reg, applied, svc, link, assigned>>

(* Forced or by the engine, both files go; a changed key leaves its file   *)
(* for the new one.  The engine has deleted the registration before.       *)
RemoveReg(a) ==
    /\ At(a, "rmreg")
    /\ reg' = FALSE
    /\ Goto(a, IF a = "engine" \/ cfg.force THEN "rmkey" ELSE "delete")
    /\ UNCHANGED <<cfg, applied, prev, svc, link, assigned>>

RemoveKey(a) ==
    /\ At(a, "rmkey")
    /\ applied' = NoKey
    /\ Goto(a, IF a = "engine" THEN "new" ELSE "delete")
    /\ UNCHANGED <<cfg, reg, prev, svc, link, assigned>>

(* registration delete, its error ignored. *)
Delete(a) ==
    /\ At(a, "delete")
    /\ \/ svc /\ reg' = FALSE /\ link' = FALSE
       \/ UNCHANGED <<reg, link>>
    /\ prev' = [prev EXCEPT ![a] = NoKey]
    /\ Goto(a, IF a = "engine" THEN "rmreg" ELSE "stat")
    /\ UNCHANGED <<cfg, applied, svc, assigned>>

Stat(a) ==
    /\ At(a, "stat")
    /\ Goto(a, IF reg THEN "connect" ELSE "new")
    /\ UNCHANGED <<cfg, reg, applied, prev, svc, link, assigned>>

AfterNew == IF cfg.key = NoKey THEN "connect" ELSE "license"

NewOK(a) ==
    /\ At(a, "new") /\ svc
    /\ reg' = TRUE
    /\ Goto(a, AfterNew)
    /\ UNCHANGED <<cfg, applied, prev, svc, link, assigned>>

(* Out of tries: Reregister gives up, configureProxyMode carries on.       *)
NewExhausted(a) ==
    /\ At(a, "new")
    /\ IF a = "engine" THEN ReturnErr(a) ELSE Goto(a, AfterNew)
    /\ UNCHANGED <<cfg, reg, applied, prev, svc, link, assigned>>

License(a) ==
    /\ At(a, "license")
    /\ \/ svc /\ reg /\ Goto(a, "open")
       \/ Goto(a, "connect")
    /\ UNCHANGED <<cfg, reg, applied, prev, svc, link, assigned>>

(* WriteFile, any error ignored: opening the file empties or creates it. *)
OpenKey(a) ==
    /\ At(a, "open")
    /\ \/ applied' = Emptied /\ Goto(a, "write")
       \/ UNCHANGED applied /\ Goto(a, "connect")
    /\ UNCHANGED <<cfg, reg, prev, svc, link, assigned>>

(* The write succeeds, or leaves the file that is there as it is: it fails, *)
(* or the file it goes to has been removed since it was opened.            *)
WriteKey(a) ==
    /\ At(a, "write")
    /\ \/ applied # NoKey /\ applied' = cfg.key
       \/ applied' = IF applied = Emptied /\ ~\E b \in Callers \ {a} : At(b, "write")
                     THEN Torn ELSE applied
    /\ Goto(a, "connect")
    /\ UNCHANGED <<cfg, reg, prev, svc, link, assigned>>

(* mode proxy, proxy port, connect: the first that fails ends the call.    *)
Connect(a) ==
    /\ At(a, "connect")
    /\ \/ svc /\ link' \in {link, reg} /\ ReturnOK(a)
       \/ UNCHANGED link /\ ReturnErr(a)
    /\ UNCHANGED <<cfg, reg, applied, prev, svc, assigned>>

-----------------------------------------------------------------------------
(* Restart, Reconnect and Reregister: what they do before or beside that.  *)

(* warp-cli disconnect, its error ignored.  Restart leaves the old         *)
(* warp-svc: the following StartOne spawns another one beside it.          *)
(* Reregister deletes next; an organization's registration is not spared.  *)
Disconnect(a) ==
    /\ At(a, "disconnect")
    /\ link' \in {link, FALSE}
    /\ Goto(a, IF a = "engine" THEN "delete" ELSE "spawn")
    /\ UNCHANGED <<cfg, reg, applied, prev, svc, assigned>>

Reconnect(a) ==
    /\ At(a, "reconnect")
    /\ link' \in {link, svc /\ (reg \/ cfg.org)}
    /\ ReturnErr(a)
    /\ UNCHANGED <<cfg, reg, applied, prev, svc, assigned>>

-----------------------------------------------------------------------------
(* The calls, and what the callers do after a successful one: the engine   *)
(* has two more steps to make, the second of them from "warm".             *)

(* Mutant of Call: made without asking for a controller.                   *)
Call_NoController(a, p) ==
    /\ At(a, "idle")
    /\ Goto(a, p)
    /\ UNCHANGED <<cfg, reg, applied, prev, svc, link, assigned>>

Call(a, p) ==
    /\ cfg.managed /\ At(a, "idle")
    /\ Goto(a, p)
    /\ UNCHANGED <<cfg, reg, applied, prev, svc, link, assigned>>

Resume(a) ==
    /\ pc[a] \in {"ok", "warm"}
    /\ Goto(a, IF a = "engine" /\ At(a, "ok") THEN "warm" ELSE "idle")
    /\ UNCHANGED <<cfg, reg, applied, prev, svc, link, assigned>>

(* The process starts, and with it StartAll, which has the instances       *)
(* 0 .. Instances-1; nobody waits for it.                                  *)
Begin(c) ==
    /\ ~cfg.up
    /\ cfg' = c
    /\ pc' = [AllIdle EXCEPT !["boot"] =
                  IF c.managed /\ c.started THEN "spawn" ELSE "idle"]
    /\ assigned' = IF c.managed THEN assigned \cup ({c.key} \ {NoKey})
                   ELSE assigned
    /\ UNCHANGED <<reg, applied, prev, svc, link>>

(* The process ends wherever its goroutines are (StopAll does nothing).    *)
(* The files stay; warp-svc may live on as an orphan.                      *)
End ==
    /\ cfg.up
    /\ cfg' = NotLoaded /\ pc' = AllIdle /\ prev' = NothingRead
    /\ applied' = IF applied = Emptied THEN Torn ELSE applied
    /\ \/ UNCHANGED <<svc, link>>
       \/ svc' = FALSE /\ link' = FALSE
    /\ UNCHANGED <<reg, assigned>>

-----------------------------------------------------------------------------
(* warp-svc and the network.                                               *)

SvcDies ==
    /\ svc /\ svc' = FALSE /\ link' = FALSE
    /\ UNCHANGED <<cfg, reg, applied, prev, pc, assigned>>

LinkChanges ==
    /\ link' = ~link
    /\ link' /\ cfg.managed => svc /\ (reg \/ cfg.org)
    /\ UNCHANGED <<cfg, reg, applied, prev, svc, pc, assigned>>

ControllerStep(a) ==
    \/ Spawn(a) \/ ConfigureOrg(a) \/ Forced(a) \/ ReadKey(a) \/ RemoveReg(a)
    \/ RemoveKey(a) \/ Delete(a) \/ Stat(a) \/ NewOK(a) \/ NewExhausted(a)
    \/ License(a) \/ OpenKey(a) \/ WriteKey(a) \/ Connect(a) \/ Disconnect(a)
    \/ Reconnect(a)

ControllerNext ==
    \/ \E c \in Configs : Begin(c)
    \/ End
    \/ Call("sup", "disconnect") \/ Call("sup", "reconnect")
    \/ Call("engine", "disconnect")
    \/ \E a \in Callers : Resume(a) \/ ControllerStep(a)
    \/ cfg.up /\ (SvcDies \/ LinkChanges)

ControllerSpec == ControllerInit /\ [][ControllerNext]_ctlVars

-----------------------------------------------------------------------------
(* Properties.                                                             *)

(* Nobody is in a call when there is no controller, and an empty key file  *)
(* is one that somebody is about to write or one that is left torn.        *)
ControllerTypeOK ==
    /\ cfg \in Configs \cup {NotLoaded}
    /\ reg \in BOOLEAN /\ svc \in BOOLEAN /\ link \in BOOLEAN
    /\ pc \in [Callers -> Points]
    /\ ~cfg.managed => pc = AllIdle
    /\ applied \in assigned \cup {NoKey, Emptied, Torn}
    /\ applied = Emptied => \E a \in Callers : At(a, "write")
    /\ prev \in [Callers -> assigned \cup {NoKey, Emptied, Torn}]

(* A registration is never given up but for a reason: the operator forces  *)
(* it, the engine re-registers, or the start that gives it up has read a   *)
(* key in the key file that another process was assigned, or has found the *)
(* file empty, in the middle of another caller's write or torn by a crash  *)
(* or a failed one -- however often the process crashes, between whichever *)
(* steps, and whoever is in the controller at the same time.               *)
RegistrationKept ==
    [][reg /\ ~reg' =>
        \E a \in Callers :
            /\ pc'[a] # pc[a] /\ pc[a] \in {"rmreg", "delete"}
            /\ \/ a = "engine"
               \/ cfg.force
               \/ prev[a] \in (assigned \ {cfg.key}) \cup {Emptied, Torn}
      ]_ctlVars

(* What configureProxyMode says of itself: it drops a registration if      *)
(* forced or if the assigned license changed.  (A torn file apart, which   *)
(* takes a crash or a failed write.)                                       *)
DropsOnlyOnChange ==
    [][\A a \in {"boot", "sup"} :
        At(a, "rmreg") /\ reg /\ ~reg' =>
            \/ cfg.force
            \/ prev[a] = Torn
            \/ \E k, l \in assigned : k # l
      ]_ctlVars
=============================================================================
