------------------------------ MODULE Lifecycle ------------------------------
(***************************************************************************)
(* Start and shutdown of the process: main.go, the Serve and drain loops   *)
(* of the two proxy servers (internal/proxy/socks5.go, http_proxy.go, the  *)
(* same code twice) and the admin server's Serve (internal/admin/admin.go).*)
(*                                                                         *)
(* A Serve goroutine, the goroutine that closes its listener when the      *)
(* context ends, the handlers it spawned and main interleave freely.  An   *)
(* accept error other than a closed listener is logged and retried, which  *)
(* changes nothing.  What a handler does before it returns is in Proxy.    *)
(***************************************************************************)
EXTENDS Integers, Sequences

CONSTANTS Servers,   \* the proxy servers
          Arrivals   \* the connections that may ever arrive: their servers

ASSUME LifecycleAssumption == Arrivals \in Seq(Servers)

Conns == DOMAIN Arrivals   \* in the order in which they are accepted

VARIABLES
    main,       \* main: waiting for a signal, in its final sleep, exited
    cancelled,  \* the context is done
    adm,        \* admin Serve
    srv,        \* each proxy's Serve
    ln,         \* its listener
    active,     \* its activeConns
    deadline,   \* its drain deadline: time.After
    drained,    \* how its drain ended
    conn        \* each connection's stage

vars == <<main, cancelled, adm, srv, ln, active, deadline, drained, conn>>
serverVars == <<srv, ln, active, deadline, drained, conn>>

Stage == {"new", "accepted", "running", "returned", "done"}

Each(v) == [s \in Servers |-> v]
NoConns == [c \in Conns |-> "new"]

Init ==
    /\ main = "wait"
    /\ cancelled = FALSE
    /\ adm = "start"
    /\ srv = Each("start")
    /\ ln = Each("none")
    /\ active = Each(0)
    /\ deadline = Each("unset")
    /\ drained = Each("no")
    /\ conn = NoConns

Alive == main # "exited"

-----------------------------------------------------------------------------
(* main.                                                                   *)

(* The first signal: cancel(), then a fixed sleep of 500 ms. *)
Signal ==
    /\ main = "wait"
    /\ main' = "sleep"
    /\ cancelled' = TRUE
    /\ UNCHANGED <<adm, serverVars>>

(* main returns after the sleep and the process ends with every goroutine  *)
(* still in it: nothing waits for Serve or drain.  Nothing of it is left.  *)
Exit ==
    /\ main = "sleep"
    /\ main' = "exited"
    /\ adm' = "ended"
    /\ srv' = Each("start") /\ ln' = Each("none") /\ active' = Each(0)
    /\ deadline' = Each("unset") /\ drained' = Each("no") /\ conn' = NoConns
    /\ UNCHANGED cancelled

Exited == main = "exited" /\ UNCHANGED vars

-----------------------------------------------------------------------------
(* Admin: a failed listen or the end of http.Server.Serve calls cancel().  *)

AdminListen ==
    /\ Alive /\ adm = "start"
    /\ \/ adm' = "serving" /\ UNCHANGED cancelled
       \/ adm' = "ended" /\ cancelled' = TRUE
    /\ UNCHANGED <<main, serverVars>>

(* Shut down with the context, or ended by an error of its own. *)
AdminEnds ==
    /\ Alive /\ adm = "serving"
    /\ adm' = "ended"
    /\ cancelled' = TRUE
    /\ UNCHANGED <<main, serverVars>>

-----------------------------------------------------------------------------
(* Serve.                                                                  *)

ListenOK(s) ==
    /\ Alive /\ srv[s] = "start"
    /\ srv' = [srv EXCEPT ![s] = "accept"]
    /\ ln' = [ln EXCEPT ![s] = "open"]
    /\ UNCHANGED <<main, cancelled, adm, active, deadline, drained, conn>>

(* Serve returns the error and main's goroutine calls cancel(): the other  *)
(* servers shut down as well, while main keeps waiting for a signal.       *)
ListenFail(s) ==
    /\ Alive /\ srv[s] = "start"
    /\ srv' = [srv EXCEPT ![s] = "failed"]
    /\ cancelled' = TRUE
    /\ UNCHANGED <<main, adm, ln, active, deadline, drained, conn>>

CloseListener(s) ==
    /\ Alive /\ cancelled /\ ln[s] = "open"
    /\ ln' = [ln EXCEPT ![s] = "closed"]
    /\ UNCHANGED <<main, cancelled, adm, srv, active, deadline, drained, conn>>

Accept(s, c) ==
    /\ Alive /\ srv[s] = "accept" /\ ln[s] = "open"
    /\ Arrivals[c] = s /\ conn[c] = "new"
    /\ \A d \in 1..(c - 1) : conn[d] # "new"
    /\ conn' = [conn EXCEPT ![c] = "accepted"]
    /\ srv' = [srv EXCEPT ![s] = "spawn"]
    /\ UNCHANGED <<main, cancelled, adm, ln, active, deadline, drained>>

(* Mutant of Spawn: the handler is started without being counted.          *)
Spawn_NotCounted(s, c) ==
    /\ Alive /\ srv[s] = "spawn"
    /\ Arrivals[c] = s /\ conn[c] = "accepted"
    /\ conn' = [conn EXCEPT ![c] = "running"]
    /\ srv' = [srv EXCEPT ![s] = "accept"]
    /\ UNCHANGED <<main, cancelled, adm, ln, active, deadline, drained>>

(* activeConns.Add(1) in the accept loop, before the handler starts. *)
Spawn(s, c) ==
    /\ Alive /\ srv[s] = "spawn"
    /\ Arrivals[c] = s /\ conn[c] = "accepted"
    /\ active' = [active EXCEPT ![s] = @ + 1]
    /\ conn' = [conn EXCEPT ![c] = "running"]
    /\ srv' = [srv EXCEPT ![s] = "accept"]
    /\ UNCHANGED <<main, cancelled, adm, ln, deadline, drained>>

(* Mutant of AcceptClosed: the drain begins without its deadline.          *)
AcceptClosed_NoDeadline(s) ==
    /\ Alive /\ srv[s] = "accept" /\ ln[s] = "closed"
    /\ srv' = [srv EXCEPT ![s] = "drain"]
    /\ UNCHANGED <<main, cancelled, adm, ln, active, deadline, drained, conn>>

AcceptClosed(s) ==
    /\ Alive /\ srv[s] = "accept" /\ ln[s] = "closed"
    /\ srv' = [srv EXCEPT ![s] = "drain"]
    /\ deadline' = [deadline EXCEPT ![s] = "running"]
    /\ UNCHANGED <<main, cancelled, adm, ln, active, drained, conn>>

(* The drain loop: test activeConns, else wait for the ticker or the       *)
(* deadline, whichever the select takes.                                   *)
DrainCheck(s) ==
    /\ Alive /\ srv[s] = "drain"
    /\ IF active[s] > 0
       THEN srv' = [srv EXCEPT ![s] = "poll"] /\ UNCHANGED drained
       ELSE /\ srv' = [srv EXCEPT ![s] = "returned"]
            /\ drained' = [drained EXCEPT ![s] = "all"]
    /\ UNCHANGED <<main, cancelled, adm, ln, active, deadline, conn>>

DrainTick(s) ==
    /\ Alive /\ srv[s] = "poll"
    /\ srv' = [srv EXCEPT ![s] = "drain"]
    /\ UNCHANGED <<main, cancelled, adm, ln, active, deadline, drained, conn>>

DrainTimeout(s) ==
    /\ Alive /\ srv[s] = "poll" /\ deadline[s] = "expired"
    /\ srv' = [srv EXCEPT ![s] = "returned"]
    /\ drained' = [drained EXCEPT ![s] = "timeout"]
    /\ UNCHANGED <<main, cancelled, adm, ln, active, deadline, conn>>

DeadlineFires(s) ==
    /\ Alive /\ deadline[s] = "running" /\ srv[s] \in {"drain", "poll"}
    /\ deadline' = [deadline EXCEPT ![s] = "expired"]
    /\ UNCHANGED <<main, cancelled, adm, srv, ln, active, drained, conn>>

-----------------------------------------------------------------------------
(* A handler: handle returns (its own defers included), then the deferred  *)
(* activeConns.Add(-1).                                                    *)

HandlerReturns(c) ==
    /\ Alive /\ conn[c] = "running"
    /\ conn' = [conn EXCEPT ![c] = "returned"]
    /\ UNCHANGED <<main, cancelled, adm, srv, ln, active, deadline, drained>>

HandlerDone(c) ==
    /\ Alive /\ conn[c] = "returned"
    /\ active' = [active EXCEPT ![Arrivals[c]] = @ - 1]
    /\ conn' = [conn EXCEPT ![c] = "done"]
    /\ UNCHANGED <<main, cancelled, adm, srv, ln, deadline, drained>>

-----------------------------------------------------------------------------
ServeStep(s) ==
    \/ ListenOK(s) \/ ListenFail(s) \/ AcceptClosed(s) \/ DrainCheck(s)
    \/ DrainTick(s) \/ \E c \in Conns : Spawn(s, c)

(* Everything but the handlers' own work and the end. *)
Process ==
    \/ Signal \/ Exited \/ AdminListen \/ AdminEnds
    \/ \E s \in Servers : \/ ServeStep(s) \/ CloseListener(s)
                          \/ DrainTimeout(s) \/ DeadlineFires(s)
                          \/ \E c \in Conns : Accept(s, c)
    \/ \E c \in Conns : HandlerDone(c)

Next == Process \/ Exit \/ \E c \in Conns : HandlerReturns(c)

Spec == Init /\ [][Next]_vars

ServeAt(s, p) == Alive /\ srv[s] = p
Expired(s) == ServeAt(s, "poll") /\ deadline[s] = "expired"

(* Fairness: runnable goroutines run, timers fire, and a select whose two  *)
(* channels are both ready again and again does not ignore one for ever    *)
(* (Go chooses at random).  Handlers, peers and signals owe nothing.       *)
(* Weak fairness of a step is stated on the states it leaves, and strong   *)
(* fairness of DrainTimeout with its ENABLED spelled out.                  *)
Fairness ==
    /\ \A s \in Servers :
        /\ []<>~ServeAt(s, "start") /\ []<>~ServeAt(s, "spawn")
        /\ []<>~ServeAt(s, "drain") /\ []<>~ServeAt(s, "poll")
        /\ []<>~(ServeAt(s, "accept") /\ ln[s] = "closed")
        /\ []<>~(Alive /\ cancelled /\ ln[s] = "open")
        /\ []<>~((ServeAt(s, "drain") \/ ServeAt(s, "poll"))
                 /\ deadline[s] = "running")
        /\ []<>Expired(s) => []<><<DrainTimeout(s)>>_vars
    /\ \A c \in Conns : []<>(Alive => conn[c] # "returned")

-----------------------------------------------------------------------------
(* Properties.                                                             *)

TypeOK ==
    /\ main \in {"wait", "sleep", "exited"}
    /\ cancelled \in BOOLEAN
    /\ adm \in {"start", "serving", "ended"}
    /\ srv \in [Servers -> {"start", "failed", "accept", "spawn", "drain",
                            "poll", "returned"}]
    /\ ln \in [Servers -> {"none", "open", "closed"}]
    /\ active \in [Servers -> 0..Len(Arrivals)]
    /\ deadline \in [Servers -> {"unset", "running", "expired"}]
    /\ drained \in [Servers -> {"no", "all", "timeout"}]
    /\ conn \in [Conns -> Stage]

Live(s) == {c \in Conns : conn[c] \in {"accepted", "running", "returned"}
                          /\ Arrivals[c] = s}

(* A drain that reports success tells the truth: no handler of that server *)
(* is running, none is about to start, and none can start any more.        *)
DrainedMeansIdle ==
    \A s \in Servers : drained[s] = "all" => Live(s) = {} /\ ln[s] = "closed"

(* Shutdown of the servers is bounded: once the context is done every      *)
(* Serve returns for good, by draining or by its drain timeout, even if a  *)
(* handler hangs for ever -- unless main has ended the process first.      *)
ServersReturn ==
    \A s \in Servers :
        <>cancelled => <>[](~Alive \/ srv[s] \in {"returned", "failed"})

(* "Graceful shutdown: stop accepting, drain active connections": the      *)
(* process does not end while a server is still draining within its        *)
(* timeout.                                                                *)
DrainNotAbandoned ==
    [][main' = "exited" /\ main # main' => \A s \in Servers :
          ~(srv[s] \in {"drain", "poll"} /\ active[s] > 0
            /\ deadline[s] = "running")]_vars
=============================================================================
