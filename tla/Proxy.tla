-------------------------------- MODULE Proxy --------------------------------
(***************************************************************************)
(* The connection handlers of the two proxy servers, running inside the    *)
(* process of Lifecycle: handle of internal/proxy/socks5.go, and handle,   *)
(* handleConnect and handlePlain of http_proxy.go, with the checks of      *)
(* ProxyAuth (state.go).                                                   *)
(*                                                                         *)
(* One action per blocking call.  A read or write either succeeds with     *)
(* some message or fails, and may as well block for ever: the code sets no *)
(* deadline outside the tunnel.  The deferred calls of a handler are the   *)
(* stack it pushes them on, run last in, first out when it returns.  The   *)
(* limiter is used by its promise (Admission), the pool by a counter of    *)
(* leases (Pool); one attempt stands for the three of DialViaSocks, and    *)
(* what happens in a tunnel is Tunnel's.                                   *)
(***************************************************************************)
EXTENDS Lifecycle, FiniteSets, SequencesExt

CONSTANTS
    MaxConnGlobal,   \* cfg.Limits.MaxConnGlobal
    Slots,           \* inflight slots of all backends together
    AuthSettings,    \* the values ProxyAuth.enabled may have
    Targets          \* request targets of plain requests: path and query

ASSUME ProxyAssumption ==
    /\ Servers \subseteq {"socks5", "http"}
    /\ MaxConnGlobal \in Nat \ {0} /\ Slots \in Nat
    /\ AuthSettings \subseteq BOOLEAN
    /\ \A t \in Targets : t \in Seq({"a", "?", "%20"})

VARIABLES
    auth,       \* ProxyAuth.enabled: username and password are both set
    global,     \* ConnLimiter's leases
    inflight,   \* the pool's leases
    h           \* each handler

pvars == <<vars, auth, global, inflight, h>>

(* What a handler is waiting for: a peer, or nothing but its own turn.     *)
Waits == {"greeting", "password", "request", "readRequest", "handshake",
          "writeRequest", "readResponse", "respond", "tunnel", "copy"}
At == {"acquire", "dial", "connect", "return"} \cup Waits
Defers == {"conn.Close", "lease.Release", "backendLease.Release",
           "upstream.Close", "body.Close"}
NoTarget == <<>>

(* up, body: the upstream socket and the response body; said: the client   *)
(* keeps to the protocol, or it has left or broken it; cred: credentials,  *)
(* where they are looked at; told: the verdicts sent to it; asked, sent:   *)
(* the target of a plain request as it came in and as it went out.         *)
Idle == [at |-> "acquire", path |-> "none", defers |-> <<"conn.Close">>,
         up |-> "none", body |-> "none", said |-> "fine", cred |-> "none",
         told |-> <<>>, asked |-> NoTarget, sent |-> NoTarget]

PInit ==
    /\ Init
    /\ auth \in AuthSettings
    /\ global = 0
    /\ inflight = 0
    /\ h = [c \in Conns |-> Idle]

-----------------------------------------------------------------------------
Running(c, at) == Alive /\ conn[c] = "running" /\ h[c].at = at

Become(c, r) == h' = [h EXCEPT ![c] = r] /\ UNCHANGED <<vars, auth>>

(* Once it returns, a handler only has its deferred calls left to make. *)
Returning(r) == [r EXCEPT !.at = "return", !.path = "none", !.cred = "none",
                          !.asked = NoTarget, !.sent = NoTarget]
Told(r, verdict) == [r EXCEPT !.told = Append(@, verdict)]
Refused(r) == Returning(Told(r, "refused"))
Pushed(r, calls) == [r EXCEPT !.defers = @ \o calls]

(* Mutant of Acquire: the release of the lease is not deferred.            *)
Acquire_NoDefer(c) ==
    /\ Running(c, "acquire")
    /\ \/ /\ global < MaxConnGlobal
          /\ global' = global + 1
          /\ Become(c, [h[c] EXCEPT
                !.at = IF Arrivals[c] = "socks5" THEN "greeting"
                       ELSE "readRequest"])
       \/ Become(c, Refused(h[c])) /\ UNCHANGED global
    /\ UNCHANGED inflight

(* Limiter.Acquire: a lease within the limit, or a refusal (per IP, or by  *)
(* rate, at any time).                                                     *)
Acquire(c) ==
    /\ Running(c, "acquire")
    /\ \/ /\ global < MaxConnGlobal
          /\ global' = global + 1
          /\ Become(c, [Pushed(h[c], <<"lease.Release">>) EXCEPT
                !.at = IF Arrivals[c] = "socks5" THEN "greeting"
                       ELSE "readRequest"])
       \/ Become(c, Refused(h[c])) /\ UNCHANGED global
    /\ UNCHANGED inflight

-----------------------------------------------------------------------------
(* SOCKS5.                                                                 *)

(* The client has left or has broken the protocol. *)
Left(r) == [r EXCEPT !.said = "gone"]
Quits(r) == Returning(Left(r))

(* Mutant of Greeting: "no authentication" is accepted when it is offered. *)
Greeting_AcceptsNone(c) ==
    /\ Running(c, "greeting")
    /\ \/ Become(c, Quits(h[c]))
       \/ \E methods \in SUBSET {"none", "password"} :
            Become(c, IF "none" \in methods
                      THEN [h[c] EXCEPT !.at = "request", !.path = "socks5"]
                      ELSE IF auth /\ "password" \in methods
                      THEN [h[c] EXCEPT !.at = "password"]
                      ELSE Refused(h[c]))
    /\ UNCHANGED <<global, inflight>>

(* The greeting and the method chosen from it. *)
Greeting(c) ==
    /\ Running(c, "greeting")
    /\ \/ Become(c, Quits(h[c]))
       \/ \E methods \in SUBSET {"none", "password"} :
            Become(c, IF auth /\ "password" \in methods
                      THEN [h[c] EXCEPT !.at = "password"]
                      ELSE IF ~auth /\ "none" \in methods
                      THEN [h[c] EXCEPT !.at = "request", !.path = "socks5"]
                      ELSE Refused(h[c]))
    /\ UNCHANGED <<global, inflight>>

(* ProxyAuth.Check. *)
Check(cred) == ~auth \/ cred = "right"

(* RFC 1929. *)
Password(c) ==
    /\ Running(c, "password")
    /\ \/ Become(c, Quits(h[c]))
       \/ \E cred \in {"wrong", "right"} :
            LET r == [h[c] EXCEPT !.cred = cred] IN
            Become(c, IF Check(cred)
                      THEN [r EXCEPT !.at = "request", !.path = "socks5"]
                      ELSE Refused(r))
    /\ UNCHANGED <<global, inflight>>

(* Only CONNECT to a well-formed address goes on. *)
Request(c) ==
    /\ Running(c, "request")
    /\ \/ Become(c, Quits(h[c]))
       \/ Become(c, Refused(h[c]))
       \/ Become(c, [h[c] EXCEPT !.at = "dial"])
    /\ UNCHANGED <<global, inflight>>

-----------------------------------------------------------------------------
(* HTTP.                                                                   *)

(* A target on the wire is its text: plain pieces, "?" and escapes.        *)
(* handlePlain stores that text as the decoded Path and clears the query;  *)
(* writing the request escapes the Path once more.                         *)
Escape(t) == CASE t = "a"   -> "a"
               [] t = "?"   -> "%3F"
               [] t = "%20" -> "%2520"
RequestURI(target) == [i \in DOMAIN target |-> Escape(target[i])]

(* The request head: unreadable, without the right credentials, for a host *)
(* that does not parse, or for the dial loop.                              *)
ReadRequest(c) ==
    /\ Running(c, "readRequest")
    /\ \/ Become(c, Refused(Left(h[c])))
       \/ \E cred \in IF auth THEN {"wrong", "right"} ELSE {"none"},
             path \in {"connect", "plain"}, t \in Targets :
            LET r == [h[c] EXCEPT !.cred = cred] IN
            \/ ~Check(cred) /\ Become(c, Refused(r))
            \/ Check(cred) /\ Become(c, Refused(r))     \* bad host
            \/ /\ Check(cred)
               /\ Become(c, [r EXCEPT !.at = "dial", !.path = path,
                        !.asked = IF path = "plain" THEN t ELSE NoTarget])
    /\ UNCHANGED <<global, inflight>>

-----------------------------------------------------------------------------
(* DialViaSocks.                                                           *)

Select(c) ==
    /\ Running(c, "dial")
    /\ \/ /\ inflight < Slots
          /\ inflight' = inflight + 1
          /\ Become(c, [h[c] EXCEPT !.at = "connect"])
       \/ Become(c, Refused(h[c])) /\ UNCHANGED inflight
    /\ UNCHANGED global

(* DialContext fails once the context is done. *)
Connect(c) ==
    /\ Running(c, "connect") /\ ~cancelled
    /\ Become(c, [h[c] EXCEPT !.at = "handshake", !.up = "open"])
    /\ UNCHANGED <<global, inflight>>

(* Mutant of DialFails: tries again without counting its attempts.         *)
DialFails_Forever(c) ==
    /\ Running(c, "connect") \/ Running(c, "handshake")
    /\ inflight' = inflight - 1
    /\ Become(c, [h[c] EXCEPT !.up = "none", !.at = "dial"])
    /\ UNCHANGED global

(* Mutant of DialFails: the handler returns without answering.             *)
DialFails_Silent(c) ==
    /\ Running(c, "connect") \/ Running(c, "handshake")
    /\ inflight' = inflight - 1
    /\ Become(c, Returning([h[c] EXCEPT !.up = "none"]))
    /\ UNCHANGED global

(* The socket is closed, then the lease released; the client is told.      *)
DialFails(c) ==
    /\ Running(c, "connect") \/ Running(c, "handshake")
    /\ inflight' = inflight - 1
    /\ Become(c, Refused([h[c] EXCEPT !.up = "none"]))
    /\ UNCHANGED global

(* Mutant of DialOK: the two defers in the other order.                    *)
DialOK_SwappedDefers(c) ==
    /\ Running(c, "handshake")
    /\ LET r == Pushed(h[c], <<"upstream.Close", "backendLease.Release">>) IN
       Become(c, IF r.path = "plain" THEN [r EXCEPT !.at = "writeRequest"]
                 ELSE Told([r EXCEPT !.at = "tunnel"], "granted"))
    /\ UNCHANGED <<global, inflight>>

(* backendLease.Release and upstream.Close are deferred, in this order;    *)
(* SOCKS5 and CONNECT clients hear of success at once.                     *)
DialOK(c) ==
    /\ Running(c, "handshake")
    /\ LET r == Pushed(h[c], <<"backendLease.Release", "upstream.Close">>) IN
       Become(c, IF r.path = "plain" THEN [r EXCEPT !.at = "writeRequest"]
                 ELSE Told([r EXCEPT !.at = "tunnel"], "granted"))
    /\ UNCHANGED <<global, inflight>>

-----------------------------------------------------------------------------
(* handlePlain after the dial.                                             *)

WriteRequest(c) ==
    /\ Running(c, "writeRequest")
    /\ \/ Become(c, [h[c] EXCEPT !.at = "readResponse",
                                 !.sent = RequestURI(h[c].asked)])
       \/ Become(c, Refused(h[c]))
    /\ UNCHANGED <<global, inflight>>

ReadResponse(c) ==
    /\ Running(c, "readResponse")
    /\ \/ Become(c, [Pushed(h[c], <<"body.Close">>) EXCEPT
                        !.at = "respond", !.body = "open"])
       \/ Become(c, Refused(h[c]))
    /\ UNCHANGED <<global, inflight>>

(* resp.Write copies the whole body and closes it; an error is either side *)
(* breaking, with the head gone out or not.                                *)
Respond(c) ==
    /\ Running(c, "respond")
    /\ \/ Become(c, Told([h[c] EXCEPT !.at = "copy", !.body = "none"],
                         "granted"))
       \/ Become(c, Returning(Told(h[c], "granted")))
       \/ Become(c, Quits(h[c]))
    /\ UNCHANGED <<global, inflight>>

(* CopyBidirectional returns. *)
CopyReturns(c) ==
    /\ Running(c, "tunnel") \/ Running(c, "copy")
    /\ Become(c, Returning(h[c]))
    /\ UNCHANGED <<global, inflight>>

-----------------------------------------------------------------------------
(* Returning: the deferred calls.                                          *)

Popping(c, call) ==
    /\ Running(c, "return") /\ h[c].defers # <<>> /\ Last(h[c].defers) = call

Popped(r) == [r EXCEPT !.defers = Front(@)]

(* net/http: closing a chunked body that was not read to its end reads the *)
(* rest first, for as long as the upstream goes on sending.                *)
BodyClose(c) ==
    /\ Popping(c, "body.Close")
    /\ Become(c, [Popped(h[c]) EXCEPT !.body = "none"])
    /\ UNCHANGED <<global, inflight>>

CloseUpstream(c) ==
    /\ Popping(c, "upstream.Close")
    /\ Become(c, [Popped(h[c]) EXCEPT !.up = "none"])
    /\ UNCHANGED <<global, inflight>>

ReleaseBackend(c) ==
    /\ Popping(c, "backendLease.Release")
    /\ inflight' = inflight - 1
    /\ Become(c, Popped(h[c]))
    /\ UNCHANGED global

ReleaseConn(c) ==
    /\ Popping(c, "lease.Release")
    /\ global' = global - 1
    /\ Become(c, Popped(h[c]))
    /\ UNCHANGED inflight

CloseConn(c) ==
    /\ Popping(c, "conn.Close")
    /\ Become(c, Popped(h[c]))
    /\ UNCHANGED <<global, inflight>>

(* handle has returned and its locals are gone, but not what it left open; *)
(* from here on the handler is Lifecycle's.                                *)
Returns(c) ==
    /\ Running(c, "return") /\ h[c].defers = <<>>
    /\ HandlerReturns(c)
    /\ h' = [h EXCEPT ![c] = [Idle EXCEPT !.at = "return", !.defers = <<>>,
                              !.up = h[c].up, !.body = h[c].body]]
    /\ UNCHANGED <<auth, global, inflight>>

-----------------------------------------------------------------------------
Deferred(c) == CloseUpstream(c) \/ ReleaseBackend(c) \/ ReleaseConn(c)
               \/ CloseConn(c) \/ Returns(c)

Handler(c) ==
    \/ Acquire(c) \/ Greeting(c) \/ Password(c) \/ Request(c) \/ ReadRequest(c)
    \/ Select(c) \/ Connect(c) \/ DialFails(c) \/ DialOK(c)
    \/ WriteRequest(c) \/ ReadResponse(c) \/ Respond(c) \/ CopyReturns(c)
    \/ BodyClose(c) \/ Deferred(c)

(* The process ends, its handlers with it. *)
PExit ==
    /\ Exit
    /\ global' = 0 /\ inflight' = 0
    /\ h' = [c \in Conns |-> Idle]
    /\ UNCHANGED auth

PNext ==
    \/ Process /\ UNCHANGED <<auth, global, inflight, h>>
    \/ PExit
    \/ \E c \in Conns : Handler(c)

PSpec == PInit /\ [][PNext]_pvars

(* Fairness: that of Lifecycle, and a runnable handler runs; a TCP connect *)
(* ends within DialTimeout.  No peer owes anything.                        *)
PFairness ==
    \A c \in Conns :
        /\ []<>~Running(c, "acquire")
        /\ []<>~Running(c, "dial")
        /\ []<>~Running(c, "connect")
        /\ []<>~(Popping(c, "body.Close") /\ h[c].body = "none")
        /\ []<>~Popping(c, "upstream.Close")
        /\ []<>~Popping(c, "backendLease.Release")
        /\ []<>~Popping(c, "lease.Release")
        /\ []<>~Popping(c, "conn.Close")
        /\ []<>~(Running(c, "return") /\ h[c].defers = <<>>)

PFairSpec == PSpec /\ Fairness /\ PFairness

-----------------------------------------------------------------------------
(* Properties.                                                             *)

PTypeOK ==
    /\ TypeOK
    /\ auth \in AuthSettings
    /\ global \in 0..MaxConnGlobal /\ inflight \in 0..Slots
    /\ h \in [Conns -> [at : At, path : {"none", "socks5", "connect", "plain"},
                        defers : Seq(Defers), up : {"none", "open"},
                        body : {"none", "open"},
                        said : {"fine", "gone"},
                        cred : {"none", "wrong", "right"},
                        told : Seq({"granted", "refused"}),
                        asked : Targets \cup {NoTarget},
                        sent : Seq({"a", "%3F", "%2520"})]]

(* A drain that reports success tells the truth about everything its       *)
(* handlers held: none is left or can still start, their client and        *)
(* upstream sockets are closed, and when every server has drained, all     *)
(* leases are back -- on every path, error paths included.                 *)
DrainReleasesAll ==
    /\ DrainedMeansIdle
    /\ \A c \in Conns : conn[c] = "done" =>
           h[c].defers = <<>> /\ h[c].up # "open" /\ h[c].body # "open"
    /\ (\A s \in Servers : drained[s] = "all") => global = 0 /\ inflight = 0

(* An upstream connection never outlives the slot it is counted on: the    *)
(* connections open through the backends stay within their inflight limit. *)
LeaseCoversSocket ==
    Cardinality({c \in Conns : h[c].up = "open"}) <= inflight

(* With authentication on, nobody reaches a backend but a client that gave *)
(* the right credentials, whichever protocol and path it came by.          *)
AuthBeforeDial ==
    \A c \in Conns : auth /\ h[c].path # "none" => h[c].cred = "right"

(* A client that keeps to the protocol and stays gets exactly one verdict; *)
(* nobody gets two, such as an error page behind a granted tunnel.         *)
OneAnswer ==
    \A c \in Conns :
        /\ Len(h[c].told) <= 1
        /\ Running(c, "return") /\ h[c].said = "fine" => Len(h[c].told) = 1

(* A handler that never finishes is stuck in one call on a peer from some  *)
(* point on (the end of an unread response body included): the code never  *)
(* loops, and never keeps leases while it waits for nothing.               *)
StuckOnlyOnPeers ==
    \A c \in Conns :
        <>[](Alive /\ conn[c] = "running") =>
        <>[](h[c].at \in Waits \/ Popping(c, "body.Close"))

(* "HTTP CONNECT / absolute-form proxy": an absolute-form request reaches  *)
(* the upstream with the path and query the client asked for.              *)
TargetPreserved ==
    \A c \in Conns : h[c].sent # NoTarget => h[c].sent = h[c].asked
=============================================================================
