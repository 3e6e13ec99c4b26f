------------------------------- MODULE Tunnel -------------------------------
(***************************************************************************)
(* CopyBidirectional and idleConn of internal/proxy/tunnel.go: the two     *)
(* copying goroutines of one established connection, the read and write    *)
(* deadlines they share through their idleConn wrappers, half-close and    *)
(* the absolute cap on streams.                                            *)
(*                                                                         *)
(* "a" is the client's connection and "b" the upstream's; direction "down" *)
(* copies a to b and "up" copies b to a (the code's names).  A deadline is *)
(* kept as the ticks left until it passes.  A byte chunk is one read       *)
(* followed by one write; its contents are irrelevant.  Both connections   *)
(* are TCP sockets, as they are for SOCKS5 and HTTP CONNECT; the plain     *)
(* HTTP path wraps a response body instead and is not this module's.       *)
(***************************************************************************)
EXTENDS Integers

CONSTANTS
    IOTimeout,          \* cfg.Limits.IOTimeout, in minutes (= ticks)
    MaxStreamDuration   \* cfg.Streaming.MaxStreamDuration; <= 0 is no cap

ASSUME TunnelAssumption == IOTimeout \in Int /\ MaxStreamDuration \in Int

VARIABLES
    call,     \* the arguments CopyBidirectional was called with
    pc,       \* each direction: about to Read, blocked in it, ...
    rd, wd,   \* ticks left on each connection's read and write deadline
    closed,   \* connections closed by the cap
    shut,     \* connections whose write side was shut down
    peer,     \* the far end of each connection: sending, finished or gone
    life,     \* ticks left until the cap's AfterFunc
    heard     \* ticks, up to Idle, since a byte was last read from a side

vars == <<call, pc, rd, wd, closed, shut, peer, life, heard>>
netVars == <<call, closed, shut, peer, life>>

(* The two callers: a SOCKS5 tunnel is never a stream, an HTTP CONNECT     *)
(* tunnel always is.                                                       *)
Socks5Call == [idle |-> IOTimeout, streaming |-> FALSE, max |-> 0]
ConnectCall == [idle |-> IOTimeout, streaming |-> TRUE,
                max |-> MaxStreamDuration]
Calls == {Socks5Call, ConnectCall}

(* The effective idle timeout: at least 5 minutes for a stream, 2 minutes  *)
(* when none is configured.                                                *)
IdleOf(a) ==
    LET extended == IF a.streaming /\ a.idle < 5 THEN 5 ELSE a.idle
    IN  IF extended <= 0 THEN 2 ELSE extended

CapOf(a) == IF a.streaming /\ a.max > 0 THEN a.max ELSE 0

Idle == IdleOf(call)
Cap == CapOf(call)

Sides == {"a", "b"}
Dirs == {"down", "up"}
From(d) == IF d = "down" THEN "a" ELSE "b"
To(d) == IF d = "down" THEN "b" ELSE "a"

Init ==
    /\ call \in Calls
    /\ pc = [d \in Dirs |-> "arm"]
    /\ rd = [x \in Sides |-> Idle]
    /\ wd = [x \in Sides |-> Idle]
    /\ closed = {}
    /\ shut = {}
    /\ peer = [x \in Sides |-> "open"]
    /\ life = Cap
    /\ heard = [x \in Sides |-> 0]

-----------------------------------------------------------------------------
(* A deadline that has passed ends the call it bounds before anything else *)
(* happens on the tunnel: timers are prompt on the scale of a tick.        *)
Overdue(d) == \/ pc[d] = "read" /\ rd[From(d)] = 0
              \/ pc[d] = "write" /\ wd[To(d)] = 0
Prompt == \A d \in Dirs : ~Overdue(d)

(* idleConn.Read: arm the read deadline, read, and after a byte also move  *)
(* the write deadline of the same connection.                              *)

(* Mutant of ArmRead: extends the old deadline instead of resetting it.    *)
ArmRead_Extend(d) ==
    /\ pc[d] = "arm"
    /\ rd' = [rd EXCEPT ![From(d)] = @ + Idle]
    /\ pc' = [pc EXCEPT ![d] = "read"]
    /\ UNCHANGED <<wd, netVars, heard>>

ArmRead(d) ==
    /\ pc[d] = "arm"
    /\ rd' = [rd EXCEPT ![From(d)] = Idle]
    /\ pc' = [pc EXCEPT ![d] = "read"]
    /\ UNCHANGED <<wd, netVars, heard>>

ReadBytes(d) ==
    /\ pc[d] = "read" /\ Prompt
    /\ From(d) \notin closed /\ peer[From(d)] = "open"
    /\ pc' = [pc EXCEPT ![d] = "touch"]
    /\ heard' = [heard EXCEPT ![From(d)] = 0]
    /\ UNCHANGED <<rd, wd, netVars>>

Touch(d) ==
    /\ pc[d] = "touch"
    /\ wd' = [wd EXCEPT ![From(d)] = Idle]
    /\ pc' = [pc EXCEPT ![d] = "armw"]
    /\ UNCHANGED <<rd, netVars, heard>>

(* EOF, a reset, our own close or an expired deadline ends the copy. *)
ReadFails(d) ==
    /\ pc[d] = "read"
    /\ \/ rd[From(d)] = 0
       \/ From(d) \in closed
       \/ peer[From(d)] # "open"
    /\ pc' = [pc EXCEPT ![d] = "shut"]
    /\ UNCHANGED <<rd, wd, netVars, heard>>

-----------------------------------------------------------------------------
(* idleConn.Write: arm the write deadline, write.                          *)

ArmWrite(d) ==
    /\ pc[d] = "armw"
    /\ wd' = [wd EXCEPT ![To(d)] = Idle]
    /\ pc' = [pc EXCEPT ![d] = "write"]
    /\ UNCHANGED <<rd, netVars, heard>>

WriteBytes(d) ==
    /\ pc[d] = "write" /\ Prompt
    /\ To(d) \notin closed /\ peer[To(d)] # "gone"
    /\ pc' = [pc EXCEPT ![d] = "arm"]
    /\ UNCHANGED <<rd, wd, netVars, heard>>

(* Mutant of WriteFails: a blocked write has no deadline.                  *)
WriteFails_NoDeadline(d) ==
    /\ pc[d] = "write"
    /\ To(d) \in closed \/ peer[To(d)] = "gone"
    /\ pc' = [pc EXCEPT ![d] = "shut"]
    /\ UNCHANGED <<rd, wd, netVars, heard>>

WriteFails(d) ==
    /\ pc[d] = "write"
    /\ \/ wd[To(d)] = 0
       \/ To(d) \in closed
       \/ peer[To(d)] = "gone"
    /\ pc' = [pc EXCEPT ![d] = "shut"]
    /\ UNCHANGED <<rd, wd, netVars, heard>>

(* Mutant of HalfClose: closes the destination instead of its write side.  *)
HalfClose_Full(d) ==
    /\ pc[d] = "shut"
    /\ closed' = closed \cup {To(d)}
    /\ pc' = [pc EXCEPT ![d] = "done"]
    /\ UNCHANGED <<call, rd, wd, shut, peer, life, heard>>

(* After the copy: CloseWrite on the destination, which is a TCP socket.   *)
HalfClose(d) ==
    /\ pc[d] = "shut"
    /\ shut' = shut \cup {To(d)}
    /\ pc' = [pc EXCEPT ![d] = "done"]
    /\ UNCHANGED <<call, rd, wd, closed, peer, life, heard>>

-----------------------------------------------------------------------------
(* The far ends, the cap and the clock.                                    *)

PeerFin(x) ==
    /\ peer[x] = "open"
    /\ peer' = [peer EXCEPT ![x] = "fin"]
    /\ UNCHANGED <<call, pc, rd, wd, closed, shut, life, heard>>

PeerGone(x) ==
    /\ peer[x] # "gone"
    /\ peer' = [peer EXCEPT ![x] = "gone"]
    /\ UNCHANGED <<call, pc, rd, wd, closed, shut, life, heard>>

(* Mutant of CapFires: the cap spares a connection that is not idle.       *)
CapFires_OnlyIdle ==
    /\ Cap > 0 /\ life = 0 /\ closed # Sides
    /\ \A x \in Sides : heard[x] > 0
    /\ closed' = Sides
    /\ UNCHANGED <<call, pc, rd, wd, shut, peer, life, heard>>

(* time.AfterFunc(maxDuration): closes both connections, busy or not.      *)
CapFires ==
    /\ Cap > 0 /\ life = 0 /\ closed # Sides
    /\ closed' = Sides
    /\ UNCHANGED <<call, pc, rd, wd, shut, peer, life, heard>>

Down(n) == IF n > 0 THEN n - 1 ELSE 0
Up(n) == IF n < Idle THEN n + 1 ELSE Idle

(* A tick is minutes long: it passes only while both goroutines wait.      *)
Tick ==
    /\ \A d \in Dirs : pc[d] \in {"read", "write", "done"}
    /\ \E d \in Dirs : pc[d] # "done"
    /\ rd' = [x \in Sides |-> Down(rd[x])]
    /\ wd' = [x \in Sides |-> Down(wd[x])]
    /\ life' = Down(life)
    /\ heard' = [x \in Sides |-> Up(heard[x])]
    /\ UNCHANGED <<call, pc, closed, shut, peer>>

Returned == \A d \in Dirs : pc[d] = "done"

(* wg.Wait is over; the handler's defers close both connections. *)
Finished == Returned /\ UNCHANGED vars

-----------------------------------------------------------------------------
Run(d) == ArmRead(d) \/ Touch(d) \/ ReadFails(d) \/ ArmWrite(d)
          \/ WriteFails(d) \/ HalfClose(d)

Next ==
    \/ \E d \in Dirs : Run(d) \/ ReadBytes(d) \/ WriteBytes(d)
    \/ \E x \in Sides : PeerFin(x) \/ PeerGone(x)
    \/ CapFires \/ Tick \/ Finished

Spec == Init /\ [][Next]_vars

(* Time goes on for as long as the tunnel does, however busy it is; once   *)
(* every clock has run out, further ticks are invisible.                   *)
RunOut ==
    /\ life = 0
    /\ \A x \in Sides : rd[x] = 0 /\ wd[x] = 0 /\ heard[x] = Idle

TimePasses == []<>(Returned \/ RunOut) \/ []<><<Tick>>_vars

(* Fairness: goroutines and timers run and time passes.  The far ends owe  *)
(* nothing, neither bytes nor room to write.                               *)
FairSpec ==
    /\ Spec
    /\ \A d \in Dirs : WF_vars(Run(d))
    /\ WF_vars(CapFires)
    /\ TimePasses

-----------------------------------------------------------------------------
(* Properties.                                                             *)

TypeOK ==
    /\ call \in Calls
    /\ pc \in [Dirs -> {"arm", "read", "touch", "armw", "write", "shut", "done"}]
    /\ rd \in [Sides -> 0..Idle] /\ wd \in [Sides -> 0..Idle]
    /\ closed \subseteq Sides /\ shut \subseteq Sides
    /\ peer \in [Sides -> {"open", "fin", "gone"}]
    /\ life \in 0..Cap
    /\ heard \in [Sides -> 0..Idle]

(* Each direction ends for a reason of its own.  When the far end of one   *)
(* connection finishes and the copy from it is half-closed, the copy to it *)
(* goes on: it stops only when its source has ended or was silent for      *)
(* Idle, when its destination is gone, or has neither taken nor sent a     *)
(* byte for Idle, or at the cap.                                           *)
HalfCloseKeepsOther ==
    [][\A d \in Dirs : pc[d] # "shut" /\ pc'[d] = "shut" =>
        \/ peer[From(d)] # "open" \/ peer[To(d)] = "gone"
        \/ Cap > 0 /\ life = 0
        \/ pc[d] = "read" /\ heard[From(d)] = Idle
        \/ pc[d] = "write" /\ heard[To(d)] = Idle]_vars

(* No tunnel outlives its traffic: unless bytes keep moving for ever,      *)
(* CopyBidirectional returns, and with it go both leases of the handler.   *)
TunnelEnds == <>Returned \/ []<><<\E d \in Dirs : ReadBytes(d)>>_vars

(* The cap is absolute: a capped stream ends, however busy it is.          *)
CapEndsStream == Cap > 0 => <>Returned
=============================================================================
