---------------------------- MODULE TunnelProofs ----------------------------
(***************************************************************************)
(* Theorems about the tunnel, for every idle timeout and every cap: its    *)
(* clocks stay within their bounds, and a direction ends only for a reason *)
(* of its own.                                                             *)
(***************************************************************************)
EXTENDS Tunnel, TLAPS

Other(d) == IF d = "down" THEN "up" ELSE "down"

(* A blocked read started no longer ago than its source was last heard of, *)
(* so its deadline passes only on a source that was silent for Idle.       *)
ReadClock ==
    \A d \in Dirs : pc[d] = "read" => rd[From(d)] + heard[From(d)] >= Idle

(* The same for a blocked write and its destination -- except between a    *)
(* read from that destination by the other direction and the touch that    *)
(* moves the write deadline; no time passes there, and the deadline had    *)
(* not passed before.                                                      *)
WriteClock ==
    \A d \in Dirs : pc[d] = "write" =>
        \/ wd[To(d)] + heard[To(d)] >= Idle
        \/ pc[Other(d)] = "touch" /\ wd[To(d)] > 0

(* Only the cap closes connections. *)
CloseInv == closed # {} => Cap > 0 /\ life = 0

TunnelInv == TypeOK /\ ReadClock /\ WriteClock /\ CloseInv

-----------------------------------------------------------------------------
(* The effective timeout is positive and the cap is not negative.          *)
LEMMA Timeouts ==
  ASSUME call \in Calls
  PROVE  Idle \in Nat /\ Idle > 0 /\ Cap \in Nat
  BY TunnelAssumption
     DEF Calls, Socks5Call, ConnectCall, Idle, IdleOf, Cap, CapOf

(* The arguments of the call never change, nor what follows from them.     *)
LEMMA SameCall ==
  ASSUME call' = call PROVE Idle' = Idle /\ Cap' = Cap
  BY DEF Idle, Cap

(* The ends of a direction.                                                *)
LEMMA Ends ==
  /\ \A d \in Dirs : /\ From(d) \in Sides /\ To(d) \in Sides
                     /\ Other(d) \in Dirs /\ Other(d) # d
                     /\ From(Other(d)) = To(d) /\ From(d) # To(d)
  /\ \A d, e \in Dirs : d # e =>
         e = Other(d) /\ From(d) # From(e) /\ To(d) # To(e)
  BY DEF Dirs, Sides, From, To, Other

LEMMA TunnelInit == ASSUME Init PROVE TunnelInv
<1>1. call \in Calls  BY DEF Init
<1>2. TypeOK
  BY <1>1, Timeouts DEF Init, TypeOK, Dirs, Sides
<1> QED
  BY <1>1, <1>2 DEF Init, TunnelInv, ReadClock, WriteClock, CloseInv, Dirs

-----------------------------------------------------------------------------
(* One lemma per action.                                                   *)

(* The read deadline is armed anew.                                        *)
LEMMA ArmReadStep ==
  ASSUME TunnelInv, NEW d \in Dirs, ArmRead(d) PROVE TunnelInv'
<1> USE Ends, SameCall, Timeouts DEF TunnelInv, TypeOK, ArmRead, netVars
<1>1. TypeOK'  OBVIOUS
<1>2. ReadClock'  BY DEF ReadClock
<1>3. WriteClock'  BY DEF WriteClock
<1>4. CloseInv'  BY DEF CloseInv
<1> QED  BY <1>1, <1>2, <1>3, <1>4

(* A byte arrives; deadlines that have passed come first (Prompt).         *)
LEMMA ReadBytesStep ==
  ASSUME TunnelInv, NEW d \in Dirs, ReadBytes(d) PROVE TunnelInv'
<1> USE Ends, SameCall, Timeouts DEF TunnelInv, TypeOK, ReadBytes, netVars, Prompt, Overdue
<1>1. TypeOK'  OBVIOUS
<1>2. ReadClock'  BY DEF ReadClock
<1>3. WriteClock'  BY DEF WriteClock
<1>4. CloseInv'  BY DEF CloseInv
<1> QED  BY <1>1, <1>2, <1>3, <1>4

(* The write deadline of the connection that was read is moved.            *)
LEMMA TouchStep ==
  ASSUME TunnelInv, NEW d \in Dirs, Touch(d) PROVE TunnelInv'
<1> USE Ends, SameCall, Timeouts DEF TunnelInv, TypeOK, Touch, netVars
<1>1. TypeOK'  OBVIOUS
<1>2. ReadClock'  BY DEF ReadClock
<1>3. WriteClock'  BY DEF WriteClock
<1>4. CloseInv'  BY DEF CloseInv
<1> QED  BY <1>1, <1>2, <1>3, <1>4

(* A read fails.                                                           *)
LEMMA ReadFailsStep ==
  ASSUME TunnelInv, NEW d \in Dirs, ReadFails(d) PROVE TunnelInv'
<1> USE Ends, SameCall, Timeouts DEF TunnelInv, TypeOK, ReadFails, netVars
<1>1. TypeOK'  OBVIOUS
<1>2. ReadClock'  BY DEF ReadClock
<1>3. WriteClock'  BY DEF WriteClock
<1>4. CloseInv'  BY DEF CloseInv
<1> QED  BY <1>1, <1>2, <1>3, <1>4

(* The write deadline is armed anew.                                       *)
LEMMA ArmWriteStep ==
  ASSUME TunnelInv, NEW d \in Dirs, ArmWrite(d) PROVE TunnelInv'
<1> USE Ends, SameCall, Timeouts DEF TunnelInv, TypeOK, ArmWrite, netVars
<1>1. TypeOK'  OBVIOUS
<1>2. ReadClock'  BY DEF ReadClock
<1>3. WriteClock'  BY DEF WriteClock
<1>4. CloseInv'  BY DEF CloseInv
<1> QED  BY <1>1, <1>2, <1>3, <1>4

(* A byte is written.                                                      *)
LEMMA WriteBytesStep ==
  ASSUME TunnelInv, NEW d \in Dirs, WriteBytes(d) PROVE TunnelInv'
<1> USE Ends, SameCall, Timeouts DEF TunnelInv, TypeOK, WriteBytes, netVars
<1>1. TypeOK'  OBVIOUS
<1>2. ReadClock'  BY DEF ReadClock
<1>3. WriteClock'  BY DEF WriteClock
<1>4. CloseInv'  BY DEF CloseInv
<1> QED  BY <1>1, <1>2, <1>3, <1>4

(* A write fails.                                                          *)
LEMMA WriteFailsStep ==
  ASSUME TunnelInv, NEW d \in Dirs, WriteFails(d) PROVE TunnelInv'
<1> USE Ends, SameCall, Timeouts DEF TunnelInv, TypeOK, WriteFails, netVars
<1>1. TypeOK'  OBVIOUS
<1>2. ReadClock'  BY DEF ReadClock
<1>3. WriteClock'  BY DEF WriteClock
<1>4. CloseInv'  BY DEF CloseInv
<1> QED  BY <1>1, <1>2, <1>3, <1>4

(* A copy has ended.                                                       *)
LEMMA HalfCloseStep ==
  ASSUME TunnelInv, NEW d \in Dirs, HalfClose(d) PROVE TunnelInv'
<1> USE Ends, SameCall, Timeouts DEF TunnelInv, TypeOK, HalfClose, netVars
<1>1. TypeOK'  OBVIOUS
<1>2. ReadClock'  BY DEF ReadClock
<1>3. WriteClock'  BY DEF WriteClock
<1>4. CloseInv'  BY DEF CloseInv
<1> QED  BY <1>1, <1>2, <1>3, <1>4

(* A far end has sent its last byte.                                       *)
LEMMA PeerFinStep ==
  ASSUME TunnelInv, NEW x \in Sides, PeerFin(x) PROVE TunnelInv'
<1> USE Ends, SameCall, Timeouts DEF TunnelInv, TypeOK, PeerFin, netVars
<1>1. TypeOK'  OBVIOUS
<1>2. ReadClock'  BY DEF ReadClock
<1>3. WriteClock'  BY DEF WriteClock
<1>4. CloseInv'  BY DEF CloseInv
<1> QED  BY <1>1, <1>2, <1>3, <1>4

(* A far end is gone.                                                      *)
LEMMA PeerGoneStep ==
  ASSUME TunnelInv, NEW x \in Sides, PeerGone(x) PROVE TunnelInv'
<1> USE Ends, SameCall, Timeouts DEF TunnelInv, TypeOK, PeerGone, netVars
<1>1. TypeOK'  OBVIOUS
<1>2. ReadClock'  BY DEF ReadClock
<1>3. WriteClock'  BY DEF WriteClock
<1>4. CloseInv'  BY DEF CloseInv
<1> QED  BY <1>1, <1>2, <1>3, <1>4

(* The cap fires.                                                          *)
LEMMA CapFiresStep ==
  ASSUME TunnelInv, CapFires PROVE TunnelInv'
<1> USE Ends, SameCall, Timeouts DEF TunnelInv, TypeOK, CapFires, netVars
<1>1. TypeOK'  OBVIOUS
<1>2. ReadClock'  BY DEF ReadClock
<1>3. WriteClock'  BY DEF WriteClock
<1>4. CloseInv'  BY DEF CloseInv
<1> QED  BY <1>1, <1>2, <1>3, <1>4

(* A tick moves deadlines and silences alike, towards each other's bounds. *)
LEMMA TickStep ==
  ASSUME TunnelInv, Tick PROVE TunnelInv'
<1> USE Ends, SameCall, Timeouts DEF TunnelInv, TypeOK, Tick, netVars, Down, Up
<1>1. TypeOK'  OBVIOUS
<1>2. ReadClock'  BY DEF ReadClock
<1>3. WriteClock'  BY DEF WriteClock
<1>4. CloseInv'  BY DEF CloseInv
<1> QED  BY <1>1, <1>2, <1>3, <1>4

-----------------------------------------------------------------------------
(* Every step keeps the invariant.                                         *)
LEMMA TunnelStep == ASSUME TunnelInv, [Next]_vars PROVE TunnelInv'
<1>1. CASE UNCHANGED vars
  BY <1>1, SameCall
     DEF vars, TunnelInv, TypeOK, ReadClock, WriteClock, CloseInv
<1>2. ASSUME NEW d \in Dirs, Run(d) PROVE TunnelInv'
  BY <1>2, ArmReadStep, TouchStep, ReadFailsStep, ArmWriteStep,
     WriteFailsStep, HalfCloseStep DEF Run
<1>3. CASE Finished  BY <1>1, <1>3 DEF Finished
<1> QED
  BY <1>1, <1>2, <1>3, ReadBytesStep, WriteBytesStep, PeerFinStep,
     PeerGoneStep, CapFiresStep, TickStep DEF Next

(* The inductive invariant of the tunnel holds in every reachable state of *)
(* CopyBidirectional, whatever the timeouts.                               *)
THEOREM TunnelInvariant == Spec => []TunnelInv
  BY TunnelInit, TunnelStep, PTL DEF Spec

(* Deadlines, silences and the cap's timer stay within their bounds: no    *)
(* idleConn deadline is ever later than one idle timeout from now.         *)
THEOREM TunnelTypes == Spec => []TypeOK
<1>1. TunnelInv => TypeOK  BY DEF TunnelInv
<1> QED  BY <1>1, TunnelInvariant, PTL

(* A direction ends only for a reason of its own: the half-close of the    *)
(* other one never ends it, however the two share their deadlines.         *)
THEOREM DirectionsIndependent == Spec => HalfCloseKeepsOther
<1>1. ASSUME TunnelInv, [Next]_vars, NEW d \in Dirs,
             pc[d] # "shut", pc'[d] = "shut"
      PROVE  \/ peer[From(d)] # "open" \/ peer[To(d)] = "gone"
             \/ Cap > 0 /\ life = 0
             \/ pc[d] = "read" /\ heard[From(d)] = Idle
             \/ pc[d] = "write" /\ heard[To(d)] = Idle
  <2>1. ReadFails(d) \/ WriteFails(d)
    BY <1>1 DEF TunnelInv, TypeOK, Next, Run, ArmRead, ReadBytes, Touch,
       ReadFails, ArmWrite, WriteBytes, WriteFails, HalfClose, PeerFin,
       PeerGone, CapFires, Tick, Finished, vars
  <2>2. CASE ReadFails(d)
    BY <1>1, <2>2, Ends, Timeouts
       DEF ReadFails, TunnelInv, TypeOK, ReadClock, CloseInv
  <2>3. CASE WriteFails(d)
    BY <1>1, <2>3, Ends, Timeouts
       DEF WriteFails, TunnelInv, TypeOK, WriteClock, CloseInv
  <2> QED  BY <2>1, <2>2, <2>3
<1>2. TunnelInv /\ [Next]_vars =>
      [\A d \in Dirs : pc[d] # "shut" /\ pc'[d] = "shut" =>
        \/ peer[From(d)] # "open" \/ peer[To(d)] = "gone"
        \/ Cap > 0 /\ life = 0
        \/ pc[d] = "read" /\ heard[From(d)] = Idle
        \/ pc[d] = "write" /\ heard[To(d)] = Idle]_vars
  BY <1>1
<1> QED  BY <1>2, TunnelInvariant, PTL DEF Spec, HalfCloseKeepsOther
=============================================================================
