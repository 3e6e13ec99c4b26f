------------------------------ MODULE Admission ------------------------------
(***************************************************************************)
(* What ConnLimiter promises, with none of its counters: connections hold  *)
(* leases; a lease is granted only while fewer than the limit are out, in  *)
(* all and to that peer.  Refusing is always allowed (a stuttering step).  *)
(***************************************************************************)
EXTENDS Integers, FiniteSets

CONSTANTS Conns, IPs, NoIP, NoLease, MaxGlobal, MaxPerIP

VARIABLE lease      \* the peer each connection is admitted for, or NoLease

AInit == lease = [c \in Conns |-> NoLease]

Admitted == {c \in Conns : lease[c] # NoLease}
AdmittedFor(ip) == {c \in Conns : lease[c] = ip}

Grant(c, ip) ==
    /\ lease[c] = NoLease
    /\ MaxGlobal > 0 => Cardinality(Admitted) < MaxGlobal
    /\ ip # NoIP /\ MaxPerIP > 0 => Cardinality(AdmittedFor(ip)) < MaxPerIP
    /\ lease' = [lease EXCEPT ![c] = ip]

Return(c) ==
    /\ lease[c] # NoLease
    /\ lease' = [lease EXCEPT ![c] = NoLease]

ANext ==
    \E c \in Conns : Return(c) \/ \E ip \in IPs \cup {NoIP} : Grant(c, ip)

ASpec == AInit /\ [][ANext]_lease
=============================================================================
