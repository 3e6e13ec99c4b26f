------------------------- MODULE ConnLimiterProofs -------------------------
(***************************************************************************)
(* Proofs about ConnLimiter, for any number of handlers and peers, any     *)
(* limits and any clock: the counters are conserved, the limits are hard   *)
(* and the limiter implements Admission.                                   *)
(***************************************************************************)
EXTENDS ConnLimiter, FiniteSetTheorems, TLAPS

(* Sets of handlers are finite, and counting them behaves as it should:    *)
(* the facts every counting step below rests on.                           *)
LEMMA Counting ==
    ASSUME NEW S \in SUBSET Conns
    PROVE  /\ IsFiniteSet(S)
           /\ Cardinality(S) \in Nat
           /\ \A c \in Conns : c \notin S =>
                Cardinality(S \cup {c}) = Cardinality(S) + 1
           /\ \A c \in S : Cardinality(S \ {c}) = Cardinality(S) - 1
           /\ \A T \in SUBSET S : Cardinality(T) <= Cardinality(S)
<1>1. IsFiniteSet(S)
  BY FS_Subset, LimiterAssumption
<1>2. Cardinality(S) \in Nat
  BY <1>1, FS_CardinalityType
<1>3. \A c \in Conns : c \notin S => Cardinality(S \cup {c}) = Cardinality(S) + 1
  BY <1>1, FS_AddElement
<1>4. \A c \in S : Cardinality(S \ {c}) = Cardinality(S) - 1
  BY <1>1, FS_RemoveElement
<1>5. \A T \in SUBSET S : Cardinality(T) <= Cardinality(S)
  BY <1>1, FS_Subset
<1> QED
  BY <1>1, <1>2, <1>3, <1>4, <1>5

(* The refilled bucket of pool.go's token bucket is an integer. *)
LEMMA RefilledType ==
    ASSUME TypeOK, NEW ip \in IPs, NEW s \in Conns
    PROVE  Refilled(ip, s) \in Int
<1> DEFINE e == now - lastAt[ip][s]
<1>1. e \in Int /\ tokens[ip][s] \in Int
  BY DEF TypeOK
<1>2. e * MaxRPS \in Int
  BY <1>1, LimiterAssumption
<1> DEFINE p == e * MaxRPS
<1>3. p \div TicksPerSec \in Int
  <2> HIDE DEF p
  <2> p \in Int
    BY <1>2 DEF p
  <2> QED
    BY LimiterAssumption
<1> DEFINE q == p \div TicksPerSec
<1>4. q \in Int /\ Refilled(ip, s) = IF tokens[ip][s] + q > MaxRPS
                                     THEN MaxRPS ELSE tokens[ip][s] + q
  BY <1>3 DEF Refilled
<1> HIDE DEF q
<1> QED
  BY <1>1, <1>4, LimiterAssumption

(* Updating one field of one ipState keeps the table of fields well typed. *)
LEMMA TableUpdate ==
    ASSUME NEW f \in [IPs -> [Conns -> Int]], NEW ip \in IPs,
           NEW s \in Conns, NEW v \in Int
    PROVE  [f EXCEPT ![ip][s] = v] \in [IPs -> [Conns -> Int]]
<1>1. [f[ip] EXCEPT ![s] = v] \in [Conns -> Int]
  OBVIOUS
<1> QED
  BY <1>1

LEMMA InitInv == Init => LimiterInv
<1> SUFFICES ASSUME Init PROVE LimiterInv
  OBVIOUS
<1>1. TypeOK
  BY LimiterAssumption DEF Init, TypeOK, PC
<1>2. Counted = {} /\ \A ip \in IPs : CountedAt(ip) = {}
  BY DEF Init, Counted, CountedAt
<1>3. Passed = {} /\ \A ip \in IPs : PassedAt(ip) = {}
  BY <1>2 DEF Passed, PassedAt
<1>4. GlobalConserved /\ PerIPConserved
  BY <1>2, FS_EmptySet DEF Init, GlobalConserved, PerIPConserved
<1>5. RoomInv
  BY <1>3, FS_EmptySet, LimiterAssumption DEF RoomInv
<1>6. PeerInv /\ RefInv /\ UnusedInv
  BY LimiterAssumption DEF Init, PeerInv, RefInv, UnusedInv
<1> QED
  BY <1>1, <1>4, <1>5, <1>6 DEF LimiterInv

-----------------------------------------------------------------------------
(* One lemma per action.  First what they share: the sets that are counted *)
(* are sets of handlers, and when the handlers that have passed a check    *)
(* only become fewer, the limits still have room for them.                 *)

LEMMA CountedSets ==
    /\ Counted \in SUBSET Conns /\ Passed \in SUBSET Conns
    /\ \A ip \in IPs : /\ CountedAt(ip) \in SUBSET Conns
                       /\ PassedAt(ip) \in SUBSET Conns
  BY DEF Counted, Passed, CountedAt, PassedAt

LEMMA RoomShrinks ==
    ASSUME RoomInv, Passed' \in SUBSET Passed,
           \A ip \in IPs : PassedAt(ip)' \in SUBSET PassedAt(ip)
    PROVE  RoomInv'
<1>1. Cardinality(Passed') <= Cardinality(Passed)
      /\ Cardinality(Passed) \in Nat /\ Cardinality(Passed') \in Nat
  <2>1. Passed \in SUBSET Conns /\ Passed' \in SUBSET Conns
    BY CountedSets
  <2> QED
    BY <2>1, Counting
<1>2. ASSUME NEW ip \in IPs
      PROVE  Cardinality(PassedAt(ip)') <= Cardinality(PassedAt(ip))
             /\ Cardinality(PassedAt(ip)) \in Nat
             /\ Cardinality(PassedAt(ip)') \in Nat
  <2>1. PassedAt(ip) \in SUBSET Conns /\ PassedAt(ip)' \in SUBSET Conns
    BY CountedSets
  <2> QED
    BY <2>1, Counting
<1>3. MaxGlobal > 0 => Cardinality(Passed') <= MaxGlobal
  BY <1>1, LimiterAssumption DEF RoomInv
<1>4. MaxPerIP > 0 => \A ip \in IPs : Cardinality(PassedAt(ip)') <= MaxPerIP
  BY <1>2, LimiterAssumption DEF RoomInv
<1> QED
  BY <1>3, <1>4 DEF RoomInv

(* Acquire's global.Add(1): the value a handler checks counts every        *)
(* handler that passed before it.                                          *)
LEMMA ArriveInv ==
    ASSUME LimiterInv, NEW c \in Conns, NEW ip \in IPs \cup {NoIP},
           Arrive(c, ip)
    PROVE  LimiterInv'
<1> USE DEF LimiterInv
<1>1. Counted' = Counted \cup {c} /\ c \notin Counted
  BY LimiterAssumption DEF Arrive, Counted, TypeOK
<1>2. \A k \in IPs : CountedAt(k)' = CountedAt(k) /\ PassedAt(k)' = PassedAt(k)
  BY LimiterAssumption DEF Arrive, CountedAt, PassedAt, TypeOK
<1>3. GlobalConserved' /\ global' \in Nat
  BY <1>1, Counting, CountedSets DEF Arrive, GlobalConserved
<1>4. TypeOK'
  BY <1>3 DEF Arrive, TypeOK, PC, bucketVars
<1>5. PerIPConserved'
  BY <1>2 DEF Arrive, PerIPConserved
<1>6. RoomInv'
  <2>1. CASE Over(MaxGlobal, global + 1)
    <3>1. Passed' = Passed
      BY <2>1 DEF Arrive, Passed, Counted, TypeOK
    <3> QED
      BY <3>1, <1>2, RoomShrinks
  <2>2. CASE ~Over(MaxGlobal, global + 1)
    <3>1. Passed' \in SUBSET Counted'
      BY DEF Passed
    <3>2. Counted' \in SUBSET Conns
      BY DEF Counted
    <3>3. Cardinality(Passed') <= Cardinality(Counted')
      BY <3>1, <3>2, Counting
    <3>4. Cardinality(Counted') = global + 1
      BY <1>3 DEF Arrive, GlobalConserved
    <3>5. Cardinality(Passed') \in Nat
      BY <3>1, <3>2, Counting
    <3>6. MaxGlobal > 0 => Cardinality(Passed') <= MaxGlobal
      BY <2>2, <3>3, <3>4, <3>5, LimiterAssumption DEF Over, TypeOK
    <3> QED
      BY <3>6, <1>2 DEF RoomInv
  <2> QED
    BY <2>1, <2>2
<1>7. PeerInv' /\ RefInv' /\ UnusedInv'
  BY LimiterAssumption DEF Arrive, PeerInv, RefInv, UnusedInv, TypeOK, Over
<1> QED
  BY <1>3, <1>4, <1>5, <1>6, <1>7

LEMMA UndoGlobalInv ==
    ASSUME LimiterInv, NEW c \in Conns, UndoGlobal(c)
    PROVE  LimiterInv'
<1> USE DEF LimiterInv
<1>1. Counted' = Counted \ {c} /\ c \in Counted /\ Passed' = Passed
  BY DEF UndoGlobal, Counted, Passed, TypeOK
<1>2. \A k \in IPs : CountedAt(k)' = CountedAt(k) /\ PassedAt(k)' = PassedAt(k)
  BY LimiterAssumption DEF UndoGlobal, CountedAt, PassedAt, TypeOK
<1>3. GlobalConserved' /\ global' \in Nat
  <2>1. Cardinality(Counted') = Cardinality(Counted) - 1
        /\ Cardinality(Counted') \in Nat
    BY <1>1, Counting, CountedSets
  <2> QED
    BY <2>1 DEF UndoGlobal, GlobalConserved
<1>4. TypeOK'
  BY <1>3 DEF UndoGlobal, TypeOK, PC, bucketVars
<1>5. PerIPConserved'
  BY <1>2 DEF UndoGlobal, PerIPConserved
<1>6. RoomInv'
  BY <1>1, <1>2, RoomShrinks
<1>7. PeerInv' /\ RefInv' /\ UnusedInv'
  BY LimiterAssumption DEF UndoGlobal, PeerInv, RefInv, UnusedInv, TypeOK
<1> QED
  BY <1>3, <1>4, <1>5, <1>6, <1>7

LEMMA LookupInv ==
    ASSUME LimiterInv, NEW c \in Conns, Lookup(c)
    PROVE  LimiterInv'
<1> USE DEF LimiterInv
<1>1. Counted' = Counted /\ Passed' = Passed
  BY DEF Lookup, Counted, Passed, TypeOK
<1>2. \A k \in IPs : CountedAt(k)' = CountedAt(k) /\ PassedAt(k)' = PassedAt(k)
  BY DEF Lookup, CountedAt, PassedAt, TypeOK
<1>3. peer[c] \in IPs
  BY DEF Lookup, PeerInv
<1>4. TypeOK' /\ GlobalConserved' /\ PerIPConserved'
  BY <1>1, <1>2, <1>3
  DEF Lookup, TypeOK, PC, bucketVars, GlobalConserved, PerIPConserved
<1>5. RoomInv'
  BY <1>1, <1>2, RoomShrinks
<1>6. PeerInv' /\ RefInv' /\ UnusedInv'
  BY <1>3 DEF Lookup, PeerInv, RefInv, UnusedInv, TypeOK
<1> QED
  BY <1>4, <1>5, <1>6

(* LoadOrStore: the state of an IP is stored once and is unused until then. *)
LEMMA CreateInv ==
    ASSUME LimiterInv, NEW c \in Conns, Create(c)
    PROVE  LimiterInv'
<1> USE DEF LimiterInv
<1>1. Counted' = Counted /\ Passed' = Passed
  BY DEF Create, Counted, Passed, TypeOK
<1>2. \A k \in IPs : CountedAt(k)' = CountedAt(k) /\ PassedAt(k)' = PassedAt(k)
  BY DEF Create, CountedAt, PassedAt, TypeOK
<1>3. peer[c] \in IPs /\ c # NoState
  BY LimiterAssumption DEF Create, PeerInv
<1>4. TypeOK' /\ GlobalConserved'
  BY <1>1, <1>3 DEF Create, TypeOK, PC, bucketVars, GlobalConserved
<1>5. PerIPConserved'
  <2> SUFFICES ASSUME NEW k \in IPs
               PROVE  IF perIP'[k] = NoState THEN CountedAt(k)' = {}
                      ELSE conns'[k][perIP'[k]] = Cardinality(CountedAt(k)')
    BY DEF PerIPConserved
  <2>1. CASE perIP'[k] = perIP[k]
    BY <2>1, <1>2 DEF Create, PerIPConserved
  <2>2. CASE perIP'[k] # perIP[k]
    <3>1. perIP[k] = NoState /\ perIP'[k] = c
      BY <2>2, <1>3 DEF Create, TypeOK
    <3>2. CountedAt(k)' = {}
      BY <3>1, <1>2 DEF PerIPConserved
    <3>3. conns'[k][c] = 0
      BY <3>1, <1>3 DEF Create, UnusedInv
    <3> QED
      BY <3>1, <3>2, <3>3, <1>3, FS_EmptySet
  <2> QED
    BY <2>1, <2>2
<1>6. RoomInv'
  BY <1>1, <1>2, RoomShrinks
<1>7. PeerInv' /\ UnusedInv'
  BY <1>3, LimiterAssumption DEF Create, PeerInv, UnusedInv, TypeOK
<1>8. RefInv'
  BY <1>3 DEF Create, RefInv, TypeOK
<1> QED
  BY <1>4, <1>5, <1>6, <1>7, <1>8

(* conns.Add(1): as for the global counter, the value checked counts every *)
(* handler that passed before.                                             *)
LEMMA CountInv ==
    ASSUME LimiterInv, NEW c \in Conns, Count(c)
    PROVE  LimiterInv'
<1> USE DEF LimiterInv
<1> PICK ip \in IPs : peer[c] = ip
  BY DEF Count, PeerInv
<1> DEFINE n == conns[ip][perIP[ip]]
<1>1. ip \in IPs /\ ref[c] = perIP[ip] /\ perIP[ip] \in Conns
  BY DEF Count, PeerInv, RefInv, TypeOK
<1>2. Counted' = Counted /\ Passed' = Passed
  BY DEF Count, Counted, Passed, TypeOK, Over
<1>3. CountedAt(ip)' = CountedAt(ip) \cup {c} /\ c \notin CountedAt(ip)
  BY DEF Count, CountedAt, TypeOK, Over
<1>4. \A k \in IPs \ {ip} : CountedAt(k)' = CountedAt(k)
                            /\ PassedAt(k)' = PassedAt(k)
  BY DEF Count, CountedAt, PassedAt, TypeOK
<1>5. n \in Int /\ n = Cardinality(CountedAt(ip))
  BY <1>1, LimiterAssumption DEF PerIPConserved, TypeOK
<1>6. Cardinality(CountedAt(ip)') = n + 1
  BY <1>1, <1>3, <1>5, Counting, CountedSets
<1>7. TypeOK' /\ GlobalConserved'
  BY <1>1, <1>2 DEF Count, AddConns, TypeOK, PC, bucketVars, GlobalConserved
<1>8. perIP' = perIP /\ conns'[ip][perIP[ip]] = n + 1
      /\ \A k \in IPs \ {ip} : conns'[k] = conns[k]
  BY <1>1 DEF Count, AddConns, TypeOK
<1>9. PerIPConserved'
  <2> HIDE DEF n
  <2> QED
    BY <1>1, <1>4, <1>6, <1>8, LimiterAssumption DEF PerIPConserved
<1>10. RoomInv'
  <2>1. CASE Over(MaxPerIP, n + 1)
    <3>1. PassedAt(ip)' = PassedAt(ip)
      BY <2>1, <1>1 DEF Count, PassedAt, CountedAt, TypeOK
    <3> QED
      BY <3>1, <1>2, <1>4, RoomShrinks
  <2>2. CASE ~Over(MaxPerIP, n + 1)
    <3>1. PassedAt(ip)' \in SUBSET CountedAt(ip)'
          /\ CountedAt(ip)' \in SUBSET Conns
      BY DEF PassedAt, CountedAt
    <3>2. Cardinality(PassedAt(ip)') <= Cardinality(CountedAt(ip)')
          /\ Cardinality(PassedAt(ip)') \in Nat
      BY <3>1, Counting
    <3>3. MaxPerIP > 0 => Cardinality(PassedAt(ip)') <= MaxPerIP
      <4> HIDE DEF n
      <4> QED
        BY <2>2, <3>2, <1>5, <1>6, LimiterAssumption DEF Over
    <3> QED
      BY <3>3, <1>1, <1>2, <1>4 DEF RoomInv
  <2> QED
    BY <2>1, <2>2
<1>11. PeerInv' /\ RefInv' /\ UnusedInv'
  BY <1>1 DEF Count, AddConns, PeerInv, RefInv, UnusedInv, TypeOK
<1> QED
  BY <1>7, <1>9, <1>10, <1>11

(* A handler leaves the count of its IP: UndoConn and ReleaseConn. *)
LEMMA UndoConnInv ==
    ASSUME LimiterInv, NEW c \in Conns, UndoConn(c)
    PROVE  LimiterInv'
<1> USE DEF LimiterInv
<1> PICK ip \in IPs : peer[c] = ip
  BY DEF UndoConn, PeerInv
<1> DEFINE n == conns[ip][perIP[ip]]
<1>1. ip \in IPs /\ ref[c] = perIP[ip] /\ perIP[ip] \in Conns
  BY DEF UndoConn, PeerInv, RefInv, TypeOK
<1>2. Counted' = Counted /\ Passed' = Passed \ {c}
  BY DEF UndoConn, Counted, Passed, TypeOK
<1>3. CountedAt(ip)' = CountedAt(ip) \ {c} /\ c \in CountedAt(ip)
  BY DEF UndoConn, CountedAt, TypeOK
<1>4. /\ \A k \in IPs \ {ip} : CountedAt(k)' = CountedAt(k)
      /\ \A k \in IPs : PassedAt(k)' = PassedAt(k)
  BY DEF UndoConn, CountedAt, PassedAt, TypeOK
<1>5. n \in Int /\ n = Cardinality(CountedAt(ip))
  BY <1>1, LimiterAssumption DEF PerIPConserved, TypeOK
<1>6. Cardinality(CountedAt(ip)') = n - 1
  BY <1>1, <1>3, <1>5, Counting, CountedSets
<1>7. TypeOK' /\ GlobalConserved'
  BY <1>1, <1>2 DEF UndoConn, AddConns, TypeOK, PC, bucketVars, GlobalConserved
<1>8. perIP' = perIP /\ conns'[ip][perIP[ip]] = n - 1
      /\ \A k \in IPs \ {ip} : conns'[k] = conns[k]
  BY <1>1 DEF UndoConn, AddConns, TypeOK
<1>9. PerIPConserved'
  <2> HIDE DEF n
  <2> QED
    BY <1>1, <1>4, <1>6, <1>8, LimiterAssumption DEF PerIPConserved
<1>10. RoomInv'
  BY <1>2, <1>4, RoomShrinks
<1>11. PeerInv' /\ RefInv' /\ UnusedInv'
  BY <1>1 DEF UndoConn, AddConns, PeerInv, RefInv, UnusedInv, TypeOK
<1> QED
  BY <1>7, <1>9, <1>10, <1>11

LEMMA BucketInv ==
    ASSUME LimiterInv, NEW c \in Conns, Bucket(c)
    PROVE  LimiterInv'
<1> USE DEF LimiterInv
<1> PICK ip \in IPs : peer[c] = ip
  BY DEF Bucket, PeerInv
<1>1. ip \in IPs /\ ref[c] = perIP[ip] /\ perIP[ip] \in Conns
  BY DEF Bucket, PeerInv, RefInv, TypeOK
<1>2. pc[c] = "bucket" /\ pc' \in {[pc EXCEPT ![c] = "undoConn"],
                                   [pc EXCEPT ![c] = "held"]}
  BY DEF Bucket
<1>3. UNCHANGED <<global, perIP, conns, peer, ref, now>>
  BY DEF Bucket
<1>4. Counted' = Counted /\ Passed' = Passed
  BY <1>2 DEF Counted, Passed, TypeOK
<1>5. \A k \in IPs : CountedAt(k)' = CountedAt(k)
                     /\ PassedAt(k)' \in SUBSET PassedAt(k)
  BY <1>2, <1>3 DEF CountedAt, PassedAt, TypeOK
<1>6. Refilled(ip, ref[c]) \in Int
  BY <1>1, RefilledType
<1>7. tokens' \in [IPs -> [Conns -> Int]] /\ lastAt' \in [IPs -> [Conns -> Int]]
  <2> DEFINE t == Refilled(ip, ref[c])
  <2>1. \/ UNCHANGED bucketVars
        \/ /\ tokens' = [tokens EXCEPT ![ip][ref[c]] = t - 1]
           /\ lastAt' = [lastAt EXCEPT ![ip][ref[c]] = now]
    BY DEF Bucket
  <2>2. t \in Int /\ now \in Int
    BY <1>6 DEF TypeOK
  <2> HIDE DEF t
  <2>3. CASE UNCHANGED bucketVars
    BY <2>3 DEF TypeOK, bucketVars
  <2>4. CASE /\ tokens' = [tokens EXCEPT ![ip][ref[c]] = t - 1]
             /\ lastAt' = [lastAt EXCEPT ![ip][ref[c]] = now]
    <3>1. t - 1 \in Int
      BY <2>2
    <3>2. ref[c] \in Conns
      BY <1>1
    <3>3. tokens \in [IPs -> [Conns -> Int]] /\ lastAt \in [IPs -> [Conns -> Int]]
      BY DEF TypeOK
    <3> QED
      BY <2>2, <2>4, <3>1, <3>2, <3>3, TableUpdate
  <2> QED
    BY <2>1, <2>3, <2>4
<1>8. TypeOK' /\ GlobalConserved' /\ PerIPConserved'
  BY <1>2, <1>3, <1>4, <1>5, <1>7
  DEF TypeOK, PC, GlobalConserved, PerIPConserved
<1>9. RoomInv'
  BY <1>4, <1>5, RoomShrinks
<1>10. PeerInv' /\ RefInv' /\ UnusedInv'
  BY <1>1, <1>2, <1>3 DEF PeerInv, RefInv, UnusedInv, TypeOK
<1> QED
  BY <1>8, <1>9, <1>10

LEMMA ReleaseInv ==
    ASSUME LimiterInv, NEW c \in Conns, Release(c)
    PROVE  LimiterInv'
<1> USE DEF LimiterInv
<1>1. Counted' = Counted \ {c} /\ c \in Counted /\ Passed' \in SUBSET Passed
  BY DEF Release, Counted, Passed, TypeOK
<1>2. \A k \in IPs : CountedAt(k)' = CountedAt(k) /\ PassedAt(k)' = PassedAt(k)
  BY LimiterAssumption DEF Release, CountedAt, PassedAt, TypeOK
<1>3. GlobalConserved' /\ global' \in Nat
  <2>1. Cardinality(Counted') = Cardinality(Counted) - 1
        /\ Cardinality(Counted') \in Nat
    BY <1>1, Counting, CountedSets
  <2> QED
    BY <2>1 DEF Release, GlobalConserved
<1>4. TypeOK'
  BY <1>3 DEF Release, TypeOK, PC, bucketVars
<1>5. PerIPConserved'
  BY <1>2 DEF Release, PerIPConserved
<1>6. RoomInv'
  BY <1>1, <1>2, RoomShrinks
<1>7. PeerInv' /\ RefInv' /\ UnusedInv'
  BY LimiterAssumption DEF Release, PeerInv, RefInv, UnusedInv, TypeOK
<1> QED
  BY <1>3, <1>4, <1>5, <1>6, <1>7

LEMMA ReleaseConnInv ==
    ASSUME LimiterInv, NEW c \in Conns, ReleaseConn(c)
    PROVE  LimiterInv'
<1> USE DEF LimiterInv
<1> PICK ip \in IPs : peer[c] = ip
  BY DEF ReleaseConn, PeerInv
<1> DEFINE n == conns[ip][perIP[ip]]
<1>1. ip \in IPs /\ perIP[ip] # NoState /\ perIP[ip] \in Conns
  BY DEF ReleaseConn, PeerInv, RefInv, TypeOK
<1>2. Counted' = Counted /\ Passed' = Passed
  BY DEF ReleaseConn, Counted, Passed, TypeOK
<1>3. CountedAt(ip)' = CountedAt(ip) \ {c} /\ c \in CountedAt(ip)
  BY DEF ReleaseConn, CountedAt, TypeOK
<1>4. /\ \A k \in IPs \ {ip} : CountedAt(k)' = CountedAt(k)
      /\ \A k \in IPs : PassedAt(k)' \in SUBSET PassedAt(k)
  BY LimiterAssumption DEF ReleaseConn, CountedAt, PassedAt, TypeOK
<1>5. n \in Int /\ n = Cardinality(CountedAt(ip))
  BY <1>1 DEF PerIPConserved, TypeOK
<1>6. Cardinality(CountedAt(ip)') = n - 1
  BY <1>1, <1>3, <1>5, Counting, CountedSets
<1>7. TypeOK' /\ GlobalConserved'
  <2>1. conns' = [conns EXCEPT ![ip][perIP[ip]] = n - 1]
    BY <1>1 DEF ReleaseConn, AddConns
  <2>2. n - 1 \in Int
    BY <1>5
  <2>3. conns' \in [IPs -> [Conns -> Int]]
    <3> HIDE DEF n
    <3> QED
      BY <1>1, <2>1, <2>2, TableUpdate DEF TypeOK
  <2> QED
    BY <1>2, <2>3 DEF ReleaseConn, TypeOK, PC, bucketVars, GlobalConserved
<1>8. perIP' = perIP /\ conns'[ip][perIP[ip]] = n - 1
      /\ \A k \in IPs \ {ip} : conns'[k] = conns[k]
  BY <1>1 DEF ReleaseConn, AddConns, TypeOK
<1>9. PerIPConserved'
  <2> HIDE DEF n
  <2> QED
    BY <1>1, <1>4, <1>6, <1>8 DEF PerIPConserved
<1>10. RoomInv'
  BY <1>2, <1>4, RoomShrinks
<1>11. PeerInv' /\ RefInv'
  BY LimiterAssumption DEF ReleaseConn, PeerInv, RefInv, TypeOK
<1>12. UnusedInv'
  <2>1. conns' = [conns EXCEPT ![ip][perIP[ip]] = n - 1]
    BY <1>1 DEF ReleaseConn, AddConns
  <2> HIDE DEF n
  <2> QED
    BY <1>1, <1>8, <2>1 DEF UnusedInv, TypeOK
<1> QED
  BY <1>7, <1>9, <1>10, <1>11, <1>12

(* Ticks and stuttering touch nothing the invariant reads but the clock. *)
LEMMA FrameInv ==
    ASSUME LimiterInv, Tick \/ UNCHANGED vars
    PROVE  LimiterInv'
<1>1. now' \in Nat /\ UNCHANGED <<global, perIP, conns, tokens, lastAt, pc, peer, ref>>
  BY DEF LimiterInv, TypeOK, Tick, vars, bucketVars
<1> QED
  BY <1>1 DEF LimiterInv, TypeOK, GlobalConserved, PerIPConserved, RoomInv,
              PeerInv, RefInv, UnusedInv, Counted, CountedAt, Passed, PassedAt

LEMMA NextInv == LimiterInv /\ [Next]_vars => LimiterInv'
<1> SUFFICES ASSUME LimiterInv, [Next]_vars PROVE LimiterInv'
  OBVIOUS
<1>1. ASSUME NEW c \in Conns, NEW ip \in IPs \cup {NoIP}, Arrive(c, ip)
      PROVE  LimiterInv'
  BY <1>1, ArriveInv
<1>2. ASSUME NEW c \in Conns, Step(c) PROVE LimiterInv'
  BY <1>2, UndoGlobalInv, LookupInv, CreateInv, CountInv, UndoConnInv,
     BucketInv, ReleaseConnInv DEF Step
<1>3. ASSUME NEW c \in Conns, Release(c) PROVE LimiterInv'
  BY <1>3, ReleaseInv
<1>4. CASE Tick \/ UNCHANGED vars
  BY <1>4, FrameInv
<1> QED
  BY <1>1, <1>2, <1>3, <1>4 DEF Next

(* The inductive invariant of the limiter holds in every reachable state.  *)
THEOREM LimiterInvariant == Spec => []LimiterInv
  BY InitInv, NextInv, PTL DEF Spec

(* Every counter and map of ConnLimiter keeps its type; in particular the  *)
(* global counter never goes below zero.                                   *)
THEOREM LimiterTypes == Spec => []TypeOK
<1>1. LimiterInv => TypeOK
  BY DEF LimiterInv
<1> QED
  BY <1>1, LimiterInvariant, PTL

(* The global counter is exact: no path through Acquire and Release loses  *)
(* or repeats an increment or a decrement, for any number of handlers.     *)
THEOREM LimiterConserves == Spec => []GlobalConserved
<1>1. LimiterInv => GlobalConserved
  BY DEF LimiterInv
<1> QED
  BY <1>1, LimiterInvariant, PTL

(* So is the counter of every peer IP, although two handlers may race to   *)
(* create its state: they end up counting on the same one.                 *)
THEOREM LimiterConservesPerIP == Spec => []PerIPConserved
<1>1. LimiterInv => PerIPConserved
  BY DEF LimiterInv
<1> QED
  BY <1>1, LimiterInvariant, PTL

(* The limits are hard limits: at no instant do more leases exist than     *)
(* MaxGlobal, or than MaxPerIP for one IP.                                 *)
THEOREM LimiterLimits == Spec => []LimitsRespected
<1>1. LimiterInv => LimitsRespected
  <2> SUFFICES ASSUME LimiterInv PROVE LimitsRespected
    OBVIOUS
  <2>1. Held \in SUBSET Passed /\ Passed \in SUBSET Conns
    BY DEF Held, Passed, Counted
  <2>2. MaxGlobal > 0 => Cardinality(Held) <= MaxGlobal
    <3>1. Cardinality(Held) <= Cardinality(Passed) /\ Cardinality(Passed) \in Nat
          /\ Cardinality(Held) \in Nat
      BY <2>1, Counting
    <3> QED
      BY <3>1, LimiterAssumption DEF LimiterInv, RoomInv
  <2>3. ASSUME NEW ip \in IPs
        PROVE  MaxPerIP > 0 => Cardinality(HeldAt(ip)) <= MaxPerIP
    <3>1. HeldAt(ip) \in SUBSET PassedAt(ip) /\ PassedAt(ip) \in SUBSET Conns
      BY DEF HeldAt, Held, PassedAt, CountedAt
    <3>2. Cardinality(HeldAt(ip)) <= Cardinality(PassedAt(ip))
          /\ Cardinality(PassedAt(ip)) \in Nat /\ Cardinality(HeldAt(ip)) \in Nat
      BY <3>1, Counting
    <3> QED
      BY <3>2, LimiterAssumption DEF LimiterInv, RoomInv
  <2> QED
    BY <2>2, <2>3 DEF LimitsRespected
<1> QED
  BY <1>1, LimiterInvariant, PTL

-----------------------------------------------------------------------------
(* Refinement.                                                             *)

(* What the abstract state sees of the concrete one. *)
LEMMA AbstractSets ==
    ASSUME LimiterInv
    PROVE  /\ Promise!Admitted = Held
           /\ \A ip \in IPs : Promise!AdmittedFor(ip) = HeldAt(ip)
  BY LimiterAssumption
  DEF LimiterInv, TypeOK, Promise!Admitted, Promise!AdmittedFor, LeaseOf,
      Held, HeldAt

(* A handler that arrives at "held" is granted its lease abstractly: the   *)
(* holders and itself are among those that passed the checks.              *)
LEMMA GrantStep ==
    ASSUME LimiterInv, LimiterInv', NEW c \in Conns, NEW ip \in IPs \cup {NoIP},
           pc[c] # "held", pc' = [pc EXCEPT ![c] = "held"],
           peer' = [peer EXCEPT ![c] = ip]
    PROVE  Promise!Grant(c, ip)
<1>1. c \notin Held /\ Held \in SUBSET Conns
  BY DEF Held
<1>2. Held \cup {c} \in SUBSET Passed' /\ Passed' \in SUBSET Conns
  BY DEF Held, Passed, Counted, LimiterInv, TypeOK
<1>3. MaxGlobal > 0 => Cardinality(Held) < MaxGlobal
  <2>1. Cardinality(Held \cup {c}) = Cardinality(Held) + 1
        /\ Cardinality(Held) \in Nat
    BY <1>1, Counting
  <2>2. Cardinality(Held \cup {c}) <= Cardinality(Passed')
        /\ Cardinality(Passed') \in Nat
    BY <1>2, Counting
  <2>3. MaxGlobal > 0 => Cardinality(Passed') <= MaxGlobal
    BY DEF LimiterInv, RoomInv
  <2> QED
    BY <2>1, <2>2, <2>3, LimiterAssumption
<1>4. ip # NoIP /\ MaxPerIP > 0 => Cardinality(HeldAt(ip)) < MaxPerIP
  <2> SUFFICES ASSUME ip \in IPs, MaxPerIP > 0
               PROVE  Cardinality(HeldAt(ip)) < MaxPerIP
    OBVIOUS
  <2>1. c \notin HeldAt(ip) /\ HeldAt(ip) \in SUBSET Conns
    BY DEF HeldAt, Held
  <2>2. HeldAt(ip) \cup {c} \in SUBSET PassedAt(ip)'
        /\ PassedAt(ip)' \in SUBSET Conns
    BY DEF HeldAt, Held, PassedAt, CountedAt, LimiterInv, TypeOK
  <2>3. Cardinality(HeldAt(ip) \cup {c}) = Cardinality(HeldAt(ip)) + 1
        /\ Cardinality(HeldAt(ip)) \in Nat
    BY <2>1, Counting
  <2>4. Cardinality(HeldAt(ip) \cup {c}) <= Cardinality(PassedAt(ip)')
        /\ Cardinality(PassedAt(ip)') \in Nat
    BY <2>2, Counting
  <2>5. Cardinality(PassedAt(ip)') <= MaxPerIP
    BY DEF LimiterInv, RoomInv
  <2> QED
    BY <2>3, <2>4, <2>5, LimiterAssumption
<1>5. LeaseOf[c] = NoState /\ LeaseOf' = [LeaseOf EXCEPT ![c] = ip]
  BY DEF LeaseOf, LimiterInv, TypeOK
<1>6. ip # NoIP /\ MaxPerIP > 0 =>
        Cardinality(Promise!AdmittedFor(ip)) < MaxPerIP
  BY <1>4, AbstractSets
<1>7. MaxGlobal > 0 => Cardinality(Promise!Admitted) < MaxGlobal
  BY <1>3, AbstractSets
<1> QED
  BY <1>5, <1>6, <1>7
  DEF Promise!Grant, Promise!Cardinality, Cardinality

(* Every step of the limiter is a grant, a return or invisible. *)
LEMMA StepRefines ==
    ASSUME LimiterInv, LimiterInv', [Next]_vars
    PROVE  [Promise!ANext]_LeaseOf
<1> USE DEF LimiterInv, TypeOK
<1>1. ASSUME NEW c \in Conns, NEW ip \in IPs \cup {NoIP}, Arrive(c, ip)
      PROVE  Promise!ANext \/ UNCHANGED LeaseOf
  <2>1. CASE pc'[c] = "held"
    <3>1. Promise!Grant(c, ip)
      BY <1>1, <2>1, GrantStep DEF Arrive
    <3> QED
      BY <3>1 DEF Promise!ANext
  <2>2. CASE pc'[c] # "held"
    BY <1>1, <2>2 DEF Arrive, LeaseOf
  <2> QED
    BY <2>1, <2>2
<1>2. ASSUME NEW c \in Conns, Count(c) \/ Bucket(c)
      PROVE  Promise!ANext \/ UNCHANGED LeaseOf
  <2>1. pc[c] # "held" /\ pc' = [pc EXCEPT ![c] = pc'[c]]
        /\ peer' = [peer EXCEPT ![c] = peer[c]]
    BY <1>2 DEF Count, Bucket
  <2>2. CASE pc'[c] = "held"
    <3>1. pc' = [pc EXCEPT ![c] = "held"]
      BY <2>1, <2>2
    <3>2. peer[c] \in IPs \cup {NoIP}
      OBVIOUS
    <3>3. Promise!Grant(c, peer[c])
      BY <2>1, <3>1, <3>2, GrantStep
    <3> QED
      BY <3>2, <3>3 DEF Promise!ANext
  <2>3. CASE pc'[c] # "held"
    BY <2>1, <2>3 DEF LeaseOf
  <2> QED
    BY <2>2, <2>3
<1>3. ASSUME NEW c \in Conns,
             UndoGlobal(c) \/ Lookup(c) \/ Create(c) \/ UndoConn(c)
             \/ ReleaseConn(c)
      PROVE  UNCHANGED LeaseOf
  BY <1>3 DEF UndoGlobal, Lookup, Create, UndoConn, ReleaseConn, LeaseOf
<1>4. ASSUME NEW c \in Conns, Release(c) PROVE Promise!ANext
  <2>1. LeaseOf[c] # NoState /\ LeaseOf' = [LeaseOf EXCEPT ![c] = NoState]
    <3>1. pc[c] = "held" /\ peer[c] # NoState
      BY <1>4, LimiterAssumption DEF Release
    <3>2. pc'[c] # "held" /\ peer' = peer /\ \A d \in Conns \ {c} : pc'[d] = pc[d]
      BY <1>4 DEF Release
    <3> QED
      BY <3>1, <3>2 DEF LeaseOf
  <2> QED
    BY <2>1 DEF Promise!ANext, Promise!Return
<1>5. CASE Tick \/ UNCHANGED vars
  BY <1>5 DEF Tick, vars, LeaseOf
<1> QED
  BY <1>1, <1>2, <1>3, <1>4, <1>5 DEF Next, Step

(* ConnLimiter implements Admission for every number of handlers and every *)
(* choice of limits: no interleaving of its add, check and undo grants a   *)
(* lease that the abstract limiter would not.                              *)
THEOREM LimiterRefines == Spec => ImplementsAdmission
<1>1. Init => Promise!AInit
  BY DEF Init, Promise!AInit, LeaseOf
<1>2. LimiterInv /\ LimiterInv' /\ [Next]_vars => [Promise!ANext]_LeaseOf
  BY StepRefines
<1> QED
  BY <1>1, <1>2, LimiterInvariant, PTL
  DEF Spec, ImplementsAdmission, Promise!ASpec
=============================================================================
