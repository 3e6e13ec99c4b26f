----------------------------- MODULE ProxyProofs -----------------------------
(***************************************************************************)
(* Proofs about Proxy inside Lifecycle, for any number of connections,     *)
(* servers and slots: what a drain promises, that no upstream socket       *)
(* outlives its lease, that nobody dials unauthenticated, that every       *)
(* client gets its one verdict, that a handler only hangs on a peer, and   *)
(* that every server returns once the context is done.                     *)
(***************************************************************************)
EXTENDS Proxy, FiniteSetTheorems, SequenceTheorems, TLAPS

-----------------------------------------------------------------------------
(* The inductive invariant.                                                *)

(* The process: a connection that is accepted is the one its server is     *)
(* about to start; activeConns counts the handlers that have been started  *)
(* and not yet counted down; only a closed listener leads to the drain.    *)
Busy(s) == {c \in Conns : conn[c] \in {"running", "returned"} /\ Arrivals[c] = s}

LifeInv ==
    /\ TypeOK
    /\ \A s \in Servers : active[s] = Cardinality(Busy(s))
    /\ \A c \in Conns : conn[c] = "accepted" => srv[Arrivals[c]] = "spawn"
    /\ \A c, d \in Conns :
          conn[c] = "accepted" /\ conn[d] = "accepted" /\ Arrivals[c] = Arrivals[d]
            => c = d
    /\ \A s \in Servers :
          /\ srv[s] \in {"drain", "poll", "returned"} => ln[s] = "closed"
          /\ drained[s] = "all" => srv[s] = "returned" /\ active[s] = 0

(* The stacks of deferred calls: the prefixes of the longest one.          *)
D1 == <<"conn.Close">>
D2 == <<"conn.Close", "lease.Release">>
D3 == <<"conn.Close", "lease.Release", "backendLease.Release">>
D4 == <<"conn.Close", "lease.Release", "backendLease.Release",
        "upstream.Close">>
D5 == <<"conn.Close", "lease.Release", "backendLease.Release",
        "upstream.Close", "body.Close">>

(* Who holds a lease: whoever still has its release to call, or is inside  *)
(* DialViaSocks, which releases what it does not hand over.                *)
HasLease(r) == r.defers \in {D2, D3, D4, D5}
HasSlot(r) == r.at \in {"connect", "handshake"} \/ r.defers \in {D3, D4, D5}

HandlerType ==
    [at : At, path : {"none", "socks5", "connect", "plain"},
     defers : Seq(Defers), up : {"none", "open"}, body : {"none", "open"},
     said : {"fine", "gone"}, cred : {"none", "wrong", "right"},
     told : Seq({"granted", "refused"}), asked : Targets \cup {NoTarget},
     sent : Seq({"a", "%3F", "%2520"})]

(* Where a handler is determines what it has deferred, whether its client  *)
(* has been authenticated and whether it has been told.                    *)
Unauthenticated == {"acquire", "greeting", "password", "readRequest", "return"}
Dialing == {"greeting", "password", "readRequest", "request", "dial", "connect",
            "handshake"}

Stacked(r) ==
    /\ r.at = "acquire" => r.defers = D1
    /\ r.at \in Dialing => r.defers = D2
    /\ r.at \in {"writeRequest", "readResponse", "tunnel"} => r.defers = D4
    /\ r.at \in {"respond", "copy"} => r.defers = D5
    /\ r.at = "return" => r.defers \in {<<>>, D1, D2, D3, D4, D5}
    /\ r.up = "open" => r.at = "handshake" \/ r.defers \in {D4, D5}
    /\ r.body = "open" => r.defers = D5

Answered(r) ==
    /\ r.at \notin {"tunnel", "copy", "return"} => Len(r.told) = 0
    /\ r.at \in {"tunnel", "copy"} => Len(r.told) = 1
    /\ r.at = "return" => /\ Len(r.told) <= 1
                          /\ r.said = "fine" => Len(r.told) = 1

Authorised(r) ==
    /\ auth /\ r.path # "none" => r.cred = "right"
    /\ r.at \notin Unauthenticated => r.path # "none"

Good(r) == Stacked(r) /\ Answered(r) /\ Authorised(r)

(* A handler that has returned has left nothing.                           *)
Ended(r) ==
    /\ r.at = "return" /\ r.defers = <<>> /\ r.up = "none" /\ r.body = "none"
    /\ r.path = "none" /\ Len(r.told) = 0

Leased == {c \in Conns : HasLease(h[c])}
Slotted == {c \in Conns : HasSlot(h[c])}

StageInv(c) ==
    /\ conn[c] \in {"new", "accepted"} => h[c] = Idle
    /\ conn[c] = "running" => Good(h[c])
    /\ conn[c] \in {"returned", "done"} => Ended(h[c])

ProxyInv ==
    /\ LifeInv
    /\ auth \in AuthSettings
    /\ h \in [Conns -> HandlerType]
    /\ \A c \in Conns : StageInv(c)
    /\ global = Cardinality(Leased) /\ global <= MaxConnGlobal
    /\ inflight = Cardinality(Slotted) /\ inflight <= Slots

-----------------------------------------------------------------------------
(* Facts about the data.                                                   *)

(* The connections are finitely many, and counting them behaves. *)
LEMMA ConnsFinite ==
  /\ Conns = 1..Len(Arrivals) /\ Len(Arrivals) \in Nat
  /\ IsFiniteSet(Conns) /\ Cardinality(Conns) = Len(Arrivals)
  /\ \A c \in Conns : Arrivals[c] \in Servers
<1>1. Conns = 1..Len(Arrivals) /\ Len(Arrivals) \in Nat
      /\ \A c \in Conns : Arrivals[c] \in Servers
  BY LifecycleAssumption DEF Conns
<1>2. IsFiniteSet(1..Len(Arrivals)) /\ Cardinality(1..Len(Arrivals)) = Len(Arrivals)
  <2>1. 1 \in Int /\ Len(Arrivals) \in Int
    BY <1>1
  <2>2. /\ IsFiniteSet(1..Len(Arrivals))
        /\ Cardinality(1..Len(Arrivals))
             = IF 1 > Len(Arrivals) THEN 0 ELSE Len(Arrivals) - 1 + 1
    BY <2>1, FS_Interval
  <2> QED  BY <1>1, <2>2
<1> QED  BY <1>1, <1>2

LEMMA CountConns ==
  ASSUME NEW S \in SUBSET Conns
  PROVE  /\ IsFiniteSet(S) /\ Cardinality(S) \in 0..Len(Arrivals)
         /\ \A c \in Conns \ S : Cardinality(S \cup {c}) = Cardinality(S) + 1
         /\ \A c \in S : /\ Cardinality(S \ {c}) = Cardinality(S) - 1
                         /\ Cardinality(S) > 0
         /\ \A T \in SUBSET S : Cardinality(T) <= Cardinality(S)
<1>1. IsFiniteSet(S) /\ Cardinality(S) <= Len(Arrivals)
  BY FS_Subset, ConnsFinite
<1>2. Cardinality(S) \in Nat
  BY <1>1, FS_CardinalityType
<1>3. \A c \in Conns \ S : Cardinality(S \cup {c}) = Cardinality(S) + 1
  BY <1>1, FS_AddElement
<1>4. \A c \in S : Cardinality(S \ {c}) = Cardinality(S) - 1
  BY <1>1, FS_RemoveElement
<1>5. \A T \in SUBSET S : Cardinality(T) <= Cardinality(S)
  BY <1>1, FS_Subset
<1>6. \A c \in S : Cardinality(S) > 0
  BY <1>1, <1>2, FS_EmptySet
<1> QED  BY <1>1, <1>2, <1>3, <1>4, <1>5, <1>6, ConnsFinite

(* Pushing onto and popping from the stacks. *)
LEMMA Stacks ==
  /\ D1 \in Seq(Defers) /\ D2 \in Seq(Defers) /\ D3 \in Seq(Defers)
  /\ D4 \in Seq(Defers) /\ D5 \in Seq(Defers)
  /\ Len(D1) = 1 /\ Len(D2) = 2 /\ Len(D3) = 3 /\ Len(D4) = 4 /\ Len(D5) = 5
  /\ D1[1] = "conn.Close"
  /\ D2[1] = "conn.Close" /\ D2[2] = "lease.Release"
  /\ D3[1] = "conn.Close" /\ D3[2] = "lease.Release"
  /\ D3[3] = "backendLease.Release"
  /\ D4[1] = "conn.Close" /\ D4[2] = "lease.Release"
  /\ D4[3] = "backendLease.Release" /\ D4[4] = "upstream.Close"
  /\ D5[1] = "conn.Close" /\ D5[2] = "lease.Release"
  /\ D5[3] = "backendLease.Release" /\ D5[4] = "upstream.Close"
  /\ D5[5] = "body.Close"
  BY DEF D1, D2, D3, D4, D5, Defers

LEMMA StacksDiffer ==
  /\ D1 # D2 /\ D1 # D3 /\ D1 # D4 /\ D1 # D5 /\ D2 # D3 /\ D2 # D4
  /\ D2 # D5 /\ D3 # D4 /\ D3 # D5 /\ D4 # D5
  /\ D1 # <<>> /\ D2 # <<>> /\ D3 # <<>> /\ D4 # <<>> /\ D5 # <<>>
<1>1. /\ Len(D1) # Len(D2) /\ Len(D1) # Len(D3) /\ Len(D1) # Len(D4)
      /\ Len(D1) # Len(D5) /\ Len(D2) # Len(D3) /\ Len(D2) # Len(D4)
      /\ Len(D2) # Len(D5) /\ Len(D3) # Len(D4) /\ Len(D3) # Len(D5)
      /\ Len(D4) # Len(D5)
  BY Stacks
<1>2. /\ Len(D1) # Len(<<>>) /\ Len(D2) # Len(<<>>) /\ Len(D3) # Len(<<>>)
      /\ Len(D4) # Len(<<>>) /\ Len(D5) # Len(<<>>)
  BY Stacks
<1> QED  BY <1>1, <1>2, Zenon

LEMMA Push ==
  ASSUME NEW s \in Seq(Defers), NEW p \in Seq(Defers), NEW t \in Seq(Defers),
         Len(t) = Len(s) + Len(p),
         \A i \in 1..Len(s) : t[i] = s[i],
         \A i \in 1..Len(p) : t[Len(s) + i] = p[i]
  PROVE  s \o p = t
<1>1. /\ s \o p \in Seq(Defers) /\ Len(s \o p) = Len(s) + Len(p)
      /\ \A i \in 1..(Len(s) + Len(p)) :
            (s \o p)[i] = IF i <= Len(s) THEN s[i] ELSE p[i - Len(s)]
  BY ConcatProperties
<1>2. ASSUME NEW i \in 1..Len(t) PROVE (s \o p)[i] = t[i]
  <2>1. CASE i <= Len(s)
    BY <1>1, <2>1
  <2>2. CASE i > Len(s)
    <3>1. i - Len(s) \in 1..Len(p) /\ Len(s) + (i - Len(s)) = i
      BY <2>2
    <3>2. t[Len(s) + (i - Len(s))] = p[i - Len(s)]
      BY <3>1
    <3> QED  BY <1>1, <2>2, <3>1, <3>2
  <2> QED  BY <2>1, <2>2
<1> QED  BY <1>1, <1>2, SeqEqual

LEMMA Pop ==
  ASSUME NEW s \in Seq(Defers), NEW t \in Seq(Defers),
         Len(s) = Len(t) + 1, \A i \in 1..Len(t) : t[i] = s[i]
  PROVE  Front(s) = t /\ Last(s) = s[Len(s)]
<1>1. Front(s) = SubSeq(s, 1, Len(t))
  BY DEF Front
<1>2. /\ SubSeq(s, 1, Len(t)) \in Seq(Defers)
      /\ Len(SubSeq(s, 1, Len(t))) = Len(t)
      /\ \A i \in 1..Len(t) : SubSeq(s, 1, Len(t))[i] = s[i]
  OBVIOUS
<1> QED  BY <1>1, <1>2, SeqEqual DEF Last

LEMMA Pushes ==
  /\ D1 \o <<"lease.Release">> = D2
  /\ D2 \o <<"backendLease.Release", "upstream.Close">> = D4
  /\ D4 \o <<"body.Close">> = D5
<1>1. D1 \o <<"lease.Release">> = D2
  <2> DEFINE p == <<"lease.Release">>
  <2>1. p \in Seq(Defers) /\ Len(p) = 1 /\ p[1] = "lease.Release"
    BY DEF Defers
  <2> HIDE DEF p
  <2>2. /\ D1 \in Seq(Defers) /\ D2 \in Seq(Defers)
        /\ Len(D2) = Len(D1) + Len(p)
        /\ \A i \in 1..Len(D1) : D2[i] = D1[i]
        /\ \A i \in 1..Len(p) : D2[Len(D1) + i] = p[i]
    BY <2>1, Stacks
  <2>3. D1 \o p = D2
    BY <2>1, <2>2, Push
  <2> QED  BY <2>3 DEF p
<1>2. D2 \o <<"backendLease.Release", "upstream.Close">> = D4
  <2> DEFINE p == <<"backendLease.Release", "upstream.Close">>
  <2>1. /\ p \in Seq(Defers) /\ Len(p) = 2
        /\ p[1] = "backendLease.Release" /\ p[2] = "upstream.Close"
    BY DEF Defers
  <2> HIDE DEF p
  <2>2. /\ D2 \in Seq(Defers) /\ D4 \in Seq(Defers)
        /\ Len(D4) = Len(D2) + Len(p)
        /\ \A i \in 1..Len(D2) : D4[i] = D2[i]
        /\ \A i \in 1..Len(p) : D4[Len(D2) + i] = p[i]
    BY <2>1, Stacks
  <2>3. D2 \o p = D4
    BY <2>1, <2>2, Push
  <2> QED  BY <2>3 DEF p
<1>3. D4 \o <<"body.Close">> = D5
  <2> DEFINE p == <<"body.Close">>
  <2>1. p \in Seq(Defers) /\ Len(p) = 1 /\ p[1] = "body.Close"
    BY DEF Defers
  <2> HIDE DEF p
  <2>2. /\ D4 \in Seq(Defers) /\ D5 \in Seq(Defers)
        /\ Len(D5) = Len(D4) + Len(p)
        /\ \A i \in 1..Len(D4) : D5[i] = D4[i]
        /\ \A i \in 1..Len(p) : D5[Len(D4) + i] = p[i]
    BY <2>1, Stacks
  <2>3. D4 \o p = D5
    BY <2>1, <2>2, Push
  <2> QED  BY <2>3 DEF p
<1> QED  BY <1>1, <1>2, <1>3

LEMMA Pops ==
  /\ Last(D1) = "conn.Close" /\ Front(D1) = <<>>
  /\ Last(D2) = "lease.Release" /\ Front(D2) = D1
  /\ Last(D3) = "backendLease.Release" /\ Front(D3) = D2
  /\ Last(D4) = "upstream.Close" /\ Front(D4) = D3
  /\ Last(D5) = "body.Close" /\ Front(D5) = D4
<1>1. Last(D1) = "conn.Close" /\ Front(D1) = <<>>
  <2> DEFINE e == <<>>
  <2>1. e \in Seq(Defers) /\ Len(e) = 0
    OBVIOUS
  <2> HIDE DEF e
  <2>2. D1 \in Seq(Defers) /\ Len(D1) = Len(e) + 1 /\ \A i \in 1..Len(e) : e[i] = D1[i]
    BY <2>1, Stacks
  <2>3. Last(D1) = "conn.Close" /\ Front(D1) = e
    BY <2>1, <2>2, Pop, Stacks
  <2> QED  BY <2>3 DEF e
<1>2. Last(D2) = "lease.Release" /\ Front(D2) = D1
  <2>1. /\ D2 \in Seq(Defers) /\ D1 \in Seq(Defers)
        /\ Len(D2) = Len(D1) + 1 /\ \A i \in 1..Len(D1) : D1[i] = D2[i]
    BY Stacks
  <2> QED  BY <2>1, Pop, Stacks
<1>3. Last(D3) = "backendLease.Release" /\ Front(D3) = D2
  <2>1. /\ D3 \in Seq(Defers) /\ D2 \in Seq(Defers)
        /\ Len(D3) = Len(D2) + 1 /\ \A i \in 1..Len(D2) : D2[i] = D3[i]
    BY Stacks
  <2> QED  BY <2>1, Pop, Stacks
<1>4. Last(D4) = "upstream.Close" /\ Front(D4) = D3
  <2>1. /\ D4 \in Seq(Defers) /\ D3 \in Seq(Defers)
        /\ Len(D4) = Len(D3) + 1 /\ \A i \in 1..Len(D3) : D3[i] = D4[i]
    BY Stacks
  <2> QED  BY <2>1, Pop, Stacks
<1>5. Last(D5) = "body.Close" /\ Front(D5) = D4
  <2>1. /\ D5 \in Seq(Defers) /\ D4 \in Seq(Defers)
        /\ Len(D5) = Len(D4) + 1 /\ \A i \in 1..Len(D4) : D4[i] = D5[i]
    BY Stacks
  <2> QED  BY <2>1, Pop, Stacks
<1> QED  BY <1>1, <1>2, <1>3, <1>4, <1>5

-----------------------------------------------------------------------------
(* The process.                                                            *)

LEMMA LifeInit == ASSUME Init PROVE LifeInv
<1>1. \A s \in Servers : Busy(s) = {}
  BY DEF Init, NoConns, Busy
<1>2. TypeOK
  <2>1. active \in [Servers -> 0..Len(Arrivals)]
    BY ConnsFinite DEF Init, Each
  <2> QED  BY <2>1 DEF Init, TypeOK, Each, NoConns, Stage
<1> QED  BY <1>1, <1>2, FS_EmptySet DEF Init, LifeInv, Each, NoConns

(* What an action leaves alone when it neither moves a connection nor      *)
(* counts one.                                                             *)
LEMMA ServerStep ==
  ASSUME LifeInv, TypeOK', UNCHANGED <<conn, active>>,
         \A s \in Servers :
            /\ srv[s] = "spawn" => srv'[s] = "spawn"
            /\ srv'[s] \in {"drain", "poll", "returned"} => ln'[s] = "closed"
            /\ drained'[s] = "all" => srv'[s] = "returned" /\ active'[s] = 0
  PROVE  LifeInv'
<1>1. \A s \in Servers : Busy(s)' = Busy(s)
  BY DEF Busy
<1> QED  BY <1>1, ConnsFinite DEF LifeInv

(* Only three actions of the process move a connection, and each moves one *)
(* that is at its stage.                                                   *)
Moves(c, from, to) ==
    /\ conn[c] = from /\ conn' = [conn EXCEPT ![c] = to]

Moved ==
    \/ UNCHANGED conn
    \/ \E c \in Conns : \/ Moves(c, "new", "accepted")
                        \/ Moves(c, "accepted", "running")
                        \/ Moves(c, "returned", "done")

LEMMA AcceptLife ==
  ASSUME LifeInv, NEW s \in Servers, NEW c \in Conns, Accept(s, c)
  PROVE  LifeInv' /\ Moves(c, "new", "accepted")
<1>1. \A k \in Servers : Busy(k)' = Busy(k)
  BY DEF Accept, Busy, LifeInv, TypeOK
<1>2. TypeOK'
  BY DEF Accept, LifeInv, TypeOK, Stage
<1>3. \A d \in Conns : conn'[d] = "accepted" => d = c \/ conn[d] = "accepted"
  BY DEF Accept, LifeInv, TypeOK
<1>4. \A d \in Conns : conn[d] = "accepted" => Arrivals[d] # s
  BY DEF Accept, LifeInv
<1>5. \A d \in Conns : conn'[d] = "accepted" => srv'[Arrivals[d]] = "spawn"
  BY <1>3, ConnsFinite DEF Accept, LifeInv, TypeOK
<1>6. \A k \in Servers :
        /\ srv'[k] \in {"drain", "poll", "returned"} => ln'[k] = "closed"
        /\ drained'[k] = "all" => srv'[k] = "returned" /\ active'[k] = 0
  BY DEF Accept, LifeInv, TypeOK
<1>7. \A e, d \in Conns :
         conn'[e] = "accepted" /\ conn'[d] = "accepted" /\ Arrivals[e] = Arrivals[d]
            => e = d
  BY <1>3, <1>4 DEF Accept, LifeInv
<1>8. \A k \in Servers : active'[k] = Cardinality(Busy(k)')
  BY <1>1 DEF Accept, LifeInv
<1> QED  BY <1>2, <1>5, <1>6, <1>7, <1>8 DEF LifeInv, Accept, Moves

LEMMA SpawnLife ==
  ASSUME LifeInv, NEW s \in Servers, NEW c \in Conns, Spawn(s, c)
  PROVE  LifeInv' /\ Moves(c, "accepted", "running")
<1>1. /\ Busy(s)' = Busy(s) \cup {c} /\ c \notin Busy(s)
      /\ \A k \in Servers \ {s} : Busy(k)' = Busy(k)
  BY DEF Spawn, Busy, LifeInv, TypeOK
<1>2. /\ Busy(s) \in SUBSET Conns /\ Busy(s)' \in SUBSET Conns
      /\ Cardinality(Busy(s)') = Cardinality(Busy(s)) + 1
      /\ Cardinality(Busy(s)') \in 0..Len(Arrivals)
  <2>1. Busy(s) \in SUBSET Conns /\ Busy(s)' \in SUBSET Conns
    BY DEF Busy
  <2> QED  BY <1>1, <2>1, CountConns
<1>3. active'[s] = Cardinality(Busy(s)')
  BY <1>2 DEF Spawn, LifeInv, TypeOK
<1>4. \A k \in Servers \ {s} : active'[k] = active[k]
  BY DEF Spawn, LifeInv, TypeOK
<1>5. TypeOK'
  <2>1. active' = [active EXCEPT ![s] = Cardinality(Busy(s)')]
    BY <1>2 DEF Spawn, LifeInv
  <2>2. active' \in [Servers -> 0..Len(Arrivals)]
    BY <2>1, <1>2 DEF LifeInv, TypeOK
  <2> QED  BY <2>2 DEF Spawn, LifeInv, TypeOK, Stage
<1>6. \A d \in Conns : conn'[d] = "accepted" =>
         d # c /\ conn[d] = "accepted" /\ Arrivals[d] # s
  BY DEF Spawn, LifeInv, TypeOK
<1>7. \A d \in Conns : conn'[d] = "accepted" => srv'[Arrivals[d]] = "spawn"
  BY <1>6, ConnsFinite DEF Spawn, LifeInv, TypeOK
<1>8. \A e, d \in Conns :
         conn'[e] = "accepted" /\ conn'[d] = "accepted" /\ Arrivals[e] = Arrivals[d]
            => e = d
  BY <1>6 DEF LifeInv
<1>9. \A k \in Servers :
        /\ srv'[k] \in {"drain", "poll", "returned"} => ln'[k] = "closed"
        /\ drained'[k] = "all" => srv'[k] = "returned" /\ active'[k] = 0
  BY <1>4 DEF Spawn, LifeInv, TypeOK
<1>10. \A k \in Servers : active'[k] = Cardinality(Busy(k)')
  BY <1>1, <1>3, <1>4 DEF LifeInv
<1> QED  BY <1>5, <1>7, <1>8, <1>9, <1>10 DEF LifeInv, Spawn, Moves

LEMMA HandlerDoneLife ==
  ASSUME LifeInv, NEW c \in Conns, HandlerDone(c)
  PROVE  LifeInv' /\ Moves(c, "returned", "done")
<1> DEFINE s == Arrivals[c]
<1>0. s \in Servers
  BY ConnsFinite
<1>1. /\ Busy(s)' = Busy(s) \ {c} /\ c \in Busy(s)
      /\ \A k \in Servers \ {s} : Busy(k)' = Busy(k)
  BY DEF HandlerDone, Busy, LifeInv, TypeOK
<1>2. /\ Cardinality(Busy(s)') = Cardinality(Busy(s)) - 1
      /\ Cardinality(Busy(s)) > 0
      /\ Cardinality(Busy(s)) \in 0..Len(Arrivals)
      /\ Cardinality(Busy(s)') \in 0..Len(Arrivals)
  <2>1. Busy(s) \in SUBSET Conns /\ Busy(s)' \in SUBSET Conns
    BY DEF Busy
  <2> QED  BY <1>1, <2>1, CountConns
<1>3. active'[s] = Cardinality(Busy(s)') /\ active[s] > 0
  BY <1>0, <1>2 DEF HandlerDone, LifeInv, TypeOK
<1>4. \A k \in Servers \ {s} : active'[k] = active[k]
  BY DEF HandlerDone, LifeInv, TypeOK
<1>5. TypeOK'
  <2>1. active' = [active EXCEPT ![s] = Cardinality(Busy(s)')]
    BY <1>0, <1>2 DEF HandlerDone, LifeInv
  <2>2. active' \in [Servers -> 0..Len(Arrivals)]
    BY <2>1, <1>2 DEF LifeInv, TypeOK
  <2> QED  BY <2>2 DEF HandlerDone, LifeInv, TypeOK, Stage
<1>6. \A d \in Conns : conn'[d] = "accepted" <=> conn[d] = "accepted"
  BY DEF HandlerDone, LifeInv, TypeOK
<1>7. \A k \in Servers :
        /\ srv'[k] \in {"drain", "poll", "returned"} => ln'[k] = "closed"
        /\ drained'[k] = "all" => srv'[k] = "returned" /\ active'[k] = 0
  BY <1>3, <1>4 DEF HandlerDone, LifeInv, TypeOK
<1>8. \A k \in Servers : active'[k] = Cardinality(Busy(k)')
  BY <1>1, <1>3, <1>4 DEF LifeInv
<1>9. \A d \in Conns : conn'[d] = "accepted" => srv'[Arrivals[d]] = "spawn"
  BY <1>6 DEF HandlerDone, LifeInv
<1>10. \A e, d \in Conns :
         conn'[e] = "accepted" /\ conn'[d] = "accepted" /\ Arrivals[e] = Arrivals[d]
            => e = d
  BY <1>6 DEF LifeInv
<1> QED  BY <1>5, <1>7, <1>8, <1>9, <1>10 DEF LifeInv, HandlerDone, Moves

LEMMA HandlerReturnsLife ==
  ASSUME LifeInv, NEW c \in Conns, HandlerReturns(c)
  PROVE  LifeInv' /\ Moves(c, "running", "returned")
<1>1. \A s \in Servers : Busy(s)' = Busy(s)
  BY DEF HandlerReturns, Busy, LifeInv, TypeOK
<1>2. TypeOK'
  BY DEF HandlerReturns, LifeInv, TypeOK, Stage
<1>3. \A d \in Conns : conn'[d] = "accepted" <=> conn[d] = "accepted"
  BY DEF HandlerReturns, LifeInv, TypeOK
<1> QED  BY <1>1, <1>2, <1>3 DEF LifeInv, HandlerReturns, Moves

LEMMA ProcessLife ==
  ASSUME LifeInv, Process
  PROVE  LifeInv' /\ Moved
<1> USE DEF LifeInv, TypeOK, Moved, serverVars
<1>1. CASE Signal
  BY <1>1, ServerStep DEF Signal
<1>2. CASE Exited
  BY <1>2, ServerStep DEF Exited, vars
<1>3. CASE AdminListen
  BY <1>3, ServerStep DEF AdminListen
<1>4. CASE AdminEnds
  BY <1>4, ServerStep DEF AdminEnds
<1>5. ASSUME NEW s \in Servers, ListenOK(s)  PROVE LifeInv' /\ Moved
  BY <1>5, ServerStep DEF ListenOK
<1>6. ASSUME NEW s \in Servers, ListenFail(s)  PROVE LifeInv' /\ Moved
  BY <1>6, ServerStep DEF ListenFail
<1>7. ASSUME NEW s \in Servers, AcceptClosed(s)  PROVE LifeInv' /\ Moved
  BY <1>7, ServerStep DEF AcceptClosed
<1>8. ASSUME NEW s \in Servers, DrainCheck(s)  PROVE LifeInv' /\ Moved
  <2>1. active[s] \in Nat
    BY ConnsFinite
  <2>2. CASE active[s] > 0
    <3>1. /\ srv' = [srv EXCEPT ![s] = "poll"]
          /\ UNCHANGED <<main, cancelled, adm, ln, active, deadline, drained, conn>>
      BY <1>8, <2>2 DEF DrainCheck
    <3> QED  BY <1>8, <3>1, ServerStep DEF DrainCheck
  <2>3. CASE active[s] = 0
    <3>1. /\ srv' = [srv EXCEPT ![s] = "returned"]
          /\ drained' = [drained EXCEPT ![s] = "all"]
          /\ UNCHANGED <<main, cancelled, adm, ln, active, deadline, conn>>
      BY <1>8, <2>3 DEF DrainCheck
    <3> QED  BY <1>8, <2>3, <3>1, ServerStep DEF DrainCheck
  <2> QED  BY <2>1, <2>2, <2>3
<1>9. ASSUME NEW s \in Servers, DrainTick(s)  PROVE LifeInv' /\ Moved
  BY <1>9, ServerStep DEF DrainTick
<1>10. ASSUME NEW s \in Servers, CloseListener(s)  PROVE LifeInv' /\ Moved
  BY <1>10, ServerStep DEF CloseListener
<1>11. ASSUME NEW s \in Servers, DrainTimeout(s)  PROVE LifeInv' /\ Moved
  BY <1>11, ServerStep DEF DrainTimeout
<1>12. ASSUME NEW s \in Servers, DeadlineFires(s)  PROVE LifeInv' /\ Moved
  BY <1>12, ServerStep DEF DeadlineFires
<1> HIDE DEF LifeInv, TypeOK, Moved, serverVars
<1>13. ASSUME NEW s \in Servers, NEW c \in Conns, Accept(s, c)
       PROVE  LifeInv' /\ Moved
  <2>1. LifeInv' /\ Moves(c, "new", "accepted")
    BY <1>13, AcceptLife
  <2> QED  BY <2>1 DEF Moved
<1>14. ASSUME NEW s \in Servers, NEW c \in Conns, Spawn(s, c)
       PROVE  LifeInv' /\ Moved
  <2>1. LifeInv' /\ Moves(c, "accepted", "running")
    BY <1>14, SpawnLife
  <2> QED  BY <2>1 DEF Moved
<1>15. ASSUME NEW c \in Conns, HandlerDone(c)  PROVE LifeInv' /\ Moved
  <2>1. LifeInv' /\ Moves(c, "returned", "done")
    BY <1>15, HandlerDoneLife
  <2> QED  BY <2>1 DEF Moved
<1> QED
  BY <1>1, <1>2, <1>3, <1>4, <1>5, <1>6, <1>7, <1>8, <1>9, <1>10, <1>11, <1>12,
     <1>13, <1>14, <1>15 DEF Process, ServeStep

-----------------------------------------------------------------------------
(* The handlers.                                                           *)

(* What a step of a handler does to a counter of leases: it takes one, it  *)
(* gives its own back, or it leaves the counter alone.                     *)
Counts(had, has, n, m) ==
    \/ (had <=> has) /\ m = n
    \/ ~had /\ has /\ m = n + 1
    \/ had /\ ~has /\ m = n - 1

(* Counting the holders of a lease through such a step.                    *)
LEMMA CountStep ==
  ASSUME NEW S \in SUBSET Conns, NEW T \in SUBSET Conns, NEW c \in Conns,
         \A d \in Conns \ {c} : d \in S <=> d \in T,
         NEW n, NEW m, n = Cardinality(S), Counts(c \in S, c \in T, n, m)
  PROVE  m = Cardinality(T)
<1>1. CASE c \in S <=> c \in T
  <2>1. S = T
    BY <1>1
  <2> QED  BY <1>1, <2>1 DEF Counts
<1>2. CASE c \notin S /\ c \in T
  <2>1. T = S \cup {c}
    BY <1>2
  <2> QED  BY <1>2, <2>1, CountConns DEF Counts
<1>3. CASE c \in S /\ c \notin T
  <2>1. T = S \ {c}
    BY <1>3
  <2> QED  BY <1>3, <2>1, CountConns DEF Counts
<1> QED  BY <1>1, <1>2, <1>3

LEMMA HandlerStep ==
  ASSUME ProxyInv, NEW c \in Conns, conn[c] = "running",
         NEW r \in HandlerType, Good(r), Become(c, r),
         Counts(HasLease(h[c]), HasLease(r), global, global'),
         Counts(HasSlot(h[c]), HasSlot(r), inflight, inflight'),
         global' <= MaxConnGlobal, inflight' <= Slots
  PROVE  ProxyInv'
<1>1. h' = [h EXCEPT ![c] = r] /\ h \in [Conns -> HandlerType]
      /\ UNCHANGED <<vars, auth>>
  BY DEF Become, ProxyInv
<1>2. h'[c] = r /\ \A d \in Conns \ {c} : h'[d] = h[d]
  BY <1>1
<1>3. h' \in [Conns -> HandlerType]
  BY <1>1
<1>4. LifeInv'
  BY <1>1 DEF ProxyInv, LifeInv, TypeOK, Busy, vars
<1>5. ASSUME NEW d \in Conns PROVE StageInv(d)'
  <2>1. conn' = conn /\ auth' = auth
    BY <1>1 DEF vars
  <2>2. CASE d = c
    BY <2>1, <2>2, <1>2
       DEF StageInv, Good, Stacked, Answered, Authorised
  <2>3. CASE d # c
    <3>1. StageInv(d) /\ h'[d] = h[d]
      BY <2>3, <1>2 DEF ProxyInv
    <3> QED  BY <3>1, <2>1 DEF StageInv, Ended, Good, Stacked, Answered, Authorised
  <2> QED  BY <2>2, <2>3
<1>6. global' = Cardinality(Leased')
  <2>1. /\ Leased \in SUBSET Conns /\ Leased' \in SUBSET Conns
        /\ global = Cardinality(Leased)
        /\ \A d \in Conns \ {c} : d \in Leased <=> d \in Leased'
        /\ (c \in Leased <=> HasLease(h[c])) /\ (c \in Leased' <=> HasLease(r))
    BY <1>2 DEF Leased, ProxyInv, HasLease
  <2>2. Counts(c \in Leased, c \in Leased', global, global')
    BY <2>1 DEF Counts
  <2> QED  BY <2>1, <2>2, CountStep
<1>7. inflight' = Cardinality(Slotted')
  <2>1. /\ Slotted \in SUBSET Conns /\ Slotted' \in SUBSET Conns
        /\ inflight = Cardinality(Slotted)
        /\ \A d \in Conns \ {c} : d \in Slotted <=> d \in Slotted'
        /\ (c \in Slotted <=> HasSlot(h[c])) /\ (c \in Slotted' <=> HasSlot(r))
    BY <1>2 DEF Slotted, ProxyInv, HasSlot
  <2>2. Counts(c \in Slotted, c \in Slotted', inflight, inflight')
    BY <2>1 DEF Counts
  <2> QED  BY <2>1, <2>2, CountStep
<1> QED  BY <1>1, <1>3, <1>4, <1>5, <1>6, <1>7 DEF ProxyInv

(* What is known at a step of a handler. *)
LEMMA AtStep ==
  ASSUME ProxyInv, NEW c \in Conns, NEW at, Running(c, at)
  PROVE  /\ conn[c] = "running" /\ h[c].at = at
         /\ h[c] \in HandlerType /\ Good(h[c])
         /\ global \in Nat /\ inflight \in Nat /\ MaxConnGlobal \in Nat
         /\ Slots \in Nat /\ global <= MaxConnGlobal /\ inflight <= Slots
         /\ h[c].told \in Seq({"granted", "refused"}) /\ Len(h[c].told) \in Nat
<1>1. Leased \in SUBSET Conns /\ Slotted \in SUBSET Conns
  BY DEF Leased, Slotted
<1>2. global \in Nat /\ inflight \in Nat
  BY <1>1, CountConns DEF ProxyInv
<1>3. conn[c] = "running" /\ h[c].at = at /\ h[c] \in HandlerType /\ Good(h[c])
  BY DEF Running, ProxyInv, StageInv
<1>4. h[c].told \in Seq({"granted", "refused"}) /\ Len(h[c].told) \in Nat
  BY <1>3 DEF HandlerType
<1> QED  BY <1>2, <1>3, <1>4, ProxyAssumption DEF ProxyInv

(* A handler that returns keeps its stack, and nothing else is asked of it *)
(* but that its client has its answer.                                     *)
LEMMA ReturningGood ==
  ASSUME NEW r \in HandlerType, r.defers \in {D1, D2, D3, D4, D5},
         r.up = "open" => r.defers \in {D4, D5},
         r.body = "open" => r.defers = D5,
         Len(r.told) <= 1, r.said = "fine" => Len(r.told) = 1
  PROVE  /\ Returning(r) \in HandlerType /\ Good(Returning(r))
         /\ Returning(r).defers = r.defers /\ Returning(r).at = "return"
<1> DEFINE q == Returning(r)
<1>1. q \in HandlerType
  <2>1. NoTarget \in Seq({"a", "%3F", "%2520"})
    BY DEF NoTarget
  <2> QED  BY <2>1 DEF Returning, HandlerType, At
<1>2. /\ q.at = "return" /\ q.path = "none" /\ q.defers = r.defers
      /\ q.up = r.up /\ q.body = r.body /\ q.told = r.told /\ q.said = r.said
  BY DEF Returning, HandlerType
<1> HIDE DEF q
<1>3. Good(q)
  BY <1>2 DEF Good, Stacked, Answered, Authorised, Dialing, Unauthenticated
<1> QED  BY <1>1, <1>2, <1>3 DEF q

(* Telling a client that has not been told. *)
LEMMA ToldType ==
  ASSUME NEW r \in HandlerType, Len(r.told) = 0,
         NEW v \in {"granted", "refused"}
  PROVE  /\ Told(r, v) \in HandlerType /\ Len(Told(r, v).told) = 1
         /\ Told(r, v).defers = r.defers /\ Told(r, v).body = r.body
         /\ Told(r, v).up = r.up /\ Told(r, v).at = r.at
         /\ Told(r, v).path = r.path /\ Told(r, v).cred = r.cred
<1>1. Append(r.told, v) \in Seq({"granted", "refused"}) /\ Len(Append(r.told, v)) = 1
  BY DEF HandlerType
<1> QED  BY <1>1 DEF Told, HandlerType

LEMMA RefusedGood ==
  ASSUME NEW r \in HandlerType, r.defers \in {D1, D2, D3, D4, D5},
         r.up = "open" => r.defers \in {D4, D5},
         r.body = "open" => r.defers = D5, Len(r.told) = 0,
         NEW v \in {"granted", "refused"}
  PROVE  LET q == Returning(Told(r, v)) IN
         /\ q \in HandlerType /\ Good(q)
         /\ q.defers = r.defers /\ q.at = "return"
<1> DEFINE t == Told(r, v)
<1>1. /\ t \in HandlerType /\ t.defers = r.defers /\ t.up = r.up
      /\ t.body = r.body /\ Len(t.told) = 1 /\ Len(t.told) <= 1
  <2>1. Len(t.told) = 1
    BY ToldType
  <2> QED  BY <2>1, ToldType
<1> HIDE DEF t
<1>2. Returning(t) \in HandlerType /\ Good(Returning(t))
      /\ Returning(t).defers = r.defers /\ Returning(t).at = "return"
  BY <1>1, ReturningGood
<1> QED  BY <1>2 DEF t

LEMMA QuitsGood ==
  ASSUME NEW r \in HandlerType, r.defers \in {D1, D2, D3, D4, D5},
         r.up = "open" => r.defers \in {D4, D5},
         r.body = "open" => r.defers = D5, Len(r.told) = 0
  PROVE  /\ Quits(r) \in HandlerType /\ Good(Quits(r))
         /\ Quits(r).defers = r.defers /\ Quits(r).at = "return"
<1> DEFINE t == Left(r)
<1>1. t \in HandlerType
  BY DEF Left, HandlerType
<1>2. /\ t.defers = r.defers /\ t.up = r.up /\ t.body = r.body
      /\ Len(t.told) = 0 /\ t.said # "fine"
  BY DEF Left, HandlerType
<1> HIDE DEF t
<1>3. Returning(t) \in HandlerType /\ Good(Returning(t))
      /\ Returning(t).defers = r.defers /\ Returning(t).at = "return"
  BY <1>1, <1>2, ReturningGood
<1> QED  BY <1>3 DEF t, Quits

(* A step that leaves both leases as they are.                             *)
LEMMA PlainStep ==
  ASSUME ProxyInv, NEW c \in Conns, NEW at, Running(c, at),
         NEW r \in HandlerType, Good(r), Become(c, r),
         UNCHANGED <<global, inflight>>,
         HasLease(h[c]) <=> HasLease(r), HasSlot(h[c]) <=> HasSlot(r)
  PROVE  ProxyInv'
<1>1. Counts(HasLease(h[c]), HasLease(r), global, global')
  BY DEF Counts
<1>2. Counts(HasSlot(h[c]), HasSlot(r), inflight, inflight')
  BY DEF Counts
<1> QED  BY <1>1, <1>2, AtStep, HandlerStep

(* A step that ends in the handler returning with the stack it has.        *)
LEMMA ReturnStep ==
  ASSUME ProxyInv, NEW c \in Conns, NEW at, Running(c, at),
         at \notin {"connect", "handshake"},
         NEW r \in HandlerType, Good(r), Become(c, r),
         r.defers = h[c].defers, r.at = "return",
         UNCHANGED <<global, inflight>>
  PROVE  ProxyInv'
<1>1. h[c].at = at
  BY AtStep
<1>2. (HasLease(h[c]) <=> HasLease(r)) /\ (HasSlot(h[c]) <=> HasSlot(r))
  BY <1>1 DEF HasLease, HasSlot
<1> QED  BY <1>2, PlainStep

(* Refusing and leaving, from wherever the client has not been told yet    *)
(* and nothing is being dialed.                                            *)
LEMMA RefuseStep ==
  ASSUME ProxyInv, NEW c \in Conns, NEW at, Running(c, at),
         at \notin {"connect", "handshake", "tunnel", "copy", "return"},
         NEW v \in {"granted", "refused"},
         Become(c, Returning(Told(h[c], v))) \/ Become(c, Quits(h[c])),
         UNCHANGED <<global, inflight>>
  PROVE  ProxyInv'
<1>1. /\ h[c] \in HandlerType /\ h[c].defers \in {D1, D2, D3, D4, D5}
      /\ h[c].up = "open" => h[c].defers \in {D4, D5}
      /\ h[c].body = "open" => h[c].defers = D5
      /\ Len(h[c].told) = 0
  <2>1. h[c] \in HandlerType /\ Good(h[c]) /\ h[c].at = at
    BY AtStep
  <2>2. h[c].at \in At
    BY <2>1 DEF HandlerType
  <2> QED
    BY <2>1, <2>2 DEF Good, Stacked, Answered, Dialing, At, Waits
<1>2. CASE Become(c, Returning(Told(h[c], v)))
  <2> DEFINE q == Returning(Told(h[c], v))
  <2>1. q \in HandlerType /\ Good(q) /\ q.defers = h[c].defers /\ q.at = "return"
    BY <1>1, RefusedGood
  <2> HIDE DEF q
  <2>2. Become(c, q)
    BY <1>2 DEF q
  <2> QED  BY <2>1, <2>2, ReturnStep
<1>3. CASE Become(c, Quits(h[c]))
  <2> DEFINE q == Quits(h[c])
  <2>1. q \in HandlerType /\ Good(q) /\ q.defers = h[c].defers /\ q.at = "return"
    BY <1>1, QuitsGood
  <2> HIDE DEF q
  <2>2. Become(c, q)
    BY <1>3 DEF q
  <2> QED  BY <2>1, <2>2, ReturnStep
<1> QED  BY <1>2, <1>3

LEMMA AcquireInv ==
  ASSUME ProxyInv, NEW c \in Conns, Acquire(c)
  PROVE  ProxyInv'
<1>0. Running(c, "acquire") /\ inflight' = inflight
  BY DEF Acquire
<1>1. CASE /\ global < MaxConnGlobal /\ global' = global + 1
           /\ Become(c, [Pushed(h[c], <<"lease.Release">>) EXCEPT
                !.at = IF Arrivals[c] = "socks5" THEN "greeting"
                       ELSE "readRequest"])
  <2> DEFINE a == IF Arrivals[c] = "socks5" THEN "greeting" ELSE "readRequest"
             r == [Pushed(h[c], <<"lease.Release">>) EXCEPT !.at = a]
  <2>0. a \in {"greeting", "readRequest"} /\ a \in At
    BY DEF At, Waits
  <2>7. Become(c, r)
    BY <1>1
  <2> HIDE DEF a
  <2>1. h[c] \in HandlerType /\ Good(h[c]) /\ h[c].at = "acquire" /\ h[c].defers = D1
    BY <1>0, AtStep DEF Good, Stacked
  <2>2. /\ r \in HandlerType /\ r.defers = D2 /\ r.at \in {"greeting", "readRequest"}
        /\ r.up = h[c].up /\ r.body = h[c].body /\ r.told = h[c].told
        /\ r.path = h[c].path /\ r.cred = h[c].cred
    <3>1. Pushed(h[c], <<"lease.Release">>) = [h[c] EXCEPT !.defers = D2]
      BY <2>1, Pushes DEF Pushed, HandlerType
    <3> QED  BY <3>1, <2>0, <2>1, Stacks DEF HandlerType
  <2> HIDE DEF r
  <2>3. Good(r)
    BY <2>1, <2>2, Stacks
       DEF Good, Stacked, Answered, Authorised, Dialing, Unauthenticated
  <2>4. ~HasLease(h[c]) /\ HasLease(r) /\ ~HasSlot(h[c]) /\ ~HasSlot(r)
    BY <2>1, <2>2, Stacks DEF HasLease, HasSlot
  <2>5. Counts(HasLease(h[c]), HasLease(r), global, global')
        /\ Counts(HasSlot(h[c]), HasSlot(r), inflight, inflight')
    BY <2>4, <1>0, <1>1 DEF Counts
  <2>6. Become(c, r) /\ global' <= MaxConnGlobal /\ inflight' <= Slots
    BY <1>0, <1>1, <2>7, AtStep
  <2> QED  BY <1>0, <2>2, <2>3, <2>5, <2>6, HandlerStep, AtStep
<1>2. CASE Become(c, Refused(h[c])) /\ UNCHANGED global
  BY <1>0, <1>2, RefuseStep DEF Refused
<1> QED  BY <1>1, <1>2 DEF Acquire

(* Moving on without a verdict and with the stack and sockets as they are. *)
LEMMA AdvanceStep ==
  ASSUME ProxyInv, NEW c \in Conns, NEW at, Running(c, at),
         at \in {"greeting", "password", "readRequest", "request"},
         NEW r \in HandlerType, Become(c, r), UNCHANGED <<global, inflight>>,
         r.at \in {"password", "request", "dial"}, Authorised(r),
         r.defers = h[c].defers, r.up = h[c].up, r.body = h[c].body,
         r.told = h[c].told
  PROVE  ProxyInv'
<1>1. h[c] \in HandlerType /\ Good(h[c]) /\ h[c].at = at
  BY AtStep
<1>2. h[c].defers = D2 /\ h[c].up # "open" /\ h[c].body # "open" /\ Len(h[c].told) = 0
  BY <1>1, StacksDiffer DEF Good, Stacked, Answered, Dialing
<1>3. Good(r)
  BY <1>2, StacksDiffer DEF Good, Stacked, Answered, Dialing
<1>4. (HasLease(h[c]) <=> HasLease(r)) /\ (HasSlot(h[c]) <=> HasSlot(r))
  BY <1>1 DEF HasLease, HasSlot
<1> QED  BY <1>3, <1>4, PlainStep

LEMMA GreetingInv ==
  ASSUME ProxyInv, NEW c \in Conns, Greeting(c)
  PROVE  ProxyInv'
<1>0. Running(c, "greeting") /\ UNCHANGED <<global, inflight>>
      /\ h[c] \in HandlerType /\ Good(h[c])
  BY AtStep DEF Greeting
<1>1. CASE Become(c, Quits(h[c])) \/ Become(c, Refused(h[c]))
  BY <1>0, <1>1, RefuseStep DEF Refused
<1>2. CASE Become(c, [h[c] EXCEPT !.at = "password"])
  <2> DEFINE r == [h[c] EXCEPT !.at = "password"]
  <2>1. /\ r \in HandlerType /\ r.at = "password" /\ r.defers = h[c].defers
        /\ r.up = h[c].up /\ r.body = h[c].body /\ r.told = h[c].told
        /\ r.path = h[c].path /\ r.cred = h[c].cred
    BY <1>0 DEF HandlerType, At, Waits
  <2> HIDE DEF r
  <2>2. Authorised(r)
    BY <1>0, <2>1 DEF Good, Authorised, Unauthenticated
  <2>3. Become(c, r)
    BY <1>2 DEF r
  <2> QED  BY <1>0, <2>1, <2>2, <2>3, AdvanceStep
<1>3. CASE ~auth /\ Become(c, [h[c] EXCEPT !.at = "request", !.path = "socks5"])
  <2> DEFINE r == [h[c] EXCEPT !.at = "request", !.path = "socks5"]
  <2>1. /\ r \in HandlerType /\ r.at = "request" /\ r.defers = h[c].defers
        /\ r.up = h[c].up /\ r.body = h[c].body /\ r.told = h[c].told
        /\ r.path = "socks5"
    BY <1>0 DEF HandlerType, At, Waits
  <2> HIDE DEF r
  <2>2. Authorised(r)
    BY <1>3, <2>1 DEF Authorised
  <2>3. Become(c, r)
    BY <1>3 DEF r
  <2> QED  BY <1>0, <2>1, <2>2, <2>3, AdvanceStep
<1> QED  BY <1>1, <1>2, <1>3 DEF Greeting

(* A request refused after its credentials have been read. *)
LEMMA CredRefused ==
  ASSUME ProxyInv, NEW c \in Conns, NEW at, Running(c, at),
         at \in {"password", "readRequest"},
         \/ Become(c, Refused(Left(h[c])))
         \/ \E cred \in {"none", "wrong", "right"} :
                Become(c, Refused([h[c] EXCEPT !.cred = cred])),
         UNCHANGED <<global, inflight>>
  PROVE  ProxyInv'
<1>1. /\ h[c] \in HandlerType /\ h[c].at = at /\ h[c].defers = D2
      /\ h[c].up # "open" /\ h[c].body # "open" /\ Len(h[c].told) = 0
  <2>1. h[c] \in HandlerType /\ Good(h[c]) /\ h[c].at = at
    BY AtStep
  <2> QED  BY <2>1, StacksDiffer DEF Good, Stacked, Answered, Dialing
<1>2. ASSUME NEW r \in HandlerType, r.defers = D2, r.up # "open",
             r.body # "open", Len(r.told) = 0, Become(c, Refused(r))
      PROVE  ProxyInv'
  <2> DEFINE q == Refused(r)
  <2>1. q \in HandlerType /\ Good(q) /\ q.defers = D2 /\ q.at = "return"
    BY <1>2, RefusedGood DEF Refused
  <2> HIDE DEF q
  <2>2. Become(c, q)
    BY <1>2 DEF q
  <2> QED  BY <1>1, <2>1, <2>2, ReturnStep
<1>3. CASE Become(c, Refused(Left(h[c])))
  <2> DEFINE r == Left(h[c])
  <2>1. r \in HandlerType /\ r.defers = D2 /\ r.up # "open"
        /\ r.body # "open" /\ Len(r.told) = 0
    BY <1>1 DEF Left, HandlerType
  <2> HIDE DEF r
  <2>2. Become(c, Refused(r))
    BY <1>3 DEF r
  <2> QED  BY <2>1, <2>2, <1>2
<1>4. ASSUME NEW cred \in {"none", "wrong", "right"},
             Become(c, Refused([h[c] EXCEPT !.cred = cred]))
      PROVE  ProxyInv'
  <2> DEFINE r == [h[c] EXCEPT !.cred = cred]
  <2>1. r \in HandlerType /\ r.defers = D2 /\ r.up # "open"
        /\ r.body # "open" /\ Len(r.told) = 0
    BY <1>1 DEF HandlerType
  <2> HIDE DEF r
  <2>2. Become(c, Refused(r))
    BY <1>4 DEF r
  <2> QED  BY <2>1, <2>2, <1>2
<1> QED  BY <1>3, <1>4

LEMMA PasswordInv ==
  ASSUME ProxyInv, NEW c \in Conns, Password(c)
  PROVE  ProxyInv'
<1>0. Running(c, "password") /\ UNCHANGED <<global, inflight>>
      /\ h[c] \in HandlerType /\ Good(h[c])
  BY AtStep DEF Password
<1>1. CASE Become(c, Quits(h[c]))
  BY <1>0, <1>1, RefuseStep
<1>2. ASSUME NEW cred \in {"wrong", "right"}, ~Check(cred),
             Become(c, Refused([h[c] EXCEPT !.cred = cred]))
      PROVE  ProxyInv'
  BY <1>0, <1>2, CredRefused
<1>3. ASSUME NEW cred \in {"wrong", "right"}, Check(cred),
             Become(c, [[h[c] EXCEPT !.cred = cred] EXCEPT !.at = "request",
                                                   !.path = "socks5"])
      PROVE  ProxyInv'
  <2> DEFINE r == [[h[c] EXCEPT !.cred = cred] EXCEPT !.at = "request",
                                                   !.path = "socks5"]
  <2>1. /\ r \in HandlerType /\ r.at = "request" /\ r.defers = h[c].defers
        /\ r.up = h[c].up /\ r.body = h[c].body /\ r.told = h[c].told
        /\ r.path = "socks5" /\ r.cred = cred
    BY <1>0 DEF HandlerType, At, Waits
  <2> HIDE DEF r
  <2>2. Authorised(r)
    BY <1>3, <2>1 DEF Authorised, Check
  <2>3. Become(c, r)
    BY <1>3 DEF r
  <2> QED  BY <1>0, <2>1, <2>2, <2>3, AdvanceStep
<1> QED  BY <1>1, <1>2, <1>3 DEF Password

LEMMA RequestInv ==
  ASSUME ProxyInv, NEW c \in Conns, Request(c)
  PROVE  ProxyInv'
<1>0. Running(c, "request") /\ UNCHANGED <<global, inflight>>
      /\ h[c] \in HandlerType /\ Good(h[c]) /\ h[c].at = "request"
  BY AtStep DEF Request
<1>1. CASE Become(c, Quits(h[c])) \/ Become(c, Refused(h[c]))
  BY <1>0, <1>1, RefuseStep DEF Refused
<1>2. CASE Become(c, [h[c] EXCEPT !.at = "dial"])
  <2> DEFINE r == [h[c] EXCEPT !.at = "dial"]
  <2>1. /\ r \in HandlerType /\ r.at = "dial" /\ r.defers = h[c].defers
        /\ r.up = h[c].up /\ r.body = h[c].body /\ r.told = h[c].told
        /\ r.path = h[c].path /\ r.cred = h[c].cred
    BY <1>0 DEF HandlerType, At
  <2> HIDE DEF r
  <2>2. Authorised(r)
    BY <1>0, <2>1 DEF Good, Authorised, Unauthenticated
  <2>3. Become(c, r)
    BY <1>2 DEF r
  <2> QED  BY <1>0, <2>1, <2>2, <2>3, AdvanceStep
<1> QED  BY <1>1, <1>2 DEF Request

LEMMA ReadRequestInv ==
  ASSUME ProxyInv, NEW c \in Conns, ReadRequest(c)
  PROVE  ProxyInv'
<1>0. Running(c, "readRequest") /\ UNCHANGED <<global, inflight>>
      /\ h[c] \in HandlerType /\ Good(h[c])
  BY AtStep DEF ReadRequest
<1>1. CASE Become(c, Refused(Left(h[c])))
  BY <1>0, <1>1, CredRefused
<1>2. ASSUME NEW cred \in {"none", "wrong", "right"},
             Become(c, Refused([h[c] EXCEPT !.cred = cred]))
      PROVE  ProxyInv'
  BY <1>0, <1>2, CredRefused
<1>3. ASSUME NEW cred \in {"none", "wrong", "right"},
             NEW path \in {"connect", "plain"}, NEW t \in Targets, Check(cred),
             Become(c, [[h[c] EXCEPT !.cred = cred] EXCEPT
                        !.at = "dial", !.path = path,
                        !.asked = IF path = "plain" THEN t ELSE NoTarget])
      PROVE  ProxyInv'
  <2> DEFINE a == IF path = "plain" THEN t ELSE NoTarget
             r == [[h[c] EXCEPT !.cred = cred] EXCEPT
                        !.at = "dial", !.path = path, !.asked = a]
  <2>0. a \in Targets \cup {NoTarget}
    OBVIOUS
  <2>3. Become(c, r)
    BY <1>3
  <2> HIDE DEF a
  <2>1. /\ r \in HandlerType /\ r.at = "dial" /\ r.defers = h[c].defers
        /\ r.up = h[c].up /\ r.body = h[c].body /\ r.told = h[c].told
        /\ r.path = path /\ r.cred = cred
    BY <1>0, <2>0 DEF HandlerType, At
  <2> HIDE DEF r
  <2>2. Authorised(r)
    BY <1>3, <2>1 DEF Authorised, Check
  <2> QED  BY <1>0, <2>1, <2>2, <2>3, AdvanceStep
<1> QED  BY <1>1, <1>2, <1>3 DEF ReadRequest

-----------------------------------------------------------------------------
(* The dial, and what follows it.                                          *)

LEMMA SelectInv ==
  ASSUME ProxyInv, NEW c \in Conns, Select(c)
  PROVE  ProxyInv'
<1>0. Running(c, "dial") /\ UNCHANGED global
  BY DEF Select
<1>1. CASE /\ inflight < Slots /\ inflight' = inflight + 1
           /\ Become(c, [h[c] EXCEPT !.at = "connect"])
  <2> DEFINE r == [h[c] EXCEPT !.at = "connect"]
  <2>1. h[c] \in HandlerType /\ Good(h[c]) /\ h[c].at = "dial" /\ h[c].defers = D2
    BY <1>0, AtStep DEF Good, Stacked, Dialing
  <2>2. /\ r \in HandlerType /\ r.defers = D2 /\ r.at = "connect"
        /\ r.up = h[c].up /\ r.body = h[c].body /\ r.told = h[c].told
        /\ r.path = h[c].path /\ r.cred = h[c].cred
    BY <2>1 DEF HandlerType, At
  <2>3. Become(c, r)
    BY <1>1
  <2> HIDE DEF r
  <2>4. Good(r)
    BY <2>1, <2>2, StacksDiffer
       DEF Good, Stacked, Answered, Authorised, Dialing, Unauthenticated
  <2>5. HasLease(h[c]) /\ HasLease(r) /\ ~HasSlot(h[c]) /\ HasSlot(r)
    BY <2>1, <2>2, StacksDiffer DEF HasLease, HasSlot
  <2>6. Counts(HasLease(h[c]), HasLease(r), global, global')
        /\ Counts(HasSlot(h[c]), HasSlot(r), inflight, inflight')
    BY <2>5, <1>0, <1>1 DEF Counts
  <2>7. global' <= MaxConnGlobal /\ inflight' <= Slots
    BY <1>0, <1>1, AtStep
  <2> QED  BY <1>0, <2>2, <2>3, <2>4, <2>6, <2>7, HandlerStep, AtStep
<1>2. CASE Become(c, Refused(h[c])) /\ UNCHANGED inflight
  BY <1>0, <1>2, RefuseStep DEF Refused
<1> QED  BY <1>1, <1>2 DEF Select

LEMMA ConnectInv ==
  ASSUME ProxyInv, NEW c \in Conns, Connect(c)
  PROVE  ProxyInv'
<1> DEFINE r == [h[c] EXCEPT !.at = "handshake", !.up = "open"]
<1>0. Running(c, "connect") /\ UNCHANGED <<global, inflight>> /\ Become(c, r)
  BY DEF Connect
<1>1. h[c] \in HandlerType /\ Good(h[c]) /\ h[c].at = "connect" /\ h[c].defers = D2
  BY <1>0, AtStep DEF Good, Stacked, Dialing
<1>2. /\ r \in HandlerType /\ r.defers = D2 /\ r.at = "handshake"
      /\ r.body = h[c].body /\ r.told = h[c].told
      /\ r.path = h[c].path /\ r.cred = h[c].cred
  BY <1>1 DEF HandlerType, At, Waits
<1> HIDE DEF r
<1>3. Good(r)
  BY <1>1, <1>2, StacksDiffer
     DEF Good, Stacked, Answered, Authorised, Dialing, Unauthenticated
<1>4. HasLease(h[c]) /\ HasLease(r) /\ HasSlot(h[c]) /\ HasSlot(r)
  BY <1>1, <1>2 DEF HasLease, HasSlot
<1> QED  BY <1>0, <1>2, <1>3, <1>4, PlainStep

(* DialViaSocks closes the socket and releases the lease before it returns *)
(* an error.                                                               *)
LEMMA DialFailsInv ==
  ASSUME ProxyInv, NEW c \in Conns, DialFails(c)
  PROVE  ProxyInv'
<1> DEFINE r == [h[c] EXCEPT !.up = "none"]
           q == Refused(r)
<1>0. /\ \E at \in {"connect", "handshake"} : Running(c, at)
      /\ UNCHANGED global /\ inflight' = inflight - 1 /\ Become(c, q)
  BY DEF DialFails
<1>1. PICK at \in {"connect", "handshake"} : Running(c, at)
  BY <1>0
<1>2. /\ h[c] \in HandlerType /\ Good(h[c]) /\ h[c].at = at
      /\ global \in Nat /\ inflight \in Nat /\ MaxConnGlobal \in Nat
      /\ Slots \in Nat /\ global <= MaxConnGlobal /\ inflight <= Slots
      /\ conn[c] = "running"
  BY <1>1, AtStep
<1>3. h[c].defers = D2 /\ h[c].body # "open" /\ Len(h[c].told) = 0
  BY <1>2, StacksDiffer DEF Good, Stacked, Answered, Dialing
<1>4. r \in HandlerType /\ r.defers = D2 /\ r.up # "open" /\ r.body # "open"
      /\ Len(r.told) = 0
  BY <1>2, <1>3 DEF HandlerType
<1>5. q \in HandlerType /\ Good(q) /\ q.defers = D2 /\ q.at = "return"
  <2> HIDE DEF r
  <2> QED  BY <1>4, RefusedGood DEF Refused
<1> HIDE DEF q
<1>6. HasLease(h[c]) /\ HasLease(q) /\ HasSlot(h[c]) /\ ~HasSlot(q)
  BY <1>2, <1>3, <1>5, StacksDiffer DEF HasLease, HasSlot
<1>7. Counts(HasLease(h[c]), HasLease(q), global, global')
      /\ Counts(HasSlot(h[c]), HasSlot(q), inflight, inflight')
  BY <1>6, <1>0 DEF Counts
<1>8. global' <= MaxConnGlobal /\ inflight' <= Slots
  BY <1>0, <1>2
<1> QED  BY <1>0, <1>2, <1>5, <1>7, <1>8, HandlerStep

LEMMA DialOKInv ==
  ASSUME ProxyInv, NEW c \in Conns, DialOK(c)
  PROVE  ProxyInv'
<1> DEFINE p == Pushed(h[c], <<"backendLease.Release", "upstream.Close">>)
           w == [p EXCEPT !.at = "writeRequest"]
           n == [p EXCEPT !.at = "tunnel"]
           t == Told(n, "granted")
<1>0. /\ Running(c, "handshake") /\ UNCHANGED <<global, inflight>>
      /\ Become(c, w) \/ Become(c, t)
  BY DEF DialOK
<1>1. h[c] \in HandlerType /\ Good(h[c]) /\ h[c].at = "handshake" /\ h[c].defers = D2
  BY <1>0, AtStep DEF Good, Stacked, Dialing
<1>2. p = [h[c] EXCEPT !.defers = D4]
  BY <1>1, Pushes DEF Pushed, HandlerType
<1>3. /\ p \in HandlerType /\ p.defers = D4 /\ p.body = h[c].body
      /\ p.told = h[c].told /\ p.path = h[c].path /\ p.cred = h[c].cred
  BY <1>1, <1>2, Stacks DEF HandlerType
<1> HIDE DEF p
<1>4. h[c].body # "open" /\ Len(h[c].told) = 0 /\ h[c].path # "none"
      /\ (auth => h[c].cred = "right")
  BY <1>1, StacksDiffer DEF Good, Stacked, Answered, Authorised, Unauthenticated
<1>5. ASSUME NEW r \in HandlerType, Become(c, r), r.defers = D4,
             r.body # "open", r.path # "none", auth => r.cred = "right",
             \/ r.at = "writeRequest" /\ Len(r.told) = 0
             \/ r.at = "tunnel" /\ Len(r.told) = 1
      PROVE  ProxyInv'
  <2>1. Good(r)
    BY <1>5, StacksDiffer
       DEF Good, Stacked, Answered, Authorised, Dialing, Unauthenticated
  <2>2. HasLease(h[c]) /\ HasLease(r) /\ HasSlot(h[c]) /\ HasSlot(r)
    BY <1>1, <1>5 DEF HasLease, HasSlot
  <2> QED  BY <1>0, <1>5, <2>1, <2>2, PlainStep
<1>6. CASE Become(c, w)
  <2>1. /\ w \in HandlerType /\ w.defers = D4 /\ w.body = p.body
        /\ w.at = "writeRequest" /\ w.told = p.told
        /\ w.path = p.path /\ w.cred = p.cred
    BY <1>3 DEF HandlerType, At, Waits
  <2> HIDE DEF w
  <2> QED  BY <2>1, <1>3, <1>4, <1>5, <1>6
<1>7. CASE Become(c, t)
  <2>1. /\ n \in HandlerType /\ n.defers = D4 /\ n.body = p.body
        /\ n.at = "tunnel" /\ n.told = p.told
        /\ n.path = p.path /\ n.cred = p.cred
    BY <1>3 DEF HandlerType, At, Waits
  <2>2. Len(n.told) = 0
    BY <2>1, <1>3, <1>4
  <2> HIDE DEF n
  <2>3. /\ t \in HandlerType /\ t.defers = D4 /\ t.body = n.body
        /\ t.at = "tunnel" /\ Len(t.told) = 1
        /\ t.path = n.path /\ t.cred = n.cred
    BY <2>1, <2>2, ToldType
  <2> HIDE DEF t
  <2> QED  BY <2>1, <2>3, <1>3, <1>4, <1>5, <1>7
<1> QED  BY <1>0, <1>6, <1>7

(* What goes out is made of escaped pieces. *)
LEMMA URIType ==
  ASSUME NEW t \in Targets \cup {NoTarget}
  PROVE  RequestURI(t) \in Seq({"a", "%3F", "%2520"})
<1> DEFINE W == {"a", "?", "%20"}
           C == {"a", "%3F", "%2520"}
<1>1. t \in Seq(W)
  <2>1. NoTarget \in Seq(W)
    BY DEF NoTarget
  <2>2. \A x \in Targets : x \in Seq(W)
    BY ProxyAssumption
  <2> QED  BY <2>1, <2>2
<1>2. \A x \in W : Escape(x) \in C
  BY DEF Escape
<1> HIDE DEF W, C
<1>3. DOMAIN t = 1..Len(t) /\ Len(t) \in Nat /\ \A i \in 1..Len(t) : t[i] \in W
  BY <1>1
<1>4. RequestURI(t) = [i \in 1..Len(t) |-> Escape(t[i])]
  BY <1>3 DEF RequestURI
<1>5. RequestURI(t) \in [1..Len(t) -> C]
  BY <1>2, <1>3, <1>4
<1>6. RequestURI(t) \in Seq(C)
  BY <1>3, <1>5
<1> QED  BY <1>6 DEF C

LEMMA WriteRequestInv ==
  ASSUME ProxyInv, NEW c \in Conns, WriteRequest(c)
  PROVE  ProxyInv'
<1>0. Running(c, "writeRequest") /\ UNCHANGED <<global, inflight>>
  BY DEF WriteRequest
<1>1. CASE Become(c, Refused(h[c]))
  BY <1>0, <1>1, RefuseStep DEF Refused
<1>2. CASE Become(c, [h[c] EXCEPT !.at = "readResponse",
                                  !.sent = RequestURI(h[c].asked)])
  <2> DEFINE u == RequestURI(h[c].asked)
             r == [h[c] EXCEPT !.at = "readResponse", !.sent = u]
  <2>1. /\ h[c] \in HandlerType /\ Good(h[c]) /\ h[c].at = "writeRequest"
        /\ h[c].defers = D4
    BY <1>0, AtStep DEF Good, Stacked
  <2>2. u \in Seq({"a", "%3F", "%2520"})
    BY <2>1, URIType DEF HandlerType
  <2>3. Become(c, r)
    BY <1>2
  <2> HIDE DEF u
  <2>4. /\ r \in HandlerType /\ r.defers = D4 /\ r.at = "readResponse"
        /\ r.up = h[c].up /\ r.body = h[c].body /\ r.told = h[c].told
        /\ r.path = h[c].path /\ r.cred = h[c].cred
    BY <2>1, <2>2 DEF HandlerType, At, Waits
  <2> HIDE DEF r
  <2>5. Good(r)
    BY <2>1, <2>4, StacksDiffer
       DEF Good, Stacked, Answered, Authorised, Dialing, Unauthenticated
  <2>6. HasLease(h[c]) /\ HasLease(r) /\ HasSlot(h[c]) /\ HasSlot(r)
    BY <2>1, <2>4 DEF HasLease, HasSlot
  <2> QED  BY <1>0, <2>3, <2>4, <2>5, <2>6, PlainStep
<1> QED  BY <1>1, <1>2 DEF WriteRequest

LEMMA ReadResponseInv ==
  ASSUME ProxyInv, NEW c \in Conns, ReadResponse(c)
  PROVE  ProxyInv'
<1>0. Running(c, "readResponse") /\ UNCHANGED <<global, inflight>>
  BY DEF ReadResponse
<1>1. CASE Become(c, Refused(h[c]))
  BY <1>0, <1>1, RefuseStep DEF Refused
<1>2. CASE Become(c, [Pushed(h[c], <<"body.Close">>) EXCEPT
                        !.at = "respond", !.body = "open"])
  <2> DEFINE p == Pushed(h[c], <<"body.Close">>)
             r == [p EXCEPT !.at = "respond", !.body = "open"]
  <2>1. /\ h[c] \in HandlerType /\ Good(h[c]) /\ h[c].at = "readResponse"
        /\ h[c].defers = D4
    BY <1>0, AtStep DEF Good, Stacked
  <2>2. p = [h[c] EXCEPT !.defers = D5]
    BY <2>1, Pushes DEF Pushed, HandlerType
  <2>3. Become(c, r)
    BY <1>2
  <2> HIDE DEF p
  <2>4. /\ r \in HandlerType /\ r.defers = D5 /\ r.at = "respond"
        /\ r.told = h[c].told /\ r.path = h[c].path /\ r.cred = h[c].cred
    BY <2>1, <2>2, Stacks DEF HandlerType, At, Waits
  <2> HIDE DEF r
  <2>5. Good(r)
    BY <2>1, <2>4, StacksDiffer
       DEF Good, Stacked, Answered, Authorised, Dialing, Unauthenticated
  <2>6. HasLease(h[c]) /\ HasLease(r) /\ HasSlot(h[c]) /\ HasSlot(r)
    BY <2>1, <2>4 DEF HasLease, HasSlot
  <2> QED  BY <1>0, <2>3, <2>4, <2>5, <2>6, PlainStep
<1> QED  BY <1>1, <1>2 DEF ReadResponse

LEMMA RespondInv ==
  ASSUME ProxyInv, NEW c \in Conns, Respond(c)
  PROVE  ProxyInv'
<1>0. Running(c, "respond") /\ UNCHANGED <<global, inflight>>
  BY DEF Respond
<1>1. CASE Become(c, Returning(Told(h[c], "granted"))) \/ Become(c, Quits(h[c]))
  BY <1>0, <1>1, RefuseStep
<1>2. CASE Become(c, Told([h[c] EXCEPT !.at = "copy", !.body = "none"], "granted"))
  <2> DEFINE n == [h[c] EXCEPT !.at = "copy", !.body = "none"]
             r == Told(n, "granted")
  <2>1. /\ h[c] \in HandlerType /\ Good(h[c]) /\ h[c].at = "respond"
        /\ h[c].defers = D5
    BY <1>0, AtStep DEF Good, Stacked
  <2>2. Len(h[c].told) = 0 /\ Authorised(h[c])
    BY <2>1 DEF Good, Answered
  <2>3. /\ n \in HandlerType /\ n.defers = D5 /\ n.at = "copy" /\ Len(n.told) = 0
        /\ n.path = h[c].path /\ n.cred = h[c].cred
    BY <2>1, <2>2 DEF HandlerType, At, Waits
  <2>4. Become(c, r)
    BY <1>2
  <2> HIDE DEF n
  <2>5. /\ r \in HandlerType /\ r.defers = D5 /\ r.at = "copy" /\ Len(r.told) = 1
        /\ r.path = h[c].path /\ r.cred = h[c].cred
    BY <2>3, ToldType
  <2> HIDE DEF r
  <2>6. Good(r)
    BY <2>1, <2>2, <2>5, StacksDiffer
       DEF Good, Stacked, Answered, Authorised, Dialing, Unauthenticated
  <2>7. HasLease(h[c]) /\ HasLease(r) /\ HasSlot(h[c]) /\ HasSlot(r)
    BY <2>1, <2>5 DEF HasLease, HasSlot
  <2> QED  BY <1>0, <2>4, <2>5, <2>6, <2>7, PlainStep
<1> QED  BY <1>1, <1>2 DEF Respond

LEMMA CopyReturnsInv ==
  ASSUME ProxyInv, NEW c \in Conns, CopyReturns(c)
  PROVE  ProxyInv'
<1> DEFINE q == Returning(h[c])
<1>0. /\ \E at \in {"tunnel", "copy"} : Running(c, at)
      /\ UNCHANGED <<global, inflight>> /\ Become(c, q)
  BY DEF CopyReturns
<1>1. PICK at \in {"tunnel", "copy"} : Running(c, at)
  BY <1>0
<1>2. h[c] \in HandlerType /\ Good(h[c]) /\ h[c].at = at
  BY <1>1, AtStep
<1>3. /\ h[c].defers \in {D4, D5} /\ Len(h[c].told) = 1 /\ Len(h[c].told) <= 1
      /\ h[c].body = "open" => h[c].defers = D5
  <2>1. Len(h[c].told) = 1
    BY <1>2 DEF Good, Answered
  <2> QED  BY <2>1, <1>2 DEF Good, Stacked
<1>4. q \in HandlerType /\ Good(q) /\ q.defers = h[c].defers /\ q.at = "return"
  BY <1>2, <1>3, ReturningGood
<1> HIDE DEF q
<1> QED  BY <1>0, <1>1, <1>4, ReturnStep

-----------------------------------------------------------------------------
(* The deferred calls.                                                     *)

(* The call on top of the stack determines the stack.                      *)
LEMMA TopOfStack ==
  ASSUME ProxyInv, NEW c \in Conns, NEW call, Popping(c, call)
  PROVE  /\ h[c].defers \in {D1, D2, D3, D4, D5}
         /\ Popped(h[c]) = [h[c] EXCEPT !.defers = Front(h[c].defers)]
         /\ call = "body.Close" => h[c].defers = D5
         /\ call = "upstream.Close" => h[c].defers = D4
         /\ call = "backendLease.Release" => h[c].defers = D3
         /\ call = "lease.Release" => h[c].defers = D2
         /\ call = "conn.Close" => h[c].defers = D1
<1>1. h[c].at = "return" /\ Good(h[c]) /\ h[c] \in HandlerType
  BY AtStep DEF Popping
<1>2. h[c].defers \in {D1, D2, D3, D4, D5}
  BY <1>1 DEF Good, Stacked, Popping
<1>3. Popped(h[c]) = [h[c] EXCEPT !.defers = Front(h[c].defers)]
  BY <1>1 DEF Popped, HandlerType
<1> QED  BY <1>2, <1>3, Pops DEF Popping

(* A deferred call of a returning handler: the stack loses its top, and    *)
(* the resource it stood for is gone.                                      *)
LEMMA PopStep ==
  ASSUME ProxyInv, NEW c \in Conns, Running(c, "return"),
         NEW r \in HandlerType, Become(c, r), r.at = "return",
         r.told = h[c].told, r.said = h[c].said,
         r.path = h[c].path, r.cred = h[c].cred,
         \/ /\ h[c].defers = D5 /\ r.defers = D4
            /\ r.up = h[c].up /\ r.body # "open" /\ UNCHANGED <<global, inflight>>
         \/ /\ h[c].defers = D4 /\ r.defers = D3
            /\ r.up # "open" /\ r.body = h[c].body /\ UNCHANGED <<global, inflight>>
         \/ /\ h[c].defers = D3 /\ r.defers = D2
            /\ r.up = h[c].up /\ r.body = h[c].body
            /\ inflight' = inflight - 1 /\ UNCHANGED global
         \/ /\ h[c].defers = D2 /\ r.defers = D1
            /\ r.up = h[c].up /\ r.body = h[c].body
            /\ global' = global - 1 /\ UNCHANGED inflight
         \/ /\ h[c].defers = D1 /\ r.defers = <<>>
            /\ r.up = h[c].up /\ r.body = h[c].body /\ UNCHANGED <<global, inflight>>
  PROVE  ProxyInv'
<1>1. /\ h[c] \in HandlerType /\ Good(h[c]) /\ h[c].at = "return"
      /\ global \in Nat /\ inflight \in Nat /\ MaxConnGlobal \in Nat
      /\ Slots \in Nat /\ global <= MaxConnGlobal /\ inflight <= Slots
      /\ conn[c] = "running"
  BY AtStep
<1>2. Answered(r) /\ Authorised(r)
  BY <1>1 DEF Good, Answered, Authorised, Unauthenticated
<1>3. Stacked(r)
  BY <1>1, StacksDiffer DEF Good, Stacked, Dialing
<1>4. Good(r)
  BY <1>2, <1>3 DEF Good
<1>5. Counts(HasLease(h[c]), HasLease(r), global, global')
  BY <1>1, StacksDiffer DEF Counts, HasLease
<1>6. Counts(HasSlot(h[c]), HasSlot(r), inflight, inflight')
  BY <1>1, StacksDiffer DEF Counts, HasSlot
<1>7. global' <= MaxConnGlobal /\ inflight' <= Slots
  BY <1>1
<1> QED  BY <1>1, <1>4, <1>5, <1>6, <1>7, HandlerStep

LEMMA DeferredInv ==
  ASSUME ProxyInv, NEW c \in Conns,
         \/ BodyClose(c) \/ CloseUpstream(c) \/ ReleaseBackend(c)
         \/ ReleaseConn(c) \/ CloseConn(c)
  PROVE  ProxyInv'
<1>0. Running(c, "return") /\ h[c] \in HandlerType /\ h[c].at = "return"
  <2>1. Running(c, "return")
    BY DEF BodyClose, CloseUpstream, ReleaseBackend, ReleaseConn, CloseConn, Popping
  <2> QED  BY <2>1, AtStep
<1>1. CASE BodyClose(c)
  <2> DEFINE r == [[h[c] EXCEPT !.defers = D4] EXCEPT !.body = "none"]
  <2>1. h[c].defers = D5 /\ Become(c, r) /\ UNCHANGED <<global, inflight>>
    BY <1>1, TopOfStack, Pops DEF BodyClose
  <2>2. /\ r \in HandlerType /\ r.at = "return" /\ r.defers = D4
        /\ r.told = h[c].told /\ r.said = h[c].said /\ r.path = h[c].path
        /\ r.cred = h[c].cred /\ r.up = h[c].up /\ r.body # "open"
    BY <1>0, Stacks DEF HandlerType
  <2> HIDE DEF r
  <2> QED  BY <1>0, <2>1, <2>2, PopStep
<1>2. CASE CloseUpstream(c)
  <2> DEFINE r == [[h[c] EXCEPT !.defers = D3] EXCEPT !.up = "none"]
  <2>1. h[c].defers = D4 /\ Become(c, r) /\ UNCHANGED <<global, inflight>>
    BY <1>2, TopOfStack, Pops DEF CloseUpstream
  <2>2. /\ r \in HandlerType /\ r.at = "return" /\ r.defers = D3
        /\ r.told = h[c].told /\ r.said = h[c].said /\ r.path = h[c].path
        /\ r.cred = h[c].cred /\ r.up # "open" /\ r.body = h[c].body
    BY <1>0, Stacks DEF HandlerType
  <2> HIDE DEF r
  <2> QED  BY <1>0, <2>1, <2>2, PopStep
<1>3. ASSUME NEW d \in {<<>>, D1, D2}, Become(c, [h[c] EXCEPT !.defers = d]),
             \/ /\ h[c].defers = D3 /\ d = D2
                /\ inflight' = inflight - 1 /\ UNCHANGED global
             \/ /\ h[c].defers = D2 /\ d = D1
                /\ global' = global - 1 /\ UNCHANGED inflight
             \/ h[c].defers = D1 /\ d = <<>> /\ UNCHANGED <<global, inflight>>
      PROVE  ProxyInv'
  <2> DEFINE r == [h[c] EXCEPT !.defers = d]
  <2>1. d \in Seq(Defers)
    BY <1>3, Stacks, EmptySeq
  <2>2. /\ r \in HandlerType /\ r.at = "return" /\ r.defers = d
        /\ r.told = h[c].told /\ r.said = h[c].said /\ r.path = h[c].path
        /\ r.cred = h[c].cred /\ r.up = h[c].up /\ r.body = h[c].body
    BY <1>0, <2>1 DEF HandlerType
  <2>3. Become(c, r)
    BY <1>3
  <2> HIDE DEF r
  <2> QED  BY <1>0, <1>3, <2>2, <2>3, PopStep
<1>4. CASE ReleaseBackend(c)
  <2>1. /\ h[c].defers = D3 /\ Become(c, [h[c] EXCEPT !.defers = D2])
        /\ inflight' = inflight - 1 /\ UNCHANGED global
    BY <1>4, TopOfStack, Pops DEF ReleaseBackend
  <2> QED  BY <2>1, <1>3
<1>5. CASE ReleaseConn(c)
  <2>1. /\ h[c].defers = D2 /\ Become(c, [h[c] EXCEPT !.defers = D1])
        /\ global' = global - 1 /\ UNCHANGED inflight
    BY <1>5, TopOfStack, Pops DEF ReleaseConn
  <2> QED  BY <2>1, <1>3
<1>6. CASE CloseConn(c)
  <2>1. /\ h[c].defers = D1 /\ Become(c, [h[c] EXCEPT !.defers = <<>>])
        /\ UNCHANGED <<global, inflight>>
    BY <1>6, TopOfStack, Pops DEF CloseConn
  <2> QED  BY <2>1, <1>3
<1> QED  BY <1>1, <1>2, <1>4, <1>5, <1>6

-----------------------------------------------------------------------------
(* Coming and going.                                                       *)

LEMMA IdleFacts ==
  /\ Idle \in HandlerType /\ Good(Idle) /\ ~HasLease(Idle) /\ ~HasSlot(Idle)
  /\ Idle.up = "none" /\ Idle.path = "none" /\ Len(Idle.told) = 0
<1>1. /\ Idle.at = "acquire" /\ Idle.defers = D1 /\ Idle.up = "none"
      /\ Idle.body = "none" /\ Idle.path = "none" /\ Idle.told = <<>>
  BY DEF Idle, D1
<1>2. /\ <<"conn.Close">> \in Seq(Defers) /\ <<>> \in Seq({"granted", "refused"})
      /\ NoTarget \in Seq({"a", "%3F", "%2520"})
  BY DEF Defers, NoTarget
<1>3. Len(Idle.told) = 0
  BY <1>1
<1>4. Idle \in HandlerType
  BY <1>2 DEF Idle, HandlerType, At
<1>5. Good(Idle)
  BY <1>1, <1>3 DEF Good, Stacked, Answered, Authorised, Dialing, Unauthenticated
<1>6. ~HasLease(Idle) /\ ~HasSlot(Idle)
  BY <1>1, StacksDiffer DEF HasLease, HasSlot
<1> QED  BY <1>1, <1>3, <1>4, <1>5, <1>6

LEMMA EndedFacts ==
  ASSUME NEW r, Ended(r)
  PROVE  ~HasLease(r) /\ ~HasSlot(r)
  BY StacksDiffer DEF Ended, HasLease, HasSlot

LEMMA FreshInv ==
  ASSUME LifeInv, auth \in AuthSettings, h = [c \in Conns |-> Idle],
         global = 0, inflight = 0, \A c \in Conns : conn[c] = "new"
  PROVE  ProxyInv
<1>1. Leased = {} /\ Slotted = {}
  BY IdleFacts DEF Leased, Slotted
<1>2. global = Cardinality(Leased) /\ inflight = Cardinality(Slotted)
  BY <1>1, FS_EmptySet
<1>3. \A c \in Conns : StageInv(c)
  BY DEF StageInv
<1>4. h \in [Conns -> HandlerType]
  BY IdleFacts
<1>5. global <= MaxConnGlobal /\ inflight <= Slots
  BY ProxyAssumption
<1> QED  BY <1>2, <1>3, <1>4, <1>5 DEF ProxyInv

LEMMA ProxyInit == ASSUME PInit PROVE ProxyInv
<1>1. LifeInv
  BY LifeInit DEF PInit
<1> QED  BY <1>1, FreshInv DEF PInit, Init, NoConns

LEMMA PExitInv == ASSUME ProxyInv, PExit PROVE ProxyInv'
<1>1. /\ conn' = NoConns /\ srv' = Each("start") /\ ln' = Each("none")
      /\ active' = Each(0) /\ deadline' = Each("unset") /\ drained' = Each("no")
      /\ main' = "exited" /\ adm' = "ended" /\ cancelled' = cancelled
  BY DEF PExit, Exit
<1>2. \A s \in Servers : Busy(s)' = {}
  BY <1>1 DEF Busy, NoConns
<1>3. TypeOK'
  <2>1. active' \in [Servers -> 0..Len(Arrivals)]
    BY <1>1, ConnsFinite DEF Each
  <2>2. cancelled' \in BOOLEAN
    BY <1>1 DEF ProxyInv, LifeInv, TypeOK
  <2> QED  BY <1>1, <2>1, <2>2 DEF TypeOK, Each, NoConns, Stage
<1>4. LifeInv'
  BY <1>1, <1>2, <1>3, FS_EmptySet DEF LifeInv, Each, NoConns
<1>5. /\ auth' \in AuthSettings /\ h' = [c \in Conns |-> Idle]
      /\ global' = 0 /\ inflight' = 0 /\ \A c \in Conns : conn'[c] = "new"
  BY <1>1 DEF PExit, ProxyInv, NoConns
<1>6. Leased' = {} /\ Slotted' = {}
  BY <1>5, IdleFacts DEF Leased, Slotted, HasLease, HasSlot
<1>7. global' = Cardinality(Leased') /\ inflight' = Cardinality(Slotted')
  BY <1>5, <1>6, FS_EmptySet
<1>8. \A c \in Conns : StageInv(c)'
  BY <1>5 DEF StageInv
<1>9. h' \in [Conns -> HandlerType]
  BY <1>5, IdleFacts
<1>10. global' <= MaxConnGlobal /\ inflight' <= Slots
  BY <1>5, ProxyAssumption
<1> QED  BY <1>4, <1>5, <1>7, <1>8, <1>9, <1>10 DEF ProxyInv

(* The process moves connections only where their handlers have nothing.   *)
LEMMA ProcessInv ==
  ASSUME ProxyInv, Process, UNCHANGED <<auth, global, inflight, h>>
  PROVE  ProxyInv'
<1>1. LifeInv' /\ Moved
  BY ProcessLife DEF ProxyInv
<1>2. conn \in [Conns -> Stage]
  BY DEF ProxyInv, LifeInv, TypeOK
<1>3. ASSUME NEW c \in Conns PROVE StageInv(c)'
  <2>1. StageInv(c) /\ (Good(h[c])' <=> Good(h[c]))
    BY DEF ProxyInv, Good, Stacked, Answered, Authorised
  <2>2. \/ conn'[c] = conn[c]
        \/ conn[c] = "new" /\ conn'[c] = "accepted"
        \/ conn[c] = "accepted" /\ conn'[c] = "running"
        \/ conn[c] = "returned" /\ conn'[c] = "done"
    BY <1>1, <1>2 DEF Moved, Moves
  <2> QED  BY <2>1, <2>2, IdleFacts DEF StageInv, Ended
<1>4. Leased' = Leased /\ Slotted' = Slotted
  BY DEF Leased, Slotted, HasLease, HasSlot
<1> QED  BY <1>1, <1>3, <1>4 DEF ProxyInv

(* handle returns with an empty stack, so nothing of it is left. *)
LEMMA ReturnsInv ==
  ASSUME ProxyInv, NEW c \in Conns, Returns(c)
  PROVE  ProxyInv'
<1> DEFINE r == [Idle EXCEPT !.at = "return", !.defers = <<>>,
                              !.up = h[c].up, !.body = h[c].body]
<1>0. /\ Running(c, "return") /\ h[c].defers = <<>> /\ HandlerReturns(c)
      /\ h' = [h EXCEPT ![c] = r] /\ UNCHANGED <<auth, global, inflight>>
  BY DEF Returns
<1>1. h[c] \in HandlerType /\ Good(h[c]) /\ h[c].at = "return"
  BY <1>0, AtStep
<1>2. h[c].up = "none" /\ h[c].body = "none"
  BY <1>0, <1>1, StacksDiffer DEF Good, Stacked, HandlerType
<1>3. Ended(r) /\ r \in HandlerType
  <2>1. /\ <<>> \in Seq(Defers) /\ <<>> \in Seq({"granted", "refused"})
        /\ NoTarget \in Seq({"a", "%3F", "%2520"})
    BY DEF NoTarget
  <2>2. /\ r.at = "return" /\ r.defers = <<>> /\ r.up = "none"
        /\ r.body = "none" /\ r.path = "none" /\ r.told = <<>>
    BY <1>2 DEF Idle
  <2>3. r \in HandlerType
    BY <1>2, <2>1, IdleFacts DEF HandlerType, At
  <2> HIDE DEF r
  <2>4. Len(r.told) = 0
    BY <2>2
  <2> QED  BY <2>2, <2>3, <2>4 DEF Ended
<1>4. LifeInv' /\ Moves(c, "running", "returned")
  BY <1>0, HandlerReturnsLife DEF ProxyInv
<1>5. h \in [Conns -> HandlerType]
  BY DEF ProxyInv
<1> HIDE DEF r
<1>6. h' \in [Conns -> HandlerType] /\ h'[c] = r
      /\ \A d \in Conns \ {c} : h'[d] = h[d]
  BY <1>0, <1>3, <1>5
<1>7. conn'[c] = "returned" /\ \A d \in Conns \ {c} : conn'[d] = conn[d]
  BY <1>4 DEF Moves, ProxyInv, LifeInv, TypeOK
<1>8. ASSUME NEW d \in Conns PROVE StageInv(d)'
  <2>1. CASE d = c
    BY <2>1, <1>3, <1>6, <1>7 DEF StageInv, Ended
  <2>2. CASE d # c
    <3>1. StageInv(d) /\ h'[d] = h[d] /\ conn'[d] = conn[d] /\ auth' = auth
      BY <2>2, <1>0, <1>6, <1>7 DEF ProxyInv
    <3> QED  BY <3>1 DEF StageInv, Ended, Good, Stacked, Answered, Authorised
  <2> QED  BY <2>1, <2>2
<1>9. ~HasLease(h[c]) /\ ~HasSlot(h[c])
  BY <1>0, <1>1, StacksDiffer DEF HasLease, HasSlot
<1>10. Leased' = Leased /\ Slotted' = Slotted
  <2>1. ASSUME NEW d \in Conns
        PROVE  (HasLease(h[d])' <=> HasLease(h[d])) /\ (HasSlot(h[d])' <=> HasSlot(h[d]))
    <3>1. CASE d = c
      BY <3>1, <1>3, <1>6, <1>9, EndedFacts DEF HasLease, HasSlot
    <3>2. CASE d # c
      BY <3>2, <1>6 DEF HasLease, HasSlot
    <3> QED  BY <3>1, <3>2
  <2> QED  BY <2>1 DEF Leased, Slotted
<1> QED  BY <1>0, <1>4, <1>6, <1>8, <1>10 DEF ProxyInv

LEMMA ProxyNext ==
  ASSUME ProxyInv, [PNext]_pvars
  PROVE  ProxyInv'
<1>1. CASE UNCHANGED pvars
  BY <1>1 DEF pvars, vars, ProxyInv, LifeInv, TypeOK, Busy, StageInv, Ended, Good,
     Stacked, Answered, Authorised, Leased, Slotted, HasLease, HasSlot
<1>2. CASE PExit
  BY <1>2, PExitInv
<1>3. CASE Process /\ UNCHANGED <<auth, global, inflight, h>>
  BY <1>3, ProcessInv
<1>4. ASSUME NEW c \in Conns, Handler(c) PROVE ProxyInv'
  BY <1>4, AcquireInv, GreetingInv, PasswordInv, RequestInv, ReadRequestInv,
     SelectInv, ConnectInv, DialFailsInv, DialOKInv, WriteRequestInv,
     ReadResponseInv, RespondInv, CopyReturnsInv, DeferredInv, ReturnsInv
     DEF Handler, Deferred
<1> QED  BY <1>1, <1>2, <1>3, <1>4 DEF PNext

-----------------------------------------------------------------------------
(* The theorems.                                                           *)

(* The handlers' deferred calls, their leases and the counters agree at    *)
(* every step of every handler and of the process around them.             *)
THEOREM ProxyInvariant == PSpec => []ProxyInv
<1>1. PInit => ProxyInv
  BY ProxyInit
<1>2. ProxyInv /\ [PNext]_pvars => ProxyInv'
  BY ProxyNext
<1> QED  BY <1>1, <1>2, PTL DEF PSpec

(* Every variable keeps its type; the limiter and the pool never hand out  *)
(* more than they have, and never get back more than they gave.            *)
THEOREM ProxyTypes == PSpec => []PTypeOK
<1>1. ProxyInv => PTypeOK
  <2> SUFFICES ASSUME ProxyInv PROVE PTypeOK
    OBVIOUS
  <2>1. Leased \in SUBSET Conns /\ Slotted \in SUBSET Conns
    BY DEF Leased, Slotted
  <2>2. global \in Nat /\ inflight \in Nat
    BY <2>1, CountConns DEF ProxyInv
  <2>3. global \in 0..MaxConnGlobal /\ inflight \in 0..Slots
    BY <2>2, ProxyAssumption DEF ProxyInv
  <2>4. TypeOK /\ auth \in AuthSettings /\ h \in [Conns -> HandlerType]
    BY DEF ProxyInv, LifeInv
  <2> QED  BY <2>3, <2>4 DEF PTypeOK, HandlerType
<1> QED  BY <1>1, ProxyInvariant, PTL

(* A drain that reports success has left nothing behind: no handler, no    *)
(* socket, no lease.                                                       *)
THEOREM DrainsLeaveNothing == PSpec => []DrainReleasesAll
<1>1. ProxyInv => DrainReleasesAll
  <2> SUFFICES ASSUME ProxyInv PROVE DrainReleasesAll
    OBVIOUS
  <2>1. ASSUME NEW s \in Servers, drained[s] = "all"
        PROVE  Live(s) = {} /\ ln[s] = "closed"
    <3>1. srv[s] = "returned" /\ active[s] = 0 /\ ln[s] = "closed"
      BY <2>1 DEF ProxyInv, LifeInv
    <3>2. Busy(s) \in SUBSET Conns
      BY DEF Busy
    <3>3. IsFiniteSet(Busy(s)) /\ Cardinality(Busy(s)) = 0
      BY <3>1, <3>2, CountConns DEF ProxyInv, LifeInv
    <3>4. Busy(s) = {}
      BY <3>3, FS_EmptySet
    <3>5. \A c \in Conns : conn[c] = "accepted" => Arrivals[c] # s
      BY <3>1 DEF ProxyInv, LifeInv
    <3> QED  BY <3>1, <3>4, <3>5 DEF Live, Busy
  <2>2. DrainedMeansIdle
    BY <2>1 DEF DrainedMeansIdle
  <2>3. \A c \in Conns : conn[c] = "done" =>
           h[c].defers = <<>> /\ h[c].up # "open" /\ h[c].body # "open"
    BY DEF ProxyInv, StageInv, Ended
  <2>4. ASSUME \A s \in Servers : drained[s] = "all"
        PROVE  global = 0 /\ inflight = 0
    <3>1. ASSUME NEW c \in Conns PROVE conn[c] \in {"new", "done"}
      <4>1. Arrivals[c] \in Servers /\ conn[c] \in Stage
        BY ConnsFinite DEF ProxyInv, LifeInv, TypeOK
      <4>2. Live(Arrivals[c]) = {}
        BY <4>1, <2>1, <2>4
      <4> QED  BY <4>1, <4>2 DEF Live, Stage
    <3>2. \A c \in Conns : h[c] = Idle \/ Ended(h[c])
      BY <3>1 DEF ProxyInv, StageInv
    <3>3. Leased = {} /\ Slotted = {}
      BY <3>2, IdleFacts, EndedFacts DEF Leased, Slotted
    <3> QED  BY <3>3, FS_EmptySet DEF ProxyInv
  <2> QED  BY <2>2, <2>3, <2>4 DEF DrainReleasesAll
<1> QED  BY <1>1, ProxyInvariant, PTL

(* An upstream connection is open only while its handler holds the slot it *)
(* is counted on: upstream.Close runs before backendLease.Release.         *)
THEOREM LeasesCoverSockets == PSpec => []LeaseCoversSocket
<1>1. ProxyInv => LeaseCoversSocket
  <2> SUFFICES ASSUME ProxyInv PROVE LeaseCoversSocket
    OBVIOUS
  <2> DEFINE U == {c \in Conns : h[c].up = "open"}
  <2>1. ASSUME NEW c \in Conns, h[c].up = "open" PROVE HasSlot(h[c])
    <3>1. conn[c] = "running"
      BY <2>1, IdleFacts DEF ProxyInv, StageInv, Ended, LifeInv, TypeOK, Stage
    <3>2. Good(h[c])
      BY <3>1 DEF ProxyInv, StageInv
    <3> QED  BY <2>1, <3>2 DEF Good, Stacked, HasSlot
  <2>2. Slotted \in SUBSET Conns /\ U \in SUBSET Slotted
    BY <2>1 DEF Slotted
  <2>3. Cardinality(U) <= Cardinality(Slotted)
    BY <2>2, CountConns
  <2> QED  BY <2>3 DEF LeaseCoversSocket, ProxyInv
<1> QED  BY <1>1, ProxyInvariant, PTL

(* With authentication on, both servers let nobody but the holder of the   *)
(* right credentials get to the dial loop.                                 *)
THEOREM NobodyDialsUnknown == PSpec => []AuthBeforeDial
<1>1. ProxyInv => AuthBeforeDial
  <2> SUFFICES ASSUME ProxyInv, NEW c \in Conns, auth, h[c].path # "none"
               PROVE  h[c].cred = "right"
    BY DEF AuthBeforeDial
  <2>1. conn[c] = "running"
    BY IdleFacts DEF ProxyInv, StageInv, Ended, LifeInv, TypeOK, Stage
  <2> QED  BY <2>1 DEF ProxyInv, StageInv, Good, Authorised
<1> QED  BY <1>1, ProxyInvariant, PTL

(* Every path through handle, handleConnect and handlePlain answers a      *)
(* client that keeps to the protocol, and none answers twice.              *)
THEOREM AnswersOnce == PSpec => []OneAnswer
<1>1. ProxyInv => OneAnswer
  <2> SUFFICES ASSUME ProxyInv, NEW c \in Conns
               PROVE  /\ Len(h[c].told) <= 1
                      /\ Running(c, "return") /\ h[c].said = "fine"
                            => Len(h[c].told) = 1
    BY DEF OneAnswer
  <2>1. CASE conn[c] = "running"
    <3>1. Answered(h[c]) /\ h[c] \in HandlerType
      BY <2>1 DEF ProxyInv, StageInv, Good
    <3>2. CASE h[c].at = "return"
      BY <3>1, <3>2 DEF Answered
    <3>3. CASE h[c].at # "return"
      <4>1. Len(h[c].told) = 0 \/ Len(h[c].told) = 1
        BY <3>1, <3>3 DEF Answered
      <4>2. Len(h[c].told) <= 1
        <5> DEFINE n == Len(h[c].told)
        <5>1. n = 0 \/ n = 1
          BY <4>1
        <5> HIDE DEF n
        <5>2. n <= 1
          BY <5>1
        <5> QED  BY <5>2 DEF n
      <4>3. ~Running(c, "return")
        BY <3>3 DEF Running
      <4> QED  BY <4>2, <4>3
    <3> QED  BY <3>2, <3>3
  <2>2. CASE conn[c] # "running"
    <3>1. Len(h[c].told) = 0
      BY <2>2, IdleFacts DEF ProxyInv, StageInv, Ended, LifeInv, TypeOK, Stage
    <3> QED  BY <2>2, <3>1 DEF Running
  <2> QED  BY <2>1, <2>2
<1> QED  BY <1>1, ProxyInvariant, PTL

(* The handlers run inside the process that Lifecycle describes: each step *)
(* of theirs is a stutter there, but for the return of handle, which       *)
(* Lifecycle lets happen at any time.  What holds of Lifecycle therefore   *)
(* holds of the proxies, whatever their handlers do.                       *)
THEOREM HandlersFitLifecycle == PSpec => Spec
<1>1. PInit => Init
  BY DEF PInit
<1>2. [PNext]_pvars => [Next]_vars
  <2> SUFFICES ASSUME [PNext]_pvars PROVE [Next]_vars
    OBVIOUS
  <2>1. CASE UNCHANGED pvars
    BY <2>1 DEF pvars
  <2>2. CASE Process
    BY <2>2 DEF Next
  <2>3. CASE PExit
    BY <2>3 DEF PExit, Next
  <2>4. ASSUME NEW c \in Conns, Handler(c) PROVE [Next]_vars
    <3>1. CASE Returns(c)
      BY <3>1 DEF Returns, Next
    <3>2. CASE ~Returns(c)
      <4>1. UNCHANGED vars
        BY <2>4, <3>2 DEF Handler, Deferred, Acquire, Greeting, Password,
           Request, ReadRequest, Select, Connect, DialFails, DialOK,
           WriteRequest, ReadResponse, Respond, CopyReturns, BodyClose,
           CloseUpstream, ReleaseBackend, ReleaseConn, CloseConn, Become
      <4> QED  BY <4>1
    <3> QED  BY <3>1, <3>2
  <2> QED  BY <2>1, <2>2, <2>3, <2>4 DEF PNext
<1> QED  BY <1>1, <1>2, PTL DEF PSpec, Spec

-----------------------------------------------------------------------------
(* Progress.  How far a handler has come, from Acquire through the dial to *)
(* the last deferred call: a stage it can be held up in by a peer is 1, 4  *)
(* or 5, the others it leaves by itself.                                   *)

Stays(c) == Alive /\ conn[c] = "running"

Come(r) ==
    IF r.at = "return" THEN 10 - Len(r.defers)
    ELSE IF r.at = "acquire" THEN 0
    ELSE IF r.at = "dial" THEN 2
    ELSE IF r.at = "connect" THEN 3
    ELSE IF r.at \in {"greeting", "password", "request", "readRequest"} THEN 1
    ELSE 4

Reached(c, k) == Come(h[c]) >= k
Waiting(c) == h[c].at \in Waits \/ Popping(c, "body.Close")

(* A running handler has come somewhere, and only a peer holds it up in 1, *)
(* 4 and 5.                                                                *)
LEMMA HowFar ==
  ASSUME NEW c \in Conns
  PROVE  ProxyInv /\ conn[c] = "running" =>
           /\ Come(h[c]) \in 0..10
           /\ h[c].at = "return" => Come(h[c]) >= 5
           /\ h[c].at # "return" => Come(h[c]) <= 4
<1> SUFFICES ASSUME ProxyInv, conn[c] = "running"
             PROVE  /\ Come(h[c]) \in 0..10
                    /\ h[c].at = "return" => Come(h[c]) >= 5
                    /\ h[c].at # "return" => Come(h[c]) <= 4
  OBVIOUS
<1>1. h[c] \in HandlerType /\ Stacked(h[c])
  BY DEF ProxyInv, StageInv, Good
<1>2. Len(<<>>) = 0
  OBVIOUS
<1>3. CASE h[c].at = "return"
  <2> DEFINE n == Len(h[c].defers)
  <2>1. n \in 0..5
    BY <1>1, <1>2, <1>3, Stacks DEF Stacked
  <2>2. Come(h[c]) = 10 - n
    BY <1>3 DEF Come
  <2> HIDE DEF n
  <2>3. 10 - n \in 0..10 /\ 10 - n >= 5
    BY <2>1
  <2> QED  BY <1>3, <2>2, <2>3
<1>4. CASE h[c].at # "return"
  BY <1>4 DEF Come
<1> QED  BY <1>3, <1>4

LEMMA HowFarNext ==
  ASSUME NEW c \in Conns
  PROVE  (ProxyInv /\ conn[c] = "running" =>
            /\ Come(h[c]) \in 0..10
            /\ h[c].at = "return" => Come(h[c]) >= 5
            /\ h[c].at # "return" => Come(h[c]) <= 4)'
<1>1. ProxyInv /\ conn[c] = "running" =>
        /\ Come(h[c]) \in 0..10
        /\ h[c].at = "return" => Come(h[c]) >= 5
        /\ h[c].at # "return" => Come(h[c]) <= 4
  BY HowFar
<1> QED  BY <1>1, PTL

LEMMA ReturnsFrom ==
  ASSUME NEW r, "at" \in DOMAIN r
  PROVE  /\ Returning(r).at = "return" /\ Refused(r).at = "return"
         /\ Quits(r).at = "return"
         /\ \A v : Returning(Told(r, v)).at = "return" /\ Told(r, v).at = r.at
  BY DEF Refused, Returning, Told, Quits, Left

(* Where each call of a handler can lead. *)
LEMMA Leads ==
  ASSUME ProxyInv, NEW c \in Conns, Handler(c), h[c].at # "return"
  PROVE  \/ h'[c].at = "return"
         \/ Come(h'[c]) >= Come(h[c])
<1>1. /\ h[c] \in HandlerType /\ "at" \in DOMAIN h[c]
      /\ h \in [Conns -> HandlerType]
  BY DEF ProxyInv, HandlerType
<1>2. \A r : Become(c, r) => h'[c] = r
  BY <1>1 DEF Become
<1>3. CASE Acquire(c)
  <2>1. h'[c].at \in {"return", "greeting", "readRequest"} /\ h[c].at = "acquire"
    BY <1>1, <1>2, <1>3, ReturnsFrom DEF Acquire, Running, Pushed
  <2> QED  BY <2>1 DEF Come
<1>4. CASE Greeting(c) \/ Password(c) \/ Request(c) \/ ReadRequest(c)
  <2>1. h[c].at \in {"greeting", "password", "request", "readRequest"}
    BY <1>4 DEF Greeting, Password, Request, ReadRequest, Running
  <2>2. ASSUME Greeting(c) \/ Request(c)
        PROVE  h'[c].at \in {"return", "password", "request", "dial"}
    <3>1. \/ h'[c] = Quits(h[c]) \/ h'[c] = Refused(h[c])
          \/ h'[c] = [h[c] EXCEPT !.at = "password"]
          \/ h'[c] = [h[c] EXCEPT !.at = "request", !.path = "socks5"]
          \/ h'[c] = [h[c] EXCEPT !.at = "dial"]
      BY <1>2, <2>2 DEF Greeting, Request
    <3> QED  BY <1>1, <3>1, ReturnsFrom
  <2>3. ASSUME NEW cred
        PROVE  LET r == [h[c] EXCEPT !.cred = cred] IN
               "at" \in DOMAIN r /\ Refused(r).at = "return"
    BY <1>1, ReturnsFrom
  <2>4. ASSUME Password(c)
        PROVE  h'[c].at \in {"return", "request"}
    <3>1. PICK cred : LET r == [h[c] EXCEPT !.cred = cred] IN
              \/ h'[c] = Quits(h[c]) \/ h'[c] = Refused(r)
              \/ h'[c] = [r EXCEPT !.at = "request", !.path = "socks5"]
      BY <1>2, <2>4 DEF Password
    <3>2. Quits(h[c]).at = "return"
      BY <1>1, ReturnsFrom
    <3> QED  BY <2>3, <3>1, <3>2
  <2>5. ASSUME ReadRequest(c)
        PROVE  h'[c].at \in {"return", "dial"}
    <3>1. Refused(Left(h[c])).at = "return"
      BY <1>1, ReturnsFrom DEF Left
    <3> QED  BY <1>1, <1>2, <2>3, <2>5, <3>1 DEF ReadRequest
  <2> QED  BY <1>4, <2>1, <2>2, <2>4, <2>5 DEF Come
<1>5. CASE Select(c)
  <2>1. h'[c].at \in {"return", "connect"} /\ h[c].at = "dial"
    BY <1>1, <1>2, <1>5, ReturnsFrom DEF Select, Running
  <2> QED  BY <2>1 DEF Come
<1>6. CASE Connect(c)
  <2>1. h'[c].at = "handshake" /\ h[c].at = "connect"
    BY <1>1, <1>2, <1>6 DEF Connect, Running
  <2> QED  BY <2>1 DEF Come
<1>7. CASE DialFails(c)
  BY <1>1, <1>2, <1>7, ReturnsFrom DEF DialFails
<1>8. CASE DialOK(c)
  <2> DEFINE r == Pushed(h[c], <<"backendLease.Release", "upstream.Close">>)
  <2>1. "at" \in DOMAIN r
    BY <1>1 DEF Pushed
  <2>2. \/ h'[c] = [r EXCEPT !.at = "writeRequest"]
        \/ h'[c] = Told([r EXCEPT !.at = "tunnel"], "granted")
    BY <1>2, <1>8 DEF DialOK
  <2> HIDE DEF r
  <2>3. h'[c].at \in {"writeRequest", "tunnel"}
    BY <2>1, <2>2, ReturnsFrom
  <2>4. h[c].at = "handshake"
    BY <1>8 DEF DialOK, Running
  <2> QED  BY <2>3, <2>4 DEF Come
<1>9. CASE WriteRequest(c) \/ ReadResponse(c) \/ Respond(c) \/ CopyReturns(c)
  <2>1. h[c].at \in {"writeRequest", "readResponse", "respond", "tunnel", "copy"}
    BY <1>9 DEF WriteRequest, ReadResponse, Respond, CopyReturns, Running
  <2>2. ASSUME WriteRequest(c) \/ CopyReturns(c)
        PROVE  h'[c].at \in {"readResponse", "return"}
    BY <1>1, <1>2, <2>2, ReturnsFrom DEF WriteRequest, CopyReturns
  <2>3. ASSUME ReadResponse(c)
        PROVE  h'[c].at \in {"respond", "return"}
    BY <1>1, <1>2, <2>3, ReturnsFrom DEF ReadResponse, Pushed
  <2>4. ASSUME Respond(c)
        PROVE  h'[c].at \in {"copy", "return"}
    <3> DEFINE r == [h[c] EXCEPT !.at = "copy", !.body = "none"]
    <3>1. "at" \in DOMAIN r /\ r.at = "copy"
      BY <1>1
    <3>2. \/ h'[c] = Told(r, "granted")
          \/ h'[c] = Returning(Told(h[c], "granted"))
          \/ h'[c] = Quits(h[c])
      BY <1>2, <2>4 DEF Respond
    <3> HIDE DEF r
    <3>3. Told(r, "granted").at = "copy"
      BY <3>1, ReturnsFrom
    <3>4. /\ Returning(Told(h[c], "granted")).at = "return"
          /\ Quits(h[c]).at = "return"
      BY <1>1, ReturnsFrom
    <3> QED  BY <3>2, <3>3, <3>4
  <2> QED  BY <1>9, <2>1, <2>2, <2>3, <2>4 DEF Come
<1>10. ~BodyClose(c) /\ ~Deferred(c)
  BY DEF BodyClose, Deferred, CloseUpstream, ReleaseBackend, ReleaseConn,
     CloseConn, Returns, Popping, Running
<1> QED
  BY <1>3, <1>4, <1>5, <1>6, <1>7, <1>8, <1>9, <1>10 DEF Handler

(* A returning handler only pops its stack. *)
LEMMA Unwinds ==
  ASSUME ProxyInv, NEW c \in Conns, Handler(c), h[c].at = "return",
         conn'[c] = "running"
  PROVE  h'[c].at = "return" /\ Come(h'[c]) >= Come(h[c])
<1>1. h[c] \in HandlerType /\ h \in [Conns -> HandlerType]
  BY DEF ProxyInv
<1>2. ~Returns(c)
  BY DEF Returns, HandlerReturns, ProxyInv, LifeInv, TypeOK
<1>3. PICK call \in Defers : Popping(c, call)
  BY <1>2 DEF Handler, Deferred, Acquire, Greeting, Password, Request,
     ReadRequest, Select, Connect, DialFails, DialOK, WriteRequest,
     ReadResponse, Respond, CopyReturns, Running, BodyClose, CloseUpstream,
     ReleaseBackend, ReleaseConn, CloseConn, Defers
<1>4. h'[c].at = "return" /\ h'[c].defers = Front(h[c].defers)
  BY <1>1, <1>2 DEF Handler, Deferred, Acquire, Greeting, Password, Request,
     ReadRequest, Select, Connect, DialFails, DialOK, WriteRequest,
     ReadResponse, Respond, CopyReturns, Running, BodyClose, CloseUpstream,
     ReleaseBackend, ReleaseConn, CloseConn, Become, Popped, HandlerType
<1>5. h[c].defers \in {D1, D2, D3, D4, D5}
  BY <1>3, TopOfStack
<1>6. Len(<<>>) = 0
  OBVIOUS
<1> DEFINE n == Len(h[c].defers)
           m == Len(Front(h[c].defers))
<1>7. n \in 1..5 /\ m = n - 1
  <2>1. /\ Len(Front(D1)) = 0 /\ Len(Front(D2)) = 1 /\ Len(Front(D3)) = 2
        /\ Len(Front(D4)) = 3 /\ Len(Front(D5)) = 4
    BY <1>6, Stacks, Pops, Zenon
  <2>2. \/ n = 1 /\ m = 0
        \/ n = 2 /\ m = 1
        \/ n = 3 /\ m = 2
        \/ n = 4 /\ m = 3
        \/ n = 5 /\ m = 4
    BY <1>5, <2>1, Stacks
  <2> HIDE DEF n, m
  <2> QED  BY <2>2
<1>8. Come(h[c]) = 10 - n /\ Come(h'[c]) = 10 - m
  BY <1>4 DEF Come
<1> HIDE DEF n, m
<1> QED  BY <1>4, <1>7, <1>8

(* A running handler never goes back. *)
LEMMA NeverBack ==
  ASSUME ProxyInv, [PNext]_pvars, NEW c \in Conns, Stays(c), Stays(c)',
         NEW k \in Nat, Reached(c, k)
  PROVE  Reached(c, k)'
<1>1. ProxyInv'
  BY ProxyNext
<1>2. conn[c] = "running" /\ conn'[c] = "running" /\ main' # "exited"
  BY DEF Stays, Alive
<1>3. /\ Come(h[c]) \in 0..10
      /\ h[c].at # "return" => Come(h[c]) <= 4
  BY <1>2, HowFar
<1>4. /\ Come(h'[c]) \in 0..10
      /\ h'[c].at = "return" => Come(h'[c]) >= 5
  BY <1>1, <1>2, HowFarNext
<1>5. CASE UNCHANGED h
  BY <1>5 DEF Reached
<1>6. CASE Handler(c)
  <2>1. Come(h'[c]) >= Come(h[c])
    BY <1>2, <1>3, <1>4, <1>6, Leads, Unwinds
  <2> QED  BY <1>3, <1>4, <2>1 DEF Reached
<1>7. CASE \E d \in Conns \ {c} : Handler(d)
  <2>1. PICK d \in Conns \ {c} : Handler(d)
    BY <1>7
  <2>2. PICK r : h' = [h EXCEPT ![d] = r]
    BY <2>1 DEF Handler, Deferred, Acquire, Greeting, Password, Request,
       ReadRequest, Select, Connect, DialFails, DialOK, WriteRequest,
       ReadResponse, Respond, CopyReturns, BodyClose, CloseUpstream,
       ReleaseBackend, ReleaseConn, CloseConn, Returns, Become
  <2>3. h'[c] = h[c]
    BY <2>2 DEF ProxyInv
  <2> QED  BY <2>3 DEF Reached
<1>8. ~PExit
  BY <1>2 DEF PExit, Exit
<1> QED  BY <1>5, <1>6, <1>7, <1>8 DEF PNext, pvars

(* Between two stages a handler waits for a peer, or is in a call of its   *)
(* own.                                                                    *)
LEMMA Between ==
  ASSUME ProxyInv, NEW c \in Conns, Stays(c)
  PROVE  /\ Reached(c, 1) \/ Running(c, "acquire")
         /\ Reached(c, 1) => Reached(c, 2) \/ Waiting(c)
         /\ Reached(c, 2) => Reached(c, 3) \/ Running(c, "dial")
         /\ Reached(c, 3) => Reached(c, 4) \/ Running(c, "connect")
         /\ Reached(c, 4) => Reached(c, 6) \/ Waiting(c)
         /\ Reached(c, 6) => Reached(c, 7) \/ Popping(c, "upstream.Close")
         /\ Reached(c, 7) => Reached(c, 8) \/ Popping(c, "backendLease.Release")
         /\ Reached(c, 8) => Reached(c, 9) \/ Popping(c, "lease.Release")
         /\ Reached(c, 9) => Reached(c, 10) \/ Popping(c, "conn.Close")
         /\ Reached(c, 10) => Running(c, "return") /\ h[c].defers = <<>>
<1>1. h[c] \in HandlerType /\ Stacked(h[c]) /\ conn[c] = "running" /\ Alive
  BY DEF ProxyInv, StageInv, Good, Stays
<1>2. Len(<<>>) = 0
  OBVIOUS
<1>3. CASE h[c].at # "return"
  <2>1. Come(h[c]) \in 0..4
    BY <1>1, <1>3, HowFar
  <2>2. Come(h[c]) \in {1, 4} => h[c].at \in Waits
    BY <1>1, <1>3 DEF Come, HandlerType, At
  <2>3. /\ Come(h[c]) = 0 => h[c].at = "acquire"
        /\ Come(h[c]) = 2 => h[c].at = "dial"
        /\ Come(h[c]) = 3 => h[c].at = "connect"
    BY <1>3 DEF Come
  <2> QED  BY <1>1, <2>1, <2>2, <2>3 DEF Reached, Running, Waiting
<1>4. CASE h[c].at = "return"
  <2> DEFINE n == Len(h[c].defers)
  <2>1. \/ n = 0 /\ h[c].defers = <<>>
        \/ n = 1 /\ Popping(c, "conn.Close")
        \/ n = 2 /\ Popping(c, "lease.Release")
        \/ n = 3 /\ Popping(c, "backendLease.Release")
        \/ n = 4 /\ Popping(c, "upstream.Close")
        \/ n = 5 /\ Popping(c, "body.Close")
    <3>1. h[c].defers \in {<<>>, D1, D2, D3, D4, D5}
      BY <1>1, <1>4 DEF Stacked
    <3> QED  BY <1>1, <1>2, <1>4, <3>1, Stacks, StacksDiffer, Pops
             DEF Popping, Running
  <2>2. Come(h[c]) = 10 - n
    BY <1>4 DEF Come
  <2> HIDE DEF n
  <2> QED  BY <1>1, <1>4, <2>1, <2>2 DEF Reached, Running, Waiting
<1> QED  BY <1>3, <1>4

(* No handler loops, and none keeps what it holds while it waits for       *)
(* nothing: one that is never done is, from some point on, in a call on a  *)
(* peer.  Each stage it is in on its own is left, and none is entered      *)
(* twice.                                                                  *)
THEOREM HandlersWaitForPeers == PFairSpec => StuckOnlyOnPeers
<1>1. ASSUME NEW c \in Conns
      PROVE  PFairSpec => (<>[]Stays(c) => <>[]Waiting(c))
  <2>1. ProxyInv /\ [PNext]_pvars /\ Stays(c) /\ Stays(c)' =>
          /\ Reached(c, 1) => Reached(c, 1)'
          /\ Reached(c, 2) => Reached(c, 2)'
          /\ Reached(c, 3) => Reached(c, 3)'
          /\ Reached(c, 4) => Reached(c, 4)'
          /\ Reached(c, 6) => Reached(c, 6)'
          /\ Reached(c, 7) => Reached(c, 7)'
          /\ Reached(c, 8) => Reached(c, 8)'
          /\ Reached(c, 9) => Reached(c, 9)'
          /\ Reached(c, 10) => Reached(c, 10)'
    BY NeverBack
  <2>2. ProxyInv /\ Stays(c) =>
          /\ Reached(c, 1) \/ Running(c, "acquire")
          /\ Reached(c, 1) => Reached(c, 2) \/ Waiting(c)
          /\ Reached(c, 2) => Reached(c, 3) \/ Running(c, "dial")
          /\ Reached(c, 3) => Reached(c, 4) \/ Running(c, "connect")
          /\ Reached(c, 4) => Reached(c, 6) \/ Waiting(c)
          /\ Reached(c, 6) => Reached(c, 7) \/ Popping(c, "upstream.Close")
          /\ Reached(c, 7) => Reached(c, 8) \/ Popping(c, "backendLease.Release")
          /\ Reached(c, 8) => Reached(c, 9) \/ Popping(c, "lease.Release")
          /\ Reached(c, 9) => Reached(c, 10) \/ Popping(c, "conn.Close")
          /\ Reached(c, 10) => Running(c, "return") /\ h[c].defers = <<>>
    BY Between
  <2>3. PFairSpec =>
           /\ []<>~Running(c, "acquire") /\ []<>~Running(c, "dial")
           /\ []<>~Running(c, "connect")
           /\ []<>~Popping(c, "upstream.Close")
           /\ []<>~Popping(c, "backendLease.Release")
           /\ []<>~Popping(c, "lease.Release")
           /\ []<>~Popping(c, "conn.Close")
           /\ []<>~(Running(c, "return") /\ h[c].defers = <<>>)
    BY DEF PFairSpec, PFairness
  <2> QED
    BY <2>1, <2>2, <2>3, ProxyInvariant, PTL DEF PFairSpec, PSpec
<1> QED
  BY <1>1 DEF StuckOnlyOnPeers, Stays, Waiting

-----------------------------------------------------------------------------
(* Shutdown.  The stages of Serve once the context is done, none of which  *)
(* is entered twice: begun, its listener closed, out of the accept loop,   *)
(* its drain deadline passed, over.                                        *)

Begun(s) == srv[s] # "start"
Shut(s) == ln[s] = "closed"
Accepting(s) == srv[s] \in {"start", "spawn", "accept"}
Late(s) == deadline[s] = "expired"
Over(s) == ~Alive \/ srv[s] \in {"returned", "failed"}

(* A server that listens has a listener, one that drains a deadline. *)
Equipped(s) ==
    Alive =>
    /\ srv[s] \notin {"start", "failed"} => ln[s] # "none"
    /\ srv[s] \in {"drain", "poll"} => deadline[s] # "unset"

(* What a step of a process that goes on owes one server. *)
Onward(s) ==
    /\ cancelled => cancelled'
    /\ Equipped(s) => Equipped(s)'
    /\ Begun(s) => Begun(s)'
    /\ Shut(s) /\ Begun(s) => Shut(s)'
    /\ Shut(s) /\ Begun(s) /\ srv[s] # "spawn" => srv'[s] # "spawn"
    /\ Shut(s) /\ ~Accepting(s) => (~Accepting(s))'
    /\ Late(s) /\ ~Accepting(s) => Late(s)'
    /\ srv[s] \in {"returned", "failed"} => srv'[s] \in {"returned", "failed"}

LEMMA ServerSteps ==
  ASSUME TypeOK, [Next]_vars, NEW s \in Servers, Alive, Alive'
  PROVE  Onward(s)
<1> USE DEF Onward, TypeOK, Equipped, Begun, Shut, Accepting, Late
<1>1. CASE Signal \/ AdminListen \/ AdminEnds \/ Exited \/ UNCHANGED vars
  BY <1>1 DEF Signal, AdminListen, AdminEnds, Exited, vars, serverVars
<1>2. ASSUME NEW t \in Servers, ServeStep(t)
      PROVE  Onward(s)
  <2>1. CASE ListenFail(t)
    <3>1. cancelled'
      BY <2>1, Zenon DEF ListenFail
    <3>2. /\ srv' = [srv EXCEPT ![t] = "failed"] /\ ln' = ln
          /\ deadline' = deadline /\ srv[t] = "start"
      BY <2>1 DEF ListenFail
    <3> QED  BY <3>1, <3>2
  <2>2. CASE AcceptClosed(t)
    BY <2>2 DEF AcceptClosed
  <2>3. CASE DrainCheck(t) \/ DrainTick(t)
    BY <2>3 DEF DrainCheck, DrainTick
  <2>4. CASE \E c \in Conns : Spawn(t, c)
    BY <2>4 DEF Spawn
  <2>5. CASE ListenOK(t)
    BY <2>5 DEF ListenOK
  <2> QED  BY <1>2, <2>1, <2>2, <2>3, <2>4, <2>5 DEF ServeStep
<1>3. ASSUME NEW t \in Servers, CloseListener(t) \/ DrainTimeout(t) \/ DeadlineFires(t)
      PROVE  Onward(s)
  BY <1>3 DEF CloseListener, DrainTimeout, DeadlineFires
<1>4. ASSUME NEW t \in Servers, NEW c \in Conns, Accept(t, c)
      PROVE  Onward(s)
  BY <1>4 DEF Accept
<1>5. CASE \E c \in Conns : HandlerDone(c) \/ HandlerReturns(c)
  BY <1>5 DEF HandlerDone, HandlerReturns
<1>6. ~Exit
  BY DEF Exit, Alive
<1> QED
  BY <1>1, <1>2, <1>3, <1>4, <1>5, <1>6 DEF Next, Process

(* Serve returns once the context is done, by draining or by its deadline, *)
(* however long a handler hangs: each stage is left by its fairness.       *)
THEOREM ServesReturn == PFairSpec => ServersReturn
<1>1. ASSUME NEW s \in Servers
      PROVE  PFairSpec => (<>cancelled => <>[]Over(s))
  <2>1. TypeOK /\ [Next]_vars /\ Alive /\ Alive' =>
          /\ cancelled => cancelled'
          /\ Equipped(s) => Equipped(s)'
          /\ Begun(s) => Begun(s)'
          /\ Shut(s) /\ Begun(s) => Shut(s)'
          /\ Shut(s) /\ Begun(s) /\ ~ServeAt(s, "spawn") => (~ServeAt(s, "spawn"))'
          /\ Shut(s) /\ ~Accepting(s) => (~Accepting(s))'
          /\ Late(s) /\ ~Accepting(s) => Late(s)'
          /\ Over(s) => Over(s)'
    BY ServerSteps DEF Onward, ServeAt, Over
  <2>2. [Next]_vars /\ ~Alive => ~Alive'
    BY DEF Next, Process, Signal, Exited, AdminListen, AdminEnds,
       ServeStep, ListenOK, ListenFail, AcceptClosed, DrainCheck, DrainTick,
       Spawn, CloseListener, DrainTimeout, DeadlineFires, Accept, HandlerDone,
       HandlerReturns, Exit, Alive, vars
  <2>3. Init => Equipped(s)
    BY DEF Init, Equipped, Each
  <2>4. /\ ~Alive => Over(s)
        /\ Alive /\ ~Begun(s) => ServeAt(s, "start")
        /\ ServeAt(s, "start") => ~Begun(s)
        /\ TypeOK /\ Equipped(s) /\ Begun(s) /\ ~Over(s) /\ ~Shut(s) => ln[s] = "open"
        /\ Begun(s) /\ Accepting(s) /\ Alive =>
              ServeAt(s, "spawn") \/ ServeAt(s, "accept")
        /\ TypeOK /\ ~Over(s) /\ ~Accepting(s) =>
              ServeAt(s, "drain") \/ ServeAt(s, "poll")
        /\ TypeOK /\ Equipped(s) /\ ~Over(s) /\ ~Accepting(s) =>
              Late(s) \/ deadline[s] = "running"
        /\ ServeAt(s, "poll") /\ Late(s) => Expired(s)
        /\ Shut(s) <=> ln[s] = "closed"
        /\ ServeAt(s, "accept") => Accepting(s)
        /\ ServeAt(s, "spawn") => Accepting(s)
    BY DEF Over, Begun, ServeAt, Equipped, Shut, Accepting, Late, TypeOK, Alive,
           Expired
  <2>5. TypeOK /\ DrainTimeout(s) => Over(s)'
    BY DEF TypeOK, DrainTimeout, Over
  <2>6. PFairSpec =>
          /\ []<>~ServeAt(s, "start") /\ []<>~ServeAt(s, "spawn")
          /\ []<>~ServeAt(s, "drain") /\ []<>~ServeAt(s, "poll")
          /\ []<>~(ServeAt(s, "accept") /\ ln[s] = "closed")
          /\ []<>~(Alive /\ cancelled /\ ln[s] = "open")
          /\ []<>~((ServeAt(s, "drain") \/ ServeAt(s, "poll"))
                   /\ deadline[s] = "running")
          /\ []<>Expired(s) => []<><<DrainTimeout(s)>>_vars
    BY DEF PFairSpec, Fairness
  <2>7. PFairSpec => Init /\ [][Next]_vars /\ []TypeOK
    <3>1. ProxyInv => TypeOK
      BY DEF ProxyInv, LifeInv
    <3> QED  BY <3>1, HandlersFitLifecycle, ProxyInvariant, PTL
             DEF PFairSpec, Spec
  <2>8. PFairSpec => []Equipped(s)
    <3>1. ~Alive => Equipped(s)
      BY DEF Equipped
    <3> QED  BY <2>1, <2>2, <2>3, <2>7, <3>1, PTL
  <2> QED
    BY <2>1, <2>2, <2>4, <2>5, <2>6, <2>7, <2>8, PTL
<1> QED
  BY <1>1 DEF ServersReturn, Over
=============================================================================
