---------------------------- MODULE SelectProofs ----------------------------
(***************************************************************************)
(* Proofs about SelectHistory: what Select promises over the whole of a    *)
(* call, for any number of handlers and backends and for every strategy.   *)
(***************************************************************************)
EXTENDS SelectHistory, PoolProofs, SequenceTheorems

-----------------------------------------------------------------------------
(* The inductive invariant.                                                *)

(* No backend that was acquirable all along is lost on the way: A is       *)
(* avail[c].  Healthy() has it in its snapshot or still ahead, and the     *)
(* round-robin and fallback walks, the only ones that end in an error,     *)
(* have it ahead of them.  The other walks start a new snapshot instead.   *)
Prospect(p, l, A) ==
    /\ p = "scan" => A \subseteq Range(l.healthy) \cup Range(l.todo)
    /\ p = "pick" => A \subseteq Range(l.healthy)
    /\ p \in {"try", "load", "cas"} /\ l.via \in {"rr", "fallback"} =>
           A \subseteq Range(l.todo)
    /\ p \in {"load", "cas"} => l.be = Head(l.todo)
    /\ p \in {"least", "leastcap"} => l.via = "best"
    /\ p = "nohealthy" => A = {}

(* As long as the backend e of the sticky entry has been acquirable, the   *)
(* handler is trying it and nothing else, or has it.                       *)
Loyal(p, l, A, e) ==
    /\ p \in Selecting \ {"select"} /\ e \in A =>
           /\ p \in {"try", "load", "cas"} /\ l.via = "entry"
           /\ Head(l.todo) = e /\ Tail(l.todo) = <<>>
    /\ p \in Holding /\ e \in A => l.be = e

Kept(c) == /\ Prospect(pc[c], loc[c], avail[c])
           /\ Loyal(pc[c], loc[c], avail[c], entry[c])

SelectInv ==
    /\ PoolInv
    /\ avail \in [Clients -> SUBSET Backends]
    /\ \A c \in Clients : Kept(c)

-----------------------------------------------------------------------------
(* The backends on a candidate list.                                       *)

LEMMA Listed ==
    ASSUME NEW s \in Seq(Backends)
    PROVE  /\ Range(s) = {s[k] : k \in 1..Len(s)}
           /\ s = <<>> => Range(s) = {}
           /\ s # <<>> => Range(s) \subseteq {Head(s)} \cup Range(Tail(s))
           /\ \A i \in Backends : Range(Append(s, i)) = Range(s) \cup {i}
           /\ \A k \in 0..(Len(s) - 1) : Range(s) \subseteq Range(Rotate(s, k))
<1>1. \A q \in Seq(Backends) : Range(q) = {q[k] : k \in 1..Len(q)}
  BY RangeEquality
<1>2. s = <<>> => Range(s) = {}
  BY DEF Range
<1>3. ASSUME s # <<>> PROVE Range(s) \subseteq {Head(s)} \cup Range(Tail(s))
  <2>1. /\ Tail(s) \in Seq(Backends) /\ Len(Tail(s)) = Len(s) - 1
        /\ \A k \in 1..Len(Tail(s)) : Tail(s)[k] = s[k + 1]
        /\ Head(s) = s[1] /\ Len(s) \in Nat \ {0}
    BY <1>3
  <2>2. ASSUME NEW k \in 1..Len(s), k # 1 PROVE s[k] \in Range(Tail(s))
    <3>1. k - 1 \in 1..Len(Tail(s)) /\ (k - 1) + 1 = k
      BY <2>1, <2>2
    <3>2. s[k] = Tail(s)[k - 1]
      BY <2>1, <3>1
    <3> QED
      BY <1>1, <2>1, <3>1, <3>2
  <2> QED
    BY <1>1, <2>1, <2>2
<1>4. ASSUME NEW i \in Backends PROVE Range(Append(s, i)) = Range(s) \cup {i}
  <2>1. /\ Append(s, i) \in Seq(Backends) /\ Len(Append(s, i)) = Len(s) + 1
        /\ \A k \in 1..Len(s) : Append(s, i)[k] = s[k]
        /\ Append(s, i)[Len(s) + 1] = i /\ Len(s) \in Nat
    OBVIOUS
  <2>2. 1..(Len(s) + 1) = 1..Len(s) \cup {Len(s) + 1}
    BY <2>1
  <2> DEFINE t == Append(s, i)
             n == Len(s)
  <2>3. Range(t) = {t[k] : k \in 1..n \cup {n + 1}}
    BY <1>1, <2>1, <2>2
  <2>4. Range(s) = {s[k] : k \in 1..n}
    BY <1>1
  <2>5. t[n + 1] = i /\ \A k \in 1..n : t[k] = s[k]
    BY <2>1
  <2> HIDE DEF t, n
  <2>6. Range(t) = Range(s) \cup {i}
    BY <2>3, <2>4, <2>5
  <2> QED
    BY <2>6 DEF t
<1>5. ASSUME NEW k \in 0..(Len(s) - 1)
      PROVE  Range(s) \subseteq Range(Rotate(s, k))
  <2> DEFINE u == SubSeq(s, k + 1, Len(s))
             v == SubSeq(s, 1, k)
  <2>1. /\ u \in Seq(Backends) /\ v \in Seq(Backends) /\ Len(s) \in Nat
        /\ Len(u) = Len(s) - k /\ Len(v) = k
        /\ \A j \in 1..(Len(s) - k) : u[j] = s[k + j]
        /\ \A j \in 1..k : v[j] = s[j]
    OBVIOUS
  <2>2. Range(u \o v) = Range(u) \cup Range(v)
    BY <2>1, RangeConcatenation
  <2>3. ASSUME NEW j \in 1..Len(s) PROVE s[j] \in Range(u) \cup Range(v)
    <3>1. CASE j <= k
      <4>1. j \in 1..Len(v) /\ s[j] = v[j]
        BY <2>1, <3>1
      <4> QED
        BY <1>1, <2>1, <4>1
    <3>2. CASE ~(j <= k)
      <4>1. j - k \in 1..(Len(s) - k) /\ k + (j - k) = j
        BY <2>1, <3>2
      <4>2. s[j] = u[j - k] /\ j - k \in 1..Len(u)
        BY <2>1, <4>1
      <4> QED
        BY <1>1, <2>1, <4>2
    <3> QED
      BY <3>1, <3>2
  <2> HIDE DEF u, v
  <2>4. Range(s) \subseteq Range(u \o v)
    BY <1>1, <2>2, <2>3
  <2> QED
    BY <2>4 DEF Rotate, u, v
<1> QED
  BY <1>1, <1>2, <1>3, <1>4, <1>5

(* Healthy() starts with every backend ahead of it and an empty snapshot;  *)
(* TryAcquire's walks start with the list they are given.                  *)
LEMMA Starts ==
    ASSUME NEW l \in Locals
    PROVE  /\ \A v \in Via : Range(Healthy(l, v).todo) = Backends
           /\ \A q \in Seq(Backends) : Try(l, q).todo = q /\ Try(l, q).via = l.via
<1>1. Range([i \in 1..N |-> i]) = Backends
  BY DEF Range, Backends
<1>2. \A v \in Via : Healthy(l, v).todo = [i \in 1..N |-> i]
  BY DEF Healthy, NoLocals
<1>3. \A q \in Seq(Backends) : Try(l, q).todo = q /\ Try(l, q).via = l.via
  BY DEF Try, NoLocals
<1> QED
  BY <1>1, <1>2, <1>3

-----------------------------------------------------------------------------
(* What a step records.                                                    *)

LEMMA Recorded ==
    ASSUME SelectInv, HNext, NEW d \in Clients
    PROVE  /\ avail' \in [Clients -> SUBSET Backends]
           /\ pc'[d] \in (Selecting \ {"select"}) \cup {"nohealthy"} =>
                avail'[d] = avail[d] \cap Acquirable(be', inflight')
           /\ pc'[d] \in Holding => avail'[d] = avail[d]
           /\ pc[d] = "select" /\ pc'[d] # "select" =>
                entry'[d] = IF /\ strategy = "sticky"
                               /\ sticky[KeyOf[d]].age = "fresh"
                            THEN sticky[KeyOf[d]].id ELSE None
           /\ pc[d] # "select" /\ pc'[d] \in Selecting \cup Holding =>
                entry'[d] = entry[d]
<1> DEFINE AV(c) == CASE pc'[c] = "select" -> Acquirable(be', inflight')
                      [] pc'[c] \in (Selecting \ {"select"}) \cup {"nohealthy"} ->
                            avail[c] \cap Acquirable(be', inflight')
                      [] pc'[c] \in Holding -> avail[c]
                      [] OTHER -> {}
<1>1. avail' = [c \in Clients |-> AV(c)]
  BY DEF HNext
<1>2. Acquirable(be', inflight') \subseteq Backends
  BY DEF Acquirable
<1>h. /\ "select" \notin Holding /\ "nohealthy" \notin Holding
      /\ Selecting \cap Holding = {} /\ "nohealthy" # "select"
  BY DEF Holding, Selecting
<1>3. ASSUME NEW c \in Clients PROVE AV(c) \in SUBSET Backends
  <2>1. avail[c] \in SUBSET Backends
    BY DEF SelectInv
  <2> QED
    BY <1>2, <2>1
<1>4. avail' \in [Clients -> SUBSET Backends]
  <2> HIDE DEF AV
  <2> QED
    BY <1>1, <1>3
<1>5. avail'[d] = AV(d)
  BY <1>1
<1>6. pc'[d] \in (Selecting \ {"select"}) \cup {"nohealthy"} =>
        avail'[d] = avail[d] \cap Acquirable(be', inflight')
  BY <1>5, <1>h
<1>7. pc'[d] \in Holding => avail'[d] = avail[d]
  BY <1>5, <1>h
<1> DEFINE E == IF strategy = "sticky" /\ sticky[KeyOf[d]].age = "fresh"
                THEN sticky[KeyOf[d]].id ELSE None
<1>8. entry'[d] = IF pc[d] = "select" /\ pc'[d] # "select" THEN E
                  ELSE IF pc'[d] \in Selecting \cup Holding THEN entry[d]
                  ELSE None
  BY DEF HNext
<1> HIDE DEF E
<1>9. pc[d] = "select" /\ pc'[d] # "select" => entry'[d] = E
  BY <1>8
<1>10. pc[d] # "select" /\ pc'[d] \in Selecting \cup Holding =>
         entry'[d] = entry[d]
  BY <1>8
<1> HIDE DEF AV
<1> QED
  BY <1>4, <1>6, <1>7, <1>9, <1>10 DEF E

(* A handler that does not move keeps its promises: what it owes shrinks   *)
(* with avail.                                                             *)
LEMMA Bystander ==
    ASSUME SelectInv, HNext, NEW d \in Clients, pc'[d] = pc[d], loc'[d] = loc[d]
    PROVE  Kept(d)'
<1>k. Kept(d) /\ pc[d] \in PC
  BY DEF SelectInv, PoolInv, TypeOK
<1>1. CASE pc[d] \in Selecting \ {"select"}
  <2>1. avail'[d] \subseteq avail[d] /\ entry'[d] = entry[d]
    BY <1>1, Recorded
  <2> QED
    BY <1>k, <1>1, <2>1 DEF Kept, Prospect, Loyal, Selecting, Holding
<1>2. CASE pc[d] = "nohealthy"
  <2>1. avail'[d] \subseteq avail[d]
    BY <1>2, Recorded
  <2> QED
    BY <1>k, <1>2, <2>1 DEF Kept, Prospect, Loyal, Selecting, Holding
<1>3. CASE pc[d] \in Holding
  <2>1. avail'[d] = avail[d] /\ entry'[d] = entry[d]
    <3>1. pc[d] # "select" /\ pc'[d] \in Holding
      BY <1>3 DEF Holding
    <3> QED
      BY <3>1, Recorded
  <2> QED
    BY <1>k, <1>3, <2>1 DEF Kept, Prospect, Loyal, Selecting, Holding
<1>4. CASE pc[d] \in {"select", "idle", "failed", "panic"}
  BY <1>4 DEF Kept, Prospect, Loyal, Selecting, Holding
<1> QED
  BY <1>k, <1>1, <1>2, <1>3, <1>4 DEF PC

-----------------------------------------------------------------------------
(* Where a step may take its own handler.                                  *)

LEMMA Arrives ==
    ASSUME SelectInv, NEW c \in Clients, NEW p, NEW m, Goto(c, p, m)
    PROVE  /\ pc'[c] = p /\ loc'[c] = m
           /\ \A d \in Clients \ {c} : pc'[d] = pc[d] /\ loc'[d] = loc[d]
  BY DEF Goto, SelectInv, PoolInv, TypeOK

(* Nothing is owed outside of a call. *)
LEMMA ToRest ==
    ASSUME SelectInv, NEW c \in Clients, NEW m,
           NEW p \in {"select", "idle", "failed", "panic"}, Goto(c, p, m)
    PROVE  Kept(c)'
<1>1. pc'[c] = p
  BY Arrives
<1> QED
  BY <1>1 DEF Kept, Prospect, Loyal, Selecting, Holding

(* ErrNoHealthyBackend is owed an empty avail. *)
LEMMA ToFailure ==
    ASSUME SelectInv, NEW c \in Clients, NEW m, Goto(c, "nohealthy", m),
           avail'[c] = {}
    PROVE  Kept(c)'
<1>1. pc'[c] = "nohealthy"
  BY Arrives
<1> QED
  BY <1>1 DEF Kept, Prospect, Loyal, Selecting, Holding

(* A new snapshot may be started once the sticky entry is out of the game. *)
LEMMA ToScan ==
    ASSUME SelectInv, HNext, NEW c \in Clients, NEW l \in Locals, NEW v \in Via,
           Goto(c, "scan", Healthy(l, v)), entry'[c] \notin avail'[c]
    PROVE  Kept(c)'
<1>1. pc'[c] = "scan" /\ loc'[c] = Healthy(l, v)
  BY Arrives
<1>2. avail'[c] \subseteq Range(loc'[c].todo)
  BY <1>1, Starts, Recorded
<1> QED
  BY <1>1, <1>2 DEF Kept, Prospect, Loyal, Selecting, Holding

(* So may a walk over candidates, if one that can end in an error leaves   *)
(* nobody out.                                                             *)
LEMMA ToTry ==
    ASSUME SelectInv, HNext, NEW c \in Clients, NEW m, Goto(c, "try", m),
           entry'[c] \notin avail'[c],
           m.via \in {"rr", "fallback"} => avail'[c] \subseteq Range(m.todo)
    PROVE  Kept(c)'
<1>1. pc'[c] = "try" /\ loc'[c] = m
  BY Arrives
<1> QED
  BY <1>1 DEF Kept, Prospect, Loyal, Selecting, Holding

LEMMA ToLeast ==
    ASSUME SelectInv, HNext, NEW c \in Clients, NEW m \in Locals,
           m.via = "best", NextLeast(c, m), entry'[c] \notin avail'[c]
    PROVE  Kept(c)'
<1>1. CASE Goto(c, "least", m)
  <2>1. pc'[c] = "least" /\ loc'[c] = m
    BY <1>1, Arrives
  <2> QED
    BY <2>1 DEF Kept, Prospect, Loyal, Selecting, Holding
<1>2. CASE m.best # None /\ Goto(c, "try", Try(m, <<m.best>>))
  <2>1. <<m.best>> \in Seq(Backends)
    BY <1>2 DEF Locals
  <2>2. Try(m, <<m.best>>).via = "best"
    BY <2>1, Starts
  <2> QED
    BY <1>2, <2>2, ToTry
<1>3. CASE Goto(c, "scan", Healthy(m, "fallback"))
  BY <1>3, ToScan DEF Via
<1> QED
  BY <1>1, <1>2, <1>3 DEF NextLeast

(* A step of Select other than its first leaves avail no larger and the    *)
(* entry as it was.                                                        *)
LEMMA During ==
    ASSUME SelectInv, HNext, NEW c \in Clients, pc[c] # "select",
           pc'[c] \in (Selecting \ {"select"}) \cup {"nohealthy"}
    PROVE  /\ avail'[c] = avail[c] \cap Acquirable(be', inflight')
           /\ pc'[c] # "nohealthy" => entry'[c] = entry[c]
  BY Recorded

(* The backend TryAcquire has just refused is not acquirable any more, so  *)
(* it is neither the sticky entry's nor one that avail can still hold.     *)
LEMMA AfterMiss ==
    ASSUME SelectInv, HNext, NEW c \in Clients, pc[c] \in {"try", "load"},
           loc[c].todo # <<>>, Miss(c),
           Head(loc[c].todo) \notin Acquirable(be', inflight')
    PROVE  Kept(c)'
<1> PICK l \in Locals : l = loc[c]
  BY DEF SelectInv, PoolInv, TypeOK
<1> DEFINE rest == Tail(l.todo)
<1>l. l.todo \in Seq(Backends) /\ l.via \in Via /\ rest \in Seq(Backends)
  <2>1. l.todo \in Seq(Backends) /\ l.via \in Via
    BY DEF Locals
  <2> QED
    BY <2>1, Candidates
<1>k. Kept(c)
  BY DEF SelectInv
<1>m. \/ rest # <<>> /\ Goto(c, "try", [l EXCEPT !.todo = rest])
      \/ rest = <<>> /\ l.via = "entry" /\ Goto(c, "scan", Healthy(l, "hash"))
      \/ rest = <<>> /\ l.via = "hash" /\ Goto(c, "scan", Healthy(l, "best"))
      \/ rest = <<>> /\ l.via = "best" /\ Goto(c, "scan", Healthy(l, "fallback"))
      \/ /\ rest = <<>> /\ l.via \in {"rr", "fallback"}
         /\ Goto(c, "nohealthy", NoLocals)
  BY <1>l DEF Miss, NoHealthyBackend, Via
<1>p. pc'[c] \in {"try", "scan", "nohealthy"}
  BY <1>m, Arrives
<1>1. /\ avail'[c] = avail[c] \cap Acquirable(be', inflight')
      /\ pc'[c] # "nohealthy" => entry'[c] = entry[c]
  BY <1>p, During DEF Selecting
<1>2. Head(l.todo) \notin avail'[c] /\ avail'[c] \subseteq avail[c]
  BY <1>1
<1>3. pc'[c] # "nohealthy" => entry'[c] \notin avail'[c]
  BY <1>k, <1>1, <1>2 DEF Kept, Loyal, Selecting
<1>4. l.via \in {"rr", "fallback"} => avail'[c] \subseteq Range(rest)
  <2>1. l.via \in {"rr", "fallback"} => avail[c] \subseteq Range(l.todo)
    BY <1>k DEF Kept, Prospect
  <2>2. Range(l.todo) \subseteq {Head(l.todo)} \cup Range(rest)
    BY <1>l, Listed
  <2> QED
    BY <1>2, <2>1, <2>2
<1>5. CASE Goto(c, "try", [l EXCEPT !.todo = rest])
  <2>1. [l EXCEPT !.todo = rest].todo = rest /\ [l EXCEPT !.todo = rest].via = l.via
    BY DEF Locals
  <2>2. pc'[c] = "try"
    BY <1>5, Arrives
  <2> QED
    BY <1>3, <1>4, <1>5, <2>1, <2>2, ToTry
<1>6. CASE \E v \in {"hash", "best", "fallback"} : Goto(c, "scan", Healthy(l, v))
  <2>1. PICK v \in Via : Goto(c, "scan", Healthy(l, v))
    BY <1>6 DEF Via
  <2>2. pc'[c] = "scan"
    BY <2>1, Arrives
  <2> QED
    BY <1>3, <2>1, <2>2, ToScan
<1>7. CASE rest = <<>> /\ l.via \in {"rr", "fallback"}
           /\ Goto(c, "nohealthy", NoLocals)
  <2>1. avail'[c] = {}
    BY <1>4, <1>7, <1>l, Listed
  <2> QED
    BY <1>7, <2>1, ToFailure
<1> QED
  BY <1>m, <1>5, <1>6, <1>7

-----------------------------------------------------------------------------
(* The actions of the handler itself.                                      *)

(* What a handler knows of its own state. *)
LEMMA Own ==
    ASSUME SelectInv, NEW c \in Clients
    PROVE  /\ loc[c] \in Locals /\ LocalOK(pc[c], loc[c]) /\ Kept(c)
           /\ avail[c] \subseteq Backends
           /\ loc[c].todo \in Seq(Backends) /\ loc[c].healthy \in Seq(Backends)
           /\ loc[c].via \in Via
<1>1. loc[c] \in Locals /\ LocalOK(pc[c], loc[c]) /\ Kept(c) /\ avail[c] \subseteq Backends
  BY DEF SelectInv, PoolInv, TypeOK, LocalsInv
<1> QED
  BY <1>1 DEF Locals

(* Past the first step, a handler that is not trying its sticky entry has  *)
(* lost it.                                                                *)
LEMMA EntryLost ==
    ASSUME SelectInv, HNext, NEW c \in Clients,
           pc[c] \in {"scan", "pick", "least", "leastcap"},
           pc'[c] \in Selecting \ {"select"}
    PROVE  entry'[c] \notin avail'[c] /\ avail'[c] \subseteq avail[c]
<1>1. entry[c] \notin avail[c]
  BY Own DEF Kept, Loyal, Selecting
<1> QED
  BY <1>1, Recorded DEF Selecting

LEMMA SelectKeeps ==
    ASSUME SelectInv, HNext, NEW c \in Clients, Select(c)
    PROVE  Kept(c)'
<1> PICK l \in Locals : l = loc[c]
  BY Own
<1> DEFINE e == sticky[KeyOf[c]]
<1>e. e \in stickyEntry
  BY DEF SelectInv, PoolInv, TypeOK, Keys
<1>p. pc[c] = "select"
  BY DEF Select
<1>1. CASE strategy = "sticky" /\ e.id # None /\ e.age = "fresh"
  <2> DEFINE m == [l EXCEPT !.via = "entry", !.todo = <<e.id>>]
  <2>1. Goto(c, "try", m)
    BY <1>1 DEF Select
  <2>2. m.via = "entry" /\ m.todo = <<e.id>>
    BY DEF Locals
  <2> HIDE DEF m
  <2>3. pc'[c] = "try" /\ loc'[c] = m
    BY <2>1, Arrives
  <2>4. entry'[c] = e.id
    BY <1>p, <1>1, <2>3, Recorded
  <2>5. Head(m.todo) = e.id /\ Tail(m.todo) = <<>>
    BY <2>2
  <2> QED
    BY <2>2, <2>3, <2>4, <2>5 DEF Kept, Prospect, Loyal, Selecting, Holding
<1>2. CASE ~(strategy = "sticky" /\ e.id # None /\ e.age = "fresh")
  <2>1. PICK v \in Via : Goto(c, "scan", Healthy(l, v))
    <3>1. {"rr", "hash", "best"} \subseteq Via
      BY DEF Via
    <3> QED
      BY <1>2, <3>1 DEF Select
  <2>2. pc'[c] = "scan"
    BY <2>1, Arrives
  <2>3. entry'[c] = None
    BY <1>p, <1>2, <2>2, Recorded
  <2>4. entry'[c] \notin avail'[c]
    BY <2>3, Constants, Recorded
  <2> QED
    BY <2>1, <2>4, ToScan
<1> QED
  BY <1>1, <1>2

LEMMA ScanKeeps ==
    ASSUME SelectInv, HNext, NEW c \in Clients, Scan(c)
    PROVE  Kept(c)'
<1> PICK l \in Locals : l = loc[c]
  BY Own
<1>l. /\ l.todo \in Seq(Backends) /\ l.healthy \in Seq(Backends)
      /\ pc[c] = "scan" /\ l.todo # <<>>
  BY Own DEF Scan, LocalOK
<1>i. PICK i \in Backends : i = Head(l.todo) /\ Tail(l.todo) \in Seq(Backends)
  BY <1>l, Candidates
<1> DEFINE h == IF Selectable(be[i]) THEN Append(l.healthy, i) ELSE l.healthy
<1>h. h \in Seq(Backends)
  BY <1>l
<1>r. /\ Range(l.healthy) \subseteq Range(h)
      /\ Selectable(be[i]) => i \in Range(h)
      /\ Range(l.todo) \subseteq {i} \cup Range(Tail(l.todo))
  <2>1. Range(Append(l.healthy, i)) = Range(l.healthy) \cup {i}
        /\ Range(l.todo) \subseteq {i} \cup Range(Tail(l.todo))
    BY <1>l, <1>i, Listed
  <2>2. CASE Selectable(be[i])
    BY <2>1, <2>2
  <2>3. CASE ~Selectable(be[i])
    BY <2>1, <2>3
  <2> QED
    BY <2>2, <2>3
<1>g. Goto(c, IF Tail(l.todo) = <<>> THEN "pick" ELSE "scan",
           [l EXCEPT !.todo = Tail(l.todo), !.healthy = h])
  BY <1>i DEF Scan
<1> HIDE DEF h
<1>f. /\ [l EXCEPT !.todo = Tail(l.todo), !.healthy = h].todo = Tail(l.todo)
      /\ [l EXCEPT !.todo = Tail(l.todo), !.healthy = h].healthy = h
  BY DEF Locals
<1>1. /\ pc'[c] = IF Tail(l.todo) = <<>> THEN "pick" ELSE "scan"
      /\ loc'[c] = [l EXCEPT !.todo = Tail(l.todo), !.healthy = h]
  BY <1>g, Arrives
<1>2. loc'[c].todo = Tail(l.todo) /\ loc'[c].healthy = h
  BY <1>1, <1>f
<1>3. pc'[c] \in Selecting \ {"select"}
  BY <1>1 DEF Selecting
<1>4. entry'[c] \notin avail'[c] /\ avail'[c] \subseteq avail[c]
  BY <1>l, <1>3, EntryLost
<1>5. avail[c] \subseteq Range(l.healthy) \cup Range(l.todo)
  BY <1>l, Own DEF Kept, Prospect
<1>6. i \in avail'[c] => Selectable(be[i])
  \* IsSelectable changes nothing when it answers no
  <2>1. avail'[c] \subseteq Acquirable(be', inflight')
    BY <1>3, Recorded
  <2>2. be' = [be EXCEPT ![i] = AfterIsSelectable(be[i])] /\ be \in [Backends -> innerState]
    BY <1>i DEF Scan, SelectInv, PoolInv, TypeOK
  <2>3. ~Selectable(be[i]) => be'[i] = be[i]
    BY <2>2 DEF AfterIsSelectable
  <2> QED
    BY <2>1, <2>3 DEF Acquirable
<1>7. avail'[c] \subseteq Range(h) \cup Range(Tail(l.todo))
  BY <1>r, <1>4, <1>5, <1>6
<1>8. CASE Tail(l.todo) = <<>>
  <2>1. Range(Tail(l.todo)) = {}
    BY <1>i, <1>8, Listed
  <2>2. pc'[c] = "pick" /\ avail'[c] \subseteq Range(loc'[c].healthy)
    BY <1>1, <1>2, <1>7, <1>8, <2>1
  <2> QED
    BY <1>4, <2>2 DEF Kept, Prospect, Loyal, Selecting, Holding
<1>9. CASE Tail(l.todo) # <<>>
  <2>1. /\ pc'[c] = "scan"
        /\ avail'[c] \subseteq Range(loc'[c].healthy) \cup Range(loc'[c].todo)
    BY <1>1, <1>2, <1>7, <1>9
  <2> QED
    BY <1>4, <2>1 DEF Kept, Prospect, Loyal, Selecting, Holding
<1> QED
  BY <1>8, <1>9

LEMMA PickRRKeeps ==
    ASSUME SelectInv, HNext, NEW c \in Clients, PickRR(c)
    PROVE  Kept(c)'
<1> PICK l \in Locals : l = loc[c]
  BY Own
<1>l. /\ l.healthy \in Seq(Backends) /\ pc[c] = "pick" /\ l.via = "rr"
      /\ avail[c] \subseteq Range(l.healthy)
  BY Own DEF PickRR, Kept, Prospect
<1>1. CASE l.healthy = <<>>
  <2>1. Goto(c, "nohealthy", NoLocals)
    BY <1>1 DEF PickRR, NoHealthyBackend
  <2>2. pc'[c] = "nohealthy"
    BY <2>1, Arrives
  <2>3. avail'[c] \subseteq avail[c]
    BY <2>2, Recorded
  <2>4. Range(l.healthy) = {}
    BY <1>l, <1>1, Listed
  <2> QED
    BY <1>l, <2>1, <2>3, <2>4, ToFailure
<1>2. CASE l.healthy # <<>>
  <2> DEFINE k == rr % Len(l.healthy)
  <2>1. Goto(c, "try", Try(l, Rotate(l.healthy, k)))
    BY <1>2 DEF PickRR
  <2>2. k \in 0..(Len(l.healthy) - 1)
    <3>1. Len(l.healthy) \in Nat \ {0} /\ rr \in Int
      BY <1>l, <1>2, Candidates DEF SelectInv, PoolInv, TypeOK
    <3>2. \A x \in Int : \A n \in Nat \ {0} : x % n \in 0..(n - 1)
      OBVIOUS
    <3> QED
      BY <3>1, <3>2
  <2> HIDE DEF k
  <2>3. PICK q \in Seq(Backends) :
          q = Rotate(l.healthy, k) /\ Range(l.healthy) \subseteq Range(q)
    BY <1>l, <1>2, <2>2, Candidates, Listed
  <2>4. Try(l, q).todo = q
    BY Starts
  <2>5. pc'[c] = "try"
    BY <2>1, Arrives
  <2>6. entry'[c] \notin avail'[c] /\ avail'[c] \subseteq avail[c]
    BY <1>l, <2>5, EntryLost DEF Selecting
  <2>7. avail'[c] \subseteq Range(Try(l, q).todo)
    BY <1>l, <2>3, <2>4, <2>6
  <2> QED
    BY <2>1, <2>3, <2>6, <2>7, ToTry
<1> QED
  BY <1>1, <1>2

LEMMA PickStickyKeeps ==
    ASSUME SelectInv, HNext, NEW c \in Clients, PickSticky(c)
    PROVE  Kept(c)'
<1> PICK l \in Locals : l = loc[c]
  BY Own
<1>l. l.healthy \in Seq(Backends) /\ pc[c] = "pick" /\ l.via = "hash"
  BY Own DEF PickSticky
<1> DEFINE idx == GoMod(ToInt(KeyOf[c]), Len(l.healthy))
           m == Try(l, <<l.healthy[idx + 1]>>)
<1>1. \/ Goto(c, "scan", Healthy(l, "best"))
      \/ Goto(c, "panic", NoLocals)
      \/ Goto(c, "try", m)
  BY DEF PickSticky
<1>2. m.via = "hash"
  BY <1>l DEF Try, NoLocals
<1> HIDE DEF m
<1>3. CASE Goto(c, "scan", Healthy(l, "best"))
  <2>1. pc'[c] = "scan"
    BY <1>3, Arrives
  <2>2. entry'[c] \notin avail'[c]
    BY <1>l, <2>1, EntryLost DEF Selecting
  <2> QED
    BY <1>3, <2>2, ToScan DEF Via
<1>4. CASE Goto(c, "panic", NoLocals)
  BY <1>4, ToRest
<1>5. CASE Goto(c, "try", m)
  <2>1. pc'[c] = "try"
    BY <1>5, Arrives
  <2>2. entry'[c] \notin avail'[c]
    BY <1>l, <2>1, EntryLost DEF Selecting
  <2> QED
    BY <1>2, <1>5, <2>2, ToTry
<1> QED
  BY <1>1, <1>3, <1>4, <1>5

LEMMA PickFallbackKeeps ==
    ASSUME SelectInv, HNext, NEW c \in Clients, PickFallback(c)
    PROVE  Kept(c)'
<1> PICK l \in Locals : l = loc[c]
  BY Own
<1>l. /\ l.healthy \in Seq(Backends) /\ pc[c] = "pick"
      /\ avail[c] \subseteq Range(l.healthy)
  BY Own DEF PickFallback, Kept, Prospect
<1>1. CASE l.healthy = <<>>
  <2>1. Goto(c, "nohealthy", NoLocals)
    BY <1>1 DEF PickFallback, NoHealthyBackend
  <2>2. pc'[c] = "nohealthy"
    BY <2>1, Arrives
  <2>3. avail'[c] \subseteq avail[c]
    BY <2>2, Recorded
  <2>4. Range(l.healthy) = {}
    BY <1>l, <1>1, Listed
  <2> QED
    BY <1>l, <2>1, <2>3, <2>4, ToFailure
<1>2. CASE l.healthy # <<>>
  <2>1. Goto(c, "try", Try(l, l.healthy))
    BY <1>2 DEF PickFallback
  <2>2. pc'[c] = "try"
    BY <2>1, Arrives
  <2>3. entry'[c] \notin avail'[c] /\ avail'[c] \subseteq avail[c]
    BY <1>l, <2>2, EntryLost DEF Selecting
  <2>4. avail'[c] \subseteq Range(Try(l, l.healthy).todo)
    BY <1>l, <2>3, Starts
  <2> QED
    BY <2>1, <2>3, <2>4, ToTry
<1> QED
  BY <1>1, <1>2

LEMMA NextLeastKeeps ==
    ASSUME SelectInv, HNext, NEW c \in Clients, NEW m \in Locals,
           pc[c] \in {"pick", "least", "leastcap"}, m.via = "best",
           NextLeast(c, m)
    PROVE  Kept(c)'
<1>1. pc'[c] \in {"least", "try", "scan"}
  BY Arrives DEF NextLeast
<1>2. entry'[c] \notin avail'[c]
  BY <1>1, EntryLost DEF Selecting
<1> QED
  BY <1>2, ToLeast

LEMMA LeastKeeps ==
    ASSUME SelectInv, HNext, NEW c \in Clients,
           PickLeastConn(c) \/ LeastLoad(c) \/ LeastCap(c)
    PROVE  Kept(c)'
<1> PICK l \in Locals : l = loc[c]
  BY Own
<1>l. /\ l.todo \in Seq(Backends) /\ l.healthy \in Seq(Backends)
      /\ l.best \in Backends \cup {None} /\ l.bestLoad \in Int /\ l.cur \in Int
      /\ <<>> \in Seq(Backends)
  BY DEF Locals
<1>i. inflight \in [Backends -> Int]
  BY DEF SelectInv, PoolInv, TypeOK
<1>1. CASE PickLeastConn(c)
  <2> DEFINE m == [l EXCEPT !.todo = l.healthy, !.healthy = <<>>]
  <2>1. NextLeast(c, m) /\ pc[c] = "pick" /\ l.via = "best"
    BY <1>1 DEF PickLeastConn
  <2>2. m \in Locals /\ m.via = l.via
    BY <1>l DEF Locals
  <2> HIDE DEF m
  <2> QED
    BY <2>1, <2>2, NextLeastKeeps
<1>2. ASSUME pc[c] \in {"least", "leastcap"}
      PROVE  /\ l.via = "best" /\ l.todo # <<>> /\ Head(l.todo) \in Backends
             /\ Tail(l.todo) \in Seq(Backends)
  <2>1. l.via = "best" /\ l.todo # <<>>
    BY <1>2, Own DEF Kept, Prospect, LocalOK
  <2> QED
    BY <2>1, <1>l, Candidates
<1>3. CASE LeastLoad(c)
  <2>1. pc[c] = "least"
    BY <1>3 DEF LeastLoad
  <2>2. PICK load \in Int : load = inflight[Head(l.todo)]
    BY <1>2, <1>i, <2>1
  <2>3. CASE load < l.bestLoad \/ l.bestLoad < 0
    <3> DEFINE m == [l EXCEPT !.cur = load]
    <3>1. Goto(c, "leastcap", m)
      BY <1>3, <2>2, <2>3 DEF LeastLoad
    <3>2. m.via = "best"
      BY <1>2, <2>1 DEF Locals
    <3> HIDE DEF m
    <3>3. pc'[c] = "leastcap" /\ loc'[c] = m
      BY <3>1, Arrives
    <3>4. entry'[c] \notin avail'[c]
      BY <2>1, <3>3, EntryLost DEF Selecting
    <3> QED
      BY <3>2, <3>3, <3>4 DEF Kept, Prospect, Loyal, Selecting, Holding
  <2>4. CASE ~(load < l.bestLoad \/ l.bestLoad < 0)
    <3> DEFINE m == [l EXCEPT !.todo = Tail(l.todo)]
    <3>1. NextLeast(c, m)
      BY <1>3, <2>2, <2>4 DEF LeastLoad
    <3>2. m \in Locals /\ m.via = "best"
      BY <1>2, <2>1 DEF Locals
    <3> HIDE DEF m
    <3> QED
      BY <2>1, <3>1, <3>2, NextLeastKeeps
  <2> QED
    BY <2>3, <2>4
<1>4. CASE LeastCap(c)
  <2>1. pc[c] = "leastcap"
    BY <1>4 DEF LeastCap
  <2> DEFINE i == Head(l.todo)
             b == IF inflight[i] < MaxInflight THEN i ELSE l.best
             n == IF inflight[i] < MaxInflight THEN l.cur ELSE l.bestLoad
             m == [l EXCEPT !.todo = Tail(l.todo), !.cur = 0,
                            !.best = b, !.bestLoad = n]
  <2>2. b \in Backends \cup {None} /\ n \in Int /\ 0 \in Int
    BY <1>l, <1>2, <2>1
  <2>3. NextLeast(c, m)
    BY <1>4 DEF LeastCap
  <2> HIDE DEF b, n
  <2>4. m \in Locals /\ m.via = "best"
    BY <1>2, <2>1, <2>2 DEF Locals
  <2> HIDE DEF m
  <2> QED
    BY <2>1, <2>3, <2>4, NextLeastKeeps
<1> QED
  BY <1>1, <1>3, <1>4

LEMMA TryAcquireKeeps ==
    ASSUME SelectInv, HNext, NEW c \in Clients, TryAcquire(c)
    PROVE  Kept(c)'
<1> PICK l \in Locals : l = loc[c]
  BY Own
<1>l. l.todo \in Seq(Backends) /\ pc[c] = "try" /\ l.todo # <<>>
  BY Own DEF TryAcquire, LocalOK
<1>i. PICK i \in Backends : i = Head(l.todo)
  BY <1>l, Candidates
<1>1. CASE Selectable(be[i])
  <2> DEFINE m == [l EXCEPT !.be = i]
  <2>1. Goto(c, "load", m)
    BY <1>i, <1>1 DEF TryAcquire
  <2>2. m.be = i /\ m.todo = l.todo /\ m.via = l.via
    BY DEF Locals
  <2> HIDE DEF m
  <2>3. pc'[c] = "load" /\ loc'[c] = m
    BY <2>1, Arrives
  <2>4. avail'[c] \subseteq avail[c] /\ entry'[c] = entry[c]
    BY <1>l, <2>3, Recorded DEF Selecting
  <2> QED
    BY <1>l, <1>i, <2>2, <2>3, <2>4, Own
       DEF Kept, Prospect, Loyal, Selecting, Holding
<1>2. CASE ~Selectable(be[i])
  <2>1. Miss(c)
    BY <1>i, <1>2 DEF TryAcquire
  <2>2. be' = [be EXCEPT ![i] = AfterIsSelectable(be[i])] /\ be \in [Backends -> innerState]
    BY <1>i DEF TryAcquire, SelectInv, PoolInv, TypeOK
  <2>3. be'[i] = be[i]
    BY <1>2, <2>2 DEF AfterIsSelectable
  <2>4. i \notin Acquirable(be', inflight')
    BY <1>2, <2>3 DEF Acquirable
  <2> QED
    BY <1>l, <1>i, <2>1, <2>4, AfterMiss
<1> QED
  BY <1>1, <1>2

LEMMA LoadKeeps ==
    ASSUME SelectInv, HNext, NEW c \in Clients, Load(c)
    PROVE  Kept(c)'
<1> PICK l \in Locals : l = loc[c]
  BY Own
<1>l. /\ l.todo \in Seq(Backends) /\ pc[c] = "load" /\ l.todo # <<>>
      /\ l.be = Head(l.todo) /\ l.be \in Backends
  BY Own DEF Load, LocalOK, Kept, Prospect
<1>i. inflight \in [Backends -> Int]
  BY DEF SelectInv, PoolInv, TypeOK
<1>1. CASE inflight[l.be] >= MaxInflight
  <2>1. Miss(c) /\ inflight' = inflight
    BY <1>1 DEF Load, poolVars
  <2>2. ~(inflight'[l.be] < MaxInflight)
    BY <1>l, <1>i, <1>1, <2>1, Constants
  <2>3. l.be \notin Acquirable(be', inflight')
    BY <2>2 DEF Acquirable
  <2> QED
    BY <1>l, <2>1, <2>3, AfterMiss
<1>2. CASE ~(inflight[l.be] >= MaxInflight)
  <2> DEFINE m == [l EXCEPT !.cur = inflight[l.be]]
  <2>1. Goto(c, "cas", m)
    BY <1>2 DEF Load
  <2>2. m.be = l.be /\ m.todo = l.todo /\ m.via = l.via
    BY DEF Locals
  <2> HIDE DEF m
  <2>3. pc'[c] = "cas" /\ loc'[c] = m
    BY <2>1, Arrives
  <2>4. avail'[c] \subseteq avail[c] /\ entry'[c] = entry[c]
    BY <1>l, <2>3, Recorded DEF Selecting
  <2> QED
    BY <1>l, <2>2, <2>3, <2>4, Own
       DEF Kept, Prospect, Loyal, Selecting, Holding
<1> QED
  BY <1>1, <1>2

LEMMA CompareAndSwapKeeps ==
    ASSUME SelectInv, HNext, NEW c \in Clients, CompareAndSwap(c)
    PROVE  Kept(c)'
<1> PICK l \in Locals : l = loc[c]
  BY Own
<1>l. pc[c] = "cas" /\ l.be = Head(l.todo)
  BY Own DEF CompareAndSwap, Kept, Prospect
<1>1. CASE inflight[l.be] = l.cur
  <2>1. \E p \in {"store", "connect"} : Goto(c, p, Leased(l))
    BY <1>1 DEF CompareAndSwap
  <2>2. Leased(l).be = l.be
    BY LocalsTypes
  <2>3. pc'[c] \in {"store", "connect"} /\ loc'[c].be = l.be
    BY <2>1, <2>2, Arrives
  <2>4. avail'[c] = avail[c] /\ entry'[c] = entry[c]
    <3>1. pc[c] # "select" /\ pc'[c] \in Holding
      BY <1>l, <2>3 DEF Holding
    <3> QED
      BY <3>1, Recorded
  <2> QED
    BY <1>l, <2>3, <2>4, Own DEF Kept, Prospect, Loyal, Selecting, Holding
<1>2. CASE inflight[l.be] # l.cur
  <2> DEFINE m == [l EXCEPT !.cur = 0]
  <2>1. Goto(c, "load", m)
    BY <1>2 DEF CompareAndSwap
  <2>2. m.be = l.be /\ m.todo = l.todo /\ m.via = l.via
    BY DEF Locals
  <2> HIDE DEF m
  <2>3. pc'[c] = "load" /\ loc'[c] = m
    BY <2>1, Arrives
  <2>4. avail'[c] \subseteq avail[c] /\ entry'[c] = entry[c]
    BY <1>l, <2>3, Recorded DEF Selecting
  <2> QED
    BY <1>l, <2>2, <2>3, <2>4, Own
       DEF Kept, Prospect, Loyal, Selecting, Holding
<1> QED
  BY <1>1, <1>2

(* Around Select, a handler keeps its lease's backend or is done with it.  *)
LEMMA DialKeeps ==
    ASSUME SelectInv, HNext, NEW c \in Clients, ClientDial(c)
    PROVE  Kept(c)'
<1>1. CASE \E p \in {"select", "idle", "failed"}, m \in Locals : Goto(c, p, m)
  BY <1>1, ToRest
<1>2. CASE /\ pc[c] \in Holding
           /\ \E p \in Holding : Goto(c, p, loc[c])
  <2>1. pc'[c] \in Holding /\ loc'[c] = loc[c] /\ pc[c] # "select"
    BY <1>2, Arrives DEF Holding
  <2>2. avail'[c] = avail[c] /\ entry'[c] = entry[c]
    BY <2>1, Recorded
  <2> QED
    BY <1>2, <2>1, <2>2, Own DEF Kept, Prospect, Loyal, Selecting, Holding
<1>3. CASE StoreSticky(c) \/ ConnectOK(c) \/ DialFail(c) \/ HandshakeOK(c)
  BY <1>2, <1>3 DEF StoreSticky, ConnectOK, DialFail, HandshakeOK, Holding
<1>4. CASE Request(c) \/ Close(c) \/ Reply(c)
  BY <1>1, <1>4, LocalsTypes DEF Request, Close, Reply
<1>5. CASE ReleaseRetry(c)
  <2>1. \/ Goto(c, "select", [NoLocals EXCEPT !.attempt = loc[c].attempt + 1])
        \/ Goto(c, "failed", NoLocals)
    BY <1>5 DEF ReleaseRetry
  <2> QED
    BY <2>1, ToRest
<1> QED
  BY <1>3, <1>4, <1>5 DEF ClientDial

-----------------------------------------------------------------------------
(* The induction.                                                          *)

LEMMA OnlyOneMoves ==
    ASSUME SelectInv, NEW c \in Clients, ClientSelect(c) \/ ClientDial(c)
    PROVE  \A d \in Clients \ {c} : pc'[d] = pc[d] /\ loc'[d] = loc[d]
<1>1. \E p, m : Goto(c, p, m)
  BY DEF ClientSelect, ClientDial, Select, Scan, PickRR, PickSticky,
         PickLeastConn, LeastLoad, LeastCap, PickFallback, TryAcquire, Load,
         CompareAndSwap, Miss, NextLeast, NoHealthyBackend, Request,
         StoreSticky, ConnectOK, DialFail, HandshakeOK, ReleaseRetry, Close,
         Reply
<1> QED
  BY <1>1, Arrives

LEMMA SelectInit == HInit => SelectInv
<1> SUFFICES ASSUME HInit PROVE SelectInv
  OBVIOUS
<1>1. PoolInv
  BY PoolInit DEF HInit
<1>2. \A c \in Clients : pc[c] = "idle" /\ avail[c] = {}
  BY DEF HInit, Init
<1>3. avail \in [Clients -> SUBSET Backends]
  BY DEF HInit
<1>4. \A c \in Clients : Kept(c)
  BY <1>2 DEF Kept, Prospect, Loyal, Selecting, Holding
<1> QED
  BY <1>1, <1>3, <1>4 DEF SelectInv

LEMMA SelectNext == SelectInv /\ [HNext]_hvars => SelectInv'
<1> SUFFICES ASSUME SelectInv, [HNext]_hvars PROVE SelectInv'
  OBVIOUS
<1>1. CASE UNCHANGED hvars
  <2>1. PoolInv'
    <3>1. [Next]_vars /\ PoolInv
      BY <1>1 DEF hvars, SelectInv
    <3> QED
      BY <3>1, PoolNext
  <2>2. UNCHANGED <<pc, loc, avail, entry>>
    BY <1>1 DEF hvars, vars
  <2> QED
    BY <2>1, <2>2 DEF SelectInv, Kept
<1>2. CASE HNext
  <2>1. PoolInv'
    <3>1. [Next]_vars /\ PoolInv
      BY <1>2 DEF HNext, SelectInv
    <3> QED
      BY <3>1, PoolNext
  <2>2. ASSUME NEW d \in Clients PROVE Kept(d)'
    <3>1. CASE \E c \in Clients : ClientSelect(c) \/ ClientDial(c)
      <4>1. PICK c \in Clients : ClientSelect(c) \/ ClientDial(c)
        BY <3>1
      <4>2. CASE d # c
        <5>1. pc'[d] = pc[d] /\ loc'[d] = loc[d]
          BY <4>1, <4>2, OnlyOneMoves
        <5> QED
          BY <1>2, <5>1, Bystander
      <4>3. CASE d = c /\ ClientSelect(c)
        BY <1>2, <4>3, SelectKeeps, ScanKeeps, PickRRKeeps, PickStickyKeeps,
           LeastKeeps, PickFallbackKeeps, TryAcquireKeeps, LoadKeeps,
           CompareAndSwapKeeps DEF ClientSelect
      <4>4. CASE d = c /\ ClientDial(c)
        BY <1>2, <4>4, DialKeeps
      <4> QED
        BY <4>1, <4>2, <4>3, <4>4
    <3>2. CASE ~\E c \in Clients : ClientSelect(c) \/ ClientDial(c)
      <4>1. \/ \E i \in Backends : Probe(i) \/ Control(i) \/ Elapse(i)
            \/ \E k \in Keys : Expire(k)
        BY <1>2, <3>2 DEF HNext, Next
      <4>2. pc' = pc /\ loc' = loc
        BY <4>1 DEF Probe, Control, Elapse, Expire, ProbeOK, ProbeFail,
                    ProbeCheck, ProbeForce, Admit, Park, SetWarming,
                    ResetState, HealthRead, Update
      <4> QED
        BY <1>2, <4>2, Bystander
    <3> QED
      BY <3>1, <3>2
  <2>3. avail' \in [Clients -> SUBSET Backends]
    <3>1. CASE Clients = {}
      BY <1>2, <3>1 DEF HNext
    <3>2. CASE Clients # {}
      BY <1>2, <3>2, Recorded
    <3> QED
      BY <3>1, <3>2
  <2> QED
    BY <2>1, <2>2, <2>3 DEF SelectInv
<1> QED
  BY <1>1, <1>2

-----------------------------------------------------------------------------
(* The theorems.                                                           *)

(* The inductive invariant of Select's calls, for every strategy: nothing  *)
(* that stayed acquirable is left behind by a walk that can fail.          *)
THEOREM SelectInvariant == HSpec => []SelectInv
<1> QED
  BY SelectInit, SelectNext, PTL DEF HSpec

(* ErrNoHealthyBackend means that no backend was selectable with a free    *)
(* slot throughout the call.                                               *)
THEOREM FailuresAreReal == HSpec => []NoSpuriousFailure
<1>1. SelectInv => NoSpuriousFailure
  BY DEF SelectInv, NoSpuriousFailure, Kept, Prospect
<1> QED
  BY <1>1, SelectInvariant, PTL

(* A fresh sticky entry is followed as long as its backend is acquirable.  *)
THEOREM AffinityKept == HSpec => []StickyHonoured
<1>1. SelectInv => StickyHonoured
  BY DEF SelectInv, StickyHonoured, Kept, Loyal
<1> QED
  BY <1>1, SelectInvariant, PTL
=============================================================================
