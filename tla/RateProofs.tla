----------------------------- MODULE RateProofs -----------------------------
(***************************************************************************)
(* Theorems about the token bucket of ConnLimiter over time, for any       *)
(* number of handlers and peers, any rate and any resolution of the clock: *)
(* the rate is bounded over every window, and a paced peer is not refused. *)
(***************************************************************************)
EXTENDS RateHistory, ConnLimiterProofs

(* What the bucket of an IP owes to its grants so far.  A bucket that has  *)
(* never granted is as it was allocated; afterwards lastAt is the time of  *)
(* the last grant, and the tokens left, counted like further grants at     *)
(* that time, would still be within the bound of every window that ends    *)
(* there.                                                                  *)
Fresh(ip) ==
    grants[ip] = <<>> => \A s \in Conns : tokens[ip][s] = 0 /\ lastAt[ip][s] = 0

WindowLeft(g, left) ==
    \A i \in 1..Len(g) :
        (Len(g) - i + 1) * TicksPerSec + left * TicksPerSec
            <= MaxRPS * TicksPerSec + MaxRPS * (g[Len(g)] - g[i])

Used(ip) ==
    grants[ip] # <<>> =>
        LET g == grants[ip] s == perIP[ip] IN
        /\ s \in Conns
        /\ lastAt[ip][s] = g[Len(g)]
        /\ tokens[ip][s] \in Nat
        /\ WindowLeft(g, tokens[ip][s])

Windows(g) ==
    \A i, j \in DOMAIN g : i <= j =>
        (j - i + 1) * TicksPerSec <= MaxRPS * TicksPerSec + MaxRPS * (g[j] - g[i])

RateInv ==
    /\ grants \in [IPs -> Seq(Nat)]
    /\ now >= Epoch
    /\ \A c \in Conns : pc[c] = "bucket" => MaxRPS > 0
    /\ \A ip \in IPs : Fresh(ip) /\ Used(ip) /\ Windows(grants[ip])

-----------------------------------------------------------------------------
(* Arithmetic of the refill.                                               *)

(* What a division by the resolution of the clock drops.                   *)
LEMMA Division ==
  ASSUME NEW x \in Int, NEW k \in Nat, k > 0
  PROVE  /\ x \div k \in Int
         /\ (x \div k) * k <= x
         /\ x < (x \div k) * k + k
  OBVIOUS

(* A grant at e ticks after the last one, which leaves U of the T tokens   *)
(* and of the q earned since, keeps the bound of a window of m grants.     *)
LEMMA WindowGrows ==
  ASSUME NEW R \in Nat, NEW K \in Nat, NEW T \in Int, NEW U \in Int,
         NEW e \in Int, NEW q \in Int, NEW m \in Int, NEW w \in Int,
         m * K + T * K <= R * K + R * w,
         q * K <= e * R, U + 1 <= T + q
  PROVE  (m + 1) * K + U * K <= R * K + R * (w + e)
  OBVIOUS

(* Multiplying by the resolution of the clock keeps an order. *)
LEMMA Scale ==
  ASSUME NEW a \in Int, NEW b \in Int, NEW K \in Nat, a <= b
  PROVE  a * K <= b * K /\ a * K \in Int /\ b * K \in Int
  OBVIOUS

(* A grant at time x that leaves U tokens keeps the bounds: the window     *)
(* that is the grant alone has the capacity of the bucket, a longer one    *)
(* the T tokens of the last grant and the q that the time since then has   *)
(* earned.                                                                 *)
LEMMA GrantWindows ==
  ASSUME NEW g \in Seq(Nat), NEW x \in Nat, NEW T \in Int, NEW U \in Nat,
         NEW q \in Int, MaxRPS \in Nat, Windows(g),
         U + 1 <= MaxRPS, U + 1 <= T + q,
         g # <<>> => /\ WindowLeft(g, T)
                     /\ q * TicksPerSec <= (x - g[Len(g)]) * MaxRPS
  PROVE  WindowLeft(Append(g, x), U) /\ Windows(Append(g, x))
<1> DEFINE n == Len(g)
           gg == Append(g, x)
           Bound(d) == MaxRPS * TicksPerSec + MaxRPS * d
<1>1. /\ gg \in Seq(Nat) /\ Len(gg) = n + 1 /\ n \in Nat
      /\ gg[n + 1] = x /\ \A i \in 1..n : gg[i] = g[i] /\ g[i] \in Nat
      /\ DOMAIN gg = 1..(n + 1) /\ DOMAIN g = 1..n
  OBVIOUS
<1>2. TicksPerSec \in Nat
  BY LimiterAssumption
<1>3. ASSUME NEW i \in 1..(n + 1)
      PROVE  (n + 1 - i + 1) * TicksPerSec + U * TicksPerSec <= Bound(x - gg[i])
  <2>1. CASE i = n + 1
    <3>1. (U + 1) * TicksPerSec <= MaxRPS * TicksPerSec
      BY <1>2, Scale
    <3>2. x - gg[i] = 0 /\ n + 1 - i + 1 = 1
      BY <2>1, <1>1
    <3>3. (U + 1) * TicksPerSec = TicksPerSec + U * TicksPerSec
      BY <1>2
    <3>4. Bound(0) = MaxRPS * TicksPerSec
      BY <1>2
    <3>5. 1 * TicksPerSec = TicksPerSec
      BY <1>2
    <3> HIDE DEF Bound
    <3> QED  BY <3>1, <3>2, <3>3, <3>4, <3>5
  <2>2. CASE i \in 1..n
    <3>1. g # <<>> /\ gg[i] = g[i] /\ g[i] \in Nat /\ g[n] \in Nat
      BY <1>1, <2>2
    <3> DEFINE m == n - i + 1
               w == g[n] - g[i]
               e == x - g[n]
    <3>2. m * TicksPerSec + T * TicksPerSec <= Bound(w)
      BY <3>1, <2>2 DEF WindowLeft
    <3>3. q * TicksPerSec <= e * MaxRPS
      BY <3>1
    <3>4. m \in Int /\ w \in Int /\ e \in Int
      BY <3>1, <1>1
    <3>5. w + e = x - gg[i] /\ m + 1 = n + 1 - i + 1
      <4> HIDE DEF gg, n
      <4> QED  BY <3>1, <1>1
    <3> HIDE DEF m, w, e
    <3>6. (m + 1) * TicksPerSec + U * TicksPerSec <= Bound(w + e)
      BY <3>2, <3>3, <3>4, <1>2, WindowGrows
    <3> QED  BY <3>5, <3>6
  <2> QED  BY <2>1, <2>2, <1>1
<1>4. WindowLeft(gg, U)
  <2> HIDE DEF gg, n
  <2> QED  BY <1>1, <1>3 DEF WindowLeft
<1>5. ASSUME NEW i \in 1..(n + 1), NEW j \in 1..(n + 1), i <= j
      PROVE  (j - i + 1) * TicksPerSec <= Bound(gg[j] - gg[i])
  <2>1. CASE j = n + 1
    <3>1. 0 * TicksPerSec <= U * TicksPerSec /\ U * TicksPerSec \in Int
      BY <1>2, Scale
    <3> DEFINE a == (n + 1 - i + 1) * TicksPerSec
               b == Bound(x - gg[i])
    <3>2. a \in Int /\ b \in Int
      <4>1. n + 1 - i + 1 \in Int /\ x - gg[i] \in Int
        BY <1>1
      <4> QED  BY <4>1, <1>2
    <3>3. a + U * TicksPerSec <= b
      BY <1>3
    <3>4. 0 * TicksPerSec = 0
      BY <1>2
    <3> HIDE DEF a, b
    <3>5. a <= b
      BY <3>1, <3>2, <3>3, <3>4
    <3> QED  BY <3>5, <2>1, <1>1 DEF a, b
  <2>2. CASE j \in 1..n
    <3>1. i \in 1..n
      BY <2>2, <1>1, <1>5
    <3>2. (j - i + 1) * TicksPerSec <= Bound(g[j] - g[i])
      BY <2>2, <3>1, <1>1, <1>5 DEF Windows
    <3>3. gg[j] = g[j] /\ gg[i] = g[i]
      BY <2>2, <3>1, <1>1
    <3> HIDE DEF Bound, gg
    <3> QED  BY <3>2, <3>3
  <2> QED  BY <2>1, <2>2, <1>1
<1>6. Windows(gg)
  BY <1>1, <1>5 DEF Windows
<1> QED  BY <1>4, <1>6

(* The refilled bucket: no more than was left and earned, nor than a       *)
(* second's worth; and unless that cap applies, no less.                   *)
LEMMA RefillBounds ==
  ASSUME TypeOK, NEW ip \in IPs, NEW s \in Conns
  PROVE  LET q == ((now - lastAt[ip][s]) * MaxRPS) \div TicksPerSec
             t == Refilled(ip, s)
         IN  /\ q \in Int /\ t \in Int
             /\ q * TicksPerSec <= (now - lastAt[ip][s]) * MaxRPS
             /\ (now - lastAt[ip][s]) * MaxRPS < q * TicksPerSec + TicksPerSec
             /\ t <= MaxRPS /\ t <= tokens[ip][s] + q
             /\ t = MaxRPS \/ t = tokens[ip][s] + q
<1> DEFINE p == (now - lastAt[ip][s]) * MaxRPS
           q == p \div TicksPerSec
           t == Refilled(ip, s)
<1>1. p \in Int /\ tokens[ip][s] \in Int
  BY LimiterAssumption DEF TypeOK
<1>2. q \in Int /\ q * TicksPerSec <= p /\ p < q * TicksPerSec + TicksPerSec
  <2> HIDE DEF p
  <2> QED  BY <1>1, Division, LimiterAssumption
<1>3. t = IF tokens[ip][s] + q > MaxRPS THEN MaxRPS ELSE tokens[ip][s] + q
  BY DEF Refilled
<1> HIDE DEF p, q, t
<1>4. /\ q \in Int /\ t \in Int
      /\ t <= MaxRPS /\ t <= tokens[ip][s] + q
      /\ t = MaxRPS \/ t = tokens[ip][s] + q
  BY <1>1, <1>2, <1>3, LimiterAssumption
<1> QED  BY <1>2, <1>4 DEF p, q, t

-----------------------------------------------------------------------------
(* The steps.                                                              *)

LEMMA RateInit == ASSUME HInit PROVE RateInv
  BY LimiterAssumption
     DEF HInit, Init, RateInv, Fresh, Used, Windows

(* Only the bucket's critical section lets a handler pass it or refuses it.*)
LEMMA BucketDecides ==
  ASSUME LimiterInv, [Next]_vars, NEW c \in Conns,
         Passes(c) \/ Refuses(c)
  PROVE  Bucket(c)
  BY DEF LimiterInv, TypeOK, PC, Passes, Refuses, Next, Step, Arrive,
         UndoGlobal, Lookup, Create, Count, UndoConn, Bucket, Release,
         ReleaseConn, Tick, vars

(* A step without a grant leaves the bucket of every IP, and an IP that    *)
(* has an ipState keeps it.                                                *)
QuietEffect ==
    /\ tokens' = tokens /\ lastAt' = lastAt /\ now' >= Epoch
    /\ \A ip \in IPs : perIP[ip] # NoState => perIP'[ip] = perIP[ip]
    /\ \A c \in Conns : pc'[c] = "bucket" => MaxRPS > 0

LEMMA QuietStep ==
  ASSUME LimiterInv, RateInv, [Next]_vars, \A c \in Conns : ~Passes(c)
  PROVE  QuietEffect
<1> USE LimiterAssumption DEF LimiterInv, TypeOK, RateInv, QuietEffect, bucketVars
<1>1. ASSUME NEW c \in Conns, NEW ip \in IPs \cup {NoIP}, Arrive(c, ip)
      PROVE  QuietEffect
  BY <1>1 DEF Arrive
<1>2. ASSUME NEW c \in Conns, UndoGlobal(c)  PROVE QuietEffect
  BY <1>2 DEF UndoGlobal
<1>3. ASSUME NEW c \in Conns, Lookup(c)  PROVE QuietEffect
  BY <1>3 DEF Lookup
<1>4. ASSUME NEW c \in Conns, Create(c)  PROVE QuietEffect
  BY <1>4 DEF Create
<1>5. ASSUME NEW c \in Conns, Count(c)  PROVE QuietEffect
  BY <1>5 DEF Count
<1>6. ASSUME NEW c \in Conns, UndoConn(c)  PROVE QuietEffect
  BY <1>6 DEF UndoConn
<1>7. ASSUME NEW c \in Conns, Bucket(c)  PROVE QuietEffect
  <2>1. Refilled(peer[c], ref[c]) < 1
    BY <1>7 DEF Bucket, Passes
  <2> QED  BY <1>7, <2>1 DEF Bucket
<1>8. ASSUME NEW c \in Conns, Release(c)  PROVE QuietEffect
  BY <1>8 DEF Release
<1>9. ASSUME NEW c \in Conns, ReleaseConn(c)  PROVE QuietEffect
  BY <1>9 DEF ReleaseConn
<1>10. CASE Tick
  BY <1>10 DEF Tick
<1>11. CASE UNCHANGED vars
  BY <1>11 DEF vars
<1> QED
  BY <1>1, <1>2, <1>3, <1>4, <1>5, <1>6, <1>7, <1>8, <1>9, <1>10, <1>11
     DEF Next, Step

LEMMA QuietInv ==
  ASSUME LimiterInv, RateInv, HNext \/ UNCHANGED hvars,
         \A c \in Conns : ~Passes(c)
  PROVE  RateInv'
<1>1. grants' = grants
  BY DEF HNext, hvars, RateInv
<1>2. QuietEffect
  BY QuietStep DEF HNext, hvars
<1>3. ASSUME NEW ip \in IPs
      PROVE  Fresh(ip)' /\ Used(ip)' /\ Windows(grants[ip])'
  <2>1. Fresh(ip)'
    BY <1>1, <1>2 DEF RateInv, Fresh, QuietEffect
  <2>2. Windows(grants[ip])'
    <3>1. Windows(grants[ip])
      BY DEF RateInv
    <3> QED  BY <3>1, <1>1 DEF Windows
  <2>3. Used(ip)'
    <3> SUFFICES ASSUME grants[ip] # <<>> PROVE Used(ip)'
      BY <1>1 DEF Used
    <3>1. /\ perIP[ip] \in Conns
          /\ lastAt[ip][perIP[ip]] = grants[ip][Len(grants[ip])]
          /\ tokens[ip][perIP[ip]] \in Nat
          /\ WindowLeft(grants[ip], tokens[ip][perIP[ip]])
      BY DEF RateInv, Used
    <3>2. perIP'[ip] = perIP[ip]
      BY <3>1, <1>2, LimiterAssumption DEF QuietEffect
    <3> QED  BY <3>1, <3>2, <1>1, <1>2 DEF Used, QuietEffect, WindowLeft
  <2> QED  BY <2>1, <2>2, <2>3
<1> QED  BY <1>1, <1>2, <1>3 DEF RateInv, QuietEffect

(* What a grant does: the handler's ipState is the one in the map, a token *)
(* of the refilled bucket is spent, lastAt and the log move to now, and    *)
(* the buckets of the other IPs stay.                                      *)
LEMMA GrantEffect ==
  ASSUME LimiterInv, RateInv, HNext \/ UNCHANGED hvars,
         NEW c \in Conns, Passes(c)
  PROVE  LET ip == peer[c] s == perIP[ip] IN
         /\ Bucket(c) /\ ip \in IPs /\ s \in Conns /\ MaxRPS > 0
         /\ Refilled(ip, s) >= 1
         /\ tokens' = [tokens EXCEPT ![ip][s] = Refilled(ip, s) - 1]
         /\ lastAt' = [lastAt EXCEPT ![ip][s] = now]
         /\ perIP' = perIP /\ now' = now
         /\ grants' = [grants EXCEPT ![ip] = Append(grants[ip], now)]
         /\ \A d \in Conns : pc'[d] = "bucket" => MaxRPS > 0
<1> DEFINE ip == peer[c] s == perIP[ip]
<1>1. Bucket(c)
  BY BucketDecides DEF HNext, hvars
<1>2. pc[c] = "bucket" /\ ip \in IPs /\ s \in Conns /\ ref[c] = s /\ MaxRPS > 0
  BY <1>1 DEF Bucket, LimiterInv, TypeOK, PeerInv, RefInv, RateInv
<1>3. Refilled(ip, s) \in Int
  BY <1>2, RefilledType DEF LimiterInv
<1>4. Refilled(ip, s) >= 1
  BY <1>1, <1>2, <1>3 DEF Bucket, Passes, LimiterInv, TypeOK
<1>5. /\ tokens' = [tokens EXCEPT ![ip][s] = Refilled(ip, s) - 1]
      /\ lastAt' = [lastAt EXCEPT ![ip][s] = now]
      /\ perIP' = perIP /\ now' = now /\ pc' = [pc EXCEPT ![c] = "held"]
  BY <1>1, <1>2, <1>3, <1>4 DEF Bucket
<1>6. grants' = [grants EXCEPT ![ip] = Append(grants[ip], now)]
  <2>1. \A d \in Conns : Passes(d) => d = c
    BY <1>5 DEF Passes, LimiterInv, TypeOK
  <2>2. HNext
    BY <1>5 DEF Passes, hvars, vars, LimiterInv, TypeOK
  <2> QED  BY <2>1, <2>2, <1>2 DEF HNext, RateInv
<1> QED  BY <1>1, <1>2, <1>4, <1>5, <1>6

(* So a grant keeps the bounds of its IP, and nothing else changes.        *)
LEMMA GrantInv ==
  ASSUME LimiterInv, RateInv, HNext \/ UNCHANGED hvars,
         NEW c \in Conns, Passes(c)
  PROVE  RateInv'
<1> DEFINE ip == peer[c]
           s == perIP[ip]
           g == grants[ip]
           T == tokens[ip][s]
           U == Refilled(ip, s) - 1
           q == ((now - lastAt[ip][s]) * MaxRPS) \div TicksPerSec
           n == Len(g)
           gg == Append(g, now)
<1>0. Refilled(ip, s) \in Int /\ ip \in IPs /\ s \in Conns
  BY GrantEffect, RefilledType DEF LimiterInv
<1>1. /\ MaxRPS \in Nat /\ MaxRPS > 0 /\ U \in Nat
      /\ tokens' = [tokens EXCEPT ![ip][s] = U]
      /\ lastAt' = [lastAt EXCEPT ![ip][s] = now]
      /\ perIP' = perIP /\ now' = now
      /\ grants' = [grants EXCEPT ![ip] = gg]
      /\ \A d \in Conns : pc'[d] = "bucket" => MaxRPS > 0
  BY <1>0, GrantEffect, LimiterAssumption
<1>2. /\ g \in Seq(Nat) /\ now \in Nat /\ now >= Epoch /\ T \in Int
      /\ Windows(g) /\ Used(ip) /\ TicksPerSec \in Nat /\ TicksPerSec > 0
      /\ lastAt[ip][s] \in Int
  BY <1>0, <1>1, LimiterAssumption DEF RateInv, LimiterInv, TypeOK
<1>3. /\ q \in Int /\ U \in Int /\ U + 1 <= MaxRPS /\ U + 1 <= T + q
      /\ q * TicksPerSec <= (now - lastAt[ip][s]) * MaxRPS
  <2> HIDE DEF q
  <2> QED  BY <1>0, RefillBounds DEF LimiterInv, q
<1>4. /\ gg \in Seq(Nat) /\ gg # <<>> /\ Len(gg) = n + 1 /\ n \in Nat
      /\ gg[n + 1] = now /\ \A i \in 1..n : gg[i] = g[i] /\ g[i] \in Nat
      /\ DOMAIN gg = 1..(n + 1) /\ DOMAIN g = 1..n
  BY <1>2
<1>5. WindowLeft(gg, U) /\ Windows(gg)
  <2>1. g # <<>> => /\ WindowLeft(g, T)
                    /\ q * TicksPerSec <= (now - g[Len(g)]) * MaxRPS
    BY <1>2, <1>3 DEF Used
  <2> HIDE DEF q, T, U, g
  <2> QED  BY <2>1, <1>1, <1>2, <1>3, GrantWindows
<1>6. ASSUME NEW k \in IPs
      PROVE  Fresh(k)' /\ Used(k)' /\ Windows(grants[k])'
  <2>0. grants \in [IPs -> Seq(Nat)] /\ tokens \in [IPs -> [Conns -> Int]]
        /\ lastAt \in [IPs -> [Conns -> Int]] /\ perIP \in [IPs -> Conns \cup {NoState}]
    BY DEF RateInv, LimiterInv, TypeOK
  <2> HIDE DEF gg, U
  <2>1. CASE k = ip
    <3>1. grants'[k] = gg /\ tokens'[k][s] = U /\ lastAt'[k][s] = now /\ perIP'[k] = s
      BY <2>0, <2>1, <1>0, <1>1
    <3>2. Used(k)'
      BY <3>1, <1>1, <1>0, <1>4, <1>5 DEF Used, WindowLeft
    <3>3. Fresh(k)' /\ Windows(grants[k])'
      BY <3>1, <1>4, <1>5 DEF Fresh, Windows
    <3> QED  BY <3>2, <3>3
  <2>2. CASE k # ip
    <3>1. grants'[k] = grants[k] /\ tokens'[k] = tokens[k]
          /\ lastAt'[k] = lastAt[k] /\ perIP'[k] = perIP[k]
      BY <2>0, <2>2, <1>0, <1>1
    <3>2. Fresh(k) /\ Used(k) /\ Windows(grants[k])
      BY DEF RateInv
    <3> QED  BY <3>1, <3>2 DEF Fresh, Used, Windows, WindowLeft
  <2> QED  BY <2>1, <2>2
<1> QED
  <2>1. grants' \in [IPs -> Seq(Nat)]
    BY <1>0, <1>1, <1>4 DEF RateInv
  <2> QED  BY <2>1, <1>1, <1>2, <1>6 DEF RateInv

-----------------------------------------------------------------------------
(* The theorems.                                                           *)

LEMMA HistoryInvariant == HSpec => [](LimiterInv /\ RateInv)
<1>1. HInit => LimiterInv /\ RateInv
  BY InitInv, RateInit DEF HInit
<1>2. LimiterInv /\ RateInv /\ [HNext]_hvars => (LimiterInv /\ RateInv)'
  <2> SUFFICES ASSUME LimiterInv, RateInv, HNext \/ UNCHANGED hvars
               PROVE  LimiterInv' /\ RateInv'
    OBVIOUS
  <2>1. LimiterInv'
    BY NextInv DEF HNext, hvars
  <2>2. RateInv'
    BY QuietInv, GrantInv
  <2> QED  BY <2>1, <2>2
<1> QED  BY <1>1, <1>2, PTL DEF HSpec

(* The token bucket of Acquire bounds the rate of the connections it lets  *)
(* through per IP over every window of time, whatever the number of        *)
(* handlers that race for it.                                              *)
THEOREM RateBounded == HSpec => []RateWindow
<1>1. RateInv => RateWindow
  BY DEF RateInv, RateWindow, Windows
<1> QED  BY <1>1, HistoryInvariant, PTL

(* The token bucket of Acquire never refuses a peer that has waited        *)
(* 1/MaxRPS second since its last grant, nor one that has had none.        *)
THEOREM PacedNeverRefused == HSpec => PacedPeerPasses
<1> DEFINE Paced == \A c \in Conns : Refuses(c) =>
                      LET g == grants[peer[c]] IN
                      g # <<>> /\ (now - Last(g)) * MaxRPS < TicksPerSec
<1>1. LimiterInv /\ RateInv /\ [HNext]_hvars => [Paced]_hvars
  <2> SUFFICES ASSUME LimiterInv, RateInv, [HNext]_hvars,
                      NEW c \in Conns, Refuses(c)
               PROVE  LET g == grants[peer[c]] IN
                      g # <<>> /\ (now - Last(g)) * MaxRPS < TicksPerSec
    OBVIOUS
  <2> DEFINE ip == peer[c]
             s == perIP[ip]
             g == grants[ip]
             t == Refilled(ip, s)
             p == (now - lastAt[ip][s]) * MaxRPS
             q == p \div TicksPerSec
  <2>1. Bucket(c)
    BY BucketDecides DEF HNext, hvars
  <2>2. pc[c] = "bucket" /\ ip \in IPs /\ s \in Conns /\ ref[c] = s /\ MaxRPS > 0
    BY <2>1 DEF Bucket, LimiterInv, TypeOK, PeerInv, RefInv, RateInv
  <2>3. t < 1
    BY <2>1, <2>2 DEF Bucket, Refuses, LimiterInv, TypeOK
  <2>4. /\ q \in Int /\ t \in Int /\ p < q * TicksPerSec + TicksPerSec
        /\ t = MaxRPS \/ t = tokens[ip][s] + q
    <3>1. TypeOK
      BY DEF LimiterInv
    <3> QED  BY <2>2, <3>1, RefillBounds
  <2>5. tokens[ip][s] \in Int /\ tokens[ip][s] >= 0
    BY <2>2 DEF RateInv, Fresh, Used, LimiterInv, TypeOK
  <2>6. p \in Int /\ p < TicksPerSec
    <3>1. p \in Int
      BY <2>2, LimiterAssumption DEF LimiterInv, TypeOK
    <3> HIDE DEF p, q, t
    <3>2. q <= 0
      BY <2>2, <2>3, <2>4, <2>5, LimiterAssumption
    <3>3. q * TicksPerSec <= 0
      BY <3>2, <2>4, LimiterAssumption
    <3> QED  BY <3>1, <3>3, <2>4, LimiterAssumption
  <2>7. g # <<>>
    <3> SUFFICES ASSUME g = <<>> PROVE FALSE
      OBVIOUS
    <3>1. lastAt[ip][s] = 0 /\ now >= Epoch /\ now \in Nat
      BY <2>2 DEF RateInv, Fresh, LimiterInv, TypeOK
    <3>2. p = now * MaxRPS
      BY <3>1
    <3>3. now * MaxRPS >= now
      BY <3>1, <2>2, LimiterAssumption
    <3> HIDE DEF p
    <3> QED  BY <3>1, <3>2, <3>3, <2>6, LimiterAssumption
  <2>8. lastAt[ip][s] = Last(g)
    BY <2>2, <2>7 DEF RateInv, Used, Last
  <2> QED  BY <2>6, <2>7, <2>8
<1> QED  BY <1>1, HistoryInvariant, PTL DEF HSpec, PacedPeerPasses
=============================================================================
