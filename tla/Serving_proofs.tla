---------------------------- MODULE Serving_proofs ----------------------------
(***************************************************************************)
(* Proofs about Serving, with the RateLimit and the Shutdown it is made    *)
(* of, for any requests, limits, windows, stores and cleanups.             *)
(***************************************************************************)
EXTENDS Serving, TLAPS

-----------------------------------------------------------------------------
(* The types *)

RequestStates == {"idle", "arrived", "expire", "serving"}

\* A counter that is not there has no expiry, and only Redis is asked for one.
RateTypeOK ==
    /\ store \in {"memory", "redis"}
    /\ counter \in [count : 0 .. Limit + 1, ttl : 0 .. Forever]
    /\ counter.count = 0 => counter = NoCounter
    /\ request \in [Requests -> RequestStates]
    /\ admitted \in Seq(0 .. Window - 1) /\ losses \in Seq(0 .. Window - 1)
    /\ \A r \in Requests : request[r] = "expire" => store = "redis"

Phases == {"serving", "wait", "close", "drain", "returned", "exited", "panicked"}
CleanupStates == {"registered", "running", "draining", "ok", "failed"}

ShutdownTypeOK ==
    /\ phase \in Phases /\ outcome \in {"none", "completed", "timeout"}
    /\ cleanup \in [Cleanups -> CleanupStates]
    /\ errors \in Seq(Cleanups) /\ logged \subseteq Cleanups

-----------------------------------------------------------------------------
(* The windows *)

\* How long a counter lasts once its expiry is set.
Lifetime == IF store = "memory" THEN Window + 1 ELSE Window

\* As many as the limit, and once more for each of m losses.
Windows(m) == Limit + m * Limit

\* The i-th of the admitted, counted back from now, comes before m of the losses;
\* n are no more than these and one window account for.
Within(i, n) ==
    \E m \in 0 .. Len(losses) :
        (m = 0 \/ losses[m] <= admitted[i]) /\ n <= Windows(m)

\* The counter there is counted the k latest of the admitted after its first; the
\* others are as old as the counter or older.
SplitAt(k) ==
    /\ k < Limit /\ k < counter.count
    /\ \A i \in k + 1 .. Len(admitted) :
          admitted[i] + counter.ttl >= Lifetime /\ Within(i, i - k)

WindowInv ==
    IF counter.count = 0 THEN \A i \in 1 .. Len(admitted) : Within(i, i + 1)
    ELSE \E k \in 0 .. Len(admitted) : SplitAt(k)

\* A counter without an expiry is about to get one, or nobody gives it one.
ExpiryComes ==
    store = "redis" /\ counter.count > 0 /\ counter.ttl = Forever =>
        expiryLost \/ \E r \in Requests : request[r] = "expire"

RateInv == RateTypeOK /\ WindowInv /\ ExpiryComes

LEMMA Element ==
  ASSUME NEW S, NEW s \in Seq(S), NEW i \in 1 .. Len(s)
  PROVE  s[i] \in S
OBVIOUS

\* One more was let through.
OneMore == admitted' = <<0>> \o admitted

LEMMA AdmittedOneMore ==
  ASSUME RateTypeOK, OneMore
  PROVE  /\ admitted' \in Seq(0 .. Window - 1)
         /\ Len(admitted') = Len(admitted) + 1
         /\ admitted'[1] = 0
         /\ \A i \in 1 .. Len(admitted) : admitted'[i + 1] = admitted[i]
<1>1. /\ admitted \in Seq(0 .. Window - 1) /\ <<0>> \in Seq(0 .. Window - 1)
      /\ Len(<<0>>) = 1
  BY RateLimitAssumption DEF RateTypeOK
<1> QED
  BY <1>1 DEF OneMore

LEMMA WindowsGrow ==
  ASSUME NEW m \in Nat
  PROVE  /\ Limit \in Nat \ {0} /\ Windows(m) \in Nat /\ Limit <= Windows(m)
         /\ Windows(m + 1) = Windows(m) + Limit /\ Windows(0) = Limit
         /\ \A l \in Nat : m <= l => Windows(m) <= Windows(l)
<1>1. Limit \in Nat \ {0}
  BY RateLimitAssumption
<1>2. \A l \in Nat : l * Limit \in Nat /\ (l + 1) * Limit = l * Limit + Limit
  BY <1>1
<1>3. 0 * Limit = 0
  BY <1>1
<1>4. ASSUME NEW l \in Nat, m <= l PROVE Windows(m) <= Windows(l)
  <2>1. l - m \in Nat /\ l = m + (l - m)
    BY <1>4
  <2>2. l * Limit = m * Limit + (l - m) * Limit /\ (l - m) * Limit \in Nat
    BY <1>1, <2>1
  <2> QED
    BY <1>1, <1>2, <2>2 DEF Windows
<1> QED
  BY <1>1, <1>2, <1>3, <1>4 DEF Windows

\* Fewer are within as much, and so they are for a request that came as early.
LEMMA WithinKept ==
  ASSUME NEW i, NEW n \in Int, Within(i, n), NEW j, admitted'[j] = admitted[i],
         losses' = losses, NEW l \in Int, l <= n, losses \in Seq(0 .. Window - 1)
  PROVE  Within(j, l)'
<1>1. PICK m \in 0 .. Len(losses) : (m = 0 \/ losses[m] <= admitted[i]) /\ n <= Windows(m)
  BY DEF Within
<1>2. Windows(m) \in Nat /\ Windows(m)' = Windows(m)
  BY <1>1, WindowsGrow DEF Windows
<1>3. (m = 0 \/ losses'[m] <= admitted'[j]) /\ l <= Windows(m)
  BY <1>1, <1>2
<1> QED
  BY <1>1, <1>2, <1>3 DEF Within

\* Fewer than the limit are within one window.
LEMMA FewWithin ==
  ASSUME losses \in Seq(0 .. Window - 1), NEW n \in Nat, n < Limit
  PROVE  \A i \in 1 .. n : Within(i, i + 1)
<1> TAKE i \in 1 .. n
<1>1. 0 \in 0 .. Len(losses) /\ Windows(0) = Limit /\ Limit \in Nat
  BY WindowsGrow
<1>2. i + 1 <= Windows(0)
  BY <1>1
<1> QED
  BY <1>1, <1>2 DEF Within

LEMMA FewWithinNext ==
  ASSUME losses' \in Seq(0 .. Window - 1), NEW n \in Nat, n < Limit
  PROVE  \A i \in 1 .. n : Within(i, i + 1)'
<1> TAKE i \in 1 .. n
<1>1. /\ 0 \in 0 .. Len(losses') /\ Windows(0)' = Windows(0)
      /\ Windows(0) = Limit /\ Limit \in Nat
  BY WindowsGrow DEF Windows
<1>2. i + 1 <= Windows(0)
  BY <1>1
<1> QED
  BY <1>1, <1>2 DEF Within

\* A counter begins, with or without a request that it lets through, when the one
\* before it is over.
LEMMA NewCounter ==
  ASSUME RateTypeOK, \A i \in 1 .. Len(admitted) : Within(i, i + 1),
         store' = store, losses' = losses,
         counter' = [count |-> 1, ttl |-> counter'.ttl],
         counter'.ttl \in Lifetime .. Forever,
         OneMore \/ admitted' = admitted
  PROVE  WindowInv'
<1>1. /\ Limit \in Nat \ {0} /\ Window \in Nat \ {0}
      /\ counter'.count = 1 /\ counter'.ttl \in Nat /\ counter'.ttl >= Lifetime
      /\ Lifetime \in Nat /\ Lifetime' = Lifetime
      /\ admitted \in Seq(0 .. Window - 1) /\ losses \in Seq(0 .. Window - 1)
  BY RateLimitAssumption DEF RateTypeOK, Lifetime, Forever
<1>2. admitted' \in Seq(0 .. Window - 1)
  BY <1>1, AdmittedOneMore
<1>3. \A i \in 1 .. Len(admitted') : Within(i, i)'
  <2>1. CASE OneMore
    <3>1. /\ Len(admitted') = Len(admitted) + 1
          /\ \A i \in 1 .. Len(admitted) : admitted'[i + 1] = admitted[i]
      BY <2>1, AdmittedOneMore
    <3> TAKE i \in 1 .. Len(admitted')
    <3>2. CASE i = 1
      <4>1. 1 <= Windows(0) /\ Windows(0)' = Windows(0) /\ 0 \in 0 .. Len(losses')
        BY <1>1, WindowsGrow DEF Windows
      <4> QED
        BY <3>2, <4>1 DEF Within
    <3>3. CASE i # 1
      <4>1. i - 1 \in 1 .. Len(admitted) /\ i - 1 + 1 = i /\ i \in Int
        BY <1>1, <3>1, <3>3
      <4>2. admitted'[i] = admitted[i - 1] /\ Within(i - 1, i)
        BY <3>1, <4>1
      <4> QED
        BY <1>1, <4>1, <4>2, WithinKept
    <3> QED
      BY <3>2, <3>3
  <2>2. CASE admitted' = admitted
    <3> TAKE i \in 1 .. Len(admitted')
    <3>1. Within(i, i + 1) /\ i + 1 \in Int /\ i \in Int /\ i <= i + 1
      BY <1>1, <2>2
    <3> QED
      BY <1>1, <2>2, <3>1, WithinKept
  <2> QED
    BY <2>1, <2>2
<1>4. \A i \in 1 .. Len(admitted') : admitted'[i] + counter'.ttl >= Lifetime
  <2> TAKE i \in 1 .. Len(admitted')
  <2>1. admitted'[i] \in 0 .. Window - 1
    BY <1>2, Element
  <2> QED
    BY <1>1, <2>1
<1>5. SplitAt(0)'
  <2>1. \A i \in 0 + 1 .. Len(admitted') : i \in 1 .. Len(admitted') /\ i - 0 = i
    BY <1>2
  <2> QED
    BY <1>1, <1>3, <1>4, <2>1 DEF SplitAt
<1>6. 0 \in 0 .. Len(admitted') /\ counter'.count # 0
  BY <1>1, <1>2
<1> QED
  BY <1>5, <1>6 DEF WindowInv

\* The counter there is counts a request, and may let it through.
LEMMA OldCounter ==
  ASSUME RateTypeOK, WindowInv, counter.count > 0, store' = store, losses' = losses,
         counter' = [counter EXCEPT !.count = IF @ > Limit THEN @ ELSE @ + 1],
         (OneMore /\ counter'.count <= Limit) \/ admitted' = admitted
  PROVE  WindowInv'
<1>1. /\ Limit \in Nat \ {0} /\ Window \in Nat \ {0}
      /\ counter.count \in Nat /\ counter.ttl \in Nat
      /\ counter'.ttl = counter.ttl
      /\ counter'.count = IF counter.count > Limit THEN counter.count
                          ELSE counter.count + 1
      /\ Lifetime \in Nat /\ Lifetime' = Lifetime
  BY RateLimitAssumption DEF RateTypeOK, Lifetime, Forever
<1>2. PICK k \in 0 .. Len(admitted) : SplitAt(k)
  BY <1>1 DEF WindowInv
<1>3. /\ admitted \in Seq(0 .. Window - 1) /\ Len(admitted) \in Nat
      /\ losses \in Seq(0 .. Window - 1)
  BY DEF RateTypeOK
<1>4. CASE OneMore /\ counter'.count <= Limit
  <2>1. /\ Len(admitted') = Len(admitted) + 1
        /\ \A i \in 1 .. Len(admitted) : admitted'[i + 1] = admitted[i]
    BY <1>4, AdmittedOneMore
  <2>2. \A i \in k + 2 .. Len(admitted') :
          admitted'[i] + counter'.ttl >= Lifetime /\ Within(i, i - (k + 1))'
    <3> TAKE i \in k + 2 .. Len(admitted')
    <3>1. /\ i - 1 \in k + 1 .. Len(admitted) /\ i - 1 \in 1 .. Len(admitted)
          /\ i - 1 + 1 = i /\ i - 1 - k = i - (k + 1) /\ i - (k + 1) \in Int
      BY <1>2, <1>3, <2>1
    <3>2. admitted[i - 1] + counter.ttl >= Lifetime /\ Within(i - 1, i - 1 - k)
      BY <1>2, <3>1 DEF SplitAt
    <3>3. admitted'[i] = admitted[i - 1]
      BY <2>1, <3>1
    <3>4. Within(i, i - (k + 1))'
      <4> DEFINE n == i - (k + 1)
      <4>1. n \in Int /\ n <= n /\ Within(i - 1, n)
        BY <3>1, <3>2
      <4>2. Within(i, n)'
        BY <1>3, <3>3, <4>1, WithinKept
      <4> QED
        BY <4>2
    <3> QED
      BY <1>1, <3>2, <3>3, <3>4
  <2>3. SplitAt(k + 1)'
    <3>1. k + 1 < counter'.count /\ k + 1 < Limit
      BY <1>1, <1>2, <1>4 DEF SplitAt
    <3>3. k + 1 + 1 = k + 2
      BY <1>2
    <3> QED
      BY <1>1, <2>2, <3>1, <3>3 DEF SplitAt
  <2>4. k + 1 \in 0 .. Len(admitted') /\ counter'.count # 0
    BY <1>1, <1>2, <1>3, <2>1
  <2> QED
    BY <2>3, <2>4 DEF WindowInv
<1>5. CASE admitted' = admitted
  <2>1. \A i \in k + 1 .. Len(admitted) :
          admitted[i] + counter'.ttl >= Lifetime /\ Within(i, i - k)'
    <3> TAKE i \in k + 1 .. Len(admitted)
    <3>1. admitted[i] + counter.ttl >= Lifetime /\ Within(i, i - k) /\ i - k \in Int
      BY <1>2 DEF SplitAt
    <3> DEFINE n == i - k
    <3>2. Within(i, n)'
      <4>1. n \in Int /\ n <= n /\ Within(i, n)
        BY <3>1
      <4> QED
        BY <1>3, <1>5, <4>1, WithinKept
    <3> QED
      BY <1>1, <3>1, <3>2
  <2>2. SplitAt(k)'
    <3>1. k < counter'.count /\ k < Limit
      BY <1>1, <1>2 DEF SplitAt
    <3> QED
      BY <1>1, <1>5, <2>1, <3>1 DEF SplitAt
  <2> QED
    BY <1>1, <1>2, <1>5, <2>2 DEF WindowInv
<1> QED
  BY <1>4, <1>5

\* When the counter's lifetime is over, its first request and what was counted before
\* it are no longer in the window.
LEMMA CounterOver ==
  ASSUME RateTypeOK, WindowInv, store = "memory", counter.count = 0 \/ counter.ttl = 0
  PROVE  \A i \in 1 .. Len(admitted) : Within(i, i + 1)
<1>1. /\ Limit \in Nat \ {0} /\ Window \in Nat \ {0}
      /\ admitted \in Seq(0 .. Window - 1) /\ losses \in Seq(0 .. Window - 1)
  BY RateLimitAssumption DEF RateTypeOK
<1>2. CASE counter.count = 0
  BY <1>2 DEF WindowInv
<1>3. CASE counter.count # 0
  <2>1. PICK k \in 0 .. Len(admitted) : SplitAt(k)
    BY <1>3 DEF WindowInv
  <2>2. ASSUME k < Len(admitted) PROVE FALSE
    <3>1. Len(admitted) \in k + 1 .. Len(admitted) /\ Len(admitted) \in 1 .. Len(admitted)
      BY <1>1, <2>1, <2>2
    <3>2. admitted[Len(admitted)] + 0 >= Window + 1
      BY <1>3, <2>1, <3>1 DEF SplitAt, Lifetime
    <3>3. admitted[Len(admitted)] \in 0 .. Window - 1
      BY <1>1, <3>1
    <3> QED
      BY <1>1, <3>2, <3>3
  <2>3. Len(admitted) < Limit /\ Len(admitted) \in Nat
    BY <1>1, <2>1, <2>2 DEF SplitAt
  <2> QED
    BY <1>1, <2>3, FewWithin
<1> QED
  BY <1>2, <1>3

-----------------------------------------------------------------------------
(* The steps of the limiter *)

\* What a decision of the middleware does.
LEMMA CountedEffect ==
  ASSUME RateTypeOK, NEW r \in Requests, NEW count,
         NEW at \in {"expire", "serving"}, at = "expire" => store = "redis",
         store' = store, Counted(r, count, at)
  PROVE  /\ request' \in [Requests -> RequestStates]
         /\ admitted' \in Seq(0 .. Window - 1)
         /\ \A q \in Requests : request'[q] = "expire" => store' = "redis"
         /\ \A q \in Requests \ {r} : request'[q] = request[q]
         /\ count <= Limit => request'[r] = at /\ OneMore
         /\ ~(count <= Limit) => admitted' = admitted
<1>1. request \in [Requests -> RequestStates] /\ admitted \in Seq(0 .. Window - 1)
  BY DEF RateTypeOK
<1>2. CASE count <= Limit
  BY <1>1, <1>2, AdmittedOneMore DEF Counted, OneMore, RequestStates, RateTypeOK
<1>3. CASE ~(count <= Limit)
  BY <1>1, <1>3 DEF Counted, RequestStates, RateTypeOK
<1> QED
  BY <1>2, <1>3

LEMMA CounterTypes ==
  ASSUME RateTypeOK
  PROVE  /\ Limit \in Nat \ {0} /\ Window \in Nat \ {0} /\ Forever \in Nat
         /\ counter.count \in 0 .. Limit + 1 /\ counter.ttl \in 0 .. Forever
         /\ counter = [count |-> counter.count, ttl |-> counter.ttl]
         /\ NoCounter \in [count : 0 .. Limit + 1, ttl : 0 .. Forever]
         /\ \A n \in 0 .. Limit + 1, t \in 0 .. Forever :
              /\ [counter EXCEPT !.count = n]
                   = [count |-> n, ttl |-> counter.ttl]
              /\ [counter EXCEPT !.ttl = t] = [count |-> counter.count, ttl |-> t]
              /\ [count |-> n, ttl |-> t] \in [count : 0 .. Limit + 1, ttl : 0 .. Forever]
BY RateLimitAssumption DEF RateTypeOK, Forever, NoCounter

LEMMA MemoryIncrementKeeps ==
  ASSUME RateInv, NEW r \in Requests, MemoryIncrement(r)
  PROVE  RateInv'
<1>0. RateTypeOK /\ WindowInv
  BY DEF RateInv
<1>1. /\ Limit \in Nat \ {0} /\ Window \in Nat \ {0} /\ Forever = Window + 2
      /\ counter.count \in 0 .. Limit + 1 /\ counter.ttl \in 0 .. Forever
  BY <1>0, CounterTypes DEF Forever
<1>2. /\ store = "memory" /\ store' = store /\ Counted(r, counter'.count, "serving")
      /\ losses' = losses
  BY DEF MemoryIncrement, rateFixed
<1>3. CASE counter.count = 0 \/ counter.ttl = 0
  <2>1. counter' = [count |-> 1, ttl |-> Window + 1]
    BY <1>3 DEF MemoryIncrement
  <2>2. \A i \in 1 .. Len(admitted) : Within(i, i + 1)
    BY <1>0, <1>2, <1>3, CounterOver
  <2>3. counter'.count = 1 /\ counter'.ttl = Window + 1 /\ counter'.count <= Limit
    BY <1>1, <2>1
  <2>4. OneMore
    BY <1>0, <1>2, <2>3, CountedEffect
  <2>5. counter'.ttl \in Lifetime .. Forever
    BY <1>1, <1>2, <2>3 DEF Lifetime
  <2>6. WindowInv'
    BY <1>0, <1>2, <2>1, <2>2, <2>3, <2>4, <2>5, NewCounter
  <2>7. counter' \in [count : 0 .. Limit + 1, ttl : 0 .. Forever]
    BY <1>1, <2>1
  <2>8. RateTypeOK'
    BY <1>0, <1>2, <2>3, <2>7, CountedEffect DEF RateTypeOK, Forever
  <2> QED
    BY <1>2, <2>6, <2>8 DEF RateInv, ExpiryComes
<1>4. CASE ~(counter.count = 0 \/ counter.ttl = 0)
  <2>1. counter' = [counter EXCEPT !.count = IF @ > Limit THEN @ ELSE @ + 1]
    BY <1>4 DEF MemoryIncrement
  <2>2. WindowInv'
    BY <1>0, <1>1, <1>2, <1>4, <2>1, CountedEffect, OldCounter
  <2>3. counter' \in [count : 0 .. Limit + 1, ttl : 0 .. Forever] /\ counter'.count # 0
    BY <1>0, <1>1, <1>4, <2>1, CounterTypes
  <2>4. RateTypeOK'
    BY <1>0, <1>2, <2>3, CountedEffect DEF RateTypeOK, Forever
  <2> QED
    BY <1>2, <2>2, <2>4 DEF RateInv, ExpiryComes
<1> QED
  BY <1>3, <1>4

LEMMA RedisIncrementKeeps ==
  ASSUME RateInv, NEW r \in Requests, RedisIncrement(r)
  PROVE  RateInv'
<1>0. RateTypeOK /\ WindowInv
  BY DEF RateInv
<1>1. /\ Limit \in Nat \ {0} /\ Window \in Nat \ {0} /\ Forever = Window + 2
      /\ counter.count \in 0 .. Limit + 1 /\ counter.ttl \in 0 .. Forever
  BY <1>0, CounterTypes DEF Forever
<1>2. /\ store = "redis" /\ store' = store /\ request[r] = "arrived"
      /\ expiryLost' = expiryLost /\ losses' = losses
      /\ counter' = [counter EXCEPT !.count = IF @ > Limit THEN @ ELSE @ + 1]
  BY DEF RedisIncrement, rateFixed
<1>3. counter' \in [count : 0 .. Limit + 1, ttl : 0 .. Forever] /\ counter'.count # 0
  BY <1>0, <1>1, <1>2, CounterTypes
<1>4. CASE counter.count = 0
  <2>1. Counted(r, counter'.count, "expire")
    BY <1>4 DEF RedisIncrement
  <2>2. counter'.count = 1 /\ counter'.count <= Limit
    BY <1>0, <1>1, <1>2, <1>4, CounterTypes
  <2>3. request'[r] = "expire" /\ OneMore /\ RateTypeOK'
    BY <1>0, <1>2, <1>3, <2>1, <2>2, CountedEffect DEF RateTypeOK, Forever
  <2>4. /\ counter' = [count |-> 1, ttl |-> counter'.ttl]
        /\ counter'.ttl = Forever
    <3>1. counter = NoCounter
      BY <1>0, <1>4 DEF RateTypeOK
    <3> QED
      BY <1>1, <1>2, <3>1 DEF NoCounter
  <2>5. counter'.ttl \in Lifetime .. Forever
    BY <1>1, <1>2, <2>4 DEF Lifetime
  <2>6. \A i \in 1 .. Len(admitted) : Within(i, i + 1)
    BY <1>0, <1>4 DEF WindowInv
  <2>7. WindowInv'
    BY <1>0, <1>2, <2>3, <2>4, <2>5, <2>6, NewCounter
  <2>8. ExpiryComes'
    BY <2>3 DEF ExpiryComes
  <2> QED
    BY <2>3, <2>7, <2>8 DEF RateInv
<1>5. CASE counter.count # 0
  <2>1. Counted(r, counter'.count, "serving")
    BY <1>5 DEF RedisIncrement
  <2>2. RateTypeOK'
    BY <1>0, <1>2, <1>3, <2>1, CountedEffect DEF RateTypeOK, Forever
  <2>3. WindowInv'
    BY <1>0, <1>1, <1>2, <1>5, <2>1, CountedEffect, OldCounter
  <2>4. counter'.ttl = counter.ttl /\ counter.count > 0
    BY <1>0, <1>1, <1>2, <1>5, CounterTypes
  <2>5. ExpiryComes'
    BY <1>0, <1>2, <2>1, <2>4, CountedEffect DEF RateInv, ExpiryComes, Forever
  <2> QED
    BY <2>2, <2>3, <2>5 DEF RateInv
<1> QED
  BY <1>4, <1>5

LEMMA RedisExpireKeeps ==
  ASSUME RateInv, NEW r \in Requests, RedisExpire(r)
  PROVE  RateInv'
<1>0. RateTypeOK /\ WindowInv
  BY DEF RateInv
<1>1. /\ Limit \in Nat \ {0} /\ Window \in Nat \ {0} /\ Forever = Window + 2
      /\ counter.count \in 0 .. Limit + 1 /\ counter.ttl \in 0 .. Forever
  BY <1>0, CounterTypes DEF Forever
<1>2. /\ store = "redis" /\ store' = store /\ admitted' = admitted /\ losses' = losses
      /\ request' = [request EXCEPT ![r] = "serving"]
  BY <1>0 DEF RedisExpire, rateFixed, RateTypeOK
<1>3. CASE counter' = counter /\ (expiryLost' \/ counter.count = 0)
  BY <1>0, <1>2, <1>3
     DEF RateInv, RateTypeOK, WindowInv, SplitAt, Within, Windows, Lifetime, ExpiryComes,
         RequestStates, Forever, NoCounter
<1>4. CASE counter.count # 0 /\ counter' = [counter EXCEPT !.ttl = Window]
  <2>1. /\ counter'.count = counter.count /\ counter'.ttl = Window
        /\ counter' \in [count : 0 .. Limit + 1, ttl : 0 .. Forever]
    BY <1>0, <1>1, <1>4, CounterTypes
  <2>2. PICK k \in 0 .. Len(admitted) : SplitAt(k)
    BY <1>0, <1>4 DEF WindowInv
  <2>3. admitted \in Seq(0 .. Window - 1) /\ Lifetime = Window /\ Lifetime' = Window
    BY <1>0, <1>2 DEF RateTypeOK, Lifetime
  <2>4. \A i \in k + 1 .. Len(admitted) :
          admitted[i] + Window >= Window /\ Within(i, i - k)'
    <3> TAKE i \in k + 1 .. Len(admitted)
    <3>1. admitted[i] \in 0 .. Window - 1
      BY <1>1, <2>2, <2>3
    <3>2. Within(i, i - k)'
      BY <1>2, <2>2 DEF SplitAt, Within, Windows
    <3> QED
      BY <1>1, <3>1, <3>2
  <2>5. SplitAt(k)'
    BY <1>2, <2>1, <2>2, <2>3, <2>4 DEF SplitAt
  <2>6. WindowInv'
    BY <1>2, <1>4, <2>1, <2>2, <2>5 DEF WindowInv
  <2>7. RateTypeOK'
    BY <1>0, <1>2, <1>4, <2>1 DEF RateTypeOK, RequestStates, Forever
  <2>8. ExpiryComes'
    BY <1>1, <2>1 DEF ExpiryComes, Forever
  <2> QED
    BY <2>6, <2>7, <2>8 DEF RateInv
<1> QED
  BY <1>3, <1>4 DEF RedisExpire

\* What was within the losses and one window is so a tick later.
LEMMA WithinTick ==
  ASSUME RateTypeOK, Older(losses, losses'),
         NEW i, NEW n \in Int, Within(i, n), admitted[i] \in 0 .. Window - 2,
         admitted'[i] = admitted[i] + 1
  PROVE  Within(i, n)'
<1>1. PICK m \in 0 .. Len(losses) : (m = 0 \/ losses[m] <= admitted[i]) /\ n <= Windows(m)
  BY DEF Within
<1>2. Windows(m)' = Windows(m) /\ Window \in Nat \ {0}
      /\ losses \in Seq(0 .. Window - 1)
  BY RateLimitAssumption DEF Windows, RateTypeOK
<1>3. PICK l \in 0 .. Len(losses) :
        /\ \A j \in DOMAIN losses : j <= l <=> losses[j] < Window - 1
        /\ losses' = [j \in 1 .. l |-> losses[j] + 1]
  BY DEF Older
<1>4. Len(losses') = l
  BY <1>3
<1>5. CASE m = 0
  BY <1>1, <1>2, <1>3, <1>4, <1>5 DEF Within
<1>6. CASE m # 0
  <2>1. m \in 1 .. Len(losses) /\ losses[m] \in 0 .. Window - 1 /\ losses[m] <= admitted[i]
    BY <1>1, <1>2, <1>6
  <2>2. m <= l
    BY <1>2, <1>3, <2>1
  <2>3. losses'[m] = losses[m] + 1 /\ m \in 0 .. Len(losses')
    BY <1>1, <1>3, <1>4, <1>6, <2>2
  <2>4. losses'[m] <= admitted'[i]
    BY <1>2, <2>1, <2>3
  <2> QED
    BY <1>1, <1>2, <2>3, <2>4 DEF Within
<1> QED
  BY <1>5, <1>6

\* Ages grow, and stay below the window.
LEMMA OlderAges ==
  ASSUME NEW ages \in Seq(0 .. Window - 1), NEW older, Older(ages, older)
  PROVE  /\ older \in Seq(0 .. Window - 1) /\ Len(older) <= Len(ages)
         /\ \A i \in 1 .. Len(older) :
              i \in 1 .. Len(ages) /\ older[i] = ages[i] + 1 /\ ages[i] \in 0 .. Window - 2
<1>1. Window \in Nat \ {0}
  BY RateLimitAssumption
<1>2. PICK n \in 0 .. Len(ages) :
        /\ \A i \in DOMAIN ages : i <= n <=> ages[i] < Window - 1
        /\ older = [i \in 1 .. n |-> ages[i] + 1]
  BY DEF Older
<1>3. \A i \in 1 .. n : /\ i \in 1 .. Len(ages) /\ older[i] = ages[i] + 1
                        /\ ages[i] \in 0 .. Window - 2 /\ older[i] \in 0 .. Window - 1
  <2> TAKE i \in 1 .. n
  <2>1. i \in DOMAIN ages /\ i <= n /\ ages[i] \in 0 .. Window - 1
    BY <1>1
  <2> QED
    BY <1>1, <1>2, <2>1
<1>4. older \in Seq(0 .. Window - 1) /\ Len(older) = n
  BY <1>2, <1>3
<1> QED
  BY <1>3, <1>4

\* Time: the admitted and the losses grow older, and so does the counter.
LEMMA TickKeeps ==
  ASSUME RateInv, Tick
  PROVE  RateInv'
<1>0. RateTypeOK /\ WindowInv
  BY DEF RateInv
<1>1. /\ Limit \in Nat \ {0} /\ Window \in Nat \ {0} /\ Forever = Window + 2
      /\ counter.count \in 0 .. Limit + 1 /\ counter.ttl \in 0 .. Forever
      /\ admitted \in Seq(0 .. Window - 1) /\ losses \in Seq(0 .. Window - 1)
  BY <1>0, CounterTypes DEF Forever, RateTypeOK
<1>2. /\ store' = store /\ request' = request /\ expiryLost' = expiryLost
      /\ Older(admitted, admitted') /\ Older(losses, losses')
      /\ counter' = IF counter.count = 0 \/ counter.ttl \in {0, Forever} THEN counter
                    ELSE IF store = "redis" /\ counter.ttl = 1 THEN NoCounter
                    ELSE [counter EXCEPT !.ttl = @ - 1]
  BY DEF Tick, rateFixed
<1>a. /\ admitted' \in Seq(0 .. Window - 1) /\ losses' \in Seq(0 .. Window - 1)
      /\ Len(admitted') \in Nat /\ Len(admitted') <= Len(admitted)
      /\ Len(admitted) \in Nat
      /\ \A i \in 1 .. Len(admitted') :
            /\ i \in 1 .. Len(admitted) /\ admitted'[i] = admitted[i] + 1
            /\ admitted[i] \in 0 .. Window - 2
  BY <1>1, <1>2, OlderAges
<1>b. PICK n \in Nat : n = Len(admitted')
  BY <1>a
<1>3. /\ admitted' \in Seq(0 .. Window - 1) /\ losses' \in Seq(0 .. Window - 1)
      /\ n = Len(admitted') /\ n <= Len(admitted) /\ Len(admitted) \in Nat
      /\ \A i \in 1 .. n : /\ i \in 1 .. Len(admitted) /\ admitted'[i] = admitted[i] + 1
                           /\ admitted[i] \in 0 .. Window - 2
  BY <1>a, <1>b
<1>4. \A i \in 1 .. n, b \in Int : Within(i, b) => Within(i, b)'
  BY <1>0, <1>2, <1>3, WithinTick
<1>5. CASE counter.count = 0
  <2>1. \A i \in 1 .. n : Within(i, i + 1)'
    <3> TAKE i \in 1 .. n
    <3>1. Within(i, i + 1) /\ i + 1 \in Int
      BY <1>0, <1>3, <1>5 DEF WindowInv
    <3> QED
      BY <1>4, <3>1
  <2>2. counter' = counter
    BY <1>2, <1>5
  <2>3. WindowInv'
    BY <1>3, <1>5, <2>1, <2>2 DEF WindowInv
  <2> QED
    BY <1>0, <1>2, <1>3, <1>5, <2>2, <2>3
       DEF RateInv, RateTypeOK, ExpiryComes, Forever, NoCounter
<1>6. CASE counter.count # 0
  <2>1. PICK k \in 0 .. Len(admitted) : SplitAt(k)
    BY <1>0, <1>6 DEF WindowInv
  <2>2. \A i \in k + 1 .. n : admitted[i] + counter.ttl >= Lifetime /\ Within(i, i - k)'
    <3> TAKE i \in k + 1 .. n
    <3>1. i \in k + 1 .. Len(admitted) /\ i \in 1 .. n /\ i - k \in Int
      BY <1>3, <2>1
    <3> QED
      BY <1>4, <2>1, <3>1 DEF SplitAt
  <2>3. Lifetime \in Nat /\ Lifetime' = Lifetime
    BY <1>1, <1>2 DEF Lifetime
  <2>4. CASE store = "redis" /\ counter.ttl = 1 /\ counter' = NoCounter
    <3>1. ASSUME k < n PROVE FALSE
      <4>1. n \in k + 1 .. n /\ n \in 1 .. n
        BY <1>3, <2>1, <3>1
      <4>2. admitted[n] + 1 >= Window
        BY <2>2, <2>4, <4>1 DEF Lifetime
      <4>3. admitted[n] \in 0 .. Window - 2
        BY <1>3, <4>1
      <4> QED
        BY <1>1, <4>2, <4>3
    <3>2. n < Limit
      BY <1>1, <1>3, <2>1, <3>1 DEF SplitAt
    <3>3. \A i \in 1 .. n : Within(i, i + 1)'
      BY <1>3, <3>2, FewWithinNext
    <3>4. WindowInv'
      BY <1>3, <2>4, <3>3 DEF WindowInv, NoCounter
    <3>5. counter' \in [count : 0 .. Limit + 1, ttl : 0 .. Forever]
      BY <1>0, <2>4, CounterTypes
    <3> QED
      BY <1>0, <1>2, <1>3, <2>4, <3>4, <3>5
         DEF RateInv, RateTypeOK, ExpiryComes, Forever, NoCounter
  <2>5. CASE /\ counter'.count = counter.count
             /\ counter'.ttl \in {counter.ttl, counter.ttl - 1} \cap (0 .. Forever)
             /\ counter' \in [count : 0 .. Limit + 1, ttl : 0 .. Forever]
             /\ counter'.ttl = Forever => counter.ttl = Forever
    <3>0. counter.ttl \in Nat /\ counter'.ttl \in Nat /\ counter'.ttl + 1 >= counter.ttl
      BY <1>1, <2>5
    <3>1. \A i \in k + 1 .. n : admitted'[i] + counter'.ttl >= Lifetime
      <4> TAKE i \in k + 1 .. n
      <4>1. i \in 1 .. n
        BY <1>3, <2>1
      <4>2. /\ admitted[i] \in Nat /\ admitted'[i] = admitted[i] + 1
            /\ admitted[i] + counter.ttl >= Lifetime
        BY <1>1, <1>3, <2>2, <4>1
      <4> QED
        BY <2>3, <3>0, <4>2
    <3>2. PICK m \in 0 .. n : m = IF k <= n THEN k ELSE n
      BY <1>3, <2>1
    <3>3. m < Limit /\ m < counter'.count /\ \A i \in m + 1 .. n : m = k
      <4>1. k \in Nat /\ k < Limit /\ k < counter'.count /\ counter'.count \in Nat
        BY <1>1, <1>3, <2>1, <2>5 DEF SplitAt
      <4>2. CASE k <= n
        BY <3>2, <4>1, <4>2
      <4>3. CASE ~(k <= n)
        BY <1>1, <3>2, <4>1, <4>3
      <4> QED
        BY <4>2, <4>3
    <3>4. \A i \in m + 1 .. n : admitted'[i] + counter'.ttl >= Lifetime' /\ Within(i, i - m)'
      BY <2>2, <2>3, <3>1, <3>2, <3>3
    <3>5. WindowInv'
      <4>1. SplitAt(m)'
        BY <1>3, <3>3, <3>4 DEF SplitAt
      <4> QED
        BY <1>3, <1>6, <2>5, <3>2, <4>1 DEF WindowInv
    <3>6. RateTypeOK'
      BY <1>0, <1>2, <1>3, <1>6, <2>5 DEF RateTypeOK, Forever
    <3>7. ExpiryComes'
      BY <1>2, <2>5 DEF RateInv, ExpiryComes, Forever
    <3> QED
      BY <3>5, <3>6, <3>7 DEF RateInv
  <2>6. CASE counter.ttl \in {0, Forever}
    BY <1>0, <1>2, <2>5, <2>6 DEF RateTypeOK
  <2>7. CASE /\ counter.ttl \notin {0, Forever}
             /\ counter' = [counter EXCEPT !.ttl = @ - 1]
    <3>1. counter.ttl - 1 \in 0 .. Forever /\ counter.ttl - 1 # Forever
      BY <1>1, <2>7
    <3>2. /\ counter' = [count |-> counter.count, ttl |-> counter.ttl - 1]
          /\ counter' \in [count : 0 .. Limit + 1, ttl : 0 .. Forever]
      BY <1>0, <1>1, <2>7, <3>1, CounterTypes
    <3> QED
      BY <2>5, <3>1, <3>2
  <2> QED
    BY <1>2, <1>6, <2>4, <2>6, <2>7
<1> QED
  BY <1>5, <1>6

\* INCR takes effect and its reply is lost.
LEMMA ReplyLostKeeps ==
  ASSUME RateInv, store = "redis", ReplyLost, store' = store, admitted' = admitted,
         losses' = losses, request' \in [Requests -> RequestStates],
         \A q \in Requests : request'[q] = "expire" <=> request[q] = "expire"
  PROVE  RateInv'
<1>0. RateTypeOK /\ WindowInv /\ ExpiryComes
  BY DEF RateInv
<1>1. /\ Limit \in Nat \ {0} /\ Window \in Nat \ {0} /\ Forever = Window + 2
      /\ counter.count \in 0 .. Limit + 1 /\ counter.ttl \in 0 .. Forever
  BY <1>0, CounterTypes DEF Forever
<1>2. /\ counter' = [counter EXCEPT !.count = IF @ > Limit THEN @ ELSE @ + 1]
      /\ expiryLost' = (expiryLost \/ counter.count = 0)
  BY DEF ReplyLost
<1>3. /\ counter' \in [count : 0 .. Limit + 1, ttl : 0 .. Forever]
      /\ counter'.count # 0 /\ counter'.ttl = counter.ttl
  BY <1>0, <1>1, <1>2, CounterTypes
<1>4. RateTypeOK'
  BY <1>0, <1>3 DEF RateTypeOK, Forever
<1>5. CASE counter.count = 0
  <2>1. counter' = [count |-> 1, ttl |-> counter'.ttl] /\ counter'.ttl = Forever
    <3>1. counter = NoCounter
      BY <1>0, <1>5 DEF RateTypeOK
    <3> QED
      BY <1>1, <1>2, <3>1 DEF NoCounter
  <2>2. counter'.ttl \in Lifetime .. Forever
    BY <1>1, <2>1 DEF Lifetime
  <2>3. \A i \in 1 .. Len(admitted) : Within(i, i + 1)
    BY <1>0, <1>5 DEF WindowInv
  <2>4. WindowInv'
    BY <1>0, <2>1, <2>2, <2>3, NewCounter
  <2> QED
    BY <1>2, <1>4, <1>5, <2>4 DEF RateInv, ExpiryComes
<1>6. CASE counter.count # 0
  <2>1. WindowInv'
    BY <1>0, <1>1, <1>2, <1>6, OldCounter
  <2>2. counter.count > 0
    BY <1>1, <1>6
  <2>3. ExpiryComes'
    BY <1>0, <1>2, <1>3, <2>2 DEF ExpiryComes, Forever
  <2> QED
    BY <1>4, <2>1, <2>3 DEF RateInv
<1> QED
  BY <1>5, <1>6

\* What the other actions of the server may change for the limiter.
LEMMA OtherRequestsKeep ==
  ASSUME RateInv, NEW r \in Requests,
         Arrive(r) \/ Uncounted(r) \/ Resend(r) \/ Served(r)
  PROVE  RateInv'
<1>1. /\ store' = store /\ admitted' = admitted /\ losses' = losses
      /\ request[r] # "expire"
      /\ \E s \in {"idle", "arrived", "serving"} : request' = [request EXCEPT ![r] = s]
  <2>1. CASE Arrive(r) \/ Uncounted(r) \/ Served(r)
    BY <2>1 DEF Arrive, Uncounted, Served, rateFixed
  <2>2. CASE Resend(r)
    <3>1. request' = [request EXCEPT ![r] = "arrived"]
      BY <2>2 DEF Resend, RateInv, RateTypeOK
    <3> QED
      BY <2>2, <3>1 DEF Resend, rateFixed
  <2> QED
    BY <2>1, <2>2
<1>2. RateTypeOK /\ WindowInv /\ ExpiryComes
  BY DEF RateInv
<1>3. /\ request' \in [Requests -> RequestStates]
      /\ \A q \in Requests : request'[q] = "expire" <=> request[q] = "expire"
  BY <1>1, <1>2 DEF RateTypeOK, RequestStates
<1>4. CASE store = "redis" /\ ReplyLost
  BY <1>1, <1>3, <1>4, ReplyLostKeeps
<1>5. CASE counter' = counter /\ expiryLost' = expiryLost
  <2>1. RateTypeOK'
    BY <1>1, <1>2, <1>3, <1>5 DEF RateTypeOK, Forever, NoCounter
  <2>2. WindowInv'
    BY <1>1, <1>2, <1>5 DEF WindowInv, SplitAt, Within, Windows, Lifetime
  <2>3. ExpiryComes'
    BY <1>1, <1>2, <1>3, <1>5 DEF ExpiryComes, Forever
  <2> QED
    BY <2>1, <2>2, <2>3 DEF RateInv
<1> QED
  BY <1>4, <1>5 DEF Arrive, Uncounted, Resend, Served

LEMMA CleanupKeeps == RateInv /\ Cleanup => RateInv'
<1> SUFFICES ASSUME RateInv, Cleanup PROVE RateInv'
  OBVIOUS
<1>1. RateTypeOK /\ WindowInv
  BY DEF RateInv
<1>2. \A i \in 1 .. Len(admitted) : Within(i, i + 1)
  BY <1>1, CounterOver DEF Cleanup
<1>3. counter' = NoCounter /\ NoCounter \in [count : 0 .. Limit + 1, ttl : 0 .. Forever]
  BY <1>1, CounterTypes DEF Cleanup
<1>4. store = "memory" /\ store' = store /\ request' = request /\ admitted' = admitted
      /\ losses' = losses
  BY DEF Cleanup, rateFixed
<1>5. RateTypeOK'
  BY <1>1, <1>3, <1>4 DEF RateTypeOK, NoCounter, Forever
<1>6. WindowInv' /\ ExpiryComes'
  BY <1>2, <1>3, <1>4 DEF WindowInv, Within, Windows, ExpiryComes, NoCounter
<1> QED
  BY <1>5, <1>6 DEF RateInv

\* A restart that loses a counter accounts for one window more.
LEMMA CounterLost ==
  ASSUME RateTypeOK, WindowInv, losses' = << 0 >> \o losses, admitted' = admitted
  PROVE  /\ losses' \in Seq(0 .. Window - 1)
         /\ \A i \in 1 .. Len(admitted) : Within(i, i + 1)'
<1>1. /\ losses \in Seq(0 .. Window - 1) /\ <<0>> \in Seq(0 .. Window - 1)
      /\ Len(<<0>>) = 1 /\ admitted \in Seq(0 .. Window - 1)
      /\ Limit \in Nat \ {0} /\ Window \in Nat \ {0}
  BY RateLimitAssumption DEF RateTypeOK
<1>2. /\ losses' \in Seq(0 .. Window - 1) /\ Len(losses') = Len(losses) + 1
      /\ losses'[1] = 0
      /\ \A m \in 1 .. Len(losses) : losses'[m + 1] = losses[m]
  BY <1>1
<1>3. ASSUME NEW i \in 1 .. Len(admitted) PROVE Within(i, i + 1)'
  <2>0. admitted[i] \in 0 .. Window - 1 /\ Len(losses) \in Nat /\ i \in Nat
    BY <1>1, <1>3
  <2>1. CASE counter.count = 0
    <3>1. PICK m \in 0 .. Len(losses) :
            (m = 0 \/ losses[m] <= admitted[i]) /\ i + 1 <= Windows(m)
      BY <1>3, <2>1 DEF WindowInv, Within
    <3>2. /\ m + 1 \in 0 .. Len(losses') /\ losses'[m + 1] <= admitted[i]
          /\ i + 1 <= Windows(m + 1)
      <4>1. /\ m \in Nat /\ Windows(m) \in Nat /\ Windows(m + 1) = Windows(m) + Limit
        BY <2>0, <3>1, WindowsGrow
      <4>2. m + 1 \in 0 .. Len(losses') /\ losses'[m + 1] <= admitted[i]
        <5>1. CASE m = 0
          BY <1>2, <2>0, <5>1
        <5>2. CASE m # 0
          BY <1>2, <2>0, <3>1, <5>2
        <5> QED
          BY <5>1, <5>2
      <4> QED
        BY <1>1, <2>0, <3>1, <4>1, <4>2
    <3>3. Windows(m + 1)' = Windows(m + 1)
      BY DEF Windows
    <3> QED
      BY <3>2, <3>3 DEF Within
  <2>2. CASE counter.count # 0
    <3>1. PICK k \in 0 .. Len(admitted) : SplitAt(k)
      BY <2>2 DEF WindowInv
    <3>2. CASE i <= k
      <4>1. /\ i + 1 <= Windows(0) /\ 0 \in 0 .. Len(losses')
            /\ Windows(0)' = Windows(0)
        BY <1>1, <1>2, <2>0, <3>1, <3>2, WindowsGrow DEF SplitAt, Windows
      <4> QED
        BY <4>1 DEF Within
    <3>3. CASE i > k
      <4>1. PICK m \in 0 .. Len(losses) :
              (m = 0 \/ losses[m] <= admitted[i]) /\ i - k <= Windows(m)
        BY <1>1, <1>3, <2>0, <3>1, <3>3 DEF SplitAt, Within
      <4>2. /\ m + 1 \in 0 .. Len(losses') /\ losses'[m + 1] <= admitted[i]
            /\ Windows(m + 1) = Windows(m) + Limit /\ Windows(m) \in Nat
        <5>1. /\ m \in Nat /\ Windows(m) \in Nat /\ Windows(m + 1) = Windows(m) + Limit
          BY <2>0, <4>1, WindowsGrow
        <5>2. CASE m = 0
          BY <1>1, <1>2, <2>0, <4>1, <5>1, <5>2
        <5>3. CASE m # 0
          BY <1>1, <1>2, <2>0, <4>1, <5>1, <5>3
        <5> QED
          BY <5>2, <5>3
      <4>3. k < Limit
        BY <3>1 DEF SplitAt
      <4>4. i + 1 <= Windows(m + 1)
        BY <1>1, <2>0, <3>1, <4>1, <4>2, <4>3
      <4>5. Windows(m + 1)' = Windows(m + 1)
        BY DEF Windows
      <4> QED
        BY <4>2, <4>4, <4>5 DEF Within
    <3> QED
      BY <1>1, <2>0, <3>1, <3>2, <3>3
  <2> QED
    BY <2>1, <2>2
<1> QED
  BY <1>2, <1>3

LEMMA RestartKeeps == RateInv /\ LimiterRestarts => RateInv'
<1> SUFFICES ASSUME RateInv, LimiterRestarts PROVE RateInv'
  OBVIOUS
<1>1. RateTypeOK /\ WindowInv /\ ExpiryComes
  BY DEF RateInv
<1>2. /\ store' = store /\ request' = [r \in Requests |-> "idle"]
      /\ expiryLost' = (expiryLost \/ \E r \in Requests : request[r] = "expire")
      /\ admitted' = admitted
  BY DEF LimiterRestarts
<1>3. CASE counter' = counter
  <2>1. losses' = losses
    BY <1>3 DEF LimiterRestarts
  <2>2. RateTypeOK'
    BY <1>1, <1>2, <1>3, <2>1 DEF RateTypeOK, RequestStates, Forever, NoCounter
  <2>3. WindowInv'
    BY <1>1, <1>2, <1>3, <2>1 DEF WindowInv, SplitAt, Within, Windows, Lifetime
  <2>4. ExpiryComes'
    BY <1>1, <1>2, <1>3, <2>1 DEF ExpiryComes, Forever
  <2> QED
    BY <2>2, <2>3, <2>4 DEF RateInv
<1>4. CASE counter' # counter
  <2>1. store = "memory" /\ counter' = NoCounter /\ losses' = <<0>> \o losses
    BY <1>4 DEF LimiterRestarts
  <2>2. /\ NoCounter \in [count : 0 .. Limit + 1, ttl : 0 .. Forever]
        /\ NoCounter.count = 0
    BY <1>1, CounterTypes DEF NoCounter
  <2>3. /\ losses' \in Seq(0 .. Window - 1)
        /\ \A i \in 1 .. Len(admitted) : Within(i, i + 1)'
    BY <1>1, <1>2, <2>1, CounterLost
  <2>4. RateTypeOK'
    BY <1>1, <1>2, <2>1, <2>2, <2>3 DEF RateTypeOK, RequestStates, Forever, NoCounter
  <2>5. WindowInv' /\ ExpiryComes'
    BY <1>2, <2>1, <2>2, <2>3 DEF WindowInv, ExpiryComes
  <2> QED
    BY <2>4, <2>5 DEF RateInv
<1> QED
  BY <1>3, <1>4

LEMMA RateUnchanged == RateInv /\ UNCHANGED rateVars => RateInv'
BY DEF RateInv, RateTypeOK, WindowInv, SplitAt, Within, Windows, Lifetime, ExpiryComes,
       Forever, NoCounter, rateVars

LEMMA RateInvInit == RateInit => RateInv
<1> SUFFICES ASSUME RateInit PROVE RateInv
  OBVIOUS
<1>1. /\ store \in {"memory", "redis"} /\ counter = NoCounter
      /\ request = [r \in Requests |-> "idle"] /\ admitted = <<>> /\ losses = <<>>
      /\ Limit \in Nat \ {0} /\ Window \in Nat \ {0}
  BY RateLimitAssumption DEF RateInit
<1>2. RateTypeOK
  BY <1>1 DEF RateTypeOK, RequestStates, NoCounter, Forever
<1>3. WindowInv /\ ExpiryComes
  BY <1>1 DEF WindowInv, ExpiryComes, NoCounter
<1> QED
  BY <1>2, <1>3 DEF RateInv

\* The steps of the server, for the limiter.
LEMMA RateNext == RateInv /\ [Next]_vars => RateInv'
<1> SUFFICES ASSUME RateInv, [Next]_vars PROVE RateInv'
  OBVIOUS
<1>1. ASSUME NEW r \in Requests,
             Accept(r) \/ Handle(r) \/ HandleAgain(r) \/ Respond(r)
      PROVE  RateInv'
  BY <1>1, MemoryIncrementKeeps, RedisIncrementKeeps, RedisExpireKeeps,
     OtherRequestsKeep DEF Accept, Handle, HandleAgain, Respond, RequestStep
<1>2. CASE Time
  BY <1>2, TickKeeps, CleanupKeeps DEF Time
<1>3. CASE Stop \/ CloseListener \/ StopServer \/ Handler \/ Timeout
  BY <1>3, RateUnchanged DEF Stop, CloseListener, StopServer, Handler, Timeout
<1>4. ASSUME NEW c \in Cleanups \ {"http-server"}, OtherCleanup(c) PROVE RateInv'
  <2>1. /\ store' = store /\ counter' = counter /\ request' = request
        /\ admitted' = admitted /\ losses' = losses /\ expiryLost' = expiryLost
    BY <1>4 DEF OtherCleanup, rateFixed
  <2> QED
    BY <2>1 DEF RateInv, RateTypeOK, WindowInv, SplitAt, Within, Windows, Lifetime,
                ExpiryComes, Forever, NoCounter
<1>5. CASE Restart
  BY <1>5, RestartKeeps DEF Restart
<1>6. CASE UNCHANGED vars
  BY <1>6, RateUnchanged DEF vars
<1> QED
  BY <1>1, <1>2, <1>3, <1>4, <1>5, <1>6 DEF Next

\* Increment, with either store: a span of one window lets through less than twice
\* the limit by count, and for each restart in it that lost the memory store's counter
\* at most the limit more.
THEOREM NoThirdWindow == Spec => []AtMostTwoWindows
<1>1. RateInv => AtMostTwoWindows
  <2> SUFFICES ASSUME RateInv PROVE Len(admitted) < (2 + Len(losses)) * Limit
    BY DEF AtMostTwoWindows
  <2>1. /\ Limit \in Nat \ {0} /\ Len(admitted) \in Nat /\ Len(losses) \in Nat
        /\ admitted \in Seq(0 .. Window - 1)
    BY RateLimitAssumption DEF RateInv, RateTypeOK
  <2>2. (2 + Len(losses)) * Limit = Windows(Len(losses)) + Limit
    BY <2>1 DEF Windows
  <2>3. Windows(Len(losses)) \in Nat
    BY <2>1, WindowsGrow
  <2>4. ASSUME NEW i, NEW n \in Int, Within(i, n) PROVE n <= Windows(Len(losses))
    <3>1. PICK m \in 0 .. Len(losses) : n <= Windows(m)
      BY <2>4 DEF Within
    <3>2. Windows(m) \in Nat /\ Windows(m) <= Windows(Len(losses))
      BY <2>1, <3>1, WindowsGrow
    <3> QED
      BY <2>3, <3>1, <3>2
  <2>5. CASE Len(admitted) = 0
    BY <2>1, <2>2, <2>3, <2>5
  <2>6. CASE Len(admitted) # 0 /\ counter.count = 0
    <3>1. Within(Len(admitted), Len(admitted) + 1)
      BY <2>1, <2>6 DEF RateInv, WindowInv
    <3> QED
      BY <2>1, <2>2, <2>3, <2>4, <3>1
  <2>7. CASE Len(admitted) # 0 /\ counter.count # 0
    <3>1. PICK k \in 0 .. Len(admitted) : SplitAt(k)
      BY <2>7 DEF RateInv, WindowInv
    <3>2. CASE k = Len(admitted)
      BY <2>1, <2>2, <2>3, <3>1, <3>2 DEF SplitAt
    <3>3. CASE k # Len(admitted)
      <4>1. Within(Len(admitted), Len(admitted) - k) /\ k < Limit
        BY <2>1, <3>1, <3>3 DEF SplitAt
      <4>2. Len(admitted) - k <= Windows(Len(losses))
        BY <2>1, <2>4, <3>1, <4>1
      <4> QED
        BY <2>1, <2>2, <2>3, <3>1, <4>1, <4>2
    <3> QED
      BY <3>2, <3>3
  <2> QED
    BY <2>5, <2>6, <2>7
<1>2. Init => RateInv
  BY RateInvInit DEF Init
<1> QED
  BY <1>1, <1>2, RateNext, PTL DEF Spec

-----------------------------------------------------------------------------
(* The shutdown *)

Failed == {c \in Cleanups : cleanup[c] = "failed"}
InChannel == {errors[i] : i \in DOMAIN errors}

\* An error is in the channel until it is logged, and the handler returns when the
\* channel is empty; what it reports as complete is complete.
ShutdownInv ==
    /\ ShutdownTypeOK
    /\ phase = "serving" => \A c \in Cleanups : cleanup[c] = "registered"
    /\ phase \in {"serving", "wait"} => outcome = "none"
    /\ phase \in {"close", "drain", "returned", "exited"} => outcome # "none"
    /\ phase = "panicked" => outcome = "timeout"
    /\ outcome = "completed" => \A c \in Cleanups : Ended(c)
    /\ phase # "panicked" => InChannel \cup logged = Failed
    /\ phase \in {"returned", "exited"} => errors = <<>>

\* http.Server.Shutdown has nothing left to serve when it succeeds.
DrainedInv ==
    /\ request \in [Requests -> RequestStates]
    /\ cleanup["http-server"] = "ok" => InFlight = {}

\* A cleanup ends well.
LEMMA OkKeeps ==
  ASSUME ShutdownInv, NEW c \in Cleanups, CleanupOk(c)
  PROVE  ShutdownInv'
<1>1. /\ Running(c) /\ cleanup' = [cleanup EXCEPT ![c] = "ok"]
      /\ phase' = phase /\ outcome' = outcome /\ errors' = errors /\ logged' = logged
      /\ cleanup \in [Cleanups -> CleanupStates]
  BY DEF CleanupOk, ShutdownInv, ShutdownTypeOK
<1>2. /\ cleanup' \in [Cleanups -> CleanupStates] /\ cleanup[c] # "registered"
      /\ \A d \in Cleanups : cleanup'[d] = "failed" <=> cleanup[d] = "failed"
      /\ \A d \in Cleanups : Ended(d) => Ended(d)'
  BY <1>1 DEF Running, Ended, CleanupStates
<1>3. Failed' = Failed /\ InChannel' = InChannel
  BY <1>1, <1>2 DEF Failed, InChannel
<1> QED
  BY <1>1, <1>2, <1>3 DEF ShutdownInv, ShutdownTypeOK

\* A cleanup fails: its error enters the channel, or the process panics.
LEMMA FailKeeps ==
  ASSUME ShutdownInv, NEW c \in Cleanups, CleanupFails(c)
  PROVE  ShutdownInv'
<1>1. /\ Alive /\ Running(c) /\ cleanup' = [cleanup EXCEPT ![c] = "failed"]
      /\ outcome' = outcome /\ logged' = logged
      /\ IF ErrorsClosed THEN phase' = "panicked" /\ errors' = errors
         ELSE errors' = Append(errors, c) /\ phase' = phase
      /\ cleanup \in [Cleanups -> CleanupStates] /\ errors \in Seq(Cleanups)
      /\ phase \in Phases /\ outcome \in {"none", "completed", "timeout"}
  BY DEF CleanupFails, ShutdownInv, ShutdownTypeOK
<1>2. /\ cleanup' \in [Cleanups -> CleanupStates] /\ cleanup[c] # "registered"
      /\ outcome # "completed"
  BY <1>1 DEF Running, Ended, CleanupStates, ShutdownInv
<1>3. CASE ErrorsClosed
  <2>1. outcome = "timeout" /\ phase' = "panicked" /\ errors' = errors
    BY <1>1, <1>2, <1>3 DEF ErrorsClosed, ShutdownInv
  <2> QED
    BY <1>1, <1>2, <2>1 DEF ShutdownInv, ShutdownTypeOK, Phases
<1>4. CASE ~ErrorsClosed
  <2>1. errors' = Append(errors, c) /\ phase' = phase
    BY <1>1, <1>4
  <2>2. phase \in {"wait", "close"}
    BY <1>1, <1>2, <1>4 DEF ErrorsClosed, Alive, Phases, ShutdownInv
  <2>3. InChannel' = InChannel \cup {c}
    <3>1. /\ DOMAIN errors' = DOMAIN errors \cup {Len(errors) + 1}
          /\ errors'[Len(errors) + 1] = c
          /\ \A i \in DOMAIN errors : errors'[i] = errors[i]
      BY <1>1, <2>1
    <3> QED
      BY <3>1 DEF InChannel
  <2>4. Failed' = Failed \cup {c}
    BY <1>1 DEF Failed
  <2>5. errors' \in Seq(Cleanups)
    BY <1>1, <2>1
  <2> QED
    BY <1>1, <1>2, <2>1, <2>2, <2>3, <2>4, <2>5 DEF ShutdownInv, ShutdownTypeOK
<1> QED
  BY <1>3, <1>4

LEMMA HandlerKeeps ==
  ASSUME ShutdownInv, HandlerStep
  PROVE  ShutdownInv'
<1>1. /\ cleanup' = cleanup /\ phase \in Phases /\ errors \in Seq(Cleanups)
      /\ logged \subseteq Cleanups
      /\ outcome \in {"none", "completed", "timeout"}
  BY DEF HandlerStep, Completed, TimedOut, CloseErrors, Drain, Exit, ShutdownInv,
         ShutdownTypeOK
<1>2. CASE Completed \/ TimedOut \/ CloseErrors \/ Exit
  BY <1>1, <1>2 DEF Completed, TimedOut, CloseErrors, Exit, ShutdownInv,
     ShutdownTypeOK, Phases, Failed, InChannel, Ended
<1>3. CASE Drain
  <2>1. phase = "drain" /\ outcome' = outcome
    BY <1>3 DEF Drain
  <2>2. CASE errors = <<>>
    BY <1>1, <1>3, <2>1, <2>2 DEF Drain, ShutdownInv, ShutdownTypeOK, Phases, Failed,
       InChannel, Ended
  <2>3. CASE errors # <<>>
    <3>1. /\ errors' = Tail(errors) /\ logged' = logged \cup {Head(errors)}
          /\ phase' = phase
      BY <1>3, <2>3 DEF Drain
    <3>2. InChannel = InChannel' \cup {Head(errors)}
      <4>1. /\ Len(errors) \in Nat \ {0} /\ DOMAIN errors = 1 .. Len(errors)
            /\ DOMAIN errors' = 1 .. Len(errors) - 1 /\ Head(errors) = errors[1]
            /\ \A i \in 1 .. Len(errors) - 1 : errors'[i] = errors[i + 1]
        BY <1>1, <2>3, <3>1
      <4>2. \A j \in 1 .. Len(errors) :
              j = 1 \/ \E i \in 1 .. Len(errors) - 1 : errors'[i] = errors[j]
        <5> SUFFICES ASSUME NEW j \in 1 .. Len(errors), j # 1
                     PROVE  j - 1 \in 1 .. Len(errors) - 1 /\ errors'[j - 1] = errors[j]
          OBVIOUS
        <5>1. j - 1 \in 1 .. Len(errors) - 1 /\ j - 1 + 1 = j
          BY <4>1
        <5> QED
          BY <4>1, <5>1
      <4>3. \A i \in 1 .. Len(errors) - 1 : i + 1 \in 1 .. Len(errors)
        BY <4>1
      <4>4. 1 \in 1 .. Len(errors)
        BY <4>1
      <4>5. ASSUME NEW x \in InChannel PROVE x \in InChannel' \cup {Head(errors)}
        <5>1. PICK j \in 1 .. Len(errors) : x = errors[j]
          BY <4>1, <4>5 DEF InChannel
        <5>2. CASE j = 1
          BY <4>1, <5>1, <5>2
        <5>3. CASE \E i \in 1 .. Len(errors) - 1 : errors'[i] = errors[j]
          BY <4>1, <5>1, <5>3 DEF InChannel
        <5> QED
          BY <4>2, <5>2, <5>3
      <4>6. ASSUME NEW x \in InChannel' PROVE x \in InChannel
        <5>1. PICK i \in 1 .. Len(errors) - 1 : x = errors[i + 1]
          BY <4>1, <4>6 DEF InChannel
        <5> QED
          BY <4>1, <4>3, <5>1 DEF InChannel
      <4>7. Head(errors) \in InChannel
        BY <4>1, <4>4 DEF InChannel
      <4> QED
        BY <4>5, <4>6, <4>7
    <3>3. /\ errors' \in Seq(Cleanups) /\ Head(errors) \in Cleanups
      BY <1>1, <2>3, <3>1
    <3>4. Failed' = Failed
      BY <1>1 DEF Failed
    <3> QED
      BY <1>1, <2>1, <3>1, <3>2, <3>3, <3>4 DEF ShutdownInv, ShutdownTypeOK, Ended
  <2> QED
    BY <2>2, <2>3
<1> QED
  BY <1>2, <1>3 DEF HandlerStep

LEMMA StartsAfresh == ShutdownBegins => ShutdownInv'
BY DEF ShutdownBegins, ShutdownInv, ShutdownTypeOK, Phases, CleanupStates, Failed,
       InChannel

LEMMA StartKeeps == ShutdownInv /\ (Signal \/ Expire \/ UNCHANGED shutdownVars)
                      => ShutdownInv'
<1>1. ASSUME ShutdownInv, Signal PROVE ShutdownInv'
  <2>1. /\ phase = "serving" /\ phase' = "wait" /\ errors' = errors /\ logged' = logged
        /\ outcome' = outcome /\ cleanup' = [c \in Cleanups |-> "running"]
    BY <1>1 DEF Signal
  <2>2. Failed = {} /\ Failed' = {} /\ InChannel' = InChannel
    BY <1>1, <2>1 DEF Failed, InChannel, ShutdownInv
  <2> QED
    BY <1>1, <2>1, <2>2 DEF ShutdownInv, ShutdownTypeOK, Phases, CleanupStates
<1>2. ASSUME ShutdownInv, Expire PROVE ShutdownInv'
  BY <1>2 DEF Expire, ShutdownInv, ShutdownTypeOK, Failed, InChannel, Ended
<1>3. ASSUME ShutdownInv, UNCHANGED shutdownVars PROVE ShutdownInv'
  BY <1>3 DEF shutdownVars, ShutdownInv, ShutdownTypeOK, Failed, InChannel, Ended
<1> QED
  BY <1>1, <1>2, <1>3

LEMMA ShutdownNext == ShutdownInv /\ [Next]_vars => ShutdownInv'
<1> SUFFICES ASSUME ShutdownInv, [Next]_vars PROVE ShutdownInv'
  OBVIOUS
<1>1. ASSUME NEW r \in Requests, Accept(r) \/ Handle(r) \/ HandleAgain(r) \/ Respond(r)
      PROVE  ShutdownInv'
  BY <1>1, StartKeeps DEF Accept, Handle, HandleAgain, Respond
<1>2. CASE Time
  BY <1>2, StartKeeps DEF Time
<1>3. CASE Stop \/ Timeout
  BY <1>3, StartKeeps DEF Stop, Timeout
<1>4. CASE CloseListener
  <2>1. /\ cleanup["http-server"] = "running"
        /\ cleanup' = [cleanup EXCEPT !["http-server"] = "draining"]
        /\ phase' = phase /\ outcome' = outcome /\ errors' = errors /\ logged' = logged
        /\ cleanup \in [Cleanups -> CleanupStates]
    BY <1>4 DEF CloseListener, ShutdownInv, ShutdownTypeOK
  <2>2. /\ cleanup' \in [Cleanups -> CleanupStates] /\ ~Ended("http-server")
        /\ cleanup["http-server"] # "registered" /\ "http-server" \in Cleanups
        /\ \A d \in Cleanups : cleanup'[d] = "failed" <=> cleanup[d] = "failed"
    BY <2>1, ServingAssumption DEF Ended, CleanupStates
  <2>3. Failed' = Failed /\ InChannel' = InChannel
    BY <2>1, <2>2 DEF Failed, InChannel
  <2> QED
    BY <2>1, <2>2, <2>3 DEF ShutdownInv, ShutdownTypeOK
<1>5. CASE StopServer
  BY <1>5, OkKeeps, FailKeeps, ServingAssumption DEF StopServer
<1>6. CASE Handler
  BY <1>6, HandlerKeeps DEF Handler
<1>7. ASSUME NEW c \in Cleanups \ {"http-server"}, OtherCleanup(c) PROVE ShutdownInv'
  BY <1>7, OkKeeps, FailKeeps DEF OtherCleanup
<1>8. CASE Restart
  BY <1>8, StartsAfresh DEF Restart
<1>9. CASE UNCHANGED vars
  BY <1>9, StartKeeps DEF vars
<1> QED
  BY <1>1, <1>2, <1>3, <1>4, <1>5, <1>6, <1>7, <1>8, <1>9 DEF Next

\* Once the server has drained nothing is accepted.
LEMMA DrainedNext == ShutdownInv /\ RateInv /\ DrainedInv /\ [Next]_vars => DrainedInv'
<1> SUFFICES ASSUME ShutdownInv, RateInv, DrainedInv, [Next]_vars PROVE DrainedInv'
  OBVIOUS
<1>0. /\ "http-server" \in Cleanups /\ cleanup \in [Cleanups -> CleanupStates]
      /\ request' \in [Requests -> RequestStates]
      /\ request \in [Requests -> RequestStates]
  BY ServingAssumption, RateNext DEF ShutdownInv, ShutdownTypeOK, RateInv, RateTypeOK
<1>1. ASSUME NEW r \in Requests, Accept(r) PROVE DrainedInv'
  BY <1>0, <1>1 DEF Accept, shutdownVars, DrainedInv
<1>2. ASSUME NEW r \in Requests, Handle(r) \/ HandleAgain(r) \/ Respond(r)
      PROVE  DrainedInv'
  <2>1. request[r] # "idle" /\ cleanup' = cleanup
    BY <1>2 DEF Handle, HandleAgain, Respond, RequestStep, MemoryIncrement,
       RedisIncrement, RedisExpire, Uncounted, Resend, Served, shutdownVars
  <2>2. r \in InFlight
    BY <2>1 DEF InFlight
  <2> QED
    BY <1>0, <2>1, <2>2 DEF DrainedInv
<1>3. CASE request' = request /\ cleanup'["http-server"] # "ok"
  BY <1>0, <1>3 DEF DrainedInv
<1>4. CASE request' = request /\ cleanup'["http-server"] = cleanup["http-server"]
  BY <1>0, <1>4 DEF DrainedInv, InFlight
<1>5. CASE Time \/ Timeout \/ Handler \/ UNCHANGED vars
  BY <1>4, <1>5 DEF Time, Tick, Cleanup, Timeout, Expire, Handler, HandlerStep,
     Completed, TimedOut, CloseErrors, Drain, Exit, shutdownVars, rateVars, vars
<1>6. CASE Stop \/ CloseListener
  BY <1>0, <1>3, <1>6 DEF Stop, Signal, CloseListener, rateVars
<1>7. CASE StopServer
  <2>1. request' = request
    BY <1>7 DEF StopServer, rateVars
  <2>2. CASE InFlight = {}
    BY <1>0, <2>1, <2>2 DEF DrainedInv, InFlight
  <2>3. CASE CleanupFails("http-server")
    BY <1>0, <1>3, <2>1, <2>3 DEF CleanupFails
  <2> QED
    BY <1>7, <2>2, <2>3 DEF StopServer
<1>8. ASSUME NEW c \in Cleanups \ {"http-server"}, OtherCleanup(c) PROVE DrainedInv'
  BY <1>0, <1>4, <1>8 DEF OtherCleanup, CleanupOk, CleanupFails
<1>9. CASE Restart
  BY <1>0, <1>9 DEF Restart, ShutdownBegins, DrainedInv
<1> QED
  BY <1>1, <1>2, <1>5, <1>6, <1>7, <1>8, <1>9 DEF Next

\* A shutdown that reports success has run every cleanup to its end, has logged
\* every error when it returns, and leaves no request behind that the server did
\* not give up on; the process panics only after the timeout.
THEOREM ShutdownTellsTheTruth ==
  Spec => []((outcome = "completed" => Orderly) /\ (phase = "panicked" => outcome = "timeout"))
<1>1. ShutdownInv /\ DrainedInv =>
        (outcome = "completed" => Orderly) /\ (phase = "panicked" => outcome = "timeout")
  <2> SUFFICES ASSUME ShutdownInv, DrainedInv, outcome = "completed" PROVE Orderly
    BY DEF ShutdownInv
  <2>1. (\A c \in Cleanups : Ended(c)) /\ phase # "panicked"
    BY DEF ShutdownInv
  <2>2. InFlight = {} \/ cleanup["http-server"] = "failed"
    BY <2>1, ServingAssumption DEF Ended, DrainedInv
  <2>3. phase \in {"returned", "exited"} => logged = Failed
    <3>1. InChannel \cup logged = Failed
      BY <2>1 DEF ShutdownInv
    <3>2. errors = <<>> => InChannel = {}
      BY DEF InChannel
    <3> QED
      BY <3>1, <3>2 DEF ShutdownInv
  <2> QED
    BY <2>1, <2>2, <2>3 DEF Orderly, Failed
<1>2. Init => RateInv /\ ShutdownInv /\ DrainedInv
  <2> SUFFICES ASSUME Init PROVE RateInv /\ ShutdownInv /\ DrainedInv
    OBVIOUS
  <2>1. RateInv
    BY RateInvInit DEF Init
  <2>2. ShutdownInv
    BY DEF Init, ShutdownInit, ShutdownInv, ShutdownTypeOK, Phases, CleanupStates,
       Failed, InChannel
  <2>3. DrainedInv
    BY <2>1, ServingAssumption
       DEF Init, ShutdownInit, DrainedInv, RateInv, RateTypeOK
  <2> QED
    BY <2>1, <2>2, <2>3
<1> QED
  BY <1>1, <1>2, RateNext, ShutdownNext, DrainedNext, PTL DEF Spec

\* The counter's expiry is lost, or Redis closed, only where a call failed, a process
\* died or the server is being shut down.
CauseOfLoss ==
    expiryLost \/ ~redisOpen => RedisFaults # {} \/ restarts > 0 \/ phase # "serving"

CauseInv == restarts \in Nat /\ CauseOfLoss

LEMMA CauseNext == ShutdownInv /\ CauseInv /\ [Next]_vars => CauseInv'
<1> SUFFICES ASSUME ShutdownInv, restarts \in Nat, CauseOfLoss, [Next]_vars
             PROVE  restarts' \in Nat /\ CauseOfLoss'
  BY DEF CauseInv
<1>1. CASE Restart
  BY <1>1 DEF Restart, CauseOfLoss
<1>2. ASSUME NEW c \in Cleanups \ {"http-server"}, OtherCleanup(c)
      PROVE  restarts' \in Nat /\ CauseOfLoss'
  <2>1. phase # "serving" /\ restarts' = restarts
    BY <1>2 DEF OtherCleanup, CleanupOk, CleanupFails, Running, Ended, ShutdownInv
  <2>2. phase' # "serving"
    BY <1>2, <2>1 DEF OtherCleanup, CleanupOk, CleanupFails
  <2> QED
    BY <2>1, <2>2 DEF CauseOfLoss
<1>3. CASE /\ restarts' = restarts /\ (phase' = phase \/ phase' # "serving")
           /\ redisOpen' = redisOpen
           /\ expiryLost' => expiryLost \/ ~redisOpen \/ RedisFaults # {}
  BY <1>3 DEF CauseOfLoss
<1>4. ASSUME NEW r \in Requests, Accept(r) \/ Handle(r) \/ HandleAgain(r) \/ Respond(r)
      PROVE  restarts' \in Nat /\ CauseOfLoss'
  BY <1>3, <1>4 DEF Accept, Handle, HandleAgain, Respond, RequestStep, Arrive,
     MemoryIncrement, RedisIncrement, RedisExpire, Uncounted, Resend, ReplyLost, Served,
     shutdownVars
<1>5. CASE Time \/ Stop \/ CloseListener \/ Timeout \/ UNCHANGED vars
  BY <1>3, <1>5 DEF Time, Tick, Cleanup, Stop, Signal, CloseListener, Timeout, Expire,
     vars, rateVars, shutdownVars
<1>6. CASE StopServer \/ Handler
  BY <1>3, <1>6 DEF StopServer, CleanupOk, CleanupFails, Handler, HandlerStep, Completed,
     TimedOut, CloseErrors, Drain, Exit, rateVars, shutdownVars
<1> QED
  BY <1>1, <1>2, <1>4, <1>5, <1>6 DEF Next

\* Increment of the Redis store: a counter that has no expiry is about to get it from
\* the request that made it, unless a call to Redis failed or lost its reply, a process
\* died or Redis was closed.  Without these no client is blocked for ever.
THEOREM OnlyLossBlocks == Spec => [](ExpiryComes /\ CauseOfLoss)
<1>1. RateInv /\ CauseInv => ExpiryComes /\ CauseOfLoss
  BY DEF RateInv, CauseInv
<1>2. Init => RateInv /\ ShutdownInv /\ CauseInv
  <2> SUFFICES ASSUME Init PROVE RateInv /\ ShutdownInv /\ CauseInv
    OBVIOUS
  <2>1. RateInv
    BY RateInvInit DEF Init
  <2>2. ShutdownInv
    BY DEF Init, ShutdownInit, ShutdownInv, ShutdownTypeOK, Phases, CleanupStates,
       Failed, InChannel
  <2>3. CauseInv
    BY DEF Init, RateInit, CauseInv, CauseOfLoss
  <2> QED
    BY <2>1, <2>2, <2>3
<1> QED
  BY <1>1, <1>2, RateNext, ShutdownNext, CauseNext, PTL DEF Spec
===============================================================================
