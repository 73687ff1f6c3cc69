------------------------- MODULE ChangeDetector_proofs -------------------------
(***************************************************************************)
(* Proofs about ChangeDetector for any sources, checks, pages and faults.  *)
(***************************************************************************)
EXTENDS ChangeDetector, FiniteSetTheorems, TLAPS

\* The hash of any page is a hash.
LEMMA HashType ==
  ASSUME NEW p \in Pages, NEW n \in Noise
  PROVE  HashOf(p, n) \in Hashes
BY DetectorAssumption DEF HashOf, Hashes, Pages

\* No page has the hash that stands for none.
LEMMA NoHashType == NoHash \notin Hashes
BY DetectorAssumption DEF NoHash, Hashes

\* The check of a goroutine that does nothing.
LEMMA IdleType == IdleCheck \in CheckRecords
<1>1. 0 \in 0 .. MaxRetries /\ 0 \in Nat
  BY DetectorAssumption
<1> QED
  BY <1>1 DEF IdleCheck, CheckRecords, CheckPcs

\* The types hold before Start.
LEMMA DetectorTypeInit == Init => TypeOK
<1> SUFFICES ASSUME Init PROVE TypeOK
  OBVIOUS
<1>1. check \in [Checkers -> CheckRecords]
  BY IdleType DEF Init
<1>2. lead \in [Checkers -> Int] /\ \A t \in Checkers : lead[t] >= -1
  BY DEF Init
<1> QED
  BY <1>1, <1>2, DetectorAssumption DEF Init, TypeOK

\* From the comparison on, a check holds the hash of what it has fetched.
HashInv ==
    \A t \in Checkers :
        check[t].pc \in {"get", "publish", "set"} => check[t].hash \in Hashes

\* The updates of one check's record keep its type.
LEMMA CheckUpdate ==
  ASSUME check \in [Checkers -> CheckRecords], NEW t \in Checkers
  PROVE  /\ \A pc \in CheckPcs :
              [check EXCEPT ![t].pc = pc] \in [Checkers -> CheckRecords]
         /\ \A pc \in CheckPcs, l \in Nat :
              [check EXCEPT ![t].pc = pc, ![t].limiter = l]
                \in [Checkers -> CheckRecords]
         /\ \A h \in Hashes :
              [check EXCEPT ![t] = [pc |-> "get", attempt |-> 0, hash |-> h,
                                    limiter |-> 0]] \in [Checkers -> CheckRecords]
         /\ \A a \in 0 .. MaxRetries :
              [check EXCEPT ![t].attempt = a] \in [Checkers -> CheckRecords]
         /\ [check EXCEPT ![t] = IdleCheck] \in [Checkers -> CheckRecords]
<1>1. ASSUME NEW h \in Hashes
      PROVE  [pc |-> "get", attempt |-> 0, hash |-> h, limiter |-> 0]
                \in CheckRecords
  BY DetectorAssumption DEF CheckRecords, CheckPcs
<1> QED
  BY <1>1, Zenon, IdleType DEF CheckRecords

\* One step of a check keeps the types.
LEMMA CheckStepType ==
  ASSUME TypeOK, HashInv, NEW t \in Checkers, CheckStep(t)
  PROVE  TypeOK'
<1>0. /\ UrlOf[t] \in Sources /\ page[UrlOf[t]] \in Pages
      /\ check \in [Checkers -> CheckRecords]
      /\ check[t].hash \in Hashes \cup {NoHash}
      /\ check[t].attempt \in 0 .. MaxRetries
      /\ stored[UrlOf[t]] \in Hashes \cup {NoHash}
  <2>1. UrlOf[t] \in Sources /\ check[t] \in CheckRecords
    BY DetectorAssumption DEF TypeOK
  <2> QED
    BY <2>1 DEF TypeOK, CheckRecords
<1>1. faults' \in 0 .. MaxFaults
  BY DetectorAssumption
    DEF TypeOK, CheckStep, Begin, Exit, MakeLimiter, WaitForRateLimit, Fetch,
        GetPrevious, Publish, StoreHash, MayFail, Count
<1>2. stop' = stop /\ page' = page
  BY DEF CheckStep, Begin, Exit, MakeLimiter, WaitForRateLimit, Fetch,
         GetPrevious, Publish, StoreHash
<1>3. stored' \in [Sources -> Hashes \cup {NoHash}]
  <2>1. CASE StoreHash(t)
    BY <1>0, <2>1 DEF StoreHash, Stored, TypeOK
  <2>2. CASE ~StoreHash(t)
    BY <2>2 DEF TypeOK, CheckStep, Begin, Exit, MakeLimiter,
         WaitForRateLimit, Fetch, GetPrevious, Publish
  <2> QED
    BY <2>1, <2>2
<1>4. told' \in [Sources -> SUBSET Hashes]
  <2>1. \/ told' = told
        \/ /\ check[t].pc \in {"get", "publish"}
           /\ told' = [told EXCEPT ![UrlOf[t]] = @ \cup {check[t].hash}]
    BY DEF CheckStep, Begin, Exit, MakeLimiter, WaitForRateLimit, Fetch,
           GetPrevious, Publish, Published, StoreHash, history
  <2>2. check[t].pc \in {"get", "publish"} => check[t].hash \in Hashes
    BY DEF HashInv
  <2> QED
    BY <1>0, <2>1, <2>2 DEF TypeOK
<1>7. lead' \in [Checkers -> Int] /\ \A s \in Checkers : lead'[s] >= -1
  <2>1. lead \in [Checkers -> Int] /\ \A s \in Checkers : lead[s] >= -1
    BY DEF TypeOK
  <2>2. CASE Published(t)
    BY <2>1, <2>2 DEF Published
  <2>3. CASE Stored(t)
    BY <2>1, <2>3 DEF Stored
  <2>4. CASE lead' = lead
    BY <2>1, <2>4
  <2>5. Published(t) \/ Stored(t) \/ lead' = lead
    BY DEF CheckStep, Begin, Exit, MakeLimiter, WaitForRateLimit, Fetch,
           GetPrevious, Publish, StoreHash, history
  <2> QED
    BY <2>2, <2>3, <2>4, <2>5
<1>5. limiters' \subseteq Nat
  <2>1. limiters = {} => Cardinality(limiters) = 0
    BY FS_EmptySet
  <2>2. limiters = {} => 1 .. Cardinality(limiters) + 1 = {1}
    BY <2>1
  <2>3. limiters = {} => Fresh = 1
    BY <2>2 DEF Fresh
  <2>4. limiters' = limiters \/ (limiters' = {Fresh} /\ limiters = {})
    <3>1. CASE MakeLimiter(t)
      BY <3>1 DEF MakeLimiter
    <3>2. CASE ~MakeLimiter(t)
      BY <3>2 DEF CheckStep, Begin, Exit, WaitForRateLimit, Fetch, GetPrevious,
           Publish, StoreHash
    <3> QED
      BY <3>1, <3>2
  <2>5. limiters \subseteq Nat
    BY DEF TypeOK
  <2>6. CASE limiters' = limiters
    BY <2>5, <2>6
  <2>7. CASE limiters' = {Fresh} /\ limiters = {}
    <3>1. limiters' = {1}
      BY <2>3, <2>7
    <3> QED
      BY <3>1
  <2> QED
    BY <2>4, <2>6, <2>7
<1>6. check' \in [Checkers -> CheckRecords]
  <2> USE <1>0
  <2>0. ASSUME NEW pc \in CheckPcs, Go(t, pc)
        PROVE  check' \in [Checkers -> CheckRecords]
    BY <2>0, CheckUpdate, Zenon DEF Go
  <2>10. End(t) => check' \in [Checkers -> CheckRecords]
    BY CheckUpdate, Zenon DEF End
  <2>1. CASE Begin(t)
    <3> DEFINE pc == IF limiters = {} THEN "limiter" ELSE "wait"
               l == IF limiters = {} THEN 0 ELSE CHOOSE x \in limiters : TRUE
    <3>1. pc \in CheckPcs
      BY DEF CheckPcs
    <3>2. l \in Nat
      BY DEF TypeOK
    <3>3. check' = [check EXCEPT ![t].pc = pc, ![t].limiter = l]
      BY <2>1 DEF Begin
    <3> HIDE DEF pc, l
    <3> QED
      BY <3>1, <3>2, <3>3, CheckUpdate, Zenon
  <2>2. CASE Exit(t)
    BY <2>2, <2>0 DEF Exit, CheckPcs
  <2>3. CASE MakeLimiter(t)
    <3>1. limiters' # {}
      BY <2>3 DEF MakeLimiter
    <3>2. (CHOOSE l \in limiters' : TRUE) \in Nat
      BY <1>5, <3>1
    <3>3. "wait" \in CheckPcs
      BY DEF CheckPcs
    <3> QED
      BY <2>3, <3>2, <3>3, CheckUpdate, Zenon DEF MakeLimiter
  <2>4. CASE WaitForRateLimit(t)
    BY <2>4, <2>0, <2>10 DEF WaitForRateLimit, CheckPcs
  <2>5. CASE Fetch(t)
    <3>1. ASSUME NEW n \in Noise,
                 check' = [check EXCEPT ![t] = [pc |-> "get", attempt |-> 0,
                             hash |-> HashOf(page[UrlOf[t]], n), limiter |-> 0]]
          PROVE  check' \in [Checkers -> CheckRecords]
      <4>1. HashOf(page[UrlOf[t]], n) \in Hashes
        BY HashType
      <4> QED
        BY <3>1, <4>1, CheckUpdate, Zenon
    <3>2. ASSUME check[t].attempt < MaxRetries,
                 check' = [check EXCEPT ![t].attempt = @ + 1]
          PROVE  check' \in [Checkers -> CheckRecords]
      <4>1. check[t].attempt + 1 \in 0 .. MaxRetries
        BY <3>2, DetectorAssumption
      <4>2. check' = [check EXCEPT ![t].attempt = check[t].attempt + 1]
        BY <3>2
      <4> QED
        BY <4>1, <4>2, CheckUpdate, Zenon
    <3>3. ASSUME End(t)
          PROVE  check' \in [Checkers -> CheckRecords]
      BY <3>3, CheckUpdate, Zenon DEF End
    <3> QED
      BY <2>5, <3>1, <3>2, <3>3 DEF Fetch
  <2>6. ASSUME NEW prev, Compare(t, prev)
        PROVE  check' \in [Checkers -> CheckRecords]
    BY <2>0, <2>6, <2>10 DEF Compare, CheckPcs
  <2>7. CASE GetPrevious(t)
    BY <2>6, <2>7 DEF GetPrevious
  <2>8. CASE Publish(t)
    BY <2>8, <2>0, <2>10 DEF Publish, CheckPcs
  <2>9. CASE StoreHash(t)
    BY <2>9, CheckUpdate, Zenon DEF StoreHash, End
  <2> QED
    BY <2>1, <2>2, <2>3, <2>4, <2>5, <2>7, <2>8, <2>9 DEF CheckStep
<1> QED
  BY <1>1, <1>2, <1>3, <1>4, <1>5, <1>6, <1>7 DEF TypeOK

\* A check writes its own record only; Stop and the page are not its to change.
LEMMA CheckFrame ==
  ASSUME TypeOK, NEW t \in Checkers, CheckStep(t)
  PROVE  /\ \A s \in Checkers \ {t} : check'[s] = check[s]
         /\ stop' = stop /\ page' = page
<1>1. check \in [Checkers -> CheckRecords]
  BY DEF TypeOK
<1> QED
  BY <1>1 DEF CheckStep, Begin, Exit, MakeLimiter, WaitForRateLimit, Fetch,
         GetPrevious, Publish, StoreHash, Compare, Go, End

\* Every step keeps the types.
LEMMA DetectorTypeStep == TypeOK /\ HashInv /\ [Next]_vars => TypeOK'
<1> SUFFICES ASSUME TypeOK, HashInv, [Next]_vars PROVE TypeOK'
  OBVIOUS
<1>1. CASE \E t \in Checkers : CheckStep(t)
  BY <1>1, CheckStepType
<1>2. CASE StopCancel \/ StopDone
  BY <1>2 DEF StopCancel, StopDone, TypeOK, history
<1>3. ASSUME NEW u \in Sources, PageChanges(u) PROVE TypeOK'
  <2>1. page[u] \in Pages
    BY DEF TypeOK
  <2>2. [page[u] EXCEPT !.text = @ + 1] \in Pages
    BY <1>3, <2>1, DetectorAssumption DEF PageChanges, Pages
  <2>3. page' = [page EXCEPT ![u] = [page[u] EXCEPT !.text = @ + 1]]
    BY <1>3, Zenon DEF PageChanges
  <2>4. page' \in [Sources -> Pages]
    BY <2>2, <2>3 DEF TypeOK
  <2> QED
    BY <1>3, <2>4 DEF PageChanges, TypeOK, history
<1>4. CASE Crash
  <2>1. check' \in [Checkers -> CheckRecords]
    BY <1>4, IdleType DEF Crash
  <2> QED
    BY <1>4, <2>1, DetectorAssumption DEF Crash, TypeOK, history
<1>5. CASE UNCHANGED vars
  BY <1>5 DEF vars, history, TypeOK
<1> QED
  BY <1>1, <1>2, <1>3, <1>4, <1>5 DEF Next

\* What a check has hashed is the hash of a page.
LEMMA HashStep == TypeOK /\ HashInv /\ [Next]_vars => HashInv'
<1> SUFFICES ASSUME TypeOK, HashInv, [Next]_vars PROVE HashInv'
  OBVIOUS
<1>0. check \in [Checkers -> CheckRecords]
  BY DEF TypeOK
<1>1. ASSUME NEW t \in Checkers, CheckStep(t) PROVE HashInv'
  <2>1. CASE Begin(t) \/ Exit(t) \/ MakeLimiter(t) \/ WaitForRateLimit(t)
               \/ StoreHash(t)
    <3>1. check'[t].pc \notin {"get", "publish", "set"}
      BY <1>0, <2>1 DEF Begin, Exit, MakeLimiter, WaitForRateLimit, StoreHash,
           Go, End, IdleCheck, CheckRecords
    <3> QED
      BY <1>1, <3>1, CheckFrame DEF HashInv
  <2>2. CASE Fetch(t)
    <3>0. UrlOf[t] \in Sources /\ page[UrlOf[t]] \in Pages
      BY DetectorAssumption DEF TypeOK
    <3>1. \/ check'[t].pc \in {"idle", "fetch"}
          \/ \E n \in Noise : check'[t].hash = HashOf(page[UrlOf[t]], n)
      BY <1>0, <2>2 DEF Fetch, End, IdleCheck, CheckRecords
    <3>2. check'[t].pc \in {"idle", "fetch"} \/ check'[t].hash \in Hashes
      BY <3>0, <3>1, HashType
    <3> QED
      BY <1>1, <3>2, CheckFrame DEF HashInv
  <2>3. CASE GetPrevious(t) \/ Publish(t)
    <3>1. check'[t].pc = "idle" \/ check'[t].hash = check[t].hash
      BY <1>0, <2>3 DEF GetPrevious, Publish, Compare, Go, End, IdleCheck,
           CheckRecords
    <3>2. check[t].pc \in {"get", "publish"}
      BY <2>3 DEF GetPrevious, Publish
    <3> QED
      BY <1>1, <3>1, <3>2, CheckFrame DEF HashInv
  <2> QED
    BY <1>1, <2>1, <2>2, <2>3 DEF CheckStep
<1>2. CASE Crash
  BY <1>2 DEF Crash, HashInv, IdleCheck
<1>3. CASE StopCancel \/ StopDone \/ (\E u \in Sources : PageChanges(u))
             \/ UNCHANGED vars
  BY <1>3 DEF StopCancel, StopDone, PageChanges, vars, HashInv
<1> QED
  BY <1>1, <1>2, <1>3 DEF Next

\* Every variable has its type, and every check holds a hash it fetched.
LEMMA HashesFetched == Spec => [](TypeOK /\ HashInv)
<1>1. Init => HashInv
  BY DetectorAssumption DEF Init, HashInv, IdleCheck
<1> QED
  BY <1>1, HashStep, DetectorTypeInit, DetectorTypeStep, PTL DEF Spec

\* Every variable of the detector keeps its type.
THEOREM DetectorTypeCorrect == Spec => []TypeOK
BY HashesFetched, PTL

-----------------------------------------------------------------------------
(* One limiter *)

\* The map holds at most the one limiter, and a check that waits has it.
LimiterInv ==
    /\ limiters \subseteq {1}
    /\ \A t \in Checkers :
          check[t].pc \in {"wait", "fetch"} => check[t].limiter \in limiters

\* A check that makes a limiter under the lock makes it in an empty map.
LEMMA LimiterStep == TypeOK /\ LimiterInv /\ [Next]_vars => LimiterInv'
<1> SUFFICES ASSUME TypeOK, LimiterInv, [Next]_vars PROVE LimiterInv'
  OBVIOUS
<1>0. check \in [Checkers -> CheckRecords]
  BY DEF TypeOK
<1>1. ASSUME NEW t \in Checkers, CheckStep(t) PROVE LimiterInv'
  <2>1. CASE Begin(t)
    <3>1. limiters # {} => (CHOOSE l \in limiters : TRUE) \in limiters
      OBVIOUS
    <3>2. /\ check'[t].pc = IF limiters = {} THEN "limiter" ELSE "wait"
          /\ check'[t].limiter = IF limiters = {} THEN 0
                                 ELSE CHOOSE l \in limiters : TRUE
      BY <1>0, <2>1, Zenon DEF Begin, CheckRecords
    <3>3. limiters' = limiters
      BY <2>1 DEF Begin
    <3>4. check'[t].pc = "wait" => check'[t].limiter \in limiters'
      BY <3>1, <3>2, <3>3
    <3>5. check'[t].pc # "fetch"
      BY <3>2
    <3> QED
      BY <1>1, <3>3, <3>4, <3>5, CheckFrame DEF LimiterInv
  <2>2. CASE MakeLimiter(t)
    <3>1. limiters = {} => 1 .. Cardinality(limiters) + 1 = {1}
      BY FS_EmptySet
    <3>2. limiters' # {} /\ limiters' \subseteq {1} /\ limiters \subseteq limiters'
      BY <2>2, <3>1 DEF MakeLimiter, LimiterInv, Fresh
    <3>3. (CHOOSE l \in limiters' : TRUE) \in limiters'
      BY <3>2
    <3>4. check'[t].limiter = CHOOSE l \in limiters' : TRUE
      BY <1>0, <2>2, Zenon DEF MakeLimiter, CheckRecords
    <3> QED
      BY <1>1, <3>2, <3>3, <3>4, CheckFrame DEF LimiterInv
  <2>3. CASE WaitForRateLimit(t) \/ Fetch(t)
    <3>1. /\ check'[t].pc \in {"wait", "fetch"}
               => /\ check[t].pc \in {"wait", "fetch"}
                  /\ check'[t].limiter = check[t].limiter
          /\ limiters' = limiters
      BY <1>0, <2>3 DEF WaitForRateLimit, Fetch, Go, End, IdleCheck, CheckRecords
    <3> QED
      BY <1>1, <3>1, CheckFrame DEF LimiterInv
  <2>4. CASE Exit(t) \/ GetPrevious(t) \/ Publish(t) \/ StoreHash(t)
    <3>1. /\ check'[t].pc \notin {"wait", "fetch"}
          /\ limiters' = limiters
      BY <1>0, <2>4 DEF Exit, GetPrevious, Publish, StoreHash, Compare,
           Go, End, IdleCheck, CheckRecords
    <3> QED
      BY <1>1, <3>1, CheckFrame DEF LimiterInv
  <2> QED
    BY <1>1, <2>1, <2>2, <2>3, <2>4 DEF CheckStep
<1>2. CASE Crash
  BY <1>2 DEF Crash, LimiterInv, IdleCheck
<1>3. CASE StopCancel \/ StopDone \/ (\E u \in Sources : PageChanges(u))
             \/ UNCHANGED vars
  BY <1>3 DEF StopCancel, StopDone, PageChanges, vars, LimiterInv
<1> QED
  BY <1>1, <1>2, <1>3 DEF Next

\* getLimiter: all checks of a host wait on the same limiter.
THEOREM LimiterShared == Spec => []OneLimiterPerHost
<1>1. Init => LimiterInv
  BY DEF Init, LimiterInv, IdleCheck
<1>2. LimiterInv => OneLimiterPerHost
  BY DEF LimiterInv, OneLimiterPerHost
<1> QED
  BY <1>1, <1>2, LimiterStep, DetectorTypeCorrect, PTL DEF Spec

-----------------------------------------------------------------------------
(* No change is lost *)

\* A check that may store has published its hash, or found nothing stored.
PublishedInv ==
    /\ StoredWasPublished
    /\ \A t \in Checkers :
          check[t].pc = "set" /\ ~Cancelled(t) => check[t].hash \in told[UrlOf[t]]

\* Publishing before storing keeps the two in step, whoever else checks the page.
LEMMA PublishedStep ==
  ASSUME "get" \notin Faults
  PROVE  TypeOK /\ PublishedInv /\ [Next]_vars => PublishedInv'
<1> SUFFICES ASSUME TypeOK, PublishedInv, [Next]_vars
             PROVE  PublishedInv'
  OBVIOUS
<1>0. /\ check \in [Checkers -> CheckRecords]
      /\ stored \in [Sources -> Hashes \cup {NoHash}]
      /\ told \in [Sources -> SUBSET Hashes]
      /\ \A t \in Checkers : UrlOf[t] \in Sources
  BY DetectorAssumption DEF TypeOK
<1>1. ASSUME NEW t \in Checkers, CheckStep(t) PROVE PublishedInv'
  <2>0. \A s \in Checkers : Cancelled(s)' <=> Cancelled(s)
    BY <1>1, CheckFrame DEF Cancelled
  <2>1. \A u \in Sources : told[u] \subseteq told'[u]
    BY <1>0, <1>1 DEF CheckStep, Begin, Exit, MakeLimiter, WaitForRateLimit,
         Fetch, GetPrevious, Publish, Published, StoreHash, history
  <2>2. ASSUME \/ stored' = stored
               \/ /\ stored' = [stored EXCEPT ![UrlOf[t]] = check[t].hash]
                  /\ check[t].hash \in told[UrlOf[t]],
               check'[t].pc = "set" /\ ~Cancelled(t) =>
                 check'[t].hash \in told'[UrlOf[t]]
        PROVE  PublishedInv'
    <3>1. StoredWasPublished'
      BY <1>0, <2>1, <2>2 DEF PublishedInv, StoredWasPublished
    <3>2. \A s \in Checkers : check'[s].pc = "set" /\ ~Cancelled(s) =>
            check'[s].hash \in told'[UrlOf[s]]
      BY <1>0, <1>1, <2>1, <2>2, CheckFrame DEF PublishedInv
    <3> QED
      BY <2>0, <3>1, <3>2 DEF PublishedInv
  <2>3. CASE Begin(t) \/ Exit(t) \/ MakeLimiter(t) \/ WaitForRateLimit(t) \/ Fetch(t)
    <3>1. check'[t].pc # "set" /\ stored' = stored
      BY <1>0, <2>3 DEF Begin, Exit, MakeLimiter, WaitForRateLimit, Fetch, Go, End,
           IdleCheck, CheckRecords
    <3> QED
      BY <2>2, <3>1
  <2>4. CASE GetPrevious(t)
    <3>1. stored' = stored
      BY <2>4 DEF GetPrevious
    <3>2. Cancelled(t) \/ Compare(t, stored[UrlOf[t]])
      BY <2>4 DEF GetPrevious, MayFail
    <3>3. ASSUME Compare(t, stored[UrlOf[t]]), check'[t].pc = "set", ~Cancelled(t)
          PROVE  check'[t].hash \in told'[UrlOf[t]]
      <4>1. stored[UrlOf[t]] = NoHash /\ check'[t].hash = check[t].hash
        BY <1>0, <3>3 DEF Compare, Go, End, IdleCheck, CheckRecords
      <4>2. told' = [told EXCEPT ![UrlOf[t]] = @ \cup {check[t].hash}]
        BY <2>4, <3>3, <4>1 DEF GetPrevious, MayFail
      <4> QED
        BY <1>0, <4>1, <4>2
    <3> QED
      BY <2>2, <3>1, <3>2, <3>3
  <2>5. CASE Publish(t)
    <3>1. stored' = stored
      BY <2>5 DEF Publish
    <3>2. \/ check'[t].pc = "idle"
          \/ check'[t].hash = check[t].hash /\ Published(t)
      BY <1>0, <2>5 DEF Publish, Go, End, IdleCheck, CheckRecords
    <3>3. Published(t) => check[t].hash \in told'[UrlOf[t]]
      BY <1>0 DEF Published
    <3> QED
      BY <2>2, <3>1, <3>2, <3>3
  <2>6. CASE StoreHash(t)
    <3>1. check'[t].pc = "idle" /\ check[t].pc = "set"
      BY <1>0, <2>6 DEF StoreHash, End, IdleCheck
    <3>2. stored' = stored \/ (~Cancelled(t) /\ Stored(t))
      BY <2>6 DEF StoreHash
    <3>3. \/ stored' = stored
          \/ /\ stored' = [stored EXCEPT ![UrlOf[t]] = check[t].hash]
             /\ check[t].hash \in told[UrlOf[t]]
      BY <3>1, <3>2 DEF PublishedInv, Stored
    <3> QED
      BY <2>2, <3>1, <3>3
  <2> QED
    BY <1>1, <2>3, <2>4, <2>5, <2>6 DEF CheckStep
<1>2. CASE Crash
  BY <1>2 DEF Crash, PublishedInv, StoredWasPublished, IdleCheck, history
<1>3. CASE StopCancel \/ StopDone \/ (\E u \in Sources : PageChanges(u))
             \/ UNCHANGED vars
  BY <1>3 DEF StopCancel, StopDone, PageChanges, vars, PublishedInv,
       StoredWasPublished, Cancelled, history
<1> QED
  BY <1>1, <1>2, <1>3 DEF Next

\* checkForChanges: when Redis answers Get, no failure of the fetch, the stream or
\* Set, no crash and no other check of the page makes it store a hash that no first
\* check fetched and whose event is not in the stream.
THEOREM NoChangeLost ==
  ASSUME "get" \notin Faults
  PROVE  Spec => []StoredWasPublished
<1>1. Init => PublishedInv
  BY DetectorAssumption DEF Init, PublishedInv, StoredWasPublished, IdleCheck
<1>2. PublishedInv => StoredWasPublished
  BY DEF PublishedInv
<1>3. TypeOK /\ PublishedInv /\ [Next]_vars => PublishedInv'
  BY PublishedStep
<1> QED
  BY <1>1, <1>2, <1>3, DetectorTypeCorrect, PTL DEF Spec

-----------------------------------------------------------------------------
(* One event for one change *)

\* How far the events of a check may be ahead of the changes of the stored hash,
\* beside the failures: an event that is in the stream waits for its store; the
\* check behind, when another has stored the same hash, has a change in hand.
Ahead(t) ==
    IF check[t].pc = "set"
      THEN IF stored[UrlOf[t]] \in {check[t].hash, NoHash} THEN 0 ELSE 1
    ELSE IF check[t].pc = "publish"
      THEN IF stored[UrlOf[t]] = check[t].hash THEN -1 ELSE 0
    ELSE IF Cancelled(t) /\ check[t].pc \notin {"fetch", "get"} THEN 1 ELSE 0

LeadInv ==
    \A t \in Checkers :
        /\ lead[t] <= faults + Ahead(t)
        /\ check[t].pc = "publish" => stored[UrlOf[t]] # NoHash

\* What the store of a hash by one check does to the lead of another.
LEMMA StoredAhead ==
  ASSUME TypeOK, HashInv, LeadInv, NEW t \in Checkers, NEW s \in Checkers \ {t},
         check[t].pc = "set", Stored(t), check'[s] = check[s],
         stop' = stop, faults' >= faults, faults' \in Nat
  PROVE  /\ lead'[s] <= faults' + Ahead(s)'
         /\ check'[s].pc = "publish" => stored'[UrlOf[s]] # NoHash
<1> DEFINE u == UrlOf[t]
           h == check[t].hash
<1>0. /\ u \in Sources /\ UrlOf[s] \in Sources /\ h \in Hashes /\ h # NoHash
      /\ lead[s] \in Int /\ lead[s] >= -1 /\ faults \in Nat
      /\ stored \in [Sources -> Hashes \cup {NoHash}]
  BY DetectorAssumption, NoHashType DEF TypeOK, HashInv
<1>1. stored'[u] = h /\ \A v \in Sources \ {u} : stored'[v] = stored[v]
  BY <1>0 DEF Stored
<1>2. lead'[s] = IF stored[u] \notin {NoHash, h} /\ UrlOf[s] = u /\ lead[s] > -1
                 THEN lead[s] - 1 ELSE lead[s]
  BY DEF Stored
<1>3. /\ lead[s] <= faults + Ahead(s)
      /\ check[s].pc = "publish" => stored[UrlOf[s]] # NoHash
  BY DEF LeadInv
<1>4. Cancelled(s)' <=> Cancelled(s)
  BY DEF Cancelled
<1> HIDE DEF u, h
<1>5. CASE UrlOf[s] # u
  <2>1. Ahead(s)' = Ahead(s) /\ lead'[s] = lead[s]
        /\ stored'[UrlOf[s]] = stored[UrlOf[s]] /\ Ahead(s) \in Int
    BY <1>0, <1>1, <1>2, <1>4, <1>5 DEF Ahead
  <2> QED
    BY <1>0, <1>3, <2>1
<1>6. CASE UrlOf[s] = u
  <2>1. stored'[UrlOf[s]] # NoHash
    BY <1>0, <1>1, <1>6
  <2>2. CASE check[s].pc = "set"
    BY <1>0, <1>1, <1>2, <1>3, <1>6, <2>1, <2>2 DEF Ahead
  <2>3. CASE check[s].pc = "publish"
    BY <1>0, <1>1, <1>2, <1>3, <1>6, <2>1, <2>3 DEF Ahead
  <2>4. CASE check[s].pc \notin {"set", "publish"}
    <3>1. Ahead(s)' = Ahead(s) /\ Ahead(s) \in Int
      BY <1>4, <2>4 DEF Ahead
    <3> QED
      BY <1>0, <1>2, <1>3, <2>4, <3>1
  <2> QED
    BY <2>2, <2>3, <2>4
<1> QED
  BY <1>5, <1>6

\* A check that publishes twice has, between the two, seen the stored hash change.
LEMMA LeadStep == TypeOK /\ HashInv /\ LeadInv /\ [Next]_vars => LeadInv'
<1> SUFFICES ASSUME TypeOK, HashInv, LeadInv, [Next]_vars PROVE LeadInv'
  OBVIOUS
<1>0. /\ check \in [Checkers -> CheckRecords] /\ faults \in Nat
      /\ stored \in [Sources -> Hashes \cup {NoHash}]
      /\ lead \in [Checkers -> Int] /\ \A t \in Checkers : lead[t] >= -1
      /\ \A t \in Checkers : UrlOf[t] \in Sources
  BY DetectorAssumption DEF TypeOK
<1>1. ASSUME NEW t \in Checkers, CheckStep(t) PROVE LeadInv'
  <2>0. /\ \A s \in Checkers : Cancelled(s)' <=> Cancelled(s)
        /\ \A s \in Checkers \ {t} : check'[s] = check[s]
        /\ stop' = stop /\ faults' \in {faults, faults + 1}
    BY <1>1, CheckFrame DEF Cancelled, CheckStep, Begin, Exit, MakeLimiter,
         WaitForRateLimit, Fetch, GetPrevious, Publish, StoreHash, Count
  <2>1. ASSUME stored' = stored, \A s \in Checkers \ {t} : lead'[s] = lead[s],
               lead'[t] <= faults' + Ahead(t)',
               check'[t].pc = "publish" => stored[UrlOf[t]] # NoHash
        PROVE  LeadInv'
    <3>1. \A s \in Checkers \ {t} : Ahead(s)' = Ahead(s) /\ Ahead(s) \in Int
      BY <2>0, <2>1 DEF Ahead
    <3>2. \A s \in Checkers \ {t} : lead'[s] <= faults' + Ahead(s)'
      BY <1>0, <2>0, <2>1, <3>1 DEF LeadInv
    <3> QED
      BY <2>0, <2>1, <3>2 DEF LeadInv
  <2>2. lead[t] <= faults + Ahead(t)
    BY DEF LeadInv
  <2>3. CASE Begin(t) \/ Exit(t) \/ MakeLimiter(t) \/ WaitForRateLimit(t)
    <3>1. /\ stored' = stored /\ lead' = lead /\ faults' = faults
          /\ check[t].pc \in {"idle", "limiter", "wait"}
          /\ \/ check'[t].pc \in {"limiter", "wait", "exited", "idle"}
             \/ check'[t].pc = "fetch" /\ ~Cancelled(t)
      BY <1>0, <2>3 DEF Begin, Exit, MakeLimiter, WaitForRateLimit, Go, End,
           IdleCheck, CheckRecords, history
    <3>2. Ahead(t)' = Ahead(t)
      BY <2>0, <3>1 DEF Ahead
    <3> QED
      BY <2>1, <2>2, <3>1, <3>2
  <2>4. CASE Fetch(t)
    <3>1. /\ stored' = stored /\ lead' = lead /\ check[t].pc = "fetch"
          /\ check'[t].pc \in {"fetch", "get", "idle"}
      BY <1>0, <2>4 DEF Fetch, End, IdleCheck, CheckRecords, history
    <3>2. Ahead(t) = 0 /\ Ahead(t)' \in {0, 1}
      BY <3>1 DEF Ahead
    <3> QED
      BY <1>0, <2>0, <2>1, <2>2, <3>1, <3>2
  <2>5. CASE GetPrevious(t)
    <3>1. stored' = stored /\ lead' = lead /\ check[t].pc = "get"
      BY <2>4, <2>5 DEF GetPrevious
    <3>2. \/ check'[t].pc \in {"idle", "set"}
          \/ /\ check'[t].pc = "publish" /\ check'[t].hash = check[t].hash
             /\ check[t].hash # stored[UrlOf[t]] /\ stored[UrlOf[t]] # NoHash
      BY <1>0, <2>5 DEF GetPrevious, Compare, Go, End, IdleCheck, CheckRecords
    <3>3. Ahead(t) = 0 /\ Ahead(t)' \in {0, 1}
      BY <3>1, <3>2 DEF Ahead
    <3> QED
      BY <1>0, <2>0, <2>1, <2>2, <3>1, <3>2, <3>3
  <2>6. CASE Publish(t)
    <3>1. /\ stored' = stored /\ check[t].pc = "publish"
          /\ stored[UrlOf[t]] # NoHash
      BY <2>6 DEF Publish, LeadInv
    <3>2. lead'[t] \in {lead[t], lead[t] + 1}
          /\ \A s \in Checkers \ {t} : lead'[s] = lead[s]
      BY <1>0, <2>6 DEF Publish, Published
    <3>3. \/ /\ check'[t].pc = "set" /\ check'[t].hash = check[t].hash
          \/ /\ check'[t].pc = "idle"
             /\ Cancelled(t) \/ faults' = faults + 1
      BY <1>0, <2>6 DEF Publish, Count, Go, End, IdleCheck, CheckRecords
    <3>4. CASE check'[t].pc = "set" /\ check'[t].hash = check[t].hash
      <4>1. Ahead(t)' = Ahead(t) + 1 /\ Ahead(t) \in Int
        BY <3>1, <3>4 DEF Ahead
      <4>2. lead'[t] <= faults' + Ahead(t)'
        BY <1>0, <2>0, <2>2, <3>2, <4>1
      <4> QED
        BY <2>1, <3>1, <3>2, <3>4, <4>2
    <3>5. CASE check'[t].pc = "idle" /\ (Cancelled(t) \/ faults' = faults + 1)
      <4>1. Ahead(t) <= 0 /\ Ahead(t) \in Int /\ Ahead(t)' \in {0, 1}
            /\ (Cancelled(t) => Ahead(t)' = 1)
        BY <2>0, <3>1, <3>5 DEF Ahead
      <4>2. lead'[t] <= faults' + Ahead(t)'
        BY <1>0, <2>0, <2>2, <3>2, <3>5, <4>1
      <4> QED
        BY <2>1, <3>1, <3>2, <3>5, <4>2
    <3> QED
      BY <3>3, <3>4, <3>5
  <2>7. CASE StoreHash(t)
    <3>1. check'[t].pc = "idle" /\ check[t].pc = "set"
      BY <1>0, <2>7 DEF StoreHash, End, IdleCheck
    <3>2. Ahead(t) \in {0, 1} /\ Ahead(t)' = IF Cancelled(t) THEN 1 ELSE 0
      BY <2>0, <3>1 DEF Ahead
    <3>3. CASE stored' = stored /\ lead' = lead /\ (Cancelled(t) \/ faults' = faults + 1)
      <4>1. lead'[t] <= faults' + Ahead(t)'
        BY <1>0, <2>0, <2>2, <3>2, <3>3
      <4> QED
        BY <2>1, <3>1, <3>3, <4>1
    <3>4. CASE Stored(t)
      <4>1. \A s \in Checkers \ {t} :
              /\ lead'[s] <= faults' + Ahead(s)'
              /\ check'[s].pc = "publish" => stored'[UrlOf[s]] # NoHash
        <5>1. faults' >= faults /\ faults' \in Nat
          BY <1>0, <2>0
        <5> QED
          BY <2>0, <3>1, <3>4, <5>1, StoredAhead
      <4>2. lead'[t] = IF stored[UrlOf[t]] \notin {NoHash, check[t].hash} /\ lead[t] > -1
                       THEN lead[t] - 1 ELSE lead[t]
        BY <3>4 DEF Stored
      <4>3. lead'[t] <= faults
        <5>1. CASE stored[UrlOf[t]] \in {NoHash, check[t].hash}
          <6>1. Ahead(t) = 0
            BY <3>1, <5>1 DEF Ahead
          <6> QED
            BY <1>0, <2>2, <4>2, <5>1, <6>1
        <5>2. CASE stored[UrlOf[t]] \notin {NoHash, check[t].hash}
          BY <1>0, <2>2, <3>2, <4>2, <5>2
        <5> QED
          BY <5>1, <5>2
      <4>4. lead'[t] <= faults' + Ahead(t)'
        <5>1. lead'[t] \in Int
          BY <1>0, <4>2
        <5> QED
          BY <1>0, <2>0, <3>2, <4>3, <5>1
      <4> QED
        BY <3>1, <4>1, <4>4 DEF LeadInv
    <3> QED
      BY <2>7, <3>3, <3>4 DEF StoreHash, Count
  <2> QED
    BY <1>1, <2>3, <2>4, <2>5, <2>6, <2>7 DEF CheckStep
<1>2. CASE Crash
  <2>1. /\ lead' = lead /\ faults' = faults + 1 /\ stop' = "running"
        /\ \A t \in Checkers : check'[t].pc = "idle"
    BY <1>2 DEF Crash, history, IdleCheck
  <2>2. \A t \in Checkers : Ahead(t) \in {-1, 0, 1} /\ Ahead(t)' = 0
    BY <2>1 DEF Ahead, Cancelled
  <2>3. \A t \in Checkers : lead'[t] <= faults' + Ahead(t)'
    BY <1>0, <2>1, <2>2 DEF LeadInv
  <2> QED
    BY <2>1, <2>3 DEF LeadInv
<1>3. CASE StopCancel \/ StopDone \/ (\E u \in Sources : PageChanges(u))
             \/ UNCHANGED vars
  <2>1. /\ lead' = lead /\ faults' = faults /\ stored' = stored /\ check' = check
        /\ \A t \in Checkers : Cancelled(t) => Cancelled(t)'
    BY <1>3 DEF StopCancel, StopDone, PageChanges, vars, history, Cancelled
  <2>2. \A t \in Checkers : Ahead(t) <= Ahead(t)' /\ Ahead(t) \in Int /\ Ahead(t)' \in Int
    BY <2>1 DEF Ahead
  <2>3. \A t \in Checkers : lead'[t] <= faults' + Ahead(t)'
    BY <1>0, <2>1, <2>2 DEF LeadInv
  <2> QED
    BY <2>1, <2>3 DEF LeadInv
<1> QED
  BY <1>1, <1>2, <1>3 DEF Next

\* checkForChanges: however many check a page, whatever it shows and whatever fails,
\* an event is owed to a change of the stored hash, to a failure, to the store that
\* follows it or to Stop.
THEOREM EventsOwedToChanges == Spec => []OneEventPerChange
<1>1. Init => LeadInv
  <2> SUFFICES ASSUME Init PROVE LeadInv
    OBVIOUS
  <2>1. \A t \in Checkers : lead[t] = 0 /\ faults = 0 /\ Ahead(t) = 0
    BY DEF Init, Ahead, Cancelled, IdleCheck
  <2> QED
    BY <2>1 DEF Init, LeadInv, IdleCheck
<1>2. TypeOK /\ LeadInv => OneEventPerChange
  <2> SUFFICES ASSUME TypeOK, LeadInv, NEW t \in Checkers
               PROVE  lead[t] <= faults
                        + (IF check[t].pc = "set" \/ Cancelled(t) THEN 1 ELSE 0)
    BY DEF OneEventPerChange
  <2>1. lead[t] \in Int /\ faults \in Int /\ lead[t] <= faults + Ahead(t)
    BY DetectorAssumption DEF TypeOK, LeadInv
  <2>2. /\ Ahead(t) \in Int
        /\ Ahead(t) <= IF check[t].pc = "set" \/ Cancelled(t) THEN 1 ELSE 0
    BY DEF Ahead
  <2> QED
    BY <2>1, <2>2
<1>3. TypeOK /\ HashInv /\ LeadInv /\ [Next]_vars => LeadInv'
  BY LeadStep
<1> QED
  BY <1>1, <1>2, <1>3, HashesFetched, PTL DEF Spec
===============================================================================
