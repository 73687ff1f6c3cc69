----------------------- MODULE ConversationMemory_proofs -----------------------
(***************************************************************************)
(* Proofs about ConversationMemory for any number of concurrent requests,  *)
(* any failures and any administrative operation.                          *)
(***************************************************************************)
EXTENDS ConversationMemory, FiniteSetTheorems, SequenceTheorems, TLAPS

-----------------------------------------------------------------------------
(* The inductive invariant *)

\* The states of a request before it saves its first message.
Early == {"idle", "ensure", "memory", "redis", "query", "fillRedis",
          "fillMemory", "llm"}

\* SaveMessage has been called, with the message in the map, for ...
UserSent(r) ==
    \/ req[r].role = "assistant"
    \/ req[r].pc \in {"insert", "invalidate", "done", "dead"}
ReplySent(r) ==
    /\ req[r].role = "assistant"
    /\ req[r].pc \in {"insert", "invalidate", "done", "dead"}

\* The message is one its request has sent, with the time it was made at.
Sent(m) ==
    /\ m.role = "user" => m.at = req[m.by].start /\ UserSent(m.by)
    /\ m.role = "assistant" => m.at = req[m.by].at /\ ReplySent(m.by)

\* Time runs, and no two messages are made at the same time.
ClockInv ==
    /\ \A r \in Requests :
         /\ req[r].start < clock /\ req[r].at < clock
         /\ req[r].pc \in Early => req[r].role = "user"
         /\ req[r].role = "user" /\ req[r].pc \in {"append", "insert", "invalidate"}
              => req[r].at = req[r].start
         /\ req[r].role = "assistant" => req[r].start < req[r].at
    /\ \A r, s \in Requests :
         r # s /\ req[r].pc # "idle" /\ req[s].pc # "idle" =>
           /\ req[r].start # req[s].start
           /\ req[r].role = "assistant" => req[r].at # req[s].start
           /\ req[r].role = "assistant" /\ req[s].role = "assistant"
                => req[r].at # req[s].at

\* Every message is one that was sent; Redis and the rows a request holds were
\* read from the table.
KnownInv ==
    /\ IsFiniteSet(db)
    /\ \A m \in ToSet(mem) \cup db \cup erased \cup refused : Sent(m)
    /\ RedisIsCommitted
    /\ \A r \in Requests : ToSet(req[r].rows) \subseteq db \cup erased

\* The reply of a request comes after its message.
Ordered(s) ==
    \A i, j \in DOMAIN s :
        s[i].by = s[j].by /\ s[i].role = "user" /\ s[j].role = "assistant" => i < j

OrderInv ==
    /\ Ordered(mem) /\ Ordered(redis)
    /\ \A r \in Requests : /\ Ordered(req[r].rows) /\ IsInjective(req[r].rows)
                           /\ Ordered(req[r].hist)

\* A conversation that Process has to record has no other request yet.
EnsureInv ==
    \A r \in Requests :
        req[r].pc = "ensure" =>
          begin = "nil" /\ \A q \in Requests \ {r} : req[q].pc = "idle"

Saved(r, role) == \E m \in db \cup refused : m.by = r /\ m.role = role

\* What a request has saved, up to its point.
SavedInv ==
    /\ begin \in Begins
    /\ admin.pc = "idle" /\ begin = "post" => row
    /\ admin.pc = "idle" /\ row =>
         \A r \in Requests :
            /\ req[r].role = "assistant" => Saved(r, "user")
            /\ req[r].pc = "invalidate" => Saved(r, req[r].role)
            /\ req[r].pc = "done" /\ req[r].role = "assistant"
                 => Saved(r, "assistant")

MemoryInv == TypeOK /\ ClockInv /\ KnownInv /\ OrderInv /\ EnsureInv
               /\ MemoryIsCommittedOrPending /\ SavedInv

-----------------------------------------------------------------------------
(* The operators *)

\* The elements of a sequence: none of the empty one, one more of Append.
LEMMA ToSetFacts ==
  ASSUME NEW S, NEW s \in Seq(S), NEW e \in S
  PROVE  /\ ToSet(s) \subseteq S
         /\ ToSet(Append(s, e)) = ToSet(s) \cup {e}
         /\ ToSet(<<>>) = {}
<1>1. ToSet(s) \subseteq S /\ ToSet(<<>>) = {}
  BY DEF ToSet
<1>2. ToSet(Append(s, e)) = ToSet(s) \cup {e}
  <2>1. /\ Append(s, e) \in Seq(S) /\ Len(Append(s, e)) = Len(s) + 1
        /\ \A i \in 1 .. Len(s) : Append(s, e)[i] = s[i]
        /\ Append(s, e)[Len(s) + 1] = e
    OBVIOUS
  <2>2. DOMAIN Append(s, e) = 1 .. Len(s) + 1 /\ DOMAIN s = 1 .. Len(s)
    BY <2>1
  <2>3. \A x : x \in ToSet(Append(s, e)) <=> x \in ToSet(s) \cup {e}
    BY <2>1, <2>2 DEF ToSet
  <2> QED
    BY <2>3
<1> QED
  BY <1>1, <1>2

\* GetHistory's truncation leaves the end of a history.
LEMMA LatestFacts ==
  ASSUME NEW S, NEW s \in Seq(S)
  PROVE  /\ Latest(s) \in Seq(S)
         /\ \E k \in Nat : /\ Len(Latest(s)) + k = Len(s)
                           /\ \A i \in 1 .. Len(Latest(s)) : Latest(s)[i] = s[i + k]
<1>0. Limit \in Nat \ {0}
  BY MemoryAssumption
<1>1. CASE Len(s) <= Limit
  <2>1. Latest(s) = s
    BY <1>1 DEF Latest
  <2>2. Len(s) + 0 = Len(s) /\ \A i \in 1 .. Len(s) : s[i] = s[i + 0]
    OBVIOUS
  <2> QED
    BY <2>1, <2>2
<1>2. CASE Len(s) > Limit
  <2> DEFINE k == Len(s) - Limit
  <2>1. k \in Nat /\ Latest(s) = SubSeq(s, k + 1, Len(s))
    BY <1>0, <1>2 DEF Latest
  <2>2. k + 1 \in 1 .. Len(s) + 1 /\ Len(s) - (k + 1) + 1 = Limit
    BY <1>0, <1>2
  <2>3. /\ SubSeq(s, k + 1, Len(s)) \in Seq(S)
        /\ Len(SubSeq(s, k + 1, Len(s))) = Limit
        /\ \A i \in 1 .. Limit : SubSeq(s, k + 1, Len(s))[i] = s[(k + 1) + i - 1]
    BY <1>0, <2>1, <2>2
  <2>4. \A i \in 1 .. Limit : (k + 1) + i - 1 = i + k
    BY <1>0, <2>1
  <2>5. Limit + k = Len(s)
    BY <1>0
  <2> HIDE DEF k
  <2> QED
    BY <2>1, <2>3, <2>4, <2>5
<1> QED
  BY <1>0, <1>1, <1>2

\* Rows made at different times have different numbers of older rows, 0 .. n - 1.
LEMMA RowRanks ==
  ASSUME NEW rows, rows \subseteq Message, IsFiniteSet(rows),
         \A m, n \in rows : m.at = n.at => m = n
  PROVE  /\ \A m, n \in rows : m.at < n.at =>
              Cardinality({x \in rows : x.at < m.at})
                < Cardinality({x \in rows : x.at < n.at})
         /\ \A k \in 0 .. Cardinality(rows) - 1 :
              \E m \in rows : Cardinality({x \in rows : x.at < m.at}) = k
         /\ \A m \in rows : Cardinality({x \in rows : x.at < m.at})
                              \in 0 .. Cardinality(rows) - 1
<1> DEFINE Older(m) == {x \in rows : x.at < m.at}
           rank == [m \in rows |-> Cardinality(Older(m))]
           n == Cardinality(rows)
<1>0. n \in Nat /\ \A m \in rows : m.at \in Nat
  BY FS_CardinalityType DEF Message
<1>1. ASSUME NEW m \in rows
      PROVE  IsFiniteSet(Older(m)) /\ Cardinality(Older(m)) \in 0 .. n - 1
  <2>1. Older(m) \in SUBSET (rows \ {m})
    BY <1>0
  <2>2. IsFiniteSet(rows \ {m}) /\ Cardinality(rows \ {m}) = n - 1
    BY FS_RemoveElement
  <2>3. IsFiniteSet(Older(m)) /\ Cardinality(Older(m)) <= n - 1
    BY <2>1, <2>2, FS_Subset
  <2>4. Cardinality(Older(m)) \in Nat
    BY <2>3, FS_CardinalityType
  <2> QED
    BY <1>0, <2>3, <2>4
<1>2. ASSUME NEW k \in rows, NEW m \in rows, k.at < m.at
      PROVE  Cardinality(Older(k)) < Cardinality(Older(m))
  <2>1. Older(k) \in SUBSET Older(m) /\ k \in Older(m) /\ k \notin Older(k)
    BY <1>0, <1>2
  <2>2. Cardinality(Older(k)) <= Cardinality(Older(m))
    BY <1>1, <2>1, FS_Subset
  <2>3. Cardinality(Older(k)) # Cardinality(Older(m))
    BY <1>1, <2>1, FS_Subset
  <2>4. Cardinality(Older(k)) \in Nat /\ Cardinality(Older(m)) \in Nat
    BY <1>1, FS_CardinalityType
  <2> QED
    BY <2>2, <2>3, <2>4
<1>3. rank \in [rows -> 0 .. n - 1]
  BY <1>1
<1>4. \A k, m \in rows : rank[k] = rank[m] => k = m
  <2> SUFFICES ASSUME NEW k \in rows, NEW m \in rows, k # m PROVE rank[k] # rank[m]
    OBVIOUS
  <2>1. k.at < m.at \/ m.at < k.at
    BY <1>0
  <2>2. rank[k] \in Nat /\ rank[m] \in Nat
    BY <1>0, <1>3
  <2>3. rank[k] = Cardinality(Older(k)) /\ rank[m] = Cardinality(Older(m))
    OBVIOUS
  <2> HIDE DEF rank, Older
  <2> QED
    BY <1>2, <2>1, <2>2, <2>3
<1>5. rank \in Injection(rows, 0 .. n - 1)
  BY <1>3, <1>4 DEF Injection, IsInjective
<1>6. IsFiniteSet(0 .. n - 1) /\ Cardinality(0 .. n - 1) = n
  <2>1. n - 1 \in Int /\ 0 \in Int /\ (0 > n - 1 => n = 0) /\ n - 1 - 0 + 1 = n
    BY <1>0
  <2> HIDE DEF n
  <2> QED
    BY <2>1, FS_Interval
<1>7. rank \in Surjection(rows, 0 .. n - 1)
  <2> HIDE DEF rank
  <2> QED
    BY <1>5, <1>6, FS_Injection
<1>8. ASSUME NEW k \in 0 .. n - 1
      PROVE  \E m \in rows : Cardinality(Older(m)) = k
  BY <1>7 DEF Surjection
<1> QED
  BY <1>1, <1>2, <1>8

\* The query returns exactly the rows of the table, oldest first.
LEMMA ByTimeFacts ==
  ASSUME NEW rows, rows \subseteq Message, IsFiniteSet(rows),
         \A m, n \in rows : m.at = n.at => m = n
  PROVE  /\ ByTime(rows) \in Seq(Message)
         /\ Len(ByTime(rows)) = Cardinality(rows)
         /\ ToSet(ByTime(rows)) = rows
         /\ \A i, j \in 1 .. Len(ByTime(rows)) :
              i < j => ByTime(rows)[i].at < ByTime(rows)[j].at
<1> DEFINE Older(m) == {x \in rows : x.at < m.at}
           s == ByTime(rows)
           n == Cardinality(rows)
<1>0. n \in Nat /\ \A m \in rows : m.at \in Nat
  BY FS_CardinalityType DEF Message
<1>1. ASSUME NEW i \in 1 .. n
      PROVE  s[i] \in rows /\ Cardinality(Older(s[i])) = i - 1
  <2>1. s[i] = CHOOSE m \in rows : Cardinality(Older(m)) = i - 1
    BY DEF ByTime
  <2>2. i - 1 \in 0 .. n - 1
    BY <1>0
  <2>3. \E m \in rows : Cardinality(Older(m)) = i - 1
    BY <2>2, RowRanks
  <2> HIDE DEF s
  <2> QED
    BY <2>1, <2>3
<1>2. s \in Seq(Message) /\ Len(s) = n /\ DOMAIN s = 1 .. n
  <2>1. s \in [1 .. n -> Message]
    BY <1>1 DEF ByTime
  <2> HIDE DEF s
  <2> QED
    BY <1>0, <2>1
<1>3. ASSUME NEW i \in 1 .. n, NEW j \in 1 .. n, i < j
      PROVE  s[i].at < s[j].at
  <2>1. /\ s[i] \in rows /\ s[j] \in rows
        /\ Cardinality(Older(s[i])) = i - 1 /\ Cardinality(Older(s[j])) = j - 1
    BY <1>1
  <2>0. \A k, m \in rows : k.at < m.at => Cardinality(Older(k)) < Cardinality(Older(m))
    BY RowRanks
  <2> HIDE DEF s, Older
  <2>2. s[j].at < s[i].at => j - 1 < i - 1
    BY <2>0, <2>1
  <2>3. s[j].at = s[i].at => s[j] = s[i]
    BY <2>1
  <2>4. ~(j - 1 < i - 1) /\ i - 1 # j - 1
    BY <1>0, <1>3
  <2>5. s[i].at \in Nat /\ s[j].at \in Nat
    BY <1>0, <2>1
  <2>6. s[j].at # s[i].at
    BY <2>1, <2>3, <2>4
  <2> QED
    BY <2>2, <2>4, <2>5, <2>6
<1>4. rows \subseteq ToSet(s)
  <2> SUFFICES ASSUME NEW m \in rows PROVE m \in ToSet(s)
    OBVIOUS
  <2>1. Cardinality(Older(m)) \in 0 .. n - 1
    BY RowRanks
  <2>2. PICK i \in 1 .. n : Cardinality(Older(m)) = i - 1
    <3>1. Cardinality(Older(m)) + 1 \in 1 .. n
      BY <1>0, <2>1
    <3>2. Cardinality(Older(m)) = (Cardinality(Older(m)) + 1) - 1
      BY <1>0, <2>1
    <3> QED
      BY <3>1, <3>2
  <2>3. s[i] \in rows /\ Cardinality(Older(s[i])) = i - 1
    BY <1>1
  <2> HIDE DEF s
  <2>4. ~(m.at < s[i].at) /\ ~(s[i].at < m.at)
    <3>1. m.at < s[i].at => Cardinality(Older(m)) < Cardinality(Older(s[i]))
      BY <2>3, RowRanks
    <3>2. s[i].at < m.at => Cardinality(Older(s[i])) < Cardinality(Older(m))
      BY <2>3, RowRanks
    <3>3. ~(i - 1 < i - 1)
      BY <1>0
    <3> QED
      BY <2>2, <2>3, <3>1, <3>2, <3>3
  <2>5. m.at = s[i].at
    BY <1>0, <2>3, <2>4
  <2>6. m = s[i]
    BY <2>3, <2>5
  <2> QED
    BY <1>2, <2>6 DEF ToSet
<1>5. ToSet(s) \subseteq rows
  BY <1>1, <1>2 DEF ToSet
<1> HIDE DEF s
<1> QED
  BY <1>2, <1>3, <1>4, <1>5 DEF s

\* What Latest leaves of an ordered history is ordered, and made of its messages.
LEMMA LatestKeeps ==
  ASSUME NEW s \in Seq(Message)
  PROVE  /\ Latest(s) \in Seq(Message) /\ ToSet(Latest(s)) \subseteq ToSet(s)
         /\ Ordered(s) => Ordered(Latest(s))
         /\ IsInjective(s) => IsInjective(Latest(s))
<1> DEFINE l == Latest(s)
<1>1. l \in Seq(Message)
  BY LatestFacts
<1>2. PICK k \in Nat : /\ Len(l) + k = Len(s)
                       /\ \A i \in 1 .. Len(l) : l[i] = s[i + k]
  BY LatestFacts
<1> HIDE DEF l
<1>3. DOMAIN l = 1 .. Len(l) /\ DOMAIN s = 1 .. Len(s) /\ Len(l) \in Nat
  BY <1>1
<1>4. \A i \in 1 .. Len(l) : i + k \in 1 .. Len(s)
  BY <1>2, <1>3
<1>5. ToSet(l) \subseteq ToSet(s)
  BY <1>2, <1>3, <1>4 DEF ToSet
<1>6. Ordered(s) => Ordered(l)
  <2> SUFFICES ASSUME Ordered(s), NEW i \in 1 .. Len(l), NEW j \in 1 .. Len(l),
                      l[i].by = l[j].by, l[i].role = "user", l[j].role = "assistant"
               PROVE  i < j
    BY <1>3 DEF Ordered
  <2>1. i + k < j + k
    BY <1>2, <1>3, <1>4 DEF Ordered
  <2> QED
    BY <2>1
<1>7. IsInjective(s) => IsInjective(l)
  <2> SUFFICES ASSUME IsInjective(s), NEW i \in 1 .. Len(l), NEW j \in 1 .. Len(l),
                      l[i] = l[j]
               PROVE  i = j
    BY <1>3 DEF IsInjective
  <2>1. i + k = j + k
    BY <1>2, <1>3, <1>4 DEF IsInjective
  <2> QED
    BY <2>1
<1> QED
  BY <1>1, <1>5, <1>6, <1>7 DEF l

-----------------------------------------------------------------------------
(* The rows of the table *)

\* No two rows were made at the same time.
LEMMA RowsDistinct ==
  ASSUME TypeOK, ClockInv, KnownInv, NEW m \in db, NEW n \in db, m.at = n.at
  PROVE  m = n
<1>1. /\ m \in Message /\ n \in Message
      /\ req \in [Requests -> RequestRecords] /\ Sent(m) /\ Sent(n)
  BY DEF TypeOK, KnownInv
<1>2. m.by \in Requests /\ n.by \in Requests /\ m.role \in Roles /\ n.role \in Roles
  BY <1>1 DEF Message
<1>3. \A r \in Requests : UserSent(r) => req[r].pc # "idle"
  BY DEF UserSent, ClockInv, Early
<1>4. \A r \in Requests : ReplySent(r) => UserSent(r) /\ req[r].role = "assistant"
  BY DEF UserSent, ReplySent
<1>5. \A r \in Requests : req[r].start \in Nat /\ req[r].at \in Nat
  BY <1>1 DEF RequestRecords
<1>6. CASE m.by # n.by
  BY <1>1, <1>2, <1>3, <1>4, <1>6 DEF ClockInv, Sent, Roles
<1>7. CASE m.by = n.by
  <2>1. m.role = n.role
    BY <1>1, <1>2, <1>4, <1>5, <1>7 DEF ClockInv, Sent, Roles
  <2> QED
    BY <1>1, <1>7, <2>1 DEF Message
<1> QED
  BY <1>6, <1>7

\* What QueryMessages reads: distinct rows of the table, each reply after its
\* message.
LEMMA QueriedRows ==
  ASSUME TypeOK, ClockInv, KnownInv
  PROVE  /\ Latest(ByTime(db)) \in Seq(Message)
         /\ ToSet(Latest(ByTime(db))) \subseteq db
         /\ Ordered(Latest(ByTime(db))) /\ IsInjective(Latest(ByTime(db)))
<1> DEFINE s == ByTime(db)
<1>1. db \subseteq Message /\ IsFiniteSet(db)
  BY DEF TypeOK, KnownInv
<1>2. \A m, n \in db : m.at = n.at => m = n
  BY RowsDistinct
<1>3. /\ s \in Seq(Message) /\ ToSet(s) = db
      /\ \A i, j \in 1 .. Len(s) : i < j => s[i].at < s[j].at
  BY <1>1, <1>2, ByTimeFacts
<1> HIDE DEF s
<1>4. DOMAIN s = 1 .. Len(s) /\ \A i \in 1 .. Len(s) : s[i] \in db
  BY <1>3 DEF ToSet
<1>5. \A m \in db : m.at \in Nat /\ m.by \in Requests
  BY <1>1 DEF Message
<1>6. \A i, j \in 1 .. Len(s) : s[i].at < s[j].at => i < j
  BY <1>3, <1>4, <1>5
<1>7. IsInjective(s)
  BY <1>3, <1>4, <1>5 DEF IsInjective
<1>8. Ordered(s)
  <2> SUFFICES ASSUME NEW i \in 1 .. Len(s), NEW j \in 1 .. Len(s),
                      s[i].by = s[j].by, s[i].role = "user", s[j].role = "assistant"
               PROVE  s[i].at < s[j].at
    BY <1>4, <1>6 DEF Ordered
  <2>1. Sent(s[i]) /\ Sent(s[j]) /\ s[i].by \in Requests
    BY <1>4, <1>5 DEF KnownInv
  <2> QED
    BY <2>1 DEF Sent, ReplySent, ClockInv
<1> QED
  BY <1>3, <1>7, <1>8, LatestKeeps DEF s

-----------------------------------------------------------------------------
(* Types *)

\* A request that has not begun.
LEMMA IdleRequestType == IdleRequest \in RequestRecords
<1>1. /\ <<>> \in Seq(Message) /\ 0 \in Nat /\ "user" \in Roles /\ FALSE \in BOOLEAN
      /\ "idle" \in RequestPcs
  BY DEF Roles, RequestPcs
<1> QED
  BY <1>1, Zenon DEF IdleRequest, RequestRecords

\* The updates of one request's record keep its type.
LEMMA RequestUpdate ==
  ASSUME req \in [Requests -> RequestRecords], NEW r \in Requests
  PROVE  /\ \A pc \in RequestPcs :
              [req EXCEPT ![r].pc = pc] \in [Requests -> RequestRecords]
         /\ \A pc \in RequestPcs, start \in Nat, late \in BOOLEAN :
              [req EXCEPT ![r].pc = pc, ![r].start = start, ![r].late = late]
                \in [Requests -> RequestRecords]
         /\ \A pc \in RequestPcs, hist \in Seq(Message) :
              [req EXCEPT ![r].pc = pc, ![r].hist = hist]
                \in [Requests -> RequestRecords]
         /\ \A pc \in RequestPcs, rows \in Seq(Message) :
              [req EXCEPT ![r].rows = rows, ![r].pc = pc]
                \in [Requests -> RequestRecords]
         /\ \A pc \in RequestPcs, at \in Nat :
              [req EXCEPT ![r].pc = pc, ![r].at = at]
                \in [Requests -> RequestRecords]
         /\ \A pc \in RequestPcs, role \in Roles, at \in Nat :
              [req EXCEPT ![r].pc = pc, ![r].role = role, ![r].at = at]
                \in [Requests -> RequestRecords]
BY ZenonT(30) DEF RequestRecords

\* A step of a request keeps the type of its record.
LEMMA RequestStepType ==
  ASSUME TypeOK, ClockInv, KnownInv, NEW r \in Requests, RequestStep(r)
  PROVE  req' \in [Requests -> RequestRecords]
<1>0. /\ req \in [Requests -> RequestRecords] /\ clock \in Nat
      /\ mem \in Seq(Message) /\ redis \in Seq(Message)
      /\ req[r].rows \in Seq(Message) /\ req[r].start \in Nat
  BY DEF TypeOK, RequestRecords
<1>pc. /\ "ensure" \in RequestPcs /\ "memory" \in RequestPcs /\ "redis" \in RequestPcs
       /\ "query" \in RequestPcs /\ "fillRedis" \in RequestPcs
       /\ "fillMemory" \in RequestPcs /\ "llm" \in RequestPcs
       /\ "append" \in RequestPcs /\ "insert" \in RequestPcs
       /\ "invalidate" \in RequestPcs /\ "done" \in RequestPcs
       /\ "assistant" \in Roles
  BY DEF RequestPcs, Roles
<1> USE <1>0
<1>go. ASSUME NEW pc \in RequestPcs, Go(r, pc)
       PROVE  req' \in [Requests -> RequestRecords]
  BY <1>go, RequestUpdate, Zenon DEF Go
<1>next. ASSUME NextMessage(r) PROVE req' \in [Requests -> RequestRecords]
  <2>1. CASE req[r].role = "user"
    <3>1. req' = [req EXCEPT ![r].pc = "append", ![r].role = "assistant",
                             ![r].at = clock]
      BY <1>next, <2>1 DEF NextMessage
    <3> QED
      BY <1>pc, <3>1, RequestUpdate, Zenon
  <2>2. CASE req[r].role # "user"
    BY <1>pc, <1>go, <1>next, <2>2 DEF NextMessage
  <2> QED
    BY <2>1, <2>2
<1>1. CASE Start(r)
  <2> DEFINE pc == IF First(r) /\ begin = "nil" THEN "ensure" ELSE "memory"
             late == admin.pc = "done"
  <2>1. pc \in RequestPcs /\ late \in BOOLEAN
    BY <1>pc
  <2>2. req' = [req EXCEPT ![r].pc = pc, ![r].start = clock, ![r].late = late]
    BY <1>1 DEF Start
  <2> HIDE DEF pc, late
  <2> QED
    BY <2>1, <2>2, RequestUpdate, Zenon
<1>2. CASE EnsureConversation(r) \/ FillRedis(r) \/ AppendMemory(r)
  BY <1>2, <1>pc, <1>go DEF EnsureConversation, FillRedis, AppendMemory
<1>3. ASSUME NEW pc \in RequestPcs, NEW hist \in Seq(Message),
             req' = [req EXCEPT ![r].pc = pc, ![r].hist = hist]
      PROVE  req' \in [Requests -> RequestRecords]
  BY <1>3, RequestUpdate, Zenon
<1>4. Latest(mem) \in Seq(Message) /\ Latest(redis) \in Seq(Message)
  BY LatestKeeps
<1>5. CASE ReadMemory(r) \/ ReadRedis(r)
  BY <1>pc, <1>go, <1>3, <1>4, <1>5 DEF ReadMemory, ReadRedis
<1>6. CASE QueryMessages(r)
  <2> DEFINE rows == Latest(ByTime(db))
             pc == IF rows = <<>> THEN "fillMemory" ELSE "fillRedis"
  <2>1. rows \in Seq(Message) /\ pc \in RequestPcs
    BY <1>pc, QueriedRows
  <2>2. req' = [req EXCEPT ![r].rows = rows, ![r].pc = pc] \/ Go(r, "llm")
    BY <1>6 DEF QueryMessages
  <2> HIDE DEF rows, pc
  <2>3. [req EXCEPT ![r].rows = rows, ![r].pc = pc] \in [Requests -> RequestRecords]
    BY <2>1, RequestUpdate, Zenon
  <2> QED
    BY <1>pc, <1>go, <2>2, <2>3
<1>7. CASE FillMemory(r)
  BY <1>pc, <1>3, <1>7 DEF FillMemory
<1>8. CASE CallLLM(r)
  <2>1. [req EXCEPT ![r].pc = "append", ![r].at = req[r].start]
           \in [Requests -> RequestRecords]
    BY <1>pc, RequestUpdate, Zenon
  <2> QED
    BY <1>pc, <1>go, <1>8, <2>1 DEF CallLLM
<1>9. CASE InsertMessage(r) \/ DeleteCached(r)
  BY <1>pc, <1>go, <1>next, <1>9 DEF InsertMessage, DeleteCached
<1> QED
  BY <1>1, <1>2, <1>5, <1>6, <1>7, <1>8, <1>9 DEF RequestStep

\* Every step keeps the types.
LEMMA MemoryTypeStep ==
  TypeOK /\ ClockInv /\ KnownInv /\ [Next]_vars => TypeOK'
<1> SUFFICES ASSUME TypeOK, ClockInv, KnownInv, [Next]_vars PROVE TypeOK'
  OBVIOUS
<1>1. ASSUME NEW r \in Requests, RequestStep(r) PROVE TypeOK'
  <2>1. req' \in [Requests -> RequestRecords]
    BY <1>1, RequestStepType
  <2>2. Saving(r) \in Message
    BY DEF Saving, Message, TypeOK, RequestRecords
  <2>3. req[r].rows \in Seq(Message) /\ <<>> \in Seq(Message)
    BY DEF TypeOK, RequestRecords
  <2>7. /\ mem' = mem \/ mem' = req[r].rows \/ mem' = Append(mem, Saving(r))
        /\ redis' = redis \/ redis' = req[r].rows \/ redis' = <<>>
    BY <1>1
      DEF RequestStep, Start, EnsureConversation, ReadMemory, ReadRedis,
          QueryMessages, FillRedis, FillMemory, CallLLM, AppendMemory,
          InsertMessage, DeleteCached
  <2>4. mem' \in Seq(Message) /\ redis' \in Seq(Message)
    <3>1. mem \in Seq(Message) /\ redis \in Seq(Message)
      BY DEF TypeOK
    <3>2. Append(mem, Saving(r)) \in Seq(Message)
      BY <2>2, <3>1
    <3> QED
      BY <2>3, <2>7, <3>1, <3>2, Zenon
  <2>5. /\ db' \subseteq Message /\ refused' \subseteq Message /\ row' \in BOOLEAN
        /\ clock' \in Nat
    <3>1. /\ db' = db \/ db' = db \cup {Saving(r)}
          /\ refused' = refused \/ refused' = refused \cup {Saving(r)}
          /\ row' = row \/ row' = TRUE
          /\ clock' = clock \/ clock' = clock + 1
      BY <1>1
        DEF RequestStep, Start, EnsureConversation, ReadMemory, ReadRedis,
            QueryMessages, FillRedis, FillMemory, CallLLM, AppendMemory,
            InsertMessage, DeleteCached, NextMessage
    <3>2. /\ db \subseteq Message /\ refused \subseteq Message
          /\ row \in BOOLEAN /\ clock \in Nat
      BY DEF TypeOK
    <3>3. row' \in BOOLEAN
      BY <3>1, <3>2, Zenon
    <3> QED
      BY <2>2, <3>1, <3>2, <3>3
  <2>6. UNCHANGED <<begin, admin, erased>>
    BY <1>1
      DEF RequestStep, Start, EnsureConversation, ReadMemory, ReadRedis,
          QueryMessages, FillRedis, FillMemory, CallLLM, AppendMemory,
          InsertMessage, DeleteCached
  <2> QED
    BY <2>1, <2>4, <2>5, <2>6 DEF TypeOK
<1>2. CASE AdminStep
  <2>1. UNCHANGED <<clock, begin, req, refused>>
    BY <1>2 DEF AdminStep, AdminBegin, ForgetMemory, ClearRedis, DeleteMessages,
         DeleteRow
  <2>2. /\ mem' \in Seq(Message) /\ redis' \in Seq(Message)
        /\ db' \subseteq Message /\ erased' \subseteq Message /\ row' \in BOOLEAN
    <3>1. /\ mem' = mem \/ mem' = <<>>
          /\ redis' = redis \/ redis' = <<>>
          /\ (db' = db /\ erased' = erased) \/ (db' = {} /\ erased' = erased \cup db)
          /\ row' = row \/ row' = FALSE
      BY <1>2 DEF AdminStep, AdminBegin, ForgetMemory, ClearRedis,
           DeleteMessages, DeleteRow
    <3>2. /\ mem \in Seq(Message) /\ redis \in Seq(Message)
          /\ <<>> \in Seq(Message) /\ row \in BOOLEAN
          /\ db \subseteq Message /\ erased \subseteq Message
      BY DEF TypeOK
    <3>3. /\ mem' \in Seq(Message) /\ redis' \in Seq(Message)
          /\ row' \in BOOLEAN
      BY <3>1, <3>2, Zenon
    <3> QED
      BY <3>1, <3>2, <3>3
  <2>3. admin' \in [op : {"none", "clear", "archive", "delete"},
                    pc : {"idle", "memory", "redis", "rows", "conversation", "done",
                          "failed"}]
    BY <1>2, MemoryAssumption
      DEF TypeOK, AdminStep, AdminBegin, ForgetMemory, ClearRedis,
          DeleteMessages, DeleteRow, AdminGo
  <2> QED
    BY <2>1, <2>2, <2>3 DEF TypeOK
<1>3. CASE Expire
  BY <1>3 DEF Expire, TypeOK
<1>4. CASE Restart
  <2>1. req' \in [Requests -> RequestRecords]
    <3>1. \A r \in Requests : [req[r] EXCEPT !.pc = "dead"] \in RequestRecords
      <4>1. "dead" \in RequestPcs /\ req \in [Requests -> RequestRecords]
        BY DEF RequestPcs, TypeOK
      <4> QED
        BY <4>1, Zenon DEF RequestRecords
    <3> QED
      BY <1>4, <3>1 DEF Restart, TypeOK
  <2>2. mem' = <<>> /\ UNCHANGED <<redis, db, row, clock, begin, erased, refused>>
    BY <1>4 DEF Restart
  <2>3. admin' \in [op : {"none", "clear", "archive", "delete"},
                    pc : {"idle", "memory", "redis", "rows", "conversation", "done",
                          "failed"}]
    BY <1>4 DEF TypeOK, Restart
  <2> QED
    BY <2>1, <2>2, <2>3 DEF TypeOK
<1>5. CASE UNCHANGED vars
  BY <1>5 DEF vars, TypeOK
<1> QED
  BY <1>1, <1>2, <1>3, <1>4, <1>5 DEF Next

-----------------------------------------------------------------------------
(* Time and the messages sent *)

\* How a request's record moves on: from pc to pc, with the times it gives to its
\* messages.
Moves(r) ==
    LET old == req[r] new == req'[r] IN
    \/ /\ old.pc = "idle" /\ new.pc \in {"ensure", "memory"}
       /\ new.start = clock /\ clock' = clock + 1
       /\ new.role = old.role /\ new.at = old.at
    \/ /\ new.start = old.start
       /\ \/ /\ old.pc \in Early \ {"idle"}
             /\ new.pc \in (Early \ {"idle", "ensure"}) \cup {"done"}
             /\ new.role = old.role /\ new.at = old.at /\ clock' = clock
          \/ /\ old.pc = "llm" /\ new.pc = "append"
             /\ new.role = old.role /\ new.at = old.start /\ clock' = clock
          \/ /\ \/ old.pc = "append" /\ new.pc = "insert"
                \/ old.pc = "insert" /\ new.pc = "invalidate"
                \/ /\ old.pc \in {"insert", "invalidate"} /\ new.pc = "done"
                   /\ old.role = "assistant"
             /\ new.role = old.role /\ new.at = old.at /\ clock' = clock
          \/ /\ old.pc \in {"insert", "invalidate"} /\ new.pc = "append"
             /\ old.role = "user" /\ new.role = "assistant"
             /\ new.at = clock /\ clock' = clock + 1

\* A step of a request moves its own record only.
LEMMA RequestMoves ==
  ASSUME TypeOK, NEW r \in Requests, RequestStep(r)
  PROVE  Moves(r) /\ \A s \in Requests \ {r} : req'[s] = req[s]
<1>0. /\ req \in [Requests -> RequestRecords] /\ req[r].role \in Roles
  BY DEF TypeOK, RequestRecords
<1> USE <1>0 DEF RequestRecords, Moves, Early
<1>go. ASSUME NEW pc, Go(r, pc)
       PROVE  /\ \A s \in Requests \ {r} : req'[s] = req[s]
              /\ req'[r].pc = pc /\ req'[r].start = req[r].start
              /\ req'[r].role = req[r].role /\ req'[r].at = req[r].at
  BY <1>go DEF Go
<1>next. ASSUME NextMessage(r), req[r].pc \in {"insert", "invalidate"}
         PROVE  Moves(r) /\ \A s \in Requests \ {r} : req'[s] = req[s]
  <2>1. CASE req[r].role = "user"
    BY <1>next, <2>1 DEF NextMessage
  <2>2. CASE req[r].role # "user"
    BY <1>go, <1>next, <2>2 DEF NextMessage, Roles
  <2> QED
    BY <2>1, <2>2
<1>1. CASE Start(r)
  BY <1>1 DEF Start
<1>2. CASE EnsureConversation(r) \/ FillRedis(r) \/ AppendMemory(r)
  BY <1>2, <1>go DEF EnsureConversation, FillRedis, AppendMemory
<1>3. CASE ReadMemory(r)
  <2>1. CASE Go(r, "redis")
    BY <1>3, <1>go, <2>1 DEF ReadMemory
  <2>2. CASE req' = [req EXCEPT ![r].pc = "llm", ![r].hist = Latest(mem)]
    BY <1>3, <2>2 DEF ReadMemory
  <2> QED
    BY <1>3, <2>1, <2>2 DEF ReadMemory
<1>4. CASE ReadRedis(r)
  <2>1. CASE Go(r, "query")
    BY <1>4, <1>go, <2>1 DEF ReadRedis
  <2>2. CASE req' = [req EXCEPT ![r].pc = "llm", ![r].hist = Latest(redis)]
    BY <1>4, <2>2 DEF ReadRedis
  <2> QED
    BY <1>4, <2>1, <2>2 DEF ReadRedis
<1>5. CASE QueryMessages(r)
  <2> DEFINE rows == Latest(ByTime(db))
  <2>1. CASE Go(r, "llm")
    BY <1>5, <1>go, <2>1 DEF QueryMessages
  <2>2. CASE req' = [req EXCEPT ![r].rows = rows,
                       ![r].pc = IF rows = <<>> THEN "fillMemory" ELSE "fillRedis"]
    <3>1. req[r].pc = "query" /\ clock' = clock
      BY <1>5 DEF QueryMessages
    <3> HIDE DEF rows
    <3> QED
      BY <2>2, <3>1
  <2> QED
    BY <1>5, <2>1, <2>2 DEF QueryMessages
<1>6. CASE FillMemory(r)
  BY <1>6 DEF FillMemory
<1>7. CASE CallLLM(r)
  <2>1. CASE Go(r, "done")
    BY <1>7, <1>go, <2>1 DEF CallLLM
  <2>2. CASE req' = [req EXCEPT ![r].pc = "append", ![r].at = req[r].start]
    BY <1>7, <2>2 DEF CallLLM
  <2> QED
    BY <1>7, <2>1, <2>2 DEF CallLLM
<1>8. CASE InsertMessage(r)
  <2>1. CASE Go(r, "invalidate") /\ clock' = clock
    BY <1>8, <1>go, <2>1 DEF InsertMessage
  <2>2. CASE NextMessage(r)
    BY <1>8, <1>next, <2>2 DEF InsertMessage
  <2> QED
    BY <1>8, <2>1, <2>2 DEF InsertMessage
<1>9. CASE DeleteCached(r)
  BY <1>9, <1>next DEF DeleteCached
<1> QED
  BY <1>1, <1>2, <1>3, <1>4, <1>5, <1>6, <1>7, <1>8, <1>9 DEF RequestStep

\* What a restart leaves of the requests.
LEMMA RestartMoves ==
  ASSUME TypeOK, Restart
  PROVE  /\ \A r \in Requests :
              /\ req'[r].pc = IF r \in InFlight THEN "dead" ELSE req[r].pc
              /\ req'[r].start = req[r].start /\ req'[r].at = req[r].at
              /\ req'[r].role = req[r].role /\ req'[r].hist = req[r].hist
              /\ req'[r].rows = req[r].rows
         /\ clock' = clock
<1>1. req \in [Requests -> RequestRecords]
  BY DEF TypeOK
<1> QED
  BY <1>1 DEF Restart, RequestRecords

\* The steps that are no request's leave the requests and the clock.
LEMMA OtherMoves ==
  ASSUME AdminStep \/ Expire \/ UNCHANGED vars
  PROVE  req' = req /\ clock' = clock
BY DEF AdminStep, AdminBegin, ForgetMemory, ClearRedis, DeleteMessages, DeleteRow,
   Expire, vars

\* The clock runs ahead of the messages, and gives each a time of its own.
LEMMA ClockStep == TypeOK /\ ClockInv /\ [Next]_vars => ClockInv'
<1> SUFFICES ASSUME TypeOK, ClockInv, [Next]_vars PROVE ClockInv'
  OBVIOUS
<1>0. /\ clock \in Nat
      /\ \A r \in Requests : /\ req[r].start \in Nat /\ req[r].at \in Nat
                             /\ req[r].role \in Roles
  BY DEF TypeOK, RequestRecords
<1>1. ASSUME NEW r \in Requests, RequestStep(r) PROVE ClockInv'
  <2>1. Moves(r) /\ \A s \in Requests \ {r} : req'[s] = req[s]
    BY <1>1, RequestMoves
  <2>2. clock' \in Nat /\ clock <= clock'
    BY <1>0, <2>1 DEF Moves
  <2>3. /\ req'[r].start < clock' /\ req'[r].at < clock'
        /\ req'[r].pc \in Early => req'[r].role = "user"
        /\ req'[r].role = "user" /\ req'[r].pc \in {"append", "insert", "invalidate"}
              => req'[r].at = req'[r].start
        /\ req'[r].role = "assistant" => req'[r].start < req'[r].at
    BY <1>0, <2>1 DEF Moves, ClockInv, Early, Roles
  <2>4. ASSUME NEW s \in Requests \ {r}
        PROVE  /\ req'[s] = req[s]
               /\ req[s].start < clock' /\ req[s].at < clock'
    BY <1>0, <2>1, <2>2 DEF ClockInv
  <2>5. ASSUME NEW s \in Requests \ {r}, req'[r].pc # "idle", req[s].pc # "idle"
        PROVE  /\ req'[r].start # req[s].start
               /\ req'[r].role = "assistant" => req'[r].at # req[s].start
               /\ req[s].role = "assistant" => req[s].at # req'[r].start
               /\ req'[r].role = "assistant" /\ req[s].role = "assistant"
                    => req'[r].at # req[s].at
    <3>1. /\ req[s].start < clock /\ req[s].at < clock
          /\ req[r].pc \in Early => req[r].role = "user"
      BY DEF ClockInv
    <3>2. req[r].pc # "idle" =>
            /\ req[r].start # req[s].start
            /\ req[r].role = "assistant" => req[r].at # req[s].start
            /\ req[s].role = "assistant" => req[s].at # req[r].start
            /\ req[r].role = "assistant" /\ req[s].role = "assistant"
                 => req[r].at # req[s].at
      BY <2>5 DEF ClockInv
    <3> QED
      BY <1>0, <2>1, <3>1, <3>2 DEF Moves, Early
  <2> QED
    BY <2>3, <2>4, <2>5 DEF ClockInv
<1>2. CASE Restart
  BY <1>2, RestartMoves DEF ClockInv, Early, InFlight
<1>3. CASE AdminStep \/ Expire \/ UNCHANGED vars
  BY <1>3, OtherMoves DEF ClockInv
<1> QED
  BY <1>1, <1>2, <1>3 DEF Next

\* A message that was sent stays sent, at its time.
LEMMA SentStable ==
  ASSUME TypeOK, ClockInv, [Next]_vars, NEW m \in Message, Sent(m)
  PROVE  Sent(m)'
<1>0. m.by \in Requests /\ m.role \in Roles
  BY DEF Message
<1>1. ASSUME NEW r \in Requests, RequestStep(r) PROVE Sent(m)'
  <2>1. Moves(r) /\ \A s \in Requests \ {r} : req'[s] = req[s]
    BY <1>1, RequestMoves
  <2>2. CASE m.by = r
    BY <2>1, <2>2
      DEF Moves, Sent, UserSent, ReplySent, ClockInv, Early
  <2>3. CASE m.by # r
    BY <1>0, <2>1, <2>3 DEF Sent, UserSent, ReplySent
  <2> QED
    BY <2>2, <2>3
<1>2. CASE Restart
  BY <1>0, <1>2, RestartMoves DEF Sent, UserSent, ReplySent, InFlight
<1>3. CASE AdminStep \/ Expire \/ UNCHANGED vars
  BY <1>3, OtherMoves DEF Sent, UserSent, ReplySent
<1> QED
  BY <1>1, <1>2, <1>3 DEF Next

-----------------------------------------------------------------------------
(* The tiers *)

\* What a step of a request writes in the tiers.
TierWrites(r) ==
    /\ \/ mem' = mem
       \/ req[r].pc = "fillMemory" /\ mem' = req[r].rows
       \/ req[r].pc = "append" /\ req'[r].pc = "insert" /\ mem' = Append(mem, Saving(r))
    /\ redis' = redis \/ redis' = req[r].rows \/ redis' = <<>>
    /\ \/ db' = db /\ refused' = refused
       \/ req[r].pc = "insert" /\ db' = db \cup {Saving(r)} /\ refused' = refused
       \/ req[r].pc = "insert" /\ db' = db /\ refused' = refused \cup {Saving(r)}
    /\ erased' = erased

LEMMA RequestWrites ==
  ASSUME TypeOK, NEW r \in Requests, RequestStep(r)
  PROVE  TierWrites(r)
<1>0. req \in [Requests -> RequestRecords]
  BY DEF TypeOK
<1> USE DEF TierWrites
<1>1. CASE Start(r) \/ EnsureConversation(r) \/ ReadMemory(r) \/ ReadRedis(r)
             \/ QueryMessages(r) \/ CallLLM(r)
  BY <1>1 DEF Start, EnsureConversation, ReadMemory, ReadRedis, QueryMessages, CallLLM
<1>2. CASE FillRedis(r) \/ FillMemory(r)
  BY <1>2 DEF FillRedis, FillMemory
<1>3. CASE AppendMemory(r)
  BY <1>0, <1>3 DEF AppendMemory, Go, RequestRecords
<1>4. CASE InsertMessage(r) \/ DeleteCached(r)
  BY <1>4 DEF InsertMessage, DeleteCached
<1> QED
  BY <1>1, <1>2, <1>3, <1>4 DEF RequestStep

\* Restart, expiry and the administrative operation only remove: rows they
\* remove from the table count as erased.
LEMMA OtherWrites ==
  ASSUME AdminStep \/ Expire \/ Restart \/ UNCHANGED vars
  PROVE  /\ mem' = mem \/ mem' = <<>>
         /\ redis' = redis \/ redis' = <<>>
         /\ \/ db' = db /\ erased' = erased
            \/ admin.pc # "idle" /\ db' = {} /\ erased' = erased \cup db
         /\ refused' = refused
         /\ row' = row \/ (row' = FALSE /\ admin.pc # "idle")
         /\ begin' = begin
BY DEF AdminStep, AdminBegin, ForgetMemory, ClearRedis, DeleteMessages, DeleteRow,
   AdminAt, Expire, Restart, vars

\* The rows a request holds change only by the query.
LEMMA RowsHeld ==
  ASSUME TypeOK, NEW r \in Requests, RequestStep(r)
  PROVE  req'[r].rows = req[r].rows
           \/ (req'[r].rows = Latest(ByTime(db)) /\ db' = db)
<1>0. req \in [Requests -> RequestRecords]
  BY DEF TypeOK
<1>1. CASE QueryMessages(r)
  <2> DEFINE rows == Latest(ByTime(db))
             pc == IF rows = <<>> THEN "fillMemory" ELSE "fillRedis"
  <2>1. \/ req' = [req EXCEPT ![r].rows = rows, ![r].pc = pc]
        \/ req' = [req EXCEPT ![r].pc = "llm"]
    BY <1>1 DEF QueryMessages, Go
  <2>2. db' = db
    BY <1>1 DEF QueryMessages
  <2> HIDE DEF rows, pc
  <2>3. req'[r].rows = rows \/ req'[r].rows = req[r].rows
    BY <1>0, <2>1, Zenon DEF RequestRecords
  <2> QED
    BY <2>2, <2>3 DEF rows
<1>2. CASE Start(r) \/ EnsureConversation(r) \/ FillRedis(r) \/ AppendMemory(r)
             \/ FillMemory(r)
  BY <1>0, <1>2 DEF Start, EnsureConversation, FillRedis, AppendMemory, FillMemory,
       Go, RequestRecords
<1>3. CASE ReadMemory(r) \/ ReadRedis(r) \/ CallLLM(r)
  BY <1>0, <1>3 DEF ReadMemory, ReadRedis, CallLLM, Go, RequestRecords
<1>4. CASE InsertMessage(r) \/ DeleteCached(r)
  BY <1>0, <1>4 DEF InsertMessage, DeleteCached, NextMessage, Go, RequestRecords
<1> QED
  BY <1>1, <1>2, <1>3, <1>4 DEF RequestStep

\* The message a request is saving is of its own, and sent once it is in the map.
LEMMA SavingFacts ==
  ASSUME TypeOK, ClockInv, NEW r \in Requests,
         req[r].pc \in {"append", "insert"}
  PROVE  /\ Saving(r) \in Message /\ Saving(r).by = r /\ Saving(r).role = req[r].role
         /\ req[r].pc = "insert" => Sent(Saving(r))
         /\ req[r].pc = "append" => ~Sent(Saving(r))
<1>1. req \in [Requests -> RequestRecords]
  BY DEF TypeOK
<1> QED
  BY <1>1 DEF RequestRecords, Saving, Message, Sent, UserSent, ReplySent, ClockInv,
       Roles

\* What enters a tier is a message that has been sent; Redis gets rows.
LEMMA KnownStep ==
  TypeOK /\ ClockInv /\ KnownInv /\ [Next]_vars => KnownInv'
<1> SUFFICES ASSUME TypeOK, ClockInv, KnownInv, [Next]_vars PROVE KnownInv'
  OBVIOUS
<1> DEFINE Known == ToSet(mem) \cup db \cup erased \cup refused
<1>0. /\ mem \in Seq(Message) /\ Known \subseteq Message
      /\ \A r \in Requests : req[r].rows \in Seq(Message)
      /\ ToSet(<<>>) = {}
  <2>1. mem \in Seq(Message) /\ \A r \in Requests : req[r].rows \in Seq(Message)
    BY DEF TypeOK, RequestRecords
  <2>2. ToSet(mem) \subseteq Message /\ ToSet(<<>>) = {}
    BY <2>1 DEF ToSet
  <2> QED
    BY <2>1, <2>2 DEF TypeOK
<1>1. \A m \in Known : Sent(m)'
  BY <1>0, SentStable DEF KnownInv
<1>2. ASSUME NEW r \in Requests, RequestStep(r) PROVE KnownInv'
  <2>1. TierWrites(r) /\ \A s \in Requests \ {r} : req'[s] = req[s]
    BY <1>2, RequestWrites, RequestMoves
  <2>2. TypeOK' /\ ClockInv'
    BY MemoryTypeStep, ClockStep
  <2>3. ASSUME req[r].pc \in {"append", "insert"}
        PROVE  Saving(r) \in Message /\ (req[r].pc = "insert" => Sent(Saving(r)))
    BY <2>3, SavingFacts
  <2>4. ASSUME req[r].pc = "append", req'[r].pc = "insert", NEW m \in {Saving(r)}
        PROVE  Sent(m)'
    <3>1. Moves(r) /\ m \in Message /\ m.by = r /\ m.role = req[r].role
      BY <1>2, <2>4, RequestMoves, SavingFacts
    <3>2. m.at = req[r].at /\ req[r].role \in Roles
      BY <2>4 DEF Saving, TypeOK, RequestRecords
    <3>3. /\ req'[r].role = req[r].role /\ req'[r].at = req[r].at
          /\ req'[r].start = req[r].start
      BY <2>4, <3>1 DEF Moves, Early
    <3> QED
      BY <2>4, <3>1, <3>2, <3>3 DEF Sent, UserSent, ReplySent, ClockInv
  <2>5. \A m \in ToSet(mem)' : Sent(m)'
    <3>1. CASE mem' = mem
      BY <1>1, <3>1
    <3>2. CASE mem' = req[r].rows
      BY <1>1, <3>2 DEF KnownInv
    <3>3. CASE /\ req[r].pc = "append" /\ req'[r].pc = "insert"
               /\ mem' = Append(mem, Saving(r))
      <4>1. ToSet(mem)' = ToSet(mem) \cup {Saving(r)}
        BY <1>0, <2>3, <3>3, ToSetFacts
      <4> QED
        BY <1>1, <2>4, <3>3, <4>1
    <3> QED
      BY <2>1, <3>1, <3>2, <3>3 DEF TierWrites
  <2>6. ASSUME req[r].pc = "insert", NEW m \in {Saving(r)} PROVE Sent(m)'
    BY <2>3, <2>6, SentStable
  <2>7. \A m \in db' \cup erased' \cup refused' : Sent(m)'
    BY <1>1, <2>1, <2>6 DEF TierWrites
  <2>8. IsFiniteSet(db') /\ db \subseteq db' /\ erased' = erased
    BY <2>1, FS_AddElement DEF TierWrites, KnownInv
  <2>9. RedisIsCommitted'
    <3>1. ToSet(redis)' \subseteq db \cup erased
      BY <1>0, <2>1 DEF TierWrites, KnownInv, RedisIsCommitted
    <3> QED
      BY <2>8, <3>1 DEF RedisIsCommitted
  <2>10. ASSUME NEW s \in Requests
         PROVE  ToSet(req'[s].rows) \subseteq db' \cup erased'
    <3>1. CASE req'[s].rows = req[s].rows
      BY <2>8, <3>1 DEF KnownInv
    <3>2. CASE req'[s].rows # req[s].rows
      BY <1>2, <2>1, <2>8, <3>2, RowsHeld, QueriedRows
    <3> QED
      BY <3>1, <3>2
  <2> QED
    BY <2>5, <2>7, <2>8, <2>9, <2>10 DEF KnownInv
<1>3. CASE AdminStep \/ Expire \/ Restart \/ UNCHANGED vars
  <2>1. \A r \in Requests : req'[r].rows = req[r].rows
    BY <1>3, RestartMoves, OtherMoves
  <2>2. /\ ToSet(mem)' \subseteq ToSet(mem)
        /\ ToSet(redis)' \subseteq ToSet(redis)
        /\ db' \cup erased' = db \cup erased /\ refused' = refused
    BY <1>0, <1>3, OtherWrites
  <2>3. IsFiniteSet(db')
    BY <1>3, OtherWrites, FS_EmptySet DEF KnownInv
  <2> QED
    BY <1>1, <2>1, <2>2, <2>3 DEF KnownInv, RedisIsCommitted
<1> QED
  BY <1>2, <1>3 DEF Next

-----------------------------------------------------------------------------
(* Turns in order *)

\* The history of a request is what it read: the latest messages of the map or of
\* Redis, or the rows it holds.
LEMMA HistoryRead ==
  ASSUME TypeOK, NEW r \in Requests, RequestStep(r)
  PROVE  req'[r].hist \in {req[r].hist, Latest(mem), Latest(redis), req[r].rows}
<1>0. req \in [Requests -> RequestRecords]
  BY DEF TypeOK
<1>1. CASE QueryMessages(r)
  <2> DEFINE rows == Latest(ByTime(db))
             pc == IF rows = <<>> THEN "fillMemory" ELSE "fillRedis"
  <2>1. \/ req' = [req EXCEPT ![r].rows = rows, ![r].pc = pc]
        \/ req' = [req EXCEPT ![r].pc = "llm"]
    BY <1>1 DEF QueryMessages, Go
  <2> HIDE DEF rows, pc
  <2> QED
    BY <1>0, <2>1, ZenonT(30) DEF RequestRecords
<1>2. CASE Start(r) \/ EnsureConversation(r) \/ FillRedis(r) \/ AppendMemory(r)
             \/ FillMemory(r)
  BY <1>0, <1>2 DEF Start, EnsureConversation, FillRedis, AppendMemory, FillMemory,
       Go, RequestRecords
<1>3. CASE ReadMemory(r) \/ ReadRedis(r) \/ CallLLM(r)
  BY <1>0, <1>3 DEF ReadMemory, ReadRedis, CallLLM, Go, RequestRecords
<1>4. CASE InsertMessage(r) \/ DeleteCached(r)
  BY <1>0, <1>4 DEF InsertMessage, DeleteCached, NextMessage, Go, RequestRecords
<1> QED
  BY <1>1, <1>2, <1>3, <1>4 DEF RequestStep

\* A message appended to an ordered history, of a request that has no reply there.
LEMMA AppendOrdered ==
  ASSUME NEW s \in Seq(Message), NEW m \in Message, Ordered(s),
         m.role = "user" =>
           \A n \in ToSet(s) : ~(n.by = m.by /\ n.role = "assistant")
  PROVE  Ordered(Append(s, m))
<1> DEFINE a == Append(s, m)
<1>1. /\ DOMAIN a = 1 .. Len(s) + 1 /\ DOMAIN s = 1 .. Len(s) /\ Len(s) \in Nat
      /\ \A i \in 1 .. Len(s) : a[i] = s[i] /\ a[i] \in ToSet(s)
      /\ a[Len(s) + 1] = m
  BY DEF ToSet
<1> HIDE DEF a
<1> SUFFICES ASSUME NEW i \in 1 .. Len(s) + 1, NEW j \in 1 .. Len(s) + 1,
                    a[i].by = a[j].by, a[i].role = "user", a[j].role = "assistant"
             PROVE  i < j
  BY <1>1 DEF Ordered, a
<1>2. CASE i \in 1 .. Len(s) /\ j \in 1 .. Len(s)
  BY <1>1, <1>2 DEF Ordered
<1>3. CASE i = Len(s) + 1
  BY <1>1, <1>3
<1>4. CASE i # Len(s) + 1 /\ j = Len(s) + 1
  BY <1>1, <1>4
<1> QED
  BY <1>1, <1>2, <1>3, <1>4

\* The order is kept in every tier, although they are written at different times.
LEMMA OrderStep ==
  TypeOK /\ ClockInv /\ KnownInv /\ OrderInv /\ [Next]_vars => OrderInv'
<1> SUFFICES ASSUME TypeOK, ClockInv, KnownInv, OrderInv, [Next]_vars
             PROVE  OrderInv'
  OBVIOUS
<1>0. /\ mem \in Seq(Message) /\ redis \in Seq(Message)
      /\ Ordered(<<>>)
  BY DEF TypeOK, Ordered
<1>1. ASSUME NEW r \in Requests, RequestStep(r) PROVE OrderInv'
  <2>1. TierWrites(r) /\ \A s \in Requests \ {r} : req'[s] = req[s]
    BY <1>1, RequestWrites, RequestMoves
  <2>2. Ordered(mem')
    <3>1. CASE mem' = mem \/ mem' = req[r].rows
      BY <3>1 DEF OrderInv
    <3>2. CASE req[r].pc = "append" /\ mem' = Append(mem, Saving(r))
      <4>1. Saving(r) \in Message /\ Saving(r).by = r /\ Saving(r).role = req[r].role
        BY <3>2, SavingFacts
      <4>2. ASSUME NEW n \in ToSet(mem), n.by = r, n.role = "assistant"
            PROVE  req[r].role = "assistant"
        BY <4>2 DEF KnownInv, Sent, ReplySent
      <4> QED
        BY <1>0, <3>2, <4>1, <4>2, AppendOrdered DEF OrderInv
    <3> QED
      BY <2>1, <3>1, <3>2 DEF TierWrites
  <2>3. Ordered(redis')
    BY <1>0, <2>1 DEF OrderInv, TierWrites
  <2>4. Ordered(req'[r].rows) /\ IsInjective(req'[r].rows)
    BY <1>1, RowsHeld, QueriedRows DEF OrderInv
  <2>5. Ordered(req'[r].hist)
    <3>1. Ordered(Latest(mem)) /\ Ordered(Latest(redis))
      BY <1>0, LatestKeeps DEF OrderInv
    <3> QED
      BY <1>1, <3>1, HistoryRead DEF OrderInv
  <2> QED
    BY <2>1, <2>2, <2>3, <2>4, <2>5 DEF OrderInv
<1>2. CASE AdminStep \/ Expire \/ Restart \/ UNCHANGED vars
  <2>1. \A r \in Requests : req'[r].rows = req[r].rows /\ req'[r].hist = req[r].hist
    BY <1>2, RestartMoves, OtherMoves
  <2>2. (mem' = mem \/ mem' = <<>>) /\ (redis' = redis \/ redis' = <<>>)
    BY <1>2, OtherWrites
  <2> QED
    BY <1>0, <2>1, <2>2 DEF OrderInv
<1> QED
  BY <1>1, <1>2 DEF Next

-----------------------------------------------------------------------------
(* The map *)

\* The record of a conversation is made by its first request.
LEMMA EnsureStep == TypeOK /\ EnsureInv /\ [Next]_vars => EnsureInv'
<1> SUFFICES ASSUME TypeOK, EnsureInv, [Next]_vars PROVE EnsureInv'
  OBVIOUS
<1>1. ASSUME NEW r \in Requests, RequestStep(r) PROVE EnsureInv'
  <2>1. Moves(r) /\ \A s \in Requests \ {r} : req'[s] = req[s]
    BY <1>1, RequestMoves
  <2>2. begin' = begin
    BY <1>1 DEF RequestStep, Start, EnsureConversation, ReadMemory, ReadRedis,
         QueryMessages, FillRedis, FillMemory, CallLLM, AppendMemory,
         InsertMessage, DeleteCached
  <2>3. ASSUME req[r].pc = "idle", req'[r].pc = "ensure"
        PROVE  begin = "nil" /\ \A q \in Requests \ {r} : req[q].pc = "idle"
    <3>1. Start(r)
      BY <1>1, <2>3 DEF RequestStep, EnsureConversation, ReadMemory, ReadRedis,
           QueryMessages, FillRedis, FillMemory, CallLLM, AppendMemory,
           InsertMessage, DeleteCached
    <3>2. First(r) /\ begin = "nil"
      <4>1. req'[r].pc = IF First(r) /\ begin = "nil" THEN "ensure" ELSE "memory"
        BY <3>1, Zenon DEF Start, TypeOK, RequestRecords
      <4> QED
        BY <2>3, <4>1
    <3> QED
      BY <3>2 DEF First
  <2>4. ASSUME NEW q \in Requests \ {r}, req[q].pc = "ensure" PROVE FALSE
    <3>1. req[r].pc = "idle" /\ begin = "nil"
      BY <2>4 DEF EnsureInv
    <3>2. Start(r)
      BY <1>1, <3>1 DEF RequestStep, EnsureConversation, ReadMemory, ReadRedis,
           QueryMessages, FillRedis, FillMemory, CallLLM, AppendMemory,
           InsertMessage, DeleteCached
    <3>3. \A p \in Requests : req[p].pc # "done"
      BY <2>4 DEF EnsureInv
    <3> QED
      BY <2>4, <3>1, <3>2, <3>3 DEF Start, First
  <2>5. ASSUME req'[r].pc = "ensure" PROVE req[r].pc = "idle"
    BY <2>1, <2>5 DEF Moves, Early
  <2> QED
    BY <2>1, <2>2, <2>3, <2>4, <2>5 DEF EnsureInv
<1>2. CASE AdminStep \/ Expire \/ UNCHANGED vars
  BY <1>2, OtherMoves, OtherWrites DEF EnsureInv
<1>3. CASE Restart
  BY <1>3, RestartMoves, OtherWrites DEF EnsureInv, InFlight
<1> QED
  BY <1>1, <1>2, <1>3 DEF Next

\* No message is made before the conversation's record.
LEMMA NothingSentBefore ==
  ASSUME TypeOK, ClockInv, KnownInv, EnsureInv,
         NEW r \in Requests, req[r].pc = "ensure"
  PROVE  ToSet(mem) = {} /\ \A q \in Requests : req[q].role = "user"
<1>1. \A q \in Requests : req[q].pc \in Early /\ req[q].role = "user"
  BY DEF EnsureInv, ClockInv, Early
<1>2. ASSUME NEW m \in ToSet(mem) PROVE FALSE
  <2>1. m \in Message /\ Sent(m)
    BY <1>2 DEF KnownInv, TypeOK, ToSet
  <2> QED
    BY <1>1, <2>1 DEF Message, Roles, Sent, UserSent, ReplySent, Early
<1> QED
  BY <1>1, <1>2

\* A request writes the conversation's row only in EnsureConversation, and a
\* message it was to insert into an existing conversation is then a row or has
\* been refused.
LEMMA InsertWrites ==
  ASSUME TypeOK, NEW r \in Requests, RequestStep(r)
  PROVE  /\ row' = row \/ (req[r].pc = "ensure" /\ row' = TRUE)
         /\ req[r].pc = "insert" /\ row => Saving(r) \in db' \cup refused'
         /\ UNCHANGED <<admin, begin>>
BY DEF RequestStep, Start, EnsureConversation, ReadMemory, ReadRedis,
   QueryMessages, FillRedis, FillMemory, CallLLM, AppendMemory,
   InsertMessage, DeleteCached

\* A sequence stays injective when a new element is appended.
LEMMA AppendNewInjective ==
  ASSUME NEW s \in Seq(Message), NEW m \in Message, IsInjective(s), m \notin ToSet(s)
  PROVE  IsInjective(Append(s, m))
<1> DEFINE t == Append(s, m)
<1>1. /\ DOMAIN t = 1 .. Len(s) + 1 /\ DOMAIN s = 1 .. Len(s) /\ Len(s) \in Nat
      /\ \A i \in 1 .. Len(s) : t[i] = s[i] /\ t[i] \in ToSet(s)
      /\ t[Len(s) + 1] = m
  BY DEF ToSet
<1> HIDE DEF t
<1>2. \A i, j \in 1 .. Len(s) + 1 : t[i] = t[j] => i = j
  BY <1>1 DEF IsInjective
<1>3. IsInjective(t)
  BY <1>1, <1>2 DEF IsInjective
<1> QED
  BY <1>3, Zenon DEF t

\* A message enters the map once, and stays there with its insertion under way or
\* decided.
LEMMA PendingStep ==
  TypeOK /\ ClockInv /\ KnownInv /\ OrderInv /\ EnsureInv
    /\ MemoryIsCommittedOrPending /\ [Next]_vars => MemoryIsCommittedOrPending'
<1> SUFFICES ASSUME TypeOK, ClockInv, KnownInv, OrderInv, EnsureInv,
                    MemoryIsCommittedOrPending, [Next]_vars
             PROVE  MemoryIsCommittedOrPending'
  OBVIOUS
<1> DEFINE Pending(m) == req[m.by].pc = "insert" /\ m = Saving(m.by)
           Decided == db \cup erased \cup refused
<1>0. /\ mem \in Seq(Message) /\ req \in [Requests -> RequestRecords]
      /\ ToSet(<<>>) = {} /\ IsInjective(<<>>)
  BY DEF TypeOK, ToSet, IsInjective
<1>1. ASSUME NEW r \in Requests, RequestStep(r) PROVE MemoryIsCommittedOrPending'
  <2>1. TierWrites(r) /\ Moves(r) /\ \A s \in Requests \ {r} : req'[s] = req[s]
    BY <1>1, RequestWrites, RequestMoves
  <2>2. Decided \subseteq db' \cup erased' \cup refused'
    BY <2>1 DEF TierWrites
  <2>3. ASSUME req[r].pc = "append"
        PROVE  Saving(r) \in Message /\ Saving(r).by = r /\ Saving(r) \notin ToSet(mem)
    BY <2>3, SavingFacts DEF KnownInv
  <2>4. IsInjective(mem')
    <3>1. CASE mem' = mem \/ mem' = req[r].rows
      BY <3>1 DEF MemoryIsCommittedOrPending, OrderInv
    <3>2. CASE req[r].pc = "append" /\ mem' = Append(mem, Saving(r))
      <4>1. IsInjective(mem)
        BY DEF MemoryIsCommittedOrPending
      <4>2. IsInjective(Append(mem, Saving(r)))
        <5>1. /\ mem \in Seq(Message) /\ Saving(r) \in Message
              /\ Saving(r) \notin ToSet(mem)
          BY <1>0, <2>3, <3>2
        <5> QED
          BY <4>1, <5>1, AppendNewInjective, Zenon
      <4> QED
        BY <3>2, <4>2, Zenon
    <3> QED
      BY <2>1, <3>1, <3>2 DEF TierWrites
  <2>5. ASSUME row, NEW m \in ToSet(mem),
               m \notin db' \cup erased' \cup refused'
        PROVE  req'[m.by].pc = "insert" /\ m = Saving(m.by)' /\ m.by # r
    <3>1. Pending(m) /\ m \in Message
      BY <1>0, <2>2, <2>5 DEF MemoryIsCommittedOrPending, ToSet
    <3>2. m.by \in Requests
      BY <3>1 DEF Message
    <3>3. m.by # r
      BY <1>1, <2>5, <3>1, InsertWrites
    <3>4. req'[m.by] = req[m.by]
      BY <2>1, <3>2, <3>3
    <3> QED
      BY <3>1, <3>3, <3>4 DEF Saving
  <2>6. ASSUME row, NEW m \in ToSet(mem'),
               m \notin db' \cup erased' \cup refused'
        PROVE  req'[m.by].pc = "insert" /\ m = Saving(m.by)'
    <3>1. CASE mem' = mem
      BY <2>5, <2>6, <3>1
    <3>2. CASE mem' = req[r].rows
      BY <2>2, <2>6, <3>2 DEF KnownInv
    <3>3. CASE /\ req[r].pc = "append" /\ req'[r].pc = "insert"
               /\ mem' = Append(mem, Saving(r))
      <4>1. ToSet(mem') = ToSet(mem) \cup {Saving(r)}
        BY <1>0, <2>3, <3>3, ToSetFacts
      <4>2. CASE m = Saving(r)
        <5>1. req'[r].role = req[r].role /\ req'[r].at = req[r].at
          BY <2>1, <3>3 DEF Moves, Early
        <5> QED
          BY <2>3, <3>3, <4>2, <5>1 DEF Saving
      <4> QED
        BY <2>5, <2>6, <4>1, <4>2
    <3> QED
      BY <2>1, <3>1, <3>2, <3>3 DEF TierWrites
  <2>7. ASSUME ~row, row' PROVE ToSet(mem') = {}
    <3>1. req[r].pc = "ensure"
      BY <1>1, <2>7, InsertWrites
    <3>2. mem' = mem
      BY <2>1, <3>1 DEF TierWrites
    <3> QED
      BY <3>1, <3>2, NothingSentBefore
  <2> HIDE DEF Pending, Decided
  <2>8. row' => \A m \in ToSet(mem') :
             \/ m \in db' \cup erased' \cup refused'
             \/ req'[m.by].pc = "insert" /\ m = Saving(m.by)'
    BY <2>6, <2>7
  <2> QED
    BY <2>4, <2>8 DEF MemoryIsCommittedOrPending
<1>2. CASE AdminStep \/ Expire \/ UNCHANGED vars
  <2>1. req' = req
    BY <1>2, OtherMoves
  <2>2. /\ mem' = mem \/ mem' = <<>>
        /\ db \cup erased \subseteq db' \cup erased' /\ refused' = refused
    BY <1>2, OtherWrites
  <2>3. row' => row
    BY <1>2, OtherWrites, Zenon
  <2> QED
    BY <1>0, <2>1, <2>2, <2>3 DEF MemoryIsCommittedOrPending, Saving
<1>3. CASE Restart
  <2>1. mem' = <<>>
    BY <1>3 DEF Restart
  <2> QED
    BY <1>0, <2>1 DEF MemoryIsCommittedOrPending
<1> QED
  BY <1>1, <1>2, <1>3 DEF Next

-----------------------------------------------------------------------------
(* Answered requests *)

\* Every message of a request in an existing conversation reaches the table, or is
\* refused by it, before the request goes on.
LEMMA SavedStep ==
  TypeOK /\ ClockInv /\ KnownInv /\ EnsureInv /\ SavedInv /\ [Next]_vars => SavedInv'
<1> SUFFICES ASSUME TypeOK, ClockInv, KnownInv, EnsureInv, SavedInv, [Next]_vars
             PROVE  SavedInv'
  OBVIOUS
<1> DEFINE Requested(r) ==
             /\ req[r].role = "assistant" => Saved(r, "user")
             /\ req[r].pc = "invalidate" => Saved(r, req[r].role)
             /\ req[r].pc = "done" /\ req[r].role = "assistant"
                  => Saved(r, "assistant")
<1>1. ASSUME NEW r \in Requests, RequestStep(r) PROVE SavedInv'
  <2>1. TierWrites(r) /\ Moves(r) /\ \A s \in Requests \ {r} : req'[s] = req[s]
    BY <1>1, RequestWrites, RequestMoves
  <2>2. /\ admin' = admin /\ begin' = begin
        /\ row' = row \/ (req[r].pc = "ensure" /\ row' = TRUE)
    BY <1>1, InsertWrites
  <2>3. db \cup refused \subseteq db' \cup refused'
    BY <2>1 DEF TierWrites
  <2>4. admin'.pc = "idle" /\ begin' = "post" => row'
    BY <2>2 DEF SavedInv
  <2>5. ASSUME admin.pc = "idle", row, NEW q \in Requests PROVE Requested(q)'
    <3>1. Requested(q)
      BY <2>5 DEF SavedInv
    <3>2. \A role : Saved(q, role) => Saved(q, role)'
      BY <2>3 DEF Saved
    <3>3. CASE q # r
      BY <2>1, <3>1, <3>2, <3>3
    <3>4. CASE q = r
      <4>1. req[r].pc = "insert" =>
              /\ Saving(r) \in db' \cup refused'
              /\ Saving(r).by = r /\ Saving(r).role = req[r].role
        BY <1>1, <2>5, InsertWrites, SavingFacts
      <4>2. req[r].pc = "insert" => \A role : role = req[r].role => Saved(r, role)'
        BY <4>1 DEF Saved
      <4>3. req[r].pc \in Early => req[r].role = "user"
        BY DEF ClockInv
      <4> HIDE DEF Requested
      <4>4. req'[r].role = "assistant" => Saved(r, "user")'
        BY <2>1, <3>1, <3>2, <3>4, <4>2, <4>3 DEF Moves, Early, Requested
      <4>5. req'[r].pc = "invalidate" => Saved(r, req[r].role)' /\ req'[r].role = req[r].role
        <5> SUFFICES ASSUME req'[r].pc = "invalidate"
                     PROVE  Saved(r, req[r].role)' /\ req'[r].role = req[r].role
          OBVIOUS
        <5>1. req[r].pc = "insert" /\ req'[r].role = req[r].role
          BY <2>1 DEF Moves, Early
        <5> QED
          BY <4>1, <5>1 DEF Saved
      <4>6. req'[r].pc = "done" /\ req'[r].role = "assistant" => Saved(r, "assistant")'
        BY <2>1, <3>1, <3>2, <3>4, <4>2, <4>3 DEF Moves, Early, Requested
      <4> QED
        BY <3>4, <4>4, <4>5, <4>6 DEF Requested, Saved
    <3> QED
      BY <3>3, <3>4
  <2>6. ASSUME ~row, row', NEW q \in Requests PROVE Requested(q)'
    <3>1. req[r].pc = "ensure"
      BY <2>2, <2>6
    <3>2. /\ \A p \in Requests : req[p].role = "user"
          /\ \A p \in Requests \ {r} : req[p].pc = "idle"
      BY <3>1, NothingSentBefore DEF EnsureInv
    <3>3. req'[r].role = "user" /\ req'[r].pc # "invalidate"
      BY <2>1, <3>1, <3>2 DEF Moves, Early
    <3>4. req'[q].role = "user" /\ req'[q].pc # "invalidate"
      BY <2>1, <3>2, <3>3
    <3> QED
      BY <3>4
  <2> HIDE DEF Requested
  <2>7. admin'.pc = "idle" /\ row' => \A q \in Requests : Requested(q)'
    BY <2>2, <2>5, <2>6
  <2> QED
    BY <2>2, <2>4, <2>7 DEF SavedInv, Requested
<1>2. CASE AdminStep
  <2>1. admin'.pc # "idle" /\ begin' = begin
    BY <1>2 DEF AdminStep, AdminBegin, ForgetMemory, ClearRedis, DeleteMessages,
         DeleteRow, AdminGo, TypeOK
  <2> QED
    BY <2>1 DEF SavedInv
<1>3. CASE Expire \/ UNCHANGED vars
  BY <1>3 DEF Expire, vars, SavedInv, Saved
<1>4. CASE Restart
  <2>1. /\ UNCHANGED <<db, row, begin, refused>>
        /\ admin'.pc = "idle" => admin.pc = "idle"
    BY <1>4 DEF Restart, TypeOK
  <2>2. \A r \in Requests :
          /\ req'[r].role = req[r].role
          /\ req'[r].pc \in {"invalidate", "done"} => req'[r].pc = req[r].pc
    BY <1>4, RestartMoves
  <2> QED
    BY <2>1, <2>2 DEF SavedInv, Saved
<1> QED
  BY <1>1, <1>2, <1>3, <1>4 DEF Next

-----------------------------------------------------------------------------
(* The theorems *)

\* The invariant holds before the first request.
LEMMA MemoryInit == Init => MemoryInv
<1> SUFFICES ASSUME Init PROVE MemoryInv
  OBVIOUS
<1>1. /\ mem = <<>> /\ redis = <<>> /\ db = {} /\ erased = {} /\ refused = {}
      /\ clock = 1 /\ admin = [op |-> "none", pc |-> "idle"]
      /\ req = [r \in Requests |-> IdleRequest]
      /\ begin \in Begins /\ Begins \subseteq BeginKinds /\ row = (begin = "post")
  BY MemoryAssumption DEF Init
<1>2. \A r \in Requests :
        /\ req[r].pc = "idle" /\ req[r].start = 0 /\ req[r].at = 0
        /\ req[r].role = "user" /\ req[r].rows = <<>> /\ req[r].hist = <<>>
  BY <1>1 DEF IdleRequest
<1>3. ToSet(<<>>) = {} /\ Ordered(<<>>) /\ IsInjective(<<>>)
  BY DEF ToSet, Ordered, IsInjective
<1>4. TypeOK
  <2>1. <<>> \in Seq(Message) /\ row \in BOOLEAN
    BY <1>1
  <2> QED
    BY <1>1, <2>1, IdleRequestType DEF TypeOK
<1>5. ClockInv
  BY <1>1, <1>2 DEF ClockInv, Early
<1>6. KnownInv
  BY <1>1, <1>2, <1>3, FS_EmptySet DEF KnownInv, RedisIsCommitted
<1>7. OrderInv /\ EnsureInv
  BY <1>1, <1>2, <1>3 DEF OrderInv, EnsureInv
<1>8. MemoryIsCommittedOrPending
  BY <1>1, <1>3 DEF MemoryIsCommittedOrPending
<1>9. SavedInv
  BY <1>1, <1>2 DEF SavedInv
<1> QED
  BY <1>4, <1>5, <1>6, <1>7, <1>8, <1>9 DEF MemoryInv

\* Every reachable state satisfies the invariant.
LEMMA MemoryInvariant == Spec => []MemoryInv
<1>1. MemoryInv /\ [Next]_vars => MemoryInv'
  BY MemoryTypeStep, ClockStep, KnownStep, OrderStep, EnsureStep, PendingStep,
     SavedStep DEF MemoryInv
<1> QED
  BY <1>1, MemoryInit, PTL DEF Spec

\* Every variable of a conversation keeps its type: what is read from the table is
\* a sequence of messages whatever rows it has.
THEOREM MemoryTypeCorrect == Spec => []TypeOK
<1>1. MemoryInv => TypeOK
  BY DEF MemoryInv
<1> QED
  BY <1>1, MemoryInvariant, PTL

\* GetHistory and SaveMessage: no interleaving, failure, expiry or restart puts a
\* message into Redis that the table never had.
THEOREM RedisShowsRows == Spec => []RedisIsCommitted
<1>1. MemoryInv => RedisIsCommitted
  BY DEF MemoryInv, KnownInv
<1> QED
  BY <1>1, MemoryInvariant, PTL

\* SaveMessage: the map holds no message twice, and none that the table neither
\* had, nor refused, nor is about to get.
THEOREM MapHasNoStray == Spec => []MemoryIsCommittedOrPending
<1>1. MemoryInv => MemoryIsCommittedOrPending
  BY DEF MemoryInv
<1> QED
  BY <1>1, MemoryInvariant, PTL

\* GetHistory: from whichever tier a history is read, a request's message comes
\* before its reply.
THEOREM RepliesFollow == Spec => []TurnsInOrder
<1>1. MemoryInv => TurnsInOrder
  BY DEF MemoryInv, OrderInv, Ordered, TurnsInOrder
<1> QED
  BY <1>1, MemoryInvariant, PTL

\* Process: in a conversation that was posted, or whose record Process makes, both
\* messages of an answered request are saved, as long as the database takes them
\* and no administrative operation has begun.
THEOREM AnswersAreSaved ==
  ASSUME "adapter" \notin Begins
  PROVE  Spec => []AnsweredIsSaved
<1>1. MemoryInv => AnsweredIsSaved
  <2> SUFFICES ASSUME SavedInv, NEW r \in Requests,
                      req[r].pc = "done", req[r].role = "assistant",
                      admin.pc = "idle", begin = "nil" => row
               PROVE  Saved(r, "user") /\ Saved(r, "assistant")
    BY DEF MemoryInv, AnsweredIsSaved, Saved, Roles
  <2>1. begin = "post" \/ begin = "nil"
    BY MemoryAssumption DEF SavedInv, BeginKinds
  <2>2. row
    BY <2>1 DEF SavedInv
  <2> QED
    BY <2>2 DEF SavedInv
<1> QED
  BY <1>1, MemoryInvariant, PTL

-----------------------------------------------------------------------------
(* The log *)

\* Requests run one at a time; the database and the deletion of the Redis key do not
\* fail, and the process is restarted between requests only.  What may happen is
\* that Redis fails to answer or to take the key, that the key expires, that the LLM
\* fails, such a restart, and that the conversation is archived.
Serial ==
    /\ MaxInFlight = 1 /\ Faults \subseteq {"redis", "expire", "llm", "redeploy"}
    /\ AdminOps \subseteq {"archive"} /\ "adapter" \notin Begins

\* A row newer than all others is the last one the query returns.
LEMMA ByTimeAppend ==
  ASSUME NEW rows, rows \subseteq Message, IsFiniteSet(rows),
         \A m, n \in rows : m.at = n.at => m = n,
         NEW k \in Message, \A m \in rows : m.at < k.at
  PROVE  ByTime(rows \cup {k}) = Append(ByTime(rows), k)
<1> DEFINE all == rows \cup {k}
           Older(m) == {x \in rows : x.at < m.at}
           OlderOf(m) == {x \in all : x.at < m.at}
           n == Cardinality(rows)
           s == ByTime(rows)
           t == ByTime(all)
<1>0. /\ n \in Nat /\ \A m \in rows : m.at \in Nat
      /\ k.at \in Nat /\ k \notin rows
      /\ all \subseteq Message
  BY FS_CardinalityType DEF Message
<1>1. IsFiniteSet(all) /\ Cardinality(all) = n + 1
  BY <1>0, FS_AddElement
<1>2. \A x, y \in all : x.at = y.at => x = y
  BY <1>0
<1>3. /\ s \in Seq(Message) /\ Len(s) = n /\ ToSet(s) = rows
      /\ \A i, j \in 1 .. n : i < j => s[i].at < s[j].at
  BY ByTimeFacts
<1>4. /\ t \in Seq(Message) /\ Len(t) = n + 1 /\ ToSet(t) = all
      /\ \A i, j \in 1 .. n + 1 : i < j => t[i].at < t[j].at
  <2> HIDE DEF all, n
  <2> QED
    BY <1>0, <1>1, <1>2, ByTimeFacts
<1>5. /\ \A m \in rows : OlderOf(m) = Older(m)
      /\ OlderOf(k) = rows
  BY <1>0
<1>11. ASSUME NEW j \in 1 .. Cardinality(all)
       PROVE  t[j] = CHOOSE m \in all : Cardinality(OlderOf(m)) = j - 1
  BY DEF ByTime
<1>6. ASSUME NEW i \in 1 .. n PROVE t[i] = s[i]
  <2>1. s[i] = CHOOSE m \in rows : Cardinality(Older(m)) = i - 1
    BY DEF ByTime
  <2>2. t[i] = CHOOSE m \in all : Cardinality(OlderOf(m)) = i - 1
    <3>1. i \in 1 .. Cardinality(all)
      BY <1>0, <1>1
    <3> QED
      BY <1>11, <3>1
  <2>3. i - 1 \in 0 .. n - 1 /\ i - 1 # n
    BY <1>0
  <2>4. \E m \in rows : Cardinality(Older(m)) = i - 1
    BY <2>3, RowRanks
  <2>5. \A x, y \in rows : x.at < y.at => Cardinality(Older(x)) < Cardinality(Older(y))
    BY RowRanks
  <2>6. \A x \in rows : Cardinality(Older(x)) \in Nat
    <3>1. \A x \in rows : Cardinality(Older(x)) \in 0 .. n - 1
      BY RowRanks
    <3> HIDE DEF Older, n
    <3> QED
      BY <1>0, <3>1
  <2>7. \A x, y \in rows :
          Cardinality(Older(x)) = Cardinality(Older(y)) => x = y
    <3> HIDE DEF Older
    <3> QED
      BY <1>0, <2>5, <2>6
  <2>8. \A m \in all : Cardinality(OlderOf(m)) = i - 1 =>
          m \in rows /\ Cardinality(Older(m)) = i - 1
    BY <1>5, <2>3
  <2>9. \A m \in rows : Cardinality(OlderOf(m)) = Cardinality(Older(m))
    BY <1>5
  <2> HIDE DEF s, t, Older, OlderOf
  <2>10. s[i] \in rows /\ Cardinality(Older(s[i])) = i - 1
    BY <2>1, <2>4
  <2>11. t[i] \in all /\ Cardinality(OlderOf(t[i])) = i - 1
    BY <2>2, <2>4, <2>9
  <2> QED
    BY <2>7, <2>8, <2>10, <2>11
<1>7. t[n + 1] = k
  <2>1. t[n + 1] = CHOOSE m \in all : Cardinality(OlderOf(m)) = (n + 1) - 1
    <3>1. n + 1 \in 1 .. Cardinality(all)
      BY <1>0, <1>1
    <3> QED
      BY <1>11, <3>1
  <2>2. \A m \in rows : Cardinality(OlderOf(m)) # n
    <3>1. \A x \in rows : Cardinality(Older(x)) \in 0 .. n - 1
      BY RowRanks
    <3>2. \A x \in rows : Cardinality(OlderOf(x)) = Cardinality(Older(x))
      BY <1>5
    <3> HIDE DEF Older, OlderOf, n
    <3> QED
      BY <1>0, <3>1, <3>2
  <2>3. Cardinality(OlderOf(k)) = n /\ k \in all
    BY <1>5
  <2> HIDE DEF OlderOf
  <2>5. (n + 1) - 1 = n
    BY <1>0
  <2>4. \A m \in all : Cardinality(OlderOf(m)) = (n + 1) - 1 <=> m = k
    BY <2>2, <2>3, <2>5
  <2> QED
    BY <2>1, <2>3, <2>4
<1> HIDE DEF s, t, n
<1>8. /\ Append(s, k) \in Seq(Message) /\ Len(Append(s, k)) = n + 1
      /\ \A i \in 1 .. n : Append(s, k)[i] = s[i]
      /\ Append(s, k)[n + 1] = k
  BY <1>3
<1>9. \A i \in 1 .. n + 1 : t[i] = Append(s, k)[i]
  BY <1>0, <1>6, <1>7, <1>8
<1>10. t = Append(s, k)
  BY <1>0, <1>4, <1>8, <1>9
<1> QED
  BY <1>10 DEF s, t

\* s is the end of t.
Ends(s, t) ==
    /\ Len(s) <= Len(t)
    /\ \A i \in 1 .. Len(s) : s[i] = t[i + (Len(t) - Len(s))]

\* The last n elements of a sequence.
LEMMA SubSeqEnd ==
  ASSUME NEW S, NEW t \in Seq(S), NEW n \in Nat, n <= Len(t)
  PROVE  /\ SubSeq(t, Len(t) - n + 1, Len(t)) \in Seq(S)
         /\ Len(SubSeq(t, Len(t) - n + 1, Len(t))) = n
         /\ \A i \in 1 .. n :
              SubSeq(t, Len(t) - n + 1, Len(t))[i] = t[i + (Len(t) - n)]
<1> DEFINE first == Len(t) - n + 1
<1>1. first \in 1 .. Len(t) + 1 /\ Len(t) - first + 1 = n
  OBVIOUS
<1> HIDE DEF first
<1>2. /\ SubSeq(t, first, Len(t)) \in Seq(S)
      /\ Len(SubSeq(t, first, Len(t))) = n
      /\ \A i \in 1 .. n : SubSeq(t, first, Len(t))[i] = t[first + i - 1]
  BY <1>1
<1>3. \A i \in 1 .. n : first + i - 1 = i + (Len(t) - n)
  BY DEF first
<1> QED
  BY <1>2, <1>3 DEF first

\* GetHistory's truncation leaves an end, the whole of a history that is short.
LEMMA LatestIsEnd ==
  ASSUME NEW S, NEW t \in Seq(S)
  PROVE  /\ Latest(t) \in Seq(S) /\ Ends(Latest(t), t)
         /\ Len(Latest(t)) = IF Len(t) <= Limit THEN Len(t) ELSE Limit
         /\ Latest(Latest(t)) = Latest(t)
<1>0. Limit \in Nat \ {0} /\ Len(t) \in Nat
  BY MemoryAssumption
<1>1. CASE Len(t) <= Limit
  <2>1. Latest(t) = t
    BY <1>1 DEF Latest
  <2>2. Ends(t, t)
    BY <1>0 DEF Ends
  <2> QED
    BY <1>1, <2>1, <2>2
<1>2. CASE ~(Len(t) <= Limit)
  <2> DEFINE l == SubSeq(t, Len(t) - Limit + 1, Len(t))
  <2>1. Latest(t) = l
    BY <1>2 DEF Latest
  <2>2. /\ l \in Seq(S) /\ Len(l) = Limit
        /\ \A i \in 1 .. Limit : l[i] = t[i + (Len(t) - Limit)]
    BY <1>0, <1>2, SubSeqEnd
  <2> HIDE DEF l
  <2>3. Ends(l, t)
    BY <1>0, <1>2, <2>2 DEF Ends
  <2>4. Latest(l) = l
    BY <1>0, <2>2 DEF Latest
  <2> QED
    BY <1>2, <2>1, <2>2, <2>3, <2>4
<1> QED
  BY <1>1, <1>2

\* Nothing is an end, everything is, and an end remains one when both grow.
LEMMA EndsFacts ==
  ASSUME NEW S, NEW s \in Seq(S), NEW t \in Seq(S), NEW e \in S
  PROVE  /\ Ends(<<>>, t) /\ Ends(t, t)
         /\ Ends(s, t) => Ends(Append(s, e), Append(t, e))
<1>1. Ends(<<>>, t) /\ Ends(t, t)
  BY DEF Ends
<1>2. ASSUME Ends(s, t) PROVE Ends(Append(s, e), Append(t, e))
  <2> DEFINE a == Append(s, e)
             b == Append(t, e)
  <2>1. /\ Len(a) = Len(s) + 1 /\ a[Len(s) + 1] = e
        /\ \A i \in 1 .. Len(s) : a[i] = s[i]
        /\ Len(b) = Len(t) + 1 /\ b[Len(t) + 1] = e
        /\ \A i \in 1 .. Len(t) : b[i] = t[i]
        /\ Len(s) \in Nat /\ Len(t) \in Nat
    OBVIOUS
  <2> HIDE DEF a, b
  <2>2. Len(s) <= Len(t) /\ \A i \in 1 .. Len(s) : s[i] = t[i + (Len(t) - Len(s))]
    BY <1>2 DEF Ends
  <2>3. ASSUME NEW i \in 1 .. Len(s) + 1
        PROVE  a[i] = b[i + ((Len(t) + 1) - (Len(s) + 1))]
    <3>1. CASE i = Len(s) + 1
      BY <2>1, <2>2, <3>1
    <3>2. CASE i \in 1 .. Len(s)
      <4>1. /\ i + (Len(t) - Len(s)) \in 1 .. Len(t)
            /\ i + ((Len(t) + 1) - (Len(s) + 1)) = i + (Len(t) - Len(s))
        BY <2>1, <2>2, <3>2
      <4> QED
        BY <2>1, <2>2, <3>2, <4>1
    <3> QED
      BY <2>1, <3>1, <3>2
  <2>4. Ends(a, b)
    BY <2>1, <2>2, <2>3 DEF Ends
  <2> QED
    BY <2>4 DEF a, b
<1> QED
  BY <1>1, <1>2

\* What a copy of the end of the log serves.
LEMMA EndServed ==
  ASSUME NEW S, NEW s \in Seq(S), NEW t \in Seq(S), Ends(s, t), s # <<>>
  PROVE  Latest(s) = Log!Suffix(t, IF Len(s) \in 1 .. Limit THEN Len(s) ELSE Limit)
<1> DEFINE n == IF Len(s) \in 1 .. Limit THEN Len(s) ELSE Limit
           l == Latest(s)
           u == Log!Suffix(t, n)
<1>0. /\ Limit \in Nat \ {0} /\ Len(s) \in Nat /\ Len(t) \in Nat /\ Len(s) # 0
      /\ Len(s) <= Len(t) /\ \A i \in 1 .. Len(s) : s[i] = t[i + (Len(t) - Len(s))]
  BY MemoryAssumption DEF Ends
<1>1. n = (IF Len(s) <= Limit THEN Len(s) ELSE Limit) /\ n \in Nat /\ n <= Len(s)
  BY <1>0
<1>2. /\ l \in Seq(S) /\ Len(l) = n
      /\ \A i \in 1 .. n : l[i] = s[i + (Len(s) - n)]
  <2>1. /\ l \in Seq(S) /\ Ends(l, s)
        /\ Len(l) = IF Len(s) <= Limit THEN Len(s) ELSE Limit
    BY LatestIsEnd
  <2> HIDE DEF l, n
  <2> QED
    BY <1>1, <2>1 DEF Ends
<1>3. /\ u \in Seq(S) /\ Len(u) = n
      /\ \A i \in 1 .. n : u[i] = t[i + (Len(t) - n)]
  <2> HIDE DEF n
  <2>1. CASE Len(t) <= n
    <3>1. u = t /\ Len(t) = n
      BY <1>0, <1>1, <2>1 DEF Log!Suffix
    <3> QED
      BY <1>0, <3>1
  <2>2. CASE ~(Len(t) <= n)
    <3>1. u = SubSeq(t, Len(t) - n + 1, Len(t))
      BY <2>2 DEF Log!Suffix
    <3>2. n \in Nat /\ n <= Len(t)
      BY <1>0, <1>1
    <3> HIDE DEF u
    <3> QED
      BY <3>1, <3>2, SubSeqEnd
  <2> QED
    BY <2>1, <2>2
<1> HIDE DEF l, u, n
<1>4. ASSUME NEW i \in 1 .. n PROVE l[i] = u[i]
  <2>1. /\ i + (Len(s) - n) \in 1 .. Len(s)
        /\ (i + (Len(s) - n)) + (Len(t) - Len(s)) = i + (Len(t) - n)
    BY <1>0, <1>1
  <2> QED
    BY <1>0, <1>2, <1>3, <2>1
<1>5. l = u
  <2>1. Len(l) = Len(u) /\ \A i \in 1 .. Len(l) : l[i] = u[i]
    BY <1>2, <1>3, <1>4
  <2> QED
    BY <1>2, <1>3, <2>1, SeqEqual
<1> QED
  BY <1>5 DEF l, u, n

\* A sequence without repetitions has as many elements as places.
LEMMA CountInjective ==
  ASSUME NEW S, NEW s \in Seq(S), IsInjective(s)
  PROVE  IsFiniteSet(ToSet(s)) /\ Cardinality(ToSet(s)) = Len(s)
<1>1. DOMAIN s = 1 .. Len(s) /\ Len(s) \in Nat
  OBVIOUS
<1>2. /\ s \in [1 .. Len(s) -> ToSet(s)]
      /\ \A x \in ToSet(s) : \E i \in 1 .. Len(s) : s[i] = x
      /\ \A i, j \in 1 .. Len(s) : s[i] = s[j] => i = j
  BY <1>1 DEF ToSet, IsInjective
<1>3. s \in Surjection(1 .. Len(s), ToSet(s)) /\ s \in Injection(1 .. Len(s), ToSet(s))
  BY <1>1, <1>2 DEF Surjection, Injection, IsInjective
<1>4. IsFiniteSet(1 .. Len(s)) /\ Cardinality(1 .. Len(s)) = Len(s)
  <2>1. 1 \in Int /\ Len(s) \in Int /\ (1 > Len(s) => Len(s) = 0) /\ Len(s) - 1 + 1 = Len(s)
    BY <1>1
  <2> QED
    BY <2>1, FS_Interval
<1> QED
  BY <1>3, <1>4, FS_Surjection

\* The map shows the end of the log, and behind it the message being inserted,
\* unless archiving dropped the entry; Redis shows the latest rows, unless a row is
\* new and the key not yet deleted; and rows to be filled in are the latest ones.
SerialOf(r) ==
    /\ req[r].pc # "dead"
    /\ req[r].pc \notin {"idle", "ensure"} => row
    /\ req[r].pc \in {"redis", "query", "fillRedis", "fillMemory"} => mem = <<>>
    /\ req[r].pc \in {"fillRedis", "fillMemory"} => req[r].rows = Latest(ByTime(db))
    /\ req[r].role = "assistant" => \E m \in db : m.by = r /\ m.role = "user"
    /\ req[r].pc = "insert" =>
         /\ Saving(r) \notin db
         /\ \/ mem = <<>>
            \/ \E s \in Seq(Message) : Ends(s, ByTime(db)) /\ mem = Append(s, Saving(r))
    /\ req[r].pc = "invalidate" => Saving(r) \in db

SerialInv ==
    /\ erased = {} /\ refused = {}
    /\ begin = "post" => row
    /\ admin.op \in {"none", "archive"} /\ admin.pc \in {"idle", "memory", "done", "failed"}
    /\ admin.pc # "idle" => admin.op = "archive"
    /\ \A r, s \in InFlight : r = s
    /\ \A r \in InFlight, m \in db : m.by = r \/ m.at < req[r].start
    /\ \A r \in Requests : SerialOf(r)
    /\ (\A r \in Requests : req[r].pc # "invalidate") => redis \in {<<>>, Latest(ByTime(db))}
    /\ (\A r \in Requests : req[r].pc # "insert") => Ends(mem, ByTime(db))

\* The table's rows in their order.
LEMMA LogFacts ==
  ASSUME MemoryInv
  PROVE  /\ ByTime(db) \in Seq(Message) /\ ToSet(ByTime(db)) = db
         /\ Len(ByTime(db)) \in Nat
         /\ db \subseteq Message /\ IsFiniteSet(db)
         /\ \A m, n \in db : m.at = n.at => m = n
         /\ mem \in Seq(Message) /\ IsInjective(mem)
         /\ req \in [Requests -> RequestRecords]
<1>1. /\ db \subseteq Message /\ IsFiniteSet(db)
      /\ \A m, n \in db : m.at = n.at => m = n
  BY RowsDistinct DEF MemoryInv, TypeOK, KnownInv
<1>2. ByTime(db) \in Seq(Message) /\ ToSet(ByTime(db)) = db
  BY <1>1, ByTimeFacts
<1> QED
  BY <1>1, <1>2 DEF MemoryInv, TypeOK, MemoryIsCommittedOrPending

\* The message being inserted is newer than every row.
LEMMA NewestRow ==
  ASSUME MemoryInv, SerialInv, NEW r \in Requests, req[r].pc = "insert"
  PROVE  /\ Saving(r) \in Message /\ Saving(r) \notin db
         /\ \A m \in db : m.at < Saving(r).at
         /\ ByTime(db \cup {Saving(r)}) = Append(ByTime(db), Saving(r))
         /\ Ends(mem, ByTime(db \cup {Saving(r)}))
<1> USE DEF MemoryInv
<1>0. /\ db \subseteq Message /\ IsFiniteSet(db) /\ ByTime(db) \in Seq(Message)
      /\ \A m, n \in db : m.at = n.at => m = n
      /\ req[r].start \in Nat /\ req[r].at \in Nat /\ req[r].role \in Roles
  BY LogFacts DEF RequestRecords
<1>1. Saving(r) \in Message /\ Saving(r).by = r /\ Saving(r).role = req[r].role
      /\ Saving(r).at = req[r].at /\ Sent(Saving(r))
  BY SavingFacts DEF Saving
<1>4. Saving(r) \notin db /\ SerialOf(r)
  BY DEF SerialInv, SerialOf
<1>5. ASSUME NEW m \in db PROVE m.at < req[r].at
  <2>1. /\ m \in Message /\ Sent(m) /\ m.by \in Requests /\ m.role \in Roles
        /\ m.at \in Nat
    BY <1>0 DEF KnownInv, Message
  <2>2. req[r].start <= req[r].at
    BY <1>0 DEF ClockInv, Roles
  <2>3. CASE m.by # r
    <3>1. r \in InFlight
      BY DEF InFlight
    <3>2. m.at < req[r].start
      BY <2>3, <3>1 DEF SerialInv
    <3> QED
      BY <1>0, <2>1, <2>2, <3>2
  <2>4. CASE m.by = r /\ m.role # req[r].role
    BY <1>0, <2>1, <2>4 DEF Sent, ReplySent, ClockInv, Roles
  <2>5. CASE m.by = r /\ m.role = req[r].role
    <3>1. m.at = Saving(r).at
      BY <1>1, <2>1, <2>5 DEF Sent, Roles
    <3>2. m = Saving(r)
      BY <1>1, <2>1, <2>5, <3>1 DEF Message
    <3> QED
      BY <1>4, <3>2
  <2> QED
    BY <2>3, <2>4, <2>5
<1>6. ByTime(db \cup {Saving(r)}) = Append(ByTime(db), Saving(r))
  <2> DEFINE k == Saving(r)
  <2>1. k \in Message /\ \A m \in db : m.at < k.at
    BY <1>1, <1>5
  <2> HIDE DEF k
  <2>2. ByTime(db \cup {k}) = Append(ByTime(db), k)
    BY <1>0, <2>1, ByTimeAppend
  <2> QED
    BY <2>2 DEF k
<1>7. Ends(mem, ByTime(db \cup {Saving(r)}))
  <2> DEFINE k == Saving(r)
             t == ByTime(db)
  <2>1. \/ mem = <<>>
        \/ \E s \in Seq(Message) : Ends(s, t) /\ mem = Append(s, k)
    BY <1>4 DEF SerialOf
  <2>2. ByTime(db \cup {k}) = Append(t, k) /\ k \in Message /\ t \in Seq(Message)
    BY <1>0, <1>1, <1>6
  <2> HIDE DEF k, t
  <2>3. CASE mem = <<>>
    <3>1. Append(t, k) \in Seq(Message)
      BY <2>2
    <3>2. Ends(<<>>, Append(t, k))
      BY <2>2, <3>1, EndsFacts
    <3> QED
      BY <2>2, <2>3, <3>2 DEF k
  <2>4. ASSUME NEW s \in Seq(Message), Ends(s, t), mem = Append(s, k)
        PROVE  Ends(mem, Append(t, k))
    BY <2>2, <2>4, EndsFacts
  <2> QED
    BY <2>1, <2>2, <2>3, <2>4 DEF k
<1> QED
  BY <1>1, <1>4, <1>5, <1>6, <1>7

\* When a request runs, no other does.
LEMMA Alone ==
  ASSUME Serial, MemoryInv, SerialInv, NEW r \in Requests, RequestStep(r)
  PROVE  /\ \A s \in Requests \ {r} : req[s].pc \in {"idle", "done"} /\ req'[s] = req[s]
         /\ req[r].pc # "insert" => Ends(mem, ByTime(db))
         /\ req[r].pc # "invalidate" => redis \in {<<>>, Latest(ByTime(db))}
<1>1. Moves(r) /\ \A s \in Requests \ {r} : req'[s] = req[s]
  BY RequestMoves DEF MemoryInv
<1>2. ASSUME NEW s \in Requests \ {r} PROVE req[s].pc \in {"idle", "done"}
  <2>0. req[s].pc # "dead"
    BY DEF SerialInv, SerialOf
  <2>1. CASE req[r].pc = "idle"
    <3>1. Start(r)
      BY <2>1 DEF RequestStep, EnsureConversation, ReadMemory, ReadRedis,
           QueryMessages, FillRedis, FillMemory, CallLLM, AppendMemory,
           InsertMessage, DeleteCached
    <3>2. Cardinality(InFlight) < 1
      BY <3>1 DEF Start, Serial
    <3>3. IsFiniteSet(InFlight)
      BY FS_Subset, MemoryAssumption DEF InFlight
    <3>4. Cardinality(InFlight) = 0
      BY <3>2, <3>3, FS_CardinalityType
    <3>5. InFlight = {}
      BY <3>3, <3>4, FS_EmptySet
    <3> QED
      BY <2>0, <3>5 DEF InFlight
  <2>2. CASE req[r].pc # "idle"
    <3>1. r \in InFlight
      BY <1>1, <2>2 DEF Moves, Early, InFlight
    <3> QED
      BY <2>0, <3>1 DEF InFlight, SerialInv
  <2> QED
    BY <2>1, <2>2
<1> QED
  BY <1>1, <1>2 DEF SerialInv

\* What remains to be shown of a step of a request that runs alone.
LEMMA SerialFrom ==
  ASSUME Serial, MemoryInv, SerialInv, NEW r \in Requests, RequestStep(r),
         db \subseteq db', erased' = {}, refused' = {},
         \A m \in db' : m.by = r \/ m.at < req'[r].start,
         SerialOf(r)',
         req'[r].pc # "invalidate" => redis' \in {<<>>, Latest(ByTime(db'))},
         req'[r].pc # "insert" => Ends(mem', ByTime(db'))
  PROVE  SerialInv'
<1>1. /\ \A s \in Requests \ {r} : req[s].pc \in {"idle", "done"} /\ req'[s] = req[s]
      /\ admin' = admin /\ begin' = begin /\ (row' = row \/ row' = TRUE)
  BY Alone, InsertWrites DEF MemoryInv
<1>2. row => row'
  BY <1>1, Zenon
<1>3. \A s \in InFlight' : s = r
  BY <1>1 DEF InFlight
<1>4. ASSUME NEW s \in Requests PROVE SerialOf(s)'
  <2>1. CASE s = r
    BY <2>1, Zenon
  <2>2. CASE s # r
    <3>1. req[s].pc \in {"idle", "done"} /\ req'[s] = req[s] /\ SerialOf(s)
      BY <1>1, <2>2 DEF SerialInv
    <3>2. /\ req'[s].pc # "idle" => row'
          /\ req'[s].role = "assistant" => \E m \in db' : m.by = s /\ m.role = "user"
      BY <1>2, <3>1 DEF SerialOf
    <3> QED
      BY <3>1, <3>2 DEF SerialOf
  <2> QED
    BY <2>1, <2>2
<1>5. begin' = "post" => row'
  BY <1>1, <1>2 DEF SerialInv
<1>6. /\ admin'.op \in {"none", "archive"} /\ admin'.pc \in {"idle", "memory", "done", "failed"}
      /\ admin'.pc # "idle" => admin'.op = "archive"
  BY <1>1 DEF SerialInv
<1> HIDE DEF SerialOf
<1> QED
  BY <1>1, <1>3, <1>4, <1>5, <1>6 DEF SerialInv

\* A request has its conversation's row unless it is the one that makes it.
LEMMA StartsWithRow ==
  ASSUME Serial, MemoryInv, SerialInv, NEW r \in Requests, Start(r)
  PROVE  /\ req'[r].pc \in {"ensure", "memory"} /\ req'[r].start = clock
         /\ req'[r].role = "user"
         /\ req'[r].pc = "memory" => row
<1>1. req \in [Requests -> RequestRecords] /\ begin \in {"post", "nil"}
  BY MemoryAssumption DEF MemoryInv, TypeOK, SavedInv, Serial, BeginKinds
<1>2. /\ req'[r].pc = IF First(r) /\ begin = "nil" THEN "ensure" ELSE "memory"
      /\ req'[r].start = clock /\ req'[r].role = req[r].role
  BY <1>1, Zenon DEF Start, RequestRecords
<1>3. ASSUME ~(First(r) /\ begin = "nil") PROVE row
  <2>1. CASE begin = "post"
    BY <2>1 DEF SerialInv
  <2>2. CASE begin # "post"
    <3>1. PICK q \in Requests : req[q].pc = "done"
      BY <1>1, <1>3, <2>2 DEF Start
    <3> QED
      BY <3>1 DEF SerialInv, SerialOf
  <2> QED
    BY <2>1, <2>2
<1>4. req[r].role = "user"
  BY DEF Start, MemoryInv, ClockInv, Early
<1> QED
  BY <1>2, <1>3, <1>4

\* Nothing fails that would separate the tiers from the table.
LEMMA SerialStep ==
  Serial /\ MemoryInv /\ SerialInv /\ [Next]_vars => SerialInv'
<1> SUFFICES ASSUME Serial, MemoryInv, SerialInv, [Next]_vars PROVE SerialInv'
  OBVIOUS
<1> DEFINE log == ByTime(db)
           rows == Latest(log)
<1>0. /\ TypeOK /\ ClockInv /\ KnownInv
      /\ ~MayFail("db") /\ ~MayFail("del") /\ ~MayFail("restart")
      /\ erased = {} /\ refused = {}
      /\ req \in [Requests -> RequestRecords] /\ db \subseteq Message
      /\ \A r \in Requests : SerialOf(r)
  BY DEF MemoryInv, Serial, SerialInv, MayFail, TypeOK
<1>log. /\ log \in Seq(Message) /\ mem \in Seq(Message)
        /\ rows \in Seq(Message) /\ Ends(rows, log) /\ Latest(rows) = rows
        /\ Ends(<<>>, log)
  <2>1. log \in Seq(Message) /\ mem \in Seq(Message)
    BY LogFacts
  <2> HIDE DEF log
  <2>2. Ends(<<>>, log)
    BY <2>1, EmptySeq DEF Ends
  <2> QED
    BY <2>1, <2>2, LatestIsEnd
<1>1. ASSUME NEW r \in Requests, RequestStep(r) PROVE SerialInv'
  <2>1. /\ \A s \in Requests \ {r} : req'[s] = req[s]
        /\ req[r].pc # "insert" => Ends(mem, log)
        /\ req[r].pc # "invalidate" => redis \in {<<>>, rows}
    BY <1>1, Alone
  <2>2. /\ req[r].pc \notin {"idle", "ensure"} => row
        /\ req[r].pc \in {"redis", "query", "fillRedis", "fillMemory"} => mem = <<>>
        /\ req[r].pc \in {"fillRedis", "fillMemory"} => req[r].rows = rows
        /\ req[r].role = "assistant" => \E m \in db : m.by = r /\ m.role = "user"
        /\ req[r].pc = "invalidate" => Saving(r) \in db
    BY <1>0 DEF SerialOf
  <2>3. Moves(r)
    BY <1>0, <1>1, RequestMoves
  <2>4. req[r].pc # "idle" => \A m \in db : m.by = r \/ m.at < req[r].start
    <3>1. req[r].pc \notin {"done", "dead"}
      BY <2>3 DEF Moves, Early
    <3> QED
      BY <3>1 DEF SerialInv, InFlight
  <2> HIDE DEF log, rows
  \* Steps that leave the table and the map, in the states before the insertion.
  <2>quiet. ASSUME UNCHANGED <<mem, db, erased, refused>>, row' = row,
                   req[r].pc \notin {"idle", "insert"},
                   req'[r].pc \notin {"dead", "idle", "ensure", "insert", "invalidate"},
                   row', req'[r].start = req[r].start,
                   req'[r].role = "user" \/ \E m \in db : m.by = r /\ m.role = "user",
                   req'[r].pc \in {"redis", "query", "fillRedis", "fillMemory"} => mem = <<>>,
                   req'[r].pc \in {"fillRedis", "fillMemory"} => req'[r].rows = rows,
                   redis' \in {<<>>, rows}
            PROVE  SerialInv'
    <3>1. SerialOf(r)'
      BY <2>quiet DEF SerialOf, rows, log
    <3>2. Ends(mem', ByTime(db')) /\ redis' \in {<<>>, Latest(ByTime(db'))}
      BY <2>1, <2>quiet DEF rows, log
    <3>3. db \subseteq db' /\ erased' = {} /\ refused' = {}
      BY <1>0, <2>quiet
    <3>4. \A m \in db' : m.by = r \/ m.at < req'[r].start
      BY <2>4, <2>quiet
    <3> HIDE DEF SerialOf
    <3> QED
      BY <1>1, <3>1, <3>2, <3>3, <3>4, SerialFrom
  <2>role. req[r].role = "user" \/ \E m \in db : m.by = r /\ m.role = "user"
    BY <1>0, <2>2 DEF RequestRecords, Roles
  <2>9. CASE Start(r)
    <3>1. \A m \in db : m.at < clock
      BY <1>0 DEF KnownInv, ClockInv, Sent, Message, Roles
    <3>2. UNCHANGED <<mem, redis, db, row, erased, refused>> /\ req[r].pc = "idle"
      BY <2>9 DEF Start
    <3>3. /\ req'[r].pc \in {"ensure", "memory"} /\ req'[r].start = clock
          /\ req'[r].role = "user"
          /\ req'[r].pc = "memory" => row
      BY <2>9, StartsWithRow
    <3>4. SerialOf(r)'
      BY <3>2, <3>3 DEF SerialOf
    <3>5. Ends(mem', ByTime(db')) /\ redis' \in {<<>>, Latest(ByTime(db'))}
      BY <2>1, <3>2 DEF rows, log
    <3>6. \A m \in db' : m.at < req'[r].start
      BY <3>1, <3>2, <3>3
    <3> HIDE DEF SerialOf
    <3> QED
      BY <1>0, <1>1, <3>2, <3>4, <3>5, <3>6, SerialFrom
  <2>10. CASE EnsureConversation(r)
    <3>1. /\ req'[r].pc = "memory" /\ req'[r].start = req[r].start
          /\ req'[r].role = req[r].role
          /\ row' /\ UNCHANGED <<mem, redis, db, erased, refused>>
          /\ req[r].pc = "ensure"
      BY <1>0, <2>10 DEF EnsureConversation, Go, RequestRecords
    <3>2. SerialOf(r)'
      BY <2>role, <3>1 DEF SerialOf
    <3>3. Ends(mem', ByTime(db')) /\ redis' \in {<<>>, Latest(ByTime(db'))}
      BY <2>1, <3>1 DEF rows, log
    <3>4. \A m \in db' : m.by = r \/ m.at < req'[r].start
      BY <2>4, <3>1
    <3> HIDE DEF SerialOf
    <3> QED
      BY <1>0, <1>1, <3>1, <3>2, <3>3, <3>4, SerialFrom
  <2>11. CASE ReadMemory(r)
    <3>1. /\ UNCHANGED <<mem, redis, db, row, erased, refused>>
          /\ req[r].pc = "memory"
      BY <2>11 DEF ReadMemory
    <3>2. /\ req'[r].pc = "llm" \/ (req'[r].pc = "redis" /\ mem = <<>>)
          /\ req'[r].start = req[r].start /\ req'[r].role = req[r].role
      <4>1. CASE Go(r, "redis") /\ mem = <<>>
        BY <1>0, <4>1 DEF Go, RequestRecords
      <4>2. CASE req' = [req EXCEPT ![r].pc = "llm", ![r].hist = Latest(mem)]
        BY <1>0, <4>2 DEF RequestRecords
      <4> QED
        BY <2>11, <4>1, <4>2 DEF ReadMemory
    <3> QED
      BY <2>1, <2>2, <2>role, <2>quiet, <3>1, <3>2
  <2>12. CASE ReadRedis(r)
    <3>1. /\ UNCHANGED <<mem, redis, db, row, erased, refused>>
          /\ req[r].pc = "redis"
      BY <2>12 DEF ReadRedis
    <3>2. /\ req'[r].pc \in {"llm", "query"}
          /\ req'[r].start = req[r].start /\ req'[r].role = req[r].role
      <4>1. CASE Go(r, "query")
        BY <1>0, <4>1 DEF Go, RequestRecords
      <4>2. CASE req' = [req EXCEPT ![r].pc = "llm", ![r].hist = Latest(redis)]
        BY <1>0, <4>2 DEF RequestRecords
      <4> QED
        BY <2>12, <4>1, <4>2 DEF ReadRedis
    <3> QED
      BY <2>1, <2>2, <2>role, <2>quiet, <3>1, <3>2
  <2>13. CASE QueryMessages(r)
    <3> DEFINE pc == IF rows = <<>> THEN "fillMemory" ELSE "fillRedis"
    <3>1. /\ UNCHANGED <<mem, redis, db, row, erased, refused>>
          /\ req[r].pc = "query"
      BY <2>13 DEF QueryMessages
    <3>2. req' = [req EXCEPT ![r].rows = rows, ![r].pc = pc]
      BY <1>0, <2>13 DEF QueryMessages, rows, log
    <3>3. pc \in {"fillMemory", "fillRedis"}
      OBVIOUS
    <3> HIDE DEF pc
    <3>4. /\ req'[r].pc = pc /\ req'[r].rows = rows
          /\ req'[r].start = req[r].start /\ req'[r].role = req[r].role
      BY <1>0, <3>2, Zenon DEF RequestRecords
    <3> QED
      BY <2>1, <2>2, <2>role, <2>quiet, <3>1, <3>3, <3>4
  <2>14. CASE FillRedis(r)
    <3>1. /\ UNCHANGED <<mem, db, row, erased, refused>>
          /\ req[r].pc = "fillRedis" /\ (redis' = req[r].rows \/ redis' = redis)
      BY <2>14 DEF FillRedis
    <3>2. /\ req'[r].pc = "fillMemory" /\ req'[r].rows = req[r].rows
          /\ req'[r].start = req[r].start /\ req'[r].role = req[r].role
      BY <1>0, <2>14 DEF FillRedis, Go, RequestRecords
    <3> QED
      BY <2>1, <2>2, <2>role, <2>quiet, <3>1, <3>2
  <2>15. CASE FillMemory(r)
    <3>1. /\ req'[r].pc = "llm" /\ req'[r].start = req[r].start
          /\ req'[r].role = req[r].role
          /\ UNCHANGED <<redis, db, row, erased, refused>>
          /\ req[r].pc = "fillMemory" /\ mem' = req[r].rows
      BY <1>0, <2>15 DEF FillMemory, RequestRecords
    <3>2. SerialOf(r)'
      BY <2>2, <2>role, <3>1 DEF SerialOf
    <3>3. Ends(mem', ByTime(db')) /\ redis' \in {<<>>, Latest(ByTime(db'))}
      BY <1>log, <2>1, <2>2, <3>1 DEF rows, log
    <3>4. \A m \in db' : m.by = r \/ m.at < req'[r].start
      BY <2>4, <3>1
    <3> HIDE DEF SerialOf
    <3> QED
      BY <1>0, <1>1, <3>1, <3>2, <3>3, <3>4, SerialFrom
  <2>16. CASE CallLLM(r)
    <3>1. /\ UNCHANGED <<mem, redis, db, row, erased, refused>>
          /\ req[r].pc = "llm"
      BY <2>16 DEF CallLLM
    <3>2. /\ req'[r].pc = "append" \/ req'[r].pc = "done"
          /\ req'[r].start = req[r].start /\ req'[r].role = req[r].role
      BY <1>0, <2>16 DEF CallLLM, Go, RequestRecords
    <3> QED
      BY <2>1, <2>2, <2>role, <2>quiet, <3>1, <3>2
  <2>17. CASE AppendMemory(r)
    <3>1. /\ req'[r].pc = "insert" /\ req'[r].start = req[r].start
          /\ req'[r].role = req[r].role /\ req'[r].at = req[r].at
          /\ UNCHANGED <<redis, db, row, erased, refused>>
          /\ req[r].pc = "append" /\ mem' = Append(mem, Saving(r))
      BY <1>0, <2>17 DEF AppendMemory, Go, RequestRecords
    <3>2. Saving(r)' = Saving(r)
      BY <3>1 DEF Saving
    <3>3. Saving(r) \notin db
      BY <1>0, <3>1, SavingFacts DEF KnownInv
    <3>4. \E s \in Seq(Message) : Ends(s, ByTime(db')) /\ mem' = Append(s, Saving(r)')
      BY <1>log, <2>1, <3>1, <3>2 DEF log
    <3>5. SerialOf(r)'
      BY <2>2, <2>role, <3>1, <3>2, <3>3, <3>4 DEF SerialOf
    <3>6. redis' \in {<<>>, Latest(ByTime(db'))}
      BY <2>1, <3>1 DEF rows, log
    <3>7. \A m \in db' : m.by = r \/ m.at < req'[r].start
      BY <2>4, <3>1
    <3> HIDE DEF SerialOf
    <3> QED
      BY <1>0, <1>1, <3>1, <3>5, <3>6, <3>7, SerialFrom
  <2>18. CASE InsertMessage(r)
    <3>1. req[r].pc = "insert" /\ row
      BY <2>2, <2>18 DEF InsertMessage
    <3>2. /\ db' = db \cup {Saving(r)} /\ Go(r, "invalidate")
          /\ UNCHANGED <<mem, redis, row, erased, refused>>
      BY <1>0, <2>18, <3>1 DEF InsertMessage
    <3>3. /\ req'[r].pc = "invalidate" /\ req'[r].start = req[r].start
          /\ req'[r].role = req[r].role /\ req'[r].at = req[r].at
      BY <1>0, <3>2 DEF Go, RequestRecords
    <3>4. Ends(mem', ByTime(db')) /\ Saving(r).by = r
      BY <3>1, <3>2, NewestRow DEF Saving
    <3>5. Saving(r)' = Saving(r)
      BY <3>3 DEF Saving
    <3>6. SerialOf(r)'
      BY <2>2, <3>1, <3>2, <3>3, <3>5 DEF SerialOf
    <3>7. \A m \in db' : m.by = r \/ m.at < req'[r].start
      BY <2>4, <3>1, <3>2, <3>3, <3>4
    <3> HIDE DEF SerialOf
    <3> QED
      BY <1>0, <1>1, <3>2, <3>3, <3>4, <3>6, <3>7, SerialFrom
  <2>19. CASE DeleteCached(r)
    <3>1. /\ req'[r].pc \in {"append", "done"} /\ req'[r].start = req[r].start
          /\ req[r].pc = "invalidate"
      BY <1>0, <2>3, <2>19 DEF DeleteCached, Moves, Early
    <3>2. UNCHANGED <<mem, db, row, erased, refused>> /\ redis' = <<>>
      BY <1>0, <2>19 DEF DeleteCached
    <3>3. req[r].role = "user" => \E m \in db : m.by = r /\ m.role = "user"
      BY <2>2, <3>1 DEF Saving
    <3> QED
      BY <2>1, <2>2, <2>role, <2>quiet, <3>1, <3>2, <3>3
  <2> QED
    BY <1>1, <2>9, <2>10, <2>11, <2>12, <2>13, <2>14, <2>15, <2>16, <2>17, <2>18,
       <2>19 DEF RequestStep
\* The rest leaves the table and the requests; the map and Redis are only emptied.
<1>other. ASSUME UNCHANGED <<db, row, begin, req, erased, refused>>,
                 mem' \in {mem, <<>>}, redis' \in {redis, <<>>},
                 admin'.op \in {"none", "archive"},
                 admin'.pc \in {"idle", "memory", "done", "failed"},
                 admin'.pc # "idle" => admin'.op = "archive"
          PROVE  SerialInv'
  <2>1. \A r \in Requests : Saving(r)' = Saving(r)
    BY <1>other DEF Saving
  <2>2. ASSUME NEW r \in Requests PROVE SerialOf(r)'
    <3>1. SerialOf(r)
      BY <1>0
    <3>2. req[r].pc = "insert" =>
            \/ mem' = <<>>
            \/ \E s \in Seq(Message) : Ends(s, ByTime(db')) /\ mem' = Append(s, Saving(r))
      BY <1>other, <3>1 DEF SerialOf
    <3> QED
      BY <1>other, <2>1, <3>1, <3>2 DEF SerialOf
  <2>3. InFlight' = InFlight
    BY <1>other DEF InFlight
  <2>4. (\A r \in Requests : req'[r].pc # "invalidate")
          => redis' \in {<<>>, Latest(ByTime(db'))}
    BY <1>other DEF SerialInv
  <2>5. (\A r \in Requests : req'[r].pc # "insert") => Ends(mem', ByTime(db'))
    BY <1>log, <1>other DEF SerialInv, log
  <2> HIDE DEF SerialOf
  <2> QED
    BY <1>other, <2>2, <2>3, <2>4, <2>5 DEF SerialInv
<1>2. CASE AdminStep
  <2>1. CASE \E op \in AdminOps : AdminBegin(op)
    <3>1. PICK op \in AdminOps : AdminBegin(op)
      BY <2>1
    <3>2. op = "archive"
      BY DEF Serial
    <3>3. /\ admin' = [op |-> "archive", pc |-> "memory"]
          /\ UNCHANGED <<mem, redis, db, row, begin, req, erased, refused>>
      BY <3>1, <3>2 DEF AdminBegin
    <3> QED
      BY <1>other, <3>3
  <2>2. CASE ForgetMemory
    <3>1. /\ admin.op = "archive" /\ admin \in [op : {"none", "clear", "archive", "delete"},
                pc : {"idle", "memory", "redis", "rows", "conversation", "done", "failed"}]
      BY <1>0, <2>2 DEF ForgetMemory, SerialInv, TypeOK
    <3>2. /\ mem' = <<>> /\ admin'.pc = "done" /\ admin'.op = "archive"
          /\ UNCHANGED <<redis, db, row, begin, req, erased, refused>>
      BY <2>2, <3>1 DEF ForgetMemory, AdminGo
    <3> QED
      BY <1>other, <3>2
  <2>3. ~ClearRedis /\ ~DeleteMessages /\ ~DeleteRow
    BY DEF SerialInv, ClearRedis, DeleteMessages, DeleteRow, AdminAt
  <2> QED
    BY <1>2, <2>1, <2>2, <2>3 DEF AdminStep
<1>3. CASE Expire
  BY <1>3, <1>other DEF Expire, SerialInv
<1>4. CASE Restart
  <2>1. InFlight = {}
    BY <1>0, <1>4 DEF Restart
  <2>2. req' = req
    BY <1>0, <1>4, <2>1 DEF Restart
  <2>3. admin \in [op : {"none", "clear", "archive", "delete"},
                pc : {"idle", "memory", "redis", "rows", "conversation", "done", "failed"}]
    BY <1>0 DEF TypeOK
  <2>4. /\ admin'.op = admin.op /\ admin'.pc \in {admin.pc, "failed"}
        /\ admin'.pc = "idle" <=> admin.pc = "idle"
    BY <1>4, <2>3 DEF Restart
  <2>5. /\ admin.op \in {"none", "archive"} /\ admin.pc \in {"idle", "memory", "done", "failed"}
        /\ admin.pc # "idle" => admin.op = "archive"
    BY DEF SerialInv
  <2>6. mem' = <<>> /\ UNCHANGED <<redis, db, row, begin, erased, refused>>
    BY <1>4 DEF Restart
  <2>7. /\ admin'.op \in {"none", "archive"}
        /\ admin'.pc \in {"idle", "memory", "done", "failed"}
        /\ admin'.pc # "idle" => admin'.op = "archive"
    BY <2>4, <2>5
  <2> HIDE DEF log, rows
  <2> QED
    BY <1>other, <2>2, <2>6, <2>7
<1>5. CASE UNCHANGED vars
  BY <1>5, <1>other DEF vars, SerialInv
<1> QED
  BY <1>1, <1>2, <1>3, <1>4, <1>5 DEF Next

\* The roles a table has of a request.
RolesIn(r, rows) ==
    LET Has(role) == \E m \in rows : m.by = r /\ m.role = role
    IN (IF Has("user") THEN <<"user">> ELSE <<>>)
         \o (IF Has("assistant") THEN <<"assistant">> ELSE <<>>)

\* The roles added for a request: none, the user's, or both.
LEMMA RolesAdded ==
  ASSUME NEW r \in Requests, NEW rows
  PROVE  /\ (\A m \in rows : m.by # r) => RolesIn(r, rows) = <<>>
         /\ (\E m \in rows : m.by = r /\ m.role = "user")
              /\ (\A m \in rows : ~(m.by = r /\ m.role = "assistant"))
                 => RolesIn(r, rows) = <<"user">>
         /\ (\E m \in rows : m.by = r /\ m.role = "user")
              /\ (\E m \in rows : m.by = r /\ m.role = "assistant")
                 => RolesIn(r, rows) = Append(<<"user">>, "assistant")
<1> DEFINE HasUser == \E m \in rows : m.by = r /\ m.role = "user"
           HasReply == \E m \in rows : m.by = r /\ m.role = "assistant"
<1>1. RolesIn(r, rows) = (IF HasUser THEN <<"user">> ELSE <<>>)
                            \o (IF HasReply THEN <<"assistant">> ELSE <<>>)
  BY DEF RolesIn
<1>2. /\ <<>> \o <<>> = <<>> /\ <<"user">> \o <<>> = <<"user">>
      /\ <<"user">> \o <<"assistant">> = Append(<<"user">>, "assistant")
  <2>1. <<>> \in Seq(Roles) /\ <<"user">> \in Seq(Roles)
    BY DEF Roles
  <2>2. <<>> \o <<>> = <<>> /\ <<"user">> \o <<>> = <<"user">>
    BY <2>1, ConcatEmptySeq
  <2>3. <<"user">> \o <<"assistant">> = Append(<<"user">>, "assistant")
    BY <2>1, AppendIsConcat DEF Roles
  <2> QED
    BY <2>2, <2>3
<1>3. /\ (\A m \in rows : m.by # r) => ~HasUser /\ ~HasReply
      /\ (\E m \in rows : m.by = r /\ m.role = "user") <=> HasUser
      /\ (\E m \in rows : m.by = r /\ m.role = "assistant") <=> HasReply
  OBVIOUS
<1> HIDE DEF HasUser, HasReply
<1> QED
  BY <1>1, <1>2, <1>3

\* A request that has not appended its first message has no row.
LEMMA NoRowYet ==
  ASSUME MemoryInv, NEW r \in Requests, req[r].pc \in Early
  PROVE  \A m \in db : m.by # r
<1> SUFFICES ASSUME NEW m \in db, m.by = r PROVE FALSE
  OBVIOUS
<1>1. m \in Message /\ Sent(m) /\ req[r].role = "user"
  BY DEF MemoryInv, TypeOK, KnownInv, ClockInv
<1> QED
  BY <1>1 DEF Sent, UserSent, ReplySent, Message, Roles, Early

\* Functions that differ at one argument only.
LEMMA OneUpdated ==
  ASSUME NEW S, NEW T, NEW U, NEW f \in [S -> T], NEW g \in [S -> U],
         NEW r \in S, NEW v, g[r] = v, \A q \in S \ {r} : g[q] = f[q]
  PROVE  g = [f EXCEPT ![r] = v]
OBVIOUS

\* How much of the log the map keeps: all it shows, but for a message being inserted.
Kept == Cardinality(ToSet(mem) \cap db)

LEMMA KeptCount ==
  ASSUME MemoryInv, SerialInv
  PROVE  /\ mem = <<>> => Kept = 0
         /\ Ends(mem, ByTime(db)) => Kept = Len(mem)
<1>0. /\ mem \in Seq(Message) /\ IsInjective(mem)
      /\ ByTime(db) \in Seq(Message) /\ ToSet(ByTime(db)) = db
  BY LogFacts
<1>1. ASSUME mem = <<>> PROVE Kept = 0
  <2>1. ToSet(mem) \cap db = {}
    BY <1>1 DEF ToSet
  <2> QED
    BY <2>1, FS_EmptySet DEF Kept
<1>2. ASSUME Ends(mem, ByTime(db)) PROVE Kept = Len(mem)
  <2> DEFINE log == ByTime(db)
  <2>1. /\ log \in Seq(Message) /\ ToSet(log) = db /\ Ends(mem, log)
    BY <1>0, <1>2
  <2> HIDE DEF log
  <2>2. \A i \in 1 .. Len(mem) : mem[i] = log[i + (Len(log) - Len(mem))]
                                 /\ i + (Len(log) - Len(mem)) \in 1 .. Len(log)
    BY <1>0, <2>1 DEF Ends
  <2>3. ToSet(mem) \subseteq db
    <3>1. DOMAIN mem = 1 .. Len(mem) /\ DOMAIN log = 1 .. Len(log)
      BY <1>0, <2>1
    <3> QED
      BY <2>1, <2>2, <3>1 DEF ToSet
  <2>4. ToSet(mem) \cap db = ToSet(mem)
    BY <2>3
  <2> QED
    BY <1>0, <2>4, CountInjective DEF Kept
<1> QED
  BY <1>1, <1>2

\* GetHistory serves the end of the log, and what it fills the map with is that.
LEMMA ServeStep ==
  ASSUME MemoryInv, SerialInv, NEW r \in Requests, req[r].pc \in Early,
         db' = db, \A q \in Requests \ {r} : req'[q] = req[q],
         \/ /\ mem # <<>> /\ Ends(mem, ByTime(db)) /\ mem' = mem
            /\ req'[r].hist = Latest(mem)
         \/ /\ mem = <<>> /\ req'[r].hist = Latest(ByTime(db))
            /\ mem' = mem \/ mem' = req'[r].hist
  PROVE  Log!Serve(r)
<1> DEFINE log == ByTime(db)
           served == [q \in Requests |-> req[q].hist]
           n == IF Kept \in 1 .. Limit THEN Kept ELSE Limit
           given == Log!Suffix(log, n)
<1>0. /\ log \in Seq(Message) /\ ToSet(log) = db /\ mem \in Seq(Message)
      /\ Limit \in Nat \ {0} /\ ~(0 \in 1 .. Limit)
  BY LogFacts, MemoryAssumption
<1>1. AddedRoles(r) = <<>>
  BY NoRowYet, RolesAdded DEF AddedRoles, RolesIn
<1>2. mem # <<>> => Kept = Len(mem)
  BY KeptCount
<1>3. mem = <<>> => Kept = 0
  BY KeptCount
<1>4. req'[r].hist = given
  <2> HIDE DEF log
  <2>1. CASE mem # <<>>
    <3>1. Ends(mem, log) /\ req'[r].hist = Latest(mem)
      BY <2>1 DEF log
    <3>2. Latest(mem) =
            Log!Suffix(log, IF Len(mem) \in 1 .. Limit THEN Len(mem) ELSE Limit)
      BY <1>0, <2>1, <3>1, EndServed
    <3> QED
      BY <1>2, <2>1, <3>1, <3>2
  <2>2. CASE mem = <<>>
    <3>1. n = Limit
      BY <1>0, <1>3, <2>2
    <3>2. req'[r].hist = Latest(log)
      BY <2>2 DEF log
    <3>3. Latest(log) = Log!Suffix(log, Limit)
      BY DEF Latest, Log!Suffix
    <3> QED
      BY <3>1, <3>2, <3>3
  <2> QED
    BY <2>1, <2>2
<1>5. Kept' = Kept \/ (Kept = 0 /\ Kept' = Len(req'[r].hist))
  <2>1. CASE mem' = mem
    BY <2>1 DEF Kept
  <2>2. CASE mem = <<>> /\ mem' = Latest(log)
    <3>1. Kept' = Cardinality(ToSet(Latest(log)) \cap db)
      BY <2>2 DEF Kept
    <3>2. ToSet(Latest(log)) \subseteq db /\ IsInjective(Latest(log))
          /\ Latest(log) \in Seq(Message)
      BY QueriedRows DEF MemoryInv
    <3>3. ToSet(Latest(log)) \cap db = ToSet(Latest(log))
      BY <3>2
    <3> HIDE DEF log
    <3>4. Cardinality(ToSet(Latest(log))) = Len(Latest(log))
      BY <3>2, CountInjective
    <3>5. req'[r].hist = Latest(log)
      BY <2>2 DEF log
    <3> QED
      BY <1>3, <2>2, <3>1, <3>3, <3>4, <3>5
  <2> QED
    BY <2>1, <2>2
<1>6. served' = [served EXCEPT ![r] = given]
  <2>1. req'[r].hist = given /\ \A q \in Requests \ {r} : req'[q].hist = req[q].hist
    BY <1>4
  <2> HIDE DEF given
  <2>2. /\ served \in [Requests -> {req[q].hist : q \in Requests}]
        /\ served' \in [Requests -> {req'[q].hist : q \in Requests}]
        /\ served'[r] = given /\ \A q \in Requests \ {r} : served'[q] = served[q]
    BY <2>1
  <2> HIDE DEF served
  <2> QED
    BY <2>2, OneUpdated
<1>7. UNCHANGED <<ByTime(db), [q \in Requests |-> AddedRoles(q)]>>
  BY DEF AddedRoles
<1>8. served'[r] = req'[r].hist
  OBVIOUS
<1>9. /\ Kept = Cardinality(ToSet(mem) \cap db)
      /\ Kept' = Cardinality(ToSet(mem') \cap db')
  BY DEF Kept
<1>10. [q \in Requests |-> AddedRoles(q)][r] = <<>>
  BY <1>1
<1> HIDE DEF served
<1>11. given = Log!Suffix(ByTime(db), IF Cardinality(ToSet(mem) \cap db) \in 1 .. Limit
                                    THEN Cardinality(ToSet(mem) \cap db) ELSE Limit)
  BY <1>9
<1> HIDE DEF given
<1>12. /\ served' = [served EXCEPT ![r] = given]
       /\ Kept' = Kept \/ (Kept = 0 /\ Kept' = Len(served'[r]))
  BY <1>5, <1>6, <1>8
<1> QED
  BY <1>7, <1>9, <1>10, <1>11, <1>12 DEF Log!Serve, served

\* SaveMessage's insertion adds the request's next message at the end of the log.
LEMMA AddStep ==
  ASSUME MemoryInv, SerialInv, NEW r \in Requests, req[r].pc = "insert",
         db' = db \cup {Saving(r)}, mem' = mem,
         \A q \in Requests : req'[q].hist = req[q].hist
  PROVE  Log!Add(r, req[r].role)
<1> DEFINE m == Saving(r)
           log == ByTime(db)
           added == [q \in Requests |-> AddedRoles(q)]
<1>0. /\ db \subseteq Message /\ IsFiniteSet(db)
      /\ \A x, y \in db : x.at = y.at => x = y
      /\ req[r].start \in Nat /\ req[r].at \in Nat /\ req[r].role \in Roles
      /\ mem \in Seq(Message) /\ IsInjective(mem) /\ log \in Seq(Message)
      /\ ToSet(log) = db /\ SerialOf(r)
  BY LogFacts DEF RequestRecords, SerialInv
<1>1. /\ m \in Message /\ m \notin db
      /\ m.by = r /\ m.role = req[r].role /\ m.at = req[r].at
  BY <1>0, NewestRow DEF Saving
<1>2. /\ Len(log') = Len(log) + 1 /\ SubSeq(log', 1, Len(log)) = log
      /\ log'[Len(log')] = m
  <2>1. log' = Append(log, m)
    BY NewestRow
  <2> HIDE DEF m, log
  <2>2. /\ Len(Append(log, m)) = Len(log) + 1
        /\ Append(log, m)[Len(log) + 1] = m
        /\ SubSeq(Append(log, m), 1, Len(log)) = log
    BY <1>0, <1>1
  <2> QED
    BY <2>1, <2>2
<1>3. ASSUME NEW x \in db, x.by = r PROVE x.role = "user" /\ req[r].role = "assistant"
  <2>1. x \in Message /\ Sent(x)
    BY <1>0 DEF MemoryInv, KnownInv
  <2>2. x.at # m.at
    <3>1. x.at < m.at /\ x.at \in Nat
      BY <1>1, <2>1, NewestRow DEF Message
    <3> QED
      BY <3>1
  <2> QED
    BY <1>0, <1>1, <1>3, <2>1, <2>2
      DEF Sent, ReplySent, Message, Roles, MemoryInv, ClockInv
<1>4. req[r].role = "assistant" => \E x \in db : x.by = r /\ x.role = "user"
  BY <1>0 DEF SerialOf
<1>5. \A q \in Requests :
        AddedRoles(q) = RolesIn(q, db) /\ AddedRoles(q)' = RolesIn(q, db')
  BY DEF AddedRoles, RolesIn
<1>6. /\ AddedRoles(r) = IF req[r].role = "user" THEN <<>> ELSE <<"user">>
      /\ AddedRoles(r)' = Append(AddedRoles(r), req[r].role)
  <2> HIDE DEF m
  <2>1. db' = db \cup {m}
    BY DEF m
  <2>2. CASE req[r].role = "user"
    <3>1. AddedRoles(r) = <<>> /\ AddedRoles(r)' = <<"user">>
      BY <1>1, <1>3, <1>5, <2>1, <2>2, RolesAdded
    <3>2. Append(<<>>, "user") = <<"user">>
      OBVIOUS
    <3> QED
      BY <2>2, <3>1, <3>2
  <2>3. CASE req[r].role = "assistant"
    <3>1. /\ AddedRoles(r) = <<"user">>
          /\ AddedRoles(r)' = Append(<<"user">>, "assistant")
      BY <1>1, <1>3, <1>4, <1>5, <2>1, <2>3, RolesAdded
    <3> QED
      BY <2>3, <3>1
  <2> QED
    BY <1>0, <2>2, <2>3 DEF Roles
<1>7. \A q \in Requests \ {r} : AddedRoles(q)' = AddedRoles(q)
  BY <1>1 DEF AddedRoles
<1>8. added' = [added EXCEPT ![r] = Append(added[r], req[r].role)]
  <2> DEFINE next == Append(AddedRoles(r), req[r].role)
  <2>1. /\ added \in [Requests -> {AddedRoles(q) : q \in Requests}]
        /\ added' \in [Requests -> {AddedRoles(q)' : q \in Requests}]
        /\ added'[r] = next /\ \A q \in Requests \ {r} : added'[q] = added[q]
        /\ Append(added[r], req[r].role) = next
    BY <1>6, <1>7
  <2> HIDE DEF added, next
  <2> QED
    BY <2>1, OneUpdated
<1>9. added[r] = IF req[r].role = "user" THEN <<>> ELSE <<"user">>
  BY <1>6
<1>10. /\ req[r].role = IF added[r] = <<>> THEN "user" ELSE "assistant"
       /\ Len(added[r]) < 2
  <2> HIDE DEF added
  <2>1. <<"user">> # <<>> /\ Len(<<"user">>) = 1 /\ Len(<<>>) = 0
    OBVIOUS
  <2> QED
    BY <1>0, <1>9, <2>1 DEF Roles
<1>11. UNCHANGED [q \in Requests |-> req[q].hist]
  OBVIOUS
<1>12. Kept' = Kept + 1 \/ (Kept = 0 /\ Kept' = 0)
  <2>1. \/ mem = <<>>
        \/ \E s \in Seq(Message) : Ends(s, log) /\ mem = Append(s, m)
    BY <1>0 DEF SerialOf
  <2>2. CASE mem = <<>>
    <3>1. ToSet(mem') \cap db' = {}
      BY <2>2 DEF ToSet
    <3>2. Kept' = 0
      BY <3>1, FS_EmptySet DEF Kept
    <3> QED
      BY <2>2, <3>2, KeptCount
  <2>3. ASSUME NEW s \in Seq(Message), Ends(s, log), mem = Append(s, m)
        PROVE  Kept' = Kept + 1
    <3> HIDE DEF log, m
    <3>1. ToSet(mem) = ToSet(s) \cup {m}
      BY <1>1, <2>3, ToSetFacts
    <3>2. \A i \in 1 .. Len(s) : s[i] = log[i + (Len(log) - Len(s))]
                                 /\ i + (Len(log) - Len(s)) \in 1 .. Len(log)
      BY <1>0, <2>3 DEF Ends
    <3>3. ToSet(s) \subseteq db
      <4>1. DOMAIN s = 1 .. Len(s) /\ DOMAIN log = 1 .. Len(log)
        BY <1>0, <2>3
      <4>2. \A i \in 1 .. Len(log) : log[i] \in db
        BY <1>0, <4>1 DEF ToSet
      <4>3. \A i \in 1 .. Len(s) : s[i] \in db
        BY <3>2, <4>2
      <4> QED
        BY <4>1, <4>3 DEF ToSet
    <3>4. IsFiniteSet(ToSet(s))
      BY <1>0, <3>3, FS_Subset
    <3>5. Cardinality(ToSet(s) \cup {m}) = Cardinality(ToSet(s)) + 1
      BY <1>1, <3>3, <3>4, FS_AddElement
    <3>6. ToSet(mem) \cap db = ToSet(s) /\ ToSet(mem') \cap db' = ToSet(s) \cup {m}
      BY <1>1, <3>1, <3>3 DEF m
    <3> QED
      BY <3>5, <3>6 DEF Kept
  <2> QED
    BY <2>1, <2>2, <2>3
<1>13. /\ Kept = Cardinality(ToSet(mem) \cap db)
       /\ Kept' = Cardinality(ToSet(mem') \cap db')
  BY DEF Kept
<1> HIDE DEF m
<1> QED
  BY <1>1, <1>2, <1>8, <1>10, <1>11, <1>12, <1>13 DEF Log!Add

\* A step that leaves the table, the histories and what the map keeps leaves the log.
LEMMA LogStutter ==
  ASSUME db' = db, \A q \in Requests : req'[q].hist = req[q].hist,
         mem' = mem \/ \E m : m \notin db /\ ToSet(mem') = ToSet(mem) \cup {m}
  PROVE  UNCHANGED <<ByTime(db), [r \in Requests |-> req[r].hist],
                     [r \in Requests |-> AddedRoles(r)],
                     Cardinality(ToSet(mem) \cap db)>>
<1>1. UNCHANGED ByTime(db) /\ UNCHANGED [r \in Requests |-> req[r].hist]
  OBVIOUS
<1>2. UNCHANGED [r \in Requests |-> AddedRoles(r)]
  BY DEF AddedRoles
<1>3. ToSet(mem') \cap db' = ToSet(mem) \cap db
  OBVIOUS
<1> QED
  BY <1>1, <1>2, <1>3

\* Where the map is emptied the process keeps no copy.
LEMMA ForgetStep ==
  ASSUME db' = db, \A q \in Requests : req'[q].hist = req[q].hist, mem' = <<>>
  PROVE  Log!Forget
<1>1. UNCHANGED ByTime(db) /\ UNCHANGED [r \in Requests |-> req[r].hist]
  OBVIOUS
<1>2. UNCHANGED [r \in Requests |-> AddedRoles(r)]
  BY DEF AddedRoles
<1>3. Cardinality(ToSet(mem') \cap db') = 0
  <2>1. ToSet(mem') \cap db' = {}
    BY DEF ToSet
  <2> QED
    BY <2>1, FS_EmptySet
<1> QED
  BY <1>1, <1>2, <1>3 DEF Log!Forget

\* A request that runs alone is served the log, or adds its next message to it, or
\* does neither; archiving and a restart give up the copy.
LEMMA LogStep ==
  Serial /\ MemoryInv /\ SerialInv /\ [Next]_vars =>
    [Log!Next]_<<ByTime(db), [r \in Requests |-> req[r].hist],
                 [r \in Requests |-> AddedRoles(r)], Cardinality(ToSet(mem) \cap db)>>
<1> SUFFICES ASSUME Serial, MemoryInv, SerialInv, [Next]_vars
             PROVE  \/ Log!Next
                    \/ UNCHANGED <<ByTime(db), [r \in Requests |-> req[r].hist],
                                   [r \in Requests |-> AddedRoles(r)],
                                   Cardinality(ToSet(mem) \cap db)>>
  OBVIOUS
<1>0. /\ ~MayFail("db") /\ ~MayFail("del") /\ ~MayFail("restart")
      /\ req \in [Requests -> RequestRecords]
      /\ \A r \in Requests : SerialOf(r)
  BY DEF MemoryInv, Serial, SerialInv, MayFail, TypeOK
<1>1. ASSUME NEW r \in Requests, RequestStep(r)
      PROVE  \/ Log!Next
             \/ UNCHANGED <<ByTime(db), [q \in Requests |-> req[q].hist],
                            [q \in Requests |-> AddedRoles(q)],
                            Cardinality(ToSet(mem) \cap db)>>
  <2> DEFINE log == ByTime(db)
             rows == Latest(log)
  <2>1. /\ \A q \in Requests \ {r} : req'[q] = req[q]
        /\ req[r].pc # "insert" => Ends(mem, log)
        /\ req[r].pc # "invalidate" => redis \in {<<>>, rows}
        /\ req[r].pc \in {"redis", "query", "fillRedis", "fillMemory"} => mem = <<>>
        /\ req[r].pc \in {"fillRedis", "fillMemory"} => req[r].rows = rows
        /\ req[r].pc \notin {"idle", "ensure"} => row
    BY <1>0, <1>1, Alone DEF SerialOf
  <2> HIDE DEF log, rows
  <2>go. ASSUME NEW pc, Go(r, pc) PROVE req'[r].hist = req[r].hist
    BY <1>0, <2>go DEF Go, RequestRecords
  <2>next. ASSUME NextMessage(r) PROVE req'[r].hist = req[r].hist
    BY <1>0, <2>go, <2>next DEF NextMessage, RequestRecords
  <2>serve. ASSUME req[r].pc \in Early, db' = db,
                   \/ mem # <<>> /\ mem' = mem /\ req'[r].hist = Latest(mem)
                   \/ /\ mem = <<>> /\ req'[r].hist = rows
                      /\ mem' = mem \/ mem' = req'[r].hist
            PROVE  Log!Next
    <3>1. Ends(mem, ByTime(db))
      BY <2>1, <2>serve DEF Early, log
    <3>2. Log!Serve(r)
      BY <2>1, <2>serve, <3>1, ServeStep DEF rows, log
    <3> QED
      BY <3>2 DEF Log!Next
  <2>2. CASE Start(r)
    <3>1. req'[r].hist = req[r].hist /\ db' = db /\ mem' = mem
      BY <1>0, <2>2, Zenon DEF Start, RequestRecords
    <3> QED
      BY <2>1, <3>1, LogStutter
  <2>3. CASE EnsureConversation(r) \/ FillRedis(r) \/ DeleteCached(r)
    <3>1. req'[r].hist = req[r].hist /\ db' = db /\ mem' = mem
      BY <2>3, <2>go, <2>next DEF EnsureConversation, FillRedis, DeleteCached
    <3> QED
      BY <2>1, <3>1, LogStutter
  <2>4. CASE AppendMemory(r)
    <3>1. /\ req'[r].hist = req[r].hist /\ db' = db
          /\ mem' = Append(mem, Saving(r)) /\ req[r].pc = "append"
      BY <2>4, <2>go DEF AppendMemory
    <3>2. Saving(r) \in Message /\ Saving(r) \notin db /\ mem \in Seq(Message)
      BY <3>1, SavingFacts, LogFacts DEF MemoryInv, KnownInv
    <3>3. ToSet(mem') = ToSet(mem) \cup {Saving(r)}
      BY <3>1, <3>2, ToSetFacts
    <3> QED
      BY <2>1, <3>1, <3>2, <3>3, LogStutter
  <2>5. CASE ReadMemory(r)
    <3>1. req[r].pc \in Early /\ mem' = mem /\ db' = db
      BY <2>5 DEF ReadMemory, Early
    <3>2. CASE Go(r, "redis")
      BY <2>1, <2>go, <3>1, <3>2, LogStutter
    <3>3. CASE mem # <<>> /\ req' = [req EXCEPT ![r].pc = "llm", ![r].hist = Latest(mem)]
      <4>1. req'[r].hist = Latest(mem)
        BY <1>0, <3>3 DEF RequestRecords
      <4> QED
        BY <2>serve, <3>1, <3>3, <4>1
    <3> QED
      BY <2>5, <3>2, <3>3 DEF ReadMemory
  <2>6. CASE ReadRedis(r)
    <3>1. req[r].pc = "redis" /\ req[r].pc \in Early /\ mem' = mem /\ db' = db
      BY <2>6 DEF ReadRedis, Early
    <3>2. CASE Go(r, "query")
      BY <2>1, <2>go, <3>1, <3>2, LogStutter
    <3>3. CASE redis # <<>> /\ req' = [req EXCEPT ![r].pc = "llm", ![r].hist = Latest(redis)]
      <4>1. req'[r].hist = Latest(redis)
        BY <1>0, <3>3 DEF RequestRecords
      <4>2. redis = rows /\ mem = <<>>
        BY <2>1, <3>1, <3>3
      <4>3. Latest(rows) = rows
        BY LogFacts, LatestIsEnd DEF rows, log
      <4> QED
        BY <2>serve, <3>1, <4>1, <4>2, <4>3
    <3> QED
      BY <2>6, <3>2, <3>3 DEF ReadRedis
  <2>7. CASE QueryMessages(r)
    <3> DEFINE pc == IF rows = <<>> THEN "fillMemory" ELSE "fillRedis"
    <3>1. req' = [req EXCEPT ![r].rows = rows, ![r].pc = pc] /\ db' = db /\ mem' = mem
      BY <1>0, <2>7 DEF QueryMessages, rows, log
    <3> HIDE DEF pc
    <3>2. req'[r].hist = req[r].hist
      BY <1>0, <3>1, Zenon DEF RequestRecords
    <3> QED
      BY <2>1, <3>1, <3>2, LogStutter
  <2>8. CASE FillMemory(r)
    <3>1. /\ req[r].pc = "fillMemory" /\ req[r].pc \in Early /\ db' = db
          /\ mem' = req[r].rows
      BY <2>8 DEF FillMemory, Early
    <3>2. req'[r].hist = req[r].rows
      BY <1>0, <2>8 DEF FillMemory, RequestRecords
    <3> QED
      BY <2>1, <2>serve, <3>1, <3>2
  <2>9. CASE CallLLM(r)
    <3>1. req'[r].hist = req[r].hist /\ db' = db /\ mem' = mem
      BY <1>0, <2>9, <2>go DEF CallLLM, RequestRecords
    <3> QED
      BY <2>1, <3>1, LogStutter
  <2>10. CASE InsertMessage(r)
    <3>1. /\ req[r].pc = "insert" /\ db' = db \cup {Saving(r)}
          /\ Go(r, "invalidate") /\ mem' = mem
      BY <1>0, <2>1, <2>10 DEF InsertMessage
    <3>2. \A q \in Requests : req'[q].hist = req[q].hist
      BY <2>1, <2>go, <3>1
    <3>3. Log!Add(r, req[r].role) /\ req[r].role \in Roles
      BY <1>0, <3>1, <3>2, AddStep DEF RequestRecords
    <3> QED
      BY <3>3 DEF Log!Next, Roles
  <2> QED
    BY <1>1, <2>2, <2>3, <2>4, <2>5, <2>6, <2>7, <2>8, <2>9, <2>10 DEF RequestStep
<1>2. CASE AdminStep
  <2>1. CASE \E op \in AdminOps : AdminBegin(op)
    <3>1. req' = req /\ db' = db /\ mem' = mem
      BY <2>1 DEF AdminBegin
    <3> QED
      BY <3>1, LogStutter
  <2>2. CASE ForgetMemory
    BY <2>2, ForgetStep DEF ForgetMemory, Log!Next
  <2>3. ~ClearRedis /\ ~DeleteMessages /\ ~DeleteRow
    BY DEF SerialInv, ClearRedis, DeleteMessages, DeleteRow, AdminAt
  <2> QED
    BY <1>2, <2>1, <2>2, <2>3 DEF AdminStep
<1>3. CASE Expire
  <2>1. req' = req /\ db' = db /\ mem' = mem
    BY <1>3 DEF Expire
  <2> QED
    BY <2>1, LogStutter
<1>4. CASE Restart
  <2>1. \A q \in Requests : req'[q].hist = req[q].hist
    BY <1>4, RestartMoves DEF MemoryInv
  <2> QED
    BY <1>4, <2>1, ForgetStep DEF Restart, Log!Next
<1>5. CASE UNCHANGED vars
  <2>1. req' = req /\ db' = db /\ mem' = mem
    BY <1>5 DEF vars
  <2> QED
    BY <2>1, LogStutter
<1> QED
  BY <1>1, <1>2, <1>3, <1>4, <1>5 DEF Next

\* A new conversation is an empty log of which no copy is kept.
LEMMA LogInit == Init => SerialInv /\ Log!Init
<1> SUFFICES ASSUME Init PROVE SerialInv /\ Log!Init
  OBVIOUS
<1>1. /\ mem = <<>> /\ redis = <<>> /\ db = {} /\ erased = {} /\ refused = {}
      /\ admin.pc = "idle" /\ admin.op = "none" /\ (begin = "post" => row)
      /\ \A r \in Requests :
           req[r].pc = "idle" /\ req[r].hist = <<>> /\ req[r].role = "user"
  BY DEF Init, IdleRequest
<1>2. ByTime({}) = <<>>
  <2>1. ByTime({}) \in Seq(Message) /\ Len(ByTime({})) = 0
    BY ByTimeFacts, FS_EmptySet
  <2> QED
    BY <2>1
<1>3. SerialInv
  <2>1. Ends(<<>>, <<>>)
    BY DEF Ends
  <2>2. \A r \in Requests : SerialOf(r)
    BY <1>1 DEF SerialOf
  <2> QED
    <3>1. /\ \A r, s \in InFlight : r = s
          /\ \A r \in InFlight, m \in db : m.by = r \/ m.at < req[r].start
      BY <1>1 DEF InFlight
    <3>2. Ends(mem, ByTime(db)) /\ redis \in {<<>>, Latest(ByTime(db))}
      BY <1>1, <1>2, <2>1
    <3> HIDE DEF SerialOf
    <3> QED
      BY <1>1, <2>2, <3>1, <3>2 DEF SerialInv
<1>4. \A r \in Requests : AddedRoles(r) = <<>>
  BY <1>1, RolesAdded DEF AddedRoles, RolesIn
<1>5. Cardinality(ToSet(mem) \cap db) = 0
  BY <1>1, FS_EmptySet
<1>6. Log!Init
  BY <1>1, <1>2, <1>4, <1>5 DEF Log!Init
<1> QED
  BY <1>3, <1>6

\* GetHistory and SaveMessage: what the three tiers show requests that run one at a
\* time is the end of one append-only log, to which each request adds its message
\* and then its reply: also when Redis does not answer or loses the key, when the LLM
\* fails, and when a restart or archiving has emptied the map and the history comes
\* from the Redis key or from the table.
THEOREM MemoryIsALog ==
  ASSUME Serial
  PROVE  Spec => ImplementsLog
<1>1. MemoryInv /\ SerialInv /\ [Next]_vars => SerialInv'
  BY SerialStep
<1>2. MemoryInv /\ SerialInv /\ [Next]_vars =>
        [Log!Next]_<<ByTime(db), [r \in Requests |-> req[r].hist],
                     [r \in Requests |-> AddedRoles(r)],
                     Cardinality(ToSet(mem) \cap db)>>
  BY LogStep
<1> QED
  BY <1>1, <1>2, LogInit, MemoryInvariant, PTL DEF Spec, ImplementsLog, Log!Spec
==============================================================================
