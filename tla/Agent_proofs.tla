----------------------------- MODULE Agent_proofs -----------------------------
(***************************************************************************)
(* Proofs about Agent for any requests, tools, replies of the models and   *)
(* numbers of iterations and executions.                                   *)
(***************************************************************************)
EXTENDS Agent, SequenceTheorems, FunctionTheorems, FiniteSetTheorems,
        WellFoundedInduction, TLAPS

-----------------------------------------------------------------------------
(* The latest entries of a sequence *)

Recent(s, n) ==
    SubSeq(s, Len(s) - (IF Len(s) < n THEN Len(s) ELSE n) + 1, Len(s))

\* trackExecution keeps the latest entries when one more is added.
LEMMA RecentAppend ==
  ASSUME NEW S, NEW s \in Seq(S), NEW e \in S, NEW n \in Nat \ {0}
  PROVE  Recent(Append(s, e), n)
           = Append(IF Len(Recent(s, n)) >= n THEN Tail(Recent(s, n)) ELSE Recent(s, n), e)
<1> DEFINE t == Append(s, e)
           k == IF Len(s) < n THEN Len(s) ELSE n
           j == IF Len(t) < n THEN Len(t) ELSE n
           p == SubSeq(s, Len(s) - k + 1, Len(s))
           q == SubSeq(t, Len(t) - j + 1, Len(t))
           h == IF Len(p) >= n THEN Tail(p) ELSE p
<1>1. /\ Len(s) \in Nat /\ t \in Seq(S) /\ Len(t) = Len(s) + 1
      /\ \A i \in 1 .. Len(s) : t[i] = s[i]
      /\ t[Len(s) + 1] = e
  OBVIOUS
<1> HIDE DEF t
<1>2. /\ k \in Nat /\ j \in Nat /\ k <= Len(s) /\ j <= Len(s) + 1 /\ j >= 1
      /\ k < n => j = k + 1
      /\ k >= n => j = k /\ k = n
  BY <1>1
<1> HIDE DEF k, j
<1>3. /\ p \in Seq(S) /\ Len(p) = k
      /\ \A i \in 1 .. k : p[i] = s[Len(s) - k + i]
  BY <1>1, <1>2
<1>4. /\ q \in Seq(S) /\ Len(q) = j
      /\ \A i \in 1 .. j : q[i] = t[Len(t) - j + i]
  BY <1>1, <1>2
<1> HIDE DEF p, q
<1>5. /\ h \in Seq(S) /\ Len(h) = j - 1
      /\ \A i \in 1 .. j - 1 : h[i] = s[Len(s) - j + 1 + i]
  <2>1. CASE k < n
    <3>1. h = p
      BY <1>2, <1>3, <2>1
    <3>2. j - 1 = k /\ \A i \in 1 .. k : Len(s) - k + i = Len(s) - j + 1 + i
      BY <1>1, <1>2, <2>1
    <3> QED
      BY <1>3, <3>1, <3>2
  <2>2. CASE k >= n
    <3>1. h = Tail(p) /\ k = n /\ j = k
      BY <1>2, <1>3, <2>2
    <3>2. /\ Tail(p) \in Seq(S) /\ Len(Tail(p)) = k - 1
          /\ \A i \in 1 .. k - 1 : Tail(p)[i] = p[i + 1]
      BY <1>2, <1>3, <3>1
    <3>3. \A i \in 1 .. k - 1 : p[i + 1] = s[Len(s) - k + (i + 1)]
      BY <1>1, <1>2, <1>3
    <3>4. \A i \in 1 .. k - 1 : Len(s) - k + (i + 1) = Len(s) - j + 1 + i
      BY <1>1, <1>2, <3>1
    <3> QED
      BY <3>1, <3>2, <3>3, <3>4
  <2>3. k < n \/ k >= n
    BY <1>2
  <2> HIDE DEF h
  <2> QED
    BY <2>1, <2>2, <2>3
<1> HIDE DEF h
<1>6. /\ Append(h, e) \in Seq(S) /\ Len(Append(h, e)) = j
      /\ \A i \in 1 .. j - 1 : Append(h, e)[i] = h[i]
      /\ Append(h, e)[j] = e
  BY <1>2, <1>5
<1>7. ASSUME NEW i \in 1 .. j PROVE q[i] = Append(h, e)[i]
  <2>1. CASE i = j
    <3>1. Len(t) - j + i = Len(s) + 1
      BY <1>1, <1>2, <2>1
    <3> QED
      BY <1>1, <1>4, <1>6, <2>1, <3>1
  <2>2. CASE i # j
    <3>1. i \in 1 .. j - 1
      BY <1>2, <2>2
    <3>2. Len(t) - j + i = Len(s) - j + 1 + i /\ Len(s) - j + 1 + i \in 1 .. Len(s)
      BY <1>1, <1>2, <3>1
    <3>3. q[i] = s[Len(s) - j + 1 + i]
      BY <1>1, <1>4, <3>2
    <3>4. Append(h, e)[i] = s[Len(s) - j + 1 + i]
      BY <1>5, <1>6, <3>1
    <3> QED
      BY <3>3, <3>4
  <2> QED
    BY <2>1, <2>2
<1>8. q = Append(h, e)
  BY <1>4, <1>6, <1>7, SeqEqual
<1> QED
  BY <1>8 DEF Recent, q, p, h, k, j, t

-----------------------------------------------------------------------------
(* The executions *)

Entry == [request : Requests \cup {"other"}, iteration : Nat, call : Nat,
          success : BOOLEAN]

IsSeq(s) == \E S : s \in Seq(S)

\* What the steps need to know of the types.
ShapeOK ==
    /\ ring \in Seq(Entry) /\ ran \in Seq(Entry) /\ others \in Nat
    /\ DOMAIN req = Requests
    /\ \A r \in Requests :
         /\ {"at", "iteration", "todo", "results", "calls", "response", "msgs"}
              \subseteq DOMAIN req[r]
         /\ req[r].iteration \in Nat /\ IsSeq(req[r].results)

\* An execution of a request is of an iteration it has begun, of an earlier one
\* while the model has not answered, and of a call whose result it has.
PlacedAt(e, s) ==
    /\ e.iteration <= s.iteration
    /\ s.at = "model" => e.iteration < s.iteration
    /\ s.at \in {"tools", "running"} /\ e.iteration = s.iteration
         => e.call <= Len(s.results)

PlacedIn(e, rq, n) ==
    \/ e.request = "other" /\ e.call <= n
    \/ e.request \in Requests /\ PlacedAt(e, rq[e.request])

SameCall(e, f) == /\ e.request = f.request /\ e.iteration = f.iteration
                  /\ e.call = f.call

RegistryInv ==
    /\ ShapeOK
    /\ ring = Recent(ran, RingSize)
    /\ \A i \in DOMAIN ran : PlacedIn(ran[i], req, others)
    /\ \A i, j \in DOMAIN ran : SameCall(ran[i], ran[j]) => i = j

\* How a request moves on: it leaves the loop's stages, begins an iteration, gets
\* the first calls of one, or goes on with its calls.
Forward(s, t) ==
    \/ s = t
    \/ t.at \notin {"model", "tools", "running"} /\ t.iteration = s.iteration
    \/ t.at = "model" /\ t.iteration = s.iteration + 1
    \/ s.at = "model" /\ t.at = "tools" /\ t.iteration = s.iteration
    \/ /\ s.at \in {"tools", "running"} /\ t.at \in {"tools", "running"}
       /\ t.iteration = s.iteration /\ Len(t.results) >= Len(s.results)

\* A sequence of anything stays one when something is added.
LEMMA IsSeqAppend ==
  ASSUME NEW s, NEW e, IsSeq(s)
  PROVE  IsSeq(Append(s, e)) /\ Len(Append(s, e)) = Len(s) + 1 /\ Len(s) \in Nat
<1>1. PICK S : s \in Seq(S)
  BY DEF IsSeq
<1>2. s \in Seq(S \cup {e})
  BY <1>1, SeqMonotonic
<1>3. Append(s, e) \in Seq(S \cup {e}) /\ Len(Append(s, e)) = Len(s) + 1 /\ Len(s) \in Nat
  BY <1>2
<1> QED
  BY <1>3 DEF IsSeq

\* A request that moves on leaves its executions where they were.
LEMMA PlacedForward ==
  ASSUME NEW e \in Entry, NEW s, NEW t, PlacedAt(e, s), Forward(s, t),
         s.iteration \in Nat, t.iteration \in Nat,
         Len(s.results) \in Nat, Len(t.results) \in Nat
  PROVE  PlacedAt(e, t)
<1>1. e.iteration \in Nat /\ e.call \in Nat
  BY DEF Entry
<1>2. CASE s = t
  BY <1>2
<1>3. CASE t.at \notin {"model", "tools", "running"} /\ t.iteration = s.iteration
  BY <1>1, <1>3 DEF PlacedAt
<1>4. CASE t.at = "model" /\ t.iteration = s.iteration + 1
  BY <1>1, <1>4 DEF PlacedAt
<1>5. CASE s.at = "model" /\ t.at = "tools" /\ t.iteration = s.iteration
  BY <1>1, <1>5 DEF PlacedAt
<1>6. CASE /\ s.at \in {"tools", "running"} /\ t.at \in {"tools", "running"}
           /\ t.iteration = s.iteration /\ Len(t.results) >= Len(s.results)
  BY <1>1, <1>6 DEF PlacedAt
<1> QED
  BY <1>2, <1>3, <1>4, <1>5, <1>6 DEF Forward

\* ... whichever requests move.
LEMMA AllPlaced ==
  ASSUME RegistryInv, ShapeOK', others' \in Nat, others' >= others,
         \A r \in Requests : Forward(req[r], req'[r])
  PROVE  \A i \in DOMAIN ran : PlacedIn(ran[i], req', others')
<1> SUFFICES ASSUME NEW i \in DOMAIN ran
             PROVE  PlacedIn(ran[i], req', others')
  OBVIOUS
<1>1. ran[i] \in Entry /\ PlacedIn(ran[i], req, others)
  BY DEF RegistryInv, ShapeOK
<1>2. PICK e \in Entry : e = ran[i] /\ PlacedIn(e, req, others)
  BY <1>1
<1>3. CASE e.request = "other" /\ e.call <= others
  <2>1. e.call \in Nat /\ others \in Nat
    BY DEF Entry, RegistryInv, ShapeOK
  <2> QED
    BY <1>2, <1>3, <2>1 DEF PlacedIn
<1>4. CASE e.request \in Requests /\ PlacedAt(e, req[e.request])
  <2>1. PICK r \in Requests : r = e.request
    BY <1>4
  <2>2. /\ req[r].iteration \in Nat /\ req'[r].iteration \in Nat
        /\ Len(req[r].results) \in Nat /\ Len(req'[r].results) \in Nat
    BY IsSeqAppend DEF RegistryInv, ShapeOK
  <2>3. PlacedAt(e, req'[r])
    BY <1>4, <2>1, <2>2, PlacedForward
  <2> QED
    BY <1>2, <1>4, <2>1, <2>3 DEF PlacedIn
<1> QED
  BY <1>2, <1>3, <1>4 DEF PlacedIn

\* A step that tracks nothing and moves the requests on.
LEMMA MoveInv ==
  ASSUME RegistryInv, ShapeOK', UNCHANGED <<ring, ran, others>>,
         \A r \in Requests : Forward(req[r], req'[r])
  PROVE  RegistryInv'
<1>1. others' \in Nat /\ others' >= others
  BY DEF RegistryInv, ShapeOK
<1>2. \A i \in DOMAIN ran : PlacedIn(ran[i], req', others')
  BY <1>1, AllPlaced
<1> QED
  BY <1>2 DEF RegistryInv

\* A tool call that ends enters the ring as the latest, and as a new one.
LEMMA TrackInv ==
  ASSUME RegistryInv, ShapeOK', others' \in Nat, others' >= others,
         \A r \in Requests : Forward(req[r], req'[r]), NEW e \in Entry,
         ring' = Keep(ring, e), ran' = Append(ran, e),
         PlacedIn(e, req', others'), \A i \in DOMAIN ran : ~SameCall(ran[i], e)
  PROVE  RegistryInv'
<1>1. ran \in Seq(Entry) /\ ring = Recent(ran, RingSize) /\ RingSize \in Nat \ {0}
  BY AgentAssumption DEF RegistryInv, ShapeOK
<1>2. ring' = Recent(ran', RingSize)
  BY <1>1, RecentAppend DEF Keep
<1>3. /\ DOMAIN ran' = DOMAIN ran \cup {Len(ran) + 1}
      /\ ran'[Len(ran) + 1] = e /\ \A i \in DOMAIN ran : ran'[i] = ran[i]
  BY <1>1
<1>4. \A i \in DOMAIN ran' : PlacedIn(ran'[i], req', others')
  BY <1>3, AllPlaced
<1>5. \A i, j \in DOMAIN ran' : SameCall(ran'[i], ran'[j]) => i = j
  BY <1>3 DEF RegistryInv, SameCall
<1> QED
  BY <1>2, <1>4, <1>5 DEF RegistryInv

-----------------------------------------------------------------------------
(* The steps *)

Others(r) == DOMAIN req' = Requests /\ \A q \in Requests \ {r} : req'[q] = req[q]

LEMMA ShapeMoves ==
  ASSUME ShapeOK, NEW r \in Requests, Others(r), DOMAIN req'[r] = DOMAIN req[r],
         req'[r].iteration \in Nat, IsSeq(req'[r].results),
         Forward(req[r], req'[r]),
         ring' \in Seq(Entry), ran' \in Seq(Entry), others' \in Nat
  PROVE  ShapeOK' /\ \A q \in Requests : Forward(req[q], req'[q])
<1>1. \A q \in Requests : Forward(req[q], req'[q])
  BY DEF Others, Forward
<1>2. ASSUME NEW q \in Requests
      PROVE  /\ {"at", "iteration", "todo", "results", "calls", "response", "msgs"}
                   \subseteq DOMAIN req'[q]
             /\ req'[q].iteration \in Nat /\ IsSeq(req'[q].results)
  <2>1. CASE q = r
    BY <2>1 DEF ShapeOK
  <2>2. CASE q # r
    BY <2>2 DEF ShapeOK, Others
  <2> QED
    BY <2>1, <2>2
<1> QED
  BY <1>1, <1>2 DEF ShapeOK, Others

LEMMA RequestMoves ==
  ASSUME RegistryInv, NEW r \in Requests, UNCHANGED <<ring, ran, others>>,
         Others(r), DOMAIN req'[r] = DOMAIN req[r],
         req'[r].iteration \in Nat, IsSeq(req'[r].results),
         Forward(req[r], req'[r])
  PROVE  RegistryInv'
<1>1. ShapeOK /\ ring' \in Seq(Entry) /\ ran' \in Seq(Entry) /\ others' \in Nat
  BY DEF RegistryInv, ShapeOK
<1> QED
  BY <1>1, ShapeMoves, MoveInv

LEMMA ProgressInv ==
  ASSUME RegistryInv, NEW r \in Requests, Progress(r) PROVE RegistryInv'
<1>1. /\ DOMAIN req = Requests /\ req[r].iteration \in Nat /\ IsSeq(req[r].results)
      /\ {"at", "iteration", "todo", "results", "calls", "response", "msgs"}
            \subseteq DOMAIN req[r]
  BY DEF RegistryInv, ShapeOK
<1>2. IsSeq(<<>>)
  BY DEF IsSeq
<1>3. ASSUME NEW at, Goto(r, at), UNCHANGED registry,
             at \notin {"model", "tools", "running"}
      PROVE  RegistryInv'
  <2>1. /\ Others(r) /\ DOMAIN req'[r] = DOMAIN req[r] /\ req'[r].at = at
        /\ req'[r].iteration = req[r].iteration /\ req'[r].results = req[r].results
    BY <1>1, <1>3 DEF Goto, Others
  <2> QED
    BY <1>1, <1>3, <2>1, RequestMoves DEF Forward, registry
<1>4. ASSUME NEW status, Respond(r, status), UNCHANGED registry
      PROVE  RegistryInv'
  <2>1. /\ Others(r) /\ DOMAIN req'[r] = DOMAIN req[r] /\ req'[r].at = "done"
        /\ req'[r].iteration = req[r].iteration /\ req'[r].results = req[r].results
    BY <1>1, <1>4 DEF Respond, Others
  <2> QED
    BY <1>1, <1>4, <2>1, RequestMoves DEF Forward, registry
<1>5. CASE HandleChat(r)
  BY <1>3, <1>4, <1>5 DEF HandleChat
<1>6. CASE Retrieve(r)
  <2>1. /\ Others(r) /\ DOMAIN req'[r] = DOMAIN req[r] /\ req'[r].at = "build"
        /\ req'[r].iteration = req[r].iteration /\ req'[r].results = req[r].results
    BY <1>1, <1>6 DEF Retrieve, Others
  <2> QED
    BY <1>1, <1>6, <2>1, RequestMoves DEF Forward, Retrieve, registry
<1>7. CASE GetToolDefinitions(r)
  <2>1. /\ Others(r) /\ DOMAIN req'[r] = DOMAIN req[r] /\ req'[r].at = "loop"
        /\ req'[r].iteration = req[r].iteration /\ req'[r].results = req[r].results
    BY <1>1, <1>7 DEF GetToolDefinitions, Others
  <2> QED
    BY <1>1, <1>7, <2>1, RequestMoves DEF Forward, GetToolDefinitions, registry
<1>8. CASE CallModel(r)
  <2>1. CASE req[r].iteration < MaxToolCalls
    <3>1. /\ Others(r) /\ DOMAIN req'[r] = DOMAIN req[r] /\ req'[r].at = "model"
          /\ req'[r].iteration = req[r].iteration + 1 /\ req'[r].results = req[r].results
      BY <1>1, <1>8, <2>1 DEF CallModel, Others
    <3> QED
      BY <1>1, <1>8, <3>1, RequestMoves DEF Forward, CallModel, registry
  <2>2. CASE ~(req[r].iteration < MaxToolCalls)
    BY <1>3, <1>8, <2>2 DEF CallModel
  <2> QED
    BY <2>1, <2>2
<1>9. CASE UnknownTool(r)
  <2>1. PICK b : req' = [req EXCEPT ![r].calls = Append(@, Call(r)),
                          ![r].todo = Tail(@), ![r].results = Append(@, b)]
    BY <1>9 DEF UnknownTool
  <2>2. /\ Others(r) /\ DOMAIN req'[r] = DOMAIN req[r] /\ req'[r].at = req[r].at
        /\ req'[r].iteration = req[r].iteration
        /\ req'[r].results = Append(req[r].results, b)
    BY <1>1, <2>1 DEF Others
  <2>3. req[r].at = "tools" /\ Len(req'[r].results) >= Len(req[r].results)
        /\ IsSeq(req'[r].results)
    BY <1>1, <1>9, <2>2, IsSeqAppend DEF UnknownTool
  <2> QED
    BY <1>1, <1>9, <2>2, <2>3, RequestMoves DEF Forward, UnknownTool, registry
<1>10. CASE StartTool(r)
  <2>1. /\ Others(r) /\ DOMAIN req'[r] = DOMAIN req[r] /\ req'[r].at = "running"
        /\ req'[r].iteration = req[r].iteration /\ req'[r].results = req[r].results
    BY <1>1, <1>10 DEF StartTool, Others
  <2>2. req[r].at = "tools" /\ Len(req'[r].results) >= Len(req[r].results)
    BY <1>1, <1>10, <2>1, IsSeqAppend DEF StartTool
  <2> QED
    BY <1>1, <1>10, <2>1, <2>2, RequestMoves DEF Forward, StartTool, registry
<1>11. CASE NextIteration(r)
  <2>1. /\ Others(r) /\ DOMAIN req'[r] = DOMAIN req[r] /\ req'[r].at = "loop"
        /\ req'[r].iteration = req[r].iteration /\ req'[r].results = req[r].results
    BY <1>1, <1>11 DEF NextIteration, Others
  <2> QED
    BY <1>1, <1>11, <2>1, RequestMoves DEF Forward, NextIteration, registry
<1>12. CASE Answer(r) \/ Fail(r)
  BY <1>4, <1>12 DEF Answer, Fail
<1> QED
  BY <1>5, <1>6, <1>7, <1>8, <1>9, <1>10, <1>11, <1>12 DEF Progress

LEMMA OutcomeInv ==
  ASSUME RegistryInv, NEW r \in Requests, Outcome(r) PROVE RegistryInv'
<1>1. /\ DOMAIN req = Requests /\ req[r].iteration \in Nat /\ IsSeq(req[r].results)
      /\ {"at", "iteration", "todo", "results", "calls", "response", "msgs"}
            \subseteq DOMAIN req[r]
  BY DEF RegistryInv, ShapeOK
<1>2. IsSeq(<<>>)
  BY DEF IsSeq
<1>3. CASE ModelReplies(r)
  <2>1. PICK response :
          \/ req' = [req EXCEPT ![r].at = "tools", ![r].response = response,
                       ![r].todo = GetToolCalls(response.blocks),
                       ![r].results = <<>>]
          \/ req' = [req EXCEPT ![r].at = "answer", ![r].response = response]
    BY <1>3 DEF ModelReplies
  <2>2. CASE req' = [req EXCEPT ![r].at = "tools", ![r].response = response,
                       ![r].todo = GetToolCalls(response.blocks),
                       ![r].results = <<>>]
    <3>1. /\ Others(r) /\ DOMAIN req'[r] = DOMAIN req[r] /\ req'[r].at = "tools"
          /\ req'[r].iteration = req[r].iteration /\ req'[r].results = <<>>
      BY <1>1, <2>2 DEF Others
    <3> QED
      BY <1>1, <1>2, <1>3, <3>1, RequestMoves DEF Forward, ModelReplies, registry
  <2>3. CASE req' = [req EXCEPT ![r].at = "answer", ![r].response = response]
    <3>1. /\ Others(r) /\ DOMAIN req'[r] = DOMAIN req[r] /\ req'[r].at = "answer"
          /\ req'[r].iteration = req[r].iteration /\ req'[r].results = req[r].results
      BY <1>1, <2>3 DEF Others
    <3> QED
      BY <1>1, <1>3, <3>1, RequestMoves DEF Forward, ModelReplies, registry
  <2> QED
    BY <2>1, <2>2, <2>3
<1>4. CASE ModelFails(r)
  <2>1. /\ Others(r) /\ DOMAIN req'[r] = DOMAIN req[r] /\ req'[r].at = "fail"
        /\ req'[r].iteration = req[r].iteration /\ req'[r].results = req[r].results
    BY <1>1, <1>4 DEF ModelFails, Goto, Others
  <2> QED
    BY <1>1, <1>4, <2>1, RequestMoves DEF Forward, ModelFails, registry
<1>5. CASE ToolReturns(r)
  <2>1. PICK success \in BOOLEAN :
          /\ ring' = Keep(ring, Tracked(r, success))
          /\ ran' = Append(ran, Tracked(r, success))
          /\ Result(r, ~success)
    BY <1>5 DEF ToolReturns
  <2>2. PICK b : req' = [req EXCEPT ![r].at = "tools", ![r].todo = Tail(@),
                           ![r].results = Append(@, b)]
    BY <2>1 DEF Result
  <2>3. /\ Others(r) /\ DOMAIN req'[r] = DOMAIN req[r] /\ req'[r].at = "tools"
        /\ req'[r].iteration = req[r].iteration
        /\ req'[r].results = Append(req[r].results, b)
    BY <1>1, <2>2 DEF Others
  <2>4. /\ req[r].at = "running" /\ IsSeq(req'[r].results)
        /\ Len(req[r].results) \in Nat
        /\ Len(req'[r].results) = Len(req[r].results) + 1
    BY <1>1, <1>5, <2>3, IsSeqAppend DEF ToolReturns
  <2>5. Forward(req[r], req'[r])
    BY <2>3, <2>4 DEF Forward
  <2>6. PICK e \in Entry :
          /\ e = Tracked(r, success)
          /\ e.request = r /\ e.iteration = req[r].iteration
          /\ e.call = Len(req[r].results) + 1
    <3> DEFINE n == Len(req[r].results) + 1
               k == req[r].iteration
               t == [request |-> r, iteration |-> k, call |-> n, success |-> success]
    <3>1. n \in Nat /\ k \in Nat
      BY <1>1, <2>4
    <3>2. t = Tracked(r, success)
      BY DEF Tracked
    <3> HIDE DEF n, k
    <3>3. t \in Entry /\ t.request = r /\ t.iteration = k /\ t.call = n
      BY <3>1 DEF Entry
    <3> QED
      BY <3>2, <3>3 DEF n, k
  <2>7. PlacedIn(e, req', others')
    BY <1>1, <2>3, <2>4, <2>6 DEF PlacedIn, PlacedAt
  <2>8. ASSUME NEW i \in DOMAIN ran PROVE ~SameCall(ran[i], e)
    <3>1. PICK f \in Entry : f = ran[i] /\ PlacedIn(f, req, others)
      BY DEF RegistryInv, ShapeOK
    <3>2. f.call \in Nat
      BY DEF Entry
    <3>3. ~SameCall(f, e)
      BY <1>1, <2>4, <2>6, <3>1, <3>2, AgentAssumption DEF SameCall, PlacedIn, PlacedAt
    <3> QED
      BY <3>1, <3>3
  <2>9. ring \in Seq(Entry) /\ ran \in Seq(Entry) /\ others \in Nat /\ others' = others
    BY <1>5 DEF RegistryInv, ShapeOK, ToolReturns
  <2>10. ring' = Keep(ring, e) /\ ran' = Append(ran, e)
    BY <2>1, <2>6
  <2>11. ring' \in Seq(Entry) /\ ran' \in Seq(Entry)
    BY <2>9, <2>10, AgentAssumption DEF Keep
  <2>12. ShapeOK' /\ \A q \in Requests : Forward(req[q], req'[q])
    BY <1>1, <2>3, <2>4, <2>5, <2>9, <2>11, ShapeMoves DEF RegistryInv
  <2> QED
    BY <2>7, <2>8, <2>9, <2>10, <2>12, TrackInv
<1> QED
  BY <1>3, <1>4, <1>5 DEF Outcome

LEMMA OtherReturnsInv ==
  ASSUME RegistryInv, OtherReturns PROVE RegistryInv'
<1>1. PICK success \in BOOLEAN :
        LET entry == [request |-> "other", iteration |-> 0,
                      call |-> others', success |-> success]
        IN  ring' = Keep(ring, entry) /\ ran' = Append(ran, entry)
  BY DEF OtherReturns
<1>2. /\ ring \in Seq(Entry) /\ ran \in Seq(Entry)
      /\ others \in Nat /\ others' = others + 1 /\ req' = req
  BY DEF RegistryInv, ShapeOK, OtherReturns
<1>3. PICK e \in Entry :
        /\ e.request = "other" /\ e.call = others + 1
        /\ ring' = Keep(ring, e) /\ ran' = Append(ran, e)
  BY <1>1, <1>2 DEF Entry
<1>4. ring' \in Seq(Entry) /\ ran' \in Seq(Entry)
  BY <1>2, <1>3, AgentAssumption DEF Keep
<1>5. ShapeOK' /\ \A q \in Requests : Forward(req[q], req'[q])
  BY <1>2, <1>4 DEF RegistryInv, ShapeOK, Forward
<1>6. PlacedIn(e, req', others')
  BY <1>2, <1>3 DEF PlacedIn
<1>7. ASSUME NEW i \in DOMAIN ran PROVE ~SameCall(ran[i], e)
  <2>1. PICK f \in Entry : f = ran[i] /\ PlacedIn(f, req, others)
    BY DEF RegistryInv, ShapeOK
  <2>2. f.call \in Nat
    BY DEF Entry
  <2>3. ~SameCall(f, e)
    BY <1>2, <1>3, <2>1, <2>2, AgentAssumption DEF SameCall, PlacedIn
  <2> QED
    BY <2>1, <2>3
<1>8. others' \in Nat /\ others' >= others
  BY <1>2
<1> QED
  BY <1>3, <1>5, <1>6, <1>7, <1>8, TrackInv

LEMMA RegistryNext ==
  ASSUME RegistryInv, [Next]_vars PROVE RegistryInv'
<1>1. ASSUME UNCHANGED <<ring, ran, others, req>> PROVE RegistryInv'
  BY <1>1 DEF RegistryInv, ShapeOK
<1>2. ASSUME NEW r \in Requests, Late(r) PROVE RegistryInv'
  BY <1>1, <1>2 DEF Late, registry
<1>3. ASSUME NEW t \in Tools, Unregister(t) \/ Register(t) PROVE RegistryInv'
  BY <1>1, <1>3 DEF Unregister, Register
<1>4. CASE ClearExecutions
  <2>1. ring' = <<>> /\ ran' = <<>> /\ others' = others /\ req' = req
    BY <1>4 DEF ClearExecutions
  <2>2. <<>> = Recent(<<>>, RingSize)
    BY AgentAssumption DEF Recent
  <2> QED
    BY <2>1, <2>2 DEF RegistryInv, ShapeOK
<1>5. CASE UNCHANGED vars
  BY <1>1, <1>5 DEF vars
<1> QED
  BY <1>2, <1>3, <1>4, <1>5, ProgressInv, OutcomeInv, OtherReturnsInv DEF Next

LEMMA RegistryInit == Init => RegistryInv
<1> SUFFICES ASSUME Init PROVE RegistryInv
  OBVIOUS
<1>1. ring = <<>> /\ ran = <<>> /\ others = 0 /\ req = [r \in Requests |-> NewRequest]
  BY DEF Init
<1>2. <<>> = Recent(<<>>, RingSize)
  BY AgentAssumption DEF Recent
<1>3. IsSeq(<<>>)
  BY DEF IsSeq
<1> QED
  BY <1>1, <1>2, <1>3 DEF RegistryInv, ShapeOK, NewRequest

LEMMA RecentOfInv == RegistryInv => RingIsRecent
<1> SUFFICES ASSUME RegistryInv PROVE RingIsRecent
  OBVIOUS
<1> DEFINE f == [i \in DOMAIN ran |->
                   <<ran[i].request, ran[i].iteration, ran[i].call>>]
<1>1. \A i, j \in DOMAIN f : f[i] = f[j] => i = j
  BY DEF RegistryInv, SameCall
<1>2. IsInjective(f)
  BY <1>1 DEF IsInjective
<1> QED
  BY <1>2 DEF RegistryInv, Recent, RingIsRecent

\* However many requests run tools at once, and whenever tools go away or the
\* executions are cleared, the ring of the registry is the latest executions
\* (trackExecution) and no tool call is in it twice.
THEOREM RingKeepsLatest == Spec => []RingIsRecent
<1>1. Spec => Init /\ [][Next]_vars
  BY DEF Spec
<1>2. RegistryInv /\ [Next]_vars => RegistryInv'
  BY RegistryNext
<1> QED
  BY <1>1, <1>2, RegistryInit, RecentOfInv, PTL

-----------------------------------------------------------------------------
(* The entries of a sequence at a set of indices *)

\* A set that holds 0 and, with a number, the next one, holds them all.
LEMMA NumberByNumber ==
  ASSUME NEW T, 0 \in T, \A n \in Nat : n \in T => n + 1 \in T
  PROVE  \A n \in Nat : n \in T
<1> DEFINE R == OpToRel(<, Nat)
           U == Nat \ T
<1>1. IsWellFoundedOn(R, Nat)
  BY NatLessThanWellFounded
<1>2. \A i, j \in Nat : i < j => <<i, j>> \in R
  BY DEF OpToRel
<1> HIDE DEF R
<1>3. SUFFICES ASSUME U # {} PROVE FALSE
  OBVIOUS
<1>4. PICK x \in U : \A y \in U : ~(<<y, x>> \in R)
  <2> HIDE DEF U
  <2>1. U \subseteq Nat
    BY DEF U
  <2> QED
    BY <1>1, <1>3, <2>1, WFMin
<1>5. x \in Nat /\ x # 0 /\ x \notin T
  OBVIOUS
<1>6. x - 1 \in Nat /\ x - 1 < x /\ (x - 1) + 1 = x
  BY <1>5
<1>7. x - 1 \notin T
  BY <1>5, <1>6
<1> QED
  BY <1>2, <1>4, <1>5, <1>6, <1>7

Rank(I, i) == Cardinality({j \in I : j <= i})

\* The indices a set has: as many as it has elements, one after the other.
LEMMA RankOfIndex ==
  ASSUME NEW n \in Nat, NEW I \in SUBSET (1 .. n)
  PROVE  /\ IsFiniteSet(I) /\ Cardinality(I) \in Nat
         /\ \A i \in I : Rank(I, i) \in 1 .. Cardinality(I)
         /\ \A i, j \in I : i < j => Rank(I, i) < Rank(I, j)
<1>1. IsFiniteSet(1 .. n)
  BY FS_Interval
<1>2. IsFiniteSet(I) /\ Cardinality(I) \in Nat
  BY <1>1, FS_Subset, FS_CardinalityType
<1>3. ASSUME NEW i \in I PROVE Rank(I, i) \in 1 .. Cardinality(I)
  <2> DEFINE B == {j \in I : j <= i}
  <2>1. B \in SUBSET I /\ i \in B
    OBVIOUS
  <2>2. IsFiniteSet(B) /\ Cardinality(B) <= Cardinality(I) /\ Cardinality(B) \in Nat
    BY <1>2, <2>1, FS_Subset, FS_CardinalityType
  <2>3. Cardinality(B) # 0
    BY <2>1, <2>2, FS_EmptySet
  <2>4. Rank(I, i) = Cardinality(B)
    BY DEF Rank
  <2> HIDE DEF B
  <2> QED
    BY <1>2, <2>2, <2>3, <2>4
<1>4. ASSUME NEW i \in I, NEW j \in I, i < j PROVE Rank(I, i) < Rank(I, j)
  <2> DEFINE B == {l \in I : l <= i}
             C == {l \in I : l <= j}
  <2>1. B \in SUBSET C /\ C \in SUBSET I /\ j \in C /\ j \notin B
    <3>1. I \subseteq Nat
      OBVIOUS
    <3>2. ~(j <= i) /\ j <= j /\ \A l \in I : l <= i => l <= j
      BY <1>4, <3>1
    <3> QED
      BY <3>2
  <2>2. IsFiniteSet(C) /\ Cardinality(C) \in Nat
    BY <1>2, <2>1, FS_Subset, FS_CardinalityType
  <2>3. Cardinality(B) <= Cardinality(C) /\ Cardinality(B) # Cardinality(C)
        /\ Cardinality(B) \in Nat
    BY <2>1, <2>2, FS_Subset, FS_CardinalityType
  <2> QED
    BY <2>2, <2>3 DEF Rank
<1> QED
  BY <1>2, <1>3, <1>4

\* The k-th index exists and is the only one of its rank.
LEMMA NthIndex ==
  ASSUME NEW n \in Nat, NEW I \in SUBSET (1 .. n)
  PROVE  /\ \A k \in 1 .. Cardinality(I) : Nth(I, k) \in I /\ Rank(I, Nth(I, k)) = k
         /\ \A k, l \in 1 .. Cardinality(I) : k < l => Nth(I, k) < Nth(I, l)
         /\ \A i \in I : Nth(I, Rank(I, i)) = i
<1> DEFINE c == Cardinality(I)
           f == [i \in I |-> Rank(I, i)]
<1>1. /\ IsFiniteSet(I) /\ c \in Nat
      /\ \A i \in I : Rank(I, i) \in 1 .. c
      /\ \A i, j \in I : i < j => Rank(I, i) < Rank(I, j)
  BY RankOfIndex
<1>2. \A i, j \in I : Rank(I, i) = Rank(I, j) => i = j
  BY <1>1
<1> HIDE DEF c
<1>3. f \in [I -> 1 .. c] /\ \A i, j \in I : f[i] = f[j] => i = j
  BY <1>1, <1>2
<1>4. f \in Injection(I, 1 .. c)
  <2> HIDE DEF f
  <2> QED
    BY <1>3, Fun_IsInj
<1>5. IsFiniteSet(1 .. c) /\ Cardinality(1 .. c) = c
  BY <1>1, FS_Interval
<1>6. f \in Surjection(I, 1 .. c)
  <2> HIDE DEF f
  <2> QED
    BY <1>1, <1>4, <1>5, FS_Injection DEF c
<1>7. \A k \in 1 .. c : \E i \in I : f[i] = k
  <2> HIDE DEF f
  <2> QED
    BY <1>6, Fun_SurjectionProperties
<1>8. ASSUME NEW k \in 1 .. c PROVE Nth(I, k) \in I /\ Rank(I, Nth(I, k)) = k
  <2>1. \E i \in I : Rank(I, i) = k
    BY <1>7
  <2> QED
    BY <2>1 DEF Nth, Rank
<1>9. ASSUME NEW k \in 1 .. c, NEW l \in 1 .. c, k < l PROVE Nth(I, k) < Nth(I, l)
  <2>1. PICK i \in I : i = Nth(I, k) /\ Rank(I, i) = k
    BY <1>8
  <2>2. PICK j \in I : j = Nth(I, l) /\ Rank(I, j) = l
    BY <1>8
  <2>3. ~(j < i) /\ i # j
    <3> HIDE DEF f
    <3> QED
      BY <1>1, <1>9, <2>1, <2>2
  <2> QED
    BY <2>1, <2>2, <2>3
<1>10. ASSUME NEW i \in I PROVE Nth(I, Rank(I, i)) = i
  BY <1>1, <1>2, <1>8
<1> QED
  BY <1>8, <1>9, <1>10 DEF c

\* m of the indices of I, in their order and with none left out.
Walks(h, m, I) ==
    /\ h \in [1 .. m -> I]
    /\ \A k, l \in 1 .. m : k < l => h[k] < h[l]
    /\ \A i \in I : \E k \in 1 .. m : h[k] = i

Follows(h, m, I) == \A k \in 1 .. m : Nth(I, k) = h[k]

\* The k-th index, from the order of the indices.
LEMMA NthIs ==
  ASSUME NEW n \in Nat, NEW I \in SUBSET (1 .. n), NEW m \in Nat, NEW h, Walks(h, m, I)
  PROVE  Cardinality(I) = m /\ Follows(h, m, I)
<1>0. /\ h \in [1 .. m -> I]
      /\ \A k, l \in 1 .. m : k < l => h[k] < h[l]
      /\ \A i \in I : \E k \in 1 .. m : h[k] = i
  BY DEF Walks
<1>1. \A k, l \in 1 .. m : h[k] = h[l] => k = l
  <2> SUFFICES ASSUME NEW k \in 1 .. m, NEW l \in 1 .. m, k < l PROVE h[k] # h[l]
    OBVIOUS
  <2>1. PICK a \in I, b \in I : a = h[k] /\ b = h[l] /\ a < b
    BY <1>0
  <2> QED
    BY <2>1
<1>2. Cardinality(I) = m
  <2>1. h \in Bijection(1 .. m, I)
    BY <1>0, <1>1, Fun_IsBij
  <2> QED
    BY <2>1, FS_CountingElements DEF ExistsBijection
<1>3. ASSUME NEW k \in 1 .. m PROVE Rank(I, h[k]) = k
  <2> DEFINE B == {j \in I : j <= h[k]}
             g == [l \in 1 .. k |-> h[l]]
  <2>1. ASSUME NEW l \in 1 .. m PROVE h[l] \in B <=> l \in 1 .. k
    <3>1. PICK a \in I, b \in I : a = h[l] /\ b = h[k]
      BY <1>0
    <3>2. a \in Nat /\ b \in Nat
      OBVIOUS
    <3>3. (l < k => a < b) /\ (k < l => b < a)
      BY <1>0, <3>1
    <3>4. (l = k => a = b) /\ (a <= b <=> l <= k)
      BY <3>1, <3>2, <3>3
    <3> QED
      BY <3>1, <3>4
  <2>2. g \in [1 .. k -> B]
    BY <1>0, <2>1
  <2>3. \A a, b \in 1 .. k : g[a] = g[b] => a = b
    BY <1>1
  <2>4. ASSUME NEW t \in B PROVE \E a \in 1 .. k : g[a] = t
    <3>1. PICK l \in 1 .. m : h[l] = t
      BY <1>0
    <3>2. l \in 1 .. k
      BY <2>1, <3>1
    <3> QED
      BY <3>1, <3>2
  <2>5. Rank(I, h[k]) = Cardinality(B)
    BY DEF Rank
  <2> HIDE DEF B, g
  <2>6. g \in Bijection(1 .. k, B)
    BY <2>2, <2>3, <2>4, Fun_IsBij
  <2>7. k \in Nat
    OBVIOUS
  <2> QED
    BY <2>5, <2>6, <2>7, FS_CountingElements DEF ExistsBijection
<1>4. \A i \in I : Nth(I, Rank(I, i)) = i
  BY NthIndex
<1>5. ASSUME NEW k \in 1 .. m PROVE Nth(I, k) = h[k]
  <2>1. h[k] \in I /\ Rank(I, h[k]) = k
    BY <1>0, <1>3
  <2> QED
    BY <1>4, <2>1
<1> QED
  BY <1>2, <1>5 DEF Follows

\* What Entries gives: entries of the sequence, at as many indices as there are.
LEMMA EntriesType ==
  ASSUME NEW S, NEW s \in Seq(S), NEW I \in SUBSET (DOMAIN s)
  PROVE  /\ Entries(s, I) \in Seq(S)
         /\ Cardinality(I) \in Nat /\ Len(Entries(s, I)) = Cardinality(I)
         /\ DOMAIN Entries(s, I) = 1 .. Cardinality(I)
         /\ \A k \in 1 .. Cardinality(I) :
               Nth(I, k) \in I /\ Entries(s, I)[k] = s[Nth(I, k)]
         /\ \A k, l \in 1 .. Cardinality(I) : k < l => Nth(I, k) < Nth(I, l)
<1> DEFINE c == Cardinality(I)
           e == [k \in 1 .. c |-> s[Nth(I, k)]]
<1>1. Len(s) \in Nat /\ DOMAIN s = 1 .. Len(s)
  OBVIOUS
<1>2. I \in SUBSET (1 .. Len(s))
  BY <1>1
<1>3. c \in Nat
  BY <1>1, <1>2, RankOfIndex
<1>4. /\ \A k \in 1 .. c : Nth(I, k) \in I
      /\ \A k, l \in 1 .. c : k < l => Nth(I, k) < Nth(I, l)
  BY <1>1, <1>2, NthIndex
<1>5. Entries(s, I) = e
  BY DEF Entries
<1> HIDE DEF c
<1>6. \A k \in 1 .. c : s[Nth(I, k)] \in S
  BY <1>1, <1>2, <1>4
<1>7. e \in Seq(S) /\ Len(e) = c /\ DOMAIN e = 1 .. c
      /\ \A k \in 1 .. c : e[k] = s[Nth(I, k)]
  BY <1>3, <1>6
<1> HIDE DEF e
<1> QED
  BY <1>3, <1>4, <1>5, <1>7 DEF c

\* A sequence that walks over the indices of I is Entries.
LEMMA EntriesAre ==
  ASSUME NEW S, NEW s \in Seq(S), NEW I \in SUBSET (DOMAIN s),
         NEW t \in Seq(S), NEW h, Walks(h, Len(t), I),
         \A k \in 1 .. Len(t) : t[k] = s[h[k]]
  PROVE  Entries(s, I) = t
<1>1. Len(t) \in Nat /\ Len(s) \in Nat /\ I \in SUBSET (1 .. Len(s))
  OBVIOUS
<1>2. Cardinality(I) = Len(t) /\ Follows(h, Len(t), I)
  BY <1>1, NthIs
<1>3. /\ Entries(s, I) \in Seq(S) /\ Len(Entries(s, I)) = Len(t)
      /\ \A k \in 1 .. Len(t) : Entries(s, I)[k] = s[Nth(I, k)]
  BY <1>2, EntriesType
<1>4. \A k \in 1 .. Len(t) : Nth(I, k) = h[k]
  BY <1>2 DEF Follows
<1> QED
  BY <1>3, <1>4, SeqEqual

\* All the entries are the sequence.
LEMMA EntriesOfAll ==
  ASSUME NEW S, NEW s \in Seq(S) PROVE Entries(s, DOMAIN s) = s
<1> DEFINE h == [k \in 1 .. Len(s) |-> k]
<1>1. DOMAIN s = 1 .. Len(s)
  OBVIOUS
<1>2. /\ h \in [1 .. Len(s) -> DOMAIN s]
      /\ \A k \in 1 .. Len(s) : h[k] = k
  BY <1>1
<1> HIDE DEF h
<1>3. Walks(h, Len(s), DOMAIN s)
  BY <1>1, <1>2 DEF Walks
<1> QED
  BY <1>2, <1>3, EntriesAre, <1>1

\* At no indices there are no entries.
LEMMA EntriesOfNone ==
  ASSUME NEW S, NEW s \in Seq(S) PROVE Entries(s, {}) = <<>>
<1> DEFINE e == Entries(s, {})
<1>1. e \in Seq(S) /\ Len(e) = Cardinality({})
  BY EntriesType
<1>2. Cardinality({}) = 0
  BY FS_EmptySet
<1> HIDE DEF e
<1>3. e = <<>>
  BY <1>1, <1>2
<1> QED
  BY <1>3 DEF e

-----------------------------------------------------------------------------
(* The blocks of a kind *)

Places(s, kind) == {i \in DOMAIN s : s[i].kind = kind}

\* The blocks of a kind are blocks of the sequence.
LEMMA OfKindType ==
  ASSUME NEW S, NEW s \in Seq(S), NEW kind
  PROVE  /\ OfKind(s, kind) \in Seq(S)
         /\ \A k \in DOMAIN OfKind(s, kind) : OfKind(s, kind)[k].kind = kind
<1>1. Places(s, kind) \in SUBSET (DOMAIN s) /\ OfKind(s, kind) = Entries(s, Places(s, kind))
  BY DEF Places, OfKind
<1>2. \A i \in Places(s, kind) : s[i].kind = kind
  BY DEF Places
<1> QED
  BY <1>1, <1>2, EntriesType

\* They are all the blocks, if all are of that kind.
LEMMA OfKindAll ==
  ASSUME NEW S, NEW s \in Seq(S), NEW kind, \A i \in DOMAIN s : s[i].kind = kind
  PROVE  OfKind(s, kind) = s
<1>1. {i \in DOMAIN s : s[i].kind = kind} = DOMAIN s
  OBVIOUS
<1> QED
  BY <1>1, EntriesOfAll DEF OfKind

\* They are none, if none is.
LEMMA OfKindNone ==
  ASSUME NEW S, NEW s \in Seq(S), NEW kind, \A i \in DOMAIN s : s[i].kind # kind
  PROVE  OfKind(s, kind) = <<>>
<1>1. {i \in DOMAIN s : s[i].kind = kind} = {}
  OBVIOUS
<1> QED
  BY <1>1, EntriesOfNone DEF OfKind

\* Those of two sequences are those of the first and those of the second.
LEMMA OfKindConcat ==
  ASSUME NEW S, NEW s \in Seq(S), NEW t \in Seq(S), NEW kind
  PROVE  OfKind(s \o t, kind) = OfKind(s, kind) \o OfKind(t, kind)
<1> DEFINE I == Places(s, kind)
           J == Places(t, kind)
           K == Places(s \o t, kind)
           a == Cardinality(I)
           b == Cardinality(J)
           n == Len(s)
           p == OfKind(s, kind)
           q == OfKind(t, kind)
           h == [k \in 1 .. a + b |-> IF k <= a THEN Nth(I, k) ELSE n + Nth(J, k - a)]
<1>1. /\ n \in Nat /\ Len(t) \in Nat /\ s \o t \in Seq(S)
      /\ DOMAIN s = 1 .. n /\ DOMAIN t = 1 .. Len(t) /\ DOMAIN (s \o t) = 1 .. n + Len(t)
      /\ \A i \in 1 .. n : (s \o t)[i] = s[i]
      /\ \A i \in 1 .. Len(t) : (s \o t)[n + i] = t[i]
  OBVIOUS
<1>2. I \in SUBSET (DOMAIN s) /\ J \in SUBSET (DOMAIN t) /\ K \in SUBSET (DOMAIN (s \o t))
  BY DEF Places
<1>3. p = Entries(s, I) /\ q = Entries(t, J) /\ OfKind(s \o t, kind) = Entries(s \o t, K)
  BY DEF OfKind, Places
<1>4. \A i \in 1 .. n : i \in K <=> i \in I
  BY <1>1 DEF Places
<1>5. \A i \in 1 .. Len(t) : n + i \in K <=> i \in J
  BY <1>1 DEF Places
<1> HIDE DEF I, J, K
<1>6. /\ p \in Seq(S) /\ a \in Nat /\ Len(p) = a
      /\ \A k \in 1 .. a : Nth(I, k) \in I /\ p[k] = s[Nth(I, k)]
      /\ \A k, l \in 1 .. a : k < l => Nth(I, k) < Nth(I, l)
  BY <1>2, <1>3, EntriesType
<1>7. /\ q \in Seq(S) /\ b \in Nat /\ Len(q) = b
      /\ \A k \in 1 .. b : Nth(J, k) \in J /\ q[k] = t[Nth(J, k)]
      /\ \A k, l \in 1 .. b : k < l => Nth(J, k) < Nth(J, l)
  BY <1>2, <1>3, EntriesType
<1>8. /\ \A i \in I : \E k \in 1 .. a : Nth(I, k) = i
      /\ \A i \in J : \E k \in 1 .. b : Nth(J, k) = i
  <2>1. /\ \A i \in I : Rank(I, i) \in 1 .. Cardinality(I) /\ Nth(I, Rank(I, i)) = i
        /\ \A i \in J : Rank(J, i) \in 1 .. Cardinality(J) /\ Nth(J, Rank(J, i)) = i
    BY <1>1, <1>2, RankOfIndex, NthIndex
  <2> QED
    BY <2>1
<1> HIDE DEF a, b, n, p, q
<1>9. /\ p \o q \in Seq(S) /\ Len(p \o q) = a + b
      /\ \A k \in 1 .. a : (p \o q)[k] = p[k]
      /\ \A k \in 1 .. a + b : k > a => (p \o q)[k] = q[k - a]
  <2>1. /\ p \o q \in Seq(S) /\ Len(p \o q) = a + b
        /\ \A k \in 1 .. a + b : (p \o q)[k] = IF k <= a THEN p[k] ELSE q[k - a]
    BY <1>6, <1>7, ConcatProperties
  <2> QED
    BY <1>6, <1>7, <2>1
<1>10. ASSUME NEW k \in 1 .. a + b
       PROVE  /\ h[k] \in K /\ (k <= a => h[k] \in 1 .. n) /\ (k > a => h[k] > n)
              /\ (p \o q)[k] = (s \o t)[h[k]]
  <2>1. CASE k <= a
    <3>1. k \in 1 .. a
      BY <1>6, <1>7, <2>1
    <3>2. PICK i \in I : i = Nth(I, k) /\ p[k] = s[i]
      BY <1>6, <3>1
    <3>3. i \in 1 .. n /\ h[k] = i
      BY <1>1, <1>2, <2>1, <3>2
    <3>4. h[k] \in K /\ (p \o q)[k] = (s \o t)[h[k]]
      BY <1>1, <1>4, <1>9, <3>1, <3>2, <3>3
    <3>5. h[k] \in 1 .. n /\ ~(k > a)
      BY <1>6, <3>1, <3>3
    <3> QED
      BY <3>4, <3>5
  <2>2. CASE k > a
    <3>1. k - a \in 1 .. b
      BY <1>6, <1>7, <2>2
    <3>2. PICK i \in J : i = Nth(J, k - a) /\ q[k - a] = t[i]
      BY <1>7, <3>1
    <3>3. i \in 1 .. Len(t) /\ h[k] = n + i
      BY <1>1, <1>2, <1>6, <2>2, <3>2
    <3>4. h[k] \in K /\ (p \o q)[k] = (s \o t)[h[k]]
      BY <1>1, <1>5, <1>9, <2>2, <3>2, <3>3
    <3>5. h[k] > n /\ ~(k <= a)
      BY <1>1, <1>6, <2>2, <3>3
    <3> QED
      BY <3>4, <3>5
  <2>3. k <= a \/ k > a
    BY <1>6
  <2> HIDE DEF h
  <2> QED
    BY <2>1, <2>2, <2>3
<1>11. ASSUME NEW k \in 1 .. a + b, NEW l \in 1 .. a + b, k < l PROVE h[k] < h[l]
  <2>1. CASE l <= a
    <3>1. k \in 1 .. a /\ l \in 1 .. a
      BY <1>6, <1>11, <2>1
    <3>2. h[k] = Nth(I, k) /\ h[l] = Nth(I, l)
      BY <3>1, <1>11, <2>1
    <3> QED
      BY <1>6, <1>11, <3>1, <3>2
  <2>2. CASE k <= a /\ l > a
    <3>1. h[k] \in 1 .. n /\ h[l] > n /\ h[l] \in K
      BY <1>10, <2>2
    <3> QED
      BY <1>1, <1>2, <3>1
  <2>3. CASE k > a
    <3>1. k - a \in 1 .. b /\ l - a \in 1 .. b /\ k - a < l - a
      BY <1>6, <1>7, <1>11, <2>3
    <3>2. h[k] = n + Nth(J, k - a) /\ h[l] = n + Nth(J, l - a)
      BY <1>6, <1>11, <2>3
    <3>3. PICK i \in J, j \in J : i = Nth(J, k - a) /\ j = Nth(J, l - a) /\ i < j
      BY <1>7, <3>1
    <3>4. i \in Nat /\ j \in Nat
      BY <1>1, <1>2
    <3> QED
      BY <1>1, <3>2, <3>3, <3>4
  <2> QED
    BY <1>6, <2>1, <2>2, <2>3
<1>12. ASSUME NEW i \in K PROVE \E k \in 1 .. a + b : h[k] = i
  <2>1. CASE i \in 1 .. n
    <3>1. PICK k \in 1 .. a : Nth(I, k) = i
      BY <1>4, <1>8, <2>1
    <3>2. k \in 1 .. a + b /\ k <= a
      BY <1>6, <1>7
    <3> QED
      BY <3>1, <3>2
  <2>2. CASE i \notin 1 .. n
    <3>1. i - n \in 1 .. Len(t) /\ n + (i - n) = i
      BY <1>1, <1>2, <2>2
    <3>2. PICK k \in 1 .. b : Nth(J, k) = i - n
      BY <1>5, <1>8, <3>1
    <3>3. a + k \in 1 .. a + b /\ ~(a + k <= a) /\ (a + k) - a = k
      BY <1>6, <1>7
    <3>4. h[a + k] = n + Nth(J, k)
      BY <3>3
    <3> QED
      BY <3>1, <3>2, <3>3, <3>4
  <2> QED
    BY <2>1, <2>2
<1>13. h \in [1 .. a + b -> K] /\ \A k \in 1 .. a + b : (p \o q)[k] = (s \o t)[h[k]]
  BY <1>10
<1> HIDE DEF h
<1>14. Walks(h, Len(p \o q), K)
  BY <1>9, <1>11, <1>12, <1>13 DEF Walks
<1>15. Entries(s \o t, K) = p \o q
  BY <1>1, <1>2, <1>9, <1>13, <1>14, EntriesAre
<1> QED
  BY <1>3, <1>15 DEF p, q

-----------------------------------------------------------------------------
(* Sequences joined into one *)

\* What FlattenSeq has joined after each sequence.
Joined(s) ==
    CHOOSE f : f = [i \in 1 .. Len(s) |-> IF i = 1 THEN s[i] ELSE f[i - 1] \o s[i]]

JoinedUpTo(s, n) ==
    \E f : f = [i \in 1 .. n |-> IF i = 1 THEN s[i] ELSE f[i - 1] \o s[i]]

\* FlattenSeq's recursive function exists, and is defined at every index.
LEMMA JoinedExists ==
  ASSUME NEW s PROVE \A n \in Nat : JoinedUpTo(s, n)
<1> DEFINE T == {n \in Nat : JoinedUpTo(s, n)}
<1>1. 0 \in T
  <2>1. [i \in 1 .. 0 |-> s[i]]
          = [i \in 1 .. 0 |-> IF i = 1 THEN s[i] ELSE [j \in 1 .. 0 |-> s[j]][i - 1] \o s[i]]
    OBVIOUS
  <2> QED
    BY <2>1 DEF JoinedUpTo
<1>2. ASSUME NEW n \in Nat, n \in T PROVE n + 1 \in T
  <2>1. PICK f : f = [i \in 1 .. n |-> IF i = 1 THEN s[i] ELSE f[i - 1] \o s[i]]
    BY <1>2 DEF JoinedUpTo
  <2> DEFINE last == IF n + 1 = 1 THEN s[n + 1] ELSE f[n] \o s[n + 1]
             g == [i \in 1 .. n + 1 |-> IF i = n + 1 THEN last ELSE f[i]]
             G == [i \in 1 .. n + 1 |-> IF i = 1 THEN s[i] ELSE g[i - 1] \o s[i]]
  <2>2. ASSUME NEW i \in 1 .. n + 1 PROVE g[i] = G[i]
    <3>1. G[i] = IF i = 1 THEN s[i] ELSE g[i - 1] \o s[i]
      OBVIOUS
    <3>2. i # 1 => i - 1 \in 1 .. n + 1 /\ i - 1 # n + 1 /\ g[i - 1] = f[i - 1]
      OBVIOUS
    <3>3. CASE i = n + 1
      <4>1. g[i] = last /\ (i # 1 => i - 1 = n)
        BY <3>3
      <4> HIDE DEF g, G
      <4> QED
        BY <3>1, <3>2, <3>3, <4>1
    <3>4. CASE i # n + 1
      <4>1. i \in 1 .. n /\ g[i] = f[i]
        BY <3>4
      <4>2. f[i] = IF i = 1 THEN s[i] ELSE f[i - 1] \o s[i]
        BY <2>1, <4>1
      <4> HIDE DEF g, G
      <4> QED
        BY <3>1, <3>2, <4>1, <4>2
    <3> QED
      BY <3>3, <3>4
  <2>3. g = G
    BY <2>2
  <2> HIDE DEF last
  <2>4. \E e : e = [i \in 1 .. n + 1 |-> IF i = 1 THEN s[i] ELSE e[i - 1] \o s[i]]
    BY <2>3
  <2>5. JoinedUpTo(s, n + 1)
    BY <2>4, Zenon DEF JoinedUpTo
  <2> QED
    BY <2>5
<1> HIDE DEF T
<1>3. \A n \in Nat : n \in T
  BY <1>1, <1>2, NumberByNumber
<1> QED
  BY <1>3 DEF T

\* It joins one sequence more at each index.
LEMMA JoinedIs ==
  ASSUME NEW s, Len(s) \in Nat
  PROVE  /\ DOMAIN Joined(s) = 1 .. Len(s)
         /\ \A i \in 1 .. Len(s) :
              Joined(s)[i] = IF i = 1 THEN s[i] ELSE Joined(s)[i - 1] \o s[i]
<1>1. JoinedUpTo(s, Len(s))
  BY JoinedExists
<1>2. Joined(s) = [i \in 1 .. Len(s) |-> IF i = 1 THEN s[i] ELSE Joined(s)[i - 1] \o s[i]]
  BY <1>1, Zenon DEF Joined, JoinedUpTo
<1> QED
  BY <1>2, Zenon

\* FlattenSeq is its value at the last index.
LEMMA FlattenIsJoined ==
  ASSUME NEW s, Len(s) # 0 PROVE FlattenSeq(s) = Joined(s)[Len(s)]
  BY Zenon DEF FlattenSeq, Joined

\* Nothing joined is empty.
LEMMA FlattenEmpty == FlattenSeq(<<>>) = <<>>
  BY DEF FlattenSeq

\* What is joined is a sequence over the same set.
LEMMA JoinedType ==
  ASSUME NEW S, NEW s \in Seq(Seq(S))
  PROVE  \A i \in 1 .. Len(s) : Joined(s)[i] \in Seq(S)
<1> DEFINE T == {n \in Nat : n \in 1 .. Len(s) => Joined(s)[n] \in Seq(S)}
<1>1. Len(s) \in Nat /\ \A i \in 1 .. Len(s) : s[i] \in Seq(S)
  OBVIOUS
<1>2. 0 \in T
  OBVIOUS
<1>3. ASSUME NEW n \in Nat, n \in T PROVE n + 1 \in T
  <2> SUFFICES ASSUME n + 1 \in 1 .. Len(s) PROVE Joined(s)[n + 1] \in Seq(S)
    OBVIOUS
  <2>1. Joined(s)[n + 1] = IF n + 1 = 1 THEN s[n + 1] ELSE Joined(s)[(n + 1) - 1] \o s[n + 1]
    BY <1>1, JoinedIs
  <2>2. n + 1 # 1 => n \in 1 .. Len(s) /\ (n + 1) - 1 = n
    BY <1>1
  <2>3. n + 1 # 1 => Joined(s)[n] \in Seq(S)
    BY <1>3, <2>2
  <2> QED
    BY <1>1, <2>1, <2>2, <2>3
<1> HIDE DEF T
<1>4. \A n \in Nat : n \in T
  BY <1>2, <1>3, NumberByNumber
<1> QED
  BY <1>1, <1>4 DEF T

\* So is the whole.
LEMMA FlattenType ==
  ASSUME NEW S, NEW s \in Seq(Seq(S)) PROVE FlattenSeq(s) \in Seq(S)
<1>1. Len(s) \in Nat
  OBVIOUS
<1>2. CASE Len(s) = 0
  <2>1. s = <<>>
    BY <1>2
  <2>2. FlattenSeq(s) = <<>>
    BY <2>1, FlattenEmpty
  <2> QED
    BY <2>2
<1>3. CASE Len(s) # 0
  BY <1>1, <1>3, FlattenIsJoined, JoinedType
<1> QED
  BY <1>2, <1>3

\* One sequence more is joined at the end.
LEMMA FlattenAppend ==
  ASSUME NEW S, NEW s \in Seq(Seq(S)), NEW e \in Seq(S)
  PROVE  FlattenSeq(Append(s, e)) = FlattenSeq(s) \o e
<1> DEFINE t == Append(s, e)
           n == Len(s)
<1>1. /\ n \in Nat /\ t \in Seq(Seq(S)) /\ Len(t) = n + 1 /\ t[n + 1] = e
      /\ \A i \in 1 .. n : t[i] = s[i]
  OBVIOUS
<1> HIDE DEF t
<1>2. FlattenSeq(t) = Joined(t)[n + 1]
  <2>1. Len(t) # 0
    BY <1>1
  <2> HIDE DEF n
  <2> QED
    BY <1>1, <2>1, FlattenIsJoined
<1>3. Joined(t)[n + 1] = IF n + 1 = 1 THEN t[n + 1] ELSE Joined(t)[(n + 1) - 1] \o t[n + 1]
  <2>1. Len(t) \in Nat /\ n + 1 \in 1 .. Len(t)
    BY <1>1
  <2> HIDE DEF n
  <2> QED
    BY <2>1, JoinedIs
<1>4. CASE n = 0
  <2>1. s = <<>>
    BY <1>4
  <2>2. <<>> \o e = e
    OBVIOUS
  <2>3. Joined(t)[n + 1] = e
    BY <1>1, <1>3, <1>4
  <2> QED
    BY <1>2, <2>1, <2>2, <2>3, FlattenEmpty DEF t
<1>5. CASE n # 0
  <2> DEFINE T == {m \in Nat : m \in 1 .. n => Joined(t)[m] = Joined(s)[m]}
  <2> HIDE DEF n
  <2>1. 0 \in T
    OBVIOUS
  <2>2. ASSUME NEW m \in Nat, m \in T PROVE m + 1 \in T
    <3> SUFFICES ASSUME m + 1 \in 1 .. n PROVE Joined(t)[m + 1] = Joined(s)[m + 1]
      OBVIOUS
    <3>1. m + 1 \in 1 .. Len(t) /\ m + 1 \in 1 .. Len(s) /\ Len(s) \in Nat /\ Len(t) \in Nat
      BY <1>1 DEF n
    <3>2. /\ Joined(t)[m + 1] = IF m + 1 = 1 THEN t[m + 1] ELSE Joined(t)[(m + 1) - 1] \o t[m + 1]
          /\ Joined(s)[m + 1] = IF m + 1 = 1 THEN s[m + 1] ELSE Joined(s)[(m + 1) - 1] \o s[m + 1]
      BY <3>1, JoinedIs
    <3>3. m + 1 # 1 => Joined(t)[m] = Joined(s)[m]
      <4>1. m + 1 # 1 => m \in 1 .. n
        BY <1>1
      <4> QED
        BY <2>2, <4>1
    <3>4. (m + 1) - 1 = m /\ t[m + 1] = s[m + 1]
      BY <1>1
    <3> QED
      BY <3>2, <3>3, <3>4
  <2> HIDE DEF T
  <2>3. \A m \in Nat : m \in T
    BY <2>1, <2>2, NumberByNumber
  <2>4. Joined(t)[n] = Joined(s)[n]
    BY <1>1, <1>5, <2>3 DEF T
  <2>5. FlattenSeq(s) = Joined(s)[n]
    BY <1>1, <1>5, FlattenIsJoined DEF n
  <2>6. n + 1 # 1 /\ (n + 1) - 1 = n
    BY <1>1, <1>5
  <2> QED
    BY <1>1, <1>2, <1>3, <2>4, <2>5, <2>6 DEF t
<1> QED
  BY <1>4, <1>5

\* Joining sequences of one entry gives the entries.
LEMMA FlattenOnes ==
  ASSUME NEW S, NEW x \in Seq(S), NEW s \in Seq(Seq(S)), Len(s) = Len(x),
         \A i \in 1 .. Len(x) : s[i] = <<x[i]>>
  PROVE  FlattenSeq(s) = x
<1> DEFINE n == Len(x)
           T == {m \in Nat : m \in 1 .. n =>
                   /\ Joined(s)[m] \in Seq(S) /\ Len(Joined(s)[m]) = m
                   /\ \A i \in 1 .. m : Joined(s)[m][i] = x[i]}
<1>1. n \in Nat /\ \A i \in 1 .. n : x[i] \in S
  OBVIOUS
<1>2. 0 \in T
  OBVIOUS
<1>3. ASSUME NEW m \in Nat, m \in T PROVE m + 1 \in T
  <2> DEFINE j == Joined(s)[m + 1]
             p == Joined(s)[m]
  <2> SUFFICES ASSUME m + 1 \in 1 .. n
               PROVE  /\ j \in Seq(S) /\ Len(j) = m + 1
                      /\ \A i \in 1 .. m + 1 : j[i] = x[i]
    OBVIOUS
  <2>1. j = IF m + 1 = 1 THEN s[m + 1] ELSE Joined(s)[(m + 1) - 1] \o s[m + 1]
    BY <1>1, JoinedIs
  <2>2. m # 0 => p \in Seq(S) /\ Len(p) = m /\ \A i \in 1 .. m : p[i] = x[i]
    <3>1. m # 0 => m \in 1 .. n
      BY <1>1
    <3> QED
      BY <1>3, <3>1
  <2>3. p = Joined(s)[m]
    OBVIOUS
  <2> HIDE DEF T, j, p
  <2>4. s[m + 1] = <<x[m + 1]>> /\ x[m + 1] \in S /\ (m + 1) - 1 = m
    <3>1. m + 1 \in 1 .. Len(x)
      OBVIOUS
    <3> QED
      BY <1>1, <3>1
  <2>5. CASE m = 0
    <3>1. j = <<x[1]>> /\ m + 1 = 1
      BY <2>1, <2>4, <2>5
    <3> QED
      BY <2>4, <3>1
  <2>6. CASE m # 0
    <3>1. p \in Seq(S) /\ Len(p) = m /\ \A i \in 1 .. m : p[i] = x[i]
      BY <2>2, <2>6
    <3>2. j = Append(p, x[m + 1])
      BY <2>1, <2>4, <2>3, <2>6, <3>1, AppendIsConcat
    <3> QED
      BY <2>4, <3>1, <3>2
  <2> QED
    BY <2>5, <2>6
<1> HIDE DEF T
<1>4. \A m \in Nat : m \in T
  BY <1>2, <1>3, NumberByNumber
<1>5. CASE n = 0
  <2>1. s = <<>> /\ x = <<>>
    BY <1>5
  <2> QED
    BY <2>1, FlattenEmpty
<1>6. CASE n # 0
  <2>1. FlattenSeq(s) = Joined(s)[n]
    BY <1>1, <1>6, FlattenIsJoined
  <2>2. Joined(s)[n] \in Seq(S) /\ Len(Joined(s)[n]) = n
        /\ \A i \in 1 .. n : Joined(s)[n][i] = x[i]
    BY <1>1, <1>4, <1>6 DEF T
  <2> QED
    BY <2>1, <2>2, SeqEqual
<1> QED
  BY <1>5, <1>6

-----------------------------------------------------------------------------
(* Messages *)

Block == [kind : {"text", "use", "result"}, id : Seq(Nat), name : STRING \cup {"none"},
          err : BOOLEAN]
Message == [role : {"user", "assistant"}, blocks : Seq(Block)]
Wires == [role : {"system", "user", "assistant", "tool"}, uses : Seq(Seq(Nat)),
          results : Seq(Seq(Nat))]
LLMs == {"anthropic", "openai", "fallback"}

\* The blocks of LLM are blocks of their kinds, with the id they are given.
LEMMA BlockTypes ==
  /\ TextBlock \in Block /\ TextBlock.kind = "text"
  /\ \A id \in Seq(Nat), name \in STRING :
       /\ UseBlock(id, name) \in Block /\ UseBlock(id, name).kind = "use"
       /\ UseBlock(id, name).id = id
  /\ \A id \in Seq(Nat), err \in BOOLEAN :
       /\ ResultBlock(id, err) \in Block /\ ResultBlock(id, err).kind = "result"
       /\ ResultBlock(id, err).id = id
<1>1. TextBlock \in Block /\ TextBlock.kind = "text"
  BY DEF TextBlock, Block, NoId
<1>2. ASSUME NEW id \in Seq(Nat), NEW name \in STRING
      PROVE  UseBlock(id, name) = [kind |-> "use", id |-> id, name |-> name, err |-> FALSE]
  <2> DEFINE b == TextBlock
             r == UseBlock(id, name)
  <2>1. r = [b EXCEPT !.kind = "use", !.id = id, !.name = name]
    BY DEF UseBlock
  <2>2. b = [kind |-> "text", id |-> NoId, name |-> "none", err |-> FALSE]
    BY DEF TextBlock
  <2> HIDE DEF b, r
  <2>3. r = [kind |-> "use", id |-> id, name |-> name, err |-> FALSE]
    BY <2>1, <2>2
  <2> QED
    BY <2>3 DEF r
<1>3. ASSUME NEW id \in Seq(Nat), NEW err \in BOOLEAN
      PROVE  ResultBlock(id, err) = [kind |-> "result", id |-> id, name |-> "none", err |-> err]
  <2> DEFINE b == TextBlock
             r == ResultBlock(id, err)
  <2>1. r = [b EXCEPT !.kind = "result", !.id = id, !.err = err]
    BY DEF ResultBlock
  <2>2. b = [kind |-> "text", id |-> NoId, name |-> "none", err |-> FALSE]
    BY DEF TextBlock
  <2> HIDE DEF b, r
  <2>3. r = [kind |-> "result", id |-> id, name |-> "none", err |-> err]
    BY <2>1, <2>2
  <2> QED
    BY <2>3 DEF r
<1>4. ASSUME NEW id \in Seq(Nat), NEW name \in STRING
      PROVE  /\ UseBlock(id, name) \in Block /\ UseBlock(id, name).kind = "use"
             /\ UseBlock(id, name).id = id
  <2> DEFINE r == UseBlock(id, name)
  <2>1. r = [kind |-> "use", id |-> id, name |-> name, err |-> FALSE]
    BY <1>2
  <2>2. name \in STRING \cup {"none"} /\ FALSE \in BOOLEAN
    OBVIOUS
  <2> HIDE DEF r
  <2>3. r \in Block /\ r.kind = "use" /\ r.id = id
    BY <2>1, <2>2, Zenon DEF Block
  <2> QED
    BY <2>3 DEF r
<1>5. ASSUME NEW id \in Seq(Nat), NEW err \in BOOLEAN
      PROVE  /\ ResultBlock(id, err) \in Block /\ ResultBlock(id, err).kind = "result"
             /\ ResultBlock(id, err).id = id
  <2> DEFINE r == ResultBlock(id, err)
  <2>1. r = [kind |-> "result", id |-> id, name |-> "none", err |-> err]
    BY <1>3
  <2>2. "none" \in STRING \cup {"none"}
    OBVIOUS
  <2> HIDE DEF r
  <2>3. r \in Block /\ r.kind = "result" /\ r.id = id
    BY <2>1, <2>2, Zenon DEF Block
  <2> QED
    BY <2>3 DEF r
<1> QED
  BY <1>1, <1>4, <1>5

\* The ids of blocks.
LEMMA IdsType ==
  ASSUME NEW s \in Seq(Block)
  PROVE  /\ Ids(s) \in Seq(Seq(Nat)) /\ Len(Ids(s)) = Len(s)
         /\ \A i \in 1 .. Len(s) : Ids(s)[i] = s[i].id
<1>1. \A b \in Block : b.id \in Seq(Nat)
  BY DEF Block
<1>2. \A i \in DOMAIN s : s[i] \in Block
  OBVIOUS
<1>3. \A i \in DOMAIN s : s[i].id \in Seq(Nat)
  BY <1>1, <1>2
<1> QED
  BY <1>3 DEF Ids

\* The ids of the blocks of a kind.
LEMMA IdsOfType ==
  ASSUME NEW m \in Message, NEW kind PROVE IdsOf(m, kind) \in Seq(Seq(Nat))
<1>1. m.blocks \in Seq(Block)
  BY DEF Message
<1> QED
  BY <1>1, OfKindType, IdsType DEF IdsOf

\* The ids of the services are sequences of numbers.
LEMMA NewIdType == \A n, i \in Nat : NewId(n, i) \in Seq(Nat)
  BY DEF NewId

\* The calls of one response have different ids.
LEMMA NewIdInjective ==
  ASSUME NEW n, NEW i, NEW j, NewId(n, i) = NewId(n, j) PROVE i = j
  BY DEF NewId

\* What a provider makes of a reply: texts, and calls of which no two have the
\* same id.
GoodResponse(response) ==
    /\ response.blocks \in Seq(Block)
    /\ \A i \in DOMAIN response.blocks : response.blocks[i].kind # "result"
    /\ \A k, l \in DOMAIN GetToolCalls(response.blocks) :
         GetToolCalls(response.blocks)[k].id = GetToolCalls(response.blocks)[l].id => k = l

\* A text before the calls leaves them the calls.
LEMMA SaidAndUses ==
  ASSUME NEW said \in Seq(Block), \A i \in DOMAIN said : said[i].kind = "text",
         NEW uses \in Seq(Block), \A i \in DOMAIN uses : uses[i].kind = "use",
         \A k, l \in DOMAIN uses : uses[k].id = uses[l].id => k = l,
         NEW response, response.blocks = said \o uses
  PROVE  GoodResponse(response)
<1> DEFINE b == said \o uses
<1>1. b \in Seq(Block) /\ \A i \in DOMAIN b : b[i].kind # "result"
  <2>1. b \in Seq(Block) /\ Len(b) = Len(said) + Len(uses)
        /\ \A i \in 1 .. Len(said) + Len(uses) :
             b[i] = IF i <= Len(said) THEN said[i] ELSE uses[i - Len(said)]
    BY ConcatProperties
  <2>2. ASSUME NEW i \in DOMAIN b PROVE b[i].kind # "result"
    <3>1. i \in 1 .. Len(said) + Len(uses) /\ Len(said) \in Nat /\ Len(uses) \in Nat
      BY <2>1
    <3>2. CASE i <= Len(said)
      BY <2>1, <3>1, <3>2
    <3>3. CASE ~(i <= Len(said))
      <4>1. i - Len(said) \in DOMAIN uses
        BY <3>1, <3>3
      <4> QED
        BY <2>1, <3>1, <3>3, <4>1
    <3> QED
      BY <3>2, <3>3
  <2> QED
    BY <2>1, <2>2
<1>2. GetToolCalls(b) = uses
  <2>1. OfKind(said, "use") = <<>> /\ OfKind(uses, "use") = uses
    BY OfKindNone, OfKindAll
  <2>2. OfKind(b, "use") = OfKind(said, "use") \o OfKind(uses, "use")
    BY OfKindConcat
  <2> QED
    BY <2>1, <2>2 DEF GetToolCalls
<1> QED
  BY <1>1, <1>2 DEF GoodResponse

Reply == [text : BOOLEAN, calls : Seq(STRING), stop : STRING]

\* What comes before the calls is text.
LEMMA SaidText ==
  ASSUME NEW t \in BOOLEAN
  PROVE  LET said == IF t THEN <<TextBlock>> ELSE <<>>
         IN  said \in Seq(Block) /\ \A i \in DOMAIN said : said[i].kind = "text"
  BY BlockTypes

\* The calls of the services with calls of their own (Uses).
LEMMA NativeUses ==
  ASSUME NEW calls \in Seq(STRING), NEW n \in Nat, NEW uses,
         uses = [i \in DOMAIN calls |-> UseBlock(NewId(n, i), calls[i])]
  PROVE  /\ uses \in Seq(Block) /\ DOMAIN uses = DOMAIN calls
         /\ \A i \in DOMAIN uses : uses[i].kind = "use" /\ uses[i].id = NewId(n, i)
<1>1. Len(calls) \in Nat /\ DOMAIN calls = 1 .. Len(calls) /\ DOMAIN uses = DOMAIN calls
  OBVIOUS
<1>2. ASSUME NEW i \in DOMAIN calls
      PROVE  uses[i] \in Block /\ uses[i].kind = "use" /\ uses[i].id = NewId(n, i)
  <2>1. NewId(n, i) \in Seq(Nat) /\ calls[i] \in STRING
    BY <1>1, NewIdType
  <2> QED
    BY <2>1, BlockTypes
<1>3. uses \in Seq(Block)
  BY <1>1, <1>2
<1> QED
  BY <1>1, <1>2, <1>3

\* Their responses (AnthropicResponse, OpenAIResponse).
LEMMA NativeResponse ==
  ASSUME NEW reply \in Reply, NEW n \in Nat, NEW response,
         response.blocks = Said(reply) \o Uses(reply, n)
  PROVE  GoodResponse(response)
<1> DEFINE said == Said(reply)
           uses == Uses(reply, n)
           calls == reply.calls
<1>1. said \in Seq(Block) /\ \A i \in DOMAIN said : said[i].kind = "text"
  BY SaidText DEF Said, Reply
<1>2. /\ calls \in Seq(STRING)
      /\ uses = [i \in DOMAIN calls |-> UseBlock(NewId(n, i), calls[i])]
  BY DEF Reply, Uses
<1>3. response.blocks = said \o uses
  OBVIOUS
<1> HIDE DEF said, uses, calls
<1>4. /\ uses \in Seq(Block)
      /\ \A i \in DOMAIN uses : uses[i].kind = "use" /\ uses[i].id = NewId(n, i)
  BY <1>2, NativeUses
<1>5. \A k, l \in DOMAIN uses : uses[k].id = uses[l].id => k = l
  BY <1>4, NewIdInjective
<1> QED
  BY <1>1, <1>3, <1>4, <1>5, SaidAndUses

\* The calls read out of a text (ParseToolCalls).
LEMMA ParsedCalls ==
  ASSUME NEW calls \in Seq(STRING)
  PROVE  /\ ParseToolCalls(calls) \in Seq(Block)
         /\ \A k \in DOMAIN ParseToolCalls(calls) : ParseToolCalls(calls)[k].kind = "use"
         /\ \A k, l \in DOMAIN ParseToolCalls(calls) :
              ParseToolCalls(calls)[k].id = ParseToolCalls(calls)[l].id => k = l
<1> DEFINE all == [i \in DOMAIN calls |-> UseBlock(NewId(0, i), calls[i])]
           I == {i \in DOMAIN calls : calls[i] # Unparsable}
           p == Entries(all, I)
<1>1. Len(calls) \in Nat /\ DOMAIN calls = 1 .. Len(calls)
  OBVIOUS
<1>2. all = [i \in DOMAIN calls |-> UseBlock(NewId(0, i), calls[i])]
  OBVIOUS
<1>3. /\ all \in Seq(Block) /\ DOMAIN all = DOMAIN calls
      /\ \A i \in DOMAIN calls : all[i].kind = "use" /\ all[i].id = NewId(0, i)
  <2> HIDE DEF all
  <2> QED
    BY <1>2, NativeUses
<1>4. I \in SUBSET (DOMAIN all)
  OBVIOUS
<1>5. ParseToolCalls(calls) = p
  BY DEF ParseToolCalls
<1> HIDE DEF all, I
<1> DEFINE c == Cardinality(I)
<1>6. /\ p \in Seq(Block) /\ c \in Nat /\ DOMAIN p = 1 .. c
      /\ \A k \in 1 .. c : Nth(I, k) \in I /\ p[k] = all[Nth(I, k)]
      /\ \A k, l \in 1 .. c : k < l => Nth(I, k) < Nth(I, l)
  BY <1>3, <1>4, EntriesType
<1> HIDE DEF p, c
<1>7. \A k \in 1 .. c : p[k].kind = "use" /\ p[k].id = NewId(0, Nth(I, k))
  BY <1>3, <1>4, <1>6
<1>8. ASSUME NEW k \in 1 .. c, NEW l \in 1 .. c, p[k].id = p[l].id PROVE k = l
  <2>1. NewId(0, Nth(I, k)) = NewId(0, Nth(I, l))
    BY <1>7, <1>8
  <2>2. Nth(I, k) = Nth(I, l)
    BY <2>1, NewIdInjective
  <2>3. Nth(I, k) \in Nat
    BY <1>1, <1>3, <1>4, <1>6
  <2> QED
    BY <1>6, <2>2, <2>3
<1> QED
  BY <1>5, <1>6, <1>7, <1>8

\* The responses of every provider.
LEMMA Responses ==
  ASSUME NEW p \in LLMs, NEW reply \in Reply, NEW n \in Nat
  PROVE  GoodResponse(Response(p, reply, n))
<1>1. CASE p = "anthropic"
  <2>1. Response(p, reply, n) = AnthropicResponse(reply, n)
    BY <1>1 DEF Response
  <2>2. AnthropicResponse(reply, n).blocks = Said(reply) \o Uses(reply, n)
    BY DEF AnthropicResponse
  <2> QED
    BY <2>1, <2>2, NativeResponse
<1>2. CASE p = "openai"
  <2>1. Response(p, reply, n) = OpenAIResponse(reply, n)
    BY <1>2 DEF Response
  <2>2. OpenAIResponse(reply, n).blocks = Said(reply) \o Uses(reply, n)
    BY DEF OpenAIResponse
  <2> QED
    BY <2>1, <2>2, NativeResponse
<1>3. CASE p = "fallback"
  <2> DEFINE r == Response(p, reply, n)
             uses == ParseToolCalls(reply.calls)
  <2>1. r = FallbackResponse(reply)
    BY <1>3 DEF Response
  <2>2. /\ uses \in Seq(Block)
        /\ \A k \in DOMAIN uses : uses[k].kind = "use"
        /\ \A k, l \in DOMAIN uses : uses[k].id = uses[l].id => k = l
    BY ParsedCalls DEF Reply
  <2>3. PICK t \in BOOLEAN, u \in {uses, <<>>} :
          r.blocks = (IF t THEN <<TextBlock>> ELSE <<>>) \o u
    <3>1. CASE uses = <<>>
      <4>1. r.blocks = <<TextBlock>>
        BY <2>1, <3>1 DEF FallbackResponse
      <4>2. <<TextBlock>> \o <<>> = <<TextBlock>>
        BY BlockTypes
      <4> QED
        BY <4>1, <4>2
    <3>2. CASE uses # <<>>
      <4> DEFINE left == reply.text \/ Len(uses) < Len(reply.calls)
      <4>1. r.blocks = (IF left THEN <<TextBlock>> ELSE <<>>) \o uses
        BY <2>1, <3>2 DEF FallbackResponse
      <4>2. left \in BOOLEAN
        OBVIOUS
      <4> HIDE DEF left
      <4> QED
        BY <4>1, <4>2
    <3> QED
      BY <3>1, <3>2
  <2> DEFINE said == IF t THEN <<TextBlock>> ELSE <<>>
  <2>4. said \in Seq(Block) /\ \A i \in DOMAIN said : said[i].kind = "text"
    BY SaidText
  <2>5. /\ u \in Seq(Block)
        /\ \A k \in DOMAIN u : u[k].kind = "use"
        /\ \A k, l \in DOMAIN u : u[k].id = u[l].id => k = l
    <3>1. CASE u = uses
      BY <2>2, <3>1
    <3>2. CASE u = <<>>
      BY <3>2
    <3> QED
      BY <3>1, <3>2
  <2>6. r.blocks = said \o u
    BY <2>3
  <2> HIDE DEF said, uses, r
  <2>7. GoodResponse(r)
    BY <2>4, <2>5, <2>6, SaidAndUses
  <2> QED
    BY <2>7 DEF r
<1> QED
  BY <1>1, <1>2, <1>3 DEF LLMs

-----------------------------------------------------------------------------
(* What is sent *)

AnthropicMessage(m) == Wire(m.role, IdsOf(m, "use"), IdsOf(m, "result"))

\* A message of a format is one.
LEMMA WireType ==
  ASSUME NEW role \in {"system", "user", "assistant", "tool"},
         NEW uses \in Seq(Seq(Nat)), NEW results \in Seq(Seq(Nat))
  PROVE  Wire(role, uses, results) \in Wires
  BY DEF Wire, Wires

\* Its role, its calls and its results.
LEMMA WireFields ==
  \A role, uses, results :
    /\ Wire(role, uses, results).role = role
    /\ Wire(role, uses, results).uses = uses
    /\ Wire(role, uses, results).results = results
  BY DEF Wire

\* The Anthropic format takes the messages one by one.
LEMMA AnthropicType ==
  ASSUME NEW msgs \in Seq(Message)
  PROVE  /\ AnthropicMessages(msgs) \in Seq(Wires)
         /\ Len(AnthropicMessages(msgs)) = Len(msgs)
         /\ \A i \in 1 .. Len(msgs) : AnthropicMessages(msgs)[i] = AnthropicMessage(msgs[i])
         /\ \A i \in 1 .. Len(msgs) : AnthropicMessage(msgs[i]) \in Wires
<1>1. ASSUME NEW m \in Message PROVE AnthropicMessage(m) \in Wires /\ m.role # "system"
  <2>1. m.role \in {"user", "assistant"}
    BY DEF Message
  <2> QED
    BY <2>1, IdsOfType, WireType DEF AnthropicMessage
<1>2. \A i \in DOMAIN msgs : msgs[i] \in Message
  OBVIOUS
<1>3. {i \in DOMAIN msgs : msgs[i].role # "system"} = DOMAIN msgs
  BY <1>1, <1>2
<1>4. Entries(msgs, {i \in DOMAIN msgs : msgs[i].role # "system"}) = msgs
  BY <1>3, EntriesOfAll
<1>5. AnthropicMessages(msgs) = [i \in DOMAIN msgs |-> AnthropicMessage(msgs[i])]
  BY <1>4 DEF AnthropicMessages, AnthropicMessage
<1>6. \A i \in DOMAIN msgs : AnthropicMessage(msgs[i]) \in Wires
  BY <1>1, <1>2
<1> QED
  BY <1>5, <1>6

\* The OpenAI format makes messages of each one.
LEMMA OpenAIType ==
  ASSUME NEW m \in Message PROVE OpenAIMessage(m) \in Seq(Wires)
<1>1. m.role \in {"user", "assistant"} /\ <<>> \in Seq(Seq(Nat))
  BY DEF Message
<1>2. IdsOf(m, "use") \in Seq(Seq(Nat)) /\ IdsOf(m, "result") \in Seq(Seq(Nat))
  BY IdsOfType
<1>3. Wire("assistant", IdsOf(m, "use"), <<>>) \in Wires /\ Wire(m.role, <<>>, <<>>) \in Wires
  BY <1>1, <1>2, WireType
<1> DEFINE ids == IdsOf(m, "result")
           tools == [i \in DOMAIN ids |-> Wire("tool", <<>>, <<ids[i]>>)]
<1>4. tools \in Seq(Wires)
  <2>1. ids \in Seq(Seq(Nat))
    BY <1>2
  <2> HIDE DEF ids
  <2>2. \A i \in DOMAIN ids : <<ids[i]>> \in Seq(Seq(Nat))
    BY <2>1
  <2>3. \A i \in DOMAIN ids : Wire("tool", <<>>, <<ids[i]>>) \in Wires
    BY <1>1, <2>2, WireType
  <2>4. Len(ids) \in Nat /\ DOMAIN ids = 1 .. Len(ids)
    BY <2>1
  <2> QED
    BY <2>3, <2>4
<1>5. \/ OpenAIMessage(m) = <<Wire("assistant", IdsOf(m, "use"), <<>>)>>
      \/ OpenAIMessage(m) = <<Wire(m.role, <<>>, <<>>)>>
      \/ OpenAIMessage(m) = tools
  BY DEF OpenAIMessage
<1>6. \A w \in Wires : <<w>> \in Seq(Wires)
  OBVIOUS
<1>7. <<Wire("assistant", IdsOf(m, "use"), <<>>)>> \in Seq(Wires)
      /\ <<Wire(m.role, <<>>, <<>>)>> \in Seq(Wires)
  BY <1>3, <1>6
<1> HIDE DEF tools
<1> QED
  BY <1>4, <1>5, <1>7

\* The sequences that FlattenSeq joins for the OpenAI format.
OpenAIParts(msgs) ==
    <<<<Wire("system", <<>>, <<>>)>>>> \o [i \in DOMAIN msgs |-> OpenAIMessage(msgs[i])]

\* There is one such sequence per message, behind the system's.
LEMMA OpenAIPartsType ==
  ASSUME NEW msgs \in Seq(Message)
  PROVE  /\ OpenAIParts(msgs) \in Seq(Seq(Wires)) /\ Len(OpenAIParts(msgs)) = Len(msgs) + 1
         /\ OpenAIParts(msgs)[1] = <<Wire("system", <<>>, <<>>)>>
         /\ \A i \in 1 .. Len(msgs) : OpenAIParts(msgs)[i + 1] = OpenAIMessage(msgs[i])
<1> DEFINE sys == <<Wire("system", <<>>, <<>>)>>
           rest == [i \in DOMAIN msgs |-> OpenAIMessage(msgs[i])]
<1>1. sys \in Seq(Wires)
  <2>1. <<>> \in Seq(Seq(Nat))
    OBVIOUS
  <2>2. Wire("system", <<>>, <<>>) \in Wires
    BY <2>1, WireType
  <2> QED
    BY <2>2
<1>2. /\ Len(msgs) \in Nat /\ DOMAIN msgs = 1 .. Len(msgs)
      /\ \A i \in DOMAIN msgs : OpenAIMessage(msgs[i]) \in Seq(Wires)
  BY OpenAIType
<1>3. /\ rest \in Seq(Seq(Wires)) /\ Len(rest) = Len(msgs) /\ Len(msgs) \in Nat
      /\ \A i \in 1 .. Len(msgs) : rest[i] = OpenAIMessage(msgs[i])
  BY <1>2
<1>4. OpenAIParts(msgs) = <<sys>> \o rest
  BY DEF OpenAIParts
<1> HIDE DEF sys, rest
<1>5. /\ <<sys>> \in Seq(Seq(Wires)) /\ Len(<<sys>>) = 1 /\ <<sys>>[1] = sys
  BY <1>1
<1>6. /\ <<sys>> \o rest \in Seq(Seq(Wires)) /\ Len(<<sys>> \o rest) = 1 + Len(msgs)
      /\ \A i \in 1 .. 1 + Len(msgs) :
           (<<sys>> \o rest)[i] = IF i <= 1 THEN <<sys>>[i] ELSE rest[i - 1]
  BY <1>3, <1>5, ConcatProperties
<1> QED
  BY <1>3, <1>4, <1>5, <1>6 DEF sys

\* A message more is sent behind the others.
LEMMA OpenAIAppend ==
  ASSUME NEW msgs \in Seq(Message), NEW m \in Message
  PROVE  OpenAIMessages(Append(msgs, m)) = OpenAIMessages(msgs) \o OpenAIMessage(m)
<1> DEFINE a == Append(msgs, m)
           p == OpenAIParts(msgs)
           q == OpenAIParts(a)
           e == OpenAIMessage(m)
<1>1. /\ a \in Seq(Message) /\ Len(a) = Len(msgs) + 1
      /\ Len(msgs) \in Nat /\ a[Len(msgs) + 1] = m
      /\ \A i \in 1 .. Len(msgs) : a[i] = msgs[i]
  OBVIOUS
<1> HIDE DEF a
<1>2. /\ p \in Seq(Seq(Wires)) /\ Len(p) = Len(msgs) + 1
      /\ p[1] = <<Wire("system", <<>>, <<>>)>>
      /\ \A i \in 1 .. Len(msgs) : p[i + 1] = OpenAIMessage(msgs[i])
  BY OpenAIPartsType
<1>3. /\ q \in Seq(Seq(Wires)) /\ Len(q) = Len(msgs) + 2
      /\ q[1] = <<Wire("system", <<>>, <<>>)>>
      /\ \A i \in 1 .. Len(msgs) + 1 : q[i + 1] = OpenAIMessage(a[i])
  <2>1. /\ q \in Seq(Seq(Wires)) /\ Len(q) = Len(a) + 1
        /\ q[1] = <<Wire("system", <<>>, <<>>)>>
        /\ \A i \in 1 .. Len(a) : q[i + 1] = OpenAIMessage(a[i])
    BY <1>1, OpenAIPartsType
  <2> HIDE DEF q
  <2> QED
    BY <1>1, <2>1
<1>4. e \in Seq(Wires)
  BY OpenAIType
<1> HIDE DEF p, q
<1>5. \A i \in 1 .. Len(p) : q[i] = p[i]
  <2> SUFFICES ASSUME NEW i \in 1 .. Len(msgs) + 1 PROVE q[i] = p[i]
    BY <1>2
  <2>1. CASE i = 1
    BY <1>2, <1>3, <2>1
  <2>2. CASE i # 1
    <3>1. i - 1 \in 1 .. Len(msgs) /\ i - 1 \in 1 .. Len(msgs) + 1 /\ (i - 1) + 1 = i
      BY <1>1, <2>2
    <3>2. q[(i - 1) + 1] = OpenAIMessage(a[i - 1])
      BY <1>3, <3>1
    <3>3. p[(i - 1) + 1] = OpenAIMessage(msgs[i - 1])
      BY <1>2, <3>1
    <3>4. a[i - 1] = msgs[i - 1]
      BY <1>1, <3>1
    <3> QED
      BY <3>1, <3>2, <3>3, <3>4
  <2> QED
    BY <2>1, <2>2
<1>6. q[Len(p) + 1] = e
  <2>1. q[(Len(msgs) + 1) + 1] = OpenAIMessage(a[Len(msgs) + 1])
    BY <1>1, <1>3
  <2> QED
    BY <1>1, <1>2, <2>1
<1> HIDE DEF e
<1>7. q = Append(p, e)
  <2>1. /\ Append(p, e) \in Seq(Seq(Wires)) /\ Len(Append(p, e)) = Len(p) + 1
        /\ \A i \in 1 .. Len(p) : Append(p, e)[i] = p[i]
        /\ Append(p, e)[Len(p) + 1] = e
    BY <1>2, <1>4, AppendProperties
  <2>2. Len(q) = Len(p) + 1 /\ Len(p) \in Nat
    BY <1>1, <1>2, <1>3
  <2>3. \A i \in 1 .. Len(q) : q[i] = Append(p, e)[i]
    <3> SUFFICES ASSUME NEW i \in 1 .. Len(p) + 1 PROVE q[i] = Append(p, e)[i]
      BY <2>2
    <3>1. CASE i = Len(p) + 1
      BY <1>6, <2>1, <3>1
    <3>2. CASE i \in 1 .. Len(p)
      BY <1>5, <2>1, <3>2
    <3> QED
      BY <2>2, <3>1, <3>2
  <2> QED
    BY <1>3, <2>1, <2>2, <2>3, SeqEqual
<1>8. FlattenSeq(q) = FlattenSeq(p) \o e
  BY <1>2, <1>4, <1>7, FlattenAppend
<1> QED
  BY <1>8 DEF a, p, q, e, OpenAIParts, OpenAIMessages

\* Either format sends messages.
LEMMA MessagesType ==
  ASSUME NEW p \in LLMs, NEW msgs \in Seq(Message)
  PROVE  Messages(p, msgs) \in Seq(Wires)
<1>1. OpenAIMessages(msgs) \in Seq(Wires)
  BY OpenAIPartsType, FlattenType DEF OpenAIMessages, OpenAIParts
<1> QED
  BY <1>1, AnthropicType DEF Messages

\* What one message becomes.
Sent(p, m) == IF p = "anthropic" THEN <<AnthropicMessage(m)>> ELSE OpenAIMessage(m)

\* In either format, what a message becomes is sent behind the others.
LEMMA MessagesAppend ==
  ASSUME NEW p \in LLMs, NEW msgs \in Seq(Message), NEW m \in Message
  PROVE  /\ Messages(p, Append(msgs, m)) = Messages(p, msgs) \o Sent(p, m)
         /\ Sent(p, m) \in Seq(Wires)
<1>1. CASE p = "anthropic"
  <2> DEFINE v == AnthropicMessages(msgs)
             w == AnthropicMessages(Append(msgs, m))
             e == AnthropicMessage(m)
  <2>1. /\ Append(msgs, m) \in Seq(Message) /\ Len(Append(msgs, m)) = Len(msgs) + 1
        /\ Len(msgs) \in Nat /\ Append(msgs, m)[Len(msgs) + 1] = m
        /\ \A i \in 1 .. Len(msgs) : Append(msgs, m)[i] = msgs[i]
    OBVIOUS
  <2>2. /\ v \in Seq(Wires) /\ Len(v) = Len(msgs)
        /\ \A i \in 1 .. Len(msgs) : v[i] = AnthropicMessage(msgs[i])
    BY AnthropicType
  <2>3. /\ w \in Seq(Wires) /\ Len(w) = Len(msgs) + 1
        /\ \A i \in 1 .. Len(msgs) + 1 : w[i] = AnthropicMessage(Append(msgs, m)[i])
        /\ \A i \in 1 .. Len(msgs) + 1 : AnthropicMessage(Append(msgs, m)[i]) \in Wires
    BY <2>1, AnthropicType
  <2>4. e \in Wires /\ w[Len(msgs) + 1] = e
    BY <2>1, <2>3
  <2> HIDE DEF v, w, e
  <2>5. \A i \in 1 .. Len(msgs) : w[i] = v[i]
    BY <2>1, <2>2, <2>3
  <2>6. w = Append(v, e)
    <3>1. /\ Append(v, e) \in Seq(Wires) /\ Len(Append(v, e)) = Len(v) + 1
          /\ \A i \in 1 .. Len(v) : Append(v, e)[i] = v[i]
          /\ Append(v, e)[Len(v) + 1] = e
      BY <2>2, <2>4, AppendProperties
    <3>2. \A i \in 1 .. Len(w) : w[i] = Append(v, e)[i]
      <4> SUFFICES ASSUME NEW i \in 1 .. Len(msgs) + 1 PROVE w[i] = Append(v, e)[i]
        BY <2>3
      <4>1. CASE i = Len(msgs) + 1
        BY <2>2, <2>4, <3>1, <4>1
      <4>2. CASE i \in 1 .. Len(msgs)
        BY <2>2, <2>5, <3>1, <4>2
      <4>3. i = Len(msgs) + 1 \/ i \in 1 .. Len(msgs)
        BY <2>1
      <4> QED
        BY <4>1, <4>2, <4>3
    <3> QED
      BY <2>2, <2>3, <3>1, <3>2, SeqEqual
  <2>7. w = v \o <<e>> /\ <<e>> \in Seq(Wires)
    BY <2>2, <2>4, <2>6, AppendIsConcat
  <2> QED
    BY <1>1, <2>7 DEF v, w, e, Messages, Sent
<1>2. CASE p # "anthropic"
  BY <1>2, OpenAIAppend, OpenAIType DEF Messages, Sent
<1> QED
  BY <1>1, <1>2

-----------------------------------------------------------------------------
(* What both services ask for *)

\* A set of numbers has a least one.
LEMMA LeastExists ==
  ASSUME NEW S \in SUBSET Nat, S # {} PROVE \E m \in S : \A k \in S : m <= k
<1>1. PICK m \in S : \A y \in S : ~(<<y, m>> \in OpToRel(<, Nat))
  BY NatLessThanWellFounded, WFMin
<1>2. \A i, j \in Nat : i < j => <<i, j>> \in OpToRel(<, Nat)
  BY DEF OpToRel
<1>3. \A k \in S : ~(k < m) /\ k \in Nat /\ m \in Nat
  BY <1>1, <1>2
<1>4. \A k \in S : m <= k
  BY <1>3
<1> QED
  BY <1>4

OtherAfter(w, i) == {j \in i + 1 .. Len(w) : w[j].results = <<>>}
LastAfter(w, i) ==
    IF OtherAfter(w, i) = {} THEN Len(w)
    ELSE (CHOOSE j \in OtherAfter(w, i) : \A k \in OtherAfter(w, i) : j <= k) - 1

\* ResultsAfter joins the results up to the last of them.
LEMMA ResultsAfterIs ==
  ASSUME NEW w, NEW i
  PROVE  ResultsAfter(w, i) = FlattenSeq([j \in 1 .. LastAfter(w, i) - i |-> w[i + j].results])
  BY DEF ResultsAfter, LastAfter, OtherAfter

\* The last of the results after a message, by what it is.
LEMMA LastAfterIs ==
  ASSUME NEW w \in Seq(Wires), NEW i \in 1 .. Len(w), NEW m \in i .. Len(w),
         \A j \in i + 1 .. m : w[j].results # <<>>,
         m < Len(w) => w[m + 1].results = <<>>
  PROVE  LastAfter(w, i) = m
<1> DEFINE O == OtherAfter(w, i)
           n == Len(w)
<1>1. n \in Nat /\ i \in Nat /\ m \in Nat /\ i <= m /\ m <= n
  OBVIOUS
<1>2. \A j \in Nat : j \in O <=> j \in i + 1 .. n /\ w[j].results = <<>>
  BY <1>1 DEF OtherAfter
<1>3. O \in SUBSET Nat
  BY <1>1 DEF OtherAfter
<1> HIDE DEF O
<1>4. CASE m = n
  <2>1. O = {}
    BY <1>1, <1>2, <1>3, <1>4
  <2> QED
    BY <1>4, <2>1 DEF LastAfter, O
<1>5. CASE m < n
  <2>1. m + 1 \in O
    BY <1>1, <1>2, <1>5
  <2>2. \A j \in O : m + 1 <= j
    BY <1>1, <1>2, <1>3
  <2> DEFINE least == CHOOSE j \in O : \A k \in O : j <= k
  <2>3. least \in O /\ \A k \in O : least <= k
    BY <2>1, <2>2
  <2> HIDE DEF least
  <2>4. least = m + 1
    <3>1. least \in Nat /\ least <= m + 1 /\ m + 1 <= least
      BY <1>3, <2>1, <2>2, <2>3
    <3> QED
      BY <1>1, <3>1
  <2>5. LastAfter(w, i) = least - 1
    BY <2>1 DEF LastAfter, O, least
  <2> QED
    BY <1>1, <2>4, <2>5
<1> QED
  BY <1>1, <1>4, <1>5

\* There is such a last one.
LEMMA LastAfterType ==
  ASSUME NEW w \in Seq(Wires), NEW i \in 1 .. Len(w)
  PROVE  \E m \in i .. Len(w) :
            /\ \A j \in i + 1 .. m : w[j].results # <<>>
            /\ m < Len(w) => w[m + 1].results = <<>>
<1> DEFINE O == OtherAfter(w, i)
           n == Len(w)
<1>1. n \in Nat /\ i \in Nat /\ i <= n
  OBVIOUS
<1>2. \A j \in Nat : j \in O <=> j \in i + 1 .. n /\ w[j].results = <<>>
  BY <1>1 DEF OtherAfter
<1>3. O \in SUBSET Nat
  BY <1>1 DEF OtherAfter
<1> HIDE DEF O
<1>4. CASE O = {}
  <2>1. n \in i .. n /\ \A j \in i + 1 .. n : w[j].results # <<>>
    BY <1>1, <1>2, <1>4
  <2> QED
    BY <1>1, <2>1
<1>5. CASE O # {}
  <2>1. PICK l \in O : \A k \in O : l <= k
    BY <1>3, <1>5, LeastExists
  <2>2. l \in i + 1 .. n /\ w[l].results = <<>>
    BY <1>2, <1>3, <2>1
  <2>3. l - 1 \in i .. n /\ (l - 1) + 1 = l
    BY <1>1, <2>2
  <2>4. ASSUME NEW j \in i + 1 .. l - 1 PROVE w[j].results # <<>>
    <3>1. j \in Nat /\ j \in i + 1 .. n /\ ~(l <= j)
      BY <1>1, <2>2
    <3> QED
      BY <1>2, <2>1, <3>1
  <2> QED
    BY <2>2, <2>3, <2>4
<1> QED
  BY <1>4, <1>5

\* A message that is no result changes nothing for the messages before it.
LEMMA ResultsAfterMore ==
  ASSUME NEW w \in Seq(Wires), NEW t \in Seq(Wires), t # <<>>, t[1].results = <<>>,
         NEW i \in 1 .. Len(w)
  PROVE  ResultsAfter(w \o t, i) = ResultsAfter(w, i)
<1> DEFINE v == w \o t
           n == Len(w)
<1>1. /\ v \in Seq(Wires) /\ Len(v) = n + Len(t) /\ n \in Nat /\ Len(t) \in Nat /\ Len(t) > 0
      /\ \A j \in 1 .. n : v[j] = w[j]
      /\ v[n + 1] = t[1]
  OBVIOUS
<1> HIDE DEF v
<1>2. PICK m \in i .. n :
        /\ \A j \in i + 1 .. m : w[j].results # <<>>
        /\ m < n => w[m + 1].results = <<>>
  BY LastAfterType
<1>3. LastAfter(w, i) = m
  BY <1>2, LastAfterIs
<1>4. LastAfter(v, i) = m
  <2>1. i \in 1 .. Len(v) /\ m \in i .. Len(v)
    BY <1>1
  <2>2. \A j \in i + 1 .. m : v[j].results # <<>>
    BY <1>1, <1>2
  <2>3. v[m + 1].results = <<>>
    <3>1. CASE m < n
      <4>1. m + 1 \in 1 .. n
        BY <1>1, <3>1
      <4> QED
        BY <1>1, <1>2, <3>1, <4>1
    <3>2. CASE m = n
      BY <1>1, <3>2
    <3> QED
      BY <1>1, <3>1, <3>2
  <2> QED
    BY <1>1, <2>1, <2>2, <2>3, LastAfterIs
<1>5. [j \in 1 .. m - i |-> v[i + j].results] = [j \in 1 .. m - i |-> w[i + j].results]
  <2>1. \A j \in 1 .. m - i : i + j \in 1 .. n
    BY <1>1
  <2> QED
    BY <1>1, <2>1
<1> QED
  BY <1>3, <1>4, <1>5, ResultsAfterIs DEF v

\* A turn: a message of the assistant and the answers to its calls.
IsTurn(t) ==
    /\ Len(t) >= 2 /\ t[Len(t)].role # "assistant"
    /\ t[1].results = <<>> /\ IsInjective(t[1].uses)
    /\ \A j \in 2 .. Len(t) :
         t[j].uses = <<>> /\ (t[j].results = <<>> <=> t[1].uses = <<>>)
    /\ t[1].uses # <<>> =>
         FlattenSeq([j \in 1 .. Len(t) - 1 |-> t[1 + j].results]) = t[1].uses

\* A turn behind well-formed messages leaves them well-formed.
LEMMA WellFormedTurn ==
  ASSUME NEW w \in Seq(Wires), WellFormed(w), NEW t \in Seq(Wires), IsTurn(t)
  PROVE  WellFormed(w \o t)
<1> DEFINE v == w \o t
           n == Len(w)
           k == Len(t)
<1>1. /\ v \in Seq(Wires) /\ Len(v) = n + k /\ n \in Nat /\ k \in Nat
      /\ \A j \in 1 .. n : v[j] = w[j]
      /\ \A j \in 1 .. k : v[n + j] = t[j]
  OBVIOUS
<1>2. /\ k >= 2 /\ t[k].role # "assistant" /\ t[1].results = <<>>
      /\ IsInjective(t[1].uses)
      /\ \A j \in 2 .. k : t[j].uses = <<>> /\ (t[j].results = <<>> <=> t[1].uses = <<>>)
      /\ t[1].uses # <<>> =>
           FlattenSeq([j \in 1 .. k - 1 |-> t[1 + j].results]) = t[1].uses
  BY DEF IsTurn
<1>3. \A i \in 1 .. n : ResultsAfter(v, i) = ResultsAfter(w, i)
  <2>1. t # <<>>
    BY <1>2
  <2> QED
    BY <1>2, <2>1, ResultsAfterMore
<1> HIDE DEF v
<1>4. v # <<>> /\ v[Len(v)].role # "assistant"
  BY <1>1, <1>2
<1>5. ASSUME NEW i \in 1 .. n
      PROVE  /\ IsInjective(v[i].uses)
             /\ v[i].uses # <<>> => ResultsAfter(v, i) = v[i].uses
             /\ v[i].results # <<>> =>
                  i > 1 /\ (v[i - 1].uses # <<>> \/ v[i - 1].results # <<>>)
  <2>1. v[i] = w[i] /\ ResultsAfter(v, i) = ResultsAfter(w, i)
    BY <1>1, <1>3
  <2>2. /\ IsInjective(w[i].uses)
        /\ w[i].uses # <<>> => ResultsAfter(w, i) = w[i].uses
        /\ w[i].results # <<>> =>
             i > 1 /\ (w[i - 1].uses # <<>> \/ w[i - 1].results # <<>>)
    <3>1. i \in DOMAIN w
      OBVIOUS
    <3> QED
      BY <3>1 DEF WellFormed
  <2>3. i > 1 => v[i - 1] = w[i - 1]
    <3>1. i > 1 => i - 1 \in 1 .. n
      BY <1>1
    <3> QED
      BY <1>1, <3>1
  <2> QED
    BY <2>1, <2>2, <2>3
<1>6. /\ IsInjective(v[n + 1].uses) /\ v[n + 1].results = <<>>
      /\ v[n + 1].uses # <<>> => ResultsAfter(v, n + 1) = v[n + 1].uses
  <2>1. v[n + 1] = t[1]
    BY <1>1, <1>2
  <2>2. ASSUME t[1].uses # <<>> PROVE ResultsAfter(v, n + 1) = t[1].uses
    <3>1. n + 1 \in 1 .. Len(v) /\ Len(v) \in n + 1 .. Len(v)
      BY <1>1, <1>2
    <3>2. ASSUME NEW j \in (n + 1) + 1 .. Len(v) PROVE v[j].results # <<>>
      <4>1. j - n \in 1 .. k /\ j - n \in 2 .. k /\ n + (j - n) = j
        BY <1>1
      <4>2. v[j] = t[j - n]
        BY <1>1, <4>1
      <4> QED
        BY <1>2, <2>2, <4>1, <4>2
    <3>3. LastAfter(v, n + 1) = Len(v)
      <4> DEFINE a == n + 1
                 z == Len(v)
      <4>1. a \in 1 .. Len(v) /\ z \in a .. Len(v) /\ ~(z < Len(v))
        BY <1>1, <3>1
      <4>2. \A j \in a + 1 .. z : v[j].results # <<>>
        BY <3>2
      <4> HIDE DEF a, z
      <4>3. LastAfter(v, a) = z
        BY <1>1, <4>1, <4>2, LastAfterIs
      <4> QED
        BY <4>3 DEF a, z
    <3>4. Len(v) - (n + 1) = k - 1
      BY <1>1
    <3>5. \A j \in 1 .. k - 1 : v[(n + 1) + j] = t[1 + j]
      <4> SUFFICES ASSUME NEW j \in 1 .. k - 1 PROVE v[(n + 1) + j] = t[1 + j]
        OBVIOUS
      <4>1. 1 + j \in 1 .. k /\ (n + 1) + j = n + (1 + j)
        BY <1>1
      <4> QED
        BY <1>1, <4>1
    <3>6. [j \in 1 .. k - 1 |-> v[(n + 1) + j].results] = [j \in 1 .. k - 1 |-> t[1 + j].results]
      BY <3>5
    <3> QED
      BY <1>2, <2>2, <3>3, <3>4, <3>6, ResultsAfterIs
  <2> QED
    BY <1>2, <2>1, <2>2
<1>7. ASSUME NEW i \in n + 2 .. Len(v)
      PROVE  /\ v[i].uses = <<>>
             /\ v[i].results # <<>> =>
                  i > 1 /\ (v[i - 1].uses # <<>> \/ v[i - 1].results # <<>>)
  <2>1. /\ i - n \in 2 .. k /\ i - n \in 1 .. k /\ n + (i - n) = i /\ i > 1
        /\ (i - n) - 1 \in 1 .. k /\ n + ((i - n) - 1) = i - 1
        /\ (i - n) - 1 = 1 \/ (i - n) - 1 \in 2 .. k
    BY <1>1
  <2>2. v[i] = t[i - n] /\ v[i - 1] = t[(i - n) - 1]
    BY <1>1, <2>1
  <2> QED
    BY <1>2, <2>1, <2>2
<1>8. IsInjective(<<>>)
  BY DEF IsInjective
<1>9. \A i \in DOMAIN v : i \in 1 .. n \/ i = n + 1 \/ i \in n + 2 .. Len(v)
  BY <1>1
<1>10. ASSUME NEW i \in DOMAIN v
       PROVE  /\ IsInjective(v[i].uses)
              /\ v[i].uses # <<>> => ResultsAfter(v, i) = v[i].uses
              /\ v[i].results # <<>> =>
                   i > 1 /\ (v[i - 1].uses # <<>> \/ v[i - 1].results # <<>>)
  <2>1. CASE i \in 1 .. n
    BY <1>5, <2>1
  <2>2. CASE i = n + 1
    BY <1>6, <2>2
  <2>3. CASE i \in n + 2 .. Len(v)
    BY <1>7, <1>8, <2>3
  <2> QED
    BY <1>9, <2>1, <2>2, <2>3
<1>11. WellFormed(v)
  BY <1>4, <1>10 DEF WellFormed
<1> QED
  BY <1>11 DEF v

\* A message with calls and the messages with their results, in order, are a
\* turn.
LEMMA TurnIs ==
  ASSUME NEW a \in Wires, NEW rest \in Seq(Wires), rest # <<>>,
         a.results = <<>>, IsInjective(a.uses),
         \A j \in 1 .. Len(rest) :
            /\ rest[j].uses = <<>> /\ rest[j].role # "assistant"
            /\ rest[j].results = <<>> <=> a.uses = <<>>,
         a.uses # <<>> => FlattenSeq([j \in 1 .. Len(rest) |-> rest[j].results]) = a.uses
  PROVE  IsTurn(<<a>> \o rest)
<1> DEFINE t == <<a>> \o rest
           k == Len(rest)
<1>1. /\ Len(t) = k + 1 /\ k \in Nat /\ k > 0 /\ t[1] = a
      /\ \A j \in 1 .. k : t[1 + j] = rest[j]
  <2>1. <<a>> \in Seq(Wires) /\ Len(<<a>>) = 1 /\ <<a>>[1] = a
    OBVIOUS
  <2>2. /\ Len(t) = 1 + k
        /\ \A j \in 1 .. 1 + k : t[j] = IF j <= 1 THEN <<a>>[j] ELSE rest[j - 1]
    BY <2>1, ConcatProperties
  <2>3. k \in Nat /\ k > 0
    OBVIOUS
  <2> HIDE DEF t, k
  <2>4. t[1] = a
    BY <2>1, <2>2, <2>3
  <2>5. ASSUME NEW j \in 1 .. k PROVE t[1 + j] = rest[j]
    <3>1. 1 + j \in 1 .. 1 + k /\ ~(1 + j <= 1) /\ (1 + j) - 1 = j
      BY <2>3
    <3> QED
      BY <2>2, <3>1
  <2> QED
    BY <2>2, <2>3, <2>4, <2>5
<1>2. Len(t) - 1 = k
  BY <1>1
<1> HIDE DEF t
<1>3. ASSUME NEW j \in 2 .. Len(t)
      PROVE  t[j].uses = <<>> /\ (t[j].results = <<>> <=> t[1].uses = <<>>)
             /\ t[j].role # "assistant"
  <2>1. j - 1 \in 1 .. k /\ 1 + (j - 1) = j
    BY <1>1
  <2>2. t[j] = rest[j - 1]
    BY <1>1, <2>1
  <2> QED
    BY <1>1, <2>1, <2>2
<1>4. t[Len(t)].role # "assistant"
  BY <1>1, <1>3
<1>5. [j \in 1 .. k |-> t[1 + j].results] = [j \in 1 .. k |-> rest[j].results]
  BY <1>1
<1>6. t[1].uses # <<>> =>
        FlattenSeq([j \in 1 .. Len(t) - 1 |-> t[1 + j].results]) = t[1].uses
  BY <1>1, <1>2, <1>5
<1>7. Len(t) >= 2 /\ t[1].results = <<>> /\ IsInjective(t[1].uses)
  BY <1>1
<1> QED
  BY <1>3, <1>4, <1>6, <1>7 DEF IsTurn, t

\* No blocks have no ids.
LEMMA IdsNone == Ids(<<>>) = <<>>
<1>1. <<>> \in Seq(Block) /\ Len(<<>>) = 0
  OBVIOUS
<1>2. Ids(<<>>) \in Seq(Seq(Nat)) /\ Len(Ids(<<>>)) = 0
  BY <1>1, IdsType
<1> QED
  BY <1>2

\* One sequence joined is itself.
LEMMA FlattenOne ==
  ASSUME NEW S, NEW x \in Seq(S), NEW s, s = [j \in 1 .. 1 |-> x]
  PROVE  FlattenSeq(s) = x
<1>1. s \in Seq(Seq(S)) /\ Len(s) = 1 /\ s[1] = x
  OBVIOUS
<1>2. FlattenSeq(s) = Joined(s)[Len(s)]
  <2>1. Len(s) # 0
    BY <1>1
  <2> QED
    BY <2>1, FlattenIsJoined
<1>3. Joined(s)[1] = s[1]
  BY <1>1, JoinedIs
<1> QED
  BY <1>1, <1>2, <1>3

\* In either format the message with the calls and the one with their results
\* are a turn.
LEMMA SentTurn ==
  ASSUME NEW p \in LLMs, NEW a \in Message, NEW b \in Message,
         a.role = "assistant", b.role = "user",
         \A i \in DOMAIN a.blocks : a.blocks[i].kind # "result",
         \A i \in DOMAIN b.blocks : b.blocks[i].kind = "result",
         Ids(b.blocks) = IdsOf(a, "use"), IsInjective(IdsOf(a, "use"))
  PROVE  IsTurn(Sent(p, a) \o Sent(p, b))
<1> DEFINE ids == IdsOf(a, "use")
<1>1. a.blocks \in Seq(Block) /\ b.blocks \in Seq(Block)
  BY DEF Message
<1>2. IdsOf(a, "result") = <<>>
  BY <1>1, OfKindNone, IdsNone DEF IdsOf
<1>3. IdsOf(b, "use") = <<>>
  <2>1. \A i \in DOMAIN b.blocks : b.blocks[i].kind # "use"
    OBVIOUS
  <2>2. OfKind(b.blocks, "use") = <<>>
    BY <1>1, <2>1, OfKindNone
  <2> QED
    BY <2>2, IdsNone DEF IdsOf
<1>4. IdsOf(b, "result") = ids
  BY <1>1, OfKindAll DEF IdsOf
<1>5. /\ ids \in Seq(Seq(Nat)) /\ Len(ids) = Len(b.blocks) /\ IsInjective(ids)
      /\ <<>> \in Seq(Seq(Nat))
  BY <1>1, IdsOfType, IdsType
<1> HIDE DEF ids
<1>6. CASE p = "anthropic"
  <2> DEFINE u == AnthropicMessage(a)
             v == AnthropicMessage(b)
  <2>1. u \in Wires /\ u.uses = ids /\ u.results = <<>>
    <3>1. u = Wire("assistant", ids, <<>>)
      BY <1>2 DEF AnthropicMessage, ids
    <3> HIDE DEF u
    <3>2. u \in Wires
      BY <1>5, <3>1, WireType
    <3> QED
      BY <3>1, <3>2, WireFields
  <2>2. v \in Wires /\ v.role = "user" /\ v.uses = <<>> /\ v.results = ids
    <3>1. v = Wire("user", <<>>, ids)
      BY <1>3, <1>4 DEF AnthropicMessage
    <3> HIDE DEF v
    <3>2. v \in Wires
      BY <1>5, <3>1, WireType
    <3> QED
      BY <3>1, <3>2, WireFields
  <2>3. Sent(p, a) = <<u>> /\ Sent(p, b) = <<v>>
    BY <1>6 DEF Sent
  <2> HIDE DEF u, v
  <2> DEFINE rest == <<v>>
  <2>4. rest \in Seq(Wires) /\ rest # <<>> /\ Len(rest) = 1 /\ rest[1] = v
    BY <2>2
  <2> HIDE DEF rest
  <2>5. FlattenSeq([j \in 1 .. Len(rest) |-> rest[j].results]) = ids
    <3>1. [j \in 1 .. Len(rest) |-> rest[j].results] = [j \in 1 .. 1 |-> ids]
      BY <2>2, <2>4
    <3> QED
      BY <1>5, <3>1, FlattenOne
  <2>6. \A j \in 1 .. Len(rest) :
          /\ rest[j].uses = <<>> /\ rest[j].role # "assistant"
          /\ rest[j].results = <<>> <=> u.uses = <<>>
    BY <2>1, <2>2, <2>4
  <2>7. IsTurn(<<u>> \o rest)
    BY <1>5, <2>1, <2>4, <2>5, <2>6, TurnIs
  <2> QED
    BY <2>3, <2>7 DEF rest
<1>7. CASE p # "anthropic"
  <2> DEFINE u == Wire("assistant", ids, <<>>)
             rest == OpenAIMessage(b)
  <2>1. u \in Wires /\ u.uses = ids /\ u.results = <<>>
    <3>1. u \in Wires
      BY <1>5, WireType
    <3> QED
      BY <3>1, WireFields
  <2>2. Sent(p, a) = <<u>> /\ Sent(p, b) = rest
    BY <1>7 DEF Sent, OpenAIMessage, ids
  <2>3. rest \in Seq(Wires)
    BY OpenAIType
  <2>4. /\ rest # <<>>
        /\ \A j \in 1 .. Len(rest) :
             /\ rest[j].uses = <<>> /\ rest[j].role # "assistant"
             /\ rest[j].results = <<>> <=> ids = <<>>
        /\ ids # <<>> => FlattenSeq([j \in 1 .. Len(rest) |-> rest[j].results]) = ids
    <3>1. CASE b.blocks = <<>>
      <4> DEFINE w == Wire("user", <<>>, <<>>)
      <4>1. rest = <<w>>
        BY <3>1 DEF OpenAIMessage
      <4>2. w \in Wires /\ w.role = "user" /\ w.uses = <<>> /\ w.results = <<>>
        <5>1. w \in Wires
          BY <1>5, WireType
        <5> QED
          BY <5>1, WireFields
      <4>3. ids = <<>>
        BY <1>1, <1>5, <3>1
      <4> HIDE DEF w, rest
      <4>4. rest # <<>> /\ Len(rest) = 1 /\ rest[1] = w
        BY <4>1
      <4> QED
        BY <4>2, <4>3, <4>4
    <3>2. CASE b.blocks # <<>>
      <4> DEFINE tool(i) == Wire("tool", <<>>, <<ids[i]>>)
      <4>1. b.blocks[1].kind = "result"
        BY <1>1, <3>2
      <4>2. rest = [i \in DOMAIN ids |-> tool(i)]
        BY <1>4, <3>2, <4>1 DEF OpenAIMessage
      <4>3. Len(ids) \in Nat /\ DOMAIN ids = 1 .. Len(ids) /\ Len(ids) > 0 /\ ids # <<>>
        BY <1>1, <1>5, <3>2
      <4>4. ASSUME NEW i \in 1 .. Len(ids)
            PROVE  /\ tool(i).role = "tool" /\ tool(i).uses = <<>>
                   /\ tool(i).results = <<ids[i]>> /\ <<ids[i]>> \in Seq(Seq(Nat))
        <5>1. <<ids[i]>> \in Seq(Seq(Nat))
          BY <1>5
        <5> QED
          BY <5>1, WireFields
      <4> HIDE DEF tool, rest
      <4>5. Len(rest) = Len(ids) /\ \A i \in 1 .. Len(ids) : rest[i] = tool(i)
        BY <4>2, <4>3
      <4>6. /\ rest # <<>>
            /\ \A j \in 1 .. Len(rest) :
                 /\ rest[j].uses = <<>> /\ rest[j].role # "assistant"
                 /\ rest[j].results = <<ids[j]>> /\ <<ids[j]>> \in Seq(Seq(Nat))
                 /\ <<ids[j]>> # <<>>
        BY <4>3, <4>4, <4>5
      <4> DEFINE s == [j \in 1 .. Len(rest) |-> rest[j].results]
      <4>7. s \in Seq(Seq(Seq(Nat))) /\ Len(s) = Len(ids)
            /\ \A i \in 1 .. Len(ids) : s[i] = <<ids[i]>>
        <5>1. \A j \in 1 .. Len(rest) :
                 rest[j].results \in Seq(Seq(Nat)) /\ rest[j].results = <<ids[j]>>
          BY <4>6
        <5>2. Len(rest) \in Nat /\ Len(rest) = Len(ids)
          BY <4>3, <4>5
        <5> QED
          BY <5>1, <5>2
      <4> HIDE DEF s
      <4>8. FlattenSeq(s) = ids
        BY <1>5, <4>7, FlattenOnes
      <4> QED
        BY <4>3, <4>6, <4>8 DEF s
    <3> QED
      BY <3>1, <3>2
  <2> HIDE DEF u, rest
  <2>5. IsTurn(<<u>> \o rest)
    BY <1>5, <2>1, <2>3, <2>4, TurnIs
  <2> QED
    BY <2>2, <2>5
<1> QED
  BY <1>6, <1>7

\* Messages without calls and results, of which the last is not the assistant's.
Plain(msgs) ==
    /\ msgs \in Seq(Message) /\ msgs # <<>> /\ msgs[Len(msgs)].role # "assistant"
    /\ \A i \in DOMAIN msgs : msgs[i].blocks = <<TextBlock>>

\* Messages without calls and results are well-formed.
LEMMA QuietWellFormed ==
  ASSUME NEW w \in Seq(Wires), w # <<>>, w[Len(w)].role # "assistant",
         \A i \in DOMAIN w : w[i].uses = <<>> /\ w[i].results = <<>>
  PROVE  WellFormed(w)
<1>1. IsInjective(<<>>)
  BY DEF IsInjective
<1> QED
  BY <1>1 DEF WellFormed

\* A text has no ids.
LEMMA PlainIds ==
  ASSUME NEW m, m.blocks = <<TextBlock>>, NEW kind \in {"use", "result"}
  PROVE  IdsOf(m, kind) = <<>>
<1>1. <<TextBlock>> \in Seq(Block) /\ \A i \in DOMAIN <<TextBlock>> : <<TextBlock>>[i].kind # kind
  BY BlockTypes
<1>2. OfKind(<<TextBlock>>, kind) = <<>>
  BY <1>1, OfKindNone
<1> QED
  BY <1>2, IdsNone DEF IdsOf

\* The first messages of a request are well-formed in either format.
LEMMA PlainWellFormed ==
  ASSUME NEW p \in LLMs, NEW msgs, Plain(msgs)
  PROVE  WellFormed(Messages(p, msgs))
<1> DEFINE n == Len(msgs)
           last == msgs[Len(msgs)]
<1>1. /\ msgs \in Seq(Message) /\ n \in Nat /\ n > 0 /\ DOMAIN msgs = 1 .. n
      /\ last.role # "assistant" /\ <<>> \in Seq(Seq(Nat))
      /\ \A i \in 1 .. n : msgs[i].blocks = <<TextBlock>> /\ msgs[i] \in Message
  BY DEF Plain
<1>2. \A i \in 1 .. n : IdsOf(msgs[i], "use") = <<>> /\ IdsOf(msgs[i], "result") = <<>>
  BY <1>1, PlainIds
<1>3. \A i \in 1 .. n : msgs[i].role \in {"user", "assistant"}
  BY <1>1 DEF Message
<1>4. CASE p = "anthropic"
  <2> DEFINE w == AnthropicMessages(msgs)
  <2>1. /\ w \in Seq(Wires) /\ Len(w) = n
        /\ \A i \in 1 .. n : w[i] = AnthropicMessage(msgs[i])
    BY <1>1, AnthropicType
  <2>2. \A i \in 1 .. n : w[i].uses = <<>> /\ w[i].results = <<>> /\ w[i].role = msgs[i].role
    <3> HIDE DEF w, n
    <3> QED
      BY <1>2, <2>1, WireFields DEF AnthropicMessage
  <2> HIDE DEF w
  <2>3. w # <<>> /\ w[Len(w)].role # "assistant" /\ DOMAIN w = 1 .. n
    BY <1>1, <2>1, <2>2
  <2>4. WellFormed(w)
    BY <2>1, <2>2, <2>3, QuietWellFormed
  <2> QED
    BY <1>4, <2>4 DEF w, Messages
<1>5. CASE p # "anthropic"
  <2> DEFINE s == OpenAIParts(msgs)
             one(i) == IF i = 1 THEN Wire("system", <<>>, <<>>)
                       ELSE Wire(msgs[i - 1].role, <<>>, <<>>)
             x == [i \in 1 .. n + 1 |-> one(i)]
  <2>1. ASSUME NEW i \in 1 .. n + 1
        PROVE  one(i) \in Wires /\ one(i).uses = <<>> /\ one(i).results = <<>>
               /\ (i # 1 => one(i).role = msgs[i - 1].role)
    <3>1. CASE i = 1
      <4>1. one(i) = Wire("system", <<>>, <<>>) /\ Wire("system", <<>>, <<>>) \in Wires
        BY <1>1, <3>1, WireType
      <4> HIDE DEF one
      <4> QED
        BY <3>1, <4>1, WireFields
    <3>2. CASE i # 1
      <4>1. i - 1 \in 1 .. n
        BY <1>1, <3>2
      <4>2. msgs[i - 1].role \in {"user", "assistant"}
        BY <1>3, <4>1
      <4> DEFINE role == msgs[i - 1].role
      <4>3. one(i) = Wire(role, <<>>, <<>>)
        BY <3>2
      <4> HIDE DEF one, role
      <4>4. role \in {"system", "user", "assistant", "tool"}
        BY <4>2 DEF role
      <4>5. Wire(role, <<>>, <<>>) \in Wires
        BY <1>1, <4>4, WireType
      <4>6. one(i).role = role /\ one(i).uses = <<>> /\ one(i).results = <<>>
        BY <4>3, WireFields
      <4> QED
        BY <4>3, <4>5, <4>6 DEF role
    <3> QED
      BY <3>1, <3>2
  <2>2. x \in Seq(Wires) /\ Len(x) = n + 1 /\ DOMAIN x = 1 .. n + 1
        /\ \A i \in 1 .. n + 1 : x[i] = one(i)
    <3> HIDE DEF one
    <3> QED
      BY <1>1, <2>1
  <2>3. /\ s \in Seq(Seq(Wires)) /\ Len(s) = n + 1 /\ s[1] = <<Wire("system", <<>>, <<>>)>>
        /\ \A i \in 1 .. n : s[i + 1] = OpenAIMessage(msgs[i])
    BY <1>1, OpenAIPartsType
  <2>4. ASSUME NEW i \in 1 .. n PROVE OpenAIMessage(msgs[i]) = <<Wire(msgs[i].role, <<>>, <<>>)>>
    <3>1. /\ IdsOf(msgs[i], "use") = <<>> /\ msgs[i].blocks = <<TextBlock>>
      BY <1>1, <1>2
    <3>2. msgs[i].blocks[1].kind # "result"
      BY <3>1, BlockTypes
    <3> QED
      BY <3>1, <3>2 DEF OpenAIMessage
  <2> HIDE DEF s, x
  <2>5. ASSUME NEW i \in 1 .. n + 1 PROVE s[i] = <<x[i]>>
    <3>1. CASE i = 1
      BY <2>2, <2>3, <3>1
    <3>2. CASE i # 1
      <4>1. i - 1 \in 1 .. n /\ (i - 1) + 1 = i
        BY <1>1, <3>2
      <4>2. s[(i - 1) + 1] = <<Wire(msgs[i - 1].role, <<>>, <<>>)>>
        BY <2>3, <2>4, <4>1
      <4> QED
        BY <2>2, <3>2, <4>1, <4>2
    <3> QED
      BY <3>1, <3>2
  <2>6. FlattenSeq(s) = x
    BY <2>2, <2>3, <2>5, FlattenOnes
  <2>7. x[n + 1].role # "assistant" /\ x # <<>>
    <3>1. n + 1 # 1 /\ n + 1 \in 1 .. n + 1 /\ (n + 1) - 1 = n
      BY <1>1
    <3>2. x[n + 1].role = msgs[n].role
      BY <2>1, <2>2, <3>1
    <3> QED
      BY <1>1, <2>2, <3>1, <3>2
  <2>8. WellFormed(x)
    <3> HIDE DEF one
    <3> QED
      BY <2>1, <2>2, <2>7, QuietWellFormed
  <2> QED
    BY <1>5, <2>6, <2>8 DEF s, OpenAIParts, OpenAIMessages, Messages
<1> QED
  BY <1>4, <1>5

-----------------------------------------------------------------------------
(* The calls of the responses *)

CallsOf(msgs) ==
    GetToolCalls(FlattenSeq([i \in DOMAIN msgs |-> msgs[i].blocks]))

\* The length of a sequence, from its indices.
LEMMA LenIs ==
  ASSUME NEW S, NEW s \in Seq(S), NEW n \in Nat, DOMAIN s = 1 .. n
  PROVE  Len(s) = n
<1>1. DOMAIN s = 1 .. Len(s) /\ Len(s) \in Nat
  BY LenProperties
<1> DEFINE m == Len(s)
<1>2. m \in Nat /\ 1 .. m = 1 .. n
  BY <1>1
<1> HIDE DEF m
<1>3. \A i \in Nat \ {0} : i \in 1 .. m <=> i \in 1 .. n
  BY <1>2
<1>4. m = n
  <2>1. m >= n
    BY <1>2, <1>3
  <2>2. n >= m
    BY <1>2, <1>3
  <2> QED
    BY <1>2, <2>1, <2>2
<1> QED
  BY <1>4 DEF m

\* The calls of messages are blocks.
LEMMA CallsType ==
  ASSUME NEW msgs \in Seq(Message)
  PROVE  /\ [i \in DOMAIN msgs |-> msgs[i].blocks] \in Seq(Seq(Block))
         /\ CallsOf(msgs) \in Seq(Block)
<1>1. \A m \in Message : m.blocks \in Seq(Block)
  BY DEF Message
<1>2. /\ Len(msgs) \in Nat /\ DOMAIN msgs = 1 .. Len(msgs)
      /\ \A i \in DOMAIN msgs : msgs[i].blocks \in Seq(Block)
  BY <1>1
<1> DEFINE s == [i \in DOMAIN msgs |-> msgs[i].blocks]
<1>3. s \in Seq(Seq(Block))
  BY <1>2
<1> HIDE DEF s
<1>4. FlattenSeq(s) \in Seq(Block)
  BY <1>3, FlattenType
<1>5. GetToolCalls(FlattenSeq(s)) \in Seq(Block)
  BY <1>4, OfKindType DEF GetToolCalls
<1> QED
  BY <1>3, <1>5 DEF s, CallsOf

\* A message more adds its calls behind the others.
LEMMA CallsAppend ==
  ASSUME NEW msgs \in Seq(Message), NEW m \in Message
  PROVE  CallsOf(Append(msgs, m)) = CallsOf(msgs) \o GetToolCalls(m.blocks)
<1> DEFINE a == Append(msgs, m)
           s == [i \in DOMAIN msgs |-> msgs[i].blocks]
           t == [i \in DOMAIN a |-> a[i].blocks]
           e == m.blocks
<1>1. /\ a \in Seq(Message) /\ Len(a) = Len(msgs) + 1 /\ Len(msgs) \in Nat
      /\ a[Len(msgs) + 1] = m /\ \A i \in 1 .. Len(msgs) : a[i] = msgs[i]
  OBVIOUS
<1> HIDE DEF a
<1>2. s \in Seq(Seq(Block)) /\ Len(s) = Len(msgs)
      /\ \A i \in 1 .. Len(msgs) : s[i] = msgs[i].blocks
  BY CallsType
<1>3. t \in Seq(Seq(Block)) /\ Len(t) = Len(a)
      /\ \A i \in 1 .. Len(a) : t[i] = a[i].blocks
  <2>1. t \in Seq(Seq(Block))
    BY <1>1, CallsType
  <2>2. DOMAIN t = DOMAIN a /\ \A i \in DOMAIN a : t[i] = a[i].blocks
    OBVIOUS
  <2>3. DOMAIN a = 1 .. Len(a) /\ Len(a) \in Nat
    BY <1>1
  <2> HIDE DEF t
  <2> QED
    BY <2>1, <2>2, <2>3, LenIs
<1>4. e \in Seq(Block)
  BY DEF Message
<1> HIDE DEF s, t, e
<1>5. t = Append(s, e)
  <2>1. /\ Append(s, e) \in Seq(Seq(Block)) /\ Len(Append(s, e)) = Len(s) + 1
        /\ \A i \in 1 .. Len(s) : Append(s, e)[i] = s[i]
        /\ Append(s, e)[Len(s) + 1] = e
    BY <1>2, <1>4, AppendProperties
  <2>2. ASSUME NEW i \in 1 .. Len(t) PROVE t[i] = Append(s, e)[i]
    <3>1. i \in 1 .. Len(msgs) \/ i = Len(msgs) + 1
      BY <1>1, <1>3
    <3>2. t[i] = a[i].blocks
      BY <1>3
    <3>3. CASE i \in 1 .. Len(msgs)
      BY <1>1, <1>2, <2>1, <3>2, <3>3
    <3>4. CASE i = Len(msgs) + 1
      BY <1>1, <1>2, <2>1, <3>2, <3>4 DEF e
    <3> QED
      BY <3>1, <3>3, <3>4
  <2> QED
    BY <1>1, <1>2, <1>3, <2>1, <2>2, SeqEqual
<1>6. FlattenSeq(t) = FlattenSeq(s) \o e /\ FlattenSeq(s) \in Seq(Block)
  BY <1>2, <1>4, <1>5, FlattenAppend, FlattenType
<1>7. GetToolCalls(FlattenSeq(t)) = GetToolCalls(FlattenSeq(s)) \o GetToolCalls(e)
  BY <1>4, <1>6, OfKindConcat DEF GetToolCalls
<1> QED
  BY <1>7 DEF CallsOf, a, s, t, e

\* Messages of texts make no calls.
LEMMA PlainCalls ==
  ASSUME NEW msgs, Plain(msgs) PROVE CallsOf(msgs) = <<>>
<1> DEFINE s == [i \in DOMAIN msgs |-> msgs[i].blocks]
           x == [i \in DOMAIN msgs |-> TextBlock]
<1>1. /\ msgs \in Seq(Message) /\ Len(msgs) \in Nat /\ DOMAIN msgs = 1 .. Len(msgs)
      /\ \A i \in DOMAIN msgs : msgs[i].blocks = <<TextBlock>>
  BY DEF Plain
<1>2. s \in Seq(Seq(Block)) /\ Len(s) = Len(msgs)
      /\ \A i \in 1 .. Len(msgs) : s[i] = <<TextBlock>>
  <2>1. s \in Seq(Seq(Block))
    BY <1>1, CallsType
  <2>2. DOMAIN s = DOMAIN msgs /\ \A i \in DOMAIN msgs : s[i] = msgs[i].blocks
    OBVIOUS
  <2> HIDE DEF s
  <2> QED
    BY <1>1, <2>1, <2>2, LenIs
<1>3. x \in Seq(Block) /\ Len(x) = Len(msgs) /\ \A i \in DOMAIN x : x[i] = TextBlock
      /\ DOMAIN x = 1 .. Len(msgs)
  BY <1>1, BlockTypes
<1> HIDE DEF s, x
<1>4. FlattenSeq(s) = x
  BY <1>2, <1>3, FlattenOnes
<1>5. OfKind(x, "use") = <<>>
  <2>1. \A i \in DOMAIN x : x[i].kind # "use"
    BY <1>3, BlockTypes
  <2> QED
    BY <1>3, <2>1, OfKindNone
<1> QED
  BY <1>4, <1>5 DEF CallsOf, GetToolCalls, s

\* The messages of a new request are texts (buildMessages).
LEMMA BuildIsPlain ==
  ASSUME NEW roles \in Seq(STRING) PROVE Plain(BuildMessages(roles))
<1> DEFINE I == {i \in DOMAIN roles : roles[i] \in {"user", "assistant"}}
           said == Entries(roles, I)
           old == [i \in DOMAIN said |-> NewTextMessage(said[i])]
           new == NewTextMessage("user")
           all == BuildMessages(roles)
<1>1. all = old \o <<new>>
  BY DEF BuildMessages
<1>2. I \in SUBSET (DOMAIN roles) /\ \A i \in I : roles[i] \in {"user", "assistant"}
  OBVIOUS
<1> HIDE DEF I
<1>3. said \in Seq(STRING) /\ \A k \in DOMAIN said : said[k] \in {"user", "assistant"}
  BY <1>2, EntriesType
<1>4. ASSUME NEW role \in {"user", "assistant"}
      PROVE  /\ NewTextMessage(role) \in Message
             /\ NewTextMessage(role).role = role
             /\ NewTextMessage(role).blocks = <<TextBlock>>
  <2>1. <<TextBlock>> \in Seq(Block)
    BY BlockTypes
  <2> QED
    BY <2>1 DEF NewTextMessage, Message
<1> HIDE DEF said
<1>5. /\ Len(said) \in Nat /\ DOMAIN said = 1 .. Len(said)
  BY <1>3
<1>6. /\ old \in Seq(Message) /\ Len(old) = Len(said)
      /\ \A i \in 1 .. Len(said) : old[i].blocks = <<TextBlock>>
  BY <1>3, <1>4, <1>5
<1>7. new \in Message /\ new.role = "user" /\ new.blocks = <<TextBlock>>
  BY <1>4
<1> HIDE DEF old, new, all
<1>8. all = Append(old, new)
  BY <1>1, <1>6, <1>7, AppendIsConcat
<1>9. /\ all \in Seq(Message) /\ all # <<>> /\ Len(all) = Len(old) + 1
      /\ \A i \in 1 .. Len(old) : all[i] = old[i]
      /\ all[Len(old) + 1] = new
  BY <1>6, <1>7, <1>8, AppendProperties
<1>10. all[Len(all)].role # "assistant"
  BY <1>7, <1>9
<1>11. \A i \in DOMAIN all : all[i].blocks = <<TextBlock>>
  <2>1. \A i \in DOMAIN all : i \in 1 .. Len(old) \/ i = Len(old) + 1
    BY <1>9
  <2> QED
    BY <1>6, <1>7, <1>9, <2>1
<1> QED
  BY <1>9, <1>10, <1>11 DEF Plain, all

-----------------------------------------------------------------------------
(* A request in its loop *)

\* The calls of the response at hand that were reported, and those to come.
Answering(s) ==
    LET uses == GetToolCalls(s.response.blocks)
        n == Len(s.results)
    IN  /\ n <= Len(uses) /\ (s.at = "running" => n < Len(uses))
        /\ s.todo = SubSeq(uses, n + 1, Len(uses))
        /\ s.results \in Seq(Block)
        /\ \A i \in 1 .. n : s.results[i].kind = "result" /\ s.results[i].id = uses[i].id
        /\ s.calls = CallsOf(s.msgs)
                       \o SubSeq(uses, 1, IF s.at = "running" THEN n + 1 ELSE n)

TalkOK(p, s) ==
    /\ s.msgs \in Seq(Message)
    /\ s.at \in {"received", "retrieve"} => s.calls = <<>>
    /\ s.at \in {"retrieve", "build", "loop", "model", "tools", "running", "answer"}
         => p \in LLMs
    /\ s.at \in {"build", "loop", "model", "tools", "running", "answer"}
         => WellFormed(Messages(p, s.msgs))
    /\ s.at \in {"build", "loop", "model", "answer"} => s.calls = CallsOf(s.msgs)
    /\ s.at \in {"tools", "running"} => GoodResponse(s.response) /\ Answering(s)

\* The next call of a response.
LEMMA NextCall ==
  ASSUME NEW u \in Seq(Block), NEW c \in Seq(Block), NEW n \in Nat, n < Len(u),
         NEW todo, todo = SubSeq(u, n + 1, Len(u))
  PROVE  /\ Head(todo) = u[n + 1] /\ u[n + 1] \in Block
         /\ Tail(todo) = SubSeq(u, (n + 1) + 1, Len(u))
         /\ Append(c \o SubSeq(u, 1, n), u[n + 1]) = c \o SubSeq(u, 1, n + 1)
<1>1. n + 1 \in 1 .. Len(u) /\ Len(u) \in n + 1 .. Len(u) /\ Len(u) \in Nat
  OBVIOUS
<1>2. Head(todo) = u[n + 1] /\ Tail(todo) = SubSeq(u, (n + 1) + 1, Len(u))
  BY <1>1, HeadTailOfSubSeq
<1>3. u[n + 1] \in Block
  BY <1>1
<1> DEFINE v == SubSeq(u, 1, n)
           w == SubSeq(u, 1, n + 1)
           e == u[n + 1]
<1>4. v \in Seq(Block) /\ w = v \o <<e>>
  <2>1. 1 \in 1 .. Len(u) /\ n + 1 \in 1 .. Len(u) /\ (n + 1) - 1 = n
    BY <1>1
  <2>2. w = SubSeq(u, 1, (n + 1) - 1) \o <<e>>
    BY <1>1, <2>1, SubSeqRecursiveSecond
  <2>3. \A i \in 1 .. n : u[i] \in Block
    BY <1>1
  <2>4. v \in Seq(Block)
    BY <2>3, SubSeqProperties
  <2> QED
    BY <2>1, <2>2, <2>4
<1> HIDE DEF v, w, e
<1>5. Append(c \o v, e) = c \o w
  <2>1. e \in Block /\ c \o v \in Seq(Block) /\ <<e>> \in Seq(Block)
    BY <1>3, <1>4, ConcatProperties DEF e
  <2>2. Append(c \o v, e) = (c \o v) \o <<e>>
    BY <2>1, AppendIsConcat
  <2>3. (c \o v) \o <<e>> = c \o (v \o <<e>>)
    BY <1>4, <2>1, ConcatAssociative
  <2> QED
    BY <1>4, <2>2, <2>3
<1> QED
  BY <1>2, <1>3, <1>5 DEF v, w, e

\* The calls of a response are blocks.
LEMMA UsesType ==
  ASSUME NEW response, GoodResponse(response)
  PROVE  GetToolCalls(response.blocks) \in Seq(Block)
  BY OfKindType DEF GoodResponse, GetToolCalls

\* A call is reported (StartTool).
LEMMA TalkStart ==
  ASSUME NEW p, NEW s, TalkOK(p, s), NEW t,
         s.at = "tools", s.todo # <<>>, t.at = "running",
         t.calls = Append(s.calls, Head(s.todo)), t.todo = s.todo, t.results = s.results,
         t.msgs = s.msgs, t.response = s.response
  PROVE  TalkOK(p, t)
<1> DEFINE u == GetToolCalls(s.response.blocks)
           n == Len(s.results)
           c == CallsOf(s.msgs)
           todo == s.todo
<1>1. /\ s.msgs \in Seq(Message) /\ p \in LLMs /\ WellFormed(Messages(p, s.msgs))
      /\ GoodResponse(s.response)
      /\ n <= Len(u) /\ todo = SubSeq(u, n + 1, Len(u))
      /\ s.results \in Seq(Block)
      /\ \A i \in 1 .. n : s.results[i].kind = "result" /\ s.results[i].id = u[i].id
      /\ s.calls = c \o SubSeq(u, 1, n)
  BY DEF TalkOK, Answering
<1>2. u \in Seq(Block) /\ c \in Seq(Block) /\ n \in Nat /\ Len(u) \in Nat
  <2>1. u \in Seq(Block)
    BY <1>1, UsesType
  <2>2. c \in Seq(Block)
    BY <1>1, CallsType
  <2>3. n \in Nat
    BY <1>1
  <2> HIDE DEF u, c, n
  <2> QED
    BY <2>1, <2>2, <2>3
<1>3. n < Len(u)
  <2>1. todo # <<>>
    OBVIOUS
  <2> HIDE DEF u, n, todo
  <2> QED
    BY <1>1, <1>2, <2>1, SubSeqEmpty
<1> HIDE DEF u, n, c, todo
<1>4. /\ Head(todo) = u[n + 1]
      /\ Append(c \o SubSeq(u, 1, n), u[n + 1]) = c \o SubSeq(u, 1, n + 1)
  BY <1>1, <1>2, <1>3, NextCall
<1>5. t.calls = c \o SubSeq(u, 1, n + 1)
  BY <1>1, <1>4 DEF todo
<1>6. Answering(t)
  BY <1>1, <1>2, <1>3, <1>5 DEF Answering, u, n, c, todo
<1> QED
  BY <1>1, <1>6 DEF TalkOK

\* The result of a reported call joins the others (ToolReturns).
LEMMA TalkReturn ==
  ASSUME NEW p, NEW s, TalkOK(p, s), NEW t, NEW err \in BOOLEAN,
         s.at = "running", t.at = "tools", t.calls = s.calls,
         t.todo = Tail(s.todo),
         t.results = Append(s.results, ResultBlock(Head(s.todo).id, err)),
         t.msgs = s.msgs, t.response = s.response
  PROVE  TalkOK(p, t)
<1> DEFINE u == GetToolCalls(s.response.blocks)
           n == Len(s.results)
           c == CallsOf(s.msgs)
           todo == s.todo
           b == ResultBlock(u[n + 1].id, err)
<1>1. /\ s.msgs \in Seq(Message) /\ p \in LLMs /\ WellFormed(Messages(p, s.msgs))
      /\ GoodResponse(s.response)
      /\ n < Len(u) /\ todo = SubSeq(u, n + 1, Len(u))
      /\ s.results \in Seq(Block)
      /\ \A i \in 1 .. n : s.results[i].kind = "result" /\ s.results[i].id = u[i].id
      /\ s.calls = c \o SubSeq(u, 1, n + 1)
  BY DEF TalkOK, Answering
<1>2. u \in Seq(Block) /\ c \in Seq(Block) /\ n \in Nat /\ Len(u) \in Nat
  <2>1. u \in Seq(Block)
    BY <1>1, UsesType
  <2>2. c \in Seq(Block)
    BY <1>1, CallsType
  <2>3. n \in Nat
    BY <1>1
  <2> HIDE DEF u, c, n
  <2> QED
    BY <2>1, <2>2, <2>3
<1> HIDE DEF u, n, c, todo
<1>3. /\ Head(todo) = u[n + 1] /\ u[n + 1] \in Block
      /\ Tail(todo) = SubSeq(u, (n + 1) + 1, Len(u))
  BY <1>1, <1>2, NextCall
<1>4. b \in Block /\ b.kind = "result" /\ b.id = u[n + 1].id
  <2>1. u[n + 1].id \in Seq(Nat)
    BY <1>3 DEF Block
  <2> QED
    BY <2>1, BlockTypes
<1> HIDE DEF b
<1>5. t.results = Append(s.results, b) /\ t.todo = SubSeq(u, (n + 1) + 1, Len(u))
  BY <1>3 DEF b, todo
<1>6. /\ t.results \in Seq(Block) /\ Len(t.results) = n + 1
      /\ \A i \in 1 .. n : t.results[i] = s.results[i]
      /\ t.results[n + 1] = b
  BY <1>1, <1>4, <1>5, AppendProperties DEF n
<1>7. \A i \in 1 .. n + 1 : t.results[i].kind = "result" /\ t.results[i].id = u[i].id
  <2>1. \A i \in 1 .. n + 1 : i \in 1 .. n \/ i = n + 1
    BY <1>2
  <2> QED
    BY <1>1, <1>4, <1>6, <2>1
<1>8. Answering(t)
  <2>1. n + 1 <= Len(u)
    BY <1>1, <1>2
  <2>2. t.calls = CallsOf(t.msgs) \o SubSeq(u, 1, n + 1)
    BY <1>1 DEF c
  <2> QED
    BY <1>5, <1>6, <1>7, <2>1, <2>2 DEF Answering, u
<1> QED
  BY <1>1, <1>8 DEF TalkOK

\* A call of an unknown tool is reported and answered at once (Execute).
LEMMA TalkUnknown ==
  ASSUME NEW p, NEW s, TalkOK(p, s), NEW t, NEW err \in BOOLEAN,
         s.at = "tools", s.todo # <<>>, t.at = "tools",
         t.calls = Append(s.calls, Head(s.todo)), t.todo = Tail(s.todo),
         t.results = Append(s.results, ResultBlock(Head(s.todo).id, err)),
         t.msgs = s.msgs, t.response = s.response
  PROVE  TalkOK(p, t)
<1> DEFINE m == [at |-> "running", calls |-> t.calls, todo |-> s.todo,
                 results |-> s.results, msgs |-> s.msgs, response |-> s.response]
<1>1. /\ m.at = "running" /\ m.calls = t.calls /\ m.todo = s.todo
      /\ m.results = s.results /\ m.msgs = s.msgs /\ m.response = s.response
  OBVIOUS
<1> HIDE DEF m
<1>2. TalkOK(p, m)
  BY <1>1, TalkStart
<1> QED
  BY <1>1, <1>2, TalkReturn

\* The first calls of a response.
LEMMA TalkBegin ==
  ASSUME NEW p, NEW s, TalkOK(p, s), NEW t, NEW response, GoodResponse(response),
         s.at = "model", t.at = "tools", t.response = response,
         t.todo = GetToolCalls(response.blocks), t.results = <<>>,
         t.calls = s.calls, t.msgs = s.msgs
  PROVE  TalkOK(p, t)
<1> DEFINE u == GetToolCalls(response.blocks)
           c == CallsOf(s.msgs)
<1>1. /\ s.msgs \in Seq(Message) /\ p \in LLMs /\ WellFormed(Messages(p, s.msgs))
      /\ s.calls = c
  BY DEF TalkOK
<1>2. u \in Seq(Block) /\ c \in Seq(Block)
  BY <1>1, UsesType, CallsType
<1> HIDE DEF u, c
<1>3. u = SubSeq(u, 0 + 1, Len(u)) /\ c = c \o SubSeq(u, 1, 0)
  <2>1. SubSeq(u, 1, 0) = <<>>
    BY SubSeqEmpty
  <2>2. c \o <<>> = c
    BY <1>2, ConcatEmptySeq
  <2> QED
    BY <1>2, <2>1, <2>2, SubSeqFull
<1>4. Len(<<>>) = 0 /\ <<>> \in Seq(Block) /\ Len(u) \in Nat
  BY <1>2
<1>5. Answering(t)
  BY <1>1, <1>3, <1>4 DEF Answering, u, c
<1> QED
  BY <1>1, <1>5 DEF TalkOK

\* Two entries joined to a sequence are appended one by one.
LEMMA ConcatTwo ==
  ASSUME NEW S, NEW s \in Seq(S), NEW a \in S, NEW b \in S
  PROVE  s \o <<a, b>> = Append(Append(s, a), b)
<1> DEFINE x == s \o <<a, b>>
           y == Append(Append(s, a), b)
<1>1. <<a, b>> \in Seq(S) /\ Len(<<a, b>>) = 2 /\ <<a, b>>[1] = a /\ <<a, b>>[2] = b
  OBVIOUS
<1>2. /\ x \in Seq(S) /\ Len(x) = Len(s) + 2 /\ Len(s) \in Nat
      /\ \A i \in 1 .. Len(s) : x[i] = s[i]
      /\ x[Len(s) + 1] = a /\ x[Len(s) + 2] = b
  <2> DEFINE t == <<a, b>>
  <2>1. t \in Seq(S) /\ Len(t) = 2 /\ t[1] = a /\ t[2] = b
    BY <1>1
  <2> HIDE DEF t
  <2>2. /\ s \o t \in Seq(S) /\ Len(s \o t) = Len(s) + Len(t)
        /\ \A i \in 1 .. Len(s) + Len(t) :
              (s \o t)[i] = IF i <= Len(s) THEN s[i] ELSE t[i - Len(s)]
    BY <2>1, ConcatProperties
  <2>3. /\ \A i \in 1 .. Len(s) : (s \o t)[i] = s[i]
        /\ (s \o t)[Len(s) + 1] = t[1] /\ (s \o t)[Len(s) + 2] = t[2]
    BY <2>1, <2>2, LenProperties
  <2> QED
    BY <2>1, <2>2, <2>3, LenProperties DEF t
<1>3. /\ y \in Seq(S) /\ Len(y) = Len(s) + 2
      /\ \A i \in 1 .. Len(s) : y[i] = s[i]
      /\ y[Len(s) + 1] = a /\ y[Len(s) + 2] = b
  OBVIOUS
<1> HIDE DEF x, y
<1>4. \A i \in 1 .. Len(x) : x[i] = y[i]
  <2>1. \A i \in 1 .. Len(x) : i \in 1 .. Len(s) \/ i = Len(s) + 1 \/ i = Len(s) + 2
    BY <1>2
  <2> QED
    BY <1>2, <1>3, <2>1
<1>5. x = y
  BY <1>2, <1>3, <1>4, SeqEqual
<1> QED
  BY <1>5 DEF x, y

\* All calls are answered: the response and the results join the messages.
LEMMA TalkTurn ==
  ASSUME NEW p, NEW s, TalkOK(p, s), NEW t,
         s.at = "tools", s.todo = <<>>, t.at = "loop", t.calls = s.calls,
         t.msgs = s.msgs \o <<BuildAssistantMessage(s.response),
                              BuildToolResultMessages(s.results)>>
  PROVE  TalkOK(p, t)
<1> DEFINE u == GetToolCalls(s.response.blocks)
           n == Len(s.results)
           c == CallsOf(s.msgs)
           a == BuildAssistantMessage(s.response)
           b == BuildToolResultMessages(s.results)
           ms == s.msgs
           mid == Append(s.msgs, a)
<1>1. /\ ms \in Seq(Message) /\ p \in LLMs /\ WellFormed(Messages(p, ms))
      /\ GoodResponse(s.response)
      /\ n <= Len(u) /\ <<>> = SubSeq(u, n + 1, Len(u))
      /\ s.results \in Seq(Block)
      /\ \A i \in 1 .. n : s.results[i].kind = "result" /\ s.results[i].id = u[i].id
      /\ s.calls = c \o SubSeq(u, 1, n)
  BY DEF TalkOK, Answering
<1>2. u \in Seq(Block) /\ c \in Seq(Block) /\ n \in Nat /\ Len(u) \in Nat
      /\ s.response.blocks \in Seq(Block)
  <2>1. u \in Seq(Block)
    BY <1>1, UsesType
  <2>2. c \in Seq(Block)
    BY <1>1, CallsType
  <2>3. n \in Nat
    BY <1>1
  <2>4. s.response.blocks \in Seq(Block)
    BY <1>1 DEF GoodResponse
  <2> HIDE DEF u, c, n
  <2> QED
    BY <2>1, <2>2, <2>3, <2>4
<1>3. n = Len(u) /\ SubSeq(u, 1, n) = u
  <2> HIDE DEF u, n
  <2>1. ~(n < Len(u))
    <3> SUFFICES ASSUME n < Len(u) PROVE FALSE
      OBVIOUS
    <3>1. \A i \in n + 1 .. Len(u) : u[i] \in Block
      BY <1>2
    <3>2. Len(SubSeq(u, n + 1, Len(u))) = IF n + 1 <= Len(u) THEN Len(u) - (n + 1) + 1 ELSE 0
      BY <1>2, <3>1, SubSeqProperties
    <3>3. Len(SubSeq(u, n + 1, Len(u))) # 0
      BY <1>2, <3>2
    <3>4. SubSeq(u, n + 1, Len(u)) = <<>>
      BY <1>1
    <3> QED
      BY <3>3, <3>4
  <2>2. n = Len(u)
    BY <1>1, <1>2, <2>1
  <2> QED
    BY <1>2, <2>2, SubSeqFull
<1>4. /\ a \in Message /\ a.role = "assistant" /\ a.blocks = s.response.blocks
      /\ b \in Message /\ b.role = "user" /\ b.blocks = s.results
  BY <1>1, <1>2 DEF BuildAssistantMessage, BuildToolResultMessages, Message
<1>5. IsTurn(Sent(p, a) \o Sent(p, b))
  <2>1. \A i \in DOMAIN a.blocks : a.blocks[i].kind # "result"
    BY <1>1, <1>4 DEF GoodResponse
  <2>2. \A i \in DOMAIN b.blocks : b.blocks[i].kind = "result"
    BY <1>1, <1>4
  <2>3. IdsOf(a, "use") = Ids(u)
    BY <1>4 DEF IdsOf, GetToolCalls
  <2>4. Ids(b.blocks) = Ids(u)
    <3>1. /\ Ids(u) \in Seq(Seq(Nat)) /\ Len(Ids(u)) = Len(u)
          /\ \A i \in 1 .. Len(u) : Ids(u)[i] = u[i].id
      BY <1>2, IdsType
    <3>2. /\ Ids(s.results) \in Seq(Seq(Nat)) /\ Len(Ids(s.results)) = n
          /\ \A i \in 1 .. n : Ids(s.results)[i] = s.results[i].id
      BY <1>1, IdsType
    <3> HIDE DEF u, n
    <3> DEFINE x == Ids(s.results)
               y == Ids(u)
    <3>3. \A i \in 1 .. n : x[i] = y[i]
      BY <1>1, <1>3, <3>1, <3>2
    <3> HIDE DEF x, y
    <3>4. x \in Seq(Seq(Nat)) /\ y \in Seq(Seq(Nat)) /\ Len(x) = n /\ Len(y) = n
      BY <1>3, <3>1, <3>2 DEF x, y
    <3>5. x = y
      BY <3>3, <3>4, SeqEqual
    <3> QED
      BY <1>4, <3>5 DEF x, y
  <2>5. IsInjective(Ids(u))
    <3>1. \A k, l \in DOMAIN u : u[k].id = u[l].id => k = l
      BY <1>1 DEF GoodResponse
    <3> HIDE DEF u
    <3> QED
      BY <3>1 DEF IsInjective, Ids
  <2> HIDE DEF a, b, u
  <2> QED
    BY <1>1, <1>4, <2>1, <2>2, <2>3, <2>4, <2>5, SentTurn
<1>6. t.msgs = Append(mid, b) /\ mid \in Seq(Message) /\ t.msgs \in Seq(Message)
  <2>1. t.msgs = ms \o <<a, b>>
    OBVIOUS
  <2>2. mid = Append(ms, a)
    OBVIOUS
  <2> HIDE DEF a, b, ms, mid
  <2>3. mid \in Seq(Message) /\ Append(mid, b) \in Seq(Message)
    BY <1>1, <1>4, <2>2, AppendProperties
  <2>4. ms \o <<a, b>> = Append(Append(ms, a), b)
    BY <1>1, <1>4, ConcatTwo
  <2>5. t.msgs = Append(mid, b)
    BY <2>1, <2>2, <2>4
  <2> QED
    BY <2>3, <2>5
<1> HIDE DEF a, b, u, n, c, ms
<1>7. WellFormed(Messages(p, t.msgs))
  <2>1. /\ Messages(p, ms) \in Seq(Wires)
        /\ Sent(p, a) \in Seq(Wires) /\ Sent(p, b) \in Seq(Wires)
    BY <1>1, <1>4, MessagesType, MessagesAppend
  <2>2. Messages(p, mid) = Messages(p, ms) \o Sent(p, a)
    BY <1>1, <1>4, MessagesAppend DEF ms
  <2>3. Messages(p, t.msgs) = Messages(p, mid) \o Sent(p, b)
    <3> HIDE DEF mid
    <3> QED
      BY <1>1, <1>4, <1>6, MessagesAppend
  <2>4. Messages(p, t.msgs) = Messages(p, ms) \o (Sent(p, a) \o Sent(p, b))
    <3>1. (Messages(p, ms) \o Sent(p, a)) \o Sent(p, b)
            = Messages(p, ms) \o (Sent(p, a) \o Sent(p, b))
      BY <2>1, ConcatAssociative
    <3> HIDE DEF mid
    <3> QED
      BY <2>2, <2>3, <3>1
  <2>5. Sent(p, a) \o Sent(p, b) \in Seq(Wires)
    BY <2>1, ConcatProperties
  <2> QED
    BY <1>1, <1>5, <2>1, <2>4, <2>5, WellFormedTurn
<1>8. t.calls = CallsOf(t.msgs)
  <2>1. CallsOf(mid) = c \o u
    BY <1>1, <1>4, CallsAppend DEF ms, c, u
  <2>2. GetToolCalls(b.blocks) = <<>>
    <3>1. DOMAIN s.results = 1 .. n
      BY <1>1 DEF n
    <3>2. \A i \in DOMAIN s.results : s.results[i].kind # "use"
      BY <1>1, <3>1
    <3>3. OfKind(s.results, "use") = <<>>
      BY <1>1, <3>2, OfKindNone
    <3> QED
      BY <1>4, <3>3 DEF GetToolCalls
  <2>3. CallsOf(t.msgs) = CallsOf(mid) \o GetToolCalls(b.blocks)
    <3> HIDE DEF mid
    <3> QED
      BY <1>4, <1>6, CallsAppend
  <2>4. c \o u \in Seq(Block) /\ (c \o u) \o <<>> = c \o u
    BY <1>2, ConcatProperties, ConcatEmptySeq
  <2>5. t.calls = c \o u
    BY <1>1, <1>3
  <2> QED
    BY <2>1, <2>2, <2>3, <2>4, <2>5
<1> QED
  BY <1>1, <1>6, <1>7, <1>8 DEF TalkOK

-----------------------------------------------------------------------------
(* The steps of a request in its loop *)

ChatInv ==
    /\ provider \in Providers
    /\ \A r \in Requests : TalkOK(provider, req[r])

\* A step of one request leaves the others alone.
LEMMA RequestTalks ==
  ASSUME ChatInv, NEW r \in Requests, provider' = provider, Others(r),
         TalkOK(provider, req'[r])
  PROVE  ChatInv'
<1>1. ASSUME NEW q \in Requests PROVE TalkOK(provider, req'[q])
  <2>1. CASE q = r
    BY <2>1
  <2>2. CASE q # r
    BY <2>2 DEF Others, ChatInv
  <2> QED
    BY <2>1, <2>2
<1> QED
  BY <1>1 DEF ChatInv

\* A request that leaves the loop, or has ended, keeps its messages.
LEMMA TalkEnds ==
  ASSUME NEW p, NEW s, TalkOK(p, s), NEW t, t.msgs = s.msgs, t.at \in {"done", "fail"}
  PROVE  TalkOK(p, t)
  BY DEF TalkOK

\* Between its calls it keeps its messages and its calls.
LEMMA TalkStays ==
  ASSUME NEW p, NEW s, TalkOK(p, s), NEW t, t.msgs = s.msgs, t.calls = s.calls,
         s.at \in {"build", "loop", "model"}, t.at \in {"loop", "model", "answer"}
  PROVE  TalkOK(p, t)
  BY DEF TalkOK

\* Goto and Respond.
LEMMA LeaveTalks ==
  ASSUME RegistryInv, ChatInv, NEW r \in Requests, provider' = provider,
         \/ Goto(r, "fail")
         \/ \E status : Respond(r, status)
  PROVE  ChatInv'
<1>1. /\ DOMAIN req = Requests
      /\ {"at", "iteration", "todo", "results", "calls", "response", "msgs"}
            \subseteq DOMAIN req[r]
  BY DEF RegistryInv, ShapeOK
<1>2. Others(r) /\ req'[r].msgs = req[r].msgs /\ req'[r].at \in {"done", "fail"}
  BY <1>1 DEF Goto, Respond, Others
<1>3. TalkOK(provider, req[r])
  BY DEF ChatInv
<1>4. TalkOK(provider, req'[r])
  BY <1>2, <1>3, TalkEnds
<1> QED
  BY <1>2, <1>4, RequestTalks

\* The steps of the code.
LEMMA ProgressTalks ==
  ASSUME RegistryInv, ChatInv, NEW r \in Requests, Progress(r) PROVE ChatInv'
<1>1. /\ DOMAIN req = Requests /\ req[r].iteration \in Nat
      /\ {"at", "iteration", "todo", "results", "calls", "response", "msgs"}
            \subseteq DOMAIN req[r]
  BY DEF RegistryInv, ShapeOK
<1>2. provider' = provider
  BY DEF Progress, HandleChat, Retrieve, GetToolDefinitions, CallModel, UnknownTool,
         StartTool, NextIteration, Answer, Fail, fixed
<1>3. TalkOK(provider, req[r]) /\ provider \in Providers
  BY DEF ChatInv
<1>4. CASE HandleChat(r)
  <2>1. CASE provider # "none" /\ Goto(r, "retrieve")
    <3>1. /\ Others(r) /\ req'[r].at = "retrieve" /\ req'[r].msgs = req[r].msgs
          /\ req'[r].calls = req[r].calls
      BY <1>1, <2>1 DEF Goto, Others
    <3>2. provider \in LLMs
      BY <1>3, <2>1, AgentAssumption DEF LLMs
    <3>3. req[r].at = "received"
      BY <1>4 DEF HandleChat
    <3>4. TalkOK(provider, req'[r])
      BY <1>3, <3>1, <3>2, <3>3 DEF TalkOK
    <3> QED
      BY <1>2, <3>1, <3>4, RequestTalks
  <2>2. CASE \E status : Respond(r, status)
    BY <1>2, <2>2, LeaveTalks
  <2> QED
    BY <1>4, <2>1, <2>2 DEF HandleChat
<1>5. CASE Retrieve(r)
  <2>1. PICK roles \in Histories :
          req' = [req EXCEPT ![r].at = "build", ![r].msgs = BuildMessages(roles)]
    BY <1>5 DEF Retrieve
  <2> DEFINE ms == BuildMessages(roles)
  <2>2. Plain(ms)
    BY BuildIsPlain, AgentAssumption
  <2>3. req' = [req EXCEPT ![r].at = "build", ![r].msgs = ms]
    BY <2>1
  <2> HIDE DEF ms
  <2>4. /\ Others(r) /\ req'[r].at = "build" /\ req'[r].msgs = ms
        /\ req'[r].calls = req[r].calls
    BY <1>1, <2>3 DEF Others
  <2>5. req[r].at = "retrieve"
    BY <1>5 DEF Retrieve
  <2>6. req[r].calls = <<>> /\ provider \in LLMs
    BY <1>3, <2>5 DEF TalkOK
  <2>7. ms \in Seq(Message) /\ CallsOf(ms) = <<>> /\ WellFormed(Messages(provider, ms))
    BY <2>2, <2>6, PlainCalls, PlainWellFormed DEF Plain
  <2>8. TalkOK(provider, req'[r])
    BY <2>4, <2>6, <2>7 DEF TalkOK
  <2> QED
    BY <1>2, <2>4, <2>8, RequestTalks
<1>6. CASE GetToolDefinitions(r)
  <2>1. /\ Others(r) /\ req'[r].at = "loop" /\ req'[r].msgs = req[r].msgs
        /\ req'[r].calls = req[r].calls /\ req[r].at = "build"
    BY <1>1, <1>6 DEF GetToolDefinitions, Others
  <2> QED
    BY <1>2, <1>3, <2>1, TalkStays, RequestTalks
<1>7. CASE CallModel(r)
  <2>1. CASE req[r].iteration < MaxToolCalls
    <3>1. /\ Others(r) /\ req'[r].at = "model" /\ req'[r].msgs = req[r].msgs
          /\ req'[r].calls = req[r].calls /\ req[r].at = "loop"
      BY <1>1, <1>7, <2>1 DEF CallModel, Others
    <3> QED
      BY <1>2, <1>3, <3>1, TalkStays, RequestTalks
  <2>2. CASE ~(req[r].iteration < MaxToolCalls)
    BY <1>2, <1>7, <2>2, LeaveTalks DEF CallModel
  <2> QED
    BY <2>1, <2>2
<1>8. CASE UnknownTool(r)
  <2> DEFINE b == ResultBlock(Call(r).id, TRUE)
  <2>1. req' = [req EXCEPT ![r].calls = Append(@, Call(r)), ![r].todo = Tail(@),
                           ![r].results = Append(@, b)]
    BY <1>8 DEF UnknownTool
  <2>2. b = ResultBlock(Head(req[r].todo).id, TRUE) /\ TRUE \in BOOLEAN
    BY DEF Call
  <2> HIDE DEF b
  <2>3. /\ Others(r) /\ req'[r].at = req[r].at /\ req'[r].msgs = req[r].msgs
        /\ req'[r].response = req[r].response
        /\ req'[r].calls = Append(req[r].calls, Head(req[r].todo))
        /\ req'[r].todo = Tail(req[r].todo)
        /\ req'[r].results = Append(req[r].results, b)
    BY <1>1, <2>1 DEF Others, Call
  <2>4. req[r].at = "tools" /\ req[r].todo # <<>>
    BY <1>8 DEF UnknownTool
  <2>5. TalkOK(provider, req'[r])
    BY <1>3, <2>2, <2>3, <2>4, TalkUnknown
  <2> QED
    BY <1>2, <2>3, <2>5, RequestTalks
<1>9. CASE StartTool(r)
  <2>1. /\ Others(r) /\ req'[r].at = "running" /\ req'[r].msgs = req[r].msgs
        /\ req'[r].response = req[r].response
        /\ req'[r].calls = Append(req[r].calls, Head(req[r].todo))
        /\ req'[r].todo = req[r].todo /\ req'[r].results = req[r].results
    BY <1>1, <1>9 DEF StartTool, Others, Call
  <2>2. req[r].at = "tools" /\ req[r].todo # <<>>
    BY <1>9 DEF StartTool
  <2>3. TalkOK(provider, req'[r])
    BY <1>3, <2>1, <2>2, TalkStart
  <2> QED
    BY <1>2, <2>1, <2>3, RequestTalks
<1>10. CASE NextIteration(r)
  <2> DEFINE two == <<BuildAssistantMessage(req[r].response),
                      BuildToolResultMessages(req[r].results)>>
  <2>1. req' = [req EXCEPT ![r].at = "loop", ![r].msgs = @ \o two]
    BY <1>10 DEF NextIteration
  <2> HIDE DEF two
  <2>2. /\ Others(r) /\ req'[r].at = "loop" /\ req'[r].msgs = req[r].msgs \o two
        /\ req'[r].calls = req[r].calls
    BY <1>1, <2>1 DEF Others
  <2>3. req[r].at = "tools" /\ req[r].todo = <<>>
    BY <1>10 DEF NextIteration
  <2>4. TalkOK(provider, req'[r])
    BY <1>3, <2>2, <2>3, TalkTurn DEF two
  <2> QED
    BY <1>2, <2>2, <2>4, RequestTalks
<1>11. CASE Answer(r) \/ Fail(r)
  BY <1>2, <1>11, LeaveTalks DEF Answer, Fail
<1> QED
  BY <1>4, <1>5, <1>6, <1>7, <1>8, <1>9, <1>10, <1>11 DEF Progress

\* What the model and the tools answer.
LEMMA OutcomeTalks ==
  ASSUME RegistryInv, ChatInv, NEW r \in Requests, Outcome(r) PROVE ChatInv'
<1>1. /\ DOMAIN req = Requests /\ req[r].iteration \in Nat
      /\ {"at", "iteration", "todo", "results", "calls", "response", "msgs"}
            \subseteq DOMAIN req[r]
  BY DEF RegistryInv, ShapeOK
<1>2. provider' = provider
  BY DEF Outcome, ModelReplies, ModelFails, ToolReturns, fixed
<1>3. TalkOK(provider, req[r])
  BY DEF ChatInv
<1>4. CASE ModelReplies(r)
  <2>1. req[r].at = "model"
    BY <1>4 DEF ModelReplies
  <2>2. provider \in LLMs
    BY <1>3, <2>1 DEF TalkOK
  <2>3. PICK reply \in Replies :
          LET response == Response(provider, reply, req[r].iteration)
          IN  \/ req' = [req EXCEPT ![r].at = "tools", ![r].response = response,
                           ![r].todo = GetToolCalls(response.blocks),
                           ![r].results = <<>>]
              \/ req' = [req EXCEPT ![r].at = "answer", ![r].response = response]
    BY <1>4 DEF ModelReplies
  <2> DEFINE response == Response(provider, reply, req[r].iteration)
             uses == GetToolCalls(response.blocks)
  <2>4. GoodResponse(response)
    <3>1. reply \in Reply
      BY AgentAssumption DEF Reply
    <3> DEFINE n == req[r].iteration
    <3>2. n \in Nat
      BY <1>1
    <3> HIDE DEF n
    <3>3. GoodResponse(Response(provider, reply, n))
      BY <2>2, <3>1, <3>2, Responses
    <3> QED
      BY <3>3 DEF n
  <2>5. \/ req' = [req EXCEPT ![r].at = "tools", ![r].response = response,
                     ![r].todo = uses, ![r].results = <<>>]
        \/ req' = [req EXCEPT ![r].at = "answer", ![r].response = response]
    BY <2>3
  <2>6. uses = GetToolCalls(response.blocks)
    OBVIOUS
  <2> HIDE DEF response, uses
  <2>7. CASE req' = [req EXCEPT ![r].at = "tools", ![r].response = response,
                       ![r].todo = uses, ![r].results = <<>>]
    <3>1. /\ Others(r) /\ req'[r].at = "tools" /\ req'[r].msgs = req[r].msgs
          /\ req'[r].response = response /\ req'[r].todo = uses
          /\ req'[r].results = <<>> /\ req'[r].calls = req[r].calls
      BY <1>1, <2>7 DEF Others
    <3>2. TalkOK(provider, req'[r])
      BY <1>3, <2>1, <2>4, <2>6, <3>1, TalkBegin
    <3> QED
      BY <1>2, <3>1, <3>2, RequestTalks
  <2>8. CASE req' = [req EXCEPT ![r].at = "answer", ![r].response = response]
    <3>1. /\ Others(r) /\ req'[r].at = "answer" /\ req'[r].msgs = req[r].msgs
          /\ req'[r].calls = req[r].calls
      BY <1>1, <2>8 DEF Others
    <3> QED
      BY <1>2, <1>3, <2>1, <3>1, TalkStays, RequestTalks
  <2> QED
    BY <2>5, <2>7, <2>8
<1>5. CASE ModelFails(r)
  BY <1>2, <1>5, LeaveTalks DEF ModelFails
<1>6. CASE ToolReturns(r)
  <2>1. PICK err \in BOOLEAN : Result(r, err)
    BY <1>6 DEF ToolReturns
  <2> DEFINE b == ResultBlock(Call(r).id, err)
  <2>2. req' = [req EXCEPT ![r].at = "tools", ![r].todo = Tail(@),
                           ![r].results = Append(@, b)]
    BY <2>1 DEF Result
  <2>3. b = ResultBlock(Head(req[r].todo).id, err)
    BY DEF Call
  <2> HIDE DEF b
  <2>4. /\ Others(r) /\ req'[r].at = "tools" /\ req'[r].msgs = req[r].msgs
        /\ req'[r].response = req[r].response /\ req'[r].calls = req[r].calls
        /\ req'[r].todo = Tail(req[r].todo)
        /\ req'[r].results = Append(req[r].results, b)
    BY <1>1, <2>2 DEF Others
  <2>5. req[r].at = "running"
    BY <1>6 DEF ToolReturns
  <2>6. TalkOK(provider, req'[r])
    BY <1>3, <2>3, <2>4, <2>5, TalkReturn
  <2> QED
    BY <1>2, <2>4, <2>6, RequestTalks
<1> QED
  BY <1>4, <1>5, <1>6 DEF Outcome

\* Every step.
LEMMA ChatNext ==
  ASSUME RegistryInv, ChatInv, [Next]_vars PROVE ChatInv'
<1>1. ASSUME UNCHANGED <<provider, req>> PROVE ChatInv'
  BY <1>1 DEF ChatInv
<1>2. ASSUME NEW r \in Requests, Late(r) PROVE ChatInv'
  BY <1>1, <1>2 DEF Late, fixed
<1>3. ASSUME NEW t \in Tools, Unregister(t) \/ Register(t) PROVE ChatInv'
  BY <1>1, <1>3 DEF Unregister, Register, fixed
<1>4. CASE OtherReturns \/ ClearExecutions
  BY <1>1, <1>4 DEF OtherReturns, ClearExecutions, fixed
<1>5. CASE UNCHANGED vars
  BY <1>1, <1>5 DEF vars
<1> QED
  BY <1>2, <1>3, <1>4, <1>5, ProgressTalks, OutcomeTalks DEF Next

\* The start.
LEMMA ChatInit == Init => ChatInv
<1> SUFFICES ASSUME Init PROVE ChatInv
  OBVIOUS
<1>1. provider \in Providers /\ req = [r \in Requests |-> NewRequest]
  BY DEF Init, InitChatService
<1>2. TalkOK(provider, NewRequest)
  <2>1. /\ NewRequest.at = "received" /\ NewRequest.calls = <<>>
        /\ NewRequest.msgs = <<>>
    BY DEF NewRequest
  <2>2. <<>> \in Seq(Message)
    OBVIOUS
  <2> QED
    BY <2>1, <2>2 DEF TalkOK
<1> QED
  BY <1>1, <1>2 DEF ChatInv

\* The two invariants together.
LEMMA ChatOfSpec == Spec => [](RegistryInv /\ ChatInv)
<1>1. RegistryInv /\ ChatInv /\ [Next]_vars => (RegistryInv /\ ChatInv)'
  BY RegistryNext, ChatNext
<1>2. Init => RegistryInv /\ ChatInv
  BY RegistryInit, ChatInit
<1>3. Spec => Init /\ [][Next]_vars
  BY DEF Spec
<1> QED
  BY <1>1, <1>2, <1>3, PTL

\* The messages a model is sent.
LEMMA WellFormedOfInv == ChatInv => MessagesWellFormed
  BY DEF ChatInv, TalkOK, MessagesWellFormed

\* The calls an answer reports.
LEMMA CallsOfInv == ChatInv => CallsReported
  BY DEF ChatInv, TalkOK, CallsReported, CallsOf

\* Whatever the models say and the tools answer, in every provider's format and
\* after any number of iterations: a request is sent to a model (Chat of the
\* providers) only with every tool call answered once, right behind the message
\* that made it.
THEOREM MessagesArePaired == Spec => []MessagesWellFormed
  BY ChatOfSpec, WellFormedOfInv, PTL

\* The calls that Process returns with an answer are the calls of all responses,
\* in order: executeToolCalls drops and repeats none, in any iteration.
THEOREM CallsAreReported == Spec => []CallsReported
  BY ChatOfSpec, CallsOfInv, PTL

-----------------------------------------------------------------------------
(* The types, and the bound on the iterations *)

\* What a request's record holds.
RecordOK(s) ==
    /\ {"at", "iteration", "offered", "status"} \subseteq DOMAIN s
    /\ s.at \in Stages
    /\ s.offered \subseteq Tools
    /\ s.iteration \in 0 .. MaxToolCalls
    /\ s.status \in {0, 200, 400, 422, 500}

TypeInv ==
    /\ registered \subseteq Tools
    /\ others \in 0 .. MaxOthers
    /\ clock \in [Requests -> {"fresh", "late", "expired"}]
    /\ DOMAIN req = Requests
    /\ \A r \in Requests : RecordOK(req[r])

\* A step of one request.
LEMMA TypeMoves ==
  ASSUME TypeInv, NEW r \in Requests, UNCHANGED <<registered, others, clock>>,
         Others(r), RecordOK(req'[r])
  PROVE  TypeInv'
  BY DEF TypeInv, Others, RecordOK

\* Goto and Respond.
LEMMA LeaveTypes ==
  ASSUME TypeInv, NEW r \in Requests, UNCHANGED <<registered, others, clock>>,
         \/ \E at \in Stages : Goto(r, at)
         \/ \E status \in {200, 400, 422, 500} : Respond(r, status)
  PROVE  TypeInv'
<1>1. RecordOK(req[r]) /\ DOMAIN req = Requests
  BY DEF TypeInv
<1>2. Others(r) /\ RecordOK(req'[r])
  <2>1. CASE \E at \in Stages : Goto(r, at)
    BY <1>1, <2>1 DEF Goto, Others, RecordOK
  <2>2. CASE \E status \in {200, 400, 422, 500} : Respond(r, status)
    BY <1>1, <2>2 DEF Respond, Others, RecordOK, Stages
  <2> QED
    BY <2>1, <2>2
<1> QED
  BY <1>2, TypeMoves

\* The steps of the code.
LEMMA ProgressTypes ==
  ASSUME TypeInv, NEW r \in Requests, Progress(r) PROVE TypeInv'
<1>1. RecordOK(req[r]) /\ DOMAIN req = Requests /\ registered \subseteq Tools
  BY DEF TypeInv
<1>2. UNCHANGED <<registered, others, clock>>
  BY DEF Progress, HandleChat, Retrieve, GetToolDefinitions, CallModel, UnknownTool,
         StartTool, NextIteration, Answer, Fail, registry
<1>3. CASE HandleChat(r)
  BY <1>2, <1>3, LeaveTypes DEF HandleChat, Stages
<1>4. CASE Retrieve(r)
  <2>1. Others(r) /\ RecordOK(req'[r])
    BY <1>1, <1>4 DEF Retrieve, Others, RecordOK, Stages
  <2> QED
    BY <1>2, <2>1, TypeMoves
<1>5. CASE GetToolDefinitions(r)
  <2>1. Others(r) /\ RecordOK(req'[r])
    BY <1>1, <1>5 DEF GetToolDefinitions, Others, RecordOK, Stages
  <2> QED
    BY <1>2, <2>1, TypeMoves
<1>6. CASE CallModel(r)
  <2>1. CASE req[r].iteration < MaxToolCalls
    <3>1. Others(r) /\ RecordOK(req'[r])
      BY <1>1, <1>6, <2>1, AgentAssumption DEF CallModel, Others, RecordOK, Stages
    <3> QED
      BY <1>2, <3>1, TypeMoves
  <2>2. CASE ~(req[r].iteration < MaxToolCalls)
    BY <1>2, <1>6, <2>2, LeaveTypes DEF CallModel, Stages
  <2> QED
    BY <2>1, <2>2
<1>7. CASE UnknownTool(r)
  <2>1. Others(r) /\ RecordOK(req'[r])
    BY <1>1, <1>7 DEF UnknownTool, Others, RecordOK, Stages
  <2> QED
    BY <1>2, <2>1, TypeMoves
<1>8. CASE StartTool(r)
  <2>1. Others(r) /\ RecordOK(req'[r])
    BY <1>1, <1>8 DEF StartTool, Others, RecordOK, Stages
  <2> QED
    BY <1>2, <2>1, TypeMoves
<1>9. CASE NextIteration(r)
  <2>1. Others(r) /\ RecordOK(req'[r])
    BY <1>1, <1>9 DEF NextIteration, Others, RecordOK, Stages
  <2> QED
    BY <1>2, <2>1, TypeMoves
<1>10. CASE Answer(r) \/ Fail(r)
  BY <1>2, <1>10, LeaveTypes DEF Answer, Fail
<1> QED
  BY <1>3, <1>4, <1>5, <1>6, <1>7, <1>8, <1>9, <1>10 DEF Progress

\* What the model and the tools answer.
LEMMA OutcomeTypes ==
  ASSUME TypeInv, NEW r \in Requests, Outcome(r) PROVE TypeInv'
<1>1. RecordOK(req[r]) /\ DOMAIN req = Requests
  BY DEF TypeInv
<1>2. UNCHANGED <<registered, others, clock>>
  BY DEF Outcome, ModelReplies, ModelFails, ToolReturns, registry
<1>3. CASE ModelReplies(r)
  <2>1. PICK response, uses :
          \/ req' = [req EXCEPT ![r].at = "tools", ![r].response = response,
                       ![r].todo = uses, ![r].results = <<>>]
          \/ req' = [req EXCEPT ![r].at = "answer", ![r].response = response]
    BY <1>3 DEF ModelReplies
  <2>2. Others(r) /\ RecordOK(req'[r])
    BY <1>1, <2>1 DEF Others, RecordOK, Stages
  <2> QED
    BY <1>2, <2>2, TypeMoves
<1>4. CASE ModelFails(r)
  BY <1>2, <1>4, LeaveTypes DEF ModelFails, Stages
<1>5. CASE ToolReturns(r)
  <2>1. PICK err \in BOOLEAN : Result(r, err)
    BY <1>5 DEF ToolReturns
  <2>2. Others(r) /\ RecordOK(req'[r])
    BY <1>1, <2>1 DEF Result, Others, RecordOK, Stages
  <2> QED
    BY <1>2, <2>2, TypeMoves
<1> QED
  BY <1>3, <1>4, <1>5 DEF Outcome

\* Every step.
LEMMA TypeNext ==
  ASSUME TypeInv, [Next]_vars PROVE TypeInv'
<1>1. ASSUME NEW r \in Requests, Late(r) PROVE TypeInv'
  BY <1>1 DEF TypeInv, Late, registry, Expired
<1>2. ASSUME NEW t \in Tools, Unregister(t) \/ Register(t) PROVE TypeInv'
  BY <1>2 DEF TypeInv, Unregister, Register
<1>3. CASE OtherReturns
  BY <1>3, AgentAssumption DEF TypeInv, OtherReturns
<1>4. CASE ClearExecutions \/ UNCHANGED vars
  BY <1>4 DEF TypeInv, ClearExecutions, vars
<1> QED
  BY <1>1, <1>2, <1>3, <1>4, ProgressTypes, OutcomeTypes DEF Next

\* The start.
LEMMA TypeInit == Init => TypeInv
<1> SUFFICES ASSUME Init PROVE TypeInv
  OBVIOUS
<1>1. RecordOK(NewRequest)
  BY AgentAssumption DEF RecordOK, NewRequest, Stages
<1> QED
  BY <1>1, AgentAssumption DEF Init, InitChatService, TypeInv

\* The roles of the messages come from the other invariant.
LEMMA TypeOfInv == TypeInv /\ ChatInv => TypeOK
<1> SUFFICES ASSUME TypeInv, ChatInv PROVE TypeOK
  OBVIOUS
<1>1. ASSUME NEW r \in Requests, NEW i \in DOMAIN req[r].msgs
      PROVE  req[r].msgs[i].role \in {"user", "assistant"}
  <2>1. req[r].msgs \in Seq(Message)
    BY DEF ChatInv, TalkOK
  <2>2. req[r].msgs[i] \in Message
    BY <2>1
  <2> QED
    BY <2>2 DEF Message
<1> QED
  BY <1>1 DEF TypeInv, TypeOK, RecordOK

\* The types of the state; a request never calls the model more often than
\* MaxToolCalls (executeAgenticLoop), offers it tools of the startup only and
\* ends with one of the statuses of the handler (HandleChat).
THEOREM TypeInvariant == Spec => []TypeOK
<1>1. Spec => Init /\ [][Next]_vars
  BY DEF Spec
<1>2. TypeInv /\ [Next]_vars => TypeInv'
  BY TypeNext
<1>3. Spec => []TypeInv
  BY <1>1, <1>2, TypeInit, PTL
<1> QED
  BY <1>3, ChatOfSpec, TypeOfInv, PTL
===============================================================================
