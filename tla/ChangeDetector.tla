---------------------------- MODULE ChangeDetector ----------------------------
(***************************************************************************)
(* The change detector of internal/realtime/detector.go, for the sources   *)
(* of one host: checkForChanges fetches a page, hashes what                *)
(* normalizeContent leaves of it, compares with the hash in Redis,         *)
(* publishes an event on a change and stores the hash.  A source is        *)
(* checked by its monitorSource goroutine and, beside it, by callers of    *)
(* ForceCheck or by the detector of another process.                       *)
(***************************************************************************)
EXTENDS Integers, Sequences, FiniteSets

CONSTANTS
    Checkers,    \* the threads that call checkForChanges
    Monitors,    \* the ones that are monitorSource goroutines Start made
    Sources,     \* URLs of one host
    UrlOf,       \* [Checkers -> Sources]
    Templates,   \* the kinds of page: sequences of PageTokens
    Texts,       \* bound: a page's text is 1 .. Texts, and only grows
    Noise,       \* the dynamic values a page may show
    MaxRetries,
    Faults,      \* what may fail, a subset of FaultKinds
    MaxFaults    \* bound: how often something fails

PageTokens == {"text", "pattern", "value", "quote"}
FaultKinds == {"fetch", "get", "publish", "set", "crash"}

ASSUME DetectorAssumption ==
    /\ Monitors \subseteq Checkers
    /\ UrlOf \in [Checkers -> Sources]
    /\ Templates \subseteq Seq(PageTokens)
    /\ {"none", "nil"} \cap Noise = {}   \* they stand for no value and no hash
    /\ Texts \in Nat \ {0} /\ MaxRetries \in Nat /\ MaxFaults \in Nat
    /\ Faults \subseteq FaultKinds

VARIABLES
    page,      \* [Sources -> [template, text]]: what a source shows
    stored,    \* [Sources -> hash]: "content_hash:<url>" in Redis
    limiters,  \* the keys of d.limiters and their limiters: one host, a set
    check,     \* [Checkers -> [pc, attempt, hash, limiter]]
    stop,      \* Stop: "running", "cancelled", "stopped"
    told,      \* history: [Sources -> the hashes that were published, and those of
               \* the first checks, which found none stored]
    lead,      \* history: [Checkers -> its events less the changes of the stored
               \* hash of its page, from -1]
    faults     \* how often something failed

history == <<told, lead>>
vars == <<page, stored, limiters, check, stop, history, faults>>

-----------------------------------------------------------------------------
(* The content *)

\* normalizeContent: the first occurrence of a pattern goes, with what follows up
\* to a quote, an ampersand or a space.
Normalize(s) ==
    IF \A i \in DOMAIN s : s[i] # "pattern" THEN s
    ELSE LET from == CHOOSE i \in DOMAIN s :
                       s[i] = "pattern" /\ \A j \in 1 .. i - 1 : s[j] # "pattern"
             ends == {i \in from + 1 .. Len(s) : s[i] = "quote"}
             end  == IF ends = {} THEN Len(s) + 1
                     ELSE CHOOSE i \in ends : \A j \in ends : i <= j
         IN SubSeq(s, 1, from - 1) \o SubSeq(s, end, Len(s))

\* The hash of the page p shown with the dynamic value n: what is left of it.
HashOf(p, n) ==
    LET tokens == Normalize(p.template) IN
    [text  |-> IF \E i \in DOMAIN tokens : tokens[i] = "text" THEN p.text ELSE 0,
     noise |-> IF \E i \in DOMAIN tokens : tokens[i] = "value" THEN n ELSE "none"]

Hashes == [text : 0 .. Texts, noise : Noise \cup {"none"}]
NoHash == [text |-> 0, noise |-> "nil"]      \* redis.Nil, the empty string
Pages == [template : Templates, text : 1 .. Texts]

-----------------------------------------------------------------------------

IdleCheck == [pc |-> "idle", attempt |-> 0, hash |-> NoHash, limiter |-> 0]

Init ==
    /\ page \in [Sources -> Pages] /\ \A u \in Sources : page[u].text = 1
    /\ stored = [u \in Sources |-> NoHash]
    /\ limiters = {}
    /\ check = [t \in Checkers |-> IdleCheck]
    /\ stop = "running"
    /\ told = [u \in Sources |-> {}]
    /\ lead = [t \in Checkers |-> 0]
    /\ faults = 0

\* Every call made with a cancelled context fails.  That is no fault of the
\* environment and is not counted.
Cancelled(t) == t \in Monitors /\ stop # "running"
MayFail(t, kind) == Cancelled(t) \/ (kind \in Faults /\ faults < MaxFaults)
Count(t) == faults' = IF Cancelled(t) THEN faults ELSE faults + 1

Go(t, pc) == check' = [check EXCEPT ![t].pc = pc]
End(t) == check' = [check EXCEPT ![t] = IdleCheck]

-----------------------------------------------------------------------------
(* checkForChanges *)

\* The ticker of a monitor, or a call of ForceCheck; getLimiter looks for the
\* host's limiter under RLock.  select may prefer the ticker to ctx.Done.
Begin(t) ==
    /\ check[t].pc = "idle"
    /\ check' = [check EXCEPT ![t].pc = IF limiters = {} THEN "limiter" ELSE "wait",
                              ![t].limiter = IF limiters = {} THEN 0
                                             ELSE CHOOSE l \in limiters : TRUE]
    /\ UNCHANGED <<page, stored, limiters, stop, history, faults>>

\* A monitor returns when its context is cancelled.
Exit(t) ==
    /\ check[t].pc = "idle" /\ Cancelled(t)
    /\ Go(t, "exited")
    /\ UNCHANGED <<page, stored, limiters, stop, history, faults>>

\* getLimiter with the write lock: looks again before it makes one.
Fresh == CHOOSE l \in 1 .. Cardinality(limiters) + 1 : l \notin limiters
\* Faulty variant: without the second look.
MakeLimiterBlindly(t) ==
    /\ check[t].pc = "limiter"
    /\ limiters' = limiters \cup {Fresh}
    /\ check' = [check EXCEPT ![t].pc = "wait", ![t].limiter = Fresh]
    /\ UNCHANGED <<page, stored, stop, history, faults>>

MakeLimiter(t) ==
    /\ check[t].pc = "limiter"
    /\ limiters' = IF limiters = {} THEN {Fresh} ELSE limiters
    /\ check' = [check EXCEPT ![t].pc = "wait",
                              ![t].limiter = CHOOSE l \in limiters' : TRUE]
    /\ UNCHANGED <<page, stored, stop, history, faults>>

\* limiter.Wait: lets the check go on, or returns the context's error.
WaitForRateLimit(t) ==
    /\ check[t].pc = "wait"
    /\ IF Cancelled(t) THEN End(t) ELSE Go(t, "fetch")
    /\ UNCHANGED <<page, stored, limiters, stop, history, faults>>

\* Faulty variant: a monitor gives its page up when the retries are used up.
FetchGivesUp(t) ==
    /\ check[t].pc = "fetch"
    /\ \/ /\ ~Cancelled(t)
          /\ \E n \in Noise :
                check' = [check EXCEPT ![t] = [pc |-> "get", attempt |-> 0,
                            hash |-> HashOf(page[UrlOf[t]], n), limiter |-> 0]]
          /\ UNCHANGED faults
       \/ /\ MayFail(t, "fetch") /\ Count(t)
          /\ IF check[t].attempt < MaxRetries /\ ~Cancelled(t)
               THEN check' = [check EXCEPT ![t].attempt = @ + 1] ELSE Go(t, "exited")
    /\ UNCHANGED <<page, stored, limiters, stop, history>>

\* One attempt of fetchWithRetry.
Fetch(t) ==
    /\ check[t].pc = "fetch"
    /\ \/ /\ ~Cancelled(t)
          /\ \E n \in Noise :
                check' = [check EXCEPT ![t] = [pc |-> "get", attempt |-> 0,
                            hash |-> HashOf(page[UrlOf[t]], n), limiter |-> 0]]
          /\ UNCHANGED faults
       \/ /\ MayFail(t, "fetch") /\ Count(t)
          /\ IF check[t].attempt < MaxRetries /\ ~Cancelled(t)
               THEN check' = [check EXCEPT ![t].attempt = @ + 1] ELSE End(t)
    /\ UNCHANGED <<page, stored, limiters, stop, history>>

\* After the hash in Redis is known: publish, store, or nothing to do.  A first
\* check has no previous hash; neither has one whose Get fails.
Compare(t, prev) ==
    IF check[t].hash = prev THEN End(t)
    ELSE Go(t, IF prev # NoHash THEN "publish" ELSE "set")

GetPrevious(t) ==
    /\ check[t].pc = "get"
    /\ \/ /\ ~Cancelled(t) /\ Compare(t, stored[UrlOf[t]])
          /\ told' = IF stored[UrlOf[t]] # NoHash THEN told
                     ELSE [told EXCEPT ![UrlOf[t]] = @ \cup {check[t].hash}]
          /\ UNCHANGED faults
       \/ MayFail(t, "get") /\ Count(t) /\ Compare(t, NoHash) /\ UNCHANGED told
    /\ UNCHANGED <<page, stored, limiters, stop, lead>>

Published(t) ==
    /\ told' = [told EXCEPT ![UrlOf[t]] = @ \cup {check[t].hash}]
    /\ lead' = [lead EXCEPT ![t] = @ + 1]

\* SET.  A change of the stored hash is one more that its checkers may announce.
Stored(t) ==
    LET u == UrlOf[t]
        changed == stored[u] \notin {NoHash, check[t].hash} IN
    /\ stored' = [stored EXCEPT ![u] = check[t].hash]
    /\ lead' = [s \in Checkers |-> IF changed /\ UrlOf[s] = u /\ lead[s] > -1
                                   THEN lead[s] - 1 ELSE lead[s]]

\* Faulty variants: an error does not end the check; a success does.
PublishGoesOn(t) ==
    /\ check[t].pc = "publish"
    /\ \/ Published(t) /\ UNCHANGED faults
       \/ MayFail(t, "publish") /\ Count(t) /\ UNCHANGED <<told, lead>>
    /\ Go(t, "set")
    /\ UNCHANGED <<page, stored, limiters, stop>>

PublishEnds(t) ==
    /\ check[t].pc = "publish"
    /\ Published(t) /\ End(t)
    /\ UNCHANGED <<page, stored, limiters, stop, faults>>

\* On an error the check ends and the hash is not stored.  The stream may have
\* taken the event all the same: its acknowledgement was lost.
Publish(t) ==
    /\ check[t].pc = "publish"
    /\ \/ ~Cancelled(t) /\ Published(t) /\ Go(t, "set") /\ UNCHANGED faults
       \/ /\ MayFail(t, "publish") /\ Count(t) /\ End(t)
          /\ Published(t) \/ UNCHANGED <<told, lead>>
    /\ UNCHANGED <<page, stored, limiters, stop>>

\* The check ends whether Redis took the hash or not; an error need not mean that it
\* did not.  (A SET that Stop interrupts is done before Stop, or not at all.)
StoreHash(t) ==
    /\ check[t].pc = "set"
    /\ \/ ~Cancelled(t) /\ Stored(t) /\ UNCHANGED faults
       \/ /\ MayFail(t, "set") /\ Count(t)
          /\ (~Cancelled(t) /\ Stored(t)) \/ UNCHANGED <<stored, lead>>
    /\ End(t)
    /\ UNCHANGED <<page, limiters, stop, told>>

CheckStep(t) == Begin(t) \/ Exit(t) \/ MakeLimiter(t) \/ WaitForRateLimit(t)
                  \/ Fetch(t) \/ GetPrevious(t) \/ Publish(t) \/ StoreHash(t)

-----------------------------------------------------------------------------
(* Stop *)

StopCancel ==
    /\ stop = "running"
    /\ stop' = "cancelled"
    /\ UNCHANGED <<page, stored, limiters, check, history, faults>>

\* Faulty variant: the callers of ForceCheck are waited for as well.
StopDoneAll ==
    /\ stop = "cancelled" /\ \A t \in Checkers : check[t].pc = "exited"
    /\ stop' = "stopped"
    /\ UNCHANGED <<page, stored, limiters, check, history, faults>>

\* wg.Wait returns: every monitor has.
StopDone ==
    /\ stop = "cancelled" /\ \A t \in Monitors : check[t].pc = "exited"
    /\ stop' = "stopped"
    /\ UNCHANGED <<page, stored, limiters, check, history, faults>>

-----------------------------------------------------------------------------
(* The environment *)

PageChanges(u) ==
    /\ page[u].text < Texts
    /\ page' = [page EXCEPT ![u].text = @ + 1]
    /\ UNCHANGED <<stored, limiters, check, stop, history, faults>>

\* The process dies and Start is called again: Redis and the stream remain.
Crash ==
    /\ "crash" \in Faults /\ faults < MaxFaults /\ stop = "running"
    /\ check' = [t \in Checkers |-> IdleCheck]
    /\ limiters' = {}
    /\ faults' = faults + 1
    /\ UNCHANGED <<page, stored, stop, history>>

Next ==
    \/ \E t \in Checkers : CheckStep(t)
    \/ StopCancel \/ StopDone
    \/ \E u \in Sources : PageChanges(u)
    \/ Crash

Spec == Init /\ [][Next]_vars

\* Monitors tick for ever, and Go runs every goroutine that can run; a caller of
\* ForceCheck who has started goes on.  Nobody has to stop the detector.
Busy(t) == check[t].pc \notin {"idle", "exited"} /\ CheckStep(t)
FairSpec ==
    /\ Spec
    /\ \A t \in Checkers : WF_vars(Busy(t))
    /\ \A t \in Monitors : WF_vars(CheckStep(t)) /\ SF_vars(Exit(t))
    /\ WF_vars(StopDone)

-----------------------------------------------------------------------------
(* Properties *)

CheckPcs ==
    {"idle", "limiter", "wait", "fetch", "get", "publish", "set", "exited"}
CheckRecords == [pc : CheckPcs, attempt : 0 .. MaxRetries,
                 hash : Hashes \cup {NoHash}, limiter : Nat]

\* The values the variables take.
TypeOK ==
    /\ page \in [Sources -> Pages]
    /\ stored \in [Sources -> Hashes \cup {NoHash}]
    /\ limiters \subseteq Nat
    /\ check \in [Checkers -> CheckRecords]
    /\ stop \in {"running", "cancelled", "stopped"}
    /\ told \in [Sources -> SUBSET Hashes]
    /\ lead \in [Checkers -> Int] /\ \A t \in Checkers : lead[t] >= -1
    /\ faults \in 0 .. MaxFaults

\* The checks of one host wait on one limiter, although they look for it and make
\* it in two critical sections.
OneLimiterPerHost ==
    \A s, t \in Checkers :
        check[s].pc \in {"wait", "fetch"} /\ check[t].pc \in {"wait", "fetch"}
            => check[s].limiter = check[t].limiter

\* Redis holds a hash that no first check of the page fetched only when its event
\* is in the stream: the event comes before the store, so no failure of either, no
\* crash between them and no other check of the page loses a change.
StoredWasPublished ==
    \A u \in Sources :
        stored[u] # NoHash => stored[u] \in told[u]

\* However many check a page and whatever it shows, no checker announces more than
\* the changes of the stored hash since any earlier moment, but for the one it is
\* about to store, one for each failure, and the one that Stop cut off.
OneEventPerChange ==
    \A t \in Checkers :
        lead[t] <= faults + (IF check[t].pc = "set" \/ Cancelled(t) THEN 1 ELSE 0)

\* Unless it is stopped, the detector comes to know the last version of a page,
\* and has announced it if no first check of the page saw it.
CatchesUp ==
    \A u \in {UrlOf[t] : t \in Monitors} :
        <>[]( \/ stop # "running"
              \/ /\ stored[u].text = page[u].text
                 /\ stored[u] \in told[u])

\* "Stop gracefully stops the change detector": its monitors end, whatever check
\* they are in.
StopEnds == (stop = "cancelled") ~> (stop = "stopped")
===============================================================================
