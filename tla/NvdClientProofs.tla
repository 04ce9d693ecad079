-------------------------- MODULE NvdClientProofs --------------------------
(***************************************************************************)
(* The live client, for every set of components, every latency and every   *)
(* pattern of failures: it keeps NVD's rate limit and answers consistently.*)
(***************************************************************************)
EXTENDS NvdClient, SequenceTheorems, TLAPS

\* The request rate rests on _last_request never being older than the last
\* request once that is over, and on the sleep of _throttle counting from it.
PacingInv ==
    /\ pc = "wait" => sent # <<>>
    /\ sent # <<>> => now >= sent[Len(sent)]
    /\ sent # <<>> /\ pc # "wait" =>
          lastRequest \in Nat /\ lastRequest >= sent[Len(sent)]
    /\ sent # <<>> /\ pc = "sleep" => wake >= sent[Len(sent)] + Interval

\* Appending to a sequence of times makes the time its last element.
LEMMA LastAppended ==
    ASSUME NEW s \in Seq(Nat), NEW t \in Nat
    PROVE  /\ Append(s, t) \in Seq(Nat)
           /\ Append(s, t) # <<>>
           /\ Len(Append(s, t)) = Len(s) + 1
           /\ Append(s, t)[Len(Append(s, t))] = t
    OBVIOUS

\* The last element of a sequence of times is a time.
LEMMA LastIsTime ==
    ASSUME NEW s \in Seq(Nat), s # <<>>
    PROVE  s[Len(s)] \in Nat
    OBVIOUS

\* Whatever NVD answers for a component is a list of records.
LEMMA AnswersAreRecords ==
    ASSUME NEW l \in Lookup
    PROVE  MockAnswer[l] \in Records /\ NvdAnswers[l] \subseteq Records /\ KeyOf[l] \in Key
    BY ClientAssumption

\* The state of the client keeps its types: lookup stays inside its three
\* program points and the cache maps keys to lists of records.
THEOREM ClientTypeOK == Spec => []TypeOK
<1>1. Init => TypeOK
    BY ClientAssumption DEF Init, TypeOK, Empty
<1>2. TypeOK /\ [Next]_vars => TypeOK'
  <2> SUFFICES ASSUME TypeOK, [Next]_vars PROVE TypeOK'
    OBVIOUS
  <2>1. CASE Tick
    BY <2>1 DEF Tick, TypeOK
  <2>2. ASSUME NEW l \in Lookup, CacheHit(l) PROVE TypeOK'
    <3>1. cache[KeyOf[l]] \in Records
      BY <2>2 DEF CacheHit, Cached, TypeOK
    <3>2. DOMAIN returned' = {l} /\ returned' \in [{l} -> Records]
      BY <3>1, <2>2 DEF CacheHit, Cached
    <3> QED BY <3>2, <2>2 DEF CacheHit, Cached, TypeOK
  <2>3. ASSUME NEW l \in Lookup, CacheMiss(l) PROVE TypeOK'
    <3>1. wake' \in Nat
      BY <2>3, ClientAssumption DEF CacheMiss, TypeOK
    <3>2. DOMAIN returned' = {} /\ returned' \in [{} -> Records]
      BY <2>3 DEF CacheMiss, Empty
    <3> QED BY <3>1, <3>2, <2>3 DEF CacheMiss, TypeOK
  <2>4. CASE Send
    <3>1. sent' \in Seq(Nat)
      BY <2>4, LastAppended DEF Send, TypeOK
    <3> QED BY <3>1, <2>4 DEF Send, TypeOK
  <2>5. ASSUME NEW records \in Records, Answered(records), Finally,
               UNCHANGED <<now, wanted, wake, connection, sent>>
        PROVE  TypeOK'
    <3>1. KeyOf[wanted] \in Key
      BY AnswersAreRecords DEF TypeOK
    <3>2. DOMAIN cache' \subseteq Key /\ cache' \in [DOMAIN cache' -> Records]
      BY <2>5, <3>1 DEF Answered, TypeOK
    <3>3. DOMAIN returned' \subseteq Lookup /\ returned' \in [DOMAIN returned' -> Records]
      BY <2>5 DEF Answered, TypeOK
    <3> QED BY <2>5, <3>2, <3>3 DEF Finally, TypeOK
  <2>6. CASE Reply
    BY <2>5, <2>6, AnswersAreRecords DEF Reply, TypeOK
  <2>7. CASE Fallback
    BY <2>5, <2>7, AnswersAreRecords DEF Fallback, TypeOK
  <2>8. CASE Raise
    BY <2>8 DEF Raise, Finally, TypeOK
  <2>9. CASE Close
    BY <2>9 DEF Close, TypeOK
  <2>10. CASE UNCHANGED vars
    BY <2>10 DEF vars, TypeOK
  <2> QED BY <2>1, <2>2, <2>3, <2>4, <2>6, <2>7, <2>8, <2>9, <2>10 DEF Next
<1> QED BY <1>1, <1>2, PTL DEF Spec

\* What the rate rests on is preserved by every step.
LEMMA PacingKept == Spec => []PacingInv
<1>1. Init => PacingInv
    BY DEF Init, PacingInv
<1>2. TypeOK /\ PacingInv /\ [Next]_vars => PacingInv'
  <2> SUFFICES ASSUME TypeOK, PacingInv, [Next]_vars PROVE PacingInv'
    OBVIOUS
  <2>1. CASE Tick
    BY <2>1, LastIsTime DEF Tick, PacingInv, TypeOK
  <2>2. ASSUME NEW l \in Lookup, CacheHit(l) PROVE PacingInv'
    BY <2>2 DEF CacheHit, PacingInv
  <2>3. ASSUME NEW l \in Lookup, CacheMiss(l) PROVE PacingInv'
    <3>1. sent # <<>> => wake' >= sent[Len(sent)] + Interval
      BY <2>3, LastIsTime, ClientAssumption DEF CacheMiss, PacingInv, TypeOK
    <3> QED BY <3>1, <2>3 DEF CacheMiss, PacingInv
  <2>4. CASE Send
    <3>1. sent' # <<>> /\ sent'[Len(sent')] = now
      BY <2>4, LastAppended DEF Send, TypeOK
    <3> QED BY <3>1, <2>4 DEF Send, SleepOver, PacingInv, TypeOK
  <2>5. ASSUME Finally, UNCHANGED <<now, sent>> PROVE PacingInv'
    BY <2>5 DEF Finally, PacingInv, TypeOK
  <2>6. CASE Reply \/ Fallback \/ Raise
    BY <2>5, <2>6 DEF Reply, Fallback, Raise
  <2>7. CASE Close
    BY <2>7 DEF Close, PacingInv
  <2>8. CASE UNCHANGED vars
    BY <2>8 DEF vars, PacingInv
  <2> QED BY <2>1, <2>2, <2>3, <2>4, <2>6, <2>7, <2>8 DEF Next
<1> QED BY <1>1, <1>2, ClientTypeOK, PTL DEF Spec

\* The client implements the rate limit: every step of it sends a request that
\* is Interval after the last, lets time pass, or stutters.
THEOREM ClientImplementsRateLimit == Spec => ImplementsRateLimit
<1>1. Init => Pacing!Init
    BY DEF Init, Pacing!Init
<1>2. TypeOK /\ PacingInv /\ [Next]_vars => [Pacing!Next]_(Pacing!pacing)
  <2> SUFFICES ASSUME TypeOK, PacingInv, [Next]_vars
               PROVE  [Pacing!Next]_(Pacing!pacing)
    OBVIOUS
  <2>1. CASE Tick
    BY <2>1 DEF Tick, Pacing!Next, Pacing!Tick
  <2>2. CASE Send
    <3>1. sent # <<>> => now >= sent[Len(sent)] + Interval
      BY <2>2, LastIsTime, ClientAssumption DEF Send, SleepOver, PacingInv, TypeOK
    <3> QED BY <3>1, <2>2 DEF Send, Pacing!Next, Pacing!Send
  <2>3. ASSUME UNCHANGED <<now, sent>> PROVE UNCHANGED Pacing!pacing
    BY <2>3 DEF Pacing!pacing
  <2>4. CASE ~ (Tick \/ Send)
    BY <2>3, <2>4 DEF Next, vars, CacheHit, CacheMiss, Reply, Fallback, Raise, Close
  <2> QED BY <2>1, <2>2, <2>4
<1> QED BY <1>1, <1>2, ClientTypeOK, PacingKept, PTL DEF Spec, ImplementsRateLimit, Pacing!Spec

-----------------------------------------------------------------------------
(* The rate limit itself, for every Limit and Interval.                     *)

\* The specification keeps its types, and the last request is in the past.
LEMMA PacingTypeOK ==
    ASSUME Pacing!RateAssumption
    PROVE  Pacing!Spec => []Pacing!TypeOK
<1> USE DEF Pacing!RateAssumption
<1>1. Pacing!Init => Pacing!TypeOK
  BY DEF Pacing!Init, Pacing!TypeOK
<1>2. Pacing!TypeOK /\ [Pacing!Next]_(Pacing!pacing) => Pacing!TypeOK'
  <2> SUFFICES ASSUME Pacing!TypeOK, [Pacing!Next]_(Pacing!pacing)
               PROVE  Pacing!TypeOK'
    OBVIOUS
  <2>1. CASE Pacing!Tick
    BY <2>1 DEF Pacing!Tick, Pacing!TypeOK
  <2>2. CASE Pacing!Send
    BY <2>2, AppendProperties DEF Pacing!Send, Pacing!TypeOK
  <2>3. CASE UNCHANGED Pacing!pacing
    BY <2>3 DEF Pacing!pacing, Pacing!TypeOK
  <2>4. QED
    BY <2>1, <2>2, <2>3 DEF Pacing!Next
<1>3. QED
  BY <1>1, <1>2, PTL DEF Pacing!Spec

\* The product that spacing adds for one more request.
LEMMA OneMore ==
    ASSUME NEW m \in Int, NEW n \in Int
    PROVE  (m + 1) * n = m * n + n
BY SMT

\* One more request, Interval after the last, keeps all requests spaced.
LEMMA SendKeepsSpacing ==
    ASSUME Pacing!RateAssumption, Pacing!TypeOK, Pacing!Spaced, Pacing!Send
    PROVE  Pacing!Spaced'
<1> USE DEF Pacing!RateAssumption, Pacing!TypeOK
<1>1. sent' = Append(sent, now) /\ Len(sent') = Len(sent) + 1
  BY DEF Pacing!Send
<1>2. \A i \in DOMAIN sent : sent'[i] = sent[i]
  BY <1>1
<1> SUFFICES ASSUME NEW i \in DOMAIN sent', NEW j \in DOMAIN sent', i <= j
             PROVE  sent'[j] - sent'[i] >= (j - i) * Interval
  BY DEF Pacing!Spaced
<1>3. CASE j \in DOMAIN sent
  <2>1. i \in DOMAIN sent
    BY <1>1, <1>3
  <2>2. QED
    BY <2>1, <1>2, <1>3 DEF Pacing!Spaced
<1>4. CASE j \notin DOMAIN sent /\ i = j
  BY <1>1, <1>4
<1>5. CASE j \notin DOMAIN sent /\ i # j
  <2>1. j = Len(sent) + 1 /\ i \in DOMAIN sent /\ Len(sent) \in DOMAIN sent
    BY <1>1, <1>5
  <2>2. sent[Len(sent)] - sent[i] >= (Len(sent) - i) * Interval
    BY <2>1 DEF Pacing!Spaced
  <2>3. now >= sent[Len(sent)] + Interval
    BY <2>1 DEF Pacing!Send
  <2>4. sent'[j] = now /\ sent'[i] = sent[i]
    BY <1>1, <1>2, <2>1
  <2>5. (j - i) * Interval = (Len(sent) - i) * Interval + Interval
    <3>1. Len(sent) - i \in Int /\ j - i = (Len(sent) - i) + 1 /\ Interval \in Int
      BY <2>1
    <3>2. QED
      BY <3>1, OneMore
  <2>6. sent[i] \in Nat /\ sent[Len(sent)] \in Nat /\ (Len(sent) - i) * Interval \in Int
    BY <2>1
  <2>7. QED
    BY <2>2, <2>3, <2>4, <2>5, <2>6, SMTT(30)
<1>6. QED
  BY <1>3, <1>4, <1>5

\* Requests stay as far apart as the number of requests between them requires.
THEOREM RequestsSpaced ==
    ASSUME Pacing!RateAssumption
    PROVE  Pacing!Spec => []Pacing!Spaced
<1>1. Pacing!Init => Pacing!Spaced
  BY DEF Pacing!Init, Pacing!Spaced
<1>2. Pacing!TypeOK /\ Pacing!Spaced /\ [Pacing!Next]_(Pacing!pacing) => Pacing!Spaced'
  <2> SUFFICES ASSUME Pacing!TypeOK, Pacing!Spaced, [Pacing!Next]_(Pacing!pacing)
               PROVE  Pacing!Spaced'
    OBVIOUS
  <2>1. CASE Pacing!Send
    BY <2>1, SendKeepsSpacing
  <2>2. CASE Pacing!Tick \/ UNCHANGED Pacing!pacing
    BY <2>2 DEF Pacing!Tick, Pacing!pacing, Pacing!Spaced
  <2>3. QED
    BY <2>1, <2>2 DEF Pacing!Next
<1>3. QED
  BY <1>1, <1>2, PacingTypeOK, PTL DEF Pacing!Spec

\* Every window of the documented length holds at most Limit requests
\* (the min_interval of NvdClient and the delay of sync_database).
THEOREM WindowRespected ==
    ASSUME Pacing!RateAssumption
    PROVE  Pacing!Spec => []Pacing!LimitRespected
<1>1. Pacing!Spaced /\ Pacing!TypeOK => Pacing!LimitRespected
  <2> SUFFICES ASSUME Pacing!Spaced, Pacing!TypeOK, NEW i \in DOMAIN sent, i + Limit \in DOMAIN sent
               PROVE  sent[i + Limit] - sent[i] >= Pacing!Window
    BY DEF Pacing!LimitRespected
  <2>1. i \in Int /\ i <= i + Limit /\ (i + Limit) - i = Limit
    BY DEF Pacing!RateAssumption, Pacing!TypeOK
  <2>2. sent[i + Limit] - sent[i] >= ((i + Limit) - i) * Interval
    BY <2>1 DEF Pacing!Spaced
  <2>3. QED
    BY <2>1, <2>2 DEF Pacing!Window
<1>2. QED
  BY <1>1, RequestsSpaced, PacingTypeOK, PTL

\* No rolling window of 30 seconds sees more requests than NVD allows.
THEOREM ClientKeepsLimit == Spec => []LimitKept
<1>1. Pacing!RateAssumption
    BY ClientAssumption DEF Pacing!RateAssumption
<1>2. QED
    BY <1>1, ClientImplementsRateLimit, WindowRespected, PTL DEF ImplementsRateLimit, LimitKept

-----------------------------------------------------------------------------
\* An answer once given for a key stays the answer for it: lookup never asks
\* again, and nothing else writes the cache.
THEOREM RepeatedIsFree == Spec => []RepeatedCostsNothing
<1>1. Init => RepeatedCostsNothing
    BY DEF Init, RepeatedCostsNothing
<1>2. RepeatedCostsNothing /\ [Next]_vars => RepeatedCostsNothing'
    BY DEF RepeatedCostsNothing, Next, vars, Tick, CacheHit, CacheMiss, Cached, Send, Reply,
           Fallback, Raise, Finally, Close
<1> QED BY <1>1, <1>2, PTL DEF Spec

\* A request in flight is for a key that has no answer yet, so that no answer is
\* ever replaced.
THEOREM AnswersNeverChange == Spec => AnswersStay
<1>1. RepeatedCostsNothing /\ [Next]_vars =>
        [\A k \in DOMAIN cache : k \in DOMAIN cache' /\ cache'[k] = cache[k]]_vars
  <2> SUFFICES ASSUME RepeatedCostsNothing, [Next]_vars, NEW k \in DOMAIN cache
               PROVE  k \in DOMAIN cache' /\ cache'[k] = cache[k]
    OBVIOUS
  <2>1. ASSUME NEW records, Answered(records), pc = "wait"
        PROVE  k \in DOMAIN cache' /\ cache'[k] = cache[k]
    BY <2>1 DEF Answered, RepeatedCostsNothing
  <2>2. CASE Reply \/ Fallback
    BY <2>1, <2>2 DEF Reply, Fallback
  <2>3. CASE UNCHANGED cache
    BY <2>3
  <2> QED BY <2>2, <2>3 DEF Next, vars, Tick, CacheHit, CacheMiss, Send, Raise, Close
<1> QED BY <1>1, RepeatedIsFree, PTL DEF Spec, AnswersStay

\* What is cached under a key, a repeated component's later answers included, is
\* an answer to a component of that key, and lookup returns what is cached.
THEOREM AnswersBelong == Spec => []AnswersAreForTheirKey
<1>1. Init => AnswersAreForTheirKey
    BY DEF Init, Empty, AnswersAreForTheirKey
<1>2. TypeOK /\ AnswersAreForTheirKey /\ [Next]_vars => AnswersAreForTheirKey'
  <2> SUFFICES ASSUME TypeOK, AnswersAreForTheirKey, [Next]_vars
               PROVE  AnswersAreForTheirKey'
    OBVIOUS
  <2>1. wanted \in Lookup
    BY DEF TypeOK
  <2>2. ASSUME NEW records \in NvdAnswers[wanted] \cup {MockAnswer[wanted]},
               Answered(records)
        PROVE  AnswersAreForTheirKey'
    <3>1. ASSUME NEW k \in DOMAIN cache'
          PROVE  \E l \in Lookup :
                    KeyOf[l] = k /\ cache'[k] \in NvdAnswers[l] \cup {MockAnswer[l]}
      <4>1. CASE k = KeyOf[wanted]
        BY <2>1, <2>2, <4>1 DEF Answered
      <4>2. CASE k # KeyOf[wanted]
        BY <2>2, <3>1, <4>2 DEF Answered, AnswersAreForTheirKey
      <4> QED BY <4>1, <4>2
    <3>2. ASSUME NEW l \in DOMAIN returned'
          PROVE  KeyOf[l] \in DOMAIN cache' /\ returned'[l] = cache'[KeyOf[l]]
      BY <2>2, <3>2 DEF Answered
    <3> QED BY <3>1, <3>2 DEF AnswersAreForTheirKey
  <2>3. CASE Reply \/ Fallback
    BY <2>2, <2>3 DEF Reply, Fallback
  <2>4. ASSUME NEW l \in Lookup, CacheHit(l) PROVE AnswersAreForTheirKey'
    BY <2>4 DEF CacheHit, Cached, AnswersAreForTheirKey
  <2>5. ASSUME NEW l \in Lookup, CacheMiss(l) PROVE AnswersAreForTheirKey'
    BY <2>5 DEF CacheMiss, Empty, AnswersAreForTheirKey
  <2>6. CASE UNCHANGED <<cache, returned>>
    BY <2>6 DEF AnswersAreForTheirKey
  <2> QED BY <2>3, <2>4, <2>5, <2>6 DEF Next, vars, Tick, Send, Raise, Close
<1> QED BY <1>1, <1>2, ClientTypeOK, PTL DEF Spec
=============================================================================
