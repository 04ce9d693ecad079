----------------------------- MODULE NvdClient -----------------------------
(***************************************************************************)
(* The live NVD client of a scan (nvd.py, class NvdClient): it throttles   *)
(* requests, caches answers by (name, version), falls back to the local    *)
(* mock data when a request fails, and closes the connection it owns.      *)
(***************************************************************************)
EXTENDS Integers, Sequences

CONSTANTS
    Lookup,         \* (name, version) pairs as the inventory spells them
    Key, KeyOf,     \* cache keys, and the key of each pair: name lower-cased, version stripped
    Records,        \* lists of CVE records
    NvdAnswers,     \* [Lookup -> lists NVD may answer with]
    MockAnswer,     \* [Lookup -> mock_lookup's list]
    Limit,          \* requests NVD allows in 30 seconds: 50 with an API key, else 5
    Interval,       \* _min_interval = 30 / Limit, in ticks
    Timeout,        \* httpx timeout, in ticks
    Oversleep,      \* how much longer than asked time.sleep may take
    NoTime,         \* None, as a time
    MaxRequests,    \* bound: requests of a behaviour
    MaxIdle         \* bound: how far the clock runs between lookups

ASSUME ClientAssumption ==
    /\ KeyOf \in [Lookup -> Key]
    /\ NvdAnswers \in [Lookup -> SUBSET Records]
    /\ MockAnswer \in [Lookup -> Records]
    /\ Limit \in Nat \ {0}
    /\ Interval \in Nat /\ Timeout \in Nat /\ Oversleep \in Nat
    /\ NoTime \notin Nat
    /\ MaxRequests \in Nat /\ MaxIdle \in Nat

VARIABLES
    now,            \* time.monotonic
    pc,             \* where lookup is
    wanted,         \* its argument
    wake,           \* when the sleep of _throttle is over
    lastRequest,    \* _last_request
    cache,          \* _cache
    connection,     \* _client: "none", "open" or "injected"
    returned,       \* the list lookup returned last, or the empty function
    sent            \* history variable: times of the requests

vars == <<now, pc, wanted, wake, lastRequest, cache, connection, returned, sent>>

Empty == [l \in {} |-> 0]

Init ==
    /\ now = 0
    /\ pc = "idle"
    /\ wanted \in Lookup
    /\ wake = 0
    /\ lastRequest = NoTime
    /\ cache = Empty
    /\ connection \in {"none", "injected"}
    /\ returned = Empty
    /\ sent = <<>>

\* The clock runs while lookup waits for it, and a bounded while otherwise.
Tick ==
    /\ \/ pc = "idle" /\ now < MaxIdle
       \/ pc = "sleep" /\ now < wake + Oversleep
       \/ pc = "wait" /\ now < sent[Len(sent)] + Timeout
    /\ now' = now + 1
    /\ UNCHANGED <<pc, wanted, wake, lastRequest, cache, connection, returned, sent>>

\* Mutant of Cached: the cache is probed with the spelling of the inventory.
CachedAsSpelled(l) == l \in DOMAIN cache
Cached(l) == KeyOf[l] \in DOMAIN cache

CacheHit(l) ==
    /\ pc = "idle" /\ Cached(l)
    /\ wanted' = l
    /\ returned' = [k \in {l} |-> cache[KeyOf[l]]]
    /\ UNCHANGED <<now, pc, wake, lastRequest, cache, connection, sent>>

\* A miss enters _throttle: the first request goes at once, a later one sleeps
\* for what is left of the interval.
CacheMiss(l) ==
    /\ pc = "idle" /\ ~Cached(l)
    /\ Len(sent) < MaxRequests
    /\ wanted' = l
    /\ returned' = Empty
    /\ wake' = IF lastRequest = NoTime THEN now ELSE lastRequest + Interval
    /\ pc' = "sleep"
    /\ UNCHANGED <<now, lastRequest, cache, connection, sent>>

SleepOver == now >= wake

\* _http opens the owned connection when there is none, then the request is sent.
Send ==
    /\ pc = "sleep" /\ SleepOver
    /\ connection' = IF connection = "none" THEN "open" ELSE connection
    /\ sent' = Append(sent, now)
    /\ pc' = "wait"
    /\ UNCHANGED <<now, wanted, wake, lastRequest, cache, returned>>

\* Mutant of Finally: the time of the request is not kept.
NoFinally == lastRequest' = lastRequest /\ pc' = "idle"

\* The finally clause runs whatever the request did.
Finally == lastRequest' = now /\ pc' = "idle"

Answered(records) ==
    /\ cache' = [k \in DOMAIN cache \cup {KeyOf[wanted]} |->
                    IF k = KeyOf[wanted] THEN records ELSE cache[k]]
    /\ returned' = [l \in {wanted} |-> records]

Reply ==
    /\ pc = "wait"
    /\ Finally
    /\ \E records \in NvdAnswers[wanted] : Answered(records)
    /\ UNCHANGED <<now, wanted, wake, connection, sent>>

\* Mutant of Fallback: the mock data is answered and not cached.
FallbackUncached ==
    /\ pc = "wait"
    /\ Finally
    /\ returned' = [l \in {wanted} |-> MockAnswer[wanted]]
    /\ UNCHANGED <<now, wanted, wake, cache, connection, sent>>

\* HTTPError, TypeError or ValueError: the mock data is answered, and cached.
Fallback ==
    /\ pc = "wait"
    /\ Finally
    /\ Answered(MockAnswer[wanted])
    /\ UNCHANGED <<now, wanted, wake, connection, sent>>

\* Any other exception leaves lookup with nothing cached.
Raise ==
    /\ pc = "wait"
    /\ Finally
    /\ UNCHANGED <<now, wanted, wake, cache, connection, returned, sent>>

\* close, or leaving the with block; the client can be used again afterwards.
Close ==
    /\ pc = "idle"
    /\ connection = "open"
    /\ connection' = "none"
    /\ UNCHANGED <<now, pc, wanted, wake, lastRequest, cache, returned, sent>>

Next ==
    \/ Tick
    \/ \E l \in Lookup : CacheHit(l) \/ CacheMiss(l)
    \/ Send \/ Reply \/ Fallback \/ Raise
    \/ Close

Spec == Init /\ [][Next]_vars

-----------------------------------------------------------------------------
(* Properties.                                                              *)

TypeOK ==
    /\ now \in Nat
    /\ pc \in {"idle", "sleep", "wait"}
    /\ wanted \in Lookup
    /\ wake \in Nat
    /\ lastRequest \in Nat \cup {NoTime}
    /\ DOMAIN cache \subseteq Key /\ cache \in [DOMAIN cache -> Records]
    /\ connection \in {"none", "open", "injected"}
    /\ DOMAIN returned \subseteq Lookup /\ returned \in [DOMAIN returned -> Records]
    /\ sent \in Seq(Nat)

\* The client implements the rate limit: whatever the latencies, failures and
\* pauses of the scan, its requests are Interval apart.
Pacing == INSTANCE RateLimit
ImplementsRateLimit == Pacing!Spec

\* "5 requests per rolling 30 seconds without a key and 50 with one."
LimitKept == Pacing!LimitRespected

\* A list once returned for a key is the one returned for it ever after, also
\* when it is the mock data of a failed request (the docstring: "caches by
\* (name, version)").
AnswersStay ==
    [][\A k \in DOMAIN cache : k \in DOMAIN cache' /\ cache'[k] = cache[k]]_vars

\* "A repeated component costs nothing": no request is sent, nor slept for, when
\* a component with the same key has been answered.
RepeatedCostsNothing == pc # "idle" => KeyOf[wanted] \notin DOMAIN cache

\* Every cached list is the answer of NVD, or of the mock data, to a component
\* of that key, and lookup returns the cached list.
AnswersAreForTheirKey ==
    /\ \A k \in DOMAIN cache :
          \E l \in Lookup : KeyOf[l] = k /\ cache[k] \in NvdAnswers[l] \cup {MockAnswer[l]}
    /\ \A l \in DOMAIN returned :
          KeyOf[l] \in DOMAIN cache /\ returned[l] = cache[KeyOf[l]]
=============================================================================
