------------------------------ MODULE NvdSync ------------------------------
(***************************************************************************)
(* One run of the cache synchronisation: sync_database and _sync_component *)
(* of cve_db/sync.py, with the clock they pace themselves by.  The file    *)
(* they write is CveCache's subject; here a page is only its number and    *)
(* the totalResults it came with.                                          *)
(***************************************************************************)
EXTENDS Integers, Sequences

CONSTANTS
    Names,          \* component names, in order
    PageSize,       \* PAGE_SIZE
    MaxPages,       \* MAX_PAGES
    Totals,         \* what any answer may give as totalResults
    NoTotal,        \* no integer is given
    Limit,          \* requests NVD allows in 30 seconds: 50 with an API key, else 5
    Interval,       \* delay = 30 / Limit, in ticks
    Timeout,        \* the longest a request may take, in ticks
    Oversleep       \* how much longer than asked asyncio.sleep may take

ASSUME SyncAssumption ==
    /\ Names \in Seq(STRING)
    /\ PageSize \in Nat \ {0} /\ MaxPages \in Nat \ {0}
    /\ Totals \subseteq Nat /\ NoTotal \notin Nat
    /\ Limit \in Nat \ {0} /\ Interval \in Nat
    /\ Timeout \in Nat /\ Oversleep \in Nat

VARIABLES
    now, sent,      \* the clock, and the times of the requests
    pc,
    wake,           \* when the sleep is over
    index,          \* position in Names (from 1)
    page,           \* _sync_component's page
    startIndex,     \* _sync_component's start_index
    total,          \* totalResults of the page being written
    client,         \* httpx client: "passed" in, or own: "none", "open", "closed"
    requests        \* history variable: [name index, startIndex] of the requests

vars == <<now, sent, pc, wake, index, page, startIndex, total, client, requests>>

Init ==
    /\ now = 0 /\ sent = <<>>
    /\ pc = "initialize"
    /\ wake = 0
    /\ index = 1 /\ page = 0 /\ startIndex = 0
    /\ total = NoTotal
    /\ client \in {"none", "passed"}
    /\ requests = <<>>

Tick ==
    /\ \/ pc = "sleep" /\ now < wake + Oversleep
       \/ pc = "wait" /\ now < sent[Len(sent)] + Timeout
    /\ now' = now + 1
    /\ UNCHANGED <<sent, pc, wake, index, page, startIndex, total, client, requests>>

\* await database.initialize(), before the client exists and outside the try.
Initialize ==
    /\ pc = "initialize"
    /\ \/ /\ client' = IF client = "none" THEN "open" ELSE client
          /\ pc' = IF Names = <<>> THEN "close" ELSE "request"
       \/ client' = client /\ pc' = "raised"
    /\ UNCHANGED <<now, sent, wake, index, page, startIndex, total, requests>>

Request ==
    /\ \/ pc = "request"
       \/ pc = "sleep" /\ now >= wake
    /\ sent' = Append(sent, now)
    /\ requests' = Append(requests, [name |-> index, start |-> startIndex])
    /\ pc' = "wait"
    /\ UNCHANGED <<now, wake, index, page, startIndex, total, client>>

\* Mutant of Sleep: the delay is not awaited.
NoSleep == UNCHANGED wake /\ pc' = "request"

\* Every request but the very first is preceded by sleep(delay).
Sleep == wake' = now + Interval /\ pc' = "sleep"

\* Mutant of NextComponent: the next one starts where the last one ended.
NextComponentKeepsIndex ==
    /\ page' = 0 /\ UNCHANGED startIndex
    /\ index' = index + 1
    /\ \/ index < Len(Names) /\ Sleep
       \/ index = Len(Names) /\ pc' = "close" /\ UNCHANGED wake

\* _sync_component returned: the loop of sync_database goes on, or is over.
NextComponent ==
    /\ page' = 0 /\ startIndex' = 0
    /\ index' = index + 1
    /\ \/ index < Len(Names) /\ Sleep
       \/ index = Len(Names) /\ pc' = "close" /\ UNCHANGED wake

\* HTTPError, TypeError or ValueError, from the request or from _records.
Fail ==
    /\ pc = "wait"
    /\ NextComponent
    /\ UNCHANGED <<now, sent, total, client, requests>>

\* Whatever was said before, there may always be one CVE more than the page ends
\* with: NVD grows while it is read.
Answer ==
    /\ pc = "wait"
    /\ total' \in Totals \cup {NoTotal, startIndex + PageSize + 1}
    /\ pc' = "upsert"
    /\ UNCHANGED <<now, sent, wake, index, page, startIndex, client, requests>>

\* Mutant of MorePages: totalResults alone ends the loop.
MorePagesUncapped == total # NoTotal /\ startIndex + PageSize < total

MorePages == total # NoTotal /\ startIndex + PageSize < total /\ page + 1 < MaxPages

Upsert ==
    /\ pc = "upsert"
    /\ \/ /\ MorePages
          /\ page' = page + 1
          /\ startIndex' = startIndex + PageSize
          /\ Sleep
          /\ UNCHANGED index
       \/ /\ ~MorePages
          /\ NextComponent
    /\ UNCHANGED <<now, sent, total, client, requests>>

\* _upsert is outside the try of _sync_component: a database error passes
\* through both functions, by way of the finally clause.
UpsertRaises ==
    /\ pc = "upsert"
    /\ pc' = "unwind"
    /\ UNCHANGED <<now, sent, wake, index, page, startIndex, total, client, requests>>

Close ==
    /\ pc \in {"close", "unwind"}
    /\ client' = IF client = "open" THEN "closed" ELSE client
    /\ pc' = IF pc = "close" THEN "returned" ELSE "raised"
    /\ UNCHANGED <<now, sent, wake, index, page, startIndex, total, requests>>

\* The command is over.
Ended == pc \in {"returned", "raised"} /\ UNCHANGED vars

Step == Initialize \/ Request \/ Fail \/ Answer \/ Upsert \/ UpsertRaises \/ Close

Next == Tick \/ Step \/ Ended

Spec == Init /\ [][Next]_vars

-----------------------------------------------------------------------------
(* Properties.                                                              *)

TypeOK ==
    /\ now \in Nat /\ sent \in Seq(Nat)
    /\ pc \in {"initialize", "request", "sleep", "wait", "upsert", "close", "unwind",
               "returned", "raised"}
    /\ wake \in Nat
    /\ index \in 1 .. Len(Names) + 1
    /\ pc = "initialize" => index = 1
    /\ pc \in {"request", "sleep", "wait", "upsert"} => index <= Len(Names)
    /\ page \in 0 .. MaxPages - 1
    /\ startIndex = page * PageSize
    /\ total \in Nat \cup {NoTotal}
    /\ client \in {"none", "open", "closed", "passed"}
    /\ requests \in Seq([name : 1 .. Len(Names), start : Nat])
    /\ Len(requests) = Len(sent)

\* The synchronisation implements the rate limit: pages, components and failed
\* requests alike are Interval apart ("API-key-aware rate limiting").
Pacing == INSTANCE RateLimit
ImplementsRateLimit == Pacing!Spec

\* The pages of a component are asked for once each, in order and without a gap,
\* and the components one after the other; a failure never skips a component.  A
\* sync that returns has asked NVD about every name, and no sync sends more than
\* MAX_PAGES requests for one, even when totalResults never stops growing.
PagesInOrder ==
    /\ requests # <<>> => requests[1] = [name |-> 1, start |-> 0]
    /\ \A i \in 2 .. Len(requests) :
          LET before == requests[i - 1] IN
          requests[i] \in {[name |-> before.name, start |-> before.start + PageSize],
                           [name |-> before.name + 1, start |-> 0]}
    /\ pc = "returned" =>
          \A i \in 1 .. Len(Names) : \E j \in DOMAIN requests : requests[j].name = i
    /\ \A j \in DOMAIN requests : requests[j].start < MaxPages * PageSize

\* What a page costs at most: the delay before it and the request itself.
PerPage == Interval + Oversleep + Timeout

\* However much NVD's totals grow while they are read, and however often it fails,
\* the sync has stopped waiting after MAX_PAGES pages of every name: the time it
\* spends in sleeps and requests, over all components, is bounded.
SyncBounded == now <= Len(Names) * MaxPages * PerPage
=============================================================================
