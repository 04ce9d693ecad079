----------------------------- MODULE RateLimit -----------------------------
(***************************************************************************)
(* What NVD asks of its clients: at most Limit requests in any rolling     *)
(* window (5 in 30 seconds, 50 with an API key).  Both the live client     *)
(* (nvd.py) and the cache synchronisation (cve_db/sync.py) keep to it by   *)
(* spacing requests Interval = Window / Limit apart; they implement this   *)
(* specification.                                                          *)
(***************************************************************************)
EXTENDS Integers, Sequences

CONSTANTS Limit,        \* requests allowed in a window
          Interval      \* ticks between two requests

\* What is known of the constants where this module is instantiated.
RateAssumption == Limit \in Nat \ {0} /\ Interval \in Nat

VARIABLES now,          \* the clock
          sent          \* times at which requests were sent, oldest first

pacing == <<now, sent>>

Window == Limit * Interval

Init == now = 0 /\ sent = <<>>

Tick == now' = now + 1 /\ UNCHANGED sent

Send ==
    /\ sent # <<>> => now >= sent[Len(sent)] + Interval
    /\ sent' = Append(sent, now)
    /\ UNCHANGED now

Next == Tick \/ Send

Spec == Init /\ [][Next]_pacing

-----------------------------------------------------------------------------

TypeOK == now \in Nat /\ sent \in Seq(Nat)

\* Any two requests are as far apart as the requests between them require.
Spaced ==
    \A i, j \in DOMAIN sent : i <= j => sent[j] - sent[i] >= (j - i) * Interval

\* No window of the documented length, wherever it starts, sees more than Limit
\* requests: the request Limit places later falls outside it.
LimitRespected ==
    \A i \in DOMAIN sent :
        i + Limit \in DOMAIN sent => sent[i + Limit] - sent[i] >= Window
=============================================================================
