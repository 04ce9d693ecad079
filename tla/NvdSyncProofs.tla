--------------------------- MODULE NvdSyncProofs ---------------------------
(***************************************************************************)
(* The synchronisation, for every list of names, every page size and every *)
(* pattern of answers and failures: it paces its requests, asks for the     *)
(* pages of every component in order, and stops waiting within a bound.    *)
(***************************************************************************)
EXTENDS NvdSync, TLAPS

\* The product that one more page adds.
LEMMA OnePage ==
    ASSUME NEW m \in Int, NEW n \in Int
    PROVE  (m + 1) * n = m * n + n
BY SMT

\* A page within the cap starts before the last one allowed ends.
LEMMA PageWithinCap ==
    ASSUME NEW p \in Nat, NEW m \in Nat, NEW n \in Nat \ {0}, p < m
    PROVE  p * n \in Nat /\ p * n < m * n
BY SMT

\* Page 0 starts at 0.
LEMMA FirstPage == 0 * PageSize = 0 /\ 0 \in 0 .. MaxPages - 1
BY SyncAssumption

\* What appending does to the history of requests and to that of their times.
LEMMA Appended ==
    ASSUME NEW S, NEW s \in Seq(S), NEW e \in S
    PROVE  /\ Append(s, e) \in Seq(S)
           /\ Append(s, e) # <<>>
           /\ Len(Append(s, e)) = Len(s) + 1
           /\ \A i \in 1 .. Len(s) : Append(s, e)[i] = s[i]
           /\ Append(s, e)[Len(s) + 1] = e
OBVIOUS

-----------------------------------------------------------------------------
(* Types.                                                                   *)

\* The sleep is set to end in the future of some tick.
LEMMA SleepTypes ==
    ASSUME now \in Nat, Sleep
    PROVE  wake' \in Nat /\ pc' = "sleep"
BY SyncAssumption DEF Sleep

\* The loop over the names stays inside the list, or is over.
LEMMA NextComponentTypes ==
    ASSUME TypeOK, pc \in {"wait", "upsert"}, NextComponent
    PROVE  /\ wake' \in Nat
           /\ pc' \in {"sleep", "close"}
           /\ index' \in 1 .. Len(Names) + 1
           /\ pc' = "sleep" => index' <= Len(Names)
           /\ page' = 0 /\ startIndex' = 0
<1>1. Len(Names) \in Nat /\ index \in 1 .. Len(Names)
  BY SyncAssumption DEF TypeOK
<1>2. CASE index < Len(Names) /\ Sleep
  BY <1>1, <1>2, SleepTypes DEF NextComponent, TypeOK
<1>3. CASE index = Len(Names) /\ pc' = "close" /\ UNCHANGED wake
  BY <1>1, <1>3 DEF NextComponent, TypeOK
<1> QED BY <1>2, <1>3 DEF NextComponent

\* The coroutine keeps its types: the page stays below MAX_PAGES, start_index is
\* the page's, and the loop stays inside the list of names.
THEOREM SyncTypeOK == Spec => []TypeOK
<1>1. Init => TypeOK
  BY FirstPage, SyncAssumption DEF Init, TypeOK
<1>2. TypeOK /\ [Next]_vars => TypeOK'
  <2> SUFFICES ASSUME TypeOK, [Next]_vars PROVE TypeOK'
    OBVIOUS
  <2>1. CASE Tick
    BY <2>1 DEF Tick, TypeOK
  <2>2. CASE Initialize
    <3>1. Names # <<>> => 1 <= Len(Names)
      BY SyncAssumption
    <3>2. client' \in {"none", "open", "closed", "passed"}
      BY <2>2 DEF Initialize, TypeOK
    <3>3. \/ pc' = "request" /\ Names # <<>>
          \/ pc' = "close"
          \/ pc' = "raised"
      BY <2>2, Zenon DEF Initialize
    <3> QED BY <2>2, <3>1, <3>2, <3>3 DEF Initialize, TypeOK
  <2>3. CASE Request
    <3>1. [name |-> index, start |-> startIndex] \in [name : 1 .. Len(Names), start : Nat]
      <4>1. index \in 1 .. Len(Names)
        BY <2>3, SyncAssumption DEF Request, TypeOK
      <4>2. page \in Nat /\ page < MaxPages
        BY SyncAssumption DEF TypeOK
      <4>3. startIndex \in Nat
        BY <4>2, PageWithinCap, SyncAssumption DEF TypeOK
      <4> QED BY <4>1, <4>3
    <3>2. sent' \in Seq(Nat) /\ Len(sent') = Len(sent) + 1
      BY <2>3, Appended DEF Request, TypeOK
    <3>3. /\ requests' \in Seq([name : 1 .. Len(Names), start : Nat])
          /\ Len(requests') = Len(requests) + 1
      <4> DEFINE R == [name : 1 .. Len(Names), start : Nat]
      <4>1. requests \in Seq(R) /\ [name |-> index, start |-> startIndex] \in R
        BY <3>1 DEF TypeOK
      <4>2. requests' = Append(requests, [name |-> index, start |-> startIndex])
        BY <2>3 DEF Request
      <4> HIDE DEF R
      <4>3. requests' \in Seq(R) /\ Len(requests') = Len(requests) + 1
        BY <4>1, <4>2, Appended
      <4> QED BY <4>3 DEF R
    <3> QED BY <2>3, <3>2, <3>3 DEF Request, TypeOK
  <2>4. CASE Fail
    BY <2>4, NextComponentTypes, FirstPage DEF Fail, TypeOK
  <2>5. CASE Answer
    <3>1. page \in Nat /\ page < MaxPages
      BY SyncAssumption DEF TypeOK
    <3>2. startIndex \in Nat
      BY <3>1, PageWithinCap, SyncAssumption DEF TypeOK
    <3>3. total' \in Nat \cup {NoTotal}
      BY <2>5, <3>2, SyncAssumption DEF Answer
    <3> QED BY <2>5, <3>3 DEF Answer, TypeOK
  <2>6. CASE Upsert
    <3>1. CASE /\ MorePages
               /\ page' = page + 1
               /\ startIndex' = startIndex + PageSize
               /\ Sleep
               /\ UNCHANGED index
      <4>1. page' \in 0 .. MaxPages - 1
        BY <3>1, SyncAssumption DEF MorePages, TypeOK
      <4>2. startIndex' = page' * PageSize
        BY <3>1, OnePage, SyncAssumption DEF TypeOK
      <4>3. wake' \in Nat /\ pc' = "sleep"
        BY <3>1, SleepTypes DEF TypeOK
      <4> QED BY <2>6, <3>1, <4>1, <4>2, <4>3 DEF Upsert, TypeOK
    <3>2. CASE NextComponent
      BY <2>6, <3>2, NextComponentTypes, FirstPage DEF Upsert, TypeOK
    <3> QED BY <2>6, <3>1, <3>2 DEF Upsert
  <2>7. CASE UpsertRaises
    BY <2>7 DEF UpsertRaises, TypeOK
  <2>8. CASE Close
    BY <2>8 DEF Close, TypeOK
  <2>9. CASE UNCHANGED vars
    BY <2>9 DEF vars, TypeOK
  <2> QED BY <2>1, <2>2, <2>3, <2>4, <2>5, <2>6, <2>7, <2>8, <2>9 DEF Next, Step, Ended
<1> QED BY <1>1, <1>2, PTL DEF Spec

-----------------------------------------------------------------------------
(* The rate.                                                                *)

\* The last request is in the past, the first is the only one that no sleep
\* comes before, and a sleep lasts until Interval after the last request.
PacingInv ==
    /\ pc \in {"initialize", "request"} => sent = <<>>
    /\ pc \in {"wait", "upsert"} => sent # <<>>
    /\ sent # <<>> => now >= sent[Len(sent)]
    /\ sent # <<>> /\ pc = "sleep" => wake >= sent[Len(sent)] + Interval

\* The last element of a sequence of times is a time.
LEMMA LastSent ==
    ASSUME NEW s \in Seq(Nat), s # <<>>
    PROVE  s[Len(s)] \in Nat
OBVIOUS

\* Wherever a sleep begins, it ends Interval after the last request.
LEMMA SleepPaces ==
    ASSUME TypeOK, PacingInv, Sleep, sent' = sent, now' = now
    PROVE  PacingInv'
BY LastSent, SyncAssumption DEF Sleep, PacingInv, TypeOK

\* So it is between two components, and nothing is sent after the last one.
LEMMA NextComponentPaces ==
    ASSUME TypeOK, PacingInv, NextComponent, sent' = sent, now' = now
    PROVE  PacingInv'
<1>1. CASE Sleep
  BY <1>1, SleepPaces
<1>2. CASE pc' = "close"
  BY <1>2 DEF PacingInv
<1> QED BY <1>1, <1>2 DEF NextComponent

\* What the rate rests on is preserved by every step.
LEMMA SyncPacingKept == Spec => []PacingInv
<1>1. Init => PacingInv
  BY DEF Init, PacingInv
<1>2. TypeOK /\ PacingInv /\ [Next]_vars => PacingInv'
  <2> SUFFICES ASSUME TypeOK, PacingInv, [Next]_vars PROVE PacingInv'
    OBVIOUS
  <2>1. CASE Tick
    BY <2>1, LastSent DEF Tick, PacingInv, TypeOK
  <2>2. CASE Initialize
    BY <2>2 DEF Initialize, PacingInv
  <2>3. CASE Request
    <3>1. sent' # <<>> /\ sent'[Len(sent')] = now
      <4>1. sent \in Seq(Nat) /\ now \in Nat /\ Len(sent) \in Nat
        BY DEF TypeOK
      <4>2. sent' = Append(sent, now)
        BY <2>3 DEF Request
      <4>3. sent' # <<>> /\ Len(sent') = Len(sent) + 1 /\ sent'[Len(sent) + 1] = now
        BY <4>1, <4>2, Appended
      <4> QED BY <4>3
    <3> QED BY <3>1, <2>3 DEF Request, PacingInv, TypeOK
  <2>4. CASE Fail
    BY <2>4, NextComponentPaces DEF Fail
  <2>5. CASE Answer
    BY <2>5 DEF Answer, PacingInv
  <2>6. CASE Upsert
    BY <2>6, SleepPaces, NextComponentPaces DEF Upsert
  <2>7. CASE UpsertRaises
    BY <2>7 DEF UpsertRaises, PacingInv
  <2>8. CASE Close
    BY <2>8 DEF Close, PacingInv
  <2>9. CASE UNCHANGED vars
    BY <2>9 DEF vars, PacingInv
  <2> QED BY <2>1, <2>2, <2>3, <2>4, <2>5, <2>6, <2>7, <2>8, <2>9 DEF Next, Step, Ended
<1> QED BY <1>1, <1>2, SyncTypeOK, PTL DEF Spec

\* The synchronisation implements the rate limit: pages, components and failed
\* requests alike are Interval apart, however long NVD and the sleeps take.
THEOREM SyncImplementsRateLimit == Spec => ImplementsRateLimit
<1>1. Init => Pacing!Init
  BY DEF Init, Pacing!Init
<1>2. TypeOK /\ PacingInv /\ [Next]_vars => [Pacing!Next]_(Pacing!pacing)
  <2> SUFFICES ASSUME TypeOK, PacingInv, [Next]_vars
               PROVE  [Pacing!Next]_(Pacing!pacing)
    OBVIOUS
  <2>1. CASE Tick
    BY <2>1 DEF Tick, Pacing!Next, Pacing!Tick
  <2>2. CASE Request
    <3>1. sent # <<>> => now >= sent[Len(sent)] + Interval
      BY <2>2, LastSent, SyncAssumption, SMTT(30) DEF Request, PacingInv, TypeOK
    <3> QED BY <3>1, <2>2 DEF Request, Pacing!Next, Pacing!Send
  <2>3. ASSUME UNCHANGED <<now, sent>> PROVE UNCHANGED Pacing!pacing
    BY <2>3 DEF Pacing!pacing
  <2>4. CASE ~ (Tick \/ Request)
    BY <2>3, <2>4 DEF Next, Step, Ended, vars, Initialize, Fail, Answer, Upsert,
                      UpsertRaises, Close
  <2> QED BY <2>1, <2>2, <2>4
<1> QED BY <1>1, <1>2, SyncTypeOK, SyncPacingKept, PTL
        DEF Spec, ImplementsRateLimit, Pacing!Spec

-----------------------------------------------------------------------------
(* The bound on the waiting.                                                *)

\* What n pages may cost, and how many pages come before the current one at most.
Cost(n) == n * PerPage
Before == (index - 1) * MaxPages + page
AllPages == Len(Names) * MaxPages

\* More pages cost more, and each costs PerPage.
LEMMA CostGrows ==
    ASSUME NEW m \in Nat, NEW n \in Nat, m <= n
    PROVE  Cost(m) \in Nat /\ Cost(n) \in Nat /\ Cost(m) <= Cost(n)
<1>1. PerPage \in Nat
  BY SyncAssumption DEF PerPage
<1> QED BY <1>1 DEF Cost

\* The cost of pages is a time.
LEMMA CostIsTime ==
    ASSUME NEW n \in Nat
    PROVE  Cost(n) \in Nat
<1>1. PerPage \in Nat
  BY SyncAssumption DEF PerPage
<1> QED BY <1>1 DEF Cost

\* One page more costs its sleep and its request more.
LEMMA CostOfOne ==
    ASSUME NEW n \in Nat
    PROVE  Cost(n + 1) = Cost(n) + Interval + Oversleep + Timeout
<1>1. PerPage \in Nat
  BY SyncAssumption DEF PerPage
<1>2. Cost(n + 1) = Cost(n) + PerPage
  BY <1>1 DEF Cost
<1>3. Cost(n) \in Nat
  BY CostIsTime
<1> QED BY <1>2, <1>3, SyncAssumption DEF PerPage

\* A row of a table that is not the last starts no later than the next one.
LEMMA RowsInTable ==
    ASSUME NEW r \in Nat, NEW w \in Nat, NEW c \in Nat, NEW R \in Nat, c < w, r + 1 <= R
    PROVE  /\ r * w + c \in Nat
           /\ r * w + c + 1 <= (r + 1) * w
           /\ (r + 1) * w <= R * w
BY SMT

\* The page being asked for is one of those that MAX_PAGES allows.
LEMMA BeforeBounded ==
    ASSUME TypeOK, index <= Len(Names)
    PROVE  /\ Before \in Nat
           /\ Before + 1 <= index * MaxPages
           /\ index * MaxPages <= AllPages
           /\ index * MaxPages \in Nat /\ AllPages \in Nat
<1>1. /\ index \in Nat /\ 1 <= index /\ Len(Names) \in Nat /\ MaxPages \in Nat
      /\ page \in Nat /\ page < MaxPages
  BY SyncAssumption DEF TypeOK
<1>2. index - 1 \in Nat /\ (index - 1) + 1 = index
  BY <1>1
<1>3. /\ (index - 1) * MaxPages + page \in Nat
      /\ (index - 1) * MaxPages + page + 1 <= index * MaxPages
      /\ index * MaxPages <= Len(Names) * MaxPages
  BY <1>1, <1>2, RowsInTable
<1>4. index * MaxPages \in Nat /\ Len(Names) * MaxPages \in Nat
  BY <1>1
<1> QED BY <1>3, <1>4 DEF Before, AllPages

\* Where the clock may be: after the pages before this one, and the part of this
\* one's own cost that has been spent.
TimeInv ==
    /\ pc \in {"initialize", "request"} => now = 0
    /\ pc = "sleep" => wake <= Cost(Before) + Interval /\ now <= wake + Oversleep
    /\ pc = "wait" =>
          /\ sent[Len(sent)] <= Cost(Before) + Interval + Oversleep
          /\ now <= sent[Len(sent)] + Timeout
    /\ pc = "upsert" => now <= Cost(Before + 1)
    /\ pc \in {"close", "unwind", "returned", "raised"} => now <= Cost(AllPages)

\* A page asked for and answered has cost no more than PerPage.
LEMMA PageCost ==
    ASSUME TypeOK, PacingInv, TimeInv, pc \in {"wait", "upsert"}
    PROVE  now <= Cost(Before + 1) /\ Cost(Before) \in Nat
<1>1. index <= Len(Names)
  BY DEF TypeOK
<1>2. Before \in Nat
  BY <1>1, BeforeBounded
<1>3. Cost(Before + 1) = Cost(Before) + Interval + Oversleep + Timeout /\ Cost(Before) \in Nat
  BY <1>2, CostOfOne, CostIsTime
<1>4. CASE pc = "upsert"
  BY <1>3, <1>4 DEF TimeInv
<1>5. CASE pc = "wait"
  <2>1. sent # <<>> /\ sent \in Seq(Nat)
    BY <1>5 DEF PacingInv, TypeOK
  <2>2. sent[Len(sent)] \in Nat
    BY <2>1, LastSent
  <2> QED BY <1>3, <1>5, <2>2, SyncAssumption DEF TimeInv, TypeOK
<1> QED BY <1>4, <1>5

\* A sleep that begins in time ends in time.
LEMMA SleepInTime ==
    ASSUME TypeOK, Sleep, now' = now, now <= Cost(Before'), Cost(Before') \in Nat
    PROVE  TimeInv'
<1>1. pc' = "sleep" /\ wake' = now + Interval
  BY DEF Sleep
<1>2. now \in Nat
  BY DEF TypeOK
<1>3. wake' <= Cost(Before') + Interval /\ now' <= wake' + Oversleep
  BY <1>1, <1>2, SyncAssumption
<1> QED BY <1>1, <1>3 DEF TimeInv

\* The component is over, with its pages within their cost.
LEMMA NextComponentInTime ==
    ASSUME TypeOK, PacingInv, TimeInv, pc \in {"wait", "upsert"}, NextComponent, now' = now
    PROVE  TimeInv'
<1>1. index <= Len(Names)
  BY DEF TypeOK
<1>2. /\ Before \in Nat /\ Before + 1 <= index * MaxPages
      /\ index * MaxPages <= AllPages /\ index * MaxPages \in Nat /\ AllPages \in Nat
  BY <1>1, BeforeBounded
<1>3. /\ Cost(Before + 1) <= Cost(index * MaxPages) /\ Cost(index * MaxPages) <= Cost(AllPages)
      /\ Cost(Before + 1) \in Nat /\ Cost(index * MaxPages) \in Nat /\ Cost(AllPages) \in Nat
  BY <1>2, CostGrows
<1>4. now <= Cost(index * MaxPages) /\ now <= Cost(AllPages) /\ now \in Nat
  BY <1>3, PageCost DEF TypeOK
<1>5. CASE Sleep
  <2>1. index' = index + 1 /\ page' = 0
    BY DEF NextComponent
  <2>2. index \in Nat /\ index' - 1 = index
    BY <2>1, SyncAssumption DEF TypeOK
  <2>3. Before' = index * MaxPages
    BY <1>2, <2>1, <2>2 DEF Before
  <2> QED BY <1>3, <1>4, <1>5, <2>3, SleepInTime
<1>6. CASE pc' = "close"
  BY <1>4, <1>6 DEF TimeInv, AllPages
<1> QED BY <1>5, <1>6 DEF NextComponent

\* Every step keeps the clock within what the pages so far may cost.
LEMMA TimeKept == Spec => []TimeInv
<1>1. Init => TimeInv
  BY DEF Init, TimeInv
<1>2. TypeOK /\ PacingInv /\ TimeInv /\ [Next]_vars => TimeInv'
  <2> SUFFICES ASSUME TypeOK, PacingInv, TimeInv, [Next]_vars PROVE TimeInv'
    OBVIOUS
  <2>1. AllPages \in Nat /\ Cost(AllPages) \in Nat /\ now \in Nat
    <3>1. AllPages \in Nat
      BY SyncAssumption DEF AllPages
    <3> QED BY <3>1, CostIsTime DEF TypeOK
  <2>2. CASE Tick
    <3>1. now' = now + 1 /\ UNCHANGED <<sent, pc, wake>> /\ Before' = Before
      BY <2>2 DEF Tick, Before
    <3>2. CASE pc = "sleep" /\ now < wake + Oversleep
      <4>1. now' <= wake + Oversleep
        BY <2>1, <3>1, <3>2, SyncAssumption DEF TypeOK
      <4> QED BY <3>1, <3>2, <4>1 DEF TimeInv
    <3>3. CASE pc = "wait" /\ now < sent[Len(sent)] + Timeout
      <4>1. sent[Len(sent)] \in Nat
        BY <3>3, LastSent DEF PacingInv, TypeOK
      <4>2. now' <= sent[Len(sent)] + Timeout
        BY <2>1, <3>1, <3>3, <4>1, SyncAssumption
      <4> QED BY <3>1, <3>3, <4>2 DEF TimeInv
    <3> QED BY <2>2, <3>2, <3>3 DEF Tick
  <2>3. CASE Initialize
    <3>1. pc = "initialize" /\ now' = now /\ pc' \in {"request", "close", "raised"}
      BY <2>3, Zenon DEF Initialize
    <3>2. now = 0
      BY <3>1 DEF TimeInv
    <3>3. now' = 0 /\ now' <= Cost(AllPages)
      BY <2>1, <3>1, <3>2
    <3> QED BY <3>1, <3>3 DEF TimeInv, AllPages
  <2>4. CASE Request
    <3>1. /\ pc \in {"request", "sleep"} /\ pc' = "wait" /\ now' = now
          /\ UNCHANGED <<index, page>>
      BY <2>4 DEF Request
    <3>2. sent' # <<>> /\ sent'[Len(sent')] = now
      <4>1. sent \in Seq(Nat) /\ now \in Nat /\ Len(sent) \in Nat
        BY DEF TypeOK
      <4>2. sent' = Append(sent, now)
        BY <2>4 DEF Request
      <4>3. sent' # <<>> /\ Len(sent') = Len(sent) + 1 /\ sent'[Len(sent) + 1] = now
        BY <4>1, <4>2, Appended
      <4> QED BY <4>3
    <3>3. Before \in Nat /\ Cost(Before) \in Nat
      BY <3>1, BeforeBounded, CostIsTime DEF TypeOK
    <3>4. now <= Cost(Before) + Interval + Oversleep
      BY <2>1, <3>1, <3>3, SyncAssumption DEF TimeInv, TypeOK
    <3>5. Before' = Before
      BY <3>1 DEF Before
    <3>6. now' <= sent'[Len(sent')] + Timeout
      BY <2>1, <3>1, <3>2, SyncAssumption
    <3> QED BY <3>1, <3>2, <3>4, <3>5, <3>6 DEF TimeInv
  <2>5. CASE Fail
    BY <2>5, NextComponentInTime DEF Fail
  <2>6. CASE Answer
    <3>1. pc = "wait" /\ pc' = "upsert" /\ now' = now /\ Before' = Before
      BY <2>6 DEF Answer, Before
    <3>2. now <= Cost(Before + 1)
      BY <3>1, PageCost
    <3> QED BY <3>1, <3>2 DEF TimeInv
  <2>7. CASE Upsert
    <3>1. pc = "upsert" /\ now' = now
      BY <2>7 DEF Upsert
    <3>2. CASE page' = page + 1 /\ Sleep /\ UNCHANGED index
      <4>1. index <= Len(Names)
        BY <3>1 DEF TypeOK
      <4>2. Before \in Nat /\ Before' = Before + 1
        <5>1. Before \in Nat
          BY <4>1, BeforeBounded
        <5>2. (index - 1) * MaxPages \in Int /\ page \in Int
          BY SyncAssumption DEF TypeOK
        <5> QED BY <5>1, <5>2, <3>2 DEF Before
      <4>3. now <= Cost(Before + 1) /\ Cost(Before + 1) \in Nat
        BY <3>1, <4>2, PageCost, CostIsTime
      <4> QED BY <3>1, <3>2, <4>2, <4>3, SleepInTime
    <3>3. CASE NextComponent
      BY <3>1, <3>3, NextComponentInTime
    <3> QED BY <2>7, <3>2, <3>3 DEF Upsert
  <2>8. CASE UpsertRaises
    <3>1. pc = "upsert" /\ pc' = "unwind" /\ now' = now /\ index <= Len(Names)
      BY <2>8 DEF UpsertRaises, TypeOK
    <3>2. Before \in Nat /\ Before + 1 <= AllPages
      BY <3>1, BeforeBounded
    <3>3. Cost(Before + 1) <= Cost(AllPages) /\ Cost(Before + 1) \in Nat
      BY <2>1, <3>2, CostGrows
    <3>4. now <= Cost(AllPages)
      BY <2>1, <3>1, <3>3, PageCost
    <3> QED BY <3>1, <3>4 DEF TimeInv, AllPages
  <2>9. CASE Close
    BY <2>9 DEF Close, TimeInv, AllPages
  <2>10. CASE UNCHANGED vars
    BY <2>10 DEF vars, TimeInv, Before, AllPages
  <2> QED BY <2>2, <2>3, <2>4, <2>5, <2>6, <2>7, <2>8, <2>9, <2>10 DEF Next, Step, Ended
<1> QED BY <1>1, <1>2, SyncTypeOK, SyncPacingKept, PTL DEF Spec

\* However much the totals grow and however often NVD fails, the sync has stopped
\* waiting after MAX_PAGES pages of every name.
THEOREM SyncTimeBounded == Spec => []SyncBounded
<1>1. TypeOK /\ PacingInv /\ TimeInv => SyncBounded
  <2> SUFFICES ASSUME TypeOK, PacingInv, TimeInv PROVE now <= Cost(AllPages)
    BY DEF SyncBounded, Cost, AllPages
  <2>1. AllPages \in Nat /\ Cost(AllPages) \in Nat /\ now \in Nat
    <3>1. AllPages \in Nat
      BY SyncAssumption DEF AllPages
    <3> QED BY <3>1, CostIsTime DEF TypeOK
  <2>2. CASE pc \in {"initialize", "request"}
    BY <2>1, <2>2 DEF TimeInv
  <2>3. CASE pc \in {"sleep", "wait", "upsert"}
    <3>1. Before \in Nat /\ Before + 1 <= AllPages
      BY <2>3, BeforeBounded DEF TypeOK
    <3>2. /\ Cost(Before + 1) <= Cost(AllPages)
          /\ Cost(Before + 1) = Cost(Before) + Interval + Oversleep + Timeout
          /\ Cost(Before) \in Nat /\ Cost(Before + 1) \in Nat
      <4>1. Before + 1 \in Nat
        BY <3>1
      <4>2. Cost(Before + 1) <= Cost(AllPages)
        BY <2>1, <3>1, <4>1, CostGrows
      <4>3. Cost(Before + 1) = Cost(Before) + Interval + Oversleep + Timeout
        BY <3>1, CostOfOne
      <4> QED BY <3>1, <4>1, <4>2, <4>3, CostIsTime
    <3>3. CASE pc = "sleep"
      BY <2>1, <3>2, <3>3, SyncAssumption DEF TimeInv, TypeOK
    <3>4. CASE pc \in {"wait", "upsert"}
      BY <2>1, <3>2, <3>4, PageCost
    <3> QED BY <2>3, <3>3, <3>4
  <2>4. CASE pc \in {"close", "unwind", "returned", "raised"}
    BY <2>4 DEF TimeInv
  <2> QED BY <2>2, <2>3, <2>4 DEF TypeOK
<1> QED BY <1>1, SyncTypeOK, SyncPacingKept, TimeKept, PTL

-----------------------------------------------------------------------------
(* The order of the pages.                                                  *)

Page == [name : 1 .. Len(Names), start : Nat]

\* What the coroutine asks for next, and what may follow a request.
Current == [name |-> index, start |-> startIndex]
Following(request) ==
    {[name |-> request.name, start |-> request.start + PageSize],
     [name |-> request.name + 1, start |-> 0]}

Asked(i) == \E j \in DOMAIN requests : requests[j].name = i

\* The history as far as it goes.
HistoryInOrder ==
    /\ requests # <<>> => requests[1] = [name |-> 1, start |-> 0]
    /\ \A i \in 2 .. Len(requests) : requests[i] \in Following(requests[i - 1])
    /\ \A j \in DOMAIN requests : requests[j].start < MaxPages * PageSize

\* Where the coroutine stands in it: the loop has asked for every name before the
\* current one, has just asked for the current page, or sleeps before asking for
\* one that may follow the last.
PositionInv ==
    /\ pc \in {"initialize", "request"} =>
          requests = <<>> /\ Current = [name |-> 1, start |-> 0]
    /\ pc \in {"wait", "upsert"} =>
          requests # <<>> /\ requests[Len(requests)] = Current
    /\ pc = "sleep" =>
          requests # <<>> /\ Current \in Following(requests[Len(requests)])
    /\ \A i \in 1 .. index - 1 : Asked(i)
    /\ pc \in {"close", "returned"} => index = Len(Names) + 1

\* Any name asked for stays asked for.
LEMMA RequestAppends ==
    ASSUME TypeOK, Request
    PROVE  /\ requests' \in Seq(Page) /\ requests' # <<>>
           /\ Len(requests') = Len(requests) + 1
           /\ \A i \in 1 .. Len(requests) : requests'[i] = requests[i]
           /\ requests'[Len(requests) + 1] = Current
           /\ startIndex < MaxPages * PageSize
<1>1. page \in Nat /\ page < MaxPages /\ MaxPages \in Nat
  BY SyncAssumption DEF TypeOK
<1>2. startIndex \in Nat /\ startIndex < MaxPages * PageSize
  BY <1>1, PageWithinCap, SyncAssumption DEF TypeOK
<1>3. index \in 1 .. Len(Names)
  BY SyncAssumption DEF Request, TypeOK
<1>4. Current \in Page
  BY <1>2, <1>3 DEF Current, Page
<1>5. requests \in Seq(Page)
  BY DEF TypeOK, Page
<1>6. requests' = Append(requests, Current)
  BY DEF Request, Current
<1> QED BY <1>2, <1>4, <1>5, <1>6, Appended

\* The request that is sent is the one that may come next.
LEMMA RequestInOrder ==
    ASSUME TypeOK, HistoryInOrder, PositionInv, Request
    PROVE  HistoryInOrder' /\ PositionInv'
<1> DEFINE n == Len(requests)
<1>1. n \in Nat /\ requests \in Seq(Page)
  BY DEF TypeOK, Page
<1>2. /\ requests' # <<>> /\ Len(requests') = n + 1 /\ DOMAIN requests' = 1 .. n + 1
      /\ \A i \in 1 .. n : requests'[i] = requests[i]
      /\ requests'[n + 1] = Current
      /\ startIndex < MaxPages * PageSize
  BY RequestAppends
<1>3. UNCHANGED <<index, startIndex>> /\ pc' = "wait"
  BY DEF Request
<1>4. n = 0 => Current = [name |-> 1, start |-> 0]
  BY DEF Request, PositionInv
<1>5. n # 0 => Current \in Following(requests[n])
  BY DEF Request, PositionInv
<1>6. requests'[1] = [name |-> 1, start |-> 0]
  <2>1. CASE n = 0
    BY <2>1, <1>2, <1>4
  <2>2. CASE n # 0
    BY <2>2, <1>1, <1>2 DEF HistoryInOrder
  <2> QED BY <2>1, <2>2
<1>7. ASSUME NEW i \in 2 .. n + 1
      PROVE  requests'[i] \in Following(requests'[i - 1])
  <2>1. CASE i <= n
    BY <2>1, <1>1, <1>2 DEF HistoryInOrder
  <2>2. CASE i = n + 1
    BY <2>2, <1>1, <1>2, <1>5
  <2> QED BY <2>1, <2>2, <1>1
<1>8. ASSUME NEW j \in 1 .. n + 1
      PROVE  requests'[j].start < MaxPages * PageSize
  <2>1. CASE j <= n
    BY <2>1, <1>1, <1>2 DEF HistoryInOrder
  <2>2. CASE j = n + 1
    BY <2>2, <1>2 DEF Current
  <2> QED BY <2>1, <2>2, <1>1
<1>9. HistoryInOrder'
  BY <1>2, <1>6, <1>7, <1>8 DEF HistoryInOrder, Following
<1>10. ASSUME NEW i \in 1 .. index - 1 PROVE Asked(i)'
  <2>1. PICK j \in 1 .. n : requests[j].name = i
    BY <1>1 DEF PositionInv, Asked
  <2> QED BY <2>1, <1>1, <1>2 DEF Asked
<1>11. Current' = Current
  BY <1>3 DEF Current
<1> QED BY <1>2, <1>3, <1>9, <1>10, <1>11 DEF PositionInv

\* When _sync_component returns, its component has been asked for, and the next
\* one starts at its first page.
LEMMA NextComponentInOrder ==
    ASSUME TypeOK, PositionInv, pc \in {"wait", "upsert"}, NextComponent,
           requests' = requests
    PROVE  PositionInv'
<1>1. /\ requests # <<>> /\ requests[Len(requests)] = Current
      /\ Len(requests) \in DOMAIN requests
  BY DEF PositionInv, TypeOK
<1>2. index \in Nat /\ index >= 1 /\ Len(Names) \in Nat
  BY SyncAssumption DEF TypeOK
<1>3. Asked(index)
  BY <1>1 DEF Asked, Current
<1>4. index' = index + 1 /\ startIndex' = 0
  BY DEF NextComponent
<1>5. \A i \in 1 .. index' - 1 : Asked(i)'
  BY <1>2, <1>3, <1>4 DEF Asked, PositionInv
<1>6. CASE Sleep
  <2>1. Current' \in Following(requests[Len(requests)])
    BY <1>1, <1>4 DEF Current, Following
  <2> QED BY <1>1, <1>5, <1>6, <2>1 DEF Sleep, PositionInv, Following
<1>7. CASE index = Len(Names) /\ pc' = "close"
  BY <1>4, <1>5, <1>7 DEF PositionInv
<1> QED BY <1>6, <1>7 DEF NextComponent

\* The history is in order, and the coroutine knows where it is in it.
LEMMA OrderKept == Spec => [](HistoryInOrder /\ PositionInv)
<1>1. Init => HistoryInOrder /\ PositionInv
  BY DEF Init, HistoryInOrder, PositionInv, Current
<1>2. TypeOK /\ HistoryInOrder /\ PositionInv /\ [Next]_vars =>
          HistoryInOrder' /\ PositionInv'
  <2> SUFFICES ASSUME TypeOK, HistoryInOrder, PositionInv, [Next]_vars
               PROVE  HistoryInOrder' /\ PositionInv'
    OBVIOUS
  <2>1. requests' = requests => HistoryInOrder'
    BY DEF HistoryInOrder, Following
  <2>2. ASSUME UNCHANGED <<index, startIndex, requests>>,
               \/ pc' = pc
               \/ pc' = "upsert" /\ pc = "wait"
               \/ pc' = "returned" /\ pc = "close"
               \/ pc' \in {"unwind", "raised"}
        PROVE  PositionInv'
    BY <2>2 DEF PositionInv, Current, Following, Asked
  <2>3. CASE Tick \/ Answer \/ UpsertRaises \/ Close \/ UNCHANGED vars
    BY <2>1, <2>2, <2>3 DEF Tick, Answer, UpsertRaises, Close, vars
  <2>4. CASE Initialize
    <3>1. /\ requests = <<>> /\ UNCHANGED <<index, startIndex, requests>> /\ index = 1
          /\ Current = [name |-> 1, start |-> 0]
      BY <2>4 DEF Initialize, PositionInv, Current
    <3>2. Names = <<>> => Len(Names) = 0
      OBVIOUS
    <3>3. \/ pc' = "request"
          \/ pc' = "close" /\ Names = <<>>
          \/ pc' = "raised"
      BY <2>4, Zenon DEF Initialize
    <3>4. PositionInv'
      BY <3>1, <3>2, <3>3 DEF PositionInv, Current
    <3> QED BY <2>1, <3>1, <3>4
  <2>5. CASE Request
    BY <2>5, RequestInOrder
  <2>6. CASE Fail
    BY <2>1, <2>6, NextComponentInOrder DEF Fail
  <2>7. CASE Upsert
    <3>1. CASE /\ startIndex' = startIndex + PageSize
               /\ Sleep
               /\ UNCHANGED index
      <4>1. requests # <<>> /\ requests[Len(requests)] = Current /\ requests' = requests
        BY <2>7 DEF Upsert, PositionInv
      <4>2. Current' \in Following(requests[Len(requests)])
        BY <3>1, <4>1 DEF Current, Following
      <4>3. PositionInv'
        BY <3>1, <4>1, <4>2 DEF Sleep, PositionInv, Following, Asked
      <4> QED BY <2>1, <4>1, <4>3
    <3>2. CASE NextComponent
      BY <2>1, <2>7, <3>2, NextComponentInOrder DEF Upsert
    <3> QED BY <2>7, <3>1, <3>2 DEF Upsert
  <2> QED BY <2>3, <2>4, <2>5, <2>6, <2>7 DEF Next, Step, Ended
<1> QED BY <1>1, <1>2, SyncTypeOK, PTL DEF Spec

\* The pages of a component are asked for once each, in order, without a gap and
\* within MAX_PAGES, whatever totalResults says from page to page, and a sync that
\* returns has asked for every name, however many of its requests failed.
THEOREM SyncPagesInOrder == Spec => []PagesInOrder
<1>1. TypeOK /\ HistoryInOrder /\ PositionInv => PagesInOrder
  <2> SUFFICES ASSUME TypeOK, HistoryInOrder, PositionInv PROVE PagesInOrder
    OBVIOUS
  <2>1. ASSUME pc = "returned", NEW i \in 1 .. Len(Names) PROVE Asked(i)
    BY <2>1, SyncAssumption DEF PositionInv
  <2> QED BY <2>1 DEF HistoryInOrder, PagesInOrder, Following, Asked
<1> QED BY <1>1, OrderKept, SyncTypeOK, PTL
=============================================================================
