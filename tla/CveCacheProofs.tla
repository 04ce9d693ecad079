-------------------------- MODULE CveCacheProofs --------------------------
(***************************************************************************)
(* The offline cache, for any number of processes sharing the file, any    *)
(* feeds NVD may publish and any crashes: its state keeps its types, every *)
(* row is one NVD published, and a lookup reports nothing else.            *)
(*                                                                         *)
(* For one process at a time, or a file that is as it should be, the table *)
(* is found and no row is lost (Layout).  For one process and feeds that   *)
(* are consistent, a clean sync is complete: what it has read so far is in *)
(* the rows, page by page (Reading).                                       *)
(***************************************************************************)
EXTENDS CveCache, FiniteSetTheorems, WellFoundedInduction, TLAPS

-----------------------------------------------------------------------------
(* The helpers of the model.                                                *)

\* A set of numbers has a least element: the one whose initial segment of the
\* naturals is minimal for strict inclusion.
LEMMA Least ==
    ASSUME NEW S \in SUBSET Nat, S # {}
    PROVE  \E m \in S : \A k \in S : m <= k
<1> DEFINE T == {0 .. k : k \in S}
<1>1. T \subseteq FiniteSubsetsOf(Nat) /\ T # {}
  <2>1. ASSUME NEW k \in S PROVE (0 .. k) \in FiniteSubsetsOf(Nat)
    <3>1. k \in Int /\ 0 \in Int /\ (0 .. k) \subseteq Nat
      OBVIOUS
    <3>2. IsFiniteSet(0 .. k)
      BY ONLY <3>1, FS_Interval
    <3> QED BY <3>1, <3>2 DEF FiniteSubsetsOf
  <2> QED BY <2>1
<1>2. PICK t \in T : \A u \in T : <<u, t>> \notin StrictSubsetOrdering(Nat)
    BY <1>1, FS_StrictSubsetOrderingWellFounded, WFMin
<1>3. PICK m \in S : t = 0 .. m
    OBVIOUS
<1>4. ASSUME NEW k \in S PROVE m <= k
  <2> SUFFICES ASSUME k < m PROVE FALSE
    OBVIOUS
  <2>1. (0 .. k) \in T /\ (0 .. k) \subseteq t /\ m \in t /\ m \notin 0 .. k
    BY <1>3
  <2>2. <<0 .. k, t>> \in StrictSubsetOrdering(Nat)
    BY <2>1, <1>3 DEF StrictSubsetOrdering
  <2> QED BY <2>1, <2>2, <1>2
<1> QED BY <1>3, <1>4

\* A set of positions in a sequence has a last one.
LEMMA Greatest ==
    ASSUME NEW n \in Nat, NEW S \in SUBSET (1 .. n), S # {}
    PROVE  \E m \in S : \A k \in S : k <= m
<1> DEFINE T == {n - k : k \in S}
<1>1. T \in SUBSET Nat /\ T # {}
  <2>1. \A k \in S : n - k \in Nat
    OBVIOUS
  <2> QED BY <2>1
<1>2. PICK t \in T : \A u \in T : t <= u
    BY <1>1, Least
<1>3. PICK m \in S : t = n - m
    OBVIOUS
<1>4. ASSUME NEW k \in S PROVE k <= m
  <2>1. n - m <= n - k
    BY <1>2, <1>3
  <2> QED BY <2>1
<1> QED BY <1>3, <1>4
\* What NVD answers is a page of its present feed.
LEMMA ResponseIsListed ==
    ASSUME TypeOK, NEW p \in Process, pc[p] = "request",
           NEW answered, answered = Response(Names[position[p]], page[p])
    PROVE  /\ answered \in [entries : Seq(Entry), last : BOOLEAN]
           /\ \A i \in DOMAIN answered.entries :
                 Listed(History[revision], answered.entries[i])
<1> DEFINE component == Names[position[p]]
           number == page[p]
           pages == History[revision][component]
<1>1. component \in Component
  <2>1. position[p] \in 1 .. Len(Names) + 1 /\ position[p] <= Len(Names)
    BY DEF TypeOK
  <2>2. Names \in Seq(Component)
    BY CacheAssumption
  <2> QED BY ONLY <2>1, <2>2 DEF component
<1>2. History[revision] \in Feed /\ number \in Nat
  <2>1. revision \in 1 .. Len(History) /\ page[p] \in 0 .. MaxPages - 1
    BY DEF TypeOK
  <2>2. History \in Seq(Feed) /\ MaxPages \in Nat
    BY CacheAssumption
  <2> QED BY ONLY <2>1, <2>2
<1>3. pages \in Seq(Seq(Entry))
    BY <1>1, <1>2 DEF Feed
<1>4. answered = [entries |-> IF number < Len(pages) THEN pages[number + 1] ELSE <<>>,
                  last |-> number + 1 >= Len(pages)]
    BY DEF Response
<1>5. CASE number < Len(pages)
  <2>1. number + 1 \in DOMAIN pages /\ pages[number + 1] \in Seq(Entry)
    BY <1>2, <1>3, <1>5
  <2> QED BY <1>1, <1>3, <1>4, <1>5, <2>1 DEF Listed
<1>6. CASE ~(number < Len(pages))
    BY <1>4, <1>6
<1> QED BY <1>5, <1>6

\* The record that stays for a key of the page is a record of the page.
LEMMA LastRecordIsOne ==
    ASSUME TypeOK, NEW p \in Process, NEW key \in Keys(p)
    PROVE  /\ LastRecord(p, key) \in Records(p)
           /\ LastRecord(p, key) \in DOMAIN fetched[p].entries
           /\ RowKey(fetched[p].entries[LastRecord(p, key)]) = key
<1> DEFINE S == {i \in Records(p) : RowKey(fetched[p].entries[i]) = key}
<1>1. fetched[p].entries \in Seq(Entry)
    BY DEF TypeOK
<1>2. S \in SUBSET (1 .. Len(fetched[p].entries)) /\ S # {} /\ Len(fetched[p].entries) \in Nat
    BY <1>1 DEF Keys, Records
<1>3. \E i \in S : \A j \in S : j <= i
    BY <1>2, Greatest
<1>4. \E i \in Records(p) :
        /\ RowKey(fetched[p].entries[i]) = key
        /\ \A j \in Records(p) : RowKey(fetched[p].entries[j]) = key => j <= i
    BY <1>3
<1> QED BY <1>4 DEF LastRecord, Records

\* The row that a lookup reports for a CVE matches the component and version.
LEMMA FirstMatchMatches ==
    ASSUME TypeOK, NEW component, NEW version, NEW cve,
           NEW key \in Matching(component, version), key[1] = cve
    PROVE  /\ FirstMatch(component, version, cve) \in Matching(component, version)
           /\ FirstMatch(component, version, cve)[1] = cve
<1> DEFINE M == {k \in Matching(component, version) : k[1] = cve}
           S == {k[2] : k \in M}
<1>1. \A k \in Matching(component, version) : k \in Cve \X Cpe
    BY DEF TypeOK, Matching
<1>2. S \in SUBSET Nat /\ S # {}
  <2>1. \A k \in M : k[2] \in Nat
    BY <1>1, CacheAssumption
  <2>2. key \in M
    OBVIOUS
  <2> QED BY <2>1, <2>2
<1>3. PICK m \in S : \A n \in S : m <= n
    BY <1>2, Least
<1>4. PICK k \in M : k[2] = m
    OBVIOUS
<1>5. \A other \in Matching(component, version) : other[1] = cve => k[2] <= other[2]
    BY <1>3, <1>4
<1>6. \E k2 \in Matching(component, version) :
        /\ k2[1] = cve
        /\ \A other \in Matching(component, version) : other[1] = cve => k2[2] <= other[2]
    BY <1>4, <1>5
<1> QED BY <1>6 DEF FirstMatch
-----------------------------------------------------------------------------
(* Types.                                                                   *)

\* The empty answer is an answer.
LEMMA NothingIsAnswer == Nothing \in UNION {[cves -> Score] : cves \in SUBSET Cve}
<1>1. Nothing \in [{} -> Score]
    BY DEF Nothing
<1> QED BY <1>1

\* "No revision", for a sync that did not read everything, is among the types.
LEMMA NoRevision == 0 \in 0 .. Len(History)
    BY CacheAssumption

\* The initial states are of the types declared.
LEMMA InitTypes == Init => TypeOK
<1> SUFFICES ASSUME Init PROVE TypeOK
    OBVIOUS
<1>1. table \in {"absent", "legacy", "current"} /\ userVersion \in Nat
    BY CacheAssumption DEF Init
<1>2. DOMAIN rows \subseteq Cve \X Cpe /\ rows \in [DOMAIN rows -> Row]
    BY DEF Init, Nothing
<1>3. revision \in 1 .. Len(History)
    BY CacheAssumption DEF Init
<1>4. position \in [Process -> 1 .. Len(Names) + 1]
  <2>1. 1 \in 1 .. Len(Names) + 1
    BY CacheAssumption
  <2> QED BY <2>1 DEF Init
<1>5. page \in [Process -> 0 .. MaxPages - 1]
  <2>1. 0 \in 0 .. MaxPages - 1
    BY CacheAssumption
  <2> QED BY <2>1 DEF Init
<1>6. fetched \in [Process -> [entries : Seq(Entry), last : BOOLEAN]]
    BY DEF Init, NoPage
<1>7. answer \in [Process -> UNION {[cves -> Score] : cves \in SUBSET Cve}]
    BY NothingIsAnswer DEF Init
<1>8. cleanSince \in [Process -> 0 .. Len(History)]
    BY NoRevision DEF Init
<1>9. pc \in [Process -> Busy \cup {"idle"}] /\ \A p \in Process : pc[p] = "idle"
    BY DEF Init
<1>10. /\ initialized \in [Process -> BOOLEAN]
       /\ stored \in [Process -> Nat]
       /\ wanted \in [Process -> Lookup \cup {WholeSync}]
       /\ outcome \in [Process -> {"ok", "no table", "locked"}]
    BY DEF Init
<1> QED BY <1>1, <1>2, <1>3, <1>4, <1>5, <1>6, <1>7, <1>8, <1>9, <1>10
        DEF TypeOK, Initializing

\* An exception that ends a command leaves only idle, typed state behind.
LEMMA AbortTypes ==
    ASSUME TypeOK, NEW p \in Process, NEW reason \in {"no table", "locked"}, Abort(p, reason)
    PROVE  /\ pc' \in [Process -> Busy \cup {"idle"}]
           /\ \A q \in Process : pc'[q] # "idle" => pc'[q] = pc[q]
           /\ answer' \in [Process -> UNION {[cves -> Score] : cves \in SUBSET Cve}]
           /\ outcome' \in [Process -> {"ok", "no table", "locked"}]
           /\ cleanSince' \in [Process -> 0 .. Len(History)]
<1>1. /\ pc' \in [Process -> Busy \cup {"idle"}]
      /\ \A q \in Process : pc'[q] # "idle" => pc'[q] = pc[q]
    BY DEF Abort, TypeOK
<1>2. answer' \in [Process -> UNION {[cves -> Score] : cves \in SUBSET Cve}]
    BY NothingIsAnswer DEF Abort, TypeOK
<1>3. outcome' \in [Process -> {"ok", "no table", "locked"}]
    BY DEF Abort, TypeOK
<1>4. cleanSince' \in [Process -> 0 .. Len(History)]
    BY NoRevision DEF Abort, TypeOK
<1> QED BY <1>1, <1>2, <1>3, <1>4

\* Opening the file (_initialize_sync) keeps the types.
LEMMA InitializeTypes ==
    ASSUME TypeOK, NEW p \in Process, Initialize(p)
    PROVE  TypeOK'
<1>1. CASE ReadVersion(p)
    BY <1>1 DEF ReadVersion, TypeOK, file, syncing, Busy, Initializing
<1>2. CASE DropTable(p)
    BY <1>2 DEF DropTable, TypeOK, syncing, Busy, Initializing, Nothing
<1>3. CASE CreateTable(p)
    BY <1>3 DEF CreateTable, TypeOK, syncing, Busy, Initializing
<1>4. CASE CreateIndexes(p)
  <2>1. CASE table = "current"
    BY <1>4, <2>1 DEF CreateIndexes, TypeOK, file, syncing, Busy, Initializing
  <2>2. CASE table # "current"
    <3>1. /\ UNCHANGED <<file, revision, initialized, stored, syncing>>
          /\ Abort(p, "no table")
      BY <1>4, <2>2 DEF CreateIndexes
    <3> QED BY <3>1, AbortTypes DEF TypeOK, file, syncing, Busy, Initializing
  <2> QED BY <2>1, <2>2
<1>5. CASE Stamp(p)
  <2>1. pc' = [pc EXCEPT ![p] = AfterInit(p)] /\ pc[p] = "stamp"
    BY <1>5 DEF Stamp
  <2>2. /\ AfterInit(p) \in {"idle", "request", "select"}
        /\ AfterInit(p) = "select" => wanted[p] \in Lookup
        /\ AfterInit(p) = "request" => position[p] <= Len(Names)
    <3>1. Len(Names) \in Nat /\ (Names # <<>> => 1 <= Len(Names))
      BY CacheAssumption
    <3>2. wanted[p] \notin Lookup => position[p] = 1
      BY <2>1 DEF TypeOK, Initializing
    <3> QED BY <3>1, <3>2 DEF AfterInit
  <2>3. pc' \in [Process -> Busy \cup {"idle"}]
    BY <2>1, <2>2 DEF TypeOK, Busy
  <2>4. UNCHANGED <<table, rows, revision, stored, syncing, answer, outcome, cleanSince>>
    BY <1>5 DEF Stamp
  <2>5. userVersion' \in Nat /\ initialized' \in [Process -> BOOLEAN]
    BY <1>5 DEF Stamp, SCHEMA_VERSION, TypeOK
  <2> QED BY <2>1, <2>2, <2>3, <2>4, <2>5 DEF TypeOK, syncing, Initializing
<1> QED BY <1>1, <1>2, <1>3, <1>4, <1>5 DEF Initialize
\* Going on to the next component, or ending the sync, keeps the types.
LEMMA NextComponentTypes ==
    ASSUME TypeOK, NEW p \in Process, NextComponent(p), pc[p] \in {"request", "upsert"}
    PROVE  /\ pc' \in [Process -> Busy \cup {"idle"}]
           /\ position' \in [Process -> 1 .. Len(Names) + 1]
           /\ page' \in [Process -> 0 .. MaxPages - 1]
           /\ pc'[p] \in {"request", "idle"} /\ (pc'[p] = "request" => position'[p] <= Len(Names))
           /\ \A q \in Process \ {p} : pc'[q] = pc[q] /\ position'[q] = position[q]
<1>1. Len(Names) \in Nat /\ 0 \in 0 .. MaxPages - 1
    BY CacheAssumption
<1>2. position[p] \in 1 .. Len(Names) + 1 /\ position[p] <= Len(Names)
    BY DEF TypeOK
<1>3. position[p] + 1 \in 1 .. Len(Names) + 1
    BY <1>1, <1>2
<1>4. /\ position' \in [Process -> 1 .. Len(Names) + 1]
      /\ position'[p] = position[p] + 1
      /\ \A q \in Process \ {p} : position'[q] = position[q]
    BY <1>3 DEF NextComponent, TypeOK
<1>5. page' \in [Process -> 0 .. MaxPages - 1]
    BY <1>1 DEF NextComponent, TypeOK
<1>6. /\ pc' \in [Process -> Busy \cup {"idle"}]
      /\ pc'[p] = IF position[p] < Len(Names) THEN "request" ELSE "idle"
      /\ \A q \in Process \ {p} : pc'[q] = pc[q]
    BY DEF NextComponent, MoreNames, TypeOK, Busy
<1> QED BY <1>1, <1>2, <1>4, <1>5, <1>6

\* No page is an empty page.
LEMMA NoPageTypes == NoPage \in [entries : Seq(Entry), last : BOOLEAN]
    BY DEF NoPage

\* Reading and writing the pages of a sync keeps the types.
LEMMA PageTypes ==
    ASSUME TypeOK, NEW p \in Process, FetchPage(p) \/ FetchFails(p) \/ UpsertFails(p)
    PROVE  TypeOK'
<1>1. CASE FetchPage(p)
  <2> DEFINE answered == Response(Names[position[p]], page[p])
  <2>1. answered \in [entries : Seq(Entry), last : BOOLEAN]
    BY <1>1, ResponseIsListed DEF FetchPage
  <2>2. fetched' \in [Process -> [entries : Seq(Entry), last : BOOLEAN]]
    BY <1>1, <2>1 DEF FetchPage, TypeOK
  <2>3. pc[p] = "request" /\ pc' = [pc EXCEPT ![p] = "upsert"]
    BY <1>1 DEF FetchPage
  <2>4. UNCHANGED <<file, revision, initialized, stored, wanted, position, page,
                    answer, outcome, cleanSince>>
    BY <1>1 DEF FetchPage
  <2> QED BY <2>2, <2>3, <2>4 DEF TypeOK, file, Busy, Initializing
<1>2. CASE FetchFails(p)
  <2>1. pc[p] = "request" /\ NextComponent(p)
    BY <1>2 DEF FetchFails
  <2>2. cleanSince' \in [Process -> 0 .. Len(History)]
    BY <1>2, NoRevision DEF FetchFails, TypeOK
  <2>3. UNCHANGED <<file, revision, initialized, stored, wanted, fetched, answer, outcome>>
    BY <1>2 DEF FetchFails
  <2> QED BY <2>1, <2>2, <2>3, NextComponentTypes DEF TypeOK, file, Busy, Initializing
<1>3. CASE UpsertFails(p)
  <2>1. \E reason \in {"no table", "locked"} : Abort(p, reason)
    BY <1>3 DEF UpsertFails
  <2>2. fetched' \in [Process -> [entries : Seq(Entry), last : BOOLEAN]]
    <3>1. fetched' = [fetched EXCEPT ![p] = NoPage]
      BY <1>3 DEF UpsertFails
    <3> QED BY <3>1, NoPageTypes DEF TypeOK
  <2>3. UNCHANGED <<file, revision, initialized, stored, wanted, position, page>>
    BY <1>3 DEF UpsertFails
  <2> QED BY <2>1, <2>2, <2>3, AbortTypes DEF TypeOK, file, Busy, Initializing
<1> QED BY <1>1, <1>2, <1>3

\* What _upsert leaves in the table are rows.
LEMMA UpsertedRows ==
    ASSUME TypeOK, NEW p \in Process
    PROVE  /\ DOMAIN Upserted(p) \subseteq Cve \X Cpe
           /\ Upserted(p) \in [DOMAIN Upserted(p) -> Row]
<1>1. fetched[p].entries \in Seq(Entry)
    BY DEF TypeOK
<1>2. \A i \in DOMAIN fetched[p].entries : fetched[p].entries[i] \in Entry
    BY <1>1
<1>3. Keys(p) \subseteq Cve \X Cpe
    BY <1>2 DEF Keys, Records, RowKey, Entry
<1>4. ASSUME NEW key \in DOMAIN rows \cup Keys(p) PROVE Upserted(p)[key] \in Row
  <2>1. CASE key \in Keys(p)
    <3>1. fetched[p].entries[LastRecord(p, key)] \in Entry
      BY <2>1, <1>2, LastRecordIsOne
    <3> QED BY <2>1, <3>1 DEF Upserted, Entry, Row
  <2>2. CASE key \notin Keys(p)
    BY <2>2 DEF Upserted, TypeOK
  <2> QED BY <2>1, <2>2
<1>5. DOMAIN Upserted(p) = DOMAIN rows \cup Keys(p) /\ DOMAIN rows \subseteq Cve \X Cpe
    BY DEF Upserted, TypeOK
<1>6. Upserted(p) = [key \in DOMAIN Upserted(p) |-> Upserted(p)[key]]
    BY DEF Upserted
<1> QED BY <1>3, <1>4, <1>5, <1>6

\* So does a page that is written.
LEMMA UpsertTypes ==
    ASSUME TypeOK, NEW p \in Process, Upsert(p)
    PROVE  TypeOK'
<1>1. /\ DOMAIN rows' \subseteq Cve \X Cpe
      /\ rows' \in [DOMAIN rows' -> Row]
    BY UpsertedRows DEF Upsert
<1>3. fetched' \in [Process -> [entries : Seq(Entry), last : BOOLEAN]]
  <2>1. fetched' = [fetched EXCEPT ![p] = NoPage]
    BY DEF Upsert
  <2> QED BY <2>1, NoPageTypes DEF TypeOK
<1>4. UNCHANGED <<table, userVersion, revision, initialized, stored, wanted, answer, outcome>>
    BY DEF Upsert
<1>5. pc[p] = "upsert"
    BY DEF Upsert
<1>6. cleanSince' \in [Process -> 0 .. Len(History)]
    BY NoRevision DEF Upsert, TypeOK
<1>7. CASE NextComponent(p)
    BY <1>1, <1>3, <1>4, <1>5, <1>6, <1>7, NextComponentTypes
       DEF TypeOK, Busy, Initializing
<1>8. CASE /\ page[p] + 1 < MaxPages
           /\ page' = [page EXCEPT ![p] = @ + 1]
           /\ pc' = [pc EXCEPT ![p] = "request"]
           /\ UNCHANGED position
  <2>1. MaxPages \in Nat /\ page[p] \in 0 .. MaxPages - 1
    BY CacheAssumption DEF TypeOK
  <2>2. page' \in [Process -> 0 .. MaxPages - 1]
    <3>1. page[p] + 1 \in 0 .. MaxPages - 1
      BY ONLY <1>8, <2>1
    <3> QED BY <1>8, <3>1 DEF TypeOK
  <2>3. pc' \in [Process -> Busy \cup {"idle"}]
    BY <1>8 DEF TypeOK, Busy
  <2> QED BY <1>1, <1>3, <1>4, <1>5, <1>6, <1>8, <2>2, <2>3
          DEF TypeOK, Initializing
<1>9. NextComponent(p) \/ /\ page[p] + 1 < MaxPages
                          /\ page' = [page EXCEPT ![p] = @ + 1]
                          /\ pc' = [pc EXCEPT ![p] = "request"]
                          /\ UNCHANGED position
    BY DEF Upsert
<1> QED BY <1>7, <1>8, <1>9

\* What a lookup answers is a map from CVEs to scores.
LEMMA EntriesAreAnAnswer ==
    ASSUME TypeOK, NEW component, NEW version
    PROVE  Entries(component, version) \in UNION {[cves -> Score] : cves \in SUBSET Cve}
<1> DEFINE cves == {key[1] : key \in Matching(component, version)}
<1>1. \A key \in Matching(component, version) : key \in DOMAIN rows /\ key \in Cve \X Cpe
    BY DEF Matching, TypeOK
<1>2. cves \in SUBSET Cve
    BY <1>1
<1>3. ASSUME NEW cve \in cves
      PROVE  rows[FirstMatch(component, version, cve)].score \in Score
  <2>1. PICK key \in Matching(component, version) : key[1] = cve
    OBVIOUS
  <2>2. FirstMatch(component, version, cve) \in DOMAIN rows
    BY <1>1, <2>1, FirstMatchMatches
  <2>3. \A key2 \in DOMAIN rows : rows[key2] \in Row
    BY DEF TypeOK
  <2> QED BY <2>2, <2>3 DEF Row
<1>4. Entries(component, version) \in [cves -> Score]
    BY <1>3 DEF Entries
<1> QED BY <1>2, <1>4

\* Starting a command, answering a lookup, a crash and NVD keep the types.
LEMMA CommandTypes ==
    ASSUME TypeOK, NEW p \in Process
    PROVE  /\ StartSync(p) => TypeOK'
           /\ \A component \in Component, version \in Versions :
                  StartLookup(p, component, version) => TypeOK'
           /\ Select(p) => TypeOK'
           /\ Crash(p) => TypeOK'
<1>1. ASSUME StartSync(p) PROVE TypeOK'
  <2>1. position' \in [Process -> 1 .. Len(Names) + 1] /\ position'[p] = 1
    <3>1. 1 \in 1 .. Len(Names) + 1
      BY CacheAssumption
    <3> QED BY <1>1, <3>1 DEF StartSync, TypeOK
  <2>2. page' \in [Process -> 0 .. MaxPages - 1]
    <3>1. 0 \in 0 .. MaxPages - 1
      BY CacheAssumption
    <3> QED BY <1>1, <3>1 DEF StartSync, TypeOK
  <2>3. answer' \in [Process -> UNION {[cves -> Score] : cves \in SUBSET Cve}]
    BY <1>1, NothingIsAnswer DEF StartSync, TypeOK
  <2>4. cleanSince' \in [Process -> 0 .. Len(History)]
    <3>1. revision \in 0 .. Len(History)
      <4>1. revision \in 1 .. Len(History)
        BY DEF TypeOK
      <4>2. Len(History) \in Nat
        BY CacheAssumption
      <4> QED BY ONLY <4>1, <4>2
    <3> QED BY <1>1, <3>1 DEF StartSync, TypeOK
  <2>5. /\ pc' = [pc EXCEPT ![p] = "read version"]
        /\ wanted' = [wanted EXCEPT ![p] = WholeSync]
        /\ position' = [position EXCEPT ![p] = 1]
        /\ outcome' = [outcome EXCEPT ![p] = "ok"]
        /\ UNCHANGED <<file, revision, initialized, stored, fetched>>
    BY <1>1 DEF StartSync
  <2> QED BY <2>1, <2>2, <2>3, <2>4, <2>5 DEF TypeOK, file, Busy, Initializing
<1>2. ASSUME NEW component \in Component, NEW version \in Versions,
             StartLookup(p, component, version)
      PROVE  TypeOK'
  <2> DEFINE asked == [component |-> component, version |-> version]
  <2>1. asked \in Lookup /\ asked # WholeSync
    BY DEF Lookup, WholeSync
  <2>2. /\ wanted' = [wanted EXCEPT ![p] = asked]
        /\ answer' = [answer EXCEPT ![p] = Nothing]
        /\ outcome' = [outcome EXCEPT ![p] = "ok"]
        /\ UNCHANGED <<file, revision, initialized, stored, position, page, fetched, cleanSince>>
    BY <1>2 DEF StartLookup
  <2>3. /\ pc' \in [Process -> Busy \cup {"idle"}]
        /\ pc'[p] \in {"idle", "select", "read version"}
        /\ \A q \in Process \ {p} : pc'[q] = pc[q]
    BY <1>2 DEF StartLookup, TypeOK, Busy, Initializing
  <2>4. wanted' \in [Process -> Lookup \cup {WholeSync}]
    BY <2>1, <2>2 DEF TypeOK
  <2>5. answer' \in [Process -> UNION {[cves -> Score] : cves \in SUBSET Cve}]
    BY <2>2, NothingIsAnswer DEF TypeOK
  <2> HIDE DEF asked
  <2> QED BY <2>1, <2>2, <2>3, <2>4, <2>5 DEF TypeOK, file
<1>3. ASSUME Select(p) PROVE TypeOK'
  <2>1. UNCHANGED <<file, revision, initialized, stored, syncing>>
    BY <1>3 DEF Select
  <2>2. CASE table = "current"
    <3>1. answer' \in [Process -> UNION {[cves -> Score] : cves \in SUBSET Cve}]
      <4> DEFINE A == UNION {[cves -> Score] : cves \in SUBSET Cve}
                 entries == Entries(wanted[p].component, wanted[p].version)
      <4>1. entries \in A /\ answer \in [Process -> A]
        BY EntriesAreAnAnswer DEF TypeOK
      <4>2. answer' = [answer EXCEPT ![p] = entries]
        BY <1>3, <2>2 DEF Select
      <4> QED BY ONLY <4>1, <4>2
    <3>2. pc' = [pc EXCEPT ![p] = "idle"] /\ UNCHANGED <<outcome, cleanSince>>
      BY <1>3, <2>2 DEF Select
    <3> QED BY <2>1, <3>1, <3>2 DEF TypeOK, file, syncing, Initializing
  <2>3. CASE table # "current"
    <3>1. Abort(p, "no table")
      BY <1>3, <2>3 DEF Select
    <3> QED BY <2>1, <3>1, AbortTypes DEF TypeOK, file, syncing, Initializing
  <2> QED BY <2>2, <2>3
<1>4. ASSUME Crash(p) PROVE TypeOK'
  <2>1. fetched' \in [Process -> [entries : Seq(Entry), last : BOOLEAN]]
    BY <1>4, NoPageTypes DEF Crash, TypeOK
  <2>2. cleanSince' \in [Process -> 0 .. Len(History)]
    BY <1>4, NoRevision DEF Crash, TypeOK
  <2> QED BY <1>4, <2>1, <2>2 DEF Crash, TypeOK, file, Initializing
<1> QED BY <1>1, <1>2, <1>3, <1>4

\* Whatever the processes do and however they are interleaved, the file and the
\* processes keep their types; in particular a request is for a name of the list
\* and no more than MAX_PAGES pages are asked for.
THEOREM CacheTypeOK == Spec => []TypeOK
<1>1. TypeOK /\ [Next]_vars => TypeOK'
  <2> SUFFICES ASSUME TypeOK, [Next]_vars PROVE TypeOK'
    OBVIOUS
  <2>1. CASE Publish
    <3>1. revision \in 1 .. Len(History) /\ revision < Len(History) /\ revision' = revision + 1
      BY <2>1 DEF Publish, TypeOK
    <3>2. Len(History) \in Nat
      BY CacheAssumption
    <3>3. revision' \in 1 .. Len(History)
      BY ONLY <3>1, <3>2
    <3> QED BY <2>1, <3>3 DEF Publish, TypeOK, file, syncing
  <2>2. CASE UNCHANGED vars
    BY <2>2 DEF vars, TypeOK, file, syncing
  <2>3. ASSUME NEW p \in Process, Step(p) PROVE TypeOK'
    BY <2>3, InitializeTypes, PageTypes, UpsertTypes, CommandTypes DEF Step
  <2> QED BY <2>1, <2>2, <2>3, CommandTypes DEF Next
<1> QED BY <1>1, InitTypes, PTL DEF Spec
-----------------------------------------------------------------------------
(* What is in the file, in a page and in an answer was published.           *)

\* The page between client.get and _upsert; what makes RowsPublished inductive.
PagesPublished ==
    \A p \in Process : \A i \in DOMAIN fetched[p].entries : Published(fetched[p].entries[i])

\* There is a present feed.
LEMMA RevisionIsPositive == TypeOK => revision \in Nat /\ revision \in 1 .. revision
<1>1. Len(History) \in Nat
    BY CacheAssumption
<1>2. TypeOK => revision \in 1 .. Len(History)
    BY DEF TypeOK
<1> QED BY ONLY <1>1, <1>2

\* NVD's past does not change: what was published stays so.
LEMMA PublishedStays ==
    ASSUME TypeOK, [Next]_vars
    PROVE  1 .. revision \subseteq 1 .. revision'
<1>1. revision' = revision \/ revision' = revision + 1
    BY DEF Next, vars, Publish, StartSync, StartLookup, Crash, Step, Initialize, ReadVersion,
           DropTable, CreateTable, CreateIndexes, Stamp, FetchPage, FetchFails, Upsert,
           UpsertFails, Select
<1> QED BY ONLY <1>1, RevisionIsPositive, TypeOK

\* A page is read from the feed NVD shows at the time.
LEMMA PagesPublishedKept ==
    ASSUME TypeOK, PagesPublished, [Next]_vars
    PROVE  PagesPublished'
<1>1. ASSUME NEW p \in Process, FetchPage(p) PROVE PagesPublished'
  <2> DEFINE answered == Response(Names[position[p]], page[p])
  <2>1. pc[p] = "request" /\ fetched' = [fetched EXCEPT ![p] = answered]
    BY <1>1 DEF FetchPage
  <2>2. \A i \in DOMAIN answered.entries : Listed(History[revision], answered.entries[i])
    BY <2>1, ResponseIsListed
  <2>3. revision \in 1 .. revision
    BY RevisionIsPositive
  <2>4. \A i \in DOMAIN answered.entries : Published(answered.entries[i])
    BY <2>2, <2>3 DEF Published
  <2>5. \A q \in Process : fetched'[q] = IF q = p THEN answered ELSE fetched[q]
    BY <2>1 DEF TypeOK
  <2> HIDE DEF answered
  <2>6. ASSUME NEW q \in Process, NEW i \in DOMAIN fetched'[q].entries
        PROVE  Published(fetched'[q].entries[i])
    <3>1. CASE q = p
      BY <2>4, <2>5, <2>6, <3>1
    <3>2. CASE q # p
      BY <2>5, <2>6, <3>2 DEF PagesPublished
    <3> QED BY <3>1, <3>2
  <2> QED BY <2>6, PublishedStays DEF PagesPublished, Published
<1>2. CASE \A q \in Process : fetched'[q] \in {fetched[q], NoPage}
  <2>1. ASSUME NEW q \in Process, NEW i \in DOMAIN fetched'[q].entries
        PROVE  fetched'[q] = fetched[q]
    BY <1>2, <2>1 DEF NoPage
  <2> QED BY <2>1, PublishedStays DEF PagesPublished, Published
<1>3. (\A q \in Process : fetched'[q] \in {fetched[q], NoPage}) \/ \E p \in Process : FetchPage(p)
  <2>1. fetched \in [Process -> [entries : Seq(Entry), last : BOOLEAN]]
    BY DEF TypeOK
  <2>2. \/ UNCHANGED fetched
        \/ \E p \in Process : fetched' = [fetched EXCEPT ![p] = NoPage] \/ FetchPage(p)
    BY DEF Next, vars, syncing, Publish, StartSync, StartLookup, Crash, Step, Initialize,
           ReadVersion, DropTable, CreateTable, CreateIndexes, Stamp, FetchFails, Upsert,
           UpsertFails, Select
  <2> QED BY <2>1, <2>2
<1> QED BY <1>1, <1>2, <1>3

\* A row is written from one record of a published page, whole.
LEMMA RowsPublishedKept ==
    ASSUME TypeOK, PagesPublished, RowsPublished, [Next]_vars
    PROVE  RowsPublished'
<1> DEFINE AsEntry(key, row) == [cve |-> key[1], cpe |-> key[2], range |-> row.range,
                                 score |-> row.score]
<1>1. ASSUME NEW p \in Process, Upsert(p) PROVE RowsPublished'
  <2>1. rows' = Upserted(p)
    BY <1>1 DEF Upsert
  <2>2. ASSUME NEW key \in DOMAIN Upserted(p)
        PROVE  Published(AsEntry(key, Upserted(p)[key]))
    <3>1. CASE key \in Keys(p)
      <4> DEFINE entry == fetched[p].entries[LastRecord(p, key)]
      <4>1. LastRecord(p, key) \in DOMAIN fetched[p].entries /\ RowKey(entry) = key
        BY <3>1, LastRecordIsOne
      <4>2. entry \in Entry /\ Published(entry)
        <5>1. fetched[p].entries \in Seq(Entry)
          BY DEF TypeOK
        <5> QED BY <4>1, <5>1 DEF PagesPublished
      <4>3. Upserted(p)[key] = [range |-> entry.range, score |-> entry.score]
        BY <3>1 DEF Upserted
      <4> HIDE DEF entry
      <4>4. AsEntry(key, Upserted(p)[key]) = entry
        BY <4>1, <4>2, <4>3 DEF Entry, RowKey
      <4> QED BY <4>2, <4>4
    <3>2. CASE key \notin Keys(p)
      <4>1. key \in DOMAIN rows /\ Upserted(p)[key] = rows[key]
        BY <2>2, <3>2 DEF Upserted
      <4> QED BY <4>1 DEF RowsPublished
    <3> QED BY <3>1, <3>2
  <2> QED BY <2>1, <2>2, PublishedStays DEF RowsPublished, Published
<1>2. CASE rows' \in {rows, Nothing}
  <2>1. ASSUME NEW key \in DOMAIN rows' PROVE rows' = rows
    BY <1>2, <2>1 DEF Nothing
  <2>2. ASSUME NEW key \in DOMAIN rows' PROVE Published(AsEntry(key, rows[key]))
    BY <2>1, <2>2 DEF RowsPublished
  <2> QED BY <2>1, <2>2, PublishedStays DEF RowsPublished, Published
<1>3. rows' \in {rows, Nothing} \/ \E p \in Process : Upsert(p)
    BY DEF Next, vars, file, Publish, StartSync, StartLookup, Crash, Step, Initialize,
           ReadVersion, DropTable, CreateTable, CreateIndexes, Stamp, FetchPage, FetchFails,
           UpsertFails, Select
<1> QED BY <1>1, <1>2, <1>3

\* Every row is one NVD published as a whole, however many processes write the
\* file, whatever NVD publishes meanwhile, and wherever a process is killed.
THEOREM CacheRowsPublished == Spec => [](PagesPublished /\ RowsPublished)
<1>1. Init => PagesPublished /\ RowsPublished
  <2>1. Init => RowsPublished
    BY DEF Init, Nothing, RowsPublished
  <2>2. Init => PagesPublished
    BY DEF Init, NoPage, PagesPublished
  <2> QED BY <2>1, <2>2
<1>2. TypeOK /\ PagesPublished /\ RowsPublished /\ [Next]_vars
         => PagesPublished' /\ RowsPublished'
    BY PagesPublishedKept, RowsPublishedKept
<1> QED BY <1>1, <1>2, CacheTypeOK, PTL DEF Spec
\* What lookup_sync answers rests on rows of the product asked for.
LEMMA EntriesAreJustified ==
    ASSUME TypeOK, RowsPublished, NEW component, NEW version,
           NEW cve \in DOMAIN Entries(component, version)
    PROVE  Justified(cve, Entries(component, version)[cve], component, version)
<1> DEFINE key == FirstMatch(component, version, cve)
<1>1. PICK k \in Matching(component, version) : k[1] = cve
    BY DEF Entries
<1>2. key \in Matching(component, version) /\ key[1] = cve
    BY <1>1, FirstMatchMatches
<1> HIDE DEF key
<1>3. /\ key \in DOMAIN rows /\ key \in Cve \X Cpe /\ rows[key] \in Row
      /\ ProductOf[key[2]] = component /\ Covers(key[2], version, rows[key].range)
    BY <1>2 DEF Matching, TypeOK
<1>4. Published([cve |-> key[1], cpe |-> key[2],
                 range |-> rows[key].range, score |-> rows[key].score])
    BY <1>3 DEF RowsPublished
<1>5. Entries(component, version)[cve] = rows[key].score
    BY DEF Entries, key
<1>6. key[2] \in Cpe /\ rows[key].range \in Ranges
    BY <1>3 DEF Row
<1> QED BY <1>2, <1>3, <1>4, <1>5, <1>6 DEF Justified

\* No process is ever told of a CVE that NVD did not publish for the product and
\* version it asked about, whatever other processes do to the file meanwhile.
THEOREM CacheLookupSound == Spec => []LookupSound
<1>1. Init => LookupSound
    BY DEF Init, Nothing, LookupSound
<1>2. TypeOK /\ RowsPublished /\ LookupSound /\ [Next]_vars => LookupSound'
  <2> SUFFICES ASSUME TypeOK, RowsPublished, LookupSound, [Next]_vars,
                      NEW q \in Process, NEW cve \in DOMAIN answer'[q]
               PROVE  /\ wanted'[q] \in Lookup
                      /\ Justified(cve, answer[q][cve], wanted[q].component, wanted[q].version)'
    BY DEF LookupSound
  <2>1. SUFFICES /\ wanted'[q] \in Lookup
                 /\ Justified(cve, answer'[q][cve], wanted'[q].component, wanted'[q].version)
    BY PublishedStays DEF Justified, Published
  <2>2. CASE answer'[q] = answer[q] /\ wanted'[q] = wanted[q]
    BY <2>2 DEF LookupSound
  <2>3. CASE Select(q) /\ table = "current"
    <3>1. wanted' = wanted /\ wanted[q] \in Lookup
      BY <2>3 DEF Select, syncing, TypeOK
    <3>2. answer'[q] = Entries(wanted[q].component, wanted[q].version)
      BY <2>3 DEF Select, TypeOK
    <3> QED BY <3>1, <3>2, EntriesAreJustified
  <2>4. CASE \E p \in Process : answer' = [answer EXCEPT ![p] = Nothing]
                               /\ \E w : wanted' = [wanted EXCEPT ![p] = w]
    <3>1. PICK p \in Process : answer' = [answer EXCEPT ![p] = Nothing]
                              /\ \E w : wanted' = [wanted EXCEPT ![p] = w]
      BY <2>4
    <3>2. p # q
      <4>1. answer'[q] # Nothing
        BY DEF Nothing
      <4> QED BY <3>1, <4>1 DEF TypeOK
    <3> QED BY <3>1, <3>2, <2>2 DEF TypeOK
  <2>5. CASE \E p \in Process \ {q} : Select(p) /\ table = "current"
    BY <2>2, <2>5 DEF Select, syncing, TypeOK
  <2>6. CASE UNCHANGED <<answer, wanted>>
    BY <2>2, <2>6
  <2>7. \A p \in Process : [wanted EXCEPT ![p] = wanted[p]] = wanted
    BY DEF TypeOK
  <2>8. ASSUME NEW p \in Process, NEW reason, Abort(p, reason), UNCHANGED syncing
        PROVE  \E p2 \in Process : answer' = [answer EXCEPT ![p2] = Nothing]
                                  /\ \E w : wanted' = [wanted EXCEPT ![p2] = w]
    BY <2>7, <2>8 DEF Abort, syncing
  <2>9. ASSUME NEW p \in Process, StartSync(p) \/ \E c \in Component, v \in Versions :
                                    StartLookup(p, c, v)
        PROVE  \E p2 \in Process : answer' = [answer EXCEPT ![p2] = Nothing]
                                  /\ \E w : wanted' = [wanted EXCEPT ![p2] = w]
    BY <2>9 DEF StartSync, StartLookup
  <2>10. ASSUME NEW p \in Process, UpsertFails(p)
         PROVE  \E p2 \in Process : answer' = [answer EXCEPT ![p2] = Nothing]
                                   /\ \E w : wanted' = [wanted EXCEPT ![p2] = w]
    BY <2>7, <2>10 DEF UpsertFails, Abort
  <2>11. CASE \E p \in Process : Initialize(p) \/ Select(p)
    BY <2>3, <2>4, <2>5, <2>6, <2>8, <2>11 DEF Initialize, ReadVersion, DropTable, CreateTable,
       CreateIndexes, Stamp, Select, syncing
  <2>12. CASE \E p \in Process : FetchPage(p) \/ FetchFails(p) \/ Upsert(p) \/ Crash(p)
    BY <2>6, <2>12 DEF FetchPage, FetchFails, Upsert, Crash
  <2>13. CASE Publish \/ UNCHANGED vars
    BY <2>6, <2>13 DEF Publish, vars, syncing
  <2> QED BY <2>4, <2>9, <2>10, <2>11, <2>12, <2>13 DEF Next, Step
<1> QED BY <1>1, <1>2, CacheTypeOK, CacheRowsPublished, PTL DEF Spec

-----------------------------------------------------------------------------
(* The table is found and rows are kept.                                    *)

Using == {"request", "upsert", "select"}

\* How far opening the file is, in terms of the file: a file of this version has the
\* table, one of another has no rows, and only a file of this version is used.
Layout ==
    /\ userVersion = SCHEMA_VERSION => table = "current"
    /\ userVersion # SCHEMA_VERSION => DOMAIN rows = {}
    /\ Settled => userVersion = SCHEMA_VERSION
    /\ \A p \in Process :
          /\ pc[p] = "drop" => userVersion # SCHEMA_VERSION
          /\ pc[p] = "create" => table # "legacy"
          /\ pc[p] \in {"index", "stamp"} => table = "current"
          /\ initialized[p] \/ pc[p] \in Using => userVersion = SCHEMA_VERSION

\* The file at first, whatever its layout.
LEMMA LayoutAtFirst == Init => Layout
<1>1. Init => (userVersion = SCHEMA_VERSION => table = "current")
    BY CacheAssumption DEF Init
<1>2. Init => DOMAIN rows = {}
    BY DEF Init, Nothing
<1>3. Init => (Settled => userVersion = SCHEMA_VERSION)
    BY DEF Init, Settled
<1> QED BY <1>1, <1>2, <1>3 DEF Init, Layout, Using

\* Opening the file, by one process alone or for a file that is as it should be.
LEMMA InitializeKeepsLayout ==
    ASSUME Sole \/ Settled, TypeOK, Layout, NEW p \in Process, Initialize(p)
    PROVE  Layout'
<1>1. CASE ReadVersion(p)
    BY <1>1 DEF ReadVersion, Migrates, Layout, TypeOK, file, Using
<1>2. CASE DropTable(p)
  <2>1. userVersion # SCHEMA_VERSION /\ Sole
    BY <1>2 DEF DropTable, Layout
  <2>2. \A q \in Process : q = p
    BY <2>1 DEF Sole
  <2> QED BY <1>2, <2>1, <2>2 DEF DropTable, Layout, TypeOK, Using, Nothing
<1>3. CASE CreateTable(p)
    BY <1>3 DEF CreateTable, Layout, TypeOK, Using
<1>4. CASE CreateIndexes(p)
    BY <1>4 DEF CreateIndexes, Abort, Layout, TypeOK, file, Using
<1>5. CASE Stamp(p)
  <2>1. table = "current" /\ table' = table /\ userVersion' = SCHEMA_VERSION
    BY <1>5 DEF Stamp, Layout
  <2>2. \A q \in Process : pc'[q] # "drop"
    <3>1. pc' = [pc EXCEPT ![p] = AfterInit(p)] /\ AfterInit(p) \notin Initializing
      BY <1>5 DEF Stamp, AfterInit, Initializing
    <3>2. ASSUME NEW q \in Process, pc[q] = "drop" PROVE q = p
      BY <3>2 DEF Sole, Layout
    <3> QED BY <3>1, <3>2 DEF TypeOK, Initializing
  <2>3. \A q \in Process : pc'[q] = pc[q] \/ pc'[q] \in Using \cup {"idle"}
    BY <1>5 DEF Stamp, AfterInit, TypeOK, Using
  <2> QED BY <2>1, <2>2, <2>3 DEF Layout, Using
<1> QED BY <1>1, <1>2, <1>3, <1>4, <1>5 DEF Initialize

\* Whoever uses the file leaves its layout alone.
LEMMA LayoutKept ==
    ASSUME Sole \/ Settled, TypeOK, Layout, [Next]_vars
    PROVE  Layout'
<1>1. ASSUME UNCHANGED <<table, userVersion, rows>>,
             \A p \in Process : /\ pc'[p] \in {pc[p], "idle", "read version"} \cup Using
                                /\ pc'[p] \in Using => pc[p] \in Using \/ initialized[p]
                                /\ initialized'[p] => initialized[p]
      PROVE  Layout'
    BY <1>1 DEF Layout, Using
<1>2. CASE Publish \/ UNCHANGED vars
    BY <1>1, <1>2 DEF Publish, vars, file
<1>3. ASSUME NEW p \in Process, StartSync(p) \/ Crash(p) \/ Select(p) \/ UpsertFails(p)
      PROVE  Layout'
    BY <1>1, <1>3 DEF StartSync, Crash, Select, UpsertFails, Abort, TypeOK, file, Using
<1>4. ASSUME NEW p \in Process, NEW c \in Component, NEW v \in Versions, StartLookup(p, c, v)
      PROVE  Layout'
    BY <1>1, <1>4 DEF StartLookup, TypeOK, file, Using
<1>5. ASSUME NEW p \in Process, FetchPage(p) \/ FetchFails(p) PROVE Layout'
    BY <1>1, <1>5 DEF FetchPage, FetchFails, NextComponent, TypeOK, file, Using
<1>6. ASSUME NEW p \in Process, Upsert(p) PROVE Layout'
  <2>1. userVersion = SCHEMA_VERSION /\ pc[p] = "upsert" /\ pc' = [pc EXCEPT ![p] = pc'[p]]
        /\ pc'[p] \in {"request", "idle"}
    BY <1>6 DEF Upsert, NextComponent, Layout, Using, TypeOK
  <2>2. UNCHANGED <<table, userVersion, initialized>>
    BY <1>6 DEF Upsert
  <2> QED BY <2>1, <2>2 DEF Layout, TypeOK, Using
<1>7. ASSUME NEW p \in Process, Step(p) PROVE Layout'
    BY <1>3, <1>5, <1>6, <1>7, InitializeKeepsLayout DEF Step
<1> QED BY <1>2, <1>3, <1>4, <1>7 DEF Next

\* The layout fits what the processes do, all the time.
LEMMA LayoutHolds ==
    ASSUME Sole \/ Settled
    PROVE  Spec => []Layout
<1>1. TypeOK /\ Layout /\ [Next]_vars => Layout'
    BY LayoutKept
<1> QED BY <1>1, LayoutAtFirst, CacheTypeOK, PTL DEF Spec

\* One process at a time, or any number of them on a migrated file, never meet a
\* database without its table, whatever layout it had and wherever one is killed.
THEOREM CacheTableFound ==
    ASSUME Sole \/ Settled
    PROVE  Spec => []TableFound
<1>1. Init => TableFound
    BY DEF Init, TableFound
<1>2. TypeOK /\ Layout /\ TableFound /\ [Next]_vars => TableFound'
  <2> SUFFICES ASSUME TypeOK, Layout, TableFound, [Next]_vars PROVE TableFound'
    OBVIOUS
  <2>1. ASSUME NEW p \in Process, pc[p] \in Using \cup {"index"} PROVE table = "current"
    BY <2>1 DEF Layout
  <2>2. ASSUME NEW p \in Process, Initialize(p) PROVE TableFound'
    BY <2>1, <2>2 DEF Initialize, ReadVersion, DropTable, CreateTable, CreateIndexes, Stamp,
        TableFound
  <2>3. ASSUME NEW p \in Process,
               FetchPage(p) \/ FetchFails(p) \/ Upsert(p) \/ UpsertFails(p) \/ Select(p)
        PROVE  TableFound'
    BY <2>1, <2>3 DEF FetchPage, FetchFails, Upsert, UpsertFails, Select, Abort, TableFound,
        TypeOK, Using
  <2>4. ASSUME NEW p \in Process,
               \/ StartSync(p) \/ Crash(p)
               \/ \E c \in Component, v \in Versions : StartLookup(p, c, v)
        PROVE  TableFound'
    BY <2>4 DEF StartSync, Crash, StartLookup, TableFound, TypeOK
  <2>5. CASE Publish \/ UNCHANGED vars
    BY <2>5 DEF Publish, vars, TableFound
  <2> QED BY <2>2, <2>3, <2>4, <2>5 DEF Next, Step
<1> QED BY <1>1, <1>2, CacheTypeOK, LayoutHolds, PTL DEF Spec

\* The table is only dropped while it has no rows, and everything else keeps the rows:
\* no synchronised row disappears.
THEOREM CacheRowsKept ==
    ASSUME Sole \/ Settled
    PROVE  Spec => RowsKept
<1>1. Layout /\ [Next]_vars => [DOMAIN rows \subseteq DOMAIN rows']_vars
  <2> SUFFICES ASSUME Layout, [Next]_vars PROVE DOMAIN rows \subseteq DOMAIN rows'
    OBVIOUS
  <2>1. ASSUME NEW p \in Process, DropTable(p) PROVE DOMAIN rows \subseteq DOMAIN rows'
    BY <2>1 DEF DropTable, Layout
  <2>2. ASSUME NEW p \in Process, Upsert(p) PROVE DOMAIN rows \subseteq DOMAIN rows'
    BY <2>2 DEF Upsert, Upserted
  <2>3. rows' = rows \/ \E p \in Process : DropTable(p) \/ Upsert(p)
    BY DEF Next, vars, file, Publish, StartSync, StartLookup, Crash, Step, Initialize,
           ReadVersion, CreateTable, CreateIndexes, Stamp, FetchPage, FetchFails,
           UpsertFails, Select
  <2> QED BY <2>1, <2>2, <2>3
<1> QED BY <1>1, LayoutHolds, PTL DEF Spec, RowsKept

-----------------------------------------------------------------------------
(* A clean sync is complete.                                                *)

\* NVD listed the key for the component, in the feed of some revision up to now.
ListedFor(now, component, key) ==
    \E r \in 1 .. now : \E e \in Own(r, component) : RowKey(e) = key

\* What a page is about to write of the component at hand was listed for it.
PagesListed ==
    \A p \in Process : pc[p] = "upsert" =>
        \A i \in DOMAIN fetched[p].entries :
            ProductOf[fetched[p].entries[i].cpe] = Names[position[p]]
                => ListedFor(revision, Names[position[p]], RowKey(fetched[p].entries[i]))

\* A row of a component was listed for that component.
RowsListed ==
    \A key \in DOMAIN rows :
        ProductOf[key[2]] \in Component => ListedFor(revision, ProductOf[key[2]], key)

\* The page is in the rows as it is, as far as the component goes.
PageIn(held, component, entries) ==
    \A i \in DOMAIN entries :
        ProductOf[entries[i].cpe] = component =>
            /\ RowKey(entries[i]) \in DOMAIN held
            /\ held[RowKey(entries[i])] = [range |-> entries[i].range, score |-> entries[i].score]

\* What a sync has read of a feed that did not change since is stored.
ReadSoFar(p) ==
    /\ \A c \in 1 .. position[p] - 1 : \A n \in DOMAIN History[revision][Names[c]] :
          PageIn(rows, Names[c], History[revision][Names[c]][n])
    /\ position[p] <= Len(Names) =>
          \A n \in DOMAIN History[revision][Names[position[p]]] :
              n <= page[p] =>
                  PageIn(rows, Names[position[p]], History[revision][Names[position[p]]][n])
    /\ pc[p] = "upsert" => fetched[p] = Response(Names[position[p]], page[p])
    /\ pc[p] = "idle" \/ wanted[p] \in Lookup => position[p] = Len(Names) + 1

Reading ==
    \A p \in Process :
        cleanSince[p] <= revision /\ (cleanSince[p] = revision => ReadSoFar(p))

\* A name of the list is a component and has pages of entries in every feed.
LEMMA PagesOfNames ==
    ASSUME NEW r \in DOMAIN History, NEW c \in 1 .. Len(Names)
    PROVE  /\ Names[c] \in Component
           /\ History[r][Names[c]] \in Seq(Seq(Entry))
<1>1. Names[c] \in Component
    BY CacheAssumption
<1>2. History[r] \in Feed
    BY CacheAssumption
<1> QED BY <1>1, <1>2 DEF Feed

\* An entry of a page of the component is its own.
LEMMA EntriesOwn ==
    ASSUME NEW r \in DOMAIN History, NEW component \in Component,
           NEW n \in DOMAIN History[r][component],
           NEW i \in DOMAIN History[r][component][n],
           ProductOf[History[r][component][n][i].cpe] = component
    PROVE  History[r][component][n][i] \in Own(r, component)
<1>1. History[r] \in Feed
    BY CacheAssumption
<1>2. History[r][component] \in Seq(Seq(Entry))
    BY <1>1 DEF Feed
<1>3. History[r][component][n] \in Seq(Entry)
    BY <1>2
<1>4. History[r][component][n][i] \in Entry
    BY <1>3
<1> QED BY <1>4 DEF Own

\* The present revision is one of the history.
LEMMA RevisionInHistory == TypeOK => revision \in DOMAIN History
<1>1. Len(History) \in Nat /\ DOMAIN History = 1 .. Len(History)
    BY CacheAssumption
<1> QED BY <1>1 DEF TypeOK

\* The component and the page a sync is at.
LEMMA AtHand ==
    ASSUME TypeOK, NEW p \in Process
    PROVE  /\ position[p] \in 1 .. Len(Names) + 1 /\ Len(Names) \in Nat
           /\ pc[p] \in {"request", "upsert"} => position[p] \in 1 .. Len(Names)
           /\ page[p] \in Nat
<1>1. /\ position[p] \in 1 .. Len(Names) + 1
      /\ pc[p] \in {"request", "upsert"} => position[p] <= Len(Names)
      /\ page[p] \in 0 .. MaxPages - 1
    BY DEF TypeOK
<1>2. Len(Names) \in Nat /\ MaxPages \in Nat
    BY CacheAssumption
<1> QED BY ONLY <1>1, <1>2

\* What was listed for a component remains so.
LEMMA ListedForStays ==
    ASSUME TypeOK, [Next]_vars, NEW component, NEW key, ListedFor(revision, component, key)
    PROVE  ListedFor(revision', component, key)
    BY PublishedStays DEF ListedFor

\* A page in hand is one of the feed, and its entries were listed for the component.
LEMMA PagesListedKept ==
    ASSUME TypeOK, PagesListed, [Next]_vars
    PROVE  PagesListed'
<1> SUFFICES ASSUME NEW q \in Process, pc'[q] = "upsert",
                    NEW i \in DOMAIN fetched'[q].entries,
                    ProductOf[fetched'[q].entries[i].cpe] = Names[position'[q]]
             PROVE  ListedFor(revision', Names[position'[q]], RowKey(fetched'[q].entries[i]))
    BY DEF PagesListed
<1>1. CASE FetchPage(q)
  <2> DEFINE component == Names[position[q]]
             number == page[q]
             pages == History[revision][component]
  <2>1. /\ pc[q] = "request" /\ position' = position /\ revision' = revision
        /\ fetched'[q] = Response(component, number)
    BY <1>1 DEF FetchPage, TypeOK
  <2>2. component \in Component /\ pages \in Seq(Seq(Entry)) /\ revision \in DOMAIN History
    BY <2>1, AtHand, PagesOfNames, RevisionInHistory
  <2>3. fetched'[q].entries = IF number < Len(pages) THEN pages[number + 1] ELSE <<>>
    <3>1. Response(component, number).entries = IF number < Len(pages) THEN pages[number + 1] ELSE <<>>
      BY DEF Response
    <3> QED BY <2>1, <3>1
  <2>4. number < Len(pages) /\ number + 1 \in DOMAIN pages
    <3>1. page[q] \in Nat
      BY <2>1, AtHand
    <3>2. i \in DOMAIN (IF number < Len(pages) THEN pages[number + 1] ELSE <<>>)
      BY <2>3
    <3> HIDE DEF pages
    <3> QED BY ONLY <2>2, <3>1, <3>2
  <2>5. fetched'[q].entries[i] \in Own(revision, component)
    BY <2>1, <2>2, <2>3, <2>4, EntriesOwn
  <2>6. revision \in 1 .. revision
    BY RevisionIsPositive
  <2> HIDE DEF component
  <2>7. ListedFor(revision, component, RowKey(fetched'[q].entries[i]))
    BY <2>5, <2>6 DEF ListedFor
  <2> QED BY <2>1, <2>7 DEF component
<1>2. CASE pc[q] = "upsert" /\ fetched'[q] = fetched[q] /\ position'[q] = position[q]
  <2>1. ListedFor(revision, Names[position[q]], RowKey(fetched[q].entries[i]))
    BY <1>2 DEF PagesListed
  <2> QED BY <1>2, <2>1, ListedForStays
<1>3. FetchPage(q) \/ (pc[q] = "upsert" /\ fetched'[q] = fetched[q] /\ position'[q] = position[q])
  <2>1. ASSUME NEW p \in Process, p # q, StartSync(p) \/ Step(p) \/ Crash(p)
                 \/ \E c \in Component, v \in Versions : StartLookup(p, c, v)
        PROVE  pc'[q] = pc[q] /\ fetched'[q] = fetched[q] /\ position'[q] = position[q]
    BY <2>1 DEF TypeOK, syncing, StartSync, StartLookup, Crash, Step, Initialize, ReadVersion,
           DropTable, CreateTable, CreateIndexes, Abort, Stamp, FetchPage, FetchFails, Upsert,
           NextComponent, UpsertFails, Select
  <2>2. ASSUME StartSync(q) \/ Step(q) \/ Crash(q)
                 \/ \E c \in Component, v \in Versions : StartLookup(q, c, v)
        PROVE  FetchPage(q)
    BY <2>2 DEF TypeOK, AfterInit, StartSync, StartLookup, Crash, Step, Initialize, ReadVersion,
           DropTable, CreateTable, CreateIndexes, Abort, Stamp, FetchFails, Upsert,
           NextComponent, UpsertFails, Select
  <2>3. CASE Publish \/ UNCHANGED vars
    BY <2>3 DEF Publish, vars, syncing
  <2> QED BY <2>1, <2>2, <2>3 DEF Next
<1> QED BY <1>1, <1>2, <1>3

\* A row is written for the component at hand, or for a criteria of no product.
LEMMA RowsListedKept ==
    ASSUME TypeOK, PagesListed, RowsListed, [Next]_vars
    PROVE  RowsListed'
<1> SUFFICES ASSUME NEW key \in DOMAIN rows', ProductOf[key[2]] \in Component
             PROVE  ListedFor(revision', ProductOf[key[2]], key)
    BY DEF RowsListed
<1>1. CASE key \in DOMAIN rows
    BY <1>1, ListedForStays DEF RowsListed
<1>2. ASSUME NEW p \in Process, Upsert(p), key \in Keys(p)
      PROVE  ListedFor(revision', ProductOf[key[2]], key)
  <2>1. PICK i \in Records(p) : RowKey(fetched[p].entries[i]) = key
    BY <1>2 DEF Keys
  <2>2. ProductOf[key[2]] = Names[position[p]]
    BY <2>1, CacheAssumption DEF Records, Belongs, IsComponent, RowKey
  <2>3. ListedFor(revision, Names[position[p]], key)
    BY <1>2, <2>1, <2>2 DEF Upsert, PagesListed, Records, RowKey
  <2> QED BY <2>2, <2>3, ListedForStays
<1>3. rows' \in {rows, Nothing} \/ \E p \in Process : Upsert(p)
    BY DEF Next, vars, file, Publish, StartSync, StartLookup, Crash, Step, Initialize,
           ReadVersion, DropTable, CreateTable, CreateIndexes, Stamp, FetchPage, FetchFails,
           UpsertFails, Select
<1>4. \A p \in Process : Upsert(p) => key \in DOMAIN rows \cup Keys(p)
    BY DEF Upsert, Upserted
<1> QED BY <1>1, <1>2, <1>3, <1>4 DEF Nothing

\* What a page has of a component is written as it is when the feed has one range and
\* one score for it.
LEMMA UpsertWrites ==
    ASSUME TypeOK, ConsistentFeeds, NEW p \in Process, pc[p] = "upsert",
           fetched[p] = Response(Names[position[p]], page[p]),
           NEW component \in Component, NEW e \in Own(revision, component), RowKey(e) \in Keys(p)
    PROVE  Upserted(p)[RowKey(e)] = [range |-> e.range, score |-> e.score]
<1> DEFINE f == fetched[p].entries[LastRecord(p, RowKey(e))]
           pages == History[revision][Names[position[p]]]
           number == page[p]
<1>1. LastRecord(p, RowKey(e)) \in Records(p) /\ RowKey(f) = RowKey(e)
    BY LastRecordIsOne
<1>2. position[p] \in 1 .. Len(Names) /\ revision \in DOMAIN History
    BY AtHand, RevisionInHistory
<1>3. Names[position[p]] = component
    BY <1>1, CacheAssumption DEF Records, Belongs, IsComponent, RowKey, Own
<1>4. pages \in Seq(Seq(Entry)) /\ number \in Nat
    BY <1>2, AtHand, PagesOfNames
<1>5. fetched[p].entries = IF number < Len(pages) THEN pages[number + 1] ELSE <<>>
    BY DEF Response
<1>6. number + 1 \in DOMAIN pages /\ fetched[p].entries = pages[number + 1]
  <2>1. LastRecord(p, RowKey(e)) \in DOMAIN fetched[p].entries
    BY <1>1 DEF Records
  <2> HIDE DEF pages, number
  <2>2. number < Len(pages)
    BY <1>5, <2>1
  <2> QED BY <1>4, <1>5, <2>2
<1>7. ProductOf[f.cpe] = component
    BY <1>1 DEF RowKey, Own
<1>8. f \in Own(revision, component)
    BY <1>1, <1>2, <1>3, <1>6, <1>7, EntriesOwn DEF Records
<1>9. f.range = e.range /\ f.score = e.score
    BY <1>1, <1>2, <1>8 DEF ConsistentFeeds, OneRange, OneScore, RowKey
<1> QED BY <1>9 DEF Upserted

\* What a page stored stays stored when another page of a consistent feed is written,
\* and the page written is stored.
LEMMA UpsertKeepsPages ==
    ASSUME TypeOK, ConsistentFeeds, NEW p \in Process, pc[p] = "upsert",
           fetched[p] = Response(Names[position[p]], page[p]),
           NEW c \in 1 .. Len(Names), NEW n \in DOMAIN History[revision][Names[c]],
           \/ PageIn(rows, Names[c], History[revision][Names[c]][n])
           \/ c = position[p] /\ n = page[p] + 1
    PROVE  PageIn(Upserted(p), Names[c], History[revision][Names[c]][n])
<1> DEFINE component == Names[c]
           entries == History[revision][component][n]
<1> SUFFICES ASSUME NEW i \in DOMAIN entries, ProductOf[entries[i].cpe] = component
             PROVE  /\ RowKey(entries[i]) \in DOMAIN Upserted(p)
                    /\ Upserted(p)[RowKey(entries[i])] =
                          [range |-> entries[i].range, score |-> entries[i].score]
    BY DEF PageIn
<1>1. component \in Component /\ revision \in DOMAIN History
    BY PagesOfNames, RevisionInHistory
<1>2. entries[i] \in Own(revision, component)
    BY <1>1, EntriesOwn
<1>3. DOMAIN Upserted(p) = DOMAIN rows \cup Keys(p)
    BY DEF Upserted
<1>4. CASE RowKey(entries[i]) \in Keys(p)
    BY <1>1, <1>2, <1>3, <1>4, UpsertWrites
<1>5. CASE PageIn(rows, component, entries) /\ RowKey(entries[i]) \notin Keys(p)
    BY <1>3, <1>5 DEF PageIn, Upserted
<1>6. CASE c = position[p] /\ n = page[p] + 1
  <2>1. fetched[p].entries = entries
    <3>1. page[p] < Len(History[revision][component])
      <4>1. History[revision][component] \in Seq(Seq(Entry)) /\ page[p] \in Nat
        BY <1>1, PagesOfNames, AtHand
      <4> QED BY <1>6, <4>1
    <3> QED BY <1>6, <3>1 DEF Response
  <2>2. i \in Records(p)
    <3>1. entries[i] \in Entry
      BY <1>2 DEF Own
    <3>2. ProductOf[entries[i].cpe] # NoProduct
      BY <1>1, CacheAssumption
    <3> QED BY <1>6, <2>1, <3>2 DEF Records, Belongs, IsComponent
  <2> QED BY <1>4, <2>1, <2>2 DEF Keys
<1> QED BY <1>4, <1>5, <1>6

\* A sync that was not interrupted has stored what it has read of a feed that has not
\* changed since, as long as there is one process.
LEMMA ReadingKept ==
    ASSUME Sole, ConsistentFeeds, TypeOK, Layout, Reading, [Next]_vars
    PROVE  Reading'
<1> SUFFICES ASSUME NEW q \in Process
             PROVE  /\ cleanSince'[q] <= revision'
                    /\ cleanSince'[q] = revision' => ReadSoFar(q)'
    BY DEF Reading
<1>1. /\ revision \in Nat /\ 0 < revision
      /\ cleanSince[q] \in Nat /\ cleanSince[q] <= revision
      /\ cleanSince[q] = revision => ReadSoFar(q)
  <2>1. cleanSince[q] \in 0 .. Len(History) /\ revision \in 1 .. Len(History)
    BY DEF TypeOK
  <2>2. Len(History) \in Nat
    BY CacheAssumption
  <2>3. cleanSince[q] \in Nat /\ revision \in Nat /\ 0 < revision
    BY ONLY <2>1, <2>2
  <2> QED BY <2>3 DEF Reading
<1>2. CASE Publish
    BY <1>1, <1>2 DEF Publish
<1>3. CASE cleanSince'[q] = 0 /\ revision' = revision
    BY <1>1, <1>3
<1>4. CASE /\ UNCHANGED <<revision, rows>> /\ cleanSince'[q] = cleanSince[q]
           /\ position'[q] = position[q] /\ page'[q] = page[q]
           /\ pc'[q] = "upsert" => fetched'[q] = Response(Names[position[q]], page[q])
           /\ pc'[q] = "idle" \/ wanted'[q] \in Lookup =>
                 \/ position[q] = Len(Names) + 1
                 \/ pc[q] = "idle" \/ wanted[q] \in Lookup
    BY <1>1, <1>4 DEF ReadSoFar, Response
<1>5. ASSUME StartSync(q)
      PROVE  cleanSince'[q] <= revision' /\ (cleanSince'[q] = revision' => ReadSoFar(q)')
  <2>1. cleanSince'[q] = revision /\ revision' = revision /\ position'[q] = 1
    BY <1>5 DEF StartSync, TypeOK
  <2>2. page'[q] = 0 /\ pc'[q] = "read version" /\ wanted'[q] = WholeSync
    BY <1>5 DEF StartSync, TypeOK
  <2>3. WholeSync \notin Lookup
    BY DEF WholeSync, Lookup
  <2>4. 1 <= Len(Names) => \A n \in DOMAIN History[revision][Names[1]] : ~(n <= 0)
    <3>1. 1 <= Len(Names) => 1 \in 1 .. Len(Names)
      BY AtHand
    <3> QED BY <3>1, PagesOfNames, RevisionInHistory
  <2>5. \A c \in 1 .. position'[q] - 1 : FALSE
    <3>1. position'[q] - 1 = 0
      BY <2>1
    <3> QED BY ONLY <3>1
  <2>6. cleanSince'[q] <= revision'
    BY <1>1, <2>1
  <2>7. /\ position'[q] <= Len(Names) =>
              \A n \in DOMAIN History[revision'][Names[position'[q]]] : ~(n <= page'[q])
        /\ pc'[q] # "upsert" /\ pc'[q] # "idle" /\ wanted'[q] \notin Lookup
    BY <2>1, <2>2, <2>3, <2>4
  <2>8. ReadSoFar(q)'
    BY <2>5, <2>7 DEF ReadSoFar
  <2> QED BY <2>6, <2>8
<1>6. ASSUME NEW c \in Component, NEW v \in Versions, StartLookup(q, c, v)
      PROVE  cleanSince'[q] <= revision' /\ (cleanSince'[q] = revision' => ReadSoFar(q)')
    BY <1>4, <1>6 DEF StartLookup, file, TypeOK
<1>7. ASSUME Initialize(q)
      PROVE  cleanSince'[q] <= revision' /\ (cleanSince'[q] = revision' => ReadSoFar(q)')
  <2>1. CASE ReadVersion(q) \/ CreateTable(q)
    BY <1>4, <2>1 DEF ReadVersion, CreateTable, file, syncing, TypeOK
  <2>2. CASE DropTable(q)
    <3>1. rows' = rows
      <4>1. DOMAIN rows = {}
        BY <2>2 DEF DropTable, Layout
      <4>2. rows = [k \in DOMAIN rows |-> rows[k]]
        BY DEF TypeOK
      <4> QED BY <2>2, <4>1, <4>2 DEF DropTable, Nothing
    <3> QED BY <1>4, <2>2, <3>1 DEF DropTable, syncing, TypeOK
  <2>3. CASE CreateIndexes(q)
    BY <1>3, <1>4, <2>3 DEF CreateIndexes, Abort, file, syncing, TypeOK
  <2>4. CASE Stamp(q)
    <3>1. AfterInit(q) = "idle" => wanted[q] \in Lookup \/ position[q] = Len(Names) + 1
      <4>1. wanted[q] \notin Lookup => position[q] = 1
        BY <2>4 DEF Stamp, TypeOK, Initializing
      <4>2. AfterInit(q) = "idle" => wanted[q] \in Lookup \/ Names = <<>>
        BY DEF AfterInit
      <4> QED BY <4>1, <4>2
    <3>2. pc'[q] = AfterInit(q) /\ AfterInit(q) # "upsert"
      BY <2>4 DEF Stamp, AfterInit, TypeOK
    <3>3. UNCHANGED <<revision, rows, cleanSince, position, page, wanted>>
      BY <2>4 DEF Stamp, syncing
    <3> QED BY <1>4, <3>1, <3>2, <3>3
  <2> QED BY <1>7, <2>1, <2>2, <2>3, <2>4 DEF Initialize
<1>8. CASE FetchPage(q)
    BY <1>4, <1>8 DEF FetchPage, file, TypeOK
<1>9. CASE FetchFails(q) \/ UpsertFails(q)
    BY <1>3, <1>9 DEF FetchFails, UpsertFails, Abort, TypeOK
<1>10. CASE Select(q)
    BY <1>3, <1>4, <1>10 DEF Select, Abort, file, syncing, TypeOK
<1>11. CASE Crash(q)
    BY <1>3, <1>4, <1>11 DEF Crash, file, TypeOK
<1>12. ASSUME Upsert(q), cleanSince'[q] = revision
       PROVE  ReadSoFar(q)'
  <2> DEFINE pages == History[revision][Names[position[q]]]
  <2>1. /\ revision' = revision /\ wanted' = wanted /\ rows' = Upserted(q) /\ pc[q] = "upsert"
        /\ cleanSince[q] = revision
    <3>1. cleanSince'[q] \in {0, cleanSince[q]}
      BY <1>12 DEF Upsert, TypeOK
    <3>2. cleanSince'[q] # 0
      BY <1>1, <1>12
    <3> QED BY <1>12, <3>1, <3>2 DEF Upsert
  <2>2. ReadSoFar(q) /\ fetched[q] = Response(Names[position[q]], page[q])
    BY <1>1, <2>1 DEF ReadSoFar
  <2>3. /\ position[q] \in 1 .. Len(Names) /\ Len(Names) \in Nat /\ page[q] \in Nat
        /\ pages \in Seq(Seq(Entry))
    BY <2>1, AtHand, PagesOfNames, RevisionInHistory
  <2>4. ASSUME NEW c \in 1 .. position[q] - 1, NEW n \in DOMAIN History[revision][Names[c]]
        PROVE  PageIn(rows', Names[c], History[revision][Names[c]][n])
    <3>1. c \in 1 .. Len(Names) /\ PageIn(rows, Names[c], History[revision][Names[c]][n])
      <4>1. c \in 1 .. Len(Names)
        BY <2>3
      <4> QED BY <2>2, <2>4, <4>1 DEF ReadSoFar
    <3> QED BY <2>1, <2>2, <3>1, UpsertKeepsPages
  <2>5. ASSUME NEW n \in DOMAIN pages, n <= page[q] + 1
        PROVE  PageIn(rows', Names[position[q]], pages[n])
    <3>1. n = page[q] + 1 \/ PageIn(rows, Names[position[q]], pages[n])
      <4>1. n = page[q] + 1 \/ n <= page[q]
        <5>1. n \in Nat
          BY <2>3
        <5> QED BY <2>3, <2>5, <5>1
      <4>2. position[q] <= Len(Names)
        BY <2>3
      <4> QED BY <2>2, <2>5, <4>1, <4>2 DEF ReadSoFar
    <3> QED BY <2>1, <2>2, <2>3, <3>1, UpsertKeepsPages
  <2>6. wanted[q] \notin Lookup
    BY <2>2, <2>3 DEF ReadSoFar
  <2>7. CASE fetched[q].last /\ NextComponent(q)
    <3>1. /\ position'[q] = position[q] + 1 /\ page'[q] = 0
          /\ pc'[q] = IF position[q] < Len(Names) THEN "request" ELSE "idle"
      BY <2>7 DEF NextComponent, MoreNames, TypeOK
    <3>2. page[q] + 1 >= Len(pages)
      <4>1. fetched[q].last = (page[q] + 1 >= Len(pages))
        BY <2>2 DEF Response
      <4> QED BY <2>7, <4>1
    <3>3. \A n \in DOMAIN pages : PageIn(rows', Names[position[q]], pages[n])
      BY <2>3, <2>5, <3>2
    <3>4. \A c \in 1 .. position'[q] - 1 : \A n \in DOMAIN History[revision][Names[c]] :
             PageIn(rows', Names[c], History[revision][Names[c]][n])
      <4>1. \A c \in 1 .. position'[q] - 1 : c \in 1 .. position[q] - 1 \/ c = position[q]
        BY <2>3, <3>1
      <4> QED BY <2>4, <3>3, <4>1
    <3>5. position'[q] <= Len(Names) =>
             \A n \in DOMAIN History[revision][Names[position'[q]]] : ~(n <= page'[q])
      <4>1. position'[q] <= Len(Names) => position'[q] \in 1 .. Len(Names)
        BY <2>3, <3>1
      <4> QED BY <3>1, <4>1, PagesOfNames, RevisionInHistory
    <3>6. pc'[q] = "idle" => position'[q] = Len(Names) + 1
      BY <2>3, <3>1
    <3> QED BY <2>1, <2>6, <3>1, <3>4, <3>5, <3>6 DEF ReadSoFar
  <2>8. CASE /\ page' = [page EXCEPT ![q] = @ + 1]
             /\ pc' = [pc EXCEPT ![q] = "request"]
             /\ UNCHANGED position
    <3>1. page'[q] = page[q] + 1 /\ pc'[q] = "request" /\ position'[q] = position[q]
      BY <2>8 DEF TypeOK
    <3> QED BY <2>1, <2>4, <2>5, <2>6, <3>1 DEF ReadSoFar
  <2>9. cleanSince'[q] # 0
    BY <1>1, <1>12
  <2> QED BY <1>12, <2>7, <2>8, <2>9 DEF Upsert, TypeOK
<1>13. CASE Upsert(q)
  <2>1. cleanSince'[q] \in {0, cleanSince[q]} /\ revision' = revision
    BY <1>13 DEF Upsert, TypeOK
  <2> QED BY <1>1, <1>12, <1>13, <2>1
<1>14. CASE UNCHANGED vars
    BY <1>1, <1>14 DEF vars, file, syncing, ReadSoFar, Response
<1> QED BY <1>2, <1>5, <1>6, <1>7, <1>8, <1>9, <1>10, <1>11, <1>13, <1>14 DEF Next, Step, Sole

\* Nothing is stored before anything was read.
LEMMA ReadingAtFirst == Init => Reading /\ RowsListed /\ PagesListed
<1>1. Init => Reading
  <2> SUFFICES ASSUME Init, NEW p \in Process
               PROVE  cleanSince[p] <= revision /\ cleanSince[p] # revision
    BY DEF Reading
  <2>1. cleanSince[p] = 0 /\ revision = 1
    BY DEF Init
  <2> QED BY <2>1
<1>2. Init => RowsListed /\ PagesListed
    BY DEF Init, Nothing, RowsListed, PagesListed
<1> QED BY <1>1, <1>2

\* A lookup after a clean sync answers from the rows of the present feed: rows of a CVE
\* that is still listed are of criteria that still are.
LEMMA FoundIsPresent ==
    ASSUME TypeOK, ConsistentFeeds, Reading, RowsListed
    PROVE  CleanSyncComplete
<1> SUFFICES ASSUME NEW p \in Process, pc[p] = "idle", cleanSince[p] = revision,
                    NEW c \in DOMAIN Names, NEW version \in Versions,
                    NEW n \in DOMAIN History[revision][Names[c]],
                    NEW i \in DOMAIN History[revision][Names[c]][n],
                    ProductOf[History[revision][Names[c]][n][i].cpe] = Names[c],
                    Covers(History[revision][Names[c]][n][i].cpe, version,
                           History[revision][Names[c]][n][i].range)
             PROVE  LET entry == History[revision][Names[c]][n][i]
                        found == Entries(Names[c], version)
                    IN  entry.cve \in DOMAIN found /\ found[entry.cve] = entry.score
    BY DEF CleanSyncComplete
<1> DEFINE component == Names[c]
           entry == History[revision][component][n][i]
           found == Entries(component, version)
           first == FirstMatch(component, version, entry.cve)
<1>1. c \in 1 .. Len(Names) /\ component \in Component /\ revision \in DOMAIN History
  <2>1. c \in 1 .. Len(Names)
    BY CacheAssumption
  <2> QED BY <2>1, PagesOfNames, RevisionInHistory
<1>2. ASSUME NEW m \in DOMAIN History[revision][component]
      PROVE  PageIn(rows, component, History[revision][component][m])
  <2>1. ReadSoFar(p) /\ position[p] = Len(Names) + 1
    BY DEF Reading, ReadSoFar
  <2>2. c \in 1 .. position[p] - 1
    BY <1>1, <2>1, AtHand
  <2> QED BY <2>1, <2>2 DEF ReadSoFar
<1>3. entry \in Own(revision, component)
    BY <1>1, EntriesOwn
<1>4. ASSUME NEW e \in Own(revision, component)
      PROVE  RowKey(e) \in DOMAIN rows /\ rows[RowKey(e)] = [range |-> e.range, score |-> e.score]
  <2>1. PICK m \in DOMAIN History[revision][component] :
           \E j \in DOMAIN History[revision][component][m] :
               History[revision][component][m][j] = e
    BY DEF Own
  <2> QED BY <1>2, <2>1 DEF Own, PageIn
<1> HIDE DEF entry, component
<1>5. RowKey(entry) \in Matching(component, version)
  <2>1. ProductOf[entry.cpe] = component /\ Covers(entry.cpe, version, entry.range)
    BY DEF entry, component
  <2>2. RowKey(entry) \in DOMAIN rows /\ rows[RowKey(entry)].range = entry.range
    <3>1. /\ RowKey(entry) \in DOMAIN rows
          /\ rows[RowKey(entry)] = [range |-> entry.range, score |-> entry.score]
      BY <1>3, <1>4
    <3> QED BY ONLY <3>1
  <2>3. RowKey(entry)[2] = entry.cpe
    BY DEF RowKey
  <2> QED BY <2>1, <2>2, <2>3 DEF Matching
<1>6. entry.cve \in DOMAIN found /\ found[entry.cve] = rows[first].score
    BY <1>5 DEF Entries, RowKey
<1>7. first \in Matching(component, version) /\ first[1] = entry.cve
    BY <1>5, FirstMatchMatches DEF RowKey
<1> HIDE DEF first, found
<1>8. PICK e \in Own(revision, component) : RowKey(e) = first
  <2>1. first \in DOMAIN rows /\ ProductOf[first[2]] = component
    BY <1>7 DEF Matching
  <2>2. PICK r \in 1 .. revision : \E e \in Own(r, component) : RowKey(e) = first
    BY <1>1, <2>1 DEF RowsListed, ListedFor
  <2>3. PICK e \in Own(r, component) : RowKey(e) = first
    BY <2>2
  <2>4. r \in DOMAIN History /\ r <= revision /\ e.cve = entry.cve
    <3>1. DOMAIN History = 1 .. Len(History) /\ Len(History) \in Nat
      BY CacheAssumption
    <3>2. e.cve = entry.cve
      BY <1>7, <2>3 DEF RowKey
    <3>3. revision \in 1 .. Len(History)
      BY DEF TypeOK
    <3>4. r \in 1 .. Len(History) /\ r <= revision
      BY ONLY <3>1, <3>3, <2>2
    <3> QED BY <3>1, <3>2, <3>4
  <2> QED BY <1>1, <1>3, <2>3, <2>4 DEF ConsistentFeeds, KeepsCriteria
<1>9. rows[first].score = e.score /\ e.cve = entry.cve
  <2>1. rows[RowKey(e)].score = e.score
    <3>1. rows[RowKey(e)] = [range |-> e.range, score |-> e.score]
      BY <1>4
    <3> QED BY ONLY <3>1
  <2>2. RowKey(e)[1] = e.cve
    BY DEF RowKey
  <2> QED BY <1>7, <1>8, <2>1, <2>2
<1>10. e.score = entry.score
    BY <1>1, <1>3, <1>9 DEF ConsistentFeeds, OneScore
<1> QED BY <1>6, <1>9, <1>10 DEF found, entry, component

\* After a sync that read every page of an unchanged feed, a lookup finds every CVE of
\* the feed that affects the version, with its present score: for one process at a time,
\* any number of crashed and repeated syncs before, and feeds that have one range and one
\* score and keep their criteria.
THEOREM CacheSyncComplete ==
    ASSUME Sole, ConsistentFeeds
    PROVE  Spec => []CleanSyncComplete
<1>1. TypeOK /\ Layout /\ Reading /\ RowsListed /\ PagesListed /\ [Next]_vars
         => Reading' /\ RowsListed' /\ PagesListed'
    BY ReadingKept, RowsListedKept, PagesListedKept
<1>2. TypeOK /\ Reading /\ RowsListed => CleanSyncComplete
    BY FoundIsPresent
<1> QED BY <1>1, <1>2, ReadingAtFirst, CacheTypeOK, LayoutHolds, PTL DEF Spec

-----------------------------------------------------------------------------
(* The cache is a store of advisories.                                      *)

\* What NVD published, it said; and it takes nothing back.
LEMMA PublishedIsSaid ==
    ASSUME NEW entry \in Entry, Published(entry)
    PROVE  <<RowKey(entry), RowOf(entry)>> \in Said
    BY DEF Said

\* What was said remains said.
LEMMA SaidStays ==
    ASSUME TypeOK, [Next]_vars
    PROVE  Said \subseteq Said'
    BY PublishedStays DEF Said, Published

\* Only NVD says anything.
LEMMA SaidAtRevision ==
    ASSUME UNCHANGED revision
    PROVE  Said' = Said
    BY DEF Said, Published

\* A process that asks something else, or gives up, has no answer any more.
LEMMA AsksTheStore ==
    ASSUME NEW p \in Process, NEW asked \in Lookup \cup {WholeSync},
           wanted' = [wanted EXCEPT ![p] = asked], answer' = [answer EXCEPT ![p] = Nothing],
           UNCHANGED <<revision, rows>>
    PROVE  Store!Next
<1>1. Store!Ask(p)
    BY SaidAtRevision DEF Store!Ask, Store!NothingTold, Nothing
<1> QED BY <1>1 DEF Store!Next

\* So has one that meets an exception.
LEMMA AbortAsksTheStore ==
    ASSUME TypeOK, NEW p \in Process, NEW reason, Abort(p, reason),
           UNCHANGED <<revision, rows, wanted>>
    PROVE  Store!Next
<1>1. wanted[p] \in Lookup \cup {WholeSync} /\ wanted' = [wanted EXCEPT ![p] = wanted[p]]
    BY DEF TypeOK
<1> QED BY <1>1, AsksTheStore DEF Abort

\* A page that is written is learnt.
LEMMA UpsertLearns ==
    ASSUME TypeOK, PagesPublished, NEW p \in Process, Upsert(p)
    PROVE  Store!Next
<1>1. rows' = Upserted(p) /\ UNCHANGED <<revision, wanted, answer>>
    BY DEF Upsert
<1>2. DOMAIN rows' = DOMAIN rows \cup Keys(p)
    BY <1>1 DEF Upserted
<1>3. ASSUME NEW key \in Keys(p) PROVE <<key, rows'[key]>> \in Said
  <2> DEFINE entry == fetched[p].entries[LastRecord(p, key)]
  <2>1. entry \in Entry /\ Published(entry) /\ RowKey(entry) = key
    <3>1. fetched[p].entries \in Seq(Entry)
      BY DEF TypeOK
    <3> QED BY <3>1, LastRecordIsOne DEF PagesPublished
  <2>2. rows'[key] = RowOf(entry)
    BY <1>1 DEF Upserted, RowOf
  <2> HIDE DEF entry
  <2> QED BY <2>1, <2>2, PublishedIsSaid
<1>4. ASSUME NEW key \in DOMAIN rows' PROVE \/ key \in DOMAIN rows /\ rows'[key] = rows[key]
                                            \/ <<key, rows'[key]>> \in Said
    BY <1>1, <1>2, <1>3 DEF Upserted
<1>5. Store!Learn
    BY <1>1, <1>2, <1>4, SaidAtRevision DEF Store!Learn
<1> QED BY <1>5 DEF Store!Next

\* An answer is given at one moment, from the rows there are.
LEMMA SelectTells ==
    ASSUME TypeOK, NEW p \in Process, Select(p), table = "current"
    PROVE  Store!Next
<1> DEFINE asked == wanted[p]
           M == Matching(asked.component, asked.version)
           told == Entries(asked.component, asked.version)
<1>1. answer' = [answer EXCEPT ![p] = told] /\ UNCHANGED <<revision, rows, wanted>>
    BY DEF Select, file, syncing
<1>2. answer'[p] = told /\ answer' = [answer EXCEPT ![p] = answer'[p]]
    BY <1>1 DEF TypeOK
<1>3. Store!Answering(wanted[p]) = M
    BY DEF Store!Answering, Answers, Matching
<1>4. DOMAIN told = {key[1] : key \in M}
    BY DEF Entries
<1>5. ASSUME NEW cve \in DOMAIN told
      PROVE  \E key \in M : key[1] = cve /\ told[cve] = rows[key].score
  <2>1. PICK k \in M : k[1] = cve
    BY <1>4
  <2>2. /\ FirstMatch(asked.component, asked.version, cve) \in M
        /\ FirstMatch(asked.component, asked.version, cve)[1] = cve
    BY <2>1, FirstMatchMatches
  <2>3. told[cve] = rows[FirstMatch(asked.component, asked.version, cve)].score
    BY DEF Entries
  <2> QED BY <2>2, <2>3
<1> HIDE DEF told, M
<1>6. Store!Tell(p)
    BY <1>1, <1>2, <1>3, <1>4, <1>5, SaidAtRevision DEF Store!Tell
<1> QED BY <1>6 DEF Store!Next

\* Every step of the cache is one of the store, or none.
LEMMA StepsOfTheStore ==
    ASSUME TypeOK, Layout, PagesPublished, [Next]_vars
    PROVE  [Store!Next]_(Store!store)
<1> USE DEF file, syncing
<1>1. ASSUME UNCHANGED <<revision, rows, wanted, answer>> PROVE UNCHANGED Store!store
    BY <1>1, SaidAtRevision DEF Store!store
<1>2. CASE Publish
  <2>1. Store!Say
    BY <1>2, SaidStays DEF Publish, Store!Say
  <2> QED BY <2>1 DEF Store!Next
<1>3. ASSUME NEW p \in Process, StartSync(p) PROVE Store!Next
    BY <1>3, AsksTheStore DEF StartSync
<1>4. ASSUME NEW p \in Process, NEW c \in Component, NEW v \in Versions, StartLookup(p, c, v)
      PROVE  Store!Next
  <2>1. [component |-> c, version |-> v] \in Lookup
    BY DEF Lookup
  <2> QED BY <1>4, <2>1, AsksTheStore DEF StartLookup
<1>5. ASSUME NEW p \in Process, DropTable(p) PROVE UNCHANGED Store!store
  <2>1. DOMAIN rows = {} /\ rows = [key \in DOMAIN rows |-> rows[key]]
    BY <1>5 DEF DropTable, Layout, TypeOK
  <2>2. rows' = rows
    BY <1>5, <2>1 DEF DropTable, Nothing
  <2> QED BY <1>1, <1>5, <2>2 DEF DropTable
<1>6. ASSUME NEW p \in Process, CreateIndexes(p) PROVE [Store!Next]_(Store!store)
    BY <1>1, <1>6, AbortAsksTheStore DEF CreateIndexes
<1>7. ASSUME NEW p \in Process,
             \/ ReadVersion(p) \/ CreateTable(p) \/ Stamp(p)
             \/ FetchPage(p) \/ FetchFails(p) \/ Crash(p)
      PROVE  UNCHANGED Store!store
    BY <1>1, <1>7 DEF ReadVersion, CreateTable, Stamp, FetchPage, FetchFails, Crash
<1>8. ASSUME NEW p \in Process, UpsertFails(p) PROVE Store!Next
    BY <1>8, AbortAsksTheStore DEF UpsertFails
<1>9. ASSUME NEW p \in Process, Select(p) PROVE Store!Next
    BY <1>9, SelectTells, AbortAsksTheStore DEF Select
<1>10. CASE UNCHANGED vars
    BY <1>1, <1>10 DEF vars
<1> QED BY <1>2, <1>3, <1>4, <1>5, <1>6, <1>7, <1>8, <1>9, <1>10, UpsertLearns
        DEF Next, Step, Initialize

\* Whatever the processes do to the file, a client sees a store that learns what NVD
\* says, forgets nothing it has learnt, and answers each lookup from what it holds at
\* one moment.
THEOREM CacheImplementsStore ==
    ASSUME Sole \/ Settled
    PROVE  Spec => ImplementsStore
<1>1. Init => Store!Init
    BY DEF Init, Store!Init, Store!NothingTold, Nothing
<1>2. TypeOK /\ Layout /\ PagesPublished /\ [Next]_vars => [Store!Next]_(Store!store)
    BY StepsOfTheStore
<1> QED BY <1>1, <1>2, CacheTypeOK, CacheRowsPublished, LayoutHolds, PTL
        DEF Spec, ImplementsStore, Store!Spec
=============================================================================
