----------------------------- MODULE CveCache -----------------------------
(***************************************************************************)
(* The offline CVE cache: cve_db/query.py, cve_db/sync.py and schema.sql.  *)
(*                                                                         *)
(* Several operating-system processes, each with one EmbeddedCVEDatabase,  *)
(* share one SQLite file.  A process synchronises the file with NVD or     *)
(* looks a component version up in it.  SQLite makes one statement (and    *)
(* one _upsert transaction) atomic, so those are the steps; everything     *)
(* between two of them may interleave with the other processes, with NVD   *)
(* publishing new data, and with a crash.                                  *)
(***************************************************************************)
EXTENDS Integers, Sequences

CONSTANTS
    Process,            \* the processes sharing the cache file
    Cve, Cpe,           \* CVE ids; CPE criteria, numbered in string order
    Component,          \* lower-cased product names
    Names,              \* embedded_components.json: the names sync goes through
    ProductOf,          \* [Cpe -> product of the parsed criteria, or NoProduct]
    Mentions,           \* [Cpe -> names occurring as ":name:" in the criteria]
    NoProduct,          \* None: the criteria is not a CPE 2.3 name
    Versions, Blank,    \* version strings asked for; the blank one
    Ranges,             \* the range columns of a row
    Score,              \* what else a row says: CVSS, description, KEV flag
    Covers(_, _, _),    \* matches_version of a CPE's version, for (cpe, version, range)
    MaxPages,           \* MAX_PAGES
    History,            \* what NVD publishes, one feed after the other
    FirstFile           \* states the file may be in at first: [table, userVersion]

\* One vulnerable cpeMatch of one CVE, and the pages a keyword search returns.
Entry == [cve : Cve, cpe : Cpe, range : Ranges, score : Score]
Feed == [Component -> Seq(Seq(Entry))]

SCHEMA_VERSION == 2

ASSUME CacheAssumption ==
    /\ Cpe \subseteq Nat
    /\ NoProduct \notin Component
    /\ Names \in Seq(Component)
    /\ ProductOf \in [Cpe -> Component \cup {NoProduct}]
    /\ Mentions \in [Cpe -> SUBSET Component]
    /\ Blank \in Versions
    /\ \A cpe \in Cpe, v \in Versions, r \in Ranges : Covers(cpe, v, r) \in BOOLEAN
    /\ MaxPages \in Nat \ {0}
    /\ History \in Seq(Feed) /\ History # <<>>
    /\ FirstFile \subseteq [table : {"absent", "legacy", "current"}, userVersion : Nat]
    /\ \A file \in FirstFile : file.userVersion = SCHEMA_VERSION => file.table = "current"

VARIABLES
    \* the SQLite file
    table,          \* layout of cve_entries
    userVersion,    \* PRAGMA user_version
    rows,           \* cve_entries: (cve_id, cpe_id) -> [range, score]
    \* NVD
    revision,       \* index in History of what NVD answers with now
    \* each process
    pc,
    initialized,    \* EmbeddedCVEDatabase._initialized
    stored,         \* user_version read by _initialize_sync
    wanted,         \* what the process is doing: a sync, or the lookup asked for
    position, page, \* component and page _sync_component is at
    fetched,        \* the page between client.get and _upsert
    answer,         \* entries of the last lookup: cve -> score
    outcome,        \* how the last command ended
    cleanSince      \* history variable: revision the last sync fully read, or 0

file == <<table, userVersion, rows>>
syncing == <<wanted, position, page, fetched>>
vars == <<file, revision, pc, initialized, stored, syncing, answer, outcome, cleanSince>>

-----------------------------------------------------------------------------

Lookup == [component : Component, version : Versions]
WholeSync == [component |-> "all"]
Row == [range : Ranges, score : Score]
Nothing == [k \in {} |-> 0]
NoPage == [entries |-> <<>>, last |-> TRUE]

\* sync_database is over when its list of names is empty.
AfterInit(p) ==
    IF wanted[p] \in Lookup THEN "select" ELSE IF Names = <<>> THEN "idle" ELSE "request"

Init ==
    /\ \E f \in FirstFile : table = f.table /\ userVersion = f.userVersion
    /\ rows = Nothing
    /\ revision = 1
    /\ pc = [p \in Process |-> "idle"]
    /\ initialized = [p \in Process |-> FALSE]
    /\ stored = [p \in Process |-> 0]
    /\ wanted = [p \in Process |-> WholeSync]
    /\ position = [p \in Process |-> 1]
    /\ page = [p \in Process |-> 0]
    /\ fetched = [p \in Process |-> NoPage]
    /\ answer = [p \in Process |-> Nothing]
    /\ outcome = [p \in Process |-> "ok"]
    /\ cleanSince = [p \in Process |-> 0]

\* NVD publishes, corrects or withdraws records.
Publish ==
    /\ revision < Len(History)
    /\ revision' = revision + 1
    /\ UNCHANGED <<file, pc, initialized, stored, syncing, answer, outcome, cleanSince>>

-----------------------------------------------------------------------------
(* _initialize_sync: each statement commits on its own, because             *)
(* executescript commits first and DDL opens no transaction.                *)

\* Mutants of Migrates: the old layout is never dropped; every opening drops.
NeverMigrates == FALSE
AlwaysMigrates == TRUE
Migrates == userVersion # SCHEMA_VERSION

ReadVersion(p) ==
    /\ pc[p] = "read version"
    /\ stored' = [stored EXCEPT ![p] = userVersion]
    /\ pc' = [pc EXCEPT ![p] = IF Migrates THEN "drop" ELSE "create"]
    /\ UNCHANGED <<file, revision, initialized, syncing, answer, outcome, cleanSince>>

DropTable(p) ==
    /\ pc[p] = "drop"
    /\ table' = "absent"
    /\ rows' = Nothing
    /\ pc' = [pc EXCEPT ![p] = "create"]
    /\ UNCHANGED <<userVersion, revision, initialized, stored, syncing, answer,
                   outcome, cleanSince>>

CreateTable(p) ==
    /\ pc[p] = "create"
    /\ table' = IF table = "absent" THEN "current" ELSE table
    /\ pc' = [pc EXCEPT ![p] = "index"]
    /\ UNCHANGED <<userVersion, rows, revision, initialized, stored, syncing, answer,
                   outcome, cleanSince>>

\* An exception that no handler of the command catches.
Abort(p, reason) ==
    /\ pc' = [pc EXCEPT ![p] = "idle"]
    /\ outcome' = [outcome EXCEPT ![p] = reason]
    /\ cleanSince' = [cleanSince EXCEPT ![p] = 0]
    /\ answer' = [answer EXCEPT ![p] = Nothing]

\* Indexing a missing table, or the legacy one, which has no product column, fails.
CreateIndexes(p) ==
    /\ pc[p] = "index"
    /\ \/ /\ table = "current"
          /\ pc' = [pc EXCEPT ![p] = "stamp"]
          /\ UNCHANGED <<answer, outcome, cleanSince>>
       \/ /\ table # "current"
          /\ Abort(p, "no table")
    /\ UNCHANGED <<file, revision, initialized, stored, syncing>>

Stamp(p) ==
    /\ pc[p] = "stamp"
    /\ userVersion' = SCHEMA_VERSION
    /\ initialized' = [initialized EXCEPT ![p] = TRUE]
    /\ pc' = [pc EXCEPT ![p] = AfterInit(p)]
    /\ UNCHANGED <<table, rows, revision, stored, syncing, answer, outcome, cleanSince>>

-----------------------------------------------------------------------------
(* sync_database and _sync_component.                                       *)

StartSync(p) ==
    /\ pc[p] = "idle"
    /\ pc' = [pc EXCEPT ![p] = "read version"]
    /\ wanted' = [wanted EXCEPT ![p] = WholeSync]
    /\ position' = [position EXCEPT ![p] = 1]
    /\ page' = [page EXCEPT ![p] = 0]
    /\ outcome' = [outcome EXCEPT ![p] = "ok"]
    /\ answer' = [answer EXCEPT ![p] = Nothing]
    /\ cleanSince' = [cleanSince EXCEPT ![p] = revision]
    /\ UNCHANGED <<file, revision, initialized, stored, fetched>>

\* The criteria names the component: by its product field, or, when it does not
\* parse, by containing its name.
IsComponent(cpe, component) ==
    IF ProductOf[cpe] = NoProduct THEN component \in Mentions[cpe]
                                  ELSE ProductOf[cpe] = component

\* Mutant of Response: the last page of a component is not asked for.
ResponseOneShort(component, number) ==
    LET pages == History[revision][component]
    IN [entries |-> IF number < Len(pages) THEN pages[number + 1] ELSE <<>>,
        last |-> number + 2 >= Len(pages)]

\* The answer to keywordSearch = component, startIndex = page * PAGE_SIZE: that
\* page (none beyond the end), and whether startIndex + PAGE_SIZE >= totalResults.
Response(component, number) ==
    LET pages == History[revision][component]
    IN [entries |-> IF number < Len(pages) THEN pages[number + 1] ELSE <<>>,
        last |-> number + 1 >= Len(pages)]

FetchPage(p) ==
    /\ pc[p] = "request"
    /\ fetched' = [fetched EXCEPT ![p] = Response(Names[position[p]], page[p])]
    /\ pc' = [pc EXCEPT ![p] = "upsert"]
    /\ UNCHANGED <<file, revision, initialized, stored, wanted, position, page,
                   answer, outcome, cleanSince>>

MoreNames(p) == position[p] < Len(Names)

\* The remaining pages of the component are given up, or there are none.
NextComponent(p) ==
    /\ position' = [position EXCEPT ![p] = @ + 1]
    /\ page' = [page EXCEPT ![p] = 0]
    /\ pc' = [pc EXCEPT ![p] = IF MoreNames(p) THEN "request" ELSE "idle"]

\* HTTPError, TypeError or ValueError: fail open, keeping the pages written.
FetchFails(p) ==
    /\ pc[p] = "request"
    /\ NextComponent(p)
    /\ cleanSince' = [cleanSince EXCEPT ![p] = 0]
    /\ UNCHANGED <<file, revision, initialized, stored, wanted, fetched, answer, outcome>>

\* The entry of the page is a record of the component being synchronised.
Belongs(p, i) == IsComponent(fetched[p].entries[i].cpe, Names[position[p]])

Records(p) == {i \in DOMAIN fetched[p].entries : Belongs(p, i)}

RowKey(entry) == <<entry.cve, entry.cpe>>

\* executemany goes through the records in order and ON CONFLICT overwrites, so
\* the last record of a key stays.
LastRecord(p, key) ==
    CHOOSE i \in Records(p) :
        /\ RowKey(fetched[p].entries[i]) = key
        /\ \A j \in Records(p) : RowKey(fetched[p].entries[j]) = key => j <= i

Keys(p) == {RowKey(fetched[p].entries[i]) : i \in Records(p)}

\* Mutant of Upserted: ON CONFLICT leaves the range columns as they are.
UpsertedScoreOnly(p) ==
    [key \in DOMAIN rows \cup Keys(p) |->
        IF key \in Keys(p)
        THEN LET entry == fetched[p].entries[LastRecord(p, key)]
             IN [range |-> IF key \in DOMAIN rows THEN rows[key].range ELSE entry.range,
                 score |-> entry.score]
        ELSE rows[key]]

Upserted(p) ==
    [key \in DOMAIN rows \cup Keys(p) |->
        IF key \in Keys(p)
        THEN LET entry == fetched[p].entries[LastRecord(p, key)]
             IN [range |-> entry.range, score |-> entry.score]
        ELSE rows[key]]

\* The rows counted by total_changes are only printed, and left out.
Upsert(p) ==
    /\ pc[p] = "upsert"
    /\ table = "current" \/ Records(p) = {}
    /\ rows' = Upserted(p)
    /\ fetched' = [fetched EXCEPT ![p] = NoPage]
    /\ \/ /\ fetched[p].last
          /\ NextComponent(p)
          /\ UNCHANGED cleanSince
       \/ /\ ~fetched[p].last /\ page[p] + 1 = MaxPages
          /\ NextComponent(p)
          /\ cleanSince' = [cleanSince EXCEPT ![p] = 0]
       \/ /\ ~fetched[p].last /\ page[p] + 1 < MaxPages
          /\ page' = [page EXCEPT ![p] = @ + 1]
          /\ pc' = [pc EXCEPT ![p] = "request"]
          /\ UNCHANGED <<position, cleanSince>>
    /\ UNCHANGED <<table, userVersion, revision, initialized, stored, wanted, answer, outcome>>

\* sqlite3.OperationalError: no such table, or the file stayed locked.  The
\* transaction is rolled back and the exception ends the sync.
UpsertFails(p) ==
    /\ pc[p] = "upsert" /\ Records(p) # {}
    /\ Abort(p, IF table = "current" THEN "locked" ELSE "no table")
    /\ fetched' = [fetched EXCEPT ![p] = NoPage]
    /\ UNCHANGED <<file, revision, initialized, stored, wanted, position, page>>

-----------------------------------------------------------------------------
(* lookup_sync.                                                             *)

StartLookup(p, component, version) ==
    /\ pc[p] = "idle"
    /\ wanted' = [wanted EXCEPT ![p] = [component |-> component, version |-> version]]
    /\ answer' = [answer EXCEPT ![p] = Nothing]
    /\ outcome' = [outcome EXCEPT ![p] = "ok"]
    /\ pc' = [pc EXCEPT ![p] = IF version = Blank THEN "idle"
                               ELSE IF initialized[p] THEN "select" ELSE "read version"]
    /\ UNCHANGED <<file, revision, initialized, stored, position, page, fetched, cleanSince>>

\* Mutant of Matching: the prefilter of the SQL statement is trusted.
MatchingMentions(component, version) ==
    {key \in DOMAIN rows : /\ IsComponent(key[2], component)
                           /\ Covers(key[2], version, rows[key].range)}

\* The SQL statement keeps the rows of the product (and those with no product
\* whose criteria mentions it), _row_matches those whose product it really is
\* and whose CPE covers the version.
Matching(component, version) ==
    {key \in DOMAIN rows : /\ ProductOf[key[2]] = component
                           /\ Covers(key[2], version, rows[key].range)}

\* ORDER BY cve_id, cpe_id and the first matching row of each CVE.
FirstMatch(component, version, cve) ==
    CHOOSE key \in Matching(component, version) :
        /\ key[1] = cve
        /\ \A other \in Matching(component, version) : other[1] = cve => key[2] <= other[2]

Entries(component, version) ==
    [cve \in {key[1] : key \in Matching(component, version)} |->
        rows[FirstMatch(component, version, cve)].score]

Select(p) ==
    /\ pc[p] = "select"
    /\ \/ /\ table = "current"
          /\ answer' = [answer EXCEPT ![p] = Entries(wanted[p].component, wanted[p].version)]
          /\ pc' = [pc EXCEPT ![p] = "idle"]
          /\ UNCHANGED <<outcome, cleanSince>>
       \/ /\ table # "current"
          /\ Abort(p, "no table")
    /\ UNCHANGED <<file, revision, initialized, stored, syncing>>

-----------------------------------------------------------------------------

\* The process dies, or ends; another one is started later on the same file.
Crash(p) ==
    /\ initialized' = [initialized EXCEPT ![p] = FALSE]
    /\ pc' = [pc EXCEPT ![p] = "idle"]
    /\ fetched' = [fetched EXCEPT ![p] = NoPage]
    /\ cleanSince' = [cleanSince EXCEPT ![p] = IF pc[p] = "idle" THEN @ ELSE 0]
    /\ UNCHANGED <<file, revision, stored, wanted, position, page, answer, outcome>>

Initialize(p) ==
    \/ ReadVersion(p) \/ DropTable(p) \/ CreateTable(p) \/ CreateIndexes(p) \/ Stamp(p)

Step(p) ==
    \/ Initialize(p)
    \/ FetchPage(p) \/ FetchFails(p) \/ Upsert(p) \/ UpsertFails(p)
    \/ Select(p)

Next ==
    \/ Publish
    \/ \E p \in Process :
          \/ StartSync(p)
          \/ \E component \in Component, version \in Versions : StartLookup(p, component, version)
          \/ Step(p)
          \/ Crash(p)

Spec == Init /\ [][Next]_vars

-----------------------------------------------------------------------------
(* Properties.                                                              *)

Initializing == {"read version", "drop", "create", "index", "stamp"}
Busy == Initializing \cup {"request", "upsert", "select"}

TypeOK ==
    /\ table \in {"absent", "legacy", "current"}
    /\ userVersion \in Nat
    /\ DOMAIN rows \subseteq Cve \X Cpe
    /\ rows \in [DOMAIN rows -> Row]
    /\ revision \in 1 .. Len(History)
    /\ pc \in [Process -> Busy \cup {"idle"}]
    /\ initialized \in [Process -> BOOLEAN]
    /\ stored \in [Process -> Nat]
    /\ wanted \in [Process -> Lookup \cup {WholeSync}]
    /\ position \in [Process -> 1 .. Len(Names) + 1]
    /\ \A p \in Process : pc[p] \in {"request", "upsert"} => position[p] <= Len(Names)
    /\ \A p \in Process : pc[p] \in Initializing /\ wanted[p] = WholeSync => position[p] = 1
    /\ \A p \in Process : pc[p] = "select" => wanted[p] \in Lookup
    /\ page \in [Process -> 0 .. MaxPages - 1]
    /\ fetched \in [Process -> [entries : Seq(Entry), last : BOOLEAN]]
    /\ answer \in [Process -> UNION {[cves -> Score] : cves \in SUBSET Cve}]
    /\ outcome \in [Process -> {"ok", "no table", "locked"}]
    /\ cleanSince \in [Process -> 0 .. Len(History)]

\* NVD listed the entry in the feed of some component, now or before.
Listed(feed, entry) ==
    \E component \in Component : \E n \in DOMAIN feed[component] :
        \E i \in DOMAIN feed[component][n] : feed[component][n][i] = entry

Published(entry) == \E r \in 1 .. revision : Listed(History[r], entry)

\* Every row is one NVD published as a whole: its range and its score belong to
\* its CVE and CPE and to each other, whatever pages, processes and crashes
\* came between (_records and the ON CONFLICT clause of _upsert).
RowsPublished ==
    \A key \in DOMAIN rows :
        Published([cve |-> key[1], cpe |-> key[2],
                   range |-> rows[key].range, score |-> rows[key].score])

\* What a lookup returned for the component and version it was asked for.
Justified(cve, score, component, version) ==
    \E cpe \in Cpe, range \in Ranges :
        /\ ProductOf[cpe] = component
        /\ Covers(cpe, version, range)
        /\ Published([cve |-> cve, cpe |-> cpe, range |-> range, score |-> score])

\* A lookup never reports a CVE that NVD did not publish for this very product
\* and version, nor a score NVD did not give it, even while other processes
\* migrate or synchronise the file (lookup_sync, _row_matches).
LookupSound ==
    \A p \in Process : \A cve \in DOMAIN answer[p] :
        /\ wanted[p] \in Lookup
        /\ Justified(cve, answer[p][cve], wanted[p].component, wanted[p].version)

\* After a sync that read every page of a feed that has not changed since, a
\* lookup finds every CVE of the feed that affects the component and version,
\* with its present score: "Matching honours both ways NVD expresses
\* 'affected'" (README, Offline CVE cache).
CleanSyncComplete ==
    \A p \in Process : pc[p] = "idle" /\ cleanSince[p] = revision =>
        \A c \in DOMAIN Names, version \in Versions \ {Blank} :
            LET feed == History[revision][Names[c]]
                found == Entries(Names[c], version)
            IN \A n \in DOMAIN feed : \A i \in DOMAIN feed[n] :
                 LET entry == feed[n][i] IN
                 ProductOf[entry.cpe] = Names[c] /\ Covers(entry.cpe, version, entry.range)
                     => entry.cve \in DOMAIN found /\ found[entry.cve] = entry.score

\* What CleanSyncComplete needs of NVD: a feed has one range per criteria of a CVE and
\* one score per CVE, and a CVE that stays listed keeps its criteria, because a sync
\* never deletes a row.
Own(r, component) ==
    {e \in Entry : /\ ProductOf[e.cpe] = component
                   /\ \E n \in DOMAIN History[r][component] :
                         \E i \in DOMAIN History[r][component][n] :
                             History[r][component][n][i] = e}

OneRange ==
    \A r \in DOMAIN History, component \in Component :
        \A e, f \in Own(r, component) : RowKey(e) = RowKey(f) => e.range = f.range

OneScore ==
    \A r \in DOMAIN History, component \in Component :
        \A e, f \in Own(r, component) : e.cve = f.cve => e.score = f.score

KeepsCriteria ==
    \A r, s \in DOMAIN History, component \in Component :
        \A e \in Own(r, component), f \in Own(s, component) :
            r <= s /\ e.cve = f.cve => \E g \in Own(s, component) : RowKey(g) = RowKey(e)

ConsistentFeeds == OneRange /\ OneScore /\ KeepsCriteria

\* One process at a time, or a file that was migrated before the first one.
Sole == \A p, q \in Process : p = q
Settled == \A f \in FirstFile : f.userVersion = SCHEMA_VERSION

\* No step makes a synchronised row disappear: once the layout is current,
\* initialising again keeps the rows ("Dropping is a no-op on a fresh file",
\* _initialize_sync), and a sync only adds or replaces.
RowsKept == [][DOMAIN rows \subseteq DOMAIN rows']_vars

\* To a client the cache is a store of advisories: it holds what NVD has said, loses
\* none of it, and tells at once what it holds.
Answers(asked, key, row) ==
    ProductOf[key[2]] = asked.component /\ Covers(key[2], asked.version, row.range)

RowOf(entry) == [range |-> entry.range, score |-> entry.score]

Said == {<<RowKey(entry), RowOf(entry)>> : entry \in {e \in Entry : Published(e)}}

Store == INSTANCE AdvisoryStore WITH
    Client <- Process, Question <- Lookup \cup {WholeSync},
    said <- Said, held <- rows, question <- wanted, told <- answer

ImplementsStore == Store!Spec

\* No command meets a database without its table, whatever layout the file had.
TableFound == \A p \in Process : outcome[p] # "no table"
=============================================================================
