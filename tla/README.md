# A verification of the firmware security agent

TLA+ models of `src/src/ai_firmware_agent/`, the TLC runs that check them on small
instances, and the theorems TLAPS proves about them for every instance. Paths
below are relative to that directory unless they start with `src/`.

## 1. The system

The agent takes a firmware image, extracts it, finds the software components in it,
looks their known vulnerabilities (CVEs) up and reports them.

| part | state it keeps | operations | talks to |
|---|---|---|---|
| CVE cache (`cve_db/query.py`, `sync.py`, `schema.sql`) | one SQLite file: the layout of `cve_entries`, `user_version`, the rows; per process the `_initialized` flag | migration, synchronisation with NVD, lookup | NVD (HTTP), any other process with the same file |
| version matching (`cve_db/version.py`) | none | `version_key`, `_compare`, `VersionRange.contains`, `matches_version` | called per row by the cache |
| NVD client (`nvd.py`) | the answers so far, the time of the last request, one connection | `lookup`, `close` | NVD; falls back to `cve_db/mock.py` |
| scanner (`scanner.py`) | one scan: errors, components, extraction, providers | `scan` | binwalk, unblob, the inventory providers, the fallback parser, the CVE cache |
| extraction tools (`binwalk_runner.py`, `providers/unblob.py`, `extraction.py`) | the child process, the extracted tree | `extract`, the size caps | the operating system |
| inventory (`providers/inventory.py`, `detectors/`) | none | `collect_inventory`, `merge_components` | syft, cve-bin-tool |
| parsers (`parsers/`) | none | manifest and archive fixtures | called by scanner and CLI |
| synchronous unpacking (`unpack.py`) | a temporary tree | `unpack_firmware` | binwalk, unsquashfs |
| gateway (`gateway_envelope.py`, `adapter.py`) | a temporary download | payload to envelope | HTTP server of the image, `unpack.py` |
| enrichment (`eps.py`, `kev.py`, `cli.py:_reenrich`) | none | EPSS scores, KEV marks | FIRST and CISA over HTTP |
| scoring and triage (`analyzer.py`, `scoring.py`, `zeroday.py`) | none | risk order, zero-day candidates, prompts | a language model |
| attack chains (`attack_chain.py`, `v05_compat.py`) | none | the results of three agents to one finding | an orchestrator outside the repository |
| diff (`diff.py`) | none | two inventories to changes | version matching |
| SBOM (`sbom/cyclonedx.py`) | the output file and a temporary one beside it | the document, its atomic replacement | the file system, other commands with the same target |
| EMBA import (`providers/emba.py`) | none | a CycloneDX document to an inventory or a refusal, findings | files |
| emulator (`emulator.py`) | the docker client, the container and its script | one `docker run`, the telemetry it prints | docker, the init of the firmware |
| command line (`cli.py`), reports (`reporter.py`, `html_report.py`, `charts.py`) | SBOM, chart and report files, stdout | `scan` from its options to its exit status | nearly all of the above |

The parts interact in three ways: through the shared SQLite file (any number of
processes, each statement a transaction of its own), through child processes with a
timeout, and through HTTP with a rate limit.

What is hard here, and so what the properties are about:

* **Interleaving on the file.** `_initialize_sync` is four statements that commit one
  by one. Other processes, and crashes, come between them; NVD changes between pages.
* **Silent partial failure.** Nearly every step "fails open". A failure may cost only
  its own component or page, and must leave a trace.
* **Pacing.** NVD counts requests over a rolling window; two different code paths
  space them by a clock read before, and stored after, the request.
* **Fallback chains.** Three ways to an inventory, with their guards written down
  twice and not quite alike.
* **Three clocks.** The emulator's container has a `timeout`, a settling time and a caller
  that gives up; killing the caller's client does not stop the container.
* **Several outputs.** One `scan` writes an SBOM, an envelope, a chart and a report, and
  may fail or be killed after any of them, while another command writes the same SBOM.
* **Failure between resources.** A gateway request holds a download, an HTTP client and
  an extraction directory, each with its own way of being given back.
* **Joins by key.** Enrichment, merging, the SBOM, the EMBA import and the diff join lists
  by CVE, by name or by reference, and more than one record has the same key.
* **Boundaries.** Version order, range ends, page counts, the length of a query.

`PROJECT.json` lists each hazard at its line with the properties that cover it.

## 2. The modules

| module | models | state and actions |
|---|---|---|
| `VersionMatch` | `cve_db/version.py` | operators only. A version is the sequence of its runs (decimal, alphabetic, separator); alphabetic runs are members of an ordered set `Word` |
| `CveCache` | `query.py`, `sync.py`, `schema.sql` | the file (`table`, `userVersion`, `rows`), what NVD publishes (`revision` of `History`), and per process the program counter, the page in hand and the last answer. `ReadVersion`, `DropTable`, `CreateTable`, `CreateIndexes`, `Stamp` are the statements of `_initialize_sync`; `FetchPage`, `FetchFails`, `Upsert`, `UpsertFails` those of a sync; `Select` the lookup; `Publish` and `Crash` the environment. Implements `AdvisoryStore` |
| `AdvisoryStore` | what the cache promises its clients (abstract) | what has been said, what is held, and per client a question and what it was told; `Say`, `Learn`, `Ask`, `Tell` |
| `RateLimit` | what NVD asks of its clients (abstract) | the clock and the times at which requests were sent |
| `NvdClient` | `nvd.py` | `cache`, the last request, the connection; `Ask`, throttle, `Answered`, `Fallback`, `Finally`, `Close`. Implements `RateLimit` |
| `NvdSync` | the requests of `sync_database` and `_sync_component` | the loops over names and pages with their two sleeps, totals that may change between pages, the client's ownership. Implements `RateLimit` |
| `Scanner` | `scanner.py` with its tools and providers | one scan through the stages binwalk, unblob and mock, then the CVE lookups; each tool, provider and lookup may succeed, fail, time out or raise; only a timeout kills a tool, and only itself, so `left` is what a scan leaves running: a tool whose `communicate()` raised, the descendants of a killed one |
| `Unpack` | `unpack.py`, `extraction.py` | one call of `unpack_firmware`: the areas the tools have written, image by image, how much of them is walked, and the exception or inventory it ends with. `StartUnpack`, `Command`, `ToolSucceeds`, `ToolFails`, `ToolRaises`, `CheckSize`, `Look` |
| `Gateway` | `gateway_envelope.py` | one request, extending `Unpack`: `RefusePayload`, `AcceptPath`, `AcceptUrl`, the download (`Request`, `Redirected`, `Body`, `Chunk`, `Downloaded`, `DownloadFails`), the parsing (`ParseBin`, `Unpacked`, `Sidecar`, `ParseArchive`), and `Answer` or `Fail` through the two layers of handlers |
| `Enrichment` | `eps.py`, `kev.py`, `scoring.py`, and of `cli.py` the part of `scan` between matching and report | the matches, the chunks of CVEs, the scores so far: `ChunkAnswered`, `ChunkFails`, `EnrichWithEpss`, `EnrichWithKev`, `Rank`, `Narrate` |
| `SbomWriter` | `write_cyclonedx_bom` | what the target holds and, per command, its temporary file, what it knows of it and where it is: `BuildBom`, `CreateTemporary`, `WriteContent`, `CloseStream`, `Replace`, `Unlink`, each of which may fail, and `Killed` |
| `ScanCommand` | `scan` of `cli.py`, `reporter.py`, `charts.py` | extends `Enrichment` and `SbomWriter`: the options, what is to be printed and what is on stdout, the chart, the report and the exit status of one command; another command exports to the same SBOM. Every print may fail, after part of it or in its flush, and is a step before the one that ends the command (`PrintReply` and `NoteSbom` before `Return`, `FillReport` before `TellReport` before `Return`); `Kill` comes at any place |
| `Emulator` | `emulator.py` | the call, the clock, the container, its init and its script, the services running, the lines printed and the result cut out of them: `Refuse`, `Launch`, `CallerTimesOut`, `ClientExits` are the caller's; `ListProcesses`, `ListPorts`, `PrintStatus` the script's; `StopInit` is `timeout`; `ContainerUp`, `ContainerFails`, `Serve`, `InitEnds` are docker and the firmware |
| `FirmwareDiff` | `diff` of `cli.py`, `merge_components` of `detectors/__init__.py`, `diff.py` | one diff command, over `VersionMatch`: `Detect` is a turn of the loop of `merge_components` (or a component of a manifest), `NextFirmware` goes on to the new image, `Diff` compares the two inventories into changes and persistent CVEs, `Raise` is a file that cannot be read. `best` is what the loop holds |
| `RootfsSearch` | `iter_rootfs_candidates` | the tree, the queue of directories with their depths, the children still to look at and the candidates found: one turn of either loop is a step, and the search stops at the limit of candidates |
| `EvidenceMerge` | `merge_components` of `providers/inventory.py`, and both places that use it | the lists a merge is given, the component that is read next, the candidates grouped so far and the outcome of the last merge. `GroupComponent`, `NextInventory` and `MergeGroups` are the loops and the end of a merge; `merging` says whether it is that of `collect_inventory`, or that of the scan, which adds the native detections |
| `Bom` | `build_cyclonedx_bom`, `_sbom_vulnerabilities` of `cli.py` | the inventory, the pairs of a component and a CVE resolved so far, the entries grouped so far and the document: `Resolve` looks one component up, `GroupPair` is a turn of the loop of `_vulnerabilities`, `BuildDocument` sorts the components and makes the document |
| `AttackChain` | `attack_chain.py`, `AgentResult` | the findings of a scan, what the orchestrator returned, the ids related so far and the chain: `MissionFails` and `RunMission` are the orchestrator's, `RelateFinding` and `NextListing` the loop over ids, `Reconstruct` makes the chain of the agents' texts. A text, of an output or of an error, is the sequence of its words, and the texts are searched as one, over the seam between them too |
| `ZeroDay` | `zeroday.py` | the inventory, the matches its patterns come from, the threshold and the candidates so far: `RefuseThreshold` is the `ValueError`, `Predict` one turn of the loop over components, `RankCandidates` the sort at the end. Known patterns and the similarity of two versions are operators |
| `Emba` | `providers/emba.py`, the findings of `gateway_envelope.py` | the file and its document, the inventory read so far, the error and the findings: `LoadReport` reads and decodes the file, `CheckDocument` goes through the checks of the root, the header, the metadata, its tools and the arrays in their order, `ReadComponent` reads or refuses one component, `MatchInventory` makes the scored findings |
| `MC*` | | the values of the constants; `MCFirmwareDiff` those of the diff command; `MCInventory` runs one, or one of the six machines below it in this table, or picks two versions, for which it has the reference definition |
| `CveCacheProofs`, `NvdClientProofs`, `NvdSyncProofs`, `ScannerProofs`, `GatewayProofs`, `ScanCommandProofs`, `EmulatorProofs`, `FirmwareDiffProofs` | | the theorems |

Operators whose comment says "Mutant of" are plausible bugs of the definition that
follows them; each property of a passing run is violated when one of them takes its
place, which shows that the property depends on the code it is about.

Abstractions, in every module: text (messages, names, descriptions) is a model value;
a page of NVD is the sequence of records that `_records` reads out of it; files and
bytes of a tree are one number of units; scores and risk factors are tenths; the score of
a row stands for everything it says besides its range; a tool's output is the set of
components found in it; a field of an EMBA document is missing, of the wrong type, blank or
a text.

## 3. The runs

| run | question | bounds |
|---|---|---|
| `inventory` | Does merging hide no disagreement, does a diff reverse, do its two halves agree? Do versions and ranges agree with an independent numeric rank, are the shallowest root filesystems found? Does the first merge of evidence lose nothing two providers said, has the inventory of a scan every component with all its sources, is the SBOM that of the inventory, does a chain rest on what the agents said, are candidates near what is known vulnerable, does a bad EMBA document yield nothing, does every finding have the score of its component? | diff commands on up to 3 old and 2 new detections out of 7, in any order, three of one name: enough for a winner that is replaced; an image or a manifest on either side. Versions of up to 3 runs (2 against ranges) out of 7 runs; each of the four bounds absent or one of 3 versions: three runs give number, separator and word in any order, and proper extensions. Trees of 5 directories below the root, 3 levels, 2 candidates: one more of each than the limits, so that they bite. Two reports of up to 2 components out of 6 and up to 1 native detection out of 2: two spellings, two versions, a blank name. EMBA documents of up to 3 components, so that the third may repeat the first, read one by one; SBOMs of up to 3 components out of 7, so that a third one meets what two have left, with records that share a CVE, URLs that are shared and a blank name and a blank CVE; triage of up to 2 components against up to 2 matches, thresholds 0, 1, 100, each similarity and 101, which is refused; every result of three agents, and missions without an exploiter |
| `evidence_lost` (violation) | Does the evidence of two providers reach the result of a scan? | one native detection, one component per provider |
| `cache` | One process at a time on a file of any layout: is a clean sync complete, is the table always found, is a lookup what NVD published, is the file to its clients a store that loses nothing it has learnt? | 2 CVEs, 4 criteria, 2 products, 2 feeds, `MaxPages` 2, with a component that has more pages than that |
| `cache_two_ranges` (violation) | Is a clean sync complete when a CVE has two ranges of one criteria? | one process, one feed |
| `cache_race` (violation) | Are rows kept when two processes open a fresh file? | two processes |
| `nvd_client` | Is a repeated lookup free, every answer one for its key, and the limit kept? | 3 requests, a limit of 2 in a window of 4 ticks, latency up to 2, oversleeping by 1, idle time up to 4 |
| `nvd_sync` | Are pages asked in order and every name asked, is the limit kept, and has the sync stopped waiting after `MAX_PAGES` pages of every name, whatever NVD says? | 2 names, 2 pages; every answer may give a total of 1, 2, 4, 9 or none, or one that grows with each page; a timeout of 1, oversleeping by 1 |
| `scan` | Is every fallback and every exception explained, is a result true to its evidence and looked up, is a tree left alone while its tool runs, and is a tool left running told of? | 2 components, 2 providers |
| `scan_caps` (violation) | Is a tree refused by the caps left alone? | 1 component, 1 provider |
| `gateway` | Is no more walked than the caps allow and nothing skipped, is every hop checked, only a whole image parsed, nothing left behind, every failure answered, and does the request end? | 2 redirects, chunks of 1 or 2 units, 2 SquashFS images, caps of a few units |
| `command` | Does the exit status tell what was written and printed, is stdout one envelope and nothing else with `--json`, is the report written last and whole, is the SBOM always a whole document, has every record the score of its CVE, is no component lost, are worse ones first? | all options; 4 CVEs of two lengths in queries of 2; all lists of up to two matches out of 5 and four lists of three; one other command; every call may fail and the command may be killed between any two |
| `emulation` | Is a result what was running when it was listed, does a container stay only behind a timeout, has every timeout a reason, and do call and container end? | a timeout of 2, a grace of 2, settling times of 0 to 5 (below, at and above both), refused arguments, 2 services, 12 ticks: the container may come up at any of them as long as what follows fits |

`cache` checks one process because `ImplementsStore`, of which `RowsKept` is a part (a store
forgets nothing), and `TableFound` hold for one only:
`cache_race` shows the lost rows of two. `LookupSound` holds for any number of processes,
and that is what its theorem says; the theorems on the other two hold for one process
(`Sole`) or for any number that find the file migrated (`Settled`). `CleanSyncComplete` holds
for one process and feeds in which a CVE has one range per criteria and one score, and keeps
its criteria as long as it is listed (`ConsistentFeeds`); it fails without the first of these
(`cache_two_ranges`).

### Findings

* `cache_two_ranges`: a CVE with several ranges of one wildcard criteria keeps only the
  last, because the key of a row is `(cve_id, cpe_id)`.
* `cache_race`: a process that read version 0 drops the table another one has filled.
* `scan_caps`: the tree of an extraction refused by the caps is inventoried.
* `evidence_lost`: a scan merges the evidence of its providers twice, and the second merge
  reads the single `path` and `license` of an entry in place of the lists the first one
  made: one path and one license are left, and the bonus for several sources is added
  a second time.

Seen while modelling and not made a run:

* cache: `_upsert` returns the number of records executed, not of rows changed
  (`cve_db/sync.py:204`); a sync never deletes, so that a criteria NVD takes from a CVE
  which stays listed keeps its row, and a lookup may answer with the score that row has;
* scan: `AttributeError` of a manifest that is no mapping, `EOFError` of a truncated
  archive and a failing `mkdtemp` end the scan by an exception (`scanner.py:179`, `:282`);
  the directories of `scanner.py:179` and `:233` are never removed, and an `output_dir` that
  is used twice is inventoried with what the first scan left there; a tool is killed on its
  timeout only, and only the process itself (`binwalk_runner.py:138`, `providers/unblob.py:123`,
  `providers/inventory.py:187`), where `docs/open-source-fusion-plan.md:291` asks for the tree of
  processes; on any other exception, and when the scan is cancelled, the tool runs on;
* unpacking: output of a tool that is no text raises a `UnicodeDecodeError` past `_run`
  (`unpack.py:40`), so that the second form of the binwalk command is not tried;
* analysis: `enrich_top_components` says "highest CVSS first" (`analyzer.py:158`) and
  goes by PRisk, in which CVSS is one term of five; a failed reviewer in place of a denying
  one, or an agent whose error text reads like a claim (`attack_chain.py:68`), can raise an
  attack chain to CRITICAL, and two texts can make a claim or a denial together that neither
  makes alone (`attack_chain.py:75`); a version that is known to be vulnerable is
  recognised by its text, so another spelling of it becomes a candidate of similarity
  1.0, and a threshold of 0.0 admits a similarity of 0;
* diff: a manifest that names a component twice makes the two halves speak of different
  entries (`diff.py:112` keeps the first, `diff.py:180` the last);
* EMBA: a number of too many digits, or nesting too deep, in the JSON of a report raises what no
  handler names (`providers/emba.py:150`) and ends the command without an envelope; a release listed under two types has one score in `score_by_component`, the lower
  one (`providers/emba.py:260`);
* SBOM: a temporary file that cannot be removed stays, and its exception is the one the caller
  sees, in place of the first one or though the document has been published
  (`sbom/cyclonedx.py:225`); two components that were not merged may share a `bom-ref`; the file is moved
  without `fsync`, so that a power failure, which is not modelled, may leave an empty one;
* command: `--json` ignores `--demo`; `--json --input` without `--sbom` answers a warning
  envelope; `--json --sbom` analyses, and for a URL downloads, the image twice; an image that
  cannot be analysed answers a warning envelope and exit status 0 with no SBOM
  written, while a write failure of the SBOM is an exception without an envelope, where
  `docs/open-source-fusion-plan.md:408` has a failing `--sbom` leave the JSON result
  alone;
* emulator: a settling time longer than the timeout plus the grace is accepted, and every
  call then times out; an init that ignores SIGTERM keeps its container for good;
  a `ps` or `ss` that cannot be run leaves an empty section that looks like a quiet
  firmware.

## 4. Fairness

Two runs have a liveness property. `RequestEnds` (`gateway`) assumes weak
fairness of the request's steps: it is one thread, its tools are killed at their
timeouts and its HTTP client has one. `EmulationEnds` (`emulation`) assumes weak fairness
of `Run`: the caller, which waits with a timeout, the script, `timeout` and the clock.
Nothing is assumed of NVD, of the server of an image, of docker or of the firmware; a
tool that writes nothing, a container that never comes up and an init
that never ends are among the behaviours. The other runs are about safety and assume no
fairness; that a synchronisation ends is stated there as a bound on the time it may spend in
sleeps and requests (`SyncBounded`), which needs none.

## 5. What is proved

For every value of the constants (any number of processes, names, pages, latencies,
components, providers, images, redirects, services, commands, words, and any limits):

* `NvdClientProofs`: `RequestsSpaced`, by induction over the steps of `RateLimit`, and
  `WindowRespected`, which follows from it: spacing requests by `Interval` keeps every
  window of `Limit * Interval` within `Limit` requests. `ClientTypeOK`;
  `ClientImplementsRateLimit`, for which the client's invariant `PacingInv` is needed (the
  stored time of the last request is never before the time it was sent, and a client about
  to send has waited for it); `ClientKeepsLimit` by refinement from `WindowRespected`;
  `RepeatedIsFree` and `AnswersNeverChange`, whose inductive form relates each request to the
  key being looked up; and `AnswersBelong`, that a cached answer is one to a component of
  its key.
* `NvdSyncProofs`: `SyncTypeOK`; `SyncImplementsRateLimit`, whose `PacingInv` says that
  only the first request goes without a sleep and that every sleep lasts until `Interval`
  after the last request; `SyncPagesInOrder`, which needs where the coroutine stands in
  the history (`PositionInv`: it has just asked for the current page, or sleeps before one
  that may follow the last, and every earlier name has been asked for); and `SyncTimeBounded`,
  whose `TimeInv` says what the pages asked for so far may have cost, and which rests on
  `MAX_PAGES` alone and on nothing NVD answers.
* `CveCacheProofs`: `CacheTypeOK`; `CacheRowsPublished`, whose inductive invariant adds
  that every record of a page in hand was published (`PagesPublished`), because a page
  may be written after NVD and other processes moved on; `CacheLookupSound`, which adds
  to it that a lookup's answer is taken from published rows and that publishing never
  takes anything back. `CacheImplementsStore`: to its clients the cache is an `AdvisoryStore`;
  every statement of a process is a step of the store or a stutter, and the invariants of the
  layout and of the pages in hand say why (for one process, or any number on a migrated
  file). `CacheTableFound` and `CacheRowsKept`, for one process (`Sole`) or for any number on a
  migrated file (`Settled`), rest on `Layout`: a file of this version has the
  table, one of another version has no rows, and only a file of this version is used; so what
  the migration drops is empty. `CacheSyncComplete`, for one process and `ConsistentFeeds`,
  follows what a sync has read: `Reading` says that every name and page read so far is in the
  rows, as long as NVD has published nothing since, and `RowsListed` and `PagesListed` that rows
  and pages have nothing of a component but what some feed listed for it, so that a row that
  answers a lookup is one of the present feed.
* `ScannerProofs`: `ScannerTypeOK`, `ScanExplained`, `ScanResultTrue`, `ScanQuietTree`. Three of
  these speak of the end of a scan, and the invariant says what they rest on before: which
  stage and which directories go with a place in the code (`StageFits`), that a stage that is
  left has said why (`Explained`), that what was found is of the stage or of a provider in
  use and becomes the result whole (`Evidence`), that a component is looked up or pending
  (`Lookups`), that what runs on is of a stage that was left, or of a provider, or of a killed tool
  (`Behind`), and that its failure has been told of by then (`Telling`).
  `EvidenceOfAll` is about the merges of evidence, for any lists and
  any number of providers. While a merge reads its lists, what is grouped under an identity has
  been given with it, and what has been read is grouped (`GroupInv`), so that at the end the
  candidates of an identity are all that is said of it. `MergeInv` adds what the second merge is
  given: the native detections and the outcome of the first, in which every entry stands under
  its own identity with all that the providers said; so identities and sources survive a second
  merge, where paths and licenses do not (`evidence_lost`). That a provider reports no
  `licenses` of its own, which only a merge makes, is `EvidenceAssumption`.
* `GatewayProofs`: `GatewayTreesWalked`, `GatewayHopsChecked`, `GatewayWholeImage`,
  `GatewayLeavesNothing`, `GatewayAnswersFailure`. `UnpackInv` says of the unpacking, by itself,
  which areas have been looked at, which have failed, and that what was walked was within the
  caps when it was; `Checked`, that the URL about to be requested is checked; `ImageAtHand`, that
  the image that is parsed is whole and its directory still there; `UnpackedAt`, which end of the
  unpacking goes with a place in the request; `Answered`, that there is no reply before the end.
  None of the properties is inductive without them: each speaks of a file or an exception
  that was made several calls earlier.
  `ImportFailsClosed` and `ImportScored` are about the import of an EMBA document of any length:
  `EmbaInv` says at each stage of the import what has been read, and `ReadInOrder` that these are
  the first components of the document, in order, each of the verified shape and with a
  reference of its own. The second also needs that the least score of a release is one of
  those it was listed with (`EmbaAssumption`: scores are natural numbers).
* `EmulatorProofs`: `EmulatorContainerLeft`, `EmulatorTimeoutExplained`, `EmulatorTelemetryTrue`. The
  second is an action property; its invariant `InTime` says that the clock never passes what an
  obeying init and the script may take, because at that moment one of them has something to do.
  The third needs what the script has printed so far at each of its steps (`Telemetry`), and
  what the parser finds between two markers, by induction over the lines of a section. It
  assumes that there are finitely many services and that a line of junk is none of their lines
  (`EmulatorAssumption`).
  `ChainRestsOnEvidence` is about a mission of agents over any findings. That the chain names the
  findings it came from first, each once, needs what has been related at each turn of the loop
  (`ChainInv`, `RelatedInOrder`); what a failing agent may change compares two reconstructions, with any
  error text in place of the agent's: a phrase that is in one of two texts is in both together
  (`SaidTogether`), and one in both together that is in neither lies over the seam. It assumes what the code asks for, three results at most
  (`ChainAssumption`): with more of them the cap of 95% would hide a failure.
* `ScanCommandProofs`: `TargetAlwaysWhole` and `LeftoversExplained` for any number of writers, then
  `CommandsAreWriters`, `ScanTargetWhole`, `ScanOutcomeTold` and `ScanReportLast` for the command.
  That the target is whole is not inductive: what is moved over it must be whole and its name
  known, which `Sound(w)` says of each writer by itself; a step of one writer leaves the others
  sound. Every step of the command is a writer's or leaves the SBOM alone, so the
  command has that invariant too. The other two speak mostly of the end: `Route` says which options
  lead to a stage, `Exported` and `Files` what is written before and after it, `Printed` that stdout is empty until
  something is printed and then the whole of what was asked for, and `Told` that the report is only
  reached when the language model has been asked for all it is asked for.
  `ScanInventoryKept` and `ScanWorseFirst` are about what is in the report: the order of the
  components is strict and total, so that the ranking exists and is a permutation, and the
  dictionary `_reenrich` joins by has a record of every CVE (`AnalysisInv`). `ScanEpssOfItsCve`
  adds that the queries have each CVE in exactly one of them (`Asking`, by induction over the
  CVEs), that the dictionary of scores is what the answered queries said, and that the records
  are joined with it (`LookupInv`).
  `CandidatesNearKnown` is about the zero-day triage of any inventory against any matches: its
  `TriageInv` says which components have been turned into candidates; that the versions of one
  pattern have a nearest one, and that more analogues never make a candidate less sure, are
  lemmas about maxima of finite sets, and the ranking exists because the order is strict and
  total.
  `BomHasInventory` is about the SBOM of any inventory. `BomInv` says at each turn which pairs
  have been resolved (`PairsOf`) and what has been grouped of those read (`GroupedTo`), so that at the
  end a CVE has all the components it was resolved for; that the order of the inventory does not
  show in the document needs that a set ascends in one way only (`AscendsOnce`). `BomAssumption`
  says that the CVE source answers a component with a list that does not depend on when it is
  asked, as one export of one command does.
* `FirmwareDiffProofs`: `KeyLessAsymmetric`, `KeyLessTransitive`, `CompareReverses` (with the order's
  totality) and `RangeIsInterval`. Two different keys part at a first position, which exists
  because the natural numbers are well founded; that the key of a version is a sequence of
  chunks is an induction over its runs. `DiffTypeOK` and `DiffDisagreementVisible` rest on
  `Mirrors`: what the loop of `merge_components` holds for a key after any number of detections
  is the first of the strongest ones, with every version that differs beside it.
  `DiffTurns` says for any two inventories, and `DiffCommandReverses` of the command, that
  comparing them the other way round turns every change round and that every component is in
  one list, once: it is `CompareReverses`, carried through the six lists. `PersistentIsKept`
  says that the two halves of a comparison agree if no inventory lists a name twice, and
  `DiffPersistent` that those of two images do, because merging makes them so.
  `SearchShallowest` is about the search for root filesystems, in a tree of any shape and with any
  limits. Its `SearchInv` has four parts: the queue is in the order of depth and spans two levels
  (`Levels`); what is queued or found can be reached (`Reached`), and is reached once (`Once`);
  and every root filesystem not found yet is below a queued directory or at or below a child still
  to look at, unless the limit is reached, and is not above one that was found (`Covered`).

The type invariant of `CveCache` is stronger than its types: a request is for a name of
the list and a page below the cap, which needs that a sync starts at the first name.
Assumptions are the named `ASSUME`s of the modules, which the runs evaluate or the theorems
carry.

What a loop has built after all its turns is written as a recursive function of the number
of turns. `FiniteNatInductiveDef` says that there is such a function, and what it
satisfies is shown for a least number of turns for which it would not (`UpToInduction`, from
the well-foundedness of the naturals); the induction theorems that take a predicate are out
of the provers' reach.

Only model-checked: liveness (`RequestEnds`, `EmulationEnds`), for which fairness and
`ENABLED` are out of TLAPS's reach; and `VersionsRanked`, whose numeric rank is itself a bounded
reference (what it says of the order is proved: it is total, transitive and reverses, and a range
is an interval of it).

## 6. Not modelled

Components listed as partly modelled in `PROJECT.json` say there what is left out. In short:

* readers of file formats: package databases, os-release files, strings of binaries, the JSON of
  syft and cve-bin-tool, archive fixtures, manifests. They are sequential text processing;
  the models take what they yield or the exception they raise;
* wording, layout and graphics: prompts, Markdown and HTML, charts, the texts of findings;
* what the commands `cve-db status`, `capabilities` and `diff` print of what other components
  return;
* the orchestrator of the three agents, docker, NVD, FIRST, CISA and the language model, which
  are not in the repository: they are nondeterministic environments;
* two executions of the unpacking or of the gateway at once: they share nothing;
* power failures, which the code takes no measure against.

## 7. Plan

Done, in this order: the cache with its rate limit, the version order and the scanner, since a
wrong answer of the cache or the matcher is silent; the gateway with its unpacking, enrichment,
the diff and the search; then the command line with the SBOM writer, the emulator, the
merging of evidence, the SBOM, chains, zero-day candidates and EMBA; proofs of every
component that is a state machine, with all the safety invariants its run checks;
then the abstract store the cache implements, and the search, the merging of evidence, the
EMBA import, the attack chain, the zero-day triage and the SBOM as state machines with their
theorems.

What is left, by importance:

1. A cache in which several processes find an old file: the store it implements would have to
   forget, as `cache_race` shows, and the question is what it may forget.
2. The JSON of syft and cve-bin-tool, read with the same checks as the EMBA document is.
