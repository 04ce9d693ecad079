------------------------------ MODULE Scanner ------------------------------
(***************************************************************************)
(* The asynchronous firmware scanner: FirmwareScanner.scan (scanner.py),   *)
(* with the extraction runners it tries in turn (binwalk_runner.py,        *)
(* providers/unblob.py, parsers/binwalk.py), the inventory providers it    *)
(* runs over an extracted tree (providers/inventory.py) and the CVE lookup *)
(* of every component found.                                               *)
(*                                                                         *)
(* What a tool finds and how it fails is the environment's choice; a tree  *)
(* matters only as far as its size: "over" when it exceeds the extraction  *)
(* caps.  Paths, versions, diagnostics and scores are left out.            *)
(***************************************************************************)
EXTENDS Integers, Sequences, FiniteSets

CONSTANTS Component,    \* (name, version) identities that can be found
          Providers     \* names of the inventory providers, in order

Stages == {"binwalk", "unblob", "mock"}

ASSUME ScannerAssumption ==
    Providers \in Seq(STRING) /\ \A i \in DOMAIN Providers : Providers[i] \notin Stages

VARIABLES
    dryRun, dirGiven,   \* arguments of scan: dry_run, output_dir is not None
    pc,
    stage,              \* "binwalk", "unblob" or "mock"
    tree,               \* size of the stage's output: "none", "some" or "over"
    failure,            \* ExtractResult.error of the stage: "none", "tool" or "cap"
    provider,           \* position in Providers
    left,               \* {<<tool, part>>}: what may still run though nobody waits for it,
                        \* the "child" itself or the "descendants" of one that was killed
    found,              \* {<<component, source>>} of the stage
    used,               \* names of the providers that contributed to the stage
    warnings,           \* warnings of the stage
    errors,             \* ScanResult.errors: {<<stage or component, kind>>}
    extraction,         \* extractor of ScanResult.extraction, or "none"
    components,         \* ScanResult.components
    providers,          \* names in ScanResult.providers
    pending,            \* components still to be looked up
    looked,             \* components with findings or a lookup error
    tempDirs,           \* history variable: temporary directories left on disk
    walkedRefused          \* history variable: an over-sized tree was inventoried

inputs == <<dryRun, dirGiven>>
staged == <<tree, failure, provider, found, used, warnings>>
result == <<errors, extraction, components, providers>>
history == <<tempDirs, walkedRefused>>
vars == <<inputs, pc, stage, staged, left, result, pending, looked, history>>

Init ==
    /\ dryRun \in BOOLEAN /\ dirGiven \in BOOLEAN
    /\ pc = "start"
    /\ stage = "binwalk"
    /\ tree = "none" /\ failure = "none" /\ provider = 1
    /\ left = {}
    /\ found = {} /\ used = {} /\ warnings = {}
    /\ errors = {} /\ extraction = "none" /\ components = {} /\ providers = {}
    /\ pending = {} /\ looked = {}
    /\ tempDirs = {} /\ walkedRefused = FALSE

Report(kind) == errors' = errors \cup {<<stage, kind>>}

-----------------------------------------------------------------------------
(* Choosing the tool.                                                       *)

Following == IF stage = "binwalk" THEN "unblob" ELSE "mock"

\* The next stage starts from nothing; the mock parser follows unblob.
NextStage ==
    /\ stage' = Following
    /\ pc' = IF Following = "mock" THEN "mock" ELSE "available"
    /\ tree' = "none" /\ failure' = "none" /\ provider' = 1
    /\ found' = {} /\ used' = {} /\ warnings' = {}

\* A dry run asks for no tool at all.
Begin ==
    /\ pc = "start"
    /\ IF dryRun THEN Report("dry run") /\ pc' = "mock" /\ stage' = "mock"
                 ELSE pc' = "available" /\ UNCHANGED <<errors, stage>>
    /\ UNCHANGED <<inputs, staged, left, extraction, components, providers, pending,
                   looked, history>>

ToolAvailable ==
    /\ pc = "available"
    /\ pc' = IF dirGiven THEN "extract" ELSE "directory"
    /\ UNCHANGED <<inputs, stage, staged, left, result, pending, looked, history>>

\* Mutant of MissingKinds: a missing tool is passed over in silence.
OnlyRaised(raises) == {k \in {"availability failed"} : raises}

\* Only a missing binwalk is reported.
MissingKinds(raises) ==
    {k \in {"availability failed"} : raises} \cup {k \in {"unavailable"} : stage = "binwalk"}

\* is_available says no, or raises.
ToolMissing ==
    /\ pc = "available"
    /\ \E raises \in BOOLEAN :
          errors' = errors \cup {<<stage, kind>> : kind \in MissingKinds(raises)}
    /\ NextStage
    /\ UNCHANGED <<inputs, left, extraction, components, providers, pending, looked, history>>

\* tempfile.mkdtemp, outside every try.
MakeTempDir ==
    /\ pc = "directory"
    /\ \/ tempDirs' = tempDirs \cup {stage} /\ pc' = "extract"
       \/ pc' = "raised" /\ UNCHANGED tempDirs
    /\ UNCHANGED <<inputs, stage, staged, left, result, pending, looked, walkedRefused>>

-----------------------------------------------------------------------------
(* The runner: BinwalkRunner.extract and UnblobRunner.extract.              *)

\* The image is not a file, or the executable cannot be started.
ExtractRefused ==
    /\ pc = "extract"
    /\ failure' = "tool"
    /\ pc' = "inventory"
    /\ UNCHANGED <<inputs, stage, tree, provider, found, used, warnings, left, result,
                   pending, looked, history>>

StartTool ==
    /\ pc = "extract"
    /\ pc' = "extracting"
    /\ UNCHANGED <<inputs, stage, staged, left, result, pending, looked, history>>

\* The tool exits, with whatever tree it made; a non-zero status is an error, and
\* collect_extracted_files warns when it stops at its limits.
ToolExits ==
    /\ pc = "extracting"
    /\ tree' \in {"some", "over"}
    /\ warnings' \in {warnings, warnings \cup {<<stage, "truncated">>}}
    /\ \/ failure' = "tool" /\ pc' = "inventory"
       \/ failure' = failure /\ pc' = "parse"
    /\ UNCHANGED <<inputs, stage, provider, found, used, left, result, pending, looked, history>>

\* Mutant of ToolTimesOut: the tool is not killed.
ToolAbandoned ==
    /\ pc = "extracting"
    /\ left' = left \cup {<<stage, "child">>}
    /\ tree' \in {"some", "over"}
    /\ failure' = "tool"
    /\ pc' = "inventory"
    /\ UNCHANGED <<inputs, stage, provider, found, used, warnings, result, pending, looked, history>>

\* wait_for times out: the tool is killed and waited for, which does not reach the
\* processes it has started; its tree stays.
ToolTimesOut ==
    /\ pc = "extracting"
    /\ left' \in {left, left \cup {<<stage, "descendants">>}}
    /\ tree' \in {"some", "over"}
    /\ failure' = "tool"
    /\ pc' = "inventory"
    /\ UNCHANGED <<inputs, stage, provider, found, used, warnings, result, pending, looked, history>>

\* extract_components: the cap is checked before the tree is read; without an
\* error, the manifest or the detectors yield components.
ReadTree ==
    /\ pc = "parse"
    /\ \/ tree = "over" /\ failure' = "cap" /\ UNCHANGED found
       \/ tree # "over" /\ UNCHANGED failure
          /\ \E seen \in SUBSET Component : found' = seen \X {stage}
    /\ pc' = "inventory"
    /\ UNCHANGED <<inputs, stage, tree, provider, used, warnings, left, result, pending,
                   looked, history>>

\* An exception of the runner or of the manifest parser (the destination cannot
\* be made or listed, the manifest is not a mapping) costs the whole stage; one of
\* communicate() leaves the tool running, for only a timeout kills it.
StageRaises ==
    /\ \/ pc = "extract" /\ UNCHANGED left
       \/ pc = "extracting" /\ left' \in {left, left \cup {<<stage, "child">>}}
       \/ pc = "parse" /\ tree # "over" /\ UNCHANGED left
    /\ Report("extraction failed")
    /\ NextStage
    /\ UNCHANGED <<inputs, extraction, components, providers, pending, looked, history>>

-----------------------------------------------------------------------------
(* collect_inventory, over the output directory whatever the extraction did.*)

Name == Providers[provider]

MoreProviders == pc = "inventory" /\ provider <= Len(Providers)

\* Not on PATH (no trace), or its capability check raises (a warning).
SkipProvider ==
    /\ MoreProviders
    /\ \/ UNCHANGED warnings
       \/ warnings' = warnings \cup {<<Name, "capability failed">>}
    /\ provider' = provider + 1
    /\ UNCHANGED <<inputs, pc, stage, tree, failure, found, used, left, result, pending,
                   looked, history>>

StartProvider ==
    /\ MoreProviders
    /\ pc' = "inventorying"
    /\ walkedRefused' = (walkedRefused \/ failure = "cap")
    /\ UNCHANGED <<inputs, stage, staged, left, result, pending, looked, tempDirs>>

\* It reports components, or an exit status, invalid JSON or the timeout as a
\* warning; either way it counts as used.  What it has started outlives the timeout.
ProviderEnds ==
    /\ pc = "inventorying"
    /\ used' = used \cup {Name}
    /\ \/ /\ \E seen \in SUBSET Component : found' = found \cup (seen \X {Name})
          /\ UNCHANGED <<warnings, left>>
       \/ /\ warnings' = warnings \cup {<<Name, "failed">>}
          /\ left' \in {left, left \cup {<<Name, "descendants">>}}
          /\ UNCHANGED found
    /\ provider' = provider + 1
    /\ pc' = "inventory"
    /\ UNCHANGED <<inputs, stage, tree, failure, result, pending, looked, history>>

\* No directory to inventory, or the executable cannot be started: a warning.
ProviderRefused ==
    /\ MoreProviders
    /\ used' = used \cup {Name}
    /\ warnings' = warnings \cup {<<Name, "refused">>}
    /\ provider' = provider + 1
    /\ UNCHANGED <<inputs, pc, stage, tree, failure, found, left, result, pending, looked, history>>

\* communicate() raises, or its report cannot be parsed: isolated, and the provider
\* is not used; the first leaves it running.
ProviderRaises ==
    /\ pc = "inventorying"
    /\ left' \in {left, left \cup {<<Name, "child">>}}
    /\ warnings' = warnings \cup {<<Name, "inventory failed">>}
    /\ provider' = provider + 1
    /\ pc' = "inventory"
    /\ UNCHANGED <<inputs, stage, tree, failure, found, used, result, pending, looked, history>>

-----------------------------------------------------------------------------
(* The end of a stage, the mock parser, and the lookups.                    *)

Found == {pair[1] : pair \in found}

EnterLookups(list, names) ==
    /\ components' = list
    /\ providers' = names
    /\ pending' = list
    /\ pc' = "lookup"

\* Mutant of Contributors: the inventory providers are not named.
ExtractorOnly == {stage}
Contributors == {stage} \cup used

\* Components end the scan of the tree: the result is built at once.
StageSucceeds ==
    /\ pc = "inventory" /\ provider > Len(Providers)
    /\ Found # {}
    /\ errors' = errors \cup warnings
    /\ extraction' = stage
    /\ EnterLookups(Found, Contributors)
    /\ UNCHANGED <<inputs, stage, staged, left, looked, history>>

StageEmpty ==
    /\ pc = "inventory" /\ provider > Len(Providers)
    /\ Found = {}
    /\ errors' = errors \cup warnings
          \cup {<<stage, IF failure = "none" THEN "no inventory" ELSE failure>>}
    /\ extraction' = stage
    /\ NextStage
    /\ UNCHANGED <<inputs, left, components, providers, pending, looked, history>>

\* parse_firmware_file: it yields components or fails in a way that scan lists.
MockParses ==
    /\ pc = "mock"
    /\ \/ \E seen \in SUBSET Component :
             found' = seen \X {"mock"} /\ EnterLookups(seen, {"mock"}) /\ UNCHANGED errors
       \/ Report("mock parser failed") /\ EnterLookups({}, {"mock"}) /\ UNCHANGED found
    /\ UNCHANGED <<inputs, stage, tree, failure, provider, used, warnings, left, extraction,
                   looked, history>>

\* AttributeError (a manifest that is not a mapping), EOFError and zlib.error (a
\* truncated archive) are not in the list.
MockRaises ==
    /\ pc = "mock"
    /\ pc' = "raised"
    /\ UNCHANGED <<inputs, stage, staged, left, result, pending, looked, history>>

\* _add_cve_findings goes on with the next component when a lookup raises.
LookUp(c) ==
    /\ pc = "lookup" /\ c \in pending
    /\ \/ UNCHANGED errors
       \/ errors' = errors \cup {<<c, "lookup failed">>}
    /\ pending' = pending \ {c}
    /\ looked' = looked \cup {c}
    /\ UNCHANGED <<inputs, pc, stage, staged, left, extraction, components, providers, history>>

Return ==
    /\ pc = "lookup" /\ pending = {}
    /\ pc' = "returned"
    /\ UNCHANGED <<inputs, stage, staged, left, result, pending, looked, history>>

\* The scan is cancelled while it awaits a tool or a lookup: CancelledError passes
\* every `except Exception`, and nobody waits for the tool.
Cancel ==
    /\ pc \in {"extracting", "inventorying", "lookup"}
    /\ left' = left \cup CASE pc = "extracting" -> {<<stage, "child">>}
                           [] pc = "inventorying" -> {<<Name, "child">>}
                           [] OTHER -> {}
    /\ pc' = "cancelled"
    /\ UNCHANGED <<inputs, stage, staged, result, pending, looked, history>>

\* The caller is done with the scan.
Ended == pc \in {"returned", "raised", "cancelled"} /\ UNCHANGED vars

Step ==
    \/ Begin
    \/ ToolAvailable \/ ToolMissing \/ MakeTempDir
    \/ ExtractRefused \/ StartTool \/ ToolExits \/ ToolTimesOut \/ ReadTree \/ StageRaises
    \/ SkipProvider \/ StartProvider \/ ProviderRefused \/ ProviderEnds \/ ProviderRaises
    \/ StageSucceeds \/ StageEmpty
    \/ MockParses \/ MockRaises
    \/ \E c \in Component : LookUp(c)
    \/ Return \/ Cancel

Next == Step \/ Ended

Spec == Init /\ [][Next]_vars

-----------------------------------------------------------------------------
(* Properties.                                                              *)

ProviderNames == {Providers[i] : i \in DOMAIN Providers}
Source == Stages \cup ProviderNames

TypeOK ==
    /\ dryRun \in BOOLEAN /\ dirGiven \in BOOLEAN
    /\ pc \in {"start", "available", "directory", "extract", "extracting", "parse",
               "inventory", "inventorying", "mock", "lookup", "returned", "raised",
               "cancelled"}
    /\ stage \in Stages
    /\ tree \in {"none", "some", "over"}
    /\ failure \in {"none", "tool", "cap"}
    /\ provider \in 1 .. Len(Providers) + 1
    /\ pc = "inventorying" => provider <= Len(Providers)
    /\ left \subseteq Source \X {"child", "descendants"}
    /\ found \subseteq Component \X Source
    /\ used \subseteq ProviderNames
    /\ extraction \in {"none", "binwalk", "unblob"}
    /\ components \subseteq Component /\ pending \subseteq components /\ looked \subseteq components
    /\ providers \subseteq Source
    /\ tempDirs \subseteq Stages
    /\ walkedRefused \in BOOLEAN

\* How a scan ends is explained.  A result that does not rest on binwalk says what
\* became of the primary tool before scan turned to another one; and only what
\* stands outside every try, making a temporary directory or an exception of the
\* mock parser that is not listed, ends a scan by an exception.
FallbackExplained ==
    /\ pc = "returned" /\ "binwalk" \notin providers =>
          \E kind \in {"dry run", "availability failed", "unavailable", "extraction failed",
                       "no inventory", "tool", "cap"} : <<"binwalk", kind>> \in errors
    /\ pc = "raised" => stage = "mock" \/ (~dirGiven /\ stage \notin tempDirs)

\* The providers of a result are those whose evidence it holds: every component
\* was found by one of them, and what one of them found is not lost because
\* another failed ("adapter isolation boundary", collect_inventory).  And none goes
\* without a lookup or a lookup error, whatever failed for the ones before it
\* (_add_cve_findings).
ResultTrue ==
    /\ pc \in {"lookup", "returned"} =>
          /\ \A c \in components : \E source \in providers : <<c, source>> \in found
          /\ \A pair \in found : pair[1] \in components /\ pair[2] \in providers
    /\ pc = "returned" => looked = components

\* A tool that failed is told of, by an error of the result or by the error of its
\* extraction.
Told(tool) ==
    \/ \E kind \in {"extraction failed", "tool", "failed", "inventory failed"} :
          <<tool, kind>> \in errors
    \/ extraction = tool /\ failure = "tool"

\* A tree is read and inventoried only after the tool that writes it has come to its
\* end, by itself or by the kill of its timeout.  What a scan leaves running all the
\* same (a tool whose communicate() raised, the descendants of a killed one) is never
\* left in silence: its result tells of the failure of that tool.
QuietTree ==
    /\ pc \in {"parse", "inventory", "inventorying"} => <<stage, "child">> \notin left
    /\ pc = "returned" => \A process \in left : Told(process[1])

\* The caps "abort before the expanded tree is walked or parsed" (extraction.py:15).
CapAborts == ~walkedRefused
=============================================================================
