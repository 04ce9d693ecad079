---------------------------- MODULE ScanCommand ----------------------------
(***************************************************************************)
(* The command `scan` of cli.py, from its options to its exit status: the  *)
(* SBOM export (module SbomWriter, with another command that writes the    *)
(* same file), the JSON envelope, the import of an EMBA report, and the    *)
(* Markdown report with its chart (module Enrichment for what is in it).   *)
(* What analysing an image may end with is module Gateway's.               *)
(* Status 1 stands for that of every failure but a usage error.  Progress  *)
(* messages are left out, but for what may go wrong with them.             *)
(***************************************************************************)
EXTENDS Enrichment, SbomWriter

CONSTANTS Self      \* this command, among the writers

ASSUME ScanCommandAssumption == Self \in Writer

VARIABLES
    options,    \* of the command line
    stage,
    payload,    \* raw_payload: "none", "path" or an "object" in JSON
    reply,      \* what is to be printed: an envelope ("ok", "warning"), a "report", or "none"
    stdout,     \* what has been, one after the other; "part" of one, where it was cut off
    chart,      \* the PNG beside the report: "old", "part" or "whole"
    report,     \* the file of --output: "old", "part" or "whole"
    empty,      \* history variable: nothing was inventoried
    status      \* exit status, or NoStatus

commandVars == <<options, stage, payload, reply, stdout, chart, report, empty, status>>
vars == <<commandVars, enrichmentVars, writerVars>>

\* --input, --json, --sbom, --emba-report, --demo, --output
Options == [input : {"none", "path", "object"}, json : BOOLEAN, sbom : BOOLEAN,
            emba : BOOLEAN, demo : BOOLEAN, output : {"file", "-"}]

NoStatus == -1
SIGKILL == -9

Init ==
    /\ EnrichmentInit /\ WriterInit
    /\ options \in Options
    /\ stage = "options" /\ payload = "none" /\ reply = "none" /\ stdout = <<>>
    /\ chart = "old" /\ report = "old" /\ empty = FALSE /\ status = NoStatus

At(place) == stage = place
GoOn(place) == stage' = place /\ UNCHANGED status
Exit(code) == stage' = "over" /\ status' = code

Silent == UNCHANGED <<reply, stdout>>
Unenriched == UNCHANGED <<enrichmentVars, chart, report, empty>>

-----------------------------------------------------------------------------

ReadsStdin == (options.json \/ options.sbom) /\ options.input = "none" /\ ~options.emba

\* The option that decides what is done; --demo is not looked at with --json.
Task == CASE options.sbom -> "inventory"
          [] ~options.sbom /\ options.json /\ options.emba -> "import"
          [] ~options.sbom /\ options.json /\ ~options.emba -> "envelope"
          [] OTHER -> "input"

\* An EMBA report excludes the other inputs; stdin may not be text.
CheckOptions ==
    /\ At("options")
    /\ \/ /\ options.emba /\ (options.input # "none" \/ options.demo \/ options.sbom)
          /\ UNCHANGED payload /\ Exit(2)
       \/ /\ ~(options.emba /\ (options.input # "none" \/ options.demo \/ options.sbom))
          /\ \/ payload' \in (IF ReadsStdin THEN {"none", "path", "object"} ELSE {options.input})
                /\ GoOn(Task)
             \/ ReadsStdin /\ UNCHANGED payload /\ Exit(1)
    /\ UNCHANGED <<options, writerVars>> /\ Silent /\ Unenriched

\* components_from_payload, for a path wrapped in an object: an inventory, errors,
\* or an exception it does not list.
InventoryPayload ==
    /\ At("inventory")
    /\ \/ payload = "none" /\ UNCHANGED reply /\ Exit(2)
       \/ payload # "none" /\ UNCHANGED reply /\ (GoOn("vex") \/ Exit(1))
       \/ payload # "none" /\ options.json /\ reply' = "warning" /\ GoOn("print")
    /\ payload' = IF payload = "none" THEN payload ELSE "object"
    /\ UNCHANGED <<options, stdout, writerVars>> /\ Unenriched

\* _sbom_vulnerabilities, within the lookup that the options name.
ResolveVulnerabilities ==
    /\ At("vex")
    /\ GoOn("write") \/ Exit(1)
    /\ UNCHANGED <<options, payload, writerVars>> /\ Silent /\ Unenriched

WriteSbom ==
    /\ At("write")
    /\ WriterStep(Self) /\ writer'[Self] # "killed"
    /\ UNCHANGED commandVars /\ UNCHANGED enrichmentVars

\* The call has returned or raised.
SbomOver ==
    /\ At("write")
    /\ \/ writer[Self] \in {"raised", "unremoved"} /\ Exit(1)
       \/ writer[Self] = "written" /\ GoOn("note")
    /\ UNCHANGED <<options, payload, writerVars>> /\ Silent /\ Unenriched

\* The text is printed and the command goes on, or that fails: after part of it, or
\* in the flush.
Echo(text, next) ==
    \/ stdout' = Append(stdout, text) /\ GoOn(next)
    \/ stdout' \in {stdout, Append(stdout, "part"), Append(stdout, text)} /\ Exit(1)

\* Mutant of NoteSbom: the note is printed whatever else stdout is for.
NoteOnStdout ==
    /\ At("note")
    /\ Echo("note", IF options.json THEN "envelope" ELSE "end")
    /\ UNCHANGED <<options, payload, reply, writerVars>> /\ Unenriched

\* What was written is said, on stderr with --json; then the image is analysed again.
NoteSbom ==
    /\ At("note")
    /\ \/ ~options.json /\ Echo("note", "end")
       \/ options.json /\ UNCHANGED stdout /\ (GoOn("envelope") \/ Exit(1))
    /\ UNCHANGED <<options, payload, reply, writerVars>> /\ Unenriched

\* scan_payload_to_envelope; a payload that is no object is a warning.
ScanPayload ==
    /\ At("envelope")
    /\ \/ reply' \in (IF payload = "object" THEN {"ok", "warning"} ELSE {"warning"}) /\ GoOn("print")
       \/ UNCHANGED reply /\ Exit(1)
    /\ UNCHANGED <<options, payload, stdout, writerVars>> /\ Unenriched

\* import_emba_path_to_envelope: a report that is refused is a warning.
ImportReport ==
    /\ At("import")
    /\ \/ reply' \in {"ok", "warning"} /\ GoOn("print")
       \/ UNCHANGED reply /\ Exit(1)
    /\ UNCHANGED <<options, payload, stdout, writerVars>> /\ Unenriched

PrintReply ==
    /\ At("print")
    /\ Echo(reply, "end")
    /\ UNCHANGED <<options, payload, reply, writerVars>> /\ Unenriched

Return ==
    /\ At("end")
    /\ Exit(0)
    /\ UNCHANGED <<options, payload, writerVars>> /\ Silent /\ Unenriched

-----------------------------------------------------------------------------
(* The Markdown report.                                                     *)

\* An object is not the name of a file.
CheckInput ==
    /\ At("input")
    /\ \/ options.input = "none" /\ ~options.demo /\ ~options.emba /\ Exit(2)
       \/ options.input # "none" /\ Exit(2)
       \/ options.input = "path" /\ GoOn("parse")
       \/ options.input = "none" /\ (options.demo \/ options.emba) /\ GoOn("parse")
    /\ UNCHANGED <<options, payload, writerVars>> /\ Silent /\ Unenriched

\* load_emba_report, the synthetic firmware, or _parse_input_file.  Without a
\* component there is nothing to do.
ParseInput ==
    /\ At("parse")
    /\ \/ GoOn("match") /\ UNCHANGED empty
       \/ ~options.demo /\ GoOn("end") /\ empty' = TRUE
       \/ Exit(1) /\ UNCHANGED empty
    /\ UNCHANGED <<options, payload, reply, stdout, chart, report, writerVars, enrichmentVars>>

MatchInventory ==
    /\ At("match")
    /\ \/ MatchComponents /\ GoOn("enrich")
       \/ Exit(1) /\ UNCHANGED enrichmentVars
    /\ UNCHANGED <<options, payload, reply, stdout, chart, report, empty, writerVars>>

Enrich ==
    /\ At("enrich")
    /\ EnrichmentStep
    /\ UNCHANGED <<commandVars, writerVars>>

\* The report is next, or something has raised: an enrichment, or the console that
\* is told of it.
EnrichmentOver ==
    /\ At("enrich")
    /\ \/ pc = "reported" /\ GoOn("chart")
       \/ Exit(1)
    /\ UNCHANGED <<options, payload, writerVars>> /\ Silent /\ Unenriched

\* Mutant of RenderChart: a chart that cannot be drawn is done without.
ReportWithoutChart ==
    /\ At("chart")
    /\ chart' \in {"old", "part", "whole"}
    /\ GoOn("report")
    /\ UNCHANGED <<options, payload, reply, stdout, report, empty, enrichmentVars, writerVars>>

\* render_vulnerability_pie writes the PNG in place, if there is anything to show
\* and a file to put it beside; what says so may fail, too.
RenderChart ==
    /\ At("chart")
    /\ \/ (options.output = "-" \/ matches = <<>>) /\ UNCHANGED chart /\ GoOn("report")
       \/ options.output = "file" /\ matches # <<>> /\ chart' = "whole" /\ GoOn("report")
       \/ options.output = "file" /\ matches # <<>> /\ chart' \in {"old", "part", "whole"} /\ Exit(1)
    /\ UNCHANGED <<options, payload, reply, stdout, report, empty, enrichmentVars, writerVars>>

\* The report is rendered, and then printed, or its file opened and truncated.
OpenReport ==
    /\ At("report")
    /\ \/ options.output = "-" /\ reply' = "report" /\ UNCHANGED report /\ GoOn("print")
       \/ options.output = "file" /\ UNCHANGED reply /\ report' = "part" /\ GoOn("fill")
       \/ UNCHANGED <<reply, report>> /\ Exit(1)
    /\ UNCHANGED <<options, payload, stdout, chart, empty, enrichmentVars, writerVars>>

\* The file is written and closed.
FillReport ==
    /\ At("fill")
    /\ \/ report' = "whole" /\ GoOn("tell")
       \/ report' \in {"part", "whole"} /\ Exit(1)
    /\ UNCHANGED <<options, payload, chart, empty, enrichmentVars, writerVars>> /\ Silent

\* console.print, over a report that stays.
TellReport ==
    /\ At("tell")
    /\ GoOn("end") \/ Exit(1)
    /\ UNCHANGED <<options, payload, writerVars>> /\ Silent /\ Unenriched

-----------------------------------------------------------------------------

\* The process is killed; a chart that is being written is left in part, and so may
\* be what is being printed.
Kill ==
    /\ ~At("over")
    /\ Exit(SIGKILL)
    /\ IF writer[Self] \in Running THEN Killed(Self) ELSE UNCHANGED writerVars
    /\ chart' \in {chart} \cup (IF At("chart") /\ options.output = "file" /\ matches # <<>>
                                THEN {"part"} ELSE {})
    /\ stdout' \in {stdout} \cup (IF At("print") \/ (At("note") /\ ~options.json)
                                  THEN {Append(stdout, "part")} ELSE {})
    /\ UNCHANGED <<options, payload, reply, report, empty, enrichmentVars>>

\* Another command exports to the same file.
OtherWrites ==
    /\ options.sbom
    /\ \E w \in Writer \ {Self} : WriterStep(w)
    /\ UNCHANGED <<commandVars, enrichmentVars>>

Ended == At("over") /\ UNCHANGED vars

Next ==
    \/ CheckOptions \/ InventoryPayload \/ ResolveVulnerabilities \/ WriteSbom \/ SbomOver
    \/ NoteSbom \/ ScanPayload \/ ImportReport \/ PrintReply \/ Return
    \/ CheckInput \/ ParseInput \/ MatchInventory \/ Enrich \/ EnrichmentOver
    \/ RenderChart \/ OpenReport \/ FillReport \/ TellReport
    \/ Kill \/ OtherWrites \/ Ended

Spec == Init /\ [][Next]_vars

-----------------------------------------------------------------------------

\* The whole of what was asked for: one envelope, the SBOM, or the report, unless
\* nothing was inventoried.
Done ==
    \/ options.json /\ stdout \in {<<"ok">>, <<"warning">>}
    \/ ~options.json /\ options.sbom /\ Self \in published /\ stdout = <<"note">>
    \/ /\ ~options.json /\ ~options.sbom
       /\ \/ empty /\ report = "old" /\ stdout = <<>>
          \/ ~empty /\ options.output = "file" /\ report = "whole" /\ stdout = <<>>
          \/ ~empty /\ options.output = "-" /\ report = "old" /\ stdout = <<"report">>

\* The exit status tells what there is: success is the whole of what was asked for,
\* and a refused command line has changed nothing.  With --json nothing but one
\* envelope is ever on stdout, --sbom or not, cut off at most; and neither touches a
\* report of before.
OutcomeTold ==
    /\ options.json => stdout \in {<<>>, <<"part">>, <<"ok">>, <<"warning">>}
    /\ options.json \/ options.sbom => chart = "old" /\ report = "old"
    /\ status = 2 => stdout = <<>> /\ Self \notin published /\ chart = "old" /\ report = "old"
    /\ status = 0 => Done

\* The report of an earlier scan is given up for one that is ready: a scan that
\* ends before has left it alone, only the writing itself leaves it in part, which
\* is never a success, and a whole report on vulnerable components stands beside
\* their chart, whatever happens to the command after it.
ReportLast ==
    /\ report # "old" \/ reply = "report" =>
          pc = "reported" /\ (Len(narratives) = TopN \/ Len(narratives) = Len(matches))
    /\ report = "part" => stage = "fill" \/ status \in {1, SIGKILL}
    /\ report = "whole" /\ matches # <<>> => chart = "whole"
=============================================================================
