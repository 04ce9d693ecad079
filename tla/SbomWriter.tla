----------------------------- MODULE SbomWriter -----------------------------
(***************************************************************************)
(* write_cyclonedx_bom (sbom/cyclonedx.py): the document is written to a   *)
(* temporary file beside its target and moved over it.  Any number of      *)
(* commands write to one target, each its own document; a call of the      *)
(* operating system may fail, and a command may be killed between two.     *)
(***************************************************************************)
EXTENDS Naturals

CONSTANTS Writer,       \* the commands; each writes one document
          OldDocument   \* what the target holds before, possibly nothing

ASSUME SbomWriterAssumption == OldDocument \notin Writer

VARIABLES
    target,     \* whose whole document the target file holds
    temp,       \* [Writer -> content of its temporary file, or "none"]
    known,      \* [Writer -> the variable `temporary` is set]
    writer,     \* [Writer -> where its call is]
    published   \* history variable: the documents the target has held

writerVars == <<target, temp, known, writer, published>>

WriterInit ==
    /\ target = OldDocument
    /\ temp = [w \in Writer |-> "none"]
    /\ known = [w \in Writer |-> FALSE]
    /\ writer = [w \in Writer |-> "idle"]
    /\ published = {}

Goto(w, place) == writer' = [writer EXCEPT ![w] = place]

\* The document is built and the directory made.
BuildBom(w) ==
    /\ writer[w] = "idle"
    /\ \/ Goto(w, "create") \/ Goto(w, "raised")
    /\ UNCHANGED <<target, temp, known, published>>

\* NamedTemporaryFile(delete=False): a new name for every writer.
CreateTemporary(w) ==
    /\ writer[w] = "create"
    /\ \/ temp' = [temp EXCEPT ![w] = "part"] /\ Goto(w, "write")
       \/ UNCHANGED temp /\ Goto(w, "raised")
    /\ UNCHANGED <<target, known, published>>

\* stream.write: when the disk is full, `temporary` is still None, and the finally
\* clause has nothing to remove.
WriteContent(w) ==
    /\ writer[w] = "write"
    /\ \/ known' = [known EXCEPT ![w] = TRUE] /\ Goto(w, "close")
       \/ UNCHANGED known /\ Goto(w, "raised")
    /\ UNCHANGED <<target, temp, published>>

\* Mutant of CloseStream: a failing flush is passed over.
CloseAnyhow(w) ==
    /\ writer[w] = "close"
    /\ temp' \in {temp, [temp EXCEPT ![w] = "whole"]}
    /\ Goto(w, "replace")
    /\ UNCHANGED <<target, known, published>>

\* The end of the with statement flushes what write has left in the buffer.
CloseStream(w) ==
    /\ writer[w] = "close"
    /\ \/ temp' = [temp EXCEPT ![w] = "whole"] /\ Goto(w, "replace")
       \/ UNCHANGED temp /\ Goto(w, "unlink failed")
    /\ UNCHANGED <<target, known, published>>

\* What a move of the writer's file leaves in the target.
Moved(w) == IF temp[w] = "whole" THEN w ELSE "part"

Replace(w) ==
    /\ writer[w] = "replace"
    /\ \/ /\ target' = Moved(w)
          /\ published' = published \cup {Moved(w)}
          /\ temp' = [temp EXCEPT ![w] = "none"]
          /\ Goto(w, "unlink")
       \/ UNCHANGED <<target, temp, published>> /\ Goto(w, "unlink failed")
    /\ UNCHANGED known

\* The finally clause; after a successful move the file is missing, which is ok.  The
\* removal may raise in its turn: it is what the call then raises, "unremoved" here.
Unlink(w) ==
    /\ writer[w] \in {"unlink", "unlink failed"}
    /\ \/ /\ temp' = [temp EXCEPT ![w] = IF known[w] THEN "none" ELSE @]
          /\ Goto(w, IF writer[w] = "unlink" THEN "written" ELSE "raised")
       \/ known[w] /\ UNCHANGED temp /\ Goto(w, "unremoved")
    /\ UNCHANGED <<target, known, published>>

Running == {"create", "write", "close", "replace", "unlink", "unlink failed"}

\* The process is killed: what is on disk stays.
Killed(w) ==
    /\ writer[w] \in Running
    /\ Goto(w, "killed")
    /\ UNCHANGED <<target, temp, known, published>>

WriterStep(w) ==
    \/ BuildBom(w) \/ CreateTemporary(w) \/ WriteContent(w) \/ CloseStream(w)
    \/ Replace(w) \/ Unlink(w) \/ Killed(w)

WriterNext == \E w \in Writer : WriterStep(w)

WriterSpec == WriterInit /\ [][WriterNext]_writerVars

-----------------------------------------------------------------------------

WriterTypeOK ==
    /\ target \in Writer \cup {OldDocument, "part"}
    /\ temp \in [Writer -> {"none", "part", "whole"}]
    /\ known \in [Writer -> BOOLEAN]
    /\ writer \in [Writer -> Running \cup {"idle", "written", "raised", "unremoved", "killed"}]
    /\ published \subseteq Writer \cup {"part"}

\* Whoever reads the target finds the old document or a whole one of some writer,
\* however many write at once, fail or are killed; a call that returns has published
\* its own, and one that raises has not touched it, unless only the removal failed.
TargetWhole ==
    /\ target \in Writer \cup {OldDocument}
    /\ target # OldDocument => target \in published
    /\ \A w \in Writer : /\ writer[w] = "raised" => w \notin published
                         /\ writer[w] = "written" => w \in published

\* A document that was published leaves no file beside the target, however its call
\* ended; and a file that is left there is of a call that was killed, whose removal of
\* it failed, or that raised before `temporary` was set, over an unfinished document.
LeftoverExplained ==
    \A w \in Writer :
        /\ w \in published => temp[w] = "none"
        /\ temp[w] # "none" /\ writer[w] \notin Running =>
              \/ writer[w] \in {"killed", "unremoved"}
              \/ writer[w] = "raised" /\ temp[w] = "part" /\ ~known[w]
=============================================================================
