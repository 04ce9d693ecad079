------------------------------- MODULE Unpack -------------------------------
(***************************************************************************)
(* The synchronous extraction of a .bin image: unpack.py and extraction.py.*)
(*                                                                         *)
(* Area 0 is the temporary directory as binwalk fills it, area i > 0 the   *)
(* directory squashfs-root-i of the i-th SquashFS image found in area 0.   *)
(* What a tool leaves in its area is unknown until it has run, however it  *)
(* ends; a size stands for the bytes and the number of files of an area.   *)
(***************************************************************************)
EXTENDS Integers

CONSTANTS MaxImages,    \* bound on the SquashFS images an extraction yields
          Cap,          \* MAX_EXTRACTED_BYTES and MAX_EXTRACTED_FILES
          Largest       \* bound on the size of an area

ASSUME UnpackAssumption ==
    MaxImages \in Nat /\ Cap \in Nat /\ Largest \in Nat /\ Cap < Largest

VARIABLES
    step,           \* where unpack_firmware is
    area,           \* the area at hand
    attempt,        \* index in binwalk_commands
    images,         \* number of SquashFS images found
    size,           \* what is in an area
    content,        \* what _components_from_tree makes of an area
    errors,         \* the commands whose failure is in the list of errors
    tempDir,        \* whether the temporary directory exists
    unpacked,       \* how it ended: "components" or what was raised
    walked          \* history variable: sizes of the areas walked, when they were

unpackVars ==
    <<step, area, attempt, images, size, content, errors, tempDir, unpacked, walked>>

Areas == 0 .. MaxImages
Commands == {<<"binwalk", 1>>, <<"binwalk", 2>>} \cup ({"unsquashfs"} \X (1 .. MaxImages))

\* An inventory, none, or what reading a manifest can raise.
Content == {"components", "nothing", "OSError", "ParseError", "unlisted"}
Raises == {"too large", "no inventory", "not a file", "OSError", "ParseError", "unlisted"}

UnpackInit ==
    /\ step = "idle" /\ area = 0 /\ attempt = 1 /\ images = 0
    /\ size = [a \in Areas |-> 0]
    /\ content = [a \in Areas |-> "nothing"]
    /\ errors = {} /\ walked = {}
    /\ tempDir = FALSE
    /\ unpacked = "no"

\* Leaving the with block, by a return or an exception.
Leave(how) ==
    /\ unpacked' = how
    /\ step' = "over"
    /\ tempDir' = FALSE

\* The file is there and is one, and the directory can be made.
StartUnpack ==
    /\ step = "idle"
    /\ \/ step' = "run" /\ tempDir' = TRUE /\ UNCHANGED unpacked
       \/ \E how \in {"OSError", "not a file"} : Leave(how)
    /\ UNCHANGED <<area, attempt, images, size, content, errors, walked>>

Command == IF area = 0 THEN <<"binwalk", attempt>> ELSE <<"unsquashfs", area>>

\* The tool may have written anything into its area by the time it ends.
Written ==
    /\ size' \in {[size EXCEPT ![area] = s] : s \in size[area] .. Largest}
    /\ content' \in {[content EXCEPT ![area] = c] : c \in Content}
    /\ UNCHANGED <<images, walked>>

ToolSucceeds ==
    /\ step = "run"
    /\ Written
    /\ step' = "check"
    /\ UNCHANGED <<area, attempt, errors, tempDir, unpacked>>

\* Mutants of NextImage: the last image is left out; the same one is tried again.
ButLastImage(a) ==
    IF a + 1 < images
    THEN step' = "run" /\ area' = a + 1 /\ UNCHANGED <<tempDir, unpacked>>
    ELSE Leave("no inventory") /\ UNCHANGED area
SameImage(a) == step' = "run" /\ UNCHANGED <<area, tempDir, unpacked>>

\* The next image, or the end: no area had an inventory.
NextImage(a) ==
    IF a < images
    THEN step' = "run" /\ area' = a + 1 /\ UNCHANGED <<tempDir, unpacked>>
    ELSE Leave("no inventory") /\ UNCHANGED area

\* Missing, timed out (and killed) or exited with a status: the second form of
\* the binwalk command is tried, and then the check; unsquashfs is given up.
ToolFails ==
    /\ step = "run"
    /\ Written
    /\ errors' = errors \cup {Command}
    /\ \/ /\ area = 0 /\ attempt = 1
          /\ attempt' = 2
          /\ UNCHANGED <<step, area, tempDir, unpacked>>
       \/ /\ area = 0 /\ attempt = 2
          /\ step' = "check"
          /\ UNCHANGED <<area, attempt, tempDir, unpacked>>
       \/ /\ area > 0
          /\ NextImage(area)
          /\ UNCHANGED attempt

\* What passes _run: any other OSError of starting the tool, and the ValueError of a
\* tool that has ended, but whose output is no text.
ToolRaises ==
    /\ step = "run"
    /\ \/ Leave("OSError") /\ UNCHANGED <<images, size, content, walked>>
       \/ Leave("ParseError") /\ Written
    /\ UNCHANGED <<area, attempt, errors>>

Fits == size[area] <= Cap

CheckSize ==
    /\ step = "check"
    /\ \/ Fits /\ step' = "look" /\ UNCHANGED <<tempDir, unpacked>>
       \/ ~Fits /\ Leave("too large")
    /\ UNCHANGED <<area, attempt, images, size, content, errors, walked>>

\* _components_from_tree, and after area 0 the search for SquashFS images.
Look ==
    /\ step = "look"
    /\ walked' = walked \cup {<<area, size[area]>>}
    /\ \/ /\ content[area] = "nothing" /\ area = 0
          /\ images' \in Areas
          /\ IF images' = 0 THEN Leave("no inventory") /\ UNCHANGED area
                            ELSE step' = "run" /\ area' = 1 /\ UNCHANGED <<tempDir, unpacked>>
       \/ /\ content[area] = "nothing" /\ area > 0
          /\ NextImage(area)
          /\ UNCHANGED images
       \/ /\ content[area] # "nothing"
          /\ Leave(content[area])
          /\ UNCHANGED <<area, images>>
    /\ UNCHANGED <<attempt, size, content, errors>>

UnpackStep ==
    StartUnpack \/ ToolSucceeds \/ ToolFails \/ ToolRaises \/ CheckSize \/ Look

-----------------------------------------------------------------------------

\* No tree is walked or parsed beyond the caps, though tools write before, between
\* and after the checks and may leave anything when they fail: the caps "are
\* checked after each extraction step and abort before the expanded tree is
\* walked or parsed" (extraction.py:14-16).  And "No firmware inventory could be
\* extracted" is said only of an image all of whose trees were walked without
\* finding one, or given up with the failure of their command among the errors.
TreesWalked ==
    /\ \A w \in walked : w[2] <= Cap
    /\ unpacked = "no inventory" =>
          \A a \in 0 .. images :
              \/ <<"unsquashfs", a>> \in errors
              \/ content[a] = "nothing" /\ <<a, size[a]>> \in walked
=============================================================================
