--------------------------- MODULE GatewayProofs ---------------------------
(***************************************************************************)
(* A request of the gateway, for any caps, any number of images, redirects *)
(* and chunks, and whatever the tools, the server and the parsers do: what *)
(* is walked, requested and parsed has been checked, nothing is left       *)
(* behind, and failures are answered.                                      *)
(*                                                                         *)
(* The properties speak of the end or of what has happened; the invariants *)
(* say what holds on the way there, first of the unpacking by itself, then *)
(* of the request around it.                                               *)
(*                                                                         *)
(* An import of an EMBA document makes an envelope too: all of the document *)
(* or an error, for any documents.                                         *)
(***************************************************************************)
EXTENDS Gateway, Emba, NaturalsInduction, WellFoundedInduction, TLAPS

-----------------------------------------------------------------------------
(* Unpacking.                                                               *)

UnpackTypes ==
    /\ step \in {"idle", "run", "check", "look", "over"}
    /\ area \in Areas /\ images \in Areas /\ attempt \in {1, 2}
    /\ size \in [Areas -> Nat]
    /\ content \in [Areas -> Content]
    /\ tempDir \in BOOLEAN

\* The area has been walked without finding an inventory, or given up.
SeenThrough(a) ==
    \/ <<"unsquashfs", a>> \in errors
    \/ content[a] = "nothing" /\ <<a, size[a]>> \in walked

\* An area is walked when it has been checked and its tool is done with it, and
\* left when it has been seen through; how it ends is told at the end.
Unpacks ==
    /\ \A w \in walked : w[2] <= Cap
    /\ step = "look" => size[area] <= Cap
    /\ step # "over" => \A a \in 0 .. area - 1 : SeenThrough(a)
    /\ unpacked = "no inventory" => \A a \in 0 .. images : SeenThrough(a)
    /\ step # "over" => unpacked = "no"
    /\ step \in {"idle", "over"} <=> ~tempDir
    /\ step = "over" => unpacked \in {"components"} \cup Raises

UnpackInv == UnpackTypes /\ Unpacks

-----------------------------------------------------------------------------
(* The request.                                                             *)

Downloading == {"request", "response", "body"}
Parsing == {"parse", "unpacking", "sidecar", "archive"}

RequestTypes ==
    /\ entry \in {"scan", "inventory"}
    /\ pc \in {"payload", "locate", "over"} \cup Downloading \cup Parsing
    /\ stored \in Nat

\* Where the image comes from, and how much of it there is.
ImageAtHand ==
    /\ stored <= MaxFirmware
    /\ pc \in Downloading => source = "url" /\ gatewayDir
    /\ pc = "locate" => source = "path"
    /\ pc \in {"payload", "locate"} \cup Downloading => file # "whole"
    /\ pc \in Parsing => file = "whole" /\ (source = "url" => gatewayDir)

\* The URL at hand is checked when it is requested.
Checked == ~strayed /\ (pc = "request" => checked)

\* Where unpacking is, and what it has said when other parsers are asked.
UnpackedAt ==
    /\ pc \in {"payload", "locate", "parse"} \cup Downloading => step = "idle"
    /\ pc \in {"sidecar", "archive"} => step = "over" /\ unpacked \in UnpackErrors
    /\ pc = "over" => step \in {"idle", "over"} /\ ~gatewayDir /\ httpClient # "open"

\* There is an answer at the end, not before.
Answered == pc # "over" => reply = NoReply

GatewayInv ==
    /\ UnpackInv
    /\ RequestTypes /\ ImageAtHand /\ Checked /\ UnpackedAt /\ Answered /\ FailureAnswered

-----------------------------------------------------------------------------
(* Every step of the unpacking keeps its invariant.                         *)

\* An area is a number.
LEMMA AreasAreNumbers == Areas \subseteq Nat
    BY UnpackAssumption DEF Areas

\* A tool changes its own area only, and its failures stay known.
LEMMA WrittenKeepsOthers ==
    ASSUME UnpackInv, Written, errors \subseteq errors'
    PROVE  /\ size' \in [Areas -> Nat] /\ content' \in [Areas -> Content]
           /\ \A a \in Areas \ {area} : SeenThrough(a) => SeenThrough(a)'
           /\ images' = images /\ walked' = walked
<1>1. PICK s \in size[area] .. Largest : size' = [size EXCEPT ![area] = s]
    BY DEF Written
<1>2. s \in Nat
    BY UnpackAssumption DEF UnpackInv, UnpackTypes
<1>3. PICK c \in Content : content' = [content EXCEPT ![area] = c]
    BY DEF Written
<1>4. images' = images /\ walked' = walked
    BY DEF Written
<1>5. size' \in [Areas -> Nat] /\ content' \in [Areas -> Content]
    BY <1>1, <1>2, <1>3 DEF UnpackInv, UnpackTypes
<1>6. ASSUME NEW a \in Areas \ {area}, SeenThrough(a)
      PROVE  SeenThrough(a)'
  <2>1. size'[a] = size[a] /\ content'[a] = content[a]
    BY <1>1, <1>3 DEF UnpackInv, UnpackTypes
  <2>2. QED
    BY <1>4, <1>6, <2>1 DEF SeenThrough
<1>7. QED
    BY <1>4, <1>5, <1>6

\* Going on to the next image, or ending, after the one at hand was seen through.
LEMMA NextImageKeepsInv ==
    ASSUME UnpackInv, NextImage(area), images' = images, step # "over",
           attempt' = attempt,
           size' \in [Areas -> Nat], content' \in [Areas -> Content],
           \A w \in walked' : w[2] <= Cap,
           \A a \in 0 .. area : SeenThrough(a)',
           step \in {"run", "look"}
    PROVE  UnpackInv'
<1>1. area \in Nat /\ images \in Nat /\ area \in Areas /\ images \in Areas
    BY AreasAreNumbers DEF UnpackInv, UnpackTypes
<1>2. tempDir /\ unpacked = "no"
    BY DEF UnpackInv, Unpacks, UnpackTypes
<1>3. CASE area < images
  <2>1. step' = "run" /\ area' = area + 1 /\ UNCHANGED <<tempDir, unpacked>>
    BY <1>3 DEF NextImage
  <2>2. area' \in Areas
    BY <1>1, <1>3, <2>1, UnpackAssumption DEF Areas
  <2>3. 0 .. area' - 1 = 0 .. area
    BY <1>1, <2>1
  <2>4. UnpackTypes'
    BY <2>1, <2>2 DEF UnpackInv, UnpackTypes
  <2>5. Unpacks'
    BY <1>2, <2>1, <2>3 DEF Unpacks
  <2>6. QED
    BY <2>4, <2>5 DEF UnpackInv
<1>4. CASE ~(area < images)
  <2>1. step' = "over" /\ unpacked' = "no inventory" /\ tempDir' = FALSE /\ area' = area
    BY <1>4 DEF NextImage, Leave
  <2>2. 0 .. images \subseteq 0 .. area
    BY <1>1, <1>4
  <2>3. UnpackTypes'
    BY <2>1 DEF UnpackInv, UnpackTypes
  <2>4. Unpacks'
    BY <2>1, <2>2 DEF Unpacks, Raises
  <2>5. QED
    BY <2>3, <2>4 DEF UnpackInv
<1>5. QED
    BY <1>3, <1>4

\* Leaving before the end of the list, with an inventory or with another exception.
LEMMA LeaveKeepsInv ==
    ASSUME UnpackInv, NEW how \in ({"components"} \cup Raises) \ {"no inventory"}, Leave(how),
           UNCHANGED <<area, attempt, images, size, content, errors>>,
           \A w \in walked' : w[2] <= Cap
    PROVE  UnpackInv'
<1>1. UnpackTypes'
    BY DEF UnpackInv, UnpackTypes, Leave
<1>2. Unpacks'
    BY DEF UnpackInv, Unpacks, Leave
<1>3. QED
    BY <1>1, <1>2 DEF UnpackInv

\* A step of the unpacking: a tool runs, its trees are walked, the next image.
LEMMA UnpackStepKeepsInv ==
    ASSUME UnpackInv, UnpackStep
    PROVE  UnpackInv'
<1>0. area \in Nat /\ area \in Areas /\ \A a \in 0 .. area - 1 : a \in Areas \ {area}
    BY UnpackAssumption DEF UnpackInv, UnpackTypes, Areas
<1>1. CASE StartUnpack
  <2>1. UNCHANGED <<area, attempt, images, size, content, errors, walked>>
    BY <1>1 DEF StartUnpack
  <2>2. CASE step' = "run" /\ tempDir' = TRUE /\ UNCHANGED unpacked
    <3>1. UnpackTypes'
      BY <2>1, <2>2 DEF UnpackInv, UnpackTypes
    <3>2. \A a \in Areas : SeenThrough(a)' <=> SeenThrough(a)
      BY <2>1 DEF SeenThrough
    <3>3. step = "idle"
      BY <1>1 DEF StartUnpack
    <3>4. Unpacks'
      BY <1>0, <2>1, <2>2, <3>2, <3>3 DEF UnpackInv, Unpacks
    <3>5. QED
      BY <3>1, <3>4 DEF UnpackInv
  <2>3. ASSUME NEW how \in {"OSError", "not a file"}, Leave(how) PROVE UnpackInv'
    BY <2>1, <2>3, LeaveKeepsInv DEF Raises, UnpackInv, Unpacks
  <2>4. QED
    BY <1>1, <2>2, <2>3 DEF StartUnpack
<1>2. CASE ToolSucceeds
  <2>1. /\ step = "run" /\ step' = "check" /\ Written
        /\ UNCHANGED <<area, attempt, errors, tempDir, unpacked>>
    BY <1>2 DEF ToolSucceeds
  <2>2. /\ size' \in [Areas -> Nat] /\ content' \in [Areas -> Content]
        /\ \A a \in Areas \ {area} : SeenThrough(a) => SeenThrough(a)'
        /\ images' = images /\ walked' = walked
    BY <2>1, WrittenKeepsOthers
  <2>3. UnpackTypes'
    BY <2>1, <2>2 DEF UnpackInv, UnpackTypes
  <2>4. Unpacks'
    BY <1>0, <2>1, <2>2 DEF UnpackInv, Unpacks
  <2>5. QED
    BY <2>3, <2>4 DEF UnpackInv
<1>3. CASE ToolFails
  <2>1. step = "run" /\ Written /\ errors' = errors \cup {Command}
    BY <1>3 DEF ToolFails
  <2>2. /\ size' \in [Areas -> Nat] /\ content' \in [Areas -> Content]
        /\ \A a \in Areas \ {area} : SeenThrough(a) => SeenThrough(a)'
        /\ images' = images /\ walked' = walked
    BY <2>1, WrittenKeepsOthers
  <2>3. \A a \in 0 .. area - 1 : SeenThrough(a)'
    BY <1>0, <2>1, <2>2 DEF UnpackInv, Unpacks
  <2>4. CASE /\ area = 0 /\ attempt' \in {1, 2} /\ step' \in {"run", "check"}
             /\ UNCHANGED <<area, tempDir, unpacked>>
    <3>1. UnpackTypes'
      BY <2>2, <2>4 DEF UnpackInv, UnpackTypes
    <3>2. Unpacks'
      BY <2>1, <2>2, <2>3, <2>4 DEF UnpackInv, Unpacks
    <3>3. QED
      BY <3>1, <3>2 DEF UnpackInv
  <2>5. CASE area > 0 /\ NextImage(area) /\ UNCHANGED attempt
    <3>1. \A a \in {area} : SeenThrough(a)'
      <4>1. Command = <<"unsquashfs", area>>
        BY <1>0, <2>5 DEF Command
      <4>2. area \in Nat /\ <<"unsquashfs", area>> \in errors'
        BY <1>0, <2>1, <4>1
      <4>3. QED
        BY <4>2 DEF SeenThrough
    <3>2. \A a \in 0 .. area : a \in 0 .. area - 1 \/ a = area
      BY <1>0
    <3>3. \A a \in 0 .. area : SeenThrough(a)'
      <4> SUFFICES ASSUME NEW a \in 0 .. area PROVE SeenThrough(a)'
        OBVIOUS
      <4>1. CASE a \in 0 .. area - 1
        BY <2>3, <4>1
      <4>2. CASE a \in {area}
        BY <3>1, <4>2
      <4>3. QED
        BY <3>2, <4>1, <4>2
    <3>4. \A w \in walked' : w[2] <= Cap
      BY <2>2 DEF UnpackInv, Unpacks
    <3>5. QED
      BY <2>1, <2>2, <2>5, <3>3, <3>4, NextImageKeepsInv
  <2>6. QED
    BY <1>3, <2>1, <2>4, <2>5 DEF ToolFails, UnpackInv, UnpackTypes
<1>4. CASE ToolRaises
  <2>1. step = "run" /\ UNCHANGED <<area, attempt, errors>>
    BY <1>4 DEF ToolRaises
  <2>2. CASE Leave("OSError") /\ UNCHANGED <<images, size, content, walked>>
    BY <2>1, <2>2, LeaveKeepsInv DEF Raises, UnpackInv, Unpacks
  <2>3. CASE Leave("ParseError") /\ Written
    <3>1. /\ size' \in [Areas -> Nat] /\ content' \in [Areas -> Content]
          /\ images' = images /\ walked' = walked
      BY <2>1, <2>3, WrittenKeepsOthers
    <3>2. UnpackTypes'
      BY <2>1, <2>3, <3>1 DEF UnpackInv, UnpackTypes, Leave
    <3>3. Unpacks'
      BY <2>1, <2>3, <3>1 DEF UnpackInv, Unpacks, Leave, Raises
    <3>4. QED
      BY <3>2, <3>3 DEF UnpackInv
  <2>4. QED
    BY <1>4, <2>2, <2>3 DEF ToolRaises
<1>5. CASE CheckSize
  <2>1. step = "check" /\ UNCHANGED <<area, attempt, images, size, content, errors, walked>>
    BY <1>5 DEF CheckSize
  <2>2. CASE Fits /\ step' = "look" /\ UNCHANGED <<tempDir, unpacked>>
    <3>1. UnpackTypes'
      BY <2>1, <2>2 DEF UnpackInv, UnpackTypes
    <3>2. \A a \in Areas : SeenThrough(a)' <=> SeenThrough(a)
      BY <2>1 DEF SeenThrough
    <3>3. Unpacks'
      BY <1>0, <2>1, <2>2, <3>2 DEF UnpackInv, Unpacks, Fits
    <3>4. QED
      BY <3>1, <3>3 DEF UnpackInv
  <2>3. CASE Leave("too large")
    BY <2>1, <2>3, LeaveKeepsInv DEF Raises, UnpackInv, Unpacks
  <2>4. QED
    BY <1>5, <2>2, <2>3 DEF CheckSize
<1>6. CASE Look
  <2>1. /\ step = "look" /\ walked' = walked \cup {<<area, size[area]>>}
        /\ UNCHANGED <<attempt, size, content, errors>>
    BY <1>6 DEF Look
  <2>2. \A w \in walked' : w[2] <= Cap
    BY <2>1 DEF UnpackInv, Unpacks
  <2>3. CASE content[area] # "nothing" /\ Leave(content[area]) /\ UNCHANGED <<area, images>>
    <3>1. content[area] \in ({"components"} \cup Raises) \ {"no inventory"}
      BY <1>0, <2>3 DEF UnpackInv, UnpackTypes, Content, Raises
    <3>2. QED
      BY <2>1, <2>2, <2>3, <3>1, LeaveKeepsInv
  <2>4. \A a \in 0 .. area - 1 : SeenThrough(a)'
    BY <2>1 DEF UnpackInv, Unpacks, SeenThrough
  <2>5. \A a \in 0 .. area : a \in 0 .. area - 1 \/ a = area
    BY <1>0
  <2>6. ASSUME content[area] = "nothing" PROVE \A a \in 0 .. area : SeenThrough(a)'
    BY <2>1, <2>4, <2>5, <2>6 DEF SeenThrough
  <2>7. CASE content[area] = "nothing" /\ area > 0 /\ NextImage(area) /\ UNCHANGED images
    BY <2>1, <2>2, <2>6, <2>7, NextImageKeepsInv DEF UnpackInv, UnpackTypes
  <2>8. CASE /\ content[area] = "nothing" /\ area = 0 /\ images' \in Areas
             /\ IF images' = 0 THEN Leave("no inventory") /\ UNCHANGED area
                ELSE step' = "run" /\ area' = 1 /\ UNCHANGED <<tempDir, unpacked>>
    <3>1. \A a \in 0 .. area : SeenThrough(a)'
      BY <2>6, <2>8
    <3>2. images' \in Nat /\ tempDir /\ unpacked = "no"
      BY <2>1, <2>8, AreasAreNumbers DEF UnpackInv, Unpacks, UnpackTypes
    <3>3. CASE images' = 0
      <4>1. /\ step' = "over" /\ unpacked' = "no inventory" /\ tempDir' = FALSE
            /\ area' = area
        BY <2>8, <3>3 DEF Leave
      <4>2. UnpackTypes'
        BY <2>1, <2>8, <4>1 DEF UnpackInv, UnpackTypes
      <4>3. 0 .. images' = 0 .. area
        BY <2>8, <3>3
      <4>4. Unpacks'
        BY <2>2, <3>1, <3>2, <4>1, <4>3 DEF Unpacks, Raises
      <4>5. QED
        BY <4>2, <4>4 DEF UnpackInv
    <3>4. CASE images' # 0
      <4>1. step' = "run" /\ area' = 1 /\ UNCHANGED <<tempDir, unpacked>>
        BY <2>8, <3>4
      <4>2. area' \in Areas
        BY <2>8, <3>2, <3>4, <4>1, UnpackAssumption DEF Areas
      <4>3. UnpackTypes'
        BY <2>1, <2>8, <4>1, <4>2 DEF UnpackInv, UnpackTypes
      <4>4. 0 .. area' - 1 = 0 .. area
        BY <2>8, <4>1
      <4>5. Unpacks'
        BY <2>2, <3>1, <3>2, <4>1, <4>4 DEF Unpacks
      <4>6. QED
        BY <4>3, <4>5 DEF UnpackInv
    <3>5. QED
      BY <3>3, <3>4
  <2>9. QED
    BY <1>6, <2>3, <2>7, <2>8 DEF Look
<1>7. QED
    BY <1>1, <1>2, <1>3, <1>4, <1>5, <1>6 DEF UnpackStep

-----------------------------------------------------------------------------
(* Every step of the request keeps its invariant.                           *)

\* The request before, while and after it is unpacked.
LEMMA UnpackingKeepsInv ==
    ASSUME GatewayInv, Unpacking
    PROVE  GatewayInv'
<1>1. /\ pc = "unpacking" /\ UnpackStep
      /\ UNCHANGED <<request, pc, source, download, reply>>
    BY DEF Unpacking
<1>2. UnpackInv'
    BY <1>1, UnpackStepKeepsInv DEF GatewayInv
<1>3. RequestTypes' /\ ImageAtHand' /\ Checked' /\ UnpackedAt' /\ Answered'
    BY <1>1 DEF GatewayInv, RequestTypes, ImageAtHand, Checked, UnpackedAt, Answered, request,
                download, Parsing, Downloading
<1>4. FailureAnswered'
    BY <1>1 DEF GatewayInv, FailureAnswered, Answered, NoReply, Over, request, download
<1>5. QED
    BY <1>2, <1>3, <1>4 DEF GatewayInv

\* What unpacking is concerned with stays as it is in all other steps.
LEMMA UnpackInvStays ==
    ASSUME UnpackInv, UNCHANGED unpackVars
    PROVE  UnpackInv'
BY DEF UnpackInv, UnpackTypes, Unpacks, SeenThrough, unpackVars

\* An answer ends the request: what it has opened is closed and removed.
LEMMA AnswerKeepsInv ==
    ASSUME GatewayInv, NEW kind, NEW cause, Answer(kind, cause),
           UNCHANGED <<unpackVars, request, source, requests, stored, file, strayed>>,
           step \in {"idle", "over"},
           kind = "raised" => \/ cause = "unlisted"
                              \/ entry = "scan" /\ cause = "ValueError" /\ file # "whole",
           unpacked \in UnpackErrors /\ kind = "warning" =>
                              \/ cause = unpacked
                              \/ cause = "OSError" /\ source = "path"
    PROVE  GatewayInv'
<1>1. UnpackInv'
    BY UnpackInvStays DEF GatewayInv
<1>2. RequestTypes' /\ ImageAtHand' /\ Checked' /\ UnpackedAt' /\ Answered'
    BY DEF GatewayInv, RequestTypes, ImageAtHand, Checked, UnpackedAt, Answered, Answer, CleanUp,
           request, unpackVars, Parsing, Downloading
<1>3. FailureAnswered'
    BY DEF Answer, FailureAnswered, request, unpackVars
<1>4. QED
    BY <1>1, <1>2, <1>3 DEF GatewayInv

\* A failure before there is an image.
LEMMA FailKeepsInv ==
    ASSUME GatewayInv, pc \in {"payload", "locate"} \cup Downloading,
           NEW cause \in {"GatewayPayloadError", "OSError", "ValueError", "unlisted"}, Fail(cause),
           UNCHANGED <<unpackVars, request, source, requests, stored, file, strayed>>
    PROVE  GatewayInv'
<1>1. step = "idle" /\ unpacked = "no" /\ file # "whole" /\ entry \in {"scan", "inventory"}
    BY DEF GatewayInv, UnpackedAt, UnpackInv, Unpacks, ImageAtHand, RequestTypes
<1>2. PICK kind \in {"warning", "raised"} :
        /\ Answer(kind, cause)
        /\ kind = "raised" => cause \notin CaughtOutside
    BY DEF Fail
<1>3. QED
    BY <1>1, <1>2, AnswerKeepsInv DEF CaughtOutside, Listed, UnpackErrors

\* A failure of a parser.
LEMMA FailParsingKeepsInv ==
    ASSUME GatewayInv, step \in {"idle", "over"},
           NEW cause \in UnpackErrors \cup {"OSError", "ParseError", "unlisted"},
           FailParsing(cause),
           unpacked \in UnpackErrors => \/ cause \in {unpacked, "unlisted"}
                                        \/ cause = "OSError" /\ source = "path",
           UNCHANGED <<unpackVars, request, source, requests, stored, file, strayed>>
    PROVE  GatewayInv'
<1>1. entry \in {"scan", "inventory"}
    BY DEF GatewayInv, RequestTypes
<1>2. PICK kind \in {"warning", "raised"} :
        /\ Answer(kind, cause)
        /\ kind = "raised" <=> cause \notin CaughtInside \cup CaughtOutside
    BY DEF FailParsing
<1>3. cause \in CaughtInside \cup CaughtOutside <=> cause # "unlisted"
    BY <1>1 DEF CaughtInside, CaughtOutside, Listed, UnpackErrors
<1>4. QED
    BY <1>2, <1>3, AnswerKeepsInv

\* The steps up to the image.
LEMMA DownloadKeepsInv ==
    ASSUME GatewayInv,
           \/ RefusePayload \/ AcceptPath \/ AcceptUrl \/ Locate
           \/ Request \/ RequestRefused \/ TooManyRedirects \/ Redirected
           \/ DownloadFails \/ Body \/ Chunk \/ Downloaded
    PROVE  GatewayInv'
<1> DEFINE Others == RequestTypes' /\ ImageAtHand' /\ Checked' /\ UnpackedAt' /\ Answered'
<1>1. CASE RefusePayload
    BY <1>1, FailKeepsInv DEF RefusePayload
<1>2. ASSUME UNCHANGED <<unpackVars, reply>>, Others
      PROVE  GatewayInv'
  <2>1. UnpackInv'
    BY <1>2, UnpackInvStays DEF GatewayInv
  <2>2. pc # "over" /\ reply = NoReply
    BY DEF GatewayInv, Answered, RefusePayload, AcceptPath, AcceptUrl, Locate, Request,
           RequestRefused, TooManyRedirects, Redirected, DownloadFails, Body, Chunk, Downloaded
  <2>3. unpacked' = "no"
    BY <1>2, <2>2 DEF GatewayInv, UnpackInv, Unpacks, UnpackedAt, unpackVars, AcceptPath,
        AcceptUrl, Locate, Request, RequestRefused, TooManyRedirects, Redirected, DownloadFails,
        Body, Chunk, Downloaded, RefusePayload, Downloading
  <2>4. FailureAnswered'
    BY <1>2, <2>2, <2>3 DEF FailureAnswered, NoReply, UnpackErrors
  <2>5. QED
    BY <1>2, <2>1, <2>4 DEF GatewayInv
<1> USE DEF GatewayInv, RequestTypes, ImageAtHand, Checked, UnpackedAt, Answered, unpackVars,
            request, download, Parsing, Downloading
<1>3. CASE AcceptPath
    BY <1>2, <1>3 DEF AcceptPath
<1>4. CASE AcceptUrl
    BY <1>2, <1>4 DEF AcceptUrl
<1>5. CASE Locate
  <2>1. CASE \E cause \in {"GatewayPayloadError", "OSError"} : Fail(cause) /\ UNCHANGED file
    BY <1>5, <2>1, FailKeepsInv DEF Locate
  <2>2. CASE pc' = "parse" /\ file' = "whole" /\ UNCHANGED <<httpClient, gatewayDir, reply>>
    BY <1>2, <1>5, <2>2 DEF Locate
  <2>3. QED
    BY <1>5, <2>1, <2>2 DEF Locate
<1>6. CASE Request
    BY <1>2, <1>6 DEF Request
<1>7. CASE RequestRefused
    BY <1>7, FailKeepsInv DEF RequestRefused
<1>8. CASE TooManyRedirects
    BY <1>8, FailKeepsInv DEF TooManyRedirects
<1>9. CASE Redirected
  <2>1. CASE checked' = TRUE /\ pc' = "request" /\ UNCHANGED <<reply, httpClient, gatewayDir>>
    BY <1>2, <1>9, <2>1 DEF Redirected
  <2>2. CASE \E cause \in {"GatewayPayloadError", "ValueError"} : Fail(cause)
    BY <1>9, <2>2, FailKeepsInv DEF Redirected
  <2>3. QED
    BY <1>9, <2>1, <2>2 DEF Redirected, Follow
<1>10. CASE DownloadFails
    BY <1>10, FailKeepsInv DEF DownloadFails
<1>11. CASE Body
    BY <1>2, <1>11 DEF Body
<1>12. CASE Chunk
  <2>1. PICK length \in 1 .. MaxChunk :
          \/ Within(length) /\ stored' = stored + length /\ UNCHANGED <<pc, reply, httpClient, gatewayDir>>
          \/ Fail("GatewayPayloadError") /\ UNCHANGED stored
    BY <1>12 DEF Chunk
  <2>2. length \in Nat /\ MaxFirmware \in Nat
    BY GatewayAssumption
  <2>3. CASE Within(length) /\ stored' = stored + length /\ UNCHANGED <<pc, reply, httpClient, gatewayDir>>
    BY <1>2, <1>12, <2>2, <2>3 DEF Chunk, Within
  <2>4. CASE Fail("GatewayPayloadError") /\ UNCHANGED stored
    BY <1>12, <2>4, FailKeepsInv DEF Chunk
  <2>5. QED
    BY <2>1, <2>3, <2>4
<1>13. CASE Downloaded
    BY <1>2, <1>13 DEF Downloaded
<1>14. QED
    BY <1>1, <1>3, <1>4, <1>5, <1>6, <1>7, <1>8, <1>9, <1>10, <1>11, <1>12, <1>13

\* The steps after the image is there.
LEMMA ParsingKeepsInv ==
    ASSUME GatewayInv, ParseBin \/ Unpacked \/ Sidecar \/ ParseArchive
    PROVE  GatewayInv'
<1>1. /\ pc \in Parsing /\ reply = NoReply /\ UnpackInv
      /\ pc \in {"sidecar", "archive"} => step = "over" /\ unpacked \in UnpackErrors
      /\ pc = "parse" => step = "idle" /\ unpacked = "no"
    BY DEF GatewayInv, Answered, UnpackedAt, UnpackInv, Unpacks, ParseBin, Unpacked, Sidecar,
           ParseArchive, Parsing
<1>2. ASSUME UNCHANGED <<unpackVars, request, source, requests, stored, file, strayed, reply,
                         httpClient, gatewayDir>>,
             \/ pc' = "unpacking"
             \/ pc' \in {"sidecar", "archive"} /\ step = "over" /\ unpacked \in UnpackErrors
      PROVE  GatewayInv'
  <2>1. UnpackInv'
    BY <1>1, <1>2, UnpackInvStays
  <2>2. RequestTypes' /\ ImageAtHand' /\ Checked' /\ UnpackedAt' /\ Answered'
    BY <1>1, <1>2 DEF GatewayInv, RequestTypes, ImageAtHand, Checked, UnpackedAt, Answered,
                      request, unpackVars, Parsing, Downloading
  <2>3. FailureAnswered'
    BY <1>1, <1>2 DEF FailureAnswered, NoReply, Over
  <2>4. QED
    BY <2>1, <2>2, <2>3 DEF GatewayInv
<1>3. CASE ParseBin
    BY <1>2, <1>3 DEF ParseBin, download
<1>4. CASE Unpacked
  <2>1. step = "over" /\ UNCHANGED <<unpackVars, request, source, checked, requests, stored, file, strayed>>
    BY <1>4 DEF Unpacked
  <2>2. CASE unpacked = "components" /\ Inventory
    BY <2>1, <2>2, AnswerKeepsInv DEF Inventory, UnpackErrors
  <2>3. CASE unpacked \in UnpackErrors /\ pc' = "sidecar" /\ UNCHANGED <<reply, httpClient, gatewayDir>>
    BY <1>2, <2>1, <2>3
  <2>4. CASE unpacked \in {"OSError", "ParseError", "unlisted"} /\ FailParsing(unpacked)
    BY <2>1, <2>4, FailParsingKeepsInv DEF UnpackErrors
  <2>5. QED
    BY <1>4, <2>2, <2>3, <2>4 DEF Unpacked
<1>5. CASE Sidecar
  <2>1. /\ step = "over" /\ unpacked \in UnpackErrors
        /\ UNCHANGED <<unpackVars, request, source, checked, requests, stored, file, strayed>>
    BY <1>1, <1>5 DEF Sidecar
  <2>2. CASE source = "path" /\ Inventory
    BY <2>1, <2>2, AnswerKeepsInv DEF Inventory
  <2>3. CASE source = "path" /\ FailParsing("OSError")
    BY <2>1, <2>3, FailParsingKeepsInv
  <2>4. CASE pc' = "archive" /\ UNCHANGED <<reply, httpClient, gatewayDir>>
    BY <1>2, <2>1, <2>4
  <2>5. QED
    BY <1>5, <2>2, <2>3, <2>4 DEF Sidecar
<1>6. CASE ParseArchive
  <2>1. /\ pc \in {"archive", "parse"}
        /\ UNCHANGED <<unpackVars, request, source, checked, requests, stored, file, strayed>>
    BY <1>6 DEF ParseArchive
  <2>2. CASE Inventory
    BY <1>1, <2>1, <2>2, AnswerKeepsInv DEF Inventory
  <2>3. ASSUME NEW cause \in {"OSError", "ParseError", "unlisted"},
               FailParsing(IF pc = "archive" THEN AfterUnpack(cause) ELSE cause)
        PROVE  GatewayInv'
    BY <1>1, <2>1, <2>3, FailParsingKeepsInv DEF AfterUnpack, UnpackErrors
  <2>4. QED
    BY <1>6, <2>2, <2>3 DEF ParseArchive
<1>7. QED
    BY <1>3, <1>4, <1>5, <1>6

\* A request that has not begun.
LEMMA GatewayInitHolds == Init => GatewayInv
<1> SUFFICES ASSUME Init PROVE GatewayInv
    OBVIOUS
<1>1. UnpackTypes
  <2>1. 0 \in Areas
    BY UnpackAssumption DEF Areas
  <2>2. size \in [Areas -> Nat] /\ content \in [Areas -> Content]
    BY DEF Init, UnpackInit, Content
  <2>3. QED
    BY <2>1, <2>2 DEF Init, UnpackInit, UnpackTypes
<1>2. Unpacks
    BY DEF Init, UnpackInit, Unpacks
<1>3. RequestTypes /\ ImageAtHand /\ Checked /\ UnpackedAt /\ Answered
    BY GatewayAssumption DEF Init, UnpackInit, RequestTypes, ImageAtHand, Checked, UnpackedAt,
        Answered, Downloading, Parsing
<1>4. FailureAnswered
    BY DEF Init, FailureAnswered, NoReply, Over
<1>5. QED
    BY <1>1, <1>2, <1>3, <1>4 DEF GatewayInv, UnpackInv

\* The invariant of every request.
LEMMA GatewayInvariant == Spec => []GatewayInv
<1>1. GatewayInv /\ [Next]_vars => GatewayInv'
  <2> SUFFICES ASSUME GatewayInv, [Next]_vars PROVE GatewayInv'
    OBVIOUS
  <2>1. CASE UNCHANGED vars
    <3>1. UnpackInv'
      BY <2>1, UnpackInvStays DEF GatewayInv, vars
    <3>2. RequestTypes' /\ ImageAtHand' /\ Checked' /\ UnpackedAt' /\ Answered' /\ FailureAnswered'
      BY <2>1 DEF GatewayInv, RequestTypes, ImageAtHand, Checked, UnpackedAt, Answered,
          FailureAnswered, Over, vars, request, download, unpackVars
    <3>3. QED
      BY <3>1, <3>2 DEF GatewayInv
  <2>2. CASE Step
    BY <2>2, DownloadKeepsInv, UnpackingKeepsInv, ParsingKeepsInv DEF Step
  <2>3. QED
    BY <2>1, <2>2 DEF Next, Ended
<1>2. QED
    BY <1>1, GatewayInitHolds, PTL DEF Spec

-----------------------------------------------------------------------------

\* No tree is walked beyond the caps, and an image is said to hold no inventory only
\* when each tree found in it was walked or its command failed, for any number of
\* images and whatever the tools leave behind.
THEOREM GatewayTreesWalked == Spec => []TreesWalked
<1>1. GatewayInv => TreesWalked
    BY DEF GatewayInv, UnpackInv, Unpacks, SeenThrough, TreesWalked
<1>2. QED
    BY <1>1, GatewayInvariant, PTL

\* No URL is requested that has not been checked, after any number of redirects.
THEOREM GatewayHopsChecked == Spec => []HopsChecked
<1>1. GatewayInv => HopsChecked
    BY DEF GatewayInv, Checked, HopsChecked
<1>2. QED
    BY <1>1, GatewayInvariant, PTL

\* What is parsed is the whole image, within the limit and still there.
THEOREM GatewayWholeImage == Spec => []WholeImageParsed
<1>1. GatewayInv => WholeImageParsed
    BY DEF GatewayInv, ImageAtHand, Parsing, WholeImageParsed
<1>2. QED
    BY <1>1, GatewayInvariant, PTL

\* Behind a request that is over there is no directory and no client of its own.
THEOREM GatewayLeavesNothing == Spec => []NothingLeft
<1>1. GatewayInv => NothingLeft
    BY DEF GatewayInv, UnpackInv, UnpackTypes, Unpacks, UnpackedAt, Over, NothingLeft
<1>2. QED
    BY <1>1, GatewayInvariant, PTL

\* Only an exception no handler names reaches the caller, or a ValueError before there
\* is an image; and a warning names what is wrong with the image.
THEOREM GatewayAnswersFailure == Spec => []FailureAnswered
<1>1. GatewayInv => FailureAnswered
    BY DEF GatewayInv
<1>2. QED
    BY <1>1, GatewayInvariant, PTL
-----------------------------------------------------------------------------
(* The import of a document of EMBA.  One check after the other is made,    *)
(* and the first that fails ends it; that together they are the verified    *)
(* shape takes no induction, since the first failure is the least of a set. *)

\* The least of a set of numbers is in it.
LEMMA LeastOf ==
    ASSUME NEW T \in SUBSET Nat, T # {}
    PROVE  FSX!Min(T) \in T /\ \A j \in T : FSX!Min(T) <= j
<1>1. \E i \in T : \A j \in T : <<j, i>> \notin OpToRel(<, Nat)
    BY WFMin, NatLessThanWellFounded
<1>2. \A i, j \in Nat : j < i => <<j, i>> \in OpToRel(<, Nat)
    BY DEF OpToRel
<1>3. PICK i \in T : \A j \in T : <<j, i>> \notin OpToRel(<, Nat)
    BY <1>1
<1>4. \A j \in T : ~(j < i)
    BY <1>2, <1>3
<1>5. \A j \in T : i <= j
    BY <1>4
<1>6. QED
    BY <1>5 DEF FSX!Min

\* No check fails.
AllPass(checks) == \A i \in DOMAIN checks : checks[i] = None

\* The first failure is None when there is none.
LEMMA FirstOfPasses ==
    ASSUME NEW checks, DOMAIN checks \in SUBSET Nat
    PROVE  FirstOf(checks) = None <=> AllPass(checks)
<1> DEFINE failed == {i \in DOMAIN checks : checks[i] # None}
<1>1. failed # {} => FSX!Min(failed) \in failed
    BY LeastOf
<1> HIDE DEF failed
<1>2. failed # {} => checks[FSX!Min(failed)] # None
    BY <1>1 DEF failed
<1>3. FirstOf(checks) = IF failed = {} THEN None ELSE checks[FSX!Min(failed)]
    BY DEF FirstOf, failed
<1>4. AllPass(checks) <=> failed = {}
    BY DEF AllPass, failed
<1>5. QED
    BY <1>2, <1>3, <1>4

Reason == {"missing field", "schema", "unsupported version", None}

\* Only what is neither unreadable nor undecodable is raised.
LEMMA FileChecks ==
    ASSUME NEW field \in Field
    PROVE  /\ FileError(field) = None <=> field = Wanted
           /\ FileError(field) = "uncaught" <=> field \in Nat \ {Wanted}
<1>1. Missing \notin Nat /\ Odd \notin Nat /\ Blank \notin Nat /\ Wanted \in Nat
    BY DEF Missing, Odd, Blank, Wanted
<1>2. field \in Nat \/ field \in {Missing, Odd, Blank}
    BY DEF Field
<1>3. Missing \notin {Odd, Blank}
    BY DEF Missing, Odd, Blank
<1>4. /\ field = Missing => FileError(field) = "unreadable"
      /\ field \in {Odd, Blank} => FileError(field) = "parse"
      /\ field \in Nat \ {Wanted} => FileError(field) = "uncaught"
      /\ field = Wanted => FileError(field) = None
  <2>1. field \in {Odd, Blank} => field # Missing
    BY <1>3
  <2>2. field \in Nat => field \notin {Missing, Odd, Blank}
    BY <1>1
  <2>3. Wanted \notin {Missing, Odd, Blank}
    BY <1>1
  <2>4. QED
    BY <2>1, <2>2, <2>3 DEF FileError
<1>5. QED
    BY <1>1, <1>2, <1>4 DEF None

\* The first failure is one of those.
LEMMA FirstOfReason ==
    ASSUME NEW checks \in Seq(Reason)
    PROVE  FirstOf(checks) \in Reason
<1> DEFINE failed == {i \in DOMAIN checks : checks[i] # None}
<1>1. DOMAIN checks \in SUBSET Nat /\ \A i \in DOMAIN checks : checks[i] \in Reason
    OBVIOUS
<1>2. failed # {} => FSX!Min(failed) \in failed
    BY <1>1, LeastOf
<1> HIDE DEF failed
<1>3. failed # {} => checks[FSX!Min(failed)] \in Reason
    BY <1>1, <1>2 DEF failed
<1>4. FirstOf(checks) = IF failed = {} THEN None ELSE checks[FSX!Min(failed)]
    BY DEF FirstOf, failed
<1>5. QED
    BY <1>3, <1>4 DEF Reason

\* Checks after one another pass when both do.
LEMMA AllPassConcat ==
    ASSUME NEW s \in Seq(Reason), NEW t \in Seq(Reason)
    PROVE  AllPass(s \o t) <=> AllPass(s) /\ AllPass(t)
<1>1. /\ DOMAIN (s \o t) = 1 .. Len(s) + Len(t) /\ DOMAIN s = 1 .. Len(s) /\ DOMAIN t = 1 .. Len(t)
      /\ \A i \in 1 .. Len(s) : (s \o t)[i] = s[i]
      /\ \A i \in 1 .. Len(t) : (s \o t)[Len(s) + i] = t[i]
      /\ Len(s) \in Nat /\ Len(t) \in Nat
    OBVIOUS
<1>2. ASSUME AllPass(s \o t) PROVE AllPass(s) /\ AllPass(t)
  <2>1. \A i \in 1 .. Len(s) : i \in DOMAIN (s \o t)
    BY <1>1
  <2>2. \A i \in 1 .. Len(t) : Len(s) + i \in DOMAIN (s \o t)
    BY <1>1
  <2>3. QED
    BY <1>1, <1>2, <2>1, <2>2 DEF AllPass
<1>3. ASSUME AllPass(s), AllPass(t), NEW i \in DOMAIN (s \o t) PROVE (s \o t)[i] = None
  <2>1. CASE i <= Len(s)
    BY <1>1, <1>3, <2>1 DEF AllPass
  <2>2. CASE i > Len(s)
    <3>1. i - Len(s) \in DOMAIN t /\ i = Len(s) + (i - Len(s))
        BY <1>1, <2>2
    <3>2. QED
        BY <1>1, <1>3, <3>1 DEF AllPass
  <2>3. QED
    BY <1>1, <2>1, <2>2
<1>4. QED
    BY <1>2, <1>3 DEF AllPass

\* What each check refuses.
LEMMA FieldChecks ==
    ASSUME NEW field, NEW reason \in Reason \ {None}
    PROVE  /\ TextError(field) \in Reason /\ ShapeError(field) \in Reason
           /\ OptionalError(field) \in Reason /\ WantedError(field, reason) \in Reason
           /\ TextError(field) = None <=> IsText(field)
           /\ ShapeError(field) = None <=> field = Wanted
           /\ OptionalError(field) = None <=> field # Odd
           /\ WantedError(field, reason) = None <=> field = Wanted
<1>1. TextError(field) \in Reason /\ (TextError(field) = None <=> IsText(field))
    BY DEF Reason, TextError, IsText, None, Missing, Odd, Blank
<1>2. ShapeError(field) \in Reason /\ (ShapeError(field) = None <=> field = Wanted)
  <2>1. Missing # Wanted
    BY DEF Missing, Wanted
  <2>2. ShapeError(field) = IF field = Missing THEN "missing field" ELSE IF field # Wanted THEN "schema" ELSE None
    BY <2>1 DEF ShapeError
  <2>3. QED
    BY <2>1, <2>2 DEF Reason, None
<1>3. OptionalError(field) \in Reason /\ (OptionalError(field) = None <=> field # Odd)
    BY DEF Reason, OptionalError, None, Odd
<1>4. WantedError(field, reason) \in Reason /\ (WantedError(field, reason) = None <=> field = Wanted)
  <2>1. IsText(Wanted)
    BY DEF IsText, Missing, Odd, Blank, Wanted
  <2>2. CASE TextError(field) # None
    BY <1>1, <2>1, <2>2 DEF WantedError
  <2>3. CASE TextError(field) = None
    <3>1. None \in Reason
        BY DEF Reason
    <3>2. WantedError(field, reason) = IF field # Wanted THEN reason ELSE None
        BY <2>3 DEF WantedError
    <3>3. QED
        BY <3>1, <3>2
  <2>4. QED
    BY <2>2, <2>3
<1>5. QED
    BY <1>1, <1>2, <1>3, <1>4

\* A component passes when it is of the verified shape and its reference is new.
LEMMA ComponentChecks ==
    ASSUME NEW item
    PROVE  /\ FirstOf(ComponentErrors(item)) = None <=> ItemFits(item) /\ ~SeenBefore(item.ref)
           /\ FirstOf(ComponentErrors(item)) \in Reason
<1> DEFINE checks == ComponentErrors(item)
           seen == IF SeenBefore(item.ref) THEN "schema" ELSE None
           vendor == IF Optional(item.publisher) = Blank THEN OptionalError(item.supplier) ELSE None
<1>1. checks = <<ShapeError(item.shape), TextError(item.ref), seen, TextError(item.name), TextError(item.type),
                 OptionalError(item.version), OptionalError(item.publisher), vendor,
                 OptionalError(item.purl)>>
    BY DEF ComponentErrors
<1>2. seen = None <=> ~SeenBefore(item.ref)
    BY DEF None
<1>3. OptionalError(item.publisher) = None =>
         (vendor = None <=> IsText(item.publisher) \/ item.supplier # Odd)
  <2>1. item.publisher # Odd => (Optional(item.publisher) = Blank <=> ~IsText(item.publisher))
    BY DEF Optional, IsText
  <2>2. "schema" \in Reason \ {None}
    BY DEF Reason, None
  <2>3. /\ OptionalError(item.publisher) = None <=> item.publisher # Odd
        /\ OptionalError(item.supplier) = None <=> item.supplier # Odd
    BY <2>2, FieldChecks
  <2>4. QED
    BY <2>1, <2>3
<1> HIDE DEF checks, seen, vendor
<1>4. /\ DOMAIN checks = 1 .. 9
      /\ checks[1] = ShapeError(item.shape) /\ checks[2] = TextError(item.ref)
      /\ checks[3] = seen /\ checks[4] = TextError(item.name)
      /\ checks[5] = TextError(item.type) /\ checks[6] = OptionalError(item.version)
      /\ checks[7] = OptionalError(item.publisher) /\ checks[8] = vendor
      /\ checks[9] = OptionalError(item.purl)
    BY <1>1
<1>5. AllPass(checks) <=> /\ checks[1] = None /\ checks[2] = None /\ checks[3] = None /\ checks[4] = None
                          /\ checks[5] = None /\ checks[6] = None /\ checks[7] = None /\ checks[8] = None /\ checks[9] = None
    BY <1>4 DEF AllPass
<1>6. "schema" \in Reason \ {None}
    BY DEF Reason, None
<1>7. /\ ShapeError(item.shape) = None <=> item.shape = Wanted
      /\ TextError(item.ref) = None <=> IsText(item.ref)
      /\ TextError(item.name) = None <=> IsText(item.name)
      /\ TextError(item.type) = None <=> IsText(item.type)
      /\ OptionalError(item.version) = None <=> item.version # Odd
      /\ OptionalError(item.publisher) = None <=> item.publisher # Odd
      /\ OptionalError(item.purl) = None <=> item.purl # Odd
    BY <1>6, FieldChecks
<1>8. FirstOf(checks) = None <=> AllPass(checks)
    BY <1>4, FirstOfPasses
<1>9. checks \in Seq(Reason)
  <2>1. /\ TextError(item.ref) \in Reason /\ TextError(item.name) \in Reason /\ TextError(item.type) \in Reason
        /\ OptionalError(item.version) \in Reason /\ OptionalError(item.publisher) \in Reason
        /\ OptionalError(item.purl) \in Reason /\ OptionalError(item.supplier) \in Reason
        /\ ShapeError(item.shape) \in Reason
    BY <1>6, FieldChecks
  <2>2. seen \in Reason /\ vendor \in Reason
    BY <2>1, <1>6 DEF seen, vendor, Reason
  <2>3. QED
    BY <1>1, <2>1, <2>2
<1>10. FirstOf(checks) \in Reason
    BY <1>9, FirstOfReason
<1>11. QED
    BY <1>2, <1>3, <1>4, <1>5, <1>7, <1>8, <1>10 DEF ItemFits, checks

\* The tools pass when the first that calls itself EMBA is EMBA.
LEMMA ToolChecks ==
    ASSUME NEW tools \in Seq(Tool)
    PROVE  /\ ToolErrors(tools) \in Seq(Reason)
           /\ AllPass(ToolErrors(tools)) <=>
                \E i \in DOMAIN tools :
                   /\ tools[i].shape = Wanted
                   /\ tools[i].name = Wanted /\ tools[i].author = Wanted /\ IsText(tools[i].version)
                   /\ \A j \in 1 .. i - 1 : tools[j].shape # Odd /\ tools[j].name \notin {Wanted, Odd}
<1> DEFINE named == {i \in DOMAIN tools : tools[i].shape = Odd \/ tools[i].name \in {Wanted, Odd}}
           first == FSX!Min(named)
           checks == ToolErrors(tools)
<1>1. DOMAIN tools = 1 .. Len(tools) /\ Len(tools) \in Nat
    OBVIOUS
<1>2. "schema" \in Reason \ {None}
    BY DEF Reason, None
<1>3. CASE named = {}
  <2>1. checks = <<"schema">>
    BY <1>3 DEF ToolErrors
  <2>2. 1 \in DOMAIN checks /\ checks[1] # None /\ checks \in Seq(Reason)
    BY <2>1, <1>2
  <2>3. QED
    BY <1>3, <2>2 DEF AllPass
<1>4. CASE named # {}
  <2> named \in SUBSET Nat
    BY <1>1
  <2>1. first \in named /\ \A j \in named : first <= j
    BY <1>4, LeastOf
  <2>2. ToolErrors(tools) = <<ShapeError(tools[first].shape), OptionalError(tools[first].name),
                    WantedError(tools[first].author, "schema"), TextError(tools[first].version)>>
    BY <1>4 DEF ToolErrors
  <2> HIDE DEF named, first
  <2>3. /\ OptionalError(tools[first].name) \in Reason /\ WantedError(tools[first].author, "schema") \in Reason
        /\ TextError(tools[first].version) \in Reason /\ ShapeError(tools[first].shape) \in Reason
        /\ ShapeError(tools[first].shape) = None <=> tools[first].shape = Wanted
        /\ OptionalError(tools[first].name) = None <=> tools[first].name # Odd
        /\ WantedError(tools[first].author, "schema") = None <=> tools[first].author = Wanted
        /\ TextError(tools[first].version) = None <=> IsText(tools[first].version)
    BY <1>2, FieldChecks
  <2>4. checks \in Seq(Reason) /\ DOMAIN checks = 1 .. 4
    BY <2>2, <2>3
  <2>5. AllPass(checks) <=> /\ tools[first].shape = Wanted
                            /\ tools[first].name # Odd /\ tools[first].author = Wanted
                            /\ IsText(tools[first].version)
    BY <2>2, <2>3, <2>4 DEF AllPass
  <2>6. ASSUME AllPass(checks)
        PROVE  /\ first \in DOMAIN tools /\ tools[first].name = Wanted
               /\ \A j \in 1 .. first - 1 : tools[j].shape # Odd /\ tools[j].name \notin {Wanted, Odd}
    <3>0. Wanted # Odd
        BY DEF Wanted, Odd
    <3>1. \A j \in 1 .. first - 1 : j \in DOMAIN tools /\ ~(first <= j)
        BY <1>1, <2>1 DEF named
    <3>2. QED
        BY <2>1, <2>5, <2>6, <3>0, <3>1 DEF named
  <2>7. ASSUME NEW i \in DOMAIN tools, tools[i].shape = Wanted, tools[i].name = Wanted,
               tools[i].author = Wanted, IsText(tools[i].version),
               \A j \in 1 .. i - 1 : tools[j].shape # Odd /\ tools[j].name \notin {Wanted, Odd}
        PROVE  AllPass(checks)
    <3>1. i \in named /\ first <= i /\ first \in 1 .. Len(tools)
        BY <1>1, <2>1, <2>7 DEF named
    <3>2. first \notin 1 .. i - 1
        BY <2>1, <2>7 DEF named
    <3>3. first = i
        BY <1>1, <3>1, <3>2
    <3>4. Wanted # Odd
        BY DEF Wanted, Odd
    <3>5. QED
        BY <2>5, <2>7, <3>3, <3>4
  <2>8. QED
    BY <2>4, <2>5, <2>6, <2>7
<1>5. QED
    BY <1>3, <1>4

\* Five checks.
LEMMA FiveChecks ==
    ASSUME NEW a \in Reason, NEW b \in Reason, NEW c \in Reason, NEW d \in Reason, NEW e \in Reason
    PROVE  /\ <<a, b, c, d, e>> \in Seq(Reason)
           /\ AllPass(<<a, b, c, d, e>>)
                <=> a = None /\ b = None /\ c = None /\ d = None /\ e = None
<1> DEFINE s == <<a, b, c, d, e>>
<1>1. /\ s \in Seq(Reason) /\ DOMAIN s = 1 .. 5
      /\ s[1] = a /\ s[2] = b /\ s[3] = c /\ s[4] = d /\ s[5] = e
    OBVIOUS
<1> HIDE DEF s
<1>2. AllPass(s) <=> /\ s[1] = None /\ s[2] = None /\ s[3] = None
                     /\ s[4] = None /\ s[5] = None
    BY <1>1 DEF AllPass
<1>3. QED
    BY <1>1, <1>2 DEF s

\* What comes before the components passes when it is of the verified shape.
LEMMA DocumentChecks ==
    ASSUME document \in Document, document.file = Wanted
    PROVE  /\ FirstOf(DocumentErrors) = None <=> HeaderFits
           /\ FirstOf(DocumentErrors) \in Reason
<1> DEFINE version == CASE document.version = Missing -> "missing field"
                        [] document.version \notin {Missing, Wanted} -> "unsupported version"
                        [] OTHER -> None
           root == ShapeError(document.root)
           schema == WantedError(document.schema, "schema")
           format == WantedError(document.bomFormat, "schema")
           spec == WantedError(document.specVersion, "unsupported version")
           serial == TextError(document.serialNumber)
           metadata == ShapeError(document.metadata)
           timestamp == TextError(document.timestamp)
           toolsObject == ShapeError(document.toolsObject)
           toolsArray == ShapeError(document.toolsArray)
           dependencies == ShapeError(document.dependencies)
           vulnerabilities == ShapeError(document.vulnerabilities)
           listed == ShapeError(document.componentsArray)
           header == <<root, schema, format, spec, version>>
           about == <<serial, metadata, timestamp, toolsObject, toolsArray>>
           tools == ToolErrors(document.tools)
           after == <<dependencies, vulnerabilities, listed>>
<1>1. "schema" \in Reason \ {None} /\ "unsupported version" \in Reason \ {None} /\ "missing field" \in Reason \ {None}
      /\ None \in Reason
    BY DEF Reason, None
<1>2. version \in Reason /\ (version = None <=> document.version = Wanted)
  <2>1. Missing # Wanted
    BY DEF Missing, Wanted
  <2>2. version = IF document.version = Missing THEN "missing field"
                  ELSE IF document.version # Wanted THEN "unsupported version" ELSE None
    BY <2>1
  <2>3. QED
    BY <1>1, <2>1, <2>2
<1>3. DocumentErrors = ((header \o about) \o tools) \o after
    BY DEF DocumentErrors, HeaderErrors, MetadataErrors
<1>4. /\ root \in Reason /\ (root = None <=> document.root = Wanted)
      /\ schema \in Reason /\ (schema = None <=> document.schema = Wanted)
      /\ format \in Reason /\ (format = None <=> document.bomFormat = Wanted)
      /\ spec \in Reason /\ (spec = None <=> document.specVersion = Wanted)
      /\ serial \in Reason /\ (serial = None <=> IsText(document.serialNumber))
      /\ metadata \in Reason /\ (metadata = None <=> document.metadata = Wanted)
      /\ timestamp \in Reason /\ (timestamp = None <=> IsText(document.timestamp))
      /\ toolsObject \in Reason /\ (toolsObject = None <=> document.toolsObject = Wanted)
      /\ toolsArray \in Reason /\ (toolsArray = None <=> document.toolsArray = Wanted)
      /\ dependencies \in Reason /\ (dependencies = None <=> document.dependencies = Wanted)
      /\ vulnerabilities \in Reason /\ (vulnerabilities = None <=> document.vulnerabilities = Wanted)
      /\ listed \in Reason /\ (listed = None <=> document.componentsArray = Wanted)
    BY <1>1, FieldChecks
<1> HIDE DEF version, root, schema, format, spec, serial, metadata, timestamp, toolsObject, toolsArray,
             dependencies, vulnerabilities, listed
<1>5. /\ header \in Seq(Reason)
      /\ AllPass(header) <=> root = None /\ schema = None /\ format = None /\ spec = None /\ version = None
    BY <1>2, <1>4, FiveChecks
<1>6. /\ about \in Seq(Reason)
      /\ AllPass(about) <=> /\ serial = None /\ metadata = None /\ timestamp = None
                            /\ toolsObject = None /\ toolsArray = None
    BY <1>4, FiveChecks
<1>7. /\ after \in Seq(Reason)
      /\ AllPass(after) <=> dependencies = None /\ vulnerabilities = None /\ listed = None
  <2>1. /\ after \in Seq(Reason) /\ DOMAIN after = 1 .. 3
        /\ after[1] = dependencies /\ after[2] = vulnerabilities /\ after[3] = listed
    BY <1>4
  <2> HIDE DEF after
  <2>2. QED
    BY <2>1 DEF AllPass
<1>8. tools \in Seq(Reason)
    BY ToolChecks DEF Document
<1> HIDE DEF header, about, tools, after
<1>9. /\ header \o about \in Seq(Reason) /\ (header \o about) \o tools \in Seq(Reason)
      /\ ((header \o about) \o tools) \o after \in Seq(Reason)
    BY <1>5, <1>6, <1>7, <1>8
<1>10. AllPass(DocumentErrors) <=> AllPass(header) /\ AllPass(about) /\ AllPass(tools) /\ AllPass(after)
  <2>1. AllPass(header \o about) <=> AllPass(header) /\ AllPass(about)
    BY <1>5, <1>6, AllPassConcat
  <2>2. AllPass((header \o about) \o tools) <=> AllPass(header \o about) /\ AllPass(tools)
    BY <1>8, <1>9, AllPassConcat
  <2>3. AllPass(((header \o about) \o tools) \o after)
          <=> AllPass((header \o about) \o tools) /\ AllPass(after)
    BY <1>7, <1>9, AllPassConcat
  <2>4. QED
    BY <1>3, <2>1, <2>2, <2>3
<1>11. FirstOf(DocumentErrors) = None <=> AllPass(DocumentErrors)
  <2>1. DOMAIN DocumentErrors \in SUBSET Nat
    <3>1. DOMAIN DocumentErrors = 1 .. Len(DocumentErrors) /\ Len(DocumentErrors) \in Nat
        BY <1>3, <1>9
    <3>2. QED
        BY <3>1
  <2>2. QED
    BY <2>1, FirstOfPasses
<1>12. AllPass(tools) <=>
          \E i \in DOMAIN document.tools :
             /\ document.tools[i].shape = Wanted
             /\ document.tools[i].name = Wanted /\ document.tools[i].author = Wanted
             /\ IsText(document.tools[i].version)
             /\ \A j \in 1 .. i - 1 :
                   document.tools[j].shape # Odd /\ document.tools[j].name \notin {Wanted, Odd}
  <2>1. document.tools \in Seq(Tool)
    BY DEF Document
  <2>2. QED
    BY <2>1, ToolChecks DEF tools
<1>13. {document.file, document.root, document.schema, document.bomFormat, document.specVersion,
        document.version, document.metadata, document.toolsObject, document.toolsArray,
        document.dependencies, document.vulnerabilities, document.componentsArray} = {Wanted}
         <=> /\ document.file = Wanted /\ document.root = Wanted
             /\ document.schema = Wanted /\ document.bomFormat = Wanted
             /\ document.specVersion = Wanted /\ document.version = Wanted
             /\ document.metadata = Wanted /\ document.toolsObject = Wanted
             /\ document.toolsArray = Wanted /\ document.dependencies = Wanted
             /\ document.vulnerabilities = Wanted /\ document.componentsArray = Wanted
    OBVIOUS
<1>14. FirstOf(DocumentErrors) \in Reason
    BY <1>3, <1>9, FirstOfReason
<1>15. QED
    BY <1>2, <1>4, <1>5, <1>6, <1>7, <1>10, <1>11, <1>12, <1>13, <1>14 DEF HeaderFits

\* A component as it is read.
Import == [name : Field, category : Field, version : Field, ref : Field, vendor : Field, purl : Field]

\* What has been read are the first components of the document, each of the verified
\* shape, under references of their own.
ReadInOrder ==
    /\ imported \in Seq(Import) /\ Len(imported) <= Len(document.components)
    /\ \A i \in DOMAIN imported : /\ imported[i] = ComponentOf(document.components[i])
                                  /\ ItemFits(document.components[i])
    /\ \A i, j \in DOMAIN imported : imported[i].ref = imported[j].ref => i = j

\* What stands at each stage of an import.
EmbaInv ==
    /\ document \in Documents
    /\ import \in {"file", "document", "components", "ok", "warning", "raised"}
    /\ ReadInOrder
    /\ import \in {"file", "document"} => imported = <<>>
    /\ import \in {"document", "components"} => document.file = Wanted
    /\ import \in {"components", "ok"} => HeaderFits
    /\ import \in {"file", "document", "components"} => error = None /\ findings = {}
    /\ import = "ok" => /\ Len(imported) = Len(document.components) /\ error = None
                        /\ findings = FindingsOf(imported)
    /\ import \in {"warning", "raised"} =>
          /\ ~Verified /\ error # None /\ imported = <<>> /\ findings = {}
          /\ import = "raised" <=> document.file \in Nat \ {Wanted}

\* What a document and its components are.
LEMMA DocumentTyped ==
    ASSUME document \in Documents
    PROVE  /\ document \in Document
           /\ document.components \in Seq(Item)
           /\ \A i \in DOMAIN document.components :
                /\ document.components[i] \in Item
                /\ ComponentOf(document.components[i]) \in Import
<1>1. document \in Document
    BY EmbaAssumption
<1>2. document.components \in Seq(Item)
    BY <1>1 DEF Document
<1>3. \A i \in DOMAIN document.components : document.components[i] \in Item
    BY <1>2
<1>4. ASSUME NEW item \in Item PROVE ComponentOf(item) \in Import
  <2>1. Blank \in Field
    BY DEF Field
  <2>2. \A f \in Field : Optional(f) \in Field
    BY <2>1 DEF Optional
  <2>3. QED
    BY <2>2 DEF ComponentOf, Import, Item
<1>5. QED
    BY <1>1, <1>2, <1>3, <1>4

LEMMA ImportStarts == EmbaInit => EmbaInv
<1> SUFFICES ASSUME EmbaInit PROVE EmbaInv
    OBVIOUS
<1>1. document \in Documents /\ imported = <<>> /\ import = "file" /\ error = None /\ findings = {}
    BY DEF EmbaInit, NothingRead
<1>2. Len(document.components) \in Nat
    BY <1>1, DocumentTyped
<1>3. imported \in Seq(Import) /\ Len(imported) = 0 /\ DOMAIN imported = {}
    BY <1>1
<1>4. ReadInOrder
    BY <1>2, <1>3 DEF ReadInOrder
<1>5. QED
    BY <1>1, <1>4 DEF EmbaInv

\* What is verified is the document's.
LEMMA DocumentStays ==
    ASSUME UNCHANGED document
    PROVE  HeaderFits' = HeaderFits /\ Verified' = Verified
  BY DEF Verified, HeaderFits, ComponentsFit

LEMMA RefuseKeeps ==
    ASSUME EmbaInv, UNCHANGED document, findings = {}, NEW reason, reason # None, Refuse(reason), ~Verified,
           reason = "uncaught" <=> document.file \in Nat \ {Wanted}
    PROVE  EmbaInv'
<1>1. /\ import' \in {"warning", "raised"} /\ error' # None /\ imported' = <<>> /\ findings' = {}
      /\ import' = "raised" <=> document.file \in Nat \ {Wanted}
    BY DEF Refuse
<1>2. ~Verified'
    BY DocumentStays
<1>3. document \in Documents /\ document' = document /\ Len(document.components) \in Nat
    BY DocumentTyped DEF EmbaInv
<1>4. imported' \in Seq(Import) /\ Len(imported') = 0 /\ DOMAIN imported' = {}
    BY <1>1
<1>5. ReadInOrder'
    BY <1>3, <1>4 DEF ReadInOrder
<1>6. QED
    BY <1>1, <1>2, <1>3, <1>5 DEF EmbaInv

LEMMA LoadKeeps == EmbaInv /\ LoadReport => EmbaInv'
<1> SUFFICES ASSUME EmbaInv, LoadReport PROVE EmbaInv'
    OBVIOUS
<1>1. /\ import = "file" /\ document' = document /\ document \in Documents
      /\ imported = <<>> /\ error = None /\ findings = {}
    BY DEF LoadReport, EmbaInv
<1>2. document.file \in Field
    BY <1>1, DocumentTyped DEF Document
<1>3. /\ FileError(document.file) = None <=> document.file = Wanted
      /\ FileError(document.file) = "uncaught" <=> document.file \in Nat \ {Wanted}
    BY <1>2, FileChecks
<1>4. CASE FileError(document.file) # None
  <2>1. Refuse(FileError(document.file)) /\ ~Verified
    BY <1>3, <1>4 DEF LoadReport, Verified, HeaderFits
  <2>2. QED
    BY <1>1, <1>3, <1>4, <2>1, RefuseKeeps
<1>5. CASE FileError(document.file) = None
  <2>1. import' = "document" /\ imported' = imported /\ error' = error /\ findings' = findings
    BY <1>5 DEF LoadReport
  <2>2. ReadInOrder'
    BY <1>1, <2>1 DEF ReadInOrder, EmbaInv
  <2>3. QED
    BY <1>1, <1>3, <1>5, <2>1, <2>2 DEF EmbaInv
<1>6. QED
    BY <1>4, <1>5

LEMMA CheckKeeps == EmbaInv /\ CheckDocument => EmbaInv'
<1> SUFFICES ASSUME EmbaInv, CheckDocument PROVE EmbaInv'
    OBVIOUS
<1>1. /\ import = "document" /\ document' = document /\ document \in Documents
      /\ document.file = Wanted /\ imported = <<>> /\ error = None /\ findings = {}
    BY DEF CheckDocument, EmbaInv
<1>2. /\ FirstOf(DocumentErrors) = None <=> HeaderFits
      /\ FirstOf(DocumentErrors) \in Reason
    BY <1>1, DocumentTyped, DocumentChecks
<1>3. CASE FirstOf(DocumentErrors) # None
  <2>1. Refuse(FirstOf(DocumentErrors)) /\ ~Verified
    BY <1>2, <1>3 DEF CheckDocument, Verified
  <2>2. FirstOf(DocumentErrors) # "uncaught" /\ document.file \notin Nat \ {Wanted}
    BY <1>1, <1>2 DEF Reason, None
  <2>3. QED
    BY <1>1, <1>3, <2>1, <2>2, RefuseKeeps
<1>4. CASE FirstOf(DocumentErrors) = None
  <2>1. import' = "components" /\ imported' = imported /\ error' = error /\ findings' = findings
    BY <1>4 DEF CheckDocument
  <2>2. HeaderFits'
    BY <1>1, <1>2, <1>4, DocumentStays
  <2>3. ReadInOrder'
    BY <1>1, <2>1 DEF ReadInOrder, EmbaInv
  <2>4. QED
    BY <1>1, <2>1, <2>2, <2>3 DEF EmbaInv
<1>5. QED
    BY <1>3, <1>4

LEMMA ReadKeeps == EmbaInv /\ ReadComponent => EmbaInv'
<1> SUFFICES ASSUME EmbaInv, ReadComponent PROVE EmbaInv'
    OBVIOUS
<1> DEFINE k == Len(imported) + 1
           item == document.components[k]
           reason == FirstOf(ComponentErrors(item))
<1>1. /\ import = "components" /\ document' = document /\ document \in Documents /\ HeaderFits
      /\ document.file = Wanted
      /\ Len(imported) < Len(document.components) /\ error = None /\ findings = {}
      /\ reason # None => Refuse(reason)
      /\ reason = None => /\ imported' = Append(imported, ComponentOf(item))
                          /\ UNCHANGED <<import, error, findings>>
    BY DEF ReadComponent, EmbaInv
<1>2. /\ imported \in Seq(Import)
      /\ \A i \in DOMAIN imported : /\ imported[i] = ComponentOf(document.components[i])
                                    /\ ItemFits(document.components[i])
      /\ \A i, j \in DOMAIN imported : imported[i].ref = imported[j].ref => i = j
    BY DEF EmbaInv, ReadInOrder
<1>3. document.components \in Seq(Item) /\ \A i \in DOMAIN document.components : ComponentOf(document.components[i]) \in Import
    BY <1>1, DocumentTyped
<1>4. /\ k \in DOMAIN document.components /\ DOMAIN imported = 1 .. Len(imported)
      /\ DOMAIN imported \subseteq DOMAIN document.components /\ k \notin DOMAIN imported
      /\ Len(imported) \in Nat /\ Len(document.components) \in Nat
    BY <1>1, <1>2, <1>3
<1> HIDE DEF k
<1>5. \A i : ComponentOf(document.components[i]).ref = document.components[i].ref
    BY DEF ComponentOf
<1>6. /\ reason = None <=> ItemFits(item) /\ ~SeenBefore(item.ref)
      /\ reason # "uncaught" /\ document.file \notin Nat \ {Wanted}
  <2>1. reason \in Reason
    BY ComponentChecks
  <2>2. QED
    BY <1>1, <2>1, ComponentChecks DEF Reason, None
<1> HIDE DEF item, reason
<1>7. CASE reason # None
  <2>1. CASE ~ItemFits(item)
    <3>1. ~ComponentsFit
        BY <1>4, <2>1 DEF ComponentsFit, item
    <3>2. QED
        BY <1>1, <1>6, <1>7, <3>1, RefuseKeeps DEF Verified
  <2>2. CASE SeenBefore(item.ref)
    <3>1. PICK j \in DOMAIN imported : imported[j].ref = item.ref
        BY <2>2 DEF SeenBefore
    <3>2. document.components[j].ref = document.components[k].ref /\ j # k
        BY <1>2, <1>4, <1>5, <3>1 DEF item
    <3>3. ~ComponentsFit
        BY <1>4, <3>2 DEF ComponentsFit
    <3>4. QED
        BY <1>1, <1>6, <1>7, <3>3, RefuseKeeps DEF Verified
  <2>3. QED
    BY <1>6, <1>7, <2>1, <2>2
<1>8. CASE reason = None
  <2>1. imported' = Append(imported, ComponentOf(item)) /\ UNCHANGED <<import, error, findings>>
    BY <1>1, <1>8
  <2>2. ComponentOf(item) \in Import
    BY <1>3, <1>4 DEF item
  <2>3. /\ imported' \in Seq(Import) /\ Len(imported') = k /\ DOMAIN imported' = 1 .. k
        /\ \A i \in DOMAIN imported : imported'[i] = imported[i]
        /\ imported'[k] = ComponentOf(item)
        /\ \A i \in DOMAIN imported' : i \in DOMAIN imported \/ i = k
    BY <1>2, <1>4, <2>1, <2>2 DEF k
  <2>4. Len(imported') <= Len(document'.components)
    BY <1>1, <1>4, <2>3 DEF k
  <2>5. ASSUME NEW i \in DOMAIN imported'
        PROVE  imported'[i] = ComponentOf(document'.components[i]) /\ ItemFits(document'.components[i])
    BY <1>1, <1>2, <1>6, <1>8, <2>3 DEF item
  <2>6. ASSUME NEW i \in DOMAIN imported', NEW j \in DOMAIN imported', imported'[i].ref = imported'[j].ref
        PROVE  i = j
    <3>1. imported'[k].ref = item.ref
        BY <1>5, <2>3 DEF item
    <3>2. \A n \in DOMAIN imported : imported[n].ref # item.ref
        BY <1>6, <1>8 DEF SeenBefore
    <3>3. QED
        BY <1>2, <2>3, <2>6, <3>1, <3>2
  <2>7. ReadInOrder'
    BY <2>3, <2>4, <2>5, <2>6 DEF ReadInOrder
  <2>8. HeaderFits'
    BY <1>1, DocumentStays
  <2>9. QED
    BY <1>1, <2>1, <2>7, <2>8 DEF EmbaInv
<1>9. QED
    BY <1>7, <1>8

LEMMA MatchKeeps == EmbaInv /\ MatchInventory => EmbaInv'
<1> SUFFICES ASSUME EmbaInv, MatchInventory PROVE EmbaInv'
    OBVIOUS
<1>1. /\ import = "components" /\ import' = "ok" /\ UNCHANGED <<document, imported, error>>
      /\ Len(imported) = Len(document.components) /\ findings' = FindingsOf(imported)
      /\ HeaderFits /\ error = None /\ document \in Documents
    BY DEF MatchInventory, EmbaInv
<1>2. ReadInOrder' /\ HeaderFits'
    BY <1>1, DocumentStays DEF ReadInOrder, EmbaInv
<1>3. FindingsOf(imported)' = FindingsOf(imported)
    BY <1>1 DEF FindingsOf, MatchesOf, ScoreOf, ScoresOf
<1>4. QED
    BY <1>1, <1>2, <1>3 DEF EmbaInv

LEMMA ImportInvariant == EmbaSpec => []EmbaInv
<1>1. ASSUME EmbaInv, UNCHANGED embaVars PROVE EmbaInv'
  <2>1. UNCHANGED <<document, imported, import, error, findings>>
    BY <1>1 DEF embaVars
  <2>2. HeaderFits' = HeaderFits /\ Verified' = Verified
    BY <2>1, DocumentStays
  <2>3. ReadInOrder'
    BY <1>1, <2>1 DEF ReadInOrder, EmbaInv
  <2>4. FindingsOf(imported)' = FindingsOf(imported)
    BY <2>1 DEF FindingsOf, MatchesOf, ScoreOf, ScoresOf
  <2>5. QED
    BY <1>1, <2>1, <2>2, <2>3, <2>4 DEF EmbaInv
<1>2. EmbaInv /\ [EmbaNext]_embaVars => EmbaInv'
    BY <1>1, LoadKeeps, CheckKeeps, ReadKeeps, MatchKeeps DEF EmbaNext, Imported
<1>3. QED
    BY <1>2, ImportStarts, PTL DEF EmbaSpec

\* Wherever a document departs from the shape EMBA writes, the first check that fails
\* ends the import with an error alone; otherwise all of it is imported, in order.
THEOREM ImportFailsClosed == EmbaSpec => []EmbaFailsClosed
<1>1. EmbaInv => EmbaFailsClosed
  <2> SUFFICES ASSUME EmbaInv PROVE EmbaFailsClosed
    OBVIOUS
  <2>1. ASSUME import = "ok"
        PROVE  /\ Verified /\ error = None
               /\ imported = [i \in DOMAIN document.components |-> ComponentOf(document.components[i])]
    <3>1. /\ HeaderFits /\ error = None /\ Len(imported) = Len(document.components)
          /\ imported \in Seq(Import) /\ document \in Documents
          /\ \A i \in DOMAIN imported : /\ imported[i] = ComponentOf(document.components[i])
                                        /\ ItemFits(document.components[i])
          /\ \A i, j \in DOMAIN imported : imported[i].ref = imported[j].ref => i = j
        BY <2>1 DEF EmbaInv, ReadInOrder
    <3>2. document.components \in Seq(Item)
        BY <3>1, DocumentTyped
    <3>3. DOMAIN imported = DOMAIN document.components
        BY <3>1, <3>2
    <3>4. imported = [i \in DOMAIN document.components |-> ComponentOf(document.components[i])]
        BY <3>1, <3>3
    <3>5. \A i \in DOMAIN imported : imported[i].ref = document.components[i].ref
        BY <3>1 DEF ComponentOf
    <3>6. ComponentsFit
        BY <3>1, <3>3, <3>5 DEF ComponentsFit
    <3>7. QED
        BY <3>1, <3>4, <3>6 DEF Verified
  <2>2. QED
    BY <2>1 DEF EmbaInv, EmbaFailsClosed
<1>2. QED
    BY <1>1, ImportInvariant, PTL

\* The findings are those of the matches, and each has the least PRisk of its release.
LEMMA ScoredFindings ==
    ASSUME NEW components \in Seq(Import), \A i \in DOMAIN components : Score(components[i]) \in Nat
    PROVE  /\ {<<f.component, f.cve>> : f \in FindingsOf(components)}
                = UNION {{i} \X Lookup(components[i]) : i \in DOMAIN components}
           /\ \A f \in FindingsOf(components) :
                LET own == components[f.component]
                    twins == {i \in MatchesOf(components) : SameRelease(components[i], own)}
                IN /\ f.prisk <= Score(own)
                   /\ twins = {f.component} => f.prisk = Score(own)
<1>1. \A f : f \in FindingsOf(components) <=>
         \E i \in MatchesOf(components) : \E cve \in Lookup(components[i]) :
            f = [component |-> i, cve |-> cve, prisk |-> ScoreOf(components, i)]
    BY DEF FindingsOf
<1>2. \A i \in DOMAIN components : i \in MatchesOf(components) <=> Lookup(components[i]) # {}
    BY DEF MatchesOf
<1>3. MatchesOf(components) \subseteq DOMAIN components
    BY DEF MatchesOf
<1>4. ASSUME NEW p
      PROVE  p \in {<<f.component, f.cve>> : f \in FindingsOf(components)}
                <=> p \in UNION {{i} \X Lookup(components[i]) : i \in DOMAIN components}
  <2>1. ASSUME p \in {<<f.component, f.cve>> : f \in FindingsOf(components)}
        PROVE  p \in UNION {{i} \X Lookup(components[i]) : i \in DOMAIN components}
    <3>1. PICK f \in FindingsOf(components) : p = <<f.component, f.cve>>
        BY <2>1
    <3>2. PICK i \in MatchesOf(components) : \E cve \in Lookup(components[i]) :
             f = [component |-> i, cve |-> cve, prisk |-> ScoreOf(components, i)]
        BY <1>1, <3>1
    <3>3. PICK cve \in Lookup(components[i]) :
             f = [component |-> i, cve |-> cve, prisk |-> ScoreOf(components, i)]
        BY <3>2
    <3>4. p = <<i, cve>> /\ i \in DOMAIN components /\ p \in {i} \X Lookup(components[i])
        BY <1>3, <3>1, <3>3
    <3>5. QED
        BY <3>4
  <2>2. ASSUME p \in UNION {{i} \X Lookup(components[i]) : i \in DOMAIN components}
        PROVE  p \in {<<f.component, f.cve>> : f \in FindingsOf(components)}
    <3>1. PICK i \in DOMAIN components : p \in {i} \X Lookup(components[i])
        BY <2>2
    <3>2. PICK cve \in Lookup(components[i]) : p = <<i, cve>>
        BY <3>1
    <3> DEFINE f == [component |-> i, cve |-> cve, prisk |-> ScoreOf(components, i)]
    <3>3. f \in FindingsOf(components)
        BY <1>1, <1>2, <3>2
    <3>4. <<f.component, f.cve>> = p
        BY <3>2
    <3> HIDE DEF f
    <3>5. QED
        BY <3>3, <3>4
  <2>3. QED
    BY <2>1, <2>2
<1>5. ASSUME NEW f \in FindingsOf(components)
      PROVE  LET own == components[f.component]
                 twins == {i \in MatchesOf(components) : SameRelease(components[i], own)}
             IN /\ f.prisk <= Score(own)
                /\ twins = {f.component} => f.prisk = Score(own)
  <2> DEFINE own == components[f.component]
             twins == {i \in MatchesOf(components) : SameRelease(components[i], own)}
             scores == ScoresOf(components, f.component)
  <2>1. f.component \in MatchesOf(components) /\ f.prisk = FSX!Min(scores)
    BY <1>1 DEF ScoreOf
  <2>2. scores = {Score(components[j]) : j \in twins}
    BY DEF ScoresOf
  <2>3. f.component \in twins /\ twins \subseteq DOMAIN components
    BY <1>3, <2>1 DEF SameRelease
  <2> HIDE DEF twins
  <2>4. scores \in SUBSET Nat /\ Score(own) \in scores
    BY <2>2, <2>3
  <2> HIDE DEF scores
  <2>5. f.prisk \in scores /\ f.prisk <= Score(own)
    <3>1. FSX!Min(scores) \in scores /\ FSX!Min(scores) <= Score(own)
        BY <2>4, LeastOf
    <3>2. QED
        BY <2>1, <3>1
  <2>6. twins = {f.component} => scores = {Score(own)}
    BY <2>2
  <2>7. QED
    BY <2>5, <2>6 DEF twins
<1>6. QED
    BY <1>4, <1>5

\* Every CVE of an imported component becomes one finding, whose PRisk is never above
\* that of the component, whatever other components share its name and version.
THEOREM ImportScored == EmbaSpec => []FindingsScored
<1>1. EmbaInv => FindingsScored
  <2> SUFFICES ASSUME EmbaInv, import = "ok" PROVE FindingsScored
    BY DEF FindingsScored
  <2>1. /\ findings = FindingsOf(imported) /\ Len(imported) = Len(document.components)
        /\ imported \in Seq(Import) /\ document \in Documents
        /\ \A i \in DOMAIN imported : imported[i] = ComponentOf(document.components[i])
    BY DEF EmbaInv, ReadInOrder
  <2>2. DOMAIN imported = DOMAIN document.components
    BY <2>1, DocumentTyped
  <2>3. \A i \in DOMAIN imported : Score(imported[i]) \in Nat
    BY <2>1, <2>2, EmbaAssumption
  <2>4. QED
    BY <2>1, <2>3, ScoredFindings DEF FindingsScored
<1>2. QED
    BY <1>1, ImportInvariant, PTL
=============================================================================
