------------------------------ MODULE Gateway ------------------------------
(***************************************************************************)
(* One request of the gateway adapter: gateway_envelope.py.                *)
(*                                                                         *)
(* A payload names a local image or a URL.  The image is located or        *)
(* downloaded (hop by hop, into a temporary directory, with a size limit), *)
(* unpacked (module Unpack), and its inventory answered; whatever fails is *)
(* to be answered as a warning.  The two entries are                       *)
(* scan_payload_to_envelope ("scan") and components_from_payload           *)
(* ("inventory"), which do not catch the same exceptions.                  *)
(***************************************************************************)
EXTENDS Unpack

CONSTANTS MaxRedirects,     \* MAX_REDIRECTS
          MaxFirmware,      \* MAX_FIRMWARE_BYTES
          MaxChunk          \* bound on the length of a chunk

ASSUME GatewayAssumption ==
    MaxRedirects \in Nat /\ MaxFirmware \in Nat /\ MaxChunk \in Nat \ {0}

VARIABLES
    \* the request
    entry,          \* "scan" or "inventory"
    clientGiven,    \* whether the caller passes an HTTP client
    suffix,         \* ".bin" or "archive"
    \* its processing
    pc,
    source,         \* "none", "path" or "url"
    checked,        \* whether _validate_url has passed the current URL
    requests,       \* requests made so far
    stored,         \* bytes of the download on disk
    file,           \* "none", "partial" or "whole"
    httpClient,     \* "none", "open" or "closed", if it is our own
    gatewayDir,     \* whether the directory of the download exists
    reply,          \* [kind, cause] of the answer, or of the exception raised
    strayed         \* history variable: a URL was requested unchecked

request == <<entry, clientGiven, suffix>>
download == <<checked, requests, stored, file, httpClient, gatewayDir, strayed>>
vars == <<unpackVars, request, pc, source, download, reply>>

NoReply == [kind |-> "none", cause |-> "none"]

Init ==
    /\ UnpackInit
    /\ entry \in {"scan", "inventory"}
    /\ clientGiven \in BOOLEAN
    /\ suffix \in {".bin", "archive"}
    /\ pc = "payload" /\ source = "none"
    /\ checked = FALSE /\ requests = 0 /\ stored = 0 /\ file = "none"
    /\ httpClient = "none" /\ gatewayDir = FALSE /\ strayed = FALSE
    /\ reply = NoReply

-----------------------------------------------------------------------------
(* How a request ends.                                                      *)

\* Exceptions by the handler they meet.  GatewayPayloadError is a ValueError;
\* "ParseError" stands for tarfile.TarError, yaml.YAMLError and the ValueErrors of
\* a parser or of a tool's undecodable output; "unlisted" for every exception no handler
\* names (AttributeError of a manifest that is not a mapping, EOFError, httpx.InvalidURL).
UnpackErrors == {"too large", "no inventory", "not a file"}
Listed == UnpackErrors \cup {"GatewayPayloadError", "OSError", "ValueError", "ParseError"}

\* What the handler around materialize_firmware catches.
CaughtOutside == IF entry = "scan" THEN {"GatewayPayloadError", "OSError"} ELSE Listed

\* What the handler in scan_path_to_envelope catches before it.
CaughtInside == IF entry = "scan" THEN Listed \ {"GatewayPayloadError"} ELSE {}

\* Mutant of CleanUp: the own client stays open.
KeepClient ==
    /\ gatewayDir' = FALSE
    /\ UNCHANGED httpClient

\* The with block of the temporary directory and the finally of the download.
CleanUp ==
    /\ gatewayDir' = FALSE
    /\ httpClient' = IF httpClient = "open" THEN "closed" ELSE httpClient

Answer(kind, cause) ==
    /\ reply' = [kind |-> kind, cause |-> cause]
    /\ pc' = "over"
    /\ CleanUp

\* An exception while the image is located or downloaded.
Fail(cause) == Answer(IF cause \in CaughtOutside THEN "warning" ELSE "raised", cause)

\* An exception while it is parsed.
FailParsing(cause) ==
    Answer(IF cause \in CaughtInside \cup CaughtOutside THEN "warning" ELSE "raised", cause)

-----------------------------------------------------------------------------
(* _parse_payload and materialize_firmware.                                 *)

\* Not an object, not exactly one string, or a URL that is refused; resolving the
\* path or splitting the URL may raise a ValueError of its own.
RefusePayload ==
    /\ pc = "payload"
    /\ \E cause \in {"GatewayPayloadError", "ValueError"} : Fail(cause)
    /\ UNCHANGED <<unpackVars, request, source, checked, requests, stored, file, strayed>>

AcceptPath ==
    /\ pc = "payload"
    /\ source' = "path"
    /\ pc' = "locate"
    /\ UNCHANGED <<unpackVars, request, download, reply>>

AcceptUrl ==
    /\ pc = "payload"
    /\ source' = "url"
    /\ checked' = TRUE
    /\ gatewayDir' = TRUE
    /\ httpClient' = IF clientGiven THEN "none" ELSE "open"
    /\ pc' = "request"
    /\ UNCHANGED <<unpackVars, request, requests, stored, file, strayed, reply>>

\* Missing, not a file, or larger than the limit.
Locate ==
    /\ pc = "locate"
    /\ \/ /\ \E cause \in {"GatewayPayloadError", "OSError"} : Fail(cause)
          /\ UNCHANGED file
       \/ /\ pc' = "parse" /\ file' = "whole"
          /\ UNCHANGED <<httpClient, gatewayDir, reply>>
    /\ UNCHANGED <<unpackVars, request, source, checked, requests, stored, strayed>>

-----------------------------------------------------------------------------
(* _download_firmware and _stream_to_disk.                                  *)

MoreRequests == requests <= MaxRedirects

\* The request is sent: its answer is a redirect, a failure or a body.
Request ==
    /\ pc = "request"
    /\ MoreRequests
    /\ requests' = requests + 1
    /\ strayed' = (strayed \/ ~checked)
    /\ pc' = "response"
    /\ UNCHANGED <<unpackVars, request, source, checked, stored, file, httpClient, gatewayDir,
                   reply>>

\* httpx itself refuses the URL.
RequestRefused ==
    /\ pc = "request"
    /\ MoreRequests
    /\ Fail("unlisted")
    /\ UNCHANGED <<unpackVars, request, source, checked, requests, stored, file, strayed>>

TooManyRedirects ==
    /\ pc = "request"
    /\ ~MoreRequests
    /\ Fail("GatewayPayloadError")
    /\ UNCHANGED <<unpackVars, request, source, checked, requests, stored, file, strayed>>

\* Mutant of Follow: only the first URL is checked.
FollowUnchecked ==
    /\ checked' = FALSE
    /\ pc' = "request"
    /\ UNCHANGED <<reply, httpClient, gatewayDir>>

\* The location is joined to the current URL and checked like the first one.
Follow ==
    \/ /\ checked' = TRUE
       /\ pc' = "request"
       /\ UNCHANGED <<reply, httpClient, gatewayDir>>
    \/ /\ \E cause \in {"GatewayPayloadError", "ValueError"} : Fail(cause)
       /\ checked' = FALSE

Redirected ==
    /\ pc = "response"
    /\ Follow
    /\ UNCHANGED <<unpackVars, request, source, requests, stored, file, strayed>>

\* No location, an error status or a failing transport, before or in the body; or
\* a disk that cannot be written.
DownloadFails ==
    /\ pc \in {"response", "body"}
    /\ \E cause \in {"GatewayPayloadError", "OSError"} : Fail(cause)
    /\ UNCHANGED <<unpackVars, request, source, checked, requests, stored, file, strayed>>

Body ==
    /\ pc = "response"
    /\ pc' = "body"
    /\ file' = "partial"
    /\ UNCHANGED <<unpackVars, request, source, checked, requests, stored, httpClient,
                   gatewayDir, strayed, reply>>

\* Mutant of Within: the limit is tested before the chunk is added.
WithinBefore(length) == stored <= MaxFirmware
Within(length) == stored + length <= MaxFirmware

Chunk ==
    /\ pc = "body"
    /\ \E length \in 1 .. MaxChunk :
          \/ /\ Within(length)
             /\ stored' = stored + length
             /\ UNCHANGED <<pc, reply, httpClient, gatewayDir>>
          \/ /\ ~Within(length)
             /\ Fail("GatewayPayloadError")
             /\ UNCHANGED stored
    /\ UNCHANGED <<unpackVars, request, source, checked, requests, file, strayed>>

\* The body ends; our own client is closed, the directory stays for the scan.
Downloaded ==
    /\ pc = "body"
    /\ file' = "whole"
    /\ httpClient' = IF httpClient = "open" THEN "closed" ELSE httpClient
    /\ pc' = "parse"
    /\ UNCHANGED <<unpackVars, request, source, checked, requests, stored, gatewayDir,
                   strayed, reply>>

-----------------------------------------------------------------------------
(* _parse_components and scan_path_to_envelope.                             *)

ParseBin ==
    /\ pc = "parse" /\ suffix = ".bin"
    /\ pc' = "unpacking"
    /\ UNCHANGED <<unpackVars, request, source, download, reply>>

Unpacking ==
    /\ pc = "unpacking"
    /\ UnpackStep
    /\ UNCHANGED <<request, pc, source, download, reply>>

\* Components are matched with the mock source and scored; nothing here fails.
Inventory == Answer("ok", "none")

\* Only FirmwareUnpackError is followed by the other parsers.
Unpacked ==
    /\ pc = "unpacking" /\ step = "over"
    /\ \/ unpacked = "components" /\ Inventory
       \/ /\ unpacked \in UnpackErrors
          /\ pc' = "sidecar"
          /\ UNCHANGED <<reply, httpClient, gatewayDir>>
       \/ unpacked \in {"OSError", "ParseError", "unlisted"} /\ FailParsing(unpacked)
    /\ UNCHANGED <<unpackVars, request, source, checked, requests, stored, file, strayed>>

\* The OpenWrt manifest beside the image, which a download does not have.
Sidecar ==
    /\ pc = "sidecar"
    /\ \/ source = "path" /\ (Inventory \/ FailParsing("OSError"))
       \/ pc' = "archive" /\ UNCHANGED <<reply, httpClient, gatewayDir>>
    /\ UNCHANGED <<unpackVars, request, source, checked, requests, stored, file, strayed>>

\* Mutant of AfterUnpack: the exception of the last parser replaces the first one.
LastException(cause) == cause

\* "raise unpack_error from None".
AfterUnpack(cause) == IF cause = "unlisted" THEN cause ELSE unpacked

\* parse_firmware_file, on its own or as the last resort after unpacking.
ParseArchive ==
    /\ \/ pc = "archive"
       \/ pc = "parse" /\ suffix = "archive"
    /\ \/ Inventory
       \/ \E cause \in {"OSError", "ParseError", "unlisted"} :
             FailParsing(IF pc = "archive" THEN AfterUnpack(cause) ELSE cause)
    /\ UNCHANGED <<unpackVars, request, source, checked, requests, stored, file, strayed>>

-----------------------------------------------------------------------------

Over == pc = "over"
Ended == Over /\ UNCHANGED vars

Step ==
    \/ RefusePayload \/ AcceptPath \/ AcceptUrl \/ Locate
    \/ Request \/ RequestRefused \/ TooManyRedirects \/ Redirected
    \/ DownloadFails \/ Body \/ Chunk \/ Downloaded
    \/ ParseBin \/ Unpacking \/ Unpacked \/ Sidecar \/ ParseArchive

Next == Step \/ Ended

Spec == Init /\ [][Next]_vars

\* The request runs in one thread; tools and transfers have timeouts, and a body
\* that has filled the limit cannot go on.
FairSpec == Spec /\ WF_vars(Step)

-----------------------------------------------------------------------------

\* Every URL is checked before it is requested, the first and each one a server
\* redirects to ("each hop is validated", _download_firmware).
HopsChecked == ~strayed

\* Only a whole image within the limit is parsed, and it is there as long as it
\* is: the download has ended and its directory has not been removed.
WholeImageParsed ==
    pc \in {"parse", "unpacking", "sidecar", "archive"} =>
        file = "whole" /\ stored <= MaxFirmware /\ (source = "url" => gatewayDir)

\* However a request ends, the temporary directories of the download and of the
\* extraction are gone and our own HTTP client is closed.
NothingLeft == Over => ~gatewayDir /\ ~tempDir /\ httpClient # "open"

\* What fails is answered.  An exception reaches the caller only if no handler names
\* it, and with the envelope moreover for a ValueError raised before there is an
\* image; and when every parser has failed, the answer names the failure of
\* unpacking, which says what is wrong with the image, and not the last resort's.
FailureAnswered ==
    /\ reply.kind = "raised" =>
          \/ reply.cause = "unlisted"
          \/ entry = "scan" /\ reply.cause = "ValueError" /\ file # "whole"
    /\ Over /\ unpacked \in UnpackErrors /\ reply.kind = "warning" =>
          \/ reply.cause = unpacked
          \/ reply.cause = "OSError" /\ source = "path"

\* Every request is answered.
RequestEnds == <>Over
=============================================================================
