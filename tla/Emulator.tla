------------------------------ MODULE Emulator ------------------------------
(***************************************************************************)
(* emulate_firmware (emulator.py): the docker client runs a shell script   *)
(* in a container.  The script starts the firmware's init under `timeout`, *)
(* sleeps, lists processes and listening ports, waits for init and prints  *)
(* its status.  The caller waits for the client, and kills it when it      *)
(* takes longer than Timeout + Grace; the container is the daemon's.       *)
(*                                                                         *)
(* The clock counts from the start of the client, and never passes the     *)
(* time at which a step is due.  The docker command line, paths and        *)
(* addresses are left out: a service stands for its process and its port.  *)
(***************************************************************************)
EXTENDS Integers, Sequences, FiniteSets

CONSTANTS
    Timeouts, Settles,  \* values of emulation_timeout_s and settle_s
    Grace,              \* what the caller adds to the timeout: 30
    Service,            \* services the init of the firmware may start
    Junk,               \* a line that does not parse
    MaxNow              \* bound of the clock

ASSUME EmulatorAssumption ==
    /\ Timeouts \subseteq Int /\ Settles \subseteq Int
    /\ Grace \in Nat /\ MaxNow \in Nat
    /\ IsFiniteSet(Service)
    /\ Junk \notin Service \cup {"init"}

VARIABLES
    timeout, settle,    \* the arguments
    now,
    call,               \* "start", "running", "returned", or how it raised
    container,          \* "none", "starting", "up", or its exit status
    born,               \* when the container came up
    init,               \* "none", "running", "ended" or "stopped" by timeout
    deaf,               \* init ignores SIGTERM
    script,             \* where the script of the container is
    services,           \* the services that are running and listening
    output,             \* the lines on the client's standard output
    result,             \* processes, ports and status of the EmulationResult
    seen                \* history variable: what was there when it was listed

Larger(a, b) == IF a >= b THEN a ELSE b

args == <<timeout, settle>>
vars == <<args, now, call, container, born, init, deaf, script, services, output, result, seen>>

NoResult == [processes |-> <<>>, ports |-> <<>>, status |-> "none"]

Init ==
    /\ timeout \in Timeouts /\ settle \in Settles
    /\ now = 0 /\ call = "start"
    /\ container = "none" /\ born = 0 /\ init = "none" /\ deaf \in BOOLEAN
    /\ script = "none" /\ services = {} /\ output = <<>>
    /\ result = NoResult /\ seen = NoResult

-----------------------------------------------------------------------------
(* Parsing the output.                                                      *)

Marker(name) == [marker |-> name, item |-> name]
Line(item) == [marker |-> "none", item |-> item]
Lines(items) == [i \in DOMAIN items |-> Line(items[i])]

Has(lines, name) == \E i \in DOMAIN lines : lines[i].marker = name
Position(lines, name) ==
    CHOOSE i \in DOMAIN lines : /\ lines[i].marker = name
                                /\ \A j \in 1 .. i - 1 : lines[j].marker # name

\* Mutant of Section: up to the end of the output.
SectionToTheEnd(lines, start, end) ==
    SubSeq(lines, Position(lines, start) + 1, Len(lines))

\* The lines between two markers.
Section(lines, start, end) ==
    LET last == IF Has(lines, end) THEN Position(lines, end) - 1 ELSE Len(lines)
    IN SubSeq(lines, Position(lines, start) + 1, last)

\* Those of them that parse.
Parse(items, line) == IF line.item = Junk THEN items ELSE Append(items, line.item)
Items(lines) ==
    LET items[n \in 0 .. Len(lines)] == IF n = 0 THEN <<>> ELSE Parse(items[n - 1], lines[n])
    IN items[Len(lines)]

Whole(lines) == \A name \in {"processes", "ports", "status"} : Has(lines, name)

Parsed(lines) ==
    [processes |-> Items(Section(lines, "processes", "ports")),
     ports |-> Items(Section(lines, "ports", "status")),
     status |-> lines[Position(lines, "status")].item]

-----------------------------------------------------------------------------
(* The caller.                                                              *)

\* Mutants of Deadline: no more than init may take; none at all.
NoGrace == timeout
NoDeadline == MaxNow + 1
Deadline == timeout + Grace

\* build_docker_command refuses its arguments, also for the path of the rootfs or
\* of init and for an unknown architecture.
Refuse ==
    /\ call = "start"
    /\ call' = "refused"
    /\ UNCHANGED <<args, now, container, born, init, deaf, script, services, output, result, seen>>

Launch ==
    /\ call = "start"
    /\ timeout > 0 /\ settle >= 0
    /\ \/ call' = "running" /\ container' = "starting"
       \/ call' = "no docker" /\ UNCHANGED container
    /\ UNCHANGED <<args, now, born, init, deaf, script, services, output, result, seen>>

\* subprocess.run kills the client, not the container.
CallerTimesOut ==
    /\ call = "running"
    /\ now >= Deadline
    /\ call' = "timed out"
    /\ UNCHANGED <<args, now, container, born, init, deaf, script, services, output, result, seen>>

\* The client exits when the container does, with its status.
ClientExits ==
    /\ call = "running"
    /\ container \in {"exited", "failed"}
    /\ \/ container = "failed" /\ call' = "status" /\ UNCHANGED result
       \/ /\ container = "exited" /\ Whole(output)
          /\ call' = "returned" /\ result' = Parsed(output)
       \/ container = "exited" /\ ~Whole(output) /\ call' = "garbled" /\ UNCHANGED result
    /\ UNCHANGED <<args, now, container, born, init, deaf, script, services, output, seen>>

-----------------------------------------------------------------------------
(* The container.                                                           *)

\* The image is there or has been pulled; the daemon may go on without the client.
ContainerUp ==
    /\ container = "starting"
    /\ now + Larger(timeout, settle) <= MaxNow    \* bound: what follows fits the clock
    /\ container' = "up" /\ born' = now
    /\ init' = "running" /\ script' = "settling"
    /\ UNCHANGED <<args, now, call, deaf, services, output, result, seen>>

\* No image, no memory, a crash of the daemon.
ContainerFails ==
    /\ container \in {"starting", "up"}
    /\ container' = "failed"
    /\ services' = {}
    /\ UNCHANGED <<args, now, call, born, init, deaf, script, output, result, seen>>

\* Init starts and stops services, and they may outlive it; what they do after
\* the listing is not looked at.
Serve ==
    /\ container = "up" /\ script \in {"settling", "ports"}
    /\ services' \in SUBSET Service
    /\ services' # services
    /\ UNCHANGED <<args, now, call, container, born, init, deaf, script, output, result, seen>>

InitEnds ==
    /\ container = "up" /\ init = "running"
    /\ init' = "ended"
    /\ UNCHANGED <<args, now, call, container, born, deaf, script, services, output, result, seen>>

TimeIsUp == now >= born + timeout

\* `timeout` sends SIGTERM, once.
StopInit ==
    /\ container = "up" /\ init = "running" /\ ~deaf
    /\ TimeIsUp
    /\ init' = "stopped"
    /\ services' \in SUBSET services
    /\ UNCHANGED <<args, now, call, container, born, deaf, script, output, result, seen>>

-----------------------------------------------------------------------------
(* Its script.                                                              *)

Alive == services \cup {"init" : i \in {i \in {init} : i = "running"}}
Listing(set) ==
    CHOOSE items \in [1 .. Cardinality(set) -> set] :
        \A i, j \in DOMAIN items : i # j => items[i] # items[j]

\* A listing, or nothing when its command cannot be run: its status is not looked at.
Printed(set) == {Listing(set), <<>>}

ListProcesses ==
    /\ container = "up" /\ script = "settling"
    /\ now >= born + settle
    /\ \E items \in Printed(Alive) :
          /\ output' = <<Marker("processes")>> \o Lines(items)
          /\ seen' = [seen EXCEPT !.processes = items]
    /\ script' = "ports"
    /\ UNCHANGED <<args, now, call, container, born, init, deaf, services, result>>

ListPorts ==
    /\ container = "up" /\ script = "ports"
    /\ \E items \in Printed(services), odd \in {<<>>, <<Junk>>} :
          /\ output' = output \o <<Marker("ports")>> \o Lines(odd \o items)
          /\ seen' = [seen EXCEPT !.ports = items]
    /\ script' = "waiting"
    /\ UNCHANGED <<args, now, call, container, born, init, deaf, services, result>>

\* Mutant of InitOver: the script does not wait.
NotAwaited == TRUE
InitOver == init # "running"

\* wait, then the status on the line of its marker; the container ends with exit 0.
PrintStatus ==
    /\ container = "up" /\ script = "waiting"
    /\ InitOver
    /\ output' = Append(output, [marker |-> "status", item |-> init])
    /\ seen' = [seen EXCEPT !.status = init]
    /\ container' = "exited" /\ services' = {}
    /\ UNCHANGED <<args, now, call, born, init, deaf, script, result>>

-----------------------------------------------------------------------------

\* What does not wait for the clock.
Due ==
    \/ container = "up" /\ script = "settling" /\ now >= born + settle
    \/ container = "up" /\ script = "ports"
    \/ container = "up" /\ script = "waiting" /\ InitOver
    \/ container = "up" /\ init = "running" /\ ~deaf /\ TimeIsUp
    \/ call = "running" /\ now >= Deadline
    \/ call = "running" /\ container \in {"exited", "failed"}

Tick ==
    /\ call # "start" /\ now < MaxNow
    /\ ~Due
    /\ now' = now + 1
    /\ UNCHANGED <<args, call, container, born, init, deaf, script, services, output, result, seen>>

Over == call \notin {"start", "running"}
Ended == Over /\ UNCHANGED vars

\* What runs by itself: the caller, the script, `timeout` and the clock.
Run ==
    \/ CallerTimesOut \/ ClientExits
    \/ StopInit \/ ListProcesses \/ ListPorts \/ PrintStatus
    \/ Tick

\* What the user, docker and the firmware do.
Environment == Refuse \/ Launch \/ ContainerUp \/ ContainerFails \/ Serve \/ InitEnds

Next == Run \/ Environment \/ Ended

Spec == Init /\ [][Next]_vars

FairSpec == Spec /\ WF_vars(Run)

-----------------------------------------------------------------------------

Status == {"none", "running", "ended", "stopped"}

TypeOK ==
    /\ timeout \in Timeouts /\ settle \in Settles
    /\ now \in Nat /\ born \in Nat /\ born <= now
    /\ call \in {"start", "running", "returned", "refused", "no docker", "timed out",
                 "status", "garbled"}
    /\ container \in {"none", "starting", "up", "exited", "failed"}
    /\ init \in Status /\ deaf \in BOOLEAN
    /\ script \in {"none", "settling", "ports", "waiting"}
    /\ services \subseteq Service

\* The three parts of a result come out of one stream of lines; each is what was
\* listed at its moment, nothing of the others, and the status is how init ended.
TelemetryTrue == call = "returned" => result = seen /\ result.status \in {"ended", "stopped"}

\* A call that is over leaves no container behind, unless it timed out: then only
\* the client is killed.  And nothing is running any more behind a result.
ContainerLeft ==
    /\ Over /\ container \in {"starting", "up"} => call = "timed out"
    /\ call = "returned" => container = "exited" /\ init # "running" /\ services = {}

\* A call times out only for a reason: init ignores the signal, or the container was
\* not up in time for settling and init within Grace of the timeout.  With a
\* settle_s within the timeout that means it took Grace to come up.
TimeoutExplained ==
    [][call = "running" /\ call' = "timed out" =>
          \/ deaf \/ init = "none"
          \/ born + Larger(timeout, settle) >= timeout + Grace]_vars

\* The call ends, whatever docker and the firmware do, and so does the container of an
\* init that obeys its signal.
EmulationEnds ==
    /\ (call = "running") ~> Over
    /\ (container = "up" /\ ~deaf) ~> (container \in {"exited", "failed"})
=============================================================================
