--------------------------- MODULE EmulatorProofs ---------------------------
(***************************************************************************)
(* For any timeouts, settling times and services, an emulation that times  *)
(* out has a reason, a call that is over leaves no container unless it     *)
(* timed out, and a result says what was there (emulator.py).  The first   *)
(* two rest on where container and init stand for each state of the call,  *)
(* and the first also on the clock: as long as the call runs and init      *)
(* obeys, no time passes in which the script or `timeout` had something to *)
(* do.  The last rests on what the script has printed so far, and on an    *)
(* induction over the lines of a section for what the parser makes of it.  *)
(*                                                                         *)
(* Then the attack chain, which is told of the listeners of an emulation   *)
(* as evidence of a finding (attack_chain.py): for any findings and        *)
(* whatever the agents return, it claims no more than they do.             *)
(***************************************************************************)
EXTENDS Emulator, AttackChain, SequenceTheorems, FiniteSetTheorems, NaturalsInduction,
        WellFoundedInduction, TLAPS

\* Where the container and its init stand.
Places ==
    /\ call \in {"start", "refused", "no docker"} <=> container = "none"
    /\ container \in {"none", "starting"} => init = "none"
    /\ container = "up" => init # "none" /\ script # "none"
    /\ container = "exited" => init \in {"ended", "stopped"} /\ services = {}
    /\ call = "returned" => container = "exited"
    /\ call \in {"status", "garbled"} => container \in {"exited", "failed"}
    /\ container # "none" => timeout > 0

\* The clock waits for an init that obeys and for its script.
InTime ==
    call = "running" /\ ~deaf /\ init # "none" => now <= born + Larger(timeout, settle)

\* What every step keeps.
IInv == TypeOK /\ Places /\ InTime

-----------------------------------------------------------------------------

\* The arguments are integers, and the larger one is one of them.
LEMMA Arguments ==
    ASSUME TypeOK
    PROVE  /\ timeout \in Int /\ settle \in Int
           /\ Larger(timeout, settle) \in Int
           /\ Larger(timeout, settle) >= timeout /\ Larger(timeout, settle) >= settle
<1>1. timeout \in Int /\ settle \in Int
    BY EmulatorAssumption DEF TypeOK
<1>2. QED
    BY <1>1 DEF Larger

\* The clock is a natural number, and so is the moment the container came up.
LEMMA Clock ==
    ASSUME TypeOK
    PROVE  now \in Nat /\ born \in Nat /\ born <= now
BY Zenon DEF TypeOK

\* A step keeps the types.
LEMMA StepKeepsTypes ==
    ASSUME TypeOK, [Next]_vars
    PROVE  TypeOK'
<1>1. CASE Refuse
    BY <1>1 DEF Refuse, args, TypeOK, Status
<1>2. CASE Launch
    BY <1>2 DEF Launch, args, TypeOK, Status
<1>3. CASE CallerTimesOut
    BY <1>3 DEF CallerTimesOut, Deadline, args, TypeOK, Status
<1>4. CASE ClientExits
    BY <1>4 DEF ClientExits, args, TypeOK, Status
<1>5. CASE ContainerUp
  <2>1. now' \in Nat /\ born' \in Nat /\ born' <= now'
    BY <1>5, Clock DEF ContainerUp
  <2>2. QED
    BY <1>5, <2>1, Zenon DEF ContainerUp, args, TypeOK, Status
<1>6. CASE ContainerFails
    BY <1>6 DEF ContainerFails, args, TypeOK, Status
<1>7. CASE Serve
    BY <1>7 DEF Serve, args, TypeOK, Status
<1>8. CASE InitEnds
    BY <1>8 DEF InitEnds, args, TypeOK, Status
<1>9. CASE StopInit
    BY <1>9 DEF StopInit, args, TypeOK, Status
<1>10. CASE ListProcesses
    BY <1>10 DEF ListProcesses, args, TypeOK, Status
<1>11. CASE ListPorts
    BY <1>11 DEF ListPorts, args, TypeOK, Status
<1>12. CASE PrintStatus
    BY <1>12 DEF PrintStatus, InitOver, args, TypeOK, Status
<1>13. CASE Tick
  <2>1. now' \in Nat /\ born' \in Nat /\ born' <= now'
    BY <1>13, Clock DEF Tick
  <2>2. QED
    BY <1>13, <2>1, Zenon DEF Tick, args, TypeOK
<1>14. CASE UNCHANGED vars
    BY <1>14 DEF vars, args, TypeOK, Status
<1>15. QED
    BY <1>1, <1>2, <1>3, <1>4, <1>5, <1>6, <1>7, <1>8, <1>9, <1>10, <1>11, <1>12, <1>13, <1>14 DEF Next, Run, Environment, Ended

\* Every step moves call, container and init together.
LEMMA StepKeepsPlaces ==
    ASSUME TypeOK, Places, [Next]_vars
    PROVE  Places'
<1>1. CASE Refuse
    BY <1>1 DEF Refuse, args, Places, TypeOK, Status
<1>2. CASE Launch
    BY <1>2 DEF Launch, args, Places, TypeOK, Status
<1>3. CASE CallerTimesOut
    BY <1>3 DEF CallerTimesOut, Deadline, args, Places, TypeOK, Status
<1>4. CASE ClientExits
    BY <1>4 DEF ClientExits, args, Places, TypeOK, Status
<1>5. CASE ContainerUp
    BY <1>5 DEF ContainerUp, args, Places, TypeOK, Status
<1>6. CASE ContainerFails
    BY <1>6 DEF ContainerFails, args, Places, TypeOK, Status
<1>7. CASE Serve
    BY <1>7 DEF Serve, args, Places, TypeOK, Status
<1>8. CASE InitEnds
    BY <1>8 DEF InitEnds, args, Places, TypeOK, Status
<1>9. CASE StopInit
    BY <1>9 DEF StopInit, args, Places, TypeOK, Status
<1>10. CASE ListProcesses
    BY <1>10 DEF ListProcesses, args, Places, TypeOK, Status
<1>11. CASE ListPorts
    BY <1>11 DEF ListPorts, args, Places, TypeOK, Status
<1>12. CASE PrintStatus
    BY <1>12 DEF PrintStatus, InitOver, args, Places, TypeOK, Status
<1>13. CASE Tick
    BY <1>13 DEF Tick, args, Places, TypeOK, Status
<1>14. CASE UNCHANGED vars
    BY <1>14 DEF vars, args, Places, TypeOK, Status
<1>15. QED
    BY <1>1, <1>2, <1>3, <1>4, <1>5, <1>6, <1>7, <1>8, <1>9, <1>10, <1>11, <1>12, <1>13, <1>14 DEF Next, Run, Environment, Ended

\* No step lets the clock pass what init and its script may take.
LEMMA StepKeepsInTime ==
    ASSUME TypeOK, Places, InTime, [Next]_vars
    PROVE  InTime'
<1>1. CASE Refuse
    BY <1>1 DEF Refuse, args, InTime
<1>2. CASE Launch
    BY <1>2 DEF Launch, Places, InTime
<1>3. CASE CallerTimesOut
    BY <1>3 DEF CallerTimesOut, Deadline, args, InTime
<1>4. CASE ClientExits
    BY <1>4 DEF ClientExits, args, InTime
<1>5. CASE ContainerUp
  <2>1. now \in Nat /\ timeout > 0
    BY <1>5, Clock DEF ContainerUp, Places
  <2>2. now' = now /\ born' = now /\ Larger(timeout', settle') = Larger(timeout, settle)
    BY <1>5 DEF ContainerUp, args
  <2>3. now <= now + Larger(timeout, settle)
    BY <2>1, Arguments
  <2>4. QED
    BY <2>2, <2>3 DEF InTime
<1>6. CASE ContainerFails
    BY <1>6 DEF ContainerFails, args, InTime
<1>7. CASE Serve
    BY <1>7 DEF Serve, args, InTime
<1>8. CASE InitEnds
    BY <1>8 DEF InitEnds, args, InTime
<1>9. CASE StopInit
    BY <1>9 DEF StopInit, args, InTime
<1>10. CASE ListProcesses
    BY <1>10 DEF ListProcesses, args, InTime
<1>11. CASE ListPorts
    BY <1>11 DEF ListPorts, args, InTime
<1>12. CASE PrintStatus
    BY <1>12 DEF PrintStatus, InitOver, args, InTime
<1>13. CASE Tick
  <2>1. SUFFICES ASSUME call = "running", ~deaf, init # "none"
                 PROVE  now + 1 <= born + Larger(timeout, settle)
    BY <1>13 DEF Tick, args, InTime, Larger
  <2>2. /\ now \in Nat /\ born \in Nat /\ init \in Status
        /\ script \in {"none", "settling", "ports", "waiting"}
        /\ container \in {"none", "starting", "up", "exited", "failed"}
    BY Zenon DEF TypeOK
  <2>3. ~Due
    BY <1>13 DEF Tick
  <2>4. container = "up" /\ script # "none"
    BY <2>1, <2>2, <2>3 DEF Due, Places
  <2>5. script = "settling" \/ init = "running"
    BY <2>2, <2>3, <2>4 DEF Due, InitOver
  <2>6. now < born + settle \/ now < born + timeout
    BY <2>1, <2>2, <2>3, <2>4, <2>5, Arguments DEF Due, TimeIsUp, InitOver
  <2>7. QED
    BY <2>2, <2>6, Arguments
<1>14. CASE UNCHANGED vars
    BY <1>14 DEF vars, args, InTime
<1>15. QED
    BY <1>1, <1>2, <1>3, <1>4, <1>5, <1>6, <1>7, <1>8, <1>9, <1>10, <1>11, <1>12, <1>13, <1>14 DEF Next, Run, Environment, Ended

\* A call starts in the invariant.
LEMMA InitHolds == Init => IInv
<1> SUFFICES ASSUME Init PROVE IInv
    OBVIOUS
<1>1. TypeOK
    BY DEF Init, TypeOK, Status
<1>2. Places
    BY DEF Init, Places
<1>3. InTime
    BY DEF Init, InTime
<1>4. QED
    BY <1>1, <1>2, <1>3 DEF IInv

\* The invariant holds whatever docker and the firmware do.
LEMMA EmulatorInvariant == Spec => []IInv
<1>1. Init => IInv
    BY InitHolds
<1>2. IInv /\ [Next]_vars => IInv'
    BY StepKeepsTypes, StepKeepsPlaces, StepKeepsInTime DEF IInv
<1>3. QED
    BY <1>1, <1>2, PTL DEF Spec

-----------------------------------------------------------------------------

\* A call that is over leaves a container behind only when it timed out, and behind a
\* result nothing runs (emulate_firmware, subprocess.run).
THEOREM EmulatorContainerLeft == Spec => []ContainerLeft
<1>1. IInv => ContainerLeft
    BY DEF IInv, TypeOK, Places, ContainerLeft, Over
<1>2. QED
    BY <1>1, EmulatorInvariant, PTL

\* A call times out only when init ignores its signal, or when the container was not up
\* in time for settling and init within Grace of the timeout.
THEOREM EmulatorTimeoutExplained == Spec => TimeoutExplained
<1> DEFINE Explained ==
             call = "running" /\ call' = "timed out" =>
                 \/ deaf \/ init = "none"
                 \/ born + Larger(timeout, settle) >= timeout + Grace
<1>1. ASSUME IInv, [Next]_vars PROVE [Explained]_vars
  <2>1. SUFFICES ASSUME call = "running", call' = "timed out", ~deaf, init # "none"
                 PROVE  born + Larger(timeout, settle) >= timeout + Grace
    OBVIOUS
  <2>2. now >= timeout + Grace
    BY <1>1, <2>1 DEF Next, Run, Environment, Ended, vars, CallerTimesOut, ClientExits, Refuse,
       Launch, ContainerUp, ContainerFails, Serve, InitEnds, StopInit, ListProcesses, ListPorts,
       PrintStatus, Tick, Deadline
  <2>3. now <= born + Larger(timeout, settle)
    BY <1>1, <2>1 DEF IInv, InTime
  <2>4. TypeOK
    BY <1>1 DEF IInv
  <2>5. QED
    BY <2>2, <2>3, <2>4, Clock, Arguments, EmulatorAssumption
<1>2. QED
    BY <1>1, EmulatorInvariant, PTL DEF Spec, TimeoutExplained

-----------------------------------------------------------------------------
(* The lines of a listing, by induction over their number.                  *)

\* Induction up to n, over a set.
LEMMA UpToInduction ==
    ASSUME NEW n \in Nat, NEW S, 0 \in S, \A i \in 1 .. n : i - 1 \in S => i \in S
    PROVE  \A i \in 0 .. n : i \in S
<1> DEFINE Bad == {i \in 0 .. n : i \notin S}
<1> SUFFICES ASSUME Bad # {} PROVE FALSE
    OBVIOUS
<1>1. Bad \in SUBSET Nat
    OBVIOUS
<1>2. PICK i \in Bad : \A j \in Bad : i <= j
  <2>1. \E i \in Bad : \A j \in Bad : <<j, i>> \notin OpToRel(<, Nat)
    BY <1>1, WFMin, NatLessThanWellFounded
  <2>2. \A i, j \in Nat : j < i => <<j, i>> \in OpToRel(<, Nat)
    BY DEF OpToRel
  <2> HIDE DEF Bad
  <2>3. \E i \in Bad : \A j \in Bad : ~(j < i)
    BY <1>1, <2>1, <2>2
  <2> QED BY <1>1, <2>3
<1>3. i \in 1 .. n /\ i - 1 \in 0 .. n /\ i - 1 \notin Bad
    BY <1>2
<1> QED BY <1>3

\* From the lines of a list, with a line before them that does not parse or without
\* it, the parser gets the list.
LEMMA ItemsTell ==
    ASSUME NEW T, Junk \notin T, NEW s \in Seq(T), NEW d \in {0, 1},
           NEW lines, Len(lines) = Len(s) + d, d = 1 => lines[1].item = Junk,
           \A j \in 1 .. Len(s) : lines[j + d].item = s[j]
    PROVE  Items(lines) = s
<1> DEFINE n == Len(lines)
           items[i \in 0 .. n] == IF i = 0 THEN <<>> ELSE Parse(items[i - 1], lines[i])
           size(i) == IF i = 0 THEN 0 ELSE i - d
           S == {i \in 0 .. n : /\ items[i] \in Seq(T) /\ Len(items[i]) = size(i)
                                /\ \A j \in 1 .. size(i) : items[i][j] = s[j]}
<1>1. n \in Nat /\ Len(s) \in Nat /\ n = Len(s) + d /\ \A j \in 1 .. Len(s) : s[j] \in T
    BY LenProperties
<1>2. items = [i \in 0 .. n |-> IF i = 0 THEN <<>> ELSE Parse(items[i - 1], lines[i])]
  <2>1. FiniteNatInductiveDefHypothesis(items, <<>>, LAMBDA v, i : Parse(v, lines[i]), 0, n)
    BY DEF FiniteNatInductiveDefHypothesis
  <2>2. FiniteNatInductiveDefConclusion(items, <<>>, LAMBDA v, i : Parse(v, lines[i]), 0, n)
    BY ONLY <1>1, <2>1, FiniteNatInductiveDef, 0 \in Nat
  <2> QED BY ONLY <2>2 DEF FiniteNatInductiveDefConclusion
<1>3. Items(lines) = items[n]
    BY DEF Items
<1> HIDE DEF items, n
<1>4. 0 \in S
  <2>1. items[0] = <<>> /\ 0 \in 0 .. n
    BY <1>1, <1>2
  <2>2. <<>> \in Seq(T) /\ Len(<<>>) = 0 /\ size(0) = 0
    OBVIOUS
  <2> HIDE DEF size
  <2>3. \A j \in 1 .. size(0) : items[0][j] = s[j]
    BY <2>2
  <2> QED BY <2>1, <2>2, <2>3
<1>5. ASSUME NEW i \in 1 .. n, i - 1 \in S PROVE i \in S
  <2>1. items[i] = Parse(items[i - 1], lines[i]) /\ i \in 0 .. n /\ i # 0
    <3>1. i \in 0 .. n /\ i # 0
      BY <1>1
    <3> QED BY ONLY <1>2, <3>1
  <2>2. /\ items[i - 1] \in Seq(T) /\ Len(items[i - 1]) = size(i - 1)
        /\ \A j \in 1 .. size(i - 1) : items[i - 1][j] = s[j]
    BY <1>5
  <2>3. CASE i - d = 0
    <3>1. i = 1 /\ d = 1
      BY <1>1, <2>3
    <3>2. items[i] = items[i - 1] /\ size(i) = 0 /\ size(i - 1) = 0
      BY <2>1, <3>1 DEF Parse
    <3> HIDE DEF size
    <3> QED BY <2>1, <2>2, <3>2
  <2>4. CASE i - d # 0
    <3> DEFINE k == i - d
    <3>1. k \in 1 .. Len(s) /\ size(i) = k /\ size(i - 1) = k - 1
      BY <1>1, <2>4
    <3>2. lines[i].item = s[k] /\ s[k] \in T
      <4>1. k + d = i
        BY <1>1
      <4> QED BY <1>1, <3>1, <4>1
    <3> HIDE DEF size, k
    <3>3. items[i] = Append(items[i - 1], s[k])
      BY <2>1, <3>2 DEF Parse
    <3>4. /\ items[i] \in Seq(T) /\ Len(items[i]) = k
          /\ \A j \in 1 .. k - 1 : items[i][j] = s[j]
          /\ items[i][k] = s[k]
      BY <1>1, <2>2, <3>1, <3>2, <3>3, AppendProperties, SMTT(30)
    <3>5. \A j \in 1 .. k : j \in 1 .. k - 1 \/ j = k
      BY <3>1, <1>1
    <3>6. \A j \in 1 .. k : items[i][j] = s[j]
      BY <3>4, <3>5
    <3> QED BY <2>1, <3>1, <3>4, <3>6
  <2> QED BY <2>3, <2>4
<1>6. n \in S
  <2> HIDE DEF S
  <2>1. n \in 0 .. n
    BY <1>1
  <2> QED BY ONLY <1>1, <1>4, <1>5, <2>1, UpToInduction
<1>7. size(n) = Len(s)
    BY <1>1
<1>8. items[n] \in Seq(T) /\ Len(items[n]) = Len(s) /\ \A j \in 1 .. Len(s) : items[n][j] = s[j]
    BY <1>6, <1>7
<1> QED BY ONLY <1>3, <1>8, s \in Seq(T), SeqEqual

-----------------------------------------------------------------------------
(* The output of a script that went through.                                *)

Item == Service \cup {"init"}
OddLines == {<<>>, <<Junk>>}

ProcessesShown(processes) == <<Marker("processes")>> \o Lines(processes)
PortsShown(processes, odd, ports) ==
    ProcessesShown(processes) \o <<Marker("ports")>> \o Lines(odd \o ports)
AllShown(processes, odd, ports, status) ==
    Append(PortsShown(processes, odd, ports), [marker |-> "status", item |-> status])

\* A list has as many lines as elements, none of them a marker.
LEMMA LinesOfList ==
    ASSUME NEW T, NEW s \in Seq(T)
    PROVE  /\ Lines(s) \in Seq([marker : {"none"}, item : T])
           /\ Len(Lines(s)) = Len(s) /\ Len(s) \in Nat
           /\ \A j \in 1 .. Len(s) : Lines(s)[j].marker = "none" /\ Lines(s)[j].item = s[j]
<1>1. Len(s) \in Nat /\ DOMAIN s = 1 .. Len(s) /\ \A j \in 1 .. Len(s) : s[j] \in T
    BY LenProperties
<1> DEFINE L == [marker : {"none"}, item : T]
<1>2. Lines(s) \in [1 .. Len(s) -> L]
    BY <1>1 DEF Lines, Line
<1>3. Lines(s) \in Seq(L)
  <2> HIDE DEF L
  <2> QED BY <1>1, <1>2, SeqDef
<1>4. Len(Lines(s)) = Len(s)
    BY <1>1, <1>2, <1>3, LenProperties
<1>5. \A j \in 1 .. Len(s) : Lines(s)[j] = Line(s[j])
    BY <1>1 DEF Lines
<1>6. \A x : Line(x).marker = "none" /\ Line(x).item = x
    BY DEF Line
<1> QED BY ONLY <1>1, <1>3, <1>4, <1>5, <1>6

\* A section is what stands between its markers.
LEMMA SectionBetween ==
    ASSUME NEW lines, NEW start, NEW end, Has(lines, end)
    PROVE  Section(lines, start, end)
              = SubSeq(lines, Position(lines, start) + 1, Position(lines, end) - 1)
BY DEF Section

\* In the output of a script that went through, the parser finds what was listed.
LEMMA OutputTells ==
    ASSUME NEW P \in Seq(Item), NEW I \in Seq(Item), NEW odd \in OddLines, NEW status
    PROVE  /\ Parsed(AllShown(P, odd, I, status))
                = [processes |-> P, ports |-> I, status |-> status]
           /\ Junk \notin Item
<1> DEFINE J == odd \o I
           d == Len(odd)
           p == Len(P)
           q == Len(J)
           U == Item \cup {Junk, status, "processes", "ports"}
           L == [marker : {"none", "processes", "ports", "status"}, item : U]
           first == <<Marker("processes")>> \o Lines(P)
           second == first \o <<Marker("ports")>>
           third == second \o Lines(J)
           end == [marker |-> "status", item |-> status]
           lines == Append(third, end)
<1>1. Junk \notin Item
    BY EmulatorAssumption DEF Item
<1>2. /\ d \in {0, 1} /\ q = d + Len(I) /\ Len(I) \in Nat
      /\ J \in Seq(Item \cup {Junk})
      /\ d = 1 => J[1] = Junk
      /\ \A j \in 1 .. Len(I) : J[j + d] = I[j]
  <2>1. I \in Seq(Item \cup {Junk}) /\ Len(I) \in Nat
    BY SeqMonotonic, LenProperties
  <2>2. CASE odd = <<>>
    <3>1. J = I /\ d = 0
      BY <2>1, <2>2, ConcatEmptySeq
    <3> HIDE DEF J, d
    <3> QED BY <2>1, <3>1
  <2>3. CASE odd = <<Junk>>
    <3>1. <<Junk>> \in Seq(Item \cup {Junk}) /\ Len(<<Junk>>) = 1 /\ <<Junk>>[1] = Junk
      OBVIOUS
    <3>2. /\ J \in Seq(Item \cup {Junk}) /\ q = 1 + Len(I)
          /\ \A i \in 1 .. 1 + Len(I) : J[i] = IF i <= 1 THEN <<Junk>>[i] ELSE I[i - 1]
      BY <2>1, <2>3, <3>1, ConcatProperties
    <3>3. d = 1
      BY <2>3
    <3> HIDE DEF J, d, q
    <3>4. q \in Nat /\ 1 \in 1 .. 1 + Len(I) /\ J[1] = Junk
      BY ONLY <2>1, <3>1, <3>2
    <3>5. \A j \in 1 .. Len(I) :
              j + 1 \in 1 .. 1 + Len(I) /\ ~(j + 1 <= 1) /\ (j + 1) - 1 = j
      BY ONLY <2>1
    <3>6. \A j \in 1 .. Len(I) : J[j + 1] = I[j]
      BY ONLY <3>2, <3>5
    <3> QED BY ONLY <2>1, <3>2, <3>3, <3>4, <3>6
  <2> QED BY <2>2, <2>3 DEF OddLines
<1>3. /\ Lines(P) \in Seq(L) /\ Len(Lines(P)) = p /\ p \in Nat
      /\ \A j \in 1 .. p : Lines(P)[j].marker = "none" /\ Lines(P)[j].item = P[j]
      /\ Lines(J) \in Seq(L) /\ Len(Lines(J)) = q /\ q \in Nat
      /\ \A j \in 1 .. q : Lines(J)[j].marker = "none" /\ Lines(J)[j].item = J[j]
  <2> DEFINE L1 == [marker : {"none"}, item : Item]
             L2 == [marker : {"none"}, item : Item \cup {Junk}]
  <2>1. L1 \subseteq L /\ L2 \subseteq L
    OBVIOUS
  <2>2. /\ Lines(P) \in Seq(L1) /\ Len(Lines(P)) = p /\ p \in Nat
        /\ \A j \in 1 .. p : Lines(P)[j].marker = "none" /\ Lines(P)[j].item = P[j]
    BY LinesOfList
  <2> HIDE DEF J
  <2>3. /\ Lines(J) \in Seq(L2) /\ Len(Lines(J)) = q /\ q \in Nat
        /\ \A j \in 1 .. q : Lines(J)[j].marker = "none" /\ Lines(J)[j].item = J[j]
    <3>1. J \in Seq(Item \cup {Junk})
      BY <1>2
    <3> QED BY ONLY <3>1, LinesOfList
  <2> HIDE DEF L, L1, L2, p, q
  <2>4. Lines(P) \in Seq(L) /\ Lines(J) \in Seq(L)
    BY <2>1, <2>2, <2>3, SeqMonotonic
  <2> QED BY ONLY <2>2, <2>3, <2>4
<1>4. /\ <<Marker("processes")>> \in Seq(L) /\ Len(<<Marker("processes")>>) = 1
      /\ <<Marker("ports")>> \in Seq(L) /\ Len(<<Marker("ports")>>) = 1
      /\ end \in L
    BY DEF Marker
<1>0. p = Len(P)
    OBVIOUS
<1> HIDE DEF J, d, p, q, L
<1>5. /\ first \in Seq(L) /\ Len(first) = p + 1
      /\ first[1] = Marker("processes")
      /\ \A j \in 1 .. p : first[j + 1] = Lines(P)[j]
    BY <1>3, <1>4, ConcatProperties
<1> HIDE DEF first
<1>6. /\ second \in Seq(L) /\ Len(second) = p + 2
      /\ \A i \in 1 .. p + 1 : second[i] = first[i]
      /\ second[p + 2] = Marker("ports")
    BY <1>3, <1>4, <1>5, ConcatProperties
<1> HIDE DEF second
<1>7. /\ third \in Seq(L) /\ Len(third) = p + q + 2
      /\ \A i \in 1 .. p + 2 : third[i] = second[i]
      /\ \A j \in 1 .. q : third[p + 2 + j] = Lines(J)[j]
  <2>1. /\ third \in Seq(L) /\ Len(third) = Len(second) + Len(Lines(J))
        /\ \A i \in 1 .. Len(second) + Len(Lines(J)) :
              third[i] = IF i <= Len(second) THEN second[i] ELSE Lines(J)[i - Len(second)]
    BY <1>3, <1>6, ConcatProperties
  <2> HIDE DEF third
  <2>2. ASSUME NEW j \in 1 .. q PROVE third[p + 2 + j] = Lines(J)[j]
    <3> DEFINE i == p + 2 + j
    <3>1. i \in 1 .. p + 2 + q /\ ~(i <= p + 2) /\ i - (p + 2) = j
      BY <1>3
    <3> HIDE DEF i
    <3>2. i \in 1 .. Len(second) + Len(Lines(J)) /\ ~(i <= Len(second)) /\ i - Len(second) = j
      BY <1>3, <1>6, <3>1
    <3>3. third[i] = Lines(J)[j]
      BY ONLY <2>1, <3>2
    <3> QED BY <3>3 DEF i
  <2>3. p + 2 + q = p + q + 2 /\ \A i \in 1 .. p + 2 : i \in 1 .. p + 2 + q /\ i <= p + 2
    BY <1>3
  <2> QED BY ONLY <1>3, <1>6, <2>1, <2>2, <2>3
<1> HIDE DEF third, end
<1>8. /\ lines \in Seq(L) /\ Len(lines) = p + q + 3
      /\ \A i \in 1 .. p + q + 2 : lines[i] = third[i]
      /\ lines[p + q + 3] = end
  <2>1. /\ lines \in Seq(L) /\ Len(lines) = Len(third) + 1
        /\ \A i \in 1 .. Len(third) : lines[i] = third[i]
        /\ lines[Len(third) + 1] = end
    BY <1>4, <1>7, AppendProperties
  <2>2. Len(third) + 1 = p + q + 3
    BY <1>3, <1>7
  <2> HIDE DEF lines
  <2> QED BY ONLY <1>7, <2>1, <2>2
<1> HIDE DEF lines
<1>9. /\ lines[1] = Marker("processes") /\ lines[p + 2] = Marker("ports")
      /\ lines[p + q + 3] = end
      /\ \A j \in 1 .. p : lines[j + 1] = Lines(P)[j]
      /\ \A j \in 1 .. q : lines[p + 2 + j] = Lines(J)[j]
    BY <1>3, <1>5, <1>6, <1>7, <1>8
<1>10. /\ Position(lines, "processes") = 1 /\ Position(lines, "ports") = p + 2
       /\ Position(lines, "status") = p + q + 3
       /\ Has(lines, "ports") /\ Has(lines, "status")
  <2>1. DOMAIN lines = 1 .. p + q + 3
    BY <1>8, LenProperties
  <2>2. /\ lines[1].marker = "processes" /\ lines[p + 2].marker = "ports"
        /\ lines[p + q + 3].marker = "status"
    BY <1>9 DEF Marker, end
  <2>3. ASSUME NEW i \in 1 .. p + q + 3, i \notin {1, p + 2, p + q + 3}
        PROVE  lines[i].marker = "none"
    <3>1. CASE i <= p + 1
      <4> DEFINE j == i - 1
      <4>1. j \in 1 .. p /\ j + 1 = i
        BY <1>3, <2>3, <3>1
      <4> HIDE DEF j
      <4>2. lines[j + 1] = Lines(P)[j]
        BY ONLY <1>9, <4>1
      <4>3. Lines(P)[j].marker = "none"
        BY ONLY <1>3, <4>1
      <4> QED BY ONLY <4>1, <4>2, <4>3
    <3>2. CASE ~(i <= p + 1)
      <4> DEFINE j == i - (p + 2)
      <4>1. j \in 1 .. q /\ p + 2 + j = i
        BY <1>3, <2>3, <3>2
      <4> HIDE DEF j
      <4> QED BY <1>3, <1>9, <4>1
    <3> QED BY <3>1, <3>2
  <2>4. ASSUME NEW k \in {1, p + 2, p + q + 3}, NEW name, name = lines[k].marker
        PROVE  Position(lines, name) = k /\ Has(lines, name)
    <3>1. k \in DOMAIN lines /\ 1 < p + 2 /\ p + 2 < p + q + 3 /\ k \in Int
      BY <1>3, <2>1
    <3>2. \A i \in DOMAIN lines : lines[i].marker = name => i = k
      BY <2>1, <2>2, <2>3, <2>4, <3>1
    <3>3. \A j \in 1 .. k - 1 : j \in DOMAIN lines /\ j # k
      BY <1>3, <2>1, <3>1
    <3>4. \A i : /\ i \in DOMAIN lines /\ lines[i].marker = name
                 /\ \A j \in 1 .. i - 1 : lines[j].marker # name
              <=> i = k
      BY <2>4, <3>1, <3>2, <3>3
    <3> QED BY <2>4, <3>1, <3>4 DEF Position, Has
  <2> QED BY <2>2, <2>4
<1>11. /\ lines[Position(lines, "status")].item = status
       /\ Section(lines, "processes", "ports") = SubSeq(lines, 2, p + 1)
       /\ Section(lines, "ports", "status") = SubSeq(lines, p + 3, p + q + 2)
  <2>1. 1 + 1 = 2 /\ (p + 2) - 1 = p + 1 /\ p + 2 + 1 = p + 3 /\ (p + q + 3) - 1 = p + q + 2
    BY <1>3
  <2>2. end.item = status
    BY DEF end
  <2>3. Section(lines, "processes", "ports") = SubSeq(lines, 1 + 1, (p + 2) - 1)
    BY ONLY <1>10, SectionBetween
  <2>4. Section(lines, "ports", "status") = SubSeq(lines, p + 2 + 1, (p + q + 3) - 1)
    BY ONLY <1>10, SectionBetween
  <2> QED BY ONLY <1>9, <1>10, <2>1, <2>2, <2>3, <2>4
<1>12. Items(SubSeq(lines, 2, p + 1)) = P
  <2> DEFINE part == SubSeq(lines, 2, p + 1)
  <2>1. Len(part) = p + 0 /\ \A j \in 1 .. p : part[j] = lines[j + 1]
    <3>1. \A i \in 2 .. p + 1 : lines[i] \in L
      BY <1>3, <1>8, ElementOfSeq
    <3>2. /\ Len(part) = IF 2 <= p + 1 THEN p + 1 - 2 + 1 ELSE 0
          /\ \A j \in 1 .. p + 1 - 2 + 1 : part[j] = lines[2 + j - 1]
      BY <1>3, <3>1, SubSeqProperties
    <3> HIDE DEF part
    <3> QED BY <1>3, <3>2
  <2> HIDE DEF part
  <2>2. \A j \in 1 .. Len(P) : part[j + 0].item = P[j]
    <3>1. \A j \in 1 .. p : j + 0 = j
      OBVIOUS
    <3>2. \A j \in 1 .. p : part[j].item = P[j]
      <4> SUFFICES ASSUME NEW j \in 1 .. p PROVE part[j].item = P[j]
        OBVIOUS
      <4>1. part[j] = lines[j + 1]
        BY ONLY <2>1, j \in 1 .. p
      <4>2. lines[j + 1] = Lines(P)[j]
        BY ONLY <1>9, j \in 1 .. p
      <4>3. Lines(P)[j].item = P[j]
        BY ONLY <1>3, j \in 1 .. p
      <4> QED BY ONLY <4>1, <4>2, <4>3
    <3> QED BY ONLY <1>0, <3>1, <3>2
  <2>3. 0 \in {0, 1} /\ ~(0 = 1)
    OBVIOUS
  <2>4. Items(part) = P
    <3>1. Len(part) = Len(P) + 0
      BY <1>0, <2>1
    <3> QED BY ONLY <1>1, <2>2, <2>3, <3>1, P \in Seq(Item), ItemsTell
  <2> QED BY <2>4 DEF part
<1>13. Items(SubSeq(lines, p + 3, p + q + 2)) = I
  <2> DEFINE part == SubSeq(lines, p + 3, p + q + 2)
  <2>1. Len(part) = q /\ \A j \in 1 .. q : part[j] = lines[p + 2 + j]
    <3>1. \A i \in p + 3 .. p + q + 2 : lines[i] \in L
      BY <1>3, <1>8, ElementOfSeq
    <3> DEFINE m == p + 3
               l == p + q + 2
    <3>2. m \in Int /\ l \in Int
      BY <1>3
    <3>3. part = SubSeq(lines, m, l)
      BY DEF part
    <3> HIDE DEF part, m, l
    <3>4. /\ Len(part) = IF m <= l THEN l - m + 1 ELSE 0
          /\ \A j \in 1 .. l - m + 1 : part[j] = lines[m + j - 1]
      <4>1. \A i \in m .. l : lines[i] \in L
        BY <3>1 DEF m, l
      <4> QED BY ONLY <3>2, <3>3, <4>1, SubSeqProperties
    <3>5. l - m + 1 = q /\ (m <= l \/ q = 0)
      BY <1>3 DEF m, l
    <3>6. \A j \in 1 .. q : m + j - 1 = p + 2 + j
      BY <1>3 DEF m
    <3>7. Len(part) = q
      BY <1>3, <3>4, <3>5
    <3> QED BY <3>4, <3>5, <3>6, <3>7
  <2> HIDE DEF part
  <2>2. \A j \in 1 .. q : part[j].item = J[j]
    BY <1>3, <1>9, <2>1
  <2>3. \A j \in 1 .. Len(I) : part[j + d].item = I[j]
    BY <1>2, <2>2
  <2>4. Len(part) = Len(I) + d /\ (d = 1 => part[1].item = Junk)
    <3>1. Len(part) = Len(I) + d
      BY <1>2, <2>1
    <3>2. d = 1 => 1 \in 1 .. q
      BY <1>2
    <3> QED BY <1>2, <2>2, <3>1, <3>2
  <2>5. Items(part) = I
    <3>1. d \in {0, 1}
      BY <1>2
    <3> QED BY ONLY <1>1, <2>3, <2>4, <3>1, I \in Seq(Item), ItemsTell
  <2> QED BY <2>5 DEF part
<1>14. AllShown(P, odd, I, status) = lines
    BY DEF AllShown, PortsShown, ProcessesShown, lines, third, second, first, end, J
<1> QED BY <1>1, <1>11, <1>12, <1>13, <1>14 DEF Parsed

-----------------------------------------------------------------------------
(* What every step keeps of the output and of what was there.               *)

Seen == [processes : Seq(Item), ports : Seq(Item), status : Status]

Telemetry ==
    /\ seen \in Seen
    /\ container # "exited" /\ script = "ports" => output = ProcessesShown(seen.processes)
    /\ container # "exited" /\ script = "waiting" =>
          \E odd \in OddLines : output = PortsShown(seen.processes, odd, seen.ports)
    /\ container = "exited" =>
          /\ \E odd \in OddLines :
                output = AllShown(seen.processes, odd, seen.ports, seen.status)
          /\ seen.status \in {"ended", "stopped"}
    /\ call = "returned" => container = "exited" /\ result = seen

\* A listing is a list of what is there.
LEMMA ListingIsList ==
    ASSUME NEW set \in SUBSET Item, NEW items \in Printed(set)
    PROVE  items \in Seq(Item)
<1>1. IsFiniteSet(set)
  <2>1. IsFiniteSet(Item)
    BY EmulatorAssumption, FS_AddElement DEF Item
  <2> QED BY <2>1, FS_Subset
<1>2. Cardinality(set) \in Nat /\ ExistsBijection(1 .. Cardinality(set), set)
    BY <1>1, FS_CardinalityType
<1>3. PICK order \in [1 .. Cardinality(set) -> set] :
          \A i, j \in 1 .. Cardinality(set) : order[i] = order[j] => i = j
  <2>1. PICK order \in Bijection(1 .. Cardinality(set), set) : TRUE
    BY <1>2 DEF ExistsBijection
  <2> QED BY <2>1 DEF Bijection, Injection, IsInjective
<1>4. DOMAIN order = 1 .. Cardinality(set)
    OBVIOUS
<1>5. Listing(set) \in [1 .. Cardinality(set) -> set]
    BY <1>3, <1>4 DEF Listing
<1>6. Listing(set) \in Seq(Item)
    BY <1>2, <1>5, SeqDef
<1>7. <<>> \in Seq(Item)
    OBVIOUS
<1> QED BY <1>6, <1>7 DEF Printed

\* What every step keeps of the telemetry.
LEMMA StepKeepsTelemetry ==
    ASSUME Telemetry, IInv, [Next]_vars
    PROVE  Telemetry'
<1>1. CASE Refuse \/ Launch
    BY <1>1 DEF Refuse, Launch, IInv, Places, Telemetry
<1>2. CASE CallerTimesOut
  <2>1. UNCHANGED <<seen, output, script, container>> /\ call' # "returned"
    BY <1>2 DEF CallerTimesOut
  <2> QED BY <2>1 DEF Telemetry
<1>3. CASE ClientExits
  <2>1. UNCHANGED <<seen, output, script, container>>
    BY <1>3 DEF ClientExits
  <2>2. ASSUME call' = "returned" PROVE container = "exited" /\ result' = seen
    <3>1. call # "returned" /\ container = "exited" /\ result' = Parsed(output)
      BY <1>3, <2>2 DEF ClientExits
    <3>2. PICK odd \in OddLines :
              output = AllShown(seen.processes, odd, seen.ports, seen.status)
      BY <3>1 DEF Telemetry
    <3>3. seen.processes \in Seq(Item) /\ seen.ports \in Seq(Item) /\ seen \in Seen
      BY DEF Telemetry, Seen
    <3>4. Parsed(output) = [processes |-> seen.processes, ports |-> seen.ports,
                            status |-> seen.status]
      BY <3>2, <3>3, OutputTells
    <3>5. seen = [processes |-> seen.processes, ports |-> seen.ports, status |-> seen.status]
      BY <3>3 DEF Seen
    <3> QED BY ONLY <3>1, <3>4, <3>5
  <2> QED BY <2>1, <2>2 DEF Telemetry
<1>4. CASE ContainerUp
  <2>1. /\ container' = "up" /\ script' = "settling" /\ call' = call /\ seen' = seen
        /\ container = "starting"
    BY <1>4 DEF ContainerUp
  <2> QED BY <2>1 DEF Telemetry
<1>5. CASE ContainerFails
    BY <1>5 DEF ContainerFails, Telemetry
<1>6. CASE Serve \/ InitEnds \/ StopInit
  <2>1. UNCHANGED <<seen, output, script, container, call, result>> /\ container = "up"
    BY <1>6 DEF Serve, InitEnds, StopInit
  <2> QED BY <2>1 DEF Telemetry
<1>7. CASE ListProcesses
  <2>1. PICK items \in Printed(Alive) :
            /\ output' = <<Marker("processes")>> \o Lines(items)
            /\ seen' = [seen EXCEPT !.processes = items]
    BY <1>7 DEF ListProcesses
  <2>2. container' = "up" /\ container = "up" /\ script' = "ports" /\ call' = call
    BY <1>7 DEF ListProcesses
  <2>3. items \in Seq(Item)
    <3>1. Alive \subseteq Item
      BY DEF Alive, Item, IInv, TypeOK
    <3> QED BY <3>1, ListingIsList
  <2>4. seen' \in Seen /\ seen'.processes = items
    BY <2>1, <2>3 DEF Telemetry, Seen
  <2> QED BY <2>1, <2>2, <2>4 DEF Telemetry, ProcessesShown
<1>8. CASE ListPorts
  <2>1. PICK items \in Printed(services), odd \in OddLines :
            /\ output' = output \o <<Marker("ports")>> \o Lines(odd \o items)
            /\ seen' = [seen EXCEPT !.ports = items]
    BY <1>8 DEF ListPorts, OddLines
  <2>2. /\ container' = "up" /\ container = "up" /\ script = "ports" /\ script' = "waiting"
        /\ call' = call
    BY <1>8 DEF ListPorts
  <2>3. items \in Seq(Item)
    <3>1. services \subseteq Item
      BY DEF Item, IInv, TypeOK
    <3> QED BY <3>1, ListingIsList
  <2>4. seen' \in Seen /\ seen'.ports = items /\ seen'.processes = seen.processes
    BY <2>1, <2>3 DEF Telemetry, Seen
  <2>5. output = ProcessesShown(seen.processes)
    BY <2>2 DEF Telemetry
  <2>6. output' = PortsShown(seen'.processes, odd, seen'.ports)
    BY <2>1, <2>4, <2>5 DEF PortsShown
  <2> QED BY <2>2, <2>4, <2>6 DEF Telemetry
<1>9. CASE PrintStatus
  <2>1. /\ container' = "exited" /\ container = "up" /\ script = "waiting"
        /\ output' = Append(output, [marker |-> "status", item |-> init])
        /\ seen' = [seen EXCEPT !.status = init] /\ init # "running" /\ call' = call
    BY <1>9 DEF PrintStatus, InitOver
  <2>2. init \in {"ended", "stopped"}
    BY <2>1 DEF IInv, TypeOK, Places, Status
  <2>3. PICK odd \in OddLines : output = PortsShown(seen.processes, odd, seen.ports)
    BY <2>1 DEF Telemetry
  <2>4. /\ seen' \in Seen /\ seen'.status = init /\ seen'.processes = seen.processes
        /\ seen'.ports = seen.ports
    BY <2>1, <2>2 DEF Telemetry, Seen, Status
  <2>5. output' = AllShown(seen'.processes, odd, seen'.ports, seen'.status)
    BY <2>1, <2>3, <2>4 DEF AllShown
  <2>6. call' # "returned"
    BY <2>1 DEF Telemetry
  <2> QED BY <2>1, <2>2, <2>4, <2>5, <2>6 DEF Telemetry
<1>10. CASE Tick \/ Ended \/ UNCHANGED vars
    BY <1>10 DEF Tick, Ended, vars, Telemetry
<1> QED BY <1>1, <1>2, <1>3, <1>4, <1>5, <1>6, <1>7, <1>8, <1>9, <1>10
        DEF Next, Run, Environment

\* The telemetry is true along every emulation.
LEMMA TelemetryInvariant == Spec => []Telemetry
<1>1. Init => Telemetry
  <2>1. <<>> \in Seq(Item)
    OBVIOUS
  <2> QED BY <2>1 DEF Init, Telemetry, Seen, NoResult, Status
<1>2. IInv /\ Telemetry /\ [Next]_vars => Telemetry'
    BY StepKeepsTelemetry
<1>3. QED
    BY <1>1, <1>2, EmulatorInvariant, PTL DEF Spec

\* For any services, listed in any order or not at all, and any line in between that
\* does not parse, a result has the processes and the ports that were listed and the
\* status with which init ended (emulator.py _section, _parse_processes, _parse_ports).
THEOREM EmulatorTelemetryTrue == Spec => []TelemetryTrue
<1>1. Telemetry => TelemetryTrue
    BY DEF Telemetry, TelemetryTrue
<1>2. QED
    BY <1>1, TelemetryInvariant, PTL

-----------------------------------------------------------------------------

\* The least and the greatest of some numbers.
LEMMA LeastOf ==
    ASSUME NEW T \in SUBSET Nat, T # {}
    PROVE  Sets!Min(T) \in T /\ \A j \in T : Sets!Min(T) <= j
<1>1. \E i \in T : \A j \in T : <<j, i>> \notin OpToRel(<, Nat)
    BY WFMin, NatLessThanWellFounded
<1>2. \A i, j \in Nat : j < i => <<j, i>> \in OpToRel(<, Nat)
    BY DEF OpToRel
<1>3. PICK i \in T : \A j \in T : <<j, i>> \notin OpToRel(<, Nat)
    BY <1>1
<1>4. \A j \in T : ~(j < i)
    BY <1>2, <1>3
<1>5. \A j \in T : i <= j
    BY <1>4
<1>6. QED
    BY <1>5 DEF Sets!Min

LEMMA GreatestOf ==
    ASSUME NEW n \in Nat, NEW T \in SUBSET (0 .. n), T # {}
    PROVE  Sets!Max(T) \in T /\ \A j \in T : j <= Sets!Max(T)
<1> DEFINE below == {n - j : j \in T}
<1>1. below \in SUBSET Nat /\ below # {}
  <2>1. \A j \in T : n - j \in Nat
    OBVIOUS
  <2>2. QED
    BY <2>1
<1>2. Sets!Min(below) \in below /\ \A m \in below : Sets!Min(below) <= m
    BY <1>1, LeastOf
<1>3. PICK j \in T : Sets!Min(below) = n - j
    BY <1>2
<1>4. \A i \in T : n - j <= n - i
    BY <1>2, <1>3
<1>5. \A i \in T : i <= j
    BY <1>4
<1>6. QED
    BY <1>5 DEF Sets!Max

\* The first result of a role.
LEMMA FirstResult ==
    ASSUME NEW given, NEW n \in Nat, DOMAIN given = 1 .. n, NEW role,
           \E i \in DOMAIN given : given[i].role = role
    PROVE  \E i \in DOMAIN given : /\ given[i].role = role /\ ResultOf(given, role) = given[i]
                                   /\ \A j \in DOMAIN given : given[j].role = role => i <= j
<1> DEFINE its == {i \in DOMAIN given : given[i].role = role}
<1>1. its \in SUBSET Nat /\ its # {}
    OBVIOUS
<1>2. Sets!Min(its) \in its /\ \A j \in its : Sets!Min(its) <= j
    BY <1>1, LeastOf
<1>3. QED
    BY <1>2 DEF ResultOf

\* What a chain is worth, with s of its agents successful.
Worth(e, s) == Sets!Min({9500, e * (70 + 10 * s)})

\* The bound of 95 hundredths is out of reach with an agent that failed.
LEMMA WorthLess ==
    ASSUME NEW e \in 0 .. 100, NEW s \in 0 .. 3, NEW t \in Nat, t < s, Worth(e, s) > 0
    PROVE  Worth(e, t) < Worth(e, s)
<1>1. e * (70 + 10 * s) \in Nat /\ e * (70 + 10 * t) \in Nat
    OBVIOUS
<1>2. \A a, b \in Nat : Sets!Min({a, b}) = IF a <= b THEN a ELSE b
    BY DEF Sets!Min
<1>3. e > 0
    BY <1>1, <1>2 DEF Worth
<1>4. e * (70 + 10 * t) < e * (70 + 10 * s) /\ e * (70 + 10 * t) < 9500
    <2>1. s = 1 \/ s = 2 \/ s = 3
        OBVIOUS
    <2>2. t = 0 \/ t = 1 \/ t = 2
        BY <2>1
    <2>3. CASE t = 0
        <3>1. e * (70 + 10 * t) = e * 70
            BY <2>3
        <3>2. e * (70 + 10 * s) = e * 80 \/ e * (70 + 10 * s) = e * 90 \/ e * (70 + 10 * s) = e * 100
            BY <2>1
        <3>3. QED
            BY <1>3, <3>1, <3>2
    <2>4. CASE t = 1
        <3>1. e * (70 + 10 * t) = e * 80
            BY <2>4
        <3>2. e * (70 + 10 * s) = e * 90 \/ e * (70 + 10 * s) = e * 100
            BY <2>1, <2>4
        <3>3. QED
            BY <1>3, <3>1, <3>2
    <2>5. CASE t = 2
        <3>1. e * (70 + 10 * t) = e * 90
            BY <2>5
        <3>2. e * (70 + 10 * s) = e * 100
            BY <2>1, <2>5
        <3>3. QED
            BY <1>3, <3>1, <3>2
    <2>6. QED
        BY <2>2, <2>3, <2>4, <2>5
<1>5. QED
    BY <1>1, <1>2, <1>4 DEF Worth

-----------------------------------------------------------------------------

\* What an agent says in its text is a text.
LEMMA RoleTexts ==
    ASSUME NEW given \in Seq(AgentResult), NEW role
    PROVE  RoleText(given, role) \in Seq(TextWord)
<1>1. OurWords \in Seq(TextWord)
    BY DEF OurWords, TextWord
<1>2. CASE \A i \in DOMAIN given : given[i].role # role
    BY <1>1, <1>2 DEF RoleText
<1>3. CASE \E i \in DOMAIN given : given[i].role = role
  <2>1. DOMAIN given = 1 .. Len(given) /\ Len(given) \in Nat
    OBVIOUS
  <2>2. PICK i \in DOMAIN given : ResultOf(given, role) = given[i]
    BY <1>3, <2>1, FirstResult
  <2>3. given[i] \in AgentResult
    OBVIOUS
  <2>4. given[i].output \in Sayings /\ given[i].error \in Sayings \cup {NoError}
    BY <2>3 DEF AgentResult
  <2>5. /\ given[i].output \in Seq(TextWord)
        /\ given[i].error # NoError => given[i].error \in Seq(TextWord)
    BY <2>4, ChainAssumption
  <2>6. given[i].error # NoError => OurWords \o given[i].error \in Seq(TextWord)
    BY <1>1, <2>5
  <2>7. QED
    BY <1>1, <2>2, <2>5, <2>6 DEF RoleText
<1>4. QED
    BY <1>2, <1>3

\* What one of two texts says, they say put together.
LEMMA SaidTogether ==
    ASSUME NEW W, NEW s \in Seq(W), NEW t \in Seq(W), NEW phrase \in Seq(W),
           Says(s, phrase) \/ Says(t, phrase)
    PROVE  Says(s \o t, phrase)
<1>1. /\ s \o t \in Seq(W) /\ Len(s \o t) = Len(s) + Len(t)
      /\ Len(s) \in Nat /\ Len(t) \in Nat /\ Len(phrase) \in Nat /\ DOMAIN phrase = 1 .. Len(phrase)
      /\ \A i \in 1 .. Len(s) : (s \o t)[i] = s[i]
      /\ \A i \in 1 .. Len(t) : (s \o t)[Len(s) + i] = t[i]
    OBVIOUS
<1>2. CASE Says(s, phrase)
  <2>1. PICK start \in 0 .. Len(s) - Len(phrase) : \A i \in DOMAIN phrase : s[start + i] = phrase[i]
    BY <1>2 DEF Says
  <2>2. start \in 0 .. Len(s \o t) - Len(phrase)
    BY <1>1
  <2>3. \A i \in DOMAIN phrase : start + i \in 1 .. Len(s)
    BY <1>1
  <2>4. \A i \in DOMAIN phrase : (s \o t)[start + i] = phrase[i]
    BY <1>1, <2>1, <2>3
  <2>5. QED
    BY <2>2, <2>4 DEF Says
<1>3. CASE Says(t, phrase)
  <2>1. PICK start \in 0 .. Len(t) - Len(phrase) : \A i \in DOMAIN phrase : t[start + i] = phrase[i]
    BY <1>3 DEF Says
  <2>2. Len(s) + start \in 0 .. Len(s \o t) - Len(phrase)
    BY <1>1
  <2>3. \A i \in DOMAIN phrase : start + i \in 1 .. Len(t) /\ (Len(s) + start) + i = Len(s) + (start + i)
    BY <1>1
  <2>4. \A i \in DOMAIN phrase : (s \o t)[(Len(s) + start) + i] = phrase[i]
    BY <1>1, <2>1, <2>3
  <2>5. QED
    BY <2>2, <2>4 DEF Says
<1>4. QED
    BY <1>2, <1>3

\* A denial or a claim of one text is one of the two together.
LEMMA HeardTogether ==
    ASSUME NEW s \in Seq(TextWord), NEW t \in Seq(TextWord)
    PROVE  /\ Denied(s) \/ Denied(t) => Denied(s \o t)
           /\ Claimed(s) \/ Claimed(t) => Claimed(s \o t)
<1>1. Denials \subseteq Seq(TextWord) /\ RootClaims \subseteq Seq(TextWord)
  <2>1. /\ \A v \in TextWord : <<v>> \in Seq(TextWord)
        /\ \A v, w \in TextWord : <<v, w>> \in Seq(TextWord)
        /\ \A v, w, x \in TextWord : <<v, w, x>> \in Seq(TextWord)
        /\ \A v, w, x, y \in TextWord : <<v, w, x, y>> \in Seq(TextWord)
    OBVIOUS
  <2>2. /\ "no" \in TextWord /\ "root" \in TextWord /\ "shell" \in TextWord /\ "is" \in TextWord
        /\ "not" \in TextWord /\ "access" \in TextWord /\ "cannot" \in TextWord
        /\ "reach" \in TextWord /\ "achievable" \in TextWord /\ "uid=0" \in TextWord
        /\ "privilege" \in TextWord /\ "escalation" \in TextWord /\ "to" \in TextWord
    BY DEF TextWord
  <2>3. Denials \subseteq Seq(TextWord)
    BY <2>1, <2>2 DEF Denials
  <2>4. RootClaims \subseteq Seq(TextWord)
    BY <2>1, <2>2 DEF RootClaims
  <2>5. QED
    BY <2>3, <2>4
<1>2. \A phrase \in Seq(TextWord) : Says(s, phrase) \/ Says(t, phrase) => Says(s \o t, phrase)
    BY SaidTogether
<1>3. QED
    BY <1>1, <1>2 DEF Denied, Claimed

\* With an agent's answers taken away, the others say what they said.
LEMMA Shorn ==
    ASSUME results \in Seq(AgentResult), NEW k \in DOMAIN results, NEW said \in Sayings
    PROVE  LET role == results[k].role
               shorn == WithFailure(role, said)
           IN /\ shorn \in Seq(AgentResult)
              /\ \A other \in Role \ {role} : RoleText(shorn, other) = RoleText(results, other)
              /\ DOMAIN shorn = DOMAIN results
              /\ \A i \in DOMAIN results :
                    shorn[i].error = NoError => results[i].error = NoError /\ i # k
<1> DEFINE role == results[k].role
           shorn == WithFailure(role, said)
<1>1. /\ DOMAIN results = 1 .. Len(results) /\ Len(results) \in Nat
      /\ DOMAIN shorn = DOMAIN results
      /\ \A i \in DOMAIN results : results[i] \in AgentResult
    BY DEF WithFailure
<1>2. \A i \in DOMAIN results :
         /\ shorn[i].role = results[i].role
         /\ results[i].role # role => shorn[i] = results[i]
         /\ results[i].role = role => shorn[i].error = said
    BY <1>1 DEF WithFailure, AgentResult
<1>3. said # NoError
    BY ChainAssumption
<1>4. shorn \in Seq(AgentResult)
  <2>1. <<>> \in Sayings /\ <<>> \in Seq(Nat)
    BY ChainAssumption
  <2>2. ASSUME NEW i \in DOMAIN results PROVE shorn[i] \in AgentResult
    BY <1>1, <2>1, <2>2 DEF WithFailure, AgentResult
  <2>3. shorn = [i \in 1 .. Len(results) |-> shorn[i]]
    BY <1>1 DEF WithFailure
  <2> HIDE DEF shorn
  <2>4. QED
    BY <1>1, <2>2, <2>3
<1> HIDE DEF shorn
<1>5. ASSUME NEW other \in Role \ {role}
      PROVE  RoleText(shorn, other) = RoleText(results, other)
  <2>1. CASE \A i \in DOMAIN results : results[i].role # other
    BY <1>1, <1>2, <2>1 DEF RoleText
  <2>2. CASE \E i \in DOMAIN results : results[i].role = other
    <3>1. PICK i \in DOMAIN results :
             /\ results[i].role = other /\ ResultOf(results, other) = results[i]
             /\ \A j \in DOMAIN results : results[j].role = other => i <= j
        BY <1>1, <2>2, FirstResult
    <3>2. \E j \in DOMAIN shorn : shorn[j].role = other
        BY <1>1, <1>2, <2>2
    <3>3. PICK j \in DOMAIN shorn :
             /\ shorn[j].role = other /\ ResultOf(shorn, other) = shorn[j]
             /\ \A m \in DOMAIN shorn : shorn[m].role = other => j <= m
        BY <1>1, <3>2, FirstResult
    <3>4. i = j
        BY <1>1, <1>2, <3>1, <3>3
    <3>5. ResultOf(shorn, other) = ResultOf(results, other)
        BY <1>1, <1>2, <1>5, <3>1, <3>3, <3>4
    <3>6. QED
        BY <2>2, <3>2, <3>5 DEF RoleText
  <2>3. QED
    BY <2>1, <2>2
<1>6. \A i \in DOMAIN results : shorn[i].error = NoError => results[i].error = NoError /\ i # k
    BY <1>1, <1>2, <1>3
<1>7. QED
    BY <1>1, <1>4, <1>5, <1>6 DEF shorn

\* Fewer agents are successful with an answer taken away.
LEMMA FewerSuccessful ==
    ASSUME results \in Seq(AgentResult), Len(results) <= 3,
           NEW k \in DOMAIN results, results[k].error = NoError, NEW said \in Sayings
    PROVE  /\ Successful(results) \in 0 .. 3
           /\ Successful(WithFailure(results[k].role, said)) \in Nat
           /\ Successful(WithFailure(results[k].role, said)) < Successful(results)
<1> DEFINE shorn == WithFailure(results[k].role, said)
           all == {i \in DOMAIN results : results[i].error = NoError}
           left == {i \in DOMAIN shorn : shorn[i].error = NoError}
<1>1. left \subseteq all \ {k} /\ k \in all /\ all \subseteq 1 .. Len(results) /\ Len(results) \in Nat
  <2>1. /\ DOMAIN shorn = DOMAIN results
        /\ \A i \in DOMAIN results :
              shorn[i].error = NoError => results[i].error = NoError /\ i # k
    BY Shorn
  <2> HIDE DEF shorn
  <2>2. QED
    BY <2>1
<1>2. IsFiniteSet(1 .. Len(results)) /\ Cardinality(1 .. Len(results)) = Len(results)
  <2>1. ASSUME NEW n \in Nat PROVE IsFiniteSet(1 .. n) /\ Cardinality(1 .. n) = n
    <3>1. 1 \in Int /\ n \in Int
        OBVIOUS
    <3>2. IsFiniteSet(1 .. n) /\ Cardinality(1 .. n) = IF 1 > n THEN 0 ELSE n - 1 + 1
        BY ONLY <3>1, FS_Interval
    <3>3. QED
        BY <3>2
  <2>2. QED
    BY <1>1, <2>1
<1>3. IsFiniteSet(all) /\ Cardinality(all) <= Len(results)
    BY <1>1, <1>2, FS_Subset
<1>4. IsFiniteSet(all \ {k}) /\ Cardinality(all \ {k}) = Cardinality(all) - 1
    BY <1>1, <1>3, FS_RemoveElement
<1>5. IsFiniteSet(left) /\ Cardinality(left) <= Cardinality(all \ {k})
    BY <1>1, <1>4, FS_Subset
<1>6. Cardinality(left) \in Nat /\ Cardinality(all) \in Nat
    BY <1>3, <1>5, FS_CardinalityType
<1> HIDE DEF left, all
<1>7. Successful(results) = Cardinality(all) /\ Successful(shorn) = Cardinality(left)
    BY DEF Successful, left, all
<1> HIDE DEF shorn
<1>8. Successful(results) \in 0 .. 3 /\ Successful(shorn) \in Nat /\ Successful(shorn) < Successful(results)
    BY <1>1, <1>3, <1>4, <1>5, <1>6, <1>7
<1>9. QED
    BY <1>8 DEF shorn

\* What a chain claims, it claims of the evidence.
LEMMA Weakens ==
    ASSUME sources \in Seq(SourceFinding), sources # <<>>,
           results \in Seq(AgentResult), Len(results) <= 3,
           chain = Reconstructed(sources, results, related)
    PROVE  FailureWeakens
<1> DEFINE sure == {sources[i].confidence : i \in DOMAIN sources}
<1>1. sure \in SUBSET (0 .. 100) /\ sure # {}
  <2>1. \A i \in DOMAIN sources : sources[i] \in SourceFinding
    OBVIOUS
  <2>2. 1 \in DOMAIN sources
    OBVIOUS
  <2>3. QED
    BY <2>1, <2>2 DEF SourceFinding
<1>2. Sets!Max(sure) \in 0 .. 100
    BY <1>1, GreatestOf
<1> SUFFICES ASSUME NEW k \in DOMAIN results, NEW said \in Sayings
             PROVE  LET role == results[k].role
                        shorn == Reconstructed(sources, WithFailure(role, said), related)
                        other == IF role = "exploiter" THEN Consequences ELSE Attack
                    IN /\ results[k].error = NoError /\ chain.confidence > 0 =>
                             shorn.confidence < chain.confidence
                       /\ shorn.root_shell_possible /\ ~chain.root_shell_possible =>
                             /\ role # "scout" /\ ~Denied(other)
                             /\ Denied(Attack \o Consequences) \/ ~Claimed(other)
    BY DEF FailureWeakens
<1> DEFINE role == results[k].role
           given == WithFailure(role, said)
           shorn == Reconstructed(sources, given, related)
           other == IF role = "exploiter" THEN Consequences ELSE Attack
<1>3. ASSUME results[k].error = NoError, chain.confidence > 0
      PROVE  shorn.confidence < chain.confidence
  <2> DEFINE e == Sets!Max(sure)
             s == Successful(results)
             t == Successful(given)
  <2>1. s \in 0 .. 3 /\ t \in Nat /\ t < s
    BY <1>3, FewerSuccessful
  <2>2. chain.confidence = Worth(e, s) /\ shorn.confidence = Worth(e, t)
    BY DEF Reconstructed, ChainConfidence, Worth
  <2>3. e \in 0 .. 100
    BY <1>2
  <2> HIDE DEF e, s, t
  <2>4. QED
    BY <1>3, <2>1, <2>2, <2>3, WorthLess
<1>4. ASSUME shorn.root_shell_possible, ~chain.root_shell_possible
      PROVE  /\ role # "scout" /\ ~Denied(other)
             /\ Denied(Attack \o Consequences) \/ ~Claimed(other)
  <2>1. /\ given \in Seq(AgentResult) /\ role \in Role
        /\ \A r \in Role \ {role} : RoleText(given, r) = RoleText(results, r)
    <3>1. results[k] \in AgentResult
        OBVIOUS
    <3>2. role \in Role
        BY <3>1 DEF AgentResult
    <3>3. QED
        BY <3>2, Shorn
  <2> HIDE DEF given, role
  <2> DEFINE a == RoleText(given, "exploiter")
             c == RoleText(given, "reviewer")
  <2>2. a \in Seq(TextWord) /\ c \in Seq(TextWord) /\ Attack \in Seq(TextWord) /\ Consequences \in Seq(TextWord)
    BY <2>1, RoleTexts DEF Attack, Consequences
  <2>3. Claimed(a \o c) /\ ~Denied(a \o c)
    BY <1>4 DEF Reconstructed, RootShellSignal
  <2>4. ~Claimed(Attack \o Consequences) \/ Denied(Attack \o Consequences)
    BY <1>4 DEF Reconstructed, RootShellSignal, Attack, Consequences
  <2>5. /\ role # "exploiter" => a = Attack
        /\ role # "reviewer" => c = Consequences
    BY <2>1 DEF Role, Attack, Consequences
  <2> HIDE DEF a, c
  <2>6. ~Denied(a) /\ ~Denied(c)
    BY <2>2, <2>3, HeardTogether
  <2>7. Claimed(Attack) \/ Claimed(Consequences) => Claimed(Attack \o Consequences)
    BY <2>2, HeardTogether
  <2>8. CASE role = "exploiter"
    BY <2>4, <2>5, <2>6, <2>7, <2>8
  <2>9. CASE role = "reviewer"
    BY <2>4, <2>5, <2>6, <2>7, <2>9
  <2>10. CASE role = "scout"
    BY <2>3, <2>4, <2>5, <2>10
  <2>11. QED
    BY <2>1, <2>8, <2>9, <2>10 DEF Role
<1>5. QED
    BY <1>3, <1>4

-----------------------------------------------------------------------------

\* The ids of the findings a mission is about.
Own == {sources[i].id : i \in DOMAIN sources}

\* The ids related so far: each once, and those of the findings before any other.
RelatedInOrder ==
    /\ group \in Nat \ {0} /\ member \in Nat \ {0}
    /\ related \in Seq(Nat)
    /\ \A i, j \in DOMAIN related :
          i < j => /\ related[i] # related[j]
                   /\ related[j] \in Own => related[i] \in Own
    /\ group = 1 => \A i \in DOMAIN related : related[i] \in Own
    /\ \A k \in DOMAIN sources :
          group > 1 \/ k < member => \E i \in DOMAIN related : related[i] = sources[k].id

\* What stands at each stage of a mission.
ChainInv ==
    /\ mission \in {"asked", "relating", "reconstructed", "raised"}
    /\ sources \in Seq(SourceFinding) /\ results \in Seq(AgentResult) /\ Len(results) <= 3
    /\ RelatedInOrder
    /\ mission = "asked" => group = 1 /\ member = 1 /\ related = <<>>
    /\ mission \in {"relating", "reconstructed"} => sources # <<>>
    /\ mission = "reconstructed" => group > 1 /\ chain = Reconstructed(sources, results, related)

\* The ids of the findings are listed first.
LEMMA ListingsAre ==
    ASSUME sources \in Seq(SourceFinding), results \in Seq(AgentResult)
    PROVE  /\ Len(Listings) \in Nat /\ Len(Listings) >= 1 /\ DOMAIN Listings = 1 .. Len(Listings)
           /\ \A g \in DOMAIN Listings : Listings[g] \in Seq(Nat)
           /\ DOMAIN Listings[1] = DOMAIN sources
           /\ \A k \in DOMAIN sources : Listings[1][k] = sources[k].id
<1> DEFINE ids == [i \in DOMAIN sources |-> sources[i].id]
           found == [i \in DOMAIN results |-> results[i].findings]
<1>1. ids \in Seq(Nat)
  <2>1. \A i \in DOMAIN sources : sources[i] \in SourceFinding
    OBVIOUS
  <2>10. \A i \in DOMAIN sources : sources[i].id \in Nat
    BY <2>1 DEF SourceFinding
  <2>2. QED
    BY <2>10
<1>2. found \in Seq(Seq(Nat))
  <2>1. \A i \in DOMAIN results : results[i] \in AgentResult
    OBVIOUS
  <2>2. \A i \in DOMAIN results : results[i].findings \in Seq(Nat)
    BY <2>1 DEF AgentResult
  <2>3. QED
    BY <2>2
<1>3. DOMAIN ids = DOMAIN sources /\ \A k \in DOMAIN sources : ids[k] = sources[k].id
    OBVIOUS
<1> HIDE DEF ids, found
<1> DEFINE both == <<ids>> \o found
<1>4. /\ Len(both) \in Nat /\ Len(both) >= 1 /\ DOMAIN both = 1 .. Len(both)
      /\ both \in Seq(Seq(Nat)) /\ both[1] = ids
    BY <1>1, <1>2
<1>5. Listings = both
    BY DEF Listings, ids, found
<1>6. \A g \in DOMAIN both : both[g] \in Seq(Nat)
    BY <1>4
<1> HIDE DEF both
<1>7. QED
    BY <1>3, <1>4, <1>5, <1>6

\* A mission starts with nothing related.
LEMMA ChainStarts == ChainInit => ChainInv
<1> SUFFICES ASSUME ChainInit PROVE ChainInv
    OBVIOUS
<1>1. /\ sources \in Seq(SourceFinding) /\ mission = "asked" /\ results = <<>>
      /\ group = 1 /\ member = 1 /\ related = <<>>
    BY ChainAssumption DEF ChainInit, NothingRelated
<1>2. \A k \in DOMAIN sources : ~(k < 1)
    BY <1>1
<1>3. QED
    BY <1>1, <1>2 DEF ChainInv, RelatedInOrder

\* An id that is known already is skipped; a new one comes last, and is of another
\* finding only when those of the findings have all been related.
LEMMA RelateKeeps ==
    ASSUME ChainInv, RelateFinding
    PROVE  ChainInv'
<1> DEFINE id == Listings[group][member]
<1>1. /\ mission = "relating" /\ group <= Len(Listings) /\ member <= Len(Listings[group])
      /\ member' = member + 1 /\ UNCHANGED <<mission, sources, results, group, chain>>
      /\ related' = IF \E i \in DOMAIN related : related[i] = id THEN related ELSE Append(related, id)
    BY DEF RelateFinding
<1>2. /\ sources \in Seq(SourceFinding) /\ results \in Seq(AgentResult)
      /\ group \in Nat \ {0} /\ member \in Nat \ {0} /\ related \in Seq(Nat)
    BY DEF ChainInv, RelatedInOrder
<1>3. /\ \A i, j \in DOMAIN related :
            i < j => /\ related[i] # related[j]
                     /\ related[j] \in Own => related[i] \in Own
      /\ group = 1 => \A i \in DOMAIN related : related[i] \in Own
      /\ \A k \in DOMAIN sources :
            group > 1 \/ k < member => \E i \in DOMAIN related : related[i] = sources[k].id
    BY DEF ChainInv, RelatedInOrder
<1>4. group \in DOMAIN Listings /\ Listings[group] \in Seq(Nat)
  <2>1. /\ Len(Listings) \in Nat /\ DOMAIN Listings = 1 .. Len(Listings)
        /\ \A g \in DOMAIN Listings : Listings[g] \in Seq(Nat)
    BY <1>2, ListingsAre
  <2>2. group \in DOMAIN Listings
    BY <1>1, <1>2, <2>1
  <2>3. QED
    BY <2>1, <2>2
<1>5. member \in DOMAIN Listings[group] /\ id \in Nat
    BY <1>1, <1>2, <1>4
<1>6. group = 1 => member \in DOMAIN sources /\ id = sources[member].id /\ id \in Own
    BY <1>2, <1>5, ListingsAre DEF Own
<1>7. Own' = Own
    BY <1>1 DEF Own
<1>70. \A k \in DOMAIN sources : k \in Nat
    BY <1>2
<1> HIDE DEF id
<1>8. CASE \E i \in DOMAIN related : related[i] = id
  <2>1. related' = related
    BY <1>1, <1>8
  <2>2. \A k \in DOMAIN sources : group > 1 \/ k < member + 1 => \E i \in DOMAIN related : related[i] = sources[k].id
    BY <1>2, <1>3, <1>6, <1>8, <1>70
  <2>3. RelatedInOrder'
    <3>1. member + 1 \in Nat \ {0}
        BY <1>2
    <3> HIDE DEF Own
    <3>2. QED
        BY <1>1, <1>2, <1>3, <1>7, <2>1, <2>2, <3>1 DEF RelatedInOrder
  <2>4. QED
    BY <1>1, <2>1, <2>3 DEF ChainInv
<1>9. CASE ~\E i \in DOMAIN related : related[i] = id
  <2> DEFINE n == Len(related)
  <2>1. related' = Append(related, id)
    BY <1>1, <1>9
  <2>2. /\ related' \in Seq(Nat) /\ n \in Nat /\ DOMAIN related = 1 .. n /\ DOMAIN related' = 1 .. n + 1
        /\ related'[n + 1] = id /\ \A i \in 1 .. n : related'[i] = related[i]
    BY <1>2, <1>5, <2>1
  <2> HIDE DEF n
  <2>3. id \in Own => group = 1
    <3>1. CASE group > 1
        BY <1>3, <1>9, <3>1 DEF Own
    <3>2. QED
        BY <1>2, <3>1
  <2>4. \A i, j \in DOMAIN related' :
           i < j => /\ related'[i] # related'[j]
                    /\ related'[j] \in Own => related'[i] \in Own
    <3> SUFFICES ASSUME NEW i \in 1 .. n + 1, NEW j \in 1 .. n + 1, i < j
                 PROVE  related'[i] # related'[j] /\ (related'[j] \in Own => related'[i] \in Own)
        BY <2>2
    <3>1. i \in 1 .. n
        BY <2>2
    <3>2. CASE j \in 1 .. n
        BY <1>3, <2>2, <3>1, <3>2
    <3>3. CASE j = n + 1
        BY <1>3, <1>9, <2>2, <2>3, <3>1, <3>3
    <3>4. QED
        BY <2>2, <3>2, <3>3
  <2>5. group = 1 => \A i \in DOMAIN related' : related'[i] \in Own
    <3> SUFFICES ASSUME group = 1, NEW i \in 1 .. n + 1 PROVE related'[i] \in Own
        BY <2>2
    <3>1. CASE i \in 1 .. n
        BY <1>3, <2>2, <3>1
    <3>2. CASE i = n + 1
        BY <1>6, <2>2, <3>2
    <3>3. QED
        BY <2>2, <3>1, <3>2
  <2>6. \A k \in DOMAIN sources :
           group > 1 \/ k < member + 1 => \E i \in DOMAIN related' : related'[i] = sources[k].id
    <3> SUFFICES ASSUME NEW k \in DOMAIN sources, group > 1 \/ k < member + 1
                 PROVE  \E i \in DOMAIN related' : related'[i] = sources[k].id
        OBVIOUS
    <3>1. CASE group > 1 \/ k < member
      <4>1. PICK i \in DOMAIN related : related[i] = sources[k].id
        BY <1>3, <3>1
      <4>2. i \in DOMAIN related' /\ related'[i] = related[i]
        BY <2>2
      <4>3. QED
        BY <4>1, <4>2
    <3>2. CASE ~(group > 1) /\ k = member
      <4>1. group = 1
        BY <1>2, <3>2
      <4>2. sources[k].id = id
        BY <1>6, <3>2, <4>1
      <4>3. n + 1 \in DOMAIN related' /\ related'[n + 1] = id
        BY <2>2
      <4>4. QED
        BY <4>2, <4>3
    <3>3. QED
        BY <1>2, <1>70, <3>1, <3>2
  <2>7. RelatedInOrder'
    <3>1. member + 1 \in Nat \ {0}
        BY <1>2
    <3>2. /\ group' \in Nat \ {0} /\ member' \in Nat \ {0} /\ related' \in Seq(Nat)
          /\ group' = group /\ sources' = sources /\ member' = member + 1
        BY <1>1, <1>2, <2>2, <3>1
    <3>3. QED
        BY <1>7, <2>4, <2>5, <2>6, <3>2 DEF RelatedInOrder
  <2>8. QED
    BY <1>1, <2>7 DEF ChainInv
<1>10. QED
    BY <1>8, <1>9

\* With the end of the first listing the ids of the findings are all related.
LEMMA ListingKeeps ==
    ASSUME ChainInv, NextListing
    PROVE  ChainInv'
<1>1. /\ mission = "relating" /\ group <= Len(Listings) /\ member > Len(Listings[group])
      /\ group' = group + 1 /\ member' = 1 /\ UNCHANGED <<mission, sources, results, related, chain>>
    BY DEF NextListing
<1>2. /\ sources \in Seq(SourceFinding) /\ results \in Seq(AgentResult)
      /\ group \in Nat \ {0} /\ member \in Nat \ {0}
    BY DEF ChainInv, RelatedInOrder
<1>3. \A k \in DOMAIN sources : \E i \in DOMAIN related : related[i] = sources[k].id
  <2>1. CASE group > 1
    BY <2>1 DEF ChainInv, RelatedInOrder
  <2>2. CASE group = 1
    <3>1. Listings[1] \in Seq(Nat) /\ DOMAIN Listings[1] = DOMAIN sources
        BY <1>1, <1>2, <2>2, ListingsAre
    <3>2. Len(Listings[1]) = Len(sources) /\ Len(sources) \in Nat /\ DOMAIN sources = 1 .. Len(sources)
        BY <1>2, <3>1
    <3>3. \A k \in DOMAIN sources : k < member
        BY <1>1, <1>2, <2>2, <3>2
    <3>4. QED
        BY <3>3 DEF ChainInv, RelatedInOrder
  <2>3. QED
    BY <1>2, <2>1, <2>2
<1>4. RelatedInOrder'
    BY <1>1, <1>2, <1>3 DEF ChainInv, RelatedInOrder, Own
<1>5. QED
    BY <1>1, <1>4 DEF ChainInv

\* The invariant of a mission.
LEMMA ChainInvariant == ChainSpec => []ChainInv
<1>1. ASSUME ChainInv, [ChainNext]_chainVars
      PROVE  ChainInv'
  <2>1. CASE MissionFails
    BY <1>1, <2>1 DEF MissionFails, ChainInv, RelatedInOrder, Own
  <2>2. CASE RunMission
    <3>1. results' \in Seq(AgentResult) /\ Len(results') <= 3
        BY <2>2, ChainAssumption DEF RunMission
    <3>2. QED
        BY <1>1, <2>2, <3>1 DEF RunMission, ChainInv, RelatedInOrder, Own
  <2>3. CASE RelateFinding
    BY <1>1, <2>3, RelateKeeps
  <2>4. CASE NextListing
    BY <1>1, <2>4, ListingKeeps
  <2>5. CASE Reconstruct
    <3>1. Len(Listings) \in Nat /\ Len(Listings) >= 1 /\ group \in Nat
        BY <1>1, ListingsAre DEF ChainInv, RelatedInOrder
    <3>2. group > 1
        BY <2>5, <3>1 DEF Reconstruct
    <3>3. QED
        BY <1>1, <2>5, <3>2 DEF Reconstruct, ChainInv, RelatedInOrder, Own
  <2>6. CASE MissionOver \/ UNCHANGED chainVars
    <3>1. UNCHANGED <<mission, sources, results, group, member, related, chain>>
        BY <2>6 DEF MissionOver, chainVars
    <3>2. RelatedInOrder' <=> RelatedInOrder
        BY <3>1 DEF RelatedInOrder, Own
    <3>3. Reconstructed(sources, results, related)' = Reconstructed(sources, results, related)
        BY <3>1 DEF Reconstructed, ChainConfidence, RoleText, ResultOf, Successful
    <3>4. QED
        BY <1>1, <3>1, <3>2, <3>3 DEF ChainInv
  <2>7. QED
    BY <1>1, <2>1, <2>2, <2>3, <2>4, <2>5, <2>6 DEF ChainNext
<1>2. QED
    BY <1>1, ChainStarts, PTL DEF ChainSpec

\* Neither of the two texts is denied where root is possible, nor claimed without.
LEMMA Stands ==
    ASSUME results \in Seq(AgentResult), chain = Reconstructed(sources, results, related)
    PROVE  DenialStands
<1>1. Attack \in Seq(TextWord) /\ Consequences \in Seq(TextWord)
    BY RoleTexts DEF Attack, Consequences
<1>2. chain.root_shell_possible <=> Claimed(Attack \o Consequences) /\ ~Denied(Attack \o Consequences)
    BY DEF Reconstructed, RootShellSignal, Attack, Consequences
<1>3. ASSUME NEW text \in {Attack, Consequences}
      PROVE  /\ Denied(text) => Denied(Attack \o Consequences)
             /\ Claimed(text) => Claimed(Attack \o Consequences)
    BY <1>1, HeardTogether
<1>4. QED
    BY <1>2, <1>3 DEF DenialStands

\* Whatever the agents return and fail with, the chain claims root over nobody's
\* denial and hears a claim nothing denies, an agent that fails makes it claim less,
\* unless its own error claims root, and it names the findings it came from first.
THEOREM ChainRestsOnEvidence == ChainSpec => []ChainOnEvidence
<1>1. ASSUME ChainInv, mission = "reconstructed"
      PROVE  /\ chain.severity = "critical" <=> chain.root_shell_possible
             /\ DenialStands
             /\ FailureWeakens
             /\ RelatesSources
  <2>1. /\ sources \in Seq(SourceFinding) /\ sources # <<>> /\ results \in Seq(AgentResult)
        /\ Len(results) <= 3 /\ chain = Reconstructed(sources, results, related)
        /\ group > 1 /\ RelatedInOrder
    BY <1>1 DEF ChainInv
  <2>2. chain.severity = "critical" <=> chain.root_shell_possible
    BY <2>1 DEF Reconstructed, RootShellSignal
  <2>3. DenialStands
    BY <2>1, Stands
  <2>4. FailureWeakens
    BY <2>1, Weakens
  <2>5. chain.related = related
    BY <2>1 DEF Reconstructed
  <2>6. RelatesSources
    BY <2>1, <2>5 DEF RelatesSources, RelatedInOrder, Own
  <2>7. QED
    BY <2>2, <2>3, <2>4, <2>6
<1>2. ChainInv => ChainOnEvidence
    BY <1>1 DEF ChainOnEvidence
<1>3. QED
    BY <1>2, ChainInvariant, PTL
=============================================================================
