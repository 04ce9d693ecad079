---------------------------- MODULE RootfsSearch ----------------------------
(***************************************************************************)
(* iter_rootfs_candidates of detectors/__init__.py: which directories of   *)
(* an extracted tree the detectors are run on.  A directory is the path to *)
(* it from the root, a sequence of names, which are numbers in their       *)
(* order.  A tree is a record:                                             *)
(*   dirs: its directories,                                                *)
(*   like: those that look like a root filesystem,                         *)
(*   links: those that are symbolic links,                                 *)
(*   unreadable: those whose entries cannot be listed.                     *)
(***************************************************************************)
EXTENDS Integers, Sequences

CONSTANTS
    Trees,          \* what extraction may have left
    MaxDepth,       \* MAX_ROOTFS_DEPTH
    MaxCandidates   \* MAX_ROOTFS_CANDIDATES

Root == <<>>
Tree == [dirs : SUBSET Seq(Nat), like : SUBSET Seq(Nat),
         links : SUBSET Seq(Nat), unreadable : SUBSET Seq(Nat)]

ASSUME SearchAssumption ==
    /\ MaxDepth \in Nat /\ MaxCandidates \in Nat \ {0}
    /\ Trees \subseteq Tree
    /\ \A t \in Trees :
          /\ Root \in t.dirs \ t.links /\ t.like \subseteq t.dirs
          /\ \A dir \in t.dirs : \A n \in 0 .. Len(dir) : SubSeq(dir, 1, n) \in t.dirs

VARIABLES
    tree,
    candidates,     \* found so far
    queue,          \* the directories to enter, each with its depth
    children, depth \* of the directory being read: those still to look at; its depth

searchVars == <<tree, candidates, queue, children, depth>>

-----------------------------------------------------------------------------

\* The directory is the other one, or somewhere in it.
Within(dir, other) == Len(other) <= Len(dir) /\ \A i \in 1 .. Len(other) : dir[i] = other[i]

\* The directories in one without the links; none if it is unreadable.
Children(dir) ==
    {d \in tree.dirs \ tree.links :
        Within(d, dir) /\ Len(d) = Len(dir) + 1 /\ dir \notin tree.unreadable}

\* The root is tried first, and its directories in any case.
SearchInit ==
    /\ tree \in Trees
    /\ candidates = IF Root \in tree.like THEN <<Root>> ELSE <<>>
    /\ queue = <<[dir |-> Root, depth |-> 0]>>
    /\ children = {} /\ depth = 0

Full == Len(candidates) >= MaxCandidates

\* Mutant of Popped: the directory found last is entered first.
PoppedLast == [first |-> queue[Len(queue)], rest |-> SubSeq(queue, 1, Len(queue) - 1)]
Popped == [first |-> Head(queue), rest |-> Tail(queue)]

\* One turn of the while loop begins: the directory is listed, unless it is too deep.
EnterDirectory ==
    /\ children = {} /\ queue # <<>> /\ ~Full
    /\ queue' = Popped.rest
    /\ depth' = Popped.first.depth
    /\ children' = IF Popped.first.depth >= MaxDepth THEN {} ELSE Children(Popped.first.dir)
    /\ UNCHANGED <<tree, candidates>>

LeastName(child) == \A other \in children : child[depth + 1] <= other[depth + 1]

\* A child that looks like a root filesystem is a candidate and not entered; at
\* the limit the rest of the children is left alone.
ConsiderChild(child) ==
    /\ LeastName(child)
    /\ \/ /\ child \in tree.like
          /\ candidates' = Append(candidates, child)
          /\ children' = IF Len(candidates') >= MaxCandidates THEN {} ELSE children \ {child}
          /\ UNCHANGED queue
       \/ /\ child \notin tree.like
          /\ queue' = Append(queue, [dir |-> child, depth |-> depth + 1])
          /\ children' = children \ {child}
          /\ UNCHANGED candidates
    /\ UNCHANGED <<tree, depth>>

SearchOver == children = {} /\ (queue = <<>> \/ Full)

SearchNext ==
    \/ EnterDirectory
    \/ \E child \in children : ConsiderChild(child)
    \/ SearchOver /\ UNCHANGED searchVars

SearchSpec == SearchInit /\ [][SearchNext]_searchVars

-----------------------------------------------------------------------------

\* A directory that can be reached, and is in no root filesystem but the root.
Open(dir) ==
    \A above \in tree.dirs : Within(dir, above) =>
        /\ above \notin tree.links
        /\ above # dir => above \notin tree.unreadable
        /\ above # dir /\ above \in tree.like => above = Root

Eligible == {dir \in tree.like : Len(dir) <= MaxDepth /\ Open(dir)}

\* The search finds the shallowest root filesystems, all of them unless there are
\* more than the limit, each once, and none inside another one that it has found,
\* except inside the root of the extraction, since binwalk nests what it carves
\* (iter_rootfs_candidates).
ShallowestRootfses ==
    SearchOver =>
        LET searched == {candidates[i] : i \in DOMAIN candidates}
        IN /\ \A i, j \in DOMAIN candidates : candidates[i] = candidates[j] => i = j
           /\ searched \subseteq Eligible
           /\ searched # Eligible => Len(candidates) = MaxCandidates
           /\ \A dir \in searched, other \in Eligible \ searched : Len(dir) <= Len(other)
=============================================================================
