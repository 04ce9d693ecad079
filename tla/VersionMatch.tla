--------------------------- MODULE VersionMatch ---------------------------
(***************************************************************************)
(* Version ordering and range matching of cve_db/version.py.               *)
(*                                                                         *)
(* A version string is the sequence of its runs: decimal runs, alphabetic  *)
(* runs and separators.  Only the order of alphabetic runs matters, so     *)
(* they are members of a set Word with the (lexicographic) order WordLess. *)
(***************************************************************************)
EXTENDS Integers, Sequences

CONSTANTS Word,             \* the lower-cased alphabetic runs
          WordLess(_, _),   \* Python's < on them
          NoBound           \* None, as the value of a missing range bound

ASSUME WordOrder ==
    /\ \A u, v \in Word : WordLess(u, v) \in BOOLEAN
    /\ \A u \in Word : ~WordLess(u, u)
    /\ \A u, v \in Word : u # v => WordLess(u, v) \/ WordLess(v, u)
    /\ \A u, v, w \in Word : WordLess(u, v) /\ WordLess(v, w) => WordLess(u, w)

\* Runs carry the tags of the Python keys: (0, int) and (1, str); the
\* separators between them, which the regular expression skips, have tag 2.
Number == {0} \X Nat
Alpha == {1} \X Word
Chunk == Number \cup Alpha
Dot == <<2, 0>>
Dash == <<2, 1>>
Star == <<2, 2>>
Separator == {Dot, Dash, Star}

Key == Seq(Chunk)
Version == Seq(Chunk \cup Separator)

\* What a CPE stores when it does not name a version: "", "*" or "-".
Wildcard == {<<>>, <<Star>>, <<Dash>>}

\* The runs the regular expression finds, from left to right.
Taken(key, run) == IF run[1] = 2 THEN key ELSE Append(key, run)
VersionKey(version) ==
    LET key[n \in 0 .. Len(version)] == IF n = 0 THEN <<>> ELSE Taken(key[n - 1], version[n])
    IN key[Len(version)]

-----------------------------------------------------------------------------
(* Python's comparison of tuples of (tag, value) pairs.                     *)

ChunkLess(c, d) ==
    \/ c[1] < d[1]
    \/ c[1] = 0 /\ d[1] = 0 /\ c[2] < d[2]
    \/ c[1] = 1 /\ d[1] = 1 /\ WordLess(c[2], d[2])

\* The keys agree before position i.
SameBefore(a, b, i) == \A j \in 1 .. i - 1 : a[j] = b[j]

KeyLess(a, b) ==
    \/ \E i \in 1 .. Len(a) :
          i <= Len(b) /\ SameBefore(a, b, i) /\ ChunkLess(a[i], b[i])
    \/ Len(a) < Len(b) /\ SameBefore(a, b, Len(a) + 1)

Compare(left, right) ==
    CASE VersionKey(left) = VersionKey(right) -> 0
      [] VersionKey(left) # VersionKey(right)
         /\ KeyLess(VersionKey(left), VersionKey(right)) -> -1
      [] OTHER -> 1

-----------------------------------------------------------------------------
(* Ranges of an NVD cpeMatch entry, and the match itself.                   *)

Bound == Version \cup {NoBound}

VersionRange == [start_including : Bound, start_excluding : Bound,
                 end_including : Bound, end_excluding : Bound]

\* Mutant of IsBounded: a range without a bound is used.
Unchecked(range) == TRUE
IsBounded(range) == \E name \in DOMAIN range : range[name] # NoBound

Contains(range, version) ==
    /\ IsBounded(range)
    /\ version # <<>>
    /\ range.start_including # NoBound => Compare(version, range.start_including) >= 0
    /\ range.start_excluding # NoBound => Compare(version, range.start_excluding) > 0
    /\ range.end_including # NoBound => Compare(version, range.end_including) <= 0
    /\ range.end_excluding # NoBound => Compare(version, range.end_excluding) < 0

\* An unbounded range is stored as None, which Contains refuses as well.
MatchesVersion(cpeVersion, wanted, range) ==
    /\ wanted # <<>>
    /\ \/ cpeVersion \notin Wildcard /\ Compare(cpeVersion, wanted) = 0
       \/ Contains(range, wanted)
=============================================================================
