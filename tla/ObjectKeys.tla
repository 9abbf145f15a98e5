----------------------------- MODULE ObjectKeys -----------------------------
(***************************************************************************)
(* Keys, paths and prefixes, and what the drivers and scoped views do to   *)
(* them.  A path is the sequence of segments that splitting it at its      *)
(* slashes gives: "a/b" is <<"a", "b">>, "a/" is <<"a", "">>, "" is <<"">>.*)
(* A segment may contain backslashes, which providers and POSIX take for   *)
(* characters like any other, but normalizeKey for slashes.                *)
(***************************************************************************)
EXTENDS SequencesExt

CONSTANTS
    Empty,          \* the empty segment
    Dot,            \* the segment that is dropped
    Up,             \* the segment "..", of the parent directory
    Refused,        \* segments no key may have: "..", the NUL byte
    Pieces,         \* segment with a backslash -> what splitting it there gives,
                    \* without the empty segments and the dots
    Beginnings      \* pairs <<m, n>> of segments: n begins with m

ASSUME SegmentsAssumption ==
    Empty # Dot /\ Up \in Refused /\ {Empty, Dot} \cap Refused = {}

\* A piece has no backslash, and may be refused.
ASSUME PiecesAssumption ==
    /\ DOMAIN Pieces \cap ({Empty, Dot} \cup Refused) = {}
    /\ \A s \in DOMAIN Pieces :
          /\ Pieces[s] \in Seq(Range(Pieces[s]))
          /\ Range(Pieces[s]) \cap ({Empty, Dot} \cup DOMAIN Pieces) = {}

\* Not a key: normalizeKey throws.
Rejected == <<>>

\* What is left of a segment: nothing if it is empty or a dot, and its pieces if
\* backslashes become slashes in it.
Kept(segment) ==
    IF segment \in {Empty, Dot} THEN <<>>
    ELSE IF segment \in DOMAIN Pieces THEN Pieces[segment]
    ELSE <<segment>>

\* A refused segment, or none left, is an error.  (A function of the path, so that
\* TLC evaluates the path once and not for each of its segments.)
NormalizeKey(path) ==
    LET key[p \in {path}] ==
            LET kept[i \in 0 .. Len(p)] ==
                    IF i = 0 THEN <<>> ELSE kept[i - 1] \o Kept(p[i])
            IN IF \E i \in DOMAIN p : Range(Kept(p[i])) \cap Refused # {}
               THEN Rejected ELSE kept[Len(p)]
    IN key[path]

JoinKey(prefix, key) == prefix \o key

\* Names outside the prefix are returned unchanged.
StripKey(prefix, name) ==
    IF IsStrictPrefix(prefix, name) THEN SubSeq(name, Len(prefix) + 1, Len(name)) ELSE name

\* The characters of m are the first of n's.
BeginsWith(n, m) == n = m \/ m = Empty \/ <<m, n>> \in Beginnings

\* The place of a key below the root directory.  A normal key cannot leave it, but
\* one that begins with two dots, such as "..data", is taken for one that does.
ResolveInsideRoot(key) ==
    LET normalized == NormalizeKey(key) IN
    IF normalized # Rejected /\ BeginsWith(normalized[1], Up) THEN Rejected ELSE normalized

\* How a provider tests a prefix: character by character, not by segment.
HasPrefix(key, prefix) ==
    /\ Len(prefix) \in 1 .. Len(key)
    /\ \A i \in 1 .. Len(prefix) - 1 : key[i] = prefix[i]
    /\ BeginsWith(key[Len(prefix)], Last(prefix))

\* A prefix of nothing but slashes.
Blank(prefix) == \A i \in DOMAIN prefix : prefix[i] = Empty

(***************************************************************************)
(* A view confined to a scope, itself a key; <<>> stands for no view.      *)
(***************************************************************************)

InScope(scope, path) ==
    LET key == NormalizeKey(path) IN
    IF scope # <<>> /\ key = Rejected THEN Rejected ELSE JoinKey(scope, key)

\* A trailing slash, though no trailing backslash, survives the normalisation of a
\* listing prefix.
ListPrefix(scope, prefix) ==
    IF scope = <<>> THEN prefix
    ELSE IF Blank(prefix) THEN scope \o <<Empty>>
    ELSE IF NormalizeKey(prefix) = Rejected THEN Rejected
    ELSE InScope(scope, prefix) \o (IF Last(prefix) = Empty THEN <<Empty>> ELSE <<>>)

\* What a view reports of a path of the storage.
OutOfScope(scope, path) == StripKey(scope, path)
=============================================================================
