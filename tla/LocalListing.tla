---------------------------- MODULE LocalListing ----------------------------
(***************************************************************************)
(* Pages of a recursive listing of the local driver, and iterate(), which  *)
(* asks for them one after the other while files come and go.              *)
(*                                                                         *)
(* A page is a walk of the whole tree.  Each directory is visited before   *)
(* its entries, and these in the order of localeCompare; what does not     *)
(* come after the cursor is skipped, and that is decided by the operator   *)
(* <=, which compares the UTF-16 code units of sortKeyOf.  Both compare    *)
(* keys name by name, so a name is known by its places in the two orders.  *)
(* The key of a directory ends in a slash: its last name is the empty one. *)
(* A directory that cannot be read is taken for an empty one, the base of  *)
(* the listing too, and the listing succeeds without what it holds.        *)
(***************************************************************************)
EXTENDS Integers, FiniteSets, SequencesExt

CONSTANTS
    Names,          \* names of files and directories
    Paths,          \* keys of files: sequences of names
    Empty,          \* the empty name
    LocaleRank,     \* a name's place in the order of localeCompare
    CodeRank,       \* its place in the order of code units, a slash after it
    Limit,          \* entries of a page
    MaxChanges,     \* bound: files created or removed during the listing
    None            \* no cursor

Ranks == [Names \cup {Empty} -> Nat]

ASSUME EmptyAssumption == Empty \notin Names
ASSUME LocaleAssumption ==
    LocaleRank \in Ranks /\ \A n \in Names : LocaleRank[Empty] < LocaleRank[n]
ASSUME CodeAssumption == CodeRank \in Ranks
ASSUME DistinctAssumption ==
    \A m, n \in Names \cup {Empty} :
        m # n => LocaleRank[m] # LocaleRank[n] /\ CodeRank[m] # CodeRank[n]
ASSUME LimitAssumption == Limit \in Nat \ {0} /\ MaxChanges \in Nat
ASSUME PathsAssumption == Paths \subseteq Seq(Names) \ {<<>>} /\ IsFiniteSet(Paths)

\* The key of every directory that holds a file.
Directories(files) ==
    UNION {{SubSeq(p, 1, i) \o <<Empty>> : i \in 1 .. Len(p) - 1} : p \in files}

ASSUME NoneAssumption == None \notin Paths \cup Directories(Paths)

\* The directory that is listed.
Root == <<Empty>>

VARIABLES
    tree,       \* the files
    cursor,     \* where the last page ended, or None
    finished,   \* iterate() has no more pages to ask for
    listed,     \* file -> how often iterate() has yielded it
    steady,     \* history: files there since the beginning
    missed,     \* history: files that a page did not see
    changes     \* files created or removed so far

vars == <<tree, cursor, finished, listed, steady, missed, changes>>

\* A name is a file or a directory, not both.
WellFormed(files) == \A p, q \in files : p # q => ~IsPrefix(p, q)

TypeOK ==
    /\ tree \in SUBSET Paths /\ WellFormed(tree)
    /\ cursor \in Paths \cup Directories(Paths) \cup {None}
    /\ finished \in BOOLEAN
    /\ listed \in [Paths -> 0 .. 2]
    /\ steady \in SUBSET tree /\ missed \in SUBSET Paths
    /\ changes \in 0 .. MaxChanges

Init ==
    /\ tree \in {files \in SUBSET Paths : WellFormed(files)}
    /\ cursor = None
    /\ finished = FALSE
    /\ listed = [p \in Paths |-> 0]
    /\ steady = tree /\ missed = {}
    /\ changes = 0

(***************************************************************************)
(* The two orders.                                                         *)
(***************************************************************************)

Lexicographic(rank, p, q) ==
    \/ IsStrictPrefix(p, q)
    \/ \E i \in DOMAIN p \cap DOMAIN q :
          /\ rank[p[i]] < rank[q[i]]
          /\ \A j \in 1 .. i - 1 : p[j] = q[j]

\* walk(): a directory, then what it holds; entries in the locale's order.
VisitedBefore(p, q) == Lexicographic(LocaleRank, p, q)

\* sortKeyOf(p) < sortKeyOf(q)
KeyBelow(p, q) == Lexicographic(CodeRank, p, q)

\* (Faulty variant: every page begins at the beginning.)
SkippedNever(e) == FALSE

\* (Faulty variant: the entry at the cursor is not skipped.)
SkippedBelowOnly(e) == cursor # None /\ KeyBelow(e, cursor)

Skipped(e) == cursor # None /\ (e = cursor \/ KeyBelow(e, cursor))

\* What lies in a directory that cannot be read.
Unseen(e, unread) == \E d \in unread : e # d /\ IsStrictPrefix(Front(d), e)

\* What a walk comes to from the cursor on, and the part of it before e.
ToVisit(unread) ==
    {e \in tree \cup Directories(tree) : ~Skipped(e) /\ ~Unseen(e, unread)}

VisitedFirst(e, unread) == {d \in ToVisit(unread) : VisitedBefore(d, e)}

(***************************************************************************)
(* iterate(), and others at work on the files.                             *)
(***************************************************************************)
PageWithout(unread) ==
    LET page == {e \in ToVisit(unread) : Cardinality(VisitedFirst(e, unread)) < Limit}
        last == CHOOSE e \in page : page \subseteq VisitedFirst(e, unread) \cup {e}
    IN  /\ listed' = [p \in Paths |->
                         IF p \in page /\ listed[p] < 2 THEN listed[p] + 1 ELSE listed[p]]
        /\ finished' = (page = ToVisit(unread))
        /\ cursor' = IF page = ToVisit(unread) THEN None ELSE last
        /\ missed' = missed \cup {p \in tree : ~Skipped(p) /\ Unseen(p, unread)}
        /\ UNCHANGED <<tree, steady, changes>>

Page ==
    /\ ~finished
    /\ \E unread \in SUBSET (Directories(tree) \cup {Root}) : PageWithout(unread)

\* (Faulty variant: a file may take the place of a directory.)
CreateOverDirectory(p) ==
    /\ changes < MaxChanges
    /\ p \notin tree
    /\ tree' = tree \cup {p}
    /\ changes' = changes + 1
    /\ UNCHANGED <<cursor, finished, listed, steady, missed>>

Create(p) ==
    /\ changes < MaxChanges
    /\ p \notin tree /\ WellFormed(tree \cup {p})
    /\ tree' = tree \cup {p}
    /\ changes' = changes + 1
    /\ UNCHANGED <<cursor, finished, listed, steady, missed>>

Unlink(p) ==
    /\ changes < MaxChanges
    /\ tree' = tree \ {p}
    /\ steady' = steady \ {p}
    /\ changes' = changes + 1
    /\ UNCHANGED <<cursor, finished, listed, missed>>

Others == \E p \in Paths : Create(p) \/ (p \in tree /\ Unlink(p))

Next == Page \/ (~finished /\ Others)

Spec == Init /\ [][Next]_vars /\ WF_vars(Page)

(***************************************************************************)
(* Properties.                                                             *)
(***************************************************************************)

\* When iterate() ends it has yielded every file that was there all the time
\* exactly once, wherever its pages ended and whatever else was created or
\* removed between them; only what lay in a directory that a page could not
\* read may be missing, and even that is never yielded twice.
\* (docs/local.md: cursor pagination is stable.)
EverySteadyFileOnce ==
    finished => \A p \in steady : listed[p] = 1 \/ (p \in missed /\ listed[p] = 0)

\* The pages come to an end: each begins after the one before.
IterateEnds == <>finished
=============================================================================
