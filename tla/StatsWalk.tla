------------------------------- MODULE StatsWalk -------------------------------
(***************************************************************************)
(* The directory walk and the report of src/tool/statistics.py: main()     *)
(* passes the generator scan_dir(root, include, exclude) to print_stats,   *)
(* which adds each FileInfo to a per-type row and to the [SUM] row as it  *)
(* is yielded, then prints every row with its share of the total size.    *)
(*                                                                         *)
(* A path is the sequence of entries from the root.  Path.is_file() and    *)
(* is_dir() follow symbolic links; when resolving a path takes more than   *)
(* MaxLinks links the system call fails with ELOOP and both return False.  *)
(* A file's FileCodeInfo is abstracted to its size.                        *)
(***************************************************************************)
EXTENDS Integers, Sequences, SequencesExt, FiniteSets

CONSTANTS
  Entries,    \* the files, directories and links of the tree
  Root,       \* the ROOT_DIR argument
  Kind,       \* each entry's kind: "file", "dir" or "link"
  Children,   \* the entries of each directory
  Target,     \* the directory each link points to
  FType,      \* file_type_from_name of each file, or NoType
  NoType,     \* a name no FILE_NAME_GLOB matches
  MaxLinks    \* the kernel's limit on links in one path (40)

Files == {e \in Entries : Kind[e] = "file"}
Types == {FType[f] : f \in Files} \ {NoType}

ASSUME /\ Root \in Entries /\ Kind[Root] = "dir"
       /\ \A e \in Entries : Kind[e] = "link" => Kind[Target[e]] = "dir"

VARIABLES
  size,      \* st_size of each file
  decodable, \* open(file, 'r') can decode the file's bytes
  incGiven,  \* a non-empty include list was given
  incMatch,  \* the files some include glob matches
  excMatch,  \* the files some exclude glob matches
  pending,   \* the paths scan_dir has listed and not yet looked at
  counted,   \* how often each file has been added to the report
  byType,    \* si_by_ft: [file_count, file_size] per type seen so far
  total,     \* si_sum: [file_count, file_size]
  phase      \* "scan", "done" or "crashed" (an exception ended main)

vars == <<size, decodable, incGiven, incMatch, excMatch, pending, counted, byType, total, phase>>

-----------------------------------------------------------------------------

\* The number of links resolved on the way to the path's last entry.
Links(p) == Cardinality({i \in DOMAIN p : Kind[p[i]] = "link"})

IsFile(p) == Kind[Last(p)] = "file" /\ Links(p) <= MaxLinks
IsDir(p) == Kind[Last(p)] \in {"dir", "link"} /\ Links(p) <= MaxLinks

\* The directory a directory path resolves to.
Resolved(p) == IF Kind[Last(p)] = "link" THEN Target[Last(p)] ELSE Last(p)

\* dir_path.iterdir(): the paths of the directory's entries.
Listing(p) == {Append(p, e) : e \in Children[Resolved(p)]}

\* Plausible slips, each a variant of one definition below.

\* scan_dir yielding scan_file's None for a name of no known type
Selected_NoTypeCheck(f) ==
  /\ ~(incGiven /\ f \notin incMatch)
  /\ f \notin excMatch

\* The tests scan_dir and scan_file make of a file: the include and
\* exclude globs, then a type from its name.
Selected(f) ==
  /\ ~(incGiven /\ f \notin incMatch)
  /\ f \notin excMatch
  /\ FType[f] # NoType

\* a row update that adds the size but forgets 'file_count += 1'
AddFile_SizeOnly(row, s) == [file_count |-> row.file_count, file_size |-> row.file_size + s]

\* FileCodeInfo.__iadd__ on the two fields kept: one more file of size s.
AddFile(row, s) == [file_count |-> row.file_count + 1, file_size |-> row.file_size + s]

ZeroRow == [file_count |-> 0, file_size |-> 0]

-----------------------------------------------------------------------------

\* The files some FILE_NAME_GLOB names: a glob that matches only other
\* files, or an include list that is empty, selects the same files.
Typed == {f \in Files : FType[f] # NoType}

Init ==
  /\ size \in [Files -> {0, 1}]
  /\ decodable \in {d \in [Files -> BOOLEAN] : \A f \in Files \ Typed : d[f]}
  /\ incGiven \in BOOLEAN
  /\ incMatch \in IF incGiven THEN SUBSET Typed ELSE {{}}
  /\ excMatch \in SUBSET Typed
  /\ pending = Listing(<<Root>>)
  /\ counted = [f \in Files |-> 0]
  /\ byType = [t \in {} |-> ZeroRow]
  /\ total = ZeroRow
  /\ phase = "scan"

\* One iteration of 'for sub_path in dir_path.iterdir()' of any active
\* scan_dir call: a file that passes the tests is scanned and yielded, and
\* print_stats' loop adds it at once; a directory is walked by a nested
\* scan_dir; anything else (ELOOP included) is passed over.  scan_code
\* reading a file it cannot decode raises UnicodeDecodeError out of the
\* generator and of print_stats, before any line of the report.
VisitEntry ==
  /\ phase = "scan"
  /\ \E p \in pending :
       LET f == Last(p)
           t == FType[f]
           hit == IsFile(p) /\ Selected(f)
       IN IF hit /\ ~decodable[f]
          THEN /\ phase' = "crashed"
               /\ UNCHANGED <<pending, counted, byType, total>>
          ELSE /\ pending' = (pending \ {p}) \cup (IF IsDir(p) THEN Listing(p) ELSE {})
               /\ counted' = IF hit THEN [counted EXCEPT ![f] = @ + 1] ELSE counted
               /\ byType' = IF ~hit THEN byType
                            ELSE IF t \in DOMAIN byType
                            THEN [byType EXCEPT ![t] = AddFile(@, size[f])]
                            ELSE byType @@ (t :> AddFile(ZeroRow, size[f]))
               /\ total' = IF hit THEN AddFile(total, size[f]) ELSE total
               /\ UNCHANGED phase
  /\ UNCHANGED <<size, decodable, incGiven, incMatch, excMatch>>

\* print_stats dividing by the [SUM] row's file count instead of its size
PrintRows_DivideByCount ==
  /\ phase = "scan"
  /\ pending = {}
  /\ phase' = IF DOMAIN byType # {} /\ total.file_count = 0 THEN "crashed" ELSE "done"
  /\ UNCHANGED <<size, decodable, incGiven, incMatch, excMatch, pending, counted, byType, total>>

\* The rows of print_stats: each type's size as a percentage of the total,
\* which divides by zero when every file it counted is empty.
PrintRows ==
  /\ phase = "scan"
  /\ pending = {}
  /\ phase' = IF DOMAIN byType # {} /\ total.file_size = 0 THEN "crashed" ELSE "done"
  /\ UNCHANGED <<size, decodable, incGiven, incMatch, excMatch, pending, counted, byType, total>>

Next == VisitEntry \/ PrintRows

Spec == Init /\ [][Next]_vars

-----------------------------------------------------------------------------

\* The files a walk that follows links reaches from the root.
RECURSIVE ReachFrom(_, _)
ReachFrom(S, seen) ==
  IF S \subseteq seen THEN seen
  ELSE ReachFrom(UNION {IF Kind[e] = "file" THEN {}
                        ELSE Children[IF Kind[e] = "link" THEN Target[e] ELSE e]
                        : e \in S}, seen \cup S)
Reachable == ReachFrom(Children[Root], {})

TypeOK ==
  /\ pending \subseteq Seq(Entries)
  /\ counted \in [Files -> Nat]
  /\ DOMAIN byType \subseteq Types
  /\ phase \in {"scan", "done", "crashed"}

\* The files of a known type below the root, links followed, that the
\* include and exclude globs let through.
Wanted == {f \in Reachable \cap Typed :
             (incGiven => f \in incMatch) /\ f \notin excMatch}

\* The count and size a report row should show for the files S, given how
\* often each was yielded.
Tally(S) == [file_count |-> MapThenSumSet(LAMBDA f : counted[f], S),
             file_size |-> MapThenSumSet(LAMBDA f : counted[f] * size[f], S)]

\* When the walk ends, the report holds a row for exactly the types of the
\* files that pass the filters and lie somewhere below the root, every
\* such file has been yielded, and each row and the [SUM] row show the
\* count and size of the files yielded for it.  (A walk that raises
\* prints no report at all.)
WalkCoversTree ==
  phase = "done" =>
    /\ {f \in Files : counted[f] > 0} = Wanted
    /\ DOMAIN byType = {FType[f] : f \in Wanted}
    /\ \A t \in DOMAIN byType : byType[t] = Tally({f \in Files : FType[f] = t})
    /\ total = Tally(Files)

\* main prints no report exactly when a wanted file cannot be decoded, or
\* when there are wanted files and every one of them is empty: either
\* failure loses the whole report, wherever in the walk it is met.
ReportFailsExactlyWhen ==
  phase # "scan" =>
    (phase = "crashed" <=>
       \/ \E f \in Wanted : ~decodable[f]
       \/ Wanted # {} /\ \A f \in Wanted : size[f] = 0)

=============================================================================
