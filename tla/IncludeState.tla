---------------------------- MODULE IncludeState ----------------------------
(***************************************************************************)
(* What build_support/cpplint.py says of the #include lines of one file:   *)
(* _IncludeState, CheckIncludeLine with _ClassifyInclude, the part of      *)
(* CheckLanguage that resets the sections at preprocessor conditionals     *)
(* and, at the end of the file, CheckForIncludeWhatYouUse and              *)
(* CheckHeaderFileIncluded.                                                *)
(*                                                                         *)
(* A path is a record: dir is the sequence of its directories, base the    *)
(* sequence of the words of its name between "-" and "_", ext its          *)
(* extension.  Of substrings of a path the model tells apart whole words.  *)
(* The lines carry what the regular expressions find in them.              *)
(***************************************************************************)
EXTENDS Naturals, FiniteSets, SequencesExt

CONSTANTS
    Target,             \* the file being checked, as FileInfo.RepositoryName has it
    Root,               \* the directories above the repository
    Paths,              \* what #include lines name
    Standard,           \* the members of Paths in _CPP_HEADERS
    Rank,               \* place of a canonicalised path in the alphabet, from 1
    OnDisk,             \* header files that can be opened |-> the paths they include
    HeaderExtensions,   \* GetHeaderExtensions
    SourceExtensions,   \* GetNonHeaderExtensions
    Uses,               \* lines that name something of the standard library
    MaxLines            \* bound: length of the file

\* The file is none of the standard library's.
IncludeAssumption ==
    /\ Standard \subseteq Paths \ {Target}
    /\ \A p \in Paths : Rank[p] \in Nat \ {0}
    /\ \A use \in Uses : use.header \in Standard

VARIABLES
    include_list,   \* the lists of paths seen, one for each #if begun
    section,        \* _section
    last_header,    \* rank of _last_header, 0 if it is ''
    adjacent,       \* the line before is an #include line
    required,       \* the headers of the templates used
    said,           \* the categories reported for the last line
    missing,        \* reported at the end of the file; Target for its own header
    done,           \* the file is read
    lines,          \* how many lines were read
    block,          \* kinds of the headers since the last conditional (history)
    branches,       \* the branches the line is in, outermost first (history)
    inside,         \* <<path, branches>> of every #include line so far (history)
    again,          \* a line compiled together with the last one names the same (history)
    ifs,            \* how many #if there were (history)
    nested,         \* an #if was begun inside a branch (history)
    dropped         \* numbers of the #if that had an #else (history)

history == <<block, branches, inside, again, ifs, nested, dropped>>
vars == <<include_list, section, last_header, adjacent, required, said, missing, done,
          lines, history>>

Kinds == {"c", "cpp", "likely", "possible", "other"}
Categories == {"include_subdir", "duplicate", "package", "include_order", "include_alpha"}

TypeOK ==
    /\ \A k \in DOMAIN include_list : Range(include_list[k]) \subseteq Paths
    /\ include_list # <<>>
    /\ section \in 0..4 /\ last_header \in Nat
    /\ required \subseteq Paths /\ missing \subseteq Paths \cup {Target}
    /\ said \subseteq Categories
    /\ adjacent \in BOOLEAN /\ done \in BOOLEAN
    /\ \A k \in DOMAIN block : block[k] \in Kinds \cup {"unnoted"}

-----------------------------------------------------------------------------
\* Paths.
TestWords == {"test", "regtest", "unittest"}
HeaderWords == {"inl", "imp", "internal"}

\* _DropCommonSuffixes, of the name.
DropCommonSuffixes(p) ==
    IF Len(p.base) > 1 /\ \/ p.ext \in SourceExtensions /\ Last(p.base) \in TestWords
                          \/ p.ext \in HeaderExtensions /\ Last(p.base) \in HeaderWords
    THEN Front(p.base) ELSE p.base

IsSource == Target.ext \in SourceExtensions

\* One path ends with the other: "a/b.h" is found in "x/a/b.h" and in "x/a/b.hpp".
EndsWith(p, q) ==
    /\ p.ext = q.ext \/ (p.ext = "hpp" /\ q.ext = "h")
    /\ IF q.dir = <<>> THEN IsSuffix(q.base, p.base)
       ELSE p.base = q.base /\ IsSuffix(q.dir, p.dir)

\* The header of the target with this extension: its name in the repository, or its
\* full name if there is no such file.
HeaderOf(ext) ==
    LET h == [Target EXCEPT !.ext = ext] IN
    IF h \in DOMAIN OnDisk THEN h ELSE [h EXCEPT !.dir = Root \o h.dir]

NamesHeader(p, ext) == EndsWith(p, HeaderOf(ext)) \/ EndsWith(HeaderOf(ext), p)

\* _THIRD_PARTY_HEADERS_PATTERN.
ThirdParty(p) == p.dir = <<>> /\ p.ext = "h" /\ p.foreign

\* _ClassifyInclude.  The directory beside that is called public counts as the same.
Beside(dir) == IF dir = <<>> THEN <<"..", "public">> ELSE Append(Front(dir), "public")

ClassifyInclude(p, is_system) ==
    IF is_system /\ p.ext # "hpp" THEN IF p \in Standard THEN "cpp" ELSE "c"
    ELSE IF DropCommonSuffixes(p) = DropCommonSuffixes(Target)
            /\ p.dir \in {Target.dir, Beside(Target.dir)} THEN "likely"
    ELSE IF DropCommonSuffixes(p)[1] = DropCommonSuffixes(Target)[1] THEN "possible"
    ELSE "other"

-----------------------------------------------------------------------------
Seen == UNION {Range(include_list[k]) : k \in DOMAIN include_list}

\* CheckNextIncludeOrder: the section an include leads to, and whether it is in order.
Sections == [c |-> 2, cpp |-> 3, likely |-> 1, possible |-> 1, other |-> 4]

InOrder(kind) == kind \in {"c", "cpp"} => section <= Sections[kind]

\* A plausible mistake: an include out of order moves the section back.
NextSectionBack(kind) == Sections[kind]

NextSection(kind) ==
    IF ~InOrder(kind) THEN section
    ELSE IF section <= Sections[kind] THEN Sections[kind] ELSE 4

\* SetLastHeader was undone if the section changed or the order was wrong.
Alphabetical(p, kind) ==
    ~InOrder(kind) \/ NextSection(kind) # section \/ last_header <= Rank[p] \/ ~adjacent

SubdirMissing(p, is_system) ==
    ~is_system /\ p.dir = <<>> /\ p.ext = "h" /\ ~ThirdParty(p)

FromOtherPackage(p) == p.ext \in SourceExtensions /\ p.dir # Target.dir

\* The path is noted and its order checked.
Counts(p) == (\E ext \in HeaderExtensions : NamesHeader(p, ext)) \/ ~ThirdParty(p)

Subdir(p, is_system) == IF SubdirMissing(p, is_system) THEN {"include_subdir"} ELSE {}

\* CheckIncludeLine: where it returns, and what it reports.
Refused(p, is_system) ==
    /\ p \in Seen \/ FromOtherPackage(p)
    /\ said' = Subdir(p, is_system) \cup {IF p \in Seen THEN "duplicate" ELSE "package"}
    /\ block' = Append(block, "unnoted")
    /\ UNCHANGED <<include_list, section, last_header>>

Skipped(p, is_system) ==
    /\ p \notin Seen /\ ~FromOtherPackage(p) /\ ~Counts(p)
    /\ said' = Subdir(p, is_system)
    /\ block' = Append(block, "unnoted")
    /\ UNCHANGED <<include_list, section, last_header>>

Noted(p, is_system) ==
    LET kind == ClassifyInclude(p, is_system) IN
    /\ p \notin Seen /\ ~FromOtherPackage(p) /\ Counts(p)
    /\ include_list' = [include_list EXCEPT ![Len(include_list)] = Append(@, p)]
    /\ section' = NextSection(kind)
    /\ said' = Subdir(p, is_system)
               \cup (IF InOrder(kind) THEN {} ELSE {"include_order"})
               \cup (IF Alphabetical(p, kind) THEN {} ELSE {"include_alpha"})
    /\ last_header' = Rank[p]
    /\ block' = Append(block, kind)

ReadLine == ~done /\ lines < MaxLines /\ lines' = lines + 1 /\ UNCHANGED <<done, missing>>

\* Two lines may end up in the same compilation.
Together(a, b) ==
    \A k \in DOMAIN a \cap DOMAIN b : a[k][1] = b[k][1] => a[k][2] = b[k][2]

IncludeLine ==
    /\ ReadLine
    /\ \E p \in Paths, is_system \in BOOLEAN :
         /\ Refused(p, is_system) \/ Skipped(p, is_system) \/ Noted(p, is_system)
         /\ inside' = inside \cup {<<p, branches>>}
         /\ again' = \E i \in inside : i[1] = p /\ Together(i[2], branches)
    /\ adjacent' = TRUE
    /\ UNCHANGED <<required, branches, ifs, nested, dropped>>

\* ResetSection: "Note that we never pop from the include list."
Lists(directive) ==
    CASE directive = "if" -> Append(include_list, <<>>)
      [] directive = "else" -> [include_list EXCEPT ![Len(include_list)] = <<>>]
      [] OTHER -> include_list

\* A preprocessor conditional, in a file where they are balanced.
Conditional ==
    /\ ReadLine
    /\ \E directive \in {"if", "else", "endif"} :
         /\ directive # "if" => branches # <<>>
         /\ include_list' = Lists(directive)
         /\ ifs' = IF directive = "if" THEN ifs + 1 ELSE ifs
         /\ branches' =
              CASE directive = "if" -> Append(branches, <<ifs + 1, 1>>)
                [] directive = "else" -> [branches EXCEPT ![Len(branches)][2] = @ + 1]
                [] directive = "endif" -> Front(branches)
         /\ nested' = (nested \/ (directive = "if" /\ branches # <<>>))
         /\ dropped' = IF directive = "else" THEN dropped \cup {Last(branches)[1]} ELSE dropped
    /\ section' = 0 /\ last_header' = 0
    /\ said' = {} /\ adjacent' = FALSE /\ block' = <<>>
    /\ UNCHANGED <<required, inside, again>>

\* A line of code.  A name of the library counts if it is not qualified, or with std;
\* some patterns do not look at the qualification.
CodeLine ==
    /\ ReadLine
    /\ \E use \in Uses :
         required' = IF use.qualified /\ ~use.maybe THEN required
                     ELSE required \cup {use.header}
    /\ adjacent' = FALSE /\ said' = {}
    /\ UNCHANGED <<include_list, section, last_header, history>>

-----------------------------------------------------------------------------
\* FilesBelongToSameModule.
WithoutPublic(dir) == SelectSeq(dir, LAMBDA d : d \notin {"public", "internal"})
ModuleOfTarget ==
    [dir |-> WithoutPublic(Root \o Target.dir),
     base |-> IF Len(Target.base) > 1 /\ Last(Target.base) \in TestWords
              THEN Front(Target.base) ELSE Target.base]
ModuleOf(p) ==
    [dir |-> IF p.dir = <<>> THEN <<>> ELSE <<Head(p.dir)>> \o WithoutPublic(Tail(p.dir)),
     base |-> IF Len(p.base) > 1 /\ Last(p.base) = "inl" THEN Front(p.base) ELSE p.base]

SameModule(p) ==
    /\ IsSource /\ p.ext \in HeaderExtensions
    /\ LET cc == ModuleOfTarget  h == ModuleOf(p)
       IN  IF h.dir = <<>> THEN IsSuffix(h.base, cc.base)
           ELSE h.base = cc.base /\ IsSuffix(h.dir, cc.dir)

\* The file that is opened for p: the rest of the target's path is put before it.
Opened(p) ==
    LET above == SubSeq(ModuleOfTarget.dir, Len(Root) + 1,
                        Len(ModuleOfTarget.dir) - Len(ModuleOf(p).dir))
    IN  [p EXCEPT !.dir = above \o p.dir]

OwnHeaders == {p \in Seen : SameModule(p) /\ Opened(p) \in DOMAIN OnDisk}

\* CheckForIncludeWhatYouUse.
Available == Seen \cup UNION {OnDisk[Opened(p)] : p \in OwnHeaders}
NotIncluded == IF OwnHeaders = {} /\ IsSource THEN {} ELSE required \ Available

\* CheckHeaderFileIncluded: the extensions are looked at in any order, up to one whose
\* header is included.
Existing == {ext \in HeaderExtensions : [Target EXCEPT !.ext = ext] \in DOMAIN OnDisk}
Included == {ext \in Existing : \E p \in Seen : NamesHeader(p, ext)}

HeaderMissing ==
    /\ IsSource /\ Last(Target.base) \notin TestWords
    /\ Existing \ Included # {}

EndOfFile ==
    /\ ~done /\ done' = TRUE
    /\ \E looked \in SUBSET (Existing \ Included) :
         /\ Included = {} => looked = Existing
         /\ missing' = NotIncluded \cup IF HeaderMissing /\ looked # {} THEN {Target} ELSE {}
    /\ UNCHANGED <<include_list, section, last_header, adjacent, required, said, lines, history>>

Init ==
    /\ include_list = << <<>> >> /\ section = 0 /\ last_header = 0
    /\ adjacent = FALSE /\ required = {} /\ said = {} /\ missing = {}
    /\ done = FALSE /\ lines = 0
    /\ block = <<>> /\ branches = <<>> /\ inside = {} /\ again = FALSE /\ ifs = 0
    /\ nested = FALSE /\ dropped = {}

Next == IncludeLine \/ Conditional \/ CodeLine \/ EndOfFile

Spec == Init /\ [][Next]_vars

-----------------------------------------------------------------------------
\* The place of an include among "foo.h, c system, c++ system, other": the file's own
\* header may also come later, with the others (cpplint.py:4842-4847).
Place(b, k) ==
    IF b[k] \in {"likely", "possible"}
    THEN IF \E j \in 1..(k - 1) : b[j] \in {"c", "cpp", "other"} THEN 4 ELSE 1
    ELSE IF b[k] = "unnoted" THEN 0 ELSE Sections[b[k]]

\* An include is reported as out of order exactly if, since the last conditional, one
\* stands before it that must come after: an error does not spoil the verdicts after
\* it (cpplint.py:950-1001).
OrderIsRelative ==
    block # <<>> /\ adjacent =>
        ("include_order" \in said <=>
            /\ block[Len(block)] \in {"c", "cpp"}
            /\ \E j \in 1..(Len(block) - 1) : Place(block, j) > Place(block, Len(block)))

\* An include is reported as a duplicate only if some line before it that is compiled
\* together with it names the same header; conditionals inside a branch are left out,
\* of which #else clears the wrong list (cpplint.py:904-909, 4981-4985).
DuplicatesAreReal == "duplicate" \in said /\ ~nested => again

\* A header reported as missing at the end of the file is not included in it, except
\* in a conditional that has an #else (cpplint.py:2213-2237, 5782-5880).
MissingIsMissing ==
    /\ \A i \in inside :
         i[1] \in missing \ {Target} => ~Counts(i[1]) \/ FromOtherPackage(i[1])
                             \/ nested \/ \E k \in DOMAIN i[2] : i[2][k][1] \in dropped
    /\ Target \in missing =>
         \A i \in inside : (\A ext \in Existing : NamesHeader(i[1], ext)) =>
             nested \/ FromOtherPackage(i[1]) \/ \E k \in DOMAIN i[2] : i[2][k][1] \in dropped
=============================================================================
