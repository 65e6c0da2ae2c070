-------------------------------- MODULE Lint --------------------------------
(***************************************************************************)
(* build_support/cpplint.py from its command line to its exit code: which  *)
(* of the errors its checks report are printed and counted.  Filters come  *)
(* from the flags and from the CPPLINT.cfg files of the directories above  *)
(* a file, NOLINT comments from the file, and the files of one command are *)
(* linted one after the other by the same process.                         *)
(*                                                                         *)
(* What the checks look for is not modelled here: while a file is linted   *)
(* any of Errors may be reported.  A category is the sequence of its       *)
(* names, so that "starts with" is IsPrefix.  linelength stands for the    *)
(* four settings a CPPLINT.cfg can change: extensions, headers and root    *)
(* are global variables just like _line_length.                            *)
(***************************************************************************)
EXTENDS Naturals, SequencesExt

CONSTANTS
    Files, Dirs,
    Above,          \* the directory above a file or a directory; Root has none
    Root,           \* where ProcessConfigOverrides stops looking
    Configs,        \* what may be in a directory: NoConfig, Unreadable, or lines
    NoConfig, Unreadable,
    Texts,          \* what may be in a file
    Flags,          \* command lines
    Errors,         \* what checks report: [category, confidence, line, ahead]
    DefaultFilters, \* _DEFAULT_FILTERS
    MaxReports      \* bound: errors the checks report in one file

Filters == [sign : STRING, prefix : Seq(STRING)]

\* From every directory the root is reached.  A line of a CPPLINT.cfg has a name and a
\* value; "none" and "unknown" stand for no NOLINT and for one with no known category.
ASSUME LintAssumption ==
    /\ Files # {} /\ Root \notin Dirs /\ NoConfig # Unreadable
    /\ Above \in [Files \cup Dirs -> Dirs \cup {Root}]
    /\ \A S \in SUBSET Dirs : S # {} => \E d \in S : Above[d] \notin S
    /\ DefaultFilters \in Seq(Filters)
    /\ \A k \in DOMAIN DefaultFilters : DefaultFilters[k].sign \in {"+", "-"}
    /\ \A f \in Flags : f.filters \in Seq(Filters) /\ f.names \in Seq(Files)
    /\ \A lines \in Configs \ {NoConfig, Unreadable} :
          /\ lines \in Seq(ToSet(lines))
          /\ \A k \in DOMAIN lines : lines[k].name = "filter" => lines[k].val \in Seq(Filters)
    /\ \A t \in Texts :
          /\ t.lines \in Seq(ToSet(t.lines)) /\ t.guard \subseteq DOMAIN t.lines
          /\ t.marks \subseteq {"c", "kernel"}
    /\ \A e \in Errors : e.category \notin {<<"none">>, <<"unknown">>}

VARIABLES
    phase,          \* "start", "file", "config", "open", "lint", "exited"
    flags,          \* the command line
    config, text,   \* what is in the directories and in the files
    batch,          \* filenames not processed yet
    file,           \* the file being processed
    filters, filters_backup, line_length, error_count,
    dir, base_name, \* the loop of ProcessConfigOverrides
    cfg_filters,
    suppressions,   \* _error_suppressions: pairs of a category and a line
    at,             \* lines that ProcessLine has processed
    parsed,         \* lines whose NOLINT comments were parsed (history)
    reported,       \* errors reported, with at and parsed of the time (history)
    printed,        \* those that were printed (history)
    exit_code

input == <<flags, config, text>>
settings == <<filters, filters_backup, line_length>>
search == <<dir, base_name, cfg_filters>>
comments == <<suppressions, at, parsed>>
results == <<error_count, reported, printed>>
vars == <<phase, input, batch, file, settings, search, comments, results, exit_code>>

TypeOK ==
    /\ phase \in {"start", "file", "config", "open", "lint", "exited"}
    /\ ToSet(batch) \cup {file} \subseteq Files
    /\ \A k \in DOMAIN filters : phase # "exited" => filters[k].sign \in {"+", "-"}
    /\ dir \in Dirs \cup {Root}
    /\ \A r \in reported : r.file \in Files /\ r.parsed \subseteq 1 .. Len(text[r.file].lines)
    /\ printed \subseteq reported
    /\ error_count \in Nat /\ (error_count > 0 <=> printed # {})
    /\ exit_code \in 0 .. 1

Init ==
    /\ phase = "start"
    /\ flags \in Flags
    /\ config \in [Dirs -> Configs]
    /\ text \in [Files -> Texts]
    /\ batch = <<>>
    /\ file = CHOOSE f \in Files : TRUE
    /\ filters = DefaultFilters /\ filters_backup = filters
    /\ line_length = 80
    /\ dir = Root /\ base_name = Root /\ cfg_filters = <<>>
    /\ suppressions = {}
    /\ at = 0 /\ parsed = {}
    /\ reported = {} /\ printed = {}
    /\ error_count = 0
    /\ exit_code = 0

-----------------------------------------------------------------------------
(***************************************************************************)
(* Filters.                                                                *)
(***************************************************************************)
Matches(filter, category) == IsPrefix(filter.prefix, category)

\* The loop of _ShouldPrintError: the last filter that matches decides.
IsFiltered(category) ==
    FoldLeft(LAMBDA is_filtered, filter :
                 IF Matches(filter, category) THEN filter.sign = "-" ELSE is_filtered,
             FALSE, filters)

\* A plausible mistake: the sign is not checked.
NotChecked(list) == TRUE

\* AddFilters: ValueError for one that begins with neither + nor -.
AllSigned(list) == \A k \in DOMAIN list : list[k].sign \in {"+", "-"}

\* An exception nothing catches ends the process.
Dies == phase' = "exited" /\ exit_code' = 1

-----------------------------------------------------------------------------
(***************************************************************************)
(* Command line.                                                           *)
(***************************************************************************)
\* _ExpandDirectories: with --recursive the names come out of a set, without those
\* that have not one of the extensions.
Orders(names, recursive) ==
    IF recursive THEN SetToSeqs({f \in ToSet(names) : text[f].extension}) ELSE {names}

\* _FilterExcludedFiles
WithoutExcluded(names) ==
    FoldLeft(LAMBDA kept, f : IF f \in flags.exclude THEN kept ELSE Append(kept, f),
             <<>>, names)

ParseArguments ==
    /\ phase = "start"
    /\ filters' = DefaultFilters \o flags.filters
    /\ line_length' = flags.linelength
    /\ IF flags.names = <<>> \/ ~AllSigned(filters')
       THEN Dies /\ UNCHANGED batch
       ELSE /\ \E order \in Orders(flags.names, flags.recursive) :
                  batch' = WithoutExcluded(order)
            /\ phase' = "file" /\ UNCHANGED exit_code
    /\ UNCHANGED <<input, file, filters_backup, search, comments, results>>

\* A plausible mistake: main's ResetErrorCounts is done for each file.
CountOfThisFile == 0

CountSoFar == error_count

\* ProcessFile, up to ProcessConfigOverrides.
BeginFile ==
    /\ phase = "file" /\ batch # <<>>
    /\ file' = Head(batch) /\ batch' = Tail(batch)
    /\ filters_backup' = filters
    /\ error_count' = CountSoFar
    /\ base_name' = file' /\ dir' = Above[file'] /\ cfg_filters' = <<>>
    /\ phase' = "config"
    /\ UNCHANGED <<input, filters, line_length, comments, reported, printed, exit_code>>

Exit ==
    /\ phase = "file" /\ batch = <<>>
    /\ exit_code' = IF error_count > 0 THEN 1 ELSE 0
    /\ phase' = "exited"
    /\ UNCHANGED <<input, batch, file, settings, search, comments, results>>

-----------------------------------------------------------------------------
(***************************************************************************)
(* ProcessConfigOverrides: from the directory of the file upwards.         *)
(***************************************************************************)

\* What one line of a CPPLINT.cfg does, unless an earlier one excluded the file.
AfterLine(state, line) ==
    IF state.excluded THEN state
    ELSE [state EXCEPT
            !.cfg_filters = IF line.name = "filter" THEN Append(@, line.val) ELSE @,
            !.line_length = IF line.name = "linelength" THEN line.val ELSE @,
            !.keep_looking = @ /\ line.name # "set noparent",
            !.excluded = line.name = "exclude_files" /\ base_name \in line.val]

AfterConfig(lines) ==
    FoldLeft(AfterLine,
             [cfg_filters |-> cfg_filters, line_length |-> line_length,
              keep_looking |-> TRUE, excluded |-> FALSE],
             lines)

\* A plausible mistake: the filters of a file stay for the next one.
NotRestored == filters

RestoreFilters == filters_backup

ReadConfig ==
    /\ phase = "config" /\ dir # Root
    /\ base_name' = dir
    /\ IF config[dir] \in {NoConfig, Unreadable}
       THEN /\ dir' = IF config[dir] = NoConfig THEN Above[dir] ELSE Root
            /\ UNCHANGED <<phase, settings, cfg_filters>>
       ELSE LET after == AfterConfig(config[dir])
            IN  /\ dir' = IF after.keep_looking THEN Above[dir] ELSE Root
                /\ cfg_filters' = after.cfg_filters
                /\ line_length' = after.line_length
                /\ phase' = IF after.excluded THEN "file" ELSE "config"
                /\ filters' = IF after.excluded THEN RestoreFilters ELSE filters
                /\ UNCHANGED filters_backup
    /\ UNCHANGED <<input, batch, file, comments, results, exit_code>>

OutermostFirst(list) == Reverse(list)

AddFilters ==
    /\ phase = "config" /\ dir = Root
    /\ filters' = filters \o FlattenSeq(OutermostFirst(cfg_filters))
    /\ IF AllSigned(filters') THEN phase' = "open" /\ UNCHANGED exit_code ELSE Dies
    /\ UNCHANGED <<input, batch, file, filters_backup, line_length, search, comments,
                   results>>

-----------------------------------------------------------------------------
(***************************************************************************)
(* One file.                                                               *)
(***************************************************************************)

\* What ProcessGlobalSuppresions looks for in a file, and what each suppresses.
Marks == [c |-> <<"readability", "casting">>, kernel |-> <<"whitespace", "tab">>]

Globally(t) == {Marks[m] : m \in t.marks}

\* ResetNolintSuppressions, then ProcessGlobalSuppresions.  Line 0 stands for every
\* line.
FreshSuppressions == {<<category, 0>> : category \in Globally(text[file])}

\* The file is read and ProcessFileData begins, unless it cannot be opened or
\* has not one of the extensions.
Open ==
    /\ phase = "open"
    /\ IF text[file].readable /\ text[file].extension
       THEN /\ suppressions' = FreshSuppressions
            /\ at' = 0 /\ parsed' = {}
            /\ phase' = "lint"
            /\ UNCHANGED settings
       ELSE /\ phase' = "file"
            /\ filters' = RestoreFilters
            /\ UNCHANGED <<comments, filters_backup, line_length>>
    /\ UNCHANGED <<input, batch, file, search, results, exit_code>>

\* IsErrorSuppressedByNolint; <<"*">> is None, all categories.
IsSuppressed(error, active) ==
    \/ <<error.category, 0>> \in active
    \/ <<error.category, error.line>> \in active
    \/ <<<<"*">>, error.line>> \in active

ShouldPrintError(error, active) ==
    /\ ~IsSuppressed(error, active)
    /\ error.confidence >= flags.verbose
    /\ ~IsFiltered(error.category)

\* Error, called for each of these.
Report(errors) ==
    LET records == {[file |-> file, error |-> e, at |-> at, parsed |-> parsed'] : e \in errors}
        shown   == {r \in records : ShouldPrintError(r.error, suppressions')}
    IN  /\ reported' = reported \cup records
        /\ printed' = printed \cup shown
        /\ error_count' = error_count + Cardinality(shown)

\* What the NOLINT comments on these lines suppress, and the errors that some of them
\* are themselves.
SuppressedBy(t, lines) ==
    {<<t.lines[k].category, IF t.lines[k].next THEN k + 1 ELSE k>> :
        k \in {j \in lines : t.lines[j].category \notin {<<"none">>, <<"unknown">>}}}

UnknownCategory(line) ==
    [category |-> <<"readability", "nolint">>, confidence |-> 5, line |-> line, ahead |-> FALSE]

Unknown(t, lines) ==
    {UnknownCategory(k) : k \in {j \in lines : t.lines[j].category = <<"unknown">>}}

\* ParseNolintSuppressions for these lines in their order, then Error for these errors.
\* Only a comment on its own line or on the one before can suppress UnknownCategory.
ParseNolintSuppressions(lines, errors) ==
    /\ suppressions' = suppressions \cup SuppressedBy(text[file], lines)
    /\ parsed' = parsed \cup lines
    /\ Report(Unknown(text[file], lines) \cup errors)

\* The lines CheckTrailingSemicolon parses before its error, which is about the line of
\* a closing brace.
Ahead(error) ==
    IF error.ahead THEN {error.line - 1, error.line} \cap DOMAIN text[file].lines ELSE {}

\* A check finds something, before the lines, at one of them, or after them.
Check(error) ==
    /\ phase = "lint"
    /\ error.ahead => at > 0 /\ error.line >= at
    /\ Cardinality({r \in reported : r.file = file /\ r.error \in Errors}) < MaxReports
    /\ ~ \E r \in reported : r.file = file /\ r.error = error /\ r.at = at
    /\ ParseNolintSuppressions(Ahead(error), {error})
    /\ UNCHANGED <<phase, input, batch, file, settings, search, at, exit_code>>

\* CheckForHeaderGuard comes before the lines, and parses those of an #ifndef it
\* objects to and of the last #endif: the lines guard of a text.
CheckForHeaderGuard ==
    /\ phase = "lint"
    /\ ~ text[file].guard \subseteq parsed
    /\ ParseNolintSuppressions(text[file].guard, {})
    /\ UNCHANGED <<phase, input, batch, file, settings, search, at, exit_code>>

\* ProcessLine begins with ParseNolintSuppressions.
ProcessLine ==
    /\ phase = "lint" /\ at < Len(text[file].lines)
    /\ text[file].guard \subseteq parsed
    /\ at' = at + 1
    /\ ParseNolintSuppressions({at + 1}, {})
    /\ UNCHANGED <<phase, input, batch, file, settings, search, exit_code>>

EndFile ==
    /\ phase = "lint" /\ at = Len(text[file].lines)
    /\ text[file].guard \subseteq parsed
    /\ filters' = RestoreFilters
    /\ phase' = "file"
    /\ UNCHANGED <<input, batch, file, filters_backup, line_length, search, comments,
                   results, exit_code>>

Next ==
    \/ ParseArguments \/ BeginFile \/ Exit
    \/ ReadConfig \/ AddFilters
    \/ Open \/ CheckForHeaderGuard \/ ProcessLine \/ EndFile
    \/ \E error \in Errors : Check(error)

Spec == Init /\ [][Next]_vars

-----------------------------------------------------------------------------
\* The search for configuration files goes upwards to the first one that says noparent
\* or that cannot be read.
Stops(d) ==
    \/ config[d] = Unreadable
    \/ /\ config[d] # NoConfig
       /\ \E k \in DOMAIN config[d] : config[d][k].name = "set noparent"

\* The lists of filters of the filter lines of d, the first line first.
Lists(d) ==
    IF config[d] \in {NoConfig, Unreadable} THEN <<>>
    ELSE FoldLeft(LAMBDA lists, line :
                      IF line.name = "filter" THEN Append(lists, line.val) ELSE lists,
                  <<>>, config[d])

\* The lists that concern what is in d, those of the nearest directory first.
ListsAbove[d \in Dirs \cup {Root}] ==
    IF d = Root THEN <<>>
    ELSE Lists(d) \o (IF Stops(d) THEN <<>> ELSE ListsAbove[Above[d]])

\* Lists filters come from, the most important one first; the first of them that
\* mentions the category decides, by the last filter there that does.
Sources(f) == ListsAbove[Above[f]] \o <<flags.filters, DefaultFilters>>

Mentions(list, category) == {k \in DOMAIN list : Matches(list[k], category)}

FilteredFor(f, category) ==
    LET found == {k \in DOMAIN Sources(f) : Mentions(Sources(f)[k], category) # {}}
        list  == Sources(f)[Min(found)]
    IN  found # {} /\ list[Max(Mentions(list, category))].sign = "-"

\* A NOLINT comment for the error on its line, or NOLINTNEXTLINE on the line before,
\* among those that had been parsed, or a mark for the whole file.
NolintFor(r) ==
    LET t == text[r.file] IN
    \/ r.error.category \in Globally(t)
    \/ \E k \in r.parsed :
          /\ t.lines[k].category \in {<<"*">>, r.error.category}
          /\ r.error.line = IF t.lines[k].next THEN k + 1 ELSE k

\* The lines whose comments count for an error: those up to the one ProcessLine is at
\* and, for an error of CheckTrailingSemicolon, those around the brace.
Counting(r) ==
    (1 .. r.at \cup IF r.error.ahead THEN {r.error.line - 1, r.error.line} ELSE {})
       \cap DOMAIN text[r.file].lines

\* Whether an error is printed depends on the flags, on the CPPLINT.cfg files
\* above the file, the nearest one first, and on the NOLINT comments of the file
\* that were parsed before, those of Counting among them; never on the files linted
\* before it.  So NOLINT on the line of an error suppresses it, as the usage text says,
\* except for other errors about a line that ProcessLine has still to come to
\* (cpplint.py:94-96, 1410-1435, 4225-4231, 6086, 6310-6313, 6407).
VerdictsAreLocal ==
    \A r \in reported :
        /\ Counting(r) \subseteq r.parsed
        /\ r \in printed <=>
              /\ r.error.confidence >= flags.verbose
              /\ ~FilteredFor(r.file, r.error.category)
              /\ ~NolintFor(r)

\* The exit code is 0 only if nothing was printed for any of the files, and 1 also
\* when the process died of a filter without a sign (cpplint.py:6586-6588, 6599).
ExitCodeTells ==
    phase = "exited" /\ exit_code = 0 => printed = {}

\* The directories whose CPPLINT.cfg concern what is in d, the nearest one first.
Chain[d \in Dirs \cup {Root}] ==
    IF d = Root THEN <<>>
    ELSE <<d>> \o (IF Stops(d) THEN <<>> ELSE Chain[Above[d]])

ConfigLines(d, name) ==
    IF config[d] \in {NoConfig, Unreadable} THEN <<>>
    ELSE SelectSeq(config[d], LAMBDA line : line.name = name)

\* The usage message says a CPPLINT.cfg has an effect on files in the same directory
\* and below "unless overridden by a nested configuration file": the length in
\* force for a file is the one of the nearest such file that sets it, or the flag's
\* (cpplint.py:250-251, 6286-6291).
LengthOfNearest ==
    phase = "lint" =>
        LET dirs    == Chain[Above[file]]
            setting == {k \in DOMAIN dirs : ConfigLines(dirs[k], "linelength") # <<>>}
        IN  line_length = IF setting = {} THEN flags.linelength
                          ELSE Last(ConfigLines(dirs[Min(setting)], "linelength")).val
=============================================================================
