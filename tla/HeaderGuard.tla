----------------------------- MODULE HeaderGuard -----------------------------
(***************************************************************************)
(* The name build_support/cpplint.py wants a header guard to have, from    *)
(* where the file is (FileInfo.RepositoryName, GetHeaderGuardCPPVariable), *)
(* and what it finds of the guard in the lines (CheckForHeaderGuard).      *)
(*                                                                         *)
(* A path is the sequence of its names from / on, and the name of a guard  *)
(* the path it is made of; deprecated says that it ends with two           *)
(* underscores.  The suggested name is compared as a path: that two paths  *)
(* may become the same identifier is left out.  cpplint runs at the top of *)
(* the repository, of files that exist; directives stand at the margin,    *)
(* without a blank after the #.                                            *)
(***************************************************************************)
EXTENDS Naturals, SequencesExt

CONSTANTS
    Header,         \* the header's path in its repository
    Places,         \* where the repository may be
    Control,        \* version controls: the directories with a .git, .hg or .svn in them
    Roots,          \* what --root may be, from the repository on; <<>> is none
    Alien,          \* a name that is not the header's
    MaxLines        \* bound: length of the file

\* Subversion has its .svn in every directory or, since 1.7, only in the topmost one.
GuardAssumption ==
    /\ Header \in Seq(STRING) \ {<<>>} /\ Alien \in Seq(STRING) \ {<<>>}
    /\ Places \subseteq Seq(STRING) \ {<<>>} /\ Roots \subseteq Seq(STRING)
    /\ \A c \in Control : c.svn \in BOOLEAN /\ c.dirs \subseteq Seq(STRING)
    /\ \A c \in Control : c.svn /\ Front(Header) \in c.dirs =>
          \A n \in 0 .. Len(Header) - 1 : SubSeq(Header, 1, n) \in c.dirs

VARIABLES
    place, control,                         \* where the repository is, its control
    repository, root,                       \* whether --repository names it; --root
    ifndef, define, endif,                  \* what was found in the lines read
    excused,                                \* #pragma once, or NOLINT for the guard
    single,                                 \* there is a // comment
    report,                                 \* confidences reported, when done
    done,
    shape, depth, guard, closing,           \* what a preprocessor finds (history)
    read                                    \* how many lines were read

tree == <<place, control, repository, root>>
found == <<ifndef, define, endif, excused, single>>
history == <<shape, depth, guard, closing, read>>
vars == <<tree, found, report, done, history>>

None == [path |-> <<>>, deprecated |-> FALSE]
Names == [path : {Header, Alien}, deprecated : BOOLEAN]
NoComment == [name |-> None, style |-> ""]
Comments == [name : Names, style : {"//", "/*"}] \cup {NoComment}

TypeOK ==
    /\ {ifndef, define, guard} \subseteq Names \cup {None}
    /\ endif \in Comments
    /\ report \subseteq {0, 5} /\ (report # {} => done)
    /\ shape \in {"before", "opened", "inside", "closed", "other"}
    /\ depth \in Nat /\ closing \in Comments

-----------------------------------------------------------------------------
\* FileInfo.
FullName == place \o Header
project_dir == Front(FullName)

\* Directories from the file's own upwards; / is not looked at.
Upwards(dir) == {SubSeq(dir, 1, n) : n \in 1 .. Len(dir)}
Controlled(dir) == \E c \in control.dirs : dir = place \o c

\* A plausible mistake: the search ends at the first directory it finds.
Nearest(dirs) == CHOOSE d \in dirs : \A e \in dirs : Len(e) <= Len(d)

Outermost(dirs) == CHOOSE d \in dirs : \A e \in dirs : Len(d) <= Len(e)

\* .svn is looked for as long as each directory has one.
SvnTop ==
    Outermost({d \in Upwards(project_dir) :
                  \A n \in Len(d) .. Len(project_dir) : Controlled(SubSeq(project_dir, 1, n))})

Below(dir, path) == SubSeq(path, Len(dir) + 1, Len(path))

RepositoryName ==
    LET dirs == {d \in Upwards(project_dir) : Controlled(d)}
    IN  IF repository THEN Below(place, FullName)
        ELSE IF control.svn /\ Controlled(project_dir) THEN Below(SvnTop, FullName)
        ELSE IF dirs = {} THEN FullName
        ELSE Below(Outermost(dirs), FullName)

\* FixupPathFromRoot: --root is taken off the name if it begins with it, or else
\* off the full name.
FixupPathFromRoot ==
    LET absolute == IF root = <<"..">> THEN Front(place) ELSE place \o root
    IN  IF IsPrefix(root, RepositoryName) THEN Below(root, RepositoryName)
        ELSE IF IsPrefix(absolute, FullName) THEN Below(absolute, FullName)
        ELSE RepositoryName

cppvar == [path |-> FixupPathFromRoot, deprecated |-> FALSE]
IsCppvar(name) == name.path = cppvar.path

-----------------------------------------------------------------------------
\* endif after another #endif with this comment: the last one counts.
LastEndif(comment) == comment

Reading == ~done /\ read < MaxLines /\ read' = read + 1 /\ UNCHANGED <<tree, report, done>>

Ifndef(name) ==
    /\ Reading
    /\ ifndef' = IF ifndef = None THEN name ELSE ifndef
    /\ depth' = depth + 1
    /\ shape' = CASE shape = "before" -> "opened"
                  [] shape = "inside" -> "inside"
                  [] OTHER -> "other"
    /\ guard' = IF shape = "before" THEN name ELSE guard
    /\ UNCHANGED <<define, endif, excused, single, closing>>

Define(name) ==
    /\ Reading
    /\ define' = IF define = None THEN name ELSE define
    /\ shape' = CASE shape = "inside" -> "inside"
                  [] shape = "opened" /\ name = guard -> "inside"
                  [] OTHER -> "other"
    /\ UNCHANGED <<ifndef, endif, excused, single, depth, guard, closing>>

\* Any other conditional.
If ==
    /\ Reading
    /\ depth' = depth + 1
    /\ shape' = IF shape = "inside" THEN "inside" ELSE "other"
    /\ UNCHANGED <<found, guard, closing>>

Endif(comment) ==
    /\ Reading /\ depth > 0
    /\ depth' = depth - 1
    /\ endif' = LastEndif(comment)
    /\ single' = (single \/ comment.style = "//")
    /\ shape' = CASE shape = "inside" /\ depth = 1 -> "closed"
                  [] shape = "inside" /\ depth # 1 -> "inside"
                  [] OTHER -> "other"
    /\ closing' = IF shape' = "closed" THEN comment ELSE closing
    /\ UNCHANGED <<ifndef, define, excused, guard>>

\* A line with a // comment, or one that excuses the file from the check.
Comment(excuse) ==
    /\ Reading
    /\ single' = TRUE
    /\ excused' = (excused \/ excuse)
    /\ UNCHANGED <<ifndef, define, endif, shape, depth, guard, closing>>

\* What CheckForHeaderGuard reports of the guard's name and of the last #endif.
NameReport ==
    IF ~IsCppvar(ifndef) THEN {5} ELSE IF ifndef.deprecated THEN {0} ELSE {}

EndifReport ==
    IF IsCppvar(endif.name) /\ (endif.style = "//" \/ (endif.style = "/*" /\ ~single))
    THEN IF endif.name.deprecated THEN {0} ELSE {}
    ELSE {5}

CheckForHeaderGuard ==
    /\ ~done /\ done' = TRUE
    /\ report' = IF excused THEN {}
                 ELSE IF ifndef = None \/ define # ifndef THEN {5}
                 ELSE NameReport \cup EndifReport
    /\ UNCHANGED <<tree, found, history>>

Init ==
    /\ place \in Places
    /\ control \in Control
    /\ repository \in BOOLEAN /\ root \in Roots
    /\ ifndef = None /\ define = None /\ endif = NoComment
    /\ excused = FALSE /\ single = FALSE
    /\ report = {} /\ done = FALSE
    /\ shape = "before" /\ depth = 0 /\ guard = None /\ closing = NoComment /\ read = 0

Next ==
    \/ \E name \in Names : Ifndef(name) \/ Define(name)
    \/ If
    \/ \E comment \in Comments : Endif(comment)
    \/ \E excuse \in BOOLEAN : Comment(excuse)
    \/ CheckForHeaderGuard

Spec == Init /\ [][Next]_vars

-----------------------------------------------------------------------------
\* "people on different computers who have checked the source out to different
\* locations won't see bogus errors": in a repository that can be recognised, whatever
\* is inside it and wherever it is, the guard has the name of the header's path in it
\* (cpplint.py:1319-1377, 2034-2107).
GuardIsPortable ==
    (repository \/ <<>> \in control.dirs) /\ root # <<"..">> =>
        cppvar.path = IF IsPrefix(root, Header) THEN Below(root, Header) ELSE Header

\* A header all of whose directives are between #ifndef, #define and their #endif is
\* reported exactly if the name is not the suggested one or the #endif does not say it,
\* after // or, in a file without such comments, between /* and */, whatever
\* conditionals it holds (cpplint.py:2127-2210).
GuardFound ==
    done /\ shape = "closed" /\ ~excused =>
        (5 \notin report <=>
            /\ IsCppvar(guard) /\ IsCppvar(closing.name)
            /\ closing.style = "//" \/ (closing.style = "/*" /\ ~single))
=============================================================================
