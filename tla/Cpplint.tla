------------------------------- MODULE Cpplint -------------------------------
(***************************************************************************)
(* The parts of cpplint.py: Lint, and what it keeps while it reads one     *)
(* file, NestingState, Expression, IncludeState, FunctionState,            *)
(* CleansedLines and HeaderGuard.  They have no state in common, so each   *)
(* behaviour is one of one of them.  Only InAsmBlock couples them: while   *)
(* it holds, ProcessLine returns before the checks of IncludeState and     *)
(* FunctionState, whose lines are therefore lines outside inline assembler.*)
(***************************************************************************)
EXTENDS Lint, TLC

CONSTANTS
    BlockLines, OtherLines, Directives, MaxBlocks, MaxIfs,      \* NestingState
    MaxOpen,                                        \* Expression
    Target, Home, Paths, Standard, Rank, OnDisk, HeaderExtensions, SourceExtensions, Uses,
    MaxLines,                                       \* IncludeState
    NORMAL_TRIGGER, TEST_TRIGGER, VerboseLevels, MaxBody,       \* FunctionState
    Tokens, MaxTokens,                              \* CleansedLines
    Header, Alien, Places, Control, Roots, MaxDirectives,       \* HeaderGuard
    ReadIn          \* where lines of headers are read; what they say is the same in all

VARIABLES
    part,                                                   \* which of them
    stack, pp_stack, truth, seen_else, ended, failed,       \* NestingState
    way, open, outcome, before, word, word1, first, nest, proper, nested_in,    \* Expression
    include_list, section, last_header, adjacent, required, said, missing, done, length,
    block, branches, inside, again, ifs, nested, dropped,   \* IncludeState
    verbose, in_a_function, lines_in_function, is_test, awaited, report, body, simple,
                                                            \* FunctionState
    source, count, mode, code, kept, plain, usual,          \* CleansedLines
    place, control, repository, root, ifndef, define, endif, excused, single, verdict,
    checked, shape, depth, guard, closing, read             \* HeaderGuard

-----------------------------------------------------------------------------
Nesting == INSTANCE NestingState WITH Lines <- BlockLines, MaxNesting <- MaxBlocks

Expr == INSTANCE Expression
    WITH MaxNesting <- MaxOpen, stack <- open, found <- outcome, op <- word, op1 <- word1,
         plain <- proper, all <- nested_in

Includes == INSTANCE IncludeState WITH Root <- Home, lines <- length

Function == INSTANCE FunctionState WITH MaxLines <- MaxBody, length <- body

Cleansed == INSTANCE CleansedLines WITH text <- source

Guard == INSTANCE HeaderGuard
    WITH MaxLines <- MaxDirectives, report <- verdict, done <- checked

ASSUME IncludeAssumption == Includes!IncludeAssumption
ASSUME FunctionAssumption == Function!FunctionAssumption
ASSUME CleansedAssumption == Cleansed!CleansedAssumption
ASSUME GuardAssumption == Guard!GuardAssumption

-----------------------------------------------------------------------------
nestVars == <<stack, pp_stack, truth, seen_else, ended, failed>>
exprVars == <<way, open, outcome, before, word, word1, first, nest, proper, nested_in>>
inclVars == <<include_list, section, last_header, adjacent, required, said, missing, done,
              length, block, branches, inside, again, ifs, nested, dropped>>
funcVars == <<verbose, in_a_function, lines_in_function, is_test, awaited, report, body, simple>>
textVars == <<source, count, mode, code, kept, plain, usual>>
guardVars == <<place, control, repository, root, ifndef, define, endif, excused, single,
               verdict, checked, shape, depth, guard, closing, read>>
allVars == <<part, vars, nestVars, exprVars, inclVars, funcVars, textVars, guardVars>>

\* Where each part begins; the parts that stand still begin in one way only.
CpplintInit ==
    /\ part \in {"lint", "nesting", "expression", "includes", "function", "text", "guard"}
    /\ Init
    /\ part # "lint" =>
         /\ flags = CHOOSE f \in Flags : TRUE
         /\ config = [d \in Dirs |-> NoConfig]
         /\ text = [f \in Files |-> CHOOSE t \in Texts : TRUE]
    /\ Nesting!Init /\ Includes!Init /\ Cleansed!Init
    /\ Expr!Init
    /\ part # "expression" => way = "forward" /\ first = "(" /\ ~word1
    /\ Function!Init
    /\ part # "function" => verbose = CHOOSE v \in VerboseLevels : TRUE
    /\ Guard!Init
    /\ part # "guard" =>
         <<place, control, repository, root>> = CHOOSE t \in ReadIn : TRUE

LintPart(A) ==
    /\ part = "lint" /\ A
    /\ UNCHANGED <<part, nestVars, exprVars, inclVars, funcVars, textVars, guardVars>>
NestPart(A) ==
    /\ part = "nesting" /\ A
    /\ UNCHANGED <<part, vars, exprVars, inclVars, funcVars, textVars, guardVars>>
ExprPart(A) ==
    /\ part = "expression" /\ A
    /\ UNCHANGED <<part, vars, nestVars, inclVars, funcVars, textVars, guardVars>>
InclPart(A) ==
    /\ part = "includes" /\ A
    /\ UNCHANGED <<part, vars, nestVars, exprVars, funcVars, textVars, guardVars>>
FuncPart(A) ==
    /\ part = "function" /\ A
    /\ UNCHANGED <<part, vars, nestVars, exprVars, inclVars, textVars, guardVars>>
TextPart(A) ==
    /\ part = "text" /\ A
    /\ UNCHANGED <<part, vars, nestVars, exprVars, inclVars, funcVars, guardVars>>
GuardPart ==
    /\ part = "guard"
    /\ Guard!Next
    /\ <<place, control, repository, root>> \in ReadIn
    /\ UNCHANGED <<part, vars, nestVars, exprVars, inclVars, funcVars, textVars>>

CpplintNext ==
    \/ LintPart(Next) \/ NestPart(Nesting!Next) \/ ExprPart(Expr!Next)
    \/ InclPart(Includes!Next) \/ FuncPart(Function!ReadLine) \/ TextPart(Cleansed!Next)
    \/ GuardPart

CpplintSpec == CpplintInit /\ [][CpplintNext]_allVars

\* The properties of the other modules, by the names they have there.  An invariant of
\* a part that takes long to evaluate is evaluated in its own behaviours only.
PartsTypeOK ==
    /\ TypeOK /\ Expr!TypeOK /\ Includes!TypeOK /\ Function!TypeOK
    /\ Cleansed!TypeOK /\ Guard!TypeOK

\* NestingState follows the blocks of the text, conditionals included: the stack is the
\* blocks that are open, a file that closes what it opens passes CheckCompletedBlocks, and
\* lines skipped as assembler end with the asm statement.
NestingIsSound ==
    /\ Nesting!TypeOK
    /\ Nesting!StackIsNesting /\ Nesting!CompleteFilesPass /\ Nesting!AsmEnds

\* CloseExpression and ReverseCloseExpression end at the matching bracket, of templates
\* as of parentheses, over several lines.
BracketsFound == Expr!MatchFound /\ Expr!TemplateFound

\* What is said of the includes is true of them: their order, relative to the include
\* before, those listed twice, and those missing.
IncludesAreSound ==
    Includes!OrderIsRelative /\ Includes!DuplicatesAreReal /\ Includes!MissingIsMissing

LongFunctionsShow == Function!LongFunctionsShow

\* Comments, literals and raw strings are taken out of the lines, and nothing else is.
CodeIsKept == part = "text" => Cleansed!ElidedIsCode /\ Cleansed!LinesAreCode

\* The name of the header guard does not depend on where the checkout is, and the guard
\* that is in the file is found.
GuardIsSound == (part = "guard" => Guard!GuardIsPortable) /\ Guard!GuardFound
=============================================================================
